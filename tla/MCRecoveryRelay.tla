--------------------------- MODULE MCRecoveryRelay ---------------------------
(* Small instances of RecoveryRelay.                                       *)
EXTENDS RecoveryRelay

\* Whole dumps, partial dumps, stops and the two simple commands.
AllRequests == {<<"StartLogDump", 0, 0>>, <<"StartLogDump", 1, 2>>,
                <<"StopLogDump", 0, 0>>, <<"Wake", 0, 0>>, <<"ExitRecovery", 0, 0>>}

=============================================================================
