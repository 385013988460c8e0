------------------------------- MODULE MCLoraTx -------------------------------
(* Small instances of LoraTx.                                              *)
EXTENDS LoraTx

Packets(g, c, e) ==
    [s \in Answer |-> CASE s = "GroundTimeRequest" -> g
                        [] s = "CommandResult" -> c
                        [] s = "EmergencyResult" -> e]

\* Two answers of one kind and one of a higher: an answer can be preempted while a
\* chunk is deferred.
MixedAnswers == Packets(0, 2, 1)
=============================================================================
