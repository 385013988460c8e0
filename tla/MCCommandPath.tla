---------------------------- MODULE MCCommandPath ----------------------------
(* Small instances of CommandPath.                                         *)
EXTENDS CommandPath

Generic(id, command) ==
    [transaction_id |-> id, command |-> command, args |-> "x"]

\* Commands with three ids, one id also used for a second command, a stop, and
\* a time response.
MixedUplinks == {Generic(1, "StartSequence"), Generic(1, "other"),
                 Generic(2, "other"), Generic(3, "other")}
                    \cup EmergencyStop \cup {TimeResponse}

\* Commands with different ids, and a stop.
BurstUplinks == {Generic(id, "StartSequence") : id \in TransactionId}
                    \cup EmergencyStop
=============================================================================
