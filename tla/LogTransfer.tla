----------------------------- MODULE LogTransfer -----------------------------
(***************************************************************************)
(* What a log dump promises the ground, without fragments, statuses, CAN   *)
(* queues or the assembler.                                                *)
(*                                                                         *)
(* One dump is served at a time.  The chunks of a dump are queued while it *)
(* is served, each beginning where the one before it ended; all but the    *)
(* last are full, nothing follows the last one, and nothing follows the    *)
(* end of the command.                                                     *)
(***************************************************************************)
EXTENDS Integers, Sequences

CONSTANTS Command, Offset, ChunkSize, None

VARIABLES
    asked,      \* the commands the ground has given
    serving,    \* the dump that is served, or None
    ended,      \* its last chunk has been queued
    upto,       \* where the next chunk of each dump begins
    outbox      \* the chunks that have not left

vars == <<asked, serving, ended, upto, outbox>>

Init ==
    /\ asked = {} /\ serving = None /\ ended = FALSE
    /\ upto = [id \in Command |-> 0]
    /\ outbox = <<>>

Ask(id) == id \notin asked /\ asked' = asked \cup {id}

NothingServed == serving' = None /\ ended' = FALSE

\* A dump is served from an offset, once no other is.
Start(id, offset) ==
    /\ Ask(id)
    /\ serving = None
    /\ serving' = id /\ ended' = FALSE
    /\ upto' = [upto EXCEPT ![id] = offset]
    /\ UNCHANGED outbox

\* A refused dump, or another command, which may end the dump that is served.
Other(id) ==
    /\ Ask(id)
    /\ UNCHANGED <<serving, ended>> \/ NothingServed
    /\ UNCHANGED upto \/ \E offset \in Offset : upto' = [upto EXCEPT ![id] = offset]
    /\ UNCHANGED outbox

\* The next chunk; the command may end with the last one.
Deliver(length, last) ==
    /\ serving # None /\ ~ ended
    /\ length = ChunkSize \/ last
    /\ outbox' = Append(outbox, [id |-> serving, first |-> upto[serving],
                                 length |-> length, last |-> last])
    /\ upto' = [upto EXCEPT ![serving] = @ + length]
    /\ \/ serving' = serving /\ ended' = last
       \/ last /\ NothingServed
    /\ UNCHANGED asked

\* The dump ends, complete or not.
End ==
    /\ serving # None
    /\ NothingServed
    /\ UNCHANGED <<asked, upto, outbox>>

\* The oldest chunk leaves.
Send ==
    /\ outbox # <<>>
    /\ outbox' = Tail(outbox)
    /\ UNCHANGED <<asked, serving, ended, upto>>

Next ==
    \/ \E id \in Command : Other(id) \/ \E offset \in Offset : Start(id, offset)
    \/ \E length \in 0 .. ChunkSize, last \in BOOLEAN : Deliver(length, last)
    \/ End
    \/ Send

Spec == Init /\ [][Next]_vars
==============================================================================
