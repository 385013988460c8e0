---------------------------- MODULE CommandLedger ----------------------------
(***************************************************************************)
(* What the command table promises, without slots, rings or search order:  *)
(* a set of open requests and a set of remembered answers.                 *)
(*                                                                         *)
(* A request is accepted only while its id is unknown.  Only an open       *)
(* request is answered; its answer replaces the one remembered for it, and *)
(* a new answer may cost the memory of at most one other.  A final answer  *)
(* closes the request.  Nothing else changes the ledger, in particular no  *)
(* repeated request and no late answer.                                    *)
(***************************************************************************)
EXTENDS Integers

CONSTANTS Request, Result

VARIABLES
    open,           \* requests forwarded and not yet finished
    answered        \* [request |-> ..., result |-> ...] of known answers

vars == <<open, answered>>

Closes(result) == result.phase # "Accepted"

IsAnswerTo(result, request) ==
    /\ result.transaction_id = request.transaction_id
    /\ result.command = request.command

Init == open = {} /\ answered = {}

Open(request) ==
    /\ \A other \in open : other.transaction_id # request.transaction_id
    /\ \A entry \in answered :
          entry.request.transaction_id # request.transaction_id
    /\ open' = open \cup {request}
    /\ UNCHANGED answered

Answer(request, result) ==
    LET earlier == {entry \in answered : entry.request = request}
        now == [request |-> request, result |-> result]
    IN  /\ request \in open
        /\ IsAnswerTo(result, request)
        /\ \/ answered' = (answered \ earlier) \cup {now}
           \/ /\ earlier = {}
              /\ \E forgotten \in answered :
                    answered' = (answered \ {forgotten}) \cup {now}
        /\ open' = IF Closes(result) THEN open \ {request} ELSE open

Next == \E request \in Request :
            Open(request) \/ \E result \in Result : Answer(request, result)

Spec == Init /\ [][Next]_vars
=============================================================================
