-------------------------- MODULE CommandPathProofs --------------------------
(***************************************************************************)
(* Proofs about the command table and the way of a command through the     *)
(* board, for every number of slots, every capacity of the ring and of the *)
(* channels, and every set of ids, commands, arguments and stops:          *)
(* TrackerInv, FinalAnswerStandsAlways and RefinesLedger of the table;     *)
(* PathInv and StopsOvertakeAlways of the way, and that the board moves    *)
(* the table only by steps of TransactionTracker.                          *)
(***************************************************************************)
EXTENDS CommandPath, SequenceTheorems, TLAPS

-----------------------------------------------------------------------------
(* The table.  TrackerInv is inductive, its parts are not: IdsUnique needs *)
(* TablesAgree (a new answer is inserted only when no answer with the same *)
(* id *and command* is cached), TablesAgree needs that register consults   *)
(* both tables, and FinalIffClosed needs both to know which cached entry   *)
(* an answer updates.                                                      *)

\* The slots `register` and `apply_result` can pick, with the types of what
\* they hold.
LEMMA SlotTypes ==
    ASSUME TypeOK
    PROVE  /\ \A s \in PendingSlot : pending[s] # None => pending[s] \in Request
           /\ \A c \in ResultSlot : results[c] # None => results[c] \in CachedEntry
BY DEF TypeOK

\* One step of a ring index stays inside the ring.
LEMMA NextResultInRing ==
    ASSUME next_result \in ResultSlot
    PROVE  (next_result + 1) % ResultCapacity \in ResultSlot
BY ResultCapacityAssumption DEF ResultSlot

\* The empty table satisfies the invariant.
LEMMA TrackerInitInv == TrackerInit => TrackerInv
<1> SUFFICES ASSUME TrackerInit PROVE TrackerInv OBVIOUS
<1>1. TypeOK
  BY ResultCapacityAssumption DEF TrackerInit, TypeOK, ResultSlot
<1>2. IdsUnique /\ AnswerMatchesRequest /\ TablesAgree /\ FinalIffClosed
  BY DEF TrackerInit, IdsUnique, AnswerMatchesRequest, TablesAgree, FinalIffClosed
<1>3. RingFilledInOrder
  BY ResultCapacityAssumption DEF TrackerInit, RingFilledInOrder, ResultSlot
<1> QED BY <1>1, <1>2, <1>3 DEF TrackerInv

\* RegisterResult::Forward preserves the invariant: the new request's id is in
\* neither table.
LEMMA ForwardKeepsInv ==
    ASSUME TrackerInv, NEW request \in Request, RegisterForward(request)
    PROVE  TrackerInv'
<1> PICK s \in FreeSlots : pending' = [pending EXCEPT ![s] = request]
  BY DEF RegisterForward
<1>0. /\ s \in PendingSlot /\ pending[s] = None
      /\ results' = results /\ next_result' = next_result
  BY DEF RegisterForward, FreeSlots
<1> USE DEF TrackerInv
<1>1. TypeOK'
  BY <1>0 DEF TypeOK
<1>2. /\ \A t \in PendingSlot : pending[t] # None =>
             pending[t].transaction_id # request.transaction_id
      /\ \A c \in ResultSlot : results[c] # None =>
             results[c].request.transaction_id # request.transaction_id
  BY DEF RegisterForward, Known, PendingWith, CachedWith
<1>3. \A t \in PendingSlot :
          pending'[t] = IF t = s THEN request ELSE pending[t]
  BY <1>0 DEF TypeOK
<1>4. IdsUnique'
  BY <1>0, <1>2, <1>3 DEF IdsUnique
<1>5. AnswerMatchesRequest'
  BY <1>0 DEF AnswerMatchesRequest
<1>6. TablesAgree'
  BY <1>0, <1>2, <1>3 DEF TablesAgree
<1>7. FinalIffClosed'
  <2> SUFFICES ASSUME NEW c \in ResultSlot, results[c] # None
               PROVE  (\A t \in PendingSlot : pending[t] # results[c].request)
                  <=> (\A t \in PendingSlot : pending'[t] # results[c].request)
    BY <1>0 DEF FinalIffClosed, IsFinal
  <2>1. results[c].request # request /\ results[c].request # None
    BY <1>2, SlotTypes, NoneAssumption DEF CachedEntry
  <2> QED BY <2>1, <1>0, <1>3
<1>8. RingFilledInOrder'
  BY <1>0 DEF RingFilledInOrder
<1> QED BY <1>1, <1>4, <1>5, <1>6, <1>7, <1>8

\* What apply_result writes: one ring slot w, the only one that may hold the id
\* of the open command in slot s, and it is either the slot of the command's
\* earlier answer or the ring's next one.
AppliesTo(result, s, w) ==
    /\ pending[s] # None
    /\ pending[s] \in Request
    /\ pending[s].transaction_id = result.transaction_id
    /\ pending[s].command = result.command
    /\ pending' = IF IsFinal(result.phase)
                  THEN [pending EXCEPT ![s] = None] ELSE pending
    /\ results' = [results EXCEPT ![w] =
                      [request |-> pending[s], result |-> result]]
    /\ \A c \in ResultSlot : c # w /\ results[c] # None =>
          results[c].request.transaction_id # pending[s].transaction_id
    /\ \/ /\ results[w] # None /\ results[w].request = pending[s]
          /\ next_result' = next_result
       \/ /\ w = next_result
          /\ results[w] # None => results[w].request.transaction_id
                                     # pending[s].transaction_id
          /\ next_result' = (next_result + 1) % ResultCapacity

\* apply_result has exactly that effect.
LEMMA ApplyEffect ==
    ASSUME TrackerInv, NEW result \in Result, ApplyMatched(result)
    PROVE  \E s \in PendingSlot, w \in ResultSlot : AppliesTo(result, s, w)
<1> PICK s \in Answers(result) :
        /\ Remember(pending[s], result)
        /\ pending' = IF IsFinal(result.phase)
                      THEN [pending EXCEPT ![s] = None] ELSE pending
  BY DEF ApplyMatched
<1> DEFINE request == pending[s]
           entry == [request |-> request, result |-> result]
           cached == {c \in CachedWith(request.transaction_id) :
                          results[c].request.command = request.command}
<1> USE DEF TrackerInv
<1>1. /\ s \in PendingSlot /\ request # None /\ request \in Request
      /\ request.transaction_id = result.transaction_id
      /\ request.command = result.command
  BY SlotTypes DEF Answers, PendingWith
<1>2. \A c \in ResultSlot :
          results[c] # None /\ results[c].request.transaction_id
                                  = request.transaction_id
            => c \in cached /\ results[c].request = request
  BY <1>1 DEF TablesAgree, CachedWith
<1>3. CASE cached = {}
  <2>1. /\ results' = [results EXCEPT ![next_result] = entry]
        /\ next_result' = (next_result + 1) % ResultCapacity
    BY <1>3 DEF Remember
  <2>2. next_result \in ResultSlot
    BY DEF TypeOK
  <2>3. AppliesTo(result, s, next_result)
    BY <2>1, <2>2, <1>1, <1>2, <1>3 DEF AppliesTo
  <2> QED BY <2>2, <2>3, <1>1
<1>4. CASE cached # {}
  <2>1. PICK c \in cached : /\ results' = [results EXCEPT ![c].result = result]
                            /\ next_result' = next_result
    BY <1>4 DEF Remember
  <2>2. c \in ResultSlot /\ results[c] # None /\ results[c].request = request
    BY <1>2 DEF CachedWith
  <2>3. [results[c] EXCEPT !.result = result] = entry
    BY <2>2, SlotTypes DEF CachedEntry
  <2>4. results' = [results EXCEPT ![c] = entry]
    BY <2>1, <2>2, <2>3 DEF TypeOK
  <2>5. \A d \in ResultSlot : d # c /\ results[d] # None =>
            results[d].request.transaction_id # request.transaction_id
    BY <2>2 DEF IdsUnique
  <2>6. AppliesTo(result, s, c)
    BY <2>1, <2>2, <2>4, <2>5, <1>1 DEF AppliesTo
  <2> QED BY <2>2, <2>6, <1>1
<1> QED BY <1>3, <1>4

\* apply_result preserves the invariant: the entry it writes is the only one
\* with the id of the open command it answers.
LEMMA ApplyKeepsInv ==
    ASSUME TrackerInv, NEW result \in Result, ApplyMatched(result)
    PROVE  TrackerInv'
<1> PICK s \in PendingSlot, w \in ResultSlot : AppliesTo(result, s, w)
  BY ApplyEffect
<1> DEFINE request == pending[s]
           entry == [request |-> request, result |-> result]
<1> USE DEF TrackerInv
<1>1. /\ s \in PendingSlot /\ request # None /\ request \in Request
      /\ request.transaction_id = result.transaction_id
      /\ request.command = result.command
  BY DEF AppliesTo
<1>2. entry \in CachedEntry
  BY <1>1 DEF CachedEntry
<1>3. \A t \in PendingSlot :
          pending'[t] = IF t = s /\ IsFinal(result.phase) THEN None ELSE pending[t]
  BY DEF TypeOK, AppliesTo
<1>4. /\ results' = [results EXCEPT ![w] = entry]
      /\ \A c \in ResultSlot : c # w /\ results[c] # None =>
            results[c].request.transaction_id # request.transaction_id
      /\ next_result' \in ResultSlot
  BY NextResultInRing DEF AppliesTo, TypeOK
<1>5. \A c \in ResultSlot : results'[c] = IF c = w THEN entry ELSE results[c]
  BY <1>4 DEF TypeOK
<1>6. TypeOK'
  BY <1>1, <1>2, <1>3, <1>4 DEF TypeOK, AppliesTo
<1>7. entry # None /\ entry.request = request /\ entry.result = result
  BY <1>2, NoneAssumption
<1>8. IdsUnique'
  <2>1. \A t, u \in PendingSlot :
            (pending'[t] # None /\ pending'[u] # None
             /\ pending'[t].transaction_id = pending'[u].transaction_id) => t = u
    BY <1>3 DEF IdsUnique
  <2>2. \A c, d \in ResultSlot :
            (results'[c] # None /\ results'[d] # None
             /\ results'[c].request.transaction_id
                  = results'[d].request.transaction_id) => c = d
    BY <1>4, <1>5, <1>7 DEF IdsUnique
  <2> QED BY <2>1, <2>2 DEF IdsUnique
<1>9. AnswerMatchesRequest'
  BY <1>1, <1>5, <1>7 DEF AnswerMatchesRequest
<1>10. TablesAgree'
  <2> SUFFICES ASSUME NEW t \in PendingSlot, NEW c \in ResultSlot,
                      pending'[t] # None, results'[c] # None,
                      pending'[t].transaction_id
                          = results'[c].request.transaction_id
               PROVE  pending'[t] = results'[c].request
    BY DEF TablesAgree
  <2>1. pending'[t] = pending[t] /\ pending[t] # None
    BY <1>3
  <2>2. CASE c = w
    BY <2>1, <2>2, <1>1, <1>5, <1>7 DEF IdsUnique
  <2>3. CASE c # w
    BY <2>1, <2>3, <1>5 DEF TablesAgree
  <2> QED BY <2>2, <2>3
<1>11. FinalIffClosed'
  <2> SUFFICES ASSUME NEW c \in ResultSlot, results'[c] # None
               PROVE  IsFinal(results'[c].result.phase)
                  <=> \A t \in PendingSlot : pending'[t] # results'[c].request
    BY DEF FinalIffClosed, IsFinal
  <2>1. CASE c = w
    <3>1. results'[c].request = request /\ results'[c].result = result
      BY <2>1, <1>5, <1>7
    <3>2. CASE IsFinal(result.phase)
      <4> SUFFICES ASSUME NEW t \in PendingSlot, pending'[t] = request
                   PROVE  FALSE
        BY <3>1, <3>2
      <4>1. t # s /\ pending[t] = request
        BY <3>2, <1>1, <1>3
      <4> QED BY <4>1, <1>1 DEF IdsUnique
    <3>3. CASE ~ IsFinal(result.phase)
      BY <3>1, <3>3, <1>1, <1>3
    <3> QED BY <3>2, <3>3
  <2>2. CASE c # w
    <3>1. results'[c] = results[c] /\ results[c] # None
          /\ results[c].request # request /\ results[c].request # None
      BY <2>2, <1>4, <1>5, SlotTypes, NoneAssumption DEF CachedEntry
    <3>2. (\A t \in PendingSlot : pending[t] # results[c].request)
            <=> (\A t \in PendingSlot : pending'[t] # results[c].request)
      BY <3>1, <1>1, <1>3
    <3> QED BY <3>1, <3>2 DEF FinalIffClosed
  <2> QED BY <2>1, <2>2
<1>12. RingFilledInOrder'
  <2> SUFFICES ASSUME NEW c \in ResultSlot, results'[c] = None
               PROVE  /\ next_result' <= c
                      /\ \A d \in ResultSlot : d >= c => results'[d] = None
    BY DEF RingFilledInOrder
  <2>1. c # w /\ results[c] = None
    BY <1>5, <1>7
  <2>2. next_result <= c /\ \A d \in ResultSlot : d >= c => results[d] = None
    BY <2>1 DEF RingFilledInOrder
  <2>3. CASE results[w] # None /\ next_result' = next_result
    BY <2>2, <2>3, <1>5
  <2>4. CASE w = next_result /\ next_result' = (next_result + 1) % ResultCapacity
    <3>1. next_result + 1 <= c /\ c < ResultCapacity
      BY <2>1, <2>2, <2>4, ResultCapacityAssumption DEF ResultSlot
    <3>2. next_result' = next_result + 1
      BY <2>4, <3>1, ResultCapacityAssumption DEF ResultSlot
    <3> QED BY <2>2, <2>4, <3>1, <3>2, <1>5, ResultCapacityAssumption DEF ResultSlot
  <2> QED BY <2>3, <2>4 DEF AppliesTo
<1> QED BY <1>6, <1>8, <1>9, <1>10, <1>11, <1>12

\* Stuttering, and the answers of register that change nothing.
LEMMA UnchangedKeepsInv ==
    ASSUME TrackerInv, UNCHANGED trackerVars
    PROVE  TrackerInv'
BY DEF TrackerInv, trackerVars, TypeOK, IdsUnique, AnswerMatchesRequest,
       TablesAgree, FinalIffClosed, IsFinal, RingFilledInOrder

\* Every step of the table preserves the invariant.
LEMMA TrackerNextInv ==
    ASSUME TrackerInv, [TrackerNext]_trackerVars
    PROVE  TrackerInv'
<1>1. CASE UNCHANGED trackerVars
  BY <1>1, UnchangedKeepsInv
<1>2. CASE \E request \in Request : RegisterForward(request)
  BY <1>2, ForwardKeepsInv
<1>3. CASE \E result \in Result : ApplyMatched(result)
  BY <1>3, ApplyKeepsInv
<1>4. CASE \/ \E request \in Request :
                 \/ RegisterBusy(request)
                 \/ RegisterDuplicate(request)
                 \/ \E result \in Result : RegisterReplay(request, result)
                 \/ RegisterProtocolError(request)
           \/ \E result \in Result : ApplyUnmatched(result)
  BY <1>4, UnchangedKeepsInv DEF RegisterBusy, RegisterDuplicate, RegisterReplay,
       RegisterProtocolError, ApplyUnmatched
<1> QED BY <1>1, <1>2, <1>3, <1>4 DEF TrackerNext

\* The invariant holds in every reachable state of the table.
THEOREM TrackerInvariant == TrackerSpec => []TrackerInv
<1>1. TrackerInit => TrackerInv
  BY TrackerInitInv
<1>2. TrackerInv /\ [TrackerNext]_trackerVars => TrackerInv'
  BY TrackerNextInv
<1> QED BY <1>1, <1>2, PTL DEF TrackerSpec

\* The arrays of the table always hold what their types allow.
THEOREM TrackerTypeOK == TrackerSpec => []TypeOK
<1>1. TrackerInv => TypeOK
  BY DEF TrackerInv
<1> QED BY <1>1, TrackerInvariant, PTL

\* No transaction id is open twice or cached twice, whatever the order of
\* uplinks, answers and CAN failures.
THEOREM TrackerIdsUnique == TrackerSpec => []IdsUnique
<1>1. TrackerInv => IdsUnique
  BY DEF TrackerInv
<1> QED BY <1>1, TrackerInvariant, PTL

\* `Accepted` is replayed only for commands that are still open and a final
\* answer only for commands that are closed.
THEOREM TrackerFinalIffClosed == TrackerSpec => []FinalIffClosed
<1>1. TrackerInv => FinalIffClosed
  BY DEF TrackerInv
<1> QED BY <1>1, TrackerInvariant, PTL

\* The ring is filled in order and then replaced oldest first.
THEOREM TrackerRingFilledInOrder == TrackerSpec => []RingFilledInOrder
<1>1. TrackerInv => RingFilledInOrder
  BY DEF TrackerInv
<1> QED BY <1>1, TrackerInvariant, PTL

\* A step that changes a ring slot holding a final answer writes an answer to
\* another id there.
LEMMA StepKeepsFinalAnswer ==
    ASSUME TrackerInv, [TrackerNext]_trackerVars
    PROVE  FinalAnswerStands
<1> USE DEF TrackerInv
<1>1. CASE results' = results
  BY <1>1 DEF FinalAnswerStands
<1>2. CASE \E result \in Result : ApplyMatched(result)
  <2> PICK result \in Result : ApplyMatched(result)
    BY <1>2
  <2> PICK s \in PendingSlot, w \in ResultSlot : AppliesTo(result, s, w)
    BY ApplyEffect
  <2> SUFFICES ASSUME NEW c \in ResultSlot, results[c] # None,
                      IsFinal(results[c].result.phase), results'[c] # results[c]
               PROVE  /\ results'[c] # None
                      /\ results'[c].request.transaction_id
                           # results[c].request.transaction_id
    BY DEF FinalAnswerStands
  <2>1. c = w /\ results'[c] = [request |-> pending[s], result |-> result]
    BY DEF AppliesTo, TypeOK
  <2>2. results'[c] # None /\ results'[c].request = pending[s]
    BY <2>1, NoneAssumption DEF AppliesTo, CachedEntry
  <2>3. results[c].request # pending[s]
    BY DEF FinalIffClosed
  <2>4. results[c].request.transaction_id # pending[s].transaction_id
    BY <2>1, <2>3 DEF TablesAgree, AppliesTo
  <2> QED BY <2>2, <2>4
<1> QED BY <1>1, <1>2 DEF TrackerNext, trackerVars, RegisterForward, RegisterBusy,
             RegisterDuplicate, RegisterReplay, RegisterProtocolError, ApplyUnmatched

\* What the ground was told finally is never rewritten: a cached final answer
\* only ever leaves the ring, for an answer to another id.
THEOREM TrackerFinalAnswerStands == TrackerSpec => FinalAnswerStandsAlways
<1>1. TrackerInv /\ [TrackerNext]_trackerVars => [FinalAnswerStands]_trackerVars
  BY StepKeepsFinalAnswer
<1> QED BY <1>1, TrackerInvariant, PTL DEF TrackerSpec, FinalAnswerStandsAlways

-----------------------------------------------------------------------------
(* The table implements CommandLedger.                                     *)

\* Forwarding a request opens it in the ledger.
LEMMA ForwardOpens ==
    ASSUME TrackerInv, NEW request \in Request, RegisterForward(request)
    PROVE  Ledger!Open(request)
<1> USE DEF TrackerInv
<1> PICK s \in FreeSlots : pending' = [pending EXCEPT ![s] = request]
  BY DEF RegisterForward
<1>1. s \in PendingSlot /\ pending[s] = None /\ request # None
  BY NoneAssumption DEF FreeSlots
<1>2. OpenRequests' = OpenRequests \cup {request}
  BY <1>1 DEF OpenRequests, TypeOK
<1>3. AnsweredRequests' = AnsweredRequests
  BY DEF AnsweredRequests, RegisterForward
<1>4. /\ \A other \in OpenRequests : other.transaction_id # request.transaction_id
      /\ \A entry \in AnsweredRequests :
            entry.request.transaction_id # request.transaction_id
  BY DEF RegisterForward, Known, PendingWith, CachedWith, OpenRequests,
         AnsweredRequests
<1> QED BY <1>2, <1>3, <1>4 DEF Ledger!Open

\* Applying an answer answers the open request in the ledger, and forgets at
\* most the answer the ring slot held before.
LEMMA ApplyAnswers ==
    ASSUME TrackerInv, NEW result \in Result, ApplyMatched(result)
    PROVE  \E request \in Request : Ledger!Answer(request, result)
<1> USE DEF TrackerInv
<1> PICK s \in PendingSlot, w \in ResultSlot : AppliesTo(result, s, w)
  BY ApplyEffect
<1> DEFINE request == pending[s]
           now == [request |-> request, result |-> result]
           earlier == {entry \in AnsweredRequests : entry.request = request}
<1>1. /\ request \in Request /\ request \in OpenRequests
      /\ Ledger!IsAnswerTo(result, request)
  BY DEF AppliesTo, OpenRequests, Ledger!IsAnswerTo
<1>2. OpenRequests' = IF Ledger!Closes(result)
                      THEN OpenRequests \ {request} ELSE OpenRequests
  <2>1. CASE Ledger!Closes(result)
    <3>1. \A t \in PendingSlot : pending'[t] = IF t = s THEN None ELSE pending[t]
      BY <2>1 DEF AppliesTo, TypeOK, Ledger!Closes, IsFinal
    <3>2. \A t \in PendingSlot : t # s => pending[t] # request
      BY <1>1 DEF IdsUnique, AppliesTo
    <3> QED BY <2>1, <3>1, <3>2 DEF OpenRequests
  <2>2. CASE ~ Ledger!Closes(result)
    BY <2>2 DEF AppliesTo, Ledger!Closes, IsFinal, OpenRequests
  <2> QED BY <2>1, <2>2
<1>3. now # None /\ \A c \in ResultSlot :
          results'[c] = IF c = w THEN now ELSE results[c]
  BY NoneAssumption DEF AppliesTo, TypeOK, CachedEntry
<1>4. \A c \in ResultSlot : c # w /\ results[c] # None
          => results[c] # results[w] /\ results[c].request # request
  BY DEF IdsUnique, AppliesTo
<1>5. AnsweredRequests' = (AnsweredRequests \ {results[w]}) \cup {now}
  BY <1>3, <1>4 DEF AnsweredRequests
<1>6. CASE results[w] # None /\ results[w].request = request
  <2>1. earlier = {results[w]}
    BY <1>4, <1>6 DEF AnsweredRequests
  <2> QED BY <2>1, <1>1, <1>2, <1>5 DEF Ledger!Answer
<1>7. CASE results[w] = None
  <2>1. earlier = {} /\ AnsweredRequests \ {results[w]} = AnsweredRequests
    BY <1>4, <1>7 DEF AnsweredRequests
  <2> QED BY <2>1, <1>1, <1>2, <1>5 DEF Ledger!Answer
<1>8. CASE results[w] # None /\ results[w].request # request
  <2>1. earlier = {} /\ results[w] \in AnsweredRequests
    BY <1>4, <1>8 DEF AnsweredRequests
  <2> QED BY <2>1, <1>1, <1>2, <1>5 DEF Ledger!Answer
<1> QED BY <1>6, <1>7, <1>8

\* The command table implements the ledger, for every number of slots and
\* every ring capacity.
THEOREM TrackerRefinesLedger == TrackerSpec => RefinesLedger
<1>1. TrackerInit => Ledger!Init
  BY DEF TrackerInit, Ledger!Init, OpenRequests, AnsweredRequests
<1>2. TrackerInv /\ [TrackerNext]_trackerVars => [Ledger!Next]_(Ledger!vars)
  <2> SUFFICES ASSUME TrackerInv, [TrackerNext]_trackerVars
               PROVE  [Ledger!Next]_(Ledger!vars)
    OBVIOUS
  <2>1. CASE UNCHANGED trackerVars
    BY <2>1 DEF trackerVars, Ledger!vars, OpenRequests, AnsweredRequests
  <2>2. CASE \E request \in Request : RegisterForward(request)
    BY <2>2, ForwardOpens DEF Ledger!Next
  <2>3. CASE \E result \in Result : ApplyMatched(result)
    BY <2>3, ApplyAnswers DEF Ledger!Next
  <2> QED BY <2>1, <2>2, <2>3 DEF TrackerNext, RegisterBusy, RegisterDuplicate,
               RegisterReplay, RegisterProtocolError, ApplyUnmatched
<1> QED BY <1>1, <1>2, TrackerInvariant, PTL DEF TrackerSpec, RefinesLedger, Ledger!Spec

-----------------------------------------------------------------------------
(* The way of a command.  PathInv alone is not inductive.  That an open    *)
(* command stays on its way only until its own answer closes it needs to   *)
(* know that no answer is under way to a command that is itself still on   *)
(* its way (NoAnswerAhead), and this needs that whatever Mission holds is  *)
(* still known to the table, so that a second copy would not have been     *)
(* forwarded (AnswersAreKnown).                                            *)

\* The CAN owner waits for the tracker with an answer to `id`.
AnswerInHand(id) ==
    /\ owner.at = "lock" /\ owner.result \in Result
    /\ owner.result.transaction_id = id

\* An answer to `id` may still come: Mission has a request with that id, or the
\* CAN owner has the answer in hand.
Outstanding(id) ==
    \/ \E message \in mission \cap Request : message.transaction_id = id
    \/ AnswerInHand(id)

\* No answer is outstanding to a command that has not left the board.
NoAnswerAhead ==
    \A request \in OnBoard :
        request.transaction_id \notin forgotten => ~ Outstanding(request.transaction_id)

\* Whatever may still be answered is in the table, unless it fell out of it.
AnswersAreKnown ==
    \A id \in TransactionId \ forgotten : Outstanding(id) => Remembered(id)

\* The inductive invariant.
PathIInv ==
    /\ TrackerInv
    /\ PathTypeOK
    /\ OpenIsSomewhere
    /\ OnBoardIsOpen
    /\ OnBoardOnce
    /\ NoAnswerAhead
    /\ AnswersAreKnown

-----------------------------------------------------------------------------
(* Channels and packets.                                                   *)

\* What a channel delivers and keeps.
LEMMA Received ==
    ASSUME NEW S, NEW queue \in Seq(S), queue # <<>>
    PROVE  /\ Head(queue) \in S
           /\ Tail(queue) \in Seq(S) /\ Len(Tail(queue)) <= Len(queue)
           /\ Elements(queue) = {Head(queue)} \cup Elements(Tail(queue))
<1>1. /\ Len(queue) \in Nat \ {0} /\ Head(queue) = queue[1]
      /\ DOMAIN queue = 1 .. Len(queue) /\ queue[1] \in S
  BY EmptySeq, LenProperties
<1>2. /\ Tail(queue) \in Seq(S) /\ Len(Tail(queue)) = Len(queue) - 1
      /\ DOMAIN Tail(queue) = 1 .. Len(Tail(queue))
      /\ \A i \in 1 .. Len(Tail(queue)) : Tail(queue)[i] = queue[i + 1]
  BY HeadTailProperties, LenProperties
<1>3. \A i \in DOMAIN queue : i = 1 \/ i - 1 \in DOMAIN Tail(queue)
  BY <1>1, <1>2
<1>4. \A i \in DOMAIN queue : queue[i] \in {Head(queue)} \cup Elements(Tail(queue))
  <2> SUFFICES ASSUME NEW i \in DOMAIN queue, i # 1
               PROVE  queue[i] \in Elements(Tail(queue))
    BY <1>1
  <2>1. i - 1 \in DOMAIN Tail(queue) /\ Tail(queue)[i - 1] = queue[i]
    BY <1>1, <1>2, <1>3
  <2> QED BY <2>1 DEF Elements
<1>5. \A i \in DOMAIN Tail(queue) : Tail(queue)[i] \in Elements(queue)
  <2> SUFFICES ASSUME NEW i \in DOMAIN Tail(queue)
               PROVE  Tail(queue)[i] \in Elements(queue)
    OBVIOUS
  <2>1. i + 1 \in DOMAIN queue /\ Tail(queue)[i] = queue[i + 1]
    BY <1>1, <1>2
  <2> QED BY <2>1 DEF Elements
<1>6. Head(queue) \in Elements(queue)
  BY <1>1 DEF Elements
<1>7. Elements(queue) = {Head(queue)} \cup Elements(Tail(queue))
  BY <1>4, <1>5, <1>6 DEF Elements
<1> QED BY <1>1, <1>2, <1>7

\* What a channel holds after a send.
LEMMA Sent ==
    ASSUME NEW S, NEW queue \in Seq(S), NEW message \in S
    PROVE  /\ Append(queue, message) \in Seq(S)
           /\ Len(Append(queue, message)) = Len(queue) + 1
           /\ DOMAIN queue = 1 .. Len(queue)
           /\ DOMAIN Append(queue, message) = 1 .. (Len(queue) + 1)
           /\ \A i \in DOMAIN queue : Append(queue, message)[i] = queue[i]
           /\ Append(queue, message)[Len(queue) + 1] = message
BY AppendProperties, LenProperties

\* try_send keeps to the capacity and to the element type.
LEMMA TrySendFits ==
    ASSUME NEW S, NEW queue \in Seq(S), NEW cap \in Nat, Len(queue) <= cap,
           NEW message \in S
    PROVE  /\ TrySend(queue, cap, message) \in Seq(S)
           /\ Len(TrySend(queue, cap, message)) <= cap
BY Sent, LenProperties DEF TrySend

\* The answer to a request is a command result that names it, the answer to a
\* stop is not a command result.
LEMMA AnswerOfRequest ==
    ASSUME NEW request \in Request, NEW phase \in Phase, NEW reason \in Reason
    PROVE  /\ AnswerOf(request, phase, reason) \in Result
           /\ AnswerOf(request, phase, reason).transaction_id = request.transaction_id
           /\ AnswerOf(request, phase, reason).command = request.command
           /\ AnswerOf(request, phase, reason).phase = phase
           /\ request.transaction_id \in TransactionId
BY KindsAssumption DEF AnswerOf, Result, Request

LEMMA AnswerOfStop ==
    ASSUME NEW stop \in EmergencyStop, NEW phase \in Phase, NEW reason \in Reason
    PROVE  /\ AnswerOf(stop, phase, reason) \in EmergencyResult
           /\ AnswerOf(stop, phase, reason) \notin Result
<1>1. AnswerOf(stop, phase, reason) = [stop |-> stop, phase |-> phase]
  BY DEF AnswerOf
<1>2. [stop |-> stop, phase |-> phase] \in EmergencyResult
  BY DEF EmergencyResult
<1>3. [stop |-> stop, phase |-> phase] \notin Result
  BY DEF Result
<1> QED BY <1>1, <1>2, <1>3

-----------------------------------------------------------------------------
(* What the two methods of the table do, as the path sees it.              *)

\* An id is open for one request at most.
LEMMA OpenOnce ==
    ASSUME TrackerInv, NEW first \in OpenRequests, NEW second \in OpenRequests,
           first.transaction_id = second.transaction_id
    PROVE  first = second
BY DEF TrackerInv, IdsUnique, OpenRequests

\* Open commands are requests with an id of the ground's, which is remembered.
LEMMA OpenIsRemembered ==
    ASSUME TrackerInv, NEW request \in OpenRequests
    PROVE  /\ request \in Request /\ request.transaction_id \in TransactionId
           /\ Remembered(request.transaction_id)
BY SlotTypes DEF TrackerInv, OpenRequests, Remembered, PendingWith, Request

\* register returns Forward only for an id nobody remembers, and opens it.
LEMMA ForwardIsNew ==
    ASSUME TrackerInv, NEW request \in Request, RegisterForward(request)
    PROVE  /\ OpenRequests' = OpenRequests \cup {request}
           /\ ~ Remembered(request.transaction_id)
           /\ \A id : Remembered(id) => Remembered(id)'
<1> PICK s \in FreeSlots : pending' = [pending EXCEPT ![s] = request]
  BY DEF RegisterForward
<1>1. s \in PendingSlot /\ pending[s] = None /\ request # None /\ results' = results
  BY NoneAssumption DEF FreeSlots, RegisterForward
<1>2. \A t \in PendingSlot : pending'[t] = IF t = s THEN request ELSE pending[t]
  BY <1>1 DEF TrackerInv, TypeOK
<1>3. OpenRequests' = OpenRequests \cup {request}
  BY <1>1, <1>2 DEF OpenRequests
<1>4. ASSUME NEW id, Remembered(id) PROVE Remembered(id)'
  <2>1. PendingWith(id) \subseteq PendingWith(id)'
    BY <1>1, <1>2 DEF PendingWith
  <2>2. CachedWith(id)' = CachedWith(id)
    BY <1>1 DEF CachedWith
  <2> QED BY <2>1, <2>2, <1>4 DEF Remembered
<1> QED BY <1>3, <1>4 DEF RegisterForward, Known, Remembered

\* apply_result: an answer that matches an open command or none.
Applied(result) == ApplyMatched(result) \/ ApplyUnmatched(result)

\* apply_result opens nothing; a final answer closes the command it names and
\* leaves commands with other ids open; what it pushes out of the ring is
\* recorded as forgotten.
LEMMA ApplyCloses ==
    ASSUME TrackerInv, NEW result \in Result, Applied(result), Forget,
           forgotten \subseteq TransactionId
    PROVE  /\ TrackerInv'
           /\ forgotten \subseteq forgotten' /\ forgotten' \subseteq TransactionId
           /\ \A id \in TransactionId \ forgotten' : Remembered(id) => Remembered(id)'
           /\ OpenRequests' \subseteq OpenRequests
           /\ \A request \in OpenRequests :
                 request.transaction_id # result.transaction_id
                     => request \in OpenRequests'
           /\ \A request \in OpenRequests :
                 (/\ IsFinal(result.phase)
                  /\ request.transaction_id = result.transaction_id
                  /\ request.command = result.command)
                     => request \notin OpenRequests'
<1>1. /\ forgotten \subseteq forgotten' /\ forgotten' \subseteq TransactionId
      /\ \A id \in TransactionId \ forgotten' : Remembered(id) => Remembered(id)'
  BY DEF Forget
<1>2. CASE ApplyUnmatched(result)
  <2>1. UNCHANGED trackerVars /\ Answers(result) = {}
    BY <1>2 DEF ApplyUnmatched
  <2>2. TrackerInv' /\ OpenRequests' = OpenRequests
    BY <2>1, UnchangedKeepsInv DEF trackerVars, OpenRequests
  <2>3. \A request \in OpenRequests :
            ~ (request.transaction_id = result.transaction_id
               /\ request.command = result.command)
    BY <2>1 DEF Answers, PendingWith, OpenRequests
  <2> QED BY <1>1, <2>2, <2>3
<1>3. CASE ApplyMatched(result)
  <2>1. TrackerInv'
    BY <1>3, ApplyKeepsInv
  <2> PICK s \in PendingSlot, w \in ResultSlot : AppliesTo(result, s, w)
    BY <1>3, ApplyEffect
  <2>2. \A t \in PendingSlot :
            pending'[t] = IF t = s /\ IsFinal(result.phase) THEN None ELSE pending[t]
    BY DEF AppliesTo, TrackerInv, TypeOK
  <2>3. /\ pending[s] # None
        /\ pending[s].transaction_id = result.transaction_id
    BY DEF AppliesTo
  <2>4. OpenRequests' \subseteq OpenRequests
    BY <2>2 DEF OpenRequests
  <2>5. \A request \in OpenRequests :
            request.transaction_id # result.transaction_id
                => request \in OpenRequests'
    BY <2>2, <2>3 DEF OpenRequests
  <2>6. \A t \in PendingSlot : pending[t] # None
            /\ pending[t].transaction_id = result.transaction_id => t = s
    BY <2>3 DEF TrackerInv, IdsUnique
  <2>7. ASSUME IsFinal(result.phase), NEW request \in OpenRequests,
               request.transaction_id = result.transaction_id
        PROVE  request \notin OpenRequests'
    BY <2>2, <2>6, <2>7 DEF OpenRequests
  <2> QED BY <1>1, <2>1, <2>4, <2>5, <2>7
<1> QED BY <1>2, <1>3 DEF Applied

-----------------------------------------------------------------------------
(* Types.                                                                  *)

\* What the CAN owner has in its hands at each of its suspension points.
LEMMA OwnerHolds ==
    ASSUME PathTypeOK
    PROVE  /\ owner.at = "transmit" =>
                 /\ owner.message \in CanMessage
                 /\ owner = Transmitting(owner.message)
           /\ owner.at = "lock" =>
                 /\ owner.from = "transmit" => owner.result \in Result
                 /\ owner.result \in Result \cup EmergencyResult
           /\ owner = Selecting => owner.at = "select"
BY DEF PathTypeOK, Selecting, Transmitting, Locking

\* The task of the CAN owner after a transmission.
LEMMA NextSafetyTypes ==
    ASSUME PathTypeOK, NextSafety
    PROVE  /\ safetyTx' \in Seq(EmergencyStop) /\ Len(safetyTx') <= SafetyCap
           /\ owner' = Selecting \/ \E stop \in EmergencyStop : owner' = Transmitting(stop)
<1>1. CASE safetyTx = <<>>
  BY <1>1 DEF NextSafety, PathTypeOK
<1>2. CASE safetyTx # <<>>
  <2>1. Head(safetyTx) \in EmergencyStop /\ Tail(safetyTx) \in Seq(EmergencyStop)
        /\ Len(Tail(safetyTx)) <= Len(safetyTx)
    BY <1>2, Received DEF PathTypeOK
  <2>2. Len(Tail(safetyTx)) <= SafetyCap
    BY <2>1, CapacityAssumption, LenProperties DEF PathTypeOK
  <2> QED BY <1>2, <2>1, <2>2 DEF NextSafety
<1> QED BY <1>1, <1>2

\* apply_result for the board's own failure, and for an answer of Mission.
LEMMA FailureTypes ==
    ASSUME PathTypeOK, NEW result \in Result, ApplyOwnFailure(result)
    PROVE  /\ Applied(result) /\ Forget
           /\ commandResults' \in Seq(Result) /\ Len(commandResults') <= ResultCap
BY TrySendFits, CapacityAssumption
   DEF ApplyOwnFailure, Applied, QueueCommandResult, PathTypeOK

LEMMA AnswerTypes ==
    ASSUME PathTypeOK, NEW result, ApplyAnswer(result)
    PROVE  /\ \/ result \in Result /\ Applied(result) /\ Forget
              \/ result \in EmergencyResult /\ UNCHANGED tableVars
           /\ commandResults' \in Seq(Result) /\ Len(commandResults') <= ResultCap
           /\ emergencyResults' \in Seq(EmergencyResult)
           /\ Len(emergencyResults') <= EmergencyCap
<1>1. CASE result \in Result /\ Applied(result) /\ Forget
           /\ QueueCommandResult(result) /\ UNCHANGED emergencyResults
  BY <1>1, TrySendFits, CapacityAssumption DEF QueueCommandResult, PathTypeOK
<1>2. CASE result \in EmergencyResult /\ QueueEmergencyResult(result)
           /\ UNCHANGED <<tableVars, commandResults>>
  BY <1>2, TrySendFits, CapacityAssumption DEF QueueEmergencyResult, PathTypeOK
<1> QED BY <1>1, <1>2 DEF ApplyAnswer, Applied

-----------------------------------------------------------------------------
(* The board moves the table only by register and apply_result.            *)

\* The step ends the transmission of a request with that id.
JustSent(id) ==
    /\ TransmitOk \/ TransmitError
    /\ owner.at = "transmit" /\ owner.message \in Request
    /\ owner.message.transaction_id = id

\* apply_result is called only for what may be answered, or for a request whose
\* transmission has just failed.
Answered ==
    \E result \in Result :
        /\ Applied(result) /\ Forget
        /\ \/ Outstanding(result.transaction_id)
           \/ JustSent(result.transaction_id)

\* What a step of the board may do to the table.
TableMoves ==
    \/ UNCHANGED tableVars
    \/ \E request \in Request : ProcessForward(request)
    \/ Answered

LEMMA StepMovesTable ==
    ASSUME PathTypeOK, [Next]_vars
    PROVE  TableMoves /\ [TrackerNext]_trackerVars
<1>1. CASE UNCHANGED vars
  BY <1>1 DEF vars, tableVars, TableMoves
<1>2. CASE LoraRxStep \/ LoraRxResume
  BY <1>2 DEF LoraRxStep, LoraRxEmergency, LoraRx, LoraRxResume, tableVars, TableMoves
<1>3. CASE CommandTask
  <2>1. ASSUME NEW request \in Request, ProcessForward(request)
        PROVE  TableMoves /\ [TrackerNext]_trackerVars
    BY <2>1 DEF ProcessForward, TakeCommand, TableMoves, TrackerNext
  <2>2. ASSUME NEW request \in Request, ProcessDuplicate(request)
        PROVE  TableMoves /\ [TrackerNext]_trackerVars
    BY <2>2 DEF ProcessDuplicate, TakeCommand, RegisterDuplicate, TableMoves, tableVars
  <2>3. ASSUME NEW request \in Request, ProcessReplay(request)
        PROVE  TableMoves /\ [TrackerNext]_trackerVars
    BY <2>3 DEF ProcessReplay, TakeCommand, RegisterReplay, TableMoves, tableVars
  <2>4. ASSUME NEW request \in Request, ProcessReject(request)
        PROVE  TableMoves /\ [TrackerNext]_trackerVars
    BY <2>4 DEF ProcessReject, TakeCommand, RegisterProtocolError, RegisterBusy,
                TableMoves, tableVars
  <2>5. CASE ProcessGroundTime \/ CommandResume
    BY <2>5 DEF ProcessGroundTime, TakeCommand, CommandResume, TableMoves, tableVars
  <2> QED BY <1>3, <2>1, <2>2, <2>3, <2>4, <2>5 DEF CommandTask
<1>4. CASE GnssTime \/ SelectTransmit \/ TransmitOk \/ LoraTxResult
  BY <1>4 DEF GnssTime, SelectTransmit, TransmitOk, LoraTxResult, TableMoves, tableVars
<1>5. Answered => TableMoves /\ [TrackerNext]_trackerVars
  BY DEF Answered, TableMoves, Applied, TrackerNext
<1>6. UNCHANGED tableVars => TableMoves /\ [TrackerNext]_trackerVars
  BY DEF TableMoves, tableVars
<1>7. CASE TransmitError
  <2> DEFINE failed == AnswerOf(owner.message, "Failed", "Timeout")
  <2>1. CASE owner.message \in Request /\ ApplyOwnFailure(failed)
    <3>1. failed \in Result /\ failed.transaction_id = owner.message.transaction_id
      BY <2>1, AnswerOfRequest, ReasonAssumption DEF Phase
    <3>2. JustSent(failed.transaction_id)
      BY <1>7, <2>1, <3>1 DEF JustSent, TransmitError
    <3> QED BY <2>1, <3>1, <3>2, FailureTypes, <1>5 DEF Answered
  <2>2. CASE UNCHANGED tableVars
    BY <2>2, <1>6
  <2> QED BY <1>7, <2>1, <2>2 DEF TransmitError, tableVars
<1>8. CASE MissionAnswers
  <2> PICK message \in Request \cup EmergencyStop, phase \in MissionPhase :
           ReceiveResult(message, phase)
    BY <1>8 DEF MissionAnswers
  <2> DEFINE result == AnswerOf(message, phase, "None")
  <2>1. CASE UNCHANGED tableVars
    BY <2>1, <1>6
  <2>2. CASE result \in Result /\ Applied(result) /\ Forget
    <3>1. message \in Request
      BY <2>2, AnswerOfStop, MissionPhaseAssumption, ReasonAssumption
    <3>2. result.transaction_id = message.transaction_id /\ message \in mission
      BY <3>1, AnswerOfRequest, MissionPhaseAssumption, ReasonAssumption DEF ReceiveResult
    <3> QED BY <2>2, <3>1, <3>2, <1>5 DEF Answered, Outstanding
  <2> QED BY <2>1, <2>2, AnswerTypes DEF ReceiveResult, tableVars
<1>9. CASE OwnerResume
  <2>1. CASE owner.result \in Result /\ Applied(owner.result) /\ Forget
    <3>1. Outstanding(owner.result.transaction_id)
      BY <1>9, <2>1 DEF OwnerResume, Outstanding, AnswerInHand
    <3> QED BY <2>1, <3>1, <1>5 DEF Answered
  <2>2. CASE UNCHANGED tableVars
    BY <2>2, <1>6
  <2> QED BY <1>9, <2>1, <2>2, OwnerHolds, FailureTypes, AnswerTypes DEF OwnerResume
<1> QED BY <1>1, <1>2, <1>3, <1>4, <1>7, <1>8, <1>9 DEF Next, CanOwnerTransmit

\* Whatever the board does, the table keeps its invariant; what it knows it
\* keeps, or it is recorded as forgotten; it opens nothing but what register
\* forwards.
LEMMA TableKeepsInv ==
    ASSUME TrackerInv, PathTypeOK, [Next]_vars
    PROVE  /\ TrackerInv'
           /\ forgotten \subseteq forgotten' /\ forgotten' \subseteq TransactionId
           /\ \A id \in TransactionId \ forgotten' : Remembered(id) => Remembered(id)'
<1>1. TrackerInv' /\ TableMoves /\ forgotten \subseteq TransactionId
  BY StepMovesTable, TrackerNextInv DEF PathTypeOK
<1>2. CASE UNCHANGED tableVars
  BY <1>1, <1>2 DEF tableVars, trackerVars, Remembered, PendingWith, CachedWith
<1>3. CASE \E request \in Request : ProcessForward(request)
  BY <1>1, <1>3, ForwardIsNew DEF ProcessForward, TakeCommand
<1>4. CASE Answered
  BY <1>1, <1>4, ApplyCloses DEF Answered
<1> QED BY <1>1, <1>2, <1>3, <1>4 DEF TableMoves

\* SendCan: the queue stays within its capacity, and what does not fit waits.
LEMMA SendCanTypes ==
    ASSUME PathTypeOK, NEW message \in Request \cup {TimeResponse}, SendCan(message)
    PROVE  /\ canTx' \in Seq(Request \cup {TimeResponse}) /\ Len(canTx') <= TxCap
           /\ sending' \in Request \cup {TimeResponse, None}
<1>1. CASE Len(canTx) < TxCap /\ canTx' = Append(canTx, message) /\ sending' = sending
  <2>1. /\ Append(canTx, message) \in Seq(Request \cup {TimeResponse})
        /\ Len(Append(canTx, message)) = Len(canTx) + 1 /\ Len(canTx) \in Nat
    BY Sent, LenProperties DEF PathTypeOK
  <2>2. Len(canTx') <= TxCap
    BY <1>1, <2>1, CapacityAssumption
  <2> QED BY <1>1, <2>1, <2>2 DEF PathTypeOK
<1>2. CASE sending' = message /\ canTx' = canTx
  BY <1>2 DEF PathTypeOK
<1> QED BY <1>1, <1>2 DEF SendCan

\* One step keeps every variable within its type.
LEMMA PathTypeKept ==
    ASSUME TrackerInv, PathTypeOK, [Next]_vars
    PROVE  PathTypeOK'
<1>1. TypeOK' /\ forgotten' \subseteq TransactionId
  BY TableKeepsInv DEF TrackerInv
<1> USE DEF PathTypeOK
<1>2. CASE UNCHANGED vars
  BY <1>1, <1>2 DEF vars, queueVars, tableVars
<1>3. ASSUME NEW stop \in EmergencyStop, LoraRxEmergency(stop) PROVE PathTypeOK'
  <2>1. uplinks' \in 0 .. MaxUplinks
    BY <1>3, BoundsAssumption DEF LoraRxEmergency
  <2>2. CASE rxBlocked' = stop /\ safetyTx' = safetyTx
    BY <1>1, <1>3, <2>1, <2>2 DEF LoraRxEmergency
  <2>3. CASE Len(safetyTx) < SafetyCap /\ safetyTx' = Append(safetyTx, stop)
             /\ rxBlocked' = rxBlocked
    <3>1. safetyTx' \in Seq(EmergencyStop) /\ Len(safetyTx') <= SafetyCap
      BY <2>3, Sent, CapacityAssumption, LenProperties
    <3> QED BY <1>1, <1>3, <2>1, <2>3, <3>1 DEF LoraRxEmergency
  <2> QED BY <1>3, <2>2, <2>3 DEF LoraRxEmergency
<1>4. ASSUME NEW command \in Request \cup {TimeResponse}, LoraRx(command)
      PROVE  PathTypeOK'
  <2>1. uplink' \in Seq(Request \cup {TimeResponse}) /\ Len(uplink') <= UplinkCap
        /\ uplinks' \in 0 .. MaxUplinks
    BY <1>4, TrySendFits, CapacityAssumption, BoundsAssumption DEF LoraRx
  <2> QED BY <1>1, <1>4, <2>1 DEF LoraRx
<1>5. CASE LoraRxResume
  <2>1. safetyTx' \in Seq(EmergencyStop) /\ Len(safetyTx') <= SafetyCap
    BY <1>5, Sent, CapacityAssumption, LenProperties DEF LoraRxResume
  <2> QED BY <1>1, <1>5, <2>1 DEF LoraRxResume
<1>6. ASSUME NEW command \in Request \cup {TimeResponse}, TakeCommand(command)
      PROVE  uplink' \in Seq(Request \cup {TimeResponse}) /\ Len(uplink') <= UplinkCap
  <2>1. Tail(uplink) \in Seq(Request \cup {TimeResponse})
        /\ Len(Tail(uplink)) <= Len(uplink)
    BY <1>6, Received DEF TakeCommand
  <2> QED BY <1>6, <2>1, CapacityAssumption, LenProperties DEF TakeCommand
<1>7. ASSUME NEW request \in Request, ProcessForward(request) PROVE PathTypeOK'
  BY <1>1, <1>6, <1>7, SendCanTypes DEF ProcessForward, TakeCommand
<1>8. ASSUME NEW request \in Request, ProcessDuplicate(request) PROVE PathTypeOK'
  BY <1>1, <1>6, <1>8 DEF ProcessDuplicate, TakeCommand
<1>9. ASSUME NEW request \in Request,
             ProcessReplay(request) \/ ProcessReject(request)
      PROVE  PathTypeOK'
  <2>1. PICK result \in Result : QueueCommandResult(result)
    <3>1. CASE ProcessReplay(request)
      <4>1. PICK c \in CachedFor(request) : QueueCommandResult(results[c].result)
        BY <3>1 DEF ProcessReplay
      <4>2. results[c] \in CachedEntry
        BY <4>1, SlotTypes DEF CachedFor, CachedWith
      <4> QED BY <4>1, <4>2 DEF CachedEntry
    <3>2. CASE ProcessReject(request)
      BY <3>2, AnswerOfRequest, ReasonAssumption DEF ProcessReject, Phase
    <3> QED BY <1>9, <3>1, <3>2
  <2>2. commandResults' \in Seq(Result) /\ Len(commandResults') <= ResultCap
    BY <2>1, TrySendFits, CapacityAssumption DEF QueueCommandResult
  <2>3. TakeCommand(request) /\ UNCHANGED <<canTx, sending>>
    BY <1>9 DEF ProcessReplay, ProcessReject
  <2> QED BY <1>1, <1>6, <2>2, <2>3 DEF TakeCommand
<1>10. CASE ProcessGroundTime
  BY <1>1, <1>6, <1>10, SendCanTypes DEF ProcessGroundTime, TakeCommand
<1>11. CASE CommandResume
  <2>1. canTx' \in Seq(Request \cup {TimeResponse}) /\ Len(canTx') <= TxCap
    BY <1>11, Sent, CapacityAssumption, LenProperties DEF CommandResume
  <2> QED BY <1>1, <1>11, <2>1 DEF CommandResume
<1>12. CASE GnssTime
  <2>1. canTx' \in Seq(Request \cup {TimeResponse}) /\ Len(canTx') <= TxCap
    BY <1>12, TrySendFits, CapacityAssumption DEF GnssTime
  <2>2. gnssTimes' \in 0 .. MaxGnssTimes
    BY <1>12, BoundsAssumption DEF GnssTime
  <2> QED BY <1>1, <1>12, <2>1, <2>2 DEF GnssTime
<1>13. CASE SelectTransmit
  <2>1. /\ \E message \in CanMessage : owner' = Transmitting(message)
        /\ canTx' \in Seq(Request \cup {TimeResponse}) /\ Len(canTx') <= TxCap
        /\ safetyTx' \in Seq(EmergencyStop) /\ Len(safetyTx') <= SafetyCap
    <3>1. CASE /\ safetyTx # <<>> /\ owner' = Transmitting(Head(safetyTx))
               /\ safetyTx' = Tail(safetyTx) /\ canTx' = canTx
      <4>1. Head(safetyTx) \in EmergencyStop /\ Tail(safetyTx) \in Seq(EmergencyStop)
            /\ Len(Tail(safetyTx)) <= Len(safetyTx)
        BY <3>1, Received
      <4> QED BY <3>1, <4>1, CapacityAssumption, LenProperties DEF CanMessage
    <3>2. CASE /\ canTx # <<>> /\ owner' = Transmitting(Head(canTx))
               /\ canTx' = Tail(canTx) /\ safetyTx' = safetyTx
      <4>1. /\ Head(canTx) \in Request \cup {TimeResponse}
            /\ Tail(canTx) \in Seq(Request \cup {TimeResponse})
            /\ Len(Tail(canTx)) <= Len(canTx)
        BY <3>2, Received
      <4> QED BY <3>2, <4>1, CapacityAssumption, LenProperties DEF CanMessage
    <3> QED BY <1>13, <3>1, <3>2 DEF SelectTransmit
  <2> QED BY <1>1, <1>13, <2>1 DEF SelectTransmit
<1>14. ASSUME Deliver(owner.message), owner.at = "transmit"
       PROVE  mission' \subseteq Request \cup EmergencyStop
  BY <1>14, OwnerHolds DEF Deliver, CanMessage
<1>15. ASSUME NextSafety
       PROVE  /\ safetyTx' \in Seq(EmergencyStop) /\ Len(safetyTx') <= SafetyCap
              /\ \/ owner' = Selecting
                 \/ \E message \in CanMessage : owner' = Transmitting(message)
  BY <1>15, NextSafetyTypes DEF CanMessage
<1>16. CASE TransmitOk
  <2>1. logging' \in BOOLEAN
    BY <1>16 DEF TransmitOk
  <2> QED BY <1>1, <1>14, <1>15, <1>16, <2>1 DEF TransmitOk
<1>17. CASE TransmitError
  <2> DEFINE failed == AnswerOf(owner.message, "Failed", "Timeout")
  <2>1. mission' \subseteq Request \cup EmergencyStop
    BY <1>14, <1>17 DEF TransmitError
  <2>2. CASE /\ owner.message \in EmergencyStop /\ QueueEmergencyResult(failed)
             /\ NextSafety /\ UNCHANGED commandResults
    <3>1. failed \in EmergencyResult
      BY <2>2, AnswerOfStop, ReasonAssumption DEF Phase
    <3>2. emergencyResults' \in Seq(EmergencyResult)
          /\ Len(emergencyResults') <= EmergencyCap
      BY <2>2, <3>1, TrySendFits, CapacityAssumption DEF QueueEmergencyResult
    <3> QED BY <1>1, <1>15, <1>17, <2>1, <2>2, <3>2 DEF TransmitError
  <2>3. CASE NextSafety /\ UNCHANGED <<commandResults, emergencyResults>>
    BY <1>1, <1>15, <1>17, <2>1, <2>3 DEF TransmitError
  <2>4. ASSUME owner.message \in Request PROVE failed \in Result
    BY <2>4, AnswerOfRequest, ReasonAssumption DEF Phase
  <2>5. CASE /\ owner.message \in Request /\ ApplyOwnFailure(failed)
             /\ NextSafety /\ UNCHANGED emergencyResults
    BY <1>1, <1>15, <1>17, <2>1, <2>4, <2>5, FailureTypes DEF TransmitError
  <2>6. CASE /\ owner.message \in Request /\ owner' = Locking(failed, "transmit")
             /\ UNCHANGED <<safetyTx, commandResults, emergencyResults>>
    BY <1>1, <1>17, <2>1, <2>4, <2>6 DEF TransmitError
  <2> QED BY <1>17, <2>2, <2>3, <2>5, <2>6 DEF TransmitError
<1>18. ASSUME NEW message \in Request \cup EmergencyStop, NEW phase \in MissionPhase,
              ReceiveResult(message, phase)
       PROVE  PathTypeOK'
  <2> DEFINE result == AnswerOf(message, phase, "None")
  <2>1. mission' \subseteq Request \cup EmergencyStop
    BY <1>18 DEF ReceiveResult
  <2>2. CASE ApplyAnswer(result) /\ UNCHANGED owner
    BY <1>1, <1>18, <2>1, <2>2, AnswerTypes DEF ReceiveResult
  <2>3. CASE /\ owner' = Locking(result, "receive")
             /\ UNCHANGED <<commandResults, emergencyResults>>
    <3>1. result \in Result \cup EmergencyResult
      BY AnswerOfRequest, AnswerOfStop, MissionPhaseAssumption, ReasonAssumption
    <3> QED BY <1>1, <1>18, <2>1, <2>3, <3>1 DEF ReceiveResult
  <2> QED BY <1>18, <2>2, <2>3 DEF ReceiveResult
<1>19. CASE OwnerResume
  <2>1. CASE /\ owner.at = "lock" /\ owner.from = "transmit"
             /\ ApplyOwnFailure(owner.result) /\ NextSafety /\ UNCHANGED emergencyResults
    <3>1. owner.result \in Result
      BY <2>1, OwnerHolds
    <3> QED BY <1>1, <1>15, <1>19, <2>1, <3>1, FailureTypes DEF OwnerResume
  <2>2. CASE ApplyAnswer(owner.result) /\ owner' = Selecting /\ UNCHANGED safetyTx
    BY <1>1, <1>19, <2>2, AnswerTypes DEF OwnerResume
  <2> QED BY <1>19, <2>1, <2>2 DEF OwnerResume
<1>20. CASE LoraTxResult
  <2>1. /\ commandResults' \in Seq(Result) /\ Len(commandResults') <= ResultCap
        /\ emergencyResults' \in Seq(EmergencyResult)
        /\ Len(emergencyResults') <= EmergencyCap
    <3>1. CASE /\ emergencyResults # <<>> /\ emergencyResults' = Tail(emergencyResults)
               /\ commandResults' = commandResults
      BY <3>1, Received, CapacityAssumption, LenProperties
    <3>2. CASE /\ commandResults # <<>> /\ commandResults' = Tail(commandResults)
               /\ emergencyResults' = emergencyResults
      BY <3>2, Received, CapacityAssumption, LenProperties
    <3> QED BY <1>20, <3>1, <3>2 DEF LoraTxResult
  <2> QED BY <1>1, <1>20, <2>1 DEF LoraTxResult
<1> QED BY <1>2, <1>3, <1>4, <1>5, <1>7, <1>8, <1>9, <1>10, <1>11, <1>12, <1>13,
           <1>16, <1>17, <1>18, <1>19, <1>20
        DEF Next, LoraRxStep, CommandTask, CanOwnerTransmit, MissionAnswers

-----------------------------------------------------------------------------
(* Where answers and commands come from.                                   *)

\* An answer becomes outstanding only when a transmission ends.
LEMMA OutstandingSources ==
    ASSUME PathTypeOK, [Next]_vars, NEW id, Outstanding(id)'
    PROVE  Outstanding(id) \/ JustSent(id)
<1>1. CASE UNCHANGED <<mission, owner>>
  BY <1>1 DEF Outstanding, AnswerInHand
<1>2. ASSUME mission' = mission, NEW message, owner' = Transmitting(message)
      PROVE  Outstanding(id)
  BY <1>2 DEF Outstanding, AnswerInHand, Transmitting
<1>3. ASSUME mission' \subseteq mission, owner' = Selecting
      PROVE  Outstanding(id)
  BY <1>3 DEF Outstanding, AnswerInHand, Selecting
<1>4. CASE SelectTransmit
  BY <1>2, <1>4 DEF SelectTransmit
<1>5. ASSUME TransmitOk \/ TransmitError, NEW message \in mission' \cap Request,
             message.transaction_id = id
      PROVE  Outstanding(id) \/ JustSent(id)
  <2>1. owner.at = "transmit" /\ (Deliver(owner.message) \/ UNCHANGED mission)
    BY <1>5 DEF TransmitOk, TransmitError
  <2>2. message \in mission \/ message = owner.message
    BY <2>1 DEF Deliver
  <2> QED BY <1>5, <2>1, <2>2 DEF Outstanding, JustSent
<1>6. ASSUME NextSafety PROVE ~ AnswerInHand(id)'
  BY <1>6 DEF NextSafety, AnswerInHand, Transmitting, Selecting
<1>7. CASE TransmitOk
  BY <1>5, <1>6, <1>7 DEF Outstanding, TransmitOk
<1>8. CASE TransmitError
  <2>1. CASE AnswerInHand(id)'
    <3> DEFINE failed == AnswerOf(owner.message, "Failed", "Timeout")
    <3>1. owner.message \in Request /\ owner' = Locking(failed, "transmit")
      BY <1>6, <1>8, <2>1 DEF TransmitError
    <3>2. failed.transaction_id = owner.message.transaction_id
      BY <3>1, AnswerOfRequest, ReasonAssumption DEF Phase
    <3>3. owner.message.transaction_id = id
      BY <2>1, <3>1, <3>2 DEF AnswerInHand, Locking
    <3> QED BY <1>8, <3>1, <3>3 DEF JustSent, TransmitError
  <2> QED BY <1>5, <1>8, <2>1 DEF Outstanding
<1>9. CASE MissionAnswers
  <2> PICK message \in Request \cup EmergencyStop, phase \in MissionPhase :
           ReceiveResult(message, phase)
    BY <1>9 DEF MissionAnswers
  <2> DEFINE result == AnswerOf(message, phase, "None")
  <2>1. mission' \subseteq mission /\ message \in mission
        /\ (owner' = owner \/ owner' = Locking(result, "receive"))
    BY DEF ReceiveResult
  <2>2. CASE owner' = owner
    BY <2>1, <2>2 DEF Outstanding, AnswerInHand
  <2>3. CASE AnswerInHand(id)' /\ owner' = Locking(result, "receive")
    <3>1. result \in Result /\ result.transaction_id = id
      BY <2>3 DEF AnswerInHand, Locking
    <3>2. message \in Request
      BY <3>1, AnswerOfStop, MissionPhaseAssumption, ReasonAssumption
    <3>3. result.transaction_id = message.transaction_id
      BY <3>2, AnswerOfRequest, MissionPhaseAssumption, ReasonAssumption
    <3> QED BY <2>1, <3>1, <3>2, <3>3 DEF Outstanding
  <2> QED BY <2>1, <2>2, <2>3 DEF Outstanding
<1>10. CASE OwnerResume
  <2>1. ~ AnswerInHand(id)' /\ mission' = mission
    BY <1>6, <1>10 DEF OwnerResume, AnswerInHand, Selecting
  <2> QED BY <2>1 DEF Outstanding
<1> QED BY <1>1, <1>4, <1>7, <1>8, <1>9, <1>10
        DEF Next, LoraRxStep, LoraRxEmergency, LoraRx, LoraRxResume, CommandTask,
            ProcessForward, ProcessDuplicate, ProcessReplay, ProcessReject,
            ProcessGroundTime, TakeCommand, CommandResume, GnssTime,
            CanOwnerTransmit, LoraTxResult, vars

\* The CAN owner takes no request in hand from the safety channel.
LEMMA SafetyIsNoRequest ==
    ASSUME PathTypeOK, NextSafety
    PROVE  /\ \A request \in Request : owner' # Transmitting(request)
           /\ owner'.at = "transmit" => owner'.message \in EmergencyStop
BY NextSafetyTypes, KindsAssumption DEF Transmitting, Selecting

\* The CAN owner, between two transmissions of the select, keeps off the queue
\* of commands: what is on the bus afterwards was there before, or is a stop.
OwnerKeepsOff ==
    /\ UNCHANGED <<canTx, sending>>
    /\ \/ UNCHANGED owner
       \/ /\ \A request \in Request : owner' # Transmitting(request)
          /\ owner'.at = "transmit" => owner'.message \notin Request

LEMMA OwnerStepKeepsOff ==
    ASSUME PathTypeOK, TransmitOk \/ TransmitError \/ OwnerResume \/ MissionAnswers
    PROVE  OwnerKeepsOff /\ (owner.at = "transmit" =>
              /\ \A request \in Request : owner' # Transmitting(request)
              /\ owner'.at = "transmit" => owner'.message \notin Request)
<1>1. CASE NextSafety /\ UNCHANGED <<canTx, sending>>
  BY <1>1, SafetyIsNoRequest, KindsAssumption DEF OwnerKeepsOff
<1>2. ASSUME NEW result, NEW from, owner' = Locking(result, from),
             UNCHANGED <<canTx, sending>>
      PROVE  /\ OwnerKeepsOff
             /\ \A request \in Request : owner' # Transmitting(request)
             /\ owner'.at # "transmit"
  BY <1>2 DEF OwnerKeepsOff, Locking, Transmitting
<1>3. CASE owner' = Selecting /\ UNCHANGED <<canTx, sending>>
  BY <1>3 DEF OwnerKeepsOff, Selecting, Transmitting
<1>4. CASE TransmitOk
  BY <1>1, <1>4 DEF TransmitOk
<1>5. CASE TransmitError
  BY <1>1, <1>2, <1>5 DEF TransmitError
<1>6. CASE OwnerResume
  BY <1>1, <1>3, <1>6 DEF OwnerResume
<1>7. CASE MissionAnswers
  <2> PICK message \in Request \cup EmergencyStop, phase \in MissionPhase :
           ReceiveResult(message, phase)
    BY <1>7 DEF MissionAnswers
  <2>1. owner = Selecting /\ UNCHANGED <<canTx, sending>>
    BY DEF ReceiveResult, ReceiverServed
  <2>2. CASE UNCHANGED owner
    BY <2>1, <2>2 DEF OwnerKeepsOff, Selecting
  <2>3. CASE owner' = Locking(AnswerOf(message, phase, "None"), "receive")
    BY <1>2, <2>1, <2>3
  <2> QED BY <2>2, <2>3 DEF ReceiveResult
<1> QED BY <1>4, <1>5, <1>6, <1>7

\* A send adds one message to what waits.
LEMMA SentElements ==
    ASSUME NEW S, NEW queue \in Seq(S), NEW message \in S
    PROVE  Elements(Append(queue, message)) = Elements(queue) \cup {message}
<1>1. \A i \in DOMAIN Append(queue, message) :
          i \in DOMAIN queue \/ i = Len(queue) + 1
  BY Sent, LenProperties
<1>2. Len(queue) + 1 \in DOMAIN Append(queue, message)
      /\ \A i \in DOMAIN queue : i \in DOMAIN Append(queue, message)
  BY Sent, LenProperties
<1> QED BY <1>1, <1>2, Sent DEF Elements

\* A command comes to the board only from register, and leaves it only at the
\* end of a transmission.
LEMMA OnBoardMoves ==
    ASSUME PathTypeOK, [Next]_vars
    PROVE  /\ \A request \in OnBoard' : request \in OnBoard \/ ProcessForward(request)
           /\ \A request \in OnBoard : \/ request \in OnBoard'
                                       \/ /\ TransmitOk \/ TransmitError
                                          /\ owner = Transmitting(request)
<1> DEFINE Moves ==
        /\ \A request \in OnBoard' : request \in OnBoard \/ ProcessForward(request)
        /\ \A request \in OnBoard : \/ request \in OnBoard'
                                    \/ /\ TransmitOk \/ TransmitError
                                       /\ owner = Transmitting(request)
<1>1. CASE UNCHANGED <<canTx, sending, owner>>
  BY <1>1 DEF OnBoard, Elements
<1>2. ASSUME NEW message \in Request \cup {TimeResponse},
             canTx' = Append(canTx, message), UNCHANGED owner
      PROVE  Elements(canTx') = Elements(canTx) \cup {message}
  BY <1>2, SentElements DEF PathTypeOK
<1>3. ASSUME NEW request \in Request, ProcessForward(request) PROVE Moves
  <2>1. UNCHANGED owner
    BY <1>3 DEF ProcessForward, TakeCommand
  <2>2. CASE canTx' = Append(canTx, request) /\ UNCHANGED sending
    <3>1. Elements(canTx') = Elements(canTx) \cup {request}
      BY <1>2, <2>1, <2>2
    <3> QED BY <1>3, <2>1, <2>2, <3>1 DEF OnBoard
  <2>3. CASE sending' = request /\ UNCHANGED canTx
    BY <1>3, <2>1, <2>3, KindsAssumption
       DEF OnBoard, Elements, ProcessForward, TakeCommand
  <2> QED BY <1>3, <2>2, <2>3 DEF ProcessForward, SendCan
<1>4. ASSUME ProcessGroundTime \/ GnssTime PROVE Moves
  <2>1. UNCHANGED owner
    BY <1>4 DEF ProcessGroundTime, TakeCommand, GnssTime
  <2>2. CASE canTx' = Append(canTx, TimeResponse) /\ UNCHANGED sending
    <3>1. Elements(canTx') = Elements(canTx) \cup {TimeResponse}
      BY <1>2, <2>1, <2>2
    <3> QED BY <2>1, <2>2, <3>1, KindsAssumption DEF OnBoard
  <2>3. CASE sending = None /\ sending' = TimeResponse /\ UNCHANGED canTx
    BY <2>1, <2>3, KindsAssumption DEF OnBoard, Elements
  <2> QED BY <1>1, <1>4, <2>1, <2>2, <2>3
          DEF ProcessGroundTime, TakeCommand, SendCan, GnssTime, TrySend
<1>5. CASE CommandResume
  <2>1. /\ canTx' = Append(canTx, sending) /\ sending' = None /\ UNCHANGED owner
        /\ sending \in Request \cup {TimeResponse}
    BY <1>5 DEF CommandResume, PathTypeOK
  <2>2. Elements(canTx') = Elements(canTx) \cup {sending}
    BY <1>2, <2>1
  <2> QED BY <2>1, <2>2, KindsAssumption DEF OnBoard
<1>6. CASE SelectTransmit
  <2>1. owner.at # "transmit"
    BY <1>6 DEF SelectTransmit, Selecting
  <2>2. CASE /\ safetyTx # <<>> /\ owner' = Transmitting(Head(safetyTx))
             /\ canTx' = canTx
    <3>1. Head(safetyTx) \notin Request
      BY <2>2, Received, KindsAssumption DEF PathTypeOK
    <3> QED BY <1>6, <2>1, <2>2, <3>1
            DEF SelectTransmit, OnBoard, Elements, Transmitting
  <2>3. CASE /\ canTx # <<>> /\ owner' = Transmitting(Head(canTx))
             /\ canTx' = Tail(canTx)
    <3>1. Elements(canTx) = {Head(canTx)} \cup Elements(canTx')
      BY <2>3, Received DEF PathTypeOK
    <3> QED BY <1>6, <2>1, <2>3, <3>1 DEF SelectTransmit, OnBoard, Transmitting
  <2> QED BY <1>6, <2>2, <2>3 DEF SelectTransmit
<1>7. ASSUME TransmitOk \/ TransmitError \/ OwnerResume \/ MissionAnswers
      PROVE  Moves
  <2>1. CASE UNCHANGED owner
    BY <1>1, <1>7, <2>1, OwnerStepKeepsOff DEF OwnerKeepsOff
  <2>2. CASE owner'.at = "transmit" => owner'.message \notin Request
    <3>1. UNCHANGED <<canTx, sending>>
      BY <1>7, OwnerStepKeepsOff DEF OwnerKeepsOff
    <3>2. OnBoard' = (Elements(canTx) \cup {sending}) \cap Request
      BY <2>2, <3>1 DEF OnBoard, Elements
    <3>3. ASSUME NEW request \in OnBoard, request \notin OnBoard'
          PROVE  owner = Transmitting(request)
      BY <3>2, <3>3, OwnerHolds DEF OnBoard
    <3>4. owner.at = "transmit" => TransmitOk \/ TransmitError
      BY <1>7 DEF OwnerResume, MissionAnswers, ReceiveResult, ReceiverServed, Selecting
    <3> QED BY <3>2, <3>3, <3>4 DEF OnBoard, Transmitting
  <2> QED BY <1>7, <2>1, <2>2, OwnerStepKeepsOff DEF OwnerKeepsOff
<1> QED BY <1>1, <1>3, <1>4, <1>5, <1>6, <1>7
        DEF Next, LoraRxStep, LoraRxEmergency, LoraRx, LoraRxResume, CommandTask,
            ProcessDuplicate, ProcessReplay, ProcessReject, TakeCommand,
            CanOwnerTransmit, LoraTxResult, vars, queueVars

\* A command whose transmission has ended is not on the board any more.
LEMMA SentHasLeft ==
    ASSUME PathTypeOK, OnBoardOnce, NEW request \in Request,
           request.transaction_id \notin forgotten,
           TransmitOk \/ TransmitError, owner = Transmitting(request)
    PROVE  request \notin OnBoard'
<1>1. UNCHANGED <<canTx, sending>> /\ owner.at = "transmit"
      /\ (owner'.at = "transmit" => owner'.message \notin Request)
  BY OwnerStepKeepsOff DEF OwnerKeepsOff, Transmitting
<1>2. request \notin Elements(canTx) /\ request # sending
  BY DEF OnBoardOnce, Elements
<1> QED BY <1>1, <1>2 DEF OnBoard, Elements

-----------------------------------------------------------------------------
(* Each command is on its way once.                                        *)

\* A message put at the end of the queue, which is not on its way already if it
\* is a command the table remembers.
LEMMA AppendKeepsOnce ==
    ASSUME PathTypeOK, OnBoardOnce, forgotten \subseteq forgotten',
           NEW message \in Request \cup {TimeResponse},
           canTx' = Append(canTx, message), UNCHANGED owner,
           message \in Request /\ message.transaction_id \notin forgotten' =>
               message \notin Elements(canTx) /\ owner # Transmitting(message),
           \/ sending' = None
           \/ /\ sending' = sending
              /\ message \in Request /\ message.transaction_id \notin forgotten' =>
                     message # sending
    PROVE  OnBoardOnce'
<1>1. /\ DOMAIN canTx = 1 .. Len(canTx) /\ Len(canTx) \in Nat
      /\ DOMAIN canTx' = 1 .. (Len(canTx) + 1)
      /\ \A i \in DOMAIN canTx : canTx'[i] = canTx[i]
      /\ canTx'[Len(canTx) + 1] = message
  BY Sent, LenProperties DEF PathTypeOK
<1>2. \A i \in DOMAIN canTx' : i \in DOMAIN canTx \/ i = Len(canTx) + 1
  BY <1>1
<1>3. ASSUME NEW i \in DOMAIN canTx', canTx'[i] \in Request,
             canTx'[i].transaction_id \notin forgotten'
      PROVE  /\ \A j \in DOMAIN canTx' : canTx'[j] = canTx'[i] => j = i
             /\ canTx'[i] # sending'
             /\ owner' # Transmitting(canTx'[i])
  <2>1. CASE i \in DOMAIN canTx
    <3>1. canTx'[i] = canTx[i] /\ canTx[i].transaction_id \notin forgotten
      BY <1>1, <1>3, <2>1
    <3>2. canTx[i] # message
      BY <1>3, <2>1, <3>1 DEF Elements
    <3>3. \A j \in DOMAIN canTx' : canTx'[j] = canTx'[i] => j = i
      BY <1>1, <1>2, <1>3, <2>1, <3>1, <3>2 DEF OnBoardOnce
    <3>4. canTx'[i] # sending' /\ owner' # Transmitting(canTx'[i])
      BY <1>3, <2>1, <3>1, KindsAssumption DEF OnBoardOnce
    <3> QED BY <3>3, <3>4
  <2>2. CASE i = Len(canTx) + 1
    <3>1. canTx'[i] = message /\ message \in Request
          /\ message.transaction_id \notin forgotten'
      BY <1>1, <1>3, <2>2
    <3>2. \A j \in DOMAIN canTx : canTx'[j] # message
      BY <1>1, <3>1 DEF Elements
    <3>3. \A j \in DOMAIN canTx' : canTx'[j] = canTx'[i] => j = i
      BY <1>2, <2>2, <3>1, <3>2
    <3>4. canTx'[i] # sending' /\ owner' # Transmitting(canTx'[i])
      BY <3>1, KindsAssumption
    <3> QED BY <3>3, <3>4
  <2> QED BY <1>2, <2>1, <2>2
<1>4. sending' \in Request /\ sending'.transaction_id \notin forgotten' =>
          owner' # Transmitting(sending')
  BY KindsAssumption DEF OnBoardOnce
<1> QED BY <1>3, <1>4 DEF OnBoardOnce

\* Every step keeps it so.
LEMMA OnceKept ==
    ASSUME PathIInv, [Next]_vars
    PROVE  OnBoardOnce'
<1> USE DEF PathIInv
<1>1. forgotten \subseteq forgotten'
  BY TableKeepsInv
<1>2. CASE OwnerKeepsOff
  <2>1. \A request \in Request : owner' = Transmitting(request) => owner = Transmitting(request)
    BY <1>2 DEF OwnerKeepsOff
  <2> QED BY <1>1, <1>2, <2>1 DEF OwnerKeepsOff, OnBoardOnce
<1>3. CASE UNCHANGED <<canTx, sending, owner>>
  BY <1>2, <1>3 DEF OwnerKeepsOff
<1>4. ASSUME NEW request \in Request, ProcessForward(request) PROVE OnBoardOnce'
  <2>1. UNCHANGED owner /\ sending = None
    BY <1>4 DEF ProcessForward, TakeCommand
  <2>2. request.transaction_id \notin forgotten => request \notin OnBoard
    BY <1>4, ForwardIsNew, OpenIsRemembered DEF ProcessForward, OnBoardIsOpen
  <2>3. request.transaction_id \notin forgotten' =>
            request \notin Elements(canTx) /\ owner # Transmitting(request)
    BY <1>1, <2>2 DEF OnBoard, Transmitting
  <2>4. CASE canTx' = Append(canTx, request) /\ UNCHANGED sending
    BY <1>1, <2>1, <2>3, <2>4, AppendKeepsOnce, KindsAssumption
  <2>5. CASE sending' = request /\ UNCHANGED canTx
    <3>1. \A i \in DOMAIN canTx : canTx[i] = request =>
              request.transaction_id \in forgotten'
      BY <2>3 DEF Elements
    <3> QED BY <1>1, <2>1, <2>3, <2>5, <3>1 DEF OnBoardOnce
  <2> QED BY <1>4, <2>4, <2>5 DEF ProcessForward, SendCan
<1>5. CASE ProcessGroundTime \/ GnssTime
  <2>1. UNCHANGED owner
    BY <1>5 DEF ProcessGroundTime, TakeCommand, GnssTime
  <2>2. CASE canTx' = Append(canTx, TimeResponse) /\ UNCHANGED sending
    BY <1>1, <2>1, <2>2, AppendKeepsOnce, KindsAssumption
  <2>3. CASE sending = None /\ sending' = TimeResponse /\ UNCHANGED canTx
    BY <1>1, <2>1, <2>3, KindsAssumption DEF OnBoardOnce
  <2> QED BY <1>3, <1>5, <2>1, <2>2, <2>3
          DEF ProcessGroundTime, TakeCommand, SendCan, GnssTime, TrySend
<1>6. CASE CommandResume
  <2>1. /\ canTx' = Append(canTx, sending) /\ sending' = None /\ UNCHANGED owner
        /\ sending \in Request \cup {TimeResponse}
    BY <1>6 DEF CommandResume, PathTypeOK
  <2>2. sending \in Request /\ sending.transaction_id \notin forgotten' =>
            sending \notin Elements(canTx) /\ owner # Transmitting(sending)
    BY <1>1 DEF OnBoardOnce, Elements
  <2> QED BY <1>1, <2>1, <2>2, AppendKeepsOnce
<1>7. CASE SelectTransmit
  <2>1. UNCHANGED sending
    BY <1>7 DEF SelectTransmit
  <2>2. CASE /\ safetyTx # <<>> /\ owner' = Transmitting(Head(safetyTx))
             /\ canTx' = canTx
    <3>1. Head(safetyTx) \notin Request
      BY <2>2, Received, KindsAssumption DEF PathTypeOK
    <3> QED BY <1>2, <2>1, <2>2, <3>1 DEF OwnerKeepsOff, Transmitting
  <2>3. CASE /\ canTx # <<>> /\ owner' = Transmitting(Head(canTx))
             /\ canTx' = Tail(canTx)
    <3>1. /\ Head(canTx) = canTx[1] /\ 1 \in DOMAIN canTx
          /\ \A i \in DOMAIN canTx' : i + 1 \in DOMAIN canTx /\ i + 1 # 1
                                       /\ canTx'[i] = canTx[i + 1]
          /\ \A i \in DOMAIN canTx' : i \in Nat
      <4>1. canTx \in Seq(Request \cup {TimeResponse})
        BY DEF PathTypeOK
      <4>2. /\ Len(canTx) \in Nat \ {0} /\ Head(canTx) = canTx[1]
            /\ DOMAIN canTx = 1 .. Len(canTx)
        BY <2>3, <4>1, EmptySeq, LenProperties
      <4>3. /\ Tail(canTx) \in Seq(Request \cup {TimeResponse})
            /\ Len(Tail(canTx)) = Len(canTx) - 1
            /\ DOMAIN Tail(canTx) = 1 .. Len(Tail(canTx))
            /\ \A i \in 1 .. Len(Tail(canTx)) : Tail(canTx)[i] = canTx[i + 1]
        BY <2>3, <4>1, HeadTailProperties, LenProperties
      <4> QED BY <2>3, <4>2, <4>3
    <3>2. ASSUME NEW i \in DOMAIN canTx', canTx'[i] \in Request,
                 canTx'[i].transaction_id \notin forgotten'
          PROVE  /\ \A j \in DOMAIN canTx' : canTx'[j] = canTx'[i] => j = i
                 /\ canTx'[i] # sending'
                 /\ owner' # Transmitting(canTx'[i])
      <4>1. /\ i + 1 \in DOMAIN canTx /\ canTx[i + 1] = canTx'[i] /\ i \in Nat
            /\ canTx[i + 1].transaction_id \notin forgotten
        BY <1>1, <3>1, <3>2
      <4>2. \A j \in DOMAIN canTx : canTx[j] = canTx[i + 1] => j = i + 1
        BY <3>2, <4>1 DEF OnBoardOnce
      <4>3. \A j \in DOMAIN canTx' : canTx'[j] = canTx'[i] => j + 1 = i + 1 /\ j \in Nat
        BY <3>1, <4>1, <4>2
      <4>4. canTx'[i] # sending'
        BY <2>1, <3>2, <4>1 DEF OnBoardOnce
      <4>5. canTx'[i] # Head(canTx)
        BY <3>1, <3>2, <4>1, <4>2
      <4> QED BY <2>3, <4>1, <4>3, <4>4, <4>5 DEF Transmitting
    <3>3. sending' \in Request /\ sending'.transaction_id \notin forgotten' =>
              owner' # Transmitting(sending')
      <4>1. owner' = Transmitting(canTx[1]) /\ 1 \in DOMAIN canTx
        BY <2>3, <3>1
      <4> SUFFICES ASSUME sending \in Request, sending.transaction_id \notin forgotten',
                          canTx[1] = sending
                   PROVE  FALSE
        BY <2>1, <4>1 DEF Transmitting
      <4> QED BY <1>1, <4>1 DEF OnBoardOnce
    <3> QED BY <3>2, <3>3 DEF OnBoardOnce
  <2> QED BY <1>7, <2>2, <2>3 DEF SelectTransmit
<1>8. ASSUME TransmitOk \/ TransmitError \/ OwnerResume \/ MissionAnswers
      PROVE  OnBoardOnce'
  BY <1>2, <1>8, OwnerStepKeepsOff
<1> QED BY <1>3, <1>4, <1>5, <1>6, <1>7, <1>8
        DEF Next, LoraRxStep, LoraRxEmergency, LoraRx, LoraRxResume, CommandTask,
            ProcessDuplicate, ProcessReplay, ProcessReject, TakeCommand,
            CanOwnerTransmit, LoraTxResult, vars, queueVars

-----------------------------------------------------------------------------
(* Commands, answers and the table agree.                                  *)

\* A command on the board whose id has just been sent is the one that was sent,
\* and it is not on the board any more.
LEMMA JustSentIsGone ==
    ASSUME PathIInv, [Next]_vars, NEW request \in OnBoard, NEW id, JustSent(id),
           request.transaction_id = id, id \notin forgotten
    PROVE  request \notin OnBoard'
<1> USE DEF PathIInv
<1>1. /\ owner.message \in OnBoard /\ owner.message.transaction_id = id
      /\ owner = Transmitting(owner.message) /\ owner.message \in Request
      /\ (TransmitOk \/ TransmitError)
  BY OwnerHolds DEF JustSent, OnBoard
<1>2. owner.message \in OpenRequests /\ request \in OpenRequests
  BY <1>1 DEF OnBoardIsOpen
<1>3. request = owner.message
  BY <1>1, <1>2, OpenOnce
<1> QED BY <1>1, <1>3, SentHasLeft

\* Whatever is on the board after a step was there before, or is a command with
\* an id nobody remembered.
LEMMA BoardKept ==
    ASSUME PathIInv, [Next]_vars, NEW request \in OnBoard',
           request.transaction_id \notin forgotten'
    PROVE  /\ request \in OpenRequests'
           /\ ~ Outstanding(request.transaction_id)'
<1> USE DEF PathIInv
<1> DEFINE id == request.transaction_id
<1>1. /\ id \notin forgotten /\ request \in Request /\ id \in TransactionId
  BY TableKeepsInv DEF OnBoard, Request
<1>2. CASE ProcessForward(request)
  <2>1. request \in OpenRequests' /\ ~ Remembered(id)
    BY <1>1, <1>2, ForwardIsNew DEF ProcessForward
  <2>2. ~ Outstanding(id)
    BY <1>1, <2>1 DEF AnswersAreKnown
  <2>3. Outstanding(id)' = Outstanding(id)
    BY <1>2 DEF ProcessForward, TakeCommand, Outstanding, AnswerInHand
  <2> QED BY <2>1, <2>2, <2>3
<1>3. CASE request \in OnBoard
  <2>1. request \in OpenRequests /\ ~ Outstanding(id)
    BY <1>1, <1>3 DEF OnBoardIsOpen, NoAnswerAhead
  <2>2. ~ JustSent(id)
    BY <1>1, <1>3, JustSentIsGone
  <2>3. ~ Outstanding(id)'
    BY <2>1, <2>2, OutstandingSources
  <2>4. request \in OpenRequests'
    <3>1. CASE UNCHANGED tableVars
      BY <2>1, <3>1 DEF tableVars, trackerVars, OpenRequests
    <3>2. CASE \E forwarded \in Request : ProcessForward(forwarded)
      BY <2>1, <3>2, ForwardIsNew DEF ProcessForward
    <3>3. CASE Answered
      <4>1. PICK result \in Result :
                /\ Applied(result) /\ Forget
                /\ \/ Outstanding(result.transaction_id)
                   \/ JustSent(result.transaction_id)
        BY <3>3 DEF Answered
      <4>2. id # result.transaction_id
        BY <2>1, <2>2, <4>1
      <4> QED BY <2>1, <4>1, <4>2, ApplyCloses DEF PathTypeOK
    <3> QED BY <3>1, <3>2, <3>3, StepMovesTable DEF TableMoves
  <2> QED BY <2>3, <2>4
<1> QED BY <1>2, <1>3, OnBoardMoves

\* What may still be answered stays known.
LEMMA KnownKept ==
    ASSUME PathIInv, [Next]_vars
    PROVE  AnswersAreKnown'
<1> USE DEF PathIInv
<1> SUFFICES ASSUME NEW id \in TransactionId, id \notin forgotten', Outstanding(id)'
             PROVE  Remembered(id)'
  BY DEF AnswersAreKnown
<1>1. id \notin forgotten
  BY TableKeepsInv
<1>2. CASE Outstanding(id)
  BY <1>1, <1>2, TableKeepsInv DEF AnswersAreKnown
<1>3. CASE JustSent(id)
  <2>1. owner.message \in OnBoard /\ owner.message.transaction_id = id
    BY <1>3 DEF JustSent, OnBoard
  <2>2. owner.message \in OpenRequests
    BY <1>1, <2>1 DEF OnBoardIsOpen
  <2>3. Remembered(id)
    BY <2>1, <2>2, OpenIsRemembered
  <2> QED BY <2>3, TableKeepsInv
<1> QED BY <1>2, <1>3, OutstandingSources

\* An open command does not get lost.
LEMMA SomewhereKept ==
    ASSUME PathIInv, [Next]_vars
    PROVE  OpenIsSomewhere'
<1> USE DEF PathIInv
<1> DEFINE Somewhere(request) ==
        request \in OnBoard \/ Concluding(request) \/ request \in mission
<1> SUFFICES ASSUME NEW request \in OpenRequests' PROVE Somewhere(request)'
  BY DEF OpenIsSomewhere
<1>1. CASE request \notin OpenRequests
  <2>1. ProcessForward(request)
    <3>1. CASE UNCHANGED tableVars
      BY <1>1, <3>1 DEF tableVars, trackerVars, OpenRequests
    <3>2. CASE \E forwarded \in Request : ProcessForward(forwarded)
      BY <1>1, <3>2, ForwardIsNew DEF ProcessForward
    <3>3. CASE Answered
      BY <1>1, <3>3, ApplyCloses DEF Answered, PathTypeOK
    <3> QED BY <3>1, <3>2, <3>3, StepMovesTable DEF TableMoves
  <2>2. request \in Request
    BY <2>1, TableKeepsInv, SlotTypes DEF OpenRequests, TrackerInv, TypeOK
  <2>3. CASE canTx' = Append(canTx, request)
    <3>1. request \in Elements(canTx')
      BY <2>2, <2>3, SentElements DEF PathTypeOK
    <3> QED BY <2>2, <3>1 DEF OnBoard
  <2>4. CASE sending' = request
    BY <2>2, <2>4 DEF OnBoard
  <2> QED BY <2>1, <2>3, <2>4 DEF ProcessForward, SendCan
<1>2. CASE request \in OpenRequests
  <2>1. Somewhere(request) /\ request \in Request
    BY <1>2, OpenIsRemembered DEF OpenIsSomewhere
  <2>2. ASSUME NEW result \in Result, Applied(result), Forget, IsFinal(result.phase),
               request.transaction_id = result.transaction_id,
               request.command = result.command
        PROVE  FALSE
    BY <1>2, <2>2, ApplyCloses DEF PathTypeOK
  <2>3. CASE TransmitOk /\ owner = Transmitting(request)
    BY <2>1, <2>3, KindsAssumption DEF TransmitOk, Deliver, Transmitting
  <2>4. CASE TransmitError /\ owner = Transmitting(request)
    <3> DEFINE failed == AnswerOf(request, "Failed", "Timeout")
    <3>1. /\ failed \in Result /\ failed.transaction_id = request.transaction_id
          /\ failed.command = request.command /\ IsFinal(failed.phase)
      BY <2>1, AnswerOfRequest, ReasonAssumption DEF Phase, IsFinal
    <3>2. owner.message = request
      BY <2>4 DEF Transmitting
    <3>3. ~ ApplyOwnFailure(failed)
      BY <2>2, <3>1, FailureTypes
    <3>4. owner' = Locking(failed, "transmit")
      BY <2>1, <2>4, <3>2, <3>3, KindsAssumption DEF TransmitError
    <3>5. Concluding(request)'
      BY <3>1, <3>4 DEF Concluding, Locking, IsFinal
    <3> QED BY <3>5
  <2>5. CASE request \in OnBoard
    BY <2>3, <2>4, <2>5, OnBoardMoves
  <2>6. CASE Concluding(request)
    <3>1. CASE UNCHANGED owner
      BY <2>6, <3>1 DEF Concluding, IsFinal
    <3>2. CASE OwnerResume
      <4>1. Applied(owner.result) /\ Forget
        <5>1. CASE ApplyOwnFailure(owner.result)
          BY <2>6, <5>1, FailureTypes DEF Concluding
        <5>2. CASE ApplyAnswer(owner.result)
          <6>1. owner.result \notin EmergencyResult
            BY <2>6 DEF Concluding, Result, EmergencyResult
          <6> QED BY <5>2, <6>1, AnswerTypes
        <5> QED BY <3>2, <5>1, <5>2 DEF OwnerResume
      <4> QED BY <2>2, <2>6, <4>1 DEF Concluding
    <3> QED BY <2>6, <3>1, <3>2
            DEF Concluding, Next, LoraRxStep, LoraRxEmergency, LoraRx, LoraRxResume,
                CommandTask, ProcessForward, ProcessDuplicate, ProcessReplay,
                ProcessReject, ProcessGroundTime, TakeCommand, CommandResume, GnssTime,
                CanOwnerTransmit, SelectTransmit, TransmitOk, TransmitError,
                MissionAnswers, ReceiveResult, ReceiverServed, Selecting, LoraTxResult,
                vars
  <2>7. CASE request \in mission
    <3>1. CASE mission \subseteq mission'
      BY <2>7, <3>1
    <3>2. CASE MissionAnswers
      <4> PICK message \in Request \cup EmergencyStop, phase \in MissionPhase :
               ReceiveResult(message, phase)
        BY <3>2 DEF MissionAnswers
      <4> DEFINE result == AnswerOf(request, phase, "None")
      <4>1. CASE request \in mission'
        BY <4>1
      <4>2. CASE request \notin mission'
        <5>1. message = request /\ IsFinal(phase)
          BY <2>7, <4>2 DEF ReceiveResult
        <5>2. /\ result \in Result /\ result.transaction_id = request.transaction_id
              /\ result.command = request.command /\ IsFinal(result.phase)
          BY <2>1, <5>1, AnswerOfRequest, ReasonAssumption, MissionPhaseAssumption
             DEF IsFinal
        <5>3. result \notin EmergencyResult
          BY <5>2 DEF Result, EmergencyResult
        <5>4. ~ ApplyAnswer(result)
          BY <2>2, <5>2, <5>3, AnswerTypes
        <5>5. owner' = Locking(result, "receive")
          BY <5>1, <5>4 DEF ReceiveResult
        <5>6. Concluding(request)'
          BY <5>2, <5>5 DEF Concluding, Locking, IsFinal
        <5> QED BY <5>6
      <4> QED BY <4>1, <4>2
    <3> QED BY <3>1, <3>2
            DEF Next, LoraRxStep, LoraRxEmergency, LoraRx, LoraRxResume,
                CommandTask, ProcessForward, ProcessDuplicate, ProcessReplay,
                ProcessReject, ProcessGroundTime, TakeCommand, CommandResume, GnssTime,
                CanOwnerTransmit, SelectTransmit, TransmitOk, TransmitError, Deliver,
                OwnerResume, LoraTxResult, vars
  <2> QED BY <2>1, <2>5, <2>6, <2>7
<1> QED BY <1>1, <1>2

-----------------------------------------------------------------------------
(* The theorems.                                                           *)

LEMMA PathInitInv == Init => PathIInv
<1> SUFFICES ASSUME Init PROVE PathIInv
  OBVIOUS
<1>1. TrackerInv /\ TypeOK
  BY TrackerInitInv DEF Init, TrackerInv
<1>2. \A S : <<>> \in Seq(S) /\ Len(<<>>) = 0
  BY EmptySeq
<1>3. PathTypeOK
  <2>1. /\ 0 <= UplinkCap /\ 0 <= TxCap /\ 0 <= SafetyCap
        /\ 0 <= ResultCap /\ 0 <= EmergencyCap
        /\ 0 \in 0 .. MaxUplinks /\ 0 \in 0 .. MaxGnssTimes
    BY CapacityAssumption, BoundsAssumption
  <2>2. /\ uplink \in Seq(Request \cup {TimeResponse}) /\ Len(uplink) <= UplinkCap
        /\ canTx \in Seq(Request \cup {TimeResponse}) /\ Len(canTx) <= TxCap
        /\ safetyTx \in Seq(EmergencyStop) /\ Len(safetyTx) <= SafetyCap
        /\ commandResults \in Seq(Result) /\ Len(commandResults) <= ResultCap
        /\ emergencyResults \in Seq(EmergencyResult)
        /\ Len(emergencyResults) <= EmergencyCap
    BY <1>2, <2>1 DEF Init
  <2>3. /\ uplinks \in 0 .. MaxUplinks /\ gnssTimes \in 0 .. MaxGnssTimes
        /\ rxBlocked \in EmergencyStop \cup {None}
        /\ sending \in Request \cup {TimeResponse, None}
        /\ owner = Selecting /\ mission \subseteq Request \cup EmergencyStop
        /\ logging \in BOOLEAN /\ forgotten \subseteq TransactionId
    BY <2>1 DEF Init
  <2> QED BY <1>1, <2>2, <2>3 DEF PathTypeOK
<1>4. OpenRequests = {}
  BY DEF Init, TrackerInit, OpenRequests
<1>5. OnBoard = {} /\ DOMAIN canTx = {}
  <2>1. DOMAIN canTx = {}
    BY DEF Init
  <2> QED BY <2>1, KindsAssumption DEF Init, OnBoard, Elements, Selecting
<1>6. \A id : ~ Outstanding(id)
  BY DEF Init, Outstanding, AnswerInHand, Selecting
<1>7. OpenIsSomewhere /\ OnBoardIsOpen /\ NoAnswerAhead /\ AnswersAreKnown
  BY <1>4, <1>5, <1>6 DEF OpenIsSomewhere, OnBoardIsOpen, NoAnswerAhead, AnswersAreKnown
<1>8. OnBoardOnce
  BY <1>5, KindsAssumption DEF OnBoardOnce, Init
<1> QED BY <1>1, <1>3, <1>7, <1>8 DEF PathIInv

LEMMA PathStepInv ==
    ASSUME PathIInv, [Next]_vars
    PROVE  PathIInv'
<1>1. TrackerInv' /\ PathTypeOK'
  BY TableKeepsInv, PathTypeKept DEF PathIInv
<1>2. OnBoardIsOpen' /\ NoAnswerAhead'
  BY BoardKept DEF OnBoardIsOpen, NoAnswerAhead
<1> QED BY <1>1, <1>2, OnceKept, KnownKept, SomewhereKept DEF PathIInv

LEMMA PathIInvariant == Spec => []PathIInv
BY PathInitInv, PathStepInv, PTL DEF Spec

\* Whatever the order of uplinks, repetitions, failed transmissions, answers and
\* suspended tasks: an open command is on its way or with Mission, and while the
\* table remembers a command it is on its way at most once and only while open.
THEOREM CommandsAreTracked == Spec => []PathInv
<1>1. PathIInv => PathInv
  BY DEF PathIInv, PathInv
<1> QED BY <1>1, PathIInvariant, PTL

\* No step of the CAN owner starts a normal frame while a stop is queued.
THEOREM StopsComeFirst == Spec => StopsOvertakeAlways
<1>1. PathTypeOK /\ [Next]_vars => [StopsOvertake]_vars
  <2> SUFFICES ASSUME PathTypeOK, Next, owner'.at = "transmit",
                      owner'.message \notin EmergencyStop, owner' # owner
               PROVE  safetyTx = <<>>
    BY DEF StopsOvertake
  <2>1. ~ NextSafety
    BY SafetyIsNoRequest
  <2>2. ASSUME NEW result, NEW from PROVE owner' # Locking(result, from)
    BY DEF Locking
  <2>3. owner' # Selecting
    BY DEF Selecting
  <2>4. SelectTransmit
    BY <2>1, <2>2, <2>3
       DEF Next, LoraRxStep, LoraRxEmergency, LoraRx, LoraRxResume, CommandTask,
           ProcessForward, ProcessDuplicate, ProcessReplay, ProcessReject,
           ProcessGroundTime, TakeCommand, CommandResume, GnssTime, CanOwnerTransmit,
           TransmitOk, TransmitError, MissionAnswers, ReceiveResult, OwnerResume,
           LoraTxResult
  <2>5. safetyTx # <<>> => Head(safetyTx) \in EmergencyStop
    BY Received DEF PathTypeOK
  <2> QED BY <2>4, <2>5 DEF SelectTransmit, Transmitting
<1>2. PathIInv => PathTypeOK
  BY DEF PathIInv
<1> QED BY <1>1, <1>2, PathIInvariant, PTL DEF Spec, StopsOvertakeAlways

\* The board moves the command table only by complete calls of register and
\* apply_result, so all that holds of the table holds on the board.
THEOREM PathUsesTheTracker == Spec => TrackerSpec
<1>1. Init => TrackerInit
  BY DEF Init
<1>2. PathIInv /\ [Next]_vars => [TrackerNext]_trackerVars
  BY StepMovesTable DEF PathIInv
<1> QED BY <1>1, <1>2, PathIInvariant, PTL DEF Spec, TrackerSpec

\* On the board, too, the table implements the ledger and a final answer is
\* never rewritten.
THEOREM PathKeepsTheLedger == Spec => RefinesLedger /\ FinalAnswerStandsAlways
BY PathUsesTheTracker, TrackerRefinesLedger, TrackerFinalAnswerStands, PTL
=============================================================================
