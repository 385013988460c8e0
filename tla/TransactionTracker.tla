------------------------- MODULE TransactionTracker -------------------------
(***************************************************************************)
(* The table the communication board keeps of the ground commands it has   *)
(* forwarded to the Mission board (src/can/command.rs).                    *)
(*                                                                         *)
(* `pending` has one slot per command still open; `results` is a ring of   *)
(* the latest answers, which lets a repeated uplink be answered again      *)
(* without being executed again.  The methods are `register`, called for   *)
(* every ground command, and `apply_result`, called for every answer of    *)
(* the Mission board and for every CAN transmission that fails.  Each      *)
(* variant of the enum RegisterResult that `register` returns is an action.*)
(***************************************************************************)
EXTENDS Integers

CONSTANTS
    TransactionId,      \* the u8 transaction ids the ground station uses
    Command,            \* the command codes
    Args,               \* the values of the six argument bytes
    Reason,             \* the reasons of enum CommandReason
    MaxPending,         \* MAX_PENDING_TRANSACTIONS (16 in the code)
    ResultCapacity,     \* RESULT_CACHE_CAPACITY (16 in the code)
    None                \* Option::None of a slot

ASSUME MaxPendingAssumption == MaxPending \in Nat \ {0}
ASSUME ResultCapacityAssumption == ResultCapacity \in Nat \ {0}

Phase == {"Accepted", "Completed", "Rejected", "Failed"}

Request == [transaction_id : TransactionId, command : Command, args : Args]

Result == [transaction_id : TransactionId, command : Command,
           phase : Phase, reason : Reason]

CachedEntry == [request : Request, result : Result]

ASSUME NoneAssumption == None \notin Request /\ None \notin CachedEntry

PendingSlot == 1 .. MaxPending
ResultSlot == 0 .. (ResultCapacity - 1)

VARIABLES
    pending,            \* [PendingSlot -> Request or None]
    results,            \* [ResultSlot -> CachedEntry or None]
    next_result         \* the ring slot the next new answer is written to

trackerVars == <<pending, results, next_result>>

\* CommandPhase::is_final.
IsFinal(phase) == phase # "Accepted"

\* Slot s is the one an iterator over the array meets first among S.
IsFirst(s, S) == s \in S /\ \A t \in S : s <= t

FreeSlots == {s \in PendingSlot : pending[s] = None}

\* The open commands carrying a transaction id.
PendingWith(id) ==
    {s \in PendingSlot : pending[s] # None /\ pending[s].transaction_id = id}

\* The cached answers to a transaction id.
CachedWith(id) ==
    {c \in ResultSlot : results[c] # None
                        /\ results[c].request.transaction_id = id}

CachedFor(request) == {c \in CachedWith(request.transaction_id) :
                          results[c].request = request}

AnswersAnyCommand(result) == PendingWith(result.transaction_id)

\* The open command an answer belongs to: same id and same command.
Answers(result) == {s \in PendingWith(result.transaction_id) :
                       pending[s].command = result.command}

TrackerInit ==
    /\ pending = [s \in PendingSlot |-> None]
    /\ results = [c \in ResultSlot |-> None]
    /\ next_result = 0

-----------------------------------------------------------------------------
(* register: one action for each value it returns.                         *)

KnownWhilePendingOnly(request) ==
    PendingWith(request.transaction_id) # {}

Known(request) == \/ PendingWith(request.transaction_id) # {}
                  \/ CachedWith(request.transaction_id) # {}

\* RegisterResult::Forward: an unknown id takes the first free slot.
RegisterForward(request) ==
    /\ ~ Known(request)
    /\ \E s \in FreeSlots :
          /\ IsFirst(s, FreeSlots)
          /\ pending' = [pending EXCEPT ![s] = request]
    /\ UNCHANGED <<results, next_result>>

\* RegisterResult::Busy: an unknown id and no free slot.
RegisterBusy(request) ==
    /\ ~ Known(request)
    /\ FreeSlots = {}
    /\ UNCHANGED trackerVars

\* RegisterResult::DuplicatePending: the same request is open, unanswered.
RegisterDuplicate(request) ==
    /\ \E s \in PendingWith(request.transaction_id) :
          /\ IsFirst(s, PendingWith(request.transaction_id))
          /\ pending[s] = request
    /\ CachedFor(request) = {}
    /\ UNCHANGED trackerVars

\* RegisterResult::Replay(result): the same request has a cached answer.
RegisterReplay(request, result) ==
    /\ \/ /\ \E s \in PendingWith(request.transaction_id) :
                /\ IsFirst(s, PendingWith(request.transaction_id))
                /\ pending[s] = request
          /\ \E c \in CachedFor(request) :
                IsFirst(c, CachedFor(request)) /\ result = results[c].result
       \/ /\ PendingWith(request.transaction_id) = {}
          /\ \E c \in CachedWith(request.transaction_id) :
                /\ IsFirst(c, CachedWith(request.transaction_id))
                /\ results[c].request = request
                /\ result = results[c].result
    /\ UNCHANGED trackerVars

\* RegisterResult::ProtocolError: the id is in use for another request.
RegisterProtocolError(request) ==
    /\ \/ \E s \in PendingWith(request.transaction_id) :
             /\ IsFirst(s, PendingWith(request.transaction_id))
             /\ pending[s] # request
       \/ /\ PendingWith(request.transaction_id) = {}
          /\ \E c \in CachedWith(request.transaction_id) :
                /\ IsFirst(c, CachedWith(request.transaction_id))
                /\ results[c].request # request
    /\ UNCHANGED trackerVars

-----------------------------------------------------------------------------
(* apply_result: true when an open command matches, false otherwise.       *)

\* The answer replaces the cached one of the same command in place; a
\* command without one takes the ring's next slot, whatever that held.
Remember(request, result) ==
    LET cached == {c \in CachedWith(request.transaction_id) :
                      results[c].request.command = request.command}
    IN  \/ /\ \E c \in cached :
                 /\ IsFirst(c, cached)
                 /\ results' = [results EXCEPT ![c].result = result]
           /\ UNCHANGED next_result
        \/ /\ cached = {}
           /\ results' = [results EXCEPT ![next_result] =
                             [request |-> request, result |-> result]]
           /\ next_result' = (next_result + 1) % ResultCapacity

\* apply_result returns true; a final answer closes the command.
ApplyMatched(result) ==
    \E s \in Answers(result) :
       /\ IsFirst(s, Answers(result))
       /\ Remember(pending[s], result)
       /\ pending' = IF IsFinal(result.phase)
                     THEN [pending EXCEPT ![s] = None] ELSE pending

\* apply_result returns false: late, repeated or unknown answers.
ApplyUnmatched(result) ==
    /\ Answers(result) = {}
    /\ UNCHANGED trackerVars

TrackerNext ==
    \/ \E request \in Request :
          \/ RegisterForward(request)
          \/ RegisterBusy(request)
          \/ RegisterDuplicate(request)
          \/ \E result \in Result : RegisterReplay(request, result)
          \/ RegisterProtocolError(request)
    \/ \E result \in Result : ApplyMatched(result) \/ ApplyUnmatched(result)

TrackerSpec == TrackerInit /\ [][TrackerNext]_trackerVars

-----------------------------------------------------------------------------
(* What the table guarantees.                                              *)

\* The slots of both arrays hold what the Rust types allow.
TypeOK ==
    /\ pending \in [PendingSlot -> Request \cup {None}]
    /\ results \in [ResultSlot -> CachedEntry \cup {None}]
    /\ next_result \in ResultSlot

\* No two open commands share a transaction id, and no two cached answers
\* do, so the `find` calls of register and apply_result cannot pick the
\* wrong entry.
IdsUnique ==
    /\ \A s, t \in PendingSlot :
          (pending[s] # None /\ pending[t] # None
           /\ pending[s].transaction_id = pending[t].transaction_id) => s = t
    /\ \A c, d \in ResultSlot :
          (results[c] # None /\ results[d] # None
           /\ results[c].request.transaction_id
                = results[d].request.transaction_id) => c = d

\* A cached answer is one to the request stored with it: a replay never
\* tells the ground about another command.
AnswerMatchesRequest ==
    \A c \in ResultSlot : results[c] # None =>
        /\ results[c].result.transaction_id = results[c].request.transaction_id
        /\ results[c].result.command = results[c].request.command

\* A cached answer is final exactly when its command is no longer open.  So
\* register never replays `Accepted` for a command nobody will ever finish,
\* and never keeps a slot for one whose final answer it would replay.
FinalIffClosed ==
    \A c \in ResultSlot : results[c] # None =>
        (IsFinal(results[c].result.phase)
            <=> \A s \in PendingSlot : pending[s] # results[c].request)

\* An open command and a cached answer with the same id belong to the same
\* request: the two tables `register` consults never contradict each other.
TablesAgree ==
    \A s \in PendingSlot, c \in ResultSlot :
        (pending[s] # None /\ results[c] # None
         /\ pending[s].transaction_id = results[c].request.transaction_id)
            => pending[s] = results[c].request

\* The ring is filled from slot 0 and next_result is its oldest entry: a
\* free slot is never skipped while an answer is thrown away.
RingFilledInOrder ==
    \A c \in ResultSlot : results[c] = None =>
        /\ next_result <= c
        /\ \A d \in ResultSlot : d >= c => results[d] = None

\* What `register` and `apply_result` rely on when they look an id up in the two
\* tables: the first entry `find` meets is the only one, what it says of a command
\* is true of that command, and a final answer stands for a closed command.
TrackerInv ==
    /\ TypeOK
    /\ IdsUnique
    /\ AnswerMatchesRequest
    /\ TablesAgree
    /\ FinalIffClosed
    /\ RingFilledInOrder

\* A final answer is never replaced by another answer to the same request
\* while it is cached: a late or repeated Mission result (one that follows
\* the local `Failed` of a CAN transmission whose outcome is unknown, for
\* instance) cannot change what the ground was told.
FinalAnswerStands ==
    \A c \in ResultSlot :
        (/\ results[c] # None /\ IsFinal(results[c].result.phase)
         /\ results'[c] # results[c])
            => /\ results'[c] # None
               /\ results'[c].request.transaction_id
                    # results[c].request.transaction_id

FinalAnswerStandsAlways == [][FinalAnswerStands]_trackerVars

-----------------------------------------------------------------------------
(* The table seen as the ledger it implements.                             *)

OpenRequests == {pending[s] : s \in PendingSlot} \ {None}
AnsweredRequests == {results[c] : c \in ResultSlot} \ {None}

Ledger == INSTANCE CommandLedger
              WITH open <- OpenRequests, answered <- AnsweredRequests

\* The table implements the ledger: an id is executed at most once while it is
\* remembered, only open commands are answered, and an answer costs the
\* memory of at most one other.
RefinesLedger == Ledger!Spec

=============================================================================
