----------------------------- MODULE TimeRelay -----------------------------
(***************************************************************************)
(* Mission's TimeRequests on their way to the ground: the CAN owner queues *)
(* them for lora_tx_task as B1 packets.  An id that repeats the one queued *)
(* last is ignored, and a full queue loses its oldest request.  The CAN    *)
(* owner and lora_tx_task share core 1, so queueing is one step.  Mission  *)
(* may ask with any id at any time, as often as it likes.                  *)
(***************************************************************************)
EXTENDS Naturals, SequencesExt

CONSTANTS
    QueueCap,       \* GROUND_TIME_REQUEST_LORA_CHANNEL, 8
    Ids,            \* bound: request ids in use, 0 .. Ids - 1
    NoId            \* Option::None

ASSUME RelayAssumption == QueueCap \in Nat \ {0} /\ Ids \in Nat \ {0, 1}

Id == 0 .. Ids - 1

ASSUME NoIdAssumption == NoId \notin Id

VARIABLES
    previous,       \* previous_time_request_id
    queue,          \* GROUND_TIME_REQUEST_LORA_CHANNEL
    \* History variables:
    newest,         \* Mission's last request that reached the CAN owner, or NoId
    relayed         \* the request lora_tx_task took last, or NoId

relayVars == <<previous, queue, newest, relayed>>

TimeInit ==
    /\ previous = NoId /\ queue = <<>>
    /\ newest = NoId /\ relayed = NoId

GroundTimeQueueAction(request_id) ==
    IF previous = request_id THEN "IgnoreDuplicate"
    ELSE IF Len(queue) = QueueCap THEN "ReplaceOldest" ELSE "Enqueue"

PushedNewestLost(request_id) ==
    IF Len(queue) = QueueCap THEN queue ELSE Append(queue, request_id)

\* queue_ground_time_request, after the duplicates.
Pushed(request_id) ==
    CASE GroundTimeQueueAction(request_id) = "Enqueue" -> Append(queue, request_id)
      [] GroundTimeQueueAction(request_id) = "ReplaceOldest" ->
            Append(Tail(queue), request_id)

\* A TimeRequest reaches the CAN owner.
Request(request_id) ==
    /\ newest' = request_id
    /\ IF GroundTimeQueueAction(request_id) = "IgnoreDuplicate"
       THEN UNCHANGED <<previous, queue>>
       ELSE queue' = Pushed(request_id) /\ previous' = request_id
    /\ UNCHANGED relayed

\* lora_tx_task takes the oldest request and sends it.
Relay ==
    /\ queue # <<>>
    /\ relayed' = Head(queue) /\ queue' = Tail(queue)
    /\ UNCHANGED <<previous, newest>>

TimeNext == Relay \/ \E id \in Id : Request(id)

---------------------------------------------------------------------------
(* Properties.                                                             *)

\* A full queue, however many requests it loses, never loses Mission's last one:
\* that is what lora_tx_task takes last, or waits at the end of the queue, and it
\* is what the next request is compared with.
NewestIsKept ==
    newest # NoId =>
        /\ previous = newest
        /\ newest = IF queue = <<>> THEN relayed ELSE Last(queue)

\* The queue keeps to its capacity, and no id stands in it behind itself: the
\* transmitter is not spent on repetitions.
NoRepetition ==
    /\ queue \in Seq(Id) /\ Len(queue) <= QueueCap
    /\ \A i \in 1 .. Len(queue) - 1 : queue[i] # queue[i + 1]

\* However many requests a full queue loses and however often Mission repeats itself,
\* what the ground is asked last is what Mission asked last.
RequestInv == NewestIsKept /\ NoRepetition
=============================================================================
