----------------------------- MODULE CommandPath -----------------------------
(***************************************************************************)
(* The way of a ground command through the board: LoRa receiver, command   *)
(* task, CAN owner, Mission board, and the answer's way back to the LoRa   *)
(* queues (src/tasks/lora_task.rs, lora_task_base.rs, can_communication.rs).*)
(*                                                                         *)
(* The tasks run on one cooperative executor: each action below is what a  *)
(* task does between two suspension points.  A suspended task is a         *)
(* variable that says what it waits for:                                   *)
(*   - rxBlocked: lora_rx_task in CAN_SAFETY_TX_CHANNEL.send().await;      *)
(*   - sending: command_process_task in CAN_TX_CHANNEL.send().await, and   *)
(*     when the message is a generic request the guard of COMMAND_TRACKER  *)
(*     is still held (the scrutinee of the match in process_generic);      *)
(*   - owner: can_communication_task, at its select, inside a transmission,*)
(*     or in COMMAND_TRACKER.lock().await.                                 *)
(* Local commands are in RecoveryRelay; driver state and health counters   *)
(* of the CAN owner are left out here: no step below reads them.           *)
(***************************************************************************)
EXTENDS TransactionTracker, Sequences

CONSTANTS
    EmergencyStop,      \* the two emergency stops of the uplink
    StartSequence,      \* command code 0x01
    TimeResponse,       \* the CAN TimeResponse message, content left out
    UplinkCap,          \* capacity of UPLINK_COMMAND_CHANNEL (8)
    TxCap,              \* capacity of CAN_TX_CHANNEL (8)
    SafetyCap,          \* capacity of CAN_SAFETY_TX_CHANNEL (8)
    ResultCap,          \* capacity of COMMAND_RESULT_LORA_CHANNEL (16)
    EmergencyCap,       \* capacity of EMERGENCY_RESULT_LORA_CHANNEL (16)
    Uplinks,            \* what the ground sends, see LoraRx
    MissionPhase,       \* the phases Mission answers with
    MaxUplinks,         \* bound: uplink frames received in a behaviour
    MaxGnssTimes        \* bound: GNSS time responses in a behaviour

ASSUME UplinksAssumption ==
    Uplinks \subseteq Request \cup EmergencyStop \cup {TimeResponse}

ASSUME MissionPhaseAssumption == MissionPhase \subseteq Phase

\* The enums of the code keep commands, stops, time responses and None apart.
ASSUME KindsAssumption ==
    /\ Request \cap EmergencyStop = {}
    /\ TimeResponse \notin Request \cup EmergencyStop
    /\ None \notin Request \cup EmergencyStop \cup {TimeResponse}

\* The reasons the board itself gives, and the one Mission's answers carry.
ASSUME ReasonAssumption ==
    {"None", "Timeout", "ProtocolError", "Busy"} \subseteq Reason

ASSUME BoundsAssumption == MaxUplinks \in Nat /\ MaxGnssTimes \in Nat

ASSUME CapacityAssumption ==
    /\ UplinkCap \in Nat \ {0} /\ TxCap \in Nat \ {0} /\ SafetyCap \in Nat \ {0}
    /\ ResultCap \in Nat \ {0} /\ EmergencyCap \in Nat \ {0}

VARIABLES
    uplink,             \* UPLINK_COMMAND_CHANNEL
    canTx,              \* CAN_TX_CHANNEL
    safetyTx,           \* CAN_SAFETY_TX_CHANNEL
    commandResults,     \* COMMAND_RESULT_LORA_CHANNEL
    emergencyResults,   \* EMERGENCY_RESULT_LORA_CHANNEL
    rxBlocked,          \* the emergency lora_rx_task is blocked on, or None
    sending,            \* the message the command task is blocked on, or None
    owner,              \* what the CAN owner is doing
    mission,            \* external: requests and stops Mission has to answer
    logging,            \* LOGGING_REQUESTED
    uplinks, gnssTimes, \* counters of the two bounds
    forgotten           \* history: the ids that have been in the table and fell
                        \* out of its ring since; no step reads it

queueVars == <<uplink, canTx, safetyTx, commandResults, emergencyResults>>
\* The table, and the record of what it has forgotten.
tableVars == <<trackerVars, forgotten>>
vars == <<tableVars, queueVars, rxBlocked, sending, owner, mission, logging,
          uplinks, gnssTimes>>

Selecting == [at |-> "select"]
Transmitting(message) == [at |-> "transmit", message |-> message]
\* Suspended in COMMAND_TRACKER.lock().await with an answer to apply; `from`
\* says whether a failed transmission or a received frame brought it.
Locking(result, from) == [at |-> "lock", result |-> result, from |-> from]

\* process_generic keeps the guard while it waits for room in CAN_TX_CHANNEL.
TrackerLocked == sending \in Request

EmergencyResult == [stop : EmergencyStop, phase : Phase]

\* The result packet about a request or a stop.
AnswerOf(message, phase, reason) ==
    IF message \in EmergencyStop
    THEN [stop |-> message, phase |-> phase]
    ELSE [transaction_id |-> message.transaction_id, command |-> message.command,
          phase |-> phase, reason |-> reason]

\* Channel::try_send: the message is dropped when the channel is full.
TrySend(queue, cap, message) ==
    IF Len(queue) < cap THEN Append(queue, message) ELSE queue

\* queue_command_result and queue_emergency_result.
QueueCommandResult(result) ==
    commandResults' = TrySend(commandResults, ResultCap, result)
QueueEmergencyResult(result) ==
    emergencyResults' = TrySend(emergencyResults, EmergencyCap, result)

\* The table knows the id: `register` would not forward it.
Remembered(id) == PendingWith(id) # {} \/ CachedWith(id) # {}

\* What a new answer pushes out of the ring is forgotten.
Forget ==
    forgotten' = forgotten \cup
                    {id \in TransactionId : Remembered(id) /\ ~ Remembered(id)'}

Init ==
    /\ TrackerInit
    /\ uplink = <<>> /\ canTx = <<>> /\ safetyTx = <<>>
    /\ commandResults = <<>> /\ emergencyResults = <<>>
    /\ rxBlocked = None /\ sending = None
    /\ owner = Selecting
    /\ mission = {}
    /\ logging = FALSE
    /\ uplinks = 0 /\ gnssTimes = 0
    /\ forgotten = {}

-----------------------------------------------------------------------------
(* lora_rx_task: one decoded uplink frame.                                 *)

\* An emergency stop goes straight to the safety channel, and waits for room.
LoraRxEmergency(stop) ==
    /\ rxBlocked = None /\ uplinks < MaxUplinks
    /\ stop \in Uplinks
    /\ uplinks' = uplinks + 1
    /\ \/ /\ Len(safetyTx) < SafetyCap
          /\ safetyTx' = Append(safetyTx, stop)
          /\ UNCHANGED rxBlocked
       \/ /\ Len(safetyTx) = SafetyCap
          /\ rxBlocked' = stop
          /\ UNCHANGED safetyTx
    /\ UNCHANGED <<tableVars, uplink, canTx, commandResults, emergencyResults,
                   sending, owner, mission, logging, gnssTimes>>

LoraRxResume ==
    /\ rxBlocked # None
    /\ Len(safetyTx) < SafetyCap
    /\ safetyTx' = Append(safetyTx, rxBlocked)
    /\ rxBlocked' = None
    /\ UNCHANGED <<tableVars, uplink, canTx, commandResults, emergencyResults,
                   sending, owner, mission, logging, uplinks, gnssTimes>>

\* Any other command is offered to the command task, and dropped when its
\* queue is full.
LoraRx(command) ==
    /\ rxBlocked = None /\ uplinks < MaxUplinks
    /\ command \in Uplinks
    /\ uplinks' = uplinks + 1
    /\ uplink' = TrySend(uplink, UplinkCap, command)
    /\ UNCHANGED <<tableVars, canTx, safetyTx, commandResults, emergencyResults,
                   rxBlocked, sending, owner, mission, logging, gnssTimes>>

-----------------------------------------------------------------------------
(* command_process_task: it takes a command only when it is not blocked.   *)

\* CAN_TX_CHANNEL.send().await: queued at once, or the task is suspended.
SendCan(message) ==
    \/ /\ Len(canTx) < TxCap
       /\ canTx' = Append(canTx, message)
       /\ UNCHANGED sending
    \/ /\ Len(canTx) = TxCap
       /\ sending' = message
       /\ UNCHANGED canTx

TakeCommand(command) ==
    /\ sending = None
    /\ uplink # <<>> /\ command = Head(uplink)
    /\ uplink' = Tail(uplink)
    /\ UNCHANGED <<safetyTx, emergencyResults, rxBlocked, owner, mission,
                   logging, uplinks, gnssTimes, forgotten>>

ForwardTwice(request) ==
    /\ TakeCommand(request)
    /\ \/ RegisterForward(request)
       \/ RegisterDuplicate(request)
    /\ SendCan(request)
    /\ UNCHANGED commandResults

\* process_generic, RegisterResult::Forward.
ProcessForward(request) ==
    /\ TakeCommand(request)
    /\ RegisterForward(request)
    /\ SendCan(request)
    /\ UNCHANGED commandResults

\* process_generic, RegisterResult::DuplicatePending: no answer at all.
ProcessDuplicate(request) ==
    /\ TakeCommand(request)
    /\ RegisterDuplicate(request)
    /\ UNCHANGED <<canTx, sending, commandResults>>

\* process_generic, RegisterResult::Replay.
ProcessReplay(request) ==
    /\ TakeCommand(request)
    /\ \E c \in CachedFor(request) :
          /\ RegisterReplay(request, results[c].result)
          /\ QueueCommandResult(results[c].result)
    /\ UNCHANGED <<canTx, sending>>

\* process_generic, RegisterResult::ProtocolError and RegisterResult::Busy.
ProcessReject(request) ==
    /\ TakeCommand(request)
    /\ \/ /\ RegisterProtocolError(request)
          /\ QueueCommandResult(AnswerOf(request, "Rejected", "ProtocolError"))
       \/ /\ RegisterBusy(request)
          /\ QueueCommandResult(AnswerOf(request, "Rejected", "Busy"))
    /\ UNCHANGED <<canTx, sending>>

\* UplinkCommand::GroundTimeResponse is relayed to the CAN bus.
ProcessGroundTime ==
    /\ TakeCommand(TimeResponse)
    /\ SendCan(TimeResponse)
    /\ UNCHANGED <<trackerVars, commandResults>>

\* The suspended send completes; the guard of process_generic is dropped.
CommandResume ==
    /\ sending # None
    /\ Len(canTx) < TxCap
    /\ canTx' = Append(canTx, sending)
    /\ sending' = None
    /\ UNCHANGED <<tableVars, uplink, safetyTx, commandResults,
                   emergencyResults, rxBlocked, owner, mission, logging,
                   uplinks, gnssTimes>>

\* gnss_time_response_task offers its answer to the same CAN queue.
GnssTime ==
    /\ gnssTimes < MaxGnssTimes
    /\ gnssTimes' = gnssTimes + 1
    /\ canTx' = TrySend(canTx, TxCap, TimeResponse)
    /\ UNCHANGED <<tableVars, uplink, safetyTx, commandResults,
                   emergencyResults, rxBlocked, sending, owner, mission,
                   logging, uplinks>>

-----------------------------------------------------------------------------
(* can_communication_task.                                                 *)

CanTxFirst ==
    /\ owner = Selecting
    /\ \/ /\ canTx # <<>>
          /\ owner' = Transmitting(Head(canTx))
          /\ canTx' = Tail(canTx)
          /\ UNCHANGED safetyTx
       \/ /\ canTx = <<>> /\ safetyTx # <<>>
          /\ owner' = Transmitting(Head(safetyTx))
          /\ safetyTx' = Tail(safetyTx)
          /\ UNCHANGED canTx
    /\ UNCHANGED <<tableVars, uplink, commandResults, emergencyResults,
                   rxBlocked, sending, mission, logging, uplinks, gnssTimes>>

\* The select polls the safety channel before the normal one, and both
\* before the receiver.
SelectTransmit ==
    /\ owner = Selecting
    /\ \/ /\ safetyTx # <<>>
          /\ owner' = Transmitting(Head(safetyTx))
          /\ safetyTx' = Tail(safetyTx)
          /\ UNCHANGED canTx
       \/ /\ safetyTx = <<>> /\ canTx # <<>>
          /\ owner' = Transmitting(Head(canTx))
          /\ canTx' = Tail(canTx)
          /\ UNCHANGED safetyTx
    /\ UNCHANGED <<tableVars, uplink, commandResults, emergencyResults,
                   rxBlocked, sending, mission, logging, uplinks, gnssTimes>>

NextSafetyDiscarded ==
    /\ owner' = Selecting
    /\ safetyTx' = IF safetyTx = <<>> THEN safetyTx ELSE Tail(safetyTx)

\* After a transmission the inner loop takes the next safety request, or
\* returns to the select.
NextSafety ==
    \/ /\ safetyTx # <<>>
       /\ owner' = Transmitting(Head(safetyTx))
       /\ safetyTx' = Tail(safetyTx)
    \/ /\ safetyTx = <<>>
       /\ owner' = Selecting
       /\ UNCHANGED safetyTx

\* Mission has the frame; a TimeResponse needs no answer.
Deliver(message) ==
    mission' = IF message = TimeResponse THEN mission
                                         ELSE mission \cup {message}

TransmitOk ==
    /\ owner.at = "transmit"
    /\ Deliver(owner.message)
    /\ logging' = IF owner.message \in Request
                     /\ owner.message.command = StartSequence
                  THEN TRUE ELSE logging
    /\ NextSafety
    /\ UNCHANGED <<tableVars, uplink, canTx, commandResults, emergencyResults,
                   rxBlocked, sending, uplinks, gnssTimes>>

ForgetFailure(result) == UNCHANGED <<tableVars, commandResults>>

\* apply_result, then the B0 packet when an open command matched.
ApplyOwnFailure(result) ==
    /\ \/ ApplyMatched(result) /\ QueueCommandResult(result)
       \/ ApplyUnmatched(result) /\ UNCHANGED commandResults
    /\ Forget

\* TransmitFailed, BusOff and FrameCreateFailed leave Mission without the
\* frame; TimedOutUnknownState leaves that open.  The failure of a request is
\* recorded as its final answer, for which the tracker has to be locked.
TransmitError ==
    LET failed == AnswerOf(owner.message, "Failed", "Timeout")
    IN  /\ owner.at = "transmit"
        /\ Deliver(owner.message) \/ UNCHANGED mission
        /\ \/ /\ owner.message \in EmergencyStop
              /\ QueueEmergencyResult(failed)
              /\ NextSafety
              /\ UNCHANGED <<tableVars, commandResults>>
           \/ /\ owner.message = TimeResponse
              /\ NextSafety
              /\ UNCHANGED <<tableVars, commandResults, emergencyResults>>
           \/ /\ owner.message \in Request /\ ~ TrackerLocked
              /\ ApplyOwnFailure(failed)
              /\ NextSafety
              /\ UNCHANGED emergencyResults
           \/ /\ owner.message \in Request /\ TrackerLocked
              /\ owner' = Locking(failed, "transmit")
              /\ UNCHANGED <<tableVars, safetyTx, commandResults,
                             emergencyResults>>
        /\ UNCHANGED <<uplink, canTx, rxBlocked, sending, logging, uplinks,
                       gnssTimes>>

\* CacheUpdate::CommandResult: applied, and relayed to the ground even when no
\* open command matches.  F0/F1 results match none and take their own queue.
ApplyAnswer(result) ==
    \/ /\ result \in Result
       /\ ApplyMatched(result) \/ ApplyUnmatched(result)
       /\ Forget
       /\ QueueCommandResult(result)
       /\ UNCHANGED emergencyResults
    \/ /\ result \in EmergencyResult
       /\ QueueEmergencyResult(result)
       /\ UNCHANGED <<tableVars, commandResults>>

\* The select serves the receiver only while both transmit queues are empty.
ReceiverServed == owner = Selecting /\ safetyTx = <<>> /\ canTx = <<>>

\* A CommandResult frame of the Mission board about a message it holds.
\* `Accepted` leaves the message with Mission, anything else ends it there.
ReceiveResult(message, phase) ==
    LET result == AnswerOf(message, phase, "None")
    IN  /\ ReceiverServed
        /\ message \in mission
        /\ mission' = IF IsFinal(phase) THEN mission \ {message} ELSE mission
        /\ \/ /\ ~ TrackerLocked
              /\ ApplyAnswer(result)
              /\ UNCHANGED owner
           \/ /\ TrackerLocked
              /\ owner' = Locking(result, "receive")
              /\ UNCHANGED <<tableVars, commandResults, emergencyResults>>
        /\ UNCHANGED <<uplink, canTx, safetyTx, rxBlocked, sending, logging,
                       uplinks, gnssTimes>>

\* The suspended lock().await completes when the command task is not holding
\* the guard.
OwnerResume ==
    /\ owner.at = "lock"
    /\ ~ TrackerLocked
    /\ \/ /\ owner.from = "transmit"
          /\ ApplyOwnFailure(owner.result)
          /\ NextSafety
          /\ UNCHANGED emergencyResults
       \/ /\ owner.from = "receive"
          /\ ApplyAnswer(owner.result)
          /\ owner' = Selecting
          /\ UNCHANGED safetyTx
    /\ UNCHANGED <<uplink, canTx, rxBlocked, sending, mission, logging, uplinks,
                   gnssTimes>>

\* lora_tx_task sends a queued result packet, emergency results first.
LoraTxResult ==
    /\ \/ /\ emergencyResults # <<>>
          /\ emergencyResults' = Tail(emergencyResults)
          /\ UNCHANGED commandResults
       \/ /\ emergencyResults = <<>> /\ commandResults # <<>>
          /\ commandResults' = Tail(commandResults)
          /\ UNCHANGED emergencyResults
    /\ UNCHANGED <<tableVars, uplink, canTx, safetyTx, rxBlocked, sending, owner,
                   mission, logging, uplinks, gnssTimes>>

-----------------------------------------------------------------------------

LoraRxStep ==
    \/ \E stop \in EmergencyStop : LoraRxEmergency(stop)
    \/ \E command \in Request \cup {TimeResponse} : LoraRx(command)

CommandTask ==
    \/ \E request \in Request :
          \/ ProcessForward(request)
          \/ ProcessDuplicate(request)
          \/ ProcessReplay(request)
          \/ ProcessReject(request)
    \/ ProcessGroundTime
    \/ CommandResume

CanOwnerTransmit == SelectTransmit \/ TransmitOk \/ TransmitError \/ OwnerResume

MissionAnswers ==
    \E message \in Request \cup EmergencyStop, phase \in MissionPhase :
        ReceiveResult(message, phase)

Next ==
    \/ LoraRxStep \/ LoraRxResume
    \/ CommandTask
    \/ GnssTime
    \/ CanOwnerTransmit
    \/ MissionAnswers
    \/ LoraTxResult

Spec == Init /\ [][Next]_vars

\* The executor polls every woken task, and a CAN transmission ends within
\* CAN_TX_TIMEOUT_MS (20 ms), so each task's steps are weakly fair.  That
\* Mission finishes what it was given is assumed of that board.
Fairness ==
    /\ WF_vars(LoraRxResume)
    /\ WF_vars(CommandTask)
    /\ WF_vars(CanOwnerTransmit)
    /\ WF_vars(LoraTxResult)
    /\ \A request \in Request \cap Uplinks :
          WF_vars(\E phase \in MissionPhase \ {"Accepted"} :
                    ReceiveResult(request, phase))

LiveSpec == Spec /\ Fairness

-----------------------------------------------------------------------------
(* What the path guarantees.                                               *)

CanMessage == Request \cup EmergencyStop \cup {TimeResponse}

\* The queues keep to their capacities and hold the messages their element
\* types allow; the three tasks are at one of their suspension points.
PathTypeOK ==
    /\ TypeOK
    /\ uplink \in Seq(Request \cup {TimeResponse}) /\ Len(uplink) <= UplinkCap
    /\ canTx \in Seq(Request \cup {TimeResponse}) /\ Len(canTx) <= TxCap
    /\ safetyTx \in Seq(EmergencyStop) /\ Len(safetyTx) <= SafetyCap
    /\ commandResults \in Seq(Result) /\ Len(commandResults) <= ResultCap
    /\ emergencyResults \in Seq(EmergencyResult)
    /\ Len(emergencyResults) <= EmergencyCap
    /\ rxBlocked \in EmergencyStop \cup {None}
    /\ sending \in Request \cup {TimeResponse, None}
    /\ \/ owner = Selecting
       \/ \E message \in CanMessage : owner = Transmitting(message)
       \/ \E result \in Result : owner = Locking(result, "transmit")
       \/ \E result \in Result \cup EmergencyResult : owner = Locking(result, "receive")
    /\ mission \subseteq Request \cup EmergencyStop
    /\ logging \in BOOLEAN
    /\ uplinks \in 0 .. MaxUplinks /\ gnssTimes \in 0 .. MaxGnssTimes
    /\ forgotten \subseteq TransactionId

Elements(queue) == {queue[i] : i \in DOMAIN queue}

\* The requests waiting for the bus or on it.
OnBoard == (Elements(canTx) \cup {sending}
            \cup (IF owner.at = "transmit" THEN {owner.message} ELSE {}))
               \cap Request

\* The CAN owner has a final answer to the request in its hands.
Concluding(request) ==
    /\ owner.at = "lock"
    /\ owner.result \in Result /\ IsFinal(owner.result.phase)
    /\ owner.result.transaction_id = request.transaction_id
    /\ owner.result.command = request.command

\* No slot of `pending` leaks inside the board: an open command is waiting for
\* the bus, on it, about to be concluded, or with Mission.  A slot can only
\* stay taken for ever if Mission never answers.
OpenIsSomewhere ==
    \A request \in OpenRequests :
        request \in OnBoard \/ Concluding(request) \/ request \in mission

\* While the table remembers the id, what is on the way is an open command.
\* (Once the answer has left the ring, a late answer to the first copy may close
\* the command while its second copy is still in the queue.)
OnBoardIsOpen ==
    \A request \in OnBoard :
        request.transaction_id \notin forgotten => request \in OpenRequests

\* A repeated uplink puts no second copy of a command on its way to Mission.
OnBoardOnce ==
    /\ \A i \in DOMAIN canTx :
          canTx[i] \in Request /\ canTx[i].transaction_id \notin forgotten =>
             /\ \A j \in DOMAIN canTx : canTx[j] = canTx[i] => j = i
             /\ canTx[i] # sending
             /\ owner # Transmitting(canTx[i])
    /\ sending \in Request /\ sending.transaction_id \notin forgotten =>
          owner # Transmitting(sending)

\* Every command the table holds open is on its way through the board or with
\* Mission, and what the table remembers is on its way at most once.
PathInv == PathTypeOK /\ OpenIsSomewhere /\ OnBoardIsOpen /\ OnBoardOnce

\* The CAN owner never starts a normal frame while a stop is queued: the frame
\* on the bus is all a stop waits for.
StopsOvertake ==
    (/\ owner'.at = "transmit" /\ owner'.message \notin EmergencyStop
     /\ owner' # owner) => safetyTx = <<>>

StopsOvertakeAlways == [][StopsOvertake]_vars

\* An emergency stop the LoRa receiver decoded is put on the CAN bus, whatever
\* normal commands are doing.
StopIsTransmitted ==
    \A stop \in EmergencyStop :
        (rxBlocked = stop \/ stop \in Elements(safetyTx))
            ~> owner = Transmitting(stop)

\* The command task waits for room in CAN_TX_CHANNEL with the tracker locked,
\* and the CAN owner, which alone can make room, waits for the tracker.
CircularWait ==
    TrackerLocked /\ Len(canTx) = TxCap /\ owner.at = "lock"

\* The circular wait is all that can hold up a stop: nothing else in the order
\* of commands, time responses, failures and answers keeps it off the bus.
StopWaitsForNothingElse ==
    \A stop \in EmergencyStop :
        (rxBlocked = stop \/ stop \in Elements(safetyTx))
            ~> (owner = Transmitting(stop) \/ CircularWait)

\* Every command the table opened is concluded, if Mission answers and unless
\* the circular wait stops the board.
OpenIsConcluded ==
    \A request \in Request \cap Uplinks :
        request \in OpenRequests ~> (request \notin OpenRequests \/ CircularWait)
=============================================================================
