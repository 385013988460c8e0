---------------------------- MODULE RecoveryRelay ----------------------------
(***************************************************************************)
(* Recovery commands and log dumps: RecoverySession and RecoveryAssembler  *)
(* (src/can/recovery.rs), the recovery part of process_local               *)
(* (src/tasks/lora_task.rs) and their use by the CAN owner                 *)
(* (src/tasks/can_communication.rs).                                       *)
(*                                                                         *)
(* A dumped file is a sequence of bytes; a byte is its position in it, so  *)
(* a chunk is right when its data are the positions its offset announces.  *)
(* The two sources (flash and SD) behave alike and are not told apart.     *)
(* While the CAN owner transmits, the other tasks run: its two suspension  *)
(* points, the select and the transmission, are told apart by the variable *)
(* transmitting.                                                           *)
(***************************************************************************)
EXTENDS Integers, Sequences, FiniteSetsExt

CONSTANTS
    FragmentSize,       \* 6 bytes of a RecoveryLogData frame
    ChunkSize,          \* 16 bytes of an A6 packet
    SequenceModulus,    \* 256: the u8 sequence of the fragments
    FileSize,           \* bytes in the dumped file
    Requests,           \* the commands the ground issues, as <<opcode, offset, length>>
    TxCap, SafetyCap,   \* CAN_TX_CHANNEL and CAN_SAFETY_TX_CHANNEL (8)
    RxCap,              \* frames the CAN controller buffers
    ChunkCap,           \* RECOVERY_LORA_CHANNEL (16)
    Failures,           \* the status codes Mission refuses or ends a dump with
    MaxOffset,          \* 0xffffff: what the offset field of A6 can encode
    Lossy,              \* whether frames from Mission can be lost
    MaxCommands,        \* bound: ground commands in a behaviour
    None

ASSUME SizesAssumption ==
    /\ FragmentSize \in Nat \ {0} /\ ChunkSize \in Nat /\ FragmentSize <= ChunkSize
    /\ SequenceModulus \in Nat \ {0} /\ FileSize \in Nat
    /\ TxCap \in Nat /\ SafetyCap \in Nat /\ ChunkCap \in Nat /\ MaxCommands \in Nat
    /\ Lossy \in BOOLEAN

ASSUME FailuresAssumption ==
    Failures \subseteq {"Busy", "InvalidState", "InvalidArgument",
                        "SourceUnavailable", "IoError", "Aborted", "InternalError"}

Id == 1 .. MaxCommands          \* every command has its own transaction id

Opcode == {"Wake", "StartLogDump", "StopLogDump", "ExitRecovery"}

ASSUME RequestsAssumption == Requests \subseteq Opcode \X Nat \X Nat

ChunkSet == [transfer_id : Id, offset : Nat, data : Seq(Nat), end_of_file : BOOLEAN]

ASSUME NoneAssumption == None \notin Nat \cup ChunkSet \cup [id : Id, opcode : Opcode]

VARIABLES
    session,            \* RecoverySession.pending: [id, opcode] or None
    assembler,          \* RecoveryAssembler
    beacon,             \* RECOVERY_BEACON_ACTIVE
    sending,            \* the control process_local is suspended on, or None
    canTx, safetyTx,    \* CAN queues, of RecoveryControl messages
    transmitting,       \* the message the CAN owner has on the bus, or None
    canRx,              \* frames of Mission not yet received
    dump,               \* external: Mission's running dump, or None
    chunks,             \* RECOVERY_LORA_CHANNEL
    issued,             \* commands issued so far; the last one's id
    reported,           \* history: the latest B0 result of each command
    confirmed,          \* history: end of the data queued for each transfer
    target              \* history: end of the data each dump asked for

relayVars == <<session, assembler, beacon, chunks, reported, confirmed>>
canVars == <<canTx, safetyTx, transmitting>>
missionVars == <<canRx, dump>>
vars == <<relayVars, sending, canVars, missionVars, issued, target>>

Final == {"Completed", "Rejected", "Failed"}

Report(id, phase, reason, detail) ==
    reported' = [reported EXCEPT ![id] =
                    [phase |-> phase, reason |-> reason, detail |-> detail]]

-----------------------------------------------------------------------------
(* RecoveryAssembler, as functions from the old to the new assembler.      *)

Idle == [active |-> FALSE, transfer_id |-> 0, offset |-> 0, total_size |-> None,
         expected_sequence |-> None, data |-> <<>>]

\* RecoveryAssembler::start.
Started(id, offset, length) ==
    [active |-> TRUE, transfer_id |-> id, offset |-> offset,
     total_size |-> IF length = 0 THEN None ELSE offset + length,
     expected_sequence |-> None, data |-> <<>>]

\* RecoveryAssembler::set_total_size.
WithTotalSize(a, id, size) ==
    IF a.active /\ a.transfer_id = id /\ size # 0
    THEN [a EXCEPT !.total_size = IF a.total_size = None THEN size
                                  ELSE Min({a.total_size, size})]
    ELSE a

\* Mutant: the transfer is not closed.
AbortedLater(a) == [a EXCEPT !.data = <<>>]

\* RecoveryAssembler::abort, and the offset it offers for a resumption.
Aborted(a) == [a EXCEPT !.active = FALSE, !.data = <<>>]
ResumeOffset(a) == a.offset + Len(a.data)

ReachedEnd(a) == a.total_size # None /\ a.offset + Len(a.data) >= a.total_size

ChunkOf(a, data, end_of_file) ==
    [transfer_id |-> a.transfer_id, offset |-> a.offset, data |-> data,
     end_of_file |-> end_of_file]

\* RecoveryAssembler::take_chunk.
AfterChunk(a, data, end_of_file) ==
    [a EXCEPT !.offset = a.offset + Len(data), !.data = <<>>,
              !.active = a.active /\ ~ end_of_file]

\* push: why a fragment is refused.
NotStarted(a) == ~ a.active
WrongTransfer(a, fragment) == a.active /\ fragment.transfer_id # a.transfer_id
NoSequenceGap(a, fragment) == FALSE

SequenceGap(a, fragment) ==
    /\ a.active /\ fragment.transfer_id = a.transfer_id
    /\ a.expected_sequence \notin {None, fragment.sequence}

Refused(a, fragment) ==
    NotStarted(a) \/ WrongTransfer(a, fragment) \/ SequenceGap(a, fragment)

\* Mutant: the bytes given up are counted twice in the resume offset.
AfterGapTwice(a) == [a EXCEPT !.offset = a.offset + Len(a.data), !.active = FALSE]

\* push after SequenceGap: the partial chunk is given up.
AfterGap(a) == [a EXCEPT !.offset = a.offset + Len(a.data), !.data = <<>>,
                         !.active = FALSE]

UncutFragmentLength(a) == FragmentSize

\* push: the bytes of an accepted fragment that belong to the transfer.
FragmentLength(a) ==
    IF a.total_size = None THEN FragmentSize
    ELSE Min({FragmentSize, Max({0, a.total_size - ResumeOffset(a)})})

Joined(a, fragment) ==
    a.data \o [i \in 1 .. FragmentLength(a) |-> fragment.first + i - 1]

\* push: a full chunk is emitted, the rest starts the next one; a shorter one
\* only at the end of the transfer.
Pushed(a, fragment) ==
    LET data == Joined(a, fragment)
        next == [a EXCEPT !.expected_sequence =
                              (fragment.sequence + 1) % SequenceModulus,
                          !.data = data]
        full == SubSeq(data, 1, ChunkSize)
        rest == SubSeq(data, ChunkSize + 1, Len(data))
        ends == rest = <<>> /\ ReachedEnd(next)
    IN  IF Len(data) >= ChunkSize
        THEN [chunk |-> ChunkOf(next, full, ends),
              assembler |-> [AfterChunk(next, full, ends) EXCEPT !.data = rest]]
        ELSE IF ReachedEnd(next)
        THEN [chunk |-> ChunkOf(next, data, TRUE),
              assembler |-> AfterChunk(next, data, TRUE)]
        ELSE [chunk |-> None, assembler |-> next]

-----------------------------------------------------------------------------

Init ==
    /\ session = None
    /\ assembler = Idle
    /\ beacon = FALSE
    /\ sending = None
    /\ canTx = <<>> /\ safetyTx = <<>> /\ canRx = <<>> /\ transmitting = None
    /\ dump = None
    /\ chunks = <<>>
    /\ issued = 0
    /\ reported = [id \in Id |-> None]
    /\ confirmed = [id \in Id |-> 0] /\ target = [id \in Id |-> 0]

Control(opcode, id, offset, length) ==
    [opcode |-> opcode, transfer_id |-> id, offset |-> offset, length |-> length]

\* Where the range a dump asks for ends; length 0 asks for the whole file.
RangeEnd(control) ==
    IF control.length = 0 THEN FileSize
    ELSE Min({FileSize, control.offset + control.length})

-----------------------------------------------------------------------------
(* process_local: the recovery commands.                                   *)

Issue == sending = None /\ issued < MaxCommands /\ issued' = issued + 1

\* ExitRecovery without a beacon, or any command but StopDump while another is
\* open.
RejectCommand(opcode) ==
    /\ Issue
    /\ \/ /\ opcode = "ExitRecovery" /\ ~ beacon
          /\ Report(issued + 1, "Rejected", "InvalidState", 0)
       \/ /\ opcode # "StopLogDump" /\ session # None
          /\ opcode = "ExitRecovery" => beacon
          /\ Report(issued + 1, "Rejected", "Busy", 0)
    /\ UNCHANGED <<session, assembler, beacon, chunks, confirmed, sending, canVars,
                   missionVars, target>>

\* RecoverySession::start succeeds, or StopDump replaces what is open.
MayStart(opcode) ==
    /\ opcode = "ExitRecovery" => beacon
    /\ opcode = "StopLogDump" \/ session = None

\* RecoverySession::interrupt_with_stop tells the ground what it interrupted.
StartCommand(opcode, offset, length) ==
    LET id == issued + 1
        control == Control(opcode, id, offset, length)
        interrupted == IF session = None THEN {} ELSE {session.id}
        failed == [phase |-> "Failed", reason |-> "InterruptedByEmergency",
                   detail |-> 0]
        accepted == [phase |-> "Accepted", reason |-> "None", detail |-> 0]
        told == [i \in Id |-> IF i \in interrupted THEN failed ELSE reported[i]]
    IN  /\ Issue
        /\ MayStart(opcode)
        /\ session' = [id |-> id, opcode |-> opcode]
        /\ assembler' = CASE opcode = "StopLogDump"  -> Aborted(assembler)
                          [] opcode = "StartLogDump" -> Started(id, offset, length)
                          [] OTHER -> assembler
        /\ confirmed' = [confirmed EXCEPT ![id] = offset]
        /\ target' = [target EXCEPT ![id] = IF opcode = "StartLogDump"
                                           THEN RangeEnd(control) ELSE 0]
        /\ \/ /\ Len(canTx) < TxCap
              /\ canTx' = Append(canTx, control)
              /\ reported' = [told EXCEPT ![id] = accepted]
              /\ UNCHANGED sending
           \/ /\ Len(canTx) = TxCap
              /\ sending' = control
              /\ reported' = told
              /\ UNCHANGED canTx
        /\ UNCHANGED <<beacon, chunks, safetyTx, transmitting, missionVars>>

\* The suspended send completes and the command is reported Accepted.
CommandResume ==
    /\ sending # None
    /\ Len(canTx) < TxCap
    /\ canTx' = Append(canTx, sending)
    /\ sending' = None
    /\ Report(sending.transfer_id, "Accepted", "None", 0)
    /\ UNCHANGED <<session, assembler, beacon, chunks, confirmed, safetyTx,
                   transmitting, missionVars, issued, target>>

-----------------------------------------------------------------------------
(* External: the Mission board.                                            *)

\* A frame is buffered by the CAN controller, or lost.
Buffered(frame) == Len(canRx) < RxCap /\ canRx' = Append(canRx, frame)

Arrive(frame) == Buffered(frame) \/ (Lossy /\ UNCHANGED canRx)

Status(opcode, id, status, size) ==
    [kind |-> "RecoveryStatus", opcode |-> opcode, transfer_id |-> id,
     status |-> status, total_size |-> size]

\* Mission starts a dump, refuses it, stops the running one, or is ready.
MissionObeys(control) ==
    \/ /\ control.opcode = "StartLogDump" /\ dump = None
       /\ dump' = [transfer_id |-> control.transfer_id, first |-> control.offset,
                   sequence |-> 0, end |-> RangeEnd(control), lost |-> 0]
       /\ Arrive(Status("StartLogDump", control.transfer_id, "Dumping", FileSize))
    \/ /\ control.opcode = "StartLogDump"
       /\ \E code \in Failures :
             Arrive(Status("StartLogDump", control.transfer_id, code, 0))
       /\ UNCHANGED dump
    \/ /\ control.opcode = "StopLogDump"
       /\ dump' = None
       /\ Arrive(Status("StopLogDump", control.transfer_id, "Aborted", 0))
    \/ /\ control.opcode \in {"Wake", "ExitRecovery"}
       /\ Arrive(Status(control.opcode, control.transfer_id, "Ready", 0))
       /\ UNCHANGED dump

Fragment(d) == [kind |-> "RecoveryLogData", transfer_id |-> d.transfer_id,
                sequence |-> d.sequence, first |-> d.first]

\* Fewer than SequenceModulus fragments are lost in a row (lost counts them): more
\* could not be noticed.
MissionSends ==
    /\ dump # None
    /\ \/ /\ dump.first < dump.end
          /\ \E lost \in {0, dump.lost + 1} :
                /\ dump' = [transfer_id |-> dump.transfer_id,
                            first |-> dump.first + FragmentSize,
                            sequence |-> (dump.sequence + 1) % SequenceModulus,
                            end |-> dump.end, lost |-> lost]
                /\ IF lost = 0 THEN Buffered(Fragment(dump))
                   ELSE Lossy /\ lost < SequenceModulus /\ UNCHANGED canRx
       \/ /\ dump.first >= dump.end
          /\ Arrive(Status("StartLogDump", dump.transfer_id, "Complete", FileSize))
          /\ dump' = None
       \/ /\ \E code \in Failures :
                Arrive(Status("StartLogDump", dump.transfer_id, code, 0))
          /\ dump' = None
    /\ UNCHANGED <<relayVars, sending, canVars, issued, target>>

\* A RecoveryModeCommand frame (0x014) starts the recovery beacon.
MissionEntersRecovery ==
    /\ ~ beacon /\ beacon' = TRUE
    /\ UNCHANGED <<session, assembler, chunks, reported, confirmed, sending, canVars,
                   missionVars, issued, target>>

-----------------------------------------------------------------------------
(* can_communication_task.                                                 *)

OpenIs(id) == session # None /\ session.id = id

\* The select, and after a transmission the inner loop, take a safety request
\* before a normal one.
SelectTransmit ==
    /\ transmitting = None
    /\ \/ /\ safetyTx # <<>>
          /\ transmitting' = Head(safetyTx) /\ safetyTx' = Tail(safetyTx)
          /\ UNCHANGED canTx
       \/ /\ safetyTx = <<>> /\ canTx # <<>>
          /\ transmitting' = Head(canTx) /\ canTx' = Tail(canTx)
          /\ UNCHANGED safetyTx
    /\ UNCHANGED <<relayVars, sending, missionVars, issued, target>>

TransmitOk ==
    /\ transmitting # None
    /\ transmitting' = None
    /\ MissionObeys(transmitting)
    /\ UNCHANGED <<relayVars, sending, canTx, safetyTx, issued, target>>

TransmitErrorUnreported ==
    /\ transmitting # None
    /\ transmitting' = None
    /\ UNCHANGED <<relayVars, sending, canTx, safetyTx, missionVars, issued, target>>

\* RecoverySession::fail_matching and RecoveryAssembler::abort, when the control
\* that could not be sent belongs to the open command.  After a timeout Mission
\* may have received it all the same.
TransmitError ==
    LET id == transmitting.transfer_id
    IN  /\ transmitting # None
        /\ transmitting' = None
        /\ MissionObeys(transmitting) \/ UNCHANGED missionVars
        /\ \/ /\ OpenIs(id)
              /\ session' = None
              /\ assembler' = Aborted(assembler)
              /\ Report(id, "Failed", "Timeout", 0)
           \/ /\ ~ OpenIs(id)
              /\ UNCHANGED <<session, assembler, reported>>
        /\ UNCHANGED <<beacon, chunks, confirmed, sending, canTx, safetyTx, issued,
                       target>>

\* The select serves the receiver only while both transmit queues are empty.
Receive(frame) ==
    /\ transmitting = None /\ safetyTx = <<>> /\ canTx = <<>>
    /\ frame = Head(canRx)
    /\ canRx' = Tail(canRx)
    /\ UNCHANGED <<canTx, transmitting, sending, dump, issued, target>>

\* queue_recovery_chunk: FALSE when the queue is full or the offset does not
\* fit into the packet.
Queueable(chunk) == Len(chunks) < ChunkCap /\ chunk.offset <= MaxOffset

QueueChunk(chunk) ==
    /\ chunks' = Append(chunks, chunk)
    /\ confirmed' = [confirmed EXCEPT ![chunk.transfer_id] =
                        chunk.offset + Len(chunk.data)]

\* fail_recovery_transfer: abort the assembly, ask Mission to stop, fail whatever
\* command is open.
FailTransfer(a, reason) ==
    LET stop == Control("StopLogDump", a.transfer_id, ResumeOffset(a), 0)
    IN  /\ assembler' = Aborted(a)
        /\ safetyTx' = IF a.transfer_id # 0 /\ Len(safetyTx) < SafetyCap
                       THEN Append(safetyTx, stop) ELSE safetyTx
        /\ session' = None
        /\ IF session # None
           THEN Report(session.id, "Failed", reason,
                       IF a.transfer_id # 0 THEN ResumeOffset(a) ELSE 0)
           ELSE UNCHANGED reported
        /\ UNCHANGED <<chunks, confirmed>>

\* RecoverySession::apply_status: the phase and reason of each status.
ResultOf(status) ==
    CASE status.status = "Dumping" -> <<"Accepted", "None">>
      [] \/ status.status \in {"Ready", "Complete"}
         \/ status.status = "Aborted" /\ status.opcode = "StopLogDump"
            -> <<"Completed", "None">>
      [] status.status \in {"Busy", "InvalidState", "InvalidArgument"}
            -> <<"Rejected", status.status>>
      [] status.status = "SourceUnavailable" -> <<"Failed", "DeviceUnavailable">>
      [] status.status = "IoError" -> <<"Failed", "PersistenceError">>
      [] status.status = "InternalError" -> <<"Failed", "InternalError">>
      [] OTHER -> <<"Failed", "InterruptedByEmergency">>

ConcernsAny(status) == session # None

Concerns(status) == /\ OpenIs(status.transfer_id)
                    /\ session.opcode = status.opcode

ApplyStatusKeepingSession(status) ==
    \/ /\ Concerns(status)
       /\ LET result == ResultOf(status)
          IN  Report(session.id, result[1], result[2], status.total_size)
       /\ UNCHANGED <<session, beacon>>
    \/ /\ ~ Concerns(status)
       /\ UNCHANGED <<session, reported, beacon>>

ApplyStatus(status) ==
    \/ /\ Concerns(status)
       /\ LET result == ResultOf(status)
          IN  /\ session' = IF result[1] \in Final THEN None ELSE session
              /\ Report(session.id, result[1], result[2], status.total_size)
              /\ beacon' = (beacon /\ ~ (/\ status.opcode = "ExitRecovery"
                                         /\ result[1] = "Completed"))
    \/ /\ ~ Concerns(status)
       /\ UNCHANGED <<session, reported, beacon>>

\* CacheUpdate::RecoveryStatus.  `Complete` flushes the assembler first; when its
\* last chunk cannot be queued the transfer fails and the status is dropped.
ReceiveStatus(status) ==
    LET sized == WithTotalSize(assembler, status.transfer_id, status.total_size)
        flush == /\ status.status = "Complete"
                 /\ sized.active /\ sized.transfer_id = status.transfer_id
        last == ChunkOf(sized, sized.data, TRUE)
        after == AfterChunk(sized, sized.data, TRUE)
    IN  /\ status.kind = "RecoveryStatus"
        /\ Receive(status)
        /\ \/ /\ flush /\ Queueable(last)
              /\ QueueChunk(last)
              /\ assembler' = after
              /\ ApplyStatus(status)
              /\ UNCHANGED safetyTx
           \/ /\ flush /\ ~ Queueable(last)
              /\ FailTransfer(after, "InternalError")
              /\ UNCHANGED beacon
           \/ /\ ~ flush
              /\ assembler' = sized
              /\ ApplyStatus(status)
              /\ UNCHANGED <<chunks, confirmed, safetyTx>>

\* CacheUpdate::RecoveryLogData.
ReceiveFragment(fragment) ==
    LET pushed == Pushed(assembler, fragment)
    IN  /\ fragment.kind = "RecoveryLogData"
        /\ Receive(fragment)
        /\ \/ /\ Refused(assembler, fragment)
              /\ FailTransfer(IF SequenceGap(assembler, fragment)
                              THEN AfterGap(assembler) ELSE assembler,
                              "ProtocolError")
           \/ /\ ~ Refused(assembler, fragment)
              /\ pushed.chunk = None
              /\ assembler' = pushed.assembler
              /\ UNCHANGED <<session, chunks, reported, confirmed, safetyTx>>
           \/ /\ ~ Refused(assembler, fragment)
              /\ pushed.chunk # None /\ Queueable(pushed.chunk)
              /\ QueueChunk(pushed.chunk)
              /\ assembler' = pushed.assembler
              /\ UNCHANGED <<session, reported, safetyTx>>
           \/ /\ ~ Refused(assembler, fragment)
              /\ pushed.chunk # None /\ ~ Queueable(pushed.chunk)
              /\ FailTransfer(pushed.assembler, "InternalError")
        /\ UNCHANGED beacon

\* lora_tx_task sends the oldest chunk.
SendChunk ==
    /\ chunks # <<>>
    /\ chunks' = Tail(chunks)
    /\ UNCHANGED <<session, assembler, beacon, reported, confirmed, sending, canVars,
                   missionVars, issued, target>>

-----------------------------------------------------------------------------

Ground ==
    \E request \in Requests :
        \/ RejectCommand(request[1])
        \/ StartCommand(request[1], request[2], request[3])

ReceiveFrame ==
    /\ canRx # <<>>
    /\ ReceiveStatus(Head(canRx)) \/ ReceiveFragment(Head(canRx))

CanOwner == SelectTransmit \/ TransmitOk \/ TransmitError \/ ReceiveFrame

Next == \/ Ground \/ CommandResume
        \/ MissionSends \/ MissionEntersRecovery
        \/ CanOwner
        \/ SendChunk

Spec == Init /\ [][Next]_vars

\* Woken tasks are polled and transmissions time out; that Mission goes on with
\* a dump is assumed of that board.
Fairness == /\ WF_vars(CommandResume) /\ WF_vars(CanOwner) /\ WF_vars(SendChunk)
            /\ WF_vars(MissionSends)

LiveSpec == Spec /\ Fairness

-----------------------------------------------------------------------------

\* The state of the relay has its types.
TypeOK ==
    /\ session \in [id : Id, opcode : Opcode] \cup {None}
    /\ assembler.active \in BOOLEAN /\ assembler.transfer_id \in Id \cup {0}
    /\ assembler.offset \in Nat /\ Len(assembler.data) < ChunkSize
    /\ beacon \in BOOLEAN
    /\ Len(canTx) <= TxCap /\ Len(safetyTx) <= SafetyCap /\ Len(chunks) <= ChunkCap
    /\ issued \in 0 .. MaxCommands

\* While a transfer is assembled, the assembler stands exactly where the chunks
\* queued for it end: no queued chunk leaves a hole or overlaps another, also
\* when commands, stops and late frames of other transfers interfere.
AssemblerInStep ==
    assembler.active => assembler.offset = confirmed[assembler.transfer_id]

\* Without losses on the CAN bus every queued chunk holds the bytes its offset
\* announces and none beyond the end of the file.
ChunkIsFile ==
    \A c \in DOMAIN chunks : \A i \in DOMAIN chunks[c].data :
        /\ chunks[c].data[i] = chunks[c].offset + i - 1
        /\ chunks[c].data[i] < FileSize

\* No byte is missing inside a chunk even when CAN frames are lost: a lost
\* fragment is noticed at the next one, so two fragments that are not
\* neighbours in the file are never joined.
ChunkIsContiguous ==
    \A c \in DOMAIN chunks : \A i, j \in DOMAIN chunks[c].data :
        chunks[c].data[j] - chunks[c].data[i] = j - i

\* Lost frames, full queues, stops and late frames of other transfers leave no hole
\* and no overlap inside a chunk or between the chunks of a transfer.
RelayInv == TypeOK /\ AssemblerInStep /\ ChunkIsContiguous

\* A dump reported Completed has been queued to its end: what the ground takes
\* for the whole file is the whole file.
CompletedMeansAll ==
    \A id \in Id : (reported[id] # None /\ reported[id].phase = "Completed")
                       => confirmed[id] >= target[id]

\* Without losses the ground gets what the file holds and, once it is told so, all
\* of it.
DumpIsWhole == ChunkIsFile /\ CompletedMeansAll

\* How far the resume offset a failed transfer reports lies from the end of the
\* data queued for the ground: never before it, so a resumed dump repeats nothing.
\* A gap gives up the bytes of the chunk being filled, less than one chunk; a full
\* LoRa queue also gives up the chunk that was complete.  (An InternalError without
\* an offset may also be Mission's own.)
Skipped(id) == reported[id].detail - confirmed[id]

ResumeSkipsLittle ==
    \A id \in Id :
        (/\ reported[id] # None /\ reported[id].phase = "Failed"
         /\ assembler.transfer_id = id) =>
            /\ reported[id].reason = "ProtocolError" => Skipped(id) \in 0 .. (ChunkSize - 1)
            /\ reported[id].reason = "InternalError" /\ reported[id].detail # 0 =>
                   Skipped(id) \in 0 .. (2 * ChunkSize - 1)

\* A command reported finished is not reported again with another outcome, except
\* that the command task, which reports Accepted after it has waited for room in
\* CAN_TX_CHANNEL, may come too late with it.
LateAcceptance(id) == sending # None /\ sending.transfer_id = id /\ sending' = None

FinalReportStands ==
    \A id \in Id : (reported[id] # None /\ reported[id].phase \in Final)
                       => reported'[id] = reported[id] \/ LateAcceptance(id)

FinalReportStandsAlways == [][FinalReportStands]_vars

\* What all this is to the ground: the dump whose command is open is served, until
\* its last chunk is queued.
Dumping == session # None /\ session.opcode = "StartLogDump"

Outbox == [c \in DOMAIN chunks |->
              [id |-> chunks[c].transfer_id, first |-> chunks[c].offset,
               length |-> Len(chunks[c].data), last |-> chunks[c].end_of_file]]

Transfer == INSTANCE LogTransfer WITH
    Command <- Id,
    Offset <- {request[2] : request \in Requests},
    asked <- 1 .. issued,
    serving <- IF Dumping THEN session.id ELSE None,
    ended <- Dumping /\ ~ assembler.active,
    upto <- confirmed,
    outbox <- Outbox

\* Whatever is lost, late, refused or stopped: chunks are queued only for the dump
\* whose command is open, join up from chunk to chunk, are full up to the last one,
\* and nothing is queued behind a last chunk or behind the end of the command.
RefinesTransfer == Transfer!Spec

\* Every recovery command comes to an end, if Mission's frames arrive.
SessionEnds == session # None ~> session = None
=============================================================================
