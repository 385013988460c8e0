------------------------------ MODULE SdLogger ------------------------------
(***************************************************************************)
(* sd_write_task (core 0), the only owner of the microSD card, against the *)
(* tasks of core 1: the CAN owner hands it every received frame, the ground*)
(* starts and stops logging.  Rows are gathered in one buffer per file and *)
(* written when the buffer is full, every second, or when logging stops.   *)
(* The writes block core 0 but not core 1, so LOGGING_REQUESTED may change *)
(* between any two places of a pass that read it.                          *)
(*                                                                         *)
(* A row is a number; a buffer holds BufCap rows (2048 bytes, rows of at   *)
(* most 160).  The card and its file system are external: a write that     *)
(* fails has written some of the rows, and a power loss keeps what was     *)
(* flushed and any part of what was written behind it.                     *)
(***************************************************************************)
EXTENDS Naturals, Sequences, FiniteSets, Functions

CONSTANTS
    BufCap,         \* BUF_SIZE, in rows
    QueueCap,       \* RAW_CAN_LOG_CHANNEL, 32
    MaxRows,        \* bound: rows logged
    MaxFaults,      \* bound: operations on the card that fail
    MaxLosses,      \* bound: power losses
    Header

ASSUME LoggerAssumption ==
    /\ BufCap \in Nat \ {0} /\ QueueCap \in Nat \ {0}
    /\ MaxRows \in Nat /\ MaxFaults \in Nat /\ MaxLosses \in Nat

\* Rows are numbered from 1; the header is none of them.
ASSUME HeaderAssumption == Header \notin Nat \ {0}

File == {"CAN", "ROLLV2"}

VARIABLES
    requested,      \* LOGGING_REQUESTED
    stopping,       \* the command task is between the two stores of StopLogging
    signal,         \* SD_FLUSH_SIGNAL
    queue,          \* RAW_CAN_LOG_CHANNEL: whether each frame is a ControlRollV2
    error,          \* SD_HAS_ERROR
    active,         \* LOGGING_ACTIVE
    unflushed,      \* HAS_UNFLUSHED_DATA
    pc,             \* where sd_write_task is
    forced,         \* flush_requested, FALSE once it was looked at
    buffer,         \* buffer[..cursor] of each file
    card,           \* external: the files as far as they are written
    durable,        \* external: how much of each file is flushed
    \* History variables:
    expected,       \* the file as opened, and the rows accepted since
    rows,           \* rows accepted
    faults, losses

sharedVars == <<requested, stopping, signal, queue>>
shownVars == <<error, active, unflushed>>
cardVars == <<card, durable>>
historyVars == <<expected, rows, faults, losses>>
vars == <<sharedVars, shownVars, pc, forced, buffer, cardVars, historyVars>>

Empty == [f \in File |-> <<>>]

Init ==
    /\ requested = FALSE /\ stopping = FALSE /\ signal = FALSE /\ queue = <<>>
    /\ error = FALSE /\ active = FALSE /\ unflushed = FALSE
    /\ pc = "openCan" /\ forced = FALSE
    /\ buffer = Empty /\ card = Empty /\ durable = [f \in File |-> 0]
    /\ expected = Empty /\ rows = 0 /\ faults = 0 /\ losses = 0

---------------------------------------------------------------------------
(* Core 1.                                                                 *)

\* handle_received_frame: a frame that finds the queue full is dropped.
ReceiveFrame(roll) ==
    /\ requested => rows + Len(queue) < MaxRows
    /\ queue' = IF Len(queue) < QueueCap THEN Append(queue, roll) ELSE queue
    /\ UNCHANGED <<requested, stopping, signal, shownVars, pc, forced, buffer,
                   cardVars, historyVars>>

\* LocalCommand::StartLogging, or a StartSequence that was transmitted.
StartLogging ==
    /\ rows + Len(queue) <= MaxRows
    /\ requested' = TRUE
    /\ UNCHANGED <<stopping, signal, queue, shownVars, pc, forced, buffer,
                   cardVars, historyVars>>

\* LocalCommand::StopLogging: the request is withdrawn ...
StopLogging ==
    /\ ~ stopping
    /\ requested' = FALSE /\ stopping' = TRUE
    /\ UNCHANGED <<signal, queue, shownVars, pc, forced, buffer, cardVars,
                   historyVars>>

\* ... and then the flush is asked for.
SignalFlush ==
    /\ stopping
    /\ stopping' = FALSE /\ signal' = TRUE
    /\ UNCHANGED <<requested, queue, shownVars, pc, forced, buffer, cardVars,
                   historyVars>>

---------------------------------------------------------------------------
(* The card.                                                               *)

Unwritten(f) == [card |-> card[f], ok |-> TRUE]

\* File::write of a buffer: all of its rows, or an error after some of them.
Written(f) ==
    {[card |-> card[f] \o buffer[f], ok |-> TRUE]} \cup
    IF faults >= MaxFaults THEN {}
    ELSE {[card |-> card[f] \o SubSeq(buffer[f], 1, n), ok |-> FALSE] :
              n \in 0 .. Len(buffer[f])}

MarkErrorUnseen(shown, failed) ==
    faults' = faults + failed /\ active' = (shown /\ failed = 0) /\ UNCHANGED error

\* mark_sd_error, if any of the operations failed.  Nothing clears the error but
\* a restart.
MarkError(shown, failed) ==
    /\ faults' = faults + failed
    /\ error' = (error \/ failed > 0)
    /\ active' = (shown /\ failed = 0)

---------------------------------------------------------------------------
(* sd_write_task: start-up.                                                *)

OpenedTruncating(file) == <<Header>>

\* ReadWriteCreateOrAppend, and the header of a new file.
Opened(file) == IF file = <<>> THEN <<Header>> ELSE file

Open(f) ==
    /\ pc = IF f = "CAN" THEN "openCan" ELSE "openRoll"
    /\ pc' = IF f = "CAN" THEN "openRoll" ELSE "wait"
    /\ card' = [card EXCEPT ![f] = Opened(@)]
    /\ durable' = [durable EXCEPT ![f] = Len(card'[f])]
    /\ expected' = [expected EXCEPT ![f] = card'[f]]
    /\ UNCHANGED <<sharedVars, shownVars, forced, buffer, rows, faults, losses>>

\* Any error ends the task; the header of a new file may be written or not.
OpenFails ==
    /\ pc \in {"openCan", "openRoll"} /\ faults < MaxFaults
    /\ pc' = "ended"
    /\ MarkError(FALSE, 1)
    /\ LET f == IF pc = "openCan" THEN "CAN" ELSE "ROLLV2"
       IN  card' \in {card, [card EXCEPT ![f] = Opened(@)]}
    /\ UNCHANGED <<sharedVars, unflushed, forced, buffer, durable, expected, rows,
                   losses>>

---------------------------------------------------------------------------
(* sd_write_task: one pass of the loop.                                    *)

Full(f) == Len(buffer[f]) = BufCap

\* The buffer is written out when the row does not fit.
Overflow(f, files) == IF f \in files /\ Full(f) THEN Written(f) ELSE {Unwritten(f)}

\* The buffer is emptied whether or not it was written.
AfterOverflow(f, row) == IF Full(f) THEN <<row>> ELSE Append(buffer[f], row)

\* A row for CAN.CSV and, for a ControlRollV2 frame, one for ROLLV2.CSV.
LogRow(files) ==
    \E can \in Overflow("CAN", files), roll \in Overflow("ROLLV2", files) :
        LET written == [f \in File |-> IF f = "CAN" THEN can ELSE roll]
            row == rows + 1
        IN  /\ card' = [f \in File |-> written[f].card]
            /\ buffer' = [f \in File |-> IF f \in files
                                         THEN AfterOverflow(f, row)
                                         ELSE buffer[f]]
            /\ expected' = [f \in File |-> IF f \in files THEN Append(expected[f], row)
                                                          ELSE expected[f]]
            /\ rows' = row
            /\ MarkError(TRUE, Cardinality({f \in File : ~ written[f].ok}))

\* Either3::First, polled before the other two.
TakeRecord ==
    /\ pc = "wait" /\ queue # <<>>
    /\ pc' = "check" /\ forced' = FALSE
    /\ queue' = Tail(queue)
    /\ \/ /\ requested /\ ~ error
          /\ LogRow(IF Head(queue) THEN File ELSE {"CAN"})
       \/ /\ ~ (requested /\ ~ error)
          /\ active' = FALSE
          /\ UNCHANGED <<error, buffer, card, expected, rows, faults>>
    /\ UNCHANGED <<requested, stopping, signal, unflushed, durable, losses>>

SignalOnly == signal /\ signal' = FALSE

\* The ticker fires, or the signal is taken.
WakeUp == UNCHANGED signal \/ (signal /\ signal' = FALSE)

\* Either3::Second and Third.
TakeFlush ==
    /\ pc = "wait" /\ queue = <<>>
    /\ pc' = "check" /\ forced' = TRUE
    /\ WakeUp
    /\ UNCHANGED <<requested, stopping, queue, shownVars, buffer, cardVars,
                   historyVars>>

FlushWhenForced == forced

\* flush_requested || !LOGGING_REQUESTED
FlushWanted == forced \/ ~ requested

ForgetUnflushed(f, ok) == <<>>

\* A buffer that was not written is kept and written again.
AfterFlush(f, ok) == IF ok THEN <<>> ELSE buffer[f]

NotFlushed(f, ok) == durable[f]

\* File::flush
Flushed(f, ok) == IF ok THEN Len(card'[f]) ELSE durable[f]

\* write, if there is something to write, and flush.
Flush(f) ==
    \E written \in IF buffer[f] = <<>> THEN {Unwritten(f)} ELSE Written(f),
       ok \in IF faults >= MaxFaults THEN {TRUE} ELSE BOOLEAN :
        /\ card' = [card EXCEPT ![f] = written.card]
        /\ buffer' = [buffer EXCEPT ![f] = AfterFlush(f, written.ok)]
        /\ durable' = [durable EXCEPT ![f] = Flushed(f, ok)]
        /\ MarkError(active, (IF written.ok THEN 0 ELSE 1) + (IF ok THEN 0 ELSE 1))

\* The request is read again, and both files are flushed, CAN.CSV first.
FlushCan ==
    /\ pc = "check" /\ FlushWanted
    /\ pc' = "flushRoll" /\ forced' = FALSE
    /\ Flush("CAN")
    /\ UNCHANGED <<sharedVars, unflushed, expected, rows, losses>>

FlushRoll ==
    /\ pc = "flushRoll"
    /\ pc' = "end"
    /\ Flush("ROLLV2")
    /\ UNCHANGED <<sharedVars, unflushed, forced, expected, rows, losses>>

SkipFlush ==
    /\ pc = "check" /\ ~ FlushWanted
    /\ pc' = "end"
    /\ UNCHANGED <<sharedVars, shownVars, forced, buffer, cardVars, historyVars>>

\* The request is read once more.
EndPass ==
    /\ pc = "end"
    /\ pc' = "wait"
    /\ active' = (active /\ requested)
    /\ unflushed' = (\E f \in File : buffer[f] # <<>>)
    /\ UNCHANGED <<sharedVars, error, forced, buffer, cardVars, historyVars>>

Task == \/ \E f \in File : Open(f)
        \/ OpenFails \/ TakeRecord \/ TakeFlush
        \/ FlushCan \/ FlushRoll \/ SkipFlush \/ EndPass

---------------------------------------------------------------------------
\* External: the board loses its power and starts again.
PowerLoss ==
    /\ losses < MaxLosses
    /\ \E can \in durable["CAN"] .. Len(card["CAN"]),
          roll \in durable["ROLLV2"] .. Len(card["ROLLV2"]) :
           /\ durable' = [f \in File |-> IF f = "CAN" THEN can ELSE roll]
           /\ card' = [f \in File |-> SubSeq(card[f], 1, durable'[f])]
    /\ requested' = FALSE /\ stopping' = FALSE /\ signal' = FALSE /\ queue' = <<>>
    /\ error' = FALSE /\ active' = FALSE /\ unflushed' = FALSE
    /\ pc' = "openCan" /\ forced' = FALSE
    /\ buffer' = Empty
    /\ expected' = card'
    /\ losses' = losses + 1
    /\ UNCHANGED <<rows, faults>>

Next == \/ \E roll \in BOOLEAN : ReceiveFrame(roll)
        \/ StartLogging \/ StopLogging \/ SignalFlush
        \/ Task \/ PowerLoss

Spec == Init /\ [][Next]_vars

\* The executors of both cores poll their tasks.
LiveSpec == Spec /\ WF_vars(Task) /\ WF_vars(SignalFlush)

---------------------------------------------------------------------------
\* The variables have their types, and no buffer is overrun.
TypeOK ==
    /\ {requested, stopping, signal, error, active, unflushed, forced} \subseteq BOOLEAN
    /\ Len(queue) <= QueueCap
    /\ pc \in {"openCan", "openRoll", "wait", "check", "flushRoll", "end", "ended"}
    /\ \A f \in File :
           Len(buffer[f]) <= BufCap /\ durable[f] \in 0 .. Len(card[f])

\* As long as no error is shown, each file and its buffer hold what the file held
\* when it was opened and every row accepted since, in order and once.
LogIsComplete ==
    ~ error => \A f \in File : card[f] \o buffer[f] = expected[f]

\* After an error at most one buffer of rows is missing from a file: logging ends
\* with the first error, and a buffer that could not be flushed is kept.
Missing(f) == Range(expected[f]) \ (Range(card[f]) \cup Range(buffer[f]))

LossIsBounded == \A f \in File : Cardinality(Missing(f)) <= BufCap

AllDurable == \A f \in File : durable[f] = Len(expected[f])

\* Between two passes what telemetry shows is true: without an error and without
\* unflushed data power may be cut without losing a row, and logging is not shown
\* as active after an error.
ShownIsTrue ==
    pc = "wait" =>
        /\ (~ unflushed /\ ~ error) => AllDurable
        /\ active => ~ error

\* Each file begins with its header and has no other, however often the board is
\* restarted, also between the creation of a file and its first flush.
HeaderFirst ==
    \A f \in File : \A i \in DOMAIN card[f] : card[f][i] = Header <=> i = 1

\* Whatever fails and whenever power is lost, a file is its header and rows in order,
\* with all rows accepted so far as long as no error is shown.
LoggerInv == TypeOK /\ LogIsComplete /\ HeaderFirst

\* What was flushed stays in the file: restarts, failed writes and repeated
\* writes only add behind it.
FlushedStays ==
    \A f \in File : durable[f] <= Len(card'[f])
                     /\ SubSeq(card'[f], 1, durable[f]) = SubSeq(card[f], 1, durable[f])
FlushedStaysAlways == [][FlushedStays]_vars

\* After StopLogging everything accepted gets onto the card although frames keep
\* arriving, unless an error is shown or logging is started again.
StopIsFlushed == ~ requested ~> (requested \/ error \/ AllDurable)

\* While logging goes on, whatever was accepted is flushed once the bus falls
\* silent.
FlushedWhenIdle == <>[](queue = <<>>) => []<>(AllDurable \/ error)
===========================================================================
