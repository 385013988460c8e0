------------------------------- MODULE LoraTx -------------------------------
(***************************************************************************)
(* lora_tx_task, the only user of the LoRa transmitter: which packet it    *)
(* sends next (src/tasks/lora_task_base.rs, src/lora_scheduler.rs).        *)
(*                                                                         *)
(* Four queues and a periodic deadline compete.  The task selects a packet,*)
(* waits for the radio, looks once more for a packet of higher priority,   *)
(* and transmits.  Time is counted in ticks; a deadline is the number of   *)
(* ticks until it, negative once it has passed, so that absolute times     *)
(* need no bound.  The periodic interval is a constant here, and the       *)
(* overflow of a deadline after 2^64 microseconds is left out.             *)
(***************************************************************************)
EXTENDS Integers, FiniteSets

CONSTANTS
    Interval,           \* the periodic interval (500 ms)
    Gap,                \* RECOVERY_LOG_INTERVAL_MS (200 ms)
    MaxPrepare,         \* bound: ticks until the radio is free or given up
    MaxTransmit,        \* bound: ticks a transmission takes
    Cap,                \* bound: packets waiting in a queue
    Supply,             \* bound: packets put into each queue but Recovery's
    NumberModulus,      \* packets are numbered modulo this
    MayFailToBuild,     \* whether periodic_packet can return None
    None

ASSUME TicksAssumption ==
    /\ Interval \in Nat \ {0} /\ Gap \in Nat \ {0}
    /\ MaxPrepare \in Nat \ {0} /\ MaxTransmit \in Nat \ {0}
    /\ Cap \in Nat \ {0} /\ NumberModulus \in Nat \ {0, 1}
    /\ MayFailToBuild \in BOOLEAN

\* The sources with a queue whose packets the select takes unconditionally.
Answer == {"GroundTimeRequest", "CommandResult", "EmergencyResult"}
Queued == Answer \cup {"Recovery"}

ASSUME SupplyAssumption == Supply \in [Answer -> Nat]

Source == Queued \cup {"Periodic"}
Number == 0 .. (NumberModulus - 1)
PacketSet == [source : Source, number : Number]

ASSUME NoneAssumption == None \notin PacketSet /\ None \notin Int

\* The order of enum LoRaTxSource.
Rank(source) ==
    CASE source = "Periodic" -> 0 [] source = "Recovery" -> 1
      [] source = "GroundTimeRequest" -> 2 [] source = "CommandResult" -> 3
      [] source = "EmergencyResult" -> 4

VARIABLES
    queue,              \* packets waiting in each channel
    supply,             \* packets the producers may still send
    taken,              \* number of the packet last taken from each channel
    attempted,          \* number of the packet of each channel last attempted
    signal,             \* CONTROL_ROLL_LORA_SIGNAL
    stage,              \* top of the loop, select, prepare or transmit
    busy,               \* ticks spent at this stage
    envelope,           \* the packet the task works on, or None
    regular,            \* regular_periodic_selected
    displaced,          \* recovery_displaced_regular
    deferred,           \* deferred_envelope
    pending,            \* pending_recovery
    sent,               \* recovery_sent_since_periodic
    due,                \* periodic_due, as of the top of the loop
    next_tx,            \* next_tx_at
    retry,              \* periodic_retry_at, or None
    next_recovery,      \* next_recovery_at, 0 once it has passed
    phase,              \* history: ticks since start, modulo Interval
    slots,              \* history: regular slots used up, not yet accounted for
    owed                \* history: the last attempt was a chunk that cost a slot

queueVars == <<queue, supply, taken, attempted, signal>>
attemptVars == <<envelope, regular, displaced>>
localVars == <<deferred, pending, sent>>
timeVars == <<next_tx, retry, next_recovery, phase>>
historyVars == <<slots, owed>>
vars == <<queueVars, stage, busy, attemptVars, localVars, due, timeVars,
          historyVars>>

Init ==
    /\ queue = [s \in Queued |-> 0] /\ supply = Supply
    /\ taken = [s \in Queued |-> 0] /\ attempted = [s \in Queued |-> 0]
    /\ signal = FALSE
    /\ stage = "top" /\ busy = 0
    /\ envelope = None /\ regular = FALSE /\ displaced = FALSE
    /\ deferred = None /\ pending = None /\ sent = FALSE
    /\ due = FALSE
    /\ next_tx = Interval /\ retry = None /\ next_recovery = 0
    /\ phase = 0 /\ slots = 0 /\ owed = FALSE

-----------------------------------------------------------------------------
(* The functions of lora_scheduler.rs.                                     *)

\* select_periodic_deadline.
RetrySelected == retry # None /\ retry < next_tx
ScheduledPeriodic == IF RetrySelected THEN retry ELSE next_tx
PeriodicDue == ScheduledPeriodic <= 0

RecoveryAlwaysAllowed(periodic_due) == TRUE

\* recovery_allowed.
RecoveryAllowed(periodic_due) == ~ sent \/ ~ periodic_due

\* deferred_recovery_blocked.
DeferredBlocked ==
    /\ deferred # None /\ deferred.source = "Recovery"
    /\ ~ RecoveryAllowed(PeriodicDue)

\* advance_deadline: how many slots lie behind; the next one is in the future.
SkippedSlots(deadline) ==
    IF deadline > 0 THEN 0 ELSE (0 - deadline) \div Interval + 1

AdvancedFromNow(deadline) == IF deadline > 0 THEN deadline ELSE Interval

AdvancedDeadline(deadline) == deadline + SkippedSlots(deadline) * Interval

\* update_recovery_fairness.
FairnessAfter(source) ==
    source = "Recovery" \/ (sent /\ source # "Periodic")

-----------------------------------------------------------------------------
(* The other tasks, and time.                                              *)

Produce(source) ==
    /\ queue[source] < Cap
    /\ source \in Answer => supply[source] > 0
    /\ queue' = [queue EXCEPT ![source] = @ + 1]
    /\ supply' = IF source \in Answer THEN [supply EXCEPT ![source] = @ - 1]
                                      ELSE supply
    /\ UNCHANGED <<taken, attempted, signal, stage, busy, attemptVars, localVars,
                   due, timeVars, historyVars>>

\* apply_received_message signals a change of the roll status.
SignalControlRoll ==
    /\ ~ signal /\ signal' = TRUE
    /\ UNCHANGED <<queue, supply, taken, attempted, stage, busy, attemptVars,
                   localVars, due, timeVars, historyVars>>

NumberAfter(number) == (number + 1) % NumberModulus

Packet(source, number) == [source |-> source, number |-> number]
PeriodicPacket == Packet("Periodic", 0)

NothingAbove(rank) == \A s \in Queued : Rank(s) > rank => queue[s] = 0

RecoveryReadyFromQueue ==
    RecoveryAllowed(due) /\ pending = None /\ queue["Recovery"] > 0

RecoveryReady ==
    /\ RecoveryAllowed(due)
    /\ IF pending # None THEN next_recovery = 0 ELSE queue["Recovery"] > 0

SelectReady == \/ \E s \in Answer : queue[s] > 0
               \/ RecoveryReady \/ PeriodicDue \/ signal

\* One tick passes.  The task does not wait while the select has something to
\* return; a deadline can still pass between the end of an attempt and the next
\* look at the clock.
Tick ==
    /\ \/ stage = "top" /\ busy = 0 /\ busy' = 1
       \/ stage = "select" /\ ~ SelectReady /\ UNCHANGED busy
       \/ stage = "prepare" /\ busy < MaxPrepare /\ busy' = busy + 1
       \/ stage = "transmit" /\ busy < MaxTransmit /\ busy' = busy + 1
    /\ next_tx' = next_tx - 1
    /\ retry' = IF retry = None THEN None ELSE retry - 1
    /\ next_recovery' = IF next_recovery = 0 THEN 0 ELSE next_recovery - 1
    /\ phase' = (phase + 1) % Interval
    /\ UNCHANGED <<queueVars, stage, attemptVars, localVars, due, historyVars>>

-----------------------------------------------------------------------------
(* The top of the loop and the select.                                     *)

Prepare(packet) ==
    /\ envelope' = packet
    /\ stage' = "prepare" /\ busy' = 0 /\ displaced' = FALSE

TakeDeferred ==
    /\ stage = "top" /\ deferred # None /\ ~ DeferredBlocked
    /\ Prepare(deferred)
    /\ deferred' = None
    /\ regular' = FALSE
    /\ UNCHANGED <<queueVars, pending, sent, due, timeVars, historyVars>>

EnterSelect ==
    /\ stage = "top" /\ (deferred = None \/ DeferredBlocked)
    /\ stage' = "select" /\ busy' = 0
    /\ due' = PeriodicDue
    /\ regular' = FALSE
    /\ UNCHANGED <<queueVars, envelope, displaced, localVars, timeVars,
                   historyVars>>

TakeFrom(source) ==
    /\ queue' = [queue EXCEPT ![source] = @ - 1]
    /\ taken' = [taken EXCEPT ![source] = NumberAfter(@)]
    /\ UNCHANGED <<supply, attempted, signal>>

NextOf(source) == Packet(source, NumberAfter(taken[source]))

\* Either5::First, Second and Third.
SelectAnswer(source) ==
    /\ stage = "select"
    /\ queue[source] > 0 /\ NothingAbove(Rank(source))
    /\ TakeFrom(source)
    /\ Prepare(NextOf(source))
    /\ UNCHANGED <<regular, localVars, due, timeVars, historyVars>>

\* Either5::Fourth: the chunk is selected, or kept in pending_recovery until its
\* gap is over and no periodic packet is waiting for its turn.
SelectRecovery ==
    LET packet == IF pending # None THEN pending ELSE NextOf("Recovery")
    IN  /\ stage = "select"
        /\ NothingAbove(1) /\ RecoveryReady
        /\ \/ pending # None /\ UNCHANGED queueVars
           \/ pending = None /\ TakeFrom("Recovery")
        /\ \/ /\ next_recovery = 0 /\ RecoveryAllowed(PeriodicDue)
              /\ pending' = None
              /\ Prepare(packet)
           \/ /\ ~ (next_recovery = 0 /\ RecoveryAllowed(PeriodicDue))
              /\ pending' = packet
              /\ stage' = "top" /\ busy' = 0
              /\ UNCHANGED <<envelope, displaced>>
        /\ UNCHANGED <<regular, deferred, sent, due, timeVars, historyVars>>

\* Either5::Fifth(First): the regular deadline moves on by one interval unless
\* the retry was due; the retry is used up either way.  Without a packet the
\* overdue slots are skipped at once.
SelectPeriodic ==
    LET deadline == IF RetrySelected THEN next_tx ELSE next_tx + Interval
    IN  /\ stage = "select"
        /\ NothingAbove(1) /\ ~ RecoveryReady /\ PeriodicDue
        /\ retry' = None
        /\ regular' = ~ RetrySelected
        /\ \/ /\ Prepare(PeriodicPacket)
              /\ next_tx' = deadline
              /\ slots' = IF RetrySelected THEN slots ELSE slots + 1
              /\ UNCHANGED <<sent, owed>>
           \/ /\ MayFailToBuild
              /\ sent' = FairnessAfter("Periodic")
              /\ next_tx' = AdvancedDeadline(deadline)
              /\ owed' = FALSE
              /\ stage' = "top" /\ busy' = 0
              /\ UNCHANGED <<envelope, displaced, slots>>
        /\ UNCHANGED <<queueVars, deferred, pending, due, next_recovery, phase>>

\* Either5::Fifth(Second): a roll packet outside the regular slots.
SelectSignal ==
    /\ stage = "select"
    /\ NothingAbove(1) /\ ~ RecoveryReady /\ ~ PeriodicDue /\ signal
    /\ signal' = FALSE
    /\ \/ Prepare(PeriodicPacket)
       \/ /\ MayFailToBuild
          /\ stage' = "top" /\ busy' = 0
          /\ UNCHANGED <<envelope, displaced>>
    /\ UNCHANGED <<queue, supply, taken, attempted, regular, localVars, due,
                   timeVars, historyVars>>

-----------------------------------------------------------------------------
(* One attempt to transmit.                                                *)

NeverHigher(source) == FALSE

\* take_higher_priority_envelope: an answer of higher rank is waiting.
HigherAnswer(source) == Rank(source) > Rank(envelope.source) /\ queue[source] > 0

\* take_higher_priority_envelope: a chunk may replace a periodic packet, which
\* counts as due.
HigherRecovery ==
    /\ envelope.source = "Periodic"
    /\ RecoveryAllowed(TRUE) /\ next_recovery = 0
    /\ pending # None \/ queue["Recovery"] > 0

ForgetPreempted == UNCHANGED deferred

\* should_defer_preempted: a packet that gave way is kept, unless periodic.
KeepPreempted ==
    deferred' = IF envelope.source = "Periodic" THEN deferred ELSE envelope

\* A regular periodic packet that gave way is a missed slot.
CountPreempted ==
    slots' = IF regular /\ envelope.source = "Periodic" THEN slots - 1 ELSE slots

Transmit == stage = "prepare" /\ stage' = "transmit" /\ busy' = 0

\* The radio is ready and nothing of higher priority came meanwhile.
Proceed ==
    /\ Transmit
    /\ ~ \E s \in Answer : HigherAnswer(s)
    /\ ~ HigherRecovery
    /\ UNCHANGED <<queueVars, attemptVars, localVars, due, timeVars, historyVars>>

PreemptByAnswer(source) ==
    /\ Transmit
    /\ HigherAnswer(source) /\ NothingAbove(Rank(source))
    /\ TakeFrom(source)
    /\ envelope' = NextOf(source)
    /\ KeepPreempted
    /\ CountPreempted
    /\ UNCHANGED <<regular, displaced, pending, sent, due, timeVars, owed>>

PreemptByRecovery ==
    /\ Transmit
    /\ ~ \E s \in Answer : HigherAnswer(s)
    /\ HigherRecovery
    /\ \/ /\ pending # None
          /\ envelope' = pending /\ pending' = None
          /\ UNCHANGED queueVars
       \/ /\ pending = None
          /\ envelope' = NextOf("Recovery")
          /\ TakeFrom("Recovery")
          /\ UNCHANGED pending
    /\ displaced' = regular
    /\ KeepPreempted
    /\ CountPreempted
    /\ UNCHANGED <<regular, sent, due, timeVars, owed>>

\* What follows an attempt, successful or not: bookkeeping of retry, gap,
\* fairness and overdue slots, and the top of the loop again.
FinishAttempt ==
    LET source == envelope.source
        skipped == SkippedSlots(next_tx)
        kept == IF source # "Periodic" /\ retry # None /\ retry <= 0 THEN None
                                                                    ELSE retry
    IN  /\ next_recovery' = IF source = "Recovery" THEN Gap ELSE next_recovery
        /\ sent' = FairnessAfter(source)
        /\ next_tx' = AdvancedDeadline(next_tx)
        /\ owed' = (source = "Recovery" /\ (displaced \/ skipped # 0))
        /\ retry' = IF owed' THEN Gap ELSE kept
        /\ attempted' = IF source = "Periodic" THEN attempted
                        ELSE [attempted EXCEPT ![source] = envelope.number]
        /\ slots' = IF source = "Periodic" /\ regular THEN slots - 1 ELSE slots
        /\ envelope' = None
        /\ stage' = "top" /\ busy' = 0
        /\ UNCHANGED <<queue, supply, taken, signal, regular, displaced, deferred,
                       pending, due, phase>>

\* prepare_transmit gives up: the radio stays busy for LORA_AUX_TIMEOUT_MS.
PrepareFails == stage = "prepare" /\ busy > 0 /\ FinishAttempt

\* transmit_frame returns, with success or an error.
TransmitEnds == stage = "transmit" /\ busy > 0 /\ FinishAttempt

-----------------------------------------------------------------------------

Select == \/ \E s \in Answer : SelectAnswer(s)
          \/ SelectRecovery \/ SelectPeriodic \/ SelectSignal

Attempt == \/ Proceed \/ PreemptByRecovery
           \/ \E s \in Answer : PreemptByAnswer(s)
           \/ PrepareFails \/ TransmitEnds

Task == TakeDeferred \/ EnterSelect \/ Select \/ Attempt

Next == \/ \E s \in Queued : Produce(s)
        \/ SignalControlRoll \/ Tick \/ Task

Spec == Init /\ [][Next]_vars

\* Time does not stand still, the executor polls the task, and each wait of the
\* task for the radio has a timeout.
LiveSpec == Spec /\ SF_vars(Tick) /\ WF_vars(Task)

-----------------------------------------------------------------------------

\* The variables of the task have their types, and its deadlines lie in range.
TypeOK ==
    /\ queue \in [Queued -> 0 .. Cap]
    /\ {envelope, deferred, pending} \subseteq PacketSet \cup {None}
    /\ stage \in {"top", "select", "prepare", "transmit"}
    /\ (envelope = None) <=> stage \in {"top", "select"}
    /\ next_tx \in (0 - 1 - MaxPrepare - MaxTransmit) .. Interval
    /\ retry \in ((0 - 2 * (1 + MaxPrepare + MaxTransmit)) .. Gap) \cup {None}
    /\ next_recovery \in 0 .. Gap

Held(source) ==
    {p \in {envelope, deferred, pending} \ {None} : p.source = source}

\* An answer the task took from a queue is attempted or still held: none is lost
\* between a preemption and its turn.
NothingLost ==
    \A s \in Answer :
        Cardinality(Held(s)) = (taken[s] - attempted[s]) % NumberModulus

\* The answers of a source are attempted in the order they were queued, whichever
\* of them were deferred.
InOrder ==
    \A s \in Answer : attempted'[s] \in {attempted[s], NumberAfter(attempted[s])}

\* A chunk that was deferred and has to wait for a periodic packet is overwritten by
\* an answer that was selected meanwhile and gave way to a higher one.
Overwritten(packet) ==
    /\ packet.source = "Recovery"
    /\ packet = deferred /\ deferred' = envelope
    /\ envelope.source \in Answer /\ envelope'.source \in Answer

\* A packet that was taken from a queue leaves the task's hands by being attempted,
\* in the order of its queue, however often it is preempted, deferred or kept for
\* later; only a chunk can be lost, and only by being overwritten.
HandedOn ==
    /\ InOrder
    /\ \A s \in Queued : \A packet \in Held(s) :
           packet \notin Held(s)' =>
               \/ packet = envelope /\ attempted'[s] = packet.number
               \/ Overwritten(packet)
HandedOnAlways == [][HandedOn]_vars

\* A transmission starts with the packet of highest rank: no answer that was
\* waiting when the radio became free stands behind a lesser packet.
HighestFirst ==
    (stage' = "transmit" /\ stage # "transmit") =>
        \A s \in Answer : Rank(s) > Rank(envelope'.source) => queue[s] = 0
HighestFirstAlways == [][HighestFirst]_vars

\* The regular deadlines stay on the grid fixed at start, whatever was skipped,
\* preempted or retried: late slots are not made up for, nor do they shift the
\* next ones.
OnGrid == (phase + next_tx) % Interval = 0

\* Each regular slot used up was attempted or counted as missed, once.
SlotsAccounted == stage \in {"top", "select"} => slots = 0

\* A chunk that cost the periodic packet its slot is not followed by another
\* chunk: the periodic packet gets its turn first, unless an answer came between
\* and used up the retry.
DisplacedOnce ==
    (envelope # None /\ envelope.source = "Recovery") => ~ owed

\* The slots of the periodic packets, the turns chunks take from them and the packets
\* in the task's hands add up at every point of the loop.
SchedulerInv == TypeOK /\ OnGrid /\ SlotsAccounted /\ DisplacedOnce /\ NothingLost

PeriodicAttempted ==
    envelope # None /\ envelope.source = "Periodic" /\ envelope' = None

PeriodicNotBuilt == (SelectPeriodic \/ SelectSignal) /\ envelope' = None

\* Recovery traffic without end does not starve the periodic packets, even on a radio
\* that is busy for longer than their interval: however often one gives way to a chunk
\* or an answer, again and again one is attempted, or could not be built.
PeriodicKeepsComing == []<><<PeriodicAttempted \/ PeriodicNotBuilt>>_vars

\* Periodic packets and roll signals without end do not starve a chunk.
RecoveryKeepsComing ==
    [](queue["Recovery"] > 0 => <>(envelope # None /\ envelope.source = "Recovery"))
=============================================================================
