----------------------------- MODULE LoraTxProofs -----------------------------
(***************************************************************************)
(* Proofs about the LoRa transmit scheduler, for every interval, gap,      *)
(* timeout of the radio, queue bound and supply of packets: SchedulerInv,  *)
(* HandedOnAlways and HighestFirstAlways.                                  *)
(*                                                                         *)
(* SchedulerInv is not inductive.  What it leaves out is                   *)
(*   - how late a deadline may be at each stage, and that a chunk is sent  *)
(*     back to the top of the loop at most once while a deadline has       *)
(*     passed (Lateness);                                                  *)
(*   - that a deferred chunk waits only for a periodic packet that is due, *)
(*     so that no other chunk is taken meanwhile (DeferredChunk);          *)
(*   - that a chunk which cost a slot leaves a retry that is due when the  *)
(*     gap to the next chunk is over (OwedRetry);                          *)
(*   - which answer is in the task's hands, and its number (AnswersHeld).  *)
(***************************************************************************)
EXTENDS LoraTx, FiniteSetTheorems, TLAPS

Attempting == stage \in {"prepare", "transmit"}

\* The types the other parts rely on.
Types ==
    /\ queue \in [Queued -> 0 .. Cap]
    /\ taken \in [Queued -> Number] /\ attempted \in [Queued -> Number]
    /\ {regular, displaced, sent, due, owed} \subseteq BOOLEAN
    /\ stage \in {"top", "select", "prepare", "transmit"}
    /\ busy \in Nat
    /\ envelope \in PacketSet \cup {None} /\ deferred \in PacketSet \cup {None}
    /\ pending \in PacketSet \cup {None}
    /\ envelope # None <=> Attempting
    /\ deferred # None => deferred.source # "Periodic"
    /\ pending # None => pending.source = "Recovery"
    /\ next_tx \in Int /\ next_tx <= Interval
    /\ retry \in Int \cup {None} /\ (retry # None => retry <= Gap)
    /\ next_recovery \in 0 .. Gap
    /\ phase \in 0 .. (Interval - 1)
    /\ slots \in Int

\* A deadline of the task is at least `limit` at the top of the loop, one tick
\* later while the task is in the select, and not earlier than an attempt later
\* in an attempt.  It is that late at the top only with a chunk kept back.
LateAtMost(deadline, limit) ==
    /\ stage = "top" =>
          /\ busy \in {0, 1} /\ deadline + busy >= limit
          /\ deadline + busy = limit => pending # None
    /\ stage = "select" =>
          /\ deadline >= limit - 1
          /\ deadline = limit - 1 => pending # None /\ due
    /\ stage = "prepare" => busy <= MaxPrepare /\ deadline + busy >= limit - 1
    /\ stage = "transmit" =>
          busy <= MaxTransmit /\ deadline + busy >= limit - 1 - MaxPrepare

\* How late the two deadlines are.  The retry may have passed during one attempt
\* already, the periodic packet of a roll signal.
RetryIsFresh ==
    retry # None =>
        /\ stage = "prepare" => retry + busy >= 1
        /\ stage = "transmit" => retry + busy >= 1 - MaxPrepare

Lateness ==
    /\ LateAtMost(next_tx, 0)
    /\ retry # None => LateAtMost(retry, 0 - MaxPrepare - MaxTransmit)
    /\ Attempting /\ envelope.source = "Periodic" => RetryIsFresh

\* A chunk that was preempted and is still waiting.
ChunkDeferred == deferred # None /\ deferred.source = "Recovery"

DeferredChunk ==
    ChunkDeferred =>
        /\ ~ owed
        /\ stage \in {"select", "prepare"} => sent
        /\ stage = "select" => due /\ PeriodicDue
        /\ Attempting => envelope.source # "Recovery"

OwedRetry ==
    owed =>
        /\ sent
        /\ ~ Attempting => retry # None /\ retry <= next_recovery
        /\ Attempting => envelope.source # "Recovery"

\* A slot is open while the regular periodic packet that used it is under way.
OpenSlot ==
    /\ slots = IF Attempting /\ regular /\ envelope.source = "Periodic" THEN 1 ELSE 0
    /\ stage = "select" => ~ regular

\* The answer of this source in the task's hands.
InHand(source, packet) == packet # None /\ packet.source = source

\* It is the last one taken, and the one before was attempted; no two are held.
HeldRight(source) ==
    /\ InHand(source, envelope) =>
          /\ envelope.number = taken[source]
          /\ taken[source] = NumberAfter(attempted[source])
          /\ ~ InHand(source, deferred)
    /\ InHand(source, deferred) =>
          /\ deferred.number = taken[source]
          /\ taken[source] = NumberAfter(attempted[source])
    /\ ~ InHand(source, envelope) /\ ~ InHand(source, deferred) =>
          taken[source] = attempted[source]

AnswersHeld ==
    /\ \A s \in Answer : HeldRight(s)
    /\ stage \in {"select", "prepare"} => deferred = None \/ ChunkDeferred

\* The inductive invariant.
SchedulerIInv ==
    Types /\ OnGrid /\ Lateness /\ DeferredChunk /\ OwedRetry /\ OpenSlot /\ AnswersHeld

-----------------------------------------------------------------------------
(* The grid of the regular deadlines.                                      *)

\* Division and remainder by the interval.
LEMMA Division ==
    ASSUME NEW x \in Int
    PROVE  /\ x \div Interval \in Int /\ x % Interval \in 0 .. (Interval - 1)
           /\ x = Interval * (x \div Interval) + (x % Interval)
BY TicksAssumption

LEMMA RemainderIsUnique ==
    ASSUME NEW x \in Int, NEW q \in Int, NEW r \in 0 .. (Interval - 1),
           x = Interval * q + r
    PROVE  x % Interval = r
BY TicksAssumption

\* Whole intervals do not leave the grid.
LEMMA GridStep ==
    ASSUME NEW x \in Int, NEW k \in Int, x % Interval = 0
    PROVE  (x + k * Interval) % Interval = 0
<1> DEFINE q == x \div Interval
<1>1. x = Interval * q /\ q \in Int
  BY Division, TicksAssumption
<1> HIDE DEF q
<1>2. x + k * Interval = Interval * (q + k) + 0
  BY <1>1, TicksAssumption
<1>3. q + k \in Int /\ 0 \in 0 .. (Interval - 1) /\ x + k * Interval \in Int
  BY <1>1, TicksAssumption
<1> QED BY <1>2, <1>3, RemainderIsUnique

\* advance_deadline: the next slot lies ahead, by one interval at most.
LEMMA AdvancedIsNext ==
    ASSUME NEW deadline \in Int, deadline <= Interval
    PROVE  /\ AdvancedDeadline(deadline) \in 1 .. Interval
           /\ SkippedSlots(deadline) \in Int
           /\ AdvancedDeadline(deadline) = deadline + SkippedSlots(deadline) * Interval
<1>1. CASE deadline > 0
  BY <1>1, TicksAssumption DEF AdvancedDeadline, SkippedSlots
<1>2. CASE deadline <= 0
  <2>1. deadline + ((0 - deadline) \div Interval + 1) * Interval \in 1 .. Interval
    BY <1>2, TicksAssumption
  <2>2. (0 - deadline) \div Interval + 1 \in Int
    BY TicksAssumption
  <2>3. SkippedSlots(deadline) = (0 - deadline) \div Interval + 1
    BY <1>2 DEF SkippedSlots
  <2> QED BY <2>1, <2>2, <2>3 DEF AdvancedDeadline
<1> QED BY <1>1, <1>2

\* advance_deadline keeps a deadline on the grid.
LEMMA AdvancedOnGrid ==
    ASSUME NEW deadline \in Int, deadline <= Interval, phase \in 0 .. (Interval - 1),
           (phase + deadline) % Interval = 0
    PROVE  (phase + AdvancedDeadline(deadline)) % Interval = 0
<1> DEFINE k == SkippedSlots(deadline)
<1>1. k \in Int /\ AdvancedDeadline(deadline) = deadline + k * Interval
  BY AdvancedIsNext
<1> HIDE DEF k
<1>2. ((phase + deadline) + k * Interval) % Interval = 0
  BY <1>1, GridStep, TicksAssumption
<1>3. (phase + deadline) + k * Interval = phase + (deadline + k * Interval)
  BY <1>1, TicksAssumption
<1> QED BY <1>1, <1>2, <1>3

-----------------------------------------------------------------------------
(* Types.                                                                  *)

\* Numbers are counted in a circle.
LEMMA NumberAfterType ==
    ASSUME NEW number \in Number
    PROVE  NumberAfter(number) \in Number
BY TicksAssumption DEF Number, NumberAfter

\* The packets the task makes out of a queue or of the telemetry.
LEMMA PacketTypes ==
    ASSUME Types
    PROVE  /\ PeriodicPacket \in PacketSet /\ PeriodicPacket # None
           /\ PeriodicPacket.source = "Periodic"
           /\ \A s \in Queued : /\ NextOf(s) \in PacketSet /\ NextOf(s) # None
                                /\ NextOf(s).source = s
                                /\ NextOf(s).number = NumberAfter(taken[s])
<1>1. 0 \in Number
  BY TicksAssumption DEF Number
<1>2. PeriodicPacket \in PacketSet
  BY <1>1 DEF PeriodicPacket, Packet, PacketSet, Source
<1>3. \A s \in Queued : NextOf(s) \in PacketSet
  BY NumberAfterType DEF Types, NextOf, Packet, PacketSet, Source
<1> QED BY <1>2, <1>3, NoneAssumption DEF PeriodicPacket, NextOf, Packet

\* Sources other than the four queues are periodic.
LEMMA SourceCases ==
    ASSUME NEW packet \in PacketSet
    PROVE  /\ packet.source \in Source /\ packet.number \in Number
           /\ packet.source = "Periodic" \/ packet.source \in Queued
           /\ packet.source = "Recovery" \/ packet.source \in Answer
              \/ packet.source = "Periodic"
BY DEF PacketSet, Source, Queued

\* Taking a packet from a queue that holds one.
LEMMA TakeFromTypes ==
    ASSUME Types, NEW s \in Queued, queue[s] > 0, TakeFrom(s)
    PROVE  /\ queue' \in [Queued -> 0 .. Cap] /\ taken' \in [Queued -> Number]
           /\ attempted' = attempted
           /\ taken'[s] = NumberAfter(taken[s])
           /\ \A other \in Queued : other # s => taken'[other] = taken[other]
<1>1. queue[s] \in 0 .. Cap /\ queue[s] - 1 \in 0 .. Cap
  BY TicksAssumption DEF Types
<1>2. NumberAfter(taken[s]) \in Number
  BY NumberAfterType DEF Types
<1> QED BY <1>1, <1>2 DEF Types, TakeFrom

\* The top of the loop and the select keep the types.
LEMMA SelectTypes ==
    ASSUME Types, TakeDeferred \/ EnterSelect \/ Select
    PROVE  Types'
<1> USE DEF Types
<1>1. CASE TakeDeferred
  BY <1>1 DEF TakeDeferred, Prepare, Attempting, queueVars, timeVars, historyVars
<1>2. CASE EnterSelect
  <2>1. due' \in BOOLEAN
    BY <1>2 DEF EnterSelect, PeriodicDue, ScheduledPeriodic
  <2> QED BY <1>2, <2>1
          DEF EnterSelect, Attempting, queueVars, localVars, timeVars, historyVars
<1>3. ASSUME NEW s \in Answer, SelectAnswer(s) PROVE Types'
  <2>1. s \in Queued /\ s # "Periodic"
    BY DEF Queued, Answer
  <2>2. queue' \in [Queued -> 0 .. Cap] /\ taken' \in [Queued -> Number]
        /\ attempted' = attempted
    BY <1>3, <2>1, TakeFromTypes DEF SelectAnswer
  <2> QED BY <1>3, <2>1, <2>2, PacketTypes
          DEF SelectAnswer, Prepare, Attempting, localVars, timeVars, historyVars
<1>4. CASE SelectRecovery
  <2>1. "Recovery" \in Queued
    BY DEF Queued
  <2>2. /\ queue' \in [Queued -> 0 .. Cap] /\ taken' \in [Queued -> Number]
        /\ attempted' = attempted
    <3>1. CASE pending = None
      BY <1>4, <2>1, <3>1, TakeFromTypes DEF SelectRecovery, RecoveryReady
    <3>2. CASE pending # None
      BY <1>4, <3>2 DEF SelectRecovery, queueVars
    <3> QED BY <3>1, <3>2
  <2> DEFINE packet == IF pending # None THEN pending ELSE NextOf("Recovery")
  <2>3. packet \in PacketSet /\ packet # None /\ packet.source = "Recovery"
    BY <2>1, PacketTypes
  <2>4. \/ pending' = None /\ Prepare(packet)
        \/ pending' = packet /\ stage' = "top" /\ busy' = 0
           /\ UNCHANGED <<envelope, displaced>>
    BY <1>4 DEF SelectRecovery
  <2>5. /\ stage = "select" /\ UNCHANGED <<regular, deferred, sent, due, timeVars, historyVars>>
    BY <1>4 DEF SelectRecovery
  <2> HIDE DEF packet
  <2>6. CASE pending' = None /\ Prepare(packet)
    BY <2>2, <2>3, <2>5, <2>6 DEF Prepare, Attempting, timeVars, historyVars
  <2>7. CASE /\ pending' = packet /\ stage' = "top" /\ busy' = 0
             /\ UNCHANGED <<envelope, displaced>>
    BY <2>2, <2>3, <2>5, <2>7 DEF Attempting, timeVars, historyVars
  <2> QED BY <2>4, <2>6, <2>7
<1>5. CASE SelectPeriodic
  <2> DEFINE deadline == IF RetrySelected THEN next_tx ELSE next_tx + Interval
  <2>1. deadline \in Int /\ deadline <= Interval
    BY <1>5, TicksAssumption
       DEF SelectPeriodic, PeriodicDue, ScheduledPeriodic, RetrySelected
  <2>2. AdvancedDeadline(deadline) \in Int /\ AdvancedDeadline(deadline) <= Interval
    BY <2>1, AdvancedIsNext, TicksAssumption
  <2>3. /\ stage = "select" /\ retry' = None /\ regular' \in BOOLEAN
        /\ UNCHANGED <<queueVars, deferred, pending, due, next_recovery, phase>>
    BY <1>5 DEF SelectPeriodic, RetrySelected
  <2>4. CASE /\ Prepare(PeriodicPacket) /\ next_tx' = deadline
             /\ slots' = IF RetrySelected THEN slots ELSE slots + 1
             /\ UNCHANGED <<sent, owed>>
    <3>1. slots' \in Int
      BY <2>4
    <3> QED BY <2>1, <2>3, <2>4, <3>1, PacketTypes DEF Prepare, Attempting, queueVars
  <2>5. CASE /\ sent' = FairnessAfter("Periodic") /\ owed' = FALSE
             /\ next_tx' = AdvancedDeadline(deadline)
             /\ stage' = "top" /\ busy' = 0
             /\ UNCHANGED <<envelope, displaced, slots>>
    <3>1. sent' \in BOOLEAN
      BY <2>5 DEF FairnessAfter
    <3> QED BY <2>2, <2>3, <2>5, <3>1 DEF Attempting, queueVars
  <2> QED BY <1>5, <2>4, <2>5 DEF SelectPeriodic
<1>6. CASE SelectSignal
  <2>1. /\ stage = "select"
        /\ UNCHANGED <<queue, taken, attempted, regular, localVars, due, timeVars,
                       historyVars>>
    BY <1>6 DEF SelectSignal
  <2>2. CASE Prepare(PeriodicPacket)
    BY <2>1, <2>2, PacketTypes
       DEF Prepare, Attempting, localVars, timeVars, historyVars
  <2>3. CASE stage' = "top" /\ busy' = 0 /\ UNCHANGED <<envelope, displaced>>
    BY <2>1, <2>3 DEF Attempting, localVars, timeVars, historyVars
  <2> QED BY <1>6, <2>2, <2>3 DEF SelectSignal
<1> QED BY <1>1, <1>2, <1>3, <1>4, <1>5, <1>6 DEF Select

\* So do an attempt, the producers and time.
LEMMA AttemptTypes ==
    ASSUME Types, Attempt
    PROVE  Types'
<1> USE DEF Types
<1>1. CASE Proceed
  BY <1>1 DEF Proceed, Transmit, Attempting, queueVars, attemptVars, localVars, timeVars,
              historyVars
<1>2. ASSUME Transmit, KeepPreempted
      PROVE  /\ deferred' \in PacketSet \cup {None}
             /\ deferred' # None => deferred'.source # "Periodic"
             /\ busy' = 0 /\ stage' = "transmit"
  BY <1>2, NoneAssumption DEF Transmit, KeepPreempted, Attempting
<1>3. ASSUME CountPreempted PROVE slots' \in Int
  BY <1>3 DEF CountPreempted
<1>4. ASSUME NEW s \in Answer, PreemptByAnswer(s) PROVE Types'
  <2>1. s \in Queued
    BY DEF Queued
  <2>2. /\ queue' \in [Queued -> 0 .. Cap] /\ taken' \in [Queued -> Number]
        /\ attempted' = attempted
    BY <1>4, <2>1, TakeFromTypes DEF PreemptByAnswer, HigherAnswer
  <2> QED BY <1>2, <1>3, <1>4, <2>1, <2>2, PacketTypes
          DEF PreemptByAnswer, Attempting, timeVars
<1>5. CASE PreemptByRecovery
  <2>1. "Recovery" \in Queued
    BY DEF Queued
  <2>2. /\ queue' \in [Queued -> 0 .. Cap] /\ taken' \in [Queued -> Number]
        /\ attempted' = attempted
        /\ envelope' \in PacketSet /\ envelope' # None
        /\ pending' \in PacketSet \cup {None}
        /\ pending' # None => pending'.source = "Recovery"
    <3>1. CASE pending = None
      BY <1>5, <2>1, <3>1, TakeFromTypes, PacketTypes DEF PreemptByRecovery, HigherRecovery
    <3>2. CASE pending # None
      BY <1>5, <3>2 DEF PreemptByRecovery, queueVars
    <3> QED BY <3>1, <3>2
  <2>3. /\ Transmit /\ KeepPreempted /\ CountPreempted /\ displaced' = regular
        /\ UNCHANGED <<regular, sent, due, timeVars, owed>>
    BY <1>5 DEF PreemptByRecovery
  <2> QED BY <1>2, <1>3, <2>2, <2>3 DEF Attempting, timeVars
<1>6. CASE PrepareFails \/ TransmitEnds
  <2>1. Attempting /\ FinishAttempt
    BY <1>6 DEF PrepareFails, TransmitEnds, Attempting
  <2>2. envelope \in PacketSet /\ envelope # None
    BY <2>1
  <2>3. next_tx' \in Int /\ next_tx' <= Interval
    BY <2>1, AdvancedIsNext, TicksAssumption DEF FinishAttempt
  <2>4. next_recovery' \in 0 .. Gap
    BY <2>1, TicksAssumption DEF FinishAttempt
  <2>5. sent' \in BOOLEAN /\ owed' \in BOOLEAN
    <3>1. sent' = FairnessAfter(envelope.source)
      BY <2>1 DEF FinishAttempt
    <3>2. sent' \in BOOLEAN
      BY <3>1 DEF FairnessAfter
    <3>3. owed' \in BOOLEAN
      BY <2>1 DEF FinishAttempt
    <3> QED BY <3>2, <3>3
  <2>6. retry' \in Int \cup {None} /\ (retry' # None => retry' <= Gap)
    BY <2>1, TicksAssumption DEF FinishAttempt
  <2>7. attempted' \in [Queued -> Number]
    <3>1. envelope.number \in Number
      BY <2>2, SourceCases
    <3> QED BY <2>1, <3>1 DEF FinishAttempt
  <2>8. slots' \in Int
    BY <2>1 DEF FinishAttempt
  <2>9. /\ envelope' = None /\ stage' = "top" /\ busy' = 0
        /\ UNCHANGED <<queue, supply, taken, signal, regular, displaced, deferred,
                       pending, due, phase>>
    BY <2>1 DEF FinishAttempt
  <2> QED BY <2>3, <2>4, <2>5, <2>6, <2>7, <2>8, <2>9 DEF Attempting
<1> QED BY <1>1, <1>4, <1>5, <1>6 DEF Attempt

LEMMA TickTypes ==
    ASSUME Types, Tick
    PROVE  Types'
<1> USE DEF Types
<1>1. phase' \in 0 .. (Interval - 1)
  <2>1. phase + 1 \in Int /\ phase' = (phase + 1) % Interval
    BY TicksAssumption DEF Tick
  <2> QED BY <2>1, Division
<1>2. next_tx' \in Int /\ next_tx' <= Interval
  BY TicksAssumption DEF Tick
<1>3. retry' \in Int \cup {None} /\ (retry' # None => retry' <= Gap)
  BY TicksAssumption DEF Tick
<1>4. next_recovery' \in 0 .. Gap
  BY TicksAssumption DEF Tick
<1>5. busy' \in Nat
  BY DEF Tick
<1> QED BY <1>1, <1>2, <1>3, <1>4, <1>5
        DEF Tick, queueVars, attemptVars, localVars, historyVars, Attempting

LEMMA ProducerTypes ==
    ASSUME Types, (\E s \in Queued : Produce(s)) \/ SignalControlRoll \/ UNCHANGED vars
    PROVE  /\ Types'
           /\ UNCHANGED <<taken, attempted, stage, busy, attemptVars, localVars, due,
                          timeVars, historyVars>>
<1>1. CASE UNCHANGED vars
  BY <1>1 DEF vars, queueVars, attemptVars, localVars, timeVars, historyVars, Types,
              Attempting
<1>2. CASE SignalControlRoll
  BY <1>2 DEF SignalControlRoll, attemptVars, localVars, timeVars, historyVars, Types,
              Attempting
<1>3. ASSUME NEW s \in Queued, Produce(s) PROVE Types'
  <2>1. queue' \in [Queued -> 0 .. Cap]
    <3>1. queue[s] \in 0 .. Cap /\ queue[s] < Cap
      BY <1>3 DEF Types, Produce
    <3>2. queue[s] + 1 \in 0 .. Cap
      BY <3>1, TicksAssumption
    <3> QED BY <1>3, <3>2 DEF Types, Produce
  <2> QED BY <1>3, <2>1
          DEF Produce, attemptVars, localVars, timeVars, historyVars, Types, Attempting
<1> QED BY <1>1, <1>2, <1>3 DEF Produce, SignalControlRoll, vars, queueVars

\* Every step keeps the types.
LEMMA TypesKept ==
    ASSUME Types, [Next]_vars
    PROVE  Types'
BY SelectTypes, AttemptTypes, TickTypes, ProducerTypes DEF Next, Task

-----------------------------------------------------------------------------
(* The grid and the slots.                                                 *)

LEMMA GridKept ==
    ASSUME Types, OnGrid, [Next]_vars
    PROVE  OnGrid'
<1> USE DEF Types, OnGrid
<1>1. CASE UNCHANGED <<phase, next_tx>>
  BY <1>1
<1>2. CASE Tick
  <2> DEFINE q == (phase + 1) \div Interval
             r == (phase + 1) % Interval
  <2>1. phase + 1 \in Int /\ next_tx \in Int /\ Interval \in Int
    BY TicksAssumption
  <2>2. q \in Int /\ r \in Int /\ phase + 1 = Interval * q + r
    BY <2>1, Division, TicksAssumption
  <2>3. phase' = r /\ next_tx' = next_tx - 1
    BY <1>2 DEF Tick
  <2> HIDE DEF q, r
  <2>4. ((phase + next_tx) + (0 - q) * Interval) % Interval = 0
    <3>1. 0 - q \in Int /\ phase + next_tx \in Int
      BY <2>1, <2>2
    <3> QED BY <3>1, GridStep
  <2>5. r + (next_tx - 1) = (phase + next_tx) + (0 - q) * Interval
    BY <2>1, <2>2
  <2> QED BY <2>3, <2>4, <2>5
<1>3. CASE SelectPeriodic
  <2> DEFINE deadline == IF RetrySelected THEN next_tx ELSE next_tx + Interval
  <2>1. deadline \in Int /\ deadline <= Interval
    BY <1>3, TicksAssumption
       DEF SelectPeriodic, PeriodicDue, ScheduledPeriodic, RetrySelected
  <2>2. (phase + deadline) % Interval = 0
    <3>1. ((phase + next_tx) + 1 * Interval) % Interval = 0
      BY GridStep, TicksAssumption
    <3>2. (phase + next_tx) + 1 * Interval = phase + (next_tx + Interval)
      BY TicksAssumption
    <3> QED BY <3>1, <3>2
  <2>3. phase' = phase /\ (next_tx' = deadline \/ next_tx' = AdvancedDeadline(deadline))
    BY <1>3 DEF SelectPeriodic
  <2> HIDE DEF deadline
  <2> QED BY <2>1, <2>2, <2>3, AdvancedOnGrid
<1>4. CASE FinishAttempt
  BY <1>4, AdvancedOnGrid DEF FinishAttempt
<1> QED BY <1>1, <1>2, <1>3, <1>4, ProducerTypes
        DEF Next, Task, TakeDeferred, EnterSelect, Select, SelectAnswer, SelectRecovery,
            SelectSignal, Attempt, Proceed, PreemptByAnswer, PreemptByRecovery,
            PrepareFails, TransmitEnds, timeVars

\* The answers have a rank of their own, a chunk and a periodic packet none.
LEMMA Ranks ==
    /\ Rank("Periodic") = 0 /\ Rank("Recovery") = 1
    /\ \A s \in Answer : Rank(s) > 1 /\ Rank(s) \in Nat /\ s # "Periodic" /\ s # "Recovery"
    /\ \A s, other \in Source : Rank(s) = Rank(other) => s = other
    /\ \A s \in Source : Rank(s) \in Nat
<1>1. Rank("Periodic") = 0 /\ Rank("Recovery") = 1 /\ Rank("GroundTimeRequest") = 2
      /\ Rank("CommandResult") = 3 /\ Rank("EmergencyResult") = 4
  BY DEF Rank
<1> QED BY <1>1 DEF Source, Queued, Answer

LEMMA SlotKept ==
    ASSUME Types, OpenSlot, [Next]_vars
    PROVE  OpenSlot'
<1> USE DEF Types, OpenSlot
<1>1. CASE UNCHANGED <<stage, envelope, regular, slots>>
  BY <1>1 DEF Attempting
<1>2. CASE Tick
  BY <1>1, <1>2 DEF Tick, attemptVars, historyVars
<1>3. CASE TakeDeferred
  BY <1>3 DEF TakeDeferred, Prepare, Attempting, historyVars
<1>4. CASE EnterSelect
  BY <1>4 DEF EnterSelect, Attempting, historyVars
<1>5. ASSUME NEW s \in Answer, SelectAnswer(s) PROVE OpenSlot'
  BY <1>5 DEF SelectAnswer, Prepare, Attempting, historyVars
<1>6. ASSUME stage = "select", stage' \in {"top", "prepare"}, UNCHANGED <<regular, slots>>
      PROVE  OpenSlot'
  <2>1. slots' = 0 /\ ~ regular'
    BY <1>6 DEF Attempting
  <2> QED BY <1>6, <2>1
<1>7. CASE SelectRecovery
  BY <1>6, <1>7 DEF SelectRecovery, Prepare, historyVars
<1>8. CASE SelectSignal
  BY <1>6, <1>8 DEF SelectSignal, Prepare, historyVars
<1>9. CASE SelectPeriodic
  <2>1. stage = "select" /\ slots = 0 /\ regular' = ~ RetrySelected
    BY <1>9 DEF SelectPeriodic, Attempting
  <2>2. CASE Prepare(PeriodicPacket)
             /\ slots' = IF RetrySelected THEN slots ELSE slots + 1
    <3>1. /\ stage' = "prepare" /\ envelope'.source = "Periodic"
          /\ slots' = IF RetrySelected THEN 0 ELSE 1
      BY <2>1, <2>2, PacketTypes DEF Prepare
    <3>2. CASE RetrySelected
      BY <2>1, <3>1, <3>2 DEF Attempting
    <3>3. CASE ~ RetrySelected
      BY <2>1, <3>1, <3>3 DEF Attempting
    <3> QED BY <3>2, <3>3
  <2>3. CASE stage' = "top" /\ UNCHANGED slots
    BY <2>1, <2>3 DEF Attempting
  <2> QED BY <1>9, <2>2, <2>3 DEF SelectPeriodic
<1>10. CASE Proceed
  BY <1>10 DEF Proceed, Transmit, Attempting, attemptVars, historyVars
<1>11. ASSUME Transmit, CountPreempted, UNCHANGED regular, envelope'.source # "Periodic"
       PROVE  OpenSlot'
  BY <1>11 DEF Transmit, CountPreempted, Attempting
<1>12. ASSUME NEW s \in Answer, PreemptByAnswer(s) PROVE OpenSlot'
  <2>1. envelope'.source # "Periodic"
    BY <1>12, PacketTypes, Ranks DEF PreemptByAnswer, Queued
  <2> QED BY <1>11, <1>12, <2>1 DEF PreemptByAnswer
<1>13. CASE PreemptByRecovery
  <2>1. envelope'.source # "Periodic"
    BY <1>13, PacketTypes DEF PreemptByRecovery, Queued
  <2> QED BY <1>11, <1>13, <2>1 DEF PreemptByRecovery
<1>14. CASE PrepareFails \/ TransmitEnds
  <2>1. Attempting /\ FinishAttempt
    BY <1>14 DEF PrepareFails, TransmitEnds, Attempting
  <2> QED BY <2>1 DEF FinishAttempt, Attempting
<1> QED BY <1>1, <1>2, <1>3, <1>4, <1>5, <1>7, <1>8, <1>9, <1>10, <1>12, <1>13, <1>14,
           ProducerTypes
        DEF Next, Task, Select, Attempt, attemptVars, historyVars

-----------------------------------------------------------------------------
(* The packets in the task's hands.                                        *)

\* A packet of its own queue comes after all that were taken before.
LEMMA TakenIsNext ==
    ASSUME Types, NEW s \in Queued, queue[s] > 0, TakeFrom(s)
    PROVE  /\ NextOf(s).number = taken'[s]
           /\ attempted' = attempted
           /\ taken'[s] = NumberAfter(taken[s])
           /\ \A other \in Queued : other # s => taken'[other] = taken[other]
BY PacketTypes, TakeFromTypes

LEMMA HeldKept ==
    ASSUME Types, AnswersHeld, [Next]_vars
    PROVE  AnswersHeld'
<1>0. \A s \in Answer : HeldRight(s) /\ s \in Queued /\ s # "Recovery" /\ s # "Periodic"
  BY DEF AnswersHeld, Queued, Answer
<1>1. ASSUME UNCHANGED <<envelope, deferred, taken, attempted>>
      PROVE  \A s \in Answer : HeldRight(s)'
  BY <1>0, <1>1 DEF HeldRight, InHand
<1>2. CASE UNCHANGED <<envelope, deferred, taken, attempted, stage>>
  BY <1>1, <1>2 DEF AnswersHeld, ChunkDeferred
<1>3. CASE Tick
  BY <1>2, <1>3 DEF Tick, queueVars, attemptVars, localVars
<1>4. CASE TakeDeferred
  <2>1. /\ envelope = None /\ envelope' = deferred /\ deferred' = None
        /\ UNCHANGED <<taken, attempted>>
    BY <1>4 DEF TakeDeferred, Prepare, queueVars, Types, Attempting
  <2>2. \A s \in Answer : HeldRight(s)'
    BY <1>0, <2>1 DEF HeldRight, InHand
  <2> QED BY <2>1, <2>2 DEF AnswersHeld
<1>5. CASE EnterSelect
  <2>1. deferred = None \/ ChunkDeferred
    BY <1>5 DEF EnterSelect, DeferredBlocked, ChunkDeferred
  <2>2. UNCHANGED <<envelope, deferred, taken, attempted>>
    BY <1>5 DEF EnterSelect, queueVars, localVars
  <2> QED BY <1>1, <2>1, <2>2 DEF AnswersHeld, ChunkDeferred
<1>6. ASSUME NEW s \in Answer, SelectAnswer(s) PROVE AnswersHeld'
  <2>1. /\ envelope = None /\ envelope' = NextOf(s) /\ deferred' = deferred
        /\ deferred = None \/ ChunkDeferred
        /\ NextOf(s) # None /\ NextOf(s).source = s
    BY <1>0, <1>6, PacketTypes
       DEF SelectAnswer, Prepare, localVars, Types, Attempting, AnswersHeld
  <2>2. /\ NextOf(s).number = taken'[s] /\ attempted' = attempted
        /\ taken'[s] = NumberAfter(taken[s])
        /\ \A other \in Queued : other # s => taken'[other] = taken[other]
    BY <1>0, <1>6, TakenIsNext DEF SelectAnswer
  <2>3. ASSUME NEW other \in Answer PROVE HeldRight(other)'
    BY <1>0, <2>1, <2>2 DEF HeldRight, InHand, ChunkDeferred
  <2> QED BY <2>1, <2>3 DEF AnswersHeld, ChunkDeferred
<1>7. CASE SelectRecovery
  <2>1. /\ stage = "select" /\ envelope = None /\ deferred' = deferred
        /\ deferred = None \/ ChunkDeferred
    BY <1>7 DEF SelectRecovery, Types, Attempting, AnswersHeld
  <2>2. /\ attempted' = attempted /\ \A other \in Answer : taken'[other] = taken[other]
    <3>1. CASE pending = None
      BY <1>0, <1>7, <3>1, TakenIsNext DEF SelectRecovery, RecoveryReady, Queued
    <3>2. CASE pending # None
      BY <1>7, <3>2 DEF SelectRecovery, queueVars
    <3> QED BY <3>1, <3>2
  <2>3. envelope' = None \/ envelope'.source = "Recovery"
    BY <1>7, <2>1, PacketTypes DEF SelectRecovery, Prepare, Types, Queued
  <2>4. ASSUME NEW other \in Answer PROVE HeldRight(other)'
    BY <1>0, <2>1, <2>2, <2>3 DEF HeldRight, InHand
  <2> QED BY <2>1, <2>4 DEF AnswersHeld, ChunkDeferred
<1>8. CASE SelectPeriodic \/ SelectSignal
  <2>1. /\ stage = "select" /\ envelope = None /\ deferred' = deferred
        /\ deferred = None \/ ChunkDeferred
        /\ UNCHANGED <<taken, attempted>>
    BY <1>8 DEF SelectPeriodic, SelectSignal, Types, Attempting, AnswersHeld, queueVars,
                localVars
  <2>2. envelope' = None \/ envelope'.source = "Periodic"
    BY <1>8, <2>1, PacketTypes DEF SelectPeriodic, SelectSignal, Prepare
  <2>3. ASSUME NEW other \in Answer PROVE HeldRight(other)'
    BY <1>0, <2>1, <2>2 DEF HeldRight, InHand
  <2> QED BY <2>1, <2>3 DEF AnswersHeld, ChunkDeferred
<1>9. CASE Proceed
  <2>1. UNCHANGED <<envelope, deferred, taken, attempted>> /\ stage' = "transmit"
    BY <1>9 DEF Proceed, Transmit, queueVars, attemptVars, localVars
  <2> QED BY <1>1, <2>1 DEF AnswersHeld
<1>10. ASSUME Transmit, KeepPreempted, NEW s \in Queued,
              envelope'.source = s, envelope' # None,
              Rank(s) > Rank(envelope.source), attempted' = attempted,
              s \in Answer => /\ envelope'.number = taken'[s]
                              /\ taken'[s] = NumberAfter(taken[s]),
              \A other \in Answer : other # s => taken'[other] = taken[other]
       PROVE  AnswersHeld'
  <2>1. /\ envelope # None /\ envelope.source # s /\ stage' = "transmit"
        /\ deferred = None \/ ChunkDeferred
    <3>1. envelope # None /\ (deferred = None \/ ChunkDeferred)
      BY <1>10 DEF Transmit, Types, Attempting, AnswersHeld
    <3>2. envelope.source # s
      BY <1>10, Ranks DEF Source
    <3> QED BY <1>10, <3>1, <3>2 DEF Transmit
  <2>2. deferred' = IF envelope.source = "Periodic" THEN deferred ELSE envelope
    BY <1>10 DEF KeepPreempted
  <2>3. ASSUME NEW other \in Answer, other # s PROVE HeldRight(other)'
    <3>1. taken'[other] = taken[other] /\ attempted' = attempted
          /\ ~ InHand(other, envelope') /\ ~ InHand(other, deferred)
      BY <1>0, <1>10, <2>1, <2>3 DEF InHand, ChunkDeferred
    <3>2. InHand(other, deferred') <=> InHand(other, envelope)
      BY <1>0, <2>1, <2>2, <3>1 DEF InHand
    <3>3. InHand(other, deferred') => deferred' = envelope
      BY <1>0, <2>2, <3>1
    <3> QED BY <1>0, <3>1, <3>2, <3>3 DEF HeldRight
  <2>4. ASSUME s \in Answer PROVE HeldRight(s)'
    <3>1. ~ InHand(s, envelope) /\ ~ InHand(s, deferred) /\ ~ InHand(s, deferred')
      BY <1>0, <2>1, <2>2, <2>4 DEF InHand, ChunkDeferred
    <3>2. taken[s] = attempted[s]
      BY <1>0, <2>4, <3>1 DEF HeldRight
    <3> QED BY <1>10, <2>4, <3>1, <3>2 DEF HeldRight, InHand
  <2> QED BY <2>1, <2>3, <2>4 DEF AnswersHeld
<1>11. ASSUME NEW s \in Answer, PreemptByAnswer(s) PROVE AnswersHeld'
  <2>1. queue[s] > 0 /\ TakeFrom(s) /\ Rank(s) > Rank(envelope.source)
        /\ envelope' = NextOf(s) /\ Transmit /\ KeepPreempted
    BY <1>11 DEF PreemptByAnswer, HigherAnswer
  <2> QED BY <1>0, <1>10, <2>1, PacketTypes, TakenIsNext
<1>12. CASE PreemptByRecovery
  <2>1. /\ Transmit /\ KeepPreempted /\ envelope.source = "Periodic"
        /\ "Recovery" \in Queued /\ Rank("Recovery") > Rank(envelope.source)
    BY <1>12, Ranks DEF PreemptByRecovery, HigherRecovery, Queued
  <2>2. /\ envelope' # None /\ envelope'.source = "Recovery" /\ attempted' = attempted
        /\ \A other \in Answer : taken'[other] = taken[other]
    <3>1. CASE pending = None
      BY <1>0, <1>12, <2>1, <3>1, PacketTypes, TakenIsNext
         DEF PreemptByRecovery, HigherRecovery
    <3>2. CASE pending # None
      BY <1>12, <3>2 DEF PreemptByRecovery, queueVars, Types
    <3> QED BY <3>1, <3>2
  <2> QED BY <1>0, <1>10, <2>1, <2>2
<1>13. CASE PrepareFails \/ TransmitEnds
  <2>1. /\ Attempting /\ FinishAttempt /\ envelope # None /\ envelope \in PacketSet
    BY <1>13 DEF PrepareFails, TransmitEnds, Attempting, Types
  <2>2. /\ envelope' = None /\ deferred' = deferred /\ taken' = taken
        /\ stage' = "top"
        /\ attempted' = IF envelope.source = "Periodic" THEN attempted
                        ELSE [attempted EXCEPT ![envelope.source] = envelope.number]
    BY <2>1 DEF FinishAttempt
  <2>3. ASSUME NEW s \in Answer PROVE HeldRight(s)'
    <3>1. CASE envelope.source = s
      <4>1. attempted'[s] = envelope.number
        BY <1>0, <2>2, <3>1 DEF Types
      <4> QED BY <1>0, <2>1, <2>2, <3>1, <4>1 DEF HeldRight, InHand
    <3>2. CASE envelope.source # s
      <4>1. attempted'[s] = attempted[s]
        BY <1>0, <2>2, <3>2 DEF Types
      <4> QED BY <1>0, <2>1, <2>2, <3>2, <4>1 DEF HeldRight, InHand
    <3> QED BY <3>1, <3>2
  <2> QED BY <2>2, <2>3 DEF AnswersHeld
<1> QED BY <1>2, <1>3, <1>4, <1>5, <1>6, <1>7, <1>8, <1>9, <1>11, <1>12, <1>13,
           ProducerTypes
        DEF Next, Task, Select, Attempt, attemptVars, localVars

-----------------------------------------------------------------------------
(* How late the deadlines are.                                             *)

\* A tick, which passes in the select only while the deadline lies ahead.
LEMMA LateAfterTick ==
    ASSUME Types, Tick, NEW d \in Int, NEW limit \in Int, limit <= 0,
           LateAtMost(d, limit), stage = "select" => d >= 1
    PROVE  LateAtMost(d - 1, limit)'
<1> USE TicksAssumption DEF Types, LateAtMost
<1>1. pending' = pending /\ due' = due /\ stage' = stage
  BY DEF Tick, localVars
<1>2. CASE stage = "top"
  <2>1. busy = 0 /\ busy' = 1
    BY <1>2 DEF Tick
  <2> QED BY <1>1, <1>2, <2>1
<1>3. CASE stage = "select"
  BY <1>1, <1>3
<1>4. CASE stage = "prepare"
  <2>1. busy < MaxPrepare /\ busy' = busy + 1
    BY <1>4 DEF Tick
  <2> QED BY <1>1, <1>4, <2>1
<1>5. CASE stage = "transmit"
  <2>1. busy < MaxTransmit /\ busy' = busy + 1
    BY <1>5 DEF Tick
  <2> QED BY <1>1, <1>5, <2>1
<1> QED BY <1>2, <1>3, <1>4, <1>5

\* The way into the select, into an attempt, to the transmission, and back to
\* the top of the loop.
LEMMA LateAtSelect ==
    ASSUME stage = "top", stage' = "select", UNCHANGED pending,
           NEW d \in Int, NEW limit \in Int, limit <= 0,
           LateAtMost(d, limit), d <= 0 => due'
    PROVE  LateAtMost(d, limit)'
BY DEF LateAtMost

LEMMA LateAtPrepare ==
    ASSUME stage \in {"top", "select"}, stage' = "prepare", busy' = 0,
           NEW d \in Int, NEW e \in Int, NEW limit \in Int, e >= d, LateAtMost(d, limit)
    PROVE  LateAtMost(e, limit)'
BY TicksAssumption DEF LateAtMost

LEMMA LateAtTransmit ==
    ASSUME stage = "prepare", stage' = "transmit", busy' = 0, busy \in Nat,
           NEW d \in Int, NEW limit \in Int, LateAtMost(d, limit)
    PROVE  LateAtMost(d, limit)'
BY TicksAssumption DEF LateAtMost

LEMMA LateAtTop ==
    ASSUME stage' = "top", busy' = 0, NEW d \in Int, NEW limit \in Int,
           d >= limit, d = limit => pending' # None
    PROVE  LateAtMost(d, limit)'
BY DEF LateAtMost

\* A chunk that has waited in pending_recovery since a deadline passed is not
\* sent back to the top again.
LEMMA KeptBackOnce ==
    ASSUME Types, SelectRecovery, stage' = "top", NEW d \in Int, NEW limit \in Int,
           LateAtMost(d, limit)
    PROVE  /\ d >= limit /\ pending' # None /\ busy' = 0
<1>1. /\ ~ (next_recovery = 0 /\ RecoveryAllowed(PeriodicDue))
      /\ pending' = IF pending # None THEN pending ELSE NextOf("Recovery")
      /\ busy' = 0
  BY DEF SelectRecovery, Prepare
<1>2. pending' # None
  BY <1>1, PacketTypes DEF Queued
<1>3. ~ (pending # None /\ due)
  <2> SUFFICES ASSUME pending # None, due PROVE FALSE
    OBVIOUS
  <2>1. RecoveryAllowed(due) /\ next_recovery = 0
    BY DEF SelectRecovery, RecoveryReady
  <2>2. ~ sent
    BY <2>1 DEF RecoveryAllowed
  <2> QED BY <1>1, <2>1, <2>2 DEF RecoveryAllowed
<1>4. stage = "select"
  BY DEF SelectRecovery
<1>5. d >= limit
  BY <1>3, <1>4 DEF LateAtMost
<1> QED BY <1>1, <1>2, <1>5

\* What PeriodicDue says of the two deadlines.
LEMMA DueMeans ==
    ASSUME Types
    PROVE  /\ ~ PeriodicDue => next_tx >= 1 /\ (retry # None => retry >= 1)
           /\ next_tx <= 0 => PeriodicDue
           /\ retry # None /\ retry <= 0 => PeriodicDue
           /\ PeriodicDue /\ ~ RetrySelected => next_tx <= 0
BY DEF Types, PeriodicDue, ScheduledPeriodic, RetrySelected

RetryLimit == 0 - MaxPrepare - MaxTransmit

LEMMA RetryLimitType == RetryLimit \in Int /\ RetryLimit < 0
BY TicksAssumption DEF RetryLimit

\* The regular deadline.
LEMMA NextTxLateness ==
    ASSUME Types, LateAtMost(next_tx, 0), [Next]_vars
    PROVE  LateAtMost(next_tx, 0)'
<1>0. next_tx \in Int /\ 0 \in Int /\ busy \in Nat
  BY DEF Types
<1>1. CASE UNCHANGED <<stage, busy, next_tx, pending, due>>
  BY <1>1 DEF LateAtMost
<1>2. ASSUME NEW e \in Int, next_tx' = e, LateAtMost(e, 0)' PROVE LateAtMost(next_tx, 0)'
  BY <1>2 DEF LateAtMost
<1>3. CASE Tick
  <2>1. PICK d \in Int : /\ next_tx = d /\ next_tx' = d - 1 /\ LateAtMost(d, 0)
                         /\ stage = "select" => d >= 1
    BY <1>0, <1>3, DueMeans DEF Tick, SelectReady
  <2>2. LateAtMost(d - 1, 0)' /\ d - 1 \in Int
    BY <1>0, <1>3, <2>1, LateAfterTick
  <2> QED BY <1>2, <2>1, <2>2
<1>4. ASSUME stage \in {"top", "select"}, stage' = "prepare", busy' = 0, UNCHANGED next_tx
      PROVE  LateAtMost(next_tx, 0)'
  <2>1. PICK d \in Int : next_tx = d /\ next_tx' = d /\ LateAtMost(d, 0)
    BY <1>0, <1>4
  <2>2. LateAtMost(d, 0)'
    BY <1>0, <1>4, <2>1, LateAtPrepare
  <2> QED BY <1>2, <2>1, <2>2
<1>5. CASE TakeDeferred
  BY <1>4, <1>5 DEF TakeDeferred, Prepare, timeVars
<1>6. CASE EnterSelect
  <2>1. PICK d \in Int : next_tx = d /\ next_tx' = d /\ LateAtMost(d, 0)
    BY <1>0, <1>6 DEF EnterSelect, timeVars
  <2>2. LateAtMost(d, 0)'
    BY <1>0, <1>6, <2>1, LateAtSelect, DueMeans DEF EnterSelect, localVars
  <2> QED BY <1>2, <2>1, <2>2
<1>7. ASSUME NEW s \in Answer, SelectAnswer(s) PROVE LateAtMost(next_tx, 0)'
  BY <1>4, <1>7 DEF SelectAnswer, Prepare, timeVars
<1>8. CASE SelectRecovery
  <2>1. CASE stage' = "prepare"
    BY <1>4, <1>8, <2>1 DEF SelectRecovery, Prepare, timeVars
  <2>2. CASE stage' = "top"
    <3>1. PICK d \in Int : next_tx = d /\ next_tx' = d /\ LateAtMost(d, 0)
      BY <1>0, <1>8 DEF SelectRecovery, timeVars
    <3>2. LateAtMost(d, 0)'
      BY <1>0, <1>8, <2>2, <3>1, KeptBackOnce, LateAtTop
    <3> QED BY <1>2, <3>1, <3>2
  <2> QED BY <1>8, <2>1, <2>2 DEF SelectRecovery, Prepare
<1>9. ASSUME NEW e \in 1 .. Interval, next_tx' = e, stage' = "top", busy' = 0
      PROVE  LateAtMost(next_tx, 0)'
  <2>1. e \in Int /\ e >= 1
    BY <1>9, TicksAssumption
  <2>2. LateAtMost(e, 0)'
    BY <1>0, <1>9, <2>1, LateAtTop
  <2> QED BY <1>2, <1>9, <2>1, <2>2
<1>10. CASE SelectPeriodic
  <2> DEFINE deadline == IF RetrySelected THEN next_tx ELSE next_tx + Interval
  <2>1. deadline \in Int /\ deadline <= Interval /\ deadline >= next_tx
    BY <1>0, <1>10, DueMeans, TicksAssumption DEF SelectPeriodic, Types
  <2>2. CASE Prepare(PeriodicPacket) /\ next_tx' = deadline
    <3>1. PICK d, e \in Int : next_tx = d /\ LateAtMost(d, 0) /\ next_tx' = e /\ e >= d
      BY <1>0, <2>1, <2>2
    <3>2. LateAtMost(e, 0)'
      BY <1>0, <1>10, <2>2, <3>1, LateAtPrepare DEF SelectPeriodic, Prepare
    <3> QED BY <1>2, <3>1, <3>2
  <2>3. CASE next_tx' = AdvancedDeadline(deadline) /\ stage' = "top" /\ busy' = 0
    BY <1>9, <2>1, <2>3, AdvancedIsNext
  <2> QED BY <1>10, <2>2, <2>3 DEF SelectPeriodic
<1>11. CASE SelectSignal
  <2>1. next_tx' = next_tx /\ next_tx \in 1 .. Interval
    BY <1>0, <1>11, DueMeans, TicksAssumption DEF SelectSignal, timeVars, Types
  <2> QED BY <1>4, <1>9, <1>11, <2>1 DEF SelectSignal, Prepare
<1>12. ASSUME Transmit, UNCHANGED next_tx PROVE LateAtMost(next_tx, 0)'
  <2>1. PICK d \in Int : next_tx = d /\ next_tx' = d /\ LateAtMost(d, 0)
    BY <1>0, <1>12
  <2>2. LateAtMost(d, 0)'
    BY <1>0, <1>12, <2>1, LateAtTransmit DEF Transmit
  <2> QED BY <1>2, <2>1, <2>2
<1>13. CASE Proceed \/ PreemptByRecovery \/ \E s \in Answer : PreemptByAnswer(s)
  BY <1>12, <1>13 DEF Proceed, PreemptByRecovery, PreemptByAnswer, timeVars
<1>14. CASE FinishAttempt
  <2>1. AdvancedDeadline(next_tx) \in 1 .. Interval
    BY <1>0, AdvancedIsNext DEF Types
  <2> QED BY <1>9, <1>14, <2>1 DEF FinishAttempt
<1> QED BY <1>1, <1>3, <1>5, <1>6, <1>7, <1>8, <1>10, <1>11, <1>13, <1>14, ProducerTypes
        DEF Next, Task, Select, Attempt, PrepareFails, TransmitEnds, localVars, timeVars

\* The retry of a displaced periodic packet.
RetryLate == retry # None => LateAtMost(retry, RetryLimit)

LEMMA RetryLateness ==
    ASSUME Types, Lateness, [Next]_vars
    PROVE  RetryLate'
<1>0. retry \in Int \cup {None} /\ busy \in Nat /\ RetryLate
  BY DEF Types, Lateness, RetryLate, RetryLimit
<1>1. CASE UNCHANGED <<stage, busy, retry, pending, due>>
  BY <1>0, <1>1 DEF RetryLate, LateAtMost
<1>2. ASSUME NEW e \in Int, retry' = e, LateAtMost(e, RetryLimit)' PROVE RetryLate'
  BY <1>2 DEF RetryLate, LateAtMost, RetryLimit
<1>3. CASE retry' = None
  BY <1>3 DEF RetryLate
<1>5. CASE Tick /\ retry' # None
  <2>1. retry # None /\ retry \in Int /\ retry' = retry - 1
    BY <1>0, <1>5 DEF Tick
  <2>2. PICK d \in Int : /\ retry = d /\ retry' = d - 1 /\ LateAtMost(d, RetryLimit)
                         /\ stage = "select" => d >= 1
    BY <1>0, <1>5, <2>1, DueMeans DEF Tick, SelectReady, RetryLate
  <2>3. LateAtMost(d - 1, RetryLimit)' /\ d - 1 \in Int
    BY <1>5, <2>2, LateAfterTick, RetryLimitType
  <2> QED BY <1>2, <2>2, <2>3
<1>6. ASSUME stage \in {"top", "select"}, stage' = "prepare", busy' = 0, UNCHANGED retry
      PROVE  RetryLate'
  <2> SUFFICES ASSUME retry' # None PROVE RetryLate'
    BY <1>3
  <2>1. PICK d \in Int : retry' = d /\ LateAtMost(d, RetryLimit)
    BY <1>0, <1>6 DEF RetryLate
  <2>2. LateAtMost(d, RetryLimit)'
    BY <1>6, <2>1, LateAtPrepare, RetryLimitType
  <2> QED BY <1>2, <2>1, <2>2
<1>7. CASE TakeDeferred
  BY <1>6, <1>7 DEF TakeDeferred, Prepare, timeVars
<1>8. CASE EnterSelect /\ retry' # None
  <2>1. PICK d \in Int : retry = d /\ retry' = d /\ LateAtMost(d, RetryLimit)
    BY <1>0, <1>8 DEF RetryLate, EnterSelect, timeVars
  <2>2. LateAtMost(d, RetryLimit)'
    BY <1>8, <2>1, LateAtSelect, DueMeans, RetryLimitType DEF EnterSelect, localVars
  <2> QED BY <1>2, <2>1, <2>2
<1>9. ASSUME NEW s \in Answer, SelectAnswer(s) PROVE RetryLate'
  BY <1>6, <1>9 DEF SelectAnswer, Prepare, timeVars
<1>10. CASE SelectRecovery /\ retry' # None
  <2>1. CASE stage' = "prepare"
    BY <1>6, <1>10, <2>1 DEF SelectRecovery, Prepare, timeVars
  <2>2. CASE stage' = "top"
    <3>1. PICK d \in Int : retry' = d /\ LateAtMost(d, RetryLimit)
      BY <1>0, <1>10 DEF RetryLate, SelectRecovery, timeVars
    <3>2. d >= RetryLimit /\ pending' # None /\ busy' = 0
      BY <1>10, <2>2, <3>1, KeptBackOnce, RetryLimitType
    <3>3. LateAtMost(d, RetryLimit)'
      BY <2>2, <3>2, LateAtTop, RetryLimitType
    <3> QED BY <1>2, <3>1, <3>3
  <2> QED BY <1>10, <2>1, <2>2 DEF SelectRecovery, Prepare
<1>11. ASSUME NEW e \in Int, e > RetryLimit, retry' = e, stage' = "top", busy' = 0
       PROVE  RetryLate'
  <2>1. LateAtMost(e, RetryLimit)'
    BY <1>11, LateAtTop, RetryLimitType
  <2> QED BY <1>2, <1>11, <2>1
<1>12. CASE SelectPeriodic
  BY <1>3, <1>12 DEF SelectPeriodic
<1>13. CASE SelectSignal /\ retry' # None
  <2>1. retry' = retry /\ retry \in Int /\ retry > RetryLimit
    BY <1>0, <1>13, DueMeans, RetryLimitType DEF SelectSignal, timeVars
  <2> QED BY <1>6, <1>11, <1>13, <2>1 DEF SelectSignal, Prepare
<1>14. ASSUME Transmit, UNCHANGED retry, retry' # None PROVE RetryLate'
  <2>1. PICK d \in Int : retry' = d /\ LateAtMost(d, RetryLimit)
    BY <1>0, <1>14 DEF RetryLate
  <2>2. LateAtMost(d, RetryLimit)'
    BY <1>0, <1>14, <2>1, LateAtTransmit, RetryLimitType DEF Transmit
  <2> QED BY <1>2, <2>1, <2>2
<1>15. CASE Proceed \/ PreemptByRecovery \/ \E s \in Answer : PreemptByAnswer(s)
  BY <1>3, <1>14, <1>15 DEF Proceed, PreemptByRecovery, PreemptByAnswer, timeVars
<1>16. CASE (PrepareFails \/ TransmitEnds) /\ retry' # None
  <2>1. FinishAttempt /\ stage' = "top" /\ busy' = 0 /\ Attempting
    BY <1>16 DEF PrepareFails, TransmitEnds, FinishAttempt, Attempting
  <2>2. CASE retry' = Gap
    BY <1>11, <2>1, <2>2, TicksAssumption, RetryLimitType
  <2>3. CASE retry' # Gap
    <3>1. /\ retry' = retry /\ retry \in Int
          /\ envelope.source # "Periodic" => retry > 0
      BY <1>0, <1>16, <2>1, <2>3 DEF FinishAttempt
    <3>2. CASE envelope.source # "Periodic"
      BY <1>11, <2>1, <3>1, <3>2, RetryLimitType
    <3>3. CASE envelope.source = "Periodic"
      <4>1. retry > RetryLimit
        <5>1. /\ RetryIsFresh /\ retry # None
              /\ stage = "prepare" => busy <= MaxPrepare
              /\ stage = "transmit" => busy <= MaxTransmit
          BY <1>16, <2>1, <3>1, <3>3 DEF Lateness, LateAtMost
        <5>2. CASE stage = "prepare"
          BY <1>0, <3>1, <5>1, <5>2, TicksAssumption DEF RetryIsFresh, RetryLimit
        <5>3. CASE stage = "transmit"
          BY <1>0, <3>1, <5>1, <5>3, TicksAssumption DEF RetryIsFresh, RetryLimit
        <5> QED BY <2>1, <5>2, <5>3 DEF Attempting
      <4> QED BY <1>11, <2>1, <3>1, <4>1
    <3> QED BY <3>2, <3>3
  <2> QED BY <2>2, <2>3
<1> QED BY <1>1, <1>3, <1>5, <1>7, <1>8, <1>9, <1>10, <1>12, <1>13, <1>15, <1>16,
           ProducerTypes
        DEF Next, Task, Select, Attempt, localVars, timeVars

\* A periodic packet under way used up its retry, or is that of a roll signal.
LEMMA FreshKept ==
    ASSUME Types, Lateness, [Next]_vars, Attempting', envelope'.source = "Periodic"
    PROVE  RetryIsFresh'
<1>0. retry \in Int \cup {None} /\ busy \in Nat
  BY DEF Types
<1>1. CASE UNCHANGED <<stage, busy, retry, envelope>>
  BY <1>1 DEF Lateness, RetryIsFresh, Attempting
<1>2. CASE Tick
  <2>1. stage' = stage /\ envelope' = envelope /\ Attempting /\ RetryIsFresh
    BY <1>2 DEF Tick, attemptVars, Attempting, Lateness
  <2>2. busy' = busy + 1 /\ retry' = IF retry = None THEN None ELSE retry - 1
    BY <1>2, <2>1 DEF Tick, Attempting
  <2>3. CASE retry = None
    BY <2>2, <2>3 DEF RetryIsFresh
  <2>4. CASE retry # None
    <3>1. retry' + busy' = retry + busy
      BY <1>0, <2>2, <2>4
    <3> QED BY <2>1, <2>4, <3>1 DEF RetryIsFresh
  <2> QED BY <2>3, <2>4
<1>3. CASE SelectPeriodic
  BY <1>3 DEF SelectPeriodic, RetryIsFresh
<1>4. CASE SelectSignal
  BY <1>0, <1>4, DueMeans
     DEF SelectSignal, Prepare, Attempting, RetryIsFresh, timeVars
<1>5. CASE Proceed
  <2>1. /\ UNCHANGED <<retry, envelope>> /\ RetryIsFresh /\ busy <= MaxPrepare
        /\ stage = "prepare" /\ stage' = "transmit" /\ busy' = 0
    BY <1>5 DEF Proceed, Transmit, attemptVars, timeVars, Lateness, LateAtMost, Attempting
  <2>2. retry # None => retry >= 1 - MaxPrepare
    BY <1>0, <2>1, TicksAssumption DEF RetryIsFresh
  <2> QED BY <1>0, <2>1, <2>2, TicksAssumption DEF RetryIsFresh
<1>6. CASE TakeDeferred \/ EnterSelect
  BY <1>6 DEF TakeDeferred, EnterSelect, Prepare, Attempting, Types
<1>7. CASE \E s \in Answer : SelectAnswer(s) \/ PreemptByAnswer(s)
  BY <1>7, PacketTypes, Ranks DEF SelectAnswer, PreemptByAnswer, Prepare, Queued
<1>8. CASE SelectRecovery \/ PreemptByRecovery
  BY <1>8, PacketTypes
     DEF SelectRecovery, PreemptByRecovery, Prepare, Types, Queued, Attempting
<1>9. CASE FinishAttempt
  BY <1>9 DEF FinishAttempt, Attempting
<1> QED BY <1>1, <1>2, <1>3, <1>4, <1>5, <1>6, <1>7, <1>8, <1>9, ProducerTypes
        DEF Next, Task, Select, Attempt, PrepareFails, TransmitEnds, attemptVars, timeVars

LEMMA LatenessKept ==
    ASSUME Types, Lateness, [Next]_vars
    PROVE  Lateness'
BY NextTxLateness, RetryLateness, FreshKept DEF Lateness, RetryLate, RetryLimit

-----------------------------------------------------------------------------
(* The turns of the chunks.                                                *)

\* A second chunk is neither selected nor put before a periodic packet while one
\* waits for a periodic packet that is due.
LEMMA NoSecondChunk ==
    ASSUME Types, DeferredChunk, ChunkDeferred
    PROVE  ~ SelectRecovery /\ ~ SelectSignal /\ ~ PreemptByRecovery
<1>1. ~ SelectRecovery
  BY DEF DeferredChunk, SelectRecovery, RecoveryReady, RecoveryAllowed
<1>2. ~ SelectSignal
  BY DEF DeferredChunk, SelectSignal
<1>3. ~ PreemptByRecovery
  BY DEF DeferredChunk, PreemptByRecovery, HigherRecovery, RecoveryAllowed, Transmit
<1> QED BY <1>1, <1>2, <1>3

\* Nor is a chunk taken after one that cost a slot, until the retry is used up.
LEMMA NoChunkOwed ==
    ASSUME Types, OwedRetry, owed
    PROVE  /\ SelectRecovery => stage' = "top"
           /\ ~ PreemptByRecovery
<1>1. ~ PreemptByRecovery
  BY DEF OwedRetry, PreemptByRecovery, HigherRecovery, RecoveryAllowed
<1>2. ASSUME SelectRecovery, stage' # "top" PROVE FALSE
  <2>1. stage = "select" /\ next_recovery = 0 /\ RecoveryAllowed(PeriodicDue)
    BY <1>2 DEF SelectRecovery
  <2>2. sent /\ retry # None /\ retry <= 0
    BY <2>1 DEF OwedRetry, Attempting
  <2>3. PeriodicDue
    BY <2>2, DueMeans
  <2> QED BY <2>1, <2>2, <2>3 DEF RecoveryAllowed
<1> QED BY <1>1, <1>2

LEMMA DeferredChunkKept ==
    ASSUME Types, DeferredChunk, OwedRetry, [Next]_vars
    PROVE  DeferredChunk'
<1> SUFFICES ASSUME ChunkDeferred' PROVE DeferredChunk'
  BY DEF DeferredChunk
<1>0. PeriodicDue' = PeriodicDue \/ ~ UNCHANGED <<next_tx, retry>>
  BY DEF PeriodicDue, ScheduledPeriodic, RetrySelected
<1>1. CASE UNCHANGED <<stage, envelope, deferred, sent, due, owed, next_tx, retry>>
  BY <1>0, <1>1 DEF DeferredChunk, ChunkDeferred, Attempting
<1>2. CASE Tick
  <2>1. /\ UNCHANGED <<stage, envelope, deferred, sent, due, owed>>
        /\ stage = "select" => ~ PeriodicDue
    BY <1>2 DEF Tick, SelectReady, attemptVars, localVars, historyVars
  <2> QED BY <2>1 DEF DeferredChunk, ChunkDeferred, Attempting
<1>3. CASE TakeDeferred
  BY <1>3 DEF TakeDeferred, ChunkDeferred
<1>4. CASE EnterSelect
  <2>1. /\ ChunkDeferred /\ ~ owed' /\ stage' = "select" /\ due' = PeriodicDue
        /\ sent' = sent /\ UNCHANGED <<next_tx, retry>>
    BY <1>4 DEF EnterSelect, localVars, historyVars, timeVars, ChunkDeferred, DeferredChunk
  <2>2. sent /\ PeriodicDue
    BY <1>4, <2>1 DEF EnterSelect, ChunkDeferred, DeferredBlocked, RecoveryAllowed, Types
  <2> QED BY <1>0, <2>1, <2>2 DEF DeferredChunk, Attempting
<1>5. ASSUME NEW s \in Answer, SelectAnswer(s) PROVE DeferredChunk'
  <2>1. /\ ChunkDeferred /\ ~ owed' /\ stage = "select" /\ stage' = "prepare"
        /\ sent' = sent /\ envelope' = NextOf(s)
    BY <1>5 DEF SelectAnswer, Prepare, localVars, historyVars, ChunkDeferred, DeferredChunk
  <2> QED BY <2>1, PacketTypes, Ranks DEF DeferredChunk, Queued
<1>6. CASE SelectRecovery \/ SelectSignal
  BY <1>6, NoSecondChunk DEF SelectRecovery, SelectSignal, localVars, ChunkDeferred
<1>7. CASE SelectPeriodic
  <2>1. ChunkDeferred /\ stage = "select" /\ ~ owed /\ sent
    BY <1>7 DEF SelectPeriodic, ChunkDeferred, DeferredChunk
  <2>2. CASE Prepare(PeriodicPacket) /\ UNCHANGED <<sent, owed>>
    BY <2>1, <2>2, PacketTypes DEF Prepare, DeferredChunk
  <2>3. CASE owed' = FALSE /\ stage' = "top" /\ busy' = 0
    BY <2>3 DEF DeferredChunk, Attempting
  <2> QED BY <1>7, <2>2, <2>3 DEF SelectPeriodic
<1>8. CASE Proceed
  BY <1>8 DEF Proceed, Transmit, attemptVars, localVars, historyVars, DeferredChunk,
              ChunkDeferred, Attempting
<1>9. ASSUME NEW s \in Answer, PreemptByAnswer(s) PROVE DeferredChunk'
  <2>1. /\ Attempting /\ envelope' = NextOf(s) /\ owed' = owed /\ stage' = "transmit"
        /\ deferred' = IF envelope.source = "Periodic" THEN deferred ELSE envelope
    BY <1>9 DEF PreemptByAnswer, Transmit, KeepPreempted, Attempting
  <2>2. ~ owed
    BY <2>1 DEF DeferredChunk, ChunkDeferred, OwedRetry
  <2> QED BY <2>1, <2>2, PacketTypes, Ranks DEF DeferredChunk, Queued
<1>10. CASE PreemptByRecovery
  <2>1. deferred' = deferred
    BY <1>10 DEF PreemptByRecovery, HigherRecovery, KeepPreempted
  <2> QED BY <1>10, <2>1, NoSecondChunk DEF ChunkDeferred
<1>11. CASE PrepareFails \/ TransmitEnds
  <2>1. FinishAttempt /\ Attempting
    BY <1>11 DEF PrepareFails, TransmitEnds, Attempting
  <2>2. ChunkDeferred /\ envelope.source # "Recovery"
    BY <2>1 DEF FinishAttempt, ChunkDeferred, DeferredChunk
  <2> QED BY <2>1, <2>2 DEF FinishAttempt, DeferredChunk, Attempting
<1> QED BY <1>1, <1>2, <1>3, <1>4, <1>5, <1>6, <1>7, <1>8, <1>9, <1>10, <1>11,
           ProducerTypes
        DEF Next, Task, Select, Attempt, attemptVars, localVars, timeVars, historyVars

LEMMA OwedRetryKept ==
    ASSUME Types, DeferredChunk, OwedRetry, [Next]_vars
    PROVE  OwedRetry'
<1> SUFFICES ASSUME owed' PROVE OwedRetry'
  BY DEF OwedRetry
<1>1. CASE UNCHANGED <<stage, envelope, sent, owed, retry, next_recovery>>
  BY <1>1 DEF OwedRetry, Attempting
<1>2. CASE Tick
  <2>1. UNCHANGED <<stage, envelope, sent, owed>>
    BY <1>2 DEF Tick, attemptVars, localVars, historyVars
  <2>2. CASE Attempting
    BY <2>1, <2>2 DEF OwedRetry, Attempting
  <2>3. CASE ~ Attempting
    <3>1. retry # None /\ retry \in Int /\ next_recovery \in Nat /\ retry <= next_recovery
      BY <2>1, <2>3 DEF OwedRetry, Types
    <3>2. /\ retry' = retry - 1
          /\ next_recovery' = IF next_recovery = 0 THEN 0 ELSE next_recovery - 1
      BY <1>2, <3>1 DEF Tick
    <3>3. retry' # None /\ retry' <= next_recovery'
      BY <3>1, <3>2, NoneAssumption
    <3> QED BY <2>1, <2>3, <3>3 DEF OwedRetry, Attempting
  <2> QED BY <2>2, <2>3
<1>3. CASE TakeDeferred
  BY <1>3 DEF TakeDeferred, Prepare, historyVars, OwedRetry, DeferredChunk, ChunkDeferred,
              Attempting
<1>4. CASE EnterSelect
  BY <1>4 DEF EnterSelect, historyVars, localVars, timeVars, OwedRetry, Attempting
<1>5. ASSUME NEW s \in Answer, SelectAnswer(s) PROVE OwedRetry'
  BY <1>5, PacketTypes, Ranks
     DEF SelectAnswer, Prepare, localVars, historyVars, OwedRetry, Attempting, Queued
<1>6. CASE SelectRecovery
  <2>1. /\ owed /\ sent' = sent /\ UNCHANGED <<retry, next_recovery>> /\ stage = "select"
    BY <1>6 DEF SelectRecovery, historyVars, timeVars
  <2>2. stage' = "top"
    BY <1>6, <2>1, NoChunkOwed
  <2> QED BY <2>1, <2>2 DEF OwedRetry, Attempting
<1>7. CASE SelectPeriodic
  <2>1. Prepare(PeriodicPacket) /\ UNCHANGED <<sent, owed>>
    BY <1>7 DEF SelectPeriodic
  <2> QED BY <2>1, PacketTypes DEF Prepare, OwedRetry, Attempting
<1>8. CASE SelectSignal
  BY <1>8, PacketTypes
     DEF SelectSignal, Prepare, localVars, historyVars, timeVars, OwedRetry, Attempting
<1>9. CASE Proceed
  BY <1>9 DEF Proceed, Transmit, attemptVars, localVars, historyVars, OwedRetry, Attempting
<1>10. ASSUME NEW s \in Answer, PreemptByAnswer(s) PROVE OwedRetry'
  BY <1>10, PacketTypes, Ranks DEF PreemptByAnswer, Transmit, OwedRetry, Attempting, Queued
<1>11. CASE PreemptByRecovery
  BY <1>11, NoChunkOwed DEF PreemptByRecovery
<1>12. CASE PrepareFails \/ TransmitEnds
  <2>1. FinishAttempt
    BY <1>12 DEF PrepareFails, TransmitEnds
  <2>2. /\ envelope.source = "Recovery" /\ retry' = Gap /\ next_recovery' = Gap
        /\ sent' = FairnessAfter(envelope.source) /\ stage' = "top"
    BY <2>1 DEF FinishAttempt
  <2>3. sent'
    BY <2>2 DEF FairnessAfter
  <2> QED BY <2>2, <2>3, TicksAssumption, NoneAssumption DEF OwedRetry, Attempting
<1> QED BY <1>1, <1>2, <1>3, <1>4, <1>5, <1>6, <1>7, <1>8, <1>9, <1>10, <1>11, <1>12,
           ProducerTypes
        DEF Next, Task, Select, Attempt, attemptVars, localVars, timeVars, historyVars

-----------------------------------------------------------------------------
(* The invariants of the scheduler.                                        *)

LEMMA SchedulerIInvInit == Init => SchedulerIInv
<1> SUFFICES ASSUME Init PROVE SchedulerIInv
  OBVIOUS
<1> USE DEF Init
<1>1. Types /\ ~ Attempting
  <2>1. 0 \in 0 .. Cap /\ 0 \in Number /\ 0 \in 0 .. (Interval - 1) /\ 0 \in 0 .. Gap
    BY TicksAssumption DEF Number
  <2>2. ~ Attempting
    BY DEF Attempting
  <2>3. /\ queue \in [Queued -> 0 .. Cap]
        /\ taken \in [Queued -> Number] /\ attempted \in [Queued -> Number]
    BY <2>1
  <2>4. next_tx \in Int /\ next_tx <= Interval /\ slots \in Int /\ busy \in Nat
    BY TicksAssumption
  <2> QED BY <2>1, <2>2, <2>3, <2>4 DEF Types
<1>2. OnGrid
  <2>1. (0 + 0) + 1 * Interval = 0 + Interval /\ (0 + 0) % Interval = 0
    BY TicksAssumption
  <2> QED BY <2>1, GridStep, TicksAssumption DEF OnGrid
<1>3. Lateness
  BY <1>1, TicksAssumption DEF Lateness, LateAtMost
<1>4. DeferredChunk /\ OwedRetry /\ OpenSlot
  BY <1>1 DEF DeferredChunk, ChunkDeferred, OwedRetry, OpenSlot
<1>5. AnswersHeld
  BY DEF AnswersHeld, HeldRight, InHand, Answer, Queued
<1> QED BY <1>1, <1>2, <1>3, <1>4, <1>5 DEF SchedulerIInv

LEMMA SchedulerIInvKept ==
    ASSUME SchedulerIInv, [Next]_vars
    PROVE  SchedulerIInv'
BY TypesKept, GridKept, LatenessKept, DeferredChunkKept, OwedRetryKept, SlotKept, HeldKept
   DEF SchedulerIInv

\* Two numbers that follow each other are one apart, around the circle too.
LEMMA NumbersApart ==
    ASSUME NEW number \in Number
    PROVE  /\ (NumberAfter(number) - number) % NumberModulus = 1
           /\ (number - number) % NumberModulus = 0
<1> USE TicksAssumption
<1>0. number \in Int /\ 0 <= number /\ number < NumberModulus
  BY DEF Number
<1>1. CASE number + 1 < NumberModulus
  <2>1. (number + 1) % NumberModulus = number + 1
    BY <1>0, <1>1
  <2>2. 1 % NumberModulus = 1
    OBVIOUS
  <2> QED BY <1>0, <2>1, <2>2 DEF NumberAfter
<1>2. CASE number + 1 = NumberModulus
  <2>1. (number + 1) % NumberModulus = 0
    BY <1>2
  <2>2. 0 - number = NumberModulus * (-1) + 1
    BY <1>0, <1>2
  <2>3. (0 - number) % NumberModulus = 1
    BY <1>0, <2>2
  <2> QED BY <1>0, <2>1, <2>3 DEF NumberAfter
<1> QED BY <1>0, <1>1, <1>2

LEMMA NothingIsLost ==
    ASSUME Types, AnswersHeld
    PROVE  NothingLost
<1> SUFFICES ASSUME NEW s \in Answer
             PROVE  Cardinality(Held(s)) = (taken[s] - attempted[s]) % NumberModulus
  BY DEF NothingLost
<1>0. /\ HeldRight(s) /\ attempted[s] \in Number /\ s \in Queued
      /\ ~ InHand(s, pending)
  BY DEF AnswersHeld, Types, Answer, Queued, InHand
<1>1. CASE InHand(s, envelope)
  <2>1. Held(s) = {envelope}
    BY <1>0, <1>1 DEF Held, HeldRight, InHand
  <2> QED BY <1>0, <1>1, <2>1, NumbersApart, FS_Singleton DEF HeldRight
<1>2. CASE ~ InHand(s, envelope) /\ InHand(s, deferred)
  <2>1. Held(s) = {deferred}
    BY <1>0, <1>2 DEF Held, InHand
  <2> QED BY <1>0, <1>2, <2>1, NumbersApart, FS_Singleton DEF HeldRight
<1>3. CASE ~ InHand(s, envelope) /\ ~ InHand(s, deferred)
  <2>1. Held(s) = {}
    BY <1>0, <1>3 DEF Held, InHand
  <2> QED BY <1>0, <1>3, <2>1, NumbersApart, FS_EmptySet DEF HeldRight
<1> QED BY <1>1, <1>2, <1>3

LEMMA DeadlinesInRange ==
    ASSUME Types, Lateness
    PROVE  /\ next_tx \in (0 - 1 - MaxPrepare - MaxTransmit) .. Interval
           /\ retry \in ((0 - 2 * (1 + MaxPrepare + MaxTransmit)) .. Gap) \cup {None}
<1> USE TicksAssumption
<1>1. /\ next_tx \in Int /\ next_tx <= Interval /\ busy \in Nat
      /\ retry # None => retry \in Int /\ retry <= Gap
      /\ stage \in {"top", "select", "prepare", "transmit"}
  BY DEF Types
<1>2. ASSUME NEW d \in Int, NEW limit \in Int, LateAtMost(d, limit)
      PROVE  d >= limit - 1 - MaxPrepare - MaxTransmit
  BY <1>1, <1>2 DEF LateAtMost
<1>3. next_tx >= 0 - 1 - MaxPrepare - MaxTransmit
  BY <1>1, <1>2 DEF Lateness
<1>4. CASE retry = None
  BY <1>1, <1>3, <1>4
<1>5. CASE retry # None
  <2>1. retry >= (0 - MaxPrepare - MaxTransmit) - 1 - MaxPrepare - MaxTransmit
    BY <1>1, <1>2, <1>5 DEF Lateness
  <2>2. retry >= 0 - 2 * (1 + MaxPrepare + MaxTransmit)
    BY <1>1, <1>5, <2>1
  <2> QED BY <1>1, <1>3, <1>5, <2>2
<1> QED BY <1>4, <1>5

LEMMA IInvImpliesInv == SchedulerIInv => SchedulerInv
<1> SUFFICES ASSUME SchedulerIInv PROVE SchedulerInv
  OBVIOUS
<1>1. Types /\ OnGrid /\ Lateness /\ OwedRetry /\ OpenSlot /\ AnswersHeld
  BY DEF SchedulerIInv
<1>2. TypeOK
  BY <1>1, DeadlinesInRange DEF TypeOK, Types, Attempting
<1>3. SlotsAccounted
  BY <1>1 DEF SlotsAccounted, OpenSlot, Attempting
<1>4. DisplacedOnce
  BY <1>1 DEF DisplacedOnce, OwedRetry, Types
<1> QED BY <1>1, <1>2, <1>3, <1>4, NothingIsLost DEF SchedulerInv

\* lora_tx_task keeps its deadlines on the grid, accounts for every regular slot,
\* gives the periodic packet its turn after a chunk that cost one, and loses no
\* answer, for every interval, gap and supply of packets.
THEOREM SlotsAndAnswersAddUp == Spec => []SchedulerInv
<1>1. Spec => []SchedulerIInv
  BY SchedulerIInvInit, SchedulerIInvKept, PTL DEF Spec
<1> QED BY <1>1, IInvImpliesInv, PTL

-----------------------------------------------------------------------------
(* What a step of the task does with the packets.                          *)

\* The answers are attempted in turn.
LEMMA AttemptedInOrder ==
    ASSUME SchedulerIInv, Next
    PROVE  InOrder
<1> SUFFICES ASSUME NEW s \in Answer
             PROVE  attempted'[s] \in {attempted[s], NumberAfter(attempted[s])}
  BY DEF InOrder
<1>0. Types /\ HeldRight(s) /\ s \in Queued
  BY DEF SchedulerIInv, AnswersHeld, Queued
<1>1. CASE PrepareFails \/ TransmitEnds
  <2>1. FinishAttempt /\ envelope # None
    BY <1>0, <1>1 DEF PrepareFails, TransmitEnds, Types, Attempting
  <2>2. attempted' = IF envelope.source = "Periodic" THEN attempted
                     ELSE [attempted EXCEPT ![envelope.source] = envelope.number]
    BY <2>1 DEF FinishAttempt
  <2>3. CASE envelope.source = s
    BY <1>0, <2>1, <2>2, <2>3 DEF HeldRight, InHand, Types
  <2>4. CASE envelope.source # s
    BY <1>0, <2>2, <2>4 DEF Types
  <2> QED BY <2>3, <2>4
<1>2. CASE ~ (PrepareFails \/ TransmitEnds)
  <2>1. attempted' = attempted
    BY <1>2
       DEF Next, Produce, SignalControlRoll, Tick, Task, TakeDeferred, EnterSelect,
           Select, SelectAnswer, SelectRecovery, SelectPeriodic, SelectSignal,
           Attempt, Proceed, PreemptByAnswer, PreemptByRecovery, TakeFrom, queueVars
  <2> QED BY <2>1
<1> QED BY <1>1, <1>2

\* A packet the task still has somewhere is held.
LEMMA StillHeld ==
    ASSUME NEW s, NEW packet \in Held(s), packet \in {envelope', deferred', pending'}
    PROVE  packet \in Held(s)'
BY DEF Held

\* A packet leaves the task's hands by being attempted; only a chunk is overwritten.
LEMMA PacketsMoveOn ==
    ASSUME SchedulerIInv, Next, NEW s \in Queued, NEW packet \in Held(s),
           packet \notin Held(s)'
    PROVE  \/ packet = envelope /\ attempted'[s] = packet.number
           \/ Overwritten(packet)
<1>0. /\ Types /\ DeferredChunk /\ packet \in {envelope, deferred, pending}
      /\ packet # None /\ packet.source = s /\ s # "Periodic"
      /\ stage \in {"select", "prepare"} => deferred = None \/ ChunkDeferred
  BY DEF SchedulerIInv, Held, Queued, Answer, AnswersHeld
<1>1. packet \notin {envelope', deferred', pending'}
  BY StillHeld
<1>2. envelope # None => Attempting
  BY <1>0 DEF Types
<1>3. CASE PrepareFails \/ TransmitEnds
  <2>1. /\ deferred' = deferred /\ pending' = pending
        /\ attempted' = IF envelope.source = "Periodic" THEN attempted
                        ELSE [attempted EXCEPT ![envelope.source] = envelope.number]
    BY <1>3 DEF PrepareFails, TransmitEnds, FinishAttempt
  <2>2. packet = envelope
    BY <1>0, <1>1, <2>1
  <2>3. attempted'[s] = packet.number
    BY <1>0, <2>1, <2>2 DEF Types
  <2> QED BY <2>2, <2>3
<1>4. ASSUME NEW other \in Answer, PreemptByAnswer(other) PROVE Overwritten(packet)
  <2>1. /\ envelope' = NextOf(other) /\ pending' = pending
        /\ deferred' = IF envelope.source = "Periodic" THEN deferred ELSE envelope
        /\ Attempting /\ stage = "prepare" /\ envelope \in PacketSet
    BY <1>0, <1>4
       DEF PreemptByAnswer, KeepPreempted, Transmit, Attempting, Types
  <2>2. envelope.source # "Periodic" /\ deferred' = envelope
    BY <1>0, <1>1, <2>1
  <2>3. packet = deferred /\ ChunkDeferred
    BY <1>0, <1>1, <2>1, <2>2
  <2>4. envelope.source \in Answer
    BY <1>0, <2>1, <2>2, <2>3, SourceCases DEF DeferredChunk
  <2>5. envelope'.source \in Answer
    BY <1>0, <2>1, PacketTypes DEF Queued
  <2> QED BY <2>2, <2>3, <2>4, <2>5 DEF Overwritten, ChunkDeferred
<1>5. CASE PreemptByRecovery
  <2>1. /\ envelope.source = "Periodic" /\ deferred' = deferred
        /\ pending' = pending \/ envelope' = pending
    BY <1>5 DEF PreemptByRecovery, HigherRecovery, KeepPreempted
  <2> QED BY <1>0, <1>1, <2>1
<1>6. CASE Proceed \/ Tick \/ SignalControlRoll \/ EnterSelect
           \/ \E other \in Queued : Produce(other)
  BY <1>0, <1>1, <1>6
     DEF Proceed, Tick, SignalControlRoll, EnterSelect, Produce, attemptVars, localVars
<1>7. CASE TakeDeferred
  <2>1. envelope = None /\ envelope' = deferred /\ pending' = pending
    BY <1>2, <1>7 DEF TakeDeferred, Prepare, Attempting
  <2> QED BY <1>0, <1>1, <2>1
<1>8. CASE Select
  <2>1. /\ envelope = None /\ deferred' = deferred
        /\ pending' = pending \/ (pending # None /\ envelope' = pending) \/ pending = None
    BY <1>2, <1>8
       DEF Select, SelectAnswer, SelectRecovery, SelectPeriodic, SelectSignal, Prepare,
           Attempting, localVars
  <2> QED BY <1>0, <1>1, <2>1
<1> QED BY <1>3, <1>4, <1>5, <1>6, <1>7, <1>8 DEF Next, Task, Attempt

\* What lora_tx_task takes from a queue it attempts, in the order of the queue;
\* a deferred chunk is the only packet an answer may push out.
THEOREM TakenPacketsAreAttempted == Spec => HandedOnAlways
<1>1. Spec => []SchedulerIInv
  BY SchedulerIInvInit, SchedulerIInvKept, PTL DEF Spec
<1>2. SchedulerIInv /\ [Next]_vars => [HandedOn]_vars
  BY AttemptedInOrder, PacketsMoveOn DEF HandedOn
<1> QED BY <1>1, <1>2, PTL DEF Spec, HandedOnAlways

\* take_higher_priority_envelope leaves no answer behind that ranks higher than
\* the packet the transmission starts with.
THEOREM HighestGoesFirst == Spec => HighestFirstAlways
<1>1. Spec => []SchedulerIInv
  BY SchedulerIInvInit, SchedulerIInvKept, PTL DEF Spec
<1>2. ASSUME SchedulerIInv, Next, stage' = "transmit", stage # "transmit"
      PROVE  \A s \in Answer : Rank(s) > Rank(envelope'.source) => queue[s] = 0
  <2>0. Types /\ \A s \in Answer : s \in Queued /\ queue[s] \in Nat
    BY <1>2, TicksAssumption DEF SchedulerIInv, Types, Queued
  <2>1. CASE Proceed
    BY <2>0, <2>1 DEF Proceed, HigherAnswer, attemptVars
  <2>2. ASSUME NEW other \in Answer, PreemptByAnswer(other)
        PROVE  \A s \in Answer : Rank(s) > Rank(envelope'.source) => queue[s] = 0
    BY <2>0, <2>2, PacketTypes DEF PreemptByAnswer, NothingAbove
  <2>3. CASE PreemptByRecovery
    BY <2>0, <2>3, Ranks DEF PreemptByRecovery, HigherRecovery, HigherAnswer
  <2>4. Proceed \/ PreemptByRecovery \/ \E other \in Answer : PreemptByAnswer(other)
    BY <1>2
       DEF Next, Produce, SignalControlRoll, Tick, Task, TakeDeferred, EnterSelect,
           Select, SelectAnswer, SelectRecovery, SelectPeriodic, SelectSignal, Prepare,
           Attempt, PrepareFails, TransmitEnds, FinishAttempt
  <2> QED BY <2>1, <2>2, <2>3, <2>4
<1>3. SchedulerIInv /\ [Next]_vars => [HighestFirst]_vars
  BY <1>2 DEF HighestFirst
<1> QED BY <1>1, <1>3, PTL DEF Spec, HighestFirstAlways
=============================================================================
