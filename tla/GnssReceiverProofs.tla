------------------------- MODULE GnssReceiverProofs -------------------------
(***************************************************************************)
(* Proofs about the GNSS receiver, for every capacity of its queues, every *)
(* limit and period in ticks and every number of settings: ReceiverInv and *)
(* LateIsQuietAlways.                                                      *)
(*                                                                         *)
(* ReceiverInv alone is not inductive.  What the manager is doing tells    *)
(* which order it works on and what its own flag and the state are         *)
(* meanwhile (OrderFollowed, StageAgrees); every age that ends something   *)
(* is bounded by what is left until the next turn of the ticker (InTime);  *)
(* and since no time passes while a sentence is held, what is old or late  *)
(* is so in the very tick in which the receiver was switched (OldIsSilent, *)
(* LateInTick).                                                            *)
(***************************************************************************)
EXTENDS GnssReceiver, SequenceTheorems, TLAPS

\* The last order in the queue, or else the one the manager works on or has carried
\* out, is the one that was asked for last.
OrderFollowed ==
    IF cmds # <<>> THEN asked = cmds[Len(cmds)]
    ELSE (asked = "TurnOff") = (stage = "turningOff" \/ (stage = "idle" /\ state = "Off"))

\* The manager's flag and the state at each stage.
StageAgrees ==
    /\ stage = "idle" => is_on = (state \notin {"Off", "ConfigurationFailed"})
    /\ stage = "starting" => ~ is_on /\ state \in {"Off", "ConfigurationFailed"}
    /\ stage \in {"startup", "config", "failing"} =>
           ~ is_on /\ state \notin {"Off", "ConfigurationFailed"}
    /\ stage = "turningOff" => ~ is_on

\* A fix and a time are found stale by the next turn of the ticker.
InTime ==
    /\ (position = "ValidFix") = (state = "ValidFix")
    /\ state = "ValidFix" => fix_age + due < Stale + Period
    /\ valid => time_age + due < Stale + Period

\* The parser keeps no sentence that it makes nothing of.
HeldIsOfUse == held # None => held.of # "Other"

\* What remains from before the last start.
IsOld(sentence) == sentence # None /\ sentence.old

SomeOld == IsOld(held) \/ \E i \in DOMAIN lines : lines[i].old

\* Old sentences are only there while the state keeps them off; a receiver that has
\* just been started has not aged yet.
OldIsSilent ==
    SomeOld =>
        /\ state \in Silent
        /\ state = "Starting" =>
               /\ started_age = 0
               /\ \/ stage = "failing"
                  \/ stage = "startup" /\ waited = 0

\* A sentence is held, and a time it gives published, in the tick of the switching
\* off at the latest.
LateInTick ==
    state = "Off" =>
        /\ held # None => off_age = 0
        /\ valid => time_age >= off_age

\* The inductive invariant.
ReceiverIInv ==
    /\ TypeOK /\ OrderFollowed /\ StageAgrees /\ InTime
    /\ HeldIsOfUse /\ OldIsSilent /\ LateInTick

-----------------------------------------------------------------------------
(* Queues and ages.                                                        *)

\* What a queue holds after one more has been put into it.
LEMMA Appended ==
    ASSUME NEW S, NEW q \in Seq(S), NEW x \in S
    PROVE  /\ Append(q, x) \in Seq(S) /\ Append(q, x) # <<>>
           /\ Len(q) \in Nat /\ Len(Append(q, x)) = Len(q) + 1
           /\ Append(q, x)[Len(q) + 1] = x
           /\ \A i \in DOMAIN Append(q, x) :
                 Append(q, x)[i] = x \/ (i \in DOMAIN q /\ Append(q, x)[i] = q[i])
BY AppendProperties, LenProperties

\* What a queue delivers and keeps.
LEMMA Taken ==
    ASSUME NEW S, NEW q \in Seq(S), q # <<>>
    PROVE  /\ Head(q) \in S /\ Tail(q) \in Seq(S) /\ Len(Tail(q)) <= Len(q)
           /\ 1 \in DOMAIN q /\ Head(q) = q[1]
           /\ \A i \in DOMAIN Tail(q) : i + 1 \in DOMAIN q /\ Tail(q)[i] = q[i + 1]
           /\ q[Len(q)] = IF Tail(q) = <<>> THEN Head(q) ELSE Tail(q)[Len(Tail(q))]
<1>1. /\ Len(q) \in Nat \ {0} /\ Head(q) = q[1] /\ DOMAIN q = 1 .. Len(q) /\ q[1] \in S
  BY EmptySeq, LenProperties, ElementOfSeq
<1>2. /\ Tail(q) \in Seq(S) /\ Len(Tail(q)) = Len(q) - 1
      /\ DOMAIN Tail(q) = 1 .. Len(Tail(q))
      /\ \A i \in 1 .. Len(Tail(q)) : Tail(q)[i] = q[i + 1]
  BY HeadTailProperties, LenProperties
<1>3. Tail(q) = <<>> <=> Len(Tail(q)) = 0
  BY <1>2, EmptySeq
<1> QED BY <1>1, <1>2, <1>3

\* An age that is read grows up to its limit.
LEMMA OlderAge ==
    ASSUME NEW limit \in Nat, NEW age \in 0 .. limit, NEW read \in BOOLEAN
    PROVE  /\ Older(age, read, limit) \in 0 .. limit
           /\ read => Older(age, read, limit) = IF age < limit THEN age + 1 ELSE limit
<1> DEFINE least == IF age < limit THEN age + 1 ELSE limit
<1>1. least \in {age + 1, limit} /\ \A y \in {age + 1, limit} : least <= y
  OBVIOUS
<1>2. \A x \in {age + 1, limit} : (\A y \in {age + 1, limit} : x <= y) => x = least
  OBVIOUS
<1>3. Min({age + 1, limit}) = least
  BY <1>1, <1>2 DEF Min
<1> QED BY <1>3 DEF Older

-----------------------------------------------------------------------------
(* The steps keep the invariant.                                           *)

LEMMA OrderOK ==
    ASSUME ReceiverIInv, NEW command \in GnssCommand, Order(command)
    PROVE  ReceiverIInv'
<1> USE DEF ReceiverIInv, Order, managerVars, telemetryVars, timeVars, parserVars,
        requestVars, ageVars
<1>1. TypeOK'
  BY DEF TypeOK
<1>2. OrderFollowed'
  BY DEF OrderFollowed
<1>3. StageAgrees'
  BY DEF StageAgrees
<1>4. InTime'
  BY DEF InTime
<1>5. HeldIsOfUse'
  BY DEF HeldIsOfUse
<1>6. OldIsSilent'
  BY DEF OldIsSilent, SomeOld, IsOld
<1>7. LateInTick'
  BY DEF LateInTick
<1> QED BY <1>1, <1>2, <1>3, <1>4, <1>5, <1>6, <1>7

LEMMA SendOrderOK ==
    ASSUME ReceiverIInv, SendOrder
    PROVE  ReceiverIInv'
<1> USE DEF ReceiverIInv, SendOrder, managerVars, telemetryVars, timeVars, parserVars,
        requestVars, ageVars
<1>1. TypeOK'
  <2>1. cmds \in Seq(GnssCommand) /\ sender \in GnssCommand
    BY DEF TypeOK
  <2>2. cmds' \in Seq(GnssCommand) /\ Len(cmds') <= CmdCap
    BY <2>1, Appended, ReceiverAssumption DEF TypeOK
  <2> QED BY <2>1, <2>2 DEF TypeOK
<1>2. OrderFollowed'
  <2>1. cmds' # <<>> /\ cmds'[Len(cmds')] = sender
    BY Appended DEF TypeOK
  <2> QED BY <2>1 DEF OrderFollowed
<1>3. StageAgrees'
  BY DEF StageAgrees
<1>4. InTime'
  BY DEF InTime
<1>5. HeldIsOfUse'
  BY DEF HeldIsOfUse
<1>6. OldIsSilent'
  BY DEF OldIsSilent, SomeOld, IsOld
<1>7. LateInTick'
  BY DEF LateInTick
<1> QED BY <1>1, <1>2, <1>3, <1>4, <1>5, <1>6, <1>7

LEMMA StartSequenceOK ==
    ASSUME ReceiverIInv, StartSequence
    PROVE  ReceiverIInv'
<1> USE DEF ReceiverIInv, StartSequence, TurnOn, managerVars, telemetryVars, timeVars,
        parserVars, requestVars, TakeCommand, ageVars
<1>1. TypeOK'
  <2>1. cmds \in Seq(GnssCommand) /\ "TurnOn" \in GnssCommand
    BY DEF TypeOK, GnssCommand
  <2>2. cmds' \in Seq(GnssCommand) /\ Len(cmds') <= CmdCap
    BY <2>1, Appended, ReceiverAssumption DEF TypeOK
  <2> QED BY <2>1, <2>2 DEF TypeOK
<1>2. OrderFollowed'
  <2>1. cmds' # <<>> /\ cmds'[Len(cmds')] = "TurnOn"
    BY Appended DEF TypeOK, GnssCommand
  <2> QED BY <2>1 DEF OrderFollowed
<1>3. StageAgrees'
  BY DEF StageAgrees
<1>4. InTime'
  BY DEF InTime
<1>5. HeldIsOfUse'
  BY DEF HeldIsOfUse
<1>6. OldIsSilent'
  BY DEF OldIsSilent, SomeOld, IsOld
<1>7. LateInTick'
  BY DEF LateInTick
<1> QED BY <1>1, <1>2, <1>3, <1>4, <1>5, <1>6, <1>7

LEMMA ReadLineOK ==
    ASSUME ReceiverIInv, NEW sentence \in Sentence, ReadLine(sentence)
    PROVE  ReceiverIInv'
<1> USE DEF ReceiverIInv, ReadLine, switchVars, managerVars, timeVars, requestVars
<1> DEFINE line == [of |-> sentence, old |-> FALSE]
<1>a. line \in Held /\ ~ line.old /\ lines \in Seq(Held)
  BY DEF Held, TypeOK
<1>b. /\ lines' \in Seq(Held) /\ Len(lines') <= LineCap
      /\ \A i \in DOMAIN lines' :
            lines'[i] = line \/ (i \in DOMAIN lines /\ lines'[i] = lines[i])
  <2>1. Len(lines) \in Nat /\ Len(lines) <= LineCap /\ LineCap \in Nat
    BY <1>a, LenProperties, ReceiverAssumption DEF TypeOK
  <2>2. CASE Len(lines) < LineCap
    <3>1. lines' = Append(lines, line)
      BY <2>2
    <3> HIDE DEF line, ReadLine
    <3> QED BY <1>a, <2>1, <2>2, <3>1, Appended
  <2>3. CASE ~ Len(lines) < LineCap
    <3>1. lines' = lines
      BY <2>3
    <3> QED BY <1>a, <2>1, <3>1
  <2> QED BY <2>2, <2>3
<1> HIDE DEF line
<1>1. TypeOK'
  <2>1. state' \in GnssReceiverState /\ receiver_age' \in 0 .. Stale + Period
    BY ReceiverAssumption DEF TypeOK, GnssReceiverState
  <2> QED BY <1>b, <2>1 DEF TypeOK
<1>2. OrderFollowed'
  BY DEF OrderFollowed
<1>3. StageAgrees'
  BY DEF StageAgrees
<1>4. InTime'
  BY DEF InTime
<1>5. HeldIsOfUse'
  BY DEF HeldIsOfUse
<1>6. OldIsSilent'
  <2>1. SomeOld' => SomeOld
    BY <1>a, <1>b DEF SomeOld, IsOld
  <2> QED BY <2>1 DEF OldIsSilent, StageAgrees, Silent
<1>7. LateInTick'
  BY DEF LateInTick
<1> QED BY <1>1, <1>2, <1>3, <1>4, <1>5, <1>6, <1>7

LEMMA TurnOnIgnoredOK ==
    ASSUME ReceiverIInv, TurnOnIgnored
    PROVE  ReceiverIInv'
<1> USE DEF ReceiverIInv, TurnOnIgnored, TakeCommand, TurnOn, managerVars, telemetryVars,
        timeVars, parserVars, requestVars, ageVars
<1>a. /\ cmds' \in Seq(GnssCommand) /\ Len(cmds') <= CmdCap
      /\ cmds[Len(cmds)] = IF cmds' = <<>> THEN Head(cmds) ELSE cmds'[Len(cmds')]
  <2>1. cmds \in Seq(GnssCommand) /\ Len(cmds) <= CmdCap /\ Len(cmds) \in Nat
    BY LenProperties DEF TypeOK
  <2> QED BY <2>1, Taken, ReceiverAssumption
<1>b. asked = IF cmds' = <<>> THEN Head(cmds) ELSE cmds'[Len(cmds')]
  BY <1>a DEF OrderFollowed
<1>1. TypeOK'
  BY <1>a DEF TypeOK
<1>2. OrderFollowed'
  BY <1>a, <1>b DEF OrderFollowed, StageAgrees
<1>3. StageAgrees'
  BY DEF StageAgrees
<1>4. InTime'
  BY DEF InTime
<1>5. HeldIsOfUse'
  BY DEF HeldIsOfUse
<1>6. OldIsSilent'
  BY DEF OldIsSilent, SomeOld, IsOld
<1>7. LateInTick'
  BY DEF LateInTick
<1> QED BY <1>1, <1>2, <1>3, <1>4, <1>5, <1>6, <1>7

LEMMA TurnOnOK ==
    ASSUME ReceiverIInv, TurnOn
    PROVE  ReceiverIInv'
<1> USE DEF ReceiverIInv, TurnOn, TakeCommand, telemetryVars, parserVars, requestVars,
        ageVars
<1>a. /\ cmds' \in Seq(GnssCommand) /\ Len(cmds') <= CmdCap
      /\ cmds[Len(cmds)] = IF cmds' = <<>> THEN Head(cmds) ELSE cmds'[Len(cmds')]
  <2>1. cmds \in Seq(GnssCommand) /\ Len(cmds) <= CmdCap /\ Len(cmds) \in Nat
    BY LenProperties DEF TypeOK
  <2> QED BY <2>1, Taken, ReceiverAssumption
<1>b. asked = IF cmds' = <<>> THEN Head(cmds) ELSE cmds'[Len(cmds')]
  BY <1>a DEF OrderFollowed
<1>1. TypeOK'
  BY <1>a DEF TypeOK, Stages
<1>2. OrderFollowed'
  BY <1>a, <1>b DEF OrderFollowed, StageAgrees
<1>3. StageAgrees'
  BY DEF StageAgrees
<1>4. InTime'
  BY DEF InTime
<1>5. HeldIsOfUse'
  BY DEF HeldIsOfUse
<1>6. OldIsSilent'
  BY DEF OldIsSilent, SomeOld, IsOld
<1>7. LateInTick'
  BY DEF LateInTick
<1> QED BY <1>1, <1>2, <1>3, <1>4, <1>5, <1>6, <1>7

LEMMA SetStartingOK ==
    ASSUME ReceiverIInv, SetStarting
    PROVE  ReceiverIInv'
<1> USE DEF ReceiverIInv, SetStarting, switchVars, timeVars, requestVars
<1>a. lines \in Seq(Held) /\ Len(lines) \in Nat /\ DOMAIN lines = 1 .. Len(lines)
  BY LenProperties DEF TypeOK
<1>b. \A i \in DOMAIN lines : lines[i] \in Held /\ Aged(lines[i]) \in Held
  <2>1. ASSUME NEW s \in Held PROVE Aged(s) \in Held
    BY DEF Aged, Held
  <2> QED BY <1>a, <2>1, ElementOfSeq
<1>c. lines' \in Seq(Held) /\ Len(lines') = Len(lines)
  BY <1>a, <1>b, IsASeq, LenProperties
<1>d. held # None => Aged(held) \in Held /\ Aged(held).of = held.of
  BY DEF TypeOK, Held, Aged
<1>e. held' \in Held \cup {None}
  BY <1>d
<1>1. TypeOK'
  <2>1. stage' \in Stages /\ waited' \in 0 .. Startup + AckTimeout
    BY ReceiverAssumption DEF Stages
  <2>2. started_age' \in 0 .. Stale + Period /\ state' \in GnssReceiverState
    BY ReceiverAssumption DEF GnssReceiverState
  <2> QED BY <1>c, <1>e, <2>1, <2>2 DEF TypeOK
<1>2. OrderFollowed'
  BY DEF OrderFollowed
<1>3. StageAgrees'
  BY DEF StageAgrees
<1>4. InTime'
  BY ReceiverAssumption DEF InTime, StageAgrees, TypeOK
<1>5. HeldIsOfUse'
  BY <1>d DEF HeldIsOfUse
<1>6. OldIsSilent'
  BY DEF OldIsSilent, StageAgrees, TypeOK, SomeOld, IsOld, Silent, Aged
<1>7. LateInTick'
  BY DEF LateInTick
<1> QED BY <1>1, <1>2, <1>3, <1>4, <1>5, <1>6, <1>7

LEMMA StartupOverOK ==
    ASSUME ReceiverIInv, StartupOver
    PROVE  ReceiverIInv'
<1> USE DEF ReceiverIInv, StartupOver, switchVars, telemetryVars, timeVars, parserVars,
        requestVars, ageVars
<1>1. TypeOK'
  BY ReceiverAssumption DEF TypeOK, Stages
<1>2. OrderFollowed'
  BY DEF OrderFollowed
<1>3. StageAgrees'
  BY DEF StageAgrees
<1>4. InTime'
  BY DEF InTime
<1>5. HeldIsOfUse'
  BY DEF HeldIsOfUse
<1>6. OldIsSilent'
  BY ReceiverAssumption DEF OldIsSilent, StageAgrees, TypeOK, SomeOld, IsOld, Silent
<1>7. LateInTick'
  BY DEF LateInTick
<1> QED BY <1>1, <1>2, <1>3, <1>4, <1>5, <1>6, <1>7

LEMMA AcknowledgeOK ==
    ASSUME ReceiverIInv, Acknowledge
    PROVE  ReceiverIInv'
<1> USE DEF ReceiverIInv, Acknowledge, switchVars, telemetryVars, timeVars, parserVars,
        requestVars, ageVars
<1>1. TypeOK'
  BY ReceiverAssumption DEF TypeOK
<1>2. OrderFollowed'
  BY DEF OrderFollowed
<1>3. StageAgrees'
  BY DEF StageAgrees
<1>4. InTime'
  BY DEF InTime
<1>5. HeldIsOfUse'
  BY DEF HeldIsOfUse
<1>6. OldIsSilent'
  BY DEF OldIsSilent, SomeOld, IsOld
<1>7. LateInTick'
  BY DEF LateInTick
<1> QED BY <1>1, <1>2, <1>3, <1>4, <1>5, <1>6, <1>7

LEMMA ConfiguredOK ==
    ASSUME ReceiverIInv, Configured
    PROVE  ReceiverIInv'
<1> USE DEF ReceiverIInv, Configured, switchVars, telemetryVars, timeVars, parserVars,
        requestVars, ageVars
<1>1. TypeOK'
  BY ReceiverAssumption DEF TypeOK, Stages
<1>2. OrderFollowed'
  BY DEF OrderFollowed, StageAgrees
<1>3. StageAgrees'
  BY DEF StageAgrees
<1>4. InTime'
  BY DEF InTime
<1>5. HeldIsOfUse'
  BY DEF HeldIsOfUse
<1>6. OldIsSilent'
  BY DEF OldIsSilent, SomeOld, IsOld
<1>7. LateInTick'
  BY DEF LateInTick
<1> QED BY <1>1, <1>2, <1>3, <1>4, <1>5, <1>6, <1>7

LEMMA ConfigFailsOK ==
    ASSUME ReceiverIInv, ConfigFails
    PROVE  ReceiverIInv'
<1> USE DEF ReceiverIInv, ConfigFails, switchVars, telemetryVars, parserVars, requestVars,
        ageVars
<1>1. TypeOK'
  <2>1. /\ stage' \in Stages /\ waited' \in 0 .. Startup + AckTimeout
        /\ acked' \in 0 .. Settings
    BY ReceiverAssumption DEF Stages
  <2> QED BY <2>1 DEF TypeOK
<1>2. OrderFollowed'
  BY DEF OrderFollowed
<1>3. StageAgrees'
  BY DEF StageAgrees
<1>4. InTime'
  BY DEF InTime
<1>5. HeldIsOfUse'
  BY DEF HeldIsOfUse
<1>6. OldIsSilent'
  BY DEF OldIsSilent, SomeOld, IsOld
<1>7. LateInTick'
  BY DEF LateInTick
<1> QED BY <1>1, <1>2, <1>3, <1>4, <1>5, <1>6, <1>7

LEMMA SetFailedOK ==
    ASSUME ReceiverIInv, SetFailed
    PROVE  ReceiverIInv'
<1> USE DEF ReceiverIInv, SetFailed, switchVars, ageVars, timeVars, parserVars,
        requestVars
<1>1. TypeOK'
  BY ReceiverAssumption DEF TypeOK, Stages, GnssReceiverState
<1>2. OrderFollowed'
  BY DEF OrderFollowed
<1>3. StageAgrees'
  BY DEF StageAgrees, TypeOK
<1>4. InTime'
  BY DEF InTime
<1>5. HeldIsOfUse'
  BY DEF HeldIsOfUse
<1>6. OldIsSilent'
  BY DEF OldIsSilent, StageAgrees, TypeOK, SomeOld, IsOld, Silent
<1>7. LateInTick'
  BY DEF LateInTick
<1> QED BY <1>1, <1>2, <1>3, <1>4, <1>5, <1>6, <1>7

LEMMA TurnOffOK ==
    ASSUME ReceiverIInv, TurnOff
    PROVE  ReceiverIInv'
<1> USE DEF ReceiverIInv, TurnOff, TakeCommand, telemetryVars, parserVars, requestVars,
        ageVars
<1>a. /\ cmds' \in Seq(GnssCommand) /\ Len(cmds') <= CmdCap
      /\ cmds[Len(cmds)] = IF cmds' = <<>> THEN Head(cmds) ELSE cmds'[Len(cmds')]
  <2>1. cmds \in Seq(GnssCommand) /\ Len(cmds) <= CmdCap /\ Len(cmds) \in Nat
    BY LenProperties DEF TypeOK
  <2> QED BY <2>1, Taken, ReceiverAssumption
<1>b. asked = IF cmds' = <<>> THEN Head(cmds) ELSE cmds'[Len(cmds')]
  BY <1>a DEF OrderFollowed
<1>1. TypeOK'
  BY <1>a DEF TypeOK, Stages
<1>2. OrderFollowed'
  BY <1>a, <1>b DEF OrderFollowed, StageAgrees
<1>3. StageAgrees'
  BY DEF StageAgrees
<1>4. InTime'
  BY DEF InTime
<1>5. HeldIsOfUse'
  BY DEF HeldIsOfUse
<1>6. OldIsSilent'
  BY DEF OldIsSilent, SomeOld, IsOld
<1>7. LateInTick'
  BY DEF LateInTick
<1> QED BY <1>1, <1>2, <1>3, <1>4, <1>5, <1>6, <1>7

LEMMA SetOffOK ==
    ASSUME ReceiverIInv, SetOff
    PROVE  ReceiverIInv'
<1> USE DEF ReceiverIInv, SetOff, switchVars, ageVars, timeVars, requestVars
<1>1. TypeOK'
  <2>1. lines' \in Seq(Held) /\ Len(lines') <= LineCap
    BY EmptySeq, ReceiverAssumption
  <2>2. /\ stage' \in Stages /\ state' \in GnssReceiverState
        /\ off_age' \in 0 .. Stale + Period
        /\ position' \in GnssReceiverState \ {"Starting", "ReceiverDetected",
                                                 "ConfigurationFailed"}
    BY ReceiverAssumption DEF Stages, GnssReceiverState
  <2> QED BY <2>1, <2>2 DEF TypeOK
<1>2. OrderFollowed'
  BY DEF OrderFollowed
<1>3. StageAgrees'
  BY DEF StageAgrees, TypeOK
<1>4. InTime'
  BY DEF InTime
<1>5. HeldIsOfUse'
  BY DEF HeldIsOfUse
<1>6. OldIsSilent'
  BY DEF OldIsSilent, StageAgrees, TypeOK, SomeOld, IsOld, Silent
<1>7. LateInTick'
  BY DEF LateInTick, OldIsSilent, TypeOK
<1> QED BY <1>1, <1>2, <1>3, <1>4, <1>5, <1>6, <1>7

LEMMA TakeSentenceOK ==
    ASSUME ReceiverIInv, TakeSentence
    PROVE  ReceiverIInv'
<1> USE DEF ReceiverIInv, TakeSentence, switchVars, managerVars, telemetryVars, timeVars,
        requestVars, ageVars
<1>a. /\ lines' \in Seq(Held) /\ Len(lines') <= LineCap
      /\ Head(lines) \in Held /\ 1 \in DOMAIN lines /\ Head(lines) = lines[1]
      /\ \A i \in DOMAIN lines' : i + 1 \in DOMAIN lines /\ lines'[i] = lines[i + 1]
  <2>1. lines \in Seq(Held) /\ Len(lines) <= LineCap /\ Len(lines) \in Nat
    BY LenProperties DEF TypeOK
  <2> QED BY <2>1, Taken, ReceiverAssumption
<1>1. TypeOK'
  <2>1. held' \in Held \cup {None}
    BY <1>a
  <2> QED BY <1>a, <2>1 DEF TypeOK
<1>2. OrderFollowed'
  BY DEF OrderFollowed
<1>3. StageAgrees'
  BY DEF StageAgrees
<1>4. InTime'
  BY DEF InTime
<1>5. HeldIsOfUse'
  BY DEF HeldIsOfUse
<1>6. OldIsSilent'
  <2>1. SomeOld' => SomeOld
    BY <1>a DEF SomeOld, IsOld
  <2> QED BY <2>1 DEF OldIsSilent
<1>7. LateInTick'
  BY DEF LateInTick, OldIsSilent, TypeOK, Silent
<1> QED BY <1>1, <1>2, <1>3, <1>4, <1>5, <1>6, <1>7

LEMMA StoreTimeOK ==
    ASSUME ReceiverIInv, StoreTime
    PROVE  ReceiverIInv'
<1> USE DEF ReceiverIInv, StoreTime, switchVars, managerVars, telemetryVars, requestVars,
        ageVars
<1>1. TypeOK'
  BY ReceiverAssumption DEF TypeOK
<1>2. OrderFollowed'
  BY DEF OrderFollowed
<1>3. StageAgrees'
  BY DEF StageAgrees
<1>4. InTime'
  BY ReceiverAssumption DEF InTime, StageAgrees, TypeOK
<1>5. HeldIsOfUse'
  BY DEF HeldIsOfUse
<1>6. OldIsSilent'
  BY DEF OldIsSilent, SomeOld, IsOld
<1>7. LateInTick'
  BY DEF LateInTick
<1> QED BY <1>1, <1>2, <1>3, <1>4, <1>5, <1>6, <1>7

LEMMA ApplyGgaOK ==
    ASSUME ReceiverIInv, ApplyGga
    PROVE  ReceiverIInv'
<1> USE DEF ReceiverIInv, ApplyGga, Show, switchVars, managerVars, timeVars, requestVars
<1>a. held.of \in {"ValidFix", "NoFix", "InvalidSample"}
  BY DEF TypeOK, Held, Sentence, GgaOutcome, RmcOutcome, HeldIsOfUse
<1>1. TypeOK'
  <2>1. held.of \in GnssReceiverState \ {"Starting", "ReceiverDetected",
                                         "ConfigurationFailed"}
    BY <1>a DEF GnssReceiverState
  <2>2. 0 \in 0 .. Stale + Period
    BY ReceiverAssumption
  <2> QED BY <2>1, <2>2 DEF TypeOK
<1>2. OrderFollowed'
  BY <1>a DEF OrderFollowed, StageAgrees, Silent
<1>3. StageAgrees'
  BY <1>a DEF StageAgrees, Silent
<1>4. InTime'
  BY <1>a, ReceiverAssumption DEF InTime, Silent, TypeOK
<1>5. HeldIsOfUse'
  BY DEF HeldIsOfUse
<1>6. OldIsSilent'
  BY <1>a DEF OldIsSilent, SomeOld, IsOld, Silent
<1>7. LateInTick'
  BY <1>a DEF LateInTick
<1> QED BY <1>1, <1>2, <1>3, <1>4, <1>5, <1>6, <1>7

LEMMA StaleTickOK ==
    ASSUME ReceiverIInv, StaleTick
    PROVE  ReceiverIInv'
<1> USE DEF ReceiverIInv, StaleTick, Show, switchVars, managerVars, ageVars, requestVars
<1>1. TypeOK'
  BY ReceiverAssumption DEF TypeOK, GnssReceiverState, IsStale, ReceiverWatched
<1>2. OrderFollowed'
  BY DEF OrderFollowed, StageAgrees, IsStale, ReceiverWatched
<1>3. StageAgrees'
  BY DEF StageAgrees, IsStale, ReceiverWatched
<1>4. InTime'
  <2>1. /\ due' \in Nat /\ due' = Period
        /\ state' = "ValidFix" => state = "ValidFix" /\ fix_age < Stale
        /\ (position' = "ValidFix") = (state' = "ValidFix")
    BY ReceiverAssumption DEF IsStale, InTime, TypeOK
  <2>2. fix_age \in Nat /\ time_age \in Nat /\ Stale \in Nat /\ Period \in Nat
    BY ReceiverAssumption DEF TypeOK
  <2>3. valid' => time_age' < Stale
    OBVIOUS
  <2>4. time_age' \in Nat /\ fix_age' \in Nat /\ fix_age' = fix_age
    BY <2>2
  <2> QED BY <2>1, <2>2, <2>3, <2>4 DEF InTime
<1>5. HeldIsOfUse'
  BY DEF HeldIsOfUse
<1>6. OldIsSilent'
  BY ReceiverAssumption DEF OldIsSilent, StageAgrees, TypeOK, IsStale, ReceiverWatched,
        SomeOld, IsOld, Silent
<1>7. LateInTick'
  BY DEF LateInTick
<1> QED BY <1>1, <1>2, <1>3, <1>4, <1>5, <1>6, <1>7

LEMMA AskTimeOK ==
    ASSUME ReceiverIInv, AskTime
    PROVE  ReceiverIInv'
<1> USE DEF ReceiverIInv, AskTime, switchVars, managerVars, telemetryVars, timeVars,
        parserVars, ageVars
<1>1. TypeOK'
  BY DEF TypeOK
<1>2. OrderFollowed'
  BY DEF OrderFollowed
<1>3. StageAgrees'
  BY DEF StageAgrees
<1>4. InTime'
  BY DEF InTime
<1>5. HeldIsOfUse'
  BY DEF HeldIsOfUse
<1>6. OldIsSilent'
  BY DEF OldIsSilent, SomeOld, IsOld
<1>7. LateInTick'
  BY DEF LateInTick
<1> QED BY <1>1, <1>2, <1>3, <1>4, <1>5, <1>6, <1>7

LEMMA RespondOK ==
    ASSUME ReceiverIInv, Respond
    PROVE  ReceiverIInv'
<1> USE DEF ReceiverIInv, Respond, switchVars, managerVars, telemetryVars, timeVars,
        parserVars, ageVars
<1>1. TypeOK'
  BY DEF TypeOK
<1>2. OrderFollowed'
  BY DEF OrderFollowed
<1>3. StageAgrees'
  BY DEF StageAgrees
<1>4. InTime'
  BY DEF InTime
<1>5. HeldIsOfUse'
  BY DEF HeldIsOfUse
<1>6. OldIsSilent'
  BY DEF OldIsSilent, SomeOld, IsOld
<1>7. LateInTick'
  BY DEF LateInTick
<1> QED BY <1>1, <1>2, <1>3, <1>4, <1>5, <1>6, <1>7

LEMMA WithdrawOK ==
    ASSUME ReceiverIInv, Withdraw
    PROVE  ReceiverIInv'
<1> USE DEF ReceiverIInv, Withdraw, switchVars, managerVars, telemetryVars, parserVars,
        requestVars, ageVars
<1>1. TypeOK'
  BY DEF TypeOK
<1>2. OrderFollowed'
  BY DEF OrderFollowed
<1>3. StageAgrees'
  BY DEF StageAgrees
<1>4. InTime'
  BY DEF InTime
<1>5. HeldIsOfUse'
  BY DEF HeldIsOfUse
<1>6. OldIsSilent'
  BY DEF OldIsSilent, SomeOld, IsOld
<1>7. LateInTick'
  BY DEF LateInTick
<1> QED BY <1>1, <1>2, <1>3, <1>4, <1>5, <1>6, <1>7

LEMMA TickOK ==
    ASSUME ReceiverIInv, Tick
    PROVE  ReceiverIInv'
<1> USE DEF ReceiverIInv, Tick, switchVars, requestVars, Idle
<1>a. /\ waited' \in 0 .. Startup + AckTimeout
      /\ {started_age', receiver_age', fix_age', time_age', off_age'}
             \subseteq 0 .. Stale + Period
  <2>1. Startup + AckTimeout \in Nat /\ Stale + Period \in Nat
    BY ReceiverAssumption
  <2>2. /\ waited \in 0 .. Startup + AckTimeout
        /\ started_age \in 0 .. Stale + Period /\ receiver_age \in 0 .. Stale + Period
        /\ fix_age \in 0 .. Stale + Period /\ time_age \in 0 .. Stale + Period
        /\ off_age \in 0 .. Stale + Period /\ valid \in BOOLEAN
    BY DEF TypeOK
  <2>3. waited' \in 0 .. Startup + AckTimeout
    BY <2>1, <2>2, OlderAge
  <2>4. started_age' \in 0 .. Stale + Period /\ receiver_age' \in 0 .. Stale + Period
    <3> DEFINE watched == state \in ReceiverWatched
               starting == state = "Starting"
    <3>1. watched \in BOOLEAN /\ starting \in BOOLEAN
      OBVIOUS
    <3>2. /\ receiver_age' = Older(receiver_age, watched, Stale + Period)
          /\ started_age' = Older(started_age, starting, Stale + Period)
      OBVIOUS
    <3> HIDE DEF watched, starting, Tick
    <3> QED BY <2>1, <2>2, <3>1, <3>2, OlderAge
  <2>5. fix_age' \in 0 .. Stale + Period /\ time_age' \in 0 .. Stale + Period
    BY <2>1, <2>2, OlderAge
  <2>6. off_age' \in 0 .. Stale + Period
    BY <2>1, <2>2, OlderAge
  <2> QED BY <2>3, <2>4, <2>5, <2>6
<1>b. /\ state = "ValidFix" => fix_age' <= fix_age + 1
      /\ valid => time_age' = IF time_age < Stale + Period THEN time_age + 1
                              ELSE Stale + Period
      /\ state = "Off" => off_age' = IF off_age < Stale + Period THEN off_age + 1
                                     ELSE Stale + Period
  <2>1. /\ fix_age \in 0 .. Stale + Period /\ time_age \in 0 .. Stale + Period
        /\ off_age \in 0 .. Stale + Period /\ valid \in BOOLEAN /\ Stale + Period \in Nat
    BY ReceiverAssumption DEF TypeOK
  <2>2. state = "ValidFix" =>
            fix_age' = IF fix_age < Stale + Period THEN fix_age + 1 ELSE Stale + Period
    BY <2>1, OlderAge
  <2>3. valid => time_age' = IF time_age < Stale + Period THEN time_age + 1
                             ELSE Stale + Period
    BY <2>1, OlderAge
  <2>4. state = "Off" =>
            off_age' = IF off_age < Stale + Period THEN off_age + 1 ELSE Stale + Period
    BY <2>1, OlderAge
  <2> QED BY <2>1, <2>2, <2>3, <2>4
<1>c. held = None /\ lines = <<>> /\ due > 0 /\ due \in Nat /\ due' = due - 1
  BY DEF Idle, TypeOK
<1>1. TypeOK'
  <2>1. due' \in 0 .. Period
    BY <1>c, ReceiverAssumption DEF TypeOK
  <2> HIDE DEF Idle
  <2> QED BY <1>a, <2>1 DEF TypeOK
<1>2. OrderFollowed'
  BY DEF OrderFollowed
<1>3. StageAgrees'
  BY DEF StageAgrees
<1>4. InTime'
  <2>1. /\ fix_age \in Nat /\ fix_age' \in Nat /\ time_age \in Nat /\ time_age' \in Nat
        /\ Stale \in Nat /\ Period \in Nat
    BY <1>a, ReceiverAssumption DEF TypeOK
  <2>2. ASSUME valid PROVE time_age' <= time_age + 1
    <3> HIDE DEF Tick, Idle, ReceiverIInv
    <3> QED BY <1>b, <2>1, <2>2
  <2> QED BY <1>b, <1>c, <2>1, <2>2 DEF InTime
<1>5. HeldIsOfUse'
  BY DEF HeldIsOfUse
<1>6. OldIsSilent'
  <2>1. ~ SomeOld'
    BY <1>c DEF SomeOld, IsOld
  <2> QED BY <2>1 DEF OldIsSilent
<1>7. LateInTick'
  <2>1. time_age \in Nat /\ off_age \in Nat /\ Stale \in Nat /\ Period \in Nat
    BY ReceiverAssumption DEF TypeOK
  <2> QED BY <1>b, <1>c, <2>1 DEF LateInTick
<1> QED BY <1>1, <1>2, <1>3, <1>4, <1>5, <1>6, <1>7

LEMMA ReceiverInit == Init => ReceiverIInv
<1> SUFFICES ASSUME Init PROVE ReceiverIInv
  OBVIOUS
<1>1. cmds \in Seq(GnssCommand) /\ Len(cmds) = 1 /\ cmds[1] = "TurnOn" /\ cmds # <<>>
  BY EmptySeq DEF Init, GnssCommand
<1>2. lines \in Seq(Held) /\ Len(lines) = 0 /\ DOMAIN lines = {}
  BY EmptySeq DEF Init
<1>3. TypeOK
  <2>1. /\ waited \in 0 .. Startup + AckTimeout /\ acked \in 0 .. Settings
        /\ due \in 0 .. Period
        /\ {started_age, receiver_age, fix_age, time_age, off_age}
               \subseteq 0 .. Stale + Period
    BY ReceiverAssumption DEF Init
  <2>2. /\ stage \in Stages /\ state \in GnssReceiverState
        /\ position \in GnssReceiverState \ {"Starting", "ReceiverDetected",
                                             "ConfigurationFailed"}
    BY DEF Init, Stages, GnssReceiverState
  <2>3. Len(cmds) <= CmdCap /\ Len(lines) <= LineCap
    BY <1>1, <1>2, ReceiverAssumption
  <2>4. /\ sender \in GnssCommand \cup {None} /\ asked \in GnssCommand
        /\ is_on \in BOOLEAN /\ valid \in BOOLEAN /\ held \in Held \cup {None}
        /\ request \in {"none", "open", "answered"} /\ replied \in BOOLEAN
    BY DEF Init, GnssCommand
  <2> QED BY <1>1, <1>2, <2>1, <2>2, <2>3, <2>4 DEF TypeOK
<1>4. OrderFollowed /\ StageAgrees /\ HeldIsOfUse
  BY <1>1 DEF Init, OrderFollowed, StageAgrees, HeldIsOfUse
<1>5. InTime /\ LateInTick
  BY ReceiverAssumption DEF Init, InTime, LateInTick
<1>6. OldIsSilent
  BY <1>2 DEF Init, OldIsSilent, SomeOld, IsOld
<1> QED BY <1>3, <1>4, <1>5, <1>6 DEF ReceiverIInv

LEMMA ReceiverNext == ReceiverIInv /\ [Next]_vars => ReceiverIInv'
<1> SUFFICES ASSUME ReceiverIInv, [Next]_vars PROVE ReceiverIInv'
  OBVIOUS
<1>1. CASE UNCHANGED vars
  BY <1>1 DEF ReceiverIInv, TypeOK, OrderFollowed, StageAgrees, InTime, HeldIsOfUse,
     OldIsSilent, SomeOld, IsOld, LateInTick, vars, switchVars, managerVars, telemetryVars,
     ageVars, timeVars, parserVars, requestVars
<1>2. ASSUME NEW command \in GnssCommand, Order(command) PROVE ReceiverIInv'
  BY <1>2, OrderOK
<1>3. CASE SendOrder \/ StartSequence
  BY <1>3, SendOrderOK, StartSequenceOK
<1>4. ASSUME NEW sentence \in Sentence, ReadLine(sentence) PROVE ReceiverIInv'
  BY <1>4, ReadLineOK
<1>5. CASE Manager
  BY <1>5, TurnOnIgnoredOK, TurnOnOK, SetStartingOK, StartupOverOK, AcknowledgeOK,
     ConfiguredOK, ConfigFailsOK, SetFailedOK, TurnOffOK, SetOffOK DEF Manager
<1>6. CASE Parser
  BY <1>6, TakeSentenceOK, StoreTimeOK, ApplyGgaOK, StaleTickOK DEF Parser
<1>7. CASE AskTime \/ Respond \/ Withdraw
  BY <1>7, AskTimeOK, RespondOK, WithdrawOK
<1>8. CASE Tick
  BY <1>8, TickOK
<1> QED BY <1>1, <1>2, <1>3, <1>4, <1>5, <1>6, <1>7, <1>8 DEF Next

LEMMA ReceiverIInvAlways == Spec => []ReceiverIInv
<1> QED BY ReceiverInit, ReceiverNext, PTL DEF Spec

\* Whatever the UART, the configuration and the parser on the other core do: when the
\* manager has worked off its queue the receiver is as it was asked for last, a position
\* shown as a fix is one the state vouches for and no older than the stale timeout and a
\* turn of the ticker, and a receiver that is off leaves no time behind for longer.
THEOREM ReceiverFollowsOrders == Spec => []ReceiverInv
<1>1. ReceiverIInv => ReceiverInv
  <2> SUFFICES ASSUME ReceiverIInv PROVE ReceiverInv
    OBVIOUS
  <2>1. /\ fix_age \in Nat /\ time_age \in Nat /\ off_age \in Nat /\ due \in Nat
        /\ Stale \in Nat /\ Period \in Nat
    BY ReceiverAssumption DEF ReceiverIInv, TypeOK
  <2>2. LastCommandWins
    BY DEF ReceiverIInv, OrderFollowed, StageAgrees, LastCommandWins
  <2>3. PositionIsLive
    BY <2>1 DEF ReceiverIInv, InTime, PositionIsLive
  <2>4. OffEndsTime
    BY <2>1 DEF ReceiverIInv, InTime, LateInTick, OffEndsTime
  <2> QED BY <2>2, <2>3, <2>4 DEF ReceiverIInv, ReceiverInv
<1> QED BY <1>1, ReceiverIInvAlways, PTL

\* No sentence that was read before the receiver was started becomes its state, and
\* nothing but the manager takes it out of Off or ConfigurationFailed, at whatever point
\* of the switching the parser goes on.
THEOREM LateSentencesAreQuiet == Spec => LateIsQuietAlways
<1>1. ReceiverIInv /\ [Next]_vars => [OffStays /\ NoOldSentence]_vars
  <2> SUFFICES ASSUME ReceiverIInv, Next PROVE OffStays /\ NoOldSentence
    OBVIOUS
  <2> USE DEF OffStays, NoOldSentence, switchVars, managerVars, telemetryVars, ageVars,
          timeVars, parserVars, requestVars
  <2>1. ASSUME NEW command \in GnssCommand, Order(command) PROVE OffStays /\ NoOldSentence
    BY <2>1 DEF Order
  <2>2. CASE SendOrder \/ StartSequence
    BY <2>2 DEF SendOrder, StartSequence
  <2>3. ASSUME NEW sentence \in Sentence, ReadLine(sentence)
        PROVE  OffStays /\ NoOldSentence
    BY <2>3 DEF ReadLine
  <2>4. CASE TurnOnIgnored \/ TurnOn \/ StartupOver \/ Acknowledge \/ Configured
    BY <2>4 DEF TurnOnIgnored, TurnOn, TakeCommand, StartupOver, Acknowledge, Configured
  <2>5. CASE ConfigFails \/ SetFailed \/ TurnOff \/ SetOff
    BY <2>5 DEF ConfigFails, SetFailed, TurnOff, TakeCommand, SetOff
  <2>6. CASE SetStarting
    <3>1. held # None => held \in Held /\ Aged(held) \in Held
      BY DEF ReceiverIInv, TypeOK, Held, Aged
    <3>2. held # None => held' # None
      BY <2>6, <3>1, NothingHeld DEF SetStarting
    <3> QED BY <2>6, <3>2 DEF SetStarting
  <2>7. CASE TakeSentence \/ StoreTime
    BY <2>7 DEF TakeSentence, StoreTime
  <2>8. CASE ApplyGga
    <3>1. held # None /\ held.old => state \in Silent
      BY DEF ReceiverIInv, OldIsSilent, SomeOld, IsOld
    <3> QED BY <2>8, <3>1 DEF ApplyGga, Silent
  <2>9. CASE StaleTick
    BY <2>9 DEF StaleTick, Show, IsStale, ReceiverWatched
  <2>10. CASE AskTime \/ Respond \/ Withdraw \/ Tick
    BY <2>10 DEF AskTime, Respond, Withdraw, Tick
  <2> QED BY <2>1, <2>2, <2>3, <2>4, <2>5, <2>6, <2>7, <2>8, <2>9, <2>10
          DEF Next, Manager, Parser
<1> QED BY <1>1, ReceiverIInvAlways, PTL DEF Spec, LateIsQuietAlways
=============================================================================
