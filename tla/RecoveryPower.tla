--------------------------- MODULE RecoveryPower ---------------------------
(***************************************************************************)
(* recovery_power_cache_task.  In recovery Mission wakes up rarely, so the *)
(* task keeps the last PowerTime of the CAN cache alive for the beacon: it *)
(* writes it back every 100 ms with a new time of reception, and marks it  *)
(* stale when Mission has been silent for RECOVERY_POWER_FRESHNESS_MS.     *)
(* The CAN owner writes the same cache entry and switches the beacon.  All *)
(* of them run on core 1 and hold no lock across an await, so a pass of    *)
(* the task is one step; but the beacon is only looked at once a pass.     *)
(*                                                                         *)
(* A tick is one pass, REFRESH_INTERVAL_MS.  Times are kept as ages.       *)
(***************************************************************************)
EXTENDS Naturals, FiniteSetsExt

CONSTANTS
    Freshness,      \* RECOVERY_POWER_FRESHNESS_MS, in passes (300)
    Fresh,          \* FRESHNESS_10_HZ_MS, in passes (3)
    Nothing         \* Option::None

ASSUME PowerAssumption ==
    Freshness \in Nat \ {0} /\ Fresh \in Nat \ {0} /\ Nothing \notin Nat

MaxAge == Freshness + Fresh + 1

VARIABLES
    beacon,         \* RECOVERY_BEACON_ACTIVE
    power,          \* CAN_CACHE.power_time, its value
    received,       \* age of its received_at_ms
    own,            \* its received_at_ms, or the last it had, is last_refresh_received_at_ms
    noticed,        \* active_previous
    snapshot,       \* of the task
    source,         \* age of snapshot_source_received_at_ms, or Nothing
    passed,         \* the task has had this tick's pass
    \* History variables:
    missed,         \* the beacon was entered before the task saw that it was left
    heard           \* age of the last PowerTime of this recovery that the task can tell
                    \* from its own writing, or Nothing

cacheVars == <<power, received, own>>
taskVars == <<noticed, snapshot, source>>
powerVars == <<beacon, cacheVars, taskVars, passed, missed, heard>>

\* A PowerTimeTelemetry.  What the model adds: how long ago Mission sent it, and
\* whether this was before the recovery that is on.
Value(kind, age, prior) == [kind |-> kind, age |-> age, prior |-> prior]
Unavailable == Value("unavailable", 0, FALSE)

PowerInit ==
    /\ beacon = FALSE
    /\ power = Nothing /\ received = 0 /\ own = FALSE
    /\ noticed = FALSE /\ snapshot = Unavailable /\ source = Nothing
    /\ passed = FALSE /\ missed = FALSE /\ heard = Nothing

---------------------------------------------------------------------------
(* The CAN owner.                                                          *)

\* A PowerTime of Mission.  In the millisecond of the task's last pass it bears
\* the time by which the task knows its own writing.
ReceivePower(same_ms) ==
    /\ same_ms => passed /\ own
    /\ power' = Value("sample", 0, FALSE) /\ received' = 0 /\ own' = same_ms
    /\ heard' = IF beacon /\ noticed /\ ~ same_ms THEN 0 ELSE heard
    /\ UNCHANGED <<beacon, taskVars, passed, missed>>

\* RecoveryModeCommand: only the first one clears the snapshot.  The task, if it has
\* not seen the beacon being left, still knows when it wrote last.
EnterBeacon ==
    /\ ~ beacon
    /\ beacon' = TRUE
    /\ power' = Nothing /\ received' = 0
    /\ snapshot' = [snapshot EXCEPT !.prior = TRUE]
    /\ missed' = noticed /\ heard' = Nothing
    /\ UNCHANGED <<own, noticed, source, passed>>

\* Mission has completed ExitRecovery.  The cache is left as it is.
LeaveBeacon ==
    /\ beacon /\ beacon' = FALSE
    /\ UNCHANGED <<cacheVars, taskVars, passed, missed, heard>>

---------------------------------------------------------------------------
(* recovery_power_cache_task.                                              *)

\* CAN_CACHE.power_time.update(value, now), remembered as the task's own.
Write(value) == power' = value /\ received' = 0 /\ own' = TRUE

\* The recovery begins with no power data, also when some have just arrived.
NoticeEntered ==
    /\ beacon /\ ~ noticed
    /\ snapshot' = Unavailable /\ source' = Nothing
    /\ Write(Unavailable)

NoticeLeft ==
    /\ ~ beacon /\ noticed
    /\ power' = Nothing /\ received' = 0 /\ own' = FALSE
    /\ source' = Nothing
    /\ UNCHANGED snapshot

\* stale_snapshot.
StaleSnapshot(value) == [value EXCEPT !.kind = "stale"]

SourceRefreshed(updated) ==
    IF updated THEN received ELSE IF source = Nothing THEN Nothing ELSE 0

\* snapshot_source_received_at_ms, as an age.
SourceOf(updated) == IF updated THEN received ELSE source

UpdatedOnce == power # Nothing /\ ~ own /\ source = Nothing

ExternallyUpdated == power # Nothing /\ ~ own

\* What is in the cache and not the task's own becomes the snapshot; a snapshot
\* whose source is too old becomes stale, once; it is written back.
Refresh ==
    /\ beacon /\ noticed
    /\ LET current == IF ExternallyUpdated THEN power ELSE snapshot
           age == SourceOf(ExternallyUpdated)
           tooOld == age # Nothing /\ age > Freshness
       IN  /\ snapshot' = IF tooOld THEN StaleSnapshot(current) ELSE current
           /\ source' = IF tooOld THEN Nothing ELSE age
           /\ Write(snapshot')

Pass ==
    /\ ~ passed /\ passed' = TRUE
    /\ noticed' = beacon
    /\ \/ NoticeEntered \/ NoticeLeft \/ Refresh
       \/ ~ beacon /\ ~ noticed /\ UNCHANGED <<cacheVars, snapshot, source>>
    /\ missed' = (missed /\ beacon /\ snapshot'.prior)
    /\ UNCHANGED <<beacon, heard>>

---------------------------------------------------------------------------
(* Time.                                                                   *)

OneOlder(age) == Min({age + 1, MaxAge})
ValueOlder(value) ==
    IF value = Nothing \/ value.kind # "sample" THEN value
    ELSE [value EXCEPT !.age = OneOlder(@)]

PowerTick ==
    /\ passed /\ passed' = FALSE
    /\ received' = IF power = Nothing THEN 0 ELSE OneOlder(received)
    /\ source' = IF source = Nothing THEN Nothing ELSE OneOlder(source)
    /\ heard' = IF heard = Nothing THEN Nothing ELSE OneOlder(heard)
    /\ power' = ValueOlder(power) /\ snapshot' = ValueOlder(snapshot)
    /\ UNCHANGED <<beacon, own, noticed, missed>>

PowerNext ==
    \/ \E same_ms \in BOOLEAN : ReceivePower(same_ms)
    \/ EnterBeacon \/ LeaveBeacon \/ Pass \/ PowerTick

---------------------------------------------------------------------------
(* Properties.                                                             *)

ValueSet ==
    [kind : {"unavailable", "stale", "sample"}, age : 0 .. MaxAge, prior : BOOLEAN]

ASSUME NothingAssumption == Nothing \notin ValueSet

\* Everything has its type; in particular the task always has a snapshot, of which
\* stale_snapshot can be made.
PowerTypeOK ==
    /\ {beacon, own, noticed, passed, missed} \subseteq BOOLEAN
    /\ power \in ValueSet \cup {Nothing} /\ snapshot \in ValueSet
    /\ received \in 0 .. MaxAge /\ source \in 0 .. MaxAge \cup {Nothing}
    /\ heard \in 0 .. MaxAge \cup {Nothing}

\* stale_or of periodic_packet: what an A5 beacon makes of the cache.
Shown ==
    IF power # Nothing /\ received <= Fresh THEN power.kind ELSE "stale"

\* A beacon shows a voltage only if Mission sent it within
\* RECOVERY_POWER_FRESHNESS_MS and one pass: however often the task renews the
\* time of reception, the value does not become younger.
BeaconIsHonest ==
    beacon /\ Shown = "sample" => power.age <= Freshness + 1

\* In recovery the cached value never gets too old for the beacon, whose freshness
\* of 300 ms Mission's rare PowerTimes could not meet (the debug_assert of the
\* task, here also between its passes).
BeaconIsFed == beacon /\ noticed /\ power # Nothing => received <= Fresh

\* Outside recovery, once the task has seen it end, the cache holds what Mission
\* sent and says so for how long: no made-up value and no renewed time of
\* reception stays behind, which would pass for traffic of Mission.
CacheIsMissions ==
    ~ beacon /\ ~ noticed /\ power # Nothing =>
        power.kind = "sample" /\ received = power.age

\* A recovery does not show the power data of an earlier one, unless the beacon
\* was left and entered again between two passes, which the task cannot see.
NothingFromBefore ==
    beacon /\ power # Nothing /\ power.prior => missed

\* However the task renews, replaces and clears the entry it shares with the CAN
\* owner, the entry tells the truth about Mission's power data: their age, their
\* recovery, and that there are none.
PowerInv ==
    /\ PowerTypeOK
    /\ BeaconIsHonest /\ BeaconIsFed
    /\ CacheIsMissions /\ NothingFromBefore

\* What Mission sends in recovery is what the beacon shows, or something newer, until
\* it is too old: renewing the entry any number of times neither keeps an older value
\* nor makes the newest one stale too early.  Not said of a value that came before the
\* task had seen that the beacon was entered, or in the millisecond of its last pass:
\* the task overwrites these, but they cost no other value.
LatestIsShown ==
    beacon /\ noticed /\ heard # Nothing /\ heard <= Freshness =>
        Shown = "sample" /\ power.age <= heard
=============================================================================
