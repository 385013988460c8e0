-------------------------- MODULE CanClientsProofs --------------------------
(***************************************************************************)
(* Proofs about what the board makes of Mission's frames besides commands: *)
(* RequestInv, PowerInv and LatestIsShown for every capacity of the        *)
(* request queue, every set of ids and every choice of the two times after *)
(* which power data are no longer fresh; NoEventLost and                   *)
(* RepetitionIsQuietAlways of the event latch for every set of flags and   *)
(* every width of the sequence and revision counters.                      *)
(***************************************************************************)
EXTENDS CanClients, EventRelay, SequenceTheorems, TLAPS

-----------------------------------------------------------------------------
(* Time requests.                                                          *)

\* The request Mission made last is compared with the next one; none waits
\* before Mission has made one.
RelayInv ==
    /\ previous = newest /\ newest \in Id \cup {NoId}
    /\ newest = NoId => queue = <<>>
    /\ RequestInv

\* A new request at the end of a queue without repetitions leaves it without.
LEMMA AppendKeepsApart ==
    ASSUME NEW q \in Seq(Id), NEW id \in Id,
           \A i \in 1 .. Len(q) - 1 : q[i] # q[i + 1],
           q # <<>> => q[Len(q)] # id
    PROVE  /\ Append(q, id) \in Seq(Id) /\ Append(q, id) # <<>>
           /\ Len(Append(q, id)) = Len(q) + 1
           /\ Append(q, id)[Len(Append(q, id))] = id
           /\ \A i \in 1 .. Len(Append(q, id)) - 1 :
                 Append(q, id)[i] # Append(q, id)[i + 1]
<1>1. /\ Append(q, id) \in Seq(Id) /\ Append(q, id) # <<>>
      /\ Len(Append(q, id)) = Len(q) + 1 /\ Len(q) \in Nat
      /\ Append(q, id)[Len(q) + 1] = id
      /\ \A i \in 1 .. Len(q) : Append(q, id)[i] = q[i]
  BY AppendProperties, LenProperties
<1>2. ASSUME NEW i \in 1 .. Len(q) PROVE Append(q, id)[i] # Append(q, id)[i + 1]
  <2>1. CASE i = Len(q)
    BY <1>1, <2>1
  <2>2. CASE i # Len(q)
    <3>1. i + 1 \in 1 .. Len(q) /\ i \in 1 .. Len(q) - 1
      BY <1>1, <2>2
    <3> QED BY <1>1, <3>1
  <2> QED BY <2>1, <2>2
<1> QED BY <1>1, <1>2

\* The rest of a queue without repetitions has none, and the same last element.
LEMMA TailKeepsApart ==
    ASSUME NEW q \in Seq(Id), q # <<>>,
           \A i \in 1 .. Len(q) - 1 : q[i] # q[i + 1]
    PROVE  /\ Tail(q) \in Seq(Id) /\ Len(Tail(q)) = Len(q) - 1
           /\ Tail(q) # <<>> => Tail(q)[Len(Tail(q))] = q[Len(q)]
           /\ \A i \in 1 .. Len(Tail(q)) - 1 : Tail(q)[i] # Tail(q)[i + 1]
           /\ Tail(q) = <<>> => Head(q) = q[Len(q)]
<1>1. /\ Tail(q) \in Seq(Id) /\ Len(Tail(q)) = Len(q) - 1 /\ Len(q) \in Nat
      /\ \A i \in 1 .. Len(Tail(q)) : Tail(q)[i] = q[i + 1]
      /\ Head(q) = q[1] /\ Len(q) >= 1
  BY HeadTailProperties, EmptySeq
<1>2. Tail(q) # <<>> => Len(Tail(q)) \in 1 .. Len(Tail(q))
  BY <1>1, EmptySeq
<1>3. ASSUME Tail(q) = <<>> PROVE Len(q) = 1
  <2>1. Len(<<>>) = 0
    OBVIOUS
  <2>2. Len(Tail(q)) = 0
    BY <1>3, <2>1, Zenon
  <2>3. Len(q) - 1 = 0
    BY <1>1, <2>2, Zenon
  <2>4. Len(q) \in Nat
    BY <1>1, Zenon
  <2> HIDE <1>3
  <2> QED BY <2>3, <2>4
<1>4. ASSUME NEW i \in 1 .. Len(Tail(q)) - 1 PROVE Tail(q)[i] # Tail(q)[i + 1]
  <2>1. /\ i \in 1 .. Len(Tail(q)) /\ i + 1 \in 1 .. Len(Tail(q))
        /\ i + 1 \in 1 .. Len(q) - 1
    BY <1>1
  <2> QED BY <1>1, <2>1
<1> QED BY <1>1, <1>2, <1>3, <1>4

\* A request, new or repeated, keeps the invariant.
LEMMA RequestKeepsInv ==
    ASSUME RelayInv, NEW id \in Id, Request(id)
    PROVE  RelayInv'
<1> USE DEF RelayInv, RequestInv, NewestIsKept, NoRepetition, Last
<1>1. CASE previous = id
  BY <1>1, NoIdAssumption DEF Request, GroundTimeQueueAction
<1>2. CASE previous # id
  <2>1. queue # <<>> => queue[Len(queue)] # id
    BY <1>2
  <2>2. /\ newest' = id /\ previous' = id /\ queue' = Pushed(id)
        /\ relayed' = relayed /\ id # NoId
    BY <1>2, NoIdAssumption DEF Request, GroundTimeQueueAction
  <2>3. CASE Len(queue) = QueueCap
    <3>1. queue' = Append(Tail(queue), id) /\ queue # <<>>
      BY <1>2, <2>2, <2>3, RelayAssumption DEF Pushed, GroundTimeQueueAction
    <3>2. Tail(queue) # <<>> => Tail(queue)[Len(Tail(queue))] # id
      BY <2>1, <3>1, TailKeepsApart
    <3>3. /\ Append(Tail(queue), id) \in Seq(Id) /\ Append(Tail(queue), id) # <<>>
          /\ Len(Append(Tail(queue), id)) = QueueCap
          /\ Append(Tail(queue), id)[Len(Append(Tail(queue), id))] = id
          /\ \A i \in 1 .. Len(Append(Tail(queue), id)) - 1 :
                 Append(Tail(queue), id)[i] # Append(Tail(queue), id)[i + 1]
      BY <2>3, <3>1, <3>2, TailKeepsApart, AppendKeepsApart, RelayAssumption
    <3> QED BY <2>2, <3>1, <3>3, RelayAssumption
  <2>4. CASE Len(queue) # QueueCap
    <3>1. queue' = Append(queue, id) /\ Len(queue) + 1 <= QueueCap
      BY <1>2, <2>2, <2>4, RelayAssumption DEF Pushed, GroundTimeQueueAction
    <3> QED BY <2>1, <2>2, <3>1, AppendKeepsApart
  <2> QED BY <2>3, <2>4
<1> QED BY <1>1, <1>2

\* So does lora_tx_task when it takes a request.
LEMMA RelayKeepsInv ==
    ASSUME RelayInv, Relay
    PROVE  RelayInv'
<1> USE DEF RelayInv, RequestInv, NewestIsKept, NoRepetition, Last
<1>1. /\ queue # <<>> /\ queue' = Tail(queue) /\ relayed' = Head(queue)
      /\ newest' = newest /\ previous' = previous
  BY DEF Relay
<1> QED BY <1>1, TailKeepsApart, RelayAssumption

\* However many requests a full queue loses and however often Mission repeats itself,
\* what the ground is asked last is what Mission asked last, and no request stands
\* behind itself in the queue.
THEOREM NewestRequestIsKept == Spec => []RequestInv
<1>1. Init => RelayInv
  BY RelayAssumption, NoIdAssumption
     DEF Init, TimeInit, RelayInv, RequestInv, NewestIsKept, NoRepetition
<1>2. RelayInv /\ [Next]_vars => RelayInv'
  <2>1. RelayInv /\ UNCHANGED relayVars => RelayInv'
    BY DEF relayVars, RelayInv, RequestInv, NewestIsKept, NoRepetition
  <2> QED BY <2>1, RequestKeepsInv, RelayKeepsInv DEF Next, TimeNext, vars
<1>3. RelayInv => RequestInv
  BY DEF RelayInv
<1> QED BY <1>1, <1>2, <1>3, PTL DEF Spec

-----------------------------------------------------------------------------
(* Power data.                                                             *)

\* Ticks since the task's last pass, in which nothing more than one tick old
\* can have gone unnoticed.
SincePass == IF passed THEN 0 ELSE 1

\* What the cache holds is Mission's last PowerTime, not yet looked at, ...
MissionsOwnInv ==
    power # Nothing /\ ~ own =>
        power.kind = "sample" /\ received = power.age /\ ~ power.prior

\* ... or what the task wrote, which it does in a recovery it has noticed; a
\* voltage among it is not too old.
TasksOwnInv ==
    /\ own => noticed
    /\ power # Nothing /\ own /\ power.kind = "sample" =>
          power.age <= Freshness + SincePass

\* In recovery the entry is as old as the last pass.
RenewedInv == beacon /\ power # Nothing => received <= SincePass

\* As long as the task is in a recovery, it knows how old its snapshot is.
SnapshotInv ==
    noticed /\ snapshot.kind = "sample" =>
        /\ source # Nothing /\ source = snapshot.age
        /\ snapshot.age <= Freshness + SincePass

\* What is left of an earlier recovery is only there if the task missed its end.
PriorInv ==
    /\ beacon /\ noticed /\ snapshot.prior => missed
    /\ beacon /\ power # Nothing /\ power.prior => missed

CacheInv ==
    /\ PowerTypeOK
    /\ MissionsOwnInv /\ TasksOwnInv /\ RenewedInv /\ SnapshotInv /\ PriorInv

\* The parts of the type invariant.
LEMMA PowerTypes ==
    PowerTypeOK <=>
        /\ beacon \in BOOLEAN /\ own \in BOOLEAN /\ noticed \in BOOLEAN
        /\ passed \in BOOLEAN /\ missed \in BOOLEAN
        /\ power \in ValueSet \cup {Nothing} /\ snapshot \in ValueSet
        /\ received \in 0 .. MaxAge /\ source \in 0 .. MaxAge \cup {Nothing}
        /\ heard \in 0 .. MaxAge \cup {Nothing}
BY Zenon DEF PowerTypeOK

\* An age grows by one until nobody can tell the difference.
LEMMA OneOlderAge ==
    ASSUME NEW age \in 0 .. MaxAge
    PROVE  /\ OneOlder(age) \in 0 .. MaxAge
           /\ OneOlder(age) = IF age + 1 <= MaxAge THEN age + 1 ELSE MaxAge
<1>1. MaxAge \in Nat /\ age \in Nat /\ age <= MaxAge
  BY PowerAssumption DEF MaxAge
<1>2. ASSUME NEW m \in {age + 1, MaxAge}, \A x \in {age + 1, MaxAge} : m <= x
      PROVE  Min({age + 1, MaxAge}) = m
  <2>1. \A x \in {age + 1, MaxAge} :
            (\A y \in {age + 1, MaxAge} : x =< y) => x = m
    BY <1>1, <1>2
  <2> QED BY <1>2, <2>1 DEF Min
<1>3. CASE age + 1 <= MaxAge
  BY <1>1, <1>2, <1>3 DEF OneOlder
<1>4. CASE ~ (age + 1 <= MaxAge)
  BY <1>1, <1>2, <1>4 DEF OneOlder
<1> QED BY <1>3, <1>4

\* Ageing keeps what a value is.
LEMMA ValueOlderIs ==
    ASSUME NEW v \in ValueSet \cup {Nothing}
    PROVE  /\ v = Nothing => ValueOlder(v) = Nothing
           /\ v # Nothing =>
                 /\ ValueOlder(v) \in ValueSet
                 /\ ValueOlder(v).kind = v.kind /\ ValueOlder(v).prior = v.prior
                 /\ v.kind = "sample" => ValueOlder(v).age = OneOlder(v.age)
                 /\ v.kind # "sample" => ValueOlder(v) = v
<1>1. CASE v = Nothing
  BY <1>1 DEF ValueOlder
<1>2. CASE v # Nothing /\ v.kind = "sample"
  <2>1. v \in ValueSet /\ v.age \in 0 .. MaxAge
    BY <1>2 DEF ValueSet
  <2>2. OneOlder(v.age) \in 0 .. MaxAge
    BY <2>1, OneOlderAge
  <2>3. ValueOlder(v) = [v EXCEPT !.age = OneOlder(v.age)]
    BY <1>2 DEF ValueOlder
  <2> QED BY <1>2, <2>1, <2>2, <2>3 DEF ValueSet
<1>3. CASE v # Nothing /\ v.kind # "sample"
  BY <1>3 DEF ValueOlder
<1> QED BY <1>1, <1>2, <1>3

\* The initial state satisfies the invariant.
LEMMA CacheInit == Init => CacheInv
<1> SUFFICES ASSUME Init PROVE CacheInv
  OBVIOUS
<1>1. 0 \in 0 .. MaxAge
  BY PowerAssumption DEF MaxAge
<1>2. Unavailable \in ValueSet /\ Unavailable.kind = "unavailable" /\ ~ Unavailable.prior
  BY <1>1 DEF Unavailable, Value, ValueSet
<1>3. PowerTypeOK
  BY <1>1, <1>2 DEF Init, PowerInit, PowerTypeOK
<1>4. MissionsOwnInv /\ TasksOwnInv /\ RenewedInv
  BY DEF Init, PowerInit, MissionsOwnInv, TasksOwnInv, RenewedInv
<1>5. SnapshotInv /\ PriorInv
  BY DEF Init, PowerInit, SnapshotInv, PriorInv
<1> QED BY <1>3, <1>4, <1>5 DEF CacheInv

\* The steps of the CAN owner keep it.
LEMMA OwnerKeepsCache ==
    ASSUME CacheInv,
           \/ \E same_ms \in BOOLEAN : ReceivePower(same_ms)
           \/ EnterBeacon \/ LeaveBeacon
    PROVE  CacheInv'
<1> USE DEF CacheInv
<1>1. 0 \in 0 .. MaxAge /\ Freshness \in Nat
  BY PowerAssumption DEF MaxAge
<1>2. ASSUME NEW same_ms \in BOOLEAN, ReceivePower(same_ms) PROVE CacheInv'
  <2> DEFINE new == Value("sample", 0, FALSE)
  <2>1. /\ power' = new /\ received' = 0 /\ own' = same_ms /\ (same_ms => passed /\ own)
        /\ UNCHANGED <<beacon, noticed, snapshot, source, passed, missed>>
        /\ heard' \in {0, heard}
    BY <1>2 DEF ReceivePower, taskVars
  <2>2. new \in ValueSet /\ new.kind = "sample" /\ new.age = 0 /\ ~ new.prior
    BY <1>1 DEF Value, ValueSet
  <2> HIDE DEF new
  <2>3. PowerTypeOK'
    BY <1>1, <2>1, <2>2 DEF PowerTypeOK
  <2>4. MissionsOwnInv' /\ RenewedInv'
    BY <1>1, <2>1, <2>2 DEF MissionsOwnInv, RenewedInv, SincePass
  <2>5. TasksOwnInv'
    BY <1>1, <2>1, <2>2 DEF TasksOwnInv, SincePass
  <2>6. SnapshotInv' /\ PriorInv'
    BY <2>1, <2>2 DEF SnapshotInv, PriorInv, SincePass
  <2> QED BY <2>3, <2>4, <2>5, <2>6
<1>3. CASE EnterBeacon
  <2>1. /\ beacon' = TRUE /\ power' = Nothing /\ received' = 0 /\ heard' = Nothing
        /\ snapshot' = [snapshot EXCEPT !.prior = TRUE] /\ missed' = noticed
        /\ UNCHANGED <<own, noticed, source, passed>>
    BY <1>3 DEF EnterBeacon
  <2>2. /\ snapshot' \in ValueSet
        /\ snapshot'.kind = snapshot.kind /\ snapshot'.age = snapshot.age
    BY <2>1 DEF PowerTypeOK, ValueSet
  <2>3. PowerTypeOK'
    BY <1>1, <2>1, <2>2 DEF PowerTypeOK
  <2>4. MissionsOwnInv' /\ TasksOwnInv' /\ RenewedInv'
    BY <2>1 DEF MissionsOwnInv, TasksOwnInv, RenewedInv
  <2>5. SnapshotInv' /\ PriorInv'
    BY <2>1, <2>2 DEF SnapshotInv, PriorInv, SincePass
  <2> QED BY <2>3, <2>4, <2>5
<1>4. CASE LeaveBeacon
  <2>1. /\ beacon' = FALSE
        /\ UNCHANGED <<power, received, own, noticed, snapshot, source, passed, missed>>
        /\ heard' = heard
    BY <1>4 DEF LeaveBeacon, cacheVars, taskVars
  <2>2. PowerTypeOK'
    BY <2>1 DEF PowerTypeOK
  <2>3. MissionsOwnInv' /\ TasksOwnInv' /\ SnapshotInv'
    BY <2>1 DEF MissionsOwnInv, TasksOwnInv, SnapshotInv, SincePass
  <2>4. RenewedInv' /\ PriorInv'
    BY <2>1 DEF RenewedInv, PriorInv
  <2> QED BY <2>2, <2>3, <2>4
<1> QED BY <1>2, <1>3, <1>4

\* A pass of the task in a recovery it has noticed: what it keeps is Mission's
\* last voltage or what it had, and no voltage that is too old.
LEMMA RefreshKeepsCache ==
    ASSUME CacheInv, Pass, beacon, noticed
    PROVE  /\ snapshot' \in ValueSet /\ power' = snapshot' /\ received' = 0 /\ own' = TRUE
           /\ source' \in 0 .. MaxAge \cup {Nothing}
           /\ snapshot'.kind = "sample" =>
                 /\ source' # Nothing /\ source' = snapshot'.age
                 /\ snapshot'.age <= Freshness
           /\ snapshot'.prior => missed
<1> USE DEF CacheInv
<1> DEFINE current == IF ExternallyUpdated THEN power ELSE snapshot
           age == SourceOf(ExternallyUpdated)
           tooOld == age # Nothing /\ age > Freshness
<1>1. /\ snapshot' = IF tooOld THEN StaleSnapshot(current) ELSE current
      /\ source' = IF tooOld THEN Nothing ELSE age
      /\ power' = snapshot' /\ received' = 0 /\ own' = TRUE
  BY DEF Pass, NoticeEntered, NoticeLeft, Refresh, Write
<1>2. /\ current \in ValueSet /\ age \in 0 .. MaxAge \cup {Nothing}
      /\ current.prior => missed
      /\ current.kind = "sample" => age # Nothing /\ age = current.age
  <2>1. CASE ExternallyUpdated
    BY <2>1, PowerAssumption
       DEF ExternallyUpdated, SourceOf, MissionsOwnInv, PowerTypeOK, MaxAge
  <2>2. CASE ~ ExternallyUpdated
    BY <2>2 DEF SourceOf, SnapshotInv, PriorInv, PowerTypeOK
  <2> QED BY <2>1, <2>2
<1> HIDE DEF current, age
<1>3. Freshness \in Nat /\ MaxAge \in Nat
  BY PowerAssumption DEF MaxAge
<1>4. CASE tooOld
  <2>1. snapshot' = StaleSnapshot(current) /\ source' = Nothing
    BY <1>1, <1>4
  <2>2. /\ StaleSnapshot(current) \in ValueSet
        /\ StaleSnapshot(current).kind = "stale"
        /\ StaleSnapshot(current).prior = current.prior
    BY <1>2 DEF StaleSnapshot, ValueSet
  <2> QED BY <1>1, <1>2, <2>1, <2>2
<1>5. CASE ~ tooOld
  <2>1. snapshot' = current /\ source' = age
    BY <1>1, <1>5
  <2>2. age # Nothing => age \in Nat /\ age <= Freshness
    BY <1>2, <1>3, <1>5
  <2> QED BY <1>1, <1>2, <2>1, <2>2
<1> QED BY <1>4, <1>5

\* The task's pass keeps the invariant.
LEMMA PassKeepsCache ==
    ASSUME CacheInv, Pass
    PROVE  CacheInv'
<1> USE DEF CacheInv
<1>1. /\ passed' = TRUE /\ noticed' = beacon /\ beacon' = beacon
      /\ missed' = (missed /\ beacon /\ snapshot'.prior)
      /\ beacon \in BOOLEAN /\ noticed \in BOOLEAN
      /\ heard' = heard /\ heard \in 0 .. MaxAge \cup {Nothing}
  BY PowerTypes DEF Pass
<1>2. 0 \in 0 .. MaxAge /\ Freshness \in Nat
  BY PowerAssumption DEF MaxAge
<1>3. CASE beacon /\ ~ noticed
  <2>1. /\ snapshot' = Unavailable /\ source' = Nothing /\ power' = Unavailable
        /\ received' = 0 /\ own' = TRUE
    BY <1>3 DEF Pass, NoticeEntered, NoticeLeft, Refresh, Write
  <2>2. Unavailable \in ValueSet /\ Unavailable.kind = "unavailable" /\ ~ Unavailable.prior
    BY <1>2 DEF Unavailable, Value, ValueSet
  <2>3. PowerTypeOK'
    BY <1>1, <1>2, <2>1, <2>2 DEF PowerTypeOK
  <2>4. MissionsOwnInv' /\ TasksOwnInv' /\ RenewedInv'
    BY <1>1, <1>3, <2>1, <2>2 DEF MissionsOwnInv, TasksOwnInv, RenewedInv, SincePass
  <2>5. SnapshotInv' /\ PriorInv'
    BY <2>1, <2>2 DEF SnapshotInv, PriorInv
  <2> QED BY <2>3, <2>4, <2>5
<1>4. CASE beacon /\ noticed
  <2>1. /\ snapshot' \in ValueSet /\ power' = snapshot' /\ received' = 0 /\ own' = TRUE
        /\ source' \in 0 .. MaxAge \cup {Nothing}
        /\ snapshot'.kind = "sample" =>
              /\ source' # Nothing /\ source' = snapshot'.age
              /\ snapshot'.age <= Freshness
        /\ snapshot'.prior => missed
    BY <1>4, RefreshKeepsCache
  <2>2. PowerTypeOK'
    BY <1>1, <1>2, <2>1 DEF PowerTypeOK
  <2>3. SincePass' = 0
    BY <1>1 DEF SincePass
  <2>4. \A n : n <= Freshness + 0 <=> n <= Freshness
    BY <1>2
  <2>5. MissionsOwnInv' /\ TasksOwnInv' /\ RenewedInv'
    BY <1>1, <1>2, <1>4, <2>1, <2>3, <2>4 DEF MissionsOwnInv, TasksOwnInv, RenewedInv
  <2>6. SnapshotInv' /\ PriorInv'
    BY <1>1, <1>2, <1>4, <2>1, <2>3, <2>4 DEF SnapshotInv, PriorInv
  <2> QED BY <2>2, <2>5, <2>6
<1>5. CASE ~ beacon /\ noticed
  <2>1. /\ power' = Nothing /\ received' = 0 /\ own' = FALSE /\ source' = Nothing
        /\ snapshot' = snapshot
    BY <1>5 DEF Pass, NoticeEntered, NoticeLeft, Refresh
  <2>2. PowerTypeOK'
    BY <1>1, <1>2, <2>1 DEF PowerTypeOK
  <2>3. MissionsOwnInv' /\ TasksOwnInv' /\ RenewedInv'
    BY <2>1 DEF MissionsOwnInv, TasksOwnInv, RenewedInv
  <2>4. SnapshotInv' /\ PriorInv'
    BY <1>1, <1>5, <2>1 DEF SnapshotInv, PriorInv
  <2> QED BY <2>2, <2>3, <2>4
<1>6. CASE ~ beacon /\ ~ noticed
  <2>1. UNCHANGED <<power, received, own, source, snapshot>>
    BY <1>6 DEF Pass, NoticeEntered, NoticeLeft, Refresh, cacheVars
  <2>2. PowerTypeOK'
    BY <1>1, <1>2, <2>1 DEF PowerTypeOK
  <2>3. MissionsOwnInv' /\ TasksOwnInv' /\ RenewedInv'
    BY <1>1, <1>6, <2>1 DEF MissionsOwnInv, TasksOwnInv, RenewedInv
  <2>4. SnapshotInv' /\ PriorInv'
    BY <1>1, <1>6 DEF SnapshotInv, PriorInv
  <2> QED BY <2>2, <2>3, <2>4
<1> QED BY <1>1, <1>3, <1>4, <1>5, <1>6

\* A tick makes everything older by one.
LEMMA TickKeepsCache ==
    ASSUME CacheInv, PowerTick
    PROVE  CacheInv'
<1> USE DEF CacheInv
<1>1. /\ passed /\ passed' = FALSE
      /\ received' = (IF power = Nothing THEN 0 ELSE OneOlder(received))
      /\ source' = (IF source = Nothing THEN Nothing ELSE OneOlder(source))
      /\ power' = ValueOlder(power) /\ snapshot' = ValueOlder(snapshot)
      /\ beacon' = beacon /\ own' = own /\ noticed' = noticed /\ missed' = missed
      /\ heard' = (IF heard = Nothing THEN Nothing ELSE OneOlder(heard))
  BY DEF PowerTick
<1>2. /\ 0 \in 0 .. MaxAge /\ Freshness \in Nat /\ MaxAge \in Nat
      /\ Freshness + 1 <= MaxAge /\ Nothing \notin Nat
  BY PowerAssumption DEF MaxAge
<1>3. /\ power \in ValueSet \cup {Nothing} /\ snapshot \in ValueSet
      /\ received \in 0 .. MaxAge /\ source \in 0 .. MaxAge \cup {Nothing}
      /\ heard \in 0 .. MaxAge \cup {Nothing}
      /\ \A v \in ValueSet : v.age \in 0 .. MaxAge
  BY PowerTypes DEF ValueSet
<1>4. SincePass = 0 /\ SincePass' = 1
  BY <1>1 DEF SincePass
<1>5. \A age \in 0 .. MaxAge :
          /\ OneOlder(age) \in 0 .. MaxAge
          /\ age <= Freshness => OneOlder(age) <= Freshness + 1
          /\ age <= 0 => OneOlder(age) <= 1
  BY <1>2, OneOlderAge
<1>6. /\ power' = Nothing <=> power = Nothing
      /\ power' \in ValueSet \cup {Nothing}
      /\ power # Nothing => /\ power'.kind = power.kind /\ power'.prior = power.prior
                            /\ power.kind = "sample" => power'.age = OneOlder(power.age)
  BY <1>1, <1>3, ValueOlderIs, NothingAssumption
<1>7. /\ snapshot' \in ValueSet
      /\ snapshot'.kind = snapshot.kind /\ snapshot'.prior = snapshot.prior
      /\ snapshot.kind = "sample" => snapshot'.age = OneOlder(snapshot.age)
  <2>1. snapshot # Nothing
    BY <1>3, NothingAssumption
  <2> QED BY <1>1, <1>3, <2>1, ValueOlderIs
<1>8. PowerTypeOK'
  <2>1. /\ received' \in 0 .. MaxAge /\ source' \in 0 .. MaxAge \cup {Nothing}
        /\ heard' \in 0 .. MaxAge \cup {Nothing}
    BY <1>1, <1>2, <1>3, <1>5
  <2> QED BY <1>1, <1>6, <1>7, <2>1 DEF PowerTypeOK
<1>9. MissionsOwnInv'
  BY <1>1, <1>6 DEF MissionsOwnInv
<1>10. TasksOwnInv'
  <2>1. power # Nothing /\ own /\ power.kind = "sample" =>
            OneOlder(power.age) <= Freshness + 1
    <3>1. power # Nothing => power.age \in 0 .. MaxAge
      BY <1>3
    <3> QED BY <1>2, <1>4, <1>5, <3>1 DEF TasksOwnInv
  <2> QED BY <1>1, <1>4, <1>6, <2>1 DEF TasksOwnInv
<1>11. RenewedInv'
  BY <1>1, <1>3, <1>4, <1>5, <1>6 DEF RenewedInv
<1>12. SnapshotInv'
  <2> SUFFICES ASSUME noticed, snapshot.kind = "sample"
               PROVE  /\ source' # Nothing /\ source' = snapshot'.age
                      /\ snapshot'.age <= Freshness + 1
    BY <1>1, <1>4, <1>7 DEF SnapshotInv
  <2>1. /\ source # Nothing /\ source = snapshot.age /\ snapshot.age <= Freshness
        /\ snapshot.age \in 0 .. MaxAge
    BY <1>2, <1>3, <1>4 DEF SnapshotInv
  <2>2. source' = OneOlder(snapshot.age) /\ snapshot'.age = OneOlder(snapshot.age)
    BY <1>1, <1>7, <2>1
  <2>3. OneOlder(snapshot.age) <= Freshness + 1 /\ OneOlder(snapshot.age) # Nothing
    BY <1>2, <1>5, <2>1
  <2> QED BY <2>2, <2>3
<1>13. PriorInv'
  BY <1>1, <1>6, <1>7 DEF PriorInv
<1> QED BY <1>8, <1>9, <1>10, <1>11, <1>12, <1>13

\* Every step keeps the invariant.
LEMMA CacheNext ==
    ASSUME CacheInv, [Next]_vars
    PROVE  CacheInv'
<1>1. CASE UNCHANGED powerVars
  BY <1>1 DEF powerVars, cacheVars, taskVars, CacheInv, PowerTypeOK, MissionsOwnInv,
     TasksOwnInv, RenewedInv, SnapshotInv, PriorInv, SincePass
<1> QED BY <1>1, OwnerKeepsCache, PassKeepsCache, TickKeepsCache
        DEF Next, PowerNext, vars

\* However recovery_power_cache_task renews, replaces and clears the entry it shares
\* with the CAN owner, the entry tells the truth about Mission's power data: their
\* age, their recovery, and that there are none.
THEOREM PowerIsHonest == Spec => []PowerInv
<1>1. CacheInv => PowerInv
  <2> SUFFICES ASSUME CacheInv PROVE PowerInv
    OBVIOUS
  <2> USE DEF CacheInv
  <2>1. /\ Freshness \in Nat /\ Freshness >= 1 /\ Fresh \in Nat /\ Fresh >= 1
        /\ SincePass \in {0, 1} /\ received \in Nat
        /\ power # Nothing => power.age \in Nat
    BY PowerAssumption DEF MaxAge, SincePass, PowerTypeOK, ValueSet
  <2>2. BeaconIsHonest
    <3> SUFFICES ASSUME beacon, power # Nothing, power.kind = "sample"
                 PROVE  power.age <= Freshness + 1
      BY DEF BeaconIsHonest, Shown
    <3>1. CASE own
      BY <2>1, <3>1 DEF TasksOwnInv
    <3>2. CASE ~ own
      BY <2>1, <3>2 DEF MissionsOwnInv, RenewedInv
    <3> QED BY <3>1, <3>2
  <2>3. BeaconIsFed
    BY <2>1 DEF BeaconIsFed, RenewedInv
  <2>4. CacheIsMissions
    BY DEF CacheIsMissions, MissionsOwnInv, TasksOwnInv
  <2>5. NothingFromBefore
    BY DEF NothingFromBefore, PriorInv
  <2> QED BY <2>2, <2>3, <2>4, <2>5 DEF PowerInv
<1> QED BY <1>1, CacheInit, CacheNext, PTL DEF Spec

\* In a recovery the task has noticed, Mission's last PowerTime is in the cache, not yet
\* looked at, or is the task's snapshot; in the cache is then the snapshot, or a newer
\* value that bears the time of the task's writing.
HeardInv ==
    beacon /\ heard # Nothing =>
        /\ noticed /\ power # Nothing
        /\ ~ own => power.kind = "sample" /\ power.age = heard
        /\ own /\ heard <= Freshness =>
              /\ power.kind = "sample" /\ power.age <= heard
              /\ snapshot.kind = "sample" /\ snapshot.age = heard

\* The steps of the CAN owner keep what Mission sent last.
LEMMA OwnerKeepsHeard ==
    ASSUME CacheInv, HeardInv,
           \/ \E same_ms \in BOOLEAN : ReceivePower(same_ms)
           \/ EnterBeacon \/ LeaveBeacon
    PROVE  HeardInv'
<1>1. ASSUME NEW same_ms \in BOOLEAN, ReceivePower(same_ms) PROVE HeardInv'
  <2> DEFINE new == Value("sample", 0, FALSE)
  <2>1. /\ power' = new /\ own' = same_ms /\ (same_ms => own)
        /\ heard' = (IF beacon /\ noticed /\ ~ same_ms THEN 0 ELSE heard)
        /\ beacon' = beacon /\ noticed' = noticed /\ snapshot' = snapshot
    BY <1>1 DEF ReceivePower, taskVars
  <2>2. new # Nothing /\ new.kind = "sample" /\ new.age = 0
    <3>1. new \in ValueSet
      BY PowerAssumption DEF Value, ValueSet, MaxAge
    <3> QED BY <3>1, NothingAssumption DEF Value
  <2> HIDE DEF new
  <2>3. CASE same_ms
    <3>1. heard # Nothing => 0 <= heard
      BY DEF CacheInv, PowerTypeOK
    <3> QED BY <2>1, <2>2, <2>3, <3>1 DEF HeardInv
  <2>4. CASE ~ same_ms
    BY <2>1, <2>2, <2>4 DEF HeardInv
  <2> QED BY <2>3, <2>4
<1>2. CASE EnterBeacon
  BY <1>2 DEF EnterBeacon, HeardInv
<1>3. CASE LeaveBeacon
  BY <1>3 DEF LeaveBeacon, HeardInv
<1> QED BY <1>1, <1>2, <1>3

\* So does the task's pass, which makes the last PowerTime its snapshot, or keeps it.
LEMMA PassKeepsHeard ==
    ASSUME CacheInv, HeardInv, Pass
    PROVE  HeardInv'
<1> SUFFICES ASSUME beacon, heard # Nothing
             PROVE  /\ noticed' /\ power' # Nothing /\ own'
                    /\ heard <= Freshness =>
                          /\ power'.kind = "sample" /\ power'.age <= heard
                          /\ snapshot'.kind = "sample" /\ snapshot'.age = heard
  BY DEF Pass, HeardInv
<1>1. /\ noticed /\ power # Nothing /\ heard \in Nat /\ Freshness \in Nat
      /\ ~ own => power.kind = "sample" /\ power.age = heard
      /\ own /\ heard <= Freshness => snapshot.kind = "sample" /\ snapshot.age = heard
  BY PowerAssumption DEF HeardInv, CacheInv, PowerTypeOK, MaxAge
<1>2. /\ snapshot' \in ValueSet /\ power' = snapshot' /\ own' = TRUE
      /\ noticed' = beacon
  BY <1>1, RefreshKeepsCache DEF Pass
<1>3. ASSUME heard <= Freshness
      PROVE  snapshot'.kind = "sample" /\ snapshot'.age = heard
  <2> DEFINE current == IF ExternallyUpdated THEN power ELSE snapshot
             age == SourceOf(ExternallyUpdated)
             tooOld == age # Nothing /\ age > Freshness
  <2>1. snapshot' = IF tooOld THEN StaleSnapshot(current) ELSE current
    BY <1>1 DEF Pass, NoticeEntered, NoticeLeft, Refresh
  <2>2. current.kind = "sample" /\ current.age = heard /\ age = heard
    <3>1. CASE own
      BY <1>1, <1>3, <3>1 DEF ExternallyUpdated, SourceOf, SnapshotInv, CacheInv
    <3>2. CASE ~ own
      BY <1>1, <3>2 DEF ExternallyUpdated, SourceOf, MissionsOwnInv, CacheInv
    <3> QED BY <3>1, <3>2
  <2> HIDE DEF current, age
  <2>3. ~ tooOld
    BY <1>1, <1>3, <2>2
  <2> QED BY <2>1, <2>2, <2>3
<1>4. power' # Nothing
  BY <1>2, NothingAssumption
<1>5. heard <= heard
  BY <1>1
<1> QED BY <1>2, <1>3, <1>4, <1>5

\* And so does time, by which both get older.
LEMMA TickKeepsHeard ==
    ASSUME CacheInv, HeardInv, PowerTick
    PROVE  HeardInv'
<1> SUFFICES ASSUME beacon, heard' # Nothing
             PROVE  /\ noticed' /\ power' # Nothing
                    /\ ~ own => power'.kind = "sample" /\ power'.age = heard'
                    /\ own /\ heard' <= Freshness =>
                          /\ power'.kind = "sample" /\ power'.age <= heard'
                          /\ snapshot'.kind = "sample" /\ snapshot'.age = heard'
  BY DEF PowerTick, HeardInv
<1>1. /\ heard # Nothing /\ heard' = OneOlder(heard) /\ noticed' = noticed
      /\ power' = ValueOlder(power) /\ snapshot' = ValueOlder(snapshot)
  BY DEF PowerTick
<1>2. /\ power \in ValueSet \cup {Nothing} /\ snapshot \in ValueSet
      /\ heard \in 0 .. MaxAge /\ MaxAge \in Nat /\ Freshness \in Nat
      /\ Freshness < MaxAge
      /\ \A v \in ValueSet : v.age \in 0 .. MaxAge /\ v # Nothing
  BY <1>1, PowerTypes, PowerAssumption, NothingAssumption DEF CacheInv, MaxAge, ValueSet
<1>3. /\ noticed /\ power # Nothing
      /\ ~ own => power.kind = "sample" /\ power.age = heard
      /\ own /\ heard <= Freshness =>
            /\ power.kind = "sample" /\ power.age <= heard
            /\ snapshot.kind = "sample" /\ snapshot.age = heard
  BY <1>1 DEF HeardInv
<1>4. /\ power' # Nothing /\ power'.kind = power.kind
      /\ power.kind = "sample" => power'.age = OneOlder(power.age)
      /\ snapshot'.kind = snapshot.kind
      /\ snapshot.kind = "sample" => snapshot'.age = OneOlder(snapshot.age)
  BY <1>1, <1>2, <1>3, ValueOlderIs
<1>5. /\ \A a, b \in 0 .. MaxAge : a <= b => OneOlder(a) <= OneOlder(b)
      /\ heard' <= Freshness => heard <= Freshness
  BY <1>1, <1>2, OneOlderAge
<1>6. power.age \in 0 .. MaxAge
  BY <1>2, <1>3
<1>7. CASE own
  <2>1. ASSUME heard' <= Freshness PROVE power.age <= heard /\ snapshot.age = heard
    BY <1>3, <1>5, <1>7, <2>1
  <2>2. heard' <= Freshness => power'.age <= heard'
    BY <1>1, <1>2, <1>3, <1>4, <1>5, <1>6, <1>7, <2>1
  <2> QED BY <1>1, <1>3, <1>4, <1>5, <1>7, <2>1, <2>2
<1>8. CASE ~ own
  BY <1>1, <1>3, <1>4, <1>8
<1> QED BY <1>1, <1>3, <1>4, <1>7, <1>8

\* What Mission sends in recovery is what the beacon shows, or something newer, until it
\* is too old, for every freshness and however often the task renews the entry.
THEOREM LatestPowerIsShown == Spec => []LatestIsShown
<1>1. Init => CacheInv /\ HeardInv
  BY CacheInit DEF Init, PowerInit, HeardInv
<1>2. CacheInv /\ HeardInv /\ [Next]_vars => (CacheInv /\ HeardInv)'
  <2> SUFFICES ASSUME CacheInv, HeardInv, [Next]_vars PROVE CacheInv' /\ HeardInv'
    OBVIOUS
  <2>1. ASSUME UNCHANGED powerVars PROVE HeardInv'
    BY <2>1 DEF powerVars, cacheVars, taskVars, HeardInv
  <2>2. HeardInv'
    BY <2>1, OwnerKeepsHeard, PassKeepsHeard, TickKeepsHeard DEF Next, PowerNext, vars
  <2> QED BY <2>2, CacheNext
<1>3. CacheInv /\ HeardInv => LatestIsShown
  <2> SUFFICES ASSUME CacheInv, HeardInv, beacon, noticed, heard # Nothing,
                      heard <= Freshness
               PROVE  Shown = "sample" /\ power.age <= heard
    BY DEF LatestIsShown
  <2>1. /\ received \in Nat /\ Fresh \in Nat /\ Fresh >= 1 /\ SincePass \in {0, 1}
        /\ heard \in Nat
    BY PowerAssumption DEF CacheInv, PowerTypeOK, MaxAge, SincePass
  <2>2. power # Nothing /\ power.kind = "sample" /\ power.age <= heard
    BY <2>1 DEF HeardInv
  <2>3. received <= Fresh
    BY <2>1, <2>2 DEF CacheInv, RenewedInv
  <2> QED BY <2>2, <2>3 DEF Shown
<1> QED BY <1>1, <1>2, <1>3, PTL DEF Spec

-----------------------------------------------------------------------------
(* Mission events.                                                         *)

\* n advanced k times by wrapping_add(1), for k < modulus.
Shift(n, k, modulus) == IF n + k < modulus THEN n + k ELSE n + k - modulus

\* last_event_sequence lags Mission's sequence by the events lost since, fewer
\* than the sequence numbers there are.
SequenceLag ==
    /\ lost <= SequenceModulus - 2
    /\ known => last_event_sequence \in {None, sequence}
    /\ known /\ flags # {} => last_event_sequence = sequence
    /\ ~ known => \/ last_event_sequence = None
                     \/ sequence = Shift(last_event_sequence, lost + 1,
                                         SequenceModulus)

\* event_revision leads the envelope's by the events latched since its
\* snapshot, and only those raise fresh flags.
RevisionLead ==
    envelope # None =>
        /\ event_revision = Shift(envelope.revision, arrivals, RevisionModulus)
        /\ arrivals = 0 => fresh = {}

EventInv == EventTypeOK /\ SequenceLag /\ RevisionLead /\ NoEventLost

\* Advancing by less than the modulus, and not by 0, changes a counter.
LEMMA ShiftMoves ==
    ASSUME NEW m \in Nat, m > 1, NEW n \in 0 .. (m - 1), NEW k \in 1 .. (m - 1)
    PROVE  Shift(n, k, m) # n
BY DEF Shift

\* Advancing once more is wrapping_add(1).
LEMMA ShiftSuccessor ==
    ASSUME NEW m \in Nat, m > 1, NEW n \in 0 .. (m - 1), NEW k \in 0 .. (m - 2)
    PROVE  /\ Successor(Shift(n, k, m), m) = Shift(n, k + 1, m)
           /\ Shift(n, 0, m) = n
BY DEF Shift, Successor

\* A repetition is recognised as one only if the event was received before.
LEMMA RepetitionWasReceived ==
    ASSUME EventTypeOK, SequenceLag, IsRepetition
    PROVE  known
<1> SUFFICES ASSUME ~ known PROVE FALSE
  OBVIOUS
<1>1. last_event_sequence = sequence /\ last_event_sequence # None
  BY NoneAssumption DEF IsRepetition, EventTypeOK, Sequence
<1>2. /\ sequence = Shift(last_event_sequence, lost + 1, SequenceModulus)
      /\ last_event_sequence \in Sequence
      /\ lost + 1 \in 1 .. (SequenceModulus - 1)
  BY <1>1, SequenceModulusAssumption DEF SequenceLag, EventTypeOK
<1> QED BY <1>1, <1>2, ShiftMoves, SequenceModulusAssumption DEF Sequence

\* The initial state satisfies the invariant.
LEMMA EventInitInv == EventInit => EventInv
<1> SUFFICES ASSUME EventInit PROVE EventInv
  OBVIOUS
<1>1. 0 \in Sequence /\ 0 \in Revision /\ 0 <= SequenceModulus - 2
      /\ 0 \in 0 .. SequenceModulus
  BY SequenceModulusAssumption, RevisionModulusAssumption DEF Sequence, Revision
<1>2. EventTypeOK
  BY <1>1 DEF EventInit, EventTypeOK
<1>3. SequenceLag
  BY <1>1 DEF EventInit, SequenceLag
<1>4. RevisionLead /\ NoEventLost
  BY DEF EventInit, RevisionLead, NoEventLost
<1> QED BY <1>2, <1>3, <1>4 DEF EventInv

\* Every step of the events keeps their invariant.
LEMMA EventNextInv ==
    ASSUME EventInv, [EventNext]_eventVars
    PROVE  EventInv'
<1> USE DEF EventInv
<1>1. ASSUME NEW raised \in SUBSET Flag, MissionRaises(raised) PROVE EventInv'
  <2> USE <1>1 DEF MissionRaises, latchVars, historyVars
  <2>1. EventTypeOK'
    <3>1. sequence' \in Sequence
      BY SequenceModulusAssumption DEF EventTypeOK, Sequence, Successor
    <3>2. lost' \in 0 .. SequenceModulus
      BY SequenceModulusAssumption DEF EventTypeOK, SequenceLag
    <3> QED BY <3>1, <3>2 DEF EventTypeOK
  <2>2. SequenceLag'
    <3>1. lost' <= SequenceModulus - 2 /\ ~ known'
      BY SequenceModulusAssumption DEF SequenceLag, EventTypeOK
    <3>2. CASE last_event_sequence = None
      BY <3>1, <3>2 DEF SequenceLag
    <3>3. CASE last_event_sequence # None /\ known
      <4>1. last_event_sequence = sequence /\ sequence \in Sequence /\ lost' = 0
        BY <3>3 DEF SequenceLag, EventTypeOK
      <4>2. sequence' = Shift(last_event_sequence, lost' + 1, SequenceModulus)
        BY <4>1, SequenceModulusAssumption DEF Shift, Successor, Sequence
      <4> QED BY <3>1, <4>2 DEF SequenceLag
    <3>4. CASE last_event_sequence # None /\ ~ known
      <4>1. /\ sequence = Shift(last_event_sequence, lost + 1, SequenceModulus)
            /\ last_event_sequence \in Sequence
            /\ lost' = lost + 1 /\ lost + 1 \in 0 .. (SequenceModulus - 2)
        BY <3>4, SequenceModulusAssumption DEF SequenceLag, EventTypeOK
      <4>2. sequence' = Shift(last_event_sequence, lost' + 1, SequenceModulus)
        BY <4>1, ShiftSuccessor, SequenceModulusAssumption DEF Sequence
      <4> QED BY <3>1, <4>2 DEF SequenceLag
    <3> QED BY <3>2, <3>3, <3>4
  <2>3. RevisionLead' /\ NoEventLost'
    BY DEF RevisionLead, NoEventLost
  <2> QED BY <2>1, <2>2, <2>3
<1>2. ASSUME ReceiveEvent PROVE EventInv'
  <2> USE <1>2 DEF ReceiveEvent, Latch
  <2>1. EventTypeOK'
    BY RevisionModulusAssumption DEF EventTypeOK, Revision, Successor
  <2>2. SequenceLag'
    BY DEF SequenceLag
  <2>3. RevisionLead'
    <3> SUFFICES ASSUME envelope # None
                 PROVE  /\ event_revision' = Shift(envelope.revision, arrivals',
                                                   RevisionModulus)
                        /\ arrivals' # 0
      BY DEF RevisionLead
    <3>1. /\ envelope.revision \in Revision /\ arrivals \in 0 .. (RevisionModulus - 2)
          /\ event_revision = Shift(envelope.revision, arrivals, RevisionModulus)
          /\ arrivals' = arrivals + 1
      BY RevisionModulusAssumption DEF RevisionLead, EventTypeOK, Revision
    <3> QED BY <3>1, ShiftSuccessor, RevisionModulusAssumption DEF Revision
  <2>4. NoEventLost'
    BY DEF NoEventLost
  <2> QED BY <2>1, <2>2, <2>3, <2>4
<1>3. ASSUME ReceiveRepetition PROVE EventInv'
  <2>1. known
    BY <1>3, RepetitionWasReceived DEF ReceiveRepetition
  <2>2. UNCHANGED eventVars
    BY <1>3, <2>1 DEF ReceiveRepetition, eventVars, latchVars, missionVars, historyVars,
         EventTypeOK
  <2> QED BY <2>2 DEF eventVars, latchVars, missionVars, historyVars, EventTypeOK,
            SequenceLag, RevisionLead, NoEventLost
<1>4. ASSUME MissionStatusChanges PROVE EventInv'
  BY <1>4 DEF MissionStatusChanges, latchVars, missionVars, historyVars, EventTypeOK,
       SequenceLag, RevisionLead, NoEventLost
<1>5. ASSUME BuildPacket PROVE EventInv'
  <2> USE <1>5 DEF BuildPacket, latchVars, missionVars
  <2>1. PICK events \in SUBSET Flag :
            envelope' = [events |-> events, revision |-> event_revision]
    BY RelayedAssumption DEF Reported, EventTypeOK
  <2>2. EventTypeOK'
    BY <2>1, RevisionModulusAssumption DEF EventTypeOK, Revision
  <2>3. RevisionLead'
    BY <2>1, ShiftSuccessor, RevisionModulusAssumption DEF RevisionLead, EventTypeOK,
       Revision
  <2>4. SequenceLag' /\ NoEventLost'
    BY DEF SequenceLag, NoEventLost
  <2> QED BY <2>2, <2>3, <2>4
<1>6. ASSUME TransmitOk PROVE EventInv'
  <2> USE <1>6 DEF TransmitOk, missionVars, ClearEventFlags
  <2>1. EventTypeOK'
    BY RevisionModulusAssumption DEF EventTypeOK, Revision
  <2>2. SequenceLag' /\ RevisionLead'
    BY DEF SequenceLag, RevisionLead
  <2>3. NoEventLost'
    <3>1. CASE event_revision = envelope.revision
      <4>1. arrivals = 0
        <5> SUFFICES ASSUME arrivals # 0 PROVE FALSE
          OBVIOUS
        <5>1. /\ arrivals \in 1 .. (RevisionModulus - 1)
              /\ envelope.revision \in Revision
              /\ event_revision = Shift(envelope.revision, arrivals,
                                        RevisionModulus)
          BY RevisionModulusAssumption DEF RevisionLead, EventTypeOK, Revision
        <5> QED BY <5>1, <3>1, ShiftMoves, RevisionModulusAssumption DEF Revision
      <4>2. fresh = {}
        BY <4>1 DEF RevisionLead
      <4> QED BY <3>1, <4>2 DEF NoEventLost
    <3>2. CASE event_revision # envelope.revision
      BY <3>2 DEF NoEventLost
    <3> QED BY <3>1, <3>2
  <2> QED BY <2>1, <2>2, <2>3
<1>7. ASSUME DropPacket PROVE EventInv'
  BY <1>7, RevisionModulusAssumption DEF DropPacket, latchVars, missionVars, EventTypeOK,
       Revision, SequenceLag, RevisionLead, NoEventLost
<1>8. ASSUME UNCHANGED eventVars PROVE EventInv'
  BY <1>8 DEF eventVars, latchVars, missionVars, historyVars, EventTypeOK, SequenceLag,
       RevisionLead, NoEventLost
<1> QED BY <1>1, <1>2, <1>3, <1>4, <1>5, <1>6, <1>7, <1>8 DEF EventNext

\* The invariant of the event latch holds in every reachable state.
THEOREM EventInvariant == EventSpec => []EventInv
BY EventInitInv, EventNextInv, PTL DEF EventSpec

\* No raised flag is cleared before a confirmed packet has reported it, for
\* every interleaving of the CAN owner and the LoRa sender.
THEOREM EventsAreNotLost == EventSpec => []NoEventLost
<1>1. EventInv => NoEventLost
  BY DEF EventInv
<1> QED BY <1>1, EventInvariant, PTL

\* A step taken once Mission's latest event is known raises no flag.
LEMMA StepIsQuiet ==
    ASSUME EventInv, [EventNext]_eventVars
    PROVE  RepetitionIsQuiet
<1> SUFFICES ASSUME known
             PROVE  event_flags_latched' \subseteq event_flags_latched
  BY DEF RepetitionIsQuiet
<1>1. ~ ReceiveEvent
  BY DEF ReceiveEvent, EventInv, SequenceLag, IsRepetition
<1> QED BY <1>1 DEF EventNext, MissionRaises, ReceiveRepetition, MissionStatusChanges,
          BuildPacket, TransmitOk, ClearEventFlags, DropPacket, eventVars, latchVars

\* A repeated MissionEvent frame never raises a flag again.
THEOREM RepetitionsAreQuiet == EventSpec => RepetitionIsQuietAlways
<1>1. EventInv /\ [EventNext]_eventVars => [RepetitionIsQuiet]_eventVars
  BY StepIsQuiet
<1> QED BY <1>1, EventInvariant, PTL DEF EventSpec, RepetitionIsQuietAlways
=============================================================================
