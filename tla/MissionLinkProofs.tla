-------------------------- MODULE MissionLinkProofs --------------------------
(***************************************************************************)
(* Proofs about the CAN owner, for all values of the constants: it restarts *)
(* the driver at most once until a frame is sent or received again, what it *)
(* publishes is never better than the link, and a bus-off it had time to    *)
(* notice has been answered.                                               *)
(***************************************************************************)
EXTENDS MissionLink, TLAPS

\* After a restart the runtime state is one from which only a success leads back
\* to a state that restarts.
RestartInv ==
    /\ runtime_state \in RuntimeState
    /\ restarts \in {0, 1}
    /\ restarts = 1 => runtime_state \in {"BusRecovering", "TxStateUnknown"}

\* A success clears the count and leaves a runtime state.
LEMMA SuccessKeepsInv ==
    ASSUME RestartInv,
           NEW event \in {"TransmitSucceeded", "ReceiveSucceeded"},
           Succeeds(event)
    PROVE  RestartInv'
BY DEF RestartInv, Succeeds, NextRuntime, RuntimeState

\* enter_recovering restarts only from a state in which the count is zero.
LEMMA RecoveringKeepsInv ==
    ASSUME RestartInv,
           NEW event \in {"BusOff", "TimedOutUnknownState"},
           EnterRecovering(event)
    PROVE  RestartInv'
BY DEF RestartInv, EnterRecovering, NextRuntime, RestartRequired, RuntimeState

\* Steps that touch neither variable keep the invariant.
LEMMA QuietKeepsInv ==
    ASSUME RestartInv, UNCHANGED <<runtime_state, restarts>>
    PROVE  RestartInv'
BY DEF RestartInv

\* Every step of the specification keeps the invariant.
LEMMA LinkNextInv ==
    ASSUME RestartInv, [Next]_vars
    PROVE  RestartInv'
<1>1. CASE HealthTick
  <2>1. CASE EnterRecovering("BusOff")
    BY <2>1, RecoveringKeepsInv
  <2>2. CASE Undisturbed
    BY <2>2, QuietKeepsInv DEF Undisturbed
  <2>. QED
    BY <1>1, <2>1, <2>2 DEF HealthTick
<1>2. CASE BeginTransmit
  BY <1>2, QuietKeepsInv DEF BeginTransmit
<1>3. CASE TransmitOk
  BY <1>3, SuccessKeepsInv DEF TransmitOk
<1>4. CASE TransmitError
  <2>1. CASE Undisturbed
    BY <2>1, QuietKeepsInv DEF Undisturbed
  <2>2. CASE EnterRecovering("BusOff")
    BY <2>2, RecoveringKeepsInv
  <2>3. CASE EnterRecovering("TimedOutUnknownState")
    BY <2>3, RecoveringKeepsInv
  <2>. QED
    BY <1>4, <2>1, <2>2, <2>3 DEF TransmitError
<1>5. CASE ReceiveError
  <2>1. CASE Undisturbed
    BY <2>1, QuietKeepsInv DEF Undisturbed
  <2>2. CASE EnterRecovering("BusOff")
    BY <2>2, RecoveringKeepsInv
  <2>. QED
    BY <1>5, <2>1, <2>2 DEF ReceiveError
<1>6. CASE \E frame \in Frame : ReceiveOk(frame)
  <2>1. Succeeds("ReceiveSucceeded")
    BY <1>6 DEF ReceiveOk
  <2>. QED
    BY <2>1, SuccessKeepsInv
<1>7. CASE Tick
  BY <1>7, QuietKeepsInv DEF Tick
<1>8. CASE ControllerChanges
  BY <1>8, QuietKeepsInv DEF ControllerChanges
<1>9. CASE ControllerJoins
  BY <1>9, QuietKeepsInv DEF ControllerJoins
<1>10. CASE UNCHANGED vars
  BY <1>10, QuietKeepsInv DEF vars
<1>. QED
  BY <1>1, <1>2, <1>3, <1>4, <1>5, <1>6, <1>7, <1>8, <1>9, <1>10 DEF Next, Owner

\* The driver is restarted at most once between two frames on the bus, whatever
\* errors, timeouts and bus-offs come in whatever order: transition_runtime cannot
\* restart it in a loop.
THEOREM RestartsAreSeparated == Spec => []OneRestart
<1>1. Init => RestartInv
  BY DEF Init, RestartInv, RuntimeState
<1>2. RestartInv /\ [Next]_vars => RestartInv'
  BY LinkNextInv
<1>3. RestartInv => OneRestart
  BY DEF RestartInv, OneRestart
<1>. QED
  BY <1>1, <1>2, <1>3, PTL DEF Spec

-----------------------------------------------------------------------------
(* What the CAN owner shows.  It last published at most                    *)
(* HealthInterval - ticker ticks ago, so ages are compared with that.      *)

\* What the transmissions of this pass have taken at most.
HeldUp == drained * MaxTransmit + spent

\* The ticker is late by less than the transmissions that hold it up.
TickerInv ==
    IF owner = "select" THEN ticker >= 1 - HoldUp ELSE ticker >= 1 - HeldUp

\* What was published was true when it was published.
PublishedInv ==
    ~ is_can_error =>
        /\ status_age # None /\ status_age + ticker <= Fresh + HealthInterval
        /\ owner = "select" => runtime_state = "Normal"

\* A controller that has been off the bus since the last publication was
\* noticed by it.
NoticedInv ==
    /\ controller.mode = "on" => off_age = 0
    /\ off_age + ticker > HealthInterval =>
          /\ fallback_health \in 4 .. 6 /\ is_can_error
          /\ runtime_state \in {"BusRecovering", "TxStateUnknown"}

\* The owner is in trouble only after a restart or a failed transmission.
TroubleInv ==
    /\ runtime_state = "TxStateUnknown" => tx_errors > 0
    /\ runtime_state = "BusRecovering" => restarts = 1 \/ tx_errors > 0

ShownInv ==
    TypeOK /\ RestartInv /\ TickerInv /\ PublishedInv /\ NoticedInv /\ TroubleInv

\* The transmissions of one pass take at most HoldUp.
LEMMA HoldUpBound ==
    /\ HoldUp \in Nat /\ HoldUp >= 1
    /\ TypeOK => HeldUp \in 0 .. HoldUp
<1>1. /\ MaxTransmit \in Nat /\ MaxTransmit >= 1 /\ MaxDrain \in Nat
  BY TimesAssumption
<1>2. MaxDrain * MaxTransmit \in Nat
  BY <1>1
<1>3. HoldUp = MaxDrain * MaxTransmit + MaxTransmit
  BY <1>1 DEF HoldUp
<1>4. ASSUME TypeOK PROVE HeldUp \in 0 .. HoldUp
  <2>1. /\ drained \in Nat /\ spent \in Nat /\ spent <= MaxTransmit
        /\ MaxDrain - drained \in Nat
    BY <1>1, <1>4 DEF TypeOK
  <2>2. /\ drained * MaxTransmit \in Nat /\ (MaxDrain - drained) * MaxTransmit \in Nat
    BY <1>1, <2>1
  <2>3. MaxDrain * MaxTransmit = (MaxDrain - drained) * MaxTransmit + drained * MaxTransmit
    BY <1>1, <2>1
  <2> QED BY <1>1, <1>2, <1>3, <2>1, <2>2, <2>3 DEF HeldUp
<1> QED BY <1>1, <1>2, <1>3, <1>4

\* A transmission that outlasts its timeout is over before the next begins.
LEMMA HeldUpNext ==
    ASSUME TypeOK, drained' = drained + 1, spent' = 0
    PROVE  \E h \in Int : HeldUp' = h /\ h >= HeldUp
<1>1. /\ drained \in Nat /\ spent \in Nat /\ spent <= MaxTransmit
      /\ MaxTransmit \in Nat
  BY TimesAssumption DEF TypeOK
<1>2. (drained + 1) * MaxTransmit = drained * MaxTransmit + MaxTransmit
  BY <1>1
<1>3. drained * MaxTransmit \in Nat
  BY <1>1
<1> QED BY <1>1, <1>2, <1>3 DEF HeldUp

\* The initial state, in which nothing has been published, satisfies it.
LEMMA ShownInit == Init => ShownInv
<1> SUFFICES ASSUME Init PROVE ShownInv
  OBVIOUS
<1>1. HoldUp \in Nat /\ HoldUp >= 1
  BY HoldUpBound
<1>2. TypeOK
  <2>1. /\ tx_errors \in 0 .. Threshold /\ rx_errors \in 0 .. Threshold
        /\ spent \in 0 .. MaxTransmit /\ drained \in 0 .. MaxDrain
        /\ ticker \in (0 - HoldUp) .. HealthInterval
        /\ fallback_health \in 1 .. 6 /\ off_age \in Age /\ restarts \in 0 .. 2
    BY <1>1, TimesAssumption, MaxAgeAssumption DEF Init, Age
  <2>2. controller \in Controller /\ runtime_state \in RuntimeState
    BY DEF Init, RuntimeState, Controller, Level
  <2> QED BY <2>1, <2>2, Zenon DEF Init, TypeOK
<1>3. RestartInv /\ TickerInv /\ PublishedInv /\ NoticedInv /\ TroubleInv
  BY <1>1, TimesAssumption DEF Init, RestartInv, RuntimeState, TickerInv, PublishedInv,
     NoticedInv, TroubleInv
<1> QED BY <1>2, <1>3 DEF ShownInv

\* A controller that was off the bus at the last health tick has put the owner in
\* trouble, which lasts as long as nothing gets through.
TroubleLasts ==
    controller.mode # "on" /\ off_age + ticker > HealthInterval =>
        runtime_state \in {"BusRecovering", "TxStateUnknown"}

\* At the end of a pass what is published is true.
LEMMA PublishIsTrue ==
    ASSUME TypeOK', Publish,
           controller'.mode = "on" => off_age' = 0,
           TroubleLasts'
    PROVE  PublishedInv' /\ NoticedInv'
<1>1. HoldUp \in Nat /\ HealthInterval \in Nat /\ Fresh \in Nat
  BY HoldUpBound, TimesAssumption
<1>2. PICK t \in Int : ticker' = t /\ t <= HealthInterval
  BY <1>1 DEF TypeOK
<1>3. PublishedInv'
  <2> SUFFICES ASSUME ~ is_can_error'
               PROVE  /\ status_age' # None
                      /\ status_age' + ticker' <= Fresh + HealthInterval
                      /\ runtime_state' = "Normal"
    BY Zenon DEF PublishedInv
  <2>1. runtime_state' = "Normal" /\ IsFresh(status_age')
    BY Zenon DEF Publish, ErrorState
  <2>2. PICK age \in Nat : status_age' = age /\ age # None /\ age <= Fresh
    BY <2>1, MaxAgeAssumption DEF IsFresh, TypeOK, Age
  <2> QED BY <1>1, <1>2, <2>1, <2>2
<1>4. NoticedInv'
  <2>1. CASE controller'.mode = "on"
    <3>1. ~ (off_age' + ticker' > HealthInterval)
      BY <2>1, <1>1, <1>2
    <3> QED BY <2>1, <3>1, Zenon DEF NoticedInv
  <2>2. CASE controller'.mode # "on"
    <3>1. Health' = "BusOff"
      BY <2>2 DEF Health
    <3>2. fallback_health' \in 4 .. 6 /\ is_can_error'
      BY <3>1 DEF Publish, ErrorState, FallbackHealthCode, FallbackOfHealth
    <3> QED BY <2>2, <3>2, Zenon DEF NoticedInv, TroubleLasts
  <2> QED BY <2>1, <2>2
<1> QED BY <1>3, <1>4

\* fallback_health_code is one of the codes of the A8 packet.
LEMMA PublishTypes ==
    ASSUME Publish, (controller \in Controller)', (runtime_state \in RuntimeState)'
    PROVE  fallback_health' \in 1 .. 6 /\ is_can_error' \in BOOLEAN
<1>1. fallback_health' \in 1 .. 6
  BY DEF Publish, FallbackHealthCode, FallbackOfHealth, Health, Controller, Level,
     RuntimeState
<1>2. is_can_error' \in BOOLEAN
  BY DEF Publish, ErrorState
<1> QED BY <1>1, <1>2

\* enter_recovering leaves the owner in trouble, with a restart or an error to
\* show for it, and no controller on the bus that was not.
LEMMA RecoveringShows ==
    ASSUME TypeOK, TroubleInv, RestartInv,
           NEW event \in {"BusOff", "TimedOutUnknownState"}, EnterRecovering(event),
           tx_errors' \in Nat, tx_errors' >= tx_errors,
           event = "TimedOutUnknownState" => tx_errors' > 0
    PROVE  /\ controller' \in Controller
           /\ controller'.mode = "on" <=> controller.mode = "on"
           /\ runtime_state' \in {"BusRecovering", "TxStateUnknown"}
           /\ TroubleInv'
<1>1. controller' \in Controller /\ (controller'.mode = "on" <=> controller.mode = "on")
  BY DEF EnterRecovering, TypeOK, Controller
<1>2. runtime_state' \in {"BusRecovering", "TxStateUnknown"}
  BY DEF EnterRecovering, NextRuntime
<1>3. TroubleInv'
  BY DEF EnterRecovering, NextRuntime, RestartRequired, TroubleInv, TypeOK,
     RuntimeState, RestartInv
<1> QED BY <1>1, <1>2, <1>3

\* A success ends the trouble, or leaves an unconfirmed transmission behind.
LEMMA SuccessShows ==
    ASSUME TypeOK, TroubleInv,
           \/ Succeeds("TransmitSucceeded")
           \/ Succeeds("ReceiveSucceeded") /\ UNCHANGED tx_errors
    PROVE  TroubleInv' /\ runtime_state' \in RuntimeState
BY DEF Succeeds, NextRuntime, TroubleInv, TypeOK, RuntimeState

\* saturating_add counts up to Threshold.
LEMMA OneMoreError ==
    ASSUME NEW errors \in 0 .. Threshold
    PROVE  /\ OneMore(errors) \in 0 .. Threshold /\ OneMore(errors) > 0
           /\ OneMore(errors) >= errors
BY TimesAssumption DEF OneMore

\* The select's passes: the health tick, a frame, and an error of the receiver.
LEMMA SelectShows ==
    ASSUME ShownInv, HealthTick \/ ReceiveError \/ \E frame \in Frame : ReceiveOk(frame)
    PROVE  ShownInv'
<1> USE DEF ShownInv
<1>1. RestartInv'
  BY LinkNextInv DEF Next, Owner
<1>2. HoldUp \in Nat /\ HoldUp >= 1 /\ HealthInterval \in Nat /\ HealthInterval >= 1
  BY HoldUpBound, TimesAssumption
<1>3. ticker \in Int /\ ticker <= HealthInterval /\ ticker >= 1 - HoldUp /\ owner = "select"
  BY <1>2 DEF TypeOK, TickerInv, HealthTick, ReceiveError, ReceiveOk
<1>4. ticker' \in (0 - HoldUp) .. HealthInterval /\ TickerInv'
  BY <1>2, <1>3 DEF TickerInv, HealthTick, ReceiveError, ReceiveOk, ownerVars
<1>5. /\ controller' \in Controller /\ TroubleInv' /\ TroubleLasts'
      /\ controller'.mode = "on" => controller.mode = "on"
  <2>1. tx_errors' \in Nat /\ tx_errors' = tx_errors /\ tx_errors \in Nat
    BY TimesAssumption DEF TypeOK, HealthTick, ReceiveError, ReceiveOk, counters
  <2>2. CASE EnterRecovering("BusOff")
    BY <2>1, <2>2, RecoveringShows DEF TroubleLasts
  <2>3. CASE Undisturbed /\ (controller.mode = "on" \/ ReceiveError)
    <3>1. controller.mode # "on" => ticker' = ticker /\ off_age' = off_age
      BY <2>3 DEF ReceiveError, ownerVars
    <3>2. TroubleLasts'
      BY <2>3, <3>1 DEF Undisturbed, TroubleLasts, NoticedInv
    <3> QED BY <2>1, <2>3, <3>2 DEF Undisturbed, TypeOK, TroubleInv
  <2>4. CASE Succeeds("ReceiveSucceeded") /\ controller.mode = "on"
    BY <2>1, <2>4, SuccessShows DEF Succeeds, TypeOK, TroubleLasts
  <2> QED BY <2>2, <2>3, <2>4 DEF HealthTick, ReceiveError, ReceiveOk, Health
<1>6. off_age' = off_age /\ Publish
  BY DEF HealthTick, ReceiveError, ReceiveOk
<1>7. TypeOK'
  <2>1. rx_errors' \in 0 .. Threshold /\ tx_errors' \in 0 .. Threshold
    BY OneMoreError, TimesAssumption DEF TypeOK, HealthTick, ReceiveError, ReceiveOk, counters
  <2>2. /\ status_age' \in Age \cup {None} /\ invalid' \in BOOLEAN
        /\ beacon' \in BOOLEAN
    <3>1. CASE HealthTick \/ ReceiveError
      BY <3>1 DEF HealthTick, ReceiveError, cacheVars, TypeOK
    <3>2. ASSUME NEW frame \in Frame, ReceiveOk(frame)
          PROVE  /\ status_age' \in Age \cup {None} /\ invalid' \in BOOLEAN
                 /\ beacon' \in BOOLEAN
      <4>1. FrameEffect(frame) /\ 0 \in Age
        BY <3>2, MaxAgeAssumption, TimesAssumption DEF ReceiveOk, Age
      <4>2. invalid \in BOOLEAN /\ beacon \in BOOLEAN
        BY Zenon DEF TypeOK
      <4>3. CASE frame = "InvalidMissionStatus"
        BY <4>1, <4>2, <4>3 DEF FrameEffect, TypeOK
      <4>4. CASE frame # "InvalidMissionStatus"
        <5>1. /\ invalid' \in {invalid, FALSE} /\ beacon' \in {beacon, TRUE, FALSE}
              /\ status_age' \in {status_age, 0}
          BY <4>1, <4>4 DEF FrameEffect, Frame, cacheVars
        <5> QED BY <4>1, <4>2, <5>1 DEF TypeOK
      <4> QED BY <4>3, <4>4
    <3> QED BY <3>1, <3>2
  <2>3. runtime_state' \in RuntimeState /\ restarts' \in 0 .. 2
    BY <1>1 DEF RestartInv
  <2>4. owner' = owner /\ spent' = spent /\ drained' = drained
    BY DEF HealthTick, ReceiveError, ReceiveOk, ownerVars
  <2>5. fallback_health' \in 1 .. 6 /\ is_can_error' \in BOOLEAN
    BY <1>5, <1>6, <2>3, PublishTypes
  <2> QED BY <1>4, <1>5, <1>6, <2>1, <2>2, <2>3, <2>4, <2>5, Zenon DEF TypeOK
<1>8. PublishedInv' /\ NoticedInv'
  BY <1>5, <1>6, <1>7, PublishIsTrue DEF NoticedInv
<1> QED BY <1>1, <1>4, <1>5, <1>7, <1>8

\* The steps of the transmission: its beginning, its success and its failure.
LEMMA TransmitShows ==
    ASSUME ShownInv, TransmitOk \/ TransmitError
    PROVE  ShownInv'
<1> USE DEF ShownInv
<1>1. RestartInv'
  BY LinkNextInv DEF Next, Owner
<1>2. /\ HoldUp \in Nat /\ HoldUp >= 1 /\ HeldUp \in 0 .. HoldUp
      /\ HealthInterval \in Nat /\ MaxDrain \in Nat /\ MaxTransmit \in Nat
  BY HoldUpBound, TimesAssumption
<1>3. /\ ticker' = ticker /\ ticker \in Int /\ ticker <= HealthInterval
      /\ ticker >= 1 - HeldUp /\ owner = "transmit" /\ EndTransmit
  BY <1>2 DEF TypeOK, TickerInv, TransmitOk, TransmitError, EndTransmit
<1>4. /\ controller' \in Controller /\ TroubleInv' /\ TroubleLasts'
      /\ controller'.mode = "on" => controller.mode = "on"
  <2>1. tx_errors \in Nat /\ tx_errors \in 0 .. Threshold
    BY TimesAssumption DEF TypeOK
  <2>2. ASSUME NEW event \in {"BusOff", "TimedOutUnknownState"}, TransmitError,
               EnterRecovering(event)
        PROVE  /\ controller' \in Controller /\ TroubleInv' /\ TroubleLasts'
               /\ controller'.mode = "on" => controller.mode = "on"
    <3>1. tx_errors' \in Nat /\ tx_errors' >= tx_errors /\ tx_errors' > 0
      BY <2>1, <2>2, OneMoreError, TimesAssumption DEF TransmitError
    <3> QED BY <2>2, <3>1, RecoveringShows DEF TroubleLasts
  <2>3. CASE TransmitError /\ Undisturbed
    <3>1. TroubleLasts'
      BY <1>3, <2>3 DEF EndTransmit, Undisturbed, TroubleLasts, NoticedInv
    <3> QED BY <2>1, <2>3, <3>1, OneMoreError
            DEF TransmitError, Undisturbed, TypeOK, TroubleInv
  <2>4. CASE TransmitOk
    BY <2>4, SuccessShows DEF TransmitOk, Succeeds, TypeOK, TroubleLasts
  <2> QED BY <2>2, <2>3, <2>4 DEF TransmitError
<1>5. /\ tx_errors' \in 0 .. Threshold /\ rx_errors' = rx_errors
      /\ UNCHANGED <<status_age, invalid, beacon, off_age>>
      /\ runtime_state' \in RuntimeState /\ restarts' \in 0 .. 2
  <2>1. tx_errors' \in 0 .. Threshold
    BY OneMoreError, TimesAssumption DEF TypeOK, TransmitOk, TransmitError
  <2> QED BY <1>1, <1>3, <2>1 DEF RestartInv, EndTransmit, cacheVars
<1>6. ticker' \in (0 - HoldUp) .. HealthInterval
  BY <1>2, <1>3
<1>7. CASE owner' = "select"
  <2>1. drained' = 0 /\ spent' = 0 /\ Publish
    BY <1>3, <1>7 DEF EndTransmit
  <2>2. fallback_health' \in 1 .. 6 /\ is_can_error' \in BOOLEAN
    BY <1>4, <1>5, <2>1, PublishTypes
  <2>3. spent' \in 0 .. MaxTransmit /\ drained' \in 0 .. MaxDrain
    BY <1>2, <2>1
  <2>4. TypeOK'
    BY <1>4, <1>5, <1>6, <1>7, <2>2, <2>3 DEF TypeOK
  <2>5. TickerInv'
    BY <1>2, <1>3, <1>7 DEF TickerInv
  <2>6. PublishedInv' /\ NoticedInv'
    BY <1>4, <1>5, <2>1, <2>4, PublishIsTrue DEF NoticedInv
  <2> QED BY <1>1, <1>4, <2>4, <2>5, <2>6
<1>8. CASE owner' # "select"
  <2>1. /\ drained < MaxDrain /\ drained' = drained + 1 /\ spent' = 0
        /\ UNCHANGED <<owner, fallback_health, is_can_error>>
    BY <1>3, <1>8 DEF EndTransmit, published
  <2>2. spent' \in 0 .. MaxTransmit /\ drained' \in 0 .. MaxDrain
    BY <1>2, <2>1 DEF TypeOK
  <2>3. TypeOK'
    BY <1>4, <1>5, <1>6, <2>1, <2>2 DEF TypeOK
  <2>4. TickerInv'
    <3>1. PICK h \in Int : HeldUp' = h /\ h >= HeldUp
      BY <2>1, HeldUpNext
    <3> QED BY <1>2, <1>3, <2>1, <3>1 DEF TickerInv
  <2>5. PublishedInv'
    BY <1>3, <1>5, <1>8, <2>1, Zenon DEF PublishedInv
  <2>6. NoticedInv'
    <3>1. controller.mode = "on" => off_age = 0 /\ ~ (off_age + ticker > HealthInterval)
      BY <1>2, <1>3 DEF NoticedInv
    <3> QED BY <1>3, <1>4, <1>5, <2>1, <3>1, Zenon DEF NoticedInv, TroubleLasts
  <2> QED BY <1>1, <1>4, <2>3, <2>4, <2>5, <2>6
<1> QED BY <1>7, <1>8

\* A transmission begins before the health tick is due.
LEMMA BeginShows ==
    ASSUME ShownInv, BeginTransmit
    PROVE  ShownInv'
<1> USE DEF ShownInv, BeginTransmit, published, counters, cacheVars
<1>1. 0 \in 0 .. MaxTransmit /\ 0 \in 0 .. MaxDrain /\ MaxTransmit \in Nat /\ HoldUp \in Nat
  BY HoldUpBound, TimesAssumption
<1>2. TypeOK'
  BY <1>1 DEF TypeOK
<1>3. TickerInv'
  <2>1. HeldUp' = 0
    BY <1>1 DEF HeldUp
  <2> QED BY <1>1, <2>1 DEF TickerInv, TypeOK
<1>4. RestartInv' /\ TroubleInv'
  BY DEF RestartInv, TroubleInv
<1>5. PublishedInv'
  BY Zenon DEF PublishedInv
<1>6. NoticedInv'
  BY DEF NoticedInv
<1> QED BY <1>2, <1>3, <1>4, <1>5, <1>6

\* A tick makes everything older by one, and the ticker later by one.
LEMMA TickShows ==
    ASSUME ShownInv, Tick
    PROVE  ShownInv'
<1> USE DEF ShownInv
<1>1. /\ HoldUp \in Nat /\ HoldUp >= 1 /\ HeldUp \in 0 .. HoldUp
      /\ HealthInterval \in Nat /\ MaxDrain \in Nat /\ MaxTransmit \in Nat
      /\ MaxAge \in Nat /\ Fresh \in Nat
  BY HoldUpBound, TimesAssumption, MaxAgeAssumption
<1>2. /\ ticker \in Int /\ ticker <= HealthInterval /\ ticker' = ticker - 1
      /\ drained \in Nat /\ spent \in Nat /\ off_age \in Nat
  BY <1>1 DEF TypeOK, Tick, Age
<1>3. /\ runtime_state' = runtime_state /\ tx_errors' = tx_errors /\ rx_errors' = rx_errors
      /\ owner' = owner /\ drained' = drained /\ invalid' = invalid /\ beacon' = beacon
      /\ fallback_health' = fallback_health /\ is_can_error' = is_can_error
      /\ controller' = controller /\ restarts' = restarts
  BY DEF Tick, published, counters
<1>4. /\ status_age' \in Age \cup {None}
      /\ status_age' = None <=> status_age = None
      /\ status_age # None => status_age' \in {status_age, status_age + 1}
  BY <1>1, TimesAssumption DEF Tick, Older, TypeOK, Age
<1>5. /\ off_age' \in Age
      /\ controller.mode = "on" => off_age' = 0
      /\ off_age' \in {0, off_age, off_age + 1}
  BY <1>1 DEF Tick, Older, TypeOK, Age
<1>6. TickerInv' /\ ticker' >= 0 - HoldUp /\ spent' \in 0 .. MaxTransmit
  <2>1. CASE owner = "select"
    <3>1. ticker > 0 /\ spent' = spent
      BY <2>1 DEF Tick
    <3> QED BY <1>1, <1>2, <1>3, <2>1, <3>1 DEF TickerInv, TypeOK
  <2>2. CASE owner # "select"
    <3>1. spent' = spent + 1 /\ spent + 1 \in 0 .. MaxTransmit
      BY <1>1, <2>2 DEF Tick, TypeOK
    <3>2. HeldUp' = HeldUp + 1
      <4>1. drained * MaxTransmit \in Nat
        BY <1>1, <1>2
      <4> QED BY <1>2, <1>3, <3>1, <4>1 DEF HeldUp
    <3> QED BY <1>1, <1>2, <1>3, <2>2, <3>1, <3>2 DEF TickerInv
  <2> QED BY <2>1, <2>2
<1>7. ticker' \in (0 - HoldUp) .. HealthInterval
  BY <1>1, <1>2, <1>6
<1>8. TypeOK'
  BY <1>3, <1>4, <1>5, <1>6, <1>7, Zenon DEF TypeOK
<1>9. RestartInv' /\ TroubleInv'
  BY <1>3 DEF RestartInv, TroubleInv
<1>10. PublishedInv'
  <2> SUFFICES ASSUME ~ is_can_error
               PROVE  /\ status_age' # None
                      /\ status_age' + ticker' <= Fresh + HealthInterval
                      /\ owner = "select" => runtime_state = "Normal"
    BY <1>3, Zenon DEF PublishedInv
  <2>1. /\ status_age # None /\ status_age + ticker <= Fresh + HealthInterval
        /\ owner = "select" => runtime_state = "Normal"
    BY Zenon DEF PublishedInv
  <2>2. status_age \in Nat
    BY <2>1 DEF TypeOK, Age
  <2>3. status_age' + ticker' <= Fresh + HealthInterval
    BY <1>1, <1>2, <1>4, <2>1, <2>2
  <2> QED BY <1>4, <2>1, <2>3
<1>11. NoticedInv'
  <2>1. off_age' + ticker' > HealthInterval => off_age + ticker > HealthInterval
    <3>1. PICK age \in Int : off_age' = age /\ age \in {0, off_age, off_age + 1}
      BY <1>2, <1>5
    <3> QED BY <1>1, <1>2, <3>1
  <2> QED BY <1>3, <1>5, <2>1, Zenon DEF NoticedInv
<1> QED BY <1>6, <1>8, <1>9, <1>10, <1>11

\* What the controller does by itself changes nothing that was published.
LEMMA ControllerShows ==
    ASSUME ShownInv, ControllerChanges \/ ControllerJoins
    PROVE  ShownInv'
<1> USE DEF ShownInv
<1>1. /\ UNCHANGED <<runtime_state, tx_errors, rx_errors, ticker, owner, spent, drained,
                     status_age, invalid, beacon, fallback_health, is_can_error, restarts>>
  BY DEF ControllerChanges, ControllerJoins, published, counters, ownerVars, cacheVars
<1>2. HeldUp' = HeldUp
  BY <1>1 DEF HeldUp
<1>3. TickerInv' /\ RestartInv' /\ TroubleInv'
  BY <1>1, <1>2 DEF TickerInv, RestartInv, TroubleInv
<1>4. PublishedInv'
  BY <1>1, Zenon DEF PublishedInv
<1>5. controller' \in Controller
  BY DEF ControllerChanges, ControllerJoins, Controller, Level, TypeOK
<1>6. /\ off_age' \in {off_age, 0} /\ off_age' \in Age
      /\ controller'.mode = "on" => off_age' = 0
  BY TimesAssumption DEF ControllerChanges, ControllerJoins, TypeOK, NoticedInv, Age, Controller
<1>7. TypeOK'
  BY <1>1, <1>5, <1>6, Zenon DEF TypeOK
<1>8. NoticedInv'
  <2>1. off_age' + ticker' > HealthInterval => off_age + ticker > HealthInterval
    <3>1. /\ off_age \in Nat /\ ticker \in Int /\ ticker <= HealthInterval
          /\ HealthInterval \in Nat
      BY HoldUpBound, TimesAssumption, MaxAgeAssumption DEF TypeOK, Age
    <3>2. PICK age \in Int : off_age' = age /\ age \in {0, off_age}
      BY <1>6, <3>1
    <3> QED BY <1>1, <3>1, <3>2
  <2> QED BY <1>1, <1>6, <2>1, Zenon DEF NoticedInv
<1> QED BY <1>3, <1>4, <1>7, <1>8

\* Every step keeps what the CAN owner shows true.
LEMMA ShownNext ==
    ASSUME ShownInv, [Next]_vars
    PROVE  ShownInv'
<1>1. CASE UNCHANGED vars
  BY <1>1 DEF vars, counters, ownerVars, cacheVars, published, ShownInv, TypeOK,
     RestartInv, TickerInv, HeldUp, PublishedInv, NoticedInv, TroubleInv
<1> QED BY <1>1, SelectShows, TransmitShows, BeginShows, TickShows, ControllerShows
        DEF Next, Owner

\* What the LoRa task reads between two passes of the CAN owner is never better than
\* the link was at most Silence before, and an A8 packet never blames Mission for a
\* controller that has been off the bus for longer: LinkInv holds in every state,
\* for every choice of the intervals, timeouts and thresholds.
THEOREM LinkIsShown == Spec => []LinkInv
<1>1. ShownInv => LinkInv
  <2> SUFFICES ASSUME ShownInv PROVE LinkInv
    OBVIOUS
  <2> USE DEF ShownInv
  <2>1. /\ HoldUp \in Nat /\ HealthInterval \in Nat /\ Fresh \in Nat /\ HeldUp \in 0 .. HoldUp
    BY HoldUpBound, TimesAssumption
  <2>2. ticker \in Int /\ ticker >= 0 - HoldUp
    BY <2>1 DEF TypeOK
  <2>3. NoErrorIsEarned
    <3> SUFFICES ASSUME ~ is_can_error
                 PROVE  /\ status_age # None /\ status_age <= Fresh + Silence
                        /\ owner = "select" => restarts = 0
      BY Zenon DEF NoErrorIsEarned
    <3>1. /\ status_age # None /\ status_age + ticker <= Fresh + HealthInterval
          /\ owner = "select" => runtime_state = "Normal"
      BY Zenon DEF PublishedInv
    <3>2. status_age <= Fresh + Silence
      BY <2>1, <2>2, <3>1 DEF TypeOK, Age, Silence
    <3>3. runtime_state = "Normal" => restarts = 0
      BY DEF RestartInv
    <3> QED BY <3>1, <3>2, <3>3
  <2>4. OffTheBusIsShown
    <3> SUFFICES ASSUME off_age > Silence
                 PROVE  CASE PeriodicPacket.kind = "A8" ->
                               PeriodicPacket.reason \in
                                   {"CAN_BUS_OFF", "CAN_RECOVERING", "UNKNOWN"}
                          [] PeriodicPacket.kind = "State" -> ~ PeriodicPacket.can_ok
                          [] OTHER -> TRUE
      BY DEF OffTheBusIsShown
    <3>1. off_age + ticker > HealthInterval
      BY <2>1, <2>2 DEF TypeOK, Age, Silence
    <3>2. fallback_health \in 4 .. 6 /\ is_can_error
      BY <3>1 DEF NoticedInv
    <3>3. LossReason \in {"CAN_BUS_OFF", "CAN_RECOVERING", "UNKNOWN"}
      BY <3>2 DEF LossReason
    <3>4. CASE beacon
      BY <3>4 DEF PeriodicPacket
    <3>5. CASE ~ beacon /\ ~ IsFresh(status_age)
      BY <3>3, <3>5 DEF PeriodicPacket
    <3>6. CASE ~ beacon /\ IsFresh(status_age)
      BY <3>2, <3>6 DEF PeriodicPacket
    <3> QED BY <3>4, <3>5, <3>6
  <2> QED BY <2>3, <2>4 DEF LinkInv
<1> QED BY <1>1, ShownInit, ShownNext, PTL DEF Spec

\* A controller that is held off the bus for longer than the CAN owner can overlook
\* is there because the driver has already been restarted since a frame got through,
\* or because a transmission failed: any other bus-off has been answered.
THEOREM HeldOnlyInTrouble == Spec => []HeldInTroubleOnly
<1>1. ShownInv => HeldInTroubleOnly
  <2> SUFFICES ASSUME ShownInv, controller.mode = "held", off_age > Silence
               PROVE  restarts = 1 \/ tx_errors > 0
    BY DEF HeldInTroubleOnly
  <2> USE DEF ShownInv
  <2>1. HoldUp \in Nat /\ HealthInterval \in Nat /\ HeldUp \in 0 .. HoldUp
    BY HoldUpBound, TimesAssumption
  <2>2. ticker \in Int /\ ticker >= 0 - HoldUp
    BY <2>1 DEF TypeOK
  <2>3. off_age + ticker > HealthInterval
    BY <2>1, <2>2 DEF TypeOK, Age, Silence
  <2> QED BY <2>3 DEF NoticedInv, TroubleInv
<1> QED BY <1>1, ShownInit, ShownNext, PTL DEF Spec
=============================================================================
