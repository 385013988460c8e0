----------------------------- MODULE MissionLink -----------------------------
(***************************************************************************)
(* What the board knows of its link to Mission and tells the ground: the   *)
(* runtime state and error counters of can_communication_task              *)
(* (src/tasks/can_communication.rs), the age of the cached MissionStatus   *)
(* (src/can/cache.rs), and the periodic packet lora_tx_task chooses from   *)
(* them (src/tasks/lora_task_base.rs).                                     *)
(*                                                                         *)
(* Each pass through the loop of the CAN owner handles one event of its    *)
(* select and then publishes its view; while it transmits, and drains the  *)
(* safety queue, it publishes nothing.  Time is counted in ticks.  What the*)
(* frames carry is in the other modules; CAN_TEC, CAN_REC, CAN_HEALTH and  *)
(* the CanObservedStats are only printed and are left out.                 *)
(***************************************************************************)
EXTENDS Integers

CONSTANTS
    Fresh,              \* FRESHNESS_10_HZ_MS (300 ms), in ticks
    Late,               \* ages from here on (1 s) count as a timeout
    HealthInterval,     \* CAN_HEALTH_MONITOR_INTERVAL_MS (100 ms)
    MaxTransmit,        \* CAN_TX_TIMEOUT_MS (20 ms)
    MaxDrain,           \* bound: safety requests sent in a row
    Threshold,          \* CAN_CONSECUTIVE_ERROR_THRESHOLD (3)
    MaxAge,             \* bound: ages are counted up to this
    None

ASSUME TimesAssumption ==
    /\ Fresh \in Nat /\ Late \in Nat /\ Fresh < Late
    /\ HealthInterval \in Nat \ {0} /\ MaxTransmit \in Nat \ {0}
    /\ MaxDrain \in Nat /\ Threshold \in Nat \ {0}
    /\ MaxAge \in Nat /\ None \notin Nat

\* How long the transmissions of one pass may take.
HoldUp == (MaxDrain + 1) * MaxTransmit

\* How long the CAN owner may go without publishing: the transmission it is in,
\* those it drains, and the wait for the next health tick.
Silence == HealthInterval + HoldUp

ASSUME MaxAgeAssumption == MaxAge > Fresh + Silence /\ MaxAge >= Late

VARIABLES
    runtime_state,      \* CanRuntimeState
    tx_errors,          \* consecutive_tx_errors; u8, saturates at Threshold here
    rx_errors,          \* consecutive_rx_errors, likewise
    ticker,             \* ticks until health_ticker fires, negative when late
    owner,              \* "select" or "transmit"
    spent, drained,     \* ticks of this transmission; requests drained so far
    status_age,         \* age of the cached MissionStatus, or None
    invalid,            \* MISSION_STATUS_INVALID_AT_MS is newer than the status
    beacon,             \* RECOVERY_BEACON_ACTIVE
    fallback_health,    \* CAN_FALLBACK_HEALTH
    is_can_error,       \* IS_CAN_ERROR
    controller,         \* external: the TWAI controller
    \* History variables:
    off_age,            \* ticks the controller has been off the bus
    restarts            \* restarts since a frame was last sent or received

counters == <<tx_errors, rx_errors>>
ownerVars == <<ticker, owner, spent, drained>>
cacheVars == <<status_age, invalid, beacon>>
published == <<fallback_health, is_can_error>>
vars == <<runtime_state, counters, ownerVars, cacheVars, published,
          controller, off_age, restarts>>

RuntimeState == {"AwaitingTraffic", "Normal", "BusRecovering", "TxStateUnknown"}
Level == {"Active", "Warning", "Passive"}

\* The controller is on the bus, held off it after a bus-off, or restarted and
\* waiting for the bus to be idle.
Controller == [mode : {"on", "held", "starting"}, level : Level]

\* classify_can_health.
Health == IF controller.mode # "on" THEN "BusOff" ELSE controller.level

\* Latest::freshness.
IsFresh(age) == age # None /\ age <= Fresh

-----------------------------------------------------------------------------
(* The runtime state.                                                      *)

\* transition_runtime, the next state: a timed-out transmission is only forgotten
\* once another one succeeds.
NextRuntime(state, event) ==
    CASE event = "TransmitSucceeded" -> "Normal"
      [] event = "ReceiveSucceeded" ->
            IF state = "TxStateUnknown" THEN "TxStateUnknown" ELSE "Normal"
      [] event = "BusOff" -> "BusRecovering"
      [] event = "TimedOutUnknownState" -> "TxStateUnknown"

RestartAlways(state, event) == event \in {"BusOff", "TimedOutUnknownState"}

\* Mutant: a bus-off in normal operation is left to the controller.
RestartAtFirst(state, event) ==
    event \in {"BusOff", "TimedOutUnknownState"} /\ state = "AwaitingTraffic"

\* transition_runtime, restart_required: not while already recovering.
RestartRequired(state, event) ==
    /\ event \in {"BusOff", "TimedOutUnknownState"}
    /\ state \in {"AwaitingTraffic", "Normal"}

Succeeds(event) ==
    /\ runtime_state' = NextRuntime(runtime_state, event)
    /\ restarts' = 0
    /\ UNCHANGED controller

\* enter_recovering: stop().start() lets a controller that is held off the bus
\* try again.
EnterRecovering(event) ==
    /\ runtime_state' = NextRuntime(runtime_state, event)
    /\ \/ /\ RestartRequired(runtime_state, event)
          /\ controller' = IF controller.mode = "held"
                           THEN [controller EXCEPT !.mode = "starting"]
                           ELSE controller
          /\ restarts' = IF restarts < 2 THEN restarts + 1 ELSE restarts
       \/ /\ ~ RestartRequired(runtime_state, event)
          /\ UNCHANGED <<controller, restarts>>

Undisturbed == UNCHANGED <<runtime_state, controller, restarts>>

\* u8::saturating_add, as far as the comparison with Threshold can tell.
OneMore(errors) == IF errors < Threshold THEN errors + 1 ELSE errors

-----------------------------------------------------------------------------
(* What the CAN owner publishes at the end of a pass.                      *)

FallbackOfHealth(health) ==
    CASE health = "Active" -> 1 [] health = "Warning" -> 2
      [] health = "Passive" -> 3 [] health = "BusOff" -> 4

\* fallback_health_code.
FallbackHealthCode(state, health) ==
    CASE state = "BusRecovering" -> 5
      [] state = "TxStateUnknown" -> 6
      [] OTHER -> FallbackOfHealth(health)

\* publish_error_state.
ErrorState(state, health, tx, rx, age) ==
    \/ state # "Normal" \/ health # "Active"
    \/ tx >= Threshold \/ rx >= Threshold
    \/ ~ IsFresh(age)

PublishErrorOnly ==
    /\ is_can_error' = ErrorState(runtime_state', Health', tx_errors', rx_errors',
                                  status_age')
    /\ UNCHANGED fallback_health

\* publish_health, publish_fallback_health and publish_error_state.
Publish ==
    /\ fallback_health' = FallbackHealthCode(runtime_state', Health')
    /\ is_can_error' = ErrorState(runtime_state', Health', tx_errors', rx_errors',
                                  status_age')

Init ==
    /\ runtime_state = "AwaitingTraffic" /\ tx_errors = 0 /\ rx_errors = 0
    /\ ticker = HealthInterval /\ owner = "select" /\ spent = 0 /\ drained = 0
    /\ status_age = None /\ invalid = FALSE /\ beacon = FALSE
    /\ fallback_health = 1 /\ is_can_error = TRUE
    /\ controller = [mode |-> "on", level |-> "Active"]
    /\ off_age = 0 /\ restarts = 0

-----------------------------------------------------------------------------
(* can_communication_task.                                                 *)

\* Either3::First, polled before the other two.
HealthTick ==
    /\ owner = "select" /\ ticker <= 0
    /\ ticker' = ticker + HealthInterval
    /\ IF Health = "BusOff" THEN EnterRecovering("BusOff") ELSE Undisturbed
    /\ UNCHANGED <<counters, owner, spent, drained, cacheVars, off_age>>
    /\ Publish

\* Either3::Second: a request of one of the two queues.
BeginTransmit ==
    /\ owner = "select" /\ ticker > 0
    /\ owner' = "transmit" /\ spent' = 0 /\ drained' = 0
    /\ UNCHANGED <<runtime_state, counters, ticker, cacheVars, published,
                   controller, off_age, restarts>>

\* The inner loop goes on with a safety request, or the pass ends.
EndTransmit ==
    /\ UNCHANGED <<rx_errors, ticker, cacheVars, off_age>>
    /\ \/ /\ drained < MaxDrain
          /\ drained' = drained + 1 /\ spent' = 0
          /\ UNCHANGED <<owner, published>>
       \/ /\ owner' = "select" /\ drained' = 0 /\ spent' = 0
          /\ Publish

TransmitOk ==
    /\ owner = "transmit" /\ controller.mode = "on"
    /\ tx_errors' = 0
    /\ Succeeds("TransmitSucceeded")
    /\ EndTransmit

\* TransmitFailed and FrameCreateFailed, BusOff, and TimedOutUnknownState.
TransmitError ==
    /\ owner = "transmit"
    /\ tx_errors' = OneMore(tx_errors)
    /\ \/ Undisturbed
       \/ controller.mode # "on" /\ EnterRecovering("BusOff")
       \/ spent = MaxTransmit /\ EnterRecovering("TimedOutUnknownState")
    /\ EndTransmit

\* handle_received_frame, as far as it concerns the link.
FrameEffect(frame) ==
    CASE frame = "MissionStatus" ->
            status_age' = 0 /\ invalid' = FALSE /\ UNCHANGED beacon
      \* invalid_at > valid_at: not within the same tick.
      [] frame = "InvalidMissionStatus" ->
            /\ invalid' \in IF status_age = 0 THEN BOOLEAN ELSE {TRUE}
            /\ UNCHANGED <<status_age, beacon>>
      [] frame = "RecoveryModeCommand" ->
            beacon' = TRUE /\ UNCHANGED <<status_age, invalid>>
      [] frame = "ExitRecoveryStatus" ->
            beacon' = FALSE /\ UNCHANGED <<status_age, invalid>>
      [] frame = "Other" -> UNCHANGED cacheVars

Frame == {"MissionStatus", "InvalidMissionStatus", "RecoveryModeCommand",
          "ExitRecoveryStatus", "Other"}

\* Either3::Third(Ok(frame)).
ReceiveOk(frame) ==
    /\ owner = "select" /\ ticker > 0 /\ controller.mode = "on"
    /\ rx_errors' = 0
    /\ Succeeds("ReceiveSucceeded")
    /\ FrameEffect(frame)
    /\ UNCHANGED <<tx_errors, ownerVars, off_age>>
    /\ Publish

\* Either3::Third(Err(error)).
ReceiveError ==
    /\ owner = "select" /\ ticker > 0
    /\ rx_errors' = OneMore(rx_errors)
    /\ \/ Undisturbed
       \/ controller.mode # "on" /\ EnterRecovering("BusOff")
    /\ UNCHANGED <<tx_errors, ownerVars, cacheVars, off_age>>
    /\ Publish

-----------------------------------------------------------------------------
(* lora_tx_task.                                                           *)

\* fallback_primary_loss_reason; MISSION_SILENT stands for MISSION_STATUS_TIMEOUT
\* and NO_MISSION_TRAFFIC, which differ in the age of the other telemetry.
LossReason ==
    CASE fallback_health = 4 -> "CAN_BUS_OFF"
      [] fallback_health = 5 -> "CAN_RECOVERING"
      [] fallback_health = 6 -> "UNKNOWN"
      [] fallback_health < 4 /\ invalid -> "MISSION_STATUS_INVALID"
      [] fallback_health < 4 /\ ~ invalid /\ status_age = None -> "STARTUP_WAITING"
      [] fallback_health < 4 /\ ~ invalid /\ status_age # None ->
            IF status_age < Late THEN "UNKNOWN" ELSE "MISSION_SILENT"

\* periodic_packet, which lora_tx_task may call at any time: A5 in recovery, A8
\* while the status is not fresh, otherwise a packet of the Mission state with
\* the CAN bit.  A roll packet (A7) says nothing about the link.
PeriodicPacket ==
    IF beacon THEN [kind |-> "A5"]
    ELSE IF ~ IsFresh(status_age) THEN [kind |-> "A8", reason |-> LossReason]
    ELSE [kind |-> "State", can_ok |-> ~ is_can_error]

-----------------------------------------------------------------------------
(* Time, and the TWAI controller (external).                               *)

Older(age) == IF age = None THEN None ELSE IF age < MaxAge THEN age + 1 ELSE age

\* The owner serves its ticker at once unless it is transmitting, and no
\* transmission outlasts its timeout.
Tick ==
    /\ \/ owner = "select" /\ ticker > 0 /\ UNCHANGED spent
       \/ owner = "transmit" /\ spent < MaxTransmit /\ spent' = spent + 1
    /\ ticker' = ticker - 1
    /\ status_age' = Older(status_age)
    /\ off_age' = IF controller.mode = "on" THEN 0 ELSE Older(off_age)
    /\ UNCHANGED <<runtime_state, counters, owner, drained, invalid, beacon,
                   published, controller, restarts>>

ControllerChanges ==
    /\ \/ \E level \in Level :
             controller' = [controller EXCEPT !.level = level]
       \/ controller.mode = "on" /\ controller' = [controller EXCEPT !.mode = "held"]
    /\ UNCHANGED <<runtime_state, counters, ownerVars, cacheVars, published,
                   off_age, restarts>>

\* A restarted controller joins the bus once it has seen it idle.
ControllerJoins ==
    /\ controller.mode = "starting"
    /\ controller' = [mode |-> "on", level |-> "Active"]
    /\ off_age' = 0
    /\ UNCHANGED <<runtime_state, counters, ownerVars, cacheVars, published,
                   restarts>>

Owner == \/ HealthTick \/ BeginTransmit \/ TransmitOk \/ TransmitError
         \/ ReceiveError \/ \E frame \in Frame : ReceiveOk(frame)

Next == Owner \/ Tick \/ ControllerChanges \/ ControllerJoins

Spec == Init /\ [][Next]_vars

-----------------------------------------------------------------------------

Age == 0 .. MaxAge

\* The variables have their types, and the health tick is never later than the
\* transmissions that can hold it up.
TypeOK ==
    /\ runtime_state \in RuntimeState
    /\ tx_errors \in 0 .. Threshold /\ rx_errors \in 0 .. Threshold
    /\ owner \in {"select", "transmit"}
    /\ spent \in 0 .. MaxTransmit /\ drained \in 0 .. MaxDrain
    /\ ticker \in (0 - HoldUp) .. HealthInterval
    /\ status_age \in Age \cup {None}
    /\ invalid \in BOOLEAN /\ beacon \in BOOLEAN
    /\ fallback_health \in 1 .. 6 /\ is_can_error \in BOOLEAN
    /\ controller \in Controller
    /\ off_age \in Age /\ restarts \in 0 .. 2

\* The driver, whose restart loses the frames it has buffered, is restarted at
\* most once until a frame is sent or received again.
OneRestart == restarts <= 1

\* When the CAN owner waits for the next event and shows no CAN error, a frame
\* was exchanged since the last restart, and a MissionStatus has been received
\* recently enough to have been fresh at the last health tick.
NoErrorIsEarned ==
    ~ is_can_error =>
        /\ status_age # None /\ status_age <= Fresh + Silence
        /\ owner = "select" => restarts = 0

\* While the controller is off the bus no packet shows a good CAN link, and an A8
\* packet does not blame the Mission board for the silence, once the CAN owner had
\* time to notice.
OffTheBusIsShown ==
    off_age > Silence =>
        CASE PeriodicPacket.kind = "A8" ->
                PeriodicPacket.reason \in {"CAN_BUS_OFF", "CAN_RECOVERING", "UNKNOWN"}
          [] PeriodicPacket.kind = "State" -> ~ PeriodicPacket.can_ok
          [] OTHER -> TRUE

\* What the LoRa task reads between two passes of the CAN owner is never better than
\* the link was shortly before, and never blames the wrong side.
LinkInv == TypeOK /\ NoErrorIsEarned /\ OffTheBusIsShown

\* A bus-off the CAN owner had time to notice holds the controller off the bus
\* only if the driver was already restarted since a frame got through, or a
\* transmission failed since the last one succeeded; any other bus-off has been
\* answered by a restart.
HeldInTroubleOnly ==
    (controller.mode = "held" /\ off_age > Silence) =>
        restarts = 1 \/ tx_errors > 0
=============================================================================
