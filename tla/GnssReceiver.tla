---------------------------- MODULE GnssReceiver ----------------------------
(***************************************************************************)
(* The GNSS receiver's switch, its sentences and what is made of them.     *)
(* gnss_manager_task runs on core 0: it reads the UART, and switches and   *)
(* configures the receiver when a command arrives.  parse_gnss_task,       *)
(* gnss_time_response_task, the command task and the CAN owner run on core *)
(* 1.  Within a core a task runs from one await to the next undisturbed;   *)
(* between the cores every shared store and every lock is a step.          *)
(*                                                                         *)
(* Time is counted in ticks.  A task that can run does so within a tick,   *)
(* and times are kept as ages: an age nobody can read is kept at zero.     *)
(* Sentences are told apart by what the parsers make of them.              *)
(***************************************************************************)
EXTENDS Naturals, Sequences, FiniteSetsExt

CONSTANTS
    CmdCap,         \* GNSS_CMD_CHANNEL, 2
    LineCap,        \* GNSS_CHANNEL, 5
    Stale,          \* GNSS_STALE_TIMEOUT_MS, in ticks
    Period,         \* ticks between two turns of stale_ticker
    Startup,        \* ticks the receiver is given to start, 500 ms
    AckTimeout,     \* ticks a configuration command's ACK is waited for
    Settings,       \* INIT_COMMANDS that are acknowledged, 8
    None

ASSUME ReceiverAssumption ==
    /\ CmdCap \in Nat \ {0} /\ LineCap \in Nat \ {0}
    /\ Stale \in Nat \ {0} /\ Period \in Nat \ {0}
    /\ Startup \in Nat \ {0} /\ AckTimeout \in Nat \ {0} /\ Settings \in Nat

GnssCommand == {"TurnOn", "TurnOff"}

GnssReceiverState ==
    {"Off", "Starting", "ReceiverDetected", "ConfigurationFailed",
     "ReceiverError", "NoFix", "ValidFix", "InvalidSample", "Stale"}

\* parse_gga finds a position, none, or an error; it is applied in each case.
GgaOutcome == {"ValidFix", "NoFix", "InvalidSample"}

\* parse_rmc_datetime finds a date and time, or an error, and then the sentence is
\* skipped like any other that is neither a GGA nor an RMC.
RmcOutcome == {"Time", "Other"}

\* A sentence, by what is made of it.
Sentence == GgaOutcome \cup RmcOutcome

\* A sentence, and whether it was read before the receiver was last started.
Held == [of : Sentence, old : BOOLEAN]

ASSUME NothingHeld == None \notin Held

VARIABLES
    cmds,           \* GNSS_CMD_CHANNEL
    sender,         \* the command the command task waits to send, or None
    is_on,          \* of the manager
    stage,          \* where the manager is
    acked,          \* configuration commands acknowledged
    waited,         \* ticks waited in this stage
    state,          \* GNSS_TELEMETRY.state
    position,       \* GNSS_TELEMETRY.east, north and height: a fix, or the
                    \* state whose code they show ("Off": not available)
    started_age,    \* of GNSS_TELEMETRY.started_at_ms
    receiver_age,   \* of GNSS_TELEMETRY.last_receiver_at_ms
    fix_age,        \* of GNSS_TELEMETRY.last_fix_at_ms
    valid,          \* GNSS_TIME_VALID
    time_age,       \* of GNSS_TIME_UPDATED_AT_MS
    lines,          \* GNSS_CHANNEL
    held,           \* the sentence parse_gnss_task works on, or None
    due,            \* ticks until stale_ticker is due
    request,        \* CAN_CACHE.time_request: "none", "open" or "answered",
                    \* the last when last_response names it
    \* History variables:
    asked,          \* the command that entered GNSS_CMD_CHANNEL last
    off_age,        \* ticks since the receiver was last switched off
    replied         \* the request's TimeResponse was queued

switchVars == <<cmds, sender, asked>>
managerVars == <<is_on, stage, acked, waited>>
ageVars == <<started_age, receiver_age, fix_age>>
telemetryVars == <<state, position, ageVars>>
timeVars == <<valid, time_age>>
parserVars == <<lines, held, due>>
requestVars == <<request, replied>>
vars == <<switchVars, managerVars, telemetryVars, timeVars, parserVars,
          requestVars, off_age>>

\* The receiver is not read: is off, is being started or could not be.
Silent == {"Off", "Starting", "ConfigurationFailed"}

\* main sends the first TurnOn itself.
Init ==
    /\ cmds = <<"TurnOn">> /\ sender = None /\ asked = "TurnOn"
    /\ is_on = FALSE /\ stage = "idle" /\ acked = 0 /\ waited = 0
    /\ state = "Off" /\ position = "Off"
    /\ started_age = 0 /\ receiver_age = 0 /\ fix_age = 0
    /\ valid = FALSE /\ time_age = 0
    /\ lines = <<>> /\ held = None /\ due = Period
    /\ request = "none" /\ replied = FALSE
    /\ off_age = 0

\* No task has anything to do before some time has passed.
Idle ==
    /\ held = None /\ lines = <<>> /\ due > 0
    /\ sender # None => Len(cmds) = CmdCap
    /\ \/ stage = "idle" /\ cmds = <<>>
       \/ stage = "startup" /\ waited < Startup
       \/ stage = "config" /\ acked < Settings /\ waited < AckTimeout

---------------------------------------------------------------------------
(* Switching: the command task and the CAN owner.                          *)

\* process_local of GnssOn or GnssOff: send().await, and with it every command
\* behind it, waits while the queue is full.  Commands that wait for it in
\* UPLINK_COMMAND_CHANNEL follow at once.
Order(command) ==
    /\ sender = None
    /\ sender' = command
    /\ UNCHANGED <<cmds, asked, managerVars, telemetryVars, timeVars, parserVars,
                   requestVars, off_age>>

SendOrder ==
    /\ sender # None /\ Len(cmds) < CmdCap
    /\ cmds' = Append(cmds, sender) /\ asked' = sender /\ sender' = None
    /\ UNCHANGED <<managerVars, telemetryVars, timeVars, parserVars, requestVars,
                   off_age>>

\* The CAN owner has transmitted a StartSequence: try_send, or nothing.
StartSequence ==
    /\ Len(cmds) < CmdCap
    /\ cmds' = Append(cmds, "TurnOn") /\ asked' = "TurnOn"
    /\ UNCHANGED <<sender, managerVars, telemetryVars, timeVars, parserVars,
                   requestVars, off_age>>

---------------------------------------------------------------------------
(* gnss_manager_task.                                                      *)

\* A complete line has been read: the receiver lives.  A line that finds the
\* queue full is dropped.
ReadLine(sentence) ==
    /\ stage = "idle"
    /\ receiver_age' = 0
    /\ state' = IF state \in {"Starting", "ReceiverError"} THEN "ReceiverDetected"
                ELSE state
    /\ lines' = IF Len(lines) < LineCap
                THEN Append(lines, [of |-> sentence, old |-> FALSE]) ELSE lines
    /\ UNCHANGED <<switchVars, managerVars, position, started_age, fix_age,
                   timeVars, held, due, requestVars, off_age>>

TakeCommand(command) ==
    /\ stage = "idle" /\ cmds # <<>> /\ Head(cmds) = command
    /\ cmds' = Tail(cmds)
    /\ UNCHANGED <<sender, asked>>

TurnOnIgnored ==
    /\ TakeCommand("TurnOn") /\ is_on
    /\ UNCHANGED <<managerVars, telemetryVars, timeVars, parserVars, requestVars,
                   off_age>>

TurnOn ==
    /\ TakeCommand("TurnOn") /\ ~ is_on
    /\ stage' = "starting" /\ valid' = FALSE
    /\ UNCHANGED <<is_on, acked, waited, telemetryVars, time_age, parserVars,
                   requestVars, off_age>>

Aged(sentence) == [sentence EXCEPT !.old = TRUE]

\* set_receiver_state(Starting), and the UART goes to 9600 baud or refuses to.
\* From here on what was read before is old.
SetStarting ==
    /\ stage = "starting"
    /\ stage' \in {"startup", "failing"}
    /\ state' = "Starting" /\ started_age' = 0
    /\ lines' = [i \in DOMAIN lines |-> Aged(lines[i])]
    /\ held' = IF held = None THEN None ELSE Aged(held)
    /\ waited' = 0
    /\ UNCHANGED <<switchVars, is_on, acked, position, receiver_age, fix_age,
                   timeVars, due, requestVars, off_age>>

\* The startup deadline; whatever was read until then is thrown away.
StartupOver ==
    /\ stage = "startup" /\ waited = Startup
    /\ stage' = "config" /\ acked' = 0 /\ waited' = 0
    /\ UNCHANGED <<switchVars, is_on, telemetryVars, timeVars, parserVars,
                   requestVars, off_age>>

\* gnss_setting: a command was acknowledged, the next one is sent.
Acknowledge ==
    /\ stage = "config" /\ acked < Settings
    /\ acked' = acked + 1 /\ waited' = 0
    /\ UNCHANGED <<switchVars, is_on, stage, telemetryVars, timeVars, parserVars,
                   requestVars, off_age>>

\* All commands are acknowledged but the last, which sets the baud rate and
\* whose ACK is not waited for; the UART follows.
Configured ==
    /\ stage = "config" /\ acked = Settings
    /\ is_on' = TRUE /\ stage' = "idle" /\ acked' = 0 /\ waited' = 0
    /\ UNCHANGED <<switchVars, telemetryVars, timeVars, parserVars, requestVars,
                   off_age>>

ConfigRepeats ==
    /\ stage = "config"
    /\ valid' = FALSE /\ acked' = 0 /\ waited' = 0
    /\ UNCHANGED <<switchVars, is_on, stage, telemetryVars, time_age, parserVars,
                   requestVars, off_age>>

\* A write, a flush, a read or the baud rate fails, a command is refused, or its
\* ACK does not come in time.
ConfigFails ==
    /\ stage = "config"
    /\ stage' = "failing" /\ valid' = FALSE /\ acked' = 0 /\ waited' = 0
    /\ UNCHANGED <<switchVars, is_on, telemetryVars, time_age, parserVars,
                   requestVars, off_age>>

SetFailed ==
    /\ stage = "failing"
    /\ stage' = "idle"
    /\ state' = "ConfigurationFailed" /\ position' = "ReceiverError"
    /\ UNCHANGED <<switchVars, is_on, acked, waited, ageVars, timeVars,
                   parserVars, requestVars, off_age>>

TurnOffStillOn ==
    /\ TakeCommand("TurnOff")
    /\ stage' = "turningOff" /\ valid' = FALSE
    /\ UNCHANGED <<is_on, acked, waited, telemetryVars, time_age, parserVars,
                   requestVars, off_age>>

\* The manager's own flag and the time go first ...
TurnOff ==
    /\ TakeCommand("TurnOff")
    /\ is_on' = FALSE /\ stage' = "turningOff" /\ valid' = FALSE
    /\ UNCHANGED <<acked, waited, telemetryVars, time_age, parserVars,
                   requestVars, off_age>>

\* ... then the telemetry, under its lock, and the sentences not yet parsed.
SetOff ==
    /\ stage = "turningOff"
    /\ stage' = "idle"
    /\ state' = "Off" /\ position' = "Off" /\ off_age' = 0
    /\ lines' = <<>>
    /\ UNCHANGED <<switchVars, is_on, acked, waited, ageVars, timeVars, held, due,
                   requestVars>>

Manager ==
    \/ TurnOnIgnored \/ TurnOn \/ SetStarting \/ StartupOver
    \/ Acknowledge \/ Configured \/ ConfigFails \/ SetFailed
    \/ TurnOff \/ SetOff

---------------------------------------------------------------------------
(* parse_gnss_task.                                                        *)

\* The first look at the state: a sentence of a silent receiver is dropped.
TakeSentence ==
    /\ held = None /\ lines # <<>>
    /\ held' = IF state \in Silent \/ Head(lines).of = "Other" THEN None
               ELSE Head(lines)
    /\ lines' = Tail(lines)
    /\ UNCHANGED <<switchVars, managerVars, telemetryVars, timeVars, due,
                   requestVars, off_age>>

\* An RMC: seconds, milliseconds and the time of reception are stored, and then
\* published.  The state is not looked at again.
StoreTime ==
    /\ held # None /\ held.of = "Time"
    /\ held' = None
    /\ valid' = TRUE /\ time_age' = 0
    /\ UNCHANGED <<switchVars, managerVars, telemetryVars, lines, due,
                   requestVars, off_age>>

\* A GGA sets state and position alike.
Show(shown) == state' = shown /\ position' = shown

ApplyUnchecked ==
    /\ held # None /\ held.of # "Time"
    /\ held' = None
    /\ Show(held.of)
    /\ fix_age' = IF held.of = "ValidFix" THEN 0 ELSE fix_age
    /\ UNCHANGED <<switchVars, managerVars, started_age, receiver_age, timeVars,
                   lines, due, requestVars, off_age>>

\* A GGA, with a second look at the state under the lock.
ApplyGga ==
    /\ held # None /\ held.of # "Time"
    /\ held' = None
    /\ IF state \in Silent
       THEN UNCHANGED <<state, position, fix_age>>
       ELSE /\ Show(held.of)
            /\ fix_age' = IF held.of = "ValidFix" THEN 0 ELSE fix_age
    /\ UNCHANGED <<switchVars, managerVars, started_age, receiver_age, timeVars,
                   lines, due, requestVars, off_age>>

ReceiverWatched == {"ReceiverDetected", "NoFix", "InvalidSample"}

\* What the ticker finds to have grown old.
IsStale ==
    \/ state \in ReceiverWatched /\ receiver_age >= Stale
    \/ state = "ValidFix" /\ fix_age >= Stale

StaleTickStarted ==
    /\ held = None /\ due = 0
    /\ due' = Period
    /\ IF IsStale THEN Show("Stale") ELSE UNCHANGED <<state, position>>
    /\ valid' = (valid /\ time_age < Stale)
    /\ UNCHANGED <<switchVars, managerVars, ageVars, time_age, lines, held,
                   requestVars, off_age>>

\* stale_ticker, also for the published time.
StaleTick ==
    /\ held = None /\ due = 0
    /\ due' = Period
    /\ IF state = "Starting" /\ started_age >= Stale THEN Show("ReceiverError")
       ELSE IF IsStale THEN Show("Stale")
       ELSE UNCHANGED <<state, position>>
    /\ valid' = (valid /\ time_age < Stale)
    /\ UNCHANGED <<switchVars, managerVars, ageVars, time_age, lines, held,
                   requestVars, off_age>>

Parser == TakeSentence \/ StoreTime \/ ApplyGga \/ StaleTick

---------------------------------------------------------------------------
(* gnss_time_response_task.                                                *)

\* A TimeRequest reaches the cache and takes the place of the one before.  (The
\* same id in the same millisecond is the same request.)
AskTime ==
    /\ request' = "open" /\ replied' = FALSE
    /\ UNCHANGED <<switchVars, managerVars, telemetryVars, timeVars, parserVars,
                   off_age>>

RespondHoping ==
    /\ request = "open" /\ valid /\ time_age <= Stale
    /\ request' = "answered" /\ replied' \in BOOLEAN
    /\ UNCHANGED <<switchVars, managerVars, telemetryVars, timeVars, parserVars,
                   off_age>>

\* A request that is open is answered from the published time when there is room
\* in CAN_TX_CHANNEL; otherwise it stays open for the next poll.
Respond ==
    /\ request = "open" /\ valid /\ time_age <= Stale
    /\ request' = "answered" /\ replied' = TRUE
    /\ UNCHANGED <<switchVars, managerVars, telemetryVars, timeVars, parserVars,
                   off_age>>

\* A time that grew old is withdrawn instead.
Withdraw ==
    /\ request = "open" /\ valid /\ time_age > Stale
    /\ valid' = FALSE
    /\ UNCHANGED <<switchVars, managerVars, telemetryVars, time_age, parserVars,
                   requestVars, off_age>>

---------------------------------------------------------------------------
(* Time.                                                                   *)

Older(age, read, limit) == IF read THEN Min({age + 1, limit}) ELSE 0

Tick ==
    /\ Idle
    /\ due' = due - 1
    /\ waited' = Older(waited, stage # "idle", Startup + AckTimeout)
    /\ started_age' = Older(started_age, state = "Starting", Stale + Period)
    /\ receiver_age' = Older(receiver_age, state \in ReceiverWatched, Stale + Period)
    /\ fix_age' = Older(fix_age, state = "ValidFix", Stale + Period)
    /\ time_age' = Older(time_age, valid, Stale + Period)
    /\ off_age' = Older(off_age, state = "Off", Stale + Period)
    /\ UNCHANGED <<switchVars, is_on, stage, acked, state, position, valid, lines,
                   held, requestVars>>

Next ==
    \/ \E command \in GnssCommand : Order(command)
    \/ SendOrder \/ StartSequence
    \/ \E sentence \in Sentence : ReadLine(sentence)
    \/ Manager \/ Parser
    \/ AskTime \/ Respond \/ Withdraw
    \/ Tick

Spec == Init /\ [][Next]_vars

\* Time never stands still; and since it passes only while no task can go on,
\* every task that can go on does.  The StartSequences that may take a place from
\* the waiting command task come from that task themselves, so they cannot do so
\* for ever.  The bus takes frames again and again, so the response task, which
\* asks every 100 ms, meets room in CAN_TX_CHANNEL while a time is valid.
LiveSpec ==
    /\ Spec
    /\ []<><<Tick>>_vars
    /\ SF_vars(SendOrder) /\ SF_vars(Respond)

---------------------------------------------------------------------------
(* Properties.                                                             *)

Stages == {"idle", "starting", "startup", "config", "failing", "turningOff"}

\* The queues keep to their capacities and the configuration to its commands;
\* everything has its type.
TypeOK ==
    /\ cmds \in Seq(GnssCommand) /\ Len(cmds) <= CmdCap
    /\ sender \in GnssCommand \cup {None} /\ asked \in GnssCommand
    /\ is_on \in BOOLEAN /\ stage \in Stages
    /\ acked \in 0 .. Settings /\ waited \in 0 .. Startup + AckTimeout
    /\ state \in GnssReceiverState
    /\ position \in GnssReceiverState \ {"Starting", "ReceiverDetected",
                                         "ConfigurationFailed"}
    /\ {started_age, receiver_age, fix_age, time_age, off_age}
           \subseteq 0 .. Stale + Period
    /\ valid \in BOOLEAN
    /\ lines \in Seq(Held) /\ Len(lines) <= LineCap
    /\ held \in Held \cup {None}
    /\ due \in 0 .. Period
    /\ request \in {"none", "open", "answered"} /\ replied \in BOOLEAN

\* The manager, once it has worked off GNSS_CMD_CHANNEL, has the receiver as the
\* last command that entered the channel asked, whatever the configuration, the
\* sentences and the ticker did on the other core meanwhile; and its own is_on,
\* which makes it ignore a TurnOn, agrees with the state the telemetry shows.
LastCommandWins ==
    stage = "idle" /\ cmds = <<>> =>
        /\ (asked = "TurnOff") = (state = "Off")
        /\ is_on = (state \notin {"Off", "ConfigurationFailed"})

\* The position that goes into the telemetry is a fix only while the state says
\* so, and only for GNSS_STALE_TIMEOUT_MS and one turn of the ticker after the
\* GGA it comes from, also when sentences of other kinds keep arriving.
PositionIsLive ==
    /\ (position = "ValidFix") = (state = "ValidFix")
    /\ state = "ValidFix" => fix_age < Stale + Period

\* A receiver that was switched off leaves no time behind: an RMC that the parser
\* was working on may still publish one, but that one is withdrawn like any other
\* that is not renewed, by GNSS_STALE_TIMEOUT_MS and one turn of the ticker.
OffEndsTime == state = "Off" /\ valid => off_age < Stale + Period

\* What is shown of the receiver is what the last order made of it, and no position
\* and no time is shown for long after its source has gone.
ReceiverInv == TypeOK /\ LastCommandWins /\ PositionIsLive /\ OffEndsTime

\* A receiver that is off, or could not be configured, is shown as such until the
\* manager starts it again ("parse中にTurnOffされた場合も、古いGGAでOffを上書きし
\* ない"): no late sentence and no ticker takes it out of that state.
OffStays ==
    state \in {"Off", "ConfigurationFailed"} =>
        state' \in {"Starting", "Off", "ConfigurationFailed"}

\* No sentence from before the receiver was last started becomes its state ("再ON
\* 後にOFF前のsentenceを再利用しない"), although the parser may hold one across a
\* TurnOff and the TurnOn that follows.
NoOldSentence ==
    held # None /\ held' = None /\ held.of # "Time" /\ held.old =>
        UNCHANGED <<state, position>>

\* A sentence or a turn of the ticker that comes late, on the other core, undoes
\* nothing the manager has done.
LateIsQuietAlways == [][OffStays /\ NoOldSentence]_vars

\* The command task is not held up for good by send().await on a full
\* GNSS_CMD_CHANNEL: the manager, which takes no command while it configures the
\* receiver, gives up on a silent one.
OrderIsSent == sender # None ~> sender = None

\* A receiver that is being started is found, found missing, or switched off.
StartingEnds == state = "Starting" ~> state # "Starting"

\* If the receiver gives the time again and again, every TimeRequest that is not
\* replaced by a later one gets its TimeResponse, also when there was no room in
\* CAN_TX_CHANNEL at first.
TimeIsAnswered == []<>valid => (request # "none" ~> replied)
=============================================================================
