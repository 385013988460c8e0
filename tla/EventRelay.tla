----------------------------- MODULE EventRelay -----------------------------
(***************************************************************************)
(* Mission events on their way to the ground: the OR latch of the CAN cache *)
(* (CanCache::update, event_snapshot, clear_event_flags in src/can/cache.rs)*)
(* and the periodic packets of lora_tx_task that report and clear it       *)
(* (src/tasks/lora_task_base.rs).                                          *)
(*                                                                         *)
(* A packet is built from a snapshot of the flags, then the task waits for *)
(* the LoRa module, may give way to a packet of higher priority, sends over*)
(* the UART and waits for the module again; all the while the CAN owner    *)
(* keeps latching events.  Flags are cleared after a confirmed             *)
(* transmission, if the revision is still the one of the snapshot.         *)
(***************************************************************************)
EXTENDS Integers

CONSTANTS
    Flag,               \* the bits of MissionEvent.flags
    Relayed,            \* the bits a flight packet carries (mask 0x001f)
    SequenceModulus,    \* 256: MissionEvent.sequence is a u8
    RevisionModulus,    \* 2^32: event_revision is a u32
    None

ASSUME RelayedAssumption == Relayed \subseteq Flag
ASSUME SequenceModulusAssumption == SequenceModulus \in Nat /\ SequenceModulus > 1
ASSUME RevisionModulusAssumption == RevisionModulus \in Nat /\ RevisionModulus > 1
ASSUME NoneAssumption ==
    /\ None \notin Nat
    /\ None \notin [events : SUBSET Flag, revision : Nat]

Sequence == 0 .. (SequenceModulus - 1)
Revision == 0 .. (RevisionModulus - 1)

VARIABLES
    event_flags_latched, event_revision, last_event_sequence,  \* CanCache
    flight,             \* the cached MissionStatus is fresh and a flight state
    envelope,           \* the periodic packet lora_tx_task works on, or None
    sequence, flags,    \* external: Mission's latest event
    \* History variables of the properties and of the two bounds:
    known,              \* the board has received Mission's latest event
    lost,               \* events lost in a row before the latest one
    unreported,         \* raised flags no confirmed packet has reported since
    fresh,              \* flags raised after the envelope's snapshot
    arrivals            \* events latched after the envelope's snapshot

latchVars == <<event_flags_latched, event_revision, last_event_sequence>>
missionVars == <<sequence, flags, known, lost>>
historyVars == <<unreported, fresh, arrivals>>
eventVars == <<latchVars, flight, envelope, missionVars, historyVars>>

\* u8 and u32 wrapping_add(1).
Successor(n, modulus) == IF n = modulus - 1 THEN 0 ELSE n + 1

EventInit ==
    /\ event_flags_latched = {} /\ event_revision = 0
    /\ last_event_sequence = None
    /\ flight = FALSE
    /\ envelope = None
    /\ sequence = 0 /\ flags = {} /\ known = TRUE /\ lost = 0
    /\ unreported = {} /\ fresh = {} /\ arrivals = 0

\* Mission raises flags under the next sequence number.  An event it replaces
\* before the board saw it is lost; SequenceModulus losses in a row would make
\* a new event look like a repetition, so their number is bounded.
MissionRaises(raised) ==
    /\ raised # {}
    /\ known \/ lost < SequenceModulus - 2
    /\ sequence' = Successor(sequence, SequenceModulus)
    /\ flags' = raised
    /\ known' = FALSE
    /\ lost' = IF known THEN 0 ELSE lost + 1
    /\ UNCHANGED <<latchVars, flight, envelope, historyVars>>

Latch ==
    /\ event_flags_latched' = event_flags_latched \cup flags
    /\ event_revision' = Successor(event_revision, RevisionModulus)
    /\ last_event_sequence' = sequence

NeverRepetition == FALSE

\* Two sequence numbers are told apart as long as they are not equal.
IsRepetition == last_event_sequence = sequence

\* A MissionEvent frame with a new sequence number.  A packet is on its way for
\* far less than RevisionModulus events.
ReceiveEvent ==
    /\ flags # {}
    /\ ~ IsRepetition
    /\ envelope # None => arrivals < RevisionModulus - 1
    /\ Latch
    /\ known' = TRUE
    /\ unreported' = IF known THEN unreported ELSE unreported \cup flags
    /\ fresh' = IF envelope = None THEN fresh ELSE fresh \cup flags
    /\ arrivals' = IF envelope = None THEN arrivals ELSE arrivals + 1
    /\ UNCHANGED <<flight, envelope, sequence, flags, lost>>

\* CacheUpdate::DuplicateMissionEvent.
ReceiveRepetition ==
    /\ flags # {}
    /\ IsRepetition
    /\ known' = TRUE
    /\ unreported' = IF known THEN unreported ELSE unreported \cup flags
    /\ UNCHANGED <<latchVars, flight, envelope, sequence, flags, lost, fresh,
                   arrivals>>

\* A MissionStatus frame, or the one in the cache going stale.
MissionStatusChanges ==
    /\ flight' = ~ flight
    /\ UNCHANGED <<latchVars, envelope, missionVars, historyVars>>

\* The flags a packet reports: only flight packets carry events.
Reported == IF flight THEN event_flags_latched \cap Relayed ELSE {}

\* periodic_packet: a state packet, or a control roll packet without events.
BuildPacket ==
    /\ envelope = None
    /\ \E events \in {Reported, {}} :
          envelope' = [events |-> events, revision |-> event_revision]
    /\ fresh' = {} /\ arrivals' = 0
    /\ UNCHANGED <<latchVars, flight, missionVars, unreported>>

ClearUnchecked(events, revision) ==
    event_flags_latched' = event_flags_latched \ events

\* clear_event_flags, called when a periodic packet with events was sent.
ClearEventFlags(events, revision) ==
    event_flags_latched' = IF event_revision = revision
                           THEN event_flags_latched \ events
                           ELSE event_flags_latched

\* The LoRa module confirmed the packet (AUX low, then high).
TransmitOk ==
    /\ envelope # None
    /\ ClearEventFlags(envelope.events, envelope.revision)
    /\ envelope' = None
    /\ unreported' = unreported \ (envelope.events \ fresh)
    /\ fresh' = {} /\ arrivals' = 0
    /\ UNCHANGED <<event_revision, last_event_sequence, flight, missionVars>>

\* The packet gave way to one of higher priority, or was not confirmed; a
\* periodic packet is not kept.
DropPacket ==
    /\ envelope # None
    /\ envelope' = None
    /\ fresh' = {} /\ arrivals' = 0
    /\ UNCHANGED <<latchVars, flight, missionVars, unreported>>

EventNext ==
    \/ \E raised \in SUBSET Flag : MissionRaises(raised)
    \/ ReceiveEvent \/ ReceiveRepetition
    \/ MissionStatusChanges
    \/ BuildPacket \/ TransmitOk \/ DropPacket

EventSpec == EventInit /\ [][EventNext]_eventVars

-----------------------------------------------------------------------------

\* The cache, the envelope and the history variables have their types.
EventTypeOK ==
    /\ event_flags_latched \in SUBSET Flag
    /\ event_revision \in Revision
    /\ last_event_sequence \in Sequence \cup {None}
    /\ flight \in BOOLEAN
    /\ envelope \in [events : SUBSET Flag, revision : Revision] \cup {None}
    /\ sequence \in Sequence /\ flags \in SUBSET Flag
    /\ known \in BOOLEAN /\ lost \in 0 .. SequenceModulus
    /\ unreported \in SUBSET Flag /\ fresh \in SUBSET Flag
    /\ arrivals \in Revision

\* A flag Mission raised stays latched until a confirmed packet that was built
\* after it was raised has carried it, however receptions, state changes,
\* preemptions and failed transmissions interleave.
NoEventLost == unreported \subseteq event_flags_latched

\* A repeated frame of an event the board already has raises nothing, even
\* after the event was reported and cleared.
RepetitionIsQuiet == known => event_flags_latched' \subseteq event_flags_latched

RepetitionIsQuietAlways == [][RepetitionIsQuiet]_eventVars
=============================================================================
