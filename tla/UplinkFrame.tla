---------------------------- MODULE UplinkFrame ----------------------------
(***************************************************************************)
(* decode_uplink of lora_uplink.rs, the decoder behind FrameBuffer.  A     *)
(* frame is the header, the kind, the transaction id, the command, the     *)
(* arguments and the exclusive or of all of them.  The code's six argument *)
(* bytes are ArgCount here; the milliseconds, a u16 made of the last two   *)
(* of them, are a number that Milliseconds reads from the arguments.       *)
(* A decoded command keeps kind, id, command and arguments; the fields the *)
(* code leaves out of an emergency command are zero in the frame.          *)
(***************************************************************************)
EXTENDS FrameBuffer, Functions

CONSTANTS
    XorOf(_, _),        \* ^ of two bytes
    ArgCount,           \* 6
    DeprecatedCommands, \* PARA_FREE, PARA_HOLD, ...
    TimeSources,        \* the bytes TimeSource::decode knows
    Milliseconds(_),    \* u16::from_le_bytes of the last two arguments
    MaxMilliseconds     \* 999

Kinds == <<"MissionGeneric", "ActuatorEmergency", "LiftoffDetectionEmergency",
           "ComBoardLocal", "GroundTimeResponse">>

EmergencyKinds == {"ActuatorEmergency", "LiftoffDetectionEmergency"}

UplinkDecodeError ==
    {"InvalidHeader", "InvalidChecksum", "InvalidKind", "ReservedTransactionId",
     "InvalidField"}

UplinkCommand ==
    [kind : Range(Kinds), id : Byte, command : Byte, args : [1..ArgCount -> Byte]]

ASSUME LayoutAssumption == N = ArgCount + 5 /\ ArgCount \in Nat \ {0}

\* Of exclusive or: it stays within a byte, and other operands give another byte.
ASSUME XorAssumption ==
    /\ Byte \subseteq Nat /\ 0 \in Byte
    /\ \A a, b \in Byte : XorOf(a, b) \in Byte
    /\ \A a, b, c \in Byte : XorOf(a, b) = XorOf(a, c) \/ XorOf(b, a) = XorOf(c, a) => b = c

\* The checksums of the first 0, 1, ... bytes.
RunningXor(bytes) ==
    LET sum[i \in 0..Len(bytes)] == IF i = 0 THEN 0 ELSE XorOf(sum[i - 1], bytes[i])
    IN  sum

XorChecksum(bytes) == RunningXor(bytes)[Len(bytes)]

\* Mutant: the last argument is not covered.
CoveredShort(bytes) == SubSeq(bytes, 1, N - 2)

\* bytes[..UPLINK_FRAME_LENGTH - 1]
Covered(bytes) == SubSeq(bytes, 1, N - 1)

KindKnown(bytes) == bytes[2] < Len(Kinds)

Kind(bytes) == Kinds[bytes[2] + 1]

Fields(bytes) == SubSeq(bytes, 4, N - 1)

\* What the kind asks of the command byte and the arguments.
FieldsValid(bytes) ==
    CASE Kind(bytes) = "MissionGeneric" -> bytes[4] \notin DeprecatedCommands
      [] Kind(bytes) \in EmergencyKinds -> \A i \in 1..(ArgCount + 1) : Fields(bytes)[i] = 0
      [] Kind(bytes) = "ComBoardLocal" -> TRUE
      [] Kind(bytes) = "GroundTimeResponse" ->
            /\ bytes[4] \in TimeSources
            /\ Milliseconds(SubSeq(bytes, 5, N - 1)) <= MaxMilliseconds

DecodeUplink(bytes) ==
    IF bytes[1] # Header THEN Err("InvalidHeader")
    ELSE IF XorChecksum(Covered(bytes)) # bytes[N] THEN Err("InvalidChecksum")
    ELSE IF ~KindKnown(bytes) THEN Err("InvalidKind")
    ELSE IF bytes[3] = 0 THEN Err("ReservedTransactionId")
    ELSE IF ~FieldsValid(bytes) THEN Err("InvalidField")
    ELSE Ok([kind |-> Kind(bytes), id |-> bytes[3], command |-> bytes[4],
             args |-> SubSeq(bytes, 5, N - 1)])

\* The decoder behind the buffer.
ASSUME UplinkAssumption == \A bytes \in [1..N -> Byte] : Decode(bytes) = DecodeUplink(bytes)

---------------------------------------------------------------------------
\* The frame the ground sends for a command.
Encode(c) ==
    LET body == <<Header, CHOOSE k \in 0..(Len(Kinds) - 1) : Kinds[k + 1] = c.kind,
                  c.id, c.command>> \o c.args
    IN  Append(body, XorChecksum(body))

\* A command the board acts on comes from exactly one frame, and no frame that
\* differs from it in one byte would have been taken for a command, a stop
\* least of all: noise on one byte cannot turn one command into another.
OneByteOffIsRefused ==
    IsCommand(result) =>
        LET sent == Encode(result.command)
        IN  /\ DecodeUplink(sent) = result
            /\ \A i \in 1..N : \A byte \in Byte \ {sent[i]} :
                   ~IsCommand(DecodeUplink([sent EXCEPT ![i] = byte]))
===========================================================================
