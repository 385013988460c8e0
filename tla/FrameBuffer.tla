---------------------------- MODULE FrameBuffer ----------------------------
(***************************************************************************)
(* UplinkFrameBuffer of lora_uplink.rs: the bytes the LoRa module delivers *)
(* are gathered into frames of a fixed length.  There is no escape for the *)
(* header byte, so it also occurs inside frames; when a gathered frame is  *)
(* refused the search continues at the next header byte inside it, and the *)
(* UART's errors throw away what was gathered.                             *)
(*                                                                         *)
(* The module knows nothing about the contents of a frame: Decode is a     *)
(* parameter (UplinkFrame gives it).  Of the array only the `length' bytes *)
(* the code reads are kept.                                                *)
(***************************************************************************)
EXTENDS Naturals, Sequences

CONSTANTS
    Byte,           \* the values of a byte
    Header,         \* UPLINK_HEADER
    N,              \* UPLINK_FRAME_LENGTH
    Decode(_),      \* decode_uplink, which returns Ok(command) or Err(error)
    Commands,       \* UplinkCommand
    Errors,         \* UplinkDecodeError
    None

Ok(command) == [ok |-> TRUE, command |-> command]
Err(error) == [ok |-> FALSE, error |-> error]

\* The two kinds of a result.
IsResult(r) ==
    \/ r.ok /\ r = Ok(r.command) /\ r.command \in Commands
    \/ ~r.ok /\ r = Err(r.error) /\ r.error \in Errors

ASSUME FrameAssumption ==
    /\ Header \in Byte
    /\ N \in Nat \ {0, 1}

ASSUME DecodeAssumption == \A bytes \in [1..N -> Byte] : IsResult(Decode(bytes))

VARIABLES
    frame,      \* bytes[..length]
    result,     \* what the last call of push returned
    recent      \* ghost: what was received since the last command or reset,
                \* at most the last N - 1 bytes of it

vars == <<frame, result, recent>>

TypeOK ==
    /\ frame \in Seq(Byte) /\ Len(frame) < N
    /\ result # None => IsResult(result)
    /\ recent \in Seq(Byte) /\ Len(recent) < N

Init ==
    /\ frame = <<>>
    /\ result = None
    /\ recent = <<>>

---------------------------------------------------------------------------
IsCommand(r) == r # None /\ r.ok

HeaderPlaces(s) == {i \in 1..Len(s) : s[i] = Header}

FirstHeader(s) == CHOOSE i \in HeaderPlaces(s) : \A j \in HeaderPlaces(s) : i <= j

\* The bytes from the first header on: what copy_within moves to the front.
FromFirstHeader(s) ==
    IF HeaderPlaces(s) = {} THEN <<>> ELSE SubSeq(s, FirstHeader(s), Len(s))

\* Mutant: a refused frame is thrown away with all that is in it.
BehindNothing(s) == <<>>

\* What is searched after a refused frame: everything behind its own header.
Behind(s) == Tail(s)

Received(byte) == Append(recent, byte)

\* Ghost: the bytes of the stream that may still be part of a later frame.
Remember(byte) ==
    recent' = IF Len(recent) = N - 1 THEN Tail(Received(byte)) ELSE Received(byte)

\* Only a header begins a frame.
SkipByte(byte) ==
    /\ frame = <<>>
    /\ byte # Header
    /\ result' = None
    /\ Remember(byte)
    /\ UNCHANGED frame

\* The frame is not complete yet.
Gather(byte) ==
    /\ frame # <<>> \/ byte = Header
    /\ Len(frame) + 1 # N
    /\ frame' = Append(frame, byte)
    /\ result' = None
    /\ Remember(byte)

\* The byte completes a frame: it is decoded, and what is left of it kept.
Complete(byte) ==
    /\ frame # <<>>
    /\ Len(frame) + 1 = N
    /\ LET whole == Append(frame, byte)
       IN  /\ result' = Decode(whole)
           /\ IF IsCommand(Decode(whole))
              THEN frame' = <<>> /\ recent' = <<>>
              ELSE frame' = FromFirstHeader(Behind(whole)) /\ Remember(byte)

Push(byte) == SkipByte(byte) \/ Gather(byte) \/ Complete(byte)

\* Mutant: the bytes gathered before the error are kept.
ResetForgotten ==
    /\ recent' = <<>>
    /\ UNCHANGED <<frame, result>>

\* lora_rx_task after an error of the UART.
Reset ==
    /\ frame' = <<>>
    /\ recent' = <<>>
    /\ UNCHANGED result

Next == Reset \/ \E byte \in Byte : Push(byte)

Spec == Init /\ [][Next]_vars

---------------------------------------------------------------------------
\* What the buffer holds is the part of the recent bytes that begins with
\* their first header, and nothing else: no byte of a possible frame is given
\* up when a frame is refused, and none survives a command or a reset.
InStep == frame = FromFirstHeader(recent)

\* The buffer in terms of the stream: what makes the search exact.
FrameInv == TypeOK /\ InStep

IsFrame(s) == Len(s) = N /\ s[1] = Header /\ IsCommand(Decode(s))

\* However noise, broken frames and header bytes inside frames are mixed: a
\* byte yields a command exactly if it and the N - 1 bytes before it are a
\* frame that shares no byte with the command before, and it yields the
\* command of that frame.
FindsFrame ==
    \A byte \in Byte :
        Push(byte) =>
            /\ IsCommand(result') <=> IsFrame(Received(byte))
            /\ IsCommand(result') => result' = Decode(Received(byte))

FindsFrameAlways == [][FindsFrame]_vars
===========================================================================
