-------------------------- MODULE FrameBufferProofs --------------------------
(***************************************************************************)
(* Proofs about the search for frames in the bytes of the LoRa module, for *)
(* every alphabet, length of frames and decoder: FrameInv and              *)
(* FindsFrameAlways.  They use nothing of UplinkFrame.  Then proofs about  *)
(* the decoder itself: OneByteOffIsRefused, and that every sequence of     *)
(* bytes is a command or an error.                                         *)
(*                                                                         *)
(* InStep is inductive: what the buffer holds is what follows the first    *)
(* header of the recent bytes, which stays so when a byte is added, when   *)
(* the oldest byte is forgotten and when a refused frame is searched.  The *)
(* buffer is full only when its header is the oldest of the recent bytes.  *)
(*                                                                         *)
(* The checksum is a recursive function; what holds of it for every number *)
(* of bytes is proved by looking at the least number for which it fails.   *)
(***************************************************************************)
EXTENDS UplinkFrame, SequenceTheorems, WellFoundedInduction, TLAPS

\* The first header of s is its i-th byte.
FirstAt(s, i) == i \in 1..Len(s) /\ s[i] = Header /\ \A j \in 1..(i - 1) : s[j] # Header

NoHeader(s) == \A j \in 1..Len(s) : s[j] # Header

\* A set of numbers that is not empty has a least one.
LEMMA LeastNumber ==
    ASSUME NEW T, T \subseteq Nat, T # {}
    PROVE  \E x \in T : \A y \in T : x <= y
<1>1. PICK x \in T : \A y \in T : ~ (<<y, x>> \in OpToRel(<, Nat))
  BY WFMin, NatLessThanWellFounded
<1>2. \A y \in T : ~ (y < x)
  BY <1>1 DEF OpToRel
<1> QED BY <1>2

LEMMA SomeFirst ==
    ASSUME NEW s \in Seq(Byte)
    PROVE  NoHeader(s) \/ \E i \in 1..Len(s) : FirstAt(s, i)
<1> SUFFICES ASSUME ~ NoHeader(s) PROVE \E i \in 1..Len(s) : FirstAt(s, i)
  OBVIOUS
<1>1. Len(s) \in Nat
  BY LenProperties
<1>2. HeaderPlaces(s) \subseteq Nat /\ HeaderPlaces(s) # {}
  BY <1>1 DEF HeaderPlaces, NoHeader
<1>3. PICK i \in HeaderPlaces(s) : \A j \in HeaderPlaces(s) : i <= j
  BY <1>2, LeastNumber
<1>4. i \in 1..Len(s) /\ s[i] = Header
  BY <1>3 DEF HeaderPlaces
<1>5. ASSUME NEW j \in 1..(i - 1) PROVE s[j] # Header
  BY <1>1, <1>3, <1>4 DEF HeaderPlaces
<1> QED BY <1>4, <1>5 DEF FirstAt

LEMMA NothingFromFirst ==
    ASSUME NEW s \in Seq(Byte), NoHeader(s)
    PROVE  FromFirstHeader(s) = <<>>
BY DEF NoHeader, FromFirstHeader, HeaderPlaces

LEMMA NothingInNothing ==
    <<>> \in Seq(Byte) /\ Len(<<>>) = 0 /\ FromFirstHeader(<<>>) = <<>>
<1>1. <<>> \in Seq(Byte) /\ Len(<<>>) = 0
  OBVIOUS
<1>2. NoHeader(<<>>)
  BY <1>1 DEF NoHeader
<1> QED BY <1>1, <1>2, NothingFromFirst

LEMMA FromFirst ==
    ASSUME NEW s \in Seq(Byte), NEW i \in 1..Len(s), FirstAt(s, i)
    PROVE  FromFirstHeader(s) = SubSeq(s, i, Len(s))
<1>1. Len(s) \in Nat
  BY LenProperties
<1>2. i \in HeaderPlaces(s) /\ \A j \in HeaderPlaces(s) : i <= j
  BY <1>1 DEF HeaderPlaces, FirstAt
<1>3. \A k \in HeaderPlaces(s) : (\A j \in HeaderPlaces(s) : k <= j) => k = i
  <2>1. HeaderPlaces(s) \subseteq Nat
    BY <1>1 DEF HeaderPlaces
  <2> QED BY <1>2, <2>1
<1>4. FirstHeader(s) = i
  BY <1>2, <1>3 DEF FirstHeader
<1> QED BY <1>2, <1>4 DEF FromFirstHeader

\* Adding a byte keeps the first header, or makes the byte the first.
LEMMA FirstAppended ==
    ASSUME NEW s \in Seq(Byte), NEW b \in Byte
    PROVE  /\ Append(s, b) \in Seq(Byte) /\ Len(Append(s, b)) = Len(s) + 1 /\ Len(s) \in Nat
           /\ Append(s, b)[Len(s) + 1] = b
           /\ \A j \in 1..Len(s) : Append(s, b)[j] = s[j]
           /\ \A i \in 1..Len(s) : FirstAt(s, i) => FirstAt(Append(s, b), i)
           /\ NoHeader(s) /\ b = Header => FirstAt(Append(s, b), Len(s) + 1)
           /\ NoHeader(s) /\ b # Header => NoHeader(Append(s, b))
<1>1. /\ Append(s, b) \in Seq(Byte) /\ Len(Append(s, b)) = Len(s) + 1 /\ Len(s) \in Nat
      /\ Append(s, b)[Len(s) + 1] = b
      /\ \A j \in 1..Len(s) : Append(s, b)[j] = s[j]
  BY AppendProperties, LenProperties
<1> DEFINE t == Append(s, b)
<1> HIDE DEF t
<1>2. \A i \in 1..Len(s) : FirstAt(s, i) => FirstAt(t, i)
  BY <1>1 DEF FirstAt, t
<1>3. NoHeader(s) /\ b = Header => FirstAt(t, Len(s) + 1)
  BY <1>1 DEF FirstAt, NoHeader, t
<1>4. NoHeader(s) /\ b # Header => NoHeader(t)
  BY <1>1 DEF NoHeader, t
<1> QED BY <1>1, <1>2, <1>3, <1>4 DEF t

\* Forgetting the oldest byte moves a later header to the front.
LEMMA FirstForgotten ==
    ASSUME NEW s \in Seq(Byte), Len(s) >= 1
    PROVE  /\ Tail(s) \in Seq(Byte) /\ Len(Tail(s)) = Len(s) - 1
           /\ \A i \in 2..Len(s) : FirstAt(s, i) =>
                  FromFirstHeader(Tail(s)) = FromFirstHeader(s)
           /\ NoHeader(s) => NoHeader(Tail(s))
<1>1. s # <<>> /\ Len(s) \in Nat
  BY EmptySeq, LenProperties
<1>2. /\ Tail(s) \in Seq(Byte) /\ Len(Tail(s)) = Len(s) - 1
      /\ \A j \in 1..Len(Tail(s)) : Tail(s)[j] = s[j + 1]
  BY <1>1, HeadTailProperties
<1>3. ASSUME NEW i \in 2..Len(s), FirstAt(s, i)
      PROVE  FromFirstHeader(Tail(s)) = FromFirstHeader(s)
  <2> DEFINE t == Tail(s)
  <2> HIDE DEF t
  <2>1. /\ t \in Seq(Byte) /\ Len(t) = Len(s) - 1 /\ Len(t) \in Nat /\ i - 1 \in 1..Len(t)
        /\ \A j \in 1..Len(t) : t[j] = s[j + 1]
    BY <1>1, <1>2 DEF t
  <2>2. FirstAt(t, i - 1)
    BY <1>1, <1>3, <2>1 DEF FirstAt
  <2>3. FromFirstHeader(t) = SubSeq(t, i - 1, Len(t))
    BY <2>1, <2>2, FromFirst
  <2>4. i \in 1..Len(s) /\ FromFirstHeader(s) = SubSeq(s, i, Len(s))
    <3>1. i \in 1..Len(s)
      BY <1>1
    <3> QED BY <1>3, <3>1, FromFirst
  <2> DEFINE u == SubSeq(t, i - 1, Len(t))
             v == SubSeq(s, i, Len(s))
  <2>5. /\ u \in Seq(Byte) /\ Len(u) = Len(t) - (i - 1) + 1
        /\ \A k \in 1..(Len(t) - (i - 1) + 1) : u[k] = t[(i - 1) + k - 1]
    <3>1. \A k \in (i - 1)..Len(t) : t[k] \in Byte
      BY <2>1, ElementOfSeq
    <3> QED BY <2>1, <3>1, SubSeqProperties
  <2>6. /\ v \in Seq(Byte) /\ Len(v) = Len(s) - i + 1
        /\ \A k \in 1..(Len(s) - i + 1) : v[k] = s[i + k - 1]
    <3>1. \A k \in i..Len(s) : s[k] \in Byte
      BY <1>1, <2>4, ElementOfSeq
    <3> QED BY <1>1, <2>4, <3>1, SubSeqProperties
  <2> HIDE DEF u, v
  <2>7. Len(u) = Len(v) /\ Len(u) = Len(s) - i + 1
    BY <1>1, <2>1, <2>5, <2>6
  <2>8. ASSUME NEW k \in 1..Len(u) PROVE u[k] = v[k]
    <3>1. u[k] = t[(i - 1) + k - 1]
      BY <1>1, <2>1, <2>5, <2>7
    <3>2. v[k] = s[i + k - 1]
      BY <1>1, <2>6, <2>7
    <3>3. (i - 1) + k - 1 \in 1..Len(t)
      BY <1>1, <2>1, <2>7
    <3>4. t[(i - 1) + k - 1] = s[((i - 1) + k - 1) + 1]
      BY <2>1, <3>3
    <3>5. ((i - 1) + k - 1) + 1 = i + k - 1
      BY <1>1, <2>7
    <3> QED BY <3>1, <3>2, <3>4, <3>5
  <2>9. u = v
    BY <2>5, <2>6, <2>7, <2>8, SeqEqual
  <2> QED BY <2>3, <2>4, <2>9 DEF u, v, t
<1>4. NoHeader(s) => NoHeader(Tail(s))
  BY <1>1, <1>2 DEF NoHeader
<1> QED BY <1>2, <1>3, <1>4

\* What follows the first header, and what a further byte makes of it.
LEMMA FromFirstGrows ==
    ASSUME NEW s \in Seq(Byte), NEW b \in Byte, NEW i \in 1..Len(s), FirstAt(s, i)
    PROVE  /\ FromFirstHeader(s) \in Seq(Byte) /\ FromFirstHeader(s) # <<>>
           /\ Len(FromFirstHeader(s)) = Len(s) - i + 1
           /\ i = 1 => FromFirstHeader(s) = s
           /\ FromFirstHeader(Append(s, b)) = Append(FromFirstHeader(s), b)
<1> DEFINE t == Append(s, b)
           u == SubSeq(s, i, Len(s))
           v == SubSeq(t, i, Len(t))
<1>1. /\ t \in Seq(Byte) /\ Len(t) = Len(s) + 1 /\ Len(s) \in Nat /\ FirstAt(t, i)
      /\ t[Len(s) + 1] = b /\ \A j \in 1..Len(s) : t[j] = s[j]
  BY FirstAppended
<1> HIDE DEF t
<1>2. FromFirstHeader(s) = u /\ i \in 1..Len(t) /\ FromFirstHeader(t) = v
  <2>1. i \in 1..Len(t)
    BY <1>1
  <2> QED BY <1>1, <2>1, FromFirst
<1>3. /\ u \in Seq(Byte) /\ Len(u) = Len(s) - i + 1
      /\ \A k \in 1..(Len(s) - i + 1) : u[k] = s[i + k - 1]
  <2>1. \A k \in i..Len(s) : s[k] \in Byte
    BY <1>1, ElementOfSeq
  <2> QED BY <1>1, <2>1, SubSeqProperties
<1>4. /\ v \in Seq(Byte) /\ Len(v) = Len(s) - i + 2
      /\ \A k \in 1..(Len(s) - i + 2) : v[k] = t[i + k - 1]
  <2>1. \A k \in i..Len(t) : t[k] \in Byte
    BY <1>1, <1>2, ElementOfSeq
  <2>2. Len(t) - i + 1 = Len(s) - i + 2 /\ i <= Len(t) /\ i \in Int /\ Len(t) \in Int
    BY <1>1
  <2> QED BY <2>1, <2>2, SubSeqProperties
<1> HIDE DEF u, v
<1> DEFINE w == Append(u, b)
<1>5. /\ w \in Seq(Byte) /\ Len(w) = Len(s) - i + 2 /\ w[Len(s) - i + 2] = b
      /\ \A k \in 1..(Len(s) - i + 1) : w[k] = u[k]
  <2>1. /\ w \in Seq(Byte) /\ Len(w) = Len(u) + 1 /\ w[Len(u) + 1] = b
        /\ \A k \in 1..Len(u) : w[k] = u[k]
    BY <1>3, AppendProperties
  <2> HIDE DEF w
  <2> QED BY <1>1, <1>3, <2>1
<1> HIDE DEF w
<1>6. ASSUME NEW k \in 1..(Len(s) - i + 2) PROVE v[k] = w[k]
  <2>1. CASE k = Len(s) - i + 2
    <3>1. i + k - 1 = Len(s) + 1
      BY <1>1, <2>1
    <3> QED BY <1>1, <1>4, <1>5, <2>1, <3>1
  <2>2. CASE k # Len(s) - i + 2
    <3>1. k \in 1..(Len(s) - i + 1) /\ i + k - 1 \in 1..Len(s)
      BY <1>1, <2>2
    <3> QED BY <1>1, <1>3, <1>4, <1>5, <3>1
  <2> QED BY <2>1, <2>2
<1>7. v = w
  BY <1>4, <1>5, <1>6, SeqEqual
<1>8. u # <<>>
  BY <1>1, <1>3, EmptySeq
<1>9. i = 1 => u = s
  BY SubSeqFull DEF u
<1> QED BY <1>2, <1>3, <1>7, <1>8, <1>9 DEF t, w

-----------------------------------------------------------------------------
(* The invariant.                                                          *)

\* Where the recent bytes have their first header, if they have one.
LEMMA BufferPlace ==
    ASSUME TypeOK, InStep
    PROVE  /\ frame = <<>> => NoHeader(recent)
           /\ frame # <<>> => \E i \in 1..Len(recent) :
                  FirstAt(recent, i) /\ Len(frame) = Len(recent) - i + 1
<1>1. recent \in Seq(Byte) /\ Header \in Byte
  BY FrameAssumption DEF TypeOK
<1>2. ASSUME NEW i \in 1..Len(recent), FirstAt(recent, i)
      PROVE  frame # <<>> /\ Len(frame) = Len(recent) - i + 1
  BY <1>1, <1>2, FromFirstGrows DEF InStep
<1>3. NoHeader(recent) => frame = <<>>
  BY <1>1, NothingFromFirst DEF InStep
<1> QED BY <1>1, <1>2, <1>3, SomeFirst

\* A byte is received, and the oldest is forgotten when there are N.
LEMMA Remembered ==
    ASSUME TypeOK, NEW b \in Byte, Remember(b)
    PROVE  /\ recent' \in Seq(Byte) /\ Len(recent') < N
           /\ NoHeader(Received(b)) => NoHeader(recent')
           /\ \A i \in 1..Len(Received(b)) :
                  FirstAt(Received(b), i) /\ (Len(recent) = N - 1 => i # 1) =>
                      FromFirstHeader(recent') = FromFirstHeader(Received(b))
<1> DEFINE t == Received(b)
<1>1. t \in Seq(Byte) /\ Len(t) = Len(recent) + 1 /\ Len(recent) \in Nat /\ Len(recent) < N
  BY FirstAppended DEF TypeOK, Received
<1>2. recent' = IF Len(recent) = N - 1 THEN Tail(t) ELSE t
  BY DEF Remember
<1> HIDE DEF t
<1>3. N \in Nat /\ N >= 2
  BY FrameAssumption
<1>4. CASE Len(recent) = N - 1
  <2>1. Len(t) >= 1 /\ recent' = Tail(t)
    BY <1>1, <1>2, <1>4
  <2>2. /\ recent' \in Seq(Byte) /\ Len(recent') = Len(t) - 1
        /\ \A i \in 2..Len(t) : FirstAt(t, i) =>
               FromFirstHeader(recent') = FromFirstHeader(t)
        /\ NoHeader(t) => NoHeader(recent')
    BY <1>1, <2>1, FirstForgotten
  <2>3. Len(recent') < N /\ \A i \in 1..Len(t) : i # 1 => i \in 2..Len(t)
    BY <1>1, <1>3, <1>4, <2>2
  <2> QED BY <1>4, <2>2, <2>3 DEF t
<1>5. CASE Len(recent) # N - 1
  BY <1>1, <1>2, <1>3, <1>5 DEF t
<1> QED BY <1>4, <1>5

-----------------------------------------------------------------------------
(* The steps keep the invariant.                                           *)

LEMMA SkipByteOK ==
    ASSUME FrameInv, NEW byte \in Byte, SkipByte(byte)
    PROVE  FrameInv'
<1> USE DEF FrameInv, SkipByte
<1>1. recent \in Seq(Byte) /\ NoHeader(recent)
  BY BufferPlace DEF TypeOK
<1>2. NoHeader(Received(byte))
  BY <1>1, FirstAppended DEF Received
<1>3. recent' \in Seq(Byte) /\ Len(recent') < N /\ NoHeader(recent')
  BY <1>2, Remembered
<1>4. InStep'
  BY <1>3, NothingFromFirst DEF InStep
<1> QED BY <1>3, <1>4 DEF TypeOK

LEMMA GatherOK ==
    ASSUME FrameInv, NEW byte \in Byte, Gather(byte)
    PROVE  FrameInv'
<1> USE DEF FrameInv, Gather
<1>1. /\ recent \in Seq(Byte) /\ Len(recent) \in Nat /\ Len(recent) < N
      /\ frame \in Seq(Byte) /\ Len(frame) \in Nat /\ Len(frame) < N
      /\ N \in Nat /\ N >= 2
  BY FrameAssumption, LenProperties DEF TypeOK
<1>2. frame' \in Seq(Byte) /\ Len(frame') = Len(frame) + 1 /\ Len(frame') < N
  BY <1>1, AppendProperties
<1>3. recent' \in Seq(Byte) /\ Len(recent') < N
  BY Remembered
<1>4. InStep'
  <2>1. CASE frame # <<>>
    <3>1. PICK i \in 1..Len(recent) :
              FirstAt(recent, i) /\ Len(frame) = Len(recent) - i + 1
      BY <2>1, BufferPlace
    <3>2. /\ i \in 1..Len(Received(byte)) /\ FirstAt(Received(byte), i)
          /\ Len(recent) = N - 1 => i # 1
      BY <1>1, <3>1, FirstAppended DEF Received
    <3>3. FromFirstHeader(recent') = FromFirstHeader(Received(byte))
      BY <3>2, Remembered
    <3>4. FromFirstHeader(Received(byte)) = Append(FromFirstHeader(recent), byte)
      BY <1>1, <3>1, FromFirstGrows DEF Received
    <3> QED BY <3>3, <3>4 DEF InStep
  <2>2. CASE frame = <<>>
    <3> DEFINE t == Received(byte)
    <3>1. NoHeader(recent) /\ byte = Header
      BY <2>2, BufferPlace
    <3>2. /\ t \in Seq(Byte) /\ Len(t) = Len(recent) + 1 /\ FirstAt(t, Len(t))
          /\ t[Len(t)] = byte
      BY <1>1, <3>1, FirstAppended DEF Received
    <3> HIDE DEF t
    <3>3. Len(t) \in 1..Len(t) /\ (Len(recent) = N - 1 => Len(t) # 1)
      BY <1>1, <3>2
    <3>4. FromFirstHeader(recent') = FromFirstHeader(t)
      BY <3>2, <3>3, Remembered DEF t
    <3>5. /\ FromFirstHeader(t) = SubSeq(t, Len(t), Len(t))
          /\ SubSeq(t, Len(t), Len(t)) = <<byte>>
      <4>1. FromFirstHeader(t) = SubSeq(t, Len(t), Len(t))
        BY <3>2, <3>3, FromFirst
      <4> DEFINE u == SubSeq(t, Len(t), Len(t))
      <4>2. u \in Seq(Byte) /\ Len(u) = 1 /\ u[1] = byte
        <5>1. Len(t) \in Int /\ \A k \in Len(t)..Len(t) : t[k] \in Byte
          BY <1>1, <3>2
        <5>2. /\ u \in Seq(Byte) /\ Len(u) = Len(t) - Len(t) + 1
              /\ \A k \in 1..(Len(t) - Len(t) + 1) : u[k] = t[Len(t) + k - 1]
          BY <5>1, SubSeqProperties
        <5> HIDE DEF u
        <5>3. Len(t) - Len(t) + 1 = 1 /\ Len(t) + 1 - 1 = Len(t)
          BY <5>1
        <5> QED BY <3>2, <5>2, <5>3
      <4> HIDE DEF u
      <4>3. <<byte>> \in Seq(Byte) /\ Len(<<byte>>) = 1 /\ <<byte>>[1] = byte
        OBVIOUS
      <4>4. u = <<byte>>
        BY <4>2, <4>3, SeqEqual
      <4> QED BY <4>1, <4>4 DEF u
    <3>6. frame' = <<byte>>
      BY <2>2
    <3> QED BY <3>4, <3>5, <3>6 DEF InStep
  <2> QED BY <2>1, <2>2
<1> QED BY <1>2, <1>3, <1>4 DEF TypeOK

\* A frame is complete only when its header is the oldest byte remembered.
LEMMA WholeIsReceived ==
    ASSUME FrameInv, NEW byte \in Byte, frame # <<>>, Len(frame) + 1 = N
    PROVE  /\ frame = recent /\ Len(recent) = N - 1
           /\ Received(byte) \in Seq(Byte) /\ Len(Received(byte)) = N
           /\ Received(byte)[1] = Header
<1>1. /\ recent \in Seq(Byte) /\ Len(recent) \in Nat /\ Len(recent) < N
      /\ Len(frame) \in Nat /\ N \in Nat /\ N >= 2
  BY FrameAssumption, LenProperties DEF FrameInv, TypeOK
<1>2. PICK i \in 1..Len(recent) : FirstAt(recent, i) /\ Len(frame) = Len(recent) - i + 1
  BY BufferPlace DEF FrameInv
<1>3. i = 1 /\ Len(recent) = N - 1
  BY <1>1, <1>2
<1>4. frame = recent
  BY <1>1, <1>2, <1>3, FromFirstGrows DEF FrameInv, InStep
<1>5. /\ Received(byte) \in Seq(Byte) /\ Len(Received(byte)) = Len(recent) + 1
      /\ \A j \in 1..Len(recent) : Received(byte)[j] = recent[j]
  BY <1>1, FirstAppended DEF Received
<1>6. recent[1] = Header /\ 1 \in 1..Len(recent)
  BY <1>1, <1>2, <1>3 DEF FirstAt
<1> QED BY <1>1, <1>3, <1>4, <1>5, <1>6

LEMMA CompleteOK ==
    ASSUME FrameInv, NEW byte \in Byte, Complete(byte)
    PROVE  FrameInv'
<1> DEFINE whole == Append(frame, byte)
<1>1. /\ N \in Nat /\ N >= 2
      /\ whole = Received(byte) /\ whole \in Seq(Byte) /\ Len(whole) = N
      /\ Len(recent) = N - 1
  BY FrameAssumption, WholeIsReceived DEF Complete, Received
<1>2. /\ result' = Decode(whole)
      /\ IF IsCommand(Decode(whole))
         THEN frame' = <<>> /\ recent' = <<>>
         ELSE frame' = FromFirstHeader(Tail(whole)) /\ recent' = Tail(whole)
  BY <1>1 DEF Complete, Remember, Behind
<1> HIDE DEF whole
<1>3. IsResult(result')
  <2>1. whole \in [1..N -> Byte]
    BY <1>1, LenProperties
  <2> QED BY <1>2, <2>1, DecodeAssumption
<1>4. CASE IsCommand(Decode(whole))
  <2>1. frame' \in Seq(Byte) /\ recent' \in Seq(Byte) /\ Len(frame') < N /\ Len(recent') < N
    BY <1>1, <1>2, <1>4, NothingInNothing
  <2>2. FromFirstHeader(<<>>) = <<>>
    BY NothingInNothing
  <2> QED BY <1>2, <1>3, <1>4, <2>1, <2>2 DEF FrameInv, TypeOK, InStep
<1>5. CASE ~ IsCommand(Decode(whole))
  <2>1. recent' \in Seq(Byte) /\ Len(recent') = N - 1 /\ frame' = FromFirstHeader(recent')
    <3>1. recent' = Tail(whole) /\ Len(whole) >= 1 /\ Len(whole) - 1 = N - 1
      BY <1>1, <1>2, <1>5
    <3> QED BY <1>1, <1>2, <1>5, <3>1, FirstForgotten
  <2>2. frame' \in Seq(Byte) /\ Len(frame') < N
    <3>1. CASE NoHeader(recent')
      <4>1. frame' = <<>>
        BY <2>1, <3>1, NothingFromFirst
      <4> QED BY <1>1, <4>1, NothingInNothing
    <3>2. CASE ~ NoHeader(recent')
      <4>1. PICK i \in 1..Len(recent') : FirstAt(recent', i)
        BY <2>1, <3>2, SomeFirst
      <4>2. frame' \in Seq(Byte) /\ Len(frame') = Len(recent') - i + 1
        BY <2>1, <4>1, FrameAssumption, FromFirstGrows
      <4> QED BY <1>1, <2>1, <4>2
    <3> QED BY <3>1, <3>2
  <2> QED BY <1>1, <1>3, <2>1, <2>2 DEF FrameInv, TypeOK, InStep
<1> QED BY <1>4, <1>5

LEMMA FrameNext == FrameInv /\ [Next]_vars => FrameInv'
<1> SUFFICES ASSUME FrameInv, [Next]_vars PROVE FrameInv'
  OBVIOUS
<1>1. CASE Reset
  <2>1. FromFirstHeader(<<>>) = <<>>
    BY NothingInNothing
  <2> QED BY <1>1, <2>1, NothingInNothing, FrameAssumption
          DEF Reset, FrameInv, TypeOK, InStep
<1>2. ASSUME NEW byte \in Byte, Push(byte) PROVE FrameInv'
  BY <1>2, SkipByteOK, GatherOK, CompleteOK DEF Push
<1>3. CASE UNCHANGED vars
  BY <1>3 DEF vars, FrameInv, TypeOK, InStep
<1> QED BY <1>1, <1>2, <1>3 DEF Next

\* The buffer holds, after every byte, error and reset, exactly what follows the first
\* header of the bytes that may still belong to a frame.
THEOREM BufferIsInStep == Spec => []FrameInv
<1>1. Init => FrameInv
  <2>1. FromFirstHeader(<<>>) = <<>>
    BY NothingInNothing
  <2> QED BY <2>1, NothingInNothing, FrameAssumption DEF Init, FrameInv, TypeOK, InStep
<1> QED BY <1>1, FrameNext, PTL DEF Spec

\* For every decoder, length and sequence of bytes: a byte yields a command exactly if it
\* ends a frame that begins with a header, has its full length behind the last command or
\* reset and is accepted by the decoder.
THEOREM FramesAreFound == Spec => FindsFrameAlways
<1>1. FrameInv /\ [Next]_vars => [FindsFrame]_vars
  <2> SUFFICES ASSUME FrameInv, NEW byte \in Byte, Push(byte)
               PROVE  /\ IsCommand(result') <=> IsFrame(Received(byte))
                      /\ IsCommand(result') => result' = Decode(Received(byte))
    BY DEF FindsFrame
  <2>1. /\ recent \in Seq(Byte) /\ Len(recent) \in Nat /\ Len(frame) \in Nat
        /\ N \in Nat /\ N >= 2
        /\ Len(Received(byte)) = Len(recent) + 1
        /\ \A j \in 1..Len(recent) : Received(byte)[j] = recent[j]
    BY FrameAssumption, LenProperties, FirstAppended DEF FrameInv, TypeOK, Received
  <2>2. CASE SkipByte(byte) \/ Gather(byte)
    <3>1. ~ IsCommand(result')
      BY <2>2 DEF SkipByte, Gather, IsCommand
    <3>2. ASSUME Len(Received(byte)) = N, Received(byte)[1] = Header PROVE FALSE
      <4>1. Len(recent) = N - 1 /\ recent[1] = Header /\ 1 \in 1..Len(recent)
        BY <2>1, <3>2
      <4>2. FirstAt(recent, 1)
        BY <4>1 DEF FirstAt
      <4>3. frame # <<>> /\ Len(frame) = Len(recent) - 1 + 1
        BY <2>1, <4>1, <4>2, FrameAssumption, FromFirstGrows DEF FrameInv, InStep
      <4> QED BY <2>1, <2>2, <4>1, <4>3 DEF SkipByte, Gather
    <3> QED BY <3>1, <3>2 DEF IsFrame
  <2>3. CASE Complete(byte)
    <3>1. /\ Append(frame, byte) = Received(byte) /\ Len(Received(byte)) = N
          /\ Received(byte)[1] = Header
      BY <2>3, WholeIsReceived DEF Complete, Received
    <3>2. result' = Decode(Received(byte))
      BY <2>3, <3>1 DEF Complete
    <3> QED BY <3>1, <3>2 DEF IsFrame
  <2> QED BY <2>2, <2>3 DEF Push
<1> QED BY <1>1, BufferIsInStep, PTL DEF Spec, FindsFrameAlways

-----------------------------------------------------------------------------
(* The checksum.                                                           *)

\* g holds the checksums of the first 0, ..., k of the bytes.
IsRunning(g, bytes, k) ==
    g = [i \in 0..k |-> IF i = 0 THEN 0 ELSE XorOf(g[i - 1], bytes[i])]

LEMMA RunningExists ==
    ASSUME NEW bytes, NEW n \in Nat
    PROVE  \E g : IsRunning(g, bytes, n)
<1> DEFINE Missing == {k \in Nat : ~ \E g : IsRunning(g, bytes, k)}
<1>1. SUFFICES ASSUME Missing # {} PROVE FALSE
  OBVIOUS
<1>2. PICK k \in Missing : \A j \in Missing : k <= j
  <2>1. Missing \subseteq Nat
    OBVIOUS
  <2> HIDE DEF Missing
  <2> QED BY <1>1, <2>1, LeastNumber
<1>3. CASE k = 0
  <2>1. IsRunning([i \in 0..0 |-> 0], bytes, 0)
    BY DEF IsRunning
  <2> QED BY <1>2, <1>3, <2>1
<1>4. CASE k # 0
  <2>1. k - 1 \in Nat /\ k - 1 \notin Missing
    BY <1>2, <1>4
  <2>2. PICK g : IsRunning(g, bytes, k - 1)
    BY <2>1
  <2> DEFINE h == [i \in 0..k |-> IF i = k THEN XorOf(g[k - 1], bytes[k]) ELSE g[i]]
  <2>3. /\ DOMAIN g = 0..(k - 1)
        /\ \A i \in 0..(k - 1) :
               g[i] = IF i = 0 THEN 0 ELSE XorOf(g[i - 1], bytes[i])
    BY <2>2 DEF IsRunning
  <2>4. ASSUME NEW i \in 0..k
        PROVE  h[i] = IF i = 0 THEN 0 ELSE XorOf(h[i - 1], bytes[i])
    <3>1. k \in Nat /\ k # 0
      BY <1>2, <1>4
    <3>2. CASE i = k
      BY <3>1, <3>2
    <3>3. CASE i # k
      BY <2>3, <3>1, <3>3
    <3> QED BY <3>2, <3>3
  <2>5. IsRunning(h, bytes, k)
    BY <2>4 DEF IsRunning
  <2> QED BY <1>2, <2>5
<1> QED BY <1>3, <1>4

LEMMA RunningXorIs ==
    ASSUME NEW bytes, Len(bytes) \in Nat
    PROVE  IsRunning(RunningXor(bytes), bytes, Len(bytes))
<1>1. \E g : IsRunning(g, bytes, Len(bytes))
  BY RunningExists
<1>2. RunningXor(bytes) = CHOOSE g : IsRunning(g, bytes, Len(bytes))
  BY DEF RunningXor, IsRunning
<1> QED BY <1>1, <1>2

\* What is known of exclusive or, one operand at a time.
LEMMA XorProperties ==
    ASSUME NEW a \in Byte, NEW b \in Byte
    PROVE  /\ XorOf(a, b) \in Byte
           /\ \A c \in Byte : XorOf(a, b) = XorOf(a, c) => b = c
           /\ \A c \in Byte : XorOf(b, a) = XorOf(c, a) => b = c
<1>1. XorOf(a, b) \in Byte
  BY XorAssumption
<1>2. ASSUME NEW c \in Byte, XorOf(a, b) = XorOf(a, c) \/ XorOf(b, a) = XorOf(c, a)
      PROVE  b = c
  BY <1>2, XorAssumption
<1> QED BY <1>1, <1>2

LEMMA RunningXorTyped ==
    ASSUME NEW s \in Seq(Byte)
    PROVE  /\ Len(s) \in Nat
           /\ RunningXor(s)[0] = 0
           /\ \A i \in 1..Len(s) : RunningXor(s)[i] = XorOf(RunningXor(s)[i - 1], s[i])
           /\ \A i \in 0..Len(s) : RunningXor(s)[i] \in Byte
<1> DEFINE sum == RunningXor(s)
           Untyped == {i \in 0..Len(s) : sum[i] \notin Byte}
<1>1. Len(s) \in Nat /\ \A i \in 1..Len(s) : s[i] \in Byte
  BY LenProperties, ElementOfSeq
<1>2. sum = [i \in 0..Len(s) |-> IF i = 0 THEN 0 ELSE XorOf(sum[i - 1], s[i])]
  BY <1>1, RunningXorIs DEF IsRunning
<1> HIDE DEF sum
<1>3. sum[0] = 0 /\ \A i \in 1..Len(s) : sum[i] = XorOf(sum[i - 1], s[i])
  BY <1>1, <1>2
<1>4. Untyped = {}
  <2>1. SUFFICES ASSUME Untyped # {} PROVE FALSE
    OBVIOUS
  <2>2. Untyped \subseteq Nat
    BY <1>1
  <2>3. PICK k \in Untyped : \A j \in Untyped : k <= j
    <3> HIDE DEF Untyped
    <3> QED BY <2>1, <2>2, LeastNumber
  <2>4. k \in 1..Len(s)
    BY <1>1, <1>3, <2>3, XorAssumption
  <2>5. k - 1 \in 0..Len(s) /\ k - 1 \notin Untyped
    BY <1>1, <2>3, <2>4
  <2>6. sum[k - 1] \in Byte
    BY <2>5
  <2>7. sum[k] \in Byte
    <3>1. s[k] \in Byte /\ sum[k] = XorOf(sum[k - 1], s[k])
      BY <1>1, <1>3, <2>4
    <3> QED BY <2>6, <3>1, XorProperties
  <2> QED BY <2>3, <2>7
<1> QED BY <1>1, <1>3, <1>4 DEF sum

\* Where two sequences agree so do their checksums.
LEMMA SameBytesSameXor ==
    ASSUME NEW s \in Seq(Byte), NEW t \in Seq(Byte), Len(t) = Len(s),
           NEW k \in 0..Len(s), \A i \in 1..k : t[i] = s[i]
    PROVE  RunningXor(t)[k] = RunningXor(s)[k]
<1> DEFINE a == RunningXor(s)
           b == RunningXor(t)
           Unequal == {i \in 0..k : b[i] # a[i]}
<1>1. /\ Len(s) \in Nat /\ a[0] = 0 /\ b[0] = 0
      /\ \A i \in 1..Len(s) : a[i] = XorOf(a[i - 1], s[i]) /\ b[i] = XorOf(b[i - 1], t[i])
  BY RunningXorTyped
<1> HIDE DEF a, b
<1>2. Unequal = {}
  <2>1. SUFFICES ASSUME Unequal # {} PROVE FALSE
    OBVIOUS
  <2>2. Unequal \subseteq Nat
    BY <1>1
  <2>3. PICK i \in Unequal : \A j \in Unequal : i <= j
    <3> HIDE DEF Unequal
    <3> QED BY <2>1, <2>2, LeastNumber
  <2>4. i \in 1..Len(s) /\ i \in 1..k /\ i - 1 \in 0..k
    BY <1>1, <2>3
  <2>5. b[i - 1] = a[i - 1]
    BY <2>2, <2>3, <2>4
  <2> QED BY <1>1, <2>3, <2>4, <2>5
<1> QED BY <1>2 DEF a, b

\* A single byte that differs shows in every checksum from it on.
LEMMA OtherByteOtherXor ==
    ASSUME NEW s \in Seq(Byte), NEW t \in Seq(Byte), Len(t) = Len(s),
           NEW i \in 1..Len(s), t[i] # s[i],
           \A j \in 1..Len(s) : j # i => t[j] = s[j]
    PROVE  XorChecksum(t) # XorChecksum(s)
<1> DEFINE a == RunningXor(s)
           b == RunningXor(t)
           Equal == {k \in i..Len(s) : b[k] = a[k]}
<1>1. /\ Len(s) \in Nat
      /\ \A k \in 1..Len(s) : a[k] = XorOf(a[k - 1], s[k]) /\ b[k] = XorOf(b[k - 1], t[k])
      /\ \A k \in 0..Len(s) : a[k] \in Byte /\ b[k] \in Byte
      /\ \A k \in 1..Len(s) : s[k] \in Byte /\ t[k] \in Byte
  BY RunningXorTyped, ElementOfSeq
<1>2. b[i - 1] = a[i - 1]
  <2>1. i - 1 \in 0..Len(s) /\ \A j \in 1..(i - 1) : t[j] = s[j]
    BY <1>1
  <2> QED BY <2>1, SameBytesSameXor
<1> HIDE DEF a, b
<1>3. Equal = {}
  <2>1. SUFFICES ASSUME Equal # {} PROVE FALSE
    OBVIOUS
  <2>2. Equal \subseteq Nat
    BY <1>1
  <2>3. PICK k \in Equal : \A j \in Equal : k <= j
    <3> HIDE DEF Equal
    <3> QED BY <2>1, <2>2, LeastNumber
  <2>4. k \in 1..Len(s) /\ k - 1 \in 0..Len(s) /\ b[k] = a[k]
    BY <1>1, <2>3
  <2>5. CASE k = i
    <3>1. /\ a[i] = XorOf(a[i - 1], s[i]) /\ b[i] = XorOf(a[i - 1], t[i])
          /\ a[i - 1] \in Byte /\ s[i] \in Byte /\ t[i] \in Byte /\ a[i] = b[i]
      BY <1>1, <1>2, <2>4, <2>5
    <3> QED BY <3>1, XorProperties
  <2>6. CASE k # i
    <3>1. k - 1 \in i..Len(s) /\ k - 1 \notin Equal
      BY <1>1, <2>3, <2>4, <2>6
    <3>2. b[k - 1] # a[k - 1] /\ t[k] = s[k]
      BY <2>4, <2>6, <3>1
    <3>3. /\ a[k] = XorOf(a[k - 1], s[k]) /\ b[k] = XorOf(b[k - 1], s[k]) /\ a[k] = b[k]
          /\ a[k - 1] \in Byte /\ b[k - 1] \in Byte /\ s[k] \in Byte
      BY <1>1, <2>4, <3>2
    <3> QED BY <3>2, <3>3, XorProperties
  <2> QED BY <2>5, <2>6
<1>4. Len(s) \in i..Len(s)
  BY <1>1
<1> QED BY <1>3, <1>4 DEF XorChecksum, a, b

-----------------------------------------------------------------------------
(* Frames and their commands.                                              *)

Frames == [1..N -> Byte]

\* A frame as a sequence, and what its checksum covers.
LEMMA CoveredProperties ==
    ASSUME NEW f \in Frames
    PROVE  /\ N \in Nat /\ ArgCount \in Nat /\ N = ArgCount + 5 /\ ArgCount > 0
           /\ f \in Seq(Byte) /\ Len(f) = N
           /\ Covered(f) \in Seq(Byte) /\ Len(Covered(f)) = N - 1
           /\ \A i \in 1..(N - 1) : Covered(f)[i] = f[i]
<1>1. N \in Nat /\ ArgCount \in Nat /\ N = ArgCount + 5 /\ ArgCount > 0
  BY LayoutAssumption
<1>2. f \in Seq(Byte) /\ Len(f) = N
  BY <1>1, IsASeq, LenProperties DEF Frames
<1>3. \A i \in 1..(N - 1) : f[i] \in Byte
  BY <1>1 DEF Frames
<1>4. /\ Covered(f) \in Seq(Byte) /\ Len(Covered(f)) = N - 1 - 1 + 1
      /\ \A i \in 1..(N - 1 - 1 + 1) : Covered(f)[i] = f[1 + i - 1]
  BY <1>1, <1>3, SubSeqProperties DEF Covered
<1>5. N - 1 - 1 + 1 = N - 1 /\ \A i \in 1..(N - 1) : 1 + i - 1 = i
  BY <1>1
<1> QED BY <1>1, <1>2, <1>4, <1>5

\* Two frames that differ in one byte cannot both have their checksum.
LEMMA NoiseBreaksChecksum ==
    ASSUME NEW f \in Frames, NEW g \in Frames, NEW i \in 1..N, g[i] # f[i],
           \A j \in 1..N : j # i => g[j] = f[j],
           XorChecksum(Covered(f)) = f[N], XorChecksum(Covered(g)) = g[N]
    PROVE  FALSE
<1> DEFINE s == Covered(f)
           t == Covered(g)
<1>1. /\ N \in Nat /\ N - 1 \in Nat /\ N \in 1..N
      /\ s \in Seq(Byte) /\ Len(s) = N - 1 /\ \A j \in 1..(N - 1) : s[j] = f[j]
      /\ t \in Seq(Byte) /\ Len(t) = N - 1 /\ \A j \in 1..(N - 1) : t[j] = g[j]
  BY CoveredProperties
<1> HIDE DEF s, t
<1>2. CASE i = N
  <2>1. \A j \in 1..Len(s) : t[j] = s[j]
    BY <1>1, <1>2
  <2>2. XorChecksum(t) = XorChecksum(s)
    BY <1>1, <2>1, SameBytesSameXor DEF XorChecksum
  <2> QED BY <1>2, <2>2 DEF s, t
<1>3. CASE i # N
  <2>1. /\ i \in 1..Len(s) /\ t[i] # s[i]
        /\ \A j \in 1..Len(s) : j # i => t[j] = s[j]
    BY <1>1, <1>3
  <2>2. XorChecksum(t) # XorChecksum(s)
    BY <1>1, <2>1, OtherByteOtherXor
  <2>3. g[N] = f[N]
    BY <1>1, <1>3
  <2> QED BY <2>2, <2>3 DEF s, t
<1> QED BY <1>2, <1>3

\* What a frame that yields a command looks like.
LEMMA DecodedCommand ==
    ASSUME NEW f \in Frames, DecodeUplink(f).ok
    PROVE  /\ f[1] = Header /\ XorChecksum(Covered(f)) = f[N] /\ KindKnown(f)
           /\ DecodeUplink(f).command = [kind |-> Kind(f), id |-> f[3], command |-> f[4],
                                         args |-> SubSeq(f, 5, N - 1)]
BY DEF DecodeUplink, Ok, Err

\* Two kinds have two bytes.
LEMMA KindIsByte ==
    ASSUME NEW f \in Frames, KindKnown(f)
    PROVE  (CHOOSE k \in 0..(Len(Kinds) - 1) : Kinds[k + 1] = Kind(f)) = f[2]
<1>1. Len(Kinds) = 5 /\ f[2] \in Nat
  <2>1. 2 \in 1..N
    BY LayoutAssumption
  <2> QED BY <2>1, XorAssumption DEF Kinds, Frames
<1>2. f[2] \in 0..(Len(Kinds) - 1)
  BY <1>1 DEF KindKnown
<1>3. ASSUME NEW k \in 0..(Len(Kinds) - 1), Kinds[k + 1] = Kind(f) PROVE k = f[2]
  <2>1. \A i, j \in 1..5 : Kinds[i] = Kinds[j] => i = j
    BY DEF Kinds
  <2>2. k + 1 \in 1..5 /\ f[2] + 1 \in 1..5 /\ k \in Nat
    BY <1>1, <1>2
  <2>3. k + 1 = f[2] + 1
    BY <1>3, <2>1, <2>2 DEF Kind
  <2> QED BY <1>1, <2>2, <2>3
<1> QED BY <1>2, <1>3 DEF Kind

\* A sequence that is made of two parts.
LEMMA TwoParts ==
    ASSUME NEW s \in Seq(Byte), NEW t \in Seq(Byte), NEW f \in Seq(Byte),
           Len(f) = Len(s) + Len(t),
           \A i \in 1..Len(s) : f[i] = s[i],
           \A i \in 1..Len(t) : f[Len(s) + i] = t[i]
    PROVE  s \o t = f
<1> DEFINE u == s \o t
<1>1. /\ u \in Seq(Byte) /\ Len(u) = Len(s) + Len(t)
      /\ \A i \in 1..(Len(s) + Len(t)) :
             u[i] = IF i <= Len(s) THEN s[i] ELSE t[i - Len(s)]
  BY ConcatProperties
<1> HIDE DEF u
<1>2. Len(s) \in Nat /\ Len(t) \in Nat
  BY LenProperties
<1>3. ASSUME NEW i \in 1..Len(u) PROVE u[i] = f[i]
  <2>1. CASE i <= Len(s)
    BY <1>1, <1>2, <2>1
  <2>2. CASE i > Len(s)
    <3>1. i - Len(s) \in 1..Len(t) /\ Len(s) + (i - Len(s)) = i
      BY <1>1, <1>2, <2>2
    <3>2. u[i] = t[i - Len(s)]
      BY <1>1, <1>2, <2>2
    <3>3. f[Len(s) + (i - Len(s))] = t[i - Len(s)]
      BY <3>1
    <3> QED BY <3>1, <3>2, <3>3
  <2> QED BY <1>1, <1>2, <2>1, <2>2
<1>4. u = f
  BY <1>1, <1>3, SeqEqual
<1> QED BY <1>4 DEF u

\* The frame of a decoded command is the one it was decoded from.
LEMMA EncodeInvertsDecode ==
    ASSUME NEW f \in Frames, DecodeUplink(f).ok
    PROVE  Encode(DecodeUplink(f).command) = f
<1> DEFINE c == DecodeUplink(f).command
           args == SubSeq(f, 5, N - 1)
           front == <<Header, f[2], f[3], f[4]>>
           body == front \o args
           whole == Append(body, XorChecksum(body))
<1>1. /\ f[1] = Header /\ XorChecksum(Covered(f)) = f[N] /\ KindKnown(f)
      /\ c.kind = Kind(f) /\ c.id = f[3] /\ c.command = f[4] /\ c.args = args
  <2>1. /\ f[1] = Header /\ XorChecksum(Covered(f)) = f[N] /\ KindKnown(f)
        /\ c = [kind |-> Kind(f), id |-> f[3], command |-> f[4], args |-> args]
    BY DecodedCommand
  <2> HIDE DEF c
  <2> QED BY <2>1
<1>2. Encode(c) = whole
  <2> HIDE DEF c
  <2> QED BY <1>1, KindIsByte DEF Encode
<1>3. /\ N \in Nat /\ N >= 6 /\ f \in Seq(Byte) /\ Len(f) = N
      /\ Covered(f) \in Seq(Byte) /\ Len(Covered(f)) = N - 1
      /\ \A i \in 1..(N - 1) : Covered(f)[i] = f[i]
      /\ \A i \in 1..N : f[i] \in Byte
  BY CoveredProperties DEF Frames
<1>4. /\ args \in Seq(Byte) /\ Len(args) = N - 5
      /\ \A i \in 1..(N - 5) : args[i] = f[i + 4]
  <2>1. \A i \in 5..(N - 1) : f[i] \in Byte
    BY <1>3
  <2>2. /\ args \in Seq(Byte) /\ Len(args) = N - 1 - 5 + 1
        /\ \A i \in 1..(N - 1 - 5 + 1) : args[i] = f[5 + i - 1]
    BY <1>3, <2>1, SubSeqProperties
  <2>3. N - 1 - 5 + 1 = N - 5 /\ \A i \in 1..(N - 5) : 5 + i - 1 = i + 4
    BY <1>3
  <2> QED BY <2>2, <2>3
<1>5. /\ front \in Seq(Byte) /\ Len(front) = 4
      /\ \A i \in 1..4 : front[i] = f[i]
  BY <1>1, <1>3
<1> HIDE DEF args, front
<1>6. body = Covered(f)
  <2>1. Len(Covered(f)) = Len(front) + Len(args)
    BY <1>3, <1>4, <1>5
  <2>2. ASSUME NEW i \in 1..Len(front) PROVE Covered(f)[i] = front[i]
    BY <1>3, <1>5
  <2>3. ASSUME NEW i \in 1..Len(args) PROVE Covered(f)[Len(front) + i] = args[i]
    <3>1. i \in 1..(N - 5) /\ 4 + i \in 1..(N - 1) /\ 4 + i = i + 4
      BY <1>3, <1>4
    <3> QED BY <1>3, <1>4, <1>5, <3>1
  <2> QED BY <1>3, <1>4, <1>5, <2>1, <2>2, <2>3, TwoParts
<1>7. body \in Seq(Byte) /\ Len(body) = N - 1 /\ \A i \in 1..(N - 1) : body[i] = f[i]
  BY <1>3, <1>6
<1> HIDE DEF body
<1>8. XorChecksum(body) = f[N] /\ f[N] \in Byte
  BY <1>1, <1>3, <1>6
<1>9. /\ whole \in Seq(Byte) /\ Len(whole) = N
      /\ \A i \in 1..N : whole[i] = f[i]
  <2>1. /\ whole \in Seq(Byte) /\ Len(whole) = Len(body) + 1
        /\ \A i \in 1..Len(body) : whole[i] = body[i]
        /\ whole[Len(body) + 1] = f[N]
    BY <1>7, <1>8, AppendProperties
  <2> HIDE DEF whole
  <2> QED BY <1>3, <1>7, <2>1
<1> HIDE DEF whole
<1>10. whole = f
  BY <1>3, <1>9, SeqEqual
<1> QED BY <1>2, <1>10

\* What the last call of push returned was decoded from some frame.
Produced == result = None \/ \E f \in Frames : result = DecodeUplink(f)

LEMMA ProducedSuffices == Produced => OneByteOffIsRefused
<1> SUFFICES ASSUME Produced, IsCommand(result)
             PROVE  LET sent == Encode(result.command)
                    IN  /\ DecodeUplink(sent) = result
                        /\ \A i \in 1..N : \A byte \in Byte \ {sent[i]} :
                               ~IsCommand(DecodeUplink([sent EXCEPT ![i] = byte]))
  BY DEF OneByteOffIsRefused
<1>1. PICK f \in Frames : result = DecodeUplink(f) /\ DecodeUplink(f).ok
  BY DEF Produced, IsCommand
<1>2. Encode(result.command) = f
  BY <1>1, EncodeInvertsDecode
<1>3. ASSUME NEW i \in 1..N, NEW byte \in Byte \ {f[i]},
             IsCommand(DecodeUplink([f EXCEPT ![i] = byte]))
      PROVE  FALSE
  <2> DEFINE g == [f EXCEPT ![i] = byte]
  <2>1. /\ g \in Frames /\ g[i] # f[i]
        /\ \A j \in 1..N : j # i => g[j] = f[j]
    BY DEF Frames
  <2>2. DecodeUplink(g).ok
    BY <1>3 DEF IsCommand
  <2> HIDE DEF g
  <2>3. XorChecksum(Covered(f)) = f[N] /\ XorChecksum(Covered(g)) = g[N]
    BY <1>1, <2>1, <2>2, DecodedCommand
  <2> QED BY <2>1, <2>3, NoiseBreaksChecksum
<1> QED BY <1>1, <1>2, <1>3

\* In whatever noise a command was found: it comes from exactly one frame, and a frame
\* that differs from that one in a single byte, the checksum's included, is no command.
\* This holds for every width of a byte and number of arguments, and whatever exclusive
\* or does, as long as another operand gives another byte.
THEOREM OneByteIsRefused == Spec => []OneByteOffIsRefused
<1>1. Init => Produced
  BY DEF Init, Produced
<1>2. FrameInv /\ Produced /\ [Next]_vars => Produced'
  <2> SUFFICES ASSUME FrameInv, Produced, [Next]_vars PROVE Produced'
    OBVIOUS
  <2>1. CASE UNCHANGED result
    BY <2>1 DEF Produced
  <2>2. ASSUME NEW byte \in Byte, Push(byte) PROVE Produced'
    <3>1. CASE SkipByte(byte) \/ Gather(byte)
      BY <3>1 DEF SkipByte, Gather, Produced
    <3>2. CASE Complete(byte)
      <4> DEFINE whole == Append(frame, byte)
      <4>1. whole \in Seq(Byte) /\ Len(whole) = N /\ whole = Received(byte)
        BY <3>2, WholeIsReceived DEF Complete, Received
      <4>2. result' = Decode(whole)
        BY <3>2 DEF Complete
      <4> HIDE DEF whole
      <4>3. whole \in Frames
        BY <4>1, LenProperties DEF Frames
      <4>4. result' = DecodeUplink(whole)
        BY <4>2, <4>3, UplinkAssumption DEF Frames
      <4> QED BY <4>3, <4>4 DEF Produced
    <3> QED BY <2>2, <3>1, <3>2 DEF Push
  <2> QED BY <2>1, <2>2 DEF Next, Reset, vars
<1> QED BY <1>1, <1>2, BufferIsInStep, ProducedSuffices, PTL DEF Spec

\* decode_uplink answers every frame with a command whose fields are all there, or with
\* one of its errors: what the buffer assumes of its decoder.
THEOREM DecoderIsTotal ==
    \A f \in Frames :
        \/ \E c \in UplinkCommand : DecodeUplink(f) = Ok(c)
        \/ \E e \in UplinkDecodeError : DecodeUplink(f) = Err(e)
<1> SUFFICES ASSUME NEW f \in Frames
             PROVE  \/ \E c \in UplinkCommand : DecodeUplink(f) = Ok(c)
                    \/ \E e \in UplinkDecodeError : DecodeUplink(f) = Err(e)
  OBVIOUS
<1>1. CASE ~ DecodeUplink(f).ok
  <2>1. DecodeUplink(f) \in {Err(e) : e \in UplinkDecodeError}
    BY <1>1 DEF DecodeUplink, Ok, Err, UplinkDecodeError
  <2> QED BY <2>1
<1>2. CASE DecodeUplink(f).ok
  <2> DEFINE args == SubSeq(f, 5, N - 1)
             c == [kind |-> Kind(f), id |-> f[3], command |-> f[4], args |-> args]
  <2>1. DecodeUplink(f) = Ok(c) /\ KindKnown(f)
    BY <1>2 DEF DecodeUplink, Ok, Err
  <2>2. N \in Nat /\ ArgCount \in Nat /\ N = ArgCount + 5 /\ ArgCount > 0
    BY CoveredProperties
  <2>3. f[2] \in Nat /\ f[3] \in Byte /\ f[4] \in Byte
    <3>1. 2 \in 1..N /\ 3 \in 1..N /\ 4 \in 1..N
      BY <2>2
    <3>2. f[2] \in Byte /\ f[3] \in Byte /\ f[4] \in Byte
      BY <3>1 DEF Frames
    <3>3. Byte \subseteq Nat
      BY XorAssumption
    <3> QED BY <3>2, <3>3
  <2>4. Kind(f) \in Range(Kinds)
    <3>1. Len(Kinds) = 5 /\ DOMAIN Kinds = 1..5
      BY DEF Kinds
    <3>2. f[2] + 1 \in DOMAIN Kinds
      BY <2>1, <2>3, <3>1 DEF KindKnown
    <3> QED BY <3>2 DEF Kind, Range
  <2>5. args \in [1..ArgCount -> Byte]
    <3>1. \A i \in 5..(N - 1) : f[i] \in Byte
      BY <2>2 DEF Frames
    <3>2. args \in Seq(Byte) /\ Len(args) = ArgCount
      <4>1. args \in Seq(Byte) /\ Len(args) = N - 1 - 5 + 1
        BY <2>2, <3>1, SubSeqProperties
      <4> QED BY <2>2, <4>1
    <3> HIDE DEF args
    <3> QED BY <3>2, LenProperties
  <2>6. c \in UplinkCommand
    <3> HIDE DEF args
    <3> QED BY <2>3, <2>4, <2>5 DEF UplinkCommand
  <2> QED BY <2>1, <2>6
<1> QED BY <1>1, <1>2
==============================================================================
