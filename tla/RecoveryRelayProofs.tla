-------------------------- MODULE RecoveryRelayProofs --------------------------
(***************************************************************************)
(* Proofs about the relay of log dumps, for every size of fragments,       *)
(* chunks, queues and files, every wrap of the sequence and every set of   *)
(* commands: RelayInv, ResumeSkipsLittle and FinalReportStandsAlways from  *)
(* the invariant RelayIInv, whether or not frames are lost; ChunkIsFile    *)
(* and CompletedMeansAll from LosslessIInv on top of it, when none is; and *)
(* that the relay implements LogTransfer, from ServingInv on top of        *)
(* RelayIInv.                                                              *)
(***************************************************************************)
EXTENDS RecoveryRelay, SequenceTheorems, TLAPS

StatusCode == {"Dumping", "Complete", "Ready", "Aborted", "Busy", "InvalidState",
               "InvalidArgument", "SourceUnavailable", "IoError", "InternalError"}

\* Only a dump that starts or is complete announces the size of the file.
StatusSet ==
    {s \in [kind : {"RecoveryStatus"}, opcode : Opcode, transfer_id : Id,
            status : StatusCode, total_size : Nat] :
        s.status \notin {"Dumping", "Complete"} => s.total_size = 0}

Sequence == 0 .. SequenceModulus - 1

FragmentSet == [kind : {"RecoveryLogData"}, transfer_id : Id, sequence : Sequence,
                first : Nat]

Frame == StatusSet \cup FragmentSet

ControlSet == [opcode : Opcode, transfer_id : Id, offset : Nat, length : Nat]

DumpSet == [transfer_id : Id, first : Nat, sequence : Sequence, end : Nat,
            lost : Sequence]

Phase == {"Accepted", "Completed", "Rejected", "Failed"}

Reason == {"None", "Busy", "InvalidState", "InvalidArgument", "Timeout", "ProtocolError",
           "InternalError", "DeviceUnavailable", "PersistenceError",
           "InterruptedByEmergency"}

ReportSet == [phase : Phase, reason : Reason, detail : Nat]

AssemblerSet == [active : BOOLEAN, transfer_id : Id \cup {0}, offset : Nat,
                 total_size : Nat \cup {None}, expected_sequence : Sequence \cup {None},
                 data : Seq(Nat)]

-----------------------------------------------------------------------------
(* The assembler.                                                          *)

\* The bytes of d are those that follow position b in the file.
At(d, b) == \A i \in 1 .. Len(d) : d[i] = b + i

Contiguous(d) == \E b \in Int : At(d, b)

\* The assembler is well-formed, and what it has gathered is shorter than a chunk.
AssemblerOK(a) ==
    /\ a \in AssemblerSet /\ Len(a.data) < ChunkSize
    /\ a.active => a.transfer_id \in Id

LEMMA MinOfTwo ==
    ASSUME NEW x \in Int, NEW y \in Int
    PROVE  Min({x, y}) = IF x <= y THEN x ELSE y
<1>1. \E z \in {x, y} : \A w \in {x, y} : z <= w
  BY x <= y \/ y <= x
<1> QED BY <1>1 DEF Min

LEMMA MaxOfTwo ==
    ASSUME NEW x \in Int, NEW y \in Int
    PROVE  Max({x, y}) = IF x >= y THEN x ELSE y
<1>1. \E z \in {x, y} : \A w \in {x, y} : z >= w
  BY x <= y \/ y <= x
<1> QED BY <1>1 DEF Max

LEMMA IdleIsOK == AssemblerOK(Idle)
<1>1. <<>> \in Seq(Nat) /\ Len(<<>>) = 0 /\ 0 < ChunkSize
  BY SizesAssumption
<1> QED BY <1>1 DEF AssemblerOK, AssemblerSet, Idle

LEMMA StartedIsOK ==
    ASSUME NEW id \in Id, NEW offset \in Nat, NEW length \in Nat
    PROVE  AssemblerOK(Started(id, offset, length))
<1>1. <<>> \in Seq(Nat) /\ Len(<<>>) = 0 /\ 0 < ChunkSize
  BY SizesAssumption
<1>2. (IF length = 0 THEN None ELSE offset + length) \in Nat \cup {None}
  OBVIOUS
<1> QED BY <1>1, <1>2 DEF AssemblerOK, AssemblerSet, Started

LEMMA AbortedIsOK ==
    ASSUME NEW a \in AssemblerSet
    PROVE  /\ AssemblerOK(Aborted(a)) /\ Aborted(a).active = FALSE
           /\ Aborted(a).transfer_id = a.transfer_id /\ Aborted(a).data = <<>>
<1>1. <<>> \in Seq(Nat) /\ Len(<<>>) = 0 /\ 0 < ChunkSize
  BY SizesAssumption
<1> QED BY <1>1 DEF AssemblerOK, AssemblerSet, Aborted

\* The announced size ends a transfer sooner, never later.
LEMMA SizedIsOK ==
    ASSUME NEW a, AssemblerOK(a), NEW id \in Id, NEW size \in Nat
    PROVE  LET sized == WithTotalSize(a, id, size)
           IN  /\ AssemblerOK(sized)
               /\ sized.active = a.active /\ sized.transfer_id = a.transfer_id
               /\ sized.offset = a.offset /\ sized.data = a.data
               /\ sized.expected_sequence = a.expected_sequence
               /\ ReachedEnd(a) => ReachedEnd(sized)
<1> DEFINE sized == WithTotalSize(a, id, size)
           total == IF a.total_size = None THEN size ELSE Min({a.total_size, size})
<1>1. a \in AssemblerSet /\ Len(a.data) \in Nat
  BY LenProperties DEF AssemblerOK, AssemblerSet
<1>2. CASE sized = a
  BY <1>2
<1>3. CASE sized # a
  <2>1. sized = [a EXCEPT !.total_size = total]
    BY <1>3 DEF WithTotalSize
  <2>2. /\ total \in Nat
        /\ a.total_size # None => a.total_size \in Nat /\ total <= a.total_size
    BY <1>1, MinOfTwo DEF AssemblerSet
  <2>3. sized = [active |-> a.active, transfer_id |-> a.transfer_id, offset |-> a.offset,
                 total_size |-> total, expected_sequence |-> a.expected_sequence,
                 data |-> a.data]
    BY <1>1, <2>1 DEF AssemblerSet
  <2> HIDE DEF sized, total
  <2>4. AssemblerOK(sized)
    BY <1>1, <2>2, <2>3 DEF AssemblerOK, AssemblerSet
  <2>5. ASSUME ReachedEnd(a) PROVE ReachedEnd(sized)
    <3>1. a.total_size \in Nat /\ a.offset \in Nat /\ a.offset + Len(a.data) >= a.total_size
      BY <1>1, <2>5 DEF ReachedEnd, AssemblerSet
    <3>2. a.offset + Len(a.data) >= total /\ total # None
      BY <1>1, <2>2, <2>5, <3>1, NoneAssumption DEF ReachedEnd
    <3> QED BY <2>3, <3>2 DEF ReachedEnd
  <2> QED BY <2>3, <2>4, <2>5 DEF sized
<1> QED BY <1>2, <1>3

\* What a fragment adds: nothing once the end is reached, and a part of itself only
\* if that reaches the end.
LEMMA FragmentLengthBounds ==
    ASSUME NEW a \in AssemblerSet
    PROVE  /\ FragmentLength(a) \in 0 .. FragmentSize
           /\ ReachedEnd(a) => FragmentLength(a) = 0
           /\ FragmentLength(a) # FragmentSize =>
                  /\ a.total_size # None
                  /\ a.offset + Len(a.data) + FragmentLength(a) >= a.total_size
           /\ a.total_size # None /\ FragmentLength(a) # 0 =>
                  a.offset + Len(a.data) + FragmentLength(a) <= a.total_size
<1>1. a.offset \in Nat /\ Len(a.data) \in Nat /\ a.total_size \in Nat \cup {None}
      /\ FragmentSize \in Nat
  BY LenProperties, SizesAssumption DEF AssemblerSet
<1>2. CASE a.total_size = None
  BY <1>1, <1>2 DEF FragmentLength, ReachedEnd
<1>3. CASE a.total_size # None
  <2> DEFINE left == a.total_size - (a.offset + Len(a.data))
             room == Max({0, left})
  <2>1. a.total_size \in Nat /\ left \in Int
    BY <1>1, <1>3
  <2>2. room = IF 0 >= left THEN 0 ELSE left
    BY <2>1, MaxOfTwo
  <2>3. /\ room \in Nat /\ room >= left
        /\ left <= 0 => room = 0
        /\ left > 0 => room = left
    <3> HIDE DEF left, room
    <3> QED BY <2>1, <2>2
  <2>4. FragmentLength(a) = Min({FragmentSize, room})
    BY <1>3 DEF FragmentLength, ResumeOffset
  <2>5. Min({FragmentSize, room}) = IF FragmentSize <= room THEN FragmentSize ELSE room
    <3> HIDE DEF room
    <3> QED BY <1>1, <2>3, MinOfTwo
  <2>6. /\ FragmentLength(a) \in 0 .. FragmentSize
        /\ left <= 0 => FragmentLength(a) = 0
        /\ FragmentLength(a) # FragmentSize => FragmentLength(a) >= left
        /\ FragmentLength(a) # 0 => FragmentLength(a) <= left
    <3> HIDE DEF left, room
    <3> QED BY <1>1, <2>1, <2>3, <2>4, <2>5
  <2>7. ReachedEnd(a) => left <= 0
    BY <1>1, <2>1 DEF ReachedEnd
  <2> QED BY <1>1, <1>3, <2>1, <2>6, <2>7
<1> QED BY <1>2, <1>3

LEMMA JoinedIsAt ==
    ASSUME NEW a \in AssemblerSet, NEW f \in FragmentSet, NEW b \in Int, At(a.data, b),
           FragmentLength(a) = 0 \/ f.first = b + Len(a.data) + 1
    PROVE  /\ Joined(a, f) \in Seq(Nat)
           /\ Len(Joined(a, f)) = Len(a.data) + FragmentLength(a)
           /\ At(Joined(a, f), b)
<1> DEFINE n == FragmentLength(a)
           t == [i \in 1 .. n |-> f.first + i - 1]
<1>1. n \in Nat
  BY FragmentLengthBounds, SizesAssumption
<1>2. f.first \in Nat /\ a.data \in Seq(Nat) /\ Len(a.data) \in Nat
  BY LenProperties DEF FragmentSet, AssemblerSet
<1> HIDE DEF n
<1>3. t \in Seq(Nat) /\ Len(t) = n
  <2>1. t \in [1 .. n -> Nat]
    BY <1>1, <1>2
  <2> QED BY <1>1, <2>1, LenProperties, SeqDef
<1>4. \A i \in 1 .. n : t[i] = f.first + i - 1
  OBVIOUS
<1>5. Joined(a, f) = a.data \o t
  BY DEF Joined, n
<1> HIDE DEF t
<1>6. /\ a.data \o t \in Seq(Nat) /\ Len(a.data \o t) = Len(a.data) + n
      /\ \A i \in 1 .. Len(a.data) + n :
             (a.data \o t)[i] = IF i <= Len(a.data) THEN a.data[i] ELSE t[i - Len(a.data)]
  BY <1>2, <1>3, ConcatProperties
<1>7. ASSUME NEW i \in 1 .. Len(a.data \o t) PROVE (a.data \o t)[i] = b + i
  <2>1. CASE i <= Len(a.data)
    BY <1>1, <1>2, <1>6, <2>1 DEF At
  <2>2. CASE i > Len(a.data)
    <3>1. i - Len(a.data) \in 1 .. n /\ n # 0
      BY <1>1, <1>2, <1>6, <2>2
    <3>2. f.first = b + Len(a.data) + 1
      BY <3>1 DEF n
    <3>3. (a.data \o t)[i] = f.first + (i - Len(a.data)) - 1
      BY <1>1, <1>2, <1>4, <1>6, <2>2, <3>1
    <3> DEFINE n0 == Len(a.data)
               x == (a.data \o t)[i]
    <3>4. i \in Int /\ n0 \in Int /\ f.first = b + n0 + 1 /\ x = f.first + (i - n0) - 1
      BY <1>1, <1>2, <1>6, <3>2, <3>3
    <3> HIDE DEF n0, x
    <3>5. x = b + i
      BY <3>4
    <3> QED BY <3>5 DEF x
  <2> QED BY <1>1, <1>2, <1>6, <2>1, <2>2
<1> QED BY <1>5, <1>6, <1>7 DEF At, n

\* The first n elements of a sequence, and the others.
LEMMA Split ==
    ASSUME NEW d \in Seq(Nat), NEW b \in Int, At(d, b), NEW n \in Nat, n <= Len(d)
    PROVE  LET full == SubSeq(d, 1, n)
               rest == SubSeq(d, n + 1, Len(d))
           IN  /\ full \in Seq(Nat) /\ Len(full) = n /\ At(full, b)
               /\ rest \in Seq(Nat) /\ Len(rest) = Len(d) - n /\ At(rest, b + n)
<1>1. Len(d) \in Nat /\ \A i \in 1 .. Len(d) : d[i] \in Nat
  BY LenProperties, ElementOfSeq
<1>2. /\ SubSeq(d, 1, n) \in Seq(Nat) /\ Len(SubSeq(d, 1, n)) = n
      /\ \A i \in 1 .. n : SubSeq(d, 1, n)[i] = d[i]
  <2>1. /\ Len(SubSeq(d, 1, n)) = IF 1 <= n THEN n - 1 + 1 ELSE 0
        /\ \A i \in 1 .. n - 1 + 1 : SubSeq(d, 1, n)[i] = d[1 + i - 1]
        /\ SubSeq(d, 1, n) \in Seq(Nat)
    BY <1>1, SubSeqProperties
  <2> QED BY <2>1
<1>3. /\ SubSeq(d, n + 1, Len(d)) \in Seq(Nat)
      /\ Len(SubSeq(d, n + 1, Len(d))) = Len(d) - n
      /\ \A i \in 1 .. Len(d) - n : SubSeq(d, n + 1, Len(d))[i] = d[n + i]
  <2>1. /\ Len(SubSeq(d, n + 1, Len(d))) =
               IF n + 1 <= Len(d) THEN Len(d) - (n + 1) + 1 ELSE 0
        /\ \A i \in 1 .. Len(d) - (n + 1) + 1 :
               SubSeq(d, n + 1, Len(d))[i] = d[n + 1 + i - 1]
        /\ SubSeq(d, n + 1, Len(d)) \in Seq(Nat)
    BY <1>1, SubSeqProperties
  <2> QED BY <1>1, <2>1
<1> QED BY <1>1, <1>2, <1>3 DEF At

\* The fields of an assembler, named.
Fields(r, active, id, offset, total, expected, data) ==
    /\ r \in AssemblerSet
    /\ r.active = active /\ r.transfer_id = id /\ r.offset = offset
    /\ r.total_size = total /\ r.expected_sequence = expected /\ r.data = data

LEMMA FieldsOf ==
    ASSUME NEW active \in BOOLEAN, NEW id \in Id \cup {0}, NEW offset \in Nat,
           NEW total \in Nat \cup {None}, NEW expected \in Sequence \cup {None},
           NEW data \in Seq(Nat)
    PROVE  Fields([active |-> active, transfer_id |-> id, offset |-> offset,
                   total_size |-> total, expected_sequence |-> expected,
                   data |-> data], active, id, offset, total, expected, data)
BY DEF Fields, AssemblerSet

LEMMA AssemblerRecord ==
    ASSUME NEW a \in AssemblerSet
    PROVE  a = [active |-> a.active, transfer_id |-> a.transfer_id, offset |-> a.offset,
                total_size |-> a.total_size, expected_sequence |-> a.expected_sequence,
                data |-> a.data]
BY DEF AssemblerSet

\* take_chunk, and what is kept for the next chunk.
LEMMA ChunkTaken ==
    ASSUME NEW a \in AssemblerSet, NEW data \in Seq(Nat), NEW ended \in BOOLEAN,
           NEW rest \in Seq(Nat)
    PROVE  Fields([AfterChunk(a, data, ended) EXCEPT !.data = rest],
                  a.active /\ ~ ended, a.transfer_id, a.offset + Len(data),
                  a.total_size, a.expected_sequence, rest)
<1> DEFINE after == [AfterChunk(a, data, ended) EXCEPT !.data = rest]
           still == a.active /\ ~ ended
           end == a.offset + Len(data)
<1>1. /\ still \in BOOLEAN /\ end \in Nat /\ a.transfer_id \in Id \cup {0}
      /\ a.total_size \in Nat \cup {None}
      /\ a.expected_sequence \in Sequence \cup {None}
  BY LenProperties DEF AssemblerSet
<1>2. a = [active |-> a.active, transfer_id |-> a.transfer_id, offset |-> a.offset,
           total_size |-> a.total_size, expected_sequence |-> a.expected_sequence,
           data |-> a.data]
  BY AssemblerRecord
<1>3. after = [[[[a EXCEPT !.offset = end] EXCEPT !.data = <<>>]
                 EXCEPT !.active = still] EXCEPT !.data = rest]
  BY Zenon DEF AfterChunk
<1> HIDE DEF still, end, after
<1>4. after = [active |-> still, transfer_id |-> a.transfer_id, offset |-> end,
               total_size |-> a.total_size,
               expected_sequence |-> a.expected_sequence, data |-> rest]
  BY <1>2, <1>3
<1>5. Fields(after, still, a.transfer_id, end, a.total_size, a.expected_sequence, rest)
  BY <1>1, <1>4, FieldsOf
<1> QED BY <1>5, Zenon DEF after, still, end

LEMMA LastChunkTaken ==
    ASSUME NEW a \in AssemblerSet, NEW data \in Seq(Nat)
    PROVE  Fields(AfterChunk(a, data, TRUE), FALSE, a.transfer_id, a.offset + Len(data),
                  a.total_size, a.expected_sequence, <<>>)
<1> DEFINE after == AfterChunk(a, data, TRUE)
           end == a.offset + Len(data)
           none == <<>>
<1>1. /\ none \in Seq(Nat) /\ end \in Nat /\ a.transfer_id \in Id \cup {0}
      /\ a.total_size \in Nat \cup {None}
      /\ a.expected_sequence \in Sequence \cup {None}
  BY LenProperties DEF AssemblerSet
<1>2. a = [active |-> a.active, transfer_id |-> a.transfer_id, offset |-> a.offset,
           total_size |-> a.total_size, expected_sequence |-> a.expected_sequence,
           data |-> a.data]
  BY AssemblerRecord
<1>3. after = [[[a EXCEPT !.offset = end] EXCEPT !.data = none] EXCEPT !.active = FALSE]
  <2>1. (a.active /\ ~ TRUE) = FALSE
    OBVIOUS
  <2> QED BY <2>1, Zenon DEF AfterChunk
<1> HIDE DEF end, after, none
<1>4. after = [active |-> FALSE, transfer_id |-> a.transfer_id, offset |-> end,
               total_size |-> a.total_size,
               expected_sequence |-> a.expected_sequence, data |-> none]
  BY <1>2, <1>3
<1>5. Fields(after, FALSE, a.transfer_id, end, a.total_size, a.expected_sequence, none)
  BY <1>1, <1>4, FieldsOf
<1> QED BY <1>5, Zenon DEF after, end, none

\* An accepted fragment, before a chunk is taken.
LEMMA FragmentJoined ==
    ASSUME NEW a \in AssemblerSet, NEW expected \in Sequence, NEW data \in Seq(Nat)
    PROVE  Fields([a EXCEPT !.expected_sequence = expected, !.data = data], a.active,
                  a.transfer_id, a.offset, a.total_size, expected, data)
<1> DEFINE next == [a EXCEPT !.expected_sequence = expected, !.data = data]
<1>1. /\ a.active \in BOOLEAN /\ a.offset \in Nat /\ a.transfer_id \in Id \cup {0}
      /\ a.total_size \in Nat \cup {None}
  BY DEF AssemblerSet
<1>2. a = [active |-> a.active, transfer_id |-> a.transfer_id, offset |-> a.offset,
           total_size |-> a.total_size, expected_sequence |-> a.expected_sequence,
           data |-> a.data]
  BY AssemblerRecord
<1>3. next = [[a EXCEPT !.expected_sequence = expected] EXCEPT !.data = data]
  BY Zenon
<1> HIDE DEF next
<1>4. next = [active |-> a.active, transfer_id |-> a.transfer_id, offset |-> a.offset,
              total_size |-> a.total_size, expected_sequence |-> expected,
              data |-> data]
  BY <1>2, <1>3
<1>5. Fields(next, a.active, a.transfer_id, a.offset, a.total_size, expected, data)
  BY <1>1, <1>4, FieldsOf
<1> QED BY <1>5, Zenon DEF next

LEMMA ChunkIsChunk ==
    ASSUME NEW id \in Id, NEW offset \in Nat, NEW data \in Seq(Nat), NEW ended \in BOOLEAN
    PROVE  LET chunk == [transfer_id |-> id, offset |-> offset, data |-> data,
                         end_of_file |-> ended]
           IN  chunk \in ChunkSet /\ chunk # None
BY NoneAssumption DEF ChunkSet

\* What comes of a fragment that is accepted: the bytes of the assembler and of the
\* fragment, cut at the end of the transfer, are in the chunk and in the assembler.
PushedWell(a, f, b, r) ==
    /\ AssemblerOK(r.assembler) /\ r.assembler.transfer_id = a.transfer_id
    /\ r.assembler.total_size = a.total_size
    /\ r.assembler.expected_sequence = (f.sequence + 1) % SequenceModulus
    /\ r.assembler.offset + Len(r.assembler.data)
           = a.offset + Len(a.data) + FragmentLength(a)
    /\ At(r.assembler.data, b + (r.assembler.offset - a.offset))
    /\ ~ r.assembler.active => r.assembler.data = <<>> /\ ReachedEnd(r.assembler)
    /\ r.chunk = None => r.assembler.offset = a.offset /\ r.assembler.active
    /\ r.chunk # None =>
           /\ r.chunk \in ChunkSet /\ r.chunk.transfer_id = a.transfer_id
           /\ r.chunk.offset = a.offset /\ At(r.chunk.data, b)
           /\ r.assembler.offset = a.offset + Len(r.chunk.data)
           /\ Len(r.chunk.data) <= ChunkSize
           /\ Len(r.chunk.data) = ChunkSize \/ r.chunk.end_of_file
           /\ r.assembler.active = ~ r.chunk.end_of_file

LEMMA PushedIsWell ==
    ASSUME NEW a, AssemblerOK(a), a.active, NEW f \in FragmentSet, NEW b \in Int,
           At(a.data, b), FragmentLength(a) = 0 \/ f.first = b + Len(a.data) + 1
    PROVE  PushedWell(a, f, b, Pushed(a, f))
<1> DEFINE data == Joined(a, f)
           expected == (f.sequence + 1) % SequenceModulus
           next == [a EXCEPT !.expected_sequence = expected, !.data = data]
           full == SubSeq(data, 1, ChunkSize)
           rest == SubSeq(data, ChunkSize + 1, Len(data))
           ends == rest = <<>> /\ ReachedEnd(next)
           filled == [AfterChunk(next, full, ends) EXCEPT !.data = rest]
           ended == AfterChunk(next, data, TRUE)
           long == Len(data) >= ChunkSize
           last == ReachedEnd(next)
           fullChunk == ChunkOf(next, full, ends)
           lastChunk == ChunkOf(next, data, TRUE)
<1>0. Pushed(a, f) = IF long THEN [chunk |-> fullChunk, assembler |-> filled]
                     ELSE IF last THEN [chunk |-> lastChunk, assembler |-> ended]
                     ELSE [chunk |-> None, assembler |-> next]
  BY Zenon DEF Pushed
<1>00. /\ long => Pushed(a, f).chunk = fullChunk /\ Pushed(a, f).assembler = filled
       /\ ~ long /\ last =>
              Pushed(a, f).chunk = lastChunk /\ Pushed(a, f).assembler = ended
       /\ ~ long /\ ~ last => Pushed(a, f).chunk = None /\ Pushed(a, f).assembler = next
  <2> HIDE DEF long, last, fullChunk, filled, lastChunk, ended, next
  <2> QED BY <1>0
<1>1. /\ a \in AssemblerSet /\ a.transfer_id \in Id /\ a.active = TRUE
      /\ a.offset \in Nat /\ a.total_size \in Nat \cup {None}
      /\ Len(a.data) \in Nat /\ Len(a.data) < ChunkSize
  BY LenProperties DEF AssemblerOK, AssemblerSet
<1>2. data \in Seq(Nat) /\ Len(data) = Len(a.data) + FragmentLength(a) /\ At(data, b)
  BY <1>1, JoinedIsAt
<1>3. FragmentLength(a) \in Nat /\ FragmentLength(a) <= FragmentSize
      /\ FragmentSize <= ChunkSize /\ ChunkSize \in Nat /\ FragmentSize \in Nat
  BY <1>1, FragmentLengthBounds, SizesAssumption
<1>4. expected \in Sequence
  BY SizesAssumption DEF Sequence, FragmentSet
<1>5. Len(data) \in Nat /\ Len(data) < 2 * ChunkSize
  BY <1>1, <1>2, <1>3
<1> HIDE DEF data, expected
<1>6. Fields(next, a.active, a.transfer_id, a.offset, a.total_size, expected, data)
  BY <1>1, <1>2, <1>4, FragmentJoined, Zenon
<1>7. CASE long
  <2>1. /\ full \in Seq(Nat) /\ Len(full) = ChunkSize /\ At(full, b)
        /\ rest \in Seq(Nat) /\ Len(rest) = Len(data) - ChunkSize
        /\ At(rest, b + ChunkSize)
    BY <1>2, <1>3, <1>5, <1>7, Split
  <2>2. ends \in BOOLEAN
    OBVIOUS
  <2> DEFINE chunk == fullChunk
             after == filled
  <2>3. Pushed(a, f).chunk = chunk /\ Pushed(a, f).assembler = after
    BY <1>00, <1>7, Zenon
  <2> HIDE DEF next, full, rest
  <2>31. ends => rest = <<>> /\ ReachedEnd(next)
    BY Zenon DEF ends
  <2> HIDE DEF ends
  <2>4. chunk = [transfer_id |-> a.transfer_id, offset |-> a.offset, data |-> full,
                 end_of_file |-> ends]
    BY <1>6 DEF ChunkOf, Fields
  <2>5. Fields(after, next.active /\ ~ ends, next.transfer_id, next.offset + Len(full),
               next.total_size, next.expected_sequence, rest)
    <3>1. next \in AssemblerSet
      BY <1>6, Zenon DEF Fields
    <3> QED BY <2>1, <2>2, <3>1, ChunkTaken, Zenon
  <2>51. /\ after \in AssemblerSet
         /\ after.transfer_id = a.transfer_id /\ after.total_size = a.total_size
         /\ after.expected_sequence = expected
         /\ after.offset = a.offset + Len(full) /\ after.data = rest
         /\ after.active = (next.active /\ ~ ends)
    BY <1>6, <2>5, Zenon DEF Fields
  <2>6. chunk \in ChunkSet /\ chunk # None
    BY <1>1, <2>1, <2>2, <2>4, NoneAssumption DEF ChunkSet
  <2> HIDE DEF after
  <2>7. AssemblerOK(after)
    <3>1. Len(rest) < ChunkSize
      BY <1>3, <1>5, <2>1
    <3> QED BY <1>1, <2>51, <3>1 DEF AssemblerOK
  <2>8. after.offset + Len(after.data) = a.offset + Len(a.data) + FragmentLength(a)
    <3>1. after.offset + Len(after.data) = a.offset + ChunkSize + (Len(data) - ChunkSize)
      BY <2>1, <2>51
    <3> QED BY <1>1, <1>2, <1>3, <3>1
  <2>9. At(after.data, b + (after.offset - a.offset))
    <3>1. b + (after.offset - a.offset) = b + ChunkSize
      BY <1>1, <1>3, <2>1, <2>51
    <3> QED BY <2>1, <2>51, <3>1
  <2>10. /\ chunk.transfer_id = a.transfer_id /\ chunk.offset = a.offset
         /\ chunk.data = full
    BY <2>4
  <2>12. /\ Len(chunk.data) <= ChunkSize /\ Len(chunk.data) = ChunkSize
         /\ after.active = ~ chunk.end_of_file
    BY <1>1, <1>3, <1>6, <2>1, <2>4, <2>51, <2>10 DEF Fields
  <2>11. ASSUME ~ after.active PROVE after.data = <<>> /\ ReachedEnd(after)
    <3>1. rest = <<>> /\ ReachedEnd(next)
      BY <1>1, <1>6, <2>11, <2>31, <2>51 DEF Fields
    <3>2. a.total_size # None /\ a.offset + Len(data) >= a.total_size
      BY <1>6, <3>1 DEF Fields, ReachedEnd
    <3>3. after.offset + Len(after.data) = a.offset + Len(data)
      BY <1>1, <1>2, <1>3, <2>8
    <3> QED BY <2>51, <3>1, <3>2, <3>3 DEF ReachedEnd
  <2> QED BY <2>1, <2>3, <2>51, <2>6, <2>7, <2>8, <2>9, <2>10, <2>11,
         <2>12, Zenon
      DEF PushedWell, expected
<1>8. CASE ~ long /\ last
  <2> DEFINE chunk == lastChunk
             after == ended
  <2>1. Pushed(a, f).chunk = chunk /\ Pushed(a, f).assembler = after
    BY <1>00, <1>8, Zenon
  <2> HIDE DEF next
  <2>2. chunk = [transfer_id |-> a.transfer_id, offset |-> a.offset, data |-> data,
                 end_of_file |-> TRUE]
    BY <1>6 DEF ChunkOf, Fields
  <2>30. Fields(after, FALSE, next.transfer_id, next.offset + Len(data),
                next.total_size, next.expected_sequence, <<>>)
    BY <1>2, <1>6, LastChunkTaken, Zenon DEF Fields
  <2>3. /\ after \in AssemblerSet /\ after.active = FALSE
        /\ after.transfer_id = a.transfer_id /\ after.total_size = a.total_size
        /\ after.expected_sequence = expected
        /\ after.offset = a.offset + Len(data) /\ after.data = <<>>
    BY <1>6, <2>30, Zenon DEF Fields
  <2> HIDE DEF chunk, after
  <2>4. chunk \in ChunkSet /\ chunk # None
    <3>1. TRUE \in BOOLEAN
      OBVIOUS
    <3> QED BY <1>1, <1>2, <2>2, <3>1, ChunkIsChunk, Zenon
  <2>5. AssemblerOK(after)
    <3>1. Len(after.data) < ChunkSize
      BY <1>1, <1>3, <2>3
    <3> QED BY <2>3, <3>1 DEF AssemblerOK
  <2>6. after.offset + Len(after.data) = a.offset + Len(a.data) + FragmentLength(a)
    BY <1>1, <1>2, <1>3, <2>3
  <2>7. At(after.data, b + (after.offset - a.offset))
    BY <2>3 DEF At
  <2>8. /\ chunk.transfer_id = a.transfer_id /\ chunk.offset = a.offset
        /\ chunk.data = data
    BY <2>2
  <2>10. /\ Len(chunk.data) <= ChunkSize /\ chunk.end_of_file
         /\ after.active = ~ chunk.end_of_file
    <3>1. Len(data) <= ChunkSize
      BY <1>3, <1>5, <1>8
    <3>2. chunk.end_of_file = TRUE
      BY <2>2
    <3> QED BY <2>3, <2>8, <3>1, <3>2, Zenon
  <2>9. after.data = <<>> /\ ReachedEnd(after)
    <3>1. a.total_size # None /\ a.offset + Len(data) >= a.total_size
      BY <1>6, <1>8 DEF Fields, ReachedEnd
    <3>2. after.offset + Len(after.data) = a.offset + Len(data)
      BY <1>1, <1>2, <1>3, <2>6
    <3> QED BY <2>3, <3>1, <3>2 DEF ReachedEnd
  <2> QED BY <1>2, <2>1, <2>3, <2>4, <2>5, <2>6, <2>7, <2>8, <2>9,
         <2>10, Zenon
      DEF PushedWell, expected
<1>9. CASE ~ long /\ ~ last
  <2>1. Pushed(a, f).chunk = None /\ Pushed(a, f).assembler = next
    BY <1>00, <1>9, Zenon
  <2> HIDE DEF next
  <2>20. /\ next \in AssemblerSet /\ next.active = TRUE
         /\ next.transfer_id = a.transfer_id /\ next.total_size = a.total_size
         /\ next.expected_sequence = expected
         /\ next.offset = a.offset /\ next.data = data
    BY <1>1, <1>6, Zenon DEF Fields
  <2>2. AssemblerOK(next)
    BY <1>1, <1>3, <1>5, <1>9, <2>20 DEF AssemblerOK
  <2>3. At(next.data, b + (next.offset - a.offset))
    <3>1. b + (next.offset - a.offset) = b
      BY <1>1, <2>20
    <3> QED BY <1>2, <2>20, <3>1
  <2>4. next.offset + Len(next.data) = a.offset + Len(a.data) + FragmentLength(a)
    BY <1>1, <1>2, <1>3, <2>20
  <2> HIDE DEF expected
  <2> QED BY <2>1, <2>2, <2>20, <2>3, <2>4, Zenon DEF PushedWell, expected
<1> QED BY <1>7, <1>8, <1>9

-----------------------------------------------------------------------------
(* The invariant.                                                          *)

Types ==
    /\ session \in [id : Id, opcode : Opcode] \cup {None}
    /\ AssemblerOK(assembler)
    /\ beacon \in BOOLEAN
    /\ sending \in ControlSet \cup {None} /\ transmitting \in ControlSet \cup {None}
    /\ canTx \in Seq(ControlSet) /\ Len(canTx) <= TxCap
    /\ safetyTx \in Seq(ControlSet) /\ Len(safetyTx) <= SafetyCap
    /\ canRx \in Seq(Frame)
    /\ dump \in DumpSet \cup {None}
    /\ chunks \in Seq(ChunkSet) /\ Len(chunks) <= ChunkCap
    /\ issued \in 0 .. MaxCommands
    /\ reported \in [Id -> ReportSet \cup {None}]
    /\ confirmed \in [Id -> Nat]

\* Everything belongs to a command that was issued; the others have no report yet.
Known ==
    /\ session # None => session.id <= issued
    /\ assembler.transfer_id <= issued
    /\ \A id \in Id : id > issued => reported[id] = None

\* The open command has no final report.
OpenIsOpen == session # None =>
    (reported[session.id] # None => reported[session.id].phase \notin Final)

\* The assembler stands where the queued chunks end, also after the last chunk, until
\* the command is finished.
InStep ==
    assembler.active \/ (session # None /\ session.id = assembler.transfer_id) =>
        assembler.offset = confirmed[assembler.transfer_id]

\* What is offered for a resumption stays true, because nothing more is assembled.
Offered(id) ==
    /\ reported[id] # None /\ reported[id].phase = "Failed"
    /\ \/ reported[id].reason = "ProtocolError"
       \/ reported[id].reason = "InternalError" /\ reported[id].detail # 0

OfferStands ==
    \A id \in Id : assembler.transfer_id = id /\ Offered(id) =>
        /\ ~ assembler.active
        /\ reported[id].reason = "ProtocolError" => Skipped(id) \in 0 .. (ChunkSize - 1)
        /\ reported[id].reason = "InternalError" =>
               Skipped(id) \in 0 .. (2 * ChunkSize - 1)

Results == Known /\ OpenIsOpen /\ InStep /\ OfferStands

\* A dump that was asked for and has not begun.
IsFragment(m) == m.kind = "RecoveryLogData"

Unbegun(id, a, rx, d) ==
    /\ \A k \in 1 .. Len(rx) : IsFragment(rx[k]) => rx[k].transfer_id # id
    /\ d # None => d.transfer_id # id
    /\ a.transfer_id = id => a.data = <<>>

\* The controls on their way are in the order of their ids.
Ordered ==
    /\ \A i \in 1 .. Len(canTx) : canTx[i].transfer_id <= issued
    /\ sending # None => sending.transfer_id <= issued
    /\ transmitting # None => transmitting.transfer_id <= issued
    /\ \A i, j \in 1 .. Len(canTx) : i < j => canTx[i].transfer_id < canTx[j].transfer_id
    /\ \A i \in 1 .. Len(canTx) : sending # None => canTx[i].transfer_id < sending.transfer_id
    /\ transmitting # None /\ transmitting.opcode = "StartLogDump" =>
           /\ \A i \in 1 .. Len(canTx) : transmitting.transfer_id < canTx[i].transfer_id
           /\ sending # None => transmitting.transfer_id < sending.transfer_id
    /\ \A i \in 1 .. Len(safetyTx) : /\ safetyTx[i].opcode = "StopLogDump"
                                     /\ safetyTx[i].transfer_id <= issued

\* None of the dumps they ask for has begun.
Awaited(id) ==
    \/ \E i \in 1 .. Len(canTx) : canTx[i].transfer_id = id
    \/ sending # None /\ sending.transfer_id = id
    \/ /\ transmitting # None /\ transmitting.opcode = "StartLogDump"
       /\ transmitting.transfer_id = id

Waiting ==
    /\ \A k \in 1 .. Len(canRx) : IsFragment(canRx[k]) => canRx[k].transfer_id <= issued
    /\ dump # None => dump.transfer_id <= issued
    /\ \A id \in Id : Awaited(id) => Unbegun(id, assembler, canRx, dump)

\* From the sequence s and the byte x one comes to s2 and x2 over n fragments.
Over(n, s, x, s2, x2) == x2 = x + FragmentSize * n /\ s2 = (s + n) % SequenceModulus

Losses == {n \in Sequence : Lossy \/ n = 0}

\* What follows position i of the received frames, up to the next fragment, or else
\* what Mission sends next, continues the transfer id at the sequence s and byte x.
Continues(id, s, x, rx, i, d) ==
    /\ \A j \in 1 .. Len(rx) :
           /\ i < j /\ IsFragment(rx[j]) /\ rx[j].transfer_id = id
           /\ \A k \in 1 .. Len(rx) : i < k /\ k < j => ~ IsFragment(rx[k])
           => \E n \in Losses : Over(n, s, x, rx[j].sequence, rx[j].first)
    /\ /\ d # None /\ d.transfer_id = id
       /\ \A k \in 1 .. Len(rx) : i < k => ~ IsFragment(rx[k])
       => Over(d.lost, s, x, d.sequence, d.first)

\* The fragments of a dump follow each other and what the assembler holds of it.
Gathering(a) == a.active /\ a.data # <<>> /\ ~ ReachedEnd(a)

FramesFollow(rx, d) ==
    \A i \in 1 .. Len(rx) : IsFragment(rx[i]) =>
        Continues(rx[i].transfer_id, (rx[i].sequence + 1) % SequenceModulus,
                  rx[i].first + FragmentSize, rx, i, d)

FollowsAssembled(a, rx, d) ==
    Gathering(a) =>
        /\ a.expected_sequence # None
        /\ Continues(a.transfer_id, a.expected_sequence, a.data[Len(a.data)] + 1, rx, 0, d)

InOrder(a, rx, d) == /\ d # None => d.lost \in Losses
                     /\ FramesFollow(rx, d) /\ FollowsAssembled(a, rx, d)

Stream == InOrder(assembler, canRx, dump)

Whole == /\ Contiguous(assembler.data)
         /\ \A c \in 1 .. Len(chunks) : Contiguous(chunks[c].data)

RelayIInv == Types /\ Results /\ Ordered /\ Waiting /\ Stream /\ Whole

-----------------------------------------------------------------------------
(* The frames of Mission on their way.                                     *)

LEMMA FrameIsOne ==
    ASSUME NEW rx \in Seq(Frame), NEW i \in 1 .. Len(rx)
    PROVE  /\ rx[i] \in Frame
           /\ IsFragment(rx[i]) => rx[i] \in FragmentSet
           /\ ~ IsFragment(rx[i]) => rx[i] \in StatusSet
<1>1. rx[i] \in Frame
  BY ElementOfSeq
<1> QED BY <1>1 DEF Frame, FragmentSet, StatusSet, IsFragment

LEMMA Appended ==
    ASSUME NEW rx \in Seq(Frame), NEW m \in Frame
    PROVE  /\ Append(rx, m) \in Seq(Frame) /\ Len(rx) \in Nat
           /\ Len(Append(rx, m)) = Len(rx) + 1
           /\ \A i \in 1 .. Len(rx) : Append(rx, m)[i] = rx[i]
           /\ Append(rx, m)[Len(rx) + 1] = m
BY AppendProperties, LenProperties

LEMMA Taken ==
    ASSUME NEW rx \in Seq(Frame), rx # <<>>
    PROVE  /\ Tail(rx) \in Seq(Frame) /\ Len(rx) \in Nat /\ Len(rx) >= 1
           /\ Len(Tail(rx)) = Len(rx) - 1 /\ Head(rx) = rx[1] /\ Head(rx) \in Frame
           /\ \A i \in 1 .. Len(rx) - 1 : Tail(rx)[i] = rx[i + 1]
BY HeadTailProperties, LenProperties, EmptySeq

\* A status is sent, or none, and Mission goes on or ends the dump.
LEMMA ContinuesWithStatus ==
    ASSUME NEW id, NEW s, NEW x, NEW rx \in Seq(Frame), NEW i \in 0 .. Len(rx), NEW d,
           NEW m \in Frame, ~ IsFragment(m), NEW d2 \in {d, None},
           NEW rx2 \in {rx, Append(rx, m)}, Continues(id, s, x, rx, i, d)
    PROVE  Continues(id, s, x, rx2, i, d2)
<1>1. Len(rx) \in Nat
  BY LenProperties
<1>2. CASE rx2 = rx
  BY <1>2 DEF Continues
<1>3. CASE rx2 = Append(rx, m)
  <2>1. /\ Len(rx2) = Len(rx) + 1 /\ rx2[Len(rx) + 1] = m
        /\ \A k \in 1 .. Len(rx) : rx2[k] = rx[k]
    BY <1>3, Appended
  <2>2. ASSUME NEW j \in 1 .. Len(rx2), i < j, IsFragment(rx2[j]),
               rx2[j].transfer_id = id,
               \A k \in 1 .. Len(rx2) : i < k /\ k < j => ~ IsFragment(rx2[k])
        PROVE  \E n \in Losses : Over(n, s, x, rx2[j].sequence, rx2[j].first)
    <3>1. j # Len(rx) + 1
      BY <2>1, <2>2
    <3>2. j \in 1 .. Len(rx)
      BY <1>1, <2>1, <3>1
    <3>3. rx2[j] = rx[j] /\ \A k \in 1 .. Len(rx) : i < k /\ k < j => ~ IsFragment(rx[k])
      BY <1>1, <2>1, <2>2, <3>2
    <3> QED BY <2>2, <3>2, <3>3 DEF Continues
  <2>3. ASSUME d2 # None, d2.transfer_id = id,
               \A k \in 1 .. Len(rx2) : i < k => ~ IsFragment(rx2[k])
        PROVE  Over(d2.lost, s, x, d2.sequence, d2.first)
    <3>1. d2 = d /\ \A k \in 1 .. Len(rx) : i < k => ~ IsFragment(rx[k])
      BY <1>1, <2>1, <2>3
    <3> QED BY <2>3, <3>1 DEF Continues
  <2> QED BY <2>2, <2>3 DEF Continues
<1> QED BY <1>2, <1>3

\* A dump of another transfer begins.
LEMMA ContinuesBeforeDump ==
    ASSUME NEW id, NEW s, NEW x, NEW rx \in Seq(Frame), NEW i \in 0 .. Len(rx),
           NEW d, d.transfer_id # id, Continues(id, s, x, rx, i, None)
    PROVE  Continues(id, s, x, rx, i, d)
BY DEF Continues

\* A fragment is sent.
Next1(d, lost) == [transfer_id |-> d.transfer_id, first |-> d.first + FragmentSize,
                   sequence |-> (d.sequence + 1) % SequenceModulus, end |-> d.end,
                   lost |-> lost]

LEMMA ContinuesWithFragment ==
    ASSUME NEW id, NEW s, NEW x, NEW rx \in Seq(Frame), NEW i \in 0 .. Len(rx),
           NEW d \in DumpSet, d # None, d.lost \in Losses, Continues(id, s, x, rx, i, d),
           NEW d2
    PROVE  Continues(id, s, x, Append(rx, Fragment(d)), i, d2)
<1> DEFINE m == Fragment(d)
           rx2 == Append(rx, m)
<1>1. /\ m \in Frame /\ IsFragment(m) /\ m.transfer_id = d.transfer_id
      /\ m.sequence = d.sequence /\ m.first = d.first
  BY DEF Fragment, DumpSet, Frame, FragmentSet, IsFragment
<1> HIDE DEF m
<1>2. /\ Len(rx2) = Len(rx) + 1 /\ rx2[Len(rx) + 1] = m /\ Len(rx) \in Nat
      /\ \A k \in 1 .. Len(rx) : rx2[k] = rx[k]
  BY <1>1, Appended
<1> HIDE DEF rx2
<1>3. ASSUME NEW j \in 1 .. Len(rx2), i < j, IsFragment(rx2[j]),
             rx2[j].transfer_id = id,
             \A k \in 1 .. Len(rx2) : i < k /\ k < j => ~ IsFragment(rx2[k])
      PROVE  \E n \in Losses : Over(n, s, x, rx2[j].sequence, rx2[j].first)
  <2>1. CASE j = Len(rx) + 1
    <3>1. \A k \in 1 .. Len(rx) : i < k => ~ IsFragment(rx[k])
      BY <1>2, <1>3, <2>1
    <3>2. Over(d.lost, s, x, d.sequence, d.first)
      BY <1>1, <1>2, <1>3, <2>1, <3>1 DEF Continues
    <3> QED BY <1>1, <1>2, <2>1, <3>2
  <2>2. CASE j \in 1 .. Len(rx)
    <3>1. rx2[j] = rx[j] /\ \A k \in 1 .. Len(rx) : i < k /\ k < j => ~ IsFragment(rx[k])
      BY <1>2, <1>3, <2>2
    <3> QED BY <1>3, <2>2, <3>1 DEF Continues
  <2> QED BY <1>2, <2>1, <2>2
<1>4. ~ \A k \in 1 .. Len(rx2) : i < k => ~ IsFragment(rx2[k])
  BY <1>1, <1>2
<1> QED BY <1>3, <1>4 DEF Continues, rx2, m

\* A fragment is lost.
LEMMA SuccessorOfRemainder ==
    ASSUME NEW m \in Nat \ {0}, NEW y \in Int
    PROVE  ((y % m) + 1) % m = (y + 1) % m
<1> DEFINE q == y \div m
           r == y % m
<1>1. y = m * q + r /\ q \in Int /\ r \in 0 .. m - 1
  OBVIOUS
<1>2. y + 1 = m * q + (r + 1)
  BY <1>1
<1> HIDE DEF q, r
<1>3. CASE r + 1 < m
  <2>1. (y + 1) % m = r + 1
    BY <1>1, <1>2, <1>3
  <2>2. (r + 1) % m = r + 1
    BY <1>1, <1>3
  <2> QED BY <2>1, <2>2 DEF r
<1>4. CASE r + 1 = m
  <2>1. y + 1 = m * (q + 1)
    BY <1>1, <1>2, <1>4
  <2>2. (y + 1) % m = 0
    BY <1>1, <2>1, <1>4
  <2>3. (r + 1) % m = 0
    BY <1>1, <1>4
  <2> QED BY <2>2, <2>3 DEF r
<1> QED BY <1>1, <1>3, <1>4

\* Fewer losses than the modulus do not bring the sequence back.
LEMMA RemainderMoves ==
    ASSUME NEW m \in Nat \ {0}, NEW s \in 0 .. m - 1, NEW n \in 0 .. m - 1
    PROVE  /\ (s + 0) % m = s
           /\ (s + n) % m = s => n = 0
<1>1. (s + 0) % m = s
  OBVIOUS
<1>2. CASE s + n < m
  <2>1. (s + n) % m = s + n
    BY <1>2
  <2> QED BY <1>1, <2>1
<1>3. CASE s + n >= m
  <2> DEFINE r == s + n - m
  <2>1. r \in 0 .. m - 1 /\ s + n = m * 1 + r /\ r # s
    BY <1>3
  <2> HIDE DEF r
  <2>2. (s + n) % m = r
    BY <2>1
  <2> QED BY <1>1, <2>1, <2>2
<1> QED BY <1>2, <1>3

LEMMA OneMoreLost ==
    ASSUME NEW n \in Nat, NEW s \in Int, NEW x \in Int, NEW s2, NEW x2 \in Int,
           Over(n, s, x, s2, x2)
    PROVE  Over(n + 1, s, x, (s2 + 1) % SequenceModulus, x2 + FragmentSize)
<1>1. SequenceModulus \in Nat \ {0} /\ FragmentSize \in Nat
  BY SizesAssumption
<1>2. x2 = x + FragmentSize * n /\ s2 = (s + n) % SequenceModulus
  BY DEF Over
<1>3. x2 + FragmentSize = x + FragmentSize * (n + 1)
  BY <1>1, <1>2
<1>4. (((s + n) % SequenceModulus) + 1) % SequenceModulus = (s + (n + 1)) % SequenceModulus
  <2> DEFINE y == s + n
  <2>1. y \in Int /\ s + (n + 1) = y + 1
    OBVIOUS
  <2> HIDE DEF y
  <2>2. ((y % SequenceModulus) + 1) % SequenceModulus = (y + 1) % SequenceModulus
    BY <1>1, <2>1, SuccessorOfRemainder
  <2> QED BY <2>1, <2>2 DEF y
<1> QED BY <1>2, <1>3, <1>4 DEF Over

LEMMA ContinuesOverLoss ==
    ASSUME NEW id, NEW s \in Int, NEW x \in Int, NEW rx \in Seq(Frame),
           NEW i \in 0 .. Len(rx), NEW d \in DumpSet, d # None,
           Continues(id, s, x, rx, i, d)
    PROVE  Continues(id, s, x, rx, i, Next1(d, d.lost + 1))
<1> DEFINE d2 == Next1(d, d.lost + 1)
<1>1. /\ d2.transfer_id = d.transfer_id /\ d2.lost = d.lost + 1
      /\ d2.first = d.first + FragmentSize
      /\ d2.sequence = (d.sequence + 1) % SequenceModulus
  BY DEF Next1
<1>2. d.lost \in Nat /\ d.first \in Int
  BY DEF DumpSet, Sequence
<1> HIDE DEF d2
<1>3. ASSUME d.transfer_id = id, \A k \in 1 .. Len(rx) : i < k => ~ IsFragment(rx[k])
      PROVE  Over(d2.lost, s, x, d2.sequence, d2.first)
  <2>1. Over(d.lost, s, x, d.sequence, d.first)
    BY <1>3 DEF Continues
  <2> QED BY <1>1, <1>2, <2>1, OneMoreLost
<1> QED BY <1>1, <1>3 DEF Continues, d2

\* A frame is taken.
LEMMA ContinuesTaken ==
    ASSUME NEW id, NEW s, NEW x, NEW rx \in Seq(Frame), rx # <<>>,
           NEW i \in 0 .. Len(rx) - 1, NEW d,
           \/ Continues(id, s, x, rx, i + 1, d)
           \/ i = 0 /\ ~ IsFragment(Head(rx)) /\ Continues(id, s, x, rx, 0, d)
    PROVE  Continues(id, s, x, Tail(rx), i, d)
<1> DEFINE rx2 == Tail(rx)
<1>1. /\ Len(rx) \in Nat /\ Len(rx) >= 1 /\ Len(rx2) = Len(rx) - 1
      /\ \A k \in 1 .. Len(rx) - 1 : rx2[k] = rx[k + 1]
      /\ Head(rx) = rx[1]
  BY Taken
<1> HIDE DEF rx2
<1>2. ASSUME NEW j \in 1 .. Len(rx2), i < j, IsFragment(rx2[j]), rx2[j].transfer_id = id,
             \A k \in 1 .. Len(rx2) : i < k /\ k < j => ~ IsFragment(rx2[k])
      PROVE  \E n \in Losses : Over(n, s, x, rx2[j].sequence, rx2[j].first)
  <2>1. j + 1 \in 1 .. Len(rx) /\ rx2[j] = rx[j + 1] /\ i + 1 < j + 1 /\ 0 < j + 1
    BY <1>1, <1>2
  <2>2. ASSUME NEW k \in 1 .. Len(rx), i + 1 < k, k < j + 1 PROVE ~ IsFragment(rx[k])
    <3>1. k - 1 \in 1 .. Len(rx2) /\ i < k - 1 /\ k - 1 < j /\ rx2[k - 1] = rx[k]
      BY <1>1, <1>2, <2>2
    <3> QED BY <1>2, <3>1
  <2>3. CASE Continues(id, s, x, rx, i + 1, d)
    BY <1>2, <2>1, <2>2, <2>3 DEF Continues
  <2>4. CASE i = 0 /\ ~ IsFragment(Head(rx)) /\ Continues(id, s, x, rx, 0, d)
    <3>1. ASSUME NEW k \in 1 .. Len(rx), 0 < k, k < j + 1 PROVE ~ IsFragment(rx[k])
      BY <1>1, <2>2, <2>4, <3>1
    <3> QED BY <1>2, <2>1, <2>4, <3>1 DEF Continues
  <2> QED BY <2>3, <2>4
<1>3. ASSUME d # None, d.transfer_id = id,
             \A k \in 1 .. Len(rx2) : i < k => ~ IsFragment(rx2[k])
      PROVE  Over(d.lost, s, x, d.sequence, d.first)
  <2>1. ASSUME NEW k \in 1 .. Len(rx), i + 1 < k PROVE ~ IsFragment(rx[k])
    <3>1. k - 1 \in 1 .. Len(rx2) /\ i < k - 1 /\ rx2[k - 1] = rx[k]
      BY <1>1, <2>1
    <3> QED BY <1>3, <3>1
  <2>2. CASE Continues(id, s, x, rx, i + 1, d)
    BY <1>3, <2>1, <2>2 DEF Continues
  <2>3. CASE i = 0 /\ ~ IsFragment(Head(rx)) /\ Continues(id, s, x, rx, 0, d)
    <3>1. ASSUME NEW k \in 1 .. Len(rx), 0 < k PROVE ~ IsFragment(rx[k])
      BY <1>1, <2>1, <2>3, <3>1
    <3> QED BY <1>3, <2>3, <3>1 DEF Continues
  <2> QED BY <2>2, <2>3
<1> QED BY <1>2, <1>3 DEF Continues, rx2

LEMMA OrderWithStatus ==
    ASSUME NEW a, NEW rx \in Seq(Frame), NEW d, NEW m \in Frame, ~ IsFragment(m),
           NEW d2 \in {d, None}, NEW rx2 \in {rx, Append(rx, m)}, InOrder(a, rx, d)
    PROVE  InOrder(a, rx2, d2)
<1>1. Len(rx) \in Nat
  BY LenProperties
<1>2. ASSUME NEW i \in 1 .. Len(rx2), IsFragment(rx2[i])
      PROVE  i \in 1 .. Len(rx) /\ rx2[i] = rx[i]
  <2>1. CASE rx2 = rx
    BY <1>2, <2>1
  <2>2. CASE rx2 = Append(rx, m)
    BY <1>1, <1>2, <2>2, Appended
  <2> QED BY <2>1, <2>2
<1>3. FramesFollow(rx2, d2)
  <2> SUFFICES ASSUME NEW i \in 1 .. Len(rx2), IsFragment(rx2[i])
               PROVE  Continues(rx2[i].transfer_id, (rx2[i].sequence + 1) % SequenceModulus,
                                rx2[i].first + FragmentSize, rx2, i, d2)
    BY DEF FramesFollow
  <2>1. i \in 1 .. Len(rx) /\ rx2[i] = rx[i]
    BY <1>2
  <2>2. Continues(rx[i].transfer_id, (rx[i].sequence + 1) % SequenceModulus,
                  rx[i].first + FragmentSize, rx, i, d)
    BY <2>1 DEF InOrder, FramesFollow
  <2>3. i \in 0 .. Len(rx)
    BY <1>1, <2>1
  <2> QED BY <2>1, <2>2, <2>3, ContinuesWithStatus
<1>4. FollowsAssembled(a, rx2, d2)
  <2> SUFFICES ASSUME Gathering(a)
               PROVE  Continues(a.transfer_id, a.expected_sequence,
                                a.data[Len(a.data)] + 1, rx2, 0, d2)
    BY DEF FollowsAssembled, InOrder
  <2>1. Continues(a.transfer_id, a.expected_sequence, a.data[Len(a.data)] + 1, rx, 0, d)
    BY DEF InOrder, FollowsAssembled
  <2>2. 0 \in 0 .. Len(rx)
    BY <1>1
  <2> QED BY <2>1, <2>2, ContinuesWithStatus
<1> QED BY <1>3, <1>4 DEF InOrder

LEMMA OrderBegun ==
    ASSUME NEW a, NEW rx \in Seq(Frame), InOrder(a, rx, None), NEW d, d.lost = 0,
           Unbegun(d.transfer_id, a, rx, None)
    PROVE  InOrder(a, rx, d)
<1>1. 0 \in Losses
  BY SizesAssumption DEF Losses, Sequence
<1>2. Len(rx) \in Nat
  BY LenProperties
<1>3. FramesFollow(rx, d)
  <2> SUFFICES ASSUME NEW i \in 1 .. Len(rx), IsFragment(rx[i])
               PROVE  Continues(rx[i].transfer_id, (rx[i].sequence + 1) % SequenceModulus,
                                rx[i].first + FragmentSize, rx, i, d)
    BY DEF FramesFollow
  <2>1. /\ d.transfer_id # rx[i].transfer_id /\ i \in 0 .. Len(rx)
        /\ Continues(rx[i].transfer_id, (rx[i].sequence + 1) % SequenceModulus,
                     rx[i].first + FragmentSize, rx, i, None)
    BY <1>2 DEF Unbegun, InOrder, FramesFollow
  <2> QED BY <2>1, ContinuesBeforeDump
<1>4. FollowsAssembled(a, rx, d)
  <2> SUFFICES ASSUME Gathering(a)
               PROVE  Continues(a.transfer_id, a.expected_sequence,
                                a.data[Len(a.data)] + 1, rx, 0, d)
    BY DEF FollowsAssembled, InOrder
  <2>1. /\ d.transfer_id # a.transfer_id /\ 0 \in 0 .. Len(rx)
        /\ Continues(a.transfer_id, a.expected_sequence, a.data[Len(a.data)] + 1, rx, 0,
                     None)
    BY <1>2 DEF Unbegun, InOrder, FollowsAssembled, Gathering
  <2> QED BY <2>1, ContinuesBeforeDump
<1> QED BY <1>1, <1>3, <1>4 DEF InOrder

LEMMA OrderSent ==
    ASSUME NEW a, NEW rx \in Seq(Frame), NEW d \in DumpSet, d # None, InOrder(a, rx, d)
    PROVE  InOrder(a, Append(rx, Fragment(d)), Next1(d, 0))
<1> DEFINE m == Fragment(d)
           rx2 == Append(rx, m)
           d2 == Next1(d, 0)
<1>1. /\ m \in Frame /\ IsFragment(m) /\ m.transfer_id = d.transfer_id
      /\ m.sequence = d.sequence /\ m.first = d.first
  BY DEF Fragment, DumpSet, Frame, FragmentSet, IsFragment
<1>2. /\ d2.lost = 0 /\ d2.sequence = (d.sequence + 1) % SequenceModulus
      /\ d2.first = d.first + FragmentSize
  BY DEF Next1
<1>3. /\ d.lost \in Losses /\ d.first \in Nat /\ d.sequence \in Sequence /\ 0 \in Losses
      /\ FragmentSize \in Nat /\ SequenceModulus \in Nat \ {0} /\ Len(rx) \in Nat
  BY LenProperties, SizesAssumption DEF InOrder, DumpSet, Losses, Sequence
<1> HIDE DEF m, d2
<1>4. /\ Len(rx2) = Len(rx) + 1 /\ rx2[Len(rx) + 1] = m
      /\ \A k \in 1 .. Len(rx) : rx2[k] = rx[k]
  BY <1>1, Appended
<1>5. ASSUME NEW i \in 1 .. Len(rx), IsFragment(rx[i])
      PROVE  Continues(rx[i].transfer_id, (rx[i].sequence + 1) % SequenceModulus,
                       rx[i].first + FragmentSize, rx2, i, d2)
  <2>1. /\ i \in 0 .. Len(rx)
        /\ Continues(rx[i].transfer_id, (rx[i].sequence + 1) % SequenceModulus,
                     rx[i].first + FragmentSize, rx, i, d)
    BY <1>3, <1>5 DEF InOrder, FramesFollow
  <2> QED BY <1>3, <2>1, ContinuesWithFragment DEF m
<1>6. Continues(m.transfer_id, (m.sequence + 1) % SequenceModulus,
                m.first + FragmentSize, rx2, Len(rx) + 1, d2)
  <2> DEFINE s2 == (d.sequence + 1) % SequenceModulus
             x2 == d.first + FragmentSize
  <2>1. s2 \in Sequence /\ x2 \in Nat
    BY <1>3 DEF Sequence
  <2> HIDE DEF s2, x2
  <2>2. Over(0, s2, x2, s2, x2)
    <3>1. (s2 + 0) % SequenceModulus = s2
      BY <1>3, <2>1, RemainderMoves DEF Sequence
    <3>2. x2 + FragmentSize * 0 = x2
      BY <1>3, <2>1
    <3> QED BY <3>1, <3>2 DEF Over
  <2>3. Over(d2.lost, s2, x2, d2.sequence, d2.first)
    BY <1>2, <2>2 DEF s2, x2
  <2>4. \A j \in 1 .. Len(rx2) : ~ Len(rx) + 1 < j
    BY <1>3, <1>4
  <2> QED BY <1>1, <2>3, <2>4 DEF Continues, s2, x2
<1>7. FramesFollow(rx2, d2)
  <2> SUFFICES ASSUME NEW i \in 1 .. Len(rx2), IsFragment(rx2[i])
               PROVE  Continues(rx2[i].transfer_id, (rx2[i].sequence + 1) % SequenceModulus,
                                rx2[i].first + FragmentSize, rx2, i, d2)
    BY DEF FramesFollow
  <2> HIDE DEF rx2
  <2>1. CASE i = Len(rx) + 1
    BY <1>4, <1>6, <2>1
  <2>2. CASE i \in 1 .. Len(rx)
    BY <1>4, <1>5, <2>2
  <2> QED BY <1>3, <1>4, <2>1, <2>2
<1>8. FollowsAssembled(a, rx2, d2)
  <2> SUFFICES ASSUME Gathering(a)
               PROVE  Continues(a.transfer_id, a.expected_sequence,
                                a.data[Len(a.data)] + 1, rx2, 0, d2)
    BY DEF FollowsAssembled, InOrder
  <2>1. /\ 0 \in 0 .. Len(rx)
        /\ Continues(a.transfer_id, a.expected_sequence, a.data[Len(a.data)] + 1, rx, 0, d)
    BY <1>3 DEF InOrder, FollowsAssembled
  <2> QED BY <1>3, <2>1, ContinuesWithFragment DEF m
<1> QED BY <1>2, <1>3, <1>7, <1>8 DEF InOrder, m, d2

LEMMA OrderLost ==
    ASSUME NEW a, AssemblerOK(a), NEW rx \in Seq(Frame), NEW d \in DumpSet, d # None,
           d.lost + 1 \in Losses, InOrder(a, rx, d)
    PROVE  InOrder(a, rx, Next1(d, d.lost + 1))
<1> DEFINE d2 == Next1(d, d.lost + 1)
<1>1. d2.lost = d.lost + 1
  BY DEF Next1
<1>2. Len(rx) \in Nat /\ SequenceModulus \in Nat \ {0} /\ FragmentSize \in Nat
  BY LenProperties, SizesAssumption
<1>3. FramesFollow(rx, d2)
  <2> SUFFICES ASSUME NEW i \in 1 .. Len(rx), IsFragment(rx[i])
               PROVE  Continues(rx[i].transfer_id, (rx[i].sequence + 1) % SequenceModulus,
                                rx[i].first + FragmentSize, rx, i, d2)
    BY DEF FramesFollow
  <2>1. Continues(rx[i].transfer_id, (rx[i].sequence + 1) % SequenceModulus,
                  rx[i].first + FragmentSize, rx, i, d)
    BY DEF InOrder, FramesFollow
  <2>2. rx[i].sequence \in Sequence /\ rx[i].first \in Nat
    BY FrameIsOne DEF FragmentSet
  <2>3. /\ (rx[i].sequence + 1) % SequenceModulus \in Int
        /\ rx[i].first + FragmentSize \in Int /\ i \in 0 .. Len(rx)
    BY <1>2, <2>2 DEF Sequence
  <2> QED BY <2>1, <2>3, ContinuesOverLoss
<1>4. FollowsAssembled(a, rx, d2)
  <2> SUFFICES ASSUME Gathering(a)
               PROVE  Continues(a.transfer_id, a.expected_sequence,
                                a.data[Len(a.data)] + 1, rx, 0, d2)
    BY DEF FollowsAssembled, InOrder
  <2>1. /\ Continues(a.transfer_id, a.expected_sequence, a.data[Len(a.data)] + 1, rx, 0, d)
        /\ a.expected_sequence # None
    BY DEF InOrder, FollowsAssembled
  <2>2. a.expected_sequence \in Int /\ a.data \in Seq(Nat)
    BY <2>1 DEF AssemblerOK, AssemblerSet, Sequence
  <2>3. a.data # <<>>
    BY DEF Gathering
  <2>4. Len(a.data) \in 1 .. Len(a.data)
    BY <2>2, <2>3, EmptySeq, LenProperties
  <2>5. a.data[Len(a.data)] \in Nat
    BY <2>2, <2>4, ElementOfSeq
  <2>6. a.data[Len(a.data)] + 1 \in Int /\ 0 \in 0 .. Len(rx)
    BY <1>2, <2>5
  <2> QED BY <2>1, <2>2, <2>6, ContinuesOverLoss
<1> QED BY <1>1, <1>3, <1>4 DEF InOrder

LEMMA OrderAlone ==
    ASSUME NEW a, NEW a2, NEW rx, NEW d, InOrder(a, rx, d), ~ Gathering(a2)
    PROVE  InOrder(a2, rx, d)
BY DEF InOrder, FollowsAssembled

LEMMA OrderSized ==
    ASSUME NEW a, NEW a2, NEW rx, NEW d, InOrder(a, rx, d),
           a2.active = a.active, a2.data = a.data, ReachedEnd(a) => ReachedEnd(a2),
           a2.transfer_id = a.transfer_id, a2.expected_sequence = a.expected_sequence
    PROVE  InOrder(a2, rx, d)
BY DEF InOrder, FollowsAssembled, Gathering

LEMMA FramesTaken ==
    ASSUME NEW rx \in Seq(Frame), rx # <<>>, NEW d, FramesFollow(rx, d)
    PROVE  FramesFollow(Tail(rx), d)
<1> DEFINE rx2 == Tail(rx)
<1>1. /\ Len(rx) \in Nat /\ Len(rx) >= 1 /\ Len(rx2) = Len(rx) - 1
      /\ \A k \in 1 .. Len(rx) - 1 : rx2[k] = rx[k + 1]
  BY Taken
<1> SUFFICES ASSUME NEW i \in 1 .. Len(rx2), IsFragment(rx2[i])
             PROVE  Continues(rx2[i].transfer_id, (rx2[i].sequence + 1) % SequenceModulus,
                              rx2[i].first + FragmentSize, rx2, i, d)
  BY DEF FramesFollow
<1>2. i \in 0 .. Len(rx) - 1 /\ i + 1 \in 1 .. Len(rx) /\ rx2[i] = rx[i + 1]
  <2> HIDE DEF rx2
  <2> QED BY <1>1
<1>3. Continues(rx[i + 1].transfer_id, (rx[i + 1].sequence + 1) % SequenceModulus,
                rx[i + 1].first + FragmentSize, rx, i + 1, d)
  BY <1>2 DEF FramesFollow
<1> QED BY <1>2, <1>3, ContinuesTaken

LEMMA OrderStatusTaken ==
    ASSUME NEW a, NEW rx \in Seq(Frame), rx # <<>>, ~ IsFragment(Head(rx)), NEW d,
           InOrder(a, rx, d)
    PROVE  InOrder(a, Tail(rx), d)
<1>1. FramesFollow(Tail(rx), d)
  BY FramesTaken DEF InOrder
<1>2. FollowsAssembled(a, Tail(rx), d)
  <2> SUFFICES ASSUME Gathering(a)
               PROVE  Continues(a.transfer_id, a.expected_sequence,
                                a.data[Len(a.data)] + 1, Tail(rx), 0, d)
    BY DEF FollowsAssembled, InOrder
  <2>1. Continues(a.transfer_id, a.expected_sequence, a.data[Len(a.data)] + 1, rx, 0, d)
    BY DEF InOrder, FollowsAssembled
  <2>2. 0 \in 0 .. Len(rx) - 1
    BY Taken
  <2> QED BY <2>1, <2>2, ContinuesTaken
<1> QED BY <1>1, <1>2 DEF InOrder

LEMMA OrderFragmentTaken ==
    ASSUME NEW a, NEW a2, NEW rx \in Seq(Frame), rx # <<>>, IsFragment(Head(rx)), NEW d,
           InOrder(a, rx, d),
           Gathering(a2) =>
               /\ a2.expected_sequence # None /\ a2.transfer_id = Head(rx).transfer_id
               /\ a2.expected_sequence = (Head(rx).sequence + 1) % SequenceModulus
               /\ a2.data[Len(a2.data)] + 1 = Head(rx).first + FragmentSize
    PROVE  InOrder(a2, Tail(rx), d)
<1>1. FramesFollow(Tail(rx), d)
  BY FramesTaken DEF InOrder
<1>2. FollowsAssembled(a2, Tail(rx), d)
  <2> SUFFICES ASSUME Gathering(a2)
               PROVE  Continues(a2.transfer_id, a2.expected_sequence,
                                a2.data[Len(a2.data)] + 1, Tail(rx), 0, d)
    BY DEF FollowsAssembled
  <2>1. 0 \in 0 .. Len(rx) - 1 /\ 1 \in 1 .. Len(rx) /\ Head(rx) = rx[1] /\ 0 + 1 = 1
    BY Taken
  <2>2. Continues(Head(rx).transfer_id, (Head(rx).sequence + 1) % SequenceModulus,
                  Head(rx).first + FragmentSize, rx, 0 + 1, d)
    BY <2>1 DEF InOrder, FramesFollow
  <2> QED BY <2>1, <2>2, ContinuesTaken
<1> QED BY <1>1, <1>2 DEF InOrder

\* A fragment that is not refused joins what is assembled.
LEMMA FragmentFits ==
    ASSUME NEW a, AssemblerOK(a), Contiguous(a.data), NEW rx \in Seq(Frame), rx # <<>>,
           NEW d, InOrder(a, rx, d), Head(rx) \in FragmentSet, ~ Refused(a, Head(rx))
    PROVE  \E b \in Int : /\ At(a.data, b)
                          /\ \/ FragmentLength(a) = 0
                             \/ Head(rx).first = b + Len(a.data) + 1
<1> DEFINE f == Head(rx)
<1>1. /\ a.active /\ f.transfer_id = a.transfer_id
      /\ a.expected_sequence # None => a.expected_sequence = f.sequence
  BY DEF Refused, NotStarted, WrongTransfer, SequenceGap
<1>2. f.first \in Nat /\ f.sequence \in Sequence /\ IsFragment(f)
  BY DEF FragmentSet, IsFragment
<1>3. a.data \in Seq(Nat) /\ a \in AssemblerSet
  BY DEF AssemblerOK, AssemblerSet
<1>4. f = rx[1] /\ 1 \in 1 .. Len(rx)
  BY Taken
<1>5. CASE a.data = <<>>
  <2>1. Len(a.data) = 0
    BY <1>5
  <2>2. f.first - 1 \in Int /\ f.first = (f.first - 1) + 0 + 1
    BY <1>2
  <2>3. At(a.data, f.first - 1)
    BY <2>1 DEF At
  <2> QED BY <2>1, <2>2, <2>3
<1>6. CASE a.data # <<>> /\ ReachedEnd(a)
  <2>1. FragmentLength(a) = 0
    BY <1>3, <1>6, FragmentLengthBounds
  <2> QED BY <2>1 DEF Contiguous
<1>7. CASE a.data # <<>> /\ ~ ReachedEnd(a)
  <2> DEFINE e == a.expected_sequence
             x == a.data[Len(a.data)] + 1
  <2>1. e # None /\ Continues(a.transfer_id, e, x, rx, 0, d)
    BY <1>1, <1>7 DEF InOrder, FollowsAssembled, Gathering
  <2>2. PICK n \in Losses : Over(n, e, x, f.sequence, f.first)
    <3>1. \A k \in 1 .. Len(rx) : ~ (0 < k /\ k < 1)
      OBVIOUS
    <3>2. 0 < 1
      OBVIOUS
    <3> HIDE DEF e, x
    <3>3. \E n \in Losses : Over(n, e, x, rx[1].sequence, rx[1].first)
      BY <1>1, <1>2, <1>4, <2>1, <3>1, <3>2 DEF Continues
    <3> QED BY <1>4, <3>3
  <2>3. f.sequence = e /\ n \in 0 .. SequenceModulus - 1 /\ e \in 0 .. SequenceModulus - 1
    BY <1>1, <1>2, <2>1 DEF Losses, Sequence
  <2>4. n = 0
    <3> HIDE DEF e, x
    <3>1. (e + n) % SequenceModulus = e
      BY <2>2, <2>3 DEF Over
    <3> QED BY <2>3, <3>1, RemainderMoves, SizesAssumption
  <2>5. PICK b \in Int : At(a.data, b)
    BY DEF Contiguous
  <2>6. Len(a.data) \in 1 .. Len(a.data) /\ Len(a.data) \in Nat
    BY <1>3, <1>7, EmptySeq, LenProperties
  <2>7. x = b + Len(a.data) + 1
    BY <2>5, <2>6 DEF At
  <2>8. f.first = x
    <3>1. x \in Int
      BY <2>6, <2>7
    <3> HIDE DEF x, e
    <3> QED BY <2>2, <2>4, <3>1, SizesAssumption DEF Over
  <2> QED BY <2>5, <2>7, <2>8
<1> QED BY <1>5, <1>6, <1>7

\* What is then assembled awaits the fragment after it.
LEMMA NextIsAwaited ==
    ASSUME NEW a, AssemblerOK(a), NEW f \in FragmentSet, NEW b \in Int, NEW r,
           FragmentLength(a) = 0 \/ f.first = b + Len(a.data) + 1,
           PushedWell(a, f, b, r), Gathering(r.assembler)
    PROVE  /\ r.assembler.expected_sequence # None
           /\ r.assembler.data[Len(r.assembler.data)] + 1 = f.first + FragmentSize
<1> DEFINE a2 == r.assembler
<1>1. /\ a2 \in AssemblerSet /\ a2.total_size = a.total_size
      /\ a2.expected_sequence = (f.sequence + 1) % SequenceModulus
      /\ a2.offset + Len(a2.data) = a.offset + Len(a.data) + FragmentLength(a)
      /\ At(a2.data, b + (a2.offset - a.offset))
  BY DEF PushedWell, AssemblerOK
<1>2. a \in AssemblerSet
  BY DEF AssemblerOK
<1>3. a2.data # <<>> /\ ~ ReachedEnd(a2)
  BY DEF Gathering
<1>4. /\ a.offset \in Nat /\ Len(a.data) \in Nat /\ a2.offset \in Nat
      /\ Len(a2.data) \in Nat /\ Len(a2.data) \in 1 .. Len(a2.data)
      /\ f.first \in Nat /\ f.sequence \in Sequence
  BY <1>1, <1>2, <1>3, EmptySeq, LenProperties DEF AssemblerSet, FragmentSet
<1> HIDE DEF a2
<1>5. FragmentLength(a) = FragmentSize
  <2>1. a.total_size # None =>
            ~ a.offset + Len(a.data) + FragmentLength(a) >= a.total_size
    BY <1>1, <1>3 DEF ReachedEnd
  <2> QED BY <1>2, <2>1, FragmentLengthBounds
<1>6. FragmentSize \in Nat \ {0} /\ SequenceModulus \in Nat \ {0}
  BY SizesAssumption
<1>7. f.first = b + Len(a.data) + 1
  BY <1>5, <1>6
<1>8. a2.data[Len(a2.data)] = b + (a2.offset - a.offset) + Len(a2.data)
  BY <1>1, <1>4 DEF At
<1>9. a2.data[Len(a2.data)] + 1 = f.first + FragmentSize
  <2> DEFINE l == Len(a.data)
             l2 == Len(a2.data)
             o == a.offset
             o2 == a2.offset
             g == f.first
             y == a2.data[Len(a2.data)]
  <2>1. /\ l \in Nat /\ l2 \in Nat /\ o \in Nat /\ o2 \in Nat /\ g \in Nat
        /\ o2 + l2 = o + l + FragmentSize
        /\ g = b + l + 1 /\ y = b + (o2 - o) + l2
    BY <1>1, <1>4, <1>5, <1>7, <1>8
  <2> HIDE DEF l, l2, o, o2, g, y
  <2>2. y + 1 = g + FragmentSize
    BY <1>6, <2>1
  <2> QED BY <2>2 DEF y, g
<1>10. a2.expected_sequence # None
  <2>1. (f.sequence + 1) % SequenceModulus \in Nat
    BY <1>4, <1>6 DEF Sequence
  <2> QED BY <1>1, <2>1, NoneAssumption
<1> QED BY <1>9, <1>10 DEF a2

-----------------------------------------------------------------------------
(* The steps.                                                              *)

LEMMA EmptyIsContiguous == Contiguous(<<>>)
<1>1. At(<<>>, 0)
  BY DEF At
<1> QED BY <1>1 DEF Contiguous

LEMMA AwaitedIsKnown ==
    ASSUME Ordered, NEW id \in Id, Awaited(id)
    PROVE  id <= issued
BY DEF Ordered, Awaited

LEMMA ControlsAreTyped ==
    ASSUME Types
    PROVE  /\ Len(canTx) \in Nat /\ Len(safetyTx) \in Nat /\ issued \in Nat
           /\ \A i \in 1 .. Len(canTx) : canTx[i] \in ControlSet
                                       /\ canTx[i].transfer_id \in Nat
           /\ \A i \in 1 .. Len(safetyTx) : safetyTx[i] \in ControlSet
                                          /\ safetyTx[i].transfer_id \in Nat
           /\ sending # None => sending \in ControlSet /\ sending.transfer_id \in Nat
           /\ transmitting # None =>
                  transmitting \in ControlSet /\ transmitting.transfer_id \in Nat
<1>1. /\ \A i \in 1 .. Len(canTx) : canTx[i] \in ControlSet
      /\ \A i \in 1 .. Len(safetyTx) : safetyTx[i] \in ControlSet
  BY ElementOfSeq DEF Types
<1>2. \A c \in ControlSet : c.transfer_id \in Nat
  BY SizesAssumption DEF ControlSet, Id
<1> QED BY <1>1, <1>2, LenProperties DEF Types

LEMMA ControlsAppended ==
    ASSUME NEW tx \in Seq(ControlSet), NEW c \in ControlSet
    PROVE  /\ Append(tx, c) \in Seq(ControlSet) /\ Len(tx) \in Nat
           /\ Len(Append(tx, c)) = Len(tx) + 1
           /\ \A i \in 1 .. Len(tx) : Append(tx, c)[i] = tx[i]
           /\ Append(tx, c)[Len(tx) + 1] = c
BY AppendProperties, LenProperties

LEMMA ControlsTaken ==
    ASSUME NEW tx \in Seq(ControlSet), tx # <<>>
    PROVE  /\ Tail(tx) \in Seq(ControlSet) /\ Len(tx) \in Nat /\ Len(tx) >= 1
           /\ Len(Tail(tx)) = Len(tx) - 1 /\ Head(tx) = tx[1] /\ Head(tx) \in ControlSet
           /\ \A i \in 1 .. Len(tx) - 1 : Tail(tx)[i] = tx[i + 1]
BY HeadTailProperties, LenProperties, EmptySeq

LEMMA InitOK == Init => RelayIInv
<1> SUFFICES ASSUME Init PROVE RelayIInv
  OBVIOUS
<1>1. /\ <<>> \in Seq(ControlSet) /\ <<>> \in Seq(Frame) /\ <<>> \in Seq(ChunkSet)
      /\ Len(<<>>) = 0 /\ 0 <= TxCap /\ 0 <= SafetyCap /\ 0 <= ChunkCap
      /\ 0 \in 0 .. MaxCommands
  BY SizesAssumption
<1>2. Types
  BY <1>1, IdleIsOK DEF Init, Types
<1>3. /\ Idle.active = FALSE /\ Idle.transfer_id = 0 /\ Idle.data = <<>>
  BY DEF Idle
<1>4. Results
  BY <1>3 DEF Init, Results, Known, OpenIsOpen, InStep, OfferStands, Offered
<1>5. Ordered /\ Waiting
  BY <1>1 DEF Init, Ordered, Waiting, Awaited
<1>6. Stream
  BY <1>1, <1>3 DEF Init, Stream, InOrder, FramesFollow, FollowsAssembled, Gathering
<1>7. Whole
  BY <1>1, <1>3, EmptyIsContiguous DEF Init, Whole
<1> QED BY <1>2, <1>4, <1>5, <1>6, <1>7 DEF RelayIInv

\* What Report and StartCommand tell the ground.
Told(r, phase, reason, detail) ==
    r \in ReportSet /\ r.phase = phase /\ r.reason = reason /\ r.detail = detail

LEMMA ReportIsReport ==
    ASSUME NEW phase \in Phase,
           NEW reason \in Reason, NEW detail \in Nat
    PROVE  Told([phase |-> phase, reason |-> reason, detail |-> detail],
                phase, reason, detail)
BY DEF Told, ReportSet

LEMMA ReportTells ==
    ASSUME NEW id, NEW phase \in Phase,
           NEW reason \in Reason, NEW detail \in Nat, Report(id, phase, reason, detail)
    PROVE  \E r \in ReportSet : /\ Told(r, phase, reason, detail)
                                /\ reported' = [reported EXCEPT ![id] = r]
<1> DEFINE r == [phase |-> phase, reason |-> reason, detail |-> detail]
<1>1. Told(r, phase, reason, detail)
  BY ReportIsReport
<1>2. reported' = [reported EXCEPT ![id] = r]
  BY Zenon DEF Report
<1> HIDE DEF r
<1> QED BY <1>1, <1>2 DEF Told

LEMMA RejectCommandStep ==
    ASSUME RelayIInv, NEW opcode \in Opcode, RejectCommand(opcode)
    PROVE  RelayIInv'
<1> DEFINE id == issued + 1
<1>1. /\ issued \in Nat /\ MaxCommands \in Nat /\ issued < MaxCommands /\ issued' = id
      /\ id \in Id /\ issued' \in 0 .. MaxCommands
  BY SizesAssumption DEF RelayIInv, Types, RejectCommand, Issue, Id
<1>2. PICK r \in ReportSet : reported' = [reported EXCEPT ![id] = r] /\ r.phase = "Rejected"
  <2>1. PICK reason \in {"InvalidState", "Busy"} : Report(id, "Rejected", reason, 0)
    BY DEF RejectCommand
  <2>2. "Rejected" \in Phase /\ reason \in Reason /\ 0 \in Nat
    BY DEF Phase, Reason
  <2>3. \E r \in ReportSet : /\ Told(r, "Rejected", reason, 0)
                             /\ reported' = [reported EXCEPT ![id] = r]
    BY <2>1, <2>2, ReportTells
  <2> QED BY <2>3 DEF Told
<1>3. /\ UNCHANGED <<session, assembler, beacon, chunks, confirmed, sending>>
      /\ UNCHANGED <<canTx, safetyTx, transmitting, canRx, dump>>
  BY DEF RejectCommand, canVars, missionVars
<1>4. Types'
  BY <1>1, <1>2, <1>3 DEF RelayIInv, Types
<1>5. \A i \in Id : reported'[i] = IF i = id THEN r ELSE reported[i]
  BY <1>1, <1>2 DEF RelayIInv, Types
<1>6. Results'
  <2>1. /\ session # None => session.id <= issued /\ session.id \in Id
        /\ assembler.transfer_id <= issued /\ assembler.transfer_id \in Id \cup {0}
    BY DEF RelayIInv, Types, Results, Known, AssemblerOK, AssemblerSet
  <2>2. Known'
    BY <1>1, <1>3, <1>5, <2>1 DEF RelayIInv, Results, Known, Id
  <2>3. OpenIsOpen'
    BY <1>1, <1>3, <1>5, <2>1 DEF RelayIInv, Results, OpenIsOpen, Id
  <2>4. InStep'
    BY <1>3 DEF RelayIInv, Results, InStep
  <2>5. OfferStands'
    BY <1>1, <1>3, <1>5, <2>1 DEF RelayIInv, Results, OfferStands, Offered, Skipped, Id
  <2> QED BY <2>2, <2>3, <2>4, <2>5 DEF Results
<1>7. Ordered'
  BY <1>1, <1>3, ControlsAreTyped DEF RelayIInv, Ordered
<1>8. Waiting'
  <2>1. \A i \in Id : Awaited(i)' => Awaited(i)
    BY <1>3 DEF Awaited
  <2>2. \A k \in 1 .. Len(canRx) : IsFragment(canRx[k]) => canRx[k].transfer_id \in Int
    BY FrameIsOne DEF RelayIInv, Types, FragmentSet, Id
  <2>3. dump # None => dump.transfer_id \in Int
    BY DEF RelayIInv, Types, DumpSet, Id
  <2> QED BY <1>1, <1>3, <2>1, <2>2, <2>3 DEF RelayIInv, Waiting
<1>9. Stream' /\ Whole'
  BY <1>3 DEF RelayIInv, Stream, Whole
<1> QED BY <1>4, <1>6, <1>7, <1>8, <1>9 DEF RelayIInv

LEMMA StartCommandStep ==
    ASSUME RelayIInv, NEW opcode \in Opcode, NEW offset \in Nat, NEW length \in Nat,
           StartCommand(opcode, offset, length)
    PROVE  RelayIInv'
<1> DEFINE id == issued + 1
           control == Control(opcode, id, offset, length)
           failed == [phase |-> "Failed", reason |-> "InterruptedByEmergency",
                      detail |-> 0]
           accepted == [phase |-> "Accepted", reason |-> "None", detail |-> 0]
           interrupted == IF session = None THEN {} ELSE {session.id}
           told == [i \in Id |-> IF i \in interrupted THEN failed ELSE reported[i]]
<1>1. /\ issued \in Nat /\ MaxCommands \in Nat /\ issued < MaxCommands /\ issued' = id
      /\ id \in Id /\ issued' \in 0 .. MaxCommands /\ sending = None
  BY SizesAssumption DEF RelayIInv, Types, StartCommand, Issue, Id
<1>2. /\ session # None => session.id <= issued /\ session.id \in Id
      /\ assembler.transfer_id <= issued /\ assembler.transfer_id \in Id \cup {0}
      /\ assembler.active => assembler.transfer_id \in Id
      /\ assembler \in AssemblerSet /\ AssemblerOK(assembler)
      /\ reported[id] = None
  BY <1>1 DEF RelayIInv, Types, Results, Known, AssemblerOK, AssemblerSet
<1>3. control \in ControlSet /\ control.transfer_id = id /\ control # <<>>
  BY <1>1 DEF ControlSet, Control
<1>4. session' = [id |-> id, opcode |-> opcode] /\ session'.id = id
  BY DEF StartCommand
<1>5. UNCHANGED <<beacon, chunks, safetyTx, transmitting, canRx, dump>>
  BY DEF StartCommand, missionVars
<1>6. confirmed' = [confirmed EXCEPT ![id] = offset]
  BY DEF StartCommand
<1>7. \/ /\ assembler'.active = FALSE /\ assembler'.transfer_id = assembler.transfer_id
         /\ assembler'.data = <<>> /\ AssemblerOK(assembler')
      \/ /\ assembler'.active = TRUE /\ assembler'.transfer_id = id
         /\ assembler'.data = <<>> /\ assembler'.offset = offset /\ AssemblerOK(assembler')
      \/ assembler' = assembler
  <2>1. assembler' = CASE opcode = "StopLogDump"  -> Aborted(assembler)
                       [] opcode = "StartLogDump" -> Started(id, offset, length)
                       [] OTHER -> assembler
    BY DEF StartCommand
  <2>2. CASE opcode = "StopLogDump"
    <3>1. assembler' = Aborted(assembler)
      BY <2>1, <2>2
    <3> QED BY <1>2, <3>1, AbortedIsOK
  <2>3. CASE opcode = "StartLogDump"
    <3>1. assembler' = Started(id, offset, length)
      BY <2>1, <2>3
    <3>2. /\ Started(id, offset, length).active = TRUE
          /\ Started(id, offset, length).transfer_id = id
          /\ Started(id, offset, length).data = <<>>
          /\ Started(id, offset, length).offset = offset
      BY DEF Started
    <3> QED BY <1>1, <3>1, <3>2, StartedIsOK
  <2>4. CASE opcode \notin {"StopLogDump", "StartLogDump"}
    BY <2>1, <2>4
  <2> QED BY <2>2, <2>3, <2>4
<1>8. /\ failed \in ReportSet /\ accepted \in ReportSet /\ accepted.phase = "Accepted"
      /\ failed.phase = "Failed" /\ failed.reason = "InterruptedByEmergency"
  <2>1. /\ "Accepted" \in Phase /\ "Failed" \in Phase /\ 0 \in Nat
        /\ "InterruptedByEmergency" \in Reason /\ "None" \in Reason
    BY DEF Phase, Reason
  <2>2. /\ Told(failed, "Failed", "InterruptedByEmergency", 0)
        /\ Told(accepted, "Accepted", "None", 0)
    BY <2>1, ReportIsReport, Zenon
  <2> HIDE DEF failed, accepted
  <2> QED BY <2>2 DEF Told
<1>9. \/ /\ Len(canTx) < TxCap /\ canTx' = Append(canTx, control) /\ sending' = sending
         /\ reported' = [told EXCEPT ![id] = accepted]
      \/ canTx' = canTx /\ sending' = control /\ reported' = told
  BY Zenon DEF StartCommand
<1> HIDE DEF control, failed, accepted
<1>10. /\ reported' \in [Id -> ReportSet \cup {None}]
       /\ reported'[id] \in {None, accepted}
       /\ \A i \in Id : i # id =>
              \/ reported'[i] = reported[i]
              \/ reported'[i] = failed /\ session # None /\ i = session.id
  <2>1. /\ told \in [Id -> ReportSet \cup {None}] /\ told[id] = None
        /\ \A i \in Id : \/ told[i] = reported[i]
                         \/ told[i] = failed /\ session # None /\ i = session.id
    BY <1>1, <1>2, <1>8 DEF RelayIInv, Types, Id
  <2> HIDE DEF told
  <2> QED BY <1>1, <1>8, <1>9, <2>1
<1> HIDE DEF told, interrupted
<1>11. Types'
  <2>1. canTx' \in Seq(ControlSet) /\ Len(canTx') <= TxCap
    <3>1. CASE Len(canTx) < TxCap /\ canTx' = Append(canTx, control)
      BY <1>3, <3>1, ControlsAppended, SizesAssumption DEF RelayIInv, Types
    <3>2. CASE canTx' = canTx
      BY <3>2 DEF RelayIInv, Types
    <3> QED BY <1>9, <3>1, <3>2
  <2>2. sending' \in ControlSet \cup {None}
    BY <1>1, <1>3, <1>9
  <2>3. confirmed' \in [Id -> Nat]
    BY <1>6 DEF RelayIInv, Types
  <2>4. session' \in [id : Id, opcode : Opcode]
    BY <1>1, <1>4
  <2>5. AssemblerOK(assembler')
    BY <1>2, <1>7
  <2> QED BY <1>1, <1>5, <1>10, <2>1, <2>2, <2>3, <2>4, <2>5 DEF RelayIInv, Types
<1>12. Results'
  <2>1. Known'
    <3>1. \A i \in Id : i > id => reported'[i] = None
      BY <1>1, <1>2, <1>10 DEF RelayIInv, Results, Known, Id
    <3>2. assembler'.transfer_id <= id
      BY <1>1, <1>2, <1>7 DEF Id
    <3> QED BY <1>1, <1>4, <3>1, <3>2 DEF Known
  <2>2. OpenIsOpen'
    BY <1>4, <1>8, <1>10 DEF OpenIsOpen, Final
  <2>3. confirmed'[id] = offset /\ \A i \in Id : i # id => confirmed'[i] = confirmed[i]
    BY <1>1, <1>6 DEF RelayIInv, Types
  <2>4. assembler.transfer_id # id
    BY <1>1, <1>2 DEF Id
  <2>5. InStep'
    BY <1>2, <1>4, <1>7, <2>3, <2>4 DEF RelayIInv, Results, InStep
  <2>6. OfferStands'
    <3> SUFFICES ASSUME NEW i \in Id, assembler'.transfer_id = i, Offered(i)'
                 PROVE  /\ ~ assembler'.active
                        /\ reported'[i].reason = "ProtocolError" =>
                               Skipped(i)' \in 0 .. (ChunkSize - 1)
                        /\ reported'[i].reason = "InternalError" =>
                               Skipped(i)' \in 0 .. (2 * ChunkSize - 1)
      BY DEF OfferStands
    <3>1. i # id
      BY <1>8, <1>10 DEF Offered
    <3>2. reported'[i] = reported[i] /\ confirmed'[i] = confirmed[i]
      BY <1>8, <1>10, <2>3, <3>1 DEF Offered
    <3>3. assembler.transfer_id = i /\ (assembler'.active => assembler.active)
      BY <1>7, <3>1
    <3>4. Offered(i) /\ Skipped(i)' = Skipped(i)
      BY <3>2 DEF Offered, Skipped
    <3> QED BY <3>2, <3>3, <3>4 DEF RelayIInv, Results, OfferStands
  <2> QED BY <2>1, <2>2, <2>5, <2>6 DEF Results
<1>13. Ordered'
  <2>1. CASE canTx' = Append(canTx, control) /\ sending' = sending
    <3>1. /\ Len(canTx') = Len(canTx) + 1 /\ canTx'[Len(canTx) + 1] = control
          /\ \A i \in 1 .. Len(canTx) : canTx'[i] = canTx[i]
      BY <1>3, <2>1, ControlsAppended DEF RelayIInv, Types
    <3> QED BY <1>1, <1>3, <1>5, <2>1, <3>1, ControlsAreTyped DEF RelayIInv, Ordered
  <2>2. CASE canTx' = canTx /\ sending' = control
    BY <1>1, <1>3, <1>5, <2>2, ControlsAreTyped DEF RelayIInv, Ordered
  <2> QED BY <1>9, <2>1, <2>2
<1>14. Waiting'
  <2>1. ASSUME NEW i \in Id, Awaited(i)' PROVE i = id \/ Awaited(i)
    <3>1. CASE canTx' = Append(canTx, control) /\ sending' = sending
      <4>1. /\ Len(canTx') = Len(canTx) + 1 /\ canTx'[Len(canTx) + 1] = control
            /\ \A k \in 1 .. Len(canTx) : canTx'[k] = canTx[k]
        BY <1>3, <3>1, ControlsAppended DEF RelayIInv, Types
      <4> QED BY <1>3, <1>5, <2>1, <3>1, <4>1, ControlsAreTyped DEF RelayIInv, Awaited
    <3>2. CASE canTx' = canTx /\ sending' = control
      BY <1>3, <1>5, <2>1, <3>2 DEF Awaited
    <3> QED BY <1>9, <3>1, <3>2
  <2>2. /\ \A k \in 1 .. Len(canRx) : IsFragment(canRx[k]) =>
               canRx[k].transfer_id \in Int /\ canRx[k].transfer_id <= issued
        /\ dump # None => dump.transfer_id \in Int /\ dump.transfer_id <= issued
    BY FrameIsOne DEF RelayIInv, Types, FragmentSet, DumpSet, Id, Waiting
  <2>3. Unbegun(id, assembler', canRx, dump)
    BY <1>1, <1>2, <1>7, <2>2 DEF Unbegun, Id
  <2>4. ASSUME NEW i \in Id, Awaited(i) PROVE Unbegun(i, assembler', canRx, dump)
    <3>1. i # id /\ Unbegun(i, assembler, canRx, dump)
      BY <1>1, <2>4, AwaitedIsKnown DEF RelayIInv, Waiting, Id
    <3> QED BY <1>7, <3>1 DEF Unbegun
  <2> QED BY <1>1, <1>5, <2>1, <2>2, <2>3, <2>4 DEF Waiting
<1>15. Stream'
  <2>1. assembler' = assembler \/ ~ Gathering(assembler')
    BY <1>7 DEF Gathering
  <2>2. InOrder(assembler', canRx, dump)
    BY <2>1, OrderAlone DEF RelayIInv, Stream
  <2> QED BY <1>5, <2>2 DEF Stream
<1>16. Whole'
  BY <1>5, <1>7, EmptyIsContiguous DEF RelayIInv, Whole
<1> QED BY <1>11, <1>12, <1>13, <1>14, <1>15, <1>16 DEF RelayIInv

LEMMA CommandResumeStep ==
    ASSUME RelayIInv, CommandResume
    PROVE  RelayIInv'
<1> DEFINE id == sending.transfer_id
<1>1. /\ sending # None /\ sending \in ControlSet /\ id \in Id /\ id <= issued
      /\ Len(canTx) < TxCap /\ canTx' = Append(canTx, sending) /\ sending' = None
  BY DEF CommandResume, RelayIInv, Types, ControlSet, Ordered
<1>2. PICK r \in ReportSet : /\ Told(r, "Accepted", "None", 0)
                             /\ reported' = [reported EXCEPT ![id] = r]
  <2>1. "Accepted" \in Phase /\ "None" \in Reason /\ 0 \in Nat
    BY DEF Phase, Reason
  <2>2. Report(id, "Accepted", "None", 0)
    BY DEF CommandResume
  <2> HIDE DEF id
  <2> QED BY <2>1, <2>2, ReportTells
<1>3. UNCHANGED <<session, assembler, beacon, chunks, confirmed, safetyTx, transmitting,
                  canRx, dump, issued>>
  BY DEF CommandResume, missionVars
<1>4. /\ canTx' \in Seq(ControlSet) /\ Len(canTx') = Len(canTx) + 1
      /\ canTx'[Len(canTx) + 1] = sending /\ Len(canTx) \in Nat
      /\ \A i \in 1 .. Len(canTx) : canTx'[i] = canTx[i]
  BY <1>1, ControlsAppended DEF RelayIInv, Types
<1>5. \A i \in Id : reported'[i] = IF i = id THEN r ELSE reported[i]
  BY <1>1, <1>2 DEF RelayIInv, Types
<1>6. r.phase = "Accepted"
  BY <1>2 DEF Told
<1> HIDE DEF id
<1>7. Types'
  <2>1. Len(canTx') <= TxCap
    BY <1>1, <1>4, SizesAssumption
  <2>2. reported' \in [Id -> ReportSet \cup {None}]
    BY <1>1, <1>2 DEF RelayIInv, Types
  <2> QED BY <1>1, <1>3, <1>4, <2>1, <2>2 DEF RelayIInv, Types
<1>8. Results'
  <2>1. session # None => session.id \in Id
    BY DEF RelayIInv, Types
  <2>2. Known'
    <3>1. id <= issued /\ issued' = issued /\ UNCHANGED <<session, assembler>>
      BY <1>1, <1>3
    <3>2. Known
      BY DEF RelayIInv, Results
    <3>3. ASSUME NEW i \in Id, i > issued PROVE reported'[i] = None
      <4>1. i # id
        BY <3>1, <3>3, ControlsAreTyped DEF RelayIInv, Id
      <4> QED BY <1>5, <3>2, <3>3, <4>1 DEF Known
    <3> QED BY <3>1, <3>2, <3>3 DEF Known
  <2>3. OpenIsOpen'
    BY <1>1, <1>3, <1>5, <1>6, <2>1 DEF RelayIInv, Results, OpenIsOpen, Final
  <2>4. InStep'
    BY <1>3 DEF RelayIInv, Results, InStep
  <2>5. OfferStands'
    BY <1>3, <1>5, <1>6 DEF RelayIInv, Results, OfferStands, Offered, Skipped
  <2> QED BY <2>2, <2>3, <2>4, <2>5 DEF Results
<1>9. Ordered'
  BY <1>1, <1>3, <1>4, ControlsAreTyped DEF RelayIInv, Ordered, id
<1>10. Waiting'
  <2>1. \A i \in Id : Awaited(i)' => Awaited(i)
    BY <1>1, <1>3, <1>4 DEF Awaited
  <2> QED BY <1>3, <2>1 DEF RelayIInv, Waiting
<1>11. Stream' /\ Whole'
  BY <1>3 DEF RelayIInv, Stream, Whole
<1> QED BY <1>7, <1>8, <1>9, <1>10, <1>11 DEF RelayIInv

LEMMA SelectTransmitStep ==
    ASSUME RelayIInv, SelectTransmit
    PROVE  RelayIInv'
<1>1. UNCHANGED <<session, assembler, beacon, chunks, reported, confirmed, sending, canRx,
                  dump, issued>>
  BY DEF SelectTransmit, relayVars, missionVars
<1>2. /\ canTx \in Seq(ControlSet) /\ safetyTx \in Seq(ControlSet) /\ transmitting = None
  BY DEF RelayIInv, Types, SelectTransmit
<1>3. \/ /\ safetyTx # <<>> /\ transmitting' = Head(safetyTx)
         /\ safetyTx' = Tail(safetyTx) /\ canTx' = canTx
      \/ /\ canTx # <<>> /\ transmitting' = Head(canTx)
         /\ canTx' = Tail(canTx) /\ safetyTx' = safetyTx
  BY DEF SelectTransmit
<1>4. Results' /\ Stream' /\ Whole'
  BY <1>1 DEF RelayIInv, Results, Known, OpenIsOpen, InStep, OfferStands, Offered, Skipped,
              Stream, Whole
<1>5. CASE /\ safetyTx # <<>> /\ transmitting' = Head(safetyTx)
           /\ safetyTx' = Tail(safetyTx) /\ canTx' = canTx
  <2>1. /\ safetyTx' \in Seq(ControlSet) /\ Len(safetyTx) \in Nat /\ Len(safetyTx) >= 1
        /\ Len(safetyTx') = Len(safetyTx) - 1 /\ transmitting' = safetyTx[1]
        /\ transmitting' \in ControlSet
        /\ \A i \in 1 .. Len(safetyTx) - 1 : safetyTx'[i] = safetyTx[i + 1]
    BY <1>2, <1>5, ControlsTaken
  <2>2. Types'
    BY <1>1, <1>5, <2>1, SizesAssumption DEF RelayIInv, Types
  <2>3. /\ transmitting'.opcode = "StopLogDump" /\ transmitting'.transfer_id <= issued
        /\ transmitting'.opcode # "StartLogDump"
    BY <2>1 DEF RelayIInv, Ordered
  <2>4. Ordered'
    <3>1. \A i \in 1 .. Len(safetyTx') : i + 1 \in 1 .. Len(safetyTx)
      BY <2>1
    <3> QED BY <1>1, <1>5, <2>1, <2>3, <3>1 DEF RelayIInv, Ordered
  <2>5. \A i \in Id : Awaited(i)' => Awaited(i)
    BY <1>1, <1>5, <2>3 DEF Awaited
  <2>6. Waiting'
    BY <1>1, <2>5 DEF RelayIInv, Waiting
  <2> QED BY <1>4, <2>2, <2>4, <2>6 DEF RelayIInv
<1>6. CASE /\ canTx # <<>> /\ transmitting' = Head(canTx)
           /\ canTx' = Tail(canTx) /\ safetyTx' = safetyTx
  <2>1. /\ canTx' \in Seq(ControlSet) /\ Len(canTx) \in Nat /\ Len(canTx) >= 1
        /\ Len(canTx') = Len(canTx) - 1 /\ transmitting' = canTx[1]
        /\ transmitting' \in ControlSet
        /\ \A i \in 1 .. Len(canTx) - 1 : canTx'[i] = canTx[i + 1]
    BY <1>2, <1>6, ControlsTaken
  <2>2. Types'
    BY <1>1, <1>6, <2>1, SizesAssumption DEF RelayIInv, Types
  <2>3. 1 \in 1 .. Len(canTx) /\ \A i \in 1 .. Len(canTx') :
            i + 1 \in 1 .. Len(canTx) /\ 1 < i + 1 /\ canTx'[i] = canTx[i + 1]
    BY <2>1
  <2>4. Ordered'
    <3>1. /\ \A i \in 1 .. Len(canTx') : canTx'[i].transfer_id <= issued
          /\ transmitting'.transfer_id <= issued
          /\ \A i \in 1 .. Len(canTx') : transmitting'.transfer_id < canTx'[i].transfer_id
      BY <2>1, <2>3 DEF RelayIInv, Ordered
    <3>2. ASSUME NEW i \in 1 .. Len(canTx'), NEW j \in 1 .. Len(canTx'), i < j
          PROVE  canTx'[i].transfer_id < canTx'[j].transfer_id
      <4>1. i + 1 < j + 1
        BY <2>1, <3>2
      <4> QED BY <2>3, <4>1 DEF RelayIInv, Ordered
    <3>3. sending # None =>
              /\ \A i \in 1 .. Len(canTx') : canTx'[i].transfer_id < sending.transfer_id
              /\ transmitting'.transfer_id < sending.transfer_id
      BY <2>1, <2>3 DEF RelayIInv, Ordered
    <3> QED BY <1>1, <1>6, <3>1, <3>2, <3>3 DEF RelayIInv, Ordered
  <2>5. \A i \in Id : Awaited(i)' => Awaited(i)
    BY <1>1, <2>1, <2>3 DEF Awaited
  <2>6. Waiting'
    BY <1>1, <2>5 DEF RelayIInv, Waiting
  <2> QED BY <1>4, <2>2, <2>4, <2>6 DEF RelayIInv
<1> QED BY <1>3, <1>5, <1>6

\* Mission goes on with a dump, or ends it, and tells the board.
LEMMA UnbegunWithStatus ==
    ASSUME NEW id, NEW a, NEW rx \in Seq(Frame), NEW d, NEW m \in Frame,
           ~ IsFragment(m), NEW d2 \in {d, None}, NEW rx2 \in {rx, Append(rx, m)},
           Unbegun(id, a, rx, d)
    PROVE  Unbegun(id, a, rx2, d2)
<1>1. CASE rx2 = rx
  BY <1>1 DEF Unbegun
<1>2. CASE rx2 = Append(rx, m)
  <2>1. /\ Len(rx2) = Len(rx) + 1 /\ rx2[Len(rx) + 1] = m /\ Len(rx) \in Nat
        /\ \A k \in 1 .. Len(rx) : rx2[k] = rx[k]
    BY <1>2, Appended
  <2> QED BY <2>1 DEF Unbegun
<1> QED BY <1>1, <1>2

LEMMA UnbegunTaken ==
    ASSUME NEW id, NEW a, NEW rx \in Seq(Frame), rx # <<>>, NEW d, Unbegun(id, a, rx, d)
    PROVE  Unbegun(id, a, Tail(rx), d)
<1>1. \A k \in 1 .. Len(Tail(rx)) : k + 1 \in 1 .. Len(rx) /\ Tail(rx)[k] = rx[k + 1]
  BY Taken
<1> QED BY <1>1 DEF Unbegun

\* A status that Mission sends as an answer.
LEMMA StatusIsStatus ==
    ASSUME NEW opcode \in Opcode, NEW id \in Id, NEW status \in StatusCode,
           NEW size \in Nat, status \notin {"Dumping", "Complete"} => size = 0
    PROVE  /\ Status(opcode, id, status, size) \in Frame
           /\ ~ IsFragment(Status(opcode, id, status, size))
<1> DEFINE m == Status(opcode, id, status, size)
<1>1. m \in StatusSet /\ m.kind = "RecoveryStatus"
  BY DEF Status, StatusSet
<1> HIDE DEF m
<1> QED BY <1>1 DEF Frame, IsFragment, m

\* What Mission and the frames on their way have become after an answer.
Answered(rx2, d2) ==
    /\ \E m \in Frame : ~ IsFragment(m) /\ rx2 \in {canRx, Append(canRx, m)}
    /\ d2 \in {dump, None}

\* Mission obeys the control c: it answers, and may begin a dump.
LEMMA ObeyedIs ==
    ASSUME Types, NEW c \in ControlSet, MissionObeys(c)
    PROVE  \/ Answered(canRx', dump')
           \/ /\ c.opcode = "StartLogDump" /\ dump = None /\ Answered(canRx', None)
              /\ dump' \in DumpSet /\ dump'.transfer_id = c.transfer_id /\ dump'.lost = 0
<1>1. c.opcode \in Opcode /\ c.transfer_id \in Id /\ c.offset \in Nat /\ c.length \in Nat
  BY DEF ControlSet
<1>2. ASSUME NEW opcode \in Opcode, NEW status \in StatusCode, NEW size \in Nat,
             status \notin {"Dumping", "Complete"} => size = 0,
             Arrive(Status(opcode, c.transfer_id, status, size)), NEW d2 \in {dump, None}
      PROVE  Answered(canRx', d2)
  <2> DEFINE m == Status(opcode, c.transfer_id, status, size)
  <2>1. m \in Frame /\ ~ IsFragment(m)
    BY <1>1, <1>2, StatusIsStatus
  <2>2. canRx' \in {canRx, Append(canRx, m)}
    BY <1>2 DEF Arrive, Buffered
  <2> HIDE DEF m
  <2> QED BY <1>2, <2>1, <2>2 DEF Answered
<1>3. /\ {"StartLogDump", "StopLogDump", "Wake", "ExitRecovery"} \subseteq Opcode
      /\ {"Dumping", "Aborted", "Ready"} \subseteq StatusCode /\ Failures \subseteq StatusCode
      /\ "Dumping" \notin Failures /\ "Complete" \notin Failures
      /\ 0 \in Nat /\ FileSize \in Nat
  BY FailuresAssumption, SizesAssumption DEF Opcode, StatusCode
<1>4. CASE /\ c.opcode = "StartLogDump" /\ dump = None
           /\ dump' = [transfer_id |-> c.transfer_id, first |-> c.offset,
                       sequence |-> 0, end |-> RangeEnd(c), lost |-> 0]
           /\ Arrive(Status("StartLogDump", c.transfer_id, "Dumping", FileSize))
  <2>1. Answered(canRx', None)
    BY <1>2, <1>3, <1>4
  <2>2. RangeEnd(c) \in Nat
    <3>1. c.offset + c.length \in Nat
      BY <1>1
    <3>2. Min({FileSize, c.offset + c.length}) \in Nat
      BY <1>3, <3>1, MinOfTwo
    <3> QED BY <1>3, <3>2 DEF RangeEnd
  <2> DEFINE end == RangeEnd(c)
  <2>3. 0 \in Sequence /\ end \in Nat
    BY <2>2, SizesAssumption DEF Sequence
  <2> HIDE DEF end
  <2>4. /\ dump' \in DumpSet /\ dump'.transfer_id = c.transfer_id /\ dump'.lost = 0
    <3>1. dump' = [transfer_id |-> c.transfer_id, first |-> c.offset, sequence |-> 0,
                   end |-> end, lost |-> 0]
      BY <1>4 DEF end
    <3> QED BY <1>1, <2>3, <3>1 DEF DumpSet
  <2> QED BY <1>4, <2>1, <2>4
<1>5. CASE \E code \in Failures :
               /\ Arrive(Status("StartLogDump", c.transfer_id, code, 0))
               /\ UNCHANGED dump
  BY <1>2, <1>3, <1>5
<1>6. CASE dump' = None /\ Arrive(Status("StopLogDump", c.transfer_id, "Aborted", 0))
  BY <1>2, <1>3, <1>6
<1>7. CASE UNCHANGED dump /\ Arrive(Status(c.opcode, c.transfer_id, "Ready", 0))
  BY <1>1, <1>2, <1>3, <1>7
<1> QED BY <1>4, <1>5, <1>6, <1>7 DEF MissionObeys

\* An answer, which may end the dump, disturbs nothing.
LEMMA AnswerStep ==
    ASSUME RelayIInv, NEW rx2, NEW d2, Answered(rx2, d2)
    PROVE  /\ rx2 \in Seq(Frame) /\ d2 \in DumpSet \cup {None}
           /\ InOrder(assembler, rx2, d2)
           /\ \A k \in 1 .. Len(rx2) : IsFragment(rx2[k]) => rx2[k].transfer_id <= issued
           /\ d2 # None => d2.transfer_id <= issued
           /\ \A id \in Id : Unbegun(id, assembler, canRx, dump) =>
                                  Unbegun(id, assembler, rx2, d2)
<1>1. PICK m \in Frame : ~ IsFragment(m) /\ rx2 \in {canRx, Append(canRx, m)}
  BY DEF Answered
<1>2. /\ d2 \in {dump, None} /\ canRx \in Seq(Frame)
      /\ InOrder(assembler, canRx, dump)
      /\ \A k \in 1 .. Len(canRx) : IsFragment(canRx[k]) => canRx[k].transfer_id <= issued
      /\ dump # None => dump.transfer_id <= issued
      /\ dump \in DumpSet \cup {None}
  BY DEF Answered, RelayIInv, Types, Stream, Waiting
<1>3. /\ Len(Append(canRx, m)) = Len(canRx) + 1 /\ Append(canRx, m)[Len(canRx) + 1] = m
      /\ Len(canRx) \in Nat /\ Append(canRx, m) \in Seq(Frame)
      /\ \A k \in 1 .. Len(canRx) : Append(canRx, m)[k] = canRx[k]
  BY <1>2, Appended
<1>4. rx2 \in Seq(Frame)
  BY <1>1, <1>2, <1>3
<1>5. \A k \in 1 .. Len(rx2) : IsFragment(rx2[k]) => rx2[k].transfer_id <= issued
  <2>1. CASE rx2 = canRx
    BY <1>2, <2>1
  <2>2. CASE rx2 = Append(canRx, m)
    BY <1>1, <1>2, <1>3, <2>2
  <2> QED BY <1>1, <2>1, <2>2
<1>6. InOrder(assembler, rx2, d2)
  BY <1>1, <1>2, OrderWithStatus
<1>7. ASSUME NEW id \in Id, Unbegun(id, assembler, canRx, dump)
      PROVE  Unbegun(id, assembler, rx2, d2)
  BY <1>1, <1>2, <1>7, UnbegunWithStatus
<1> QED BY <1>2, <1>4, <1>5, <1>6, <1>7

\* The same for a transmission that ends, whether Mission obeys or hears nothing; the
\* assembler goes on or is aborted.
LEMMA TransmittedStep ==
    ASSUME RelayIInv, transmitting # None, transmitting' = None,
           MissionObeys(transmitting) \/ UNCHANGED missionVars,
           UNCHANGED <<sending, canTx, safetyTx, issued>>,
           assembler' = assembler \/ assembler' = Aborted(assembler)
    PROVE  /\ canRx' \in Seq(Frame) /\ dump' \in DumpSet \cup {None}
           /\ Ordered' /\ Waiting' /\ Stream'
<1> DEFINE c == transmitting
<1>1. c \in ControlSet /\ c.transfer_id <= issued /\ c.transfer_id \in Id
  BY DEF RelayIInv, Types, Ordered, ControlSet
<1>2. AssemblerOK(assembler) /\ assembler \in AssemblerSet
  BY DEF RelayIInv, Types, AssemblerOK
<1>3. /\ assembler'.transfer_id = assembler.transfer_id
      /\ assembler'.data = assembler.data \/ assembler'.data = <<>>
      /\ assembler' = assembler \/ ~ Gathering(assembler')
  BY <1>2, AbortedIsOK DEF Gathering
<1>4. Ordered'
  BY DEF RelayIInv, Ordered
<1>5. ASSUME NEW id \in Id, Awaited(id)'
      PROVE  Awaited(id) /\ (c.opcode = "StartLogDump" => id # c.transfer_id)
  <2>1. Awaited(id)
    BY <1>5 DEF Awaited
  <2>2. ASSUME c.opcode = "StartLogDump" PROVE id # c.transfer_id
    <3>1. /\ \A i \in 1 .. Len(canTx) : c.transfer_id < canTx[i].transfer_id
          /\ sending # None => c.transfer_id < sending.transfer_id
      BY <2>2 DEF RelayIInv, Ordered
    <3> QED BY <1>1, <1>5, <3>1, ControlsAreTyped DEF RelayIInv, Awaited, Id
  <2> QED BY <2>1, <2>2
<1>6. CASE Answered(canRx', dump')
  <2>1. /\ canRx' \in Seq(Frame) /\ dump' \in DumpSet \cup {None}
        /\ InOrder(assembler, canRx', dump')
        /\ \A k \in 1 .. Len(canRx') : IsFragment(canRx'[k]) => canRx'[k].transfer_id <= issued
        /\ dump' # None => dump'.transfer_id <= issued
        /\ \A id \in Id : Unbegun(id, assembler, canRx, dump) =>
                               Unbegun(id, assembler, canRx', dump')
    BY <1>6, AnswerStep
  <2>2. ASSUME NEW id \in Id, Awaited(id)'
        PROVE  Unbegun(id, assembler', canRx', dump')
    <3>1. Unbegun(id, assembler, canRx', dump')
      BY <1>5, <2>1, <2>2 DEF RelayIInv, Waiting
    <3> QED BY <1>3, <3>1 DEF Unbegun
  <2>3. InOrder(assembler', canRx', dump')
    BY <1>3, <2>1, OrderAlone
  <2> QED BY <1>4, <2>1, <2>2, <2>3 DEF Waiting, Stream
<1>7. CASE /\ c.opcode = "StartLogDump" /\ dump = None /\ Answered(canRx', None)
           /\ dump' \in DumpSet /\ dump'.transfer_id = c.transfer_id /\ dump'.lost = 0
  <2>1. /\ canRx' \in Seq(Frame) /\ InOrder(assembler, canRx', None)
        /\ \A k \in 1 .. Len(canRx') : IsFragment(canRx'[k]) => canRx'[k].transfer_id <= issued
        /\ \A id \in Id : Unbegun(id, assembler, canRx, dump) =>
                               Unbegun(id, assembler, canRx', None)
    BY <1>7, AnswerStep
  <2>2. Unbegun(c.transfer_id, assembler, canRx', None)
    BY <1>1, <1>7, <2>1 DEF RelayIInv, Waiting, Awaited
  <2>3. InOrder(assembler, canRx', dump')
    BY <1>7, <2>1, <2>2, OrderBegun
  <2>4. ASSUME NEW id \in Id, Awaited(id)'
        PROVE  Unbegun(id, assembler', canRx', dump')
    <3>1. Unbegun(id, assembler, canRx', None) /\ id # c.transfer_id
      BY <1>5, <1>7, <2>1, <2>4 DEF RelayIInv, Waiting
    <3> QED BY <1>3, <1>7, <3>1 DEF Unbegun
  <2>5. InOrder(assembler', canRx', dump')
    BY <1>3, <2>3, OrderAlone
  <2> QED BY <1>1, <1>4, <1>7, <2>1, <2>4, <2>5 DEF Waiting, Stream
<1>8. CASE UNCHANGED missionVars
  <2>1. canRx' = canRx /\ dump' = dump
    BY <1>8 DEF missionVars
  <2>2. ASSUME NEW id \in Id, Awaited(id)'
        PROVE  Unbegun(id, assembler', canRx', dump')
    <3>1. Unbegun(id, assembler, canRx, dump)
      BY <1>5, <2>2 DEF RelayIInv, Waiting
    <3> QED BY <1>3, <2>1, <3>1 DEF Unbegun
  <2>3. InOrder(assembler', canRx', dump')
    BY <1>3, <2>1, OrderAlone DEF RelayIInv, Stream
  <2> QED BY <1>4, <2>1, <2>2, <2>3 DEF Waiting, Stream, RelayIInv, Types
<1> QED BY <1>1, <1>6, <1>7, <1>8, ObeyedIs DEF RelayIInv

LEMMA TransmitOkStep ==
    ASSUME RelayIInv, TransmitOk
    PROVE  RelayIInv'
<1>1. UNCHANGED <<session, assembler, beacon, chunks, reported, confirmed, sending, canTx,
                  safetyTx, issued>> /\ transmitting' = None
  BY DEF TransmitOk, relayVars
<1>2. /\ canRx' \in Seq(Frame) /\ dump' \in DumpSet \cup {None}
      /\ Ordered' /\ Waiting' /\ Stream'
  BY <1>1, TransmittedStep DEF TransmitOk
<1>3. Types'
  BY <1>1, <1>2 DEF RelayIInv, Types
<1>4. Results' /\ Whole'
  BY <1>1 DEF RelayIInv, Results, Known, OpenIsOpen, InStep, OfferStands, Offered, Skipped,
              Whole
<1> QED BY <1>2, <1>3, <1>4 DEF RelayIInv

LEMMA TransmitErrorStep ==
    ASSUME RelayIInv, TransmitError
    PROVE  RelayIInv'
<1> DEFINE id == transmitting.transfer_id
<1>1. /\ UNCHANGED <<beacon, chunks, confirmed, sending, canTx, safetyTx, issued>>
      /\ transmitting' = None /\ transmitting # None
  BY DEF TransmitError
<1>2. AssemblerOK(assembler) /\ assembler \in AssemblerSet
  BY DEF RelayIInv, Types, AssemblerOK
<1>3. \/ /\ OpenIs(id) /\ session' = None /\ assembler' = Aborted(assembler)
         /\ Report(id, "Failed", "Timeout", 0)
      \/ UNCHANGED <<session, assembler, reported>>
  BY DEF TransmitError
<1>4. /\ canRx' \in Seq(Frame) /\ dump' \in DumpSet \cup {None}
      /\ Ordered' /\ Waiting' /\ Stream'
  BY <1>1, <1>3, TransmittedStep DEF TransmitError
<1>5. CASE UNCHANGED <<session, assembler, reported>>
  <2>1. Types'
    BY <1>1, <1>4, <1>5 DEF RelayIInv, Types
  <2>2. Results' /\ Whole'
    BY <1>1, <1>5 DEF RelayIInv, Results, Known, OpenIsOpen, InStep, OfferStands, Offered,
                      Skipped, Whole
  <2> QED BY <1>4, <2>1, <2>2 DEF RelayIInv
<1>6. CASE /\ OpenIs(id) /\ session' = None /\ assembler' = Aborted(assembler)
           /\ Report(id, "Failed", "Timeout", 0)
  <2>1. /\ AssemblerOK(assembler') /\ assembler'.active = FALSE
        /\ assembler'.transfer_id = assembler.transfer_id /\ assembler'.data = <<>>
    BY <1>2, <1>6, AbortedIsOK
  <2>2. id \in Id /\ id <= issued /\ session # None /\ session.id = id
    BY <1>1, <1>6 DEF RelayIInv, Types, Results, Known, OpenIs
  <2> HIDE DEF id
  <2>3. PICK r \in ReportSet : /\ Told(r, "Failed", "Timeout", 0)
                               /\ reported' = [reported EXCEPT ![id] = r]
    <3>1. "Failed" \in Phase /\ "Timeout" \in Reason /\ 0 \in Nat
      BY DEF Phase, Reason
    <3> QED BY <1>6, <3>1, ReportTells
  <2>4. /\ \A i \in Id : reported'[i] = IF i = id THEN r ELSE reported[i]
        /\ r.reason = "Timeout"
    BY <2>2, <2>3 DEF RelayIInv, Types, Told
  <2>5. Types'
    <3>1. reported' \in [Id -> ReportSet \cup {None}]
      BY <2>2, <2>3 DEF RelayIInv, Types
    <3> QED BY <1>1, <1>4, <1>6, <2>1, <3>1 DEF RelayIInv, Types
  <2>6. Results'
    <3>1. Known'
      BY <1>1, <1>6, <2>1, <2>2, <2>4, ControlsAreTyped
         DEF RelayIInv, Results, Known, Id
    <3>2. OpenIsOpen' /\ InStep'
      BY <1>6, <2>1 DEF OpenIsOpen, InStep
    <3>3. OfferStands'
      BY <1>1, <2>1, <2>4 DEF RelayIInv, Results, OfferStands, Offered, Skipped
    <3> QED BY <3>1, <3>2, <3>3 DEF Results
  <2>7. Whole'
    BY <1>1, <2>1, EmptyIsContiguous DEF RelayIInv, Whole
  <2> QED BY <1>4, <2>5, <2>6, <2>7 DEF RelayIInv
<1> QED BY <1>3, <1>5, <1>6

LEMMA MissionSendsStep ==
    ASSUME RelayIInv, MissionSends
    PROVE  RelayIInv'
<1>1. /\ UNCHANGED <<session, assembler, beacon, chunks, reported, confirmed, sending>>
      /\ UNCHANGED <<canTx, safetyTx, transmitting, issued>>
  BY DEF MissionSends, relayVars, canVars
<1>2. /\ dump # None /\ dump \in DumpSet /\ canRx \in Seq(Frame)
      /\ dump.lost \in Losses /\ AssemblerOK(assembler)
      /\ dump.transfer_id \in Id /\ dump.transfer_id <= issued
      /\ InOrder(assembler, canRx, dump)
  BY DEF MissionSends, RelayIInv, Types, Waiting, Stream, InOrder, DumpSet
<1>3. Results' /\ Ordered' /\ Whole'
  BY <1>1 DEF RelayIInv, Results, Known, OpenIsOpen, InStep, OfferStands, Offered, Skipped,
              Ordered, Whole
<1>4. \A id \in Id : Awaited(id)' => Awaited(id)
  BY <1>1 DEF Awaited
<1>5. CASE Answered(canRx', dump')
  <2>1. /\ canRx' \in Seq(Frame) /\ dump' \in DumpSet \cup {None}
        /\ InOrder(assembler, canRx', dump')
        /\ \A k \in 1 .. Len(canRx') : IsFragment(canRx'[k]) => canRx'[k].transfer_id <= issued
        /\ dump' # None => dump'.transfer_id <= issued
        /\ \A id \in Id : Unbegun(id, assembler, canRx, dump) =>
                               Unbegun(id, assembler, canRx', dump')
    BY <1>5, AnswerStep
  <2>2. Types' /\ Waiting' /\ Stream'
    BY <1>1, <1>4, <2>1 DEF RelayIInv, Types, Waiting, Stream
  <2> QED BY <1>3, <2>2 DEF RelayIInv
<1>6. ASSUME NEW lost \in Losses, dump' = Next1(dump, lost)
      PROVE  /\ dump' \in DumpSet /\ dump'.transfer_id = dump.transfer_id
  <2> DEFINE first == dump.first + FragmentSize
             sequence == (dump.sequence + 1) % SequenceModulus
  <2>1. first \in Nat /\ sequence \in Sequence /\ lost \in Sequence
    BY <1>2, SizesAssumption DEF DumpSet, Sequence, Losses
  <2> HIDE DEF first, sequence
  <2>2. dump' = [transfer_id |-> dump.transfer_id, first |-> first, sequence |-> sequence,
                 end |-> dump.end, lost |-> lost]
    BY <1>6 DEF Next1, first, sequence
  <2>3. dump.end \in Nat
    BY <1>2 DEF DumpSet
  <2> QED BY <1>2, <2>1, <2>2, <2>3 DEF DumpSet
<1>7. CASE dump' = Next1(dump, 0) /\ canRx' = Append(canRx, Fragment(dump))
  <2> DEFINE m == Fragment(dump)
  <2>1. /\ m \in Frame /\ IsFragment(m) /\ m.transfer_id = dump.transfer_id
    BY <1>2 DEF Fragment, DumpSet, Frame, FragmentSet, IsFragment
  <2>2. InOrder(assembler, canRx', dump')
    BY <1>2, <1>7, OrderSent
  <2> HIDE DEF m
  <2>3. /\ canRx' \in Seq(Frame) /\ Len(canRx') = Len(canRx) + 1 /\ Len(canRx) \in Nat
        /\ canRx'[Len(canRx) + 1] = m
        /\ \A k \in 1 .. Len(canRx) : canRx'[k] = canRx[k]
    BY <1>2, <1>7, <2>1, Appended DEF m
  <2>4. 0 \in Losses
    BY SizesAssumption DEF Losses, Sequence
  <2>5. dump' \in DumpSet /\ dump'.transfer_id = dump.transfer_id
    BY <1>6, <1>7, <2>4
  <2>6. ASSUME NEW k \in 1 .. Len(canRx'), IsFragment(canRx'[k])
        PROVE  canRx'[k].transfer_id <= issued
    BY <1>2, <2>1, <2>3, <2>6 DEF RelayIInv, Waiting
  <2>7. ASSUME NEW id \in Id, Unbegun(id, assembler, canRx, dump)
        PROVE  Unbegun(id, assembler, canRx', dump')
    BY <1>2, <2>1, <2>3, <2>5, <2>7 DEF Unbegun
  <2>8. Types' /\ Waiting' /\ Stream'
    BY <1>1, <1>2, <1>4, <2>2, <2>3, <2>5, <2>6, <2>7
       DEF RelayIInv, Types, Waiting, Stream
  <2> QED BY <1>3, <2>8 DEF RelayIInv
<1>8. CASE /\ dump' = Next1(dump, dump.lost + 1) /\ UNCHANGED canRx
           /\ Lossy /\ dump.lost + 1 < SequenceModulus
  <2>1. dump.lost + 1 \in Losses
    BY <1>2, <1>8, SizesAssumption DEF Losses, Sequence
  <2>2. InOrder(assembler, canRx, dump')
    BY <1>2, <1>8, <2>1, OrderLost
  <2>3. dump' \in DumpSet /\ dump'.transfer_id = dump.transfer_id
    BY <1>6, <1>8, <2>1
  <2>4. ASSUME NEW id \in Id, Unbegun(id, assembler, canRx, dump)
        PROVE  Unbegun(id, assembler, canRx, dump')
    BY <1>2, <2>3, <2>4 DEF Unbegun
  <2>5. Types' /\ Waiting' /\ Stream'
    BY <1>1, <1>2, <1>4, <1>8, <2>2, <2>3, <2>4 DEF RelayIInv, Types, Waiting, Stream
  <2> QED BY <1>3, <2>5 DEF RelayIInv
<1>9. ASSUME NEW status \in StatusCode, NEW size \in Nat, dump' = None,
             status \notin {"Dumping", "Complete"} => size = 0,
             Arrive(Status("StartLogDump", dump.transfer_id, status, size))
      PROVE  Answered(canRx', dump')
  <2> DEFINE m == Status("StartLogDump", dump.transfer_id, status, size)
  <2>1. m \in Frame /\ ~ IsFragment(m)
    <3>1. "StartLogDump" \in Opcode
      BY DEF Opcode
    <3> QED BY <1>2, <1>9, <3>1, StatusIsStatus
  <2>2. canRx' \in {canRx, Append(canRx, m)}
    BY <1>9 DEF Arrive, Buffered
  <2> HIDE DEF m
  <2> QED BY <1>9, <2>1, <2>2 DEF Answered
<1>10. /\ "Complete" \in StatusCode /\ Failures \subseteq StatusCode
       /\ "Dumping" \notin Failures /\ "Complete" \notin Failures
       /\ 0 \in Nat /\ FileSize \in Nat
  BY FailuresAssumption, SizesAssumption DEF StatusCode
<1>11. CASE /\ dump' = None
            /\ Arrive(Status("StartLogDump", dump.transfer_id, "Complete", FileSize))
  BY <1>5, <1>9, <1>10, <1>11
<1>12. CASE /\ dump' = None
            /\ \E code \in Failures :
                   Arrive(Status("StartLogDump", dump.transfer_id, code, 0))
  BY <1>5, <1>9, <1>10, <1>12
<1>13. CASE \E lost \in {0, dump.lost + 1} :
               /\ dump' = Next1(dump, lost)
               /\ IF lost = 0 THEN Buffered(Fragment(dump))
                  ELSE Lossy /\ lost < SequenceModulus /\ UNCHANGED canRx
  <2>1. dump.lost + 1 # 0
    BY <1>2 DEF Losses, Sequence
  <2> QED BY <1>7, <1>8, <1>13, <2>1 DEF Buffered
<1> QED BY <1>11, <1>12, <1>13 DEF MissionSends, Next1

LEMMA ResultIsResult ==
    ASSUME NEW status \in StatusSet
    PROVE  /\ ResultOf(status)[1] \in Phase /\ ResultOf(status)[2] \in Reason
           /\ ResultOf(status)[2] # "ProtocolError"
           /\ ResultOf(status)[2] = "InternalError" => status.total_size = 0
<1>1. /\ status.status \in StatusCode
      /\ status.status \notin {"Dumping", "Complete"} => status.total_size = 0
  BY DEF StatusSet
<1> DEFINE code == status.status
           stopped == code = "Aborted" /\ status.opcode = "StopLogDump"
<1>2. CASE code = "Dumping"
  <2>1. ResultOf(status) = <<"Accepted", "None">>
    BY <1>2 DEF ResultOf
  <2> QED BY <2>1 DEF Phase, Reason
<1>3. CASE code \in {"Ready", "Complete"} \/ stopped
  <2>1. ResultOf(status) = <<"Completed", "None">>
    BY <1>3 DEF ResultOf
  <2> QED BY <2>1 DEF Phase, Reason
<1>4. CASE code \in {"Busy", "InvalidState", "InvalidArgument"}
  <2>1. ResultOf(status) = <<"Rejected", code>>
    BY <1>4 DEF ResultOf
  <2>2. ResultOf(status)[1] = "Rejected" /\ ResultOf(status)[2] = code
    BY <2>1
  <2> QED BY <1>4, <2>2 DEF Phase, Reason
<1>5. CASE code = "SourceUnavailable"
  <2>1. ResultOf(status) = <<"Failed", "DeviceUnavailable">>
    BY <1>5 DEF ResultOf
  <2> QED BY <2>1 DEF Phase, Reason
<1>6. CASE code = "IoError"
  <2>1. ResultOf(status) = <<"Failed", "PersistenceError">>
    BY <1>6 DEF ResultOf
  <2> QED BY <2>1 DEF Phase, Reason
<1>7. CASE code = "InternalError"
  <2>1. ResultOf(status) = <<"Failed", "InternalError">>
    BY <1>7 DEF ResultOf
  <2> QED BY <1>1, <1>7, <2>1 DEF Phase, Reason
<1>8. CASE code = "Aborted" /\ ~ stopped
  <2>1. ResultOf(status) = <<"Failed", "InterruptedByEmergency">>
    BY <1>8 DEF ResultOf
  <2> QED BY <2>1 DEF Phase, Reason
<1> QED BY <1>1, <1>2, <1>3, <1>4, <1>5, <1>6, <1>7, <1>8 DEF StatusCode

\* A chunk that is queued ends where its transfer is confirmed.
LEMMA ChunkQueued ==
    ASSUME Types, Whole, NEW chunk \in ChunkSet, Contiguous(chunk.data),
           Queueable(chunk), QueueChunk(chunk)
    PROVE  /\ chunks' \in Seq(ChunkSet) /\ Len(chunks') <= ChunkCap
           /\ \A c \in 1 .. Len(chunks') : Contiguous(chunks'[c].data)
           /\ confirmed' \in [Id -> Nat]
           /\ \A i \in Id : confirmed'[i] = IF i = chunk.transfer_id
                                           THEN chunk.offset + Len(chunk.data)
                                           ELSE confirmed[i]
<1> DEFINE end == chunk.offset + Len(chunk.data)
<1>1. chunk.transfer_id \in Id /\ end \in Nat
  BY LenProperties DEF ChunkSet
<1>2. chunks \in Seq(ChunkSet) /\ Len(chunks) \in Nat /\ ChunkCap \in Nat
      /\ Len(chunks) < ChunkCap
  BY LenProperties, SizesAssumption DEF Types, Queueable
<1>3. /\ chunks' \in Seq(ChunkSet) /\ Len(chunks') = Len(chunks) + 1
      /\ chunks'[Len(chunks) + 1] = chunk
      /\ \A c \in 1 .. Len(chunks) : chunks'[c] = chunks[c]
  BY <1>2, AppendProperties DEF QueueChunk
<1>4. confirmed' = [confirmed EXCEPT ![chunk.transfer_id] = end]
  BY DEF QueueChunk
<1> HIDE DEF end
<1>5. /\ confirmed' \in [Id -> Nat]
      /\ \A i \in Id : confirmed'[i] = IF i = chunk.transfer_id THEN end ELSE confirmed[i]
  BY <1>1, <1>4 DEF Types
<1>6. \A c \in 1 .. Len(chunks') : Contiguous(chunks'[c].data)
  BY <1>2, <1>3 DEF Whole
<1> QED BY <1>2, <1>3, <1>5, <1>6 DEF end

\* A transfer that fails, with what it offers for a resumption.
LEMMA TransferFailed ==
    ASSUME RelayIInv, NEW a, AssemblerOK(a), a.transfer_id = assembler.transfer_id,
           NEW reason \in {"ProtocolError", "InternalError"}, FailTransfer(a, reason),
           session # None /\ session.id = a.transfer_id =>
               ResumeOffset(a) - confirmed[session.id] \in
                   0 .. IF reason = "ProtocolError" THEN ChunkSize - 1 ELSE 2 * ChunkSize - 1,
           UNCHANGED issued
    PROVE  /\ AssemblerOK(assembler') /\ assembler'.active = FALSE
           /\ assembler'.transfer_id = assembler.transfer_id /\ assembler'.data = <<>>
           /\ safetyTx' \in Seq(ControlSet) /\ Len(safetyTx') <= SafetyCap
           /\ \A i \in 1 .. Len(safetyTx') : /\ safetyTx'[i].opcode = "StopLogDump"
                                            /\ safetyTx'[i].transfer_id <= issued
           /\ session' = None /\ reported' \in [Id -> ReportSet \cup {None}]
           /\ UNCHANGED <<chunks, confirmed>> /\ Results'
<1>1. /\ AssemblerOK(assembler') /\ assembler'.active = FALSE
      /\ assembler'.transfer_id = assembler.transfer_id /\ assembler'.data = <<>>
  BY AbortedIsOK DEF FailTransfer, AssemblerOK
<1>2. ResumeOffset(a) \in Nat /\ a.transfer_id \in Id \cup {0} /\ a.transfer_id <= issued
  BY LenProperties DEF ResumeOffset, AssemblerOK, AssemblerSet, RelayIInv, Results, Known
<1> DEFINE stop == Control("StopLogDump", a.transfer_id, ResumeOffset(a), 0)
<1>3. ASSUME a.transfer_id # 0
      PROVE  stop \in ControlSet /\ stop.opcode = "StopLogDump"
             /\ stop.transfer_id = a.transfer_id
  BY <1>2, <1>3 DEF Control, ControlSet, Opcode
<1>4. /\ safetyTx' \in Seq(ControlSet) /\ Len(safetyTx') <= SafetyCap
      /\ \A i \in 1 .. Len(safetyTx') : /\ safetyTx'[i].opcode = "StopLogDump"
                                       /\ safetyTx'[i].transfer_id <= issued
  <2>1. CASE a.transfer_id # 0 /\ Len(safetyTx) < SafetyCap /\ safetyTx' = Append(safetyTx, stop)
    <3> HIDE DEF stop
    <3>1. /\ safetyTx' \in Seq(ControlSet) /\ Len(safetyTx') = Len(safetyTx) + 1
          /\ safetyTx'[Len(safetyTx) + 1] = stop /\ Len(safetyTx) \in Nat
          /\ \A i \in 1 .. Len(safetyTx) : safetyTx'[i] = safetyTx[i]
      BY <1>3, <2>1, ControlsAppended DEF RelayIInv, Types
    <3> QED BY <1>2, <1>3, <2>1, <3>1, SizesAssumption DEF RelayIInv, Ordered
  <2>2. CASE safetyTx' = safetyTx
    BY <2>2 DEF RelayIInv, Types, Ordered
  <2> QED BY <2>1, <2>2 DEF FailTransfer
<1>5. session' = None /\ UNCHANGED <<chunks, confirmed>>
  BY DEF FailTransfer
<1>6. CASE session = None
  <2>1. reported' = reported
    BY <1>6 DEF FailTransfer
  <2>2. Results'
    BY <1>1, <1>5, <2>1 DEF RelayIInv, Results, Known, OpenIsOpen, InStep, OfferStands,
                            Offered, Skipped
  <2> QED BY <1>1, <1>4, <1>5, <2>1, <2>2 DEF RelayIInv, Types
<1>7. CASE session # None
  <2> DEFINE id == session.id
             detail == IF a.transfer_id # 0 THEN ResumeOffset(a) ELSE 0
  <2>1. id \in Id /\ id <= issued /\ detail \in Nat
    BY <1>2, <1>7 DEF RelayIInv, Types, Results, Known
  <2>2. Report(id, "Failed", reason, detail)
    BY <1>7 DEF FailTransfer
  <2>3. id = a.transfer_id => detail = ResumeOffset(a)
    BY <2>1, SizesAssumption DEF Id
  <2> HIDE DEF id, detail
  <2>4. PICK r \in ReportSet : /\ Told(r, "Failed", reason, detail)
                               /\ reported' = [reported EXCEPT ![id] = r]
    <3> DEFINE r == [phase |-> "Failed", reason |-> reason, detail |-> detail]
    <3>1. "Failed" \in Phase /\ reason \in Reason
      BY DEF Phase, Reason
    <3>2. Told(r, "Failed", reason, detail)
      BY <2>1, <3>1, ReportIsReport, Zenon
    <3>3. reported' = [reported EXCEPT ![id] = r]
      BY <2>2, Zenon DEF Report
    <3>4. r \in ReportSet
      BY <3>2, Zenon DEF Told
    <3> HIDE DEF r
    <3> QED BY <3>2, <3>3, <3>4, Zenon
  <2>5. /\ \A i \in Id : reported'[i] = IF i = id THEN r ELSE reported[i]
        /\ r.reason = reason /\ r.detail = detail
        /\ reported' \in [Id -> ReportSet \cup {None}]
    BY <2>1, <2>4 DEF RelayIInv, Types, Told
  <2>6. Results'
    <3>1. Known'
      BY <1>1, <1>5, <2>1, <2>5, ControlsAreTyped DEF RelayIInv, Results, Known, Id
    <3>2. OpenIsOpen' /\ InStep'
      BY <1>1, <1>5 DEF OpenIsOpen, InStep
    <3>3. OfferStands'
      <4> SUFFICES ASSUME NEW i \in Id, assembler'.transfer_id = i, Offered(i)'
                   PROVE  /\ ~ assembler'.active
                          /\ reported'[i].reason = "ProtocolError" =>
                                 Skipped(i)' \in 0 .. (ChunkSize - 1)
                          /\ reported'[i].reason = "InternalError" =>
                                 Skipped(i)' \in 0 .. (2 * ChunkSize - 1)
        BY DEF OfferStands
      <4>1. CASE i = id
        <5>1. Skipped(i)' = ResumeOffset(a) - confirmed[id] /\ reported'[i].reason = reason
          BY <1>1, <1>5, <2>3, <2>5, <4>1 DEF Skipped
        <5> QED BY <1>1, <1>7, <4>1, <5>1 DEF id
      <4>2. CASE i # id
        <5>1. reported'[i] = reported[i]
          BY <2>5, <4>2
        <5>2. Offered(i) /\ Skipped(i)' = Skipped(i)
          BY <1>5, <5>1 DEF Offered, Skipped
        <5> QED BY <1>1, <5>1, <5>2 DEF RelayIInv, Results, OfferStands
      <4> QED BY <4>1, <4>2
    <3> QED BY <3>1, <3>2, <3>3 DEF Results
  <2> QED BY <1>1, <1>4, <1>5, <2>5, <2>6
<1> QED BY <1>6, <1>7

\* A status that is applied: nothing is offered for a resumption, and what was offered
\* is not touched.
LEMMA StatusApplied ==
    ASSUME RelayIInv, NEW status \in StatusSet, ApplyStatus(status), UNCHANGED issued,
           assembler'.transfer_id = assembler.transfer_id,
           assembler'.active => assembler.active,
           \/ assembler'.offset = assembler.offset /\ UNCHANGED confirmed
           \/ /\ assembler.active /\ ~ assembler'.active
              /\ confirmed'[assembler.transfer_id] = assembler'.offset
    PROVE  /\ session' \in {session, None} /\ beacon' \in BOOLEAN
           /\ reported' \in [Id -> ReportSet \cup {None}] /\ Results'
<1>1. CASE ~ Concerns(status)
  <2>1. UNCHANGED <<session, reported, beacon>>
    BY <1>1 DEF ApplyStatus
  <2>2. Known' /\ OpenIsOpen' /\ InStep'
    BY <2>1 DEF RelayIInv, Results, Known, OpenIsOpen, InStep
  <2>3. OfferStands'
    BY <2>1 DEF RelayIInv, Results, OfferStands, Offered, Skipped
  <2> QED BY <2>1, <2>2, <2>3 DEF RelayIInv, Types, Results
<1>2. CASE Concerns(status)
  <2> DEFINE result == ResultOf(status)
             id == session.id
             phase == result[1]
             reason == result[2]
             detail == status.total_size
  <2>1. /\ session' = IF phase \in Final THEN None ELSE session
        /\ Report(id, phase, reason, detail)
        /\ beacon' = (beacon /\ ~ (/\ status.opcode = "ExitRecovery"
                                   /\ phase = "Completed"))
    BY <1>2, Zenon DEF ApplyStatus
  <2>2. /\ phase \in Phase /\ reason \in Reason /\ reason # "ProtocolError"
        /\ reason = "InternalError" => detail = 0
    BY ResultIsResult
  <2>3. detail \in Nat
    BY DEF StatusSet
  <2>4. session # None /\ id \in Id /\ id <= issued
    BY <1>2 DEF Concerns, OpenIs, RelayIInv, Types, Results, Known
  <2> HIDE DEF result, phase, reason, id, detail
  <2>5. PICK r \in ReportSet : /\ Told(r, phase, reason, detail)
                               /\ reported' = [reported EXCEPT ![id] = r]
    BY <2>1, <2>2, <2>3, ReportTells
  <2>6. /\ \A i \in Id : reported'[i] = IF i = id THEN r ELSE reported[i]
        /\ r.phase = phase /\ r.reason = reason /\ r.detail = detail
        /\ reported' \in [Id -> ReportSet \cup {None}]
    BY <2>4, <2>5 DEF RelayIInv, Types, Told
  <2>7. beacon' \in BOOLEAN
    BY <2>1
  <2>8. Known'
    BY <2>1, <2>4, <2>6, ControlsAreTyped DEF RelayIInv, Results, Known, Id
  <2>9. OpenIsOpen'
    BY <2>1, <2>4, <2>6 DEF OpenIsOpen, id
  <2>10. InStep'
    BY <2>1 DEF RelayIInv, Results, InStep
  <2>11. OfferStands'
    <3> SUFFICES ASSUME NEW i \in Id, assembler'.transfer_id = i, Offered(i)'
                 PROVE  /\ ~ assembler'.active
                        /\ reported'[i].reason = "ProtocolError" =>
                               Skipped(i)' \in 0 .. (ChunkSize - 1)
                        /\ reported'[i].reason = "InternalError" =>
                               Skipped(i)' \in 0 .. (2 * ChunkSize - 1)
      BY DEF OfferStands
    <3>1. i # id
      BY <2>2, <2>6 DEF Offered
    <3>2. reported'[i] = reported[i]
      BY <2>6, <3>1
    <3>3. Offered(i)
      BY <3>2 DEF Offered
    <3>4. ~ assembler.active
      BY <3>3 DEF RelayIInv, Results, OfferStands
    <3>5. Skipped(i)' = Skipped(i)
      BY <3>2, <3>4 DEF Skipped
    <3> QED BY <3>2, <3>3, <3>4, <3>5 DEF RelayIInv, Results, OfferStands
  <2> QED BY <2>1, <2>6, <2>7, <2>8, <2>9, <2>10, <2>11 DEF Results
<1> QED BY <1>1, <1>2

\* The CAN owner receives a frame only when it has nothing to send, so nothing is
\* overtaken; the dumps that are asked for have still not begun.
LEMMA Received ==
    ASSUME RelayIInv, canRx # <<>>, Receive(Head(canRx)),
           assembler'.transfer_id = assembler.transfer_id,
           \/ assembler'.data \in {<<>>, assembler.data}
           \/ /\ IsFragment(Head(canRx))
              /\ Head(canRx).transfer_id = assembler.transfer_id,
           \A i \in 1 .. Len(safetyTx') : /\ safetyTx'[i].opcode = "StopLogDump"
                                          /\ safetyTx'[i].transfer_id <= issued
    PROVE  /\ UNCHANGED <<canTx, transmitting, sending, dump, issued>>
           /\ canRx' = Tail(canRx) /\ canRx' \in Seq(Frame)
           /\ Ordered' /\ Waiting'
<1>1. /\ UNCHANGED <<canTx, transmitting, sending, dump, issued>> /\ canRx' = Tail(canRx)
  BY DEF Receive
<1>2. /\ canRx \in Seq(Frame) /\ canRx' \in Seq(Frame) /\ Len(canRx) \in Nat
      /\ Len(canRx') = Len(canRx) - 1 /\ 1 \in 1 .. Len(canRx) /\ Head(canRx) = canRx[1]
      /\ \A k \in 1 .. Len(canRx) - 1 : canRx'[k] = canRx[k + 1]
  BY <1>1, Taken DEF RelayIInv, Types
<1>3. Ordered'
  BY <1>1 DEF RelayIInv, Ordered
<1>4. \A k \in 1 .. Len(canRx') : IsFragment(canRx'[k]) => canRx'[k].transfer_id <= issued
  <2>1. \A k \in 1 .. Len(canRx') : k + 1 \in 1 .. Len(canRx) /\ canRx'[k] = canRx[k + 1]
    BY <1>2
  <2> QED BY <2>1 DEF RelayIInv, Waiting
<1>5. ASSUME NEW id \in Id, Awaited(id)'
      PROVE  Unbegun(id, assembler, canRx, dump)'
  <2>1. Unbegun(id, assembler, canRx, dump)
    BY <1>1, <1>5 DEF RelayIInv, Waiting, Awaited
  <2>2. Unbegun(id, assembler, canRx', dump)
    BY <1>1, <1>2, <2>1, UnbegunTaken
  <2>3. assembler'.transfer_id = id => assembler'.data = <<>>
    <3>1. CASE assembler'.data \in {<<>>, assembler.data}
      BY <2>1, <3>1 DEF Unbegun
    <3>2. CASE IsFragment(Head(canRx)) /\ Head(canRx).transfer_id = assembler.transfer_id
      BY <1>2, <2>1, <3>2 DEF Unbegun
    <3> QED BY <3>1, <3>2
  <2> QED BY <1>1, <2>2, <2>3 DEF Unbegun
<1>6. dump' # None => dump'.transfer_id <= issued'
  BY <1>1 DEF RelayIInv, Waiting
<1>7. Waiting'
  BY <1>1, <1>4, <1>5, <1>6 DEF Waiting
<1> QED BY <1>1, <1>2, <1>3, <1>7

\* A status that does not end an assembly.
LEMMA StatusStep ==
    ASSUME RelayIInv, canRx # <<>>, NEW status \in StatusSet, status = Head(canRx),
           Receive(status), ApplyStatus(status), UNCHANGED <<chunks, confirmed, safetyTx>>,
           assembler' = WithTotalSize(assembler, status.transfer_id, status.total_size)
    PROVE  RelayIInv'
<1> DEFINE sized == WithTotalSize(assembler, status.transfer_id, status.total_size)
<1>1. /\ AssemblerOK(sized)
      /\ sized.active = assembler.active /\ sized.transfer_id = assembler.transfer_id
      /\ sized.offset = assembler.offset /\ sized.data = assembler.data
      /\ sized.expected_sequence = assembler.expected_sequence
      /\ ReachedEnd(assembler) => ReachedEnd(sized)
  <2>1. status.transfer_id \in Id /\ status.total_size \in Nat
    BY DEF StatusSet
  <2> QED BY <2>1, SizedIsOK DEF RelayIInv, Types
<1>2. assembler' = sized
  OBVIOUS
<1> HIDE DEF sized
<1>3. /\ UNCHANGED <<canTx, transmitting, sending, dump, issued>>
      /\ canRx' = Tail(canRx) /\ canRx' \in Seq(Frame) /\ Ordered' /\ Waiting'
  <2>1. \A i \in 1 .. Len(safetyTx') : /\ safetyTx'[i].opcode = "StopLogDump"
                                       /\ safetyTx'[i].transfer_id <= issued
    BY DEF RelayIInv, Ordered
  <2> QED BY <1>1, <1>2, <2>1, Received
<1>4. /\ session' \in {session, None} /\ beacon' \in BOOLEAN
      /\ reported' \in [Id -> ReportSet \cup {None}] /\ Results'
  <2>1. UNCHANGED issued
    BY <1>3
  <2> QED BY <1>1, <1>2, <2>1, StatusApplied
<1>5. Types'
  BY <1>1, <1>2, <1>3, <1>4 DEF RelayIInv, Types
<1>6. Stream'
  <2>1. ~ IsFragment(Head(canRx))
    BY DEF StatusSet, IsFragment
  <2>2. InOrder(sized, canRx, dump)
    BY <1>1, OrderSized DEF RelayIInv, Stream
  <2>3. InOrder(sized, Tail(canRx), dump)
    BY <2>1, <2>2, OrderStatusTaken DEF RelayIInv, Types
  <2> QED BY <1>2, <1>3, <2>3 DEF Stream
<1>7. Whole'
  BY <1>1, <1>2 DEF RelayIInv, Whole
<1> QED BY <1>3, <1>4, <1>5, <1>6, <1>7 DEF RelayIInv

\* The status that ends an assembly: its last chunk is queued, or it fails.
LEMMA CompleteStep ==
    ASSUME RelayIInv, canRx # <<>>, NEW status \in StatusSet, status = Head(canRx),
           Receive(status), NEW sized, AssemblerOK(sized), sized.active,
           assembler.active, sized.transfer_id = assembler.transfer_id,
           sized.offset = assembler.offset, sized.data = assembler.data,
           NEW last, last = ChunkOf(sized, sized.data, TRUE),
           NEW after, after = AfterChunk(sized, sized.data, TRUE),
           \/ /\ Queueable(last) /\ QueueChunk(last) /\ assembler' = after
              /\ ApplyStatus(status) /\ UNCHANGED safetyTx
           \/ /\ FailTransfer(after, "InternalError") /\ UNCHANGED beacon
    PROVE  RelayIInv'
<1>1. /\ sized \in AssemblerSet /\ sized.data \in Seq(Nat) /\ Len(sized.data) \in Nat
      /\ Len(sized.data) < ChunkSize /\ sized.transfer_id \in Id /\ sized.offset \in Nat
  BY LenProperties DEF AssemblerOK, AssemblerSet
<1>2. /\ after \in AssemblerSet /\ after.active = FALSE
      /\ after.transfer_id = assembler.transfer_id
      /\ after.offset = assembler.offset + Len(sized.data) /\ after.data = <<>>
  <2>1. Fields(AfterChunk(sized, sized.data, TRUE), FALSE, sized.transfer_id,
               sized.offset + Len(sized.data), sized.total_size, sized.expected_sequence,
               <<>>)
    BY <1>1, LastChunkTaken
  <2> QED BY <2>1 DEF Fields
<1>3. AssemblerOK(after) /\ Len(after.data) = 0
  <2>1. Len(<<>>) = 0 /\ 0 < ChunkSize
    BY SizesAssumption
  <2> QED BY <1>2, <2>1 DEF AssemblerOK
<1>4. /\ last \in ChunkSet /\ last.transfer_id = assembler.transfer_id
      /\ last.offset = assembler.offset /\ last.data = sized.data
  BY <1>1, ChunkIsChunk DEF ChunkOf
<1>5. Contiguous(last.data)
  BY <1>4 DEF RelayIInv, Whole
<1>6. assembler.transfer_id \in Id /\ assembler.offset = confirmed[assembler.transfer_id]
      /\ confirmed[assembler.transfer_id] \in Nat
  BY <1>1 DEF RelayIInv, Types, Results, InStep
<1>7. UNCHANGED <<canTx, transmitting, sending, dump, issued>> /\ canRx' = Tail(canRx)
  BY DEF Receive
<1>8. ~ IsFragment(Head(canRx))
  BY DEF StatusSet, IsFragment
<1>9. ASSUME ~ assembler'.active PROVE Stream'
  <2>1. InOrder(assembler, Tail(canRx), dump)
    BY <1>8, OrderStatusTaken DEF RelayIInv, Types, Stream
  <2>2. InOrder(assembler', Tail(canRx), dump)
    BY <1>9, <2>1, OrderAlone DEF Gathering
  <2> QED BY <1>7, <2>2 DEF Stream
<1>10. CASE /\ Queueable(last) /\ QueueChunk(last) /\ assembler' = after
            /\ ApplyStatus(status) /\ UNCHANGED safetyTx
  <2>1. /\ chunks' \in Seq(ChunkSet) /\ Len(chunks') <= ChunkCap
        /\ \A c \in 1 .. Len(chunks') : Contiguous(chunks'[c].data)
        /\ confirmed' \in [Id -> Nat]
        /\ confirmed'[assembler.transfer_id] = assembler.offset + Len(sized.data)
    BY <1>4, <1>5, <1>6, <1>10, ChunkQueued DEF RelayIInv
  <2>2. /\ session' \in {session, None} /\ beacon' \in BOOLEAN
        /\ reported' \in [Id -> ReportSet \cup {None}] /\ Results'
    BY <1>2, <1>7, <1>10, <2>1, StatusApplied
  <2>3. canRx' \in Seq(Frame) /\ Ordered' /\ Waiting'
    <3>1. \A i \in 1 .. Len(safetyTx') : /\ safetyTx'[i].opcode = "StopLogDump"
                                         /\ safetyTx'[i].transfer_id <= issued
      BY <1>10 DEF RelayIInv, Ordered
    <3> QED BY <1>2, <1>10, <3>1, Received
  <2>4. Types'
    BY <1>3, <1>7, <1>10, <2>1, <2>2, <2>3 DEF RelayIInv, Types
  <2>5. Stream' /\ Whole'
    BY <1>2, <1>9, <1>10, <2>1, EmptyIsContiguous DEF Whole
  <2> QED BY <2>2, <2>3, <2>4, <2>5 DEF RelayIInv
<1>11. CASE FailTransfer(after, "InternalError") /\ UNCHANGED beacon
  <2>1. session # None /\ session.id = after.transfer_id =>
            ResumeOffset(after) - confirmed[session.id] \in
                0 .. IF "InternalError" = "ProtocolError" THEN ChunkSize - 1
                     ELSE 2 * ChunkSize - 1
    <3> DEFINE c == confirmed[assembler.transfer_id]
               l == Len(sized.data)
               e == after.offset
               r == ResumeOffset(after)
    <3>1. c \in Nat /\ l \in Nat /\ l < ChunkSize /\ e = c + l /\ r = e + 0
      BY <1>1, <1>2, <1>3, <1>6, Zenon DEF ResumeOffset
    <3> HIDE DEF c, l, e, r
    <3>2. r - c \in 0 .. 2 * ChunkSize - 1
      BY <3>1, SizesAssumption
    <3>3. ResumeOffset(after) - confirmed[assembler.transfer_id] \in 0 .. 2 * ChunkSize - 1
      BY <3>2, Zenon DEF r, c
    <3> QED BY <1>2, <3>3
  <2>2. /\ AssemblerOK(assembler') /\ assembler'.active = FALSE
        /\ assembler'.transfer_id = assembler.transfer_id /\ assembler'.data = <<>>
        /\ safetyTx' \in Seq(ControlSet) /\ Len(safetyTx') <= SafetyCap
        /\ \A i \in 1 .. Len(safetyTx') : /\ safetyTx'[i].opcode = "StopLogDump"
                                         /\ safetyTx'[i].transfer_id <= issued
        /\ session' = None /\ reported' \in [Id -> ReportSet \cup {None}]
        /\ UNCHANGED <<chunks, confirmed>> /\ Results'
    <3>1. "InternalError" \in {"ProtocolError", "InternalError"} /\ UNCHANGED issued
      BY <1>7
    <3> QED BY <1>2, <1>3, <1>11, <2>1, <3>1, TransferFailed
  <2>3. canRx' \in Seq(Frame) /\ Ordered' /\ Waiting'
    BY <2>2, Received
  <2>4. Types'
    BY <1>7, <1>11, <2>2, <2>3 DEF RelayIInv, Types
  <2>5. Stream' /\ Whole'
    BY <1>9, <2>2, EmptyIsContiguous DEF RelayIInv, Whole
  <2> QED BY <2>2, <2>3, <2>4, <2>5 DEF RelayIInv
<1> QED BY <1>10, <1>11

LEMMA ReceiveStatusStep ==
    ASSUME RelayIInv, canRx # <<>>, ReceiveStatus(Head(canRx))
    PROVE  RelayIInv'
<1> DEFINE status == Head(canRx)
           sized == WithTotalSize(assembler, status.transfer_id, status.total_size)
           flush == /\ status.status = "Complete"
                    /\ sized.active /\ sized.transfer_id = status.transfer_id
           last == ChunkOf(sized, sized.data, TRUE)
           after == AfterChunk(sized, sized.data, TRUE)
<1>1. /\ status.kind = "RecoveryStatus" /\ Receive(status)
      /\ \/ /\ flush /\ Queueable(last) /\ QueueChunk(last) /\ assembler' = after
            /\ ApplyStatus(status) /\ UNCHANGED safetyTx
         \/ /\ flush /\ FailTransfer(after, "InternalError") /\ UNCHANGED beacon
         \/ /\ assembler' = sized /\ ApplyStatus(status)
            /\ UNCHANGED <<chunks, confirmed, safetyTx>>
  BY Zenon DEF ReceiveStatus
<1>2. status \in StatusSet
  <2>1. status \in Frame
    BY Taken DEF RelayIInv, Types
  <2> QED BY <1>1, <2>1 DEF Frame, FragmentSet
<1>3. CASE /\ assembler' = sized /\ ApplyStatus(status)
           /\ UNCHANGED <<chunks, confirmed, safetyTx>>
  <2> HIDE DEF flush, last, after
  <2> QED BY <1>1, <1>2, <1>3, StatusStep
<1>4. /\ AssemblerOK(sized)
      /\ sized.active = assembler.active /\ sized.transfer_id = assembler.transfer_id
      /\ sized.offset = assembler.offset /\ sized.data = assembler.data
  <2>1. status.transfer_id \in Id /\ status.total_size \in Nat
    BY <1>2 DEF StatusSet
  <2> QED BY <2>1, SizedIsOK DEF RelayIInv, Types
<1>5. CASE flush /\ \/ /\ Queueable(last) /\ QueueChunk(last) /\ assembler' = after
                       /\ ApplyStatus(status) /\ UNCHANGED safetyTx
                    \/ FailTransfer(after, "InternalError") /\ UNCHANGED beacon
  <2>1. sized.active /\ assembler.active
    BY <1>4, <1>5
  <2>2. last = ChunkOf(sized, sized.data, TRUE) /\ after = AfterChunk(sized, sized.data, TRUE)
    OBVIOUS
  <2> HIDE DEF status, sized, flush, last, after
  <2>3. status = Head(canRx)
    BY DEF status
  <2> QED BY <1>1, <1>2, <1>4, <1>5, <2>1, <2>2, <2>3, CompleteStep
<1> QED BY <1>1, <1>3, <1>5, Zenon

\* A gap gives up what was gathered: as if it had been taken as the last chunk.
LEMMA GapIsOK ==
    ASSUME NEW a, AssemblerOK(a)
    PROVE  /\ AssemblerOK(AfterGap(a)) /\ AfterGap(a).transfer_id = a.transfer_id
           /\ ResumeOffset(AfterGap(a)) = ResumeOffset(a)
<1>1. a \in AssemblerSet /\ a.data \in Seq(Nat) /\ Len(a.data) \in Nat /\ a.offset \in Nat
  BY LenProperties DEF AssemblerOK, AssemblerSet
<1>2. Fields(AfterChunk(a, a.data, TRUE), FALSE, a.transfer_id, a.offset + Len(a.data),
             a.total_size, a.expected_sequence, <<>>)
  BY <1>1, LastChunkTaken
<1>3. AfterGap(a) = AfterChunk(a, a.data, TRUE)
  <2>1. (a.active /\ ~ TRUE) = FALSE
    OBVIOUS
  <2> QED BY <2>1, Zenon DEF AfterGap, AfterChunk
<1> DEFINE gap == AfterGap(a)
<1>4. /\ gap \in AssemblerSet /\ gap.active = FALSE /\ gap.transfer_id = a.transfer_id
      /\ gap.offset = a.offset + Len(a.data) /\ gap.data = <<>>
  BY <1>2, <1>3, Zenon DEF Fields
<1> HIDE DEF gap
<1>5. Len(<<>>) = 0 /\ 0 < ChunkSize
  BY SizesAssumption
<1>6. AssemblerOK(gap)
  BY <1>4, <1>5 DEF AssemblerOK
<1>7. ResumeOffset(gap) = ResumeOffset(a)
  <2> DEFINE e == a.offset + Len(a.data)
  <2>1. e \in Nat /\ gap.offset = e /\ Len(gap.data) = 0
    BY <1>1, <1>4, <1>5
  <2> HIDE DEF e
  <2>2. gap.offset + Len(gap.data) = e
    BY <2>1
  <2> QED BY <2>2 DEF ResumeOffset, e
<1> QED BY <1>4, <1>6, <1>7, Zenon DEF gap

\* A transfer that fails with a fragment.
LEMMA FragmentFailsStep ==
    ASSUME RelayIInv, canRx # <<>>, NEW f \in FragmentSet, f = Head(canRx), Receive(f),
           UNCHANGED beacon, NEW a, AssemblerOK(a), a.transfer_id = assembler.transfer_id,
           NEW reason \in {"ProtocolError", "InternalError"}, FailTransfer(a, reason),
           session # None /\ session.id = a.transfer_id =>
               ResumeOffset(a) - confirmed[session.id] \in
                   0 .. IF reason = "ProtocolError" THEN ChunkSize - 1 ELSE 2 * ChunkSize - 1
    PROVE  RelayIInv'
<1>1. UNCHANGED <<canTx, transmitting, sending, dump, issued>> /\ canRx' = Tail(canRx)
  BY DEF Receive
<1>2. /\ AssemblerOK(assembler') /\ assembler'.active = FALSE
      /\ assembler'.transfer_id = assembler.transfer_id /\ assembler'.data = <<>>
      /\ safetyTx' \in Seq(ControlSet) /\ Len(safetyTx') <= SafetyCap
      /\ \A i \in 1 .. Len(safetyTx') : /\ safetyTx'[i].opcode = "StopLogDump"
                                       /\ safetyTx'[i].transfer_id <= issued
      /\ session' = None /\ reported' \in [Id -> ReportSet \cup {None}]
      /\ UNCHANGED <<chunks, confirmed>> /\ Results'
  <2>1. UNCHANGED issued
    BY <1>1
  <2> QED BY <2>1, TransferFailed
<1>3. canRx' \in Seq(Frame) /\ Ordered' /\ Waiting'
  BY <1>2, Received
<1>4. Types'
  BY <1>1, <1>2, <1>3 DEF RelayIInv, Types
<1>5. Stream'
  <2>1. IsFragment(Head(canRx))
    BY DEF FragmentSet, IsFragment
  <2>2. ~ Gathering(assembler')
    BY <1>2 DEF Gathering
  <2>3. canRx \in Seq(Frame) /\ InOrder(assembler, canRx, dump)
    BY DEF RelayIInv, Types, Stream
  <2>4. InOrder(assembler', Tail(canRx), dump)
    BY <2>1, <2>2, <2>3, OrderFragmentTaken
  <2> QED BY <1>1, <2>4 DEF Stream
<1>6. Whole'
  BY <1>2, EmptyIsContiguous DEF RelayIInv, Whole
<1> QED BY <1>2, <1>3, <1>4, <1>5, <1>6 DEF RelayIInv

LEMMA FragmentRefusedStep ==
    ASSUME RelayIInv, canRx # <<>>, NEW f \in FragmentSet, f = Head(canRx), Receive(f),
           UNCHANGED beacon,
           FailTransfer(IF SequenceGap(assembler, f) THEN AfterGap(assembler)
                        ELSE assembler, "ProtocolError")
    PROVE  RelayIInv'
<1> DEFINE a == IF SequenceGap(assembler, f) THEN AfterGap(assembler) ELSE assembler
<1>1. AssemblerOK(assembler)
  BY DEF RelayIInv, Types
<1>2. /\ AssemblerOK(a) /\ a.transfer_id = assembler.transfer_id
      /\ ResumeOffset(a) = assembler.offset + Len(assembler.data)
  BY <1>1, GapIsOK DEF ResumeOffset
<1>3. FailTransfer(a, "ProtocolError") /\ "ProtocolError" \in {"ProtocolError", "InternalError"}
  OBVIOUS
<1> HIDE DEF a
<1>4. session # None /\ session.id = a.transfer_id =>
          ResumeOffset(a) - confirmed[session.id] \in
              0 .. IF "ProtocolError" = "ProtocolError" THEN ChunkSize - 1
                   ELSE 2 * ChunkSize - 1
  <2> SUFFICES ASSUME session # None, session.id = a.transfer_id
               PROVE  ResumeOffset(a) - confirmed[session.id] \in 0 .. ChunkSize - 1
    OBVIOUS
  <2> DEFINE c == confirmed[session.id]
             l == Len(assembler.data)
             o == assembler.offset
             e == ResumeOffset(a)
  <2>1. o \in Nat /\ l \in Nat /\ l < ChunkSize
    BY <1>1, LenProperties DEF AssemblerOK, AssemblerSet
  <2>2. o = c /\ e = o + l
    BY <1>2 DEF RelayIInv, Results, InStep
  <2> HIDE DEF c, l, o, e
  <2>3. e - c \in 0 .. ChunkSize - 1
    BY <2>1, <2>2, SizesAssumption
  <2> QED BY <2>3, Zenon DEF e, c
<1> QED BY <1>2, <1>3, <1>4, FragmentFailsStep

\* A fragment that is accepted: it is gathered, it fills a chunk that is queued, or the
\* chunk it fills cannot be queued.
LEMMA FragmentAcceptedStep ==
    ASSUME RelayIInv, canRx # <<>>, NEW f \in FragmentSet, f = Head(canRx), Receive(f),
           UNCHANGED beacon, ~ Refused(assembler, f),
           NEW r, r = Pushed(assembler, f),
           \/ /\ r.chunk = None /\ assembler' = r.assembler
              /\ UNCHANGED <<session, chunks, reported, confirmed, safetyTx>>
           \/ /\ r.chunk # None /\ Queueable(r.chunk) /\ QueueChunk(r.chunk)
              /\ assembler' = r.assembler /\ UNCHANGED <<session, reported, safetyTx>>
           \/ r.chunk # None /\ FailTransfer(r.assembler, "InternalError")
    PROVE  RelayIInv'
<1> DEFINE a == assembler
<1>1. /\ AssemblerOK(a) /\ a \in AssemblerSet /\ canRx \in Seq(Frame) /\ IsFragment(f)
      /\ InOrder(a, canRx, dump) /\ Contiguous(a.data)
  BY DEF RelayIInv, Types, AssemblerOK, FragmentSet, IsFragment, Stream, Whole
<1>2. a.active /\ f.transfer_id = a.transfer_id /\ a.transfer_id \in Id
  BY <1>1 DEF Refused, NotStarted, WrongTransfer, AssemblerOK
<1>3. PICK b \in Int : /\ At(a.data, b)
                       /\ FragmentLength(a) = 0 \/ f.first = b + Len(a.data) + 1
  BY <1>1, FragmentFits
<1>4. PushedWell(a, f, b, r)
  BY <1>1, <1>2, <1>3, PushedIsWell
<1>5. /\ AssemblerOK(r.assembler) /\ r.assembler.transfer_id = a.transfer_id
      /\ At(r.assembler.data, b + (r.assembler.offset - a.offset))
      /\ r.assembler \in AssemblerSet
      /\ r.assembler.offset + Len(r.assembler.data)
             = a.offset + Len(a.data) + FragmentLength(a)
  BY <1>4 DEF PushedWell, AssemblerOK
<1>6. /\ a.offset \in Nat /\ Len(a.data) \in Nat /\ Len(a.data) < ChunkSize
      /\ r.assembler.offset \in Nat
      /\ FragmentLength(a) \in 0 .. FragmentSize
  BY <1>1, <1>5, LenProperties, FragmentLengthBounds DEF AssemblerOK, AssemblerSet
<1>7. Contiguous(r.assembler.data)
  <2>1. b + (r.assembler.offset - a.offset) \in Int
    BY <1>6
  <2> QED BY <1>5, <2>1 DEF Contiguous
<1>8. a.offset = confirmed[a.transfer_id] /\ confirmed[a.transfer_id] \in Nat
  BY <1>2 DEF RelayIInv, Types, Results, InStep
<1>9. UNCHANGED <<canTx, transmitting, sending, dump, issued>> /\ canRx' = Tail(canRx)
  BY DEF Receive
<1>10. \A i \in Id : a.transfer_id = i => ~ Offered(i)
  BY <1>2 DEF RelayIInv, Results, OfferStands
<1>11. ASSUME assembler' = r.assembler, UNCHANGED safetyTx
       PROVE  canRx' \in Seq(Frame) /\ Ordered' /\ Waiting' /\ Stream'
  <2>1. \A i \in 1 .. Len(safetyTx') : /\ safetyTx'[i].opcode = "StopLogDump"
                                       /\ safetyTx'[i].transfer_id <= issued
    BY <1>11 DEF RelayIInv, Ordered
  <2>2. canRx' \in Seq(Frame) /\ Ordered' /\ Waiting'
    BY <1>1, <1>2, <1>5, <1>11, <2>1, Received
  <2>3. Gathering(r.assembler) =>
            /\ r.assembler.expected_sequence # None
            /\ r.assembler.transfer_id = f.transfer_id
            /\ r.assembler.expected_sequence = (f.sequence + 1) % SequenceModulus
            /\ r.assembler.data[Len(r.assembler.data)] + 1 = f.first + FragmentSize
    <3>1. r.assembler.expected_sequence = (f.sequence + 1) % SequenceModulus
      BY <1>4 DEF PushedWell
    <3> QED BY <1>1, <1>2, <1>3, <1>4, <1>5, <3>1, NextIsAwaited
  <2>4. InOrder(r.assembler, Tail(canRx), dump)
    BY <1>1, <2>3, OrderFragmentTaken
  <2> QED BY <1>9, <1>11, <2>2, <2>4 DEF Stream
<1>12. CASE /\ r.chunk = None /\ assembler' = r.assembler
            /\ UNCHANGED <<session, chunks, reported, confirmed, safetyTx>>
  <2>1. r.assembler.offset = a.offset
    BY <1>4, <1>12 DEF PushedWell
  <2>2. Types'
    BY <1>5, <1>9, <1>11, <1>12 DEF RelayIInv, Types
  <2>3. Known' /\ OpenIsOpen' /\ InStep'
    BY <1>2, <1>5, <1>8, <1>9, <1>12, <2>1
       DEF RelayIInv, Results, Known, OpenIsOpen, InStep
  <2>4. OfferStands'
    BY <1>5, <1>10, <1>12 DEF OfferStands, Offered
  <2>5. Whole'
    BY <1>7, <1>12 DEF RelayIInv, Whole
  <2> QED BY <1>11, <1>12, <2>2, <2>3, <2>4, <2>5 DEF RelayIInv, Results
<1>13. CASE /\ r.chunk # None /\ Queueable(r.chunk) /\ QueueChunk(r.chunk)
            /\ assembler' = r.assembler /\ UNCHANGED <<session, reported, safetyTx>>
  <2>1. /\ r.chunk \in ChunkSet /\ r.chunk.transfer_id = a.transfer_id
        /\ r.chunk.offset = a.offset /\ At(r.chunk.data, b)
        /\ r.assembler.offset = a.offset + Len(r.chunk.data)
    BY <1>4, <1>13 DEF PushedWell
  <2>2. /\ chunks' \in Seq(ChunkSet) /\ Len(chunks') <= ChunkCap
        /\ \A c \in 1 .. Len(chunks') : Contiguous(chunks'[c].data)
        /\ confirmed' \in [Id -> Nat]
        /\ confirmed'[a.transfer_id] = r.assembler.offset
    <3>1. Contiguous(r.chunk.data)
      BY <2>1 DEF Contiguous
    <3> QED BY <1>2, <1>13, <2>1, <3>1, ChunkQueued DEF RelayIInv
  <2>3. Types'
    BY <1>5, <1>9, <1>11, <1>13, <2>2 DEF RelayIInv, Types
  <2>4. Known' /\ OpenIsOpen' /\ InStep'
    BY <1>2, <1>5, <1>9, <1>13, <2>2 DEF RelayIInv, Results, Known, OpenIsOpen, InStep
  <2>5. OfferStands'
    BY <1>5, <1>10, <1>13 DEF OfferStands, Offered
  <2>6. Whole'
    BY <1>7, <1>13, <2>2 DEF Whole
  <2> QED BY <1>11, <1>13, <2>3, <2>4, <2>5, <2>6 DEF RelayIInv, Results
<1>14. CASE r.chunk # None /\ FailTransfer(r.assembler, "InternalError")
  <2>1. session # None /\ session.id = r.assembler.transfer_id =>
            ResumeOffset(r.assembler) - confirmed[session.id] \in
                0 .. IF "InternalError" = "ProtocolError" THEN ChunkSize - 1
                     ELSE 2 * ChunkSize - 1
    <3> DEFINE c == confirmed[a.transfer_id]
               l == Len(a.data)
               n == FragmentLength(a)
               e == ResumeOffset(r.assembler)
    <3>1. /\ c \in Nat /\ l \in Nat /\ l < ChunkSize /\ n \in 0 .. FragmentSize
          /\ e = c + l + n
      BY <1>5, <1>6, <1>8, Zenon DEF ResumeOffset
    <3> HIDE DEF c, l, n, e
    <3>2. e - c \in 0 .. 2 * ChunkSize - 1
      BY <3>1, SizesAssumption
    <3>3. ResumeOffset(r.assembler) - confirmed[a.transfer_id] \in 0 .. 2 * ChunkSize - 1
      BY <3>2, Zenon DEF e, c
    <3> QED BY <1>5, <3>3
  <2>2. "InternalError" \in {"ProtocolError", "InternalError"}
    OBVIOUS
  <2> QED BY <1>5, <1>14, <2>1, <2>2, FragmentFailsStep
<1> QED BY <1>12, <1>13, <1>14

LEMMA ReceiveFragmentStep ==
    ASSUME RelayIInv, canRx # <<>>, ReceiveFragment(Head(canRx))
    PROVE  RelayIInv'
<1> DEFINE f == Head(canRx)
           pushed == Pushed(assembler, f)
<1>1. f.kind = "RecoveryLogData" /\ Receive(f) /\ UNCHANGED beacon
  BY DEF ReceiveFragment
<1>2. f \in FragmentSet
  <2>1. f \in Frame
    BY Taken DEF RelayIInv, Types
  <2> QED BY <1>1, <2>1 DEF Frame, StatusSet
<1>3. CASE FailTransfer(IF SequenceGap(assembler, f) THEN AfterGap(assembler)
                        ELSE assembler, "ProtocolError")
  BY <1>1, <1>2, <1>3, FragmentRefusedStep
<1>4. CASE /\ ~ Refused(assembler, f)
           /\ \/ /\ pushed.chunk = None /\ assembler' = pushed.assembler
                 /\ UNCHANGED <<session, chunks, reported, confirmed, safetyTx>>
              \/ /\ pushed.chunk # None /\ Queueable(pushed.chunk)
                 /\ QueueChunk(pushed.chunk) /\ assembler' = pushed.assembler
                 /\ UNCHANGED <<session, reported, safetyTx>>
              \/ pushed.chunk # None /\ FailTransfer(pushed.assembler, "InternalError")
  <2>1. pushed = Pushed(assembler, f) /\ f = Head(canRx)
    OBVIOUS
  <2> HIDE DEF f, pushed
  <2> QED BY <1>1, <1>2, <1>4, <2>1, FragmentAcceptedStep
<1> QED BY <1>3, <1>4, Zenon DEF ReceiveFragment

LEMMA MissionEntersRecoveryStep ==
    ASSUME RelayIInv, MissionEntersRecovery
    PROVE  RelayIInv'
<1>1. /\ UNCHANGED <<session, assembler, chunks, reported, confirmed, sending>>
      /\ UNCHANGED <<canTx, safetyTx, transmitting, canRx, dump, issued>>
      /\ beacon' = TRUE
  BY DEF MissionEntersRecovery, canVars, missionVars
<1>2. Types'
  BY <1>1 DEF RelayIInv, Types
<1>3. Results' /\ Ordered' /\ Whole'
  BY <1>1 DEF RelayIInv, Results, Known, OpenIsOpen, InStep, OfferStands, Offered, Skipped,
              Ordered, Whole
<1>4. Waiting' /\ Stream'
  BY <1>1 DEF RelayIInv, Waiting, Awaited, Stream
<1> QED BY <1>2, <1>3, <1>4 DEF RelayIInv

LEMMA SendChunkStep ==
    ASSUME RelayIInv, SendChunk
    PROVE  RelayIInv'
<1>1. /\ UNCHANGED <<session, assembler, beacon, reported, confirmed, sending>>
      /\ UNCHANGED <<canTx, safetyTx, transmitting, canRx, dump, issued>>
      /\ chunks # <<>> /\ chunks' = Tail(chunks)
  BY DEF SendChunk, canVars, missionVars
<1>2. /\ chunks' \in Seq(ChunkSet) /\ Len(chunks) \in Nat /\ Len(chunks') = Len(chunks) - 1
      /\ \A c \in 1 .. Len(chunks) - 1 : chunks'[c] = chunks[c + 1]
  BY <1>1, HeadTailProperties, LenProperties, EmptySeq DEF RelayIInv, Types
<1>3. Types'
  BY <1>1, <1>2, SizesAssumption DEF RelayIInv, Types
<1>4. Results' /\ Ordered'
  BY <1>1 DEF RelayIInv, Results, Known, OpenIsOpen, InStep, OfferStands, Offered, Skipped,
              Ordered
<1>5. Waiting' /\ Stream'
  BY <1>1 DEF RelayIInv, Waiting, Awaited, Stream
<1>6. Whole'
  <2>1. \A c \in 1 .. Len(chunks') : c + 1 \in 1 .. Len(chunks) /\ chunks'[c] = chunks[c + 1]
    BY <1>2
  <2> QED BY <1>1, <2>1 DEF RelayIInv, Whole
<1> QED BY <1>3, <1>4, <1>5, <1>6 DEF RelayIInv

LEMMA UnchangedStep ==
    ASSUME RelayIInv, UNCHANGED vars
    PROVE  RelayIInv'
<1>1. /\ UNCHANGED <<session, assembler, beacon, chunks, reported, confirmed, sending>>
      /\ UNCHANGED <<canTx, safetyTx, transmitting, canRx, dump, issued>>
  BY DEF vars, relayVars, canVars, missionVars
<1>2. Types'
  BY <1>1 DEF RelayIInv, Types
<1>3. Results' /\ Ordered' /\ Whole'
  BY <1>1 DEF RelayIInv, Results, Known, OpenIsOpen, InStep, OfferStands, Offered, Skipped,
              Ordered, Whole
<1>4. Waiting' /\ Stream'
  BY <1>1 DEF RelayIInv, Waiting, Awaited, Stream
<1> QED BY <1>2, <1>3, <1>4 DEF RelayIInv

LEMMA NextOK ==
    ASSUME RelayIInv, [Next]_vars
    PROVE  RelayIInv'
<1>1. CASE Ground
  <2>1. PICK request \in Requests : \/ RejectCommand(request[1])
                                    \/ StartCommand(request[1], request[2], request[3])
    BY <1>1, Zenon DEF Ground
  <2>2. request[1] \in Opcode /\ request[2] \in Nat /\ request[3] \in Nat
    BY RequestsAssumption
  <2> QED BY <2>1, <2>2, RejectCommandStep, StartCommandStep
<1>2. CASE CommandResume
  BY <1>2, CommandResumeStep
<1>3. CASE MissionSends
  BY <1>3, MissionSendsStep
<1>4. CASE MissionEntersRecovery
  BY <1>4, MissionEntersRecoveryStep
<1>5. CASE SelectTransmit
  BY <1>5, SelectTransmitStep
<1>6. CASE TransmitOk
  BY <1>6, TransmitOkStep
<1>7. CASE TransmitError
  BY <1>7, TransmitErrorStep
<1>8. CASE ReceiveFrame
  <2>1. CASE canRx # <<>> /\ ReceiveStatus(Head(canRx))
    BY <2>1, ReceiveStatusStep
  <2>2. CASE canRx # <<>> /\ ReceiveFragment(Head(canRx))
    BY <2>2, ReceiveFragmentStep
  <2> QED BY <1>8, <2>1, <2>2, Zenon DEF ReceiveFrame
<1>9. CASE SendChunk
  BY <1>9, SendChunkStep
<1>10. CASE UNCHANGED vars
  BY <1>10, UnchangedStep
<1> QED BY <1>1, <1>2, <1>3, <1>4, <1>5, <1>6, <1>7, <1>8, <1>9, <1>10, Zenon
        DEF Next, CanOwner

-----------------------------------------------------------------------------
(* The theorems.                                                           *)

LEMMA RelayIInvAlways == Spec => []RelayIInv
<1>1. RelayIInv /\ [Next]_vars => RelayIInv'
  BY NextOK
<1> QED BY InitOK, <1>1, PTL DEF Spec

\* What is at b + 1, b + 2, ... is as far apart as its positions are.
LEMMA ContiguousIsContiguous ==
    ASSUME NEW data \in Seq(Nat), Contiguous(data)
    PROVE  \A i, j \in DOMAIN data : data[j] - data[i] = j - i
<1>1. PICK b \in Int : At(data, b)
  BY DEF Contiguous
<1>2. DOMAIN data = 1 .. Len(data) /\ Len(data) \in Nat
  BY LenProperties
<1> TAKE i, j \in DOMAIN data
<1>3. data[i] = b + i /\ data[j] = b + j /\ i \in Int /\ j \in Int
  BY <1>1, <1>2 DEF At
<1> QED BY <1>3

LEMMA InvariantImplies ==
    ASSUME RelayIInv
    PROVE  RelayInv /\ ResumeSkipsLittle
<1>1. TypeOK
  BY DEF RelayIInv, Types, AssemblerOK, AssemblerSet, TypeOK
<1>2. AssemblerInStep
  BY DEF RelayIInv, Results, InStep, AssemblerInStep
<1>3. ChunkIsContiguous
  <2> SUFFICES ASSUME NEW c \in DOMAIN chunks
               PROVE  \A i, j \in DOMAIN chunks[c].data :
                          chunks[c].data[j] - chunks[c].data[i] = j - i
    BY DEF ChunkIsContiguous
  <2>1. c \in 1 .. Len(chunks) /\ chunks[c] \in ChunkSet
    BY LenProperties, ElementOfSeq DEF RelayIInv, Types
  <2>2. chunks[c].data \in Seq(Nat) /\ Contiguous(chunks[c].data)
    BY <2>1 DEF ChunkSet, RelayIInv, Whole
  <2> QED BY <2>2, ContiguousIsContiguous
<1>4. ResumeSkipsLittle
  BY DEF RelayIInv, Results, OfferStands, Offered, ResumeSkipsLittle
<1> QED BY <1>1, <1>2, <1>3, <1>4 DEF RelayInv

\* For every size of fragments, chunks, files and queues and however many frames of a
\* dump are lost (fewer in a row than the sequence can tell): push and take_chunk leave
\* no hole and no overlap inside a chunk, and the assembler stands where the chunks
\* queued for its transfer end.
THEOREM RelayIsWhole == Spec => []RelayInv
BY RelayIInvAlways, InvariantImplies, PTL

\* The resume offset that fail_recovery_transfer reports is never before the end of the
\* data queued for the ground, and less than one chunk (after a gap) or two (when a
\* chunk could not be queued) behind it, however the transfers follow each other.
THEOREM ResumeIsSafe == Spec => []ResumeSkipsLittle
BY RelayIInvAlways, InvariantImplies, PTL

\* Who reports on the open command, or on a new one, touches no final report.
LEMMA OnlyOthersKept ==
    ASSUME RelayIInv, NEW told \in SUBSET Id,
           \A i \in Id : i \notin told => reported'[i] = reported[i],
           \A i \in told : \/ i > issued
                           \/ session # None /\ session.id = i
    PROVE  FinalReportStands
<1> SUFFICES ASSUME NEW id \in Id, reported[id] # None, reported[id].phase \in Final
             PROVE  reported'[id] = reported[id]
  BY DEF FinalReportStands
<1>1. id \notin told
  BY DEF RelayIInv, Results, Known, OpenIsOpen
<1> QED BY <1>1

LEMMA ReportOnOne ==
    ASSUME RelayIInv, NEW id \in Id, NEW phase, NEW reason, NEW detail,
           Report(id, phase, reason, detail),
           id > issued \/ (session # None /\ session.id = id)
    PROVE  FinalReportStands
<1>1. \A i \in Id : i \notin {id} => reported'[i] = reported[i]
  BY DEF Report, RelayIInv, Types
<1>2. {id} \in SUBSET Id
  OBVIOUS
<1> QED BY <1>1, <1>2, OnlyOthersKept

LEMMA ReportsKept ==
    ASSUME UNCHANGED reported
    PROVE  FinalReportStands
BY DEF FinalReportStands

LEMMA StatusKeepsFinal ==
    ASSUME RelayIInv, NEW status, ApplyStatus(status)
    PROVE  FinalReportStands
<1>1. CASE ~ Concerns(status)
  BY <1>1, ReportsKept DEF ApplyStatus
<1>2. CASE Concerns(status)
  <2>1. session # None /\ session.id \in Id
    BY <1>2 DEF Concerns, OpenIs, RelayIInv, Types
  <2>2. \E phase, reason, detail : Report(session.id, phase, reason, detail)
    BY <1>2, Zenon DEF ApplyStatus
  <2> QED BY <2>1, <2>2, ReportOnOne
<1> QED BY <1>1, <1>2

LEMMA FailureKeepsFinal ==
    ASSUME RelayIInv, NEW a, NEW reason, FailTransfer(a, reason)
    PROVE  FinalReportStands
<1>1. CASE session = None
  BY <1>1, ReportsKept DEF FailTransfer
<1>2. CASE session # None
  <2>1. session.id \in Id
    BY <1>2 DEF RelayIInv, Types
  <2>2. \E detail : Report(session.id, "Failed", reason, detail)
    BY <1>2, Zenon DEF FailTransfer
  <2> QED BY <1>2, <2>1, <2>2, ReportOnOne
<1> QED BY <1>1, <1>2

LEMMA StartKeepsFinal ==
    ASSUME RelayIInv, NEW opcode, NEW offset, NEW length,
           StartCommand(opcode, offset, length)
    PROVE  FinalReportStands
<1> DEFINE id == issued + 1
           interrupted == IF session = None THEN {} ELSE {session.id}
           failed == [phase |-> "Failed", reason |-> "InterruptedByEmergency",
                      detail |-> 0]
           accepted == [phase |-> "Accepted", reason |-> "None", detail |-> 0]
           told == [i \in Id |-> IF i \in interrupted THEN failed ELSE reported[i]]
           touched == interrupted \cup {id}
<1>1. id \in Id /\ id > issued
  BY SizesAssumption DEF StartCommand, Issue, RelayIInv, Types, Id
<1>2. interrupted \in SUBSET Id
  BY DEF RelayIInv, Types
<1>3. reported' = told \/ reported' = [told EXCEPT ![id] = accepted]
  BY Zenon DEF StartCommand
<1>4. \A i \in Id : i \notin touched => reported'[i] = reported[i]
  BY <1>3
<1>5. \A i \in touched : i > issued \/ (session # None /\ session.id = i)
  BY <1>1
<1> QED BY <1>1, <1>2, <1>4, <1>5, OnlyOthersKept

\* The steps of the CAN owner.
LEMMA CanOwnerKeepsFinal ==
    ASSUME RelayIInv, CanOwner
    PROVE  FinalReportStands
<1>1. CASE SelectTransmit \/ TransmitOk
  BY <1>1, ReportsKept DEF SelectTransmit, TransmitOk, relayVars
<1>2. CASE TransmitError
  <2>1. CASE UNCHANGED reported
    BY <2>1, ReportsKept
  <2>2. CASE /\ OpenIs(transmitting.transfer_id)
             /\ Report(transmitting.transfer_id, "Failed", "Timeout", 0)
    <3>1. session # None /\ session.id = transmitting.transfer_id /\ session.id \in Id
      BY <2>2 DEF OpenIs, RelayIInv, Types
    <3> QED BY <2>2, <3>1, ReportOnOne
  <2> QED BY <1>2, <2>1, <2>2 DEF TransmitError
<1>3. CASE canRx # <<>> /\ ReceiveStatus(Head(canRx))
  <2>1. \/ ApplyStatus(Head(canRx))
        \/ \E a, reason : FailTransfer(a, reason)
    BY <1>3, Zenon DEF ReceiveStatus
  <2> QED BY <2>1, StatusKeepsFinal, FailureKeepsFinal
<1>4. CASE canRx # <<>> /\ ReceiveFragment(Head(canRx))
  <2>1. UNCHANGED reported \/ \E a, reason : FailTransfer(a, reason)
    BY <1>4, Zenon DEF ReceiveFragment
  <2> QED BY <2>1, ReportsKept, FailureKeepsFinal
<1> QED BY <1>1, <1>2, <1>3, <1>4, Zenon DEF CanOwner, ReceiveFrame

LEMMA StepKeepsFinal ==
    ASSUME RelayIInv, Next
    PROVE  FinalReportStands
<1>1. CASE Ground
  <2>1. PICK request \in Requests : \/ RejectCommand(request[1])
                                    \/ StartCommand(request[1], request[2], request[3])
    BY <1>1, Zenon DEF Ground
  <2>2. CASE RejectCommand(request[1])
    <3>1. issued + 1 \in Id /\ issued + 1 > issued
      BY <2>2, SizesAssumption DEF RejectCommand, Issue, RelayIInv, Types, Id
    <3>2. \E reason : Report(issued + 1, "Rejected", reason, 0)
      BY <2>2, Zenon DEF RejectCommand
    <3> QED BY <3>1, <3>2, ReportOnOne
  <2>3. CASE StartCommand(request[1], request[2], request[3])
    BY <2>3, StartKeepsFinal
  <2> QED BY <2>1, <2>2, <2>3
<1>2. CASE CommandResume
  <2> SUFFICES ASSUME NEW id \in Id
               PROVE  reported'[id] = reported[id] \/ LateAcceptance(id)
    BY DEF FinalReportStands
  <2>1. /\ sending # None /\ sending' = None
        /\ Report(sending.transfer_id, "Accepted", "None", 0)
    BY <1>2 DEF CommandResume
  <2>2. CASE sending.transfer_id = id
    BY <2>1, <2>2 DEF LateAcceptance
  <2>3. CASE sending.transfer_id # id
    BY <2>1, <2>3 DEF Report, RelayIInv, Types
  <2> QED BY <2>2, <2>3
<1>3. CASE MissionSends \/ MissionEntersRecovery \/ SendChunk
  BY <1>3, ReportsKept DEF MissionSends, MissionEntersRecovery, SendChunk, relayVars
<1>4. CASE CanOwner
  BY <1>4, CanOwnerKeepsFinal
<1> QED BY <1>1, <1>2, <1>3, <1>4, Zenon DEF Next

\* A command that is reported finished keeps that report: no late status of Mission, no
\* timeout, no stop and no failing transfer of another command overwrites it.  Only
\* process_local, which reports Accepted after it has waited for room in CAN_TX_CHANNEL,
\* may come too late with it.
THEOREM FinalReportsStand == Spec => FinalReportStandsAlways
<1>1. RelayIInv /\ [Next]_vars => [FinalReportStands]_vars
  BY StepKeepsFinal
<1> QED BY <1>1, RelayIInvAlways, PTL DEF Spec, FinalReportStandsAlways
-----------------------------------------------------------------------------
(* Without losses.  What the chunks hold depends on what is still to come: *)
(* the fragments on their way are the next bytes of the file, in front of  *)
(* them is the size of the file, and behind the last one is its Complete.  *)

IsComplete(m, id) == ~ IsFragment(m) /\ m.transfer_id = id /\ m.status = "Complete"

IsSize(m, id) == ~ IsFragment(m) /\ m.transfer_id = id /\ m.total_size = FileSize

\* No fragment between two positions.
Clear(rx, i, j) == \A k \in 1 .. Len(rx) : i < k /\ k < j => ~ IsFragment(rx[k])

\* What follows position i is the byte x of transfer id, and its Complete only when
\* the end is reached.
Comes(id, x, end, rx, i, d) ==
    /\ \A j \in 1 .. Len(rx) : i < j /\ Clear(rx, i, j) =>
           /\ IsFragment(rx[j]) /\ rx[j].transfer_id = id => rx[j].first = x
           /\ IsComplete(rx[j], id) => x >= end
    /\ d # None /\ d.transfer_id = id /\ Clear(rx, i, Len(rx) + 1) => d.first = x

FrameOK(m, n) ==
    /\ m.transfer_id <= n
    /\ IsFragment(m) => m.first < FileSize
    /\ ~ IsFragment(m) =>
           /\ m.total_size \in {0, FileSize}
           /\ m.status = "Complete" => m.opcode = "StartLogDump"
           /\ m.status = "Ready" => m.opcode # "StartLogDump"

\* The frames on their way, of the transfers up to n whose ends are t.
Arriving(rx, d, t, n) ==
    /\ \A i \in 1 .. Len(rx) : FrameOK(rx[i], n)
    /\ d # None => d.end = t[d.transfer_id]
    /\ \A i \in 1 .. Len(rx) : IsFragment(rx[i]) =>
           Comes(rx[i].transfer_id, rx[i].first + FragmentSize, t[rx[i].transfer_id],
                 rx, i, d)

\* The size of the file comes before its bytes.
SizeComes(id, rx, d) ==
    /\ \A j \in 1 .. Len(rx) : IsFragment(rx[j]) /\ rx[j].transfer_id = id =>
           \E k \in 1 .. Len(rx) : k < j /\ IsSize(rx[k], id)
    /\ d # None /\ d.transfer_id = id /\ d.first < d.end =>
           \E k \in 1 .. Len(rx) : IsSize(rx[k], id)

\* An active assembler gets the bytes it needs, and knows the size or will.
Fed(a, rx, d, t) ==
    a.active =>
        /\ ~ ReachedEnd(a) =>
               Comes(a.transfer_id, ResumeOffset(a), t[a.transfer_id], rx, 0, d)
        /\ a.total_size # None => a.total_size >= t[a.transfer_id]
        /\ \/ a.total_size # None /\ a.total_size <= FileSize
           \/ SizeComes(a.transfer_id, rx, d)

\* Bytes at their place in the file.
InFile(data, offset) ==
    /\ At(data, offset - 1)
    /\ data # <<>> => offset + Len(data) <= FileSize

Placed == /\ InFile(assembler.data, assembler.offset)
          /\ \A c \in 1 .. Len(chunks) : InFile(chunks[c].data, chunks[c].offset)

Targets == target \in [Id -> 0 .. FileSize]

\* What a dump on its way to Mission asks for is what is assembled.
AskedFor(c, a, t) ==
    c.opcode = "StartLogDump" =>
        /\ t[c.transfer_id] = RangeEnd(c)
        /\ a.active /\ a.transfer_id = c.transfer_id => a.offset = c.offset

Asked ==
    /\ \A i \in 1 .. Len(canTx) : AskedFor(canTx[i], assembler, target)
    /\ sending # None => AskedFor(sending, assembler, target)
    /\ transmitting # None => AskedFor(transmitting, assembler, target)

\* The open dump is being assembled or has been queued to its end.
Done ==
    session # None =>
        IF session.opcode = "StartLogDump"
        THEN /\ session.id = assembler.transfer_id
             /\ assembler.active \/ confirmed[session.id] >= target[session.id]
        ELSE target[session.id] = 0

LosslessIInv ==
    /\ Targets /\ Asked /\ Arriving(canRx, dump, target, issued)
    /\ Fed(assembler, canRx, dump, target) /\ Placed /\ Done /\ CompletedMeansAll

LEMMA ClearAppended ==
    ASSUME NEW rx \in Seq(Frame), NEW m \in Frame, NEW i \in 0 .. Len(rx)
    PROVE  /\ \A j \in 1 .. Len(rx) + 1 : Clear(Append(rx, m), i, j) => Clear(rx, i, j)
           /\ Clear(Append(rx, m), i, Len(Append(rx, m)) + 1) =>
                  Clear(rx, i, Len(rx) + 1) /\ ~ IsFragment(m)
<1> DEFINE rx2 == Append(rx, m)
<1>1. /\ Len(rx) \in Nat /\ Len(rx2) = Len(rx) + 1 /\ rx2[Len(rx) + 1] = m
      /\ \A k \in 1 .. Len(rx) : rx2[k] = rx[k]
  BY Appended
<1> HIDE DEF rx2
<1>2. ASSUME NEW j \in Int, Clear(rx2, i, j) PROVE Clear(rx, i, j)
  BY <1>1, <1>2 DEF Clear
<1>3. ASSUME Clear(rx2, i, Len(rx2) + 1)
      PROVE  Clear(rx, i, Len(rx) + 1) /\ ~ IsFragment(m)
  <2>1. Clear(rx, i, Len(rx) + 1)
    BY <1>1, <1>3 DEF Clear
  <2>2. Len(rx) + 1 \in 1 .. Len(rx2) /\ i < Len(rx) + 1 /\ Len(rx) + 1 < Len(rx2) + 1
    BY <1>1
  <2> QED BY <1>1, <1>3, <2>1, <2>2 DEF Clear
<1> QED BY <1>2, <1>3 DEF rx2

\* A frame arrives, and Mission goes on with d2.
LEMMA ComesAppended ==
    ASSUME NEW id, NEW x, NEW end, NEW rx \in Seq(Frame), NEW i \in 0 .. Len(rx), NEW d,
           NEW m \in Frame, NEW d2, Comes(id, x, end, rx, i, d),
           Clear(rx, i, Len(rx) + 1) =>
               /\ IsFragment(m) /\ m.transfer_id = id => m.first = x
               /\ IsComplete(m, id) => x >= end
               /\ ~ IsFragment(m) /\ d2 # None /\ d2.transfer_id = id => d2.first = x
    PROVE  Comes(id, x, end, Append(rx, m), i, d2)
<1> DEFINE rx2 == Append(rx, m)
<1>1. /\ Len(rx) \in Nat /\ Len(rx2) = Len(rx) + 1 /\ rx2[Len(rx) + 1] = m
      /\ \A k \in 1 .. Len(rx) : rx2[k] = rx[k]
  BY Appended
<1>2. /\ \A j \in 1 .. Len(rx) + 1 : Clear(rx2, i, j) => Clear(rx, i, j)
      /\ Clear(rx2, i, Len(rx2) + 1) => Clear(rx, i, Len(rx) + 1) /\ ~ IsFragment(m)
  BY ClearAppended
<1> HIDE DEF rx2
<1>3. ASSUME NEW j \in 1 .. Len(rx2), i < j, Clear(rx2, i, j)
      PROVE  /\ IsFragment(rx2[j]) /\ rx2[j].transfer_id = id => rx2[j].first = x
             /\ IsComplete(rx2[j], id) => x >= end
  <2>1. Clear(rx, i, j)
    BY <1>1, <1>2, <1>3
  <2>2. CASE j \in 1 .. Len(rx)
    <3>1. rx2[j] = rx[j]
      BY <1>1, <2>2
    <3> QED BY <1>3, <2>1, <2>2, <3>1 DEF Comes
  <2>3. CASE j = Len(rx) + 1
    BY <1>1, <2>1, <2>3
  <2> QED BY <1>1, <2>2, <2>3
<1>4. d2 # None /\ d2.transfer_id = id /\ Clear(rx2, i, Len(rx2) + 1) => d2.first = x
  BY <1>2
<1>5. Comes(id, x, end, rx2, i, d2)
  BY <1>3, <1>4 DEF Comes
<1> QED BY <1>5 DEF rx2

\* A frame is taken: one before the position, or a status at the front.
LEMMA ComesTaken ==
    ASSUME NEW id, NEW x, NEW end, NEW rx \in Seq(Frame), rx # <<>>,
           NEW i \in 0 .. Len(rx) - 1, NEW d,
           \/ Comes(id, x, end, rx, i + 1, d)
           \/ i = 0 /\ ~ IsFragment(Head(rx)) /\ Comes(id, x, end, rx, 0, d)
    PROVE  Comes(id, x, end, Tail(rx), i, d)
<1> DEFINE rx2 == Tail(rx)
<1>1. /\ Len(rx) \in Nat /\ Len(rx) >= 1 /\ Len(rx2) = Len(rx) - 1 /\ Head(rx) = rx[1]
      /\ \A k \in 1 .. Len(rx) - 1 : rx2[k] = rx[k + 1]
  BY Taken
<1> HIDE DEF rx2
<1>2. PICK p \in 0 .. Len(rx) : /\ Comes(id, x, end, rx, p, d)
                                /\ \/ p = i + 1
                                   \/ p = 0 /\ i = 0 /\ ~ IsFragment(rx[1])
  <2>1. i + 1 \in 0 .. Len(rx) /\ 0 \in 0 .. Len(rx)
    BY <1>1
  <2> QED BY <1>1, <2>1
<1>3. ASSUME NEW j \in 1 .. Len(rx), Clear(rx2, i, j) PROVE Clear(rx, p, j + 1)
  <2> SUFFICES ASSUME NEW k \in 1 .. Len(rx), p < k, k < j + 1
               PROVE  ~ IsFragment(rx[k])
    BY DEF Clear
  <2>1. CASE k = 1
    BY <1>2, <2>1
  <2>2. CASE k # 1
    <3>1. k - 1 \in 1 .. Len(rx2) /\ i < k - 1 /\ k - 1 < j /\ rx2[k - 1] = rx[k]
      <4>1. k - 1 \in 1 .. Len(rx) - 1 /\ rx[(k - 1) + 1] = rx[k]
        BY <1>1, <2>2
      <4> QED BY <1>1, <1>2, <2>2, <4>1
    <3> QED BY <1>3, <3>1 DEF Clear
  <2> QED BY <2>1, <2>2
<1>4. ASSUME NEW j \in 1 .. Len(rx2), i < j, Clear(rx2, i, j)
      PROVE  /\ IsFragment(rx2[j]) /\ rx2[j].transfer_id = id => rx2[j].first = x
             /\ IsComplete(rx2[j], id) => x >= end
  <2>1. j \in 1 .. Len(rx) /\ j + 1 \in 1 .. Len(rx) /\ rx2[j] = rx[j + 1] /\ p < j + 1
    BY <1>1, <1>2, <1>4
  <2>2. Clear(rx, p, j + 1)
    BY <1>3, <1>4, <2>1
  <2> QED BY <1>2, <2>1, <2>2 DEF Comes
<1>5. d # None /\ d.transfer_id = id /\ Clear(rx2, i, Len(rx2) + 1) => d.first = x
  <2>1. Len(rx2) + 1 \in 1 .. Len(rx) /\ (Len(rx2) + 1) + 1 = Len(rx) + 1
    BY <1>1
  <2> QED BY <1>2, <1>3, <2>1 DEF Comes
<1>6. Comes(id, x, end, rx2, i, d)
  BY <1>4, <1>5 DEF Comes
<1> QED BY <1>6 DEF rx2

LEMMA SizeAppended ==
    ASSUME NEW id, NEW rx \in Seq(Frame), NEW d, NEW m \in Frame, NEW d2,
           SizeComes(id, rx, d),
           IsFragment(m) /\ m.transfer_id = id =>
               d # None /\ d.transfer_id = id /\ d.first < d.end,
           d2 # None /\ d2.transfer_id = id /\ d2.first < d2.end =>
               \/ IsSize(m, id)
               \/ d # None /\ d.transfer_id = id /\ d.first < d.end
    PROVE  SizeComes(id, Append(rx, m), d2)
<1> DEFINE rx2 == Append(rx, m)
<1>1. /\ Len(rx) \in Nat /\ Len(rx2) = Len(rx) + 1 /\ rx2[Len(rx) + 1] = m
      /\ \A k \in 1 .. Len(rx) : rx2[k] = rx[k]
  BY Appended
<1> HIDE DEF rx2
<1>2. ASSUME NEW j \in 1 .. Len(rx2), IsFragment(rx2[j]), rx2[j].transfer_id = id
      PROVE  \E k \in 1 .. Len(rx2) : k < j /\ IsSize(rx2[k], id)
  <2>1. \E k \in 1 .. Len(rx) : k < j /\ IsSize(rx[k], id)
    <3>1. CASE j \in 1 .. Len(rx)
      BY <1>1, <1>2, <3>1 DEF SizeComes
    <3>2. CASE j = Len(rx) + 1
      BY <1>1, <1>2, <3>2 DEF SizeComes
    <3> QED BY <1>1, <3>1, <3>2
  <2> QED BY <1>1, <2>1
<1>3. ASSUME d2 # None, d2.transfer_id = id, d2.first < d2.end
      PROVE  \E k \in 1 .. Len(rx2) : IsSize(rx2[k], id)
  <2>1. CASE IsSize(m, id)
    <3>1. Len(rx) + 1 \in 1 .. Len(rx2)
      BY <1>1
    <3> QED BY <1>1, <2>1, <3>1
  <2>2. CASE d # None /\ d.transfer_id = id /\ d.first < d.end
    <3>1. \E k \in 1 .. Len(rx) : IsSize(rx[k], id)
      BY <2>2 DEF SizeComes
    <3> QED BY <1>1, <3>1
  <2> QED BY <1>3, <2>1, <2>2
<1>4. SizeComes(id, rx2, d2)
  BY <1>2, <1>3 DEF SizeComes
<1> QED BY <1>4 DEF rx2

LEMMA SizeTaken ==
    ASSUME NEW id, NEW rx \in Seq(Frame), rx # <<>>, NEW d, SizeComes(id, rx, d),
           ~ IsSize(Head(rx), id)
    PROVE  SizeComes(id, Tail(rx), d)
<1> DEFINE rx2 == Tail(rx)
<1>1. /\ Len(rx) \in Nat /\ Len(rx) >= 1 /\ Len(rx2) = Len(rx) - 1 /\ Head(rx) = rx[1]
      /\ \A k \in 1 .. Len(rx) - 1 : rx2[k] = rx[k + 1]
  BY Taken
<1> HIDE DEF rx2
<1>2. ASSUME NEW k \in 1 .. Len(rx), IsSize(rx[k], id)
      PROVE  k - 1 \in 1 .. Len(rx2) /\ IsSize(rx2[k - 1], id)
  <2>1. k # 1
    BY <1>1, <1>2
  <2>2. k - 1 \in 1 .. Len(rx) - 1 /\ rx[(k - 1) + 1] = rx[k]
    BY <1>1, <2>1
  <2> QED BY <1>1, <1>2, <2>2
<1>3. ASSUME NEW j \in 1 .. Len(rx2), IsFragment(rx2[j]), rx2[j].transfer_id = id
      PROVE  \E k \in 1 .. Len(rx2) : k < j /\ IsSize(rx2[k], id)
  <2>1. j + 1 \in 1 .. Len(rx) /\ rx2[j] = rx[j + 1]
    BY <1>1
  <2>2. PICK k \in 1 .. Len(rx) : k < j + 1 /\ IsSize(rx[k], id)
    BY <1>3, <2>1 DEF SizeComes
  <2>3. k - 1 < j
    BY <2>2
  <2> QED BY <1>2, <2>2, <2>3
<1>4. ASSUME d # None, d.transfer_id = id, d.first < d.end
      PROVE  \E k \in 1 .. Len(rx2) : IsSize(rx2[k], id)
  <2>1. PICK k \in 1 .. Len(rx) : IsSize(rx[k], id)
    BY <1>4 DEF SizeComes
  <2> QED BY <1>2, <2>1
<1>5. SizeComes(id, rx2, d)
  BY <1>3, <1>4 DEF SizeComes
<1> QED BY <1>5 DEF rx2

\* What Mission does when it puts the frame m on the bus: it answers or ends its dump,
\* sends the next fragment, or begins a dump.
Answers(m, d, d2) ==
    /\ ~ IsFragment(m) /\ d2 \in {d, None}
    /\ m.status = "Complete" =>
           /\ d # None /\ d2 = None /\ d.transfer_id = m.transfer_id /\ d.first >= d.end

SendsNext(m, d, d2) ==
    /\ IsFragment(m) /\ d # None /\ d.first < d.end
    /\ m.transfer_id = d.transfer_id /\ m.first = d.first
    /\ d2 # None => /\ d2.transfer_id = d.transfer_id /\ d2.end = d.end
                    /\ d2.first = d.first + FragmentSize

Begins(m, d, d2) ==
    /\ ~ IsFragment(m) /\ m.status # "Complete" /\ m.total_size = FileSize
    /\ d = None /\ d2 # None /\ m.transfer_id = d2.transfer_id

GoesOn(m, d, d2) ==
    \/ d2 \in DumpSet \cup {None} /\ Answers(m, d, d2)
    \/ d2 \in DumpSet /\ SendsNext(m, d, d2)
    \/ d2 \in DumpSet /\ Begins(m, d, d2)

LEMMA ComesOn ==
    ASSUME NEW id, NEW x, NEW end, NEW rx \in Seq(Frame), NEW i \in 0 .. Len(rx),
           NEW d, NEW m \in Frame, NEW d2, Comes(id, x, end, rx, i, d), GoesOn(m, d, d2),
           d # None /\ d.transfer_id = id => d.end = end,
           d = None /\ d2 # None /\ d2.transfer_id = id => d2.first = x
    PROVE  Comes(id, x, end, Append(rx, m), i, d2)
<1>1. ASSUME Clear(rx, i, Len(rx) + 1), d # None, d.transfer_id = id PROVE d.first = x
  BY <1>1 DEF Comes
<1>2. ASSUME Clear(rx, i, Len(rx) + 1)
      PROVE  /\ IsFragment(m) /\ m.transfer_id = id => m.first = x
             /\ IsComplete(m, id) => x >= end
             /\ ~ IsFragment(m) /\ d2 # None /\ d2.transfer_id = id => d2.first = x
  <2>1. CASE Answers(m, d, d2)
    BY <1>1, <1>2, <2>1 DEF Answers, IsComplete
  <2>2. CASE SendsNext(m, d, d2)
    BY <1>1, <1>2, <2>2 DEF SendsNext, IsComplete
  <2>3. CASE Begins(m, d, d2)
    BY <2>3 DEF Begins, IsComplete
  <2> QED BY <2>1, <2>2, <2>3 DEF GoesOn
<1> QED BY <1>2, ComesAppended

LEMMA SizeOn ==
    ASSUME NEW id, NEW rx \in Seq(Frame), NEW d \in DumpSet \cup {None}, NEW m \in Frame,
           NEW d2, SizeComes(id, rx, d), GoesOn(m, d, d2)
    PROVE  SizeComes(id, Append(rx, m), d2)
<1>1. IsFragment(m) /\ m.transfer_id = id =>
          d # None /\ d.transfer_id = id /\ d.first < d.end
  BY DEF GoesOn, Answers, SendsNext, Begins
<1>2. ASSUME d2 # None, d2.transfer_id = id, d2.first < d2.end
      PROVE  \/ IsSize(m, id)
             \/ d # None /\ d.transfer_id = id /\ d.first < d.end
  <2>1. CASE Answers(m, d, d2)
    BY <1>2, <2>1 DEF Answers
  <2>2. CASE d2 \in DumpSet /\ SendsNext(m, d, d2)
    <3>1. d \in DumpSet /\ FragmentSize \in Nat
      BY <2>2, SizesAssumption DEF SendsNext
    <3>2. d.first \in Nat /\ d.end \in Nat
      BY <3>1 DEF DumpSet
    <3> QED BY <1>2, <2>2, <3>1, <3>2 DEF SendsNext
  <2>3. CASE Begins(m, d, d2)
    BY <1>2, <2>3 DEF Begins, IsSize
  <2> QED BY <2>1, <2>2, <2>3 DEF GoesOn
<1> QED BY <1>1, <1>2, SizeAppended

LEMMA ArrivingOn ==
    ASSUME NEW rx \in Seq(Frame), NEW d, NEW m \in Frame, NEW d2, NEW t, NEW n,
           Arriving(rx, d, t, n), FrameOK(m, n), GoesOn(m, d, d2),
           d2 # None => d2.end = t[d2.transfer_id],
           d = None /\ d2 # None =>
               \A k \in 1 .. Len(rx) : IsFragment(rx[k]) => rx[k].transfer_id # d2.transfer_id
    PROVE  Arriving(Append(rx, m), d2, t, n)
<1> DEFINE rx2 == Append(rx, m)
<1>1. /\ Len(rx) \in Nat /\ Len(rx2) = Len(rx) + 1 /\ rx2[Len(rx) + 1] = m
      /\ \A k \in 1 .. Len(rx) : rx2[k] = rx[k]
  BY Appended
<1>2. ASSUME NEW i \in 1 .. Len(rx), IsFragment(rx[i])
      PROVE  Comes(rx[i].transfer_id, rx[i].first + FragmentSize, t[rx[i].transfer_id],
                   rx2, i, d2)
  <2>1. /\ Comes(rx[i].transfer_id, rx[i].first + FragmentSize, t[rx[i].transfer_id],
                 rx, i, d)
        /\ d # None => d.end = t[d.transfer_id]
    BY <1>2 DEF Arriving
  <2>2. d = None /\ d2 # None => d2.transfer_id # rx[i].transfer_id
    BY <1>2
  <2>3. i \in 0 .. Len(rx)
    BY <1>1
  <2> QED BY <2>1, <2>2, <2>3, ComesOn
<1> HIDE DEF rx2
<1>3. ASSUME IsFragment(m)
      PROVE  Comes(m.transfer_id, m.first + FragmentSize, t[m.transfer_id], rx2,
                   Len(rx) + 1, d2)
  <2>1. SendsNext(m, d, d2)
    BY <1>3 DEF GoesOn, Answers, Begins
  <2>2. d2 # None => d2.first = m.first + FragmentSize
    BY <2>1 DEF SendsNext
  <2> QED BY <1>1, <2>2 DEF Comes
<1>4. Arriving(rx2, d2, t, n)
  <2>1. \A i \in 1 .. Len(rx2) : \/ i \in 1 .. Len(rx) /\ rx2[i] = rx[i]
                                 \/ i = Len(rx) + 1 /\ rx2[i] = m
    BY <1>1
  <2>2. ASSUME NEW i \in 1 .. Len(rx2)
        PROVE  /\ FrameOK(rx2[i], n)
               /\ IsFragment(rx2[i]) =>
                      Comes(rx2[i].transfer_id, rx2[i].first + FragmentSize,
                            t[rx2[i].transfer_id], rx2, i, d2)
    <3>1. CASE i \in 1 .. Len(rx) /\ rx2[i] = rx[i]
      BY <1>2, <3>1 DEF Arriving, rx2
    <3>2. CASE i = Len(rx) + 1 /\ rx2[i] = m
      BY <1>3, <3>2
    <3> QED BY <2>1, <3>1, <3>2
  <2> QED BY <2>2 DEF Arriving
<1> QED BY <1>4 DEF rx2

LEMMA FedOn ==
    ASSUME NEW a, NEW rx \in Seq(Frame), NEW d \in DumpSet \cup {None}, NEW m \in Frame,
           NEW d2, NEW t, Fed(a, rx, d, t), GoesOn(m, d, d2),
           d # None => d.end = t[d.transfer_id],
           d = None /\ d2 # None /\ a.active /\ d2.transfer_id = a.transfer_id =>
               d2.first = ResumeOffset(a)
    PROVE  Fed(a, Append(rx, m), d2, t)
<1> SUFFICES ASSUME a.active PROVE Fed(a, Append(rx, m), d2, t)
  BY DEF Fed
<1>1. ASSUME ~ ReachedEnd(a)
      PROVE  Comes(a.transfer_id, ResumeOffset(a), t[a.transfer_id], Append(rx, m), 0, d2)
  <2>1. Comes(a.transfer_id, ResumeOffset(a), t[a.transfer_id], rx, 0, d)
    BY <1>1 DEF Fed
  <2>2. 0 \in 0 .. Len(rx)
    BY LenProperties
  <2> QED BY <2>1, <2>2, ComesOn
<1>2. ASSUME SizeComes(a.transfer_id, rx, d)
      PROVE  SizeComes(a.transfer_id, Append(rx, m), d2)
  BY <1>2, SizeOn
<1> QED BY <1>1, <1>2 DEF Fed

\* The CAN owner takes a frame.
LEMMA ArrivingTaken ==
    ASSUME NEW rx \in Seq(Frame), rx # <<>>, NEW d, NEW t, NEW n, Arriving(rx, d, t, n)
    PROVE  Arriving(Tail(rx), d, t, n)
<1> DEFINE rx2 == Tail(rx)
<1>1. /\ Len(rx) \in Nat /\ Len(rx2) = Len(rx) - 1
      /\ \A k \in 1 .. Len(rx) - 1 : rx2[k] = rx[k + 1]
  BY Taken
<1>2. ASSUME NEW i \in 1 .. Len(rx2)
      PROVE  /\ FrameOK(rx2[i], n)
             /\ IsFragment(rx2[i]) =>
                    Comes(rx2[i].transfer_id, rx2[i].first + FragmentSize,
                          t[rx2[i].transfer_id], rx2, i, d)
  <2>1. i + 1 \in 1 .. Len(rx) /\ rx2[i] = rx[i + 1] /\ i \in 0 .. Len(rx) - 1
    BY <1>1
  <2> HIDE DEF rx2
  <2>2. FrameOK(rx2[i], n)
    BY <2>1 DEF Arriving
  <2>3. ASSUME IsFragment(rx2[i])
        PROVE  Comes(rx2[i].transfer_id, rx2[i].first + FragmentSize,
                     t[rx2[i].transfer_id], rx2, i, d)
    <3>1. Comes(rx2[i].transfer_id, rx2[i].first + FragmentSize,
                t[rx2[i].transfer_id], rx, i + 1, d)
      BY <2>1, <2>3 DEF Arriving
    <3>2. Comes(rx2[i].transfer_id, rx2[i].first + FragmentSize,
                t[rx2[i].transfer_id], Tail(rx), i, d)
      BY <2>1, <3>1, ComesTaken
    <3> QED BY <3>2 DEF rx2
  <2> QED BY <2>2, <2>3
<1> HIDE DEF rx2
<1>3. Arriving(rx2, d, t, n)
  BY <1>2 DEF Arriving
<1> QED BY <1>3 DEF rx2

\* Without a file there are no bytes to come.
LEMMA EmptyFileHasNoBytes ==
    ASSUME NEW rx \in Seq(Frame), NEW d \in DumpSet \cup {None}, NEW n, NEW id,
           NEW t \in [Id -> 0 .. FileSize], Arriving(rx, d, t, n), FileSize = 0
    PROVE  SizeComes(id, rx, d)
<1>1. ASSUME NEW j \in 1 .. Len(rx), IsFragment(rx[j]) PROVE FALSE
  <2>1. rx[j].first \in Nat
    BY <1>1, FrameIsOne DEF FragmentSet
  <2>2. rx[j].first < FileSize
    BY <1>1 DEF Arriving, FrameOK
  <2> QED BY <2>1, <2>2
<1>2. ASSUME d # None, d.first < d.end PROVE FALSE
  <2>1. d.first \in Nat /\ d.transfer_id \in Id
    BY <1>2 DEF DumpSet
  <2>2. d.end \in 0 .. FileSize
    BY <1>2, <2>1 DEF Arriving
  <2> QED BY <1>2, <2>1, <2>2
<1> QED BY <1>1, <1>2 DEF SizeComes

\* A status, which may tell the size, is taken.
LEMMA FedStatusTaken ==
    ASSUME NEW a, AssemblerOK(a), NEW rx \in Seq(Frame), rx # <<>>,
           NEW d \in DumpSet \cup {None}, NEW t \in [Id -> 0 .. FileSize], NEW n,
           Arriving(rx, d, t, n), Fed(a, rx, d, t), NEW status \in StatusSet,
           status = Head(rx)
    PROVE  Fed(WithTotalSize(a, status.transfer_id, status.total_size), Tail(rx), d, t)
<1> DEFINE id == status.transfer_id
           size == status.total_size
           sized == WithTotalSize(a, id, size)
<1>1. /\ AssemblerOK(sized) /\ sized.active = a.active
      /\ sized.transfer_id = a.transfer_id /\ sized.offset = a.offset
      /\ sized.data = a.data
      /\ ReachedEnd(a) => ReachedEnd(sized)
  <2>1. id \in Id /\ size \in Nat
    BY DEF StatusSet
  <2> QED BY <2>1, SizedIsOK
<1>2. SUFFICES ASSUME a.active PROVE Fed(sized, Tail(rx), d, t)
  BY <1>1 DEF Fed
<1>3. /\ a.transfer_id \in Id /\ t[a.transfer_id] \in 0 .. FileSize /\ FileSize \in Nat
      /\ a.total_size \in Nat \cup {None}
  BY <1>2, SizesAssumption DEF AssemblerOK, AssemblerSet
<1>4. ~ IsFragment(Head(rx)) /\ ~ IsFragment(status)
  BY DEF StatusSet, IsFragment
<1>5. size \in {0, FileSize}
  <2>1. FrameOK(rx[1], n) /\ rx[1] = status
    <3>1. 1 \in 1 .. Len(rx) /\ Head(rx) = rx[1]
      BY Taken
    <3> QED BY <3>1 DEF Arriving
  <2> QED BY <1>4, <2>1 DEF FrameOK
<1>6. ASSUME ~ ReachedEnd(sized)
      PROVE  Comes(a.transfer_id, ResumeOffset(sized), t[a.transfer_id], Tail(rx), 0, d)
  <2>1. Comes(a.transfer_id, ResumeOffset(a), t[a.transfer_id], rx, 0, d)
    BY <1>1, <1>2, <1>6 DEF Fed
  <2>2. 0 \in 0 .. Len(rx) - 1
    BY Taken
  <2>3. ResumeOffset(sized) = ResumeOffset(a)
    BY <1>1, Zenon DEF ResumeOffset
  <2> QED BY <1>4, <2>1, <2>2, <2>3, ComesTaken
<1>7. CASE id = a.transfer_id /\ size # 0
  <2>1. sized.total_size = IF a.total_size = None THEN size ELSE Min({a.total_size, size})
    <3>1. sized = [a EXCEPT !.total_size = IF a.total_size = None THEN size
                                           ELSE Min({a.total_size, size})]
      BY <1>2, <1>7, Zenon DEF WithTotalSize
    <3> HIDE DEF sized, size
    <3> QED BY <3>1 DEF AssemblerOK, AssemblerSet
  <2> HIDE DEF sized, size, id
  <2>2. a.total_size # None => a.total_size >= t[a.transfer_id]
    BY <1>2 DEF Fed
  <2>3. /\ sized.total_size \in Nat /\ sized.total_size >= t[a.transfer_id]
        /\ sized.total_size <= FileSize
    <3>1. CASE a.total_size = None
      BY <1>3, <1>5, <1>7, <2>1, <3>1
    <3>2. CASE a.total_size # None
      <4>1. /\ a.total_size \in Int /\ size \in Int
            /\ sized.total_size = Min({a.total_size, size})
        BY <1>3, <1>5, <2>1, <3>2
      <4> QED BY <1>3, <1>5, <1>7, <2>2, <3>2, <4>1, MinOfTwo
    <3> QED BY <3>1, <3>2
  <2>4. sized.total_size # None
    BY <2>3, NoneAssumption
  <2> QED BY <1>1, <1>6, <2>3, <2>4 DEF Fed
<1>8. CASE ~ (id = a.transfer_id /\ size # 0)
  <2>1. sized = a
    BY <1>8, Zenon DEF WithTotalSize
  <2>2. ASSUME SizeComes(a.transfer_id, rx, d)
        PROVE  SizeComes(a.transfer_id, Tail(rx), d)
    <3>1. CASE FileSize = 0
      <4>1. Arriving(Tail(rx), d, t, n) /\ Tail(rx) \in Seq(Frame)
        BY ArrivingTaken, Taken
      <4> QED BY <3>1, <4>1, EmptyFileHasNoBytes
    <3>2. CASE FileSize # 0
      <4>1. ~ IsSize(Head(rx), a.transfer_id)
        BY <1>5, <1>8, <3>2 DEF IsSize
      <4> QED BY <2>2, <4>1, SizeTaken
    <3> QED BY <3>1, <3>2
  <2> HIDE DEF sized
  <2>3. Fed(a, Tail(rx), d, t)
    BY <1>2, <1>6, <2>1, <2>2 DEF Fed
  <2> QED BY <2>1, <2>3
<1> QED BY <1>7, <1>8

\* A fragment of the transfer that is assembled is its next bytes, and the size is known.
LEMMA FragmentIsNext ==
    ASSUME NEW a, AssemblerOK(a), a.active, NEW rx \in Seq(Frame), rx # <<>>,
           NEW d \in DumpSet \cup {None}, NEW t \in [Id -> 0 .. FileSize], Fed(a, rx, d, t),
           IsFragment(Head(rx)), Head(rx).transfer_id = a.transfer_id
    PROVE  /\ ~ ReachedEnd(a) => Head(rx).first = ResumeOffset(a)
           /\ a.total_size \in Nat /\ a.total_size <= FileSize
           /\ a.total_size >= t[a.transfer_id] /\ t[a.transfer_id] \in 0 .. FileSize
<1>1. 1 \in 1 .. Len(rx) /\ Head(rx) = rx[1] /\ Len(rx) \in Nat
  BY Taken
<1>2. a.total_size \in Nat \cup {None} /\ a.transfer_id \in Id
  BY DEF AssemblerOK, AssemblerSet
<1>3. Clear(rx, 0, 1)
  BY DEF Clear
<1>4. ~ ReachedEnd(a) => Head(rx).first = ResumeOffset(a)
  BY <1>1, <1>3 DEF Fed, Comes
<1>5. ~ SizeComes(a.transfer_id, rx, d)
  BY <1>1 DEF SizeComes
<1> QED BY <1>2, <1>4, <1>5 DEF Fed

LEMMA FedFragmentTaken ==
    ASSUME NEW a, AssemblerOK(a), a.active, NEW rx \in Seq(Frame), rx # <<>>,
           NEW d \in DumpSet \cup {None}, NEW t \in [Id -> 0 .. FileSize], NEW n,
           Arriving(rx, d, t, n), Fed(a, rx, d, t), NEW f \in FragmentSet, f = Head(rx),
           f.transfer_id = a.transfer_id, NEW b, NEW r, PushedWell(a, f, b, r)
    PROVE  Fed(r.assembler, Tail(rx), d, t)
<1> DEFINE a2 == r.assembler
<1>1. /\ a2 \in AssemblerSet /\ a2.total_size = a.total_size
      /\ a2.transfer_id = a.transfer_id
      /\ a2.offset + Len(a2.data) = a.offset + Len(a.data) + FragmentLength(a)
  BY DEF PushedWell, AssemblerOK
<1>2. IsFragment(f) /\ IsFragment(Head(rx)) /\ Head(rx).transfer_id = a.transfer_id
  BY DEF IsFragment, FragmentSet
<1>3. /\ ~ ReachedEnd(a) => f.first = ResumeOffset(a)
      /\ a.total_size \in Nat /\ a.total_size <= FileSize
      /\ a.total_size >= t[a.transfer_id]
  BY <1>2, FragmentIsNext
<1>4. a.total_size # None
  BY <1>3, NoneAssumption
<1>5. /\ a \in AssemblerSet /\ a.offset \in Nat /\ Len(a.data) \in Nat
      /\ FragmentLength(a) \in 0 .. FragmentSize /\ FragmentSize \in Nat \ {0}
      /\ ReachedEnd(a) => FragmentLength(a) = 0
      /\ FragmentLength(a) # FragmentSize =>
             a.offset + Len(a.data) + FragmentLength(a) >= a.total_size
  BY FragmentLengthBounds, LenProperties, SizesAssumption DEF AssemblerOK, AssemblerSet
<1> HIDE DEF a2
<1>6. ASSUME ~ ReachedEnd(a2)
      PROVE  Comes(a2.transfer_id, ResumeOffset(a2), t[a2.transfer_id], Tail(rx), 0, d)
  <2>1. ~ a2.offset + Len(a2.data) >= a2.total_size
    BY <1>1, <1>4, <1>6 DEF ReachedEnd
  <2>2. FragmentLength(a) = FragmentSize
    BY <1>1, <1>5, <2>1
  <2>3. f.first = a.offset + Len(a.data)
    <3>1. ~ ReachedEnd(a)
      BY <1>5, <2>2
    <3> QED BY <1>3, <3>1 DEF ResumeOffset
  <2>4. ResumeOffset(a2) = f.first + FragmentSize
    BY <1>1, <2>2, <2>3, Zenon DEF ResumeOffset
  <2>5. 1 \in 1 .. Len(rx) /\ f = rx[1] /\ 0 \in 0 .. Len(rx) - 1 /\ 0 + 1 = 1
    BY Taken
  <2>6. Comes(f.transfer_id, f.first + FragmentSize, t[f.transfer_id], rx, 0 + 1, d)
    BY <1>2, <2>5 DEF Arriving
  <2>7. Comes(f.transfer_id, f.first + FragmentSize, t[f.transfer_id], Tail(rx), 0, d)
    BY <2>5, <2>6, ComesTaken
  <2> QED BY <1>1, <2>4, <2>7
<1>7. Fed(a2, Tail(rx), d, t)
  BY <1>1, <1>3, <1>4, <1>6 DEF Fed
<1> QED BY <1>7 DEF a2

\* What is gathered and queued of it is at its place in the file.
LEMMA FragmentPlaced ==
    ASSUME NEW a, AssemblerOK(a), NEW f, NEW r, PushedWell(a, f, a.offset - 1, r),
           InFile(a.data, a.offset), a.total_size \in Nat, a.total_size <= FileSize
    PROVE  /\ InFile(r.assembler.data, r.assembler.offset)
           /\ r.chunk # None => InFile(r.chunk.data, r.chunk.offset)
<1> DEFINE l == Len(a.data)
           o == a.offset
           n == FragmentLength(a)
           o2 == r.assembler.offset
           l2 == Len(r.assembler.data)
           q == Len(r.chunk.data)
<1>1. /\ a.data \in Seq(Nat) /\ r.assembler.data \in Seq(Nat) /\ l \in Nat /\ o \in Nat
      /\ n \in Nat /\ o2 \in Nat /\ l2 \in Nat /\ FileSize \in Nat
      /\ n # 0 => o + l + n <= a.total_size
  <2>1. a.total_size # None /\ a \in AssemblerSet /\ r.assembler \in AssemblerSet
    BY NoneAssumption DEF AssemblerOK, PushedWell
  <2>2. /\ n \in 0 .. FragmentSize
        /\ n # 0 => o + l + n <= a.total_size
    BY <2>1, FragmentLengthBounds
  <2> QED BY <2>1, <2>2, LenProperties, SizesAssumption DEF AssemblerSet
<1>2. /\ o2 + l2 = o + l + n /\ At(r.assembler.data, (o - 1) + (o2 - o))
      /\ r.chunk = None => o2 = o
      /\ r.chunk # None =>
             /\ r.chunk \in ChunkSet /\ r.chunk.offset = o /\ At(r.chunk.data, o - 1)
             /\ o2 = o + q
  BY DEF PushedWell
<1>3. r.chunk # None => r.chunk.data \in Seq(Nat) /\ q \in Nat
  BY <1>2, LenProperties DEF ChunkSet
<1>4. l # 0 => o + l <= FileSize
  <2>1. l # 0 => a.data # <<>>
    BY <1>1
  <2> QED BY <2>1 DEF InFile
<1>5. \/ o2 + l2 <= FileSize
      \/ l2 = 0 /\ o2 = o
  <2>1. o2 >= o
    BY <1>1, <1>2, <1>3
  <2> HIDE DEF l, n, o2, l2, q
  <2>2. CASE n # 0
    BY <1>1, <1>2, <2>2
  <2>3. CASE n = 0
    BY <1>1, <1>2, <1>4, <2>1, <2>3
  <2> QED BY <2>2, <2>3
<1>6. InFile(r.assembler.data, r.assembler.offset)
  <2>1. At(r.assembler.data, o2 - 1)
    <3>1. (o - 1) + (o2 - o) = o2 - 1
      BY <1>1
    <3> QED BY <1>2, <3>1
  <2>2. r.assembler.data # <<>> => l2 # 0
    BY <1>1, EmptySeq
  <2> QED BY <1>5, <2>1, <2>2 DEF InFile
<1>7. ASSUME r.chunk # None PROVE InFile(r.chunk.data, r.chunk.offset)
  <2>1. r.chunk.data # <<>> => q # 0
    BY <1>3, <1>7, EmptySeq
  <2>2. q # 0 => o + q <= FileSize
    <3>1. o2 = o + q /\ q \in Nat
      BY <1>2, <1>3, <1>7
    <3> HIDE DEF o2, l2, q
    <3> QED BY <1>1, <1>5, <3>1
  <2> QED BY <1>2, <1>7, <2>1, <2>2 DEF InFile
<1> QED BY <1>6, <1>7

\* A new command disturbs no frame on its way.
LEMMA ArrivingLater ==
    ASSUME NEW rx \in Seq(Frame), NEW d \in DumpSet \cup {None}, NEW t, NEW n \in Nat,
           NEW t2, NEW n2 \in Nat, n <= n2, Arriving(rx, d, t, n),
           d # None => d.transfer_id <= n, \A i \in Id : i <= n => t2[i] = t[i]
    PROVE  Arriving(rx, d, t2, n2)
<1>1. d # None => d.end = t2[d.transfer_id]
  BY DEF Arriving, DumpSet
<1>2. ASSUME NEW i \in 1 .. Len(rx)
      PROVE  /\ FrameOK(rx[i], n2)
             /\ IsFragment(rx[i]) =>
                    Comes(rx[i].transfer_id, rx[i].first + FragmentSize,
                          t2[rx[i].transfer_id], rx, i, d)
  <2>1. /\ FrameOK(rx[i], n)
        /\ IsFragment(rx[i]) =>
               Comes(rx[i].transfer_id, rx[i].first + FragmentSize,
                     t[rx[i].transfer_id], rx, i, d)
    BY DEF Arriving
  <2>2. rx[i].transfer_id \in Id /\ rx[i].transfer_id \in Nat
    BY FrameIsOne, SizesAssumption DEF FragmentSet, StatusSet, Id
  <2>3. rx[i].transfer_id <= n
    BY <2>1 DEF FrameOK
  <2>4. t2[rx[i].transfer_id] = t[rx[i].transfer_id] /\ rx[i].transfer_id <= n2
    BY <2>2, <2>3
  <2> QED BY <2>1, <2>4 DEF FrameOK
<1> QED BY <1>1, <1>2 DEF Arriving

LEMMA LosslessInit == Init => LosslessIInv
<1> SUFFICES ASSUME Init PROVE LosslessIInv
  OBVIOUS
<1>1. Len(<<>>) = 0 /\ 0 \in 0 .. FileSize
  BY SizesAssumption
<1>2. Idle.active = FALSE /\ Idle.data = <<>>
  BY DEF Idle
<1>3. Targets /\ Asked /\ Done /\ CompletedMeansAll
  BY <1>1 DEF Init, Targets, Asked, Done, CompletedMeansAll
<1>4. Arriving(canRx, dump, target, issued) /\ Fed(assembler, canRx, dump, target)
  BY <1>1, <1>2 DEF Init, Arriving, Fed
<1>5. Placed
  BY <1>1, <1>2 DEF Init, Placed, InFile, At
<1> QED BY <1>3, <1>4, <1>5 DEF LosslessIInv

LEMMA RejectCommandLossless ==
    ASSUME RelayIInv, LosslessIInv, NEW opcode, RejectCommand(opcode)
    PROVE  LosslessIInv'
<1> DEFINE id == issued + 1
<1>1. /\ issued \in Nat /\ issued' = id /\ id \in Id /\ issued <= issued' /\ issued' \in Nat
  BY SizesAssumption DEF RelayIInv, Types, RejectCommand, Issue, Id
<1>2. /\ UNCHANGED <<session, assembler, chunks, confirmed, sending, target>>
      /\ UNCHANGED <<canTx, transmitting, canRx, dump>>
  BY DEF RejectCommand, canVars, missionVars
<1>3. Arriving(canRx, dump, target, issued')
  BY <1>1, ArrivingLater DEF LosslessIInv, RelayIInv, Types, Waiting
<1>4. CompletedMeansAll'
  <2>1. PICK r \in ReportSet : /\ r.phase = "Rejected"
                               /\ reported' = [reported EXCEPT ![id] = r]
    <3>1. PICK reason \in {"InvalidState", "Busy"} : Report(id, "Rejected", reason, 0)
      BY DEF RejectCommand
    <3>2. "Rejected" \in Phase /\ reason \in Reason /\ 0 \in Nat
      BY DEF Phase, Reason
    <3>3. \E r \in ReportSet : /\ Told(r, "Rejected", reason, 0)
                               /\ reported' = [reported EXCEPT ![id] = r]
      BY <3>1, <3>2, ReportTells
    <3> QED BY <3>3 DEF Told
  <2>2. \A i \in Id : reported'[i] = IF i = id THEN r ELSE reported[i]
    BY <1>1, <2>1 DEF RelayIInv, Types
  <2> QED BY <1>2, <2>1, <2>2 DEF LosslessIInv, CompletedMeansAll
<1>5. Targets' /\ Asked' /\ Placed' /\ Done'
  BY <1>2 DEF LosslessIInv, Targets, Asked, Placed, Done
<1>6. Fed(assembler, canRx, dump, target)'
  BY <1>2 DEF LosslessIInv
<1> QED BY <1>2, <1>3, <1>4, <1>5, <1>6 DEF LosslessIInv

\* Where the range ends that a control asks for.
LEMMA RangeEndBounds ==
    ASSUME NEW c \in ControlSet
    PROVE  /\ RangeEnd(c) \in 0 .. FileSize
           /\ c.length # 0 => RangeEnd(c) <= c.offset + c.length
<1>1. c.offset + c.length \in Nat /\ FileSize \in Nat
  BY SizesAssumption DEF ControlSet
<1>2. CASE c.length = 0
  BY <1>1, <1>2 DEF RangeEnd
<1>3. CASE c.length # 0
  <2> DEFINE e == c.offset + c.length
  <2>1. RangeEnd(c) = Min({FileSize, e})
    BY <1>3 DEF RangeEnd
  <2> HIDE DEF e
  <2>2. RangeEnd(c) = IF FileSize <= e THEN FileSize ELSE e
    BY <1>1, <2>1, MinOfTwo DEF e
  <2>3. RangeEnd(c) \in 0 .. FileSize /\ RangeEnd(c) <= e
    BY <1>1, <2>2 DEF e
  <2> QED BY <2>3 DEF e
<1> QED BY <1>2, <1>3

\* A new dump: nothing of it is on its way.
LEMMA FedStarted ==
    ASSUME NEW id \in Id, NEW offset \in Nat, NEW length \in Nat, NEW rx \in Seq(Frame),
           NEW d \in DumpSet \cup {None}, NEW t \in [Id -> 0 .. FileSize], NEW n \in Nat,
           Arriving(rx, d, t, n), d # None => d.transfer_id <= n, n < id,
           length # 0 => t[id] <= offset + length
    PROVE  Fed(Started(id, offset, length), rx, d, t)
<1> DEFINE a == Started(id, offset, length)
<1>1. /\ a.transfer_id = id
      /\ a.total_size = IF length = 0 THEN None ELSE offset + length
  BY DEF Started
<1>2. id \in Nat /\ d # None => d.transfer_id # id
  BY DEF Id, DumpSet
<1>3. ASSUME NEW j \in 1 .. Len(rx) PROVE rx[j].transfer_id # id
  <2>1. rx[j].transfer_id <= n
    BY DEF Arriving, FrameOK
  <2>2. rx[j].transfer_id \in Int /\ id \in Int
    BY FrameIsOne DEF FragmentSet, StatusSet, Id
  <2> QED BY <2>1, <2>2
<1>4. \A x, end : Comes(id, x, end, rx, 0, d)
  BY <1>2, <1>3 DEF Comes, IsComplete
<1>5. SizeComes(id, rx, d)
  BY <1>2, <1>3 DEF SizeComes
<1>6. a.total_size # None => a.total_size >= t[id]
  BY <1>1
<1> HIDE DEF a
<1>7. Fed(a, rx, d, t)
  BY <1>1, <1>4, <1>5, <1>6 DEF Fed
<1> QED BY <1>7 DEF a

LEMMA StartCommandLossless ==
    ASSUME RelayIInv, LosslessIInv, NEW opcode \in Opcode, NEW offset \in Nat,
           NEW length \in Nat, StartCommand(opcode, offset, length)
    PROVE  LosslessIInv'
<1> DEFINE id == issued + 1
           control == Control(opcode, id, offset, length)
           end == IF opcode = "StartLogDump" THEN RangeEnd(control) ELSE 0
           failed == [phase |-> "Failed", reason |-> "InterruptedByEmergency",
                      detail |-> 0]
           accepted == [phase |-> "Accepted", reason |-> "None", detail |-> 0]
           interrupted == IF session = None THEN {} ELSE {session.id}
           told == [i \in Id |-> IF i \in interrupted THEN failed ELSE reported[i]]
<1>1. /\ issued \in Nat /\ issued' = id /\ id \in Id /\ issued <= issued' /\ issued' \in Nat
      /\ issued < id /\ sending = None /\ MaxCommands \in Nat
  BY SizesAssumption DEF RelayIInv, Types, StartCommand, Issue, Id
<1>2. /\ UNCHANGED <<chunks, transmitting, canRx, dump>>
      /\ session' = [id |-> id, opcode |-> opcode]
      /\ confirmed' = [confirmed EXCEPT ![id] = offset]
      /\ target' = [target EXCEPT ![id] = end]
  BY Zenon DEF StartCommand, missionVars
<1>3. /\ control \in ControlSet /\ control.transfer_id = id /\ control.opcode = opcode
      /\ control.offset = offset /\ control.length = length
  BY <1>1 DEF ControlSet, Control
<1>4. \/ /\ canTx' = Append(canTx, control) /\ sending' = sending
         /\ reported' = [told EXCEPT ![id] = accepted]
      \/ canTx' = canTx /\ sending' = control /\ reported' = told
  BY Zenon DEF StartCommand
<1>5. \A i \in Id : reported'[i] # None /\ reported'[i].phase = "Completed" =>
                        i # id /\ reported'[i] = reported[i]
  <2>1. reported[id] = None /\ (session # None => session.id # id)
    BY <1>1 DEF RelayIInv, Types, Results, Known, Id
  <2>2. accepted.phase # "Completed" /\ failed.phase # "Completed"
    OBVIOUS
  <2> HIDE DEF failed, accepted
  <2>3. \A i \in Id : told[i] = IF i \in interrupted THEN failed ELSE reported[i]
    OBVIOUS
  <2>4. told[id] = None /\ told = [i \in Id |-> told[i]]
    BY <1>1, <2>1
  <2>5. \A i \in Id : told[i] = reported[i] \/ told[i] = failed
    BY <2>3
  <2> HIDE DEF told, interrupted
  <2>6. \A i \in Id : \/ reported'[i] = told[i]
                      \/ i = id /\ reported'[i] \in {None, accepted}
    BY <1>1, <1>4, <2>4
  <2> QED BY <2>1, <2>2, <2>4, <2>5, <2>6
<1> HIDE DEF told, failed, accepted, interrupted
<1>6. end \in 0 .. FileSize /\ (opcode = "StartLogDump" => end = RangeEnd(control))
  BY <1>3, RangeEndBounds, SizesAssumption
<1> HIDE DEF control, end
<1>7. /\ target' \in [Id -> 0 .. FileSize] /\ target'[id] = end
      /\ \A i \in Id : i # id => target'[i] = target[i]
  BY <1>1, <1>2, <1>6 DEF LosslessIInv, Targets
<1>8. Arriving(canRx, dump, target', issued')
  <2>1. \A i \in Id : i <= issued => target'[i] = target[i]
    BY <1>1, <1>7
  <2> QED BY <1>1, <2>1, ArrivingLater DEF LosslessIInv, RelayIInv, Types, Waiting
<1>9. /\ opcode = "StopLogDump" => assembler' = Aborted(assembler)
      /\ opcode = "StartLogDump" => assembler' = Started(id, offset, length)
      /\ opcode \notin {"StopLogDump", "StartLogDump"} => assembler' = assembler
  BY DEF StartCommand
<1>10. /\ AssemblerOK(assembler) /\ assembler \in AssemblerSet
       /\ assembler.transfer_id <= issued /\ assembler.transfer_id \in Id \cup {0}
  BY DEF RelayIInv, Types, Results, Known, AssemblerOK, AssemblerSet
<1>11. \/ /\ opcode = "StopLogDump" /\ assembler'.active = FALSE /\ assembler'.data = <<>>
       \/ /\ opcode = "StartLogDump" /\ assembler'.active = TRUE /\ assembler'.data = <<>>
          /\ assembler'.transfer_id = id /\ assembler'.offset = offset
       \/ opcode \notin {"StopLogDump", "StartLogDump"} /\ assembler' = assembler
  <2>1. CASE opcode = "StopLogDump"
    BY <1>9, <1>10, <2>1, AbortedIsOK
  <2>2. CASE opcode = "StartLogDump"
    <3>1. /\ Started(id, offset, length).active = TRUE
          /\ Started(id, offset, length).transfer_id = id
          /\ Started(id, offset, length).data = <<>>
          /\ Started(id, offset, length).offset = offset
      BY DEF Started
    <3> QED BY <1>9, <2>2, <3>1
  <2>3. CASE opcode \notin {"StopLogDump", "StartLogDump"}
    BY <1>9, <2>3
  <2> QED BY <2>1, <2>2, <2>3
<1>12. Fed(assembler', canRx, dump, target')
  <2>1. CASE opcode = "StopLogDump"
    BY <1>11, <2>1 DEF Fed
  <2>2. CASE opcode = "StartLogDump"
    <3>1. length # 0 => target'[id] <= offset + length
      BY <1>3, <1>6, <1>7, <2>2, RangeEndBounds
    <3>2. Arriving(canRx, dump, target', issued)
      <4>1. /\ Arriving(canRx, dump, target, issued) /\ issued <= issued
            /\ \A i \in Id : i <= issued => target'[i] = target[i]
        BY <1>1, <1>7 DEF LosslessIInv
      <4> QED BY <1>1, <4>1, ArrivingLater DEF RelayIInv, Types, Waiting
    <3>3. /\ canRx \in Seq(Frame) /\ dump \in DumpSet \cup {None}
          /\ dump # None => dump.transfer_id <= issued
      BY DEF RelayIInv, Types, Waiting
    <3>4. Fed(Started(id, offset, length), canRx, dump, target')
      <4> HIDE DEF id
      <4> QED BY <1>1, <1>7, <3>1, <3>2, <3>3, FedStarted
    <3> QED BY <1>9, <2>2, <3>4
  <2>3. CASE opcode \notin {"StopLogDump", "StartLogDump"}
    <3>1. assembler.active => target'[assembler.transfer_id] = target[assembler.transfer_id]
      BY <1>1, <1>7, <1>10 DEF AssemblerOK
    <3> QED BY <1>9, <2>3, <3>1 DEF LosslessIInv, Fed
  <2> QED BY <2>1, <2>2, <2>3
<1>13. Asked'
  <2>1. ASSUME NEW c \in ControlSet, AskedFor(c, assembler, target), c.transfer_id <= issued
        PROVE  AskedFor(c, assembler', target')
    <3>1. c.transfer_id \in Id /\ c.transfer_id # id
      BY <1>1, <2>1 DEF ControlSet, Id
    <3> QED BY <1>7, <1>11, <2>1, <3>1 DEF AskedFor
  <2>2. AskedFor(control, assembler', target')
    BY <1>1, <1>3, <1>6, <1>7, <1>11 DEF AskedFor
  <2>3. /\ transmitting # None => AskedFor(transmitting, assembler', target')
        /\ \A i \in 1 .. Len(canTx) : AskedFor(canTx[i], assembler', target')
    BY <2>1, ControlsAreTyped DEF LosslessIInv, Asked, RelayIInv, Ordered
  <2>4. CASE canTx' = Append(canTx, control) /\ sending' = sending
    <3>1. /\ Len(canTx') = Len(canTx) + 1 /\ canTx'[Len(canTx) + 1] = control
          /\ \A i \in 1 .. Len(canTx) : canTx'[i] = canTx[i]
          /\ Len(canTx) \in Nat
      BY <1>3, <2>4, ControlsAppended DEF RelayIInv, Types
    <3>2. \A i \in 1 .. Len(canTx') : AskedFor(canTx'[i], assembler', target')
      BY <2>2, <2>3, <3>1
    <3>3. sending' = None /\ transmitting' = transmitting
      BY <1>1, <1>2, <2>4
    <3> QED BY <2>3, <3>2, <3>3 DEF Asked
  <2>5. CASE canTx' = canTx /\ sending' = control
    BY <1>2, <2>2, <2>3, <2>5 DEF Asked
  <2> QED BY <1>4, <2>4, <2>5
<1>14. Placed'
  <2>1. InFile(assembler'.data, assembler'.offset)
    <3>1. CASE assembler'.data = <<>>
      <4>1. Len(assembler'.data) = 0
        BY <3>1
      <4> QED BY <3>1, <4>1 DEF InFile, At
    <3>2. CASE assembler' = assembler
      BY <3>2 DEF LosslessIInv, Placed
    <3> QED BY <1>11, <3>1, <3>2
  <2> QED BY <1>2, <2>1 DEF LosslessIInv, Placed
<1>15. Done'
  <2>1. session'.id = id /\ session'.opcode = opcode
    BY <1>2
  <2>2. opcode # "StartLogDump" => end = 0
    BY DEF end
  <2>3. opcode = "StartLogDump" => assembler'.active /\ assembler'.transfer_id = id
    BY <1>11
  <2> QED BY <1>7, <2>1, <2>2, <2>3 DEF Done
<1>16. CompletedMeansAll'
  <2>1. \A i \in Id : i # id => confirmed'[i] = confirmed[i]
    BY <1>1, <1>2 DEF RelayIInv, Types
  <2> QED BY <1>5, <1>7, <2>1 DEF LosslessIInv, CompletedMeansAll
<1>17. Targets'
  BY <1>7 DEF Targets
<1> QED BY <1>2, <1>8, <1>12, <1>13, <1>14, <1>15, <1>16, <1>17 DEF LosslessIInv

LEMMA CommandResumeLossless ==
    ASSUME RelayIInv, LosslessIInv, CommandResume
    PROVE  LosslessIInv'
<1> DEFINE id == sending.transfer_id
<1>1. /\ sending # None /\ sending \in ControlSet /\ id \in Id
      /\ canTx' = Append(canTx, sending) /\ sending' = None
      /\ UNCHANGED <<session, assembler, chunks, confirmed, transmitting, canRx, dump,
                     issued, target>>
  BY DEF CommandResume, RelayIInv, Types, ControlSet, missionVars
<1>2. PICK r \in ReportSet : /\ r.phase = "Accepted"
                             /\ reported' = [reported EXCEPT ![id] = r]
  <2>1. "Accepted" \in Phase /\ "None" \in Reason /\ 0 \in Nat
    BY DEF Phase, Reason
  <2>2. Report(id, "Accepted", "None", 0)
    BY DEF CommandResume
  <2> HIDE DEF id
  <2>3. \E r \in ReportSet : /\ Told(r, "Accepted", "None", 0)
                             /\ reported' = [reported EXCEPT ![id] = r]
    BY <2>1, <2>2, ReportTells
  <2> QED BY <2>3 DEF Told
<1>3. \A i \in Id : reported'[i] = IF i = id THEN r ELSE reported[i]
  BY <1>1, <1>2 DEF RelayIInv, Types
<1> HIDE DEF id
<1>4. CompletedMeansAll'
  BY <1>1, <1>2, <1>3 DEF LosslessIInv, CompletedMeansAll
<1>5. Asked'
  <2>1. /\ Len(canTx') = Len(canTx) + 1 /\ canTx'[Len(canTx) + 1] = sending
        /\ \A i \in 1 .. Len(canTx) : canTx'[i] = canTx[i]
        /\ Len(canTx) \in Nat
    BY <1>1, ControlsAppended DEF RelayIInv, Types
  <2>2. /\ AskedFor(sending, assembler, target)
        /\ \A i \in 1 .. Len(canTx) : AskedFor(canTx[i], assembler, target)
    BY <1>1 DEF LosslessIInv, Asked
  <2>3. \A i \in 1 .. Len(canTx') : AskedFor(canTx'[i], assembler, target)
    BY <2>1, <2>2
  <2> QED BY <1>1, <2>3 DEF LosslessIInv, Asked
<1>6. Targets' /\ Placed' /\ Done'
  BY <1>1 DEF LosslessIInv, Targets, Placed, Done
<1> QED BY <1>1, <1>4, <1>5, <1>6 DEF LosslessIInv

LEMMA SelectTransmitLossless ==
    ASSUME RelayIInv, LosslessIInv, SelectTransmit
    PROVE  LosslessIInv'
<1>1. UNCHANGED <<session, assembler, chunks, reported, confirmed, sending, canRx, dump,
                  issued, target>>
  BY DEF SelectTransmit, relayVars, missionVars
<1>2. Asked'
  <2>1. CASE /\ safetyTx # <<>> /\ transmitting' = Head(safetyTx) /\ canTx' = canTx
    <3>1. transmitting'.opcode = "StopLogDump"
      <4>1. Head(safetyTx) = safetyTx[1] /\ 1 \in 1 .. Len(safetyTx)
        BY <2>1, ControlsTaken DEF RelayIInv, Types
      <4> QED BY <2>1, <4>1 DEF RelayIInv, Ordered
    <3> QED BY <1>1, <2>1, <3>1 DEF LosslessIInv, Asked, AskedFor
  <2>2. CASE /\ canTx # <<>> /\ transmitting' = Head(canTx) /\ canTx' = Tail(canTx)
    <3>1. /\ Head(canTx) = canTx[1] /\ 1 \in 1 .. Len(canTx)
          /\ \A i \in 1 .. Len(canTx') : i + 1 \in 1 .. Len(canTx) /\ canTx'[i] = canTx[i + 1]
      BY <2>2, ControlsTaken DEF RelayIInv, Types
    <3>2. \A i \in 1 .. Len(canTx) : AskedFor(canTx[i], assembler, target)
      BY DEF LosslessIInv, Asked
    <3>3. /\ AskedFor(transmitting', assembler, target)
          /\ \A i \in 1 .. Len(canTx') : AskedFor(canTx'[i], assembler, target)
      BY <2>2, <3>1, <3>2
    <3> QED BY <1>1, <3>3 DEF LosslessIInv, Asked
  <2> QED BY <2>1, <2>2 DEF SelectTransmit
<1>3. Targets' /\ Placed' /\ Done' /\ CompletedMeansAll'
  BY <1>1 DEF LosslessIInv, Targets, Placed, Done, CompletedMeansAll
<1> QED BY <1>1, <1>2, <1>3 DEF LosslessIInv

\* Mission obeys the control c: without losses its answer is on its way.
LEMMA ObeyedGoesOn ==
    ASSUME ~ Lossy, Types, NEW c \in ControlSet, c.transfer_id <= issued, MissionObeys(c)
    PROVE  \E m \in Frame :
               /\ canRx' = Append(canRx, m) /\ FrameOK(m, issued)
               /\ GoesOn(m, dump, dump') /\ dump' \in DumpSet \cup {None}
               /\ dump = None /\ dump' # None =>
                      /\ c.opcode = "StartLogDump" /\ dump'.transfer_id = c.transfer_id
                      /\ dump'.first = c.offset /\ dump'.end = RangeEnd(c)
               /\ dump # None => dump' \in {dump, None}
<1>1. c.opcode \in Opcode /\ c.transfer_id \in Id /\ c.offset \in Nat /\ c.length \in Nat
  BY DEF ControlSet
<1>2. dump \in DumpSet \cup {None}
  BY DEF Types
<1>3. ASSUME NEW opcode \in Opcode, NEW status \in StatusCode, NEW size \in {0, FileSize},
             status \notin {"Dumping", "Complete"} => size = 0, status # "Complete",
             status = "Ready" => opcode # "StartLogDump",
             Arrive(Status(opcode, c.transfer_id, status, size))
      PROVE  \E m \in Frame :
                 /\ canRx' = Append(canRx, m) /\ FrameOK(m, issued) /\ ~ IsFragment(m)
                 /\ m.status # "Complete" /\ m.total_size = size
                 /\ m.transfer_id = c.transfer_id
  <2> DEFINE m == Status(opcode, c.transfer_id, status, size)
  <2>1. size \in Nat
    BY SizesAssumption
  <2>2. m \in Frame /\ ~ IsFragment(m)
    BY <1>1, <1>3, <2>1, StatusIsStatus
  <2>3. /\ m.transfer_id = c.transfer_id /\ m.status = status /\ m.total_size = size
        /\ m.opcode = opcode
    BY DEF Status
  <2>4. canRx' = Append(canRx, m)
    BY <1>3 DEF Arrive, Buffered
  <2> HIDE DEF m
  <2>5. FrameOK(m, issued)
    BY <1>3, <2>2, <2>3 DEF FrameOK
  <2> QED BY <1>3, <2>2, <2>3, <2>4, <2>5
<1>4. /\ {"StartLogDump", "StopLogDump", "Wake", "ExitRecovery"} \subseteq Opcode
      /\ {"Dumping", "Aborted", "Ready"} \subseteq StatusCode /\ Failures \subseteq StatusCode
      /\ {"Dumping", "Complete", "Ready"} \cap Failures = {}
      /\ 0 \in Nat /\ FileSize \in Nat
  BY FailuresAssumption, SizesAssumption DEF Opcode, StatusCode
<1>5. ASSUME NEW m \in Frame, ~ IsFragment(m), m.status # "Complete", dump' \in {dump, None}
      PROVE  GoesOn(m, dump, dump') /\ dump' \in DumpSet \cup {None}
  BY <1>2, <1>5 DEF GoesOn, Answers
<1>6. CASE /\ c.opcode = "StartLogDump" /\ dump = None
           /\ dump' = [transfer_id |-> c.transfer_id, first |-> c.offset,
                       sequence |-> 0, end |-> RangeEnd(c), lost |-> 0]
           /\ Arrive(Status("StartLogDump", c.transfer_id, "Dumping", FileSize))
  <2>1. PICK m \in Frame :
            /\ canRx' = Append(canRx, m) /\ FrameOK(m, issued) /\ ~ IsFragment(m)
            /\ m.status # "Complete" /\ m.total_size = FileSize
            /\ m.transfer_id = c.transfer_id
    BY <1>3, <1>4, <1>6
  <2> DEFINE end == RangeEnd(c)
  <2>2. 0 \in Sequence /\ end \in Nat
    BY RangeEndBounds, SizesAssumption DEF Sequence
  <2>3. dump' = [transfer_id |-> c.transfer_id, first |-> c.offset, sequence |-> 0,
                 end |-> end, lost |-> 0]
    BY <1>6
  <2> HIDE DEF end
  <2>4. /\ dump' \in DumpSet /\ dump'.transfer_id = c.transfer_id
        /\ dump'.first = c.offset /\ dump'.end = end
    BY <1>1, <2>2, <2>3 DEF DumpSet
  <2>5. dump' = None => Answers(m, dump, dump')
    BY <2>1 DEF Answers
  <2>6. GoesOn(m, dump, dump')
    BY <1>6, <2>1, <2>4, <2>5 DEF GoesOn, Begins
  <2> QED BY <1>6, <2>1, <2>4, <2>6 DEF end
<1>7. CASE \E code \in Failures :
               /\ Arrive(Status("StartLogDump", c.transfer_id, code, 0))
               /\ UNCHANGED dump
  <2>1. \E m \in Frame :
            /\ canRx' = Append(canRx, m) /\ FrameOK(m, issued) /\ ~ IsFragment(m)
            /\ m.status # "Complete"
    BY <1>3, <1>4, <1>7
  <2> QED BY <1>5, <1>7, <2>1
<1>8. CASE dump' = None /\ Arrive(Status("StopLogDump", c.transfer_id, "Aborted", 0))
  <2>1. \E m \in Frame :
            /\ canRx' = Append(canRx, m) /\ FrameOK(m, issued) /\ ~ IsFragment(m)
            /\ m.status # "Complete"
    BY <1>3, <1>4, <1>8
  <2> QED BY <1>5, <1>8, <2>1
<1>9. CASE /\ c.opcode \in {"Wake", "ExitRecovery"} /\ UNCHANGED dump
           /\ Arrive(Status(c.opcode, c.transfer_id, "Ready", 0))
  <2>1. \E m \in Frame :
            /\ canRx' = Append(canRx, m) /\ FrameOK(m, issued) /\ ~ IsFragment(m)
            /\ m.status # "Complete"
    BY <1>3, <1>4, <1>9
  <2> QED BY <1>5, <1>9, <2>1
<1> QED BY <1>6, <1>7, <1>8, <1>9 DEF MissionObeys

LEMMA TransmittedLossless ==
    ASSUME ~ Lossy, RelayIInv, LosslessIInv, transmitting # None,
           MissionObeys(transmitting) \/ UNCHANGED missionVars
    PROVE  /\ Arriving(canRx', dump', target, issued)
           /\ Fed(assembler, canRx', dump', target)
<1> DEFINE c == transmitting
<1>1. /\ c \in ControlSet /\ c.transfer_id \in Id /\ c.transfer_id <= issued
      /\ AskedFor(c, assembler, target)
  BY DEF RelayIInv, Types, ControlSet, Ordered, LosslessIInv, Asked
<1>2. /\ canRx \in Seq(Frame) /\ dump \in DumpSet \cup {None}
      /\ Arriving(canRx, dump, target, issued) /\ Fed(assembler, canRx, dump, target)
      /\ dump # None => dump.end = target[dump.transfer_id]
      /\ AssemblerOK(assembler)
  BY DEF RelayIInv, Types, LosslessIInv, Arriving
<1>3. CASE UNCHANGED missionVars
  BY <1>2, <1>3 DEF missionVars
<1>4. CASE MissionObeys(c)
  <2>1. PICK m \in Frame :
            /\ canRx' = Append(canRx, m) /\ FrameOK(m, issued)
            /\ GoesOn(m, dump, dump') /\ dump' \in DumpSet \cup {None}
            /\ dump = None /\ dump' # None =>
                   /\ c.opcode = "StartLogDump" /\ dump'.transfer_id = c.transfer_id
                   /\ dump'.first = c.offset /\ dump'.end = RangeEnd(c)
            /\ dump # None => dump' \in {dump, None}
    BY <1>1, <1>4, ObeyedGoesOn DEF RelayIInv
  <2>2. ASSUME dump = None, dump' # None
        PROVE  /\ dump'.transfer_id = c.transfer_id /\ dump'.first = c.offset
               /\ dump'.end = target[dump'.transfer_id]
               /\ Unbegun(c.transfer_id, assembler, canRx, dump)
               /\ assembler.active /\ assembler.transfer_id = c.transfer_id =>
                      c.offset = ResumeOffset(assembler)
    <3>1. c.opcode = "StartLogDump"
      BY <2>1, <2>2
    <3>2. Unbegun(c.transfer_id, assembler, canRx, dump)
      BY <1>1, <3>1 DEF RelayIInv, Waiting, Awaited
    <3>3. ASSUME assembler.active, assembler.transfer_id = c.transfer_id
          PROVE  c.offset = ResumeOffset(assembler)
      <4>1. assembler.offset = c.offset /\ assembler.data = <<>>
        BY <1>1, <3>1, <3>2, <3>3 DEF AskedFor, Unbegun
      <4>2. Len(<<>>) = 0 /\ c.offset \in Nat
        BY <1>1 DEF ControlSet
      <4> QED BY <4>1, <4>2 DEF ResumeOffset
    <3> QED BY <1>1, <2>1, <2>2, <3>1, <3>2, <3>3 DEF AskedFor
  <2>3. dump' # None => dump'.end = target[dump'.transfer_id]
    BY <1>2, <2>1, <2>2
  <2>4. Arriving(canRx', dump', target, issued)
    <3>1. dump = None /\ dump' # None =>
              \A k \in 1 .. Len(canRx) :
                  IsFragment(canRx[k]) => canRx[k].transfer_id # dump'.transfer_id
      BY <2>2 DEF Unbegun
    <3> QED BY <1>2, <2>1, <2>3, <3>1, ArrivingOn
  <2>5. Fed(assembler, canRx', dump', target)
    <3>1. dump = None /\ dump' # None /\ assembler.active
          /\ dump'.transfer_id = assembler.transfer_id =>
              dump'.first = ResumeOffset(assembler)
      BY <2>2
    <3> QED BY <1>2, <2>1, <3>1, FedOn
  <2> QED BY <2>4, <2>5
<1> QED BY <1>3, <1>4

LEMMA TransmitOkLossless ==
    ASSUME ~ Lossy, RelayIInv, LosslessIInv, TransmitOk
    PROVE  LosslessIInv'
<1>1. UNCHANGED <<session, assembler, chunks, reported, confirmed, sending, canTx, issued,
                  target>> /\ transmitting' = None
  BY DEF TransmitOk, relayVars
<1>2. /\ Arriving(canRx', dump', target, issued) /\ Fed(assembler, canRx', dump', target)
  BY TransmittedLossless DEF TransmitOk
<1>3. Targets' /\ Asked' /\ Placed' /\ Done' /\ CompletedMeansAll'
  BY <1>1 DEF LosslessIInv, Targets, Asked, Placed, Done, CompletedMeansAll
<1> QED BY <1>1, <1>2, <1>3 DEF LosslessIInv

\* Nothing is assembled any more.
LEMMA AbortedIsPlaced ==
    ASSUME Placed, chunks' = chunks, assembler'.data = <<>>
    PROVE  Placed'
<1>1. Len(assembler'.data) = 0
  OBVIOUS
<1>2. InFile(assembler'.data, assembler'.offset)
  BY <1>1 DEF InFile, At
<1> QED BY <1>2 DEF Placed

LEMMA TransmitErrorLossless ==
    ASSUME ~ Lossy, RelayIInv, LosslessIInv, TransmitError
    PROVE  LosslessIInv'
<1> DEFINE id == transmitting.transfer_id
<1>1. /\ UNCHANGED <<chunks, confirmed, sending, canTx, issued, target>>
      /\ transmitting' = None /\ transmitting # None
  BY DEF TransmitError
<1>2. /\ Arriving(canRx', dump', target, issued) /\ Fed(assembler, canRx', dump', target)
  BY TransmittedLossless DEF TransmitError
<1>3. CASE UNCHANGED <<session, assembler, reported>>
  <2>1. Targets' /\ Asked' /\ Placed' /\ Done' /\ CompletedMeansAll'
    BY <1>1, <1>3 DEF LosslessIInv, Targets, Asked, Placed, Done, CompletedMeansAll
  <2> QED BY <1>1, <1>2, <1>3, <2>1 DEF LosslessIInv
<1>4. CASE /\ session' = None /\ assembler' = Aborted(assembler)
           /\ Report(id, "Failed", "Timeout", 0)
  <2>1. AssemblerOK(assembler) /\ assembler \in AssemblerSet
    BY DEF RelayIInv, Types, AssemblerOK
  <2>2. assembler'.active = FALSE /\ assembler'.data = <<>>
    BY <1>4, <2>1, AbortedIsOK
  <2>3. CompletedMeansAll'
    <3>1. id \in Id
      BY <1>1 DEF RelayIInv, Types, ControlSet
    <3> HIDE DEF id
    <3>2. PICK r \in ReportSet : /\ r.phase = "Failed"
                                 /\ reported' = [reported EXCEPT ![id] = r]
      <4>1. "Failed" \in Phase /\ "Timeout" \in Reason /\ 0 \in Nat
        BY DEF Phase, Reason
      <4>2. \E r \in ReportSet : /\ Told(r, "Failed", "Timeout", 0)
                                 /\ reported' = [reported EXCEPT ![id] = r]
        BY <1>4, <4>1, ReportTells
      <4> QED BY <4>2 DEF Told
    <3>3. \A i \in Id : reported'[i] = IF i = id THEN r ELSE reported[i]
      BY <3>1, <3>2 DEF RelayIInv, Types
    <3> QED BY <1>1, <3>2, <3>3 DEF LosslessIInv, CompletedMeansAll
  <2>4. Fed(assembler', canRx', dump', target)
    BY <2>2 DEF Fed
  <2>5. Asked'
    BY <1>1, <2>2 DEF LosslessIInv, Asked, AskedFor
  <2>6. Placed'
    BY <1>1, <2>2, AbortedIsPlaced DEF LosslessIInv
  <2>7. Targets' /\ Done'
    BY <1>1, <1>4 DEF LosslessIInv, Targets, Done
  <2> QED BY <1>1, <1>2, <2>3, <2>4, <2>5, <2>6, <2>7 DEF LosslessIInv
<1> QED BY <1>3, <1>4 DEF TransmitError

LEMMA MissionSendsLossless ==
    ASSUME ~ Lossy, RelayIInv, LosslessIInv, MissionSends
    PROVE  LosslessIInv'
<1>1. /\ UNCHANGED <<session, assembler, chunks, reported, confirmed, sending>>
      /\ UNCHANGED <<canTx, transmitting, issued, target>>
  BY DEF MissionSends, relayVars, canVars
<1>2. /\ dump # None /\ dump \in DumpSet /\ canRx \in Seq(Frame)
      /\ dump.transfer_id \in Id /\ dump.transfer_id <= issued
      /\ dump.first \in Nat /\ dump.end \in Nat /\ dump.sequence \in Sequence
      /\ Arriving(canRx, dump, target, issued) /\ Fed(assembler, canRx, dump, target)
      /\ target \in [Id -> 0 .. FileSize] /\ FileSize \in Nat
  BY SizesAssumption
     DEF MissionSends, RelayIInv, Types, Waiting, DumpSet, LosslessIInv, Targets
<1>3. dump.end = target[dump.transfer_id] /\ dump.end <= FileSize
  BY <1>2 DEF Arriving
<1>4. \E m \in Frame :
          /\ canRx' = Append(canRx, m) /\ FrameOK(m, issued)
          /\ GoesOn(m, dump, dump')
          /\ dump' # None => dump'.end = target[dump'.transfer_id]
  <2>1. CASE /\ dump.first < dump.end
             /\ dump' = Next1(dump, 0) /\ Buffered(Fragment(dump))
    <3> DEFINE m == Fragment(dump)
    <3>1. /\ m \in Frame /\ IsFragment(m) /\ m.transfer_id = dump.transfer_id
          /\ m.first = dump.first
      <4>1. m \in FragmentSet
        BY <1>2 DEF Fragment, FragmentSet
      <4> QED BY <4>1 DEF Fragment, Frame, IsFragment
    <3>2. canRx' = Append(canRx, m)
      BY <2>1 DEF Buffered
    <3> HIDE DEF m
    <3>3. /\ dump' \in DumpSet /\ dump'.transfer_id = dump.transfer_id
          /\ dump'.end = dump.end /\ dump'.first = dump.first + FragmentSize
      <4>1. /\ (dump.sequence + 1) % SequenceModulus \in Sequence
            /\ dump.first + FragmentSize \in Nat /\ 0 \in Sequence
        BY <1>2, SizesAssumption DEF Sequence
      <4> DEFINE s == (dump.sequence + 1) % SequenceModulus
                 x == dump.first + FragmentSize
      <4>2. dump' = [transfer_id |-> dump.transfer_id, first |-> x, sequence |-> s,
                     end |-> dump.end, lost |-> 0]
        BY <2>1 DEF Next1
      <4> HIDE DEF s, x
      <4>3. s \in Sequence /\ x \in Nat
        BY <4>1 DEF s, x
      <4> QED BY <1>2, <4>1, <4>2, <4>3 DEF DumpSet, x
    <3>4. FrameOK(m, issued)
      BY <1>2, <1>3, <2>1, <3>1 DEF FrameOK
    <3>5. GoesOn(m, dump, dump')
      BY <1>2, <2>1, <3>1, <3>3 DEF GoesOn, SendsNext
    <3> QED BY <1>3, <3>1, <3>2, <3>3, <3>4, <3>5
  <2>2. ASSUME NEW status \in StatusCode, NEW size \in {0, FileSize}, dump' = None,
               status \notin {"Dumping", "Complete"} => size = 0,
               status = "Complete" => dump.first >= dump.end, status # "Ready",
               Arrive(Status("StartLogDump", dump.transfer_id, status, size))
        PROVE  \E m \in Frame :
                   /\ canRx' = Append(canRx, m) /\ FrameOK(m, issued)
                   /\ GoesOn(m, dump, dump')
    <3> DEFINE m == Status("StartLogDump", dump.transfer_id, status, size)
    <3>1. m \in Frame /\ ~ IsFragment(m)
      BY <1>2, <2>2, StatusIsStatus DEF Opcode
    <3>2. /\ m.transfer_id = dump.transfer_id /\ m.status = status
          /\ m.total_size = size /\ m.opcode = "StartLogDump"
      BY DEF Status
    <3>3. canRx' = Append(canRx, m)
      BY <2>2 DEF Arrive, Buffered
    <3> HIDE DEF m
    <3>4. FrameOK(m, issued)
      BY <1>2, <2>2, <3>1, <3>2 DEF FrameOK
    <3>5. GoesOn(m, dump, dump')
      BY <1>2, <2>2, <3>1, <3>2 DEF GoesOn, Answers
    <3> QED BY <3>1, <3>3, <3>4, <3>5
  <2>3. CASE /\ dump.first >= dump.end /\ dump' = None
             /\ Arrive(Status("StartLogDump", dump.transfer_id, "Complete", FileSize))
    <3>1. "Complete" \in StatusCode
      BY DEF StatusCode
    <3> QED BY <2>2, <2>3, <3>1
  <2>4. CASE /\ dump' = None
             /\ \E code \in Failures :
                    Arrive(Status("StartLogDump", dump.transfer_id, code, 0))
    <3>1. \A code \in Failures : code \in StatusCode /\ code \notin {"Complete", "Ready"}
      BY FailuresAssumption DEF StatusCode
    <3> QED BY <2>2, <2>4, <3>1
  <2> QED BY <2>1, <2>3, <2>4, Zenon DEF MissionSends, Next1
<1>5. Arriving(canRx', dump', target, issued)
  BY <1>2, <1>4, ArrivingOn
<1>6. Fed(assembler, canRx', dump', target)
  BY <1>2, <1>3, <1>4, FedOn
<1>7. Targets' /\ Asked' /\ Placed' /\ Done' /\ CompletedMeansAll'
  BY <1>1 DEF LosslessIInv, Targets, Asked, Placed, Done, CompletedMeansAll
<1> QED BY <1>1, <1>5, <1>6, <1>7 DEF LosslessIInv

LEMMA OtherStepLossless ==
    ASSUME RelayIInv, LosslessIInv, MissionEntersRecovery \/ SendChunk \/ UNCHANGED vars
    PROVE  LosslessIInv'
<1>1. /\ UNCHANGED <<session, assembler, reported, confirmed, sending, target>>
      /\ UNCHANGED <<canTx, transmitting, canRx, dump, issued>>
      /\ \/ chunks' = chunks
         \/ chunks # <<>> /\ chunks' = Tail(chunks)
  BY DEF MissionEntersRecovery, SendChunk, vars, relayVars, canVars, missionVars
<1>2. Targets' /\ Asked' /\ Done' /\ CompletedMeansAll'
  BY <1>1 DEF LosslessIInv, Targets, Asked, Done, CompletedMeansAll
<1>3. Placed'
  <2>1. CASE chunks' = chunks
    BY <1>1, <2>1 DEF LosslessIInv, Placed
  <2>2. CASE chunks # <<>> /\ chunks' = Tail(chunks)
    <3>1. \A c \in 1 .. Len(chunks') : c + 1 \in 1 .. Len(chunks) /\ chunks'[c] = chunks[c + 1]
      <4>1. chunks \in Seq(ChunkSet)
        BY DEF RelayIInv, Types
      <4>2. /\ Len(chunks) \in Nat /\ Len(chunks') = Len(chunks) - 1
            /\ \A c \in 1 .. Len(chunks) - 1 : chunks'[c] = chunks[c + 1]
        BY <2>2, <4>1, HeadTailProperties, LenProperties, EmptySeq
      <4> QED BY <4>2
    <3> QED BY <1>1, <3>1 DEF LosslessIInv, Placed
  <2> QED BY <1>1, <2>1, <2>2
<1> QED BY <1>1, <1>2, <1>3 DEF LosslessIInv

\* A frame is received: what is asked for is still what is assembled.
LEMMA ReceivedLossless ==
    ASSUME RelayIInv, LosslessIInv, canRx # <<>>, Receive(Head(canRx)),
           assembler'.transfer_id = assembler.transfer_id,
           assembler'.active =>
               \/ assembler.active /\ assembler'.offset = assembler.offset
               \/ /\ IsFragment(Head(canRx))
                  /\ Head(canRx).transfer_id = assembler.transfer_id
    PROVE  /\ UNCHANGED <<canTx, transmitting, sending, dump, issued, target>>
           /\ canRx' = Tail(canRx) /\ Arriving(canRx', dump', target', issued')
           /\ Asked' /\ Targets'
<1>1. /\ UNCHANGED <<canTx, transmitting, sending, dump, issued, target>>
      /\ canRx' = Tail(canRx) /\ canTx = <<>> /\ transmitting = None
  BY DEF Receive
<1>2. Arriving(Tail(canRx), dump, target, issued)
  BY ArrivingTaken DEF LosslessIInv, RelayIInv, Types
<1>3. ASSUME sending # None PROVE AskedFor(sending, assembler', target)
  <2>1. AskedFor(sending, assembler, target)
    BY <1>3 DEF LosslessIInv, Asked
  <2>2. sending.transfer_id \in Id /\ Awaited(sending.transfer_id)
    BY <1>3 DEF RelayIInv, Types, ControlSet, Awaited
  <2>3. Unbegun(sending.transfer_id, assembler, canRx, dump)
    BY <2>2 DEF RelayIInv, Waiting
  <2>4. Head(canRx) = canRx[1] /\ 1 \in 1 .. Len(canRx)
    BY Taken DEF RelayIInv, Types
  <2>5. IsFragment(Head(canRx)) => Head(canRx).transfer_id # sending.transfer_id
    BY <2>3, <2>4 DEF Unbegun
  <2> QED BY <2>1, <2>5 DEF AskedFor
<1>4. Len(canTx) = 0
  BY <1>1
<1>5. Asked'
  BY <1>1, <1>3, <1>4 DEF Asked
<1>6. Targets'
  BY <1>1 DEF LosslessIInv, Targets
<1> QED BY <1>1, <1>2, <1>5, <1>6

\* The statuses that complete a command.
LEMMA CompletedBy ==
    ASSUME NEW status \in StatusSet, ResultOf(status)[1] = "Completed"
    PROVE  \/ status.status \in {"Ready", "Complete"}
           \/ status.status = "Aborted" /\ status.opcode = "StopLogDump"
<1> DEFINE completes == \/ status.status \in {"Ready", "Complete"}
                        \/ status.status = "Aborted" /\ status.opcode = "StopLogDump"
<1>1. SUFFICES ASSUME ~ completes PROVE FALSE
  OBVIOUS
<1>2. CASE status.status = "Dumping"
  <2>1. ResultOf(status) = <<"Accepted", "None">>
    BY <1>2 DEF ResultOf
  <2> QED BY <2>1
<1>3. CASE status.status \in {"Busy", "InvalidState", "InvalidArgument"}
  <2>1. ResultOf(status) = <<"Rejected", status.status>>
    BY <1>3 DEF ResultOf
  <2> QED BY <2>1
<1>4. CASE status.status = "SourceUnavailable"
  <2>1. ResultOf(status) = <<"Failed", "DeviceUnavailable">>
    BY <1>4 DEF ResultOf
  <2> QED BY <2>1
<1>5. CASE status.status = "IoError"
  <2>1. ResultOf(status) = <<"Failed", "PersistenceError">>
    BY <1>5 DEF ResultOf
  <2> QED BY <2>1
<1>6. CASE status.status = "InternalError"
  <2>1. ResultOf(status) = <<"Failed", "InternalError">>
    BY <1>6 DEF ResultOf
  <2> QED BY <2>1
<1>7. CASE status.status = "Aborted"
  <2>1. ResultOf(status) = <<"Failed", "InterruptedByEmergency">>
    BY <1>1, <1>7 DEF ResultOf
  <2> QED BY <2>1
<1>8. status.status \in StatusCode
  BY DEF StatusSet
<1> QED BY <1>1, <1>2, <1>3, <1>4, <1>5, <1>6, <1>7, <1>8 DEF StatusCode

\* A status is applied: a dump is completed only when it has been queued to its end.
LEMMA StatusAppliedLossless ==
    ASSUME RelayIInv, LosslessIInv, NEW status \in StatusSet, ApplyStatus(status),
           FrameOK(status, issued), target' = target,
           assembler'.transfer_id = assembler.transfer_id,
           \A i \in Id : confirmed'[i] \in Nat /\ confirmed'[i] >= confirmed[i],
           assembler.active /\ ~ assembler'.active =>
               confirmed'[assembler.transfer_id] >= target[assembler.transfer_id],
           status.status = "Complete" /\ assembler'.active =>
               assembler.transfer_id # status.transfer_id
    PROVE  Done' /\ CompletedMeansAll'
<1>1. /\ \A i \in Id : target[i] \in Nat /\ confirmed[i] \in Nat
      /\ session # None => session.id \in Id
  BY SizesAssumption DEF RelayIInv, Types, LosslessIInv, Targets
<1>2. session' \in {session, None}
  BY DEF ApplyStatus
<1>3. ASSUME session # None, session.opcode = "StartLogDump"
      PROVE  /\ session.id = assembler.transfer_id
             /\ assembler'.active \/ confirmed'[session.id] >= target[session.id]
  <2>1. /\ session.id = assembler.transfer_id
        /\ assembler.active \/ confirmed[session.id] >= target[session.id]
    BY <1>3 DEF LosslessIInv, Done
  <2>2. confirmed[session.id] >= target[session.id] =>
            confirmed'[session.id] >= target[session.id]
    BY <1>1, <1>3
  <2> QED BY <2>1, <2>2
<1>4. session # None /\ session.opcode # "StartLogDump" => target[session.id] = 0
  BY DEF LosslessIInv, Done
<1>5. Done'
  BY <1>2, <1>3, <1>4 DEF Done
<1>6. ASSUME NEW i \in Id, reported'[i] # None, reported'[i].phase = "Completed"
      PROVE  confirmed'[i] >= target[i]
  <2>1. CASE reported'[i] = reported[i]
    <3>1. confirmed[i] >= target[i]
      BY <1>6, <2>1 DEF LosslessIInv, CompletedMeansAll
    <3> QED BY <1>1, <3>1
  <2>2. CASE reported'[i] # reported[i]
    <3> DEFINE result == ResultOf(status)
    <3>1. /\ Concerns(status)
          /\ Report(session.id, result[1], result[2], status.total_size)
      BY <2>2, Zenon DEF ApplyStatus
    <3>2. session # None /\ session.id = status.transfer_id /\ session.opcode = status.opcode
      BY <3>1 DEF Concerns, OpenIs
    <3> DEFINE r == [phase |-> result[1], reason |-> result[2], detail |-> status.total_size]
    <3>3. r.phase = result[1]
      OBVIOUS
    <3>4. reported' = [reported EXCEPT ![session.id] = r]
      BY <3>1, Zenon DEF Report
    <3> HIDE DEF r, result
    <3>5. i = session.id /\ reported'[i] = r
      BY <2>2, <3>4 DEF RelayIInv, Types
    <3>6. result[1] = "Completed"
      BY <1>6, <3>3, <3>5
    <3>7. \/ status.status \in {"Ready", "Complete"}
          \/ status.status = "Aborted" /\ status.opcode = "StopLogDump"
      BY <3>6, CompletedBy DEF result
    <3>8. ~ IsFragment(status)
      BY DEF StatusSet, IsFragment
    <3>9. CASE status.status = "Complete"
      <4>1. session.opcode = "StartLogDump"
        BY <3>2, <3>8, <3>9 DEF FrameOK
      <4> QED BY <1>3, <3>2, <3>5, <3>9, <4>1
    <3>10. CASE status.status # "Complete"
      <4>1. session.opcode # "StartLogDump"
        BY <3>2, <3>7, <3>8, <3>10 DEF FrameOK
      <4> QED BY <1>1, <1>4, <3>2, <3>5, <4>1
    <3> QED BY <3>9, <3>10
  <2> QED BY <2>1, <2>2
<1>7. CompletedMeansAll'
  BY <1>6 DEF CompletedMeansAll
<1> QED BY <1>5, <1>7

\* A transfer fails.
LEMMA FailedLossless ==
    ASSUME RelayIInv, LosslessIInv, NEW a, AssemblerOK(a), NEW reason,
           FailTransfer(a, reason), target' = target
    PROVE  /\ assembler'.active = FALSE /\ assembler'.transfer_id = a.transfer_id
           /\ Placed' /\ Done' /\ CompletedMeansAll'
<1>1. /\ assembler' = Aborted(a) /\ session' = None /\ UNCHANGED <<chunks, confirmed>>
  BY DEF FailTransfer
<1>2. assembler'.active = FALSE /\ assembler'.transfer_id = a.transfer_id
      /\ assembler'.data = <<>>
  BY <1>1, AbortedIsOK DEF AssemblerOK
<1>3. ASSUME NEW i \in Id
      PROVE  \/ reported'[i] = reported[i]
             \/ reported'[i].phase = "Failed"
  <2> DEFINE r == [phase |-> "Failed", reason |-> reason,
                   detail |-> IF a.transfer_id # 0 THEN ResumeOffset(a) ELSE 0]
  <2>1. r.phase = "Failed"
    OBVIOUS
  <2>2. \/ reported' = [reported EXCEPT ![session.id] = r]
        \/ reported' = reported
    BY Zenon DEF FailTransfer, Report
  <2> HIDE DEF r
  <2> QED BY <2>1, <2>2 DEF RelayIInv, Types
<1>4. Placed'
  BY <1>1, <1>2, AbortedIsPlaced DEF LosslessIInv
<1>5. CompletedMeansAll'
  BY <1>1, <1>3 DEF LosslessIInv, CompletedMeansAll
<1> QED BY <1>1, <1>2, <1>4, <1>5 DEF Done

\* A chunk is queued, and what remains is at its place.
LEMMA QueuedLossless ==
    ASSUME RelayIInv, LosslessIInv, NEW chunk \in ChunkSet, InFile(chunk.data, chunk.offset),
           Queueable(chunk), QueueChunk(chunk), InFile(assembler'.data, assembler'.offset)
    PROVE  /\ Placed' /\ confirmed' \in [Id -> Nat]
           /\ \A i \in Id : confirmed'[i] = IF i = chunk.transfer_id
                                           THEN chunk.offset + Len(chunk.data)
                                           ELSE confirmed[i]
<1>1. Contiguous(chunk.data)
  <2>1. chunk.offset - 1 \in Int
    BY DEF ChunkSet
  <2> QED BY <2>1 DEF InFile, Contiguous
<1>2. /\ confirmed' \in [Id -> Nat]
      /\ \A i \in Id : confirmed'[i] = IF i = chunk.transfer_id
                                      THEN chunk.offset + Len(chunk.data)
                                      ELSE confirmed[i]
  BY <1>1, ChunkQueued DEF RelayIInv
<1>3. /\ Len(chunks) \in Nat /\ Len(chunks') = Len(chunks) + 1
      /\ chunks'[Len(chunks) + 1] = chunk
      /\ \A c \in 1 .. Len(chunks) : chunks'[c] = chunks[c]
  <2>1. chunks \in Seq(ChunkSet) /\ chunks' = Append(chunks, chunk)
    BY DEF RelayIInv, Types, QueueChunk
  <2> QED BY <2>1, AppendProperties, LenProperties
<1>4. \A c \in 1 .. Len(chunks') : InFile(chunks'[c].data, chunks'[c].offset)
  <2>1. \A c \in 1 .. Len(chunks) : InFile(chunks[c].data, chunks[c].offset)
    BY DEF LosslessIInv, Placed
  <2>2. ASSUME NEW c \in 1 .. Len(chunks') PROVE InFile(chunks'[c].data, chunks'[c].offset)
    <3>1. CASE c = Len(chunks) + 1
      BY <1>3, <3>1
    <3>2. CASE c # Len(chunks) + 1
      <4>1. c \in 1 .. Len(chunks)
        BY <1>3, <3>2
      <4> QED BY <1>3, <2>1, <4>1
    <3> QED BY <3>1, <3>2
  <2> QED BY <2>2
<1> QED BY <1>2, <1>4 DEF Placed

\* A status that does not end an assembly.
LEMMA StatusLossless ==
    ASSUME RelayIInv, LosslessIInv, canRx # <<>>, NEW status \in StatusSet,
           status = Head(canRx), Receive(status), ApplyStatus(status),
           UNCHANGED <<chunks, confirmed>>,
           assembler' = WithTotalSize(assembler, status.transfer_id, status.total_size),
           status.status = "Complete" /\ assembler'.active =>
               assembler.transfer_id # status.transfer_id
    PROVE  LosslessIInv'
<1>1. AssemblerOK(assembler) /\ canRx \in Seq(Frame) /\ dump \in DumpSet \cup {None}
      /\ target \in [Id -> 0 .. FileSize] /\ confirmed \in [Id -> Nat]
      /\ Arriving(canRx, dump, target, issued) /\ Fed(assembler, canRx, dump, target)
  BY DEF RelayIInv, Types, LosslessIInv, Targets
<1>2. /\ assembler'.active = assembler.active
      /\ assembler'.transfer_id = assembler.transfer_id
      /\ assembler'.offset = assembler.offset /\ assembler'.data = assembler.data
  <2>1. status.transfer_id \in Id /\ status.total_size \in Nat
    BY DEF StatusSet
  <2> QED BY <1>1, <2>1, SizedIsOK
<1>3. FrameOK(status, issued)
  <2>1. 1 \in 1 .. Len(canRx) /\ Head(canRx) = canRx[1]
    BY <1>1, Taken
  <2> QED BY <1>1, <2>1 DEF Arriving
<1>4. /\ UNCHANGED <<canTx, transmitting, sending, dump, issued, target>>
      /\ canRx' = Tail(canRx) /\ Arriving(canRx', dump', target', issued')
      /\ Asked' /\ Targets'
  BY <1>2, ReceivedLossless
<1>5. Fed(assembler', canRx', dump', target')
  <2>1. Fed(assembler', Tail(canRx), dump, target)
    BY <1>1, FedStatusTaken
  <2> QED BY <1>4, <2>1
<1>6. Placed'
  BY <1>2 DEF LosslessIInv, Placed
<1>7. Done' /\ CompletedMeansAll'
  <2>1. \A i \in Id : confirmed'[i] \in Nat /\ confirmed'[i] >= confirmed[i]
    BY <1>1
  <2>2. target' = target
    BY <1>4
  <2> QED BY <1>2, <1>3, <2>1, <2>2, StatusAppliedLossless
<1> QED BY <1>4, <1>5, <1>6, <1>7 DEF LosslessIInv

\* All that was gathered is queued.
LEMMA LastChunkQueued ==
    ASSUME RelayIInv, LosslessIInv, assembler.active, NEW last \in ChunkSet,
           last.transfer_id = assembler.transfer_id, last.offset = assembler.offset,
           last.data = assembler.data, Queueable(last), QueueChunk(last),
           assembler'.data = <<>>
    PROVE  /\ Placed' /\ \A i \in Id : confirmed'[i] \in Nat /\ confirmed'[i] >= confirmed[i]
           /\ confirmed'[assembler.transfer_id] = ResumeOffset(assembler)
           /\ ResumeOffset(assembler) \in Nat
<1> DEFINE id == assembler.transfer_id
           end == ResumeOffset(assembler)
<1>1. /\ id \in Id /\ assembler.offset \in Nat /\ Len(assembler.data) \in Nat
      /\ confirmed[id] = assembler.offset /\ confirmed \in [Id -> Nat]
  BY LenProperties
     DEF RelayIInv, Types, Results, InStep, AssemblerOK, AssemblerSet
<1>2. end \in Nat /\ end >= confirmed[id] /\ end = last.offset + Len(last.data)
  BY <1>1 DEF ResumeOffset
<1>3. InFile(last.data, last.offset)
  BY DEF LosslessIInv, Placed
<1>4. InFile(assembler'.data, assembler'.offset)
  <2>1. Len(assembler'.data) = 0
    OBVIOUS
  <2> QED BY <2>1 DEF InFile, At
<1>5. /\ Placed' /\ confirmed' \in [Id -> Nat]
      /\ \A i \in Id : confirmed'[i] = IF i = id THEN end ELSE confirmed[i]
  BY <1>2, <1>3, <1>4, QueuedLossless
<1> HIDE DEF end, id
<1>6. \A i \in Id : confirmed'[i] \in Nat /\ confirmed'[i] >= confirmed[i]
  BY <1>1, <1>2, <1>5
<1> QED BY <1>1, <1>2, <1>5, <1>6 DEF end, id

\* The status that ends an assembly: all the dump asked for is in the last chunk and
\* those before it.
LEMMA CompleteLossless ==
    ASSUME RelayIInv, LosslessIInv, canRx # <<>>, NEW status \in StatusSet,
           status = Head(canRx), Receive(status), status.status = "Complete",
           NEW sized,
           sized = WithTotalSize(assembler, status.transfer_id, status.total_size),
           sized.active, sized.transfer_id = status.transfer_id,
           NEW last, last = ChunkOf(sized, sized.data, TRUE),
           NEW after, after = AfterChunk(sized, sized.data, TRUE),
           \/ /\ Queueable(last) /\ QueueChunk(last) /\ assembler' = after
              /\ ApplyStatus(status)
           \/ FailTransfer(after, "InternalError")
    PROVE  LosslessIInv'
<1>1. AssemblerOK(assembler) /\ canRx \in Seq(Frame) /\ dump \in DumpSet \cup {None}
      /\ target \in [Id -> 0 .. FileSize] /\ confirmed \in [Id -> Nat]
      /\ Arriving(canRx, dump, target, issued) /\ Fed(assembler, canRx, dump, target)
  BY DEF RelayIInv, Types, LosslessIInv, Targets
<1>2. /\ sized \in AssemblerSet /\ AssemblerOK(sized) /\ assembler.active
      /\ sized.transfer_id = assembler.transfer_id
      /\ sized.offset = assembler.offset /\ sized.data = assembler.data
  <2>1. status.transfer_id \in Id /\ status.total_size \in Nat
    BY DEF StatusSet
  <2> QED BY <1>1, <2>1, SizedIsOK DEF AssemblerOK
<1>3. /\ sized.data \in Seq(Nat) /\ Len(sized.data) \in Nat /\ sized.transfer_id \in Id
      /\ sized.offset \in Nat
  BY <1>2, LenProperties DEF AssemblerOK, AssemblerSet
<1>4. /\ after \in AssemblerSet /\ after.active = FALSE
      /\ after.transfer_id = assembler.transfer_id
      /\ after.offset = assembler.offset + Len(sized.data) /\ after.data = <<>>
  <2>1. Fields(AfterChunk(sized, sized.data, TRUE), FALSE, sized.transfer_id,
               sized.offset + Len(sized.data), sized.total_size, sized.expected_sequence,
               <<>>)
    BY <1>2, <1>3, LastChunkTaken
  <2> QED BY <1>2, <2>1 DEF Fields
<1>5. AssemblerOK(after)
  <2>1. Len(<<>>) = 0 /\ 0 < ChunkSize
    BY SizesAssumption
  <2> QED BY <1>4, <2>1 DEF AssemblerOK
<1>6. /\ last \in ChunkSet /\ last.transfer_id = assembler.transfer_id
      /\ last.offset = assembler.offset /\ last.data = assembler.data
  BY <1>2, <1>3, ChunkIsChunk DEF ChunkOf
<1>7. assembler'.active = FALSE /\ assembler'.transfer_id = assembler.transfer_id
  <2>1. CASE FailTransfer(after, "InternalError")
    <3>1. assembler' = Aborted(after)
      BY <2>1 DEF FailTransfer
    <3> QED BY <1>4, <3>1, AbortedIsOK
  <2>2. CASE assembler' = after
    BY <1>4, <2>2
  <2> QED BY <2>1, <2>2
<1>8. /\ UNCHANGED <<canTx, transmitting, sending, dump, issued, target>>
      /\ canRx' = Tail(canRx) /\ Arriving(canRx', dump', target', issued')
      /\ Asked' /\ Targets'
  BY <1>7, ReceivedLossless
<1>9. Fed(assembler', canRx', dump', target')
  BY <1>7 DEF Fed
<1>10. 1 \in 1 .. Len(canRx) /\ canRx[1] = status /\ Len(canRx) \in Nat
       /\ ~ IsFragment(status)
  BY <1>1, Taken DEF StatusSet, IsFragment
<1>11. ASSUME Queueable(last), QueueChunk(last), assembler' = after, ApplyStatus(status)
       PROVE  Placed' /\ Done' /\ CompletedMeansAll'
  <2>1. assembler'.data = <<>>
    BY <1>4, <1>11
  <2>2. /\ Placed' /\ \A i \in Id : confirmed'[i] \in Nat /\ confirmed'[i] >= confirmed[i]
        /\ confirmed'[assembler.transfer_id] = ResumeOffset(assembler)
        /\ ResumeOffset(assembler) \in Nat
    BY <1>2, <1>6, <1>11, <2>1, LastChunkQueued
  <2>3. target[assembler.transfer_id] \in Nat
    BY <1>1, <1>2, <1>3, SizesAssumption
  <2>6. confirmed'[assembler.transfer_id] >= target[assembler.transfer_id]
    <3>1. CASE ReachedEnd(assembler)
      <4>1. /\ assembler.total_size \in Nat
            /\ assembler.offset + Len(assembler.data) >= assembler.total_size
            /\ assembler.total_size >= target[assembler.transfer_id]
        BY <1>1, <1>2, <3>1 DEF ReachedEnd, Fed, AssemblerOK, AssemblerSet
      <4> QED BY <2>2, <2>3, <4>1 DEF ResumeOffset
    <3>2. CASE ~ ReachedEnd(assembler)
      <4>1. Comes(assembler.transfer_id, ResumeOffset(assembler),
                  target[assembler.transfer_id], canRx, 0, dump)
        BY <1>1, <1>2, <3>2 DEF Fed
      <4>2. Clear(canRx, 0, 1) /\ 0 < 1
        BY DEF Clear
      <4>3. IsComplete(canRx[1], assembler.transfer_id)
        BY <1>2, <1>10 DEF IsComplete
      <4>4. ResumeOffset(assembler) >= target[assembler.transfer_id]
        BY <1>10, <4>1, <4>2, <4>3 DEF Comes
      <4> QED BY <2>2, <4>4
    <3> QED BY <3>1, <3>2
  <2>7. FrameOK(status, issued) /\ target' = target
    BY <1>1, <1>8, <1>10 DEF Arriving
  <2>8. Done' /\ CompletedMeansAll'
    BY <1>7, <1>11, <2>2, <2>6, <2>7, StatusAppliedLossless
  <2> QED BY <2>2, <2>8
<1>12. ASSUME FailTransfer(after, "InternalError")
       PROVE  Placed' /\ Done' /\ CompletedMeansAll'
  <2>1. target' = target
    BY <1>8
  <2> QED BY <1>5, <1>12, <2>1, FailedLossless
<1> QED BY <1>8, <1>9, <1>11, <1>12 DEF LosslessIInv

LEMMA ReceiveStatusLossless ==
    ASSUME RelayIInv, LosslessIInv, canRx # <<>>, ReceiveStatus(Head(canRx))
    PROVE  LosslessIInv'
<1> DEFINE status == Head(canRx)
           sized == WithTotalSize(assembler, status.transfer_id, status.total_size)
           flush == /\ status.status = "Complete"
                    /\ sized.active /\ sized.transfer_id = status.transfer_id
           last == ChunkOf(sized, sized.data, TRUE)
           after == AfterChunk(sized, sized.data, TRUE)
<1>1. /\ status.kind = "RecoveryStatus" /\ Receive(status)
      /\ \/ /\ flush /\ Queueable(last) /\ QueueChunk(last) /\ assembler' = after
            /\ ApplyStatus(status)
         \/ flush /\ FailTransfer(after, "InternalError")
         \/ /\ ~ flush /\ assembler' = sized /\ ApplyStatus(status)
            /\ UNCHANGED <<chunks, confirmed>>
  BY Zenon DEF ReceiveStatus
<1>2. status \in StatusSet
  <2>1. status \in Frame
    BY Taken DEF RelayIInv, Types
  <2> QED BY <1>1, <2>1 DEF Frame, FragmentSet
<1>3. sized.transfer_id = assembler.transfer_id
  <2>1. status.transfer_id \in Id /\ status.total_size \in Nat
    BY <1>2 DEF StatusSet
  <2> QED BY <2>1, SizedIsOK DEF RelayIInv, Types
<1>4. CASE /\ ~ flush /\ assembler' = sized /\ ApplyStatus(status)
           /\ UNCHANGED <<chunks, confirmed>>
  <2>1. status.status = "Complete" /\ assembler'.active =>
            assembler.transfer_id # status.transfer_id
    BY <1>3, <1>4
  <2> HIDE DEF flush, last, after
  <2> QED BY <1>1, <1>2, <1>4, <2>1, StatusLossless
<1>5. CASE flush /\ \/ /\ Queueable(last) /\ QueueChunk(last) /\ assembler' = after
                       /\ ApplyStatus(status)
                    \/ FailTransfer(after, "InternalError")
  <2>1. /\ status.status = "Complete" /\ sized.active
        /\ sized.transfer_id = status.transfer_id
    BY <1>5
  <2>2. /\ last = ChunkOf(sized, sized.data, TRUE)
        /\ after = AfterChunk(sized, sized.data, TRUE) /\ status = Head(canRx)
        /\ sized = WithTotalSize(assembler, status.transfer_id, status.total_size)
    OBVIOUS
  <2> HIDE DEF status, sized, flush, last, after
  <2> QED BY <1>1, <1>2, <1>5, <2>1, <2>2, CompleteLossless
<1> QED BY <1>1, <1>4, <1>5, Zenon

\* A fragment that is accepted: its bytes are the next ones of the file.
LEMMA AcceptedLossless ==
    ASSUME RelayIInv, LosslessIInv, canRx # <<>>, NEW f \in FragmentSet, f = Head(canRx),
           Receive(f), ~ Refused(assembler, f), NEW r, r = Pushed(assembler, f),
           \/ /\ r.chunk = None /\ assembler' = r.assembler
              /\ UNCHANGED <<session, chunks, reported, confirmed>>
           \/ /\ r.chunk # None /\ Queueable(r.chunk) /\ QueueChunk(r.chunk)
              /\ assembler' = r.assembler /\ UNCHANGED <<session, reported>>
           \/ r.chunk # None /\ FailTransfer(r.assembler, "InternalError")
    PROVE  LosslessIInv'
<1> DEFINE a == assembler
<1>1. /\ AssemblerOK(a) /\ canRx \in Seq(Frame) /\ dump \in DumpSet \cup {None}
      /\ target \in [Id -> 0 .. FileSize] /\ confirmed \in [Id -> Nat]
      /\ Arriving(canRx, dump, target, issued) /\ Fed(a, canRx, dump, target)
      /\ InFile(a.data, a.offset)
  BY DEF RelayIInv, Types, LosslessIInv, Targets, Placed
<1>2. /\ a.active /\ f.transfer_id = a.transfer_id /\ a.transfer_id \in Id
      /\ IsFragment(f) /\ IsFragment(Head(canRx))
      /\ Head(canRx).transfer_id = a.transfer_id
  BY <1>1 DEF Refused, NotStarted, WrongTransfer, AssemblerOK, FragmentSet, IsFragment
<1>3. /\ ~ ReachedEnd(a) => f.first = ResumeOffset(a)
      /\ a.total_size \in Nat /\ a.total_size <= FileSize
      /\ a.total_size >= target[a.transfer_id] /\ target[a.transfer_id] \in Nat
  <2>1. target[a.transfer_id] \in 0 .. FileSize => target[a.transfer_id] \in Nat
    BY SizesAssumption
  <2> QED BY <1>1, <1>2, <2>1, FragmentIsNext
<1>4. /\ a \in AssemblerSet /\ a.offset \in Nat /\ Len(a.data) \in Nat
      /\ a.offset = confirmed[a.transfer_id]
  BY <1>1, <1>2, LenProperties
     DEF AssemblerOK, AssemblerSet, RelayIInv, Results, InStep
<1>5. PushedWell(a, f, a.offset - 1, r)
  <2>1. a.offset - 1 \in Int /\ At(a.data, a.offset - 1)
    BY <1>1, <1>4 DEF InFile
  <2>2. FragmentLength(a) = 0 \/ f.first = (a.offset - 1) + Len(a.data) + 1
    <3>1. ASSUME FragmentLength(a) # 0 PROVE f.first = (a.offset - 1) + Len(a.data) + 1
      <4>1. ~ ReachedEnd(a)
        BY <1>4, <3>1, FragmentLengthBounds
      <4>2. f.first = a.offset + Len(a.data)
        BY <1>3, <4>1 DEF ResumeOffset
      <4> QED BY <1>4, <4>2
    <3> QED BY <3>1
  <2> QED BY <1>1, <1>2, <2>1, <2>2, PushedIsWell
<1>6. /\ InFile(r.assembler.data, r.assembler.offset)
      /\ r.chunk # None => InFile(r.chunk.data, r.chunk.offset)
  BY <1>1, <1>3, <1>5, FragmentPlaced
<1>7. /\ AssemblerOK(r.assembler) /\ r.assembler.transfer_id = a.transfer_id
      /\ r.assembler.total_size = a.total_size
      /\ ~ r.assembler.active => r.assembler.data = <<>> /\ ReachedEnd(r.assembler)
      /\ r.chunk = None => r.assembler.offset = a.offset /\ r.assembler.active
      /\ r.chunk # None =>
             /\ r.chunk \in ChunkSet /\ r.chunk.transfer_id = a.transfer_id
             /\ r.chunk.offset = a.offset
             /\ r.assembler.offset = a.offset + Len(r.chunk.data)
  BY <1>5 DEF PushedWell
<1>8. assembler'.transfer_id = a.transfer_id
  <2>1. CASE assembler' = r.assembler
    BY <1>7, <2>1
  <2>2. CASE FailTransfer(r.assembler, "InternalError")
    <3>1. assembler' = Aborted(r.assembler)
      BY <2>2 DEF FailTransfer
    <3> QED BY <1>7, <3>1, AbortedIsOK DEF AssemblerOK
  <2> QED BY <2>1, <2>2
<1>9. /\ UNCHANGED <<canTx, transmitting, sending, dump, issued, target>>
      /\ canRx' = Tail(canRx) /\ Arriving(canRx', dump', target', issued')
      /\ Asked' /\ Targets'
  BY <1>2, <1>8, ReceivedLossless
<1>10. CASE assembler' = r.assembler
  <2>1. Fed(assembler', canRx', dump', target')
    <3>1. Fed(r.assembler, Tail(canRx), dump, target)
      BY <1>1, <1>2, <1>5, FedFragmentTaken
    <3> QED BY <1>9, <1>10, <3>1
  <2>2. CASE /\ r.chunk = None /\ UNCHANGED <<session, chunks, reported, confirmed>>
    <3>1. Placed'
      BY <1>6, <1>10, <2>2 DEF LosslessIInv, Placed
    <3>2. Done' /\ CompletedMeansAll'
      BY <1>7, <1>9, <1>10, <2>2 DEF LosslessIInv, Done, CompletedMeansAll
    <3> QED BY <1>9, <2>1, <3>1, <3>2 DEF LosslessIInv
  <2>3. CASE /\ r.chunk # None /\ Queueable(r.chunk) /\ QueueChunk(r.chunk)
             /\ UNCHANGED <<session, reported>>
    <3> DEFINE end == r.chunk.offset + Len(r.chunk.data)
    <3>1. /\ Placed' /\ confirmed' \in [Id -> Nat]
          /\ \A i \in Id : confirmed'[i] = IF i = a.transfer_id THEN end ELSE confirmed[i]
      BY <1>6, <1>7, <1>10, <2>3, QueuedLossless
    <3>2. /\ end \in Nat /\ end >= confirmed[a.transfer_id] /\ end = r.assembler.offset
          /\ confirmed[a.transfer_id] \in Nat
      <4>1. Len(r.chunk.data) \in Nat
        BY <1>7, <2>3, LenProperties DEF ChunkSet
      <4> QED BY <1>4, <1>7, <2>3, <4>1
    <3> HIDE DEF end
    <3>3. \A i \in Id : confirmed'[i] \in Nat /\ confirmed'[i] >= confirmed[i]
      BY <1>1, <1>2, <3>1, <3>2
    <3>4. ~ r.assembler.active => confirmed'[a.transfer_id] >= target[a.transfer_id]
      <4> SUFFICES ASSUME ~ r.assembler.active
                   PROVE  confirmed'[a.transfer_id] >= target[a.transfer_id]
        OBVIOUS
      <4>1. r.assembler.data = <<>> /\ ReachedEnd(r.assembler)
        BY <1>7
      <4>2. Len(r.assembler.data) = 0
        BY <4>1
      <4>3. r.assembler.offset >= a.total_size
        <5>1. r.assembler.offset + Len(r.assembler.data) >= a.total_size
          BY <1>7, <4>1 DEF ReachedEnd
        <5> QED BY <3>2, <4>2, <5>1
      <4>4. confirmed'[a.transfer_id] = r.assembler.offset
        BY <1>2, <3>1, <3>2
      <4> QED BY <1>3, <3>2, <4>3, <4>4
    <3>5. \A i \in Id : target[i] \in Nat /\ confirmed[i] \in Nat
      BY <1>1, SizesAssumption
    <3>6. CompletedMeansAll'
      <4>1. \A i \in Id : confirmed[i] >= target[i] => confirmed'[i] >= target[i]
        BY <3>3, <3>5
      <4> QED BY <1>9, <2>3, <4>1 DEF LosslessIInv, CompletedMeansAll
    <3>7. Done'
      <4> SUFFICES ASSUME session' # None
                   PROVE  IF session'.opcode = "StartLogDump"
                          THEN /\ session'.id = assembler'.transfer_id
                               /\ \/ assembler'.active
                                  \/ confirmed'[session'.id] >= target'[session'.id]
                          ELSE target'[session'.id] = 0
        BY Zenon DEF Done
      <4>1. session' = session
        BY <2>3
      <4>2. IF session.opcode = "StartLogDump"
            THEN session.id = a.transfer_id
            ELSE target[session.id] = 0
        BY <4>1 DEF LosslessIInv, Done
      <4> QED BY <1>7, <1>9, <1>10, <3>4, <4>1, <4>2
    <3> QED BY <1>9, <2>1, <3>1, <3>6, <3>7 DEF LosslessIInv
  <2>4. CASE FailTransfer(r.assembler, "InternalError")
    <3>1. target' = target
      BY <1>9
    <3>2. Placed' /\ Done' /\ CompletedMeansAll'
      BY <1>7, <2>4, <3>1, FailedLossless
    <3> QED BY <1>9, <2>1, <3>2 DEF LosslessIInv
  <2> QED BY <2>2, <2>3, <2>4
<1>11. CASE FailTransfer(r.assembler, "InternalError")
  <2>1. target' = target
    BY <1>9
  <2>2. Placed' /\ Done' /\ CompletedMeansAll' /\ assembler'.active = FALSE
    BY <1>7, <1>11, <2>1, FailedLossless
  <2>3. Fed(assembler', canRx', dump', target')
    BY <2>2 DEF Fed
  <2> QED BY <1>9, <2>2, <2>3 DEF LosslessIInv
<1> QED BY <1>10, <1>11

LEMMA ReceiveFragmentLossless ==
    ASSUME RelayIInv, LosslessIInv, canRx # <<>>, ReceiveFragment(Head(canRx))
    PROVE  LosslessIInv'
<1> DEFINE f == Head(canRx)
           pushed == Pushed(assembler, f)
           a == IF SequenceGap(assembler, f) THEN AfterGap(assembler) ELSE assembler
<1>1. f.kind = "RecoveryLogData" /\ Receive(f)
  BY DEF ReceiveFragment
<1>2. f \in FragmentSet
  <2>1. f \in Frame
    BY Taken DEF RelayIInv, Types
  <2> QED BY <1>1, <2>1 DEF Frame, StatusSet
<1>3. CASE FailTransfer(a, "ProtocolError")
  <2>1. AssemblerOK(a) /\ a.transfer_id = assembler.transfer_id
    BY GapIsOK DEF RelayIInv, Types
  <2> HIDE DEF a
  <2>2. target' = target
    BY <1>1 DEF Receive
  <2>3. /\ assembler'.active = FALSE /\ assembler'.transfer_id = assembler.transfer_id
        /\ Placed' /\ Done' /\ CompletedMeansAll'
    BY <1>3, <2>1, <2>2, FailedLossless
  <2>4. /\ UNCHANGED <<canTx, transmitting, sending, dump, issued, target>>
        /\ canRx' = Tail(canRx) /\ Arriving(canRx', dump', target', issued')
        /\ Asked' /\ Targets'
    BY <1>1, <2>3, ReceivedLossless
  <2>5. Fed(assembler', canRx', dump', target')
    BY <2>3 DEF Fed
  <2> QED BY <2>3, <2>4, <2>5 DEF LosslessIInv
<1>4. CASE /\ ~ Refused(assembler, f)
           /\ \/ /\ pushed.chunk = None /\ assembler' = pushed.assembler
                 /\ UNCHANGED <<session, chunks, reported, confirmed>>
              \/ /\ pushed.chunk # None /\ Queueable(pushed.chunk)
                 /\ QueueChunk(pushed.chunk) /\ assembler' = pushed.assembler
                 /\ UNCHANGED <<session, reported>>
              \/ pushed.chunk # None /\ FailTransfer(pushed.assembler, "InternalError")
  <2>1. pushed = Pushed(assembler, f) /\ f = Head(canRx)
    OBVIOUS
  <2> HIDE DEF f, pushed
  <2> QED BY <1>1, <1>2, <1>4, <2>1, AcceptedLossless
<1> QED BY <1>3, <1>4, Zenon DEF ReceiveFragment

LEMMA LosslessNext ==
    ASSUME ~ Lossy, RelayIInv, LosslessIInv, [Next]_vars
    PROVE  LosslessIInv'
<1>1. CASE Ground
  <2>1. PICK request \in Requests : \/ RejectCommand(request[1])
                                    \/ StartCommand(request[1], request[2], request[3])
    BY <1>1, Zenon DEF Ground
  <2>2. request[1] \in Opcode /\ request[2] \in Nat /\ request[3] \in Nat
    BY RequestsAssumption
  <2> QED BY <2>1, <2>2, RejectCommandLossless, StartCommandLossless
<1>2. CASE CommandResume
  BY <1>2, CommandResumeLossless
<1>3. CASE MissionSends
  BY <1>3, MissionSendsLossless
<1>4. CASE MissionEntersRecovery \/ SendChunk \/ UNCHANGED vars
  BY <1>4, OtherStepLossless
<1>5. CASE SelectTransmit
  BY <1>5, SelectTransmitLossless
<1>6. CASE TransmitOk
  BY <1>6, TransmitOkLossless
<1>7. CASE TransmitError
  BY <1>7, TransmitErrorLossless
<1>8. CASE ReceiveFrame
  <2>1. CASE canRx # <<>> /\ ReceiveStatus(Head(canRx))
    BY <2>1, ReceiveStatusLossless
  <2>2. CASE canRx # <<>> /\ ReceiveFragment(Head(canRx))
    BY <2>2, ReceiveFragmentLossless
  <2> QED BY <1>8, <2>1, <2>2, Zenon DEF ReceiveFrame
<1> QED BY <1>1, <1>2, <1>3, <1>4, <1>5, <1>6, <1>7, <1>8, Zenon DEF Next, CanOwner

LEMMA LosslessIInvAlways == ASSUME ~ Lossy PROVE Spec => [](RelayIInv /\ LosslessIInv)
<1>1. Init => RelayIInv /\ LosslessIInv
  BY InitOK, LosslessInit
<1>2. RelayIInv /\ LosslessIInv /\ [Next]_vars => (RelayIInv /\ LosslessIInv)'
  BY NextOK, LosslessNext
<1> QED BY <1>1, <1>2, PTL DEF Spec

LEMMA PlacedIsFile ==
    ASSUME RelayIInv, Placed
    PROVE  ChunkIsFile
<1> SUFFICES ASSUME NEW c \in DOMAIN chunks, NEW i \in DOMAIN chunks[c].data
             PROVE  /\ chunks[c].data[i] = chunks[c].offset + i - 1
                    /\ chunks[c].data[i] < FileSize
  BY DEF ChunkIsFile
<1>1. c \in 1 .. Len(chunks) /\ chunks[c] \in ChunkSet
  BY LenProperties, ElementOfSeq DEF RelayIInv, Types
<1> DEFINE data == chunks[c].data
           offset == chunks[c].offset
<1>2. /\ data \in Seq(Nat) /\ offset \in Nat /\ i \in 1 .. Len(data) /\ Len(data) \in Nat
  BY <1>1, LenProperties DEF ChunkSet
<1>3. InFile(data, offset)
  BY <1>1 DEF Placed
<1> HIDE DEF data, offset
<1>4. data[i] = (offset - 1) + i /\ offset + Len(data) <= FileSize
  <2>1. data # <<>>
    BY <1>2
  <2> QED BY <1>2, <1>3, <2>1 DEF InFile, At
<1>5. data[i] = offset + i - 1 /\ data[i] < FileSize
  BY <1>2, <1>4, SizesAssumption
<1> QED BY <1>5 DEF data, offset

\* Unless frames are lost on the CAN bus every chunk queued for the ground holds the
\* bytes its offset announces, and none beyond the end of the file.
THEOREM ChunksAreTheFile == ASSUME ~ Lossy PROVE Spec => []ChunkIsFile
<1>1. RelayIInv /\ LosslessIInv => ChunkIsFile
  BY PlacedIsFile DEF LosslessIInv
<1> QED BY <1>1, LosslessIInvAlways, PTL

\* Unless frames are lost on the CAN bus a dump reported Completed has been queued to
\* the end of what was asked for, however commands, stops, failed transmissions, full
\* queues and late frames of other transfers interfere.
THEOREM CompletedIsAll == ASSUME ~ Lossy PROVE Spec => []CompletedMeansAll
<1>1. LosslessIInv => CompletedMeansAll
  BY DEF LosslessIInv
<1> QED BY <1>1, LosslessIInvAlways, PTL

\* Unless frames are lost on the CAN bus the ground gets what the file holds and, once
\* it is told so, all of it.
THEOREM DumpsAreWhole == ASSUME ~ Lossy PROVE Spec => []DumpIsWhole
BY ChunksAreTheFile, CompletedIsAll, PTL DEF DumpIsWhole

-----------------------------------------------------------------------------
(* What the ground gets of a dump (LogTransfer).  Chunks are assembled     *)
(* only for the dump whose command is open.  The assembler may be left     *)
(* open when its command ends with a status of Mission: then nothing of    *)
(* that dump can come any more, and the next one takes it over.            *)

\* What adds to a chunk or ends it, and the status after which Mission sends nothing
\* more of a dump.
Delivers(m) == IsFragment(m) \/ m.status = "Complete"

LastWord(m) == ~ IsFragment(m) /\ m.opcode = "StartLogDump" /\ m.status # "Dumping"

\* Nothing of the dump id comes behind position i of the received frames.
Silent(id, i) ==
    /\ \A k \in 1 .. Len(canRx) : i < k /\ Delivers(canRx[k]) => canRx[k].transfer_id # id
    /\ dump # None => dump.transfer_id # id
    /\ ~ Awaited(id)

Serves(id) == Dumping /\ session.id = id

Heard == \A k \in 1 .. Len(canRx) : canRx[k].transfer_id <= issued

Closed == \A k \in 1 .. Len(canRx) : LastWord(canRx[k]) => Silent(canRx[k].transfer_id, k)

Served == assembler.active => \/ Serves(assembler.transfer_id)
                              \/ Silent(assembler.transfer_id, 0)

ServingInv == Heard /\ Closed /\ Served

LEMMA FramesHaveIds ==
    ASSUME Types
    PROVE  \A k \in 1 .. Len(canRx) : canRx[k].transfer_id \in Id
BY FrameIsOne DEF Types, FragmentSet, StatusSet

LEMMA SessionIsOpen ==
    ASSUME NEW id \in Id, NEW opcode \in Opcode, NEW s, s = [id |-> id, opcode |-> opcode]
    PROVE  s # None /\ s.id = id /\ s.opcode = opcode
BY NoneAssumption

LEMMA ServingInit == Init => ServingInv
BY DEF Init, Idle, ServingInv, Heard, Closed, Served

\* Steps that touch neither the frames of Mission nor what is served.
LEMMA QuietStep ==
    ASSUME RelayIInv, ServingInv, UNCHANGED <<session, assembler, canRx, dump>>,
           issued' \in {issued, issued + 1},
           \A id \in Id : Awaited(id)' => Awaited(id)
    PROVE  ServingInv'
<1>1. \A k \in 1 .. Len(canRx) : canRx[k].transfer_id \in Id
  BY FramesHaveIds DEF RelayIInv
<1>2. issued \in Nat /\ (assembler.active => assembler.transfer_id \in Id)
  BY ControlsAreTyped DEF RelayIInv, Types, AssemblerOK
<1>3. Heard'
  BY <1>1, <1>2 DEF ServingInv, Heard, Id
<1>4. \A id \in Id, i \in Nat : Silent(id, i) => Silent(id, i)'
  BY DEF Silent
<1>5. \A k \in 1 .. Len(canRx) : k \in Nat
  OBVIOUS
<1>6. Closed'
  BY <1>1, <1>4, <1>5 DEF ServingInv, Closed
<1>7. Served'
  BY <1>2, <1>4 DEF ServingInv, Served, Serves, Dumping
<1> QED BY <1>3, <1>6, <1>7 DEF ServingInv

\* A new command: its id is in no frame, and a dump may start only when none is served.
LEMMA StartCommandServes ==
    ASSUME RelayIInv, ServingInv, NEW opcode \in Opcode, NEW offset \in Nat,
           NEW length \in Nat, StartCommand(opcode, offset, length)
    PROVE  ServingInv'
<1> DEFINE id == issued + 1
           control == Control(opcode, id, offset, length)
<1>1. /\ issued \in Nat /\ issued' = id /\ id \in Id /\ sending = None
      /\ UNCHANGED <<transmitting, canRx, dump>>
  BY SizesAssumption
     DEF RelayIInv, Types, StartCommand, Issue, Id, missionVars
<1>2. control \in ControlSet /\ control.transfer_id = id
  BY <1>1 DEF ControlSet, Control
<1>3. \/ canTx' = Append(canTx, control) /\ sending' = sending
      \/ canTx' = canTx /\ sending' = control
  BY Zenon DEF StartCommand
<1>4. session' = [id |-> id, opcode |-> opcode]
  BY DEF StartCommand
<1> HIDE DEF control
<1>5. ASSUME NEW i \in Id, Awaited(i)' PROVE i = id \/ Awaited(i)
  <2>1. CASE canTx' = Append(canTx, control) /\ sending' = sending
    <3>1. /\ Len(canTx') = Len(canTx) + 1 /\ canTx'[Len(canTx) + 1] = control
          /\ \A k \in 1 .. Len(canTx) : canTx'[k] = canTx[k]
      BY <1>2, <2>1, ControlsAppended DEF RelayIInv, Types
    <3> QED BY <1>1, <1>2, <1>5, <2>1, <3>1, ControlsAreTyped DEF RelayIInv, Awaited
  <2>2. CASE canTx' = canTx /\ sending' = control
    BY <1>1, <1>2, <1>5, <2>2 DEF Awaited
  <2> QED BY <1>3, <2>1, <2>2
<1>6. \A k \in 1 .. Len(canRx) : /\ canRx[k].transfer_id \in Id
                                /\ canRx[k].transfer_id <= issued
  BY FramesHaveIds DEF RelayIInv, ServingInv, Heard
<1>7. ASSUME NEW i \in Id, i <= issued, NEW k \in Nat, Silent(i, k) PROVE Silent(i, k)'
  <2>1. i # id
    BY <1>1, <1>7 DEF Id
  <2> QED BY <1>1, <1>5, <1>7, <2>1 DEF Silent
<1>8. Heard'
  BY <1>1, <1>6 DEF Heard, Id
<1>9. Closed'
  BY <1>1, <1>6, <1>7 DEF ServingInv, Closed
<1>10. Served'
  <2>1. CASE opcode = "StopLogDump"
    <3>1. assembler' = Aborted(assembler)
      BY <2>1 DEF StartCommand
    <3> QED BY <3>1, AbortedIsOK DEF Served, RelayIInv, Types, AssemblerOK
  <2>2. CASE opcode = "StartLogDump"
    <3>1. assembler' = Started(id, offset, length)
      BY <2>2 DEF StartCommand
    <3>2. assembler'.transfer_id = id
      BY <3>1 DEF Started
    <3>3. session' # None /\ session'.id = id /\ session'.opcode = "StartLogDump"
      BY <1>1, <1>4, <2>2, SessionIsOpen
    <3> QED BY <3>2, <3>3 DEF Served, Serves, Dumping
  <2>3. CASE opcode \notin {"StopLogDump", "StartLogDump"}
    <3>1. assembler' = assembler /\ session = None
      BY <2>3 DEF StartCommand, MayStart
    <3>2. /\ assembler.active => assembler.transfer_id \in Id
          /\ assembler.transfer_id <= issued
      BY DEF RelayIInv, Types, AssemblerOK, Results, Known
    <3> QED BY <1>7, <3>1, <3>2 DEF ServingInv, Served, Serves, Dumping
  <2> QED BY <2>1, <2>2, <2>3
<1> QED BY <1>8, <1>9, <1>10 DEF ServingInv


\* The control for id has left the board, and no dump runs for it.
Gone(id) == ~ Awaited(id)' /\ (dump' # None => dump'.transfer_id # id)

\* What Mission does: it sends a frame of its dump, or an answer that ends nothing else,
\* and begins a dump only for a control that was on its way.
MissionActs ==
    /\ canRx' = canRx \/ \E m \in Frame :
           /\ canRx' = Append(canRx, m) /\ m.transfer_id <= issued
           /\ Delivers(m) => dump # None /\ m.transfer_id = dump.transfer_id
           /\ LastWord(m) => Gone(m.transfer_id)
    /\ dump' # None => \/ dump # None /\ dump'.transfer_id = dump.transfer_id
                       \/ Awaited(dump'.transfer_id)

LEMMA MissionStep ==
    ASSUME RelayIInv, ServingInv, MissionActs, UNCHANGED issued,
           \A id \in Id : Awaited(id)' => Awaited(id)
    PROVE  /\ Heard' /\ Closed'
           /\ \A id \in Id, i \in Nat : Silent(id, i) => Silent(id, i)'
<1>1. canRx \in Seq(Frame) /\ \A k \in 1 .. Len(canRx) : canRx[k].transfer_id \in Id
  BY FramesHaveIds DEF RelayIInv, Types
<1>2. ASSUME NEW id \in Id, NEW i \in Nat, Silent(id, i), dump' # None
      PROVE  dump'.transfer_id # id
  BY <1>2 DEF MissionActs, Silent
<1>3. CASE canRx' = canRx
  <2>1. \A id \in Id, i \in Nat : Silent(id, i) => Silent(id, i)'
    BY <1>2, <1>3 DEF Silent
  <2>2. Heard'
    BY <1>3 DEF ServingInv, Heard
  <2>3. Closed'
    BY <1>1, <1>3, <2>1 DEF ServingInv, Closed
  <2> QED BY <2>1, <2>2, <2>3
<1>4. CASE canRx' # canRx
  <2>1. PICK m \in Frame :
            /\ canRx' = Append(canRx, m) /\ m.transfer_id <= issued
            /\ Delivers(m) => dump # None /\ m.transfer_id = dump.transfer_id
            /\ LastWord(m) => Gone(m.transfer_id)
    BY <1>4 DEF MissionActs
  <2>2. /\ Len(canRx') = Len(canRx) + 1 /\ Len(canRx) \in Nat
        /\ canRx'[Len(canRx) + 1] = m
        /\ \A k \in 1 .. Len(canRx) : canRx'[k] = canRx[k]
    BY <1>1, <2>1, Appended
  <2>3. ASSUME NEW id \in Id, NEW i \in Nat, Silent(id, i)
        PROVE  Silent(id, i)'
    <3>1. ASSUME NEW k \in 1 .. Len(canRx'), i < k, Delivers(canRx'[k])
          PROVE  canRx'[k].transfer_id # id
      <4>1. CASE k \in 1 .. Len(canRx)
        BY <2>2, <2>3, <3>1, <4>1 DEF Silent
      <4>2. CASE k = Len(canRx) + 1
        BY <2>1, <2>2, <2>3, <3>1, <4>2 DEF Silent
      <4> QED BY <2>2, <4>1, <4>2
    <3> QED BY <1>2, <2>3, <3>1 DEF Silent
  <2>4. Heard'
    BY <2>1, <2>2 DEF ServingInv, Heard
  <2>5. Closed'
    <3> SUFFICES ASSUME NEW k \in 1 .. Len(canRx'), LastWord(canRx'[k])
                 PROVE  Silent(canRx[k].transfer_id, k)'
      BY DEF Closed
    <3>1. CASE k \in 1 .. Len(canRx)
      BY <1>1, <2>2, <2>3, <3>1 DEF ServingInv, Closed
    <3>2. CASE k = Len(canRx) + 1
      BY <2>1, <2>2, <3>2 DEF Silent, Gone
    <3> QED BY <2>2, <3>1, <3>2
  <2> QED BY <2>3, <2>4, <2>5
<1> QED BY <1>3, <1>4

\* A transmission that ends: Mission obeys, or hears nothing.
LEMMA TransmittedActs ==
    ASSUME RelayIInv, transmitting # None, transmitting' = None,
           MissionObeys(transmitting) \/ UNCHANGED missionVars,
           UNCHANGED <<sending, canTx>>
    PROVE  MissionActs /\ \A id \in Id : Awaited(id)' => Awaited(id)
<1>0. PICK c \in ControlSet : c = transmitting
  BY DEF RelayIInv, Types
<1>1. /\ c \in ControlSet /\ c.transfer_id <= issued /\ c.transfer_id \in Id
      /\ c.opcode \in Opcode
  BY <1>0 DEF RelayIInv, Ordered, ControlSet
<1>2. \A id \in Id : Awaited(id)' => Awaited(id)
  BY DEF Awaited
<1>3. ASSUME c.opcode = "StartLogDump"
      PROVE  /\ Awaited(c.transfer_id)
             /\ dump' = dump => Gone(c.transfer_id)
  <2>1. Awaited(c.transfer_id)
    BY <1>0, <1>3 DEF Awaited
  <2>2. /\ \A i \in 1 .. Len(canTx) : c.transfer_id < canTx[i].transfer_id
        /\ sending # None => c.transfer_id < sending.transfer_id
    BY <1>0, <1>3 DEF RelayIInv, Ordered
  <2>3. ~ Awaited(c.transfer_id)'
    BY <1>1, <2>2, ControlsAreTyped DEF RelayIInv, Awaited, Id
  <2>4. dump # None => dump.transfer_id # c.transfer_id
    BY <1>1, <2>1 DEF RelayIInv, Waiting, Unbegun
  <2> QED BY <2>1, <2>3, <2>4 DEF Gone
<1>4. ASSUME NEW opcode \in Opcode, NEW status \in StatusCode, NEW size \in Nat,
             status \notin {"Dumping", "Complete"} => size = 0, status # "Complete",
             opcode = "StartLogDump" /\ status # "Dumping" =>
                 Gone(c.transfer_id),
             Arrive(Status(opcode, c.transfer_id, status, size)),
             dump' # None => dump' = dump \/ Awaited(dump'.transfer_id)
      PROVE  MissionActs
  <2>1. PICK m \in Frame : /\ m = Status(opcode, c.transfer_id, status, size)
                           /\ ~ IsFragment(m)
    BY <1>1, <1>4, StatusIsStatus
  <2>2. m.transfer_id = c.transfer_id /\ m.status = status /\ m.opcode = opcode
    BY <2>1 DEF Status
  <2>3. canRx' \in {canRx, Append(canRx, m)}
    BY <1>4, <2>1 DEF Arrive, Buffered
  <2>4. ~ Delivers(m) /\ (LastWord(m) => opcode = "StartLogDump" /\ status # "Dumping")
    BY <1>4, <2>1, <2>2 DEF Delivers, LastWord
  <2>5. LastWord(m) => Gone(m.transfer_id)
    BY <1>4, <2>2, <2>4
  <2>6. dump' # None => \/ dump # None /\ dump'.transfer_id = dump.transfer_id
                        \/ Awaited(dump'.transfer_id)
    BY <1>4
  <2> QED BY <1>1, <2>2, <2>3, <2>4, <2>5, <2>6 DEF MissionActs
<1>5. /\ {"StartLogDump", "StopLogDump", "Wake", "ExitRecovery"} \subseteq Opcode
      /\ {"Dumping", "Aborted", "Ready"} \subseteq StatusCode /\ Failures \subseteq StatusCode
      /\ "Complete" \notin Failures /\ "Dumping" \notin Failures
      /\ 0 \in Nat /\ FileSize \in Nat
  BY FailuresAssumption, SizesAssumption DEF Opcode, StatusCode
<1>6. CASE /\ c.opcode = "StartLogDump" /\ dump = None
           /\ dump' = [transfer_id |-> c.transfer_id, first |-> c.offset,
                       sequence |-> 0, end |-> RangeEnd(c), lost |-> 0]
           /\ Arrive(Status("StartLogDump", c.transfer_id, "Dumping", FileSize))
  <2>1. dump'.transfer_id = c.transfer_id
    BY <1>6
  <2> QED BY <1>2, <1>3, <1>4, <1>5, <1>6, <2>1
<1>7. CASE /\ c.opcode = "StartLogDump" /\ UNCHANGED dump
           /\ \E code \in Failures :
                  Arrive(Status("StartLogDump", c.transfer_id, code, 0))
  BY <1>2, <1>3, <1>4, <1>5, <1>7
<1>8. CASE dump' = None /\ Arrive(Status("StopLogDump", c.transfer_id, "Aborted", 0))
  BY <1>2, <1>4, <1>5, <1>8
<1>9. CASE /\ c.opcode \in {"Wake", "ExitRecovery"} /\ UNCHANGED dump
           /\ Arrive(Status(c.opcode, c.transfer_id, "Ready", 0))
  BY <1>2, <1>4, <1>5, <1>9
<1>10. CASE UNCHANGED missionVars
  BY <1>2, <1>10 DEF missionVars, MissionActs
<1> QED BY <1>0, <1>2, <1>6, <1>7, <1>8, <1>9, <1>10 DEF MissionObeys

LEMMA TransmitServes ==
    ASSUME RelayIInv, ServingInv, TransmitOk \/ TransmitError
    PROVE  ServingInv'
<1>1. /\ transmitting # None /\ transmitting' = None
      /\ MissionObeys(transmitting) \/ UNCHANGED missionVars
      /\ UNCHANGED <<sending, canTx, issued>>
      /\ \/ assembler' = Aborted(assembler)
         \/ UNCHANGED <<session, assembler>>
  BY DEF TransmitOk, TransmitError, relayVars
<1>2. /\ Heard' /\ Closed'
      /\ \A id \in Id, i \in Nat : Silent(id, i) => Silent(id, i)'
  BY <1>1, TransmittedActs, MissionStep
<1>3. Served'
  <2>1. AssemblerOK(assembler)
    BY DEF RelayIInv, Types
  <2>2. CASE assembler' = Aborted(assembler)
    BY <2>1, <2>2, AbortedIsOK DEF Served, AssemblerOK
  <2>3. CASE UNCHANGED <<session, assembler>>
    BY <1>2, <2>1, <2>3 DEF ServingInv, Served, Serves, Dumping, AssemblerOK
  <2> QED BY <1>1, <2>2, <2>3
<1> QED BY <1>2, <1>3 DEF ServingInv

LEMMA MissionSendsServes ==
    ASSUME RelayIInv, ServingInv, MissionSends
    PROVE  ServingInv'
<1>1. /\ UNCHANGED <<session, assembler, sending, canTx, transmitting, issued>>
  BY DEF MissionSends, relayVars, canVars
<1>2. /\ dump # None /\ dump \in DumpSet /\ dump.transfer_id \in Id
      /\ dump.transfer_id <= issued /\ dump.first \in Nat /\ dump.sequence \in Sequence
  BY DEF MissionSends, RelayIInv, Types, Waiting, DumpSet
<1>3. \A id \in Id : Awaited(id)' <=> Awaited(id)
  BY <1>1 DEF Awaited
<1>4. ~ Awaited(dump.transfer_id)
  BY <1>2 DEF RelayIInv, Waiting, Unbegun
<1>5. MissionActs
  <2>1. CASE \E lost \in {0, dump.lost + 1} :
                 /\ dump' = Next1(dump, lost)
                 /\ canRx' = canRx \/ Buffered(Fragment(dump))
    <3>1. PICK m \in Frame : /\ m = Fragment(dump) /\ IsFragment(m)
                             /\ m.transfer_id = dump.transfer_id
      <4>1. Fragment(dump) \in FragmentSet /\ Fragment(dump).transfer_id = dump.transfer_id
        BY <1>2 DEF Fragment, FragmentSet
      <4> QED BY <4>1 DEF Frame, FragmentSet, IsFragment
    <3>2. canRx' \in {canRx, Append(canRx, m)}
      BY <2>1, <3>1 DEF Buffered
    <3>3. dump'.transfer_id = dump.transfer_id
      BY <2>1 DEF Next1
    <3> QED BY <1>2, <3>1, <3>2, <3>3 DEF MissionActs, LastWord
  <2>2. ASSUME NEW status \in StatusCode, NEW size \in Nat, dump' = None,
               status \notin {"Dumping", "Complete"} => size = 0,
               Arrive(Status("StartLogDump", dump.transfer_id, status, size))
        PROVE  MissionActs
    <3>1. PICK m \in Frame :
              /\ m = Status("StartLogDump", dump.transfer_id, status, size)
              /\ m.transfer_id = dump.transfer_id
      BY <1>2, <2>2, StatusIsStatus DEF Opcode, Status
    <3>2. canRx' \in {canRx, Append(canRx, m)}
      BY <2>2, <3>1 DEF Arrive, Buffered
    <3>3. Gone(m.transfer_id)
      BY <1>2, <1>3, <1>4, <2>2, <3>1 DEF Gone
    <3> QED BY <1>2, <2>2, <3>1, <3>2, <3>3 DEF MissionActs
  <2>3. /\ "Complete" \in StatusCode /\ Failures \subseteq StatusCode
        /\ "Dumping" \notin Failures /\ "Complete" \notin Failures
        /\ 0 \in Nat /\ FileSize \in Nat
    BY FailuresAssumption, SizesAssumption DEF StatusCode
  <2>4. CASE /\ dump' = None
             /\ Arrive(Status("StartLogDump", dump.transfer_id, "Complete", FileSize))
    BY <2>2, <2>3, <2>4
  <2>5. CASE /\ dump' = None
             /\ \E code \in Failures :
                    Arrive(Status("StartLogDump", dump.transfer_id, code, 0))
    BY <2>2, <2>3, <2>5
  <2> QED BY <2>1, <2>4, <2>5, Zenon DEF MissionSends, Next1
<1>6. /\ Heard' /\ Closed'
      /\ \A id \in Id, i \in Nat : Silent(id, i) => Silent(id, i)'
  BY <1>1, <1>3, <1>5, MissionStep
<1>7. Served'
  BY <1>1, <1>6 DEF ServingInv, Served, Serves, Dumping, RelayIInv, Types, AssemblerOK
<1> QED BY <1>6, <1>7 DEF ServingInv


\* A frame is taken: what is silent stays so, and behind a last word of a dump nothing
\* of it is left.
LEMMA ReceivedServes ==
    ASSUME RelayIInv, ServingInv, canRx # <<>>, Receive(Head(canRx))
    PROVE  /\ Heard' /\ Closed'
           /\ \A id \in Id : Silent(id, 0) => Silent(id, 0)'
           /\ LastWord(Head(canRx)) => Silent(Head(canRx).transfer_id, 1)
           /\ \A id \in Id : Silent(id, 1) => Silent(id, 0)'
<1>1. UNCHANGED <<canTx, transmitting, sending, dump, issued>> /\ canRx' = Tail(canRx)
  BY DEF Receive
<1>2. /\ canRx \in Seq(Frame) /\ Len(canRx) \in Nat /\ 1 \in 1 .. Len(canRx)
      /\ Len(canRx') = Len(canRx) - 1 /\ Head(canRx) = canRx[1]
      /\ \A k \in 1 .. Len(canRx) - 1 : canRx'[k] = canRx[k + 1]
  BY <1>1, Taken DEF RelayIInv, Types
<1>3. \A k \in 1 .. Len(canRx') : k + 1 \in 1 .. Len(canRx) /\ canRx'[k] = canRx[k + 1]
  BY <1>2
<1>4. \A id : Awaited(id)' <=> Awaited(id)
  BY <1>1 DEF Awaited
<1>5. ASSUME NEW id \in Id, NEW i \in Nat, Silent(id, i + 1) PROVE Silent(id, i)'
  <2>1. ASSUME NEW k \in 1 .. Len(canRx'), i < k, Delivers(canRx'[k])
        PROVE  canRx'[k].transfer_id # id
    <3>1. i + 1 < k + 1
      BY <2>1
    <3> QED BY <1>3, <1>5, <2>1, <3>1 DEF Silent
  <2> QED BY <1>1, <1>4, <1>5, <2>1 DEF Silent
<1>6. \A id \in Id : Silent(id, 1) => Silent(id, 0)'
  BY <1>5
<1>7. \A id \in Id : Silent(id, 0) => Silent(id, 1)
  BY DEF Silent
<1>8. Heard'
  BY <1>1, <1>3 DEF ServingInv, Heard
<1>9. Closed'
  <2> SUFFICES ASSUME NEW k \in 1 .. Len(canRx'), LastWord(canRx'[k])
               PROVE  Silent(canRx[k].transfer_id, k)'
    BY DEF Closed
  <2>1. canRx[k + 1].transfer_id \in Id /\ Silent(canRx[k + 1].transfer_id, k + 1)
    BY <1>3, FramesHaveIds DEF RelayIInv, ServingInv, Closed
  <2>2. PICK id \in Id : id = canRx[k + 1].transfer_id
    BY <2>1
  <2>3. Silent(id, k)'
    BY <1>5, <2>1, <2>2
  <2> QED BY <1>3, <2>2, <2>3
<1>10. LastWord(Head(canRx)) => Silent(Head(canRx).transfer_id, 1)
  BY <1>2 DEF ServingInv, Closed
<1> QED BY <1>6, <1>7, <1>8, <1>9, <1>10

\* A status that is applied: when it ends the dump that is served, it is its last word.
LEMMA StatusServes ==
    ASSUME RelayIInv, ServingInv, canRx # <<>>, NEW status \in StatusSet,
           status = Head(canRx), Receive(status), ApplyStatus(status),
           assembler'.active => /\ assembler.active
                                /\ assembler'.transfer_id = assembler.transfer_id
    PROVE  ServingInv'
<1>1. /\ Heard' /\ Closed'
      /\ \A id \in Id : Silent(id, 0) => Silent(id, 0)'
      /\ LastWord(status) => Silent(status.transfer_id, 1)
      /\ \A id \in Id : Silent(id, 1) => Silent(id, 0)'
  BY ReceivedServes
<1>2. Served'
  <2> SUFFICES ASSUME assembler'.active
               PROVE  Serves(assembler.transfer_id)' \/ Silent(assembler.transfer_id, 0)'
    BY DEF Served
  <2>1. PICK id \in Id : id = assembler.transfer_id
    BY DEF RelayIInv, Types, AssemblerOK
  <2>2. assembler'.transfer_id = id
    BY <2>1
  <2>3. CASE Silent(id, 0)
    <3>1. Silent(id, 0)'
      BY <1>1, <2>3
    <3> QED BY <2>2, <3>1
  <2>4. CASE Serves(id)
    <3>1. CASE session' = session
      <4>1. Serves(id)'
        BY <2>4, <3>1 DEF Serves, Dumping
      <4> QED BY <2>2, <4>1
    <3>2. CASE session' # session
      <4>1. Concerns(status) /\ ResultOf(status)[1] \in Final
        BY <3>2, Zenon DEF ApplyStatus
      <4>2. status.transfer_id = id /\ status.opcode = "StartLogDump"
        BY <2>4, <4>1 DEF Concerns, OpenIs, Serves, Dumping
      <4>3. status.status # "Dumping"
        <5> SUFFICES ASSUME status.status = "Dumping" PROVE FALSE
          OBVIOUS
        <5>1. ResultOf(status) = <<"Accepted", "None">>
          BY DEF ResultOf
        <5> QED BY <4>1, <5>1 DEF Final
      <4>4. LastWord(status)
        BY <4>2, <4>3 DEF LastWord, IsFragment, StatusSet
      <4>5. Silent(id, 0)'
        BY <1>1, <4>2, <4>4
      <4> QED BY <2>2, <4>5
    <3> QED BY <3>1, <3>2
  <2> QED BY <2>1, <2>3, <2>4 DEF ServingInv, Served
<1> QED BY <1>1, <1>2 DEF ServingInv

\* A frame after which nothing is assembled, or what is assembled goes on.
LEMMA FrameServes ==
    ASSUME RelayIInv, ServingInv, canRx # <<>>, Receive(Head(canRx)),
           assembler'.active => /\ assembler.active /\ UNCHANGED session
                                /\ assembler'.transfer_id = assembler.transfer_id
    PROVE  ServingInv'
<1>1. /\ Heard' /\ Closed' /\ \A id \in Id : Silent(id, 0) => Silent(id, 0)'
  BY ReceivedServes
<1>2. Served'
  <2> SUFFICES ASSUME assembler'.active
               PROVE  Serves(assembler.transfer_id)' \/ Silent(assembler.transfer_id, 0)'
    BY DEF Served
  <2>1. PICK id \in Id : id = assembler.transfer_id
    BY DEF RelayIInv, Types, AssemblerOK
  <2>2. Serves(id)' \/ Silent(id, 0)'
    BY <1>1, <2>1 DEF ServingInv, Served, Serves, Dumping
  <2> QED BY <2>1, <2>2
<1> QED BY <1>1, <1>2 DEF ServingInv

\* What the assembler becomes with a frame.
LEMMA FailureEnds ==
    ASSUME NEW a \in AssemblerSet, NEW reason, FailTransfer(a, reason)
    PROVE  session' = None /\ assembler'.active = FALSE /\ UNCHANGED <<chunks, confirmed>>
BY AbortedIsOK DEF FailTransfer

LEMMA ReceiveStatusServes ==
    ASSUME RelayIInv, ServingInv, canRx # <<>>, ReceiveStatus(Head(canRx))
    PROVE  ServingInv'
<1>1. PICK status \in StatusSet : status = Head(canRx)
  <2>1. Head(canRx) \in Frame /\ Head(canRx).kind = "RecoveryStatus"
    BY Taken DEF RelayIInv, Types, ReceiveStatus
  <2> QED BY <2>1 DEF Frame, FragmentSet
<1> DEFINE sized == WithTotalSize(assembler, status.transfer_id, status.total_size)
           after == AfterChunk(sized, sized.data, TRUE)
<1>2. /\ sized \in AssemblerSet /\ sized.data \in Seq(Nat)
      /\ sized.active = assembler.active /\ sized.transfer_id = assembler.transfer_id
  <2>1. status.transfer_id \in Id /\ status.total_size \in Nat
    BY DEF StatusSet
  <2>2. /\ AssemblerOK(sized)
        /\ sized.active = assembler.active /\ sized.transfer_id = assembler.transfer_id
    BY <2>1, SizedIsOK DEF RelayIInv, Types
  <2> QED BY <2>2 DEF AssemblerOK, AssemblerSet
<1>3. after \in AssemblerSet /\ after.active = FALSE
  <2> HIDE DEF sized
  <2> QED BY <1>2, LastChunkTaken DEF Fields
<1>4. /\ Receive(status)
      /\ \/ assembler' = after /\ ApplyStatus(status)
         \/ FailTransfer(after, "InternalError")
         \/ assembler' = sized /\ ApplyStatus(status)
  BY <1>1, Zenon DEF ReceiveStatus
<1> HIDE DEF sized, after
<1>5. CASE ApplyStatus(status) /\ assembler' \in {after, sized}
  BY <1>1, <1>2, <1>3, <1>4, <1>5, StatusServes
<1>6. CASE FailTransfer(after, "InternalError")
  BY <1>1, <1>3, <1>4, <1>6, FailureEnds, FrameServes
<1> QED BY <1>4, <1>5, <1>6

\* What a fragment leaves of the assembler, and the chunk it fills.
LEMMA PushedShape ==
    ASSUME RelayIInv, canRx # <<>>, NEW f \in FragmentSet, f = Head(canRx),
           ~ Refused(assembler, f), NEW r, r = Pushed(assembler, f)
    PROVE  /\ r.assembler \in AssemblerSet /\ assembler.active
           /\ r.assembler.transfer_id = assembler.transfer_id
           /\ assembler.transfer_id \in Id
           /\ f.transfer_id = assembler.transfer_id
           /\ r.chunk = None => r.assembler.active
           /\ r.chunk # None =>
                  /\ r.chunk \in ChunkSet /\ r.chunk.transfer_id = assembler.transfer_id
                  /\ r.chunk.offset = assembler.offset
                  /\ Len(r.chunk.data) <= ChunkSize
                  /\ Len(r.chunk.data) = ChunkSize \/ r.chunk.end_of_file
                  /\ r.assembler.active = ~ r.chunk.end_of_file
<1> DEFINE a == assembler
<1>1. /\ AssemblerOK(a) /\ canRx \in Seq(Frame) /\ InOrder(a, canRx, dump)
      /\ Contiguous(a.data)
  BY DEF RelayIInv, Types, Stream, Whole
<1>2. a.active /\ f.transfer_id = a.transfer_id /\ a.transfer_id \in Id
  BY <1>1 DEF Refused, NotStarted, WrongTransfer, AssemblerOK
<1>3. PICK b \in Int : /\ At(a.data, b)
                       /\ FragmentLength(a) = 0 \/ f.first = b + Len(a.data) + 1
  BY <1>1, FragmentFits
<1>4. PushedWell(a, f, b, r)
  BY <1>1, <1>2, <1>3, PushedIsWell
<1> QED BY <1>2, <1>4 DEF PushedWell, AssemblerOK

LEMMA ReceiveFragmentServes ==
    ASSUME RelayIInv, ServingInv, canRx # <<>>, ReceiveFragment(Head(canRx))
    PROVE  ServingInv'
<1>1. PICK f \in FragmentSet : f = Head(canRx)
  <2>1. Head(canRx) \in Frame /\ Head(canRx).kind = "RecoveryLogData"
    BY Taken DEF RelayIInv, Types, ReceiveFragment
  <2> QED BY <2>1 DEF Frame, StatusSet
<1> DEFINE r == Pushed(assembler, f)
           a == IF SequenceGap(assembler, f) THEN AfterGap(assembler) ELSE assembler
<1>2. /\ Receive(f)
      /\ \/ FailTransfer(a, "ProtocolError")
         \/ ~ Refused(assembler, f) /\ assembler' = r.assembler /\ UNCHANGED session
         \/ ~ Refused(assembler, f) /\ FailTransfer(r.assembler, "InternalError")
  BY <1>1, Zenon DEF ReceiveFragment
<1>3. AssemblerOK(assembler) /\ assembler \in AssemblerSet
  BY DEF RelayIInv, Types, AssemblerOK
<1>4. a \in AssemblerSet
  BY <1>3, GapIsOK DEF AssemblerOK
<1>5. ~ Refused(assembler, f) =>
          /\ r.assembler \in AssemblerSet /\ assembler.active
          /\ r.assembler.transfer_id = assembler.transfer_id
  BY <1>1, PushedShape
<1> HIDE DEF r, a
<1> QED BY <1>1, <1>2, <1>4, <1>5, FailureEnds, FrameServes

LEMMA NextServes ==
    ASSUME RelayIInv, ServingInv, [Next]_vars
    PROVE  ServingInv'
<1>1. CASE Ground
  <2>1. PICK request \in Requests : \/ RejectCommand(request[1])
                                    \/ StartCommand(request[1], request[2], request[3])
    BY <1>1, Zenon DEF Ground
  <2>2. request[1] \in Opcode /\ request[2] \in Nat /\ request[3] \in Nat
    BY RequestsAssumption
  <2>3. CASE RejectCommand(request[1])
    <3>1. /\ UNCHANGED <<session, assembler, canRx, dump, canTx, sending, transmitting>>
          /\ issued' = issued + 1
      BY <2>3 DEF RejectCommand, Issue, canVars, missionVars
    <3>2. \A id \in Id : Awaited(id)' => Awaited(id)
      BY <3>1 DEF Awaited
    <3> QED BY <3>1, <3>2, QuietStep
  <2> QED BY <2>1, <2>2, <2>3, StartCommandServes
<1>2. CASE CommandResume
  <2>1. /\ UNCHANGED <<session, assembler, canRx, dump, transmitting, issued>>
        /\ sending # None /\ sending' = None /\ canTx' = Append(canTx, sending)
    BY <1>2 DEF CommandResume, missionVars
  <2>2. /\ Len(canTx') = Len(canTx) + 1 /\ canTx'[Len(canTx) + 1] = sending
        /\ Len(canTx) \in Nat /\ \A i \in 1 .. Len(canTx) : canTx'[i] = canTx[i]
    BY <2>1, ControlsAppended DEF RelayIInv, Types
  <2>3. \A id \in Id : Awaited(id)' => Awaited(id)
    BY <2>1, <2>2 DEF Awaited
  <2> QED BY <2>1, <2>3, QuietStep
<1>3. CASE SelectTransmit
  <2>1. UNCHANGED <<session, assembler, canRx, dump, sending, issued>>
    BY <1>3 DEF SelectTransmit, relayVars, missionVars
  <2>2. \A id \in Id : Awaited(id)' => Awaited(id)
    <3>1. CASE safetyTx # <<>> /\ transmitting' = Head(safetyTx) /\ UNCHANGED canTx
      <4>1. transmitting'.opcode = "StopLogDump"
        BY <3>1, ControlsTaken DEF RelayIInv, Types, Ordered
      <4> QED BY <2>1, <3>1, <4>1 DEF Awaited
    <3>2. CASE canTx # <<>> /\ transmitting' = Head(canTx) /\ canTx' = Tail(canTx)
      <4>1. /\ Len(canTx) \in Nat /\ Len(canTx) >= 1 /\ transmitting' = canTx[1]
            /\ \A i \in 1 .. Len(canTx') : /\ i + 1 \in 1 .. Len(canTx)
                                           /\ canTx'[i] = canTx[i + 1]
        BY <3>2, ControlsTaken DEF RelayIInv, Types
      <4> QED BY <2>1, <4>1 DEF Awaited
    <3> QED BY <1>3, <3>1, <3>2 DEF SelectTransmit
  <2> QED BY <2>1, <2>2, QuietStep
<1>4. CASE TransmitOk \/ TransmitError
  BY <1>4, TransmitServes
<1>5. CASE MissionSends
  BY <1>5, MissionSendsServes
<1>6. CASE ReceiveFrame
  <2>1. CASE canRx # <<>> /\ ReceiveStatus(Head(canRx))
    BY <2>1, ReceiveStatusServes
  <2>2. CASE canRx # <<>> /\ ReceiveFragment(Head(canRx))
    BY <2>2, ReceiveFragmentServes
  <2> QED BY <1>6, <2>1, <2>2, Zenon DEF ReceiveFrame
<1>7. CASE MissionEntersRecovery \/ SendChunk \/ UNCHANGED vars
  <2>1. UNCHANGED <<session, assembler, canRx, dump, canTx, sending, transmitting, issued>>
    BY <1>7 DEF MissionEntersRecovery, SendChunk, vars, relayVars, canVars, missionVars
  <2>2. \A id \in Id : Awaited(id)' => Awaited(id)
    BY <2>1 DEF Awaited
  <2> QED BY <2>1, <2>2, QuietStep
<1> QED BY <1>1, <1>2, <1>3, <1>4, <1>5, <1>6, <1>7, Zenon DEF Next, CanOwner

LEMMA ServingInvAlways == Spec => [](RelayIInv /\ ServingInv)
<1>1. RelayIInv /\ ServingInv /\ [Next]_vars => ServingInv'
  BY NextServes
<1> QED BY ServingInit, <1>1, RelayIInvAlways, PTL DEF Spec


-----------------------------------------------------------------------------
(* Every step of the relay is one of LogTransfer, or none.                 *)

\* What the ground sees of a chunk, and of a queue of chunks.
Entry(chunk) == [id |-> chunk.transfer_id, first |-> chunk.offset,
                 length |-> Len(chunk.data), last |-> chunk.end_of_file]

Shown(queue) == [c \in DOMAIN queue |-> Entry(queue[c])]

EntrySet == [id : Id, first : Nat, length : Nat, last : BOOLEAN]

LEMMA OutboxIsShown == Outbox = Shown(chunks) /\ Outbox' = Shown(chunks')
BY DEF Outbox, Shown, Entry

LEMMA ShownIs ==
    ASSUME NEW queue \in Seq(ChunkSet)
    PROVE  /\ Shown(queue) \in Seq(EntrySet) /\ Len(Shown(queue)) = Len(queue)
           /\ \A c \in 1 .. Len(queue) : Shown(queue)[c] = Entry(queue[c])
<1> DEFINE n == Len(queue)
<1>1. n \in Nat /\ DOMAIN queue = 1 .. n /\ \A c \in 1 .. n : queue[c] \in ChunkSet
  BY LenProperties, ElementOfSeq
<1>2. \A chunk \in ChunkSet : Entry(chunk) \in EntrySet
  BY LenProperties DEF ChunkSet, Entry, EntrySet
<1> HIDE DEF n
<1>3. /\ Shown(queue) = [c \in 1 .. n |-> Entry(queue[c])]
      /\ Shown(queue) \in [1 .. n -> EntrySet]
  BY <1>1, <1>2 DEF Shown
<1>4. Shown(queue) \in Seq(EntrySet)
  BY <1>1, <1>3, SeqDef
<1>5. DOMAIN Shown(queue) = 1 .. n
  BY <1>3
<1>6. Len(Shown(queue)) \in Nat /\ DOMAIN Shown(queue) = 1 .. Len(Shown(queue))
  BY <1>4, LenProperties
<1>7. Len(Shown(queue)) = n
  BY <1>1, <1>5, <1>6
<1> QED BY <1>3, <1>4, <1>7 DEF n

LEMMA OutboxAppended ==
    ASSUME Types, NEW chunk \in ChunkSet, chunks' = Append(chunks, chunk)
    PROVE  Outbox' = Append(Outbox, Entry(chunk))
<1> DEFINE old == Shown(chunks)
           new == Shown(Append(chunks, chunk))
           entry == Entry(chunk)
<1>1. /\ chunks \in Seq(ChunkSet) /\ Append(chunks, chunk) \in Seq(ChunkSet)
      /\ Len(chunks) \in Nat /\ Len(Append(chunks, chunk)) = Len(chunks) + 1
      /\ Append(chunks, chunk)[Len(chunks) + 1] = chunk
      /\ \A c \in 1 .. Len(chunks) : Append(chunks, chunk)[c] = chunks[c]
  BY AppendProperties, LenProperties DEF Types
<1>2. /\ old \in Seq(EntrySet) /\ Len(old) = Len(chunks)
      /\ \A c \in 1 .. Len(chunks) : old[c] = Entry(chunks[c])
  BY <1>1, ShownIs
<1>3. /\ new \in Seq(EntrySet) /\ Len(new) = Len(chunks) + 1
      /\ \A c \in 1 .. Len(chunks) + 1 : new[c] = Entry(Append(chunks, chunk)[c])
  BY <1>1, ShownIs
<1>4. new[Len(old) + 1] = entry /\ entry \in EntrySet
  <2>1. Len(old) + 1 \in 1 .. Len(new)
    BY <1>1, <1>2, <1>3
  <2> QED BY <1>1, <1>2, <1>3, <2>1, ElementOfSeq
<1>5. \A c \in 1 .. Len(old) : new[c] = old[c]
  BY <1>1, <1>2, <1>3
<1> HIDE DEF old, new, entry
<1>6. /\ Append(old, entry) \in Seq(EntrySet) /\ Len(Append(old, entry)) = Len(new)
      /\ \A c \in 1 .. Len(old) : Append(old, entry)[c] = old[c]
      /\ Append(old, entry)[Len(old) + 1] = entry
  BY <1>2, <1>3, <1>4, AppendProperties
<1>7. \A c \in 1 .. Len(new) : new[c] = Append(old, entry)[c]
  BY <1>1, <1>2, <1>3, <1>4, <1>5, <1>6
<1>8. new = Append(old, entry)
  BY <1>3, <1>6, <1>7, SeqEqual
<1> QED BY <1>8, OutboxIsShown DEF old, new, entry

LEMMA OutboxTaken ==
    ASSUME Types, chunks # <<>>, chunks' = Tail(chunks)
    PROVE  Outbox # <<>> /\ Outbox' = Tail(Outbox)
<1> DEFINE old == Shown(chunks)
           new == Shown(Tail(chunks))
           n == Len(chunks)
<1>1. /\ chunks \in Seq(ChunkSet) /\ Tail(chunks) \in Seq(ChunkSet) /\ n \in Nat /\ n >= 1
      /\ Len(Tail(chunks)) = n - 1
      /\ \A c \in 1 .. n - 1 : Tail(chunks)[c] = chunks[c + 1]
  BY HeadTailProperties, LenProperties, EmptySeq DEF Types
<1>2. /\ old \in Seq(EntrySet) /\ Len(old) = n
      /\ \A c \in 1 .. n : old[c] = Entry(chunks[c])
  BY <1>1, ShownIs
<1>3. /\ new \in Seq(EntrySet) /\ Len(new) = n - 1
      /\ \A c \in 1 .. n - 1 : new[c] = Entry(Tail(chunks)[c])
  BY <1>1, ShownIs
<1>4. \A c \in 1 .. n - 1 : new[c] = old[c + 1]
  BY <1>1, <1>2, <1>3
<1> HIDE DEF old, new, n
<1>5. old # <<>>
  BY <1>1, <1>2, EmptySeq
<1>6. /\ Tail(old) \in Seq(EntrySet) /\ Len(Tail(old)) = n - 1
      /\ \A c \in 1 .. n - 1 : Tail(old)[c] = old[c + 1]
  BY <1>1, <1>2, <1>5, HeadTailProperties
<1>7. new = Tail(old)
  BY <1>3, <1>4, <1>6, SeqEqual
<1> QED BY <1>5, <1>7, OutboxIsShown DEF old, new

\* No chunk is queued: the dump goes on as it was, or ends.
LEMMA NoChunkStep ==
    ASSUME RelayIInv, UNCHANGED <<issued, chunks, confirmed>>,
           \/ session' = session /\ (Dumping => assembler'.active = assembler.active)
           \/ session' = None
    PROVE  [Transfer!Next]_(Transfer!vars)
<1>1. UNCHANGED <<1 .. issued, confirmed, Outbox>>
  BY DEF Outbox
<1>2. CASE session' = session /\ (Dumping => assembler'.active = assembler.active)
  <2>1. Dumping' <=> Dumping
    BY <1>2 DEF Dumping
  <2>2. UNCHANGED (IF Dumping THEN session.id ELSE None)
    BY <1>2, <2>1
  <2>3. UNCHANGED (Dumping /\ ~ assembler.active)
    BY <1>2, <2>1, Zenon
  <2> QED BY <1>1, <2>2, <2>3, Zenon DEF Transfer!vars
<1>3. CASE session' = None /\ Dumping
  <2>1. Dumping' = FALSE
    BY <1>3 DEF Dumping
  <2>2. session.id \in Id /\ session.id # None
    BY <1>3, NoneAssumption DEF RelayIInv, Types, Dumping, Id
  <2>3. Transfer!End
    BY <1>1, <1>3, <2>1, <2>2, Zenon DEF Transfer!End, Transfer!NothingServed
  <2> QED BY <2>3 DEF Transfer!Next
<1>4. CASE session' = None /\ ~ Dumping
  <2>1. Dumping' = FALSE /\ Dumping = FALSE
    BY <1>4 DEF Dumping
  <2> QED BY <1>1, <2>1, Zenon DEF Transfer!vars
<1> QED BY <1>2, <1>3, <1>4

\* A chunk of the dump that is served is queued, and the dump ends at most with it.
LEMMA ChunkStep ==
    ASSUME RelayIInv, NEW chunk \in ChunkSet, QueueChunk(chunk), UNCHANGED issued,
           Serves(chunk.transfer_id), assembler.active,
           chunk.offset = confirmed[chunk.transfer_id],
           Len(chunk.data) <= ChunkSize,
           Len(chunk.data) = ChunkSize \/ chunk.end_of_file,
           assembler'.active = ~ chunk.end_of_file,
           session' = session \/ (chunk.end_of_file /\ session' = None)
    PROVE  [Transfer!Next]_(Transfer!vars)
<1>1. /\ chunk.transfer_id \in Id /\ chunk.transfer_id # None
      /\ Len(chunk.data) \in 0 .. ChunkSize /\ chunk.end_of_file \in BOOLEAN
  BY NoneAssumption, LenProperties, SizesAssumption DEF ChunkSet, Id
<1> DEFINE id == chunk.transfer_id
           length == Len(chunk.data)
           last == chunk.end_of_file
<1>2. Outbox' = Append(Outbox, Entry(chunk))
  BY OutboxAppended DEF QueueChunk, RelayIInv
<1>3. Entry(chunk) = [id |-> id, first |-> confirmed[id], length |-> length, last |-> last]
  BY DEF Entry
<1>4. confirmed' = [confirmed EXCEPT ![id] = confirmed[id] + length]
  BY DEF QueueChunk
<1>5. /\ (IF Dumping THEN session.id ELSE None) = id
      /\ (Dumping /\ ~ assembler.active) = FALSE
  BY DEF Serves
<1>6. UNCHANGED (1 .. issued)
  OBVIOUS
<1>7. \/ /\ (IF Dumping THEN session.id ELSE None)' = id
         /\ (Dumping /\ ~ assembler.active)' = last
      \/ /\ last /\ (IF Dumping THEN session.id ELSE None)' = None
         /\ (Dumping /\ ~ assembler.active)' = FALSE
  <2>1. CASE session' = session
    <3>1. Dumping' /\ session'.id = id
      BY <2>1 DEF Serves, Dumping
    <3>2. (~ assembler'.active) = last
      BY <1>1
    <3> QED BY <3>1, <3>2, Zenon
  <2>2. CASE last /\ session' = None
    <3>1. Dumping' = FALSE
      BY <2>2 DEF Dumping
    <3> QED BY <2>2, <3>1, Zenon
  <2> QED BY <2>1, <2>2
<1> HIDE DEF id, length, last
<1>8. Transfer!Deliver(length, last)
  <2>1. length = ChunkSize \/ last
    BY DEF length, last
  <2>2. id # None
    BY <1>1 DEF id
  <2> QED BY <1>2, <1>3, <1>4, <1>5, <1>6, <1>7, <2>1, <2>2, Zenon
          DEF Transfer!Deliver, Transfer!NothingServed
<1>9. length \in 0 .. ChunkSize /\ last \in BOOLEAN
  BY <1>1 DEF length, last
<1> QED BY <1>8, <1>9, Zenon DEF Transfer!Next

\* The next command of the ground.
LEMMA AskStep ==
    ASSUME RelayIInv, issued' = issued + 1, issued < MaxCommands
    PROVE  /\ issued + 1 \in Id /\ issued + 1 \notin 1 .. issued
           /\ (1 .. issued)' = (1 .. issued) \cup {issued + 1}
<1>1. issued \in Nat /\ MaxCommands \in Nat
  BY SizesAssumption DEF RelayIInv, Types
<1>2. \A i \in Int : i \in 1 .. issued + 1 <=> i \in 1 .. issued \/ i = issued + 1
  BY <1>1
<1> QED BY <1>1, <1>2 DEF Id

LEMMA CommandIsAsked ==
    ASSUME RelayIInv, NEW request \in Requests,
           RejectCommand(request[1]) \/ StartCommand(request[1], request[2], request[3])
    PROVE  [Transfer!Next]_(Transfer!vars)
<1> DEFINE id == issued + 1
           offset == request[2]
<1>1. issued' = id /\ issued < MaxCommands
  BY DEF RejectCommand, StartCommand, Issue
<1>2. id \in Id /\ Transfer!Ask(id)
  BY <1>1, AskStep DEF Transfer!Ask
<1>3. offset \in {r[2] : r \in Requests}
  OBVIOUS
<1> HIDE DEF id, offset
<1>4. CASE RejectCommand(request[1])
  <2>1. UNCHANGED <<session, assembler, confirmed, chunks>>
    BY <1>4 DEF RejectCommand
  <2>2. Dumping' <=> Dumping
    BY <2>1 DEF Dumping
  <2>3. /\ UNCHANGED (IF Dumping THEN session.id ELSE None)
        /\ UNCHANGED (Dumping /\ ~ assembler.active)
    BY <2>1, <2>2, Zenon
  <2>4. UNCHANGED Outbox
    BY <2>1 DEF Outbox
  <2>5. Transfer!Other(id)
    BY <1>2, <2>1, <2>3, <2>4, Zenon DEF Transfer!Other
  <2> QED BY <1>2, <2>5, Zenon DEF Transfer!Next
<1>5. CASE StartCommand(request[1], request[2], request[3])
  <2>1. /\ session' = [id |-> id, opcode |-> request[1]]
        /\ confirmed' = [confirmed EXCEPT ![id] = offset]
        /\ UNCHANGED chunks
        /\ MayStart(request[1]) /\ request[1] \in Opcode
    BY <1>5, RequestsAssumption DEF StartCommand, id, offset
  <2>2. session' # None /\ session'.id = id /\ session'.opcode = request[1]
    BY <1>2, <2>1, SessionIsOpen
  <2>3. UNCHANGED Outbox
    BY <2>1 DEF Outbox
  <2>4. CASE request[1] = "StartLogDump"
    <3>1. session = None
      BY <2>1, <2>4 DEF MayStart
    <3>2. assembler'.active = TRUE
      BY <1>5, <2>4 DEF StartCommand, Started
    <3>3. Dumping' = TRUE /\ Dumping = FALSE
      BY <2>2, <2>4, <3>1 DEF Dumping
    <3>4. /\ (IF Dumping THEN session.id ELSE None) = None
          /\ (IF Dumping THEN session.id ELSE None)' = id
          /\ (Dumping /\ ~ assembler.active)' = FALSE
      BY <2>2, <3>2, <3>3
    <3>5. Transfer!Start(id, offset)
      BY <1>2, <2>1, <2>3, <3>4, Zenon DEF Transfer!Start
    <3> QED BY <1>2, <1>3, <3>5, Zenon DEF Transfer!Next
  <2>5. CASE request[1] # "StartLogDump"
    <3>1. Dumping' = FALSE
      BY <2>2, <2>5 DEF Dumping
    <3>2. /\ (IF Dumping THEN session.id ELSE None)' = None
          /\ (Dumping /\ ~ assembler.active)' = FALSE
      BY <3>1
    <3>3. Transfer!NothingServed
      BY <3>2, Zenon DEF Transfer!NothingServed
    <3>4. Transfer!Other(id)
      BY <1>2, <1>3, <2>1, <2>3, <3>3, Zenon DEF Transfer!Other
    <3> QED BY <1>2, <3>4, Zenon DEF Transfer!Next
  <2> QED BY <2>4, <2>5
<1> QED BY <1>4, <1>5

\* What is queued at a frame belongs to the dump that is served, and begins where the
\* last chunk ended.
LEMMA FrameIsServed ==
    ASSUME RelayIInv, ServingInv, canRx # <<>>, Delivers(Head(canRx)),
           assembler.active, Head(canRx).transfer_id = assembler.transfer_id
    PROVE  /\ Serves(assembler.transfer_id)
           /\ assembler.offset = confirmed[assembler.transfer_id]
<1>1. Head(canRx) = canRx[1] /\ 1 \in 1 .. Len(canRx)
  BY Taken DEF RelayIInv, Types
<1>2. ~ Silent(assembler.transfer_id, 0)
  BY <1>1 DEF Silent
<1> QED BY <1>2 DEF RelayIInv, Results, InStep, ServingInv, Served

LEMMA StatusIsTransferred ==
    ASSUME RelayIInv, ServingInv, canRx # <<>>, ReceiveStatus(Head(canRx))
    PROVE  [Transfer!Next]_(Transfer!vars)
<1>1. PICK status \in StatusSet : status = Head(canRx)
  <2>1. Head(canRx) \in Frame /\ Head(canRx).kind = "RecoveryStatus"
    BY Taken DEF RelayIInv, Types, ReceiveStatus
  <2> QED BY <2>1 DEF Frame, FragmentSet
<1> DEFINE sized == WithTotalSize(assembler, status.transfer_id, status.total_size)
           after == AfterChunk(sized, sized.data, TRUE)
           last == ChunkOf(sized, sized.data, TRUE)
           flush == /\ status.status = "Complete"
                    /\ sized.active /\ sized.transfer_id = status.transfer_id
<1>2. /\ sized \in AssemblerSet /\ sized.data \in Seq(Nat) /\ Len(sized.data) < ChunkSize
      /\ sized.active = assembler.active /\ sized.transfer_id = assembler.transfer_id
      /\ sized.offset = assembler.offset
  <2>1. status.transfer_id \in Id /\ status.total_size \in Nat
    BY DEF StatusSet
  <2>2. /\ AssemblerOK(sized) /\ sized.offset = assembler.offset
        /\ sized.active = assembler.active /\ sized.transfer_id = assembler.transfer_id
    BY <2>1, SizedIsOK DEF RelayIInv, Types
  <2> QED BY <2>2 DEF AssemblerOK, AssemblerSet
<1>3. after \in AssemblerSet /\ after.active = FALSE
  <2> HIDE DEF sized
  <2> QED BY <1>2, LastChunkTaken DEF Fields
<1>4. /\ UNCHANGED issued
      /\ \/ /\ flush /\ QueueChunk(last) /\ assembler' = after /\ ApplyStatus(status)
         \/ FailTransfer(after, "InternalError")
         \/ /\ assembler' = sized /\ ApplyStatus(status)
            /\ UNCHANGED <<chunks, confirmed>>
  BY <1>1, Zenon DEF ReceiveStatus, Receive
<1>5. ApplyStatus(status) => session' \in {session, None}
  BY Zenon DEF ApplyStatus
<1>6. last = [transfer_id |-> assembler.transfer_id, offset |-> assembler.offset,
              data |-> sized.data, end_of_file |-> TRUE]
  BY <1>2, Zenon DEF ChunkOf
<1> HIDE DEF sized, after, last
<1>7. CASE flush /\ QueueChunk(last) /\ assembler' = after /\ ApplyStatus(status)
  <2>1. /\ status.status = "Complete" /\ assembler.active
        /\ assembler.transfer_id = status.transfer_id
    BY <1>2, <1>7
  <2>2. /\ Serves(assembler.transfer_id) /\ assembler.transfer_id \in Id
        /\ assembler.offset = confirmed[assembler.transfer_id]
    BY <1>1, <2>1, FrameIsServed DEF Delivers, StatusSet
  <2>3. /\ last.transfer_id = assembler.transfer_id /\ last.offset = assembler.offset
        /\ last.data = sized.data /\ last.end_of_file = TRUE
    BY <1>6
  <2>4. last \in ChunkSet
    <3>1. assembler.offset \in Nat
      BY DEF RelayIInv, Types, AssemblerOK, AssemblerSet
    <3> QED BY <1>2, <1>6, <2>2, <3>1 DEF ChunkSet
  <2>5. Len(last.data) <= ChunkSize
    BY <1>2, <2>3, LenProperties, SizesAssumption
  <2>6. assembler'.active = FALSE
    BY <1>3, <1>7
  <2> QED BY <1>4, <1>5, <1>7, <2>1, <2>2, <2>3, <2>4, <2>5, <2>6, ChunkStep
<1>8. CASE FailTransfer(after, "InternalError")
  BY <1>3, <1>4, <1>8, FailureEnds, NoChunkStep
<1>9. CASE assembler' = sized /\ ApplyStatus(status) /\ UNCHANGED <<chunks, confirmed>>
  BY <1>2, <1>4, <1>5, <1>9, NoChunkStep
<1> QED BY <1>4, <1>7, <1>8, <1>9

LEMMA FragmentIsTransferred ==
    ASSUME RelayIInv, ServingInv, canRx # <<>>, ReceiveFragment(Head(canRx))
    PROVE  [Transfer!Next]_(Transfer!vars)
<1>1. PICK f \in FragmentSet : f = Head(canRx)
  <2>1. Head(canRx) \in Frame /\ Head(canRx).kind = "RecoveryLogData"
    BY Taken DEF RelayIInv, Types, ReceiveFragment
  <2> QED BY <2>1 DEF Frame, StatusSet
<1> DEFINE r == Pushed(assembler, f)
           a == IF SequenceGap(assembler, f) THEN AfterGap(assembler) ELSE assembler
<1>2. /\ UNCHANGED issued
      /\ \/ FailTransfer(a, "ProtocolError")
         \/ /\ ~ Refused(assembler, f) /\ r.chunk = None /\ assembler' = r.assembler
            /\ UNCHANGED <<session, chunks, confirmed>>
         \/ /\ ~ Refused(assembler, f) /\ r.chunk # None /\ QueueChunk(r.chunk)
            /\ assembler' = r.assembler /\ UNCHANGED session
         \/ ~ Refused(assembler, f) /\ FailTransfer(r.assembler, "InternalError")
  BY <1>1, Zenon DEF ReceiveFragment, Receive
<1>3. AssemblerOK(assembler) /\ assembler \in AssemblerSet
  BY DEF RelayIInv, Types, AssemblerOK
<1>4. a \in AssemblerSet
  BY <1>3, GapIsOK DEF AssemblerOK
<1>5. ~ Refused(assembler, f) =>
          /\ r.assembler \in AssemblerSet /\ assembler.active
          /\ f.transfer_id = assembler.transfer_id
          /\ r.chunk = None => r.assembler.active
          /\ r.chunk # None =>
                 /\ r.chunk \in ChunkSet /\ r.chunk.transfer_id = assembler.transfer_id
                 /\ r.chunk.offset = assembler.offset
                 /\ Len(r.chunk.data) <= ChunkSize
                 /\ Len(r.chunk.data) = ChunkSize \/ r.chunk.end_of_file
                 /\ r.assembler.active = ~ r.chunk.end_of_file
  BY <1>1, PushedShape
<1> HIDE DEF r, a
<1>6. CASE FailTransfer(a, "ProtocolError")
  BY <1>2, <1>4, <1>6, FailureEnds, NoChunkStep
<1>7. CASE /\ ~ Refused(assembler, f) /\ r.chunk = None /\ assembler' = r.assembler
           /\ UNCHANGED <<session, chunks, confirmed>>
  <2>1. assembler.active = TRUE /\ assembler'.active = TRUE
    BY <1>3, <1>5, <1>7 DEF AssemblerSet
  <2> QED BY <1>2, <1>7, <2>1, NoChunkStep
<1>8. CASE /\ ~ Refused(assembler, f) /\ r.chunk # None /\ QueueChunk(r.chunk)
           /\ assembler' = r.assembler /\ UNCHANGED session
  <2>1. /\ Serves(assembler.transfer_id)
        /\ assembler.offset = confirmed[assembler.transfer_id]
    BY <1>1, <1>5, <1>8, FrameIsServed DEF Delivers, IsFragment, FragmentSet
  <2> QED BY <1>2, <1>5, <1>8, <2>1, ChunkStep
<1>9. CASE ~ Refused(assembler, f) /\ FailTransfer(r.assembler, "InternalError")
  BY <1>2, <1>5, <1>9, FailureEnds, NoChunkStep
<1> QED BY <1>2, <1>6, <1>7, <1>8, <1>9

LEMMA StepIsTransferred ==
    ASSUME RelayIInv, ServingInv, [Next]_vars
    PROVE  [Transfer!Next]_(Transfer!vars)
<1>1. CASE Ground
  <2>1. PICK request \in Requests : \/ RejectCommand(request[1])
                                    \/ StartCommand(request[1], request[2], request[3])
    BY <1>1, Zenon DEF Ground
  <2> QED BY <2>1, CommandIsAsked
<1>2. CASE CommandResume \/ SelectTransmit \/ TransmitOk \/ MissionSends
           \/ MissionEntersRecovery \/ UNCHANGED vars
  <2>1. UNCHANGED <<issued, chunks, confirmed, session, assembler>>
    BY <1>2 DEF CommandResume, SelectTransmit, TransmitOk, MissionSends,
                MissionEntersRecovery, vars, relayVars
  <2> QED BY <2>1, NoChunkStep
<1>3. CASE TransmitError
  <2>1. /\ UNCHANGED <<issued, chunks, confirmed>>
        /\ session' = None \/ UNCHANGED <<session, assembler>>
    BY <1>3 DEF TransmitError
  <2> QED BY <2>1, NoChunkStep
<1>4. CASE ReceiveFrame
  <2>1. CASE canRx # <<>> /\ ReceiveStatus(Head(canRx))
    BY <2>1, StatusIsTransferred
  <2>2. CASE canRx # <<>> /\ ReceiveFragment(Head(canRx))
    BY <2>2, FragmentIsTransferred
  <2> QED BY <1>4, <2>1, <2>2, Zenon DEF ReceiveFrame
<1>5. CASE SendChunk
  <2>1. /\ chunks # <<>> /\ chunks' = Tail(chunks)
        /\ UNCHANGED <<issued, confirmed, session, assembler>>
    BY <1>5 DEF SendChunk
  <2>2. Outbox # <<>> /\ Outbox' = Tail(Outbox)
    BY <2>1, OutboxTaken DEF RelayIInv
  <2>3. Dumping' <=> Dumping
    BY <2>1 DEF Dumping
  <2>4. /\ UNCHANGED (IF Dumping THEN session.id ELSE None)
        /\ UNCHANGED (Dumping /\ ~ assembler.active)
        /\ UNCHANGED (1 .. issued)
    BY <2>1, <2>3, Zenon
  <2>5. Transfer!Send
    BY <2>1, <2>2, <2>4, Zenon DEF Transfer!Send
  <2> QED BY <2>5 DEF Transfer!Next
<1> QED BY <1>1, <1>2, <1>3, <1>4, <1>5, Zenon DEF Next, CanOwner

LEMMA NothingIsTransferred == Init => Transfer!Init
<1> SUFFICES ASSUME Init PROVE Transfer!Init
  OBVIOUS
<1>1. /\ issued = 0 /\ session = None /\ chunks = <<>>
      /\ confirmed = [id \in Id |-> 0]
  BY DEF Init
<1>2. 1 .. issued = {} /\ Dumping = FALSE
  BY <1>1 DEF Dumping
<1>3. Outbox = <<>>
  BY <1>1 DEF Outbox
<1> QED BY <1>1, <1>2, <1>3, Zenon DEF Transfer!Init

\* Whatever is lost, late, refused or stopped, and for every size of fragments, chunks,
\* queues and files, the relay implements LogTransfer: chunks are queued only for the
\* dump whose command is open, join up from chunk to chunk, are full up to the last
\* one, and nothing is queued behind a last chunk or behind the end of the command.
THEOREM RelayKeepsThePromise == Spec => RefinesTransfer
<1>1. Init => Transfer!Init
  BY NothingIsTransferred
<1>2. RelayIInv /\ ServingInv /\ [Next]_vars => [Transfer!Next]_(Transfer!vars)
  BY StepIsTransferred
<1> QED BY <1>1, <1>2, ServingInvAlways, PTL DEF Spec, RefinesTransfer, Transfer!Spec
=============================================================================
