--------------------------- MODULE SdLoggerProofs ---------------------------
(***************************************************************************)
(* Proofs about sd_write_task, for every size of its buffers and of the    *)
(* queue and any number of rows, failures and power losses: LoggerInv,     *)
(* LossIsBounded, ShownIsTrue and FlushedStaysAlways.                      *)
(*                                                                         *)
(* All of them are about one file at a time, so the inductive invariant is *)
(* a predicate on the four values kept for a file (FileOK), and every step *)
(* of the system is one of six things that can happen to a file.  What     *)
(* FileOK adds to the properties is that without an error a file with an   *)
(* empty buffer is flushed to its end, and that rows are buffered only for *)
(* a file that has its header.                                             *)
(***************************************************************************)
EXTENDS SdLogger, SequenceTheorems, FiniteSetTheorems, TLAPS

Row == Nat \ {0}
Item == Row \cup {Header}

\* The types the other parts rely on.
Types ==
    /\ {requested, stopping, signal, error, active, unflushed, forced} \subseteq BOOLEAN
    /\ queue \in Seq(BOOLEAN) /\ Len(queue) <= QueueCap
    /\ pc \in {"openCan", "openRoll", "wait", "check", "flushRoll", "end", "ended"}
    /\ card \in [File -> Seq(Item)] /\ expected \in [File -> Seq(Item)]
    /\ buffer \in [File -> Seq(Row)]
    /\ durable \in [File -> Nat]
    /\ rows \in Nat /\ faults \in Nat /\ losses \in Nat

\* A file that is empty or begins with its only header.
Headed(c) == \A i \in 1 .. Len(c) : c[i] = Header <=> i = 1

MissingOf(e, c, b) == Range(e) \ (Range(c) \cup Range(b))

\* What holds of one file: written rows c, buffered rows b, d rows flushed, e rows
\* expected, and whether an error is shown.
FileOK(c, b, d, e, err) ==
    /\ Len(b) <= BufCap /\ d <= Len(c)
    /\ Headed(c) /\ (b # <<>> => c # <<>>)
    /\ ~ err => c \o b = e /\ (b = <<>> => d = Len(c))
    /\ IsFiniteSet(MissingOf(e, c, b)) /\ Cardinality(MissingOf(e, c, b)) <= BufCap

FilesOK == \A f \in File : FileOK(card[f], buffer[f], durable[f], expected[f], error)

Opening == pc \in {"openCan", "openRoll", "ended"}

\* Rows are logged only once both files are open.
FilesOpen ==
    /\ Opening => buffer = Empty
    /\ pc = "openRoll" => card["CAN"] # <<>>
    /\ ~ Opening => \A f \in File : card[f] # <<>>

\* What the task shows.
Shown ==
    /\ active => ~ error
    /\ pc \in {"openCan", "openRoll", "wait"} =>
           (unflushed <=> \E f \in File : buffer[f] # <<>>)

\* The inductive invariant.
LoggerIInv == Types /\ FilesOK /\ FilesOpen /\ Shown

-----------------------------------------------------------------------------
(* What can happen to a file.                                              *)

\* What was flushed is still there.
Kept(c, d, c2) == d <= Len(c2) /\ SubSeq(c2, 1, d) = SubSeq(c, 1, d)

\* Rows added behind a file.
LEMMA KeptBehind ==
    ASSUME NEW c \in Seq(Item), NEW t \in Seq(Row), NEW d \in Nat, d <= Len(c)
    PROVE  Kept(c, d, c \o t)
<1>1. t \in Seq(Item)
  BY SeqMonotonic DEF Item
<1>2. d <= Len(c \o t)
  BY <1>1, ConcatProperties, LenProperties
<1>3. CASE d = 0
  BY <1>2, <1>3, SubSeqEmpty DEF Kept
<1>4. CASE d # 0
  <2>1. 1 \in 1 .. Len(c) /\ d \in 1 .. Len(c)
    BY <1>4, LenProperties
  <2>2. SubSeq(c \o t, 1, d) = SubSeq(c, 1, d)
    BY <1>1, <2>1, SubSeqOfConcat1
  <2> QED BY <1>2, <2>2 DEF Kept
<1> QED BY <1>3, <1>4

\* Rows behind a header are no header.
LEMMA HeadedBehind ==
    ASSUME NEW c \in Seq(Item), NEW t \in Seq(Row), Headed(c), t # <<>> => c # <<>>
    PROVE  Headed(c \o t)
<1>1. t \in Seq(Item) /\ Len(c) \in Nat /\ Len(t) \in Nat
  BY SeqMonotonic, LenProperties DEF Item
<1>2. /\ Len(c \o t) = Len(c) + Len(t)
      /\ \A i \in 1 .. Len(c) + Len(t) :
             (c \o t)[i] = IF i <= Len(c) THEN c[i] ELSE t[i - Len(c)]
  BY <1>1, ConcatProperties
<1>3. ASSUME NEW i \in 1 .. Len(c \o t) PROVE (c \o t)[i] = Header <=> i = 1
  <2>1. CASE i <= Len(c)
    BY <1>1, <1>2, <2>1 DEF Headed
  <2>2. CASE i > Len(c)
    <3>1. i - Len(c) \in 1 .. Len(t)
      BY <1>1, <1>2, <2>2
    <3>2. t[i - Len(c)] # Header
      BY <3>1, ElementOfSeq, HeaderAssumption DEF Row
    <3>3. c # <<>> /\ Len(c) # 0
      BY <1>1, <3>1, EmptySeq
    <3> QED BY <1>1, <1>2, <2>2, <3>2, <3>3
  <2> QED BY <1>1, <1>2, <2>1, <2>2
<1> QED BY <1>3 DEF Headed

\* A buffer has no more different rows than rows.
LEMMA RangeIsBounded ==
    ASSUME NEW b \in Seq(Row)
    PROVE  IsFiniteSet(Range(b)) /\ Cardinality(Range(b)) <= Len(b)
<1>1. Len(b) \in Nat /\ DOMAIN b = 1 .. Len(b) /\ b \in [1 .. Len(b) -> Row]
  BY LenProperties
<1>2. b \in Surjection(1 .. Len(b), Range(b))
  BY <1>1 DEF Surjection, Range
<1>3. IsFiniteSet(1 .. Len(b)) /\ Cardinality(1 .. Len(b)) = Len(b)
  BY <1>1, FS_Interval
<1> QED BY <1>2, <1>3, FS_Surjection

\* Nothing is missing of a file that is as expected.
LEMMA NothingMissing ==
    ASSUME NEW c \in Seq(Item), NEW b \in Seq(Row)
    PROVE  /\ MissingOf(c \o b, c, b) = {}
           /\ IsFiniteSet({}) /\ Cardinality({}) <= BufCap
<1>1. b \in Seq(Item)
  BY SeqMonotonic DEF Item
<1> QED BY <1>1, RangeConcatenation, FS_EmptySet, LoggerAssumption DEF MissingOf

\* A smaller set of missing rows.
LEMMA FewerMissing ==
    ASSUME NEW S, NEW T, IsFiniteSet(S), Cardinality(S) <= BufCap, T \subseteq S
    PROVE  IsFiniteSet(T) /\ Cardinality(T) <= BufCap
<1>1. Cardinality(S) \in Nat /\ IsFiniteSet(T) /\ Cardinality(T) \in Nat
      /\ Cardinality(T) <= Cardinality(S)
  BY FS_Subset, FS_CardinalityType
<1> QED BY <1>1, LoggerAssumption

\* A file is opened; a new one gets its header.
LEMMA FileOpened ==
    ASSUME NEW c \in Seq(Item), NEW d \in Nat, NEW e, NEW err \in BOOLEAN,
           FileOK(c, <<>>, d, e, err)
    PROVE  /\ Opened(c) \in Seq(Item) /\ Opened(c) # <<>>
           /\ FileOK(Opened(c), <<>>, Len(Opened(c)), Opened(c), err)
           /\ Kept(c, d, Opened(c))
<1>1. <<Header>> \in Seq(Item) /\ Len(<<Header>>) = 1 /\ <<Header>>[1] = Header
  BY DEF Item
<1>2. Opened(c) \in Seq(Item) /\ Opened(c) # <<>> /\ Headed(Opened(c))
  BY <1>1 DEF Opened, Headed, FileOK
<1>3. Opened(c) \o <<>> = Opened(c) /\ <<>> \in Seq(Row)
  BY <1>2, ConcatEmptySeq
<1>4. /\ IsFiniteSet(MissingOf(Opened(c), Opened(c), <<>>))
      /\ Cardinality(MissingOf(Opened(c), Opened(c), <<>>)) <= BufCap
  BY <1>2, <1>3, NothingMissing
<1>5. Kept(c, d, Opened(c))
  <2>1. CASE c = <<>>
    <3>1. d = 0 /\ Len(Opened(c)) \in Nat
      BY <1>2, <2>1, LenProperties DEF FileOK
    <3> QED BY <3>1, SubSeqEmpty DEF Kept
  <2>2. CASE c # <<>>
    BY <2>2 DEF Opened, Kept, FileOK
  <2> QED BY <2>1, <2>2
<1>6. Len(<<>>) <= BufCap /\ Len(Opened(c)) <= Len(Opened(c))
  BY <1>2, LenProperties, LoggerAssumption
<1> QED BY <1>2, <1>3, <1>4, <1>5, <1>6 DEF FileOK

\* Once an error is shown, nothing has to be complete.
LEMMA FileWithError ==
    ASSUME NEW c \in Seq(Item), NEW b \in Seq(Row), NEW d \in Nat, NEW e,
           NEW err \in BOOLEAN, FileOK(c, b, d, e, err)
    PROVE  FileOK(c, b, d, e, TRUE) /\ Kept(c, d, c)
BY DEF FileOK, Kept

\* Opening fails: the header of a new file is written or not.
LEMMA FileNotOpened ==
    ASSUME NEW c \in Seq(Item), NEW d \in Nat, NEW e, NEW err \in BOOLEAN,
           FileOK(c, <<>>, d, e, err)
    PROVE  FileOK(Opened(c), <<>>, d, e, TRUE) /\ Kept(c, d, Opened(c))
<1>1. CASE c # <<>>
  BY <1>1, FileWithError DEF Opened, FileOK, Kept
<1>2. CASE c = <<>>
  <2>1. /\ Opened(c) = <<Header>> /\ Headed(Opened(c)) /\ Kept(c, d, Opened(c))
        /\ Len(Opened(c)) = 1
    BY <1>2, FileOpened DEF Opened, FileOK
  <2>2. d = 0 /\ Range(c) = {}
    BY <1>2 DEF FileOK, Range
  <2>3. MissingOf(e, Opened(c), <<>>) \subseteq MissingOf(e, c, <<>>)
    BY <2>2 DEF MissingOf
  <2>4. /\ IsFiniteSet(MissingOf(e, Opened(c), <<>>))
        /\ Cardinality(MissingOf(e, Opened(c), <<>>)) <= BufCap
    BY <2>3, FewerMissing DEF FileOK
  <2> QED BY <2>1, <2>2, <2>4 DEF FileOK
<1> QED BY <1>1, <1>2

\* A row that fits into the buffer.
LEMMA RowBuffered ==
    ASSUME NEW c \in Seq(Item), NEW b \in Seq(Row), NEW d \in Nat, NEW e \in Seq(Item),
           NEW row \in Row, NEW err \in BOOLEAN,
           FileOK(c, b, d, e, FALSE), c # <<>>, Len(b) # BufCap
    PROVE  /\ FileOK(c, Append(b, row), d, Append(e, row), err)
           /\ Kept(c, d, c)
<1>1. b \in Seq(Item) /\ row \in Item
  BY SeqMonotonic DEF Item
<1>2. /\ Append(b, row) \in Seq(Row) /\ Append(b, row) # <<>>
      /\ Len(Append(b, row)) = Len(b) + 1
  BY AppendProperties
<1>3. c \o Append(b, row) = Append(e, row)
  <2>1. c \o b \in Seq(Item) /\ c \o b = e /\ <<row>> \in Seq(Item)
    BY <1>1, ConcatProperties DEF FileOK
  <2>2. \A r \in Seq(Item) : (c \o b) \o r = c \o (b \o r)
    BY <1>1, ConcatAssociative
  <2>3. Append(b, row) = b \o <<row>> /\ Append(e, row) = e \o <<row>>
    BY <1>1, AppendIsConcat
  <2> QED BY <2>1, <2>2, <2>3
<1>4. /\ IsFiniteSet(MissingOf(Append(e, row), c, Append(b, row)))
      /\ Cardinality(MissingOf(Append(e, row), c, Append(b, row))) <= BufCap
  BY <1>2, <1>3, NothingMissing
<1>5. Len(Append(b, row)) <= BufCap
  BY <1>2, LenProperties, LoggerAssumption DEF FileOK
<1> QED BY <1>2, <1>3, <1>4, <1>5 DEF FileOK, Kept

\* A row that does not fit: the buffer is written out, all of it unless there is
\* an error, and holds nothing but the row then.
LEMMA RowOverflows ==
    ASSUME NEW c \in Seq(Item), NEW b \in Seq(Row), NEW d \in Nat, NEW e \in Seq(Item),
           NEW row \in Row, NEW err \in BOOLEAN, NEW t \in Seq(Row),
           FileOK(c, b, d, e, FALSE), c # <<>>, ~ err => t = b
    PROVE  /\ FileOK(c \o t, <<row>>, d, Append(e, row), err)
           /\ Kept(c, d, c \o t)
<1>1. b \in Seq(Item) /\ row \in Item /\ t \in Seq(Item)
  BY SeqMonotonic DEF Item
<1>2. /\ <<row>> \in Seq(Row) /\ <<row>> \in Seq(Item) /\ <<row>> # <<>>
      /\ Len(<<row>>) = 1 /\ <<row>>[1] = row
  BY <1>1
<1>3. c \o b = e
  BY DEF FileOK
<1>4. Append(e, row) = e \o <<row>>
  BY <1>1, AppendIsConcat
<1>5. Headed(c \o t) /\ c \o t # <<>> /\ Kept(c, d, c \o t) /\ d <= Len(c \o t)
  <2>1. Headed(c \o t) /\ Kept(c, d, c \o t)
    BY HeadedBehind, KeptBehind DEF FileOK
  <2>2. c \o t # <<>>
    BY <1>1, ConcatEqualIffEmpty
  <2> QED BY <2>1, <2>2 DEF Kept
<1>6. ~ err => (c \o t) \o <<row>> = Append(e, row)
  BY <1>3, <1>4
<1>7. MissingOf(Append(e, row), c \o t, <<row>>) \subseteq Range(b)
  <2>1. Range(Append(e, row)) = Range(c) \cup Range(b) \cup Range(<<row>>)
    <3>1. \A r \in Seq(Item) : Range(e \o r) = Range(e) \cup Range(r)
      BY RangeConcatenation
    <3>2. Range(e) = Range(c) \cup Range(b)
      <4>1. Range(c \o b) = Range(c) \cup Range(b)
        BY <1>1, RangeConcatenation
      <4> QED BY <1>3, <4>1
    <3> QED BY <1>2, <1>4, <3>1, <3>2
  <2>2. Range(c \o t) = Range(c) \cup Range(t)
    BY <1>1, RangeConcatenation
  <2> QED BY <2>1, <2>2 DEF MissingOf
<1>8. IsFiniteSet(Range(b)) /\ Cardinality(Range(b)) <= BufCap
  <2>1. Cardinality(Range(b)) \in Nat /\ Cardinality(Range(b)) <= Len(b)
        /\ Len(b) \in Nat /\ Len(b) <= BufCap
    BY RangeIsBounded, FS_CardinalityType, LenProperties DEF FileOK
  <2> QED BY <2>1, RangeIsBounded, LoggerAssumption
<1>9. /\ IsFiniteSet(MissingOf(Append(e, row), c \o t, <<row>>))
      /\ Cardinality(MissingOf(Append(e, row), c \o t, <<row>>)) <= BufCap
  BY <1>7, <1>8, FewerMissing
<1>10. Len(<<row>>) <= BufCap
  BY <1>2, LoggerAssumption
<1> QED BY <1>2, <1>5, <1>6, <1>9, <1>10 DEF FileOK

\* The rows t of the buffer b are written, and the buffer is kept unless t is all of
\* it; then the file is flushed, unless that fails.
FlushResult(c, b, d, err, t, b2, d2, err2) ==
    /\ b = <<>> => t = <<>>
    /\ b2 = b \/ (b2 = <<>> /\ t = b)
    /\ d2 = d \/ d2 = Len(c \o t)
    /\ err => err2
    /\ ~ err2 => b2 = <<>> /\ t = b /\ d2 = Len(c \o t)

LEMMA FileFlushed ==
    ASSUME NEW c \in Seq(Item), NEW b \in Seq(Row), NEW d \in Nat, NEW e,
           NEW err \in BOOLEAN, NEW err2 \in BOOLEAN, NEW t \in Seq(Row), NEW b2, NEW d2,
           FileOK(c, b, d, e, err), FlushResult(c, b, d, err, t, b2, d2, err2)
    PROVE  FileOK(c \o t, b2, d2, e, err2) /\ Kept(c, d, c \o t)
<1> USE DEF FlushResult
<1>1. b \in Seq(Item) /\ t \in Seq(Item) /\ <<>> \in Seq(Row)
  BY SeqMonotonic DEF Item
<1>2. /\ Headed(c \o t) /\ Kept(c, d, c \o t) /\ d <= Len(c \o t)
      /\ c \o t \in Seq(Item) /\ Len(c \o t) \in Nat
  <2>1. t # <<>> => c # <<>>
    BY DEF FileOK
  <2>2. Headed(c \o t) /\ Kept(c, d, c \o t)
    BY <2>1, HeadedBehind, KeptBehind DEF FileOK
  <2> QED BY <1>1, <2>2, ConcatProperties, LenProperties DEF Kept
<1>3. b2 # <<>> => c \o t # <<>>
  BY <1>1, ConcatEqualIffEmpty DEF FileOK
<1>4. ~ err2 => (c \o t) \o b2 = e
  BY <1>2, ConcatEmptySeq DEF FileOK
<1>5. MissingOf(e, c \o t, b2) \subseteq MissingOf(e, c, b)
  <2>1. Range(c \o t) = Range(c) \cup Range(t)
    BY <1>1, RangeConcatenation
  <2> QED BY <2>1 DEF MissingOf
<1>6. /\ IsFiniteSet(MissingOf(e, c \o t, b2))
      /\ Cardinality(MissingOf(e, c \o t, b2)) <= BufCap
  BY <1>5, FewerMissing DEF FileOK
<1>7. Len(b2) <= BufCap /\ d2 <= Len(c \o t)
  BY <1>2, LoggerAssumption DEF FileOK
<1> QED BY <1>2, <1>3, <1>4, <1>6, <1>7 DEF FileOK

\* Power is lost: some part behind what was flushed is gone.
LEMMA FileCut ==
    ASSUME NEW c \in Seq(Item), NEW b \in Seq(Row), NEW d \in Nat, NEW e \in Seq(Item),
           NEW err \in BOOLEAN, FileOK(c, b, d, e, err), NEW n \in d .. Len(c)
    PROVE  /\ SubSeq(c, 1, n) \in Seq(Item)
           /\ FileOK(SubSeq(c, 1, n), <<>>, n, SubSeq(c, 1, n), FALSE)
           /\ Kept(c, d, SubSeq(c, 1, n))
<1>1. n \in Nat /\ Len(c) \in Nat /\ n <= Len(c) /\ d <= n
  BY LenProperties
<1>2. \A i \in 1 .. n : c[i] \in Item
  BY <1>1, ElementOfSeq
<1>3. /\ SubSeq(c, 1, n) \in Seq(Item) /\ Len(SubSeq(c, 1, n)) = n
      /\ \A i \in 1 .. n : SubSeq(c, 1, n)[i] = c[i]
  <2>1. /\ SubSeq(c, 1, n) \in Seq(Item)
        /\ Len(SubSeq(c, 1, n)) = IF 1 <= n THEN n - 1 + 1 ELSE 0
        /\ \A i \in 1 .. n - 1 + 1 : SubSeq(c, 1, n)[i] = c[1 + i - 1]
    BY <1>1, <1>2, SubSeqProperties
  <2> QED BY <1>1, <2>1
<1>4. Headed(SubSeq(c, 1, n))
  BY <1>1, <1>3 DEF Headed, FileOK
<1>5. /\ SubSeq(c, 1, n) \o <<>> = SubSeq(c, 1, n) /\ <<>> \in Seq(Row)
      /\ Len(<<>>) <= BufCap
  BY <1>3, ConcatEmptySeq, LoggerAssumption
<1>6. /\ IsFiniteSet(MissingOf(SubSeq(c, 1, n), SubSeq(c, 1, n), <<>>))
      /\ Cardinality(MissingOf(SubSeq(c, 1, n), SubSeq(c, 1, n), <<>>)) <= BufCap
  BY <1>3, <1>5, NothingMissing
<1>7. Kept(c, d, SubSeq(c, 1, n))
  <2>1. CASE d = 0
    BY <1>1, <1>3, <2>1, SubSeqEmpty DEF Kept
  <2>2. CASE d # 0
    <3>1. 1 \in 1 .. Len(c) /\ n \in 1 .. Len(c) /\ 1 \in 1 .. n - 1 + 1
          /\ d \in 1 .. n - 1 + 1
      BY <1>1, <2>2
    <3>2. SubSeq(SubSeq(c, 1, n), 1, d) = SubSeq(c, 1 + 1 - 1, 1 + d - 1)
      BY <3>1, SubSeqOfSubSeq
    <3> QED BY <1>1, <1>3, <3>2 DEF Kept
  <2> QED BY <2>1, <2>2
<1> QED BY <1>3, <1>4, <1>5, <1>6, <1>7 DEF FileOK

\* Nothing happens to the file.
LEMMA FileUnchanged ==
    ASSUME NEW c \in Seq(Item), NEW b, NEW d \in Nat, NEW e,
           NEW err \in BOOLEAN, NEW err2 \in BOOLEAN, FileOK(c, b, d, e, err), err => err2
    PROVE  FileOK(c, b, d, e, err2) /\ Kept(c, d, c)
BY DEF FileOK, Kept

-----------------------------------------------------------------------------
(* The steps of the task as what happens to its files.                     *)

\* The four values of a file.
LEMMA FileTypes ==
    ASSUME Types, FilesOK, NEW f \in File
    PROVE  /\ card[f] \in Seq(Item) /\ expected[f] \in Seq(Item) /\ buffer[f] \in Seq(Row)
           /\ durable[f] \in Nat /\ error \in BOOLEAN
           /\ FileOK(card[f], buffer[f], durable[f], expected[f], error)
BY DEF Types, FilesOK

\* File::write adds rows of the buffer, all of them unless it fails.
LEMMA WrittenRows ==
    ASSUME Types, NEW f \in File, NEW w, w \in Written(f) \/ w = Unwritten(f)
    PROVE  \E t \in Seq(Row) :
               /\ w.card = card[f] \o t /\ w.card \in Seq(Item) /\ w.ok \in BOOLEAN
               /\ w \in Written(f) => (w.ok => t = buffer[f])
               /\ w \notin Written(f) => (w.ok /\ t = <<>>)
               /\ buffer[f] = <<>> => t = <<>>
<1>1. /\ card[f] \in Seq(Item) /\ buffer[f] \in Seq(Row) /\ buffer[f] \in Seq(Item)
      /\ <<>> \in Seq(Row) /\ card[f] \o <<>> = card[f]
  BY SeqMonotonic, ConcatEmptySeq DEF Types, Item
<1>2. ASSUME NEW n \in 0 .. Len(buffer[f])
      PROVE  /\ SubSeq(buffer[f], 1, n) \in Seq(Row) /\ SubSeq(buffer[f], 1, n) \in Seq(Item)
             /\ buffer[f] = <<>> => SubSeq(buffer[f], 1, n) = <<>>
  <2>1. n \in Int /\ \A i \in 1 .. n : buffer[f][i] \in Row
    BY <1>1, <1>2, ElementOfSeq, LenProperties
  <2>2. SubSeq(buffer[f], 1, n) \in Seq(Row)
    BY <2>1, SubSeqProperties
  <2>3. buffer[f] = <<>> => SubSeq(buffer[f], 1, n) = <<>>
    BY <1>2, SubSeqEmpty
  <2> QED BY <2>2, <2>3, SeqMonotonic DEF Item
<1>3. CASE w = [card |-> card[f] \o buffer[f], ok |-> TRUE]
  <2>1. w \in Written(f)
    BY <1>3 DEF Written
  <2>2. card[f] \o buffer[f] \in Seq(Item)
    BY <1>1, ConcatProperties
  <2> QED BY <1>1, <1>3, <2>1, <2>2
<1>4. ASSUME NEW n \in 0 .. Len(buffer[f]), w \in Written(f),
             w = [card |-> card[f] \o SubSeq(buffer[f], 1, n), ok |-> FALSE]
      PROVE  \E t \in Seq(Row) :
               /\ w.card = card[f] \o t /\ w.card \in Seq(Item) /\ w.ok = FALSE
               /\ buffer[f] = <<>> => t = <<>>
  <2>1. card[f] \o SubSeq(buffer[f], 1, n) \in Seq(Item)
    BY <1>1, <1>2, ConcatProperties
  <2> QED BY <1>2, <1>4, <2>1
<1>5. CASE w = Unwritten(f) /\ w \notin Written(f)
  BY <1>1, <1>5 DEF Unwritten
<1>6. w = Unwritten(f) /\ w \in Written(f) =>
          w = [card |-> card[f] \o buffer[f], ok |-> TRUE]
          \/ \E n \in 0 .. Len(buffer[f]) :
                 w = [card |-> card[f] \o SubSeq(buffer[f], 1, n), ok |-> FALSE]
  BY DEF Written
<1>7. w \in Written(f) =>
          w = [card |-> card[f] \o buffer[f], ok |-> TRUE]
          \/ \E n \in 0 .. Len(buffer[f]) :
                 w = [card |-> card[f] \o SubSeq(buffer[f], 1, n), ok |-> FALSE]
  BY DEF Written
<1> QED BY <1>3, <1>4, <1>5, <1>7

\* The operations that failed, counted.
LEMMA FailedCount ==
    ASSUME NEW S \in SUBSET File
    PROVE  Cardinality(S) \in Nat /\ (Cardinality(S) = 0 <=> S = {})
<1>1. File = {"CAN"} \cup {"ROLLV2"}
  BY DEF File
<1>2. IsFiniteSet(File)
  BY <1>1, FS_Singleton, FS_AddElement
<1>3. IsFiniteSet(S)
  BY <1>2, FS_Subset
<1> QED BY <1>3, FS_CardinalityType, FS_EmptySet

\* A row for one or both files.
LEMMA RowLogged ==
    ASSUME Types, FilesOK, ~ error, \A f \in File : card[f] # <<>>,
           NEW files \in SUBSET File, LogRow(files), durable' = durable
    PROVE  /\ card' \in [File -> Seq(Item)] /\ expected' \in [File -> Seq(Item)]
           /\ buffer' \in [File -> Seq(Row)]
           /\ rows' \in Nat /\ faults' \in Nat /\ error' \in BOOLEAN /\ active' \in BOOLEAN
           /\ active' => ~ error'
           /\ FilesOK' /\ FlushedStays
           /\ \A f \in File : card'[f] # <<>>
<1>1. PICK can \in Overflow("CAN", files), roll \in Overflow("ROLLV2", files) :
        LET written == [f \in File |-> IF f = "CAN" THEN can ELSE roll]
            row == rows + 1
        IN  /\ card' = [f \in File |-> written[f].card]
            /\ buffer' = [f \in File |-> IF f \in files
                                         THEN AfterOverflow(f, row)
                                         ELSE buffer[f]]
            /\ expected' = [f \in File |-> IF f \in files THEN Append(expected[f], row)
                                                          ELSE expected[f]]
            /\ rows' = row
            /\ MarkError(TRUE, Cardinality({f \in File : ~ written[f].ok}))
  BY DEF LogRow
<1> DEFINE written == [f \in File |-> IF f = "CAN" THEN can ELSE roll]
           row == rows + 1
           failed == Cardinality({f \in File : ~ written[f].ok})
<1>2. row \in Row
  BY DEF Types, Row
<1>3. \A f \in File : written[f] \in Overflow(f, files)
  BY DEF File
<1>4. failed \in Nat /\ (failed = 0 => \A f \in File : written[f].ok)
  <2>1. \A S \in SUBSET File : Cardinality(S) \in Nat /\ (Cardinality(S) = 0 <=> S = {})
    BY FailedCount
  <2> HIDE DEF written
  <2>2. {f \in File : ~ written[f].ok} \in SUBSET File
    OBVIOUS
  <2> QED BY <2>1, <2>2
<1>5. MarkError(TRUE, failed) /\ rows' = row
  BY <1>1
<1>6. ASSUME NEW f \in File
      PROVE  /\ card'[f] = written[f].card
             /\ buffer'[f] = IF f \in files THEN AfterOverflow(f, row) ELSE buffer[f]
             /\ expected'[f] = IF f \in files THEN Append(expected[f], row)
                                              ELSE expected[f]
  BY <1>1
<1>7. /\ card' = [f \in File |-> card'[f]] /\ buffer' = [f \in File |-> buffer'[f]]
      /\ expected' = [f \in File |-> expected'[f]]
  BY <1>1
<1> HIDE DEF written, row, failed
<1>8. /\ rows' \in Nat /\ faults' \in Nat /\ error' \in BOOLEAN /\ active' \in BOOLEAN
      /\ active' => ~ error'
      /\ ~ error' => \A f \in File : written[f].ok
  <2>1. rows' \in Nat /\ faults' \in Nat
    BY <1>2, <1>4, <1>5 DEF MarkError, Types, Row
  <2> DEFINE some == failed > 0
             none == failed = 0
  <2>2. error' = (error \/ some) /\ active' = (TRUE /\ none)
    BY <1>5 DEF MarkError
  <2>3. /\ some \in BOOLEAN /\ none \in BOOLEAN /\ none <=> ~ some
        /\ ~ some => \A f \in File : written[f].ok
    BY <1>4
  <2> HIDE DEF some, none
  <2>4. /\ error' \in BOOLEAN /\ active' \in BOOLEAN
        /\ active' => ~ error'
        /\ ~ error' => ~ some
    BY <2>2, <2>3, Zenon
  <2> QED BY <2>1, <2>3, <2>4
<1>9. ASSUME NEW f \in File
      PROVE  /\ card'[f] \in Seq(Item) /\ expected'[f] \in Seq(Item)
             /\ buffer'[f] \in Seq(Row) /\ card'[f] # <<>>
             /\ FileOK(card'[f], buffer'[f], durable[f], expected'[f], error')
             /\ Kept(card[f], durable[f], card'[f])
  <2>1. /\ card[f] \in Seq(Item) /\ expected[f] \in Seq(Item) /\ buffer[f] \in Seq(Row)
        /\ durable[f] \in Nat /\ card[f] # <<>>
        /\ FileOK(card[f], buffer[f], durable[f], expected[f], FALSE)
    BY <1>9, FileTypes
  <2>2. row \in Item /\ Append(expected[f], row) \in Seq(Item)
    BY <1>2, <2>1, AppendProperties DEF Item
  <2>3. CASE f \notin files
    <3>1. card'[f] = card[f] /\ buffer'[f] = buffer[f] /\ expected'[f] = expected[f]
      <4>1. written[f] = [card |-> card[f], ok |-> TRUE]
        BY <1>3, <2>3 DEF Overflow, Unwritten
      <4> QED BY <1>6, <2>3, <4>1
    <3> QED BY <1>8, <2>1, <3>1, FileUnchanged
  <2>4. CASE f \in files /\ ~ Full(f)
    <3>1. /\ card'[f] = card[f] /\ buffer'[f] = Append(buffer[f], row)
          /\ expected'[f] = Append(expected[f], row)
      <4>1. written[f] = [card |-> card[f], ok |-> TRUE]
        BY <1>3, <2>4 DEF Overflow, Unwritten
      <4>2. AfterOverflow(f, row) = Append(buffer[f], row)
        BY <2>4, Zenon DEF AfterOverflow
      <4>3. card'[f] = card[f]
        BY <1>6, <4>1
      <4>4. /\ buffer'[f] = AfterOverflow(f, row)
            /\ expected'[f] = Append(expected[f], row)
        BY <1>6, <2>4, Zenon
      <4> QED BY <4>2, <4>3, <4>4
    <3>2. Append(buffer[f], row) \in Seq(Row)
      BY <1>2, <2>1, AppendProperties
    <3>3. Len(buffer[f]) # BufCap
      BY <2>4 DEF Full
    <3>4. /\ FileOK(card[f], Append(buffer[f], row), durable[f],
                    Append(expected[f], row), error')
          /\ Kept(card[f], durable[f], card[f])
      BY <1>2, <1>8, <2>1, <3>3, RowBuffered
    <3> QED BY <2>1, <2>2, <3>1, <3>2, <3>4
  <2>5. CASE f \in files /\ Full(f)
    <3>1. /\ written[f] \in Written(f) /\ card'[f] = written[f].card
          /\ buffer'[f] = <<row>> /\ expected'[f] = Append(expected[f], row)
      BY <1>3, <1>6, <2>5 DEF Overflow, AfterOverflow
    <3>2. PICK t \in Seq(Row) : /\ written[f].card = card[f] \o t
                                /\ written[f].card \in Seq(Item)
                                /\ written[f].ok => t = buffer[f]
      BY <1>9, <3>1, WrittenRows
    <3>3. /\ FileOK(card[f] \o t, <<row>>, durable[f], Append(expected[f], row), error')
          /\ Kept(card[f], durable[f], card[f] \o t)
      BY <1>2, <1>8, <1>9, <2>1, <3>2, RowOverflows
    <3>4. <<row>> \in Seq(Row) /\ <<row>> # <<>>
      BY <1>2
    <3>5. card'[f] # <<>>
      BY <3>1, <3>2, <3>3, <3>4 DEF FileOK
    <3> QED BY <2>2, <3>1, <3>2, <3>3, <3>4, <3>5
  <2> QED BY <2>3, <2>4, <2>5
<1>10. /\ card' \in [File -> Seq(Item)] /\ expected' \in [File -> Seq(Item)]
       /\ buffer' \in [File -> Seq(Row)]
  BY <1>7, <1>9
<1>11. FilesOK' /\ FlushedStays
  BY <1>9 DEF FilesOK, FlushedStays, Kept
<1> QED BY <1>8, <1>9, <1>10, <1>11

\* A flush of one file.
LEMMA BufferFlushed ==
    ASSUME Types, FilesOK, NEW g \in File, Flush(g), expected' = expected,
           active => ~ error
    PROVE  /\ card' \in [File -> Seq(Item)] /\ buffer' \in [File -> Seq(Row)]
           /\ durable' \in [File -> Nat]
           /\ faults' \in Nat /\ error' \in BOOLEAN /\ active' \in BOOLEAN
           /\ active' => ~ error'
           /\ FilesOK' /\ FlushedStays
           /\ \A f \in File : card[f] # <<>> => card'[f] # <<>>
<1>1. PICK w \in IF buffer[g] = <<>> THEN {Unwritten(g)} ELSE Written(g),
           ok \in IF faults >= MaxFaults THEN {TRUE} ELSE BOOLEAN :
        /\ card' = [card EXCEPT ![g] = w.card]
        /\ buffer' = [buffer EXCEPT ![g] = AfterFlush(g, w.ok)]
        /\ durable' = [durable EXCEPT ![g] = Flushed(g, ok)]
        /\ MarkError(active, (IF w.ok THEN 0 ELSE 1) + (IF ok THEN 0 ELSE 1))
  BY DEF Flush
<1>2. ok \in BOOLEAN /\ (w \in Written(g) \/ w = Unwritten(g))
  <2>1. ok \in BOOLEAN
    OBVIOUS
  <2>2. w \in Written(g) \/ w = Unwritten(g)
    OBVIOUS
  <2> QED BY <2>1, <2>2
<1>3. PICK t \in Seq(Row) :
        /\ w.card = card[g] \o t /\ w.card \in Seq(Item) /\ w.ok \in BOOLEAN
        /\ w \in Written(g) => (w.ok => t = buffer[g])
        /\ w \notin Written(g) => (w.ok /\ t = <<>>)
        /\ buffer[g] = <<>> => t = <<>>
  BY <1>2, WrittenRows
<1>4. w.ok => t = buffer[g]
  <2>1. CASE buffer[g] = <<>>
    BY <1>3, <2>1
  <2>2. CASE buffer[g] # <<>>
    <3>1. w \in Written(g)
      BY <2>2
    <3> QED BY <1>3, <3>1
  <2> QED BY <2>1, <2>2
<1> DEFINE failed == (IF w.ok THEN 0 ELSE 1) + (IF ok THEN 0 ELSE 1)
           some == failed > 0
           none == failed = 0
<1>5. /\ faults' = faults + failed /\ error' = (error \/ some)
      /\ active' = (active /\ none)
  BY <1>1 DEF MarkError
<1>6. /\ failed \in Nat /\ some \in BOOLEAN /\ none \in BOOLEAN /\ (none <=> ~ some)
      /\ ~ some => w.ok /\ ok
  BY <1>2, <1>3
<1> HIDE DEF failed, some, none
<1>7. error \in BOOLEAN /\ active \in BOOLEAN /\ faults \in Nat
  BY DEF Types
<1>8. /\ error' \in BOOLEAN /\ active' \in BOOLEAN
      /\ active' => ~ error'
      /\ error => error'
      /\ ~ w.ok \/ ~ ok => error'
  BY <1>5, <1>6, <1>7, Zenon
<1>9. faults' \in Nat
  BY <1>5, <1>6, <1>7
<1>10. /\ card[g] \in Seq(Item) /\ expected[g] \in Seq(Item) /\ buffer[g] \in Seq(Row)
       /\ durable[g] \in Nat /\ g \in DOMAIN card /\ g \in DOMAIN buffer
       /\ g \in DOMAIN durable
       /\ FileOK(card[g], buffer[g], durable[g], expected[g], error)
  BY FileTypes DEF Types
<1>11. /\ card'[g] = card[g] \o t
       /\ (w.ok /\ buffer'[g] = <<>>) \/ (~ w.ok /\ buffer'[g] = buffer[g])
       /\ (ok /\ durable'[g] = Len(card[g] \o t)) \/ (~ ok /\ durable'[g] = durable[g])
  <2>1. card'[g] = card[g] \o t
    BY <1>1, <1>3, <1>10
  <2>2. buffer'[g] = IF w.ok THEN <<>> ELSE buffer[g]
    BY <1>1, <1>10 DEF AfterFlush
  <2>3. durable'[g] = IF ok THEN Len(card'[g]) ELSE durable[g]
    BY <1>1, <1>10 DEF Flushed
  <2> QED BY <2>1, <2>2, <2>3
<1>12. /\ FileOK(card'[g], buffer'[g], durable'[g], expected'[g], error')
       /\ Kept(card[g], durable[g], card'[g])
  <2>1. PICK b2 \in {buffer'[g]}, d2 \in {durable'[g]}, err2 \in BOOLEAN : err2 = error'
    BY <1>8
  <2>2. b2 = buffer[g] \/ (b2 = <<>> /\ t = buffer[g])
    BY <1>4, <1>11, <2>1
  <2>3. d2 = durable[g] \/ d2 = Len(card[g] \o t)
    BY <1>11, <2>1
  <2>4. error => err2
    BY <1>8, <2>1
  <2>5. ~ err2 => b2 = <<>> /\ t = buffer[g] /\ d2 = Len(card[g] \o t)
    <3>1. ~ error' => w.ok /\ ok
      BY <1>8, Zenon
    <3> QED BY <1>4, <1>11, <2>1, <3>1
  <2>6. /\ FileOK(card[g] \o t, b2, d2, expected[g], err2)
        /\ Kept(card[g], durable[g], card[g] \o t)
    <3>1. /\ card[g] \in Seq(Item) /\ expected[g] \in Seq(Item) /\ buffer[g] \in Seq(Row)
          /\ durable[g] \in Nat /\ error \in BOOLEAN
          /\ buffer[g] = <<>> => t = <<>>
          /\ FileOK(card[g], buffer[g], durable[g], expected[g], error)
      BY <1>3, <1>7, <1>10
    <3>2. FlushResult(card[g], buffer[g], durable[g], error, t, b2, d2, err2)
      BY <2>2, <2>3, <2>4, <2>5, <3>1 DEF FlushResult
    <3> QED BY <3>1, <3>2, FileFlushed
  <2> QED BY <1>11, <2>1, <2>6
<1>13. ASSUME NEW f \in File
       PROVE  /\ FileOK(card'[f], buffer'[f], durable'[f], expected'[f], error')
              /\ Kept(card[f], durable[f], card'[f])
              /\ card[f] # <<>> => card'[f] # <<>>
  <2>1. CASE f = g
    <3>1. card[g] # <<>> => card[g] \o t # <<>>
      <4>1. t \in Seq(Item)
        BY SeqMonotonic DEF Item
      <4> QED BY <1>10, <4>1, ConcatEqualIffEmpty
    <3> QED BY <1>11, <1>12, <2>1, <3>1
  <2>2. CASE f # g
    <3>1. card'[f] = card[f] /\ buffer'[f] = buffer[f] /\ durable'[f] = durable[f]
      BY <1>1, <2>2 DEF Types
    <3>2. /\ FileOK(card[f], buffer[f], durable[f], expected[f], error')
          /\ Kept(card[f], durable[f], card[f])
      BY <1>8, FileTypes, FileUnchanged
    <3> QED BY <3>1, <3>2
  <2> QED BY <2>1, <2>2
<1>14. /\ card' \in [File -> Seq(Item)] /\ buffer' \in [File -> Seq(Row)]
       /\ durable' \in [File -> Nat]
  <2>1. card' \in [File -> Seq(Item)]
    BY <1>1, <1>3 DEF Types
  <2>2. AfterFlush(g, w.ok) \in Seq(Row)
    BY <1>10 DEF AfterFlush
  <2>3. buffer' \in [File -> Seq(Row)]
    BY <1>1, <2>2 DEF Types
  <2>4. Flushed(g, ok) \in Nat
    <3>1. Len(card'[g]) \in Nat
      BY <2>1, LenProperties
    <3> QED BY <1>10, <3>1 DEF Flushed
  <2> QED BY <1>1, <2>1, <2>3, <2>4 DEF Types
<1> QED BY <1>8, <1>9, <1>13, <1>14 DEF FilesOK, FlushedStays, Kept

\* A file is opened, or opening it fails.
LEMMA FileIsOpened ==
    ASSUME Types, FilesOK, FilesOpen, NEW g \in File, Open(g)
    PROVE  Types' /\ FilesOK' /\ FilesOpen' /\ FlushedStays
<1>1. /\ card' = [card EXCEPT ![g] = Opened(@)]
      /\ durable' = [durable EXCEPT ![g] = Len(card'[g])]
      /\ expected' = [expected EXCEPT ![g] = card'[g]]
      /\ UNCHANGED <<sharedVars, shownVars, forced, buffer, rows, faults, losses>>
      /\ pc = IF g = "CAN" THEN "openCan" ELSE "openRoll"
      /\ pc' = IF g = "CAN" THEN "openRoll" ELSE "wait"
  BY DEF Open
<1>2. \A f \in File : buffer[f] = <<>> /\ buffer'[f] = <<>>
  BY <1>1 DEF FilesOpen, Opening, Empty
<1>3. card'[g] = Opened(card[g]) /\ durable'[g] = Len(Opened(card[g]))
      /\ expected'[g] = Opened(card[g])
  BY <1>1 DEF Types
<1>4. /\ Opened(card[g]) \in Seq(Item) /\ Opened(card[g]) # <<>>
      /\ FileOK(Opened(card[g]), <<>>, Len(Opened(card[g])), Opened(card[g]), error)
      /\ Kept(card[g], durable[g], Opened(card[g]))
  BY <1>2, FileTypes, FileOpened
<1>5. Types'
  <2>1. Len(Opened(card[g])) \in Nat
    BY <1>4, LenProperties
  <2>2. /\ card' \in [File -> Seq(Item)] /\ expected' \in [File -> Seq(Item)]
        /\ durable' \in [File -> Nat]
    BY <1>1, <1>3, <1>4, <2>1 DEF Types
  <2>3. pc' \in {"openRoll", "wait"}
    BY <1>1
  <2> QED BY <1>1, <2>2, <2>3 DEF Types, sharedVars, shownVars
<1>6. ASSUME NEW f \in File
      PROVE  /\ FileOK(card'[f], buffer'[f], durable'[f], expected'[f], error')
             /\ Kept(card[f], durable[f], card'[f])
  <2>0. error' = error
    BY <1>1 DEF shownVars
  <2>1. CASE f = g
    BY <1>2, <1>3, <1>4, <2>0, <2>1
  <2>2. CASE f # g
    <3>1. /\ card'[f] = card[f] /\ buffer'[f] = buffer[f] /\ durable'[f] = durable[f]
          /\ expected'[f] = expected[f]
      BY <1>1, <2>2 DEF Types
    <3>2. /\ FileOK(card[f], buffer[f], durable[f], expected[f], error)
          /\ Kept(card[f], durable[f], card[f])
      BY FileTypes, FileUnchanged
    <3> QED BY <2>0, <3>1, <3>2
  <2> QED BY <2>1, <2>2
<1>7. FilesOpen'
  <2>1. buffer' = Empty
    BY <1>1 DEF FilesOpen, Opening
  <2>2. CASE g = "CAN"
    BY <1>1, <1>3, <1>4, <2>1, <2>2 DEF FilesOpen, Opening
  <2>3. CASE g = "ROLLV2"
    <3>1. pc = "openRoll" /\ card["CAN"] # <<>> /\ card'["CAN"] = card["CAN"]
      BY <1>1, <2>3 DEF FilesOpen, Types, File
    <3>2. \A f \in File : card'[f] # <<>>
      BY <1>3, <1>4, <2>3, <3>1 DEF File
    <3> QED BY <1>1, <2>1, <2>3, <3>2 DEF FilesOpen
  <2> QED BY <2>2, <2>3 DEF File
<1> QED BY <1>5, <1>6, <1>7 DEF FilesOK, FlushedStays, Kept

LEMMA FileIsNotOpened ==
    ASSUME Types, FilesOK, FilesOpen, OpenFails
    PROVE  Types' /\ FilesOK' /\ FilesOpen' /\ FlushedStays /\ error' /\ active' = FALSE
<1> DEFINE g == IF pc = "openCan" THEN "CAN" ELSE "ROLLV2"
<1>0. g \in File
  BY DEF File
<1>1. /\ pc \in {"openCan", "openRoll"} /\ pc' = "ended"
      /\ card' \in {card, [card EXCEPT ![g] = Opened(@)]}
      /\ UNCHANGED <<sharedVars, unflushed, forced, buffer, durable, expected, rows,
                     losses>>
  BY DEF OpenFails
<1>2. faults' = faults + 1 /\ error' = TRUE /\ active' = FALSE
  <2>1. /\ faults' = faults + 1 /\ error' = (error \/ 1 > 0)
        /\ active' = (FALSE /\ 1 = 0)
    BY DEF OpenFails, MarkError
  <2>2. (1 > 0) = TRUE
    OBVIOUS
  <2> QED BY <2>1, <2>2, Zenon
<1> HIDE DEF g
<1>3. \A f \in File : buffer[f] = <<>> /\ buffer'[f] = <<>>
  BY <1>1 DEF FilesOpen, Opening, Empty
<1>4. /\ Opened(card[g]) \in Seq(Item)
      /\ FileOK(Opened(card[g]), <<>>, durable[g], expected[g], TRUE)
      /\ Kept(card[g], durable[g], Opened(card[g]))
  BY <1>0, <1>3, FileTypes, FileOpened, FileNotOpened
<1>5. \A f \in File : card'[f] = card[f] \/ (f = g /\ card'[f] = Opened(card[g]))
  BY <1>0, <1>1 DEF Types
<1>6. card' \in [File -> Seq(Item)]
  BY <1>0, <1>1, <1>4 DEF Types
<1>7. Types'
  <2>1. {requested', stopping', signal', error', active', unflushed', forced'} \subseteq BOOLEAN
    BY <1>1, <1>2 DEF Types, sharedVars
  <2>2. /\ queue' = queue /\ pc' = "ended" /\ expected' = expected /\ buffer' = buffer
        /\ durable' = durable /\ rows' = rows /\ losses' = losses /\ faults' \in Nat
    BY <1>1, <1>2 DEF Types, sharedVars
  <2> QED BY <1>6, <2>1, <2>2 DEF Types
<1>8. ASSUME NEW f \in File
      PROVE  /\ FileOK(card'[f], buffer'[f], durable'[f], expected'[f], error')
             /\ Kept(card[f], durable[f], card'[f])
  <2>1. CASE card'[f] = card[f]
    <3>1. /\ FileOK(card[f], buffer[f], durable[f], expected[f], TRUE)
          /\ Kept(card[f], durable[f], card[f])
      BY FileTypes, FileUnchanged
    <3> QED BY <1>1, <1>2, <2>1, <3>1
  <2>2. CASE f = g /\ card'[f] = Opened(card[g])
    BY <1>1, <1>2, <1>3, <1>4, <2>2
  <2> QED BY <1>5, <2>1, <2>2
<1>9. FilesOpen'
  BY <1>1 DEF FilesOpen, Opening
<1> QED BY <1>2, <1>7, <1>8, <1>9 DEF FilesOK, FlushedStays, Kept

\* Power is lost.
LEMMA PowerIsLost ==
    ASSUME Types, FilesOK, PowerLoss
    PROVE  /\ Types' /\ FilesOK' /\ FilesOpen' /\ FlushedStays
           /\ active' = FALSE /\ unflushed' = FALSE /\ buffer' = Empty
<1>1. PICK can \in durable["CAN"] .. Len(card["CAN"]),
           roll \in durable["ROLLV2"] .. Len(card["ROLLV2"]) :
        /\ durable' = [f \in File |-> IF f = "CAN" THEN can ELSE roll]
        /\ card' = [f \in File |-> SubSeq(card[f], 1, durable'[f])]
  BY DEF PowerLoss
<1>2. /\ requested' = FALSE /\ stopping' = FALSE /\ signal' = FALSE /\ queue' = <<>>
      /\ error' = FALSE /\ active' = FALSE /\ unflushed' = FALSE
      /\ pc' = "openCan" /\ forced' = FALSE /\ buffer' = Empty /\ expected' = card'
      /\ losses' = losses + 1 /\ UNCHANGED <<rows, faults>>
  BY DEF PowerLoss
<1>3. ASSUME NEW f \in File
      PROVE  /\ durable'[f] \in Nat /\ card'[f] \in Seq(Item)
             /\ FileOK(card'[f], buffer'[f], durable'[f], expected'[f], error')
             /\ Kept(card[f], durable[f], card'[f])
  <2>1. PICK n \in durable[f] .. Len(card[f]) : durable'[f] = n
    BY <1>1 DEF File
  <2>2. card'[f] = SubSeq(card[f], 1, n)
    BY <1>1, <2>1
  <2>3. /\ SubSeq(card[f], 1, n) \in Seq(Item)
        /\ FileOK(SubSeq(card[f], 1, n), <<>>, n, SubSeq(card[f], 1, n), FALSE)
        /\ Kept(card[f], durable[f], SubSeq(card[f], 1, n))
    BY FileTypes, FileCut
  <2>4. buffer'[f] = <<>> /\ expected'[f] = card'[f]
    BY <1>2 DEF Empty
  <2>5. n \in Nat
    BY FileTypes, LenProperties
  <2> QED BY <1>2, <2>1, <2>2, <2>3, <2>4, <2>5
<1>4. card' \in [File -> Seq(Item)] /\ durable' \in [File -> Nat]
  <2>1. card' = [f \in File |-> card'[f]] /\ durable' = [f \in File |-> durable'[f]]
    BY <1>1
  <2> QED BY <1>3, <2>1
<1>5. Types'
  <2>1. Empty \in [File -> Seq(Row)]
    BY DEF Empty
  <2>2. <<>> \in Seq(BOOLEAN) /\ Len(<<>>) <= QueueCap
    BY LoggerAssumption
  <2>3. {requested', stopping', signal', error', active', unflushed', forced'} \subseteq BOOLEAN
    BY <1>2
  <2>4. rows' \in Nat /\ faults' \in Nat /\ losses' \in Nat
    BY <1>2 DEF Types
  <2> QED BY <1>2, <1>4, <2>1, <2>2, <2>3, <2>4 DEF Types
<1>6. FilesOpen'
  BY <1>2 DEF FilesOpen, Opening
<1> QED BY <1>2, <1>3, <1>5, <1>6 DEF FilesOK, FlushedStays, Kept

-----------------------------------------------------------------------------
(* The inductive invariant.                                                *)

LEMMA LoggerIInvInit == Init => LoggerIInv
<1> SUFFICES ASSUME Init PROVE LoggerIInv
  OBVIOUS
<1> USE DEF Init
<1>1. <<>> \in Seq(Item) /\ <<>> \in Seq(Row) /\ <<>> \in Seq(BOOLEAN) /\ Len(<<>>) = 0
  OBVIOUS
<1>2. Types
  <2>1. {requested, stopping, signal, error, active, unflushed, forced} \subseteq BOOLEAN
    OBVIOUS
  <2>2. /\ card \in [File -> Seq(Item)] /\ expected \in [File -> Seq(Item)]
        /\ buffer \in [File -> Seq(Row)] /\ durable \in [File -> Nat]
    BY <1>1 DEF Empty
  <2> QED BY <1>1, <2>1, <2>2, LoggerAssumption DEF Types
<1>3. FileOK(<<>>, <<>>, 0, <<>>, FALSE)
  <2>1. <<>> \o <<>> = <<>>
    BY <1>1, ConcatEmptySeq
  <2>2. /\ IsFiniteSet(MissingOf(<<>>, <<>>, <<>>))
        /\ Cardinality(MissingOf(<<>>, <<>>, <<>>)) <= BufCap
    BY <1>1, <2>1, NothingMissing
  <2> QED BY <1>1, <2>1, <2>2, LoggerAssumption DEF FileOK, Headed
<1>4. FilesOK
  BY <1>3 DEF FilesOK, Empty
<1>5. FilesOpen /\ Shown
  BY DEF FilesOpen, Opening, Shown, Empty
<1> QED BY <1>2, <1>4, <1>5 DEF LoggerIInv

\* Steps that touch no file.
LEMMA FilesUntouched ==
    ASSUME FilesOK, UNCHANGED <<card, buffer, durable, expected, error>>
    PROVE  FilesOK'
BY DEF FilesOK

LEMMA NothingUnflushed ==
    ASSUME FilesOK, UNCHANGED card
    PROVE  FlushedStays
BY DEF FlushedStays, FilesOK, FileOK

\* A frame is taken from the queue.
LEMMA RecordTaken ==
    ASSUME LoggerIInv, TakeRecord
    PROVE  LoggerIInv' /\ FlushedStays
<1> USE DEF LoggerIInv
<1>1. /\ pc = "wait" /\ queue # <<>> /\ pc' = "check" /\ forced' = FALSE
      /\ queue' = Tail(queue)
      /\ UNCHANGED <<requested, stopping, signal, unflushed, durable, losses>>
  BY DEF TakeRecord
<1>2. queue' \in Seq(BOOLEAN) /\ Len(queue') <= QueueCap
  <2>1. queue' \in Seq(BOOLEAN) /\ Len(queue') = Len(queue) - 1
    BY <1>1, HeadTailProperties DEF Types
  <2> QED BY <2>1, LenProperties, LoggerAssumption DEF Types
<1>3. CASE ~ error /\ LogRow(IF Head(queue) THEN File ELSE {"CAN"})
  <2>1. PICK files \in SUBSET File : LogRow(files)
    <3>1. (IF Head(queue) THEN File ELSE {"CAN"}) \in SUBSET File
      BY DEF File
    <3> QED BY <1>3, <3>1
  <2>2. \A f \in File : card[f] # <<>>
    BY <1>1 DEF FilesOpen, Opening
  <2>3. /\ card' \in [File -> Seq(Item)] /\ expected' \in [File -> Seq(Item)]
        /\ buffer' \in [File -> Seq(Row)]
        /\ rows' \in Nat /\ faults' \in Nat /\ error' \in BOOLEAN /\ active' \in BOOLEAN
        /\ active' => ~ error'
    BY <1>1, <1>3, <2>1, <2>2, RowLogged
  <2>4. FilesOK' /\ FlushedStays /\ \A f \in File : card'[f] # <<>>
    BY <1>1, <1>3, <2>1, <2>2, RowLogged
  <2>5. Types'
    BY <1>1, <1>2, <2>3 DEF Types
  <2>6. FilesOpen' /\ Shown'
    BY <1>1, <2>3, <2>4 DEF FilesOpen, Opening, Shown
  <2> QED BY <2>4, <2>5, <2>6
<1>4. CASE active' = FALSE /\ UNCHANGED <<error, buffer, card, expected, rows, faults>>
  <2>1. Types'
    BY <1>1, <1>2, <1>4 DEF Types
  <2>2. FilesOK' /\ FlushedStays
    BY <1>1, <1>4, FilesUntouched, NothingUnflushed
  <2>3. FilesOpen' /\ Shown'
    BY <1>1, <1>4 DEF FilesOpen, Opening, Shown
  <2> QED BY <2>1, <2>2, <2>3
<1> QED BY <1>3, <1>4 DEF TakeRecord

\* Both files are flushed, one after the other.
LEMMA FilesFlushed ==
    ASSUME LoggerIInv, FlushCan \/ FlushRoll
    PROVE  LoggerIInv' /\ FlushedStays
<1> USE DEF LoggerIInv
<1>1. PICK g \in File : Flush(g)
  BY DEF FlushCan, FlushRoll, File
<1>2. /\ UNCHANGED <<sharedVars, unflushed, expected, rows, losses>>
      /\ pc \in {"check", "flushRoll"} /\ pc' \in {"flushRoll", "end"}
      /\ forced' \in BOOLEAN
  BY DEF FlushCan, FlushRoll, Types
<1>3. active => ~ error
  BY DEF Shown
<1>4. /\ card' \in [File -> Seq(Item)] /\ buffer' \in [File -> Seq(Row)]
      /\ durable' \in [File -> Nat]
      /\ faults' \in Nat /\ error' \in BOOLEAN /\ active' \in BOOLEAN
      /\ active' => ~ error'
      /\ FilesOK' /\ FlushedStays
      /\ \A f \in File : card[f] # <<>> => card'[f] # <<>>
  BY <1>1, <1>2, <1>3, BufferFlushed
<1>5. Types'
  BY <1>2, <1>4 DEF Types, sharedVars
<1>6. FilesOpen' /\ Shown'
  BY <1>2, <1>4 DEF FilesOpen, Opening, Shown
<1> QED BY <1>4, <1>5, <1>6

\* Steps of core 1 and those of the task that touch no file.
LEMMA OthersKeep ==
    ASSUME LoggerIInv,
           \/ \E roll \in BOOLEAN : ReceiveFrame(roll)
           \/ StartLogging \/ StopLogging \/ SignalFlush
           \/ TakeFlush \/ SkipFlush \/ EndPass \/ UNCHANGED vars
    PROVE  LoggerIInv' /\ FlushedStays
<1> USE DEF LoggerIInv
<1>0. UNCHANGED <<card, buffer, durable, expected, error>>
  BY DEF ReceiveFrame, StartLogging, StopLogging, SignalFlush, TakeFlush, SkipFlush,
         EndPass, vars, shownVars, cardVars, historyVars
<1>1. FilesOK' /\ FlushedStays
  BY <1>0, FilesUntouched, NothingUnflushed
<1>2. ASSUME NEW roll \in BOOLEAN, ReceiveFrame(roll) PROVE Types'
  <2>1. queue' \in Seq(BOOLEAN) /\ Len(queue') <= QueueCap
    <3>1. Append(queue, roll) \in Seq(BOOLEAN) /\ Len(Append(queue, roll)) = Len(queue) + 1
      BY AppendProperties DEF Types
    <3>2. queue \in Seq(BOOLEAN) /\ Len(queue) \in Nat /\ Len(queue) <= QueueCap
      BY LenProperties DEF Types
    <3>3. queue' = IF Len(queue) < QueueCap THEN Append(queue, roll) ELSE queue
      BY <1>2 DEF ReceiveFrame
    <3>4. CASE Len(queue) < QueueCap
      <4>1. queue' = Append(queue, roll)
        BY <3>3, <3>4
      <4> QED BY <3>1, <3>2, <3>4, <4>1, LoggerAssumption
    <3>5. CASE ~ (Len(queue) < QueueCap)
      BY <3>2, <3>3, <3>5
    <3> QED BY <3>4, <3>5
  <2>2. /\ UNCHANGED <<requested, stopping, signal, error, active, unflushed, forced, pc>>
        /\ UNCHANGED <<card, expected, buffer, durable, rows, faults, losses>>
    BY <1>2 DEF ReceiveFrame, shownVars, cardVars, historyVars
  <2> QED BY <2>1, <2>2 DEF Types
<1>3. ASSUME StartLogging \/ StopLogging \/ SignalFlush \/ SkipFlush \/ TakeFlush
             \/ UNCHANGED vars
      PROVE  Types'
  <2>1. requested' \in BOOLEAN /\ stopping' \in BOOLEAN /\ signal' \in BOOLEAN
        /\ forced' \in BOOLEAN
    BY <1>3
       DEF StartLogging, StopLogging, SignalFlush, SkipFlush, TakeFlush, WakeUp, Types,
           vars, sharedVars
  <2>2. UNCHANGED <<queue, error, active, unflushed, card, expected, buffer, durable, rows,
                    faults, losses>>
    BY <1>3
       DEF StartLogging, StopLogging, SignalFlush, SkipFlush, TakeFlush, vars, sharedVars,
           shownVars, cardVars, historyVars
  <2>3. pc' \in {pc, "check", "end"}
    BY <1>3 DEF StartLogging, StopLogging, SignalFlush, SkipFlush, TakeFlush, vars
  <2>4. {requested', stopping', signal', error', active', unflushed', forced'} \subseteq BOOLEAN
    BY <2>1, <2>2 DEF Types
  <2> QED BY <2>2, <2>3, <2>4 DEF Types
<1>5. ASSUME EndPass PROVE Types'
  <2>1. active' = (active /\ requested) /\ unflushed' = (\E f \in File : buffer[f] # <<>>)
    BY <1>5 DEF EndPass
  <2>2. active' \in BOOLEAN /\ unflushed' \in BOOLEAN
    BY <2>1
  <2>3. /\ UNCHANGED <<requested, stopping, signal, queue, error, forced, card, expected,
                       buffer, durable, rows, faults, losses>>
        /\ pc' = "wait"
    BY <1>5 DEF EndPass, sharedVars, cardVars, historyVars
  <2>4. {requested', stopping', signal', error', active', unflushed', forced'} \subseteq BOOLEAN
    BY <2>2, <2>3 DEF Types
  <2> QED BY <2>3, <2>4 DEF Types
<1>6. Types'
  BY <1>2, <1>3, <1>5
<1>7. Opening' <=> Opening
  BY DEF Opening, ReceiveFrame, StartLogging, StopLogging, SignalFlush, TakeFlush,
         SkipFlush, EndPass, vars
<1>8. FilesOpen'
  <2>1. pc' = "openRoll" => pc = "openRoll"
    BY DEF ReceiveFrame, StartLogging, StopLogging, SignalFlush, TakeFlush, SkipFlush,
           EndPass, vars
  <2> QED BY <1>0, <1>7, <2>1 DEF FilesOpen
<1>9. Shown'
  <2>1. CASE EndPass
    <3>1. /\ active' = (active /\ requested) /\ active \in BOOLEAN /\ requested \in BOOLEAN
          /\ unflushed' = (\E f \in File : buffer[f] # <<>>)
      BY <2>1 DEF EndPass, Types
    <3> QED BY <1>0, <3>1 DEF Shown
  <2>2. CASE ~ EndPass
    <3>1. /\ active' = active /\ unflushed' = unflushed
          /\ pc' \in {"openCan", "openRoll", "wait"} => pc' = pc
      BY <2>2
         DEF ReceiveFrame, StartLogging, StopLogging, SignalFlush, TakeFlush, SkipFlush,
             vars, shownVars
    <3> QED BY <1>0, <3>1 DEF Shown
  <2> QED BY <2>1, <2>2
<1> QED BY <1>1, <1>6, <1>8, <1>9

LEMMA LoggerIInvKept ==
    ASSUME LoggerIInv, [Next]_vars
    PROVE  LoggerIInv' /\ FlushedStays
<1>1. ASSUME NEW f \in File, Open(f) PROVE LoggerIInv' /\ FlushedStays
  <2>1. Types' /\ FilesOK' /\ FilesOpen' /\ FlushedStays
    BY <1>1, FileIsOpened DEF LoggerIInv
  <2>2. Shown'
    <3>1. UNCHANGED <<active, unflushed, error, buffer>> /\ Opening
      BY <1>1 DEF Open, shownVars, Opening, File
    <3>2. pc \in {"openCan", "openRoll"}
      BY <1>1 DEF Open
    <3>3. buffer = Empty /\ unflushed \in BOOLEAN
      BY <3>1 DEF LoggerIInv, FilesOpen, Types
    <3>4. unflushed = FALSE
      BY <3>2, <3>3 DEF LoggerIInv, Shown, Empty
    <3> QED BY <3>1, <3>3, <3>4 DEF LoggerIInv, Shown, Empty
  <2> QED BY <2>1, <2>2 DEF LoggerIInv
<1>2. CASE OpenFails
  <2>1. Types' /\ FilesOK' /\ FilesOpen' /\ FlushedStays /\ active' = FALSE
    BY <1>2, FileIsNotOpened DEF LoggerIInv
  <2>2. Shown'
    BY <1>2, <2>1 DEF OpenFails, Shown
  <2> QED BY <2>1, <2>2 DEF LoggerIInv
<1>3. CASE PowerLoss
  <2>1. /\ Types' /\ FilesOK' /\ FilesOpen' /\ FlushedStays
        /\ active' = FALSE /\ unflushed' = FALSE /\ buffer' = Empty
    BY <1>3, PowerIsLost DEF LoggerIInv
  <2>2. Shown'
    BY <2>1 DEF Shown, Empty
  <2> QED BY <2>1, <2>2 DEF LoggerIInv
<1> QED BY <1>1, <1>2, <1>3, RecordTaken, FilesFlushed, OthersKeep DEF Next, Task

-----------------------------------------------------------------------------
(* The properties.                                                         *)

LEMMA LoggerIInvIsEnough ==
    ASSUME LoggerIInv
    PROVE  LoggerInv /\ LossIsBounded /\ ShownIsTrue
<1> USE DEF LoggerIInv
<1>1. ASSUME NEW f \in File
      PROVE  /\ card[f] \in Seq(Item) /\ expected[f] \in Seq(Item)
             /\ buffer[f] \in Seq(Row) /\ durable[f] \in Nat
             /\ FileOK(card[f], buffer[f], durable[f], expected[f], error)
  BY DEF Types, FilesOK
<1>2. TypeOK
  <2>1. ASSUME NEW f \in File
        PROVE  Len(buffer[f]) <= BufCap /\ durable[f] \in 0 .. Len(card[f])
    <3>1. Len(card[f]) \in Nat
      BY <1>1, LenProperties
    <3>2. Len(buffer[f]) <= BufCap /\ durable[f] <= Len(card[f]) /\ durable[f] \in Nat
      BY <1>1 DEF FileOK
    <3> HIDE DEF LoggerIInv
    <3> QED BY <3>1, <3>2
  <2>2. /\ {requested, stopping, signal, error, active, unflushed, forced} \subseteq BOOLEAN
        /\ Len(queue) <= QueueCap
        /\ pc \in {"openCan", "openRoll", "wait", "check", "flushRoll", "end", "ended"}
    BY DEF Types
  <2> HIDE DEF LoggerIInv
  <2> QED BY <2>1, <2>2, Zenon DEF TypeOK
<1>3. LogIsComplete
  BY <1>1 DEF LogIsComplete, FileOK
<1>4. HeaderFirst
  <2>1. ASSUME NEW f \in File PROVE DOMAIN card[f] = 1 .. Len(card[f]) /\ Headed(card[f])
    BY <1>1, LenProperties DEF FileOK
  <2> QED BY <2>1 DEF HeaderFirst, Headed
<1>5. LossIsBounded
  BY <1>1 DEF LossIsBounded, Missing, MissingOf, FileOK
<1>6. ASSUME pc = "wait", ~ unflushed, ~ error PROVE AllDurable
  <2>1. ASSUME NEW f \in File PROVE durable[f] = Len(expected[f])
    <3>1. buffer[f] = <<>>
      BY <1>6 DEF Shown
    <3>2. card[f] \o <<>> = expected[f] /\ durable[f] = Len(card[f])
      BY <1>1, <1>6, <3>1 DEF FileOK
    <3>3. card[f] \o <<>> = card[f]
      BY <1>1, ConcatEmptySeq
    <3> QED BY <3>2, <3>3
  <2> QED BY <2>1 DEF AllDurable
<1>7. ShownIsTrue
  BY <1>6 DEF ShownIsTrue, Shown
<1> QED BY <1>2, <1>3, <1>4, <1>5, <1>7 DEF LoggerInv

\* The inductive invariant holds throughout.
LEMMA LoggerIInvHolds == Spec => []LoggerIInv
<1>1. LoggerIInv /\ [Next]_vars => LoggerIInv'
  BY LoggerIInvKept
<1> QED BY <1>1, LoggerIInvInit, PTL DEF Spec

\* Whatever fails and whenever power is lost, a file is its header and rows in order;
\* until sd_write_task shows an error, with every row it accepted, once.
THEOREM LogIsKept == Spec => []LoggerInv
<1>1. LoggerIInv => LoggerInv
  BY LoggerIInvIsEnough
<1> QED BY <1>1, LoggerIInvHolds, PTL

\* After an error no file misses more rows than a buffer holds: logging ends with the
\* first error, and a buffer that could not be flushed is kept and written again.
THEOREM AtMostABufferIsLost == Spec => []LossIsBounded
<1>1. LoggerIInv => LossIsBounded
  BY LoggerIInvIsEnough
<1> QED BY <1>1, LoggerIInvHolds, PTL

\* Without an error and with HAS_UNFLUSHED_DATA clear, power may be cut without losing
\* a row, and LOGGING_ACTIVE is not set after an error.
THEOREM WhatIsShownIsTrue == Spec => []ShownIsTrue
<1>1. LoggerIInv => ShownIsTrue
  BY LoggerIInvIsEnough
<1> QED BY <1>1, LoggerIInvHolds, PTL

\* No restart, failed write or repeated write changes what File::flush has put onto
\* the card.
THEOREM FlushedRowsStay == Spec => FlushedStaysAlways
<1>1. LoggerIInv /\ [Next]_vars => [FlushedStays]_vars
  BY LoggerIInvKept
<1> QED BY <1>1, LoggerIInvHolds, PTL DEF Spec, FlushedStaysAlways
=============================================================================
