---------------------------- MODULE RepodudeProofs ----------------------------
(***************************************************************************)
(* Proofs about Repodude: whatever the texts, the rows of the database are *)
(* the lines of the text, and a well-formed text is converted.             *)
(*                                                                         *)
(* The loop reads the text from the front, a buffer at a time, and what it *)
(* is compared with cuts the text at all its line breaks at once.  What    *)
(* connects them is a count: as many lines are read as start in the part   *)
(* of the text that is read.                                               *)
(***************************************************************************)
EXTENDS Repodude, SequenceTheorems, FiniteSetTheorems, Induction

-----------------------------------------------------------------------------
(* The inductive invariant *)

Read == Len(text) - Len(rest)

LinesRead == Cardinality({i \in LineStarts(text) : i <= Read})

AllFit(s) == \A i \in DOMAIN Lines(s) : Fits(Lines(s)[i])

Rows == Seq(Seq(Char))

TextInv ==
  /\ text \in Seq(Char) /\ rest \in Seq(Char) /\ Len(rest) <= Len(text)
  /\ \A i \in 1 .. Len(rest) : rest[i] = text[Read + i]
  /\ info \in Rows
  /\ dest \in [exists : BOOLEAN, table : BOOLEAN, rows : Seq(Rows)]
  /\ pc \in {"unlink", "tables"} => rest = text
  /\ pc = "unlink" => flaws = {}
  /\ pc = "tables" /\ "unlink" \notin flaws => dest = NoFile

(***************************************************************************)
(* What RowsAreLines leaves open: that the loop is at the start of a line  *)
(* or at the end, and that the fields at hand are those of the last line.  *)
(***************************************************************************)
RowsInv ==
  pc \in {"read", "insert", "ok"} /\ "unlink" \notin flaws /\ AllFit(text) =>
    /\ dest.table
    /\ Read = Len(text) \/ Read + 1 \in LineStarts(text)
    /\ LinesRead = Len(dest.rows) + (IF pc = "insert" THEN 1 ELSE 0)
    /\ \A i \in 1 .. LinesRead : Len(Fields(Lines(text)[i])) >= FieldsCount
    /\ \A i \in DOMAIN dest.rows : dest.rows[i] = RowIn(Lines(text)[i])
    /\ pc = "insert" => info = RowIn(Lines(text)[LinesRead])
    /\ pc = "ok" /\ "read" \notin flaws => rest = <<>>

ConversionInv == TextInv /\ RowsInv /\ WellFormedSucceeds

-----------------------------------------------------------------------------
(* Sets of positions *)

(***************************************************************************)
(* How many of a set of positions come up to i.                            *)
(***************************************************************************)
UpTo(S, i) == {j \in S : j <= i}

LEMMA PositionsTypes ==
  ASSUME NEW L \in Nat, NEW S \in SUBSET (1 .. L)
  PROVE  IsFiniteSet(S) /\ Cardinality(S) \in 0 .. L
<1>1. IsFiniteSet(1 .. L) /\ Cardinality(1 .. L) = L
  BY FS_Interval
<1>2. IsFiniteSet(S) /\ Cardinality(S) <= L
  BY <1>1, FS_Subset
<1> QED
  BY <1>2, FS_CardinalityType

LEMMA UpToTypes ==
  ASSUME NEW L \in Nat, NEW S \in SUBSET (1 .. L), NEW i
  PROVE  /\ IsFiniteSet(UpTo(S, i)) /\ Cardinality(UpTo(S, i)) \in 0 .. Cardinality(S)
         /\ Cardinality(UpTo(S, i)) \in Nat
<1>1. IsFiniteSet(S) /\ Cardinality(S) \in Nat
  BY PositionsTypes
<1>2. UpTo(S, i) \in SUBSET S
  BY DEF UpTo
<1>3. IsFiniteSet(UpTo(S, i)) /\ Cardinality(UpTo(S, i)) <= Cardinality(S)
  BY <1>1, <1>2, FS_Subset
<1> QED
  BY <1>1, <1>3, FS_CardinalityType

(***************************************************************************)
(* One more position is one more.                                          *)
(***************************************************************************)
LEMMA UpToNext ==
  ASSUME NEW L \in Nat, NEW S \in SUBSET (1 .. L), NEW i \in S, NEW m \in Int,
         m < i, \A j \in S : ~(m < j /\ j < i)
  PROVE  Cardinality(UpTo(S, i)) = Cardinality(UpTo(S, m)) + 1
<1>1. \A j \in S : j \in Int
  OBVIOUS
<1>2. \A j : j \in UpTo(S, i) <=> j \in UpTo(S, m) \/ j = i
  <2>1. \A j \in S : j <= i <=> j <= m \/ j = i
    BY <1>1
  <2> QED
    BY <2>1 DEF UpTo
<1>3. i \notin UpTo(S, m)
  BY <1>1 DEF UpTo
<1>4. UpTo(S, i) = UpTo(S, m) \cup {i}
  BY <1>2
<1>5. IsFiniteSet(UpTo(S, m))
  BY UpToTypes
<1> QED
  BY <1>3, <1>4, <1>5, FS_AddElement

(***************************************************************************)
(* The positions of a set are numbered in their order.                     *)
(***************************************************************************)
LEMMA NthUnique ==
  ASSUME NEW L \in Nat, NEW S \in SUBSET (1 .. L), NEW i \in S
  PROVE  /\ Cardinality(UpTo(S, i)) \in 1 .. Cardinality(S)
         /\ Nth(S, Cardinality(UpTo(S, i))) = i
<1>1. ASSUME NEW j \in S, NEW k \in S, j < k
      PROVE  Cardinality(UpTo(S, j)) < Cardinality(UpTo(S, k))
  <2>1. \A m \in S : m \in Int
    OBVIOUS
  <2>2. UpTo(S, j) \in SUBSET UpTo(S, k) /\ k \in UpTo(S, k) /\ k \notin UpTo(S, j)
    <3>1. k <= k /\ ~(k <= j) /\ \A m \in S : m <= j => m <= k
      BY <1>1, <2>1
    <3> QED
      BY <3>1 DEF UpTo
  <2>3. /\ IsFiniteSet(UpTo(S, k))
        /\ Cardinality(UpTo(S, j)) \in Nat /\ Cardinality(UpTo(S, k)) \in Nat
    BY UpToTypes
  <2>4. /\ Cardinality(UpTo(S, j)) <= Cardinality(UpTo(S, k))
        /\ Cardinality(UpTo(S, j)) # Cardinality(UpTo(S, k))
    BY <2>2, <2>3, FS_Subset
  <2> QED
    BY <2>3, <2>4
<1>2. \A j, k \in S : Cardinality(UpTo(S, j)) = Cardinality(UpTo(S, k)) => j = k
  <2> SUFFICES ASSUME NEW j \in S, NEW k \in S,
                      Cardinality(UpTo(S, j)) = Cardinality(UpTo(S, k))
               PROVE  j = k
    OBVIOUS
  <2>1. Cardinality(UpTo(S, j)) \in Nat /\ Cardinality(UpTo(S, k)) \in Nat
    BY UpToTypes
  <2>2. j \in Int /\ k \in Int
    OBVIOUS
  <2> QED
    BY <1>1, <2>1, <2>2
<1>3. Nth(S, Cardinality(UpTo(S, i))) = i
  BY <1>2 DEF Nth, UpTo
<1>4. i \in UpTo(S, i)
  <2>1. i \in Int
    OBVIOUS
  <2> QED
    BY <2>1 DEF UpTo
<1>5. Cardinality(UpTo(S, i)) # 0
  BY <1>4, UpToTypes, FS_EmptySet
<1>6. Cardinality(UpTo(S, i)) \in 0 .. Cardinality(S) /\ Cardinality(S) \in Nat
  <2>1. Cardinality(S) \in Nat
    BY PositionsTypes
  <2>2. Cardinality(UpTo(S, i)) \in 0 .. Cardinality(S)
    BY UpToTypes
  <2> QED
    BY <2>1, <2>2
<1> QED
  BY <1>3, <1>5, <1>6

LEMMA NthExists ==
  ASSUME NEW L \in Nat, NEW S \in SUBSET (1 .. L), NEW n \in 1 .. Cardinality(S)
  PROVE  Nth(S, n) \in S
<1>0. \A j \in S : j \in 1 .. L
  OBVIOUS
<1> DEFINE Far == {m \in 0 .. L : n <= Cardinality(UpTo(S, m))}
<1>1. L \in Far
  <2>1. UpTo(S, L) = S
    <3>1. \A j \in S : j <= L
      BY <1>0
    <3> QED
      BY <3>1 DEF UpTo
  <2> QED
    BY <2>1
<1>2. PICK i \in Far : \A k \in Far : i <= k
  <2>1. Far \subseteq Nat /\ Far # {}
    BY <1>1
  <2> HIDE DEF Far
  <2> QED
    BY <2>1, Smallest
<1>3. i # 0
  <2>1. UpTo(S, 0) = {}
    <3>1. \A j \in S : ~(j <= 0)
      BY <1>0
    <3> QED
      BY <3>1 DEF UpTo
  <2> QED
    BY <1>2, <2>1, FS_EmptySet
<1>4. i - 1 \in 0 .. L /\ ~(n <= Cardinality(UpTo(S, i - 1)))
  BY <1>2, <1>3
<1>5. i \in S
  <2>1. SUFFICES ASSUME i \notin S
                 PROVE  FALSE
    OBVIOUS
  <2>2. \A j \in S : j <= i <=> j <= i - 1
    BY <1>0, <1>2, <2>1
  <2>3. UpTo(S, i) = UpTo(S, i - 1)
    BY <2>2 DEF UpTo
  <2> QED
    BY <1>2, <1>4, <2>3
<1>6. Cardinality(UpTo(S, i)) = Cardinality(UpTo(S, i - 1)) + 1
  <2>1. i - 1 \in Int /\ i - 1 < i /\ \A j \in S : ~(i - 1 < j /\ j < i)
    BY <1>0, <1>4, <1>5
  <2> HIDE DEF Far
  <2> QED
    BY <1>5, <2>1, UpToNext
<1>7. n = Cardinality(UpTo(S, i))
  <2>1. Cardinality(UpTo(S, i - 1)) \in Nat
    BY UpToTypes
  <2> QED
    BY <1>2, <1>4, <1>6, <2>1
<1> QED
  BY <1>5, <1>7, NthUnique
-----------------------------------------------------------------------------
(* The pieces of a text *)

EndOf(s, i, delimiter) == CHOOSE j \in i - 1 .. Len(s) : IsPiece(s, i, j, delimiter)

(***************************************************************************)
(* From every position one piece starts, which may be empty, and only one. *)
(***************************************************************************)
LEMMA PieceEnds ==
  ASSUME NEW L \in Nat, NEW s, Len(s) = L, NEW i \in 1 .. L, NEW delimiter
  PROVE  /\ EndOf(s, i, delimiter) \in i - 1 .. L
         /\ IsPiece(s, i, EndOf(s, i, delimiter), delimiter)
         /\ \A j \in i - 1 .. L :
              IsPiece(s, i, j, delimiter) => EndOf(s, i, delimiter) = j
<1> DEFINE Ends == {j \in i - 1 .. L : j = L \/ s[j + 1] = delimiter}
<1>1. L \in Ends
  OBVIOUS
<1>2. PICK e \in Ends : \A j \in Ends : e <= j
  <2>1. Ends \subseteq Nat /\ Ends # {}
    BY <1>1
  <2> HIDE DEF Ends
  <2> QED
    BY <2>1, Smallest
<1>3. e \in i - 1 .. L /\ (e = L \/ s[e + 1] = delimiter)
  BY <1>2
<1>4. ASSUME NEW k \in i .. e
      PROVE  s[k] # delimiter
  <2>1. SUFFICES ASSUME s[k] = delimiter
                 PROVE  FALSE
    OBVIOUS
  <2>2. k - 1 \in i - 1 .. L /\ (k - 1) + 1 = k /\ ~(e <= k - 1)
    BY <1>3
  <2>3. k - 1 \in Ends
    BY <2>1, <2>2
  <2> HIDE DEF Ends
  <2> QED
    BY <1>2, <2>2, <2>3
<1>5. IsPiece(s, i, e, delimiter)
  BY <1>3, <1>4 DEF IsPiece
<1>6. ASSUME NEW j \in i - 1 .. L, NEW k \in i - 1 .. L, j < k,
             IsPiece(s, i, j, delimiter), IsPiece(s, i, k, delimiter)
      PROVE  FALSE
  <2>1. j + 1 \in i .. k /\ j # L
    BY <1>6
  <2>2. s[j + 1] = delimiter
    BY <1>6, <2>1 DEF IsPiece
  <2>3. s[j + 1] # delimiter
    BY <1>6, <2>1 DEF IsPiece
  <2> QED
    BY <2>2, <2>3
<1>7. \A j, k \in i - 1 .. L :
        IsPiece(s, i, j, delimiter) /\ IsPiece(s, i, k, delimiter) => j = k
  <2> SUFFICES ASSUME NEW j \in i - 1 .. L, NEW k \in i - 1 .. L,
                      IsPiece(s, i, j, delimiter), IsPiece(s, i, k, delimiter)
               PROVE  j = k
    OBVIOUS
  <2>1. ~(j < k) /\ ~(k < j)
    BY <1>6
  <2> QED
    BY <2>1
<1>8. EndOf(s, i, delimiter) \in i - 1 .. L /\ IsPiece(s, i, EndOf(s, i, delimiter), delimiter)
  BY <1>3, <1>5 DEF EndOf
<1> QED
  BY <1>7, <1>8

LEMMA PieceIn ==
  ASSUME NEW C, NEW s \in Seq(C), NEW i \in 1 .. Len(s), NEW delimiter
  PROVE  SubSeq(s, i, EndOf(s, i, delimiter)) \in Seq(C)
<1> DEFINE L == Len(s)
           e == EndOf(s, i, delimiter)
<1>1. L \in Nat /\ e \in i - 1 .. L
  BY LenProperties, PieceEnds
<1>2. \A k \in i .. e : k \in 1 .. L
  <2> HIDE DEF e, L
  <2>1. i \in 1 .. L
    BY DEF L
  <2> QED
    BY <1>1, <2>1
<1>3. \A k \in i .. e : s[k] \in C
  BY <1>2, ElementOfSeq
<1>4. i \in Int /\ e \in Int
  BY <1>1
<1> HIDE DEF e
<1>5. SubSeq(s, i, e) \in Seq(C)
  BY ONLY <1>3, <1>4, SubSeqProperties
<1> QED
  BY <1>5 DEF e

LEMMA PiecesTypes ==
  ASSUME NEW C, NEW s \in Seq(C), NEW starts \in SUBSET (1 .. Len(s)), NEW delimiter
  PROVE  /\ Pieces(s, starts, delimiter) \in Seq(Seq(C))
         /\ Len(Pieces(s, starts, delimiter)) = Cardinality(starts)
         /\ Cardinality(starts) \in Nat
<1>1. Len(s) \in Nat /\ Cardinality(starts) \in Nat
  BY LenProperties, PositionsTypes
<1>2. ASSUME NEW n \in 1 .. Cardinality(starts)
      PROVE  Pieces(s, starts, delimiter)[n] \in Seq(C)
  <2>1. Nth(starts, n) \in 1 .. Len(s)
    BY <1>1, NthExists
  <2>2. Pieces(s, starts, delimiter)[n]
          = SubSeq(s, Nth(starts, n), EndOf(s, Nth(starts, n), delimiter))
    BY DEF Pieces, EndOf
  <2> QED
    BY <2>1, <2>2, PieceIn
<1>3. Pieces(s, starts, delimiter) \in [1 .. Cardinality(starts) -> Seq(C)]
  BY <1>2 DEF Pieces
<1> QED
  BY <1>1, <1>3

LEMMA PieceAt ==
  ASSUME NEW C, NEW s \in Seq(C), NEW starts \in SUBSET (1 .. Len(s)), NEW delimiter,
         NEW i \in starts
  PROVE  /\ Cardinality(UpTo(starts, i)) \in 1 .. Len(Pieces(s, starts, delimiter))
         /\ Pieces(s, starts, delimiter)[Cardinality(UpTo(starts, i))]
              = SubSeq(s, i, EndOf(s, i, delimiter))
<1> DEFINE n == Cardinality(UpTo(starts, i))
<1>1. Len(s) \in Nat
  BY LenProperties
<1>2. n \in 1 .. Cardinality(starts) /\ Nth(starts, n) = i
  BY <1>1, NthUnique
<1>3. Len(Pieces(s, starts, delimiter)) = Cardinality(starts)
  BY PiecesTypes
<1> HIDE DEF n
<1>4. Pieces(s, starts, delimiter)[n] = SubSeq(s, i, EndOf(s, i, delimiter))
  BY <1>2 DEF Pieces, EndOf
<1> QED
  BY <1>2, <1>3, <1>4 DEF n

LEMMA LinesTypes ==
  ASSUME NEW s \in Seq(Char)
  PROVE  /\ LineStarts(s) \in SUBSET (1 .. Len(s)) /\ Len(s) \in Nat
         /\ Lines(s) \in Seq(Seq(Char)) /\ Len(Lines(s)) = Cardinality(LineStarts(s))
         /\ DOMAIN Lines(s) = 1 .. Len(Lines(s))
<1>1. LineStarts(s) \in SUBSET (1 .. Len(s))
  BY DEF LineStarts
<1>2. Lines(s) \in Seq(Seq(Char)) /\ Len(Lines(s)) = Cardinality(LineStarts(s))
  BY <1>1, PiecesTypes DEF Lines
<1> QED
  BY <1>1, <1>2, LenProperties

LEMMA FieldsTypes ==
  ASSUME NEW line \in Seq(Char)
  PROVE  Fields(line) \in Rows /\ Len(Fields(line)) \in Nat
<1>1. FieldStarts(line) \in SUBSET (1 .. Len(line))
  BY DEF FieldStarts
<1>2. Fields(line) \in Rows
  BY <1>1, PiecesTypes DEF Fields, Rows
<1> QED
  BY <1>2, LenProperties DEF Rows

LEMMA RowTypes ==
  ASSUME NEW line \in Seq(Char), ~(Len(Fields(line)) < FieldsCount)
  PROVE  RowIn(line) \in Rows
<1> DEFINE fields == Fields(line)
<1>1. fields \in Seq(Seq(Char)) /\ Len(fields) \in Nat
  BY FieldsTypes DEF Rows
<1>2. \A i \in 1 .. FieldsCount : i \in 1 .. Len(fields)
  BY <1>1 DEF FieldsCount
<1> HIDE DEF fields
<1>3. \A i \in 1 .. FieldsCount : fields[i] \in Seq(Char)
  BY <1>1, <1>2, ElementOfSeq
<1>4. SubSeq(fields, 1, FieldsCount) \in Seq(Seq(Char))
  <2>1. 1 \in Int /\ FieldsCount \in Int
    BY DEF FieldsCount
  <2> QED
    BY ONLY <1>3, <2>1, SubSeqProperties
<1> QED
  BY <1>4 DEF RowIn, Rows, fields
-----------------------------------------------------------------------------
(* Reading a line *)

(***************************************************************************)
(* What fgets has read of the text so far, as positions in it.             *)
(***************************************************************************)
LEMMA ReadTypes ==
  ASSUME TextInv
  PROVE  /\ Len(text) \in Nat /\ Len(rest) \in Nat /\ Read \in 0 .. Len(text)
         /\ Len(rest) = Len(text) - Read /\ (rest = <<>> <=> Len(rest) = 0)
         /\ LineStarts(text) \in SUBSET (1 .. Len(text))
         /\ LinesRead = Cardinality(UpTo(LineStarts(text), Read))
         /\ LinesRead \in 0 .. Len(Lines(text)) /\ Len(Lines(text)) \in Nat
<1>1. Len(text) \in Nat /\ Len(rest) \in Nat /\ Len(rest) <= Len(text)
  BY LenProperties DEF TextInv
<1>2. rest = <<>> <=> Len(rest) = 0
  BY <1>1, EmptySeq DEF TextInv
<1>3. LineStarts(text) \in SUBSET (1 .. Len(text))
  BY LinesTypes DEF TextInv
<1>4. LinesRead = Cardinality(UpTo(LineStarts(text), Read))
  BY DEF LinesRead, UpTo
<1>5. Len(Lines(text)) = Cardinality(LineStarts(text)) /\ Len(Lines(text)) \in Nat
  BY LinesTypes, LenProperties DEF TextInv
<1>6. Cardinality(UpTo(LineStarts(text), Read)) \in 0 .. Cardinality(LineStarts(text))
  BY <1>1, <1>3, UpToTypes
<1> QED
  BY <1>1, <1>2, <1>3, <1>4, <1>5, <1>6 DEF Read

(***************************************************************************)
(* fgets reads something, and no more than there is.                       *)
(***************************************************************************)
LEMMA ReadSizeIs ==
  ASSUME NEW M \in Nat, M # 0, NEW s, Len(s) = M
  PROVE  /\ ReadSize(s) \in LineEnds(s) /\ ReadSize(s) \in 1 .. M
         /\ \A i \in LineEnds(s) : (\A j \in LineEnds(s) : i <= j) => ReadSize(s) = i
<1>1. LineEnds(s) \subseteq 1 .. M /\ M \in LineEnds(s)
  BY DEF LineEnds
<1>2. PICK i \in LineEnds(s) : \A j \in LineEnds(s) : i <= j
  <2>1. LineEnds(s) \subseteq Nat /\ LineEnds(s) # {}
    BY <1>1
  <2> QED
    BY <2>1, Smallest
<1>3. \A k \in LineEnds(s) : (\A j \in LineEnds(s) : k <= j) => k = i
  <2>1. \A k \in LineEnds(s) : k <= i /\ i <= k => k = i
    BY <1>1
  <2> QED
    BY <1>2, <2>1
<1>4. ReadSize(s) = i
  BY <1>2, <1>3 DEF ReadSize
<1> QED
  BY <1>1, <1>3, <1>4

(***************************************************************************)
(* Where all lines fit, the loop reads one of them, and the whole of it.   *)
(***************************************************************************)
LEMMA LineIsRead ==
  ASSUME TextInv, rest # <<>>, Read + 1 \in LineStarts(text), AllFit(text)
  PROVE  /\ LinesRead + 1 \in 1 .. Len(Lines(text))
         /\ Stripped(SubSeq(rest, 1, ReadSize(rest))) = Lines(text)[LinesRead + 1]
         /\ \/ Read + ReadSize(rest) = Len(text)
            \/ Read + ReadSize(rest) + 1 \in LineStarts(text)
         /\ Cardinality(UpTo(LineStarts(text), Read + ReadSize(rest))) = LinesRead + 1
<1> DEFINE starts == LineStarts(text)
<1>1. PICK p, L, e : p = Read /\ L = Len(text) /\ e = EndOf(text, p + 1, Newline)
  OBVIOUS
<1>2. /\ L \in Nat /\ p \in 0 .. L /\ Len(rest) = L - p /\ L - p # 0 /\ L - p \in Nat
      /\ starts \in SUBSET (1 .. L) /\ p + 1 \in starts /\ p + 1 \in 1 .. L
      /\ \A i \in 1 .. L - p : rest[i] = text[p + i] /\ rest[i] \in Char /\ p + i \in 1 .. L
      /\ LinesRead = Cardinality(UpTo(starts, p))
  <2>1. \A i \in 1 .. Len(rest) : rest[i] \in Char
    BY ElementOfSeq DEF TextInv
  <2>2. \A i \in 1 .. Len(rest) : rest[i] = text[Read + i]
    BY DEF TextInv
  <2> QED
    BY <1>1, <2>1, <2>2, ReadTypes
<1>3. /\ e \in p .. L
      /\ \A k \in p + 1 .. e : text[k] # Newline
      /\ e = L \/ text[e + 1] = Newline
  <2>1. e \in (p + 1) - 1 .. L /\ IsPiece(text, p + 1, e, Newline)
    BY <1>1, <1>2, PieceEnds
  <2> QED
    BY <1>1, <1>2, <2>1 DEF IsPiece
<1>4. Cardinality(UpTo(starts, p + 1)) = LinesRead + 1
  <2>1. \A j \in starts : j \in Int
    BY <1>2
  <2>2. p \in Int /\ p < p + 1 /\ \A j \in starts : ~(p < j /\ j < p + 1)
    BY <1>2, <2>1
  <2> HIDE DEF starts
  <2> QED
    BY <1>2, <2>2, UpToNext
<1>5. /\ LinesRead + 1 \in 1 .. Len(Lines(text))
      /\ Lines(text)[LinesRead + 1] = SubSeq(text, p + 1, e)
  <2>1. text \in Seq(Char) /\ starts \in SUBSET (1 .. Len(text)) /\ p + 1 \in starts
    BY <1>1, <1>2 DEF TextInv
  <2> HIDE DEF starts
  <2>2. /\ Cardinality(UpTo(starts, p + 1)) \in 1 .. Len(Pieces(text, starts, Newline))
        /\ Pieces(text, starts, Newline)[Cardinality(UpTo(starts, p + 1))]
             = SubSeq(text, p + 1, EndOf(text, p + 1, Newline))
    BY ONLY <2>1, PieceAt
  <2>3. Lines(text) = Pieces(text, starts, Newline)
    BY DEF Lines, starts
  <2> QED
    BY <1>1, <1>4, <2>2, <2>3
<1>6. /\ SubSeq(text, p + 1, e) \in Seq(Char) /\ Len(SubSeq(text, p + 1, e)) = e - p
      /\ \A i \in 1 .. e - p : SubSeq(text, p + 1, e)[i] = text[p + i]
  <2>1. PICK a : a = p + 1
    OBVIOUS
  <2>2. \A i \in a .. e : i \in 1 .. L
    BY <1>2, <1>3, <2>1
  <2>3. \A i \in a .. e : text[i] \in Char
    BY <1>1, <2>2, ElementOfSeq DEF TextInv
  <2>4. a \in Int /\ e \in Int
    BY <1>2, <1>3, <2>1
  <2>5. /\ SubSeq(text, a, e) \in Seq(Char)
        /\ Len(SubSeq(text, a, e)) = IF a <= e THEN e - a + 1 ELSE 0
        /\ \A i \in 1 .. e - a + 1 : SubSeq(text, a, e)[i] = text[a + i - 1]
    BY ONLY <2>3, <2>4, SubSeqProperties
  <2>6. /\ e - a + 1 = e - p /\ (IF a <= e THEN e - a + 1 ELSE 0) = e - p
        /\ \A i \in 1 .. e - p : a + i - 1 = p + i
    BY <1>2, <1>3, <2>1
  <2> QED
    BY <2>1, <2>5, <2>6
<1>7. e - p <= MaxLength - 2 /\ MaxLength \in Nat
  <2>1. Fits(Lines(text)[LinesRead + 1])
    BY <1>5, LinesTypes DEF AllFit, TextInv
  <2> QED
    BY <1>5, <1>6, <2>1, RepodudeAssumption DEF Fits
<1>8. PICK m : m = IF e = L THEN e - p ELSE e - p + 1
  OBVIOUS
<1>9. m \in 1 .. L - p /\ m = ReadSize(rest)
  <2>1. m \in 1 .. L - p
    BY <1>2, <1>3, <1>8
  <2>2. m \in LineEnds(rest)
    <3>1. CASE e = L
      BY <1>2, <1>8, <2>1, <3>1 DEF LineEnds
    <3>2. CASE e # L
      <4>1. p + m = e + 1
        BY <1>2, <1>3, <1>8, <3>2
      <4>2. rest[m] = Newline
        BY <1>2, <1>3, <2>1, <3>2, <4>1
      <4> QED
        BY <1>2, <2>1, <4>2 DEF LineEnds
    <3> QED
      BY <3>1, <3>2
  <2>3. ASSUME NEW j \in LineEnds(rest), j < m
        PROVE  FALSE
    <3>1. j \in 1 .. L - p /\ (rest[j] = Newline \/ j = L - p \/ j = MaxLength - 1)
      BY <1>2 DEF LineEnds
    <3>2. j <= e - p /\ p + j \in p + 1 .. e /\ j # L - p /\ j # MaxLength - 1
      BY <1>2, <1>3, <1>7, <1>8, <2>1, <2>3, <3>1
    <3> QED
      BY <1>2, <1>3, <3>1, <3>2
  <2>4. \A j \in LineEnds(rest) : m <= j
    <3>1. \A j \in LineEnds(rest) : j \in Int
      BY <1>2 DEF LineEnds
    <3> QED
      BY <2>1, <2>3, <3>1
  <2> QED
    BY <1>2, <2>1, <2>2, <2>4, ReadSizeIs
<1>10. PICK chunk : chunk = SubSeq(rest, 1, m)
  OBVIOUS
<1>11. /\ chunk \in Seq(Char) /\ Len(chunk) = m
       /\ \A i \in 1 .. m : chunk[i] = text[p + i] /\ chunk[i] \in Char
  <2>1. \A i \in 1 .. m : i \in 1 .. L - p
    BY <1>2, <1>9
  <2>2. \A i \in 1 .. m : rest[i] \in Char
    BY <1>2, <2>1
  <2>3. 1 \in Int /\ m \in Int
    BY <1>9
  <2>4. /\ SubSeq(rest, 1, m) \in Seq(Char)
        /\ Len(SubSeq(rest, 1, m)) = IF 1 <= m THEN m - 1 + 1 ELSE 0
        /\ \A i \in 1 .. m - 1 + 1 : SubSeq(rest, 1, m)[i] = rest[1 + i - 1]
    BY ONLY <2>2, <2>3, SubSeqProperties
  <2>5. m - 1 + 1 = m /\ 1 <= m /\ \A i \in 1 .. m : 1 + i - 1 = i
    BY <1>9
  <2> QED
    BY <1>2, <1>10, <2>1, <2>2, <2>4, <2>5
<1>12. Stripped(chunk) = SubSeq(text, p + 1, e)
  <2>1. chunk # <<>> /\ Last(chunk) = text[p + m]
    BY <1>9, <1>11, EmptySeq DEF Last
  <2>2. CASE e = L
    <3>1. m = e - p /\ p + m \in p + 1 .. e
      BY <1>2, <1>3, <1>8, <1>9, <2>2
    <3>2. Stripped(chunk) = chunk
      BY <1>3, <2>1, <3>1 DEF Stripped
    <3>3. Len(chunk) = Len(SubSeq(text, p + 1, e))
          /\ \A i \in 1 .. Len(chunk) : chunk[i] = SubSeq(text, p + 1, e)[i]
      BY <1>6, <1>11, <3>1
    <3>4. chunk = SubSeq(text, p + 1, e)
      BY <1>6, <1>11, <3>3, SeqEqual
    <3> QED
      BY <3>2, <3>4
  <2>3. CASE e # L
    <3>1. m - 1 = e - p /\ p + m = e + 1 /\ m - 1 \in Int
          /\ \A i \in 1 .. m - 1 : i \in 1 .. m
      BY <1>2, <1>3, <1>8, <1>9, <2>3
    <3>2. PICK b : b = m - 1
      OBVIOUS
    <3>3. Stripped(chunk) = SubSeq(chunk, 1, b)
      BY <1>3, <1>11, <2>1, <2>3, <3>1, <3>2 DEF Stripped, Front
    <3>4. /\ SubSeq(chunk, 1, b) \in Seq(Char)
          /\ Len(SubSeq(chunk, 1, b)) = IF 1 <= b THEN b - 1 + 1 ELSE 0
          /\ \A i \in 1 .. b - 1 + 1 : SubSeq(chunk, 1, b)[i] = chunk[1 + i - 1]
      <4>1. 1 \in Int /\ b \in Int /\ \A i \in 1 .. b : chunk[i] \in Char
        BY <1>11, <3>1, <3>2
      <4> QED
        BY ONLY <4>1, SubSeqProperties
    <3>5. /\ b - 1 + 1 = e - p /\ (IF 1 <= b THEN b - 1 + 1 ELSE 0) = e - p
          /\ \A i \in 1 .. e - p : 1 + i - 1 = i /\ i \in 1 .. m
      BY <1>9, <1>3, <3>1, <3>2
    <3>6. Len(SubSeq(chunk, 1, b)) = Len(SubSeq(text, p + 1, e))
          /\ \A i \in 1 .. Len(SubSeq(chunk, 1, b)) :
               SubSeq(chunk, 1, b)[i] = SubSeq(text, p + 1, e)[i]
      BY <1>6, <1>11, <3>4, <3>5
    <3>7. SubSeq(chunk, 1, b) = SubSeq(text, p + 1, e)
      BY <1>6, <3>4, <3>6, SeqEqual
    <3> QED
      BY <3>3, <3>7
  <2> QED
    BY <2>2, <2>3
<1>13. p + m = L \/ p + m + 1 \in starts
  <2>1. CASE e = L
    BY <1>2, <1>3, <1>8, <2>1
  <2>2. CASE e # L
    <3>1. p + m = e + 1 /\ e + 1 \in 1 .. L /\ p + m + 1 # 1
      BY <1>2, <1>3, <1>8, <2>2
    <3>2. text[(p + m + 1) - 1] = Newline
      BY <1>2, <1>3, <1>8, <2>2, <3>1
    <3>3. p + m # L => p + m + 1 \in 1 .. L
      BY <1>2, <3>1
    <3> QED
      BY <1>1, <3>2, <3>3 DEF LineStarts
  <2> QED
    BY <2>1, <2>2
<1>14. UpTo(starts, p + m) = UpTo(starts, p + 1)
  <2>1. ASSUME NEW j \in starts, j <= p + m, ~(j <= p + 1)
        PROVE  FALSE
    <3>1. j \in 1 .. L /\ (j = 1 \/ text[j - 1] = Newline)
      BY <1>1 DEF LineStarts
    <3>2. j - 1 \in p + 1 .. e /\ j # 1
      BY <1>2, <1>3, <1>8, <2>1, <3>1
    <3> QED
      BY <1>3, <3>1, <3>2
  <2>2. ASSUME NEW j \in starts, j <= p + 1
        PROVE  j <= p + m
    <3>1. j \in 1 .. L
      BY <1>2
    <3> QED
      BY <1>2, <1>9, <2>2, <3>1
  <2>3. \A j \in starts : j <= p + m <=> j <= p + 1
    BY <2>1, <2>2
  <2> QED
    BY <2>3 DEF UpTo
<1> QED
  BY <1>1, <1>4, <1>5, <1>9, <1>10, <1>12, <1>13, <1>14
-----------------------------------------------------------------------------
(* The text is read from the front *)

LEMMA StrippedTypes ==
  ASSUME NEW chunk \in Seq(Char)
  PROVE  Stripped(chunk) \in Seq(Char)
<1>1. CASE chunk # <<>> /\ Last(chunk) = Newline
  <2>1. Len(chunk) \in Nat /\ chunk \in [1 .. Len(chunk) -> Char]
    BY LenProperties
  <2>2. 1 \in Int /\ Len(chunk) - 1 \in Int /\ \A i \in 1 .. Len(chunk) - 1 : chunk[i] \in Char
    BY <2>1
  <2>3. PICK b : b = Len(chunk) - 1
    OBVIOUS
  <2>4. SubSeq(chunk, 1, b) \in Seq(Char)
    BY ONLY <2>2, <2>3, SubSeqProperties
  <2> QED
    BY <1>1, <2>3, <2>4 DEF Stripped, Front
<1>2. CASE ~(chunk # <<>> /\ Last(chunk) = Newline)
  BY <1>2 DEF Stripped
<1> QED
  BY <1>1, <1>2

LEMMA RestIsRead ==
  ASSUME TextInv, rest # <<>>, text' = text,
         rest' = SubSeq(rest, ReadSize(rest) + 1, Len(rest))
  PROVE  /\ ReadSize(rest) \in 1 .. Len(rest) /\ Read' = Read + ReadSize(rest)
         /\ Len(rest') = Len(rest) - ReadSize(rest) /\ rest' \in Seq(Char)
         /\ \A i \in 1 .. Len(rest') : rest'[i] = text[Read' + i]
         /\ Stripped(SubSeq(rest, 1, ReadSize(rest))) \in Seq(Char)
<1>1. PICK n, L : n = ReadSize(rest) /\ L = Len(rest)
  OBVIOUS
<1>2. /\ L \in Nat /\ n \in 1 .. L /\ Len(text) \in Nat /\ Read = Len(text) - L
      /\ \A i \in 1 .. L : rest[i] \in Char /\ rest[i] = text[Read + i]
  <2>1. L \in Nat /\ L # 0 /\ Len(text) \in Nat
    BY <1>1, ReadTypes
  <2>2. \A i \in 1 .. L : rest[i] \in Char
    BY <1>1, ElementOfSeq DEF TextInv
  <2> QED
    BY <1>1, <2>1, <2>2, ReadSizeIs DEF TextInv, Read
<1>3. PICK m : m = n + 1
  OBVIOUS
<1>4. /\ m \in Int /\ n \in Int /\ 1 \in Int /\ L \in Int
      /\ \A i \in m .. L : rest[i] \in Char
      /\ \A i \in 1 .. n : rest[i] \in Char
  BY <1>2, <1>3
<1>5. /\ SubSeq(rest, m, L) \in Seq(Char)
      /\ Len(SubSeq(rest, m, L)) = IF m <= L THEN L - m + 1 ELSE 0
      /\ \A i \in 1 .. L - m + 1 : SubSeq(rest, m, L)[i] = rest[m + i - 1]
      /\ SubSeq(rest, 1, n) \in Seq(Char)
  BY ONLY <1>4, SubSeqProperties
<1>6. rest' = SubSeq(rest, m, L)
  BY <1>1, <1>3
<1>7. Len(rest') = L - n /\ Read' = Read + n
  <2>1. Len(rest') = IF m <= L THEN L - m + 1 ELSE 0
    BY <1>5, <1>6
  <2>2. (IF m <= L THEN L - m + 1 ELSE 0) = L - n /\ L - n \in Nat
    BY <1>2, <1>3
  <2>3. Len(rest') = L - n
    BY <2>1, <2>2
  <2>4. Read' = Len(text) - (L - n)
    BY <2>3 DEF Read
  <2>5. Len(text) - (L - n) = Read + n
    BY <1>2
  <2> QED
    BY <2>3, <2>4, <2>5
<1>8. ASSUME NEW i \in 1 .. Len(rest')
      PROVE  rest'[i] = text[Read' + i]
  <2>1. /\ i \in 1 .. L - m + 1 /\ m + i - 1 = n + i /\ n + i \in 1 .. L
        /\ Read' + i = Read + (n + i)
    <3>1. i \in 1 .. L - n
      BY <1>7
    <3>2. Read \in Int
      BY <1>2
    <3> QED
      BY <1>2, <1>3, <1>7, <3>1, <3>2
  <2>2. rest'[i] = rest[n + i]
    BY <1>5, <1>6, <2>1
  <2>3. rest[n + i] = text[Read + (n + i)]
    BY <1>2, <2>1
  <2> QED
    BY <2>1, <2>2, <2>3
<1>9. Stripped(SubSeq(rest, 1, n)) \in Seq(Char)
  BY <1>5, StrippedTypes
<1> QED
  BY <1>1, <1>2, <1>5, <1>6, <1>7, <1>8, <1>9

LEMMA TextStep == TextInv /\ [Next]_vars => TextInv'
<1> SUFFICES ASSUME TextInv, [Next]_vars
             PROVE  TextInv'
  OBVIOUS
<1>1. CASE Begin
  <2>1. text' \in Seq(Char) /\ rest' = text' /\ info' = <<>> /\ dest' = dest
    BY <1>1, RepodudeAssumption DEF Begin
  <2>2. Len(rest') \in Nat /\ Read' = 0
    BY <2>1, LenProperties DEF Read
  <2>3. /\ rest' \in Seq(Char) /\ Len(rest') <= Len(text')
        /\ \A i \in 1 .. Len(rest') : rest'[i] = text'[Read' + i]
    BY <2>1, <2>2
  <2>4. info' \in Rows
    BY <2>1, EmptySeq DEF Rows
  <2>5. /\ pc' \in {"unlink", "tables"} => rest' = text'
        /\ pc' = "unlink" => flaws' = {}
        /\ pc' # "tables"
    BY <1>1, <2>1 DEF Begin
  <2> QED
    BY <2>1, <2>3, <2>4, <2>5 DEF TextInv
<1>2. CASE Unlink
  <2>1. /\ pc = "unlink" /\ pc' = "tables" /\ UNCHANGED <<text, rest, info>>
        /\ dest' = NoFile \/ (dest' = dest /\ "unlink" \in flaws')
    BY <1>2 DEF Unlink
  <2>2. NoFile \in [exists : BOOLEAN, table : BOOLEAN, rows : Seq(Rows)]
    BY EmptySeq DEF NoFile
  <2> QED
    BY <2>1, <2>2 DEF TextInv, Read
<1>3. CASE OpenDatabase
  BY <1>3, EmptySeq DEF OpenDatabase, TextInv, Read
<1>4. CASE OpenFails
  BY <1>4, EmptySeq DEF OpenFails, TextInv, Read, NoFile
<1>5. CASE ReadLine
  <2> DEFINE line == Stripped(SubSeq(rest, 1, ReadSize(rest)))
  <2>1. /\ rest # <<>> /\ text' = text /\ dest' = dest
        /\ rest' = SubSeq(rest, ReadSize(rest) + 1, Len(rest))
        /\ pc' \in {"failed", "insert"}
        /\ info' = info \/ (~(Len(Fields(line)) < FieldsCount) /\ info' = RowIn(line))
    <3>1. CASE Len(Fields(line)) < FieldsCount
      BY <1>5, <3>1 DEF ReadLine
    <3>2. CASE ~(Len(Fields(line)) < FieldsCount)
      BY <1>5, <3>2 DEF ReadLine, RowIn
    <3> QED
      BY <3>1, <3>2
  <2>2. /\ rest' \in Seq(Char) /\ Len(rest') <= Len(text')
        /\ \A i \in 1 .. Len(rest') : rest'[i] = text'[Read' + i]
        /\ line \in Seq(Char)
    <3>1. /\ ReadSize(rest) \in 1 .. Len(rest) /\ Len(rest') = Len(rest) - ReadSize(rest)
          /\ rest' \in Seq(Char) /\ line \in Seq(Char)
          /\ \A i \in 1 .. Len(rest') : rest'[i] = text[Read' + i]
      BY <2>1, RestIsRead
    <3>2. Len(rest) \in Nat /\ Len(text) \in Nat /\ Len(rest) <= Len(text)
      BY ReadTypes DEF TextInv
    <3> QED
      BY <2>1, <3>1, <3>2
  <2>3. info' \in Rows
    <3> HIDE DEF line
    <3> QED
      BY <2>1, <2>2, RowTypes DEF TextInv
  <2> QED
    BY <2>1, <2>2, <2>3 DEF TextInv
<1>6. CASE EndOfText
  BY <1>6 DEF EndOfText, TextInv, Read
<1>7. CASE Insert
  <2>1. dest'.rows \in Seq(Rows)
    BY <1>7, AppendProperties DEF Insert, TextInv
  <2>2. dest' = [dest EXCEPT !.rows = dest'.rows]
    BY <1>7 DEF Insert, TextInv
  <2> QED
    BY <1>7, <2>1, <2>2 DEF Insert, TextInv, Read
<1>8. CASE InsertFails
  BY <1>8 DEF InsertFails, TextInv, Read
<1>9. CASE Kill
  BY <1>9 DEF Kill, TextInv, Read, Ended
<1>10. CASE UNCHANGED vars
  BY <1>10 DEF vars, TextInv, Read
<1> QED
  BY <1>1, <1>2, <1>3, <1>4, <1>5, <1>6, <1>7, <1>8, <1>9, <1>10 DEF Next

-----------------------------------------------------------------------------
(* The rows are the lines *)

(***************************************************************************)
(* What a step means that reads nothing.                                   *)
(***************************************************************************)
LEMMA NothingRead ==
  ASSUME UNCHANGED <<text, rest>>
  PROVE  Read' = Read /\ LinesRead' = LinesRead /\ (AllFit(text)' <=> AllFit(text))
BY DEF Read, LinesRead, AllFit

LEMMA RowsStep == TextInv /\ TextInv' /\ RowsInv /\ [Next]_vars => RowsInv'
<1> SUFFICES ASSUME TextInv, TextInv', RowsInv, [Next]_vars,
                    pc' \in {"read", "insert", "ok"}, "unlink" \notin flaws', AllFit(text)'
             PROVE  /\ dest'.table
                    /\ Read' = Len(text') \/ Read' + 1 \in LineStarts(text')
                    /\ LinesRead' = Len(dest'.rows) + (IF pc' = "insert" THEN 1 ELSE 0)
                    /\ \A i \in 1 .. LinesRead' : Len(Fields(Lines(text')[i])) >= FieldsCount
                    /\ \A i \in DOMAIN dest'.rows : dest'.rows[i] = RowIn(Lines(text')[i])
                    /\ pc' = "insert" => info' = RowIn(Lines(text')[LinesRead'])
                    /\ pc' = "ok" /\ "read" \notin flaws' => rest' = <<>>
  BY DEF RowsInv
<1>1. CASE OpenDatabase
  <2>1. /\ rest = text /\ dest = NoFile /\ UNCHANGED <<text, rest, flaws>> /\ pc' = "read"
        /\ dest'.table /\ dest'.rows = <<>>
    BY <1>1 DEF OpenDatabase, TextInv, NoFile
  <2>2. Read = 0 /\ Len(text) \in Nat
    BY <2>1, ReadTypes DEF Read
  <2>3. Read = Len(text) \/ Read + 1 \in LineStarts(text)
    BY <2>2 DEF LineStarts
  <2>4. LinesRead = 0
    <3>1. \A i \in LineStarts(text) : ~(i <= Read)
      BY <2>2 DEF LineStarts
    <3>2. {i \in LineStarts(text) : i <= Read} = {}
      BY <3>1
    <3> QED
      BY <3>2, FS_EmptySet DEF LinesRead
  <2>5. Read' = Read /\ LinesRead' = LinesRead
    BY <2>1, NothingRead
  <2> QED
    BY <2>1, <2>2, <2>3, <2>4, <2>5
<1>2. CASE ReadLine
  <2> DEFINE n == ReadSize(rest)
             line == Stripped(SubSeq(rest, 1, n))
  <2>1. /\ pc = "read" /\ rest # <<>> /\ UNCHANGED <<text, dest, flaws>>
        /\ rest' = SubSeq(rest, n + 1, Len(rest)) /\ pc' = "insert"
        /\ ~(Len(Fields(line)) < FieldsCount) /\ info' = RowIn(line)
    BY <1>2 DEF ReadLine, RowIn
  <2>2. AllFit(text)
    BY <2>1
  <2>3. /\ dest.table /\ Read + 1 \in LineStarts(text) /\ LinesRead = Len(dest.rows)
        /\ \A i \in 1 .. LinesRead : Len(Fields(Lines(text)[i])) >= FieldsCount
        /\ \A i \in DOMAIN dest.rows : dest.rows[i] = RowIn(Lines(text)[i])
    <3>1. Read # Len(text)
      BY <2>1, ReadTypes
    <3>2. Len(dest.rows) \in Nat
      BY LenProperties DEF TextInv
    <3> QED
      BY <2>1, <2>2, <3>1, <3>2 DEF RowsInv
  <2>4. /\ line = Lines(text)[LinesRead + 1]
        /\ Read + n = Len(text) \/ Read + n + 1 \in LineStarts(text)
        /\ Cardinality(UpTo(LineStarts(text), Read + n)) = LinesRead + 1
    BY <2>1, <2>2, <2>3, LineIsRead
  <2>5. Read' = Read + n
    BY <2>1, RestIsRead
  <2>6. LinesRead' = LinesRead + 1
    BY <2>1, <2>4, <2>5 DEF LinesRead, UpTo
  <2>7. LinesRead \in Nat /\ Len(Fields(line)) \in Nat
    BY <2>1, ReadTypes, RestIsRead, FieldsTypes
  <2> HIDE DEF line, n
  <2>8. \A i \in 1 .. LinesRead' : Len(Fields(Lines(text)[i])) >= FieldsCount
    <3>1. Len(Fields(Lines(text)[LinesRead + 1])) >= FieldsCount
      BY <2>1, <2>4, <2>7 DEF FieldsCount
    <3>2. \A i \in 1 .. LinesRead + 1 : i \in 1 .. LinesRead \/ i = LinesRead + 1
      BY <2>7
    <3> QED
      BY <2>3, <2>6, <3>1, <3>2
  <2> QED
    BY <2>1, <2>3, <2>4, <2>5, <2>6, <2>8
<1>3. CASE EndOfText
  <2>1. /\ pc = "read" /\ pc' = "ok" /\ UNCHANGED <<text, rest, info, dest>>
        /\ "unlink" \notin flaws /\ (rest = <<>> \/ "read" \in flaws')
    BY <1>3 DEF EndOfText
  <2>2. Read' = Read /\ LinesRead' = LinesRead /\ AllFit(text)
    BY <2>1, NothingRead
  <2> QED
    BY <2>1, <2>2 DEF RowsInv
<1>4. CASE Insert
  <2>1. /\ pc = "insert" /\ pc' = "read" /\ UNCHANGED <<text, rest, flaws>>
        /\ dest'.table = dest.table /\ dest'.rows = Append(dest.rows, info)
    BY <1>4 DEF Insert, TextInv
  <2>2. Read' = Read /\ LinesRead' = LinesRead /\ AllFit(text)
    BY <2>1, NothingRead
  <2>3. /\ dest.table /\ (Read = Len(text) \/ Read + 1 \in LineStarts(text))
        /\ LinesRead = Len(dest.rows) + 1
        /\ \A i \in 1 .. LinesRead : Len(Fields(Lines(text)[i])) >= FieldsCount
        /\ \A i \in DOMAIN dest.rows : dest.rows[i] = RowIn(Lines(text)[i])
        /\ info = RowIn(Lines(text)[LinesRead])
    BY <2>1, <2>2 DEF RowsInv
  <2>4. /\ Len(dest.rows) \in Nat /\ DOMAIN dest.rows = 1 .. Len(dest.rows)
        /\ Len(dest'.rows) = Len(dest.rows) + 1
        /\ DOMAIN dest'.rows = 1 .. Len(dest.rows) + 1
        /\ \A i \in 1 .. Len(dest.rows) : dest'.rows[i] = dest.rows[i]
        /\ dest'.rows[Len(dest.rows) + 1] = info
    <3>1. dest.rows \in Seq(Rows) /\ info \in Rows /\ dest'.rows \in Seq(Rows)
      BY DEF TextInv
    <3> QED
      BY <2>1, <3>1, AppendProperties, LenProperties
  <2>5. \A i \in DOMAIN dest'.rows : dest'.rows[i] = RowIn(Lines(text)[i])
    <3>1. \A i \in 1 .. Len(dest.rows) + 1 : i \in 1 .. Len(dest.rows) \/ i = Len(dest.rows) + 1
      BY <2>4
    <3> QED
      BY <2>3, <2>4, <3>1
  <2> QED
    BY <2>1, <2>2, <2>3, <2>4, <2>5
<1>5. CASE UNCHANGED vars
  <2>1. UNCHANGED <<pc, text, rest, info, dest, flaws>>
    BY <1>5 DEF vars
  <2>2. Read' = Read /\ LinesRead' = LinesRead /\ AllFit(text)
    BY <2>1, NothingRead
  <2> QED
    BY <2>1, <2>2 DEF RowsInv
<1>6. ~Begin /\ ~Unlink /\ ~OpenFails /\ ~InsertFails /\ ~Kill
  BY DEF Begin, Unlink, OpenFails, InsertFails, Kill
<1> QED
  BY <1>1, <1>2, <1>3, <1>4, <1>5, <1>6 DEF Next

(***************************************************************************)
(* What ends the conversion of a well-formed text is not in the text.      *)
(***************************************************************************)
LEMMA SuccessStep ==
  TextInv /\ RowsInv /\ WellFormedSucceeds /\ [Next]_vars => WellFormedSucceeds'
<1> SUFFICES ASSUME TextInv, RowsInv, WellFormedSucceeds, [Next]_vars,
                    pc' = "failed", WellFormed(text)', flaws' = {}
             PROVE  FALSE
  BY DEF WellFormedSucceeds
<1>1. ASSUME WellFormed(text)
      PROVE  AllFit(text)
  BY <1>1 DEF WellFormed, AllFit
<1>2. CASE ReadLine
  <2> DEFINE line == Stripped(SubSeq(rest, 1, ReadSize(rest)))
  <2>1. /\ pc = "read" /\ rest # <<>> /\ UNCHANGED <<text, flaws>> /\ Len(Fields(line)) < FieldsCount
    BY <1>2 DEF ReadLine
  <2>2. WellFormed(text) /\ AllFit(text)
    BY <1>1, <2>1
  <2>3. Read # Len(text)
    BY <2>1, ReadTypes
  <2>4. Read + 1 \in LineStarts(text)
    BY <2>1, <2>2, <2>3 DEF RowsInv
  <2>5. LinesRead + 1 \in 1 .. Len(Lines(text)) /\ line = Lines(text)[LinesRead + 1]
    BY <2>1, <2>2, <2>4, LineIsRead
  <2>6. DOMAIN Lines(text) = 1 .. Len(Lines(text)) /\ Lines(text)[LinesRead + 1] \in Seq(Char)
    BY <2>5, LinesTypes, ElementOfSeq DEF TextInv
  <2> HIDE DEF line
  <2>7. Len(Fields(line)) >= FieldsCount /\ Len(Fields(line)) \in Nat
    BY <2>2, <2>5, <2>6, FieldsTypes DEF WellFormed
  <2> QED
    BY <2>1, <2>7 DEF FieldsCount
<1>3. CASE InsertFails
  <2>1. /\ pc = "insert" /\ UNCHANGED <<text, flaws>>
        /\ ~ dest.table \/ \E i \in DOMAIN dest.rows : Clash(info, dest.rows[i])
    BY <1>3 DEF InsertFails
  <2>2. WellFormed(text) /\ AllFit(text)
    BY <1>1, <2>1
  <2>3. /\ dest.table /\ LinesRead = Len(dest.rows) + 1
        /\ \A i \in DOMAIN dest.rows : dest.rows[i] = RowIn(Lines(text)[i])
        /\ info = RowIn(Lines(text)[LinesRead])
    BY <2>1, <2>2 DEF RowsInv
  <2>4. PICK i \in DOMAIN dest.rows : Clash(info, dest.rows[i])
    BY <2>1, <2>3
  <2>5. i \in 1 .. LinesRead - 1 /\ LinesRead \in DOMAIN Lines(text)
    <3>1. DOMAIN dest.rows = 1 .. Len(dest.rows) /\ Len(dest.rows) \in Nat
      BY LenProperties DEF TextInv
    <3>2. LinesRead \in 0 .. Len(Lines(text)) /\ DOMAIN Lines(text) = 1 .. Len(Lines(text))
      BY ReadTypes, LinesTypes DEF TextInv
    <3> QED
      BY <2>3, <3>1, <3>2
  <2>6. ~ Clash(RowIn(Lines(text)[LinesRead]), RowIn(Lines(text)[i]))
    BY <2>2, <2>5 DEF WellFormed
  <2> QED
    BY <2>3, <2>4, <2>6
<1>4. CASE UNCHANGED vars
  BY <1>4 DEF vars, WellFormedSucceeds
<1>5. /\ ~Begin /\ ~Unlink /\ ~OpenDatabase /\ ~OpenFails /\ ~EndOfText /\ ~Insert /\ ~Kill
  BY DEF Begin, Unlink, OpenDatabase, OpenFails, EndOfText, Insert, Kill
<1> QED
  BY <1>2, <1>3, <1>4, <1>5 DEF Next

-----------------------------------------------------------------------------
LEMMA ConversionInvariant == Spec => []ConversionInv
<1>1. Init => ConversionInv
  <2> SUFFICES ASSUME Init
               PROVE  ConversionInv
    OBVIOUS
  <2>1. TextInv
    BY EmptySeq DEF Init, TextInv, NoFile, Rows
  <2> QED
    BY <2>1 DEF Init, ConversionInv, RowsInv, WellFormedSucceeds
<1>2. ConversionInv /\ [Next]_vars => ConversionInv'
  BY TextStep, RowsStep, SuccessStep DEF ConversionInv
<1> QED
  BY <1>1, <1>2, PTL DEF Spec

(***************************************************************************)
(* The database holds the lines of the text in their order, each as one    *)
(* row with its own fields, and all of them when repodude reports success, *)
(* for every text whose lines fit in the buffer and whatever an earlier    *)
(* run left.                                                               *)
(***************************************************************************)
THEOREM RowsAreTheLines == Spec => []RowsAreLines
<1>1. TextInv /\ RowsInv => RowsAreLines
  <2> SUFFICES ASSUME TextInv, RowsInv, pc \in {"read", "insert", "ok"}, "unlink" \notin flaws,
                      AllFit(text)
               PROVE  /\ dest.table /\ Len(dest.rows) <= Len(Lines(text))
                      /\ \A i \in DOMAIN dest.rows :
                           /\ Len(Fields(Lines(text)[i])) >= FieldsCount
                           /\ dest.rows[i] = RowIn(Lines(text)[i])
                      /\ pc = "ok" /\ "read" \notin flaws => Len(dest.rows) = Len(Lines(text))
    BY DEF RowsAreLines, AllFit
  <2>1. /\ dest.table /\ LinesRead = Len(dest.rows) + (IF pc = "insert" THEN 1 ELSE 0)
        /\ \A i \in 1 .. LinesRead : Len(Fields(Lines(text)[i])) >= FieldsCount
        /\ \A i \in DOMAIN dest.rows : dest.rows[i] = RowIn(Lines(text)[i])
        /\ pc = "ok" /\ "read" \notin flaws => rest = <<>>
    BY DEF RowsInv
  <2>2. /\ DOMAIN dest.rows = 1 .. Len(dest.rows) /\ Len(dest.rows) \in Nat
        /\ LinesRead \in 0 .. Len(Lines(text)) /\ Len(Lines(text)) \in Nat
    BY ReadTypes, LenProperties DEF TextInv
  <2>3. Len(dest.rows) <= LinesRead /\ LinesRead <= Len(Lines(text)) /\ LinesRead \in Nat
    <3>1. LinesRead = Len(dest.rows) \/ LinesRead = Len(dest.rows) + 1
      <4>1. CASE pc = "insert"
        BY <2>1, <4>1
      <4>2. CASE pc # "insert"
        <5>1. LinesRead = Len(dest.rows) + 0
          BY <2>1, <4>2
        <5> QED
          BY <2>2, <5>1
      <4> QED
        BY <4>1, <4>2
    <3> QED
      BY <2>2, <3>1
  <2>5. \A i \in DOMAIN dest.rows : Len(Fields(Lines(text)[i])) >= FieldsCount
    <3>1. \A i \in DOMAIN dest.rows : i \in 1 .. LinesRead
      BY <2>2, <2>3
    <3> QED
      BY <2>1, <3>1
  <2>6. Len(dest.rows) <= Len(Lines(text))
    BY <2>2, <2>3
  <2>4. ASSUME rest = <<>>
        PROVE  LinesRead = Len(Lines(text))
    <3>1. Read = Len(text) /\ Len(text) \in Nat
      BY <2>4, ReadTypes
    <3>2. UpTo(LineStarts(text), Read) = LineStarts(text)
      <4>1. \A i \in LineStarts(text) : i <= Read
        BY <3>1 DEF LineStarts
      <4> QED
        BY <4>1 DEF UpTo
    <3> QED
      BY <3>2, ReadTypes, LinesTypes DEF TextInv
  <2>7. ASSUME pc = "ok", "read" \notin flaws
        PROVE  Len(dest.rows) = Len(Lines(text))
    <3>1. LinesRead = Len(dest.rows)
      BY <2>1, <2>2, <2>7
    <3> QED
      BY <2>1, <2>4, <2>7, <3>1
  <2> QED
    BY <2>1, <2>5, <2>6, <2>7
<1> QED
  BY <1>1, ConversionInvariant, PTL DEF ConversionInv

(***************************************************************************)
(* A text whose lines all fit, have their fields and do not clash is       *)
(* converted, unless something fails that is not in the text, whatever an  *)
(* earlier run, killed or not, left behind.                                *)
(***************************************************************************)
THEOREM WellFormedIsConverted == Spec => []WellFormedSucceeds
  BY ConversionInvariant, PTL DEF ConversionInv
=============================================================================
