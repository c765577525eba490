---------------------------- MODULE DeliveryProofs ----------------------------
(***************************************************************************)
(* Proofs about Delivery and the format of a package: for every archive,   *)
(* in whatever pieces it is read and sent, and every size of a page.       *)
(***************************************************************************)
EXTENDS Delivery, SequenceTheorems, Induction

-----------------------------------------------------------------------------
(* The inductive invariant *)

PackInv ==
  /\ file \in Seq(Byte) /\ source \in Seq(Byte) /\ left \in Seq(Byte)
  /\ machine \in [version : Byte, order : Orders]
  /\ packing = "read" => file \o left = source /\ crc = Crc32({}, file)
  /\ packing = "done" => source # <<>> /\ DoneIsPackage /\ Completed \in whole

(***************************************************************************)
(* The bytes that are not those of the file.                               *)
(***************************************************************************)
Differing == {i \in 1 .. Len(buffer) : buffer[i] # file[i]}

FetchInv ==
  reading \in {"fetch", "check"} /\ flaws \subseteq {"damage"} =>
    /\ Fit /\ Len(buffer) <= Len(file)
    /\ reading = "check" => Len(buffer) = Len(file)
    /\ IF flaws = {} THEN Differing = {} ELSE \E p \in 1 .. Len(buffer) : Differing = {p}

Verifying == reading \in {"version", "sum", "extract"}

(***************************************************************************)
(* Where dudeunpack is with its verification.                              *)
(***************************************************************************)
VerifyInv ==
  /\ reading \in {"map", "version"} => buffer = <<>>
  /\ noted # <<>> => reading \in {"sum", "killed"}
  /\ reading \in {"map", "version", "sum"} /\ flaws = {} => Fit /\ size = Len(file)
  /\ Verifying => size > HeaderSize /\ Len(buffer) <= ArchiveSize

(***************************************************************************)
(* Unless the file changed since, all that was read after the verification *)
(* began is in the mapping as it is now.                                   *)
(***************************************************************************)
SteadyInv ==
  Verifying /\ "late" \notin flaws =>
    /\ SubSeq(Trailer(Contents), 1, 4) = Magic
    /\ reading # "version" => Trailer(Contents)[5] = Version
    /\ noted # <<>> => size <= Extent /\ noted = SubSeq(Trailer(Contents), 6, 9)
    /\ buffer = Take(Contents, Len(buffer))
    /\ reading = "extract" => size <= Extent /\ Verifies(Contents, Version, ReaderOrder)

UnpackInv == VerifyInv /\ SteadyInv

ReadInv ==
  /\ buffer \in Seq(Byte) /\ size \in Nat
  /\ FetchInv /\ UnpackInv /\ RejectedIsFlawed /\ AcceptedAsPacked

-----------------------------------------------------------------------------
(* Numbers as sets of bits. *)

LEMMA XorTypes ==
  /\ \A a, b \in Word : Xor(a, b) \in Word
  /\ \A a, b \in Byte : Xor(a, b) \in Byte
  /\ Byte \subseteq Word
  /\ \A w \in Word : Not(w) \in Word /\ Not(Not(w)) = w
<1>1. Byte \subseteq Word
  BY DEF Word, Byte
<1>2. ASSUME NEW w \in Word
      PROVE  Not(w) \in Word /\ Not(Not(w)) = w
  <2>1. \A i : i \in Not(Not(w)) <=> i \in w
    BY DEF Not, Word
  <2> QED
    BY <2>1 DEF Not, Word
<1>3. (\A a, b \in Word : Xor(a, b) \in Word) /\ (\A a, b \in Byte : Xor(a, b) \in Byte)
  BY DEF Xor, Word, Byte
<1> QED
  BY <1>1, <1>2, <1>3

LEMMA XorInjective ==
  ASSUME NEW a, NEW b, NEW c, Xor(a, c) = Xor(b, c) \/ Xor(c, a) = Xor(c, b)
  PROVE  a = b
<1>1. \A x : x \in Xor(a, c) <=> (x \in a <=> x \notin c)
  BY DEF Xor
<1>2. \A x : x \in Xor(b, c) <=> (x \in b <=> x \notin c)
  BY DEF Xor
<1>3. Xor(c, a) = Xor(a, c) /\ Xor(c, b) = Xor(b, c)
  BY DEF Xor
<1>4. \A x : x \in a <=> x \in b
  BY <1>1, <1>2, <1>3
<1> QED
  BY <1>4

LEMMA NotInjective ==
  ASSUME NEW a \in Word, NEW b \in Word, Not(a) = Not(b)
  PROVE  a = b
BY XorTypes

(***************************************************************************)
(* One step of the checksum loses nothing: bit 31 of the result tells      *)
(* whether the polynomial was taken in.                                    *)
(***************************************************************************)
LEMMA ShiftBitType ==
  ASSUME NEW w \in Word
  PROVE  ShiftRight(w) \in Word /\ ShiftBit(w) \in Word
<1>1. ShiftRight(w) \in Word
  BY DEF ShiftRight, Word
<1>2. Polynomial \in Word
  BY DEF Polynomial, Word
<1> QED
  BY <1>1, <1>2, XorTypes DEF ShiftBit

LEMMA ShiftBitInjective ==
  ASSUME NEW v \in Word, NEW w \in Word, ShiftBit(v) = ShiftBit(w)
  PROVE  v = w
<1>1. ASSUME NEW u \in Word
      PROVE  31 \in ShiftBit(u) <=> 0 \in u
  <2>1. 31 \notin ShiftRight(u)
    BY DEF ShiftRight, Word
  <2>2. 31 \in Polynomial
    BY DEF Polynomial
  <2> QED
    BY <2>1, <2>2 DEF ShiftBit, Xor
<1>2. 0 \in v <=> 0 \in w
  BY <1>1
<1>3. ShiftRight(v) = ShiftRight(w)
  <2>1. CASE 0 \in v
    BY <1>2, <2>1, XorInjective DEF ShiftBit
  <2>2. CASE 0 \notin v
    BY <1>2, <2>2 DEF ShiftBit
  <2> QED
    BY <2>1, <2>2
<1>4. ASSUME NEW u \in Word, NEW i \in 1 .. 31
      PROVE  i \in u <=> i - 1 \in ShiftRight(u)
  BY DEF ShiftRight, Word
<1>5. \A i \in 1 .. 31 : i \in v <=> i \in w
  BY <1>3, <1>4
<1>6. \A i \in 0 .. 31 : i = 0 \/ i \in 1 .. 31
  OBVIOUS
<1>7. \A i : i \in v <=> i \in w
  BY <1>2, <1>5, <1>6 DEF Word
<1> QED
  BY <1>7

-----------------------------------------------------------------------------
(* The checksum *)

BitSteps == [n \in 1 .. 8 |-> [w \in Word |-> ShiftBit(w)]]

LEMMA TakeByteRun ==
  ASSUME NEW w \in Word, NEW byte \in Byte
  PROVE  \E f \in [0 .. 8 -> Word] :
           IsRun(f, 8, Xor(w, byte), BitSteps) /\ TakeByte(w, byte) = f[8]
<1> DEFINE Step(f) == [n \in 0 .. 8 |-> IF n = 0 THEN Xor(w, byte) ELSE ShiftBit(f[n - 1])]
<1>1. Xor(w, byte) \in Word
  BY XorTypes
<1>2. BitSteps \in [1 .. 8 -> [Word -> Word]]
  BY ShiftBitType DEF BitSteps
<1>3. PICK g \in [0 .. 8 -> Word] : IsRun(g, 8, Xor(w, byte), BitSteps)
  BY <1>1, <1>2, RunExists
<1>4. g = Step(g)
  <2>1. ASSUME NEW n \in 0 .. 8
        PROVE  g[n] = IF n = 0 THEN Xor(w, byte) ELSE ShiftBit(g[n - 1])
    <3>1. CASE n = 0
      BY <1>3, <3>1 DEF IsRun
    <3>2. CASE n # 0
      <4>1. n \in 1 .. 8 /\ g[n - 1] \in Word
        BY <3>2
      <4>2. g[n] = BitSteps[n][g[n - 1]]
        BY <1>3, <4>1 DEF IsRun
      <4> QED
        BY <3>2, <4>1, <4>2 DEF BitSteps
    <3> QED
      BY <3>1, <3>2
  <2> QED
    BY <2>1
<1> DEFINE f == CHOOSE f : f = Step(f)
<1>5. f = Step(f)
  BY <1>4
<1>6. TakeByte(w, byte) = f[8]
  BY DEF TakeByte
<1> HIDE DEF f
<1>7. \A n \in 0 .. 8 : f[n] = g[n]
  <2> DEFINE Bad == {m \in 0 .. 8 : f[m] # g[m]}
  <2> SUFFICES ASSUME Bad # {}
               PROVE  FALSE
    OBVIOUS
  <2>1. PICK m \in Bad : \A k \in Bad : m <= k
    <3>1. Bad \subseteq Nat
      OBVIOUS
    <3> HIDE DEF Bad
    <3> QED
      BY <3>1, Smallest
  <2>2. m # 0
    BY <1>4, <1>5
  <2>3. m - 1 \in 0 .. 8 /\ f[m - 1] = g[m - 1]
    BY <2>1, <2>2
  <2> QED
    BY <1>4, <1>5, <2>2, <2>3
<1> QED
  BY <1>3, <1>6, <1>7

(***************************************************************************)
(* A byte taken in is never forgotten.                                     *)
(***************************************************************************)
LEMMA TakeByteInjective ==
  ASSUME NEW v \in Word, NEW w \in Word, NEW a \in Byte, NEW b \in Byte
  PROVE  /\ TakeByte(v, a) \in Word
         /\ TakeByte(v, a) = TakeByte(w, b) => Xor(v, a) = Xor(w, b)
<1>1. PICK f \in [0 .. 8 -> Word] :
        IsRun(f, 8, Xor(v, a), BitSteps) /\ TakeByte(v, a) = f[8]
  BY TakeByteRun
<1>2. PICK g \in [0 .. 8 -> Word] :
        IsRun(g, 8, Xor(w, b), BitSteps) /\ TakeByte(w, b) = g[8]
  BY TakeByteRun
<1>3. ASSUME NEW n \in 1 .. 8, f[n] = g[n]
      PROVE  f[n - 1] = g[n - 1]
  <2>1. n - 1 \in 0 .. 8 /\ f[n - 1] \in Word /\ g[n - 1] \in Word
    OBVIOUS
  <2>2. f[n] = ShiftBit(f[n - 1]) /\ g[n] = ShiftBit(g[n - 1])
    BY <1>1, <1>2, <2>1 DEF IsRun, BitSteps
  <2> QED
    BY <1>3, <2>1, <2>2, ShiftBitInjective
<1>4. ASSUME f[8] = g[8]
      PROVE  f[0] = g[0]
  <2>1. f[7] = g[7]
    <3>1. \A n \in 1 .. 8 : n = 8 => f[n - 1] = g[n - 1]
      BY <1>3, <1>4
    <3>2. 8 \in 1 .. 8 /\ 8 - 1 = 7
      OBVIOUS
    <3>3. f[8 - 1] = g[8 - 1]
      BY <3>1, <3>2
    <3> QED
      BY <3>2, <3>3
  <2>2. f[6] = g[6]
    BY <1>3, <2>1
  <2>3. f[5] = g[5]
    BY <1>3, <2>2
  <2>4. f[4] = g[4]
    BY <1>3, <2>3
  <2>5. f[3] = g[3]
    BY <1>3, <2>4
  <2>6. f[2] = g[2]
    BY <1>3, <2>5
  <2>7. f[1] = g[1]
    BY <1>3, <2>6
  <2> QED
    BY <1>3, <2>7
<1> QED
  BY <1>1, <1>2, <1>4 DEF IsRun

ByteSteps(bytes) ==
  [n \in 1 .. Len(bytes) |-> [w \in Word |-> TakeByte(w, bytes[n])]]

IsSummed(f, start, bytes) == IsRun(f, Len(bytes), Not(start), ByteSteps(bytes))

LEMMA CrcRun ==
  ASSUME NEW start \in Word, NEW bytes \in Seq(Byte)
  PROVE  /\ \E f \in [0 .. Len(bytes) -> Word] :
              IsSummed(f, start, bytes) /\ Crc32(start, bytes) = Not(f[Len(bytes)])
         /\ Crc32(start, bytes) \in Word
<1> DEFINE L == Len(bytes)
           Step(f) == [n \in 0 .. L |-> IF n = 0 THEN Not(start)
                                                 ELSE TakeByte(f[n - 1], bytes[n])]
<1>1. Not(start) \in Word /\ L \in Nat
  BY XorTypes
<1>2. ByteSteps(bytes) \in [1 .. L -> [Word -> Word]]
  <2>1. \A n \in 1 .. L : bytes[n] \in Byte
    BY ElementOfSeq
  <2>2. \A n \in 1 .. L, w \in Word : TakeByte(w, bytes[n]) \in Word
    BY <2>1, TakeByteInjective
  <2> QED
    BY <2>2 DEF ByteSteps
<1>3. PICK g \in [0 .. L -> Word] : IsRun(g, L, Not(start), ByteSteps(bytes))
  <2> HIDE DEF L
  <2> QED
    BY <1>1, <1>2, RunExists
<1>4. g = Step(g)
  <2>1. ASSUME NEW n \in 0 .. L
        PROVE  g[n] = IF n = 0 THEN Not(start) ELSE TakeByte(g[n - 1], bytes[n])
    <3>1. CASE n = 0
      BY <1>3, <3>1 DEF IsRun
    <3>2. CASE n # 0
      <4>1. n \in 1 .. L /\ g[n - 1] \in Word
        BY <3>2
      <4>2. g[n] = ByteSteps(bytes)[n][g[n - 1]]
        BY <1>3, <4>1 DEF IsRun
      <4> QED
        BY <3>2, <4>1, <4>2 DEF ByteSteps
    <3> QED
      BY <3>1, <3>2
  <2> QED
    BY <2>1
<1> DEFINE f == CHOOSE f : f = Step(f)
<1>5. f = Step(f)
  BY <1>4
<1>6. Crc32(start, bytes) = Not(f[L])
  BY DEF Crc32
<1> HIDE DEF f
<1>7. \A n \in 0 .. L : f[n] = g[n]
  <2> DEFINE Bad == {m \in 0 .. L : f[m] # g[m]}
  <2> SUFFICES ASSUME Bad # {}
               PROVE  FALSE
    OBVIOUS
  <2>1. PICK m \in Bad : \A k \in Bad : m <= k
    <3>1. Bad \subseteq Nat
      OBVIOUS
    <3> HIDE DEF Bad
    <3> QED
      BY <3>1, Smallest
  <2>2. m # 0
    BY <1>4, <1>5
  <2>3. m - 1 \in 0 .. L /\ f[m - 1] = g[m - 1]
    BY <2>1, <2>2
  <2> QED
    BY <1>4, <1>5, <2>2, <2>3
<1>8. L \in 0 .. L
  BY <1>1
<1>9. Crc32(crc, bytes) = Not(g[L]) /\ Crc32(crc, bytes) \in Word
  BY <1>6, <1>7, <1>8, XorTypes
<1> QED
  <2>1. IsSummed(g, start, bytes) /\ Crc32(start, bytes) = Not(g[Len(bytes)])
    BY <1>3, <1>9 DEF IsSummed
  <2>2. g \in [0 .. Len(bytes) -> Word]
    BY <1>3
  <2> HIDE DEF L
  <2> QED
    BY ONLY <1>9, <2>1, <2>2

(***************************************************************************)
(* The checksum of chunks, each taken in after the ones before it, is that *)
(* of the whole, and that of nothing is 0.                                 *)
(***************************************************************************)
LEMMA CrcOfNothing == Crc32({}, <<>>) = {}
<1>1. {} \in Word /\ <<>> \in Seq(Byte) /\ Len(<<>>) = 0
  BY DEF Word
<1>2. PICK f \in [0 .. 0 -> Word] : IsSummed(f, {}, <<>>) /\ Crc32({}, <<>>) = Not(f[0])
  BY <1>1, CrcRun
<1>3. f[0] = Not({})
  BY <1>2 DEF IsSummed, IsRun
<1> QED
  BY <1>1, <1>2, <1>3, XorTypes

LEMMA CrcOfChunks ==
  ASSUME NEW a \in Seq(Byte), NEW b \in Seq(Byte)
  PROVE  Crc32(Crc32({}, a), b) = Crc32({}, a \o b)
<1> DEFINE m == Len(a)
           k == Len(b)
           c == Crc32({}, a)
<1>1. /\ {} \in Word /\ a \o b \in Seq(Byte) /\ Len(a \o b) = m + k /\ m \in Nat /\ k \in Nat
      /\ \A i \in 1 .. m + k : (a \o b)[i] = IF i <= m THEN a[i] ELSE b[i - m]
  BY ConcatProperties DEF Word
<1>2. PICK f \in [0 .. m -> Word] : IsSummed(f, {}, a) /\ c = Not(f[m])
  BY <1>1, CrcRun
<1>3. c \in Word
  BY <1>1, CrcRun
<1>4. PICK g \in [0 .. k -> Word] : IsSummed(g, c, b) /\ Crc32(c, b) = Not(g[k])
  <2> HIDE DEF c
  <2> QED
    BY <1>3, CrcRun
<1>5. PICK h \in [0 .. m + k -> Word] :
        IsSummed(h, {}, a \o b) /\ Crc32({}, a \o b) = Not(h[m + k])
  <2>1. PICK both : both = a \o b
    OBVIOUS
  <2>2. both \in Seq(Byte) /\ Len(both) = m + k /\ {} \in Word
    BY <1>1, <2>1
  <2>3. \E h \in [0 .. Len(both) -> Word] :
          IsSummed(h, {}, both) /\ Crc32({}, both) = Not(h[Len(both)])
    BY ONLY <2>2, CrcRun
  <2> QED
    BY ONLY <2>1, <2>2, <2>3
<1> HIDE DEF m, k, c
<1>6. h[0] = f[0] /\ g[0] = f[m]
  <2>1. m \in 0 .. m /\ f[m] \in Word
    BY <1>1
  <2> QED
    BY <1>2, <1>4, <1>5, <2>1, XorTypes DEF IsSummed, IsRun
<1>7. ASSUME NEW n \in 1 .. m
      PROVE  f[n] = TakeByte(f[n - 1], a[n]) /\ h[n] = TakeByte(h[n - 1], a[n])
  <2>1. n \in 1 .. m + k /\ (a \o b)[n] = a[n] /\ f[n - 1] \in Word /\ h[n - 1] \in Word
    BY <1>1
  <2>2. f[n] = ByteSteps(a)[n][f[n - 1]]
    BY <1>2 DEF IsSummed, IsRun, m
  <2>3. h[n] = ByteSteps(a \o b)[n][h[n - 1]]
    BY <1>1, <1>5, <2>1 DEF IsSummed, IsRun
  <2> QED
    BY <1>1, <2>1, <2>2, <2>3 DEF ByteSteps, m
<1>8. ASSUME NEW n \in 1 .. k
      PROVE  g[n] = TakeByte(g[n - 1], b[n]) /\ h[m + n] = TakeByte(h[m + n - 1], b[n])
  <2>1. /\ m + n \in 1 .. m + k /\ (a \o b)[m + n] = b[n]
        /\ g[n - 1] \in Word /\ h[m + n - 1] \in Word
    <3>1. /\ m + n \in 1 .. m + k /\ ~(m + n <= m) /\ m + n - m = n
          /\ n - 1 \in 0 .. k /\ m + n - 1 \in 0 .. m + k
      BY <1>1
    <3>2. (a \o b)[m + n] = b[n]
      BY <1>1, <3>1
    <3>3. g[n - 1] \in Word /\ h[m + n - 1] \in Word
      BY <3>1
    <3> QED
      BY <3>1, <3>2, <3>3
  <2>2. g[n] = ByteSteps(b)[n][g[n - 1]]
    BY <1>4 DEF IsSummed, IsRun, k
  <2>3. h[m + n] = ByteSteps(a \o b)[m + n][h[m + n - 1]]
    BY <1>1, <1>5, <2>1 DEF IsSummed, IsRun
  <2> QED
    BY <1>1, <2>1, <2>2, <2>3 DEF ByteSteps, k
<1>9. \A n \in 0 .. m : h[n] = f[n]
  <2> DEFINE Bad == {n \in 0 .. m : h[n] # f[n]}
  <2> SUFFICES ASSUME Bad # {}
               PROVE  FALSE
    OBVIOUS
  <2>1. PICK n \in Bad : \A j \in Bad : n <= j
    <3>1. Bad \subseteq Nat
      BY <1>1
    <3> HIDE DEF Bad
    <3> QED
      BY <3>1, Smallest
  <2>2. n # 0 /\ n \in 0 .. m
    BY <1>6
  <2>3. n - 1 \in 0 .. m /\ h[n - 1] = f[n - 1] /\ n \in 1 .. m
    BY <1>1, <2>1, <2>2
  <2> QED
    BY <1>7, <2>1, <2>3
<1>10. \A n \in 0 .. k : h[m + n] = g[n]
  <2> DEFINE Bad == {n \in 0 .. k : h[m + n] # g[n]}
  <2> SUFFICES ASSUME Bad # {}
               PROVE  FALSE
    OBVIOUS
  <2>1. PICK n \in Bad : \A j \in Bad : n <= j
    <3>1. Bad \subseteq Nat
      BY <1>1
    <3> HIDE DEF Bad
    <3> QED
      BY <3>1, Smallest
  <2>2. n # 0
    <3>1. m \in 0 .. m /\ m + 0 = m
      BY <1>1
    <3> QED
      BY <1>6, <1>9, <3>1
  <2>3. n - 1 \in 0 .. k /\ h[m + (n - 1)] = g[n - 1] /\ n \in 1 .. k /\ m + (n - 1) = m + n - 1
    BY <1>1, <2>1, <2>2
  <2> QED
    BY <1>8, <2>1, <2>3
<1>11. k \in 0 .. k
  BY <1>1
<1> QED
  BY <1>4, <1>5, <1>10, <1>11 DEF c

(***************************************************************************)
(* The checksum of an archive of which one byte was changed is another.    *)
(***************************************************************************)
LEMMA CrcNoticesOneByte ==
  ASSUME NEW s \in Seq(Byte), NEW p \in 1 .. Len(s), NEW byte \in Byte, byte # s[p],
         NEW t, t = [s EXCEPT ![p] = byte]
  PROVE  Crc32({}, t) # Crc32({}, s)
<1> DEFINE L == Len(s)
<1>1. /\ L \in Nat /\ {} \in Word /\ t \in Seq(Byte) /\ Len(t) = L /\ t[p] = byte
      /\ \A i \in 1 .. L : s[i] \in Byte /\ t[i] \in Byte /\ (i # p => t[i] = s[i])
  BY ExceptSeq, ElementOfSeq DEF Word
<1>2. PICK f \in [0 .. L -> Word] : IsSummed(f, {}, s) /\ Crc32({}, s) = Not(f[L])
  BY <1>1, CrcRun
<1>3. PICK g \in [0 .. L -> Word] : IsSummed(g, {}, t) /\ Crc32({}, t) = Not(g[L])
  BY <1>1, CrcRun
<1> HIDE DEF L
<1>4. ASSUME NEW n \in 1 .. L
      PROVE  /\ f[n - 1] \in Word /\ g[n - 1] \in Word
             /\ f[n] = TakeByte(f[n - 1], s[n]) /\ g[n] = TakeByte(g[n - 1], t[n])
  <2>1. f[n - 1] \in Word /\ g[n - 1] \in Word
    BY <1>1
  <2>2. f[n] = ByteSteps(s)[n][f[n - 1]]
    BY <1>2 DEF IsSummed, IsRun, L
  <2>3. g[n] = ByteSteps(t)[n][g[n - 1]]
    BY <1>1, <1>3 DEF IsSummed, IsRun
  <2> QED
    BY <1>1, <2>1, <2>2, <2>3 DEF ByteSteps, L
<1>5. f[0] = g[0]
  BY <1>2, <1>3 DEF IsSummed, IsRun
<1>6. ASSUME NEW n \in 0 .. L
      PROVE  f[n] = g[n] <=> n < p
  <2> DEFINE Bad == {j \in 0 .. L : ~(f[j] = g[j] <=> j < p)}
  <2> SUFFICES ASSUME Bad # {}
               PROVE  FALSE
    OBVIOUS
  <2>1. PICK j \in Bad : \A i \in Bad : j <= i
    <3>1. Bad \subseteq Nat
      BY <1>1
    <3> HIDE DEF Bad
    <3> QED
      BY <3>1, Smallest
  <2>2. j # 0 /\ p \in 1 .. L
    BY <1>5 DEF L
  <2>3. j - 1 \in 0 .. L /\ j \in 1 .. L /\ (f[j - 1] = g[j - 1] <=> j - 1 < p)
    BY <1>1, <2>1, <2>2
  <2>4. f[j] = g[j] => Xor(f[j - 1], s[j]) = Xor(g[j - 1], t[j])
    <3>1. /\ f[j - 1] \in Word /\ g[j - 1] \in Word /\ s[j] \in Byte /\ t[j] \in Byte
          /\ f[j] = TakeByte(f[j - 1], s[j]) /\ g[j] = TakeByte(g[j - 1], t[j])
      BY <1>1, <1>4, <2>3
    <3>2. PICK v \in Word, w \in Word, x \in Byte, y \in Byte :
            v = f[j - 1] /\ w = g[j - 1] /\ x = s[j] /\ y = t[j]
      BY <3>1
    <3>3. TakeByte(v, x) = TakeByte(w, y) => Xor(v, x) = Xor(w, y)
      BY ONLY <3>2, TakeByteInjective
    <3> QED
      BY <3>1, <3>2, <3>3
  <2>5. CASE j < p
    <3>1. f[j - 1] = g[j - 1] /\ t[j] = s[j]
      BY <1>1, <2>2, <2>3, <2>5
    <3> QED
      BY <1>4, <2>1, <2>3, <2>5, <3>1
  <2>6. CASE j = p
    <3>1. f[j - 1] = g[j - 1] /\ t[j] # s[j]
      BY <1>1, <2>3, <2>6
    <3>2. Xor(f[j - 1], s[j]) # Xor(f[j - 1], t[j])
      BY <3>1, XorInjective
    <3>3. f[j] # g[j]
      BY <2>4, <3>1, <3>2
    <3> QED
      BY <2>1, <2>6, <3>3
  <2>7. CASE j > p
    <3>1. f[j - 1] # g[j - 1] /\ t[j] = s[j]
      BY <1>1, <2>2, <2>3, <2>7
    <3>2. f[j] # g[j]
      BY <2>4, <3>1, XorInjective
    <3> QED
      BY <2>1, <2>2, <2>7, <3>2
  <2> QED
    BY <2>2, <2>3, <2>5, <2>6, <2>7
<1>7. L \in 0 .. L /\ ~(L < p)
  BY <1>1 DEF L
<1>8. f[L] # g[L] /\ f[L] \in Word /\ g[L] \in Word
  BY <1>6, <1>7
<1> QED
  BY <1>2, <1>3, <1>8, NotInjective

-----------------------------------------------------------------------------
(* A package, byte by byte *)

(***************************************************************************)
(* c is a, of m bytes, followed by b, of n bytes.                          *)
(***************************************************************************)
Joins(c, a, m, b, n) ==
  /\ c \in Seq(Byte) /\ Len(c) = m + n
  /\ \A i \in 1 .. m : c[i] = a[i]
  /\ \A i \in 1 .. n : c[m + i] = b[i]

LEMMA ConcatAt ==
  ASSUME NEW a \in Seq(Byte), NEW b \in Seq(Byte), NEW m, NEW n,
         m = Len(a), n = Len(b)
  PROVE  Joins(a \o b, a, m, b, n)
<1>1. m \in Nat /\ n \in Nat
  OBVIOUS
<1>2. /\ a \o b \in Seq(Byte) /\ Len(a \o b) = m + n
      /\ \A i \in 1 .. m + n : (a \o b)[i] = IF i <= m THEN a[i] ELSE b[i - m]
  BY ConcatProperties
<1>3. \A i \in 1 .. m : i \in 1 .. m + n /\ i <= m
  BY <1>1
<1>4. \A i \in 1 .. n : m + i \in 1 .. m + n /\ ~(m + i <= m) /\ m + i - m = i
  BY <1>1
<1>5. ASSUME NEW i \in 1 .. n
      PROVE  (a \o b)[m + i] = b[i]
  BY <1>2, <1>4
<1> QED
  BY <1>2, <1>3, <1>5 DEF Joins

LEMMA Associative ==
  ASSUME NEW S, NEW f \in Seq(S), NEW a \in Seq(S), NEW b \in Seq(S)
  PROVE  (f \o a) \o b = f \o (a \o b)
BY ConcatAssociative

LEMMA BytesShape ==
  ASSUME NEW w \in Word, NEW order \in Orders
  PROVE  /\ Bytes(w, order) \in Seq(Byte) /\ Len(Bytes(w, order)) = 4
         /\ \A i \in 1 .. 4 : Bytes(w, order)[i] = ByteOf(w, IF order = "little" THEN i - 1 ELSE 4 - i)
<1>1. \A k \in 0 .. 3 : ByteOf(w, k) \in Byte
  BY DEF ByteOf, Byte
<1>2. \A i \in 1 .. 4 : Bytes(w, order)[i] \in Byte
  BY <1>1 DEF Bytes
<1>3. Bytes(w, order) \in [1 .. 4 -> Byte]
  BY <1>2 DEF Bytes
<1> QED
  BY <1>3 DEF Bytes

LEMMA BytesInjective ==
  ASSUME NEW v \in Word, NEW w \in Word, NEW order \in Orders,
         \A i \in 1 .. 4 : Bytes(v, order)[i] = Bytes(w, order)[i]
  PROVE  v = w
<1>1. \A k \in 0 .. 3 : ByteOf(v, k) = ByteOf(w, k)
  <2>1. CASE order = "little"
    <3>1. \A k \in 0 .. 3 : k + 1 \in 1 .. 4 /\ k + 1 - 1 = k
      OBVIOUS
    <3> QED
      BY <2>1, <3>1, BytesShape
  <2>2. CASE order # "little"
    <3>1. \A k \in 0 .. 3 : 4 - k \in 1 .. 4 /\ 4 - (4 - k) = k
      OBVIOUS
    <3> QED
      BY <2>2, <3>1, BytesShape
  <2> QED
    BY <2>1, <2>2
<1>2. ASSUME NEW k \in 0 .. 3, NEW i \in 8 * k .. 8 * k + 7
      PROVE  i \in v <=> i \in w
  <2>1. ASSUME NEW u \in Word
        PROVE  i \in u <=> i - 8 * k \in ByteOf(u, k)
    BY DEF ByteOf, Word
  <2> QED
    BY <1>1, <2>1
<1>3. \A i \in 0 .. 31 : \E k \in 0 .. 3 : i \in 8 * k .. 8 * k + 7
  <2>1. ASSUME NEW i \in 0 .. 31
        PROVE  i \in 8 * 0 .. 8 * 0 + 7 \/ i \in 8 * 1 .. 8 * 1 + 7
               \/ i \in 8 * 2 .. 8 * 2 + 7 \/ i \in 8 * 3 .. 8 * 3 + 7
    OBVIOUS
  <2> QED
    BY <2>1
<1>4. \A i : i \in v <=> i \in w
  BY <1>2, <1>3 DEF Word
<1> QED
  BY <1>4

LEMMA HeaderShape ==
  ASSUME NEW v \in Byte, NEW w \in Word, NEW order \in Orders
  PROVE  /\ Header(v, w, order) \in Seq(Byte) /\ Len(Header(v, w, order)) = 9
         /\ \A i \in 1 .. 4 : Header(v, w, order)[i] = Magic[i]
         /\ Header(v, w, order)[5] = v
         /\ \A i \in 1 .. 4 : Header(v, w, order)[5 + i] = Bytes(w, order)[i]
<1>1. Magic \in Seq(Byte) /\ Len(Magic) = 4 /\ <<v>> \in Seq(Byte) /\ Len(<<v>>) = 1
  BY DEF Magic, Byte
<1>2. PICK one, s, b : one = <<v>> /\ s = Magic \o one /\ b = Bytes(w, order)
  OBVIOUS
<1>3. Joins(s, Magic, 4, one, 1)
  <2>1. one \in Seq(Byte) /\ 1 = Len(one) /\ 4 = Len(Magic)
    BY <1>1, <1>2
  <2> QED
    BY ONLY <1>1, <1>2, <2>1, ConcatAt
<1>4. /\ s \in Seq(Byte) /\ Len(s) = 5
      /\ \A i \in 1 .. 4 : s[i] = Magic[i]
  BY <1>3 DEF Joins
<1>5. s[5] = v
  <2>1. s[4 + 1] = one[1] /\ one[1] = v
    BY <1>2, <1>3 DEF Joins
  <2> QED
    BY <2>1
<1>6. Joins(s \o b, s, 5, b, 4)
  <2>1. b \in Seq(Byte) /\ 4 = Len(b) /\ 5 = Len(s)
    BY <1>2, <1>4, BytesShape
  <2> QED
    BY ONLY <1>4, <2>1, ConcatAt
<1>7. Header(v, w, order) = s \o b
  BY <1>2 DEF Header
<1>8. ASSUME NEW i \in 1 .. 4
      PROVE  (s \o b)[i] = Magic[i]
  <2>1. i \in 1 .. 5 /\ s[i] = Magic[i]
    BY <1>4
  <2>2. \A j \in 1 .. 5 : (s \o b)[j] = s[j]
    BY <1>6 DEF Joins
  <2> QED
    BY <2>1, <2>2
<1>9. (s \o b)[5] = v
  BY <1>5, <1>6 DEF Joins
<1>10. s \o b \in Seq(Byte) /\ Len(s \o b) = 9 /\ \A i \in 1 .. 4 : (s \o b)[5 + i] = b[i]
  BY <1>6 DEF Joins
<1> QED
  BY <1>2, <1>7, <1>8, <1>9, <1>10

(***************************************************************************)
(* The trailer starts after the first n bytes.                             *)
(***************************************************************************)
EndsIn(contents, n, version, sum, order) ==
  /\ \A i \in 1 .. 4 : contents[n + i] = Magic[i]
  /\ contents[n + 5] = version
  /\ \A i \in 1 .. 4 : contents[n + 5 + i] = Bytes(sum, order)[i]

LEMMA PackageShape ==
  ASSUME NEW a \in Seq(Byte), NEW v \in Byte, NEW order \in Orders
  PROVE  /\ Package(a, v, order) \in Seq(Byte)
         /\ Len(Package(a, v, order)) = Len(a) + 9
         /\ \A i \in 1 .. Len(a) : Package(a, v, order)[i] = a[i]
         /\ EndsIn(Package(a, v, order), Len(a), v, Crc32({}, a), order)
<1>1. PICK sum, n : sum = Crc32({}, a) /\ n = Len(a)
  OBVIOUS
<1>2. PICK t : t = Header(v, sum, order)
  OBVIOUS
<1>3. {} \in Word /\ n \in Nat
  BY <1>1 DEF Word
<1>4. sum \in Word
  BY <1>1, <1>3, CrcRun
<1>5. /\ t \in Seq(Byte) /\ 9 = Len(t) /\ \A i \in 1 .. 4 : t[i] = Magic[i]
      /\ t[5] = v /\ \A i \in 1 .. 4 : t[5 + i] = Bytes(sum, order)[i]
  BY <1>2, <1>4, HeaderShape
<1>6. Joins(a \o t, a, n, t, 9)
  BY ONLY <1>1, <1>5, ConcatAt, a \in Seq(Byte)
<1>7. EndsIn(a \o t, n, v, sum, order)
  <2>1. ASSUME NEW i \in 1 .. 4
        PROVE  (a \o t)[n + i] = Magic[i] /\ (a \o t)[n + 5 + i] = Bytes(sum, order)[i]
    <3>1. i \in 1 .. 9 /\ 5 + i \in 1 .. 9 /\ n + (5 + i) = n + 5 + i
      BY <1>3
    <3>2. (a \o t)[n + i] = t[i] /\ (a \o t)[n + (5 + i)] = t[5 + i]
      BY <1>6, <3>1 DEF Joins
    <3> QED
      BY <1>5, <3>1, <3>2
  <2>2. (a \o t)[n + 5] = v
    <3>1. 5 \in 1 .. 9
      OBVIOUS
    <3>2. (a \o t)[n + 5] = t[5]
      BY <1>6, <3>1 DEF Joins
    <3> QED
      BY <1>5, <3>2
  <2> QED
    BY <2>1, <2>2 DEF EndsIn
<1>8. Package(a, v, order) = a \o t
  BY <1>1, <1>2 DEF Package
<1> QED
  BY <1>1, <1>6, <1>7, <1>8 DEF Joins

LEMMA ArchiveShape ==
  ASSUME NEW c \in Seq(Byte), NEW n \in Nat, Len(c) = n + 9
  PROVE  /\ Archive(c) \in Seq(Byte) /\ Len(Archive(c)) = n
         /\ \A i \in 1 .. n : Archive(c)[i] = c[i]
<1>1. \A i \in 1 .. n : c[i] \in Byte
  BY ElementOfSeq
<1>2. /\ SubSeq(c, 1, n) \in Seq(Byte) /\ Len(SubSeq(c, 1, n)) = IF 1 <= n THEN n - 1 + 1 ELSE 0
      /\ \A i \in 1 .. n - 1 + 1 : SubSeq(c, 1, n)[i] = c[1 + i - 1]
  BY <1>1, SubSeqProperties
<1>3. Archive(c) = SubSeq(c, 1, n)
  BY DEF Archive, HeaderSize
<1> QED
  BY <1>2, <1>3

(***************************************************************************)
(* What package_verify demands, byte by byte.                              *)
(***************************************************************************)
LEMMA VerifiesBytewise ==
  ASSUME NEW c \in Seq(Byte), NEW n \in Nat, Len(c) = n + 9,
         NEW v \in Byte, NEW order \in Orders
  PROVE  Verifies(c, v, order) <=> EndsIn(c, n, v, Crc32({}, Archive(c)), order)
<1> DEFINE t == SubSeq(c, n + 1, n + 9)
           sum == Crc32({}, Archive(c))
<1>1. \A i \in n + 1 .. n + 9 : c[i] \in Byte
  BY ElementOfSeq
<1>2. /\ t \in Seq(Byte) /\ Len(t) = 9
      /\ \A i \in 1 .. 9 : t[i] = c[n + i]
  <2>1. /\ t \in Seq(Byte)
        /\ Len(t) = IF n + 1 <= n + 9 THEN n + 9 - (n + 1) + 1 ELSE 0
        /\ \A i \in 1 .. n + 9 - (n + 1) + 1 : t[i] = c[n + 1 + i - 1]
    BY <1>1, SubSeqProperties
  <2> HIDE DEF t
  <2>2. n + 9 - (n + 1) + 1 = 9 /\ n + 1 <= n + 9
    OBVIOUS
  <2>3. ASSUME NEW i \in 1 .. 9
        PROVE  t[i] = c[n + i]
    <3>1. n + 1 + i - 1 = n + i
      OBVIOUS
    <3>2. t[i] = c[n + 1 + i - 1]
      BY <2>1, <2>2
    <3> QED
      BY <3>1, <3>2
  <2>4. Len(t) = 9
    BY <2>1, <2>2
  <2> QED
    BY <2>1, <2>3, <2>4
<1>3. Trailer(c) = t
  <2>1. Len(c) - HeaderSize + 1 = n + 1
    BY DEF HeaderSize
  <2> QED
    BY <2>1 DEF Trailer
<1>4. sum \in Word
  BY ArchiveShape, CrcRun DEF Word
<1> HIDE DEF t, sum
<1>5. \A i \in 1 .. 9 : t[i] \in Byte
  BY <1>2, ElementOfSeq
<1>6. SubSeq(t, 1, 4) = Magic <=> \A i \in 1 .. 4 : c[n + i] = Magic[i]
  <2>1. /\ SubSeq(t, 1, 4) \in Seq(Byte) /\ Len(SubSeq(t, 1, 4)) = 4
        /\ \A i \in 1 .. 4 : SubSeq(t, 1, 4)[i] = t[i]
    <3>1. \A i \in 1 .. 4 : t[i] \in Byte
      BY <1>5
    <3>2. /\ SubSeq(t, 1, 4) \in Seq(Byte) /\ Len(SubSeq(t, 1, 4)) = IF 1 <= 4 THEN 4 - 1 + 1 ELSE 0
          /\ \A i \in 1 .. 4 - 1 + 1 : SubSeq(t, 1, 4)[i] = t[1 + i - 1]
      BY <3>1, SubSeqProperties
    <3> QED
      BY <3>2
  <2>2. Magic \in Seq(Byte) /\ Len(Magic) = 4
    BY DEF Magic, Byte
  <2>3. (\A i \in 1 .. 4 : SubSeq(t, 1, 4)[i] = Magic[i]) => SubSeq(t, 1, 4) = Magic
    BY <2>1, <2>2, SeqEqual
  <2> QED
    BY <1>2, <2>1, <2>3
<1>7. SubSeq(t, 6, 9) = Bytes(sum, order)
        <=> \A i \in 1 .. 4 : c[n + 5 + i] = Bytes(sum, order)[i]
  <2>1. /\ SubSeq(t, 6, 9) \in Seq(Byte) /\ Len(SubSeq(t, 6, 9)) = 4
        /\ \A i \in 1 .. 4 : SubSeq(t, 6, 9)[i] = t[5 + i]
    <3>1. \A i \in 6 .. 9 : t[i] \in Byte
      BY <1>5
    <3>2. /\ SubSeq(t, 6, 9) \in Seq(Byte) /\ Len(SubSeq(t, 6, 9)) = IF 6 <= 9 THEN 9 - 6 + 1 ELSE 0
          /\ \A i \in 1 .. 9 - 6 + 1 : SubSeq(t, 6, 9)[i] = t[6 + i - 1]
      BY <3>1, SubSeqProperties
    <3>3. \A i \in 1 .. 4 : 6 + i - 1 = 5 + i
      OBVIOUS
    <3> QED
      BY <3>2, <3>3
  <2>2. Bytes(sum, order) \in Seq(Byte) /\ Len(Bytes(sum, order)) = 4
    BY <1>4, BytesShape
  <2>3. (\A i \in 1 .. 4 : SubSeq(t, 6, 9)[i] = Bytes(sum, order)[i])
          => SubSeq(t, 6, 9) = Bytes(sum, order)
    BY <2>1, <2>2, SeqEqual
  <2>4. \A i \in 1 .. 4 : 5 + i \in 1 .. 9 /\ t[5 + i] = c[n + 5 + i]
    <3>1. \A i \in 1 .. 4 : 5 + i \in 1 .. 9 /\ n + (5 + i) = n + 5 + i
      OBVIOUS
    <3> QED
      BY <1>2, <3>1
  <2> QED
    BY <2>1, <2>3, <2>4
<1>8. t[5] = c[n + 5]
  BY <1>2
<1> QED
  BY <1>3, <1>6, <1>7, <1>8 DEF Verifies, EndsIn, sum

(***************************************************************************)
(* A package is what its own version of the program accepts, and its       *)
(* archive is the one that was packed.                                     *)
(***************************************************************************)
LEMMA PackageVerifies ==
  ASSUME NEW a \in Seq(Byte), a # <<>>, NEW v \in Byte, NEW order \in Orders
  PROVE  /\ Opens(Package(a, v, order)) /\ Archive(Package(a, v, order)) = a
         /\ Verifies(Package(a, v, order), v, order)
<1> DEFINE P == Package(a, v, order)
           n == Len(a)
<1>1. n \in Nat /\ n # 0
  BY EmptySeq
<1>2. /\ P \in Seq(Byte) /\ Len(P) = n + 9 /\ \A i \in 1 .. n : P[i] = a[i]
      /\ EndsIn(P, n, v, Crc32({}, a), order)
  BY PackageShape
<1> HIDE DEF P
<1>3. Archive(P) = a
  <2>1. /\ Archive(P) \in Seq(Byte) /\ Len(Archive(P)) = n
        /\ \A i \in 1 .. n : Archive(P)[i] = P[i]
    BY <1>1, <1>2, ArchiveShape
  <2> QED
    BY <1>2, <2>1, SeqEqual
<1>4. Opens(P)
  BY <1>1, <1>2 DEF Opens, HeaderSize
<1>5. Verifies(P, v, order)
  BY <1>1, <1>2, <1>3, VerifiesBytewise
<1> QED
  BY <1>3, <1>4, <1>5 DEF P

(***************************************************************************)
(* A package of which one byte was changed is refused.                     *)
(***************************************************************************)
LEMMA DamageIsNoticed ==
  ASSUME NEW a \in Seq(Byte), NEW v \in Byte, NEW order \in Orders,
         NEW d \in Seq(Byte), Len(d) = Len(Package(a, v, order)), NEW p \in 1 .. Len(d),
         \A i \in 1 .. Len(d) : d[i] # Package(a, v, order)[i] <=> i = p
  PROVE  ~ Verifies(d, v, order)
<1>1. PICK P, n : P = Package(a, v, order) /\ n = Len(a)
  OBVIOUS
<1>2. /\ P \in Seq(Byte) /\ Len(P) = n + 9 /\ n \in Nat
      /\ \A i \in 1 .. n : P[i] = a[i]
      /\ EndsIn(P, n, v, Crc32({}, a), order)
  <2>1. /\ P \in Seq(Byte) /\ Len(P) = Len(a) + 9
        /\ \A i \in 1 .. Len(a) : P[i] = a[i]
        /\ EndsIn(P, Len(a), v, Crc32({}, a), order)
    BY <1>1, PackageShape
  <2>2. Len(a) \in Nat
    OBVIOUS
  <2> QED
    BY ONLY <1>1, <2>1, <2>2
<1>3. /\ Len(d) = n + 9 /\ p \in 1 .. n + 9
      /\ \A i \in 1 .. n + 9 : d[i] # P[i] <=> i = p
  BY <1>1, <1>2
<1>4. /\ Archive(d) \in Seq(Byte) /\ Len(Archive(d)) = n
      /\ \A i \in 1 .. n : Archive(d)[i] = d[i]
  BY <1>2, <1>3, ArchiveShape
<1>5. PICK sum, found : sum = Crc32({}, a) /\ found = Crc32({}, Archive(d))
  OBVIOUS
<1>6. sum \in Word /\ found \in Word
  BY <1>4, <1>5, CrcRun DEF Word
<1>7. SUFFICES ASSUME EndsIn(d, n, v, found, order)
               PROVE  FALSE
  BY <1>2, <1>3, <1>5, VerifiesBytewise
<1>8. CASE p \in 1 .. n
  <2>1. a[p] # d[p] /\ d[p] \in Byte /\ p \in 1 .. Len(a)
    BY <1>1, <1>2, <1>3, <1>8, ElementOfSeq
  <2>2. PICK t : t = [a EXCEPT ![p] = d[p]]
    OBVIOUS
  <2>3. Archive(d) = t
    <3>1. /\ t \in Seq(Byte) /\ Len(t) = n
          /\ \A i \in 1 .. n : t[i] = IF i = p THEN d[p] ELSE a[i]
      BY <1>1, <2>1, <2>2, ExceptSeq
    <3>2. ASSUME NEW i \in 1 .. n
          PROVE  d[i] = t[i]
      <4>1. i \in 1 .. n + 9
        BY <1>2
      <4> QED
        BY <1>2, <1>3, <3>1, <4>1
    <3> QED
      BY <1>4, <3>1, <3>2, SeqEqual
  <2>4. found # sum
    BY ONLY <1>5, <2>1, <2>2, <2>3, CrcNoticesOneByte, a \in Seq(Byte)
  <2>5. \A i \in 1 .. 4 : Bytes(found, order)[i] = Bytes(sum, order)[i]
    <3>1. ASSUME NEW i \in 1 .. 4
          PROVE  Bytes(found, order)[i] = Bytes(sum, order)[i]
      <4>1. n + 5 + i \in 1 .. n + 9 /\ n + 5 + i # p
        BY <1>2, <1>8
      <4>2. d[n + 5 + i] = P[n + 5 + i]
        BY <1>3, <4>1
      <4> QED
        BY <1>2, <1>5, <1>7, <4>2 DEF EndsIn
    <3> QED
      BY <3>1
  <2> QED
    BY <1>6, <2>4, <2>5, BytesInjective
<1>9. CASE p \notin 1 .. n
  <2>1. Archive(d) = a
    <3>1. ASSUME NEW i \in 1 .. n
          PROVE  d[i] = a[i]
      <4>1. i \in 1 .. n + 9 /\ i # p
        BY <1>2, <1>9
      <4> QED
        BY <1>2, <1>3, <4>1
    <3> QED
      BY <1>1, <1>4, <3>1, SeqEqual
  <2>2. ASSUME NEW i \in 1 .. 4
        PROVE  d[n + i] = P[n + i] /\ d[n + 5 + i] = P[n + 5 + i]
    <3>1. EndsIn(P, n, v, sum, order) /\ EndsIn(d, n, v, sum, order)
      BY <1>2, <1>5, <1>7, <2>1
    <3> QED
      BY ONLY <3>1, i \in 1 .. 4 DEF EndsIn
  <2>3. d[n + 5] = P[n + 5]
    BY <1>2, <1>7 DEF EndsIn
  <2>4. p = n + 5 \/ \E i \in 1 .. 4 : p = n + i \/ p = n + 5 + i
    <3>1. p - n \in 1 .. 9
      BY <1>2, <1>3, <1>9
    <3>2. p - n \in 1 .. 4 \/ p - n = 5 \/ p - n - 5 \in 1 .. 4
      BY <1>2, <3>1
    <3>3. p = n + (p - n) /\ p = n + 5 + (p - n - 5)
      BY <1>2, <1>3
    <3> QED
      BY <3>2, <3>3
  <2>5. d[p] = P[p]
    BY <2>2, <2>3, <2>4
  <2> QED
    BY <1>3, <2>5
<1> QED
  BY <1>8, <1>9

-----------------------------------------------------------------------------
(* Packing: the file is what was read so far, and crc its checksum. *)

LEMMA Cutting ==
  ASSUME NEW s \in Seq(Byte), NEW n \in Nat, n <= Len(s)
  PROVE  /\ Take(s, n) \in Seq(Byte) /\ Drop(s, n) \in Seq(Byte)
         /\ Len(Take(s, n)) = n /\ \A i \in 1 .. n : Take(s, n)[i] = s[i]
         /\ Take(s, n) \o Drop(s, n) = s
<1> DEFINE L == Len(s)
<1>1. L \in Nat /\ n <= L
  OBVIOUS
<1>2. (\A i \in 1 .. n : s[i] \in Byte) /\ (\A i \in n + 1 .. L : s[i] \in Byte)
  BY ElementOfSeq
<1>3. Drop(s, n) \in Seq(Byte)
  <2>1. n + 1 \in Int /\ L \in Int
    BY <1>1
  <2>2. SubSeq(s, n + 1, L) \in Seq(Byte)
    BY <1>2, <2>1, SubSeqProperties
  <2> QED
    BY <2>2 DEF Drop
<1>4. /\ Take(s, n) \in Seq(Byte) /\ Len(Take(s, n)) = n
      /\ \A i \in 1 .. n : Take(s, n)[i] = s[i]
  <2>1. /\ SubSeq(s, 1, n) \in Seq(Byte) /\ Len(SubSeq(s, 1, n)) = IF 1 <= n THEN n - 1 + 1 ELSE 0
        /\ \A i \in 1 .. n - 1 + 1 : SubSeq(s, 1, n)[i] = s[1 + i - 1]
    BY <1>2, SubSeqProperties
  <2> QED
    BY <2>1 DEF Take
<1>5. Take(s, n) \o Drop(s, n) = s
  <2>1. SubSeq(s, 1, n) \o SubSeq(s, n + 1, L) = SubSeq(s, 1, L)
    <3>1. 1 \in 1 .. L + 1 /\ n \in 1 - 1 .. L /\ L \in n .. L
      BY <1>1
    <3> QED
      BY <3>1, ConcatAdjacentSubSeq
  <2>2. SubSeq(s, 1, L) = s
    BY SubSeqFull
  <2> QED
    BY <2>1, <2>2 DEF Take, Drop
<1> QED
  BY <1>3, <1>4, <1>5

LEMMA SizesType ==
  ASSUME NEW n \in Nat, NEW k \in Sizes(n)
  PROVE  k \in Nat /\ 1 <= k /\ k <= n
<1>1. Pieces \subseteq Nat \ {0}
  BY DeliveryAssumption DEF DeliveryAssumption
<1>2. n # 0 /\ \E j \in Pieces : k = Least(j, n)
  BY DEF Sizes
<1>3. PICK j \in Pieces : k = Least(j, n)
  BY <1>2
<1>4. j \in Nat /\ j # 0
  BY <1>1
<1> QED
  BY <1>2, <1>3, <1>4 DEF Least

LEMMA SteadyFile ==
  ASSUME PackInv, UNCHANGED <<file, packVars, whole>>
  PROVE  PackInv'
<1>1. Completed' = Completed
  BY DEF packVars, Completed
<1>2. packing' = packing /\ source' = source /\ left' = left /\ crc' = crc /\ machine' = machine
  BY DEF packVars
<1> QED
  BY <1>1, <1>2 DEF PackInv, DoneIsPackage

LEMMA PackBeginsKeeps ==
  ASSUME PackInv, PackBegins
  PROVE  PackInv'
<1>1. /\ source' \in Seq(Byte) /\ left' = source' /\ file' = <<>> /\ crc' = {}
      /\ machine' \in [version : Byte, order : Orders] /\ packing' = "read"
  BY DeliveryAssumption DEF DeliveryAssumption, PackBegins
<1>2. file' \in Seq(Byte)
  BY <1>1
<1>3. file' \o left' = source' /\ crc' = Crc32({}, file')
  BY <1>1, CrcOfNothing, ConcatEmptySeq
<1> QED
  BY <1>1, <1>2, <1>3 DEF PackInv

LEMMA PackChunkKeeps ==
  ASSUME PackInv, PackChunk
  PROVE  PackInv'
<1>1. PICK n \in Sizes(Len(left)) :
        /\ crc' = Crc32(crc, Take(left, n))
        /\ file' = file \o Take(left, n)
        /\ left' = Drop(left, n)
  BY DEF PackChunk
<1>2. /\ file \in Seq(Byte) /\ left \in Seq(Byte) /\ source \in Seq(Byte)
      /\ machine \in [version : Byte, order : Orders]
      /\ file \o left = source /\ crc = Crc32({}, file)
      /\ packing = "read" /\ packing' = "read" /\ source' = source /\ machine' = machine
  BY DEF PackInv, PackChunk
<1>3. n \in Nat /\ n <= Len(left)
  <2>1. Len(left) \in Nat
    BY <1>2
  <2> QED
    BY <2>1, SizesType
<1>4. PICK t, d : t = Take(left, n) /\ d = Drop(left, n)
  OBVIOUS
<1>5. t \in Seq(Byte) /\ d \in Seq(Byte) /\ t \o d = left
  BY ONLY <1>2, <1>3, <1>4, Cutting
<1>6. file \o t \in Seq(Byte) /\ (file \o t) \o d = file \o (t \o d)
  <2>1. file \o t \in Seq(Byte)
    BY <1>2, <1>5
  <2>2. (file \o t) \o d = file \o (t \o d)
    <3>1. file \in Seq(Byte)
      BY <1>2
    <3>2. t \in Seq(Byte) /\ d \in Seq(Byte)
      BY <1>5
    <3> QED
      BY ONLY <3>1, <3>2, Associative
  <2> QED
    BY <2>1, <2>2
<1>7. Crc32(crc, t) = Crc32({}, file \o t)
  BY ONLY <1>2, <1>5, CrcOfChunks
<1> QED
  BY <1>1, <1>2, <1>4, <1>5, <1>6, <1>7 DEF PackInv

LEMMA PackFailsKeeps ==
  ASSUME PackInv, PackFails
  PROVE  PackInv'
<1>1. /\ file \in Seq(Byte) /\ left \in Seq(Byte) /\ source \in Seq(Byte)
      /\ machine \in [version : Byte, order : Orders] /\ Len(left) \in Nat
      /\ packing' = "idle" /\ source' = source /\ machine' = machine /\ left' = <<>>
  BY DEF PackInv, PackFails
<1>2. file' \in Seq(Byte)
  <2>1. CASE file' = file
    BY <1>1, <2>1
  <2>2. ASSUME NEW n \in Sizes(Len(left)), NEW m \in 0 .. n - 1, file' = file \o Take(left, m)
        PROVE  file' \in Seq(Byte)
    <3>1. m \in Nat /\ m <= Len(left)
      BY <1>1, SizesType
    <3>2. Take(left, m) \in Seq(Byte)
      BY ONLY <1>1, <3>1, Cutting
    <3> QED
      BY <1>1, <2>2, <3>2
  <2> QED
    BY <2>1, <2>2 DEF PackFails
<1> QED
  BY <1>1, <1>2 DEF PackInv

LEMMA RefuseEmptyKeeps ==
  ASSUME PackInv, RefuseEmpty
  PROVE  PackInv'
BY DEF PackInv, RefuseEmpty

LEMMA WriteHeaderKeeps ==
  ASSUME PackInv, WriteHeader
  PROVE  PackInv'
<1>1. /\ file \in Seq(Byte) /\ source \in Seq(Byte) /\ source # <<>> /\ left = <<>>
      /\ machine \in [version : Byte, order : Orders]
      /\ file \o left = source /\ crc = Crc32({}, file)
      /\ left' = <<>> /\ source' = source /\ machine' = machine
  BY DEF PackInv, WriteHeader
<1>2. file = source
  BY <1>1, ConcatEmptySeq
<1>3. PICK h : h = Header(machine.version, crc, machine.order)
  OBVIOUS
<1>4. h \in Seq(Byte) /\ Len(h) = 9
  <2>1. {} \in Word /\ machine.version \in Byte /\ machine.order \in Orders
    BY <1>1 DEF Word
  <2>2. crc \in Word
    BY <1>1, <2>1, CrcRun
  <2> QED
    BY <1>3, <2>1, <2>2, HeaderShape
<1>5. PICK n \in 0 .. 9 :
        /\ file' = file \o Take(h, n)
        /\ whole' = IF n = 9 THEN whole \cup {Completed} ELSE whole
        /\ packing' = IF n = 9 THEN "done" ELSE "idle"
  BY <1>3 DEF WriteHeader, HeaderSize
<1>6. file' \in Seq(Byte)
  <2>1. Take(h, n) \in Seq(Byte)
    <3>1. n \in Nat /\ n <= Len(h)
      BY <1>4
    <3> QED
      BY ONLY <1>4, <3>1, Cutting
  <2> QED
    BY <1>1, <1>5, <2>1
<1>7. CASE n = 9
  <2>1. Take(h, n) = h
    BY <1>4, <1>7, SubSeqFull DEF Take
  <2>2. file' = Package(source, machine.version, machine.order)
    BY <1>1, <1>2, <1>3, <1>5, <2>1 DEF Package
  <2>3. Completed' = Completed
    BY <1>1 DEF Completed
  <2> QED
    BY <1>1, <1>5, <1>6, <1>7, <2>2, <2>3 DEF PackInv, DoneIsPackage
<1>8. CASE n # 9
  BY <1>1, <1>5, <1>6, <1>8 DEF PackInv
<1> QED
  BY <1>7, <1>8

(***************************************************************************)
(* However a read cuts the input into chunks, wherever dudepack is stopped *)
(* and however often it is started again over its own output: what it      *)
(* reports as done is on disk (dudepack.c).                                *)
(***************************************************************************)
THEOREM PackHolds == Spec => []PackInv
<1>1. Init => PackInv
  BY DeliveryAssumption DEF DeliveryAssumption, Init, PackInv
<1>2. PackInv /\ [Next]_vars => PackInv'
  <2> SUFFICES ASSUME PackInv, [Next]_vars
               PROVE  PackInv'
    OBVIOUS
  <2>1. CASE PackBegins
    BY <2>1, PackBeginsKeeps
  <2>2. CASE PackChunk
    BY <2>2, PackChunkKeeps
  <2>3. CASE PackFails
    BY <2>3, PackFailsKeeps
  <2>4. CASE RefuseEmpty
    BY <2>4, RefuseEmptyKeeps
  <2>5. CASE WriteHeader
    BY <2>5, WriteHeaderKeeps
  <2>6. CASE Fetch \/ Unpack \/ ReadAgain
    <3>1. UNCHANGED <<file, packVars, whole>>
      BY <2>6 DEF Fetch, FetchBegins, Begin, Receive, TransferEnds, TransferFails, Stop, Check,
                  Unpack, UnpackBegins, MapFails, ReadMagic, ReadVersion, ReadChecksum,
                  SumPiece, Compare, Extract, ExtractEnds, ExtractFails, ReadAgain
    <3> QED
      BY <3>1, SteadyFile
  <2>7. CASE UNCHANGED vars
    BY <2>7, SteadyFile DEF vars
  <2> QED
    BY <2>1, <2>2, <2>3, <2>4, <2>5, <2>6, <2>7 DEF Next, Pack
<1> QED
  BY <1>1, <1>2, PTL DEF Spec

THEOREM DoneMeansPackage == Spec => []DoneIsPackage
<1>1. PackInv => DoneIsPackage
  BY DEF PackInv, DoneIsPackage
<1> QED
  BY <1>1, PackHolds, PTL

-----------------------------------------------------------------------------
(* Reading: what arrives is what is in the file, but for damage. *)

LEMMA SizesBound ==
  ASSUME NEW n \in Int, NEW k \in Sizes(n)
  PROVE  k \in Int /\ k <= n /\ (n >= 0 => 1 <= k)
<1>1. Pieces \subseteq Nat \ {0}
  BY DeliveryAssumption DEF DeliveryAssumption
<1>2. n # 0 /\ \E j \in Pieces : k = Least(j, n)
  BY DEF Sizes
<1>3. PICK j \in Pieces : k = Least(j, n)
  BY <1>2
<1>4. j \in Nat /\ j # 0
  BY <1>1
<1> QED
  BY <1>2, <1>3, <1>4 DEF Least

(***************************************************************************)
(* Everything that packs touches the file: a package that is being read    *)
(* meanwhile is no longer without a flaw.                                  *)
(***************************************************************************)
LEMMA DisturbedReads ==
  ASSUME ReadInv, Disturb, UNCHANGED <<reading, buffer, size, noted>>,
         whole \subseteq whole'
  PROVE  ReadInv'
<1>1. /\ reading' = reading /\ buffer' = buffer /\ size' = size /\ noted' = noted
      /\ buffer' \in Seq(Byte) /\ size' \in Nat
  BY DEF ReadInv
<1>2. CASE reading \in Ended
  <2>1. flaws' = flaws
    BY <1>2 DEF Disturb
  <2>2. FetchInv' /\ UnpackInv'
    BY <1>1, <1>2 DEF FetchInv, UnpackInv, VerifyInv, SteadyInv, Verifying, Ended, ReadInv
  <2>3. RejectedIsFlawed'
    BY <1>1, <2>1 DEF RejectedIsFlawed, ReadInv
  <2>4. AcceptedAsPacked'
    BY <1>1, <2>1 DEF AcceptedAsPacked, ReadInv
  <2> QED
    BY <1>1, <2>2, <2>3, <2>4 DEF ReadInv
<1>3. CASE reading \notin Ended
  <2>1. flaws' # {} /\ (Verifying => "late" \in flaws') /\ (~ Verifying => "rewrite" \in flaws')
    BY <1>3 DEF Disturb, Verifying
  <2>2. FetchInv' /\ RejectedIsFlawed' /\ AcceptedAsPacked'
    BY <1>1, <1>3, <2>1 DEF FetchInv, RejectedIsFlawed, AcceptedAsPacked, Verifying, Ended
  <2>3. VerifyInv'
    BY <1>1, <2>1 DEF UnpackInv, VerifyInv, Verifying, ArchiveSize, ReadInv
  <2>4. SteadyInv'
    BY <1>1, <2>1 DEF SteadyInv, Verifying
  <2> QED
    BY <1>1, <2>2, <2>3, <2>4 DEF ReadInv, UnpackInv
<1> QED
  BY <1>2, <1>3

(***************************************************************************)
(* The mapping is that of the file, as long as it does not change.         *)
(***************************************************************************)
LEMMA SameMapping ==
  ASSUME file' = file, size' = size
  PROVE  /\ Contents' = Contents /\ Extent' = Extent /\ ArchiveSize' = ArchiveSize
         /\ Verifies(Contents, Version, ReaderOrder)' <=> Verifies(Contents, Version, ReaderOrder)
<1>1. Contents' = Contents /\ Extent' = Extent /\ ArchiveSize' = ArchiveSize
  BY DEF Contents, Mapped, Extent, ArchiveSize
<1> QED
  BY <1>1

(***************************************************************************)
(* What a reader that goes on or not knows, when it touches nothing else.  *)
(***************************************************************************)
LEMMA SteadyReads ==
  ASSUME SteadyInv, file' = file, size' = size, buffer' = buffer, noted' = noted,
         flaws' = flaws, reading' = reading
  PROVE  SteadyInv'
<1>1. /\ Contents' = Contents /\ Extent' = Extent
      /\ Verifies(Contents, Version, ReaderOrder)' <=> Verifies(Contents, Version, ReaderOrder)
  BY SameMapping
<1>2. Trailer(Contents)' = Trailer(Contents) /\ Take(Contents, Len(buffer))' = Take(Contents, Len(buffer))
  BY <1>1
<1> QED
  BY <1>1, <1>2 DEF SteadyInv, Verifying

LEMMA RefuseEmptyReads ==
  ASSUME ReadInv, RefuseEmpty
  PROVE  ReadInv'
<1>1. /\ reading' = reading /\ buffer' = buffer /\ size' = size /\ noted' = noted
      /\ flaws' = flaws /\ file' = file /\ whole' = whole /\ ~ Fit
  BY DEF RefuseEmpty, readVars, Fit
<1>2. FetchInv'
  BY <1>1 DEF FetchInv, ReadInv
<1>3. VerifyInv'
  BY <1>1 DEF VerifyInv, UnpackInv, Verifying, ArchiveSize, ReadInv
<1>4. SteadyInv'
  BY <1>1, SteadyReads DEF UnpackInv, ReadInv
<1> QED
  BY <1>1, <1>2, <1>3, <1>4 DEF ReadInv, UnpackInv, RejectedIsFlawed, AcceptedAsPacked

LEMMA BeginsRead ==
  ASSUME PackInv, NEW how \in {"fetch", "map"}, Begin(how),
         size' = IF how = "fetch" THEN size ELSE Len(file), noted' = noted, ReadInv
  PROVE  ReadInv'
<1>1. /\ reading' = how /\ buffer' = <<>> /\ flaws' = IF Fit THEN {} ELSE {"unfit"}
      /\ file' = file /\ packing' = packing /\ machine' = machine
  BY DEF Begin, packVars
<1>2. Len(file) \in Nat /\ size' \in Nat /\ (how = "map" => size' = Len(file))
  BY DEF PackInv, ReadInv
<1>3. Fit' <=> Fit
  BY <1>1 DEF Fit
<1>4. flaws' \subseteq {"damage"} => Fit' /\ flaws' = {}
  BY <1>1, <1>3
<1>5. Len(buffer') = 0 /\ buffer' \in Seq(Byte)
  BY <1>1
<1>6. Differing' = {}
  BY <1>5 DEF Differing
<1>7. FetchInv'
  BY <1>1, <1>2, <1>4, <1>5, <1>6 DEF FetchInv
<1>8. UnpackInv'
  <2>1. reading = "idle" /\ noted = <<>>
    BY DEF Begin, ReadInv, UnpackInv, VerifyInv
  <2> QED
    BY <1>1, <1>2, <1>4, <1>5, <2>1 DEF UnpackInv, VerifyInv, SteadyInv, Verifying
<1> QED
  BY <1>1, <1>2, <1>5, <1>7, <1>8 DEF ReadInv, RejectedIsFlawed, AcceptedAsPacked

LEMMA StopReads ==
  ASSUME Stop
  PROVE  ReadInv'
<1>1. reading' = "idle" /\ buffer' = <<>> /\ size' = 0 /\ noted' = <<>>
  BY DEF Stop
<1> QED
  BY <1>1 DEF ReadInv, FetchInv, UnpackInv, VerifyInv, SteadyInv, Verifying, RejectedIsFlawed,
              AcceptedAsPacked

(***************************************************************************)
(* What differs after a piece has arrived.                                 *)
(***************************************************************************)
LEMMA PieceDiffers ==
  ASSUME file \in Seq(Byte), buffer \in Seq(Byte), NEW piece \in Seq(Byte),
         buffer' = buffer \o piece, file' = file
  PROVE  /\ buffer' \in Seq(Byte) /\ Len(buffer') = Len(buffer) + Len(piece)
         /\ \A i : i \in Differing' <=>
              \/ i \in Differing
              \/ \E j \in 1 .. Len(piece) : i = Len(buffer) + j /\ piece[j] # file[i]
<1>1. PICK b, L, n : b = buffer' /\ L = Len(buffer) /\ n = Len(piece)
  OBVIOUS
<1>2. L \in Nat /\ n \in Nat
  BY <1>1
<1>3. Joins(b, buffer, L, piece, n)
  BY ONLY <1>1, buffer' = buffer \o piece, buffer \in Seq(Byte), piece \in Seq(Byte), ConcatAt
<1>4. \A i : i \in Differing' <=> i \in 1 .. L + n /\ b[i] # file[i]
  BY <1>1, <1>3 DEF Differing, Joins
<1>5. \A i : i \in Differing <=> i \in 1 .. L /\ buffer[i] # file[i]
  BY <1>1 DEF Differing
<1>6. ASSUME NEW i \in 1 .. L
      PROVE  (i \in Differing' <=> i \in Differing) /\ ~ \E j \in 1 .. n : i = L + j
  <2>1. i \in 1 .. L + n /\ b[i] = buffer[i]
    BY <1>2, <1>3 DEF Joins
  <2> QED
    BY <1>2, <1>4, <1>5, <2>1
<1>7. ASSUME NEW j \in 1 .. n
      PROVE  /\ L + j \in Differing' <=> piece[j] # file[L + j]
             /\ L + j \notin Differing
  <2>1. L + j \in 1 .. L + n /\ L + j \notin 1 .. L
    BY <1>2
  <2>2. b[L + j] = piece[j]
    BY <1>3 DEF Joins
  <2> QED
    BY <1>4, <1>5, <2>1, <2>2
<1>8. \A i : i \in 1 .. L + n <=> i \in 1 .. L \/ \E j \in 1 .. n : i = L + j
  <2>1. ASSUME NEW i \in 1 .. L + n, i \notin 1 .. L
        PROVE  \E j \in 1 .. n : i = L + j
    <3>1. i - L \in 1 .. n /\ i = L + (i - L)
      BY <1>2, <2>1
    <3> QED
      BY <3>1
  <2>2. \A i \in 1 .. L : i \in 1 .. L + n
    BY <1>2
  <2>3. \A j \in 1 .. n : L + j \in 1 .. L + n
    BY <1>2
  <2> QED
    BY <2>1, <2>2, <2>3
<1>9. ASSUME NEW i
      PROVE  i \in Differing' <=>
               \/ i \in Differing
               \/ \E j \in 1 .. n : i = L + j /\ piece[j] # file[i]
  <2>1. CASE i \in 1 .. L
    BY <1>6, <2>1
  <2>2. CASE i \notin 1 .. L
    BY <1>4, <1>5, <1>7, <1>8, <2>2
  <2> QED
    BY <2>1, <2>2
<1> QED
  BY <1>1, <1>3, <1>9 DEF Joins

LEMMA ReceiveReads ==
  ASSUME PackInv, ReadInv, Receive
  PROVE  ReadInv'
<1>1. /\ file \in Seq(Byte) /\ buffer \in Seq(Byte) /\ size \in Nat
      /\ reading = "fetch" /\ reading' = "fetch" /\ file' = file /\ size' = size
      /\ packing' = packing /\ machine' = machine /\ noted' = noted
  BY DEF PackInv, ReadInv, Receive, packVars
<1>2. PICK F, L : F = Len(file) /\ L = Len(buffer)
  OBVIOUS
<1>3. F \in Nat /\ L \in Nat
  BY <1>1, <1>2
<1>4. PICK n \in Sizes(F - L) :
        LET piece == SubSeq(file, L + 1, L + n) IN
        \/ buffer' = buffer \o piece /\ UNCHANGED flaws
        \/ /\ "damage" \in Faults \ flaws
           /\ \E i \in 1 .. n, bit \in Bits :
                buffer' = buffer \o [piece EXCEPT ![i] = Xor(@, {bit})]
           /\ flaws' = flaws \cup {"damage"}
  BY <1>2 DEF Receive
<1>5. n \in Int /\ n <= F - L /\ (F - L >= 0 => 1 <= n)
  <2>1. F - L \in Int
    BY <1>3
  <2> QED
    BY <2>1, SizesBound
<1>6. PICK piece : piece = SubSeq(file, L + 1, L + n)
  OBVIOUS
<1>7. /\ piece \in Seq(Byte) /\ Len(piece) = IF 1 <= n THEN n ELSE 0
      /\ \A i \in 1 .. n : piece[i] = file[L + i] /\ piece[i] \in Byte
  <2>1. \A i \in L + 1 .. L + n : file[i] \in Byte
    <3>1. \A i \in L + 1 .. L + n : i \in 1 .. F
      BY <1>3, <1>5
    <3> QED
      BY <1>1, <1>2, <3>1, ElementOfSeq
  <2>2. PICK m, k : m = L + 1 /\ k = L + n
    OBVIOUS
  <2>3. m \in Int /\ k \in Int /\ \A i \in m .. k : file[i] \in Byte
    BY <1>3, <1>5, <2>1, <2>2
  <2>4. /\ SubSeq(file, m, k) \in Seq(Byte)
        /\ Len(SubSeq(file, m, k)) = IF m <= k THEN k - m + 1 ELSE 0
        /\ \A i \in 1 .. k - m + 1 : SubSeq(file, m, k)[i] = file[m + i - 1]
    BY ONLY <2>3, SubSeqProperties
  <2>5. piece = SubSeq(file, m, k)
    BY <1>6, <2>2
  <2>6. /\ k - m + 1 = n /\ (m <= k <=> 1 <= n)
        /\ \A i \in 1 .. n : m + i - 1 = L + i /\ L + i \in L + 1 .. L + n
    BY <1>3, <1>5, <2>2
  <2> QED
    BY <2>1, <2>4, <2>5, <2>6
<1>8. Fit' <=> Fit
  BY <1>1 DEF Fit
<1>9. flaws \subseteq {"damage"} =>
        /\ Fit /\ L <= F
        /\ IF flaws = {} THEN Differing = {} ELSE \E p \in 1 .. L : Differing = {p}
  BY <1>1, <1>2 DEF ReadInv, FetchInv
<1>10. buffer' \in Seq(Byte) /\ FetchInv'
  <2>1. CASE buffer' = buffer \o piece /\ flaws' = flaws
    <3>1. /\ buffer' \in Seq(Byte) /\ Len(buffer') = L + Len(piece)
          /\ \A i : i \in Differing' <=>
               \/ i \in Differing
               \/ \E j \in 1 .. Len(piece) : i = L + j /\ piece[j] # file[i]
      <4>1. piece \in Seq(Byte)
        BY <1>7
      <4> QED
        BY <1>1, <1>2, <2>1, <4>1, PieceDiffers
    <3>2. ASSUME NEW j \in 1 .. Len(piece)
          PROVE  piece[j] = file[L + j]
      BY <1>5, <1>7
    <3>3. Differing' = Differing
      <4>1. \A i : i \in Differing' <=> i \in Differing
        BY <3>1, <3>2
      <4>2. Differing' \subseteq Differing /\ Differing \subseteq Differing'
        BY <4>1
      <4> QED
        BY <4>2
    <3>4. ASSUME flaws \subseteq {"damage"}
          PROVE  Len(buffer') = L + n /\ L + n <= F /\ 1 .. L \subseteq 1 .. L + n
      BY <1>3, <1>5, <1>7, <1>9, <3>1, <3>4
    <3>5. FetchInv'
      <4> SUFFICES ASSUME flaws \subseteq {"damage"}
                   PROVE  /\ Fit' /\ Len(buffer') <= Len(file')
                          /\ IF flaws = {} THEN Differing' = {}
                             ELSE \E p \in 1 .. Len(buffer') : Differing' = {p}
        BY <1>1, <2>1 DEF FetchInv
      <4> QED
        BY <1>1, <1>2, <1>8, <1>9, <3>3, <3>4
    <3> QED
      BY <3>1, <3>5
  <2>2. ASSUME NEW i \in 1 .. n, NEW bit \in Bits, "damage" \notin flaws,
               flaws' = flaws \cup {"damage"},
               buffer' = buffer \o [piece EXCEPT ![i] = Xor(@, {bit})]
        PROVE  buffer' \in Seq(Byte) /\ FetchInv'
    <3>1. PICK byte, got : byte = Xor(piece[i], {bit}) /\ got = [piece EXCEPT ![i] = byte]
      OBVIOUS
    <3>2. 1 <= n /\ Len(piece) = n /\ piece[i] \in Byte /\ piece[i] = file[L + i]
      BY <1>5, <1>7
    <3>3. byte \in Byte /\ byte # piece[i]
      <4>1. bit \in 0 .. 7
        BY DeliveryAssumption DEF DeliveryAssumption
      <4>2. bit \in byte <=> bit \notin piece[i]
        BY <3>1 DEF Xor
      <4>3. {bit} \in Byte
        BY <4>1 DEF Byte
      <4> QED
        BY <3>1, <3>2, <4>2, <4>3, XorTypes
    <3>4. /\ got \in Seq(Byte) /\ Len(got) = n
          /\ \A j \in 1 .. n : got[j] = IF j = i THEN byte ELSE piece[j]
      BY <1>7, <3>1, <3>2, <3>3, ExceptSeq
    <3>5. /\ buffer' \in Seq(Byte) /\ Len(buffer') = L + n
          /\ \A k : k \in Differing' <=>
               \/ k \in Differing
               \/ \E j \in 1 .. n : k = L + j /\ got[j] # file[k]
      <4>1. buffer' = buffer \o got
        BY <2>2, <3>1
      <4>2. /\ buffer' \in Seq(Byte) /\ Len(buffer') = L + Len(got)
            /\ \A k : k \in Differing' <=>
                 \/ k \in Differing
                 \/ \E j \in 1 .. Len(got) : k = L + j /\ got[j] # file[k]
        <5>1. /\ file \in Seq(Byte) /\ buffer \in Seq(Byte) /\ got \in Seq(Byte)
              /\ buffer' = buffer \o got /\ file' = file /\ L = Len(buffer)
          BY <1>1, <1>2, <3>4, <4>1
        <5> QED
          BY ONLY <5>1, PieceDiffers
      <4> QED
        BY <3>4, <4>2
    <3>6. ASSUME NEW j \in 1 .. n
          PROVE  got[j] # file[L + j] <=> j = i
      BY <1>7, <3>2, <3>3, <3>4
    <3>7. ASSUME flaws' \subseteq {"damage"}
          PROVE  Fit' /\ Len(buffer') <= Len(file') /\ L + i \in 1 .. Len(buffer') /\ Differing' = {L + i}
      <4>1. flaws = {}
        BY <2>2, <3>7
      <4>2. Fit /\ L <= F /\ Differing = {}
        BY <1>9, <4>1
      <4>3. \A k : k \in Differing' <=> k = L + i
        BY <3>5, <3>6, <4>2
      <4>4. Differing' = {L + i}
        BY <4>3
      <4>5. L + i \in 1 .. L + n /\ L + n <= F
        BY <1>3, <1>5
      <4> QED
        BY <1>1, <1>2, <1>8, <3>5, <4>2, <4>4, <4>5
    <3>8. flaws' # {}
      BY <2>2
    <3> QED
      BY <1>1, <3>5, <3>7, <3>8 DEF FetchInv
  <2> QED
    BY <1>4, <1>6, <2>1, <2>2
<1> QED
  BY <1>1, <1>10 DEF ReadInv, UnpackInv, VerifyInv, SteadyInv, Verifying, RejectedIsFlawed,
                     AcceptedAsPacked

LEMMA TransferEndsReads ==
  ASSUME PackInv, ReadInv, TransferEnds
  PROVE  ReadInv'
<1>1. /\ reading = "fetch" /\ reading' = "check" /\ file' = file /\ buffer' = buffer /\ size' = size
      /\ packing' = packing /\ machine' = machine /\ noted' = noted
  BY DEF TransferEnds, packVars
<1>2. Fit' = Fit /\ Differing' = Differing
  BY <1>1 DEF Fit, Differing
<1>3. FetchInv'
  <2> SUFFICES ASSUME flaws' \subseteq {"damage"}
               PROVE  /\ Fit /\ Len(buffer) = Len(file)
                      /\ IF flaws' = {} THEN Differing = {} ELSE \E p \in 1 .. Len(buffer) : Differing = {p}
    <3>1. Len(file) \in Nat
      BY DEF PackInv
    <3> QED
      BY <1>1, <1>2, <3>1 DEF FetchInv
  <2>1. flaws' = flaws /\ Len(buffer) >= Len(file)
    BY DEF TransferEnds
  <2>2. Fit /\ Len(buffer) <= Len(file)
        /\ IF flaws = {} THEN Differing = {} ELSE \E p \in 1 .. Len(buffer) : Differing = {p}
    BY <1>1, <2>1 DEF ReadInv, FetchInv
  <2>3. Len(buffer) \in Nat /\ Len(file) \in Nat
    BY DEF ReadInv, PackInv
  <2> QED
    BY <2>1, <2>2, <2>3
<1> QED
  BY <1>1, <1>3 DEF ReadInv, UnpackInv, VerifyInv, SteadyInv, Verifying, RejectedIsFlawed,
                    AcceptedAsPacked

(***************************************************************************)
(* A fit package is the one the reader knows, and it was completed.        *)
(***************************************************************************)
LEMMA FitIsPackage ==
  ASSUME PackInv, Fit
  PROVE  /\ source \in Seq(Byte) /\ source # <<>> /\ Version \in Byte /\ ReaderOrder \in Orders
         /\ file \in Seq(Byte) /\ file = Package(source, Version, ReaderOrder)
         /\ Opens(file) /\ Verifies(file, Version, ReaderOrder)
         /\ \E w \in whole : w.archive = source /\ w.version = Version /\ w.order = ReaderOrder
<1>1. /\ source \in Seq(Byte) /\ source # <<>> /\ Version \in Byte /\ ReaderOrder \in Orders
      /\ file \in Seq(Byte) /\ file = Package(source, Version, ReaderOrder)
  BY DeliveryAssumption DEF DeliveryAssumption, PackInv, Fit, DoneIsPackage
<1>2. Opens(file) /\ Verifies(file, Version, ReaderOrder)
  BY <1>1, PackageVerifies
<1>3. /\ Completed \in whole /\ Completed.archive = source
      /\ Completed.version = Version /\ Completed.order = ReaderOrder
  <2>1. Completed \in whole /\ machine = [version |-> Version, order |-> ReaderOrder]
    BY DEF PackInv, Fit
  <2> QED
    BY <2>1 DEF Completed
<1> QED
  BY <1>1, <1>2, <1>3

LEMMA CheckReads ==
  ASSUME PackInv, ReadInv, Check
  PROVE  ReadInv'
<1>1. /\ reading = "check" /\ buffer' = buffer /\ size' = size /\ flaws' = flaws /\ whole' = whole
      /\ noted' = <<>>
      /\ reading' = IF Opens(buffer) /\ Verifies(buffer, Version, ReaderOrder)
                    THEN "accepted" ELSE "rejected"
      /\ buffer \in Seq(Byte) /\ size \in Nat
  BY DEF Check, ReadInv, UnpackInv, VerifyInv
<1> UnpackInv'
  BY <1>1 DEF UnpackInv, VerifyInv, SteadyInv, Verifying
<1>2. CASE ~(flaws \subseteq {"damage"})
  BY <1>1, <1>2 DEF ReadInv, FetchInv, RejectedIsFlawed, AcceptedAsPacked
<1>3. CASE flaws \subseteq {"damage"}
  <2>1. Fit /\ Len(buffer) = Len(file)
    BY <1>1, <1>3 DEF ReadInv, FetchInv
  <2>2. /\ source \in Seq(Byte) /\ source # <<>> /\ Version \in Byte /\ ReaderOrder \in Orders
        /\ file \in Seq(Byte) /\ file = Package(source, Version, ReaderOrder)
        /\ Opens(file) /\ Verifies(file, Version, ReaderOrder)
        /\ \E w \in whole : w.archive = source /\ w.version = Version /\ w.order = ReaderOrder
    BY <2>1, FitIsPackage
  <2>3. CASE flaws = {}
    <3>1. \A i \in 1 .. Len(buffer) : buffer[i] = file[i]
      BY <1>1, <2>3 DEF ReadInv, FetchInv, Differing
    <3>2. buffer = file
      BY <1>1, <2>1, <2>2, <3>1, SeqEqual
    <3>3. reading' = "accepted"
      BY <1>1, <2>2, <3>2
    <3>4. AcceptedAsPacked'
      BY <1>1, <2>2, <3>2 DEF AcceptedAsPacked
    <3> QED
      BY <1>1, <3>3, <3>4 DEF ReadInv, FetchInv, RejectedIsFlawed
  <2>4. CASE flaws # {}
    <3>1. PICK p \in 1 .. Len(buffer) : Differing = {p}
      BY <1>1, <1>3, <2>4 DEF ReadInv, FetchInv
    <3>2. \A i \in 1 .. Len(buffer) : buffer[i] # file[i] <=> i = p
      <4>1. \A i : i \in Differing <=> i = p
        BY <3>1
      <4> QED
        BY <4>1 DEF Differing
    <3>3. ~ Verifies(buffer, Version, ReaderOrder)
      BY <1>1, <2>1, <2>2, <3>2, DamageIsNoticed
    <3>4. reading' = "rejected"
      BY <1>1, <3>3
    <3> QED
      BY <1>1, <2>4, <3>4 DEF ReadInv, FetchInv, RejectedIsFlawed, AcceptedAsPacked
  <2> QED
    BY <2>3, <2>4
<1> QED
  BY <1>2, <1>3

-----------------------------------------------------------------------------
(* Unpacking: what is mapped is the file as long as it does not change. *)

LEMMA ExtentCovers ==
  ASSUME PackInv
  PROVE  Len(file) <= Extent /\ Extent \in Int
<1>1. PICK L : L = Len(file)
  OBVIOUS
<1>2. L \in Nat /\ Page \in Nat \ {0}
  BY <1>1, DeliveryAssumption DEF DeliveryAssumption, PackInv
<1>3. L <= Page * ((L + Page - 1) \div Page) /\ Page * ((L + Page - 1) \div Page) \in Int
  BY <1>2
<1> QED
  BY <1>1, <1>3 DEF Extent

LEMMA MappedType ==
  ASSUME PackInv, NEW i \in Nat, 1 <= i
  PROVE  Mapped(i) \in Byte
<1>1. file \in Seq(Byte) /\ Len(file) \in Nat
  BY DEF PackInv
<1>2. CASE i <= Len(file)
  <2>1. i \in 1 .. Len(file)
    BY <1>1, <1>2
  <2> QED
    BY <1>1, <1>2, <2>1, ElementOfSeq DEF Mapped
<1>3. CASE ~(i <= Len(file))
  BY <1>3 DEF Mapped, Byte
<1> QED
  BY <1>2, <1>3

LEMMA ContentsShape ==
  ASSUME PackInv, size \in Nat
  PROVE  /\ Contents \in Seq(Byte) /\ Len(Contents) = size
         /\ \A i \in 1 .. size : Contents[i] = Mapped(i)
<1>1. \A i \in 1 .. size : Mapped(i) \in Byte
  BY MappedType
<1>2. Contents \in [1 .. size -> Byte]
  BY <1>1 DEF Contents
<1> QED
  BY <1>2 DEF Contents

LEMMA ContentsIsFile ==
  ASSUME PackInv, size = Len(file)
  PROVE  Contents = file
<1>1. file \in Seq(Byte) /\ size \in Nat
  BY DEF PackInv
<1>2. /\ Contents \in Seq(Byte) /\ Len(Contents) = size
      /\ \A i \in 1 .. size : Contents[i] = Mapped(i)
  BY <1>1, ContentsShape
<1>3. \A i \in 1 .. size : Contents[i] = file[i]
  BY <1>1, <1>2 DEF Mapped
<1> QED
  BY <1>1, <1>2, <1>3, SeqEqual

LEMMA MapFailsReads ==
  ASSUME PackInv, ReadInv, MapFails
  PROVE  ReadInv'
<1>1. /\ reading = "map" /\ reading' = "rejected" /\ buffer' = buffer /\ size' = size
      /\ flaws' = flaws /\ ~ Opens(Contents) /\ buffer \in Seq(Byte) /\ size \in Nat
      /\ noted' = <<>>
  BY DEF MapFails, ReadInv, UnpackInv, VerifyInv
<1>2. flaws # {}
  <2> SUFFICES ASSUME flaws = {}
               PROVE  FALSE
    OBVIOUS
  <2>1. Fit /\ size = Len(file)
    BY <1>1 DEF ReadInv, UnpackInv, VerifyInv
  <2> QED
    BY <1>1, <2>1, FitIsPackage, ContentsIsFile
<1> QED
  BY <1>1, <1>2 DEF ReadInv, FetchInv, UnpackInv, VerifyInv, SteadyInv, Verifying, RejectedIsFlawed,
                   AcceptedAsPacked

(***************************************************************************)
(* One piece more of what is mapped.                                       *)
(***************************************************************************)
LEMMA PieceIsMapped ==
  ASSUME PackInv, size \in Nat, buffer \in Seq(Byte), NEW n \in Nat,
         Len(buffer) + n <= size,
         buffer' = buffer \o [i \in 1 .. n |-> Mapped(Len(buffer) + i)]
  PROVE  /\ buffer' \in Seq(Byte) /\ Len(buffer') = Len(buffer) + n
         /\ buffer = Take(Contents, Len(buffer)) => buffer' = Take(Contents, Len(buffer) + n)
<1>1. PICK b, L, piece : /\ b = buffer' /\ L = Len(buffer)
                         /\ piece = [i \in 1 .. n |-> Mapped(Len(buffer) + i)]
  OBVIOUS
<1>2. L \in Nat
  BY <1>1
<1>3. /\ piece \in Seq(Byte) /\ n = Len(piece)
      /\ \A i \in 1 .. n : piece[i] = Mapped(L + i)
  <2>1. \A i \in 1 .. n : Mapped(L + i) \in Byte
    BY <1>2, MappedType
  <2>2. piece = [i \in 1 .. n |-> Mapped(L + i)]
    BY <1>1
  <2>3. piece \in [1 .. n -> Byte]
    BY <2>1, <2>2
  <2>4. piece \in Seq(Byte) /\ Len(piece) = n
    BY <2>3
  <2> QED
    BY <2>2, <2>4
<1>4. Joins(b, buffer, L, piece, n)
  <2>1. b = buffer \o piece
    BY <1>1
  <2> QED
    BY ONLY <1>1, <1>3, <2>1, ConcatAt, buffer \in Seq(Byte)
<1>5. b \in Seq(Byte) /\ Len(b) = L + n
  BY <1>4 DEF Joins
<1>6. ASSUME buffer = Take(Contents, L)
      PROVE  b = Take(Contents, L + n)
  <2>1. PICK c : c = Contents
    OBVIOUS
  <2>2. c \in Seq(Byte) /\ Len(c) = size /\ \A i \in 1 .. size : c[i] = Mapped(i)
    BY <2>1, ContentsShape
  <2>3. /\ Take(c, L + n) \in Seq(Byte) /\ Len(Take(c, L + n)) = L + n
        /\ \A i \in 1 .. L + n : Take(c, L + n)[i] = c[i]
    <3>1. PICK m : m = L + n
      OBVIOUS
    <3>2. m \in Nat /\ m <= Len(c)
      BY <1>1, <1>2, <2>2, <3>1
    <3>3. /\ Take(c, m) \in Seq(Byte) /\ Len(Take(c, m)) = m
          /\ \A i \in 1 .. m : Take(c, m)[i] = c[i]
      BY ONLY <2>2, <3>2, Cutting
    <3> QED
      BY <3>1, <3>3
  <2>4. \A i \in 1 .. L : buffer[i] = c[i]
    <3>1. L <= Len(c)
      BY <1>1, <1>2, <2>2
    <3>2. \A i \in 1 .. L : Take(c, L)[i] = c[i]
      BY ONLY <1>2, <2>2, <3>1, Cutting
    <3> QED
      BY <1>6, <2>1, <3>2
  <2>5. ASSUME NEW i \in 1 .. L + n
        PROVE  b[i] = c[i]
    <3>1. CASE i \in 1 .. L
      BY <1>4, <2>4, <3>1 DEF Joins
    <3>2. CASE i \notin 1 .. L
      <4>1. i - L \in 1 .. n /\ i = L + (i - L) /\ i \in 1 .. size
        BY <1>1, <1>2, <3>2
      <4>2. b[L + (i - L)] = piece[i - L]
        BY <1>4, <4>1 DEF Joins
      <4>3. piece[i - L] = Mapped(L + (i - L))
        BY <1>3, <4>1
      <4> QED
        BY <2>2, <4>1, <4>2, <4>3
    <3> QED
      BY <3>1, <3>2
  <2>6. b = Take(c, L + n)
    BY <1>5, <2>3, <2>5, SeqEqual
  <2> QED
    BY <2>1, <2>6
<1> QED
  BY <1>1, <1>5, <1>6

LEMMA PieceRead ==
  ASSUME PackInv, size \in Nat, buffer \in Seq(Byte), Len(buffer) <= ArchiveSize, ReadPiece
  PROVE  /\ buffer' \in Seq(Byte) /\ Len(buffer') <= ArchiveSize
         /\ buffer = Take(Contents, Len(buffer)) => buffer' = Take(Contents, Len(buffer'))
         /\ reading' = IF Len(buffer') <= Extent THEN reading ELSE "killed"
<1>1. PICK n \in Sizes(ArchiveSize - Len(buffer)) :
        /\ buffer' = buffer \o [i \in 1 .. n |-> Mapped(Len(buffer) + i)]
        /\ After(Len(buffer'), reading)
  BY DEF ReadPiece
<1>2. PICK L : L = Len(buffer)
  OBVIOUS
<1>3. L \in Nat /\ ArchiveSize = size - 9 /\ L <= size - 9
  BY <1>2 DEF ArchiveSize, HeaderSize
<1>4. n \in Nat /\ L + n <= size - 9
  <2>1. size - 9 - L \in Nat /\ n \in Sizes(size - 9 - L)
    BY <1>1, <1>2, <1>3
  <2>2. n \in Nat /\ n <= size - 9 - L
    BY <2>1, SizesType
  <2> QED
    BY <1>3, <2>2
<1>5. Len(buffer) + n <= size
  BY <1>2, <1>3, <1>4
<1>6. /\ buffer' \in Seq(Byte) /\ Len(buffer') = Len(buffer) + n
      /\ buffer = Take(Contents, Len(buffer)) => buffer' = Take(Contents, Len(buffer) + n)
  BY <1>1, <1>4, <1>5, PieceIsMapped
<1> QED
  BY <1>1, <1>2, <1>3, <1>4, <1>6 DEF After

(***************************************************************************)
(* A file that is fit and has not changed is mapped whole, and verifies.   *)
(***************************************************************************)
LEMMA FitVerifies ==
  ASSUME PackInv, Fit, size = Len(file)
  PROVE  size <= Extent /\ Verifies(Contents, Version, ReaderOrder)
BY FitIsPackage, ContentsIsFile, ExtentCovers

LEMMA NothingTaken ==
  ASSUME PackInv, size \in Nat
  PROVE  Take(Contents, 0) = <<>>
<1>1. Contents \in Seq(Byte)
  BY ContentsShape
<1> QED
  BY <1>1, SubSeqEmpty DEF Take

LEMMA MagicReads ==
  ASSUME PackInv, ReadInv, ReadMagic
  PROVE  ReadInv'
<1>1. /\ reading = "map" /\ buffer' = buffer /\ buffer = <<>> /\ size' = size /\ size \in Nat
      /\ noted' = noted /\ noted = <<>> /\ flaws' = flaws /\ file' = file /\ Opens(Contents)
      /\ packing' = packing /\ machine' = machine
      /\ reading' = IF size - 5 <= Extent
                    THEN IF SubSeq(Trailer(Contents), 1, 4) = Magic THEN "version" ELSE "rejected"
                    ELSE "killed"
  BY DEF ReadMagic, Opened, After, ReadInv, UnpackInv, VerifyInv, packVars
<1>2. Extent \in Int
  BY ExtentCovers
<1>3. flaws = {} => reading' = "version"
  <2> SUFFICES ASSUME flaws = {}
               PROVE  reading' = "version"
    OBVIOUS
  <2>1. Fit /\ size = Len(file)
    BY <1>1 DEF ReadInv, UnpackInv, VerifyInv
  <2>2. size <= Extent /\ Verifies(Contents, Version, ReaderOrder)
    BY <2>1, FitVerifies
  <2>3. size - 5 <= Extent
    BY <1>1, <1>2, <2>2
  <2> QED
    BY <1>1, <2>2, <2>3 DEF Verifies
<1>4. size > HeaderSize /\ Len(buffer) <= ArchiveSize
  <2>1. Len(Contents) = size
    BY <1>1, ContentsShape
  <2> QED
    BY <1>1, <2>1 DEF Opens, ArchiveSize, HeaderSize
<1>5. /\ Contents' = Contents /\ Extent' = Extent /\ ArchiveSize' = ArchiveSize
      /\ (Fit' <=> Fit)
  BY <1>1, SameMapping DEF Fit
<1>6. VerifyInv'
  BY <1>1, <1>4, <1>5 DEF VerifyInv, Verifying, ReadInv, UnpackInv
<1>7. SteadyInv'
  <2>1. buffer = Take(Contents, Len(buffer))
    BY <1>1, NothingTaken
  <2>2. Trailer(Contents)' = Trailer(Contents) /\ Take(Contents, Len(buffer))' = Take(Contents, Len(buffer))
    BY <1>1, <1>5
  <2> QED
    BY <1>1, <1>5, <2>1, <2>2 DEF SteadyInv, Verifying
<1> QED
  BY <1>1, <1>3, <1>6, <1>7 DEF ReadInv, UnpackInv, FetchInv, RejectedIsFlawed, AcceptedAsPacked

LEMMA VersionReads ==
  ASSUME PackInv, ReadInv, ReadVersion
  PROVE  ReadInv'
<1>1. /\ reading = "version" /\ buffer' = buffer /\ size' = size /\ size \in Nat
      /\ noted' = noted /\ noted = <<>> /\ flaws' = flaws /\ file' = file
      /\ packing' = packing /\ machine' = machine
      /\ reading' = IF size - 4 <= Extent
                    THEN IF Trailer(Contents)[5] = Version THEN "sum" ELSE "rejected"
                    ELSE "killed"
  BY DEF ReadVersion, After, ReadInv, UnpackInv, VerifyInv, packVars
<1>2. Extent \in Int
  BY ExtentCovers
<1>3. flaws = {} => reading' = "sum"
  <2> SUFFICES ASSUME flaws = {}
               PROVE  reading' = "sum"
    OBVIOUS
  <2>1. Fit /\ size = Len(file)
    BY <1>1 DEF ReadInv, UnpackInv, VerifyInv
  <2>2. size <= Extent /\ Verifies(Contents, Version, ReaderOrder)
    BY <2>1, FitVerifies
  <2>3. size - 4 <= Extent
    BY <1>1, <1>2, <2>2
  <2> QED
    BY <1>1, <2>2, <2>3 DEF Verifies
<1>4. /\ Contents' = Contents /\ Extent' = Extent /\ ArchiveSize' = ArchiveSize
      /\ (Fit' <=> Fit)
  BY <1>1, SameMapping DEF Fit
<1>5. VerifyInv'
  BY <1>1, <1>4 DEF VerifyInv, Verifying, ReadInv, UnpackInv
<1>6. SteadyInv'
  <2>1. Trailer(Contents)' = Trailer(Contents) /\ Take(Contents, Len(buffer))' = Take(Contents, Len(buffer))
    BY <1>1, <1>4
  <2> QED
    BY <1>1, <1>4, <2>1 DEF SteadyInv, Verifying, ReadInv, UnpackInv
<1> QED
  BY <1>1, <1>3, <1>5, <1>6 DEF ReadInv, UnpackInv, FetchInv, RejectedIsFlawed, AcceptedAsPacked

LEMMA ChecksumReads ==
  ASSUME PackInv, ReadInv, ReadChecksum
  PROVE  ReadInv'
<1>1. /\ reading = "sum" /\ buffer' = buffer /\ size' = size /\ size \in Nat
      /\ noted' = SubSeq(Trailer(Contents), 6, 9) /\ flaws' = flaws /\ file' = file
      /\ packing' = packing /\ machine' = machine
      /\ reading' = IF size <= Extent THEN "sum" ELSE "killed"
  BY DEF ReadChecksum, After, ReadInv, packVars
<1>2. flaws = {} => reading' = "sum"
  BY <1>1, FitVerifies DEF ReadInv, UnpackInv, VerifyInv
<1>3. /\ Contents' = Contents /\ Extent' = Extent /\ ArchiveSize' = ArchiveSize
      /\ (Fit' <=> Fit)
  BY <1>1, SameMapping DEF Fit
<1>4. VerifyInv'
  BY <1>1, <1>3 DEF VerifyInv, Verifying, ReadInv, UnpackInv
<1>5. SteadyInv'
  <2>1. Trailer(Contents)' = Trailer(Contents) /\ Take(Contents, Len(buffer))' = Take(Contents, Len(buffer))
    BY <1>1, <1>3
  <2> QED
    BY <1>1, <1>3, <2>1 DEF SteadyInv, Verifying, ReadInv, UnpackInv
<1> QED
  BY <1>1, <1>2, <1>4, <1>5 DEF ReadInv, UnpackInv, FetchInv, RejectedIsFlawed, AcceptedAsPacked

(***************************************************************************)
(* One piece more for the checksum, or for libarchive: what is read is     *)
(* what is mapped.                                                         *)
(***************************************************************************)
LEMMA PieceReads ==
  ASSUME PackInv, ReadInv, SumPiece \/ Extract
  PROVE  ReadInv'
<1>1. /\ reading \in {"sum", "extract"} /\ buffer \in Seq(Byte) /\ size' = size /\ size \in Nat
      /\ noted' = noted /\ flaws \subseteq flaws' /\ (reading = "sum" => flaws' = flaws)
      /\ file' = file /\ packing' = packing /\ machine' = machine /\ ReadPiece
      /\ size > HeaderSize /\ Len(buffer) <= ArchiveSize
  BY DEF SumPiece, Extract, ReadInv, UnpackInv, VerifyInv, Verifying, packVars
<1>2. /\ buffer' \in Seq(Byte) /\ Len(buffer') <= ArchiveSize
      /\ buffer = Take(Contents, Len(buffer)) => buffer' = Take(Contents, Len(buffer'))
      /\ reading' = IF Len(buffer') <= Extent THEN reading ELSE "killed"
  BY <1>1, PieceRead
<1>3. /\ Contents' = Contents /\ Extent' = Extent /\ ArchiveSize' = ArchiveSize
      /\ (Verifies(Contents, Version, ReaderOrder)' <=> Verifies(Contents, Version, ReaderOrder))
      /\ (Fit' <=> Fit)
  BY <1>1, SameMapping DEF Fit
<1>4. flaws = {} => reading' = reading
  <2> SUFFICES ASSUME flaws = {}
               PROVE  reading' = reading
    OBVIOUS
  <2>1. size <= Extent
    <3>1. CASE reading = "sum"
      BY <3>1, FitVerifies DEF ReadInv, UnpackInv, VerifyInv
    <3>2. CASE reading = "extract"
      BY <3>2 DEF ReadInv, UnpackInv, SteadyInv, Verifying
    <3> QED
      BY <1>1, <3>1, <3>2
  <2>2. Len(buffer') <= Extent
    <3>1. PICK b : b = Len(buffer')
      OBVIOUS
    <3>2. b \in Nat /\ b <= size - 9 /\ Extent \in Int
      BY <1>2, <3>1, ExtentCovers DEF ArchiveSize, HeaderSize
    <3> QED
      BY <1>1, <2>1, <3>1, <3>2
  <2> QED
    BY <1>2, <2>2
<1>5. VerifyInv'
  BY <1>1, <1>2, <1>3 DEF VerifyInv, Verifying, ReadInv, UnpackInv
<1>6. SteadyInv'
  <2>1. Trailer(Contents)' = Trailer(Contents) /\ Take(Contents, Len(buffer))' = Take(Contents, Len(buffer'))
    BY <1>3
  <2> QED
    BY <1>1, <1>2, <1>3, <2>1 DEF SteadyInv, Verifying, ReadInv, UnpackInv
<1>7. RejectedIsFlawed'
  BY <1>1, <1>2, <1>4 DEF RejectedIsFlawed
<1> QED
  BY <1>1, <1>2, <1>5, <1>6, <1>7 DEF ReadInv, UnpackInv, FetchInv, AcceptedAsPacked

(***************************************************************************)
(* The comparison decides as package_verify would on the mapping as it is. *)
(***************************************************************************)
LEMMA CompareReads ==
  ASSUME PackInv, ReadInv, Compare
  PROVE  /\ ReadInv'
         /\ "late" \notin flaws =>
              (reading' = "extract" <=> Verifies(Contents, Version, ReaderOrder))
<1>1. /\ reading = "sum" /\ noted # <<>> /\ Len(buffer) = ArchiveSize /\ size' = size
      /\ size \in Nat /\ buffer \in Seq(Byte) /\ buffer' = <<>> /\ noted' = <<>>
      /\ file' = file /\ packing' = packing /\ machine' = machine
      /\ size > HeaderSize
  BY DEF Compare, ReadInv, UnpackInv, VerifyInv, Verifying, packVars
<1>2. \/ /\ noted = Bytes(Crc32({}, buffer), ReaderOrder)
         /\ reading' = "extract" /\ flaws' = flaws \cap {"late"}
      \/ /\ noted # Bytes(Crc32({}, buffer), ReaderOrder)
         /\ reading' = "rejected" /\ flaws' = flaws
  BY DEF Compare
<1>3. ASSUME "late" \notin flaws
      PROVE  /\ size <= Extent
             /\ reading' = "extract" <=> Verifies(Contents, Version, ReaderOrder)
  <2>1. /\ SubSeq(Trailer(Contents), 1, 4) = Magic /\ Trailer(Contents)[5] = Version
        /\ size <= Extent /\ noted = SubSeq(Trailer(Contents), 6, 9)
        /\ buffer = Take(Contents, Len(buffer))
    BY <1>1, <1>3 DEF ReadInv, UnpackInv, SteadyInv, Verifying
  <2>2. buffer = Archive(Contents)
    <3>1. Len(Contents) = size
      BY <1>1, ContentsShape
    <3> QED
      BY <1>1, <2>1, <3>1 DEF Archive, Take, ArchiveSize
  <2> QED
    BY <1>2, <2>1, <2>2 DEF Verifies
<1>4. flaws = {} => reading' = "extract"
  <2> SUFFICES ASSUME flaws = {}
               PROVE  reading' = "extract"
    OBVIOUS
  <2>1. Fit /\ size = Len(file)
    BY <1>1 DEF ReadInv, UnpackInv, VerifyInv
  <2> QED
    BY <1>3, <2>1, FitVerifies
<1>5. /\ Contents' = Contents /\ Extent' = Extent /\ ArchiveSize' = ArchiveSize
      /\ (Verifies(Contents, Version, ReaderOrder)' <=> Verifies(Contents, Version, ReaderOrder))
  BY <1>1, SameMapping
<1>6. VerifyInv'
  <2>1. Len(buffer') <= ArchiveSize
    BY <1>1
  <2> QED
    BY <1>1, <1>2, <1>5, <2>1 DEF VerifyInv, Verifying
<1>7. SteadyInv'
  <2> SUFFICES ASSUME reading' = "extract", "late" \notin flaws'
               PROVE  SteadyInv'
    BY <1>2 DEF SteadyInv, Verifying
  <2>1. size <= Extent /\ Verifies(Contents, Version, ReaderOrder)
    BY <1>2, <1>3
  <2>2. /\ SubSeq(Trailer(Contents), 1, 4) = Magic /\ Trailer(Contents)[5] = Version
    BY <2>1 DEF Verifies
  <2>3. Take(Contents, Len(buffer))' = <<>> /\ Trailer(Contents)' = Trailer(Contents)
    <3>1. Take(Contents', Len(buffer')) = Take(Contents, 0)
      BY <1>1, <1>5
    <3> QED
      BY <1>1, <1>5, <3>1, NothingTaken
  <2> QED
    BY <1>1, <1>5, <2>1, <2>2, <2>3 DEF SteadyInv
<1>8. ReadInv'
  BY <1>1, <1>2, <1>4, <1>6, <1>7 DEF ReadInv, UnpackInv, FetchInv, RejectedIsFlawed, AcceptedAsPacked
<1> QED
  BY <1>3, <1>8

LEMMA EndReads ==
  ASSUME ReadInv, ExtractEnds \/ ExtractFails
  PROVE  ReadInv'
<1>1. /\ reading = "extract" /\ reading' \in {"unpacked", "failed"} /\ buffer' = buffer
      /\ size' = size /\ noted' = noted
  BY DEF ExtractEnds, ExtractFails
<1> QED
  BY <1>1 DEF ReadInv, UnpackInv, VerifyInv, SteadyInv, Verifying, FetchInv, RejectedIsFlawed,
              AcceptedAsPacked

-----------------------------------------------------------------------------
LEMMA ReadsStep ==
  ASSUME PackInv, ReadInv, [Next]_vars
  PROVE  ReadInv'
<1>1. CASE PackBegins
  <2>1. Disturb /\ UNCHANGED <<reading, buffer, size, noted>> /\ whole' = whole
    BY <1>1 DEF PackBegins
  <2> QED
    BY <2>1, DisturbedReads
<1>2. CASE PackChunk
  <2>1. Disturb /\ UNCHANGED <<reading, buffer, size, noted>> /\ whole' = whole
    BY <1>2 DEF PackChunk
  <2> QED
    BY <2>1, DisturbedReads
<1>3. CASE PackFails
  <2>1. Disturb /\ UNCHANGED <<reading, buffer, size, noted>> /\ whole' = whole
    BY <1>3 DEF PackFails
  <2> QED
    BY <2>1, DisturbedReads
<1>4. CASE RefuseEmpty
  BY <1>4, RefuseEmptyReads
<1>5. CASE WriteHeader
  <2>1. Disturb /\ UNCHANGED <<reading, buffer, size, noted>> /\ whole \subseteq whole'
    BY <1>5 DEF WriteHeader
  <2> QED
    BY <2>1, DisturbedReads
<1>6. CASE FetchBegins
  BY <1>6, BeginsRead DEF FetchBegins
<1>7. CASE UnpackBegins
  BY <1>7, BeginsRead DEF UnpackBegins
<1>8. CASE Receive
  BY <1>8, ReceiveReads
<1>9. CASE TransferEnds
  BY <1>9, TransferEndsReads
<1>10. CASE TransferFails \/ ReadAgain
  BY <1>10, StopReads DEF TransferFails, ReadAgain
<1>11. CASE Check
  BY <1>11, CheckReads
<1>12. CASE MapFails
  BY <1>12, MapFailsReads
<1>13. CASE ReadMagic \/ ReadVersion \/ ReadChecksum
  BY <1>13, MagicReads, VersionReads, ChecksumReads
<1>14. CASE SumPiece \/ Compare \/ Extract \/ ExtractEnds \/ ExtractFails
  BY <1>14, PieceReads, CompareReads, EndReads
<1>15. CASE UNCHANGED vars
  <2>1. /\ reading' = reading /\ buffer' = buffer /\ size' = size /\ noted' = noted /\ flaws' = flaws
        /\ file' = file /\ whole' = whole /\ packing' = packing /\ machine' = machine
    BY <1>15 DEF vars, readVars, packVars
  <2>2. (Fit' <=> Fit) /\ Differing' = Differing
    BY <2>1 DEF Fit, Differing
  <2>3. FetchInv'
    BY <2>1, <2>2 DEF ReadInv, FetchInv
  <2>4. VerifyInv'
    BY <2>1, <2>2 DEF ReadInv, UnpackInv, VerifyInv, Verifying, ArchiveSize
  <2>5. SteadyInv'
    BY <2>1, SteadyReads DEF ReadInv, UnpackInv
  <2> QED
    BY <2>1, <2>3, <2>4, <2>5 DEF ReadInv, UnpackInv, RejectedIsFlawed, AcceptedAsPacked
<1> QED
  BY <1>1, <1>2, <1>3, <1>4, <1>5, <1>6, <1>7, <1>8, <1>9, <1>10, <1>11, <1>12, <1>13, <1>14, <1>15
     DEF Next, Pack, Fetch, Unpack

LEMMA ReadingHolds == Spec => []ReadInv
<1>1. Init => ReadInv
  BY DEF Init, ReadInv, FetchInv, UnpackInv, VerifyInv, SteadyInv, Verifying, RejectedIsFlawed,
         AcceptedAsPacked
<1>2. PackInv /\ ReadInv /\ [Next]_vars => ReadInv'
  BY ReadsStep
<1> QED
  BY <1>1, <1>2, PackHolds, PTL DEF Spec

(***************************************************************************)
(* A package that was complete and untouched is accepted, whatever the     *)
(* pieces it came in and the size of a page: the checksum in chunks is     *)
(* that of the whole, and the mapping reaches the end of the file          *)
(* (_append_to_buffer, package_verify).                                    *)
(***************************************************************************)
THEOREM RejectedHasFlaw == Spec => []RejectedIsFlawed
<1>1. ReadInv => RejectedIsFlawed
  BY DEF ReadInv
<1> QED
  BY <1>1, ReadingHolds, PTL

(***************************************************************************)
(* One damaged byte is always noticed, in every archive: no step of the    *)
(* checksum forgets a difference (package_open, package_verify).           *)
(***************************************************************************)
THEOREM DamageIsRefused == Spec => []AcceptedAsPacked
<1>1. ReadInv => AcceptedAsPacked
  BY DEF ReadInv
<1> QED
  BY <1>1, ReadingHolds, PTL

(***************************************************************************)
(* dudeunpack refuses or extracts a package as package_verify would on one *)
(* state of the file, though it reads a mapping that may change, piece by  *)
(* piece and in either order: unless it did change (dudeunpack.c).         *)
(***************************************************************************)
THEOREM VerificationIsAtomic == Spec => VerifiedAtOnce
<1>1. ASSUME PackInv, ReadInv, [Next]_vars, reading' # reading, reading' \in {"extract", "rejected"},
             "late" \notin flaws, reading # "check", Opens(Contents)
      PROVE  reading' = "extract" <=> Verifies(Contents, Version, ReaderOrder)
  <2>1. MapFails \/ ReadMagic \/ ReadVersion \/ Compare
    BY <1>1 DEF Next, Pack, PackBegins, PackChunk, PackFails, RefuseEmpty, WriteHeader, Fetch,
                FetchBegins, Begin, Receive, TransferEnds, TransferFails, Stop, Check, Unpack,
                UnpackBegins, ReadChecksum, SumPiece, ReadPiece, Extract, ExtractEnds,
                ExtractFails, After, ReadAgain, vars, readVars
  <2>2. CASE MapFails
    BY <1>1, <2>2 DEF MapFails
  <2>3. CASE ReadMagic
    BY <1>1, <2>3 DEF ReadMagic, After, Verifies
  <2>4. CASE ReadVersion
    BY <1>1, <2>4 DEF ReadVersion, After, Verifies
  <2>5. CASE Compare
    BY <1>1, <2>5, CompareReads
  <2> QED
    BY <2>1, <2>2, <2>3, <2>4, <2>5
<1>2. PackInv /\ ReadInv /\ [Next]_vars =>
        [reading' # reading /\ reading' \in {"extract", "rejected"} /\ "late" \notin flaws
           /\ reading # "check" /\ Opens(Contents) =>
         (reading' = "extract" <=> Verifies(Contents, Version, ReaderOrder))]_vars
  BY <1>1
<1> QED
  BY <1>2, PackHolds, ReadingHolds, PTL DEF Spec, VerifiedAtOnce

-----------------------------------------------------------------------------
(* Whole archives: what is in the file is the front of one package. *)

Written == Package(source, machine.version, machine.order)

(***************************************************************************)
(* However dudepack was stopped, it has written the front of the package   *)
(* of what it was given, and all of it only when that is complete.         *)
(***************************************************************************)
WrittenInv ==
  /\ packing = "read" \/ file # <<>> => source \in Archives /\ machine \in Machines
  /\ file # <<>> => source # <<>>
  /\ Len(file) <= Len(source) + HeaderSize
  /\ \A i \in 1 .. Len(file) : file[i] = Written[i]
  /\ Len(file) = Len(source) + HeaderSize => Completed \in whole

Plain == flaws \cap {"damage", "rewrite"} = {}

FetchedInv ==
  /\ reading \in {"fetch", "check"} /\ Plain =>
       /\ Len(buffer) <= Len(file)
       /\ \A i \in 1 .. Len(buffer) : buffer[i] = file[i]
  /\ Plain => AcceptedIsWhole

UnpackedInv ==
  /\ reading = "extract" /\ "late" \notin flaws => \E w \in whole : w.archive = Archive(Contents)
  /\ UnpackedIsWhole

(***************************************************************************)
(* What dudepack has written while it reads is the front of its source.    *)
(***************************************************************************)
FrontOf(f, a, m) ==
  /\ Len(f) <= Len(a) /\ Len(f) \in Nat /\ Len(a) \in Nat
  /\ \A i \in 1 .. Len(f) : f[i] = Package(a, m.version, m.order)[i]

LEMMA FrontIsWritten ==
  ASSUME NEW a \in Seq(Byte), NEW m \in [version : Byte, order : Orders],
         NEW f \in Seq(Byte), NEW d \in Seq(Byte), f \o d = a
  PROVE  FrontOf(f, a, m)
<1>1. PICK n, k : n = Len(f) /\ k = Len(d)
  OBVIOUS
<1>2. n \in Nat /\ k \in Nat /\ m.version \in Byte /\ m.order \in Orders
  BY <1>1
<1>3. Joins(a, f, n, d, k)
  BY <1>1, ConcatAt
<1>4. Len(a) = n + k /\ \A i \in 1 .. n : a[i] = f[i] /\ i \in 1 .. n + k
  BY <1>2, <1>3 DEF Joins
<1>5. \A i \in 1 .. Len(a) : Package(a, m.version, m.order)[i] = a[i]
  BY <1>2, PackageShape
<1>6. \A i \in 1 .. n : Package(a, m.version, m.order)[i] = f[i]
  BY <1>4, <1>5
<1> QED
  BY <1>1, <1>2, <1>4, <1>6 DEF FrontOf

LEMMA PackStepWrites ==
  ASSUME PackInv, WrittenInv, PackBegins \/ PackChunk \/ PackFails \/ RefuseEmpty
  PROVE  WrittenInv'
<1>1. /\ file \in Seq(Byte) /\ left \in Seq(Byte) /\ source \in Seq(Byte)
      /\ machine \in [version : Byte, order : Orders] /\ Len(left) \in Nat
  BY DEF PackInv
<1>2. CASE PackBegins
  <2>1. /\ source' \in Archives /\ source' \in Seq(Byte) /\ machine' \in Machines /\ file' = <<>>
    BY <1>2, DeliveryAssumption DEF PackBegins, DeliveryAssumption
  <2>2. Len(file') = 0 /\ Len(source') \in Nat
    BY <2>1
  <2> QED
    BY <2>1, <2>2 DEF WrittenInv, HeaderSize
<1>3. ASSUME packing = "read", source' = source, machine' = machine, whole' = whole,
             NEW t \in Seq(Byte), NEW d \in Seq(Byte), t \o d = left,
             file' = file \o t, t # <<>> => source # <<>>
      PROVE  WrittenInv'
  <2>1. file \o left = source /\ source \in Archives /\ machine \in Machines
    BY <1>3 DEF PackInv, WrittenInv
  <2>2. file' \in Seq(Byte)
    BY <1>1, <1>3
  <2>3. file' \o d = source
    <3>1. file \in Seq(Byte)
      BY <1>1
    <3>2. t \in Seq(Byte) /\ d \in Seq(Byte)
      OBVIOUS
    <3>3. (file \o t) \o d = file \o (t \o d)
      BY ONLY <3>1, <3>2, Associative
    <3> QED
      BY <1>3, <2>1, <3>3
  <2>4. /\ Len(file') <= Len(source) /\ Len(file') \in Nat /\ Len(source) \in Nat
        /\ \A i \in 1 .. Len(file') : file'[i] = Written[i]
    <3>1. source \in Seq(Byte) /\ machine \in [version : Byte, order : Orders] /\ d \in Seq(Byte)
      BY <1>1
    <3>2. FrontOf(file', source, machine)
      BY ONLY <2>2, <2>3, <3>1, FrontIsWritten
    <3> QED
      BY <3>2 DEF FrontOf, Written
  <2>5. file' # <<>> => source # <<>>
    BY <2>4, EmptySeq, <2>2
  <2>6. Written' = Written
    BY <1>3 DEF Written
  <2> QED
    BY <1>3, <2>1, <2>4, <2>5, <2>6 DEF WrittenInv, HeaderSize
<1>4. ASSUME packing = "read", source' = source, machine' = machine, whole' = whole,
             NEW n \in Sizes(Len(left)), NEW m \in 0 .. n, file' = file \o Take(left, m)
      PROVE  WrittenInv'
  <2>1. m \in Nat /\ m <= Len(left)
    BY <1>1, SizesType
  <2>2. PICK t, d : t = Take(left, m) /\ d = Drop(left, m)
    OBVIOUS
  <2>3. t \in Seq(Byte) /\ d \in Seq(Byte) /\ t \o d = left
    BY ONLY <1>1, <2>1, <2>2, Cutting
  <2>4. t # <<>> => source # <<>>
    <3>1. file \o left = source
      BY <1>4 DEF PackInv
    <3>2. Len(left) # 0
      BY <1>1, SizesType
    <3>3. Joins(source, file, Len(file), left, Len(left))
      BY <1>1, <3>1, ConcatAt
    <3>4. Len(source) # 0
      BY <1>1, <3>2, <3>3 DEF Joins
    <3> QED
      BY <1>1, <3>4, EmptySeq
  <2> QED
    BY <1>3, <1>4, <2>2, <2>3, <2>4
<1>5. CASE PackChunk
  <2>1. PICK n \in Sizes(Len(left)) : file' = file \o Take(left, n)
    BY <1>5 DEF PackChunk
  <2>2. n \in 0 .. n
    BY <1>1, SizesType
  <2> QED
    BY <1>4, <1>5, <2>1, <2>2 DEF PackChunk
<1>6. ASSUME file' = file, source' = source, machine' = machine, whole' = whole,
             packing' = "read" => packing = "read"
      PROVE  WrittenInv'
  BY <1>6 DEF WrittenInv, Written, Completed
<1>7. CASE PackFails
  <2>1. packing = "read" /\ packing' = "idle" /\ UNCHANGED <<source, machine, whole>>
    BY <1>7 DEF PackFails
  <2>2. CASE file' = file
    BY <1>6, <2>1, <2>2
  <2>3. ASSUME NEW n \in Sizes(Len(left)), NEW m \in 0 .. n - 1, file' = file \o Take(left, m)
        PROVE  WrittenInv'
    <3>1. m \in 0 .. n
      BY <1>1, SizesType
    <3> QED
      BY <1>4, <2>1, <2>3, <3>1
  <2> QED
    BY <1>7, <2>2, <2>3 DEF PackFails
<1>8. CASE RefuseEmpty
  BY <1>6, <1>8 DEF RefuseEmpty
<1> QED
  BY <1>2, <1>5, <1>7, <1>8

LEMMA WriteHeaderWrites ==
  ASSUME PackInv, WrittenInv, WriteHeader
  PROVE  WrittenInv'
<1>1. /\ file \in Seq(Byte) /\ source \in Seq(Byte) /\ source # <<>>
      /\ machine \in [version : Byte, order : Orders]
      /\ file \o left = source /\ left = <<>> /\ crc = Crc32({}, file)
      /\ source \in Archives /\ machine \in Machines
      /\ source' = source /\ machine' = machine
  BY DEF PackInv, WrittenInv, WriteHeader
<1>2. file = source
  BY <1>1, ConcatEmptySeq
<1>3. PICK h, L : h = Header(machine.version, crc, machine.order) /\ L = Len(source)
  OBVIOUS
<1>4. h \in Seq(Byte) /\ Len(h) = 9 /\ L \in Nat
  <2>1. {} \in Word /\ machine.version \in Byte /\ machine.order \in Orders
    BY <1>1 DEF Word
  <2>2. crc \in Word
    BY <1>1, <2>1, CrcRun
  <2> QED
    BY <1>1, <1>3, <2>1, <2>2, HeaderShape
<1>5. PICK n \in 0 .. 9 :
        /\ file' = file \o Take(h, n)
        /\ whole' = IF n = 9 THEN whole \cup {Completed} ELSE whole
        /\ packing' = IF n = 9 THEN "done" ELSE "idle"
  BY <1>3 DEF WriteHeader, HeaderSize
<1>6. PICK t : t = Take(h, n)
  OBVIOUS
<1>7. t \in Seq(Byte) /\ Len(t) = n /\ \A i \in 1 .. n : t[i] = h[i]
  <2>1. n \in Nat /\ n <= Len(h)
    BY <1>4
  <2> QED
    BY ONLY <1>4, <1>6, <2>1, Cutting
<1>8. Joins(file', source, L, t, n)
  BY ONLY <1>1, <1>2, <1>3, <1>5, <1>6, <1>7, ConcatAt
<1>9. Joins(Written, source, L, h, 9)
  <2>1. Written = source \o h
    BY <1>1, <1>2, <1>3 DEF Written, Package
  <2> QED
    BY ONLY <1>1, <1>3, <1>4, <2>1, ConcatAt
<1>10. Len(file') = L + n
  BY <1>8 DEF Joins
<1>11. ASSUME NEW i \in 1 .. L + n
       PROVE  file'[i] = Written[i]
  <2>1. CASE i <= L
    <3>1. i \in 1 .. L
      BY <1>4, <2>1
    <3> QED
      BY <1>8, <1>9, <3>1 DEF Joins
  <2>2. CASE ~(i <= L)
    <3>1. PICK j : j = i - L
      OBVIOUS
    <3>2. j \in 1 .. n /\ j \in 1 .. 9 /\ i = L + j
      BY <1>4, <2>2, <3>1
    <3>3. file'[L + j] = t[j]
      BY <1>8, <3>2 DEF Joins
    <3>4. Written[L + j] = h[j]
      BY <1>9, <3>2 DEF Joins
    <3> QED
      BY <1>7, <3>2, <3>3, <3>4
  <2> QED
    BY <2>1, <2>2
<1>12. Written' = Written /\ Completed' = Completed
  BY <1>1 DEF Written, Completed
<1>13. L + n <= L + 9 /\ (L + n = L + 9 => Completed \in whole')
  BY <1>4, <1>5
<1> QED
  BY <1>1, <1>3, <1>10, <1>11, <1>12, <1>13 DEF WrittenInv, HeaderSize

LEMMA WritingHolds == Spec => []WrittenInv
<1>1. Init => WrittenInv
  <2> SUFFICES ASSUME Init
               PROVE  WrittenInv
    OBVIOUS
  <2>1. file = <<>> /\ source = <<>> /\ packing = "idle"
    BY DEF Init
  <2>2. Len(file) = 0 /\ Len(source) = 0
    BY <2>1
  <2> QED
    BY <2>1, <2>2 DEF WrittenInv, HeaderSize
<1>2. PackInv /\ WrittenInv /\ [Next]_vars => WrittenInv'
  <2> SUFFICES ASSUME PackInv, WrittenInv, [Next]_vars
               PROVE  WrittenInv'
    OBVIOUS
  <2>1. CASE PackBegins \/ PackChunk \/ PackFails \/ RefuseEmpty
    BY <2>1, PackStepWrites
  <2>2. CASE WriteHeader
    BY <2>2, WriteHeaderWrites
  <2>3. CASE Fetch \/ Unpack \/ ReadAgain \/ UNCHANGED vars
    <3>1. UNCHANGED <<file, packVars, whole>>
      BY <2>3 DEF Fetch, FetchBegins, Begin, Receive, TransferEnds, TransferFails, Stop, Check,
                  Unpack, UnpackBegins, MapFails, ReadMagic, ReadVersion, ReadChecksum,
                  SumPiece, Compare, Extract, ExtractEnds, ExtractFails, ReadAgain, vars
    <3> QED
      BY <3>1 DEF WrittenInv, Written, Completed, packVars
  <2> QED
    BY <2>1, <2>2, <2>3 DEF Next, Pack
<1> QED
  BY <1>1, <1>2, PackHolds, PTL DEF Spec
-----------------------------------------------------------------------------
(* Whole archives: where the magic number is, all of the archive is before it. *)

LEMMA MagicTells ==
  ASSUME MagicOnce, PackInv, WrittenInv, NEW n \in Nat,
         \A i \in 1 .. 4 : n + i <= Len(file) /\ file[n + i] = Magic[i]
  PROVE  /\ n = Len(source) /\ source \in Archives /\ source # <<>>
         /\ source \in Seq(Byte) /\ machine \in [version : Byte, order : Orders]
<1>1. PICK k, L : k = Len(file) /\ L = Len(source)
  OBVIOUS
<1>2. /\ k \in Nat /\ L \in Nat /\ source \in Seq(Byte)
      /\ machine \in [version : Byte, order : Orders]
  BY <1>1 DEF PackInv
<1>3. 4 \in 1 .. 4 /\ n + 4 <= k
  BY <1>1
<1>4. source \in Archives /\ machine \in Machines /\ source # <<>> /\ k <= L + 9
  <2>1. file # <<>>
    BY <1>1, <1>2, <1>3
  <2> QED
    BY <1>1, <2>1 DEF WrittenInv, HeaderSize
<1>5. n \in 0 .. L + 5
  BY <1>2, <1>3, <1>4
<1>6. ASSUME NEW i \in 1 .. 4
      PROVE  Package(source, machine.version, machine.order)[n + i] = Magic[i]
  <2>1. n + i <= k
    BY <1>1
  <2>2. n + i \in 1 .. k
    BY <1>2, <2>1
  <2>3. file[n + i] = Written[n + i]
    BY <1>1, <2>2 DEF WrittenInv
  <2> QED
    BY <2>3 DEF Written
<1> QED
  BY <1>1, <1>2, <1>4, <1>5, <1>6 DEF MagicOnce

(***************************************************************************)
(* A front of the file that verifies is the file, and complete.            *)
(***************************************************************************)
LEMMA FrontIsPackage ==
  ASSUME MagicOnce, PackInv, WrittenInv, NEW c \in Seq(Byte), Len(c) <= Len(file),
         \A i \in 1 .. Len(c) : c[i] = file[i],
         Opens(c), Verifies(c, Version, ReaderOrder)
  PROVE  /\ c = Written /\ Archive(c) = source
         /\ Completed \in whole /\ machine.version = Version
<1>1. PICK n, k, L : n = Len(c) - 9 /\ k = Len(file) /\ L = Len(source)
  OBVIOUS
<1>2. /\ n \in Nat /\ Len(c) = n + 9 /\ k \in Nat /\ L \in Nat /\ n + 9 <= k
      /\ Version \in Byte /\ ReaderOrder \in Orders
  BY <1>1, DeliveryAssumption DEF Opens, HeaderSize, PackInv, DeliveryAssumption
<1>3. EndsIn(c, n, Version, Crc32({}, Archive(c)), ReaderOrder)
  BY <1>2, VerifiesBytewise
<1>4. \A i \in 1 .. 4 : n + i <= Len(file) /\ file[n + i] = Magic[i]
  <2>1. ASSUME NEW i \in 1 .. 4
        PROVE  n + i <= Len(file) /\ file[n + i] = Magic[i]
    <3>1. n + i \in 1 .. n + 9 /\ n + i <= k
      BY <1>2
    <3>2. c[n + i] = Magic[i]
      BY <1>3 DEF EndsIn
    <3> QED
      BY <1>1, <1>2, <3>1, <3>2
  <2> QED
    BY <2>1
<1>5. /\ n = L /\ source \in Seq(Byte) /\ source # <<>>
      /\ machine.version \in Byte /\ machine.order \in Orders
  BY <1>1, <1>2, <1>4, MagicTells
<1>6. /\ Written \in Seq(Byte) /\ Len(Written) = L + 9
      /\ EndsIn(Written, L, machine.version, Crc32({}, source), machine.order)
  BY <1>1, <1>5, PackageShape DEF Written
<1>7. k = L + 9 /\ Completed \in whole /\ \A i \in 1 .. k : file[i] = Written[i]
  BY <1>1, <1>2, <1>5 DEF WrittenInv, HeaderSize
<1>8. c = Written
  <2>1. \A i \in 1 .. Len(c) : c[i] = Written[i]
    BY <1>2, <1>5, <1>7
  <2> QED
    BY <1>2, <1>5, <1>6, <2>1, SeqEqual
<1>9. machine.version = Version
  BY <1>3, <1>5, <1>6, <1>8 DEF EndsIn
<1>10. Archive(c) = source
  BY <1>5, <1>8, PackageVerifies DEF Written
<1> QED
  BY <1>7, <1>8, <1>9, <1>10

(***************************************************************************)
(* A mapping that verifies is of a whole package, even where it reaches    *)
(* beyond the end of the file.                                             *)
(***************************************************************************)
LEMMA MappingIsPackage ==
  ASSUME MagicOnce, ChecksumsEnd, PackInv, WrittenInv, size \in Nat,
         Opens(Contents), Verifies(Contents, Version, ReaderOrder)
  PROVE  Archive(Contents) = source /\ Completed \in whole
<1>1. PICK c, n, k, L : c = Contents /\ n = size - 9 /\ k = Len(file) /\ L = Len(source)
  OBVIOUS
<1>2. c \in Seq(Byte) /\ Len(c) = size /\ \A i \in 1 .. size : c[i] = Mapped(i)
  BY <1>1, ContentsShape
<1>3. /\ n \in Nat /\ size = n + 9 /\ k \in Nat /\ L \in Nat
      /\ Version \in Byte /\ ReaderOrder \in Orders
  BY <1>1, <1>2, DeliveryAssumption DEF Opens, HeaderSize, PackInv, DeliveryAssumption
<1>4. EndsIn(c, n, Version, Crc32({}, Archive(c)), ReaderOrder)
  BY <1>1, <1>2, <1>3, VerifiesBytewise
<1>5. ASSUME NEW i \in 1 .. n + 9, c[i] # {}
      PROVE  i <= k /\ file[i] = c[i]
  BY <1>1, <1>2, <1>3, <1>5 DEF Mapped
<1>6. \A i \in 1 .. 4 : n + i <= Len(file) /\ file[n + i] = Magic[i]
  <2>1. ASSUME NEW i \in 1 .. 4
        PROVE  n + i <= Len(file) /\ file[n + i] = Magic[i]
    <3>1. n + i \in 1 .. n + 9
      BY <1>3
    <3>2. c[n + i] = Magic[i]
      BY <1>4 DEF EndsIn
    <3>3. Magic[i] # {}
      BY DEF Magic
    <3> QED
      BY <1>1, <1>5, <3>1, <3>2, <3>3
  <2> QED
    BY <2>1
<1>7. /\ n = L /\ source \in Seq(Byte) /\ source \in Archives /\ source # <<>>
      /\ machine.version \in Byte /\ machine.order \in Orders
  BY <1>1, <1>3, <1>6, MagicTells
<1>8. Archive(c) = source
  <2>1. /\ Archive(c) \in Seq(Byte) /\ Len(Archive(c)) = n
        /\ \A i \in 1 .. n : Archive(c)[i] = c[i]
    BY <1>2, <1>3, ArchiveShape
  <2>2. n < k
    <3>1. 1 \in 1 .. 4 /\ n + 1 <= k
      BY <1>1, <1>6
    <3> QED
      BY <1>3, <3>1
  <2>3. ASSUME NEW i \in 1 .. n
        PROVE  c[i] = source[i]
    <3>1. i \in 1 .. n + 9 /\ i \in 1 .. k /\ i \in 1 .. L /\ i <= k
      BY <1>3, <1>7, <2>2
    <3>2. c[i] = file[i]
      BY <1>1, <1>2, <1>3, <3>1 DEF Mapped
    <3>3. file[i] = Written[i]
      BY <1>1, <3>1 DEF WrittenInv
    <3>4. Written[i] = source[i]
      BY <1>1, <1>7, <3>1, PackageShape DEF Written
    <3> QED
      BY <3>2, <3>3, <3>4
  <2> QED
    BY <1>1, <1>7, <2>1, <2>3, SeqEqual
<1>9. c[n + 9] # {}
  <2>1. 4 \in 1 .. 4 /\ n + 5 + 4 = n + 9
    BY <1>3
  <2>2. c[n + 5 + 4] = Bytes(Crc32({}, source), ReaderOrder)[4]
    BY <1>4, <1>8, <2>1 DEF EndsIn
  <2> QED
    BY <1>7, <2>1, <2>2 DEF ChecksumsEnd
<1>10. n + 9 <= k
  <2>1. n + 9 \in 1 .. n + 9
    BY <1>3
  <2> QED
    BY <1>5, <1>9, <2>1
<1>11. Completed \in whole
  BY <1>1, <1>3, <1>7, <1>10 DEF WrittenInv, HeaderSize
<1> QED
  BY <1>1, <1>8, <1>11

-----------------------------------------------------------------------------
(* Whole archives: what is accepted, and what is unpacked. *)

LEMMA FetchedStep ==
  ASSUME MagicOnce, PackInv, WrittenInv, ReadInv, FetchedInv, [Next]_vars
  PROVE  FetchedInv'
<1>1. ASSUME Disturb, UNCHANGED <<reading, buffer>>, whole \subseteq whole'
      PROVE  FetchedInv'
  <2>1. CASE reading \in Ended
    <3>1. flaws' = flaws /\ (Plain' <=> Plain)
      BY <1>1, <2>1 DEF Disturb, Plain
    <3>2. Plain' => AcceptedIsWhole'
      <4>1. Plain => AcceptedIsWhole
        BY DEF FetchedInv
      <4> QED
        BY <1>1, <3>1, <4>1 DEF AcceptedIsWhole
    <3> QED
      BY <1>1, <2>1, <3>2 DEF FetchedInv, Ended
  <2>2. CASE reading \notin Ended
    <3>1. reading' # "accepted" /\ (reading \in {"fetch", "check"} => ~ Plain')
      BY <1>1, <2>2 DEF Disturb, Plain, Ended
    <3> QED
      BY <1>1, <3>1 DEF FetchedInv, AcceptedIsWhole
  <2> QED
    BY <2>1, <2>2
<1>2. CASE PackBegins \/ PackChunk \/ PackFails \/ WriteHeader
  <2>1. Disturb /\ UNCHANGED <<reading, buffer>> /\ whole \subseteq whole'
    BY <1>2 DEF PackBegins, PackChunk, PackFails, WriteHeader
  <2> QED
    BY <1>1, <2>1
<1>3. CASE RefuseEmpty \/ UNCHANGED vars
  <2>1. UNCHANGED <<file, reading, buffer, flaws, whole>>
    BY <1>3 DEF RefuseEmpty, readVars, vars
  <2>2. (Plain' <=> Plain) /\ (AcceptedIsWhole' <=> AcceptedIsWhole)
    BY <2>1 DEF Plain, AcceptedIsWhole
  <2> QED
    BY <2>1, <2>2 DEF FetchedInv
<1>4. CASE FetchBegins
  <2>1. reading' = "fetch" /\ buffer' = <<>> /\ file' = file
    BY <1>4 DEF FetchBegins, Begin
  <2>2. Len(buffer') = 0 /\ Len(file) \in Nat
    BY <2>1 DEF PackInv
  <2> QED
    BY <2>1, <2>2 DEF FetchedInv, AcceptedIsWhole
<1>5. CASE Receive
  <2>1. reading = "fetch" /\ reading' = "fetch" /\ file' = file
    BY <1>5 DEF Receive
  <2>2. ASSUME Plain'
        PROVE  Len(buffer') <= Len(file) /\ \A i \in 1 .. Len(buffer') : buffer'[i] = file[i]
    <3>1. PICK k, b : k = Len(file) /\ b = Len(buffer)
      OBVIOUS
    <3>2. PICK n \in Sizes(k - b) : \E piece :
            /\ piece = SubSeq(file, b + 1, b + n)
            /\ \/ buffer' = buffer \o piece /\ UNCHANGED flaws
               \/ flaws' = flaws \cup {"damage"}
      BY <1>5, <3>1 DEF Receive
    <3>3. PICK piece :
            /\ piece = SubSeq(file, b + 1, b + n)
            /\ \/ buffer' = buffer \o piece /\ UNCHANGED flaws
               \/ flaws' = flaws \cup {"damage"}
      BY <3>2
    <3>4. buffer' = buffer \o piece /\ Plain
      BY <2>2, <3>3 DEF Plain
    <3>5. /\ b <= k /\ \A i \in 1 .. b : buffer[i] = file[i]
          /\ k \in Nat /\ b \in Nat /\ file \in Seq(Byte) /\ buffer \in Seq(Byte)
      BY <2>1, <3>1, <3>4 DEF FetchedInv, PackInv, ReadInv
    <3>6. n \in Nat /\ b + n <= k
      <4>1. k - b \in Nat
        BY <3>5
      <4>2. n \in Nat /\ n <= k - b
        BY <4>1, SizesType
      <4> QED
        BY <3>5, <4>2
    <3>7. piece \in Seq(Byte) /\ Len(piece) = n /\ \A i \in 1 .. n : piece[i] = file[b + i]
      <4>1. \A i \in b + 1 .. b + n : i \in 1 .. k
        BY <3>5, <3>6
      <4>2. \A i \in b + 1 .. b + n : file[i] \in Byte
        BY <3>1, <3>5, <4>1, ElementOfSeq
      <4>3. /\ piece \in Seq(Byte)
            /\ Len(piece) = IF b + 1 <= b + n THEN b + n - (b + 1) + 1 ELSE 0
            /\ \A i \in 1 .. b + n - (b + 1) + 1 : piece[i] = file[b + 1 + i - 1]
        BY <3>3, <3>5, <3>6, <4>2, SubSeqProperties
      <4>4. /\ b + n - (b + 1) + 1 = n /\ (b + 1 <= b + n <=> n # 0)
            /\ \A i \in 1 .. n : b + 1 + i - 1 = b + i
        BY <3>5, <3>6
      <4> QED
        BY <3>6, <4>3, <4>4
    <3>8. Joins(buffer', buffer, b, piece, n)
      BY ONLY <3>1, <3>4, <3>5, <3>7, ConcatAt
    <3>9. ASSUME NEW i \in 1 .. b + n
          PROVE  buffer'[i] = file[i]
      <4>1. CASE i <= b
        <5>1. i \in 1 .. b
          BY <3>5, <4>1
        <5> QED
          BY <3>5, <3>8, <5>1 DEF Joins
      <4>2. CASE ~(i <= b)
        <5>1. PICK j : j = i - b
          OBVIOUS
        <5>2. j \in 1 .. n /\ i = b + j
          BY <3>5, <3>6, <4>2, <5>1
        <5> QED
          BY <3>7, <3>8, <5>2 DEF Joins
      <4> QED
        BY <4>1, <4>2
    <3>10. Len(buffer') = b + n
      BY <3>8 DEF Joins
    <3> QED
      BY <3>1, <3>6, <3>9, <3>10
  <2>3. AcceptedIsWhole'
    BY <2>1 DEF AcceptedIsWhole
  <2> QED
    BY <2>1, <2>2, <2>3 DEF FetchedInv
<1>6. CASE TransferEnds
  <2>1. /\ reading = "fetch" /\ reading' = "check" /\ file' = file /\ buffer' = buffer
        /\ (Plain' => Plain)
    BY <1>6 DEF TransferEnds, Plain
  <2> QED
    BY <2>1 DEF FetchedInv, AcceptedIsWhole
<1>7. CASE Check
  <2>1. /\ reading = "check" /\ buffer' = buffer /\ whole' = whole
        /\ (Plain' <=> Plain) /\ flaws' = flaws /\ buffer \in Seq(Byte)
        /\ reading' = IF Opens(buffer) /\ Verifies(buffer, Version, ReaderOrder)
                      THEN "accepted" ELSE "rejected"
    BY <1>7 DEF Check, Plain, ReadInv
  <2>2. CASE Opens(buffer) /\ Verifies(buffer, Version, ReaderOrder) /\ Plain
    <3>1. Len(buffer) <= Len(file) /\ \A i \in 1 .. Len(buffer) : buffer[i] = file[i]
      BY <2>1, <2>2 DEF FetchedInv
    <3>2. /\ buffer = Written /\ Archive(buffer) = source
          /\ Completed \in whole /\ machine.version = Version
      BY <2>1, <2>2, <3>1, FrontIsPackage
    <3>3. /\ Completed.archive = source /\ Completed.version = machine.version
          /\ Completed.order = machine.order
      BY DEF Completed
    <3>4. \E w \in whole : /\ Archive(buffer) = w.archive /\ w.version = Version
                           /\ buffer = Package(w.archive, w.version, w.order)
      BY <3>2, <3>3 DEF Written
    <3>5. AcceptedIsWhole'
      BY <2>1, <2>2, <3>4 DEF AcceptedIsWhole
    <3> QED
      BY <2>1, <3>5 DEF FetchedInv
  <2>3. CASE ~(Opens(buffer) /\ Verifies(buffer, Version, ReaderOrder) /\ Plain)
    BY <2>1, <2>3 DEF FetchedInv, AcceptedIsWhole
  <2> QED
    BY <2>2, <2>3
<1>8. CASE TransferFails \/ ReadAgain \/ Unpack
  <2>1. reading' \notin {"fetch", "check", "accepted"}
    BY <1>8 DEF TransferFails, ReadAgain, Stop, Unpack, UnpackBegins, Begin, MapFails, ReadMagic,
                ReadVersion, ReadChecksum, SumPiece, Compare, Extract, ReadPiece, After,
                ExtractEnds, ExtractFails
  <2> QED
    BY <2>1 DEF FetchedInv, AcceptedIsWhole
<1> QED
  BY <1>2, <1>3, <1>4, <1>5, <1>6, <1>7, <1>8 DEF Next, Pack, Fetch

LEMMA TakeOfTake ==
  ASSUME NEW c \in Seq(Byte), NEW m \in 0 .. Len(c), NEW n \in 0 .. m
  PROVE  Take(Take(c, m), n) = Take(c, n) /\ Len(Take(c, m)) = m
<1>1. /\ c \in Seq(Byte) /\ n \in Nat /\ m \in Nat
      /\ n <= m /\ m <= Len(c) /\ n <= Len(c)
  OBVIOUS
<1>2. PICK t : t = Take(c, m)
  OBVIOUS
<1>3. t \in Seq(Byte) /\ Len(t) = m /\ \A i \in 1 .. m : t[i] = c[i]
  BY ONLY <1>1, <1>2, Cutting
<1>4. /\ Take(t, n) \in Seq(Byte) /\ Len(Take(t, n)) = n
      /\ \A i \in 1 .. n : Take(t, n)[i] = t[i]
  BY ONLY <1>1, <1>3, Cutting
<1>5. /\ Take(c, n) \in Seq(Byte) /\ Len(Take(c, n)) = n
      /\ \A i \in 1 .. n : Take(c, n)[i] = c[i]
  BY ONLY <1>1, Cutting
<1>6. \A i \in 1 .. n : Take(t, n)[i] = Take(c, n)[i]
  BY <1>1, <1>3, <1>4, <1>5
<1>7. Take(t, n) = Take(c, n)
  BY <1>4, <1>5, <1>6, SeqEqual
<1> QED
  BY <1>2, <1>3, <1>7

LEMMA UnpackedStep ==
  ASSUME MagicOnce, ChecksumsEnd, PackInv, WrittenInv, ReadInv, UnpackedInv, [Next]_vars
  PROVE  UnpackedInv'
<1>1. ASSUME Disturb, UNCHANGED <<reading, buffer>>, whole \subseteq whole'
      PROVE  UnpackedInv'
  <2>1. CASE reading \in Ended
    <3>1. flaws' = flaws /\ reading # "extract"
      BY <1>1, <2>1 DEF Disturb, Ended
    <3> QED
      BY <1>1, <3>1 DEF UnpackedInv, UnpackedIsWhole
  <2>2. CASE reading \notin Ended
    <3>1. reading' # "unpacked" /\ (reading' = "extract" => "late" \in flaws')
      BY <1>1, <2>2 DEF Disturb, Ended
    <3> QED
      BY <3>1 DEF UnpackedInv, UnpackedIsWhole
  <2> QED
    BY <2>1, <2>2
<1>2. CASE PackBegins \/ PackChunk \/ PackFails \/ WriteHeader
  <2>1. Disturb /\ UNCHANGED <<reading, buffer>> /\ whole \subseteq whole'
    BY <1>2 DEF PackBegins, PackChunk, PackFails, WriteHeader
  <2> QED
    BY <1>1, <2>1
<1>3. CASE RefuseEmpty \/ UNCHANGED vars
  <2>1. UNCHANGED <<file, reading, buffer, size, flaws, whole>>
    BY <1>3 DEF RefuseEmpty, readVars, vars
  <2>2. Contents' = Contents
    BY <2>1 DEF Contents, Mapped
  <2> QED
    BY <2>1, <2>2 DEF UnpackedInv, UnpackedIsWhole
<1>4. CASE Compare
  <2>1. /\ size' = size /\ file' = file /\ whole' = whole /\ reading' # "unpacked"
        /\ size \in Nat /\ size > HeaderSize /\ Len(Contents) = size
        /\ (reading' = "extract" => flaws' = flaws \cap {"late"})
    BY <1>4, ContentsShape DEF Compare, ReadInv, UnpackInv, VerifyInv, Verifying
  <2>2. Contents' = Contents
    BY <2>1 DEF Contents, Mapped
  <2>3. ASSUME reading' = "extract", "late" \notin flaws'
        PROVE  \E w \in whole : w.archive = Archive(Contents)
    <3>1. Opens(Contents) /\ Verifies(Contents, Version, ReaderOrder)
      BY <1>4, <2>1, <2>3, CompareReads DEF Opens
    <3>2. Archive(Contents) = source /\ Completed \in whole
      BY <2>1, <3>1, MappingIsPackage
    <3> QED
      BY <3>2 DEF Completed
  <2> QED
    BY <2>1, <2>2, <2>3 DEF UnpackedInv, UnpackedIsWhole
<1>5. CASE Extract
  <2>1. /\ reading = "extract" /\ reading' \in {"extract", "killed"}
        /\ size' = size /\ file' = file /\ whole' = whole /\ flaws \subseteq flaws'
    BY <1>5 DEF Extract, ReadPiece, After
  <2>2. Contents' = Contents
    BY <2>1 DEF Contents, Mapped
  <2> QED
    BY <2>1, <2>2 DEF UnpackedInv, UnpackedIsWhole
<1>6. CASE ExtractEnds
  <2>1. /\ reading = "extract" /\ reading' = "unpacked" /\ buffer' = buffer /\ whole' = whole
        /\ flaws \subseteq flaws' /\ ("torn" \notin flaws' => Len(buffer) = ArchiveSize)
    BY <1>6 DEF ExtractEnds
  <2>2. ASSUME "late" \notin flaws'
        PROVE  \E w \in whole : \E n \in 0 .. Len(w.archive) :
                 buffer = Take(w.archive, n) /\ ("torn" \notin flaws' => n = Len(w.archive))
    <3>1. PICK w \in whole : w.archive = Archive(Contents)
      BY <2>1, <2>2 DEF UnpackedInv
    <3>2. PICK c, n, k : c = Contents /\ n = Len(buffer) /\ k = ArchiveSize
      OBVIOUS
    <3>3. /\ size \in Nat /\ k = size - 9 /\ size > 9 /\ n <= k /\ n \in Nat
          /\ buffer = Take(c, n) /\ c \in Seq(Byte) /\ Len(c) = size
      BY <2>1, <2>2, <3>2, ContentsShape
         DEF ReadInv, UnpackInv, VerifyInv, SteadyInv, Verifying, ArchiveSize, HeaderSize
    <3>4. w.archive = Take(c, k)
      BY <3>1, <3>2, <3>3 DEF Archive, Take, HeaderSize
    <3>5. Take(Take(c, k), n) = Take(c, n) /\ Len(Take(c, k)) = k
      BY <3>3, TakeOfTake
    <3>6. n \in 0 .. Len(w.archive) /\ buffer = Take(w.archive, n)
      BY <3>3, <3>4, <3>5
    <3> QED
      BY <2>1, <3>2, <3>4, <3>5, <3>6
  <2> QED
    BY <2>1, <2>2 DEF UnpackedInv, UnpackedIsWhole
<1>7. CASE \/ Fetch \/ ReadAgain \/ UnpackBegins \/ MapFails \/ ReadMagic \/ ReadVersion
           \/ ReadChecksum \/ SumPiece \/ ExtractFails
  <2>1. reading' \notin {"extract", "unpacked"}
    BY <1>7 DEF Fetch, FetchBegins, Receive, TransferEnds, TransferFails, Check, ReadAgain, Stop,
                UnpackBegins, Begin, MapFails, ReadMagic, ReadVersion, ReadChecksum, SumPiece,
                ReadPiece, After, ExtractFails
  <2> QED
    BY <2>1 DEF UnpackedInv, UnpackedIsWhole
<1> QED
  BY <1>2, <1>3, <1>4, <1>5, <1>6, <1>7 DEF Next, Pack, Unpack

(***************************************************************************)
(* A package that is cut short, or still being written, is not accepted:   *)
(* what is accepted without damage and from a file that stays as it is, is *)
(* a package that dudepack completed, in the version of the reader         *)
(* (package_open, package_verify).                                         *)
(***************************************************************************)
THEOREM CutIsRefused ==
  ASSUME MagicOnce
  PROVE  Spec => [](flaws \cap {"damage", "rewrite"} = {} => AcceptedIsWhole)
<1>1. Init => FetchedInv
  BY DEF Init, FetchedInv, AcceptedIsWhole
<1>2. PackInv /\ WrittenInv /\ ReadInv /\ FetchedInv /\ [Next]_vars => FetchedInv'
  BY FetchedStep
<1>3. FetchedInv => (flaws \cap {"damage", "rewrite"} = {} => AcceptedIsWhole)
  BY DEF FetchedInv, Plain
<1> QED
  BY <1>1, <1>2, <1>3, PackHolds, WritingHolds, ReadingHolds, PTL DEF Spec

(***************************************************************************)
(* What dudeunpack reports as unpacked is an archive that dudepack         *)
(* completed, or that with something left out where archive_extract did    *)
(* not tell, though the file may have been replaced between stat and the   *)
(* verification, by a shorter one too, or been half-written when it was    *)
(* mapped: unless it changed after the verification began (dudeunpack.c).  *)
(***************************************************************************)
THEOREM WholeIsUnpacked ==
  ASSUME MagicOnce, ChecksumsEnd
  PROVE  Spec => []UnpackedIsWhole
<1>1. Init => UnpackedInv
  BY DEF Init, UnpackedInv, UnpackedIsWhole
<1>2. PackInv /\ WrittenInv /\ ReadInv /\ UnpackedInv /\ [Next]_vars => UnpackedInv'
  BY UnpackedStep
<1>3. UnpackedInv => UnpackedIsWhole
  BY DEF UnpackedInv
<1> QED
  BY <1>1, <1>2, <1>3, PackHolds, WritingHolds, ReadingHolds, PTL DEF Spec
=============================================================================
