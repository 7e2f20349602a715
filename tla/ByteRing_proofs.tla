-------------------------- MODULE ByteRing_proofs --------------------------
(***************************************************************************)
(* The byte ring is a bounded queue, whatever its capacity and the bytes   *)
(* in it.  The first part computes the indices without moduli, the second  *)
(* says what each operation does to the bytes stored, in their order.      *)
(***************************************************************************)
EXTENDS ByteRing, SequenceTheorems, TLAPS

(* An index that went at most once past the end of the buffer.             *)
Wrap(index) == IF index < BfrSize THEN index ELSE index - BfrSize

(* The bytes between two pointers.                                         *)
Between(from, to) == IF to >= from THEN to - from ELSE to - from + BfrSize

ByteAt(i) == ring[RingNormalize(readptr + i - 1)]

(* The bytes stored, the oldest one first.                                 *)
Contents == [i \in 1 .. BytesStored |-> ByteAt(i)]

BufferOK ==
    /\ ring \in [Positions -> Bytes \cup {NoByte}]
    /\ readptr \in Positions /\ writeptr \in Positions

StoredAreBytes == \A i \in 1 .. BytesStored : ByteAt(i) \in Bytes

IInv == TypeOK /\ StoredAreBytes

LEMMA SizeIsNat == Capacity \in Nat \ {0} /\ BfrSize \in Nat \ {0} /\ BfrSize = Capacity + 1
  BY CapacityAssumption DEF BfrSize

LEMMA ModWithin ==
  ASSUME NEW b \in Nat \ {0}, NEW x \in Nat
  PROVE  /\ x < b => x % b = x
         /\ x >= b /\ x < 2 * b => x % b = x - b
         /\ x >= 2 * b /\ x < 3 * b => x % b = x - 2 * b
<1>1. x < b => x % b = x
  OBVIOUS
<1>2. x >= b /\ x < 2 * b => x % b = x - b
  OBVIOUS
<1>3. x >= 2 * b /\ x < 3 * b => x % b = x - 2 * b
  OBVIOUS
<1> QED BY <1>1, <1>2, <1>3

LEMMA Normalized ==
  ASSUME NEW x \in 0 .. 2 * BfrSize - 1
  PROVE  RingNormalize(x) = Wrap(x) /\ Wrap(x) \in Positions
<1>1. x + BfrSize \in Nat /\ x + BfrSize >= BfrSize /\ x + BfrSize < 3 * BfrSize
  BY SizeIsNat
<1>2. (x + BfrSize) % BfrSize = Wrap(x)
  <2> DEFINE y == x + BfrSize
  <2>1. y \in Nat /\ BfrSize \in Nat \ {0}
    BY <1>1, SizeIsNat
  <2> HIDE DEF y
  <2>2. /\ y >= BfrSize /\ y < 2 * BfrSize => y % BfrSize = y - BfrSize
        /\ y >= 2 * BfrSize /\ y < 3 * BfrSize => y % BfrSize = y - 2 * BfrSize
    BY <2>1, ModWithin
  <2>3. /\ x < BfrSize => y % BfrSize = x
        /\ x >= BfrSize => y % BfrSize = x - BfrSize
    BY <1>1, <2>1, <2>2, SizeIsNat DEF y
  <2> QED BY <2>1, <2>3, SizeIsNat DEF y, Wrap
<1>3. Wrap(x) \in 0 .. Capacity
  BY SizeIsNat DEF Wrap
<1> QED BY <1>2, <1>3 DEF RingNormalize, Positions

LEMMA Counted ==
  ASSUME NEW r \in Positions, NEW w \in Positions
  PROVE  /\ (w - r + BfrSize) % BfrSize = Between(r, w)
         /\ (r - w + BfrSize - 1) % BfrSize = Capacity - Between(r, w)
         /\ Between(r, w) \in 0 .. Capacity
         /\ (w + 1) % BfrSize = r <=> Between(r, w) = Capacity
         /\ r = w <=> Between(r, w) = 0
<1>1. r \in 0 .. BfrSize - 1 /\ w \in 0 .. BfrSize - 1
  BY SizeIsNat DEF Positions
<1>2. /\ w - r + BfrSize \in Nat /\ w - r + BfrSize < 2 * BfrSize
      /\ r - w + BfrSize - 1 \in Nat /\ r - w + BfrSize - 1 < 2 * BfrSize
      /\ w + 1 \in Nat /\ w + 1 < 2 * BfrSize
  BY <1>1, SizeIsNat
<1>3. Between(r, w) \in 0 .. Capacity
  BY <1>1, SizeIsNat DEF Between
<1>4. (w - r + BfrSize) % BfrSize = Between(r, w)
  <2> DEFINE y == w - r + BfrSize
  <2>1. y \in Nat /\ y < 2 * BfrSize /\ BfrSize \in Nat \ {0}
    BY <1>2, SizeIsNat
  <2> HIDE DEF y
  <2>2. /\ y < BfrSize => y % BfrSize = y
        /\ y >= BfrSize => y % BfrSize = y - BfrSize
    BY <2>1, ModWithin
  <2>3. IF w >= r THEN y >= BfrSize /\ y - BfrSize = w - r
                  ELSE y < BfrSize /\ y = w - r + BfrSize
    BY <1>1, SizeIsNat DEF y
  <2>4. y % BfrSize = IF w >= r THEN w - r ELSE w - r + BfrSize
    BY <2>2, <2>3
  <2> QED BY <2>4 DEF y, Between
<1>5. (r - w + BfrSize - 1) % BfrSize = Capacity - Between(r, w)
  <2> DEFINE y == r - w + BfrSize - 1
  <2>1. y \in Nat /\ y < 2 * BfrSize /\ BfrSize \in Nat \ {0}
    BY <1>2, SizeIsNat
  <2> HIDE DEF y
  <2>2. /\ y < BfrSize => y % BfrSize = y
        /\ y >= BfrSize => y % BfrSize = y - BfrSize
    BY <2>1, ModWithin
  <2>3. IF w >= r THEN y < BfrSize /\ y = Capacity - (w - r)
                  ELSE y >= BfrSize /\ y - BfrSize = Capacity - (w - r + BfrSize)
    BY <1>1, SizeIsNat DEF y
  <2>4. y % BfrSize = IF w >= r THEN Capacity - (w - r) ELSE Capacity - (w - r + BfrSize)
    BY <2>2, <2>3
  <2> QED BY <2>4 DEF y, Between
<1>6. (w + 1) % BfrSize = Wrap(w + 1)
  BY <1>2, SizeIsNat, ModWithin DEF Wrap
<1>7. Wrap(w + 1) = r <=> Between(r, w) = Capacity
  BY <1>1, SizeIsNat DEF Wrap, Between
<1>8. r = w <=> Between(r, w) = 0
  BY <1>1, SizeIsNat DEF Between
<1> QED BY <1>3, <1>4, <1>5, <1>6, <1>7, <1>8

LEMMA Sizes ==
  /\ BufferOK => /\ BytesStored = Between(readptr, writeptr)
                 /\ BytesStored \in 0 .. Capacity
                 /\ BytesFree = Capacity - BytesStored
  /\ BufferOK' => /\ BytesStored' = Between(readptr', writeptr')
                  /\ BytesStored' \in 0 .. Capacity
  BY Counted DEF BufferOK, BytesStored, BytesFree

LEMMA ContentsLength ==
  ASSUME BufferOK, StoredAreBytes
  PROVE  /\ Contents \in Seq(Bytes) /\ Len(Contents) = BytesStored
         /\ \A i \in 1 .. BytesStored : Contents[i] = ByteAt(i)
<1>1. BytesStored \in Nat
  BY Sizes
<1>2. Contents \in Seq(Bytes)
  <2> SUFFICES [i \in 1 .. BytesStored |-> ByteAt(i)] \in Seq(Bytes)
    BY DEF Contents
  <2> QED BY <1>1, IsASeq DEF StoredAreBytes
<1>3. DOMAIN Contents = 1 .. BytesStored
  BY DEF Contents
<1>4. Len(Contents) = BytesStored
  BY <1>1, <1>2, <1>3, LenProperties
<1> QED BY <1>2, <1>4 DEF Contents

-----------------------------------------------------------------------------
(* What was asked for comes out, in order.                                 *)
LEMMA CopiedOutIsFront ==
  ASSUME BufferOK, StoredAreBytes, NEW n \in Nat, n <= BytesStored
  PROVE  /\ CopiedOut(n) \in Seq(Bytes)
         /\ CopiedOut(n) = SubSeq(Contents, 1, n)
<1>1. BytesStored \in 0 .. Capacity /\ readptr \in 0 .. Capacity
  BY Sizes DEF BufferOK, Positions
<1>2. ASSUME NEW i \in 1 .. n PROVE CopiedOut(n)[i] = ByteAt(i) /\ i \in 1 .. BytesStored
  <2>1. readptr + i - 1 \in 0 .. 2 * BfrSize - 1
    BY <1>1, SizeIsNat
  <2>2. RingNormalize(readptr + i - 1) = Wrap(readptr + i - 1)
    BY <2>1, Normalized
  <2>3. CopiedOut(n)[i] = IF i <= BfrSize - readptr THEN ring[readptr + i - 1]
                          ELSE ring[i - (BfrSize - readptr) - 1]
    BY DEF CopiedOut
  <2>4. i <= BfrSize - readptr <=> readptr + i - 1 < BfrSize
    BY <1>1, SizeIsNat
  <2>5. i - (BfrSize - readptr) - 1 = readptr + i - 1 - BfrSize
    BY <1>1, SizeIsNat
  <2>6. CopiedOut(n)[i] = ring[Wrap(readptr + i - 1)]
    <3>1. CASE readptr + i - 1 < BfrSize
      BY <2>3, <2>4, <3>1 DEF Wrap
    <3>2. CASE ~(readptr + i - 1 < BfrSize)
      BY <1>1, <2>3, <2>4, <2>5, <3>2, SizeIsNat DEF Wrap
    <3> QED BY <3>1, <3>2
  <2>7. i \in 1 .. BytesStored
    BY <1>1
  <2> QED BY <2>2, <2>6, <2>7 DEF ByteAt
<1>3. CopiedOut(n) \in Seq(Bytes) /\ Len(CopiedOut(n)) = n
  <2>1. CopiedOut(n) = [i \in 1 .. n |-> ByteAt(i)]
    BY <1>2 DEF CopiedOut
  <2>2. \A i \in 1 .. n : ByteAt(i) \in Bytes
    BY <1>2 DEF StoredAreBytes
  <2>3. [i \in 1 .. n |-> ByteAt(i)] \in Seq(Bytes)
    BY <2>2, IsASeq
  <2> QED BY <2>1, <2>3, LenProperties
<1>4. /\ SubSeq(Contents, 1, n) \in Seq(Bytes) /\ Len(SubSeq(Contents, 1, n)) = n
      /\ \A i \in 1 .. n : SubSeq(Contents, 1, n)[i] = Contents[i]
  <2>1. \A i \in 1 .. n : Contents[i] \in Bytes
    BY <1>2, ContentsLength DEF StoredAreBytes
  <2>2. /\ SubSeq(Contents, 1, n) \in Seq(Bytes)
        /\ Len(SubSeq(Contents, 1, n)) = IF 1 <= n THEN n - 1 + 1 ELSE 0
        /\ \A i \in 1 .. n - 1 + 1 : SubSeq(Contents, 1, n)[i] = Contents[1 + i - 1]
    BY <2>1, SubSeqProperties
  <2> QED BY <2>2
<1>5. \A i \in 1 .. n : CopiedOut(n)[i] = SubSeq(Contents, 1, n)[i]
  BY <1>2, <1>4, ContentsLength
<1> QED BY <1>3, <1>4, <1>5, SeqEqual

(* Moving the read pointer drops the oldest bytes.                         *)
LEMMA AdvanceDropsFront ==
  ASSUME BufferOK, StoredAreBytes, NEW n \in Nat, n <= BytesStored,
         readptr' = RingNormalize(readptr + n), UNCHANGED <<ring, writeptr>>
  PROVE  /\ BufferOK' /\ StoredAreBytes'
         /\ Contents' = SubSeq(Contents, n + 1, Len(Contents))
<1>1. /\ BytesStored \in 0 .. Capacity /\ BytesStored = Between(readptr, writeptr)
      /\ readptr \in 0 .. Capacity /\ writeptr \in 0 .. Capacity
  BY Sizes DEF BufferOK, Positions
<1>2. readptr' = Wrap(readptr + n) /\ readptr' \in Positions
  <2>1. readptr + n \in 0 .. 2 * BfrSize - 1
    BY <1>1, SizeIsNat
  <2> QED BY <2>1, Normalized
<1>3. BufferOK'
  BY <1>2 DEF BufferOK
<1>4. BytesStored' = BytesStored - n
  <2>1. BytesStored' = Between(Wrap(readptr + n), writeptr)
    BY <1>2, <1>3, Sizes
  <2> QED BY <1>1, <2>1, SizeIsNat DEF Between, Wrap
<1>5. ASSUME NEW i \in 1 .. BytesStored - n
      PROVE  ByteAt(i)' = ByteAt(i + n) /\ i + n \in 1 .. BytesStored
  <2>1. /\ readptr' + i - 1 \in 0 .. 2 * BfrSize - 1
        /\ readptr + (i + n) - 1 \in 0 .. 2 * BfrSize - 1
    BY <1>1, <1>2, SizeIsNat DEF Positions
  <2>2. /\ RingNormalize(readptr' + i - 1) = Wrap(readptr' + i - 1)
        /\ RingNormalize(readptr + (i + n) - 1) = Wrap(readptr + (i + n) - 1)
    BY <2>1, Normalized
  <2>3. Wrap(readptr' + i - 1) = Wrap(readptr + (i + n) - 1)
    BY <1>1, <1>2, SizeIsNat DEF Wrap
  <2>4. ByteAt(i)' = ring[RingNormalize(readptr' + i - 1)]
    BY DEF ByteAt, RingNormalize, BfrSize
  <2> QED BY <1>1, <2>2, <2>3, <2>4 DEF ByteAt
<1>6. StoredAreBytes'
  <2>1. \A i \in 1 .. BytesStored' : ByteAt(i)' \in Bytes
    BY <1>4, <1>5 DEF StoredAreBytes
  <2> QED BY <2>1 DEF StoredAreBytes
<1>7. /\ Contents' \in Seq(Bytes) /\ Len(Contents') = BytesStored - n
      /\ \A i \in 1 .. BytesStored - n : Contents'[i] = ByteAt(i + n)
  <2>1. Contents' = [i \in 1 .. BytesStored - n |-> ByteAt(i + n)]
    BY <1>4, <1>5 DEF Contents
  <2>2. \A i \in 1 .. BytesStored - n : ByteAt(i + n) \in Bytes
    BY <1>5 DEF StoredAreBytes
  <2>3. BytesStored - n \in Nat
    BY <1>1
  <2>4. [i \in 1 .. BytesStored - n |-> ByteAt(i + n)] \in Seq(Bytes)
    BY <2>2, <2>3, IsASeq
  <2> QED BY <2>1, <2>3, <2>4, LenProperties
<1>8. /\ SubSeq(Contents, n + 1, Len(Contents)) \in Seq(Bytes)
      /\ Len(SubSeq(Contents, n + 1, Len(Contents))) = BytesStored - n
      /\ \A i \in 1 .. BytesStored - n :
            SubSeq(Contents, n + 1, Len(Contents))[i] = ByteAt(i + n)
  <2> DEFINE m == BytesStored
  <2>1. m \in Nat /\ Len(Contents) = m /\ \A i \in 1 .. m : Contents[i] = ByteAt(i)
    BY <1>1, ContentsLength
  <2>2. \A i \in n + 1 .. m : Contents[i] \in Bytes
    BY <2>1 DEF StoredAreBytes
  <2> HIDE DEF m
  <2>3. /\ SubSeq(Contents, n + 1, m) \in Seq(Bytes)
        /\ Len(SubSeq(Contents, n + 1, m)) = IF n + 1 <= m THEN m - (n + 1) + 1 ELSE 0
        /\ \A i \in 1 .. m - (n + 1) + 1 : SubSeq(Contents, n + 1, m)[i] = Contents[n + 1 + i - 1]
    BY <2>1, <2>2, SubSeqProperties
  <2>4. n <= m
    BY DEF m
  <2>5. ASSUME NEW i \in 1 .. m - n
        PROVE  SubSeq(Contents, n + 1, m)[i] = ByteAt(i + n)
    <3>1. n + 1 + i - 1 = i + n /\ i + n \in 1 .. m /\ i \in 1 .. m - (n + 1) + 1
      BY <2>1, <2>4
    <3> QED BY <2>1, <2>3, <3>1
  <2>6. Len(SubSeq(Contents, n + 1, m)) = m - n
    BY <2>1, <2>3, <2>4
  <2> QED BY <2>1, <2>3, <2>5, <2>6 DEF m
<1>9. Contents' = SubSeq(Contents, n + 1, Len(Contents))
  BY <1>7, <1>8, SeqEqual
<1> QED BY <1>3, <1>6, <1>9

(* What is stored comes behind what is there.                              *)
LEMMA StoreAppends ==
  ASSUME BufferOK, StoredAreBytes, NEW s \in Seq(Bytes), RingStore(s)
  PROVE  /\ BufferOK' /\ StoredAreBytes'
         /\ Contents' = Contents \o s
<1> DEFINE n == Len(s)
           m == BytesStored
<1>1. /\ m \in 0 .. Capacity /\ m = Between(readptr, writeptr)
      /\ readptr \in 0 .. Capacity /\ writeptr \in 0 .. Capacity
      /\ n \in Nat /\ m + n <= Capacity
  <2>1. n \in Nat
    OBVIOUS
  <2>2. n <= Capacity - m
    BY Sizes DEF RingStore
  <2> QED BY <2>1, <2>2, Sizes, SizeIsNat DEF BufferOK, Positions
<1>2. writeptr' = Wrap(writeptr + n) /\ writeptr' \in Positions /\ readptr' = readptr
  <2>1. writeptr + n \in 0 .. 2 * BfrSize - 1
    BY <1>1, SizeIsNat
  <2> QED BY <2>1, Normalized DEF RingStore
<1>3. ring' = CopiedIn(s)
  BY DEF RingStore
<1>4. \A i \in 1 .. n : s[i] \in Bytes
  BY ElementOfSeq
<1> HIDE DEF n, m
<1>5. /\ DOMAIN ring' = Positions
      /\ \A i \in Positions : ring'[i] = IF i - writeptr \in 0 .. n - 1 THEN s[i - writeptr + 1]
                                      ELSE IF i < n - (BfrSize - writeptr)
                                           THEN s[BfrSize - writeptr + i + 1]
                                           ELSE ring[i]
  BY <1>3 DEF CopiedIn, n
<1>6. BufferOK'
  <2>1. ASSUME NEW i \in Positions PROVE ring'[i] \in Bytes \cup {NoByte}
    <3>1. CASE i - writeptr \in 0 .. n - 1
      <4>1. i - writeptr + 1 \in 1 .. n
        BY <3>1, <1>1
      <4> QED BY <3>1, <4>1, <1>4, <1>5
    <3>2. CASE i - writeptr \notin 0 .. n - 1 /\ i < n - (BfrSize - writeptr)
      <4>1. BfrSize - writeptr + i + 1 \in 1 .. n
        BY <3>2, <1>1, SizeIsNat DEF Positions
      <4> QED BY <3>2, <4>1, <1>4, <1>5
    <3>3. CASE i - writeptr \notin 0 .. n - 1 /\ ~(i < n - (BfrSize - writeptr))
      BY <3>3, <1>5 DEF BufferOK
    <3> QED BY <3>1, <3>2, <3>3
  <2>2. ring' \in [Positions -> Bytes \cup {NoByte}]
    BY <2>1, <1>3, <1>5 DEF CopiedIn
  <2> QED BY <1>2, <2>2 DEF BufferOK
<1>7. BytesStored' = m + n
  <2>1. BytesStored' = Between(readptr, Wrap(writeptr + n))
    BY <1>2, <1>6, Sizes
  <2> QED BY <1>1, <2>1, SizeIsNat DEF Between, Wrap
<1>8. ASSUME NEW i \in 1 .. m + n
      PROVE  ByteAt(i)' = IF i <= m THEN ByteAt(i) ELSE s[i - m]
  <2> DEFINE k == Wrap(readptr + i - 1)
  <2>1. readptr + i - 1 \in 0 .. 2 * BfrSize - 1
    BY <1>1, SizeIsNat
  <2>2. RingNormalize(readptr + i - 1) = k /\ k \in Positions
    BY <2>1, Normalized
  <2>3. ByteAt(i) = ring[k] /\ ByteAt(i)' = ring'[k]
    BY <1>2, <2>2 DEF ByteAt, RingNormalize, BfrSize
  <2>4. k = IF readptr + i - 1 < BfrSize THEN readptr + i - 1 ELSE readptr + i - 1 - BfrSize
    BY <1>1, SizeIsNat DEF Wrap
  <2>5. m = IF writeptr >= readptr THEN writeptr - readptr ELSE writeptr - readptr + BfrSize
    BY <1>1 DEF Between
  <2> HIDE DEF k
  <2>6. CASE i <= m
    <3>1. k - writeptr \notin 0 .. n - 1
      BY <1>1, <2>4, <2>5, <2>6, SizeIsNat
    <3>2. ~(k < n - (BfrSize - writeptr))
      BY <1>1, <2>4, <2>5, <2>6, SizeIsNat
    <3> QED BY <1>5, <2>2, <2>3, <2>6, <3>1, <3>2
  <2>7. CASE i > m /\ k >= writeptr
    <3>1. k - writeptr \in 0 .. n - 1 /\ k - writeptr + 1 = i - m
      BY <1>1, <2>4, <2>5, <2>7, SizeIsNat
    <3> QED BY <1>1, <1>5, <2>2, <2>3, <2>7, <3>1
  <2>8. CASE i > m /\ k < writeptr
    <3>1. k - writeptr \notin 0 .. n - 1
      BY <1>1, <2>2, <2>8 DEF Positions
    <3>2. k < n - (BfrSize - writeptr) /\ BfrSize - writeptr + k + 1 = i - m
      BY <1>1, <2>4, <2>5, <2>8, SizeIsNat
    <3> QED BY <1>1, <1>5, <2>2, <2>3, <2>8, <3>1, <3>2
  <2> QED BY <1>1, <2>2, <2>6, <2>7, <2>8 DEF Positions
<1>9. ASSUME NEW i \in 1 .. m + n
      PROVE  (IF i <= m THEN ByteAt(i) ELSE s[i - m]) \in Bytes
  <2>1. CASE i <= m
    BY <2>1, <1>1 DEF StoredAreBytes, m
  <2>2. CASE i > m
    <3>1. i - m \in 1 .. n
      BY <2>2, <1>1
    <3> QED BY <2>2, <3>1, <1>1, <1>4
  <2> QED BY <1>1, <2>1, <2>2
<1>10. StoredAreBytes'
  BY <1>7, <1>8, <1>9 DEF StoredAreBytes
<1>11. /\ Contents' \in Seq(Bytes) /\ Len(Contents') = m + n
       /\ \A i \in 1 .. m + n : Contents'[i] = IF i <= m THEN ByteAt(i) ELSE s[i - m]
  <2>1. Contents' = [i \in 1 .. m + n |-> IF i <= m THEN ByteAt(i) ELSE s[i - m]]
    BY <1>7, <1>8 DEF Contents
  <2>2. m + n \in Nat
    BY <1>1
  <2>3. [i \in 1 .. m + n |-> IF i <= m THEN ByteAt(i) ELSE s[i - m]] \in Seq(Bytes)
    BY <1>9, <2>2, IsASeq
  <2> QED BY <2>1, <2>2, <2>3, LenProperties
<1>12. /\ Contents \o s \in Seq(Bytes) /\ Len(Contents \o s) = m + n
       /\ \A i \in 1 .. m + n : (Contents \o s)[i] = IF i <= m THEN Contents[i] ELSE s[i - m]
  <2>1. Contents \in Seq(Bytes) /\ Len(Contents) = m
    BY ContentsLength DEF m
  <2> QED BY <2>1, ConcatProperties DEF n
<1>13. \A i \in 1 .. m + n : Contents'[i] = (Contents \o s)[i]
  <2>1. \A i \in 1 .. m : Contents[i] = ByteAt(i)
    BY ContentsLength DEF m
  <2> TAKE i \in 1 .. m + n
  <2>2. CASE i <= m
    <3>1. i \in 1 .. m
      BY <2>2, <1>1
    <3> QED BY <2>1, <2>2, <3>1, <1>11, <1>12
  <2>3. CASE ~(i <= m)
    BY <2>3, <1>11, <1>12
  <2> QED BY <2>2, <2>3
<1> QED BY <1>6, <1>10, <1>11, <1>12, <1>13, SeqEqual

-----------------------------------------------------------------------------
LEMMA StringsAreSeqs == \A s \in Strings : s \in Seq(Bytes) /\ Len(s) \in Counts
<1> SUFFICES ASSUME NEW n \in 0 .. Capacity + 1, NEW s \in [1 .. n -> Bytes]
             PROVE  s \in Seq(Bytes) /\ Len(s) \in Counts
  BY DEF Strings
<1>1. n \in Nat
  BY SizeIsNat
<1>2. s \in Seq(Bytes)
  BY <1>1, SeqDef
<1>3. Len(s) = n
  BY <1>1, <1>2, LenProperties
<1> QED BY <1>2, <1>3 DEF Counts

ReplyOK ==
    /\ reply.op \in {"init", "store", "view", "retr", "delete"}
    /\ reply.ret \in {0, -1} /\ reply.n \in Counts /\ reply.bytes \in Seq(Bytes)

LEMMA TypeIs == (TypeOK <=> BufferOK /\ ReplyOK) /\ (TypeOK' <=> BufferOK' /\ ReplyOK')
  BY DEF TypeOK, BufferOK, ReplyOK

LEMMA CallOK ==
  ASSUME NEW op \in {"init", "store", "view", "retr", "delete"}, NEW ret \in {0, -1},
         NEW n \in Counts, NEW b \in Seq(Bytes), reply' = Call(op, ret, n, b)
  PROVE  ReplyOK'
  BY DEF Call, ReplyOK

(* Initialising the pointers empties the ring.                             *)
LEMMA EmptyRing ==
  /\ readptr = 0 /\ writeptr = 0 => BytesStored = 0 /\ Contents = << >>
  /\ readptr' = 0 /\ writeptr' = 0 => BytesStored' = 0 /\ Contents' = << >>
<1>1. 0 \in Positions /\ Between(0, 0) = 0
  BY SizeIsNat DEF Positions, Between
<1>2. (0 - 0 + BfrSize) % BfrSize = 0
  BY <1>1, Counted
<1>3. readptr = 0 /\ writeptr = 0 => BytesStored = 0
  BY <1>2 DEF BytesStored
<1>4. readptr' = 0 /\ writeptr' = 0 => BytesStored' = 0
  BY <1>2 DEF BytesStored, BfrSize
<1>5. BytesStored = 0 => Contents = << >>
  BY DEF Contents
<1>6. BytesStored' = 0 => Contents' = << >>
  BY DEF Contents
<1> QED BY <1>3, <1>4, <1>5, <1>6

LEMMA InitIInv == Init => IInv
<1> SUFFICES ASSUME Init PROVE IInv
  OBVIOUS
<1>1. BufferOK
  BY SizeIsNat DEF Init, BufferOK, Positions
<1>2. ReplyOK
  BY SizeIsNat DEF Init, ReplyOK, Call, Counts
<1>3. StoredAreBytes
  BY EmptyRing DEF Init, StoredAreBytes
<1> QED BY <1>1, <1>2, <1>3, TypeIs DEF IInv

(* What each call does to the bytes stored, with the reply it gives.       *)
LEMMA CallEffects ==
  ASSUME IInv, [Next]_vars
  PROVE  IInv' /\ [Queue!QueueNext]_(Queue!queueVars)
<1>1. BufferOK /\ ReplyOK /\ StoredAreBytes
  BY TypeIs DEF IInv
<1>2. /\ Queue!Strings = Strings /\ Queue!Counts = Counts
      /\ \A op, ret, n, b : Queue!Call(op, ret, n, b) = Call(op, ret, n, b)
  BY DEF Queue!Strings, Queue!Counts, Queue!Call, Strings, Counts, Call
<1>3. /\ Contents \in Seq(Bytes) /\ Len(Contents) = BytesStored
      /\ BytesStored \in 0 .. Capacity /\ BytesFree = Capacity - BytesStored
      /\ Capacity \in Nat /\ << >> \in Seq(Bytes)
  BY <1>1, ContentsLength, Sizes, SizeIsNat
<1>4. \A n \in Counts : n \in Nat
  BY <1>3 DEF Counts
<1>5. CASE RingInit
  <2>1. BufferOK' /\ StoredAreBytes' /\ Contents' = << >>
    BY <1>1, <1>5, EmptyRing, SizeIsNat DEF RingInit, BufferOK, Positions, StoredAreBytes
  <2>2. ReplyOK'
    <3>1. 0 \in Counts
      BY <1>3 DEF Counts
    <3> QED BY <1>3, <1>5, <3>1, CallOK DEF RingInit
  <2>3. Queue!Clear
    BY <1>2, <1>5, <2>1 DEF Queue!Clear, RingInit, Contents, ByteAt
  <2> QED BY <2>1, <2>2, <2>3, TypeIs DEF IInv, Queue!QueueNext
<1>6. ASSUME NEW s \in Strings, RingStore(s)
      PROVE  IInv' /\ Queue!QueueNext
  <2>1. s \in Seq(Bytes) /\ Len(s) \in Counts
    BY StringsAreSeqs
  <2>2. BufferOK' /\ StoredAreBytes' /\ Contents' = Contents \o s
    BY <1>1, <1>6, <2>1, StoreAppends
  <2>3. reply' = Call("store", 0, Len(s), s) /\ Len(s) <= BytesFree
    BY <1>6 DEF RingStore
  <2>4. ReplyOK'
    BY <2>1, <2>3, CallOK
  <2>5. Len(Contents) + Len(s) <= Capacity
    BY <1>3, <1>4, <2>1, <2>3
  <2>6. Queue!Put(s)
    BY <1>2, <2>2, <2>3, <2>5 DEF Queue!Put, Contents, ByteAt
  <2> QED BY <1>2, <2>2, <2>4, <2>6, TypeIs DEF IInv, Queue!QueueNext
<1>7. ASSUME NEW s \in Strings, RefuseStore(s)
      PROVE  IInv' /\ Queue!QueueNext
  <2>1. s \in Seq(Bytes) /\ Len(s) \in Counts
    BY StringsAreSeqs
  <2>2. UNCHANGED <<ring, readptr, writeptr>> /\ reply' = Call("store", -1, Len(s), s)
    BY <1>7 DEF RefuseStore
  <2>3. BufferOK' /\ StoredAreBytes' /\ Contents' = Contents
    BY <1>1, <2>2 DEF BufferOK, StoredAreBytes, Contents, ByteAt, BytesStored
  <2>4. ReplyOK'
    BY <2>1, <2>2, CallOK
  <2>5. Len(Contents) + Len(s) > Capacity
    BY <1>3, <1>4, <1>7, <2>1 DEF RefuseStore
  <2>6. Queue!NoRoom(s)
    BY <1>2, <2>2, <2>3, <2>5 DEF Queue!NoRoom, Contents, ByteAt
  <2> QED BY <1>2, <2>3, <2>4, <2>6, TypeIs DEF IInv, Queue!QueueNext
<1>8. ASSUME NEW n \in Counts, RingView(n)
      PROVE  IInv' /\ Queue!QueueNext
  <2>1. UNCHANGED <<ring, readptr, writeptr>> /\ n <= BytesStored
    BY <1>8 DEF RingView
  <2>2. BufferOK' /\ StoredAreBytes' /\ Contents' = Contents
    BY <1>1, <2>1 DEF BufferOK, StoredAreBytes, Contents, ByteAt, BytesStored
  <2>3. CopiedOut(n) \in Seq(Bytes) /\ CopiedOut(n) = SubSeq(Contents, 1, n)
    BY <1>1, <1>4, <2>1, CopiedOutIsFront
  <2>4. reply' = Call("view", 0, n, CopiedOut(n))
    BY <1>8 DEF RingView
  <2>5. ReplyOK'
    BY <2>3, <2>4, CallOK
  <2>6. Queue!Peek(n)
    BY <1>2, <1>3, <2>1, <2>2, <2>3, <2>4 DEF Queue!Peek, Contents, ByteAt
  <2> QED BY <1>2, <2>2, <2>5, <2>6, TypeIs DEF IInv, Queue!QueueNext
<1>9. ASSUME NEW n \in Counts, RingRetr(n)
      PROVE  IInv' /\ Queue!QueueNext
  <2>1. /\ UNCHANGED <<ring, writeptr>> /\ readptr' = RingNormalize(readptr + n)
        /\ n <= BytesStored
    BY <1>9 DEF RingRetr
  <2>2. /\ BufferOK' /\ StoredAreBytes'
        /\ Contents' = SubSeq(Contents, n + 1, Len(Contents))
    BY <1>1, <1>4, <2>1, AdvanceDropsFront
  <2>3. CopiedOut(n) \in Seq(Bytes) /\ CopiedOut(n) = SubSeq(Contents, 1, n)
    BY <1>1, <1>4, <2>1, CopiedOutIsFront
  <2>4. reply' = Call("retr", 0, n, CopiedOut(n))
    BY <1>9 DEF RingRetr
  <2>5. ReplyOK'
    BY <2>3, <2>4, CallOK
  <2>6. Queue!Get(n)
    BY <1>2, <1>3, <2>1, <2>2, <2>3, <2>4 DEF Queue!Get, Contents, ByteAt
  <2> QED BY <1>2, <2>2, <2>5, <2>6, TypeIs DEF IInv, Queue!QueueNext
<1>10. ASSUME NEW n \in Counts, RingDelete(n)
       PROVE  IInv' /\ Queue!QueueNext
  <2>1. /\ UNCHANGED <<ring, writeptr>> /\ readptr' = RingNormalize(readptr + n)
        /\ n <= BytesStored /\ n > 0
    BY <1>10 DEF RingDelete
  <2>2. /\ BufferOK' /\ StoredAreBytes'
        /\ Contents' = SubSeq(Contents, n + 1, Len(Contents))
    BY <1>1, <1>4, <2>1, AdvanceDropsFront
  <2>3. reply' = Call("delete", 0, n, << >>)
    BY <1>10 DEF RingDelete
  <2>4. ReplyOK'
    BY <1>3, <2>3, CallOK
  <2>5. n \in 1 .. Len(Contents)
    BY <1>3, <1>4, <2>1
  <2>6. Queue!Drop(n)
    BY <1>2, <2>2, <2>3, <2>5 DEF Queue!Drop, Contents, ByteAt
  <2> QED BY <1>2, <2>2, <2>4, <2>6, TypeIs DEF IInv, Queue!QueueNext
<1>11. ASSUME NEW n \in Counts, NEW op \in {"view", "retr", "delete"}, RefuseCount(op, n)
       PROVE  IInv' /\ Queue!QueueNext
  <2>1. UNCHANGED <<ring, readptr, writeptr>> /\ reply' = Call(op, -1, n, << >>)
    BY <1>11 DEF RefuseCount
  <2>2. BufferOK' /\ StoredAreBytes' /\ Contents' = Contents
    BY <1>1, <2>1 DEF BufferOK, StoredAreBytes, Contents, ByteAt, BytesStored
  <2>3. ReplyOK'
    BY <1>3, <2>1, CallOK
  <2>4. Queue!TooMany(op, n)
    BY <1>2, <1>3, <1>11, <2>1, <2>2 DEF Queue!TooMany, RefuseCount, Contents, ByteAt
  <2> QED BY <1>2, <2>2, <2>3, <2>4, TypeIs DEF IInv, Queue!QueueNext
<1>12. CASE UNCHANGED vars
  <2>1. BufferOK' /\ StoredAreBytes' /\ Contents' = Contents /\ ReplyOK'
    BY <1>1, <1>12
    DEF vars, BufferOK, StoredAreBytes, Contents, ByteAt, BytesStored, ReplyOK
  <2>2. UNCHANGED Queue!queueVars
    BY <1>12, <2>1 DEF vars, Queue!queueVars, Contents, ByteAt
  <2> QED BY <2>1, <2>2, TypeIs DEF IInv
<1> QED
  BY <1>5, <1>6, <1>7, <1>8, <1>9, <1>10, <1>11, <1>12 DEF Next

-----------------------------------------------------------------------------
(* The invariant of a byte ring of any capacity: all it stores was put in. *)
THEOREM Invariance == Spec => []IInv
<1>1. IInv /\ [Next]_vars => IInv'
  BY CallEffects
<1> QED BY <1>1, InitIInv, PTL DEF Spec

(* Type correctness: no byte is handed out that was never written.         *)
THEOREM TypeCorrect == Spec => []TypeOK
<1>1. IInv => TypeOK
  BY DEF IInv
<1> QED BY <1>1, Invariance, PTL

(* The four questions about a ring agree for every capacity.               *)
THEOREM SizesAgree == Spec => []CountsAgree
<1>1. IInv => CountsAgree
  <2> SUFFICES ASSUME IInv PROVE CountsAgree
    OBVIOUS
  <2>1. BufferOK
    BY TypeIs DEF IInv
  <2>2. /\ BytesStored = Between(readptr, writeptr) /\ BytesStored \in 0 .. Capacity
        /\ BytesFree = Capacity - BytesStored
    BY <2>1, Sizes
  <2>3. /\ IsFull <=> Between(readptr, writeptr) = Capacity
        /\ IsEmpty <=> Between(readptr, writeptr) = 0
    BY <2>1, Counted DEF BufferOK, IsFull, IsEmpty
  <2> QED BY <2>2, <2>3, SizeIsNat DEF CountsAgree
<1> QED BY <1>1, Invariance, PTL

(* A byte ring of any capacity implements the bounded queue: bytes come    *)
(* out as they went in, wherever the pointers stand.                       *)
THEOREM RingIsQueue == Spec => ImplementsQueue
<1>1. Init => Queue!QueueInit
  <2> SUFFICES ASSUME Init PROVE Queue!QueueInit
    OBVIOUS
  <2>1. Contents = << >>
    BY EmptyRing DEF Init
  <2> QED BY <2>1 DEF Init, Queue!QueueInit, Queue!Call, Call, Contents, ByteAt
<1>2. IInv /\ [Next]_vars => [Queue!QueueNext]_(Queue!queueVars)
  BY CallEffects
<1> QED BY <1>1, <1>2, Invariance, PTL DEF Spec, ImplementsQueue, Queue!QueueSpec
=============================================================================
