--------------------------- MODULE DataRing_proofs ---------------------------
(***************************************************************************)
(* Proofs about DataRing, for every number of slots, time stamps and       *)
(* images.  Places are counted from the start of the ring; Slot(k) is the  *)
(* buffer at place k, and the lemmas say what an operation does to it.     *)
(***************************************************************************)
EXTENDS DataRing, FiniteSetTheorems, WellFoundedInduction, TLAPS

Slot(k) == dataStore[Normalize(start + k)]

(* The packets of the ring in their order, and the two things a store does *)
(* to them: a packet comes in at a place, the oldest one goes.             *)
Contents == [k \in 0 .. cnt - 1 |-> At(k)]

InsertAt(f, n, place, p) ==
    [k \in 0 .. n |-> IF k < place THEN f[k] ELSE IF k = place THEN p ELSE f[k - 1]]

DropFirst(f, n) == [k \in 0 .. n - 2 |-> f[k + 1]]

Sorted(f, n) == \A k \in 0 .. n - 1 : \A j \in 0 .. k - 1 : f[j].time < f[k].time

(* The inductive invariant.  Each part needs the others: sortedness makes  *)
(* the place of a packet well defined, the count makes the pointer at the  *)
(* end the one unused (or oldest) buffer that a store takes, and distinct  *)
(* buffers make sure that writing it changes no other packet.              *)
IInv == TypeOK /\ NoSharedBuffer /\ CountAgrees /\ SortedByTime

(* datar_normalize wraps once around the array, in both directions.        *)
LEMMA NormalizeWraps ==
  /\ \A x \in Index : Normalize(x) = x
  /\ \A x \in DataSize .. 2 * DataSize - 1 : Normalize(x) = x - DataSize
  /\ \A x \in -DataSize .. -1 : Normalize(x) = x + DataSize
  <1>1. \A x \in Index : Normalize(x) = x
    BY DataSizeAssumption DEF Normalize, Index
  <1>2. \A x \in DataSize .. 2 * DataSize - 1 : Normalize(x) = x - DataSize
    BY DataSizeAssumption DEF Normalize, Index
  <1>3. \A x \in -DataSize .. -1 : Normalize(x) = x + DataSize
    BY DataSizeAssumption DEF Normalize, Index
  <1> QED BY <1>1, <1>2, <1>3

(* The index k places after s, and the distance from index f to index i.   *)
LEMMA NormalizePlaces ==
  /\ \A s \in Index, k \in 0 .. DataSize :
        Normalize(s + k) = IF s + k < DataSize THEN s + k ELSE s + k - DataSize
  /\ \A i, f \in Index :
        Normalize(i - f) = IF i >= f THEN i - f ELSE i - f + DataSize
  <1>1. ASSUME NEW s \in Index, NEW k \in 0 .. DataSize
        PROVE  Normalize(s + k) = IF s + k < DataSize THEN s + k ELSE s + k - DataSize
    <2>1. s + k \in Index \/ s + k \in DataSize .. 2 * DataSize - 1
      BY DataSizeAssumption DEF Index
    <2> QED BY <2>1, NormalizeWraps, DataSizeAssumption DEF Index
  <1>2. ASSUME NEW i \in Index, NEW f \in Index
        PROVE  Normalize(i - f) = IF i >= f THEN i - f ELSE i - f + DataSize
    <2>1. i - f \in Index \/ i - f \in -DataSize .. -1
      BY DataSizeAssumption DEF Index
    <2> QED BY <2>1, NormalizeWraps, DataSizeAssumption DEF Index
  <1> QED BY <1>1, <1>2

(* Every place of the ring is an index of the array.                       *)
LEMMA NormalizeInside ==
  \A s \in Index, k \in 0 .. DataSize : Normalize(s + k) \in Index
  <1> SUFFICES ASSUME NEW s \in Index, NEW k \in 0 .. DataSize
               PROVE  Normalize(s + k) \in Index
    OBVIOUS
  <1>1. Normalize(s + k) = IF s + k < DataSize THEN s + k ELSE s + k - DataSize
    BY NormalizePlaces
  <1> QED BY <1>1, DataSizeAssumption DEF Index

(* Different places of the ring are different indices.                     *)
LEMMA PlacesApart ==
  ASSUME NEW s \in Index, NEW j \in 0 .. DataSize - 1, NEW k \in 0 .. DataSize - 1,
         Normalize(s + j) = Normalize(s + k)
  PROVE  j = k
  <1>1. Normalize(s + j) = IF s + j < DataSize THEN s + j ELSE s + j - DataSize
    BY NormalizePlaces, DataSizeAssumption
  <1>2. Normalize(s + k) = IF s + k < DataSize THEN s + k ELSE s + k - DataSize
    BY NormalizePlaces, DataSizeAssumption
  <1> QED BY <1>1, <1>2, DataSizeAssumption DEF Index

(* b places after the place a after s.                                     *)
LEMMA PlacesAdd ==
  ASSUME NEW s \in Index, NEW a \in 0 .. DataSize - 1, NEW b \in 0 .. DataSize - 1
  PROVE  Normalize(Normalize(s + a) + b)
             = Normalize(s + (IF a + b < DataSize THEN a + b ELSE a + b - DataSize))
  <1> DEFINE r == Normalize(s + a)
             j == IF a + b < DataSize THEN a + b ELSE a + b - DataSize
  <1>1. r = IF s + a < DataSize THEN s + a ELSE s + a - DataSize
    BY NormalizePlaces, DataSizeAssumption
  <1>2. r \in Index
    BY <1>1, DataSizeAssumption DEF Index
  <1>3. Normalize(s + j) = IF s + j < DataSize THEN s + j ELSE s + j - DataSize
    <2>1. j \in 0 .. DataSize
      BY DataSizeAssumption
    <2> HIDE DEF j
    <2> QED BY <2>1, NormalizePlaces
  <1>4. Normalize(r + b) = IF r + b < DataSize THEN r + b ELSE r + b - DataSize
    <2>1. b \in 0 .. DataSize
      BY DataSizeAssumption
    <2> HIDE DEF r
    <2> QED BY <2>1, <1>2, NormalizePlaces
  <1>5. Normalize(r + b) = Normalize(s + j)
    <2> HIDE DEF r
    <2>1. CASE a + b < DataSize
      BY <2>1, <1>1, <1>3, <1>4, DataSizeAssumption DEF Index
    <2>2. CASE a + b >= DataSize
      BY <2>2, <1>1, <1>3, <1>4, DataSizeAssumption DEF Index
    <2> QED BY <2>1, <2>2, DataSizeAssumption
  <1> QED BY <1>5

(* Where datar_rotate_right takes the pointer from that it puts k places   *)
(* after `first', when `last' is m places after it and not the same.       *)
Source(k, m) == IF k = 0 THEN m ELSE IF k <= m THEN k - 1 ELSE k

(* Every index gets the pointer of its source.                             *)
LEMMA RotateRightMoves ==
  ASSUME TypeOK, NEW first \in Index, NEW m \in 1 .. DataSize - 1
  PROVE  \A k \in 0 .. DataSize - 1 :
            RotateRight(first, Normalize(first + m))[Normalize(first + k)]
                = dataStore[Normalize(first + Source(k, m))]
  <1> SUFFICES ASSUME NEW k \in 0 .. DataSize - 1
               PROVE  RotateRight(first, Normalize(first + m))[Normalize(first + k)]
                          = dataStore[Normalize(first + Source(k, m))]
    OBVIOUS
  <1> DEFINE last == Normalize(first + m)
             i == Normalize(first + k)
  <1>1. /\ last \in Index /\ last # first
        /\ i \in Index /\ (i = first <=> k = 0)
    BY NormalizePlaces, DataSizeAssumption DEF Index
  <1>2. Normalize(last - first) = m
    BY <1>1, NormalizePlaces, DataSizeAssumption DEF Index
  <1>3. Normalize(i - first) = k
    BY <1>1, NormalizePlaces, DataSizeAssumption DEF Index
  <1>4. ASSUME k > 0 PROVE Normalize(i - 1) = Normalize(first + (k - 1))
    <2>1. 1 \in Index /\ k - 1 \in 0 .. DataSize
      BY <1>4, DataSizeAssumption DEF Index
    <2>2. Normalize(i - 1) = IF i >= 1 THEN i - 1 ELSE i - 1 + DataSize
      BY <1>1, <2>1, NormalizePlaces
    <2>3. Normalize(first + (k - 1)) =
              IF first + (k - 1) < DataSize THEN first + (k - 1)
              ELSE first + (k - 1) - DataSize
      BY <2>1, NormalizePlaces
    <2>4. i = IF first + k < DataSize THEN first + k ELSE first + k - DataSize
      BY NormalizePlaces, DataSizeAssumption
    <2> QED BY <1>4, <2>2, <2>3, <2>4, DataSizeAssumption DEF Index
  <1> HIDE DEF last, i
  <1>5. RotateRight(first, last)[i] =
            IF k = 0 THEN dataStore[last]
            ELSE IF k <= m THEN dataStore[Normalize(i - 1)] ELSE dataStore[i]
    BY <1>1, <1>2, <1>3 DEF RotateRight
  <1> USE DEF last, i
  <1> QED BY <1>4, <1>5 DEF Source

(* Rotating keeps every pointer, and keeps them apart.                     *)
LEMMA RotateRightKeepsApart ==
  ASSUME TypeOK, NoSharedBuffer, NEW first \in Index, NEW m \in 1 .. DataSize - 1
  PROVE  LET rotated == RotateRight(first, Normalize(first + m))
         IN  /\ rotated \in [Index -> Index]
             /\ \A i, j \in Index : rotated[i] = rotated[j] => i = j
  <1> DEFINE rotated == RotateRight(first, Normalize(first + m))
  <1>1. ASSUME NEW i \in Index
        PROVE  /\ Normalize(i - first) \in 0 .. DataSize - 1
               /\ i = Normalize(first + Normalize(i - first))
    BY NormalizePlaces, DataSizeAssumption DEF Index
  <1>2. ASSUME NEW k \in 0 .. DataSize - 1
        PROVE  /\ Source(k, m) \in 0 .. DataSize - 1
               /\ Normalize(first + Source(k, m)) \in Index
    <2>1. Source(k, m) \in 0 .. DataSize - 1
      BY DataSizeAssumption DEF Source
    <2> QED BY <2>1, NormalizePlaces, DataSizeAssumption DEF Index
  <1>3. rotated \in [Index -> Index]
    <2>1. ASSUME NEW i \in Index PROVE rotated[i] \in Index
      BY <2>1, <1>1, <1>2, RotateRightMoves DEF TypeOK
    <2> QED BY <2>1 DEF RotateRight
  <1>4. ASSUME NEW i \in Index, NEW j \in Index, rotated[i] = rotated[j]
        PROVE  i = j
    <2> DEFINE k == Normalize(i - first)
               l == Normalize(j - first)
    <2>1. /\ k \in 0 .. DataSize - 1 /\ i = Normalize(first + k)
          /\ l \in 0 .. DataSize - 1 /\ j = Normalize(first + l)
      BY <1>1
    <2> HIDE DEF k, l
    <2>2. dataStore[Normalize(first + Source(k, m))]
            = dataStore[Normalize(first + Source(l, m))]
      BY <2>1, <1>4, RotateRightMoves
    <2>3. Normalize(first + Source(k, m)) = Normalize(first + Source(l, m))
      BY <2>1, <2>2, <1>2 DEF NoSharedBuffer
    <2>4. Source(k, m) = Source(l, m)
      BY <2>1, <2>3, <1>2, PlacesApart
    <2>5. k = l
      BY <2>1, <2>4, DataSizeAssumption DEF Source
    <2> QED BY <2>1, <2>5
  <1> QED BY <1>3, <1>4

(* The time at a place of the ring is a time stamp, hence a number; the    *)
(* newest time is the one at the last place.                               *)
LEMMA RingTimes ==
  ASSUME TypeOK, CountAgrees
  PROVE  /\ \A k \in 0 .. cnt - 1 : TimeAt(k) \in Times /\ TimeAt(k) \in Nat
         /\ ~IsEmpty => NewestTime = TimeAt(cnt - 1)
  <1>1. \A k \in 0 .. cnt - 1 : TimeAt(k) \in Times /\ TimeAt(k) \in Nat
    BY TimesAssumption DEF CountAgrees, TimeAt, Packet
  <1>2. ASSUME ~IsEmpty PROVE NewestTime = TimeAt(cnt - 1)
    <2>1. cnt \in 1 .. DataSize /\ start \in Index /\ end \in Index
      BY <1>2 DEF TypeOK, IsEmpty
    <2>2. Normalize(end - 1) = Normalize(start + (cnt - 1))
      BY <2>1, NormalizeWraps, DataSizeAssumption DEF CountAgrees, Index
    <2> QED BY <2>2 DEF NewestTime, TimeAt, At
  <1> QED BY <1>1, <1>2

(* Among the places of a sorted ring that are not older than t there is a  *)
(* first one: its place is the number of places that are older.            *)
LEMMA FirstPlace ==
  ASSUME TypeOK, CountAgrees, SortedByTime, ~IsEmpty, NEW t \in Nat, ~NewerThanAll(t)
  PROVE  \E k \in 0 .. cnt - 1 :
            TimeAt(k) >= t /\ \A j \in 0 .. k - 1 : TimeAt(j) < t
  <1> DEFINE older == {j \in 0 .. cnt - 1 : TimeAt(j) < t}
             k == Cardinality(older)
  <1>1. cnt \in Nat \ {0}
    BY DataSizeAssumption DEF TypeOK, IsEmpty
  <1>2. /\ \A j \in 0 .. cnt - 1 : TimeAt(j) \in Nat
        /\ NewestTime = TimeAt(cnt - 1)
    BY RingTimes
  <1>3. IsFiniteSet(older) /\ k \in Nat
    <2>1. IsFiniteSet(0 .. cnt - 1)
      BY <1>1, FS_Interval
    <2> QED BY <2>1, FS_Subset, FS_CardinalityType
  <1>4. ASSUME NEW j \in older PROVE j < k
    <2>1. 0 .. j \subseteq older
      BY <1>1, <1>2 DEF SortedByTime
    <2>2. Cardinality(0 .. j) = j + 1
      BY FS_Interval, <1>1
    <2>3. Cardinality(0 .. j) <= k
      BY <2>1, <1>3, FS_Subset
    <2> QED BY <2>2, <2>3, <1>1, <1>3
  <1>5. ASSUME NEW j \in (0 .. cnt - 1) \ older PROVE k <= j
    <2>1. older \subseteq 0 .. j - 1
      <3> SUFFICES ASSUME NEW i \in older, i >= j PROVE FALSE
        BY <1>1
      <3>1. TimeAt(i) < t /\ TimeAt(j) >= t /\ TimeAt(i) \in Nat /\ TimeAt(j) \in Nat
        BY <1>2
      <3>2. i > j
        BY <3>1, <1>1
      <3> QED BY <3>1, <3>2, <1>1 DEF SortedByTime
    <2>2. IsFiniteSet(0 .. j - 1) /\ Cardinality(0 .. j - 1) = j
      <3>1. j \in Nat
        BY <1>1
      <3>2. CASE j = 0
        BY <3>2, FS_EmptySet
      <3>3. CASE j > 0
        BY <3>1, <3>3, FS_Interval
      <3> QED BY <3>1, <3>2, <3>3
    <2> QED BY <2>1, <2>2, FS_Subset
  <1>6. cnt - 1 \in (0 .. cnt - 1) \ older
    BY <1>1, <1>2 DEF NewerThanAll
  <1>7. k \in 0 .. cnt - 1
    BY <1>1, <1>3, <1>5, <1>6
  <1>8. k \notin older
    BY <1>4, <1>3
  <1>9. \A j \in 0 .. k - 1 : j \in older
    BY <1>5, <1>7, <1>3, <1>1
  <1> HIDE DEF k
  <1>10. TimeAt(k) >= t
    BY <1>2, <1>7, <1>8
  <1> QED BY <1>7, <1>9, <1>10

(* No two places of the ring share a buffer.                               *)
LEMMA SlotsApart ==
  ASSUME TypeOK, NoSharedBuffer,
         NEW j \in 0 .. DataSize - 1, NEW k \in 0 .. DataSize - 1, Slot(j) = Slot(k)
  PROVE  j = k
  <1>1. start \in Index
    BY DEF TypeOK
  <1>2. Normalize(start + j) \in Index /\ Normalize(start + k) \in Index
    BY <1>1, NormalizeInside, DataSizeAssumption
  <1>3. Normalize(start + j) = Normalize(start + k)
    BY <1>2 DEF NoSharedBuffer, Slot
  <1> QED BY <1>1, <1>3, PlacesApart

(* Time stamps of packets are numbers.                                     *)
LEMMA PacketTime == \A p \in Packet : p.time \in Nat
  BY TimesAssumption DEF Packet

(* Inserting a packet at its place keeps a sequence of packets sorted.     *)
LEMMA InsertSorted ==
  ASSUME NEW n \in Nat, NEW f \in [0 .. n - 1 -> Packet], Sorted(f, n),
         NEW place \in 0 .. n, NEW p \in Packet,
         \A j \in 0 .. place - 1 : f[j].time < p.time,
         \A j \in place .. n - 1 : p.time < f[j].time
  PROVE  /\ InsertAt(f, n, place, p) \in [0 .. n -> Packet]
         /\ Sorted(InsertAt(f, n, place, p), n + 1)
  <1> DEFINE g == InsertAt(f, n, place, p)
  <1>1. g \in [0 .. n -> Packet]
    BY DEF InsertAt
  <1>2. \A k \in 0 .. n - 1 : f[k].time \in Nat
    BY PacketTime
  <1>3. p.time \in Nat
    BY PacketTime
  <1>4. ASSUME NEW k \in 0 .. n, NEW j \in 0 .. k - 1
        PROVE  g[j].time < g[k].time
    <2>1. CASE k < place
      BY <2>1 DEF InsertAt, Sorted
    <2>2. CASE k = place
      BY <2>2 DEF InsertAt
    <2>3. CASE k > place /\ j < place
      <3>1. g[k] = f[k - 1] /\ g[j] = f[j] /\ j \in 0 .. n - 1 /\ k - 1 \in 0 .. n - 1
        BY <2>3 DEF InsertAt
      <3>2. f[j].time < p.time /\ p.time < f[k - 1].time
        BY <2>3, <3>1
      <3> HIDE DEF g
      <3> QED BY <3>1, <3>2, <1>2, <1>3
    <2>4. CASE k > place /\ j = place
      BY <2>4 DEF InsertAt
    <2>5. CASE k > place /\ j > place
      BY <2>5 DEF InsertAt, Sorted
    <2> QED BY <2>1, <2>2, <2>3, <2>4, <2>5
  <1> QED BY <1>1, <1>4 DEF Sorted

(* So does dropping the oldest packet.                                     *)
LEMMA DropSorted ==
  ASSUME NEW n \in Nat \ {0}, NEW f \in [0 .. n - 1 -> Packet], Sorted(f, n)
  PROVE  /\ DropFirst(f, n) \in [0 .. n - 2 -> Packet]
         /\ Sorted(DropFirst(f, n), n - 1)
  BY DEF DropFirst, Sorted

(* What PlaceOf chooses is that place.                                     *)
LEMMA PlaceOfFirst ==
  ASSUME TypeOK, CountAgrees, SortedByTime, ~IsEmpty, NEW t \in Nat, ~NewerThanAll(t)
  PROVE  /\ PlaceOf(t) \in 0 .. cnt - 1
         /\ TimeAt(PlaceOf(t)) >= t
         /\ \A j \in 0 .. PlaceOf(t) - 1 : TimeAt(j) < t
  BY FirstPlace DEF PlaceOf

-----------------------------------------------------------------------------
(* What a store does to the contents of the ring.                          *)

(* They are packets, the ones the slots point to, in order of time.        *)
LEMMA ContentsOf ==
  ASSUME TypeOK, CountAgrees
  PROVE  /\ Contents \in [0 .. cnt - 1 -> Packet]
         /\ \A k \in 0 .. cnt - 1 :
               /\ Contents[k] = At(k) /\ Contents[k].time = TimeAt(k)
               /\ Contents[k] = buffer[Slot(k)]
         /\ SortedByTime => Sorted(Contents, cnt)
  <1>1. \A k \in 0 .. cnt - 1 : Contents[k] = At(k)
    BY DEF Contents
  <1>2. Contents \in [0 .. cnt - 1 -> Packet]
    BY DEF Contents, CountAgrees
  <1>3. cnt \in Nat
    BY DataSizeAssumption DEF TypeOK
  <1> QED BY <1>1, <1>2, <1>3 DEF TimeAt, Sorted, SortedByTime, At, Slot

(* The invariants of the next state, by its contents.                      *)
LEMMA ContentsNext ==
  ASSUME cnt' \in Nat, end' = Normalize(start' + cnt'),
         Contents' \in [0 .. cnt' - 1 -> Packet], Sorted(Contents', cnt')
  PROVE  CountAgrees' /\ SortedByTime'
  <1>1. ASSUME NEW k \in 0 .. cnt' - 1
        PROVE  Contents'[k] = buffer'[dataStore'[Normalize(start' + k)]]
    BY DEF Contents, At
  <1>2. CountAgrees'
    BY <1>1 DEF CountAgrees, At
  <1>3. SortedByTime'
    <2> SUFFICES ASSUME NEW k \in 0 .. cnt' - 1, NEW j \in 0 .. k - 1
                 PROVE  buffer'[dataStore'[Normalize(start' + j)]].time
                            < buffer'[dataStore'[Normalize(start' + k)]].time
      BY DEF SortedByTime, TimeAt, At
    <2> DEFINE n == cnt'
    <2>1. j \in 0 .. n - 1
      <3>1. n \in Nat
        OBVIOUS
      <3>2. k \in 0 .. n - 1 /\ j \in 0 .. k - 1
        OBVIOUS
      <3> HIDE DEF n
      <3> QED BY <3>1, <3>2
    <2>2. Contents'[j].time < Contents'[k].time
      BY DEF Sorted
    <2> QED BY <1>1, <2>1, <2>2
  <1> QED BY <1>2, <1>3

(* At the end of a ring that is not full.                                  *)
LEMMA StoredAtEnd ==
  ASSUME TypeOK, NoSharedBuffer, CountAgrees, ~IsFull, NEW p \in Packet,
         UNCHANGED <<dataStore, start>>, cnt' = cnt + 1,
         buffer' = [buffer EXCEPT ![dataStore[end]] = p]
  PROVE  Contents' = InsertAt(Contents, cnt, cnt, p)
  <1>1. cnt \in 0 .. DataSize - 1 /\ cnt \in Nat
    BY DataSizeAssumption DEF TypeOK, IsFull
  <1>2. dataStore[end] = Slot(cnt)
    BY DEF CountAgrees, Slot
  <1>3. ASSUME NEW k \in 0 .. cnt
        PROVE  /\ Slot(k) \in Index
               /\ Slot(k) = Slot(cnt) => k = cnt
    <2>1. k \in 0 .. DataSize - 1 /\ k \in 0 .. DataSize
      BY <1>1, DataSizeAssumption
    <2>2. Normalize(start + k) \in Index
      BY <2>1, NormalizeInside DEF TypeOK
    <2> QED BY <1>1, <2>1, <2>2, SlotsApart DEF TypeOK, Slot
  <1>4. ASSUME NEW k \in 0 .. cnt
        PROVE  buffer'[Slot(k)] = IF k < cnt THEN Contents[k] ELSE p
    <2>1. CASE k < cnt
      <3>1. k \in 0 .. cnt - 1
        BY <2>1, <1>1
      <3>2. Slot(k) # Slot(cnt)
        BY <2>1, <1>3
      <3> QED BY <2>1, <3>1, <3>2, <1>2, <1>3, ContentsOf DEF TypeOK
    <2>2. CASE k = cnt
      BY <2>2, <1>2, <1>3 DEF TypeOK
    <2> QED BY <1>1, <2>1, <2>2
  <1>5. Contents' = [k \in 0 .. cnt |-> buffer'[Slot(k)]]
    BY <1>1 DEF Contents, At, Slot
  <1> QED BY <1>1, <1>4, <1>5 DEF InsertAt

(* At the end of a full ring: the oldest packet goes.                      *)
LEMMA StoredAtEndOfFull ==
  ASSUME TypeOK, NoSharedBuffer, CountAgrees, IsFull, NEW p \in Packet,
         UNCHANGED <<dataStore, cnt>>, start' = Normalize(start + 1),
         buffer' = [buffer EXCEPT ![dataStore[end]] = p]
  PROVE  Contents' = InsertAt(DropFirst(Contents, cnt), cnt - 1, cnt - 1, p)
  <1>1. cnt = DataSize /\ DataSize \in Nat /\ DataSize > 1 /\ start \in Index
    BY DataSizeAssumption DEF TypeOK, IsFull
  <1>2. dataStore[end] = Slot(0)
    <2>1. end = Normalize(start + 0)
      BY <1>1, NormalizePlaces, DataSizeAssumption DEF CountAgrees, Index
    <2> QED BY <2>1 DEF Slot
  <1>3. ASSUME NEW k \in 0 .. DataSize - 1
        PROVE  /\ Slot(k) \in Index
               /\ Slot(k) = Slot(0) => k = 0
    <2>1. k \in 0 .. DataSize /\ 0 \in 0 .. DataSize - 1
      BY <1>1
    <2>2. Normalize(start + k) \in Index
      BY <1>1, <2>1, NormalizeInside
    <2> QED BY <2>1, <2>2, SlotsApart DEF TypeOK, Slot
  <1>4. ASSUME NEW k \in 0 .. DataSize - 1
        PROVE  dataStore[Normalize(start' + k)]
                   = Slot(IF k < DataSize - 1 THEN k + 1 ELSE 0)
    <2>1. Normalize(start' + k)
              = Normalize(start + (IF k < DataSize - 1 THEN k + 1 ELSE 0))
      <3>1. /\ 1 \in 0 .. DataSize - 1
            /\ (IF 1 + k < DataSize THEN 1 + k ELSE 1 + k - DataSize)
                  = (IF k < DataSize - 1 THEN k + 1 ELSE 0)
        BY <1>1
      <3> QED BY <1>1, <3>1, PlacesAdd
    <2> QED BY <2>1 DEF Slot
  <1>5. ASSUME NEW k \in 0 .. DataSize - 1
        PROVE  buffer'[dataStore[Normalize(start' + k)]]
                   = IF k < DataSize - 1 THEN Contents[k + 1] ELSE p
    <2>1. CASE k < DataSize - 1
      <3>1. k + 1 \in 0 .. cnt - 1 /\ k + 1 \in 0 .. DataSize - 1 /\ k + 1 # 0
        BY <2>1, <1>1
      <3>2. Slot(k + 1) # Slot(0) /\ Slot(k + 1) \in Index
        BY <3>1, <1>3
      <3>3. Contents[k + 1] = buffer[Slot(k + 1)]
        BY <3>1, ContentsOf
      <3> QED BY <2>1, <3>2, <3>3, <1>2, <1>4 DEF TypeOK
    <2>2. CASE k = DataSize - 1
      <3>1. Slot(0) \in Index
        BY <1>1, <1>3
      <3> QED BY <2>2, <3>1, <1>2, <1>4, <1>1 DEF TypeOK
    <2> QED BY <1>1, <2>1, <2>2
  <1>6. Contents' = [k \in 0 .. cnt - 1 |-> buffer'[dataStore[Normalize(start' + k)]]]
    BY DEF Contents, At
  <1> QED BY <1>1, <1>5, <1>6 DEF InsertAt, DropFirst

(* At the start of a ring that is not full, all pointers rotated.          *)
LEMMA StoredAtStart ==
  ASSUME TypeOK, NoSharedBuffer, CountAgrees, ~IsFull, ~IsEmpty, NEW p \in Packet,
         dataStore' = RotateRight(start, end), UNCHANGED start, cnt' = cnt + 1,
         buffer' = [buffer EXCEPT ![dataStore'[start]] = p]
  PROVE  Contents' = InsertAt(Contents, cnt, 0, p)
  <1>1. /\ cnt \in 1 .. DataSize - 1 /\ cnt \in Nat /\ start \in Index
        /\ DataSize \in Nat
    BY DataSizeAssumption DEF TypeOK, IsFull, IsEmpty
  <1>2. ASSUME NEW k \in 0 .. cnt
        PROVE  dataStore'[Normalize(start + k)] = Slot(IF k = 0 THEN cnt ELSE k - 1)
    <2>1. k \in 0 .. DataSize - 1
      BY <1>1
    <2>2. dataStore'[Normalize(start + k)] = dataStore[Normalize(start + Source(k, cnt))]
      BY <1>1, <2>1, RotateRightMoves DEF CountAgrees
    <2>3. Source(k, cnt) = IF k = 0 THEN cnt ELSE k - 1
      BY <1>1 DEF Source
    <2> QED BY <2>2, <2>3 DEF Slot
  <1>3. ASSUME NEW k \in 0 .. cnt
        PROVE  /\ Slot(k) \in Index
               /\ Slot(k) = Slot(cnt) => k = cnt
    <2>1. k \in 0 .. DataSize - 1 /\ k \in 0 .. DataSize
      BY <1>1
    <2>2. Normalize(start + k) \in Index
      BY <1>1, <2>1, NormalizeInside
    <2> QED BY <1>1, <2>1, <2>2, SlotsApart DEF TypeOK, Slot
  <1>4. dataStore'[start] = Slot(cnt)
    <2>1. start = Normalize(start + 0)
      BY <1>1, NormalizeWraps DEF Index
    <2>2. dataStore'[Normalize(start + 0)] = Slot(cnt)
      BY <1>1, <1>2
    <2> QED BY <2>1, <2>2
  <1>5. ASSUME NEW k \in 0 .. cnt
        PROVE  buffer'[dataStore'[Normalize(start + k)]]
                   = IF k = 0 THEN p ELSE Contents[k - 1]
    <2>1. CASE k = 0
      BY <2>1, <1>1, <1>2, <1>3, <1>4 DEF TypeOK
    <2>2. CASE k > 0
      <3>1. k - 1 \in 0 .. cnt - 1 /\ k - 1 \in 0 .. cnt /\ k - 1 # cnt
        BY <2>2, <1>1
      <3>2. Slot(k - 1) # Slot(cnt) /\ Slot(k - 1) \in Index
        BY <3>1, <1>3
      <3>3. Contents[k - 1] = buffer[Slot(k - 1)]
        BY <3>1, ContentsOf
      <3> QED BY <2>2, <3>2, <3>3, <1>2, <1>4 DEF TypeOK
    <2> QED BY <1>1, <2>1, <2>2
  <1>6. Contents' = [k \in 0 .. cnt |-> buffer'[dataStore'[Normalize(start + k)]]]
    BY <1>1 DEF Contents, At
  <1> QED BY <1>1, <1>5, <1>6 DEF InsertAt

(* Between two packets, the pointers from that place on rotated: in a full *)
(* ring, the pointer of the oldest packet moves there, and the pointer     *)
(* before it in the array, of the newest packet, takes its index.          *)
Between(k, place) ==
    IF k < place THEN (IF k = 0 /\ IsFull THEN DataSize - 1 ELSE k)
    ELSE IF k = place THEN (IF IsFull THEN 0 ELSE cnt)
    ELSE IF k <= cnt THEN k - 1 ELSE k

LEMMA RotatedBetween ==
  ASSUME TypeOK, CountAgrees, NEW place \in 1 .. cnt - 1
  PROVE  /\ \E m \in 1 .. DataSize - 1 : end = Normalize(Normalize(start + place) + m)
         /\ \A k \in 0 .. DataSize - 1 :
               RotateRight(Normalize(start + place), end)[Normalize(start + k)]
                   = Slot(Between(k, place))
  <1> DEFINE location == Normalize(start + place)
             m == cnt - place
  <1>1. /\ DataSize \in Nat /\ DataSize > 1 /\ start \in Index
        /\ cnt \in 0 .. DataSize /\ place \in 0 .. DataSize - 1
        /\ m \in 1 .. DataSize - 1
    BY DataSizeAssumption DEF TypeOK
  <1>2. location \in Index
    BY <1>1, NormalizeInside
  <1>3. end = Normalize(location + m)
    <2>1. Normalize(location + m)
            = Normalize(start + (IF cnt < DataSize THEN cnt ELSE cnt - DataSize))
      <3>1. /\ m \in 0 .. DataSize - 1
            /\ (IF place + m < DataSize THEN place + m ELSE place + m - DataSize)
                  = (IF cnt < DataSize THEN cnt ELSE cnt - DataSize)
        BY <1>1
      <3>2. Normalize(location + m)
              = Normalize(start + (IF place + m < DataSize THEN place + m
                                   ELSE place + m - DataSize))
        <4> HIDE DEF m
        <4> QED BY <1>1, <3>1, PlacesAdd
      <3> QED BY <3>1, <3>2
    <2>2. CASE cnt < DataSize
      BY <2>1, <2>2 DEF CountAgrees
    <2>3. CASE cnt = DataSize
      <3>1. Normalize(start + cnt) = start
        BY <1>1, <2>3, NormalizePlaces DEF Index
      <3>2. start + 0 = start
        BY <1>1 DEF Index
      <3>3. Normalize(start + 0) = start
        BY <1>1, <3>2, NormalizeWraps
      <3>4. (IF cnt < DataSize THEN cnt ELSE cnt - DataSize) = 0
        BY <1>1, <2>3
      <3> QED BY <2>1, <3>1, <3>3, <3>4 DEF CountAgrees
    <2> QED BY <1>1, <2>2, <2>3
  <1>4. ASSUME NEW k \in 0 .. DataSize - 1
        PROVE  RotateRight(location, end)[Normalize(start + k)] = Slot(Between(k, place))
    <2> DEFINE q == IF k >= place THEN k - place ELSE k - place + DataSize
               r == Source(q, m)
    <2>1. /\ q \in 0 .. DataSize - 1
          /\ (IF place + q < DataSize THEN place + q ELSE place + q - DataSize) = k
      BY <1>1
    <2>2. Normalize(location + q) = Normalize(start + k)
      <3> HIDE DEF q
      <3> QED BY <1>1, <2>1, PlacesAdd
    <2>3. /\ r \in 0 .. DataSize - 1
          /\ (IF place + r < DataSize THEN place + r ELSE place + r - DataSize)
               = Between(k, place)
      <3>1. CASE k < place /\ k = 0 /\ IsFull
        BY <3>1, <1>1 DEF Source, Between, IsFull
      <3>2. CASE k < place /\ ~(k = 0 /\ IsFull)
        BY <3>2, <1>1 DEF Source, Between, IsFull
      <3>3. CASE k = place
        BY <3>3, <1>1 DEF Source, Between, IsFull
      <3>4. CASE k > place
        BY <3>4, <1>1 DEF Source, Between, IsFull
      <3> QED BY <1>1, <3>1, <3>2, <3>3, <3>4
    <2>4. RotateRight(location, end)[Normalize(location + q)]
            = dataStore[Normalize(location + r)]
      <3> HIDE DEF location, q, m
      <3> QED BY <1>1, <1>2, <1>3, <2>1, RotateRightMoves
    <2>5. Normalize(location + r) = Normalize(start + Between(k, place))
      <3> HIDE DEF r
      <3> QED BY <1>1, <2>3, PlacesAdd
    <2> QED BY <2>2, <2>4, <2>5 DEF Slot
  <1> QED BY <1>1, <1>3, <1>4

(* Inserting between two packets: into a full ring at one place less,      *)
(* because the oldest packet goes.                                         *)
LEMMA StoredBetween ==
  ASSUME TypeOK, NoSharedBuffer, CountAgrees, NEW place \in 1 .. cnt - 1, NEW p \in Packet,
         dataStore' = RotateRight(Normalize(start + place), end), AdvanceEnd,
         buffer' = [buffer EXCEPT ![dataStore'[Normalize(start + place)]] = p]
  PROVE  Contents' = IF IsFull
                     THEN InsertAt(DropFirst(Contents, cnt), cnt - 1, place - 1, p)
                     ELSE InsertAt(Contents, cnt, place, p)
  <1> DEFINE given == IF IsFull THEN 0 ELSE cnt
  <1>1. /\ DataSize \in Nat /\ DataSize > 1 /\ start \in Index
        /\ cnt \in 0 .. DataSize /\ place \in 0 .. DataSize - 1
        /\ given \in 0 .. DataSize - 1
    BY DataSizeAssumption DEF TypeOK, IsFull
  <1>2. \A k \in 0 .. DataSize - 1 :
            dataStore'[Normalize(start + k)] = Slot(Between(k, place))
    BY RotatedBetween
  <1>3. ASSUME NEW k \in 0 .. DataSize - 1
        PROVE  /\ Slot(k) \in Index
               /\ Slot(k) = Slot(given) => k = given
    <2>1. k \in 0 .. DataSize
      BY <1>1
    <2>2. Normalize(start + k) \in Index
      BY <1>1, <2>1, NormalizeInside
    <2> HIDE DEF given
    <2> QED BY <1>1, <2>2, SlotsApart DEF TypeOK, Slot
  <1>4. dataStore'[Normalize(start + place)] = Slot(given)
    <2>1. Between(place, place) = given
      BY <1>1 DEF Between
    <2> QED BY <1>1, <1>2, <2>1
  <1>5. ASSUME NEW k \in 0 .. DataSize - 1, NEW j \in 0 .. cnt - 1,
               j # given, Between(k, place) = j
        PROVE  buffer'[dataStore'[Normalize(start + k)]] = Contents[j]
    <2>1. j \in 0 .. DataSize - 1
      BY <1>1
    <2>2. Slot(j) # Slot(given) /\ Slot(j) \in Index
      BY <1>3, <1>5, <2>1
    <2>3. Contents[j] = buffer[Slot(j)]
      BY ContentsOf
    <2>4. dataStore'[Normalize(start + k)] = Slot(j)
      BY <1>2, <1>5
    <2> QED BY <1>4, <2>2, <2>3, <2>4 DEF TypeOK
  <1>6. buffer'[dataStore'[Normalize(start + place)]] = p
    <2>1. Slot(given) \in Index
      BY <1>1, <1>3
    <2> QED BY <1>4, <2>1 DEF TypeOK
  <1>7. CASE ~IsFull
    <2>1. start' = start /\ cnt' = cnt + 1 /\ cnt \in 0 .. DataSize - 1 /\ given = cnt
      BY <1>1, <1>7 DEF AdvanceEnd, IsFull
    <2>2. ASSUME NEW k \in 0 .. cnt
          PROVE  buffer'[dataStore'[Normalize(start + k)]]
                     = IF k < place THEN Contents[k]
                       ELSE IF k = place THEN p ELSE Contents[k - 1]
      <3>0. k \in 0 .. DataSize - 1
        BY <1>1, <2>1
      <3>1. CASE k < place
        <4>1. k \in 0 .. cnt - 1 /\ k # given /\ Between(k, place) = k
          BY <1>1, <1>7, <2>1, <3>1 DEF Between
        <4> QED BY <1>5, <3>0, <3>1, <4>1
      <3>2. CASE k = place
        BY <1>6, <3>2
      <3>3. CASE k > place
        <4>1. k - 1 \in 0 .. cnt - 1 /\ k - 1 # given /\ Between(k, place) = k - 1
          BY <1>1, <1>7, <2>1, <3>3 DEF Between
        <4> QED BY <1>1, <1>5, <3>0, <3>3, <4>1
      <3> QED BY <1>1, <3>1, <3>2, <3>3
    <2>3. Contents' = [k \in 0 .. cnt |-> buffer'[dataStore'[Normalize(start + k)]]]
      BY <1>1, <2>1 DEF Contents, At
    <2> QED BY <1>7, <2>2, <2>3 DEF InsertAt
  <1>8. CASE IsFull
    <2>1. /\ start' = Normalize(start + 1) /\ cnt' = cnt /\ cnt = DataSize /\ given = 0
      BY <1>1, <1>8 DEF AdvanceEnd, IsFull
    <2>2. ASSUME NEW k \in 0 .. cnt - 1
          PROVE  buffer'[dataStore'[Normalize(start' + k)]]
                     = IF k < place - 1 THEN Contents[k + 1]
                       ELSE IF k = place - 1 THEN p ELSE Contents[k]
      <3> DEFINE j == IF 1 + k < DataSize THEN 1 + k ELSE 1 + k - DataSize
      <3>1. Normalize(start' + k) = Normalize(start + j)
        <4>1. 1 \in 0 .. DataSize - 1 /\ k \in 0 .. DataSize - 1
          BY <1>1, <2>1
        <4> QED BY <1>1, <2>1, <4>1, PlacesAdd
      <3>2. CASE k < place - 1
        <4>1. /\ j = k + 1 /\ k + 1 \in 0 .. DataSize - 1 /\ k + 1 \in 0 .. cnt - 1
              /\ k + 1 # given /\ Between(k + 1, place) = k + 1
          BY <1>1, <2>1, <3>2 DEF Between
        <4>2. buffer'[dataStore'[Normalize(start + (k + 1))]] = Contents[k + 1]
          BY <1>5, <4>1
        <4> QED BY <3>1, <3>2, <4>1, <4>2
      <3>3. CASE k = place - 1
        <4>1. j = place
          BY <1>1, <2>1, <3>3
        <4> QED BY <1>1, <1>6, <3>1, <3>3, <4>1
      <3>4. CASE k > place - 1 /\ k < DataSize - 1
        <4>1. /\ j = k + 1 /\ k + 1 \in 0 .. DataSize - 1
              /\ k # given /\ Between(k + 1, place) = k
          BY <1>1, <2>1, <3>4 DEF Between
        <4>2. buffer'[dataStore'[Normalize(start + (k + 1))]] = Contents[k]
          BY <1>5, <4>1
        <4> QED BY <1>1, <3>1, <3>4, <4>1, <4>2
      <3>5. CASE k = DataSize - 1
        <4>1. /\ j = 0 /\ 0 \in 0 .. DataSize - 1
              /\ k # given /\ Between(0, place) = k /\ k > place - 1
          BY <1>1, <1>8, <2>1, <3>5 DEF Between
        <4>2. buffer'[dataStore'[Normalize(start + 0)]] = Contents[k]
          BY <1>5, <4>1
        <4> QED BY <1>1, <3>1, <4>1, <4>2
      <3> QED BY <1>1, <2>1, <3>2, <3>3, <3>4, <3>5
    <2>3. Contents' = [k \in 0 .. cnt - 1 |-> buffer'[dataStore'[Normalize(start' + k)]]]
      BY <2>1 DEF Contents, At
    <2>4. InsertAt(DropFirst(Contents, cnt), cnt - 1, place - 1, p)
            = [k \in 0 .. cnt - 1 |-> IF k < place - 1 THEN Contents[k + 1]
                                       ELSE IF k = place - 1 THEN p ELSE Contents[k]]
      <3>1. \A k \in 0 .. cnt - 1 :
               /\ k < place - 1 => k \in 0 .. cnt - 2
               /\ k > place - 1 => k - 1 \in 0 .. cnt - 2 /\ (k - 1) + 1 = k
        BY <1>1, <2>1
      <3> QED BY <1>1, <2>1, <3>1 DEF InsertAt, DropFirst
    <2> QED BY <1>8, <2>2, <2>3, <2>4
  <1> QED BY <1>7, <1>8

(* A packet of a time stamp already present.                               *)
LEMMA StoredOver ==
  ASSUME TypeOK, NoSharedBuffer, CountAgrees, NEW place \in 0 .. cnt - 1, NEW p \in Packet,
         UNCHANGED <<dataStore, start, cnt>>,
         buffer' = [buffer EXCEPT ![dataStore[Normalize(start + place)]] = p]
  PROVE  Contents' = [Contents EXCEPT ![place] = p]
  <1>1. \A k \in 0 .. cnt - 1 : k \in 0 .. DataSize - 1 /\ k \in 0 .. DataSize
    BY DataSizeAssumption DEF TypeOK
  <1>2. ASSUME NEW k \in 0 .. cnt - 1
        PROVE  /\ Slot(k) \in Index
               /\ Slot(k) = Slot(place) => k = place
    <2>1. Normalize(start + k) \in Index
      BY <1>1, NormalizeInside DEF TypeOK
    <2> QED BY <1>1, <2>1, SlotsApart DEF TypeOK, Slot
  <1>3. ASSUME NEW k \in 0 .. cnt - 1
        PROVE  buffer'[Slot(k)] = IF k = place THEN p ELSE Contents[k]
    <2>1. buffer' = [buffer EXCEPT ![Slot(place)] = p]
      BY DEF Slot
    <2>2. Contents[k] = buffer[Slot(k)]
      BY ContentsOf
    <2> QED BY <1>2, <2>1, <2>2 DEF TypeOK
  <1>4. Contents' = [k \in 0 .. cnt - 1 |-> buffer'[Slot(k)]]
    BY DEF Contents, At, Slot
  <1>5. Contents \in [0 .. cnt - 1 -> Packet]
    BY ContentsOf
  <1> QED BY <1>3, <1>4, <1>5

-----------------------------------------------------------------------------
(* The invariant, one lemma per branch of RING_STORE.                      *)

(* The new end is where the new start and the new count put it.            *)
LEMMA EndNext ==
  ASSUME TypeOK, CountAgrees
  PROVE  /\ Normalize(end + 1) \in Index /\ Normalize(start + 1) \in Index
         /\ ~IsFull => Normalize(end + 1) = Normalize(start + (cnt + 1))
         /\ IsFull => Normalize(end + 1) = Normalize(Normalize(start + 1) + cnt)
  <1>1. /\ DataSize \in Nat /\ DataSize > 1 /\ start \in Index /\ end \in Index
        /\ cnt \in 0 .. DataSize /\ 1 \in 0 .. DataSize
    BY DataSizeAssumption DEF TypeOK
  <1>2. Normalize(end + 1) \in Index /\ Normalize(start + 1) \in Index
    BY <1>1, NormalizeInside
  <1>3. ASSUME ~IsFull PROVE Normalize(end + 1) = Normalize(start + (cnt + 1))
    <2>1. cnt \in 0 .. DataSize - 1 /\ cnt + 1 \in 0 .. DataSize
      BY <1>1, <1>3 DEF IsFull
    <2>2. end = IF start + cnt < DataSize THEN start + cnt ELSE start + cnt - DataSize
      BY <1>1, NormalizePlaces DEF CountAgrees
    <2>3. Normalize(end + 1) = IF end + 1 < DataSize THEN end + 1 ELSE end + 1 - DataSize
      BY <1>1, NormalizePlaces
    <2>4. Normalize(start + (cnt + 1)) =
              IF start + (cnt + 1) < DataSize THEN start + (cnt + 1)
              ELSE start + (cnt + 1) - DataSize
      BY <1>1, <2>1, NormalizePlaces
    <2> QED BY <1>1, <2>1, <2>2, <2>3, <2>4 DEF Index
  <1>4. ASSUME IsFull PROVE Normalize(end + 1) = Normalize(Normalize(start + 1) + cnt)
    <2>1. end = start
      BY <1>1, <1>4, NormalizePlaces DEF CountAgrees, IsFull, Index
    <2>2. Normalize(Normalize(start + 1) + cnt) = Normalize(start + 1)
      BY <1>1, <1>2, <1>4, NormalizePlaces DEF IsFull, Index
    <2> QED BY <2>1, <2>2
  <1> QED BY <1>2, <1>3, <1>4

(* store_element keeps the types.                                          *)
LEMMA StoreTypes ==
  ASSUME TypeOK, NEW p \in Packet, NEW index \in Index, StoreElement(index, p),
         dataStore' \in [Index -> Index], start' \in Index, end' \in Index,
         cnt' \in 0 .. DataSize, allocated' \in BOOLEAN
  PROVE  TypeOK'
  <1>1. buffer' \in [Index -> Packet \cup {NoPacket}]
    BY DEF StoreElement, TypeOK
  <1>2. p.time \in Times
    BY DEF Packet
  <1>3. reply' \in [act : {"store", "retr", "reset"}, time : Times \cup {0},
                    ret : {0, 1}, packet : Packet \cup {NoPacket}]
    BY <1>2 DEF StoreElement, Reply
  <1> QED BY <1>1, <1>3 DEF TypeOK

(* A packet in an empty ring.                                              *)
LEMMA StoreFirstKeeps ==
  ASSUME IInv, NEW p \in Packet, StoreFirst(p)
  PROVE  IInv'
  <1>1. /\ TypeOK /\ NoSharedBuffer /\ CountAgrees /\ SortedByTime
        /\ cnt = 0 /\ cnt' = 1 /\ ~IsFull /\ DataSize \in Nat /\ DataSize > 1
    BY DataSizeAssumption DEF IInv, StoreFirst, IsEmpty, IsFull
  <1>2. TypeOK'
    <2>1. /\ end \in Index /\ start' \in Index /\ dataStore' \in [Index -> Index]
          /\ allocated' \in BOOLEAN
      BY <1>1 DEF TypeOK, StoreFirst
    <2>2. end' \in Index
      BY <1>1, EndNext DEF StoreFirst
    <2>3. cnt' \in 0 .. DataSize
      BY <1>1
    <2> QED BY <1>1, <2>1, <2>2, <2>3, StoreTypes DEF StoreFirst
  <1>3. NoSharedBuffer'
    BY <1>1 DEF NoSharedBuffer, StoreFirst
  <1>4. end' = Normalize(start' + cnt')
    BY <1>1, EndNext DEF StoreFirst
  <1>5. Contents' = InsertAt(Contents, cnt, cnt, p)
    BY <1>1, StoredAtEnd DEF StoreFirst, StoreElement
  <1>6. Contents' \in [0 .. cnt' - 1 -> Packet] /\ Sorted(Contents', cnt')
    <2>1. Contents \in [0 .. cnt - 1 -> Packet] /\ Sorted(Contents, cnt)
      BY <1>1, ContentsOf
    <2>2. /\ 0 \in Nat /\ 0 \in 0 .. 0
          /\ \A j \in 0 .. 0 - 1 : FALSE
      OBVIOUS
    <2>3. /\ InsertAt(Contents, cnt, cnt, p) \in [0 .. cnt -> Packet]
          /\ Sorted(InsertAt(Contents, cnt, cnt, p), cnt + 1)
      BY <1>1, <2>1, <2>2, InsertSorted
    <2> QED BY <1>1, <1>5, <2>3
  <1>7. CountAgrees' /\ SortedByTime'
    BY <1>1, <1>4, <1>6, ContentsNext
  <1> QED BY <1>2, <1>3, <1>7 DEF IInv

(* A packet older than all, the ring having room.                          *)
LEMMA StoreOldestKeeps ==
  ASSUME IInv, NEW p \in Packet, StoreOldest(p)
  PROVE  IInv'
  <1>1. /\ TypeOK /\ NoSharedBuffer /\ CountAgrees /\ SortedByTime
        /\ ~IsEmpty /\ ~IsFull /\ DataSize \in Nat /\ DataSize > 1
        /\ cnt \in 1 .. DataSize - 1 /\ cnt \in Nat /\ start \in Index
        /\ start' = start /\ cnt' = cnt + 1
        /\ dataStore' = RotateRight(start, Normalize(start + cnt))
    BY DataSizeAssumption DEF IInv, StoreOldest, IsEmpty, IsFull, TypeOK, CountAgrees
  <1>2. dataStore' \in [Index -> Index] /\ NoSharedBuffer'
    BY <1>1, RotateRightKeepsApart DEF NoSharedBuffer
  <1>3. TypeOK'
    <2>1. allocated' \in BOOLEAN
      BY <1>1 DEF TypeOK, StoreOldest
    <2>2. end' \in Index
      BY <1>1, EndNext DEF StoreOldest
    <2>3. cnt' \in 0 .. DataSize
      BY <1>1
    <2> QED BY <1>1, <1>2, <2>1, <2>2, <2>3, StoreTypes DEF StoreOldest
  <1>4. end' = Normalize(start' + cnt')
    BY <1>1, EndNext DEF StoreOldest
  <1>5. Contents' = InsertAt(Contents, cnt, 0, p)
    BY <1>1, StoredAtStart DEF StoreOldest, StoreElement
  <1>6. Contents' \in [0 .. cnt' - 1 -> Packet] /\ Sorted(Contents', cnt')
    <2>1. Contents \in [0 .. cnt - 1 -> Packet] /\ Sorted(Contents, cnt)
      BY <1>1, ContentsOf
    <2>2. ASSUME NEW j \in 0 .. cnt - 1 PROVE p.time < Contents[j].time
      <3>1. p.time < Contents[0].time
        BY <1>1, ContentsOf DEF StoreOldest, OlderThanAll
      <3>2. j > 0 => Contents[0].time < Contents[j].time
        BY <1>1, <2>1 DEF Sorted
      <3>3. Contents[0].time \in Nat /\ Contents[j].time \in Nat /\ p.time \in Nat
        BY <1>1, <2>1, PacketTime
      <3> QED BY <1>1, <3>1, <3>2, <3>3
    <2>3. /\ 0 \in 0 .. cnt
          /\ \A j \in 0 .. 0 - 1 : Contents[j].time < p.time
      BY <1>1
    <2>4. /\ InsertAt(Contents, cnt, 0, p) \in [0 .. cnt -> Packet]
          /\ Sorted(InsertAt(Contents, cnt, 0, p), cnt + 1)
      BY <1>1, <2>1, <2>2, <2>3, InsertSorted
    <2>5. cnt' - 1 = cnt
      BY <1>1
    <2> QED BY <1>1, <1>5, <2>4, <2>5
  <1>7. CountAgrees' /\ SortedByTime'
    BY <1>1, <1>4, <1>6, ContentsNext
  <1> QED BY <1>2, <1>3, <1>7 DEF IInv

(* A packet newer than all, in any ring.                                   *)
LEMMA StoreNewestKeeps ==
  ASSUME IInv, NEW p \in Packet, StoreNewest(p)
  PROVE  IInv'
  <1>1. /\ TypeOK /\ NoSharedBuffer /\ CountAgrees /\ SortedByTime
        /\ ~IsEmpty /\ DataSize \in Nat /\ DataSize > 1
        /\ cnt \in 1 .. DataSize /\ cnt \in Nat \ {0} /\ cnt \in Nat
        /\ AdvanceEnd /\ dataStore' = dataStore /\ StoreElement(end, p)
    BY DataSizeAssumption DEF IInv, StoreNewest, IsEmpty, TypeOK
  <1>2. NoSharedBuffer'
    BY <1>1 DEF NoSharedBuffer
  <1>3. TypeOK'
    <2>1. end \in Index /\ allocated' \in BOOLEAN /\ dataStore' \in [Index -> Index]
      BY <1>1 DEF TypeOK, StoreNewest
    <2>2. end' \in Index /\ start' \in Index
      BY <1>1, EndNext DEF AdvanceEnd, TypeOK
    <2>3. cnt' \in 0 .. DataSize
      BY <1>1 DEF AdvanceEnd, IsFull
    <2> QED BY <1>1, <2>1, <2>2, <2>3, StoreTypes
  <1>4. end' = Normalize(start' + cnt')
    BY <1>1, EndNext DEF AdvanceEnd
  <1>5. /\ Contents \in [0 .. cnt - 1 -> Packet] /\ Sorted(Contents, cnt)
        /\ \A j \in 0 .. cnt - 1 : Contents[j].time < p.time
    <2>1. Contents \in [0 .. cnt - 1 -> Packet] /\ Sorted(Contents, cnt)
      BY <1>1, ContentsOf
    <2>2. ASSUME NEW j \in 0 .. cnt - 1 PROVE Contents[j].time < p.time
      <3>1. cnt - 1 \in 0 .. cnt - 1
        BY <1>1
      <3>2. p.time > Contents[cnt - 1].time
        BY <1>1, <3>1, ContentsOf, RingTimes DEF StoreNewest, NewerThanAll
      <3>3. j < cnt - 1 => Contents[j].time < Contents[cnt - 1].time
        BY <1>1, <2>1, <3>1 DEF Sorted
      <3>4. /\ Contents[cnt - 1].time \in Nat /\ Contents[j].time \in Nat
            /\ p.time \in Nat
        BY <2>1, <3>1, PacketTime
      <3> QED BY <1>1, <3>2, <3>3, <3>4
    <2> QED BY <2>1, <2>2
  <1>6. Contents' \in [0 .. cnt' - 1 -> Packet] /\ Sorted(Contents', cnt')
    <2>1. CASE ~IsFull
      <3>1. Contents' = InsertAt(Contents, cnt, cnt, p) /\ cnt' = cnt + 1
        BY <1>1, <2>1, StoredAtEnd DEF AdvanceEnd, StoreElement
      <3>2. /\ InsertAt(Contents, cnt, cnt, p) \in [0 .. cnt -> Packet]
            /\ Sorted(InsertAt(Contents, cnt, cnt, p), cnt + 1)
        <4>1. cnt \in 0 .. cnt /\ \A j \in cnt .. cnt - 1 : FALSE
          BY <1>1
        <4> QED BY <1>1, <1>5, <4>1, InsertSorted
      <3>3. cnt' - 1 = cnt
        BY <1>1, <3>1
      <3> QED BY <3>1, <3>2, <3>3
    <2>2. CASE IsFull
      <3> DEFINE kept == DropFirst(Contents, cnt)
                 n == cnt - 1
      <3>1. Contents' = InsertAt(kept, n, n, p) /\ cnt' = cnt
        BY <1>1, <2>2, StoredAtEndOfFull DEF AdvanceEnd, StoreElement
      <3>2. kept \in [0 .. n - 1 -> Packet] /\ Sorted(kept, n)
        <4>1. n - 1 = cnt - 2
          BY <1>1
        <4> QED BY <1>1, <1>5, <4>1, DropSorted
      <3>3. \A j \in 0 .. n - 1 : kept[j].time < p.time
        BY <1>1, <1>5 DEF DropFirst
      <3>4. n \in Nat /\ n \in 0 .. n /\ (\A j \in n .. n - 1 : FALSE) /\ n + 1 = cnt
        BY <1>1
      <3> HIDE DEF kept, n
      <3>5. /\ InsertAt(kept, n, n, p) \in [0 .. n -> Packet]
            /\ Sorted(InsertAt(kept, n, n, p), n + 1)
        BY <3>2, <3>3, <3>4, InsertSorted
      <3>6. n = cnt' - 1
        BY <1>1, <3>1, <3>4
      <3> QED BY <3>1, <3>4, <3>5, <3>6
    <2> QED BY <2>1, <2>2
  <1>7. cnt' \in Nat
    BY <1>1 DEF AdvanceEnd
  <1>8. CountAgrees' /\ SortedByTime'
    BY <1>4, <1>6, <1>7, ContentsNext
  <1> QED BY <1>2, <1>3, <1>8 DEF IInv

(* Where a packet goes that is neither the oldest nor the newest.          *)
LEMMA PlaceWithin ==
  ASSUME TypeOK, CountAgrees, SortedByTime, ~IsEmpty, NEW t \in Nat, WithinRing(t)
  PROVE  /\ PlaceOf(t) \in 0 .. cnt - 1
         /\ \A j \in 0 .. PlaceOf(t) - 1 : Contents[j].time < t
         /\ ExactMatch(t) => Contents[PlaceOf(t)].time = t
         /\ BetweenTwo(t) => /\ PlaceOf(t) \in 1 .. cnt - 1
                             /\ \A j \in PlaceOf(t) .. cnt - 1 : t < Contents[j].time
  <1> DEFINE place == PlaceOf(t)
  <1>1. /\ place \in 0 .. cnt - 1 /\ TimeAt(place) >= t
        /\ \A j \in 0 .. place - 1 : TimeAt(j) < t
    BY PlaceOfFirst DEF WithinRing
  <1>2. /\ cnt \in Nat \ {0} /\ \A j \in 0 .. cnt - 1 : TimeAt(j) \in Nat
        /\ \A j \in 0 .. cnt - 1 : Contents[j].time = TimeAt(j)
    BY RingTimes, ContentsOf, DataSizeAssumption DEF TypeOK, IsEmpty
  <1>3. TimeAt(0) <= t
    <2>1. 0 \in 0 .. cnt - 1
      BY <1>2
    <2> QED BY <1>2, <2>1 DEF WithinRing, OlderThanAll
  <1>4. ExactMatch(t) => TimeAt(place) = t
    BY DEF ExactMatch
  <1>5. BetweenTwo(t) => TimeAt(place) # t
    BY DEF BetweenTwo
  <1> HIDE DEF place
  <1>6. \A j \in 0 .. place - 1 : Contents[j].time < t
    BY <1>1, <1>2
  <1>7. ASSUME BetweenTwo(t)
        PROVE  place \in 1 .. cnt - 1 /\ \A j \in place .. cnt - 1 : t < Contents[j].time
    <2>1. TimeAt(place) > t /\ TimeAt(place) \in Nat
      BY <1>1, <1>2, <1>5, <1>7
    <2>2. place # 0
      BY <1>2, <1>3, <2>1
    <2>3. ASSUME NEW j \in place .. cnt - 1 PROVE t < Contents[j].time
      <3>1. j \in 0 .. cnt - 1 /\ TimeAt(j) \in Nat
        BY <1>1, <1>2
      <3>2. j > place => TimeAt(place) < TimeAt(j)
        BY <1>1, <3>1 DEF SortedByTime
      <3> QED BY <1>1, <1>2, <2>1, <3>1, <3>2
    <2> QED BY <1>1, <1>2, <2>2, <2>3
  <1> QED BY <1>1, <1>2, <1>4, <1>6, <1>7 DEF place

(* A packet between two others, in any ring.                               *)
LEMMA StoreBetweenKeeps ==
  ASSUME IInv, NEW p \in Packet, StoreBetween(p)
  PROVE  IInv'
  <1> DEFINE place == PlaceOf(p.time)
             location == Normalize(start + place)
  <1>1. /\ TypeOK /\ NoSharedBuffer /\ CountAgrees /\ SortedByTime
        /\ ~IsEmpty /\ DataSize \in Nat /\ DataSize > 1 /\ start \in Index
        /\ cnt \in 1 .. DataSize /\ cnt \in Nat \ {0} /\ cnt \in Nat
        /\ AdvanceEnd /\ StoreElement(location, p)
        /\ dataStore' = RotateRight(location, end)
    BY DataSizeAssumption DEF IInv, StoreBetween, IsEmpty, TypeOK
  <1>2. /\ place \in 1 .. cnt - 1
        /\ \A j \in 0 .. place - 1 : Contents[j].time < p.time
        /\ \A j \in place .. cnt - 1 : p.time < Contents[j].time
    <2>1. p.time \in Nat /\ WithinRing(p.time) /\ BetweenTwo(p.time)
      BY PacketTime DEF StoreBetween, BetweenTwo
    <2> QED BY <1>1, <2>1, PlaceWithin
  <1>3. place \in 0 .. DataSize /\ location \in Index
    <2>1. place \in 0 .. DataSize
      BY <1>1, <1>2
    <2> HIDE DEF place
    <2> QED BY <1>1, <2>1, NormalizeInside
  <1> HIDE DEF place
  <1>4. dataStore' \in [Index -> Index] /\ NoSharedBuffer'
    <2>1. PICK m \in 1 .. DataSize - 1 : end = Normalize(location + m)
      BY <1>1, <1>2, RotatedBetween
    <2> HIDE DEF location
    <2> QED BY <1>1, <1>3, <2>1, RotateRightKeepsApart DEF NoSharedBuffer
  <1>5. TypeOK'
    <2>1. allocated' \in BOOLEAN
      BY <1>1 DEF TypeOK, StoreBetween
    <2>2. end' \in Index /\ start' \in Index
      BY <1>1, EndNext DEF AdvanceEnd
    <2>3. cnt' \in 0 .. DataSize
      BY <1>1 DEF AdvanceEnd, IsFull
    <2> QED BY <1>1, <1>3, <1>4, <2>1, <2>2, <2>3, StoreTypes
  <1>6. end' = Normalize(start' + cnt')
    BY <1>1, EndNext DEF AdvanceEnd
  <1>7. Contents \in [0 .. cnt - 1 -> Packet] /\ Sorted(Contents, cnt)
    BY <1>1, ContentsOf
  <1>8. Contents' = IF IsFull
                    THEN InsertAt(DropFirst(Contents, cnt), cnt - 1, place - 1, p)
                    ELSE InsertAt(Contents, cnt, place, p)
    BY <1>1, <1>2, StoredBetween DEF StoreElement
  <1>9. Contents' \in [0 .. cnt' - 1 -> Packet] /\ Sorted(Contents', cnt')
    <2>1. CASE ~IsFull
      <3>1. cnt' = cnt + 1 /\ cnt' - 1 = cnt /\ place \in 0 .. cnt
        BY <1>1, <1>2, <2>1 DEF AdvanceEnd
      <3>2. /\ InsertAt(Contents, cnt, place, p) \in [0 .. cnt -> Packet]
            /\ Sorted(InsertAt(Contents, cnt, place, p), cnt + 1)
        BY <1>1, <1>2, <1>7, <3>1, InsertSorted
      <3> QED BY <1>8, <2>1, <3>1, <3>2
    <2>2. CASE IsFull
      <3> DEFINE kept == DropFirst(Contents, cnt)
                 n == cnt - 1
                 at == place - 1
      <3>1. Contents' = InsertAt(kept, n, at, p) /\ cnt' = cnt
        BY <1>1, <1>8, <2>2 DEF AdvanceEnd
      <3>2. kept \in [0 .. n - 1 -> Packet] /\ Sorted(kept, n)
        <4>1. n - 1 = cnt - 2
          BY <1>1
        <4> QED BY <1>1, <1>7, <4>1, DropSorted
      <3>3. ASSUME NEW j \in 0 .. n - 1 PROVE kept[j] = Contents[j + 1]
        BY <1>1 DEF DropFirst
      <3>4. /\ \A j \in 0 .. at - 1 : j \in 0 .. n - 1 /\ j + 1 \in 0 .. place - 1
            /\ \A j \in at .. n - 1 : j \in 0 .. n - 1 /\ j + 1 \in place .. cnt - 1
        BY <1>1, <1>2
      <3>5. /\ \A j \in 0 .. at - 1 : kept[j].time < p.time
            /\ \A j \in at .. n - 1 : p.time < kept[j].time
        BY <1>2, <3>3, <3>4
      <3>6. n \in Nat /\ at \in 0 .. n /\ n + 1 = cnt
        BY <1>1, <1>2
      <3> HIDE DEF kept, n, at
      <3>7. /\ InsertAt(kept, n, at, p) \in [0 .. n -> Packet]
            /\ Sorted(InsertAt(kept, n, at, p), n + 1)
        BY <3>2, <3>5, <3>6, InsertSorted
      <3>8. n = cnt' - 1
        BY <1>1, <3>1, <3>6
      <3> QED BY <3>1, <3>6, <3>7, <3>8
    <2> QED BY <2>1, <2>2
  <1>10. cnt' \in Nat
    BY <1>1 DEF AdvanceEnd
  <1>11. CountAgrees' /\ SortedByTime'
    BY <1>6, <1>9, <1>10, ContentsNext
  <1> QED BY <1>4, <1>5, <1>11 DEF IInv

(* A packet of a time stamp the ring has.                                  *)
LEMMA OverwriteKeeps ==
  ASSUME IInv, NEW p \in Packet, Overwrite(p)
  PROVE  IInv'
  <1> DEFINE place == PlaceOf(p.time)
  <1>1. /\ TypeOK /\ NoSharedBuffer /\ CountAgrees /\ SortedByTime
        /\ ~IsEmpty /\ cnt \in Nat /\ cnt \in 0 .. DataSize /\ start \in Index
        /\ UNCHANGED <<dataStore, start, end, cnt, allocated>>
        /\ StoreElement(Normalize(start + place), p)
    BY DataSizeAssumption DEF IInv, Overwrite, TypeOK
  <1>2. place \in 0 .. cnt - 1 /\ Contents[place].time = p.time
    <2>1. p.time \in Nat /\ WithinRing(p.time) /\ ExactMatch(p.time)
      BY PacketTime DEF Overwrite, ExactMatch
    <2> QED BY <1>1, <2>1, PlaceWithin
  <1> HIDE DEF place
  <1>3. TypeOK'
    <2>1. Normalize(start + place) \in Index
      <3>1. place \in 0 .. DataSize
        BY <1>1, <1>2, DataSizeAssumption
      <3> QED BY <1>1, <3>1, NormalizeInside
    <2> QED BY <1>1, <2>1, StoreTypes DEF TypeOK
  <1>4. NoSharedBuffer'
    BY <1>1 DEF NoSharedBuffer
  <1>5. Contents' = [Contents EXCEPT ![place] = p]
    BY <1>1, <1>2, StoredOver DEF StoreElement
  <1>6. Contents \in [0 .. cnt - 1 -> Packet] /\ Sorted(Contents, cnt)
    BY <1>1, ContentsOf
  <1>7. Contents' \in [0 .. cnt - 1 -> Packet]
    BY <1>5, <1>6
  <1>8. \A k \in 0 .. cnt - 1 : Contents'[k].time = Contents[k].time
    BY <1>2, <1>5, <1>6
  <1>9. Sorted(Contents', cnt)
    <2>1. \A k \in 0 .. cnt - 1 : \A j \in 0 .. k - 1 : j \in 0 .. cnt - 1
      BY <1>1
    <2> QED BY <1>6, <1>8, <2>1 DEF Sorted
  <1>10. cnt' \in Nat /\ end' = Normalize(start' + cnt')
    BY <1>1 DEF CountAgrees
  <1>11. CountAgrees' /\ SortedByTime'
    BY <1>1, <1>7, <1>9, <1>10, ContentsNext
  <1> QED BY <1>3, <1>4, <1>11 DEF IInv

(* Calls that leave the ring as it is.                                     *)
LEMMA ReplyKeeps ==
  ASSUME IInv, UNCHANGED <<dataStore, buffer, start, end, cnt, allocated>>,
         reply' \in [act : {"store", "retr", "reset"}, time : Times \cup {0},
                     ret : {0, 1}, packet : Packet \cup {NoPacket}]
  PROVE  IInv'
  <1>1. TypeOK'
    BY DEF IInv, TypeOK
  <1>2. NoSharedBuffer'
    BY DEF IInv, NoSharedBuffer
  <1>3. CountAgrees' /\ SortedByTime'
    BY DEF IInv, CountAgrees, SortedByTime, TimeAt, At
  <1> QED BY <1>1, <1>2, <1>3 DEF IInv

(* Whatever branch RING_STORE takes.                                       *)
LEMMA RingStoreKeeps ==
  ASSUME IInv, NEW p \in Packet, RingStore(p)
  PROVE  IInv'
  <1>1. CASE StoreFirst(p)
    BY <1>1, StoreFirstKeeps
  <1>2. CASE RefuseOldest(p)
    <2>1. p.time \in Times
      BY DEF Packet
    <2> QED BY <1>2, <2>1, ReplyKeeps DEF RefuseOldest, Reply
  <1>3. CASE StoreOldest(p)
    BY <1>3, StoreOldestKeeps
  <1>4. CASE StoreNewest(p)
    BY <1>4, StoreNewestKeeps
  <1>5. CASE StoreBetween(p)
    BY <1>5, StoreBetweenKeeps
  <1>6. CASE Overwrite(p)
    BY <1>6, OverwriteKeeps
  <1> QED BY <1>1, <1>2, <1>3, <1>4, <1>5, <1>6 DEF RingStore

(* A retrieval hands out a packet of the ring, never an unwritten buffer.  *)
LEMMA RingRetrKeeps ==
  ASSUME IInv, NEW t \in Times \cup {0}, RingRetr(t)
  PROVE  IInv'
  <1>1. TypeOK /\ CountAgrees /\ SortedByTime /\ t \in Nat /\ t + 1 \in Nat
    BY TimesAssumption DEF IInv
  <1>2. CASE RetrOldest(t)
    <2>1. 0 \in 0 .. cnt - 1
      BY <1>1, <1>2, DataSizeAssumption DEF RetrOldest, IsEmpty, TypeOK
    <2>2. At(0) \in Packet
      BY <1>1, <2>1 DEF CountAgrees
    <2> QED BY <1>2, <2>2, ReplyKeeps DEF RetrOldest, RetrElement, Reply
  <1>3. CASE RetrWithin(t)
    <2>1. PlaceOf(t + 1) \in 0 .. cnt - 1
      BY <1>1, <1>3, PlaceWithin DEF RetrWithin
    <2>2. At(PlaceOf(t + 1)) \in Packet
      BY <1>1, <2>1 DEF CountAgrees
    <2> QED BY <1>3, <2>2, ReplyKeeps DEF RetrWithin, RetrElement, Reply
  <1>4. CASE RetrNothing(t)
    BY <1>4, ReplyKeeps DEF RetrNothing, Reply
  <1> QED BY <1>2, <1>3, <1>4 DEF RingRetr

(* An empty ring that starts at index 0.                                   *)
LEMMA EmptyRing ==
  /\ 0 \in Index /\ Normalize(0 + 0) = 0 /\ 0 \in 0 .. DataSize
  /\ \A k \in 0 .. 0 - 1 : FALSE
  <1>1. 0 \in Index /\ 0 \in 0 .. DataSize
    BY DataSizeAssumption DEF Index
  <1> QED BY <1>1, NormalizeWraps

(* RING_DEALLOC and RING_ALLOC leave an empty ring.                        *)
LEMMA RingDeallocKeeps ==
  ASSUME IInv, RingDealloc
  PROVE  IInv'
  <1>1. TypeOK'
    BY EmptyRing DEF IInv, TypeOK, RingDealloc, Reply
  <1>2. NoSharedBuffer'
    BY DEF IInv, NoSharedBuffer, RingDealloc
  <1>3. CountAgrees' /\ SortedByTime'
    BY EmptyRing DEF CountAgrees, SortedByTime, RingDealloc
  <1> QED BY <1>1, <1>2, <1>3 DEF IInv

(* New buffers, one for each index.                                        *)
LEMMA RingAllocKeeps ==
  ASSUME IInv, RingAlloc
  PROVE  IInv'
  <1>1. TypeOK'
    BY EmptyRing DEF TypeOK, RingAlloc, Reply
  <1>2. NoSharedBuffer'
    BY DEF NoSharedBuffer, RingAlloc
  <1>3. CountAgrees' /\ SortedByTime'
    BY EmptyRing DEF CountAgrees, SortedByTime, RingAlloc
  <1> QED BY <1>1, <1>2, <1>3 DEF IInv

(* The invariant holds at first, and every step keeps it.                  *)
LEMMA InitIInv == Init => IInv
  <1> SUFFICES ASSUME Init PROVE IInv
    OBVIOUS
  <1>1. TypeOK
    BY EmptyRing DEF Init, TypeOK, Reply
  <1>2. NoSharedBuffer
    BY DEF Init, NoSharedBuffer
  <1>3. CountAgrees /\ SortedByTime
    BY EmptyRing DEF Init, CountAgrees, SortedByTime
  <1> QED BY <1>1, <1>2, <1>3 DEF IInv

(* Every call keeps it.                                                    *)
LEMMA NextIInv == IInv /\ [Next]_vars => IInv'
  <1> SUFFICES ASSUME IInv, [Next]_vars PROVE IInv'
    OBVIOUS
  <1>1. CASE \E p \in Packet : RingStore(p)
    BY <1>1, RingStoreKeeps
  <1>2. CASE \E t \in Times \cup {0} : RingRetr(t)
    BY <1>2, RingRetrKeeps
  <1>3. CASE RingDealloc
    BY <1>3, RingDeallocKeeps
  <1>4. CASE RingAlloc
    BY <1>4, RingAllocKeeps
  <1>5. CASE UNCHANGED vars
    BY <1>5, ReplyKeeps DEF vars, IInv, TypeOK
  <1> QED BY <1>1, <1>2, <1>3, <1>4, <1>5 DEF Next

(* So it always holds.                                                     *)
LEMMA IInvAlways == Spec => []IInv
  BY InitIInv, NextIInv, PTL DEF Spec

-----------------------------------------------------------------------------
(* The search loop.  The interval between min and max gets smaller with    *)
(* every round, so what it ends with is shown for the least interval first *)
(* that could be an exception.                                             *)
LEMMA LeastExists ==
  ASSUME NEW S \in SUBSET Nat, S # {}
  PROVE  \E m \in S : \A k \in S : m <= k
  <1> DEFINE R == {ss \in Nat \X Nat : ss[1] < ss[2]}
  <1>1. IsWellFoundedOn(R, Nat)
    BY NatLessThanWellFounded DEF OpToRel
  <1>2. PICK m \in S : \A k \in S : ~(<<k, m>> \in R)
    <2> HIDE DEF R
    <2> QED BY <1>1, WFMin
  <1>3. ASSUME NEW k \in S, k < m PROVE FALSE
    <2>1. <<k, m>> \in R
      BY <1>3
    <2> QED BY <1>2, <2>1
  <1> QED BY <1>3

(* What the loop is to end with, when it is started with the bounds b and  *)
(* q is the last place of a packet that is not newer.                      *)
Within(q, b) ==
    IF b[1] >= b[2] \/ q < b[1] THEN b[1] ELSE IF q > b[2] THEN b[2] ELSE q

(* One round of it, on the bounds that the later ones are given.           *)
Round(narrow, t) ==
    [b \in Bounds |-> IF b[1] >= b[2] THEN b[1] ELSE narrow[Half(t, b)]]

(* The middle is behind min and not behind max, so each half is smaller.   *)
LEMMA HalfIsSmaller ==
  ASSUME cnt \in Nat, NEW lo \in 0 .. cnt - 1, NEW hi \in 0 .. cnt - 1, lo < hi, NEW t
  PROVE  /\ Mid(<<lo, hi>>) \in lo + 1 .. hi
         /\ \E l, h \in 0 .. cnt - 1 :
               /\ Half(t, <<lo, hi>>) = <<l, h>>
               /\ l <= h /\ h - l < hi - lo
               /\ t < TimeAt(Mid(<<lo, hi>>)) => l = lo /\ h = Mid(<<lo, hi>>) - 1
               /\ ~(t < TimeAt(Mid(<<lo, hi>>))) => l = Mid(<<lo, hi>>) /\ h = hi
  <1> DEFINE mid == Mid(<<lo, hi>>)
  <1>1. mid = lo + (hi - lo + 1) \div 2
    BY DEF Mid
  <1>2. mid \in lo + 1 .. hi
    BY <1>1
  <1>3. Half(t, <<lo, hi>>) = IF t < TimeAt(mid) THEN <<lo, mid - 1>> ELSE <<mid, hi>>
    BY DEF Half
  <1> HIDE DEF mid
  <1>4. CASE t < TimeAt(mid)
    <2>1. mid - 1 \in 0 .. cnt - 1 /\ lo <= mid - 1 /\ mid - 1 - lo < hi - lo
      BY <1>2
    <2> QED BY <1>2, <1>3, <1>4, <2>1 DEF mid
  <1>5. CASE ~(t < TimeAt(mid))
    <2>1. mid \in 0 .. cnt - 1 /\ mid <= hi /\ hi - mid < hi - lo
      BY <1>2
    <2> QED BY <1>2, <1>3, <1>5, <2>1 DEF mid
  <1> QED BY <1>4, <1>5

(* A round keeps the half where the place is.                              *)
LEMMA HalfKeepsPlace ==
  ASSUME cnt \in Nat, NEW lo \in 0 .. cnt - 1, NEW hi \in 0 .. cnt - 1, lo < hi,
         NEW t, NEW q \in 0 .. cnt - 1,
         \A k \in 0 .. cnt - 1 : t < TimeAt(k) <=> q < k
  PROVE  Within(q, <<lo, hi>>) = Within(q, Half(t, <<lo, hi>>))
  <1>1. PICK l, h \in 0 .. cnt - 1 :
          /\ Half(t, <<lo, hi>>) = <<l, h>>
          /\ l <= h /\ h - l < hi - lo
          /\ t < TimeAt(Mid(<<lo, hi>>)) => l = lo /\ h = Mid(<<lo, hi>>) - 1
          /\ ~(t < TimeAt(Mid(<<lo, hi>>))) => l = Mid(<<lo, hi>>) /\ h = hi
    BY HalfIsSmaller, Zenon
  <1>2. Mid(<<lo, hi>>) \in lo + 1 .. hi /\ Mid(<<lo, hi>>) \in 0 .. cnt - 1
    <2>1. Mid(<<lo, hi>>) \in lo + 1 .. hi
      BY HalfIsSmaller, Zenon
    <2> QED BY <2>1
  <1>3. /\ Within(q, <<lo, hi>>)
              = IF lo >= hi \/ q < lo THEN lo ELSE IF q > hi THEN hi ELSE q
        /\ Within(q, <<l, h>>)
              = IF l >= h \/ q < l THEN l ELSE IF q > h THEN h ELSE q
    BY DEF Within
  <1> DEFINE mid == Mid(<<lo, hi>>)
  <1>4. /\ q < mid => l = lo /\ h = mid - 1
        /\ ~(q < mid) => l = mid /\ h = hi
    BY <1>1, <1>2
  <1> HIDE DEF mid
  <1>5. Within(q, <<lo, hi>>) = Within(q, <<l, h>>)
    BY <1>2, <1>3, <1>4 DEF mid
  <1> QED BY <1>1, <1>5

(* The loop is well defined: the recursive function satisfies its equation. *)
LEMMA LoopIsRounds ==
  ASSUME cnt \in Nat, NEW t, NEW q \in 0 .. cnt - 1,
         \A k \in 0 .. cnt - 1 : t < TimeAt(k) <=> q < k
  PROVE  \E narrow : narrow = Round(narrow, t) /\ LastNotNewer(t) = narrow[<<0, cnt - 1>>]
  <1> DEFINE g == [b \in Bounds |-> Within(q, b)]
  <1>1. ASSUME NEW b \in Bounds
        PROVE  g[b] = IF b[1] >= b[2] THEN b[1] ELSE g[Half(t, b)]
    <2>1. PICK lo, hi \in 0 .. cnt - 1 : b = <<lo, hi>>
      BY DEF Bounds
    <2>2. CASE lo >= hi
      BY <2>1, <2>2 DEF Within
    <2>3. CASE ~(lo >= hi)
      <3>1. lo < hi
        BY <2>3
      <3>2. Half(t, b) \in Bounds
        BY <2>1, <3>1, HalfIsSmaller DEF Bounds
      <3>3. Within(q, b) = Within(q, Half(t, b))
        BY <2>1, <3>1, HalfKeepsPlace
      <3> QED BY <2>1, <2>3, <3>2, <3>3
    <2> QED BY <2>2, <2>3
  <1>2. g = Round(g, t)
    BY <1>1 DEF Round
  <1> HIDE DEF g
  <1> DEFINE narrow == CHOOSE f : f = Round(f, t)
  <1>3. narrow = Round(narrow, t)
    BY <1>2
  <1>4. LastNotNewer(t) = narrow[<<0, cnt - 1>>]
    BY DEF LastNotNewer, Round
  <1> QED BY <1>3, <1>4

(* The loop ends with the last packet that is not newer than the target.   *)
LEMMA LoopFindsLast ==
  ASSUME cnt \in Nat \ {0}, NEW t, NEW q \in 0 .. cnt - 1,
         \A k \in 0 .. cnt - 1 : t < TimeAt(k) <=> q < k
  PROVE  LastNotNewer(t) = q
  <1>1. PICK narrow : narrow = Round(narrow, t) /\ LastNotNewer(t) = narrow[<<0, cnt - 1>>]
    BY LoopIsRounds
  <1> DEFINE Wrong == {d \in Nat : \E lo, hi \in 0 .. cnt - 1 :
                          hi - lo = d /\ narrow[<<lo, hi>>] # Within(q, <<lo, hi>>)}
  <1>2. ASSUME NEW lo \in 0 .. cnt - 1, NEW hi \in 0 .. cnt - 1
        PROVE  narrow[<<lo, hi>>] = IF lo >= hi THEN lo ELSE narrow[Half(t, <<lo, hi>>)]
    <2> DEFINE b == <<lo, hi>>
    <2>1. b \in Bounds /\ b[1] = lo /\ b[2] = hi
      BY DEF Bounds
    <2> HIDE DEF b
    <2>2. Round(narrow, t)[b] = IF b[1] >= b[2] THEN b[1] ELSE narrow[Half(t, b)]
      BY <2>1 DEF Round
    <2> QED BY <1>1, <2>1, <2>2 DEF b
  <1>3. Wrong = {}
    <2> SUFFICES ASSUME Wrong # {} PROVE FALSE
      OBVIOUS
    <2>1. PICK d \in Wrong : \A e \in Wrong : d <= e
      <3>1. Wrong \in SUBSET Nat
        OBVIOUS
      <3> HIDE DEF Wrong
      <3> QED BY <3>1, LeastExists
    <2>2. PICK lo, hi \in 0 .. cnt - 1 :
            d \in Nat /\ hi - lo = d /\ narrow[<<lo, hi>>] # Within(q, <<lo, hi>>)
      BY <2>1
    <2>3. lo < hi
      <3>1. lo >= hi => narrow[<<lo, hi>>] = lo /\ Within(q, <<lo, hi>>) = lo
        BY <1>2 DEF Within
      <3> QED BY <2>2, <3>1
    <2>4. PICK l, h \in 0 .. cnt - 1 :
            Half(t, <<lo, hi>>) = <<l, h>> /\ l <= h /\ h - l < hi - lo
      BY <2>3, HalfIsSmaller
    <2>5. narrow[<<lo, hi>>] = narrow[<<l, h>>]
      BY <1>2, <2>3, <2>4
    <2>6. Within(q, <<lo, hi>>) = Within(q, <<l, h>>)
      BY <2>3, <2>4, HalfKeepsPlace
    <2>7. h - l \in Wrong
      <3>1. h - l \in Nat /\ narrow[<<l, h>>] # Within(q, <<l, h>>)
        BY <2>2, <2>4, <2>5, <2>6
      <3> QED BY <3>1
    <2> HIDE DEF Wrong
    <2>8. d <= h - l
      BY <2>1, <2>7
    <2> QED BY <2>2, <2>4, <2>8
  <1>4. narrow[<<0, cnt - 1>>] = Within(q, <<0, cnt - 1>>)
    <2>1. 0 \in 0 .. cnt - 1 /\ cnt - 1 \in 0 .. cnt - 1 /\ cnt - 1 - 0 \in Nat
      OBVIOUS
    <2> QED BY <1>3, <2>1
  <1>5. Within(q, <<0, cnt - 1>>) = q
    BY DEF Within
  <1> QED BY <1>1, <1>4, <1>5

(* So the search ends where the packet is to be stored, or retrieved from. *)
LEMMA BisectIsPlaceOf ==
  ASSUME IInv, ~IsEmpty, NEW t \in Nat, WithinRing(t)
  PROVE  Bisect(t) = PlaceOf(t)
  <1> DEFINE p == PlaceOf(t)
             q == IF TimeAt(p) = t THEN p ELSE p - 1
  <1>1. cnt \in Nat \ {0}
    BY DEF IInv, TypeOK, IsEmpty
  <1>2. /\ p \in 0 .. cnt - 1 /\ TimeAt(p) >= t
        /\ \A j \in 0 .. p - 1 : TimeAt(j) < t
    BY PlaceOfFirst DEF IInv, WithinRing
  <1>3. \A k \in 0 .. cnt - 1 : TimeAt(k) \in Nat
    BY RingTimes DEF IInv
  <1>4. ~(t < TimeAt(0))
    BY DEF WithinRing, OlderThanAll
  <1> HIDE DEF p
  <1>5. TimeAt(p) # t => p >= 1
    BY <1>1, <1>2, <1>3, <1>4
  <1>6. q \in 0 .. cnt - 1
    BY <1>1, <1>2, <1>5
  <1>7. ASSUME NEW k \in 0 .. cnt - 1 PROVE t < TimeAt(k) <=> q < k
    <2>1. k < p => TimeAt(k) < t
      BY <1>2
    <2>2. k > p => TimeAt(p) < TimeAt(k)
      BY <1>1, <1>2 DEF IInv, SortedByTime
    <2>3. CASE k < p
      BY <1>2, <1>3, <2>1, <2>3
    <2>4. CASE k = p
      BY <1>2, <1>3, <2>4
    <2>5. CASE k > p
      BY <1>2, <1>3, <2>2, <2>5
    <2> QED BY <1>2, <2>3, <2>4, <2>5
  <1> HIDE DEF q
  <1>8. LastNotNewer(t) = q
    BY <1>1, <1>6, <1>7, LoopFindsLast
  <1>9. Bisect(t) = IF TimeAt(q) = t THEN q ELSE q + 1
    BY <1>8 DEF Bisect
  <1>10. CASE TimeAt(p) = t
    <2>1. q = p
      BY <1>10 DEF q
    <2> QED BY <1>9, <1>10, <2>1 DEF p
  <1>11. CASE TimeAt(p) # t
    <2>1. q = p - 1 /\ q \in 0 .. p - 1
      BY <1>2, <1>5, <1>11 DEF q
    <2>2. TimeAt(q) # t
      BY <1>2, <1>3, <1>6, <2>1
    <2> QED BY <1>2, <1>9, <2>1, <2>2 DEF p
  <1> QED BY <1>10, <1>11

-----------------------------------------------------------------------------
(* Indices stay inside the array whatever is stored, refused, displaced,   *)
(* retrieved or reset.                                                     *)
THEOREM TypeCorrect == Spec => []TypeOK
  <1>1. IInv => TypeOK
    BY DEF IInv
  <1> QED BY IInvAlways, <1>1, PTL

(* datar_rotate_right never lets two indices share a buffer.               *)
THEOREM BuffersApart == Spec => []NoSharedBuffer
  <1>1. IInv => NoSharedBuffer
    BY DEF IInv
  <1> QED BY IInvAlways, <1>1, PTL

(* datar_start, datar_end and datar_cnt never disagree, and everything     *)
(* between start and end has been written.                                 *)
THEOREM CountAlwaysAgrees == Spec => []CountAgrees
  <1>1. IInv => CountAgrees
    BY DEF IInv
  <1> QED BY IInvAlways, <1>1, PTL

(* The ring is sorted by time after any sequence of calls, packets arriving*)
(* in any order.                                                           *)
THEOREM AlwaysSorted == Spec => []SortedByTime
  <1>1. IInv => SortedByTime
    BY DEF IInv
  <1> QED BY IInvAlways, <1>1, PTL

(* The search loop of search_data_bfr finds the first packet that is not   *)
(* older than its target, for every size of the ring.                      *)
THEOREM BisectIsRight == Spec => []BisectFindsPlace
  <1>1. IInv => BisectFindsPlace
    <2> SUFFICES ASSUME IInv, ~IsEmpty, NEW t \in Times \cup {u + 1 : u \in Times \cup {0}},
                        WithinRing(t)
                 PROVE  Bisect(t) = PlaceOf(t)
      BY DEF BisectFindsPlace
    <2>1. t \in Nat
      BY TimesAssumption
    <2> QED BY <2>1, BisectIsPlaceOf
  <1> QED BY IInvAlways, <1>1, PTL
=============================================================================
