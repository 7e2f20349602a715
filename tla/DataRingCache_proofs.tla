------------------------ MODULE DataRingCache_proofs ------------------------
(***************************************************************************)
(* The data ring implements the bounded store of SortedCache, for every    *)
(* number of slots, time stamps and images.  The packets stored are the    *)
(* range of Contents; the lemmas of DataRing_proofs say what a call does   *)
(* to Contents, the ones here what that means for its range.               *)
(***************************************************************************)
EXTENDS DataRing_proofs

RangeOf(f, n) == {f[k] : k \in 0 .. n - 1}

ReplaceAt(f, place, p) == [f EXCEPT ![place] = p]

(* The packets of the store are the contents of the ring.                  *)
LEMMA StoredIsRange ==
  /\ TypeOK /\ CountAgrees => Stored = RangeOf(Contents, cnt)
  /\ Stored' = RangeOf(Contents', cnt')
  <1>1. Stored = RangeOf(Contents, cnt)
    BY DEF Stored, Contents, RangeOf
  <1>2. Stored' = RangeOf(Contents', cnt')
    BY DEF Stored, Contents, RangeOf, At
  <1> QED BY <1>1, <1>2

(* A sorted sequence has as many packets as places.                        *)
LEMMA RangeCardinality ==
  ASSUME NEW n \in Nat, NEW f \in [0 .. n - 1 -> Packet], Sorted(f, n)
  PROVE  Cardinality(RangeOf(f, n)) = n
  <1>1. ASSUME NEW j \in 0 .. n - 1, NEW k \in 0 .. n - 1, f[j] = f[k]
        PROVE  j = k
    <2>1. f[j].time \in Nat /\ f[k].time \in Nat
      BY PacketTime
    <2>2. ~(j < k) /\ ~(k < j)
      BY <1>1, <2>1 DEF Sorted
    <2> QED BY <2>2
  <1>2. f \in Bijection(0 .. n - 1, RangeOf(f, n))
    BY <1>1 DEF Bijection, Injection, Surjection, IsInjective, RangeOf
  <1>3. IsFiniteSet(0 .. n - 1) /\ Cardinality(0 .. n - 1) = n
    <2>1. CASE n = 0
      BY <2>1, FS_EmptySet
    <2>2. CASE n > 0
      BY <2>2, FS_Interval
    <2> QED BY <2>1, <2>2
  <1> QED BY <1>2, <1>3, FS_Bijection DEF ExistsBijection

(* Inserting at any place adds the packet.                                 *)
LEMMA RangeInsert ==
  ASSUME NEW n \in Nat, NEW f \in [0 .. n - 1 -> Packet],
         NEW place \in 0 .. n, NEW p \in Packet
  PROVE  RangeOf(InsertAt(f, n, place, p), n + 1) = RangeOf(f, n) \cup {p}
  <1> DEFINE g == InsertAt(f, n, place, p)
  <1>0. (n + 1) - 1 = n
    OBVIOUS
  <1>1. ASSUME NEW k \in 0 .. n PROVE g[k] \in RangeOf(f, n) \cup {p}
    <2>1. k < place => k \in 0 .. n - 1
      OBVIOUS
    <2>2. k > place => k - 1 \in 0 .. n - 1
      OBVIOUS
    <2> QED BY <2>1, <2>2 DEF InsertAt, RangeOf
  <1>2. p \in RangeOf(g, n + 1)
    BY <1>0 DEF InsertAt, RangeOf
  <1>3. ASSUME NEW k \in 0 .. n - 1 PROVE f[k] \in RangeOf(g, n + 1)
    <2>1. CASE k < place
      <3>1. g[k] = f[k] /\ k \in 0 .. n
        BY <2>1 DEF InsertAt
      <3> QED BY <1>0, <3>1 DEF RangeOf
    <2>2. CASE k >= place
      <3>1. g[k + 1] = f[k] /\ k + 1 \in 0 .. n
        BY <2>2 DEF InsertAt
      <3> QED BY <1>0, <3>1 DEF RangeOf
    <2> QED BY <2>1, <2>2
  <1> QED BY <1>0, <1>1, <1>2, <1>3 DEF RangeOf

(* Dropping the first packet of a sorted sequence removes just that one.   *)
LEMMA RangeDrop ==
  ASSUME NEW n \in Nat \ {0}, NEW f \in [0 .. n - 1 -> Packet], Sorted(f, n)
  PROVE  RangeOf(DropFirst(f, n), n - 1) = RangeOf(f, n) \ {f[0]}
  <1>1. ASSUME NEW k \in 0 .. n - 2
        PROVE  /\ k + 1 \in 0 .. n - 1 /\ DropFirst(f, n)[k] = f[k + 1]
               /\ f[k + 1] # f[0]
    <2>1. k + 1 \in 0 .. n - 1 /\ 0 \in 0 .. n - 1 /\ 0 \in 0 .. (k + 1) - 1
      OBVIOUS
    <2>2. f[0].time < f[k + 1].time
      BY <2>1 DEF Sorted
    <2>3. f[0].time \in Nat
      BY <2>1, PacketTime
    <2> QED BY <2>1, <2>2, <2>3 DEF DropFirst
  <1>2. ASSUME NEW k \in 0 .. n - 1, f[k] # f[0]
        PROVE  k - 1 \in 0 .. n - 2 /\ (k - 1) + 1 = k
    BY <1>2
  <1>3. (n - 1) - 1 = n - 2
    OBVIOUS
  <1> QED BY <1>1, <1>2, <1>3 DEF RangeOf

(* Replacing one packet of a sorted sequence touches no other.             *)
LEMMA RangeReplace ==
  ASSUME NEW n \in Nat, NEW f \in [0 .. n - 1 -> Packet], Sorted(f, n),
         NEW place \in 0 .. n - 1, NEW p \in Packet
  PROVE  RangeOf(ReplaceAt(f, place, p), n) = (RangeOf(f, n) \ {f[place]}) \cup {p}
  <1>1. ASSUME NEW k \in 0 .. n - 1, k # place PROVE f[k] # f[place]
    <2>1. f[k].time < f[place].time \/ f[place].time < f[k].time
      BY <1>1 DEF Sorted
    <2>2. f[k].time \in Nat
      BY PacketTime
    <2> QED BY <2>1, <2>2
  <1> QED BY <1>1 DEF RangeOf, ReplaceAt

-----------------------------------------------------------------------------
(* What the contents of the ring say about the store.                      *)
LEMMA StoredNow ==
  ASSUME TypeOK, CountAgrees, SortedByTime
  PROVE  /\ Contents \in [0 .. cnt - 1 -> Packet] /\ Sorted(Contents, cnt)
         /\ Stored = RangeOf(Contents, cnt) /\ Cardinality(Stored) = cnt
         /\ cnt \in Nat
         /\ \A q \in Stored : \E k \in 0 .. cnt - 1 : q = Contents[k]
         /\ \A k \in 0 .. cnt - 1 : Contents[k] \in Stored /\ Contents[k].time \in Nat
  <1>1. Contents \in [0 .. cnt - 1 -> Packet] /\ Sorted(Contents, cnt)
    BY ContentsOf
  <1>2. Stored = RangeOf(Contents, cnt) /\ cnt \in Nat
    BY StoredIsRange, DataSizeAssumption DEF TypeOK
  <1>3. Cardinality(Stored) = cnt
    BY <1>1, <1>2, RangeCardinality
  <1> QED BY <1>1, <1>2, <1>3, PacketTime DEF RangeOf

(* Both modules count with the same Cardinality.                           *)
LEMMA SameCardinality == \A S : Cache!Cardinality(S) = Cardinality(S)
  BY DEF Cache!Cardinality, Cardinality

(* A ring with room takes a packet of a new time stamp in.                 *)
LEMMA InsertStep ==
  ASSUME TypeOK, CountAgrees, SortedByTime, ~IsFull,
         NEW p \in Packet, NEW place \in 0 .. cnt,
         Contents' = InsertAt(Contents, cnt, place, p), cnt' = cnt + 1,
         \A k \in 0 .. cnt - 1 : Contents[k].time # p.time,
         reply' = Reply("store", p.time, 0, p)
  PROVE  Cache!Insert(p)
  <1>1. \A q \in Stored : q.time # p.time
    BY StoredNow
  <1>2. Cardinality(Stored) < DataSize
    BY StoredNow, DataSizeAssumption DEF TypeOK, IsFull
  <1>3. Stored' = Stored \cup {p}
    BY StoredNow, StoredIsRange, RangeInsert
  <1>4. reply' = Cache!Reply("store", p.time, 0, p)
    BY DEF Reply, Cache!Reply
  <1> QED BY <1>1, <1>2, <1>3, <1>4, SameCardinality DEF Cache!Insert

(* A full ring does so at the cost of its oldest packet.                   *)
LEMMA DisplaceStep ==
  ASSUME TypeOK, CountAgrees, SortedByTime, IsFull,
         NEW p \in Packet, NEW place \in 0 .. cnt - 1,
         Contents' = InsertAt(DropFirst(Contents, cnt), cnt - 1, place, p), cnt' = cnt,
         \A k \in 0 .. cnt - 1 : Contents[k].time # p.time,
         Contents[0].time < p.time,
         reply' = Reply("store", p.time, 0, p)
  PROVE  Cache!Displace(p)
  <1> DEFINE q == Contents[0]
             kept == DropFirst(Contents, cnt)
  <1>1. \A r \in Stored : r.time # p.time
    BY StoredNow
  <1>2. Cardinality(Stored) = DataSize /\ cnt \in Nat \ {0}
    BY StoredNow, DataSizeAssumption DEF IsFull
  <1>3. q \in Stored
    BY <1>2, StoredNow
  <1>4. Cache!IsOldest(q, Stored)
    <2>1. ASSUME NEW k \in 0 .. cnt - 1 PROVE q.time <= Contents[k].time
      <3>1. k > 0 => 0 \in 0 .. k - 1
        OBVIOUS
      <3>2. k > 0 => q.time < Contents[k].time
        BY <3>1, StoredNow DEF Sorted
      <3>3. q.time \in Nat /\ Contents[k].time \in Nat
        BY <1>2, StoredNow
      <3> QED BY <3>2, <3>3
    <2> QED BY <2>1, StoredNow DEF Cache!IsOldest
  <1>5. Stored' = (Stored \ {q}) \cup {p}
    <2>1. /\ kept \in [0 .. (cnt - 1) - 1 -> Packet]
          /\ RangeOf(kept, cnt - 1) = Stored \ {q}
      <3>1. (cnt - 1) - 1 = cnt - 2
        BY <1>2
      <3> QED BY <1>2, <3>1, StoredNow, DropSorted, RangeDrop
    <2>2. cnt - 1 \in Nat /\ (cnt - 1) + 1 = cnt
      BY <1>2
    <2> HIDE DEF kept
    <2>3. RangeOf(InsertAt(kept, cnt - 1, place, p), (cnt - 1) + 1)
            = RangeOf(kept, cnt - 1) \cup {p}
      BY <2>1, <2>2, RangeInsert
    <2> QED BY <2>1, <2>2, <2>3, StoredIsRange DEF kept
  <1>6. reply' = Cache!Reply("store", p.time, 0, p)
    BY DEF Reply, Cache!Reply
  <1> QED BY <1>1, <1>2, <1>3, <1>4, <1>5, <1>6, SameCardinality
       DEF Cache!Displace

(* Each branch of RING_STORE is one of the four ways the store may react.  *)
LEMMA StoreFirstMaps ==
  ASSUME IInv, NEW p \in Packet, StoreFirst(p)
  PROVE  Cache!Insert(p)
  <1>1. /\ TypeOK /\ NoSharedBuffer /\ CountAgrees /\ SortedByTime
        /\ cnt = 0 /\ cnt' = cnt + 1 /\ ~IsFull /\ cnt \in 0 .. cnt
        /\ \A k \in 0 .. cnt - 1 : FALSE
    BY DataSizeAssumption DEF IInv, StoreFirst, IsEmpty, IsFull
  <1>2. Contents' = InsertAt(Contents, cnt, cnt, p)
    BY <1>1, StoredAtEnd DEF StoreFirst, StoreElement
  <1> QED BY <1>1, <1>2, InsertStep DEF StoreFirst, StoreElement

(* A packet older than all, the ring having room, is inserted.             *)
LEMMA StoreOldestMaps ==
  ASSUME IInv, NEW p \in Packet, StoreOldest(p)
  PROVE  Cache!Insert(p)
  <1>1. /\ TypeOK /\ NoSharedBuffer /\ CountAgrees /\ SortedByTime
        /\ ~IsEmpty /\ ~IsFull /\ cnt' = cnt + 1 /\ cnt \in Nat \ {0}
        /\ 0 \in 0 .. cnt /\ 0 \in 0 .. cnt - 1
    BY DataSizeAssumption DEF IInv, StoreOldest, IsEmpty, TypeOK
  <1>2. Contents' = InsertAt(Contents, cnt, 0, p)
    BY <1>1, StoredAtStart DEF StoreOldest, StoreElement
  <1>3. ASSUME NEW k \in 0 .. cnt - 1 PROVE Contents[k].time # p.time
    <2>1. p.time < Contents[0].time
      BY <1>1, ContentsOf DEF StoreOldest, OlderThanAll
    <2>2. k > 0 => Contents[0].time < Contents[k].time
      BY <1>1, StoredNow DEF Sorted
    <2>3. Contents[0].time \in Nat /\ Contents[k].time \in Nat /\ p.time \in Nat
      BY <1>1, StoredNow, PacketTime
    <2> QED BY <2>1, <2>2, <2>3
  <1> QED BY <1>1, <1>2, <1>3, InsertStep DEF StoreOldest, StoreElement

(* A packet newer than all is inserted, or displaces the oldest.           *)
LEMMA StoreNewestMaps ==
  ASSUME IInv, NEW p \in Packet, StoreNewest(p)
  PROVE  Cache!Insert(p) \/ Cache!Displace(p)
  <1>1. /\ TypeOK /\ NoSharedBuffer /\ CountAgrees /\ SortedByTime
        /\ ~IsEmpty /\ cnt \in Nat \ {0} /\ cnt \in 0 .. cnt
        /\ 0 \in 0 .. cnt - 1 /\ cnt - 1 \in 0 .. cnt - 1
    BY DataSizeAssumption DEF IInv, StoreNewest, IsEmpty, TypeOK
  <1>2. ASSUME NEW k \in 0 .. cnt - 1
        PROVE  Contents[k].time < p.time /\ Contents[k].time # p.time
    <2>1. p.time > Contents[cnt - 1].time
      BY <1>1, ContentsOf, RingTimes DEF StoreNewest, NewerThanAll
    <2>2. k < cnt - 1 => Contents[k].time < Contents[cnt - 1].time
      BY <1>1, StoredNow DEF Sorted
    <2>3. /\ Contents[cnt - 1].time \in Nat /\ Contents[k].time \in Nat
          /\ p.time \in Nat
      BY <1>1, StoredNow, PacketTime
    <2> QED BY <1>1, <2>1, <2>2, <2>3
  <1>3. CASE ~IsFull
    <2>1. Contents' = InsertAt(Contents, cnt, cnt, p) /\ cnt' = cnt + 1
      BY <1>1, <1>3, StoredAtEnd DEF StoreNewest, AdvanceEnd, StoreElement
    <2> QED BY <1>1, <1>2, <1>3, <2>1, InsertStep DEF StoreNewest, StoreElement
  <1>4. CASE IsFull
    <2>1. /\ Contents' = InsertAt(DropFirst(Contents, cnt), cnt - 1, cnt - 1, p)
          /\ cnt' = cnt
      BY <1>1, <1>4, StoredAtEndOfFull DEF StoreNewest, AdvanceEnd, StoreElement
    <2> QED BY <1>1, <1>2, <1>4, <2>1, DisplaceStep DEF StoreNewest, StoreElement
  <1> QED BY <1>3, <1>4

(* So is, or does, a packet between two others.                            *)
LEMMA StoreBetweenMaps ==
  ASSUME IInv, NEW p \in Packet, StoreBetween(p)
  PROVE  Cache!Insert(p) \/ Cache!Displace(p)
  <1> DEFINE place == PlaceOf(p.time)
  <1>1. /\ TypeOK /\ NoSharedBuffer /\ CountAgrees /\ SortedByTime
        /\ ~IsEmpty /\ cnt \in Nat \ {0} /\ AdvanceEnd
        /\ StoreElement(Normalize(start + place), p)
        /\ dataStore' = RotateRight(Normalize(start + place), end)
    BY DataSizeAssumption DEF IInv, StoreBetween, IsEmpty, TypeOK
  <1>2. /\ place \in 1 .. cnt - 1
        /\ \A j \in 0 .. place - 1 : Contents[j].time < p.time
        /\ \A j \in place .. cnt - 1 : p.time < Contents[j].time
    <2>1. p.time \in Nat /\ WithinRing(p.time) /\ BetweenTwo(p.time)
      BY PacketTime DEF StoreBetween, BetweenTwo
    <2> QED BY <1>1, <2>1, PlaceWithin
  <1> HIDE DEF place
  <1>3. /\ place \in 0 .. cnt /\ place - 1 \in 0 .. cnt - 1
        /\ \A k \in 0 .. cnt - 1 : k \in 0 .. place - 1 \/ k \in place .. cnt - 1
        /\ Contents[0].time < p.time
    BY <1>1, <1>2
  <1>4. ASSUME NEW k \in 0 .. cnt - 1 PROVE Contents[k].time # p.time
    BY <1>1, <1>2, <1>3, StoredNow, PacketTime
  <1>5. Contents' = IF IsFull
                    THEN InsertAt(DropFirst(Contents, cnt), cnt - 1, place - 1, p)
                    ELSE InsertAt(Contents, cnt, place, p)
    BY <1>1, <1>2, StoredBetween DEF StoreElement
  <1>6. reply' = Reply("store", p.time, 0, p)
    BY <1>1 DEF StoreElement
  <1>7. CASE ~IsFull
    BY <1>1, <1>3, <1>4, <1>5, <1>6, <1>7, InsertStep DEF AdvanceEnd
  <1>8. CASE IsFull
    BY <1>1, <1>3, <1>4, <1>5, <1>6, <1>8, DisplaceStep DEF AdvanceEnd
  <1> QED BY <1>7, <1>8

(* A packet of a time stamp the ring has replaces the one it had.          *)
LEMMA OverwriteMaps ==
  ASSUME IInv, NEW p \in Packet, Overwrite(p)
  PROVE  Cache!Replace(p)
  <1> DEFINE place == PlaceOf(p.time)
             q == Contents[place]
  <1>1. /\ TypeOK /\ NoSharedBuffer /\ CountAgrees /\ SortedByTime /\ ~IsEmpty
        /\ UNCHANGED <<dataStore, start, end, cnt, allocated>>
        /\ StoreElement(Normalize(start + place), p)
    BY DEF IInv, Overwrite
  <1>2. place \in 0 .. cnt - 1 /\ q.time = p.time
    <2>1. p.time \in Nat /\ WithinRing(p.time) /\ ExactMatch(p.time)
      BY PacketTime DEF Overwrite, ExactMatch
    <2> QED BY <1>1, <2>1, PlaceWithin
  <1> HIDE DEF place
  <1>3. Contents' = [Contents EXCEPT ![place] = p]
    BY <1>1, <1>2, StoredOver DEF StoreElement
  <1>4. Stored' = (Stored \ {q}) \cup {p}
    <2>1. RangeOf(ReplaceAt(Contents, place, p), cnt)
            = (RangeOf(Contents, cnt) \ {q}) \cup {p}
      <3>1. /\ Contents \in [0 .. cnt - 1 -> Packet] /\ Sorted(Contents, cnt)
            /\ cnt \in Nat
        BY <1>1, StoredNow
      <3> QED BY <1>2, <3>1, RangeReplace
    <2>2. Stored' = RangeOf(ReplaceAt(Contents, place, p), cnt)
      BY <1>1, <1>3, StoredIsRange DEF ReplaceAt
    <2> QED BY <1>1, <2>1, <2>2, StoredNow
  <1>5. q \in Stored
    BY <1>1, <1>2, StoredNow
  <1>6. reply' = Cache!Reply("store", p.time, 0, p)
    BY <1>1 DEF StoreElement, Reply, Cache!Reply
  <1> QED BY <1>2, <1>4, <1>5, <1>6 DEF Cache!Replace

(* A packet older than all of a full ring is refused.                      *)
LEMMA RefuseOldestMaps ==
  ASSUME IInv, NEW p \in Packet, RefuseOldest(p)
  PROVE  Cache!Refuse(p)
  <1>1. /\ TypeOK /\ CountAgrees /\ SortedByTime /\ cnt \in Nat \ {0}
        /\ cnt = DataSize /\ 0 \in 0 .. cnt - 1
        /\ UNCHANGED <<dataStore, buffer, start, end, cnt, allocated>>
    BY DataSizeAssumption DEF IInv, RefuseOldest, IsEmpty, IsFull, TypeOK
  <1>2. ASSUME NEW k \in 0 .. cnt - 1 PROVE p.time < Contents[k].time
    <2>1. p.time < Contents[0].time
      BY <1>1, ContentsOf DEF RefuseOldest, OlderThanAll
    <2>2. k > 0 => Contents[0].time < Contents[k].time
      BY <1>1, StoredNow DEF Sorted
    <2>3. Contents[0].time \in Nat /\ Contents[k].time \in Nat /\ p.time \in Nat
      BY <1>1, StoredNow, PacketTime
    <2> QED BY <2>1, <2>2, <2>3
  <1>3. \A q \in Stored : p.time < q.time
    BY <1>1, <1>2, StoredNow
  <1>4. Cardinality(Stored) = DataSize
    BY <1>1, StoredNow
  <1>5. Stored' = Stored
    BY <1>1 DEF Stored, At
  <1>6. reply' = Cache!Reply("store", p.time, 1, p)
    BY DEF RefuseOldest, Reply, Cache!Reply
  <1> QED BY <1>3, <1>4, <1>5, <1>6, SameCardinality DEF Cache!Refuse

(* A retrieval returns the packet that follows the time it was given.      *)
LEMMA FollowingStep ==
  ASSUME TypeOK, CountAgrees, SortedByTime, NEW t \in Nat, NEW place \in 0 .. cnt - 1,
         TimeAt(place) > t, \A j \in 0 .. place - 1 : TimeAt(j) <= t,
         UNCHANGED <<dataStore, buffer, start, cnt>>,
         reply' = Reply("retr", t, 0, At(place))
  PROVE  Cache!Following(t)
  <1> DEFINE q == Contents[place]
  <1>1. q \in Stored /\ q = At(place) /\ q.time > t
    BY StoredNow, ContentsOf
  <1>2. Cache!IsOldest(q, {r \in Stored : r.time > t})
    <2>1. ASSUME NEW k \in 0 .. cnt - 1, Contents[k].time > t
          PROVE  q.time <= Contents[k].time
      <3>1. q.time \in Nat /\ Contents[k].time \in Nat /\ Contents[k].time = TimeAt(k)
        BY StoredNow, ContentsOf
      <3>2. ~(k < place)
        BY <2>1, <3>1
      <3>3. k > place => q.time < Contents[k].time
        BY StoredNow DEF Sorted
      <3> QED BY <3>1, <3>2, <3>3
    <2> QED BY <2>1, StoredNow DEF Cache!IsOldest
  <1>3. Stored' = Stored
    BY DEF Stored, At
  <1>4. reply' = Cache!Reply("retr", t, 0, q)
    BY <1>1 DEF Reply, Cache!Reply
  <1> QED BY <1>1, <1>2, <1>3, <1>4 DEF Cache!Following

(* Whatever search_data_bfr answers, RING_RETR is a retrieval of the store.*)
LEMMA RingRetrMaps ==
  ASSUME IInv, NEW t \in Times \cup {0}, RingRetr(t)
  PROVE  Cache!Following(t) \/ Cache!NothingNewer(t)
  <1>1. /\ TypeOK /\ CountAgrees /\ SortedByTime /\ t \in Nat /\ t + 1 \in Nat
        /\ cnt \in Nat /\ \A j \in 0 .. cnt - 1 : TimeAt(j) \in Nat
        /\ UNCHANGED <<dataStore, buffer, start, cnt>>
    BY TimesAssumption, DataSizeAssumption, RingTimes
       DEF IInv, TypeOK, RingRetr, RetrOldest, RetrWithin, RetrNothing, RetrElement
  <1>2. CASE RetrOldest(t)
    <2>1. 0 \in 0 .. cnt - 1 /\ \A j \in 0 .. 0 - 1 : FALSE
      BY <1>1, <1>2 DEF RetrOldest, IsEmpty
    <2>2. TimeAt(0) > t
      BY <1>1, <1>2, <2>1 DEF RetrOldest, OlderThanAll
    <2> QED BY <1>1, <1>2, <2>1, <2>2, FollowingStep DEF RetrOldest, RetrElement
  <1>3. CASE RetrWithin(t)
    <2> DEFINE place == PlaceOf(t + 1)
    <2>1. /\ place \in 0 .. cnt - 1 /\ TimeAt(place) >= t + 1
          /\ \A j \in 0 .. place - 1 : TimeAt(j) < t + 1
      BY <1>1, <1>3, PlaceOfFirst DEF RetrWithin, WithinRing
    <2>2. reply' = Reply("retr", t, 0, At(place))
      BY <1>3 DEF RetrWithin, RetrElement
    <2> HIDE DEF place
    <2>3. TimeAt(place) > t /\ \A j \in 0 .. place - 1 : TimeAt(j) <= t
      BY <1>1, <2>1
    <2> QED BY <1>1, <2>1, <2>2, <2>3, FollowingStep
  <1>4. CASE RetrNothing(t)
    <2>1. ASSUME NEW k \in 0 .. cnt - 1 PROVE Contents[k].time <= t
      <3>1. cnt - 1 \in 0 .. cnt - 1 /\ ~IsEmpty
        BY <1>1 DEF IsEmpty
      <3>2. t + 1 > Contents[cnt - 1].time
        BY <1>1, <1>4, <3>1, ContentsOf, RingTimes DEF RetrNothing, NewerThanAll
      <3>3. k < cnt - 1 => Contents[k].time < Contents[cnt - 1].time
        BY <1>1, <3>1, StoredNow DEF Sorted
      <3>4. Contents[k].time \in Nat /\ Contents[cnt - 1].time \in Nat
        BY <1>1, <3>1, StoredNow
      <3> QED BY <1>1, <3>2, <3>3, <3>4
    <2>2. \A q \in Stored : q.time <= t
      BY <1>1, <2>1, StoredNow
    <2>3. Stored' = Stored
      BY <1>1 DEF Stored, At
    <2>4. reply' = Cache!Reply("retr", t, 1, NoPacket)
      BY <1>4 DEF RetrNothing, Reply, Cache!Reply
    <2> QED BY <2>2, <2>3, <2>4 DEF Cache!NothingNewer
  <1> QED BY <1>2, <1>3, <1>4 DEF RingRetr

(* RING_DEALLOC and RING_ALLOC empty the store.                            *)
LEMMA ResetMaps ==
  ASSUME RingDealloc \/ RingAlloc
  PROVE  Cache!Reset
  <1>1. cnt' = 0 /\ \A k \in 0 .. 0 - 1 : FALSE
    BY DEF RingDealloc, RingAlloc
  <1>2. Stored' = {}
    BY <1>1 DEF Stored
  <1>3. reply' = Cache!Reply("reset", 0, 0, NoPacket)
    BY DEF RingDealloc, RingAlloc, Reply, Cache!Reply
  <1> QED BY <1>2, <1>3 DEF Cache!Reset

(* The ring starts as an empty store, and each of its steps is one of the  *)
(* store, or none.                                                         *)
LEMMA InitMaps == Init => Cache!CacheInit
  <1> SUFFICES ASSUME Init PROVE Cache!CacheInit
    OBVIOUS
  <1>1. cnt = 0 /\ \A k \in 0 .. 0 - 1 : FALSE
    BY DEF Init
  <1>2. Stored = {}
    BY <1>1 DEF Stored
  <1>3. reply = Cache!Reply("reset", 0, 0, NoPacket)
    BY DEF Init, Reply, Cache!Reply
  <1> QED BY <1>2, <1>3 DEF Cache!CacheInit

(* Every call of data_ring_ops is a step of the store.                     *)
LEMMA NextMaps == IInv /\ [Next]_vars => [Cache!CacheNext]_(Cache!cacheVars)
  <1> SUFFICES ASSUME IInv, [Next]_vars
               PROVE  Cache!CacheNext \/ UNCHANGED Cache!cacheVars
    OBVIOUS
  <1>1. ASSUME NEW p \in Packet, RingStore(p) PROVE Cache!CacheNext
    <2>1. Cache!Replace(p) \/ Cache!Insert(p) \/ Cache!Displace(p) \/ Cache!Refuse(p)
      BY <1>1, StoreFirstMaps, RefuseOldestMaps, StoreOldestMaps, StoreNewestMaps,
         StoreBetweenMaps, OverwriteMaps DEF RingStore
    <2>2. p \in Cache!Packet
      BY DEF Packet, Cache!Packet
    <2> QED BY <2>1, <2>2 DEF Cache!CacheNext
  <1>2. ASSUME NEW t \in Times \cup {0}, RingRetr(t) PROVE Cache!CacheNext
    BY <1>2, RingRetrMaps DEF Cache!CacheNext
  <1>3. CASE RingDealloc \/ RingAlloc
    BY <1>3, ResetMaps DEF Cache!CacheNext
  <1>4. CASE UNCHANGED vars
    BY <1>4 DEF vars, Cache!cacheVars, Stored, At
  <1> QED BY <1>1, <1>2, <1>3, <1>4 DEF Next

-----------------------------------------------------------------------------
(* The data ring implements the bounded store: whatever the rotations and  *)
(* wrap-arounds, a store loses nothing but the oldest packet of a full     *)
(* ring or the one it replaces, and a retrieval returns the packet that    *)
(* follows the time it was given.                                          *)
THEOREM ImplementsSortedCache == Spec => ImplementsCache
  BY InitMaps, NextMaps, IInvAlways, PTL DEF Spec, ImplementsCache, Cache!CacheSpec
=============================================================================
