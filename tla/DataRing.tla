------------------------------ MODULE DataRing ------------------------------
(***************************************************************************)
(* The data ring of databfr.c: the cache of one-second packets shared by   *)
(* the client thread, which stores, and the server thread, which retrieves.*)
(*                                                                         *)
(* data_store_g is an array of pointers to buffers; the ring keeps its     *)
(* packets sorted by time and inserts out-of-order packets by rotating     *)
(* pointers, never copying packets.  Every call of data_ring_ops holds     *)
(* mutex_datastore from its first line to its last, so one call is one     *)
(* action.  Times are integers in milliseconds, the granularity the code   *)
(* relies on when it adds 0.001 to a double.                               *)
(***************************************************************************)
EXTENDS Integers, FiniteSets

CONSTANTS DataSize,   (* slots of the ring: DATASIZE                       *)
          Times,      (* packet time stamps, in milliseconds               *)
          Images,     (* packet contents, opaque here                      *)
          NoPacket    (* content of a buffer never written, empty reply    *)

ASSUME DataSizeAssumption == DataSize \in Nat \ {0, 1}
ASSUME TimesAssumption == Times \subseteq Nat
ASSUME NoPacketAssumption == NoPacket \notin [time : Times, img : Images]

VARIABLES dataStore,  (* data_store_g: the buffer each index points to     *)
          buffer,     (* the packet in each allocated buffer               *)
          start,      (* datar_start                                       *)
          end,        (* datar_end                                         *)
          cnt,        (* datar_cnt                                         *)
          allocated,  (* FALSE between RING_DEALLOC and RING_ALLOC         *)
          reply       (* what the last call was given and what it returned *)

vars == <<dataStore, buffer, start, end, cnt, allocated, reply>>

Index == 0 .. DataSize - 1
Packet == [time : Times, img : Images]

(* A call with the time it was given, its return value, and the packet     *)
(* that went in or came out.                                               *)
Reply(act, time, ret, packet) ==
    [act |-> act, time |-> time, ret |-> ret, packet |-> packet]

NormalizeNegativeOnly(offset) == IF offset < 0 THEN offset + DataSize ELSE offset

Normalize(offset) == (offset + DataSize) % DataSize

IsEmpty == cnt = 0
IsFull == cnt = DataSize

(* The packet `offset' places after the oldest one, and its time.          *)
At(offset) == buffer[dataStore[Normalize(start + offset)]]
TimeAt(offset) == At(offset).time
NewestTime == buffer[dataStore[Normalize(end - 1)]].time

-----------------------------------------------------------------------------
(* search_data_bfr: the four answers it gives about a non-empty ring.      *)

NewerThanAll(t) == t > NewestTime
OlderThanAll(t) == ~NewerThanAll(t) /\ t < TimeAt(0)
WithinRing(t) == ~NewerThanAll(t) /\ ~OlderThanAll(t)

PlaceBefore(t) ==
    CHOOSE k \in 0 .. cnt - 1 :
        /\ TimeAt(k) <= t
        /\ \A j \in k + 1 .. cnt - 1 : TimeAt(j) > t

(* The place of the first packet that is not older than t.                 *)
PlaceOf(t) ==
    CHOOSE k \in 0 .. cnt - 1 :
        /\ TimeAt(k) >= t
        /\ \A j \in 0 .. k - 1 : TimeAt(j) < t

ExactMatch(t) == WithinRing(t) /\ TimeAt(PlaceOf(t)) = t
BetweenTwo(t) == WithinRing(t) /\ TimeAt(PlaceOf(t)) # t

(* The loop that finds it.  min and max are places of the ring; a round    *)
(* keeps the half of what is between them where the last packet that is    *)
(* not newer than t must be.                                               *)
Bounds == (0 .. cnt - 1) \X (0 .. cnt - 1)

Mid(b) == b[1] + (b[2] - b[1] + 1) \div 2

Half(t, b) == IF t < TimeAt(Mid(b)) THEN <<b[1], Mid(b) - 1>> ELSE <<Mid(b), b[2]>>

LastNotNewer(t) ==
    LET narrow[b \in Bounds] == IF b[1] >= b[2] THEN b[1] ELSE narrow[Half(t, b)]
    IN narrow[<<0, cnt - 1>>]

BisectForgettingMatch(t) == LastNotNewer(t) + 1

(* Without an exact match the packet after it is meant.                    *)
Bisect(t) ==
    LET found == LastNotNewer(t)
    IN IF TimeAt(found) = t THEN found ELSE found + 1

-----------------------------------------------------------------------------
(* datar_rotate_right(first, last): the pointer at `last' moves to `first',*)
(* the pointers from `first' on move up one index.  Pointers are copied one*)
(* by one from the far end, so if `first' and `last' were the same index,  *)
(* the whole ring would move over the pointer that was to be kept and      *)
(* index first + 1 would get the pointer of index first - 1 as well.       *)

RotateForgettingLast(first, last) ==
    [i \in Index |->
        IF i # first /\ Normalize(i - first) <= Normalize(last - first)
        THEN dataStore[Normalize(i - 1)]
        ELSE dataStore[i]]

RotateRight(first, last) ==
    [i \in Index |->
        IF i = first THEN dataStore[last]
        ELSE IF first = last /\ i = Normalize(first + 1)
        THEN dataStore[Normalize(first - 1)]
        ELSE IF first = last \/ Normalize(i - first) <= Normalize(last - first)
        THEN dataStore[Normalize(i - 1)]
        ELSE dataStore[i]]

AdvanceEndOnly ==
    /\ end' = Normalize(end + 1)
    /\ IF IsFull THEN UNCHANGED <<start, cnt>>
       ELSE cnt' = cnt + 1 /\ UNCHANGED start

(* The end moves on; a full ring gives up its oldest packet, any other     *)
(* ring counts one more.                                                   *)
AdvanceEnd ==
    /\ end' = Normalize(end + 1)
    /\ IF IsFull
       THEN start' = Normalize(start + 1) /\ UNCHANGED cnt
       ELSE cnt' = cnt + 1 /\ UNCHANGED start

(* store_element(index, p), after the pointers have been moved.            *)
StoreElement(index, p) ==
    /\ buffer' = [buffer EXCEPT ![dataStore'[index]] = p]
    /\ reply' = Reply("store", p.time, 0, p)

-----------------------------------------------------------------------------
(* RING_STORE, one action per branch.                                      *)

StoreFirst(p) ==
    /\ allocated /\ IsEmpty
    /\ UNCHANGED <<dataStore, start, allocated>>
    /\ StoreElement(end, p)
    /\ end' = Normalize(end + 1)
    /\ cnt' = cnt + 1

RefuseOldest(p) ==
    /\ allocated /\ ~IsEmpty /\ OlderThanAll(p.time) /\ IsFull
    /\ reply' = Reply("store", p.time, 1, p)
    /\ UNCHANGED <<dataStore, buffer, start, end, cnt, allocated>>

StoreOldest(p) ==
    /\ allocated /\ ~IsEmpty /\ OlderThanAll(p.time) /\ ~IsFull
    /\ dataStore' = RotateRight(start, end)
    /\ StoreElement(start, p)
    /\ end' = Normalize(end + 1)
    /\ cnt' = cnt + 1
    /\ UNCHANGED <<start, allocated>>

StoreNewest(p) ==
    /\ allocated /\ ~IsEmpty /\ NewerThanAll(p.time)
    /\ UNCHANGED <<dataStore, allocated>>
    /\ StoreElement(end, p)
    /\ AdvanceEnd

StoreBetween(p) ==
    /\ allocated /\ ~IsEmpty /\ BetweenTwo(p.time)
    /\ LET location == Normalize(start + PlaceOf(p.time))
       IN /\ dataStore' = RotateRight(location, end)
          /\ StoreElement(location, p)
    /\ AdvanceEnd
    /\ UNCHANGED allocated

Overwrite(p) ==
    /\ allocated /\ ~IsEmpty /\ ExactMatch(p.time)
    /\ UNCHANGED dataStore
    /\ StoreElement(Normalize(start + PlaceOf(p.time)), p)
    /\ UNCHANGED <<start, end, cnt, allocated>>

RingStore(p) ==
    \/ StoreFirst(p) \/ RefuseOldest(p) \/ StoreOldest(p)
    \/ StoreNewest(p) \/ StoreBetween(p) \/ Overwrite(p)

(* RING_RETR(t): the first packet not older than t plus one millisecond.   *)
RetrElement(t, offset) ==
    /\ reply' = Reply("retr", t, 0, At(offset))
    /\ UNCHANGED <<dataStore, buffer, start, end, cnt, allocated>>

RetrOldest(t) ==
    allocated /\ ~IsEmpty /\ OlderThanAll(t + 1) /\ RetrElement(t, 0)

RetrWithinSameTime(t) ==
    allocated /\ ~IsEmpty /\ WithinRing(t) /\ RetrElement(t, PlaceOf(t))

RetrWithin(t) ==
    allocated /\ ~IsEmpty /\ WithinRing(t + 1) /\ RetrElement(t, PlaceOf(t + 1))

RetrNothing(t) ==
    /\ allocated
    /\ ~IsEmpty => NewerThanAll(t + 1)
    /\ reply' = Reply("retr", t, 1, NoPacket)
    /\ UNCHANGED <<dataStore, buffer, start, end, cnt, allocated>>

RingRetr(t) == RetrOldest(t) \/ RetrWithin(t) \/ RetrNothing(t)

(* RING_DEALLOC frees every buffer the array points to.                    *)
RingDealloc ==
    /\ allocated
    /\ allocated' = FALSE
    /\ start' = 0 /\ end' = 0 /\ cnt' = 0
    /\ reply' = Reply("reset", 0, 0, NoPacket)
    /\ UNCHANGED <<dataStore, buffer>>

(* RING_ALLOC gives every index a new buffer, of unknown content.          *)
RingAlloc ==
    /\ ~allocated
    /\ allocated' = TRUE
    /\ dataStore' = [i \in Index |-> i]
    /\ buffer' = [i \in Index |-> NoPacket]
    /\ start' = 0 /\ end' = 0 /\ cnt' = 0
    /\ reply' = Reply("reset", 0, 0, NoPacket)

Init ==
    /\ dataStore = [i \in Index |-> i]
    /\ buffer = [i \in Index |-> NoPacket]
    /\ start = 0 /\ end = 0 /\ cnt = 0
    /\ allocated = TRUE
    /\ reply = Reply("reset", 0, 0, NoPacket)

Next ==
    \/ \E p \in Packet : RingStore(p)
    \/ \E t \in Times \cup {0} : RingRetr(t)
    \/ RingDealloc
    \/ RingAlloc

Spec == Init /\ [][Next]_vars

-----------------------------------------------------------------------------
(* Every variable keeps its type, and the indices of databfr.c stay inside *)
(* the array they index.                                                   *)
TypeOK ==
    /\ dataStore \in [Index -> Index]
    /\ buffer \in [Index -> Packet \cup {NoPacket}]
    /\ start \in Index /\ end \in Index /\ cnt \in 0 .. DataSize
    /\ allocated \in BOOLEAN
    /\ reply \in [act : {"store", "retr", "reset"}, time : Times \cup {0},
                  ret : {0, 1}, packet : Packet \cup {NoPacket}]

(* No two indices point to the same buffer, whatever inserts have rotated: *)
(* a shared buffer would hold two packets of the ring at once, be freed    *)
(* twice by RING_DEALLOC, and leave another one unreachable.               *)
NoSharedBuffer ==
    \A i, j \in Index : dataStore[i] = dataStore[j] => i = j

(* The three bookkeeping integers agree: the end is cnt places after the   *)
(* start, and everything in between has been written.                      *)
CountAgrees ==
    /\ end = Normalize(start + cnt)
    /\ \A k \in 0 .. cnt - 1 : At(k) \in Packet

(* From start to end the packets are strictly increasing in time, in spite *)
(* of out-of-order stores, wrap-around and displaced packets: the binary   *)
(* search and every reader depend on it.                                   *)
SortedByTime ==
    \A k \in 0 .. cnt - 1 : \A j \in 0 .. k - 1 : TimeAt(j) < TimeAt(k)

(* The search loop of search_data_bfr ends at the first packet that is not *)
(* older than the target, for every target within the ring: the time of a  *)
(* packet to be stored, or a millisecond after the last one retrieved.     *)
BisectFindsPlace ==
    ~IsEmpty =>
        \A t \in Times \cup {u + 1 : u \in Times \cup {0}} :
            WithinRing(t) => Bisect(t) = PlaceOf(t)

(* The ring implements the bounded store of SortedCache: what a store may  *)
(* lose and what a retrieve must return.                                   *)
Stored == {At(k) : k \in 0 .. cnt - 1}

Cache == INSTANCE SortedCache WITH Capacity <- DataSize, cache <- Stored

ImplementsCache == Cache!CacheSpec
=============================================================================
