---------------------------- MODULE SortedCache ----------------------------
(***************************************************************************)
(* What the data ring of databfr.c promises its two users: a bounded store *)
(* of packets with at most one packet per time stamp.  Storing never loses *)
(* anything but the oldest packet of a full store, or the packet of the    *)
(* same time stamp; retrieving returns the packet that follows a given     *)
(* time.  How the packets are laid out in memory is left open.             *)
(***************************************************************************)
EXTENDS Integers, FiniteSets

CONSTANTS Capacity,  (* most packets kept at a time: DATASIZE               *)
          Times,     (* time stamps, in milliseconds                       *)
          Images,    (* packet contents, opaque here                       *)
          NoPacket   (* what a reply carries when there is no packet       *)

VARIABLES cache,     (* the packets stored now                             *)
          reply      (* what the last call was given and what it returned  *)

cacheVars == <<cache, reply>>

Packet == [time : Times, img : Images]

(* A call with the time it was given, its return value, and the packet     *)
(* that went in or came out.                                               *)
Reply(act, time, ret, packet) ==
    [act |-> act, time |-> time, ret |-> ret, packet |-> packet]

IsOldest(p, S) == \A q \in S : p.time <= q.time

CacheInit == cache = {} /\ reply = Reply("reset", 0, 0, NoPacket)

(* A packet of a time stamp already present takes the place of the old one. *)
Replace(p) ==
    \E q \in cache :
        /\ q.time = p.time
        /\ cache' = (cache \ {q}) \cup {p}
        /\ reply' = Reply("store", p.time, 0, p)

Insert(p) ==
    /\ \A q \in cache : q.time # p.time
    /\ Cardinality(cache) < Capacity
    /\ cache' = cache \cup {p}
    /\ reply' = Reply("store", p.time, 0, p)

(* A full store makes room by giving up its oldest packet. *)
Displace(p) ==
    /\ \A q \in cache : q.time # p.time
    /\ Cardinality(cache) = Capacity
    /\ \E q \in cache :
        /\ IsOldest(q, cache)
        /\ q.time < p.time
        /\ cache' = (cache \ {q}) \cup {p}
    /\ reply' = Reply("store", p.time, 0, p)

(* A packet older than all of a full store is refused. *)
Refuse(p) ==
    /\ Cardinality(cache) = Capacity
    /\ \A q \in cache : p.time < q.time
    /\ reply' = Reply("store", p.time, 1, p)
    /\ UNCHANGED cache

(* The reader gives the time of the last packet it has seen.  A time older *)
(* than all is met by the oldest packet, as the description of the return  *)
(* values says (databfr.c:254); the comment on the action itself promises  *)
(* a 1 for it (430-431), which the code does not return.                   *)
Following(t) ==
    \E q \in cache :
        /\ q.time > t
        /\ IsOldest(q, {r \in cache : r.time > t})
        /\ reply' = Reply("retr", t, 0, q)
        /\ UNCHANGED cache

(* An empty store gives 1 as well, not the documented 2 (databfr.c:256).    *)
NothingNewer(t) ==
    /\ \A q \in cache : q.time <= t
    /\ reply' = Reply("retr", t, 1, NoPacket)
    /\ UNCHANGED cache

Reset == cache' = {} /\ reply' = Reply("reset", 0, 0, NoPacket)

CacheNext ==
    \/ \E p \in Packet : Replace(p) \/ Insert(p) \/ Displace(p) \/ Refuse(p)
    \/ \E t \in Times \cup {0} : Following(t) \/ NothingNewer(t)
    \/ Reset

CacheSpec == CacheInit /\ [][CacheNext]_cacheVars
=============================================================================
