------------------------------ MODULE ByteRing ------------------------------
(***************************************************************************)
(* The byte rings of buffer.c: every connection of sdrproxy has one for    *)
(* what it receives and one for what it sends.  A ring belongs to one      *)
(* thread, so a call of ring_ops is one action.  The buffer is one byte    *)
(* longer than the ring's capacity: equal pointers mean an empty ring.     *)
(***************************************************************************)
EXTENDS Integers, Sequences

CONSTANTS Capacity,  (* bytes the ring is allocated for                    *)
          Bytes,     (* values of a byte                                   *)
          NoByte     (* content of memory never written                    *)

ASSUME CapacityAssumption == Capacity \in Nat \ {0}
ASSUME NoByteAssumption == NoByte \notin Bytes

VARIABLES ring,      (* the buffer                                         *)
          readptr,   (* index of the oldest byte                           *)
          writeptr,  (* index of the next byte to be stored                *)
          reply      (* what the last call was given and what it returned  *)

vars == <<ring, readptr, writeptr, reply>>

BfrSize == Capacity + 1
Positions == 0 .. Capacity

(* Requests: of all lengths, and one byte too long.                        *)
Strings == UNION {[1 .. n -> Bytes] : n \in 0 .. Capacity + 1}
Counts == 0 .. Capacity + 1

(* A call with its return value, the number of bytes it asked for, and the *)
(* bytes that went in or came out.                                         *)
Call(op, ret, n, bytes) == [op |-> op, ret |-> ret, n |-> n, bytes |-> bytes]

RingNormalize(index) == (index + BfrSize) % BfrSize

BytesFreeOneMore == (readptr - writeptr + BfrSize) % BfrSize

BytesFree == (readptr - writeptr + BfrSize - 1) % BfrSize
BytesStored == (writeptr - readptr + BfrSize) % BfrSize
IsFull == (writeptr + 1) % BfrSize = readptr
IsEmpty == readptr = writeptr

CopiedInUnwrapped(s) ==
    [i \in Positions |->
        IF i - writeptr \in 0 .. Len(s) - 1 THEN s[i - writeptr + 1] ELSE ring[i]]

(* The copy into the ring, in two parts if it will wrap.                   *)
CopiedIn(s) ==
    LET partial == BfrSize - writeptr
    IN [i \in Positions |->
           IF i - writeptr \in 0 .. Len(s) - 1 THEN s[i - writeptr + 1]
           ELSE IF i < Len(s) - partial THEN s[partial + i + 1]
           ELSE ring[i]]

(* The copy out of the ring, likewise.                                     *)
CopiedOut(n) ==
    LET partial == BfrSize - readptr
    IN [i \in 1 .. n |->
           IF i <= partial THEN ring[readptr + i - 1] ELSE ring[i - partial - 1]]

RingInit ==
    /\ readptr' = 0 /\ writeptr' = 0
    /\ reply' = Call("init", 0, 0, << >>)
    /\ UNCHANGED ring

RingStore(s) ==
    /\ Len(s) <= BytesFree
    /\ ring' = CopiedIn(s)
    /\ writeptr' = RingNormalize(writeptr + Len(s))
    /\ reply' = Call("store", 0, Len(s), s)
    /\ UNCHANGED readptr

RefuseStore(s) ==
    /\ Len(s) > BytesFree
    /\ reply' = Call("store", -1, Len(s), s)
    /\ UNCHANGED <<ring, readptr, writeptr>>

RingView(n) ==
    /\ n <= BytesStored
    /\ reply' = Call("view", 0, n, CopiedOut(n))
    /\ UNCHANGED <<ring, readptr, writeptr>>

RingRetr(n) ==
    /\ n <= BytesStored
    /\ reply' = Call("retr", 0, n, CopiedOut(n))
    /\ readptr' = RingNormalize(readptr + n)
    /\ UNCHANGED <<ring, writeptr>>

RingDeleteAny(n) ==
    /\ n > 0
    /\ readptr' = RingNormalize(readptr + n)
    /\ reply' = Call("delete", 0, n, << >>)
    /\ UNCHANGED <<ring, writeptr>>

RingDelete(n) ==
    /\ n > 0 /\ n <= BytesStored
    /\ readptr' = RingNormalize(readptr + n)
    /\ reply' = Call("delete", 0, n, << >>)
    /\ UNCHANGED <<ring, writeptr>>

(* RING_RETR and RING_VIEW of too many bytes; RING_DELETE also of none.    *)
RefuseCount(op, n) ==
    /\ n > BytesStored \/ (op = "delete" /\ n = 0)
    /\ reply' = Call(op, -1, n, << >>)
    /\ UNCHANGED <<ring, readptr, writeptr>>

(* RING_ALLOC.                                                             *)
Init ==
    /\ ring = [i \in Positions |-> NoByte]
    /\ readptr = 0 /\ writeptr = 0
    /\ reply = Call("init", 0, 0, << >>)

Next ==
    \/ \E s \in Strings : RingStore(s) \/ RefuseStore(s)
    \/ \E n \in Counts :
          \/ RingView(n) \/ RingRetr(n) \/ RingDelete(n)
          \/ \E op \in {"view", "retr", "delete"} : RefuseCount(op, n)
    \/ RingInit

Spec == Init /\ [][Next]_vars

-----------------------------------------------------------------------------
(* Every variable keeps its type: the pointers stay inside the buffer, and *)
(* no byte is handed out that was never written.                           *)
TypeOK ==
    /\ ring \in [Positions -> Bytes \cup {NoByte}]
    /\ readptr \in Positions /\ writeptr \in Positions
    /\ reply.op \in {"init", "store", "view", "retr", "delete"}
    /\ reply.ret \in {0, -1} /\ reply.n \in Counts /\ reply.bytes \in Seq(Bytes)

(* The four questions a thread can ask about a ring, each computed with a  *)
(* modulus of its own, never contradict each other at the boundaries.      *)
CountsAgree ==
    /\ BytesStored + BytesFree = Capacity
    /\ IsFull <=> BytesFree = 0
    /\ IsEmpty <=> BytesStored = 0

(* The ring implements the queue: bytes come out as they went in, also     *)
(* across the end of the buffer, and a call that is refused changes nothing.*)
Queue == INSTANCE ByteQueue WITH
             queue <- [i \in 1 .. BytesStored |-> ring[RingNormalize(readptr + i - 1)]]

ImplementsQueue == Queue!QueueSpec
=============================================================================
