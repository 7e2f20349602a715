------------------------------ MODULE ByteQueue ------------------------------
(***************************************************************************)
(* What a byte ring of buffer.c promises the threads that use it: a queue  *)
(* of at most Capacity bytes.  A call that asks for more room or for more  *)
(* bytes than there are returns -1 and changes nothing.                    *)
(***************************************************************************)
EXTENDS Integers, Sequences

CONSTANTS Capacity,  (* bytes the ring was allocated for                   *)
          Bytes      (* values of a byte                                   *)

VARIABLES queue,     (* the bytes stored, the oldest one first             *)
          reply      (* what the last call was given and what it returned  *)

queueVars == <<queue, reply>>

Strings == UNION {[1 .. n -> Bytes] : n \in 0 .. Capacity + 1}
Counts == 0 .. Capacity + 1

(* A call with its return value, the number of bytes it asked for, and the *)
(* bytes that went in or came out.                                         *)
Call(op, ret, n, bytes) == [op |-> op, ret |-> ret, n |-> n, bytes |-> bytes]

QueueInit == queue = << >> /\ reply = Call("init", 0, 0, << >>)

Put(s) ==
    /\ Len(queue) + Len(s) <= Capacity
    /\ queue' = queue \o s
    /\ reply' = Call("store", 0, Len(s), s)

NoRoom(s) ==
    /\ Len(queue) + Len(s) > Capacity
    /\ reply' = Call("store", -1, Len(s), s) /\ UNCHANGED queue

Peek(n) ==
    /\ n <= Len(queue)
    /\ reply' = Call("view", 0, n, SubSeq(queue, 1, n)) /\ UNCHANGED queue

Get(n) ==
    /\ n <= Len(queue)
    /\ reply' = Call("retr", 0, n, SubSeq(queue, 1, n))
    /\ queue' = SubSeq(queue, n + 1, Len(queue))

(* Unlike Get, dropping no byte at all is refused. *)
Drop(n) ==
    /\ n \in 1 .. Len(queue)
    /\ queue' = SubSeq(queue, n + 1, Len(queue))
    /\ reply' = Call("delete", 0, n, << >>)

TooMany(op, n) ==
    /\ n > Len(queue) \/ (op = "delete" /\ n = 0)
    /\ reply' = Call(op, -1, n, << >>) /\ UNCHANGED queue

Clear == queue' = << >> /\ reply' = Call("init", 0, 0, << >>)

QueueNext ==
    \/ \E s \in Strings : Put(s) \/ NoRoom(s)
    \/ \E n \in Counts :
          \/ Peek(n) \/ Get(n) \/ Drop(n)
          \/ \E op \in {"view", "retr", "delete"} : TooMany(op, n)
    \/ Clear

QueueSpec == QueueInit /\ [][QueueNext]_queueVars
=============================================================================
