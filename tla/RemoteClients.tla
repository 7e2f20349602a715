---------------------------- MODULE RemoteClients ----------------------------
(***************************************************************************)
(* The server thread of server.c and the remote clients it serves from the *)
(* data ring: connection slots, the history of what each address was sent, *)
(* and sockets that close or break at any moment.                          *)
(*                                                                         *)
(* The thread is one loop: select; for each slot read and advance its      *)
(* state, then write; accept one connection; expire history.  The sockets  *)
(* change between any two of these steps, while the thread works with what *)
(* select said at the start of the loop.                                   *)
(***************************************************************************)
EXTENDS Integers, Sequences, FiniteSets

CONSTANTS Clients,       (* remote clients, each at an address of its own  *)
          NumSlots,      (* MAXCLIENTCONNECTIONS                           *)
          MaxTime,       (* bound: seconds of packets in a behaviour       *)
          MaxGap,        (* bound: packets missing between two that arrive *)
          CacheSize,     (* DATASIZE                                       *)
          IdleTimeout,   (* SRVR_IDLE_TIMEOUT                              *)
          Overlap,       (* SECONDS_OVERLAP                                *)
          RequestForms,  (* requests sent: "plain" or "numbered"         *)
          SilentDrops    (* whether a client can be cut off unnoticed      *)

ASSUME ParameterAssumption ==
    /\ {NumSlots, CacheSize, Overlap} \subseteq Nat \ {0}
    /\ {MaxTime, MaxGap, IdleTimeout} \subseteq Nat
    /\ RequestForms \subseteq {"plain", "numbered"}
    /\ SilentDrops \in BOOLEAN

Slots == 1 .. NumSlots
Away == 0
Waiting == -1

(* Sizes in half packets: the send ring is allocated for one packet.       *)
ChannelUnits == 1
PacketUnits == 2
SendRingUnits == 2

VARIABLES
    cache,     (* times of the packets in the data ring                    *)
    clock,     (* time of the newest packet that arrived                   *)
    slot,      (* conn_data: state, client and idle_timer of each          *)
    sock,      (* the socket of each slot as the system sees it            *)
    pending,   (* units on the send ring of each slot                      *)
    known,     (* addresses that have a history record                     *)
    lastTime,  (* last_packet_time of the record of each address           *)
    at,        (* where a client believes to be: Away, Waiting, a slot     *)
    backlog,   (* connections not accepted yet, in order                   *)
    turn,      (* what the thread does next                                *)
    ready,     (* what select found readable: slots, 0 for the listener    *)
    exited,    (* fail() was called: the program is gone                   *)
    lastPut,   (* history: time of the last packet put on its send ring, at *)
               (* first the time its client resumes from                   *)
    told,      (* history: channel information was put on its send ring    *)
    stopped    (* history: time of the last packet that was sent whole to  *)
               (* each client before it lost its connection                *)

cacheVars == <<cache, clock>>
netVars == <<sock, at, backlog>>
connVars == <<slot, pending, known, lastTime>>
traceVars == <<lastPut, told, stopped>>
threadVars == <<turn, ready, exited>>
vars == <<cacheVars, netVars, connVars, traceVars, threadVars>>

(* A socket: whether the peer is "open", "closed" or "reset", and the      *)
(* request it has sent that was not read yet.                              *)
Socket == [peer : {"open", "closed", "reset"}, req : {"none", "plain", "numbered"}]
NewSocket == [peer |-> "open", req |-> "none"]

State(s) == slot[s].state
Active(s) == State(s) # "inactive"
Record(s) == slot[s].client

Turns == {<<"select", 0>>, <<"accept", 0>>, <<"expire", 0>>}
            \cup ({"read", "write"} \X Slots)

(* The loop over the connections.                                          *)
AfterSlot(s) == IF s < NumSlots THEN <<"read", s + 1>> ELSE <<"accept", 0>>

-----------------------------------------------------------------------------
(* The world around the thread.                                            *)

Oldest(times) == CHOOSE t \in times : \A u \in times : t <= u

(* The client thread stores a packet, of the second after the last one or  *)
(* later if some were lost; a full ring gives up its oldest one.           *)
PacketArrives ==
    /\ ~exited
    /\ \E t \in clock + 1 .. clock + 1 + MaxGap :
          /\ t <= MaxTime
          /\ clock' = t
          /\ cache' = {t} \cup IF Cardinality(cache) < CacheSize THEN cache
                               ELSE cache \ {Oldest(cache)}
    /\ UNCHANGED <<netVars, connVars, traceVars, threadVars>>

Dial(c) ==
    /\ at[c] = Away
    /\ at' = [at EXCEPT ![c] = Waiting]
    /\ backlog' = Append(backlog, c)
    /\ UNCHANGED <<cacheVars, sock, connVars, traceVars, threadVars>>

(* "SEND AD", or "SENDnAD" from another sdrproxy with a client number.     *)
Request(c) ==
    /\ at[c] \in Slots
    /\ sock[at[c]].req = "none"
    /\ \E form \in RequestForms : sock' = [sock EXCEPT ![at[c]].req = form]
    /\ UNCHANGED <<cacheVars, at, backlog, connVars, traceVars, threadVars>>

(* Where a client stops that loses its connection: what is still on the    *)
(* send ring does not reach it.                                            *)
LastSent(s) == IF pending[s] > 0 /\ lastPut[s] > 0 THEN lastPut[s] - 1 ELSE lastPut[s]

CutOff(c) ==
    /\ at' = [at EXCEPT ![c] = Away]
    /\ stopped' = [stopped EXCEPT ![c] = LastSent(at[c])]
    /\ UNCHANGED <<lastPut, told>>

Leave(c) ==
    /\ at[c] \in Slots
    /\ CutOff(c)
    /\ \E how \in {"closed", "reset"} : sock' = [sock EXCEPT ![at[c]].peer = how]
    /\ UNCHANGED <<cacheVars, backlog, connVars, threadVars>>

(* The client is cut off, or restarted, and the server's socket stays as   *)
(* it is until the system gives it up.                                     *)
DropSilently(c) ==
    /\ SilentDrops /\ at[c] \in Slots
    /\ CutOff(c)
    /\ UNCHANGED <<cacheVars, sock, backlog, connVars, threadVars>>

(* A packet sent to a peer that closed, or keeps silent, ends in a reset.  *)
ResetArrives(s) ==
    /\ Active(s) /\ \A c \in Clients : at[c] # s
    /\ sock[s].peer # "reset"
    /\ sock' = [sock EXCEPT ![s].peer = "reset"]
    /\ UNCHANGED <<cacheVars, at, backlog, connVars, traceVars, threadVars>>

-----------------------------------------------------------------------------
(* The thread.                                                             *)

At(t) == ~exited /\ turn = t

Readable(s) == Active(s) /\ sock[s] # NewSocket

Select ==
    /\ At(<<"select", 0>>)
    /\ ready' = {s \in Slots : Readable(s)} \cup (IF backlog = << >> THEN {} ELSE {0})
    /\ turn' = <<"read", 1>>
    /\ UNCHANGED <<cacheVars, netVars, connVars, traceVars, exited>>

(* The state after server_rcv_to_ring and check_server_incoming: a request *)
(* that has arrived is read before the end of the connection is noticed.   *)
AfterReadAnyRequest(s) ==
    IF s \notin ready THEN State(s)
    ELSE IF sock[s].req # "none" THEN "sendadc"
    ELSE IF sock[s].peer = "open" THEN State(s)
    ELSE "shutdown"

AfterReadIgnoringClose(s) ==
    IF s \notin ready THEN State(s)
    ELSE IF sock[s].req = "plain" THEN "sendchan"
    ELSE State(s)

AfterRead(s) ==
    IF s \notin ready THEN State(s)
    ELSE IF sock[s].req = "plain" THEN "sendchan"
    ELSE IF sock[s].req = "numbered" \/ sock[s].peer = "open" THEN State(s)
    ELSE "shutdown"

(* The request was taken from the socket.                                  *)
Consumed(s) == IF s \in ready THEN [sock EXCEPT ![s].req = "none"] ELSE sock

(* Steps of service_connection end by going on to its write part.          *)
GoOnToWrite(s) ==
    /\ turn' = <<"write", s>>
    /\ UNCHANGED <<cacheVars, backlog, ready, exited>>

SkipInactive(s) ==
    /\ At(<<"read", s>>) /\ ~Active(s)
    /\ turn' = AfterSlot(s)
    /\ UNCHANGED <<cacheVars, netVars, connVars, traceVars, ready, exited>>

(* The socket is closed, which the client notices.                         *)
Shutdown(s) ==
    /\ At(<<"read", s>>) /\ Active(s) /\ AfterRead(s) = "shutdown"
    /\ slot' = [slot EXCEPT ![s].state = "inactive"]
    /\ sock' = [sock EXCEPT ![s] = NewSocket]
    /\ at' = [c \in Clients |-> IF at[c] = s THEN Away ELSE at[c]]
    /\ stopped' = [c \in Clients |-> IF at[c] = s THEN LastSent(s) ELSE stopped[c]]
    /\ lastPut' = [lastPut EXCEPT ![s] = 0]
    /\ told' = [told EXCEPT ![s] = FALSE]
    /\ UNCHANGED <<pending, known, lastTime>>
    /\ GoOnToWrite(s)

PutChannelData(s) ==
    /\ At(<<"read", s>>) /\ Active(s) /\ AfterRead(s) = "sendchan"
    /\ sock' = Consumed(s)
    /\ IF pending[s] + ChannelUnits <= SendRingUnits
       THEN /\ pending' = [pending EXCEPT ![s] = @ + ChannelUnits]
            /\ slot' = [slot EXCEPT ![s].state = "sendadc"]
            /\ told' = [told EXCEPT ![s] = TRUE]
       ELSE /\ slot' = [slot EXCEPT ![s].state = "sendchan"]
            /\ UNCHANGED <<pending, told>>
    /\ UNCHANGED <<at, known, lastTime, lastPut, stopped>>
    /\ GoOnToWrite(s)

(* RING_RETR: the oldest packet after the one the record says was sent.    *)
NewerThan(t) == {u \in cache : u > t}
Newest(times) == CHOOSE t \in times : \A u \in times : t >= u

PutNewestData(s) ==
    /\ At(<<"read", s>>) /\ Active(s) /\ AfterRead(s) = "sendadc"
    /\ sock' = Consumed(s)
    /\ IF NewerThan(lastTime[Record(s)]) # {} /\ pending[s] + PacketUnits <= SendRingUnits
       THEN LET t == Newest(NewerThan(lastTime[Record(s)]))
            IN /\ pending' = [pending EXCEPT ![s] = @ + PacketUnits]
               /\ lastTime' = [lastTime EXCEPT ![Record(s)] = t]
               /\ lastPut' = [lastPut EXCEPT ![s] = t]
       ELSE UNCHANGED <<pending, lastTime, lastPut>>
    /\ slot' = [slot EXCEPT ![s].state = "sendadc"]
    /\ UNCHANGED <<at, known, told, stopped>>
    /\ GoOnToWrite(s)

PutWithoutHistory(s) ==
    /\ At(<<"read", s>>) /\ Active(s) /\ AfterRead(s) = "sendadc"
    /\ sock' = Consumed(s)
    /\ IF NewerThan(lastTime[Record(s)]) # {} /\ pending[s] + PacketUnits <= SendRingUnits
       THEN LET t == Oldest(NewerThan(lastTime[Record(s)]))
            IN /\ pending' = [pending EXCEPT ![s] = @ + PacketUnits]
               /\ lastPut' = [lastPut EXCEPT ![s] = t]
       ELSE UNCHANGED <<pending, lastPut>>
    /\ UNCHANGED <<slot, at, known, lastTime, told, stopped>>
    /\ GoOnToWrite(s)

PutWithoutRoom(s) ==
    /\ At(<<"read", s>>) /\ Active(s) /\ AfterRead(s) = "sendadc"
    /\ sock' = Consumed(s)
    /\ IF NewerThan(lastTime[Record(s)]) # {}
       THEN LET t == Oldest(NewerThan(lastTime[Record(s)]))
            IN /\ pending' = [pending EXCEPT ![s] = @ + PacketUnits]
               /\ lastTime' = [lastTime EXCEPT ![Record(s)] = t]
               /\ lastPut' = [lastPut EXCEPT ![s] = t]
       ELSE UNCHANGED <<pending, lastTime, lastPut>>
    /\ UNCHANGED <<slot, at, known, told, stopped>>
    /\ GoOnToWrite(s)

PutAdcData(s) ==
    /\ At(<<"read", s>>) /\ Active(s) /\ AfterRead(s) = "sendadc"
    /\ sock' = Consumed(s)
    /\ IF NewerThan(lastTime[Record(s)]) # {} /\ pending[s] + PacketUnits <= SendRingUnits
       THEN LET t == Oldest(NewerThan(lastTime[Record(s)]))
            IN /\ pending' = [pending EXCEPT ![s] = @ + PacketUnits]
               /\ lastTime' = [lastTime EXCEPT ![Record(s)] = t]
               /\ lastPut' = [lastPut EXCEPT ![s] = t]
       ELSE UNCHANGED <<pending, lastTime, lastPut>>
    /\ UNCHANGED <<slot, at, known, told, stopped>>
    /\ GoOnToWrite(s)

(* A connection that has not asked for anything is given some time.        *)
WaitForever(s) ==
    /\ At(<<"read", s>>) /\ Active(s) /\ AfterRead(s) = "init"
    /\ sock' = Consumed(s)
    /\ UNCHANGED <<slot, at, pending, known, lastTime, traceVars>>
    /\ GoOnToWrite(s)

WaitForRequest(s) ==
    /\ At(<<"read", s>>) /\ Active(s) /\ AfterRead(s) = "init"
    /\ sock' = Consumed(s)
    /\ IF slot[s].idle <= 0
       THEN slot' = [slot EXCEPT ![s].state = "shutdown"]
       ELSE slot' = [slot EXCEPT ![s].idle = @ - 1]
    /\ UNCHANGED <<at, pending, known, lastTime, traceVars>>
    /\ GoOnToWrite(s)

Sending(s) == State(s) \in {"sendchan", "sendadc"} /\ pending[s] > 0

(* send_to_client takes some bytes, or none, from the send ring.           *)
Write(s) ==
    /\ At(<<"write", s>>)
    /\ turn' = AfterSlot(s)
    /\ \/ /\ Sending(s) /\ sock[s].peer # "reset"
          /\ \E n \in 0 .. pending[s] - 1 : pending' = [pending EXCEPT ![s] = n]
       \/ UNCHANGED pending  (* not writable, or EPIPE *)
    /\ UNCHANGED <<cacheVars, netVars, slot, known, lastTime,
                   traceVars, ready, exited>>

(* Any other error than EPIPE calls fail().                                *)
WriteFails(s) ==
    /\ At(<<"write", s>>) /\ Sending(s) /\ sock[s].peer = "reset"
    /\ exited' = TRUE
    /\ UNCHANGED <<cacheVars, netVars, connVars, traceVars, turn, ready>>

FreeSlots == {s \in Slots : ~Active(s)}
FirstFree == CHOOSE s \in FreeSlots : \A r \in FreeSlots : s <= r

(* The connection record, with empty rings, and the history record.        *)
SetUp(c, s, from) ==
    /\ slot' = [slot EXCEPT ![s] = [state |-> "init", client |-> c, idle |-> IdleTimeout]]
    /\ sock' = [sock EXCEPT ![s] = NewSocket]
    /\ pending' = [pending EXCEPT ![s] = 0]
    /\ lastTime' = [lastTime EXCEPT ![c] = from]
    /\ at' = [at EXCEPT ![c] = s]
    /\ lastPut' = [lastPut EXCEPT ![s] = from]
    /\ told' = [told EXCEPT ![s] = FALSE]
    /\ UNCHANGED stopped

NoneToAccept ==
    /\ At(<<"accept", 0>>) /\ 0 \notin ready
    /\ turn' = <<"expire", 0>>
    /\ UNCHANGED <<cacheVars, netVars, connVars, traceVars, ready, exited>>

(* get_new_connection: an address seen before starts again a little        *)
(* earlier than it stopped.  In doubles, the division by a minute and the  *)
(* multiplication by it cancel out.  Times before any packet are all 0.    *)
RewoundOneShort(t) == IF t >= Overlap THEN t - Overlap + 1 ELSE 0

Rewound(t) == IF t > Overlap THEN t - Overlap ELSE 0

Accept ==
    /\ At(<<"accept", 0>>) /\ 0 \in ready /\ FreeSlots # {}
    /\ LET c == Head(backlog)
       IN /\ SetUp(c, FirstFree, IF c \in known THEN Rewound(lastTime[c]) ELSE 0)
          /\ known' = known \cup {c}
    /\ backlog' = Tail(backlog)
    /\ turn' = <<"expire", 0>>
    /\ UNCHANGED <<cacheVars, ready, exited>>

Refuse ==
    /\ At(<<"accept", 0>>) /\ 0 \in ready /\ FreeSlots = {}
    /\ at' = [at EXCEPT ![Head(backlog)] = Away]
    /\ backlog' = Tail(backlog)
    /\ turn' = <<"expire", 0>>
    /\ UNCHANGED <<cacheVars, sock, connVars, traceVars, ready, exited>>

(* Old records are removed from server_conn_history, a list that stays     *)
(* empty: get_new_connection adds to another one, first_id_lst.  What      *)
(* select said is not used any more.                                       *)
Expire ==
    /\ At(<<"expire", 0>>)
    /\ turn' = <<"select", 0>>
    /\ ready' = {}
    /\ UNCHANGED <<cacheVars, netVars, connVars, traceVars, exited>>

(* SRV_CLOSECMD: all sockets are closed and the thread ends.  Main empties *)
(* the data ring and starts a new thread, which knows no history.          *)
CloseAll ==
    /\ At(<<"select", 0>>)
    /\ slot' = [s \in Slots |-> [slot[s] EXCEPT !.state = "inactive"]]
    /\ sock' = [s \in Slots |-> NewSocket]
    /\ pending' = [s \in Slots |-> 0]
    /\ known' = {} /\ lastTime' = [c \in Clients |-> 0]
    /\ at' = [c \in Clients |-> Away] /\ backlog' = << >>
    /\ stopped' = [c \in Clients |-> IF at[c] \in Slots THEN LastSent(at[c]) ELSE stopped[c]]
    /\ cache' = {}
    /\ lastPut' = [s \in Slots |-> 0]
    /\ told' = [s \in Slots |-> FALSE]
    /\ UNCHANGED <<clock, threadVars>>

-----------------------------------------------------------------------------
Init ==
    /\ cache = {} /\ clock = 0
    /\ \E c \in Clients :
          slot = [s \in Slots |-> [state |-> "inactive", client |-> c, idle |-> 0]]
    /\ sock = [s \in Slots |-> NewSocket]
    /\ pending = [s \in Slots |-> 0]
    /\ known = {} /\ lastTime = [c \in Clients |-> 0]
    /\ at = [c \in Clients |-> Away] /\ backlog = << >>
    /\ turn = <<"select", 0>> /\ ready = {} /\ exited = FALSE
    /\ lastPut = [s \in Slots |-> 0]
    /\ told = [s \in Slots |-> FALSE]
    /\ stopped = [c \in Clients |-> 0]

WorldNext ==
    \/ PacketArrives
    \/ \E c \in Clients : Dial(c) \/ Request(c) \/ Leave(c) \/ DropSilently(c)
    \/ \E s \in Slots : ResetArrives(s)

ServiceConnection(s) ==
    \/ SkipInactive(s) \/ Shutdown(s) \/ PutChannelData(s) \/ PutAdcData(s)
    \/ WaitForRequest(s) \/ Write(s) \/ WriteFails(s)

(* One pass of the loop; closing all is main's decision.                   *)
PassNext ==
    \/ Select \/ NoneToAccept \/ Accept \/ Refuse \/ Expire
    \/ \E s \in Slots : ServiceConnection(s)

Next == WorldNext \/ PassNext \/ CloseAll

Spec == Init /\ [][Next]_vars

(* The thread keeps running; nothing is assumed of clients and network.    *)
FairSpec == Spec /\ WF_vars(PassNext)

-----------------------------------------------------------------------------
(* Every variable keeps its type, and no send ring is given more than the  *)
(* one packet it was allocated for.                                        *)
TypeOK ==
    /\ clock \in 0 .. MaxTime /\ cache \subseteq 1 .. clock
    /\ slot \in [Slots -> [state : {"inactive", "init", "sendchan", "sendadc", "shutdown"},
                           client : Clients, idle : 0 .. IdleTimeout]]
    /\ sock \in [Slots -> Socket]
    /\ pending \in [Slots -> 0 .. SendRingUnits]
    /\ known \subseteq Clients
    /\ lastTime \in [Clients -> 0 .. MaxTime]
    /\ at \in [Clients -> Slots \cup {Away, Waiting}]
    /\ backlog \in Seq(Clients)
    /\ turn \in Turns /\ ready \subseteq Slots \cup {0} /\ exited \in BOOLEAN
    /\ lastPut \in [Slots -> 0 .. MaxTime]
    /\ told \in [Slots -> BOOLEAN]
    /\ stopped \in [Clients -> 0 .. MaxTime]

(* A client gets the packets of the data ring in order of time and without *)
(* leaving one out, from the time it resumes at, although others connect,  *)
(* packets are displaced, and the record it goes by outlives connections.  *)
NoGap ==
    [][\A s \in Slots : Active(s) /\ Active(s)' /\ lastPut'[s] # lastPut[s] =>
          /\ lastPut'[s] > lastPut[s]
          /\ \A u \in cache : ~(lastPut[s] < u /\ u < lastPut'[s])]_vars

(* A client that comes back continues where it stopped: it is given all    *)
(* that is in the data ring from the packet that was not sent whole on,    *)
(* although the thread went on putting packets on its send ring, and their *)
(* times on its record, until it noticed that the client was gone.         *)
ContinuesWhereStopped ==
    [][\A c \in Clients : at[c] = Waiting /\ at'[c] \in Slots =>
          \A u \in cache : ~(stopped[c] < u /\ u <= lastPut'[at'[c]])]_vars

(* The history record of a connected client is about its connection, not   *)
(* about an older one of the same address that the thread still serves.    *)
RecordIsCurrent ==
    \A c \in Clients : at[c] \in Slots =>
        Active(at[c]) /\ Record(at[c]) = c /\ lastTime[c] = lastPut[at[c]]

(* A client that is sent anything was sent the channel information first,  *)
(* whatever its slot was used for before and however it asks.              *)
ToldBeforeData ==
    \A s \in Slots :
        State(s) = "sendadc" \/ (Active(s) /\ pending[s] > 0) => told[s]

(* A new connection finds nothing of its predecessor on the send ring.     *)
FreshSendRing == \A s \in Slots : State(s) = "init" => pending[s] = 0

(* A connection that its client closed, or that broke, is released.        *)
LostIsReleased ==
    \A s \in Slots :
        (Active(s) /\ sock[s].peer # "open") ~> (~Active(s) \/ exited)

(* A connection does not wait for its first request forever.               *)
IdleIsReleased ==
    \A s \in Slots : State(s) = "init" ~> (State(s) # "init" \/ exited)

=============================================================================
