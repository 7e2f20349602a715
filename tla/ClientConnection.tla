-------------------------- MODULE ClientConnection --------------------------
(***************************************************************************)
(* The client thread's connection to the remote server: the loop of        *)
(* client_thread in client.c with client_rcv_to_ring, send_channel_request *)
(* and, from socket.c, get_socket, sdr_connect and send_to_host.           *)
(*                                                                         *)
(* One pass of the loop is "select", "receive", "switch" (on the state of  *)
(* the client) and "send"; the socket can change before each of them.      *)
(* Rings hold numbers of bytes: ByteRing says how, ClientParser what is    *)
(* made of them.                                                           *)
(***************************************************************************)
EXTENDS Integers

CONSTANTS RequestLen,    (* CHANREQUESTLEN                                 *)
          SendCapacity,  (* BFRSIZE, of the send ring                      *)
          RcvCapacity,   (* BFRSIZE, of the receive ring                   *)
          FailTime,      (* POSTCONNECTIONTIMOUT, in CLIENTCYCLETIMERs     *)
          InboxLimit     (* bound: bytes at the socket, not yet received   *)

ASSUME SizesAssumption ==
    /\ {RequestLen, SendCapacity, RcvCapacity, FailTime, InboxLimit} \subseteq Nat \ {0}
    /\ RequestLen <= SendCapacity

VARIABLES
    state,       (* enum rcvstate_t                                        *)
    pc,          (* part of the pass; "failed" by fail(), "killed" by      *)
                 (* SIGPIPE                                                *)
    canRead,     (* FD_ISSET(rsocket, &readfds)                            *)
    canWrite,    (* FD_ISSET(rsocket, &writefds)                           *)
    failtimer,
    sendRing,    (* bytes on the send ring                                 *)
    rcvRing,     (* bytes on the receive ring                              *)
    link,        (* condition of the socket                                *)
    inbox,       (* bytes that arrived at the socket                       *)
    obstructed,  (* the server sends what the parser does not get past     *)
    sent,        (* history: bytes sent on this connection; beyond one     *)
                 (* request only the number after the last whole request   *)
    received     (* history: bytes received on it, up to RcvCapacity       *)

fds == <<canRead, canWrite>>
rings == <<sendRing, rcvRing>>
socketVars == <<link, inbox, obstructed>>
history == <<sent, received>>
vars == <<state, pc, fds, failtimer, rings, socketVars, history>>

(* No socket; one that is not connected yet; one that connect() was not    *)
(* able to connect; connected; cut off without notice; closed by the       *)
(* server; reset by it; reset, and the program has been told.              *)
Links == {"none", "new", "unmade", "up", "cut", "closed", "reset", "dead"}

States == {"GET_SOCKET", "RECONNECT", "CONNECT", "SEND_CHANNEL_REQUEST", "GET_DATA"}

(* state >= CLI_STATE_SEND_CHANNEL_REQUEST                                 *)
Connected == state \in {"SEND_CHANNEL_REQUEST", "GET_DATA"}

Lesser(a, b) == IF a < b THEN a ELSE b

Tally(n) == IF n < 2 * RequestLen THEN n ELSE RequestLen + (n % RequestLen)

-----------------------------------------------------------------------------
(* The remote server and the network.                                      *)

Readable == inbox > 0 \/ link \in {"unmade", "closed", "reset", "dead"}

DataArrives ==
    /\ link = "up" /\ inbox < InboxLimit
    /\ inbox' = inbox + 1
    /\ UNCHANGED <<state, pc, fds, failtimer, rings, link, obstructed, history>>

LinkChanges(from, to) ==
    /\ link = from /\ link' = to
    /\ UNCHANGED <<state, pc, fds, failtimer, rings, inbox, obstructed, history>>

ServerCloses == LinkChanges("up", "closed")
ServerResets == LinkChanges("up", "reset") \/ LinkChanges("closed", "dead")
NetworkDrops == LinkChanges("up", "cut")
TcpGivesUp == LinkChanges("cut", "reset")

Outside == DataArrives \/ ServerCloses \/ ServerResets \/ NetworkDrops \/ TcpGivesUp

-----------------------------------------------------------------------------
(* The pass.                                                               *)

(* A socket that nothing was sent on yet has room for a request.           *)
Writable == sent = 0 \/ link \in {"unmade", "reset", "dead"}

(* Where there is nothing connected the sets keep what they had.           *)
Select ==
    /\ pc = "select"
    /\ IF Connected
       THEN /\ pc' = "receive"
            /\ canRead' = Readable
            /\ canWrite' \in {TRUE, Writable}
       ELSE /\ pc' = "switch"
            /\ UNCHANGED fds
    /\ UNCHANGED <<state, failtimer, rings, socketVars, history>>

(* The guard is about the send ring.                                       *)
MayReceive == pc = "receive" /\ sendRing < SendCapacity /\ canRead

SkipReceive ==
    /\ pc = "receive" /\ ~(sendRing < SendCapacity /\ canRead)
    /\ pc' = "switch"
    /\ UNCHANGED <<state, fds, failtimer, rings, socketVars, history>>

(* A full receive ring counts as a server that has nothing to say.         *)
ReceiveNothing ==
    /\ MayReceive /\ rcvRing = RcvCapacity
    /\ pc' = "switch"
    /\ failtimer' = IF failtimer = 0 THEN 0 ELSE failtimer - 1
    /\ state' = IF failtimer' = 0 THEN "SEND_CHANNEL_REQUEST" ELSE state
    /\ UNCHANGED <<fds, rings, socketVars, history>>

ReceiveBeyondRoom ==
    /\ MayReceive /\ rcvRing < RcvCapacity /\ inbox > 0
    /\ pc' = "switch"
    /\ inbox' = 0 /\ rcvRing' = rcvRing + inbox
    /\ received' = Lesser(received + inbox, RcvCapacity)
    /\ failtimer' = FailTime
    /\ UNCHANGED <<state, fds, sendRing, link, obstructed, sent>>

ReceiveData ==
    /\ MayReceive /\ rcvRing < RcvCapacity /\ inbox > 0
    /\ pc' = "switch"
    /\ LET n == Lesser(inbox, RcvCapacity - rcvRing)
       IN /\ inbox' = inbox - n /\ rcvRing' = rcvRing + n
          /\ received' = Lesser(received + n, RcvCapacity)
    /\ failtimer' = FailTime
    /\ UNCHANGED <<state, fds, sendRing, link, obstructed, sent>>

AlwaysRequest == "SEND_CHANNEL_REQUEST"

(* The socket says that the connection is gone; the timer, if it has run   *)
(* out or was never set, overrides that.                                   *)
AfterLoss == IF failtimer = 0 THEN "SEND_CHANNEL_REQUEST" ELSE "RECONNECT"

ReceiveLoss ==
    /\ MayReceive /\ rcvRing < RcvCapacity /\ inbox = 0
    /\ pc' = "switch"
    /\ state' = AfterLoss
    /\ link' = IF link = "reset" THEN "dead" ELSE link
    /\ UNCHANGED <<fds, failtimer, rings, inbox, obstructed, history>>

GetSocket ==
    /\ pc = "switch" /\ state = "GET_SOCKET"
    /\ pc' = "send" /\ state' = "CONNECT"
    /\ link' = "new"
    /\ UNCHANGED <<fds, failtimer, rings, inbox, obstructed, history>>

CloseAndConnect ==
    /\ pc = "switch" /\ state = "RECONNECT"
    /\ pc' = "send" /\ state' = "CONNECT"
    /\ link' = "none" /\ inbox' = 0
    /\ UNCHANGED <<fds, failtimer, rings, obstructed, history>>

CloseSocket ==
    /\ pc = "switch" /\ state = "RECONNECT"
    /\ pc' = "send" /\ state' = "GET_SOCKET"
    /\ link' = "none" /\ inbox' = 0
    /\ UNCHANGED <<fds, failtimer, rings, obstructed, history>>

ConnectLeavingRings ==
    /\ pc = "switch" /\ state = "CONNECT"
    /\ pc' = "send" /\ state' = "SEND_CHANNEL_REQUEST"
    /\ link' \in {"up", "unmade"} /\ obstructed' \in BOOLEAN
    /\ sent' = 0 /\ received' = 0
    /\ UNCHANGED <<fds, failtimer, rings, inbox>>

(* sdr_connect returns 0 as well when the server refused, was not          *)
(* reachable or did not answer.                                            *)
Connect ==
    /\ pc = "switch" /\ state = "CONNECT"
    /\ pc' = "send" /\ state' = "SEND_CHANNEL_REQUEST"
    /\ link' \in {"up", "unmade"} /\ obstructed' \in BOOLEAN
    /\ sendRing' = 0 /\ rcvRing' = 0
    /\ sent' = 0 /\ received' = 0
    /\ UNCHANGED <<fds, failtimer, inbox>>

(* No socket, no close or another error of connect() end the program.      *)
FailInCall ==
    /\ pc = "switch" /\ state \in {"GET_SOCKET", "RECONNECT", "CONNECT"}
    /\ pc' = "failed"
    /\ UNCHANGED <<state, fds, failtimer, rings, socketVars, history>>

SendChannelRequest ==
    /\ pc = "switch" /\ state = "SEND_CHANNEL_REQUEST"
    /\ pc' = "send"
    /\ IF canWrite /\ SendCapacity - sendRing >= RequestLen
       THEN sendRing' = sendRing + RequestLen /\ state' = "GET_DATA"
       ELSE UNCHANGED <<sendRing, state>>
    /\ UNCHANGED <<fds, failtimer, rcvRing, socketVars, history>>

GetDataUnread ==
    /\ pc = "switch" /\ state = "GET_DATA"
    /\ pc' = "send"
    /\ UNCHANGED <<state, fds, failtimer, rings, socketVars, history>>

(* check_data makes room on a full ring, unless the server is obstructive. *)
GetData ==
    /\ pc = "switch" /\ state = "GET_DATA"
    /\ pc' = "send"
    /\ rcvRing' \in 0 .. rcvRing
    /\ rcvRing = RcvCapacity /\ ~obstructed => rcvRing' < rcvRing
    /\ UNCHANGED <<state, fds, failtimer, sendRing, socketVars, history>>

MaySend == pc = "send" /\ Connected /\ sendRing > 0 /\ canWrite

SkipSend ==
    /\ pc = "send" /\ ~(Connected /\ sendRing > 0 /\ canWrite)
    /\ pc' = "select"
    /\ UNCHANGED <<state, fds, failtimer, rings, socketVars, history>>

SendBytesOfRing ==
    /\ MaySend /\ link \in {"up", "cut", "closed"}
    /\ pc' = "select"
    /\ \E n \in 0 .. sendRing : sendRing' = 0 /\ sent' = Tally(sent + n)
    /\ UNCHANGED <<state, fds, failtimer, rcvRing, socketVars, received>>

(* A socket whose peer is gone still takes bytes.  0 stands for a call     *)
(* that would block.                                                       *)
SendBytes ==
    /\ MaySend /\ link \in {"up", "cut", "closed"}
    /\ pc' = "select"
    /\ \E n \in 0 .. sendRing : sendRing' = sendRing - n /\ sent' = Tally(sent + n)
    /\ UNCHANGED <<state, fds, failtimer, rcvRing, socketVars, received>>

SendFindsReset ==
    /\ MaySend /\ link = "reset"
    /\ pc' = "select" /\ state' = "RECONNECT"
    /\ link' = "dead"
    /\ UNCHANGED <<fds, failtimer, rings, inbox, obstructed, history>>

(* Without MSG_NOSIGNAL, EPIPE comes with a signal that nothing handles.   *)
SendKilled ==
    /\ MaySend /\ link \in {"dead", "unmade"}
    /\ pc' = "killed"
    /\ UNCHANGED <<state, fds, failtimer, rings, socketVars, history>>

-----------------------------------------------------------------------------
(* failtimer and the sets have no value of their own at first.             *)
Init ==
    /\ state = "GET_SOCKET" /\ pc = "select"
    /\ canRead \in BOOLEAN /\ canWrite \in BOOLEAN
    /\ failtimer \in 0 .. FailTime
    /\ sendRing = 0 /\ rcvRing = 0
    /\ link = "none" /\ inbox = 0 /\ obstructed = FALSE
    /\ sent = 0 /\ received = 0

Receive == SkipReceive \/ ReceiveNothing \/ ReceiveData \/ ReceiveLoss

Switch ==
    \/ GetSocket \/ CloseSocket \/ Connect \/ FailInCall
    \/ SendChannelRequest \/ GetData

Send == SkipSend \/ SendBytes \/ SendFindsReset \/ SendKilled

Pass == Select \/ Receive \/ Switch \/ Send

Next == Pass \/ Outside

Spec == Init /\ [][Next]_vars

(* The thread keeps running; nothing is assumed of server and network.     *)
FairSpec == Spec /\ WF_vars(Pass)

-----------------------------------------------------------------------------
(* Every variable keeps its type; the rings hold no more than they can.    *)
TypeOK ==
    /\ state \in States
    /\ pc \in {"select", "receive", "switch", "send", "failed", "killed"}
    /\ canRead \in BOOLEAN /\ canWrite \in BOOLEAN
    /\ failtimer \in 0 .. FailTime
    /\ sendRing \in 0 .. SendCapacity /\ rcvRing \in 0 .. RcvCapacity
    /\ link \in Links /\ inbox \in 0 .. InboxLimit /\ obstructed \in BOOLEAN
    /\ sent \in 0 .. 2 * RequestLen - 1 /\ received \in 0 .. RcvCapacity

(* The thread works on a socket it has: it neither leaves one open when it *)
(* gets the next, nor receives or sends on one it closed or never tried to *)
(* connect, whichever way it learned of a loss and whatever the timer says.*)
SocketFitsState ==
    /\ state = "GET_SOCKET" <=> link = "none"
    /\ state = "CONNECT" <=> link = "new"

(* What the server gets is a sequence of whole requests, and data is only  *)
(* awaited once one is sent or on its way: a request, or the rest of one,  *)
(* that was waiting when a connection broke never goes out on the next.    *)
WholeRequests ==
    Connected =>
        /\ (sent + sendRing) % RequestLen = 0
        /\ state = "GET_DATA" => sent + sendRing >= RequestLen

(* The parser is only given bytes of the present connection: the end of    *)
(* what a lost one had sent is never put together with the start of the    *)
(* next.                                                                   *)
OnlyThisConnection == Connected => rcvRing <= received

(* A socket that was never connected is not written to, which would kill   *)
(* the program, as long as the timer is set and has not run out: its loss  *)
(* is seen first, though the sets of the connection before may still be    *)
(* there.                                                                  *)
UnmadeNotWritten ==
    [][pc # "killed" /\ pc' = "killed" /\ link = "unmade" => failtimer = 0]_vars

Ended == pc \in {"failed", "killed"}

Lost == link \in {"unmade", "closed", "reset", "dead"}

(* A connection that the system says is gone is closed and another socket  *)
(* taken, unless the program ends or its timer has run out.                *)
LostIsClosed == Lost ~> ~Lost \/ Ended \/ failtimer = 0

(* A full receive ring gets room again, unless the server sends what the   *)
(* parser does not get past: the timer, which goes on while the ring is    *)
(* full and then keeps the thread from parsing, does not run out before.   *)
FullIsRead ==
    rcvRing = RcvCapacity ~> rcvRing < RcvCapacity \/ obstructed \/ Ended

(* main.c says that the client thread attempts to reconnect when the       *)
(* connection is lost.                                                     *)
LostIsReconnected == Lost ~> state = "CONNECT" \/ pc = "failed"
=============================================================================
