---------------------------- MODULE ChannelChange ----------------------------
(***************************************************************************)
(* How the three threads of sdrproxy agree on a new channel configuration. *)
(*                                                                         *)
(* The client thread hears channel information from the remote server and  *)
(* raises CHANCHANGE; the main thread polls that flag, has the server      *)
(* thread shut down, reallocates the data ring for the new configuration,  *)
(* publishes it, lowers the flag and starts a new server thread.           *)
(*                                                                         *)
(* One action is what a thread does in one locked region, or between two of *)
(* them.  mutex_clientcomm is held over one action, except when main       *)
(* copies chan_info_g field by field: it then holds it from copyType on,   *)
(* and the locked actions of the client thread wait.                       *)
(***************************************************************************)
EXTENDS Integers, Sequences

CONSTANTS Configs,    (* configurations the remote server can be set to    *)
          RcvLimit    (* most items the client's receive ring holds        *)

(* struct channelinfo: samples per second, number of channels, A/D type.   *)
ConfigRecord == [sps : Nat, channels : Nat, type : Nat]
NoConfig == [sps |-> 0, channels |-> 0, type |-> 0]

ASSUME ConfigsAssumption == Configs \subseteq ConfigRecord \ {NoConfig}
ASSUME RcvLimitAssumption == RcvLimit \in Nat \ {0}

(* sdr_pkt_size() less its constant part: 4 bytes a reading for type 4.    *)
PacketBytes(c) == c.sps * c.channels * (IF c.type = 4 THEN 4 ELSE 2)

(* What the client thread compares to detect a change: not the type, and   *)
(* not the product of the two.                                             *)
SameRate(a, b) == a.sps = b.sps /\ a.channels = b.channels

VARIABLES
    chanChange,  (* CHANCHANGE in client_comm.flags                        *)
    commInfo,    (* client_comm.chan_info                                  *)
    chanInfo,    (* chan_info_g                                            *)
    closeCmd,    (* SRV_CLOSECMD in server_comm.flags                      *)
    slots,       (* the buffers of the data ring are "live" or "freed"     *)
    slotBytes,   (* bytes each of them was allocated for                   *)
    ring,        (* configurations of the packets now in the data ring     *)
    main,        (* what the main thread does next                         *)
    client,      (* what the client thread does next                       *)
    inhibit,     (* inhibit_adc, read at the start of a pass               *)
    oldInfo,     (* old_chan_info                                          *)
    newInfo,     (* new_chan_info                                          *)
    rcvRing,     (* rcv_ring: complete items received, not looked at yet   *)
    server,      (* what the server thread does next, "none" if not created *)
    announced,   (* channel information this server thread last sent to a  *)
                 (* remote client, NoConfig if none                        *)
    remote,      (* configuration of the remote server                     *)
    link,        (* connection to it: "down", "asked" for data for the     *)
                 (* first time, "streaming", or "askedAgain"               *)
    heard        (* history: the last valid channel information received   *)

clientVars == <<client, inhibit, oldInfo, newInfo, rcvRing, remote, link, heard>>
mainVars == <<main, chanInfo, slots, slotBytes>>
serverVars == <<server, announced>>
flagVars == <<chanChange, commInfo, closeCmd>>
vars == <<flagVars, mainVars, ring, clientVars, serverVars>>

ChannelItem(c) == [kind |-> "channel", config |-> c]
DataItem(c) == [kind |-> "data", config |-> c]
BadItem == [kind |-> "bad", config |-> NoConfig]
Item == [kind : {"channel", "data"}, config : Configs] \cup {BadItem}

ClientCommFree == main # "copyType"

-----------------------------------------------------------------------------
(* The remote server: after a request it sends its channel information,    *)
(* then packets of that configuration; a restart may change it, and breaks *)
(* the connection.                                                         *)

(* CLI_STATE_CONNECT empties the receive ring.                             *)
Reconnect ==
    /\ client = "receive"
    /\ link' = "asked"
    /\ rcvRing' = << >>
    /\ remote' \in Configs
    /\ UNCHANGED <<flagVars, mainVars, ring, serverVars,
                   client, inhibit, oldInfo, newInfo, heard>>

(* failtimer ran out: the channel request is sent again.                   *)
RequestAgain ==
    /\ client = "receive" /\ link = "streaming"
    /\ link' = "askedAgain"
    /\ UNCHANGED <<flagVars, mainVars, ring, serverVars,
                   client, inhibit, oldInfo, newInfo, rcvRing, remote, heard>>

(* What the remote server sends next; its channel information may be one   *)
(* that check_channel_info finds invalid.                                  *)
ChannelArrives ==
    /\ link \in {"asked", "askedAgain"}
    /\ link' = "streaming"
    /\ \E item \in {ChannelItem(remote), BadItem} : rcvRing' = Append(rcvRing, item)

DataArrives ==
    /\ link \in {"streaming", "askedAgain"}
    /\ rcvRing' = Append(rcvRing, DataItem(remote))
    /\ UNCHANGED link

ReceiveAnyAmount ==
    /\ client = "receive"
    /\ ChannelArrives \/ DataArrives
    /\ UNCHANGED <<flagVars, mainVars, ring, serverVars,
                   client, inhibit, oldInfo, newInfo, remote, heard>>

(* client_rcv_to_ring takes no more than there is room for.                *)
Receive ==
    /\ client = "receive" /\ Len(rcvRing) < RcvLimit
    /\ ChannelArrives \/ DataArrives
    /\ UNCHANGED <<flagVars, mainVars, ring, serverVars,
                   client, inhibit, oldInfo, newInfo, remote, heard>>

-----------------------------------------------------------------------------
(* The client thread in CLI_STATE_GET_DATA: one pass reads the flag, goes  *)
(* through the receive ring and tells main of a change.                    *)

StartPassUninhibited ==
    /\ client = "receive" /\ link # "down" /\ ClientCommFree
    /\ client' = "check"
    /\ inhibit' = FALSE
    /\ newInfo' = oldInfo
    /\ UNCHANGED <<flagVars, mainVars, ring, serverVars,
                   oldInfo, rcvRing, remote, link, heard>>

StartPass ==
    /\ client = "receive" /\ link # "down" /\ ClientCommFree
    /\ client' = "check"
    /\ inhibit' = chanChange
    /\ newInfo' = oldInfo
    /\ UNCHANGED <<flagVars, mainVars, ring, serverVars,
                   oldInfo, rcvRing, remote, link, heard>>

NextItemIs(kind) == client = "check" /\ rcvRing # << >> /\ Head(rcvRing).kind = kind

GetChanInfo ==
    /\ NextItemIs("channel")
    /\ newInfo' = Head(rcvRing).config
    /\ heard' = Head(rcvRing).config
    /\ rcvRing' = Tail(rcvRing)
    /\ UNCHANGED <<flagVars, mainVars, ring, serverVars,
                   client, inhibit, oldInfo, remote, link>>

(* Invalid channel information ends the pass; an inhibited pass then       *)
(* empties the receive ring.                                               *)
GetBadChanInfo ==
    /\ NextItemIs("bad")
    /\ client' = "compare"
    /\ rcvRing' = IF inhibit THEN << >> ELSE Tail(rcvRing)
    /\ UNCHANGED <<flagVars, mainVars, ring, serverVars,
                   inhibit, oldInfo, newInfo, remote, link, heard>>

(* add_to_data_ring.                                                       *)
StoreData ==
    /\ NextItemIs("data") /\ ~inhibit
    /\ ring' = ring \cup {Head(rcvRing).config}
    /\ rcvRing' = Tail(rcvRing)
    /\ UNCHANGED <<flagVars, mainVars, serverVars,
                   client, inhibit, oldInfo, newInfo, remote, link, heard>>

(* An inhibited pass looks for channel information only and deletes        *)
(* whatever is before it, or all there is.                                 *)
SkipData ==
    /\ NextItemIs("data") /\ inhibit
    /\ rcvRing' = Tail(rcvRing)
    /\ UNCHANGED <<flagVars, mainVars, ring, serverVars,
                   client, inhibit, oldInfo, newInfo, remote, link, heard>>

EndCheck ==
    /\ client = "check" /\ rcvRing = << >>
    /\ client' = "compare"
    /\ UNCHANGED <<flagVars, mainVars, ring, serverVars,
                   inhibit, oldInfo, newInfo, rcvRing, remote, link, heard>>

(* old_chan_info gets what client_comm had before this change.             *)
SignalChange ==
    /\ client = "compare" /\ ~SameRate(oldInfo, newInfo) /\ ClientCommFree
    /\ client' = "receive"
    /\ chanChange' = TRUE
    /\ oldInfo' = commInfo
    /\ commInfo' = newInfo
    /\ UNCHANGED <<closeCmd, mainVars, ring, serverVars,
                   inhibit, newInfo, rcvRing, remote, link, heard>>

NoChange ==
    /\ client = "compare" /\ SameRate(oldInfo, newInfo)
    /\ client' = "receive"
    /\ UNCHANGED <<flagVars, mainVars, ring, serverVars,
                   inhibit, oldInfo, newInfo, rcvRing, remote, link, heard>>

-----------------------------------------------------------------------------
(* The main loop.                                                          *)

PollChange ==
    /\ main = "poll" /\ chanChange
    /\ main' = "copyRate"
    /\ UNCHANGED <<flagVars, chanInfo, slots, slotBytes, ring, clientVars, serverVars>>

CopyRate ==
    /\ main = "copyRate"
    /\ main' = "copyType"
    /\ chanInfo' = [chanInfo EXCEPT !.sps = commInfo.sps, !.channels = commInfo.channels]
    /\ UNCHANGED <<flagVars, slots, slotBytes, ring, clientVars, serverVars>>

CopyType ==
    /\ main = "copyType"
    /\ main' = "stop"
    /\ chanInfo' = [chanInfo EXCEPT !.type = commInfo.type]
    /\ UNCHANGED <<flagVars, slots, slotBytes, ring, clientVars, serverVars>>

StopWithoutCommand ==
    /\ main = "stop"
    /\ main' = IF server # "none" THEN "join" ELSE "free"
    /\ UNCHANGED <<flagVars, chanInfo, slots, slotBytes, ring,
                   clientVars, serverVars>>

(* server_running is true once a server thread was created.                *)
StopServer ==
    /\ main = "stop"
    /\ IF server # "none"
       THEN main' = "join" /\ closeCmd' = TRUE
       ELSE main' = "free" /\ UNCHANGED closeCmd
    /\ UNCHANGED <<chanChange, commInfo, chanInfo, slots, slotBytes, ring,
                   clientVars, serverVars>>

JoinWithoutWaiting ==
    /\ main = "join"
    /\ main' = "free"
    /\ UNCHANGED <<flagVars, chanInfo, slots, slotBytes, ring, clientVars, serverVars>>

JoinServer ==
    /\ main = "join" /\ server = "ended"
    /\ main' = "free"
    /\ server' = "none"
    /\ UNCHANGED <<flagVars, chanInfo, slots, slotBytes, ring, clientVars, announced>>

FreeRing ==
    /\ main = "free"
    /\ main' = "alloc"
    /\ slots' = "freed"
    /\ ring' = {}
    /\ UNCHANGED <<flagVars, chanInfo, slotBytes, clientVars, serverVars>>

AllocRing ==
    /\ main = "alloc"
    /\ main' = "publish"
    /\ slots' = "live"
    /\ slotBytes' = PacketBytes(chanInfo)
    /\ UNCHANGED <<flagVars, chanInfo, ring, clientVars, serverVars>>

PublishFlagOnly ==
    /\ main = "publish"
    /\ main' = "restart"
    /\ chanChange' = FALSE
    /\ UNCHANGED <<commInfo, closeCmd, chanInfo, slots, slotBytes, ring,
                   clientVars, serverVars>>

Publish ==
    /\ main = "publish"
    /\ main' = "restart"
    /\ chanInfo' = commInfo
    /\ chanChange' = FALSE
    /\ UNCHANGED <<commInfo, closeCmd, slots, slotBytes, ring, clientVars, serverVars>>

RestartServer ==
    /\ main = "restart"
    /\ main' = "poll"
    /\ closeCmd' = FALSE
    /\ server' = "poll" /\ announced' = NoConfig
    /\ UNCHANGED <<chanChange, commInfo, chanInfo, slots, slotBytes, ring,
                   clientVars>>

-----------------------------------------------------------------------------
(* The server thread: its loop reads the command, then serves the remote   *)
(* clients, one connection after the other.                                *)

Serve ==
    /\ server = "poll" /\ ~closeCmd
    /\ server' = "serve"
    /\ UNCHANGED <<flagVars, mainVars, ring, clientVars, announced>>

(* put_channel_data for one connection; chan_info_g is read unlocked.      *)
Announce ==
    /\ server = "serve"
    /\ announced' = chanInfo
    /\ UNCHANGED <<flagVars, mainVars, ring, clientVars, server>>

EndServe ==
    /\ server = "serve"
    /\ server' = "poll"
    /\ UNCHANGED <<flagVars, mainVars, ring, clientVars, announced>>

CloseWithoutAnswer ==
    /\ server = "poll" /\ closeCmd
    /\ server' = "ended"
    /\ UNCHANGED <<flagVars, mainVars, ring, clientVars, announced>>

CloseAll ==
    /\ server = "poll" /\ closeCmd
    /\ server' = "ended"
    /\ closeCmd' = FALSE
    /\ UNCHANGED <<chanChange, commInfo, mainVars, ring, clientVars, announced>>

-----------------------------------------------------------------------------
Init ==
    /\ chanChange = FALSE /\ commInfo = NoConfig /\ closeCmd = FALSE
    /\ main = "poll" /\ chanInfo = NoConfig
    /\ slots = "live" /\ slotBytes = PacketBytes(NoConfig) /\ ring = {}
    /\ client = "receive" /\ inhibit = FALSE
    /\ oldInfo = NoConfig /\ newInfo = NoConfig /\ rcvRing = << >>
    /\ remote \in Configs /\ link = "down" /\ heard = NoConfig
    /\ server = "none" /\ announced = NoConfig

RemoteNext == Reconnect \/ RequestAgain \/ Receive

ClientNext ==
    \/ StartPass \/ GetChanInfo \/ GetBadChanInfo \/ StoreData \/ SkipData
    \/ EndCheck \/ SignalChange \/ NoChange

MainNext ==
    \/ PollChange \/ CopyRate \/ CopyType \/ StopServer \/ JoinServer
    \/ FreeRing \/ AllocRing \/ Publish \/ RestartServer

ServerNext == Serve \/ Announce \/ EndServe \/ CloseAll

Next == RemoteNext \/ ClientNext \/ MainNext \/ ServerNext

Spec == Init /\ [][Next]_vars

(* The threads are scheduled by the system: each keeps running.  A server  *)
(* pass serves a bounded number of connections, hence fairness of its end. *)
(* Nothing is assumed of the remote server.                                *)
Fairness ==
    /\ WF_vars(MainNext)
    /\ WF_vars(Serve \/ CloseAll) /\ WF_vars(EndServe)
    /\ WF_vars(ClientNext)

FairSpec == Spec /\ Fairness

-----------------------------------------------------------------------------
(* Every variable keeps its type, and the receive ring of the client is    *)
(* never given more than it can hold.                                      *)
TypeOK ==
    /\ chanChange \in BOOLEAN /\ closeCmd \in BOOLEAN /\ inhibit \in BOOLEAN
    /\ commInfo \in Configs \cup {NoConfig} /\ oldInfo \in Configs \cup {NoConfig}
    /\ newInfo \in Configs \cup {NoConfig} /\ heard \in Configs \cup {NoConfig}
    /\ chanInfo \in ConfigRecord /\ announced \in ConfigRecord
    /\ remote \in Configs
    /\ slots \in {"live", "freed"} /\ slotBytes \in Nat
    /\ ring \subseteq Configs
    /\ main \in {"poll", "copyRate", "copyType", "stop", "join", "free",
                 "alloc", "publish", "restart"}
    /\ client \in {"receive", "check", "compare"}
    /\ server \in {"none", "poll", "serve", "ended"}
    /\ link \in {"down", "asked", "streaming", "askedAgain"}
    /\ rcvRing \in Seq(Item) /\ Len(rcvRing) <= RcvLimit

(* Between RING_DEALLOC and RING_ALLOC nobody is about to store into the   *)
(* data ring or to retrieve from it: neither the client thread, which only *)
(* looked at CHANCHANGE at the start of its pass, nor a server thread that *)
(* was told to stop in the middle of one.                                  *)
NoUseOfFreedRing ==
    \/ server = "serve"
    \/ client = "check" /\ ~inhibit
    => slots = "live"

(* While a change waits for main, no packet enters the data ring, although *)
(* the client thread decides by a copy of the flag it took earlier.        *)
NoStoreWhilePending ==
    [][~(ring' \subseteq ring) => ~chanChange]_vars

(* When no change is pending and main is not handling one, chan_info_g is  *)
(* what the client thread last wrote, although main copied it in two steps *)
(* and the client could change it in between.                              *)
AgreedWhenQuiet ==
    ~chanChange /\ main \in {"poll", "restart"} => chanInfo = commInfo

(* A remote client that is told a mix of two configurations, or one that   *)
(* is being replaced, as put_channel_data reads chan_info_g without its    *)
(* mutex, is not left with it: once no change is pending and main polls    *)
(* again, the clients of the server thread that now runs were told         *)
(* nothing, or the configuration the client thread last wrote.             *)
ToldWhenQuiet ==
    ~chanChange /\ main = "poll" => announced \in {NoConfig, commInfo}

(* The command to close is up exactly while main waits for a thread that   *)
(* has not answered it: it never reaches the server thread started         *)
(* afterwards, and main never waits for a thread that was not told to end. *)
CloseCmdWhileAwaited == closeCmd <=> main = "join" /\ server \in {"poll", "serve"}

(* A change that was signalled is accepted: the flag comes down, whatever  *)
(* the server thread was doing and even if the configuration keeps changing.*)
ChangeAccepted == chanChange ~> ~chanChange

(* A server thread told to stop does, and remote clients get a new one.    *)
ServerReturns == main = "join" ~> (main = "poll" /\ server \in {"poll", "serve"})

-----------------------------------------------------------------------------
(* What the documentation and the comments say, and the code does not do.  *)

(* After a pass, main has been told of the channel information heard last: *)
(* it gets notice whenever that differs from the current one (main.c).     *)
NoMissedChange == client = "receive" => SameRate(heard, commInfo)

(* The changes that are missed in spite of this are those that return to   *)
(* the configuration before the one main was told of.                      *)
OnlyReturnsMissed ==
    client = "receive" => SameRate(heard, commInfo) \/ SameRate(heard, oldInfo)

(* When main has accepted a change, the data ring has the sizes of it.     *)
SlotsFitConfig ==
    ~chanChange /\ main \in {"poll", "restart"}
        => slotBytes = PacketBytes(commInfo)

(* No change is signalled from the moment main has read the configuration  *)
(* until it has published it.  Not a promise of the code: the theorem      *)
(* FitsUnlessOvertaken says that SlotsFitConfig fails for no other reason. *)
NeverOvertaken ==
    [][SignalChange => main \in {"poll", "copyRate", "restart"}]_vars
=============================================================================
