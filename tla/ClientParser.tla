---------------------------- MODULE ClientParser ----------------------------
(***************************************************************************)
(* How the client thread takes apart what the remote server sends:         *)
(* check_data of client.c with find_chan_info and search_ring of buffer.c. *)
(*                                                                         *)
(* The stream of a connection is a sequence of cells that arrive in pieces *)
(* of any size.  The receive ring holds a window of it, from the first     *)
(* cell not removed to the last one received: bytes enter at one end and   *)
(* leave at the other (ByteRing).  A position is a place in the stream,    *)
(* and 0 stands for an index of -1.                                        *)
(***************************************************************************)
EXTENDS Integers, Sequences

CONSTANTS Streams,       (* what remote servers send                       *)
          Capacity,      (* BFRSIZE                                        *)
          ChanTokenLen,  (* CHANTOKENLEN                                   *)
          ChanInfoLen,   (* CHANINFOLEN                                    *)
          AdcTokenLen,   (* ADCTOKENLEN                                    *)
          PreHdrLen,     (* PREHDRLEN                                      *)
          ByteValues     (* values of a byte: 256                          *)

(* What the server meant: channel information, valid or with impossible    *)
(* values; packets of data to be stored or of text to be logged, with a    *)
(* right or a wrong checksum; anything else, as undecodable channel        *)
(* information, packets it cut short, or noise.                            *)
Kinds == {"channel", "invalid", "packet", "corrupt", "other"}

(* A cell knows its item and its place in it, and what the parser makes of *)
(* the bytes from here on: whether they begin with the token of channel    *)
(* information and decode as such; or else with the token of a packet,     *)
(* what length they say, preheader included (0 without the token), and     *)
(* whether the checksum of that many bytes is right.                       *)
Cell == [kind : Kinds, place : Nat \ {0}, size : Nat \ {0},
         info : {"none", "valid", "invalid", "garbled"},
         says : {0} \cup {n \in Nat : n >= PreHdrLen}, fits : BOOLEAN]

ASSUME LengthAssumption ==
    /\ {Capacity, ChanTokenLen, ChanInfoLen, AdcTokenLen, PreHdrLen, ByteValues}
           \subseteq Nat \ {0}
    /\ ChanTokenLen < ChanInfoLen /\ AdcTokenLen < PreHdrLen /\ AdcTokenLen <= ChanInfoLen
    /\ Capacity >= ChanInfoLen

(* The first cell of an item is what its kind says.                        *)
BeginsItem(c) ==
    CASE c.kind \in {"channel", "invalid"} ->
             /\ c.size = ChanInfoLen /\ c.says = 0
             /\ c.info = (IF c.kind = "channel" THEN "valid" ELSE "invalid")
      [] c.kind \in {"packet", "corrupt"} ->
             /\ c.says = c.size /\ c.size > PreHdrLen /\ c.info = "none"
             /\ c.fits <=> c.kind = "packet"
      [] OTHER -> TRUE

(* No token is in channel information but its own; anywhere in packets and *)
(* in what is neither may be bytes like a token, with any length in them.  *)
WithinItem(c) ==
    c.kind \in {"channel", "invalid"} => c.info = "none" /\ c.says = 0

(* The cells of an item follow each other: after the first one come those  *)
(* of its other places, until the stream ends, and every cell has the      *)
(* first one of its item before it.                                        *)
SameItem(c, d) == c.kind = d.kind /\ c.size = d.size

ASSUME StreamsAssumption ==
    /\ Streams \subseteq Seq(Cell)
    /\ \A s \in Streams : \A p, q \in 1 .. Len(s) :
          s[p].place = 1 /\ q >= p /\ q < p + s[p].size
              => SameItem(s[p], s[q]) /\ s[q].place = q - p + 1
    /\ \A s \in Streams : \A q \in 1 .. Len(s) :
          /\ s[q].place <= q
          /\ SameItem(s[q], s[q - s[q].place + 1]) /\ s[q - s[q].place + 1].place = 1
          /\ IF s[q].place = 1 THEN BeginsItem(s[q]) ELSE WithinItem(s[q])

VARIABLES
    stream,    (* the cells of this connection, in order                   *)
    arrived,   (* how many of them were received                           *)
    gone,      (* how many of them were removed from the receive ring      *)
    pc,        (* "receive", "check" (the loop), "finish"; or "failed"     *)
    pending,   (* CHANCHANGE: main has not accepted the last change        *)
    inhibit,   (* inhibit_adc, its copy during a pass                      *)
    news,      (* the pass has found valid channel information             *)
    failed,    (* rv of the last step of the loop                          *)
    handled    (* history: positions of the items heard, stored or logged  *)

windowVars == <<stream, arrived, gone>>
passVars == <<pc, pending, inhibit, news, failed>>
vars == <<windowVars, passVars, handled>>

Stored == arrived - gone
Ring == gone + 1 .. arrived

-----------------------------------------------------------------------------
(* Looking for tokens.                                                     *)

None == 0
First(S) == IF S = {} THEN None ELSE CHOOSE p \in S : \A q \in S : p <= q

ChanTokens == {p \in Ring : stream[p].info # "none"}
AdcTokens == {p \in Ring : stream[p].says > 0}

(* search_ring.                                                            *)
Search(tokens, len) == First({p \in tokens : p + len - 1 <= arrived})

(* find_chan_info: the first token only, complete and decodable.           *)
FindChanInfo ==
    LET p == Search(ChanTokens, ChanTokenLen)
    IN IF \/ p = None
          \/ arrived < p - 1 + ChanInfoLen
          \/ stream[p].info = "garbled"
       THEN None ELSE p

FindAdcData == IF inhibit THEN None ELSE Search(AdcTokens, AdcTokenLen)

ChanInfoAlwaysFirst == FindChanInfo # None

(* Whichever is found first is processed first.                            *)
ChanInfoIsNext ==
    FindChanInfo # None /\ (FindAdcData = None \/ FindChanInfo < FindAdcData)

AdcDataIsNext == FindAdcData # None /\ ~ChanInfoIsNext

(* What is left on the ring from the token on.                             *)
Rest(p) == arrived - (p - 1)

(* strcmp, its result taken the wrong way round, finds the token where the *)
(* byte after it is 0: the low byte of the length of the data.             *)
EndsProgram(p) == (stream[p].says - PreHdrLen) % ByteValues = 0

Complete(p) == Rest(p) > PreHdrLen /\ ~EndsProgram(p) /\ Rest(p) >= stream[p].says

(* do_crc.                                                                 *)
CrcOk(p) == stream[p].fits

-----------------------------------------------------------------------------
ReceiveAnyAmount ==
    /\ pc = "receive"
    /\ \E n \in 1 .. Capacity :
          arrived + n <= Len(stream) /\ arrived' = arrived + n
    /\ UNCHANGED <<stream, gone, passVars, handled>>

(* client_rcv_to_ring: any number of bytes, as far as there is room.       *)
Receive ==
    /\ pc = "receive"
    /\ \E n \in 1 .. Capacity - Stored :
          arrived + n <= Len(stream) /\ arrived' = arrived + n
    /\ UNCHANGED <<stream, gone, passVars, handled>>

StartPass ==
    /\ pc = "receive"
    /\ pc' = "check"
    /\ inhibit' = pending
    /\ news' = FALSE /\ failed' = FALSE
    /\ UNCHANGED <<windowVars, pending, handled>>

(* get_chan_info removes what is before the token, and the channel         *)
(* information whether it is valid or not.                                 *)
GetChanInfo ==
    /\ pc = "check" /\ ChanInfoIsNext
    /\ gone' = FindChanInfo - 1 + ChanInfoLen
    /\ IF stream[FindChanInfo].info = "valid"
       THEN /\ news' = TRUE /\ handled' = Append(handled, FindChanInfo)
            /\ UNCHANGED <<pc, failed>>
       ELSE /\ pc' = "finish" /\ failed' = TRUE /\ UNCHANGED <<news, handled>>
    /\ UNCHANGED <<stream, arrived, pending, inhibit>>

(* get_adc_data: what is before the token is removed in any case, then it  *)
(* waits for the preheader and for the whole packet.                       *)
AwaitAdcData ==
    /\ pc = "check" /\ AdcDataIsNext
    /\ LET A == FindAdcData
       IN \/ Rest(A) <= PreHdrLen
          \/ ~EndsProgram(A) /\ Rest(A) < stream[A].says
    /\ gone' = FindAdcData - 1
    /\ pc' = "finish" /\ failed' = TRUE
    /\ UNCHANGED <<stream, arrived, pending, inhibit, news, handled>>

(* fail(): the token "was not found", and the whole program ends.          *)
FailOnToken ==
    /\ pc = "check" /\ AdcDataIsNext
    /\ Rest(FindAdcData) > PreHdrLen /\ EndsProgram(FindAdcData)
    /\ gone' = FindAdcData - 1
    /\ pc' = "failed"
    /\ UNCHANGED <<stream, arrived, pending, inhibit, news, failed, handled>>

GetAdcDataTwice ==
    /\ pc = "check" /\ AdcDataIsNext /\ Complete(FindAdcData)
    /\ gone' = FindAdcData - 1
    /\ handled' = IF CrcOk(FindAdcData) THEN Append(handled, FindAdcData) ELSE handled
    /\ UNCHANGED <<stream, arrived, passVars>>

GetAdcDataAndEnd ==
    /\ pc = "check" /\ AdcDataIsNext /\ Complete(FindAdcData)
    /\ gone' = FindAdcData - 1 + stream[FindAdcData].says
    /\ handled' = IF CrcOk(FindAdcData) THEN Append(handled, FindAdcData) ELSE handled
    /\ pc' = "finish"
    /\ UNCHANGED <<stream, arrived, pending, inhibit, news, failed>>

GetAdcDataKeepingCorrupt ==
    /\ pc = "check" /\ AdcDataIsNext /\ Complete(FindAdcData)
    /\ gone' = FindAdcData - 1
             + (IF CrcOk(FindAdcData) THEN stream[FindAdcData].says ELSE 0)
    /\ handled' = IF CrcOk(FindAdcData) THEN Append(handled, FindAdcData) ELSE handled
    /\ UNCHANGED <<stream, arrived, passVars>>

GetAdcDataAwaitingBetter ==
    /\ pc = "check" /\ AdcDataIsNext /\ Complete(FindAdcData)
    /\ gone' = FindAdcData - 1
             + (IF CrcOk(FindAdcData) THEN stream[FindAdcData].says ELSE 0)
    /\ handled' = IF CrcOk(FindAdcData) THEN Append(handled, FindAdcData) ELSE handled
    /\ pc' = IF CrcOk(FindAdcData) THEN pc ELSE "finish"
    /\ UNCHANGED <<stream, arrived, pending, inhibit, news, failed>>

(* The packet is removed, and stored or logged if its checksum is right.   *)
GetAdcData ==
    /\ pc = "check" /\ AdcDataIsNext /\ Complete(FindAdcData)
    /\ gone' = FindAdcData - 1 + stream[FindAdcData].says
    /\ handled' = IF CrcOk(FindAdcData) THEN Append(handled, FindAdcData) ELSE handled
    /\ UNCHANGED <<stream, arrived, passVars>>

NothingFound ==
    /\ pc = "check" /\ FindChanInfo = None /\ FindAdcData = None
    /\ pc' = "finish"
    /\ UNCHANGED <<windowVars, pending, inhibit, news, failed, handled>>

(* An inhibited pass ends by removing all there is, unless it is no longer *)
(* than a token.  Channel information heard may be a change, which         *)
(* ChannelChange goes into.                                                *)
FinishPass ==
    /\ pc = "finish"
    /\ pc' = "receive"
    /\ gone' = IF inhibit /\ Stored > ChanTokenLen THEN arrived ELSE gone
    /\ pending' \in IF news THEN {pending, TRUE} ELSE {pending}
    /\ UNCHANGED <<stream, arrived, inhibit, news, failed, handled>>

(* The main thread has reallocated the data ring.                          *)
Accept ==
    /\ pending /\ pc # "failed"
    /\ pending' = FALSE
    /\ UNCHANGED <<windowVars, pc, inhibit, news, failed, handled>>

-----------------------------------------------------------------------------
(* A new connection finds the ring empty.                                  *)
Init ==
    /\ stream \in Streams /\ arrived = 0 /\ gone = 0
    /\ pc = "receive" /\ pending \in BOOLEAN
    /\ inhibit = FALSE /\ news = FALSE /\ failed = FALSE
    /\ handled = << >>

Pass ==
    \/ StartPass \/ GetChanInfo \/ AwaitAdcData \/ FailOnToken \/ GetAdcData
    \/ NothingFound \/ FinishPass

Next == Receive \/ Pass \/ Accept

Spec == Init /\ [][Next]_vars

(* The client thread keeps running, and main gets to its flag.  Nothing is *)
(* assumed of the remote server.                                           *)
FairSpec == Spec /\ WF_vars(Pass) /\ WF_vars(Accept)

-----------------------------------------------------------------------------
(* Every variable keeps its type; the ring holds no more than it can, and  *)
(* nothing is removed from it that was not received.                       *)
TypeOK ==
    /\ stream \in Seq(Cell)
    /\ arrived \in 0 .. Len(stream) /\ gone \in 0 .. arrived
    /\ Stored <= Capacity
    /\ pc \in {"receive", "check", "finish", "failed"}
    /\ pending \in BOOLEAN /\ inhibit \in BOOLEAN /\ news \in BOOLEAN /\ failed \in BOOLEAN
    /\ handled \in Seq(1 .. Len(stream))

(* Items of the stream that are as they should be.                         *)
Sound(p) == stream[p].place = 1 /\ stream[p].kind \in {"channel", "packet"}

Whole(p) == p + stream[p].size - 1 <= arrived

(* In the ring up to p is a token that misleads the parser: in something   *)
(* the server did not mean, or in what is left of an item cut in two.      *)
Misled(p) ==
    \E q \in gone + 1 .. p :
        /\ stream[q].info # "none" \/ stream[q].says > 0
        /\ stream[q].kind = "other" \/ q - (stream[q].place - 1) <= gone

(* In the ring before p, in a packet for instance, are bytes that begin    *)
(* like channel information and do not decode, or that reach over p.       *)
Diverted(p) ==
    \E q \in gone + 1 .. p - 1 :
        \/ stream[q].info = "garbled"
        \/ stream[q].info # "none" /\ p < q + ChanInfoLen

(* However the stream is cut into pieces, no item is heard, stored or      *)
(* logged twice, or after one that was sent later, or while it is still in *)
(* the ring.  Bytes that the server did not mean as an item are only taken *)
(* for one behind something misleading; or, in an inhibited pass, which    *)
(* does not look for packets, if they read as channel information.         *)
HandledOnceInOrder ==
    [][handled' # handled =>
          \E p \in Ring :
             /\ handled' = Append(handled, p) /\ p <= gone'
             /\ \A i \in DOMAIN handled : handled[i] < p
             /\ Sound(p) \/ Misled(p) \/ (inhibit /\ stream[p].info = "valid")]_vars

(* A sound item leaves the ring unhandled for a few reasons only: it is    *)
(* behind something misleading; or the pass is inhibited, and it is a      *)
(* packet, or not whole yet, or behind invalid values, or behind bytes     *)
(* like channel information in a packet.                                   *)
NothingLostUnexcused ==
    [][\A p \in Ring :
          Sound(p) /\ p <= gone' /\ (\A i \in DOMAIN handled' : handled'[i] # p)
          => \/ Misled(p)
             \/ inhibit /\ \/ stream[p].kind # "channel" \/ ~Whole(p)
                           \/ failed \/ Diverted(p)]_vars

(* A pass goes through all there is: a whole sound item with nothing       *)
(* misleading before it is only left if the pass is inhibited and it is a  *)
(* packet or behind bytes like channel information, or if the pass ended   *)
(* at channel information with impossible values.                          *)
PassLeavesNothing ==
    pc = "finish" =>
        \A p \in Ring : Sound(p) /\ Whole(p) /\ ~Misled(p) =>
            \/ inhibit /\ (stream[p].kind # "channel" \/ Diverted(p))
            \/ /\ failed /\ gone >= ChanInfoLen
               /\ stream[gone - ChanInfoLen + 1].info = "invalid"

(* A pass ends, whatever is in the ring, and be it with the program.       *)
PassEnds == pc = "check" ~> pc \in {"receive", "failed"}

(* Nothing in the ring can be taken from it: no token is there as a whole, *)
(* or of channel information the rest is missing.                          *)
NothingUsable ==
    /\ \A q \in AdcTokens : q + AdcTokenLen - 1 > arrived
    /\ \A q \in ChanTokens : q + ChanInfoLen - 1 > arrived

(* A full ring gets room again, also when it is full of remains: unless    *)
(* bytes like a token in it say that a packet is longer than the ring, or  *)
(* begin channel information that does not decode, or unless there is no   *)
(* token left to be found.  Or the program has ended.                      *)
FullRingDrains ==
    Stored = Capacity ~>
        \/ Stored < Capacity \/ pc = "failed" \/ NothingUsable
        \/ \E q \in Ring : stream[q].says > Capacity \/ stream[q].info = "garbled"

(* What get_adc_data says when it ends the program: there is no token      *)
(* where search_ring has found one.                                        *)
FailsWithoutToken == pc = "failed" => gone + 1 \notin AdcTokens
=============================================================================
