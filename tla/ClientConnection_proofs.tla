---------------------- MODULE ClientConnection_proofs ----------------------
(***************************************************************************)
(* What holds of the client thread's connection for any sizes of the rings *)
(* and any length of its timer.                                            *)
(***************************************************************************)
EXTENDS ClientConnection, TLAPS

(* Only a pass that found the client connected goes through the receive.   *)
ReceivesConnected == pc = "receive" => Connected

(* Nothing arrives where there is no connection, and one that was not made *)
(* has nothing to be received.                                             *)
NothingUnconnected ==
    /\ link \in {"none", "new", "unmade"} => inbox = 0
    /\ link = "unmade" => rcvRing = 0

(* While the timer runs, a connection that was not made is found out       *)
(* before anything is put on the send ring.                                *)
UnmadeFoundOut ==
    link = "unmade" /\ failtimer # 0 =>
        /\ sendRing = 0
        /\ pc = "receive" => canRead
        /\ pc = "switch" => state = "RECONNECT"

IInv ==
    /\ TypeOK /\ SocketFitsState /\ OnlyThisConnection /\ WholeRequests
    /\ ReceivesConnected /\ NothingUnconnected /\ UnmadeFoundOut

USE DEF Connected, Links, States, fds, rings, socketVars, history

LEMMA TallyBounded ==
    ASSUME NEW n \in Nat
    PROVE  Tally(n) \in 0 .. 2 * RequestLen - 1
<1>1. RequestLen \in Nat \ {0}
  BY SizesAssumption
<1>2. n % RequestLen \in 0 .. RequestLen - 1
  BY <1>1
<1> QED BY <1>1, <1>2 DEF Tally

-----------------------------------------------------------------------------
(* Whole requests.  The length of a request is no numeral, so what is left *)
(* over is reasoned about as a product.                                    *)
LEMMA WholeIsProduct ==
    ASSUME NEW x \in Nat
    PROVE  x % RequestLen = 0 <=> \E q \in Nat : x = RequestLen * q
<1>1. RequestLen \in Nat \ {0}
  BY SizesAssumption
<1>2. ASSUME NEW q \in Nat PROVE (RequestLen * q) % RequestLen = 0
  BY <1>1
<1>3. x = RequestLen * (x \div RequestLen) + (x % RequestLen) /\ x \div RequestLen \in Nat
  BY <1>1
<1>4. ASSUME x % RequestLen = 0 PROVE \E q \in Nat : x = RequestLen * q
  BY <1>1, <1>3, <1>4
<1> QED BY <1>2, <1>4

(* One request more on the send ring.                                      *)
LEMMA AnotherRequest ==
    ASSUME NEW x \in Nat, x % RequestLen = 0
    PROVE  (x + RequestLen) % RequestLen = 0
<1>1. RequestLen \in Nat \ {0}
  BY SizesAssumption
<1>2. PICK q \in Nat : x = RequestLen * q
  BY WholeIsProduct
<1>3. RequestLen * (q + 1) = x + RequestLen
  BY <1>1, <1>2
<1>4. x + RequestLen \in Nat /\ q + 1 \in Nat
  BY <1>1
<1> QED BY <1>3, <1>4, WholeIsProduct

(* Counting what was sent modulo whole requests loses no part of one.      *)
LEMMA TallyKeepsWhole ==
    ASSUME NEW m \in Nat, NEW rest \in Nat, (m + rest) % RequestLen = 0
    PROVE  /\ (Tally(m) + rest) % RequestLen = 0
           /\ m + rest >= RequestLen => Tally(m) + rest >= RequestLen
<1>1. RequestLen \in Nat \ {0}
  BY SizesAssumption
<1>2. CASE m < 2 * RequestLen
  BY <1>2 DEF Tally
<1>3. CASE ~(m < 2 * RequestLen)
  <2> DEFINE d == m \div RequestLen
             over == m % RequestLen
  <2>1. d \in Nat /\ over \in 0 .. RequestLen - 1 /\ m = RequestLen * d + over
    BY <1>1
  <2>2. Tally(m) = RequestLen + over
    BY <1>3 DEF Tally
  <2> HIDE DEF d, over
  <2>3. PICK q \in Nat : m + rest = RequestLen * q
    BY WholeIsProduct
  <2>4. d <= q
    <3>1. RequestLen * d <= RequestLen * q
      BY <1>1, <2>1, <2>3
    <3>2. ASSUME q < d PROVE FALSE
      <4>1. RequestLen * (d - q) >= RequestLen
        BY <1>1, <2>1, <3>2
      <4>2. RequestLen * (d - q) = RequestLen * d - RequestLen * q
        BY <1>1, <2>1
      <4> QED BY <1>1, <2>1, <3>1, <4>1, <4>2
    <3> QED BY <2>1, <3>2
  <2>5. Tally(m) + rest = RequestLen * (q - d + 1)
    <3>1. RequestLen * (q - d + 1) = RequestLen * q - RequestLen * d + RequestLen
      BY <1>1, <2>1
    <3>2. Tally(m) + rest = RequestLen + (m - RequestLen * d) + rest
      BY <1>1, <2>1, <2>2
    <3> QED BY <1>1, <2>1, <2>3, <3>1, <3>2
  <2>6. q - d + 1 \in Nat /\ Tally(m) + rest \in Nat
    BY <1>1, <2>1, <2>2, <2>4
  <2>7. (Tally(m) + rest) % RequestLen = 0
    BY <2>5, <2>6, WholeIsProduct
  <2> QED BY <1>1, <2>1, <2>2, <2>7
<1> QED BY <1>2, <1>3

-----------------------------------------------------------------------------
LEMMA InitIInv == Init => IInv
<1>1. /\ 0 \in 0 .. SendCapacity /\ 0 \in 0 .. RcvCapacity /\ 0 \in 0 .. InboxLimit
      /\ 0 \in 0 .. 2 * RequestLen - 1
  BY SizesAssumption
<1> QED
  BY <1>1
  DEF Init, IInv, TypeOK, SocketFitsState, OnlyThisConnection, WholeRequests,
      ReceivesConnected, NothingUnconnected, UnmadeFoundOut

USE DEF IInv, SocketFitsState, OnlyThisConnection, WholeRequests, ReceivesConnected,
        NothingUnconnected, UnmadeFoundOut

LEMMA OutsideKeeps == IInv /\ Outside => IInv'
<1> SUFFICES ASSUME IInv, Outside PROVE IInv'
  OBVIOUS
<1>1. CASE DataArrives
  BY <1>1, SizesAssumption DEF DataArrives, TypeOK
<1>2. CASE ServerCloses
  BY <1>2 DEF ServerCloses, LinkChanges, TypeOK
<1>3. CASE ServerResets
  BY <1>3 DEF ServerResets, LinkChanges, TypeOK
<1>4. CASE NetworkDrops
  BY <1>4 DEF NetworkDrops, LinkChanges, TypeOK
<1>5. CASE TcpGivesUp
  BY <1>5 DEF TcpGivesUp, LinkChanges, TypeOK
<1> QED BY <1>1, <1>2, <1>3, <1>4, <1>5 DEF Outside

LEMMA SelectKeeps == IInv /\ Select => IInv'
  BY DEF Select, Readable, Writable, TypeOK

LEMMA ReceiveKeeps == IInv /\ Receive => IInv'
<1> SUFFICES ASSUME IInv, Receive PROVE IInv'
  OBVIOUS
<1>1. CASE SkipReceive
  BY <1>1, SizesAssumption DEF SkipReceive, TypeOK
<1>2. CASE ReceiveNothing
  BY <1>2, SizesAssumption DEF ReceiveNothing, MayReceive, TypeOK
<1>3. CASE ReceiveData
  BY <1>3, SizesAssumption DEF ReceiveData, MayReceive, Lesser, TypeOK
<1>4. CASE ReceiveLoss
  BY <1>4 DEF ReceiveLoss, MayReceive, AfterLoss, TypeOK
<1> QED BY <1>1, <1>2, <1>3, <1>4 DEF Receive

LEMMA SwitchKeeps == IInv /\ Switch => IInv'
<1> SUFFICES ASSUME IInv, Switch PROVE IInv'
  OBVIOUS
<1>1. CASE GetSocket
  BY <1>1 DEF GetSocket, TypeOK
<1>2. CASE CloseSocket
  BY <1>2, SizesAssumption DEF CloseSocket, TypeOK
<1>3. CASE Connect
  BY <1>3, SizesAssumption DEF Connect, TypeOK
<1>4. CASE FailInCall
  BY <1>4 DEF FailInCall, TypeOK
<1>5. CASE SendChannelRequest
  <2>1. CASE ~(canWrite /\ SendCapacity - sendRing >= RequestLen)
    BY <1>5, <2>1 DEF SendChannelRequest, TypeOK
  <2>2. CASE canWrite /\ SendCapacity - sendRing >= RequestLen
    <3>1. /\ RequestLen \in Nat \ {0} /\ SendCapacity \in Nat
          /\ sent \in Nat /\ sendRing \in Nat
      BY SizesAssumption DEF TypeOK
    <3>2. (sent + sendRing + RequestLen) % RequestLen = 0
      <4>1. (sent + sendRing) % RequestLen = 0 /\ sent + sendRing \in Nat
        BY <1>5, <3>1 DEF SendChannelRequest
      <4> QED BY <4>1, AnotherRequest
    <3>3. sendRing' = sendRing + RequestLen /\ sent' = sent /\ state' = "GET_DATA"
      BY <1>5, <2>2 DEF SendChannelRequest
    <3>4. sent' + sendRing' = sent + sendRing + RequestLen
      BY <3>1, <3>3
    <3>5. WholeRequests'
      BY <3>1, <3>2, <3>3, <3>4
    <3>6. sendRing' \in 0 .. SendCapacity
      BY <2>2, <3>1, <3>3
    <3> HIDE DEF WholeRequests
    <3> QED BY <1>5, <2>2, <3>5, <3>6 DEF SendChannelRequest, TypeOK
  <2> QED BY <2>1, <2>2
<1>6. CASE GetData
  BY <1>6, SizesAssumption DEF GetData, TypeOK
<1> QED BY <1>1, <1>2, <1>3, <1>4, <1>5, <1>6 DEF Switch

LEMMA SendKeeps == IInv /\ Send => IInv'
<1> SUFFICES ASSUME IInv, Send PROVE IInv'
  OBVIOUS
<1>1. CASE SkipSend
  BY <1>1 DEF SkipSend, TypeOK
<1>2. CASE SendBytes
  <2>1. PICK n \in 0 .. sendRing : sendRing' = sendRing - n /\ sent' = Tally(sent + n)
    BY <1>2 DEF SendBytes
  <2>2. sent \in Nat /\ n \in Nat /\ sendRing \in 0 .. SendCapacity
    BY <2>1, SizesAssumption DEF TypeOK
  <2>3. sent' \in 0 .. 2 * RequestLen - 1
    BY <2>1, <2>2, TallyBounded
  <2>4. sendRing' \in 0 .. SendCapacity
    BY <2>1, <2>2, SizesAssumption
  <2>5. WholeRequests'
    <3>1. /\ sendRing - n \in Nat /\ sent + n \in Nat
          /\ (sent + n) + (sendRing - n) = sent + sendRing
      BY <2>1, <2>2
    <3>2. Connected /\ state' = state
      BY <1>2 DEF SendBytes, MaySend
    <3>3. ((sent + n) + (sendRing - n)) % RequestLen = 0
      BY <3>1, <3>2
    <3>4. /\ (sent' + sendRing') % RequestLen = 0
          /\ sent + sendRing >= RequestLen => sent' + sendRing' >= RequestLen
      BY <2>1, <3>1, <3>3, TallyKeepsWhole
    <3> QED BY <3>2, <3>4
  <2> HIDE DEF WholeRequests
  <2> QED BY <1>2, <2>3, <2>4, <2>5 DEF SendBytes, MaySend, TypeOK
<1>3. CASE SendFindsReset
  BY <1>3 DEF SendFindsReset, MaySend, TypeOK
<1>4. CASE SendKilled
  BY <1>4 DEF SendKilled, MaySend, TypeOK
<1> QED BY <1>1, <1>2, <1>3, <1>4 DEF Send

LEMMA NextIInv == IInv /\ [Next]_vars => IInv'
<1>1. IInv /\ UNCHANGED vars => IInv'
  BY DEF vars, TypeOK
<1> QED
  BY <1>1, OutsideKeeps, SelectKeeps, ReceiveKeeps, SwitchKeeps, SendKeeps
  DEF Next, Pass

-----------------------------------------------------------------------------
HIDE DEF IInv, WholeRequests

(* The inductive invariant of the connection, for any sizes.               *)
THEOREM Invariance == Spec => []IInv
  BY InitIInv, NextIInv, PTL DEF Spec

(* Type correctness: no ring is given more than it holds.                  *)
THEOREM TypeCorrect == Spec => []TypeOK
<1>1. IInv => TypeOK
  BY DEF IInv
<1> QED BY <1>1, Invariance, PTL

(* The thread never uses a socket it closed nor leaves one open.           *)
THEOREM SocketAlwaysFits == Spec => []SocketFitsState
<1>1. IInv => SocketFitsState
  BY DEF IInv
<1> QED BY <1>1, Invariance, PTL

(* The server gets nothing but whole requests, one at least before the     *)
(* thread awaits data; no rest of a request goes out on another connection. *)
THEOREM RequestsAreWhole == Spec => []WholeRequests
<1>1. IInv => WholeRequests
  BY DEF IInv
<1> QED BY <1>1, Invariance, PTL

(* No byte of an earlier connection is left to be parsed on a later one.   *)
THEOREM NoMixedConnections == Spec => []OnlyThisConnection
<1>1. IInv => OnlyThisConnection
  BY DEF IInv
<1> QED BY <1>1, Invariance, PTL

(* A socket that was never connected is not written to while the timer is  *)
(* set: only a pass with something on the send ring writes.                *)
THEOREM UnmadeIsNotWritten == Spec => UnmadeNotWritten
<1> DEFINE Step == pc # "killed" /\ pc' = "killed" /\ link = "unmade" => failtimer = 0
<1>1. IInv /\ [Next]_vars => [Step]_vars
  <2> SUFFICES ASSUME IInv, Next, pc # "killed", pc' = "killed", link = "unmade"
               PROVE  failtimer = 0
    OBVIOUS
  <2>1. SendKilled
    BY DEF Next, Pass, Outside, DataArrives, ServerCloses, ServerResets, NetworkDrops,
           TcpGivesUp, LinkChanges, Select, Receive, SkipReceive, ReceiveNothing,
           ReceiveData, ReceiveLoss, Switch, GetSocket, CloseSocket, Connect, FailInCall,
           SendChannelRequest, GetData, Send, SkipSend, SendBytes, SendFindsReset
  <2> QED BY <2>1 DEF SendKilled, MaySend, IInv
<1> HIDE DEF Step
<1>2. Spec => [][Step]_vars
  BY <1>1, Invariance, PTL DEF Spec
<1> QED BY <1>2 DEF Step, UnmadeNotWritten
=============================================================================
