------------------------ MODULE RemoteClients_proofs ------------------------
(***************************************************************************)
(* What holds of the server thread and its remote clients for any number   *)
(* of clients, connections and packets.                                    *)
(***************************************************************************)
EXTENDS RemoteClients, SequenceTheorems, WellFoundedInduction, TLAPS

-----------------------------------------------------------------------------
(* The least of a set of numbers, which CHOOSE then finds: the numbers are *)
(* well ordered.                                                           *)
LEMMA LeastExists ==
  ASSUME NEW n \in Nat, NEW S \in SUBSET (1 .. n), S # {}
  PROVE  \E m \in S : \A k \in S : m <= k
<1> DEFINE R == {ss \in Nat \X Nat : ss[1] < ss[2]}
<1>1. IsWellFoundedOn(R, Nat)
  BY NatLessThanWellFounded DEF OpToRel
<1>2. PICK m \in S : \A k \in S : ~(<<k, m>> \in R)
  <2>1. S \subseteq Nat
    OBVIOUS
  <2> HIDE DEF R
  <2> QED BY <1>1, <2>1, WFMin
<1>3. ASSUME NEW k \in S, k < m PROVE FALSE
  <2>1. <<k, m>> \in R
    BY <1>3
  <2> QED BY <1>2, <2>1
<1> QED BY <1>3

(* RING_RETR returns a packet of the ring, and the oldest of those asked   *)
(* for.                                                                    *)
LEMMA OldestIsOldest ==
  ASSUME NEW n \in Nat, NEW S \in SUBSET (1 .. n), S # {}
  PROVE  Oldest(S) \in S /\ \A u \in S : Oldest(S) <= u
BY LeastExists DEF Oldest

LEMMA FirstFreeIsFree == FreeSlots # {} => FirstFree \in Slots /\ ~Active(FirstFree)
<1> SUFFICES ASSUME FreeSlots # {} PROVE FirstFree \in FreeSlots
  BY DEF FreeSlots
<1>1. NumSlots \in Nat /\ FreeSlots \in SUBSET (1 .. NumSlots)
  BY ParameterAssumption DEF FreeSlots, Slots
<1>2. \E s \in FreeSlots : \A r \in FreeSlots : s <= r
  BY <1>1, LeastExists
<1> QED BY <1>2 DEF FirstFree

-----------------------------------------------------------------------------
(* The thread accepts a connection only where there is one, as nobody else *)
(* takes from the backlog between select and accept.                       *)
HeardIsThere ==
    /\ turn = <<"select", 0>> => ready = {}
    /\ 0 \in ready /\ turn # <<"expire", 0>> => backlog # << >>

IInv == TypeOK /\ ToldBeforeData /\ FreshSendRing /\ HeardIsThere

LEMMA SlotsFacts ==
  /\ NumSlots \in Nat /\ 0 \notin Slots /\ 1 \in Slots /\ Slots \subseteq Nat
  /\ \A s \in Slots : <<"read", s>> \in Turns /\ <<"write", s>> \in Turns
  /\ \A s \in Slots : AfterSlot(s) \in Turns
<1>1. NumSlots \in Nat \ {0} /\ Slots = 1 .. NumSlots
  BY ParameterAssumption DEF Slots
<1>2. 0 \notin Slots /\ 1 \in Slots /\ Slots \subseteq Nat
  BY <1>1
<1>3. \A s \in Slots : <<"read", s>> \in Turns /\ <<"write", s>> \in Turns
  BY DEF Turns
<1>4. ASSUME NEW s \in Slots PROVE AfterSlot(s) \in Turns
  <2>1. CASE s < NumSlots
    <3>1. s + 1 \in Slots /\ AfterSlot(s) = <<"read", s + 1>>
      BY <1>1, <2>1 DEF AfterSlot
    <3> QED BY <1>3, <3>1
  <2>2. CASE ~(s < NumSlots)
    BY <2>2 DEF AfterSlot, Turns
  <2> QED BY <2>1, <2>2
<1> QED BY <1>1, <1>2, <1>3, <1>4

LEMMA InitIInv == Init => IInv
<1> SUFFICES ASSUME Init PROVE IInv
  OBVIOUS
<1>1. MaxTime \in Nat /\ IdleTimeout \in Nat /\ 0 \in 0 .. MaxTime
      /\ 0 \in 0 .. IdleTimeout /\ 0 \in 0 .. SendRingUnits
  BY ParameterAssumption DEF SendRingUnits
<1>2. <<"select", 0>> \in Turns /\ NewSocket \in Socket
  BY DEF Turns, NewSocket, Socket
<1>3. backlog \in Seq(Clients)
  BY EmptySeq DEF Init
<1>4. slot \in [Slots -> [state : {"inactive", "init", "sendchan", "sendadc", "shutdown"},
                           client : Clients, idle : 0 .. IdleTimeout]]
      /\ \A s \in Slots : slot[s].state = "inactive"
  BY <1>1 DEF Init
<1>5. TypeOK
  BY <1>1, <1>2, <1>3, <1>4 DEF Init, TypeOK, Away
<1>6. HeardIsThere
  BY DEF Init, HeardIsThere
<1>7. ToldBeforeData /\ FreshSendRing
  BY <1>4 DEF ToldBeforeData, FreshSendRing, Active, State
<1> QED BY <1>5, <1>6, <1>7 DEF IInv

(* Where a client stops is a time a packet can have.                       *)
LEMMA LastSentType ==
  ASSUME TypeOK, NEW s \in Slots
  PROVE  LastSent(s) \in 0 .. MaxTime
<1>1. lastPut[s] \in 0 .. MaxTime /\ MaxTime \in Nat
  BY ParameterAssumption DEF TypeOK
<1> QED BY <1>1 DEF LastSent

(* Clients, network and the client thread.                                 *)
LEMMA WorldKeeps == IInv /\ WorldNext => IInv'
<1> SUFFICES ASSUME IInv, WorldNext PROVE IInv'
  OBVIOUS
<1> USE DEF IInv
<1>1. CASE PacketArrives
  <2>1. clock' \in 0 .. MaxTime /\ cache' \subseteq 1 .. clock'
    <3>1. clock \in Nat /\ MaxTime \in Nat /\ MaxGap \in Nat /\ cache \subseteq 1 .. clock
      BY ParameterAssumption DEF TypeOK
    <3>2. /\ clock' \in clock + 1 .. clock + 1 + MaxGap /\ clock' <= MaxTime
          /\ cache' \subseteq cache \cup {clock'}
      BY <1>1 DEF PacketArrives
    <3> QED BY <3>1, <3>2
  <2>2. UNCHANGED <<netVars, connVars, traceVars, threadVars>>
    BY <1>1 DEF PacketArrives
  <2> QED
    BY <2>1, <2>2 DEF TypeOK, ToldBeforeData, FreshSendRing, HeardIsThere, Active, State,
                      netVars, connVars, traceVars, threadVars
<1>2. ASSUME NEW c \in Clients, Dial(c) PROVE IInv'
  <2>1. backlog' \in Seq(Clients) /\ backlog' # << >>
    <3>1. backlog \in Seq(Clients) /\ backlog' = Append(backlog, c)
      BY <1>2 DEF Dial, TypeOK
    <3> QED BY <3>1, AppendProperties
  <2>2. at' \in [Clients -> Slots \cup {Away, Waiting}]
    BY <1>2 DEF Dial, TypeOK
  <2>3. UNCHANGED <<cacheVars, sock, connVars, traceVars, threadVars>>
    BY <1>2 DEF Dial
  <2> QED
    BY <2>1, <2>2, <2>3 DEF TypeOK, ToldBeforeData, FreshSendRing, HeardIsThere, Active,
                            State, cacheVars, connVars, traceVars, threadVars
<1>3. ASSUME sock' \in [Slots -> Socket], at' \in [Clients -> Slots \cup {Away, Waiting}],
             stopped' \in [Clients -> 0 .. MaxTime],
             UNCHANGED <<cacheVars, backlog, connVars, lastPut, told, threadVars>>
      PROVE  IInv'
  BY <1>3 DEF TypeOK, ToldBeforeData, FreshSendRing, HeardIsThere, Active,
              State, cacheVars, connVars, threadVars
<1>4. ASSUME NEW s \in Slots, NEW p \in {"open", "closed", "reset"}
      PROVE  [sock EXCEPT ![s].peer = p] \in [Slots -> Socket]
  BY DEF TypeOK, Socket
<1>5. ASSUME NEW s \in Slots, NEW r \in {"none", "plain", "numbered"}
      PROVE  [sock EXCEPT ![s].req = r] \in [Slots -> Socket]
  BY DEF TypeOK, Socket
<1>6. ASSUME NEW c \in Clients, Request(c) PROVE IInv'
  <2>1. PICK form \in RequestForms : sock' = [sock EXCEPT ![at[c]].req = form]
    BY <1>6 DEF Request
  <2>2. form \in {"none", "plain", "numbered"}
    BY ParameterAssumption
  <2>3. sock' \in [Slots -> Socket]
    BY <1>5, <1>6, <2>1, <2>2 DEF Request
  <2> QED BY <1>3, <1>6, <2>3 DEF Request, TypeOK, traceVars
<1>7. ASSUME NEW c \in Clients, Leave(c) PROVE IInv'
  <2>1. PICK how \in {"closed", "reset"} : sock' = [sock EXCEPT ![at[c]].peer = how]
    BY <1>7 DEF Leave
  <2>2. sock' \in [Slots -> Socket]
    BY <1>4, <1>7, <2>1 DEF Leave
  <2>3. at' \in [Clients -> Slots \cup {Away, Waiting}] /\ stopped' \in [Clients -> 0 .. MaxTime]
    BY <1>7, LastSentType DEF Leave, CutOff, TypeOK
  <2> QED BY <1>3, <1>7, <2>2, <2>3 DEF Leave, CutOff
<1>8. ASSUME NEW c \in Clients, DropSilently(c) PROVE IInv'
  <2>1. /\ at' \in [Clients -> Slots \cup {Away, Waiting}] /\ sock' \in [Slots -> Socket]
        /\ stopped' \in [Clients -> 0 .. MaxTime]
    BY <1>8, LastSentType DEF DropSilently, CutOff, TypeOK
  <2> QED BY <1>3, <1>8, <2>1 DEF DropSilently, CutOff
<1>9. ASSUME NEW s \in Slots, ResetArrives(s) PROVE IInv'
  <2>1. sock' \in [Slots -> Socket] /\ at' \in [Clients -> Slots \cup {Away, Waiting}]
    BY <1>4, <1>9 DEF ResetArrives, TypeOK
  <2> QED BY <1>3, <1>9, <2>1 DEF ResetArrives, traceVars, TypeOK
<1> QED
  BY <1>1, <1>2, <1>6, <1>7, <1>8, <1>9 DEF WorldNext

SlotRecord == [state : {"inactive", "init", "sendchan", "sendadc", "shutdown"},
               client : Clients, idle : 0 .. IdleTimeout]

(* A step of service_connection that goes on to its write part.            *)
LEMMA GoOnKeeps ==
  ASSUME IInv, NEW s \in Slots, turn = <<"read", s>>, GoOnToWrite(s), known' = known,
         slot' \in [Slots -> SlotRecord], sock' \in [Slots -> Socket],
         pending' \in [Slots -> 0 .. SendRingUnits],
         lastTime' \in [Clients -> 0 .. MaxTime],
         at' \in [Clients -> Slots \cup {Away, Waiting}],
         lastPut' \in [Slots -> 0 .. MaxTime], told' \in [Slots -> BOOLEAN],
         stopped' \in [Clients -> 0 .. MaxTime]
  PROVE  TypeOK' /\ HeardIsThere'
<1>1. turn' \in Turns /\ turn' = <<"write", s>> /\ turn' # <<"select", 0>>
      /\ turn # <<"expire", 0>>
  BY SlotsFacts DEF GoOnToWrite
<1>2. UNCHANGED <<cache, clock, backlog, known, ready, exited>>
  BY DEF GoOnToWrite, cacheVars
<1>3. TypeOK'
  BY <1>1, <1>2 DEF IInv, TypeOK, SlotRecord
<1>4. HeardIsThere'
  BY <1>1, <1>2 DEF IInv, HeardIsThere
<1> QED BY <1>3, <1>4

LEMMA ConsumedType ==
  ASSUME TypeOK, NEW s \in Slots
  PROVE  /\ Consumed(s) \in [Slots -> Socket]
         /\ [sock EXCEPT ![s] = NewSocket] \in [Slots -> Socket]
BY DEF TypeOK, Consumed, Socket, NewSocket

LEMMA ShutdownKeeps ==
  ASSUME IInv, NEW s \in Slots, Shutdown(s) PROVE IInv'
<1> USE DEF IInv
<1>1. slot \in [Slots -> SlotRecord]
  BY DEF TypeOK, SlotRecord
<1>2. slot' = [slot EXCEPT ![s].state = "inactive"]
  BY DEF Shutdown
<1>3. slot' \in [Slots -> SlotRecord]
  BY <1>1, <1>2 DEF SlotRecord
<1>4. lastPut' \in [Slots -> 0 .. MaxTime] /\ told' \in [Slots -> BOOLEAN]
  <2>1. 0 \in 0 .. MaxTime
    BY ParameterAssumption
  <2> QED BY <2>1 DEF Shutdown, TypeOK
<1>5. at' \in [Clients -> Slots \cup {Away, Waiting}] /\ stopped' \in [Clients -> 0 .. MaxTime]
  BY LastSentType DEF Shutdown, TypeOK
<1>6. TypeOK' /\ HeardIsThere'
  BY <1>3, <1>4, <1>5, ConsumedType, GoOnKeeps DEF Shutdown, TypeOK, At
<1>7. /\ slot'[s].state = "inactive"
      /\ \A r \in Slots \ {s} : slot'[r] = slot[r] /\ told'[r] = told[r]
      /\ pending' = pending
  BY <1>1, <1>2 DEF Shutdown, TypeOK
<1>8. ToldBeforeData' /\ FreshSendRing'
  BY <1>7 DEF ToldBeforeData, FreshSendRing, Active, State
<1> QED BY <1>6, <1>8

LEMMA PutChannelDataKeeps ==
  ASSUME IInv, NEW s \in Slots, PutChannelData(s) PROVE IInv'
<1> USE DEF IInv
<1>1. slot \in [Slots -> SlotRecord] /\ pending \in [Slots -> 0 .. 2]
      /\ told \in [Slots -> BOOLEAN]
  BY DEF TypeOK, SlotRecord, SendRingUnits
<1>2. \A r \in Slots \ {s} : slot'[r] = slot[r] /\ told'[r] = told[r]
                             /\ pending'[r] = pending[r]
  BY <1>1 DEF PutChannelData
<1>3. CASE pending[s] + ChannelUnits <= SendRingUnits
  <2>1. /\ pending' = [pending EXCEPT ![s] = @ + 1] /\ pending[s] + 1 <= 2
        /\ slot' = [slot EXCEPT ![s].state = "sendadc"]
        /\ told' = [told EXCEPT ![s] = TRUE]
    BY <1>3 DEF PutChannelData, ChannelUnits, SendRingUnits
  <2>2. slot' \in [Slots -> SlotRecord]
    BY <1>1, <2>1 DEF SlotRecord
  <2>3. pending' \in [Slots -> 0 .. 2] /\ told' \in [Slots -> BOOLEAN]
    BY <1>1, <2>1
  <2>4. TypeOK' /\ HeardIsThere'
    BY <2>2, <2>3, ConsumedType, GoOnKeeps DEF PutChannelData, TypeOK, At, SendRingUnits
  <2>5. told'[s] = TRUE /\ slot'[s].state = "sendadc"
    BY <1>1, <2>1
  <2>6. ToldBeforeData' /\ FreshSendRing'
    BY <1>2, <2>5 DEF ToldBeforeData, FreshSendRing, Active, State
  <2> QED BY <2>4, <2>6
<1>4. CASE ~(pending[s] + ChannelUnits <= SendRingUnits)
  <2>1. /\ UNCHANGED <<pending, told>>
        /\ slot' = [slot EXCEPT ![s].state = "sendchan"]
        /\ Active(s) /\ pending[s] > 0
    BY <1>1, <1>4 DEF PutChannelData, ChannelUnits, SendRingUnits
  <2>2. slot' \in [Slots -> SlotRecord]
    BY <1>1, <2>1 DEF SlotRecord
  <2>4. TypeOK' /\ HeardIsThere'
    BY <2>1, <2>2, ConsumedType, GoOnKeeps DEF PutChannelData, TypeOK, At
  <2>5. told[s] /\ slot'[s].state = "sendchan"
    BY <1>1, <2>1 DEF ToldBeforeData
  <2>6. ToldBeforeData' /\ FreshSendRing'
    BY <1>2, <2>1, <2>5 DEF ToldBeforeData, FreshSendRing, Active, State
  <2> QED BY <2>4, <2>6
<1> QED BY <1>3, <1>4

(* What put_adc_data puts on the send ring, and when.                      *)
LEMMA PutAdcDataPuts ==
  ASSUME TypeOK, NEW s \in Slots, PutAdcData(s)
  PROVE  /\ State(s) = "sendadc" /\ AfterRead(s) = "sendadc" /\ turn = <<"read", s>>
         /\ UNCHANGED <<slot, at, known, told, cache>> /\ sock' = Consumed(s)
         /\ \/ UNCHANGED <<pending, lastTime, lastPut>>
            \/ \E t \in cache :
                  /\ t > lastTime[Record(s)]
                  /\ \A u \in cache : u > lastTime[Record(s)] => t <= u
                  /\ pending[s] = 0 /\ pending' = [pending EXCEPT ![s] = 2]
                  /\ lastTime' = [lastTime EXCEPT ![Record(s)] = t]
                  /\ lastPut' = [lastPut EXCEPT ![s] = t]
<1>1. State(s) = "sendadc" /\ AfterRead(s) = "sendadc" /\ turn = <<"read", s>>
  BY DEF PutAdcData, AfterRead, At
<1>2. UNCHANGED <<slot, at, known, told, cache>> /\ sock' = Consumed(s)
  BY DEF PutAdcData, GoOnToWrite, cacheVars
<1>3. CASE NewerThan(lastTime[Record(s)]) # {} /\ pending[s] + PacketUnits <= SendRingUnits
  <2> DEFINE t == Oldest(NewerThan(lastTime[Record(s)]))
  <2>1. /\ pending' = [pending EXCEPT ![s] = @ + PacketUnits]
        /\ lastTime' = [lastTime EXCEPT ![Record(s)] = t]
        /\ lastPut' = [lastPut EXCEPT ![s] = t]
    BY <1>3 DEF PutAdcData
  <2>2. NewerThan(lastTime[Record(s)]) \in SUBSET (1 .. clock) /\ clock \in Nat
    <3>1. clock \in Nat /\ cache \in SUBSET (1 .. clock)
      BY ParameterAssumption DEF TypeOK
    <3>2. NewerThan(lastTime[Record(s)]) \subseteq cache
      BY DEF NewerThan
    <3> QED BY <3>1, <3>2
  <2>3. t \in NewerThan(lastTime[Record(s)])
        /\ \A u \in NewerThan(lastTime[Record(s)]) : t <= u
    BY <1>3, <2>2, OldestIsOldest
  <2>4. /\ t \in cache /\ t > lastTime[Record(s)]
        /\ \A u \in cache : u > lastTime[Record(s)] => t <= u
    BY <2>3 DEF NewerThan
  <2> HIDE DEF t
  <2>5. pending[s] = 0 /\ pending' = [pending EXCEPT ![s] = 2]
    <3>1. pending \in [Slots -> 0 .. 2] /\ pending[s] + 2 <= 2
          /\ pending' = [pending EXCEPT ![s] = @ + 2]
      BY <1>3, <2>1 DEF TypeOK, PacketUnits, SendRingUnits
    <3>2. pending[s] \in 0 .. 2
      BY <3>1
    <3>3. pending[s] = 0
      BY <3>1, <3>2
    <3> QED BY <3>1, <3>3
  <2> QED BY <1>1, <1>2, <2>1, <2>4, <2>5
<1>4. CASE ~(NewerThan(lastTime[Record(s)]) # {} /\ pending[s] + PacketUnits <= SendRingUnits)
  BY <1>1, <1>2, <1>4 DEF PutAdcData
<1> QED BY <1>3, <1>4

LEMMA PutAdcDataKeeps ==
  ASSUME IInv, NEW s \in Slots, PutAdcData(s) PROVE IInv'
<1> USE DEF IInv
<1>1. slot \in [Slots -> SlotRecord] /\ pending \in [Slots -> 0 .. 2]
  BY DEF TypeOK, SlotRecord, SendRingUnits
<1>2. /\ State(s) = "sendadc" /\ UNCHANGED <<slot, at, known, told>>
      /\ sock' = Consumed(s) /\ turn = <<"read", s>>
  BY PutAdcDataPuts
<1>3. told[s]
  BY <1>2 DEF ToldBeforeData
<1>4. /\ pending' \in [Slots -> 0 .. 2] /\ \A r \in Slots \ {s} : pending'[r] = pending[r]
      /\ lastTime' \in [Clients -> 0 .. MaxTime] /\ lastPut' \in [Slots -> 0 .. MaxTime]
  <2>1. cache \subseteq 0 .. MaxTime
    BY ParameterAssumption DEF TypeOK
  <2>2. lastTime \in [Clients -> 0 .. MaxTime] /\ lastPut \in [Slots -> 0 .. MaxTime]
    BY DEF TypeOK
  <2>3. CASE UNCHANGED <<pending, lastTime, lastPut>>
    BY <1>1, <2>2, <2>3
  <2> QED BY <2>1, <2>2, <1>1, PutAdcDataPuts
<1>5. TypeOK' /\ HeardIsThere'
  BY <1>1, <1>2, <1>4, ConsumedType, GoOnKeeps DEF PutAdcData, TypeOK, SendRingUnits
<1>6. ToldBeforeData' /\ FreshSendRing'
  BY <1>2, <1>3, <1>4 DEF ToldBeforeData, FreshSendRing, Active, State
<1> QED BY <1>5, <1>6

LEMMA WaitKeeps ==
  ASSUME IInv, NEW s \in Slots, WaitForRequest(s) PROVE IInv'
<1> USE DEF IInv
<1>1. slot \in [Slots -> SlotRecord] /\ pending \in [Slots -> 0 .. 2]
  BY DEF TypeOK, SlotRecord, SendRingUnits
<1>2. State(s) = "init" /\ UNCHANGED <<at, pending, known, lastTime, lastPut, told, stopped>>
  BY DEF WaitForRequest, AfterRead, traceVars
<1>3. pending[s] = 0
  BY <1>2 DEF FreshSendRing
<1>4. /\ slot' \in [Slots -> SlotRecord] /\ slot'[s].state \in {"init", "shutdown"}
      /\ \A r \in Slots \ {s} : slot'[r] = slot[r]
  <2>1. CASE slot[s].idle <= 0
    <3>1. slot' = [slot EXCEPT ![s].state = "shutdown"]
      BY <2>1 DEF WaitForRequest
    <3> QED BY <1>1, <3>1 DEF SlotRecord
  <2>2. CASE ~(slot[s].idle <= 0)
    <3>1. slot' = [slot EXCEPT ![s].idle = @ - 1]
      BY <2>2 DEF WaitForRequest
    <3>2. slot[s].idle \in 0 .. IdleTimeout /\ IdleTimeout \in Nat
      BY <1>1, ParameterAssumption DEF SlotRecord
    <3>3. slot[s].idle - 1 \in 0 .. IdleTimeout
      BY <2>2, <3>2
    <3> QED BY <1>1, <1>2, <3>1, <3>3 DEF SlotRecord, State
  <2> QED BY <2>1, <2>2
<1>5. TypeOK' /\ HeardIsThere'
  BY <1>2, <1>4, ConsumedType, GoOnKeeps DEF WaitForRequest, TypeOK, At
<1>6. ToldBeforeData' /\ FreshSendRing'
  BY <1>1, <1>2, <1>3, <1>4 DEF ToldBeforeData, FreshSendRing, Active, State
<1> QED BY <1>5, <1>6

LEMMA WriteKeeps ==
  ASSUME IInv, NEW s \in Slots, Write(s) \/ WriteFails(s) \/ SkipInactive(s) PROVE IInv'
<1> USE DEF IInv
<1>1. /\ turn' \in Turns \/ turn' = turn
      /\ turn = <<"write", s>> \/ turn = <<"read", s>>
      /\ turn' # <<"select", 0>>
  <2>1. AfterSlot(s) \in Turns /\ AfterSlot(s) # <<"select", 0>>
    BY SlotsFacts DEF AfterSlot
  <2> QED BY <2>1, SlotsFacts DEF Write, WriteFails, SkipInactive, At
<1>2. UNCHANGED <<cacheVars, netVars, slot, known, lastTime, traceVars, ready>>
      /\ exited' \in BOOLEAN
  BY DEF Write, WriteFails, SkipInactive, connVars, TypeOK
<1>3. pending' \in [Slots -> 0 .. 2]
      /\ \A r \in Slots : pending'[r] <= pending[r]
  <2>1. pending \in [Slots -> 0 .. 2]
    BY DEF TypeOK, SendRingUnits
  <2>2. CASE UNCHANGED pending
    BY <2>1, <2>2
  <2>3. ASSUME NEW n \in 0 .. pending[s] - 1, pending' = [pending EXCEPT ![s] = n]
        PROVE  pending' \in [Slots -> 0 .. 2] /\ \A r \in Slots : pending'[r] <= pending[r]
    <3>1. pending[s] \in 0 .. 2
      BY <2>1
    <3>2. n \in 0 .. 2 /\ n <= pending[s]
      BY <3>1
    <3> QED BY <2>1, <2>3, <3>2
  <2> QED BY <2>2, <2>3 DEF Write, WriteFails, SkipInactive, connVars
<1>4. TypeOK'
  BY <1>1, <1>2, <1>3 DEF TypeOK, cacheVars, netVars, traceVars, SendRingUnits
<1>5. HeardIsThere'
  BY <1>1, <1>2 DEF HeardIsThere, netVars
<1>6. ToldBeforeData' /\ FreshSendRing'
  <2>1. \A r \in Slots : /\ pending[r] \in 0 .. 2 /\ pending'[r] \in 0 .. 2
                         /\ pending'[r] <= pending[r]
    BY <1>3 DEF TypeOK, SendRingUnits
  <2>2. \A r \in Slots : (pending[r] = 0 => pending'[r] = 0)
                         /\ (pending'[r] > 0 => pending[r] > 0)
    BY <2>1
  <2> QED BY <1>2, <2>2 DEF ToldBeforeData, FreshSendRing, Active, State, traceVars
<1> QED BY <1>4, <1>5, <1>6

LEMMA SelectKeeps ==
  ASSUME IInv, Select \/ NoneToAccept \/ Expire PROVE IInv'
<1> USE DEF IInv
<1>1. UNCHANGED <<cacheVars, netVars, connVars, traceVars, exited>>
  BY DEF Select, NoneToAccept, Expire
<1>2. turn' \in Turns /\ ready' \subseteq Slots \cup {0}
  BY SlotsFacts DEF Select, NoneToAccept, Expire, Turns, TypeOK
<1>3. HeardIsThere'
  <2>1. CASE Select
    BY <2>1, SlotsFacts DEF Select, HeardIsThere, netVars
  <2>2. CASE NoneToAccept
    BY <2>2 DEF NoneToAccept, HeardIsThere
  <2>3. CASE Expire
    BY <2>3 DEF Expire, HeardIsThere
  <2> QED BY <2>1, <2>2, <2>3
<1>4. TypeOK' /\ ToldBeforeData' /\ FreshSendRing'
  BY <1>1, <1>2 DEF TypeOK, ToldBeforeData, FreshSendRing, Active, State,
                    cacheVars, netVars, connVars, traceVars
<1> QED BY <1>3, <1>4

(* A connection that is accepted or refused is the first of the backlog.   *)
LEMMA FirstInLine ==
  ASSUME IInv, turn = <<"accept", 0>>, 0 \in ready
  PROVE  backlog # << >> /\ Head(backlog) \in Clients /\ Tail(backlog) \in Seq(Clients)
<1>1. backlog # << >> /\ backlog \in Seq(Clients)
  BY DEF IInv, HeardIsThere, TypeOK
<1> QED BY <1>1, HeadTailProperties

LEMMA RewoundType == \A t \in 0 .. MaxTime : Rewound(t) \in 0 .. MaxTime
BY ParameterAssumption DEF Rewound

(* Where accept puts a connection, and from when it resumes.               *)
LEMMA AcceptSetsUp ==
  ASSUME IInv, Accept
  PROVE  \E c \in Clients, s \in Slots, from \in 0 .. MaxTime :
            /\ c = Head(backlog) /\ ~Active(s) /\ SetUp(c, s, from)
            /\ from \in {0, Rewound(lastTime[c])}
            /\ known' \in SUBSET Clients /\ backlog' = Tail(backlog)
            /\ turn = <<"accept", 0>> /\ 0 \in ready /\ turn' = <<"expire", 0>>
            /\ UNCHANGED <<cache, clock, ready, exited>>
<1>1. turn = <<"accept", 0>> /\ 0 \in ready
  BY DEF Accept, At
<1>2. Head(backlog) \in Clients
  BY <1>1, FirstInLine
<1> DEFINE c == Head(backlog)
           from == IF c \in known THEN Rewound(lastTime[c]) ELSE 0
<1>3. from \in 0 .. MaxTime
  <2>1. lastTime[c] \in 0 .. MaxTime /\ 0 \in 0 .. MaxTime
    BY <1>2, ParameterAssumption DEF IInv, TypeOK
  <2> QED BY <2>1, RewoundType
<1>4. FirstFree \in Slots /\ ~Active(FirstFree)
  BY FirstFreeIsFree DEF Accept
<1>5. /\ SetUp(c, FirstFree, from) /\ known' = known \cup {c}
      /\ from \in {0, Rewound(lastTime[c])}
  BY DEF Accept
<1>6. known' \in SUBSET Clients
  BY <1>2, <1>5 DEF IInv, TypeOK
<1> HIDE DEF from
<1> QED BY <1>1, <1>2, <1>3, <1>4, <1>5, <1>6 DEF Accept, cacheVars

LEMMA AcceptKeeps ==
  ASSUME IInv, Accept PROVE IInv'
<1>1. PICK c \in Clients, s \in Slots, from \in 0 .. MaxTime :
            /\ c = Head(backlog) /\ ~Active(s) /\ SetUp(c, s, from)
            /\ from \in {0, Rewound(lastTime[c])}
            /\ known' \in SUBSET Clients /\ backlog' = Tail(backlog)
            /\ turn = <<"accept", 0>> /\ 0 \in ready /\ turn' = <<"expire", 0>>
            /\ UNCHANGED <<cache, clock, ready, exited>>
  BY AcceptSetsUp
<1> USE DEF IInv
<1>2. slot \in [Slots -> SlotRecord] /\ [state |-> "init", client |-> c, idle |-> IdleTimeout]
          \in SlotRecord
  <2>1. IdleTimeout \in 0 .. IdleTimeout
    BY ParameterAssumption
  <2> QED BY <2>1 DEF TypeOK, SlotRecord
<1>3. slot' = [slot EXCEPT ![s] = [state |-> "init", client |-> c, idle |-> IdleTimeout]]
  BY <1>1 DEF SetUp
<1>4. slot' \in [Slots -> SlotRecord] /\ slot'[s].state = "init"
      /\ \A r \in Slots \ {s} : slot'[r] = slot[r]
  BY <1>2, <1>3
<1>5. /\ sock' \in [Slots -> Socket]
      /\ pending' \in [Slots -> 0 .. SendRingUnits]
      /\ lastTime' \in [Clients -> 0 .. MaxTime]
      /\ at' \in [Clients -> Slots \cup {Away, Waiting}]
      /\ lastPut' \in [Slots -> 0 .. MaxTime] /\ told' \in [Slots -> BOOLEAN]
      /\ stopped' \in [Clients -> 0 .. MaxTime]
  <2>1. 0 \in 0 .. SendRingUnits
    BY DEF SendRingUnits
  <2> QED BY <1>1, <2>1, ConsumedType DEF SetUp, TypeOK
<1>6. /\ pending'[s] = 0
      /\ \A r \in Slots \ {s} : pending'[r] = pending[r] /\ told'[r] = told[r]
  BY <1>1 DEF SetUp, TypeOK
<1>7. turn' \in Turns /\ backlog' \in Seq(Clients)
  BY <1>1, FirstInLine DEF Turns
<1>8. TypeOK'
  BY <1>1, <1>4, <1>5, <1>7 DEF TypeOK, SlotRecord
<1>9. ToldBeforeData' /\ FreshSendRing'
  BY <1>4, <1>6 DEF ToldBeforeData, FreshSendRing, Active, State
<1>10. HeardIsThere'
  BY <1>1 DEF HeardIsThere
<1> QED BY <1>8, <1>9, <1>10

LEMMA RefuseKeeps ==
  ASSUME IInv, Refuse PROVE IInv'
<1> USE DEF IInv
<1>1. turn' \in Turns /\ turn' = <<"expire", 0>> /\ UNCHANGED <<cacheVars, sock, connVars,
        traceVars, ready, exited>>
  BY DEF Refuse, Turns
<1>2. backlog' \in Seq(Clients)
  BY FirstInLine DEF Refuse, At
<1>3. at' \in [Clients -> Slots \cup {Away, Waiting}]
  BY DEF Refuse, TypeOK
<1>4. TypeOK' /\ ToldBeforeData' /\ FreshSendRing'
  BY <1>1, <1>2, <1>3 DEF TypeOK, ToldBeforeData, FreshSendRing, Active, State,
                          cacheVars, connVars, traceVars
<1>5. HeardIsThere'
  BY <1>1 DEF HeardIsThere
<1> QED BY <1>4, <1>5

LEMMA CloseAllKeeps ==
  ASSUME IInv, CloseAll PROVE IInv'
<1> USE DEF IInv
<1>1. UNCHANGED <<clock, turn, ready, exited>> /\ ready = {} /\ cache' = {} /\ known' = {}
  BY DEF CloseAll, threadVars, At, HeardIsThere
<1>2. slot' \in [Slots -> SlotRecord] /\ \A s \in Slots : slot'[s].state = "inactive"
  <2>1. slot \in [Slots -> SlotRecord]
    BY DEF TypeOK, SlotRecord
  <2>2. slot' = [s \in Slots |-> [slot[s] EXCEPT !.state = "inactive"]]
    BY DEF CloseAll
  <2> QED BY <2>1, <2>2 DEF SlotRecord
<1>3. /\ 0 \in 0 .. MaxTime /\ 0 \in 0 .. SendRingUnits /\ NewSocket \in Socket
      /\ backlog' \in Seq(Clients)
  BY ParameterAssumption, EmptySeq DEF SendRingUnits, NewSocket, Socket, CloseAll
<1>4. stopped' \in [Clients -> 0 .. MaxTime]
  BY LastSentType DEF CloseAll, TypeOK
<1>5. TypeOK'
  BY <1>1, <1>2, <1>3, <1>4 DEF CloseAll, TypeOK, SlotRecord
<1>6. ToldBeforeData' /\ FreshSendRing'
  BY <1>2 DEF ToldBeforeData, FreshSendRing, Active, State
<1>7. HeardIsThere'
  BY <1>1 DEF HeardIsThere
<1> QED BY <1>5, <1>6, <1>7

(* IInv is inductive.                                                      *)
LEMMA NextIInv == IInv /\ [Next]_vars => IInv'
<1> SUFFICES ASSUME IInv, [Next]_vars PROVE IInv'
  OBVIOUS
<1>1. CASE WorldNext
  BY <1>1, WorldKeeps
<1>2. ASSUME NEW s \in Slots, ServiceConnection(s) PROVE IInv'
  BY <1>2, ShutdownKeeps, PutChannelDataKeeps, PutAdcDataKeeps, WaitKeeps, WriteKeeps
  DEF ServiceConnection
<1>3. CASE Select \/ NoneToAccept \/ Accept \/ Refuse \/ Expire
  BY <1>3, SelectKeeps, AcceptKeeps, RefuseKeeps
<1>4. CASE CloseAll
  BY <1>4, CloseAllKeeps
<1>5. CASE UNCHANGED vars
  BY <1>5 DEF IInv, TypeOK, ToldBeforeData, FreshSendRing, HeardIsThere, Active, State, vars,
              cacheVars, netVars, connVars, traceVars, threadVars
<1> QED BY <1>1, <1>2, <1>3, <1>4, <1>5 DEF Next, PassNext

(* The inductive invariant holds in every behaviour.                       *)
THEOREM Invariance == Spec => []IInv
BY InitIInv, NextIInv, PTL DEF Spec

(* Type correctness: no send ring is given more than it was allocated for. *)
THEOREM TypeCorrect == Spec => []TypeOK
BY Invariance, PTL DEF IInv

(* Whatever a slot was used for before and however its client asks, the    *)
(* channel information goes before the packets.                            *)
THEOREM ChannelFirst == Spec => []ToldBeforeData
BY Invariance, PTL DEF IInv

(* A new connection inherits nothing from the send ring of its slot.       *)
THEOREM SendRingFresh == Spec => []FreshSendRing
BY Invariance, PTL DEF IInv

-----------------------------------------------------------------------------
(***************************************************************************)
(* A client gets the packets in order and none is left out, as long as no  *)
(* client is cut off without the server noticing.                          *)
(*                                                                         *)
(* The history record belongs to an address, and several slots may refer   *)
(* to it: the one of the client's connection and older ones that the       *)
(* thread has not shut down yet.  The record is about the right one since  *)
(* the older ones send nothing any more: their sockets are at their end,   *)
(* and the pass that accepts the new connection read them before.          *)
(***************************************************************************)

(* The slot is read before the thread comes back to select.                *)
ToBeRead(s) ==
    \/ turn[1] = "read" /\ turn[2] <= s
    \/ turn[1] = "write" /\ turn[2] < s

(* The next read of the slot shuts it down.                                *)
Doomed(s) ==
    /\ sock[s].peer # "open" /\ sock[s].req = "none"
    /\ ToBeRead(s) => s \in ready

(* The slot is doomed by the time the thread accepts.                      *)
Leaving(s) ==
    /\ sock[s].peer # "open"
    /\ IF ToBeRead(s) THEN s \in ready ELSE sock[s].req = "none"

InLine ==
    /\ \A i \in 1 .. Len(backlog) : at[backlog[i]] = Waiting
    /\ \A i, j \in 1 .. Len(backlog) : backlog[i] = backlog[j] => i = j

ConnectedOpen == \A c \in Clients : at[c] \in Slots => sock[at[c]].peer = "open"

AbandonedKnown ==
    \A s \in Slots : Active(s) /\ at[Record(s)] # s => sock[s].peer # "open"

RecordFollows ==
    \A s \in Slots : Active(s) => lastPut[s] = lastTime[Record(s)] \/ Doomed(s)

OneAlive ==
    \A r, s \in Slots :
        Active(r) /\ Active(s) /\ Record(r) = Record(s) /\ r # s => Doomed(r) \/ Doomed(s)

NextIsFree ==
    0 \in ready /\ turn[1] \in {"read", "write", "accept"} =>
        \A s \in Slots : Active(s) /\ Record(s) = Head(backlog) => Leaving(s)

OrderInv ==
    /\ InLine /\ ConnectedOpen /\ AbandonedKnown
    /\ RecordIsCurrent /\ RecordFollows /\ OneAlive /\ NextIsFree

-----------------------------------------------------------------------------
LEMMA InitOrder == Init => OrderInv
<1> SUFFICES ASSUME Init PROVE OrderInv
  OBVIOUS
<1>1. /\ \A s \in Slots : ~Active(s)
      /\ \A c \in Clients : at[c] \notin Slots
      /\ backlog = << >> /\ ready = {}
  BY SlotsFacts DEF Init, Active, State, Away
<1>2. InLine
  BY <1>1 DEF InLine
<1> QED
  BY <1>1, <1>2 DEF OrderInv, ConnectedOpen, AbandonedKnown, RecordIsCurrent, RecordFollows,
                    OneAlive, NextIsFree

(* Two clients are never at the same slot.                                 *)
LEMMA SlotOfOne ==
  ASSUME RecordIsCurrent, NEW c \in Clients, NEW d \in Clients, at[c] \in Slots, at[c] = at[d]
  PROVE  c = d
BY DEF RecordIsCurrent

(* The first of the backlog, when the thread is in the middle of a pass.   *)
LEMMA HeadWaits ==
  ASSUME IInv, InLine, backlog # << >>
  PROVE  /\ Head(backlog) \in Clients /\ at[Head(backlog)] = Waiting
         /\ Waiting \notin Slots /\ Away \notin Slots
<1>1. backlog \in Seq(Clients) /\ Head(backlog) = backlog[1] /\ 1 \in 1 .. Len(backlog)
  BY HeadTailProperties DEF IInv, TypeOK
<1>2. Head(backlog) \in Clients
  BY <1>1, HeadTailProperties
<1> QED BY <1>1, <1>2, SlotsFacts DEF InLine, Waiting, Away

LEMMA WaitingInLine ==
  ASSUME IInv, InLine, NEW c \in Clients, at[c] # Waiting
  PROVE  \A i \in 1 .. Len(backlog) : backlog[i] # c
BY DEF InLine

(* How the part of the pass that is left changes.                          *)
LEMMA ReadMoves ==
  ASSUME NEW s \in Slots, turn = <<"read", s>>, turn' = <<"write", s>>
  PROVE  ToBeRead(s) /\ ~ToBeRead(s)' /\ \A r \in Slots \ {s} : ToBeRead(r)' <=> ToBeRead(r)
<1>1. Slots \subseteq Nat
  BY SlotsFacts
<1>2. \A r \in Slots : (ToBeRead(r) <=> s <= r) /\ (ToBeRead(r)' <=> s < r)
  BY DEF ToBeRead
<1>3. \A r \in Slots \ {s} : s <= r <=> s < r
  BY <1>1
<1>4. s <= s /\ ~(s < s)
  BY <1>1
<1> QED BY <1>2, <1>3, <1>4

LEMMA SlotMoves ==
  ASSUME NEW s \in Slots, turn \in {<<"read", s>>, <<"write", s>>}, turn' = AfterSlot(s)
  PROVE  \A r \in Slots \ {s} : ToBeRead(r)' <=> ToBeRead(r)
<1>1. Slots = 1 .. NumSlots /\ NumSlots \in Nat
  BY ParameterAssumption DEF Slots
<1>2. \A r \in Slots \ {s} : ToBeRead(r) <=> s < r
  <2>1. \A r \in Slots \ {s} : s <= r <=> s < r
    BY <1>1
  <2> QED BY <2>1 DEF ToBeRead
<1>3. \A r \in Slots \ {s} : ToBeRead(r)' <=> s < r
  <2>1. CASE s < NumSlots
    <3>1. turn' = <<"read", s + 1>>
      BY <2>1 DEF AfterSlot
    <3>2. \A r \in Slots : s + 1 <= r <=> s < r
      BY <1>1
    <3> QED BY <3>1, <3>2 DEF ToBeRead
  <2>2. CASE ~(s < NumSlots)
    <3>1. turn' = <<"accept", 0>>
      BY <2>2 DEF AfterSlot
    <3>2. \A r \in Slots : ~(s < r)
      BY <1>1, <2>2
    <3> QED BY <3>1, <3>2 DEF ToBeRead
  <2> QED BY <2>1, <2>2
<1> QED BY <1>2, <1>3

-----------------------------------------------------------------------------
(* Clients and network.                                                    *)

(* Sockets of connections that have a client change in no way that matters *)
(* to the doomed ones, and no doomed one opens again.                      *)
LEMMA WorldSockets ==
  ASSUME OrderInv, UNCHANGED <<slot, lastTime, lastPut, turn, ready, backlog>>,
         \A s \in Slots : Doomed(s) => Doomed(s)',
         \A s \in Slots : Leaving(s) => Leaving(s)',
         InLine', ConnectedOpen', AbandonedKnown', RecordIsCurrent'
  PROVE  OrderInv'
<1>1. \A s \in Slots : (Active(s)' <=> Active(s)) /\ Record(s)' = Record(s)
  BY DEF Active, State, Record
<1>2. RecordFollows' /\ OneAlive'
  BY <1>1 DEF OrderInv, RecordFollows, OneAlive
<1>3. NextIsFree'
  BY <1>1 DEF OrderInv, NextIsFree
<1> QED BY <1>2, <1>3 DEF OrderInv

LEMMA DialOrder ==
  ASSUME IInv, OrderInv, NEW c \in Clients, Dial(c) PROVE OrderInv'
<1>1. /\ at[c] = Away /\ at' = [at EXCEPT ![c] = Waiting] /\ backlog' = Append(backlog, c)
      /\ at \in [Clients -> Slots \cup {Away, Waiting}] /\ backlog \in Seq(Clients)
      /\ UNCHANGED <<sock, slot, lastTime, lastPut, turn, ready>>
  BY DEF Dial, IInv, TypeOK, connVars, traceVars, threadVars
<1>2. Waiting \notin Slots /\ Away \notin Slots /\ Waiting # Away
  BY SlotsFacts DEF Waiting, Away
<1>3. \A s \in Slots : /\ (Active(s)' <=> Active(s)) /\ Record(s)' = Record(s)
                       /\ (Doomed(s)' <=> Doomed(s)) /\ (Leaving(s)' <=> Leaving(s))
  BY <1>1 DEF Active, State, Record, Doomed, Leaving, ToBeRead
<1>4. InLine'
  <2>1. \A i \in 1 .. Len(backlog) : backlog[i] # c
    BY <1>1, <1>2, WaitingInLine DEF OrderInv
  <2>2. /\ Len(backlog') = Len(backlog) + 1 /\ backlog'[Len(backlog) + 1] = c
        /\ \A i \in 1 .. Len(backlog) : backlog'[i] = backlog[i] /\ backlog[i] \in Clients
        /\ Len(backlog) \in Nat
    BY <1>1, AppendProperties
  <2>3. \A i \in 1 .. Len(backlog) + 1 : i \in 1 .. Len(backlog) \/ i = Len(backlog) + 1
    BY <2>2
  <2>4. \A i \in 1 .. Len(backlog') : at'[backlog'[i]] = Waiting
    BY <1>1, <2>2, <2>3 DEF OrderInv, InLine
  <2>5. \A i, j \in 1 .. Len(backlog') : backlog'[i] = backlog'[j] => i = j
    BY <2>1, <2>2, <2>3 DEF OrderInv, InLine
  <2> QED BY <2>4, <2>5 DEF InLine
<1>5. ConnectedOpen' /\ RecordIsCurrent'
  BY <1>1, <1>2, <1>3 DEF OrderInv, ConnectedOpen, RecordIsCurrent
<1>6. AbandonedKnown'
  BY <1>1, <1>2, <1>3 DEF OrderInv, AbandonedKnown
<1>7. RecordFollows' /\ OneAlive'
  BY <1>1, <1>3 DEF OrderInv, RecordFollows, OneAlive
<1>8. NextIsFree'
  <2>1. 0 \in ready /\ turn[1] \in {"read", "write", "accept"} => backlog # << >>
    BY DEF IInv, HeardIsThere
  <2>2. backlog # << >> => Head(backlog') = Head(backlog)
    BY <1>1, AppendProperties, HeadTailProperties
  <2> QED BY <1>1, <1>3, <2>1, <2>2 DEF OrderInv, NextIsFree
<1> QED BY <1>4, <1>5, <1>6, <1>7, <1>8 DEF OrderInv

LEMMA RequestOrder ==
  ASSUME IInv, OrderInv, NEW c \in Clients, Request(c) PROVE OrderInv'
<1>1. PICK form \in RequestForms : sock' = [sock EXCEPT ![at[c]].req = form]
  BY DEF Request
<1>2. /\ at[c] \in Slots /\ UNCHANGED <<at, backlog, slot, lastTime, lastPut, turn, ready>>
      /\ sock \in [Slots -> Socket]
  BY DEF Request, IInv, TypeOK, connVars, traceVars, threadVars
<1>3. sock[at[c]].peer = "open"
  BY <1>2 DEF OrderInv, ConnectedOpen
<1>4. /\ \A s \in Slots : sock'[s].peer = sock[s].peer
      /\ \A s \in Slots \ {at[c]} : sock'[s] = sock[s]
  BY <1>1, <1>2 DEF Socket
<1>5. \A s \in Slots : (Doomed(s) => Doomed(s)') /\ (Leaving(s) => Leaving(s)')
  BY <1>2, <1>3, <1>4 DEF Doomed, Leaving, ToBeRead
<1>6. \A s \in Slots : (Active(s)' <=> Active(s)) /\ Record(s)' = Record(s)
  BY <1>2 DEF Active, State, Record
<1>7. InLine' /\ ConnectedOpen' /\ AbandonedKnown' /\ RecordIsCurrent'
  BY <1>2, <1>4, <1>6 DEF OrderInv, InLine, ConnectedOpen, AbandonedKnown, RecordIsCurrent
<1> QED BY <1>2, <1>5, <1>7, WorldSockets

LEMMA LeaveOrder ==
  ASSUME IInv, OrderInv, NEW c \in Clients, Leave(c) PROVE OrderInv'
<1>1. PICK how \in {"closed", "reset"} : sock' = [sock EXCEPT ![at[c]].peer = how]
  BY DEF Leave
<1>2. /\ at[c] \in Slots /\ UNCHANGED <<backlog, slot, lastTime, lastPut, turn, ready>>
      /\ at' = [at EXCEPT ![c] = Away] /\ at \in [Clients -> Slots \cup {Away, Waiting}]
      /\ sock \in [Slots -> Socket]
  BY DEF Leave, CutOff, IInv, TypeOK, connVars, threadVars
<1>3. Waiting \notin Slots /\ Away \notin Slots
  BY SlotsFacts DEF Waiting, Away
<1>4. /\ \A s \in Slots : sock'[s].req = sock[s].req
      /\ \A s \in Slots \ {at[c]} : sock'[s] = sock[s]
      /\ sock'[at[c]].peer # "open" /\ sock[at[c]].peer = "open"
  BY <1>1, <1>2 DEF Socket, OrderInv, ConnectedOpen
<1>5. \A s \in Slots : (Doomed(s) => Doomed(s)') /\ (Leaving(s) => Leaving(s)')
  BY <1>2, <1>4 DEF Doomed, Leaving, ToBeRead
<1>6. \A s \in Slots : (Active(s)' <=> Active(s)) /\ Record(s)' = Record(s)
  BY <1>2 DEF Active, State, Record
<1>7. InLine'
  <2>1. \A i \in 1 .. Len(backlog) : backlog[i] # c /\ backlog[i] \in Clients
    <3>1. at[c] # Waiting /\ InLine
      BY <1>2, <1>3 DEF OrderInv
    <3>2. backlog \in Seq(Clients)
      BY DEF IInv, TypeOK
    <3> QED BY <3>1, <3>2, WaitingInLine
  <2> QED BY <1>2, <2>1 DEF OrderInv, InLine
<1>8. ConnectedOpen' /\ RecordIsCurrent'
  <2>1. \A d \in Clients : at'[d] \in Slots => d # c /\ at'[d] = at[d] /\ at[d] # at[c]
    BY <1>2, <1>3, SlotOfOne DEF OrderInv
  <2> QED BY <1>2, <1>4, <1>6, <2>1 DEF OrderInv, ConnectedOpen, RecordIsCurrent
<1>9. AbandonedKnown'
  <2>1. \A s \in Slots : Record(s) \in Clients
    BY DEF IInv, TypeOK, Record
  <2>2. \A s \in Slots \ {at[c]} : at'[Record(s)] # s => at[Record(s)] # s
    BY <1>2, <2>1
  <2> QED BY <1>4, <1>6, <2>2 DEF OrderInv, AbandonedKnown
<1> QED BY <1>2, <1>5, <1>7, <1>8, <1>9, WorldSockets

LEMMA ResetOrder ==
  ASSUME IInv, OrderInv, NEW s \in Slots, ResetArrives(s) PROVE OrderInv'
<1>1. /\ \A c \in Clients : at[c] # s
      /\ sock' = [sock EXCEPT ![s].peer = "reset"] /\ sock \in [Slots -> Socket]
      /\ UNCHANGED <<at, backlog, slot, lastTime, lastPut, turn, ready>>
  BY DEF ResetArrives, IInv, TypeOK, connVars, traceVars, threadVars
<1>2. sock[s].peer # "open"
  <2>1. Active(s) /\ Record(s) \in Clients
    BY DEF ResetArrives, IInv, TypeOK, Record
  <2> QED BY <1>1, <2>1 DEF OrderInv, AbandonedKnown
<1>3. /\ \A r \in Slots : sock'[r].req = sock[r].req
      /\ \A r \in Slots \ {s} : sock'[r] = sock[r]
      /\ sock'[s].peer # "open"
  BY <1>1 DEF Socket
<1>4. \A r \in Slots : (Doomed(r) => Doomed(r)') /\ (Leaving(r) => Leaving(r)')
  BY <1>1, <1>2, <1>3 DEF Doomed, Leaving, ToBeRead
<1>5. \A r \in Slots : (Active(r)' <=> Active(r)) /\ Record(r)' = Record(r)
  BY <1>1 DEF Active, State, Record
<1>6. InLine' /\ RecordIsCurrent'
  BY <1>1, <1>5 DEF OrderInv, InLine, RecordIsCurrent
<1>7. ConnectedOpen' /\ AbandonedKnown'
  BY <1>1, <1>3, <1>5 DEF OrderInv, ConnectedOpen, AbandonedKnown
<1> QED BY <1>1, <1>4, <1>6, <1>7, WorldSockets

LEMMA WorldOrder ==
  ASSUME IInv, OrderInv, ~SilentDrops, WorldNext PROVE OrderInv'
<1>1. CASE PacketArrives
  <2>1. UNCHANGED <<sock, at, backlog, slot, lastTime, lastPut, turn, ready>>
    BY <1>1 DEF PacketArrives, netVars, connVars, traceVars, threadVars
  <2>2. \A s \in Slots : (Doomed(s) => Doomed(s)') /\ (Leaving(s) => Leaving(s)')
    BY <2>1 DEF Doomed, Leaving, ToBeRead
  <2>3. InLine' /\ ConnectedOpen' /\ AbandonedKnown' /\ RecordIsCurrent'
    BY <2>1 DEF OrderInv, InLine, ConnectedOpen, AbandonedKnown, RecordIsCurrent, Active,
                State, Record
  <2> QED BY <2>1, <2>2, <2>3, WorldSockets
<1>2. ASSUME NEW c \in Clients, DropSilently(c) PROVE OrderInv'
  BY <1>2 DEF DropSilently
<1> QED
  BY <1>1, <1>2, DialOrder, RequestOrder, LeaveOrder, ResetOrder DEF WorldNext

-----------------------------------------------------------------------------
(* The thread.                                                             *)

(* A doomed slot that is read is shut down, so whatever is put on a send   *)
(* ring is for the connection that the history record is about.            *)
LEMMA ReadOrder ==
  ASSUME IInv, OrderInv, NEW s \in Slots, turn = <<"read", s>>, Active(s),
         AfterRead(s) # "shutdown", GoOnToWrite(s), sock' = Consumed(s), at' = at,
         \A r \in Slots : (Active(r)' <=> Active(r)) /\ Record(r)' = Record(r)
  PROVE  /\ ~Doomed(s) /\ lastPut[s] = lastTime[Record(s)]
         /\ \A r \in Slots \ {s} : Doomed(r) => Doomed(r)'
         /\ InLine' /\ ConnectedOpen' /\ AbandonedKnown' /\ OneAlive' /\ NextIsFree'
<1>1. turn' = <<"write", s>> /\ UNCHANGED <<backlog, ready>>
  BY DEF GoOnToWrite
<1>2. sock \in [Slots -> Socket]
  BY DEF IInv, TypeOK
<1>3. /\ \A r \in Slots : sock'[r].peer = sock[r].peer
      /\ \A r \in Slots \ {s} : sock'[r] = sock[r]
      /\ s \in ready => sock'[s].req = "none"
  BY <1>2 DEF Consumed, Socket
<1>4. ToBeRead(s) /\ ~ToBeRead(s)' /\ \A r \in Slots \ {s} : ToBeRead(r)' <=> ToBeRead(r)
  BY <1>1, ReadMoves
<1>5. ~Doomed(s)
  <2>1. sock[s].peer \in {"open", "closed", "reset"}
    BY <1>2 DEF Socket
  <2> QED BY <1>4, <2>1 DEF Doomed, AfterRead
<1>6. lastPut[s] = lastTime[Record(s)]
  BY <1>5 DEF OrderInv, RecordFollows
<1>7. \A r \in Slots \ {s} : (Doomed(r)' <=> Doomed(r)) /\ (Leaving(r)' <=> Leaving(r))
  BY <1>1, <1>3, <1>4 DEF Doomed, Leaving
<1>8. Leaving(s) => Leaving(s)'
  BY <1>3, <1>4 DEF Leaving
<1>9. InLine' /\ ConnectedOpen' /\ AbandonedKnown'
  BY <1>1, <1>3 DEF OrderInv, InLine, ConnectedOpen, AbandonedKnown
<1>10. OneAlive'
  BY <1>5, <1>7 DEF OrderInv, OneAlive
<1>11. NextIsFree'
  <2>1. turn[1] = "read"
    OBVIOUS
  <2>2. \A r \in Slots : Leaving(r) => Leaving(r)'
    BY <1>7, <1>8
  <2> QED BY <1>1, <2>1, <2>2 DEF OrderInv, NextIsFree
<1> QED BY <1>5, <1>6, <1>7, <1>9, <1>10, <1>11

LEMMA ServeOrder ==
  ASSUME IInv, OrderInv, NEW s \in Slots, PutChannelData(s) \/ WaitForRequest(s)
  PROVE  OrderInv'
<1>1. /\ turn = <<"read", s>> /\ Active(s) /\ AfterRead(s) # "shutdown" /\ GoOnToWrite(s)
      /\ sock' = Consumed(s) /\ UNCHANGED <<at, lastTime, lastPut>>
  BY DEF PutChannelData, WaitForRequest, At, traceVars
<1>2. \A r \in Slots : (Active(r)' <=> Active(r)) /\ Record(r)' = Record(r)
  <2>1. slot \in [Slots -> SlotRecord]
    BY DEF IInv, TypeOK, SlotRecord
  <2>2. \/ \E st \in {"sendadc", "sendchan", "shutdown"} :
               slot' = [slot EXCEPT ![s].state = st]
        \/ slot' = [slot EXCEPT ![s].idle = @ - 1]
    BY DEF PutChannelData, WaitForRequest
  <2> QED BY <1>1, <2>1, <2>2 DEF Active, State, Record, SlotRecord
<1>3. /\ ~Doomed(s) /\ lastPut[s] = lastTime[Record(s)]
      /\ \A r \in Slots \ {s} : Doomed(r) => Doomed(r)'
      /\ InLine' /\ ConnectedOpen' /\ AbandonedKnown' /\ OneAlive' /\ NextIsFree'
  BY <1>1, <1>2, ReadOrder
<1>4. RecordIsCurrent' /\ RecordFollows'
  BY <1>1, <1>2, <1>3 DEF OrderInv, RecordIsCurrent, RecordFollows
<1> QED BY <1>3, <1>4 DEF OrderInv

LEMMA PutOrder ==
  ASSUME IInv, OrderInv, NEW s \in Slots, PutAdcData(s)
  PROVE  OrderInv' /\ lastPut[s] = lastTime[Record(s)]
<1>1. /\ turn = <<"read", s>> /\ Active(s) /\ AfterRead(s) # "shutdown" /\ GoOnToWrite(s)
      /\ sock' = Consumed(s) /\ UNCHANGED <<at, slot>>
  BY DEF PutAdcData, At
<1>2. \A r \in Slots : (Active(r)' <=> Active(r)) /\ Record(r)' = Record(r)
                       /\ Record(r) \in Clients
  BY <1>1 DEF Active, State, Record, IInv, TypeOK
<1>3. /\ ~Doomed(s) /\ lastPut[s] = lastTime[Record(s)]
      /\ \A r \in Slots \ {s} : Doomed(r) => Doomed(r)'
      /\ InLine' /\ ConnectedOpen' /\ AbandonedKnown' /\ OneAlive' /\ NextIsFree'
  BY <1>1, <1>2, ReadOrder
<1>4. /\ lastTime'[Record(s)] = lastPut'[s]
      /\ \A r \in Slots \ {s} : lastPut'[r] = lastPut[r]
      /\ \A c \in Clients \ {Record(s)} : lastTime'[c] = lastTime[c]
  <2>1. lastTime \in [Clients -> 0 .. MaxTime] /\ lastPut \in [Slots -> 0 .. MaxTime]
    BY DEF IInv, TypeOK
  <2>2. \/ UNCHANGED <<lastTime, lastPut>>
        \/ \E t \in cache : /\ lastTime' = [lastTime EXCEPT ![Record(s)] = t]
                             /\ lastPut' = [lastPut EXCEPT ![s] = t]
    BY PutAdcDataPuts DEF IInv
  <2> QED BY <1>2, <1>3, <2>1, <2>2
<1>5. \A r \in Slots \ {s} : Active(r) /\ Record(r) = Record(s) => Doomed(r)
  BY <1>1, <1>3 DEF OrderInv, OneAlive
<1>6. RecordFollows'
  BY <1>2, <1>3, <1>4, <1>5 DEF OrderInv, RecordFollows
<1>7. RecordIsCurrent'
  <2> SUFFICES ASSUME NEW c \in Clients, at[c] \in Slots
               PROVE  Active(at[c])' /\ Record(at[c])' = c /\ lastTime'[c] = lastPut'[at[c]]
    BY <1>1 DEF RecordIsCurrent
  <2>1. Active(at[c]) /\ Record(at[c]) = c /\ lastTime[c] = lastPut[at[c]]
    BY DEF OrderInv, RecordIsCurrent
  <2>2. sock[at[c]].peer = "open"
    BY DEF OrderInv, ConnectedOpen
  <2>3. c = Record(s) => at[c] = s
    BY <1>5, <2>1, <2>2 DEF Doomed
  <2>4. at'[c] = at[c] /\ (Active(at[c])' <=> Active(at[c])) /\ Record(at[c])' = Record(at[c])
    <3>1. Active(at[c])' /\ Record(at[c])' = c
      BY <1>1, <2>1 DEF Active, State, Record
    <3> QED BY <1>1, <2>1, <3>1
  <2>5. lastTime'[c] = lastPut'[at[c]]
    <3>1. CASE c = Record(s)
      BY <1>4, <2>3, <3>1
    <3>2. CASE c # Record(s)
      <4>1. at[c] # s
        BY <2>1, <3>2
      <4> QED BY <1>4, <2>1, <3>2, <4>1
    <3> QED BY <3>1, <3>2
  <2> QED BY <1>1, <2>1, <2>4, <2>5
<1> QED BY <1>3, <1>6, <1>7 DEF OrderInv

LEMMA ShutdownOrder ==
  ASSUME IInv, OrderInv, NEW s \in Slots, Shutdown(s) PROVE OrderInv' /\ ~Active(s)'
<1>1. /\ turn = <<"read", s>> /\ turn' = <<"write", s>>
      /\ UNCHANGED <<backlog, ready, lastTime>>
      /\ slot' = [slot EXCEPT ![s].state = "inactive"] /\ slot \in [Slots -> SlotRecord]
      /\ sock' = [sock EXCEPT ![s] = NewSocket] /\ sock \in [Slots -> Socket]
      /\ at' = [c \in Clients |-> IF at[c] = s THEN Away ELSE at[c]]
      /\ lastPut' = [lastPut EXCEPT ![s] = 0] /\ lastPut \in [Slots -> 0 .. MaxTime]
  BY DEF Shutdown, GoOnToWrite, At, IInv, TypeOK, SlotRecord
<1>2. Waiting \notin Slots /\ Away \notin Slots
  BY SlotsFacts DEF Waiting, Away
<1>3. /\ ~Active(s)'
      /\ \A r \in Slots \ {s} : (Active(r)' <=> Active(r)) /\ Record(r)' = Record(r)
                                /\ sock'[r] = sock[r] /\ lastPut'[r] = lastPut[r]
  BY <1>1 DEF Active, State, Record, SlotRecord
<1>4. \A r \in Slots \ {s} : (Doomed(r)' <=> Doomed(r)) /\ (Leaving(r)' <=> Leaving(r))
  <2>1. \A r \in Slots \ {s} : ToBeRead(r)' <=> ToBeRead(r)
    BY <1>1, ReadMoves
  <2> QED BY <1>1, <1>3, <2>1 DEF Doomed, Leaving
<1>5. \A c \in Clients : at'[c] \in Slots => at[c] \in Slots \ {s} /\ at'[c] = at[c]
  BY <1>1, <1>2
<1>6. InLine'
  <2>1. \A i \in 1 .. Len(backlog) : backlog[i] \in Clients
    BY DEF IInv, TypeOK
  <2> QED BY <1>1, <1>2, <2>1 DEF OrderInv, InLine
<1>7. ConnectedOpen' /\ RecordIsCurrent'
  BY <1>1, <1>3, <1>5 DEF OrderInv, ConnectedOpen, RecordIsCurrent
<1>8. AbandonedKnown'
  <2>1. \A r \in Slots : Record(r) \in Clients
    BY DEF IInv, TypeOK, Record
  <2>2. \A r \in Slots \ {s} : at'[Record(r)] # r => at[Record(r)] # r
    BY <1>1, <2>1
  <2> QED BY <1>3, <2>2 DEF OrderInv, AbandonedKnown
<1>9. RecordFollows' /\ OneAlive'
  BY <1>1, <1>3, <1>4 DEF OrderInv, RecordFollows, OneAlive
<1>10. NextIsFree'
  BY <1>1, <1>3, <1>4 DEF OrderInv, NextIsFree
<1> QED BY <1>3, <1>6, <1>7, <1>8, <1>9, <1>10 DEF OrderInv

LEMMA WriteOrder ==
  ASSUME IInv, OrderInv, NEW s \in Slots, Write(s) \/ WriteFails(s) \/ SkipInactive(s)
  PROVE  OrderInv'
<1>1. UNCHANGED <<sock, at, backlog, slot, lastTime, lastPut, ready>>
  BY DEF Write, WriteFails, SkipInactive, netVars, connVars, traceVars
<1>2. \A r \in Slots : Active(r) => (ToBeRead(r)' <=> ToBeRead(r))
  <2>1. CASE WriteFails(s)
    BY <2>1 DEF WriteFails, ToBeRead
  <2>2. CASE Write(s)
    <3>1. turn = <<"write", s>> /\ turn' = AfterSlot(s)
      BY <2>2 DEF Write, At
    <3>2. ~ToBeRead(s)
      BY <3>1, SlotsFacts DEF ToBeRead
    <3>3. ~ToBeRead(s)'
      BY <3>1, SlotsFacts DEF ToBeRead, AfterSlot
    <3> QED BY <3>1, <3>2, <3>3, SlotMoves
  <2>3. CASE SkipInactive(s)
    BY <2>3, SlotMoves DEF SkipInactive, At
  <2> QED BY <2>1, <2>2, <2>3
<1>3. \A r \in Slots : /\ (Active(r)' <=> Active(r)) /\ Record(r)' = Record(r)
                       /\ Active(r) => (Doomed(r)' <=> Doomed(r)) /\ (Leaving(r)' <=> Leaving(r))
  BY <1>1, <1>2 DEF Active, State, Record, Doomed, Leaving
<1>4. InLine' /\ ConnectedOpen' /\ AbandonedKnown' /\ RecordIsCurrent'
  BY <1>1, <1>3 DEF OrderInv, InLine, ConnectedOpen, AbandonedKnown, RecordIsCurrent
<1>5. RecordFollows' /\ OneAlive'
  BY <1>1, <1>3 DEF OrderInv, RecordFollows, OneAlive
<1>6. NextIsFree'
  <2>1. turn[1] \in {"read", "write", "accept"}
    BY DEF Write, WriteFails, SkipInactive, At
  <2> QED BY <1>1, <1>3, <2>1 DEF OrderInv, NextIsFree
<1> QED BY <1>4, <1>5, <1>6 DEF OrderInv

(* Select hears of every connection that ended.                            *)
LEMMA SelectOrder ==
  ASSUME IInv, OrderInv, Select PROVE OrderInv'
<1>1. /\ turn = <<"select", 0>> /\ turn' = <<"read", 1>>
      /\ ready' = {s \in Slots : Readable(s)} \cup (IF backlog = << >> THEN {} ELSE {0})
      /\ UNCHANGED <<sock, at, backlog, slot, lastTime, lastPut>>
  BY DEF Select, At, netVars, connVars, traceVars
<1>2. \A r \in Slots : ToBeRead(r)' /\ (Active(r)' <=> Active(r)) /\ Record(r)' = Record(r)
                       /\ sock'[r] = sock[r]
  <2>1. \A r \in Slots : 1 <= r
    BY DEF Slots
  <2> QED BY <1>1, <2>1 DEF ToBeRead, Active, State, Record
<1>3. \A r \in Slots : Active(r) /\ sock[r].peer # "open" => r \in ready' /\ Leaving(r)'
  BY <1>1, <1>2 DEF Readable, NewSocket, Leaving
<1>4. \A r \in Slots : Active(r) /\ Doomed(r) => Doomed(r)'
  BY <1>1, <1>2, <1>3 DEF Doomed
<1>5. InLine' /\ ConnectedOpen' /\ AbandonedKnown' /\ RecordIsCurrent'
  BY <1>1, <1>2 DEF OrderInv, InLine, ConnectedOpen, AbandonedKnown, RecordIsCurrent
<1>6. RecordFollows' /\ OneAlive'
  BY <1>1, <1>2, <1>4 DEF OrderInv, RecordFollows, OneAlive
<1>7. NextIsFree'
  <2>1. 0 \in ready' => backlog # << >>
    BY <1>1, SlotsFacts
  <2>2. ASSUME backlog # << >>, NEW r \in Slots, Active(r), Record(r) = Head(backlog)
        PROVE  Leaving(r)'
    <3>1. at[Record(r)] # r
      BY <2>2, HeadWaits DEF OrderInv
    <3> QED BY <1>3, <2>2, <3>1 DEF OrderInv, AbandonedKnown
  <2> QED BY <1>1, <1>2, <2>1, <2>2 DEF NextIsFree
<1> QED BY <1>5, <1>6, <1>7 DEF OrderInv

LEMMA ExpireOrder ==
  ASSUME IInv, OrderInv, NoneToAccept \/ Expire PROVE OrderInv'
<1>1. /\ turn \in {<<"accept", 0>>, <<"expire", 0>>}
      /\ turn' \in {<<"expire", 0>>, <<"select", 0>>}
      /\ UNCHANGED <<sock, at, backlog, slot, lastTime, lastPut>>
  BY DEF NoneToAccept, Expire, At, netVars, connVars, traceVars
<1>2. \A r \in Slots : (Active(r)' <=> Active(r)) /\ Record(r)' = Record(r)
                       /\ (Doomed(r)' <=> Doomed(r))
  BY <1>1 DEF ToBeRead, Active, State, Record, Doomed
<1>3. InLine' /\ ConnectedOpen' /\ AbandonedKnown' /\ RecordIsCurrent'
  BY <1>1, <1>2 DEF OrderInv, InLine, ConnectedOpen, AbandonedKnown, RecordIsCurrent
<1>4. RecordFollows' /\ OneAlive'
  BY <1>1, <1>2 DEF OrderInv, RecordFollows, OneAlive
<1>5. NextIsFree'
  BY <1>1 DEF NextIsFree
<1> QED BY <1>3, <1>4, <1>5 DEF OrderInv

LEMMA TailInLine ==
  ASSUME IInv, InLine, backlog # << >>, backlog' = Tail(backlog),
         \A c \in Clients \ {Head(backlog)} : at'[c] = at[c]
  PROVE  InLine'
<1>1. /\ backlog \in Seq(Clients) /\ Head(backlog) = backlog[1] /\ Len(backlog) \in Nat
      /\ Len(Tail(backlog)) = Len(backlog) - 1 /\ 1 \in 1 .. Len(backlog)
      /\ \A i \in 1 .. Len(Tail(backlog)) : Tail(backlog)[i] = backlog[i + 1]
  BY HeadTailProperties DEF IInv, TypeOK
<1>2. \A i \in 1 .. Len(backlog') :
        i + 1 \in 1 .. Len(backlog) /\ i + 1 # 1 /\ backlog'[i] = backlog[i + 1]
  BY <1>1
<1>3. \A i \in 1 .. Len(backlog') : backlog'[i] \in Clients \ {Head(backlog)}
  BY <1>1, <1>2 DEF InLine
<1>4. \A i \in 1 .. Len(backlog') : at'[backlog'[i]] = Waiting
  BY <1>2, <1>3 DEF InLine
<1>5. ASSUME NEW i \in 1 .. Len(backlog'), NEW j \in 1 .. Len(backlog'),
             backlog'[i] = backlog'[j]
      PROVE  i = j
  <2>1. i + 1 = j + 1
    BY <1>2, <1>5 DEF InLine
  <2> QED BY <2>1
<1> QED BY <1>4, <1>5 DEF InLine

(* The slots that refer to the record that accept resets are doomed.       *)
LEMMA AcceptOrder ==
  ASSUME IInv, OrderInv, Accept PROVE OrderInv' /\ \E s \in Slots : ~Active(s) /\
           \A r \in Slots \ {s} : lastPut'[r] = lastPut[r]
<1>1. PICK c \in Clients, s \in Slots, from \in 0 .. MaxTime :
            /\ c = Head(backlog) /\ ~Active(s) /\ SetUp(c, s, from)
            /\ from \in {0, Rewound(lastTime[c])}
            /\ known' \in SUBSET Clients /\ backlog' = Tail(backlog)
            /\ turn = <<"accept", 0>> /\ 0 \in ready /\ turn' = <<"expire", 0>>
            /\ UNCHANGED <<cache, clock, ready, exited>>
  BY AcceptSetsUp
<1>2. /\ slot' = [slot EXCEPT ![s] = [state |-> "init", client |-> c, idle |-> IdleTimeout]]
      /\ sock' = [sock EXCEPT ![s] = NewSocket]
      /\ lastTime' = [lastTime EXCEPT ![c] = from]
      /\ at' = [at EXCEPT ![c] = s]
      /\ lastPut' = [lastPut EXCEPT ![s] = from]
  BY <1>1 DEF SetUp
<1>3. /\ slot \in [Slots -> SlotRecord] /\ sock \in [Slots -> Socket]
      /\ lastTime \in [Clients -> 0 .. MaxTime] /\ lastPut \in [Slots -> 0 .. MaxTime]
      /\ at \in [Clients -> Slots \cup {Away, Waiting}]
  BY DEF IInv, TypeOK, SlotRecord
<1>4. backlog # << >> /\ at[c] = Waiting /\ Waiting \notin Slots /\ Away \notin Slots
  BY <1>1, FirstInLine, HeadWaits DEF OrderInv
<1>5. /\ Active(s)' /\ Record(s)' = c /\ sock'[s].peer = "open"
      /\ at'[c] = s /\ lastTime'[c] = from /\ lastPut'[s] = from
      /\ \A d \in Clients \ {c} : at'[d] = at[d] /\ lastTime'[d] = lastTime[d]
  BY <1>2, <1>3 DEF Active, State, Record, NewSocket
<1>6. \A r \in Slots \ {s} : /\ (Active(r)' <=> Active(r)) /\ Record(r)' = Record(r)
                             /\ sock'[r] = sock[r] /\ lastPut'[r] = lastPut[r]
                             /\ Record(r) \in Clients
  BY <1>2, <1>3 DEF Active, State, Record, SlotRecord
<1>7. \A r \in Slots : ~ToBeRead(r) /\ ~ToBeRead(r)'
  BY <1>1 DEF ToBeRead
<1>8. \A r \in Slots \ {s} : Doomed(r)' <=> Doomed(r)
  BY <1>6, <1>7 DEF Doomed
<1>9. \A r \in Slots \ {s} : Active(r) /\ Record(r) = c => Doomed(r)
  <2>1. turn[1] \in {"read", "write", "accept"}
    BY <1>1
  <2>2. \A r \in Slots : Active(r) /\ Record(r) = c => Leaving(r)
    BY <1>1, <2>1 DEF OrderInv, NextIsFree
  <2> QED BY <1>7, <2>2 DEF Leaving, Doomed
<1>10. InLine'
  BY <1>1, <1>4, <1>5, TailInLine DEF OrderInv
<1>11. ConnectedOpen' /\ RecordIsCurrent'
  <2>1. \A d \in Clients \ {c} : at[d] \in Slots => at[d] # s
    BY <1>1 DEF OrderInv, RecordIsCurrent
  <2>2. ConnectedOpen'
    <3>1. \A d \in Clients \ {c} : at'[d] \in Slots => sock'[at'[d]] = sock[at[d]]
      BY <1>5, <1>6, <2>1
    <3> QED BY <1>5, <3>1 DEF OrderInv, ConnectedOpen
  <2>3. RecordIsCurrent'
    <3>1. ASSUME NEW d \in Clients \ {c}, at[d] \in Slots
          PROVE  slot'[at[d]] = slot[at[d]] /\ lastPut'[at[d]] = lastPut[at[d]]
      BY <1>2, <1>3, <2>1, <3>1
    <3>2. ASSUME NEW d \in Clients \ {c}, at'[d] \in Slots
          PROVE  slot'[at'[d]].state # "inactive" /\ slot'[at'[d]].client = d
                 /\ lastTime'[d] = lastPut'[at'[d]]
      BY <1>5, <3>1, <3>2 DEF OrderInv, RecordIsCurrent, Active, State, Record
    <3> QED BY <1>5, <3>2 DEF RecordIsCurrent, Active, State, Record
  <2> QED BY <2>2, <2>3
<1>12. AbandonedKnown'
  <2>1. ASSUME NEW r \in Slots, Active(r)', at'[Record(r)'] # r PROVE sock'[r].peer # "open"
    <3>1. r # s
      BY <1>5, <2>1
    <3>2. at[Record(r)] # r
      BY <1>4, <1>5, <1>6, <2>1, <3>1
    <3> QED BY <1>6, <2>1, <3>1, <3>2 DEF OrderInv, AbandonedKnown
  <2> QED BY <2>1 DEF AbandonedKnown
<1>13. RecordFollows'
  <2>1. ASSUME NEW r \in Slots \ {s}, Active(r)
        PROVE  lastPut'[r] = lastTime'[Record(r)] \/ Doomed(r)'
    <3>1. CASE Record(r) = c
      BY <1>8, <1>9, <2>1, <3>1
    <3>2. CASE Record(r) # c
      BY <1>5, <1>6, <1>8, <2>1, <3>2 DEF OrderInv, RecordFollows
    <3> QED BY <3>1, <3>2
  <2> QED BY <1>5, <1>6, <2>1 DEF RecordFollows
<1>14. OneAlive'
  BY <1>5, <1>6, <1>8, <1>9 DEF OrderInv, OneAlive
<1>15. NextIsFree'
  BY <1>1 DEF NextIsFree
<1> QED BY <1>1, <1>6, <1>10, <1>11, <1>12, <1>13, <1>14, <1>15 DEF OrderInv

LEMMA RefuseOrder ==
  ASSUME IInv, OrderInv, Refuse PROVE OrderInv'
<1>1. /\ turn = <<"accept", 0>> /\ turn' = <<"expire", 0>> /\ 0 \in ready
      /\ at' = [at EXCEPT ![Head(backlog)] = Away] /\ backlog' = Tail(backlog)
      /\ at \in [Clients -> Slots \cup {Away, Waiting}]
      /\ UNCHANGED <<sock, slot, lastTime, lastPut, ready>>
  BY DEF Refuse, At, IInv, TypeOK, connVars, traceVars
<1>2. backlog # << >> /\ Head(backlog) \in Clients /\ at[Head(backlog)] = Waiting
      /\ Waiting \notin Slots /\ Away \notin Slots
  BY <1>1, FirstInLine, HeadWaits DEF OrderInv
<1>3. \A r \in Slots : /\ (Active(r)' <=> Active(r)) /\ Record(r)' = Record(r)
                       /\ (Doomed(r)' <=> Doomed(r)) /\ Record(r) \in Clients
  BY <1>1 DEF ToBeRead, Active, State, Record, Doomed, IInv, TypeOK
<1>4. InLine'
  BY <1>1, <1>2, TailInLine DEF OrderInv
<1>5. ConnectedOpen' /\ RecordIsCurrent'
  BY <1>1, <1>2, <1>3 DEF OrderInv, ConnectedOpen, RecordIsCurrent
<1>6. AbandonedKnown'
  <2>1. \A r \in Slots : at'[Record(r)] # r => at[Record(r)] # r
    BY <1>1, <1>2, <1>3
  <2> QED BY <1>1, <1>3, <2>1 DEF OrderInv, AbandonedKnown
<1>7. RecordFollows' /\ OneAlive'
  BY <1>1, <1>3 DEF OrderInv, RecordFollows, OneAlive
<1>8. NextIsFree'
  BY <1>1 DEF NextIsFree
<1> QED BY <1>4, <1>5, <1>6, <1>7, <1>8 DEF OrderInv

LEMMA CloseAllOrder ==
  ASSUME IInv, CloseAll PROVE OrderInv' /\ \A s \in Slots : ~Active(s)'
<1>0. \A s \in Slots : ~Active(s)'
  <2>1. slot \in [Slots -> SlotRecord]
    BY DEF IInv, TypeOK, SlotRecord
  <2>2. slot' = [s \in Slots |-> [slot[s] EXCEPT !.state = "inactive"]]
    BY DEF CloseAll
  <2> QED BY <2>1, <2>2 DEF SlotRecord, Active, State
<1>1. /\ \A c \in Clients : at'[c] \notin Slots
      /\ backlog' = << >> /\ turn' = <<"select", 0>>
  BY SlotsFacts DEF CloseAll, Away, At, threadVars
<1>2. InLine'
  BY <1>1 DEF InLine
<1> QED
  BY <1>0, <1>1, <1>2 DEF OrderInv, ConnectedOpen, AbandonedKnown, RecordIsCurrent, RecordFollows,
                    OneAlive, NextIsFree

LEMMA NextOrder == ~SilentDrops /\ IInv /\ OrderInv /\ [Next]_vars => OrderInv'
<1> SUFFICES ASSUME ~SilentDrops, IInv, OrderInv, [Next]_vars PROVE OrderInv'
  OBVIOUS
<1>1. CASE WorldNext
  BY <1>1, WorldOrder
<1>2. ASSUME NEW s \in Slots, ServiceConnection(s) PROVE OrderInv'
  BY <1>2, ShutdownOrder, ServeOrder, PutOrder, WriteOrder DEF ServiceConnection
<1>3. CASE Select \/ NoneToAccept \/ Accept \/ Refuse \/ Expire
  BY <1>3, SelectOrder, ExpireOrder, AcceptOrder, RefuseOrder
<1>4. CASE CloseAll
  BY <1>4, CloseAllOrder
<1>5. CASE UNCHANGED vars
  <2>1. UNCHANGED <<sock, at, backlog, slot, lastTime, lastPut, turn, ready>>
    BY <1>5 DEF vars, netVars, connVars, traceVars, threadVars
  <2>2. \A s \in Slots : (Doomed(s) => Doomed(s)') /\ (Leaving(s) => Leaving(s)')
    BY <2>1 DEF Doomed, Leaving, ToBeRead
  <2>3. InLine' /\ ConnectedOpen' /\ AbandonedKnown' /\ RecordIsCurrent'
    BY <2>1 DEF OrderInv, InLine, ConnectedOpen, AbandonedKnown, RecordIsCurrent, Active,
                State, Record
  <2> QED BY <2>1, <2>2, <2>3, WorldSockets
<1> QED BY <1>1, <1>2, <1>3, <1>4, <1>5 DEF Next, PassNext

-----------------------------------------------------------------------------
(* The only steps that change the last packet put for a connection are the *)
(* ones of put_adc_data, which takes the next packet of the data ring.     *)
LEMMA StepNoGap ==
  ASSUME IInv, OrderInv, [Next]_vars, NEW s \in Slots,
         Active(s), Active(s)', lastPut'[s] # lastPut[s]
  PROVE  lastPut'[s] > lastPut[s] /\ \A u \in cache : ~(lastPut[s] < u /\ u < lastPut'[s])
<1>1. CASE PutAdcData(s)
  <2>1. lastPut[s] = lastTime[Record(s)]
    BY <1>1, PutOrder
  <2>2. lastPut \in [Slots -> 0 .. MaxTime] /\ cache \subseteq Int /\ MaxTime \in Nat
    BY ParameterAssumption DEF IInv, TypeOK
  <2>3. PICK t \in cache : /\ t > lastPut[s] /\ lastPut' = [lastPut EXCEPT ![s] = t]
                           /\ \A u \in cache : u > lastPut[s] => t <= u
    BY <1>1, <2>1, PutAdcDataPuts DEF IInv
  <2>4. lastPut'[s] = t /\ lastPut[s] \in 0 .. MaxTime
    BY <2>2, <2>3
  <2> QED BY <2>2, <2>3, <2>4
<1>2. ASSUME NEW r \in Slots, ServiceConnection(r) PROVE PutAdcData(s)
  <2>1. lastPut \in [Slots -> 0 .. MaxTime]
    BY DEF IInv, TypeOK
  <2>2. CASE Shutdown(r)
    <3>1. lastPut' = [lastPut EXCEPT ![r] = 0]
      BY <2>2 DEF Shutdown
    <3>2. r = s
      BY <2>1, <3>1
    <3> QED BY <2>2, <3>2, ShutdownOrder
  <2>3. CASE PutAdcData(r)
    <3>1. UNCHANGED lastPut \/ \E t \in cache : lastPut' = [lastPut EXCEPT ![r] = t]
      BY <2>3, PutAdcDataPuts DEF IInv
    <3>2. r = s
      BY <2>1, <3>1
    <3> QED BY <2>3, <3>2
  <2> QED BY <1>2, <2>2, <2>3 DEF ServiceConnection, SkipInactive, PutChannelData,
             WaitForRequest, Write, WriteFails, traceVars
<1>3. CASE Accept
  BY <1>3, AcceptOrder
<1>4. CASE CloseAll
  BY <1>4, CloseAllOrder
<1>5. CASE WorldNext \/ Select \/ NoneToAccept \/ Refuse \/ Expire \/ UNCHANGED vars
  <2>1. UNCHANGED lastPut
    BY <1>5 DEF WorldNext, PacketArrives, Dial, Request, Leave, DropSilently, CutOff,
                ResetArrives, Select, NoneToAccept, Refuse, Expire, vars, traceVars
  <2> QED BY <2>1
<1> QED BY <1>1, <1>2, <1>3, <1>4, <1>5 DEF Next, PassNext

(* The history record of a connected client is about its connection, even  *)
(* while the thread still serves an older one of the same address.         *)
THEOREM RecordsCurrent == ~SilentDrops => (Spec => []RecordIsCurrent)
<1> SUFFICES ASSUME ~SilentDrops PROVE Spec => []RecordIsCurrent
  OBVIOUS
<1>1. Init => IInv /\ OrderInv
  BY InitIInv, InitOrder
<1>2. IInv /\ OrderInv /\ [Next]_vars => IInv' /\ OrderInv'
  BY NextIInv, NextOrder
<1>3. OrderInv => RecordIsCurrent
  BY DEF OrderInv
<1> QED BY <1>1, <1>2, <1>3, PTL DEF Spec

(* A connected client gets the packets of the data ring in order, and none *)
(* is left out from the time it resumes at.                                *)
THEOREM NoneLeftOut == ~SilentDrops => (Spec => NoGap)
<1> SUFFICES ASSUME ~SilentDrops PROVE Spec => NoGap
  OBVIOUS
<1>1. Init => IInv /\ OrderInv
  BY InitIInv, InitOrder
<1>2. IInv /\ OrderInv /\ [Next]_vars => IInv' /\ OrderInv'
  BY NextIInv, NextOrder
<1>3. IInv /\ OrderInv /\ [Next]_vars =>
        [\A s \in Slots : Active(s) /\ Active(s)' /\ lastPut'[s] # lastPut[s] =>
           /\ lastPut'[s] > lastPut[s]
           /\ \A u \in cache : ~(lastPut[s] < u /\ u < lastPut'[s])]_vars
  BY StepNoGap
<1> QED BY <1>1, <1>2, <1>3, PTL DEF Spec, NoGap

-----------------------------------------------------------------------------
(***************************************************************************)
(* A client that comes back continues where it stopped.                    *)
(*                                                                         *)
(* When a client leaves, the thread may go on putting packets for it: one  *)
(* if it is still to come to that slot in this pass, without select having *)
(* heard of the end, and one more if a request is to be read before the    *)
(* end is.  Their times are on the record.  If there is room for the       *)
(* first, the send ring was empty, and the client had got all before it;   *)
(* so there is never more than one packet between what a client has got    *)
(* and what its record says, and an overlap of two packets makes up for    *)
(* it, in seconds with the longest gap between two packets.                *)
(***************************************************************************)

(* How many packets may still be put for the slot, its client being gone.  *)
Left(s) ==
    (IF ToBeRead(s) /\ s \notin ready /\ pending[s] = 0 THEN 1 ELSE 0)
        + (IF sock[s].req = "numbered" THEN 1 ELSE 0)

(* From a packet of the data ring to the next, no more are missing than    *)
(* the remote server leaves out, and no record is ahead of the data ring.  *)
CacheRuns ==
    /\ \A u \in cache : u < clock => \E v \in cache : u < v /\ v <= u + 1 + MaxGap
    /\ \A c \in Clients : lastTime[c] <= clock

(* How far a record may be ahead of a packet that its client has not got:  *)
(* by one packet, or by none or behind it if one or two may still be put.  *)
Ahead(n) == IF n = 0 THEN 1 + MaxGap ELSE 1 - n

StopsNear(c) ==
    at[c] \notin Slots =>
        \A u \in cache : stopped[c] < u =>
            /\ lastTime[c] <= u + Ahead(0)
            /\ \A s \in Slots :
                  Active(s) /\ Record(s) = c => lastTime[c] <= u + Ahead(Left(s))

ResumeInv == CacheRuns /\ \A c \in Clients : StopsNear(c)

LEMMA AheadFalls ==
  /\ \A n \in 0 .. 2 : Ahead(n) \in Int /\ Ahead(n) <= Ahead(0)
  /\ \A n, m \in 0 .. 2 : m <= n => Ahead(n) <= Ahead(m)
  /\ Ahead(0) = 1 + MaxGap /\ Ahead(1) = 0 /\ Ahead(2) = -1 /\ MaxGap \in Nat
<1>1. MaxGap \in Nat
  BY ParameterAssumption
<1> QED BY <1>1 DEF Ahead

LEMMA LeftRange ==
  ASSUME NEW s PROVE Left(s) \in 0 .. 2 /\ Left(s)' \in 0 .. 2
BY DEF Left

LEMMA TimesAreInts ==
  ASSUME IInv
  PROVE  /\ cache \subseteq Nat \ {0} /\ clock \in Nat /\ \A u \in cache : u <= clock
         /\ \A c \in Clients : lastTime[c] \in Nat /\ stopped[c] \in Nat
         /\ \A s \in Slots : lastPut[s] \in Nat /\ Record(s) \in Clients
<1>1. MaxTime \in Nat
  BY ParameterAssumption
<1>2. \A c \in Clients : lastTime[c] \in 0 .. MaxTime /\ stopped[c] \in 0 .. MaxTime
  BY DEF IInv, TypeOK
<1>3. \A s \in Slots : lastPut[s] \in 0 .. MaxTime /\ Record(s) \in Clients
  BY DEF IInv, TypeOK, Record
<1> QED BY <1>1, <1>2, <1>3 DEF IInv, TypeOK

LEMMA InitResume == Init => ResumeInv
<1> SUFFICES ASSUME Init PROVE ResumeInv
  OBVIOUS
<1>1. cache = {} /\ clock = 0 /\ \A c \in Clients : lastTime[c] = 0
  BY DEF Init
<1> QED BY <1>1 DEF ResumeInv, CacheRuns, StopsNear

(* Nothing changes for a client that was away before, if its record stays  *)
(* as it is and no slot has more left to put for it.                       *)
LEMMA StaysNear ==
  ASSUME IInv, NEW c \in Clients, StopsNear(c), cache' = cache,
         at'[c] \notin Slots => /\ at[c] \notin Slots
                               /\ stopped'[c] = stopped[c] /\ lastTime'[c] = lastTime[c],
         \A s \in Slots : at'[c] \notin Slots /\ Active(s)' /\ Record(s)' = c =>
             Active(s) /\ Record(s) = c /\ Left(s)' <= Left(s)
  PROVE  StopsNear(c)'
<1> SUFFICES ASSUME at'[c] \notin Slots, NEW u \in cache, stopped[c] < u
             PROVE  /\ lastTime[c] <= u + Ahead(0)
                    /\ \A s \in Slots :
                          Active(s)' /\ Record(s)' = c => lastTime[c] <= u + Ahead(Left(s)')
  BY DEF StopsNear
<1>1. lastTime[c] \in Nat /\ u \in Nat
  BY TimesAreInts
<1>2. /\ lastTime[c] <= u + Ahead(0)
      /\ \A s \in Slots : Active(s) /\ Record(s) = c => lastTime[c] <= u + Ahead(Left(s))
  BY DEF StopsNear
<1>3. ASSUME NEW s \in Slots, Active(s)', Record(s)' = c
      PROVE  lastTime[c] <= u + Ahead(Left(s)')
  <2>1. lastTime[c] <= u + Ahead(Left(s)) /\ Left(s)' <= Left(s)
    BY <1>2, <1>3
  <2>2. /\ Ahead(Left(s)) <= Ahead(Left(s)')
        /\ Ahead(Left(s)) \in Int /\ Ahead(Left(s)') \in Int
    BY <2>1, LeftRange, AheadFalls
  <2> QED BY <1>1, <2>1, <2>2
<1> QED BY <1>2, <1>3

(* Such a step of any part of the system.                                  *)
LEMMA QuietResume ==
  ASSUME IInv, ResumeInv, UNCHANGED <<cacheVars, lastTime, stopped>>,
         \A c \in Clients : at'[c] \notin Slots => at[c] \notin Slots,
         \A s \in Slots : Active(s)' /\ at'[Record(s)'] \notin Slots =>
             Active(s) /\ Record(s)' = Record(s) /\ Left(s)' <= Left(s)
  PROVE  ResumeInv'
<1>1. CacheRuns'
  BY DEF ResumeInv, CacheRuns, cacheVars
<1>2. ASSUME NEW c \in Clients PROVE StopsNear(c)'
  BY StaysNear DEF ResumeInv, cacheVars
<1> QED BY <1>1, <1>2 DEF ResumeInv

(* A new packet is ahead of every record, by as much as can be left.       *)
LEMMA ArrivalResume ==
  ASSUME IInv, ResumeInv, PacketArrives PROVE ResumeInv'
<1>1. /\ clock' \in clock + 1 .. clock + 1 + MaxGap
      /\ clock \in Nat /\ MaxGap \in Nat /\ cache \in SUBSET (1 .. clock)
      /\ cache' = {clock'} \cup cache \/ cache' = {clock'} \cup (cache \ {Oldest(cache)})
      /\ UNCHANGED <<lastTime, stopped, at, slot, pending, sock, turn, ready>>
  <2>1. cache \in SUBSET (1 .. clock)
    BY DEF IInv, TypeOK
  <2> QED BY <2>1, TimesAreInts, ParameterAssumption
      DEF PacketArrives, netVars, connVars, traceVars, threadVars
<1>2. \A c \in Clients : lastTime[c] <= clock /\ lastTime[c] \in Nat /\ stopped[c] \in Nat
  BY TimesAreInts DEF ResumeInv, CacheRuns
<1>3. ASSUME NEW u \in cache', u < clock' PROVE \E v \in cache' : u < v /\ v <= u + 1 + MaxGap
  <2>1. u \in cache /\ u \in 1 .. clock
    <3>1. clock' \in Nat
      BY <1>1
    <3>2. u # clock'
      BY <1>3, <3>1
    <3>3. u \in cache
      BY <1>1, <1>3, <3>2
    <3> QED BY <1>1, <3>3
  <2>2. CASE u = clock
    BY <1>1, <2>2
  <2>3. CASE u # clock
    <3>1. PICK v \in cache : u < v /\ v <= u + 1 + MaxGap
      BY <1>1, <2>1, <2>3 DEF ResumeInv, CacheRuns
    <3>2. Oldest(cache) <= u /\ Oldest(cache) \in 1 .. clock
      BY <1>1, <2>1, OldestIsOldest
    <3>3. v # Oldest(cache)
      BY <1>1, <2>1, <3>1, <3>2
    <3>4. v \in cache'
      BY <1>1, <3>1, <3>3
    <3> QED BY <3>1, <3>4
  <2> QED BY <2>2, <2>3
<1>4. CacheRuns'
  BY <1>1, <1>2, <1>3 DEF CacheRuns
<1>5. \A s \in Slots : (Active(s)' <=> Active(s)) /\ Record(s)' = Record(s) /\ Left(s)' = Left(s)
  BY <1>1 DEF Active, State, Record, Left, ToBeRead
<1>6. ASSUME NEW c \in Clients PROVE StopsNear(c)'
  <2> SUFFICES ASSUME at[c] \notin Slots, NEW u \in cache', stopped[c] < u
               PROVE  /\ lastTime[c] <= u + Ahead(0)
                      /\ \A s \in Slots : Active(s) /\ Record(s) = c =>
                                         lastTime[c] <= u + Ahead(Left(s))
    BY <1>1, <1>5 DEF StopsNear
  <2>1. CASE u = clock'
    <3>1. \A n \in 0 .. 2 : Ahead(n) \in Int /\ Ahead(n) >= -1
      BY AheadFalls
    <3>2. \A n \in 0 .. 2 : lastTime[c] <= u + Ahead(n)
      BY <1>1, <1>2, <2>1, <3>1
    <3> QED BY <3>2, LeftRange
  <2>2. CASE u # clock'
    <3>1. u \in cache
      BY <1>1, <2>2
    <3> QED BY <3>1 DEF ResumeInv, StopsNear
  <2> QED BY <2>1, <2>2
<1> QED BY <1>4, <1>6 DEF ResumeInv

(* The client leaves: at most two packets can still be put, and only one   *)
(* if the send ring is not empty.                                          *)
LEMMA LeaveResume ==
  ASSUME IInv, OrderInv, ResumeInv, NEW c \in Clients, Leave(c) PROVE ResumeInv'
<1>1. PICK how \in {"closed", "reset"} : sock' = [sock EXCEPT ![at[c]].peer = how]
  BY DEF Leave
<1>2. /\ at[c] \in Slots /\ at' = [at EXCEPT ![c] = Away]
      /\ stopped' = [stopped EXCEPT ![c] = LastSent(at[c])]
      /\ at \in [Clients -> Slots \cup {Away, Waiting}] /\ stopped \in [Clients -> 0 .. MaxTime]
      /\ UNCHANGED <<cache, clock, slot, pending, lastTime, turn, ready>>
      /\ sock \in [Slots -> Socket]
  BY DEF Leave, CutOff, IInv, TypeOK, cacheVars, connVars, threadVars
<1>3. \A s \in Slots : (Active(s)' <=> Active(s)) /\ Record(s)' = Record(s) /\ Left(s)' = Left(s)
  <2>1. \A s \in Slots : sock'[s].req = sock[s].req
    BY <1>1, <1>2 DEF Socket
  <2> QED BY <1>2, <2>1 DEF Active, State, Record, Left, ToBeRead
<1>4. CacheRuns'
  BY <1>2 DEF ResumeInv, CacheRuns
<1>5. ASSUME NEW d \in Clients, d # c PROVE StopsNear(d)'
  <2>1. at'[d] = at[d] /\ stopped'[d] = stopped[d] /\ lastTime' = lastTime /\ cache' = cache
    BY <1>2, <1>5
  <2>2. \A s \in Slots : Left(s)' <= Left(s)
    BY <1>3, LeftRange
  <2>3. StopsNear(d)
    BY DEF ResumeInv
  <2> QED BY <1>3, <2>1, <2>2, <2>3, StaysNear
<1>6. StopsNear(c)'
  <2> DEFINE S == at[c]
  <2>1. /\ Active(S) /\ Record(S) = c /\ lastTime[c] = lastPut[S] /\ sock[S].peer = "open"
        /\ S \in Slots
    BY <1>2 DEF OrderInv, RecordIsCurrent, ConnectedOpen
  <2>2. \A r \in Slots : Active(r) /\ Record(r) = c /\ r # S => Left(r) = 0
    <3>1. ~Doomed(S)
      BY <2>1 DEF Doomed
    <3> QED BY <2>1, <3>1 DEF OrderInv, OneAlive, Doomed, Left
  <2>3. Left(S) + (IF pending[S] > 0 THEN 1 ELSE 0) <= 2
    BY DEF Left
  <2>4. stopped'[c] = LastSent(S)
    BY <1>2
  <2> HIDE DEF S
  <2> SUFFICES ASSUME NEW u \in cache, LastSent(S) < u
               PROVE  /\ lastTime[c] <= u + Ahead(0)
                      /\ \A s \in Slots : Active(s) /\ Record(s) = c =>
                                         lastTime[c] <= u + Ahead(Left(s))
    BY <1>2, <1>3, <2>4 DEF StopsNear
  <2>5. u \in Nat /\ lastTime[c] \in Nat /\ u > 0
    BY TimesAreInts
  <2>6. IF pending[S] > 0 THEN lastTime[c] <= u ELSE lastTime[c] < u
    BY <2>1, <2>5 DEF LastSent
  <2>7. lastTime[c] <= u + Ahead(Left(S)) /\ lastTime[c] <= u + Ahead(0)
    <3>1. Left(S) \in 0 .. 2
      BY LeftRange
    <3> HIDE DEF Ahead
    <3>2. CASE pending[S] > 0
      BY <2>3, <2>5, <2>6, <3>1, <3>2, AheadFalls
    <3>3. CASE ~(pending[S] > 0)
      BY <2>5, <2>6, <3>1, <3>3, AheadFalls
    <3> QED BY <3>2, <3>3
  <2>8. ASSUME NEW r \in Slots, Active(r), Record(r) = c
        PROVE  lastTime[c] <= u + Ahead(Left(r))
    <3>1. CASE r = S
      BY <2>7, <3>1
    <3>2. CASE r # S
      <4>1. Left(r) = 0
        BY <2>2, <2>8, <3>2
      <4> QED BY <2>7, <4>1
    <3> QED BY <3>1, <3>2
  <2> QED BY <2>7, <2>8
<1> QED BY <1>4, <1>5, <1>6 DEF ResumeInv

LEMMA WorldResume ==
  ASSUME IInv, OrderInv, ResumeInv, ~SilentDrops, WorldNext PROVE ResumeInv'
<1> USE DEF cacheVars, connVars, traceVars, threadVars
<1>1. Waiting \notin Slots /\ Away \notin Slots
  BY SlotsFacts DEF Waiting, Away
<1>2. ASSUME NEW c \in Clients, Dial(c) PROVE ResumeInv'
  <2>1. /\ at' = [at EXCEPT ![c] = Waiting] /\ at[c] = Away
        /\ at \in [Clients -> Slots \cup {Away, Waiting}]
        /\ UNCHANGED <<cacheVars, lastTime, stopped, slot, sock, pending, turn, ready>>
    BY <1>2 DEF Dial, IInv, TypeOK
  <2>2. \A d \in Clients : at'[d] \notin Slots => at[d] \notin Slots
    BY <1>1, <2>1
  <2>3. \A s \in Slots : (Active(s)' <=> Active(s)) /\ Record(s)' = Record(s) /\ Left(s)' <= Left(s)
    BY <2>1, LeftRange DEF Active, State, Record, Left, ToBeRead
  <2> QED BY <2>1, <2>2, <2>3, QuietResume
<1>3. ASSUME NEW c \in Clients, Request(c) PROVE ResumeInv'
  <2>1. /\ at[c] \in Slots /\ at' = at /\ sock \in [Slots -> Socket]
        /\ UNCHANGED <<cacheVars, lastTime, stopped, slot, pending, turn, ready>>
        /\ \E form \in RequestForms : sock' = [sock EXCEPT ![at[c]].req = form]
    BY <1>3 DEF Request, IInv, TypeOK
  <2>2. Record(at[c]) = c
    BY <2>1 DEF OrderInv, RecordIsCurrent
  <2>3. \A s \in Slots \ {at[c]} : sock'[s] = sock[s]
    BY <2>1
  <2>4. \A s \in Slots : Record(s)' = Record(s) /\ (Active(s)' <=> Active(s))
    BY <2>1 DEF Active, State, Record
  <2>5. \A s \in Slots \ {at[c]} : Left(s)' <= Left(s)
    BY <2>1, <2>3, LeftRange DEF Left, ToBeRead
  <2> QED BY <2>1, <2>2, <2>4, <2>5, QuietResume
<1>4. ASSUME NEW s \in Slots, ResetArrives(s) PROVE ResumeInv'
  <2>1. /\ sock' = [sock EXCEPT ![s].peer = "reset"] /\ sock \in [Slots -> Socket]
        /\ UNCHANGED <<cacheVars, lastTime, stopped, at, slot, pending, turn, ready>>
    BY <1>4 DEF ResetArrives, IInv, TypeOK
  <2>2. \A r \in Slots : sock'[r].req = sock[r].req
    BY <2>1 DEF Socket
  <2>3. \A r \in Slots : (Active(r)' <=> Active(r)) /\ Record(r)' = Record(r) /\ Left(r)' <= Left(r)
    BY <2>1, <2>2, LeftRange DEF Active, State, Record, Left, ToBeRead
  <2> QED BY <2>1, <2>3, QuietResume
<1>5. ASSUME NEW c \in Clients, DropSilently(c) PROVE ResumeInv'
  BY <1>5 DEF DropSilently
<1> QED
  BY <1>2, <1>3, <1>4, <1>5, ArrivalResume, LeaveResume DEF WorldNext

(* The slot that is read has no more left than before, and one packet less *)
(* if one is put while its client is gone.                                 *)
LEMMA ReadLeft ==
  ASSUME IInv, NEW s \in Slots, turn = <<"read", s>>, GoOnToWrite(s), sock' = Consumed(s),
         \A r \in Slots \ {s} : pending'[r] = pending[r]
  PROVE  /\ \A r \in Slots : Left(r)' <= Left(r)
         /\ AfterRead(s) = "sendadc" /\ sock[s].peer # "open" /\ pending[s] = 0
               => Left(s)' + 1 <= Left(s)
<1>1. turn' = <<"write", s>> /\ ready' = ready /\ sock \in [Slots -> Socket]
  BY DEF GoOnToWrite, IInv, TypeOK
<1>2. /\ \A r \in Slots \ {s} : sock'[r] = sock[r]
      /\ sock'[s].req = IF s \in ready THEN "none" ELSE sock[s].req
  BY <1>1 DEF Consumed, Socket
<1>3. ToBeRead(s) /\ ~ToBeRead(s)' /\ \A r \in Slots \ {s} : ToBeRead(r)' <=> ToBeRead(r)
  BY <1>1, ReadMoves
<1>4. \A r \in Slots \ {s} : Left(r)' = Left(r)
  BY <1>1, <1>2, <1>3 DEF Left
<1>5. Left(s)' = IF s \notin ready /\ sock[s].req = "numbered" THEN 1 ELSE 0
  BY <1>2, <1>3 DEF Left
<1>6. Left(s)' <= Left(s)
  BY <1>3, <1>5 DEF Left
<1>7. ASSUME AfterRead(s) = "sendadc", sock[s].peer # "open", pending[s] = 0
      PROVE  Left(s)' + 1 <= Left(s)
  <2>1. CASE s \notin ready
    BY <1>3, <1>5, <1>7, <2>1 DEF Left
  <2>2. CASE s \in ready
    <3>1. sock[s].req = "numbered"
      <4>1. sock[s].peer \in {"closed", "reset"} /\ sock[s].req \in {"none", "plain", "numbered"}
        BY <1>1, <1>7 DEF Socket
      <4> QED BY <1>7, <2>2, <4>1 DEF AfterRead
    <3> QED BY <1>5, <2>2, <3>1 DEF Left
  <2> QED BY <2>1, <2>2
<1>8. \A r \in Slots : Left(r)' <= Left(r)
  <2>1. \A r \in Slots \ {s} : Left(r)' <= Left(r)
    BY <1>4, LeftRange
  <2> QED BY <1>6, <2>1
<1> QED BY <1>7, <1>8

LEMMA ServeResume ==
  ASSUME IInv, ResumeInv, NEW s \in Slots, PutChannelData(s) \/ WaitForRequest(s)
  PROVE  ResumeInv'
<1>1. /\ turn = <<"read", s>> /\ Active(s) /\ GoOnToWrite(s) /\ sock' = Consumed(s)
      /\ UNCHANGED <<at, lastTime, stopped, cacheVars>>
  BY DEF PutChannelData, WaitForRequest, At, traceVars, GoOnToWrite
<1>2. /\ \A r \in Slots : Active(r)' => Active(r)
      /\ \A r \in Slots : Record(r)' = Record(r)
  <2>1. slot \in [Slots -> SlotRecord]
    BY DEF IInv, TypeOK, SlotRecord
  <2>2. \/ \E st \in {"sendadc", "sendchan", "shutdown"} :
               slot' = [slot EXCEPT ![s].state = st]
        \/ slot' = [slot EXCEPT ![s].idle = @ - 1]
    BY DEF PutChannelData, WaitForRequest
  <2> QED BY <1>1, <2>1, <2>2 DEF Active, State, Record, SlotRecord
<1>3. \A r \in Slots \ {s} : pending'[r] = pending[r]
  <2>1. pending \in [Slots -> 0 .. SendRingUnits]
    BY DEF IInv, TypeOK
  <2>2. pending' = pending \/ pending' = [pending EXCEPT ![s] = @ + ChannelUnits]
    BY DEF PutChannelData, WaitForRequest
  <2> QED BY <2>1, <2>2
<1>4. \A r \in Slots : Left(r)' <= Left(r)
  BY <1>1, <1>3, ReadLeft
<1> QED BY <1>1, <1>2, <1>4, QuietResume

(* A packet put for a client that is gone is the one after the last, or    *)
(* one that the client has not got.                                        *)
LEMMA PutResume ==
  ASSUME IInv, OrderInv, ResumeInv, NEW s \in Slots, PutAdcData(s) PROVE ResumeInv'
<1> DEFINE c == Record(s)
<1>1. /\ turn = <<"read", s>> /\ Active(s) /\ AfterRead(s) = "sendadc" /\ GoOnToWrite(s)
      /\ sock' = Consumed(s) /\ UNCHANGED <<slot, at, stopped, cacheVars>> /\ c \in Clients
  BY DEF PutAdcData, At, GoOnToWrite, IInv, TypeOK, Record
<1>2. \A r \in Slots : (Active(r)' <=> Active(r)) /\ Record(r)' = Record(r)
  BY <1>1 DEF Active, State, Record
<1>3. \/ UNCHANGED <<pending, lastTime>>
      \/ \E t \in cache : /\ t > lastTime[c] /\ \A u \in cache : u > lastTime[c] => t <= u
                           /\ pending[s] = 0 /\ pending' = [pending EXCEPT ![s] = 2]
                           /\ lastTime' = [lastTime EXCEPT ![c] = t]
  BY PutAdcDataPuts DEF IInv
<1>4. \A r \in Slots \ {s} : pending'[r] = pending[r]
  <2>1. pending \in [Slots -> 0 .. SendRingUnits]
    BY DEF IInv, TypeOK
  <2> QED BY <1>3, <2>1
<1>5. /\ \A r \in Slots : Left(r)' <= Left(r)
      /\ sock[s].peer # "open" /\ pending[s] = 0 => Left(s)' + 1 <= Left(s)
  BY <1>1, <1>4, ReadLeft
<1>6. CASE UNCHANGED <<pending, lastTime>>
  BY <1>1, <1>2, <1>5, <1>6, QuietResume
<1>7. CASE ~UNCHANGED <<pending, lastTime>>
  <2>1. PICK t \in cache : /\ t > lastTime[c] /\ \A u \in cache : u > lastTime[c] => t <= u
                           /\ pending[s] = 0
                           /\ lastTime' = [lastTime EXCEPT ![c] = t]
    BY <1>3, <1>7
  <2>2. /\ t \in Nat /\ t <= clock /\ clock \in Nat /\ cache \subseteq Nat
        /\ \A d \in Clients : lastTime[d] \in Nat
    BY TimesAreInts
  <2>3. lastTime'[c] = t /\ \A d \in Clients \ {c} : lastTime'[d] = lastTime[d]
    <3>1. lastTime \in [Clients -> 0 .. MaxTime]
      BY DEF IInv, TypeOK
    <3> QED BY <1>1, <2>1, <3>1
  <2>4. CacheRuns'
    <3>1. UNCHANGED <<cache, clock>>
      BY <1>1 DEF cacheVars
    <3> QED BY <2>2, <2>3, <3>1 DEF ResumeInv, CacheRuns
  <2>5. ASSUME NEW d \in Clients, d # c PROVE StopsNear(d)'
    <3>1. StopsNear(d) /\ cache' = cache
      BY <1>1 DEF ResumeInv, cacheVars
    <3>2. at'[d] = at[d] /\ stopped'[d] = stopped[d] /\ lastTime'[d] = lastTime[d]
      BY <1>1, <2>3, <2>5
    <3> HIDE DEF c
    <3> QED BY <1>2, <1>5, <3>1, <3>2, StaysNear
  <2>6. StopsNear(c)'
    <3> SUFFICES ASSUME at[c] \notin Slots, NEW u \in cache, stopped[c] < u
                 PROVE  /\ t <= u + Ahead(0)
                        /\ \A r \in Slots : Active(r) /\ Record(r) = c =>
                                           t <= u + Ahead(Left(r)')
      BY <1>1, <1>2, <2>3 DEF StopsNear, cacheVars
    <3>1. /\ lastTime[c] <= u + Ahead(Left(s))
          /\ u \in Nat /\ lastTime[c] \in Nat
      BY <1>1, <2>2 DEF ResumeInv, StopsNear
    <3>2. sock[s].peer # "open"
      BY <1>1 DEF OrderInv, AbandonedKnown
    <3>3. Left(s)' + 1 <= Left(s) /\ Left(s) \in 0 .. 2 /\ Left(s)' \in 0 .. 2
      BY <1>5, <2>1, <3>2, LeftRange
    <3>4. Left(s) \in {1, 2} /\ Left(s)' \in {0, 1}
      BY <3>3
    <3>5. t <= u + Ahead(Left(s)') /\ t <= u + Ahead(0)
      <4>1. CASE lastTime[c] < u
        <5>1. t <= u
          BY <2>1, <4>1
        <5> QED BY <2>2, <3>1, <3>4, <5>1, AheadFalls
      <4>2. CASE ~(lastTime[c] < u)
        <5>1. lastTime[c] = u /\ Left(s)' = 0
          BY <3>1, <3>3, <3>4, <4>2, AheadFalls
        <5>2. u < t /\ u < clock
          BY <2>1, <2>2, <3>1, <5>1
        <5>3. PICK v \in cache : u < v /\ v <= u + 1 + MaxGap
          BY <5>2 DEF ResumeInv, CacheRuns
        <5>4. t <= v
          BY <2>1, <5>1, <5>3
        <5> QED BY <2>2, <3>1, <5>1, <5>3, <5>4, AheadFalls
      <4> QED BY <4>1, <4>2
    <3>6. ASSUME NEW r \in Slots, r # s, Active(r), Record(r) = c PROVE Left(r)' = 0
      <4>1. ~Doomed(s)
        <5>1. AfterRead(s) # "shutdown"
          BY <1>1
        <5> QED BY <1>1, <1>2, <5>1, ReadOrder
      <4>2. Doomed(r)
        BY <1>1, <3>6, <4>1 DEF OrderInv, OneAlive
      <4>3. Left(r) = 0
        BY <4>2 DEF Doomed, Left
      <4>4. Left(r)' <= Left(r)
        BY <1>5
      <4> QED BY <4>3, <4>4, LeftRange
    <3>7. ASSUME NEW r \in Slots, Active(r), Record(r) = c PROVE t <= u + Ahead(Left(r)')
      <4>1. CASE r = s
        BY <3>5, <4>1
      <4>2. CASE r # s
        <5>1. Left(r)' = 0
          BY <3>6, <3>7, <4>2
        <5> QED BY <3>5, <5>1
      <4> QED BY <4>1, <4>2
    <3> QED BY <3>5, <3>7
  <2>7. ASSUME NEW d \in Clients, d = c PROVE StopsNear(d)'
    BY <1>2, <2>6, <2>7 DEF StopsNear
  <2> QED BY <2>4, <2>5, <2>7 DEF ResumeInv
<1> QED BY <1>6, <1>7

(* An idle connection is shut down while its client is there.              *)
LEMMA ShutdownResume ==
  ASSUME IInv, OrderInv, ResumeInv, NEW s \in Slots, Shutdown(s) PROVE ResumeInv'
<1>1. /\ turn = <<"read", s>> /\ Active(s) /\ GoOnToWrite(s)
      /\ UNCHANGED <<cache, clock, lastTime, pending, ready>> /\ turn' = <<"write", s>>
      /\ slot' = [slot EXCEPT ![s].state = "inactive"] /\ slot \in [Slots -> SlotRecord]
      /\ sock' = [sock EXCEPT ![s] = NewSocket] /\ sock \in [Slots -> Socket]
      /\ at' = [c \in Clients |-> IF at[c] = s THEN Away ELSE at[c]]
      /\ stopped' = [c \in Clients |-> IF at[c] = s THEN LastSent(s) ELSE stopped[c]]
  BY DEF Shutdown, GoOnToWrite, At, IInv, TypeOK, SlotRecord, cacheVars
<1>2. Away \notin Slots
  BY SlotsFacts DEF Away
<1>3. /\ ~Active(s)'
      /\ \A r \in Slots \ {s} : (Active(r)' <=> Active(r)) /\ Record(r)' = Record(r)
                                /\ sock'[r] = sock[r]
  BY <1>1 DEF Active, State, Record, SlotRecord
<1>4. \A r \in Slots \ {s} : Left(r)' = Left(r)
  <2>1. \A r \in Slots \ {s} : ToBeRead(r)' <=> ToBeRead(r)
    BY <1>1, ReadMoves
  <2> QED BY <1>1, <1>3, <2>1 DEF Left
<1>5. CacheRuns'
  BY <1>1 DEF ResumeInv, CacheRuns
<1>6. ASSUME NEW c \in Clients, at[c] # s PROVE StopsNear(c)'
  <2>1. at'[c] = at[c] /\ stopped'[c] = stopped[c] /\ lastTime'[c] = lastTime[c]
        /\ cache' = cache /\ StopsNear(c)
    BY <1>1, <1>6 DEF ResumeInv
  <2>2. \A r \in Slots : Active(r)' /\ Record(r)' = c =>
           Active(r) /\ Record(r) = c /\ Left(r)' <= Left(r)
    BY <1>3, <1>4, LeftRange
  <2> QED BY <2>1, <2>2, StaysNear
<1>7. ASSUME NEW c \in Clients, at[c] = s PROVE StopsNear(c)'
  <2>1. Record(s) = c /\ lastTime[c] = lastPut[s] /\ sock[s].peer = "open"
    BY <1>7 DEF OrderInv, RecordIsCurrent, ConnectedOpen
  <2>2. \A r \in Slots \ {s} : Active(r) /\ Record(r) = c => Left(r) = 0
    <3>1. ~Doomed(s)
      BY <2>1 DEF Doomed
    <3> QED BY <1>1, <2>1, <3>1 DEF OrderInv, OneAlive, Doomed, Left
  <2>3. \A r \in Slots : Active(r)' /\ Record(r)' = c => Left(r)' = 0
    BY <1>3, <1>4, <2>2
  <2>4. stopped'[c] = LastSent(s)
    BY <1>1, <1>7
  <2>5. ASSUME NEW u \in cache, LastSent(s) < u PROVE lastTime[c] <= u + Ahead(0)
    <3>1. u \in Nat /\ lastTime[c] \in Nat /\ lastPut[s] \in Nat
      BY TimesAreInts
    <3>2. lastTime[c] <= u
      BY <2>1, <2>5, <3>1 DEF LastSent
    <3> QED BY <3>1, <3>2, AheadFalls
  <2>6. ASSUME NEW u \in cache, LastSent(s) < u, NEW r \in Slots, Active(r)', Record(r)' = c
        PROVE  lastTime[c] <= u + Ahead(Left(r)')
    BY <2>3, <2>5, <2>6
  <2> QED BY <1>1, <2>4, <2>5, <2>6 DEF StopsNear
<1> QED BY <1>5, <1>6, <1>7 DEF ResumeInv

LEMMA WriteResume ==
  ASSUME IInv, ResumeInv, NEW s \in Slots, Write(s) \/ WriteFails(s) \/ SkipInactive(s)
  PROVE  ResumeInv'
<1>1. UNCHANGED <<cacheVars, sock, at, slot, lastTime, stopped, ready>>
  BY DEF Write, WriteFails, SkipInactive, netVars, connVars, traceVars
<1>2. \A r \in Slots : (Active(r)' <=> Active(r)) /\ Record(r)' = Record(r)
  BY <1>1 DEF Active, State, Record
<1>3. \A r \in Slots : Active(r) => Left(r)' <= Left(r)
  <2>1. CASE WriteFails(s)
    <3>1. UNCHANGED <<pending, turn>>
      BY <2>1 DEF WriteFails, connVars
    <3>2. \A r \in Slots : Left(r)' = Left(r)
      BY <1>1, <3>1 DEF Left, ToBeRead
    <3> QED BY <3>2, LeftRange
  <2>2. CASE SkipInactive(s)
    <3>1. turn = <<"read", s>> /\ turn' = AfterSlot(s) /\ pending' = pending /\ ~Active(s)
      BY <2>2 DEF SkipInactive, At, connVars
    <3>2. \A r \in Slots \ {s} : Left(r)' = Left(r)
      BY <1>1, <3>1, SlotMoves DEF Left
    <3> QED BY <3>1, <3>2, LeftRange
  <2>3. CASE Write(s)
    <3>1. turn = <<"write", s>> /\ turn' = AfterSlot(s)
      BY <2>3 DEF Write, At
    <3>2. ~ToBeRead(s) /\ ~ToBeRead(s)'
      BY <3>1, SlotsFacts DEF ToBeRead, AfterSlot
    <3>3. \A r \in Slots \ {s} : pending'[r] = pending[r]
      <4>1. pending \in [Slots -> 0 .. SendRingUnits]
        BY DEF IInv, TypeOK
      <4>2. pending' = pending \/ \E n \in Nat : pending' = [pending EXCEPT ![s] = n]
        <5>1. pending[s] \in Nat
          BY <4>1 DEF SendRingUnits
        <5> QED BY <2>3, <5>1 DEF Write
      <4> QED BY <4>1, <4>2
    <3>4. \A r \in Slots : Left(r)' = Left(r)
      BY <1>1, <3>1, <3>2, <3>3, SlotMoves DEF Left
    <3> QED BY <3>4, LeftRange
  <2> QED BY <2>1, <2>2, <2>3
<1> QED BY <1>1, <1>2, <1>3, QuietResume

(* Select hears of the end of every connection whose client is gone.       *)
LEMMA SelectResume ==
  ASSUME IInv, OrderInv, ResumeInv, Select PROVE ResumeInv'
<1>1. /\ turn' = <<"read", 1>>
      /\ ready' = {s \in Slots : Readable(s)} \cup (IF backlog = << >> THEN {} ELSE {0})
      /\ UNCHANGED <<cacheVars, sock, at, slot, pending, lastTime, stopped>>
  BY DEF Select, netVars, connVars, traceVars
<1>2. \A r \in Slots : (Active(r)' <=> Active(r)) /\ Record(r)' = Record(r)
  BY <1>1 DEF Active, State, Record
<1>3. ASSUME NEW r \in Slots, Active(r), at[Record(r)] # r PROVE Left(r)' <= Left(r)
  <2>1. sock[r].peer # "open"
    BY <1>3 DEF OrderInv, AbandonedKnown
  <2>2. r \in ready'
    BY <1>1, <1>3, <2>1 DEF Readable, NewSocket
  <2>3. Left(r)' = IF sock[r].req = "numbered" THEN 1 ELSE 0
    BY <1>1, <2>2 DEF Left
  <2> QED BY <2>3 DEF Left
<1> QED BY <1>1, <1>2, <1>3, QuietResume

LEMMA ExpireResume ==
  ASSUME IInv, ResumeInv, NoneToAccept \/ Expire PROVE ResumeInv'
<1>1. /\ turn \in {<<"accept", 0>>, <<"expire", 0>>}
      /\ turn' \in {<<"expire", 0>>, <<"select", 0>>}
      /\ UNCHANGED <<cacheVars, sock, at, slot, pending, lastTime, stopped>>
  BY DEF NoneToAccept, Expire, At, netVars, connVars, traceVars
<1>2. \A r \in Slots : /\ (Active(r)' <=> Active(r)) /\ Record(r)' = Record(r)
                       /\ Left(r)' <= Left(r)
  BY <1>1 DEF ToBeRead, Active, State, Record, Left
<1> QED BY <1>1, <1>2, QuietResume

(* A client that is accepted is there, and nothing changes for the others. *)
LEMMA AcceptResume ==
  ASSUME IInv, OrderInv, ResumeInv, Accept PROVE ResumeInv'
<1>1. PICK c \in Clients, s \in Slots, from \in 0 .. MaxTime :
            /\ c = Head(backlog) /\ ~Active(s) /\ SetUp(c, s, from)
            /\ from \in {0, Rewound(lastTime[c])}
            /\ known' \in SUBSET Clients /\ backlog' = Tail(backlog)
            /\ turn = <<"accept", 0>> /\ 0 \in ready /\ turn' = <<"expire", 0>>
            /\ UNCHANGED <<cache, clock, ready, exited>>
  BY AcceptSetsUp
<1>2. /\ slot' = [slot EXCEPT ![s] = [state |-> "init", client |-> c, idle |-> IdleTimeout]]
      /\ sock' = [sock EXCEPT ![s] = NewSocket]
      /\ lastTime' = [lastTime EXCEPT ![c] = from]
      /\ at' = [at EXCEPT ![c] = s] /\ stopped' = stopped
  BY <1>1 DEF SetUp
<1>3. /\ slot \in [Slots -> SlotRecord] /\ sock \in [Slots -> Socket]
      /\ lastTime \in [Clients -> 0 .. MaxTime]
      /\ at \in [Clients -> Slots \cup {Away, Waiting}]
  BY DEF IInv, TypeOK, SlotRecord
<1>4. at'[c] = s /\ lastTime'[c] = from /\ Record(s)' = c
      /\ \A d \in Clients \ {c} : at'[d] = at[d] /\ lastTime'[d] = lastTime[d]
  BY <1>2, <1>3 DEF Record
<1>5. \A r \in Slots \ {s} : /\ (Active(r)' <=> Active(r)) /\ Record(r)' = Record(r)
                             /\ sock'[r] = sock[r]
  BY <1>2, <1>3 DEF Active, State, Record, SlotRecord
<1>6. \A r \in Slots \ {s} : Left(r)' <= Left(r)
  <2>1. \A r \in Slots : ~ToBeRead(r) /\ ~ToBeRead(r)'
    BY <1>1 DEF ToBeRead
  <2>2. \A r \in Slots \ {s} : Left(r)' = Left(r)
    BY <1>5, <2>1 DEF Left
  <2> QED BY <2>2, LeftRange
<1>7. CacheRuns'
  <2>1. from <= clock
    <3>1. lastTime[c] <= clock /\ lastTime[c] \in Nat /\ clock \in Nat /\ Overlap \in Nat
      BY TimesAreInts, ParameterAssumption DEF ResumeInv, CacheRuns
    <3> QED BY <1>1, <3>1 DEF Rewound
  <2> QED BY <1>1, <1>4, <2>1 DEF ResumeInv, CacheRuns
<1>8. ASSUME NEW d \in Clients PROVE StopsNear(d)'
  <2>1. CASE d = c
    BY <1>4, <2>1 DEF StopsNear
  <2>2. CASE d # c
    <3>1. at'[d] = at[d] /\ lastTime'[d] = lastTime[d] /\ stopped'[d] = stopped[d]
          /\ cache' = cache /\ StopsNear(d)
      BY <1>1, <1>2, <1>4, <2>2 DEF ResumeInv
    <3>2. \A r \in Slots : Active(r)' /\ Record(r)' = d =>
             Active(r) /\ Record(r) = d /\ Left(r)' <= Left(r)
      BY <1>4, <1>5, <1>6, <2>2
    <3> QED BY <3>1, <3>2, StaysNear
  <2> QED BY <2>1, <2>2
<1> QED BY <1>7, <1>8 DEF ResumeInv

LEMMA RefuseResume ==
  ASSUME IInv, OrderInv, ResumeInv, Refuse PROVE ResumeInv'
<1>1. /\ turn = <<"accept", 0>> /\ turn' = <<"expire", 0>> /\ 0 \in ready
      /\ at' = [at EXCEPT ![Head(backlog)] = Away]
      /\ at \in [Clients -> Slots \cup {Away, Waiting}]
      /\ UNCHANGED <<cacheVars, sock, slot, pending, lastTime, stopped, ready>>
  BY DEF Refuse, At, IInv, TypeOK, connVars, traceVars
<1>2. at[Head(backlog)] = Waiting /\ Waiting \notin Slots
  BY <1>1, FirstInLine, HeadWaits DEF OrderInv
<1>3. \A c \in Clients : at'[c] \notin Slots => at[c] \notin Slots
  BY <1>1, <1>2
<1>4. \A r \in Slots : /\ (Active(r)' <=> Active(r)) /\ Record(r)' = Record(r)
                       /\ Left(r)' <= Left(r)
  BY <1>1 DEF ToBeRead, Active, State, Record, Left
<1> QED BY <1>1, <1>3, <1>4, QuietResume

LEMMA NextResume ==
  ~SilentDrops /\ IInv /\ OrderInv /\ ResumeInv /\ [Next]_vars => ResumeInv'
<1> SUFFICES ASSUME ~SilentDrops, IInv, OrderInv, ResumeInv, [Next]_vars PROVE ResumeInv'
  OBVIOUS
<1>1. CASE WorldNext
  BY <1>1, WorldResume
<1>2. ASSUME NEW s \in Slots, ServiceConnection(s) PROVE ResumeInv'
  BY <1>2, ShutdownResume, ServeResume, PutResume, WriteResume DEF ServiceConnection
<1>3. CASE Select \/ NoneToAccept \/ Accept \/ Refuse \/ Expire
  BY <1>3, SelectResume, ExpireResume, AcceptResume, RefuseResume
<1>4. CASE CloseAll
  <2>1. cache' = {} /\ clock' = clock /\ \A c \in Clients : lastTime'[c] = 0
    BY <1>4 DEF CloseAll
  <2> QED BY <2>1, TimesAreInts DEF ResumeInv, CacheRuns, StopsNear
<1>5. CASE UNCHANGED vars
  <2>1. UNCHANGED <<cacheVars, lastTime, stopped, at, slot, sock, pending, turn, ready>>
    BY <1>5 DEF vars, netVars, connVars, traceVars, threadVars
  <2>2. \A r \in Slots : /\ (Active(r)' <=> Active(r)) /\ Record(r)' = Record(r)
                         /\ Left(r)' <= Left(r)
    BY <2>1, LeftRange DEF ToBeRead, Active, State, Record, Left
  <2> QED BY <2>1, <2>2, QuietResume
<1> QED BY <1>1, <1>2, <1>3, <1>4, <1>5 DEF Next, PassNext

(* Only accept gives a waiting client a slot, and it rewinds the record    *)
(* behind what the client has not got.                                     *)
LEMMA StepContinues ==
  ASSUME Overlap >= MaxGap + 2, IInv, OrderInv, ResumeInv, [Next]_vars,
         NEW c \in Clients, at[c] = Waiting, at'[c] \in Slots,
         NEW u \in cache, stopped[c] < u
  PROVE  ~(u <= lastPut'[at'[c]])
<1>1. Waiting \notin Slots /\ Away \notin Slots
  BY SlotsFacts DEF Waiting, Away
<1>2. Accept
  <2>1. at' # at
    BY <1>1
  <2>2. at \in [Clients -> Slots \cup {Away, Waiting}]
    BY DEF IInv, TypeOK
  <2>3. ~WorldNext
    BY <1>1, <2>1, <2>2 DEF WorldNext, PacketArrives, Dial, Request, Leave, DropSilently, CutOff,
                            ResetArrives, netVars
  <2>4. ASSUME NEW s \in Slots, ServiceConnection(s) PROVE FALSE
    BY <1>1, <2>1, <2>4 DEF ServiceConnection, SkipInactive, Shutdown, PutChannelData,
       PutAdcData, WaitForRequest, Write, WriteFails, netVars
  <2>5. ~(Select \/ NoneToAccept \/ Refuse \/ Expire \/ CloseAll \/ UNCHANGED vars)
    BY <1>1, <2>1, <2>2 DEF Select, NoneToAccept, Refuse, Expire, CloseAll, netVars, vars
  <2> QED BY <2>3, <2>4, <2>5 DEF Next, PassNext
<1>3. PICK d \in Clients, s \in Slots, from \in 0 .. MaxTime :
            /\ d = Head(backlog) /\ ~Active(s) /\ SetUp(d, s, from)
            /\ from \in {0, Rewound(lastTime[d])}
            /\ known' \in SUBSET Clients /\ backlog' = Tail(backlog)
            /\ turn = <<"accept", 0>> /\ 0 \in ready /\ turn' = <<"expire", 0>>
            /\ UNCHANGED <<cache, clock, ready, exited>>
  BY <1>2, AcceptSetsUp
<1>4. d = c /\ at'[c] = s /\ lastPut'[s] = from
  <2>1. /\ at \in [Clients -> Slots \cup {Away, Waiting}]
        /\ lastPut \in [Slots -> 0 .. MaxTime]
    BY DEF IInv, TypeOK
  <2>2. at' = [at EXCEPT ![d] = s] /\ lastPut' = [lastPut EXCEPT ![s] = from]
    BY <1>3 DEF SetUp
  <2> QED BY <1>1, <2>1, <2>2
<1>5. lastTime[c] <= u + 1 + MaxGap
  BY <1>1, TimesAreInts, AheadFalls DEF ResumeInv, StopsNear
<1>6. lastTime[c] \in Nat /\ u \in Nat /\ u > 0 /\ Overlap \in Nat /\ MaxGap \in Nat
  BY TimesAreInts, ParameterAssumption
<1>7. from < u
  BY <1>3, <1>4, <1>5, <1>6 DEF Rewound
<1> QED BY <1>4, <1>6, <1>7

(* A client that comes back is given all it has not got and the data ring  *)
(* still has, although the server put more for it before it noticed the    *)
(* end of its connection.  An overlap of two is enough, and one more for   *)
(* each packet that may be missing in a row: the code has four.            *)
THEOREM ReturnsWhereStopped ==
  ~SilentDrops /\ Overlap >= MaxGap + 2 => (Spec => ContinuesWhereStopped)
<1> SUFFICES ASSUME ~SilentDrops, Overlap >= MaxGap + 2 PROVE Spec => ContinuesWhereStopped
  OBVIOUS
<1>1. Init => IInv /\ OrderInv /\ ResumeInv
  BY InitIInv, InitOrder, InitResume
<1>2. IInv /\ OrderInv /\ ResumeInv /\ [Next]_vars => IInv' /\ OrderInv' /\ ResumeInv'
  BY NextIInv, NextOrder, NextResume
<1>3. IInv /\ OrderInv /\ ResumeInv /\ [Next]_vars =>
        [\A c \in Clients : at[c] = Waiting /\ at'[c] \in Slots =>
           \A u \in cache : ~(stopped[c] < u /\ u <= lastPut'[at'[c]])]_vars
  BY StepContinues
<1> QED BY <1>1, <1>2, <1>3, PTL DEF Spec, ContinuesWhereStopped
=============================================================================
