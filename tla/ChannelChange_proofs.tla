------------------------ MODULE ChannelChange_proofs ------------------------
(***************************************************************************)
(* Proofs about ChannelChange, for any set of configurations and any size  *)
(* of the receive ring.  Handshake says how far main, the client thread    *)
(* and the server thread can be apart; the safety properties follow.       *)
(***************************************************************************)
EXTENDS ChannelChange, SequenceTheorems, TLAPS

Handshake ==
    /\ main \notin {"poll", "restart"} => chanChange
    /\ client # "receive" /\ ~inhibit => ~chanChange
    /\ slots = "freed" => main = "alloc"
    /\ main \in {"free", "alloc", "publish", "restart"} => server = "none"
    /\ server = "ended" => main = "join"
    /\ main = "join" => server # "none"

IInv == TypeOK /\ Handshake /\ CloseCmdWhileAwaited /\ AgreedWhenQuiet /\ ToldWhenQuiet

(* Every configuration the threads pass on has the fields of a record.     *)
LEMMA ConfigFields ==
  ASSUME NEW c \in Configs \cup {NoConfig}
  PROVE  c \in ConfigRecord
  <1>1. NoConfig \in ConfigRecord
    BY DEF NoConfig, ConfigRecord
  <1> QED BY <1>1, ConfigsAssumption

(* The size of a packet is a number of bytes, for any channel information. *)
LEMMA PacketBytesType == \A c \in ConfigRecord : PacketBytes(c) \in Nat
  <1> SUFFICES ASSUME NEW c \in ConfigRecord PROVE PacketBytes(c) \in Nat
    OBVIOUS
  <1>1. c.sps \in Nat /\ c.channels \in Nat
    BY DEF ConfigRecord
  <1>2. c.sps * c.channels \in Nat
    BY <1>1
  <1> QED BY <1>2 DEF PacketBytes

(* The model starts with every variable of its type and all in agreement.  *)
LEMMA InitIInv == Init => IInv
  <1> SUFFICES ASSUME Init PROVE IInv
    OBVIOUS
  <1>1. NoConfig \in ConfigRecord
    BY DEF NoConfig, ConfigRecord
  <1>2. slotBytes \in Nat
    BY <1>1, PacketBytesType DEF Init
  <1>3. rcvRing \in Seq(Item) /\ Len(rcvRing) <= RcvLimit
    BY EmptySeq, RcvLimitAssumption DEF Init
  <1>4. TypeOK
    BY <1>1, <1>2, <1>3, ConfigsAssumption DEF Init, TypeOK
  <1> QED
    BY <1>4 DEF Init, IInv, Handshake, CloseCmdWhileAwaited, AgreedWhenQuiet, ToldWhenQuiet

(* Receiving puts one more item at the end of a ring that has room for it. *)
LEMMA ReceiveType == TypeOK /\ Receive => TypeOK'
  <1> SUFFICES ASSUME TypeOK, Receive PROVE TypeOK'
    OBVIOUS
  <1>1. PICK item \in Item : rcvRing' = Append(rcvRing, item)
    BY DEF TypeOK, Receive, ChannelArrives, DataArrives, Item, ChannelItem, DataItem
  <1>2. rcvRing' \in Seq(Item) /\ Len(rcvRing') = Len(rcvRing) + 1
    BY <1>1, AppendProperties DEF TypeOK
  <1>3. link' \in {"down", "asked", "streaming", "askedAgain"}
    BY DEF TypeOK, Receive, ChannelArrives, DataArrives
  <1> QED
    BY <1>2, <1>3, RcvLimitAssumption
    DEF TypeOK, Receive, ConfigRecord, flagVars, mainVars, serverVars

(* Looking at the first item of the receive ring and removing it.          *)
LEMMA NextItem ==
  ASSUME TypeOK, NEW kind, NextItemIs(kind)
  PROVE  /\ Head(rcvRing) \in Item
         /\ kind # "bad" => Head(rcvRing).config \in Configs
         /\ Tail(rcvRing) \in Seq(Item) /\ Len(Tail(rcvRing)) <= RcvLimit
  <1>1. /\ Head(rcvRing) \in Item /\ Tail(rcvRing) \in Seq(Item)
        /\ Len(Tail(rcvRing)) = Len(rcvRing) - 1 /\ Len(rcvRing) \in Nat
    BY HeadTailProperties DEF TypeOK, NextItemIs
  <1>2. kind # "bad" => Head(rcvRing).config \in Configs
    BY <1>1 DEF NextItemIs, Item, BadItem
  <1> QED
    BY <1>1, <1>2, RcvLimitAssumption DEF TypeOK

(* Every step of the client thread and of its connection keeps the types.  *)
LEMMA ClientType == TypeOK /\ (RemoteNext \/ ClientNext) => TypeOK'
  <1> SUFFICES ASSUME TypeOK, RemoteNext \/ ClientNext PROVE TypeOK'
    OBVIOUS
  <1> USE DEF TypeOK, flagVars, mainVars, serverVars
  <1>1. CASE Reconnect
    <2>1. << >> \in Seq(Item) /\ Len(<< >>) <= RcvLimit
      BY EmptySeq, RcvLimitAssumption
    <2> QED BY <1>1, <2>1 DEF Reconnect
  <1>2. CASE RequestAgain
    BY <1>2 DEF RequestAgain
  <1>3. CASE Receive
    BY <1>3, ReceiveType
  <1>4. CASE StartPass
    BY <1>4 DEF StartPass
  <1>5. CASE GetChanInfo
    BY <1>5, NextItem DEF GetChanInfo
  <1>6. CASE GetBadChanInfo
    <2>1. << >> \in Seq(Item) /\ Len(<< >>) <= RcvLimit
      BY EmptySeq, RcvLimitAssumption
    <2> QED BY <1>6, <2>1, NextItem DEF GetBadChanInfo
  <1>7. CASE StoreData
    BY <1>7, NextItem DEF StoreData
  <1>8. CASE SkipData
    BY <1>8, NextItem DEF SkipData
  <1>9. CASE EndCheck
    BY <1>9 DEF EndCheck
  <1>10. CASE SignalChange
    BY <1>10 DEF SignalChange
  <1>11. CASE NoChange
    BY <1>11 DEF NoChange
  <1> QED
    BY <1>1, <1>2, <1>3, <1>4, <1>5, <1>6, <1>7, <1>8, <1>9, <1>10, <1>11
    DEF RemoteNext, ClientNext

(* Every step of the main and the server thread keeps the types.           *)
LEMMA MainServerType == TypeOK /\ (MainNext \/ ServerNext) => TypeOK'
  <1> SUFFICES ASSUME TypeOK, MainNext \/ ServerNext PROVE TypeOK'
    OBVIOUS
  <1>1. commInfo \in ConfigRecord
    BY ConfigFields DEF TypeOK
  <1> USE DEF TypeOK, flagVars, mainVars, serverVars, clientVars
  <1>2. CASE PollChange \/ CopyRate \/ CopyType
    <2>1. chanInfo' \in ConfigRecord
      BY <1>1, <1>2 DEF PollChange, CopyRate, CopyType, ConfigRecord
    <2>2. /\ main' \in {"copyRate", "copyType", "stop"}
          /\ UNCHANGED <<flagVars, slots, slotBytes, ring, clientVars, serverVars>>
      BY <1>2 DEF PollChange, CopyRate, CopyType
    <2> QED BY <2>1, <2>2
  <1>3. CASE StopServer \/ JoinServer \/ FreeRing
    <2>1. CASE StopServer
      <3>1. main' \in {"join", "free"} /\ closeCmd' \in BOOLEAN
        BY <2>1 DEF StopServer
      <3>2. UNCHANGED <<chanChange, commInfo, chanInfo, slots, slotBytes, ring,
                        clientVars, serverVars>>
        BY <2>1 DEF StopServer
      <3> QED BY <3>1, <3>2
    <2>2. CASE JoinServer
      BY <2>2 DEF JoinServer
    <2>3. CASE FreeRing
      BY <2>3 DEF FreeRing
    <2> QED BY <1>3, <2>1, <2>2, <2>3
  <1>4. CASE AllocRing
    <2>1. slotBytes' \in Nat
      BY <1>4, PacketBytesType DEF AllocRing
    <2> QED BY <1>4, <2>1 DEF AllocRing
  <1>5. CASE Publish \/ RestartServer
    <2>1. NoConfig \in ConfigRecord
      BY DEF NoConfig, ConfigRecord
    <2>2. CASE Publish
      <3>1. chanInfo' \in ConfigRecord /\ chanChange' \in BOOLEAN
        BY <1>1, <2>2 DEF Publish
      <3>2. main' = "restart"
            /\ UNCHANGED <<commInfo, closeCmd, slots, slotBytes, ring,
                           clientVars, serverVars>>
        BY <2>2 DEF Publish
      <3> QED BY <3>1, <3>2
    <2>3. CASE RestartServer
      BY <2>1, <2>3 DEF RestartServer
    <2> QED BY <1>5, <2>2, <2>3
  <1>6. CASE Serve
    BY <1>6 DEF Serve
  <1>7. CASE Announce
    <2>1. announced' \in ConfigRecord
      BY <1>7 DEF Announce
    <2> HIDE DEF TypeOK
    <2>2. UNCHANGED <<flagVars, mainVars, ring, clientVars, server>>
      BY <1>7 DEF Announce
    <2> QED BY <2>1, <2>2 DEF TypeOK
  <1>8. CASE EndServe
    BY <1>8 DEF EndServe
  <1>9. CASE CloseAll
    <2>1. server' \in {"none", "poll", "serve", "ended"} /\ closeCmd' \in BOOLEAN
      BY <1>9 DEF CloseAll
    <2> HIDE DEF TypeOK
    <2>2. UNCHANGED <<chanChange, commInfo, mainVars, ring, clientVars, announced>>
      BY <1>9 DEF CloseAll
    <2> QED BY <2>1, <2>2 DEF TypeOK
  <1> QED
    BY <1>2, <1>3, <1>4, <1>5, <1>6, <1>7, <1>8, <1>9 DEF MainNext, ServerNext

(* What the threads know of each other survives every step of a thread.    *)
LEMMA NextHandshake ==
  IInv /\ Next => (Handshake /\ CloseCmdWhileAwaited /\ AgreedWhenQuiet /\ ToldWhenQuiet)'
  <1> SUFFICES ASSUME IInv, Next
               PROVE  (Handshake /\ CloseCmdWhileAwaited /\ AgreedWhenQuiet /\ ToldWhenQuiet)'
    OBVIOUS
  <1> USE DEF IInv, TypeOK, Handshake, CloseCmdWhileAwaited, AgreedWhenQuiet, ToldWhenQuiet,
              flagVars, mainVars, serverVars, clientVars
  <1>1. CASE RemoteNext
    BY <1>1 DEF RemoteNext, Reconnect, RequestAgain, Receive
  <1>2. CASE StartPass
    BY <1>2 DEF StartPass
  <1>3. CASE GetChanInfo \/ GetBadChanInfo \/ StoreData \/ SkipData
    BY <1>3 DEF GetChanInfo, GetBadChanInfo, StoreData, SkipData, NextItemIs
  <1>4. CASE EndCheck \/ SignalChange \/ NoChange
    BY <1>4 DEF EndCheck, SignalChange, NoChange
  <1>5. CASE PollChange \/ CopyRate \/ CopyType
    BY <1>5 DEF PollChange, CopyRate, CopyType
  <1>6. CASE StopServer
    BY <1>6 DEF StopServer
  <1>7. CASE JoinServer \/ FreeRing \/ AllocRing
    BY <1>7 DEF JoinServer, FreeRing, AllocRing
  <1>8. CASE Publish
    BY <1>8 DEF Publish
  <1>9. CASE RestartServer
    BY <1>9 DEF RestartServer
  <1>10. CASE ServerNext
    BY <1>10 DEF ServerNext, Serve, Announce, EndServe, CloseAll
  <1> QED
    BY <1>1, <1>2, <1>3, <1>4, <1>5, <1>6, <1>7, <1>8, <1>9, <1>10
    DEF Next, ClientNext, MainNext

(* IInv is inductive.                                                      *)
LEMMA NextIInv == IInv /\ [Next]_vars => IInv'
  <1>1. IInv /\ Next => IInv'
    BY ClientType, MainServerType, NextHandshake DEF Next, IInv
  <1>2. IInv /\ UNCHANGED vars => IInv'
    BY DEF IInv, TypeOK, Handshake, CloseCmdWhileAwaited, AgreedWhenQuiet, ToldWhenQuiet,
           vars, flagVars, mainVars, serverVars, clientVars
  <1> QED BY <1>1, <1>2

(* The inductive invariant holds in every behaviour.                       *)
THEOREM Invariance == Spec => []IInv
  BY InitIInv, NextIInv, PTL DEF Spec

(* Type correctness: in particular the client's receive ring is never      *)
(* given more than it can hold.                                            *)
THEOREM TypeCorrect == Spec => []TypeOK
  BY Invariance, PTL DEF IInv

(* Nobody is about to use the data ring while its buffers are freed.       *)
THEOREM FreedRingUnused == Spec => []NoUseOfFreedRing
  <1>1. IInv => NoUseOfFreedRing
    BY DEF IInv, TypeOK, Handshake, NoUseOfFreedRing
  <1> QED BY <1>1, Invariance, PTL

(* chan_info_g is what the client thread last wrote whenever all is quiet. *)
THEOREM QuietAgreement == Spec => []AgreedWhenQuiet
  BY Invariance, PTL DEF IInv

(* Clients of the running server thread know the configuration in force,   *)
(* or nothing yet, whenever all is quiet.                                  *)
THEOREM QuietClientsToldRight == Spec => []ToldWhenQuiet
  BY Invariance, PTL DEF IInv

(* The command to close reaches no other server thread than it is meant for. *)
THEOREM CloseCmdAnswered == Spec => []CloseCmdWhileAwaited
  BY Invariance, PTL DEF IInv

(* No packet enters the data ring while a change waits for main.           *)
THEOREM PendingStoresNothing == Spec => NoStoreWhilePending
  <1>1. IInv /\ [Next]_vars => [~(ring' \subseteq ring) => ~chanChange]_vars
    <2> SUFFICES ASSUME IInv, Next, ~(ring' \subseteq ring) PROVE ~chanChange
      BY DEF vars
    <2>1. StoreData
      BY DEF Next, RemoteNext, Reconnect, RequestAgain, Receive,
             ClientNext, StartPass, GetChanInfo, GetBadChanInfo, SkipData,
             EndCheck, SignalChange, NoChange,
             MainNext, PollChange, CopyRate, CopyType, StopServer, JoinServer,
             FreeRing, AllocRing, Publish, RestartServer,
             ServerNext, Serve, Announce, EndServe, CloseAll
    <2> QED
      BY <2>1 DEF StoreData, NextItemIs, IInv, Handshake
  <1> QED BY <1>1, Invariance, PTL DEF Spec, NoStoreWhilePending

-----------------------------------------------------------------------------
(* The two promises of the comments that the code breaks: when it does.    *)

(* During a pass, what was heard is what the pass found, unless it found   *)
(* nothing; then the pass has old_chan_info to compare, which is itself.   *)
HeardInPass ==
    client # "receive" =>
        \/ heard = newInfo
        \/ newInfo = oldInfo /\ (SameRate(heard, commInfo) \/ SameRate(heard, oldInfo))

(* A pass that finds the rate main was told of, or the one before that,    *)
(* says nothing; every other one is signalled.                             *)
LEMMA PassTellsMain ==
  OnlyReturnsMissed /\ HeardInPass /\ [Next]_vars => (OnlyReturnsMissed /\ HeardInPass)'
  <1> SUFFICES ASSUME OnlyReturnsMissed, HeardInPass, [Next]_vars
               PROVE  (OnlyReturnsMissed /\ HeardInPass)'
    OBVIOUS
  <1> USE DEF OnlyReturnsMissed, HeardInPass, SameRate, flagVars, mainVars, serverVars, clientVars
  <1>1. CASE RemoteNext
    BY <1>1 DEF RemoteNext, Reconnect, RequestAgain, Receive
  <1>2. CASE StartPass
    BY <1>2 DEF StartPass
  <1>3. CASE GetChanInfo
    BY <1>3 DEF GetChanInfo, NextItemIs
  <1>4. CASE GetBadChanInfo \/ StoreData \/ SkipData \/ EndCheck
    BY <1>4 DEF GetBadChanInfo, StoreData, SkipData, EndCheck, NextItemIs
  <1>5. CASE SignalChange
    BY <1>5 DEF SignalChange
  <1>6. CASE NoChange
    BY <1>6 DEF NoChange
  <1>7. CASE MainNext
    BY <1>7 DEF MainNext, PollChange, CopyRate, CopyType, StopServer, JoinServer,
                FreeRing, AllocRing, Publish, RestartServer
  <1>8. CASE ServerNext
    BY <1>8 DEF ServerNext, Serve, Announce, EndServe, CloseAll
  <1>9. CASE UNCHANGED vars
    BY <1>9 DEF vars
  <1> QED
    BY <1>1, <1>2, <1>3, <1>4, <1>5, <1>6, <1>7, <1>8, <1>9 DEF Next, ClientNext

(* Main is told of every change of rate except one that returns to the     *)
(* configuration before the one it was told of last (check_data, where     *)
(* old_chan_info is set to what client_comm had).                          *)
THEOREM MissedReturnsOnly == Spec => []OnlyReturnsMissed
  <1>1. Init => OnlyReturnsMissed /\ HeardInPass
    BY DEF Init, OnlyReturnsMissed, HeardInPass, SameRate
  <1> QED BY <1>1, PassTellsMain, PTL DEF Spec

(* What main has of the configuration, at each step of its way, as long as *)
(* the client thread does not overtake it.                                 *)
InStep ==
    /\ main = "copyType" => SameRate(chanInfo, commInfo)
    /\ main \in {"stop", "join", "free", "alloc"} => chanInfo = commInfo
    /\ main = "publish" \/ (~chanChange /\ main \in {"poll", "restart"})
          => slotBytes = PacketBytes(commInfo)

(* Main's steps carry the configuration on, and no other step than a       *)
(* signal changes it.                                                      *)
LEMMA StaysInStep ==
  ASSUME IInv, InStep, [Next]_vars,
         [SignalChange => main \in {"poll", "copyRate", "restart"}]_vars
  PROVE  InStep'
  <1> USE DEF InStep, SameRate, flagVars, mainVars, serverVars, clientVars
  <1>1. CASE RemoteNext
    BY <1>1 DEF RemoteNext, Reconnect, RequestAgain, Receive
  <1>2. CASE SignalChange
    <2>1. main \in {"poll", "copyRate", "restart"}
      BY <1>2 DEF SignalChange, vars, IInv, TypeOK
    <2> QED BY <1>2, <2>1 DEF SignalChange
  <1>3. CASE ClientNext /\ ~SignalChange
    BY <1>3 DEF ClientNext, StartPass, GetChanInfo, GetBadChanInfo, StoreData,
                SkipData, EndCheck, NoChange
  <1>4. CASE PollChange \/ CopyRate
    BY <1>4 DEF PollChange, CopyRate, IInv, TypeOK, ConfigRecord
  <1>5. CASE CopyType
    <2>1. chanInfo \in ConfigRecord /\ commInfo \in ConfigRecord
      BY ConfigFields DEF IInv, TypeOK
    <2>2. chanInfo' = commInfo
      BY <1>5, <2>1 DEF CopyType, ConfigRecord
    <2> QED BY <1>5, <2>2 DEF CopyType
  <1>6. CASE StopServer \/ JoinServer \/ FreeRing
    BY <1>6 DEF StopServer, JoinServer, FreeRing
  <1>7. CASE AllocRing
    BY <1>7 DEF AllocRing
  <1>8. CASE Publish \/ RestartServer
    BY <1>8 DEF Publish, RestartServer
  <1>9. CASE ServerNext
    BY <1>9 DEF ServerNext, Serve, Announce, EndServe, CloseAll
  <1>10. CASE UNCHANGED vars
    BY <1>10 DEF vars
  <1> QED
    BY <1>1, <1>2, <1>3, <1>4, <1>5, <1>6, <1>7, <1>8, <1>9, <1>10
    DEF Next, MainNext

(* If no change overtakes main on its way from reading the configuration   *)
(* to publishing it, the slots of the data ring have the size of the       *)
(* configuration published: an overtaken main is the only reason why the   *)
(* comment on CHANCHANGE fails.                                            *)
THEOREM FitsUnlessOvertaken == Spec /\ NeverOvertaken => []SlotsFitConfig
  <1>1. Init => InStep
    BY DEF Init, InStep
  <1>2. InStep => SlotsFitConfig
    BY DEF InStep, SlotsFitConfig
  <1> QED BY <1>1, <1>2, StaysInStep, Invariance, PTL DEF Spec, NeverOvertaken
=============================================================================
