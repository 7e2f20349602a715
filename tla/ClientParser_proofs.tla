------------------------- MODULE ClientParser_proofs -------------------------
(***************************************************************************)
(* What the client thread makes of any stream of items, cut into pieces in *)
(* any way, with any sizes of tokens, packets and receive ring.            *)
(***************************************************************************)
EXTENDS ClientParser, WellFoundedInduction, SequenceTheorems, TLAPS

-----------------------------------------------------------------------------
(* The least of a set of numbers, which CHOOSE then finds.                 *)
LEMMA LeastExists ==
  ASSUME NEW n \in Nat, NEW S \in SUBSET (1 .. n), S # {}
  PROVE  \E m \in S : \A k \in S : m <= k
<1> DEFINE R == {ss \in Nat \X Nat : ss[1] < ss[2]}
<1>1. IsWellFoundedOn(R, Nat)
  BY NatLessThanWellFounded DEF OpToRel
<1>2. PICK m \in S : \A k \in S : ~(<<k, m>> \in R)
  <2>1. S \subseteq Nat
    OBVIOUS
  <2> HIDE DEF R
  <2> QED BY <1>1, <2>1, WFMin
<1>3. ASSUME NEW k \in S, k < m PROVE FALSE
  <2>1. <<k, m>> \in R
    BY <1>3
  <2> QED BY <1>2, <2>1
<1> QED BY <1>3

(* First finds the least, and None only in an empty set.                   *)
LEMMA FirstFound ==
  ASSUME NEW n \in Nat, NEW S \in SUBSET (1 .. n)
  PROVE  /\ S = {} => First(S) = None
         /\ S # {} => First(S) \in S /\ First(S) # None /\ \A q \in S : First(S) <= q
<1>1. S = {} => First(S) = None
  BY DEF First
<1>2. ASSUME S # {} PROVE First(S) \in S /\ First(S) # None /\ \A q \in S : First(S) <= q
  <2>1. \E m \in S : \A k \in S : m <= k
    BY <1>2, LeastExists
  <2>2. First(S) = CHOOSE m \in S : \A k \in S : m <= k
    BY <1>2 DEF First
  <2>3. First(S) \in S /\ \A q \in S : First(S) <= q
    BY <2>1, <2>2
  <2>4. First(S) # 0
    BY <2>3
  <2> QED BY <1>2, <2>3, <2>4 DEF None
<1> QED BY <1>1, <1>2

(* The stream, and the window of it that is on the ring.                   *)
WindowOK ==
    /\ stream \in Streams
    /\ arrived \in 0 .. Len(stream) /\ gone \in 0 .. arrived
    /\ Stored <= Capacity

LEMMA WindowFacts ==
  ASSUME WindowOK
  PROVE  /\ stream \in Seq(Cell) /\ Len(stream) \in Nat
         /\ arrived \in Nat /\ gone \in Nat /\ gone <= arrived /\ arrived <= Len(stream)
         /\ Ring \subseteq 1 .. arrived /\ Ring \subseteq 1 .. Len(stream)
         /\ \A p \in Ring : p \in Nat /\ gone < p /\ p <= arrived
         /\ \A p \in 1 .. Len(stream) : stream[p] \in Cell
<1>1. stream \in Seq(Cell)
  BY StreamsAssumption DEF WindowOK
<1>2. Len(stream) \in Nat /\ \A p \in 1 .. Len(stream) : stream[p] \in Cell
  BY <1>1
<1>3. arrived \in Nat /\ gone \in Nat /\ gone <= arrived /\ arrived <= Len(stream)
  BY <1>2 DEF WindowOK
<1>4. Ring \subseteq 1 .. arrived /\ Ring \subseteq 1 .. Len(stream)
      /\ \A p \in Ring : p \in Nat /\ gone < p /\ p <= arrived
  BY <1>2, <1>3 DEF Ring
<1> QED BY <1>1, <1>2, <1>3, <1>4

LEMMA LengthFacts ==
  /\ ChanTokenLen \in Nat /\ ChanInfoLen \in Nat /\ AdcTokenLen \in Nat /\ PreHdrLen \in Nat
  /\ Capacity \in Nat
  /\ 0 < ChanTokenLen /\ 0 < AdcTokenLen /\ ChanTokenLen < ChanInfoLen
  /\ AdcTokenLen < PreHdrLen /\ AdcTokenLen <= ChanInfoLen
BY LengthAssumption

LEMMA CellFacts ==
  ASSUME WindowOK, NEW q \in 1 .. Len(stream)
  PROVE  /\ q \in Nat /\ stream[q].kind \in Kinds
         /\ stream[q].place \in Nat \ {0} /\ stream[q].size \in Nat \ {0}
         /\ stream[q].info \in {"none", "valid", "invalid", "garbled"}
         /\ stream[q].says \in Nat /\ (stream[q].says > 0 => stream[q].says >= PreHdrLen)
         /\ stream[q].fits \in BOOLEAN
<1>1. stream[q] \in Cell /\ q \in Nat
  BY WindowFacts
<1>2. \A n \in {0} \cup {n \in Nat : n >= PreHdrLen} : n \in Nat /\ (n > 0 => n >= PreHdrLen)
  BY LengthFacts
<1> QED BY <1>1, <1>2 DEF Cell

(* What is known of the tokens in an item.                                 *)
LEMMA ItemFacts ==
  ASSUME WindowOK, NEW q \in 1 .. Len(stream)
  PROVE  /\ stream[q].kind \in {"channel", "invalid"} =>
               IF stream[q].place = 1
               THEN /\ stream[q].size = ChanInfoLen /\ stream[q].says = 0
                    /\ stream[q].kind = "channel" => stream[q].info = "valid"
                    /\ stream[q].kind = "invalid" => stream[q].info = "invalid"
               ELSE stream[q].info = "none" /\ stream[q].says = 0
         /\ stream[q].kind \in {"packet", "corrupt"} /\ stream[q].place = 1 =>
               /\ stream[q].says = stream[q].size /\ stream[q].size > PreHdrLen
               /\ stream[q].info = "none" /\ (stream[q].fits <=> stream[q].kind = "packet")
<1>1. IF stream[q].place = 1 THEN BeginsItem(stream[q]) ELSE WithinItem(stream[q])
  BY StreamsAssumption DEF WindowOK
<1>2. CASE stream[q].place = 1
  BY <1>1, <1>2 DEF BeginsItem
<1>3. CASE stream[q].place # 1
  BY <1>1, <1>3 DEF WithinItem
<1> QED BY <1>2, <1>3

(* Inside an item no other begins.                                         *)
LEMMA InsideItem ==
  ASSUME WindowOK, NEW p \in 1 .. Len(stream), NEW q \in 1 .. Len(stream),
         stream[p].place = 1, p < q, q < p + stream[p].size
  PROVE  stream[q].kind = stream[p].kind /\ stream[q].place # 1
<1>1. p \in Nat /\ q \in Nat
  BY WindowFacts
<1>2. SameItem(stream[p], stream[q]) /\ stream[q].place = q - p + 1
  BY <1>1, StreamsAssumption DEF WindowOK
<1> QED BY <1>1, <1>2 DEF SameItem

LEMMA ItemStart ==
  ASSUME WindowOK, NEW q \in 1 .. Len(stream)
  PROVE  /\ q - (stream[q].place - 1) \in 1 .. q
         /\ stream[q - (stream[q].place - 1)].kind = stream[q].kind
         /\ stream[q - (stream[q].place - 1)].place = 1
<1>1. stream[q].place \in Nat \ {0} /\ q \in Nat
  BY CellFacts
<1>2. /\ stream[q].place <= q
      /\ SameItem(stream[q], stream[q - stream[q].place + 1])
      /\ stream[q - stream[q].place + 1].place = 1
  BY StreamsAssumption DEF WindowOK
<1>3. q - stream[q].place + 1 = q - (stream[q].place - 1)
  BY <1>1
<1> QED BY <1>1, <1>2, <1>3 DEF SameItem

-----------------------------------------------------------------------------
(* What misleads the parser before an item does so behind it.              *)
LEMMA MisledBehind ==
  ASSUME WindowOK, NEW p \in Ring, NEW r \in Ring, p <= r, Misled(p)
  PROVE  Misled(r)
<1>1. PICK q \in gone + 1 .. p :
        /\ stream[q].info # "none" \/ stream[q].says > 0
        /\ stream[q].kind = "other" \/ q - (stream[q].place - 1) <= gone
  BY DEF Misled
<1>2. q \in gone + 1 .. r
  BY WindowFacts
<1> QED BY <1>1, <1>2 DEF Misled

(* A token that does not mislead is the one of channel information, or it  *)
(* is in a packet, with the packet's own token before it on the ring.      *)
LEMMA TokenOrigin ==
  ASSUME WindowOK, NEW p \in Ring, ~Misled(p), NEW q \in Ring, q <= p,
         stream[q].info # "none" \/ stream[q].says > 0
  PROVE  \/ /\ stream[q].kind \in {"channel", "invalid"} /\ stream[q].place = 1
            /\ stream[q].says = 0
         \/ \E b \in AdcTokens : /\ b <= q /\ stream[b].place = 1
                               /\ stream[b].kind \in {"packet", "corrupt"}
<1>1. q \in 1 .. Len(stream) /\ q \in Nat /\ p \in Nat /\ gone \in Nat /\ gone < q
  BY WindowFacts
<1> DEFINE b == q - (stream[q].place - 1)
<1>2. b \in 1 .. q /\ stream[b].kind = stream[q].kind /\ stream[b].place = 1
  BY <1>1, ItemStart
<1>3. stream[q].kind # "other" /\ ~(b <= gone)
  <2>1. q \in gone + 1 .. p
    BY <1>1
  <2> QED BY <2>1 DEF Misled
<1>4. stream[q].kind \in Kinds
  BY <1>1, CellFacts
<1>5. CASE stream[q].kind \in {"channel", "invalid"}
  BY <1>1, <1>5, ItemFacts
<1>6. CASE stream[q].kind \in {"packet", "corrupt"}
  <2> HIDE DEF b
  <2>1. b \in Ring
    BY <1>1, <1>2, <1>3, WindowFacts DEF Ring
  <2>2. b \in 1 .. Len(stream)
    BY <2>1, WindowFacts
  <2>3. stream[b].says = stream[b].size /\ stream[b].size > PreHdrLen
    BY <1>2, <1>6, <2>2, ItemFacts
  <2>4. stream[b].says > 0
    BY <2>2, <2>3, CellFacts, LengthFacts
  <2>5. b \in AdcTokens
    BY <2>1, <2>4 DEF AdcTokens
  <2>6. b <= q
    BY <1>1, <1>2
  <2> QED BY <1>2, <1>6, <2>5, <2>6
<1> QED BY <1>3, <1>4, <1>5, <1>6 DEF Kinds

-----------------------------------------------------------------------------
(* What the searches find.                                                 *)

LEMMA SearchFinds ==
  ASSUME WindowOK, NEW tokens \in SUBSET Ring, NEW len
  PROVE  /\ Search(tokens, len) # None =>
               Search(tokens, len) \in tokens /\ Search(tokens, len) + len - 1 <= arrived
         /\ \A q \in tokens : q + len - 1 <= arrived =>
               Search(tokens, len) # None /\ Search(tokens, len) <= q
<1> DEFINE S == {q \in tokens : q + len - 1 <= arrived}
<1>1. Search(tokens, len) = First(S)
  BY DEF Search
<1>2. S \in SUBSET (1 .. arrived) /\ arrived \in Nat
  BY WindowFacts
<1>3. /\ S = {} => First(S) = None
      /\ S # {} => First(S) \in S /\ First(S) # None /\ \A q \in S : First(S) <= q
  <2> HIDE DEF S
  <2> QED BY <1>2, FirstFound
<1> QED BY <1>1, <1>3

LEMMA ChanInfoFound ==
  ASSUME WindowOK, FindChanInfo # None
  PROVE  /\ FindChanInfo \in Ring /\ FindChanInfo \in Nat
         /\ FindChanInfo - 1 + ChanInfoLen <= arrived
         /\ stream[FindChanInfo].info \in {"valid", "invalid"}
         /\ \A q \in ChanTokens : q + ChanTokenLen - 1 <= arrived => FindChanInfo <= q
<1>1. ChanTokens \in SUBSET Ring
  BY DEF ChanTokens
<1> DEFINE P == Search(ChanTokens, ChanTokenLen)
<1>2. /\ P # None => P \in ChanTokens
      /\ \A q \in ChanTokens : q + ChanTokenLen - 1 <= arrived => P # None /\ P <= q
  <2> HIDE DEF P
  <2> QED BY <1>1, SearchFinds DEF P
<1>3. FindChanInfo = P /\ P # None /\ ~(arrived < P - 1 + ChanInfoLen)
      /\ stream[P].info # "garbled"
  BY DEF FindChanInfo
<1> HIDE DEF P
<1>4. P \in Ring /\ P \in Nat /\ P \in 1 .. Len(stream) /\ stream[P].info # "none"
  BY <1>2, <1>3, WindowFacts DEF ChanTokens
<1>5. arrived \in Nat /\ ChanInfoLen \in Nat
  BY WindowFacts, LengthFacts
<1>6. stream[P].info \in {"valid", "invalid"}
  BY <1>3, <1>4, CellFacts
<1> QED BY <1>2, <1>3, <1>4, <1>5, <1>6

LEMMA AdcDataFound ==
  ASSUME WindowOK
  PROVE  /\ FindAdcData # None =>
               /\ ~inhibit /\ FindAdcData \in AdcTokens /\ FindAdcData \in Ring
               /\ FindAdcData \in Nat /\ FindAdcData + AdcTokenLen - 1 <= arrived
         /\ ~inhibit => \A q \in AdcTokens : q + AdcTokenLen - 1 <= arrived =>
               FindAdcData # None /\ FindAdcData <= q
<1>1. AdcTokens \in SUBSET Ring
  BY DEF AdcTokens
<1>2. \A q \in Ring : q \in Nat
  BY WindowFacts
<1> QED BY <1>1, <1>2, SearchFinds DEF FindAdcData

(* Whole channel information that nothing misleading is before is found,   *)
(* or other channel information before it, unless it is diverted from; and *)
(* then a pass that looks for packets finds one before it.                 *)
LEMMA ChannelFound ==
  ASSUME WindowOK, NEW p \in Ring, Sound(p), stream[p].kind = "channel", Whole(p), ~Misled(p)
  PROVE  \/ FindChanInfo # None /\ FindChanInfo <= p
         \/ Diverted(p) /\ (~inhibit => FindAdcData # None /\ FindAdcData < p)
<1>1. /\ p \in 1 .. Len(stream) /\ p \in Nat /\ gone < p /\ gone \in Nat /\ arrived \in Nat
      /\ stream[p].info = "valid" /\ stream[p].size = ChanInfoLen /\ p \in ChanTokens
  <2>1. p \in 1 .. Len(stream) /\ p \in Nat /\ gone < p /\ gone \in Nat /\ arrived \in Nat
    BY WindowFacts
  <2>2. stream[p].info = "valid" /\ stream[p].size = ChanInfoLen
    BY <2>1, ItemFacts DEF Sound
  <2> QED BY <2>1, <2>2 DEF ChanTokens
<1>2. p + ChanInfoLen - 1 <= arrived
  BY <1>1 DEF Whole
<1>3. p + ChanTokenLen - 1 <= arrived
  BY <1>1, <1>2, LengthFacts
<1> DEFINE P == Search(ChanTokens, ChanTokenLen)
<1>4. P \in ChanTokens /\ P # None /\ P <= p
  <2>1. ChanTokens \in SUBSET Ring
    BY DEF ChanTokens
  <2> HIDE DEF P
  <2> QED BY <1>1, <1>3, <2>1, SearchFinds DEF P
<1>5. P \in Nat /\ P \in Ring /\ gone < P /\ stream[P].info # "none"
  <2> HIDE DEF P
  <2> QED BY <1>4, WindowFacts DEF ChanTokens
<1>6. CASE stream[P].info = "garbled"
  <2> HIDE DEF P
  <2>1. P # p
    BY <1>1, <1>6
  <2>2. P \in gone + 1 .. p - 1
    BY <1>1, <1>4, <1>5, <2>1
  <2>3. Diverted(p)
    BY <1>6, <2>2 DEF Diverted
  <2>4. ASSUME ~inhibit PROVE FindAdcData # None /\ FindAdcData < p
    <3>1. PICK b \in AdcTokens : b <= P
      <4>1. ~(stream[P].kind \in {"channel", "invalid"} /\ stream[P].place = 1)
        <5>1. P \in 1 .. Len(stream)
          BY <1>5, WindowFacts
        <5> QED BY <1>6, <5>1, ItemFacts
      <4> QED BY <1>4, <1>5, <4>1, TokenOrigin
    <3>2. b \in Nat
      BY WindowFacts DEF AdcTokens
    <3>3. b + AdcTokenLen - 1 <= arrived
      BY <1>1, <1>2, <1>4, <1>5, <3>1, <3>2, LengthFacts
    <3>4. FindAdcData # None /\ FindAdcData <= b
      BY <2>4, <3>3, AdcDataFound
    <3>5. FindAdcData \in Nat
      BY <3>4, AdcDataFound
    <3> QED BY <1>1, <1>5, <2>2, <3>1, <3>2, <3>4, <3>5
  <2> QED BY <2>3, <2>4
<1>7. CASE stream[P].info # "garbled"
  <2>1. ~(arrived < P - 1 + ChanInfoLen)
    <3> HIDE DEF P
    <3> QED BY <1>1, <1>2, <1>4, <1>5, LengthFacts
  <2>2. FindChanInfo = P
    BY <1>4, <1>7, <2>1 DEF FindChanInfo
  <2> QED BY <1>4, <2>2
<1> QED BY <1>6, <1>7

LEMMA PacketFound ==
  ASSUME WindowOK, NEW p \in Ring, Sound(p), stream[p].kind # "channel", ~inhibit,
         p + AdcTokenLen - 1 <= arrived
  PROVE  FindAdcData # None /\ FindAdcData <= p /\ FindAdcData \in Nat
<1>1. p \in 1 .. Len(stream)
  BY WindowFacts
<1>2. stream[p].says = stream[p].size /\ stream[p].size > PreHdrLen
  BY <1>1, ItemFacts DEF Sound
<1>3. stream[p].says > 0
  BY <1>1, <1>2, CellFacts, LengthFacts
<1>4. p \in AdcTokens
  BY <1>3 DEF AdcTokens
<1> QED BY <1>4, AdcDataFound

(* How the order of the two searches decides.                              *)
LEMMA AdcDataNext ==
  ASSUME WindowOK, AdcDataIsNext
  PROVE  /\ ~inhibit /\ FindAdcData \in AdcTokens /\ FindAdcData \in Ring
         /\ FindAdcData \in Nat
         /\ ~Misled(FindAdcData) => /\ stream[FindAdcData].place = 1
                                    /\ stream[FindAdcData].kind \in {"packet", "corrupt"}
         /\ \A p \in Ring : Sound(p) /\ p < FindAdcData => Misled(p)
<1> DEFINE A == FindAdcData
<1>1. /\ ~inhibit /\ A \in AdcTokens /\ A \in Ring /\ A \in Nat
      /\ A + AdcTokenLen - 1 <= arrived
      /\ \A q \in AdcTokens : q + AdcTokenLen - 1 <= arrived => A <= q
  BY AdcDataFound DEF AdcDataIsNext
<1>2. /\ A <= arrived /\ arrived \in Nat /\ A \in 1 .. Len(stream) /\ stream[A].says > 0
  BY <1>1, WindowFacts DEF AdcTokens
<1>3. FindChanInfo # None => A <= FindChanInfo /\ FindChanInfo \in Nat
  <2>1. FindChanInfo # None => FindChanInfo \in Nat
    BY ChanInfoFound
  <2> QED BY <1>1, <2>1 DEF AdcDataIsNext, ChanInfoIsNext
<1> HIDE DEF A
<1>4. ASSUME ~Misled(A)
      PROVE  stream[A].place = 1 /\ stream[A].kind \in {"packet", "corrupt"}
  <2>1. A <= A
    BY <1>1
  <2>2. PICK b \in AdcTokens : /\ b <= A /\ stream[b].place = 1
                              /\ stream[b].kind \in {"packet", "corrupt"}
    <3>1. ~(stream[A].says = 0)
      BY <1>2
    <3> QED BY <1>1, <1>2, <1>4, <2>1, <3>1, TokenOrigin
  <2>3. b \in Nat
    BY WindowFacts DEF AdcTokens
  <2>4. b + AdcTokenLen - 1 <= arrived
    BY <1>1, <1>2, <2>2, <2>3, LengthFacts
  <2>5. A <= b
    BY <1>1, <2>4
  <2>6. A = b
    BY <1>1, <2>2, <2>3, <2>5
  <2> QED BY <2>2, <2>6
<1>5. ASSUME NEW p \in Ring, Sound(p), p < A, ~Misled(p) PROVE FALSE
  <2>1. p \in Nat /\ p \in 1 .. Len(stream) /\ stream[p].place = 1
    BY <1>5, WindowFacts DEF Sound
  <2>2. CASE stream[p].kind # "channel"
    <3>1. p + AdcTokenLen - 1 <= arrived
      BY <1>1, <1>2, <1>5, <2>1, LengthFacts
    <3>2. A <= p
      BY <1>1, <1>5, <2>2, <3>1, PacketFound DEF A
    <3> QED BY <1>1, <1>5, <2>1, <3>2
  <2>3. CASE stream[p].kind = "channel"
    <3>1. stream[p].size = ChanInfoLen
      BY <2>1, <2>3, ItemFacts
    <3>2. p + ChanInfoLen <= A
      <4>1. SUFFICES ASSUME A < p + stream[p].size PROVE FALSE
        BY <1>1, <2>1, <3>1, LengthFacts
      <4>2. stream[A].kind = "channel" /\ stream[A].place # 1
        BY <1>2, <1>5, <2>1, <2>3, <4>1, InsideItem
      <4>3. stream[A].says = 0
        BY <1>2, <4>2, ItemFacts
      <4> QED BY <1>2, <4>3
    <3>3. Whole(p)
      BY <1>1, <1>2, <2>1, <3>1, <3>2, LengthFacts DEF Whole
    <3>4. \/ FindChanInfo # None /\ FindChanInfo <= p
          \/ A # None /\ A < p
      BY <1>1, <1>5, <2>3, <3>3, ChannelFound DEF A
    <3> QED BY <1>1, <1>3, <1>5, <2>1, <3>4
  <2> QED BY <2>2, <2>3
<1> QED BY <1>1, <1>4, <1>5 DEF A

LEMMA ChanInfoNext ==
  ASSUME WindowOK, ChanInfoIsNext
  PROVE  /\ FindChanInfo \in Ring /\ FindChanInfo \in Nat
         /\ FindChanInfo - 1 + ChanInfoLen \in Nat /\ FindChanInfo - 1 + ChanInfoLen <= arrived
         /\ gone < FindChanInfo - 1 + ChanInfoLen
         /\ stream[FindChanInfo].info \in {"valid", "invalid"}
         /\ ~inhibit /\ ~Misled(FindChanInfo) =>
               /\ stream[FindChanInfo].place = 1
               /\ stream[FindChanInfo].kind \in {"channel", "invalid"}
         /\ \A p \in Ring : Sound(p) /\ p < FindChanInfo =>
               inhibit /\ stream[p].kind # "channel"
<1> DEFINE P == FindChanInfo
<1>1. /\ P \in Ring /\ P \in Nat /\ P - 1 + ChanInfoLen <= arrived
      /\ stream[P].info \in {"valid", "invalid"}
      /\ \A q \in ChanTokens : q + ChanTokenLen - 1 <= arrived => P <= q
  BY ChanInfoFound DEF ChanInfoIsNext
<1>2. FindAdcData = None \/ P < FindAdcData
  BY DEF ChanInfoIsNext
<1> HIDE DEF P
<1>3. gone \in Nat /\ arrived \in Nat /\ gone < P /\ P \in 1 .. Len(stream)
  BY <1>1, WindowFacts
<1>4. ASSUME ~inhibit, NEW b \in AdcTokens, b <= P PROVE FALSE
  <2>1. b \in Nat
    BY WindowFacts DEF AdcTokens
  <2>2. b + AdcTokenLen - 1 <= arrived
    BY <1>1, <1>3, <1>4, <2>1, LengthFacts
  <2>3. FindAdcData # None /\ FindAdcData <= b
    BY <1>4, <2>2, AdcDataFound
  <2>4. FindAdcData \in Nat
    BY <2>3, AdcDataFound
  <2> QED BY <1>1, <1>2, <1>4, <2>1, <2>3, <2>4
<1>5. ASSUME ~inhibit, ~Misled(P)
      PROVE  stream[P].place = 1 /\ stream[P].kind \in {"channel", "invalid"}
  <2>1. P <= P
    BY <1>1
  <2>2. stream[P].info # "none"
    BY <1>1
  <2> QED BY <1>1, <1>4, <1>5, <2>1, <2>2, TokenOrigin
<1>6. ASSUME NEW p \in Ring, Sound(p), p < P
      PROVE  inhibit /\ stream[p].kind # "channel"
  <2>1. p \in Nat /\ p \in 1 .. Len(stream)
    BY WindowFacts
  <2>2. stream[p].kind # "channel"
    <3>1. SUFFICES ASSUME stream[p].kind = "channel" PROVE FALSE
      OBVIOUS
    <3>2. stream[p].info = "valid"
      BY <1>6, <2>1, <3>1, ItemFacts DEF Sound
    <3>3. p \in ChanTokens
      BY <3>2 DEF ChanTokens
    <3>4. p + ChanTokenLen - 1 <= arrived
      BY <1>1, <1>3, <1>6, <2>1, LengthFacts
    <3>5. P <= p
      BY <1>1, <3>3, <3>4
    <3> QED BY <1>1, <1>6, <2>1, <3>5
  <2>3. inhibit
    <3>1. SUFFICES ASSUME ~inhibit PROVE FALSE
      OBVIOUS
    <3>2. p + AdcTokenLen - 1 <= arrived
      BY <1>1, <1>3, <1>6, <2>1, LengthFacts
    <3>3. FindAdcData # None /\ FindAdcData <= p /\ FindAdcData \in Nat
      BY <1>6, <2>2, <3>1, <3>2, PacketFound
    <3> QED BY <1>1, <1>2, <1>6, <2>1, <3>3
  <2> QED BY <2>2, <2>3
<1>7. P - 1 + ChanInfoLen \in Nat /\ gone < P - 1 + ChanInfoLen
  BY <1>1, <1>3, LengthFacts
<1> QED BY <1>1, <1>5, <1>6, <1>7 DEF P

-----------------------------------------------------------------------------
(* A pass that was not ended by anything found no channel information at   *)
(* its end.                                                                *)
NothingMore == pc = "finish" /\ ~failed => FindChanInfo = None

(* What was handled is gone from the ring.                                 *)
HandledGone == \A i \in DOMAIN handled : handled[i] <= gone

IInv ==
    /\ stream \in Streams
    /\ TypeOK /\ HandledGone /\ PassLeavesNothing /\ NothingMore

LEMMA WindowFromIInv == IInv => WindowOK
BY DEF IInv, TypeOK, WindowOK

LEMMA InitIInv == Init => IInv
<1> SUFFICES ASSUME Init PROVE IInv
  OBVIOUS
<1>1. stream \in Seq(Cell) /\ Len(stream) \in Nat
  BY StreamsAssumption DEF Init
<1>2. Capacity \in Nat /\ Stored = 0
  BY LengthFacts DEF Init, Stored
<1>3. handled \in Seq(1 .. Len(stream)) /\ DOMAIN handled = {}
  BY EmptySeq DEF Init
<1>4. TypeOK
  <2>1. arrived \in 0 .. Len(stream) /\ gone \in 0 .. arrived /\ Stored <= Capacity
    BY <1>1, <1>2 DEF Init
  <2>2. pending \in BOOLEAN /\ inhibit \in BOOLEAN /\ news \in BOOLEAN /\ failed \in BOOLEAN
    BY DEF Init
  <2>3. pc \in {"receive", "check", "finish", "failed"}
    BY DEF Init
  <2> QED BY <1>1, <1>3, <2>1, <2>2, <2>3 DEF TypeOK
<1> QED
  BY <1>3, <1>4 DEF Init, IInv, HandledGone, PassLeavesNothing, NothingMore

(* Handling one more item, and removing it from the ring.                  *)
LEMMA HandlesOne ==
  ASSUME IInv, NEW p \in Ring, handled' = Append(handled, p),
         gone' \in Nat, p <= gone', gone <= gone'
  PROVE  /\ handled' \in Seq(1 .. Len(stream)) /\ HandledGone'
         /\ \E i \in DOMAIN handled' : handled'[i] = p
         /\ \A i \in DOMAIN handled : handled[i] < p
<1>1. handled \in Seq(1 .. Len(stream)) /\ p \in 1 .. Len(stream) /\ p \in Nat /\ gone < p
      /\ gone \in Nat /\ Len(stream) \in Nat
  BY WindowFromIInv, WindowFacts DEF IInv, TypeOK
<1>2. /\ handled' \in Seq(1 .. Len(stream)) /\ Len(handled) \in Nat
      /\ DOMAIN handled = 1 .. Len(handled)
      /\ DOMAIN handled' = 1 .. Len(handled) + 1
      /\ handled'[Len(handled) + 1] = p
      /\ \A i \in 1 .. Len(handled) : handled'[i] = handled[i] /\ handled[i] \in Nat
  <2>1. handled' \in Seq(1 .. Len(stream)) /\ Len(handled') = Len(handled) + 1
    BY <1>1, AppendProperties
  <2> QED BY <1>1, <2>1, AppendProperties
<1>3. \A i \in 1 .. Len(handled) : handled[i] <= gone
  BY <1>2 DEF IInv, HandledGone
<1>4. \A i \in 1 .. Len(handled) + 1 : i \in 1 .. Len(handled) \/ i = Len(handled) + 1
  BY <1>2
<1>5. \A i \in 1 .. Len(handled) : handled'[i] <= gone'
  BY <1>1, <1>2, <1>3
<1>6. HandledGone'
  BY <1>2, <1>4, <1>5 DEF HandledGone
<1>7. \A i \in DOMAIN handled : handled[i] < p
  BY <1>1, <1>2, <1>3
<1>8. Len(handled) + 1 \in DOMAIN handled'
  BY <1>2
<1> QED BY <1>2, <1>6, <1>7, <1>8

LEMMA HandlesNone ==
  ASSUME IInv, UNCHANGED handled, gone' \in Nat, gone <= gone'
  PROVE  handled' \in Seq(1 .. Len(stream)) /\ HandledGone'
<1>1. gone \in Nat /\ handled \in Seq(1 .. Len(stream)) /\ Len(stream) \in Nat
  BY WindowFromIInv, WindowFacts DEF IInv, TypeOK
<1>2. \A i \in DOMAIN handled : handled[i] \in Nat
  BY <1>1
<1>3. \A i \in DOMAIN handled : handled[i] <= gone'
  BY <1>1, <1>2 DEF IInv, HandledGone
<1> QED BY <1>1, <1>3 DEF HandledGone

-----------------------------------------------------------------------------
(* The steps, each with what it handles and what it loses.                 *)

Unhandled(p) == \A i \in DOMAIN handled : handled[i] # p

Excused(p) ==
    \/ Misled(p)
    \/ inhibit /\ \/ stream[p].kind # "channel" \/ ~Whole(p)
                  \/ failed \/ Diverted(p)

Entitled(p) == Sound(p) \/ Misled(p) \/ (inhibit /\ stream[p].info = "valid")

Handles ==
    \E p \in Ring :
       /\ handled' = Append(handled, p) /\ p <= gone'
       /\ \A i \in DOMAIN handled : handled[i] < p
       /\ Entitled(p)

LEMMA GetChanInfoKeeps ==
  ASSUME IInv, GetChanInfo
  PROVE  /\ IInv'
         /\ handled' # handled => Handles
         /\ \A p \in Ring : Sound(p) /\ p <= gone' /\ Unhandled(p)' => Excused(p)
<1> DEFINE P == FindChanInfo
<1>1. WindowOK /\ ChanInfoIsNext
  BY WindowFromIInv DEF GetChanInfo
<1>2. /\ P \in Ring /\ P \in Nat /\ P - 1 + ChanInfoLen \in Nat
      /\ P - 1 + ChanInfoLen <= arrived /\ gone < P - 1 + ChanInfoLen
      /\ stream[P].info \in {"valid", "invalid"}
      /\ ~inhibit /\ ~Misled(P) =>
            stream[P].place = 1 /\ stream[P].kind \in {"channel", "invalid"}
      /\ \A p \in Ring : Sound(p) /\ p < P => inhibit /\ stream[p].kind # "channel"
  BY <1>1, ChanInfoNext
<1>3. /\ gone' = P - 1 + ChanInfoLen /\ UNCHANGED <<stream, arrived, pending, inhibit>>
      /\ \/ /\ stream[P].info = "valid" /\ news' = TRUE
            /\ handled' = Append(handled, P) /\ UNCHANGED <<pc, failed>>
         \/ /\ stream[P].info # "valid" /\ pc' = "finish" /\ failed' = TRUE
            /\ UNCHANGED <<news, handled>>
      /\ pc = "check"
  BY DEF GetChanInfo
<1> HIDE DEF P
<1>4. /\ gone \in Nat /\ arrived \in Nat /\ P <= gone' /\ gone <= gone' /\ gone' <= arrived
      /\ Len(stream) \in Nat /\ gone' \in Nat /\ arrived <= Len(stream) /\ gone < P
      /\ P \in 1 .. Len(stream)
  BY <1>1, <1>2, <1>3, WindowFacts, LengthFacts
<1>5. /\ handled' \in Seq(1 .. Len(stream)) /\ HandledGone'
      /\ stream[P].info = "valid" => /\ \E i \in DOMAIN handled' : handled'[i] = P
                                     /\ \A i \in DOMAIN handled : handled[i] < P
  BY <1>2, <1>3, <1>4, HandlesOne, HandlesNone
<1>6. TypeOK'
  <2>1. gone' \in 0 .. arrived' /\ Stored' <= Capacity
    BY <1>3, <1>4, LengthFacts DEF Stored, IInv, TypeOK
  <2>2. pc' \in {"receive", "check", "finish", "failed"} /\ news' \in BOOLEAN
        /\ failed' \in BOOLEAN
    BY <1>3 DEF IInv, TypeOK
  <2> QED BY <1>3, <1>5, <2>1, <2>2 DEF IInv, TypeOK
<1>7. pc' = "finish" => /\ failed' /\ gone' >= ChanInfoLen
                        /\ stream[gone' - ChanInfoLen + 1].info = "invalid"
  <2>1. gone' - ChanInfoLen + 1 = P /\ gone' >= ChanInfoLen
    BY <1>2, <1>3, <1>4, LengthFacts
  <2> QED BY <1>2, <1>3, <2>1
<1>8. PassLeavesNothing' /\ NothingMore'
  BY <1>3, <1>7 DEF PassLeavesNothing, NothingMore
<1>9. ASSUME NEW p \in Ring, Sound(p), p <= gone', Unhandled(p)' PROVE Excused(p)
  <2>1. p \in Nat /\ p \in 1 .. Len(stream)
    BY <1>1, WindowFacts
  <2>2. CASE p < P
    BY <1>2, <1>9, <2>2 DEF Excused
  <2>3. CASE p = P
    <3>1. stream[P].info = "valid"
      BY <1>1, <1>2, <1>4, <1>9, <2>3, ItemFacts DEF Sound
    <3> QED BY <1>5, <1>9, <2>3, <3>1 DEF Unhandled
  <2>4. CASE p > P /\ inhibit
    <3>1. P \in gone + 1 .. p - 1
      BY <1>2, <1>4, <2>1, <2>4
    <3>2. p < P + ChanInfoLen
      BY <1>2, <1>3, <1>9, <2>1, LengthFacts
    <3>3. Diverted(p)
      BY <1>2, <3>1, <3>2 DEF Diverted
    <3> QED BY <2>4, <3>3 DEF Excused
  <2>5. CASE p > P /\ ~inhibit
    <3>1. CASE Misled(P)
      BY <1>1, <1>2, <1>9, <2>1, <2>5, <3>1, MisledBehind DEF Excused
    <3>2. CASE ~Misled(P)
      <4>1. stream[P].place = 1 /\ stream[P].kind \in {"channel", "invalid"}
        BY <1>2, <2>5, <3>2
      <4>2. stream[P].size = ChanInfoLen
        BY <1>1, <1>4, <4>1, ItemFacts
      <4>3. p < P + stream[P].size
        BY <1>2, <1>3, <1>9, <2>1, <4>2, LengthFacts
      <4> QED BY <1>1, <1>4, <1>9, <2>1, <2>5, <4>1, <4>3, InsideItem DEF Sound
    <3> QED BY <3>1, <3>2
  <2> QED BY <1>2, <2>1, <2>2, <2>3, <2>4, <2>5
<1>10. ASSUME handled' # handled PROVE Handles
  <2>1. stream[P].info = "valid" /\ handled' = Append(handled, P)
    BY <1>3, <1>10
  <2>2. Entitled(P)
    <3>1. CASE ~inhibit /\ ~Misled(P)
      <4>1. stream[P].place = 1 /\ stream[P].kind = "channel"
        BY <1>1, <1>2, <1>4, <2>1, <3>1, ItemFacts
      <4> QED BY <4>1 DEF Entitled, Sound
    <3>2. CASE inhibit \/ Misled(P)
      BY <2>1, <3>2 DEF Entitled
    <3> QED BY <3>1, <3>2
  <2> QED BY <1>2, <1>4, <1>5, <2>1, <2>2 DEF Handles
<1>11. stream' \in Streams
  BY <1>3 DEF IInv
<1> QED BY <1>5, <1>6, <1>8, <1>9, <1>10, <1>11 DEF IInv

(* Removing what is before the token of a packet loses nothing that was    *)
(* not behind something misleading.                                        *)
LEMMA RemovesBefore ==
  ASSUME IInv, AdcDataIsNext, pc' \in {"finish", "failed"}, gone' = FindAdcData - 1,
         UNCHANGED <<stream, arrived, pending, inhibit, news, handled>>, failed' \in BOOLEAN
  PROVE  /\ stream' \in Streams /\ TypeOK' /\ HandledGone'
         /\ gone' \in Nat /\ gone' < FindAdcData /\ FindAdcData <= arrived
         /\ \A p \in Ring : Sound(p) /\ p <= gone' => Excused(p)
<1> DEFINE A == FindAdcData
<1>1. WindowOK
  BY WindowFromIInv
<1>2. A \in Ring /\ A \in Nat /\ \A p \in Ring : Sound(p) /\ p < A => Misled(p)
  BY <1>1, AdcDataNext
<1>3. gone' = A - 1
  OBVIOUS
<1> HIDE DEF A
<1>4. /\ gone \in Nat /\ arrived \in Nat /\ Len(stream) \in Nat /\ gone < A /\ A <= arrived
      /\ arrived <= Len(stream) /\ gone' \in Nat /\ gone <= gone' /\ gone' <= arrived
  BY <1>1, <1>2, <1>3, WindowFacts
<1>5. handled' \in Seq(1 .. Len(stream)) /\ HandledGone'
  BY <1>4, HandlesNone
<1>6. TypeOK'
  <2>1. gone' \in 0 .. arrived' /\ Stored' <= Capacity
    BY <1>3, <1>4, LengthFacts DEF Stored, IInv, TypeOK
  <2>2. pc' \in {"receive", "check", "finish", "failed"}
    OBVIOUS
  <2> QED BY <1>5, <2>1, <2>2 DEF IInv, TypeOK
<1>7. \A p \in Ring : Sound(p) /\ p <= gone' => Excused(p)
  <2>1. \A p \in Ring : p <= gone' => p < A
    BY <1>1, <1>2, <1>3, WindowFacts
  <2> QED BY <1>2, <2>1 DEF Excused
<1>8. gone' < A
  BY <1>2, <1>3
<1> QED BY <1>4, <1>5, <1>6, <1>7, <1>8 DEF IInv, A

LEMMA FailOnTokenKeeps ==
  ASSUME IInv, FailOnToken
  PROVE  /\ IInv' /\ handled' = handled
         /\ \A p \in Ring : Sound(p) /\ p <= gone' => Excused(p)
<1>1. /\ AdcDataIsNext /\ pc' = "failed" /\ gone' = FindAdcData - 1
      /\ UNCHANGED <<stream, arrived, pending, inhibit, news, failed, handled>>
  BY DEF FailOnToken
<1>2. failed' \in BOOLEAN
  BY <1>1 DEF IInv, TypeOK
<1>3. PassLeavesNothing' /\ NothingMore'
  BY <1>1 DEF PassLeavesNothing, NothingMore
<1> QED BY <1>1, <1>2, <1>3, RemovesBefore DEF IInv

LEMMA AwaitAdcDataKeeps ==
  ASSUME IInv, AwaitAdcData
  PROVE  /\ IInv' /\ handled' = handled
         /\ \A p \in Ring : Sound(p) /\ p <= gone' => Excused(p)
<1> DEFINE A == FindAdcData
<1>1. WindowOK /\ AdcDataIsNext
  BY WindowFromIInv DEF AwaitAdcData
<1>2. /\ A \in AdcTokens /\ A \in Ring /\ A \in Nat
      /\ ~Misled(A) => stream[A].place = 1 /\ stream[A].kind \in {"packet", "corrupt"}
  BY <1>1, AdcDataNext
<1>3. /\ gone' = A - 1 /\ pc' = "finish" /\ failed' = TRUE
      /\ UNCHANGED <<stream, arrived, pending, inhibit, news, handled>>
      /\ Rest(A) <= PreHdrLen \/ Rest(A) < stream[A].says
  BY DEF AwaitAdcData
<1>4. /\ stream' \in Streams /\ TypeOK' /\ HandledGone' /\ gone' < A /\ A <= arrived
      /\ \A p \in Ring : Sound(p) /\ p <= gone' => Excused(p)
  BY <1>1, <1>3, RemovesBefore
<1> HIDE DEF A
<1>5. /\ gone \in Nat /\ arrived \in Nat /\ Len(stream) \in Nat /\ gone < A
      /\ arrived <= Len(stream) /\ A \in 1 .. Len(stream) /\ gone' \in Nat
  BY <1>1, <1>2, <1>3, WindowFacts
<1>6. ASSUME NEW p \in Ring', Sound(p), Whole(p), ~Misled(p)' PROVE FALSE
  <2>1. p \in A .. arrived /\ p \in Nat /\ A <= p
    BY <1>2, <1>3, <1>5, <1>6 DEF Ring
  <2>2. p \in Ring /\ p \in 1 .. Len(stream)
    BY <1>5, <2>1, WindowFacts DEF Ring
  <2>3. A \in gone' + 1 .. p
    BY <1>2, <1>3, <1>5, <2>1
  <2>4. stream[A].kind # "other" /\ ~(A - (stream[A].place - 1) <= gone')
    <3>1. stream[A].says > 0
      BY <1>2 DEF AdcTokens
    <3> QED BY <1>3, <1>6, <2>3, <3>1 DEF Misled
  <2>5. stream[A].place \in Nat \ {0} /\ stream[A].kind \in Kinds /\ stream[A].says > 0
    BY <1>1, <1>2, <1>5, CellFacts DEF AdcTokens
  <2>6. stream[A].place = 1
    BY <1>2, <1>3, <2>4, <2>5
  <2>7. stream[A].kind \in {"packet", "corrupt"} /\ stream[A].says = stream[A].size
        /\ stream[A].size > PreHdrLen
    BY <1>1, <1>5, <2>4, <2>5, <2>6, ItemFacts DEF Kinds
  <2>8. stream[A].size \in Nat
    BY <1>1, <1>5, CellFacts
  <2>9. Rest(A) < stream[A].size
    BY <1>2, <1>3, <1>5, <2>7, <2>8, LengthFacts DEF Rest
  <2>10. arrived < A + stream[A].size - 1
    BY <1>2, <1>5, <2>8, <2>9 DEF Rest
  <2>11. CASE p = A
    BY <1>2, <1>5, <1>6, <2>8, <2>10, <2>11 DEF Whole
  <2>12. CASE p > A
    <3>1. p < A + stream[A].size
      BY <1>2, <1>5, <2>1, <2>8, <2>10
    <3> QED BY <1>1, <1>5, <1>6, <2>2, <2>6, <2>12, <3>1, InsideItem DEF Sound
  <2> QED BY <1>2, <2>1, <2>11, <2>12
<1>7. PassLeavesNothing'
  <2>1. ASSUME NEW p \in Ring', Sound(p)', Whole(p)', ~Misled(p)' PROVE FALSE
    <3>1. Sound(p) /\ Whole(p)
      BY <1>3, <2>1 DEF Sound, Whole
    <3> QED BY <1>6, <2>1, <3>1
  <2> QED BY <2>1 DEF PassLeavesNothing
<1>8. NothingMore'
  BY <1>3 DEF NothingMore
<1> QED BY <1>3, <1>4, <1>7, <1>8 DEF IInv

LEMMA GetAdcDataKeeps ==
  ASSUME IInv, GetAdcData
  PROVE  /\ IInv'
         /\ handled' # handled => Handles
         /\ \A p \in Ring : Sound(p) /\ p <= gone' /\ Unhandled(p)' => Excused(p)
<1> DEFINE A == FindAdcData
<1>1. WindowOK /\ AdcDataIsNext
  BY WindowFromIInv DEF GetAdcData
<1>2. /\ A \in AdcTokens /\ A \in Ring /\ A \in Nat
      /\ ~Misled(A) => stream[A].place = 1 /\ stream[A].kind \in {"packet", "corrupt"}
      /\ \A p \in Ring : Sound(p) /\ p < A => Misled(p)
  BY <1>1, AdcDataNext
<1>3. /\ gone' = A - 1 + stream[A].says /\ Rest(A) >= stream[A].says
      /\ handled' = IF CrcOk(A) THEN Append(handled, A) ELSE handled
      /\ UNCHANGED <<stream, arrived, passVars>> /\ pc = "check"
  BY DEF GetAdcData, Complete
<1> HIDE DEF A
<1>4. A \in 1 .. Len(stream) /\ stream[A].says \in Nat /\ stream[A].says > 0
  BY <1>1, <1>2, WindowFacts, CellFacts DEF AdcTokens
<1>5. /\ gone \in Nat /\ arrived \in Nat /\ Len(stream) \in Nat /\ gone < A /\ A <= arrived
      /\ arrived <= Len(stream) /\ gone' \in Nat /\ gone <= gone' /\ gone' <= arrived
      /\ A <= gone'
  BY <1>1, <1>2, <1>3, <1>4, WindowFacts DEF Rest
<1>6. /\ handled' \in Seq(1 .. Len(stream)) /\ HandledGone'
      /\ CrcOk(A) => /\ \E i \in DOMAIN handled' : handled'[i] = A
                     /\ \A i \in DOMAIN handled : handled[i] < A
  BY <1>2, <1>3, <1>5, HandlesOne, HandlesNone
<1>7. TypeOK'
  <2>1. gone' \in 0 .. arrived' /\ Stored' <= Capacity
    BY <1>3, <1>5, LengthFacts DEF Stored, IInv, TypeOK
  <2> QED BY <1>3, <1>6, <2>1 DEF IInv, TypeOK, passVars
<1>8. PassLeavesNothing' /\ NothingMore' /\ stream' \in Streams
  BY <1>3 DEF PassLeavesNothing, NothingMore, passVars, IInv
<1>9. ~Misled(A) => /\ stream[A].place = 1 /\ stream[A].says = stream[A].size
                    /\ stream[A].fits <=> stream[A].kind = "packet"
  BY <1>1, <1>2, <1>4, ItemFacts
<1>10. ASSUME NEW p \in Ring, Sound(p), p <= gone', Unhandled(p)' PROVE Misled(p)
  <2>1. p \in Nat /\ p \in 1 .. Len(stream)
    BY <1>1, WindowFacts
  <2>2. CASE p < A
    BY <1>2, <1>10, <2>2
  <2>3. CASE Misled(A) /\ A <= p
    BY <1>1, <1>2, <1>10, <2>3, MisledBehind
  <2>4. CASE ~Misled(A) /\ A = p
    <3>1. stream[A].kind = "packet"
      BY <1>2, <1>10, <2>4 DEF Sound
    <3>2. CrcOk(A)
      BY <1>9, <2>4, <3>1 DEF CrcOk
    <3> QED BY <1>6, <1>10, <2>4, <3>2 DEF Unhandled
  <2>5. CASE ~Misled(A) /\ A < p
    <3>1. p < A + stream[A].size
      BY <1>2, <1>3, <1>4, <1>9, <1>10, <2>1, <2>5
    <3> QED BY <1>1, <1>4, <1>9, <1>10, <2>1, <2>5, <3>1, InsideItem DEF Sound
  <2> QED BY <1>2, <2>1, <2>2, <2>3, <2>4, <2>5
<1>11. ASSUME handled' # handled PROVE Handles
  <2>1. stream[A].fits /\ handled' = Append(handled, A)
    BY <1>3, <1>11 DEF CrcOk
  <2>2. Entitled(A)
    BY <1>9, <2>1 DEF Entitled, Sound
  <2> QED BY <1>2, <1>5, <1>6, <2>1, <2>2 DEF Handles, CrcOk
<1> QED BY <1>6, <1>7, <1>8, <1>10, <1>11 DEF IInv, Excused

(* Steps that leave the window and what was handled as they are.           *)
LEMMA NothingFoundKeeps ==
  ASSUME IInv, NothingFound PROVE IInv'
<1>1. /\ WindowOK /\ FindChanInfo = None /\ FindAdcData = None /\ pc' = "finish"
      /\ UNCHANGED <<stream, arrived, gone, pending, inhibit, news, failed, handled>>
  BY WindowFromIInv DEF NothingFound, windowVars
<1>2. TypeOK' /\ stream' \in Streams /\ HandledGone'
  BY <1>1 DEF IInv, TypeOK, Stored, HandledGone
<1>3. NothingMore'
  <2>1. FindChanInfo' = FindChanInfo
    BY <1>1 DEF FindChanInfo, Search, ChanTokens, Ring
  <2> QED BY <1>1, <2>1 DEF NothingMore
<1>4. ASSUME NEW p \in Ring, Sound(p), Whole(p), ~Misled(p)
      PROVE  inhibit /\ (stream[p].kind # "channel" \/ Diverted(p))
  <2>1. CASE stream[p].kind = "channel"
    BY <1>1, <1>4, <2>1, ChannelFound
  <2>2. CASE stream[p].kind # "channel"
    <3>1. p \in Nat /\ p \in 1 .. Len(stream) /\ arrived \in Nat
      BY <1>1, WindowFacts
    <3>2. stream[p].size > PreHdrLen /\ stream[p].size \in Nat
      BY <1>1, <1>4, <2>2, <3>1, ItemFacts, CellFacts DEF Sound
    <3>3. p + AdcTokenLen - 1 <= arrived
      BY <1>4, <3>1, <3>2, LengthFacts DEF Whole
    <3> QED BY <1>1, <1>4, <2>2, <3>3, PacketFound
  <2> QED BY <2>1, <2>2
<1>5. PassLeavesNothing'
  BY <1>1, <1>4 DEF PassLeavesNothing, Ring, Sound, Whole, Misled, Diverted
<1> QED BY <1>2, <1>3, <1>5 DEF IInv

LEMMA ReceiveKeeps ==
  ASSUME IInv, Receive \/ StartPass PROVE IInv'
<1>1. /\ UNCHANGED <<stream, gone, handled, pending>> /\ pc' \in {"receive", "check"}
      /\ inhibit' \in BOOLEAN /\ news' \in BOOLEAN /\ failed' \in BOOLEAN
  BY DEF Receive, StartPass, windowVars, passVars, IInv, TypeOK
<1>2. arrived' \in 0 .. Len(stream) /\ gone \in 0 .. arrived' /\ Stored' <= Capacity
  <2>1. WindowOK /\ Stored <= Capacity
    BY WindowFromIInv DEF WindowOK
  <2>2. CASE arrived' = arrived
    BY <1>1, <2>1, <2>2 DEF WindowOK, Stored
  <2>3. ASSUME NEW n \in 1 .. Capacity - Stored, arrived + n <= Len(stream), arrived' = arrived + n
        PROVE  arrived' \in 0 .. Len(stream) /\ gone \in 0 .. arrived' /\ Stored' <= Capacity
    <3>1. Capacity \in Nat /\ arrived \in Nat /\ gone \in Nat /\ gone <= arrived
          /\ Stored = arrived - gone /\ Stored' = arrived' - gone /\ Len(stream) \in Nat
      BY <1>1, <2>1, WindowFacts, LengthFacts DEF Stored
    <3>2. n \in Nat /\ n <= Capacity - (arrived - gone)
      BY <2>3, <3>1
    <3>3. arrived' - gone <= Capacity /\ arrived' \in Nat /\ gone <= arrived'
          /\ arrived' <= Len(stream)
      BY <2>3, <3>1, <3>2
    <3>4. Stored' <= Capacity
      BY <3>1, <3>3
    <3>5. arrived' \in 0 .. Len(stream) /\ gone \in 0 .. arrived'
      BY <3>1, <3>3
    <3> QED BY <3>4, <3>5
  <2> QED BY <2>2, <2>3 DEF Receive, StartPass, windowVars
<1>3. TypeOK'
  BY <1>1, <1>2 DEF IInv, TypeOK
<1> QED
  BY <1>1, <1>3 DEF IInv, HandledGone, PassLeavesNothing, NothingMore

LEMMA AcceptKeeps ==
  ASSUME IInv, Accept \/ UNCHANGED vars PROVE IInv'
<1>1. /\ UNCHANGED <<stream, arrived, gone, pc, inhibit, news, failed, handled>>
      /\ pending' \in BOOLEAN
  BY DEF Accept, vars, windowVars, passVars, IInv, TypeOK
<1>2. TypeOK' /\ HandledGone' /\ PassLeavesNothing' /\ NothingMore'
  BY <1>1 DEF IInv, TypeOK, Stored, HandledGone, Sound, PassLeavesNothing, Ring, Whole,
              Misled, Diverted, NothingMore, FindChanInfo, Search, ChanTokens
<1> QED BY <1>1, <1>2 DEF IInv

(* What is removed from the ring makes room on it.                         *)
LEMMA LessLeft ==
  ASSUME NEW a \in Nat, NEW g \in Nat, NEW h \in Nat, NEW c \in Nat, g <= h, a - g <= c
  PROVE  a - h <= c
BY SMT

(* An inhibited pass removes everything; had it found all there is, no     *)
(* sound channel information is among it but what is excused.              *)
LEMMA FinishPassKeeps ==
  ASSUME IInv, FinishPass
  PROVE  /\ IInv' /\ handled' = handled
         /\ \A p \in Ring : Sound(p) /\ p <= gone' => Excused(p)
<1>1. /\ WindowOK /\ pc = "finish" /\ pc' = "receive"
      /\ (gone' = gone \/ (inhibit /\ gone' = arrived))
      /\ UNCHANGED <<stream, arrived, inhibit, news, failed, handled>>
      /\ pending' \in BOOLEAN
  <2>1. pending' \in BOOLEAN
    <3>1. pending \in BOOLEAN
      BY DEF IInv, TypeOK
    <3>2. pending' = pending \/ pending' = TRUE
      BY DEF FinishPass
    <3> QED BY <3>1, <3>2
  <2>2. (gone' = gone \/ (inhibit /\ gone' = arrived))
    <3>1. gone' = IF inhibit /\ Stored > ChanTokenLen THEN arrived ELSE gone
      BY DEF FinishPass
    <3> QED BY <3>1
  <2> QED BY <2>1, <2>2, WindowFromIInv DEF FinishPass
<1>2. gone' \in Nat /\ gone <= gone' /\ gone' <= arrived /\ arrived \in Nat /\ gone \in Nat
  BY <1>1, WindowFacts
<1>3. TypeOK'
  <2>1. gone' \in 0 .. arrived' /\ Stored' <= Capacity
    <3>1. Capacity \in Nat /\ arrived - gone <= Capacity
      BY <1>1, LengthFacts DEF WindowOK, Stored
    <3>2. arrived - gone' <= Capacity /\ gone' \in 0 .. arrived
      <4>1. arrived - gone' <= Capacity
        BY <1>2, <3>1, LessLeft
      <4>2. gone' \in 0 .. arrived
        BY <1>2
      <4> QED BY <4>1, <4>2
    <3>3. arrived' = arrived
      BY <1>1
    <3> QED BY <3>2, <3>3 DEF Stored
  <2> QED BY <1>1, <2>1 DEF IInv, TypeOK
<1>4. HandledGone'
  BY <1>1, <1>2, HandlesNone
<1>5. ASSUME NEW p \in Ring, Sound(p), p <= gone', ~Excused(p) PROVE FALSE
  <2>1. inhibit
    BY <1>1, <1>5, WindowFacts
  <2>2. stream[p].kind = "channel" /\ Whole(p) /\ ~failed /\ ~Misled(p) /\ ~Diverted(p)
    BY <1>5, <2>1 DEF Excused
  <2>3. FindChanInfo = None
    BY <1>1, <2>2 DEF IInv, NothingMore
  <2> QED BY <1>1, <1>5, <2>2, <2>3, ChannelFound
<1> QED
  BY <1>1, <1>3, <1>4, <1>5 DEF IInv, PassLeavesNothing, NothingMore

LEMMA NextIInv == IInv /\ [Next]_vars => IInv'
BY GetChanInfoKeeps, AwaitAdcDataKeeps, FailOnTokenKeeps, GetAdcDataKeeps, NothingFoundKeeps,
   ReceiveKeeps, AcceptKeeps, FinishPassKeeps DEF Next, Pass

LEMMA StepLosesNone ==
  ASSUME IInv, [Next]_vars, NEW p \in Ring, Sound(p), p <= gone', Unhandled(p)'
  PROVE  Excused(p)
<1>1. CASE Receive \/ StartPass \/ NothingFound \/ Accept \/ UNCHANGED vars
  <2>1. gone' = gone
    BY <1>1 DEF Receive, StartPass, NothingFound, Accept, vars, windowVars
  <2> QED BY <2>1, WindowFromIInv, WindowFacts
<1>2. CASE GetChanInfo \/ AwaitAdcData \/ FailOnToken \/ GetAdcData \/ FinishPass
  BY <1>2, GetChanInfoKeeps, AwaitAdcDataKeeps, FailOnTokenKeeps, GetAdcDataKeeps,
     FinishPassKeeps
<1> QED BY <1>1, <1>2 DEF Next, Pass

LEMMA StepHandlesInOrder ==
  ASSUME IInv, [Next]_vars, handled' # handled
  PROVE  Handles
<1>1. GetChanInfo \/ GetAdcData
  BY FailOnTokenKeeps, AwaitAdcDataKeeps, FinishPassKeeps
  DEF Next, Pass, Receive, StartPass, NothingFound, Accept, vars
<1> QED BY <1>1, GetChanInfoKeeps, GetAdcDataKeeps

-----------------------------------------------------------------------------
(* The inductive invariant of the parser, for any streams and sizes.       *)
THEOREM Invariance == Spec => []IInv
BY InitIInv, NextIInv, PTL DEF Spec

(* Type correctness: the ring holds no more than it can, and nothing is    *)
(* removed that was not received.                                          *)
THEOREM TypeCorrect == Spec => []TypeOK
<1>1. IInv => TypeOK
  BY DEF IInv
<1> QED BY <1>1, Invariance, PTL

(* Whatever pieces the stream comes in, items are handled once and in the  *)
(* order they were sent, and bytes not meant as an item only behind        *)
(* something misleading, or as channel information in an inhibited pass.   *)
THEOREM OnceInOrder == Spec => HandledOnceInOrder
<1>1. IInv /\ [Next]_vars =>
        [handled' # handled =>
          \E p \in Ring :
             /\ handled' = Append(handled, p) /\ p <= gone'
             /\ \A i \in DOMAIN handled : handled[i] < p
             /\ Sound(p) \/ Misled(p) \/ (inhibit /\ stream[p].info = "valid")]_vars
  BY StepHandlesInOrder DEF Handles, Entitled
<1> QED BY <1>1, Invariance, PTL DEF Spec, HandledOnceInOrder

(* A pass of check_data leaves no whole sound item behind without reason.  *)
THEOREM PassIsComplete == Spec => []PassLeavesNothing
<1>1. IInv => PassLeavesNothing
  BY DEF IInv
<1> QED BY <1>1, Invariance, PTL

(* No sound item leaves the ring unhandled but for the reasons listed.     *)
THEOREM NoneLost == Spec => NothingLostUnexcused
<1>1. IInv /\ [Next]_vars =>
        [\A p \in Ring :
          Sound(p) /\ p <= gone' /\ (\A i \in DOMAIN handled' : handled'[i] # p)
          => \/ Misled(p)
             \/ inhibit /\ \/ stream[p].kind # "channel" \/ ~Whole(p)
                           \/ failed \/ Diverted(p)]_vars
  BY StepLosesNone DEF Unhandled, Excused
<1> QED BY <1>1, Invariance, PTL DEF Spec, NothingLostUnexcused

-----------------------------------------------------------------------------
(* A round of the pass removes bytes from the ring or is the last one, and *)
(* nothing arrives meanwhile: a pass has no more rounds than the ring has  *)
(* bytes.  Only main's accepting a change comes between them.              *)
PassAdvances ==
    [][pc = "check" =>
          \/ pc' \in {"finish", "failed"} /\ arrived' = arrived
          \/ pc' = "check" /\ arrived' = arrived /\ gone' > gone
          \/ Accept]_vars

(* A round that goes on has found a token that was still on the ring, and  *)
(* what it removes reaches past it, whatever a length field says.          *)
LEMMA RoundRemoves ==
  ASSUME IInv, Next, pc = "check"
  PROVE  \/ pc' \in {"finish", "failed"} /\ arrived' = arrived
         \/ pc' = "check" /\ arrived' = arrived /\ gone' > gone
         \/ Accept
<1>1. WindowOK
  BY WindowFromIInv
<1>2. CASE GetChanInfo
  <2>1. gone < FindChanInfo - 1 + ChanInfoLen
    BY <1>1, <1>2, ChanInfoNext DEF GetChanInfo
  <2> QED BY <1>2, <2>1 DEF GetChanInfo
<1>3. CASE GetAdcData
  <2>1. /\ FindAdcData \in AdcTokens /\ FindAdcData \in Nat /\ FindAdcData \in Ring
        /\ gone < FindAdcData /\ gone \in Nat
    BY <1>1, <1>3, AdcDataNext, WindowFacts DEF GetAdcData
  <2>2. stream[FindAdcData].says \in Nat /\ stream[FindAdcData].says > 0
    BY <1>1, <2>1, WindowFacts, CellFacts DEF AdcTokens
  <2> QED BY <1>3, <2>1, <2>2 DEF GetAdcData, passVars
<1>4. CASE AwaitAdcData \/ FailOnToken \/ NothingFound
  BY <1>4 DEF AwaitAdcData, FailOnToken, NothingFound, windowVars
<1>5. CASE Receive \/ StartPass \/ FinishPass
  BY <1>5 DEF Receive, StartPass, FinishPass
<1> QED BY <1>2, <1>3, <1>4, <1>5 DEF Next, Pass

(* check_data gets on with every round, whatever the server sends.         *)
THEOREM EveryRoundAdvances == Spec => PassAdvances
<1>1. IInv /\ [Next]_vars =>
        [pc = "check" =>
          \/ pc' \in {"finish", "failed"} /\ arrived' = arrived
          \/ pc' = "check" /\ arrived' = arrived /\ gone' > gone
          \/ Accept]_vars
  BY RoundRemoves
<1> QED BY <1>1, Invariance, PTL DEF Spec, PassAdvances
=============================================================================
