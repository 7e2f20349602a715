------------------------ MODULE BytesInBytes_proofs ------------------------
(***************************************************************************)
(* The search is right for every haystack, every needle and every size of  *)
(* a long and a short.                                                     *)
(***************************************************************************)
EXTENDS BytesInBytes, TLAPS

(* Where the needle is looked for at present.                              *)
Start == IF inmatch THEN savedhay ELSE hay

(* What the loop keeps: the needle is nowhere before Start, would have     *)
(* room there, and is there as far as it was compared.                     *)
SearchInvariant ==
    pc = "search" =>
        /\ Start + Len(needle) <= Len(haystack)
        /\ hay = Start + need
        /\ inmatch <=> need > 0
        /\ \A i \in 1 .. need : haystack[Start + i] = needle[i]
        /\ \A p \in 0 .. Start - 1 : ~OccursAt(p)

IInv == TypeOK /\ SearchInvariant /\ ResultIsFirst

LEMMA LengthsAreNat ==
    ASSUME TypeOK
    PROVE  /\ Len(haystack) \in Nat /\ Len(needle) \in Nat \ {0}
           /\ hay \in Nat /\ need \in Nat /\ savedhay \in Nat
<1>1. Len(needle) # 0
  BY DEF TypeOK
<1> QED BY <1>1 DEF TypeOK

LEMMA InitIInv == Init => IInv
<1> SUFFICES ASSUME Init PROVE IInv
  OBVIOUS
<1>1. haystack \in Seq(Byte) /\ needle \in Seq(Byte) /\ needle # << >>
  BY SizesAssumption DEF Init
<1>2. Len(haystack) \in Nat /\ Len(needle) \in Nat
  BY <1>1
<1>3. TypeOK
  <2>1. 0 \in 0 .. Len(haystack) /\ 0 \in 0 .. Len(needle)
    BY <1>2
  <2> QED BY <1>1, <2>1 DEF Init, TypeOK
<1>4. SearchInvariant
  <2>1. Start = 0 /\ need = 0 /\ hay = 0 /\ inmatch = FALSE
    BY DEF Init, Start
  <2>2. 0 + Len(needle) <= Len(haystack)
    BY <1>2 DEF Init
  <2> QED BY <2>1, <2>2 DEF SearchInvariant
<1>5. ResultIsFirst
  BY DEF Init, ResultIsFirst
<1> QED BY <1>3, <1>4, <1>5 DEF IInv

(* A comparison never reaches past either end.                             *)
LEMMA WidthFits ==
    ASSUME TypeOK, Searching
    PROVE  /\ Width \in Nat \ {0}
           /\ hay + Width <= Len(haystack) /\ need + Width <= Len(needle)
  BY LengthsAreNat, SizesAssumption DEF Searching, Width, Fits

LEMMA MatchedKeeps == IInv /\ Matched => IInv'
<1> SUFFICES ASSUME IInv, Matched PROVE IInv'
  OBVIOUS
<1>1. TypeOK /\ SearchInvariant /\ Searching
  BY DEF IInv, Matched
<1> DEFINE w == Width
<1>2. /\ w \in Nat \ {0} /\ hay + w <= Len(haystack) /\ need + w <= Len(needle)
      /\ Len(haystack) \in Nat /\ Len(needle) \in Nat
      /\ hay \in Nat /\ need \in Nat /\ savedhay \in Nat
  BY <1>1, WidthFits, LengthsAreNat
<1>3. /\ hay' = hay + w /\ need' = need + w /\ inmatch' = TRUE
      /\ savedhay' = Start
      /\ pc' = "search" /\ pc = "search"
      /\ UNCHANGED <<haystack, needle, result>>
      /\ \A i \in 1 .. w : haystack[hay + i] = needle[need + i]
  BY DEF Matched, Searching, Equal, Start, args
<1>4. /\ hay = Start + need
      /\ Start + Len(needle) <= Len(haystack)
      /\ \A i \in 1 .. need : haystack[Start + i] = needle[i]
      /\ \A p \in 0 .. Start - 1 : ~OccursAt(p)
  BY <1>1, <1>3 DEF SearchInvariant
<1>5. Start \in Nat /\ Start' = Start
  BY <1>2, <1>3 DEF Start
<1> HIDE DEF w
<1>6. TypeOK'
  <2>1. hay' \in 0 .. Len(haystack') /\ need' \in 0 .. Len(needle')
    BY <1>2, <1>3
  <2>2. savedhay' \in 0 .. Len(haystack')
    BY <1>2, <1>3, <1>4, <1>5
  <2> QED BY <1>1, <1>3, <2>1, <2>2 DEF TypeOK
<1>7. SearchInvariant'
  <2>1. hay' = Start' + need'
    BY <1>2, <1>3, <1>4, <1>5
  <2>2. inmatch' <=> need' > 0
    BY <1>2, <1>3
  <2>3. \A i \in 1 .. need' : haystack'[Start' + i] = needle'[i]
    <3> SUFFICES ASSUME NEW i \in 1 .. need + w
                 PROVE  haystack[Start + i] = needle[i]
      BY <1>3, <1>5
    <3>1. CASE i \in 1 .. need
      BY <3>1, <1>4
    <3>2. CASE i \notin 1 .. need
      <4>1. i - need \in 1 .. w
        BY <3>2, <1>2
      <4>2. haystack[hay + (i - need)] = needle[need + (i - need)]
        BY <4>1, <1>3
      <4>3. hay + (i - need) = Start + i /\ need + (i - need) = i
        BY <1>2, <1>4, <1>5
      <4> QED BY <4>2, <4>3
    <3> QED BY <3>1, <3>2
  <2>4. \A p \in 0 .. Start' - 1 : ~OccursAt(p)'
    BY <1>3, <1>4, <1>5 DEF OccursAt
  <2> QED BY <1>3, <1>4, <1>5, <2>1, <2>2, <2>3, <2>4 DEF SearchInvariant
<1>8. ResultIsFirst'
  BY <1>3 DEF ResultIsFirst
<1> QED BY <1>6, <1>7, <1>8 DEF IInv

LEMMA MismatchedKeeps == IInv /\ Mismatched => IInv'
<1> SUFFICES ASSUME IInv, Mismatched PROVE IInv'
  OBVIOUS
<1>1. TypeOK /\ SearchInvariant /\ Searching /\ pc = "search"
  BY DEF IInv, Mismatched, Searching
<1>2. /\ Width \in Nat \ {0} /\ hay + Width <= Len(haystack) /\ need + Width <= Len(needle)
      /\ Len(haystack) \in Nat /\ Len(needle) \in Nat \ {0}
      /\ hay \in Nat /\ need \in Nat /\ savedhay \in Nat
  BY <1>1, WidthFits, LengthsAreNat
<1>3. /\ Start + Len(needle) <= Len(haystack) /\ hay = Start + need
      /\ \A p \in 0 .. Start - 1 : ~OccursAt(p)
      /\ Start \in Nat
  BY <1>1, <1>2 DEF SearchInvariant, Start
<1>4. /\ hay' = Start + 1 /\ need' = 0 /\ inmatch' = FALSE /\ Start' = Start + 1
      /\ UNCHANGED <<haystack, needle, savedhay>>
  BY <1>3 DEF Mismatched, Resume, Start, args
(* What differs now would have to be equal if the needle were at Start.    *)
<1>5. ~OccursAt(Start)
  <2> SUFFICES ASSUME OccursAt(Start) PROVE FALSE
    OBVIOUS
  <2>1. PICK i \in 1 .. Width : haystack[hay + i] # needle[need + i]
    BY DEF Mismatched, Equal
  <2>2. need + i \in 1 .. Len(needle) /\ hay + i = Start + (need + i)
    BY <1>2, <1>3
  <2>3. haystack[Start + (need + i)] = needle[need + i]
    BY <2>2 DEF OccursAt
  <2> QED BY <2>1, <2>2, <2>3
<1>6. \A p \in 0 .. Start : ~OccursAt(p)
  BY <1>3, <1>5
<1>7. CASE Len(haystack) - hay' < Len(needle)
  <2>1. pc' = "done" /\ result' = NULL
    BY <1>7 DEF Mismatched
  <2>2. TypeOK'
    <3>1. hay' \in 0 .. Len(haystack') /\ need' \in 0 .. Len(needle')
      BY <1>2, <1>3, <1>4
    <3> QED BY <1>1, <1>4, <2>1, <3>1 DEF TypeOK
  <2>3. \A p \in 0 .. Len(haystack) : ~OccursAt(p)
    <3> TAKE p \in 0 .. Len(haystack)
    <3>1. CASE p <= Start
      BY <3>1, <1>3, <1>6
    <3>2. CASE p > Start
      BY <3>2, <1>2, <1>3, <1>4, <1>7 DEF OccursAt
    <3> QED BY <3>1, <3>2, <1>3
  <2>4. ResultIsFirst'
    BY <1>4, <2>1, <2>3 DEF ResultIsFirst, OccursAt
  <2> QED BY <2>1, <2>2, <2>4 DEF IInv, SearchInvariant
<1>8. CASE ~(Len(haystack) - hay' < Len(needle))
  <2>1. UNCHANGED <<pc, result>>
    BY <1>8 DEF Mismatched
  <2>2. hay' + Len(needle) <= Len(haystack)
    BY <1>2, <1>3, <1>4, <1>8
  <2>3. TypeOK'
    <3>1. hay' \in 0 .. Len(haystack') /\ need' \in 0 .. Len(needle')
      BY <1>2, <1>3, <1>4, <2>2
    <3> QED BY <1>1, <1>4, <2>1, <3>1 DEF TypeOK
  <2>4. \A p \in 0 .. Start' - 1 : ~OccursAt(p)'
    BY <1>3, <1>4, <1>6 DEF OccursAt
  <2>5. SearchInvariant'
    BY <1>2, <1>3, <1>4, <2>2, <2>4 DEF SearchInvariant
  <2>6. ResultIsFirst'
    BY <1>1, <2>1 DEF ResultIsFirst
  <2> QED BY <2>3, <2>5, <2>6 DEF IInv
<1> QED BY <1>7, <1>8

(* Where the loop ends it has the whole needle: as it would have room, the *)
(* haystack cannot have ended first.                                       *)
LEMMA FinishKeeps == IInv /\ Finish => IInv'
<1> SUFFICES ASSUME IInv, Finish PROVE IInv'
  OBVIOUS
<1>1. TypeOK /\ SearchInvariant /\ pc = "search"
  BY DEF IInv, Finish
<1>2. /\ Len(haystack) \in Nat /\ Len(needle) \in Nat \ {0}
      /\ hay \in Nat /\ need \in 0 .. Len(needle) /\ savedhay \in Nat
  BY <1>1, LengthsAreNat DEF TypeOK
<1>3. /\ Start + Len(needle) <= Len(haystack) /\ hay = Start + need
      /\ inmatch <=> need > 0
      /\ \A i \in 1 .. need : haystack[Start + i] = needle[i]
      /\ \A p \in 0 .. Start - 1 : ~OccursAt(p)
      /\ Start \in Nat
  BY <1>1, <1>2 DEF SearchInvariant, Start
<1>4. need = Len(needle)
  BY <1>2, <1>3 DEF Finish
<1>5. /\ result' = Start /\ pc' = "done"
      /\ UNCHANGED <<haystack, needle, hay, need, inmatch, savedhay>>
  <2>1. inmatch
    BY <1>2, <1>3, <1>4
  <2> QED BY <2>1 DEF Finish, Start, args
<1>6. TypeOK'
  <2>1. result' \in 0 .. Len(haystack')
    BY <1>2, <1>3, <1>5
  <2> QED BY <1>1, <1>5, <2>1 DEF TypeOK
<1>7. OccursAt(Start)
  BY <1>3, <1>4 DEF OccursAt
<1>8. ResultIsFirst'
  <2>1. OccursAt(result)'
    BY <1>5, <1>7 DEF OccursAt
  <2>2. \A p \in 0 .. Len(haystack) : OccursAt(p) => result' # NULL /\ result' <= p
    BY <1>2, <1>3, <1>5 DEF NULL
  <2> QED BY <1>5, <2>1, <2>2 DEF ResultIsFirst, OccursAt
<1> QED BY <1>5, <1>6, <1>8 DEF IInv, SearchInvariant

LEMMA NextIInv == IInv /\ [Next]_vars => IInv'
<1> SUFFICES ASSUME IInv, [Next]_vars PROVE IInv'
  OBVIOUS
<1>1. CASE UNCHANGED vars
  BY <1>1 DEF IInv, TypeOK, SearchInvariant, ResultIsFirst, Start, OccursAt, vars, args
<1> QED BY <1>1, MatchedKeeps, MismatchedKeeps, FinishKeeps DEF Next

(* The invariant of the loop, for every haystack and needle.               *)
THEOREM Invariance == Spec => []IInv
  BY InitIInv, NextIInv, PTL DEF Spec

(* No pointer of the search leaves its array.                              *)
THEOREM TypeCorrect == Spec => []TypeOK
<1>1. IInv => TypeOK
  BY DEF IInv
<1> QED BY <1>1, Invariance, PTL

(* The search returns the first place where the needle is, or NULL if it   *)
(* is nowhere.                                                             *)
THEOREM SearchIsRight == Spec => []ResultIsFirst
<1>1. IInv => ResultIsFirst
  BY DEF IInv
<1> QED BY <1>1, Invariance, PTL

-----------------------------------------------------------------------------
(* Every round ends the search, looks for the needle further on, or has    *)
(* compared more of it at the same place.  Start stays within the haystack *)
(* and need within the needle, so that there are no more rounds than the   *)
(* product of their lengths: the search ends, if it runs.                  *)
RoundsAdvance ==
    [][\/ pc' = "done"
       \/ Start' > Start
       \/ Start' = Start /\ need' > need]_vars

(* A match goes on where it began; a failed one is given up for the next   *)
(* place.                                                                  *)
LEMMA NextAdvances ==
  IInv /\ Next => pc' = "done" \/ Start' > Start \/ (Start' = Start /\ need' > need)
<1> SUFFICES ASSUME IInv, Next
             PROVE  pc' = "done" \/ Start' > Start \/ (Start' = Start /\ need' > need)
  OBVIOUS
<1>1. TypeOK /\ hay \in Nat /\ need \in Nat /\ savedhay \in Nat
  BY LengthsAreNat DEF IInv
<1>2. CASE Matched
  <2>1. Width \in Nat \ {0}
    BY <1>1, <1>2, WidthFits DEF Matched
  <2>2. need' = need + Width /\ Start' = Start
    BY <1>2 DEF Matched, Start
  <2> QED BY <1>1, <2>1, <2>2
<1>3. CASE Mismatched
  <2>1. Start' = Start + 1 /\ Start \in Nat
    BY <1>1, <1>3 DEF Mismatched, Resume, Start
  <2> QED BY <2>1
<1>4. CASE Finish
  BY <1>4 DEF Finish
<1> QED BY <1>2, <1>3, <1>4 DEF Next

(* bytes_in_bytes gets on with every comparison, whatever it compares.     *)
THEOREM EveryRoundAdvances == Spec => RoundsAdvance
<1>1. IInv /\ [Next]_vars =>
        [pc' = "done" \/ Start' > Start \/ (Start' = Start /\ need' > need)]_vars
  BY NextAdvances
<1> QED BY <1>1, Invariance, PTL DEF Spec, RoundsAdvance
=============================================================================
