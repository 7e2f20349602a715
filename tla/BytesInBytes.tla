---------------------------- MODULE BytesInBytes ----------------------------
(***************************************************************************)
(* The search of util.c: bytes_in_bytes looks for the bytes needle in the  *)
(* bytes haystack, comparing a long, a short or a single byte at a time,   *)
(* whichever both have left.  One action is one round of its loop.         *)
(*                                                                         *)
(* hay and need are the offsets of the pointers haystack and testneed.     *)
(***************************************************************************)
EXTENDS Integers, Sequences

CONSTANTS Byte,
          Haystacks,   (* what is searched: the bytes on a receive ring    *)
          Needles,     (* what is searched for: CHANTOKEN, ADCTOKEN, ...   *)
          LongSize,    (* lsize                                            *)
          ShortSize    (* ssize                                            *)

ASSUME SizesAssumption ==
    /\ LongSize \in Nat \ {0} /\ ShortSize \in Nat \ {0}
    /\ Haystacks \subseteq Seq(Byte)
    /\ Needles \subseteq Seq(Byte) \ {<< >>}

VARIABLES
    haystack, needle,   (* the arguments                                   *)
    hay, need,          (* what is compared next                           *)
    inmatch,            (* the comparisons since savedhay succeeded        *)
    savedhay,           (* where the match began                           *)
    pc,                 (* "search" or "done"                              *)
    result              (* the offset returned, or NULL                    *)

args == <<haystack, needle>>
vars == <<args, hay, need, inmatch, savedhay, pc, result>>

NULL == -1

Fits(size) == hay + size <= Len(haystack) /\ need + size <= Len(needle)

(* increment: the longest comparison that ends before both ends.           *)
Width ==
    IF Fits(LongSize) THEN LongSize ELSE IF Fits(ShortSize) THEN ShortSize ELSE 1

Equal == \A i \in 1 .. Width : haystack[hay + i] = needle[need + i]

Searching == pc = "search" /\ hay < Len(haystack) /\ need < Len(needle)

MatchedAnyWidth ==
    /\ Searching /\ Equal
    /\ inmatch' = TRUE
    /\ savedhay' = IF inmatch THEN savedhay ELSE hay
    /\ hay' = hay + LongSize /\ need' = need + LongSize
    /\ UNCHANGED <<args, pc, result>>

Matched ==
    /\ Searching /\ Equal
    /\ inmatch' = TRUE
    /\ savedhay' = IF inmatch THEN savedhay ELSE hay
    /\ hay' = hay + Width /\ need' = need + Width
    /\ UNCHANGED <<args, pc, result>>

(* It goes on at the next byte, after a failed match at the byte after its *)
(* first, and gives up where the needle has no more room.                  *)
ResumeBehindMatch == hay + 1

ResumeAtMatch == IF inmatch THEN savedhay ELSE hay + 1

Resume == IF inmatch THEN savedhay + 1 ELSE hay + 1

Mismatched ==
    /\ Searching /\ ~Equal
    /\ hay' = Resume
    /\ need' = 0 /\ inmatch' = FALSE
    /\ IF Len(haystack) - hay' < Len(needle)
       THEN pc' = "done" /\ result' = NULL
       ELSE UNCHANGED <<pc, result>>
    /\ UNCHANGED <<args, savedhay>>

(* The loop has come to the end of the haystack or of the needle.          *)
Finish ==
    /\ pc = "search" /\ (hay >= Len(haystack) \/ need >= Len(needle))
    /\ pc' = "done"
    /\ result' = IF inmatch THEN savedhay ELSE NULL
    /\ UNCHANGED <<args, hay, need, inmatch, savedhay>>

(* search_ring calls it only if the needle is no longer than the haystack. *)
Init ==
    /\ haystack \in Haystacks /\ needle \in Needles
    /\ Len(haystack) >= Len(needle)
    /\ hay = 0 /\ need = 0 /\ inmatch = FALSE /\ savedhay = 0
    /\ pc = "search" /\ result = NULL

Next == Matched \/ Mismatched \/ Finish

Spec == Init /\ [][Next]_vars

(* A function that was called runs.                                        *)
FairSpec == Spec /\ WF_vars(Next)

-----------------------------------------------------------------------------
(* The pointers stay within the arrays, one past their end included.       *)
TypeOK ==
    /\ haystack \in Seq(Byte) /\ needle \in Seq(Byte) /\ needle # << >>
    /\ hay \in 0 .. Len(haystack) /\ need \in 0 .. Len(needle)
    /\ inmatch \in BOOLEAN
    /\ savedhay \in 0 .. Len(haystack)
    /\ pc \in {"search", "done"}
    /\ result \in {NULL} \cup 0 .. Len(haystack)

(* The reference: where the needle is, whole.                              *)
OccursAt(p) ==
    /\ p + Len(needle) <= Len(haystack)
    /\ \A i \in 1 .. Len(needle) : haystack[p + i] = needle[i]

(* Of all the places where the needle is, the result is the first, and it  *)
(* is NULL only if there is none, however the comparisons were cut into    *)
(* longs, shorts and bytes and wherever a match failed half way.           *)
ResultIsFirst ==
    pc = "done" =>
        /\ result # NULL => OccursAt(result)
        /\ \A p \in 0 .. Len(haystack) :
              OccursAt(p) => result # NULL /\ result <= p

(* The search ends.                                                        *)
Terminates == <>(pc = "done")
=============================================================================
