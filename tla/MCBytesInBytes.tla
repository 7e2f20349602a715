--------------------------- MODULE MCBytesInBytes ---------------------------
(* Every haystack and needle of two letters up to some length.             *)
EXTENDS BytesInBytes, SequencesExt

CONSTANTS HayLen, NeedleLen

MCHaystacks == BoundedSeq(Byte, HayLen) \ {<< >>}
MCNeedles == BoundedSeq(Byte, NeedleLen) \ {<< >>}
=============================================================================
