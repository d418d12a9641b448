---------------------------- MODULE MCFrontSwap -----------------------------
(* FrontSwap for TLC: two page contents, of which small compresses to one  *)
(* byte and large does not compress.                                       *)
EXTENDS FrontSwap, TLC

CONSTANTS small, large

MCLzoLength == small :> 1 @@ large :> PAGE_SIZE
=============================================================================
