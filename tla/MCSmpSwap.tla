----------------------------- MODULE MCSmpSwap ------------------------------
(* SmpSwap for TLC, with the page contents of MCFrontSwap.                 *)
EXTENDS SmpSwap, TLC

CONSTANTS small, large

MCLzoLength == [d \in Data |-> IF d = small THEN 1 ELSE PAGE_SIZE]
=============================================================================
