---------------------------- MODULE MCAllocTable ----------------------------
(* Small instances of AllocTable for TLC.                                  *)
EXTENDS AllocTable
=============================================================================
