---------------------------- MODULE ContextParts ----------------------------
(***************************************************************************)
(* What all that is done with a context of OpenEXRCore has in common: the  *)
(* threads that share it, its parts, and what it is open for.              *)
(***************************************************************************)
EXTENDS Integers, FiniteSets

CONSTANTS Thread, NumParts

ASSUME PartsAssumption == NumParts \in Nat \ {0}

Part == 1 .. NumParts

VARIABLE mode     \* mode: "read", "write" or "writing"
=============================================================================
