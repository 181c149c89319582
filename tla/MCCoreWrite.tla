----------------------------- MODULE MCCoreWrite -----------------------------
(* A part in random order between two in increasing order.                  *)
EXTENDS CoreWrite, TLC

ThreeParts == (0 :> 2) @@ (1 :> 3) @@ (2 :> 2)
=============================================================================
