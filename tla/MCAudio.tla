-------------------------------- MODULE MCAudio --------------------------------
(* A small instance of both parts of Audio for TLC. *)
EXTENDS Audio

CONSTANTS a, b, d1, d2, k1, k2

Sizes == [v \in Variants |-> 2]
=============================================================================
