---------------------------- MODULE MCUsageTiers ----------------------------
(* Small instances of UsageTiers for TLC. *)
EXTENDS UsageTiers, TLC

CONSTANTS basic, plus

MCLimit == basic :> 1 @@ plus :> 2

HandlerSymmetry == Permutations(Handlers)
=============================================================================
