---------------------------- MODULE MCTTSPipeline ----------------------------
(* Small instances of TTSPipeline for TLC. *)
EXTENDS TTSPipeline, TLC

CONSTANTS v1, e1, e2, d1, c1, c2

MCConnDoc == c1 :> d1 @@ c2 :> d1

\* One block, in one or in two tabs
MCOneVariantOf == e1 :> v1
MCOneDocOf     == e1 :> d1
MCConnDocOne   == c1 :> d1

JobWorkerSymmetry == Permutations(Jobs) \cup Permutations(Workers) \cup Permutations(Tasks)
=============================================================================
