----------------------------- MODULE MCJobQueue -----------------------------
(* Small instances of JobQueue for TLC. *)
EXTENDS JobQueue, TLC

\* Job ids are interchangeable, and so are workers of one kind
JobWorkerSymmetry == Permutations(Jobs) \cup Permutations(Workers)
=============================================================================
