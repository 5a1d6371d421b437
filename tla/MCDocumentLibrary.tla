-------------------------- MODULE MCDocumentLibrary --------------------------
(* Small instances of DocumentLibrary for TLC. *)
EXTENDS DocumentLibrary

CONSTANTS g, u

Limits == [user \in Guests \cup Accounts |-> 1]
=============================================================================
