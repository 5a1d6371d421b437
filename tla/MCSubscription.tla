--------------------------- MODULE MCSubscription ---------------------------
(* A small instance of Subscription for TLC. *)
EXTENDS Subscription
CONSTANTS h1, h2
=============================================================================
