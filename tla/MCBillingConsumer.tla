-------------------------- MODULE MCBillingConsumer --------------------------
(* Small instances of BillingConsumer for TLC. *)
EXTENDS BillingConsumer, TLC

CONSTANTS job1, job2, alice, bob

\* The first two entries do not parse, a whole page of MAX_BATCH; the other two are of
\* two users
MCEventOf == <<job2, job2, job1, job2>>
MCUserOf  == job1 :> alice @@ job2 :> bob
=============================================================================
