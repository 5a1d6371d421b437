---------------------------- MODULE BillingLedger ----------------------------
(***************************************************************************)
(* What the cold path promises (yapit/gateway/billing_consumer.py): each   *)
(* billing event is charged to its user at most once, in one transaction.  *)
(***************************************************************************)
EXTENDS Naturals

CONSTANT Events

VARIABLE ledger   \* how often each event was charged

Init == ledger = [ev \in Events |-> 0]

Charge(evs) ==
    /\ evs # {}
    /\ \A ev \in evs : ledger[ev] = 0
    /\ ledger' = [ev \in Events |-> IF ev \in evs THEN 1 ELSE ledger[ev]]

Next == \E evs \in SUBSET Events : Charge(evs)

Spec == Init /\ [][Next]_ledger
=============================================================================
