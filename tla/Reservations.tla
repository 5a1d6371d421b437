---------------------------- MODULE Reservations ----------------------------
(***************************************************************************)
(* Tokens a user may still spend on extraction: the balance of             *)
(* get_available_usage (yapit/gateway/usage.py) and the Redis hash         *)
(* reservations:{user_id} (yapit/gateway/reservations.py), whose fields    *)
(* are content hashes. A hash is a function from contents to tokens, with  *)
(* 0 for a field that is not there: an estimate is never 0.                *)
(***************************************************************************)
EXTENDS Integers, Sums

CreateReservation(hash, c, tokens) == [hash EXCEPT ![c] = tokens]

ReleaseReservation(hash, c) == [hash EXCEPT ![c] = 0]

PendingTotal(hash) == SumOf(hash, DOMAIN hash)

\* What is left of an allowance: every read of it is cut off at 0.
Rest(allowance, taken) == IF taken > allowance THEN 0 ELSE allowance - taken

Available(allowance, used, pending) == Rest(Rest(allowance, used), pending)

\* check_usage_limit refuses amounts above what is available
LimitExceeded(amount, available) == amount > available
=============================================================================
