----------------------------- MODULE StripeSetup -----------------------------
(***************************************************************************)
(* scripts/stripe_setup.py: the configuration kept in the script, applied   *)
(* to a Stripe account resource by resource, after a validation that is     *)
(* meant to leave the account alone when an immutable field differs.        *)
(*                                                                         *)
(* A resource is four fields, the ones the script treats differently: fixed *)
(* (what the validation compares: amount and interval of a price, discount  *)
(* and duration of a coupon, coupon and redemptions of a code), currency    *)
(* (of a price or a coupon: sent on creation, then neither compared nor     *)
(* updated, and a coupon's products and months with it), text (name,        *)
(* description or events) and active.  Values are versions.  Calls fail, a  *)
(* created resource may be there though its reply was lost, and people edit *)
(* the configuration and the Stripe dashboard.                              *)
(*                                                                         *)
(* The script's docstring counts the currency of a price among the fields   *)
(* whose drift is an error; the code never looks at it, so the properties   *)
(* below speak of the compared fields only.                                 *)
(***************************************************************************)
EXTENDS Integers, Sequences

CONSTANTS
    Missing,      \* what Stripe answers for a resource it does not have
    MaxRuns,      \* bound on runs of the script
    MaxChanges    \* bound on edits of the configuration and in the dashboard

ASSUME StripeSetupAssumption ==
    /\ MaxRuns \in Nat /\ MaxChanges \in Nat
    /\ Missing \notin [fixed : 1 .. 2, currency : 1 .. 2, text : 1 .. 3, active : BOOLEAN]

Prices == {"monthly", "yearly"}
Resources == {"product", "coupon", "promo", "webhook"} \cup Prices
Immutable == {"coupon", "promo"} \cup Prices  \* the resources with compared fields
Priced == {"coupon"} \cup Prices              \* those with a currency

\* Phase 1 of main, then phase 2 in its order
Plan == <<"check prices", "check coupons", "check promos", "product", "monthly", "yearly",
          "coupon", "promo", "portal", "webhook">>

VARIABLES
    config,       \* the script's PRODUCTS, COUPONS, PROMO_CODES, WEBHOOK_EVENTS
    account,      \* [Resources -> Missing or what Stripe has]
    portal,       \* <<>>, or the prices the customer portal offers
    live,         \* --prod
    step,         \* next step of the run: 0 when none is under way
    driftSeen,    \* errors of the validation so far
    runs, changes,
    \* history, read by the properties only
    drifted,      \* the account had drifted when the run began
    touched,      \* somebody edited something since the run began
    done          \* the last run reached its end

setupVars == <<config, account, portal, live, step, driftSeen, runs, changes, drifted,
               touched, done>>

SetupInit ==
    /\ config = [r \in Resources |-> [fixed |-> 1, currency |-> 1, text |-> 1, active |-> TRUE]]
    /\ account = [r \in Resources |-> Missing]
    /\ portal = <<>>
    /\ live \in BOOLEAN
    /\ step = 0 /\ driftSeen = FALSE /\ runs = 0 /\ changes = 0
    /\ drifted = FALSE /\ touched = FALSE /\ done = FALSE

\* Neither validate_prices nor validate_coupons compares the currency
Drifted(r) == account[r] # Missing /\ account[r].fixed # config[r].fixed

validate_prices == \E p \in Prices : Drifted(p)
validate_coupons == Drifted("coupon")

validate_promo_codes == Drifted("promo")

StartRun ==
    /\ step = 0 /\ runs < MaxRuns
    /\ runs' = runs + 1
    /\ step' = 1
    /\ driftSeen' = FALSE /\ done' = FALSE /\ touched' = FALSE
    /\ drifted' = \E r \in Immutable : Drifted(r)
    /\ UNCHANGED <<config, account, portal, live, changes>>

\* validate_config: each check adds its errors; main exits after the last
Validate ==
    /\ step \in 1 .. 3
    /\ LET errors == \/ Plan[step] = "check prices" /\ validate_prices
                     \/ Plan[step] = "check coupons" /\ validate_coupons
                     \/ Plan[step] = "check promos" /\ validate_promo_codes
       IN /\ driftSeen' = (driftSeen \/ errors)
          /\ step' = IF step = 3 /\ driftSeen' THEN 0 ELSE step + 1
    /\ UNCHANGED <<config, account, portal, live, runs, changes, drifted, touched, done>>

-----------------------------------------------------------------------------
\* What becomes of a resource that is there; one that is missing is created as
\* configured
upsert_product == [account["product"] EXCEPT !.text = config["product"].text,
                                             !.active = config["product"].active]

\* Mutant of upsert_price: a price that exists is not switched
upsert_price_create_only(p) == account[p]

upsert_price(p) == [account[p] EXCEPT !.active = config[p].active]

\* "active" of a coupon is never sent: Stripe coupons have no such field
upsert_coupon == [account["coupon"] EXCEPT !.text = config["coupon"].text]
upsert_promo_code == [account["promo"] EXCEPT !.active = config["promo"].active]
upsert_webhook == [account["webhook"] EXCEPT !.text = config["webhook"].text]

Upserted(r) ==
    IF account[r] = Missing THEN config[r]
    ELSE CASE r = "product" -> upsert_product
           [] r \in Prices -> upsert_price(r)
           [] r = "coupon" -> upsert_coupon
           [] r = "promo" -> upsert_promo_code
           [] r = "webhook" -> upsert_webhook

\* The active prices of an active product; every price has its id by then
Offered == IF config["product"].active THEN {p \in Prices : config[p].active} ELSE {}
upsert_portal_config == portal' = <<Offered>>

Write ==
    IF Plan[step] = "portal" THEN upsert_portal_config /\ UNCHANGED account
    ELSE /\ account' = IF Plan[step] = "webhook" /\ ~live THEN account
                       ELSE [account EXCEPT ![Plan[step]] = Upserted(Plan[step])]
         /\ UNCHANGED portal

\* One resource of main's phase 2
Apply ==
    /\ step > 3
    /\ Write
    /\ step' = IF step = Len(Plan) THEN 0 ELSE step + 1
    /\ done' = (step = Len(Plan))
    /\ UNCHANGED <<config, live, driftSeen, runs, changes, drifted, touched>>

\* A call raises, before or after its effect: the script ends where it is
CallFails ==
    /\ step > 0
    /\ step' = 0
    /\ \/ UNCHANGED <<account, portal>>
       \/ step > 3 /\ Write
    /\ UNCHANGED <<config, live, driftSeen, runs, changes, drifted, touched, done>>

-----------------------------------------------------------------------------
Changed == /\ changes < MaxChanges
           /\ changes' = changes + 1
           /\ touched' = TRUE
           /\ done' = FALSE

\* The file is edited between runs
EditConfig(r) ==
    /\ step = 0 /\ Changed
    /\ \/ r \in Immutable /\ config' = [config EXCEPT ![r].fixed = 2]
       \/ r \in Priced /\ config' = [config EXCEPT ![r].currency = 2]
       \/ config' = [config EXCEPT ![r].text = 2]
       \/ config' = [config EXCEPT ![r].active = ~@]
    /\ UNCHANGED <<account, portal, live, step, driftSeen, runs, drifted>>

\* In the dashboard: a resource is renamed, switched on or off, or deleted
EditAccount(r) ==
    /\ Changed
    /\ account[r] # Missing
    /\ \/ account' = [account EXCEPT ![r].text = 3]
       \/ account' = [account EXCEPT ![r].active = ~@]
       \/ r \in {"coupon", "webhook"} /\ account' = [account EXCEPT ![r] = Missing]
    /\ UNCHANGED <<config, portal, live, step, driftSeen, runs, drifted>>

SetupNext ==
    \/ StartRun \/ Validate \/ Apply \/ CallFails
    \/ \E r \in Resources : EditConfig(r) \/ EditAccount(r)

-----------------------------------------------------------------------------
\* stripe_setup: a run that reaches its end leaves the account as configured in
\* every field the script compares or updates, whatever runs broke off before it
\* and whatever was edited before it: the amounts, intervals and discounts, what is
\* on sale and what the portal offers are what the file says.  An edit of the
\* currency of a price or a coupon that exists is passed over without an error.
AgreesWhenDone ==
    done /\ ~touched =>
        /\ \A r \in Resources \ {"webhook"} : account[r] # Missing
        /\ \A r \in Immutable : account[r].fixed = config[r].fixed
        /\ \A r \in {"product", "coupon"} : account[r].text = config[r].text
        /\ \A r \in Prices \cup {"product", "promo"} : account[r].active = config[r].active
        /\ live => account["webhook"] # Missing /\ account["webhook"].text = config["webhook"].text
        /\ portal # <<>>
        /\ \A p \in portal[1] : account[p].active /\ account["product"].active

\* stripe_setup: "If config differs from Stripe on immutable fields, the script
\* FAILS without making any changes": a run that began with a drift of a compared
\* field (not of a currency), be it of the last kind that is validated, does not get
\* to the first write.
FailFast == drifted /\ ~touched => step <= 3

\* The script changes what it may change, all of it or nothing.
SetupAllOrNothing == AgreesWhenDone /\ FailFast
=============================================================================
