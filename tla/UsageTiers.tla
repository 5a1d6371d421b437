----------------------------- MODULE UsageTiers -----------------------------
(***************************************************************************)
(* One subscribed user's credit in Postgres, for one of the two usage      *)
(* types with a waterfall (OCR tokens, premium voice characters): the      *)
(* charges of record_usage (yapit/gateway/usage.py) against the Stripe     *)
(* webhooks of yapit/gateway/api/v1/billing.py and the reconciliation of   *)
(* yapit/gateway/billing_sync.py.                                          *)
(*                                                                         *)
(* Postgres runs READ COMMITTED. record_usage reads the subscription row   *)
(* FOR UPDATE, so its transaction is one step. The handlers read the row   *)
(* without a lock and take it by their first UPDATE, so each of them is a  *)
(* step that loads and a step that writes; as SQLAlchemy does, the second  *)
(* writes the attributes that differ from what was loaded.                 *)
(***************************************************************************)
EXTENDS Integers, Sums

CONSTANTS
    Plans, NoPlan,     \* NoPlan: a period without a row, or a row without a plan_id
    Limit,             \* [Plans -> Nat], the plan's allowance of this usage type
    Cap,               \* MAX_ROLLOVER_TOKENS, MAX_ROLLOVER_VOICE_CHARS
    NumCycles,         \* bound on billing cycles
    Amounts,           \* what one transaction of record_usage charges
    MaxCharged,        \* bound on the sum of all charges
    Handlers,          \* webhook handlers and sync passes that may run concurrently
    FirstPlan, FirstRollover, FirstPurchased

Cycles == 1 .. NumCycles
Statuses == {"active", "past_due", "canceled"}   \* trialing counts as active

ASSUME UsageAssumption ==
    /\ Limit \in [Plans -> Nat]
    /\ NoPlan \notin Plans
    /\ Cap \in Nat
    /\ NumCycles \in Nat \ {0}
    /\ Amounts \subseteq Nat \ {0}
    /\ MaxCharged \in Nat
    /\ FirstPlan \in Plans
    /\ FirstPurchased \in Nat
    /\ FirstRollover \in Int /\ FirstRollover <= Cap
    /\ FirstRollover < 0 => FirstPurchased = 0

VARIABLES
    stripe,       \* what Stripe holds: status, plan, start of the current cycle
    unpaid,       \* the renewal of the current cycle failed and may be retried
    invoices,     \* invoice.payment_succeeded events not answered with 2xx yet
    failures,     \* whether an invoice.payment_failed event is on its way
    sub,          \* the subscription row's copy of the same three fields
    rollover, purchased, last,   \* the rest of the subscription row
    used, periodPlan,            \* usage_period rows, by the cycle they start
    hpc, hsub, hroll, hlast,     \* each handler's phase and the row it loaded
    hinv,                        \* the invoice it was called for
    hstripe, hwrite,             \* what it fetched from Stripe, the fields to write
    charged,      \* sum of all charges
    \* history, read by the properties only
    credited,     \* what was added to the rollover for a cycle's unused rest
    overtaken,    \* a grant was computed from a row that had changed since
    movedBack,    \* a stale start of the period was written over a newer one
    named         \* the plans that the two rows have named for each cycle

stripeVars  == <<stripe, unpaid, invoices, failures>>
creditVars  == <<rollover, purchased, last, used, periodPlan>>
handlerVars == <<hpc, hsub, hroll, hlast, hinv, hstripe, hwrite>>
historyVars == <<credited, overtaken, movedBack, named>>
vars == <<stripe, unpaid, invoices, failures, sub, rollover, purchased, last, used,
          periodPlan, hpc, hsub, hroll, hlast, hinv, hstripe, hwrite, charged,
          credited, overtaken, movedBack, named>>

FirstSub == [status |-> "active", plan |-> FirstPlan, start |-> 1]

Init ==
    /\ stripe = FirstSub
    /\ unpaid = FALSE
    /\ invoices = {}
    /\ failures = FALSE
    /\ sub = FirstSub
    /\ rollover = FirstRollover
    /\ purchased = FirstPurchased
    /\ last = 0
    /\ used = [c \in Cycles |-> 0]
    /\ periodPlan = [c \in Cycles |-> IF c = 1 THEN FirstPlan ELSE NoPlan]
    /\ hpc = [h \in Handlers |-> "idle"]
    /\ hsub = [h \in Handlers |-> FirstSub]
    /\ hroll = [h \in Handlers |-> 0]
    /\ hlast = [h \in Handlers |-> 0]
    /\ hinv = [h \in Handlers |-> 0]
    /\ hstripe = [h \in Handlers |-> FirstSub]
    /\ hwrite = [h \in Handlers |-> {}]
    /\ charged = 0
    /\ credited = [c \in Cycles |-> 0]
    /\ overtaken = FALSE
    /\ movedBack = FALSE
    /\ named = [c \in Cycles |-> IF c = 1 THEN {FirstPlan} ELSE {}]

Least(a, b) == IF a <= b THEN a ELSE b
AtLeast0(a) == IF a >= 0 THEN a ELSE 0

-----------------------------------------------------------------------------
(* record_usage: subscription, positive rollover, purchased, rollover debt. *)

\* get_effective_plan: a canceled subscription has the limits of the free plan
EffectiveLimit == IF sub.status = "canceled" THEN 0 ELSE Limit[sub.plan]

FromSubscription(amount) == Least(amount, AtLeast0(EffectiveLimit - used[sub.start]))
FromRollover(rest)  == Least(rest, AtLeast0(rollover))

\* Mutant of FromPurchased: the pool is not the limit
FromPurchasedAll(rest) == rest

FromPurchased(rest) == Least(rest, purchased)

\* Mutant of Charge: what nothing covers is forgiven, and never charged
ChargeForgiven(amount) ==
    LET rest1 == amount - FromSubscription(amount)
        rest2 == rest1 - FromRollover(rest1)
    IN  /\ used' = [used EXCEPT ![sub.start] = @ + FromSubscription(amount)]
        /\ rollover' = rollover - FromRollover(rest1)
        /\ purchased' = purchased - FromPurchased(rest2)

\* _consume_from_tiers
Charge(amount) ==
    LET rest1 == amount - FromSubscription(amount)
        rest2 == rest1 - FromRollover(rest1)
        debt  == rest2 - FromPurchased(rest2)
    IN  /\ used' = [used EXCEPT ![sub.start] = @ + FromSubscription(amount)]
        /\ rollover' = rollover - FromRollover(rest1) - debt
        /\ purchased' = purchased - FromPurchased(rest2)

\* get_or_create_usage_period: ON CONFLICT DO NOTHING
PeriodRow(cycle, plan) ==
    [periodPlan EXCEPT ![cycle] = IF @ = NoPlan THEN plan ELSE @]

\* A plan named for a cycle: by the subscription row, or by the period's own
NamePlans ==
    named' = [c \in Cycles |-> named[c] \cup ({periodPlan'[c]} \ {NoPlan})
                                     \cup {plan \in {sub'.plan} : sub'.start = c}]

RecordUsage(amount) ==
    /\ charged + amount <= MaxCharged
    /\ charged' = charged + amount
    /\ Charge(amount)
    /\ periodPlan' = PeriodRow(sub.start, sub.plan)
    /\ UNCHANGED <<last, sub, stripeVars, handlerVars, historyVars>>

-----------------------------------------------------------------------------
(* Stripe. It renews only when it has stopped retrying the last invoice's   *)
(* event; a cancellation is final (a new checkout is a new subscription).   *)

\* Renews the plan or, where a downgrade was scheduled, a smaller one
StripeRenew(plan) ==
    /\ stripe.status = "active"
    /\ Limit[plan] <= Limit[stripe.plan]
    /\ stripe.start < NumCycles
    /\ invoices = {} /\ ~failures
    /\ \/ /\ stripe' = [stripe EXCEPT !.start = @ + 1, !.plan = plan]
          /\ invoices' = {stripe'.start}
          /\ UNCHANGED <<unpaid, failures>>
       \/ /\ stripe' = [status |-> "past_due", plan |-> plan, start |-> stripe.start + 1]
          /\ unpaid' = TRUE
          /\ failures' = TRUE
          /\ UNCHANGED invoices
    /\ UNCHANGED <<sub, creditVars, handlerVars, charged, historyVars>>

\* The payment of a failed renewal is retried with success
StripeCollect ==
    /\ unpaid /\ stripe.status = "past_due"
    /\ unpaid' = FALSE
    /\ stripe' = [stripe EXCEPT !.status = "active"]
    /\ invoices' = {stripe.start}
    /\ UNCHANGED <<failures, sub, creditVars, handlerVars, charged, historyVars>>

\* An upgrade takes effect at once; a downgrade waits for the next renewal
StripeUpgrade(plan) ==
    /\ stripe.status = "active"
    /\ Limit[plan] > Limit[stripe.plan]
    /\ stripe' = [stripe EXCEPT !.plan = plan]
    /\ UNCHANGED <<unpaid, invoices, failures, sub, creditVars, handlerVars, charged, historyVars>>

StripeCancel ==
    /\ stripe.status # "canceled"
    /\ stripe' = [stripe EXCEPT !.status = "canceled"]
    /\ UNCHANGED <<unpaid, invoices, failures, sub, creditVars, handlerVars, charged, historyVars>>

-----------------------------------------------------------------------------
(* invoice.payment_succeeded of a renewal. Invoice k opens cycle k and      *)
(* closes cycle k - 1.                                                      *)

Done(h) ==
    /\ hpc' = [hpc EXCEPT ![h] = "idle"]
    /\ hsub' = [hsub EXCEPT ![h] = FirstSub]
    /\ hroll' = [hroll EXCEPT ![h] = 0]
    /\ hlast' = [hlast EXCEPT ![h] = 0]
    /\ hinv' = [hinv EXCEPT ![h] = 0]
    /\ hstripe' = [hstripe EXCEPT ![h] = FirstSub]
    /\ hwrite' = [hwrite EXCEPT ![h] = {}]

InvoiceLoad(h, k) ==
    /\ hpc[h] = "idle"
    /\ k \in invoices
    /\ hsub' = [hsub EXCEPT ![h] = sub]
    /\ hroll' = [hroll EXCEPT ![h] = rollover]
    /\ hlast' = [hlast EXCEPT ![h] = last]
    /\ hinv' = [hinv EXCEPT ![h] = k]
    /\ hpc' = [hpc EXCEPT ![h] = "invoice"]
    /\ UNCHANGED <<hstripe, hwrite, sub, stripeVars, creditVars, charged, historyVars>>

\* _calculate_rollover
NewRollover(h, plan, cycle) ==
    Least(hroll[h] + AtLeast0(Limit[plan] - used[cycle]), Cap)

\* The plan that governed the closing cycle, else the subscription's
ClosingPlan(h, cycle) == IF periodPlan[cycle] # NoPlan THEN periodPlan[cycle] ELSE hsub[h].plan

\* Mutant of IsReplay: the invoice is not compared
IsReplayNever(h) == FALSE

\* last_rollover_invoice_id, as loaded, names this very invoice
IsReplay(h) == hlast[h] = hinv[h]

\* The UPDATE that takes the row, the new period's row, the read of the closing
\* period, the UPDATE of the rollover if it changed, the commit. The reply may be
\* lost, and Stripe sends the event again.
InvoiceCommit(h) ==
    LET k     == hinv[h]
        cycle == k - 1
        new   == NewRollover(h, ClosingPlan(h, cycle), cycle)
    IN  /\ hpc[h] = "invoice"
        /\ sub' = IF hsub[h].start # k THEN [sub EXCEPT !.start = k] ELSE sub
        /\ movedBack' = (movedBack \/ sub'.start < sub.start)
        /\ periodPlan' = PeriodRow(k, hsub[h].plan)
        /\ NamePlans
        /\ \/ /\ IsReplay(h)
              /\ UNCHANGED <<rollover, last, credited, overtaken>>
           \/ /\ ~IsReplay(h)
              /\ rollover' = IF new # hroll[h] THEN new ELSE rollover
              /\ last' = k
              /\ credited' = [credited EXCEPT ![cycle] = @ + (new - hroll[h])]
              /\ overtaken' = (overtaken \/ hroll[h] # rollover \/ hlast[h] # last)
        /\ invoices' \in {invoices, invoices \ {k}}
        /\ Done(h)
        /\ UNCHANGED <<stripe, unpaid, failures, purchased, used, charged>>

-----------------------------------------------------------------------------
(* customer.subscription.updated loads the row, then fetches Stripe's state;*)
(* a sync pass fetches, then loads. Both write what they fetched.           *)

Fields == {"status", "plan", "start"}

\* SQLAlchemy's UPDATE sets the attributes whose new value is not the loaded one
Changed(loaded, fetched) == {f \in Fields : loaded[f] # fetched[f]}

UpdateLoad(h) ==
    /\ hpc[h] = "idle"
    /\ hsub' = [hsub EXCEPT ![h] = sub]
    /\ hpc' = [hpc EXCEPT ![h] = "loaded"]
    /\ UNCHANGED <<hroll, hlast, hinv, hstripe, hwrite, sub, stripeVars, creditVars,
                   charged, historyVars>>

UpdateFetch(h) ==
    /\ hpc[h] = "loaded"
    /\ hstripe' = [hstripe EXCEPT ![h] = stripe]
    /\ hwrite' = [hwrite EXCEPT ![h] = Changed(hsub[h], stripe)]
    /\ hsub' = [hsub EXCEPT ![h] = FirstSub]
    /\ hpc' = [hpc EXCEPT ![h] = "apply"]
    /\ UNCHANGED <<hroll, hlast, hinv, sub, stripeVars, creditVars, charged, historyVars>>

SyncFetch(h) ==
    /\ hpc[h] = "idle"
    /\ hstripe' = [hstripe EXCEPT ![h] = stripe]
    /\ hpc' = [hpc EXCEPT ![h] = "fetched"]
    /\ UNCHANGED <<hsub, hroll, hlast, hinv, hwrite, sub, stripeVars, creditVars,
                   charged, historyVars>>

SyncLoad(h) ==
    /\ hpc[h] = "fetched"
    /\ hwrite' = [hwrite EXCEPT ![h] = Changed(sub, hstripe[h])]
    /\ hpc' = [hpc EXCEPT ![h] = "apply"]
    /\ UNCHANGED <<hsub, hroll, hlast, hinv, hstripe, sub, stripeVars, creditVars,
                   charged, historyVars>>

\* Only a plan change updates the period's row, when there is one
Apply(h) ==
    /\ hpc[h] = "apply"
    /\ sub' = [f \in Fields |-> IF f \in hwrite[h] THEN hstripe[h][f] ELSE sub[f]]
    /\ movedBack' = (movedBack \/ sub'.start < sub.start)
    /\ periodPlan' =
          IF "plan" \in hwrite[h] /\ periodPlan[hstripe[h].start] # NoPlan
          THEN [periodPlan EXCEPT ![hstripe[h].start] = hstripe[h].plan] ELSE periodPlan
    /\ NamePlans
    /\ Done(h)
    /\ UNCHANGED <<stripeVars, rollover, purchased, last, used, charged, credited, overtaken>>

\* customer.subscription.deleted and invoice.payment_failed write the status
\* alone. Where the load found it written already, nothing is: as if the handler
\* had run at its load.
SubscriptionDeleted ==
    /\ stripe.status = "canceled"
    /\ sub' = [sub EXCEPT !.status = "canceled"]
    /\ UNCHANGED <<stripeVars, creditVars, handlerVars, charged, historyVars>>

InvoiceFailed ==
    /\ failures
    /\ failures' = FALSE
    /\ sub' = [sub EXCEPT !.status = "past_due"]
    /\ UNCHANGED <<stripe, unpaid, invoices, creditVars, handlerVars, charged, historyVars>>

-----------------------------------------------------------------------------
HandlerStep(h) == InvoiceCommit(h) \/ UpdateFetch(h) \/ SyncLoad(h) \/ Apply(h)

StripeStep ==
    \/ \E plan \in Plans : StripeRenew(plan) \/ StripeUpgrade(plan)
    \/ StripeCollect \/ StripeCancel

Next ==
    \/ \E amount \in Amounts : RecordUsage(amount)
    \/ StripeStep
    \/ \E h \in Handlers :
          \/ \E k \in invoices : InvoiceLoad(h, k)
          \/ UpdateLoad(h) \/ SyncFetch(h) \/ HandlerStep(h)
    \/ SubscriptionDeleted \/ InvoiceFailed

Spec == Init /\ [][Next]_vars

-----------------------------------------------------------------------------
\* The values of every variable; in particular the purchased pool is never negative
TypeOK ==
    /\ stripe \in [status : Statuses, plan : Plans, start : Cycles]
    /\ unpaid \in BOOLEAN
    /\ invoices \subseteq Cycles \ {1}
    /\ failures \in BOOLEAN
    /\ sub \in [status : Statuses, plan : Plans, start : Cycles]
    /\ rollover \in Int
    /\ purchased \in Nat
    /\ last \in {0} \cup Cycles
    /\ used \in [Cycles -> Nat]
    /\ periodPlan \in [Cycles -> Plans \cup {NoPlan}]
    /\ hpc \in [Handlers -> {"idle", "invoice", "loaded", "fetched", "apply"}]
    /\ hsub \in [Handlers -> [status : Statuses, plan : Plans, start : Cycles]]
    /\ hroll \in [Handlers -> Int]
    /\ hlast \in [Handlers -> {0} \cup Cycles]
    /\ hstripe \in [Handlers -> [status : Statuses, plan : Plans, start : Cycles]]
    /\ hinv \in [Handlers -> {0} \cup (Cycles \ {1})]
    /\ hwrite \in [Handlers -> SUBSET Fields]
    /\ \A h \in Handlers : hpc[h] = "invoice" => hinv[h] # 0
    /\ charged \in Nat
    /\ credited \in [Cycles -> Int]
    /\ overtaken \in BOOLEAN
    /\ movedBack \in BOOLEAN
    /\ named \in [Cycles -> SUBSET Plans]

\* However charges and grants overlap, the rollover never exceeds its cap.
RolloverCapped == rollover <= Cap

\* However charges and grants overlap, and however late a grant writes what it
\* computed, a user who still has purchased credit is never left in debt
\* (_consume_from_tiers: rollover, then purchased, then debt).
DebtLast == rollover < 0 => purchased = 0

\* A renewal alone can be unpaid: the first cycle was paid at the checkout.
UnpaidRenewal == unpaid => stripe.start # 1

\* The row an invoice handler loaded satisfied both, and its copy still does: the cap
\* never changes, and purchased credit is only ever consumed.
LoadedRow ==
    \A h \in Handlers : hpc[h] = "invoice" =>
        /\ hroll[h] <= Cap
        /\ hroll[h] < 0 => purchased = 0

\* A stale write keeps the cap and the order of the buckets, since the copy it was
\* computed from does.
CreditInv == TypeOK /\ RolloverCapped /\ DebtLast /\ UnpaidRenewal /\ LoadedRow

Total(f) == SumOf(f, Cycles)

\* Every unit charged came out of exactly one bucket and stays gone, and what is in
\* the rollover was credited for a cycle.
ChargesAccounted ==
    charged = Total(used) + (FirstPurchased - purchased)
                + (FirstRollover + Total(credited) - rollover)

\* Unless a grant was computed from a row that a charge or another grant changed
\* under it, all charges are accounted for.
ChargesAccountedUnlessOvertaken == overtaken \/ ChargesAccounted

\* A cycle's allowance is spent once: what was used of it and what was carried over
\* from it never exceed the limit of a plan that the subscription or the period named
\* for that very cycle, whatever is delivered twice or late, unless a stale row or a
\* stale answer of Stripe was written.
WithinPlan(c, units) == \E plan \in named[c] : units <= Limit[plan]

AllowanceSpentOnce ==
    overtaken \/ movedBack \/ \A c \in Cycles : used[c] + credited[c] = 0 \/ WithinPlan(c, used[c] + credited[c])

-----------------------------------------------------------------------------
(* Why: invoices are sent one at a time, so grants are made in their order, *)
(* and a cycle is closed to charges before its rest is granted.             *)

NewestInvoice ==
    /\ invoices \subseteq {stripe.start} /\ last <= stripe.start
    /\ \A h \in Handlers : hpc[h] = "invoice" => hinv[h] <= stripe.start

GrantsInOrder == ~overtaken =>
    /\ \A h \in Handlers : hpc[h] = "invoice" =>
           hlast[h] <= last /\ (hlast[h] = last => last <= hinv[h])
    /\ \A c \in Cycles : credited[c] # 0 => c < last

GrantedAreClosed == ~movedBack =>
    /\ \A h \in Handlers : hpc[h] = "invoice" => hsub[h].start <= sub.start
    /\ ~overtaken => \A c \in Cycles : credited[c] # 0 => c < sub.start

UsedWithinPlan == \A c \in Cycles : used[c] = 0 \/ WithinPlan(c, used[c])

\* What was named, and the row of a cycle that an invoice closes
PlansNamed ==
    /\ sub.plan \in named[sub.start]
    /\ \A c \in Cycles : periodPlan[c] # NoPlan => periodPlan[c] \in named[c]

HasRow(c) == periodPlan[c] # NoPlan
ClosedHasRow ==
    /\ \A k \in invoices : HasRow(k - 1)
    /\ \A h \in Handlers : hpc[h] = "invoice" => HasRow(hinv[h] - 1)
    /\ stripe.start # 1 => HasRow(stripe.start - 1)
    /\ stripe.status = "active" /\ invoices = {} => HasRow(stripe.start)

GrantInv ==
    /\ NewestInvoice /\ GrantsInOrder /\ GrantedAreClosed /\ UsedWithinPlan
    /\ AllowanceSpentOnce /\ ChargesAccountedUnlessOvertaken

\* The inductive invariant of UsageProofs
UsageInv == CreditInv /\ PlansNamed /\ ClosedHasRow /\ GrantInv
=============================================================================
