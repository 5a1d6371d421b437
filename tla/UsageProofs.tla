----------------------------- MODULE UsageProofs -----------------------------
(* The rollover's cap, the order of the waterfall, the account of what was   *)
(* charged and the order of grants, for any plans, limits, charges and       *)
(* number of concurrent handlers, however stale the row a grant was computed *)
(* from.                                                                     *)
EXTENDS UsageTiers, SumTheorems

-----------------------------------------------------------------------------
(* The waterfall and the grant, as functions of the row they work on.        *)

\* A charge takes amounts of the three buckets that sum to it at most, none of them
\* more than is there; a debt is only made once the purchased credit is gone.
LEMMA ChargeKeepsOrder ==
    ASSUME TypeOK, NEW amount \in Amounts, Charge(amount)
    PROVE  /\ used' \in [Cycles -> Nat]
           /\ rollover' \in Int /\ rollover' <= rollover
           /\ purchased' \in Nat /\ purchased' <= purchased
           /\ rollover' < 0 => (rollover < 0 /\ rollover' = rollover) \/ purchased' = 0
<1> DEFINE sbn   == FromSubscription(amount)
           rest1 == amount - sbn
           fr    == FromRollover(rest1)
           rest2 == rest1 - fr
           fp    == FromPurchased(rest2)
           debt  == rest2 - fp
<1>1. amount \in Nat /\ rollover \in Int /\ purchased \in Nat
      BY UsageAssumption DEF TypeOK
<1>2. EffectiveLimit \in Nat /\ used[sub.start] \in Nat /\ sub.start \in Cycles
      BY UsageAssumption DEF TypeOK, EffectiveLimit
<1>3. sbn \in Nat /\ sbn <= amount
      BY <1>1, <1>2 DEF FromSubscription, Least, AtLeast0
<1>4. rest1 \in Nat
      BY <1>1, <1>3
<1>5. fr \in Nat /\ fr <= rest1 /\ (fr < rest1 => fr = AtLeast0(rollover))
      BY <1>1, <1>4 DEF FromRollover, Least, AtLeast0
<1>6. rest2 \in Nat
      BY <1>4, <1>5
<1>7. fp \in Nat /\ fp <= rest2 /\ fp <= purchased /\ (fp < rest2 => fp = purchased)
      BY <1>1, <1>6 DEF FromPurchased, Least
<1>8. debt \in Nat
      BY <1>6, <1>7
<1>9. /\ used' = [used EXCEPT ![sub.start] = @ + sbn]
      /\ rollover' = rollover - fr - debt
      /\ purchased' = purchased - fp
      BY DEF Charge
<1>10. used' \in [Cycles -> Nat]
       BY <1>2, <1>3, <1>9 DEF TypeOK
<1>11. rollover' \in Int /\ rollover' <= rollover /\ purchased' \in Nat /\ purchased' <= purchased
       BY <1>1, <1>5, <1>7, <1>8, <1>9
<1>12. ASSUME rollover' < 0, purchased' # 0
       PROVE  rollover < 0 /\ rollover' = rollover
  <2>1. debt = 0
        BY <1>1, <1>6, <1>7, <1>9, <1>12
  <2>2. fr <= AtLeast0(rollover)
        BY <1>1, <1>4 DEF FromRollover, Least, AtLeast0
  <2>3. rollover < 0
        BY <1>1, <1>5, <1>9, <1>12, <2>1, <2>2 DEF AtLeast0
  <2>4. fr = 0
        BY <1>1, <1>5, <2>2, <2>3 DEF AtLeast0
  <2>5. QED
        BY <1>1, <1>9, <2>1, <2>3, <2>4
<1>13. QED
       BY <1>10, <1>11, <1>12

\* What a grant computes is an integer under the cap, not below what was loaded.
LEMMA GrantBounded ==
    ASSUME TypeOK, NEW h \in Handlers, NEW plan \in Plans, NEW cycle \in Cycles,
           hroll[h] <= Cap
    PROVE  /\ NewRollover(h, plan, cycle) \in Int
           /\ NewRollover(h, plan, cycle) <= Cap
           /\ hroll[h] <= NewRollover(h, plan, cycle)
<1>1. hroll[h] \in Int /\ Cap \in Nat /\ Limit[plan] \in Nat /\ used[cycle] \in Nat
      BY UsageAssumption DEF TypeOK
<1>2. QED
      BY <1>1 DEF NewRollover, Least, AtLeast0

-----------------------------------------------------------------------------
LEMMA UsageInit == Init => CreditInv
<1> SUFFICES ASSUME Init  PROVE CreditInv
    OBVIOUS
<1>1. 1 \in Cycles /\ FirstSub \in [status : Statuses, plan : Plans, start : Cycles]
      BY UsageAssumption DEF Cycles, Statuses, FirstSub
<1>2. TypeOK
  <2>1. /\ stripe \in [status : Statuses, plan : Plans, start : Cycles]
        /\ sub \in [status : Statuses, plan : Plans, start : Cycles]
        /\ hsub \in [Handlers -> [status : Statuses, plan : Plans, start : Cycles]]
        /\ hstripe \in [Handlers -> [status : Statuses, plan : Plans, start : Cycles]]
        BY <1>1 DEF Init
  <2>2. /\ rollover \in Int /\ purchased \in Nat /\ charged \in Nat
        /\ last \in {0} \cup Cycles /\ invoices \subseteq Cycles \ {1}
        /\ unpaid \in BOOLEAN /\ failures \in BOOLEAN
        /\ overtaken \in BOOLEAN /\ movedBack \in BOOLEAN
        BY UsageAssumption DEF Init
  <2>3. /\ used \in [Cycles -> Nat] /\ credited \in [Cycles -> Int]
        /\ periodPlan \in [Cycles -> Plans \cup {NoPlan}]
        /\ named \in [Cycles -> SUBSET Plans]
        BY UsageAssumption DEF Init
  <2>4. /\ hpc \in [Handlers -> {"idle", "invoice", "loaded", "fetched", "apply"}]
        /\ hroll \in [Handlers -> Int]
        /\ hlast \in [Handlers -> {0} \cup Cycles]
        /\ hinv \in [Handlers -> {0} \cup (Cycles \ {1})]
        /\ hwrite \in [Handlers -> SUBSET Fields]
        /\ \A h \in Handlers : hpc[h] # "invoice"
        BY DEF Init
  <2>5. QED
        BY <2>1, <2>2, <2>3, <2>4 DEF TypeOK
<1>3. RolloverCapped /\ DebtLast /\ UnpaidRenewal /\ LoadedRow
      BY UsageAssumption DEF Init, RolloverCapped, DebtLast, UnpaidRenewal, LoadedRow
<1>4. QED
      BY <1>2, <1>3 DEF CreditInv

\* The part of the invariant that only the charges and the grants can disturb is kept
\* by every step that leaves the credit alone and loads no rollover.
LEMMA CreditUntouched ==
    ASSUME CreditInv, UNCHANGED <<rollover, purchased>>,
           \A h \in Handlers : hpc'[h] = "invoice" => hpc[h] = "invoice" /\ hroll'[h] = hroll[h]
    PROVE  RolloverCapped' /\ DebtLast' /\ LoadedRow'
BY DEF CreditInv, RolloverCapped, DebtLast, LoadedRow

\* What is named for a cycle are plans, what was named before among them.
LEMMA NamesTyped ==
    ASSUME TypeOK, NamePlans, sub'.plan \in Plans,
           periodPlan' \in [Cycles -> Plans \cup {NoPlan}]
    PROVE  /\ named' \in [Cycles -> SUBSET Plans]
           /\ \A c \in Cycles :
                  /\ named[c] \subseteq named'[c]
                  /\ periodPlan'[c] # NoPlan => periodPlan'[c] \in named'[c]
                  /\ sub'.start = c => sub'.plan \in named'[c]
<1> DEFINE N(c) == named[c] \cup ({periodPlan'[c]} \ {NoPlan})
                             \cup {plan \in {sub'.plan} : sub'.start = c}
<1>1. named' = [c \in Cycles |-> N(c)]
      BY DEF NamePlans
<1>2. \A c \in Cycles : N(c) \in SUBSET Plans
      BY DEF TypeOK
<1>3. \A c \in Cycles :
          /\ named[c] \subseteq N(c)
          /\ periodPlan'[c] # NoPlan => periodPlan'[c] \in N(c)
          /\ sub'.start = c => sub'.plan \in N(c)
      OBVIOUS
<1> HIDE DEF N
<1>4. QED
      BY <1>1, <1>2, <1>3

LEMMA NamesNow ==
    ASSUME TypeOK, TypeOK', NamePlans
    PROVE  PlansNamed' /\ \A c \in Cycles : named[c] \subseteq named'[c]
<1>1. sub'.plan \in Plans /\ sub'.start \in Cycles /\ periodPlan' \in [Cycles -> Plans \cup {NoPlan}]
      BY DEF TypeOK
<1>2. \A c \in Cycles :
          /\ named[c] \subseteq named'[c]
          /\ periodPlan'[c] # NoPlan => periodPlan'[c] \in named'[c]
          /\ sub'.start = c => sub'.plan \in named'[c]
      BY <1>1, NamesTyped
<1>3. QED
      BY <1>1, <1>2 DEF PlansNamed

\* A handler that ends forgets what it read.
LEMMA DoneTyped ==
    ASSUME TypeOK, NEW h \in Handlers, Done(h)
    PROVE  /\ hpc' \in [Handlers -> {"idle", "invoice", "loaded", "fetched", "apply"}]
           /\ hsub' \in [Handlers -> [status : Statuses, plan : Plans, start : Cycles]]
           /\ hroll' \in [Handlers -> Int]
           /\ hlast' \in [Handlers -> {0} \cup Cycles]
           /\ hinv' \in [Handlers -> {0} \cup (Cycles \ {1})]
           /\ hstripe' \in [Handlers -> [status : Statuses, plan : Plans, start : Cycles]]
           /\ hwrite' \in [Handlers -> SUBSET Fields]
           /\ \A g \in Handlers : hpc'[g] = "invoice" => hinv'[g] # 0
<1>1. FirstSub \in [status : Statuses, plan : Plans, start : Cycles]
      BY UsageAssumption DEF Cycles, Statuses, FirstSub
<1>2. QED
      BY <1>1 DEF TypeOK, Done

LEMMA ChargeStep ==
    ASSUME CreditInv, NEW amount \in Amounts, RecordUsage(amount)
    PROVE  CreditInv'
<1>1. TypeOK /\ Charge(amount) /\ charged' = charged + amount
      /\ periodPlan' = PeriodRow(sub.start, sub.plan)
      /\ UNCHANGED <<last, sub, stripeVars, handlerVars, historyVars>>
      BY DEF CreditInv, RecordUsage
<1>2. /\ used' \in [Cycles -> Nat]
      /\ rollover' \in Int /\ rollover' <= rollover
      /\ purchased' \in Nat /\ purchased' <= purchased
      /\ rollover' < 0 => (rollover < 0 /\ rollover' = rollover) \/ purchased' = 0
      BY <1>1, ChargeKeepsOrder
<1>3. charged' \in Nat
      BY <1>1, UsageAssumption DEF TypeOK
<1>4. periodPlan' \in [Cycles -> Plans \cup {NoPlan}]
      BY <1>1 DEF TypeOK, PeriodRow
<1>5. TypeOK'
      BY <1>1, <1>2, <1>3, <1>4 DEF TypeOK, stripeVars, handlerVars, historyVars
<1>6. purchased = 0 => purchased' = 0
      BY <1>1, <1>2 DEF TypeOK
<1>7. RolloverCapped'
      BY <1>1, <1>2, UsageAssumption DEF CreditInv, RolloverCapped, TypeOK
<1>8. DebtLast'
      BY <1>2, <1>6 DEF CreditInv, DebtLast
<1>9. LoadedRow'
      BY <1>1, <1>6 DEF CreditInv, LoadedRow, handlerVars
<1>10. UnpaidRenewal'
       BY <1>1 DEF CreditInv, UnpaidRenewal, stripeVars
<1>11. QED
       BY <1>5, <1>7, <1>8, <1>9, <1>10 DEF CreditInv

LEMMA StripeKeeps ==
    ASSUME CreditInv, StripeStep
    PROVE  CreditInv'
<1>1. UNCHANGED <<sub, creditVars, handlerVars, charged, historyVars>>
      BY DEF StripeStep, StripeRenew, StripeUpgrade, StripeCollect, StripeCancel
<1>2. /\ stripe' \in [status : Statuses, plan : Plans, start : Cycles]
      /\ unpaid' \in BOOLEAN
      /\ invoices' \subseteq Cycles \ {1}
      /\ failures' \in BOOLEAN
  <2>0. /\ stripe \in [status : Statuses, plan : Plans, start : Cycles]
        /\ unpaid \in BOOLEAN /\ failures \in BOOLEAN /\ invoices \subseteq Cycles \ {1}
        BY DEF CreditInv, TypeOK
  <2>1. ASSUME NEW plan \in Plans, StripeRenew(plan)  PROVE <1>2!:
    <3>1. stripe.start \in Cycles /\ stripe.start < NumCycles
          BY <2>0, <2>1 DEF StripeRenew
    <3>2. stripe.start + 1 \in Cycles \ {1}
          BY <3>1, UsageAssumption DEF Cycles
    <3>3. CASE /\ stripe' = [stripe EXCEPT !.start = @ + 1, !.plan = plan]
               /\ invoices' = {stripe'.start}
               /\ UNCHANGED <<unpaid, failures>>
      <4>1. stripe' \in [status : Statuses, plan : Plans, start : Cycles]
            /\ stripe'.start = stripe.start + 1
            BY <2>0, <3>2, <3>3
      <4>2. QED
            BY <2>0, <3>2, <3>3, <4>1
    <3>4. CASE /\ stripe' = [status |-> "past_due", plan |-> plan, start |-> stripe.start + 1]
               /\ unpaid' = TRUE
               /\ failures' = TRUE
               /\ UNCHANGED invoices
      <4>1. stripe' \in [status : Statuses, plan : Plans, start : Cycles]
            BY <3>2, <3>4 DEF Statuses
      <4>2. QED
            BY <2>0, <3>4, <4>1
    <3>5. QED
          BY <2>1, <3>3, <3>4 DEF StripeRenew
  <2>2. ASSUME NEW plan \in Plans, StripeUpgrade(plan)  PROVE <1>2!:
        BY <2>0, <2>2 DEF StripeUpgrade
  <2>3. CASE StripeCollect
    <3>1. stripe.start \in Cycles \ {1}
          BY <2>0, <2>3 DEF StripeCollect, CreditInv, UnpaidRenewal
    <3>2. QED
          BY <2>0, <2>3, <3>1 DEF StripeCollect, Statuses
  <2>4. CASE StripeCancel
        BY <2>0, <2>4 DEF StripeCancel, Statuses
  <2>5. QED
        BY <2>1, <2>2, <2>3, <2>4 DEF StripeStep
<1>3. TypeOK'
      BY <1>1, <1>2 DEF CreditInv, TypeOK, creditVars, handlerVars, historyVars
<1>4. UnpaidRenewal'
  <2>1. stripe.start \in Int /\ 1 <= stripe.start /\ (unpaid => stripe.start # 1)
        BY DEF CreditInv, TypeOK, Cycles, UnpaidRenewal
  <2>2. ASSUME NEW plan \in Plans, StripeRenew(plan)  PROVE stripe'.start # 1
    <3>1. stripe' = [stripe EXCEPT !.start = @ + 1, !.plan = plan]
          \/ stripe' = [status |-> "past_due", plan |-> plan, start |-> stripe.start + 1]
          BY <2>2 DEF StripeRenew
    <3>2. stripe \in [status : Statuses, plan : Plans, start : Cycles]
          BY DEF CreditInv, TypeOK
    <3>3. stripe'.start = stripe.start + 1
      <4>1. CASE stripe' = [stripe EXCEPT !.start = @ + 1, !.plan = plan]
            BY <3>2, <4>1
      <4>2. CASE stripe' = [status |-> "past_due", plan |-> plan, start |-> stripe.start + 1]
            BY <4>2
      <4>3. QED
            BY <3>1, <4>1, <4>2
    <3>4. QED
          BY <2>1, <3>3
  <2>3. ASSUME NEW plan \in Plans, StripeUpgrade(plan) \/ StripeCollect \/ StripeCancel
        PROVE  stripe'.start = stripe.start /\ (unpaid' => unpaid)
        BY <2>3 DEF StripeUpgrade, StripeCollect, StripeCancel, CreditInv, TypeOK
  <2>4. QED
        BY <2>1, <2>2, <2>3, UsageAssumption DEF StripeStep, UnpaidRenewal
<1>5. QED
      BY <1>1, <1>3, <1>4, CreditUntouched DEF CreditInv, creditVars, handlerVars

\* An invoice handler reads the row as it is, and so a row that satisfies the invariant.
LEMMA InvoiceLoadStep ==
    ASSUME CreditInv, NEW h \in Handlers, NEW k \in invoices, InvoiceLoad(h, k)
    PROVE  CreditInv'
<1>1. /\ hsub' = [hsub EXCEPT ![h] = sub]
      /\ hroll' = [hroll EXCEPT ![h] = rollover]
      /\ hlast' = [hlast EXCEPT ![h] = last]
      /\ hinv' = [hinv EXCEPT ![h] = k]
      /\ hpc' = [hpc EXCEPT ![h] = "invoice"]
      /\ UNCHANGED <<hstripe, hwrite, sub, stripeVars, creditVars, charged, historyVars>>
      BY DEF InvoiceLoad
<1>2. TypeOK'
  <2>1. k \in Cycles \ {1} /\ k # 0
        BY DEF CreditInv, TypeOK, Cycles
  <2>2. /\ hpc' \in [Handlers -> {"idle", "invoice", "loaded", "fetched", "apply"}]
        /\ hsub' \in [Handlers -> [status : Statuses, plan : Plans, start : Cycles]]
        /\ hroll' \in [Handlers -> Int]
        /\ hlast' \in [Handlers -> {0} \cup Cycles]
        BY <1>1 DEF CreditInv, TypeOK
  <2>3. /\ hinv' \in [Handlers -> {0} \cup (Cycles \ {1})]
        /\ \A g \in Handlers : hpc'[g] = "invoice" => hinv'[g] # 0
        BY <1>1, <2>1 DEF CreditInv, TypeOK
  <2>4. QED
        BY <1>1, <2>2, <2>3 DEF CreditInv, TypeOK, stripeVars, creditVars, historyVars
<1>3. RolloverCapped' /\ DebtLast' /\ UnpaidRenewal'
      BY <1>1 DEF CreditInv, RolloverCapped, DebtLast, UnpaidRenewal, stripeVars, creditVars
<1>4. LoadedRow'
      BY <1>1 DEF CreditInv, TypeOK, RolloverCapped, DebtLast, LoadedRow, creditVars
<1>5. QED
      BY <1>2, <1>3, <1>4 DEF CreditInv

\* The step that may write a rollover computed from an overtaken row.
LEMMA InvoiceCommitStep ==
    ASSUME CreditInv, NEW h \in Handlers, InvoiceCommit(h)
    PROVE  CreditInv'
<1> DEFINE k == hinv[h]
           cycle == k - 1
           plan == ClosingPlan(h, cycle)
           new == NewRollover(h, plan, cycle)
<1>1. TypeOK /\ hpc[h] = "invoice" /\ hroll[h] <= Cap /\ hroll[h] \in Int
      /\ (hroll[h] < 0 => purchased = 0)
      BY DEF CreditInv, TypeOK, LoadedRow, InvoiceCommit
<1>2. k \in Cycles \ {1} /\ cycle \in Cycles
  <2>1. k \in Cycles \ {1}
        BY <1>1 DEF TypeOK
  <2>2. QED
        BY <2>1, UsageAssumption DEF Cycles
<1>3. plan \in Plans
      BY <1>1, <1>2 DEF TypeOK, ClosingPlan
<1> HIDE DEF plan
<1>4. new \in Int /\ new <= Cap /\ hroll[h] <= new
      BY <1>1, <1>2, <1>3, GrantBounded
<1> HIDE DEF new
<1>5. /\ sub' = IF hsub[h].start # k THEN [sub EXCEPT !.start = k] ELSE sub
      /\ movedBack' = (movedBack \/ sub'.start < sub.start)
      /\ periodPlan' = PeriodRow(k, hsub[h].plan)
      /\ NamePlans
      /\ invoices' \in {invoices, invoices \ {k}}
      /\ Done(h)
      /\ UNCHANGED <<stripe, unpaid, failures, purchased, used, charged>>
      BY DEF InvoiceCommit
<1>6. \/ UNCHANGED <<rollover, last, credited, overtaken>>
      \/ /\ rollover' = IF new # hroll[h] THEN new ELSE rollover
         /\ last' = k
         /\ credited' = [credited EXCEPT ![cycle] = @ + (new - hroll[h])]
         /\ overtaken' = (overtaken \/ hroll[h] # rollover \/ hlast[h] # last)
      BY DEF InvoiceCommit, new, plan
<1>7. /\ rollover' \in Int
      /\ last' \in {0} \cup Cycles
      /\ credited' \in [Cycles -> Int]
      BY <1>1, <1>2, <1>4, <1>6 DEF TypeOK
<1>8. overtaken' \in BOOLEAN /\ movedBack' \in BOOLEAN
      BY <1>1, <1>5, <1>6 DEF TypeOK
<1>9. /\ sub' \in [status : Statuses, plan : Plans, start : Cycles]
      /\ periodPlan' \in [Cycles -> Plans \cup {NoPlan}]
      BY <1>1, <1>2, <1>5 DEF TypeOK, PeriodRow
<1>17. sub'.plan \in Plans
      BY <1>9
<1>18. named' \in [Cycles -> SUBSET Plans]
      BY <1>1, <1>5, <1>9, <1>17, NamesTyped
<1>10. /\ hpc' \in [Handlers -> {"idle", "invoice", "loaded", "fetched", "apply"}]
       /\ hsub' \in [Handlers -> [status : Statuses, plan : Plans, start : Cycles]]
       /\ hroll' \in [Handlers -> Int]
       /\ hlast' \in [Handlers -> {0} \cup Cycles]
       /\ hinv' \in [Handlers -> {0} \cup (Cycles \ {1})]
       /\ hstripe' \in [Handlers -> [status : Statuses, plan : Plans, start : Cycles]]
       /\ hwrite' \in [Handlers -> SUBSET Fields]
       /\ \A g \in Handlers : hpc'[g] = "invoice" => hinv'[g] # 0
       BY <1>1, <1>5, DoneTyped
<1>11. TypeOK'
       BY <1>1, <1>5, <1>7, <1>8, <1>9, <1>10, <1>18 DEF TypeOK
<1>12. RolloverCapped'
       BY <1>4, <1>6 DEF CreditInv, RolloverCapped
<1>13. DebtLast'
       BY <1>1, <1>4, <1>5, <1>6 DEF CreditInv, TypeOK, DebtLast
<1>14. UnpaidRenewal'
       BY <1>5 DEF CreditInv, UnpaidRenewal
<1>15. LoadedRow'
       BY <1>1, <1>5 DEF CreditInv, TypeOK, LoadedRow, Done
<1>16. QED
       BY <1>11, <1>12, <1>13, <1>14, <1>15 DEF CreditInv

\* The handlers that copy Stripe's fields never touch the credit.
LEMMA MirrorSteps ==
    ASSUME CreditInv, NEW h \in Handlers,
           UpdateLoad(h) \/ UpdateFetch(h) \/ SyncFetch(h) \/ SyncLoad(h)
    PROVE  CreditInv'
<1> USE DEF CreditInv
<1>1. UNCHANGED <<hroll, hlast, hinv, sub, stripeVars, creditVars, charged, historyVars>>
      BY DEF UpdateLoad, UpdateFetch, SyncFetch, SyncLoad
<1>2. /\ hpc' \in [Handlers -> {"idle", "invoice", "loaded", "fetched", "apply"}]
      /\ \A g \in Handlers : hpc'[g] = "invoice" => hpc[g] = "invoice"
      BY DEF UpdateLoad, UpdateFetch, SyncFetch, SyncLoad, TypeOK
<1>3. /\ hsub' \in [Handlers -> [status : Statuses, plan : Plans, start : Cycles]]
      /\ hstripe' \in [Handlers -> [status : Statuses, plan : Plans, start : Cycles]]
      /\ hwrite' \in [Handlers -> SUBSET Fields]
  <2>1. FirstSub \in [status : Statuses, plan : Plans, start : Cycles]
        BY UsageAssumption DEF Cycles, Statuses, FirstSub
  <2>2. \A a, b : Changed(a, b) \in SUBSET Fields
        BY DEF Changed
  <2>3. CASE UpdateLoad(h)
        BY <2>3 DEF UpdateLoad, TypeOK
  <2>4. CASE UpdateFetch(h)
        BY <2>1, <2>2, <2>4 DEF UpdateFetch, TypeOK
  <2>5. CASE SyncFetch(h)
        BY <2>5 DEF SyncFetch, TypeOK
  <2>6. CASE SyncLoad(h)
        BY <2>2, <2>6 DEF SyncLoad, TypeOK
  <2>7. QED
        BY <2>3, <2>4, <2>5, <2>6
<1>5. TypeOK'
      BY <1>1, <1>2, <1>3 DEF TypeOK, stripeVars, creditVars, historyVars
<1>6. UnpaidRenewal'
      BY <1>1 DEF UnpaidRenewal, stripeVars
<1>7. QED
      BY <1>1, <1>2, <1>5, <1>6, CreditUntouched DEF creditVars

LEMMA ApplyStep ==
    ASSUME CreditInv, NEW h \in Handlers, Apply(h)
    PROVE  CreditInv'
<1>1. /\ sub' = [f \in Fields |-> IF f \in hwrite[h] THEN hstripe[h][f] ELSE sub[f]]
      /\ movedBack' = (movedBack \/ sub'.start < sub.start)
      /\ Done(h) /\ TypeOK
      /\ UNCHANGED <<stripeVars, rollover, purchased, last, used, charged, credited, overtaken>>
      BY DEF Apply, CreditInv
<1>2. sub' \in [status : Statuses, plan : Plans, start : Cycles]
  <2>1. hstripe[h] \in [status : Statuses, plan : Plans, start : Cycles]
        /\ sub \in [status : Statuses, plan : Plans, start : Cycles]
        BY <1>1 DEF TypeOK
  <2>2. QED
        BY <1>1, <2>1 DEF Fields
<1>3. periodPlan' \in [Cycles -> Plans \cup {NoPlan}]
      BY <1>1 DEF Apply, TypeOK
<1>4. movedBack' \in BOOLEAN
      BY <1>1 DEF TypeOK
<1>10. sub'.plan \in Plans /\ NamePlans
      BY <1>2 DEF Apply
<1>11. named' \in [Cycles -> SUBSET Plans]
      BY <1>1, <1>3, <1>10, NamesTyped
<1>5. /\ hpc' \in [Handlers -> {"idle", "invoice", "loaded", "fetched", "apply"}]
      /\ hsub' \in [Handlers -> [status : Statuses, plan : Plans, start : Cycles]]
      /\ hroll' \in [Handlers -> Int]
      /\ hlast' \in [Handlers -> {0} \cup Cycles]
      /\ hinv' \in [Handlers -> {0} \cup (Cycles \ {1})]
      /\ hstripe' \in [Handlers -> [status : Statuses, plan : Plans, start : Cycles]]
      /\ hwrite' \in [Handlers -> SUBSET Fields]
      /\ \A g \in Handlers : hpc'[g] = "invoice" => hinv'[g] # 0
      BY <1>1, DoneTyped
<1>6. TypeOK'
      BY <1>1, <1>2, <1>3, <1>4, <1>5, <1>11 DEF TypeOK, stripeVars
<1>7. UnpaidRenewal'
      BY <1>1 DEF CreditInv, UnpaidRenewal, stripeVars
<1>8. \A g \in Handlers : hpc'[g] = "invoice" => hpc[g] = "invoice" /\ hroll'[g] = hroll[g]
      BY <1>1 DEF TypeOK, Done
<1>9. QED
      BY <1>1, <1>6, <1>7, <1>8, CreditUntouched DEF CreditInv

\* customer.subscription.deleted and invoice.payment_failed write the status alone.
LEMMA StatusSteps ==
    ASSUME CreditInv, SubscriptionDeleted \/ InvoiceFailed
    PROVE  CreditInv'
<1>1. /\ UNCHANGED <<stripe, unpaid, invoices, creditVars, handlerVars, charged, historyVars>>
      /\ failures' \in BOOLEAN
      BY DEF SubscriptionDeleted, InvoiceFailed, stripeVars, CreditInv, TypeOK
<1>2. sub' \in [status : Statuses, plan : Plans, start : Cycles]
      BY DEF SubscriptionDeleted, InvoiceFailed, CreditInv, TypeOK, Statuses
<1>3. TypeOK'
      BY <1>1, <1>2 DEF CreditInv, TypeOK, creditVars, handlerVars, historyVars
<1>4. UnpaidRenewal'
      BY <1>1 DEF CreditInv, UnpaidRenewal
<1>5. QED
      BY <1>1, <1>3, <1>4, CreditUntouched DEF CreditInv, creditVars, handlerVars

LEMMA UsageStutter ==
    ASSUME CreditInv, UNCHANGED vars
    PROVE  CreditInv'
<1>1. TypeOK'
      BY DEF CreditInv, TypeOK, vars
<1>2. QED
      BY <1>1 DEF CreditInv, RolloverCapped, DebtLast, UnpaidRenewal, LoadedRow, vars

-----------------------------------------------------------------------------
(* Where the credit came from and where it went.                             *)

LEMMA TotalIsInt == ASSUME NEW f \in [Cycles -> Int]  PROVE Total(f) \in Int
<1>1. IsFiniteSet(Cycles) /\ \A x \in Cycles : f[x] \in Int
      BY UsageAssumption, FS_Interval DEF Cycles
<1>2. SumOf(f, Cycles) \in Int
      BY <1>1, SumIsInt
<1>3. QED
      BY <1>2 DEF Total

LEMMA TotalChanges ==
    ASSUME NEW f \in [Cycles -> Int], NEW c \in Cycles, NEW d \in Int,
           NEW g, g = [f EXCEPT ![c] = @ + d]
    PROVE  Total(f) \in Int /\ Total(g) = Total(f) + d
<1>1. IsFiniteSet(Cycles)
      BY UsageAssumption, FS_Interval DEF Cycles
<1>2. \A x \in Cycles : f[x] \in Int
      OBVIOUS
<1>3. g[c] = f[c] + d /\ g[c] \in Int /\ f[c] \in Int
      OBVIOUS
<1>4. IntOn(f, Cycles) /\ AgreeOn(f, g, Cycles \ {c})
      BY <1>2 DEF IntOn, AgreeOn
<1>5. SumOf(g, Cycles) = SumOf(f, Cycles) + (g[c] - f[c])
      BY ONLY <1>1, <1>3, <1>4, SumChange, c \in Cycles
<1>6. SumOf(f, Cycles) \in Int
      BY <1>1, <1>2, SumIsInt
<1>7. QED
      BY <1>3, <1>5, <1>6 DEF Total

LEMMA TotalOfNothing == Total([c \in Cycles |-> 0]) = 0
<1> DEFINE zero == [c \in Cycles |-> 0]
           Good == {n \in Nat : \A T \in SUBSET Cycles : Cardinality(T) = n => SumOf(zero, T) = 0}
<1>1. IsFiniteSet(Cycles)
      BY UsageAssumption, FS_Interval DEF Cycles
<1>2. \A T \in SUBSET Cycles : IsFiniteSet(T) /\ Cardinality(T) \in Nat
      BY <1>1, FS_Subset, FS_CardinalityType
<1>3. 0 \in Good
  <2>1. ASSUME NEW T \in SUBSET Cycles, Cardinality(T) = 0
        PROVE  SumOf(zero, T) = 0
    <3>1. T = {}
          BY <1>2, <2>1, FS_EmptySet
    <3>2. QED
          BY <3>1, SumEmpty
  <2>2. QED
        BY <2>1
<1>4. ASSUME NEW n \in Nat, n \in Good
      PROVE  n + 1 \in Good
  <2>1. ASSUME NEW T \in SUBSET Cycles, Cardinality(T) = n + 1
        PROVE  SumOf(zero, T) = 0
    <3>1. PICK x \in T : TRUE
          BY <1>2, <2>1, FS_EmptySet
    <3>2. Cardinality(T \ {x}) = n /\ T \ {x} \in SUBSET Cycles
          BY <1>2, <2>1, FS_RemoveElement
    <3>3. SumOf(zero, T \ {x}) = 0
          BY <1>4, <3>2
    <3>4. zero[x] = 0 /\ \A y \in T : zero[y] \in Int
          OBVIOUS
    <3> HIDE DEF zero
    <3>5. SumOf(zero, T) = zero[x] + SumOf(zero, T \ {x})
          BY <1>2, <3>4, SumRemove
    <3>6. QED
          BY <3>3, <3>4, <3>5
  <2>2. QED
        BY <2>1
<1> HIDE DEF Good, zero
<1>5. \A n \in Nat : n \in Good
      BY <1>3, <1>4, NatSetInduction
<1>6. SumOf(zero, Cycles) = 0
      BY <1>2, <1>5 DEF Good
<1>7. QED
      BY <1>6 DEF Total, zero

\* A charge is the sum of what it takes from the buckets, and takes from the
\* subscription no more than is left of its limit.
LEMMA ChargeSplits ==
    ASSUME TypeOK, NEW amount \in Amounts, Charge(amount)
    PROVE  \E sbn \in Nat :
               /\ used' = [used EXCEPT ![sub.start] = @ + sbn]
               /\ sbn <= AtLeast0(EffectiveLimit - used[sub.start])
               /\ amount = sbn + (rollover - rollover') + (purchased - purchased')
<1> DEFINE sbn   == FromSubscription(amount)
           rest1 == amount - sbn
           fr    == FromRollover(rest1)
           rest2 == rest1 - fr
           fp    == FromPurchased(rest2)
           debt  == rest2 - fp
<1>1. amount \in Nat /\ rollover \in Int /\ purchased \in Nat
      BY UsageAssumption DEF TypeOK
<1>2. EffectiveLimit \in Nat /\ used[sub.start] \in Nat
      BY UsageAssumption DEF TypeOK, EffectiveLimit
<1>3. sbn \in Nat /\ sbn <= amount /\ sbn <= AtLeast0(EffectiveLimit - used[sub.start])
      BY <1>1, <1>2 DEF FromSubscription, Least, AtLeast0
<1>4. rest1 \in Nat
      BY <1>1, <1>3
<1>5. fr \in Nat /\ fr <= rest1
      BY <1>1, <1>4 DEF FromRollover, Least, AtLeast0
<1>6. rest2 \in Nat
      BY <1>4, <1>5
<1>7. fp \in Nat /\ fp <= rest2
      BY <1>1, <1>6 DEF FromPurchased, Least
<1>8. /\ used' = [used EXCEPT ![sub.start] = @ + sbn]
      /\ rollover' = rollover - fr - debt
      /\ purchased' = purchased - fp
      BY DEF Charge
<1>9. amount = sbn + (rollover - rollover') + (purchased - purchased')
      BY <1>1, <1>3, <1>5, <1>7, <1>8
<1>10. QED
       BY <1>3, <1>8, <1>9

LEMMA GrantsInit == Init => GrantInv
<1> SUFFICES ASSUME Init  PROVE GrantInv
    OBVIOUS
<1>1. NewestInvoice
      BY DEF Init, FirstSub, NewestInvoice
<1>2. GrantsInOrder /\ GrantedAreClosed
      BY DEF Init, GrantsInOrder, GrantedAreClosed
<1>3. \A c \in Cycles : used[c] = 0 /\ used[c] + credited[c] = 0
      BY DEF Init
<1>4. ChargesAccounted
      BY UsageAssumption, TotalOfNothing DEF Init, ChargesAccounted
<1>5. QED
      BY <1>1, <1>2, <1>3, <1>4
      DEF GrantInv, UsedWithinPlan, AllowanceSpentOnce, ChargesAccountedUnlessOvertaken

\* A step forgets no plan that was named.
PlansKept == \A c \in Cycles : named[c] \subseteq named'[c]

LEMMA SameNames == UNCHANGED named => PlansKept
BY DEF PlansKept

\* A step that leaves the credit alone keeps the order of the grants
LEMMA GrantsUntouched ==
    ASSUME CreditInv, CreditInv', GrantInv,
           UNCHANGED <<rollover, purchased, last, used, charged, credited, overtaken>>,
           \A h \in Handlers : hpc'[h] = "invoice" =>
               hpc[h] = "invoice" /\ hlast'[h] = hlast[h] /\ hinv'[h] = hinv[h] /\ hsub'[h] = hsub[h],
           invoices' \subseteq {stripe'.start}, stripe.start <= stripe'.start,
           movedBack' \/ (~movedBack /\ sub.start <= sub'.start),
           PlansKept
    PROVE  GrantInv'
<1>1. /\ stripe.start \in Int /\ stripe'.start \in Int /\ sub.start \in Int /\ sub'.start \in Int
      /\ last \in Int /\ \A h \in Handlers : hinv[h] \in Int /\ hsub[h].start \in Int
      /\ \A c \in Cycles : c \in Int
  <2>1. TypeOK /\ TypeOK' /\ Cycles \subseteq Int
        BY DEF CreditInv, Cycles
  <2>2. stripe.start \in Cycles /\ stripe'.start \in Cycles /\ sub.start \in Cycles /\ sub'.start \in Cycles
        BY <2>1 DEF TypeOK
  <2>3. \A h \in Handlers : hinv[h] \in {0} \cup Cycles /\ hsub[h].start \in Cycles
        BY <2>1 DEF TypeOK
  <2>4. last \in {0} \cup Cycles
        BY <2>1 DEF TypeOK
  <2>5. {0} \cup Cycles \subseteq Int
        BY <2>1
  <2>6. last \in Int /\ \A h \in Handlers : hinv[h] \in Int
        BY <2>3, <2>4, <2>5
  <2>7. \A h \in Handlers : hsub[h].start \in Int
        BY <2>1, <2>3
  <2>8. QED
        BY <2>1, <2>2, <2>6, <2>7
<1>2. NewestInvoice'
      BY <1>1 DEF GrantInv, NewestInvoice
<1>3. GrantsInOrder'
      BY DEF GrantInv, GrantsInOrder
<1>4. GrantedAreClosed'
      BY <1>1 DEF GrantInv, GrantedAreClosed
<1>5. UsedWithinPlan' /\ AllowanceSpentOnce' /\ ChargesAccountedUnlessOvertaken'
  <2>1. UNCHANGED <<used, credited, overtaken>> /\ (movedBack => movedBack')
        OBVIOUS
  <2>2. QED
        BY <2>1 DEF PlansKept, GrantInv, UsedWithinPlan, AllowanceSpentOnce, ChargesAccountedUnlessOvertaken,
               ChargesAccounted, WithinPlan
<1>6. QED
      BY <1>2, <1>3, <1>4, <1>5 DEF GrantInv

LEMMA StartMovesOn ==
    ASSUME sub.start \in Int, sub'.start \in Int, movedBack' = (movedBack \/ sub'.start < sub.start)
    PROVE  movedBack' \/ (~movedBack /\ sub.start <= sub'.start)
<1>1. CASE sub'.start < sub.start
      BY <1>1
<1>2. CASE ~(sub'.start < sub.start)
  <2>1. sub.start <= sub'.start
        BY <1>2
  <2>2. QED
        BY <1>2, <2>1, Zenon
<1>3. QED
      BY <1>1, <1>2

LEMMA GrantsChargeStep ==
    ASSUME CreditInv, CreditInv', PlansNamed, GrantInv, NEW amount \in Amounts, RecordUsage(amount)
    PROVE  GrantInv'
<1>1. /\ charged' = charged + amount /\ Charge(amount)
      /\ UNCHANGED <<last, sub, stripeVars, handlerVars, historyVars>>
      BY DEF RecordUsage
<1>2. TypeOK /\ TypeOK'
      BY DEF CreditInv
<1>3. PICK sbn \in Nat :
               /\ used' = [used EXCEPT ![sub.start] = @ + sbn]
               /\ sbn <= AtLeast0(EffectiveLimit - used[sub.start])
               /\ amount = sbn + (rollover - rollover') + (purchased - purchased')
      BY <1>1, <1>2, ChargeSplits
<1>4. PICK c \in Cycles : c = sub.start /\ used[c] \in Nat
      BY <1>2 DEF TypeOK
<1>5. /\ used \in [Cycles -> Nat] /\ used'[c] = used[c] + sbn
      /\ \A d \in Cycles \ {c} : used'[d] = used[d]
      BY <1>2, <1>3, <1>4 DEF TypeOK
<1>6. sbn = 0 \/ \E p \in named[c] : used[c] + sbn <= Limit[p]
  <2>1. CASE sub.status = "canceled"
    <3>1. EffectiveLimit = 0
          BY <2>1 DEF EffectiveLimit
    <3>2. sbn = 0
          BY <1>3, <1>4, <3>1 DEF AtLeast0
    <3>3. QED
          BY <3>2
  <2>2. CASE sub.status # "canceled"
    <3>1. PICK p \in named[c] : EffectiveLimit = Limit[p] /\ Limit[p] \in Nat
          BY <1>2, <1>4, <2>2, UsageAssumption DEF EffectiveLimit, TypeOK, PlansNamed
    <3>2. sbn = 0 \/ used[c] + sbn <= Limit[p]
          BY <1>3, <1>4, <3>1 DEF AtLeast0
    <3>3. QED
          BY <3>2
  <2>3. QED
        BY <2>1, <2>2
<1>7. UsedWithinPlan'
  <2>1. UNCHANGED named
        BY <1>1 DEF historyVars
  <2>2. \A d \in Cycles : used'[d] = 0 \/ \E p \in named[d] : used'[d] <= Limit[p]
        BY <1>4, <1>5, <1>6 DEF GrantInv, UsedWithinPlan, WithinPlan
  <2>3. QED
        BY <2>1, <2>2 DEF UsedWithinPlan, WithinPlan
<1>8. AllowanceSpentOnce'
  <2>1. UNCHANGED <<overtaken, movedBack, credited, named>>
        BY <1>1 DEF historyVars
  <2> DEFINE Within(d, n) == n = 0 \/ \E p \in named[d] : n <= Limit[p]
  <2>2. SUFFICES ASSUME ~overtaken, ~movedBack
                 PROVE  \A d \in Cycles : Within(d, used'[d] + credited[d])
        BY <2>1 DEF AllowanceSpentOnce, WithinPlan
  <2>3. credited[c] = 0
        BY <1>2, <1>4, <2>2 DEF GrantInv, GrantedAreClosed, TypeOK, Cycles
  <2>4. Within(c, used'[c] + credited[c])
        BY <1>4, <1>5, <1>6, <2>3 DEF GrantInv, UsedWithinPlan, WithinPlan
  <2>5. \A d \in Cycles : Within(d, used[d] + credited[d])
        BY <2>2 DEF GrantInv, AllowanceSpentOnce, WithinPlan
  <2>6. QED
        BY <1>5, <2>4, <2>5
<1>9. ChargesAccountedUnlessOvertaken'
  <2>1. UNCHANGED <<overtaken, credited>>
        BY <1>1 DEF historyVars
  <2>2. SUFFICES ASSUME ~overtaken
                 PROVE  ChargesAccounted'
        BY <2>1 DEF ChargesAccountedUnlessOvertaken
  <2>3. used \in [Cycles -> Int] /\ credited \in [Cycles -> Int]
        BY <1>2 DEF TypeOK
  <2>4. Total(used) \in Int /\ Total(credited) \in Int
        BY <2>3, TotalIsInt
  <2>9. PICK u : u = used'
        OBVIOUS
  <2>10. u = [used EXCEPT ![c] = @ + sbn] /\ sbn \in Int
        BY <1>3, <1>4, <2>9
  <2>11. Total(u) = Total(used) + sbn
    <3>1. used \in [Cycles -> Int]
          BY <2>3
    <3>2. QED
          BY ONLY <3>1, <2>10, TotalChanges, c \in Cycles
  <2>5. charged = Total(used) + (FirstPurchased - purchased)
                    + (FirstRollover + Total(credited) - rollover)
        BY <2>2 DEF GrantInv, ChargesAccountedUnlessOvertaken, ChargesAccounted
  <2>6. /\ rollover \in Int /\ rollover' \in Int /\ purchased \in Nat /\ purchased' \in Nat
        /\ FirstPurchased \in Nat /\ FirstRollover \in Int /\ amount \in Nat
        BY <1>2, UsageAssumption DEF TypeOK
  <2>7. charged' = Total(used') + (FirstPurchased - purchased')
                     + (FirstRollover + Total(credited) - rollover')
        BY <1>1, <1>3, <2>4, <2>5, <2>6, <2>9, <2>11
  <2>8. QED
        BY <2>1, <2>7 DEF ChargesAccounted, Total
<1>10. NewestInvoice' /\ GrantsInOrder' /\ GrantedAreClosed'
       BY <1>1 DEF GrantInv, NewestInvoice, GrantsInOrder, GrantedAreClosed, stripeVars,
                   handlerVars, historyVars
<1>11. QED
       BY <1>7, <1>8, <1>9, <1>10 DEF GrantInv

\* An invoice handler is called for the newest invoice, and so for one that is not
\* older than what was granted last.
LEMMA GrantsLoadStep ==
    ASSUME CreditInv, CreditInv', GrantInv, NEW h \in Handlers, NEW k \in invoices, InvoiceLoad(h, k)
    PROVE  GrantInv'
<1>1. /\ hsub' = [hsub EXCEPT ![h] = sub]
      /\ hlast' = [hlast EXCEPT ![h] = last]
      /\ hinv' = [hinv EXCEPT ![h] = k]
      /\ hpc' = [hpc EXCEPT ![h] = "invoice"]
      /\ UNCHANGED <<sub, stripe, invoices, rollover, purchased, last, used, charged,
                     credited, overtaken, movedBack, named>>
      BY DEF InvoiceLoad, stripeVars, creditVars, historyVars
<1>2. /\ hsub \in [Handlers -> [status : Statuses, plan : Plans, start : Cycles]]
      /\ hlast \in [Handlers -> {0} \cup Cycles] /\ hinv \in [Handlers -> {0} \cup (Cycles \ {1})]
      /\ hpc \in [Handlers -> {"idle", "invoice", "loaded", "fetched", "apply"}]
      BY DEF CreditInv, TypeOK
<1>3. /\ hsub'[h] = sub /\ hlast'[h] = last /\ hinv'[h] = k
      /\ \A g \in Handlers \ {h} :
             hsub'[g] = hsub[g] /\ hlast'[g] = hlast[g] /\ hinv'[g] = hinv[g] /\ hpc'[g] = hpc[g]
      BY <1>1, <1>2
<1>4. k = stripe.start /\ last <= k
      BY DEF GrantInv, NewestInvoice
<1>5. last \in Int /\ k \in Int /\ sub.start \in Int
  <2>1. last \in {0} \cup Cycles /\ sub.start \in Cycles /\ k \in Cycles
        BY DEF CreditInv, TypeOK
  <2>2. QED
        BY <2>1 DEF Cycles
<1>6. NewestInvoice'
  <2>1. \A g \in Handlers : hpc'[g] = "invoice" => hinv'[g] <= stripe.start
        BY <1>3, <1>4, <1>5 DEF GrantInv, NewestInvoice
  <2>2. QED
        BY <1>1, <2>1 DEF GrantInv, NewestInvoice
<1>7. GrantsInOrder'
  <2>1. ASSUME ~overtaken, NEW g \in Handlers, hpc'[g] = "invoice"
        PROVE  hlast'[g] <= last /\ (hlast'[g] = last => last <= hinv'[g])
        BY <1>3, <1>4, <1>5, <2>1 DEF GrantInv, GrantsInOrder
  <2>2. QED
        BY <1>1, <2>1 DEF GrantInv, GrantsInOrder
<1>8. GrantedAreClosed'
  <2>1. ASSUME ~movedBack, NEW g \in Handlers, hpc'[g] = "invoice"
        PROVE  hsub'[g].start <= sub.start
        BY <1>3, <1>5, <2>1 DEF GrantInv, GrantedAreClosed
  <2>2. QED
        BY <1>1, <2>1 DEF GrantInv, GrantedAreClosed
<1>9. UsedWithinPlan' /\ AllowanceSpentOnce' /\ ChargesAccountedUnlessOvertaken'
      BY <1>1 DEF GrantInv, UsedWithinPlan, AllowanceSpentOnce, ChargesAccountedUnlessOvertaken,
                  ChargesAccounted, WithinPlan
<1>10. QED
       BY <1>6, <1>7, <1>8, <1>9 DEF GrantInv

\* The grant: what it adds is no more than the rest of the closing cycle, which no
\* earlier grant added and no later charge uses.
LEMMA GrantsCommitStep ==
    ASSUME CreditInv, CreditInv', PlansNamed, ClosedHasRow, GrantInv, PlansKept,
           NEW h \in Handlers, InvoiceCommit(h)
    PROVE  GrantInv'
<1> DEFINE plan == ClosingPlan(h, hinv[h] - 1)
           new == NewRollover(h, plan, hinv[h] - 1)
<1>1. PICK k \in Cycles \ {1}, c \in Cycles : k = hinv[h] /\ c = hinv[h] - 1
  <2>1. hinv[h] \in Cycles \ {1}
        BY DEF CreditInv, TypeOK, InvoiceCommit
  <2>2. hinv[h] - 1 \in Cycles
        BY <2>1, UsageAssumption DEF Cycles
  <2>3. QED
        BY <2>1, <2>2
<1>2. k \in Int /\ c \in Int /\ c = k - 1
      BY <1>1 DEF Cycles
<1>3. /\ hpc[h] = "invoice" /\ hroll[h] \in Int /\ hroll[h] <= Cap /\ hlast[h] \in Int
      /\ last \in Int /\ sub.start \in Int /\ sub'.start \in Int /\ stripe.start \in Int
      /\ hsub[h].start \in Int /\ used[c] \in Nat /\ rollover \in Int
  <2>1. hpc[h] = "invoice" /\ hroll[h] \in Int /\ hroll[h] <= Cap /\ rollover \in Int
        BY DEF CreditInv, TypeOK, LoadedRow, InvoiceCommit
  <2>2. /\ hlast[h] \in {0} \cup Cycles /\ last \in {0} \cup Cycles /\ stripe.start \in Cycles
        /\ hsub[h].start \in Cycles /\ used[c] \in Nat
        BY DEF CreditInv, TypeOK
  <2>3. sub.start \in Cycles /\ sub'.start \in Cycles
        BY DEF CreditInv, TypeOK
  <2>4. QED
        BY <2>1, <2>2, <2>3 DEF Cycles
<1>4. plan \in named[c] /\ plan \in Plans
  <2>1. periodPlan[c] # NoPlan
        BY <1>1 DEF ClosedHasRow, HasRow, InvoiceCommit
  <2>2. plan = periodPlan[c]
        BY <1>1, <2>1 DEF ClosingPlan
  <2>3. QED
        BY <2>1, <2>2 DEF PlansNamed, CreditInv, TypeOK
<1>5. PICK p \in named[c] : p = plan /\ Limit[p] \in Nat /\ p \in Plans
      BY <1>4, UsageAssumption
<1>6. PICK grant \in Int :
          /\ grant = new - hroll[h] /\ 0 <= grant
          /\ grant = 0 \/ used[c] + grant <= Limit[p]
  <2>1. new = Least(hroll[h] + AtLeast0(Limit[p] - used[c]), Cap)
        BY <1>1, <1>5 DEF NewRollover
  <2> HIDE DEF new, plan
  <2>2. Cap \in Int
        BY UsageAssumption
  <2>3. new \in Int /\ hroll[h] <= new /\ new - hroll[h] <= AtLeast0(Limit[p] - used[c])
        BY <1>3, <1>5, <2>1, <2>2 DEF Least, AtLeast0
  <2>4. new - hroll[h] = 0 \/ used[c] + (new - hroll[h]) <= Limit[p]
        BY <1>3, <1>5, <2>3 DEF AtLeast0
  <2>5. QED
        BY <1>3, <2>3, <2>4
<1>7. /\ sub' = IF hsub[h].start # k THEN [sub EXCEPT !.start = k] ELSE sub
      /\ movedBack' = (movedBack \/ sub'.start < sub.start)
      /\ invoices' \subseteq invoices
      /\ hpc' = [hpc EXCEPT ![h] = "idle"] /\ hlast' = [hlast EXCEPT ![h] = 0]
      /\ hinv' = [hinv EXCEPT ![h] = 0] /\ hsub' = [hsub EXCEPT ![h] = FirstSub]
      /\ UNCHANGED <<stripe, purchased, used, charged>>
      BY <1>1 DEF InvoiceCommit, Done
<1>8. \A g \in Handlers : hpc'[g] = "invoice" =>
          /\ g # h /\ hpc[g] = "invoice"
          /\ hlast'[g] = hlast[g] /\ hinv'[g] = hinv[g] /\ hsub'[g] = hsub[g]
      BY <1>7 DEF CreditInv, TypeOK
<1>12. movedBack' \/ (~movedBack /\ sub.start <= sub'.start)
       BY <1>3, <1>7, StartMovesOn
<1>9. CASE UNCHANGED <<rollover, last, credited, overtaken>>
  <2>2. invoices' \subseteq {stripe'.start} /\ stripe.start <= stripe'.start
        BY <1>3, <1>7 DEF GrantInv, NewestInvoice
  <2>3. QED
        BY <1>7, <1>8, <1>9, <1>12, <2>2, GrantsUntouched
<1>10. ASSUME ~IsReplay(h),
              rollover' = IF new # hroll[h] THEN new ELSE rollover,
              last' = k,
              credited' = [credited EXCEPT ![c] = @ + (new - hroll[h])],
              overtaken' = (overtaken \/ hroll[h] # rollover \/ hlast[h] # last)
       PROVE  GrantInv'
  <2> HIDE DEF new, plan
  <2>1. /\ credited \in [Cycles -> Int] /\ credited'[c] = credited[c] + grant
        /\ \A d \in Cycles \ {c} : credited'[d] = credited[d]
        BY <1>6, <1>10 DEF CreditInv, TypeOK
  <2>2. ASSUME ~overtaken'
        PROVE  /\ ~overtaken /\ hroll[h] = rollover /\ hlast[h] = last /\ last < k
               /\ credited[c] = 0 /\ rollover' = rollover + grant
    <3>1. ~overtaken /\ hroll[h] = rollover /\ hlast[h] = last
          BY <1>10, <2>2
    <3>2. last <= k /\ last # k
          BY <1>1, <1>3, <1>10, <3>1 DEF GrantInv, GrantsInOrder, IsReplay
    <3>3. credited[c] = 0
          BY <1>2, <1>3, <3>1, <3>2 DEF GrantInv, GrantsInOrder
    <3>4. new = rollover + grant
      <4>1. new \in Int
            BY <1>1, <1>3, <1>4, GrantBounded DEF new, CreditInv
      <4>2. QED
            BY <1>3, <1>6, <3>1, <4>1
    <3>5. QED
          BY <1>2, <1>3, <1>6, <1>10, <3>1, <3>2, <3>3, <3>4
  <2>3. ASSUME ~movedBack'
        PROVE  ~movedBack /\ sub.start <= sub'.start /\ k <= sub'.start
    <3>1. ~movedBack /\ sub.start <= sub'.start
          BY <1>12, <2>3
    <3>2. CASE hsub[h].start # k
          BY <1>2, <1>7, <3>1, <3>2 DEF CreditInv, TypeOK
    <3>3. CASE hsub[h].start = k
          BY <1>2, <1>3, <1>7, <3>1, <3>3 DEF GrantInv, GrantedAreClosed
    <3>4. QED
          BY <3>1, <3>2, <3>3
  <2>4. NewestInvoice'
        BY <1>1, <1>3, <1>7, <1>8, <1>10 DEF GrantInv, NewestInvoice
  <2>5. GrantsInOrder'
    <3>1. ASSUME ~overtaken', NEW g \in Handlers, hpc'[g] = "invoice"
          PROVE  hlast'[g] <= last' /\ hlast'[g] # last'
      <4>1. hlast[g] <= last /\ hlast[g] \in Int
        <5>1. hlast[g] \in {0} \cup Cycles
              BY DEF CreditInv, TypeOK
        <5>2. QED
              BY <1>8, <2>2, <3>1, <5>1 DEF GrantInv, GrantsInOrder, Cycles
      <4>2. QED
            BY <1>2, <1>3, <1>8, <1>10, <2>2, <3>1, <4>1
    <3>2. ASSUME ~overtaken', NEW d \in Cycles, credited'[d] # 0
          PROVE  d < last'
      <4>1. CASE d = c
            BY <1>2, <1>10, <4>1
      <4>2. CASE d # c
        <5>1. d < last /\ d \in Int
              BY <2>1, <2>2, <3>2, <4>2 DEF GrantInv, GrantsInOrder, Cycles
        <5>2. QED
              BY <1>2, <1>3, <1>10, <2>2, <3>2, <5>1
      <4>3. QED
            BY <4>1, <4>2
    <3>3. QED
          BY <3>1, <3>2 DEF GrantsInOrder
  <2>6. GrantedAreClosed'
    <3>1. ASSUME ~movedBack', NEW g \in Handlers, hpc'[g] = "invoice"
          PROVE  hsub'[g].start <= sub'.start
      <4>1. hsub[g].start <= sub.start /\ hsub[g].start \in Int
        <5>1. hsub[g].start \in Cycles
              BY DEF CreditInv, TypeOK
        <5>2. QED
              BY <1>8, <2>3, <3>1, <5>1 DEF GrantInv, GrantedAreClosed, Cycles
      <4>2. QED
            BY <1>3, <1>8, <2>3, <3>1, <4>1
    <3>2. ASSUME ~movedBack', ~overtaken', NEW d \in Cycles, credited'[d] # 0
          PROVE  d < sub'.start
      <4>1. CASE d = c
            BY <1>2, <1>3, <2>3, <3>2, <4>1
      <4>2. CASE d # c
        <5>1. d < sub.start /\ d \in Int
              BY <2>1, <2>2, <2>3, <3>2, <4>2 DEF GrantInv, GrantedAreClosed, Cycles
        <5>2. QED
              BY <1>3, <2>3, <3>2, <5>1
      <4>3. QED
            BY <4>1, <4>2
    <3>3. QED
          BY <3>1, <3>2 DEF GrantedAreClosed
  <2>7. UsedWithinPlan'
        BY <1>7 DEF GrantInv, UsedWithinPlan, WithinPlan, PlansKept
  <2>8. AllowanceSpentOnce'
    <3> DEFINE Within(d, n) == n = 0 \/ \E q \in named'[d] : n <= Limit[q]
    <3>1. ASSUME ~overtaken', ~movedBack', NEW d \in Cycles
          PROVE  Within(d, used'[d] + credited'[d])
      <4>1. CASE d = c
        <5>1. credited'[c] = grant
              BY <2>1, <2>2, <3>1
        <5>2. CASE grant = 0
              BY <1>3, <1>7, <4>1, <5>1, <5>2 DEF GrantInv, UsedWithinPlan, WithinPlan, PlansKept
        <5>3. CASE grant # 0
              BY <1>5, <1>6, <1>7, <4>1, <5>1, <5>3 DEF PlansKept
        <5>4. QED
              BY <5>2, <5>3
      <4>2. CASE d # c
            BY <1>7, <2>1, <2>2, <2>3, <3>1, <4>2 DEF GrantInv, AllowanceSpentOnce, WithinPlan, PlansKept
      <4>3. QED
            BY <4>1, <4>2
    <3>2. QED
          BY <3>1 DEF AllowanceSpentOnce, WithinPlan
  <2>9. ChargesAccountedUnlessOvertaken'
    <3>1. ASSUME ~overtaken'
          PROVE  charged' = Total(used') + (FirstPurchased - purchased')
                                + (FirstRollover + Total(credited') - rollover')
      <4>1. charged = Total(used) + (FirstPurchased - purchased)
                        + (FirstRollover + Total(credited) - rollover)
            BY <2>2, <3>1 DEF GrantInv, ChargesAccountedUnlessOvertaken, ChargesAccounted
      <4>2. credited' = [credited EXCEPT ![c] = @ + grant]
            BY <1>6, <1>10
      <4>3. Total(credited) \in Int /\ Total(credited') = Total(credited) + grant
            BY <2>1, <4>2, TotalChanges
      <4>4. used \in [Cycles -> Int]
            BY DEF CreditInv, TypeOK
      <4>5. Total(used) \in Int
            BY <4>4, TotalIsInt
      <4>6. FirstRollover \in Int /\ FirstPurchased \in Int /\ purchased \in Int
            BY UsageAssumption DEF CreditInv, TypeOK
      <4>7. rollover' = rollover + grant /\ charged' = charged /\ used' = used /\ purchased' = purchased
            BY <1>7, <2>2, <3>1
      <4>8. QED
            BY <1>3, <4>1, <4>3, <4>5, <4>6, <4>7
    <3>2. QED
          BY <3>1 DEF ChargesAccountedUnlessOvertaken, ChargesAccounted, Total
  <2>10. QED
         BY <2>4, <2>5, <2>6, <2>7, <2>8, <2>9 DEF GrantInv
<1>11. QED
       BY <1>1, <1>9, <1>10 DEF InvoiceCommit

-----------------------------------------------------------------------------
\* Stripe's own steps send no invoice but the newest.
LEMMA GrantsStripeStep ==
    ASSUME CreditInv, CreditInv', GrantInv, StripeStep
    PROVE  GrantInv'
<1>1. UNCHANGED <<sub, creditVars, handlerVars, charged, historyVars>>
      BY DEF StripeStep, StripeRenew, StripeUpgrade, StripeCollect, StripeCancel
<1>2. stripe.start \in Int /\ sub.start \in Int
  <2>1. stripe.start \in Cycles /\ sub.start \in Cycles
        BY DEF CreditInv, TypeOK
  <2>2. QED
        BY <2>1 DEF Cycles
<1>3. invoices' \subseteq {stripe'.start} /\ stripe.start <= stripe'.start
  <2>1. ASSUME NEW plan \in Plans, StripeRenew(plan)
        PROVE  invoices' \subseteq {stripe'.start} /\ stripe.start <= stripe'.start
    <3>1. stripe'.start = stripe.start + 1
      <4>1. \/ stripe' = [stripe EXCEPT !.start = @ + 1, !.plan = plan]
            \/ stripe' = [status |-> "past_due", plan |-> plan, start |-> stripe.start + 1]
            BY <2>1 DEF StripeRenew
      <4>2. stripe \in [status : Statuses, plan : Plans, start : Cycles]
            BY DEF CreditInv, TypeOK
      <4>3. ASSUME stripe' = [stripe EXCEPT !.start = @ + 1, !.plan = plan]
            PROVE  stripe'.start = stripe.start + 1
            BY ONLY <4>2, <4>3
      <4>4. QED
            BY <4>1, <4>3
    <3>2. invoices' \subseteq {stripe'.start}
          BY <2>1 DEF StripeRenew
    <3>3. QED
          BY <1>2, <3>1, <3>2
  <2>2. ASSUME NEW plan \in Plans, StripeUpgrade(plan)
        PROVE  stripe'.start = stripe.start /\ invoices' = invoices
        BY <2>2 DEF StripeUpgrade, CreditInv, TypeOK
  <2>3. ASSUME StripeCollect
        PROVE  stripe'.start = stripe.start /\ invoices' = {stripe.start}
        BY <2>3 DEF StripeCollect, CreditInv, TypeOK
  <2>4. ASSUME StripeCancel
        PROVE  stripe'.start = stripe.start /\ invoices' = invoices
        BY <2>4 DEF StripeCancel, CreditInv, TypeOK
  <2>5. ASSUME stripe'.start = stripe.start,
               invoices' = invoices \/ invoices' = {stripe.start}
        PROVE  invoices' \subseteq {stripe'.start} /\ stripe.start <= stripe'.start
        BY <1>2, <2>5 DEF GrantInv, NewestInvoice
  <2>6. QED
        BY <2>1, <2>2, <2>3, <2>4, <2>5 DEF StripeStep
<1>4. movedBack' \/ (~movedBack /\ sub.start <= sub'.start)
      BY <1>1, <1>2 DEF historyVars
<1>5. QED
      BY <1>1, <1>3, <1>4, SameNames, GrantsUntouched DEF creditVars, handlerVars, historyVars

\* A handler that does not grant leaves the credit alone; what it writes to the row may
\* move the period back, which is noted.
LEMMA GrantsMirrorStep ==
    ASSUME CreditInv, CreditInv', GrantInv, PlansKept, NEW h \in Handlers,
           UpdateLoad(h) \/ UpdateFetch(h) \/ SyncFetch(h) \/ SyncLoad(h) \/ Apply(h)
    PROVE  GrantInv'
<1>1. /\ UNCHANGED <<stripe, invoices, rollover, purchased, last, used, charged, credited, overtaken>>
      BY DEF UpdateLoad, UpdateFetch, SyncFetch, SyncLoad, Apply, stripeVars, creditVars, historyVars
<1>2. TypeOK
      BY DEF CreditInv
<1>3. stripe.start \in Int /\ sub.start \in Int /\ sub'.start \in Int
  <2>1. stripe.start \in Cycles /\ sub.start \in Cycles /\ sub'.start \in Cycles
        BY DEF CreditInv, TypeOK
  <2>2. QED
        BY <2>1 DEF Cycles
<1>4. \A g \in Handlers : hpc'[g] = "invoice" =>
          hpc[g] = "invoice" /\ hlast'[g] = hlast[g] /\ hinv'[g] = hinv[g] /\ hsub'[g] = hsub[g]
  <2>1. CASE UpdateLoad(h)
        BY <1>2, <2>1 DEF UpdateLoad, TypeOK
  <2>2. CASE UpdateFetch(h)
        BY <1>2, <2>2 DEF UpdateFetch, TypeOK
  <2>3. CASE SyncFetch(h)
        BY <1>2, <2>3 DEF SyncFetch, TypeOK
  <2>4. CASE SyncLoad(h)
        BY <1>2, <2>4 DEF SyncLoad, TypeOK
  <2>5. CASE Apply(h)
        BY <1>2, <2>5 DEF Apply, Done, TypeOK
  <2>6. QED
        BY <2>1, <2>2, <2>3, <2>4, <2>5
<1>5. movedBack' \/ (~movedBack /\ sub.start <= sub'.start)
  <2>1. CASE Apply(h)
        BY <1>3, <2>1, StartMovesOn DEF Apply
  <2>2. CASE ~Apply(h)
    <3>1. UNCHANGED <<sub, movedBack>>
          BY <2>2 DEF UpdateLoad, UpdateFetch, SyncFetch, SyncLoad, historyVars
    <3>2. QED
          BY <1>3, <3>1
  <2>3. QED
        BY <2>1, <2>2
<1>6. invoices' \subseteq {stripe'.start} /\ stripe.start <= stripe'.start
      BY <1>1, <1>3 DEF GrantInv, NewestInvoice
<1>7. QED
      BY <1>1, <1>4, <1>5, <1>6, GrantsUntouched

LEMMA GrantsStatusSteps ==
    ASSUME CreditInv, CreditInv', GrantInv,
           SubscriptionDeleted \/ InvoiceFailed \/ UNCHANGED vars
    PROVE  GrantInv'
<1>1. /\ UNCHANGED <<stripe, invoices, creditVars, handlerVars, charged, historyVars>>
      /\ sub'.start = sub.start
      BY DEF SubscriptionDeleted, InvoiceFailed, CreditInv, TypeOK, stripeVars, creditVars,
             handlerVars, historyVars, vars
<1>2. stripe.start \in Int /\ sub.start \in Int
  <2>1. stripe.start \in Cycles /\ sub.start \in Cycles
        BY DEF CreditInv, TypeOK
  <2>2. QED
        BY <2>1 DEF Cycles
<1>3. invoices' \subseteq {stripe'.start} /\ stripe.start <= stripe'.start
      BY <1>1, <1>2 DEF GrantInv, NewestInvoice
<1>4. movedBack' \/ (~movedBack /\ sub.start <= sub'.start)
      BY <1>1, <1>2 DEF historyVars
<1>5. QED
      BY <1>1, <1>3, <1>4, SameNames, GrantsUntouched DEF creditVars, handlerVars, historyVars

-----------------------------------------------------------------------------
(* The plans: a cycle that is closed has a row, whose plan was named for it. *)

LEMMA PlansInit == Init => PlansNamed /\ ClosedHasRow
<1> SUFFICES ASSUME Init  PROVE PlansNamed /\ ClosedHasRow
    OBVIOUS
<1>1. 1 \in Cycles /\ FirstPlan # NoPlan
      BY UsageAssumption DEF Cycles
<1>2. PlansNamed
      BY <1>1 DEF Init, FirstSub, PlansNamed
<1>3. ClosedHasRow
      BY <1>1 DEF Init, FirstSub, ClosedHasRow, HasRow
<1>4. QED
      BY <1>2, <1>3

RowsKept == \A c \in Cycles : periodPlan[c] # NoPlan => periodPlan'[c] # NoPlan

LEMMA Earlier == \A k \in Cycles \ {1} : k - 1 \in Cycles
BY UsageAssumption DEF Cycles

\* A step that is not a renewal and drops no row leaves the closed cycles their rows.
LEMMA ClosedKept ==
    ASSUME TypeOK, TypeOK', ClosedHasRow, RowsKept, stripe'.start = stripe.start,
           invoices' \subseteq invoices,
           stripe'.status = "active" /\ invoices' = {} =>
               (stripe.status = "active" /\ invoices = {}) \/ periodPlan'[stripe.start] # NoPlan,
           \A h \in Handlers : hpc'[h] = "invoice" =>
               (hpc[h] = "invoice" /\ hinv'[h] = hinv[h]) \/ hinv'[h] \in invoices
    PROVE  ClosedHasRow'
<1>1. stripe.start \in Cycles /\ invoices \subseteq Cycles \ {1}
      BY DEF TypeOK
<1>2. \A h \in Handlers : hpc[h] = "invoice" => hinv[h] \in Cycles \ {1}
      BY DEF TypeOK
<1>3. \A k \in invoices' : HasRow(k - 1)'
      BY <1>1, Earlier DEF ClosedHasRow, HasRow, RowsKept
<1>4. \A h \in Handlers : hpc'[h] = "invoice" => HasRow(hinv[h] - 1)'
  <2>1. SUFFICES ASSUME NEW h \in Handlers, hpc'[h] = "invoice"
                 PROVE  periodPlan'[hinv'[h] - 1] # NoPlan
        BY DEF HasRow
  <2>2. CASE hpc[h] = "invoice" /\ hinv'[h] = hinv[h]
        BY <1>2, <2>2, Earlier DEF ClosedHasRow, HasRow, RowsKept
  <2>3. CASE hinv'[h] \in invoices
        BY <1>1, <2>3, Earlier DEF ClosedHasRow, HasRow, RowsKept
  <2>4. QED
        BY <2>1, <2>2, <2>3
<1>5. stripe'.start # 1 => HasRow(stripe.start - 1)'
      BY <1>1, Earlier DEF ClosedHasRow, HasRow, RowsKept
<1>6. stripe'.status = "active" /\ invoices' = {} => HasRow(stripe.start)'
      BY <1>1 DEF ClosedHasRow, HasRow, RowsKept
<1>7. QED
      BY <1>3, <1>4, <1>5, <1>6 DEF ClosedHasRow

\* Rows are never dropped, and Stripe renews a cycle only once its invoice was answered,
\* which made its row.
LEMMA PlansStep ==
    ASSUME CreditInv, CreditInv', PlansNamed, ClosedHasRow, NewestInvoice, [Next]_vars
    PROVE  PlansNamed' /\ ClosedHasRow' /\ PlansKept
<1>0. TypeOK /\ TypeOK'
      BY DEF CreditInv
<1>1. ASSUME NEW amount \in Amounts, RecordUsage(amount)
      PROVE  PlansNamed' /\ ClosedHasRow' /\ PlansKept
  <2>1. /\ periodPlan' = PeriodRow(sub.start, sub.plan)
        /\ UNCHANGED <<sub, named, stripe, invoices, hpc, hinv>>
        BY <1>1 DEF RecordUsage, stripeVars, handlerVars, historyVars
  <2>2. \A c \in Cycles : periodPlan'[c] = periodPlan[c] \/ (c = sub.start /\ periodPlan'[c] = sub.plan)
        BY <1>0, <2>1 DEF PeriodRow, TypeOK
  <2>3. RowsKept
        BY <1>0, <2>1 DEF PeriodRow, TypeOK, RowsKept
  <2>4. PlansNamed' /\ PlansKept
        BY <2>1, <2>2 DEF PlansNamed, PlansKept
  <2>5. ClosedHasRow'
        BY <1>0, <2>1, <2>3, ClosedKept
  <2>6. QED
        BY <2>4, <2>5
<1>2. ASSUME NEW plan \in Plans, StripeRenew(plan)
      PROVE  PlansNamed' /\ ClosedHasRow' /\ PlansKept
  <2>1. /\ UNCHANGED <<sub, named, periodPlan, hpc, hinv>>
        /\ stripe.status = "active" /\ invoices = {}
        BY <1>2 DEF StripeRenew, creditVars, handlerVars, historyVars
  <2>2. stripe.start \in Cycles /\ stripe.start + 1 - 1 = stripe.start
        BY <1>0 DEF TypeOK, Cycles
  <2>3. HasRow(stripe.start)
        BY <2>1 DEF ClosedHasRow
  <2>4. /\ stripe'.start = stripe.start + 1
        /\ invoices' = {stripe.start + 1} \/ (invoices' = {} /\ stripe'.status = "past_due")
    <3>1. CASE stripe' = [stripe EXCEPT !.start = @ + 1, !.plan = plan] /\ invoices' = {stripe'.start}
          BY <1>0, <3>1 DEF TypeOK
    <3>2. CASE /\ stripe' = [status |-> "past_due", plan |-> plan, start |-> stripe.start + 1]
               /\ invoices' = invoices
          BY <2>1, <3>2
    <3>3. QED
          BY <1>2, <3>1, <3>2 DEF StripeRenew
  <2>5. ClosedHasRow'
    <3>0. PICK n \in Int : n = stripe.start
          BY <2>2 DEF Cycles
    <3>5. periodPlan'[n] # NoPlan /\ n + 1 - 1 = n
          BY <2>1, <2>3, <3>0 DEF HasRow
    <3>6. /\ stripe'.start = n + 1
          /\ invoices' = {n + 1} \/ (invoices' = {} /\ stripe'.status = "past_due")
          BY <2>4, <3>0
    <3>1. \A k \in invoices' : periodPlan'[k - 1] # NoPlan
          BY <3>5, <3>6
    <3>2. periodPlan'[stripe'.start - 1] # NoPlan /\ ~(stripe'.status = "active" /\ invoices' = {})
          BY <3>5, <3>6
    <3>3. \A h \in Handlers : hpc'[h] = "invoice" => HasRow(hinv[h] - 1)'
          BY <2>1 DEF ClosedHasRow, HasRow
    <3>4. QED
          BY <3>1, <3>2, <3>3 DEF ClosedHasRow, HasRow
  <2>6. PlansNamed' /\ PlansKept
        BY <2>1 DEF PlansNamed, PlansKept
  <2>7. QED
        BY <2>5, <2>6
<1>3. CASE StripeCollect
  <2>1. /\ UNCHANGED <<sub, named, periodPlan, hpc, hinv>>
        /\ invoices' = {stripe.start} /\ unpaid
        BY <1>3 DEF StripeCollect, creditVars, handlerVars, historyVars
  <2>2. stripe'.start = stripe.start /\ stripe.start # 1
        BY <1>0, <1>3, <2>1 DEF StripeCollect, TypeOK, CreditInv, UnpaidRenewal
  <2>3. ClosedHasRow'
        BY <2>1, <2>2 DEF ClosedHasRow, HasRow
  <2>4. QED
        BY <2>1, <2>3 DEF PlansNamed, PlansKept
<1>4. ASSUME NEW plan \in Plans, StripeUpgrade(plan) \/ StripeCancel
      PROVE  PlansNamed' /\ ClosedHasRow' /\ PlansKept
  <2>1. UNCHANGED <<sub, named, periodPlan, hpc, hinv, invoices>>
        BY <1>4 DEF StripeUpgrade, StripeCancel, creditVars, handlerVars, historyVars
  <2>2. stripe'.start = stripe.start /\ (stripe'.status = "active" => stripe.status = "active")
        BY <1>0, <1>4 DEF StripeUpgrade, StripeCancel, TypeOK
  <2>3. ClosedHasRow'
        BY <2>1, <2>2 DEF ClosedHasRow, HasRow
  <2>4. QED
        BY <2>1, <2>3 DEF PlansNamed, PlansKept
<1>5. ASSUME NEW h \in Handlers, NEW k \in invoices, InvoiceLoad(h, k)
      PROVE  PlansNamed' /\ ClosedHasRow' /\ PlansKept
  <2>1. /\ UNCHANGED <<sub, named, periodPlan, stripe, invoices>>
        /\ hinv' = [hinv EXCEPT ![h] = k] /\ hpc' = [hpc EXCEPT ![h] = "invoice"]
        BY <1>5 DEF InvoiceLoad, creditVars, stripeVars, historyVars
  <2>2. \A g \in Handlers : hpc'[g] = "invoice" =>
            (hpc[g] = "invoice" /\ hinv'[g] = hinv[g]) \/ hinv'[g] \in invoices
        BY <1>0, <2>1 DEF TypeOK
  <2>3. RowsKept
        BY <2>1 DEF RowsKept
  <2>4. ClosedHasRow'
        BY <1>0, <2>1, <2>2, <2>3, ClosedKept
  <2>5. QED
        BY <2>1, <2>4 DEF PlansNamed, PlansKept
<1>6. ASSUME NEW h \in Handlers, InvoiceCommit(h)
      PROVE  PlansNamed' /\ ClosedHasRow' /\ PlansKept
  <2>1. PICK k \in Cycles \ {1} : k = hinv[h]
        BY <1>0, <1>6 DEF InvoiceCommit, TypeOK
  <2>2. /\ periodPlan' = PeriodRow(k, hsub[h].plan) /\ NamePlans /\ Done(h)
        /\ invoices' \in {invoices, invoices \ {k}} /\ stripe' = stripe
        BY <1>6, <2>1 DEF InvoiceCommit
  <2>3. hsub[h].plan # NoPlan
        BY <1>0, UsageAssumption DEF TypeOK
  <2>4. RowsKept /\ periodPlan'[k] # NoPlan
        BY <1>0, <2>1, <2>2, <2>3 DEF PeriodRow, TypeOK, RowsKept
  <2>5. invoices' = {} => invoices = {} \/ k = stripe.start
        BY <2>2 DEF NewestInvoice
  <2>6. \A g \in Handlers : hpc'[g] = "invoice" => hpc[g] = "invoice" /\ hinv'[g] = hinv[g]
        BY <1>0, <2>2 DEF Done, TypeOK
  <2>7. ClosedHasRow'
        BY <1>0, <2>2, <2>4, <2>5, <2>6, ClosedKept
  <2>8. PlansNamed' /\ PlansKept
        BY <1>0, <2>2, NamesNow DEF PlansKept
  <2>9. QED
        BY <2>7, <2>8
<1>7. ASSUME NEW h \in Handlers, Apply(h)
      PROVE  PlansNamed' /\ ClosedHasRow' /\ PlansKept
  <2>1. /\ NamePlans /\ Done(h) /\ UNCHANGED <<stripe, invoices>>
        /\ periodPlan' = IF "plan" \in hwrite[h] /\ periodPlan[hstripe[h].start] # NoPlan
                         THEN [periodPlan EXCEPT ![hstripe[h].start] = hstripe[h].plan] ELSE periodPlan
        BY <1>7 DEF Apply, stripeVars
  <2>2. hstripe[h].start \in Cycles /\ hstripe[h].plan # NoPlan
        BY <1>0, UsageAssumption DEF TypeOK
  <2>3. RowsKept
        BY <1>0, <2>1, <2>2 DEF RowsKept, TypeOK
  <2>4. \A g \in Handlers : hpc'[g] = "invoice" => hpc[g] = "invoice" /\ hinv'[g] = hinv[g]
        BY <1>0, <2>1 DEF Done, TypeOK
  <2>5. ClosedHasRow'
        BY <1>0, <2>1, <2>3, <2>4, ClosedKept
  <2>6. PlansNamed' /\ PlansKept
        BY <1>0, <2>1, NamesNow DEF PlansKept
  <2>7. QED
        BY <2>5, <2>6
<1>8. ASSUME NEW h \in Handlers, UpdateLoad(h) \/ UpdateFetch(h) \/ SyncFetch(h) \/ SyncLoad(h)
      PROVE  PlansNamed' /\ ClosedHasRow' /\ PlansKept
  <2>1. UNCHANGED <<sub, named, periodPlan, stripe, invoices, hinv>>
        BY <1>8 DEF UpdateLoad, UpdateFetch, SyncFetch, SyncLoad, creditVars, stripeVars, historyVars
  <2>2. \A g \in Handlers : hpc'[g] = "invoice" => hpc[g] = "invoice"
        BY <1>0, <1>8 DEF UpdateLoad, UpdateFetch, SyncFetch, SyncLoad, TypeOK
  <2>3. RowsKept
        BY <2>1 DEF RowsKept
  <2>4. ClosedHasRow'
        BY <1>0, <2>1, <2>2, <2>3, ClosedKept
  <2>5. QED
        BY <2>1, <2>4 DEF PlansNamed, PlansKept
<1>9. CASE SubscriptionDeleted \/ InvoiceFailed \/ UNCHANGED vars
  <2>1. /\ UNCHANGED <<named, periodPlan, stripe, invoices, hpc, hinv>>
        /\ sub'.start = sub.start /\ sub'.plan = sub.plan
        BY <1>0, <1>9 DEF SubscriptionDeleted, InvoiceFailed, vars, stripeVars, creditVars,
               handlerVars, historyVars, TypeOK
  <2>2. ClosedHasRow'
        BY <2>1 DEF ClosedHasRow, HasRow
  <2>3. QED
        BY <2>1, <2>2 DEF PlansNamed, PlansKept
<1>10. QED
       BY <1>1, <1>2, <1>3, <1>4, <1>5, <1>6, <1>7, <1>8, <1>9, UsageAssumption
       DEF Next, StripeStep, HandlerStep
-----------------------------------------------------------------------------
\* The buckets, and what each handler of an invoice has loaded of them, stay in order
\* under the charges of record_usage, the webhooks and the sync (usage.py, billing.py).
THEOREM CreditInvariant == Spec => []CreditInv
<1>1. CreditInv /\ [Next]_vars => CreditInv'
      BY ChargeStep, StripeKeeps, InvoiceLoadStep, InvoiceCommitStep, MirrorSteps,
         ApplyStep, StatusSteps, UsageStutter DEF Next, HandlerStep
<1>2. QED
      BY UsageInit, <1>1, PTL DEF Spec

LEMMA GrantStep ==
    ASSUME CreditInv, CreditInv', PlansNamed, ClosedHasRow, GrantInv, [Next]_vars
    PROVE  GrantInv'
<1>0. PlansKept
      BY PlansStep DEF GrantInv
<1>1. ASSUME NEW amount \in Amounts, RecordUsage(amount)  PROVE GrantInv'
      BY <1>1, GrantsChargeStep
<1>2. CASE StripeStep
      BY <1>2, GrantsStripeStep
<1>3. ASSUME NEW h \in Handlers, NEW k \in invoices, InvoiceLoad(h, k)  PROVE GrantInv'
      BY <1>3, GrantsLoadStep
<1>4. ASSUME NEW h \in Handlers, InvoiceCommit(h)  PROVE GrantInv'
      BY <1>0, <1>4, GrantsCommitStep
<1>5. ASSUME NEW h \in Handlers, ~InvoiceCommit(h), UpdateLoad(h) \/ SyncFetch(h) \/ HandlerStep(h)
      PROVE  GrantInv'
      BY <1>0, <1>5, GrantsMirrorStep DEF HandlerStep
<1>6. CASE SubscriptionDeleted \/ InvoiceFailed \/ UNCHANGED vars
      BY <1>6, GrantsStatusSteps
<1>7. QED
      BY <1>1, <1>2, <1>3, <1>4, <1>5, <1>6 DEF Next, HandlerStep

\* The inductive invariant holds in every reachable state: whatever the webhooks, the
\* sync passes and the charges of record_usage do to one subscription row at once,
\* grants are made in the order of their invoices and only for cycles closed to charges.
THEOREM UsageInvariant == Spec => []UsageInv
<1>1. Init => PlansNamed /\ ClosedHasRow /\ GrantInv
      BY PlansInit, GrantsInit
<1>2. CreditInv /\ CreditInv' /\ (PlansNamed /\ ClosedHasRow /\ GrantInv) /\ [Next]_vars
      => (PlansNamed /\ ClosedHasRow /\ GrantInv)'
  <2> SUFFICES ASSUME CreditInv, CreditInv', PlansNamed, ClosedHasRow, GrantInv, [Next]_vars
                 PROVE  (PlansNamed /\ ClosedHasRow /\ GrantInv)'
        OBVIOUS
  <2>2. PlansNamed' /\ ClosedHasRow'
        BY PlansStep DEF GrantInv
  <2>3. GrantInv'
        BY GrantStep
  <2>4. QED
        BY <2>2, <2>3
<1>3. QED
      BY CreditInvariant, <1>1, <1>2, PTL DEF Spec, UsageInv

\* Every unit that _consume_from_tiers charged came out of one bucket and stays gone,
\* for any charges, plans and number of handlers, unless _handle_invoice_paid wrote a
\* rollover computed from a row that had changed since.
THEOREM ChargesAreAccounted == Spec => []ChargesAccountedUnlessOvertaken
<1>1. UsageInv => ChargesAccountedUnlessOvertaken
      BY DEF UsageInv, GrantInv
<1>2. QED
      BY <1>1, UsageInvariant, PTL

\* A cycle's allowance is not both used and carried over by _calculate_rollover, however
\* often and late Stripe delivers the invoice, unless a stale row was written: together
\* they are within the limit of one plan that the subscription's row or the period's
\* own row named for that cycle.
THEOREM AllowanceIsSpentOnce == Spec => []AllowanceSpentOnce
<1>1. UsageInv => AllowanceSpentOnce
      BY DEF UsageInv, GrantInv
<1>2. QED
      BY <1>1, UsageInvariant, PTL

\* The rollover never exceeds MAX_ROLLOVER_TOKENS or MAX_ROLLOVER_VOICE_CHARS, although
\* _handle_invoice_paid computes it from a row read without a lock.
THEOREM RolloverIsCapped == Spec => []RolloverCapped
<1>1. CreditInv => RolloverCapped
      BY DEF CreditInv
<1>2. QED
      BY <1>1, CreditInvariant, PTL

\* A user with purchased credit left is never in debt: the order of the buckets in
\* _consume_from_tiers survives every interleaving with the webhooks.
THEOREM DebtIsLast == Spec => []DebtLast
<1>1. CreditInv => DebtLast
      BY DEF CreditInv
<1>2. QED
      BY <1>1, CreditInvariant, PTL
=============================================================================
