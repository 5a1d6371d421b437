---------------------------- MODULE Subscription ----------------------------
(***************************************************************************)
(* The life of one user's subscription: the checkout sessions the gateway  *)
(* opens, the Stripe subscriptions they become, the webhooks Stripe sends  *)
(* at least once and in any order (yapit/gateway/api/v1/billing.py), the   *)
(* hourly reconciliation (yapit/gateway/billing_sync.py) and the deletion  *)
(* of the account (yapit/gateway/api/v1/users.py).                         *)
(*                                                                         *)
(* What a subscription grants and how it is charged is UsageTiers; this    *)
(* module is about which subscription the row names and what it says of    *)
(* it.  Each database or Stripe call of a handler is a step.  A handler    *)
(* that loads a row, which takes no lock, later writes the attributes it   *)
(* changed, as SQLAlchemy does, whatever the row holds by then.            *)
(***************************************************************************)
EXTENDS Integers, FiniteSets

CONSTANTS
    NumSubs,      \* bound on checkouts; a checkout and its subscription share a number
    NumPlans,     \* plans, by tier_rank
    Offered,      \* the active ones, which a checkout may ask for
    Hooks,        \* webhook deliveries that may be handled at once
    MaxChanges,   \* bound on what happens at Stripe after a checkout
    MaxLost,      \* bound on repeated deliveries and dying handlers
    MaxBusy,      \* bound on tasks that overlap
    MaxPending    \* bound on webhooks that wait when another is sent

Subs  == 1 .. NumSubs
Plans == 1 .. NumPlans
Keys  == {"user", "gone"}          \* the user_id, and the one it is anonymized to
Tasks == Hooks \cup {"sync", "request"}

ASSUME SubscriptionAssumption ==
    /\ NumSubs \in Nat \ {0} /\ NumPlans \in Nat \ {0} /\ Offered \subseteq Plans
    /\ MaxChanges \in Nat /\ MaxLost \in Nat /\ MaxBusy \in Nat \ {0} /\ MaxPending \in Nat
    /\ Hooks \cap {"sync", "request"} = {}

VARIABLES
    stripe,     \* [Subs -> what Stripe holds]
    events,     \* webhooks that will be delivered
    rows,       \* [Keys -> the subscription row, or NoRow]
    account,    \* "live" or "deleted" (from Stack Auth)
    task,       \* [Tasks -> what it does and what it has read]
    changes, lost,
    \* history, read by the properties only
    crossed,    \* keys of the rows on which a handler wrote what it had read of
                \* another subscription, and which were not reconciled since
    unheard,    \* completed checkouts whose webhooks have not been handled yet
    ousted,     \* paid subscriptions whose row another one's webhook took over
    inFlight    \* the subscriptions the deletion of the account could not know of

subVars == <<stripe, events, rows, account, task, changes, lost, crossed, unheard, ousted, inFlight>>

Live == {"trialing", "active", "past_due"}
Statuses == Live \cup {"canceled"}
Ended == {"canceled", "gone"}      \* "gone": Stripe does not know it any more
NoRow == [sub |-> 0]
NoSub == [status |-> "none", plan |-> 1, first |-> 1]
Idle  == [kind |-> "none", pc |-> "idle", sub |-> 0, key |-> "user", held |-> NoRow,
          loaded |-> NoRow, snap |-> NoSub, want |-> 1, todo |-> {}]

SubInit ==
    /\ stripe = [s \in Subs |-> NoSub]
    /\ events = {}
    /\ rows = [k \in Keys |-> NoRow]
    /\ account = "live"
    /\ task = [t \in Tasks |-> Idle]
    /\ changes = 0 /\ lost = 0
    /\ crossed = {} /\ unheard = {} /\ ousted = {} /\ inFlight = {}

Event(type, s) == [type |-> type, sub |-> s]

\* Any of the webhooks may be missed.
Send(new) ==
    \E sent \in SUBSET new :
        events' = events \cup sent /\ Cardinality(events \cup sent) <= MaxPending

\* A task may start: there is room for one more
MayStart(t) ==
    task[t] = Idle /\ Cardinality({u \in Tasks : task[u] # Idle}) < MaxBusy

-----------------------------------------------------------------------------
(***************************************************************************)
(* Stripe.  A subscription keeps the plan of its checkout as metadata      *)
(* ("first"); one that ended stays so.                                     *)
(***************************************************************************)

\* The user completes an open checkout; a trial comes with an invoice of 0.
Complete(s) ==
    /\ stripe[s].status \in {"open", "open_trial"}
    /\ stripe' = [stripe EXCEPT ![s].status = IF @ = "open" THEN "active" ELSE "trialing"]
    /\ Send({Event(type, s) : type \in {"checkout", "updated", "paid"}})
    /\ unheard' = unheard \cup {s}
    /\ UNCHANGED <<rows, account, task, changes, lost, crossed, ousted, inFlight>>

Change(s, status, plan, types) ==
    /\ stripe[s].status \in Statuses
    /\ changes < MaxChanges
    /\ changes' = changes + 1
    /\ stripe' = [stripe EXCEPT ![s].status = status, ![s].plan = plan]
    /\ Send({Event(type, s) : type \in types})
    /\ UNCHANGED <<rows, account, task, lost, crossed, unheard, ousted, inFlight>>

StripeChanges(s) ==
    \/ /\ stripe[s].status \in Live
       /\ \/ stripe[s].status = "active" /\ Change(s, "past_due", stripe[s].plan, {"updated", "failed"})
          \/ stripe[s].status # "active" /\ Change(s, "active", stripe[s].plan, {"updated", "paid"})
          \/ \E p \in Plans \ {stripe[s].plan} : Change(s, stripe[s].status, p, {"updated"})
          \/ Change(s, "canceled", stripe[s].plan, {"deleted"})
    \/ Change(s, "gone", stripe[s].plan, {})

-----------------------------------------------------------------------------
(***************************************************************************)
(* What the handlers share.                                                *)
(***************************************************************************)

Become(t, new) == task' = [task EXCEPT ![t] = new]
Quiet == UNCHANGED <<changes, crossed, unheard, ousted, inFlight>>

\* Answered with 2xx
Answer(t) == Become(t, Idle) /\ UNCHANGED <<events, lost>>

\* Answered with 500: the event comes again.
Redelivered(t) == IF t \in Hooks THEN {Event(task[t].kind, task[t].sub)} ELSE {}
AnswerError(t) ==
    /\ Become(t, Idle) /\ events' = events \cup Redelivered(t)
    /\ UNCHANGED <<rows, lost, crossed, unheard, ousted>>

\* A handler dies, or Stripe is out of reach.
Die(t) ==
    /\ task[t].pc # "idle" /\ lost < MaxLost
    /\ lost' = lost + 1
    /\ Become(t, Idle) /\ events' = events \cup Redelivered(t)
    /\ UNCHANGED <<stripe, rows, account>> /\ Quiet

\* stripe_subscription_id is indexed; none when no row has it
KeyOf(s) == {k \in Keys : rows[k].sub = s}

\* _find_subscription: the user's row, whatever it names, else by subscription
FindSubscription(s) == IF rows["user"] # NoRow THEN {"user"} ELSE KeyOf(s)

\* apply_plan_change keeps the highest tier; the two are written together.
WithPlan(row, plan) ==
    IF plan = row.plan THEN row
    ELSE [row EXCEPT !.plan = plan, !.highest = IF plan > @ THEN plan ELSE @]

\* The UPDATE of a loaded row that was changed to new.
Flushed(row, loaded, new) ==
    [f \in DOMAIN row |-> IF new[f] # loaded[f] THEN new[f] ELSE row[f]]

\* reconciles: the new row says all that Stripe holds of its subscription.
WriteRow(k, loaded, new, reconciles) ==
    /\ rows' = [rows EXCEPT ![k] = Flushed(@, loaded, new)]
    /\ crossed' = IF rows[k].sub # loaded.sub THEN crossed \cup {k}
                  ELSE IF reconciles /\ rows[k] = loaded THEN crossed \ {k} ELSE crossed
    /\ UNCHANGED <<unheard, ousted>>

\* INSERT .. ON CONFLICT (user_id) DO UPDATE, without highest_tier_subscribed
\* and ever_paid
Upserted(s, status, plan, paid) ==
    IF rows["user"] = NoRow
    THEN [sub |-> s, status |-> status, plan |-> plan, highest |-> plan, paid |-> paid]
    ELSE [rows["user"] EXCEPT !.sub = s, !.status = status, !.plan = plan]

\* The subscription's number is unique: the upsert fails while the anonymized
\* row has it.
Upsert(t, s, status, plan, paid) ==
    \/ rows["gone"].sub = s /\ AnswerError(t)
    \/ /\ rows["gone"].sub # s
       /\ rows' = [rows EXCEPT !["user"] = Upserted(s, status, plan, paid)]
       /\ crossed' = crossed \ {"user"} /\ unheard' = unheard \ {s}
       /\ ousted' = (ousted \ {s}) \cup {o \in Subs \ {s} : /\ rows["user"].sub = o
                                                         /\ stripe[o].status \in Live}
       /\ Answer(t)

-----------------------------------------------------------------------------
(***************************************************************************)
(* Webhooks.  Their first step reads a row, or for checkout.session.       *)
(* completed the subscription at Stripe; that fails, each time it is tried,*)
(* when Stripe does not know the subscription any more.                    *)
(***************************************************************************)

\* Mutant of Stale: a deletion is applied to the row whatever it names
StaleUnlessDeleted(type, row, s) == type # "deleted" /\ row.sub # s

\* "Guard: skip events for stale/replaced subscriptions"
Stale(type, row, s) == row.sub # s

\* customer.subscription.deleted, invoice.payment_succeeded and .payment_failed:
\* the event says what to write.
Marked(type, row) ==
    CASE type = "deleted" -> [row EXCEPT !.status = "canceled"]
      [] type = "failed"  -> [row EXCEPT !.status = "past_due"]
      [] type = "paid"    -> [row EXCEPT !.paid = TRUE]

\* The row a webhook is about; .deleted looks for it as .updated does.
RowsOf(e) == IF e.type \in {"updated", "deleted"} THEN FindSubscription(e.sub) ELSE KeyOf(e.sub)

\* Nothing is left to write when the row is read: there is none, it names another
\* subscription, or it was paid for before.
Ignores(e, k) ==
    \/ Stale(e.type, rows[k], e.sub)
    \/ e.type = "paid" /\ rows[k].paid

\* Any free one will do.
Slot == CHOOSE t \in Hooks : task[t] = Idle

\* The event is delivered, and again when the answer is lost or comes too late.
Delivered(e) ==
    \/ events' = events \ {e} /\ UNCHANGED lost
    \/ lost < MaxLost /\ lost' = lost + 1 /\ UNCHANGED events

\* The first step of a handler
Receive(e) ==
    LET new(k) == [Idle EXCEPT !.kind = e.type, !.sub = e.sub, !.key = k]
        load(k, pc) == Become(Slot, [new(k) EXCEPT !.loaded = rows[k], !.pc = pc])
    IN  /\ \E t \in Hooks : MayStart(t)
        /\ Delivered(e)
        /\ \/ /\ e.type = "checkout" /\ stripe[e.sub].status # "gone"
              /\ Become(Slot, [new("user") EXCEPT !.snap = stripe[e.sub], !.pc = "upsert"])
           \/ e.type = "updated" /\ RowsOf(e) = {} /\ Become(Slot, [new("user") EXCEPT !.pc = "fetch"])
           \/ e.type = "updated" /\ \E k \in RowsOf(e) : load(k, "fetch")
           \/ /\ e.type \in {"deleted", "paid", "failed"}
              /\ \E k \in RowsOf(e) : ~ Ignores(e, k) /\ load(k, "mark")
           \/ /\ e.type \in {"deleted", "paid", "failed"}
              /\ \A k \in RowsOf(e) : Ignores(e, k)
              /\ UNCHANGED task
        /\ UNCHANGED <<stripe, rows, account>> /\ Quiet

\* The row is gone when it was anonymized in between.
MarkCommit(t) ==
    LET k == task[t].key
    IN  /\ task[t].pc = "mark"
        /\ \/ rows[k] = NoRow /\ AnswerError(t)
           \/ /\ rows[k] # NoRow
              /\ WriteRow(k, task[t].loaded, Marked(task[t].kind, task[t].loaded), FALSE)
              /\ Answer(t)
        /\ UNCHANGED <<stripe, account, changes, inFlight>>

\* The plan is that of the checkout's metadata, not of the price.
CheckoutUpsert(t) ==
    LET snap == task[t].snap
    IN  /\ task[t].pc = "upsert" /\ task[t].kind = "checkout"
        /\ Upsert(t, task[t].sub, snap.status, snap.first, snap.status = "active")
        /\ UNCHANGED <<stripe, account, changes, inFlight>>

\* customer.subscription.created and .updated: the current state is fetched.
UpdateFetch(t) ==
    /\ task[t].pc = "fetch" /\ task[t].kind = "updated"
    /\ LET row == task[t].loaded
           read(pc) == Become(t, [task[t] EXCEPT !.snap = stripe[task[t].sub], !.pc = pc])
           known == stripe[task[t].sub].status # "gone"
           stale == row # NoRow /\ Stale("updated", row, task[t].sub)
       IN  \/ ~ known /\ AnswerError(t)
           \/ known /\ stale /\ Answer(t) /\ UNCHANGED <<rows, crossed, unheard, ousted>>
           \/ known /\ ~ stale /\ read(IF row = NoRow THEN "upsert" ELSE "apply")
              /\ UNCHANGED <<events, rows, lost, crossed, unheard, ousted>>
    /\ UNCHANGED <<stripe, account, changes, inFlight>>

UpdateUpsert(t) ==
    LET snap == task[t].snap
    IN  /\ task[t].pc = "upsert" /\ task[t].kind = "updated"
        /\ Upsert(t, task[t].sub, snap.status, snap.plan, FALSE)
        /\ UNCHANGED <<stripe, account, changes, inFlight>>

UpdateApply(t) ==
    LET k == task[t].key
        new == WithPlan([task[t].loaded EXCEPT !.status = task[t].snap.status], task[t].snap.plan)
    IN  /\ task[t].pc = "apply" /\ task[t].kind = "updated"
        /\ \/ rows[k] = NoRow /\ AnswerError(t)
           \/ rows[k] # NoRow /\ WriteRow(k, task[t].loaded, new, TRUE) /\ Answer(t)
        /\ UNCHANGED <<stripe, account, changes, inFlight>>

-----------------------------------------------------------------------------
(***************************************************************************)
(* sync_subscription, for every row in turn (the loop) or for the row of a *)
(* user who subscribes.                                                    *)
(***************************************************************************)

\* The references are read at once, then visited one by one.
StartSync ==
    /\ MayStart("sync")
    /\ \E k \in Keys : rows[k] # NoRow
    /\ Become("sync", [Idle EXCEPT !.kind = "sync", !.pc = "next",
                         !.todo = {<<k, rows[k].sub>> : k \in {j \in Keys : rows[j] # NoRow}}])
    /\ UNCHANGED <<stripe, events, rows, account, lost>> /\ Quiet

SyncNext(t) ==
    /\ task[t].pc = "next"
    /\ \E ref \in task[t].todo :
          Become(t, [task[t] EXCEPT !.key = ref[1], !.sub = ref[2], !.todo = @ \ {ref},
                                    !.snap = stripe[ref[2]], !.pc = "sync"])
    /\ UNCHANGED <<stripe, events, rows, account, lost>> /\ Quiet

\* Mutant of Synced: the plan is left to the webhooks
SyncedStatus(row, snap) ==
    IF snap.status = "gone" THEN [row EXCEPT !.status = "canceled"]
    ELSE [row EXCEPT !.status = snap.status, !.paid = @ \/ snap.status = "active"]

\* "No such subscription" marks the row canceled, and that is all.
Synced(row, snap) ==
    IF snap.status = "gone" THEN [row EXCEPT !.status = "canceled"]
    ELSE WithPlan([row EXCEPT !.status = snap.status, !.paid = @ \/ snap.status = "active"], snap.plan)

\* On to the next row of the pass, or to the decision of the request
SyncDone(t) ==
    Become(t, IF t = "sync" /\ task[t].todo = {} THEN Idle
              ELSE [task[t] EXCEPT !.pc = IF t = "sync" THEN "next" ELSE "decide",
                                   !.sub = 0, !.key = "user", !.snap = NoSub, !.loaded = NoRow])

\* The row is read by both of its keys.
SyncRead(t) ==
    LET k == task[t].key
        found == rows[k].sub = task[t].sub
        agrees == found /\ Synced(rows[k], task[t].snap) = rows[k]
    IN  /\ task[t].pc = "sync"
        /\ \/ found /\ ~ agrees /\ UNCHANGED crossed
              /\ Become(t, [task[t] EXCEPT !.pc = "overwrite", !.loaded = rows[k]])
           \/ agrees /\ crossed' = crossed \ {k} /\ SyncDone(t)
           \/ ~ found /\ UNCHANGED crossed /\ SyncDone(t)
        /\ UNCHANGED <<stripe, events, rows, account, changes, lost, unheard, ousted, inFlight>>

\* A row that was anonymized in between fails the loop's turn or the request.
SyncWrite(t) ==
    LET k == task[t].key
    IN  /\ task[t].pc = "overwrite"
        /\ \/ /\ rows[k] = NoRow /\ UNCHANGED <<rows, crossed, unheard, ousted>>
              /\ IF t = "sync" THEN SyncDone(t) ELSE Become(t, Idle)
           \/ /\ rows[k] # NoRow
              /\ WriteRow(k, task[t].loaded, Synced(task[t].loaded, task[t].snap), TRUE)
              /\ SyncDone(t)
        /\ UNCHANGED <<stripe, events, account, changes, lost, inFlight>>

-----------------------------------------------------------------------------
(***************************************************************************)
(* The user's own requests, one at a time.                                 *)
(***************************************************************************)

\* create_subscription_checkout: the row is read, and if it names a subscription
\* that one is reconciled first.
Subscribe(plan) ==
    /\ plan \in Offered
    /\ MayStart("request") /\ account = "live"
    /\ \E s \in Subs : stripe[s] = NoSub
    /\ LET row == rows["user"]
           new == [Idle EXCEPT !.kind = "subscribe", !.want = plan, !.held = row]
       IN  Become("request",
                  IF row = NoRow THEN [new EXCEPT !.pc = "decide"]
                  ELSE [new EXCEPT !.pc = "next", !.todo = {<<"user", row.sub>>}])
    /\ UNCHANGED <<stripe, events, rows, account, lost>> /\ Quiet

Refused == task["request"].held # NoRow /\ task["request"].held.status # "canceled"

\* The number of the next session
Fresh(s) == stripe[s] = NoSub /\ \A n \in Subs : n < s => stripe[n] # NoSub

\* A checkout session that Stripe has opened, with a trial or without
CheckoutOf(plan, trial) == [status |-> IF trial THEN "open_trial" ELSE "open",
                            plan |-> plan, first |-> plan]

\* The row is selected again in the same session, which answers with the object
\* it has already loaded: the decision is taken on what was read first.
SubscribeDecide ==
    LET held == task["request"].held
        plan == task["request"].want
        trial == held = NoRow \/ held.highest < plan
    IN  /\ task["request"].pc = "decide"
        /\ \/ Refused /\ UNCHANGED stripe
           \/ \E s \in Subs :
                 /\ ~ Refused /\ Fresh(s)
                 /\ stripe' = [stripe EXCEPT ![s] = CheckoutOf(plan, trial)]
        /\ Become("request", Idle)
        /\ UNCHANGED <<events, rows, account, lost>> /\ Quiet

\* delete_account: the row is read, and its subscription canceled if the row
\* says it lives.
DeleteAccount ==
    /\ MayStart("request") /\ account = "live"
    /\ Become("request", [Idle EXCEPT !.kind = "delete", !.pc = "cancel", !.loaded = rows["user"]])
    /\ inFlight' = {s \in Subs : \/ stripe[s].status \in {"open", "open_trial"}
                                 \/ s \in unheard \cup ousted
                                 \/ "user" \in crossed /\ rows["user"].sub = s}
    /\ UNCHANGED <<stripe, events, rows, account, changes, lost, crossed, unheard, ousted>>

Cancels(row) == row # NoRow /\ row.status \in Live

\* Stripe refuses to cancel twice; that is logged.
DeleteCancel ==
    LET row == task["request"].loaded
    IN  /\ task["request"].pc = "cancel"
        /\ \/ /\ Cancels(row) /\ stripe[row.sub].status \in Live
              /\ stripe' = [stripe EXCEPT ![row.sub].status = "canceled"]
              /\ events' = events \cup {Event("deleted", row.sub)}
           \/ /\ ~ (Cancels(row) /\ stripe[row.sub].status \in Live)
              /\ UNCHANGED <<stripe, events>>
        /\ Become("request", [task["request"] EXCEPT !.pc = "anonymize"])
        /\ UNCHANGED <<rows, account, lost>> /\ Quiet

\* One transaction; then the user is deleted from Stack Auth.
DeleteAnonymize ==
    /\ task["request"].pc = "anonymize"
    /\ rows' = IF rows["user"] = NoRow THEN rows
               ELSE [k \in Keys |-> IF k = "gone" THEN rows["user"] ELSE NoRow]
    /\ crossed' = IF "user" \in crossed THEN {"gone"} ELSE crossed
    /\ account' = "deleted"
    /\ Become("request", Idle)
    /\ UNCHANGED <<stripe, events, changes, lost, unheard, ousted, inFlight>>

-----------------------------------------------------------------------------
HookStep(t) ==
    \/ CheckoutUpsert(t) \/ MarkCommit(t)
    \/ UpdateFetch(t) \/ UpdateUpsert(t) \/ UpdateApply(t)
SyncStep == SyncNext("sync") \/ SyncRead("sync") \/ SyncWrite("sync")
RequestStep ==
    \/ SyncNext("request") \/ SyncRead("request") \/ SyncWrite("request") \/ SubscribeDecide
    \/ DeleteCancel \/ DeleteAnonymize

SubNext ==
    \/ \E s \in Subs : Complete(s) \/ StripeChanges(s)
    \/ \E e \in events : Receive(e)
    \/ \E t \in Hooks : HookStep(t)
    \/ StartSync \/ SyncStep
    \/ \E p \in Plans : Subscribe(p)
    \/ DeleteAccount \/ RequestStep
    \/ \E t \in Tasks : Die(t)

SubSpec == SubInit /\ [][SubNext]_subVars

\* The handlers that run go on, and the loop comes round: what keeps it from
\* starting, the bound on tasks, is not the code's.  Nothing is assumed of the
\* webhooks: they may all be missed.
SubFairSpec ==
    /\ SubSpec
    /\ WF_subVars(\E t \in Hooks : HookStep(t))
    /\ SF_subVars(StartSync) /\ WF_subVars(SyncStep) /\ WF_subVars(RequestStep)
-----------------------------------------------------------------------------
Rows == {NoRow} \cup [sub : Subs, status : Statuses, plan : Plans, highest : Plans, paid : BOOLEAN]

\* The values of every variable: in particular a row never takes the status of
\* a checkout that is not completed.
SubTypeOK ==
    /\ stripe \in [Subs -> [status : Statuses \cup {"none", "open", "open_trial", "gone"},
                            plan : Plans, first : Plans]]
    /\ events \subseteq [type : {"checkout", "updated", "deleted", "paid", "failed"}, sub : Subs]
    /\ rows \in [Keys -> Rows]
    /\ account \in {"live", "deleted"}
    /\ \A t \in Tasks : /\ task[t].held \in Rows /\ task[t].loaded \in Rows
                        /\ task[t].sub \in Subs \cup {0} /\ task[t].key \in Keys
                        /\ task[t].todo \subseteq Keys \X Subs
    /\ crossed \subseteq Keys /\ unheard \subseteq Subs /\ ousted \subseteq Subs /\ inFlight \subseteq Subs

\* Nobody is cut off while paying: however webhooks are reordered, repeated and
\* mixed with passes of the sync, a row says canceled only of a subscription that
\* ended at Stripe.  The one exception is a handler that loaded the row before a
\* new checkout took it over and wrote afterwards; it lasts until the row is next
\* reconciled.
CutOffRightly ==
    \A k \in Keys : rows[k] # NoRow /\ rows[k].status = "canceled" =>
        stripe[rows[k].sub].status \in Ended \/ k \in crossed

\* The row names what the user pays for, from the first delivery of its checkout
\* on, through renewals, failures, repeated and late webhooks.  The exception is
\* what _handle_checkout_completed does not guard against: the webhook of another
\* subscription handled after it, be that one paid for as well or ended.
ServedWhilePaying ==
    account = "live" =>
        \A s \in Subs : stripe[s].status \in Live =>
            rows["user"].sub = s \/ s \in unheard \cup ousted

\* delete_account: once the account is gone, no subscription is billed but those
\* it could not know of when it read the row: a checkout that was open or not
\* delivered, one whose row was taken over, and one of which the row wrongly says
\* canceled.
DeletionStopsBilling ==
    account = "deleted" =>
        \A s \in Subs : stripe[s].status \in Live => s \in inFlight

\* ever_paid (it decides the storage limit) survives a new checkout, whichever of
\* its two webhooks comes first and whatever handlers overlap.
PaidNeverForgotten ==
    [][\A k \in Keys : rows[k] # NoRow /\ rows'[k] # NoRow /\ rows[k].paid => rows'[k].paid]_subVars

\* billing_sync is the safety net for missed webhooks: when nothing more happens
\* at Stripe, each row in the end has the status and the plan of the subscription
\* it names, and remembers that it was paid.
RowAgrees(k) ==
    rows[k] # NoRow =>
        LET s == stripe[rows[k].sub]
        IN  IF s.status = "gone" THEN rows[k].status = "canceled"
            ELSE /\ rows[k].status = s.status /\ rows[k].plan = s.plan
                 /\ s.status = "active" => rows[k].paid
SyncHeals == <>[](\A k \in Keys : RowAgrees(k))

\* A subscription is used while it is paid for, and paid for while it can be used.
BilledRightly == SubTypeOK /\ CutOffRightly /\ ServedWhilePaying /\ DeletionStopsBilling

\* The row comes to say what Stripe says, and never forgets a payment on the way.
RowConverges == PaidNeverForgotten /\ SyncHeals

-----------------------------------------------------------------------------
\* create_subscription_checkout: "Reconcile with Stripe before gating -- local
\* state may be stale in either direction".  A user whose subscription was seen
\* canceled at Stripe is not refused a new one.
GateSeesStripe ==
    [][task["request"].pc = "decide" /\ task'["request"].pc = "idle" /\ lost' = lost /\ Refused
         => rows["user"] = NoRow \/ rows["user"].status # "canceled"]_subVars
=============================================================================
