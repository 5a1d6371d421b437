---------------------------- MODULE BillingProofs ----------------------------
(* The two halves of billing, for any users and failures: what is charged for *)
(* use (BillingConsumer, which implements BillingLedger), and what is billed  *)
(* for a subscription (Subscription).                                         *)
EXTENDS BillingConsumer, Subscription, TLAPS

(***************************************************************************)
(* BillingConsumer: any events, batch size and number of gateways.         *)
(***************************************************************************)

LEMMA BillingInit == Init => BillingInv
<1> SUFFICES ASSUME Init  PROVE BillingInv
    OBVIOUS
<1>1. recovered \in [Consumers -> BOOLEAN] /\ group \in BOOLEAN /\ fails \in BOOLEAN
      BY Zenon DEF Init
<1>2. TypeOK
      BY <1>1, BillingAssumption DEF Init, TypeOK, Entries
<1>3. LogMatchesCharges /\ AckingSettled /\ DeletedOnlySettled /\ UnbilledStaysPending
      BY DEF Init, LogMatchesCharges, AckingSettled, DeletedOnlySettled, UnbilledStaysPending
<1>4. QED
      BY <1>2, <1>3 DEF BillingInv

LEMMA BillingStepType ==
    ASSUME TypeOK, [Next]_vars
    PROVE  TypeOK'
<1> USE BillingAssumption
    DEF TypeOK, Entries
<1>1. CASE UNCHANGED vars
      BY <1>1 DEF vars
<1>2. CASE AddEvent
      BY <1>2 DEF AddEvent, postgresVars, faultVars
<1>3. ASSUME NEW c \in Consumers, EnsureGroup(c)  PROVE TypeOK'
      BY <1>3 DEF EnsureGroup, Goto, postgresVars, faultVars
<1>4. ASSUME NEW c \in Consumers, ReadPending(c)  PROVE TypeOK'
  <2>1. UNCHANGED <<redisVars, postgresVars, faultVars, acking, overlooked>> /\ bpc[c] = "recover"
        BY <1>4 DEF ReadPending
  <2>2. CASE recovered' = [recovered EXCEPT ![c] = TRUE] /\ Goto(c, "collect")
                /\ UNCHANGED <<batch, blank>>
    <3>1. recovered' \in [Consumers -> BOOLEAN]
          BY <2>2
    <3>2. QED
          BY <2>1, <2>2, <3>1 DEF Goto, redisVars, postgresVars, faultVars
  <2>3. ASSUME NEW page \in SUBSET pel, batch' = [batch EXCEPT ![c] = page],
               blank' = [blank EXCEPT ![c] = page \ stream],
               Goto(c, "parse"), UNCHANGED recovered
        PROVE  TypeOK'
    <3>1. page \in SUBSET (1 .. added) /\ acking[c] = {}
          BY <2>1
    <3>2. QED
          BY <2>1, <2>3, <3>1 DEF Goto, redisVars, postgresVars, faultVars
  <2>4. QED
        BY <1>4, <2>2, <2>3 DEF ReadPending
<1>5. ASSUME NEW c \in Consumers, ReadPendingNoGroup(c)  PROVE TypeOK'
      BY <1>5 DEF ReadPendingNoGroup, Goto, redisVars, postgresVars, faultVars
<1>6. ASSUME NEW c \in Consumers, ReadNew(c)  PROVE TypeOK'
  <2>1. PICK page \in SUBSET (stream \ delivered) :
          /\ delivered' = delivered \cup {e \in 1 .. added : \E x \in page : e <= x}
          /\ pel' = pel \cup page
          /\ batch' = [batch EXCEPT ![c] = page]
        BY <1>6 DEF ReadNew
  <2>2. /\ group /\ acking[c] = {}
        /\ bpc' = [bpc EXCEPT ![c] = "parse"]
        /\ UNCHANGED <<added, stream, group, usageLog, charged, fails, faults,
                       recovered, blank, acking, overlooked>>
        BY <1>6 DEF ReadNew, Goto, postgresVars, faultVars
  <2>3. page \in SUBSET (1 .. added) /\ page \subseteq delivered'
        BY <2>1
  <2>4. delivered' \subseteq 1 .. added /\ pel' \subseteq delivered'
        BY <2>1, <2>3
  <2>5. QED
        BY <2>1, <2>2, <2>3, <2>4
<1>7. ASSUME NEW c \in Consumers, NEW e \in Entries, FindPoison(c, e)  PROVE TypeOK'
      BY <1>7 DEF FindPoison, Unusable, Goto, redisVars, postgresVars, faultVars
<1>8. ASSUME NEW c \in Consumers, ParseDone(c)  PROVE TypeOK'
      BY <1>8 DEF ParseDone, Unusable, Goto, redisVars, postgresVars, faultVars
<1>9. ASSUME NEW c \in Consumers, NEW u \in Users, BillUser(c, u)  PROVE TypeOK'
  <2> DEFINE mine == {e \in batch[c] : UserOf[EventOf[e]] = u}
             new  == {EventOf[e] : e \in mine} \ usageLog
  <2>1. /\ usageLog' = usageLog \cup new
        /\ charged' = [ev \in Events |-> IF ev \in new THEN charged[ev] + 1 ELSE charged[ev]]
        /\ acking' = [acking EXCEPT ![c] = mine]
        /\ bpc[c] = "bill"
        /\ bpc' = [bpc EXCEPT ![c] = "ack"]
        BY <1>9 DEF BillUser, Goto
  <2>2. UNCHANGED <<added, stream, group, delivered, pel, fails, faults, recovered, batch, blank,
                       overlooked>>
        BY <1>9 DEF BillUser, redisVars, faultVars
  <2>3. mine \subseteq batch[c] /\ mine \subseteq Entries
        OBVIOUS
  <2>4. new \subseteq Events
        BY <2>3
  <2> HIDE DEF mine, new
  <2>5. usageLog' \subseteq Events /\ charged' \in [Events -> Nat]
        BY <2>1, <2>4
  <2>6. acking' \in [Consumers -> SUBSET Entries] /\ \A d \in Consumers : acking'[d] \subseteq batch'[d]
        BY <2>1, <2>2, <2>3
  <2>7. QED
        BY <2>1, <2>2, <2>5, <2>6
<1>10. ASSUME NEW c \in Consumers, Ack(c)  PROVE TypeOK'
      BY <1>10 DEF Ack, Goto, postgresVars, faultVars
<1>11. ASSUME NEW c \in Consumers, Delete(c)  PROVE TypeOK'
      BY <1>11 DEF Delete, Goto, postgresVars, faultVars
<1>12. ASSUME NEW c \in Consumers, Fail(c)  PROVE TypeOK'
      BY <1>12 DEF Fail, Fault, Drop, Goto, redisVars, postgresVars
<1>13. ASSUME NEW c \in Consumers, Crash(c)  PROVE TypeOK'
      BY <1>13 DEF Crash, Fault, Drop, Goto, redisVars, postgresVars
<1>14. CASE ResetRedis
  <2>1. stream' \subseteq 1 .. added
        BY <1>14 DEF ResetRedis
  <2>2. faults' \in 0 .. MaxFaults
        BY <1>14 DEF ResetRedis, Fault
  <2>3. /\ group' = FALSE /\ delivered' = {} /\ pel' = {}
        /\ UNCHANGED <<added, usageLog, charged, fails, bpc, recovered, batch, blank, acking,
                       overlooked>>
        BY <1>14 DEF ResetRedis, postgresVars
  <2>4. QED
        BY <2>1, <2>2, <2>3
<1> QED
      BY <1>1, <1>2, <1>3, <1>4, <1>5, <1>6, <1>7, <1>8, <1>9,
         <1>10, <1>11, <1>12, <1>13, <1>14
      DEF Next, ConsumerStep

(* The log row and the charge go together, and acks come after both.         *)

LEMMA BillingStepLog ==
    ASSUME TypeOK, LogMatchesCharges, AckingSettled, DeletedOnlySettled, [Next]_vars
    PROVE  (LogMatchesCharges /\ AckingSettled)'
<1> USE BillingAssumption
    DEF TypeOK, LogMatchesCharges, AckingSettled, Settled, Entries
<1>1. CASE UNCHANGED vars
      BY <1>1 DEF vars
<1>2. CASE AddEvent
      BY <1>2 DEF AddEvent, postgresVars, faultVars
<1>3. ASSUME NEW c \in Consumers, EnsureGroup(c)  PROVE (LogMatchesCharges /\ AckingSettled)'
      BY <1>3 DEF EnsureGroup, Goto, postgresVars, faultVars
<1>4. ASSUME NEW c \in Consumers, ReadPending(c)  PROVE (LogMatchesCharges /\ AckingSettled)'
      BY <1>4 DEF ReadPending, DeletedOnlySettled, Goto, redisVars, postgresVars, faultVars
<1>5. ASSUME NEW c \in Consumers, ReadPendingNoGroup(c)  PROVE (LogMatchesCharges /\ AckingSettled)'
      BY <1>5 DEF ReadPendingNoGroup, Goto, redisVars, postgresVars, faultVars
<1>6. ASSUME NEW c \in Consumers, ReadNew(c)  PROVE (LogMatchesCharges /\ AckingSettled)'
      BY <1>6 DEF ReadNew, Page, Goto, postgresVars, faultVars
<1>7. ASSUME NEW c \in Consumers, NEW e \in Entries, FindPoison(c, e)  PROVE (LogMatchesCharges /\ AckingSettled)'
      BY <1>7 DEF FindPoison, Unusable, Goto, redisVars, postgresVars, faultVars
<1>8. ASSUME NEW c \in Consumers, ParseDone(c)  PROVE (LogMatchesCharges /\ AckingSettled)'
      BY <1>8 DEF ParseDone, Unusable, Goto, redisVars, postgresVars, faultVars
<1>9. ASSUME NEW c \in Consumers, NEW u \in Users, BillUser(c, u)  PROVE (LogMatchesCharges /\ AckingSettled)'
      BY <1>9 DEF BillUser, Goto, redisVars, faultVars
<1>10. ASSUME NEW c \in Consumers, Ack(c)  PROVE (LogMatchesCharges /\ AckingSettled)'
      BY <1>10 DEF Ack, Goto, postgresVars, faultVars
<1>11. ASSUME NEW c \in Consumers, Delete(c)  PROVE (LogMatchesCharges /\ AckingSettled)'
      BY <1>11 DEF Delete, Goto, postgresVars, faultVars
<1>12. ASSUME NEW c \in Consumers, Fail(c)  PROVE (LogMatchesCharges /\ AckingSettled)'
      BY <1>12 DEF Fail, Fault, Drop, Goto, redisVars, postgresVars
<1>13. ASSUME NEW c \in Consumers, Crash(c)  PROVE (LogMatchesCharges /\ AckingSettled)'
      BY <1>13 DEF Crash, Fault, Drop, Goto, redisVars, postgresVars
<1>14. CASE ResetRedis
      BY <1>14 DEF ResetRedis, postgresVars
<1> QED
      BY <1>1, <1>2, <1>3, <1>4, <1>5, <1>6, <1>7, <1>8, <1>9,
         <1>10, <1>11, <1>12, <1>13, <1>14
      DEF Next, ConsumerStep

(* So nothing unbilled leaves the stream or the pending entries list.        *)

LEMMA BillingStepStream ==
    ASSUME TypeOK, AckingSettled, DeletedOnlySettled, UnbilledStaysPending, [Next]_vars
    PROVE  (DeletedOnlySettled /\ UnbilledStaysPending)'
<1> USE BillingAssumption
    DEF TypeOK, AckingSettled, Settled, DeletedOnlySettled, UnbilledStaysPending, Entries
<1>1. CASE UNCHANGED vars
      BY <1>1 DEF vars
<1>2. CASE AddEvent
      BY <1>2 DEF AddEvent, postgresVars, faultVars
<1>3. ASSUME NEW c \in Consumers, EnsureGroup(c)  PROVE (DeletedOnlySettled /\ UnbilledStaysPending)'
      BY <1>3 DEF EnsureGroup, Goto, postgresVars, faultVars
<1>4. ASSUME NEW c \in Consumers, ReadPending(c)  PROVE (DeletedOnlySettled /\ UnbilledStaysPending)'
      BY <1>4 DEF ReadPending, Goto, redisVars, postgresVars, faultVars
<1>5. ASSUME NEW c \in Consumers, ReadPendingNoGroup(c)  PROVE (DeletedOnlySettled /\ UnbilledStaysPending)'
      BY <1>5 DEF ReadPendingNoGroup, Goto, redisVars, postgresVars, faultVars
<1>6. ASSUME NEW c \in Consumers, ReadNew(c)  PROVE (DeletedOnlySettled /\ UnbilledStaysPending)'
      BY <1>6 DEF ReadNew, Page, Goto, postgresVars, faultVars
<1>7. ASSUME NEW c \in Consumers, NEW e \in Entries, FindPoison(c, e)  PROVE (DeletedOnlySettled /\ UnbilledStaysPending)'
      BY <1>7 DEF FindPoison, Unusable, Goto, redisVars, postgresVars, faultVars
<1>8. ASSUME NEW c \in Consumers, ParseDone(c)  PROVE (DeletedOnlySettled /\ UnbilledStaysPending)'
      BY <1>8 DEF ParseDone, Unusable, Goto, redisVars, postgresVars, faultVars
<1>9. ASSUME NEW c \in Consumers, NEW u \in Users, BillUser(c, u)  PROVE (DeletedOnlySettled /\ UnbilledStaysPending)'
      BY <1>9 DEF BillUser, Goto, redisVars, faultVars
<1>10. ASSUME NEW c \in Consumers, Ack(c)  PROVE (DeletedOnlySettled /\ UnbilledStaysPending)'
      BY <1>10 DEF Ack, Goto, postgresVars, faultVars
<1>11. ASSUME NEW c \in Consumers, Delete(c)  PROVE (DeletedOnlySettled /\ UnbilledStaysPending)'
      BY <1>11 DEF Delete, Goto, postgresVars, faultVars
<1>12. ASSUME NEW c \in Consumers, Fail(c)  PROVE (DeletedOnlySettled /\ UnbilledStaysPending)'
      BY <1>12 DEF Fail, Fault, Drop, Goto, redisVars, postgresVars
<1>13. ASSUME NEW c \in Consumers, Crash(c)  PROVE (DeletedOnlySettled /\ UnbilledStaysPending)'
      BY <1>13 DEF Crash, Fault, Drop, Goto, redisVars, postgresVars
<1>14. CASE ResetRedis
      BY <1>14 DEF ResetRedis, postgresVars
<1> QED
      BY <1>1, <1>2, <1>3, <1>4, <1>5, <1>6, <1>7, <1>8, <1>9,
         <1>10, <1>11, <1>12, <1>13, <1>14
      DEF Next, ConsumerStep

LEMMA BillingStep == BillingInv /\ [Next]_vars => BillingInv'
BY BillingStepType, BillingStepLog, BillingStepStream DEF BillingInv

\* The inductive invariant of the billing consumer holds in every reachable state.
THEOREM BillingInvariant == Spec => []BillingInv
BY BillingInit, BillingStep, PTL DEF Spec

\* However gateways overlap, crash and re-read the stream, and whatever Redis
\* forgets, an event is charged at most once.
THEOREM EventsAreChargedOnce == Spec => []ChargedOnce
<1>1. BillingInv => ChargedOnce
      BY DEF BillingInv, LogMatchesCharges, ChargedOnce
<1>2. QED
      BY <1>1, BillingInvariant, PTL

\* An event that is gone from the stream was charged, and one that was delivered
\* and not charged is still pending.
THEOREM NoEventIsDropped == Spec => [](DeletedOnlySettled /\ UnbilledStaysPending)
<1>1. BillingInv => DeletedOnlySettled /\ UnbilledStaysPending
      BY DEF BillingInv
<1>2. QED
      BY <1>1, BillingInvariant, PTL

-----------------------------------------------------------------------------
(* Refinement: only a user's transaction moves the ledger.                   *)

LEMMA LedgerStep ==
    ASSUME BillingInv, [Next]_vars
    PROVE  [Ledger!Next]_charged
<1>1. ASSUME NEW c \in Consumers, NEW u \in Users, BillUser(c, u)
      PROVE  [Ledger!Next]_charged
  <2> DEFINE mine == {e \in batch[c] : UserOf[EventOf[e]] = u}
             new  == {EventOf[e] : e \in mine} \ usageLog
  <2>1. charged' = [ev \in Events |-> IF ev \in new THEN charged[ev] + 1 ELSE charged[ev]]
        BY <1>1 DEF BillUser
  <2>2. new \in SUBSET Events
        BY BillingAssumption DEF BillingInv, TypeOK, Entries
  <2>3. \A ev \in new : charged[ev] = 0
        BY <2>2 DEF BillingInv, LogMatchesCharges
  <2>4. charged' = [ev \in Events |-> IF ev \in new THEN 1 ELSE charged[ev]]
        BY <2>1, <2>3
  <2>5. CASE new = {}
        BY <2>1, <2>5 DEF BillingInv, TypeOK
  <2>6. CASE new # {}
        BY <2>2, <2>3, <2>4, <2>6 DEF Ledger!Next, Ledger!Charge
  <2>7. QED
        BY <2>5, <2>6
<1>2. CASE UNCHANGED charged
      BY <1>2
<1>3. (\E c \in Consumers, u \in Users : BillUser(c, u)) \/ UNCHANGED charged
      BY DEF Next, ConsumerStep, vars, AddEvent, EnsureGroup, ReadPending, ReadPendingNoGroup,
             ReadNew, FindPoison, ParseDone, Ack, Delete, Fail, Crash, ResetRedis, postgresVars
<1>4. QED
      BY <1>1, <1>2, <1>3

\* Every behaviour of the consumer is a behaviour of the ledger: its transactions
\* charge events that were never charged, and nothing else moves a charge.
THEOREM ConsumerImplementsLedger == Spec => ImplementsLedger
<1>1. Init => Ledger!Init
      BY DEF Init, Ledger!Init
<1>2. BillingInv /\ [Next]_vars => [Ledger!Next]_charged
      BY LedgerStep
<1>3. QED
      BY <1>1, <1>2, BillingInvariant, PTL DEF Spec, ImplementsLedger, Ledger!Spec

-----------------------------------------------------------------------------
(***************************************************************************)
(* Subscription: any checkouts, plans, deliveries and lost replies. The    *)
(* inductive invariant says what an old read is still worth: a completed   *)
(* checkout stays completed, and a subscription that ended has ended.      *)
(***************************************************************************)

\* What Stripe holds of a checkout, and what a task carries
StripeRec == [status : Statuses \cup {"none", "open", "open_trial", "gone"}, plan : Plans, first : Plans]
EventTypes == {"checkout", "updated", "deleted", "paid", "failed"}
TaskRec ==
    [kind : EventTypes \cup {"none", "sync", "subscribe", "delete"},
     pc : {"idle", "upsert", "fetch", "apply", "mark", "next", "sync", "overwrite", "decide",
           "cancel", "anonymize"},
     sub : Subs \cup {0}, key : Keys, held : Rows, loaded : Rows, snap : StripeRec,
     want : Plans, todo : SUBSET (Keys \X Subs)]

\* A checkout that was completed stays so, and so does a subscription that ended:
\* that is what makes old reads of Stripe worth anything.
Completed(s) == s \in Subs /\ stripe[s].status \in Statuses \cup Ended
Over(s)      == s \in Subs /\ stripe[s].status \in Ended
Billable(s)  == stripe[s].status \in Live \cup {"open", "open_trial"}

\* A webhook is about a completed checkout, and a deletion about one that ended
EventTrue(type, s) == Completed(s) /\ (type = "deleted" => Over(s))
EventsTrue == \A e \in events : EventTrue(e.type, e.sub)

RowTrue(row) ==
    row # NoRow => Completed(row.sub)
RowsTrue == \A k \in Keys : RowTrue(rows[k])

\* What a task has read of Stripe was so, and what ended then has ended now.  A
\* handler's event is true, and it writes with a loaded row of its own subscription.
ReadTrue(x) ==
    /\ x.pc \in {"upsert", "fetch", "apply", "mark", "sync", "overwrite"} => Completed(x.sub)
    /\ x.pc \in {"upsert", "apply", "sync", "overwrite"} =>
         /\ x.snap.status \in Statuses \cup Ended
         /\ x.snap.status \in Ended => Over(x.sub)
    /\ x.pc \in {"upsert", "apply"} => x.snap.status # "gone"
    /\ x.pc \in {"apply", "mark", "overwrite"} => x.loaded # NoRow /\ x.loaded.sub = x.sub
    /\ x.pc = "mark" => x.kind \in {"deleted", "paid", "failed"}
    /\ \A ref \in x.todo : Completed(ref[2])
HookTrue(x) == x = Idle \/ (x.kind \in EventTypes /\ EventTrue(x.kind, x.sub))
ReadsTrue == (\A t \in Tasks : ReadTrue(task[t])) /\ (\A t \in Hooks : HookTrue(task[t]))

\* The deletion: what may still be billed is the loaded row's subscription, which
\* is about to be canceled, or the deletion could not know of it.
Request == task["request"]
OnlyInFlight == \A s \in Subs : Billable(s) => s \in inFlight
DeletionTrue ==
    /\ Request.pc = "cancel" =>
         /\ account = "live"
         /\ \A s \in Subs : Billable(s) => s \in inFlight \/ (Cancels(Request.loaded) /\ s = Request.loaded.sub)
         /\ Request.loaded # NoRow => Completed(Request.loaded.sub)
    /\ Request.pc = "anonymize" => account = "live" /\ OnlyInFlight
    /\ account = "deleted" => Request.pc = "idle" /\ OnlyInFlight
    /\ account = "live" => rows["gone"] = NoRow

TasksTyped == stripe \in [Subs -> StripeRec] /\ task \in [Tasks -> TaskRec]

SubInv ==
    /\ SubTypeOK /\ TasksTyped
    /\ EventsTrue /\ RowsTrue /\ ReadsTrue
    /\ CutOffRightly /\ ServedWhilePaying /\ DeletionTrue

LEMMA IdleTyped == Idle \in TaskRec /\ NoSub \in StripeRec /\ NoRow \in Rows
<1>1. 1 \in Plans
      BY SubscriptionAssumption DEF Plans
<1>2. NoSub \in StripeRec
      BY <1>1 DEF NoSub, StripeRec
<1>3. NoRow \in Rows
      BY DEF Rows
<1>4. QED
      BY <1>1, <1>2, <1>3 DEF Idle, TaskRec, Keys

LEMMA IdleTrue == ReadTrue(Idle) /\ HookTrue(Idle)
BY DEF ReadTrue, HookTrue, Idle

LEMMA SubInitHolds == SubInit => SubInv
<1> SUFFICES ASSUME SubInit  PROVE SubInv
    OBVIOUS
<1>1. TasksTyped
      BY IdleTyped DEF SubInit, TasksTyped
<1>2. SubTypeOK
      BY <1>1, IdleTyped DEF SubInit, SubTypeOK, StripeRec, TaskRec, Idle, TasksTyped
<1>3. ReadsTrue
      BY IdleTrue DEF SubInit, ReadsTrue, Tasks
<1>4. EventsTrue /\ RowsTrue /\ CutOffRightly
      BY DEF SubInit, EventsTrue, RowsTrue, RowTrue, CutOffRightly
<1>5. DeletionTrue
      BY DEF SubInit, DeletionTrue, Request, Tasks, Idle, Keys
<1>6. ServedWhilePaying
      BY DEF SubInit, ServedWhilePaying, NoSub, Live
<1>7. QED
      BY <1>1, <1>2, <1>3, <1>4, <1>5, <1>6 DEF SubInv

-----------------------------------------------------------------------------
(* What a step does to Stripe, to the rows and to the tasks.                *)

\* Nothing is undone, only a decided request opens a checkout, and a checkout that
\* is completed has not been heard of
StripeGrows ==
    /\ stripe' \in [Subs -> StripeRec]
    /\ \A s \in Subs : (Completed(s) => Completed(s)') /\ (Over(s) => Over(s)')
    /\ \A s \in Subs : Billable(s)' => Billable(s) \/ Request.pc = "decide"
    /\ \A s \in Subs : stripe'[s].status \in Live => stripe[s].status \in Live \/ s \in unheard'

LEMMA StripeUnchanged == ASSUME SubInv, UNCHANGED stripe  PROVE StripeGrows
BY DEF StripeGrows, SubInv, TasksTyped, Completed, Over, Billable

LEMMA StripeStep ==
    ASSUME SubInv, SubNext
    PROVE  StripeGrows
<1>1. ASSUME NEW s \in Subs, NEW new \in StripeRec, stripe' = [stripe EXCEPT ![s] = new],
             Completed(s) => new.status \in Statuses \cup Ended,
             Over(s) => new.status \in Ended,
             new.status \in Live \cup {"open", "open_trial"} => Billable(s) \/ Request.pc = "decide",
             new.status \in Live => stripe[s].status \in Live \/ s \in unheard'
      PROVE  StripeGrows
  <2>1. stripe \in [Subs -> StripeRec]
        BY DEF SubInv, TasksTyped
  <2>2. stripe' \in [Subs -> StripeRec] /\ stripe'[s] = new
        BY <1>1, <2>1
  <2>3. \A o \in Subs : o # s => stripe'[o] = stripe[o]
        BY <1>1, <2>1
  <2>4. /\ Completed(s) => Completed(s)'
        /\ Over(s) => Over(s)'
        /\ Billable(s)' => Billable(s) \/ Request.pc = "decide"
        BY <1>1, <2>2 DEF Completed, Over, Billable
  <2>5. \A o \in Subs : o # s => /\ Completed(o) => Completed(o)'
                                 /\ Over(o) => Over(o)'
                                 /\ Billable(o)' => Billable(o)
        BY <2>3 DEF Completed, Over, Billable
  <2>6. QED
        BY <1>1, <2>2, <2>3, <2>4, <2>5 DEF StripeGrows
<1>2. stripe \in [Subs -> StripeRec] /\ task \in [Tasks -> TaskRec] /\ "request" \in Tasks
      BY DEF SubInv, TasksTyped, Tasks
<1>3. ASSUME NEW s \in Subs, Complete(s)  PROVE StripeGrows
  <2>1. PICK status : /\ status \in Live
                      /\ stripe' = [stripe EXCEPT ![s].status = status]
        BY <1>3 DEF Complete, Live
  <2>2. PICK new : new = [stripe[s] EXCEPT !.status = status]
        OBVIOUS
  <2>3. new \in StripeRec /\ new.status = status
        BY <1>2, <2>1, <2>2 DEF StripeRec, Statuses
  <2>4. stripe' = [stripe EXCEPT ![s] = new]
        BY <2>1, <2>2
  <2>5. stripe[s].status \in {"open", "open_trial"} /\ s \in unheard'
        BY <1>3 DEF Complete
  <2>6. ~ Over(s)
        BY <2>5 DEF Over, Ended
  <2>7. QED
        BY <1>1, <2>1, <2>3, <2>4, <2>5, <2>6 DEF Billable, Statuses
<1>4. ASSUME NEW s \in Subs, NEW status \in Statuses \cup Ended, NEW plan \in Plans, NEW types,
             Change(s, status, plan, types), stripe[s].status \in Live \/ status = "gone"
      PROVE  StripeGrows
  <2>1. PICK new : new = [stripe[s] EXCEPT !.status = status, !.plan = plan]
        OBVIOUS
  <2>2. new \in StripeRec /\ new.status = status
        BY <1>2, <2>1 DEF StripeRec, Ended, Statuses
  <2>3. stripe' = [stripe EXCEPT ![s] = new]
        BY <1>4, <2>1 DEF Change
  <2>4. CASE stripe[s].status \in Live
    <3>1. ~ Over(s) /\ Billable(s)
          BY <2>4 DEF Over, Ended, Live, Billable
    <3>2. QED
          BY <1>1, <2>2, <2>3, <2>4, <3>1
  <2>5. CASE status = "gone"
        BY <1>1, <2>2, <2>3, <2>5 DEF Ended, Live
  <2>6. QED
        BY <1>4, <2>4, <2>5
<1>5. ASSUME NEW s \in Subs, StripeChanges(s)  PROVE StripeGrows
  <2>1. stripe[s].plan \in Plans /\ (stripe[s].status \in Live => stripe[s].status \in Statuses)
        BY <1>2 DEF StripeRec, Statuses
  <2>2. {"past_due", "active", "canceled", "gone"} \subseteq Statuses \cup Ended
        BY DEF Statuses, Live, Ended
  <2>3. CASE Change(s, "gone", stripe[s].plan, {})
        BY <1>4, <2>1, <2>2, <2>3
  <2>4. CASE stripe[s].status \in Live
        BY <1>4, <1>5, <2>1, <2>2, <2>4 DEF StripeChanges
  <2>5. QED
        BY <1>5, <2>3, <2>4 DEF StripeChanges
<1>6. CASE SubscribeDecide
  <2>1. CASE UNCHANGED stripe
        BY <2>1, StripeUnchanged
  <2>2. ASSUME NEW s \in Subs, Fresh(s), NEW trial \in BOOLEAN,
               stripe' = [stripe EXCEPT ![s] = CheckoutOf(task["request"].want, trial)]
        PROVE  StripeGrows
    <3>1. PICK new : new = CheckoutOf(task["request"].want, trial)
          OBVIOUS
    <3>2. task["request"].want \in Plans
          BY <1>2 DEF TaskRec
    <3>3. new \in StripeRec /\ new.status \in {"open", "open_trial"}
          BY <3>1, <3>2 DEF CheckoutOf, StripeRec
    <3>4. ~ Completed(s) /\ ~ Over(s)
          BY <2>2 DEF Fresh, NoSub, Completed, Over, Statuses, Live, Ended
    <3>5. Request.pc = "decide"
          BY <1>6 DEF SubscribeDecide, Request
    <3>6. QED
          BY <1>1, <2>2, <3>1, <3>3, <3>4, <3>5 DEF Live
  <2>3. QED
        BY <1>6, <2>1, <2>2, Zenon DEF SubscribeDecide
<1>7. CASE DeleteCancel
  <2>1. PICK row : row = task["request"].loaded
        OBVIOUS
  <2>2. CASE UNCHANGED stripe
        BY <2>2, StripeUnchanged
  <2>3. CASE /\ Cancels(row) /\ stripe[row.sub].status \in Live
             /\ stripe' = [stripe EXCEPT ![row.sub].status = "canceled"]
    <3>1. row \in Rows
          BY <1>2, <2>1 DEF TaskRec
    <3>2. row.sub \in Subs
          BY <2>3, <3>1 DEF Cancels, Rows
    <3>3. PICK new : new = [stripe[row.sub] EXCEPT !.status = "canceled"]
          OBVIOUS
    <3>4. new \in StripeRec /\ new.status = "canceled"
          BY <1>2, <3>2, <3>3 DEF StripeRec, Statuses
    <3>5. stripe' = [stripe EXCEPT ![row.sub] = new]
          BY <2>3, <3>3
    <3>6. QED
          BY <1>1, <2>3, <3>2, <3>4, <3>5 DEF Live, Ended
  <2>4. QED
        BY <1>7, <2>1, <2>2, <2>3 DEF DeleteCancel
<1>8. ASSUME NEW e \in events, Receive(e)  PROVE UNCHANGED stripe
      BY <1>8 DEF Receive
<1>9. ASSUME NEW t \in Hooks, HookStep(t)  PROVE UNCHANGED stripe
      BY <1>9 DEF HookStep, CheckoutUpsert, MarkCommit, UpdateFetch, UpdateUpsert, UpdateApply
<1>10. ASSUME NEW t, SyncNext(t) \/ SyncRead(t) \/ SyncWrite(t)  PROVE UNCHANGED stripe
       BY <1>10 DEF SyncNext, SyncRead, SyncWrite
<1>11. ASSUME NEW t, NEW p,
              StartSync \/ Subscribe(p) \/ DeleteAccount \/ DeleteAnonymize \/ Die(t)
       PROVE  UNCHANGED stripe
       BY <1>11 DEF StartSync, Subscribe, DeleteAccount, DeleteAnonymize, Die
<1>12. QED
       BY <1>3, <1>5, <1>6, <1>7, <1>8, <1>9, <1>10, <1>11, StripeUnchanged
       DEF SubNext, SyncStep, RequestStep

FullRows == [sub : Subs, status : Statuses, plan : Plans, highest : Plans, paid : BOOLEAN]

LEMMA RowIsFull ==
    /\ \A row \in Rows : row # NoRow <=> row \in FullRows
    /\ \A row \in FullRows : row \in Rows /\ row # NoRow /\ row.sub \in Subs /\ row.sub # 0
<1>1. \A row \in FullRows : row.sub \in Subs /\ row.sub # 0
      BY DEF FullRows, Subs
<1>2. NoRow.sub = 0
      BY DEF NoRow
<1>3. QED
      BY <1>1, <1>2 DEF Rows, FullRows

LEMMA WithPlanKeeps ==
    ASSUME NEW row \in FullRows, NEW plan \in Plans
    PROVE  /\ WithPlan(row, plan) \in FullRows
           /\ WithPlan(row, plan).sub = row.sub /\ WithPlan(row, plan).status = row.status
           /\ WithPlan(row, plan).paid = row.paid
BY DEF WithPlan, FullRows

\* An UPDATE writes what the handler changed, and leaves the rest
LEMMA FlushedKeeps ==
    ASSUME NEW row \in FullRows, NEW loaded \in FullRows, NEW new \in FullRows,
           new.sub = loaded.sub, loaded.paid => new.paid
    PROVE  /\ Flushed(row, loaded, new) \in FullRows
           /\ Flushed(row, loaded, new).sub = row.sub
           /\ row.paid => Flushed(row, loaded, new).paid
           /\ Flushed(row, loaded, new).status =
                 IF new.status # loaded.status THEN new.status ELSE row.status
           /\ row = loaded => Flushed(row, loaded, new).status = new.status
<1>1. DOMAIN row = {"sub", "status", "plan", "highest", "paid"}
      BY DEF FullRows
<1>2. PICK flushed : flushed = Flushed(row, loaded, new)
      OBVIOUS
<1>3. flushed = [f \in {"sub", "status", "plan", "highest", "paid"} |->
                    IF new[f] # loaded[f] THEN new[f] ELSE row[f]]
      BY <1>1, <1>2 DEF Flushed
<1>4. /\ flushed.sub = row.sub
      /\ flushed.paid = IF new.paid # loaded.paid THEN new.paid ELSE row.paid
      /\ flushed.status = IF new.status # loaded.status THEN new.status ELSE row.status
      /\ flushed.plan \in {row.plan, new.plan} /\ flushed.highest \in {row.highest, new.highest}
      BY <1>3
<1>5. /\ row.paid \in BOOLEAN /\ loaded.paid \in BOOLEAN /\ new.paid \in BOOLEAN
      /\ row.sub \in Subs /\ row.status \in Statuses /\ new.status \in Statuses
      /\ {row.plan, new.plan, row.highest, new.highest} \subseteq Plans
      BY DEF FullRows
<1>6. flushed.paid \in BOOLEAN /\ (row.paid => flushed.paid)
  <2>1. CASE loaded.paid
    <3>1. new.paid = TRUE /\ loaded.paid = TRUE
          BY <1>5, <2>1
    <3>2. QED
          BY <1>4, <1>5, <3>1
  <2>2. CASE ~ loaded.paid
    <3>1. loaded.paid = FALSE
          BY <1>5, <2>2
    <3>2. QED
          BY <1>4, <1>5, <3>1
  <2>3. QED
        BY <2>1, <2>2
<1>7. flushed.status \in Statuses /\ flushed.plan \in Plans /\ flushed.highest \in Plans
      BY <1>4, <1>5
<1>8. flushed \in FullRows
      BY <1>3, <1>4, <1>5, <1>6, <1>7 DEF FullRows
<1>9. QED
      BY <1>2, <1>4, <1>6, <1>8

\* What a step may make of a row: nothing, the anonymized copy, or a row that is
\* canceled rightly and has forgotten no payment
Follows(k, old, new) ==
    /\ new \in FullRows /\ Completed(new.sub)
    /\ new.status = "canceled" => Over(new.sub) \/ k \in crossed'
    /\ old # NoRow /\ old.paid => new.paid
    /\ old # NoRow \/ k = "user"
Stays(k) == rows'[k] = rows[k] /\ (k \in crossed => k \in crossed')
Moved == rows'["gone"] = rows["user"] /\ ("user" \in crossed => "gone" \in crossed')
RowMoves(k) ==
    \/ Stays(k) \/ rows'[k] = NoRow
    \/ k = "gone" /\ Moved /\ Request.pc = "anonymize" /\ account' = "deleted"
    \/ Follows(k, rows[k], rows'[k])

\* What a step may do to the subscription the user's row names: nothing, or it is
\* another one's webhook that takes the row over
Named ==
    \/ rows'["user"].sub = rows["user"].sub /\ unheard \subseteq unheard' /\ ousted \subseteq ousted'
    \/ account' = "deleted"
    \/ LET s == rows'["user"].sub
       IN  /\ unheard \ {s} \subseteq unheard' /\ ousted \ {s} \subseteq ousted'
           /\ \A o \in Subs \ {s} : rows["user"].sub = o /\ stripe[o].status \in Live => o \in ousted'
RowsMove ==
    /\ rows' \in [Keys -> Rows] /\ crossed' \subseteq Keys
    /\ unheard' \subseteq Subs /\ ousted' \subseteq Subs
    /\ \A k \in Keys : RowMoves(k)
    /\ Named

LEMMA RowsUnchanged ==
    ASSUME SubInv, UNCHANGED <<rows, crossed, ousted>>, unheard \subseteq unheard', unheard' \subseteq Subs
    PROVE  RowsMove
BY DEF RowsMove, RowMoves, Stays, Named, SubInv, SubTypeOK

\* One row is rewritten, for the subscription it names
LEMMA RowReplaced ==
    ASSUME SubInv, NEW k \in Keys, NEW new, rows' = [rows EXCEPT ![k] = new],
           Follows(k, rows[k], new), new.sub = rows[k].sub,
           crossed' \subseteq Keys, \A j \in Keys : j # k /\ j \in crossed => j \in crossed',
           UNCHANGED <<unheard, ousted>>
    PROVE  RowsMove
<1>1. rows \in [Keys -> Rows] /\ new \in Rows
      BY RowIsFull DEF SubInv, SubTypeOK, Follows
<1>2. rows'[k] = new /\ \A j \in Keys : j # k => rows'[j] = rows[j]
      BY <1>1
<1>3. rows' \in [Keys -> Rows]
      BY <1>1
<1>4. \A j \in Keys : RowMoves(j)
      BY <1>2 DEF RowMoves, Stays
<1>5. rows'["user"].sub = rows["user"].sub
      BY <1>2 DEF Keys
<1>6. QED
      BY <1>3, <1>4, <1>5 DEF RowsMove, Named, SubInv, SubTypeOK

LEMMA UpsertMoves ==
    ASSUME SubInv, NEW t, NEW s, NEW status \in Statuses, NEW plan \in Plans, NEW paid \in BOOLEAN,
           Completed(s), status = "canceled" => Over(s), Upsert(t, s, status, plan, paid)
    PROVE  RowsMove
<1>1. CASE AnswerError(t)
      BY <1>1, RowsUnchanged DEF AnswerError, SubInv, SubTypeOK
<1>2. CASE /\ rows' = [rows EXCEPT !["user"] = Upserted(s, status, plan, paid)]
           /\ crossed' = crossed \ {"user"} /\ unheard' = unheard \ {s}
           /\ ousted' = (ousted \ {s}) \cup {o \in Subs \ {s} : /\ rows["user"].sub = o
                                                             /\ stripe[o].status \in Live}
  <2>1. PICK new : new = Upserted(s, status, plan, paid)
        OBVIOUS
  <2>2. rows \in [Keys -> Rows] /\ rows["user"] \in Rows /\ s \in Subs /\ "user" \in Keys
        BY DEF SubInv, SubTypeOK, Keys, Completed
  <2>3. /\ new \in FullRows /\ new.sub = s /\ new.status = status
        /\ rows["user"] # NoRow => new.paid = rows["user"].paid
    <3>1. CASE rows["user"] = NoRow
      <4>1. new = [sub |-> s, status |-> status, plan |-> plan, highest |-> plan, paid |-> paid]
            BY <2>1, <3>1 DEF Upserted
      <4>2. QED
            BY <2>2, <3>1, <4>1 DEF FullRows
    <3>2. CASE rows["user"] # NoRow
      <4>1. rows["user"] \in FullRows
            BY <2>2, <3>2, RowIsFull
      <4>2. new = [rows["user"] EXCEPT !.sub = s, !.status = status, !.plan = plan]
            BY <2>1, <3>2 DEF Upserted
      <4>3. QED
            BY <2>2, <4>1, <4>2 DEF FullRows
    <3>3. QED
          BY <3>1, <3>2
  <2>4. rows' = [rows EXCEPT !["user"] = new]
        BY <1>2, <2>1
  <2>5. rows'["user"] = new /\ \A j \in Keys : j # "user" => rows'[j] = rows[j]
        BY <2>2, <2>4
  <2>6. rows' \in [Keys -> Rows]
        BY <2>2, <2>3, <2>4, RowIsFull
  <2>7. Follows("user", rows["user"], new)
        BY <2>3 DEF Follows
  <2>8. \A j \in Keys : RowMoves(j)
        BY <1>2, <2>5, <2>7 DEF RowMoves, Stays
  <2>9. Named
        BY <1>2, <2>3, <2>5 DEF Named
  <2>10. crossed' \subseteq Keys /\ unheard' \subseteq Subs /\ ousted' \subseteq Subs
        BY <1>2 DEF SubInv, SubTypeOK
  <2>11. QED
        BY <2>6, <2>8, <2>9, <2>10 DEF RowsMove
<1>3. QED
      BY <1>1, <1>2 DEF Upsert

\* A handler writes what it made of the row it loaded, whatever the row is by then
LEMMA WriteMoves ==
    ASSUME SubInv, NEW k \in Keys, rows[k] # NoRow, NEW loaded \in FullRows, NEW new \in FullRows,
           new.sub = loaded.sub, loaded.paid => new.paid, NEW reconciles \in BOOLEAN,
           new.status = "canceled" /\ (reconciles \/ new.status # loaded.status) => Over(loaded.sub),
           WriteRow(k, loaded, new, reconciles)
    PROVE  RowsMove
<1>1. PICK old, written : old = rows[k] /\ written = Flushed(old, loaded, new)
      OBVIOUS
<1>2. rows \in [Keys -> Rows] /\ old \in FullRows /\ crossed \subseteq Keys
      BY <1>1, RowIsFull DEF SubInv, SubTypeOK
<1>3. /\ rows' = [rows EXCEPT ![k] = written] /\ UNCHANGED <<unheard, ousted>>
      /\ crossed' = IF old.sub # loaded.sub THEN crossed \cup {k}
                    ELSE IF reconciles /\ old = loaded THEN crossed \ {k} ELSE crossed
  <2>1. rows' = [rows EXCEPT ![k] = Flushed(rows[k], loaded, new)]
        BY DEF WriteRow
  <2>2. QED
        BY <1>1, <2>1 DEF WriteRow
<1>4. /\ written \in FullRows /\ written.sub = old.sub /\ (old.paid => written.paid)
      /\ written.status = IF new.status # loaded.status THEN new.status ELSE old.status
      /\ old = loaded => written.status = new.status
      BY <1>1, <1>2, FlushedKeeps
<1>5. Completed(old.sub)
      BY <1>1 DEF SubInv, RowsTrue, RowTrue
<1>6. old.status = "canceled" => Over(old.sub) \/ k \in crossed
      BY <1>1, <1>5 DEF SubInv, CutOffRightly, Over, Completed
<1>7. written.status = "canceled" => Over(written.sub) \/ k \in crossed'
  <2>1. CASE old.sub # loaded.sub
        BY <1>3, <2>1
  <2>2. CASE old.sub = loaded.sub /\ ~ (reconciles /\ old = loaded)
        BY <1>3, <1>4, <1>6, <2>2
  <2>3. CASE reconciles /\ old = loaded
        BY <1>4, <2>3
  <2>4. QED
        BY <2>1, <2>2, <2>3
<1>8. Follows(k, old, written)
      BY <1>1, <1>4, <1>5, <1>7 DEF Follows
<1>9. crossed' \subseteq Keys /\ \A j \in Keys : j # k /\ j \in crossed => j \in crossed'
      BY <1>2, <1>3
<1>10. QED
       BY <1>1, <1>3, <1>4, <1>8, <1>9, RowReplaced

LEMMA TaskTyped ==
    ASSUME SubInv, NEW t \in Tasks
    PROVE  /\ task[t] \in TaskRec /\ ReadTrue(task[t]) /\ (t \in Hooks => HookTrue(task[t]))
           /\ task[t].pc \in {"upsert", "fetch", "apply", "mark", "sync", "overwrite"} =>
                 task[t].sub \in Subs
BY DEF SubInv, TasksTyped, ReadsTrue, ReadTrue, Completed

LEMMA MarkMoves == ASSUME SubInv, NEW t \in Hooks, MarkCommit(t)  PROVE RowsMove
<1>1. PICK mine, k : mine = task[t] /\ k = mine.key
      OBVIOUS
<1>2. /\ t \in Tasks /\ mine \in TaskRec /\ ReadTrue(mine) /\ mine.pc = "mark"
      /\ HookTrue(mine) /\ mine # Idle
      BY <1>1, TaskTyped DEF Tasks, MarkCommit, Idle
<1>3. /\ mine.kind \in {"deleted", "paid", "failed"} /\ mine.loaded # NoRow
      /\ mine.loaded.sub = mine.sub /\ (mine.kind = "deleted" => Over(mine.sub))
      BY <1>2 DEF ReadTrue, HookTrue, EventTrue
<1>4. mine.loaded \in FullRows /\ k \in Keys
      BY <1>1, <1>2, <1>3, RowIsFull DEF TaskRec
<1>5. PICK old, new : old = mine.loaded /\ new = Marked(mine.kind, old)
      OBVIOUS
<1>6. /\ new \in FullRows /\ new.sub = old.sub /\ (old.paid => new.paid)
      /\ new.status = "canceled" => old.status = "canceled" \/ mine.kind = "deleted"
  <2>1. CASE mine.kind = "deleted"
        BY <1>4, <1>5, <2>1 DEF Marked, FullRows, Statuses
  <2>2. CASE mine.kind = "failed"
    <3>1. new = [old EXCEPT !.status = "past_due"]
          BY <1>5, <2>2 DEF Marked
    <3>2. QED
          BY <1>4, <1>5, <3>1 DEF FullRows, Statuses, Live
  <2>3. CASE mine.kind = "paid"
    <3>1. new = [old EXCEPT !.paid = TRUE]
          BY <1>5, <2>3 DEF Marked
    <3>2. QED
          BY <1>4, <1>5, <3>1 DEF FullRows
  <2>4. QED
        BY <1>3, <2>1, <2>2, <2>3
<1>7. CASE AnswerError(t)
      BY <1>7, RowsUnchanged DEF AnswerError, SubInv, SubTypeOK
<1>8. CASE rows[k] # NoRow /\ WriteRow(k, old, new, FALSE)
      BY <1>3, <1>4, <1>5, <1>6, <1>8, WriteMoves
<1>9. QED
      BY <1>1, <1>5, <1>7, <1>8 DEF MarkCommit

LEMMA ApplyMoves ==
    ASSUME SubInv, NEW t \in Hooks, UpdateApply(t)
    PROVE  RowsMove
<1>1. t \in Tasks /\ task[t].pc = "apply"
      BY DEF Tasks, UpdateApply
<1>2. PICK mine : mine = task[t]
      OBVIOUS
<1>3. /\ mine \in TaskRec /\ mine.pc = "apply" /\ mine.loaded # NoRow /\ mine.loaded.sub = mine.sub
      /\ mine.snap.status \in Statuses
      /\ mine.snap.status = "canceled" => Over(mine.sub)
      BY <1>1, <1>2, TaskTyped DEF ReadTrue, Ended, Statuses
<1>4. mine.loaded \in FullRows /\ mine.snap.plan \in Plans /\ mine.key \in Keys
      BY <1>3, RowIsFull DEF TaskRec, StripeRec
<1>5. PICK new : new = WithPlan([mine.loaded EXCEPT !.status = mine.snap.status], mine.snap.plan)
      OBVIOUS
<1>6. /\ new \in FullRows /\ new.sub = mine.sub /\ new.status = mine.snap.status
      /\ new.paid = mine.loaded.paid
  <2>1. PICK row : row = [mine.loaded EXCEPT !.status = mine.snap.status]
        OBVIOUS
  <2>2. /\ row \in FullRows /\ row.sub = mine.sub /\ row.status = mine.snap.status
        /\ row.paid = mine.loaded.paid
        BY <1>3, <1>4, <2>1 DEF FullRows
  <2>3. QED
        BY <1>4, <1>5, <2>1, <2>2, WithPlanKeeps
<1>7. CASE AnswerError(t)
      BY <1>7, RowsUnchanged DEF AnswerError, SubInv, SubTypeOK
<1>8. CASE rows[mine.key] # NoRow /\ WriteRow(mine.key, mine.loaded, new, TRUE)
      BY <1>3, <1>4, <1>6, <1>8, WriteMoves
<1>9. QED
      BY <1>2, <1>5, <1>7, <1>8 DEF UpdateApply

LEMMA SyncedKeeps ==
    ASSUME SubInv, NEW row \in FullRows, NEW snap \in StripeRec, snap.status \in Statuses \cup Ended
    PROVE  /\ Synced(row, snap) \in FullRows /\ Synced(row, snap).sub = row.sub
           /\ row.paid => Synced(row, snap).paid
           /\ Synced(row, snap).status = "canceled" => snap.status \in Ended
<1>1. CASE snap.status = "gone"
      BY <1>1 DEF Synced, FullRows, Statuses, Ended
<1>2. CASE snap.status # "gone"
  <2>1. PICK new : new = [row EXCEPT !.status = snap.status,
                                     !.paid = row.paid \/ snap.status = "active"]
        OBVIOUS
  <2>2. new.sub = row.sub /\ new.status = snap.status /\ (row.paid => new.paid)
        BY <2>1 DEF FullRows
  <2>3. snap.status \in Statuses /\ snap.plan \in Plans
        BY <1>2 DEF Ended, Statuses, StripeRec
  <2>4. new \in FullRows
        BY <2>1, <2>3 DEF FullRows
  <2>5. Synced(row, snap) = WithPlan(new, snap.plan)
        BY <1>2, <2>1 DEF Synced
  <2>6. QED
        BY <2>2, <2>3, <2>4, <2>5, WithPlanKeeps DEF Ended
<1>3. QED
      BY <1>1, <1>2

LEMMA SyncReadMoves ==
    ASSUME SubInv, NEW t \in Tasks, SyncRead(t)
    PROVE  RowsMove
<1>1. PICK mine, k : mine = task[t] /\ k = mine.key
      OBVIOUS
<1>2. /\ mine \in TaskRec /\ mine.snap.status \in Statuses \cup Ended
      /\ Completed(mine.sub) /\ (mine.snap.status \in Ended => Over(mine.sub))
      BY <1>1, TaskTyped DEF ReadTrue, SyncRead
<1>3. mine.snap \in StripeRec /\ k \in Keys /\ mine.sub \in Subs
      BY <1>1, <1>2 DEF TaskRec, Completed
<1>4. UNCHANGED <<rows, unheard, ousted>>
      BY DEF SyncRead
<1>5. CASE UNCHANGED crossed
      BY <1>4, <1>5, RowsUnchanged DEF SubInv, SubTypeOK
<1>6. CASE rows[k].sub = mine.sub /\ Synced(rows[k], mine.snap) = rows[k] /\ crossed' = crossed \ {k}
  <2>1. PICK old : old = rows[k]
        OBVIOUS
  <2>2. rows \in [Keys -> Rows] /\ crossed \subseteq Keys
        BY DEF SubInv, SubTypeOK
  <2>3. old \in FullRows /\ old # NoRow
        BY <1>3, <1>6, <2>1, <2>2, RowIsFull DEF NoRow, Subs
  <2>4. old.status = "canceled" => Over(old.sub)
        BY <1>2, <1>3, <1>6, <2>1, <2>3, SyncedKeeps
  <2>5. Follows(k, old, old)
        BY <1>2, <1>6, <2>1, <2>3, <2>4 DEF Follows
  <2>6. rows' = [rows EXCEPT ![k] = old]
        BY <1>4, <2>1, <2>2
  <2>7. crossed' \subseteq Keys /\ \A j \in Keys : j # k /\ j \in crossed => j \in crossed'
        BY <1>6, <2>2
  <2>8. QED
        BY <1>3, <1>4, <2>1, <2>5, <2>6, <2>7, RowReplaced
<1>7. QED
      BY <1>1, <1>5, <1>6 DEF SyncRead

LEMMA SyncWriteMoves ==
    ASSUME SubInv, NEW t \in Tasks, SyncWrite(t)
    PROVE  RowsMove
<1>1. PICK mine, new : mine = task[t] /\ new = Synced(mine.loaded, mine.snap)
      OBVIOUS
<1>2. /\ mine \in TaskRec /\ mine.snap.status \in Statuses \cup Ended
      /\ mine.loaded # NoRow /\ mine.loaded.sub = mine.sub
      /\ mine.snap.status \in Ended => Over(mine.sub)
      BY <1>1, TaskTyped DEF ReadTrue, SyncWrite
<1>3. mine.loaded \in FullRows /\ mine.snap \in StripeRec /\ mine.key \in Keys
      BY <1>2, RowIsFull DEF TaskRec
<1>4. /\ new \in FullRows /\ new.sub = mine.sub /\ (mine.loaded.paid => new.paid)
      /\ new.status = "canceled" => Over(mine.sub)
      BY <1>1, <1>2, <1>3, SyncedKeeps
<1>5. CASE UNCHANGED <<rows, crossed, unheard, ousted>>
      BY <1>5, RowsUnchanged DEF SubInv, SubTypeOK
<1>6. CASE rows[mine.key] # NoRow /\ WriteRow(mine.key, mine.loaded, new, TRUE)
      BY <1>2, <1>3, <1>4, <1>6, WriteMoves
<1>7. QED
      BY <1>1, <1>5, <1>6 DEF SyncWrite

LEMMA AnonymizeMoves == ASSUME SubInv, DeleteAnonymize  PROVE RowsMove
<1>1. rows \in [Keys -> Rows] /\ "user" \in Keys /\ "gone" \in Keys /\ NoRow \in Rows
      BY IdleTyped DEF SubInv, SubTypeOK, Keys
<1>2. /\ UNCHANGED <<unheard, ousted>> /\ Request.pc = "anonymize" /\ account' = "deleted"
      /\ crossed' = IF "user" \in crossed THEN {"gone"} ELSE crossed
      BY DEF DeleteAnonymize, Request
<1>3. /\ crossed' \subseteq Keys /\ unheard' \subseteq Subs /\ ousted' \subseteq Subs
      /\ "gone" \in crossed => "gone" \in crossed'
      BY <1>1, <1>2 DEF SubInv, SubTypeOK
<1>4. account = "live" /\ rows["gone"] = NoRow
      BY <1>2 DEF SubInv, DeletionTrue
<1>5. CASE rows["user"] = NoRow /\ rows' = rows
      BY <1>1, <1>2, <1>3, <1>4, <1>5 DEF RowsMove, RowMoves, Named, Keys
<1>6. CASE rows' = [k \in Keys |-> IF k = "gone" THEN rows["user"] ELSE NoRow]
  <2>1. rows' \in [Keys -> Rows]
        BY <1>1, <1>6
  <2>2. RowMoves("user") /\ RowMoves("gone")
        BY <1>1, <1>2, <1>6 DEF RowMoves, Moved
  <2>3. QED
        BY <1>2, <1>3, <2>1, <2>2 DEF RowsMove, Named, Keys
<1>7. QED
      BY <1>5, <1>6 DEF DeleteAnonymize

LEMMA RowsStep ==
    ASSUME SubInv, SubNext
    PROVE  RowsMove
<1>1. ASSUME NEW t \in Hooks, CheckoutUpsert(t)  PROVE RowsMove
  <2>1. PICK snap, s : snap = task[t].snap /\ s = task[t].sub
        OBVIOUS
  <2>2. t \in Tasks /\ task[t].pc = "upsert"
        BY <1>1 DEF Tasks, CheckoutUpsert
  <2>3. /\ snap.status \in Statuses /\ snap.first \in Plans
        /\ Completed(s) /\ (snap.status = "canceled" => Over(s))
        BY <2>1, <2>2, TaskTyped DEF ReadTrue, TaskRec, StripeRec, Ended, Statuses
  <2>4. Upsert(t, s, snap.status, snap.first, snap.status = "active")
        BY <1>1, <2>1 DEF CheckoutUpsert
  <2>5. (snap.status = "active") \in BOOLEAN
        OBVIOUS
  <2>6. QED
        BY <2>3, <2>4, <2>5, UpsertMoves
<1>2. ASSUME NEW t \in Hooks, UpdateUpsert(t)  PROVE RowsMove
  <2>1. PICK snap, s : snap = task[t].snap /\ s = task[t].sub
        OBVIOUS
  <2>2. t \in Tasks /\ task[t].pc = "upsert"
        BY <1>2 DEF Tasks, UpdateUpsert
  <2>3. /\ snap.status \in Statuses /\ snap.plan \in Plans
        /\ Completed(s) /\ (snap.status = "canceled" => Over(s))
        BY <2>1, <2>2, TaskTyped DEF ReadTrue, TaskRec, StripeRec, Ended, Statuses
  <2>4. Upsert(t, s, snap.status, snap.plan, FALSE)
        BY <1>2, <2>1 DEF UpdateUpsert
  <2>5. QED
        BY <2>3, <2>4, UpsertMoves
<1>3. ASSUME NEW t \in Hooks, UpdateFetch(t)  PROVE RowsMove
  <2>1. UNCHANGED <<rows, crossed, unheard, ousted>>
        BY <1>3 DEF UpdateFetch, AnswerError
  <2>2. QED
        BY <2>1, RowsUnchanged DEF SubInv, SubTypeOK
<1>4. ASSUME NEW s \in Subs, Complete(s) \/ StripeChanges(s)  PROVE RowsMove
  <2>1. UNCHANGED <<rows, crossed, ousted>> /\ (unheard' = unheard \/ unheard' = unheard \cup {s})
        BY <1>4 DEF Complete, StripeChanges, Change
  <2>2. QED
        BY <2>1, RowsUnchanged DEF SubInv, SubTypeOK
<1>5. ASSUME NEW t, NEW p, NEW e,
             \/ Receive(e) \/ Die(t) \/ StartSync \/ SyncNext(t) \/ Subscribe(p)
             \/ SubscribeDecide \/ DeleteAccount \/ DeleteCancel
      PROVE  RowsMove
  <2>1. UNCHANGED <<rows, crossed, unheard, ousted>>
        BY <1>5 DEF Receive, Die, StartSync, SyncNext, Subscribe, SubscribeDecide, DeleteAccount,
                    DeleteCancel, Quiet
  <2>2. QED
        BY <2>1, RowsUnchanged DEF SubInv, SubTypeOK
<1>6. "sync" \in Tasks /\ "request" \in Tasks
      BY DEF Tasks
<1>7. ASSUME NEW t \in Hooks, HookStep(t)  PROVE RowsMove
      BY <1>1, <1>2, <1>3, <1>7, MarkMoves, ApplyMoves DEF HookStep
<1>8. CASE SyncStep \/ RequestStep
      BY <1>5, <1>6, <1>8, SyncReadMoves, SyncWriteMoves, AnonymizeMoves DEF SyncStep, RequestStep
<1>9. QED
      BY <1>4, <1>5, <1>7, <1>8 DEF SubNext

-----------------------------------------------------------------------------
(* What the tasks have read, and what the webhooks tell, stays true.         *)

LEMMA Lasting ==
    ASSUME StripeGrows
    PROVE  /\ \A s : (Completed(s) => Completed(s)') /\ (Over(s) => Over(s)')
           /\ \A type, s : EventTrue(type, s) => EventTrue(type, s)'
<1>1. \A s : (Completed(s) => Completed(s)') /\ (Over(s) => Over(s)')
      BY DEF StripeGrows, Completed, Over
<1>2. QED
      BY <1>1 DEF EventTrue

LEMMA ReadsLast ==
    ASSUME StripeGrows, NEW x \in TaskRec, ReadTrue(x)
    PROVE  ReadTrue(x)'
BY Lasting DEF ReadTrue

LEMMA HooksLast ==
    ASSUME StripeGrows, NEW x, HookTrue(x)
    PROVE  HookTrue(x)'
BY Lasting DEF HookTrue

LEMMA TasksUnchanged ==
    ASSUME SubInv, StripeGrows, UNCHANGED task
    PROVE  (TasksTyped /\ ReadsTrue)'
<1>1. /\ task \in [Tasks -> TaskRec] /\ \A t \in Tasks : ReadTrue(task[t])
      /\ \A t \in Hooks : HookTrue(task[t])
      BY DEF SubInv, TasksTyped, ReadsTrue
<1>2. ASSUME NEW t \in Tasks  PROVE ReadTrue(task[t])'
  <2>1. PICK x \in TaskRec : x = task'[t] /\ ReadTrue(x)
        BY <1>1
  <2>2. ReadTrue(x)'
        BY <2>1, ReadsLast
  <2>3. QED
        BY <2>1, <2>2 DEF ReadTrue, Completed, Over, EventTrue
<1>3. ASSUME NEW t \in Hooks  PROVE HookTrue(task[t])'
  <2>1. PICK x : x = task'[t] /\ HookTrue(x)
        BY <1>1
  <2>2. HookTrue(x)'
        BY <2>1, HooksLast
  <2>3. QED
        BY <2>1, <2>2 DEF HookTrue, Completed, Over, EventTrue
<1>4. QED
      BY <1>1, <1>2, <1>3 DEF TasksTyped, StripeGrows, ReadsTrue

LEMMA BecomeKeeps ==
    ASSUME SubInv, StripeGrows, NEW t \in Tasks, NEW new \in TaskRec, ReadTrue(new),
           t \in Hooks => HookTrue(new), Become(t, new)
    PROVE  (TasksTyped /\ ReadsTrue)'
<1>1. /\ task \in [Tasks -> TaskRec] /\ \A u \in Tasks : ReadTrue(task[u])
      /\ \A u \in Hooks : HookTrue(task[u])
      BY DEF SubInv, TasksTyped, ReadsTrue
<1>2. task' \in [Tasks -> TaskRec] /\ task'[t] = new /\ \A u \in Tasks : u # t => task'[u] = task[u]
      BY <1>1 DEF Become
<1>3. ASSUME NEW u \in Tasks  PROVE ReadTrue(task[u])'
  <2>1. PICK x \in TaskRec : x = task'[u] /\ ReadTrue(x)
        BY <1>1, <1>2
  <2>2. ReadTrue(x)'
        BY <2>1, ReadsLast
  <2>3. QED
        BY <2>1, <2>2 DEF ReadTrue, Completed, Over, EventTrue
<1>4. ASSUME NEW u \in Hooks  PROVE HookTrue(task[u])'
  <2>1. PICK x : x = task'[u] /\ HookTrue(x)
        BY <1>1, <1>2 DEF Tasks
  <2>2. HookTrue(x)'
        BY <2>1, HooksLast
  <2>3. QED
        BY <2>1, <2>2 DEF HookTrue, Completed, Over, EventTrue
<1>5. QED
      BY <1>2, <1>3, <1>4 DEF TasksTyped, StripeGrows, ReadsTrue

LEMMA RestKeeps ==
    ASSUME SubInv, StripeGrows, NEW t \in Tasks, Become(t, Idle)
    PROVE  (TasksTyped /\ ReadsTrue)'
BY IdleTrue, IdleTyped, BecomeKeeps

LEMMA ReceiveKeeps ==
    ASSUME SubInv, StripeGrows, NEW e \in events, Receive(e)
    PROVE  (TasksTyped /\ ReadsTrue)'
<1>1. PICK t : t = Slot
      OBVIOUS
<1>2. t \in Hooks /\ t \in Tasks
      BY <1>1 DEF Receive, MayStart, Slot, Tasks
<1>3. /\ e.sub \in Subs /\ EventTrue(e.type, e.sub) /\ Completed(e.sub) /\ e.type \in EventTypes
      /\ stripe \in [Subs -> StripeRec] /\ rows \in [Keys -> Rows]
      BY DEF SubInv, EventsTrue, EventTrue, Completed, TasksTyped, SubTypeOK, EventTypes
<1>4. PICK type, s, snap : type = e.type /\ s = e.sub /\ snap = stripe[e.sub]
      OBVIOUS
<1>5. s \in Subs /\ snap \in StripeRec /\ type \in EventTypes
      BY <1>3, <1>4
<1>6. ASSUME NEW new \in TaskRec, new.kind = type, new.sub = s, new.todo = {}, Become(t, new),
             \/ new.pc = "upsert" /\ new.snap = snap /\ snap.status # "gone"
             \/ new.pc = "fetch"
             \/ /\ new.pc = "mark" /\ type \in {"deleted", "paid", "failed"}
                /\ new.loaded # NoRow /\ new.loaded.sub = s
      PROVE  (TasksTyped /\ ReadsTrue)'
  <2>1. snap.status \in Statuses \cup Ended /\ (snap.status \in Ended => Over(s))
        BY <1>3, <1>4 DEF Completed, Over
  <2>2. EventTrue(new.kind, new.sub) /\ Completed(new.sub)
        BY <1>3, <1>4, <1>6
  <2>3. ReadTrue(new)
        BY <1>6, <2>1, <2>2 DEF ReadTrue
  <2>4. HookTrue(new)
        BY <1>5, <1>6, <2>2 DEF HookTrue
  <2>5. QED
        BY <1>2, <1>6, <2>3, <2>4, BecomeKeeps
<1>7. "user" \in Keys /\ RowsOf(e) \subseteq Keys
      BY DEF RowsOf, FindSubscription, KeyOf, Keys
<1>8. CASE snap.status # "gone"
           /\ Become(t, [[Idle EXCEPT !.kind = type, !.sub = s, !.key = "user"]
                            EXCEPT !.snap = snap, !.pc = "upsert"])
  <2>1. PICK new : new = [[Idle EXCEPT !.kind = type, !.sub = s, !.key = "user"]
                             EXCEPT !.snap = snap, !.pc = "upsert"]
        OBVIOUS
  <2>2. /\ new \in TaskRec /\ new.kind = type /\ new.sub = s /\ new.todo = {}
        /\ new.pc = "upsert" /\ new.snap = snap
        BY <1>5, <1>7, <2>1, IdleTyped DEF Idle, TaskRec
  <2>3. QED
        BY <1>6, <1>8, <2>1, <2>2
<1>9. CASE Become(t, [[Idle EXCEPT !.kind = type, !.sub = s, !.key = "user"] EXCEPT !.pc = "fetch"])
  <2>1. PICK new : new = [[Idle EXCEPT !.kind = type, !.sub = s, !.key = "user"] EXCEPT !.pc = "fetch"]
        OBVIOUS
  <2>2. new \in TaskRec /\ new.kind = type /\ new.sub = s /\ new.todo = {} /\ new.pc = "fetch"
        BY <1>5, <1>7, <2>1, IdleTyped DEF Idle, TaskRec
  <2>3. QED
        BY <1>6, <1>9, <2>1, <2>2
<1>10. ASSUME NEW k \in Keys, NEW pc \in {"fetch", "mark"},
              pc = "mark" => type \in {"deleted", "paid", "failed"} /\ ~ Ignores(e, k),
              Become(t, [[Idle EXCEPT !.kind = type, !.sub = s, !.key = k]
                            EXCEPT !.loaded = rows[k], !.pc = pc])
       PROVE  (TasksTyped /\ ReadsTrue)'
  <2>1. PICK row : row = rows[k]
        OBVIOUS
  <2>2. row \in Rows
        BY <1>3, <2>1
  <2>3. pc = "mark" => row # NoRow /\ row.sub = s
        BY <1>4, <1>5, <1>10, <2>1 DEF Ignores, Stale, NoRow, Subs
  <2>4. PICK new : new = [[Idle EXCEPT !.kind = type, !.sub = s, !.key = k]
                             EXCEPT !.loaded = row, !.pc = pc]
        OBVIOUS
  <2>5. /\ new \in TaskRec /\ new.kind = type /\ new.sub = s /\ new.todo = {}
        /\ new.pc = pc /\ new.loaded = row
        BY <1>5, <1>10, <2>2, <2>4, IdleTyped DEF Idle, TaskRec
  <2>6. Become(t, new)
        BY <1>10, <2>1, <2>4
  <2>7. QED
        BY <1>6, <1>10, <2>3, <2>5, <2>6
<1>11. CASE UNCHANGED task
       BY <1>11, TasksUnchanged
<1>12. QED
       BY <1>1, <1>4, <1>7, <1>8, <1>9, <1>10, <1>11 DEF Receive

LEMMA FetchKeeps ==
    ASSUME SubInv, StripeGrows, NEW t \in Hooks, UpdateFetch(t)
    PROVE  (TasksTyped /\ ReadsTrue)'
<1>1. PICK mine, snap : mine = task[t] /\ snap = stripe[mine.sub]
      OBVIOUS
<1>2. /\ t \in Tasks /\ mine \in TaskRec /\ mine.pc = "fetch" /\ ReadTrue(mine)
      /\ HookTrue(mine) /\ mine # Idle /\ Completed(mine.sub) /\ snap \in StripeRec
      BY <1>1, TaskTyped DEF Tasks, UpdateFetch, ReadTrue, SubInv, TasksTyped, Completed, Idle
<1>3. snap.status \in Statuses \cup Ended /\ (snap.status \in Ended => Over(mine.sub))
      BY <1>1, <1>2 DEF Completed, Over
<1>4. ASSUME NEW pc \in {"upsert", "apply"}, snap.status # "gone",
             Become(t, [task[t] EXCEPT !.snap = stripe[task[t].sub], !.pc = pc]),
             pc = "apply" => mine.loaded # NoRow /\ ~ Stale("updated", mine.loaded, mine.sub)
      PROVE  (TasksTyped /\ ReadsTrue)'
  <2>1. PICK new : new = [mine EXCEPT !.snap = snap, !.pc = pc]
        OBVIOUS
  <2>2. Become(t, new)
        BY <1>1, <1>4, <2>1
  <2>3. /\ new \in TaskRec /\ new.pc = pc /\ new.sub = mine.sub /\ new.snap = snap
        /\ new.loaded = mine.loaded /\ new.todo = mine.todo /\ new.kind = mine.kind
        BY <1>2, <1>4, <2>1 DEF TaskRec
  <2>4. \A ref \in new.todo : Completed(ref[2])
        BY <1>2, <2>3 DEF ReadTrue
  <2>5. ReadTrue(new)
        BY <1>2, <1>3, <1>4, <2>3, <2>4 DEF ReadTrue, Stale
  <2>6. HookTrue(new)
        BY <1>2, <2>3 DEF HookTrue
  <2>7. QED
        BY <1>2, <2>2, <2>3, <2>5, <2>6, BecomeKeeps
<1>5. CASE Answer(t) \/ AnswerError(t)
      BY <1>2, <1>5, RestKeeps DEF Answer, AnswerError
<1>6. QED
  <2>1. CASE mine.loaded = NoRow
        BY <1>1, <1>4, <1>5, <2>1 DEF UpdateFetch
  <2>2. CASE mine.loaded # NoRow
        BY <1>1, <1>4, <1>5, <2>2 DEF UpdateFetch
  <2>3. QED
        BY <2>1, <2>2

LEMMA StartSyncKeeps ==
    ASSUME SubInv, StripeGrows, StartSync
    PROVE  (TasksTyped /\ ReadsTrue)'
<1>1. PICK todo : todo = {<<k, rows[k].sub>> : k \in {j \in Keys : rows[j] # NoRow}}
      OBVIOUS
<1>2. ASSUME NEW k \in Keys, rows[k] # NoRow
      PROVE  rows[k].sub \in Subs /\ Completed(rows[k].sub)
      BY <1>2 DEF SubInv, RowsTrue, RowTrue, Completed
<1>3. todo \in SUBSET (Keys \X Subs) /\ \A ref \in todo : Completed(ref[2])
      BY <1>1, <1>2
<1>4. PICK new : new = [Idle EXCEPT !.kind = "sync", !.pc = "next", !.todo = todo]
      OBVIOUS
<1>5. new \in TaskRec /\ new.pc = "next" /\ new.kind = "sync" /\ new.todo = todo
      BY <1>3, <1>4, IdleTyped DEF Idle, TaskRec
<1>6. ReadTrue(new)
      BY <1>3, <1>5 DEF ReadTrue
<1>7. Become("sync", new)
      BY <1>1, <1>4 DEF StartSync
<1>8. QED
      BY <1>5, <1>6, <1>7, SubscriptionAssumption, BecomeKeeps DEF Tasks

LEMMA SyncNextKeeps ==
    ASSUME SubInv, StripeGrows, NEW t \in {"sync", "request"}, SyncNext(t)
    PROVE  (TasksTyped /\ ReadsTrue)'
<1>1. t \in Tasks /\ t \notin Hooks
      BY SubscriptionAssumption DEF Tasks
<1>2. PICK mine : mine = task[t]
      OBVIOUS
<1>3. mine \in TaskRec /\ ReadTrue(mine)
      BY <1>1, <1>2, TaskTyped
<1>4. PICK ref \in mine.todo :
             Become(t, [mine EXCEPT !.key = ref[1], !.sub = ref[2], !.todo = @ \ {ref},
                                    !.snap = stripe[ref[2]], !.pc = "sync"])
      BY <1>2 DEF SyncNext
<1>5. ref[1] \in Keys /\ ref[2] \in Subs /\ Completed(ref[2])
      BY <1>3 DEF TaskRec, ReadTrue
<1>6. PICK k, s, snap, todo : k = ref[1] /\ s = ref[2] /\ snap = stripe[s] /\ todo = mine.todo \ {ref}
      OBVIOUS
<1>7. k \in Keys /\ s \in Subs /\ snap \in StripeRec /\ todo \in SUBSET (Keys \X Subs)
      BY <1>3, <1>5, <1>6 DEF SubInv, TasksTyped, TaskRec
<1>8. PICK new : new = [mine EXCEPT !.key = k, !.sub = s, !.todo = todo, !.snap = snap, !.pc = "sync"]
      OBVIOUS
<1>9. /\ new \in TaskRec /\ new.pc = "sync" /\ new.sub = s /\ new.snap = snap /\ new.todo = todo
      BY <1>3, <1>7, <1>8 DEF TaskRec
<1>10. Become(t, new)
       BY <1>4, <1>6, <1>8
<1>11. /\ snap.status \in Statuses \cup Ended /\ (snap.status \in Ended => Over(s))
       /\ Completed(s)
       BY <1>5, <1>6 DEF Completed, Over
<1>12. \A r \in todo : Completed(r[2])
       BY <1>3, <1>6 DEF ReadTrue
<1>13. ReadTrue(new)
       BY <1>9, <1>11, <1>12 DEF ReadTrue
<1>14. QED
       BY <1>1, <1>9, <1>10, <1>13, BecomeKeeps

LEMMA SyncDoneKeeps ==
    ASSUME SubInv, StripeGrows, NEW t \in {"sync", "request"}, SyncDone(t)
    PROVE  (TasksTyped /\ ReadsTrue)'
<1>1. t \in Tasks /\ t \notin Hooks
      BY SubscriptionAssumption DEF Tasks
<1>2. PICK mine : mine = task[t]
      OBVIOUS
<1>3. mine \in TaskRec /\ ReadTrue(mine)
      BY <1>1, <1>2, TaskTyped
<1>4. CASE Become(t, Idle)
      BY <1>1, <1>4, RestKeeps
<1>5. ASSUME NEW pc \in {"next", "decide"},
             Become(t, [mine EXCEPT !.pc = pc, !.sub = 0, !.key = "user", !.snap = NoSub, !.loaded = NoRow])
      PROVE  (TasksTyped /\ ReadsTrue)'
  <2>1. PICK new : new = [mine EXCEPT !.pc = pc, !.sub = 0, !.key = "user", !.snap = NoSub, !.loaded = NoRow]
        OBVIOUS
  <2>2. new \in TaskRec /\ new.pc = pc /\ new.todo = mine.todo
        BY <1>3, <1>5, <2>1, IdleTyped DEF TaskRec, Keys
  <2>3. ReadTrue(new)
        BY <1>3, <1>5, <2>2 DEF ReadTrue
  <2>4. QED
        BY <1>1, <1>5, <2>1, <2>2, <2>3, BecomeKeeps
<1>6. QED
      BY <1>2, <1>4, <1>5 DEF SyncDone

LEMMA SyncReadKeeps ==
    ASSUME SubInv, StripeGrows, NEW t \in {"sync", "request"}, SyncRead(t)
    PROVE  (TasksTyped /\ ReadsTrue)'
<1>1. t \in Tasks /\ t \notin Hooks
      BY SubscriptionAssumption DEF Tasks
<1>2. PICK mine, row : mine = task[t] /\ row = rows[task[t].key]
      OBVIOUS
<1>3. mine \in TaskRec /\ ReadTrue(mine) /\ mine.pc = "sync" /\ mine.sub \in Subs /\ row \in Rows
      BY <1>1, <1>2, TaskTyped DEF SyncRead, SubInv, SubTypeOK, TaskRec
<1>4. CASE row.sub = mine.sub /\ Become(t, [mine EXCEPT !.pc = "overwrite", !.loaded = row])
  <2>1. PICK new : new = [mine EXCEPT !.pc = "overwrite", !.loaded = row]
        OBVIOUS
  <2>2. /\ new \in TaskRec /\ new.pc = "overwrite" /\ new.todo = mine.todo /\ new.sub = mine.sub
        /\ new.snap = mine.snap /\ new.loaded = row
        BY <1>3, <2>1 DEF TaskRec
  <2>3. row # NoRow
        BY <1>3, <1>4 DEF NoRow, Subs
  <2>4. ReadTrue(new)
        BY <1>3, <1>4, <2>2, <2>3 DEF ReadTrue
  <2>5. QED
        BY <1>1, <1>4, <2>1, <2>2, <2>4, BecomeKeeps
<1>5. QED
      BY <1>2, <1>4, SyncDoneKeeps DEF SyncRead

LEMMA SyncWriteKeeps ==
    ASSUME SubInv, StripeGrows, NEW t \in {"sync", "request"}, SyncWrite(t)
    PROVE  (TasksTyped /\ ReadsTrue)'
BY SyncDoneKeeps, RestKeeps DEF SyncWrite, Tasks

LEMMA SubscribeKeeps ==
    ASSUME SubInv, StripeGrows, NEW plan \in Plans, Subscribe(plan)
    PROVE  (TasksTyped /\ ReadsTrue)'
<1>1. PICK row : row = rows["user"]
      OBVIOUS
<1>2. /\ row \in Rows /\ "request" \in Tasks /\ "request" \notin Hooks
      /\ row # NoRow => Completed(row.sub)
      BY <1>1, SubscriptionAssumption DEF SubInv, SubTypeOK, Keys, Tasks, RowsTrue, RowTrue
<1>3. ASSUME NEW new \in TaskRec, new.pc \in {"decide", "next"},
             \A ref \in new.todo : Completed(ref[2]), Become("request", new)
      PROVE  (TasksTyped /\ ReadsTrue)'
  <2>1. ReadTrue(new)
        BY <1>3 DEF ReadTrue
  <2>2. QED
        BY <1>2, <1>3, <2>1, BecomeKeeps
<1>4. CASE row = NoRow
  <2>1. PICK new : new = [[Idle EXCEPT !.kind = "subscribe", !.want = plan, !.held = row]
                             EXCEPT !.pc = "decide"]
        OBVIOUS
  <2>2. new \in TaskRec /\ new.pc = "decide" /\ new.todo = {}
        BY <1>2, <2>1, IdleTyped DEF Idle, TaskRec
  <2>3. Become("request", new)
        BY <1>1, <1>4, <2>1 DEF Subscribe
  <2>4. QED
        BY <1>3, <2>2, <2>3
<1>5. CASE row # NoRow
  <2>1. PICK todo : todo = {<<"user", row.sub>>}
        OBVIOUS
  <2>2. todo \in SUBSET (Keys \X Subs) /\ \A ref \in todo : Completed(ref[2])
        BY <1>2, <1>5, <2>1 DEF Completed, Keys
  <2>3. PICK new : new = [[Idle EXCEPT !.kind = "subscribe", !.want = plan, !.held = row]
                             EXCEPT !.pc = "next", !.todo = todo]
        OBVIOUS
  <2>4. new \in TaskRec /\ new.pc = "next" /\ new.todo = todo
        BY <1>2, <2>2, <2>3, IdleTyped DEF Idle, TaskRec
  <2>5. Become("request", new)
        BY <1>1, <1>5, <2>1, <2>3 DEF Subscribe
  <2>6. QED
        BY <1>3, <2>2, <2>4, <2>5
<1>6. QED
      BY <1>4, <1>5

LEMMA DeletionKeeps ==
    ASSUME SubInv, StripeGrows, DeleteAccount \/ DeleteCancel
    PROVE  (TasksTyped /\ ReadsTrue)'
<1>1. "request" \in Tasks /\ "request" \notin Hooks /\ rows["user"] \in Rows
      BY SubscriptionAssumption DEF Tasks, SubInv, SubTypeOK, Keys
<1>2. CASE DeleteAccount
  <2>1. PICK new : new = [Idle EXCEPT !.kind = "delete", !.pc = "cancel", !.loaded = rows["user"]]
        OBVIOUS
  <2>2. new \in TaskRec /\ new.pc = "cancel" /\ new.todo = {}
        BY <1>1, <2>1, IdleTyped DEF Idle, TaskRec
  <2>3. ReadTrue(new)
        BY <2>2 DEF ReadTrue
  <2>4. QED
        BY <1>1, <1>2, <2>1, <2>2, <2>3, BecomeKeeps DEF DeleteAccount
<1>3. CASE DeleteCancel
  <2>1. PICK mine : mine = task["request"]
        OBVIOUS
  <2>2. mine \in TaskRec /\ ReadTrue(mine)
        BY <1>1, <2>1, TaskTyped
  <2>3. PICK new : new = [mine EXCEPT !.pc = "anonymize"]
        OBVIOUS
  <2>4. new \in TaskRec /\ new.pc = "anonymize" /\ new.todo = mine.todo
        BY <2>2, <2>3 DEF TaskRec
  <2>5. ReadTrue(new)
        BY <2>2, <2>4 DEF ReadTrue
  <2>6. Become("request", new)
        BY <1>3, <2>1, <2>3 DEF DeleteCancel
  <2>7. QED
        BY <1>1, <2>4, <2>5, <2>6, BecomeKeeps
<1>4. QED
      BY <1>2, <1>3

LEMMA TasksStep ==
    ASSUME SubInv, SubNext
    PROVE  (TasksTyped /\ ReadsTrue)'
<1>1. StripeGrows
      BY StripeStep
<1>2. ASSUME NEW t \in Hooks, CheckoutUpsert(t) \/ MarkCommit(t) \/ UpdateUpsert(t) \/ UpdateApply(t)
      PROVE  (TasksTyped /\ ReadsTrue)'
  <2>1. Become(t, Idle)
        BY <1>2 DEF CheckoutUpsert, MarkCommit, UpdateUpsert, UpdateApply, Upsert, AnswerError, Answer
  <2>2. QED
        BY <1>1, <2>1, RestKeeps DEF Tasks
<1>3. ASSUME NEW s \in Subs, Complete(s) \/ StripeChanges(s)
      PROVE  (TasksTyped /\ ReadsTrue)'
  <2>1. UNCHANGED task
        BY <1>3 DEF Complete, StripeChanges, Change
  <2>2. QED
        BY <1>1, <2>1, TasksUnchanged
<1>4. CASE SubscribeDecide \/ DeleteAnonymize
  <2>1. Become("request", Idle)
        BY <1>4 DEF SubscribeDecide, DeleteAnonymize
  <2>2. QED
        BY <1>1, <2>1, RestKeeps DEF Tasks
<1>5. ASSUME NEW t \in Tasks, Die(t)
      PROVE  (TasksTyped /\ ReadsTrue)'
      BY <1>1, <1>5, RestKeeps DEF Die
<1>6. ASSUME NEW t \in Hooks, HookStep(t)
      PROVE  (TasksTyped /\ ReadsTrue)'
      BY <1>1, <1>2, <1>6, FetchKeeps DEF HookStep
<1>7. CASE SyncStep \/ RequestStep
      BY <1>1, <1>4, <1>7, SyncNextKeeps, SyncReadKeeps, SyncWriteKeeps, DeletionKeeps
      DEF SyncStep, RequestStep
<1>8. QED
      BY <1>1, <1>3, <1>5, <1>6, <1>7, ReceiveKeeps, StartSyncKeeps, SubscribeKeeps, DeletionKeeps
      DEF SubNext

EventRec == [type : EventTypes, sub : Subs]

\* A webhook that is sent tells what has just been done at Stripe
LEMMA SentTrue ==
    ASSUME SubInv, StripeGrows, NEW new \in SUBSET EventRec,
           \A e \in new : EventTrue(e.type, e.sub)', events' \subseteq events \cup new
    PROVE  events' \subseteq EventRec /\ EventsTrue'
<1>1. events \subseteq EventRec
      BY DEF SubInv, SubTypeOK, EventRec, EventTypes
<1>2. \A e \in events : EventTrue(e.type, e.sub)'
      BY Lasting DEF SubInv, EventsTrue
<1>3. QED
      BY <1>1, <1>2 DEF EventsTrue

LEMMA SentAbout ==
    ASSUME SubInv, StripeGrows, NEW s \in Subs, NEW types \in SUBSET EventTypes,
           Completed(s)', "deleted" \in types => Over(s)',
           events' \subseteq events \cup {Event(type, s) : type \in types}
    PROVE  events' \subseteq EventRec /\ EventsTrue'
<1>1. PICK new : new = {Event(type, s) : type \in types}
      OBVIOUS
<1>2. \A e \in new : e \in EventRec /\ e.sub = s /\ e.type \in types
      BY <1>1 DEF Event, EventRec
<1>3. \A e \in new : EventTrue(e.type, e.sub)'
      BY <1>2 DEF EventTrue
<1>4. QED
      BY <1>1, <1>2, <1>3, SentTrue

\* What is delivered again was true when it came
LEMMA RedeliveredTrue ==
    ASSUME SubInv, StripeGrows, NEW t \in Tasks, task[t].pc # "idle",
           events' = events \cup Redelivered(t)
    PROVE  events' \subseteq EventRec /\ EventsTrue'
<1>1. CASE t \notin Hooks
  <2>1. PICK none \in SUBSET EventRec : none = {}
        OBVIOUS
  <2>2. events' \subseteq events \cup none
        BY <1>1, <2>1 DEF Redelivered
  <2>3. QED
        BY <2>1, <2>2, SentTrue
<1>2. CASE t \in Hooks
  <2>1. PICK type, s : type = task[t].kind /\ s = task[t].sub
        OBVIOUS
  <2>2. type \in EventTypes /\ EventTrue(type, s) /\ s \in Subs
        BY <1>2, <2>1, TaskTyped DEF HookTrue, Idle, EventTrue, Completed
  <2>3. EventTrue(type, s)'
        BY <2>2, Lasting
  <2>4. PICK new : new = {Event(type, s)}
        OBVIOUS
  <2>5. new \in SUBSET EventRec /\ \A e \in new : e.type = type /\ e.sub = s
        BY <2>2, <2>4 DEF Event, EventRec
  <2>6. \A e \in new : EventTrue(e.type, e.sub)'
        BY <2>3, <2>5
  <2>7. events' \subseteq events \cup new
        BY <1>2, <2>1, <2>4 DEF Redelivered
  <2>8. QED
        BY <2>5, <2>6, <2>7, SentTrue
<1>3. QED
      BY <1>1, <1>2

LEMMA ChangedStatus ==
    ASSUME NEW s \in Subs, stripe \in [Subs -> StripeRec], NEW status, NEW plan,
           stripe' = [stripe EXCEPT ![s].status = status, ![s].plan = plan]
    PROVE  stripe'[s].status = status
BY DEF StripeRec

LEMMA EventsStep ==
    ASSUME SubInv, SubNext
    PROVE  events' \subseteq EventRec /\ EventsTrue'
<1>1. StripeGrows /\ stripe \in [Subs -> StripeRec]
      BY StripeStep DEF SubInv, TasksTyped
<1>2. ASSUME events' \subseteq events
      PROVE  events' \subseteq EventRec /\ EventsTrue'
  <2>1. PICK none \in SUBSET EventRec : none = {}
        OBVIOUS
  <2>2. QED
        BY <1>1, <1>2, <2>1, SentTrue
<1>3. ASSUME NEW s \in Subs, Complete(s)
      PROVE  events' \subseteq EventRec /\ EventsTrue'
  <2>1. PICK status \in {"trialing", "active"} : stripe' = [stripe EXCEPT ![s].status = status]
        BY <1>3 DEF Complete
  <2>2. stripe'[s].status = status
        BY <1>1, <2>1 DEF StripeRec
  <2>3. Completed(s)'
        BY <2>1, <2>2 DEF Completed, Statuses, Live
  <2>4. events' \subseteq events \cup {Event(type, s) : type \in {"checkout", "updated", "paid"}}
        BY <1>3 DEF Complete, Send
  <2>5. QED
        BY <1>1, <2>3, <2>4, SentAbout DEF EventTypes
<1>4. ASSUME NEW s \in Subs, NEW status \in Statuses \cup Ended, NEW plan,
             NEW types \in SUBSET EventTypes,
             Change(s, status, plan, types), "deleted" \in types => status = "canceled"
      PROVE  events' \subseteq EventRec /\ EventsTrue'
  <2>1. stripe' = [stripe EXCEPT ![s].status = status, ![s].plan = plan]
        BY <1>4 DEF Change
  <2>2. stripe'[s].status = status
        BY <1>1, <2>1, ChangedStatus
  <2>3. Completed(s)' /\ (status = "canceled" => Over(s)')
        BY <2>2 DEF Completed, Over, Ended
  <2>4. events' \subseteq events \cup {Event(type, s) : type \in types}
        BY <1>4 DEF Change, Send
  <2>5. QED
        BY <1>1, <1>4, <2>3, <2>4, SentAbout
<1>5. ASSUME NEW s \in Subs, StripeChanges(s)
      PROVE  events' \subseteq EventRec /\ EventsTrue'
  <2>1. {"past_due", "active", "canceled", "gone"} \subseteq Statuses \cup Ended
        BY DEF Statuses, Live, Ended
  <2>2. /\ {"updated", "failed"} \subseteq EventTypes /\ {"updated", "paid"} \subseteq EventTypes
        /\ {"updated"} \subseteq EventTypes /\ {"deleted"} \subseteq EventTypes
        BY DEF EventTypes
  <2>3. CASE Change(s, "past_due", stripe[s].plan, {"updated", "failed"})
        BY <1>4, <2>1, <2>2, <2>3
  <2>4. CASE Change(s, "active", stripe[s].plan, {"updated", "paid"})
        BY <1>4, <2>1, <2>2, <2>4
  <2>5. ASSUME NEW p \in Plans, Change(s, stripe[s].status, p, {"updated"})
        PROVE  events' \subseteq EventRec /\ EventsTrue'
    <3>1. stripe[s].status \in Statuses \cup Ended
          BY <2>5 DEF Change
    <3>2. QED
          BY <1>4, <2>2, <2>5, <3>1
  <2>6. CASE Change(s, "canceled", stripe[s].plan, {"deleted"})
        BY <1>4, <2>1, <2>2, <2>6
  <2>7. CASE Change(s, "gone", stripe[s].plan, {})
        BY <1>4, <2>1, <2>7
  <2>8. QED
        BY <1>5, <2>3, <2>4, <2>5, <2>6, <2>7 DEF StripeChanges
<1>6. CASE DeleteCancel
  <2>1. CASE UNCHANGED events
        BY <1>2, <2>1
  <2>2. PICK row : row = task["request"].loaded
        OBVIOUS
  <2>3. CASE /\ Cancels(row) /\ stripe[row.sub].status \in Live
             /\ stripe' = [stripe EXCEPT ![row.sub].status = "canceled"]
             /\ events' = events \cup {Event("deleted", row.sub)}
    <3>1. row \in Rows
          BY <2>2 DEF SubInv, TasksTyped, Tasks, TaskRec
    <3>2. row.sub \in Subs
          BY <2>3, <3>1, RowIsFull DEF Cancels
    <3>3. PICK s \in Subs : s = row.sub
          BY <3>2
    <3>4. stripe'[s].status = "canceled"
          BY <1>1, <2>3, <3>3 DEF StripeRec
    <3>5. Completed(s)' /\ Over(s)'
          BY <3>4 DEF Completed, Over, Ended
    <3>6. events' \subseteq events \cup {Event(type, s) : type \in {"deleted"}}
          BY <2>3, <3>3
    <3>7. QED
          BY <1>1, <3>5, <3>6, SentAbout DEF EventTypes
  <2>4. QED
        BY <1>6, <2>1, <2>2, <2>3 DEF DeleteCancel
<1>7. ASSUME NEW t \in Tasks, Die(t)
      PROVE  events' \subseteq EventRec /\ EventsTrue'
      BY <1>1, <1>7, RedeliveredTrue DEF Die
<1>8. ASSUME NEW t \in Hooks, HookStep(t)
      PROVE  events' \subseteq EventRec /\ EventsTrue'
  <2>1. t \in Tasks /\ task[t].pc # "idle"
        BY <1>8 DEF Tasks, HookStep, CheckoutUpsert, MarkCommit, UpdateFetch, UpdateUpsert, UpdateApply
  <2>2. UNCHANGED events \/ events' = events \cup Redelivered(t)
        BY <1>8 DEF HookStep, CheckoutUpsert, MarkCommit, UpdateFetch, UpdateUpsert, UpdateApply,
                    Upsert, Answer, AnswerError
  <2>3. QED
        BY <1>1, <1>2, <2>1, <2>2, RedeliveredTrue
<1>9. ASSUME NEW e, Receive(e)
      PROVE  events' \subseteq events
      BY <1>9 DEF Receive, Delivered
<1>10. ASSUME NEW t, NEW p, \/ StartSync \/ SyncNext(t) \/ SyncRead(t) \/ SyncWrite(t) \/ Subscribe(p)
                            \/ SubscribeDecide \/ DeleteAccount \/ DeleteAnonymize
       PROVE  UNCHANGED events
       BY <1>10 DEF StartSync, SyncNext, SyncRead, SyncWrite, Subscribe, SubscribeDecide,
                    DeleteAccount, DeleteAnonymize
<1>11. QED
       BY <1>2, <1>3, <1>5, <1>6, <1>7, <1>8, <1>9, <1>10 DEF SubNext, SyncStep, RequestStep

\* A row says canceled only of a subscription that ended, and names a completed one
LEMMA RowsTrueStep ==
    ASSUME SubInv, StripeGrows, RowsMove
    PROVE  (RowsTrue /\ CutOffRightly)'
<1>1. \A s : (Completed(s) => Completed(s)') /\ (Over(s) => Over(s)')
      BY Lasting
<1>2. rows \in [Keys -> Rows] /\ rows' \in [Keys -> Rows]
      BY DEF RowsMove, SubInv, SubTypeOK
<1>3. ASSUME NEW k \in Keys, NEW row, row = rows'[k], row # NoRow
      PROVE  /\ Completed(row.sub)'
             /\ row.status = "canceled" => Over(row.sub)' \/ k \in crossed'
  <2>1. ASSUME NEW j \in Keys, row = rows[j]
        PROVE  /\ Completed(row.sub)
               /\ row.status = "canceled" => Over(row.sub) \/ j \in crossed
    <3>1. Completed(rows[j].sub)
          BY <1>3, <2>1 DEF SubInv, RowsTrue, RowTrue
    <3>2. rows[j].status = "canceled" => Over(rows[j].sub) \/ j \in crossed
          BY <1>3, <2>1, <3>1 DEF SubInv, CutOffRightly, Over, Completed
    <3>3. QED
          BY <2>1, <3>1, <3>2
  <2>2. /\ Completed(row.sub)
        /\ row.status = "canceled" => Over(row.sub) \/ k \in crossed'
    <3>1. CASE Stays(k)
          BY <1>3, <2>1, <3>1 DEF Stays
    <3>2. CASE k = "gone" /\ Moved
          BY <1>3, <2>1, <3>2 DEF Moved, Keys
    <3>3. CASE Follows(k, rows[k], row)
          BY <3>3 DEF Follows
    <3>4. QED
          BY <1>3, <3>1, <3>2, <3>3 DEF RowsMove, RowMoves
  <2>3. QED
        BY <1>1, <2>2
<1>4. RowsTrue'
  <2>1. ASSUME NEW k \in Keys, rows'[k] # NoRow
        PROVE  rows'[k].sub \in Subs /\ stripe'[rows'[k].sub].status \in Statuses \cup Ended
    <3>1. PICK row : row = rows'[k]
          OBVIOUS
    <3>2. Completed(row.sub)'
          BY <1>3, <2>1, <3>1
    <3>3. QED
          BY <3>1, <3>2 DEF Completed
  <2>2. QED
        BY <2>1 DEF RowsTrue, RowTrue, Completed
<1>5. CutOffRightly'
  <2>1. ASSUME NEW k \in Keys, rows'[k] # NoRow, rows'[k].status = "canceled"
        PROVE  stripe'[rows'[k].sub].status \in Ended \/ k \in crossed'
    <3>1. PICK row : row = rows'[k]
          OBVIOUS
    <3>2. Over(row.sub)' \/ k \in crossed'
          BY <1>3, <2>1, <3>1
    <3>3. QED
          BY <3>1, <3>2 DEF Over
  <2>2. QED
        BY <2>1 DEF CutOffRightly
<1>6. QED
      BY <1>4, <1>5

\* Only the webhook of another subscription takes the row from one that is paid for,
\* and the row then is known to have been taken over
LEMMA ServedStep ==
    ASSUME SubInv, StripeGrows, RowsMove, account' = "live" => account = "live"
    PROVE  ServedWhilePaying'
<1>1. ASSUME account' = "live", NEW s \in Subs, stripe'[s].status \in Live, s \notin unheard'
      PROVE  rows'["user"].sub = s \/ s \in ousted'
  <2>1. stripe[s].status \in Live
        BY <1>1 DEF StripeGrows
  <2>2. rows["user"].sub = s \/ s \in unheard \/ s \in ousted
        BY <1>1, <2>1 DEF SubInv, ServedWhilePaying
  <2>3. QED
        BY <1>1, <2>1, <2>2 DEF RowsMove, Named
<1>2. QED
      BY <1>1 DEF ServedWhilePaying

-----------------------------------------------------------------------------
(* The deletion of the account.                                             *)

\* What a step does to the request and what the deletion knows
RequestMoves ==
    \/ Request' \in {Request, Idle} /\ UNCHANGED <<account, inFlight>>
    \/ /\ Request'.pc \in {"next", "sync", "overwrite", "decide"}
       /\ account = "live" /\ UNCHANGED <<account, inFlight>>
    \/ DeleteAccount \/ DeleteCancel \/ DeleteAnonymize

LEMMA RequestMoved == ASSUME SubInv, SubNext  PROVE RequestMoves
<1>1. "request" \in Tasks /\ task \in [Tasks -> TaskRec] /\ "request" \notin Hooks
      BY SubscriptionAssumption DEF Tasks, SubInv, TasksTyped
<1>2. ASSUME NEW t \in Tasks, NEW new, t # "request", Become(t, new)
      PROVE  Request' = Request
      BY <1>1, <1>2 DEF Become, Request
<1>3. ASSUME NEW t \in Hooks, HookStep(t)
      PROVE  RequestMoves
  <2>1. t \in Tasks /\ t # "request"
        BY <1>1 DEF Tasks
  <2>2. \E new : Become(t, new)
        BY <1>3 DEF HookStep, CheckoutUpsert, MarkCommit, UpdateFetch, UpdateUpsert, UpdateApply, Upsert,
                    Answer, AnswerError
  <2>3. UNCHANGED <<account, inFlight>>
        BY <1>3 DEF HookStep, CheckoutUpsert, MarkCommit, UpdateFetch, UpdateUpsert, UpdateApply
  <2>4. QED
        BY <1>2, <2>1, <2>2, <2>3 DEF RequestMoves
<1>4. ASSUME NEW e \in events, Receive(e)
      PROVE  RequestMoves
  <2>1. Slot \in Hooks
        BY <1>4 DEF Receive, MayStart, Slot
  <2>2. UNCHANGED task \/ \E new : Become(Slot, new)
        BY <1>4 DEF Receive
  <2>3. Request' = Request
        BY <1>1, <1>2, <2>1, <2>2 DEF Request, Tasks
  <2>4. QED
        BY <1>4, <2>3 DEF Receive, Quiet, RequestMoves
<1>5. CASE StartSync \/ SyncStep
  <2>1. \E new : Become("sync", new)
        BY <1>5 DEF StartSync, SyncStep, SyncNext, SyncRead, SyncWrite, SyncDone
  <2>2. UNCHANGED <<account, inFlight>>
        BY <1>5 DEF StartSync, SyncStep, SyncNext, SyncRead, SyncWrite, Quiet
  <2>3. QED
        BY <1>2, <2>1, <2>2 DEF RequestMoves, Tasks
<1>6. ASSUME NEW t \in Tasks, Die(t)  PROVE RequestMoves
  <2>1. Become(t, Idle) /\ UNCHANGED <<account, inFlight>>
        BY <1>6 DEF Die, Quiet
  <2>2. Request' \in {Request, Idle}
        BY <1>1, <2>1 DEF Become, Request
  <2>3. QED
        BY <2>1, <2>2 DEF RequestMoves
<1>7. ASSUME NEW s \in Subs, Complete(s) \/ StripeChanges(s)  PROVE RequestMoves
      BY <1>7 DEF Complete, StripeChanges, Change, RequestMoves, Request
<1>8. ASSUME NEW new, Become("request", new)  PROVE Request' = new
      BY <1>1, <1>8 DEF Become, Request
<1>9. ASSUME NEW p \in Plans, Subscribe(p)  PROVE RequestMoves
  <2>1. \E new : new.pc \in {"next", "decide"} /\ Become("request", new)
    <3>1. PICK new : new = [Idle EXCEPT !.kind = "subscribe", !.want = p, !.held = rows["user"]]
          OBVIOUS
    <3>2. PICK asked : asked = [new EXCEPT !.pc = "decide"]
          OBVIOUS
    <3>3. PICK synced : synced = [new EXCEPT !.pc = "next", !.todo = {<<"user", rows["user"].sub>>}]
          OBVIOUS
    <3>4. asked.pc = "decide" /\ synced.pc = "next"
          BY <3>1, <3>2, <3>3 DEF Idle
    <3>5. Become("request", asked) \/ Become("request", synced)
          BY <1>9, <3>1, <3>2, <3>3 DEF Subscribe
    <3>6. QED
          BY <3>4, <3>5
  <2>2. account = "live" /\ UNCHANGED <<account, inFlight>>
        BY <1>9 DEF Subscribe, Quiet
  <2>3. QED
        BY <1>8, <2>1, <2>2 DEF RequestMoves
<1>10. CASE SyncNext("request") \/ SyncRead("request") \/ SyncWrite("request")
  <2>1. PICK mine : mine = task["request"]
        OBVIOUS
  <2>2. /\ mine \in TaskRec /\ Request.pc \in {"next", "sync", "overwrite"}
        /\ UNCHANGED <<account, inFlight>>
        BY <1>1, <1>10, <2>1 DEF SyncNext, SyncRead, SyncWrite, Quiet, Request
  <2>3. account = "live"
        BY <2>2 DEF SubInv, SubTypeOK, DeletionTrue
  <2>4. CASE Become("request", Idle)
        BY <1>8, <2>2, <2>4 DEF RequestMoves
  <2>5. ASSUME NEW new, new.pc \in {"next", "sync", "overwrite", "decide"}, Become("request", new)
        PROVE  RequestMoves
        BY <1>8, <2>2, <2>3, <2>5 DEF RequestMoves
  <2>6. ASSUME NEW ref, Become("request", [mine EXCEPT !.key = ref[1], !.sub = ref[2], !.todo = @ \ {ref},
                                                       !.snap = stripe[ref[2]], !.pc = "sync"])
        PROVE  RequestMoves
    <3>1. PICK new : new = [mine EXCEPT !.key = ref[1], !.sub = ref[2], !.todo = @ \ {ref},
                                        !.snap = stripe[ref[2]], !.pc = "sync"]
          OBVIOUS
    <3>2. new.pc = "sync"
          BY <2>2, <3>1 DEF TaskRec
    <3>3. Become("request", new)
          BY <2>6, <3>1
    <3>4. QED
          BY <2>5, <3>2, <3>3
  <2>7. ASSUME NEW row, Become("request", [mine EXCEPT !.pc = "overwrite", !.loaded = row])
        PROVE  RequestMoves
    <3>1. PICK new : new = [mine EXCEPT !.pc = "overwrite", !.loaded = row]
          OBVIOUS
    <3>2. new.pc = "overwrite"
          BY <2>2, <3>1 DEF TaskRec
    <3>3. Become("request", new)
          BY <2>7, <3>1
    <3>4. QED
          BY <2>5, <3>2, <3>3
  <2>8. CASE SyncDone("request")
    <3>1. PICK new : new = [mine EXCEPT !.pc = "decide", !.sub = 0, !.key = "user", !.snap = NoSub,
                                        !.loaded = NoRow]
          OBVIOUS
    <3>2. new.pc = "decide"
          BY <2>2, <3>1 DEF TaskRec
    <3>3. Become("request", new)
          BY <2>1, <2>8, <3>1 DEF SyncDone
    <3>4. QED
          BY <2>5, <3>2, <3>3
  <2>9. QED
        BY <1>10, <2>1, <2>4, <2>6, <2>7, <2>8 DEF SyncNext, SyncRead, SyncWrite
<1>11. CASE SubscribeDecide
       BY <1>8, <1>11 DEF SubscribeDecide, Quiet, RequestMoves
<1>12. QED
       BY <1>3, <1>4, <1>5, <1>6, <1>7, <1>9, <1>10, <1>11 DEF SubNext, RequestStep, RequestMoves

LEMMA AccountEnds == ASSUME SubInv, SubNext  PROVE account' \in {account, "deleted"}
BY RequestMoved DEF RequestMoves, DeleteAccount, DeleteCancel, DeleteAnonymize

LEMMA GoneStep == ASSUME SubInv, RowsMove, account' \in {account, "deleted"}
                  PROVE  account' = "live" => rows'["gone"] = NoRow
<1>1. CASE account' = "deleted"
      BY <1>1
<1>2. CASE account = "live" /\ account' = "live"
  <2>1. rows["gone"] = NoRow
        BY <1>2 DEF SubInv, DeletionTrue
  <2>2. "gone" \in Keys
        BY DEF Keys
  <2>3. QED
        BY <1>2, <2>1, <2>2 DEF RowsMove, RowMoves, Stays, Follows
<1>3. QED
      BY <1>1, <1>2 DEF SubInv, SubTypeOK

\* No new checkout while the account is being deleted or is gone
LEMMA InFlightLasts ==
    ASSUME StripeGrows, UNCHANGED inFlight, Request.pc # "decide", OnlyInFlight
    PROVE  OnlyInFlight'
BY DEF StripeGrows, OnlyInFlight

LEMMA DeletionStep ==
    ASSUME SubInv, SubNext
    PROVE  DeletionTrue' /\ account' \in {"live", "deleted"} /\ inFlight' \subseteq Subs
<1>1. StripeGrows /\ RowsMove /\ RequestMoves
      BY StripeStep, RowsStep, RequestMoved
<1>2. account \in {"live", "deleted"} /\ inFlight \subseteq Subs
      BY DEF SubInv, SubTypeOK
<1>3. /\ "request" \in Tasks /\ Request \in TaskRec /\ Request.loaded \in Rows
      /\ rows["user"] \in Rows /\ stripe \in [Subs -> StripeRec]
      BY DEF Tasks, Request, SubInv, TasksTyped, SubTypeOK, Keys
<1>4. \A s : /\ (Over(s) => Over(s)') /\ (Completed(s) => Completed(s)')
             /\ s \in Subs /\ Request.pc # "decide" /\ Billable(s)' => Billable(s)
      BY <1>1, Lasting DEF StripeGrows
<1>5. CASE Request' = Request /\ UNCHANGED <<account, inFlight>>
  <2>1. PICK mine : mine = Request
        OBVIOUS
  <2>2. mine.pc = "cancel" =>
          /\ account = "live"
          /\ \A s \in Subs : Billable(s)' => s \in inFlight \/ (Cancels(mine.loaded) /\ s = mine.loaded.sub)
          /\ mine.loaded # NoRow => Completed(mine.loaded.sub)'
        BY <1>4, <2>1 DEF SubInv, DeletionTrue
  <2>3. mine.pc = "anonymize" => account = "live" /\ OnlyInFlight'
        BY <1>1, <1>5, <2>1, InFlightLasts DEF SubInv, DeletionTrue
  <2>4. account = "deleted" => mine.pc = "idle" /\ OnlyInFlight'
        BY <1>1, <1>5, <2>1, InFlightLasts DEF SubInv, DeletionTrue
  <2>5. account' = "live" => rows'["gone"] = NoRow
        BY <1>1, <1>5, GoneStep
  <2>6. mine = Request'
        BY <1>5, <2>1
  <2>7. QED
        BY <1>2, <1>5, <2>2, <2>3, <2>4, <2>5, <2>6 DEF DeletionTrue, Completed, Billable
<1>6. CASE Request' = Idle /\ UNCHANGED <<account, inFlight>>
  <2>1. Request'.pc = "idle"
        BY <1>6 DEF Idle
  <2>2. account = "deleted" => OnlyInFlight'
        BY <1>1, <1>6, InFlightLasts DEF SubInv, DeletionTrue
  <2>3. account' = "live" => rows'["gone"] = NoRow
        BY <1>1, <1>6, GoneStep
  <2>4. QED
        BY <1>2, <1>6, <2>1, <2>2, <2>3 DEF DeletionTrue
<1>7. CASE /\ Request'.pc \in {"next", "sync", "overwrite", "decide"}
           /\ account = "live" /\ UNCHANGED <<account, inFlight>>
  <2>1. rows'["gone"] = NoRow
        BY <1>1, <1>7, GoneStep
  <2>2. QED
        BY <1>2, <1>7, <2>1 DEF DeletionTrue
<1>8. CASE DeleteAccount
  <2>1. PICK row : row = rows["user"]
        OBVIOUS
  <2>2. /\ account = "live" /\ UNCHANGED <<stripe, rows, account>>
        /\ inFlight' = {s \in Subs : \/ stripe[s].status \in {"open", "open_trial"}
                                     \/ s \in unheard \cup ousted
                                     \/ "user" \in crossed /\ row.sub = s}
        BY <1>8, <2>1 DEF DeleteAccount
  <2>3. PICK new : new = [Idle EXCEPT !.kind = "delete", !.pc = "cancel", !.loaded = row]
        OBVIOUS
  <2>4. new.pc = "cancel" /\ new.loaded = row /\ Request' = new
        BY <1>3, <1>8, <2>1, <2>3 DEF DeleteAccount, Become, Request, Idle, SubInv, TasksTyped
  <2>5. ASSUME NEW s \in Subs, Billable(s)
        PROVE  s \in inFlight' \/ (Cancels(row) /\ s = row.sub)
    <3>1. CASE stripe[s].status \in {"open", "open_trial"} \/ s \in unheard \cup ousted
          BY <2>2, <3>1
    <3>2. CASE stripe[s].status \in Live /\ s \notin unheard \cup ousted
      <4>1. row.sub = s
            BY <2>1, <2>2, <3>2 DEF SubInv, ServedWhilePaying
      <4>2. row \in FullRows /\ row # NoRow
            BY <1>3, <2>1, <4>1, RowIsFull DEF NoRow, Subs
      <4>3. CASE row.status \in Live
            BY <4>1, <4>2, <4>3 DEF Cancels
      <4>4. CASE row.status = "canceled"
        <5>1. stripe[s].status \notin Ended
              BY <3>2 DEF Live, Ended
        <5>2. "user" \in crossed
              BY <2>1, <4>1, <4>2, <4>4, <5>1 DEF SubInv, CutOffRightly, Keys
        <5>3. QED
              BY <2>2, <4>1, <5>2
      <4>5. QED
            BY <4>2, <4>3, <4>4 DEF FullRows, Statuses
    <3>3. QED
          BY <2>5, <3>1, <3>2 DEF Billable
  <2>6. row # NoRow => Completed(row.sub)
        BY <2>1 DEF SubInv, RowsTrue, RowTrue, Keys
  <2>7. rows'["gone"] = NoRow
        BY <2>2 DEF SubInv, DeletionTrue
  <2>8. QED
        BY <1>2, <2>2, <2>4, <2>5, <2>6, <2>7 DEF DeletionTrue, Completed, Billable
<1>9. CASE DeleteCancel
  <2>1. PICK row : row = Request.loaded
        OBVIOUS
  <2>2. /\ Request.pc = "cancel" /\ account = "live" /\ UNCHANGED <<rows, account, inFlight>>
        /\ \A s \in Subs : Billable(s) => s \in inFlight \/ (Cancels(row) /\ s = row.sub)
        /\ row # NoRow => Completed(row.sub)
        BY <1>9, <2>1 DEF DeleteCancel, Quiet, Request, SubInv, DeletionTrue
  <2>3. Request'.pc = "anonymize"
    <3>1. PICK new : new = [Request EXCEPT !.pc = "anonymize"]
          OBVIOUS
    <3>2. new.pc = "anonymize"
          BY <1>3, <3>1 DEF TaskRec
    <3>3. Request' = new
          BY <1>3, <1>9, <3>1 DEF DeleteCancel, Become, Request, SubInv, TasksTyped
    <3>4. QED
          BY <3>2, <3>3
  <2>4. Cancels(row) => row.sub \in Subs /\ Completed(row.sub)
        BY <1>3, <2>1, <2>2, RowIsFull DEF Cancels
  <2>5. Cancels(row) => ~ Billable(row.sub)'
    <3>1. CASE Cancels(row) /\ stripe[row.sub].status \in Live
      <4>1. stripe' = [stripe EXCEPT ![row.sub].status = "canceled"]
            BY <1>9, <2>1, <3>1 DEF DeleteCancel, Request
      <4>2. stripe'[row.sub].status = "canceled"
            BY <1>3, <2>4, <3>1, <4>1 DEF StripeRec
      <4>3. QED
            BY <4>2 DEF Billable, Live
    <3>2. CASE Cancels(row) /\ stripe[row.sub].status \notin Live
      <4>1. UNCHANGED stripe
            BY <1>9, <2>1, <3>2 DEF DeleteCancel, Request
      <4>2. stripe[row.sub].status \in Ended
            BY <2>4, <3>2 DEF Completed, Statuses, Ended
      <4>3. QED
            BY <4>1, <4>2 DEF Billable, Live, Ended
    <3>3. QED
          BY <3>1, <3>2
  <2>6. OnlyInFlight'
    <3>1. ASSUME NEW s \in Subs, Billable(s)'
          PROVE  s \in inFlight
      <4>1. Billable(s)
            BY <1>4, <2>2, <3>1
      <4>2. QED
            BY <2>2, <2>5, <3>1, <4>1
    <3>2. QED
          BY <2>2, <3>1 DEF OnlyInFlight
  <2>7. rows'["gone"] = NoRow
        BY <2>2 DEF SubInv, DeletionTrue
  <2>8. QED
        BY <1>2, <2>2, <2>3, <2>6, <2>7 DEF DeletionTrue
<1>10. CASE DeleteAnonymize
  <2>1. Request.pc = "anonymize" /\ account' = "deleted" /\ UNCHANGED <<stripe, inFlight>>
        BY <1>10 DEF DeleteAnonymize, Request
  <2>2. OnlyInFlight
        BY <2>1 DEF SubInv, DeletionTrue
  <2>3. OnlyInFlight'
        BY <1>1, <2>1, <2>2, InFlightLasts
  <2>4. Request'.pc = "idle"
        BY <1>3, <1>10 DEF DeleteAnonymize, Become, Request, Idle, SubInv, TasksTyped
  <2>5. QED
        BY <1>2, <2>1, <2>3, <2>4 DEF DeletionTrue
<1>11. QED
       BY <1>1, <1>5, <1>6, <1>7, <1>8, <1>9, <1>10 DEF RequestMoves

LEMMA SubTypeStep ==
    ASSUME SubInv, SubNext
    PROVE  SubTypeOK'
<1>1. StripeGrows /\ RowsMove /\ events' \subseteq EventRec
      BY StripeStep, RowsStep, EventsStep
<1>2. account' \in {"live", "deleted"} /\ inFlight' \subseteq Subs /\ task' \in [Tasks -> TaskRec]
      BY DeletionStep, TasksStep DEF TasksTyped
<1>3. ASSUME NEW t \in Tasks
      PROVE  /\ task'[t].held \in Rows /\ task'[t].loaded \in Rows
             /\ task'[t].sub \in Subs \cup {0} /\ task'[t].key \in Keys
             /\ task'[t].todo \subseteq Keys \X Subs
  <2>1. task'[t] \in TaskRec
        BY <1>2
  <2>2. QED
        BY <2>1 DEF TaskRec
<1>4. QED
      BY <1>1, <1>2, <1>3 DEF SubTypeOK, StripeGrows, StripeRec, RowsMove, EventRec, EventTypes

LEMMA SubStep == SubInv /\ [SubNext]_subVars => SubInv'
<1> SUFFICES ASSUME SubInv, [SubNext]_subVars  PROVE SubInv'
    OBVIOUS
<1>1. CASE SubNext
  <2>1. SubTypeOK' /\ TasksTyped' /\ ReadsTrue' /\ EventsTrue' /\ DeletionTrue'
        BY <1>1, SubTypeStep, TasksStep, EventsStep, DeletionStep
  <2>2. RowsTrue' /\ CutOffRightly'
        BY <1>1, StripeStep, RowsStep, RowsTrueStep
  <2>3. ServedWhilePaying'
        BY <1>1, StripeStep, RowsStep, AccountEnds, ServedStep
  <2>4. QED
        BY <2>1, <2>2, <2>3 DEF SubInv
<1>2. CASE UNCHANGED subVars
      BY <1>2 DEF subVars, SubInv, SubTypeOK, TasksTyped, EventsTrue, EventTrue, RowsTrue, RowTrue,
         ReadsTrue, ReadTrue, HookTrue, Completed, Over, Billable, CutOffRightly, ServedWhilePaying,
         DeletionTrue, OnlyInFlight, Request
<1>3. QED
      BY <1>1, <1>2

\* What Stripe, the webhooks under way, the row and the tasks say of one another,
\* through every interleaving, for any number of checkouts, plans, deliveries,
\* missed and repeated webhooks and dying handlers.
THEOREM SubscriptionInvariant == SubSpec => []SubInv
<1>1. SubInit => SubInv
      BY SubInitHolds
<1>2. QED
      BY <1>1, SubStep, PTL DEF SubSpec

\* Nobody who pays is cut off, the row names what is paid for, and nobody is billed
\* after the deletion, whatever handlers overlap and whichever of them read the row
\* before another wrote it.  The exceptions are those the three parts name: a row
\* written by a handler that had read it of another subscription, until it is
\* reconciled; a checkout not yet delivered; and a subscription whose row another
\* one's webhook took over.
THEOREM BilledRightlyHolds == SubSpec => []BilledRightly
<1>1. SubInv => BilledRightly
  <2> SUFFICES ASSUME SubInv  PROVE BilledRightly
      OBVIOUS
  <2>1. DeletionStopsBilling
        BY DEF SubInv, DeletionTrue, OnlyInFlight, Billable, DeletionStopsBilling
  <2>2. QED
        BY <2>1 DEF SubInv, BilledRightly
<1>2. QED
      BY <1>1, SubscriptionInvariant, PTL

\* No step forgets a payment: neither an upsert of another subscription, nor a
\* handler that writes back an old row, nor the sync, nor the deletion.
THEOREM PaymentsAreRemembered == SubSpec => PaidNeverForgotten
<1>1. ASSUME SubInv, SubNext, NEW k \in Keys, rows[k] # NoRow, rows'[k] # NoRow, rows[k].paid
      PROVE  rows'[k].paid
  <2>1. RowsMove
        BY <1>1, RowsStep
  <2>2. CASE k = "gone" /\ Request.pc = "anonymize"
        BY <1>1, <2>2 DEF SubInv, DeletionTrue
  <2>3. QED
        BY <1>1, <2>1, <2>2 DEF RowsMove, RowMoves, Stays, Follows
<1>2. SubInv /\ [SubNext]_subVars =>
        [\A k \in Keys : rows[k] # NoRow /\ rows'[k] # NoRow /\ rows[k].paid => rows'[k].paid]_subVars
      BY <1>1
<1>3. QED
      BY <1>2, SubscriptionInvariant, PTL DEF SubSpec, PaidNeverForgotten
=============================================================================
