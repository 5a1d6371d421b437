--------------------------- MODULE BillingConsumer ---------------------------
(***************************************************************************)
(* The cold path: yapit/gateway/billing_consumer.py reads billing events   *)
(* from the Redis stream tts:billing:stream through a consumer group and   *)
(* charges them with record_usage (yapit/gateway/usage.py), whose UsageLog *)
(* row with a unique event_id is the dedup gate. Every gateway process     *)
(* runs one consumer, all under the same consumer name, and a deployment   *)
(* lets two processes overlap. One action per Redis command or Postgres    *)
(* transaction.                                                            *)
(***************************************************************************)
EXTENDS Integers, FiniteSets

CONSTANTS
    NumEntries,   \* bound on the entries ever added to the stream
    Events,       \* job ids: the event_id of a billing event
    Users,
    EventOf,      \* [1..NumEntries -> Events]; two entries may carry one event
    UserOf,       \* [Events -> Users]
    Poison,       \* entries whose data does not parse
    Consumers,    \* gateway processes
    MaxBatch,     \* MAX_BATCH
    MaxFaults     \* bound on failed batches, crashes and resets together

Entries == 1 .. NumEntries

ASSUME BillingAssumption ==
    /\ NumEntries \in Nat
    /\ EventOf \in [Entries -> Events]
    /\ UserOf \in [Events -> Users]
    /\ Poison \subseteq Entries
    /\ MaxBatch \in Nat \ {0}
    /\ MaxFaults \in Nat

VARIABLES
    added,        \* entries added so far: 1 .. added, in id order
    stream,       \* entries in the stream
    group,        \* whether the consumer group exists
    delivered,    \* ids up to the group's last-delivered-id
    pel,          \* the group's pending entries list, all under the one name
    usageLog,     \* event_ids in UsageLog
    charged,      \* how often each event was charged to its user's tiers
    bpc, recovered, batch, blank, acking,    \* each consumer's locals
    fails,        \* whether a batch failed in a running process
    faults,
    overlooked    \* history: what was pending when a recovery stopped at a page
                  \* with nothing to bill

redisVars    == <<added, stream, group, delivered, pel>>
postgresVars == <<usageLog, charged>>
faultVars    == <<fails, faults>>
vars == <<added, stream, group, delivered, pel, usageLog, charged, bpc, recovered,
          batch, blank, acking, fails, faults, overlooked>>

Init ==
    /\ added = 0
    /\ stream = {}
    /\ group = FALSE
    /\ delivered = {}
    /\ pel = {}
    /\ usageLog = {}
    /\ charged = [ev \in Events |-> 0]
    /\ bpc = [c \in Consumers |-> "start"]
    /\ recovered = [c \in Consumers |-> FALSE]
    /\ batch = [c \in Consumers |-> {}]
    /\ blank = [c \in Consumers |-> {}]
    /\ acking = [c \in Consumers |-> {}]
    /\ fails = FALSE
    /\ faults = 0
    /\ overlooked = {}

\* A COUNT MAX_BATCH read of the entries in S: the first ones, as many as fit
Page(S, page) ==
    /\ page \subseteq S
    /\ page # {}
    /\ \A x \in page : \A y \in S : y < x => y \in page
    /\ page = S \/ Cardinality(page) = MaxBatch
    /\ Cardinality(page) <= MaxBatch

Goto(c, pc) == bpc' = [bpc EXCEPT ![c] = pc]

\* XADD by the result consumer
AddEvent ==
    /\ added < NumEntries
    /\ added' = added + 1
    /\ stream' = stream \cup {added + 1}
    /\ UNCHANGED <<group, delivered, pel, postgresVars, faultVars>>
    /\ UNCHANGED <<bpc, recovered, batch, blank, acking, overlooked>>

\* Mutant of EnsureGroup: the group starts at $, after the entries there are
EnsureGroupAtEnd(c) ==
    /\ \/ bpc[c] = "start" /\ Goto(c, "recover")
       \/ bpc[c] = "collect" /\ ~group /\ UNCHANGED bpc      \* NOGROUP: re-create, read again
    /\ group' = TRUE
    /\ delivered' = IF group THEN delivered ELSE 1 .. added
    /\ UNCHANGED <<added, stream, pel, postgresVars, faultVars>>
    /\ UNCHANGED <<recovered, batch, blank, acking, overlooked>>

\* XGROUP CREATE at id 0; BUSYGROUP is fine
EnsureGroup(c) ==
    /\ \/ bpc[c] = "start" /\ Goto(c, "recover")
       \/ bpc[c] = "collect" /\ ~group /\ UNCHANGED bpc      \* NOGROUP: re-create, read again
    /\ group' = TRUE
    /\ delivered' = IF group THEN delivered ELSE {}
    /\ UNCHANGED <<added, stream, pel, postgresVars, faultVars>>
    /\ UNCHANGED <<recovered, batch, blank, acking, overlooked>>

\* Mutant of ReadPending: nothing is recovered
ReadPendingSkipped(c) ==
    /\ bpc[c] = "recover"
    /\ group
    /\ recovered' = [recovered EXCEPT ![c] = TRUE]
    /\ Goto(c, "collect")
    /\ UNCHANGED <<redisVars, postgresVars, faultVars, batch, blank, acking, overlooked>>

\* XREADGROUP from 0: a page of the pending entries of earlier crashes.  One that was
\* deleted from the stream comes without its fields.
ReadPending(c) ==
    /\ bpc[c] = "recover"
    /\ group
    /\ \/ /\ pel = {}
          /\ recovered' = [recovered EXCEPT ![c] = TRUE]
          /\ Goto(c, "collect")
          /\ UNCHANGED <<batch, blank>>
       \/ /\ \E page \in SUBSET pel :
                /\ Page(pel, page)
                /\ batch' = [batch EXCEPT ![c] = page]
                /\ blank' = [blank EXCEPT ![c] = page \ stream]
          /\ Goto(c, "parse")
          /\ UNCHANGED recovered
    /\ UNCHANGED <<redisVars, postgresVars, faultVars, acking, overlooked>>

\* The group vanished before it was read: the error restarts the recovery
ReadPendingNoGroup(c) ==
    /\ bpc[c] = "recover"
    /\ ~group
    /\ Goto(c, "start")
    /\ UNCHANGED <<redisVars, postgresVars, faultVars, recovered, batch, blank, acking, overlooked>>

\* XREADGROUP from >: the next page never delivered, which becomes pending
ReadNew(c) ==
    /\ bpc[c] = "collect"
    /\ group
    /\ \E page \in SUBSET (stream \ delivered) :
          /\ Page(stream \ delivered, page)
          /\ delivered' = delivered \cup {e \in 1 .. added : \E x \in page : e <= x}
          /\ pel' = pel \cup page
          /\ batch' = [batch EXCEPT ![c] = page]
    /\ Goto(c, "parse")
    /\ UNCHANGED <<added, stream, group, postgresVars, faultVars, recovered, blank, acking, overlooked>>

\* The entries of a batch that _parse_entries cannot use
Unusable(c) == batch[c] \cap (Poison \cup blank[c])

\* _parse_entries acks them and drops them
FindPoison(c, e) ==
    /\ bpc[c] = "parse"
    /\ e \in Unusable(c)
    /\ acking' = [acking EXCEPT ![c] = {e}]
    /\ Goto(c, "ackPoison")
    /\ UNCHANGED <<redisVars, postgresVars, faultVars, recovered, batch, blank, overlooked>>

\* An empty parsed batch ends the recovery, whatever is pending after that page, or
\* the pass of the loop
ParseDone(c) ==
    /\ bpc[c] = "parse"
    /\ Unusable(c) = {}
    /\ \/ /\ batch[c] = {}
          /\ recovered' = [recovered EXCEPT ![c] = TRUE]
          /\ Goto(c, "collect")
       \/ /\ batch[c] # {}
          /\ Goto(c, "bill")
          /\ UNCHANGED recovered
    /\ blank' = [blank EXCEPT ![c] = {}]
    /\ overlooked' = IF batch[c] = {} /\ ~ recovered[c] THEN overlooked \cup pel ELSE overlooked
    /\ UNCHANGED <<redisVars, postgresVars, faultVars, batch, acking>>

\* Mutant of BillUser: the conflict on event_id is not looked at
BillUserNoDedup(c, u) ==
    /\ bpc[c] = "bill"
    /\ LET mine == {e \in batch[c] : UserOf[EventOf[e]] = u}
           new  == {EventOf[e] : e \in mine} \ usageLog
       IN  /\ mine # {}
           /\ usageLog' = usageLog \cup new
           /\ charged' = [ev \in Events |-> IF ev \in {EventOf[e] : e \in mine} THEN charged[ev] + 1 ELSE charged[ev]]
           /\ acking' = [acking EXCEPT ![c] = mine]
    /\ Goto(c, "ack")
    /\ UNCHANGED <<redisVars, faultVars, recovered, batch, blank, overlooked>>

\* One transaction per user: insert the log rows, charge those that were new
BillUser(c, u) ==
    /\ bpc[c] = "bill"
    /\ LET mine == {e \in batch[c] : UserOf[EventOf[e]] = u}
           new  == {EventOf[e] : e \in mine} \ usageLog
       IN  /\ mine # {}
           /\ usageLog' = usageLog \cup new
           /\ charged' = [ev \in Events |-> IF ev \in new THEN charged[ev] + 1 ELSE charged[ev]]
           /\ acking' = [acking EXCEPT ![c] = mine]
    /\ Goto(c, "ack")
    /\ UNCHANGED <<redisVars, faultVars, recovered, batch, blank, overlooked>>

\* XACK, then XDEL
Ack(c) ==
    /\ bpc[c] \in {"ack", "ackPoison"}
    /\ pel' = pel \ acking[c]
    /\ Goto(c, IF bpc[c] = "ack" THEN "del" ELSE "delPoison")
    /\ UNCHANGED <<added, stream, group, delivered, postgresVars, faultVars>>
    /\ UNCHANGED <<recovered, batch, blank, acking, overlooked>>

Delete(c) ==
    /\ bpc[c] \in {"del", "delPoison"}
    /\ stream' = stream \ acking[c]
    /\ batch' = [batch EXCEPT ![c] = @ \ acking[c]]
    /\ acking' = [acking EXCEPT ![c] = {}]
    /\ \/ bpc[c] = "delPoison" /\ Goto(c, "parse")
       \/ bpc[c] = "del" /\ batch'[c] # {} /\ Goto(c, "bill")
       \/ bpc[c] = "del" /\ batch'[c] = {} /\ Goto(c, IF recovered[c] THEN "collect" ELSE "recover")
    /\ UNCHANGED <<added, group, delivered, pel, postgresVars, faultVars, recovered, blank, overlooked>>

Fault == faults < MaxFaults /\ faults' = faults + 1

Drop(c) ==
    /\ batch' = [batch EXCEPT ![c] = {}]
    /\ blank' = [blank EXCEPT ![c] = {}]
    /\ acking' = [acking EXCEPT ![c] = {}]

\* Redis or Postgres raises: the loop drops its batch, backs off and goes on
Fail(c) ==
    /\ bpc[c] \notin {"start", "collect"}
    /\ Fault
    /\ fails' = TRUE
    /\ Drop(c)
    /\ Goto(c, IF recovered[c] THEN "collect" ELSE "start")
    /\ UNCHANGED <<redisVars, postgresVars, recovered, overlooked>>

\* The gateway process dies and is started again
Crash(c) ==
    /\ Fault
    /\ Drop(c)
    /\ recovered' = [recovered EXCEPT ![c] = FALSE]
    /\ Goto(c, "start")
    /\ UNCHANGED <<redisVars, postgresVars, fails, overlooked>>

\* Redis restarts without the group; the append-only file may not have reached
\* the last deletions
ResetRedis ==
    /\ Fault
    /\ group' = FALSE
    /\ delivered' = {}
    /\ pel' = {}
    /\ \E back \in SUBSET (1 .. added) : stream' = stream \cup back
    /\ UNCHANGED <<added, postgresVars, fails, bpc, recovered, batch, blank, acking, overlooked>>

ConsumerStep(c) ==
    \/ EnsureGroup(c) \/ ReadPending(c) \/ ReadPendingNoGroup(c) \/ ReadNew(c)
    \/ \E e \in Entries : FindPoison(c, e)
    \/ ParseDone(c)
    \/ \E u \in Users : BillUser(c, u)
    \/ Ack(c) \/ Delete(c)

Next ==
    \/ AddEvent
    \/ \E c \in Consumers : ConsumerStep(c) \/ Fail(c) \/ Crash(c)
    \/ ResetRedis

Spec == Init /\ [][Next]_vars

\* The consumer loop is supervised for the life of its process
FairSpec == Spec /\ \A c \in Consumers : WF_vars(ConsumerStep(c))

-----------------------------------------------------------------------------
\* The values of every variable; what a consumer acks is part of its batch
TypeOK ==
    /\ added \in 0 .. NumEntries
    /\ stream \subseteq 1 .. added
    /\ group \in BOOLEAN
    /\ delivered \subseteq 1 .. added
    /\ pel \subseteq delivered
    /\ ~group => delivered = {}
    /\ usageLog \subseteq Events
    /\ charged \in [Events -> Nat]
    /\ bpc \in [Consumers -> {"start", "recover", "collect", "parse", "bill",
                              "ack", "del", "ackPoison", "delPoison"}]
    /\ recovered \in [Consumers -> BOOLEAN]
    /\ batch \in [Consumers -> SUBSET (1 .. added)]
    /\ blank \in [Consumers -> SUBSET (1 .. added)]
    /\ acking \in [Consumers -> SUBSET Entries]
    /\ overlooked \subseteq 1 .. added
    /\ \A c \in Consumers : acking[c] \subseteq batch[c]
    /\ \A c \in Consumers : bpc[c] \in {"start", "recover", "collect"} => batch[c] = {}
    /\ fails \in BOOLEAN /\ faults \in 0 .. MaxFaults

Settled(e) == e \in Poison \/ EventOf[e] \in usageLog

\* However two consumers, crashes and redeliveries interleave, an event is charged
\* at most once.
ChargedOnce == \A ev \in Events : charged[ev] <= 1

\* An entry leaves the stream only after its event was charged (or did not parse).
DeletedOnlySettled == \A e \in 1 .. added : e \notin stream => Settled(e)

\* An event that was delivered and not charged is still pending, so that the next
\* recovery finds it.
UnbilledStaysPending ==
    \A e \in stream \cap delivered : Settled(e) \/ e \in pel

\* The log row and the charge are one transaction
LogMatchesCharges ==
    \A ev \in Events : charged[ev] = IF ev \in usageLog THEN 1 ELSE 0

\* What a consumer is about to ack, or cannot use, needs no billing any more
AckingSettled == \A c \in Consumers : \A e \in acking[c] \cup blank[c] : Settled(e)

\* At every await of consume_once the log rows and the charges agree, nothing
\* uncharged has left the stream, the pending list or a consumer's hands without
\* being settled, and what a consumer is about to ack is settled. It is inductive.
BillingInv ==
    /\ TypeOK
    /\ LogMatchesCharges
    /\ AckingSettled
    /\ DeletedOnlySettled
    /\ UnbilledStaysPending

\* The consumer implements the ledger: it charges new events only, each batch of a
\* user at once.
Ledger == INSTANCE BillingLedger WITH ledger <- charged
ImplementsLedger == Ledger!Spec

\* When no more is added, every event in the stream has been charged in the end,
\* through crashes, lost groups and poison entries around it, unless a batch failed in
\* a running process or a recovery stopped at a page with nothing to bill while the
\* event was pending.
EveryEventBilledUnlessFailed ==
    <>[](\A e \in 1 .. added : Settled(e) \/ fails \/ e \in overlooked)
=============================================================================
