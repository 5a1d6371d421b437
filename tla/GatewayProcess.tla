--------------------------- MODULE GatewayProcess ---------------------------
(***************************************************************************)
(* The life of a gateway process as its metrics show it: the supervised    *)
(* background loops (yapit/gateway/supervision.py), the writer that buffers *)
(* events for TimescaleDB (yapit/gateway/metrics.py) and the shutdown half *)
(* of lifespan (yapit/gateway/__init__.py).  The metrics database is        *)
(* configured: without it nothing is queued and no writer runs.            *)
(*                                                                         *)
(* Everything between two awaits of the writer is one step.  Time is in    *)
(* the choices: a retry delay that has passed, an hour without a write.    *)
(***************************************************************************)
EXTENDS Integers, Sequences, FiniteSets

CONSTANTS
    Loops,        \* background loops of lifespan
    Events,       \* what requests and loops log, each once
    Poison,       \* the events the table refuses (a value of the wrong type)
    MaxPending,   \* MAX_PENDING_EVENTS
    MaxOutages    \* bound on outages of the database and on lost replies

ASSUME GatewayProcessAssumption ==
    /\ Poison \subseteq Events
    /\ MaxPending \in Nat \ {0}
    /\ MaxOutages \in Nat

VARIABLES
    phase,        \* "serving", then the steps of the shutdown
    loops,        \* [Loops -> "running", "dead" or "ended"]
    unsent,       \* _write_queue
    pending,      \* the writer's bounded deque
    dropped,      \* the writer's count of events its deque pushed out
    outage,       \* down_since is set
    pool,         \* _pool is there
    dbUp,
    writer,       \* "waiting", "writing" or "ended"
    due,          \* HEARTBEAT_INTERVAL_S since the last write
    table,        \* metrics_event
    outages, recoveries,
    \* history, read by the properties only
    logged,       \* the events ever put on the queue
    told,         \* the drops that recovery warnings reported
    stopFault     \* a write of the shutdown failed, or found no pool

processVars == <<phase, loops, unsent, pending, dropped, outage, pool, dbUp, writer, due,
                 table, outages, recoveries, logged, told, stopFault>>
writerVars == <<pending, dropped, outage, pool, writer, due, table, recoveries, told>>

Heartbeat == [kind |-> "heartbeat"]
Died(l) == [kind |-> "error", loop |-> l]
Logged(e) == [kind |-> "event", event |-> e]
Recovered(n) == [kind |-> "warning", recovery |-> n]

SeqItems(s) == {s[i] : i \in 1 .. Len(s)}
Refused(s) == \E e \in Poison : Logged(e) \in SeqItems(s)

\* A database that is down at startup leaves no pool, and the writer retries
ProcessIdle ==
    /\ phase = "serving"
    /\ loops = [l \in Loops |-> "running"]
    /\ unsent = <<>> /\ pending = <<>> /\ dropped = 0
    /\ outage = FALSE
    /\ dbUp \in BOOLEAN
    /\ pool = dbUp
    /\ writer = "waiting"
    /\ table = {}
    /\ outages = IF dbUp THEN 0 ELSE 1
    /\ recoveries = 0 /\ logged = {} /\ told = 0 /\ stopFault = FALSE

\* last_write is minus infinity: the first idle round writes a heartbeat
ProcessInit == ProcessIdle /\ due = TRUE

-----------------------------------------------------------------------------
\* log_event: put on an unbounded queue
Put(event) ==
    /\ unsent' = Append(unsent, event)
    /\ logged' = logged \cup {event}

LogEvent(e) ==
    /\ phase \in {"serving", "cancelling"}
    /\ Logged(e) \notin logged
    /\ Put(Logged(e))
    /\ UNCHANGED <<phase, loops, dbUp, outages, stopFault, writerVars>>

\* Mutant of LoopDies: a loop ends and nobody hears of it
LoopDiesSilently(l) ==
    /\ phase \in {"serving", "cancelling"}
    /\ loops[l] = "running"
    /\ loops' = [loops EXCEPT ![l] = "dead"]
    /\ UNCHANGED <<phase, unsent, logged, dbUp, outages, stopFault, writerVars>>

\* supervised: an exception, or a return; also of a loop that is being cancelled
LoopDies(l) ==
    /\ phase \in {"serving", "cancelling"}
    /\ loops[l] = "running"
    /\ loops' = [loops EXCEPT ![l] = "dead"]
    /\ Put(Died(l))
    /\ UNCHANGED <<phase, dbUp, outages, stopFault, writerVars>>

-----------------------------------------------------------------------------
\* deque(maxlen): the newest MaxPending stay
Kept(s) == SubSeq(s, IF Len(s) > MaxPending THEN Len(s) - MaxPending + 1 ELSE 1, Len(s))

\* Mutant of PushedOut: one drop is counted per round, not per event
PushedOutOnce(s) == IF Len(s) > MaxPending THEN 1 ELSE 0

PushedOut(s) == IF Len(s) > MaxPending THEN Len(s) - MaxPending ELSE 0

\* A heartbeat when nothing else is there to be written
Beat(s) == IF s = <<>> /\ due THEN <<Heartbeat>> ELSE s

\* One round of _writer_loop up to its write: the queue is drained; a write is
\* tried unless one failed and its retry delay still runs
WriterRound ==
    /\ writer = "waiting"
    /\ \E retry \in BOOLEAN :
         LET all == pending \o unsent IN
         /\ pending' = Beat(Kept(all))
         /\ dropped' = dropped + PushedOut(all)
         /\ unsent' = <<>>
         /\ writer' = IF pending' # <<>> /\ (~outage \/ retry) THEN "writing" ELSE "waiting"
    /\ UNCHANGED <<phase, loops, outage, pool, dbUp, due, table, outages, recoveries,
                   logged, told, stopFault>>

\* The rows are there; the first write after an outage reports what was lost
WriteDone ==
    /\ writer = "writing" /\ dbUp /\ ~Refused(pending)
    /\ pool' = TRUE
    /\ table' = table \cup SeqItems(pending)
    /\ pending' = <<>>
    /\ IF outage
       THEN /\ Put(Recovered(recoveries)) /\ recoveries' = recoveries + 1
            /\ told' = told + dropped /\ dropped' = 0
       ELSE UNCHANGED <<unsent, logged, recoveries, told, dropped>>
    /\ outage' = FALSE
    /\ due' = FALSE
    /\ writer' = "waiting"
    /\ UNCHANGED <<phase, loops, dbUp, outages, stopFault>>

\* Connecting or writing failed: everything stays pending
WriteFails ==
    /\ writer = "writing" /\ (~dbUp \/ Refused(pending))
    /\ outage' = TRUE
    /\ pool' = (pool \/ dbUp)
    /\ writer' = "waiting"
    /\ UNCHANGED <<phase, loops, unsent, pending, dropped, dbUp, due, table, outages,
                   recoveries, logged, told, stopFault>>

\* The rows are there, but the connection broke before the writer knew
ReplyLost ==
    /\ writer = "writing" /\ dbUp /\ pool /\ ~Refused(pending)
    /\ outages < MaxOutages
    /\ outages' = outages + 1
    /\ table' = table \cup SeqItems(pending)
    /\ outage' = TRUE
    /\ writer' = "waiting"
    /\ UNCHANGED <<phase, loops, unsent, pending, dropped, pool, dbUp, due, recoveries,
                   logged, told, stopFault>>

HourPasses ==
    /\ ~due /\ due' = TRUE
    /\ phase = "serving"
    /\ UNCHANGED <<phase, loops, unsent, pending, dropped, outage, pool, dbUp, writer,
                   table, outages, recoveries, logged, told, stopFault>>

DatabaseFails ==
    /\ dbUp /\ outages < MaxOutages
    /\ dbUp' = FALSE
    /\ outages' = outages + 1
    /\ UNCHANGED <<phase, loops, unsent, logged, stopFault, writerVars>>

DatabaseBack ==
    /\ ~dbUp /\ dbUp' = TRUE
    /\ UNCHANGED <<phase, loops, unsent, logged, outages, stopFault, writerVars>>

-----------------------------------------------------------------------------
(* lifespan after its yield                                                 *)

StopServing ==
    /\ phase = "serving"
    /\ phase' = "cancelling"
    /\ UNCHANGED <<loops, unsent, dbUp, outages, logged, stopFault, writerVars>>

\* task.cancel() takes effect at the loop's next await
LoopEnds(l) ==
    /\ phase = "cancelling"
    /\ loops[l] = "running"
    /\ loops' = [loops EXCEPT ![l] = "ended"]
    /\ UNCHANGED <<phase, unsent, dbUp, outages, logged, stopFault, writerVars>>

\* gather, the caches and clients closed, and stop_metrics_writer entered
CancelWriter ==
    /\ phase = "cancelling"
    /\ \A l \in Loops : loops[l] # "running"
    /\ phase' = "last write"
    /\ UNCHANGED <<loops, unsent, dbUp, outages, logged, stopFault, writerVars>>

\* The writer's CancelledError: one more write, whose failure is suppressed
LastWrite ==
    /\ phase = "last write"
    /\ phase' = "flush"
    /\ writer' = "ended"
    /\ IF pending = <<>> THEN UNCHANGED <<table, stopFault>>
       ELSE IF pool /\ dbUp /\ ~Refused(pending)
            THEN table' = table \cup SeqItems(pending) /\ UNCHANGED stopFault
            ELSE stopFault' = TRUE /\ UNCHANGED table
    /\ UNCHANGED <<loops, unsent, pending, dropped, outage, pool, dbUp, due,
                   outages, recoveries, logged, told>>

\* What is still queued is written by stop_metrics_writer itself; an exception
\* there leaves lifespan, and the connections after it are never closed
FlushQueue ==
    /\ phase = "flush"
    /\ IF unsent = <<>> THEN phase' = "stopped" /\ UNCHANGED <<table, stopFault>>
       ELSE IF ~pool THEN phase' = "stopped" /\ stopFault' = TRUE /\ UNCHANGED table
       ELSE IF dbUp /\ ~Refused(unsent)
       THEN phase' = "stopped" /\ table' = table \cup SeqItems(unsent) /\ UNCHANGED stopFault
       ELSE phase' = "aborted" /\ stopFault' = TRUE /\ UNCHANGED table
    /\ pool' = (pool /\ phase' = "aborted")
    /\ UNCHANGED <<loops, unsent, pending, dropped, outage, dbUp, writer, due, outages,
                   recoveries, logged, told>>

WriterStep == phase \in {"serving", "cancelling"} /\ (WriterRound \/ WriteDone \/ WriteFails)

Shutdown == (\E l \in Loops : LoopEnds(l)) \/ CancelWriter \/ LastWrite \/ FlushQueue

ProcessNext ==
    \/ \E e \in Events : LogEvent(e)
    \/ \E l \in Loops : LoopDies(l)
    \/ WriterStep
    \/ phase \in {"serving", "cancelling"} /\ ReplyLost
    \/ HourPasses \/ DatabaseFails \/ DatabaseBack \/ StopServing \/ Shutdown

-----------------------------------------------------------------------------
\* metrics: a shutdown loses no event. Whatever is queued, buffered or being
\* written when the process is told to stop, and what loops log while they end, is
\* in the table, unless it had been pushed out of the buffer, or a write of the
\* shutdown itself failed.
EventsWrittenAtStop ==
    phase = "stopped" /\ ~stopFault
        => Cardinality(logged \ table) <= dropped + told

\* metrics: "oldest dropped first" and counted: across outages, lost replies and
\* recoveries, no more events are missing than the writer counts or reported.
LossNeverUnderstated ==
    phase \in {"serving", "cancelling"} =>
        Cardinality(logged \ (table \cup SeqItems(pending) \cup SeqItems(unsent))) <= dropped + told

\* supervision: the death of a background loop reaches the health report, unless
\* an event the table refuses holds up the writer or the buffer overflowed.
DeathReported ==
    \A l \in Loops : loops[l] = "dead" ~>
        \/ Died(l) \in table
        \/ stopFault \/ dropped + told > 0 \/ Refused(pending)

\* metrics: a live writer never leaves the table quiet for good once the database
\* answers, unless an event the table refuses is pending.
FreshAgain == (due /\ phase = "serving") ~> (~due \/ phase # "serving" \/ Refused(pending))

\* What the table misses is known, whenever the process stops or the database is away.
EventsAccounted == EventsWrittenAtStop /\ LossNeverUnderstated

\* The health report learns of what died and of what lives.
HealthTold == DeathReported /\ FreshAgain
=============================================================================
