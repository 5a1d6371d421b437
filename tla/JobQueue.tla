------------------------------ MODULE JobQueue ------------------------------
(***************************************************************************)
(* The Redis job queue shared by the TTS and YOLO workers: the queue       *)
(* operations of yapit/queue.py, the pull loops of                         *)
(* yapit/workers/tts_loop.py, yapit/workers/yolo/__main__.py and           *)
(* yapit/gateway/api_tts_dispatcher.py, the visibility scanner of          *)
(* yapit/gateway/visibility_scanner.py and the part of the cursor eviction *)
(* of yapit/gateway/api/v1/ws.py that touches the queue.                   *)
(*                                                                         *)
(* One action per awaited Redis command (or MULTI/EXEC pipeline): every    *)
(* await is a point where another process may run.                         *)
(***************************************************************************)
EXTENDS Integers, Sequences

CONSTANTS
    Jobs,         \* job ids (uuid4: never reused)
    Workers,      \* pull loops; an API dispatcher counts as one per task slot
    ApiTasks,     \* the workers that are dispatcher tasks: no visibility tracking
    Scanners,     \* visibility scanners, one per running gateway process
    Evictors,     \* cursor_moved handlers that may run concurrently
    MaxRetries,   \* visibility_scanner: retries before the dead letter queue
    MaxCrashes,   \* bound on crashes, cancellations and scanner aborts
    NoJob, NoWorker \* "None"

ASSUME JobQueueAssumption ==
    /\ MaxRetries \in Nat
    /\ MaxCrashes \in Nat
    /\ ApiTasks \subseteq Workers
    /\ NoJob \notin Jobs
    /\ NoWorker \notin Workers

Absent == -1                       \* a missing hash field
Retry  == 0 .. MaxRetries
Field  == {Absent} \cup Retry      \* the retry_count kept in a hash field
Outcomes == {"audio", "empty", "error"}

VARIABLES
    queue,        \* sorted set tts:queue:{model}; scores are wall clocks, order abstracted
    jobs,         \* hash tts:jobs, job id -> retry_count of the wrapper
    processing,   \* hashes tts:processing:{worker}, job id -> retry_count
    results,      \* list tts:results, LPUSH at one end, BRPOP at the other
    dlq,          \* list tts:dlq:{model}
    pushing,                       \* jobs inside push_job
    wpc, wjob, wretry, wout,       \* each worker loop's locals
    spc, skey, snap, sjob, sretry, \* each scanner's locals
    epc, ehas, eremoved,           \* each eviction's locals
    crashes,
    \* history, read by the properties only
    born,         \* job ids ever drawn
    pushed,       \* jobs whose push_job returned
    attempts,     \* times a worker took the job's body
    reported,     \* jobs a result was ever pushed for
    evicted,      \* jobs an eviction took out of the queue or the body of
    lost          \* jobs whose only holder crashed outside visibility tracking

workerVars  == <<wpc, wjob, wretry, wout>>
scannerVars == <<spc, skey, snap, sjob, sretry>>
evictorVars == <<epc, ehas, eremoved>>
historyVars == <<born, pushed, attempts, reported, evicted, lost>>
queueVars   == <<queue, jobs, processing, results, dlq, pushing,
                 wpc, wjob, wretry, wout, spc, skey, snap, sjob, sretry,
                 epc, ehas, eremoved, crashes,
                 born, pushed, attempts, reported, evicted, lost>>

Result(j, out) == [job |-> j, outcome |-> out]

QueueInit ==
    /\ queue = {}
    /\ jobs = [j \in Jobs |-> Absent]
    /\ processing = [w \in Workers |-> [j \in Jobs |-> Absent]]
    /\ results = <<>>
    /\ dlq = {}
    /\ pushing = {}
    /\ wpc = [w \in Workers |-> "idle"]
    /\ wjob = [w \in Workers |-> NoJob]
    /\ wretry = [w \in Workers |-> 0]
    /\ wout = [w \in Workers |-> "error"]
    /\ spc = [s \in Scanners |-> "idle"]
    /\ skey = [s \in Scanners |-> NoWorker]
    /\ snap = [s \in Scanners |-> [j \in Jobs |-> Absent]]
    /\ sjob = [s \in Scanners |-> NoJob]
    /\ sretry = [s \in Scanners |-> 0]
    /\ epc = [e \in Evictors |-> "idle"]
    /\ ehas = [e \in Evictors |-> {}]
    /\ eremoved = [e \in Evictors |-> {}]
    /\ crashes = 0
    /\ born = {}
    /\ pushed = {}
    /\ attempts = [j \in Jobs |-> 0]
    /\ reported = {}
    /\ evicted = {}
    /\ lost = {}

-----------------------------------------------------------------------------
(* push_job: HSET of the wrapper, then (after the index write of the TTS    *)
(* gateway, which the queue does not see) ZADD.                             *)

PushBody(j) ==
    /\ j \notin born
    /\ jobs' = [jobs EXCEPT ![j] = 0]
    /\ pushing' = pushing \cup {j}
    /\ born' = born \cup {j}
    /\ UNCHANGED <<queue, processing, results, dlq, crashes>>
    /\ UNCHANGED <<pushed, attempts, reported, evicted, lost>>
    /\ UNCHANGED <<workerVars, scannerVars, evictorVars>>

PushEnqueue(j) ==
    /\ j \in pushing
    /\ queue' = queue \cup {j}
    /\ pushing' = pushing \ {j}
    /\ pushed' = pushed \cup {j}
    /\ UNCHANGED <<jobs, processing, results, dlq, crashes>>
    /\ UNCHANGED <<born, attempts, reported, evicted, lost>>
    /\ UNCHANGED <<workerVars, scannerVars, evictorVars>>

\* The pushing gateway dies, or Redis fails, between the two: the caller never
\* learns of the job, and its body stays behind
PushAbort(j) ==
    /\ crashes < MaxCrashes
    /\ j \in pushing
    /\ crashes' = crashes + 1
    /\ pushing' = pushing \ {j}
    /\ UNCHANGED <<queue, jobs, processing, results, dlq>>
    /\ UNCHANGED <<workerVars, scannerVars, evictorVars, historyVars>>

-----------------------------------------------------------------------------
(* The worker loop: pull_job (BZPOPMIN, HGET, HDEL), track_processing,      *)
(* execute_job with HDEL of the processing entry in its finally, LPUSH.     *)

WorkerIdle(w) ==
    /\ wpc' = [wpc EXCEPT ![w] = "idle"]
    /\ wjob' = [wjob EXCEPT ![w] = NoJob]
    /\ wretry' = [wretry EXCEPT ![w] = 0]
    /\ wout' = [wout EXCEPT ![w] = "error"]

Pop(w) ==
    /\ wpc[w] = "idle"
    /\ \E j \in queue :
         /\ queue' = queue \ {j}
         /\ wjob' = [wjob EXCEPT ![w] = j]
    /\ wpc' = [wpc EXCEPT ![w] = "popped"]
    /\ UNCHANGED <<jobs, processing, results, dlq, pushing, crashes, wretry, wout>>
    /\ UNCHANGED <<scannerVars, evictorVars, historyVars>>

\* HGET tts:jobs: a missing body means the job was evicted, and the pull ends
Fetch(w) ==
    /\ wpc[w] = "popped"
    /\ \/ /\ jobs[wjob[w]] = Absent
          /\ WorkerIdle(w)
       \/ /\ jobs[wjob[w]] # Absent
          /\ wretry' = [wretry EXCEPT ![w] = jobs[wjob[w]]]
          /\ wpc' = [wpc EXCEPT ![w] = "fetched"]
          /\ UNCHANGED <<wjob, wout>>
    /\ UNCHANGED <<queue, jobs, processing, results, dlq, pushing, crashes>>
    /\ UNCHANGED <<scannerVars, evictorVars, historyVars>>

\* Mutant of ClearBody: the body stays in tts:jobs
ClearBodyLeavesBody(w) ==
    /\ wpc[w] = "fetched"
    /\ UNCHANGED jobs
    /\ attempts' = [attempts EXCEPT ![wjob[w]] = @ + 1]
    /\ wpc' = [wpc EXCEPT ![w] = "pulled"]
    /\ UNCHANGED <<queue, processing, results, dlq, pushing, crashes>>
    /\ UNCHANGED <<wjob, wretry, wout, born, pushed, reported, evicted, lost>>
    /\ UNCHANGED <<scannerVars, evictorVars>>

ClearBody(w) ==
    /\ wpc[w] = "fetched"
    /\ jobs' = [jobs EXCEPT ![wjob[w]] = Absent]
    /\ attempts' = [attempts EXCEPT ![wjob[w]] = @ + 1]
    /\ wpc' = [wpc EXCEPT ![w] = "pulled"]
    /\ UNCHANGED <<queue, processing, results, dlq, pushing, crashes>>
    /\ UNCHANGED <<wjob, wretry, wout, born, pushed, reported, evicted, lost>>
    /\ UNCHANGED <<scannerVars, evictorVars>>

\* Mutant of Track: the processing entry is never written
TrackNothing(w) ==
    /\ wpc[w] = "pulled"
    /\ wpc' = [wpc EXCEPT ![w] = "working"]
    /\ UNCHANGED processing
    /\ UNCHANGED <<queue, jobs, results, dlq, pushing, crashes, wjob, wretry, wout>>
    /\ UNCHANGED <<scannerVars, evictorVars, historyVars>>

\* A dispatcher task runs the job at once, without a processing entry
Track(w) ==
    /\ wpc[w] = "pulled"
    /\ wpc' = [wpc EXCEPT ![w] = "working"]
    /\ processing' = IF w \in ApiTasks THEN processing
                     ELSE [processing EXCEPT ![w][wjob[w]] = wretry[w]]
    /\ UNCHANGED <<queue, jobs, results, dlq, pushing, crashes, wjob, wretry, wout>>
    /\ UNCHANGED <<scannerVars, evictorVars, historyVars>>

\* execute_job turns every failure into an error result
Execute(w) ==
    /\ wpc[w] = "working"
    /\ \E out \in Outcomes : wout' = [wout EXCEPT ![w] = out]
    /\ wpc' = [wpc EXCEPT ![w] = "finished"]
    /\ processing' = IF w \in ApiTasks THEN processing
                     ELSE [processing EXCEPT ![w][wjob[w]] = Absent]
    /\ UNCHANGED <<queue, jobs, results, dlq, pushing, crashes, wjob, wretry>>
    /\ UNCHANGED <<scannerVars, evictorVars, historyVars>>

Report(w) ==
    /\ wpc[w] = "finished"
    /\ results' = Append(results, Result(wjob[w], wout[w]))
    /\ reported' = reported \cup {wjob[w]}
    /\ WorkerIdle(w)
    /\ UNCHANGED <<queue, jobs, processing, dlq, pushing, crashes>>
    /\ UNCHANGED <<born, pushed, attempts, evicted, lost, scannerVars, evictorVars>>

\* The worker process dies. Only a job in a processing entry can come back.
Crash(w) ==
    /\ crashes < MaxCrashes
    /\ wpc[w] # "idle"
    /\ crashes' = crashes + 1
    /\ lost' = IF wpc[w] = "working" /\ w \notin ApiTasks
               THEN lost ELSE lost \cup {wjob[w]}
    /\ WorkerIdle(w)
    /\ UNCHANGED <<queue, jobs, processing, results, dlq, pushing>>
    /\ UNCHANGED <<born, pushed, attempts, reported, evicted, scannerVars, evictorVars>>

\* CancelledError while the adapter runs: the finally removes the processing
\* entry, and the loop ends before the LPUSH
Cancel(w) ==
    /\ crashes < MaxCrashes
    /\ wpc[w] = "working"
    /\ w \notin ApiTasks
    /\ crashes' = crashes + 1
    /\ processing' = [processing EXCEPT ![w][wjob[w]] = Absent]
    /\ lost' = lost \cup {wjob[w]}
    /\ WorkerIdle(w)
    /\ UNCHANGED <<queue, jobs, results, dlq, pushing>>
    /\ UNCHANGED <<born, pushed, attempts, reported, evicted, scannerVars, evictorVars>>

-----------------------------------------------------------------------------
(* The visibility scanner. The age test compares wall clocks, so any of the *)
(* entries read by HGETALL may turn out to be stale.                        *)

Tracked(w) == {j \in Jobs : processing[w][j] # Absent}
Unchecked(s) == {j \in Jobs : snap[s][j] # Absent}

ScanKey(s, w, stale) ==
    /\ spc[s] = "idle"
    /\ stale # {}
    /\ stale \subseteq Tracked(w)
    /\ skey' = [skey EXCEPT ![s] = w]
    /\ snap' = [snap EXCEPT ![s] =
                   [j \in Jobs |-> IF j \in stale THEN processing[w][j] ELSE Absent]]
    /\ spc' = [spc EXCEPT ![s] = "scanning"]
    /\ UNCHANGED <<queue, jobs, processing, results, dlq, pushing, crashes>>
    /\ UNCHANGED <<sjob, sretry, workerVars, evictorVars, historyVars>>

\* HDEL of the entry; its reply, whether the entry was still there, is ignored
Untrack(s, j) ==
    /\ spc[s] = "scanning"
    /\ j \in Unchecked(s)
    /\ processing' = [processing EXCEPT ![skey[s]][j] = Absent]
    /\ sjob' = [sjob EXCEPT ![s] = j]
    /\ sretry' = [sretry EXCEPT ![s] = snap[s][j]]
    /\ snap' = [snap EXCEPT ![s][j] = Absent]
    /\ spc' = [spc EXCEPT ![s] = "untracked"]
    /\ UNCHANGED <<queue, jobs, results, dlq, pushing, crashes, skey>>
    /\ UNCHANGED <<workerVars, evictorVars, historyVars>>

\* The locals of a scanner that has dealt with its entry
EntryDone(s) ==
    /\ spc' = [spc EXCEPT ![s] = IF Unchecked(s) = {} THEN "idle" ELSE "scanning"]
    /\ skey' = IF Unchecked(s) = {} THEN [skey EXCEPT ![s] = NoWorker] ELSE skey
    /\ sjob' = [sjob EXCEPT ![s] = NoJob]
    /\ sretry' = [sretry EXCEPT ![s] = 0]
    /\ UNCHANGED snap

\* Mutant of MoveToDlq: the last retry is never run
MoveToDlqEarly(s) ==
    /\ spc[s] = "untracked"
    /\ sretry[s] >= MaxRetries - 1
    /\ dlq' = dlq \cup {sjob[s]}
    /\ spc' = [spc EXCEPT ![s] = "dead"]
    /\ UNCHANGED <<queue, jobs, processing, results, pushing, crashes>>
    /\ UNCHANGED <<skey, snap, sjob, sretry, workerVars, evictorVars, historyVars>>

MoveToDlq(s) ==
    /\ spc[s] = "untracked"
    /\ sretry[s] >= MaxRetries
    /\ dlq' = dlq \cup {sjob[s]}
    /\ spc' = [spc EXCEPT ![s] = "dead"]
    /\ UNCHANGED <<queue, jobs, processing, results, pushing, crashes>>
    /\ UNCHANGED <<skey, snap, sjob, sretry, workerVars, evictorVars, historyVars>>

\* Mutant of ReportDead: a job that goes to the dead letter queue has no result
ReportDeadSilently(s) ==
    /\ spc[s] = "dead"
    /\ UNCHANGED results
    /\ UNCHANGED reported
    /\ EntryDone(s)
    /\ UNCHANGED <<queue, jobs, processing, dlq, pushing, crashes>>
    /\ UNCHANGED <<born, pushed, attempts, evicted, lost, workerVars, evictorVars>>

ReportDead(s) ==
    /\ spc[s] = "dead"
    /\ results' = Append(results, Result(sjob[s], "error"))
    /\ reported' = reported \cup {sjob[s]}
    /\ EntryDone(s)
    /\ UNCHANGED <<queue, jobs, processing, dlq, pushing, crashes>>
    /\ UNCHANGED <<born, pushed, attempts, evicted, lost, workerVars, evictorVars>>

\* Mutant of RequeueBody: the retry is not counted
RequeueBodySameCount(s) ==
    /\ spc[s] = "untracked"
    /\ sretry[s] < MaxRetries
    /\ jobs' = [jobs EXCEPT ![sjob[s]] = sretry[s]]
    /\ spc' = [spc EXCEPT ![s] = "requeue"]
    /\ UNCHANGED <<queue, processing, results, dlq, pushing, crashes>>
    /\ UNCHANGED <<skey, snap, sjob, sretry, workerVars, evictorVars, historyVars>>

RequeueBody(s) ==
    /\ spc[s] = "untracked"
    /\ sretry[s] < MaxRetries
    /\ jobs' = [jobs EXCEPT ![sjob[s]] = sretry[s] + 1]
    /\ spc' = [spc EXCEPT ![s] = "requeue"]
    /\ UNCHANGED <<queue, processing, results, dlq, pushing, crashes>>
    /\ UNCHANGED <<skey, snap, sjob, sretry, workerVars, evictorVars, historyVars>>

RequeueEnqueue(s) ==
    /\ spc[s] = "requeue"
    /\ queue' = queue \cup {sjob[s]}
    /\ EntryDone(s)
    /\ UNCHANGED <<jobs, processing, results, dlq, pushing, crashes>>
    /\ UNCHANGED <<workerVars, evictorVars, historyVars>>

\* A Redis error caught by the scanner loop, or the death of its gateway: the
\* rest of the snapshot is read again by the next scan, the entry in hand is not
ScanAbort(s) ==
    /\ crashes < MaxCrashes
    /\ spc[s] # "idle"
    /\ crashes' = crashes + 1
    /\ lost' = IF sjob[s] = NoJob THEN lost ELSE lost \cup {sjob[s]}
    /\ spc' = [spc EXCEPT ![s] = "idle"]
    /\ skey' = [skey EXCEPT ![s] = NoWorker]
    /\ snap' = [snap EXCEPT ![s] = [j \in Jobs |-> Absent]]
    /\ sjob' = [sjob EXCEPT ![s] = NoJob]
    /\ sretry' = [sretry EXCEPT ![s] = 0]
    /\ UNCHANGED <<queue, jobs, processing, results, dlq, pushing>>
    /\ UNCHANGED <<born, pushed, attempts, reported, evicted, workerVars, evictorVars>>

-----------------------------------------------------------------------------
(* Cursor eviction, the three pipelines that read and write the queue.      *)
(* redis-py pipelines are MULTI/EXEC transactions, so each is one step.     *)

EvictLook(e, ids) ==
    /\ epc[e] = "idle"
    /\ ids # {}
    /\ ehas' = [ehas EXCEPT ![e] = {j \in ids : jobs[j] # Absent}]
    /\ epc' = [epc EXCEPT ![e] = "looked"]
    /\ UNCHANGED <<queue, jobs, processing, results, dlq, pushing, crashes, eremoved>>
    /\ UNCHANGED <<workerVars, scannerVars, historyVars>>

\* Mutant of EvictRemove: the replies of ZREM are not looked at
EvictRemoveClaimsAll(e) ==
    /\ epc[e] = "looked"
    /\ eremoved' = [eremoved EXCEPT ![e] = ehas[e]]
    /\ queue' = queue \ ehas[e]
    /\ evicted' = evicted \cup (ehas[e] \cap queue)
    /\ epc' = [epc EXCEPT ![e] = "removed"]
    /\ UNCHANGED <<jobs, processing, results, dlq, pushing, crashes, ehas>>
    /\ UNCHANGED <<born, pushed, attempts, reported, lost, workerVars, scannerVars>>

EvictRemove(e) ==
    /\ epc[e] = "looked"
    /\ eremoved' = [eremoved EXCEPT ![e] = ehas[e] \cap queue]
    /\ queue' = queue \ ehas[e]
    /\ evicted' = evicted \cup (ehas[e] \cap queue)
    /\ epc' = [epc EXCEPT ![e] = "removed"]
    /\ UNCHANGED <<jobs, processing, results, dlq, pushing, crashes, ehas>>
    /\ UNCHANGED <<born, pushed, attempts, reported, lost, workerVars, scannerVars>>

EvictBodies(e) ==
    /\ epc[e] = "removed"
    /\ jobs' = [j \in Jobs |-> IF j \in ehas[e] THEN Absent ELSE jobs[j]]
    /\ evicted' = evicted \cup {j \in ehas[e] : jobs[j] # Absent}
    /\ ehas' = [ehas EXCEPT ![e] = {}]
    /\ UNCHANGED <<queue, processing, results, dlq, pushing, crashes>>
    /\ UNCHANGED <<born, pushed, attempts, reported, lost, workerVars, scannerVars>>

\* the handler goes on to the inflight keys with the jobs its ZREM removed
EvictDone(e) ==
    /\ epc' = [epc EXCEPT ![e] = "idle"]
    /\ eremoved' = [eremoved EXCEPT ![e] = {}]

-----------------------------------------------------------------------------
WorkerStep(w) ==
    Pop(w) \/ Fetch(w) \/ ClearBody(w) \/ Track(w) \/ Execute(w) \/ Report(w)

ScannerStep(s) ==
    \/ \E j \in Jobs : Untrack(s, j)
    \/ MoveToDlq(s) \/ ReportDead(s) \/ RequeueBody(s) \/ RequeueEnqueue(s)

QueueNext ==
    \/ \E w \in Workers : WorkerStep(w) \/ Crash(w) \/ Cancel(w)
    \/ \E s \in Scanners :
          \/ ScannerStep(s) \/ ScanAbort(s)
          \/ \E w \in Workers : \E stale \in SUBSET Jobs : ScanKey(s, w, stale)

\* Alone, the queue is driven by producers, cursor moves and a consumer of results
EvictFinish(e) == EvictBodies(e) /\ EvictDone(e)

TakeResult ==
    /\ results # <<>>
    /\ results' = Tail(results)
    /\ UNCHANGED <<queue, jobs, processing, dlq, pushing, crashes>>
    /\ UNCHANGED <<workerVars, scannerVars, evictorVars, historyVars>>

Environment ==
    \/ \E j \in Jobs : PushBody(j) \/ PushEnqueue(j) \/ PushAbort(j)
    \/ \E e \in Evictors :
          \/ \E ids \in SUBSET Jobs : EvictLook(e, ids)
          \/ EvictRemove(e) \/ EvictFinish(e)
    \/ TakeResult

JobQueueNext == QueueNext \/ Environment

JobQueueSpec == QueueInit /\ [][JobQueueNext]_queueVars

\* The loops run for the life of their process and the scan visits every key on
\* every pass; nothing makes users push jobs or move cursors.
QueueFairness ==
    /\ \A w \in Workers : WF_queueVars(WorkerStep(w))
    /\ \A s \in Scanners :
          /\ WF_queueVars(ScannerStep(s))
          /\ \A w \in Workers : SF_queueVars(ScanKey(s, w, Tracked(w)))

FairJobQueueSpec == JobQueueSpec /\ QueueFairness

-----------------------------------------------------------------------------
\* The values of every variable, and which locals are set in which state of a loop
QueueTypeOK ==
    /\ queue \subseteq Jobs
    /\ jobs \in [Jobs -> Field]
    /\ processing \in [Workers -> [Jobs -> Field]]
    /\ results \in Seq([job : Jobs, outcome : Outcomes])
    /\ dlq \subseteq Jobs
    /\ pushing \subseteq Jobs
    /\ wpc \in [Workers -> {"idle", "popped", "fetched", "pulled", "working", "finished"}]
    /\ wjob \in [Workers -> Jobs \cup {NoJob}]
    /\ \A w \in Workers : wjob[w] = NoJob <=> wpc[w] = "idle"
    /\ wretry \in [Workers -> Retry]
    /\ wout \in [Workers -> Outcomes]
    /\ spc \in [Scanners -> {"idle", "scanning", "untracked", "dead", "requeue"}]
    /\ skey \in [Scanners -> Workers \cup {NoWorker}]
    /\ \A s \in Scanners : skey[s] = NoWorker <=> spc[s] = "idle"
    /\ snap \in [Scanners -> [Jobs -> Field]]
    /\ sjob \in [Scanners -> Jobs \cup {NoJob}]
    /\ \A s \in Scanners : sjob[s] = NoJob <=> spc[s] \in {"idle", "scanning"}
    /\ sretry \in [Scanners -> Retry]
    /\ \A s \in Scanners : spc[s] = "requeue" => sretry[s] < MaxRetries
    /\ \A s \in Scanners : spc[s] = "dead" => sretry[s] = MaxRetries
    /\ epc \in [Evictors -> {"idle", "looked", "removed"}]
    /\ ehas \in [Evictors -> SUBSET Jobs]
    /\ eremoved \in [Evictors -> SUBSET Jobs]
    /\ crashes \in 0 .. MaxCrashes
    /\ born \subseteq Jobs
    /\ pushed \subseteq Jobs
    /\ attempts \in [Jobs -> Nat]
    /\ reported \subseteq Jobs
    /\ evicted \subseteq Jobs
    /\ lost \subseteq Jobs

\* A job is run at most MaxRetries + 1 times, whatever the races between a
\* worker that finishes late and the scanner that gave up on it.
AttemptsBounded == \A j \in Jobs : attempts[j] <= MaxRetries + 1

\* A job reaches the dead letter queue only after every retry was really run.
DlqOnlyExhausted == \A j \in dlq : attempts[j] = MaxRetries + 1

\* Where the one live claim on a job can be
HeldByWorker(j, w) == wjob[w] = j /\ wpc[w] \in {"popped", "fetched", "pulled"}
HeldByEntry(j, w)  == processing[w][j] # Absent
Finishing(j, w) ==
    /\ wjob[w] = j
    /\ wpc[w] = "finished" \/ (wpc[w] = "working" /\ w \in ApiTasks)

Accounted(j) ==
    \/ j \in queue \cup reported \cup evicted \cup lost
    \/ \E w \in Workers :
          HeldByWorker(j, w) \/ HeldByEntry(j, w) \/ Finishing(j, w)
    \/ \E s \in Scanners : sjob[s] = j

\* A job whose push_job returned is still in some hand, or a result was pushed
\* for it, or a cursor move evicted it, or its holder crashed while no processing
\* entry covered it. A crash under a processing entry loses nothing.
NothingLost == \A j \in pushed : Accounted(j)

\* Every job pushed gets a result in the end (or was evicted, or lost as above),
\* however many of its workers are given up on or die.
EveryJobAnswered ==
    \A j \in Jobs : j \in pushed ~> j \in reported \cup evicted \cup lost

-----------------------------------------------------------------------------
(* Why, with one visibility scanner: at every moment a job has at most one *)
(* live claim (Unique), the retry_count kept in that claim counts the      *)
(* attempts made (RetriesCounted), and a job without a body was evicted    *)
(* (Covered).                                                              *)

\* One gateway process runs, so one scanner does
OneScanner == \A s, t \in Scanners : s = t

InScan(j, s) == snap[s][j] # Absent \/ sjob[s] = j

\* A job that no push drew yet is nowhere
UnbornNowhere ==
    \A j \in Jobs \ born :
        /\ jobs[j] = Absent
        /\ attempts[j] = 0
        /\ j \notin queue \cup pushing \cup dlq
        /\ \A w \in Workers : wjob[w] # j /\ ~HeldByEntry(j, w)
        /\ \A s \in Scanners : ~InScan(j, s)

\* A job that waits is in nobody's hands
WaitingAlone ==
    /\ queue \cap pushing = {}
    /\ \A j \in queue \cup pushing :
          /\ \A w \in Workers : ~HeldByWorker(j, w) /\ ~HeldByEntry(j, w)
          /\ \A s \in Scanners : ~InScan(j, s)

\* A job being pulled is in the hands of that worker alone
PulledAlone ==
    \A j \in Jobs : \A w \in Workers : HeldByWorker(j, w) =>
        /\ \A x \in Workers : HeldByWorker(j, x) => x = w
        /\ \A x \in Workers : ~HeldByEntry(j, x)
        /\ \A s \in Scanners : ~InScan(j, s)

\* A tracked job has one entry, and only a snapshot of that entry
TrackedOnce ==
    \A j \in Jobs : \A w \in Workers : HeldByEntry(j, w) =>
        /\ \A x \in Workers : HeldByEntry(j, x) => x = w
        /\ \A s \in Scanners : sjob[s] # j /\ (snap[s][j] # Absent => skey[s] = w)

\* The entry in a scanner's hand is out of its snapshot
InHandOnce ==
    \A s \in Scanners : \A j \in Jobs : sjob[s] = j => snap[s][j] = Absent

Unique == UnbornNowhere /\ WaitingAlone /\ PulledAlone /\ TrackedOnce /\ InHandOnce

BodyCounts  == \A j \in Jobs : jobs[j] # Absent => attempts[j] = jobs[j]
PullCounts  ==
    \A w \in Workers :
        /\ wpc[w] = "fetched" => attempts[wjob[w]] = wretry[w]
        /\ wpc[w] = "pulled"  => attempts[wjob[w]] = wretry[w] + 1
EntryCounts ==
    \A w \in Workers : \A j \in Jobs :
        processing[w][j] # Absent => attempts[j] = processing[w][j] + 1
ScanCounts  ==
    \A s \in Scanners : \A j \in Jobs :
        /\ snap[s][j] # Absent => attempts[j] = snap[s][j] + 1
        /\ sjob[s] = j => attempts[j] = sretry[s] + 1

RetriesCounted ==
    /\ BodyCounts /\ PullCounts /\ EntryCounts /\ ScanCounts
    /\ AttemptsBounded /\ DlqOnlyExhausted

\* Who should find a body and does not, lost it to an eviction
NeedsBody(j) ==
    \/ j \in queue \cup pushing
    \/ \E w \in Workers : wjob[w] = j /\ wpc[w] = "popped"
    \/ \E s \in Scanners : sjob[s] = j /\ spc[s] = "requeue"
BodyOrEvicted == \A j \in Jobs : NeedsBody(j) /\ jobs[j] = Absent => j \in evicted

Covered == BodyOrEvicted /\ NothingLost

\* With one scanner, whatever the pull loops, the scanner and the evictions do
\* between their Redis commands (queue.py, visibility_scanner.py): a job has at
\* most one live claim, the retry_count in that claim counts the attempts made,
\* and a job whose body is missing was evicted. It is inductive.
QueueInv == QueueTypeOK /\ Unique /\ RetriesCounted /\ Covered
=============================================================================
