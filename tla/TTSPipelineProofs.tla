-------------------------- MODULE TTSPipelineProofs --------------------------
(* Safety of the job queue for any jobs, workers, retries, evictions and     *)
(* crashes, and of the pipeline around it for any variants, listeners, tabs, *)
(* result tasks and expiries.                                                *)
EXTENDS TTSPipeline, FiniteSetTheorems, TLAPS

(***************************************************************************)
(* JobQueue, with its own initial states and steps.                        *)
(***************************************************************************)
(* Type correctness, for any number of scanners.                            *)

LEMMA InitType == QueueInit => QueueTypeOK
BY JobQueueAssumption
DEF QueueInit, QueueTypeOK, Field, Retry, Absent, Outcomes

LEMMA StepType == QueueTypeOK /\ [JobQueueNext]_queueVars => QueueTypeOK'
<1> SUFFICES ASSUME QueueTypeOK, [JobQueueNext]_queueVars
             PROVE  QueueTypeOK'
    OBVIOUS
<1> USE JobQueueAssumption DEF QueueTypeOK, Field, Retry, Absent, Outcomes
<1>1. CASE UNCHANGED queueVars
      BY <1>1 DEF queueVars
<1>2. ASSUME NEW j \in Jobs, PushBody(j)  PROVE QueueTypeOK'
      BY <1>2 DEF PushBody, workerVars, scannerVars, evictorVars
<1>3. ASSUME NEW j \in Jobs, PushEnqueue(j)  PROVE QueueTypeOK'
      BY <1>3 DEF PushEnqueue, workerVars, scannerVars, evictorVars
<1>4. ASSUME NEW j \in Jobs, PushAbort(j)  PROVE QueueTypeOK'
      BY <1>4 DEF PushAbort, workerVars, scannerVars, evictorVars, historyVars
<1>5. ASSUME NEW w \in Workers, Pop(w)  PROVE QueueTypeOK'
      BY <1>5 DEF Pop, scannerVars, evictorVars, historyVars
<1>6. ASSUME NEW w \in Workers, Fetch(w)  PROVE QueueTypeOK'
  <2>1. wjob[w] \in Jobs /\ jobs[wjob[w]] \in Field
        BY <1>6 DEF Fetch
  <2>2. CASE jobs[wjob[w]] = Absent
    <3>1. WorkerIdle(w)
          BY <1>6, <2>2 DEF Fetch
    <3>2. UNCHANGED <<queue, jobs, processing, results, dlq, pushing, crashes,
                      scannerVars, evictorVars, historyVars>>
          BY <1>6 DEF Fetch
    <3>3. QED
          BY <3>1, <3>2 DEF WorkerIdle, scannerVars, evictorVars, historyVars
  <2>3. CASE jobs[wjob[w]] # Absent
    <3>1. jobs[wjob[w]] \in Retry
          BY <2>1, <2>3
    <3>2. /\ wretry' = [wretry EXCEPT ![w] = jobs[wjob[w]]]
          /\ wpc' = [wpc EXCEPT ![w] = "fetched"]
          /\ UNCHANGED <<wjob, wout>>
          /\ wpc[w] = "popped"
          BY <1>6, <2>3 DEF Fetch
    <3>3. UNCHANGED <<queue, jobs, processing, results, dlq, pushing, crashes,
                      scannerVars, evictorVars, historyVars>>
          BY <1>6 DEF Fetch
    <3>4. QED
          BY <3>1, <3>2, <3>3 DEF scannerVars, evictorVars, historyVars
  <2>4. QED
        BY <2>2, <2>3
<1>7. ASSUME NEW w \in Workers, ClearBody(w)  PROVE QueueTypeOK'
      BY <1>7 DEF ClearBody, scannerVars, evictorVars
<1>8. ASSUME NEW w \in Workers, Track(w)  PROVE QueueTypeOK'
      BY <1>8 DEF Track, scannerVars, evictorVars, historyVars
<1>9. ASSUME NEW w \in Workers, Execute(w)  PROVE QueueTypeOK'
      BY <1>9 DEF Execute, scannerVars, evictorVars, historyVars
<1>10. ASSUME NEW w \in Workers, Report(w)  PROVE QueueTypeOK'
      BY <1>10 DEF Report, Result, WorkerIdle, scannerVars, evictorVars
<1>11. ASSUME NEW w \in Workers, Crash(w)  PROVE QueueTypeOK'
      BY <1>11 DEF Crash, WorkerIdle, scannerVars, evictorVars
<1>12. ASSUME NEW w \in Workers, Cancel(w)  PROVE QueueTypeOK'
      BY <1>12 DEF Cancel, WorkerIdle, scannerVars, evictorVars
<1>13. ASSUME NEW s \in Scanners, NEW w \in Workers, NEW stale \in SUBSET Jobs,
              ScanKey(s, w, stale)
       PROVE QueueTypeOK'
      BY <1>13 DEF ScanKey, workerVars, evictorVars, historyVars
<1>14. ASSUME NEW s \in Scanners, NEW j \in Jobs, Untrack(s, j)  PROVE QueueTypeOK'
  <2>1. snap[s][j] \in Retry
        BY <1>14 DEF Untrack, Unchecked
  <2>2. QED
        BY <1>14, <2>1 DEF Untrack, workerVars, evictorVars, historyVars
<1>15. ASSUME NEW s \in Scanners, MoveToDlq(s)  PROVE QueueTypeOK'
      BY <1>15 DEF MoveToDlq, workerVars, evictorVars, historyVars
<1>16. ASSUME NEW s \in Scanners, ReportDead(s)  PROVE QueueTypeOK'
      BY <1>16 DEF ReportDead, Result, EntryDone, workerVars, evictorVars
<1>17. ASSUME NEW s \in Scanners, RequeueBody(s)  PROVE QueueTypeOK'
  <2>1. sjob[s] \in Jobs
        BY <1>17 DEF RequeueBody
  <2>2. sretry[s] + 1 \in Retry
    <3>1. sretry[s] \in 0 .. MaxRetries /\ sretry[s] < MaxRetries
          BY <1>17 DEF RequeueBody
    <3>2. QED
          BY <3>1
  <2>3. jobs' \in [Jobs -> Field]
        BY <1>17, <2>1, <2>2 DEF RequeueBody
  <2>4. \A t \in Scanners : sjob[t] = NoJob <=> spc'[t] \in {"idle", "scanning"}
        BY <1>17 DEF RequeueBody
  <2>5. QED
        BY <1>17, <2>3, <2>4 DEF RequeueBody, workerVars, evictorVars, historyVars
<1>18. ASSUME NEW s \in Scanners, RequeueEnqueue(s)  PROVE QueueTypeOK'
      BY <1>18 DEF RequeueEnqueue, EntryDone, workerVars, evictorVars, historyVars
<1>19. ASSUME NEW s \in Scanners, ScanAbort(s)  PROVE QueueTypeOK'
      BY <1>19 DEF ScanAbort, workerVars, evictorVars
<1>20. ASSUME NEW e \in Evictors, NEW ids \in SUBSET Jobs, EvictLook(e, ids)
       PROVE QueueTypeOK'
      BY <1>20 DEF EvictLook, workerVars, scannerVars, historyVars
<1>21. ASSUME NEW e \in Evictors, EvictRemove(e)  PROVE QueueTypeOK'
      BY <1>21 DEF EvictRemove, workerVars, scannerVars
<1>22. ASSUME NEW e \in Evictors, EvictFinish(e)  PROVE QueueTypeOK'
      BY <1>22 DEF EvictFinish, EvictBodies, EvictDone, workerVars, scannerVars
<1>23. CASE TakeResult
      BY <1>23 DEF TakeResult, workerVars, scannerVars, evictorVars, historyVars
<1> QED
      BY <1>1, <1>2, <1>3, <1>4, <1>5, <1>6, <1>7, <1>8, <1>9, <1>10, <1>11, <1>12,
         <1>13, <1>14, <1>15, <1>16, <1>17, <1>18, <1>19, <1>20, <1>21, <1>22, <1>23
      DEF JobQueueNext, QueueNext, Environment, WorkerStep, ScannerStep

\* Every reachable state of the queue is well typed, however many scanners run.
THEOREM QueueTypeCorrect == JobQueueSpec => []QueueTypeOK
BY InitType, StepType, PTL DEF JobQueueSpec

-----------------------------------------------------------------------------
(* With one scanner a job has one live claim. It is lost with two: both may *)
(* hold a snapshot of one entry.                                            *)

LEMMA InHandIsJob ==
    ASSUME QueueTypeOK, NEW s \in Scanners, spc[s] \in {"untracked", "dead",
        "requeue"}
    PROVE  sjob[s] \in Jobs
BY DEF QueueTypeOK

LEMMA InitInv == QueueInit => QueueInv
<1> SUFFICES ASSUME QueueInit  PROVE QueueInv
    OBVIOUS
<1>1. QueueTypeOK
      BY InitType
<1>2. Unique
      BY JobQueueAssumption
      DEF Absent, QueueInit, Unique, UnbornNowhere, WaitingAlone, PulledAlone,
          TrackedOnce,
             InHandOnce, InScan, HeldByWorker, HeldByEntry
<1>3. RetriesCounted
      BY JobQueueAssumption
      DEF QueueInit, RetriesCounted, BodyCounts, PullCounts, EntryCounts, ScanCounts,
          AttemptsBounded, DlqOnlyExhausted
<1>4. Covered
      BY DEF QueueInit, Covered, BodyOrEvicted, NeedsBody, NothingLost
<1>5. QED
      BY <1>1, <1>2, <1>3, <1>4 DEF QueueInv

LEMMA StepUnique ==
    ASSUME OneScanner, QueueTypeOK, Unique, [JobQueueNext]_queueVars
    PROVE  Unique'
<1> USE JobQueueAssumption DEF Unique, OneScanner, QueueTypeOK, Field, Retry,
    Absent, UnbornNowhere, WaitingAlone, PulledAlone, TrackedOnce, InHandOnce,
    InScan, HeldByWorker, HeldByEntry
<1>1. CASE UNCHANGED queueVars
      BY <1>1 DEF queueVars
<1>2. ASSUME NEW j \in Jobs, PushBody(j)
       PROVE  Unique'
      BY <1>2 DEF PushBody, workerVars, scannerVars, evictorVars
<1>3. ASSUME NEW j \in Jobs, PushEnqueue(j)
       PROVE  Unique'
      BY <1>3 DEF PushEnqueue, workerVars, scannerVars, evictorVars
<1>4. ASSUME NEW j \in Jobs, PushAbort(j)
       PROVE  Unique'
      BY <1>4 DEF PushAbort, workerVars, scannerVars, evictorVars, historyVars
<1>5. ASSUME NEW w \in Workers, Pop(w)
       PROVE  Unique'
      BY <1>5 DEF Pop, scannerVars, evictorVars, historyVars
<1>6. ASSUME NEW w \in Workers, Fetch(w)
       PROVE  Unique'
  <2>1. CASE jobs[wjob[w]] = Absent
    <3>1. WorkerIdle(w)
          BY <1>6, <2>1 DEF Fetch
    <3>2. QED
          BY <1>6, <2>1, <3>1 DEF Fetch, WorkerIdle, scannerVars, evictorVars,
              historyVars
  <2>2. CASE jobs[wjob[w]] # Absent
    <3>1. /\ wpc[w] = "popped"
          /\ wretry' = [wretry EXCEPT ![w] = jobs[wjob[w]]]
          /\ wpc' = [wpc EXCEPT ![w] = "fetched"]
          /\ UNCHANGED <<wjob, wout>>
          BY <1>6, <2>2 DEF Fetch
    <3>2. UNCHANGED <<queue, jobs, processing, results, dlq, pushing, crashes,
                      scannerVars, evictorVars, historyVars>>
          BY <1>6 DEF Fetch
    <3>3. QED
          BY <2>2, <3>1, <3>2 DEF scannerVars, evictorVars, historyVars
  <2>3. QED
        BY <2>1, <2>2
<1>7. ASSUME NEW w \in Workers, ClearBody(w)
       PROVE  Unique'
      BY <1>7 DEF ClearBody, scannerVars, evictorVars
<1>8. ASSUME NEW w \in Workers, Track(w)
       PROVE  Unique'
      BY <1>8 DEF Track, scannerVars, evictorVars, historyVars
<1>9. ASSUME NEW w \in Workers, Execute(w)
       PROVE  Unique'
      BY <1>9 DEF Execute, scannerVars, evictorVars, historyVars
<1>10. ASSUME NEW w \in Workers, Report(w)
       PROVE  Unique'
      BY <1>10 DEF Report, WorkerIdle, scannerVars, evictorVars
<1>11. ASSUME NEW w \in Workers, Crash(w)
       PROVE  Unique'
      BY <1>11 DEF Crash, WorkerIdle, scannerVars, evictorVars
<1>12. ASSUME NEW w \in Workers, Cancel(w)
       PROVE  Unique'
      BY <1>12 DEF Cancel, WorkerIdle, scannerVars, evictorVars
<1>13. ASSUME NEW s \in Scanners, NEW w \in Workers, NEW stale \in SUBSET Jobs, ScanKey(s, w, stale)
       PROVE  Unique'
      BY <1>13 DEF ScanKey, Tracked, workerVars, evictorVars, historyVars
<1>14. ASSUME NEW s \in Scanners, NEW j \in Jobs, Untrack(s, j)
       PROVE  Unique'
      BY <1>14 DEF Untrack, Unchecked, workerVars, evictorVars, historyVars
<1>15. ASSUME NEW s \in Scanners, MoveToDlq(s)
       PROVE  Unique'
      BY <1>15 DEF MoveToDlq, workerVars, evictorVars, historyVars
<1>16. ASSUME NEW s \in Scanners, ReportDead(s)
       PROVE  Unique'
  <2>1. \A t \in Scanners, i \in Jobs : snap[t][i] # Absent => skey'[t] = skey[t]
        BY <1>16 DEF ReportDead, EntryDone, Unchecked
  <2>2. sjob' = [sjob EXCEPT ![s] = NoJob] /\ UNCHANGED snap
        BY <1>16 DEF ReportDead, EntryDone
  <2>3. UNCHANGED <<jobs, processing, pushing, crashes, workerVars, evictorVars>>
        BY <1>16 DEF ReportDead
  <2>4. UNCHANGED <<queue, dlq, born, attempts>>
        BY <1>16 DEF ReportDead, historyVars
  <2>5. QED
        BY <2>1, <2>2, <2>3, <2>4 DEF workerVars, evictorVars, historyVars
<1>17. ASSUME NEW s \in Scanners, RequeueBody(s)
       PROVE  Unique'
      BY <1>17 DEF RequeueBody, workerVars, evictorVars, historyVars
<1>18. ASSUME NEW s \in Scanners, RequeueEnqueue(s)
       PROVE  Unique'
  <2>1. \A t \in Scanners, i \in Jobs : snap[t][i] # Absent => skey'[t] = skey[t]
        BY <1>18 DEF RequeueEnqueue, EntryDone, Unchecked
  <2>2. sjob' = [sjob EXCEPT ![s] = NoJob] /\ UNCHANGED snap
        BY <1>18 DEF RequeueEnqueue, EntryDone
  <2>3. UNCHANGED <<jobs, processing, pushing, crashes, workerVars, evictorVars>>
        BY <1>18 DEF RequeueEnqueue
  <2>4. queue' = queue \cup {sjob[s]} /\ UNCHANGED <<dlq, historyVars>>
        BY <1>18 DEF RequeueEnqueue, historyVars
  <2>5. sjob[s] \in Jobs
        BY <1>18, InHandIsJob DEF RequeueEnqueue
  <2>6. QED
        BY <2>1, <2>2, <2>3, <2>4, <2>5 DEF workerVars, evictorVars, historyVars
<1>19. ASSUME NEW s \in Scanners, ScanAbort(s)
       PROVE  Unique'
      BY <1>19 DEF ScanAbort, workerVars, evictorVars
<1>20. ASSUME NEW e \in Evictors, NEW ids \in SUBSET Jobs, EvictLook(e, ids)
       PROVE  Unique'
      BY <1>20 DEF EvictLook, workerVars, scannerVars, historyVars
<1>21. ASSUME NEW e \in Evictors, EvictRemove(e)
       PROVE  Unique'
      BY <1>21 DEF EvictRemove, workerVars, scannerVars
<1>22. ASSUME NEW e \in Evictors, EvictFinish(e)
       PROVE  Unique'
      BY <1>22 DEF EvictFinish, EvictBodies, EvictDone, workerVars, scannerVars
<1>23. CASE TakeResult
      BY <1>23 DEF TakeResult, workerVars, scannerVars, evictorVars, historyVars
<1> QED
      BY <1>1, <1>2, <1>3, <1>4, <1>5, <1>6, <1>7, <1>8, <1>9, <1>10, <1>11,
         <1>12, <1>13, <1>14, <1>15, <1>16, <1>17, <1>18, <1>19, <1>20, <1>21,
         <1>22, <1>23
      DEF JobQueueNext, QueueNext, Environment, WorkerStep, ScannerStep

(* The retry_count in the one live claim counts the attempts.               *)

LEMMA StepCounted ==
    ASSUME QueueTypeOK, Unique, RetriesCounted, [JobQueueNext]_queueVars
    PROVE  RetriesCounted'
<1> USE JobQueueAssumption DEF Unique, QueueTypeOK, Field, Retry, Absent,
    UnbornNowhere, WaitingAlone, PulledAlone, TrackedOnce, InHandOnce, InScan,
    HeldByWorker, HeldByEntry, RetriesCounted, BodyCounts, PullCounts, EntryCounts,
    ScanCounts, AttemptsBounded, DlqOnlyExhausted
<1>1. CASE UNCHANGED queueVars
      BY <1>1 DEF queueVars
<1>2. ASSUME NEW j \in Jobs, PushBody(j)
       PROVE  RetriesCounted'
      BY <1>2 DEF PushBody, workerVars, scannerVars, evictorVars
<1>3. ASSUME NEW j \in Jobs, PushEnqueue(j)
       PROVE  RetriesCounted'
      BY <1>3 DEF PushEnqueue, workerVars, scannerVars, evictorVars
<1>4. ASSUME NEW j \in Jobs, PushAbort(j)
       PROVE  RetriesCounted'
      BY <1>4 DEF PushAbort, workerVars, scannerVars, evictorVars, historyVars
<1>5. ASSUME NEW w \in Workers, Pop(w)
       PROVE  RetriesCounted'
      BY <1>5 DEF Pop, scannerVars, evictorVars, historyVars
<1>6. ASSUME NEW w \in Workers, Fetch(w)
       PROVE  RetriesCounted'
  <2>1. CASE jobs[wjob[w]] = Absent
    <3>1. WorkerIdle(w)
          BY <1>6, <2>1 DEF Fetch
    <3>2. QED
          BY <1>6, <2>1, <3>1 DEF Fetch, WorkerIdle, scannerVars, evictorVars,
              historyVars
  <2>2. CASE jobs[wjob[w]] # Absent
    <3>1. /\ wpc[w] = "popped"
          /\ wretry' = [wretry EXCEPT ![w] = jobs[wjob[w]]]
          /\ wpc' = [wpc EXCEPT ![w] = "fetched"]
          /\ UNCHANGED <<wjob, wout>>
          BY <1>6, <2>2 DEF Fetch
    <3>2. UNCHANGED <<queue, jobs, processing, results, dlq, pushing, crashes,
                      scannerVars, evictorVars, historyVars>>
          BY <1>6 DEF Fetch
    <3>3. QED
          BY <2>2, <3>1, <3>2 DEF scannerVars, evictorVars, historyVars
  <2>3. QED
        BY <2>1, <2>2
<1>7. ASSUME NEW w \in Workers, ClearBody(w)
       PROVE  RetriesCounted'
      BY <1>7 DEF ClearBody, scannerVars, evictorVars
<1>8. ASSUME NEW w \in Workers, Track(w)
       PROVE  RetriesCounted'
      BY <1>8 DEF Track, scannerVars, evictorVars, historyVars
<1>9. ASSUME NEW w \in Workers, Execute(w)
       PROVE  RetriesCounted'
      BY <1>9 DEF Execute, scannerVars, evictorVars, historyVars
<1>10. ASSUME NEW w \in Workers, Report(w)
       PROVE  RetriesCounted'
      BY <1>10 DEF Report, WorkerIdle, scannerVars, evictorVars
<1>11. ASSUME NEW w \in Workers, Crash(w)
       PROVE  RetriesCounted'
      BY <1>11 DEF Crash, WorkerIdle, scannerVars, evictorVars
<1>12. ASSUME NEW w \in Workers, Cancel(w)
       PROVE  RetriesCounted'
      BY <1>12 DEF Cancel, WorkerIdle, scannerVars, evictorVars
<1>13. ASSUME NEW s \in Scanners, NEW w \in Workers, NEW stale \in SUBSET Jobs, ScanKey(s, w, stale)
       PROVE  RetriesCounted'
      BY <1>13 DEF ScanKey, Tracked, workerVars, evictorVars, historyVars
<1>14. ASSUME NEW s \in Scanners, NEW j \in Jobs, Untrack(s, j)
       PROVE  RetriesCounted'
      BY <1>14 DEF Untrack, Unchecked, workerVars, evictorVars, historyVars
<1>15. ASSUME NEW s \in Scanners, MoveToDlq(s)
       PROVE  RetriesCounted'
  <2>1. sretry[s] = MaxRetries /\ sjob[s] \in Jobs
    <3>1. sretry[s] \in 0 .. MaxRetries /\ sretry[s] >= MaxRetries
          BY <1>15 DEF MoveToDlq
    <3>2. sjob[s] \in Jobs
          BY <1>15, InHandIsJob DEF MoveToDlq
    <3>3. QED
          BY <3>1, <3>2
  <2>2. QED
        BY <1>15, <2>1 DEF MoveToDlq, workerVars, evictorVars, historyVars
<1>16. ASSUME NEW s \in Scanners, ReportDead(s)
       PROVE  RetriesCounted'
      BY <1>16 DEF ReportDead, EntryDone, workerVars, evictorVars
<1>17. ASSUME NEW s \in Scanners, RequeueBody(s)
       PROVE  RetriesCounted'
      BY <1>17 DEF RequeueBody, workerVars, evictorVars, historyVars
<1>18. ASSUME NEW s \in Scanners, RequeueEnqueue(s)
       PROVE  RetriesCounted'
      BY <1>18 DEF RequeueEnqueue, EntryDone, workerVars, evictorVars, historyVars
<1>19. ASSUME NEW s \in Scanners, ScanAbort(s)
       PROVE  RetriesCounted'
      BY <1>19 DEF ScanAbort, workerVars, evictorVars
<1>20. ASSUME NEW e \in Evictors, NEW ids \in SUBSET Jobs, EvictLook(e, ids)
       PROVE  RetriesCounted'
      BY <1>20 DEF EvictLook, workerVars, scannerVars, historyVars
<1>21. ASSUME NEW e \in Evictors, EvictRemove(e)
       PROVE  RetriesCounted'
      BY <1>21 DEF EvictRemove, workerVars, scannerVars
<1>22. ASSUME NEW e \in Evictors, EvictFinish(e)
       PROVE  RetriesCounted'
      BY <1>22 DEF EvictFinish, EvictBodies, EvictDone, workerVars, scannerVars
<1>23. CASE TakeResult
      BY <1>23 DEF TakeResult, workerVars, scannerVars, evictorVars, historyVars
<1> QED
      BY <1>1, <1>2, <1>3, <1>4, <1>5, <1>6, <1>7, <1>8, <1>9, <1>10, <1>11,
         <1>12, <1>13, <1>14, <1>15, <1>16, <1>17, <1>18, <1>19, <1>20, <1>21,
         <1>22, <1>23
      DEF JobQueueNext, QueueNext, Environment, WorkerStep, ScannerStep

(* Only an eviction takes the body of a job that still needs it.            *)

LEMMA StepBody ==
    ASSUME QueueTypeOK, Unique, BodyOrEvicted, [JobQueueNext]_queueVars
    PROVE  BodyOrEvicted'
<1> USE JobQueueAssumption DEF BodyOrEvicted, NeedsBody, Unique, QueueTypeOK, Field,
    Retry, Absent, UnbornNowhere, WaitingAlone, PulledAlone, TrackedOnce,
    InHandOnce, InScan, HeldByWorker, HeldByEntry
<1>1. CASE UNCHANGED queueVars
      BY <1>1 DEF queueVars
<1>2. ASSUME NEW j \in Jobs, PushBody(j)
       PROVE  BodyOrEvicted'
      BY <1>2 DEF PushBody, workerVars, scannerVars, evictorVars
<1>3. ASSUME NEW j \in Jobs, PushEnqueue(j)
       PROVE  BodyOrEvicted'
      BY <1>3 DEF PushEnqueue, workerVars, scannerVars, evictorVars
<1>4. ASSUME NEW j \in Jobs, PushAbort(j)
       PROVE  BodyOrEvicted'
      BY <1>4 DEF PushAbort, workerVars, scannerVars, evictorVars, historyVars
<1>5. ASSUME NEW w \in Workers, Pop(w)
       PROVE  BodyOrEvicted'
      BY <1>5 DEF Pop, scannerVars, evictorVars, historyVars
<1>6. ASSUME NEW w \in Workers, Fetch(w)
       PROVE  BodyOrEvicted'
  <2>1. CASE jobs[wjob[w]] = Absent
    <3>1. WorkerIdle(w)
          BY <1>6, <2>1 DEF Fetch
    <3>2. QED
          BY <1>6, <2>1, <3>1 DEF Fetch, WorkerIdle, scannerVars, evictorVars,
              historyVars
  <2>2. CASE jobs[wjob[w]] # Absent
    <3>1. /\ wpc[w] = "popped"
          /\ wretry' = [wretry EXCEPT ![w] = jobs[wjob[w]]]
          /\ wpc' = [wpc EXCEPT ![w] = "fetched"]
          /\ UNCHANGED <<wjob, wout>>
          BY <1>6, <2>2 DEF Fetch
    <3>2. UNCHANGED <<queue, jobs, processing, results, dlq, pushing, crashes,
                      scannerVars, evictorVars, historyVars>>
          BY <1>6 DEF Fetch
    <3>3. QED
          BY <2>2, <3>1, <3>2 DEF scannerVars, evictorVars, historyVars
  <2>3. QED
        BY <2>1, <2>2
<1>7. ASSUME NEW w \in Workers, ClearBody(w)
       PROVE  BodyOrEvicted'
      BY <1>7 DEF ClearBody, scannerVars, evictorVars
<1>8. ASSUME NEW w \in Workers, Track(w)
       PROVE  BodyOrEvicted'
      BY <1>8 DEF Track, scannerVars, evictorVars, historyVars
<1>9. ASSUME NEW w \in Workers, Execute(w)
       PROVE  BodyOrEvicted'
      BY <1>9 DEF Execute, scannerVars, evictorVars, historyVars
<1>10. ASSUME NEW w \in Workers, Report(w)
       PROVE  BodyOrEvicted'
      BY <1>10 DEF Report, WorkerIdle, scannerVars, evictorVars
<1>11. ASSUME NEW w \in Workers, Crash(w)
       PROVE  BodyOrEvicted'
      BY <1>11 DEF Crash, WorkerIdle, scannerVars, evictorVars
<1>12. ASSUME NEW w \in Workers, Cancel(w)
       PROVE  BodyOrEvicted'
      BY <1>12 DEF Cancel, WorkerIdle, scannerVars, evictorVars
<1>13. ASSUME NEW s \in Scanners, NEW w \in Workers, NEW stale \in SUBSET Jobs, ScanKey(s, w, stale)
       PROVE  BodyOrEvicted'
      BY <1>13 DEF ScanKey, Tracked, workerVars, evictorVars, historyVars
<1>14. ASSUME NEW s \in Scanners, NEW j \in Jobs, Untrack(s, j)
       PROVE  BodyOrEvicted'
      BY <1>14 DEF Untrack, Unchecked, workerVars, evictorVars, historyVars
<1>15. ASSUME NEW s \in Scanners, MoveToDlq(s)
       PROVE  BodyOrEvicted'
      BY <1>15 DEF MoveToDlq, workerVars, evictorVars, historyVars
<1>16. ASSUME NEW s \in Scanners, ReportDead(s)
       PROVE  BodyOrEvicted'
      BY <1>16 DEF ReportDead, EntryDone, workerVars, evictorVars
<1>17. ASSUME NEW s \in Scanners, RequeueBody(s)
       PROVE  BodyOrEvicted'
      BY <1>17 DEF RequeueBody, workerVars, evictorVars, historyVars
<1>18. ASSUME NEW s \in Scanners, RequeueEnqueue(s)
       PROVE  BodyOrEvicted'
      BY <1>18 DEF RequeueEnqueue, EntryDone, workerVars, evictorVars, historyVars
<1>19. ASSUME NEW s \in Scanners, ScanAbort(s)
       PROVE  BodyOrEvicted'
      BY <1>19 DEF ScanAbort, workerVars, evictorVars
<1>20. ASSUME NEW e \in Evictors, NEW ids \in SUBSET Jobs, EvictLook(e, ids)
       PROVE  BodyOrEvicted'
      BY <1>20 DEF EvictLook, workerVars, scannerVars, historyVars
<1>21. ASSUME NEW e \in Evictors, EvictRemove(e)
       PROVE  BodyOrEvicted'
      BY <1>21 DEF EvictRemove, workerVars, scannerVars
<1>22. ASSUME NEW e \in Evictors, EvictFinish(e)
       PROVE  BodyOrEvicted'
      BY <1>22 DEF EvictFinish, EvictBodies, EvictDone, workerVars, scannerVars
<1>23. CASE TakeResult
      BY <1>23 DEF TakeResult, workerVars, scannerVars, evictorVars, historyVars
<1> QED
      BY <1>1, <1>2, <1>3, <1>4, <1>5, <1>6, <1>7, <1>8, <1>9, <1>10, <1>11,
         <1>12, <1>13, <1>14, <1>15, <1>16, <1>17, <1>18, <1>19, <1>20, <1>21,
         <1>22, <1>23
      DEF JobQueueNext, QueueNext, Environment, WorkerStep, ScannerStep

(* Whoever gives a job up hands it on, reports it, or is counted as a loss. *)

LEMMA StepLost ==
    ASSUME QueueTypeOK, TrackedOnce, BodyOrEvicted, NothingLost,
        [JobQueueNext]_queueVars
    PROVE  NothingLost'
<1> USE JobQueueAssumption DEF NothingLost, Accounted, HeldByWorker, HeldByEntry,
    Finishing, QueueTypeOK, Field, Retry, Absent
<1>1. CASE UNCHANGED queueVars
      BY <1>1 DEF queueVars
<1>2. ASSUME NEW j \in Jobs, PushBody(j)
       PROVE  NothingLost'
      BY <1>2 DEF PushBody, workerVars, scannerVars, evictorVars
<1>3. ASSUME NEW j \in Jobs, PushEnqueue(j)
       PROVE  NothingLost'
      BY <1>3 DEF PushEnqueue, workerVars, scannerVars, evictorVars
<1>4. ASSUME NEW j \in Jobs, PushAbort(j)
       PROVE  NothingLost'
      BY <1>4 DEF PushAbort, workerVars, scannerVars, evictorVars, historyVars
<1>5. ASSUME NEW w \in Workers, Pop(w)
       PROVE  NothingLost'
  <2>1. ASSUME NEW i \in pushed  PROVE Accounted(i)'
    <3>1. CASE i \in queue \cup reported \cup evicted \cup lost
          BY <1>5, <3>1 DEF Pop, scannerVars, evictorVars, historyVars
    <3>2. ASSUME NEW x \in Workers,
                 HeldByWorker(i, x) \/ HeldByEntry(i, x) \/ Finishing(i, x)
          PROVE  Accounted(i)'
          BY <1>5, <3>2 DEF Pop, scannerVars, evictorVars, historyVars
    <3>3. ASSUME NEW t \in Scanners, sjob[t] = i
          PROVE  Accounted(i)'
          BY <1>5, <3>3 DEF Pop, scannerVars, evictorVars, historyVars
    <3>4. QED
          BY <3>1, <3>2, <3>3 DEF NothingLost, Accounted
  <2>2. QED
        BY <1>5, <2>1 DEF Pop, scannerVars, evictorVars, historyVars, NothingLost
<1>6. ASSUME NEW w \in Workers, Fetch(w)
       PROVE  NothingLost'
  <2>1. ASSUME NEW i \in pushed  PROVE Accounted(i)'
    <3>1. CASE i \in queue \cup reported \cup evicted \cup lost
          BY <1>6, <3>1 DEF Fetch, WorkerIdle, scannerVars, evictorVars, historyVars
    <3>2. ASSUME NEW x \in Workers,
                 HeldByWorker(i, x) \/ HeldByEntry(i, x) \/ Finishing(i, x)
          PROVE  Accounted(i)'
      <4>1. CASE jobs[wjob[w]] = Absent
        <5>1. wjob[w] \in evicted
              BY <1>6, <4>1 DEF Fetch, BodyOrEvicted, NeedsBody
        <5>2. WorkerIdle(w)
              BY <1>6, <4>1 DEF Fetch
        <5>3. QED
              BY <1>6, <3>2, <5>1, <5>2 DEF Fetch, WorkerIdle, scannerVars,
                  evictorVars, historyVars
      <4>2. CASE jobs[wjob[w]] # Absent
        <5>1. wpc' = [wpc EXCEPT ![w] = "fetched"] /\ wpc[w] = "popped" /\ UNCHANGED wjob
              BY <1>6, <4>2 DEF Fetch
        <5>2. UNCHANGED <<processing, historyVars>>
              BY <1>6 DEF Fetch
        <5>3. QED
              BY <3>2, <5>1, <5>2 DEF historyVars
      <4>3. QED
            BY <4>1, <4>2
    <3>3. ASSUME NEW t \in Scanners, sjob[t] = i
          PROVE  Accounted(i)'
          BY <1>6, <3>3 DEF Fetch, WorkerIdle, scannerVars, evictorVars, historyVars
    <3>4. QED
          BY <3>1, <3>2, <3>3 DEF NothingLost, Accounted
  <2>2. QED
        BY <1>6, <2>1 DEF Fetch, WorkerIdle, scannerVars, evictorVars, historyVars,
            NothingLost
<1>7. ASSUME NEW w \in Workers, ClearBody(w)
       PROVE  NothingLost'
      BY <1>7 DEF ClearBody, scannerVars, evictorVars
<1>8. ASSUME NEW w \in Workers, Track(w)
       PROVE  NothingLost'
  <2>1. ASSUME NEW i \in pushed  PROVE Accounted(i)'
    <3>1. CASE i \in queue \cup reported \cup evicted \cup lost
          BY <1>8, <3>1 DEF Track, scannerVars, evictorVars, historyVars
    <3>2. ASSUME NEW x \in Workers,
                 HeldByWorker(i, x) \/ HeldByEntry(i, x) \/ Finishing(i, x)
          PROVE  Accounted(i)'
          BY <1>8, <3>2 DEF Track, scannerVars, evictorVars, historyVars
    <3>3. ASSUME NEW t \in Scanners, sjob[t] = i
          PROVE  Accounted(i)'
          BY <1>8, <3>3 DEF Track, scannerVars, evictorVars, historyVars
    <3>4. QED
          BY <3>1, <3>2, <3>3 DEF NothingLost, Accounted
  <2>2. QED
        BY <1>8, <2>1 DEF Track, scannerVars, evictorVars, historyVars, NothingLost
<1>9. ASSUME NEW w \in Workers, Execute(w)
       PROVE  NothingLost'
  <2>1. ASSUME NEW i \in pushed  PROVE Accounted(i)'
    <3>1. CASE i \in queue \cup reported \cup evicted \cup lost
          BY <1>9, <3>1 DEF Execute, scannerVars, evictorVars, historyVars
    <3>2. ASSUME NEW x \in Workers,
                 HeldByWorker(i, x) \/ HeldByEntry(i, x) \/ Finishing(i, x)
          PROVE  Accounted(i)'
          BY <1>9, <3>2 DEF Execute, scannerVars, evictorVars, historyVars
    <3>3. ASSUME NEW t \in Scanners, sjob[t] = i
          PROVE  Accounted(i)'
          BY <1>9, <3>3 DEF Execute, scannerVars, evictorVars, historyVars
    <3>4. QED
          BY <3>1, <3>2, <3>3 DEF NothingLost, Accounted
  <2>2. QED
        BY <1>9, <2>1 DEF Execute, scannerVars, evictorVars, historyVars,
            NothingLost
<1>10. ASSUME NEW w \in Workers, Report(w)
       PROVE  NothingLost'
      BY <1>10 DEF Report, WorkerIdle, scannerVars, evictorVars
<1>11. ASSUME NEW w \in Workers, Crash(w)
       PROVE  NothingLost'
  <2>1. ASSUME NEW i \in pushed  PROVE Accounted(i)'
    <3>1. CASE i \in queue \cup reported \cup evicted \cup lost
          BY <1>11, <3>1 DEF Crash, WorkerIdle, scannerVars, evictorVars
    <3>2. ASSUME NEW x \in Workers,
                 HeldByWorker(i, x) \/ HeldByEntry(i, x) \/ Finishing(i, x)
          PROVE  Accounted(i)'
          BY <1>11, <3>2 DEF Crash, WorkerIdle, scannerVars, evictorVars
    <3>3. ASSUME NEW t \in Scanners, sjob[t] = i
          PROVE  Accounted(i)'
          BY <1>11, <3>3 DEF Crash, WorkerIdle, scannerVars, evictorVars
    <3>4. QED
          BY <3>1, <3>2, <3>3 DEF NothingLost, Accounted
  <2>2. QED
        BY <1>11, <2>1 DEF Crash, WorkerIdle, scannerVars, evictorVars, NothingLost
<1>12. ASSUME NEW w \in Workers, Cancel(w)
       PROVE  NothingLost'
  <2>1. ASSUME NEW i \in pushed  PROVE Accounted(i)'
    <3>1. CASE i \in queue \cup reported \cup evicted \cup lost
          BY <1>12, <3>1 DEF Cancel, WorkerIdle, scannerVars, evictorVars
    <3>2. ASSUME NEW x \in Workers,
                 HeldByWorker(i, x) \/ HeldByEntry(i, x) \/ Finishing(i, x)
          PROVE  Accounted(i)'
          BY <1>12, <3>2 DEF Cancel, WorkerIdle, scannerVars, evictorVars
    <3>3. ASSUME NEW t \in Scanners, sjob[t] = i
          PROVE  Accounted(i)'
          BY <1>12, <3>3 DEF Cancel, WorkerIdle, scannerVars, evictorVars
    <3>4. QED
          BY <3>1, <3>2, <3>3 DEF NothingLost, Accounted
  <2>2. QED
        BY <1>12, <2>1 DEF Cancel, WorkerIdle, scannerVars, evictorVars, NothingLost
<1>13. ASSUME NEW s \in Scanners, NEW w \in Workers, NEW stale \in SUBSET Jobs, ScanKey(s, w, stale)
       PROVE  NothingLost'
  <2>1. ASSUME NEW i \in pushed  PROVE Accounted(i)'
    <3>1. CASE i \in queue \cup reported \cup evicted \cup lost
          BY <1>13, <3>1 DEF ScanKey, Tracked, workerVars, evictorVars, historyVars
    <3>2. ASSUME NEW x \in Workers,
                 HeldByWorker(i, x) \/ HeldByEntry(i, x) \/ Finishing(i, x)
          PROVE  Accounted(i)'
          BY <1>13, <3>2 DEF ScanKey, Tracked, workerVars, evictorVars, historyVars
    <3>3. ASSUME NEW t \in Scanners, sjob[t] = i
          PROVE  Accounted(i)'
          BY <1>13, <3>3 DEF ScanKey, Tracked, workerVars, evictorVars, historyVars
    <3>4. QED
          BY <3>1, <3>2, <3>3 DEF NothingLost, Accounted
  <2>2. QED
        BY <1>13, <2>1 DEF ScanKey, Tracked, workerVars, evictorVars, historyVars,
            NothingLost
<1>14. ASSUME NEW s \in Scanners, NEW j \in Jobs, Untrack(s, j)
       PROVE  NothingLost'
  <2>1. ASSUME NEW i \in pushed  PROVE Accounted(i)'
    <3>1. CASE i \in queue \cup reported \cup evicted \cup lost
          BY <1>14, <3>1 DEF Untrack, Unchecked, workerVars, evictorVars,
              historyVars, TrackedOnce
    <3>2. ASSUME NEW x \in Workers,
                 HeldByWorker(i, x) \/ HeldByEntry(i, x) \/ Finishing(i, x)
          PROVE  Accounted(i)'
          BY <1>14, <3>2 DEF Untrack, Unchecked, workerVars, evictorVars,
              historyVars, TrackedOnce
    <3>3. ASSUME NEW t \in Scanners, sjob[t] = i
          PROVE  Accounted(i)'
          BY <1>14, <3>3 DEF Untrack, Unchecked, workerVars, evictorVars,
              historyVars, TrackedOnce
    <3>4. QED
          BY <3>1, <3>2, <3>3 DEF NothingLost, Accounted
  <2>2. QED
        BY <1>14, <2>1 DEF Untrack, Unchecked, workerVars, evictorVars, historyVars,
            NothingLost
<1>15. ASSUME NEW s \in Scanners, MoveToDlq(s)
       PROVE  NothingLost'
      BY <1>15 DEF MoveToDlq, workerVars, evictorVars, historyVars
<1>16. ASSUME NEW s \in Scanners, ReportDead(s)
       PROVE  NothingLost'
      BY <1>16 DEF ReportDead, EntryDone, workerVars, evictorVars
<1>17. ASSUME NEW s \in Scanners, RequeueBody(s)
       PROVE  NothingLost'
      BY <1>17 DEF RequeueBody, workerVars, evictorVars, historyVars
<1>18. ASSUME NEW s \in Scanners, RequeueEnqueue(s)
       PROVE  NothingLost'
      BY <1>18 DEF RequeueEnqueue, EntryDone, workerVars, evictorVars, historyVars
<1>19. ASSUME NEW s \in Scanners, ScanAbort(s)
       PROVE  NothingLost'
      BY <1>19 DEF ScanAbort, workerVars, evictorVars
<1>20. ASSUME NEW e \in Evictors, NEW ids \in SUBSET Jobs, EvictLook(e, ids)
       PROVE  NothingLost'
      BY <1>20 DEF EvictLook, workerVars, scannerVars, historyVars
<1>21. ASSUME NEW e \in Evictors, EvictRemove(e)
       PROVE  NothingLost'
      BY <1>21 DEF EvictRemove, workerVars, scannerVars
<1>22. ASSUME NEW e \in Evictors, EvictFinish(e)
       PROVE  NothingLost'
      BY <1>22 DEF EvictFinish, EvictBodies, EvictDone, workerVars, scannerVars
<1>23. CASE TakeResult
      BY <1>23 DEF TakeResult, workerVars, scannerVars, evictorVars, historyVars
<1> QED
      BY <1>1, <1>2, <1>3, <1>4, <1>5, <1>6, <1>7, <1>8, <1>9, <1>10, <1>11,
         <1>12, <1>13, <1>14, <1>15, <1>16, <1>17, <1>18, <1>19, <1>20, <1>21,
         <1>22, <1>23
      DEF JobQueueNext, QueueNext, Environment, WorkerStep, ScannerStep

LEMMA StepInv ==
    ASSUME OneScanner, QueueInv, [JobQueueNext]_queueVars
    PROVE  QueueInv'
<1>1. QueueTypeOK'
      BY StepType DEF QueueInv
<1>2. Unique'
      BY StepUnique DEF QueueInv
<1>3. RetriesCounted'
      BY StepCounted DEF QueueInv
<1>4. BodyOrEvicted'
      BY StepBody DEF QueueInv, Covered
<1>5. NothingLost'
      BY StepLost DEF QueueInv, Covered, Unique
<1>6. QED
      BY <1>1, <1>2, <1>3, <1>4, <1>5 DEF QueueInv, Covered

\* With one scanner the inductive invariant holds in every reachable state.
THEOREM QueueInvariant == OneScanner => (JobQueueSpec => []QueueInv)
<1> SUFFICES ASSUME OneScanner  PROVE JobQueueSpec => []QueueInv
    OBVIOUS
<1>1. QueueInit => QueueInv
      BY InitInv
<1>2. QueueInv /\ [JobQueueNext]_queueVars => QueueInv'
      BY StepInv
<1>3. QED
      BY <1>1, <1>2, PTL DEF JobQueueSpec

\* With one scanner no job is ever run more than MaxRetries + 1 times, for any
\* number of jobs, workers, evictions and crashes.
THEOREM AttemptsAreBounded == OneScanner => (JobQueueSpec => []AttemptsBounded)
<1>1. QueueInv => AttemptsBounded
      BY DEF QueueInv, RetriesCounted
<1>2. QED
      BY <1>1, QueueInvariant, PTL

\* With one scanner no job is given up before all its retries were run.
THEOREM DeadLettersAreExhausted == OneScanner => (JobQueueSpec => []DlqOnlyExhausted)
<1>1. QueueInv => DlqOnlyExhausted
      BY DEF QueueInv, RetriesCounted
<1>2. QED
      BY <1>1, QueueInvariant, PTL

\* With one scanner a job that was pushed is answered or still in some hand,
\* unless it was evicted or its holder crashed outside visibility tracking.
THEOREM NoJobIsLost == OneScanner => (JobQueueSpec => []NothingLost)
<1>1. QueueInv => NothingLost
      BY DEF QueueInv, Covered
<1>2. QED
      BY <1>1, QueueInvariant, PTL

-----------------------------------------------------------------------------
(***************************************************************************)
(* The pipeline: requests, results, cursor moves and billing events.       *)
(***************************************************************************)
(* The inductive invariants. Every id in anyone's hands was drawn by a SET   *)
(* NX (Drawn). An inflight key names a job with a claim that leads to a      *)
(* result (KeyOwned, for one scanner). Where nothing is requeued, a job is   *)
(* in one place at a time (OnePlace), and until a TTL runs out it holds the  *)
(* key of its variant (Exclusive).                                           *)

\* The ids drawn so far
Entered == {j \in Jobs : jobEntry[j] # None}

\* Whatever id a process or a key names, it was drawn, and its variant has a row
Drawn ==
    /\ queue \cup pushing \subseteq Entered
    /\ \A w \in Workers : wjob[w] # NoJob => wjob[w] \in Entered
    /\ \A w \in Workers : \A j \in Jobs : processing[w][j] # Absent => j \in Entered
    /\ \A s \in Scanners : sjob[s] # NoJob => sjob[s] \in Entered
    /\ \A s \in Scanners : \A j \in Jobs : snap[s][j] # Absent => j \in Entered
    /\ \A i \in 1 .. Len(results) : results[i].job \in Entered
    /\ \A e \in Evictors : eremoved[e] \subseteq Entered
    /\ \A c \in Conns : cjob[c] # NoJob => cjob[c] \in Entered
    /\ \A t \in Tasks : tres[t].job # NoJob => tres[t].job \in Entered
    /\ \A v \in Variants : inflight[v] # NoJob =>
           inflight[v] \in Entered /\ JobVariant(inflight[v]) = v
    /\ \A j \in Entered : JobVariant(j) \in rows
    /\ \A c \in Conns : centry[c] # None => VariantOf[centry[c]] \in rows

-----------------------------------------------------------------------------
(* The inflight key of a variant names a job that can give it back.         *)

ResultOf(j) == \E i \in 1 .. Len(results) : results[i].job = j
ClaimOf(j) == \E t \in Tasks : tpc[t] = "claim" /\ tres[t].job = j

\* Whoever holds j now leads to a result of j, unless an eviction or a crash
\* takes j. A worker whose processing entry the scanner took does not count.
Leads(j) ==
    \/ j \in queue \cup evicted \cup lost
    \/ \E w \in Workers :
          HeldByWorker(j, w) \/ HeldByEntry(j, w) \/ Finishing(j, w)
    \/ \E s \in Scanners : sjob[s] = j
    \/ \E c \in Conns : cjob[c] = j
    \/ ResultOf(j) \/ ClaimOf(j)

KeyOwned == \A v \in Variants : \A j \in Jobs : inflight[v] = j => Leads(j)

-----------------------------------------------------------------------------
(* Where no scanner requeues, a job passes through one hand after the other. *)

Worked(j) == \E w \in Workers : wjob[w] = j
Pushed(j) == \E c \in Conns : cjob[c] = j

\* A job on its way from its SET NX to the DEL of its result
Unresolved(j) ==
    j \in queue \/ Pushed(j) \/ Worked(j) \/ ResultOf(j) \/ ClaimOf(j)

OnePlace ==
    /\ pushing \subseteq {j \in Jobs : Pushed(j)}
    /\ \A c, d \in Conns : cjob[c] = cjob[d] /\ cjob[c] # NoJob => c = d
    /\ \A w, x \in Workers : wjob[w] = wjob[x] /\ wjob[w] # NoJob => w = x
    /\ \A i, k \in 1 .. Len(results) : results[i].job = results[k].job => i = k
    /\ \A t, u \in Tasks :
           tpc[t] = "claim" /\ tpc[u] = "claim" /\ tres[t].job = tres[u].job => t = u
    /\ \A j \in Jobs : Pushed(j) =>
           j \notin queue /\ ~Worked(j) /\ ~ResultOf(j) /\ ~ClaimOf(j)
    /\ \A j \in queue : ~Worked(j) /\ ~ResultOf(j) /\ ~ClaimOf(j)
    /\ \A j \in Jobs : Worked(j) => ~ResultOf(j) /\ ~ClaimOf(j)
    /\ \A j \in Jobs : ResultOf(j) => ~ClaimOf(j)

\* A job that an eviction took out of the queue is nowhere else, and one eviction has it
RemovedOnce ==
    /\ \A e \in Evictors : \A j \in eremoved[e] : ~Unresolved(j)
    /\ \A e, f \in Evictors : e # f => eremoved[e] \cap eremoved[f] = {}

\* Who is on the way to a result holds the key of its variant
HoldsKey == \A j \in Entered : Unresolved(j) => inflight[JobVariant(j)] = j

\* A key that an eviction is about to delete names a job that this eviction removed
OwnedKeys ==
    \A c \in Conns : \A v \in cowned[c] :
        /\ inflight[v] # NoJob
        /\ \A j \in Jobs : inflight[v] = j =>
               ~Unresolved(j) /\ \A e \in Evictors : j \notin eremoved[e]
        /\ \A d \in Conns : v \in cowned[d] => d = c

Exclusive ==
    /\ OnePlace /\ RemovedOnce
    /\ expiries = 0 => HoldsKey /\ OwnedKeys

-----------------------------------------------------------------------------
(* What the pipeline does to the queue: a step of JobQueue, or one of the    *)
(* steps the queue alone does not have, an eviction that ends elsewhere and  *)
(* the death of a connection or a result task.                               *)

\* Neither takes a claim out of the queue's hands or makes one
BesideQueue ==
    /\ UNCHANGED <<queue, processing, results, dlq, workerVars, scannerVars>>
    /\ UNCHANGED <<born, pushed, attempts, reported>>
    /\ pushing' \subseteq pushing
    /\ jobs' \in [Jobs -> Field]
    /\ \A j \in Jobs : jobs'[j] = jobs[j] \/ (jobs'[j] = Absent /\ j \in evicted')
    /\ lost \subseteq lost' /\ lost' \subseteq Jobs
    /\ evicted \subseteq evicted' /\ evicted' \subseteq Jobs
    /\ crashes' \in 0 .. MaxCrashes
    /\ epc' \in [Evictors -> {"idle", "looked", "removed"}]
    /\ ehas' \in [Evictors -> SUBSET Jobs]
    /\ eremoved' \in [Evictors -> SUBSET Jobs]

LEMMA CursorStepOnQueue ==
    ASSUME TypeOK, NEW c \in Conns, CursorStep(c)
    PROVE  [JobQueueNext]_queueVars \/ BesideQueue
<1> USE DEF TypeOK
<1>1. CASE DropPending(c) \/ ReadIndex(c) \/ ReleaseInflight(c)
      BY <1>1 DEF DropPending, ReadIndex, ReleaseInflight
<1>2. CASE LookForJobs(c)
  <2>1. c \in Evictors
        BY <1>2 DEF LookForJobs, ConnsTypeOK
  <2>2. {a[2] : a \in cactive[c]} \in SUBSET Jobs
        BY DEF ConnsTypeOK
  <2>3. QED
        BY <1>2, <2>1, <2>2 DEF LookForJobs, JobQueueNext, Environment
<1>3. CASE ZRemJobs(c)
  <2>1. c \in Evictors
        BY <1>3 DEF ZRemJobs, ConnsTypeOK
  <2>2. QED
        BY <1>3, <2>1 DEF ZRemJobs, JobQueueNext, Environment
<1>4. CASE HDelJobs(c)
  <2>1. c \in Evictors
        BY <1>4 DEF HDelJobs, ConnsTypeOK
  <2>2. CASE EvictDone(c)
        BY <1>4, <2>1, <2>2 DEF HDelJobs, JobQueueNext, Environment, EvictFinish
  <2>3. CASE UNCHANGED <<epc, eremoved>>
        BY <1>4, <2>1, <2>3
        DEF HDelJobs, EvictBodies, BesideQueue, QueueTypeOK, Field, workerVars, scannerVars
  <2>4. QED
        BY <1>4, <2>2, <2>3 DEF HDelJobs
<1>5. CASE ReadOwners(c)
      BY <1>5 DEF ReadOwners, EvictDone, BesideQueue, QueueTypeOK, historyVars
<1>6. QED
      BY <1>1, <1>2, <1>3, <1>4, <1>5 DEF CursorStep

LEMMA FailureOnQueue ==
    ASSUME TypeOK,
           \/ \E c \in Conns : ConnAbort(c)
           \/ \E t \in Tasks : TaskFail(t) \/ TaskDie(t)
    PROVE  BesideQueue
<1> USE JobQueueAssumption DEF TypeOK, QueueTypeOK
<1>1. ASSUME NEW c \in Conns, ConnAbort(c)  PROVE BesideQueue
  <2>1. lost \subseteq lost' /\ lost' \subseteq Jobs
        BY <1>1 DEF ConnAbort, ConnsTypeOK
  <2>2. crashes' \in 0 .. MaxCrashes /\ pushing' \subseteq pushing
        BY <1>1 DEF ConnAbort
  <2>3. /\ epc' \in [Evictors -> {"idle", "looked", "removed"}]
        /\ ehas' \in [Evictors -> SUBSET Jobs]
        /\ eremoved' \in [Evictors -> SUBSET Jobs]
        BY <1>1 DEF ConnAbort
  <2>4. QED
        BY <1>1, <2>1, <2>2, <2>3 DEF ConnAbort, BesideQueue
<1>2. ASSUME NEW t \in Tasks, TaskFail(t)  PROVE BesideQueue
      BY <1>2 DEF TaskFail, BesideQueue, TasksTypeOK, evictorVars
<1>3. ASSUME NEW t \in Tasks, TaskDie(t)  PROVE BesideQueue
      BY <1>3 DEF TaskDie, BesideQueue, TasksTypeOK, evictorVars
<1>4. QED
      BY <1>1, <1>2, <1>3

LEMMA StepOnQueue ==
    ASSUME TypeOK, [Next]_vars
    PROVE  [JobQueueNext]_queueVars \/ BesideQueue
<1>1. CASE UNCHANGED vars
      BY <1>1 DEF vars
<1>2. CASE QueueStep
      BY <1>2 DEF QueueStep, JobQueueNext
<1>3. ASSUME NEW c \in Conns, ListenerStep(c)  PROVE UNCHANGED queueVars
      BY <1>3 DEF ListenerStep, Request, AnswerAtOnce, ReadPending
<1>4. ASSUME NEW c \in Conns, SynthesizeStep(c)  PROVE [JobQueueNext]_queueVars
  <2>1. CASE \/ Subscribe(c) \/ AddPending(c) \/ Join(c)
             \/ \E j \in Jobs : ClaimInflight(c, j)
             \/ HSetIndex(c)
        BY <2>1 DEF Subscribe, AddPending, Join, ClaimInflight, HSetIndex
  <2>2. CASE HSetJob(c)
    <3>1. cjob[c] \in Jobs
          BY <2>2 DEF HSetJob, TypeOK, ConnsTypeOK
    <3>2. QED
          BY <2>2, <3>1 DEF HSetJob, JobQueueNext, Environment
  <2>3. CASE ZAddJob(c)
    <3>1. cjob[c] \in Jobs
          BY <2>3 DEF ZAddJob, TypeOK, ConnsTypeOK
    <3>2. QED
          BY <2>3, <3>1 DEF ZAddJob, JobQueueNext, Environment
  <2>4. QED
        BY <1>4, <2>1, <2>2, <2>3 DEF SynthesizeStep
<1>5. ASSUME NEW t \in Tasks, TaskStep(t)  PROVE [JobQueueNext]_queueVars
  <2>1. CASE PopResult(t)
        BY <2>1 DEF PopResult, JobQueueNext, Environment, TakeResult
  <2>2. CASE ~PopResult(t)
        BY <1>5, <2>2 DEF TaskStep, ClaimResult, StoreAudio, CollectSubs, Unpend,
            Publish, DropSubs, Bill, Persist
  <2>3. QED
        BY <2>1, <2>2
<1>6. ASSUME \/ \E v \in Variants : Expire(v)
             \/ \E c \in Conns : ExpirePending(ConnDoc[c])
      PROVE  UNCHANGED queueVars
      BY <1>6 DEF Expire, ExpirePending
<1>7. QED
      BY <1>1, <1>2, <1>3, <1>4, <1>5, <1>6, CursorStepOnQueue, FailureOnQueue DEF Next

LEMMA BesideQueueType == QueueTypeOK /\ BesideQueue => QueueTypeOK'
BY DEF QueueTypeOK, BesideQueue, workerVars, scannerVars

LEMMA BesideQueueInv == QueueInv /\ BesideQueue => QueueInv'
<1> SUFFICES ASSUME QueueInv, BesideQueue  PROVE QueueInv'
    OBVIOUS
<1> USE DEF QueueInv, BesideQueue, workerVars, scannerVars
<1>1. QueueTypeOK'
      BY BesideQueueType
<1>2. Unique'
      BY JobQueueAssumption
      DEF Unique, UnbornNowhere, WaitingAlone, PulledAlone, TrackedOnce, InHandOnce,
          InScan, HeldByWorker, HeldByEntry
<1>3. RetriesCounted'
      BY DEF RetriesCounted, BodyCounts, PullCounts, EntryCounts, ScanCounts, AttemptsBounded,
             DlqOnlyExhausted, QueueTypeOK, Absent, Field, Retry
<1>4. BodyOrEvicted'
      BY DEF Covered, BodyOrEvicted, NeedsBody
<1>5. NothingLost'
      BY DEF Covered, NothingLost, Accounted, HeldByWorker, HeldByEntry, Finishing
<1>6. QED
      BY <1>1, <1>2, <1>3, <1>4, <1>5 DEF Covered

-----------------------------------------------------------------------------
(* Type correctness, for any number of scanners.                             *)

LEMMA PipelineInitType == Init => TypeOK /\ Drawn
<1> SUFFICES ASSUME Init  PROVE TypeOK /\ Drawn
    OBVIOUS
<1> USE JobQueueAssumption, PipelineAssumption
<1>1. QueueTypeOK
      BY InitType DEF Init
<1>2. KeysTypeOK
      BY DEF Init, QueueInit, KeysTypeOK
<1>3. ConnsTypeOK /\ TasksTypeOK
      BY DEF Init, ConnsTypeOK, TasksTypeOK, NoResult, Result, Outcomes
<1>4. Drawn
      BY DEF Init, QueueInit, Drawn, NoResult, Result, Absent, Entered
<1>5. QED
      BY <1>1, <1>2, <1>3, <1>4 DEF TypeOK

\* The queue's own steps draw and push no job
LEMMA QueueNextDraws ==
    QueueNext => UNCHANGED <<born, pushed, pushing, evictorVars>>
BY DEF QueueNext, WorkerStep, ScannerStep, Pop, Fetch, ClearBody, Track, Execute, Report,
       Crash, Cancel, ScanKey, Untrack, MoveToDlq, ReportDead, RequeueBody, RequeueEnqueue,
       ScanAbort, historyVars

\* A job that was drawn is for an entry, whose block has a variant
LEMMA EnteredHasVariant ==
    ASSUME KeysTypeOK, NEW j \in Entered
    PROVE  JobVariant(j) \in Variants
BY PipelineAssumption DEF KeysTypeOK, Entered, JobVariant

LEMMA StepConnsType ==
    ASSUME TypeOK, Drawn, [Next]_vars
    PROVE  ConnsTypeOK'
<1> USE JobQueueAssumption, PipelineAssumption DEF TypeOK, ConnsTypeOK
<1>1. CASE UNCHANGED connVars
      BY <1>1 DEF connVars
<1>2. ASSUME NEW c \in Conns, ListenerStep(c)  PROVE ConnsTypeOK'
  <2>1. ASSUME NEW e \in Entries, Request(c, e)  PROVE ConnsTypeOK'
        BY <2>1 DEF Request
  <2>2. ASSUME NEW e \in Entries, AnswerAtOnce(c, e)  PROVE ConnsTypeOK'
        BY <2>2 DEF AnswerAtOnce, connVars
  <2>3. CASE ReadPending(c)
        BY <2>3 DEF ReadPending, KeysTypeOK
  <2>4. QED
        BY <1>2, <2>1, <2>2, <2>3 DEF ListenerStep
<1>3. ASSUME NEW c \in Conns, SynthesizeStep(c)  PROVE ConnsTypeOK'
  <2>1. CASE Subscribe(c)
        BY <2>1 DEF Subscribe
  <2>2. CASE AddPending(c)
        BY <2>2 DEF AddPending
  <2>3. CASE Join(c)
        BY <2>3 DEF Join, ConnIdle
  <2>4. ASSUME NEW j \in Jobs, ClaimInflight(c, j)  PROVE ConnsTypeOK'
        BY <2>4 DEF ClaimInflight
  <2>5. CASE HSetJob(c)
        BY <2>5 DEF HSetJob
  <2>6. CASE HSetIndex(c)
        BY <2>6 DEF HSetIndex
  <2>7. CASE ZAddJob(c)
        BY <2>7 DEF ZAddJob, ConnIdle
  <2>8. QED
        BY <1>3, <2>1, <2>2, <2>3, <2>4, <2>5, <2>6, <2>7 DEF SynthesizeStep
<1>4. ASSUME NEW c \in Conns, CursorStep(c)  PROVE ConnsTypeOK'
  <2>1. CASE DropPending(c)
        BY <2>1 DEF DropPending
  <2>2. CASE ReadIndex(c)
    <3>1. CASE TellEvicted(c)
          BY <2>2, <3>1 DEF ReadIndex, TellEvicted
    <3>2. CASE ~TellEvicted(c)
      <4> DEFINE active == {e \in cevict[c] : jobIndex[e] # NoJob}
      <4>1. \A e \in active : e \in Entries /\ jobIndex[e] \in Jobs
            BY DEF KeysTypeOK
      <4>2. {<<e, jobIndex[e]>> : e \in active} \in SUBSET (Entries \X Jobs)
            BY <4>1
      <4>3. /\ cactive' = [cactive EXCEPT ![c] = {<<e, jobIndex[e]>> : e \in active}]
            /\ cpc[c] = "readindex" /\ cpc' = [cpc EXCEPT ![c] = "look"]
            /\ UNCHANGED <<centry, cjob, cevict, cowned>>
            BY <2>2, <3>2 DEF ReadIndex
      <4> HIDE DEF active
      <4>4. QED
            BY <4>2, <4>3
    <3>3. QED
          BY <3>1, <3>2
  <2>3. CASE LookForJobs(c)
        BY <2>3 DEF LookForJobs
  <2>4. CASE ZRemJobs(c)
        BY <2>4 DEF ZRemJobs
  <2>5. CASE HDelJobs(c)
        BY <2>5 DEF HDelJobs, TellEvicted
  <2>6. CASE ReadOwners(c)
    <3> DEFINE owned == {JobVariant(j) : j \in {i \in eremoved[c] : inflight[JobVariant(i)] = i}}
    <3>1. owned \subseteq Variants
      <4>1. c \in Evictors
            BY <2>6 DEF ReadOwners
      <4>2. eremoved[c] \subseteq Entered
            BY <4>1 DEF Drawn
      <4>3. QED
            BY <4>2, EnteredHasVariant
    <3>2. QED
          BY <2>6, <3>1 DEF ReadOwners
  <2>7. CASE ReleaseInflight(c)
        BY <2>7 DEF ReleaseInflight, TellEvicted
  <2>8. QED
        BY <1>4, <2>1, <2>2, <2>3, <2>4, <2>5, <2>6, <2>7 DEF CursorStep
<1>5. ASSUME NEW c \in Conns, ConnAbort(c)  PROVE ConnsTypeOK'
      BY <1>5 DEF ConnAbort, ConnIdle
<1>6. ASSUME \/ UNCHANGED vars
             \/ QueueStep
             \/ \E t \in Tasks : TaskStep(t) \/ TaskFail(t) \/ TaskDie(t)
             \/ \E v \in Variants : Expire(v)
             \/ \E c \in Conns : ExpirePending(ConnDoc[c])
      PROVE  UNCHANGED connVars
      BY <1>6 DEF vars, pipeVars, connVars, QueueStep, TaskStep, PopResult, ClaimResult,
          StoreAudio, CollectSubs, Unpend, Publish, DropSubs, Bill, Persist, TaskFail,
          TaskDie, Expire, ExpirePending
<1>7. QED
      BY <1>1, <1>2, <1>3, <1>4, <1>5, <1>6 DEF Next

\* The result in a task's hands is of a variant that was asked for
LEMMA ResultHasVariant ==
    ASSUME TypeOK, Drawn, NEW t \in Tasks, tpc[t] # "idle"
    PROVE  /\ tres[t].job \in Entered
           /\ JobVariant(tres[t].job) \in rows
           /\ JobVariant(tres[t].job) \in Variants
<1>1. tres[t].job \in Entered
      BY DEF TypeOK, TasksTypeOK, Drawn
<1>2. JobVariant(tres[t].job) \in rows
      BY <1>1 DEF Drawn
<1>3. QED
      BY <1>1, <1>2 DEF TypeOK, KeysTypeOK

LEMMA StepTasksType ==
    ASSUME TypeOK, Drawn, [Next]_vars
    PROVE  TasksTypeOK'
<1> USE JobQueueAssumption, PipelineAssumption DEF TypeOK, TasksTypeOK, Outcomes
<1>1. CASE UNCHANGED taskVars
      BY <1>1 DEF taskVars
<1>2. ASSUME NEW t \in Tasks, TaskStep(t)  PROVE TasksTypeOK'
  <2>1. CASE PopResult(t)
    <3>1. Head(results) \in [job : Jobs, outcome : Outcomes]
      <4> DEFINE R == [job : Jobs, outcome : Outcomes]
      <4>1. results \in Seq(R) /\ results # <<>>
            BY <2>1 DEF PopResult, QueueTypeOK
      <4> HIDE DEF R
      <4>2. Head(results) \in R
            BY <4>1
      <4>3. QED
            BY <4>2 DEF R
    <3>2. QED
          BY <2>1, <3>1 DEF PopResult
  <2>2. CASE ClaimResult(t)
    <3>1. CASE TaskIdle(t)
          BY <2>2, <3>1 DEF ClaimResult, TaskIdle, NoResult, Result
    <3>2. CASE ~TaskIdle(t)
          BY <2>2, <3>2 DEF ClaimResult
    <3>3. QED
          BY <3>1, <3>2
  <2>3. CASE StoreAudio(t)
        BY <2>3 DEF StoreAudio
  <2>4. CASE CollectSubs(t)
    <3>1. subs[JobVariant(tres[t].job)] \in SUBSET Entries
          BY <2>4, ResultHasVariant DEF CollectSubs, KeysTypeOK
    <3>2. QED
          BY <2>4, <3>1 DEF CollectSubs
  <2>5. ASSUME NEW e \in Entries, Unpend(t, e)  PROVE TasksTypeOK'
        BY <2>5 DEF Unpend
  <2>6. CASE Publish(t)
        BY <2>6 DEF Publish
  <2>7. CASE DropSubs(t)
    <3>1. CASE TaskIdle(t)
          BY <2>7, <3>1 DEF DropSubs, TaskIdle, NoResult, Result
    <3>2. CASE ~TaskIdle(t)
          BY <2>7, <3>2 DEF DropSubs
    <3>3. QED
          BY <3>1, <3>2
  <2>8. CASE Bill(t)
        BY <2>8 DEF Bill
  <2>9. CASE Persist(t)
        BY <2>9 DEF Persist, TaskIdle, NoResult, Result
  <2>10. QED
        BY <1>2, <2>1, <2>2, <2>3, <2>4, <2>5, <2>6, <2>7, <2>8, <2>9 DEF TaskStep
<1>3. ASSUME NEW t \in Tasks, TaskFail(t)  PROVE TasksTypeOK'
      BY <1>3 DEF TaskFail
<1>4. ASSUME NEW t \in Tasks, TaskDie(t)  PROVE TasksTypeOK'
      BY <1>4 DEF TaskDie, TaskIdle, NoResult, Result
<1>5. ASSUME \/ UNCHANGED vars
             \/ QueueStep
             \/ \E c \in Conns : ListenerStep(c) \/ SynthesizeStep(c) \/ CursorStep(c) \/ ConnAbort(c)
             \/ \E v \in Variants : Expire(v)
             \/ \E c \in Conns : ExpirePending(ConnDoc[c])
      PROVE  UNCHANGED taskVars
      BY <1>5 DEF vars, pipeVars, QueueStep, taskVars, ListenerStep, Request, AnswerAtOnce,
          ReadPending, SynthesizeStep, Subscribe, AddPending, Join, ClaimInflight, HSetJob,
          HSetIndex, ZAddJob, CursorStep, DropPending, ReadIndex, LookForJobs, ZRemJobs,
          HDelJobs, ReadOwners, ReleaseInflight, ConnAbort, Expire, ExpirePending
<1>6. QED
      BY <1>1, <1>2, <1>3, <1>4, <1>5 DEF Next

LEMMA StepKeysType ==
    ASSUME TypeOK, Drawn, [Next]_vars
    PROVE  KeysTypeOK'
<1> USE JobQueueAssumption, PipelineAssumption DEF TypeOK, KeysTypeOK, ConnsTypeOK
<1>1. CASE UNCHANGED vars
      BY <1>1 DEF vars, queueVars, pipeVars
<1>2. CASE QueueStep
      BY <1>2, QueueNextDraws DEF QueueStep, pipeVars
<1>3. ASSUME NEW c \in Conns, ListenerStep(c)  PROVE KeysTypeOK'
  <2>1. ASSUME NEW e \in Entries, Request(c, e)  PROVE KeysTypeOK'
        BY <2>1 DEF Request, queueVars
  <2>2. ASSUME NEW e \in Entries, AnswerAtOnce(c, e)  PROVE KeysTypeOK'
        BY <2>2 DEF AnswerAtOnce, queueVars
  <2>3. CASE ReadPending(c)
        BY <2>3 DEF ReadPending, queueVars
  <2>4. QED
        BY <1>3, <2>1, <2>2, <2>3 DEF ListenerStep
<1>4. ASSUME NEW c \in Conns, SynthesizeStep(c)  PROVE KeysTypeOK'
  <2>1. CASE Subscribe(c)
        BY <2>1 DEF Subscribe, queueVars
  <2>2. CASE AddPending(c)
        BY <2>2 DEF AddPending, queueVars
  <2>3. CASE Join(c)
        BY <2>3 DEF Join, queueVars
  <2>4. ASSUME NEW j \in Jobs, ClaimInflight(c, j)  PROVE KeysTypeOK'
        BY <2>4 DEF ClaimInflight, queueVars
  <2>5. CASE HSetJob(c)
        BY <2>5 DEF HSetJob, PushBody, Drawn, Entered
  <2>6. CASE HSetIndex(c)
        BY <2>6 DEF HSetIndex, queueVars
  <2>7. CASE ZAddJob(c)
        BY <2>7 DEF ZAddJob, PushEnqueue
  <2>8. QED
        BY <1>4, <2>1, <2>2, <2>3, <2>4, <2>5, <2>6, <2>7 DEF SynthesizeStep
<1>5. ASSUME NEW c \in Conns, CursorStep(c)  PROVE KeysTypeOK'
  <2>1. CASE DropPending(c)
        BY <2>1 DEF DropPending, queueVars
  <2>2. CASE ReadIndex(c)
        BY <2>2 DEF ReadIndex, TellEvicted, queueVars
  <2>3. CASE LookForJobs(c)
        BY <2>3 DEF LookForJobs, EvictLook, historyVars
  <2>4. CASE ZRemJobs(c)
        BY <2>4 DEF ZRemJobs, EvictRemove
  <2>5. CASE HDelJobs(c)
        BY <2>5 DEF HDelJobs, EvictBodies, TellEvicted
  <2>6. CASE ReadOwners(c)
        BY <2>6 DEF ReadOwners, historyVars
  <2>7. CASE ReleaseInflight(c)
        BY <2>7 DEF ReleaseInflight, TellEvicted, queueVars
  <2>8. QED
        BY <1>5, <2>1, <2>2, <2>3, <2>4, <2>5, <2>6, <2>7 DEF CursorStep
<1>6. ASSUME NEW c \in Conns, ConnAbort(c)  PROVE KeysTypeOK'
      BY <1>6 DEF ConnAbort
<1>7. ASSUME NEW t \in Tasks, TaskStep(t)  PROVE KeysTypeOK'
  <2> USE DEF TasksTypeOK
  <2>1. CASE PopResult(t)
        BY <2>1 DEF PopResult, historyVars
  <2>2. CASE ClaimResult(t)
        BY <2>2 DEF ClaimResult, queueVars
  <2>3. CASE StoreAudio(t)
    <3>1. JobVariant(tres[t].job) \in rows
          BY <2>3, ResultHasVariant DEF StoreAudio
    <3>2. QED
          BY <2>3, <3>1 DEF StoreAudio, queueVars
  <2>4. CASE CollectSubs(t)
        BY <2>4 DEF CollectSubs, queueVars
  <2>5. ASSUME NEW e \in Entries, Unpend(t, e)  PROVE KeysTypeOK'
        BY <2>5 DEF Unpend, queueVars
  <2>6. CASE Publish(t)
        BY <2>6 DEF Publish, queueVars
  <2>7. CASE DropSubs(t)
        BY <2>7 DEF DropSubs, queueVars
  <2>8. CASE Bill(t)
    <3>1. JobVariant(tres[t].job) \in Variants
          BY <2>8, ResultHasVariant DEF Bill
    <3>2. QED
          BY <2>8, <3>1 DEF Bill, queueVars
  <2>9. CASE Persist(t)
    <3>1. JobVariant(tres[t].job) \in Variants
          BY <2>9, ResultHasVariant DEF Persist
    <3>2. QED
          BY <2>9, <3>1 DEF Persist, queueVars
  <2>10. QED
        BY <1>7, <2>1, <2>2, <2>3, <2>4, <2>5, <2>6, <2>7, <2>8, <2>9 DEF TaskStep
<1>8. ASSUME NEW t \in Tasks, TaskFail(t) \/ TaskDie(t)  PROVE KeysTypeOK'
      BY <1>8 DEF TaskFail, TaskDie
<1>9. ASSUME NEW v \in Variants, Expire(v)  PROVE KeysTypeOK'
      BY <1>9 DEF Expire, queueVars
<1>10. ASSUME NEW c \in Conns, ExpirePending(ConnDoc[c])  PROVE KeysTypeOK'
      BY <1>10 DEF ExpirePending, queueVars
<1>11. QED
      BY <1>1, <1>2, <1>3, <1>4, <1>5, <1>6, <1>7, <1>8, <1>9, <1>10 DEF Next

LEMMA QueueStepDrawn ==
    ASSUME TypeOK, Drawn, QueueStep
    PROVE  Drawn'
<1> USE DEF TypeOK, QueueTypeOK, Drawn
<1>1. UNCHANGED <<Entered, rows, inflight, jobEntry, centry, cjob, tres, eremoved, pushing>>
      BY QueueNextDraws DEF QueueStep, pipeVars, connVars, taskVars, evictorVars, Entered
<1> DEFINE
      Kept == /\ \A c \in Conns : cjob[c] # NoJob => cjob[c] \in Entered
              /\ \A t \in Tasks : tres[t].job # NoJob => tres[t].job \in Entered
              /\ \A v \in Variants : inflight[v] # NoJob =>
                     inflight[v] \in Entered /\ JobVariant(inflight[v]) = v
              /\ \A j \in Entered : JobVariant(j) \in rows
              /\ \A c \in Conns : centry[c] # None => VariantOf[centry[c]] \in rows
              /\ \A e \in Evictors : eremoved[e] \subseteq Entered
<1>2. Kept'
      BY <1>1 DEF JobVariant
<1> DEFINE
      Hands == /\ queue \cup pushing \subseteq Entered
               /\ \A w \in Workers : wjob[w] # NoJob => wjob[w] \in Entered
               /\ \A w \in Workers : \A j \in Jobs : processing[w][j] # Absent => j \in Entered
               /\ \A s \in Scanners : sjob[s] # NoJob => sjob[s] \in Entered
               /\ \A s \in Scanners : \A j \in Jobs : snap[s][j] # Absent => j \in Entered
               /\ \A i \in 1 .. Len(results) : results[i].job \in Entered
<1>3. Hands'
  <2> USE <1>1, JobQueueAssumption
  <2>1. ASSUME NEW w \in Workers, Pop(w)  PROVE Hands'
        BY <2>1 DEF Pop, scannerVars
  <2>2. ASSUME NEW w \in Workers, Fetch(w)  PROVE Hands'
    <3>1. CASE WorkerIdle(w)
          BY <2>2, <3>1 DEF Fetch, WorkerIdle, scannerVars
    <3>2. CASE ~WorkerIdle(w)
          BY <2>2, <3>2 DEF Fetch, scannerVars
    <3>3. QED
          BY <3>1, <3>2
  <2>3. ASSUME NEW w \in Workers, ClearBody(w)  PROVE Hands'
        BY <2>3 DEF ClearBody, scannerVars
  <2>4. ASSUME NEW w \in Workers, Track(w)  PROVE Hands'
        BY <2>4 DEF Track, scannerVars
  <2>5. ASSUME NEW w \in Workers, Execute(w)  PROVE Hands'
        BY <2>5 DEF Execute, scannerVars
  <2>6. ASSUME NEW w \in Workers, Report(w)  PROVE Hands'
        BY <2>6 DEF Report, WorkerIdle, Result, scannerVars
  <2>7. ASSUME NEW w \in Workers, Crash(w)  PROVE Hands'
        BY <2>7 DEF Crash, WorkerIdle, scannerVars
  <2>8. ASSUME NEW w \in Workers, Cancel(w)  PROVE Hands'
        BY <2>8 DEF Cancel, WorkerIdle, scannerVars
  <2>9. ASSUME NEW s \in Scanners, NEW w \in Workers, NEW stale \in SUBSET Jobs,
               ScanKey(s, w, stale)
        PROVE  Hands'
        BY <2>9 DEF ScanKey, Tracked, workerVars
  <2>10. ASSUME NEW s \in Scanners, NEW j \in Jobs, Untrack(s, j)  PROVE Hands'
        BY <2>10 DEF Untrack, Unchecked, workerVars
  <2>11. ASSUME NEW s \in Scanners, MoveToDlq(s)  PROVE Hands'
        BY <2>11 DEF MoveToDlq, workerVars
  <2>12. ASSUME NEW s \in Scanners, ReportDead(s)  PROVE Hands'
        BY <2>12 DEF ReportDead, EntryDone, Result, workerVars
  <2>13. ASSUME NEW s \in Scanners, RequeueBody(s)  PROVE Hands'
        BY <2>13 DEF RequeueBody, workerVars
  <2>14. ASSUME NEW s \in Scanners, RequeueEnqueue(s)  PROVE Hands'
        BY <2>14 DEF RequeueEnqueue, EntryDone, workerVars
  <2>15. ASSUME NEW s \in Scanners, ScanAbort(s)  PROVE Hands'
        BY <2>15 DEF ScanAbort, workerVars
  <2>16. QED
        BY <2>1, <2>2, <2>3, <2>4, <2>5, <2>6, <2>7, <2>8, <2>9, <2>10, <2>11, <2>12,
           <2>13, <2>14, <2>15
        DEF QueueStep, QueueNext, WorkerStep, ScannerStep
<1>4. QED
      BY <1>2, <1>3

LEMMA StepDrawn ==
    ASSUME TypeOK, Drawn, [Next]_vars
    PROVE  Drawn'
<1> USE JobQueueAssumption, PipelineAssumption
    DEF TypeOK, KeysTypeOK, ConnsTypeOK, TasksTypeOK, Drawn, Entered, JobVariant
<1>1. CASE UNCHANGED vars
      BY <1>1 DEF vars, queueVars, pipeVars, workerVars, scannerVars, evictorVars, connVars,
          taskVars
<1>2. CASE QueueStep
      BY <1>2, QueueStepDrawn
<1>3. ASSUME NEW c \in Conns, ListenerStep(c)  PROVE Drawn'
  <2> USE DEF queueVars, taskVars
  <2>1. ASSUME NEW e \in Entries, Request(c, e)  PROVE Drawn'
        BY <2>1 DEF Request
  <2>2. ASSUME NEW e \in Entries, AnswerAtOnce(c, e)  PROVE Drawn'
        BY <2>2 DEF AnswerAtOnce, connVars
  <2>3. CASE ReadPending(c)
        BY <2>3 DEF ReadPending
  <2>4. QED
        BY <1>3, <2>1, <2>2, <2>3 DEF ListenerStep
<1>4. ASSUME NEW c \in Conns, SynthesizeStep(c)  PROVE Drawn'
  <2> USE DEF queueVars, taskVars, workerVars, scannerVars, evictorVars
  <2>1. CASE Subscribe(c)
        BY <2>1 DEF Subscribe
  <2>2. CASE AddPending(c)
        BY <2>2 DEF AddPending
  <2>3. CASE Join(c)
        BY <2>3 DEF Join, ConnIdle
  <2>4. ASSUME NEW j \in Jobs, ClaimInflight(c, j)  PROVE Drawn'
    <3>1. centry[c] \in Entries
          BY <2>4 DEF ClaimInflight
    <3>2. jobEntry' = [jobEntry EXCEPT ![j] = centry[c]]
          BY <2>4 DEF ClaimInflight
    <3>3. \A i \in Entered : i # j /\ i \in Entered' /\ jobEntry'[i] = jobEntry[i]
          BY <2>4, <3>1, <3>2 DEF ClaimInflight
    <3>4. j \in Entered' /\ jobEntry'[j] = centry[c]
          BY <3>1, <3>2
    <3>5. \A i \in Entered' : i = j \/ i \in Entered
          BY <3>2
    <3>6. \A v \in Variants : inflight'[v] # NoJob =>
             inflight'[v] \in Entered' /\ VariantOf[jobEntry'[inflight'[v]]] = v
          BY <2>4, <3>3, <3>4 DEF ClaimInflight
    <3>7. \A i \in Entered' : VariantOf[jobEntry'[i]] \in rows'
          BY <2>4, <3>3, <3>4, <3>5 DEF ClaimInflight
    <3>8. \A d \in Conns : cjob'[d] # NoJob => cjob'[d] \in Entered'
          BY <2>4, <3>3, <3>4 DEF ClaimInflight
    <3>9. \A i \in 1 .. Len(results') : results'[i].job \in Entered'
          BY <2>4, <3>3 DEF ClaimInflight
    <3>10. UNCHANGED <<queue, pushing, processing, workerVars, scannerVars, evictorVars, taskVars,
                       rows, centry>>
          BY <2>4 DEF ClaimInflight
    <3> HIDE DEF Entered, TypeOK
    <3>11. QED
          BY <3>3, <3>6, <3>7, <3>8, <3>9, <3>10
  <2>5. CASE HSetJob(c)
        BY <2>5 DEF HSetJob, PushBody
  <2>6. CASE HSetIndex(c)
        BY <2>6 DEF HSetIndex
  <2>7. CASE ZAddJob(c)
        BY <2>7 DEF ZAddJob, PushEnqueue, ConnIdle
  <2>8. QED
        BY <1>4, <2>1, <2>2, <2>3, <2>4, <2>5, <2>6, <2>7 DEF SynthesizeStep
<1>5. ASSUME NEW c \in Conns, CursorStep(c)  PROVE Drawn'
  <2> USE DEF queueVars, taskVars, workerVars, scannerVars
  <2>1. CASE DropPending(c)
        BY <2>1 DEF DropPending
  <2>2. CASE ReadIndex(c)
        BY <2>2 DEF ReadIndex, TellEvicted
  <2>3. CASE LookForJobs(c)
        BY <2>3 DEF LookForJobs, EvictLook
  <2>4. CASE ZRemJobs(c)
        BY <2>4 DEF ZRemJobs, EvictRemove, QueueTypeOK
  <2>5. CASE HDelJobs(c)
    <3>1. eremoved' = eremoved \/ eremoved' = [eremoved EXCEPT ![c] = {}]
          BY <2>5 DEF HDelJobs, EvictDone
    <3>2. \A e \in Evictors : eremoved'[e] \subseteq eremoved[e]
      <4>1. eremoved \in [Evictors -> SUBSET Jobs]
            BY DEF QueueTypeOK
      <4> HIDE DEF TypeOK, Drawn
      <4>2. QED
            BY <3>1, <4>1
    <3>3. UNCHANGED <<centry, cjob>>
          BY <2>5 DEF HDelJobs
    <3>4. UNCHANGED <<queue, pushing, processing, results, rows, inflight, jobEntry, taskVars,
                      workerVars, scannerVars>>
          BY <2>5 DEF HDelJobs, EvictBodies
    <3>5. \A e \in Evictors : eremoved'[e] \subseteq Entered'
          BY <3>2, <3>4
    <3>6. QED
          BY <3>3, <3>4, <3>5
  <2>6. CASE ReadOwners(c)
        BY <2>6 DEF ReadOwners, EvictDone
  <2>7. CASE ReleaseInflight(c)
        BY <2>7 DEF ReleaseInflight, TellEvicted
  <2>8. QED
        BY <1>5, <2>1, <2>2, <2>3, <2>4, <2>5, <2>6, <2>7 DEF CursorStep
<1>6. ASSUME NEW c \in Conns, ConnAbort(c)  PROVE Drawn'
      BY <1>6 DEF ConnAbort, ConnIdle, taskVars, workerVars, scannerVars
<1>7. ASSUME NEW t \in Tasks, TaskStep(t)  PROVE Drawn'
  <2> USE DEF queueVars, connVars, workerVars, scannerVars, evictorVars
  <2>1. CASE PopResult(t)
    <3>1. /\ Head(results) = results[1] /\ Len(results) \in Nat /\ Len(results) > 0
          /\ \A i \in 1 .. Len(results') : results'[i] = results[i + 1] /\ i + 1 \in 1 .. Len(results)
          BY <2>1 DEF PopResult, QueueTypeOK
    <3>2. results[1].job \in Entered
      <4>1. 1 \in 1 .. Len(results)
            BY <3>1
      <4>2. QED
            BY <4>1
    <3>3. \A i \in 1 .. Len(results') : results'[i].job \in Entered
      <4>1. \A i \in 1 .. Len(results) : results[i].job \in Entered
            OBVIOUS
      <4> HIDE DEF TypeOK, Drawn, Entered
      <4>2. QED
            BY <3>1, <4>1
    <3>4. QED
          BY <2>1, <3>1, <3>2, <3>3 DEF PopResult
  <2>2. CASE ClaimResult(t)
    <3>1. CASE TaskIdle(t)
          BY <2>2, <3>1 DEF ClaimResult, TaskIdle, NoResult, Result
    <3>2. CASE ~TaskIdle(t)
      <4>1. inflight' = [inflight EXCEPT ![JobVariant(tres[t].job)] = NoJob] /\ UNCHANGED tres
            BY <2>2, <3>2 DEF ClaimResult
      <4>2. \A v \in Variants : inflight'[v] # NoJob => inflight'[v] = inflight[v]
            BY <4>1
      <4>3. UNCHANGED <<queue, pushing, processing, results, rows, jobEntry, connVars,
                        workerVars, scannerVars, evictorVars>>
            BY <2>2 DEF ClaimResult
      <4>4. \A v \in Variants : inflight'[v] # NoJob =>
               inflight'[v] \in Entered' /\ VariantOf[jobEntry'[inflight'[v]]] = v
            BY <4>2, <4>3
      <4>5. QED
            BY <4>1, <4>3, <4>4
    <3>3. QED
          BY <3>1, <3>2
  <2>3. CASE StoreAudio(t)
        BY <2>3 DEF StoreAudio
  <2>4. CASE CollectSubs(t)
        BY <2>4 DEF CollectSubs
  <2>5. ASSUME NEW e \in Entries, Unpend(t, e)  PROVE Drawn'
        BY <2>5 DEF Unpend
  <2>6. CASE Publish(t)
        BY <2>6 DEF Publish
  <2>7. CASE DropSubs(t)
    <3>1. UNCHANGED tres \/ tres' = [tres EXCEPT ![t] = [job |-> NoJob, outcome |-> "error"]]
          BY <2>7 DEF DropSubs, TaskIdle, NoResult, Result
    <3>2. \A u \in Tasks : tres'[u].job # NoJob => tres'[u].job \in Entered
      <4>1. \A u \in Tasks : tres'[u] = tres[u] \/ tres'[u].job = NoJob
            BY <3>1
      <4>2. QED
            BY <4>1
    <3>3. UNCHANGED <<queueVars, connVars, rows, inflight, jobEntry>>
          BY <2>7 DEF DropSubs
    <3>4. QED
          BY <3>2, <3>3
  <2>8. CASE Bill(t)
        BY <2>8 DEF Bill
  <2>9. CASE Persist(t)
        BY <2>9 DEF Persist, TaskIdle, NoResult, Result
  <2>10. QED
        BY <1>7, <2>1, <2>2, <2>3, <2>4, <2>5, <2>6, <2>7, <2>8, <2>9 DEF TaskStep
<1>8. ASSUME NEW t \in Tasks, TaskFail(t) \/ TaskDie(t)  PROVE Drawn'
  <2>1. \A u \in Tasks : tres'[u].job # NoJob => tres'[u].job \in Entered
    <3>1. CASE TaskFail(t)
          BY <3>1 DEF TaskFail
    <3>2. CASE TaskDie(t)
          BY <3>2 DEF TaskDie, TaskIdle, NoResult, Result
    <3>3. QED
          BY <1>8, <3>1, <3>2
  <2>2. UNCHANGED <<queue, pushing, processing, results, rows, inflight, jobEntry, connVars,
                    workerVars, scannerVars, evictorVars>>
        BY <1>8 DEF TaskFail, TaskDie
  <2>3. Entered' = Entered
        BY <2>2
  <2> HIDE DEF TypeOK, Entered
  <2>4. QED
        BY <2>1, <2>2, <2>3 DEF connVars, workerVars, scannerVars, evictorVars
<1>9. ASSUME NEW v \in Variants, Expire(v)  PROVE Drawn'
  <2>1. inflight' = inflight \/ inflight' = [inflight EXCEPT ![v] = NoJob]
        BY <1>9 DEF Expire
  <2>2. \A x \in Variants : inflight'[x] # NoJob => inflight'[x] = inflight[x]
        BY <2>1
  <2>3. UNCHANGED <<queueVars, connVars, taskVars, rows, jobEntry>>
        BY <1>9 DEF Expire
  <2>4. \A x \in Variants : inflight'[x] # NoJob =>
           inflight'[x] \in Entered' /\ VariantOf[jobEntry'[inflight'[x]]] = x
        BY <2>2, <2>3
  <2>5. QED
        BY <2>3, <2>4 DEF queueVars, connVars, taskVars, workerVars, scannerVars, evictorVars
<1>10. ASSUME NEW c \in Conns, ExpirePending(ConnDoc[c])  PROVE Drawn'
      BY <1>10 DEF ExpirePending, queueVars, connVars, taskVars
<1>11. QED
      BY <1>1, <1>2, <1>3, <1>4, <1>5, <1>6, <1>7, <1>8, <1>9, <1>10 DEF Next

LEMMA PipelineTyped == Spec => [](TypeOK /\ Drawn)
<1>1. TypeOK /\ Drawn /\ [Next]_vars => TypeOK'
  <2> SUFFICES ASSUME TypeOK, Drawn, [Next]_vars  PROVE TypeOK'
      OBVIOUS
  <2>1. QueueTypeOK'
        BY StepOnQueue, StepType, BesideQueueType DEF TypeOK
  <2>2. QED
        BY <2>1, StepKeysType, StepConnsType, StepTasksType DEF TypeOK
<1>2. TypeOK /\ Drawn /\ [Next]_vars => Drawn'
      BY StepDrawn
<1>3. QED
      BY PipelineInitType, <1>1, <1>2, PTL DEF Spec

\* Every reachable state of the pipeline is well typed, for any number of listeners,
\* scanners, tasks and evictions.
THEOREM PipelineTypeCorrect == Spec => []TypeOK
BY PipelineTyped, PTL

\* The queue's invariant survives whatever the gateway does around the queue: with one
\* scanner the connections, evictions and result tasks of the pipeline, and their
\* deaths, leave every job with one live claim that counts its attempts.
THEOREM QueueInvariantInPipeline == OneScanner => (Spec => []QueueInv)
<1> SUFFICES ASSUME OneScanner  PROVE Spec => []QueueInv
    OBVIOUS
<1>1. Init => QueueInv
      BY InitInv DEF Init
<1>2. TypeOK /\ QueueInv /\ [Next]_vars => QueueInv'
      BY StepOnQueue, StepInv, BesideQueueInv
<1>3. QED
      BY <1>1, <1>2, PipelineTypeCorrect, PTL DEF Spec

-----------------------------------------------------------------------------
(* Every billing event uses up one SET NX of its variant.                    *)

Key(v) == IF inflight[v] = NoJob THEN 0 ELSE 1

LEMMA BilledCounts ==
    ASSUME TypeOK, NEW v \in Variants
    PROVE  /\ IsFiniteSet(ToBill(v)) /\ Cardinality(ToBill(v)) \in Nat
           /\ IsFiniteSet(Claims(v)) /\ Cardinality(Claims(v)) \in Nat
           /\ stream[v] \in Nat /\ Key(v) \in {0, 1}
<1>1. ToBill(v) \in SUBSET Tasks /\ Claims(v) \in SUBSET Jobs
      BY DEF ToBill, Claims
<1>2. IsFiniteSet(ToBill(v)) /\ IsFiniteSet(Claims(v))
      BY <1>1, FS_Subset, PipelineAssumption
<1>3. QED
      BY <1>2, FS_CardinalityType DEF TypeOK, KeysTypeOK, Key

\* A step that draws no id and writes no event only ever takes results out of hand
LEMMA FewerToBill ==
    ASSUME TypeOK, TypeOK', NEW v \in Variants,
           stream[v] + Key(v) + Cardinality(ToBill(v)) <= Cardinality(Claims(v)),
           UNCHANGED <<stream, jobEntry>>,
           inflight'[v] \in {inflight[v], NoJob},
           ToBill(v)' \subseteq ToBill(v)
    PROVE  stream'[v] + Key(v)' + Cardinality(ToBill(v)') <= Cardinality(Claims(v)')
<1>1. Cardinality(ToBill(v)') <= Cardinality(ToBill(v))
      BY BilledCounts, FS_Subset
<1>2. Claims(v)' = Claims(v)
      BY DEF Claims, JobVariant
<1>3. Key(v)' <= Key(v)
      BY DEF Key
<1>4. /\ stream[v] \in Nat /\ Key(v) \in {0, 1} /\ Cardinality(ToBill(v)) \in Nat
      /\ Cardinality(Claims(v)) \in Nat
      BY BilledCounts
<1>5. Key(v)' \in {0, 1}
      BY DEF Key
<1>6. Cardinality(ToBill(v)') \in Nat
      BY BilledCounts, FS_Subset, FS_CardinalityType
<1>7. QED
      BY <1>1, <1>2, <1>3, <1>4, <1>5, <1>6

LEMMA StepEvents ==
    ASSUME TypeOK, TypeOK', Drawn, EventsWithinClaims, [Next]_vars
    PROVE  EventsWithinClaims'
<1> SUFFICES ASSUME NEW v \in Variants
             PROVE  stream'[v] + Key(v)' + Cardinality(ToBill(v)') <= Cardinality(Claims(v)')
    BY DEF EventsWithinClaims, Key
<1>1. stream[v] + Key(v) + Cardinality(ToBill(v)) <= Cardinality(Claims(v))
      BY DEF EventsWithinClaims, Key
<1>2. /\ stream[v] \in Nat /\ Key(v) \in {0, 1}
      /\ Cardinality(ToBill(v)) \in Nat /\ Cardinality(Claims(v)) \in Nat
      /\ IsFiniteSet(ToBill(v)) /\ IsFiniteSet(Claims(v))
      BY BilledCounts
\* One id more, and the key it is drawn for
<1>3. ASSUME NEW c \in Conns, NEW j \in Jobs, ClaimInflight(c, j)
      PROVE  stream'[v] + Key(v)' + Cardinality(ToBill(v)') <= Cardinality(Claims(v)')
  <2>1. /\ jobEntry' = [jobEntry EXCEPT ![j] = centry[c]] /\ jobEntry[j] = None
        /\ centry[c] \in Entries
        /\ inflight[VariantOf[centry[c]]] = NoJob
        /\ inflight' = [inflight EXCEPT ![VariantOf[centry[c]]] = j]
        /\ UNCHANGED <<stream, taskVars>>
        BY <1>3 DEF ClaimInflight, TypeOK, ConnsTypeOK
  <2>2. ToBill(v)' = ToBill(v)
    <3>1. ASSUME NEW t \in Tasks, tpc[t] # "idle"  PROVE tres[t].job # j
          BY <2>1, <3>1, ResultHasVariant DEF Entered
    <3>2. ASSUME NEW t \in Tasks, tpc[t] # "idle"
          PROVE  VariantOf[jobEntry'[tres[t].job]] = VariantOf[jobEntry[tres[t].job]]
          BY <2>1, <3>1, <3>2, ResultHasVariant DEF TypeOK, KeysTypeOK, Entered
    <3>3. QED
          BY <2>1, <3>2 DEF ToBill, JobVariant, taskVars
  <2>3. CASE v = VariantOf[centry[c]]
    <3>1. Claims(v)' = Claims(v) \cup {j} /\ j \notin Claims(v)
          BY <2>1, <2>3, PipelineAssumption DEF Claims, JobVariant, TypeOK, KeysTypeOK
    <3>2. Cardinality(Claims(v)') = Cardinality(Claims(v)) + 1
          BY <1>2, <3>1, FS_AddElement
    <3>3. Key(v) = 0 /\ Key(v)' \in {0, 1}
          BY <2>1, <2>3 DEF Key
    <3>4. QED
          BY <1>1, <1>2, <2>1, <2>2, <3>2, <3>3
  <2>4. CASE v # VariantOf[centry[c]]
    <3>1. Claims(v)' = Claims(v)
          BY <2>1, <2>4, PipelineAssumption DEF Claims, JobVariant, TypeOK, KeysTypeOK
    <3>2. Key(v)' = Key(v)
          BY <2>1, <2>4 DEF Key, TypeOK, KeysTypeOK
    <3>3. QED
          BY <1>1, <2>1, <2>2, <3>1, <3>2
  <2>5. QED
        BY <2>3, <2>4
\* The DEL of a result that has audio gives the key for an event to write
<1>4. ASSUME NEW t \in Tasks, ClaimResult(t), inflight[JobVariant(tres[t].job)] # NoJob
      PROVE  stream'[v] + Key(v)' + Cardinality(ToBill(v)') <= Cardinality(Claims(v)')
  <2>1. /\ inflight' = [inflight EXCEPT ![JobVariant(tres[t].job)] = NoJob]
        /\ tpc[t] = "claim"
        /\ tpc' \in {[tpc EXCEPT ![t] = "store"], [tpc EXCEPT ![t] = "collect"]}
        /\ UNCHANGED <<stream, jobEntry, tres>>
        BY <1>4 DEF ClaimResult
  <2>2. JobVariant(tres[t].job) \in Variants
        BY <2>1, ResultHasVariant
  <2>3. CASE v = JobVariant(tres[t].job)
    <3>1. ToBill(v)' \subseteq ToBill(v) \cup {t}
          BY <2>1 DEF ToBill, JobVariant, TypeOK, TasksTypeOK
    <3>2. /\ IsFiniteSet(ToBill(v) \cup {t})
          /\ Cardinality(ToBill(v) \cup {t}) \in {Cardinality(ToBill(v)), Cardinality(ToBill(v)) + 1}
          BY <1>2, FS_AddElement
    <3>3. /\ Cardinality(ToBill(v)') <= Cardinality(ToBill(v) \cup {t})
          /\ Cardinality(ToBill(v)') \in Nat
          BY <3>1, <3>2, FS_Subset, FS_CardinalityType
    <3>4. Key(v) = 1 /\ Key(v)' = 0
          BY <1>4, <2>1, <2>2, <2>3 DEF Key, TypeOK, KeysTypeOK
    <3>5. Claims(v)' = Claims(v)
          BY <2>1 DEF Claims, JobVariant
    <3>6. QED
          BY <1>1, <1>2, <2>1, <3>2, <3>3, <3>4, <3>5
  <2>4. CASE v # JobVariant(tres[t].job)
    <3>1. ToBill(v)' \subseteq ToBill(v)
          BY <2>1, <2>4 DEF ToBill, JobVariant, TypeOK, TasksTypeOK
    <3>2. inflight'[v] = inflight[v]
          BY <2>1, <2>4 DEF TypeOK, KeysTypeOK
    <3>3. QED
          BY <1>1, <2>1, <3>1, <3>2, FewerToBill
  <2>5. QED
        BY <2>3, <2>4
\* XADD: the result becomes an event
<1>5. ASSUME NEW t \in Tasks, Bill(t)
      PROVE  stream'[v] + Key(v)' + Cardinality(ToBill(v)') <= Cardinality(Claims(v)')
  <2>1. /\ stream' = [stream EXCEPT ![JobVariant(tres[t].job)] = @ + 1]
        /\ tpc[t] = "bill" /\ tpc' = [tpc EXCEPT ![t] = "persist"]
        /\ UNCHANGED <<inflight, jobEntry, tres>>
        BY <1>5 DEF Bill
  <2>2. Claims(v)' = Claims(v) /\ Key(v)' = Key(v)
        BY <2>1 DEF Claims, JobVariant, Key
  <2>3. ToBill(v)' = ToBill(v) \ {t}
        BY <2>1 DEF ToBill, JobVariant, TypeOK, TasksTypeOK
  <2>4. CASE v = JobVariant(tres[t].job) /\ tres[t].outcome = "audio"
    <3>1. t \in ToBill(v)
          BY <2>1, <2>4 DEF ToBill
    <3>2. Cardinality(ToBill(v)') = Cardinality(ToBill(v)) - 1
          BY <1>2, <2>3, <3>1, FS_RemoveElement
    <3>3. stream'[v] = stream[v] + 1
          BY <2>1, <2>4 DEF TypeOK, KeysTypeOK
    <3>4. QED
          BY <1>1, <1>2, <2>2, <3>2, <3>3
  <2>5. CASE v # JobVariant(tres[t].job)
    <3>1. stream'[v] = stream[v]
          BY <2>1, <2>5 DEF TypeOK, KeysTypeOK
    <3>2. Cardinality(ToBill(v)') <= Cardinality(ToBill(v)) /\ Cardinality(ToBill(v)') \in Nat
          BY <1>2, <2>3, FS_Subset, FS_CardinalityType
    <3>3. QED
          BY <1>1, <1>2, <2>2, <3>1, <3>2
  <2>6. tres[t].outcome = "audio"
        BY <2>1 DEF TypeOK, TasksTypeOK
  <2>7. QED
        BY <2>4, <2>5, <2>6
<1> DEFINE Quiet == /\ UNCHANGED <<stream, jobEntry>>
                    /\ inflight'[v] \in {inflight[v], NoJob}
                    /\ ToBill(v)' \subseteq ToBill(v)
<1>6. \A t \in Tasks : UNCHANGED <<jobEntry, tpc, tres>> => ToBill(v)' = ToBill(v)
      BY DEF ToBill, JobVariant
<1>7. ASSUME \/ UNCHANGED vars
             \/ QueueStep
             \/ \E c \in Conns :
                    \/ ListenerStep(c) \/ CursorStep(c) \/ ConnAbort(c)
                    \/ SynthesizeStep(c) /\ ~ \E j \in Jobs : ClaimInflight(c, j)
             \/ \E x \in Variants : Expire(x)
             \/ \E c \in Conns : ExpirePending(ConnDoc[c])
      PROVE  Quiet
  <2>1. UNCHANGED <<stream, jobEntry, tpc, tres>>
        BY <1>7 DEF vars, pipeVars, QueueStep, taskVars, ListenerStep, Request, AnswerAtOnce,
            ReadPending, SynthesizeStep, Subscribe, AddPending, Join, HSetJob, HSetIndex,
            ZAddJob, CursorStep, DropPending, ReadIndex, LookForJobs, ZRemJobs, HDelJobs,
            ReadOwners, ReleaseInflight, ConnAbort, Expire, ExpirePending
  <2>2. inflight'[v] \in {inflight[v], NoJob}
    <3>1. ASSUME NEW c \in Conns, ReleaseInflight(c)  PROVE inflight'[v] \in {inflight[v], NoJob}
          BY <3>1 DEF ReleaseInflight
    <3>2. ASSUME NEW x \in Variants, Expire(x)  PROVE inflight'[v] \in {inflight[v], NoJob}
          BY <3>2 DEF Expire, TypeOK, KeysTypeOK
    <3>3. \/ \E c \in Conns : ReleaseInflight(c)
          \/ \E x \in Variants : Expire(x)
          \/ UNCHANGED inflight
          BY <1>7 DEF vars, pipeVars, QueueStep, ListenerStep, Request, AnswerAtOnce,
              ReadPending, SynthesizeStep, Subscribe, AddPending, Join, HSetJob, HSetIndex,
              ZAddJob, CursorStep, DropPending, ReadIndex, LookForJobs, ZRemJobs, HDelJobs,
              ReadOwners, ConnAbort, ExpirePending
    <3>4. QED
          BY <3>1, <3>2, <3>3
  <2>3. ToBill(v)' = ToBill(v)
        BY <2>1 DEF ToBill, JobVariant
  <2>4. QED
        BY <2>1, <2>2, <2>3
<1>8. ASSUME NEW t \in Tasks, TaskFail(t) \/ TaskDie(t)  PROVE Quiet
  <2>1. UNCHANGED <<stream, jobEntry, inflight>>
        BY <1>8 DEF TaskFail, TaskDie
  <2>2. t \notin ToBill(v)'
        BY <1>8 DEF TaskFail, TaskDie, TaskIdle, ToBill, TypeOK, TasksTypeOK
  <2>3. \A u \in Tasks \ {t} : tpc'[u] = tpc[u] /\ tres'[u] = tres[u]
        BY <1>8 DEF TaskFail, TaskDie, TaskIdle, TypeOK, TasksTypeOK
  <2>4. ToBill(v)' \subseteq ToBill(v)
        BY <2>1, <2>2, <2>3 DEF ToBill, JobVariant
  <2>5. QED
        BY <2>1, <2>4
<1>9. ASSUME NEW t \in Tasks, TaskStep(t), ~Bill(t),
             ~(ClaimResult(t) /\ inflight[JobVariant(tres[t].job)] # NoJob)
      PROVE  Quiet
  <2>1. UNCHANGED <<stream, jobEntry, inflight>>
        BY <1>9 DEF TaskStep, PopResult, ClaimResult, StoreAudio, CollectSubs, Unpend, Publish,
            DropSubs, Persist
  <2>2. \A u \in Tasks \ {t} : tpc'[u] = tpc[u] /\ tres'[u] = tres[u]
        BY <1>9 DEF TaskStep, PopResult, ClaimResult, StoreAudio, CollectSubs, Unpend, Publish,
            DropSubs, Persist, TaskIdle, TypeOK, TasksTypeOK
  <2>3. t \in ToBill(v)' => t \in ToBill(v)
    <3>1. CASE PopResult(t) \/ ClaimResult(t)
          BY <1>9, <3>1 DEF PopResult, ClaimResult, TaskIdle, ToBill, TypeOK, TasksTypeOK
    <3>2. CASE StoreAudio(t) \/ CollectSubs(t) \/ Publish(t) \/ \E e \in Entries : Unpend(t, e)
          BY <3>2 DEF StoreAudio, CollectSubs, Publish, Unpend, ToBill, JobVariant, TypeOK, TasksTypeOK
    <3>3. CASE DropSubs(t)
          BY <3>3 DEF DropSubs, TaskIdle, ToBill, JobVariant, TypeOK, TasksTypeOK
    <3>4. CASE Persist(t)
          BY <3>4 DEF Persist, TaskIdle, ToBill, TypeOK, TasksTypeOK
    <3>5. QED
          BY <1>9, <3>1, <3>2, <3>3, <3>4 DEF TaskStep
  <2>4. ToBill(v)' \subseteq ToBill(v)
        BY <2>1, <2>2, <2>3 DEF ToBill, JobVariant
  <2>5. QED
        BY <2>1, <2>4
<1>10. Quiet => stream'[v] + Key(v)' + Cardinality(ToBill(v)') <= Cardinality(Claims(v)')
      BY <1>1, FewerToBill
<1> HIDE DEF Quiet
<1>11. QED
      BY <1>3, <1>4, <1>5, <1>7, <1>8, <1>9, <1>10 DEF Next, SynthesizeStep

\* Billing events never outnumber the SET NX calls that succeeded, for any number of
\* scanners, duplicate results, expiries and crashes: whichever job's result deletes
\* the inflight key, it can be deleted once per claim.
THEOREM EventsAreWithinClaims == Spec => []EventsWithinClaims
<1>1. Init => EventsWithinClaims
  <2> SUFFICES ASSUME Init, NEW v \in Variants
               PROVE  stream[v] + Key(v) + Cardinality(ToBill(v)) <= Cardinality(Claims(v))
      BY DEF EventsWithinClaims, Key
  <2>1. stream[v] = 0 /\ Key(v) = 0
        BY DEF Init, Key
  <2>2. ToBill(v) = {}
        BY DEF Init, ToBill
  <2>3. Cardinality(Claims(v)) \in Nat
        BY PipelineInitType, BilledCounts
  <2>4. QED
        BY <2>1, <2>2, <2>3, FS_EmptySet
<1>2. (TypeOK /\ Drawn) /\ (TypeOK /\ Drawn)' /\ EventsWithinClaims /\ [Next]_vars
          => EventsWithinClaims'
      BY StepEvents
<1>3. QED
      BY <1>1, <1>2, PipelineTyped, PTL DEF Spec

-----------------------------------------------------------------------------
(* The inflight key of a variant names a job that can give it back.          *)

\* A job led by the queue itself: in a hand, or taken by an eviction or a crash
InQueueHands(j) ==
    \/ j \in queue \cup evicted \cup lost
    \/ \E w \in Workers :
          HeldByWorker(j, w) \/ HeldByEntry(j, w) \/ Finishing(j, w)
    \/ \E s \in Scanners : sjob[s] = j

\* What a process of the queue lets go of, another takes, or a result says so
LEMMA QueueStepLeads ==
    ASSUME QueueTypeOK, BodyOrEvicted, QueueNext, NEW j \in Jobs, InQueueHands(j)
    PROVE  InQueueHands(j)' \/ ResultOf(j)'
<1> USE JobQueueAssumption DEF InQueueHands, HeldByWorker, HeldByEntry, Finishing,
        QueueTypeOK, Field, Retry, Absent
<1>1. ASSUME NEW w \in Workers, Pop(w)
      PROVE  InQueueHands(j)' \/ ResultOf(j)'
  <2>1. PICK i \in queue : queue' = queue \ {i} /\ wjob' = [wjob EXCEPT ![w] = i]
        BY <1>1 DEF Pop
  <2>2. wjob[w] = NoJob /\ wpc' = [wpc EXCEPT ![w] = "popped"] /\ UNCHANGED processing
        BY <1>1 DEF Pop
  <2>3. UNCHANGED <<evicted, lost, sjob>>
        BY <1>1 DEF Pop, scannerVars, historyVars
  <2>4. CASE i = j
    <3>1. HeldByWorker(j, w)'
          BY <2>1, <2>2, <2>4
    <3>2. QED
          BY <3>1
  <2>5. CASE i # j
    <3>1. ASSUME NEW x \in Workers, wjob[x] = j  PROVE x # w /\ wjob'[x] = j /\ wpc'[x] = wpc[x]
          BY <2>1, <2>2, <3>1
    <3>2. QED
          BY <2>1, <2>2, <2>3, <2>5, <3>1
  <2>6. QED
        BY <2>4, <2>5
<1>2. ASSUME NEW w \in Workers, Fetch(w)
      PROVE  InQueueHands(j)' \/ ResultOf(j)'
  <2>1. CASE WorkerIdle(w)
    <3>1. wjob[w] \in evicted
          BY <1>2, <2>1 DEF Fetch, WorkerIdle, BodyOrEvicted, NeedsBody
    <3>2. QED
          BY <1>2, <2>1, <3>1 DEF Fetch, WorkerIdle, scannerVars, historyVars
  <2>2. CASE ~WorkerIdle(w)
        BY <1>2, <2>2 DEF Fetch, scannerVars, historyVars
  <2>3. QED
        BY <2>1, <2>2
<1>3. ASSUME NEW w \in Workers, ClearBody(w)
      PROVE  InQueueHands(j)' \/ ResultOf(j)'
      BY <1>3 DEF ClearBody, scannerVars
<1>4. ASSUME NEW w \in Workers, Track(w)
      PROVE  InQueueHands(j)' \/ ResultOf(j)'
      BY <1>4 DEF Track, scannerVars, historyVars
<1>5. ASSUME NEW w \in Workers, Execute(w)
      PROVE  InQueueHands(j)' \/ ResultOf(j)'
      BY <1>5 DEF Execute, scannerVars, historyVars
<1>6. ASSUME NEW w \in Workers, Report(w)
      PROVE  InQueueHands(j)' \/ ResultOf(j)'
  <2>1. CASE wjob[w] = j
    <3>1. /\ results' = Append(results, Result(wjob[w], wout[w])) /\ Len(results) \in Nat
          BY <1>6 DEF Report
    <3>2. Len(results') = Len(results) + 1 /\ results'[Len(results) + 1].job = j
          BY <2>1, <3>1 DEF Result
    <3>3. QED
          BY <3>1, <3>2 DEF ResultOf
  <2>2. CASE wjob[w] # j
        BY <1>6, <2>2 DEF Report, WorkerIdle, scannerVars
  <2>3. QED
        BY <2>1, <2>2
<1>7. ASSUME NEW w \in Workers, Crash(w)
      PROVE  InQueueHands(j)' \/ ResultOf(j)'
      BY <1>7 DEF Crash, WorkerIdle, scannerVars
<1>8. ASSUME NEW w \in Workers, Cancel(w)
      PROVE  InQueueHands(j)' \/ ResultOf(j)'
      BY <1>8 DEF Cancel, WorkerIdle, scannerVars
<1>9. ASSUME NEW s \in Scanners, NEW w \in Workers, NEW stale \in SUBSET Jobs, ScanKey(s, w, stale)
      PROVE  InQueueHands(j)' \/ ResultOf(j)'
      BY <1>9 DEF ScanKey, workerVars, historyVars
<1>10. ASSUME NEW s \in Scanners, NEW i \in Jobs, Untrack(s, i)
      PROVE  InQueueHands(j)' \/ ResultOf(j)'
      BY <1>10 DEF Untrack, Unchecked, workerVars, historyVars
<1>11. ASSUME NEW s \in Scanners, MoveToDlq(s)
      PROVE  InQueueHands(j)' \/ ResultOf(j)'
      BY <1>11 DEF MoveToDlq, workerVars, historyVars
<1>12. ASSUME NEW s \in Scanners, ReportDead(s)
      PROVE  InQueueHands(j)' \/ ResultOf(j)'
  <2>1. CASE sjob[s] = j
    <3>1. /\ results' = Append(results, Result(sjob[s], "error")) /\ Len(results) \in Nat
          BY <1>12 DEF ReportDead
    <3>2. Len(results') = Len(results) + 1 /\ results'[Len(results) + 1].job = j
          BY <2>1, <3>1 DEF Result
    <3>3. QED
          BY <3>1, <3>2 DEF ResultOf
  <2>2. CASE sjob[s] # j
        BY <1>12, <2>2 DEF ReportDead, EntryDone, workerVars
  <2>3. QED
        BY <2>1, <2>2
<1>13. ASSUME NEW s \in Scanners, RequeueBody(s)
      PROVE  InQueueHands(j)' \/ ResultOf(j)'
      BY <1>13 DEF RequeueBody, workerVars, historyVars
<1>14. ASSUME NEW s \in Scanners, RequeueEnqueue(s)
      PROVE  InQueueHands(j)' \/ ResultOf(j)'
      BY <1>14 DEF RequeueEnqueue, EntryDone, workerVars, historyVars
<1>15. ASSUME NEW s \in Scanners, ScanAbort(s)
      PROVE  InQueueHands(j)' \/ ResultOf(j)'
      BY <1>15 DEF ScanAbort, workerVars
<1>16. QED
      BY <1>1, <1>2, <1>3, <1>4, <1>5, <1>6, <1>7, <1>8, <1>9, <1>10, <1>11, <1>12, <1>13, <1>14, <1>15
      DEF QueueNext, WorkerStep, ScannerStep

\* In the pipeline a connection and the results lead to a result as well; only the DEL
\* of a job's result ends its way
LEMMA StepLeads ==
    ASSUME TypeOK, BodyOrEvicted, [Next]_vars, NEW j \in Jobs, Leads(j)
    PROVE  Leads(j)' \/ \E t \in Tasks : ClaimResult(t) /\ tres[t].job = j
<1> DEFINE Goal == Leads(j)' \/ \E t \in Tasks : ClaimResult(t) /\ tres[t].job = j
<1> SUFFICES Goal
    OBVIOUS
<1>1. Leads(j) <=> InQueueHands(j) \/ Pushed(j) \/ ResultOf(j) \/ ClaimOf(j)
      BY DEF Leads, InQueueHands, Pushed
<1>2. (InQueueHands(j)' \/ Pushed(j)' \/ ResultOf(j)' \/ ClaimOf(j)') => Leads(j)'
      BY DEF Leads, InQueueHands, Pushed
<1>3. UNCHANGED <<queue, evicted, lost, workerVars, processing, sjob>>
          => InQueueHands(j)' = InQueueHands(j)
      BY DEF InQueueHands, HeldByWorker, HeldByEntry, Finishing, workerVars
<1>4. /\ UNCHANGED cjob => Pushed(j)' = Pushed(j)
      /\ UNCHANGED results => ResultOf(j)' = ResultOf(j)
      /\ UNCHANGED <<tpc, tres>> => ClaimOf(j)' = ClaimOf(j)
      BY DEF Pushed, ResultOf, ClaimOf
<1>5. CASE UNCHANGED vars
      BY <1>1, <1>2, <1>3, <1>4, <1>5
      DEF vars, queueVars, pipeVars, connVars, taskVars, workerVars, scannerVars, historyVars
<1>6. CASE QueueStep
  <2>1. InQueueHands(j) => InQueueHands(j)' \/ ResultOf(j)'
        BY <1>6, QueueStepLeads DEF QueueStep, TypeOK
  <2>2. ResultOf(j) => ResultOf(j)'
    <3>1. UNCHANGED results
          \/ \E r \in [job : Jobs \cup {NoJob}, outcome : Outcomes] : results' = Append(results, r)
          BY <1>6 DEF QueueStep, QueueNext, WorkerStep, ScannerStep, Pop, Fetch, ClearBody,
              Track, Execute, Report, Crash, Cancel, ScanKey, Untrack, MoveToDlq, ReportDead,
              RequeueBody, RequeueEnqueue, ScanAbort, Result, TypeOK, QueueTypeOK, Outcomes
    <3>2. results \in Seq([job : Jobs, outcome : Outcomes])
          BY DEF TypeOK, QueueTypeOK
    <3>3. QED
          BY <3>1, <3>2 DEF ResultOf
  <2>3. Pushed(j)' = Pushed(j) /\ ClaimOf(j)' = ClaimOf(j)
        BY <1>4, <1>6 DEF QueueStep, pipeVars, connVars, taskVars
  <2>4. QED
        BY <1>1, <1>2, <2>1, <2>2, <2>3
<1>7. ASSUME NEW c \in Conns, ListenerStep(c)  PROVE Goal
      BY <1>1, <1>2, <1>3, <1>4, <1>7 DEF ListenerStep, Request, AnswerAtOnce, ReadPending,
          queueVars, connVars, taskVars, workerVars, scannerVars, historyVars
<1>8. ASSUME NEW c \in Conns, SynthesizeStep(c)  PROVE Goal
  <2>1. UNCHANGED <<results, tpc, tres>>
        BY <1>8 DEF SynthesizeStep, Subscribe, AddPending, Join, ClaimInflight, HSetJob,
            HSetIndex, ZAddJob, PushBody, PushEnqueue, queueVars, taskVars
  <2>2. InQueueHands(j) => InQueueHands(j)'
        BY <1>8 DEF SynthesizeStep, Subscribe, AddPending, Join, ClaimInflight, HSetJob,
            HSetIndex, ZAddJob, PushBody, PushEnqueue, queueVars, workerVars, scannerVars,
            historyVars, InQueueHands, HeldByWorker, HeldByEntry, Finishing
  <2>3. Pushed(j) => Pushed(j)' \/ InQueueHands(j)'
    <3>1. CASE Subscribe(c) \/ AddPending(c) \/ Join(c) \/ \E i \in Jobs : ClaimInflight(c, i)
          BY <3>1, JobQueueAssumption DEF Subscribe, AddPending, Join, ConnIdle, ClaimInflight,
              Pushed, TypeOK, ConnsTypeOK
    <3>2. CASE HSetJob(c) \/ HSetIndex(c)
          BY <3>2 DEF HSetJob, HSetIndex, Pushed
    <3>3. CASE ZAddJob(c)
          BY <3>3 DEF ZAddJob, PushEnqueue, ConnIdle, Pushed, InQueueHands, TypeOK, ConnsTypeOK
    <3>4. QED
          BY <1>8, <3>1, <3>2, <3>3 DEF SynthesizeStep
  <2>4. QED
        BY <1>1, <1>2, <1>4, <2>1, <2>2, <2>3
<1>9. ASSUME NEW c \in Conns, CursorStep(c)  PROVE Goal
  <2>1. UNCHANGED <<results, tpc, tres, cjob>>
        BY <1>9 DEF CursorStep, DropPending, ReadIndex, LookForJobs, ZRemJobs, HDelJobs,
            ReadOwners, ReleaseInflight, EvictLook, EvictRemove, EvictBodies, TellEvicted,
            queueVars, taskVars
  <2>2. /\ UNCHANGED <<lost, workerVars, processing, sjob>>
        /\ queue \cup evicted \subseteq queue' \cup evicted'
        BY <1>9 DEF CursorStep, DropPending, ReadIndex, LookForJobs, ZRemJobs, HDelJobs,
            ReadOwners, ReleaseInflight, EvictLook, EvictRemove, EvictBodies, TellEvicted,
            queueVars, workerVars, scannerVars, historyVars
  <2>3. InQueueHands(j) => InQueueHands(j)'
        BY <2>2 DEF InQueueHands, HeldByWorker, HeldByEntry, Finishing, workerVars
  <2>4. QED
        BY <1>1, <1>2, <1>4, <2>1, <2>3
<1>10. ASSUME NEW c \in Conns, ConnAbort(c)  PROVE Goal
  <2>1. UNCHANGED <<results, tpc, tres, queue, evicted, workerVars, processing, sjob>>
        BY <1>10 DEF ConnAbort, taskVars, scannerVars
  <2>2. lost \subseteq lost' /\ (cjob[c] # NoJob => cjob[c] \in lost')
        BY <1>10 DEF ConnAbort
  <2>3. InQueueHands(j) => InQueueHands(j)'
        BY <2>1, <2>2 DEF InQueueHands, HeldByWorker, HeldByEntry, Finishing, workerVars
  <2>4. Pushed(j) => Pushed(j)' \/ InQueueHands(j)'
        BY <1>10, <2>2, JobQueueAssumption DEF ConnAbort, ConnIdle, Pushed, InQueueHands, TypeOK, ConnsTypeOK
  <2>5. QED
        BY <1>1, <1>2, <1>4, <2>1, <2>3, <2>4
<1>11. ASSUME NEW t \in Tasks, TaskStep(t)  PROVE Goal
  <2>1. UNCHANGED <<queue, evicted, lost, workerVars, processing, sjob, cjob>>
        BY <1>11 DEF TaskStep, PopResult, ClaimResult, StoreAudio, CollectSubs, Unpend, Publish,
            DropSubs, Bill, Persist, queueVars, connVars, workerVars, scannerVars, historyVars
  <2>2. CASE PopResult(t)
    <3>1. /\ results \in Seq([job : Jobs, outcome : Outcomes]) /\ results # <<>>
          /\ results' = Tail(results)
          /\ tres' = [tres EXCEPT ![t] = Head(results)]
          /\ tpc[t] = "idle" /\ tpc' = [tpc EXCEPT ![t] = "claim"]
          BY <2>2 DEF PopResult, TypeOK, QueueTypeOK
    <3>2. ResultOf(j) => ResultOf(j)' \/ results[1].job = j
      <4>1. ASSUME NEW i \in 1 .. Len(results), results[i].job = j, i # 1
            PROVE  ResultOf(j)'
        <5>1. i - 1 \in 1 .. Len(results') /\ results'[i - 1] = results[i]
              BY <3>1, <4>1
        <5>2. QED
              BY <4>1, <5>1 DEF ResultOf
      <4>2. QED
            BY <4>1 DEF ResultOf
    <3>3. results[1].job = j => ClaimOf(j)'
          BY <3>1 DEF ClaimOf, TypeOK, TasksTypeOK
    <3>4. ClaimOf(j) => ClaimOf(j)'
          BY <3>1 DEF ClaimOf, TypeOK, TasksTypeOK
    <3>5. QED
          BY <1>1, <1>2, <1>3, <1>4, <2>1, <3>2, <3>3, <3>4
  <2>3. CASE ~PopResult(t)
    <3>1. UNCHANGED results
          BY <1>11, <2>3 DEF TaskStep, ClaimResult, StoreAudio, CollectSubs, Unpend, Publish,
              DropSubs, Bill, Persist, queueVars
    <3>2. CASE ClaimResult(t)
          BY <1>1, <1>2, <1>3, <1>4, <2>1, <3>1, <3>2 DEF ClaimResult, ClaimOf, TaskIdle, TypeOK, TasksTypeOK
    <3>3. CASE ~ClaimResult(t)
      <4>1. /\ tpc[t] # "claim"
            /\ \A u \in Tasks \ {t} : tpc'[u] = tpc[u] /\ tres'[u] = tres[u]
            BY <1>11, <2>3, <3>3 DEF TaskStep, StoreAudio, CollectSubs, Unpend, Publish,
                DropSubs, Bill, Persist, TaskIdle, TypeOK, TasksTypeOK
      <4>2. ClaimOf(j) => ClaimOf(j)'
            BY <4>1 DEF ClaimOf
      <4>3. QED
            BY <1>1, <1>2, <1>3, <1>4, <2>1, <3>1, <4>2
    <3>4. QED
          BY <3>2, <3>3
  <2>4. QED
        BY <2>2, <2>3
<1>12. ASSUME NEW t \in Tasks, TaskFail(t) \/ TaskDie(t)  PROVE Goal
  <2>1. UNCHANGED <<queue, evicted, workerVars, processing, sjob, cjob, results>>
        BY <1>12 DEF TaskFail, TaskDie, connVars, scannerVars
  <2>2. /\ lost \subseteq lost' /\ (tpc[t] = "claim" => tres[t].job \in lost')
        /\ \A u \in Tasks \ {t} : tpc'[u] = tpc[u] /\ tres'[u] = tres[u]
    <3>1. CASE TaskFail(t)
      <4>1. /\ lost \subseteq lost' /\ (tpc[t] = "claim" => tres[t].job \in lost')
            /\ tpc' = [tpc EXCEPT ![t] = "collect"] /\ tres' = [tres EXCEPT ![t].outcome = "error"]
            BY <3>1 DEF TaskFail
      <4>2. QED
            BY <4>1 DEF TypeOK, TasksTypeOK
    <3>2. CASE TaskDie(t)
          BY <3>2 DEF TaskDie, TaskIdle, TypeOK, TasksTypeOK
    <3>3. QED
          BY <1>12, <3>1, <3>2
  <2>3. InQueueHands(j) => InQueueHands(j)'
        BY <2>1, <2>2 DEF InQueueHands, HeldByWorker, HeldByEntry, Finishing, workerVars
  <2>4. ClaimOf(j) => ClaimOf(j)' \/ InQueueHands(j)'
        BY <2>2 DEF ClaimOf, InQueueHands
  <2>5. QED
        BY <1>1, <1>2, <1>4, <2>1, <2>3, <2>4
<1>13. ASSUME \/ \E v \in Variants : Expire(v)
              \/ \E c \in Conns : ExpirePending(ConnDoc[c])
       PROVE  Goal
      BY <1>1, <1>2, <1>3, <1>4, <1>13 DEF Expire, ExpirePending, queueVars, connVars, taskVars,
          workerVars, scannerVars, historyVars
<1>14. QED
      BY <1>5, <1>6, <1>7, <1>8, <1>9, <1>10, <1>11, <1>12, <1>13 DEF Next

\* A key that is set anew names a job in the hands of its connection, and the DEL of a
\* job's result deletes the key of that job
LEMMA StepKeyOwned ==
    ASSUME TypeOK, Drawn, BodyOrEvicted, KeyOwned, [Next]_vars
    PROVE  KeyOwned'
<1> SUFFICES ASSUME NEW v \in Variants, NEW j \in Jobs, inflight'[v] = j
             PROVE  Leads(j)'
    BY DEF KeyOwned
<1>1. inflight \in [Variants -> Jobs \cup {NoJob}]
      BY DEF TypeOK, KeysTypeOK
<1>2. CASE inflight'[v] = inflight[v]
  <2>1. inflight[v] = j
        BY <1>2
  <2>2. Leads(j)' \/ \E t \in Tasks : ClaimResult(t) /\ tres[t].job = j
        BY <1>2, <2>1, StepLeads DEF KeyOwned
  <2>3. ASSUME NEW t \in Tasks, ClaimResult(t), tres[t].job = j
        PROVE  FALSE
    <3>1. JobVariant(j) = v
          BY <2>1, JobQueueAssumption DEF Drawn
    <3>2. inflight'[v] = NoJob
          BY <1>1, <2>3, <3>1 DEF ClaimResult
    <3>3. QED
          BY <3>2, JobQueueAssumption
  <2>4. QED
        BY <2>2, <2>3
<1>3. CASE inflight'[v] # inflight[v]
  <2>1. \E c \in Conns : ClaimInflight(c, j)
    <3>1. ASSUME NEW c \in Conns, SynthesizeStep(c)
          PROVE  ClaimInflight(c, j)
          BY <1>1, <1>3, <3>1 DEF SynthesizeStep, Subscribe, AddPending, Join, ClaimInflight,
              HSetJob, HSetIndex, ZAddJob
    <3>2. ASSUME NEW c \in Conns, CursorStep(c)  PROVE FALSE
          BY <1>1, <1>3, <3>2, JobQueueAssumption DEF CursorStep, DropPending, ReadIndex, LookForJobs, ZRemJobs,
              HDelJobs, ReadOwners, ReleaseInflight
    <3>3. ASSUME NEW t \in Tasks, TaskStep(t)  PROVE FALSE
          BY <1>1, <1>3, <3>3, JobQueueAssumption DEF TaskStep, PopResult, ClaimResult, StoreAudio, CollectSubs,
              Unpend, Publish, DropSubs, Bill, Persist
    <3>4. ASSUME NEW u \in Variants, Expire(u)  PROVE FALSE
          BY <1>1, <1>3, <3>4, JobQueueAssumption DEF Expire
    <3>5. ASSUME NEW c \in Conns, ListenerStep(c) \/ ConnAbort(c) \/ ExpirePending(ConnDoc[c])
          PROVE  FALSE
          BY <1>3, <3>5 DEF ListenerStep, Request, AnswerAtOnce, ReadPending, ConnAbort,
              ExpirePending
    <3>6. ASSUME NEW t \in Tasks, TaskFail(t) \/ TaskDie(t)  PROVE FALSE
          BY <1>3, <3>6 DEF TaskFail, TaskDie
    <3>7. QED
          BY <1>3, <3>1, <3>2, <3>3, <3>4, <3>5, <3>6
          DEF Next, QueueStep, vars, pipeVars
  <2>2. PICK c \in Conns : ClaimInflight(c, j)
        BY <2>1
  <2>3. cjob'[c] = j
        BY <2>2 DEF ClaimInflight, TypeOK, ConnsTypeOK
  <2>4. QED
        BY <2>2, <2>3 DEF Leads
<1>4. QED
      BY <1>2, <1>3

\* Whatever the queue, the connections and the result tasks do between their Redis
\* commands (with one scanner): an inflight key names a job that still leads to a
\* result, or that an eviction or a crash took (synthesis.py, result_consumer.py).
THEOREM KeysAreOwned == OneScanner => (Spec => []KeyOwned)
<1> SUFFICES ASSUME OneScanner
             PROVE  Spec => []KeyOwned
    OBVIOUS
<1>1. Init => KeyOwned
      BY JobQueueAssumption DEF Init, KeyOwned
<1>2. TypeOK /\ Drawn /\ QueueInv /\ KeyOwned /\ [Next]_vars => KeyOwned'
      BY StepKeyOwned DEF QueueInv, Covered
<1>3. QED
      BY <1>1, <1>2, PipelineTyped, QueueInvariantInPipeline, PTL DEF Spec

\* Without cursor moves nothing is evicted
LEMMA NothingEvicted == Evictors = {} => (Spec => [](evicted = {}))
<1> SUFFICES ASSUME Evictors = {}
             PROVE  Spec => [](evicted = {})
    OBVIOUS
<1>1. Init => evicted = {}
      BY DEF Init, QueueInit
<1>2. TypeOK /\ evicted = {} /\ [Next]_vars => (evicted = {})'
  <2> SUFFICES ASSUME TypeOK, evicted = {}, [Next]_vars
               PROVE  evicted' = {}
      OBVIOUS
  <2>1. \A c \in Conns : ~CursorStep(c)
        BY DEF TypeOK, ConnsTypeOK, CursorStep, DropPending, ReadIndex, LookForJobs,
            ZRemJobs, HDelJobs, ReadOwners, ReleaseInflight
  <2>2. QueueStep => UNCHANGED evicted
        BY DEF QueueStep, QueueNext, WorkerStep, ScannerStep, Pop, Fetch, ClearBody, Track,
            Execute, Report, Crash, Cancel, ScanKey, Untrack, MoveToDlq, ReportDead,
            RequeueBody, RequeueEnqueue, ScanAbort, historyVars
  <2>3. ASSUME NEW c \in Conns, ListenerStep(c) \/ SynthesizeStep(c) \/ ConnAbort(c)
        PROVE  UNCHANGED evicted
        BY <2>3 DEF ListenerStep, Request, AnswerAtOnce, ReadPending, SynthesizeStep, Subscribe,
            AddPending, Join, ClaimInflight, HSetJob, HSetIndex, ZAddJob, PushBody, PushEnqueue,
            ConnAbort, queueVars, historyVars
  <2>4. ASSUME NEW t \in Tasks, TaskStep(t) \/ TaskFail(t) \/ TaskDie(t)
        PROVE  UNCHANGED evicted
        BY <2>4 DEF TaskStep, PopResult, ClaimResult, StoreAudio, CollectSubs, Unpend, Publish,
            DropSubs, Bill, Persist, TaskFail, TaskDie, queueVars, historyVars
  <2>5. (\E v \in Variants : Expire(v)) \/ (\E c \in Conns : ExpirePending(ConnDoc[c]))
            => UNCHANGED evicted
        BY DEF Expire, ExpirePending, queueVars
  <2>6. QED
        BY <2>1, <2>2, <2>3, <2>4, <2>5 DEF Next, vars, queueVars, historyVars
<1>3. QED
      BY <1>1, <1>2, PipelineTyped, PTL DEF Spec

\* As long as no cursor move evicts (ws.py can leave a key behind whose job it removed),
\* a variant is never held by a job that is gone, unless a crash took it.
THEOREM HeldVariantsAreOwned ==
    OneScanner /\ Evictors = {} => (Spec => []InflightOwned)
<1> SUFFICES ASSUME OneScanner, Evictors = {}
             PROVE  Spec => []InflightOwned
    OBVIOUS
<1>1. TypeOK /\ KeyOwned /\ evicted = {} => InflightOwned
  <2> SUFFICES ASSUME TypeOK, KeyOwned, evicted = {}, NEW v \in Variants, inflight[v] # NoJob
               PROVE  Alive(inflight[v]) \/ inflight[v] \in lost
      BY DEF InflightOwned
  <2>1. Leads(inflight[v])
        BY DEF KeyOwned, TypeOK, KeysTypeOK
  <2>2. DOMAIN results = 1 .. Len(results)
        BY DEF TypeOK, QueueTypeOK
  <2>3. QED
        BY <2>1, <2>2 DEF Leads, Alive, HeldByWorker, Finishing, ResultOf, ClaimOf
<1>2. QED
      BY <1>1, KeysAreOwned, NothingEvicted, PipelineTyped, PTL

-----------------------------------------------------------------------------
(* Without a scanner (API voices) a job is in one place at a time, and until a *)
(* TTL runs out nobody but the holder of the key works on a variant.           *)

\* What a job does that only moves on, or ends, keeps the keys as they are
LEMMA KeysFollowMoves ==
    ASSUME RemovedOnce, expiries = 0 => HoldsKey /\ OwnedKeys,
           \A j \in Jobs : Unresolved(j)' => Unresolved(j),
           UNCHANGED <<inflight, jobEntry, expiries>>,
           \A e \in Evictors : eremoved'[e] \subseteq eremoved[e],
           \A e \in Evictors : eremoved[e] \subseteq Jobs,
           \A c \in Conns : cowned'[c] \subseteq cowned[c],
           \A c \in Conns : cowned[c] \subseteq Variants,
           inflight \in [Variants -> Jobs \cup {NoJob}]
    PROVE  RemovedOnce' /\ (expiries' = 0 => HoldsKey' /\ OwnedKeys')
<1>1. RemovedOnce'
      BY DEF RemovedOnce
<1>2. ASSUME expiries = 0  PROVE HoldsKey'
  <2>1. \A j \in Jobs : JobVariant(j)' = JobVariant(j)
        BY DEF JobVariant
  <2>2. Entered' = Entered
        BY DEF Entered
  <2>3. QED
        BY <1>2, <2>1, <2>2 DEF HoldsKey, Entered
<1>3. ASSUME expiries = 0  PROVE OwnedKeys'
      BY <1>3 DEF OwnedKeys
<1>4. QED
      BY <1>1, <1>2, <1>3

\* A worker takes a job from the queue, reports it, or lets go of it
LEMMA WorkerMoves ==
    ASSUME TypeOK, OnePlace, QueueStep, Scanners = {}
    PROVE  OnePlace' /\ \A j \in Jobs : Unresolved(j)' => Unresolved(j)
<1> USE JobQueueAssumption
<1>1. /\ \A j \in Jobs : Pushed(j)' = Pushed(j) /\ ClaimOf(j)' = ClaimOf(j)
      /\ UNCHANGED <<cjob, tpc, tres>>
      BY DEF QueueStep, pipeVars, Pushed, ClaimOf
<1>2. UNCHANGED pushing
      BY DEF QueueStep, QueueNext, WorkerStep, ScannerStep, Pop, Fetch, ClearBody, Track,
          Execute, Report, Crash, Cancel
<1>3. PICK w \in Workers : WorkerStep(w) \/ Crash(w) \/ Cancel(w)
      BY DEF QueueStep, QueueNext
<1>4. results \in Seq([job : Jobs, outcome : Outcomes]) /\ queue \subseteq Jobs
      /\ wjob \in [Workers -> Jobs \cup {NoJob}]
      /\ \A x \in Workers : wjob[x] = NoJob <=> wpc[x] = "idle"
      BY DEF TypeOK, QueueTypeOK
<1>5. CASE Pop(w)
  <2>1. PICK q \in queue : queue' = queue \ {q} /\ wjob' = [wjob EXCEPT ![w] = q]
        BY <1>5 DEF Pop
  <2>2. UNCHANGED results /\ wjob[w] = NoJob
        BY <1>4, <1>5 DEF Pop
  <2>3. \A j \in Jobs : ResultOf(j)' = ResultOf(j)
        BY <2>2 DEF ResultOf
  <2>4. \A j \in Jobs : Worked(j)' => Worked(j) \/ j = q
        BY <1>4, <2>1 DEF Worked
  <2>5. q \in queue /\ q \notin queue' /\ q \in Jobs
        BY <1>4, <2>1
  <2>6. \A x, y \in Workers : wjob'[x] = wjob'[y] /\ wjob'[x] # NoJob => x = y
        BY <1>4, <2>1, <2>5 DEF OnePlace, Worked
  <2>7. \A i, k \in 1 .. Len(results) : results[i].job = results[k].job => i = k
        BY DEF OnePlace
  <2>8. OnePlace'
    <3>1. pushing' \subseteq {j \in Jobs : Pushed(j)}'
          BY <1>1, <1>2 DEF OnePlace, Pushed
    <3>2. \A j \in Jobs : Pushed(j)' => j \notin queue' /\ ~Worked(j)' /\ ~ResultOf(j)' /\ ~ClaimOf(j)'
          BY <1>1, <2>1, <2>3, <2>4 DEF OnePlace
    <3>3. \A j \in queue' : ~Worked(j)' /\ ~ResultOf(j)' /\ ~ClaimOf(j)'
          BY <1>1, <1>4, <2>1, <2>3, <2>4 DEF OnePlace
    <3>4. \A j \in Jobs : Worked(j)' => ~ResultOf(j)' /\ ~ClaimOf(j)'
          BY <1>1, <2>1, <2>3, <2>4 DEF OnePlace
    <3>5. \A j \in Jobs : ResultOf(j)' => ~ClaimOf(j)'
          BY <1>1, <2>3 DEF OnePlace
    <3>6. QED
          BY <1>1, <2>2, <2>6, <2>7, <3>1, <3>2, <3>3, <3>4, <3>5 DEF OnePlace
  <2>9. QED
        BY <1>1, <2>1, <2>3, <2>4, <2>8 DEF Unresolved
<1>6. CASE Report(w)
  <2>1. PICK q \in Jobs : q = wjob[w]
        BY <1>4, <1>6 DEF Report
  <2>2. /\ wjob' = [wjob EXCEPT ![w] = NoJob] /\ queue' = queue
        /\ results' = Append(results, Result(q, wout[w])) /\ Len(results) \in Nat
        BY <1>6, <2>1 DEF Report, WorkerIdle
  <2>3. /\ Len(results') = Len(results) + 1 /\ results'[Len(results) + 1].job = q
        /\ \A i \in 1 .. Len(results) : results'[i] = results[i]
        BY <2>2 DEF Result
  <2>4. \A j \in Jobs : ResultOf(j)' => ResultOf(j) \/ j = q
        BY <2>2, <2>3 DEF ResultOf
  <2>5. /\ \A j \in Jobs : Worked(j)' => Worked(j)
        /\ Worked(q) /\ ~Worked(q)'
        BY <1>4, <2>1, <2>2 DEF Worked, OnePlace
  <2>6. \A x, y \in Workers : wjob'[x] = wjob'[y] /\ wjob'[x] # NoJob => x = y
        BY <1>4, <2>2 DEF OnePlace
  <2>7. ~ResultOf(q) /\ ~ClaimOf(q) /\ ~Pushed(q) /\ q \notin queue
        BY <2>5 DEF OnePlace
  <2>8. ASSUME NEW i \in 1 .. Len(results'), NEW k \in 1 .. Len(results'),
               results'[i].job = results'[k].job
        PROVE  i = k
    <3>1. \A n \in 1 .. Len(results) : results[n].job # q
          BY <2>7 DEF ResultOf
    <3>2. CASE i \in 1 .. Len(results) /\ k \in 1 .. Len(results)
          BY <2>3, <2>8, <3>2 DEF OnePlace
    <3>3. CASE i = Len(results) + 1 \/ k = Len(results) + 1
          BY <2>2, <2>3, <2>8, <3>1, <3>3
    <3>4. QED
          BY <2>2, <2>3, <3>2, <3>3
  <2>9. OnePlace'
    <3>1. pushing' \subseteq {j \in Jobs : Pushed(j)}'
          BY <1>1, <1>2 DEF OnePlace, Pushed
    <3>2. \A j \in Jobs : Pushed(j)' => j \notin queue' /\ ~Worked(j)' /\ ~ResultOf(j)' /\ ~ClaimOf(j)'
          BY <1>1, <2>2, <2>4, <2>5, <2>7 DEF OnePlace
    <3>3. \A j \in queue' : ~Worked(j)' /\ ~ResultOf(j)' /\ ~ClaimOf(j)'
          BY <1>1, <1>4, <2>2, <2>4, <2>5, <2>7 DEF OnePlace
    <3>4. \A j \in Jobs : Worked(j)' => ~ResultOf(j)' /\ ~ClaimOf(j)'
          BY <1>1, <2>2, <2>4, <2>5 DEF OnePlace
    <3>5. \A j \in Jobs : ResultOf(j)' => ~ClaimOf(j)'
          BY <1>1, <2>4, <2>7 DEF OnePlace
    <3>6. QED
          BY <1>1, <2>6, <2>8, <3>1, <3>2, <3>3, <3>4, <3>5 DEF OnePlace
  <2>10. QED
        BY <1>1, <2>2, <2>4, <2>5, <2>9 DEF Unresolved
<1>7. CASE ~Pop(w) /\ ~Report(w)
  <2>1. UNCHANGED <<queue, results>>
        BY <1>3, <1>7 DEF WorkerStep, Fetch, ClearBody, Track, Execute, Crash, Cancel
  <2>2. wjob' = wjob \/ wjob' = [wjob EXCEPT ![w] = NoJob]
        BY <1>3, <1>7 DEF WorkerStep, Fetch, ClearBody, Track, Execute, Crash, Cancel, WorkerIdle
  <2>3. \A x \in Workers : wjob'[x] # NoJob => wjob'[x] = wjob[x]
        BY <1>4, <2>2
  <2>4. \A j \in Jobs : ResultOf(j)' = ResultOf(j) /\ (Worked(j)' => Worked(j))
        BY <2>1, <2>3 DEF ResultOf, Worked
  <2>5. OnePlace'
    <3>1. pushing' \subseteq {j \in Jobs : Pushed(j)}'
          BY <1>1, <1>2 DEF OnePlace, Pushed
    <3>2. \A j \in Jobs : Pushed(j)' => j \notin queue' /\ ~Worked(j)' /\ ~ResultOf(j)' /\ ~ClaimOf(j)'
          BY <1>1, <2>1, <2>4 DEF OnePlace
    <3>3. \A j \in queue' : ~Worked(j)' /\ ~ResultOf(j)' /\ ~ClaimOf(j)'
          BY <1>1, <1>4, <2>1, <2>4 DEF OnePlace
    <3>4. \A j \in Jobs : Worked(j)' => ~ResultOf(j)' /\ ~ClaimOf(j)'
          BY <1>1, <2>4 DEF OnePlace
    <3>5. \A j \in Jobs : ResultOf(j)' => ~ClaimOf(j)'
          BY <1>1, <2>4 DEF OnePlace
    <3>6. \A x, y \in Workers : wjob'[x] = wjob'[y] /\ wjob'[x] # NoJob => x = y
          BY <2>3 DEF OnePlace
    <3>7. \A i, k \in 1 .. Len(results) : results[i].job = results[k].job => i = k
          BY DEF OnePlace
    <3>8. QED
          BY <1>1, <2>1, <3>1, <3>2, <3>3, <3>4, <3>5, <3>6, <3>7 DEF OnePlace
  <2>6. QED
        BY <1>1, <2>1, <2>4, <2>5 DEF Unresolved
<1>8. QED
      BY <1>5, <1>6, <1>7

\* A connection draws a job, writes its body, queues it or lets go of it
LEMMA ConnectionMoves ==
    ASSUME TypeOK, Drawn, OnePlace, NEW c \in Conns,
           \/ \E i \in Jobs : ClaimInflight(c, i)
           \/ HSetJob(c) \/ ZAddJob(c) \/ ConnAbort(c)
    PROVE  /\ OnePlace'
           /\ \A j \in Jobs : Unresolved(j)' => Unresolved(j) \/ ClaimInflight(c, j)
<1> USE JobQueueAssumption
<1>1. /\ \A j \in Jobs : /\ Worked(j)' = Worked(j) /\ ResultOf(j)' = ResultOf(j)
                          /\ ClaimOf(j)' = ClaimOf(j)
      /\ UNCHANGED <<results, wjob, tpc, tres>>
      BY DEF ClaimInflight, HSetJob, PushBody, ZAddJob, PushEnqueue, ConnAbort, queueVars,
          workerVars, taskVars, Worked, ResultOf, ClaimOf
<1>2. /\ cjob \in [Conns -> Jobs \cup {NoJob}] /\ queue \subseteq Jobs /\ pushing \subseteq Jobs
      /\ cjob[c] # NoJob <=> cpc[c] \in {"body", "index", "enqueue"}
      BY DEF TypeOK, ConnsTypeOK, QueueTypeOK
<1>3. /\ \A x, y \in Workers : wjob[x] = wjob[y] /\ wjob[x] # NoJob => x = y
      /\ \A i, k \in 1 .. Len(results) : results[i].job = results[k].job => i = k
      /\ \A t, u \in Tasks :
             tpc[t] = "claim" /\ tpc[u] = "claim" /\ tres[t].job = tres[u].job => t = u
      BY DEF OnePlace
<1>4. ASSUME \A d, f \in Conns : cjob'[d] = cjob'[f] /\ cjob'[d] # NoJob => d = f,
             pushing' \subseteq {j \in Jobs : Pushed(j)'},
             \A j \in Jobs : Pushed(j)' =>
                 j \notin queue' /\ ~Worked(j) /\ ~ResultOf(j) /\ ~ClaimOf(j),
             \A j \in queue' : j \in Jobs /\ ~Worked(j) /\ ~ResultOf(j) /\ ~ClaimOf(j)
      PROVE  OnePlace'
  <2>1. pushing' \subseteq {j \in Jobs : Pushed(j)}'
        BY <1>4
  <2>2. \A j \in Jobs : Worked(j)' => ~ResultOf(j)' /\ ~ClaimOf(j)'
        BY <1>1 DEF OnePlace
  <2>3. \A j \in Jobs : ResultOf(j)' => ~ClaimOf(j)'
        BY <1>1 DEF OnePlace
  <2>4. /\ \A j \in Jobs : Pushed(j)' => j \notin queue' /\ ~Worked(j)' /\ ~ResultOf(j)' /\ ~ClaimOf(j)'
        /\ \A j \in queue' : ~Worked(j)' /\ ~ResultOf(j)' /\ ~ClaimOf(j)'
        BY <1>1, <1>4
  <2>5. QED
        BY <1>1, <1>3, <1>4, <2>1, <2>2, <2>3, <2>4 DEF OnePlace
<1>5. ASSUME NEW i \in Jobs, ClaimInflight(c, i)
      PROVE  OnePlace' /\ \A j \in Jobs : Unresolved(j)' => Unresolved(j) \/ j = i
  <2>1. /\ cjob' = [cjob EXCEPT ![c] = i] /\ UNCHANGED <<queue, pushing>> /\ cjob[c] = NoJob
        BY <1>2, <1>5 DEF ClaimInflight, queueVars
  <2>2. i \notin queue /\ ~Worked(i) /\ ~ResultOf(i) /\ ~ClaimOf(i) /\ ~Pushed(i)
        BY <1>5 DEF ClaimInflight, Drawn, Entered, Worked, ResultOf, ClaimOf, Pushed
  <2>3. \A j \in Jobs : Pushed(j)' <=> Pushed(j) \/ j = i
        BY <1>2, <2>1 DEF Pushed
  <2>4. \A d, f \in Conns : cjob'[d] = cjob'[f] /\ cjob'[d] # NoJob => d = f
        BY <1>2, <2>1, <2>2 DEF OnePlace, Pushed
  <2>5. OnePlace'
        BY <1>2, <1>4, <2>1, <2>2, <2>3, <2>4 DEF OnePlace
  <2>6. QED
        BY <1>1, <2>1, <2>3, <2>5 DEF Unresolved
<1>6. CASE HSetJob(c)
  <2>1. /\ UNCHANGED <<queue, cjob>> /\ pushing' = pushing \cup {cjob[c]}
        /\ cjob[c] \in Jobs
        BY <1>2, <1>6 DEF HSetJob, PushBody
  <2>2. \A j \in Jobs : Pushed(j)' = Pushed(j)
        BY <2>1 DEF Pushed
  <2>3. OnePlace'
        BY <1>2, <1>4, <2>1, <2>2 DEF OnePlace, Pushed
  <2>4. QED
        BY <1>1, <2>1, <2>2, <2>3 DEF Unresolved
<1>7. CASE ZAddJob(c) \/ ConnAbort(c)
  <2>1. /\ cjob' = [cjob EXCEPT ![c] = NoJob] /\ pushing' = pushing \ {cjob[c]}
        /\ queue' = queue \/ (cjob[c] \in Jobs /\ queue' = queue \cup {cjob[c]})
        BY <1>2, <1>7 DEF ZAddJob, PushEnqueue, ConnAbort, ConnIdle
  <2>2. /\ \A j \in Jobs : Pushed(j)' => Pushed(j) /\ j # cjob[c]
        /\ \A j \in Jobs : Pushed(j) /\ j # cjob[c] => Pushed(j)'
        /\ cjob[c] \in Jobs => Pushed(cjob[c])
        BY <1>2, <2>1 DEF Pushed, OnePlace
  <2>3. \A d, f \in Conns : cjob'[d] = cjob'[f] /\ cjob'[d] # NoJob => d = f
        BY <1>2, <2>1 DEF OnePlace
  <2>4. OnePlace'
    <3>1. \A j \in queue' : j \in Jobs /\ ~Worked(j) /\ ~ResultOf(j) /\ ~ClaimOf(j)
          BY <1>2, <2>1, <2>2 DEF OnePlace
    <3>2. pushing' \subseteq {j \in Jobs : Pushed(j)'}
          BY <1>2, <2>1, <2>2 DEF OnePlace
    <3>3. \A j \in Jobs : Pushed(j)' =>
              j \notin queue' /\ ~Worked(j) /\ ~ResultOf(j) /\ ~ClaimOf(j)
          BY <1>2, <2>1, <2>2 DEF OnePlace
    <3>4. QED
          BY <1>4, <2>3, <3>1, <3>2, <3>3
  <2>5. QED
        BY <1>1, <2>1, <2>2, <2>4 DEF Unresolved
<1>8. QED
      BY <1>5, <1>6, <1>7 DEF ClaimInflight

\* A result task takes a result, or is done with the job of its result
LEMMA TaskMoves ==
    ASSUME TypeOK, OnePlace, NEW t \in Tasks, TaskStep(t) \/ TaskFail(t) \/ TaskDie(t)
    PROVE  OnePlace' /\ \A j \in Jobs : Unresolved(j)' => Unresolved(j)
<1> USE JobQueueAssumption
<1>1. UNCHANGED <<queue, pushing, wjob, cjob>>
      BY DEF TaskStep, PopResult, ClaimResult, StoreAudio, CollectSubs, Unpend, Publish,
          DropSubs, Bill, Persist, TaskFail, TaskDie, queueVars, connVars, workerVars
<1>2. \A j \in Jobs : Worked(j)' = Worked(j) /\ Pushed(j)' = Pushed(j)
      BY <1>1 DEF Worked, Pushed
<1>3. /\ results \in Seq([job : Jobs, outcome : Outcomes])
      /\ tpc \in [Tasks -> {"idle", "claim", "store", "collect", "publish", "send", "bill", "persist"}]
      /\ tres \in [Tasks -> [job : Jobs \cup {NoJob}, outcome : Outcomes]]
      /\ queue \subseteq Jobs /\ pushing \subseteq Jobs
      BY DEF TypeOK, QueueTypeOK, TasksTypeOK
<1>4. ASSUME \A i, k \in 1 .. Len(results') : results'[i].job = results'[k].job => i = k,
             \A u, x \in Tasks :
            tpc'[u] = "claim" /\ tpc'[x] = "claim" /\ tres'[u].job = tres'[x].job => u = x,
             \A j \in Jobs : ResultOf(j)' => ResultOf(j) /\ ~ClaimOf(j)',
             \A j \in Jobs : ClaimOf(j)' => ClaimOf(j) \/ ResultOf(j)
      PROVE  OnePlace' /\ \A j \in Jobs : Unresolved(j)' => Unresolved(j)
  <2>1. OnePlace'
    <3>1. pushing' \subseteq {j \in Jobs : Pushed(j)}'
          BY <1>1 DEF OnePlace, Pushed
    <3>2. \A j \in Jobs : Pushed(j)' => j \notin queue' /\ ~Worked(j)' /\ ~ResultOf(j)' /\ ~ClaimOf(j)'
          BY <1>1, <1>2, <1>4 DEF OnePlace
    <3>3. \A j \in queue' : ~Worked(j)' /\ ~ResultOf(j)' /\ ~ClaimOf(j)'
          BY <1>1, <1>2, <1>3, <1>4 DEF OnePlace
    <3>4. \A j \in Jobs : Worked(j)' => ~ResultOf(j)' /\ ~ClaimOf(j)'
          BY <1>2, <1>4 DEF OnePlace
    <3>5. /\ \A x, y \in Workers : wjob'[x] = wjob'[y] /\ wjob'[x] # NoJob => x = y
          /\ \A c, d \in Conns : cjob'[c] = cjob'[d] /\ cjob'[c] # NoJob => c = d
          BY <1>1 DEF OnePlace
    <3>6. \A j \in Jobs : ResultOf(j)' => ~ClaimOf(j)'
          BY <1>4
    <3>7. QED
          BY <1>4, <3>1, <3>2, <3>3, <3>4, <3>5, <3>6 DEF OnePlace
  <2>2. QED
        BY <1>1, <1>2, <1>4, <2>1 DEF Unresolved
<1>5. CASE PopResult(t)
  <2>1. /\ results # <<>> /\ results' = Tail(results)
        /\ tres' = [tres EXCEPT ![t] = Head(results)]
        /\ tpc[t] = "idle" /\ tpc' = [tpc EXCEPT ![t] = "claim"]
        BY <1>5 DEF PopResult
  <2>2. PICK q \in Jobs : q = Head(results).job
    <3> DEFINE R == [job : Jobs, outcome : Outcomes]
    <3>1. results \in Seq(R) /\ results # <<>>
          BY <1>3, <2>1
    <3> HIDE DEF R
    <3>2. Head(results) \in R
          BY <3>1
    <3>3. QED
          BY <3>2 DEF R
  <2>3. /\ Len(results) \in Nat /\ Len(results) > 0 /\ results[1].job = q
        /\ Len(results') = Len(results) - 1
        /\ \A i \in 1 .. Len(results') : results'[i] = results[i + 1] /\ i + 1 \in 1 .. Len(results)
        BY <1>3, <2>1, <2>2
  <2>4. \A i, k \in 1 .. Len(results) : results[i].job = results[k].job => i = k
        BY DEF OnePlace
  <2>5. \A i, k \in 1 .. Len(results') : results'[i].job = results'[k].job => i = k
    <3> SUFFICES ASSUME NEW i \in 1 .. Len(results'), NEW k \in 1 .. Len(results'),
                        results'[i].job = results'[k].job
                 PROVE  i = k
        OBVIOUS
    <3>1. i + 1 = k + 1
          BY <2>3, <2>4
    <3>2. QED
          BY <2>3, <3>1
  <2>6. \A j \in Jobs : ResultOf(j)' => ResultOf(j) /\ j # q
    <3> SUFFICES ASSUME NEW j \in Jobs, ResultOf(j)'
                 PROVE  ResultOf(j) /\ j # q
        OBVIOUS
    <3>1. PICK i \in 1 .. Len(results') : results'[i].job = j
          BY DEF ResultOf
    <3>2. i + 1 \in 1 .. Len(results) /\ results[i + 1].job = j /\ 1 \in 1 .. Len(results) /\ i + 1 # 1
          BY <2>3, <3>1
    <3>3. QED
          BY <2>3, <2>4, <3>2 DEF ResultOf
  <2>7. ResultOf(q) /\ ~ClaimOf(q)
    <3>1. 1 \in 1 .. Len(results)
          BY <2>3
    <3>2. QED
          BY <2>3, <3>1 DEF ResultOf, OnePlace
  <2>8. \A j \in Jobs : ClaimOf(j)' => ClaimOf(j) \/ j = q
    <3>1. /\ tres'[t].job = q
          /\ \A u \in Tasks \ {t} : tpc'[u] = tpc[u] /\ tres'[u] = tres[u]
          BY <1>3, <2>1, <2>2
    <3>2. QED
          BY <3>1 DEF ClaimOf
  <2>9. \A u, x \in Tasks :
            tpc'[u] = "claim" /\ tpc'[x] = "claim" /\ tres'[u].job = tres'[x].job => u = x
        BY <1>3, <2>1, <2>2, <2>7 DEF OnePlace, ClaimOf
  <2>10. \A j \in Jobs : ResultOf(j)' => ResultOf(j) /\ ~ClaimOf(j)'
        BY <2>6, <2>8 DEF OnePlace
  <2>11. QED
        BY <1>4, <2>5, <2>7, <2>8, <2>9, <2>10
<1>6. CASE ~PopResult(t)
  <2>1. UNCHANGED results
        BY <1>6 DEF TaskStep, ClaimResult, StoreAudio, CollectSubs, Unpend, Publish,
            DropSubs, Bill, Persist, TaskFail, TaskDie, queueVars
  <2>2. \A u \in Tasks : tpc'[u] = "claim" => tpc[u] = "claim" /\ tres'[u] = tres[u]
    <3>1. CASE TaskStep(t)
      <4>1. /\ \E pc \in {"idle", "store", "collect", "publish", "send", "bill", "persist"} :
                   tpc' = [tpc EXCEPT ![t] = pc]
            /\ tres' = tres \/ tres' = [tres EXCEPT ![t] = NoResult]
            BY <1>6, <3>1 DEF TaskStep, ClaimResult, StoreAudio, CollectSubs, Unpend,
                Publish, DropSubs, Bill, Persist, TaskIdle
      <4>2. QED
            BY <1>3, <4>1
    <3>2. CASE TaskFail(t) \/ TaskDie(t)
      <4>1. /\ tpc' = [tpc EXCEPT ![t] = "collect"] \/ tpc' = [tpc EXCEPT ![t] = "idle"]
            /\ \A u \in Tasks \ {t} : tres'[u] = tres[u]
            BY <1>3, <3>2 DEF TaskFail, TaskDie, TaskIdle
      <4>2. QED
            BY <1>3, <4>1
    <3>3. QED
          BY <3>1, <3>2
  <2>3. \A j \in Jobs : ResultOf(j)' = ResultOf(j) /\ (ClaimOf(j)' => ClaimOf(j))
        BY <2>1, <2>2 DEF ResultOf, ClaimOf
  <2>4. \A i, k \in 1 .. Len(results') : results'[i].job = results'[k].job => i = k
        BY <2>1 DEF OnePlace
  <2>5. \A u, x \in Tasks :
            tpc'[u] = "claim" /\ tpc'[x] = "claim" /\ tres'[u].job = tres'[x].job => u = x
        BY <2>2 DEF OnePlace
  <2>6. \A j \in Jobs : ResultOf(j)' => ResultOf(j) /\ ~ClaimOf(j)'
        BY <2>3 DEF OnePlace
  <2>7. QED
        BY <1>4, <2>3, <2>4, <2>5, <2>6
<1>7. QED
      BY <1>5, <1>6

\* A cursor move only takes jobs out of the queue
LEMMA CursorMoves ==
    ASSUME TypeOK, OnePlace, NEW c \in Conns, CursorStep(c)
    PROVE  OnePlace' /\ \A j \in Jobs : Unresolved(j)' => Unresolved(j)
<1>1. /\ UNCHANGED <<pushing, wjob, cjob, results, tpc, tres>>
      /\ queue' \subseteq queue
  <2>1. CASE DropPending(c) \/ ReadIndex(c) \/ ReadOwners(c) \/ ReleaseInflight(c)
        BY <2>1 DEF DropPending, ReadIndex, ReadOwners, ReleaseInflight, queueVars, workerVars,
            taskVars
  <2>2. CASE LookForJobs(c) \/ ZRemJobs(c) \/ HDelJobs(c)
        BY <2>2 DEF LookForJobs, ZRemJobs, HDelJobs, EvictLook, EvictRemove, EvictBodies,
            workerVars, taskVars
  <2>3. QED
        BY <2>1, <2>2 DEF CursorStep
<1>2. \A j \in Jobs : /\ Worked(j)' = Worked(j) /\ Pushed(j)' = Pushed(j)
                      /\ ResultOf(j)' = ResultOf(j) /\ ClaimOf(j)' = ClaimOf(j)
      BY <1>1 DEF Worked, Pushed, ResultOf, ClaimOf
<1>3. queue \subseteq Jobs
      BY DEF TypeOK, QueueTypeOK
<1>4. OnePlace'
  <2>1. pushing' \subseteq {j \in Jobs : Pushed(j)}'
        BY <1>1 DEF OnePlace, Pushed
  <2>2. \A j \in Jobs : Pushed(j)' => j \notin queue' /\ ~Worked(j)' /\ ~ResultOf(j)' /\ ~ClaimOf(j)'
        BY <1>1, <1>2 DEF OnePlace
  <2>3. \A j \in queue' : ~Worked(j)' /\ ~ResultOf(j)' /\ ~ClaimOf(j)'
        BY <1>1, <1>2, <1>3 DEF OnePlace
  <2>4. /\ \A j \in Jobs : Worked(j)' => ~ResultOf(j)' /\ ~ClaimOf(j)'
        /\ \A j \in Jobs : ResultOf(j)' => ~ClaimOf(j)'
        BY <1>2 DEF OnePlace
  <2>5. /\ \A x, y \in Conns : cjob'[x] = cjob'[y] /\ cjob'[x] # NoJob => x = y
        /\ \A x, y \in Workers : wjob'[x] = wjob'[y] /\ wjob'[x] # NoJob => x = y
        /\ \A i, k \in 1 .. Len(results') : results'[i].job = results'[k].job => i = k
        /\ \A t, u \in Tasks :
               tpc'[t] = "claim" /\ tpc'[u] = "claim" /\ tres'[t].job = tres'[u].job => t = u
        BY <1>1 DEF OnePlace
  <2>6. QED
        BY <2>1, <2>2, <2>3, <2>4, <2>5 DEF OnePlace
<1>5. QED
      BY <1>1, <1>2, <1>4 DEF Unresolved

LEMMA PlacesUnchanged ==
    ASSUME OnePlace, UNCHANGED <<queue, pushing, cjob, wjob, results, tpc, tres>>
    PROVE  OnePlace' /\ \A j \in Jobs : Unresolved(j)' => Unresolved(j)
BY DEF OnePlace, Unresolved, Worked, Pushed, ResultOf, ClaimOf

\* Whoever draws, removes, resolves or gives back a job of a variant keeps the others out
LEMMA StepExclusive ==
    ASSUME TypeOK, Drawn, Exclusive, [Next]_vars, Scanners = {}
    PROVE  Exclusive'
<1> USE JobQueueAssumption, PipelineAssumption
<1>1. /\ OnePlace /\ RemovedOnce
      /\ expiries = 0 => HoldsKey /\ OwnedKeys
      BY DEF Exclusive
<1>2. /\ inflight \in [Variants -> Jobs \cup {NoJob}] /\ cowned \in [Conns -> SUBSET Variants]
      /\ eremoved \in [Evictors -> SUBSET Jobs] /\ expiries \in Nat
      /\ \A j \in Entered : JobVariant(j) \in Variants
      BY EnteredHasVariant DEF TypeOK, QueueTypeOK, KeysTypeOK, ConnsTypeOK
<1>3. ASSUME OnePlace', \A j \in Jobs : Unresolved(j)' => Unresolved(j),
             UNCHANGED <<inflight, jobEntry, expiries>>,
             \A e \in Evictors : eremoved'[e] \subseteq eremoved[e],
             \A c \in Conns : cowned'[c] \subseteq cowned[c]
      PROVE  Exclusive'
  <2>1. /\ \A e \in Evictors : eremoved[e] \subseteq Jobs
        /\ \A c \in Conns : cowned[c] \subseteq Variants
        BY <1>2
  <2>2. RemovedOnce' /\ (expiries' = 0 => HoldsKey' /\ OwnedKeys')
        BY <1>1, <1>2, <1>3, <2>1, KeysFollowMoves
  <2>3. QED
        BY <1>3, <2>2 DEF Exclusive
<1>4. ASSUME UNCHANGED <<queue, pushing, cjob, wjob, results, tpc, tres>>,
             UNCHANGED <<inflight, jobEntry, eremoved, cowned>>,
             expiries' = expiries \/ expiries' = expiries + 1
      PROVE  Exclusive'
  <2>1. OnePlace' /\ \A j \in Jobs : Unresolved(j)' => Unresolved(j)
        BY <1>1, <1>4, PlacesUnchanged
  <2>2. CASE expiries' = expiries
        BY <1>3, <1>4, <2>1, <2>2
  <2>3. CASE expiries' = expiries + 1
    <3>1. RemovedOnce'
          BY <1>1, <1>2, <1>4, <2>1 DEF RemovedOnce
    <3>2. expiries' # 0
          BY <1>2, <2>3
    <3>3. QED
          BY <2>1, <3>1, <3>2 DEF Exclusive
  <2>4. QED
        BY <1>4, <2>2, <2>3
<1>5. CASE UNCHANGED vars
      BY <1>4, <1>5 DEF vars, pipeVars, queueVars
<1>6. CASE QueueStep
  <2>1. UNCHANGED <<inflight, jobEntry, expiries, eremoved, cowned>>
        BY <1>6 DEF QueueStep, pipeVars, QueueNext, WorkerStep, ScannerStep, Pop, Fetch, ClearBody,
            Track, Execute, Report, Crash, Cancel, evictorVars
  <2>2. QED
        BY <1>1, <1>3, <1>6, <2>1, WorkerMoves
<1>7. ASSUME NEW c \in Conns, ListenerStep(c)  PROVE Exclusive'
      BY <1>4, <1>7 DEF ListenerStep, Request, AnswerAtOnce, ReadPending, queueVars, connVars, taskVars
<1>8. ASSUME NEW c \in Conns, SynthesizeStep(c)  PROVE Exclusive'
  <2>1. CASE Subscribe(c) \/ AddPending(c) \/ HSetIndex(c)
        BY <1>4, <2>1 DEF Subscribe, AddPending, HSetIndex, queueVars, taskVars
  <2>2. CASE Join(c)
    <3>1. cjob' = cjob
          BY <2>2 DEF Join, ConnIdle, TypeOK, ConnsTypeOK
    <3>2. QED
          BY <1>4, <2>2, <3>1 DEF Join, queueVars, taskVars
  <2>3. CASE HSetJob(c) \/ ZAddJob(c)
    <3>1. UNCHANGED <<inflight, jobEntry, expiries, eremoved, cowned>>
          BY <2>3 DEF HSetJob, ZAddJob, PushBody, PushEnqueue, evictorVars
    <3>2. ~\E j \in Jobs : ClaimInflight(c, j)
          BY <2>3 DEF HSetJob, ZAddJob, ClaimInflight
    <3>3. QED
          BY <1>1, <1>3, <2>3, <3>1, <3>2, ConnectionMoves
  <2>4. ASSUME NEW i \in Jobs, ClaimInflight(c, i)  PROVE Exclusive'
    <3> DEFINE v == VariantOf[centry[c]]
    <3>1. /\ cpc[c] = "claim" /\ inflight[v] = NoJob /\ jobEntry[i] = None
          /\ inflight' = [inflight EXCEPT ![v] = i] /\ jobEntry' = [jobEntry EXCEPT ![i] = centry[c]]
          /\ UNCHANGED <<expiries, eremoved, cowned>>
          BY <2>4 DEF ClaimInflight, queueVars
    <3>2. centry[c] \in Entries /\ v \in Variants /\ jobEntry \in [Jobs -> Entries \cup {None}]
          BY <3>1 DEF TypeOK, ConnsTypeOK, KeysTypeOK
    <3>3. /\ \A j \in Jobs \ {i} : JobVariant(j)' = JobVariant(j)
          /\ JobVariant(i)' = v
          /\ Entered' = Entered \cup {i} /\ i \notin Entered
      <4>1. /\ \A j \in Jobs \ {i} : jobEntry'[j] = jobEntry[j]
            /\ jobEntry'[i] = centry[c]
            BY <3>1, <3>2
      <4>2. QED
            BY <3>1, <3>2, <4>1 DEF JobVariant, Entered
    <3>4. OnePlace' /\ \A j \in Jobs \ {i} : Unresolved(j)' => Unresolved(j)
      <4>1. \A j \in Jobs : ClaimInflight(c, j) => j = i
            BY <2>4, <3>2 DEF ClaimInflight, TypeOK, ConnsTypeOK
      <4>2. QED
            BY <1>1, <2>4, <4>1, ConnectionMoves
    <3>5. \A e \in Evictors : i \notin eremoved[e]
          BY <3>3 DEF Drawn
    <3>6. RemovedOnce'
      <4>1. \A e \in Evictors : \A j \in eremoved[e] : ~Unresolved(j)'
            BY <1>1, <1>2, <3>4, <3>5 DEF RemovedOnce
      <4>2. QED
            BY <1>1, <3>1, <4>1 DEF RemovedOnce
    <3>7. ASSUME expiries = 0  PROVE HoldsKey' /\ OwnedKeys'
      <4>1. HoldsKey /\ OwnedKeys
            BY <1>1, <3>7
      <4>2. \A u \in Variants \ {v} : inflight'[u] = inflight[u]
            BY <1>2, <3>1
      <4>3. inflight'[v] = i
            BY <1>2, <3>1, <3>2
      <4>4. \A j \in Entered : Unresolved(j) => JobVariant(j) # v
            BY <3>1, <4>1 DEF HoldsKey, Entered
      <4>5. \A j \in Entered' : Unresolved(j)' => inflight'[JobVariant(j)'] = j
        <5>1. ASSUME NEW j \in Entered', Unresolved(j)', j # i
              PROVE  inflight'[JobVariant(j)'] = j
          <6>1. j \in Entered /\ j \in Jobs /\ Unresolved(j) /\ JobVariant(j)' = JobVariant(j)
                BY <3>3, <3>4, <5>1 DEF Entered
          <6>2. JobVariant(j) \in Variants \ {v} /\ inflight[JobVariant(j)] = j
                BY <1>2, <4>1, <4>4, <6>1 DEF HoldsKey
          <6>3. QED
                BY <4>2, <6>1, <6>2
        <5>2. QED
              BY <3>3, <4>3, <5>1
      <4>6. \A d \in Conns : v \notin cowned[d]
            BY <3>1, <4>1 DEF OwnedKeys
      <4>7. \A d \in Conns : \A u \in cowned[d] : inflight[u] \in Jobs \ {i}
        <5>1. ASSUME NEW d \in Conns, NEW u \in cowned[d]
              PROVE  inflight[u] \in Jobs \ {i}
          <6>1. u \in Variants /\ inflight[u] # NoJob
                BY <1>2, <4>1 DEF OwnedKeys
          <6>2. inflight[u] \in Entered
                BY <6>1 DEF Drawn
          <6>3. QED
                BY <1>2, <3>3, <6>1, <6>2
        <5>2. QED
              BY <5>1
      <4>8. OwnedKeys'
        <5>1. ASSUME NEW d \in Conns, NEW u \in cowned'[d]
              PROVE  /\ inflight'[u] # NoJob
                     /\ \A j \in Jobs : inflight'[u] = j =>
                            ~Unresolved(j)' /\ \A e \in Evictors : j \notin eremoved'[e]
                     /\ \A f \in Conns : u \in cowned'[f] => f = d
          <6>1. /\ u \in cowned[d] /\ u \in Variants \ {v} /\ inflight'[u] = inflight[u]
                /\ inflight[u] \in Jobs \ {i}
                BY <1>2, <3>1, <4>2, <4>6, <4>7, <5>1
          <6>2. QED
                BY <3>1, <3>4, <4>1, <6>1 DEF OwnedKeys
        <5>2. QED
              BY <5>1 DEF OwnedKeys
      <4>9. QED
            BY <4>5, <4>8 DEF HoldsKey
    <3>8. QED
          BY <3>1, <3>4, <3>6, <3>7 DEF Exclusive
  <2>5. QED
        BY <1>8, <2>1, <2>2, <2>3, <2>4 DEF SynthesizeStep
<1>9. ASSUME NEW c \in Conns, CursorStep(c)  PROVE Exclusive'
  <2>1. OnePlace' /\ \A j \in Jobs : Unresolved(j)' => Unresolved(j)
        BY <1>1, <1>9, CursorMoves
  <2>2. CASE DropPending(c) \/ ReadIndex(c) \/ LookForJobs(c) \/ HDelJobs(c)
    <3>1. UNCHANGED <<inflight, jobEntry, expiries>>
          BY <2>2 DEF DropPending, ReadIndex, LookForJobs, HDelJobs
    <3>2. /\ eremoved' = eremoved \/ eremoved' = [eremoved EXCEPT ![c] = {}]
          /\ cowned' = cowned \/ cowned' = [cowned EXCEPT ![c] = {}]
          BY <2>2 DEF DropPending, ReadIndex, LookForJobs, HDelJobs, TellEvicted, EvictLook,
              EvictDone, queueVars
    <3>3. QED
          BY <1>2, <1>3, <2>1, <3>1, <3>2
  <2>3. CASE ZRemJobs(c)
    <3>1. /\ c \in Evictors /\ queue' = queue \ ehas[c]
          /\ eremoved' = [eremoved EXCEPT ![c] = ehas[c] \cap queue]
          /\ UNCHANGED <<inflight, jobEntry, expiries, cowned>>
          BY <2>3 DEF ZRemJobs, EvictRemove, TypeOK, ConnsTypeOK
    <3>2. /\ eremoved'[c] = ehas[c] \cap queue
          /\ \A e \in Evictors \ {c} : eremoved'[e] = eremoved[e]
          BY <1>2, <3>1
    <3>3. \A j \in ehas[c] \cap queue : Unresolved(j) /\ ~Unresolved(j)'
      <4>1. \A j \in Jobs : /\ Worked(j)' = Worked(j) /\ Pushed(j)' = Pushed(j)
                            /\ ResultOf(j)' = ResultOf(j) /\ ClaimOf(j)' = ClaimOf(j)
            BY <2>3 DEF ZRemJobs, EvictRemove, workerVars, taskVars, Worked, Pushed, ResultOf, ClaimOf
      <4>2. queue \subseteq Jobs
            BY DEF TypeOK, QueueTypeOK
      <4>3. QED
            BY <1>1, <3>1, <4>1, <4>2 DEF Unresolved, OnePlace
    <3>4. RemovedOnce'
      <4>1. \A e \in Evictors : \A j \in eremoved'[e] : ~Unresolved(j)'
            BY <1>1, <1>2, <2>1, <3>2, <3>3 DEF RemovedOnce
      <4>2. \A e \in Evictors : eremoved[e] \cap (ehas[c] \cap queue) = {}
            BY <1>1, <3>3 DEF RemovedOnce
      <4>3. \A e, f \in Evictors : e # f => eremoved'[e] \cap eremoved'[f] = {}
            BY <1>1, <3>2, <4>2 DEF RemovedOnce
      <4>4. QED
            BY <4>1, <4>3 DEF RemovedOnce
    <3>5. ASSUME expiries = 0  PROVE HoldsKey' /\ OwnedKeys'
      <4>1. HoldsKey /\ OwnedKeys
            BY <1>1, <3>5
      <4>2. /\ \A j \in Jobs : JobVariant(j)' = JobVariant(j)
            /\ Entered' = Entered /\ Entered \subseteq Jobs
            BY <3>1 DEF JobVariant, Entered
      <4>3. HoldsKey'
            BY <2>1, <3>1, <4>1, <4>2 DEF HoldsKey
      <4>4. \A d \in Conns : \A u \in cowned[d] : \A j \in Jobs : inflight[u] = j =>
                \A e \in Evictors : j \notin eremoved'[e]
            BY <3>2, <3>3, <4>1 DEF OwnedKeys
      <4>5. OwnedKeys'
            BY <2>1, <3>1, <4>1, <4>4 DEF OwnedKeys
      <4>6. QED
            BY <4>3, <4>5
    <3>6. QED
          BY <2>1, <3>1, <3>4, <3>5 DEF Exclusive
  <2>4. CASE ReadOwners(c)
    <3> DEFINE mine == {j \in eremoved[c] : inflight[JobVariant(j)] = j}
    <3>1. /\ c \in Evictors /\ UNCHANGED <<inflight, jobEntry, expiries>>
          /\ eremoved' = [eremoved EXCEPT ![c] = {}]
          /\ cowned' = [cowned EXCEPT ![c] = {JobVariant(j) : j \in mine}]
          BY <2>4 DEF ReadOwners, EvictDone, TypeOK, ConnsTypeOK
    <3>2. /\ \A e \in Evictors : eremoved'[e] \subseteq eremoved[e]
          /\ eremoved'[c] = {}
          /\ cowned'[c] = {JobVariant(j) : j \in mine}
          /\ \A d \in Conns \ {c} : cowned'[d] = cowned[d]
          BY <1>2, <3>1
    <3>3. RemovedOnce'
          BY <1>1, <1>2, <2>1, <3>2 DEF RemovedOnce
    <3>4. ASSUME expiries = 0  PROVE HoldsKey' /\ OwnedKeys'
      <4>1. HoldsKey /\ OwnedKeys
            BY <1>1, <3>4
      <4>2. /\ \A j \in Jobs : JobVariant(j)' = JobVariant(j)
            /\ Entered' = Entered /\ Entered \subseteq Jobs
            BY <3>1 DEF JobVariant, Entered
      <4>3. HoldsKey'
            BY <2>1, <3>1, <4>1, <4>2 DEF HoldsKey
      <4>4. \A u \in cowned'[c] : /\ inflight[u] \in eremoved[c] /\ inflight[u] \in Jobs
                                  /\ \A d \in Conns : u \notin cowned[d]
            BY <1>2, <3>1, <3>2, <4>1 DEF OwnedKeys
      <4>5. ASSUME NEW d \in Conns, NEW u \in cowned'[d]
            PROVE  /\ inflight'[u] # NoJob
                   /\ \A j \in Jobs : inflight'[u] = j =>
                          ~Unresolved(j)' /\ \A e \in Evictors : j \notin eremoved'[e]
                   /\ \A f \in Conns : u \in cowned'[f] => f = d
        <5>1. CASE d = c
              BY <1>1, <2>1, <3>1, <3>2, <4>4, <4>5, <5>1 DEF RemovedOnce
        <5>2. CASE d # c
              BY <2>1, <3>1, <3>2, <4>1, <4>4, <4>5, <5>2 DEF OwnedKeys
        <5>3. QED
              BY <5>1, <5>2
      <4>6. OwnedKeys'
            BY <4>5 DEF OwnedKeys
      <4>7. QED
            BY <4>3, <4>6
    <3>5. QED
          BY <2>1, <3>1, <3>3, <3>4 DEF Exclusive
  <2>5. CASE ReleaseInflight(c)
    <3>1. /\ inflight' = [v \in Variants |-> IF v \in cowned[c] THEN NoJob ELSE inflight[v]]
          /\ cowned' = [cowned EXCEPT ![c] = {}]
          /\ UNCHANGED <<jobEntry, expiries, eremoved>>
          BY <2>5 DEF ReleaseInflight, TellEvicted, queueVars
    <3>2. cowned'[c] = {} /\ \A d \in Conns \ {c} : cowned'[d] = cowned[d]
          BY <1>2, <3>1
    <3>3. RemovedOnce'
          BY <1>1, <1>2, <2>1, <3>1 DEF RemovedOnce
    <3>4. ASSUME expiries = 0  PROVE HoldsKey' /\ OwnedKeys'
      <4>1. HoldsKey /\ OwnedKeys
            BY <1>1, <3>4
      <4>2. /\ \A j \in Jobs : JobVariant(j)' = JobVariant(j)
            /\ Entered' = Entered /\ Entered \subseteq Jobs
            BY <3>1 DEF JobVariant, Entered
      <4>3. \A j \in Entered : Unresolved(j) => inflight'[JobVariant(j)] = j
            BY <1>2, <3>1, <4>1, <4>2 DEF HoldsKey, OwnedKeys
      <4>4. HoldsKey'
            BY <2>1, <4>2, <4>3 DEF HoldsKey
      <4>5. ASSUME NEW d \in Conns, NEW u \in cowned'[d]
            PROVE  /\ inflight'[u] # NoJob
                   /\ \A j \in Jobs : inflight'[u] = j =>
                          ~Unresolved(j)' /\ \A e \in Evictors : j \notin eremoved'[e]
                   /\ \A f \in Conns : u \in cowned'[f] => f = d
        <5>1. d # c /\ u \in cowned[d] /\ u \in Variants
              BY <1>2, <3>2, <4>5
        <5>2. inflight'[u] = inflight[u]
              BY <3>1, <4>1, <5>1 DEF OwnedKeys
        <5>3. QED
              BY <2>1, <3>1, <3>2, <4>1, <5>1, <5>2 DEF OwnedKeys
      <4>6. OwnedKeys'
            BY <4>5 DEF OwnedKeys
      <4>7. QED
            BY <4>4, <4>6
    <3>5. QED
          BY <2>1, <3>1, <3>3, <3>4 DEF Exclusive
  <2>6. QED
        BY <1>9, <2>2, <2>3, <2>4, <2>5 DEF CursorStep
<1>10. ASSUME NEW c \in Conns, ConnAbort(c)  PROVE Exclusive'
  <2>1. UNCHANGED <<inflight, jobEntry, expiries>>
        BY <1>10 DEF ConnAbort
  <2>2. /\ eremoved' = [eremoved EXCEPT ![c] = {}] /\ cowned' = [cowned EXCEPT ![c] = {}]
        BY <1>10 DEF ConnAbort
  <2>3. ~\E j \in Jobs : ClaimInflight(c, j)
        BY <1>10 DEF ConnAbort, ConnIdle, ClaimInflight, TypeOK, ConnsTypeOK
  <2>4. QED
        BY <1>1, <1>2, <1>3, <1>10, <2>1, <2>2, <2>3, ConnectionMoves
<1>11. ASSUME NEW t \in Tasks, TaskStep(t) \/ TaskFail(t) \/ TaskDie(t)  PROVE Exclusive'
  <2>1. OnePlace' /\ \A j \in Jobs : Unresolved(j)' => Unresolved(j)
        BY <1>1, <1>11, TaskMoves
  <2>2. CASE ~ClaimResult(t)
    <3>1. UNCHANGED <<inflight, jobEntry, expiries, eremoved, cowned>>
          BY <1>11, <2>2 DEF TaskStep, PopResult, StoreAudio, CollectSubs, Unpend, Publish,
              DropSubs, Bill, Persist, TaskFail, TaskDie, queueVars, evictorVars, connVars
    <3>2. QED
          BY <1>3, <2>1, <3>1
  <2>3. CASE ClaimResult(t)
    <3>1. PICK q \in Jobs : q = tres[t].job
          BY <2>3, ResultHasVariant DEF ClaimResult, Entered
    <3>2. PICK v \in Variants : v = JobVariant(q)
          BY <2>3, <3>1, ResultHasVariant DEF ClaimResult
    <3>3. /\ tpc[t] = "claim" /\ q \in Entered /\ v \in Variants
          /\ inflight' = [inflight EXCEPT ![v] = NoJob]
          /\ UNCHANGED <<jobEntry, expiries, eremoved, cowned>>
      <4>1. tpc[t] = "claim" /\ q \in Entered
            BY <2>3, <3>1, ResultHasVariant DEF ClaimResult
      <4>2. inflight' = [inflight EXCEPT ![v] = NoJob]
        <5>1. CASE inflight[v] = NoJob
              BY <1>2, <2>3, <3>1, <3>2, <5>1 DEF ClaimResult
        <5>2. CASE inflight[v] # NoJob
              BY <2>3, <3>1, <3>2, <5>2 DEF ClaimResult
        <5>3. QED
              BY <5>1, <5>2
      <4>3. QED
            BY <2>3, <4>1, <4>2 DEF ClaimResult, queueVars, connVars
    <3>4. ClaimOf(q) /\ ~ClaimOf(q)' /\ ~ResultOf(q)'
      <4>1. UNCHANGED results /\ tpc'[t] # "claim" /\ \A u \in Tasks \ {t} : tpc'[u] = tpc[u] /\ tres'[u] = tres[u]
            BY <2>3 DEF ClaimResult, TaskIdle, queueVars, TypeOK, TasksTypeOK
      <4>2. ClaimOf(q) /\ q \in Jobs
            BY <3>1, <3>3 DEF ClaimOf
      <4>3. ~ClaimOf(q)'
            BY <1>1, <3>1, <3>3, <4>1 DEF ClaimOf, OnePlace
      <4>4. ~ResultOf(q)'
            BY <1>1, <4>1, <4>2 DEF ResultOf, OnePlace
      <4>5. QED
            BY <4>2, <4>3, <4>4
    <3>5. Unresolved(q) /\ ~Unresolved(q)' /\ q \in Jobs
      <4>1. UNCHANGED <<queue, wjob, cjob>>
            BY <2>3 DEF ClaimResult, queueVars, connVars
      <4>2. q \in Jobs /\ q \notin queue /\ ~Worked(q) /\ ~Pushed(q)
            BY <1>1, <3>3, <3>4 DEF OnePlace, Entered
      <4>3. ~Worked(q)' /\ ~Pushed(q)'
            BY <4>1, <4>2 DEF Worked, Pushed
      <4>4. QED
            BY <3>4, <4>1, <4>2, <4>3 DEF Unresolved
    <3>6. RemovedOnce'
          BY <1>1, <1>2, <2>1, <3>3 DEF RemovedOnce
    <3>7. ASSUME expiries = 0  PROVE HoldsKey' /\ OwnedKeys'
      <4>1. HoldsKey /\ OwnedKeys
            BY <1>1, <3>7
      <4>2. /\ \A j \in Jobs : JobVariant(j)' = JobVariant(j)
            /\ Entered' = Entered /\ Entered \subseteq Jobs
            BY <3>3 DEF JobVariant, Entered
      <4>3. inflight[v] = q
            BY <3>3, <3>5, <3>2, <4>1 DEF HoldsKey
      <4>4. \A u \in Variants \ {v} : inflight'[u] = inflight[u]
            BY <1>2, <3>3
      <4>5. \A j \in Entered : Unresolved(j) /\ j # q => inflight'[JobVariant(j)] = j
            BY <1>2, <4>1, <4>3, <4>4 DEF HoldsKey
      <4>6. HoldsKey'
            BY <2>1, <3>5, <4>2, <4>5 DEF HoldsKey
      <4>7. ASSUME NEW d \in Conns, NEW u \in cowned'[d]
            PROVE  u \in cowned[d] /\ inflight'[u] = inflight[u]
            BY <1>2, <3>3, <3>5, <4>1, <4>3, <4>4, <4>7 DEF OwnedKeys
      <4>8. OwnedKeys'
            BY <2>1, <3>3, <4>1, <4>7 DEF OwnedKeys
      <4>9. QED
            BY <4>6, <4>8
    <3>8. QED
          BY <2>1, <3>3, <3>6, <3>7 DEF Exclusive
  <2>4. QED
        BY <2>2, <2>3
<1>12. ASSUME \/ \E v \in Variants : Expire(v)
              \/ \E c \in Conns : ExpirePending(ConnDoc[c])
       PROVE  Exclusive'
  <2>1. OnePlace' /\ \A j \in Jobs : Unresolved(j)' => Unresolved(j)
        BY <1>1, <1>12, PlacesUnchanged DEF Expire, ExpirePending, queueVars, connVars, taskVars
  <2>2. expiries' = expiries + 1 /\ UNCHANGED eremoved
        BY <1>12 DEF Expire, ExpirePending, queueVars
  <2>3. RemovedOnce'
        BY <1>1, <1>2, <2>1, <2>2 DEF RemovedOnce
  <2>4. QED
        BY <1>2, <2>1, <2>2, <2>3 DEF Exclusive
<1>13. QED
      BY <1>5, <1>6, <1>7, <1>8, <1>9, <1>10, <1>11, <1>12 DEF Next

LEMMA ExclusiveInvariant == Scanners = {} => (Spec => []Exclusive)
<1> SUFFICES ASSUME Scanners = {}
             PROVE  Spec => []Exclusive
    OBVIOUS
<1>1. Init => Exclusive
      BY JobQueueAssumption DEF Init, QueueInit, Exclusive, OnePlace, RemovedOnce, HoldsKey, OwnedKeys,
          Unresolved, Worked, Pushed, ResultOf, ClaimOf, Entered, NoResult, Result
<1>2. TypeOK /\ Drawn /\ Exclusive /\ [Next]_vars => Exclusive'
      BY StepExclusive
<1>3. QED
      BY <1>1, <1>2, PipelineTyped, PTL DEF Spec

\* What no fault breaks (synthesis.py, ws.py, result_consumer.py, api_tts_dispatcher.py):
\* crashes, TTLs, evictions and exceptions in a result task leave the state well formed,
\* until a TTL runs out one job of an API voice at work on a variant, no event without
\* a claim of its own, and every job pushed in some hand, reported, evicted or taken by
\* a crash. For any number of listeners, dispatcher tasks, result tasks and variants.
THEOREM PipelineHolds == Scanners = {} => (Spec => []PipelineInv)
<1> SUFFICES ASSUME Scanners = {}
             PROVE  Spec => []PipelineInv
    OBVIOUS
<1>1. OneScanner
      BY DEF OneScanner
<1>2. QueueInv => NothingLost
      BY DEF QueueInv, Covered
<1>3. TypeOK /\ Drawn /\ Exclusive => OneLiveJobPerVariant
  <2> SUFFICES ASSUME TypeOK, Drawn, Exclusive, expiries = 0, NEW i \in Jobs, NEW j \in Jobs,
                      Working(i), Working(j), i # j
               PROVE  JobVariant(i) # JobVariant(j)
      BY DEF OneLiveJobPerVariant
  <2>1. i \in Entered /\ j \in Entered
        BY JobQueueAssumption DEF Working, Drawn
  <2>2. Unresolved(i) /\ Unresolved(j)
        BY DEF Working, Unresolved, Worked
  <2>3. QED
        BY <2>1, <2>2 DEF Exclusive, HoldsKey
<1>4. TypeOK /\ Drawn /\ Exclusive /\ EventsWithinClaims /\ QueueInv => PipelineInv
      BY <1>2, <1>3 DEF PipelineInv
<1>5. QED
      BY <1>1, <1>4, PipelineTyped, ExclusiveInvariant, EventsAreWithinClaims,
         QueueInvariantInPipeline, PTL
=============================================================================
