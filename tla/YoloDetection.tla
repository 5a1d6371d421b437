--------------------------- MODULE YoloDetection ---------------------------
(***************************************************************************)
(* Figure detection over the job queue: the client that pushes one job per *)
(* page and waits on the job's own result list                             *)
(* (yapit/gateway/document/yolo_client.py), the last step of the worker    *)
(* (yapit/workers/yolo/__main__.py) and of the visibility scanner, which   *)
(* write that list.                                                        *)
(*                                                                         *)
(* LPUSH and EXPIRE are two commands: a list without a time to live stays  *)
(* until somebody pops it.                                                 *)
(***************************************************************************)
EXTENDS JobQueue

VARIABLES
    answers,      \* lists yolo:result:{job}: outcomes, the oldest first
    lapses,       \* the jobs whose list has a time to live
    waiter        \* [Jobs -> what the page that wants the job does or was told]

yoloVars == <<queueVars, answers, lapses, waiter>>
listVars == <<answers, lapses, waiter>>

YoloInit ==
    /\ QueueInit
    /\ answers = [j \in Jobs |-> <<>>]
    /\ lapses = {}
    /\ waiter = [j \in Jobs |-> "none"]

\* wait_for_result starts when push_job has returned
BeginWait(j) ==
    /\ j \in pushed /\ waiter[j] = "none"
    /\ waiter' = [waiter EXCEPT ![j] = "waiting"]
    /\ UNCHANGED <<queueVars, answers, lapses>>

\* BRPOP: the oldest answer; an empty list is no key and has no time to live
TakeAnswer(j) ==
    /\ waiter[j] = "waiting" /\ answers[j] # <<>>
    /\ waiter' = [waiter EXCEPT ![j] = answers[j][1]]
    /\ answers' = [answers EXCEPT ![j] = Tail(@)]
    /\ lapses' = IF Len(answers[j]) = 1 THEN lapses \ {j} ELSE lapses
    /\ UNCHANGED queueVars

\* After YOLO_RESULT_TIMEOUT_S; the page goes on without figures, and the job
\* stays where it is
GiveUp(j) ==
    /\ waiter[j] = "waiting" /\ answers[j] = <<>>
    /\ waiter' = [waiter EXCEPT ![j] = "timeout"]
    /\ UNCHANGED <<queueVars, answers, lapses>>

\* 300 s after EXPIRE: a page waits from its push on and takes what is there at
\* once, so none lapses before the page has left
Lapse(j) ==
    /\ j \in lapses /\ waiter[j] \notin {"none", "waiting"}
    /\ answers' = [answers EXCEPT ![j] = <<>>]
    /\ lapses' = lapses \ {j}
    /\ UNCHANGED <<queueVars, waiter>>

-----------------------------------------------------------------------------
PushAnswer(j, out) ==
    /\ answers' = [answers EXCEPT ![j] = Append(@, out)]
    /\ reported' = reported \cup {j}
    /\ UNCHANGED <<lapses, waiter>>

\* EXPIRE does nothing when the list was popped in between
ExpireAnswers(j) ==
    /\ lapses' = IF answers[j] # <<>> THEN lapses \cup {j} ELSE lapses
    /\ UNCHANGED <<answers, waiter>>

\* run_worker: detected figures, possibly none, or the error
AnswerPage(w) ==
    /\ wpc[w] = "finished"
    /\ PushAnswer(wjob[w], IF wout[w] = "error" THEN "error" ELSE "figures")
    /\ wpc' = [wpc EXCEPT ![w] = "answered"]
    /\ UNCHANGED <<queue, jobs, processing, results, dlq, pushing, crashes, wjob, wretry, wout>>
    /\ UNCHANGED <<born, pushed, attempts, evicted, lost, scannerVars, evictorVars>>

ExpireAnswer(w) ==
    /\ wpc[w] = "answered"
    /\ ExpireAnswers(wjob[w])
    /\ WorkerIdle(w)
    /\ UNCHANGED <<queue, jobs, processing, results, dlq, pushing, crashes>>
    /\ UNCHANGED <<historyVars, scannerVars, evictorVars>>

\* Mutant of AnswerDead: only the dead letter queue hears of the job
AnswerDeadSilently(s) ==
    /\ spc[s] = "dead"
    /\ spc' = [spc EXCEPT ![s] = "told"]
    /\ UNCHANGED <<queue, jobs, processing, results, dlq, pushing, crashes>>
    /\ UNCHANGED <<skey, snap, sjob, sretry, historyVars, workerVars, evictorVars, listVars>>

\* _check_processing_set, for queue type "yolo"
AnswerDead(s) ==
    /\ spc[s] = "dead"
    /\ PushAnswer(sjob[s], "error")
    /\ spc' = [spc EXCEPT ![s] = "told"]
    /\ UNCHANGED <<queue, jobs, processing, results, dlq, pushing, crashes>>
    /\ UNCHANGED <<skey, snap, sjob, sretry, workerVars, evictorVars>>
    /\ UNCHANGED <<born, pushed, attempts, evicted, lost>>

ExpireDead(s) ==
    /\ spc[s] = "told"
    /\ ExpireAnswers(sjob[s])
    /\ EntryDone(s)
    /\ UNCHANGED <<queue, jobs, processing, results, dlq, pushing, crashes>>
    /\ UNCHANGED <<historyVars, workerVars, evictorVars>>

-----------------------------------------------------------------------------
WorkerLoop(w) ==
    \/ (Pop(w) \/ Fetch(w) \/ ClearBody(w) \/ Track(w) \/ Execute(w)) /\ UNCHANGED listVars
    \/ AnswerPage(w) \/ ExpireAnswer(w)

ScannerLoop(s) ==
    \/ (\E j \in Jobs : Untrack(s, j)) /\ UNCHANGED listVars
    \/ (MoveToDlq(s) \/ RequeueBody(s) \/ RequeueEnqueue(s)) /\ UNCHANGED listVars
    \/ AnswerDead(s) \/ ExpireDead(s)

GiveUpOn(s, w) ==
    (\E stale \in SUBSET Jobs : ScanKey(s, w, stale)) /\ UNCHANGED listVars

Client(j) == PushEnqueue(j) /\ UNCHANGED listVars

YoloNext ==
    \/ \E j \in Jobs :
         \/ (PushBody(j) \/ PushAbort(j)) /\ UNCHANGED listVars
         \/ Client(j) \/ BeginWait(j) \/ TakeAnswer(j) \/ GiveUp(j) \/ Lapse(j)
    \/ \E w \in Workers : WorkerLoop(w) \/ ((Crash(w) \/ Cancel(w)) /\ UNCHANGED listVars)
    \/ \E s \in Scanners :
         \/ ScannerLoop(s) \/ \E w \in Workers : GiveUpOn(s, w)
         \/ ScanAbort(s) /\ UNCHANGED listVars

-----------------------------------------------------------------------------
\* yolo_client: a page never waits out its 120 s for nothing. Its job is answered,
\* by a worker or by the scanner that gave up on it, unless whoever held the job
\* died or failed, or the page gave up first.
DetectionAnswered ==
    \A j \in Jobs : j \in pushed ~> waiter[j] \in {"figures", "error", "timeout"} \/ j \in lost

\* yolo:result:{job}: whatever answers come late or twice, and whoever still
\* listens, no list of answers stays in Redis, unless a process died between its
\* LPUSH and its EXPIRE.
AnswersGoAway ==
    \A j \in Jobs : []<>(answers[j] = <<>> \/ j \in lost)

\* A job that is run twice may be answered twice; the page is told the first
\* answer, so it does not lose figures to a later error of the scanner.
FirstAnswerTold ==
    [][\A j \in Jobs : waiter[j] = "waiting" /\ waiter'[j] \in {"figures", "error"}
         => waiter'[j] = answers[j][1]]_yoloVars

\* A page is told one answer, the first; and its answers do not pile up.
DetectionServed == FirstAnswerTold /\ DetectionAnswered /\ AnswersGoAway
=============================================================================
