----------------------------- MODULE TTSPipeline -----------------------------
(***************************************************************************)
(* From a block a listener asks for to the status that listener is told:   *)
(* request_synthesis and _queue_job (yapit/gateway/synthesis.py), the      *)
(* synthesize and cursor_moved handlers of yapit/gateway/api/v1/ws.py and  *)
(* the result consumer (yapit/gateway/result_consumer.py), composed with   *)
(* the queue, the workers and the visibility scanner of JobQueue.          *)
(*                                                                         *)
(* A variant is a variant_hash; an entry is a "user:document:block"        *)
(* subscriber entry; a connection is one WebSocket, which handles its      *)
(* messages one after the other. The gateway's connections, scanner and    *)
(* result tasks are coroutines: any of them may run at another's await.    *)
(***************************************************************************)
EXTENDS JobQueue, FiniteSets

CONSTANTS
    Variants, Entries, Conns, Tasks,
    VariantOf,     \* [Entries -> Variants], the hash of the block's text
    DocOf,         \* [Entries -> documents of a user]
    ConnDoc,       \* [Conns -> documents of a user], the document a tab shows
    MaxExpiries,   \* bound on keys that reach their TTL
    None

ASSUME PipelineAssumption ==
    /\ VariantOf \in [Entries -> Variants]
    /\ DOMAIN DocOf = Entries
    /\ Evictors \subseteq Conns    \* a cursor_moved handler runs in its connection
    /\ MaxExpiries \in Nat
    /\ None \notin Entries
    /\ IsFiniteSet(Jobs) /\ IsFiniteSet(Tasks)

VARIABLES
    rows,         \* BlockVariant rows in Postgres
    inflight,     \* tts:inflight:{hash}, the id of the job that holds the variant
    subs,         \* tts:subscribers:{hash}
    pending,      \* tts:pending:{user}:{doc}, all documents together
    jobIndex,     \* tts:job_index, entry -> job id
    audio,        \* variants whose audio can be fetched (Redis, later SQLite)
    stream,       \* tts:billing:stream, events per variant
    persist,      \* tts:persist
    jobEntry,     \* the entry a job was created for (a field of SynthesisJob)
    cpc, centry, cjob, cevict, cactive, cowned,  \* each connection's locals
    tpc, tres, tsubs, tcur,                      \* each result task's locals
    expiries,
    waiting       \* history: entries subscribed and not told anything since, other than
                  \* those that came between SMEMBERS and DEL of a result task

connVars == <<cpc, centry, cjob, cevict, cactive, cowned>>
taskVars == <<tpc, tres, tsubs, tcur>>
pipeVars == <<rows, inflight, subs, pending, jobIndex, audio, stream, persist,
              jobEntry, cpc, centry, cjob, cevict, cactive, cowned,
              tpc, tres, tsubs, tcur, expiries, waiting>>
vars == <<queueVars, pipeVars>>

JobVariant(j) == VariantOf[jobEntry[j]]
NoResult == Result(NoJob, "error")

Init ==
    /\ QueueInit
    /\ rows = {}
    /\ inflight = [v \in Variants |-> NoJob]
    /\ subs = [v \in Variants |-> {}]
    /\ pending = {}
    /\ jobIndex = [e \in Entries |-> NoJob]
    /\ audio = {}
    /\ stream = [v \in Variants |-> 0]
    /\ persist = {}
    /\ jobEntry = [j \in Jobs |-> None]
    /\ cpc = [c \in Conns |-> "idle"]
    /\ centry = [c \in Conns |-> None]
    /\ cjob = [c \in Conns |-> NoJob]
    /\ cevict = [c \in Conns |-> {}]
    /\ cactive = [c \in Conns |-> {}]
    /\ cowned = [c \in Conns |-> {}]
    /\ tpc = [t \in Tasks |-> "idle"]
    /\ tres = [t \in Tasks |-> NoResult]
    /\ tsubs = [t \in Tasks |-> {}]
    /\ tcur = [t \in Tasks |-> None]
    /\ expiries = 0
    /\ waiting = {}

-----------------------------------------------------------------------------
(* One block of a synthesize message.                                       *)

ConnIdle(c) ==
    /\ cpc' = [cpc EXCEPT ![c] = "idle"]
    /\ centry' = [centry EXCEPT ![c] = None]
    /\ cjob' = [cjob EXCEPT ![c] = NoJob]

\* Bound: a request is made only while a job id is left for it to draw
FreshIdLeft ==
    Cardinality({d \in Conns : cpc[d] \in {"subscribe", "pend", "claim"}})
        < Cardinality({j \in Jobs : jobEntry[j] = None})

\* The cache check fails: the variant's row is inserted (ON CONFLICT DO NOTHING)
Request(c, e) ==
    /\ cpc[c] = "idle"
    /\ DocOf[e] = ConnDoc[c]
    /\ FreshIdLeft
    /\ ~(VariantOf[e] \in rows /\ VariantOf[e] \in audio)
    /\ rows' = rows \cup {VariantOf[e]}
    /\ centry' = [centry EXCEPT ![c] = e]
    /\ cpc' = [cpc EXCEPT ![c] = "subscribe"]
    /\ UNCHANGED <<inflight, subs, pending, jobIndex, audio, stream, persist, jobEntry>>
    /\ UNCHANGED <<cjob, cevict, cactive, cowned, taskVars, expiries, waiting, queueVars>>

\* Cached, or over the usage limit, which only the listener's balance decides
AnswerAtOnce(c, e) ==
    /\ cpc[c] = "idle"
    /\ DocOf[e] = ConnDoc[c]
    /\ waiting' = waiting \ {e}
    /\ UNCHANGED <<rows, inflight, subs, pending, jobIndex, audio, stream, persist>>
    /\ UNCHANGED <<jobEntry, connVars, taskVars, expiries, queueVars>>

Notifying(v) == \E t \in Tasks : tpc[t] \in {"publish", "send"} /\ JobVariant(tres[t].job) = v

Subscribe(c) ==
    /\ cpc[c] = "subscribe"
    /\ subs' = [subs EXCEPT ![VariantOf[centry[c]]] = @ \cup {centry[c]}]
    /\ waiting' = IF Notifying(VariantOf[centry[c]]) THEN waiting \ {centry[c]}
                  ELSE waiting \cup {centry[c]}
    /\ cpc' = [cpc EXCEPT ![c] = "pend"]
    /\ UNCHANGED <<rows, inflight, pending, jobIndex, audio, stream, persist, jobEntry>>
    /\ UNCHANGED <<centry, cjob, cevict, cactive, cowned, taskVars, expiries, queueVars>>

AddPending(c) ==
    /\ cpc[c] = "pend"
    /\ pending' = pending \cup {centry[c]}
    /\ cpc' = [cpc EXCEPT ![c] = "claim"]
    /\ UNCHANGED <<rows, inflight, subs, jobIndex, audio, stream, persist, jobEntry>>
    /\ UNCHANGED <<centry, cjob, cevict, cactive, cowned, taskVars, expiries, waiting, queueVars>>

\* SET NX fails: another job will answer, the entry only subscribed to it
Join(c) ==
    /\ cpc[c] = "claim"
    /\ inflight[VariantOf[centry[c]]] # NoJob
    /\ ConnIdle(c)
    /\ UNCHANGED <<rows, inflight, subs, pending, jobIndex, audio, stream, persist, jobEntry>>
    /\ UNCHANGED <<cevict, cactive, cowned, taskVars, expiries, waiting, queueVars>>

\* SET NX succeeds with a fresh job id
ClaimInflight(c, j) ==
    /\ cpc[c] = "claim"
    /\ inflight[VariantOf[centry[c]]] = NoJob
    /\ jobEntry[j] = None
    /\ inflight' = [inflight EXCEPT ![VariantOf[centry[c]]] = j]
    /\ jobEntry' = [jobEntry EXCEPT ![j] = centry[c]]
    /\ cjob' = [cjob EXCEPT ![c] = j]
    /\ cpc' = [cpc EXCEPT ![c] = "body"]
    /\ UNCHANGED <<rows, subs, pending, jobIndex, audio, stream, persist>>
    /\ UNCHANGED <<centry, cevict, cactive, cowned, taskVars, expiries, waiting, queueVars>>

HSetJob(c) ==
    /\ cpc[c] = "body"
    /\ PushBody(cjob[c])
    /\ cpc' = [cpc EXCEPT ![c] = "index"]
    /\ UNCHANGED <<rows, inflight, subs, pending, jobIndex, audio, stream, persist, jobEntry>>
    /\ UNCHANGED <<centry, cjob, cevict, cactive, cowned, taskVars, expiries, waiting>>

HSetIndex(c) ==
    /\ cpc[c] = "index"
    /\ jobIndex' = [jobIndex EXCEPT ![centry[c]] = cjob[c]]
    /\ cpc' = [cpc EXCEPT ![c] = "enqueue"]
    /\ UNCHANGED <<rows, inflight, subs, pending, audio, stream, persist, jobEntry>>
    /\ UNCHANGED <<centry, cjob, cevict, cactive, cowned, taskVars, expiries, waiting, queueVars>>

ZAddJob(c) ==
    /\ cpc[c] = "enqueue"
    /\ PushEnqueue(cjob[c])
    /\ ConnIdle(c)
    /\ UNCHANGED <<rows, inflight, subs, pending, jobIndex, audio, stream, persist, jobEntry>>
    /\ UNCHANGED <<cevict, cactive, cowned, taskVars, expiries, waiting>>

-----------------------------------------------------------------------------
(* cursor_moved: evict every pending block of the connection's document.    *)

ReadPending(c) ==
    /\ c \in Evictors
    /\ cpc[c] = "idle"
    /\ cevict' = [cevict EXCEPT ![c] = {e \in pending : DocOf[e] = ConnDoc[c]}]
    /\ cevict'[c] # {}
    /\ cpc' = [cpc EXCEPT ![c] = "unpend"]
    /\ UNCHANGED <<rows, inflight, subs, pending, jobIndex, audio, stream, persist, jobEntry>>
    /\ UNCHANGED <<centry, cjob, cactive, cowned, taskVars, expiries, waiting, queueVars>>

DropPending(c) ==
    /\ cpc[c] = "unpend"
    /\ pending' = pending \ cevict[c]
    /\ cpc' = [cpc EXCEPT ![c] = "readindex"]
    /\ UNCHANGED <<rows, inflight, subs, jobIndex, audio, stream, persist, jobEntry>>
    /\ UNCHANGED <<centry, cjob, cevict, cactive, cowned, taskVars, expiries, waiting, queueVars>>

\* the handler's last statement: the listener is told its blocks were evicted
TellEvicted(c) ==
    /\ waiting' = waiting \ cevict[c]
    /\ cevict' = [cevict EXCEPT ![c] = {}]
    /\ cactive' = [cactive EXCEPT ![c] = {}]
    /\ cowned' = [cowned EXCEPT ![c] = {}]
    /\ cpc' = [cpc EXCEPT ![c] = "idle"]

ReadIndex(c) ==
    /\ cpc[c] = "readindex"
    /\ LET active == {e \in cevict[c] : jobIndex[e] # NoJob}
       IN  \/ /\ active = {}
              /\ TellEvicted(c)
           \/ /\ active # {}
              /\ cactive' = [cactive EXCEPT ![c] = {<<e, jobIndex[e]>> : e \in active}]
              /\ cpc' = [cpc EXCEPT ![c] = "look"]
              /\ UNCHANGED <<cevict, cowned, waiting>>
    /\ UNCHANGED <<rows, inflight, subs, pending, jobIndex, audio, stream, persist, jobEntry>>
    /\ UNCHANGED <<centry, cjob, taskVars, expiries, queueVars>>

LookForJobs(c) ==
    /\ cpc[c] = "look"
    /\ EvictLook(c, {a[2] : a \in cactive[c]})
    /\ cpc' = [cpc EXCEPT ![c] = "zrem"]
    /\ UNCHANGED <<rows, inflight, subs, pending, jobIndex, audio, stream, persist, jobEntry>>
    /\ UNCHANGED <<centry, cjob, cevict, cactive, cowned, taskVars, expiries, waiting>>

ZRemJobs(c) ==
    /\ cpc[c] = "zrem"
    /\ EvictRemove(c)
    /\ cpc' = [cpc EXCEPT ![c] = "hdel"]
    /\ UNCHANGED <<rows, inflight, subs, pending, jobIndex, audio, stream, persist, jobEntry>>
    /\ UNCHANGED <<centry, cjob, cevict, cactive, cowned, taskVars, expiries, waiting>>

HDelJobs(c) ==
    /\ cpc[c] = "hdel"
    /\ EvictBodies(c)
    /\ jobIndex' = [e \in Entries |-> IF e \in {a[1] : a \in cactive[c]}
                                      THEN NoJob ELSE jobIndex[e]]
    /\ \/ /\ eremoved[c] = {}
          /\ EvictDone(c)
          /\ TellEvicted(c)
       \/ /\ eremoved[c] # {}
          /\ cpc' = [cpc EXCEPT ![c] = "owners"]
          /\ UNCHANGED <<epc, eremoved, cevict, cactive, cowned, waiting>>
    /\ UNCHANGED <<rows, inflight, subs, pending, audio, stream, persist, jobEntry>>
    /\ UNCHANGED <<centry, cjob, taskVars, expiries>>

\* GET of the inflight keys of the removed jobs, then DEL of those they own:
\* two pipelines, so the key may change hands in between
ReadOwners(c) ==
    /\ cpc[c] = "owners"
    /\ cowned' = [cowned EXCEPT ![c] =
                     {JobVariant(j) : j \in {i \in eremoved[c] : inflight[JobVariant(i)] = i}}]
    /\ EvictDone(c)
    /\ cpc' = [cpc EXCEPT ![c] = "release"]
    /\ UNCHANGED <<queue, jobs, processing, results, dlq, pushing, crashes, ehas>>
    /\ UNCHANGED <<workerVars, scannerVars, historyVars>>
    /\ UNCHANGED <<rows, inflight, subs, pending, jobIndex, audio, stream, persist, jobEntry>>
    /\ UNCHANGED <<centry, cjob, cevict, cactive, taskVars, expiries, waiting>>

ReleaseInflight(c) ==
    /\ cpc[c] = "release"
    /\ inflight' = [v \in Variants |-> IF v \in cowned[c] THEN NoJob ELSE inflight[v]]
    /\ TellEvicted(c)
    /\ UNCHANGED <<rows, subs, pending, jobIndex, audio, stream, persist, jobEntry>>
    /\ UNCHANGED <<centry, cjob, taskVars, expiries, queueVars>>

-----------------------------------------------------------------------------
(* The result consumer: one task per result popped.                         *)

TaskIdle(t) ==
    /\ tpc' = [tpc EXCEPT ![t] = "idle"]
    /\ tres' = [tres EXCEPT ![t] = NoResult]

PopResult(t) ==
    /\ tpc[t] = "idle"
    /\ results # <<>>
    /\ results' = Tail(results)
    /\ tres' = [tres EXCEPT ![t] = Head(results)]
    /\ tpc' = [tpc EXCEPT ![t] = "claim"]
    /\ UNCHANGED <<queue, jobs, processing, dlq, pushing, crashes>>
    /\ UNCHANGED <<workerVars, scannerVars, evictorVars, historyVars>>
    /\ UNCHANGED <<rows, inflight, subs, pending, jobIndex, audio, stream, persist, jobEntry>>
    /\ UNCHANGED <<tsubs, tcur, connVars, expiries, waiting>>

\* Mutant of ClaimResult: the inflight key is read, not deleted
ClaimResultKeepsKey(t) ==
    /\ tpc[t] = "claim"
    /\ LET v == JobVariant(tres[t].job)
       IN  \/ /\ inflight[v] = NoJob
              /\ TaskIdle(t)
              /\ UNCHANGED inflight
           \/ /\ inflight[v] # NoJob
              /\ UNCHANGED inflight
              /\ tpc' = [tpc EXCEPT ![t] = IF tres[t].outcome = "audio"
                                           THEN "store" ELSE "collect"]
              /\ UNCHANGED tres
    /\ UNCHANGED <<rows, subs, pending, jobIndex, audio, stream, persist, jobEntry>>
    /\ UNCHANGED <<tsubs, tcur, connVars, expiries, waiting, queueVars>>

\* DEL of the inflight key, whichever job it names; a reply of 0 is a duplicate
ClaimResult(t) ==
    /\ tpc[t] = "claim"
    /\ LET v == JobVariant(tres[t].job)
       IN  \/ /\ inflight[v] = NoJob
              /\ TaskIdle(t)
              /\ UNCHANGED inflight
           \/ /\ inflight[v] # NoJob
              /\ inflight' = [inflight EXCEPT ![v] = NoJob]
              /\ tpc' = [tpc EXCEPT ![t] = IF tres[t].outcome = "audio"
                                           THEN "store" ELSE "collect"]
              /\ UNCHANGED tres
    /\ UNCHANGED <<rows, subs, pending, jobIndex, audio, stream, persist, jobEntry>>
    /\ UNCHANGED <<tsubs, tcur, connVars, expiries, waiting, queueVars>>

StoreAudio(t) ==
    /\ tpc[t] = "store"
    /\ audio' = audio \cup {JobVariant(tres[t].job)}
    /\ tpc' = [tpc EXCEPT ![t] = "collect"]
    /\ UNCHANGED <<rows, inflight, subs, pending, jobIndex, stream, persist, jobEntry>>
    /\ UNCHANGED <<tres, tsubs, tcur, connVars, expiries, waiting, queueVars>>

\* Mutant of CollectSubs: nobody hears of an error
CollectSubsOfAudio(t) ==
    /\ tpc[t] = "collect"
    /\ tsubs' = [tsubs EXCEPT ![t] = IF tres[t].outcome = "audio"
                                     THEN subs[JobVariant(tres[t].job)] ELSE {}]
    /\ tpc' = [tpc EXCEPT ![t] = "publish"]
    /\ UNCHANGED <<rows, inflight, subs, pending, jobIndex, audio, stream, persist, jobEntry>>
    /\ UNCHANGED <<tres, tcur, connVars, expiries, waiting, queueVars>>

\* _notify_subscribers: SMEMBERS, then SREM and PUBLISH per member, then DEL
CollectSubs(t) ==
    /\ tpc[t] = "collect"
    /\ tsubs' = [tsubs EXCEPT ![t] = subs[JobVariant(tres[t].job)]]
    /\ tpc' = [tpc EXCEPT ![t] = "publish"]
    /\ UNCHANGED <<rows, inflight, subs, pending, jobIndex, audio, stream, persist, jobEntry>>
    /\ UNCHANGED <<tres, tcur, connVars, expiries, waiting, queueVars>>

Unpend(t, e) ==
    /\ tpc[t] = "publish"
    /\ e \in tsubs[t]
    /\ tsubs' = [tsubs EXCEPT ![t] = @ \ {e}]
    /\ tcur' = [tcur EXCEPT ![t] = e]
    /\ pending' = pending \ {e}
    /\ tpc' = [tpc EXCEPT ![t] = "send"]
    /\ UNCHANGED <<rows, inflight, subs, jobIndex, audio, stream, persist, jobEntry>>
    /\ UNCHANGED <<tres, connVars, expiries, waiting, queueVars>>

Publish(t) ==
    /\ tpc[t] = "send"
    /\ waiting' = waiting \ {tcur[t]}
    /\ tcur' = [tcur EXCEPT ![t] = None]
    /\ tpc' = [tpc EXCEPT ![t] = "publish"]
    /\ UNCHANGED <<rows, inflight, subs, pending, jobIndex, audio, stream, persist, jobEntry>>
    /\ UNCHANGED <<tres, tsubs, connVars, expiries, queueVars>>

DropSubs(t) ==
    /\ tpc[t] = "publish"
    /\ tsubs[t] = {}
    /\ subs' = [subs EXCEPT ![JobVariant(tres[t].job)] = {}]
    /\ \/ /\ tres[t].outcome = "audio"
          /\ tpc' = [tpc EXCEPT ![t] = "bill"]
          /\ UNCHANGED tres
       \/ /\ tres[t].outcome # "audio"
          /\ TaskIdle(t)
    /\ UNCHANGED <<rows, inflight, pending, jobIndex, audio, stream, persist, jobEntry>>
    /\ UNCHANGED <<tsubs, tcur, connVars, expiries, waiting, queueVars>>

Bill(t) ==
    /\ tpc[t] = "bill"
    /\ stream' = [stream EXCEPT ![JobVariant(tres[t].job)] = @ + 1]
    /\ tpc' = [tpc EXCEPT ![t] = "persist"]
    /\ UNCHANGED <<rows, inflight, subs, pending, jobIndex, audio, persist, jobEntry>>
    /\ UNCHANGED <<tres, tsubs, tcur, connVars, expiries, waiting, queueVars>>

Persist(t) ==
    /\ tpc[t] = "persist"
    /\ persist' = persist \cup {JobVariant(tres[t].job)}
    /\ TaskIdle(t)
    /\ UNCHANGED <<rows, inflight, subs, pending, jobIndex, audio, stream, jobEntry>>
    /\ UNCHANGED <<tsubs, tcur, connVars, expiries, waiting, queueVars>>

-----------------------------------------------------------------------------
(* Failures and TTLs.                                                       *)

\* A handler raises (the connection goes on and reports an error) or its gateway
\* dies; the job it was about to push never reaches the queue
ConnAbort(c) ==
    /\ crashes < MaxCrashes
    /\ cpc[c] # "idle"
    /\ crashes' = crashes + 1
    /\ lost' = IF cjob[c] = NoJob THEN lost ELSE lost \cup {cjob[c]}
    /\ pushing' = pushing \ {cjob[c]}
    /\ waiting' = waiting \ {centry[c]}
    /\ ConnIdle(c)
    /\ cevict' = [cevict EXCEPT ![c] = {}]
    /\ cactive' = [cactive EXCEPT ![c] = {}]
    /\ cowned' = [cowned EXCEPT ![c] = {}]
    /\ epc' = [epc EXCEPT ![c] = "idle"]
    /\ ehas' = [ehas EXCEPT ![c] = {}]
    /\ eremoved' = [eremoved EXCEPT ![c] = {}]
    /\ UNCHANGED <<queue, jobs, processing, results, dlq, workerVars, scannerVars>>
    /\ UNCHANGED <<born, pushed, attempts, reported, evicted>>
    /\ UNCHANGED <<rows, inflight, subs, pending, jobIndex, audio, stream, persist>>
    /\ UNCHANGED <<jobEntry, taskVars, expiries>>

\* _process_result catches the exception and tells the subscribers of an error;
\* when it was the DEL that failed, the inflight key is left to its TTL
TaskFail(t) ==
    /\ crashes < MaxCrashes
    /\ tpc[t] # "idle"
    /\ crashes' = crashes + 1
    /\ lost' = IF tpc[t] = "claim" THEN lost \cup {tres[t].job} ELSE lost
    /\ tres' = [tres EXCEPT ![t].outcome = "error"]
    /\ tsubs' = [tsubs EXCEPT ![t] = {}]
    /\ tcur' = [tcur EXCEPT ![t] = None]
    /\ tpc' = [tpc EXCEPT ![t] = "collect"]
    /\ UNCHANGED <<queue, jobs, processing, results, dlq, pushing>>
    /\ UNCHANGED <<born, pushed, attempts, reported, evicted>>
    /\ UNCHANGED <<workerVars, scannerVars, evictorVars>>
    /\ UNCHANGED <<rows, inflight, subs, pending, jobIndex, audio, stream, persist>>
    /\ UNCHANGED <<jobEntry, connVars, expiries, waiting>>

\* The gateway dies with the result in hand
TaskDie(t) ==
    /\ crashes < MaxCrashes
    /\ tpc[t] # "idle"
    /\ crashes' = crashes + 1
    /\ lost' = lost \cup {tres[t].job}
    /\ TaskIdle(t)
    /\ tsubs' = [tsubs EXCEPT ![t] = {}]
    /\ tcur' = [tcur EXCEPT ![t] = None]
    /\ UNCHANGED <<queue, jobs, processing, results, dlq, pushing>>
    /\ UNCHANGED <<born, pushed, attempts, reported, evicted>>
    /\ UNCHANGED <<workerVars, scannerVars, evictorVars>>
    /\ UNCHANGED <<rows, inflight, subs, pending, jobIndex, audio, stream, persist>>
    /\ UNCHANGED <<jobEntry, connVars, expiries, waiting>>

\* TTLs of 600 s on the keys of a variant; audio leaves the cache by its TTL in
\* Redis and least-recently-used eviction in SQLite
Expire(v) ==
    /\ expiries < MaxExpiries
    /\ expiries' = expiries + 1
    /\ \/ /\ inflight[v] # NoJob
          /\ inflight' = [inflight EXCEPT ![v] = NoJob]
          /\ UNCHANGED <<subs, audio>>
       \/ /\ subs[v] # {}
          /\ subs' = [subs EXCEPT ![v] = {}]
          /\ UNCHANGED <<inflight, audio>>
       \/ /\ v \in audio
          /\ audio' = audio \ {v}
          /\ UNCHANGED <<inflight, subs>>
    /\ UNCHANGED <<rows, pending, jobIndex, stream, persist, jobEntry>>
    /\ UNCHANGED <<connVars, taskVars, waiting, queueVars>>

ExpirePending(d) ==
    /\ expiries < MaxExpiries
    /\ expiries' = expiries + 1
    /\ \E e \in pending : DocOf[e] = d
    /\ pending' = {e \in pending : DocOf[e] # d}
    /\ UNCHANGED <<rows, inflight, subs, jobIndex, audio, stream, persist, jobEntry>>
    /\ UNCHANGED <<connVars, taskVars, waiting, queueVars>>

-----------------------------------------------------------------------------
SynthesizeStep(c) ==
    \/ Subscribe(c) \/ AddPending(c) \/ Join(c)
    \/ \E j \in Jobs : ClaimInflight(c, j)
    \/ HSetJob(c) \/ HSetIndex(c) \/ ZAddJob(c)

CursorStep(c) ==
    \/ DropPending(c) \/ ReadIndex(c) \/ LookForJobs(c) \/ ZRemJobs(c)
    \/ HDelJobs(c) \/ ReadOwners(c) \/ ReleaseInflight(c)

\* What listeners do, and nothing makes them do it
ListenerStep(c) ==
    \/ \E e \in Entries : Request(c, e) \/ AnswerAtOnce(c, e)
    \/ ReadPending(c)

TaskStep(t) ==
    \/ PopResult(t) \/ ClaimResult(t) \/ StoreAudio(t) \/ CollectSubs(t)
    \/ \E e \in Entries : Unpend(t, e)
    \/ Publish(t) \/ DropSubs(t) \/ Bill(t) \/ Persist(t)

QueueStep == QueueNext /\ UNCHANGED pipeVars

Next ==
    \/ QueueStep
    \/ \E c \in Conns : ListenerStep(c) \/ SynthesizeStep(c) \/ CursorStep(c) \/ ConnAbort(c)
    \/ \E t \in Tasks : TaskStep(t) \/ TaskFail(t) \/ TaskDie(t)
    \/ \E v \in Variants : Expire(v)
    \/ \E c \in Conns : ExpirePending(ConnDoc[c])

Spec == Init /\ [][Next]_vars

\* A coroutine that can run is run: the event loop is fair, and so is the scan
Fairness ==
    /\ \A c \in Conns : WF_vars(SynthesizeStep(c)) /\ WF_vars(CursorStep(c))
    /\ \A t \in Tasks : WF_vars(TaskStep(t))
    /\ \A w \in Workers : WF_vars(WorkerStep(w) /\ UNCHANGED pipeVars)
    /\ \A s \in Scanners :
          /\ WF_vars(ScannerStep(s) /\ UNCHANGED pipeVars)
          /\ \A w \in Workers : SF_vars(ScanKey(s, w, Tracked(w)) /\ UNCHANGED pipeVars)

FairSpec == Spec /\ Fairness

-----------------------------------------------------------------------------
\* The values every variable of the pipeline ranges over, and which locals are set
\* in which state of a coroutine
KeysTypeOK ==
    /\ rows \subseteq Variants
    /\ inflight \in [Variants -> Jobs \cup {NoJob}]
    /\ subs \in [Variants -> SUBSET Entries]
    /\ pending \subseteq Entries
    /\ jobIndex \in [Entries -> Jobs \cup {NoJob}]
    /\ audio \subseteq rows
    /\ stream \in [Variants -> Nat]
    /\ persist \subseteq Variants
    /\ jobEntry \in [Jobs -> Entries \cup {None}]
    /\ born \cup pushed \cup pushing \subseteq {j \in Jobs : jobEntry[j] # None}
    /\ expiries \in 0 .. MaxExpiries
    /\ waiting \subseteq Entries

ConnsTypeOK ==
    /\ cpc \in [Conns -> {"idle", "subscribe", "pend", "claim", "body", "index", "enqueue",
                           "unpend", "readindex", "look", "zrem", "hdel", "owners", "release"}]
    /\ centry \in [Conns -> Entries \cup {None}]
    /\ \A c \in Conns : centry[c] # None
           <=> cpc[c] \in {"subscribe", "pend", "claim", "body", "index", "enqueue"}
    /\ cjob \in [Conns -> Jobs \cup {NoJob}]
    /\ \A c \in Conns : cjob[c] # NoJob <=> cpc[c] \in {"body", "index", "enqueue"}
    /\ \A c \in Conns \ Evictors :
           cpc[c] \notin {"unpend", "readindex", "look", "zrem", "hdel", "owners", "release"}
    /\ cevict \in [Conns -> SUBSET Entries]
    /\ cactive \in [Conns -> SUBSET (Entries \X Jobs)]
    /\ cowned \in [Conns -> SUBSET Variants]

TasksTypeOK ==
    /\ tpc \in [Tasks -> {"idle", "claim", "store", "collect", "publish", "send", "bill", "persist"}]
    /\ tres \in [Tasks -> [job : Jobs \cup {NoJob}, outcome : Outcomes]]
    /\ \A t \in Tasks : tres[t].job = NoJob <=> tpc[t] = "idle"
    /\ \A t \in Tasks : tpc[t] \in {"store", "bill", "persist"} => tres[t].outcome = "audio"
    /\ tsubs \in [Tasks -> SUBSET Entries]
    /\ tcur \in [Tasks -> Entries \cup {None}]
    /\ \A t \in Tasks : tcur[t] # None <=> tpc[t] = "send"

TypeOK == QueueTypeOK /\ KeysTypeOK /\ ConnsTypeOK /\ TasksTypeOK

\* A job that will still produce a result, or a result of it that still counts
Alive(j) ==
    \/ j \in queue \cup pushing
    \/ \E w \in Workers :
          \/ wjob[w] = j
          \/ HeldByEntry(j, w)
    \/ \E s \in Scanners : sjob[s] = j
    \/ \E c \in Conns : cjob[c] = j
    \/ \E i \in DOMAIN results : results[i].job = j
    \/ \E t \in Tasks : tpc[t] = "claim" /\ tres[t].job = j

\* The inflight key of a variant names a job that can still give the key back: a
\* variant is never held by a job that is gone, unless a crash took that job.
InflightOwned ==
    \A v \in Variants :
        inflight[v] # NoJob => Alive(inflight[v]) \/ inflight[v] \in lost

Working(j) ==
    \/ j \in queue
    \/ \E w \in Workers : wjob[w] = j /\ wpc[w] # "popped"

\* Until a key reached its TTL, and where nothing is requeued (API voices), two jobs
\* never work on one variant at the same time, whatever is evicted: the inflight key
\* is all that keeps the second out.
OneLiveJobPerVariant ==
    expiries = 0 =>
        \A i, j \in Jobs :
            Working(i) /\ Working(j) /\ i # j => JobVariant(i) # JobVariant(j)

\* The jobs ever queued for a variant, one per successful SET NX
Claims(v) == {j \in Jobs : jobEntry[j] # None /\ JobVariant(j) = v}

\* The result tasks that have yet to write an event for a variant
ToBill(v) ==
    {t \in Tasks : /\ tpc[t] \in {"store", "collect", "publish", "send", "bill"}
                   /\ tres[t].outcome = "audio"
                   /\ JobVariant(tres[t].job) = v}

\* Every billing event uses up one successful SET NX of its variant: however
\* often a job is requeued and run, whichever job's result deletes the key and
\* whatever expires, the events of a variant never outnumber the jobs queued for it.
EventsWithinClaims ==
    \A v \in Variants :
        stream[v] + (IF inflight[v] = NoJob THEN 0 ELSE 1) + Cardinality(ToBill(v))
            <= Cardinality(Claims(v))

\* No job holds a variant for ever, TTL or not: a result of it, or the scanner's on
\* behalf of a worker that died, gives the key back, unless a crash took the job
\* itself.
InflightReleased ==
    \A v \in Variants, j \in Jobs :
        inflight[v] = j ~> inflight[v] # j \/ j \in lost

\* A block that subscribed to a variant, whoever synthesizes it, is told something
\* in the end, be it the scanner's error, unless a crash took a job it may wait for,
\* or it came while a result task was telling the others: the DEL drops it then.
SubscriberNotified ==
    \A e \in Entries : e \in waiting ~> e \notin waiting \/ Claims(VariantOf[e]) \cap lost # {}

\* What no fault breaks: a crash, an expired key, an eviction and an exception in a
\* result task leave the state well formed, at most one job of an API voice at work
\* on a variant, and no event without a claim of its own, and only a crash that no
\* processing entry covers loses a job.
PipelineInv == TypeOK /\ OneLiveJobPerVariant /\ EventsWithinClaims /\ NothingLost
=============================================================================
