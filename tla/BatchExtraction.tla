--------------------------- MODULE BatchExtraction ---------------------------
(***************************************************************************)
(* Extraction through Gemini's batch API, next to the page by page         *)
(* extraction of module Extraction: _submit_batch_extraction and           *)
(* _prepare_and_submit_batch of yapit/gateway/api/v1/documents.py, the job *)
(* records of document/batch.py and the poller of                          *)
(* document/batch_poller.py.                                               *)
(*                                                                         *)
(* A Gemini job has the name of the request that created it. RUNNING is    *)
(* treated like PENDING and EXPIRED like FAILED, as the poller does; the   *)
(* 48 h TTL of a job record is longer than Gemini keeps a job.             *)
(***************************************************************************)
EXTENDS Extraction

CONSTANT NoJob

Statuses == {"PREPARING", "PENDING", "SUCCEEDED", "FAILED", "CANCELLED"}
Jobs == [by : Requests, status : Statuses, document : BOOLEAN]

ASSUME JobAssumption == NoJob \notin Jobs

VARIABLES
    job,          \* batch:{content_hash}
    active,       \* active_batch_jobs
    gemini,       \* the state of each request's job at Gemini
    ppc, jobs, cur,   \* the poller: its phase, the jobs it listed, the one in hand
    superseded    \* history: requests whose job record was replaced by another's, or
                  \* whose entry in active_batch_jobs was removed for another

batchVars == <<job, active, gemini, ppc, jobs, cur, superseded>>
pollerVars == <<ppc, jobs, cur>>
vars == <<extractionVars, batchVars>>

Job(r, status, doc) == [by |-> r, status |-> status, document |-> doc]
NoSnapshot == [by |-> CHOOSE r \in Requests : TRUE, status |-> "FAILED", document |-> FALSE]

BatchInit ==
    /\ Init
    /\ job = [c \in Contents |-> NoJob]
    /\ active = {}
    /\ gemini = [r \in Requests |-> "none"]
    /\ ppc = "idle" /\ jobs = {} /\ cur = NoSnapshot
    /\ superseded = {}

\* save_batch_job: the key is the content alone, whoever asked for it
SaveJob(c, j) ==
    /\ job' = [job EXCEPT ![c] = j]
    /\ superseded' = IF job[c] # NoJob /\ job[c].by # j.by
                     THEN superseded \cup {job[c].by} ELSE superseded

-----------------------------------------------------------------------------
(* _submit_batch_extraction                                                *)

BatchAsk(r) ==
    /\ pc[r] = "idle"
    /\ \E a \in Asks[r] : a.batch /\ ask' = [ask EXCEPT ![r] = a]
    /\ Goto(r, "find")
    /\ UNCHANGED <<redis, stores, found, seen, page, bounds, history, batchVars>>

BatchLookup(r) ==
    /\ pc[r] = "find"
    /\ LET hits == CachedPages(r) IN
        /\ found' = [found EXCEPT ![r] = hits]
        /\ Goto(r, IF Requested(r) = {e.page : e \in hits} THEN "direct" ELSE "available")
        /\ swept' = SweptBy(hits)
    /\ UNCHANGED <<redis, stores, ask, seen, page, bounds, charged, raced, lapsed, leaked,
                   batchVars>>

\* Everything was cached: a document, then a finished job that names it
DirectDocument(r) ==
    /\ pc[r] = "direct"
    /\ docs' = docs \cup {Document(r, found[r], {})}
    /\ Goto(r, "record")
    /\ UNCHANGED <<redis, spent, cache, images, ask, found, seen, page, bounds, history, batchVars>>

DirectJob(r) ==
    /\ pc[r] = "record"
    /\ SaveJob(Content(r), Job(r, "SUCCEEDED", TRUE))
    /\ Goto(r, "done")
    /\ UNCHANGED <<redis, stores, ask, found, seen, page, bounds, history, active, gemini, pollerVars>>

SavePreparing(r) ==
    /\ pc[r] = "save"
    /\ SaveJob(Content(r), Job(r, "PREPARING", FALSE))
    /\ Goto(r, "prepare")
    /\ UNCHANGED <<redis, stores, ask, found, seen, page, bounds, history, active, gemini, pollerVars>>

-----------------------------------------------------------------------------
(* _prepare_and_submit_batch                                               *)

\* prepare_for_batch detects the figures of every page before anything is sent
Prepare(r) ==
    /\ pc[r] = "prepare"
    /\ \E figs \in SUBSET (Uncached(r) \cap FigurePages) :
        /\ images' = images \cup {<<Content(r), p>> : p \in figs}
        /\ page' = [page EXCEPT ![r] = [p \in Pages |->
                      IF p \notin Uncached(r) THEN "none"
                      ELSE IF p \in figs THEN "figures" ELSE "plain"]]
    /\ Goto(r, "submit")
    /\ UNCHANGED <<redis, spent, cache, docs, ask, found, seen, bounds, history, batchVars>>

Submit(r) ==
    /\ pc[r] = "submit"
    /\ gemini' = [gemini EXCEPT ![r] = "running"]
    /\ Goto(r, "store")
    /\ UNCHANGED <<redis, stores, ask, found, seen, page, bounds, history,
                   job, active, pollerVars, superseded>>

StoreJob(r) ==
    /\ pc[r] = "store"
    /\ SaveJob(Content(r), Job(r, "PENDING", FALSE))
    /\ Goto(r, "activate")
    /\ UNCHANGED <<redis, stores, ask, found, seen, page, bounds, history, active, gemini, pollerVars>>

Activate(r) ==
    /\ pc[r] = "activate"
    /\ active' = active \cup {Content(r)}
    /\ Goto(r, "submitted")
    /\ UNCHANGED <<redis, stores, ask, found, seen, page, bounds, history,
                   job, gemini, pollerVars, superseded>>

BatchRaise(r) ==
    /\ pc[r] \in {"prepare", "submit", "store", "activate"}
    /\ Fault /\ SameBounds
    /\ Goto(r, "undo")
    /\ UNCHANGED <<redis, stores, ask, found, seen, page, history, batchVars>>

\* What Gemini took before the failure it goes on with, without a reservation
Undo(r) ==
    /\ pc[r] = "undo"
    /\ reserved' = [reserved EXCEPT ![User(r)] = ReleaseReservation(@, Content(r))]
    /\ raced' = IF Interferes(r) \/ gemini[r] # "none" THEN raced \cup {User(r)} ELSE raced
    /\ Goto(r, "mark")
    /\ UNCHANGED <<slots, cancelled, result, stores, ask, found, seen, page, bounds,
                   charged, lapsed, leaked, swept, batchVars>>

\* Whatever job is under the key is marked as failed
Mark(r) ==
    /\ pc[r] = "mark"
    /\ LET c == Content(r) IN
        job' = IF job[c] = NoJob THEN job ELSE [job EXCEPT ![c].status = "FAILED"]
    /\ Goto(r, "failed")
    /\ UNCHANGED <<redis, stores, ask, found, seen, page, bounds, history,
                   active, gemini, pollerVars, superseded>>

\* An exception out of the handler, after the reservation was made
SaveFails(r) ==
    /\ pc[r] \in {"direct", "record", "save"}
    /\ Fault /\ SameBounds
    /\ Goto(r, "rejected")
    /\ UNCHANGED <<redis, stores, ask, found, seen, page, history, batchVars>>

-----------------------------------------------------------------------------
(* Gemini                                                                  *)

\* A job takes minutes, the calls that follow its submission do not
GeminiEnds(r) ==
    /\ gemini[r] = "running"
    /\ pc[r] \notin {"store", "activate", "undo", "mark"}
    /\ \/ /\ gemini' = [gemini EXCEPT ![r] = "succeeded"]
          /\ \E ok \in SUBSET Uncached(r) :
                page' = [page EXCEPT ![r] = [p \in Pages |->
                    CASE p \notin Uncached(r) -> @[p]
                      [] p \notin ok -> "failed"
                      [] @[p] = "figures" -> "keptfigures"
                      [] OTHER -> "kept"]]
       \/ /\ \E s \in {"failed", "cancelled"} : gemini' = [gemini EXCEPT ![r] = s]
          /\ UNCHANGED page
    /\ UNCHANGED <<redis, stores, pc, ask, found, seen, bounds, history,
                   job, active, pollerVars, superseded>>

-----------------------------------------------------------------------------
(* BatchPoller                                                             *)

By == cur.by
PollerFrame == UNCHANGED <<ask, found, seen, page, bounds, gemini>>
PollGoto(label) == /\ ppc' = label /\ UNCHANGED jobs
                   /\ cur' = IF label = "each" THEN NoSnapshot ELSE cur

\* Mutant of ListJobs: a listed job is taken off the active set
ListJobsPops ==
    /\ ppc = "idle"
    /\ jobs' = {j \in {job[c] : c \in active} : j # NoJob /\ j.status = "PENDING"}
    /\ jobs' # {}
    /\ active' = {}
    /\ ppc' = "each" /\ UNCHANGED cur
    /\ PollerFrame /\ UNCHANGED <<redis, stores, pc, history, job, superseded>>

ListJobs ==
    /\ ppc = "idle"
    /\ jobs' = {j \in {job[c] : c \in active} : j # NoJob /\ j.status = "PENDING"}
    /\ jobs' # {}
    /\ active' = {c \in active : job[c] # NoJob}
    /\ ppc' = "each" /\ UNCHANGED cur
    /\ PollerFrame /\ UNCHANGED <<redis, stores, pc, history, job, superseded>>

GeminiStatus(r) == CASE gemini[r] = "succeeded" -> "SUCCEEDED"
                     [] gemini[r] = "failed" -> "FAILED"
                     [] gemini[r] = "cancelled" -> "CANCELLED"
                     [] OTHER -> "PENDING"

\* Mutant of PollJob: the final status is not saved before the pages are processed
PollJobUnsaved ==
    /\ ppc = "each"
    /\ \E j \in jobs :
        /\ jobs' = jobs \ {j}
        /\ LET polled == [j EXCEPT !.status = GeminiStatus(j.by)] IN
            /\ IF polled.status \in {"SUCCEEDED", "FAILED"}
               THEN /\ cur' = polled
                    /\ ppc' = IF polled.status = "FAILED" THEN "failed" ELSE "keep"
               ELSE UNCHANGED <<ppc, cur>>
    /\ PollerFrame /\ UNCHANGED <<redis, stores, pc, history, active, job, superseded>>

\* poll_batch_job saves the listed copy of the job with the status it fetched
PollJob ==
    /\ ppc = "each"
    /\ \E j \in jobs :
        /\ jobs' = jobs \ {j}
        /\ LET polled == [j EXCEPT !.status = GeminiStatus(j.by)] IN
            /\ SaveJob(Content(j.by), polled)
            /\ IF polled.status \in {"SUCCEEDED", "FAILED"}
               THEN /\ cur' = polled
                    /\ ppc' = IF polled.status = "FAILED" THEN "failed" ELSE "keep"
               ELSE UNCHANGED <<ppc, cur>>
    /\ PollerFrame /\ UNCHANGED <<redis, stores, pc, history, active>>

Sleep ==
    /\ ppc = "each" /\ jobs = {}
    /\ PollGoto("idle")
    /\ PollerFrame /\ UNCHANGED <<redis, stores, pc, history, job, active, superseded>>

\* get_batch_results, process_batch_completion: its cache key has no prompt in it
BatchEntries == {Entry(Key(Content(By), NoPrompt, p), page[By][p] = "keptfigures",
                       ask[By].prompt) : p \in Kept(By)}

KeepResults ==
    /\ ppc = "keep"
    /\ Store(BatchEntries)
    /\ PollGoto("bill")
    /\ PollerFrame /\ UNCHANGED <<redis, spent, images, docs, pc, history, job, active, superseded>>

BillResults ==
    /\ ppc = "bill"
    /\ spent' = [spent EXCEPT ![User(By)] = @ + Cost * Cardinality(Kept(By))]
    /\ charged' = [charged EXCEPT ![By] =
                      [p \in Pages |-> IF p \in Kept(By) THEN @[p] + 1 ELSE @[p]]]
    /\ PollGoto("release")
    /\ PollerFrame /\ UNCHANGED <<redis, cache, images, docs, pc, raced, lapsed, leaked, swept,
                                  job, active, superseded>>

\* The finally block of process_batch_completion
ReleaseResults ==
    /\ ppc \in {"release", "raised"}
    /\ ReleaseOf(By)
    /\ IF ppc = "release" THEN Goto(By, "closing") /\ PollGoto("merge")
                          ELSE Goto(By, "done") /\ PollGoto("each")
    /\ PollerFrame
    /\ UNCHANGED <<slots, cancelled, result, stores, charged, lapsed, leaked, swept,
                   job, active, superseded>>

\* remove_from_active_set, whichever job is active under the content by now
RemoveFromActive(c) ==
    /\ active' = active \ {c}
    /\ superseded' = IF job[c] # NoJob /\ job[c].by # By
                     THEN superseded \cup {job[c].by} ELSE superseded

\* The pages that were cached at submission are read again, without a prompt
Merged == UNION {At(Key(Content(By), NoPrompt, p)) : p \in FoundPages(By)}

MergeAndCreate ==
    /\ ppc = "merge"
    /\ LET entries == BatchEntries \cup Merged IN
        IF entries = {}
        THEN PollGoto("unlist") /\ UNCHANGED docs
        ELSE /\ docs' = docs \cup {Document(By, entries, Kept(By))}
             /\ PollGoto("link")
    /\ PollerFrame /\ UNCHANGED <<redis, spent, cache, images, pc, history, job, active, superseded>>

LinkDocument ==
    /\ ppc = "link"
    /\ SaveJob(Content(By), [cur EXCEPT !.document = TRUE])
    /\ PollGoto("unlist")
    /\ PollerFrame /\ UNCHANGED <<redis, stores, pc, history, active>>

Unlist ==
    /\ ppc = "unlist"
    /\ RemoveFromActive(Content(By))
    /\ Goto(By, "done")
    /\ PollGoto("each")
    /\ PollerFrame /\ UNCHANGED <<redis, stores, history, job>>

FailedJob ==
    /\ ppc = "failed"
    /\ ReleaseOf(By)
    /\ SaveJob(Content(By), cur)
    /\ Goto(By, "closing") /\ PollGoto("unlist")
    /\ PollerFrame
    /\ UNCHANGED <<slots, cancelled, result, stores, charged, lapsed, leaked, swept, active>>

\* _poll_loop catches what _poll_and_handle_job raises and goes on; the results
\* that were downloaded are released first
PollRaises ==
    /\ ppc \in {"keep", "bill", "merge", "link", "unlist"}
    /\ Fault /\ SameBounds
    /\ \/ ppc \in {"keep", "bill"} /\ PollGoto("raised")
       \/ ppc # "bill" /\ PollGoto("each")
    /\ IF pc[By] = "closing" THEN Goto(By, "done") ELSE UNCHANGED pc
    /\ UNCHANGED <<redis, stores, ask, found, seen, page, history, job, active, gemini, superseded>>

PollerStep == \/ ListJobs \/ PollJob \/ Sleep \/ KeepResults \/ BillResults
              \/ ReleaseResults \/ MergeAndCreate \/ LinkDocument \/ Unlist \/ FailedJob

-----------------------------------------------------------------------------
\* The gateway dies: its handlers, its background tasks and the poller's locals
Crash ==
    /\ Event /\ crashes' = crashes + 1
    /\ pc' = [r \in Requests |-> IF Running(r) THEN "dead" ELSE pc[r]]
    /\ leaked' = leaked \cup {r \in Requests : pc[r] \in Holding \cup {"refused"} /\ ~ask[r].batch}
    /\ ppc' = "idle" /\ jobs' = {} /\ cur' = NoSnapshot
    /\ UNCHANGED <<redis, stores, ask, found, seen, page, faults, lapses, deletions,
                   charged, raced, lapsed, swept, job, active, gemini, superseded>>

BatchTask(r) == \/ BatchLookup(r) \/ DirectDocument(r) \/ DirectJob(r) \/ SavePreparing(r)
                \/ Prepare(r) \/ Submit(r) \/ StoreJob(r) \/ Activate(r) \/ Undo(r) \/ Mark(r)

Next ==
    \/ ExtractionStep /\ UNCHANGED batchVars
    \/ \E r \in Requests : \/ BatchAsk(r) \/ BatchTask(r) \/ BatchRaise(r) \/ SaveFails(r)
                           \/ GeminiEnds(r)
    \/ PollerStep \/ PollRaises
    \/ Crash

RequestStep(r) ==
    \/ (HandlerStep(r) \/ TaskStep(r) \/ PageTask(r)) /\ UNCHANGED batchVars
    \/ BatchTask(r) \/ GeminiEnds(r)

\* The coroutines of a request go on, calls of the model have a bounded number
\* of retries, Gemini ends every job within its 24 h, and the poller polls
Fairness == WF_vars(PollerStep) /\ \A r \in Requests : WF_vars(RequestStep(r))

Spec == BatchInit /\ [][Next]_vars /\ Fairness

-----------------------------------------------------------------------------
(* Properties                                                              *)

Hashes == [Contents -> Nat]
Steps == {"idle", "refused", "rejected", "dead", "submitted", "failed", "done", "find", "direct",
          "record", "save", "prepare", "submit", "store", "activate", "undo", "mark",
          "closing", "release"} \cup Holding
Entries == [content : Contents, prompt : Prompts, page : Pages, figures : BOOLEAN, made : Prompts]

\* The types of the Redis keys, the stores, the requests and the poller
\* (documents.py, orchestration.py, batch.py, batch_poller.py).
TypeOK ==
    /\ slots \in [Users -> Int] /\ reserved \in [Users -> Hashes] /\ spent \in [Users -> Nat]
    /\ cache \subseteq Entries /\ images \subseteq Contents \X Pages
    /\ cancelled \subseteq Requests /\ result \in [Requests -> {"none", "document", "error"}]
    /\ pc \in [Requests -> Steps] /\ page \in [Requests -> [Pages -> PageStates]]
    /\ \A r \in Requests : ask[r] \in Asks[r] \cup {NoAsk} /\ found[r] \subseteq Entries
    /\ job \in [Contents -> Jobs \cup {NoJob}] /\ active \subseteq Contents
    /\ jobs \subseteq Jobs /\ cur \in Jobs

\* The slot counter of a user is what runs, what is about to be refused and
\* what an exception or a crash left behind, so never more than
\* MAX_CONCURRENT_EXTRACTIONS run, unless the counter's key expired under a
\* running extraction (documents.py: INCR, DECR and EXPIRE 600 of create_document).
SlotsAccounted == \A u \in Users \ lapsed :
    /\ slots[u] = Cardinality(Active(u))
                  + Cardinality({r \in Requests : User(r) = u /\ pc[r] = "refused"})
                  + Cardinality({r \in leaked : User(r) = u})
    /\ Cardinality(Active(u)) <= MaxSlots

\* What a user was charged and what requests in flight may still be charged
\* stay within the plan, apart from the tolerance of the user's largest request,
\* unless a second request crossed a precheck or shared a reservation
\* (_billing_precheck).
Uncharged(r) == {p \in Uncached(r) : charged[r][p] = 0}
Asked(u) == {r \in Requests : User(r) = u}
Promised(r) == Cost * Cardinality(Uncharged(r))
Committed(u) == spent[u] + SumOf([r \in Requests |-> IF r \in Asked(u) /\ Relying(r)
                                                     THEN Promised(r) ELSE 0], Requests)
Tolerated(u) == Tolerance * Max({0} \cup {Cardinality(Uncached(r)) : r \in Asked(u)})
WorkWithinBalance == \A u \in Users \ raced : Committed(u) <= Allowance + Tolerated(u)

\* A page is charged at most once, whoever dies in between and however often
\* the poller runs; a fresh page is in a document only when it was charged
\* (process_with_billing, process_batch_completion).
ChargedOnce ==
    /\ \A r \in Requests, p \in Pages : charged[r][p] <= 1
    /\ \A d \in docs : \A p \in d.fresh : charged[d.by][p] = 1

\* A reservation belongs to a request that will release it, unless the gateway
\* crashed, a call failed, or another user took the job over
\* (create_reservation, release_reservation).
ReservationsOwned == \A u \in Users, c \in Contents :
    reserved[u][c] > 0 =>
        \/ crashes > 0 \/ faults > 0
        \/ \E r \in Requests : User(r) = u /\ Content(r) = c /\ Relying(r)

\* The figures of every document are in the image storage, unless the last
\* document of the content was deleted under a live request, or a lookup took
\* cached pages whose images were gone for the images of other pages
\* (check_extraction_cache, delete_documents_with_images).
FiguresServed == \A d \in docs :
    d.content \in swept \/ \A p \in d.figures : <<d.content, p>> \in images

\* The pages of a document were made with the prompt its request asked for
\* (extraction_cache_key).
PromptRespected == \A d \in docs : d.prompts \subseteq {ask[d.by].prompt}

\* An answer of the status route is final, a document is not answered before it
\* exists, and an extraction that is over was answered or cancelled, unless the
\* call that stores the answer failed (_run_extraction).
AnswersFinal == [][\A r \in Requests :
    /\ result[r] # "none" => result'[r] = result[r]
    /\ result[r] = "none" /\ result'[r] = "document" =>
           deletions > 0 \/ \E d \in docs : d.by = r
    /\ pc[r] # "done" /\ pc'[r] = "done" /\ ~ask[r].batch =>
           result[r] # "none" \/ r \in cancelled \/ faults' + lapses > 0]_vars

\* Every request comes to its end, and so does every submitted batch job, unless
\* the gateway crashed or a call failed, another request took over the job's
\* key, or the job was cancelled at Gemini.
Disturbed(r) == crashes > 0 \/ faults > 0 \/ r \in superseded \/ gemini[r] = "cancelled"
EveryRequestSettles == <>[](\A r \in Requests :
    pc[r] \in Ended /\ (pc[r] = "submitted" => Disturbed(r)))

\* What a request holds it gives back: slots and reservations belong to requests that
\* still run, in every failure the exceptions above do not name.
HoldingsOwned == TypeOK /\ SlotsAccounted /\ ReservationsOwned

\* Users get no more than they pay for, and pay for no page twice.
SpendingBounded == WorkWithinBalance /\ ChargedOnce

\* A document is what its request asked for: pages of its prompt, with their figures.
ServedAsAsked == FiguresServed /\ PromptRespected

\* Every request is answered in the end, and the answer stands.
RequestsSettle == AnswersFinal /\ EveryRequestSettles
=============================================================================
