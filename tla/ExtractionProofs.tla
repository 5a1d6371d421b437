---------------------------- MODULE ExtractionProofs ----------------------------
(***************************************************************************)
(* Extraction and batch extraction, for any number of requests, users,     *)
(* documents and pages, any prompts, allowances and number of failures.    *)
(* First what is true of requests, job records, page tasks and             *)
(* reservations between any two steps, then why a step keeps it.           *)
(***************************************************************************)
EXTENDS BatchExtraction, SumTheorems

-----------------------------------------------------------------------------
(* Types, and the path a request is on                                     *)

Documents == [by : Requests, content : Contents, fresh : SUBSET Pages,
              figures : SUBSET Pages, prompts : SUBSET Prompts]
AskRecords == [user : Users, content : Contents, prompt : Prompts, pages : SUBSET Pages,
               batch : BOOLEAN]

LocalsTyped ==
    /\ DOMAIN ask = Requests /\ DOMAIN found = Requests
    /\ seen \in [Requests -> Nat] /\ charged \in [Requests -> [Pages -> Nat]]
    /\ gemini \in [Requests -> {"none", "running", "succeeded", "failed", "cancelled"}]
    /\ ppc \in {"idle", "each", "keep", "bill", "release", "raised", "merge", "link", "unlist",
                "failed"}
    /\ docs \subseteq Documents
    /\ leaked \subseteq Requests
    /\ {faults, crashes, lapses, deletions} \subseteq Nat

BatchSteps == {"find", "direct", "record", "save", "prepare", "submit", "store", "activate",
               "undo", "mark", "submitted", "failed", "closing"}
PageSteps == {"refused", "lookup", "extract", "decide", "create", "answer", "error", "finally",
              "release"}

\* A request keeps what it asked for, and the two ways of extracting share only the
\* precheck.
Paths == \A r \in Requests :
    /\ pc[r] # "idle" => ask[r] \in Asks[r]
    /\ pc[r] = "idle" =>
          found[r] = {} /\ ~ask[r].batch /\ \A p \in Pages : page[r][p] = "none"
    /\ pc[r] \in BatchSteps => ask[r].batch
    /\ pc[r] \in PageSteps => ~ask[r].batch

-----------------------------------------------------------------------------
(* Jobs                                                                    *)

Pending(r) == Job(r, "PENDING", FALSE)
Listed(r) == Pending(r) \in jobs \/ \E c \in Contents : job[c] = Pending(r)

\* A batch job that may still be billed
Open(r) == Listed(r) \/ (cur.by = r /\ ppc \in {"keep", "bill"})

InHand == {"keep", "bill", "release", "raised", "failed"}
Closing == {"merge", "link", "unlist"}

\* A record names a batch request on its own content; it is PENDING from the
\* submission on until the poller has taken it up, which happens once.
JobsKnown ==
    /\ \A c \in Contents : job[c] # NoJob =>
          /\ ask[job[c].by].batch /\ Content(job[c].by) = c
          /\ job[c].status = "PENDING" => ~job[c].document
    /\ \A j \in jobs : j = Pending(j.by) /\ ask[j.by].batch
    /\ \A r \in Requests :
          /\ Listed(r) => pc[r] \in {"activate", "undo", "mark", "submitted", "failed", "dead"}
          /\ gemini[r] # "none" =>
                pc[r] \in {"store", "activate", "undo", "mark", "submitted", "failed", "dead",
                           "closing", "done"}
          /\ gemini[r] \notin {"none", "running"} =>
                pc[r] \in {"submitted", "failed", "dead", "closing", "done"}
    /\ ppc \in InHand \cup Closing =>
          /\ ask[By].batch /\ ~Listed(By) /\ cur.status # "PENDING"
          /\ gemini[By] \notin {"none", "running"}
          /\ pc[By] \in IF ppc \in Closing THEN {"closing"} ELSE {"submitted", "failed", "dead"}

-----------------------------------------------------------------------------
(* What is held                                                            *)

\* Each request counts once in the slot counter of its user
Holders(u) == {r \in Requests : /\ User(r) = u /\ ~ask[r].batch
                                /\ pc[r] \in Holding \cup {"refused"} \/ r \in leaked}

SlotsCounted ==
    /\ \A r \in leaked : pc[r] \in {"rejected", "done", "dead"} /\ ~ask[r].batch
    /\ \A u \in Users \ lapsed : /\ slots[u] = Cardinality(Holders(u))
                                 /\ Cardinality(Active(u)) <= MaxSlots

HoldingsInv == TypeOK /\ LocalsTyped /\ Paths /\ JobsKnown /\ SlotsCounted /\ ReservationsOwned

-----------------------------------------------------------------------------
(* What is charged                                                         *)

BeforeCharge == {"idle", "refused", "lookup", "available", "limit", "pending", "reserve",
                 "extract", "find", "direct", "record", "save", "prepare", "submit", "store"}

\* A request is charged when it leaves "extract" or when the poller bills it, and
\* the pages it kept do not change any more.
ChargesInv ==
    /\ ChargedOnce
    /\ \A r \in Requests, p \in Pages :
          /\ pc[r] \in BeforeCharge \/ Open(r) => charged[r][p] = 0
          /\ pc[r] \in {"decide", "create"} /\ p \in Kept(r) => charged[r][p] = 1
          /\ ppc \in {"release", "merge"} /\ r = By /\ p \in Kept(r) => charged[r][p] = 1

-----------------------------------------------------------------------------
(* What is served                                                          *)

\* The cache key of a batch has no prompt in it: without extraction prompts for
\* batches it is the key their own lookup used.
NoBatchPrompts == \A r \in Requests : \A a \in Asks[r] : a.batch => a.prompt = NoPrompt

Pictured(c, p) == c \in swept \/ <<c, p>> \in images
IsLive(r) == pc[r] \notin {"idle", "rejected", "done"}

\* What a live request saw, made or will read again has its figures.
FiguresInv ==
    /\ FiguresServed
    /\ \A r \in Requests : IsLive(r) =>
          /\ \A p \in Pages : page[r][p] \in {"figures", "okfigures", "keptfigures"} =>
                Pictured(Content(r), p)
          /\ \A e \in found[r] : e.figures => Pictured(Content(r), e.page)
          /\ \A e \in cache : /\ e.content = Content(r) /\ e.prompt = ask[r].prompt
                              /\ e.page \in FoundPages(r) /\ e.figures
                => Pictured(Content(r), e.page)

PromptsInv ==
    /\ PromptRespected
    /\ \A e \in cache : e.made = e.prompt
    /\ \A r \in Requests : \A e \in found[r] :
          e.content = Content(r) /\ e.prompt = ask[r].prompt /\ e.made = ask[r].prompt
    /\ \A d \in docs : pc[d.by] # "idle"

-----------------------------------------------------------------------------
(* What is spent                                                           *)

\* A request whose work is promised: it runs, or its job may still be billed
Owes(r) == Relying(r) \/ (Open(r) /\ pc[r] = "dead")

\* ... and its reservation is made
Backed(r) == Owes(r) /\ pc[r] # "reserve" /\ Uncached(r) # {}

OwedBy(u) == [r \in Requests |-> IF User(r) = u /\ Owes(r) THEN Promised(r) ELSE 0]
BackedBy(u) == [r \in Requests |-> IF User(r) = u /\ Backed(r) THEN Promised(r) ELSE 0]

PastLookup(u) == {r \in Requests : User(r) = u /\ pc[r] \notin {"idle", "lookup", "find"}}

\* What is checked is estimated, and an estimate is not 0
Estimated == \A r \in Requests :
    /\ pc[r] = "idle" => Requested(r) = {}
    /\ pc[r] \in {"available", "limit", "pending", "reserve"} => Uncached(r) # {}

\* A record that may still be billed has its job at Gemini, and a failed submission
\* that left a job there has given up its reservation.
Submitted == \A r \in Requests :
    /\ Listed(r) \/ pc[r] = "store" => gemini[r] # "none"
    /\ pc[r] \in {"mark", "failed"} /\ gemini[r] # "none" => User(r) \in raced

\* The reservations of a user are enough for the work they back
Reserved(u) == \A r \in Requests : User(r) = u /\ Backed(r) =>
    /\ reserved[u][Content(r)] >= EstimateOf(r)
    /\ \A s \in Requests :
          User(s) = u /\ Backed(s) /\ Content(s) = Content(r) => r = s

OneReserves(u) == \A r, s \in Requests :
    User(r) = u /\ User(s) = u /\ pc[r] = "reserve" /\ pc[s] = "reserve" => r = s

\* What was read as used does not overlook work whose reservation is gone
SeenEnough(u) == \A r \in Requests : User(r) = u /\ pc[r] = "pending" =>
    spent[u] + SumOf(BackedBy(u), Requests) <= seen[r] + PendingTotal(reserved[u])

\* The last request that was let in is within the tolerance of its own pages
Covered(u) == \E m \in {0} \cup {Cardinality(Uncached(r)) : r \in PastLookup(u)} :
    spent[u] + SumOf(OwedBy(u), Requests) <= Allowance + Tolerance * m

BalanceInv ==
    /\ Estimated /\ Submitted
    /\ \A u \in Users \ raced : Reserved(u) /\ OneReserves(u) /\ SeenEnough(u) /\ Covered(u)

-----------------------------------------------------------------------------
(* Types                                                                    *)

Typed == TypeOK /\ LocalsTyped

LEMMA AsksTyped ==
    ASSUME NEW r \in Requests, NEW a \in Asks[r]
    PROVE  /\ a.user \in Users /\ a.content \in Contents /\ a.prompt \in Prompts
           /\ a.pages \in SUBSET Pages /\ a.batch \in BOOLEAN
BY ExtractionAssumption

LEMMA TypedInit == BatchInit => Typed
<1> SUFFICES ASSUME BatchInit
             PROVE  Typed
    OBVIOUS
<1> USE DEF BatchInit, Init
<1>1. NoSnapshot \in Jobs
  <2>1. Requests # {}
        BY ExtractionAssumption
  <2>2. QED
        BY <2>1 DEF NoSnapshot, Jobs, Statuses
<1>2. TypeOK
      BY <1>1 DEF TypeOK, Hashes, Steps, PageStates, Holding
<1>3. LocalsTyped
      BY DEF LocalsTyped
<1>4. QED
      BY <1>2, <1>3 DEF Typed

-----------------------------------------------------------------------------
(* Who writes what                                                          *)

Writers ==
    /\ \/ slots' = slots
       \/ \E r \in Requests : TakeSlot(r) \/ Refuse(r) \/ GiveBack(r)
       \/ \E u \in Users : LapseSlots(u)
    /\ \/ reserved' = reserved
       \/ \E r \in Requests : Reserve(r) \/ Release(r) \/ Undo(r)
       \/ ReleaseResults
       \/ FailedJob
    /\ \/ cancelled' = cancelled
       \/ \E r \in Requests : Cancel(r) \/ LapseCancel(r)
    /\ \/ result' = result
       \/ \E r \in Requests : Answer(r) \/ ReportError(r)
    /\ \/ spent' = spent
       \/ \E r \in Requests : Bill(r)
       \/ BillResults
    /\ \/ cache' = cache
       \/ \E r \in Requests, p \in Pages : Collect(r, p)
       \/ KeepResults
    /\ \/ images' = images
       \/ \E r \in Requests : Prepare(r)
       \/ \E r \in Requests, p \in Pages : DetectFigures(r, p)
       \/ \E d \in docs : DeleteDocument(d)
    /\ \/ docs' = docs
       \/ \E r \in Requests : CreateDocument(r) \/ DirectDocument(r)
       \/ MergeAndCreate
       \/ \E d \in docs : DeleteDocument(d)
    /\ \/ ask' = ask
       \/ \E r \in Requests : TakeSlot(r) \/ BatchAsk(r)
    /\ \/ found' = found
       \/ \E r \in Requests : Lookup(r) \/ BatchLookup(r)
    /\ \/ seen' = seen
       \/ \E r \in Requests : ReadUsed(r)
    /\ \/ page' = page
       \/ \E r \in Requests : Lookup(r) \/ Reserve(r) \/ Prepare(r) \/ GeminiEnds(r)
       \/ \E r \in Requests, p \in Pages :
             Collect(r, p) \/ StartPage(r, p) \/ DetectFigures(r, p) \/ CallModel(r, p)
    /\ \/ charged' = charged
       \/ \E r \in Requests : Bill(r)
       \/ BillResults
    /\ \/ raced' = raced
       \/ \E r \in Requests : CheckLimit(r) \/ Reserve(r) \/ Release(r) \/ Undo(r)
       \/ ReleaseResults
       \/ FailedJob
    /\ \/ leaked' = leaked
       \/ \E r \in Requests :
             CheckAvailable(r) \/ CheckLimit(r) \/ LookupFails(r) \/ GiveBackFails(r)
       \/ Crash
    /\ \/ lapsed' = lapsed
       \/ \E u \in Users : LapseSlots(u)
    /\ \/ swept' = swept
       \/ \E r \in Requests : Lookup(r) \/ BatchLookup(r)
       \/ \E d \in docs : DeleteDocument(d)
    /\ \/ job' = job
       \/ \E r \in Requests : DirectJob(r) \/ SavePreparing(r) \/ StoreJob(r) \/ Mark(r)
       \/ PollJob
       \/ LinkDocument
       \/ FailedJob
    /\ \/ active' = active
       \/ \E r \in Requests : Activate(r)
       \/ ListJobs
       \/ Unlist
    /\ \/ gemini' = gemini
       \/ \E r \in Requests : Submit(r) \/ GeminiEnds(r)
    /\ \/ jobs' = jobs
       \/ ListJobs
       \/ PollJob
       \/ Crash
    /\ \/ UNCHANGED <<ppc, cur>>
       \/ PollerStep
       \/ PollRaises
       \/ Crash

LEMMA WritersStep == [Next]_vars => Writers
<1> SUFFICES ASSUME [Next]_vars
             PROVE  Writers
    OBVIOUS
<1>1. ASSUME NEW r \in Requests, TakeSlot(r), UNCHANGED batchVars
      PROVE  Writers
  <2>1. UNCHANGED <<reserved, cancelled, result, spent, cache, images, docs, found, seen, page,
                    charged, raced, leaked, lapsed, swept, job, active, gemini, jobs, ppc, cur>>
        BY <1>1 DEF TakeSlot, redis, stores, locals, bounds, history, batchVars, pollerVars
  <2>2. QED
        BY <1>1, <2>1 DEF Writers
<1>2. ASSUME NEW r \in Requests, Refuse(r), UNCHANGED batchVars
      PROVE  Writers
  <2>1. UNCHANGED <<reserved, cancelled, result, spent, cache, images, docs, ask, found, seen,
                    page, charged, raced, leaked, lapsed, swept, job, active, gemini, jobs, ppc,
                    cur>>
        BY <1>2 DEF Refuse, redis, stores, locals, bounds, history, batchVars, pollerVars
  <2>2. QED
        BY <1>2, <2>1 DEF Writers
<1>3. ASSUME NEW r \in Requests, Lookup(r), UNCHANGED batchVars
      PROVE  Writers
  <2>1. UNCHANGED <<slots, reserved, cancelled, result, spent, cache, images, docs, ask, seen,
                    charged, raced, leaked, lapsed, job, active, gemini, jobs, ppc, cur>>
        BY <1>3 DEF Lookup, redis, stores, locals, bounds, history, batchVars, pollerVars
  <2>2. QED
        BY <1>3, <2>1 DEF Writers
<1>4. ASSUME NEW r \in Requests, CheckAvailable(r), UNCHANGED batchVars
      PROVE  Writers
  <2>1. UNCHANGED <<slots, reserved, cancelled, result, spent, cache, images, docs, ask, found,
                    seen, page, charged, raced, lapsed, swept, job, active, gemini, jobs, ppc, cur>>
        BY <1>4 DEF CheckAvailable, Reject, redis, stores, locals, bounds, history, batchVars, pollerVars
  <2>2. QED
        BY <1>4, <2>1 DEF Writers
<1>5. ASSUME NEW r \in Requests, ReadUsed(r), UNCHANGED batchVars
      PROVE  Writers
  <2>1. UNCHANGED <<slots, reserved, cancelled, result, spent, cache, images, docs, ask, found,
                    page, charged, raced, leaked, lapsed, swept, job, active, gemini, jobs, ppc,
                    cur>>
        BY <1>5 DEF ReadUsed, redis, stores, locals, bounds, history, batchVars, pollerVars
  <2>2. QED
        BY <1>5, <2>1 DEF Writers
<1>6. ASSUME NEW r \in Requests, CheckLimit(r), UNCHANGED batchVars
      PROVE  Writers
  <2>1. UNCHANGED <<slots, reserved, cancelled, result, spent, cache, images, docs, ask, found,
                    seen, page, charged, lapsed, swept, job, active, gemini, jobs, ppc, cur>>
        BY <1>6 DEF CheckLimit, Reject, redis, stores, locals, bounds, history, batchVars, pollerVars
  <2>2. QED
        BY <1>6, <2>1 DEF Writers
<1>7. ASSUME NEW r \in Requests, Reserve(r), UNCHANGED batchVars
      PROVE  Writers
  <2>1. UNCHANGED <<slots, cancelled, result, spent, cache, images, docs, ask, found, seen,
                    charged, leaked, lapsed, swept, job, active, gemini, jobs, ppc, cur>>
        BY <1>7 DEF Reserve, redis, stores, locals, bounds, history, batchVars, pollerVars
  <2>2. QED
        BY <1>7, <2>1 DEF Writers
<1>8. ASSUME NEW r \in Requests, Bill(r), UNCHANGED batchVars
      PROVE  Writers
  <2>1. UNCHANGED <<slots, reserved, cancelled, result, cache, images, docs, ask, found, seen,
                    page, raced, leaked, lapsed, swept, job, active, gemini, jobs, ppc, cur>>
        BY <1>8 DEF Bill, redis, stores, locals, bounds, history, batchVars, pollerVars
  <2>2. QED
        BY <1>8, <2>1 DEF Writers
<1>9. ASSUME NEW r \in Requests, Decide(r), UNCHANGED batchVars
      PROVE  Writers
  <2>1. UNCHANGED <<slots, reserved, cancelled, result, spent, cache, images, docs, ask, found,
                    seen, page, charged, raced, leaked, lapsed, swept, job, active, gemini, jobs,
                    ppc, cur>>
        BY <1>9 DEF Decide, TaskFrame, redis, stores, locals, bounds, history, batchVars, pollerVars
  <2>2. QED
        BY <1>9, <2>1 DEF Writers
<1>10. ASSUME NEW r \in Requests, CreateDocument(r), UNCHANGED batchVars
      PROVE  Writers
  <2>1. UNCHANGED <<slots, reserved, cancelled, result, spent, cache, images, ask, found, seen,
                    page, charged, raced, leaked, lapsed, swept, job, active, gemini, jobs, ppc,
                    cur>>
        BY <1>10 DEF CreateDocument, TaskFrame, redis, stores, locals, bounds, history, batchVars, pollerVars
  <2>2. QED
        BY <1>10, <2>1 DEF Writers
<1>11. ASSUME NEW r \in Requests, Answer(r), UNCHANGED batchVars
      PROVE  Writers
  <2>1. UNCHANGED <<slots, reserved, cancelled, spent, cache, images, docs, ask, found, seen,
                    page, charged, raced, leaked, lapsed, swept, job, active, gemini, jobs, ppc,
                    cur>>
        BY <1>11 DEF Answer, TaskFrame, redis, stores, locals, bounds, history, batchVars, pollerVars
  <2>2. QED
        BY <1>11, <2>1 DEF Writers
<1>12. ASSUME NEW r \in Requests, ReportError(r), UNCHANGED batchVars
      PROVE  Writers
  <2>1. UNCHANGED <<slots, reserved, cancelled, spent, cache, images, docs, ask, found, seen,
                    page, charged, raced, leaked, lapsed, swept, job, active, gemini, jobs, ppc,
                    cur>>
        BY <1>12 DEF ReportError, TaskFrame, redis, stores, locals, bounds, history, batchVars, pollerVars
  <2>2. QED
        BY <1>12, <2>1 DEF Writers
<1>13. ASSUME NEW r \in Requests, GiveBack(r), UNCHANGED batchVars
      PROVE  Writers
  <2>1. UNCHANGED <<reserved, cancelled, result, spent, cache, images, docs, ask, found, seen,
                    page, charged, raced, leaked, lapsed, swept, job, active, gemini, jobs, ppc,
                    cur>>
        BY <1>13 DEF GiveBack, TaskFrame, redis, stores, locals, bounds, history, batchVars, pollerVars
  <2>2. QED
        BY <1>13, <2>1 DEF Writers
<1>14. ASSUME NEW r \in Requests, Release(r), UNCHANGED batchVars
      PROVE  Writers
  <2>1. UNCHANGED <<slots, cancelled, result, spent, cache, images, docs, ask, found, seen, page,
                    charged, leaked, lapsed, swept, job, active, gemini, jobs, ppc, cur>>
        BY <1>14 DEF Release, ReleaseOf, redis, stores, locals, bounds, history, batchVars, pollerVars
  <2>2. QED
        BY <1>14, <2>1 DEF Writers
<1>15. ASSUME NEW r \in Requests, LookupFails(r), UNCHANGED batchVars
      PROVE  Writers
  <2>1. UNCHANGED <<slots, reserved, cancelled, result, spent, cache, images, docs, ask, found,
                    seen, page, charged, raced, lapsed, swept, job, active, gemini, jobs, ppc, cur>>
        BY <1>15 DEF LookupFails, Reject, redis, stores, locals, bounds, history, batchVars, pollerVars
  <2>2. QED
        BY <1>15, <2>1 DEF Writers
<1>16. ASSUME NEW r \in Requests, Raise(r), UNCHANGED batchVars
      PROVE  Writers
  <2>1. UNCHANGED <<slots, reserved, cancelled, result, spent, cache, images, docs, ask, found,
                    seen, page, charged, raced, leaked, lapsed, swept, job, active, gemini, jobs,
                    ppc, cur>>
        BY <1>16 DEF Raise, TaskFrame, redis, stores, locals, bounds, history, batchVars, pollerVars
  <2>2. QED
        BY <1>16, <2>1 DEF Writers
<1>17. ASSUME NEW r \in Requests, GiveBackFails(r), UNCHANGED batchVars
      PROVE  Writers
  <2>1. UNCHANGED <<slots, reserved, cancelled, result, spent, cache, images, docs, ask, found,
                    seen, page, charged, raced, lapsed, swept, job, active, gemini, jobs, ppc, cur>>
        BY <1>17 DEF GiveBackFails, redis, stores, locals, bounds, history, batchVars, pollerVars
  <2>2. QED
        BY <1>17, <2>1 DEF Writers
<1>18. ASSUME NEW r \in Requests, Cancel(r), UNCHANGED batchVars
      PROVE  Writers
  <2>1. UNCHANGED <<slots, reserved, result, spent, cache, images, docs, ask, found, seen, page,
                    charged, raced, leaked, lapsed, swept, job, active, gemini, jobs, ppc, cur>>
        BY <1>18 DEF Cancel, redis, stores, locals, bounds, history, batchVars, pollerVars
  <2>2. QED
        BY <1>18, <2>1 DEF Writers
<1>19. ASSUME NEW r \in Requests, LapseCancel(r), UNCHANGED batchVars
      PROVE  Writers
  <2>1. UNCHANGED <<slots, reserved, result, spent, cache, images, docs, ask, found, seen, page,
                    charged, raced, leaked, lapsed, swept, job, active, gemini, jobs, ppc, cur>>
        BY <1>19 DEF LapseCancel, redis, stores, locals, bounds, history, batchVars, pollerVars
  <2>2. QED
        BY <1>19, <2>1 DEF Writers
<1>20. ASSUME NEW r \in Requests, NEW p \in Pages, Collect(r, p), UNCHANGED batchVars
      PROVE  Writers
  <2>1. UNCHANGED <<slots, reserved, cancelled, result, spent, images, docs, ask, found, seen,
                    charged, raced, leaked, lapsed, swept, job, active, gemini, jobs, ppc, cur>>
        BY <1>20 DEF Collect, PageFrame, redis, stores, locals, bounds, history, batchVars, pollerVars
  <2>2. QED
        BY <1>20, <2>1 DEF Writers
<1>21. ASSUME NEW r \in Requests, NEW p \in Pages, StartPage(r, p), UNCHANGED batchVars
      PROVE  Writers
  <2>1. UNCHANGED <<slots, reserved, cancelled, result, spent, cache, images, docs, ask, found,
                    seen, charged, raced, leaked, lapsed, swept, job, active, gemini, jobs, ppc,
                    cur>>
        BY <1>21 DEF StartPage, PageFrame, redis, stores, locals, bounds, history, batchVars, pollerVars
  <2>2. QED
        BY <1>21, <2>1 DEF Writers
<1>22. ASSUME NEW r \in Requests, NEW p \in Pages, DetectFigures(r, p), UNCHANGED batchVars
      PROVE  Writers
  <2>1. UNCHANGED <<slots, reserved, cancelled, result, spent, cache, docs, ask, found, seen,
                    charged, raced, leaked, lapsed, swept, job, active, gemini, jobs, ppc, cur>>
        BY <1>22 DEF DetectFigures, PageFrame, redis, stores, locals, bounds, history, batchVars, pollerVars
  <2>2. QED
        BY <1>22, <2>1 DEF Writers
<1>23. ASSUME NEW r \in Requests, NEW p \in Pages, CallModel(r, p), UNCHANGED batchVars
      PROVE  Writers
  <2>1. UNCHANGED <<slots, reserved, cancelled, result, spent, cache, images, docs, ask, found,
                    seen, charged, raced, leaked, lapsed, swept, job, active, gemini, jobs, ppc,
                    cur>>
        BY <1>23 DEF CallModel, PageFrame, redis, stores, locals, bounds, history, batchVars, pollerVars
  <2>2. QED
        BY <1>23, <2>1 DEF Writers
<1>24. ASSUME NEW u \in Users, LapseSlots(u), UNCHANGED batchVars
      PROVE  Writers
  <2>1. UNCHANGED <<reserved, cancelled, result, spent, cache, images, docs, ask, found, seen,
                    page, charged, raced, leaked, swept, job, active, gemini, jobs, ppc, cur>>
        BY <1>24 DEF LapseSlots, redis, stores, locals, bounds, history, batchVars, pollerVars
  <2>2. QED
        BY <1>24, <2>1 DEF Writers
<1>25. ASSUME NEW d \in docs, DeleteDocument(d), UNCHANGED batchVars
      PROVE  Writers
  <2>1. UNCHANGED <<slots, reserved, cancelled, result, spent, cache, ask, found, seen, page,
                    charged, raced, leaked, lapsed, job, active, gemini, jobs, ppc, cur>>
        BY <1>25 DEF DeleteDocument, redis, stores, locals, bounds, history, batchVars, pollerVars
  <2>2. QED
        BY <1>25, <2>1 DEF Writers
<1>26. ASSUME NEW r \in Requests, BatchAsk(r)
      PROVE  Writers
  <2>1. UNCHANGED <<slots, reserved, cancelled, result, spent, cache, images, docs, found, seen,
                    page, charged, raced, leaked, lapsed, swept, job, active, gemini, jobs, ppc,
                    cur>>
        BY <1>26 DEF BatchAsk, redis, stores, locals, bounds, history, batchVars, pollerVars
  <2>2. QED
        BY <1>26, <2>1 DEF Writers
<1>27. ASSUME NEW r \in Requests, BatchLookup(r)
      PROVE  Writers
  <2>1. UNCHANGED <<slots, reserved, cancelled, result, spent, cache, images, docs, ask, seen,
                    page, charged, raced, leaked, lapsed, job, active, gemini, jobs, ppc, cur>>
        BY <1>27 DEF BatchLookup, redis, stores, locals, bounds, history, batchVars, pollerVars
  <2>2. QED
        BY <1>27, <2>1 DEF Writers
<1>28. ASSUME NEW r \in Requests, DirectDocument(r)
      PROVE  Writers
  <2>1. UNCHANGED <<slots, reserved, cancelled, result, spent, cache, images, ask, found, seen,
                    page, charged, raced, leaked, lapsed, swept, job, active, gemini, jobs, ppc,
                    cur>>
        BY <1>28 DEF DirectDocument, redis, stores, locals, bounds, history, batchVars, pollerVars
  <2>2. QED
        BY <1>28, <2>1 DEF Writers
<1>29. ASSUME NEW r \in Requests, DirectJob(r)
      PROVE  Writers
  <2>1. UNCHANGED <<slots, reserved, cancelled, result, spent, cache, images, docs, ask, found,
                    seen, page, charged, raced, leaked, lapsed, swept, active, gemini, jobs, ppc,
                    cur>>
        BY <1>29 DEF DirectJob, SaveJob, redis, stores, locals, bounds, history, batchVars, pollerVars
  <2>2. QED
        BY <1>29, <2>1 DEF Writers
<1>30. ASSUME NEW r \in Requests, SavePreparing(r)
      PROVE  Writers
  <2>1. UNCHANGED <<slots, reserved, cancelled, result, spent, cache, images, docs, ask, found,
                    seen, page, charged, raced, leaked, lapsed, swept, active, gemini, jobs, ppc,
                    cur>>
        BY <1>30 DEF SavePreparing, SaveJob, redis, stores, locals, bounds, history, batchVars, pollerVars
  <2>2. QED
        BY <1>30, <2>1 DEF Writers
<1>31. ASSUME NEW r \in Requests, Prepare(r)
      PROVE  Writers
  <2>1. UNCHANGED <<slots, reserved, cancelled, result, spent, cache, docs, ask, found, seen,
                    charged, raced, leaked, lapsed, swept, job, active, gemini, jobs, ppc, cur>>
        BY <1>31 DEF Prepare, redis, stores, locals, bounds, history, batchVars, pollerVars
  <2>2. QED
        BY <1>31, <2>1 DEF Writers
<1>32. ASSUME NEW r \in Requests, Submit(r)
      PROVE  Writers
  <2>1. UNCHANGED <<slots, reserved, cancelled, result, spent, cache, images, docs, ask, found,
                    seen, page, charged, raced, leaked, lapsed, swept, job, active, jobs, ppc, cur>>
        BY <1>32 DEF Submit, redis, stores, locals, bounds, history, batchVars, pollerVars
  <2>2. QED
        BY <1>32, <2>1 DEF Writers
<1>33. ASSUME NEW r \in Requests, StoreJob(r)
      PROVE  Writers
  <2>1. UNCHANGED <<slots, reserved, cancelled, result, spent, cache, images, docs, ask, found,
                    seen, page, charged, raced, leaked, lapsed, swept, active, gemini, jobs, ppc,
                    cur>>
        BY <1>33 DEF StoreJob, SaveJob, redis, stores, locals, bounds, history, batchVars, pollerVars
  <2>2. QED
        BY <1>33, <2>1 DEF Writers
<1>34. ASSUME NEW r \in Requests, Activate(r)
      PROVE  Writers
  <2>1. UNCHANGED <<slots, reserved, cancelled, result, spent, cache, images, docs, ask, found,
                    seen, page, charged, raced, leaked, lapsed, swept, job, gemini, jobs, ppc, cur>>
        BY <1>34 DEF Activate, redis, stores, locals, bounds, history, batchVars, pollerVars
  <2>2. QED
        BY <1>34, <2>1 DEF Writers
<1>35. ASSUME NEW r \in Requests, Undo(r)
      PROVE  Writers
  <2>1. UNCHANGED <<slots, cancelled, result, spent, cache, images, docs, ask, found, seen, page,
                    charged, leaked, lapsed, swept, job, active, gemini, jobs, ppc, cur>>
        BY <1>35 DEF Undo, redis, stores, locals, bounds, history, batchVars, pollerVars
  <2>2. QED
        BY <1>35, <2>1 DEF Writers
<1>36. ASSUME NEW r \in Requests, Mark(r)
      PROVE  Writers
  <2>1. UNCHANGED <<slots, reserved, cancelled, result, spent, cache, images, docs, ask, found,
                    seen, page, charged, raced, leaked, lapsed, swept, active, gemini, jobs, ppc,
                    cur>>
        BY <1>36 DEF Mark, redis, stores, locals, bounds, history, batchVars, pollerVars
  <2>2. QED
        BY <1>36, <2>1 DEF Writers
<1>37. ASSUME NEW r \in Requests, BatchRaise(r)
      PROVE  Writers
  <2>1. UNCHANGED <<slots, reserved, cancelled, result, spent, cache, images, docs, ask, found,
                    seen, page, charged, raced, leaked, lapsed, swept, job, active, gemini, jobs,
                    ppc, cur>>
        BY <1>37 DEF BatchRaise, redis, stores, locals, bounds, history, batchVars, pollerVars
  <2>2. QED
        BY <1>37, <2>1 DEF Writers
<1>38. ASSUME NEW r \in Requests, SaveFails(r)
      PROVE  Writers
  <2>1. UNCHANGED <<slots, reserved, cancelled, result, spent, cache, images, docs, ask, found,
                    seen, page, charged, raced, leaked, lapsed, swept, job, active, gemini, jobs,
                    ppc, cur>>
        BY <1>38 DEF SaveFails, redis, stores, locals, bounds, history, batchVars, pollerVars
  <2>2. QED
        BY <1>38, <2>1 DEF Writers
<1>39. ASSUME NEW r \in Requests, GeminiEnds(r)
      PROVE  Writers
  <2>1. UNCHANGED <<slots, reserved, cancelled, result, spent, cache, images, docs, ask, found,
                    seen, charged, raced, leaked, lapsed, swept, job, active, jobs, ppc, cur>>
        BY <1>39 DEF GeminiEnds, redis, stores, locals, bounds, history, batchVars, pollerVars
  <2>2. QED
        BY <1>39, <2>1 DEF Writers
<1>40. CASE ListJobs
  <2>1. UNCHANGED <<slots, reserved, cancelled, result, spent, cache, images, docs, ask, found,
                    seen, page, charged, raced, leaked, lapsed, swept, job, gemini>>
        BY <1>40 DEF ListJobs, PollGoto, PollerFrame, redis, stores, locals, bounds, history, batchVars, pollerVars
  <2>2. QED
        BY <1>40, <2>1 DEF Writers, PollerStep
<1>41. CASE PollJob
  <2>1. UNCHANGED <<slots, reserved, cancelled, result, spent, cache, images, docs, ask, found,
                    seen, page, charged, raced, leaked, lapsed, swept, active, gemini>>
        BY <1>41 DEF PollJob, PollGoto, PollerFrame, SaveJob, redis, stores, locals, bounds, history, batchVars, pollerVars
  <2>2. QED
        BY <1>41, <2>1 DEF Writers, PollerStep
<1>42. CASE Sleep
  <2>1. UNCHANGED <<slots, reserved, cancelled, result, spent, cache, images, docs, ask, found,
                    seen, page, charged, raced, leaked, lapsed, swept, job, active, gemini, jobs>>
        BY <1>42 DEF Sleep, PollGoto, PollerFrame, redis, stores, locals, bounds, history, batchVars, pollerVars
  <2>2. QED
        BY <1>42, <2>1 DEF Writers, PollerStep
<1>43. CASE KeepResults
  <2>1. UNCHANGED <<slots, reserved, cancelled, result, spent, images, docs, ask, found, seen,
                    page, charged, raced, leaked, lapsed, swept, job, active, gemini, jobs>>
        BY <1>43 DEF KeepResults, PollGoto, PollerFrame, redis, stores, locals, bounds, history, batchVars, pollerVars
  <2>2. QED
        BY <1>43, <2>1 DEF Writers, PollerStep
<1>44. CASE BillResults
  <2>1. UNCHANGED <<slots, reserved, cancelled, result, cache, images, docs, ask, found, seen,
                    page, raced, leaked, lapsed, swept, job, active, gemini, jobs>>
        BY <1>44 DEF BillResults, PollGoto, PollerFrame, redis, stores, locals, bounds, history, batchVars, pollerVars
  <2>2. QED
        BY <1>44, <2>1 DEF Writers, PollerStep
<1>45. CASE ReleaseResults
  <2>1. UNCHANGED <<slots, cancelled, result, spent, cache, images, docs, ask, found, seen, page,
                    charged, leaked, lapsed, swept, job, active, gemini, jobs>>
        BY <1>45 DEF ReleaseResults, PollGoto, PollerFrame, ReleaseOf, redis, stores, locals, bounds, history, batchVars, pollerVars
  <2>2. QED
        BY <1>45, <2>1 DEF Writers, PollerStep
<1>46. CASE MergeAndCreate
  <2>1. UNCHANGED <<slots, reserved, cancelled, result, spent, cache, images, ask, found, seen,
                    page, charged, raced, leaked, lapsed, swept, job, active, gemini, jobs>>
        BY <1>46 DEF MergeAndCreate, PollGoto, PollerFrame, redis, stores, locals, bounds, history, batchVars, pollerVars
  <2>2. QED
        BY <1>46, <2>1 DEF Writers, PollerStep
<1>47. CASE LinkDocument
  <2>1. UNCHANGED <<slots, reserved, cancelled, result, spent, cache, images, docs, ask, found,
                    seen, page, charged, raced, leaked, lapsed, swept, active, gemini, jobs>>
        BY <1>47 DEF LinkDocument, PollGoto, PollerFrame, SaveJob, redis, stores, locals, bounds, history, batchVars, pollerVars
  <2>2. QED
        BY <1>47, <2>1 DEF Writers, PollerStep
<1>48. CASE Unlist
  <2>1. UNCHANGED <<slots, reserved, cancelled, result, spent, cache, images, docs, ask, found,
                    seen, page, charged, raced, leaked, lapsed, swept, job, gemini, jobs>>
        BY <1>48 DEF Unlist, PollGoto, PollerFrame, RemoveFromActive, redis, stores, locals, bounds, history, batchVars, pollerVars
  <2>2. QED
        BY <1>48, <2>1 DEF Writers, PollerStep
<1>49. CASE FailedJob
  <2>1. UNCHANGED <<slots, cancelled, result, spent, cache, images, docs, ask, found, seen, page,
                    charged, leaked, lapsed, swept, active, gemini, jobs>>
        BY <1>49 DEF FailedJob, PollGoto, PollerFrame, SaveJob, ReleaseOf, redis, stores, locals, bounds, history, batchVars, pollerVars
  <2>2. QED
        BY <1>49, <2>1 DEF Writers, PollerStep
<1>50. CASE PollRaises
  <2>1. UNCHANGED <<slots, reserved, cancelled, result, spent, cache, images, docs, ask, found,
                    seen, page, charged, raced, leaked, lapsed, swept, job, active, gemini, jobs>>
        BY <1>50 DEF PollRaises, PollGoto, PollerFrame, redis, stores, locals, bounds, history, batchVars, pollerVars
  <2>2. QED
        BY <1>50, <2>1 DEF Writers
<1>51. CASE Crash
  <2>1. UNCHANGED <<slots, reserved, cancelled, result, spent, cache, images, docs, ask, found,
                    seen, page, charged, raced, lapsed, swept, job, active, gemini>>
        BY <1>51 DEF Crash, redis, stores, locals, bounds, history, batchVars, pollerVars
  <2>2. QED
        BY <1>51, <2>1 DEF Writers
<1>52. CASE UNCHANGED vars
      BY <1>52 DEF Writers, vars, extractionVars, batchVars, redis, stores, locals, history
<1>53. QED
      BY <1>1, <1>2, <1>3, <1>4, <1>5, <1>6, <1>7, <1>8, <1>9, <1>10, <1>11,
         <1>12, <1>13, <1>14, <1>15, <1>16, <1>17, <1>18, <1>19, <1>20, <1>21,
         <1>22, <1>23, <1>24, <1>25, <1>26, <1>27, <1>28, <1>29, <1>30, <1>31,
         <1>32, <1>33, <1>34, <1>35, <1>36, <1>37, <1>38, <1>39, <1>40, <1>41,
         <1>42, <1>43, <1>44, <1>45, <1>46, <1>47, <1>48, <1>49, <1>50, <1>51,
         <1>52
      DEF Next, ExtractionStep, HandlerStep, TaskStep, PageTask, Failure, BatchTask, PollerStep

-----------------------------------------------------------------------------
(* Types, variable by variable                                              *)

LEMMA AskTyped ==
    ASSUME TypeOK, Paths, NEW r \in Requests, pc[r] # "idle"
    PROVE  /\ User(r) \in Users /\ Content(r) \in Contents /\ ask[r].prompt \in Prompts
           /\ Requested(r) \in SUBSET Pages /\ ask[r].batch \in BOOLEAN
<1>1. ask[r] \in Asks[r]
      BY DEF Paths
<1>2. QED
      BY <1>1, AsksTyped DEF User, Content, Requested

\* Pages a request has are counted by naturals
LEMMA PagesCounted ==
    ASSUME TypeOK, Paths, NEW r \in Requests, pc[r] # "idle"
    PROVE  /\ Uncached(r) \in SUBSET Pages /\ Kept(r) \in SUBSET Pages
           /\ Uncharged(r) \in SUBSET Pages
           /\ IsFiniteSet(Uncached(r)) /\ Cardinality(Uncached(r)) \in Nat
           /\ Cardinality(Kept(r)) \in Nat /\ Cardinality(Uncharged(r)) \in Nat
           /\ EstimateOf(r) \in Nat
<1>1. /\ Uncached(r) \in SUBSET Pages /\ Kept(r) \in SUBSET Pages
      /\ Uncharged(r) \in SUBSET Pages
      BY AskTyped DEF Uncached, Kept, Uncharged
<1>2. IsFiniteSet(Pages) /\ Estimate \in Nat
      BY ExtractionAssumption
<1>3. \A S \in SUBSET Pages : IsFiniteSet(S) /\ Cardinality(S) \in Nat
      BY <1>2, FS_Subset, FS_CardinalityType
<1>4. Cardinality(Uncached(r)) \in Nat
      BY <1>1, <1>3
<1>5. EstimateOf(r) \in Nat
      BY <1>2, <1>4 DEF EstimateOf
<1>6. QED
      BY <1>1, <1>3, <1>5

LEMMA SlotsTyped ==
    TypeOK /\ Paths /\ Writers => slots' \in [Users -> Int]
<1> SUFFICES ASSUME TypeOK, Paths, Writers
             PROVE  slots' \in [Users -> Int]
    OBVIOUS
<1>1. slots \in [Users -> Int]
      BY DEF TypeOK
<1>2. ASSUME NEW r \in Requests, TakeSlot(r)
      PROVE  slots' \in [Users -> Int]
  <2>1. PICK a \in Asks[r] : slots' = [slots EXCEPT ![a.user] = @ + 1]
        BY <1>2 DEF TakeSlot
  <2>2. a.user \in Users
        BY AsksTyped
  <2>3. QED
        BY <1>1, <2>1, <2>2
<1>3. ASSUME NEW r \in Requests, Refuse(r) \/ GiveBack(r)
      PROVE  slots' \in [Users -> Int]
  <2>1. slots' = [slots EXCEPT ![User(r)] = @ - 1] /\ pc[r] # "idle"
        BY <1>3 DEF Refuse, GiveBack
  <2>2. User(r) \in Users
        BY <2>1, AskTyped
  <2>3. QED
        BY <1>1, <2>1, <2>2
<1>4. ASSUME NEW u \in Users, LapseSlots(u)
      PROVE  slots' \in [Users -> Int]
      BY <1>1, <1>4 DEF LapseSlots
<1>5. QED
      BY <1>1, <1>2, <1>3, <1>4 DEF Writers

LEMMA ReservedTyped ==
    TypeOK /\ Paths /\ Writers => reserved' \in [Users -> Hashes]
<1> SUFFICES ASSUME TypeOK, Paths, Writers
             PROVE  reserved' \in [Users -> Hashes]
    OBVIOUS
<1>1. reserved \in [Users -> [Contents -> Nat]]
      BY DEF TypeOK, Hashes
<1>2. ASSUME NEW r \in Requests, NEW n \in Nat,
             reserved' = [reserved EXCEPT ![User(r)] = [@ EXCEPT ![Content(r)] = n]]
      PROVE  reserved' \in [Users -> [Contents -> Nat]]
      BY <1>1, <1>2
<1>3. ASSUME NEW r \in Requests, Reserve(r)
      PROVE  reserved' \in [Users -> [Contents -> Nat]]
  <2>1. EstimateOf(r) \in Nat
        BY <1>3, PagesCounted DEF Reserve
  <2>2. QED
        BY <1>2, <1>3, <2>1 DEF Reserve, CreateReservation
<1>4. ASSUME NEW r \in Requests, Release(r) \/ Undo(r)
      PROVE  reserved' \in [Users -> [Contents -> Nat]]
      BY <1>2, <1>4 DEF Release, Undo, ReleaseOf, ReleaseReservation
<1>5. ASSUME ReleaseResults \/ FailedJob
      PROVE  reserved' \in [Users -> [Contents -> Nat]]
  <2>1. By \in Requests
        BY DEF By, TypeOK, Jobs
  <2>2. QED
        BY <1>2, <1>5, <2>1 DEF ReleaseResults, FailedJob, ReleaseOf, ReleaseReservation
<1>6. QED
      BY <1>1, <1>3, <1>4, <1>5 DEF Writers, Hashes

LEMMA AnswersTyped ==
    TypeOK /\ Writers =>
        /\ cancelled' \subseteq Requests
        /\ result' \in [Requests -> {"none", "document", "error"}]
<1> SUFFICES ASSUME TypeOK, Writers
             PROVE  /\ cancelled' \subseteq Requests
                    /\ result' \in [Requests -> {"none", "document", "error"}]
    OBVIOUS
<1>1. cancelled \subseteq Requests /\ result \in [Requests -> {"none", "document", "error"}]
      BY DEF TypeOK
<1>2. cancelled' \subseteq Requests
      BY <1>1 DEF Writers, Cancel, LapseCancel
<1>3. ASSUME NEW r \in Requests, Answer(r) \/ ReportError(r)
      PROVE  result' \in [Requests -> {"none", "document", "error"}]
      BY <1>1, <1>3 DEF Answer, ReportError
<1>4. QED
      BY <1>1, <1>2, <1>3 DEF Writers

LEMMA ByTyped == TypeOK => By \in Requests
BY DEF TypeOK, Jobs, By

LEMMA SpentTyped ==
    TypeOK /\ LocalsTyped /\ Paths /\ JobsKnown /\ Writers =>
        spent' \in [Users -> Nat] /\ charged' \in [Requests -> [Pages -> Nat]]
<1> SUFFICES ASSUME TypeOK, LocalsTyped, Paths, JobsKnown, Writers
             PROVE  spent' \in [Users -> Nat] /\ charged' \in [Requests -> [Pages -> Nat]]
    OBVIOUS
<1>1. /\ spent \in [Users -> Nat] /\ charged \in [Requests -> [Pages -> Nat]] /\ Cost \in Nat
      BY ExtractionAssumption DEF TypeOK, LocalsTyped
<1>2. ASSUME NEW r \in Requests, pc[r] # "idle",
             spent' = [spent EXCEPT ![User(r)] = @ + Cost * Cardinality(Kept(r))],
             charged' = [charged EXCEPT ![r] =
                            [p \in Pages |-> IF p \in Kept(r) THEN @[p] + 1 ELSE @[p]]]
      PROVE  spent' \in [Users -> Nat] /\ charged' \in [Requests -> [Pages -> Nat]]
  <2>1. Cost * Cardinality(Kept(r)) \in Nat /\ User(r) \in Users
        BY <1>1, <1>2, PagesCounted, AskTyped
  <2>2. spent' \in [Users -> Nat]
        BY <1>1, <1>2, <2>1
  <2>3. charged' \in [Requests -> [Pages -> Nat]]
        BY <1>1, <1>2
  <2>4. QED
        BY <2>2, <2>3
<1>3. ASSUME NEW r \in Requests, Bill(r)
      PROVE  spent' \in [Users -> Nat] /\ charged' \in [Requests -> [Pages -> Nat]]
      BY <1>2, <1>3 DEF Bill
<1>4. ASSUME BillResults
      PROVE  spent' \in [Users -> Nat] /\ charged' \in [Requests -> [Pages -> Nat]]
  <2>1. By \in Requests /\ pc[By] # "idle"
        BY <1>4, ByTyped DEF BillResults, JobsKnown, InHand, Closing
  <2>2. QED
        BY <1>2, <1>4, <2>1 DEF BillResults
<1>5. QED
      BY <1>1, <1>3, <1>4 DEF Writers

LEMMA EntryTyped ==
    ASSUME NEW c \in Contents, NEW pr \in Prompts, NEW p \in Pages, NEW figs \in BOOLEAN,
           NEW made \in Prompts
    PROVE  Entry(Key(c, pr, p), figs, made) \in Entries
BY DEF Entry, Key, Entries

LEMMA BatchEntriesTyped ==
    ASSUME TypeOK, Paths, JobsKnown, ppc \in InHand \cup Closing
    PROVE  /\ By \in Requests /\ pc[By] # "idle" /\ BatchEntries \subseteq Entries
           /\ Kept(By) \in SUBSET Pages
<1>1. By \in Requests /\ pc[By] # "idle"
      BY ByTyped DEF JobsKnown, InHand, Closing
<1>2. Content(By) \in Contents /\ ask[By].prompt \in Prompts /\ Kept(By) \in SUBSET Pages
      BY <1>1, AskTyped, PagesCounted
<1>3. NoPrompt \in Prompts
      BY ExtractionAssumption
<1>4. QED
      BY <1>1, <1>2, <1>3, EntryTyped DEF BatchEntries

LEMMA CacheTyped ==
    TypeOK /\ Paths /\ JobsKnown /\ Writers => cache' \subseteq Entries
<1> SUFFICES ASSUME TypeOK, Paths, JobsKnown, Writers
             PROVE  cache' \subseteq Entries
    OBVIOUS
<1>1. cache \subseteq Entries
      BY DEF TypeOK
<1>2. ASSUME NEW new, new \subseteq Entries, Store(new)
      PROVE  cache' \subseteq Entries
      BY <1>1, <1>2 DEF Store, Keep
<1>3. ASSUME NEW r \in Requests, NEW p \in Pages, Collect(r, p)
      PROVE  cache' \subseteq Entries
  <2>1. Content(r) \in Contents /\ ask[r].prompt \in Prompts
        BY <1>3, AskTyped DEF Collect
  <2>2. PICK figs \in BOOLEAN : figs = (page[r][p] = "okfigures")
        OBVIOUS
  <2>3. {Entry(Key(Content(r), ask[r].prompt, p), figs, ask[r].prompt)} \subseteq Entries
        BY <2>1, EntryTyped
  <2>4. CASE page[r][p] \in {"ok", "okfigures"}
    <3>1. Store({Entry(Key(Content(r), ask[r].prompt, p), figs, ask[r].prompt)})
          BY <1>3, <2>2, <2>4 DEF Collect
    <3>2. QED
          BY <1>2, <2>3, <3>1
  <2>5. CASE page[r][p] \notin {"ok", "okfigures"}
        BY <1>1, <1>3, <2>5 DEF Collect
  <2>6. QED
        BY <2>4, <2>5
<1>4. ASSUME KeepResults
      PROVE  cache' \subseteq Entries
  <2>1. ppc \in InHand \cup Closing /\ Store(BatchEntries)
        BY <1>4 DEF KeepResults, InHand
  <2>2. QED
        BY <1>2, <2>1, BatchEntriesTyped
<1>5. QED
      BY <1>1, <1>3, <1>4 DEF Writers

LEMMA ImagesTyped ==
    TypeOK /\ Paths /\ Writers => images' \subseteq Contents \X Pages
<1> SUFFICES ASSUME TypeOK, Paths, Writers
             PROVE  images' \subseteq Contents \X Pages
    OBVIOUS
<1>1. images \subseteq Contents \X Pages
      BY DEF TypeOK
<1>2. ASSUME NEW r \in Requests, Prepare(r)
      PROVE  images' \subseteq Contents \X Pages
  <2>1. Content(r) \in Contents /\ Uncached(r) \in SUBSET Pages
        BY <1>2, AskTyped, PagesCounted DEF Prepare
  <2>2. PICK figs \in SUBSET Uncached(r) : images' = images \cup {<<Content(r), p>> : p \in figs}
        BY <1>2 DEF Prepare
  <2>3. QED
        BY <1>1, <2>1, <2>2
<1>3. ASSUME NEW r \in Requests, NEW p \in Pages, DetectFigures(r, p)
      PROVE  images' \subseteq Contents \X Pages
  <2>1. images' \in {images, images \cup {<<Content(r), p>>}}
        BY <1>3 DEF DetectFigures
  <2>2. Content(r) \in Contents
    <3>1. pc[r] # "idle"
          BY <1>3 DEF DetectFigures, Paths
    <3>2. QED
          BY <3>1, AskTyped
  <2>3. QED
        BY <1>1, <2>1, <2>2
<1>4. ASSUME NEW d \in docs, DeleteDocument(d)
      PROVE  images' \subseteq Contents \X Pages
      BY <1>1, <1>4 DEF DeleteDocument
<1>5. QED
      BY <1>1, <1>2, <1>3, <1>4 DEF Writers

LEMMA DocsTyped ==
    TypeOK /\ LocalsTyped /\ Paths /\ JobsKnown /\ Writers => docs' \subseteq Documents
<1> SUFFICES ASSUME TypeOK, LocalsTyped, Paths, JobsKnown, Writers
             PROVE  docs' \subseteq Documents
    OBVIOUS
<1>1. docs \subseteq Documents /\ cache \subseteq Entries
      BY DEF TypeOK, LocalsTyped
<1>2. ASSUME NEW r \in Requests, pc[r] # "idle", NEW es, es \subseteq Entries,
             NEW fresh \in SUBSET Pages
      PROVE  Document(r, es, fresh) \in Documents
  <2>1. Content(r) \in Contents
        BY <1>2, AskTyped
  <2>2. {e.page : e \in {x \in es : x.figures}} \in SUBSET Pages
        BY <1>2 DEF Entries
  <2>3. {e.made : e \in es} \in SUBSET Prompts
        BY <1>2 DEF Entries
  <2>4. QED
        BY <1>2, <2>1, <2>2, <2>3 DEF Document, Documents
<1>3. ASSUME NEW r \in Requests, DirectDocument(r)
      PROVE  docs' \subseteq Documents
  <2>1. found[r] \subseteq Entries /\ pc[r] # "idle"
        BY <1>3 DEF TypeOK, DirectDocument
  <2>2. Document(r, found[r], {}) \in Documents
        BY <1>2, <2>1
  <2>3. QED
        BY <1>1, <1>3, <2>2 DEF DirectDocument
<1>4. ASSUME NEW r \in Requests, CreateDocument(r)
      PROVE  docs' \subseteq Documents
  <2>1. found[r] \subseteq Entries /\ pc[r] # "idle"
        BY <1>4 DEF TypeOK, CreateDocument
  <2>2. FreshEntries(r) \subseteq Entries /\ Kept(r) \in SUBSET Pages
    <3>1. /\ Content(r) \in Contents /\ ask[r].prompt \in Prompts
          /\ Kept(r) \in SUBSET Pages
          BY <2>1, AskTyped, PagesCounted
    <3>2. QED
          BY <3>1, EntryTyped DEF FreshEntries
  <2>3. found[r] \cup FreshEntries(r) \subseteq Entries
        BY <2>1, <2>2
  <2>4. Document(r, found[r] \cup FreshEntries(r), Kept(r)) \in Documents
        BY <1>2, <2>1, <2>2, <2>3
  <2>5. QED
        BY <1>1, <1>4, <2>4 DEF CreateDocument
<1>5. ASSUME MergeAndCreate
      PROVE  docs' \subseteq Documents
  <2>1. ppc \in InHand \cup Closing
        BY <1>5 DEF MergeAndCreate, Closing
  <2>2. /\ By \in Requests /\ pc[By] # "idle" /\ BatchEntries \subseteq Entries
        /\ Kept(By) \in SUBSET Pages
        BY <2>1, BatchEntriesTyped
  <2>3. Merged \subseteq Entries
        BY <1>1 DEF Merged, At
  <2>4. BatchEntries \cup Merged \subseteq Entries
        BY <2>2, <2>3
  <2>5. Document(By, BatchEntries \cup Merged, Kept(By)) \in Documents
        BY <1>2, <2>2, <2>4
  <2>6. docs' = docs \/ docs' = docs \cup {Document(By, BatchEntries \cup Merged, Kept(By))}
        BY <1>5 DEF MergeAndCreate
  <2>7. QED
        BY <1>1, <2>5, <2>6
<1>6. ASSUME NEW d \in docs, DeleteDocument(d)
      PROVE  docs' \subseteq Documents
      BY <1>1, <1>6 DEF DeleteDocument
<1>7. QED
      BY <1>1, <1>3, <1>4, <1>5, <1>6 DEF Writers

LEMMA AsksKept ==
    TypeOK /\ LocalsTyped /\ Writers =>
        DOMAIN ask' = Requests /\ \A r \in Requests : ask'[r] \in Asks[r] \cup {NoAsk}
<1> SUFFICES ASSUME TypeOK, LocalsTyped, Writers
             PROVE  DOMAIN ask' = Requests /\ \A r \in Requests : ask'[r] \in Asks[r] \cup {NoAsk}
    OBVIOUS
<1>1. DOMAIN ask = Requests /\ \A r \in Requests : ask[r] \in Asks[r] \cup {NoAsk}
      BY DEF TypeOK, LocalsTyped
<1>2. ASSUME NEW r \in Requests, TakeSlot(r) \/ BatchAsk(r)
      PROVE  DOMAIN ask' = Requests /\ \A s \in Requests : ask'[s] \in Asks[s] \cup {NoAsk}
  <2>1. PICK a \in Asks[r] : ask' = [ask EXCEPT ![r] = a]
        BY <1>2 DEF TakeSlot, BatchAsk
  <2>2. QED
        BY <1>1, <2>1
<1>3. QED
      BY <1>1, <1>2 DEF Writers

LEMMA FoundTyped ==
    TypeOK /\ LocalsTyped /\ Writers =>
        DOMAIN found' = Requests /\ \A r \in Requests : found'[r] \subseteq Entries
<1> SUFFICES ASSUME TypeOK, LocalsTyped, Writers
             PROVE  DOMAIN found' = Requests /\ \A r \in Requests : found'[r] \subseteq Entries
    OBVIOUS
<1>1. DOMAIN found = Requests /\ \A r \in Requests : found[r] \subseteq Entries
      BY DEF TypeOK, LocalsTyped
<1>2. ASSUME NEW r \in Requests, Lookup(r) \/ BatchLookup(r)
      PROVE  DOMAIN found' = Requests /\ \A s \in Requests : found'[s] \subseteq Entries
  <2>1. found' = [found EXCEPT ![r] = CachedPages(r)]
        BY <1>2 DEF Lookup, BatchLookup
  <2>2. CachedPages(r) \subseteq Entries
        BY DEF CachedPages, At, TypeOK
  <2>3. QED
        BY <1>1, <2>1, <2>2
<1>3. QED
      BY <1>1, <1>2 DEF Writers

LEMMA CountsTyped ==
    TypeOK /\ LocalsTyped /\ Paths /\ Writers =>
        seen' \in [Requests -> Nat] /\ leaked' \subseteq Requests
<1> SUFFICES ASSUME TypeOK, LocalsTyped, Paths, Writers
             PROVE  seen' \in [Requests -> Nat] /\ leaked' \subseteq Requests
    OBVIOUS
<1>1. spent \in [Users -> Nat] /\ seen \in [Requests -> Nat] /\ leaked \subseteq Requests
      BY DEF TypeOK, LocalsTyped
<1>2. ASSUME NEW r \in Requests, ReadUsed(r)
      PROVE  seen' \in [Requests -> Nat]
      BY <1>1, <1>2, AskTyped DEF ReadUsed
<1>3. leaked' \subseteq Requests
      BY <1>1 DEF Writers, LookupFails, CheckAvailable, CheckLimit, Reject, GiveBackFails, Crash,
                  history
<1>4. QED
      BY <1>1, <1>2, <1>3 DEF Writers

LEMMA PagesTyped ==
    TypeOK /\ Writers => page' \in [Requests -> [Pages -> PageStates]]
<1> SUFFICES ASSUME TypeOK, Writers
             PROVE  page' \in [Requests -> [Pages -> PageStates]]
    OBVIOUS
<1>1. page \in [Requests -> [Pages -> PageStates]]
      BY DEF TypeOK
<1>2. ASSUME NEW r \in Requests, NEW f \in [Pages -> PageStates], page' = [page EXCEPT ![r] = f]
      PROVE  page' \in [Requests -> [Pages -> PageStates]]
      BY <1>1, <1>2
<1>3. ASSUME NEW r \in Requests, NEW p \in Pages, NEW s \in PageStates, SetPage(r, p, s)
      PROVE  page' \in [Requests -> [Pages -> PageStates]]
      BY <1>1, <1>3 DEF SetPage
<1>4. ASSUME NEW r \in Requests, Lookup(r) \/ Reserve(r)
      PROVE  page' \in [Requests -> [Pages -> PageStates]]
  <2>1. page' = page \/ \E hits : StartPages(r, hits)
        BY <1>4 DEF Lookup, Reserve
  <2>2. ASSUME NEW hits, StartPages(r, hits)
        PROVE  page' \in [Requests -> [Pages -> PageStates]]
    <3>1. [p \in Pages |-> IF p \in Requested(r) \ {e.page : e \in hits} THEN "new" ELSE "none"]
             \in [Pages -> PageStates]
          BY DEF PageStates
    <3>2. QED
          BY <1>2, <2>2, <3>1 DEF StartPages
  <2>3. QED
        BY <1>1, <2>1, <2>2
<1>5. ASSUME NEW r \in Requests, Prepare(r)
      PROVE  page' \in [Requests -> [Pages -> PageStates]]
  <2>1. PICK figs : page' = [page EXCEPT ![r] = [p \in Pages |->
                                IF p \notin Uncached(r) THEN "none"
                                ELSE IF p \in figs THEN "figures" ELSE "plain"]]
        BY <1>5 DEF Prepare
  <2>2. [p \in Pages |-> IF p \notin Uncached(r) THEN "none"
                         ELSE IF p \in figs THEN "figures" ELSE "plain"] \in [Pages -> PageStates]
        BY DEF PageStates
  <2>3. QED
        BY <1>2, <2>1, <2>2
<1>6. ASSUME NEW r \in Requests, GeminiEnds(r)
      PROVE  page' \in [Requests -> [Pages -> PageStates]]
  <2>1. CASE UNCHANGED page
        BY <1>1, <2>1
  <2>2. CASE \E ok \in SUBSET Uncached(r) :
                page' = [page EXCEPT ![r] = [p \in Pages |->
                    CASE p \notin Uncached(r) -> @[p]
                      [] p \notin ok -> "failed"
                      [] @[p] = "figures" -> "keptfigures"
                      [] OTHER -> "kept"]]
    <3>1. PICK ok : page' = [page EXCEPT ![r] = [p \in Pages |->
                    CASE p \notin Uncached(r) -> page[r][p]
                      [] p \notin ok -> "failed"
                      [] page[r][p] = "figures" -> "keptfigures"
                      [] OTHER -> "kept"]]
          BY <1>1, <2>2
    <3>2. [p \in Pages |->
                    CASE p \notin Uncached(r) -> page[r][p]
                      [] p \notin ok -> "failed"
                      [] page[r][p] = "figures" -> "keptfigures"
                      [] OTHER -> "kept"] \in [Pages -> PageStates]
          BY <1>1 DEF PageStates
    <3>3. QED
          BY <1>2, <3>1, <3>2
  <2>3. QED
        BY <1>6, <2>1, <2>2 DEF GeminiEnds
<1>7. ASSUME NEW r \in Requests, NEW p \in Pages,
             StartPage(r, p) \/ DetectFigures(r, p) \/ CallModel(r, p) \/ Collect(r, p)
      PROVE  page' \in [Requests -> [Pages -> PageStates]]
  <2>1. \E s \in PageStates : SetPage(r, p, s)
    <3>1. CASE StartPage(r, p)
          BY <3>1 DEF StartPage, PageStates
    <3>2. CASE DetectFigures(r, p)
          BY <3>2 DEF DetectFigures, PageStates
    <3>3. CASE CallModel(r, p)
          BY <3>3 DEF CallModel, PageStates
    <3>4. CASE Collect(r, p)
          BY <3>4 DEF Collect, PageStates
    <3>5. QED
          BY <1>7, <3>1, <3>2, <3>3, <3>4
  <2>2. QED
        BY <1>3, <2>1
<1>8. QED
      BY <1>1, <1>4, <1>5, <1>6, <1>7 DEF Writers

LEMMA JobsTyped ==
    TypeOK /\ LocalsTyped /\ Paths /\ Writers =>
        /\ job' \in [Contents -> Jobs \cup {NoJob}] /\ active' \subseteq Contents
        /\ jobs' \subseteq Jobs
        /\ gemini' \in [Requests -> {"none", "running", "succeeded", "failed", "cancelled"}]
<1> SUFFICES ASSUME TypeOK, LocalsTyped, Paths, Writers
             PROVE  /\ job' \in [Contents -> Jobs \cup {NoJob}] /\ active' \subseteq Contents
                    /\ jobs' \subseteq Jobs
                    /\ gemini' \in [Requests -> {"none", "running", "succeeded", "failed",
                                                 "cancelled"}]
    OBVIOUS
<1>1. /\ job \in [Contents -> Jobs \cup {NoJob}] /\ active \subseteq Contents
      /\ jobs \subseteq Jobs /\ cur \in Jobs
      /\ gemini \in [Requests -> {"none", "running", "succeeded", "failed", "cancelled"}]
      BY DEF TypeOK, LocalsTyped
<1>2. ASSUME NEW c, NEW j \in Jobs, SaveJob(c, j)
      PROVE  job' \in [Contents -> Jobs \cup {NoJob}]
      BY <1>1, <1>2 DEF SaveJob
<1>3. \A r \in Requests, s \in Statuses, d \in BOOLEAN : Job(r, s, d) \in Jobs
      BY DEF Job, Jobs
<1>4. ASSUME NEW r \in Requests, DirectJob(r) \/ SavePreparing(r) \/ StoreJob(r)
      PROVE  job' \in [Contents -> Jobs \cup {NoJob}]
  <2>1. PICK s \in Statuses, d \in BOOLEAN : SaveJob(Content(r), Job(r, s, d))
        BY <1>4 DEF DirectJob, SavePreparing, StoreJob, Statuses
  <2>2. QED
        BY <1>2, <1>3, <2>1
<1>5. ASSUME NEW r \in Requests, Mark(r)
      PROVE  job' \in [Contents -> Jobs \cup {NoJob}]
  <2>1. CASE job' = job
        BY <1>1, <2>1
  <2>2. CASE job[Content(r)] # NoJob
    <3>1. job' = [job EXCEPT ![Content(r)].status = "FAILED"]
          BY <1>5, <2>2 DEF Mark
    <3>2. CASE Content(r) \in Contents
      <4>1. job[Content(r)] \in Jobs
            BY <1>1, <2>2, <3>2
      <4>2. [job[Content(r)] EXCEPT !.status = "FAILED"] \in Jobs
            BY <4>1 DEF Jobs, Statuses
      <4>3. QED
            BY <1>1, <3>1, <4>2
    <3>3. CASE Content(r) \notin Contents
          BY <1>1, <3>1, <3>3
    <3>4. QED
          BY <3>2, <3>3
  <2>3. QED
        BY <1>5, <2>1, <2>2 DEF Mark
<1>6. ASSUME PollJob
      PROVE  /\ job' \in [Contents -> Jobs \cup {NoJob}] /\ jobs' \subseteq Jobs
  <2>1. PICK j \in jobs : /\ jobs' = jobs \ {j}
                          /\ SaveJob(Content(j.by), [j EXCEPT !.status = GeminiStatus(j.by)])
        BY <1>6 DEF PollJob
  <2>2. [j EXCEPT !.status = GeminiStatus(j.by)] \in Jobs
    <3>1. GeminiStatus(j.by) \in Statuses
          BY DEF GeminiStatus, Statuses
    <3>2. QED
          BY <1>1, <2>1, <3>1 DEF Jobs
  <2>3. QED
        BY <1>1, <1>2, <2>1, <2>2
<1>7. ASSUME LinkDocument \/ FailedJob
      PROVE  job' \in [Contents -> Jobs \cup {NoJob}]
  <2>1. [cur EXCEPT !.document = TRUE] \in Jobs
        BY <1>1 DEF Jobs
  <2>2. QED
        BY <1>1, <1>2, <1>7, <2>1 DEF LinkDocument, FailedJob
<1>8. job' \in [Contents -> Jobs \cup {NoJob}]
      BY <1>1, <1>4, <1>5, <1>6, <1>7 DEF Writers
<1>9. active' \subseteq Contents
  <2>1. ASSUME NEW r \in Requests, Activate(r)
        PROVE  active' \subseteq Contents
    <3>1. active' = active \cup {Content(r)}
          BY <2>1 DEF Activate
    <3>2. Content(r) \in Contents
          BY <2>1, AskTyped DEF Activate
    <3>3. QED
          BY <1>1, <3>1, <3>2
  <2>2. ASSUME ListJobs \/ Unlist
        PROVE  active' \subseteq Contents
        BY <1>1, <2>2 DEF ListJobs, Unlist, RemoveFromActive
  <2>3. QED
        BY <1>1, <2>1, <2>2 DEF Writers
<1>10. jobs' \subseteq Jobs
  <2>1. ASSUME ListJobs
        PROVE  jobs' \subseteq Jobs
        BY <1>1, <2>1 DEF ListJobs
  <2>2. QED
        BY <1>1, <1>6, <2>1 DEF Writers, Crash
<1>11. gemini' \in [Requests -> {"none", "running", "succeeded", "failed", "cancelled"}]
      BY <1>1 DEF Writers, Submit, GeminiEnds
<1>12. QED
      BY <1>8, <1>9, <1>10, <1>11

LEMMA PollerTyped ==
    TypeOK /\ LocalsTyped /\ Writers =>
        /\ cur' \in Jobs
        /\ ppc' \in {"idle", "each", "keep", "bill", "release", "raised", "merge", "link",
                     "unlist", "failed"}
<1> SUFFICES ASSUME TypeOK, LocalsTyped, Writers
             PROVE  /\ cur' \in Jobs
                    /\ ppc' \in {"idle", "each", "keep", "bill", "release", "raised", "merge",
                                 "link", "unlist", "failed"}
    OBVIOUS
<1>1. jobs \subseteq Jobs /\ cur \in Jobs
      BY DEF TypeOK
<1>2. NoSnapshot \in Jobs
      BY ExtractionAssumption DEF NoSnapshot, Jobs, Statuses
<1> USE DEF LocalsTyped, PollGoto
<1>3. CASE ListJobs
      BY <1>1, <1>3 DEF ListJobs
<1>4. CASE PollJob
  <2>1. PICK j \in jobs : \/ UNCHANGED <<ppc, cur>>
                          \/ /\ cur' = [j EXCEPT !.status = GeminiStatus(j.by)]
                             /\ ppc' \in {"failed", "keep"}
        BY <1>4 DEF PollJob
  <2>2. GeminiStatus(j.by) \in Statuses
        BY DEF GeminiStatus, Statuses
  <2>3. QED
        BY <1>1, <2>1, <2>2 DEF Jobs
<1>5. CASE Sleep
      BY <1>1, <1>2, <1>5 DEF Sleep
<1>6. CASE KeepResults
      BY <1>1, <1>6 DEF KeepResults
<1>7. CASE BillResults
      BY <1>1, <1>7 DEF BillResults
<1>8. CASE ReleaseResults
      BY <1>1, <1>2, <1>8 DEF ReleaseResults
<1>9. CASE MergeAndCreate
      BY <1>1, <1>9 DEF MergeAndCreate
<1>10. CASE LinkDocument
      BY <1>1, <1>10 DEF LinkDocument
<1>11. CASE Unlist
      BY <1>1, <1>2, <1>11 DEF Unlist
<1>12. CASE FailedJob
      BY <1>1, <1>12 DEF FailedJob
<1>13. CASE PollRaises
      BY <1>1, <1>2, <1>13 DEF PollRaises
<1>14. CASE Crash
      BY <1>2, <1>14 DEF Crash
<1>15. CASE UNCHANGED <<ppc, cur>>
      BY <1>1, <1>15
<1>16. QED
      BY <1>3, <1>4, <1>5, <1>6, <1>7, <1>8, <1>9, <1>10, <1>11, <1>12, <1>13, <1>14, <1>15
      DEF Writers, PollerStep

-----------------------------------------------------------------------------
(* Where a request goes                                                     *)

Precheck(r, b) ==
    \/ pc[r] = "available" /\ b \in {"limit", "rejected"} /\ CheckAvailable(r)
    \/ pc[r] = "limit" /\ b = "pending" /\ ReadUsed(r)
    \/ pc[r] = "pending" /\ b \in {"reserve", "rejected"} /\ CheckLimit(r)
    \/ pc[r] = "reserve" /\ ask[r].batch /\ b = "save" /\ Reserve(r)
    \/ pc[r] = "reserve" /\ ~ask[r].batch /\ b = "extract" /\ Reserve(r)

PageWalk(r, b) ==
    \/ pc[r] = "refused" /\ b = "rejected" /\ Refuse(r)
    \/ pc[r] = "lookup" /\ b \in {"extract", "available"} /\ Lookup(r)
    \/ pc[r] = "lookup" /\ b = "rejected" /\ LookupFails(r)
    \/ pc[r] = "extract" /\ b = "decide" /\ Bill(r)
    \/ pc[r] \in {"extract", "create", "answer"} /\ b = "error" /\ Raise(r)
    \/ pc[r] = "decide" /\ b \in {"finally", "error", "create"} /\ Decide(r)
    \/ pc[r] = "create" /\ b = "answer" /\ CreateDocument(r)
    \/ pc[r] = "answer" /\ b = "finally" /\ Answer(r)
    \/ pc[r] = "error" /\ b = "finally" /\ ReportError(r)
    \/ pc[r] = "finally" /\ b = "release" /\ GiveBack(r)
    \/ pc[r] = "finally" /\ b = "done" /\ GiveBackFails(r)
    \/ pc[r] = "release" /\ b = "done" /\ Release(r)

BatchWalk(r, b) ==
    \/ pc[r] = "find" /\ b \in {"direct", "available"} /\ BatchLookup(r)
    \/ pc[r] = "find" /\ b = "rejected" /\ LookupFails(r)
    \/ pc[r] = "direct" /\ b = "record" /\ DirectDocument(r)
    \/ pc[r] = "record" /\ b = "done" /\ DirectJob(r)
    \/ pc[r] \in {"direct", "record", "save"} /\ b = "rejected" /\ SaveFails(r)
    \/ pc[r] = "save" /\ b = "prepare" /\ SavePreparing(r)
    \/ pc[r] = "prepare" /\ b = "submit" /\ Prepare(r)
    \/ pc[r] = "submit" /\ b = "store" /\ Submit(r)
    \/ pc[r] = "store" /\ b = "activate" /\ StoreJob(r)
    \/ pc[r] = "activate" /\ b = "submitted" /\ Activate(r)
    \/ pc[r] \in {"prepare", "submit", "store", "activate"} /\ b = "undo" /\ BatchRaise(r)
    \/ pc[r] = "undo" /\ b = "mark" /\ Undo(r)
    \/ pc[r] = "mark" /\ b = "failed" /\ Mark(r)

Starts(r, b) ==
    /\ pc[r] = "idle"
    /\ \/ TakeSlot(r) /\ b \in {"refused", "lookup"}
       \/ BatchAsk(r) /\ b = "find"

Handled(r, b) ==
    /\ r = By
    /\ \/ ReleaseResults /\ b \in {"closing", "done"}
       \/ Unlist /\ b = "done"
       \/ FailedJob /\ b = "closing"
       \/ PollRaises /\ pc[By] = "closing" /\ b = "done"

Walk(r, b) == Starts(r, b) \/ Precheck(r, b) \/ PageWalk(r, b) \/ BatchWalk(r, b)

Moves ==
    \/ UNCHANGED pc
    \/ \E r \in Requests, b \in Steps : Goto(r, b) /\ (Walk(r, b) \/ Handled(r, b))
    \/ Crash

LEMMA MovesStep == TypeOK /\ [Next]_vars => Moves
<1> SUFFICES ASSUME TypeOK, [Next]_vars
             PROVE  Moves
    OBVIOUS
<1> DEFINE Went(r) == \E b \in Steps : Goto(r, b) /\ Walk(r, b)
<1>0. ASSUME NEW r \in Requests, Went(r)
      PROVE  Moves
      BY <1>0 DEF Moves
<1>1. ASSUME NEW r \in Requests, TakeSlot(r)
      PROVE  Moves
  <2>1. pc[r] = "idle" /\ \E b \in {"refused", "lookup"} : Goto(r, b)
        BY <1>1 DEF TakeSlot
  <2>2. QED
        BY <1>0, <1>1, <2>1 DEF Walk, Starts, Steps, Holding
<1>2. ASSUME NEW r \in Requests, Refuse(r)
      PROVE  Moves
      BY <1>0, <1>2 DEF Refuse, Walk, PageWalk, Steps, Holding
<1>3. ASSUME NEW r \in Requests, Lookup(r)
      PROVE  Moves
      BY <1>0, <1>3 DEF Lookup, Walk, PageWalk, Steps, Holding
<1>4. ASSUME NEW r \in Requests, CheckAvailable(r)
      PROVE  Moves
      BY <1>0, <1>4 DEF CheckAvailable, Reject, Walk, Precheck, Steps, Holding
<1>5. ASSUME NEW r \in Requests, ReadUsed(r)
      PROVE  Moves
      BY <1>0, <1>5 DEF ReadUsed, Walk, Precheck, Steps, Holding
<1>6. ASSUME NEW r \in Requests, CheckLimit(r)
      PROVE  Moves
      BY <1>0, <1>6 DEF CheckLimit, Reject, Walk, Precheck, Steps, Holding
<1>7. ASSUME NEW r \in Requests, Reserve(r)
      PROVE  Moves
      BY <1>0, <1>7 DEF Reserve, Walk, Precheck, Steps, Holding
<1>8. ASSUME NEW r \in Requests, Bill(r)
      PROVE  Moves
      BY <1>0, <1>8 DEF Bill, Walk, PageWalk, Steps, Holding
<1>9. ASSUME NEW r \in Requests, Decide(r)
      PROVE  Moves
      BY <1>0, <1>9 DEF Decide, Walk, PageWalk, Steps, Holding
<1>10. ASSUME NEW r \in Requests, CreateDocument(r)
      PROVE  Moves
      BY <1>0, <1>10 DEF CreateDocument, Walk, PageWalk, Steps, Holding
<1>11. ASSUME NEW r \in Requests, Answer(r)
      PROVE  Moves
      BY <1>0, <1>11 DEF Answer, Walk, PageWalk, Steps, Holding
<1>12. ASSUME NEW r \in Requests, ReportError(r)
      PROVE  Moves
      BY <1>0, <1>12 DEF ReportError, Walk, PageWalk, Steps, Holding
<1>13. ASSUME NEW r \in Requests, GiveBack(r)
      PROVE  Moves
      BY <1>0, <1>13 DEF GiveBack, Walk, PageWalk, Steps, Holding
<1>14. ASSUME NEW r \in Requests, Release(r)
      PROVE  Moves
      BY <1>0, <1>14 DEF Release, Walk, PageWalk, Steps, Holding
<1>15. ASSUME NEW r \in Requests, LookupFails(r)
      PROVE  Moves
      BY <1>0, <1>15 DEF LookupFails, Reject, Walk, PageWalk, BatchWalk, Steps, Holding
<1>16. ASSUME NEW r \in Requests, Raise(r)
      PROVE  Moves
      BY <1>0, <1>16 DEF Raise, Walk, PageWalk, Steps, Holding
<1>17. ASSUME NEW r \in Requests, GiveBackFails(r)
      PROVE  Moves
      BY <1>0, <1>17 DEF GiveBackFails, Walk, PageWalk, Steps, Holding
<1>18. ASSUME NEW r \in Requests, BatchAsk(r)
      PROVE  Moves
  <2>1. pc[r] = "idle" /\ \E b \in {"find"} : Goto(r, b)
        BY <1>18 DEF BatchAsk
  <2>2. QED
        BY <1>0, <1>18, <2>1 DEF Walk, Starts, Steps, Holding
<1>19. ASSUME NEW r \in Requests, BatchLookup(r)
      PROVE  Moves
      BY <1>0, <1>19 DEF BatchLookup, Walk, BatchWalk, Steps, Holding
<1>20. ASSUME NEW r \in Requests, DirectDocument(r)
      PROVE  Moves
      BY <1>0, <1>20 DEF DirectDocument, Walk, BatchWalk, Steps, Holding
<1>21. ASSUME NEW r \in Requests, DirectJob(r)
      PROVE  Moves
      BY <1>0, <1>21 DEF DirectJob, Walk, BatchWalk, Steps, Holding
<1>22. ASSUME NEW r \in Requests, SavePreparing(r)
      PROVE  Moves
      BY <1>0, <1>22 DEF SavePreparing, Walk, BatchWalk, Steps, Holding
<1>23. ASSUME NEW r \in Requests, Prepare(r)
      PROVE  Moves
      BY <1>0, <1>23 DEF Prepare, Walk, BatchWalk, Steps, Holding
<1>24. ASSUME NEW r \in Requests, Submit(r)
      PROVE  Moves
      BY <1>0, <1>24 DEF Submit, Walk, BatchWalk, Steps, Holding
<1>25. ASSUME NEW r \in Requests, StoreJob(r)
      PROVE  Moves
      BY <1>0, <1>25 DEF StoreJob, Walk, BatchWalk, Steps, Holding
<1>26. ASSUME NEW r \in Requests, Activate(r)
      PROVE  Moves
      BY <1>0, <1>26 DEF Activate, Walk, BatchWalk, Steps, Holding
<1>27. ASSUME NEW r \in Requests, BatchRaise(r)
      PROVE  Moves
      BY <1>0, <1>27 DEF BatchRaise, Walk, BatchWalk, Steps, Holding
<1>28. ASSUME NEW r \in Requests, Undo(r)
      PROVE  Moves
      BY <1>0, <1>28 DEF Undo, Walk, BatchWalk, Steps, Holding
<1>29. ASSUME NEW r \in Requests, Mark(r)
      PROVE  Moves
      BY <1>0, <1>29 DEF Mark, Walk, BatchWalk, Steps, Holding
<1>30. ASSUME NEW r \in Requests, SaveFails(r)
      PROVE  Moves
      BY <1>0, <1>30 DEF SaveFails, Walk, BatchWalk, Steps, Holding
<1>31. ASSUME NEW r \in Requests, Cancel(r) \/ LapseCancel(r) \/ PageTask(r) \/ GeminiEnds(r)
      PROVE  Moves
      BY <1>31 DEF Cancel, LapseCancel, PageTask, StartPage, DetectFigures, CallModel, GeminiEnds,
                  PageFrame, locals, Moves
<1>32. ASSUME NEW r \in Requests, NEW p \in Pages, Collect(r, p)
      PROVE  Moves
      BY <1>32 DEF Collect, Moves
<1>33. ASSUME \/ \E u \in Users : LapseSlots(u)
             \/ \E d \in docs : DeleteDocument(d)
      PROVE  Moves
      BY <1>33 DEF LapseSlots, DeleteDocument, locals, Moves
<1>34. ASSUME ListJobs \/ PollJob \/ Sleep \/ KeepResults \/ BillResults \/ MergeAndCreate
             \/ LinkDocument
      PROVE  Moves
      BY <1>34 DEF ListJobs, PollJob, Sleep, KeepResults, BillResults, MergeAndCreate, LinkDocument,
                  Moves
<1>35. ASSUME ReleaseResults \/ Unlist \/ FailedJob \/ PollRaises
      PROVE  Moves
  <2>1. By \in Requests
        BY ByTyped
  <2>2. UNCHANGED pc \/ \E b \in Steps : Goto(By, b) /\ Handled(By, b)
    <3>1. CASE ReleaseResults
      <4>1. \E b \in {"closing", "done"} : Goto(By, b)
            BY <3>1 DEF ReleaseResults
      <4>2. QED
            BY <3>1, <4>1 DEF Handled, Steps
    <3>2. CASE Unlist
      <4>1. Goto(By, "done")
            BY <3>2 DEF Unlist
      <4>2. QED
            BY <3>2, <4>1 DEF Handled, Steps
    <3>3. CASE FailedJob
      <4>1. Goto(By, "closing")
            BY <3>3 DEF FailedJob
      <4>2. QED
            BY <3>3, <4>1 DEF Handled, Steps
    <3>4. CASE PollRaises
      <4>1. UNCHANGED pc \/ (pc[By] = "closing" /\ Goto(By, "done"))
            BY <3>4 DEF PollRaises
      <4>2. QED
            BY <3>4, <4>1 DEF Handled, Steps
    <3>5. QED
          BY <1>35, <3>1, <3>2, <3>3, <3>4
  <2>3. QED
        BY <2>1, <2>2 DEF Moves
<1>36. CASE Crash \/ UNCHANGED vars
      BY <1>36 DEF Moves, vars, extractionVars, locals
<1>37. QED
      BY <1>1, <1>2, <1>3, <1>4, <1>5, <1>6, <1>7, <1>8, <1>9, <1>10, <1>11,
         <1>12, <1>13, <1>14, <1>15, <1>16, <1>17, <1>18, <1>19, <1>20, <1>21,
         <1>22, <1>23, <1>24, <1>25, <1>26, <1>27, <1>28, <1>29, <1>30, <1>31,
         <1>32, <1>33, <1>34, <1>35, <1>36
      DEF Next, ExtractionStep, HandlerStep, TaskStep, Failure, BatchTask, PollerStep

LEMMA PcTyped == TypeOK /\ Moves => pc' \in [Requests -> Steps]
<1> SUFFICES ASSUME TypeOK, Moves
             PROVE  pc' \in [Requests -> Steps]
    OBVIOUS
<1>1. pc \in [Requests -> Steps]
      BY DEF TypeOK
<1>2. ASSUME NEW r \in Requests, NEW b \in Steps, Goto(r, b)
      PROVE  pc' \in [Requests -> Steps]
      BY <1>1, <1>2 DEF Goto
<1>3. CASE Crash
  <2>1. "dead" \in Steps
        BY DEF Steps
  <2>2. QED
        BY <1>1, <1>3, <2>1 DEF Crash
<1>4. QED
      BY <1>1, <1>2, <1>3 DEF Moves

\* No bound counts backwards, so a fault that was once made is remembered
LEMMA BoundsStep ==
    LocalsTyped /\ [Next]_vars =>
        /\ {faults, crashes, lapses, deletions}' \subseteq Nat
        /\ faults' >= faults /\ crashes' >= crashes
        /\ lapses' >= lapses /\ deletions' >= deletions
<1> SUFFICES ASSUME LocalsTyped, [Next]_vars
             PROVE  /\ faults' \in Nat /\ crashes' \in Nat /\ lapses' \in Nat /\ deletions' \in Nat
                    /\ faults' >= faults /\ crashes' >= crashes
                    /\ lapses' >= lapses /\ deletions' >= deletions
    OBVIOUS
<1>1. faults \in Nat /\ crashes \in Nat /\ lapses \in Nat /\ deletions \in Nat
      BY DEF LocalsTyped
<1> DEFINE Counted == \/ UNCHANGED bounds
                      \/ faults' = faults + 1 /\ UNCHANGED <<crashes, lapses, deletions>>
                      \/ crashes' = crashes + 1 /\ UNCHANGED <<faults, lapses, deletions>>
                      \/ lapses' = lapses + 1 /\ UNCHANGED <<faults, crashes, deletions>>
                      \/ deletions' = deletions + 1 /\ UNCHANGED <<faults, crashes, lapses>>
<1>2. ASSUME NEW r \in Requests, HandlerStep(r)
      PROVE  Counted
      BY <1>2 DEF HandlerStep, Refuse, Lookup, CheckAvailable, ReadUsed, CheckLimit, Reserve,
                  bounds
<1>3. ASSUME NEW r \in Requests, TaskStep(r)
      PROVE  Counted
      BY <1>3 DEF TaskStep, Collect, Bill, Decide, CreateDocument, Answer, ReportError, GiveBack,
                  Release, Fault, NoFault, SameBounds, bounds
<1>4. ASSUME NEW r \in Requests, PageTask(r) \/ Failure(r)
      PROVE  Counted
      BY <1>4 DEF PageTask, StartPage, DetectFigures, CallModel, PageFrame, Failure, LookupFails,
                  Raise, GiveBackFails, Fault, SameBounds, bounds
<1>5. ASSUME NEW r \in Requests, TakeSlot(r) \/ Cancel(r) \/ LapseCancel(r) \/ BatchAsk(r)
      PROVE  Counted
      BY <1>5 DEF TakeSlot, Cancel, LapseCancel, BatchAsk, bounds
<1>6. ASSUME NEW r \in Requests, BatchTask(r)
      PROVE  Counted
      BY <1>6 DEF BatchTask, BatchLookup, DirectDocument, DirectJob, SavePreparing, Prepare, Submit,
                  StoreJob, Activate, Undo, Mark, bounds
<1>7. ASSUME NEW r \in Requests, BatchRaise(r) \/ SaveFails(r) \/ GeminiEnds(r)
      PROVE  Counted
      BY <1>7 DEF BatchRaise, SaveFails, GeminiEnds, Fault, SameBounds, bounds
<1>8. ASSUME \/ \E u \in Users : LapseSlots(u)
             \/ \E d \in docs : DeleteDocument(d)
      PROVE  Counted
      BY <1>8 DEF LapseSlots, DeleteDocument, bounds
<1>9. ASSUME PollerStep
      PROVE  Counted
      BY <1>9 DEF PollerStep, ListJobs, PollJob, Sleep, KeepResults, BillResults, ReleaseResults,
                  MergeAndCreate, LinkDocument, Unlist, FailedJob, PollerFrame, bounds
<1>10. ASSUME PollRaises \/ Crash
       PROVE  Counted
       BY <1>10 DEF PollRaises, Crash, Fault, SameBounds, bounds
<1>11. Counted
       BY <1>2, <1>3, <1>4, <1>5, <1>6, <1>7, <1>8, <1>9, <1>10
       DEF Next, ExtractionStep, vars, extractionVars
<1>12. QED
       BY <1>1, <1>11 DEF bounds

LEMMA TypedStep ==
    TypeOK /\ LocalsTyped /\ Paths /\ JobsKnown /\ [Next]_vars => TypeOK' /\ LocalsTyped'
<1> SUFFICES ASSUME TypeOK, LocalsTyped, Paths, JobsKnown, [Next]_vars
             PROVE  TypeOK' /\ LocalsTyped'
    OBVIOUS
<1>1. Writers /\ Moves
      BY WritersStep, MovesStep
<1>2. TypeOK'
      BY <1>1, SlotsTyped, ReservedTyped, AnswersTyped, SpentTyped, CacheTyped, ImagesTyped,
         AsksKept, FoundTyped, PagesTyped, JobsTyped, PollerTyped, PcTyped DEF TypeOK
<1>3. LocalsTyped'
      BY <1>1, SpentTyped, DocsTyped, AsksKept, FoundTyped, CountsTyped, JobsTyped, PollerTyped,
         BoundsStep DEF LocalsTyped
<1>4. QED
      BY <1>2, <1>3

\* A request that has not started is untouched
LEMMA IdleStep ==
    TypeOK /\ LocalsTyped /\ Paths /\ JobsKnown /\ Writers =>
        \A r \in Requests : pc[r] = "idle" /\ pc'[r] = "idle" =>
            /\ found'[r] = found[r] /\ ask'[r] = ask[r]
            /\ \A p \in Pages : page'[r][p] = page[r][p]
<1> SUFFICES ASSUME TypeOK, LocalsTyped, Paths, JobsKnown, Writers, NEW r \in Requests, pc[r] = "idle",
                    pc'[r] = "idle"
             PROVE  /\ found'[r] = found[r] /\ ask'[r] = ask[r]
                    /\ \A p \in Pages : page'[r][p] = page[r][p]
    OBVIOUS
<1>0. /\ DOMAIN ask = Requests /\ DOMAIN found = Requests /\ pc \in [Requests -> Steps]
      /\ page \in [Requests -> [Pages -> PageStates]]
      BY DEF TypeOK, LocalsTyped
<1>1. found'[r] = found[r]
      BY <1>0 DEF Writers, Lookup, BatchLookup
<1>2. ask'[r] = ask[r]
  <2>1. ASSUME NEW s \in Requests, TakeSlot(s) \/ BatchAsk(s)
        PROVE  ask'[r] = ask[r]
    <3>1. \E a, b : ask' = [ask EXCEPT ![s] = a] /\ pc' = [pc EXCEPT ![s] = b] /\ b # "idle"
          BY <2>1 DEF TakeSlot, BatchAsk, Goto
    <3>2. QED
          BY <1>0, <3>1
  <2>2. QED
        BY <2>1 DEF Writers
<1>3. ASSUME NEW p \in Pages
      PROVE  page'[r][p] = page[r][p]
  <2>1. page[r][p] = "none"
        BY DEF Paths
  <2>2. ASSUME NEW s \in Requests, Lookup(s) \/ Reserve(s) \/ Prepare(s)
        PROVE  page'[r][p] = page[r][p]
        BY <1>0, <2>2 DEF Lookup, Reserve, Prepare, StartPages
  <2>3. ASSUME NEW s \in Requests, GeminiEnds(s)
        PROVE  page'[r][p] = page[r][p]
    <3>1. gemini[r] = "none"
          BY DEF JobsKnown
    <3>2. s # r
          BY <2>3, <3>1 DEF GeminiEnds
    <3>3. QED
          BY <1>0, <2>3, <3>2 DEF GeminiEnds
  <2>4. ASSUME NEW s \in Requests, NEW q \in Pages,
               StartPage(s, q) \/ DetectFigures(s, q) \/ CallModel(s, q) \/ Collect(s, q)
        PROVE  page'[r][p] = page[r][p]
    <3>1. page[s][q] # "none" /\ \E x : page' = [page EXCEPT ![s][q] = x]
          BY <2>4 DEF StartPage, DetectFigures, CallModel, Collect, SetPage
    <3>2. QED
          BY <1>0, <2>1, <3>1
  <2>5. QED
        BY <2>2, <2>3, <2>4 DEF Writers
<1>4. QED
      BY <1>1, <1>2, <1>3

\* Where one request goes in a step, and that it then still asks for the same
Move(r) ==
    \/ pc'[r] = pc[r]
    \/ Walk(r, pc'[r])
    \/ Handled(r, pc'[r])
    \/ Crash /\ Running(r) /\ pc'[r] = "dead"

LEMMA MoveStep ==
    TypeOK /\ Moves => \A r \in Requests : Move(r)
<1> SUFFICES ASSUME TypeOK, Moves, NEW r \in Requests
             PROVE  Move(r)
    OBVIOUS
<1>1. pc \in [Requests -> Steps]
      BY DEF TypeOK
<1>2. ASSUME NEW s \in Requests, NEW b \in Steps, Goto(s, b), Walk(s, b) \/ Handled(s, b)
      PROVE  Move(r)
  <2>1. CASE s = r
    <3>1. pc'[r] = b
          BY <1>1, <1>2, <2>1 DEF Goto
    <3>2. QED
          BY <1>2, <2>1, <3>1 DEF Move
  <2>2. CASE s # r
        BY <1>1, <1>2, <2>2 DEF Goto, Move
  <2>3. QED
        BY <2>1, <2>2
<1>3. CASE Crash
      BY <1>3 DEF Crash, Move
<1>4. QED
      BY <1>2, <1>3 DEF Moves, Move

LEMMA AskStep ==
    TypeOK /\ LocalsTyped /\ Writers =>
        \A r \in Requests : pc[r] # "idle" \/ pc'[r] = "idle" => ask'[r] = ask[r]
<1> SUFFICES ASSUME TypeOK, LocalsTyped, Writers, NEW r \in Requests,
                    pc[r] # "idle" \/ pc'[r] = "idle"
             PROVE  ask'[r] = ask[r]
    OBVIOUS
<1>1. DOMAIN ask = Requests /\ pc \in [Requests -> Steps]
      BY DEF TypeOK, LocalsTyped
<1>2. ASSUME NEW s \in Requests, TakeSlot(s) \/ BatchAsk(s)
      PROVE  ask'[r] = ask[r]
  <2>1. /\ pc[s] = "idle"
        /\ \E a, b : ask' = [ask EXCEPT ![s] = a] /\ pc' = [pc EXCEPT ![s] = b] /\ b # "idle"
        BY <1>2 DEF TakeSlot, BatchAsk, Goto
  <2>2. QED
        BY <1>1, <2>1
<1>3. QED
      BY <1>2 DEF Writers

LEMMA PathsStep ==
    TypeOK /\ LocalsTyped /\ Paths /\ JobsKnown /\ [Next]_vars => Paths'
<1> SUFFICES ASSUME TypeOK, LocalsTyped, Paths, JobsKnown, [Next]_vars
             PROVE  Paths'
    OBVIOUS
<1>1. Writers /\ Moves
      BY WritersStep, MovesStep
<1>2. ASSUME NEW r \in Requests
      PROVE  /\ pc'[r] # "idle" => ask'[r] \in Asks[r]
             /\ pc'[r] = "idle" =>
                   found'[r] = {} /\ ~ask'[r].batch /\ \A p \in Pages : page'[r][p] = "none"
             /\ pc'[r] \in BatchSteps => ask'[r].batch
             /\ pc'[r] \in PageSteps => ~ask'[r].batch
  <2>1. Move(r)
        BY <1>1, MoveStep
  <2>2. /\ pc[r] # "idle" => ask[r] \in Asks[r]
        /\ pc[r] \in BatchSteps => ask[r].batch
        /\ pc[r] \in PageSteps => ~ask[r].batch
        BY DEF Paths
  <2>3. CASE pc'[r] = "idle"
    <3>1. pc[r] = "idle"
          BY <2>1, <2>3 DEF Move, Walk, Starts, Precheck, PageWalk, BatchWalk, Handled
    <3>2. found[r] = {} /\ ~ask[r].batch /\ \A p \in Pages : page[r][p] = "none"
          BY <3>1 DEF Paths
    <3>3. QED
          BY <1>1, <2>3, <3>1, <3>2, IdleStep DEF BatchSteps, PageSteps
  <2>4. CASE pc[r] = "idle" /\ pc'[r] # "idle"
    <3>1. DOMAIN ask = Requests
          BY DEF LocalsTyped
    <3>2. Starts(r, pc'[r]) \/ Handled(r, pc'[r])
          BY <2>1, <2>4 DEF Move, Walk, Precheck, PageWalk, BatchWalk, Running, Ended
    <3>3. ~Handled(r, pc'[r])
          BY <2>4 DEF Handled, JobsKnown, ReleaseResults, Unlist, FailedJob, InHand, Closing
    <3>4. CASE TakeSlot(r) /\ pc'[r] \in {"refused", "lookup"}
      <4>1. PICK a \in Asks[r] : ~a.batch /\ ask' = [ask EXCEPT ![r] = a]
            BY <3>4 DEF TakeSlot
      <4>2. ask'[r] = a
            BY <3>1, <4>1
      <4>3. QED
            BY <2>4, <3>4, <4>1, <4>2 DEF BatchSteps
    <3>5. CASE BatchAsk(r) /\ pc'[r] = "find"
      <4>1. PICK a \in Asks[r] : a.batch /\ ask' = [ask EXCEPT ![r] = a]
            BY <3>5 DEF BatchAsk
      <4>2. ask'[r] = a
            BY <3>1, <4>1
      <4>3. QED
            BY <2>4, <3>5, <4>1, <4>2 DEF PageSteps
    <3>6. QED
          BY <3>2, <3>3, <3>4, <3>5 DEF Starts
  <2>5. CASE pc[r] # "idle" /\ pc'[r] # "idle"
    <3>1. ask'[r] = ask[r]
          BY <1>1, <2>5, AskStep
    <3>2. CASE pc'[r] \in {pc[r], "dead"}
          BY <2>2, <2>5, <3>1, <3>2 DEF BatchSteps, PageSteps
    <3>3. CASE Precheck(r, pc'[r])
          BY <2>2, <2>5, <3>1, <3>3 DEF Precheck, BatchSteps, PageSteps
    <3>4. CASE PageWalk(r, pc'[r])
          BY <2>2, <2>5, <3>1, <3>4 DEF PageWalk, BatchSteps, PageSteps
    <3>5. CASE BatchWalk(r, pc'[r])
          BY <2>2, <2>5, <3>1, <3>5 DEF BatchWalk, BatchSteps, PageSteps
    <3>6. CASE Handled(r, pc'[r])
      <4>1. ask[r].batch /\ pc'[r] \in {"closing", "done"}
        <5>1. CASE PollRaises /\ pc[By] = "closing" /\ r = By
              BY <2>2, <3>6, <5>1 DEF Handled, BatchSteps
        <5>2. CASE r = By /\ (ReleaseResults \/ Unlist \/ FailedJob)
          <6>1. ppc \in InHand \cup Closing
                BY <5>2 DEF ReleaseResults, Unlist, FailedJob, InHand, Closing
          <6>2. QED
                BY <3>6, <5>2, <6>1 DEF JobsKnown, Handled
        <5>3. QED
              BY <3>6, <5>1, <5>2 DEF Handled
      <4>2. QED
            BY <2>2, <2>5, <3>1, <4>1 DEF BatchSteps, PageSteps
    <3>7. QED
          BY <2>1, <2>5, <3>2, <3>3, <3>4, <3>5, <3>6 DEF Move, Walk, Starts
  <2>6. QED
        BY <2>3, <2>4, <2>5
<1>3. QED
      BY <1>2 DEF Paths

-----------------------------------------------------------------------------
(* Job records                                                              *)

\* What a step may write under a content
Recorded(c) ==
    \/ job'[c] = job[c]
    \/ \E r \in Requests, s \in Statuses, d \in BOOLEAN :
          /\ pc[r] \in {"record", "save", "store"} /\ Content(r) = c /\ job'[c] = Job(r, s, d)
          /\ s = "PENDING" => StoreJob(r) /\ ~d
    \/ job[c] # NoJob /\ job'[c] = [job[c] EXCEPT !.status = "FAILED"]
    \/ PollJob /\ \E j \in jobs :
          /\ c = Content(j.by) /\ job'[c] = [j EXCEPT !.status = GeminiStatus(j.by)]
    \/ /\ ppc \in InHand \cup Closing /\ c = Content(By)
       /\ \E d \in BOOLEAN : job'[c] = [cur EXCEPT !.document = d]

LEMMA RecordedStep ==
    TypeOK /\ Writers => \A c \in Contents : Recorded(c)
<1> SUFFICES ASSUME TypeOK, Writers, NEW c \in Contents
             PROVE  Recorded(c)
    OBVIOUS
<1>1. job \in [Contents -> Jobs \cup {NoJob}] /\ cur \in Jobs
      BY DEF TypeOK
<1>2. ASSUME NEW d, NEW j, SaveJob(d, j)
      PROVE  job'[c] = job[c] \/ (c = d /\ job'[c] = j)
      BY <1>1, <1>2 DEF SaveJob
<1>3. ASSUME NEW r \in Requests, NEW s \in Statuses, NEW d \in BOOLEAN,
             SaveJob(Content(r), Job(r, s, d)), pc[r] \in {"record", "save", "store"},
             s = "PENDING" => StoreJob(r) /\ ~d
      PROVE  Recorded(c)
  <2>1. job'[c] = job[c] \/ (c = Content(r) /\ job'[c] = Job(r, s, d))
        BY <1>2, <1>3
  <2>2. QED
        BY <1>3, <2>1 DEF Recorded
<1>4. ASSUME NEW r \in Requests, DirectJob(r)
      PROVE  Recorded(c)
      BY <1>3, <1>4 DEF DirectJob, Statuses
<1>5. ASSUME NEW r \in Requests, SavePreparing(r)
      PROVE  Recorded(c)
      BY <1>3, <1>5 DEF SavePreparing, Statuses
<1>6. ASSUME NEW r \in Requests, StoreJob(r)
      PROVE  Recorded(c)
  <2>1. SaveJob(Content(r), Job(r, "PENDING", FALSE)) /\ pc[r] = "store"
        BY <1>6 DEF StoreJob
  <2>2. QED
        BY <1>3, <1>6, <2>1 DEF Statuses
<1>7. ASSUME NEW r \in Requests, Mark(r)
      PROVE  Recorded(c)
      BY <1>1, <1>7 DEF Mark, Recorded
<1>8. ASSUME PollJob
      PROVE  Recorded(c)
  <2>1. PICK j \in jobs : SaveJob(Content(j.by), [j EXCEPT !.status = GeminiStatus(j.by)])
        BY <1>8 DEF PollJob
  <2>2. \/ job'[c] = job[c]
        \/ c = Content(j.by) /\ job'[c] = [j EXCEPT !.status = GeminiStatus(j.by)]
        BY <1>2, <2>1
  <2>3. QED
        BY <1>8, <2>2 DEF Recorded
<1>9. ASSUME NEW d \in BOOLEAN, ppc \in InHand \cup Closing,
             SaveJob(Content(By), [cur EXCEPT !.document = d])
      PROVE  Recorded(c)
  <2>1. job'[c] = job[c] \/ (c = Content(By) /\ job'[c] = [cur EXCEPT !.document = d])
        BY <1>2, <1>9
  <2>2. QED
        BY <1>9, <2>1 DEF Recorded
<1>10. ASSUME LinkDocument
       PROVE  Recorded(c)
       BY <1>9, <1>10 DEF LinkDocument, Closing
<1>11. ASSUME FailedJob
       PROVE  Recorded(c)
  <2>1. cur = [cur EXCEPT !.document = cur.document] /\ cur.document \in BOOLEAN
        BY <1>1 DEF Jobs
  <2>2. SaveJob(Content(By), cur) /\ ppc \in InHand \cup Closing
        BY <1>11 DEF FailedJob, InHand
  <2>3. SaveJob(Content(By), [cur EXCEPT !.document = cur.document])
        BY <2>1, <2>2
  <2>4. QED
        BY <1>9, <2>1, <2>2, <2>3
<1>12. QED
       BY <1>4, <1>5, <1>6, <1>7, <1>8, <1>10, <1>11 DEF Writers, Recorded

\* Only the submission lists a job
LEMMA ListedStep ==
    TypeOK /\ JobsKnown /\ Writers =>
        \A r \in Requests : Listed(r)' => Listed(r) \/ StoreJob(r)
<1> SUFFICES ASSUME TypeOK, JobsKnown, Writers, NEW r \in Requests, Listed(r)'
             PROVE  Listed(r) \/ StoreJob(r)
    OBVIOUS
<1>1. CASE Pending(r)' \in jobs'
  <2>1. CASE ListJobs
    <3>1. PICK c \in active : Pending(r) = job[c]
          BY <1>1, <2>1 DEF ListJobs, Pending, Job
    <3>2. QED
          BY <3>1 DEF Listed, TypeOK
  <2>2. CASE PollJob \/ Crash \/ jobs' = jobs
        BY <1>1, <2>2 DEF PollJob, Crash, Pending, Job, Listed
  <2>3. QED
        BY <2>1, <2>2 DEF Writers
<1>2. ASSUME NEW c \in Contents, job'[c] = Pending(r)
      PROVE  Listed(r) \/ StoreJob(r)
  <2>1. Recorded(c) /\ cur \in Jobs
        BY RecordedStep DEF TypeOK
  <2>2. Pending(r).status = "PENDING" /\ Pending(r).by = r
        BY DEF Pending, Job
  <2>3. CASE job'[c] = job[c]
        BY <1>2, <2>3 DEF Listed
  <2>4. ASSUME NEW s \in Requests, NEW st \in Statuses, NEW d \in BOOLEAN,
               job'[c] = Job(s, st, d), st = "PENDING" => StoreJob(s)
        PROVE  StoreJob(r)
        BY <1>2, <2>2, <2>4 DEF Job
  <2>5. ASSUME job[c] # NoJob, job'[c] = [job[c] EXCEPT !.status = "FAILED"]
        PROVE  FALSE
    <3>1. job[c] \in Jobs
          BY <2>5 DEF TypeOK
    <3>2. QED
          BY <1>2, <2>2, <2>5, <3>1 DEF Jobs
  <2>6. ASSUME NEW j \in jobs, job'[c] = [j EXCEPT !.status = GeminiStatus(j.by)]
        PROVE  Listed(r)
    <3>1. j \in Jobs /\ j = Pending(j.by)
          BY <2>6 DEF TypeOK, JobsKnown
    <3>2. job'[c].by = j.by
          BY <2>6, <3>1 DEF Jobs
    <3>3. QED
          BY <1>2, <2>2, <3>1, <3>2 DEF Listed
  <2>7. ASSUME ppc \in InHand \cup Closing, NEW d \in BOOLEAN,
               job'[c] = [cur EXCEPT !.document = d]
        PROVE  FALSE
    <3>1. cur.status # "PENDING"
          BY <2>7 DEF JobsKnown
    <3>2. QED
          BY <1>2, <2>1, <2>2, <2>7, <3>1 DEF Jobs
  <2>8. QED
        BY <2>1, <2>3, <2>4, <2>5, <2>6, <2>7 DEF Recorded
<1>3. Pending(r)' = Pending(r)
      BY DEF Pending, Job
<1>4. QED
      BY <1>1, <1>2, <1>3 DEF Listed

LEMMA BatchKeepsAsk ==
    TypeOK /\ LocalsTyped /\ Paths /\ Writers =>
        \A r \in Requests : ask[r].batch => pc[r] # "idle" /\ ask'[r] = ask[r]
BY AskStep DEF Paths

LEMMA RecordsKnown ==
    TypeOK /\ LocalsTyped /\ Paths /\ JobsKnown /\ Writers =>
        \A c \in Contents : job'[c] # NoJob =>
            /\ ask'[job'[c].by].batch /\ ask'[job'[c].by].content = c
            /\ job'[c].status = "PENDING" => ~job'[c].document
<1> SUFFICES ASSUME TypeOK, LocalsTyped, Paths, JobsKnown, Writers,
                    NEW c \in Contents, job'[c] # NoJob
             PROVE  /\ ask'[job'[c].by].batch /\ ask'[job'[c].by].content = c
                    /\ job'[c].status = "PENDING" => ~job'[c].document
    OBVIOUS
<1>1. Recorded(c) /\ job \in [Contents -> Jobs \cup {NoJob}] /\ cur \in Jobs /\ jobs \subseteq Jobs
      BY RecordedStep DEF TypeOK
<1>2. \A r \in Requests : ask[r].batch => ask'[r] = ask[r]
      BY BatchKeepsAsk
<1>3. ASSUME NEW j \in Jobs, ask[j.by].batch, Content(j.by) = c, job'[c].by = j.by
      PROVE  ask'[job'[c].by].batch /\ ask'[job'[c].by].content = c
      BY <1>2, <1>3 DEF Jobs, Content
<1>4. CASE job[c] # NoJob /\ job'[c] = job[c]
  <2>1. /\ ask[job[c].by].batch /\ Content(job[c].by) = c
        /\ job[c].status = "PENDING" => ~job[c].document
        BY <1>4 DEF JobsKnown
  <2>2. job[c] \in Jobs
        BY <1>1, <1>4
  <2>3. QED
        BY <1>3, <1>4, <2>1, <2>2
<1>5. ASSUME NEW r \in Requests, NEW s \in Statuses, NEW d \in BOOLEAN,
             pc[r] \in {"record", "save", "store"}, Content(r) = c, job'[c] = Job(r, s, d),
             s = "PENDING" => StoreJob(r) /\ ~d
      PROVE  /\ ask'[job'[c].by].batch /\ ask'[job'[c].by].content = c
             /\ job'[c].status = "PENDING" => ~job'[c].document
  <2>1. ask[r].batch
        BY <1>5 DEF Paths, BatchSteps
  <2>2. QED
        BY <1>2, <1>5, <2>1 DEF Job, Content
<1>6. CASE job[c] # NoJob /\ job'[c] = [job[c] EXCEPT !.status = "FAILED"]
  <2>1. ask[job[c].by].batch /\ Content(job[c].by) = c /\ job[c] \in Jobs
        BY <1>1, <1>6 DEF JobsKnown
  <2>2. job'[c].by = job[c].by /\ job'[c].status = "FAILED"
        BY <1>6, <2>1 DEF Jobs
  <2>3. QED
        BY <1>3, <2>1, <2>2
<1>7. ASSUME NEW j \in jobs, c = Content(j.by), job'[c] = [j EXCEPT !.status = GeminiStatus(j.by)]
      PROVE  /\ ask'[job'[c].by].batch /\ ask'[job'[c].by].content = c
             /\ job'[c].status = "PENDING" => ~job'[c].document
  <2>1. j = Pending(j.by) /\ ask[j.by].batch /\ j \in Jobs
        BY <1>1, <1>7 DEF JobsKnown
  <2>2. job'[c].by = j.by /\ ~job'[c].document
        BY <1>7, <2>1 DEF Jobs, Pending, Job
  <2>3. QED
        BY <1>3, <1>7, <2>1, <2>2
<1>8. ASSUME ppc \in InHand \cup Closing, c = Content(By), NEW d \in BOOLEAN,
             job'[c] = [cur EXCEPT !.document = d]
      PROVE  /\ ask'[job'[c].by].batch /\ ask'[job'[c].by].content = c
             /\ job'[c].status = "PENDING" => ~job'[c].document
  <2>1. ask[By].batch /\ cur.status # "PENDING"
        BY <1>8 DEF JobsKnown
  <2>2. job'[c].by = By /\ job'[c].status = cur.status
        BY <1>1, <1>8 DEF Jobs, By
  <2>3. QED
        BY <1>1, <1>3, <1>8, <2>1, <2>2 DEF By
<1>9. QED
      BY <1>1, <1>4, <1>5, <1>6, <1>7, <1>8 DEF Recorded

LEMMA ListKnown ==
    TypeOK /\ LocalsTyped /\ Paths /\ JobsKnown /\ Writers =>
        \A j \in jobs' : j = Pending(j.by) /\ ask'[j.by].batch
<1> SUFFICES ASSUME TypeOK, LocalsTyped, Paths, JobsKnown, Writers, NEW j \in jobs'
             PROVE  j = Pending(j.by) /\ ask'[j.by].batch
    OBVIOUS
<1>1. CASE ListJobs
  <2>1. PICK c \in active : j = job[c] /\ job[c] # NoJob /\ job[c].status = "PENDING"
        BY <1>1 DEF ListJobs
  <2>2. c \in Contents /\ j \in Jobs
        BY <2>1 DEF TypeOK
  <2>3. ask[j.by].batch /\ ~j.document
        BY <2>1, <2>2 DEF JobsKnown
  <2>4. j = Pending(j.by)
        BY <2>1, <2>2, <2>3 DEF Jobs, Pending, Job
  <2>5. QED
        BY <2>2, <2>3, <2>4, BatchKeepsAsk DEF Jobs
<1>2. CASE j \in jobs
      BY <1>2, BatchKeepsAsk DEF JobsKnown, TypeOK, Jobs
<1>3. QED
      BY <1>1, <1>2 DEF Writers, PollJob, Crash

LEMMA JobsFollowed ==
    TypeOK /\ LocalsTyped /\ Paths /\ JobsKnown /\ [Next]_vars =>
        \A r \in Requests :
          /\ Listed(r)' => pc'[r] \in {"activate", "undo", "mark", "submitted", "failed", "dead"}
          /\ gemini'[r] # "none" =>
                pc'[r] \in {"store", "activate", "undo", "mark", "submitted", "failed", "dead",
                            "closing", "done"}
          /\ gemini'[r] \notin {"none", "running"} =>
                pc'[r] \in {"submitted", "failed", "dead", "closing", "done"}
<1> SUFFICES ASSUME TypeOK, LocalsTyped, Paths, JobsKnown, [Next]_vars, NEW r \in Requests
             PROVE  /\ Listed(r)' => pc'[r] \in {"activate", "undo", "mark", "submitted", "failed",
                                                 "dead"}
                    /\ gemini'[r] # "none" =>
                          pc'[r] \in {"store", "activate", "undo", "mark", "submitted", "failed",
                                      "dead", "closing", "done"}
                    /\ gemini'[r] \notin {"none", "running"} =>
                          pc'[r] \in {"submitted", "failed", "dead", "closing", "done"}
    OBVIOUS
<1>1. Writers /\ Move(r)
      BY WritersStep, MovesStep, MoveStep
<1>2. /\ pc \in [Requests -> Steps] /\ DOMAIN gemini = Requests
      BY DEF TypeOK, LocalsTyped
<1>3. /\ Listed(r) => pc[r] \in {"activate", "undo", "mark", "submitted", "failed", "dead"}
      /\ gemini[r] # "none" =>
            pc[r] \in {"store", "activate", "undo", "mark", "submitted", "failed", "dead",
                       "closing", "done"}
      /\ gemini[r] \notin {"none", "running"} =>
            pc[r] \in {"submitted", "failed", "dead", "closing", "done"}
      BY DEF JobsKnown
<1>4. \/ gemini'[r] = gemini[r]
      \/ Submit(r) /\ gemini'[r] = "running" /\ pc'[r] = "store"
      \/ GeminiEnds(r)
  <2>1. ASSUME NEW s \in Requests, Submit(s) \/ GeminiEnds(s)
        PROVE  \/ gemini'[r] = gemini[r]
               \/ Submit(r) /\ gemini'[r] = "running" /\ pc'[r] = "store"
               \/ GeminiEnds(r)
        BY <1>2, <2>1 DEF Submit, GeminiEnds, Goto
  <2>2. QED
        BY <2>1, <1>1 DEF Writers
<1>5. ASSUME Handled(r, pc'[r])
      PROVE  pc'[r] \in {"closing", "done"} /\ ~Listed(r)
  <2>1. CASE r = By /\ (ReleaseResults \/ Unlist \/ FailedJob)
    <3>1. ppc \in InHand \cup Closing
          BY <2>1 DEF ReleaseResults, Unlist, FailedJob, InHand, Closing
    <3>2. QED
          BY <1>5, <2>1, <3>1 DEF JobsKnown, Handled
  <2>2. CASE r = By /\ PollRaises /\ pc[By] = "closing" /\ pc'[r] = "done"
        BY <1>3, <2>2
  <2>3. QED
        BY <1>5, <2>1, <2>2 DEF Handled
<1>6. ASSUME Walk(r, pc'[r])
      PROVE  \/ BatchWalk(r, pc'[r])
             \/ pc[r] \notin {"submit", "store", "activate", "undo", "mark", "submitted", "failed",
                              "dead", "closing", "done"}
      BY <1>6 DEF Walk, Starts, Precheck, PageWalk
<1>7. Listed(r)' => pc'[r] \in {"activate", "undo", "mark", "submitted", "failed", "dead"}
  <2>1. CASE Listed(r)
        BY <1>1, <1>3, <1>5, <1>6, <2>1 DEF Move, BatchWalk
  <2>2. CASE StoreJob(r)
        BY <1>2, <2>2 DEF StoreJob, Goto
  <2>3. QED
        BY <1>1, <2>1, <2>2, ListedStep
<1>8. gemini'[r] # "none" =>
         pc'[r] \in {"store", "activate", "undo", "mark", "submitted", "failed", "dead",
                     "closing", "done"}
  <2>1. CASE gemini[r] # "none"
        BY <1>1, <1>3, <1>5, <1>6, <2>1 DEF Move, BatchWalk
  <2>2. CASE gemini[r] = "none"
        BY <1>4, <2>2 DEF GeminiEnds
  <2>3. QED
        BY <2>1, <2>2
<1>9. gemini'[r] \notin {"none", "running"} =>
         pc'[r] \in {"submitted", "failed", "dead", "closing", "done"}
  <2>1. CASE gemini'[r] = gemini[r]
        BY <1>1, <1>3, <1>5, <1>6, <2>1 DEF Move, BatchWalk, Running, Ended
  <2>2. CASE GeminiEnds(r)
    <3>1. pc' = pc /\ gemini[r] = "running" /\ pc[r] \notin {"store", "activate", "undo", "mark"}
          BY <2>2 DEF GeminiEnds
    <3>2. QED
          BY <1>3, <3>1
  <2>3. QED
        BY <1>4, <2>1, <2>2
<1>10. QED
       BY <1>7, <1>8, <1>9

\* What the poller goes on with is what it had in hand
LEMMA InHandStep ==
    TypeOK /\ [Next]_vars /\ ppc' \in InHand \cup Closing =>
        \/ PollJob /\ UNCHANGED <<pc, gemini>>
        \/ /\ ppc \in InHand \cup Closing /\ cur' = cur
           /\ \/ UNCHANGED <<ppc, cur>>
              \/ ppc = "keep" /\ ppc' \in {"bill", "raised"} /\ UNCHANGED <<job, jobs>>
              \/ ppc = "bill" /\ ppc' \in {"release", "raised"} /\ UNCHANGED <<job, jobs>>
              \/ ReleaseResults /\ ppc = "release" /\ Goto(By, "closing")
              \/ ppc \in Closing /\ ppc' \in Closing /\ UNCHANGED pc
              \/ FailedJob /\ ppc' \in Closing /\ Goto(By, "closing")
<1> SUFFICES ASSUME TypeOK, [Next]_vars, ppc' \in InHand \cup Closing
             PROVE  \/ PollJob /\ UNCHANGED <<pc, gemini>>
                    \/ /\ ppc \in InHand \cup Closing /\ cur' = cur
                       /\ \/ UNCHANGED <<ppc, cur>>
                          \/ ppc = "keep" /\ ppc' \in {"bill", "raised"} /\ UNCHANGED <<job, jobs>>
                          \/ ppc = "bill" /\ ppc' \in {"release", "raised"}
                             /\ UNCHANGED <<job, jobs>>
                          \/ ReleaseResults /\ ppc = "release" /\ Goto(By, "closing")
                          \/ ppc \in Closing /\ ppc' \in Closing /\ UNCHANGED pc
                          \/ FailedJob /\ ppc' \in Closing /\ Goto(By, "closing")
    OBVIOUS
<1> USE DEF InHand, Closing, PollGoto
<1>1. Writers
      BY WritersStep
<1>2. CASE UNCHANGED <<ppc, cur>>
      BY <1>2
<1>3. CASE ListJobs \/ Sleep \/ Unlist \/ Crash
      BY <1>3 DEF ListJobs, Sleep, Unlist, Crash
<1>4. CASE PollJob
      BY <1>4 DEF PollJob, PollerFrame
<1>5. CASE KeepResults
      BY <1>5 DEF KeepResults
<1>6. CASE BillResults
      BY <1>6 DEF BillResults
<1>7. CASE ReleaseResults
      BY <1>7 DEF ReleaseResults
<1>8. CASE MergeAndCreate
      BY <1>8 DEF MergeAndCreate
<1>9. CASE LinkDocument
      BY <1>9 DEF LinkDocument
<1>10. CASE FailedJob
      BY <1>10 DEF FailedJob
<1>11. CASE PollRaises
      BY <1>11 DEF PollRaises
<1>12. QED
      BY <1>1, <1>2, <1>3, <1>4, <1>5, <1>6, <1>7, <1>8, <1>9, <1>10, <1>11 DEF Writers, PollerStep

LEMMA HandKnown ==
    TypeOK /\ LocalsTyped /\ Paths /\ JobsKnown /\ [Next]_vars =>
        (ppc' \in InHand \cup Closing =>
            /\ ask'[By'].batch /\ ~Listed(By)' /\ cur'.status # "PENDING"
            /\ gemini'[By'] \notin {"none", "running"}
            /\ pc'[By'] \in IF ppc' \in Closing THEN {"closing"}
                                                ELSE {"submitted", "failed", "dead"})
<1> SUFFICES ASSUME TypeOK, LocalsTyped, Paths, JobsKnown, [Next]_vars,
                    ppc' \in InHand \cup Closing
             PROVE  /\ ask'[By'].batch /\ ~Listed(By)' /\ cur'.status # "PENDING"
                    /\ gemini'[By'] \notin {"none", "running"}
                    /\ pc'[By'] \in IF ppc' \in Closing THEN {"closing"}
                                                        ELSE {"submitted", "failed", "dead"}
    OBVIOUS
<1>1. Writers
      BY WritersStep
<1>2. /\ pc \in [Requests -> Steps] /\ DOMAIN gemini = Requests /\ jobs \subseteq Jobs
      /\ job \in [Contents -> Jobs \cup {NoJob}]
      BY DEF TypeOK, LocalsTyped
<1>3. ASSUME PollJob, UNCHANGED <<pc, gemini>>, ~UNCHANGED <<ppc, cur>>
      PROVE  /\ ask'[By'].batch /\ ~Listed(By)' /\ cur'.status # "PENDING"
             /\ gemini'[By'] \notin {"none", "running"}
             /\ pc'[By'] \in IF ppc' \in Closing THEN {"closing"}
                                                 ELSE {"submitted", "failed", "dead"}
  <2>1. PICK j \in jobs :
             /\ jobs' = jobs \ {j} /\ SaveJob(Content(j.by), [j EXCEPT !.status = GeminiStatus(j.by)])
             /\ cur' = [j EXCEPT !.status = GeminiStatus(j.by)] /\ ppc' \in {"failed", "keep"}
             /\ cur'.status \in {"SUCCEEDED", "FAILED"}
        BY <1>3 DEF PollJob
  <2>2. j \in Jobs /\ j = Pending(j.by) /\ ask[j.by].batch
        BY <1>2, <2>1 DEF JobsKnown
  <2>3. j.by \in Requests /\ By' = j.by /\ GeminiStatus(j.by) \in {"SUCCEEDED", "FAILED"}
        BY <2>1, <2>2 DEF By, Jobs
  <2>4. gemini[j.by] \notin {"none", "running"}
        BY <2>3 DEF GeminiStatus
  <2>5. Listed(j.by)
        BY <2>1, <2>2 DEF Listed
  <2>6. pc[j.by] \in {"submitted", "failed", "dead"}
        BY <2>3, <2>4, <2>5 DEF JobsKnown
  <2>7. ~Listed(By)'
    <3>1. Pending(j.by) \notin jobs'
          BY <2>1, <2>2
    <3>2. ASSUME NEW c \in Contents, job'[c] = Pending(j.by)
          PROVE  FALSE
      <4>1. job'[c] # [j EXCEPT !.status = GeminiStatus(j.by)]
            BY <2>2, <2>3, <3>2 DEF Jobs, Pending, Job
      <4>2. job'[c] = job[c] /\ c # Content(j.by)
            BY <1>2, <2>1, <3>2, <4>1 DEF SaveJob
      <4>3. job[c].by = j.by /\ job[c] # NoJob
            BY <2>2, <3>2, <4>2, JobAssumption DEF Pending, Job
      <4>4. QED
            BY <4>2, <4>3 DEF JobsKnown
    <3>3. QED
          BY <2>3, <3>1, <3>2 DEF Listed, Pending, Job
  <2>8. ask'[j.by].batch
        BY <1>1, <2>2, <2>3, BatchKeepsAsk
  <2>9. QED
        BY <1>3, <2>1, <2>3, <2>4, <2>6, <2>7, <2>8 DEF Closing
<1>4. ASSUME ppc \in InHand \cup Closing, cur' = cur
      PROVE  /\ By' = By /\ By \in Requests /\ ask'[By].batch /\ ~Listed(By)'
             /\ cur'.status # "PENDING" /\ gemini'[By] \notin {"none", "running"}
  <2>1. /\ ask[By].batch /\ ~Listed(By) /\ cur.status # "PENDING"
        /\ gemini[By] \notin {"none", "running"} /\ pc[By] \in {"closing", "submitted", "failed", "dead"}
        BY <1>4 DEF JobsKnown
  <2>2. By' = By /\ By \in Requests
        BY <1>4, ByTyped DEF By
  <2>3. ~Listed(By)'
    <3>1. ~StoreJob(By)
          BY <2>1 DEF StoreJob
    <3>2. \A r \in Requests : Listed(r)' => Listed(r) \/ StoreJob(r)
          BY <1>1, ListedStep
    <3>3. Pending(By)' = Pending(By)
          BY <2>2 DEF Pending, Job
    <3>4. QED
          BY <2>1, <2>2, <3>1, <3>2, <3>3 DEF Listed, Pending, Job
  <2>4. gemini'[By] = gemini[By]
    <3>1. ASSUME NEW s \in Requests, Submit(s) \/ GeminiEnds(s)
          PROVE  gemini'[By] = gemini[By]
          BY <1>2, <2>1, <2>2, <3>1 DEF Submit, GeminiEnds
    <3>2. QED
          BY <1>1, <3>1 DEF Writers
  <2>5. QED
        BY <1>1, <1>4, <2>1, <2>2, <2>3, <2>4, BatchKeepsAsk
<1>5. ASSUME ppc \in InHand \cup Closing, cur' = cur,
             pc'[By] = pc[By], ppc' \in Closing <=> ppc \in Closing
      PROVE  pc'[By'] \in IF ppc' \in Closing THEN {"closing"}
                                              ELSE {"submitted", "failed", "dead"}
      BY <1>4, <1>5 DEF JobsKnown, InHand, Closing
<1>6. ASSUME ppc \in InHand \cup Closing, UNCHANGED <<ppc, cur>>
      PROVE  pc'[By] = pc[By]
  <2>1. Move(By)
        BY ByTyped, MovesStep, MoveStep
  <2>2. pc[By] \in {"closing", "submitted", "failed", "dead"}
        BY <1>6 DEF JobsKnown
  <2>3. ~Walk(By, pc'[By])
        BY <2>2 DEF Walk, Starts, Precheck, PageWalk, BatchWalk
  <2>4. ~Crash
        BY <1>6 DEF Crash, InHand, Closing
  <2>5. ~Handled(By, pc'[By])
        BY <1>6 DEF Handled, ReleaseResults, Unlist, FailedJob, PollRaises, PollGoto
  <2>6. QED
        BY <2>1, <2>3, <2>4, <2>5 DEF Move
<1>7. ASSUME ppc \in {"keep", "bill"}, ppc' \in {"bill", "raised", "release"}, cur' = cur
      PROVE  pc'[By] = pc[By]
  <2>1. Move(By)
        BY ByTyped, MovesStep, MoveStep
  <2>2. pc[By] \in {"submitted", "failed", "dead"}
        BY <1>7 DEF JobsKnown, InHand, Closing
  <2>3. ~Walk(By, pc'[By])
        BY <2>2 DEF Walk, Starts, Precheck, PageWalk, BatchWalk
  <2>4. ~Crash
        BY <1>7 DEF Crash
  <2>5. ~Handled(By, pc'[By])
        BY <1>7, <2>2 DEF Handled, ReleaseResults, Unlist, FailedJob
  <2>6. QED
        BY <2>1, <2>3, <2>4, <2>5 DEF Move
<1>8. ASSUME ppc \in InHand \cup Closing, cur' = cur, Goto(By, "closing"), ppc' \in Closing
      PROVE  pc'[By'] \in IF ppc' \in Closing THEN {"closing"}
                                              ELSE {"submitted", "failed", "dead"}
      BY <1>2, <1>4, <1>8 DEF Goto
<1>9. ASSUME ReleaseResults, ppc = "release"
      PROVE  ppc' \in Closing
      BY <1>9 DEF ReleaseResults, PollGoto, Closing
<1>10. ASSUME ppc \in InHand \cup Closing, cur' = cur,
              \/ UNCHANGED <<ppc, cur>>
              \/ ppc = "keep" /\ ppc' \in {"bill", "raised"}
              \/ ppc = "bill" /\ ppc' \in {"release", "raised"}
              \/ ReleaseResults /\ ppc = "release" /\ Goto(By, "closing")
              \/ ppc \in Closing /\ ppc' \in Closing /\ UNCHANGED pc
              \/ FailedJob /\ ppc' \in Closing /\ Goto(By, "closing")
       PROVE  pc'[By'] \in IF ppc' \in Closing THEN {"closing"}
                                               ELSE {"submitted", "failed", "dead"}
  <2>1. CASE UNCHANGED <<ppc, cur>>
        BY <1>5, <1>6, <1>10, <2>1
  <2>2. CASE ppc \in {"keep", "bill"} /\ ppc' \in {"bill", "raised", "release"}
        BY <1>5, <1>7, <1>10, <2>2 DEF Closing
  <2>3. CASE Goto(By, "closing") /\ ppc' \in Closing
        BY <1>8, <1>10, <2>3
  <2>4. CASE ppc \in Closing /\ ppc' \in Closing /\ UNCHANGED pc
        BY <1>5, <1>10, <2>4
  <2>5. QED
        BY <1>9, <1>10, <2>1, <2>2, <2>3, <2>4
<1>11. \/ PollJob /\ UNCHANGED <<pc, gemini>>
       \/ /\ ppc \in InHand \cup Closing /\ cur' = cur
          /\ \/ UNCHANGED <<ppc, cur>>
             \/ ppc = "keep" /\ ppc' \in {"bill", "raised"}
             \/ ppc = "bill" /\ ppc' \in {"release", "raised"}
             \/ ReleaseResults /\ ppc = "release" /\ Goto(By, "closing")
             \/ ppc \in Closing /\ ppc' \in Closing /\ UNCHANGED pc
             \/ FailedJob /\ ppc' \in Closing /\ Goto(By, "closing")
       BY InHandStep
<1>12. CASE ppc \in InHand \cup Closing /\ cur' = cur
  <2>1. ~PollJob
        BY <1>12 DEF PollJob, InHand, Closing
  <2>2. pc'[By'] \in IF ppc' \in Closing THEN {"closing"} ELSE {"submitted", "failed", "dead"}
        BY <1>10, <1>11, <2>1
  <2>3. QED
        BY <1>4, <1>12, <2>2
<1>13. CASE PollJob /\ UNCHANGED <<pc, gemini>>
  <2>1. ~UNCHANGED <<ppc, cur>>
        BY <1>13 DEF PollJob, InHand, Closing
  <2>2. QED
        BY <1>3, <1>13, <2>1
<1>14. QED
       BY <1>11, <1>12, <1>13

LEMMA JobsKnownStep ==
    TypeOK /\ LocalsTyped /\ Paths /\ JobsKnown /\ [Next]_vars => JobsKnown'
<1> SUFFICES ASSUME TypeOK, LocalsTyped, Paths, JobsKnown, [Next]_vars
             PROVE  JobsKnown'
    OBVIOUS
<1>1. Writers
      BY WritersStep
<1>2. \A c \in Contents : job'[c] # NoJob =>
          /\ ask'[job'[c].by].batch /\ ask'[job'[c].by].content = c
          /\ job'[c].status = "PENDING" => ~job'[c].document
      BY <1>1, RecordsKnown
<1>3. \A j \in jobs' : j = Pending(j.by) /\ ask'[j.by].batch
      BY <1>1, ListKnown
<1>4. \A r \in Requests :
          /\ Listed(r)' => pc'[r] \in {"activate", "undo", "mark", "submitted", "failed", "dead"}
          /\ gemini'[r] # "none" =>
                pc'[r] \in {"store", "activate", "undo", "mark", "submitted", "failed", "dead",
                            "closing", "done"}
          /\ gemini'[r] \notin {"none", "running"} =>
                pc'[r] \in {"submitted", "failed", "dead", "closing", "done"}
      BY JobsFollowed
<1>5. ppc' \in InHand \cup Closing =>
            /\ ask'[By'].batch /\ ~Listed(By)' /\ cur'.status # "PENDING"
            /\ gemini'[By'] \notin {"none", "running"}
            /\ pc'[By'] \in IF ppc' \in Closing THEN {"closing"}
                                                ELSE {"submitted", "failed", "dead"}
      BY HandKnown
<1>6. QED
      BY <1>2, <1>3, <1>4, <1>5 DEF JobsKnown, Pending, Job, Content

-----------------------------------------------------------------------------
(* Slots and reservations                                                   *)

Holds(r) == ~ask[r].batch /\ (pc[r] \in Holding \cup {"refused"} \/ r \in leaked)

LeakedEnded == \A r \in leaked : pc[r] \in {"rejected", "done", "dead"} /\ ~ask[r].batch

\* A slot changes hands only when it is taken or given back
LEMMA HoldersStep ==
    ASSUME TypeOK, LocalsTyped, Paths, JobsKnown, LeakedEnded, [Next]_vars, NEW r \in Requests
    PROVE  /\ Holds(r)' => Holds(r) \/ TakeSlot(r)
           /\ Holds(r) => Holds(r)' \/ Refuse(r) \/ GiveBack(r)
           /\ Holds(r) => ask'[r] = ask[r] /\ pc[r] # "idle"
           /\ pc'[r] \in Holding /\ ~ask'[r].batch =>
                 TakeSlot(r) \/ (pc[r] \in Holding /\ ~ask[r].batch /\ ask'[r] = ask[r])
           /\ r \in leaked' => pc'[r] \in {"rejected", "done", "dead"} /\ ~ask'[r].batch
<1>1. Writers /\ Move(r)
      BY WritersStep, MovesStep, MoveStep
<1>2. /\ DOMAIN ask = Requests /\ pc \in [Requests -> Steps] /\ leaked \subseteq Requests
      BY DEF TypeOK, LocalsTyped
<1>3. /\ pc[r] = "idle" => ~ask[r].batch /\ r \notin leaked
      /\ pc[r] \in BatchSteps => ask[r].batch
      /\ pc[r] \in PageSteps => ~ask[r].batch
      /\ pc[r] # "idle" \/ pc'[r] = "idle" => ask'[r] = ask[r]
      BY <1>1, AskStep DEF Paths, LeakedEnded
<1>4. ASSUME Handled(r, pc'[r])
      PROVE  ask[r].batch /\ pc[r] # "idle" /\ pc'[r] \in {"closing", "done"}
  <2>1. CASE r = By /\ (ReleaseResults \/ Unlist \/ FailedJob)
    <3>1. ppc \in InHand \cup Closing
          BY <2>1 DEF ReleaseResults, Unlist, FailedJob, InHand, Closing
    <3>2. QED
          BY <1>3, <1>4, <2>1, <3>1 DEF JobsKnown, Handled
  <2>2. CASE r = By /\ PollRaises /\ pc[By] = "closing" /\ pc'[r] = "done"
        BY <1>3, <2>2 DEF BatchSteps
  <2>3. QED
        BY <1>4, <2>1, <2>2 DEF Handled
<1>5. Starts(r, pc'[r]) => TakeSlot(r) \/ (BatchAsk(r) /\ ask'[r].batch)
      BY <1>2 DEF Starts, BatchAsk
<1>6. r \in leaked' => \/ r \in leaked
                       \/ /\ ~ask[r].batch /\ pc'[r] \in {"rejected", "done", "dead"}
                          /\ pc[r] \in Holding \cup {"refused"}
  <2>1. CASE leaked' = leaked
        BY <2>1
  <2>2. ASSUME NEW s \in Requests, CheckAvailable(s) \/ CheckLimit(s)
        PROVE  r \in leaked' => \/ r \in leaked
                                \/ /\ ~ask[r].batch /\ pc'[r] \in {"rejected", "done", "dead"}
                                   /\ pc[r] \in Holding \cup {"refused"}
        BY <1>2, <2>2 DEF CheckAvailable, CheckLimit, Reject, Goto, history, Holding
  <2>3. ASSUME NEW s \in Requests, LookupFails(s)
        PROVE  r \in leaked' => \/ r \in leaked
                                \/ /\ ~ask[r].batch /\ pc'[r] \in {"rejected", "done", "dead"}
                                   /\ pc[r] \in Holding \cup {"refused"}
    <3>1. pc[s] = "find" => ask[s].batch
          BY DEF Paths, BatchSteps
    <3>2. QED
          BY <1>2, <2>3, <3>1 DEF LookupFails, Reject, Goto, Holding
  <2>4. ASSUME NEW s \in Requests, GiveBackFails(s)
        PROVE  r \in leaked' => \/ r \in leaked
                                \/ /\ ~ask[r].batch /\ pc'[r] \in {"rejected", "done", "dead"}
                                   /\ pc[r] \in Holding \cup {"refused"}
        BY <1>2, <1>3, <2>4 DEF GiveBackFails, Goto, Holding, PageSteps
  <2>5. ASSUME Crash
        PROVE  r \in leaked' => \/ r \in leaked
                                \/ /\ ~ask[r].batch /\ pc'[r] \in {"rejected", "done", "dead"}
                                   /\ pc[r] \in Holding \cup {"refused"}
        BY <2>5 DEF Crash, Holding, Running, Ended
  <2>6. QED
        BY <1>1, <2>1, <2>2, <2>3, <2>4, <2>5 DEF Writers
<1>7. leaked \subseteq leaked'
      BY <1>1 DEF Writers, CheckAvailable, CheckLimit, LookupFails, Reject, GiveBackFails, Crash,
                  history
<1>8. r \in leaked => pc'[r] = pc[r] /\ ask'[r] = ask[r] /\ pc[r] \in {"rejected", "done", "dead"}
                      /\ ~ask[r].batch
  <2>1. r \in leaked => pc[r] \in {"rejected", "done", "dead"} /\ ~ask[r].batch
        BY DEF LeakedEnded
  <2>2. r \in leaked => pc'[r] = pc[r]
        BY <1>1, <1>4, <2>1 DEF Move, Walk, Starts, Precheck, PageWalk, BatchWalk, Running, Ended
  <2>3. QED
        BY <1>3, <2>1, <2>2
<1>9. pc'[r] \in Holding \cup {"refused"} /\ ~ask'[r].batch =>
         TakeSlot(r) \/ (pc[r] \in Holding \cup {"refused"} /\ ~ask[r].batch /\ ask'[r] = ask[r])
  <2>1. CASE pc'[r] = pc[r]
        BY <1>3, <2>1 DEF Holding
  <2>2. CASE Starts(r, pc'[r])
        BY <1>5, <2>2
  <2>3. CASE Precheck(r, pc'[r])
        BY <1>3, <2>3 DEF Precheck, Holding
  <2>4. CASE PageWalk(r, pc'[r])
        BY <1>3, <2>4 DEF PageWalk, Holding
  <2>5. CASE BatchWalk(r, pc'[r])
        BY <1>3, <2>5 DEF BatchWalk, Holding, BatchSteps
  <2>6. CASE Handled(r, pc'[r]) \/ pc'[r] = "dead"
        BY <1>4, <2>6 DEF Holding
  <2>7. QED
        BY <1>1, <2>1, <2>2, <2>3, <2>4, <2>5, <2>6 DEF Move, Walk
<1>10. pc'[r] \in Holding /\ ~ask'[r].batch =>
          TakeSlot(r) \/ (pc[r] \in Holding /\ ~ask[r].batch /\ ask'[r] = ask[r])
  <2>1. CASE pc[r] # "refused"
        BY <1>9, <2>1
  <2>2. CASE pc[r] = "refused"
        BY <1>1, <1>4, <2>2 DEF Move, Walk, Starts, Precheck, PageWalk, BatchWalk, Holding
  <2>3. QED
        BY <2>1, <2>2
<1>11. Holds(r) => Holds(r)' \/ Refuse(r) \/ GiveBack(r)
  <2>1. CASE r \in leaked
        BY <1>7, <1>8, <2>1 DEF Holds
  <2>2. CASE ~ask[r].batch /\ pc[r] \in Holding \cup {"refused"}
    <3>1. ask'[r] = ask[r]
          BY <1>3, <2>2 DEF Holding
    <3>2. CASE pc'[r] = pc[r]
          BY <2>2, <3>1, <3>2 DEF Holds
    <3>3. CASE Precheck(r, pc'[r])
      <4>1. CASE pc'[r] = "rejected"
            BY <1>2, <2>2, <3>1, <3>3, <4>1
            DEF Precheck, CheckAvailable, CheckLimit, Reject, Goto, Holds
      <4>2. CASE pc'[r] # "rejected"
            BY <2>2, <3>1, <3>3, <4>2 DEF Precheck, Holds, Holding
      <4>3. QED
            BY <4>1, <4>2
    <3>4. CASE PageWalk(r, pc'[r])
      <4>1. CASE LookupFails(r) \/ GiveBackFails(r)
            BY <2>2, <3>1, <4>1 DEF LookupFails, GiveBackFails, Reject, Holds
      <4>2. CASE ~LookupFails(r) /\ ~GiveBackFails(r)
            BY <2>2, <3>1, <3>4, <4>2 DEF PageWalk, Holds, Holding
      <4>3. QED
            BY <4>1, <4>2
    <3>5. CASE Crash /\ Running(r) /\ pc'[r] = "dead"
          BY <2>2, <3>1, <3>5 DEF Crash, Holds
    <3>6. CASE Starts(r, pc'[r]) \/ BatchWalk(r, pc'[r]) \/ Handled(r, pc'[r])
          BY <1>3, <1>4, <2>2, <3>6 DEF Starts, BatchWalk, Holding, BatchSteps
    <3>7. QED
          BY <1>1, <3>2, <3>3, <3>4, <3>5, <3>6 DEF Move, Walk
  <2>3. QED
        BY <2>1, <2>2 DEF Holds
<1>12. Holds(r)' => Holds(r) \/ TakeSlot(r)
       BY <1>6, <1>8, <1>9 DEF Holds
<1>13. Holds(r) => ask'[r] = ask[r] /\ pc[r] # "idle"
       BY <1>3 DEF Holds, Holding
<1>14. r \in leaked' => pc'[r] \in {"rejected", "done", "dead"} /\ ~ask'[r].batch
       BY <1>3, <1>6, <1>8 DEF Holding
<1>15. QED
       BY <1>10, <1>11, <1>12, <1>13, <1>14

LEMMA HoldersFinite ==
    /\ \A u : IsFiniteSet(Holders(u)) /\ Cardinality(Holders(u)) \in Nat
    /\ \A u : Active(u) \subseteq Holders(u) /\ IsFiniteSet(Active(u))
              /\ Cardinality(Active(u)) \in Nat /\ Cardinality(Active(u)) <= Cardinality(Holders(u))
<1>1. IsFiniteSet(Requests)
      BY ExtractionAssumption
<1>2. ASSUME NEW u
      PROVE  Holders(u) \subseteq Requests /\ Active(u) \subseteq Holders(u)
      BY DEF Holders, Active
<1>3. QED
      BY <1>1, <1>2, FS_Subset, FS_CardinalityType

\* The users whose holders stay, and those who get one more or one less
LEMMA SlotsStep ==
    TypeOK /\ LocalsTyped /\ Paths /\ JobsKnown /\ SlotsCounted /\ [Next]_vars => SlotsCounted'
<1> SUFFICES ASSUME TypeOK, LocalsTyped, Paths, JobsKnown, SlotsCounted, [Next]_vars
             PROVE  SlotsCounted'
    OBVIOUS
<1>1. Writers
      BY WritersStep
<1>2. LeakedEnded
      BY DEF SlotsCounted, LeakedEnded
<1>3. ASSUME NEW r \in Requests
      PROVE  /\ Holds(r)' => Holds(r) \/ TakeSlot(r)
             /\ Holds(r) => Holds(r)' \/ Refuse(r) \/ GiveBack(r)
             /\ Holds(r) => ask'[r] = ask[r] /\ pc[r] # "idle"
             /\ pc'[r] \in Holding /\ ~ask'[r].batch =>
                   TakeSlot(r) \/ (pc[r] \in Holding /\ ~ask[r].batch /\ ask'[r] = ask[r])
             /\ r \in leaked' => pc'[r] \in {"rejected", "done", "dead"} /\ ~ask'[r].batch
      BY <1>2, HoldersStep
<1>4. /\ \A r \in leaked' : pc'[r] \in {"rejected", "done", "dead"} /\ ~ask'[r].batch
  <2>1. leaked' \subseteq Requests
        BY TypedStep DEF LocalsTyped
  <2>2. QED
        BY <1>3, <2>1
<1>5. /\ slots \in [Users -> Int] /\ DOMAIN ask = Requests /\ pc \in [Requests -> Steps]
      /\ MaxSlots \in Nat
      BY ExtractionAssumption DEF TypeOK, LocalsTyped
<1>6. /\ \A u : Holders(u) = {r \in Requests : User(r) = u /\ Holds(r)}
      /\ \A u : Holders(u)' = {r \in Requests : ask'[r].user = u /\ Holds(r)'}
      /\ \A u : Active(u)' = {r \in Requests : ask'[r].user = u /\ pc'[r] \in Holding /\ ~ask'[r].batch}
      BY DEF Holders, Holds, Active, User
<1>7. \A u \in Users \ lapsed : /\ slots[u] = Cardinality(Holders(u))
                                /\ Cardinality(Active(u)) <= MaxSlots
      BY DEF SlotsCounted
<1>8. /\ \A u : IsFiniteSet(Holders(u)) /\ Cardinality(Holders(u)) \in Nat
      /\ \A u : Active(u) \subseteq Holders(u) /\ IsFiniteSet(Active(u))
                /\ Cardinality(Active(u)) \in Nat /\ Cardinality(Active(u)) <= Cardinality(Holders(u))
      BY HoldersFinite
<1>9. lapsed \subseteq lapsed'
      BY <1>1 DEF Writers, LapseSlots
<1>10. ASSUME NEW u \in Users, u \notin lapsed', \A r \in Requests : TakeSlot(r) => ask'[r].user # u
       PROVE  Cardinality(Active(u)') <= MaxSlots
  <2>1. Active(u)' \subseteq Active(u)
        BY <1>3, <1>6, <1>10 DEF Active, User
  <2>2. Cardinality(Active(u)') <= Cardinality(Active(u)) /\ Cardinality(Active(u)') \in Nat
        BY <1>8, <2>1, FS_Subset, FS_CardinalityType
  <2>3. QED
        BY <1>5, <1>7, <1>8, <1>9, <1>10, <2>2
<1>11. ASSUME NEW u \in Users, u \notin lapsed', slots'[u] = slots[u],
              \A r \in Requests : TakeSlot(r) => ask'[r].user # u,
              \A r \in Requests : Refuse(r) \/ GiveBack(r) => User(r) # u
       PROVE  slots'[u] = Cardinality(Holders(u)') /\ Cardinality(Active(u)') <= MaxSlots
  <2>1. Holders(u)' = Holders(u)
    <3>1. ASSUME NEW r \in Requests
          PROVE  (ask'[r].user = u /\ Holds(r)') <=> (User(r) = u /\ Holds(r))
          BY <1>3, <1>11 DEF User
    <3>2. QED
          BY <1>6, <3>1
  <2>2. QED
        BY <1>7, <1>9, <1>10, <1>11, <2>1
<1>12. ASSUME NEW r \in Requests, TakeSlot(r), NEW u \in Users, u \notin lapsed'
       PROVE  slots'[u] = Cardinality(Holders(u)') /\ Cardinality(Active(u)') <= MaxSlots
  <2>1. PICK a \in Asks[r] : /\ ask' = [ask EXCEPT ![r] = a] /\ ~a.batch
                             /\ slots' = [slots EXCEPT ![a.user] = @ + 1]
                             /\ Goto(r, IF slots'[a.user] > MaxSlots THEN "refused" ELSE "lookup")
        BY <1>12 DEF TakeSlot
  <2>2. a.user \in Users /\ pc[r] = "idle" /\ ask'[r] = a /\ leaked' = leaked
        BY <1>5, <1>12, <2>1, AsksTyped DEF TakeSlot, history
  <2>3. \A s \in Requests \ {r} : ~TakeSlot(s) /\ ~Refuse(s) /\ ~GiveBack(s)
    <3>1. pc'[r] # pc[r]
          BY <1>5, <2>1, <2>2 DEF Goto
    <3>2. QED
          BY <1>5, <3>1 DEF TakeSlot, Refuse, GiveBack, Goto
  <2>4. ~Refuse(r) /\ ~GiveBack(r) /\ ~Holds(r)
        BY <1>3, <2>2 DEF Refuse, GiveBack
  <2>5. CASE u # a.user
    <3>1. \A s \in Requests : TakeSlot(s) => ask'[s].user # u
          BY <2>2, <2>3, <2>5
    <3>2. \A s \in Requests : Refuse(s) \/ GiveBack(s) => User(s) # u
          BY <2>3, <2>4
    <3>3. slots'[u] = slots[u]
          BY <1>5, <2>1, <2>5
    <3>4. QED
          BY <1>11, <1>12, <3>1, <3>2, <3>3
  <2>6. CASE u = a.user
    <3>1. Holds(r)'
      <4>1. pc'[r] \in {"refused", "lookup"}
            BY <1>5, <2>1 DEF Goto
      <4>2. QED
            BY <2>1, <2>2, <4>1 DEF Holds, Holding
    <3>2. Holders(u)' = Holders(u) \cup {r} /\ r \notin Holders(u)
      <4>1. ASSUME NEW s \in Requests, s # r
            PROVE  (ask'[s].user = u /\ Holds(s)') <=> (User(s) = u /\ Holds(s))
            BY <1>3, <2>3, <4>1 DEF User
      <4>2. QED
            BY <1>6, <2>2, <2>4, <2>6, <3>1, <4>1
    <3>3. Cardinality(Holders(u)') = Cardinality(Holders(u)) + 1
          BY <1>8, <3>2, FS_AddElement
    <3>4. slots'[u] = Cardinality(Holders(u)')
          BY <1>5, <1>7, <1>9, <1>12, <2>1, <2>6, <3>3
    <3>5. CASE slots'[u] > MaxSlots
      <4>1. pc'[r] = "refused"
            BY <1>5, <2>1, <2>6, <3>5 DEF Goto
      <4>2. Active(u)' \subseteq Active(u)
            BY <1>3, <1>6, <2>3, <4>1 DEF Active, User, Holding
      <4>3. Cardinality(Active(u)') <= Cardinality(Active(u)) /\ Cardinality(Active(u)') \in Nat
            BY <1>8, <4>2, FS_Subset, FS_CardinalityType
      <4>4. QED
            BY <1>5, <1>7, <1>8, <1>9, <1>12, <3>4, <4>3
    <3>6. CASE slots'[u] <= MaxSlots
      <4>1. Cardinality(Active(u)') <= Cardinality(Holders(u)')
            /\ Cardinality(Active(u)') \in Nat
        <5>1. Active(u)' \subseteq Holders(u)'
              BY <1>6 DEF Holds
        <5>2. IsFiniteSet(Holders(u)')
              BY <1>8, <3>2, FS_AddElement
        <5>3. QED
              BY <5>1, <5>2, FS_Subset, FS_CardinalityType
      <4>2. QED
            BY <1>5, <3>3, <3>4, <3>6, <4>1, <1>8
    <3>7. slots'[u] \in Int
          BY <3>3, <3>4, <1>8
    <3>8. QED
          BY <1>5, <3>4, <3>5, <3>6, <3>7
  <2>7. QED
        BY <2>5, <2>6
<1>13. ASSUME NEW r \in Requests, Refuse(r) \/ GiveBack(r), NEW u \in Users, u \notin lapsed'
       PROVE  slots'[u] = Cardinality(Holders(u)') /\ Cardinality(Active(u)') <= MaxSlots
  <2>1. /\ slots' = [slots EXCEPT ![User(r)] = @ - 1]
        /\ pc' = [pc EXCEPT ![r] = IF Refuse(r) THEN "rejected" ELSE "release"]
        /\ pc[r] \in {"refused", "finally"} /\ leaked' = leaked /\ ask' = ask
    <3>1. CASE Refuse(r)
          BY <3>1 DEF Refuse, Goto, history
    <3>2. CASE GiveBack(r) /\ ~Refuse(r)
          BY <3>2 DEF GiveBack, Goto, TaskFrame, history
    <3>3. QED
          BY <1>13, <3>1, <3>2
  <2>2. \A s \in Requests : ~TakeSlot(s)
        BY <1>5, <2>1 DEF TakeSlot, Goto
  <2>3. \A s \in Requests \ {r} : ~Refuse(s) /\ ~GiveBack(s)
        BY <1>5, <2>1 DEF Refuse, GiveBack, Goto
  <2>4. Holds(r) /\ ~Holds(r)' /\ User(r) \in Users
    <3>1. ~ask[r].batch
          BY <2>1 DEF Paths, PageSteps
    <3>2. r \notin leaked
          BY <1>2, <2>1 DEF LeakedEnded
    <3>3. pc'[r] \in {"rejected", "release"}
          BY <1>5, <2>1
    <3>4. User(r) \in Users
          BY <2>1, AskTyped
    <3>5. QED
          BY <2>1, <3>1, <3>2, <3>3, <3>4 DEF Holds, Holding
  <2>5. CASE u # User(r)
    <3>1. slots'[u] = slots[u]
          BY <1>5, <2>1, <2>5
    <3>2. \A s \in Requests : Refuse(s) \/ GiveBack(s) => User(s) # u
          BY <2>3, <2>5
    <3>3. QED
          BY <1>11, <1>13, <2>2, <3>1, <3>2
  <2>6. CASE u = User(r)
    <3>1. Holders(u)' = Holders(u) \ {r} /\ r \in Holders(u)
      <4>1. ASSUME NEW s \in Requests, s # r
            PROVE  (ask'[s].user = u /\ Holds(s)') <=> (User(s) = u /\ Holds(s))
            BY <1>3, <2>1, <2>2, <2>3, <4>1 DEF User
      <4>2. QED
            BY <1>6, <2>4, <2>6, <4>1
    <3>2. Cardinality(Holders(u)') = Cardinality(Holders(u)) - 1
          BY <1>8, <3>1, FS_RemoveElement
    <3>3. slots'[u] = Cardinality(Holders(u)')
          BY <1>5, <1>7, <1>9, <1>13, <2>1, <2>6, <3>2
    <3>4. Cardinality(Active(u)') <= MaxSlots
          BY <1>10, <1>13, <2>2
    <3>5. QED
          BY <3>3, <3>4
  <2>7. QED
        BY <2>5, <2>6
<1>14. ASSUME NEW v \in Users, LapseSlots(v), NEW u \in Users, u \notin lapsed'
       PROVE  slots'[u] = Cardinality(Holders(u)') /\ Cardinality(Active(u)') <= MaxSlots
  <2>1. u # v /\ slots'[u] = slots[u] /\ pc' = pc /\ ask' = ask
        BY <1>5, <1>14 DEF LapseSlots, locals
  <2>2. \A r \in Requests : ~TakeSlot(r) /\ ~Refuse(r) /\ ~GiveBack(r)
        BY <1>5, <2>1 DEF TakeSlot, Refuse, GiveBack, Goto
  <2>3. QED
        BY <1>11, <1>14, <2>1, <2>2
<1>15. ASSUME slots' = slots, NEW u \in Users, u \notin lapsed'
       PROVE  slots'[u] = Cardinality(Holders(u)') /\ Cardinality(Active(u)') <= MaxSlots
  <2>1. \A v \in Users : slots[v] + 1 # slots[v] /\ slots[v] - 1 # slots[v]
        BY <1>5
  <2>2. ASSUME NEW r \in Requests, TakeSlot(r)
        PROVE  FALSE
    <3>1. PICK a \in Asks[r] : slots' = [slots EXCEPT ![a.user] = @ + 1]
          BY <2>2 DEF TakeSlot
    <3>2. a.user \in Users
          BY AsksTyped
    <3>3. QED
          BY <1>5, <1>15, <2>1, <3>1, <3>2
  <2>3. ASSUME NEW r \in Requests, Refuse(r) \/ GiveBack(r)
        PROVE  FALSE
    <3>1. slots' = [slots EXCEPT ![User(r)] = @ - 1] /\ pc[r] # "idle"
          BY <2>3 DEF Refuse, GiveBack
    <3>2. User(r) \in Users
          BY <3>1, AskTyped
    <3>3. QED
          BY <1>5, <1>15, <2>1, <3>1, <3>2
  <2>4. QED
        BY <1>11, <1>15, <2>2, <2>3
<1>16. \A u \in Users \ lapsed' : slots'[u] = Cardinality(Holders(u)')
                                  /\ Cardinality(Active(u)') <= MaxSlots
       BY <1>1, <1>12, <1>13, <1>14, <1>15 DEF Writers
<1>17. QED
       BY <1>4, <1>16 DEF SlotsCounted

\* A request stops relying on its reservation when it releases it, or by a failure
LEMMA RelyingStep ==
    ASSUME TypeOK, LocalsTyped, Paths, JobsKnown, [Next]_vars, NEW r \in Requests,
           Relying(r), faults' = 0, crashes' = 0
    PROVE  /\ ask'[r] = ask[r] /\ User(r) \in Users /\ Content(r) \in Contents
           /\ Relying(r)' \/ reserved'[User(r)][Content(r)] = 0
<1>1. Writers /\ Move(r) /\ LocalsTyped'
      BY WritersStep, MovesStep, MoveStep, TypedStep
<1>2. pc[r] # "idle" /\ ask'[r] = ask[r] /\ User(r) \in Users /\ Content(r) \in Contents
      BY <1>1, AskStep, AskTyped DEF Relying
<1> SUFFICES Relying(r)' \/ reserved'[User(r)][Content(r)] = 0
    BY <1>2
<1>3. pc \in [Requests -> Steps] /\ reserved \in [Users -> [Contents -> Nat]]
      BY DEF TypeOK, Hashes
<1>4. ~Fault /\ ~Crash
      BY <1>1 DEF LocalsTyped, Fault, Crash
<1>5. CASE pc'[r] = pc[r]
      BY <1>5 DEF Relying
<1>6. ASSUME reserved' = [reserved EXCEPT ![User(r)] = ReleaseReservation(@, Content(r))]
      PROVE  reserved'[User(r)][Content(r)] = 0
      BY <1>2, <1>3, <1>6 DEF ReleaseReservation
<1>7. CASE Precheck(r, pc'[r])
      BY <1>7 DEF Precheck, Relying
<1>8. CASE PageWalk(r, pc'[r])
  <2>1. CASE Release(r)
        BY <1>6, <2>1 DEF Release, ReleaseOf
  <2>2. CASE ~Release(r)
        BY <1>4, <1>8, <2>2 DEF PageWalk, Relying, GiveBackFails
  <2>3. QED
        BY <2>1, <2>2
<1>9. CASE BatchWalk(r, pc'[r])
  <2>1. CASE Undo(r)
        BY <1>6, <2>1 DEF Undo
  <2>2. CASE ~Undo(r)
        BY <1>4, <1>9, <2>2 DEF BatchWalk, Relying, SaveFails
  <2>3. QED
        BY <2>1, <2>2
<1>10. CASE Handled(r, pc'[r])
  <2>1. CASE r = By /\ (ReleaseResults \/ FailedJob)
        BY <1>6, <2>1 DEF ReleaseResults, FailedJob, ReleaseOf
  <2>2. CASE r = By /\ Unlist
    <3>1. pc[r] = "closing"
          BY <2>2 DEF Unlist, JobsKnown, Closing
    <3>2. QED
          BY <3>1 DEF Relying
  <2>3. CASE r = By /\ PollRaises
        BY <1>4, <2>3 DEF PollRaises
  <2>4. QED
        BY <1>10, <2>1, <2>2, <2>3 DEF Handled
<1>11. QED
       BY <1>1, <1>2, <1>4, <1>5, <1>7, <1>8, <1>9, <1>10 DEF Move, Walk, Starts

LEMMA OwnedStep ==
    TypeOK /\ LocalsTyped /\ Paths /\ JobsKnown /\ ReservationsOwned /\ [Next]_vars =>
        ReservationsOwned'
<1> SUFFICES ASSUME TypeOK, LocalsTyped, Paths, JobsKnown, ReservationsOwned, [Next]_vars,
                    NEW u \in Users, NEW c \in Contents, reserved'[u][c] > 0,
                    ~(crashes' > 0), ~(faults' > 0)
             PROVE  \E r \in Requests : ask'[r].user = u /\ ask'[r].content = c /\ Relying(r)'
    BY DEF ReservationsOwned, User, Content
<1>1. Writers /\ LocalsTyped'
      BY WritersStep, TypedStep
<1>2. faults' = 0 /\ crashes' = 0 /\ faults = 0 /\ crashes = 0
  <2>1. faults' >= faults /\ crashes' >= crashes
        BY BoundsStep
  <2>2. faults' \in Nat /\ crashes' \in Nat /\ faults \in Nat /\ crashes \in Nat
        BY <1>1 DEF LocalsTyped
  <2>3. QED
        BY <2>1, <2>2
<1>3. reserved \in [Users -> [Contents -> Nat]] /\ pc \in [Requests -> Steps]
      BY DEF TypeOK, Hashes
<1>4. ASSUME reserved[u][c] > 0
      PROVE  \E r \in Requests : ask'[r].user = u /\ ask'[r].content = c /\ Relying(r)'
  <2>1. PICK r \in Requests : User(r) = u /\ Content(r) = c /\ Relying(r)
        BY <1>2, <1>4 DEF ReservationsOwned
  <2>2. ask'[r] = ask[r] /\ (Relying(r)' \/ reserved'[u][c] = 0)
        BY <1>2, <2>1, RelyingStep
  <2>3. QED
        BY <2>1, <2>2 DEF User, Content
<1>5. ASSUME NEW r \in Requests, Reserve(r)
      PROVE  \E s \in Requests : ask'[s].user = u /\ ask'[s].content = c /\ Relying(s)'
  <2>1. /\ pc[r] = "reserve" /\ ask' = ask
        /\ reserved' = [reserved EXCEPT ![User(r)] = [@ EXCEPT ![Content(r)] = EstimateOf(r)]]
        /\ pc' = [pc EXCEPT ![r] = IF ask[r].batch THEN "save" ELSE "extract"]
    <3>1. pc[r] = "reserve" /\ ask' = ask
          BY <1>5 DEF Reserve
    <3>2. reserved' = [reserved EXCEPT ![User(r)] = [@ EXCEPT ![Content(r)] = EstimateOf(r)]]
          BY <1>5 DEF Reserve, CreateReservation
    <3>3. pc' = [pc EXCEPT ![r] = IF ask[r].batch THEN "save" ELSE "extract"]
          BY <1>5 DEF Reserve, Goto
    <3>4. QED
          BY <3>1, <3>2, <3>3
  <2>2. CASE User(r) = u /\ Content(r) = c
    <3>1. pc'[r] \in {"save", "extract"}
          BY <1>3, <2>1
    <3>2. QED
          BY <2>1, <2>2, <3>1 DEF Relying, User, Content
  <2>3. CASE ~(User(r) = u /\ Content(r) = c)
    <3>1. reserved'[u][c] = reserved[u][c]
          BY <1>3, <2>1, <2>3
    <3>2. QED
          BY <1>4, <3>1
  <2>4. QED
        BY <2>2, <2>3
<1>6. ASSUME NEW r \in Requests,
             reserved' = [reserved EXCEPT ![User(r)] = ReleaseReservation(@, Content(r))]
      PROVE  reserved[u][c] > 0
      BY <1>3, <1>6 DEF ReleaseReservation
<1>7. CASE reserved' = reserved
      BY <1>4, <1>7
<1>8. ASSUME NEW r \in Requests, Release(r) \/ Undo(r)
      PROVE  reserved[u][c] > 0
      BY <1>6, <1>8 DEF Release, Undo, ReleaseOf
<1>9. ASSUME ReleaseResults \/ FailedJob
      PROVE  reserved[u][c] > 0
  <2>1. By \in Requests
        BY ByTyped
  <2>2. QED
        BY <1>6, <1>9, <2>1 DEF ReleaseResults, FailedJob, ReleaseOf
<1>10. QED
       BY <1>1, <1>4, <1>5, <1>7, <1>8, <1>9 DEF Writers

LEMMA HoldingsInit == BatchInit => HoldingsInv
<1> SUFFICES ASSUME BatchInit
             PROVE  HoldingsInv
    OBVIOUS
<1>1. Typed
      BY TypedInit
<1>2. Paths
      BY DEF BatchInit, Init, Paths, BatchSteps, PageSteps, NoAsk
<1>3. JobsKnown
  <2>1. \A r \in Requests : ~Listed(r)
    <3>1. \A r \in Requests : Pending(r) # NoJob
      <4>1. "PENDING" \in Statuses /\ FALSE \in BOOLEAN
            BY DEF Statuses
      <4>2. \A r \in Requests : Pending(r) \in Jobs
            BY <4>1 DEF Pending, Job, Jobs
      <4>3. QED
            BY <4>2, JobAssumption
    <3>2. jobs = {} /\ \A c \in Contents : job[c] = NoJob
          BY DEF BatchInit
    <3>3. QED
          BY <3>1, <3>2 DEF Listed
  <2>2. QED
        BY <2>1 DEF BatchInit, JobsKnown, InHand, Closing
<1>4. SlotsCounted
  <2>1. \A u : Holders(u) = {} /\ Active(u) = {}
        BY DEF BatchInit, Init, Holders, Active, Holding
  <2>2. Cardinality({}) = 0 /\ MaxSlots \in Nat
        BY FS_EmptySet, ExtractionAssumption
  <2>3. leaked = {} /\ \A u \in Users : slots[u] = 0
        BY DEF BatchInit, Init
  <2>4. QED
        BY <2>1, <2>2, <2>3 DEF SlotsCounted
<1>5. ReservationsOwned
      BY DEF BatchInit, Init, ReservationsOwned
<1>6. QED
      BY <1>1, <1>2, <1>3, <1>4, <1>5 DEF Typed, HoldingsInv

\* The counters add up: running, about to be refused, and left behind are disjoint.
LEMMA HoldersSplit ==
    ASSUME TypeOK, LocalsTyped, Paths, SlotsCounted
    PROVE  SlotsAccounted
<1> SUFFICES ASSUME NEW u \in Users, u \notin lapsed
             PROVE  /\ slots[u] = Cardinality(Active(u))
                           + Cardinality({r \in Requests : User(r) = u /\ pc[r] = "refused"})
                           + Cardinality({r \in leaked : User(r) = u})
                    /\ Cardinality(Active(u)) <= MaxSlots
    BY DEF SlotsAccounted
<1>1. slots[u] = Cardinality(Holders(u)) /\ Cardinality(Active(u)) <= MaxSlots
      BY DEF SlotsCounted
<1>2. PICK A, B, C : /\ A = Active(u) /\ B = {r \in Requests : User(r) = u /\ pc[r] = "refused"}
                     /\ C = {r \in leaked : User(r) = u}
      OBVIOUS
<1>3. IsFiniteSet(A) /\ IsFiniteSet(B) /\ IsFiniteSet(C)
  <2>1. A \subseteq Requests /\ B \subseteq Requests /\ C \subseteq Requests
        BY <1>2 DEF Active, LocalsTyped
  <2>2. QED
        BY <2>1, ExtractionAssumption, FS_Subset
<1>4. Holders(u) = (A \cup B) \cup C
  <2>1. \A r \in Requests : pc[r] = "refused" => ~ask[r].batch
        BY DEF Paths, PageSteps
  <2>2. \A r \in leaked : r \in Requests /\ ~ask[r].batch
        BY DEF SlotsCounted, LocalsTyped
  <2>3. QED
        BY <1>2, <2>1, <2>2 DEF Holders, Active
<1>5. A \cap B = {} /\ (A \cup B) \cap C = {}
  <2>1. \A r \in leaked : pc[r] \notin Holding \cup {"refused"}
        BY DEF SlotsCounted, Holding
  <2>2. QED
        BY <1>2, <2>1 DEF Active, Holding
<1>6. /\ Cardinality(A) \in Nat /\ Cardinality(B) \in Nat /\ Cardinality(C) \in Nat
      /\ IsFiniteSet(A \cup B)
      BY <1>3, FS_CardinalityType, FS_Union
<1>7. Cardinality(A \cup B) = Cardinality(A) + Cardinality(B)
  <2>1. Cardinality(A \cup B) = Cardinality(A) + Cardinality(B) - Cardinality(A \cap B)
        BY <1>3, FS_Union
  <2>2. Cardinality(A \cap B) = 0
        BY <1>5, FS_EmptySet
  <2>3. QED
        BY <1>6, <2>1, <2>2
<1>8. Cardinality((A \cup B) \cup C) = Cardinality(A \cup B) + Cardinality(C)
  <2>1. Cardinality((A \cup B) \cup C)
           = Cardinality(A \cup B) + Cardinality(C) - Cardinality((A \cup B) \cap C)
        BY <1>3, <1>6, FS_Union
  <2>2. Cardinality((A \cup B) \cap C) = 0
        BY <1>5, FS_EmptySet
  <2>3. Cardinality(A \cup B) \in Nat
        BY <1>6, <1>7
  <2>4. QED
        BY <1>6, <2>1, <2>2, <2>3
<1>9. QED
      BY <1>1, <1>2, <1>4, <1>7, <1>8

\* What a request holds, of a slot or of tokens, stays with it until it is given
\* back, whichever of the failures of create_document, _run_extraction and the
\* poller comes in between.
THEOREM HoldingsInvariant == Spec => []HoldingsInv
<1>1. HoldingsInv /\ [Next]_vars => HoldingsInv'
  <2> SUFFICES ASSUME HoldingsInv, [Next]_vars
               PROVE  HoldingsInv'
      OBVIOUS
  <2>1. TypeOK /\ LocalsTyped /\ Paths /\ JobsKnown /\ SlotsCounted /\ ReservationsOwned
        BY DEF HoldingsInv
  <2>2. QED
        BY <2>1, TypedStep, PathsStep, JobsKnownStep, SlotsStep, OwnedStep DEF HoldingsInv
<1>2. QED
      BY <1>1, HoldingsInit, PTL DEF Spec

\* HoldingsOwned for any number of users, requests and slots: the slot counter of
\* a user is what runs, is refused or was left behind, and a reservation belongs to
\* a request that will release it (rate limit of create_document, reservations.py).
THEOREM HoldingsAreOwned == Spec => []HoldingsOwned
<1>1. HoldingsInv => HoldingsOwned
      BY HoldersSplit DEF HoldingsInv, HoldingsOwned
<1>2. QED
      BY <1>1, HoldingsInvariant, PTL

-----------------------------------------------------------------------------
(* Answers                                                                  *)

Told == {"finally", "release", "done", "dead"}

\* A page by page request answers when it enters its finally block, once, with a
\* document that was made before; it goes there without an answer when it was
\* cancelled, or when the call that stores the answer fails.
AnswersInv == \A r \in Requests :
    /\ result[r] # "none" => pc[r] \in Told /\ ~ask[r].batch
    /\ pc[r] = "answer" => deletions > 0 \/ \E d \in docs : d.by = r
    /\ pc[r] \in {"finally", "release"} =>
           result[r] # "none" \/ r \in cancelled \/ faults + lapses > 0

LEMMA SumGrows ==
    ASSUME NEW a \in Nat, NEW b \in Nat, NEW c \in Nat, NEW d \in Nat, c >= a, d >= b, a + b > 0
    PROVE  c + d > 0
OBVIOUS

\* The poller takes up batch requests only, and none that is done
LEMMA HandledIsBatch ==
    ASSUME Paths, JobsKnown, NEW r \in Requests, NEW b, Handled(r, b)
    PROVE  ask[r].batch /\ b \in {"closing", "done"}
<1>1. CASE PollRaises /\ pc[By] = "closing" /\ r = By
      BY <1>1 DEF Handled, Paths, BatchSteps
<1>2. CASE r = By /\ (ReleaseResults \/ Unlist \/ FailedJob)
  <2>1. ppc \in InHand \cup Closing
        BY <1>2 DEF ReleaseResults, Unlist, FailedJob, InHand, Closing
  <2>2. QED
        BY <1>2, <2>1 DEF JobsKnown, Handled
<1>3. QED
      BY <1>1, <1>2 DEF Handled

LEMMA ResultStep ==
    ASSUME TypeOK, Writers, NEW r \in Requests
    PROVE  \/ result'[r] = result[r]
           \/ Answer(r) /\ result'[r] = "document" /\ pc'[r] = "finally"
           \/ ReportError(r) /\ result'[r] = "error" /\ pc'[r] = "finally"
<1>1. result \in [Requests -> {"none", "document", "error"}] /\ pc \in [Requests -> Steps]
      BY DEF TypeOK
<1>2. ASSUME NEW s \in Requests, Answer(s)
      PROVE  \/ result'[r] = result[r]
             \/ Answer(r) /\ result'[r] = "document" /\ pc'[r] = "finally"
  <2>1. result' = [result EXCEPT ![s] = "document"] /\ pc' = [pc EXCEPT ![s] = "finally"]
        BY <1>2 DEF Answer, Goto
  <2>2. QED
        BY <1>1, <1>2, <2>1
<1>3. ASSUME NEW s \in Requests, ReportError(s)
      PROVE  \/ result'[r] = result[r]
             \/ ReportError(r) /\ result'[r] = "error" /\ pc'[r] = "finally"
  <2>1. /\ result' = result \/ result' = [result EXCEPT ![s] = "error"]
        /\ pc' = [pc EXCEPT ![s] = "finally"]
        BY <1>3 DEF ReportError, Goto
  <2>2. QED
        BY <1>1, <1>3, <2>1
<1>4. QED
      BY <1>2, <1>3 DEF Writers

LEMMA CancelledStep ==
    ASSUME TypeOK, LocalsTyped, Writers, [Next]_vars, NEW r \in cancelled
    PROVE  r \in cancelled' \/ faults' + lapses' > 0
<1>1. faults' \in Nat /\ lapses \in Nat
      BY BoundsStep DEF LocalsTyped
<1>2. ASSUME NEW s \in Requests, LapseCancel(s)
      PROVE  faults' + lapses' > 0
      BY <1>1, <1>2 DEF LapseCancel
<1>3. ASSUME NEW s \in Requests, Cancel(s)
      PROVE  r \in cancelled'
      BY <1>3 DEF Cancel
<1>4. QED
      BY <1>2, <1>3 DEF Writers

LEMMA MadeStep ==
    ASSUME LocalsTyped, Writers, [Next]_vars, NEW d \in docs
    PROVE  d \in docs' \/ deletions' > 0
<1>1. deletions \in Nat
      BY DEF LocalsTyped
<1>2. ASSUME NEW o \in docs, DeleteDocument(o)
      PROVE  deletions' > 0
      BY <1>1, <1>2 DEF DeleteDocument
<1>3. ASSUME NEW r \in Requests, CreateDocument(r) \/ DirectDocument(r)
      PROVE  d \in docs'
      BY <1>3 DEF CreateDocument, DirectDocument
<1>4. ASSUME MergeAndCreate
      PROVE  d \in docs'
      BY <1>4 DEF MergeAndCreate
<1>5. QED
      BY <1>2, <1>3, <1>4 DEF Writers

LEMMA AnswersStep ==
    TypeOK /\ LocalsTyped /\ Paths /\ JobsKnown /\ AnswersInv /\ [Next]_vars => AnswersInv'
<1> SUFFICES ASSUME TypeOK, LocalsTyped, Paths, JobsKnown, AnswersInv, [Next]_vars,
                    NEW r \in Requests
             PROVE  /\ result'[r] # "none" => pc'[r] \in Told /\ ~ask'[r].batch
                    /\ pc'[r] = "answer" => deletions' > 0 \/ \E d \in docs' : d.by = r
                    /\ pc'[r] \in {"finally", "release"} =>
                           result'[r] # "none" \/ r \in cancelled' \/ faults' + lapses' > 0
    BY DEF AnswersInv
<1>1. Writers /\ Moves /\ Move(r) /\ Paths'
      BY WritersStep, MovesStep, MoveStep, PathsStep
<1>2. /\ faults \in Nat /\ faults' \in Nat /\ lapses \in Nat /\ lapses' \in Nat
      /\ deletions \in Nat /\ deletions' \in Nat
      /\ faults' >= faults /\ lapses' >= lapses /\ deletions' >= deletions
      BY BoundsStep DEF LocalsTyped
<1>3. ASSUME result'[r] # "none"
      PROVE  pc'[r] \in Told /\ ~ask'[r].batch
  <2>1. CASE pc'[r] = "finally"
        BY <1>1, <2>1 DEF Paths, PageSteps, Told
  <2>2. CASE pc'[r] # "finally"
    <3>1. result[r] # "none"
          BY <1>1, <1>3, <2>2, ResultStep
    <3>2. pc[r] \in Told /\ ~ask[r].batch
          BY <3>1 DEF AnswersInv
    <3>3. ~Handled(r, pc'[r])
          BY <3>2, HandledIsBatch
    <3>4. pc'[r] \in Told
          BY <1>1, <3>2, <3>3
          DEF Told, Move, Walk, Starts, Precheck, PageWalk, BatchWalk
    <3>5. ask'[r] = ask[r]
          BY <1>1, <3>2, AskStep DEF Told
    <3>6. QED
          BY <3>2, <3>4, <3>5
  <2>3. QED
        BY <2>1, <2>2
<1>4. ASSUME pc'[r] = "answer"
      PROVE  deletions' > 0 \/ \E d \in docs' : d.by = r
  <2>1. pc[r] = "answer" \/ CreateDocument(r)
        BY <1>1, <1>4 DEF Move, Walk, Starts, Precheck, PageWalk, BatchWalk, Handled
  <2>2. CASE pc[r] = "answer"
        BY <1>1, <1>2, <2>2, MadeStep DEF AnswersInv
  <2>3. CASE CreateDocument(r)
    <3>1. PICK d : d \in docs' /\ d = Document(r, found[r] \cup FreshEntries(r), Kept(r))
          BY <2>3 DEF CreateDocument
    <3>2. d.by = r
          BY <3>1 DEF Document
    <3>3. QED
          BY <3>1, <3>2
  <2>4. QED
        BY <2>1, <2>2, <2>3
<1>5. ASSUME pc'[r] \in {"finally", "release"}
      PROVE  result'[r] # "none" \/ r \in cancelled' \/ faults' + lapses' > 0
  <2>1. \/ pc[r] \in {"finally", "release"}
        \/ Decide(r) /\ pc'[r] = "finally"
        \/ Answer(r)
        \/ ReportError(r)
        BY <1>1, <1>5 DEF Move, Walk, Starts, Precheck, PageWalk, BatchWalk, Handled
  <2>2. CASE pc[r] \in {"finally", "release"}
    <3>1. CASE result[r] # "none"
          BY <1>1, <3>1, ResultStep
    <3>2. CASE r \in cancelled
          BY <1>1, <3>2, CancelledStep
    <3>3. CASE faults + lapses > 0
      <4>1. faults' + lapses' > 0
            BY <1>2, <3>3, SumGrows
      <4>2. QED
            BY <4>1
    <3>4. QED
          BY <2>2, <3>1, <3>2, <3>3 DEF AnswersInv
  <2>3. CASE Decide(r) /\ pc'[r] = "finally"
    <3>1. pc \in [Requests -> Steps] /\ UNCHANGED cancelled
          BY <2>3 DEF Decide, TypeOK, redis
    <3>2. r \in cancelled
          BY <2>3, <3>1 DEF Decide, Goto
    <3>3. QED
          BY <3>1, <3>2
  <2>4. CASE Answer(r)
        BY <2>4 DEF Answer, TypeOK
  <2>5. CASE ReportError(r)
    <3>1. CASE faults' = faults + 1
      <4>1. faults' >= 1 /\ 1 \in Nat /\ 0 \in Nat /\ lapses' >= 0 /\ 1 + 0 > 0
            BY <1>2, <3>1
      <4>2. faults' + lapses' > 0
            BY <1>2, <4>1, SumGrows
      <4>3. QED
            BY <4>2
    <3>2. CASE result' = [result EXCEPT ![r] = "error"]
          BY <3>2 DEF TypeOK
    <3>3. QED
          BY <2>5, <3>1, <3>2 DEF ReportError, Fault
  <2>6. QED
        BY <2>1, <2>2, <2>3, <2>4, <2>5
<1>6. QED
      BY <1>3, <1>4, <1>5

LEMMA EndsAnswered ==
    ASSUME TypeOK, LocalsTyped, Paths, JobsKnown, AnswersInv, [Next]_vars, NEW r \in Requests,
           pc[r] # "done", pc'[r] = "done", ~ask[r].batch
    PROVE  result[r] # "none" \/ r \in cancelled \/ faults' + lapses > 0
<1>1. Move(r)
      BY WritersStep, MovesStep, MoveStep
<1>2. faults \in Nat /\ faults' \in Nat /\ lapses \in Nat /\ faults' >= faults
      BY BoundsStep DEF LocalsTyped
<1>3. ~Handled(r, "done") /\ pc[r] # "record"
      BY HandledIsBatch DEF Paths, BatchSteps
<1>4. GiveBackFails(r) \/ pc[r] = "release"
      BY <1>1, <1>3 DEF Move, Walk, Starts, Precheck, PageWalk, BatchWalk
<1>5. CASE GiveBackFails(r)
      BY <1>2, <1>5 DEF GiveBackFails, Fault
<1>6. CASE pc[r] = "release"
  <2>1. result[r] # "none" \/ r \in cancelled \/ faults + lapses > 0
        BY <1>6 DEF AnswersInv
  <2>2. lapses >= lapses
        BY <1>2
  <2>3. faults + lapses > 0 => faults' + lapses > 0
        BY <1>2, <2>2, SumGrows
  <2>4. QED
        BY <2>1, <2>3
<1>7. QED
      BY <1>4, <1>5, <1>6

\* An answer of the status route stands, a document is answered after it was made,
\* and an extraction ends answered or cancelled, for any requests, whatever fails in
\* between, unless it is the call that stores the answer (_run_extraction).
THEOREM AnswersAreFinal == Spec => AnswersFinal
<1> DEFINE AInv == HoldingsInv /\ AnswersInv
<1>1. BatchInit => AInv
      BY HoldingsInit DEF BatchInit, Init, AnswersInv
<1>2. AInv /\ [Next]_vars => AInv'
  <2> SUFFICES ASSUME HoldingsInv, AnswersInv, [Next]_vars
               PROVE  HoldingsInv' /\ AnswersInv'
      OBVIOUS
  <2>1. TypeOK /\ LocalsTyped /\ Paths /\ JobsKnown /\ SlotsCounted /\ ReservationsOwned
        BY DEF HoldingsInv
  <2>2. HoldingsInv'
        BY <2>1, TypedStep, PathsStep, JobsKnownStep, SlotsStep, OwnedStep DEF HoldingsInv
  <2>3. QED
        BY <2>1, <2>2, AnswersStep
<1> DEFINE Final(r) ==
        /\ result[r] # "none" => result'[r] = result[r]
        /\ result[r] = "none" /\ result'[r] = "document" =>
               deletions > 0 \/ \E d \in docs : d.by = r
        /\ pc[r] # "done" /\ pc'[r] = "done" /\ ~ask[r].batch =>
               result[r] # "none" \/ r \in cancelled \/ faults' + lapses > 0
<1>3. AInv /\ [Next]_vars => \A r \in Requests : Final(r)
  <2> SUFFICES ASSUME HoldingsInv, AnswersInv, [Next]_vars, NEW r \in Requests
               PROVE  Final(r)
      OBVIOUS
  <2>1. TypeOK /\ LocalsTyped /\ Paths /\ JobsKnown /\ Writers
        BY WritersStep DEF HoldingsInv
  <2>2. result[r] # "none" => result'[r] = result[r]
        BY <2>1, ResultStep DEF AnswersInv, Told, Answer, ReportError
  <2>3. result[r] = "none" /\ result'[r] = "document" =>
            deletions > 0 \/ \E d \in docs : d.by = r
        BY <2>1, ResultStep DEF AnswersInv, Answer
  <2>4. pc[r] # "done" /\ pc'[r] = "done" /\ ~ask[r].batch =>
            result[r] # "none" \/ r \in cancelled \/ faults' + lapses > 0
        BY <2>1, EndsAnswered
  <2>5. QED
        BY <2>2, <2>3, <2>4
<1>4. QED
      BY <1>1, <1>2, <1>3, PTL DEF Spec, AnswersFinal

-----------------------------------------------------------------------------
(* Documents, their prompts and figures                                     *)

\* Where a document, and an entry of the cache, comes from
LEMMA DocsStep ==
    ASSUME Writers, NEW d \in docs'
    PROVE  \/ d \in docs
           \/ \E r \in Requests : /\ CreateDocument(r)
                                  /\ d = Document(r, found[r] \cup FreshEntries(r), Kept(r))
           \/ \E r \in Requests : DirectDocument(r) /\ d = Document(r, found[r], {})
           \/ MergeAndCreate /\ d = Document(By, BatchEntries \cup Merged, Kept(By))
<1>1. ASSUME NEW r \in Requests, CreateDocument(r)
      PROVE  d \in docs \/ d = Document(r, found[r] \cup FreshEntries(r), Kept(r))
      BY <1>1 DEF CreateDocument
<1>2. ASSUME NEW r \in Requests, DirectDocument(r)
      PROVE  d \in docs \/ d = Document(r, found[r], {})
      BY <1>2 DEF DirectDocument
<1>3. ASSUME MergeAndCreate
      PROVE  d \in docs \/ d = Document(By, BatchEntries \cup Merged, Kept(By))
      BY <1>3 DEF MergeAndCreate
<1>4. ASSUME NEW o \in docs, DeleteDocument(o)
      PROVE  d \in docs
      BY <1>4 DEF DeleteDocument
<1>5. QED
      BY <1>1, <1>2, <1>3, <1>4 DEF Writers

LEMMA CacheStep ==
    ASSUME Writers, NEW e \in cache'
    PROVE  \/ e \in cache
           \/ \E r \in Requests, p \in Pages :
                 /\ Collect(r, p)
                 /\ e = Entry(Key(Content(r), ask[r].prompt, p), page[r][p] = "okfigures",
                              ask[r].prompt)
           \/ KeepResults /\ e \in BatchEntries
<1>1. ASSUME NEW new, Store(new)
      PROVE  e \in cache \/ e \in new
      BY <1>1 DEF Store, Keep
<1>2. ASSUME NEW r \in Requests, NEW p \in Pages, Collect(r, p)
      PROVE  \/ e \in cache
             \/ e = Entry(Key(Content(r), ask[r].prompt, p), page[r][p] = "okfigures",
                          ask[r].prompt)
  <2>1. \/ UNCHANGED cache
        \/ Store({Entry(Key(Content(r), ask[r].prompt, p), page[r][p] = "okfigures",
                        ask[r].prompt)})
        BY <1>2 DEF Collect
  <2>2. QED
        BY <1>1, <2>1
<1>3. ASSUME KeepResults
      PROVE  e \in cache \/ e \in BatchEntries
      BY <1>1, <1>3 DEF KeepResults
<1>4. QED
      BY <1>2, <1>3 DEF Writers

LEMMA FoundStep ==
    ASSUME TypeOK, LocalsTyped, Writers, NEW r \in Requests
    PROVE  \/ found'[r] = found[r]
           \/ /\ found'[r] = CachedPages(r) /\ swept' = SweptBy(CachedPages(r))
              /\ UNCHANGED <<cache, images, ask>> /\ pc[r] # "idle"
<1>1. DOMAIN found = Requests
      BY DEF LocalsTyped
<1>2. ASSUME NEW s \in Requests, Lookup(s) \/ BatchLookup(s)
      PROVE  /\ found' = [found EXCEPT ![s] = CachedPages(s)] /\ pc[s] # "idle"
             /\ swept' = SweptBy(CachedPages(s)) /\ UNCHANGED <<cache, images, ask>>
      BY <1>2 DEF Lookup, BatchLookup, stores
<1>3. QED
      BY <1>1, <1>2 DEF Writers

LEMMA CachedPagesMatch ==
    ASSUME NEW r, NEW e \in CachedPages(r)
    PROVE  e \in cache /\ e.content = Content(r) /\ e.prompt = ask[r].prompt
BY DEF CachedPages, At, Key

LEMMA BatchPrompt ==
    ASSUME NoBatchPrompts, TypeOK, Paths, NEW r \in Requests, ask[r].batch
    PROVE  ask[r].prompt = NoPrompt
BY DEF NoBatchPrompts, Paths

LEMMA IdleBefore ==
    TypeOK /\ JobsKnown /\ Moves => \A r \in Requests : pc'[r] = "idle" => pc[r] = "idle"
<1> SUFFICES ASSUME TypeOK, JobsKnown, Moves, NEW r \in Requests, pc'[r] = "idle"
             PROVE  pc[r] = "idle"
    OBVIOUS
<1>1. Move(r)
      BY MoveStep
<1>2. QED
      BY <1>1 DEF Move, Walk, Starts, Precheck, PageWalk, BatchWalk, Handled

LEMMA PromptsStep ==
    NoBatchPrompts /\ TypeOK /\ LocalsTyped /\ Paths /\ JobsKnown /\ PromptsInv /\ [Next]_vars =>
        PromptsInv'
<1> SUFFICES ASSUME NoBatchPrompts, TypeOK, LocalsTyped, Paths, JobsKnown, PromptsInv, [Next]_vars
             PROVE  PromptsInv'
    OBVIOUS
<1>1. Writers /\ Moves
      BY WritersStep, MovesStep
<1>2. \A r \in Requests : pc[r] # "idle" => ask'[r] = ask[r] /\ pc'[r] # "idle"
      BY <1>1, AskStep, IdleBefore
<1>3. /\ \A d \in docs : /\ d.prompts \subseteq {ask[d.by].prompt} /\ pc[d.by] # "idle"
                         /\ d.by \in Requests
      /\ \A e \in cache : e.made = e.prompt
      /\ \A r \in Requests : \A e \in found[r] :
            e.content = Content(r) /\ e.prompt = ask[r].prompt /\ e.made = ask[r].prompt
      BY DEF PromptsInv, PromptRespected, LocalsTyped, Documents
<1>4. ASSUME ppc \in InHand \cup Closing
      PROVE  By \in Requests /\ ask[By].prompt = NoPrompt /\ pc[By] # "idle"
      BY <1>4, ByTyped, BatchPrompt DEF JobsKnown, InHand, Closing
<1>5. \A e \in BatchEntries : e.made = ask[By].prompt /\ e.prompt = NoPrompt
      BY DEF BatchEntries, Entry, Key
<1>6. ASSUME NEW r \in Requests, pc[r] # "idle", NEW es, NEW fresh,
             \A e \in es : e.made = ask[r].prompt
      PROVE  /\ Document(r, es, fresh).prompts \subseteq {ask'[Document(r, es, fresh).by].prompt}
             /\ pc'[Document(r, es, fresh).by] # "idle"
      BY <1>2, <1>6 DEF Document
<1>7. ASSUME NEW d \in docs'
      PROVE  d.prompts \subseteq {ask'[d.by].prompt} /\ pc'[d.by] # "idle"
  <2>1. CASE d \in docs
        BY <1>2, <1>3, <2>1
  <2>2. ASSUME NEW r \in Requests, CreateDocument(r),
               d = Document(r, found[r] \cup FreshEntries(r), Kept(r))
        PROVE  d.prompts \subseteq {ask'[d.by].prompt} /\ pc'[d.by] # "idle"
    <3>1. \A e \in FreshEntries(r) : e.made = ask[r].prompt
          BY DEF FreshEntries, Entry
    <3>2. pc[r] # "idle"
          BY <2>2 DEF CreateDocument
    <3>3. \A e \in found[r] \cup FreshEntries(r) : e.made = ask[r].prompt
          BY <1>3, <3>1
    <3>4. QED
          BY <1>6, <2>2, <3>2, <3>3
  <2>3. ASSUME NEW r \in Requests, DirectDocument(r), d = Document(r, found[r], {})
        PROVE  d.prompts \subseteq {ask'[d.by].prompt} /\ pc'[d.by] # "idle"
    <3>1. pc[r] # "idle" /\ \A e \in found[r] : e.made = ask[r].prompt
          BY <1>3, <2>3 DEF DirectDocument
    <3>2. QED
          BY <1>6, <2>3, <3>1
  <2>4. ASSUME MergeAndCreate, d = Document(By, BatchEntries \cup Merged, Kept(By))
        PROVE  d.prompts \subseteq {ask'[d.by].prompt} /\ pc'[d.by] # "idle"
    <3>1. By \in Requests /\ ask[By].prompt = NoPrompt /\ pc[By] # "idle"
          BY <1>4, <2>4 DEF MergeAndCreate, Closing
    <3>2. \A e \in Merged : e.made = NoPrompt
          BY <1>3 DEF Merged, At, Key
    <3>3. \A e \in BatchEntries \cup Merged : e.made = ask[By].prompt
          BY <1>5, <3>1, <3>2
    <3>4. QED
          BY <1>6, <2>4, <3>1, <3>3
  <2>5. QED
        BY <1>1, <2>1, <2>2, <2>3, <2>4, DocsStep
<1>8. ASSUME NEW e \in cache'
      PROVE  e.made = e.prompt
  <2>1. CASE KeepResults /\ e \in BatchEntries
    <3>1. ask[By].prompt = NoPrompt
          BY <1>4, <2>1 DEF KeepResults, InHand
    <3>2. QED
          BY <1>5, <2>1, <3>1
  <2>2. ASSUME NEW r, NEW p, NEW figs, e = Entry(Key(Content(r), ask[r].prompt, p), figs, ask[r].prompt)
        PROVE  e.made = e.prompt
        BY <2>2 DEF Entry, Key
  <2>3. QED
        BY <1>1, <1>3, <2>1, <2>2, CacheStep
<1>9. ASSUME NEW r \in Requests, NEW e \in found'[r]
      PROVE  e.content = ask'[r].content /\ e.prompt = ask'[r].prompt /\ e.made = ask'[r].prompt
  <2>1. CASE found'[r] = found[r]
    <3>1. pc[r] # "idle"
          BY <2>1 DEF Paths
    <3>2. QED
          BY <1>2, <1>3, <2>1, <3>1 DEF Content
  <2>2. CASE found'[r] = CachedPages(r) /\ ask' = ask
    <3>1. e \in cache /\ e.content = Content(r) /\ e.prompt = ask[r].prompt
          BY <2>2, CachedPagesMatch
    <3>2. QED
          BY <1>3, <2>2, <3>1 DEF Content
  <2>3. QED
        BY <1>1, <2>1, <2>2, FoundStep
<1>10. QED
       BY <1>7, <1>8, <1>9 DEF PromptsInv, PromptRespected, Content

StillPictured(c, p) == c \in swept' \/ <<c, p>> \in images'

\* The images of a page go with the last document of its content, and when a live
\* request had seen them that is remembered
LEMMA PicturedStep ==
    ASSUME Writers, NEW c, NEW p, Pictured(c, p),
           Live(c) \/ \E o \in docs' : o.content = c /\ o \in docs
    PROVE  StillPictured(c, p)
<1>1. swept \subseteq swept'
      BY DEF Writers, Lookup, BatchLookup, SweptBy, DeleteDocument
<1>2. CASE c \in swept
      BY <1>1, <1>2 DEF Pictured, StillPictured
<1>3. CASE <<c, p>> \in images
  <2>1. CASE images \subseteq images'
        BY <1>3, <2>1 DEF Pictured, StillPictured
  <2>2. ASSUME NEW d \in docs, DeleteDocument(d)
        PROVE  StillPictured(c, p)
    <3>1. CASE d.content # c
          BY <1>3, <2>2, <3>1 DEF DeleteDocument, Pictured, StillPictured
    <3>2. CASE d.content = c /\ \E o \in docs' : o.content = c
          BY <1>3, <2>2, <3>2 DEF DeleteDocument, Pictured, StillPictured
    <3>3. CASE d.content = c /\ Live(c)
          BY <1>3, <2>2, <3>3 DEF DeleteDocument, Pictured, StillPictured
    <3>4. QED
          BY <3>1, <3>2, <3>3
  <2>3. QED
        BY <2>1, <2>2 DEF Writers, Prepare, DetectFigures
<1>4. QED
      BY <1>2, <1>3 DEF Pictured, StillPictured

\* A page has figures only after they were stored
LEMMA FiguredStep ==
    ASSUME TypeOK, Writers, NEW r \in Requests, NEW p \in Pages,
           page'[r][p] \in {"figures", "okfigures", "keptfigures"}
    PROVE  \/ page[r][p] \in {"figures", "okfigures", "keptfigures"}
           \/ <<Content(r), p>> \in images'
<1> DEFINE Goal == \/ page[r][p] \in {"figures", "okfigures", "keptfigures"}
                   \/ <<Content(r), p>> \in images'
<1>1. page \in [Requests -> [Pages -> PageStates]]
      BY DEF TypeOK
<1>2. ASSUME NEW s \in Requests, Lookup(s) \/ Reserve(s)
      PROVE  Goal
  <2>1. page' = page \/ \E hits : StartPages(s, hits)
        BY <1>2 DEF Lookup, Reserve
  <2>2. ASSUME NEW hits, StartPages(s, hits)
        PROVE  page'[r][p] = page[r][p] \/ page'[r][p] \in {"new", "none"}
        BY <1>1, <2>2 DEF StartPages
  <2>3. QED
        BY <2>1, <2>2
<1>3. ASSUME NEW s \in Requests, Prepare(s)
      PROVE  Goal
  <2>1. PICK figs : /\ images' = images \cup {<<Content(s), q>> : q \in figs}
                    /\ page' = [page EXCEPT ![s] = [q \in Pages |->
                                IF q \notin Uncached(s) THEN "none"
                                ELSE IF q \in figs THEN "figures" ELSE "plain"]]
        BY <1>3 DEF Prepare
  <2>2. CASE s # r
        BY <1>1, <2>1, <2>2
  <2>3. CASE s = r
    <3>1. page'[r][p] = IF p \notin Uncached(r) THEN "none"
                        ELSE IF p \in figs THEN "figures" ELSE "plain"
          BY <1>1, <2>1, <2>3
    <3>2. p \in figs
          BY <3>1
    <3>3. QED
          BY <2>1, <2>3, <3>2
  <2>4. QED
        BY <2>2, <2>3
<1>4. ASSUME NEW s \in Requests, GeminiEnds(s)
      PROVE  Goal
  <2>1. CASE page' = page
        BY <2>1
  <2>2. CASE page' # page
    <3>1. PICK ok \in SUBSET Uncached(s) :
                page' = [page EXCEPT ![s] = [q \in Pages |->
                    CASE q \notin Uncached(s) -> @[q]
                      [] q \notin ok -> "failed"
                      [] @[q] = "figures" -> "keptfigures"
                      [] OTHER -> "kept"]]
          BY <1>4, <2>2 DEF GeminiEnds
    <3>2. CASE s # r
          BY <1>1, <3>1, <3>2
    <3>3. CASE s = r
      <4>1. page'[r][p] = CASE p \notin Uncached(r) -> page[r][p]
                            [] p \notin ok -> "failed"
                            [] page[r][p] = "figures" -> "keptfigures"
                            [] OTHER -> "kept"
            BY <1>1, <3>1, <3>3
      <4>2. page'[r][p] \in {page[r][p], "failed", "kept"} \/ page[r][p] = "figures"
            BY <4>1
      <4>3. QED
            BY <4>2
    <3>4. QED
          BY <3>2, <3>3
  <2>3. QED
        BY <2>1, <2>2
<1>5. ASSUME NEW s \in Requests, NEW q \in Pages, NEW x, SetPage(s, q, x)
      PROVE  page'[r][p] = page[r][p] \/ (s = r /\ q = p /\ page'[r][p] = x)
      BY <1>1, <1>5 DEF SetPage
<1>6. ASSUME NEW s \in Requests, NEW q \in Pages, StartPage(s, q)
      PROVE  Goal
  <2>1. PICK x \in {"cancelled", "detecting"} : SetPage(s, q, x)
        BY <1>6 DEF StartPage
  <2>2. QED
        BY <1>5, <2>1
<1>7. ASSUME NEW s \in Requests, NEW q \in Pages, DetectFigures(s, q)
      PROVE  Goal
  <2>1. PICK x \in {"cancelled", "figures", "plain"} :
            SetPage(s, q, x) /\ (x = "figures" => <<Content(s), q>> \in images')
        BY <1>7 DEF DetectFigures
  <2>2. QED
        BY <1>5, <2>1
<1>8. ASSUME NEW s \in Requests, NEW q \in Pages, CallModel(s, q)
      PROVE  Goal
  <2>1. PICK x \in {"okfigures", "ok", "failed"} :
            SetPage(s, q, x) /\ (x = "okfigures" => page[s][q] = "figures")
        BY <1>8 DEF CallModel
  <2>2. QED
        BY <1>5, <2>1
<1>9. ASSUME NEW s \in Requests, NEW q \in Pages, Collect(s, q)
      PROVE  Goal
  <2>1. PICK x \in {"kept", "keptfigures", "skipped"} :
            SetPage(s, q, x) /\ (x = "keptfigures" => page[s][q] = "okfigures")
        BY <1>9 DEF Collect
  <2>2. QED
        BY <1>5, <2>1
<1>10. QED
       BY <1>2, <1>3, <1>4, <1>6, <1>7, <1>8, <1>9 DEF Writers

\* What CachedPages returned with figures is pictured, or counted as swept
LEMMA LookupPictured ==
    ASSUME NEW r, NEW e \in CachedPages(r), e.figures, UNCHANGED images,
           swept' = SweptBy(CachedPages(r))
    PROVE  StillPictured(Content(r), e.page)
<1>1. e.content = Content(r)
      BY CachedPagesMatch
<1>2. CASE <<Content(r), e.page>> \in images
      BY <1>2 DEF Pictured, StillPictured
<1>3. CASE <<Content(r), e.page>> \notin images
  <2>1. CachedPages(r) # {}
        OBVIOUS
  <2>2. CachedPages(r) = UNION {At(Key(Content(r), ask[r].prompt, p)) : p \in Requested(r)}
        BY <2>1 DEF CachedPages
  <2>3. \E i \in images : i[1] = Content(r)
        BY <2>1, <2>2 DEF CachedPages
  <2>4. e \in {x \in CachedPages(r) : /\ x.figures
                                      /\ <<x.content, x.page>> \notin images
                                      /\ \E i \in images : i[1] = x.content}
        BY <1>1, <1>3, <2>3
  <2>5. Content(r) \in swept'
        BY <1>1, <2>4 DEF SweptBy
  <2>6. QED
        BY <2>5 DEF Pictured, StillPictured
<1>4. QED
      BY <1>2, <1>3

\* A request that is live was so, with the same content, unless it just started
LEMMA LiveBefore ==
    ASSUME TypeOK, LocalsTyped, Paths, JobsKnown, [Next]_vars, NEW r \in Requests, IsLive(r)'
    PROVE  \/ IsLive(r) /\ ask'[r] = ask[r] /\ Live(Content(r))
           \/ found'[r] = {} /\ \A p \in Pages : page'[r][p] = "none"
<1>1. Writers /\ Move(r)
      BY WritersStep, MovesStep, MoveStep
<1>2. CASE IsLive(r)
  <2>1. ask'[r] = ask[r]
        BY <1>1, <1>2, AskStep DEF IsLive
  <2>2. QED
        BY <1>2, <2>1 DEF Live, IsLive
<1>3. CASE pc[r] \in {"rejected", "done"}
  <2>1. ~Handled(r, pc'[r])
    <3>1. pc[By] \in {"closing", "submitted", "failed", "dead"} \/ ppc \notin InHand \cup Closing
          BY DEF JobsKnown
    <3>2. QED
          BY <1>3, <3>1 DEF Handled, ReleaseResults, Unlist, FailedJob, InHand, Closing
  <2>2. pc'[r] = pc[r]
        BY <1>1, <1>3, <2>1
        DEF Move, Walk, Starts, Precheck, PageWalk, BatchWalk, Running, Ended
  <2>3. QED
        BY <1>3, <2>2 DEF IsLive
<1>4. CASE pc[r] = "idle"
  <2>1. found[r] = {} /\ \A p \in Pages : page[r][p] = "none"
        BY <1>4 DEF Paths
  <2>2. ~Handled(r, pc'[r])
    <3>1. pc[By] # "idle" \/ ppc \notin InHand \cup Closing
          BY DEF JobsKnown
    <3>2. QED
          BY <1>4, <3>1 DEF Handled, ReleaseResults, Unlist, FailedJob, InHand, Closing
  <2>3. Starts(r, pc'[r])
        BY <1>1, <1>4, <2>2
        DEF Move, Walk, Precheck, PageWalk, BatchWalk, Running, Ended, IsLive
  <2>4. UNCHANGED <<found, page>>
        BY <2>3 DEF Starts, TakeSlot, BatchAsk
  <2>5. QED
        BY <2>1, <2>4
<1>5. QED
      BY <1>2, <1>3, <1>4 DEF IsLive

LEMMA FiguresStep ==
    NoBatchPrompts /\ TypeOK /\ LocalsTyped /\ Paths /\ JobsKnown /\ FiguresInv /\ [Next]_vars =>
        FiguresInv'
<1> SUFFICES ASSUME NoBatchPrompts, TypeOK, LocalsTyped, Paths, JobsKnown, FiguresInv, [Next]_vars
             PROVE  FiguresInv'
    OBVIOUS
<1>1. Writers
      BY WritersStep
<1>2. ASSUME NEW r \in Requests, IsLive(r)
      PROVE  /\ \A p \in Pages : page[r][p] \in {"figures", "okfigures", "keptfigures"} =>
                   Pictured(Content(r), p)
             /\ \A e \in found[r] : e.figures => Pictured(Content(r), e.page)
             /\ \A e \in cache : /\ e.content = Content(r) /\ e.prompt = ask[r].prompt
                                 /\ e.page \in FoundPages(r) /\ e.figures
                   => Pictured(Content(r), e.page)
             /\ Live(Content(r))
      BY <1>2 DEF FiguresInv, Live, IsLive
<1>3. \A d \in docs : \A p \in d.figures : Pictured(d.content, p)
      BY DEF FiguresInv, FiguresServed, Pictured, StillPictured
<1>4. ASSUME ppc \in InHand \cup Closing
      PROVE  By \in Requests /\ ask[By].prompt = NoPrompt /\ IsLive(By)
      BY <1>4, ByTyped, BatchPrompt DEF JobsKnown, InHand, Closing, IsLive
<1>5. \A r \in Requests : Kept(r) \subseteq Uncached(r)
                          /\ \A p \in Kept(r) : page[r][p] \in {"kept", "keptfigures"}
      BY DEF Kept
<1>6. ASSUME NEW r \in Requests, NEW es, NEW fresh, IsLive(r),
             \A e \in es : e.figures => Pictured(Content(r), e.page)
      PROVE  \A p \in Document(r, es, fresh).figures :
                StillPictured(Document(r, es, fresh).content, p)
  <2>1. Document(r, es, fresh).content = Content(r)
        /\ Document(r, es, fresh).figures = {e.page : e \in {x \in es : x.figures}}
        BY DEF Document
  <2>2. \A p \in Document(r, es, fresh).figures : Pictured(Content(r), p)
        BY <1>6, <2>1
  <2>3. \A p \in Document(r, es, fresh).figures : StillPictured(Content(r), p)
        BY <1>1, <1>2, <1>6, <2>2, PicturedStep
  <2>4. QED
        BY <2>1, <2>3 DEF Pictured, StillPictured
<1>7. ASSUME NEW r \in Requests, NEW p \in Pages, IsLive(r), page[r][p] = "keptfigures"
      PROVE  Pictured(Content(r), p)
      BY <1>2, <1>7
<1>8. ASSUME NEW r \in Requests, IsLive(r), pc[r] # "idle"
      PROVE  /\ \A e \in FreshEntries(r) : e.figures => Pictured(Content(r), e.page)
             /\ r = By => \A e \in BatchEntries : e.figures => Pictured(Content(By), e.page)
  <2>1. Kept(r) \in SUBSET Pages
        BY <1>8, PagesCounted
  <2>2. ASSUME NEW e, NEW k, NEW p \in Kept(r), e.figures,
               e = Entry(Key(Content(r), k, p), page[r][p] = "keptfigures", ask[r].prompt)
        PROVE  Pictured(Content(r), e.page)
    <3>1. page[r][p] = "keptfigures" /\ e.page = p
          BY <2>2 DEF Entry, Key
    <3>2. QED
          BY <1>7, <1>8, <2>1, <3>1
  <2>3. QED
        BY <2>2 DEF FreshEntries, BatchEntries
<1>9. ASSUME NEW d \in docs', NEW p \in d.figures
      PROVE  StillPictured(d.content, p)
  <2>1. CASE d \in docs
        BY <1>1, <1>3, <1>9, <2>1, PicturedStep
  <2>2. ASSUME NEW r \in Requests, CreateDocument(r),
               d = Document(r, found[r] \cup FreshEntries(r), Kept(r))
        PROVE  StillPictured(d.content, p)
    <3>1. IsLive(r) /\ pc[r] # "idle"
          BY <2>2 DEF CreateDocument, IsLive
    <3>2. \A e \in found[r] \cup FreshEntries(r) : e.figures => Pictured(Content(r), e.page)
          BY <1>2, <1>8, <3>1
    <3>3. QED
          BY <1>6, <1>9, <2>2, <3>1, <3>2
  <2>3. ASSUME NEW r \in Requests, DirectDocument(r), d = Document(r, found[r], {})
        PROVE  StillPictured(d.content, p)
    <3>1. IsLive(r) /\ \A e \in found[r] : e.figures => Pictured(Content(r), e.page)
          BY <1>2, <2>3 DEF DirectDocument, IsLive
    <3>2. QED
          BY <1>6, <1>9, <2>3, <3>1
  <2>4. ASSUME MergeAndCreate, d = Document(By, BatchEntries \cup Merged, Kept(By))
        PROVE  StillPictured(d.content, p)
    <3>1. By \in Requests /\ ask[By].prompt = NoPrompt /\ IsLive(By) /\ pc[By] # "idle"
          BY <1>4, <2>4 DEF MergeAndCreate, Closing, IsLive
    <3>2. \A e \in Merged : e.figures => Pictured(Content(By), e.page)
      <4>1. \A e \in Merged : /\ e \in cache /\ e.content = Content(By)
                              /\ e.prompt = ask[By].prompt /\ e.page \in FoundPages(By)
            BY <3>1 DEF Merged, At, Key
      <4>2. QED
            BY <1>2, <3>1, <4>1
    <3>3. \A e \in BatchEntries \cup Merged : e.figures => Pictured(Content(By), e.page)
          BY <1>8, <3>1, <3>2
    <3>4. QED
          BY <1>6, <1>9, <2>4, <3>1, <3>3
  <2>5. QED
        BY <1>1, <2>1, <2>2, <2>3, <2>4, DocsStep
<1>10. ASSUME NEW r \in Requests, IsLive(r)', NEW p \in Pages,
              page'[r][p] \in {"figures", "okfigures", "keptfigures"}
       PROVE  StillPictured(ask'[r].content, p)
  <2>1. IsLive(r) /\ ask'[r] = ask[r] /\ Live(Content(r))
        BY <1>10, LiveBefore
  <2>2. CASE page[r][p] \in {"figures", "okfigures", "keptfigures"}
    <3>1. StillPictured(Content(r), p)
          BY <1>1, <1>2, <2>1, <2>2, PicturedStep
    <3>2. QED
          BY <2>1, <3>1 DEF Content, StillPictured
  <2>3. CASE <<Content(r), p>> \in images'
        BY <2>1, <2>3 DEF Content, StillPictured
  <2>4. QED
        BY <1>1, <1>10, <2>2, <2>3, FiguredStep
<1>11. ASSUME NEW r \in Requests, IsLive(r)', NEW e \in found'[r], e.figures
       PROVE  StillPictured(ask'[r].content, e.page)
  <2>1. IsLive(r) /\ ask'[r] = ask[r] /\ Live(Content(r))
        BY <1>11, LiveBefore
  <2>2. CASE found'[r] = found[r]
    <3>1. StillPictured(Content(r), e.page)
          BY <1>1, <1>2, <1>11, <2>1, <2>2, PicturedStep
    <3>2. QED
          BY <2>1, <3>1 DEF Content, StillPictured
  <2>3. CASE found'[r] = CachedPages(r) /\ swept' = SweptBy(CachedPages(r)) /\ images' = images
    <3>1. StillPictured(Content(r), e.page)
          BY <1>11, <2>3, LookupPictured
    <3>2. QED
          BY <2>1, <3>1 DEF Content, StillPictured
  <2>4. QED
        BY <1>1, <2>2, <2>3, FoundStep
<1>12. ASSUME NEW r \in Requests, IsLive(r)', NEW e \in cache',
              e.content = ask'[r].content, e.prompt = ask'[r].prompt,
              e.page \in {x.page : x \in found'[r]}, e.figures
       PROVE  StillPictured(ask'[r].content, e.page)
  <2>1. IsLive(r) /\ ask'[r] = ask[r] /\ Live(Content(r))
        BY <1>12, LiveBefore
  <2>2. ASSUME found'[r] = CachedPages(r), swept' = SweptBy(CachedPages(r)),
               UNCHANGED <<cache, images>>
        PROVE  StillPictured(ask'[r].content, e.page)
    <3>1. PICK h \in CachedPages(r) : h.page = e.page
          BY <1>12, <2>2
    <3>2. CachedPages(r) = UNION {At(Key(Content(r), ask[r].prompt, p)) : p \in Requested(r)}
          BY <3>1 DEF CachedPages
    <3>3. e \in CachedPages(r)
      <4>1. PICK p \in Requested(r) : h \in At(Key(Content(r), ask[r].prompt, p))
            BY <3>1, <3>2
      <4>2. p = e.page
            BY <3>1, <4>1 DEF At, Key
      <4>3. e \in At(Key(Content(r), ask[r].prompt, p))
            BY <1>12, <2>1, <2>2, <4>2 DEF At, Key, Content
      <4>4. QED
            BY <3>2, <4>3
    <3>4. StillPictured(Content(r), e.page)
          BY <1>12, <2>2, <3>3, LookupPictured
    <3>5. QED
          BY <2>1, <3>4 DEF Content, StillPictured
  <2>3. ASSUME found'[r] = found[r]
        PROVE  Pictured(Content(r), e.page)
    <3>1. e.content = Content(r) /\ e.prompt = ask[r].prompt /\ e.page \in FoundPages(r)
          BY <1>12, <2>1, <2>3 DEF Content, FoundPages
    <3>2. CASE e \in cache
          BY <1>2, <1>12, <2>1, <3>1, <3>2
    <3>3. ASSUME NEW s \in Requests, NEW p \in Pages, Collect(s, p),
                 e = Entry(Key(Content(s), ask[s].prompt, p), page[s][p] = "okfigures",
                           ask[s].prompt)
          PROVE  Pictured(Content(r), e.page)
      <4>1. e.content = Content(s) /\ e.page = p /\ (e.figures <=> page[s][p] = "okfigures")
            BY <3>3 DEF Entry, Key
      <4>2. IsLive(s)
            BY <3>3 DEF Collect, IsLive
      <4>3. QED
            BY <1>2, <1>12, <3>1, <4>1, <4>2
    <3>4. ASSUME KeepResults, e \in BatchEntries
          PROVE  Pictured(Content(r), e.page)
      <4>1. By \in Requests /\ IsLive(By) /\ pc[By] # "idle"
            BY <1>4, <3>4 DEF KeepResults, InHand, IsLive
      <4>2. e.content = Content(By)
            BY <3>4 DEF BatchEntries, Entry, Key
      <4>3. QED
            BY <1>8, <1>12, <3>1, <3>4, <4>1, <4>2
    <3>5. QED
          BY <1>1, <3>2, <3>3, <3>4, CacheStep
  <2>4. CASE found'[r] = found[r]
    <3>1. StillPictured(Content(r), e.page)
          BY <1>1, <2>1, <2>3, <2>4, PicturedStep
    <3>2. QED
          BY <2>1, <3>1 DEF Content, StillPictured
  <2>5. QED
        BY <1>1, <2>2, <2>4, FoundStep
<1>13. QED
  <2>1. FiguresServed'
        BY <1>9 DEF FiguresServed, Pictured, StillPictured
  <2>2. QED
        BY <1>10, <1>11, <1>12, <2>1 DEF FiguresInv, Content, FoundPages, Pictured, StillPictured

\* Every document holds pages of the prompt its request asked for, and its figures
\* are stored, if no batch is asked for with a prompt of its own: the cache key of a
\* batch leaves the prompt out (extraction_cache_key, process_batch_completion).
THEOREM DocumentsAsAsked == NoBatchPrompts => (Spec => []ServedAsAsked)
<1> SUFFICES ASSUME NoBatchPrompts
             PROVE  Spec => []ServedAsAsked
    OBVIOUS
<1> DEFINE Inv == HoldingsInv /\ PromptsInv /\ FiguresInv
<1>1. BatchInit => Inv
  <2> SUFFICES ASSUME BatchInit
               PROVE  Inv
      OBVIOUS
  <2>1. PromptsInv
        BY DEF BatchInit, Init, PromptsInv, PromptRespected
  <2>2. FiguresInv
        BY DEF BatchInit, Init, FiguresInv, FiguresServed, IsLive
  <2>3. QED
        BY <2>1, <2>2, HoldingsInit
<1>2. Inv /\ [Next]_vars => Inv'
  <2> SUFFICES ASSUME Inv, [Next]_vars
               PROVE  Inv'
      OBVIOUS
  <2>1. TypeOK /\ LocalsTyped /\ Paths /\ JobsKnown /\ SlotsCounted /\ ReservationsOwned
        BY DEF HoldingsInv
  <2>2. HoldingsInv'
        BY <2>1, TypedStep, PathsStep, JobsKnownStep, SlotsStep, OwnedStep DEF HoldingsInv
  <2>3. QED
        BY <2>1, <2>2, PromptsStep, FiguresStep
<1>3. Inv => ServedAsAsked
      BY DEF PromptsInv, FiguresInv, ServedAsAsked
<1> HIDE DEF Inv
<1>4. QED
      BY <1>1, <1>2, <1>3, PTL DEF Spec

-----------------------------------------------------------------------------
(* Charges                                                                  *)

Uncharges == \A r \in Requests, p \in Pages :
                pc[r] \in BeforeCharge \/ Open(r) => charged[r][p] = 0

\* A page is charged by the request that kept it, or by the poller for it
LEMMA ChargedStep ==
    ASSUME TypeOK, LocalsTyped, Writers, Uncharges, NEW r \in Requests, NEW p \in Pages
    PROVE  /\ \/ charged'[r][p] = charged[r][p]
              \/ charged[r][p] = 0 /\ charged'[r][p] = 1
           /\ charged' # charged /\ charged'[r] # charged[r] => Bill(r) \/ (BillResults /\ r = By)
           /\ (Bill(r) \/ (BillResults /\ r = By)) /\ p \in Kept(r) => charged'[r][p] = 1
<1>1. charged \in [Requests -> [Pages -> Nat]]
      BY DEF LocalsTyped
<1>2. ASSUME NEW s \in Requests, pc[s] \in BeforeCharge \/ Open(s),
             charged' = [charged EXCEPT ![s] =
                            [q \in Pages |-> IF q \in Kept(s) THEN @[q] + 1 ELSE @[q]]]
      PROVE  /\ \/ charged'[r][p] = charged[r][p]
                \/ charged[r][p] = 0 /\ charged'[r][p] = 1
             /\ charged'[r] # charged[r] => r = s
             /\ r = s /\ p \in Kept(r) => charged'[r][p] = 1
  <2>1. CASE s # r
        BY <1>1, <1>2, <2>1
  <2>2. CASE s = r
    <3>1. charged[r][p] = 0
          BY <1>2, <2>2 DEF Uncharges
    <3>2. charged'[r][p] = IF p \in Kept(r) THEN charged[r][p] + 1 ELSE charged[r][p]
          BY <1>1, <1>2, <2>2
    <3>3. QED
          BY <2>2, <3>1, <3>2
  <2>3. QED
        BY <2>1, <2>2
<1>3. ASSUME NEW s \in Requests, Bill(s)
      PROVE  /\ pc[s] \in BeforeCharge
             /\ charged' = [charged EXCEPT ![s] =
                            [q \in Pages |-> IF q \in Kept(s) THEN @[q] + 1 ELSE @[q]]]
      BY <1>3 DEF Bill, BeforeCharge
<1>4. ASSUME BillResults
      PROVE  /\ Open(By) /\ By \in Requests
             /\ charged' = [charged EXCEPT ![By] =
                            [q \in Pages |-> IF q \in Kept(By) THEN @[q] + 1 ELSE @[q]]]
      BY <1>4, ByTyped DEF BillResults, Open, By
<1>5. QED
      BY <1>2, <1>3, <1>4 DEF Writers

\* What a request kept it keeps from "extract", or the end of its batch job, on
LEMMA KeptStep ==
    ASSUME TypeOK, LocalsTyped, Writers, NEW r \in Requests,
           pc[r] \notin {"idle", "lookup", "find", "reserve"}
    PROVE  /\ ask'[r] = ask[r] /\ found'[r] = found[r] /\ Uncached(r)' = Uncached(r)
           /\ \A p \in Pages : p \in Kept(r)' =>
                 p \in Kept(r) \/ Collect(r, p) \/ GeminiEnds(r)
<1>1. /\ page \in [Requests -> [Pages -> PageStates]] /\ DOMAIN found = Requests
      BY DEF TypeOK, LocalsTyped
<1>2. ask'[r] = ask[r]
      BY AskStep
<1>3. found'[r] = found[r]
      BY <1>1 DEF Writers, Lookup, BatchLookup
<1>4. Uncached(r)' = Uncached(r)
      BY <1>2, <1>3 DEF Uncached, Requested, FoundPages
<1>5. ASSUME NEW p \in Pages, page'[r][p] \in {"kept", "keptfigures"},
             page[r][p] \notin {"kept", "keptfigures"}
      PROVE  Collect(r, p) \/ GeminiEnds(r)
  <2>1. ASSUME NEW s \in Requests, Lookup(s) \/ Reserve(s)
        PROVE  FALSE
    <3>1. s # r
          BY <2>1 DEF Lookup, Reserve
    <3>2. page' = page \/ \E hits : StartPages(s, hits)
          BY <2>1 DEF Lookup, Reserve
    <3>3. page'[r] = page[r]
          BY <1>1, <3>1, <3>2 DEF StartPages
    <3>4. QED
          BY <1>5, <3>3
  <2>2. ASSUME NEW s \in Requests, Prepare(s)
        PROVE  FALSE
    <3>1. PICK figs : page' = [page EXCEPT ![s] = [q \in Pages |->
                                IF q \notin Uncached(s) THEN "none"
                                ELSE IF q \in figs THEN "figures" ELSE "plain"]]
          BY <2>2 DEF Prepare
    <3>2. page'[r][p] = page[r][p] \/ page'[r][p] \in {"none", "figures", "plain"}
          BY <1>1, <3>1
    <3>3. QED
          BY <1>5, <3>2
  <2>3. ASSUME NEW s \in Requests, GeminiEnds(s), s # r
        PROVE  FALSE
    <3>1. page'[r] = page[r]
          BY <1>1, <2>3 DEF GeminiEnds
    <3>2. QED
          BY <1>5, <3>1
  <2>4. ASSUME NEW s \in Requests, NEW q \in Pages, NEW x, SetPage(s, q, x)
        PROVE  s = r /\ q = p /\ x \in {"kept", "keptfigures"}
        BY <1>1, <1>5, <2>4 DEF SetPage
  <2>5. ASSUME NEW s \in Requests, NEW q \in Pages,
               StartPage(s, q) \/ DetectFigures(s, q) \/ CallModel(s, q)
        PROVE  FALSE
    <3>1. PICK x \in {"cancelled", "detecting", "figures", "plain", "okfigures", "ok", "failed"} :
              SetPage(s, q, x)
          BY <2>5 DEF StartPage, DetectFigures, CallModel
    <3>2. QED
          BY <2>4, <3>1
  <2>6. ASSUME NEW s \in Requests, NEW q \in Pages, Collect(s, q)
        PROVE  s = r /\ q = p
    <3>1. PICK x : SetPage(s, q, x)
          BY <2>6 DEF Collect
    <3>2. QED
          BY <2>4, <3>1
  <2>7. QED
        BY <1>5, <2>1, <2>2, <2>3, <2>5, <2>6 DEF Writers
<1>6. ASSUME NEW p \in Pages, p \in Kept(r)'
      PROVE  p \in Kept(r) \/ Collect(r, p) \/ GeminiEnds(r)
      BY <1>4, <1>5, <1>6 DEF Kept
<1>7. QED
      BY <1>2, <1>3, <1>4, <1>6

\* What may still be charged was so before
LEMMA OpenStep ==
    ASSUME TypeOK, LocalsTyped, Paths, JobsKnown, [Next]_vars, NEW r \in Requests
    PROVE  /\ Open(r)' => Open(r) \/ StoreJob(r)
           /\ pc'[r] \in BeforeCharge => pc[r] \in BeforeCharge
<1>1. Writers /\ Move(r) /\ Moves
      BY WritersStep, MovesStep, MoveStep
<1>2. ASSUME Listed(r)'
      PROVE  Open(r) \/ StoreJob(r)
      BY <1>1, <1>2, ListedStep DEF Open
<1>3. ASSUME cur'.by = r, ppc' \in {"keep", "bill"}
      PROVE  Open(r)
  <2>1. CASE ppc \in InHand \cup Closing /\ cur' = cur
    <3>1. ppc \in {"keep", "bill"}
          BY <1>3, <2>1, InHandStep DEF InHand, Closing, PollJob, ReleaseResults, PollGoto
    <3>2. QED
          BY <1>3, <2>1, <3>1 DEF Open
  <2>2. CASE PollJob
    <3>1. ppc' # "each"
          BY <1>3
    <3>2. PICK j \in jobs : cur' = [j EXCEPT !.status = GeminiStatus(j.by)]
          BY <2>2, <3>1 DEF PollJob
    <3>3. j \in Jobs /\ j = Pending(j.by)
          BY DEF TypeOK, JobsKnown
    <3>4. j.by = r
          BY <1>3, <3>2, <3>3 DEF Jobs
    <3>5. QED
          BY <3>2, <3>3, <3>4 DEF Open, Listed
  <2>3. QED
        BY <1>3, <2>1, <2>2, InHandStep DEF InHand
<1>4. Open(r)' => Open(r) \/ StoreJob(r)
      BY <1>2, <1>3 DEF Open
<1>5. ASSUME pc'[r] \in BeforeCharge
      PROVE  pc[r] \in BeforeCharge
      BY <1>1, <1>5 DEF Move, Walk, Starts, Precheck, PageWalk, BatchWalk, Handled, BeforeCharge
<1>6. QED
      BY <1>4, <1>5

LEMMA ChargesStep ==
    TypeOK /\ LocalsTyped /\ Paths /\ JobsKnown /\ ChargesInv /\ [Next]_vars => ChargesInv'
<1> SUFFICES ASSUME TypeOK, LocalsTyped, Paths, JobsKnown, ChargesInv, [Next]_vars
             PROVE  ChargesInv'
    OBVIOUS
<1>1. Writers /\ JobsKnown' /\ LocalsTyped'
      BY WritersStep, JobsKnownStep, TypedStep
<1>2. Uncharges
      BY DEF ChargesInv, Uncharges
<1>3. ASSUME NEW r \in Requests, NEW p \in Pages
      PROVE  /\ \/ charged'[r][p] = charged[r][p]
                \/ charged[r][p] = 0 /\ charged'[r][p] = 1
             /\ charged'[r] # charged[r] => Bill(r) \/ (BillResults /\ r = By)
             /\ (Bill(r) \/ (BillResults /\ r = By)) /\ p \in Kept(r) => charged'[r][p] = 1
      BY <1>1, <1>2, ChargedStep
<1>4. /\ \A r \in Requests, p \in Pages :
            /\ pc[r] \in {"decide", "create"} /\ p \in Kept(r) => charged[r][p] = 1
            /\ ppc \in {"release", "merge"} /\ r = By /\ p \in Kept(r) => charged[r][p] = 1
            /\ charged[r][p] <= 1
      /\ \A d \in docs : \A p \in d.fresh : charged[d.by][p] = 1
      BY DEF ChargesInv, ChargedOnce
<1>5. \A r \in Requests, p \in Pages : charged[r][p] = 1 => charged'[r][p] = 1
      BY <1>3
<1>6. \A r \in Requests, p \in Pages : charged'[r][p] <= 1
      BY <1>3, <1>4
<1>7. ASSUME NEW d \in docs', NEW p \in d.fresh
      PROVE  charged'[d.by][p] = 1
  <2>1. docs \subseteq Documents
        BY DEF LocalsTyped
  <2>2. CASE d \in docs
        BY <1>4, <1>5, <1>7, <2>1, <2>2 DEF Documents
  <2>3. ASSUME NEW r \in Requests, CreateDocument(r), d.by = r, d.fresh = Kept(r)
        PROVE  charged'[d.by][p] = 1
    <3>1. pc[r] = "create" /\ p \in Pages
          BY <1>7, <2>3, PagesCounted DEF CreateDocument
    <3>2. QED
          BY <1>4, <1>5, <1>7, <2>3, <3>1
  <2>4. ASSUME MergeAndCreate, d.by = By, d.fresh = Kept(By)
        PROVE  charged'[d.by][p] = 1
    <3>1. ppc = "merge" /\ By \in Requests /\ p \in Pages
          BY <1>7, <2>4, BatchEntriesTyped DEF MergeAndCreate, Closing
    <3>2. QED
          BY <1>4, <1>5, <1>7, <2>4, <3>1
  <2>5. QED
        BY <1>1, <1>7, <2>2, <2>3, <2>4, DocsStep DEF Document
<1>8. ASSUME NEW r \in Requests, NEW p \in Pages, pc'[r] \in BeforeCharge \/ Open(r)'
      PROVE  charged'[r][p] = 0
  <2>1. pc[r] \in BeforeCharge \/ Open(r)
        BY <1>8, OpenStep DEF StoreJob, BeforeCharge
  <2>2. charged[r][p] = 0
        BY <1>2, <2>1 DEF Uncharges
  <2>3. ~Bill(r)
    <3>1. ASSUME Bill(r)
          PROVE  FALSE
      <4>1. pc'[r] = "decide"
            BY <3>1 DEF Bill, Goto, TypeOK
      <4>2. QED
            BY <1>1, <1>8, <4>1 DEF BeforeCharge, Open, JobsKnown, InHand, By
    <3>2. QED
          BY <3>1
  <2>4. ~(BillResults /\ r = By)
    <3>1. ASSUME BillResults, r = By
          PROVE  FALSE
      <4>1. ppc' = "release" /\ cur' = cur
            BY <3>1 DEF BillResults, PollGoto
      <4>2. ~Listed(r)' /\ pc'[r] \in {"submitted", "failed", "dead"}
            BY <1>1, <3>1, <4>1 DEF JobsKnown, InHand, Closing, By
      <4>3. QED
            BY <1>8, <4>1, <4>2 DEF BeforeCharge, Open
    <3>2. QED
          BY <3>1
  <2>5. QED
        BY <1>3, <2>2, <2>3, <2>4
<1>9. ASSUME NEW r \in Requests, NEW p \in Pages, pc'[r] \in {"decide", "create"}, p \in Kept(r)'
      PROVE  charged'[r][p] = 1
  <2>1. Move(r)
        BY MovesStep, MoveStep
  <2>2. \/ pc[r] = "extract" /\ Bill(r)
        \/ pc[r] \in {"decide", "create"}
        BY <1>9, <2>1 DEF Move, Walk, Starts, Precheck, PageWalk, BatchWalk, Handled
  <2>3. ~GeminiEnds(r)
        BY <2>2 DEF GeminiEnds, JobsKnown
  <2>4. ~Collect(r, p)
        BY <1>9, <2>2 DEF Collect
  <2>5. p \in Kept(r)
        BY <1>1, <1>9, <2>2, <2>3, <2>4, KeptStep
  <2>6. QED
        BY <1>3, <1>4, <1>5, <2>2, <2>5
<1>10. ASSUME NEW p \in Pages, ppc' \in {"release", "merge"}, p \in Kept(By)'
       PROVE  charged'[cur'.by][p] = 1
  <2>1. By \in Requests /\ cur' = cur /\ By' = By /\ ~PollJob
        BY <1>10, ByTyped, InHandStep DEF InHand, Closing, By, PollJob
  <2>2. ppc \in InHand \cup Closing
        BY <1>10, <2>1, InHandStep DEF InHand, Closing
  <2>3. pc[By] \in {"closing", "submitted", "failed", "dead"} /\ gemini[By] # "running"
        BY <2>2 DEF JobsKnown
  <2>4. ~GeminiEnds(By) /\ ~Collect(By, p)
        BY <2>3 DEF GeminiEnds, Collect
  <2>5. Kept(By)' = {q \in Uncached(By)' : page'[By][q] \in {"kept", "keptfigures"}}
        BY <2>1 DEF Kept
  <2>6. p \in Kept(By)
    <3>1. \A r \in Requests : By = r => (p \in Kept(r)' <=> p \in Kept(By)')
          BY <2>1 DEF Kept, Uncached, Requested, FoundPages
    <3>2. QED
          BY <1>1, <1>10, <2>1, <2>3, <2>4, <3>1, KeptStep
  <2>7. CASE ppc = "bill"
    <3>1. BillResults
          BY <1>1, <1>10, <2>7
          DEF Writers, PollerStep, ListJobs, PollJob, Sleep, KeepResults, ReleaseResults,
              MergeAndCreate, LinkDocument, Unlist, FailedJob, PollRaises, PollGoto, Crash
    <3>2. QED
          BY <1>3, <2>1, <2>6, <3>1 DEF By
  <2>8. CASE ppc \in {"release", "merge"}
        BY <1>4, <1>5, <2>1, <2>6, <2>8 DEF By
  <2>9. ppc \in {"bill", "release", "merge"}
        BY <1>1, <1>10, <2>2
        DEF InHand, Closing, Writers, PollerStep, ListJobs, PollJob, Sleep, KeepResults, BillResults,
            ReleaseResults, MergeAndCreate, LinkDocument, Unlist, FailedJob, PollRaises, PollGoto,
            Crash
  <2>10. QED
         BY <2>7, <2>8, <2>9
<1>11. QED
  <2>1. ChargedOnce'
        BY <1>6, <1>7 DEF ChargedOnce
  <2>2. \A r \in Requests, p \in Pages :
            ppc' \in {"release", "merge"} /\ r = By' /\ p \in Kept(r)' => charged'[r][p] = 1
        BY <1>10 DEF By, Kept, Uncached, Requested, FoundPages
  <2>3. QED
        BY <1>8, <1>9, <2>1, <2>2 DEF ChargesInv

\* No page is charged twice, whoever dies between the pages and their charge, and a
\* document has only fresh pages that were charged (process_with_billing,
\* process_batch_completion).
THEOREM EveryPageChargedOnce == Spec => []ChargedOnce
<1> DEFINE Inv == HoldingsInv /\ ChargesInv
<1>1. BatchInit => Inv
  <2>1. BatchInit => ChargesInv
        BY DEF BatchInit, Init, ChargesInv, ChargedOnce
  <2>2. QED
        BY <2>1, HoldingsInit
<1>2. Inv /\ [Next]_vars => Inv'
  <2> SUFFICES ASSUME Inv, [Next]_vars
               PROVE  Inv'
      OBVIOUS
  <2>1. TypeOK /\ LocalsTyped /\ Paths /\ JobsKnown /\ SlotsCounted /\ ReservationsOwned
        BY DEF HoldingsInv
  <2>2. HoldingsInv'
        BY <2>1, TypedStep, PathsStep, JobsKnownStep, SlotsStep, OwnedStep DEF HoldingsInv
  <2>3. QED
        BY <2>1, <2>2, ChargesStep
<1>3. Inv => ChargedOnce
      BY DEF ChargesInv
<1> HIDE DEF Inv
<1>4. QED
      BY <1>1, <1>2, <1>3, PTL DEF Spec

-----------------------------------------------------------------------------
(* What is spent                                                            *)

LEMMA TimesMonotone ==
    ASSUME NEW a \in Nat, NEW m \in Nat, NEW n \in Nat, m <= n
    PROVE  a * m \in Nat /\ a * m <= a * n
<1>1. PICK k \in Nat : n = m + k
  <2>1. n - m \in Nat /\ n = m + (n - m)
        OBVIOUS
  <2>2. QED
        BY <2>1
<1>2. a * m \in Nat /\ a * k \in Nat
      OBVIOUS
<1>3. a * n = a * m + a * k
      BY <1>1
<1>4. QED
      BY <1>2, <1>3

LEMMA TimesGrows ==
    ASSUME NEW a \in Nat, NEW b \in Nat, NEW n \in Nat, a <= b
    PROVE  a * n <= b * n /\ (a < b /\ n > 0 => b * n - a * n > 0)
<1>1. PICK k \in Nat : b = a + k
  <2>1. b - a \in Nat /\ b = a + (b - a)
        OBVIOUS
  <2>2. QED
        BY <2>1
<1>2. b * n = a * n + k * n
      BY <1>1
<1>3. a * n \in Nat /\ k * n \in Nat /\ (k > 0 /\ n > 0 => k * n > 0)
      OBVIOUS
<1>4. a < b => k > 0
      BY <1>1
<1>5. QED
      BY <1>2, <1>3, <1>4

\* What pages of a request cost, and are estimated to
LEMMA PagesCost ==
    ASSUME NEW S \in SUBSET Pages, NEW T \in SUBSET S
    PROVE  /\ Cardinality(S) \in Nat /\ Cardinality(T) \in Nat
           /\ Cost * Cardinality(T) \in Nat /\ Cost * Cardinality(S) \in Nat
           /\ Estimate * Cardinality(S) \in Nat /\ Tolerance * Cardinality(S) \in Nat
           /\ Cost * Cardinality(T) <= Cost * Cardinality(S)
           /\ Cost * Cardinality(T) <= Estimate * Cardinality(S)
           /\ Cost * Cardinality(S \ T) = Cost * Cardinality(S) - Cost * Cardinality(T)
           /\ S = {} => Cost * Cardinality(T) = 0
           /\ S # {} => Estimate * Cardinality(S) - Tolerance * Cardinality(S) > 0
<1>1. /\ IsFiniteSet(S) /\ Cost \in Nat /\ Estimate \in Nat /\ Tolerance \in Nat
      /\ Cost <= Estimate /\ Tolerance < Estimate
      BY ExtractionAssumption, FS_Subset
<1>2. IsFiniteSet(T) /\ IsFiniteSet(S \ T)
      BY <1>1, FS_Subset
<1>3. PICK s \in Nat, t \in Nat, d \in Nat :
          s = Cardinality(S) /\ t = Cardinality(T) /\ d = Cardinality(S \ T)
      BY <1>1, <1>2, FS_CardinalityType
<1>4. t <= s
      BY <1>1, <1>3, FS_Subset
<1>5. d = s - t
  <2>1. PICK I : I = S \cap T
        OBVIOUS
  <2>2. Cardinality(S \ T) = Cardinality(S) - Cardinality(I)
        BY <1>1, <2>1, FS_Difference
  <2>3. I = T
        BY <2>1
  <2>4. QED
        BY <1>3, <2>2, <2>3
<1>6. Cost * s = Cost * t + Cost * d
  <2>1. s = t + d
        BY <1>5
  <2>2. QED
        BY <1>1, <2>1
<1>7. /\ Cost * t \in Nat /\ Cost * s \in Nat /\ Cost * t <= Cost * s
      /\ Estimate * s \in Nat /\ Tolerance * s \in Nat
      BY <1>1, <1>4, TimesMonotone
<1>8. Cost * s <= Estimate * s /\ (s > 0 => Estimate * s - Tolerance * s > 0)
      BY <1>1, TimesGrows
<1>9. Cost * d = Cost * s - Cost * t
  <2>1. Cost * d \in Nat
        BY <1>1, TimesMonotone
  <2>2. QED
        BY <1>6, <1>7, <2>1
<1>10. (S = {} => t = 0) /\ (S # {} => s > 0)
       BY <1>1, <1>2, <1>3, <1>4, FS_EmptySet
<1>11. QED
       BY <1>1, <1>3, <1>7, <1>8, <1>9, <1>10

LEMMA PagesOfRequest ==
    ASSUME TypeOK, Paths, Estimated, NEW r \in Requests
    PROVE  Uncached(r) \in SUBSET Pages /\ Uncharged(r) \in SUBSET Uncached(r)
<1>1. CASE pc[r] = "idle"
      BY <1>1 DEF Estimated, Uncached, Uncharged
<1>2. CASE pc[r] # "idle"
      BY <1>2, PagesCounted DEF Uncharged
<1>3. QED
      BY <1>1, <1>2

\* The cache is looked up once, and what it lacked is what is worked on
LEMMA UncachedStep ==
    ASSUME TypeOK, LocalsTyped, Paths, JobsKnown, [Next]_vars, NEW r \in Requests
    PROVE  \/ Uncached(r)' = Uncached(r) /\ ~Lookup(r) /\ ~BatchLookup(r)
           \/ pc[r] = "idle" /\ pc'[r] \in {"refused", "lookup", "find"}
           \/ /\ pc[r] \in {"lookup", "find"} /\ Uncached(r)' \in SUBSET Pages
              /\ Lookup(r) \/ BatchLookup(r)
              /\ \/ pc'[r] = "available" /\ Uncached(r)' # {}
                 \/ pc'[r] \in {"extract", "direct"} /\ Uncached(r)' = {}
<1>1. Writers /\ Move(r) /\ DOMAIN found = Requests /\ pc \in [Requests -> Steps]
      BY WritersStep, MovesStep, MoveStep DEF TypeOK, LocalsTyped
<1>2. CASE pc[r] = "idle"
  <2>1. pc'[r] \in {"idle", "refused", "lookup", "find"}
        BY <1>1, <1>2 DEF Move, Walk, Starts, Precheck, PageWalk, BatchWalk, Handled, Running, Ended,
                         InHand, Closing, JobsKnown, ReleaseResults, Unlist, FailedJob
  <2>2. CASE pc'[r] = "idle"
    <3>1. found'[r] = found[r] /\ ask'[r] = ask[r]
          BY <1>1, <1>2, <2>2, IdleStep
    <3>2. QED
          BY <1>2, <3>1 DEF Uncached, Requested, FoundPages, Lookup, BatchLookup
  <2>3. QED
        BY <1>2, <2>1, <2>2
<1>3. CASE pc[r] # "idle" /\ found'[r] = found[r] /\ ~Lookup(r) /\ ~BatchLookup(r)
  <2>1. ask'[r] = ask[r]
        BY <1>1, <1>3, AskStep
  <2>2. QED
        BY <1>3, <2>1 DEF Uncached, Requested, FoundPages
<1>4. CASE Lookup(r) \/ BatchLookup(r)
  <2>1. PICK hits : hits = CachedPages(r)
        OBVIOUS
  <2>2. pc[r] \in {"lookup", "find"} /\ ask' = ask /\ found'[r] = hits
        BY <1>1, <1>4, <2>1 DEF Lookup, BatchLookup
  <2>3. pc'[r] = IF Requested(r) = {e.page : e \in hits}
                 THEN IF Lookup(r) THEN "extract" ELSE "direct" ELSE "available"
        BY <1>1, <1>4, <2>1 DEF Lookup, BatchLookup, Goto
  <2>4. Uncached(r)' = Requested(r) \ {e.page : e \in hits}
        BY <2>2 DEF Uncached, Requested, FoundPages
  <2>5. \A e \in hits : e.page \in Requested(r)
        BY <2>1 DEF CachedPages, At, Key
  <2>6. Requested(r) \in SUBSET Pages
        BY <2>2, AskTyped
  <2>7. QED
        BY <1>4, <2>2, <2>3, <2>4, <2>5, <2>6
<1>5. ASSUME NEW s \in Requests, Lookup(s) \/ BatchLookup(s), s # r
      PROVE  found'[r] = found[r]
      BY <1>1, <1>5 DEF Lookup, BatchLookup
<1>6. found'[r] = found[r] \/ Lookup(r) \/ BatchLookup(r)
      BY <1>1, <1>5 DEF Writers
<1>7. QED
      BY <1>2, <1>3, <1>4, <1>6

LEMMA RacedStep == Writers => raced \subseteq raced'
<1> SUFFICES ASSUME Writers
             PROVE  raced \subseteq raced'
    OBVIOUS
<1>1. ASSUME NEW r \in Requests, CheckLimit(r) \/ Reserve(r) \/ Release(r) \/ Undo(r)
      PROVE  raced \subseteq raced'
      BY <1>1 DEF CheckLimit, Reject, Reserve, Release, Undo, ReleaseOf
<1>2. ASSUME ReleaseResults \/ FailedJob
      PROVE  raced \subseteq raced'
      BY <1>2 DEF ReleaseResults, FailedJob, ReleaseOf
<1>3. QED
      BY <1>1, <1>2 DEF Writers

\* Work comes to be owed where the limit is checked, or there is none to do
LEMMA OwesStep ==
    ASSUME TypeOK, LocalsTyped, Paths, JobsKnown, ChargesInv, Estimated, Submitted, [Next]_vars,
           NEW r \in Requests, Owes(r)', ask'[r].user \notin raced'
    PROVE  /\ ask'[r] = ask[r]
           /\ Uncached(r)' \in SUBSET Pages /\ Uncharged(r)' \in SUBSET Uncached(r)'
           /\ \/ Owes(r) /\ Uncached(r)' = Uncached(r) /\ Uncharged(r)' \subseteq Uncharged(r)
              \/ /\ CheckLimit(r) /\ pc[r] = "pending" /\ pc'[r] = "reserve"
                 /\ Uncached(r)' = Uncached(r) /\ Uncharged(r)' \subseteq Uncharged(r)
              \/ pc'[r] = "extract" /\ Uncached(r)' = {}
<1>1. Writers /\ Move(r) /\ JobsKnown'
      BY WritersStep, MovesStep, MoveStep, JobsKnownStep
<1>2. raced \subseteq raced'
      BY <1>1, RacedStep
<1>3. ASSUME Relying(r)'
      PROVE  \/ Relying(r)
             \/ Lookup(r) /\ pc[r] = "lookup" /\ pc'[r] = "extract"
             \/ CheckLimit(r) /\ pc[r] = "pending" /\ pc'[r] = "reserve"
  <2>1. pc'[r] \notin {"idle", "refused", "lookup", "find", "available", "direct", "rejected",
                       "failed", "done", "closing", "dead", "mark"}
        BY <1>3 DEF Relying
  <2>2. QED
        BY <1>1, <1>3, <2>1
        DEF Move, Walk, Starts, Precheck, PageWalk, BatchWalk, Handled, Relying
<1>4. ASSUME pc'[r] = "dead", Open(r)'
      PROVE  Relying(r) \/ (pc[r] = "dead" /\ Open(r))
  <2>1. Open(r)
        BY <1>1, <1>4, OpenStep DEF StoreJob, Goto, TypeOK
  <2>2. ASSUME pc[r] # "dead"
        PROVE  Relying(r)
    <3>1. Crash /\ Running(r)
          BY <1>1, <1>4, <2>2 DEF Move, Walk, Starts, Precheck, PageWalk, BatchWalk, Handled
    <3>2. Listed(r)
      <4>1. ppc \in {"keep", "bill"} => pc[By] \in {"submitted", "failed", "dead"}
            BY DEF JobsKnown, InHand, Closing
      <4>2. QED
            BY <2>1, <3>1, <4>1 DEF Open, Running, Ended, By
    <3>3. pc[r] \in {"activate", "undo", "mark"} /\ gemini[r] # "none"
          BY <2>2, <3>1, <3>2 DEF JobsKnown, Submitted, Running, Ended
    <3>4. ask' = ask
          BY <3>1 DEF Crash
    <3>5. pc[r] # "mark"
          BY <1>2, <3>3, <3>4 DEF Submitted, User
    <3>6. QED
          BY <3>3, <3>5 DEF Relying
  <2>3. QED
        BY <2>1, <2>2
<1>5. \/ Owes(r)
      \/ Lookup(r) /\ pc[r] = "lookup" /\ pc'[r] = "extract"
      \/ CheckLimit(r) /\ pc[r] = "pending" /\ pc'[r] = "reserve"
      BY <1>3, <1>4 DEF Owes
<1>6. pc[r] # "idle" /\ ask'[r] = ask[r]
      BY <1>1, <1>5, AskStep, OpenStep DEF Owes, Relying
<1>7. Uncached(r) \in SUBSET Pages
      BY PagesOfRequest
<1>8. \A p \in Pages : charged'[r][p] = 0 => charged[r][p] = 0
  <2>1. Uncharges
        BY DEF ChargesInv, Uncharges
  <2>2. QED
        BY <1>1, <2>1, ChargedStep
<1>9. Uncharged(r)' \in SUBSET Uncached(r)'
      BY DEF Uncharged
<1>10. CASE Uncached(r)' = Uncached(r) /\ ~Lookup(r)
  <2>1. Uncharged(r)' \subseteq Uncharged(r)
        BY <1>7, <1>8, <1>10 DEF Uncharged
  <2>2. QED
        BY <1>5, <1>6, <1>7, <1>9, <1>10, <2>1
<1>11. CASE /\ pc[r] \in {"lookup", "find"} /\ Uncached(r)' \in SUBSET Pages
            /\ \/ pc'[r] = "available" /\ Uncached(r)' # {}
               \/ pc'[r] \in {"extract", "direct"} /\ Uncached(r)' = {}
  <2>1. pc'[r] = "extract"
        BY <1>5, <1>11 DEF Owes, Relying
  <2>2. QED
        BY <1>6, <1>9, <1>11, <2>1
<1>12. QED
       BY <1>6, <1>10, <1>11, UncachedStep

LEMMA BackedStep ==
    ASSUME TypeOK, LocalsTyped, Paths, JobsKnown, ChargesInv, Estimated, Submitted, [Next]_vars,
           NEW r \in Requests, Backed(r)', ask'[r].user \notin raced'
    PROVE  /\ ask'[r] = ask[r] /\ Uncached(r) # {} /\ Uncached(r)' = Uncached(r)
           /\ Uncharged(r)' \subseteq Uncharged(r)
           /\ Backed(r) \/ (Reserve(r) /\ pc[r] = "reserve")
<1>1. Owes(r)' /\ pc'[r] # "reserve" /\ Uncached(r)' # {}
      BY DEF Backed
<1>2. /\ ask'[r] = ask[r] /\ Uncached(r)' = Uncached(r)
      /\ Uncharged(r)' \subseteq Uncharged(r) /\ Owes(r)
      BY <1>1, OwesStep
<1>3. CASE pc[r] # "reserve"
      BY <1>1, <1>2, <1>3 DEF Backed
<1>4. ASSUME pc[r] = "reserve"
      PROVE  Reserve(r)
  <2>1. Move(r)
        BY MovesStep, MoveStep
  <2>2. pc'[r] # "dead"
    <3>1. ASSUME pc'[r] = "dead"
          PROVE  FALSE
      <4>1. Open(r)
            BY <1>1, <1>4, <3>1, OpenStep DEF Owes, Relying, StoreJob
      <4>2. QED
            BY <1>4, <4>1 DEF Open, JobsKnown, InHand, Closing, By
    <3>2. QED
          BY <3>1
  <2>3. QED
        BY <1>1, <1>4, <2>1, <2>2
        DEF Move, Walk, Starts, Precheck, PageWalk, BatchWalk, Handled, InHand, Closing, JobsKnown,
            ReleaseResults, Unlist, FailedJob
<1>5. QED
      BY <1>1, <1>2, <1>3, <1>4

\* Who is charged, and for what
Charges(r) == Bill(r) \/ (BillResults /\ r = By)

LEMMA BillStep ==
    ASSUME TypeOK, LocalsTyped, Paths, JobsKnown, ChargesInv, Submitted, [Next]_vars,
           NEW r \in Requests, Charges(r)
    PROVE  /\ UNCHANGED <<ask, found, seen, reserved, raced>> /\ User(r) \in Users
           /\ spent' = [spent EXCEPT ![User(r)] = @ + Cost * Cardinality(Kept(r))]
           /\ Kept(r) \in SUBSET Uncharged(r) /\ Uncharged(r) \in SUBSET Pages
           /\ Uncharged(r)' = Uncharged(r) \ Kept(r)
           /\ User(r) \notin raced => Owes(r) /\ pc[r] # "reserve"
<1>1. /\ UNCHANGED <<ask, found, seen, reserved, raced>>
      /\ spent' = [spent EXCEPT ![User(r)] = @ + Cost * Cardinality(Kept(r))]
      BY DEF Charges, Bill, BillResults, redis, PollerFrame
<1>2. pc[r] = "extract" \/ (Open(r) /\ pc[r] \in {"submitted", "failed", "dead"})
  <2>1. CASE Bill(r)
        BY <2>1 DEF Bill
  <2>2. CASE BillResults /\ r = By
        BY <2>2 DEF BillResults, JobsKnown, InHand, Closing, Open, By
  <2>3. QED
        BY <2>1, <2>2 DEF Charges
<1>3. User(r) \in Users /\ Uncharged(r) \in SUBSET Pages /\ Kept(r) \in SUBSET Pages
      BY <1>2, AskTyped, PagesCounted
<1>4. \A p \in Pages : charged[r][p] = 0
      BY <1>2 DEF ChargesInv, BeforeCharge
<1>5. Kept(r) \in SUBSET Uncharged(r)
      BY <1>3, <1>4 DEF Kept, Uncharged
<1>6. \A p \in Pages : charged'[r][p] = IF p \in Kept(r) THEN 1 ELSE 0
  <2>1. charged \in [Requests -> [Pages -> Nat]]
        BY DEF LocalsTyped
  <2>2. charged' = [charged EXCEPT ![r] =
                       [p \in Pages |-> IF p \in Kept(r) THEN @[p] + 1 ELSE @[p]]]
        BY DEF Charges, Bill, BillResults
  <2>3. QED
        BY <1>4, <2>1, <2>2
<1>7. Uncharged(r)' = Uncharged(r) \ Kept(r)
  <2>1. Uncached(r)' = Uncached(r) /\ Uncached(r) \in SUBSET Pages
        BY <1>1, <1>2, PagesCounted DEF Uncached, Requested, FoundPages
  <2>2. QED
        BY <1>4, <1>6, <2>1 DEF Uncharged
<1>8. User(r) \notin raced => Owes(r) /\ pc[r] # "reserve"
  <2>1. ASSUME User(r) \notin raced, pc[r] = "failed"
        PROVE  FALSE
    <3>1. gemini[r] # "none"
      <4>1. BillResults /\ r = By
            BY <2>1 DEF Charges, Bill
      <4>2. QED
            BY <4>1 DEF BillResults, JobsKnown, InHand
    <3>2. QED
          BY <2>1, <3>1 DEF Submitted
  <2>2. QED
        BY <1>2, <2>1 DEF Owes, Relying
<1>9. QED
      BY <1>1, <1>3, <1>5, <1>7, <1>8

\* What is charged was promised: work done moves from the promise to what is spent
LEMMA SpendStep ==
    ASSUME TypeOK, LocalsTyped, Paths, JobsKnown, ChargesInv, Submitted, [Next]_vars,
           NEW u \in Users, NEW f \in [Requests -> Nat], NEW g \in [Requests -> Nat],
           NEW x \in Requests, \A r \in Requests : r # x => g[r] <= f[r],
           \A r \in Requests : Charges(r) /\ User(r) = u =>
               r = x /\ g[r] + Cost * Cardinality(Kept(r)) <= f[r],
           spent'[u] = spent[u] => g[x] <= f[x]
    PROVE  spent'[u] + SumOf(g, Requests) <= spent[u] + SumOf(f, Requests)
<1>1. /\ IsFiniteSet(Requests) /\ spent \in [Users -> Nat] /\ spent'[u] \in Nat
      BY ExtractionAssumption, TypedStep DEF TypeOK
<1>2. SumOf(f, Requests) \in Int /\ SumOf(g, Requests) \in Int /\ f[x] \in Nat /\ g[x] \in Nat
      BY <1>1, SumIsInt
<1>3. SumOf(g, Requests) <= SumOf(f, Requests) + (g[x] - f[x])
  <2>1. IntOn(f, Requests) /\ IntOn(g, Requests)
        BY DEF IntOn
  <2>2. AtMost(g, f, Requests \ {x})
        BY DEF AtMost
  <2>3. QED
        BY <1>1, <2>1, <2>2, SumAtMostBut
<1>4. CASE spent'[u] = spent[u]
      BY <1>1, <1>2, <1>3, <1>4
<1>5. ASSUME NEW r \in Requests, Charges(r), spent'[u] # spent[u]
      PROVE  spent'[u] + SumOf(g, Requests) <= spent[u] + SumOf(f, Requests)
  <2>1. /\ User(r) \in Users /\ Kept(r) \in SUBSET Uncharged(r) /\ Uncharged(r) \in SUBSET Pages
        /\ spent' = [spent EXCEPT ![User(r)] = @ + Cost * Cardinality(Kept(r))]
        BY <1>5, BillStep
  <2>2. PICK n \in Nat : n = Cost * Cardinality(Kept(r))
        BY <2>1, PagesCost
  <2>3. User(r) = u /\ spent'[u] = spent[u] + n
        BY <1>1, <1>5, <2>1, <2>2
  <2>4. r = x /\ g[x] + n <= f[x]
        BY <1>5, <2>2, <2>3
  <2>5. spent[u] \in Nat
        BY <1>1
  <2>6. QED
        BY <1>2, <1>3, <2>3, <2>4, <2>5
<1>6. spent' = spent \/ \E r \in Requests : Charges(r)
  <2>1. Writers /\ By \in Requests
        BY WritersStep, ByTyped
  <2>2. QED
        BY <2>1 DEF Writers, Charges
<1>7. QED
      BY <1>4, <1>5, <1>6

\* The terms of the two totals, in a step
LEMMA PromisedTyped ==
    ASSUME TypeOK, Paths, Estimated, NEW r \in Requests
    PROVE  /\ Promised(r) \in Nat /\ EstimateOf(r) \in Nat /\ Promised(r) <= EstimateOf(r)
           /\ Uncached(r) = {} => Promised(r) = 0
           /\ Uncached(r) # {} => EstimateOf(r) > 0
<1>1. Uncached(r) \in SUBSET Pages /\ Uncharged(r) \in SUBSET Uncached(r)
      BY PagesOfRequest
<1>2. /\ Cost * Cardinality(Uncharged(r)) \in Nat /\ Estimate * Cardinality(Uncached(r)) \in Nat
      /\ Cost * Cardinality(Uncharged(r)) <= Estimate * Cardinality(Uncached(r))
      /\ Uncached(r) = {} => Cost * Cardinality(Uncharged(r)) = 0
      /\ Tolerance * Cardinality(Uncached(r)) \in Nat
      /\ Uncached(r) # {} =>
            Estimate * Cardinality(Uncached(r)) - Tolerance * Cardinality(Uncached(r)) > 0
      BY <1>1, PagesCost
<1>3. QED
      BY <1>2 DEF Promised, EstimateOf

LEMMA OwedTerm ==
    ASSUME TypeOK, LocalsTyped, Paths, JobsKnown, ChargesInv, Estimated, Submitted, [Next]_vars,
           NEW u, u \notin raced', NEW r \in Requests
    PROVE  /\ OwedBy(u)[r] \in Nat /\ OwedBy(u)'[r] \in Nat
           /\ \/ OwedBy(u)'[r] <= OwedBy(u)[r]
              \/ /\ CheckLimit(r) /\ pc[r] = "pending" /\ pc'[r] = "reserve" /\ User(r) = u
                 /\ OwedBy(u)'[r] <= EstimateOf(r)
           /\ Charges(r) /\ User(r) = u =>
                 OwedBy(u)'[r] + Cost * Cardinality(Kept(r)) <= OwedBy(u)[r]
<1>1. /\ OwedBy(u)[r] = IF User(r) = u /\ Owes(r) THEN Promised(r) ELSE 0
      /\ OwedBy(u)'[r] = IF User(r)' = u /\ Owes(r)' THEN Promised(r)' ELSE 0
      BY DEF OwedBy
<1>2. Uncached(r) \in SUBSET Pages /\ Uncharged(r) \in SUBSET Uncached(r)
      BY PagesOfRequest
<1>3. /\ Promised(r) \in Nat /\ Promised(r) <= EstimateOf(r) /\ EstimateOf(r) \in Nat
      /\ Promised(r) = Cost * Cardinality(Uncharged(r))
      /\ Promised(r)' = Cost * Cardinality(Uncharged(r)')
      BY PromisedTyped DEF Promised
<1>4. ASSUME Uncharged(r)' \subseteq Uncharged(r)
      PROVE  Promised(r)' \in Nat /\ Promised(r)' <= Promised(r)
      BY <1>2, <1>3, <1>4, PagesCost
<1>5. ASSUME User(r)' = u, Owes(r)'
      PROVE  /\ Promised(r)' \in Nat
             /\ \/ Promised(r)' <= OwedBy(u)[r]
                \/ /\ CheckLimit(r) /\ pc[r] = "pending" /\ pc'[r] = "reserve" /\ User(r) = u
                   /\ Promised(r)' <= EstimateOf(r)
  <2>1. ask'[r].user \notin raced'
        BY <1>5 DEF User
  <2>2. /\ ask'[r] = ask[r]
        /\ Uncached(r)' \in SUBSET Pages /\ Uncharged(r)' \in SUBSET Uncached(r)'
        /\ \/ Owes(r) /\ Uncharged(r)' \subseteq Uncharged(r)
           \/ /\ CheckLimit(r) /\ pc[r] = "pending" /\ pc'[r] = "reserve"
              /\ Uncharged(r)' \subseteq Uncharged(r)
           \/ Uncached(r)' = {}
        BY <1>5, <2>1, OwesStep
  <2>3. User(r) = u
        BY <1>5, <2>2 DEF User
  <2>4. CASE Owes(r) /\ Uncharged(r)' \subseteq Uncharged(r)
        BY <1>1, <1>4, <2>3, <2>4
  <2>5. CASE /\ CheckLimit(r) /\ pc[r] = "pending" /\ pc'[r] = "reserve"
             /\ Uncharged(r)' \subseteq Uncharged(r)
        BY <1>3, <1>4, <2>3, <2>5
  <2>6. CASE Uncached(r)' = {}
    <3>1. Promised(r)' = 0
          BY <1>3, <2>2, <2>6, PagesCost
    <3>2. QED
          BY <1>1, <1>3, <3>1
  <2>7. QED
        BY <2>2, <2>4, <2>5, <2>6
<1>6. ASSUME Charges(r), User(r) = u
      PROVE  OwedBy(u)'[r] + Cost * Cardinality(Kept(r)) <= OwedBy(u)[r]
  <2>1. /\ Kept(r) \in SUBSET Uncharged(r) /\ Uncharged(r)' = Uncharged(r) \ Kept(r)
        /\ raced' = raced /\ (User(r) \notin raced => Owes(r))
        BY <1>6, BillStep
  <2>2. OwedBy(u)[r] = Promised(r)
        BY <1>1, <1>6, <2>1
  <2>3. /\ Cost * Cardinality(Kept(r)) \in Nat /\ Cost * Cardinality(Kept(r)) <= Promised(r)
        /\ Promised(r)' = Promised(r) - Cost * Cardinality(Kept(r))
        BY <1>2, <1>3, <2>1, PagesCost
  <2>4. QED
        BY <1>1, <1>3, <2>2, <2>3
<1>7. QED
      BY <1>1, <1>3, <1>5, <1>6

LEMMA BackedTerm ==
    ASSUME TypeOK, LocalsTyped, Paths, JobsKnown, ChargesInv, Estimated, Submitted, [Next]_vars,
           NEW u, u \notin raced', NEW r \in Requests
    PROVE  /\ BackedBy(u)[r] \in Nat /\ BackedBy(u)'[r] \in Nat
           /\ \/ BackedBy(u)'[r] <= BackedBy(u)[r]
              \/ /\ Reserve(r) /\ pc[r] = "reserve" /\ User(r) = u
                 /\ BackedBy(u)'[r] <= EstimateOf(r)
           /\ Charges(r) /\ User(r) = u =>
                 BackedBy(u)'[r] + Cost * Cardinality(Kept(r)) <= BackedBy(u)[r]
<1>1. /\ BackedBy(u)[r] = IF User(r) = u /\ Backed(r) THEN Promised(r) ELSE 0
      /\ BackedBy(u)'[r] = IF User(r)' = u /\ Backed(r)' THEN Promised(r)' ELSE 0
      BY DEF BackedBy
<1>2. Uncached(r) \in SUBSET Pages /\ Uncharged(r) \in SUBSET Uncached(r)
      BY PagesOfRequest
<1>3. /\ Promised(r) \in Nat /\ Promised(r) <= EstimateOf(r) /\ EstimateOf(r) \in Nat
      /\ Promised(r) = Cost * Cardinality(Uncharged(r))
      /\ Promised(r)' = Cost * Cardinality(Uncharged(r)')
      BY PromisedTyped DEF Promised
<1>4. ASSUME User(r)' = u, Backed(r)'
      PROVE  /\ Promised(r)' \in Nat /\ User(r) = u
             /\ \/ Promised(r)' <= BackedBy(u)[r]
                \/ Reserve(r) /\ pc[r] = "reserve" /\ Promised(r)' <= EstimateOf(r)
  <2>1. ask'[r].user \notin raced'
        BY <1>4 DEF User
  <2>2. /\ ask'[r] = ask[r] /\ Uncharged(r)' \subseteq Uncharged(r)
        /\ Backed(r) \/ (Reserve(r) /\ pc[r] = "reserve")
        BY <1>4, <2>1, BackedStep
  <2>3. Promised(r)' \in Nat /\ Promised(r)' <= Promised(r)
        BY <1>2, <1>3, <2>2, PagesCost
  <2>4. User(r) = u
        BY <1>4, <2>2 DEF User
  <2>5. QED
        BY <1>1, <1>3, <2>2, <2>3, <2>4
<1>5. ASSUME Charges(r), User(r) = u
      PROVE  BackedBy(u)'[r] + Cost * Cardinality(Kept(r)) <= BackedBy(u)[r]
  <2>1. /\ Kept(r) \in SUBSET Uncharged(r) /\ Uncharged(r)' = Uncharged(r) \ Kept(r)
        /\ raced' = raced /\ (User(r) \notin raced => Owes(r) /\ pc[r] # "reserve")
        BY <1>5, BillStep
  <2>2. /\ Cost * Cardinality(Kept(r)) \in Nat /\ Cost * Cardinality(Kept(r)) <= Promised(r)
        /\ Promised(r)' = Promised(r) - Cost * Cardinality(Kept(r))
        BY <1>2, <1>3, <2>1, PagesCost
  <2>3. CASE Uncached(r) # {}
    <3>1. Backed(r)
          BY <1>5, <2>1, <2>3 DEF Backed
    <3>2. QED
          BY <1>1, <1>3, <1>5, <2>2, <3>1
  <2>4. CASE Uncached(r) = {}
    <3>1. Promised(r) = 0
          BY <2>4, PromisedTyped
    <3>2. QED
          BY <1>1, <2>2, <2>4, <3>1, <1>3
  <2>5. QED
        BY <2>3, <2>4
<1>6. QED
      BY <1>1, <1>3, <1>4, <1>5

\* How a user's reservations change while nobody else comes in between
Frees(r) == /\ pc'[r] \in {"done", "mark", "closing"} /\ ~Interferes(r)
            /\ reserved' = [reserved EXCEPT ![User(r)] = ReleaseReservation(@, Content(r))]

LEMMA HashStep ==
    ASSUME TypeOK, LocalsTyped, Paths, JobsKnown, [Next]_vars, NEW u \in Users, u \notin raced'
    PROVE  \/ reserved'[u] = reserved[u]
           \/ \E r \in Requests :
                 /\ Reserve(r) /\ User(r) = u /\ reserved[u][Content(r)] = 0
                 /\ reserved'[u] = [reserved[u] EXCEPT ![Content(r)] = EstimateOf(r)]
           \/ \E r \in Requests :
                 /\ Frees(r) /\ User(r) = u
                 /\ reserved'[u] = [reserved[u] EXCEPT ![Content(r)] = 0]
<1>1. /\ Writers /\ By \in Requests /\ pc \in [Requests -> Steps]
      /\ reserved \in [Users -> [Contents -> Nat]]
      BY WritersStep, ByTyped DEF TypeOK, Hashes
<1>2. ASSUME NEW r \in Requests, Reserve(r)
      PROVE  \/ reserved'[u] = reserved[u]
             \/ /\ User(r) = u /\ reserved[u][Content(r)] = 0
                /\ reserved'[u] = [reserved[u] EXCEPT ![Content(r)] = EstimateOf(r)]
  <2>1. /\ reserved' = [reserved EXCEPT ![User(r)] = [@ EXCEPT ![Content(r)] = EstimateOf(r)]]
        /\ raced' = IF reserved[User(r)][Content(r)] # 0 THEN raced \cup {User(r)} ELSE raced
        BY <1>2 DEF Reserve, CreateReservation
  <2>2. CASE User(r) = u
        BY <1>1, <2>1, <2>2
  <2>3. CASE User(r) # u
        BY <1>1, <2>1, <2>3
  <2>4. QED
        BY <2>2, <2>3
<1>3. ASSUME NEW r \in Requests, NEW b \in {"done", "mark", "closing"}, Goto(r, b),
             reserved' = [reserved EXCEPT ![User(r)] = ReleaseReservation(@, Content(r))],
             Interferes(r) => User(r) \in raced'
      PROVE  \/ reserved'[u] = reserved[u]
             \/ /\ Frees(r) /\ User(r) = u
                /\ reserved'[u] = [reserved[u] EXCEPT ![Content(r)] = 0]
  <2>1. CASE User(r) = u
    <3>1. pc'[r] = b
          BY <1>1, <1>3 DEF Goto
    <3>2. Frees(r)
          BY <1>3, <2>1, <3>1 DEF Frees
    <3>3. reserved'[u] = [reserved[u] EXCEPT ![Content(r)] = 0]
          BY <1>1, <1>3, <2>1 DEF ReleaseReservation
    <3>4. QED
          BY <2>1, <3>2, <3>3
  <2>2. CASE User(r) # u
        BY <1>1, <1>3, <2>2
  <2>3. QED
        BY <2>1, <2>2
<1>4. ASSUME NEW r \in Requests, Release(r) \/ Undo(r)
      PROVE  \/ reserved'[u] = reserved[u]
             \/ /\ Frees(r) /\ User(r) = u
                /\ reserved'[u] = [reserved[u] EXCEPT ![Content(r)] = 0]
  <2>1. Goto(r, "done") \/ Goto(r, "mark")
        BY <1>4 DEF Release, Undo
  <2>2. /\ reserved' = [reserved EXCEPT ![User(r)] = ReleaseReservation(@, Content(r))]
        /\ Interferes(r) => User(r) \in raced'
        BY <1>4 DEF Release, Undo, ReleaseOf
  <2>3. QED
        BY <1>3, <2>1, <2>2
<1>5. ASSUME ReleaseResults \/ FailedJob
      PROVE  \/ reserved'[u] = reserved[u]
             \/ /\ Frees(By) /\ User(By) = u
                /\ reserved'[u] = [reserved[u] EXCEPT ![Content(By)] = 0]
  <2>1. Goto(By, "done") \/ Goto(By, "closing")
        BY <1>5 DEF ReleaseResults, FailedJob
  <2>2. /\ reserved' = [reserved EXCEPT ![User(By)] = ReleaseReservation(@, Content(By))]
        /\ Interferes(By) => User(By) \in raced'
        BY <1>5 DEF ReleaseResults, FailedJob, ReleaseOf
  <2>3. QED
        BY <1>1, <1>3, <2>1, <2>2
<1>6. QED
      BY <1>1, <1>2, <1>4, <1>5 DEF Writers

\* Two requests never move in one step, unless the gateway dies
LEMMA OneMoves ==
    ASSUME TypeOK, NEW r \in Requests, NEW s \in Requests, NEW a, Goto(r, a), pc'[s] # pc[s]
    PROVE  r = s
BY DEF Goto, TypeOK

\* What backs the reservations
LEMMA BackedPositive ==
    ASSUME TypeOK, Paths, Estimated, NEW u, Reserved(u), NEW r \in Requests,
           User(r) = u, Backed(r)
    PROVE  reserved[u][Content(r)] # 0
<1>1. EstimateOf(r) > 0 /\ EstimateOf(r) \in Nat
      BY PromisedTyped DEF Backed
<1>2. reserved[u][Content(r)] >= EstimateOf(r)
      BY DEF Reserved
<1>3. QED
  <2>1. ~(0 >= EstimateOf(r))
        BY <1>1
  <2>2. QED
        BY <1>2, <2>1

LEMMA OpenIsBatch ==
    ASSUME TypeOK, JobsKnown, NEW r \in Requests, Open(r)
    PROVE  ask[r].batch
<1>1. CASE Listed(r)
  <2>1. "PENDING" \in Statuses
        BY DEF Statuses
  <2>2. Pending(r) \in Jobs
        BY <2>1 DEF Pending, Job, Jobs
  <2>3. Pending(r).by = r /\ Pending(r) # NoJob
        BY <2>2, JobAssumption DEF Pending, Job
  <2>4. QED
        BY <1>1, <2>3 DEF Listed, JobsKnown
<1>2. CASE cur.by = r /\ ppc \in {"keep", "bill"}
      BY <1>2 DEF JobsKnown, InHand, By
<1>3. QED
      BY <1>1, <1>2 DEF Open

LEMMA ReservedStep ==
    ASSUME TypeOK, LocalsTyped, Paths, JobsKnown, ChargesInv, Estimated, Submitted, [Next]_vars,
           NEW u \in Users, u \notin raced', Reserved(u)
    PROVE  Reserved(u)'
<1>1. pc \in [Requests -> Steps] /\ reserved \in [Users -> [Contents -> Nat]]
      BY DEF TypeOK, Hashes
<1>2. ASSUME NEW r \in Requests, User(r)' = u, Backed(r)'
      PROVE  /\ User(r) = u /\ Content(r)' = Content(r) /\ EstimateOf(r)' = EstimateOf(r)
             /\ pc[r] # "idle" /\ pc'[r] \notin {"done", "mark", "closing"}
             /\ Backed(r) \/ (Reserve(r) /\ pc[r] = "reserve")
  <2>1. /\ ask'[r] = ask[r] /\ Uncached(r)' = Uncached(r)
        /\ Backed(r) \/ (Reserve(r) /\ pc[r] = "reserve")
        BY <1>2, BackedStep DEF User
  <2>2. pc'[r] \notin {"done", "mark", "closing"}
        BY <1>2 DEF Backed, Owes, Relying
  <2>3. pc[r] # "idle"
        BY <2>1 DEF Backed, Owes, Relying
  <2>4. QED
        BY <1>2, <2>1, <2>2, <2>3 DEF User, Content, EstimateOf
<1>3. ASSUME NEW r \in Requests, NEW s \in Requests, Reserve(r), User(r) = u,
             Backed(s), User(s) = u, Content(s) = Content(r)
      PROVE  FALSE
  <2>1. reserved[u][Content(r)] # 0
        BY <1>3, BackedPositive
  <2>2. u \in raced'
        BY <1>3, <2>1 DEF Reserve
  <2>3. QED
        BY <2>2
<1>4. ASSUME NEW r \in Requests, User(r)' = u, Backed(r)'
      PROVE  reserved'[u][Content(r)] >= EstimateOf(r)
  <2>1. User(r) = u /\ Content(r) \in Contents
        BY <1>2, <1>4, AskTyped
  <2>2. CASE Reserve(r)
    <3>1. reserved' = [reserved EXCEPT ![u] = [@ EXCEPT ![Content(r)] = EstimateOf(r)]]
          BY <2>1, <2>2 DEF Reserve, CreateReservation
    <3>2. reserved'[u][Content(r)] = EstimateOf(r)
          BY <1>1, <2>1, <3>1
    <3>3. QED
          BY <3>2, PromisedTyped
  <2>3. CASE ~Reserve(r)
    <3>1. Backed(r) /\ reserved[u][Content(r)] >= EstimateOf(r)
          BY <1>2, <1>4, <2>1, <2>3 DEF Reserved
    <3>2. ASSUME NEW s \in Requests, Reserve(s), User(s) = u,
                 reserved'[u] = [reserved[u] EXCEPT ![Content(s)] = EstimateOf(s)]
          PROVE  reserved'[u][Content(r)] = reserved[u][Content(r)]
      <4>1. Content(s) # Content(r)
            BY <1>3, <2>1, <3>1, <3>2
      <4>2. QED
            BY <1>1, <2>1, <3>2, <4>1
    <3>3. ASSUME NEW s \in Requests, Frees(s), User(s) = u,
                 reserved'[u] = [reserved[u] EXCEPT ![Content(s)] = 0]
          PROVE  reserved'[u][Content(r)] = reserved[u][Content(r)]
      <4>1. s # r /\ ~SharesField(s)
            BY <1>2, <1>4, <3>3 DEF Frees, Interferes
      <4>2. r \in Rivals(s)
            BY <1>2, <1>4, <2>1, <3>3, <4>1 DEF Rivals
      <4>3. Relying(r) \/ (pc[r] = "dead" /\ ask[r].batch)
            BY <3>1, OpenIsBatch DEF Backed, Owes
      <4>4. Content(s) # Content(r)
            BY <4>1, <4>2, <4>3 DEF SharesField
      <4>5. QED
            BY <1>1, <2>1, <3>3, <4>4
    <3>4. QED
          BY <3>1, <3>2, <3>3, HashStep
  <2>4. QED
        BY <2>2, <2>3
<1>5. ASSUME NEW r \in Requests, User(r)' = u, Backed(r)',
             NEW s \in Requests, User(s)' = u, Backed(s)', Content(r)' = Content(s)'
      PROVE  r = s
  <2>1. /\ User(r) = u /\ User(s) = u /\ Content(r) = Content(s)
        /\ Backed(r) \/ (Reserve(r) /\ pc[r] = "reserve")
        /\ Backed(s) \/ (Reserve(s) /\ pc[s] = "reserve")
        BY <1>2, <1>5
  <2>2. CASE Backed(r) /\ Backed(s)
        BY <2>1, <2>2 DEF Reserved
  <2>3. CASE Reserve(r) /\ Reserve(s)
    <3>1. PICK a : Goto(r, a)
          BY <2>3 DEF Reserve
    <3>2. pc[s] = "reserve" /\ pc'[s] # "reserve"
          BY <1>1, <2>3 DEF Reserve, Goto
    <3>3. QED
          BY <3>1, <3>2, OneMoves
  <2>4. QED
        BY <1>3, <2>1, <2>2, <2>3
<1>6. QED
  <2>1. ASSUME NEW r \in Requests, User(r)' = u, Backed(r)'
        PROVE  /\ reserved'[u][Content(r)'] >= EstimateOf(r)'
               /\ \A s \in Requests :
                     User(s)' = u /\ Backed(s)' /\ Content(s)' = Content(r)' => r = s
        BY <1>2, <1>4, <1>5, <2>1
  <2>2. QED
        BY <2>1 DEF Reserved

LEMMA OneReservesStep ==
    ASSUME TypeOK, LocalsTyped, Paths, JobsKnown, [Next]_vars, NEW u, u \notin raced',
           OneReserves(u)
    PROVE  OneReserves(u)'
<1>1. Writers /\ pc \in [Requests -> Steps]
      BY WritersStep DEF TypeOK
<1>2. ASSUME NEW r \in Requests, User(r)' = u, pc'[r] = "reserve"
      PROVE  /\ User(r) = u /\ pc[r] # "idle"
             /\ pc[r] = "reserve" \/ (CheckLimit(r) /\ pc[r] = "pending")
  <2>1. Move(r)
        BY MovesStep, MoveStep
  <2>2. pc[r] = "reserve" \/ (CheckLimit(r) /\ pc[r] = "pending")
        BY <1>2, <2>1 DEF Move, Walk, Starts, Precheck, PageWalk, BatchWalk, Handled
  <2>3. ask'[r] = ask[r]
        BY <1>1, <2>2, AskStep
  <2>4. QED
        BY <1>2, <2>2, <2>3 DEF User
<1>3. ASSUME NEW r \in Requests, User(r)' = u, pc'[r] = "reserve",
             NEW s \in Requests, User(s)' = u, pc'[s] = "reserve", CheckLimit(r)
      PROVE  r = s
  <2>1. CASE CheckLimit(s)
    <3>1. PICK a : Goto(r, a)
          BY <1>3 DEF CheckLimit, Reject
    <3>2. pc[s] = "pending"
          BY <2>1 DEF CheckLimit
    <3>3. QED
          BY <1>3, <3>1, <3>2, OneMoves
  <2>2. CASE ~CheckLimit(s)
    <3>1. User(r) = u /\ User(s) = u /\ pc[s] = "reserve"
          BY <1>2, <1>3, <2>2
    <3>2. ASSUME s # r
          PROVE  FALSE
      <4>1. \E q \in Rivals(r) : pc[q] = "reserve"
            BY <3>1, <3>2 DEF Rivals
      <4>2. pc'[r] # "rejected"
            BY <1>3
      <4>3. raced' = raced \cup {User(r)}
            BY <1>1, <1>3, <4>1, <4>2 DEF CheckLimit, Reject, Goto
      <4>4. QED
            BY <3>1, <4>3
    <3>3. QED
          BY <3>2
  <2>3. QED
        BY <2>1, <2>2
<1>4. ASSUME NEW r \in Requests, User(r)' = u, pc'[r] = "reserve",
             NEW s \in Requests, User(s)' = u, pc'[s] = "reserve"
      PROVE  r = s
  <2>1. CASE CheckLimit(r) \/ CheckLimit(s)
        BY <1>3, <1>4, <2>1
  <2>2. CASE ~CheckLimit(r) /\ ~CheckLimit(s)
        BY <1>2, <1>4, <2>2 DEF OneReserves
  <2>3. QED
        BY <2>1, <2>2
<1>5. QED
      BY <1>4 DEF OneReserves

\* The totals are of naturals
LEMMA TotalsTyped ==
    ASSUME TypeOK, Paths, Estimated, NEW u
    PROVE  /\ OwedBy(u) \in [Requests -> Nat] /\ BackedBy(u) \in [Requests -> Nat]
           /\ SumOf(OwedBy(u), Requests) \in Nat /\ SumOf(BackedBy(u), Requests) \in Nat
<1>1. \A r \in Requests : Promised(r) \in Nat
      BY PromisedTyped
<1>2. OwedBy(u) \in [Requests -> Nat] /\ BackedBy(u) \in [Requests -> Nat]
      BY <1>1 DEF OwedBy, BackedBy
<1>3. IsFiniteSet(Requests)
      BY ExtractionAssumption
<1>4. QED
      BY <1>2, <1>3, SumNat

\* Reservations are enough for what they back
LEMMA BackedWithinHash ==
    ASSUME TypeOK, Paths, Estimated, NEW u \in Users, Reserved(u)
    PROVE  /\ SumOf(BackedBy(u), Requests) <= PendingTotal(reserved[u])
           /\ PendingTotal(reserved[u]) \in Nat
<1>1. PICK f : f = BackedBy(u)
      OBVIOUS
<1>2. PICK k : k = [r \in Requests |-> Content(r)]
      OBVIOUS
<1>3. PICK g \in [Contents -> Nat] : g = reserved[u]
      BY DEF TypeOK, Hashes
<1>4. \A r \in Requests : f[r] \in Nat
      BY <1>1, TotalsTyped
<1>5. ASSUME NEW r \in Requests, f[r] > 0
      PROVE  /\ User(r) = u /\ Backed(r) /\ k[r] = Content(r) /\ k[r] \in Contents
             /\ f[r] <= g[k[r]]
  <2>1. User(r) = u /\ Backed(r) /\ f[r] = Promised(r)
        BY <1>1, <1>5 DEF BackedBy
  <2>2. Content(r) \in Contents
        BY <2>1, AskTyped DEF Backed, Owes, Relying
  <2>3. Promised(r) \in Nat /\ EstimateOf(r) \in Nat /\ Promised(r) <= EstimateOf(r)
        BY PromisedTyped
  <2>4. g[Content(r)] >= EstimateOf(r) /\ g[Content(r)] \in Nat
        BY <1>3, <2>1, <2>2 DEF Reserved
  <2>5. QED
        BY <1>2, <2>1, <2>2, <2>3, <2>4
<1>6. Placed(f, Requests, k, g, Contents)
      BY <1>5 DEF Placed, Reserved
<1>7. IsFiniteSet(Requests) /\ IsFiniteSet(Contents)
      BY ExtractionAssumption
<1>8. SumOf(f, Requests) <= SumOf(g, Contents) /\ SumOf(g, Contents) \in Nat
      BY <1>4, <1>6, <1>7, SumPlaced, SumNat
<1>9. QED
      BY <1>1, <1>3, <1>8 DEF PendingTotal

LEMMA OneCharges ==
    ASSUME TypeOK, [Next]_vars
    PROVE  \E x \in Requests : \A s \in Requests : Charges(s) => s = x
<1>1. pc \in [Requests -> Steps] /\ Requests # {}
      BY ExtractionAssumption DEF TypeOK
<1>2. ASSUME NEW s \in Requests, NEW t \in Requests, Charges(s), Charges(t)
      PROVE  s = t
  <2>1. CASE Bill(s) /\ Bill(t)
    <3>1. Goto(s, "decide") /\ pc[t] = "extract" /\ pc'[t] = "decide"
          BY <1>1, <2>1 DEF Bill, Goto
    <3>2. QED
          BY <3>1, OneMoves
  <2>2. CASE ~(Bill(s) /\ Bill(t))
        BY <1>1, <1>2, <2>2 DEF Charges, Bill, BillResults, Goto
  <2>3. QED
        BY <2>1, <2>2
<1>3. QED
      BY <1>1, <1>2

\* What a request read as used stays enough until it is compared with the hash
LEMMA SeenStep ==
    ASSUME TypeOK, LocalsTyped, Paths, JobsKnown, ChargesInv, Estimated, Submitted, [Next]_vars,
           NEW u \in Users, u \notin raced', Reserved(u), SeenEnough(u),
           NEW r \in Requests, User(r)' = u, pc'[r] = "pending"
    PROVE  spent'[u] + SumOf(BackedBy(u)', Requests) <= seen'[r] + PendingTotal(reserved'[u])
<1>1. /\ Writers /\ Move(r) /\ pc \in [Requests -> Steps] /\ spent \in [Users -> Nat]
      /\ reserved \in [Users -> [Contents -> Nat]] /\ seen \in [Requests -> Nat]
      /\ IsFiniteSet(Requests) /\ IsFiniteSet(Contents)
      BY WritersStep, MovesStep, MoveStep, ExtractionAssumption DEF TypeOK, LocalsTyped, Hashes
<1>2. (pc[r] = "limit" /\ ReadUsed(r)) \/ pc[r] = "pending"
      BY <1>1 DEF Move, Walk, Starts, Precheck, PageWalk, BatchWalk, Handled
<1>3. ask'[r] = ask[r] /\ User(r) = u
      BY <1>1, <1>2, AskStep DEF User
<1>4. PICK f \in [Requests -> Nat] : f = BackedBy(u) /\ SumOf(f, Requests) \in Nat
      BY TotalsTyped
<1>5. \A s \in Requests :
         /\ f[s] \in Nat /\ BackedBy(u)'[s] \in Nat
         /\ \/ BackedBy(u)'[s] <= f[s]
            \/ /\ Reserve(s) /\ pc[s] = "reserve" /\ User(s) = u
               /\ BackedBy(u)'[s] <= EstimateOf(s)
         /\ Charges(s) /\ User(s) = u => BackedBy(u)'[s] + Cost * Cardinality(Kept(s)) <= f[s]
      BY <1>4, BackedTerm
<1>6. PICK g \in [Requests -> Nat] : g = BackedBy(u)'
  <2>1. BackedBy(u)' \in [Requests -> Nat]
        BY <1>5 DEF BackedBy
  <2>2. QED
        BY <2>1
<1>7. SumOf(g, Requests) \in Nat
      BY <1>1, <1>6, SumNat
<1>8. ASSUME \A s \in Requests : User(s) = u => ~Reserve(s)
      PROVE  spent'[u] + SumOf(g, Requests) <= spent[u] + SumOf(f, Requests)
  <2>1. \A s \in Requests : g[s] <= f[s]
        BY <1>5, <1>6, <1>8
  <2>2. PICK x \in Requests : \A s \in Requests : Charges(s) => s = x
        BY OneCharges
  <2>3. \A s \in Requests : Charges(s) /\ User(s) = u =>
            s = x /\ g[s] + Cost * Cardinality(Kept(s)) <= f[s]
        BY <1>5, <1>6, <2>2
  <2>4. QED
        BY <2>1, <2>3, SpendStep
<1>9. CASE ReadUsed(r)
  <2>1. /\ seen'[r] = spent[u] /\ spent' = spent /\ reserved' = reserved /\ raced' = raced
        BY <1>1, <1>3, <1>9 DEF ReadUsed, redis, stores, history
  <2>2. \A s \in Requests : ~Reserve(s)
    <3>1. ASSUME NEW s \in Requests, Reserve(s)
          PROVE  FALSE
      <4>1. PICK a : Goto(s, a)
            BY <3>1 DEF Reserve
      <4>2. pc[s] = "reserve" /\ pc[r] = "limit" /\ pc'[r] = "pending"
            BY <1>9, <3>1 DEF Reserve, ReadUsed
      <4>3. QED
            BY <4>1, <4>2, OneMoves
    <3>2. QED
          BY <3>1
  <2>3. SumOf(f, Requests) <= PendingTotal(reserved[u]) /\ PendingTotal(reserved[u]) \in Nat
        BY <1>4, BackedWithinHash
  <2>4. spent'[u] + SumOf(g, Requests) <= spent[u] + SumOf(f, Requests)
        BY <1>8, <2>2
  <2>5. spent[u] \in Nat
        BY <1>1
  <2>6. QED
        BY <1>4, <1>6, <1>7, <2>1, <2>3, <2>4, <2>5
<1>10. CASE pc[r] = "pending"
  <2>1. spent[u] + SumOf(f, Requests) <= seen[r] + PendingTotal(reserved[u])
        BY <1>3, <1>4, <1>10 DEF SeenEnough
  <2>2. seen'[r] = seen[r] /\ seen[r] \in Nat
    <3>1. ASSUME NEW s \in Requests, ReadUsed(s)
          PROVE  s # r /\ seen'[r] = seen[r]
          BY <1>1, <1>10, <3>1 DEF ReadUsed
    <3>2. QED
          BY <1>1, <3>1 DEF Writers
  <2>3. PendingTotal(reserved[u]) \in Nat /\ spent[u] \in Nat
        BY <1>1, BackedWithinHash
  <2>4. CASE \A s \in Requests : User(s) = u => ~Reserve(s)
    <3>1. spent'[u] + SumOf(g, Requests) <= spent[u] + SumOf(f, Requests)
          BY <1>8, <2>4
    <3>2. spent'[u] \in Nat
          BY TypedStep DEF TypeOK
    <3>3. reserved'[u] = reserved[u]
      <4>1. ~\E s \in Requests : Frees(s) /\ User(s) = u
        <5>1. ASSUME NEW s \in Requests, Frees(s), User(s) = u
              PROVE  FALSE
          <6>1. s # r /\ ~\E q \in Rivals(s) : pc[q] = "pending"
                BY <1>10, <5>1 DEF Frees, Interferes
          <6>2. r \in Rivals(s)
                BY <1>3, <1>10, <5>1, <6>1 DEF Rivals
          <6>3. QED
                BY <1>10, <6>1, <6>2
        <5>2. QED
              BY <5>1
      <4>2. QED
            BY <2>4, <4>1, HashStep
    <3>4. QED
          BY <1>4, <1>6, <1>7, <2>1, <2>2, <2>3, <3>1, <3>2, <3>3
  <2>5. ASSUME NEW s \in Requests, Reserve(s), User(s) = u
        PROVE  spent'[u] + SumOf(g, Requests) <= seen'[r] + PendingTotal(reserved'[u])
    <3>1. /\ spent' = spent /\ pc[s] = "reserve" /\ Content(s) \in Contents
          /\ reserved' = [reserved EXCEPT ![u] = [@ EXCEPT ![Content(s)] = EstimateOf(s)]]
          /\ reserved[u][Content(s)] = 0
      <4>1. pc[s] = "reserve" /\ spent' = spent
            BY <2>5 DEF Reserve, stores
      <4>2. Content(s) \in Contents
            BY <4>1, AskTyped
      <4>3. reserved[u][Content(s)] = 0
            BY <2>5 DEF Reserve
      <4>4. QED
            BY <2>5, <4>1, <4>2, <4>3 DEF Reserve, CreateReservation
    <3>2. PICK n \in Nat : n = EstimateOf(s)
          BY PromisedTyped
    <3>3. PICK h \in [Contents -> Nat] : h = reserved[u]
          BY <1>1
    <3>4. PICK hh \in [Contents -> Nat] :
              hh = reserved'[u] /\ hh = [h EXCEPT ![Content(s)] = n] /\ h[Content(s)] = 0
          BY <1>1, <3>1, <3>2, <3>3
    <3>5. SumOf(hh, Contents) = SumOf(h, Contents) + n
      <4>1. IntOn(h, Contents) /\ AgreeOn(h, hh, Contents \ {Content(s)})
            BY <3>4 DEF IntOn, AgreeOn
      <4>2. hh[Content(s)] = n /\ h[Content(s)] = 0
            BY <3>1, <3>4
      <4>3. SumOf(hh, Contents) = SumOf(h, Contents) + (hh[Content(s)] - h[Content(s)])
            BY <1>1, <3>1, <4>1, <4>2, SumChange
      <4>4. SumOf(h, Contents) \in Nat
            BY <1>1, SumNat
      <4>5. QED
            BY <4>2, <4>3, <4>4
    <3>6. PendingTotal(reserved[u]) = SumOf(h, Contents)
          /\ PendingTotal(reserved'[u]) = SumOf(hh, Contents)
          BY <3>3, <3>4 DEF PendingTotal
    <3>7. SumOf(g, Requests) <= SumOf(f, Requests) + n
      <4>1. \A q \in Requests : Reserve(q) => q = s
        <5>1. ASSUME NEW q \in Requests, Reserve(q)
              PROVE  q = s
          <6>1. PICK a : Goto(s, a)
                BY <2>5 DEF Reserve
          <6>2. pc[q] = "reserve" /\ pc'[q] # "reserve"
                BY <1>1, <5>1 DEF Reserve, Goto
          <6>3. QED
                BY <6>1, <6>2, OneMoves
        <5>2. QED
              BY <5>1
      <4>2. AtMost(g, f, Requests \ {s}) /\ IntOn(f, Requests) /\ IntOn(g, Requests)
            BY <1>5, <1>6, <4>1 DEF AtMost, IntOn
      <4>3. SumOf(g, Requests) <= SumOf(f, Requests) + (g[s] - f[s])
            BY <1>1, <4>2, SumAtMostBut
      <4>4. g[s] \in Nat /\ f[s] \in Nat /\ (g[s] <= f[s] \/ g[s] <= n)
            BY <1>5, <1>6, <3>2
      <4>5. QED
            BY <1>4, <1>7, <4>3, <4>4
    <3>8. QED
          BY <1>4, <1>7, <2>1, <2>2, <2>3, <3>1, <3>5, <3>6, <3>7
  <2>6. QED
        BY <1>6, <2>4, <2>5
<1>11. QED
       BY <1>2, <1>9, <1>10

\* The check lets in what the allowance, less what is used and reserved, covers up to
\* the tolerance of the pages it is for.
LEMMA LimitMeans ==
    ASSUME NEW amount \in Nat, NEW used \in Nat, NEW pending \in Nat, amount > 0,
           ~LimitExceeded(amount, Available(Allowance, used, pending))
    PROVE  used + pending + amount <= Allowance
<1>1. Allowance \in Nat
      BY ExtractionAssumption
<1>2. QED
      BY <1>1 DEF LimitExceeded, Available, Rest

LEMMA AdmitStep ==
    ASSUME TypeOK, LocalsTyped, Paths, JobsKnown, ChargesInv, Estimated, Submitted, [Next]_vars,
           NEW u \in Users, u \notin raced', Reserved(u), SeenEnough(u),
           NEW r \in Requests, CheckLimit(r), pc'[r] = "reserve", User(r) = u
    PROVE  spent'[u] + SumOf(OwedBy(u)', Requests)
               <= Allowance + Tolerance * Cardinality(Uncached(r))
<1>1. /\ pc \in [Requests -> Steps] /\ spent \in [Users -> Nat] /\ seen \in [Requests -> Nat]
      /\ IsFiniteSet(Requests) /\ Allowance \in Nat
      BY ExtractionAssumption DEF TypeOK, LocalsTyped
<1>2. /\ pc[r] = "pending" /\ Goto(r, "reserve")
      /\ ~LimitExceeded(AmountToCheck(r), Balance(r, seen[r]))
      /\ raced' = IF \E s \in Rivals(r) : pc[s] = "reserve" THEN raced \cup {User(r)} ELSE raced
      /\ spent' = spent
  <2>1. pc[r] = "pending" /\ ~Reject(r)
        BY <1>1 DEF CheckLimit, Reject, Goto
  <2>2. QED
        BY <2>1 DEF CheckLimit, stores
<1>3. PICK n \in Nat, t \in Nat : n = EstimateOf(r) /\ t = Tolerance * Cardinality(Uncached(r))
                                  /\ n - t > 0
  <2>1. Uncached(r) # {} /\ Uncached(r) \in SUBSET Pages
        BY <1>2, PagesOfRequest DEF Estimated
  <2>2. /\ EstimateOf(r) \in Nat /\ Tolerance * Cardinality(Uncached(r)) \in Nat
        /\ EstimateOf(r) - Tolerance * Cardinality(Uncached(r)) > 0
        BY <2>1, PagesCost DEF EstimateOf
  <2>3. QED
        BY <2>2
<1>4. AmountToCheck(r) = n - t
  <2>1. AmountToCheck(r) = Rest(n, t)
        BY <1>3 DEF AmountToCheck
  <2>2. ~(t > n)
        BY <1>3
  <2>3. QED
        BY <2>1, <2>2 DEF Rest
<1>5. PICK p \in Nat : p = PendingTotal(reserved[u])
      BY BackedWithinHash
<1>6. seen[r] + p + (n - t) <= Allowance
  <2>1. ~LimitExceeded(n - t, Available(Allowance, seen[r], p))
        BY <1>2, <1>4, <1>5 DEF Balance
  <2>2. n - t \in Nat /\ n - t > 0 /\ seen[r] \in Nat
        BY <1>1, <1>3
  <2>3. QED
        BY <1>5, <2>1, <2>2, LimitMeans
<1>7. PICK f \in [Requests -> Nat] : f = BackedBy(u) /\ SumOf(f, Requests) \in Nat
      BY TotalsTyped
<1>8. spent[u] + SumOf(f, Requests) <= seen[r] + p
      BY <1>2, <1>5, <1>7 DEF SeenEnough
<1>9. PICK g \in [Requests -> Nat] : g = OwedBy(u)'
  <2>1. \A s \in Requests : OwedBy(u)'[s] \in Nat
        BY OwedTerm
  <2>2. OwedBy(u)' \in [Requests -> Nat]
        BY <2>1 DEF OwedBy
  <2>3. QED
        BY <2>2
<1>10. ASSUME NEW s \in Requests, s # r
       PROVE  g[s] <= f[s]
  <2>1. g[s] <= OwedBy(u)[s]
    <3>1. ~(pc[s] = "pending" /\ pc'[s] = "reserve")
          BY <1>2, <1>10, OneMoves
    <3>2. QED
          BY <1>9, <3>1, OwedTerm
  <2>2. OwedBy(u)[s] = f[s]
    <3>1. CASE ~(User(s) = u /\ Owes(s))
          BY <1>7, <3>1 DEF OwedBy, BackedBy, Backed
    <3>2. CASE User(s) = u /\ Owes(s) /\ Uncached(s) = {}
      <4>1. Promised(s) = 0
            BY <3>2, PromisedTyped
      <4>2. QED
            BY <1>7, <3>2, <4>1 DEF OwedBy, BackedBy, Backed
    <3>3. CASE User(s) = u /\ Owes(s) /\ Uncached(s) # {}
      <4>1. pc[s] # "reserve"
        <5>1. ASSUME pc[s] = "reserve"
              PROVE  FALSE
          <6>1. s \in Rivals(r)
                BY <1>10, <3>3, <5>1 DEF Rivals
          <6>2. u \in raced'
                BY <1>2, <5>1, <6>1
          <6>3. QED
                BY <6>2
        <5>2. QED
              BY <5>1
      <4>2. QED
            BY <1>7, <3>3, <4>1 DEF OwedBy, BackedBy, Backed
    <3>4. QED
          BY <3>1, <3>2, <3>3
  <2>3. QED
        BY <2>1, <2>2
<1>11. g[r] <= n
  <2>1. ~Owes(r)
        BY <1>2 DEF Owes, Relying
  <2>2. OwedBy(u)[r] = 0
        BY <2>1 DEF OwedBy
  <2>3. g[r] <= OwedBy(u)[r] \/ g[r] <= n
        BY <1>3, <1>9, OwedTerm
  <2>4. QED
        BY <1>3, <1>9, <2>2, <2>3
<1>12. SumOf(g, Requests) <= SumOf(f, Requests) + n /\ SumOf(g, Requests) \in Nat
  <2>1. AtMost(g, f, Requests \ {r}) /\ IntOn(f, Requests) /\ IntOn(g, Requests)
        BY <1>7, <1>9, <1>10 DEF AtMost, IntOn
  <2>2. SumOf(g, Requests) <= SumOf(f, Requests) + (g[r] - f[r])
        BY <1>1, <2>1, SumAtMostBut
  <2>3. SumOf(g, Requests) \in Nat /\ g[r] \in Nat /\ f[r] \in Nat
        BY <1>1, <1>7, <1>9, SumNat
  <2>4. QED
        BY <1>7, <1>11, <2>2, <2>3
<1>13. spent[u] \in Nat /\ seen[r] \in Nat
       BY <1>1
<1>14. spent[u] + SumOf(g, Requests) <= Allowance + t
       BY <1>1, <1>6, <1>7, <1>8, <1>12, <1>13
<1>15. QED
       BY <1>2, <1>3, <1>9, <1>14

LEMMA CoveredStep ==
    ASSUME TypeOK, LocalsTyped, Paths, JobsKnown, ChargesInv, Estimated, Submitted, [Next]_vars,
           NEW u \in Users, u \notin raced', Reserved(u), SeenEnough(u), Covered(u)
    PROVE  Covered(u)'
<1>1. pc \in [Requests -> Steps]
      BY DEF TypeOK
<1>2. ASSUME NEW r \in Requests, User(r) = u, pc[r] \notin {"idle", "lookup", "find"}
      PROVE  /\ User(r)' = u /\ pc'[r] \notin {"idle", "lookup", "find"}
             /\ Uncached(r)' = Uncached(r)
  <2>1. ask'[r] = ask[r]
        BY <1>2, AskStep, WritersStep
  <2>2. Move(r)
        BY MovesStep, MoveStep
  <2>3. pc'[r] \notin {"idle", "lookup", "find"}
        BY <1>2, <2>2 DEF Move, Walk, Starts, Precheck, PageWalk, BatchWalk, Handled
  <2>4. QED
        BY <1>2, <2>1, <2>3, UncachedStep DEF User
<1>3. ASSUME NEW r \in Requests, CheckLimit(r), pc'[r] = "reserve", User(r) = u
      PROVE  Covered(u)'
  <2>1. spent'[u] + SumOf(OwedBy(u)', Requests)
            <= Allowance + Tolerance * Cardinality(Uncached(r))
        BY <1>3, AdmitStep
  <2>2. pc[r] = "pending"
        BY <1>3 DEF CheckLimit
  <2>3. User(r)' = u /\ pc'[r] \notin {"idle", "lookup", "find"} /\ Uncached(r)' = Uncached(r)
        BY <1>2, <1>3, <2>2
  <2>4. r \in PastLookup(u)'
        BY <2>3 DEF PastLookup
  <2>5. PICK m : m = Cardinality(Uncached(r)')
        OBVIOUS
  <2>6. m \in {0} \cup {Cardinality(Uncached(s)') : s \in PastLookup(u)'}
        BY <2>4, <2>5
  <2>7. spent'[u] + SumOf(OwedBy(u)', Requests) <= Allowance + Tolerance * m
        BY <2>1, <2>3, <2>5
  <2>8. QED
        BY <2>6, <2>7 DEF Covered
<1>4. ASSUME \A r \in Requests : User(r) = u => ~(CheckLimit(r) /\ pc'[r] = "reserve")
      PROVE  Covered(u)'
  <2>1. PICK m \in {0} \cup {Cardinality(Uncached(s)) : s \in PastLookup(u)} :
            spent[u] + SumOf(OwedBy(u), Requests) <= Allowance + Tolerance * m
        BY DEF Covered
  <2>2. m \in {0} \cup {Cardinality(Uncached(s)') : s \in PastLookup(u)'}
    <3>1. ASSUME NEW s \in PastLookup(u)
          PROVE  s \in PastLookup(u)' /\ Uncached(s)' = Uncached(s)
          BY <1>2 DEF PastLookup
    <3>2. QED
          BY <2>1, <3>1
  <2>3. PICK f \in [Requests -> Nat] : f = OwedBy(u) /\ SumOf(f, Requests) \in Nat
        BY TotalsTyped
  <2>4. PICK g \in [Requests -> Nat] : g = OwedBy(u)'
    <3>1. \A s \in Requests : OwedBy(u)'[s] \in Nat
          BY OwedTerm
    <3>2. OwedBy(u)' \in [Requests -> Nat]
          BY <3>1 DEF OwedBy
    <3>3. QED
          BY <3>2
  <2>5. \A s \in Requests : g[s] <= f[s]
    <3>1. ASSUME NEW s \in Requests
          PROVE  g[s] <= f[s]
          BY <1>4, <2>3, <2>4, OwedTerm
    <3>2. QED
          BY <3>1
  <2>6. PICK x \in Requests : \A s \in Requests : Charges(s) => s = x
        BY OneCharges
  <2>7. \A s \in Requests : Charges(s) /\ User(s) = u =>
            s = x /\ g[s] + Cost * Cardinality(Kept(s)) <= f[s]
    <3>1. ASSUME NEW s \in Requests, Charges(s), User(s) = u
          PROVE  g[s] + Cost * Cardinality(Kept(s)) <= f[s]
          BY <2>3, <2>4, <3>1, OwedTerm
    <3>2. QED
          BY <2>6, <3>1
  <2>8. spent'[u] + SumOf(g, Requests) <= spent[u] + SumOf(f, Requests)
        BY <2>5, <2>7, SpendStep
  <2>9. spent'[u] + SumOf(g, Requests) <= Allowance + Tolerance * m
    <3>1. m \in Nat
      <4>1. \A s \in Requests : Cardinality(Uncached(s)) \in Nat
            BY PagesOfRequest, PagesCost
      <4>2. QED
            BY <2>1, <4>1 DEF PastLookup
    <3>2. /\ spent'[u] \in Nat /\ spent[u] \in Nat /\ SumOf(g, Requests) \in Nat
          /\ Allowance \in Nat /\ Tolerance \in Nat
      <4>1. IsFiniteSet(Requests) /\ Allowance \in Nat /\ Tolerance \in Nat
            BY ExtractionAssumption
      <4>2. SumOf(g, Requests) \in Nat
            BY <4>1, SumNat
      <4>3. spent' \in [Users -> Nat] /\ spent \in [Users -> Nat]
            BY TypedStep DEF TypeOK
      <4>4. QED
            BY <4>1, <4>2, <4>3
    <3>3. PICK k \in Nat : k = Tolerance * m
          BY <3>1, <3>2
    <3>4. QED
          BY <2>1, <2>3, <2>8, <3>2, <3>3
  <2>10. QED
         BY <2>2, <2>4, <2>9 DEF Covered
<1>5. QED
      BY <1>3, <1>4

LEMMA EstimatedStep ==
    ASSUME TypeOK, LocalsTyped, Paths, JobsKnown, Estimated, [Next]_vars
    PROVE  Estimated'
<1>1. Writers /\ Moves
      BY WritersStep, MovesStep
<1>2. ASSUME NEW r \in Requests, pc'[r] = "idle"
      PROVE  Requested(r)' = {}
  <2>1. pc[r] = "idle" /\ ask'[r] = ask[r]
        BY <1>1, <1>2, IdleBefore, AskStep
  <2>2. QED
        BY <2>1 DEF Estimated, Requested
<1>3. ASSUME NEW r \in Requests, pc'[r] \in {"available", "limit", "pending", "reserve"}
      PROVE  Uncached(r)' # {}
  <2>1. pc[r] \in {"lookup", "find", "available", "limit", "pending", "reserve"}
        BY <1>1, <1>3, MoveStep DEF Move, Walk, Starts, Precheck, PageWalk, BatchWalk, Handled
  <2>2. CASE pc[r] \in {"available", "limit", "pending", "reserve"}
    <3>1. Uncached(r)' = Uncached(r)
          BY <2>2, UncachedStep
    <3>2. QED
          BY <2>2, <3>1 DEF Estimated
  <2>3. CASE pc[r] \in {"lookup", "find"}
    <3>1. Lookup(r) \/ BatchLookup(r)
          BY <1>1, <1>3, <2>3, MoveStep
          DEF Move, Walk, Starts, Precheck, PageWalk, BatchWalk, Handled
    <3>2. QED
          BY <1>3, <2>3, <3>1, UncachedStep
  <2>4. QED
        BY <2>1, <2>2, <2>3
<1>4. QED
      BY <1>2, <1>3 DEF Estimated

LEMMA SubmittedStep ==
    ASSUME TypeOK, LocalsTyped, Paths, JobsKnown, Submitted, [Next]_vars
    PROVE  Submitted'
<1>1. Writers /\ raced \subseteq raced' /\ DOMAIN gemini = Requests /\ pc \in [Requests -> Steps]
      BY WritersStep, RacedStep DEF TypeOK, LocalsTyped
<1>2. ASSUME NEW r \in Requests
      PROVE  \/ gemini'[r] # "none" /\ gemini[r] # "none"
             \/ Submit(r) /\ gemini'[r] = "running"
             \/ gemini[r] = "none" /\ gemini'[r] = "none" /\ ~Submit(r)
  <2>1. ASSUME NEW s \in Requests, Submit(s)
        PROVE  gemini' = [gemini EXCEPT ![s] = "running"]
        BY <2>1 DEF Submit
  <2>2. ASSUME NEW s \in Requests, GeminiEnds(s)
        PROVE  /\ gemini[s] = "running"
               /\ \E e \in {"succeeded", "failed", "cancelled"} : gemini' = [gemini EXCEPT ![s] = e]
        BY <2>2 DEF GeminiEnds
  <2>3. QED
        BY <1>1, <2>1, <2>2 DEF Writers
<1>3. ASSUME NEW r \in Requests, Listed(r)' \/ pc'[r] = "store"
      PROVE  gemini'[r] # "none"
  <2>1. \/ Listed(r) \/ pc[r] = "store"
        \/ Submit(r)
        BY <1>1, <1>3, ListedStep, MovesStep, MoveStep
        DEF StoreJob, Move, Walk, Starts, Precheck, PageWalk, BatchWalk, Handled
  <2>2. QED
        BY <1>2, <2>1 DEF Submitted
<1>4. ASSUME NEW r \in Requests, pc'[r] \in {"mark", "failed"}, gemini'[r] # "none"
      PROVE  User(r)' \in raced'
  <2>1. pc[r] \in {"undo", "mark", "failed"} /\ (pc[r] = "undo" => Undo(r))
        BY <1>1, <1>4, MovesStep, MoveStep
        DEF Move, Walk, Starts, Precheck, PageWalk, BatchWalk, Handled
  <2>2. gemini[r] # "none"
        BY <1>2, <1>4, <2>1 DEF Submit
  <2>3. User(r) \in raced'
        BY <1>1, <2>1, <2>2 DEF Submitted, Undo
  <2>4. ask'[r] = ask[r]
        BY <1>1, <2>1, AskStep
  <2>5. QED
        BY <2>3, <2>4 DEF User
<1>5. QED
      BY <1>3, <1>4 DEF Submitted

LEMMA BalanceStep ==
    TypeOK /\ LocalsTyped /\ Paths /\ JobsKnown /\ ChargesInv /\ BalanceInv /\ [Next]_vars =>
        BalanceInv'
<1> SUFFICES ASSUME TypeOK, LocalsTyped, Paths, JobsKnown, ChargesInv, BalanceInv, [Next]_vars
             PROVE  BalanceInv'
    OBVIOUS
<1>1. Estimated /\ Submitted
      BY DEF BalanceInv
<1>2. Estimated' /\ Submitted' /\ raced \subseteq raced'
      BY <1>1, EstimatedStep, SubmittedStep, WritersStep, RacedStep
<1>3. ASSUME NEW u \in Users, u \notin raced'
      PROVE  Reserved(u)' /\ OneReserves(u)' /\ SeenEnough(u)' /\ Covered(u)'
  <2>1. Reserved(u) /\ OneReserves(u) /\ SeenEnough(u) /\ Covered(u)
        BY <1>2, <1>3 DEF BalanceInv
  <2>2. Reserved(u)'
        BY <1>1, <1>3, <2>1, ReservedStep
  <2>3. OneReserves(u)'
        BY <1>3, <2>1, OneReservesStep
  <2>4. SeenEnough(u)'
    <3>1. ASSUME NEW r \in Requests, User(r)' = u, pc'[r] = "pending"
          PROVE  spent'[u] + SumOf(BackedBy(u)', Requests)
                     <= seen'[r] + PendingTotal(reserved'[u])
          BY <1>1, <1>3, <2>1, <3>1, SeenStep
    <3>2. QED
          BY <3>1 DEF SeenEnough
  <2>5. Covered(u)'
        BY <1>1, <1>3, <2>1, CoveredStep
  <2>6. QED
        BY <2>2, <2>3, <2>4, <2>5
<1>4. QED
      BY <1>2, <1>3 DEF BalanceInv

LEMMA BalanceInit == BatchInit => BalanceInv
<1> SUFFICES ASSUME BatchInit
             PROVE  BalanceInv
    OBVIOUS
<1>1. HoldingsInv
      BY HoldingsInit
<1>2. /\ \A r \in Requests : pc[r] = "idle" /\ ask[r] = NoAsk
      /\ job = [c \in Contents |-> NoJob] /\ jobs = {} /\ ppc = "idle"
      /\ spent = [u \in Users |-> 0]
      BY DEF BatchInit, Init
<1>3. \A r \in Requests : ~Open(r)
  <2>1. \A r \in Requests : Pending(r) # NoJob
    <3>1. "PENDING" \in Statuses
          BY DEF Statuses
    <3>2. \A r \in Requests : Pending(r) \in Jobs
          BY <3>1 DEF Pending, Job, Jobs
    <3>3. QED
          BY <3>2, JobAssumption
  <2>2. QED
        BY <1>2, <2>1 DEF Open, Listed
<1>4. Estimated /\ Submitted
  <2>1. Estimated
    <3>1. NoAsk.pages = {}
          BY DEF NoAsk
    <3>2. QED
          BY <1>2, <3>1 DEF Estimated, Requested
  <2>2. Submitted
        BY <1>2, <1>3 DEF Submitted, Open
  <2>3. QED
        BY <2>1, <2>2
<1>5. \A r \in Requests : ~Owes(r) /\ ~Backed(r)
      BY <1>2, <1>3 DEF Owes, Backed, Relying
<1>6. ASSUME NEW u \in Users
      PROVE  Reserved(u) /\ OneReserves(u) /\ SeenEnough(u) /\ Covered(u)
  <2>1. Reserved(u) /\ OneReserves(u) /\ SeenEnough(u)
        BY <1>2, <1>5 DEF Reserved, OneReserves, SeenEnough
  <2>2. PICK f \in [Requests -> Nat] : f = OwedBy(u) /\ SumOf(f, Requests) \in Nat
        BY <1>1, <1>4, TotalsTyped DEF HoldingsInv
  <2>3. SumOf(f, Requests) <= 0
    <3>1. \A r \in Requests : f[r] = 0
          BY <1>5, <2>2 DEF OwedBy
    <3>2. IsFiniteSet(Requests) /\ IsFiniteSet({})
          BY ExtractionAssumption, FS_EmptySet
    <3>3. PICK g : g = [x \in {} |-> 0]
          OBVIOUS
    <3>4. Placed(f, Requests, f, g, {})
          BY <3>1 DEF Placed
    <3>5. SumOf(f, Requests) <= SumOf(g, {})
          BY <3>2, <3>4, SumPlaced
    <3>6. QED
          BY <3>5, SumEmpty
  <2>4. spent[u] = 0 /\ Allowance \in Nat /\ Tolerance * 0 = 0
        BY <1>2, ExtractionAssumption
  <2>5. Covered(u)
        BY <2>2, <2>3, <2>4 DEF Covered
  <2>6. QED
        BY <2>1, <2>5
<1>7. QED
      BY <1>4, <1>6 DEF BalanceInv

\* What is owed covers what is committed
LEMMA BalanceMeans ==
    ASSUME TypeOK, Paths, BalanceInv
    PROVE  WorkWithinBalance
<1> SUFFICES ASSUME NEW u \in Users \ raced
             PROVE  Committed(u) <= Allowance + Tolerated(u)
    BY DEF WorkWithinBalance
<1>1. Estimated /\ Covered(u)
      BY DEF BalanceInv
<1>2. IsFiniteSet(Requests) /\ Allowance \in Nat /\ Tolerance \in Nat /\ spent[u] \in Nat
      BY ExtractionAssumption DEF TypeOK
<1>3. PICK f \in [Requests -> Nat] : f = OwedBy(u) /\ SumOf(f, Requests) \in Nat
      BY <1>1, TotalsTyped
<1>4. PICK g : g = [r \in Requests |-> IF r \in Asked(u) /\ Relying(r) THEN Promised(r) ELSE 0]
      OBVIOUS
<1>5. SumOf(g, Requests) <= SumOf(f, Requests) /\ SumOf(g, Requests) \in Nat
  <2>1. \A r \in Requests : g[r] \in Nat /\ g[r] <= f[r]
    <3>1. ASSUME NEW r \in Requests
          PROVE  g[r] \in Nat /\ g[r] <= f[r]
      <4>1. Promised(r) \in Nat
            BY <1>1, PromisedTyped
      <4>2. CASE User(r) = u /\ Relying(r)
            BY <1>3, <1>4, <4>1, <4>2 DEF Asked, Owes, OwedBy
      <4>3. CASE ~(User(r) = u /\ Relying(r))
        <5>1. g[r] = 0 /\ f[r] \in Nat
              BY <1>3, <1>4, <4>3 DEF Asked
        <5>2. QED
              BY <5>1
      <4>4. QED
            BY <4>2, <4>3
    <3>2. QED
          BY <3>1
  <2>2. IntOn(f, Requests) /\ IntOn(g, Requests) /\ AtMost(g, f, Requests)
        BY <2>1 DEF IntOn, AtMost
  <2>3. QED
        BY <1>2, <2>1, <2>2, SumAtMost, SumNat
<1>6. PICK m \in {0} \cup {Cardinality(Uncached(r)) : r \in PastLookup(u)} :
          spent[u] + SumOf(f, Requests) <= Allowance + Tolerance * m
      BY <1>1, <1>3 DEF Covered
<1>7. PICK C : C = {0} \cup {Cardinality(Uncached(r)) : r \in Asked(u)}
      OBVIOUS
<1>8. \A r \in Requests : Cardinality(Uncached(r)) \in Nat
      BY <1>1, PagesOfRequest, PagesCost
<1>9. IsFiniteSet(C) /\ C # {} /\ C \subseteq Nat /\ m \in C
  <2>1. IsFiniteSet(Asked(u)) /\ Asked(u) \subseteq Requests
        BY <1>2, FS_Subset DEF Asked
  <2>2. PICK D : D = {Cardinality(Uncached(r)) : r \in Asked(u)}
        OBVIOUS
  <2>3. PICK k : k = [r \in Asked(u) |-> Cardinality(Uncached(r))]
        OBVIOUS
  <2>4. k \in Surjection(Asked(u), D)
        BY <2>2, <2>3 DEF Surjection
  <2>5. IsFiniteSet(D)
        BY <2>1, <2>4, FS_Surjection
  <2>6. IsFiniteSet(D \cup {0})
        BY <2>5, FS_AddElement
  <2>7. C = D \cup {0}
        BY <1>7, <2>2
  <2>8. m \in C
        BY <1>6, <1>7 DEF PastLookup, Asked
  <2>9. C \subseteq Nat
        BY <1>7, <1>8, <2>1
  <2>10. QED
         BY <2>6, <2>7, <2>8, <2>9
<1>10. Max(C) \in C /\ m <= Max(C)
   <2>1. \A x \in C : x \in Int
        BY <1>9
  <2>2. QED
        BY <1>9, <2>1, MaxIsGreatest
<1>11. PICK t \in Nat, n \in Nat : t = Tolerance * m /\ n = Tolerance * Max(C) /\ t <= n
  <2>1. m \in Nat /\ Max(C) \in Nat
        BY <1>9, <1>10
  <2>2. Tolerance * m \in Nat /\ Tolerance * m <= Tolerance * Max(C)
        BY <1>2, <1>10, <2>1, TimesMonotone
  <2>3. Tolerance * Max(C) \in Nat
        BY <1>2, <2>1
  <2>4. QED
        BY <2>2, <2>3
<1>12. Committed(u) = spent[u] + SumOf(g, Requests) /\ Tolerated(u) = n
       BY <1>4, <1>7, <1>11 DEF Committed, Tolerated
<1>13. QED
       BY <1>2, <1>3, <1>5, <1>6, <1>11, <1>12

SpendingInv == HoldingsInv /\ ChargesInv /\ BalanceInv

\* Reservations, charges and the balance they leave, for any number of requests, pages
\* and users (_billing_precheck, create_reservation, release_reservation).
THEOREM SpendingInvariant == Spec => []SpendingInv
<1>1. BatchInit => SpendingInv
  <2>1. BatchInit => ChargesInv
        BY DEF BatchInit, Init, ChargesInv, ChargedOnce
  <2>2. QED
        BY <2>1, HoldingsInit, BalanceInit DEF SpendingInv
<1>2. SpendingInv /\ [Next]_vars => SpendingInv'
  <2> SUFFICES ASSUME SpendingInv, [Next]_vars
               PROVE  SpendingInv'
      OBVIOUS
  <2>1. /\ TypeOK /\ LocalsTyped /\ Paths /\ JobsKnown /\ SlotsCounted /\ ReservationsOwned
        /\ ChargesInv /\ BalanceInv
        BY DEF SpendingInv, HoldingsInv
  <2>2. HoldingsInv'
        BY <2>1, TypedStep, PathsStep, JobsKnownStep, SlotsStep, OwnedStep DEF HoldingsInv
  <2>3. QED
        BY <2>1, <2>2, ChargesStep, BalanceStep DEF SpendingInv
<1>3. QED
      BY <1>1, <1>2, PTL DEF Spec

\* SpendingBounded for any number of requests: what a user was charged, and what
\* requests in flight may still be charged, stays within the plan and the tolerance of
\* one request, and no page is charged twice (_billing_precheck, process_with_billing).
THEOREM SpendingIsBounded == Spec => []SpendingBounded
<1>1. SpendingInv => SpendingBounded
      BY BalanceMeans DEF SpendingInv, HoldingsInv, ChargesInv, SpendingBounded
<1>2. QED
      BY <1>1, SpendingInvariant, PTL
===============================================================================
