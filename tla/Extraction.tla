----------------------------- MODULE Extraction -----------------------------
(***************************************************************************)
(* The extraction of documents with an AI processor, page by page:         *)
(* create_document, _billing_precheck and _run_extraction of               *)
(* yapit/gateway/api/v1/documents.py, check_extraction_cache and           *)
(* process_with_billing of document/orchestration.py, the page tasks of    *)
(* document/processors/base.py, and the deletion of documents with their   *)
(* images. BatchExtraction adds the batch path to it.                      *)
(*                                                                         *)
(* A request is one call of POST /v1/documents/document, first the handler *)
(* and then the background task it spawns; an await is the end of a step.  *)
(* What a request asks for is a member of Asks. The gateway is one         *)
(* process: Crash ends every handler and task of it, while Redis, SQLite,  *)
(* Postgres and the image storage keep their state.                        *)
(***************************************************************************)
EXTENDS Integers, FiniteSets, FiniteSetsExt, Functions, Reservations

CONSTANTS
    Requests,
    Users, Contents, Pages, Prompts,
    NoPrompt,          \* the prompt of a request without an extraction_prompt
    Asks,              \* for each request the [user, content, prompt, pages, batch]
                       \* records it may be
    FigurePages,       \* pages with a figure on them
    MaxSlots,          \* MAX_CONCURRENT_EXTRACTIONS
    Allowance,         \* OCR tokens of each user's plan
    Estimate,          \* estimated tokens of a page
    Tolerance,         \* PER_PAGE_TOLERANCE
    Cost,              \* tokens a page really costs
    MaxEvents          \* bound on failed calls of Redis, SQLite or Postgres, restarts
                       \* of the gateway, keys that reach their TTL and deletions

ASSUME ExtractionAssumption ==
    /\ NoPrompt \in Prompts
    /\ FigurePages \subseteq Pages
    /\ Asks \in [Requests -> SUBSET [user : Users, content : Contents, prompt : Prompts,
                                      pages : (SUBSET Pages) \ {{}}, batch : BOOLEAN]]
    /\ {MaxSlots, Allowance, Estimate, Tolerance, Cost, MaxEvents} \subseteq Nat
    /\ Cost <= Estimate /\ Tolerance < Estimate
    /\ Requests # {} /\ IsFiniteSet(Requests) /\ IsFiniteSet(Pages) /\ IsFiniteSet(Contents)

VARIABLES
    slots,        \* ratelimit:extraction:{user}; a missing key counts as 0
    reserved,     \* reservations:{user}
    spent,        \* OCR tokens charged in the user's usage period
    cache,        \* the extraction cache: pages by content, prompt and number
    images,       \* <<content, page>> whose figures are in the image storage
    cancelled,    \* requests whose extraction:cancel flag is set
    result,       \* async_extraction:{id}, what a status poll returns
    docs,         \* Document rows: who made them, of what, with which figures
    pc, ask,      \* where a request is, what it asks for
    found,        \* the cached pages a request's lookup returned
    seen,         \* the tokens it read as used before it reads the reservations
    page,         \* the page tasks of a request
    faults, crashes, lapses, deletions,
    \* history, read by the properties only
    charged,      \* how often a page of a request was charged
    raced,        \* users whose precheck or reservation another request crossed
    lapsed,       \* users whose slot counter reached its TTL
    leaked,       \* requests that took a slot and can no longer give it back
    swept         \* contents whose images were deleted under a live request

bounds  == <<faults, crashes, lapses, deletions>>
history == <<charged, raced, lapsed, leaked, swept>>
redis   == <<slots, reserved, cancelled, result>>
stores  == <<spent, cache, images, docs>>
locals  == <<pc, ask, found, seen, page>>
extractionVars == <<redis, stores, locals, bounds, history>>

NoAsk == [user |-> CHOOSE u \in Users : TRUE, content |-> CHOOSE c \in Contents : TRUE,
          prompt |-> NoPrompt, pages |-> {}, batch |-> FALSE]

User(r)     == ask[r].user
Content(r)  == ask[r].content
Requested(r) == ask[r].pages
FoundPages(r) == {e.page : e \in found[r]}
Uncached(r) == Requested(r) \ FoundPages(r)

\* Entries of the extraction cache, and a page kept under its key
Key(c, pr, p) == [content |-> c, prompt |-> pr, page |-> p]
Entry(k, figs, made) == [content |-> k.content, prompt |-> k.prompt, page |-> k.page,
                         figures |-> figs, made |-> made]
At(k) == {e \in cache : e.content = k.content /\ e.prompt = k.prompt /\ e.page = k.page}
Keep(entries) ==
    {e \in cache : ~\E n \in entries :
        n.content = e.content /\ n.prompt = e.prompt /\ n.page = e.page} \cup entries

\* A handler holds a slot from its INCR to the DECR of its task
Holding == {"lookup", "available", "limit", "pending", "reserve", "extract", "decide",
            "create", "answer", "error", "finally"}
Ended == {"idle", "rejected", "submitted", "failed", "done", "dead"}
Running(r) == pc[r] \notin Ended
Active(u) == {r \in Requests : User(r) = u /\ pc[r] \in Holding /\ ~ask[r].batch}

\* A page task detects figures, then calls the model with or without any; its
\* result waits to be collected, and then was kept or skipped.
PageStates == {"none", "new", "detecting", "plain", "figures", "ok", "okfigures",
               "failed", "cancelled", "kept", "keptfigures", "skipped"}
Collected(r) == \A p \in Uncached(r) : page[r][p] \in {"kept", "keptfigures", "skipped"}
Kept(r) == {p \in Uncached(r) : page[r][p] \in {"kept", "keptfigures"}}

Init ==
    /\ slots = [u \in Users |-> 0]
    /\ reserved = [u \in Users |-> [c \in Contents |-> 0]]
    /\ spent = [u \in Users |-> 0]
    /\ cache = {} /\ images = {} /\ docs = {}
    /\ cancelled = {}
    /\ result = [r \in Requests |-> "none"]
    /\ pc = [r \in Requests |-> "idle"]
    /\ ask = [r \in Requests |-> NoAsk]
    /\ found = [r \in Requests |-> {}]
    /\ seen = [r \in Requests |-> 0]
    /\ page = [r \in Requests |-> [p \in Pages |-> "none"]]
    /\ faults = 0 /\ crashes = 0 /\ lapses = 0 /\ deletions = 0
    /\ charged = [r \in Requests |-> [p \in Pages |-> 0]]
    /\ raced = {} /\ lapsed = {} /\ leaked = {} /\ swept = {}

Goto(r, label) == pc' = [pc EXCEPT ![r] = label]
Event == faults + crashes + lapses + deletions < MaxEvents
Fault == Event /\ faults' = faults + 1
NoFault == UNCHANGED faults
SameBounds == UNCHANGED <<crashes, lapses, deletions>>

-----------------------------------------------------------------------------
(* The handler of POST /document                                           *)

\* INCR and EXPIRE of the rate limit key; over the limit the slot is returned
TakeSlot(r) ==
    /\ pc[r] = "idle"
    /\ \E a \in Asks[r] :
        /\ ~a.batch
        /\ ask' = [ask EXCEPT ![r] = a]
        /\ slots' = [slots EXCEPT ![a.user] = @ + 1]
        /\ Goto(r, IF slots'[a.user] > MaxSlots THEN "refused" ELSE "lookup")
    /\ UNCHANGED <<reserved, cancelled, result, stores, found, seen, page, bounds, history>>

Refuse(r) ==
    /\ pc[r] = "refused"
    /\ slots' = [slots EXCEPT ![User(r)] = @ - 1]
    /\ Goto(r, "rejected")
    /\ UNCHANGED <<reserved, cancelled, result, stores, ask, found, seen, page, bounds, history>>

\* Mutant of CachedPages: pages whose images are gone are not looked for
CachedPagesUnchecked(r) == UNION {At(Key(Content(r), ask[r].prompt, p)) : p \in Requested(r)}

\* check_extraction_cache: a hit counts unless pages with figures were found
\* and the storage has no image of the document at all
CachedPages(r) ==
    LET hits == UNION {At(Key(Content(r), ask[r].prompt, p)) : p \in Requested(r)}
        orphaned == /\ \E e \in hits : e.figures
                    /\ ~\E i \in images : i[1] = Content(r)
    IN IF orphaned THEN {} ELSE hits

\* A lookup that takes pages without their images, for the images of other pages
SweptBy(hits) ==
    swept \cup {e.content : e \in {x \in hits : /\ x.figures
                                            /\ <<x.content, x.page>> \notin images
                                            /\ \E i \in images : i[1] = x.content}}

\* The page tasks of _extract_pdf, for the pages the cache did not have
StartPages(r, hits) ==
    page' = [page EXCEPT ![r] =
                [p \in Pages |-> IF p \in Requested(r) \ {e.page : e \in hits}
                                 THEN "new" ELSE "none"]]

Lookup(r) ==
    /\ pc[r] = "lookup"
    /\ LET hits == CachedPages(r) IN
        /\ found' = [found EXCEPT ![r] = hits]
        /\ IF Requested(r) = {e.page : e \in hits}
           THEN Goto(r, "extract") /\ StartPages(r, hits)
           ELSE Goto(r, "available") /\ UNCHANGED page
        /\ swept' = SweptBy(hits)
    /\ UNCHANGED <<redis, stores, ask, seen, bounds, charged, raced, lapsed, leaked>>

\* An exception out of the handler: nothing gives the slot back
Reject(r) ==
    /\ Goto(r, "rejected")
    /\ leaked' = IF ask[r].batch THEN leaked ELSE leaked \cup {r}
    /\ UNCHANGED <<redis, stores, ask, found, seen, page, charged, raced, lapsed, swept>>

LookupFails(r) ==
    /\ pc[r] \in {"lookup", "find"}
    /\ Fault /\ SameBounds
    /\ Reject(r)

-----------------------------------------------------------------------------
(* _billing_precheck                                                       *)

Balance(r, used) == Available(Allowance, used, PendingTotal(reserved[User(r)]))

\* The estimate is only made when something is available
CheckAvailable(r) ==
    /\ pc[r] = "available"
    /\ IF Balance(r, spent[User(r)]) = 0
       THEN Reject(r)
       ELSE /\ Goto(r, "limit")
            /\ UNCHANGED <<redis, stores, ask, found, seen, page, history>>
    /\ UNCHANGED bounds

\* get_available_usage reads the period in Postgres, then the hash in Redis
ReadUsed(r) ==
    /\ pc[r] = "limit"
    /\ seen' = [seen EXCEPT ![r] = spent[User(r)]]
    /\ Goto(r, "pending")
    /\ UNCHANGED <<redis, stores, ask, found, page, bounds, history>>

\* Requests whose work the balance has to cover: past the check, not released
Relying(r) == pc[r] \in {"reserve", "extract", "decide", "create", "answer", "error",
                         "finally", "release", "save", "prepare", "submit", "store",
                         "activate", "undo", "submitted"}
Rivals(r) == {s \in Requests \ {r} : User(s) = User(r) /\ pc[s] # "idle"}

EstimateOf(r) == Estimate * Cardinality(Uncached(r))
AmountToCheck(r) == Rest(EstimateOf(r), Tolerance * Cardinality(Uncached(r)))

CheckLimit(r) ==
    /\ pc[r] = "pending"
    /\ IF LimitExceeded(AmountToCheck(r), Balance(r, seen[r]))
       THEN Reject(r)
       ELSE /\ Goto(r, "reserve")
            /\ raced' = IF \E s \in Rivals(r) : pc[s] = "reserve"
                        THEN raced \cup {User(r)} ELSE raced
            /\ UNCHANGED <<redis, stores, ask, found, seen, page, charged, lapsed, leaked, swept>>
    /\ UNCHANGED bounds

\* A reservation of the content that is still there is overwritten
Reserve(r) ==
    /\ pc[r] = "reserve"
    /\ reserved' = [reserved EXCEPT ![User(r)] = CreateReservation(@, Content(r), EstimateOf(r))]
    /\ raced' = IF reserved[User(r)][Content(r)] # 0 THEN raced \cup {User(r)} ELSE raced
    /\ IF ask[r].batch
       THEN Goto(r, "save") /\ UNCHANGED page
       ELSE Goto(r, "extract") /\ StartPages(r, found[r])
    /\ UNCHANGED <<slots, cancelled, result, stores, ask, found, seen, bounds,
                   charged, lapsed, leaked, swept>>

-----------------------------------------------------------------------------
(* The page tasks of VisionExtractor                                       *)

SetPage(r, p, s) == page' = [page EXCEPT ![r][p] = s]
PageFrame == UNCHANGED <<redis, pc, ask, found, seen, bounds, history>>

StartPage(r, p) ==
    /\ page[r][p] = "new"
    /\ SetPage(r, p, IF r \in cancelled THEN "cancelled" ELSE "detecting")
    /\ PageFrame /\ UNCHANGED stores

\* prepare_page: a detection that fails or times out is a page without figures
DetectFigures(r, p) ==
    /\ page[r][p] = "detecting"
    /\ \E figures \in IF p \in FigurePages THEN BOOLEAN ELSE {FALSE} :
        /\ images' = IF figures THEN images \cup {<<Content(r), p>>} ELSE images
        /\ SetPage(r, p, CASE r \in cancelled -> "cancelled"
                           [] figures -> "figures"
                           [] OTHER -> "plain")
    /\ PageFrame /\ UNCHANGED <<spent, cache, docs>>

\* _call_for_page, its retries included; an exception is a failed page
CallModel(r, p) ==
    /\ page[r][p] \in {"plain", "figures"}
    /\ \/ SetPage(r, p, IF page[r][p] = "figures" THEN "okfigures" ELSE "ok")
       \/ SetPage(r, p, "failed")
    /\ PageFrame /\ UNCHANGED stores

-----------------------------------------------------------------------------
(* process_with_billing                                                    *)

Store(entries) == cache' = Keep(entries)

\* A page that came back is stored at once and charged later
Collect(r, p) ==
    /\ pc[r] = "extract"
    /\ CASE page[r][p] \in {"ok", "okfigures"} ->
              /\ SetPage(r, p, IF page[r][p] = "ok" THEN "kept" ELSE "keptfigures")
              /\ Store({Entry(Key(Content(r), ask[r].prompt, p),
                              page[r][p] = "okfigures", ask[r].prompt)})
         [] page[r][p] \in {"failed", "cancelled"} ->
              SetPage(r, p, "skipped") /\ UNCHANGED cache
         [] OTHER -> FALSE
    /\ UNCHANGED <<redis, spent, images, docs, pc, ask, found, seen, bounds, history>>

\* All pages are charged in one transaction after the last one came back
Bill(r) ==
    /\ pc[r] = "extract" /\ Collected(r)
    /\ spent' = [spent EXCEPT ![User(r)] = @ + Cost * Cardinality(Kept(r))]
    /\ charged' = [charged EXCEPT ![r] =
                      [p \in Pages |-> IF p \in Kept(r) THEN @[p] + 1 ELSE @[p]]]
    /\ Goto(r, "decide")
    /\ UNCHANGED <<redis, cache, images, docs, ask, found, seen, page, bounds,
                   raced, lapsed, leaked, swept>>

-----------------------------------------------------------------------------
(* The rest of _run_extraction                                             *)

TaskFrame == UNCHANGED <<ask, found, seen, page, history>>

Decide(r) ==
    /\ pc[r] = "decide"
    /\ Goto(r, CASE r \in cancelled -> "finally"
                 [] FoundPages(r) \cup Kept(r) = {} -> "error"
                 [] OTHER -> "create")
    /\ TaskFrame /\ UNCHANGED <<redis, stores, bounds>>

\* A document: which of its pages are fresh or have figures, which prompts made them
Document(r, entries, fresh) == [by |-> r, content |-> Content(r), fresh |-> fresh,
                         figures |-> {e.page : e \in {x \in entries : x.figures}},
                         prompts |-> {e.made : e \in entries}]

FreshEntries(r) == {Entry(Key(Content(r), ask[r].prompt, p),
                          page[r][p] = "keptfigures", ask[r].prompt) : p \in Kept(r)}

CreateDocument(r) ==
    /\ pc[r] = "create"
    /\ docs' = docs \cup {Document(r, found[r] \cup FreshEntries(r), Kept(r))}
    /\ Goto(r, "answer")
    /\ TaskFrame /\ UNCHANGED <<redis, spent, cache, images, bounds>>

Answer(r) ==
    /\ pc[r] = "answer"
    /\ result' = [result EXCEPT ![r] = "document"]
    /\ Goto(r, "finally")
    /\ TaskFrame /\ UNCHANGED <<slots, reserved, cancelled, stores, bounds>>

\* The except branches: any await of the task may raise
Raise(r) ==
    /\ pc[r] \in {"extract", "create", "answer"}
    /\ Fault /\ SameBounds
    /\ Goto(r, "error")
    /\ TaskFrame /\ UNCHANGED <<redis, stores>>

ReportError(r) ==
    /\ pc[r] = "error"
    /\ \/ NoFault /\ result' = [result EXCEPT ![r] = "error"]
       \/ Fault /\ UNCHANGED result
    /\ Goto(r, "finally")
    /\ TaskFrame /\ SameBounds /\ UNCHANGED <<slots, reserved, cancelled, stores>>

\* The finally block: DECR, then HDEL of the reservation
GiveBack(r) ==
    /\ pc[r] = "finally"
    /\ slots' = [slots EXCEPT ![User(r)] = @ - 1]
    /\ Goto(r, "release")
    /\ TaskFrame /\ UNCHANGED <<reserved, cancelled, result, stores, bounds>>

GiveBackFails(r) ==
    /\ pc[r] = "finally"
    /\ Fault /\ SameBounds
    /\ Goto(r, "done")
    /\ leaked' = leaked \cup {r}
    /\ UNCHANGED <<redis, stores, ask, found, seen, page, charged, raced, lapsed, swept>>

\* The batch job of a request that died may still be billed
SharesField(r) == \E s \in Rivals(r) :
    /\ Content(s) = Content(r)
    /\ Relying(s) \/ (pc[s] = "dead" /\ ask[s].batch)

\* A rival uses the same field, or has read the charges and reads the hash next
Interferes(r) == SharesField(r) \/ \E s \in Rivals(r) : pc[s] = "pending"
ReleaseOf(r) ==
    /\ reserved' = [reserved EXCEPT ![User(r)] = ReleaseReservation(@, Content(r))]
    /\ raced' = IF Interferes(r) THEN raced \cup {User(r)} ELSE raced

\* Mutant of Release: a cancelled extraction keeps its reservation
ReleaseUnlessCancelled(r) ==
    /\ pc[r] = "release"
    /\ IF r \in cancelled THEN UNCHANGED <<reserved, raced>> ELSE ReleaseOf(r)
    /\ Goto(r, "done")
    /\ UNCHANGED <<slots, cancelled, result, stores, ask, found, seen, page, bounds,
                   charged, lapsed, leaked, swept>>

Release(r) ==
    /\ pc[r] = "release"
    /\ ReleaseOf(r)
    /\ Goto(r, "done")
    /\ UNCHANGED <<slots, cancelled, result, stores, ask, found, seen, page, bounds,
                   charged, lapsed, leaked, swept>>

-----------------------------------------------------------------------------
(* Clients, time and the deletion of documents                             *)

\* cancel_extraction; the client knows the id once the task is spawned
Cancel(r) ==
    /\ pc[r] \in {"extract", "decide", "create", "answer"}
    /\ cancelled' = cancelled \cup {r}
    /\ UNCHANGED <<slots, reserved, result, stores, locals, bounds, history>>

\* The rate limit key lives for 600 s after the last INCR, the cancel flag for
\* 300 s, the reservations for 48 h after the last HSET: no task runs that long
LapseSlots(u) ==
    /\ Event /\ lapses' = lapses + 1
    /\ slots[u] # 0
    /\ slots' = [slots EXCEPT ![u] = 0]
    /\ lapsed' = lapsed \cup {u}
    /\ UNCHANGED <<reserved, cancelled, result, stores, locals, faults, crashes, deletions,
                   charged, raced, leaked, swept>>

LapseCancel(r) ==
    /\ Event /\ lapses' = lapses + 1
    /\ r \in cancelled
    /\ cancelled' = cancelled \ {r}
    /\ UNCHANGED <<slots, reserved, result, stores, locals, faults, crashes, deletions, history>>

\* delete_documents_with_images: the images go with the last document that has
\* this content
Live(c) == \E r \in Requests : Content(r) = c /\ pc[r] \notin {"idle", "rejected", "done"}
DeleteDocument(d) ==
    /\ Event /\ deletions' = deletions + 1
    /\ docs' = docs \ {d}
    /\ IF \E o \in docs' : o.content = d.content
       THEN UNCHANGED <<images, swept>>
       ELSE /\ images' = {i \in images : i[1] # d.content}
            /\ swept' = IF Live(d.content) THEN swept \cup {d.content} ELSE swept
    /\ UNCHANGED <<redis, spent, cache, locals, faults, crashes, lapses,
                   charged, raced, lapsed, leaked>>

\* The page tasks outlive a consumer that raised, but not the process
PageTask(r) == /\ ~ask[r].batch /\ pc[r] # "dead"
               /\ \E p \in Pages : StartPage(r, p) \/ DetectFigures(r, p) \/ CallModel(r, p)
TaskStep(r) == \/ \E p \in Pages : Collect(r, p)
               \/ Bill(r) \/ Decide(r) \/ CreateDocument(r) \/ Answer(r)
               \/ ReportError(r) \/ GiveBack(r) \/ Release(r)
HandlerStep(r) == Refuse(r) \/ Lookup(r) \/ CheckAvailable(r) \/ ReadUsed(r)
                  \/ CheckLimit(r) \/ Reserve(r)
Failure(r) == LookupFails(r) \/ Raise(r) \/ GiveBackFails(r)

ExtractionStep ==
    \/ \E r \in Requests : \/ TakeSlot(r) \/ HandlerStep(r) \/ TaskStep(r) \/ PageTask(r)
                           \/ Failure(r) \/ Cancel(r) \/ LapseCancel(r)
    \/ \E u \in Users : LapseSlots(u)
    \/ \E d \in docs : DeleteDocument(d)
=============================================================================
