------------------------------ MODULE AudioCache ------------------------------
(***************************************************************************)
(* Where synthesized audio is kept: in Redis for AUDIO_CACHE_TTL_S, handed *)
(* over through tts:persist to the cache persister                         *)
(* (yapit/gateway/cache_persister.py), then in an SQLite table with LRU    *)
(* eviction (cache.py), some of it pinned by a run of warm_cache.py, and   *)
(* read back by GET /v1/audio (api/v1/audio.py) and synthesis.py.          *)
(*                                                                         *)
(* A row of the table is the audio of a variant or its word timestamps.    *)
(* The gateway's writes all go through one connection, so a commit of one  *)
(* coroutine commits what another has written so far; readers see what was *)
(* committed. The warmer is another process with a connection of its own.  *)
(***************************************************************************)
EXTENDS Naturals, Sequences, FiniteSets, Functions, Sums

CONSTANTS
    Variants,
    Timed,           \* variants whose synthesis returns word timestamps
    Warm,            \* variants of the previews and showcase documents
    AudioSize, StampSize,
    MaxSize,         \* _max_size_bytes
    MaxBatch,        \* MAX_BATCH
    MaxRequests,     \* bound on synthesis requests
    MaxEvents        \* bound on crashes, restarts, failed writes and early expiries

ASSUME CacheAssumption ==
    /\ IsFiniteSet(Variants) /\ Timed \subseteq Variants /\ Warm \subseteq Variants
    /\ AudioSize \in [Variants -> Nat \ {0}]
    /\ {StampSize, MaxSize, MaxBatch, MaxRequests, MaxEvents} \subseteq Nat

VARIABLES
    hot,         \* rows in Redis: tts:audio:{hash}, tts:timestamps:{hash}
    queue,       \* tts:persist, its right end first
    table,       \* the cache table as the gateway's connection sees it
    disk,        \* the table as it was last committed
    open,        \* that connection has an open transaction
    touched,     \* _lru_pending
    ppc, batch,  \* the persister: the variants it has popped,
    found, todo, \* what MGET returned of their rows, the variants it has yet to store,
    quota,       \* and the LIMIT of an eviction
    wpc, left, warmed,         \* the warmer
    missed,      \* variants a request found uncached and has not claimed yet
    inflight,    \* variants that are being synthesized
    finalizing,  \* variants announced and not pushed to tts:persist yet
    requests, events,
    \* history, read by the properties only
    announced,   \* variants whose audio was announced
    evicted,     \* rows the cache has evicted
    shielded,    \* variants the last warming run pinned, not stored again since
    counted      \* the unpinned rows when the quota was computed

persisterVars == <<ppc, batch, found, todo, quota, counted>>
warmerVars    == <<wpc, left, warmed>>
requestVars   == <<missed, inflight, finalizing, requests, announced>>
sqliteVars    == <<table, disk, open, touched, evicted, shielded>>
vars == <<hot, queue, sqliteVars, persisterVars, warmerVars, requestVars, events>>

Audio(v) == [variant |-> v, part |-> "audio"]
Stamps(v) == [variant |-> v, part |-> "timestamps"]
Rows == {Audio(v) : v \in Variants} \cup {Stamps(v) : v \in Timed}
Size == [r \in Rows |-> IF r.part = "audio" THEN AudioSize[r.variant] ELSE StampSize]

\* A table: for each row "none", "free" or "pinned", and which of two rows has the
\* earlier last_accessed
Table == [pin : [Rows -> {"none", "free", "pinned"}], older : SUBSET (Rows \X Rows)]
Empty == [pin |-> [r \in Rows |-> "none"], older |-> {}]
Holds(t, r) == t.pin[r] # "none"
Held(t) == {r \in Rows : Holds(t, r)}
FreeRows(t) == {r \in Rows : t.pin[r] = "free"}
Total(rows) == SumOf(Size, rows)

Init ==
    /\ hot = {} /\ queue = <<>>
    /\ table = Empty /\ disk = Empty /\ open = FALSE /\ touched = {}
    /\ ppc = "wait" /\ batch = <<>> /\ found = {} /\ todo = <<>> /\ quota = 0 /\ counted = {}
    /\ wpc = "idle" /\ left = {} /\ warmed = {}
    /\ missed = {} /\ inflight = {} /\ finalizing = {} /\ announced = {}
    /\ requests = 0 /\ events = 0
    /\ evicted = {} /\ shielded = {}

Event == events < MaxEvents /\ events' = events + 1

\* What GET /v1/audio and request_synthesis find: Redis, else the committed table
Available(v) == Audio(v) \in hot \/ Holds(disk, Audio(v))

-----------------------------------------------------------------------------
(* Requests and results: synthesis.py, result_consumer.py, as in TTSPipeline *)

FindUncached(v) ==
    /\ ~Available(v) /\ v \notin missed
    /\ requests < MaxRequests /\ requests' = requests + 1
    /\ missed' = missed \cup {v}
    /\ UNCHANGED <<hot, queue, sqliteVars, persisterVars, warmerVars, inflight, finalizing,
                   announced, events>>

\* SET NX of the inflight key, whatever happened since the lookup
Claim(v) ==
    /\ v \in missed
    /\ missed' = missed \ {v}
    /\ inflight' = inflight \cup {v}
    /\ UNCHANGED <<hot, queue, sqliteVars, persisterVars, warmerVars, finalizing, requests,
                   announced, events>>

\* SET of the audio and its timestamps, then the notification
Announce(v) ==
    /\ v \in inflight
    /\ inflight' = inflight \ {v}
    /\ hot' = hot \cup ({Audio(v), Stamps(v)} \cap Rows)
    /\ finalizing' = finalizing \cup {v}
    /\ announced' = announced \cup {v}
    /\ UNCHANGED <<queue, sqliteVars, persisterVars, warmerVars, missed, requests, events>>

Enqueue(v) ==
    /\ v \in finalizing
    /\ finalizing' = finalizing \ {v}
    /\ queue' = Append(queue, v)
    /\ UNCHANGED <<hot, sqliteVars, persisterVars, warmerVars, missed, inflight, requests,
                   announced, events>>

\* A key of Redis reaches its TTL: an event while the variant is on its way to SQLite
OnItsWay(v) == v \in finalizing \cup Range(queue) \cup Range(batch)
Lapse(r) ==
    /\ r \in hot
    /\ hot' = hot \ {r}
    /\ IF OnItsWay(r.variant) THEN Event ELSE UNCHANGED events
    /\ UNCHANGED <<queue, sqliteVars, persisterVars, warmerVars, requestVars>>

-----------------------------------------------------------------------------
(* SqliteCache                                                             *)

\* The order of the other rows, and with these rows as the most recent ones
Except(older, rows) == {p \in older : p[1] \notin rows /\ p[2] \notin rows}
Renewed(t, rows) == Except(t.older, rows) \cup (Held(t) \ rows) \X rows

\* REPLACE INTO cache: the row is the most recent one, and not pinned
Replaced(t, r) == [pin |-> [t.pin EXCEPT ![r] = "free"], older |-> Renewed(t, {r})]

Dropped(t, rows) == [pin |-> [r \in Rows |-> IF r \in rows THEN "none" ELSE t.pin[r]],
                     older |-> Except(t.older, rows)]

\* retrieve_data: the hit is remembered, and written by the next flush
Retrieve(r) ==
    /\ r \notin hot /\ Holds(disk, r) /\ r \notin touched
    /\ touched' = touched \cup {r}
    /\ UNCHANGED <<hot, queue, table, disk, open, evicted, shielded, persisterVars,
                   warmerVars, requestVars, events>>

\* UPDATE last_accessed of the rows that are still there: one time for all of them
Flushed(t) == [t EXCEPT !.older = Renewed(t, touched \cap Held(t))]

\* _flush_lru clears what it has copied, then writes and commits
Flush ==
    /\ touched # {}
    /\ table' = Flushed(table) /\ disk' = Flushed(table)
    /\ open' = FALSE /\ touched' = {}
    /\ UNCHANGED <<hot, queue, evicted, shielded, persisterVars, warmerVars, requestVars, events>>

FlushFails ==
    /\ touched # {} /\ Event
    /\ touched' = {}
    /\ UNCHANGED <<hot, queue, table, disk, open, evicted, shielded, persisterVars,
                   warmerVars, requestVars>>

\* _enforce_max_size deletes as many rows as the average size asks for, and 20 % more
Estimate(rows) == LET total == Total(rows) IN
    ((total - MaxSize) * Cardinality(rows) * 12) \div (total * 10) + 1

\* ORDER BY last_accessed LIMIT n: n rows, or all; none that stays is older
Oldest(t, rows, n) ==
    {victims \in SUBSET rows :
        /\ Cardinality(victims) = n \/ (victims = rows /\ Cardinality(rows) <= n)
        /\ \A r \in victims, s \in rows \ victims : <<s, r>> \notin t.older}

\* Mutant of Victims: pinned rows are rows like any other
VictimsPinned(t, n) == Oldest(t, Held(t), n)

\* ... the least recently used rows that are not pinned: rows of one time tie
Victims(t, n) == Oldest(t, FreeRows(t), n)

-----------------------------------------------------------------------------
(* run_cache_persister                                                     *)

PersistFrame == UNCHANGED <<hot, warmerVars, requestVars, touched>>

\* BRPOP, then RPOP until the list is empty or the batch full
Collect ==
    /\ ppc = "wait" /\ queue # <<>> /\ Len(batch) < MaxBatch
    /\ batch' = Append(batch, Head(queue)) /\ queue' = Tail(queue)
    /\ PersistFrame
    /\ UNCHANGED <<table, disk, open, evicted, shielded, ppc, found, todo, quota, counted,
                   events>>

\* Mutant of FetchAudio: only the variant that woke the loop is looked up
FetchAudioOfOne ==
    /\ ppc = "wait" /\ batch # <<>> /\ (queue = <<>> \/ Len(batch) = MaxBatch)
    /\ ppc' = "stamps"
    /\ found' = {Audio(Head(batch))} \cap hot
    /\ PersistFrame
    /\ UNCHANGED <<queue, table, disk, open, evicted, shielded, batch, todo, quota, counted, events>>

\* MGET of the audio of the whole batch
FetchAudio ==
    /\ ppc = "wait" /\ batch # <<>> /\ (queue = <<>> \/ Len(batch) = MaxBatch)
    /\ ppc' = "stamps"
    /\ found' = {Audio(v) : v \in Range(batch)} \cap hot
    /\ PersistFrame
    /\ UNCHANGED <<queue, table, disk, open, evicted, shielded, batch, todo, quota, counted, events>>

\* MGET of the timestamps
FetchStamps ==
    /\ ppc = "stamps"
    /\ found' = found \cup ({Stamps(v) : v \in Range(batch)} \cap hot)
    /\ todo' = batch
    /\ ppc' = "write"
    /\ PersistFrame
    /\ UNCHANGED <<queue, table, disk, open, evicted, shielded, batch, quota, counted, events>>

\* A variant whose audio is gone is skipped, its timestamps too
Skip ==
    /\ ppc = "write" /\ todo # <<>> /\ Audio(Head(todo)) \notin found
    /\ todo' = Tail(todo)
    /\ PersistFrame
    /\ UNCHANGED <<queue, table, disk, open, evicted, shielded, ppc, batch, found, quota, counted, events>>

\* store(commit=False) of the audio of the next variant
WriteAudio ==
    /\ ppc = "write" /\ todo # <<>> /\ Audio(Head(todo)) \in found
    /\ table' = Replaced(table, Audio(Head(todo)))
    /\ open' = TRUE
    /\ shielded' = shielded \ {Head(todo)}
    /\ IF Stamps(Head(todo)) \in found THEN ppc' = "second" /\ UNCHANGED todo
       ELSE todo' = Tail(todo) /\ UNCHANGED ppc
    /\ PersistFrame /\ UNCHANGED <<queue, disk, evicted, batch, found, quota, counted, events>>

\* ... and of its timestamps, which another coroutine may commit without them
WriteStamps ==
    /\ ppc = "second"
    /\ table' = Replaced(table, Stamps(Head(todo)))
    /\ open' = TRUE
    /\ todo' = Tail(todo) /\ ppc' = "write"
    /\ PersistFrame /\ UNCHANGED <<queue, disk, evicted, shielded, batch, found, quota, counted, events>>

\* Mutant of Commit: the batch is left to whoever commits next
CommitLater ==
    /\ ppc = "write" /\ todo = <<>>
    /\ ppc' = "measure" /\ found' = {}
    /\ PersistFrame
    /\ UNCHANGED <<queue, table, disk, open, evicted, shielded, batch, todo, quota, counted, events>>

Commit ==
    /\ ppc = "write" /\ todo = <<>>
    /\ disk' = table /\ open' = FALSE
    /\ ppc' = "measure" /\ found' = {}
    /\ PersistFrame /\ UNCHANGED <<queue, table, evicted, shielded, batch, todo, quota, counted, events>>

Measure ==
    /\ ppc = "measure"
    /\ IF Total(FreeRows(table)) > MaxSize
       THEN /\ quota' = Estimate(FreeRows(table))
            /\ counted' = FreeRows(table)
            /\ ppc' = "evict" /\ UNCHANGED batch
       ELSE ppc' = "wait" /\ batch' = <<>> /\ UNCHANGED <<quota, counted>>
    /\ PersistFrame
    /\ UNCHANGED <<queue, table, disk, open, evicted, shielded, found, todo, events>>

Evict ==
    /\ ppc = "evict"
    /\ \E victims \in Victims(table, quota) :
        /\ table' = Dropped(table, victims)
        /\ disk' = Dropped(table, victims) /\ open' = FALSE
        /\ evicted' = evicted \cup victims
    /\ ppc' = "wait" /\ batch' = <<>> /\ quota' = 0 /\ counted' = {}
    /\ PersistFrame /\ UNCHANGED <<queue, shielded, found, todo, events>>

\* The loop logs and goes on: the batch it has popped is gone, a transaction stays open
PersistFails ==
    /\ (ppc # "wait" \/ batch # <<>>) /\ Event
    /\ ppc' = "wait" /\ batch' = <<>> /\ found' = {} /\ todo' = <<>>
    /\ quota' = 0 /\ counted' = {}
    /\ PersistFrame /\ UNCHANGED <<queue, table, disk, open, evicted, shielded>>

-----------------------------------------------------------------------------
(* warm_cache.py                                                           *)

WarmFrame == UNCHANGED <<hot, queue, open, touched, evicted, persisterVars, requestVars, events>>

WarmStart ==
    /\ wpc = "idle"
    /\ wpc' = "warm" /\ left' = Warm /\ warmed' = {}
    /\ WarmFrame /\ UNCHANGED <<table, disk, shielded>>

\* batch_exists or synthesize_and_wait: a variant is warm, or the wait timed out
WarmText(v) ==
    /\ wpc = "warm" /\ v \in left
    /\ left' = left \ {v}
    /\ warmed' = IF Available(v) THEN warmed \cup {v} ELSE warmed
    /\ WarmFrame /\ UNCHANGED <<table, disk, shielded, wpc>>

\* Both statements need the write lock that an open transaction of the gateway has
UnpinAll ==
    /\ wpc = "warm" /\ left = {} /\ ~open
    /\ table' = [table EXCEPT !.pin = [r \in Rows |-> IF @[r] = "pinned" THEN "free" ELSE @[r]]]
    /\ disk' = table'
    /\ shielded' = {}
    /\ wpc' = "pin" /\ WarmFrame /\ UNCHANGED <<left, warmed>>

Pin ==
    /\ wpc = "pin" /\ ~open
    /\ LET unpinned == {v \in warmed : table.pin[Audio(v)] = "free"} IN
        /\ table' = [table EXCEPT !.pin = [r \in Rows |->
                        IF r \in {Audio(v) : v \in unpinned} THEN "pinned" ELSE @[r]]]
        /\ shielded' = unpinned
    /\ disk' = table'
    /\ wpc' = "idle" /\ warmed' = {} /\ WarmFrame /\ UNCHANGED left

\* busy_timeout is over, or the run is interrupted
WarmDies ==
    /\ wpc # "idle" /\ Event
    /\ wpc' = "idle" /\ left' = {} /\ warmed' = {}
    /\ UNCHANGED <<hot, queue, sqliteVars, persisterVars, requestVars>>

-----------------------------------------------------------------------------
(* The gateway stops                                                       *)

Stopped ==
    /\ ppc' = "wait" /\ batch' = <<>> /\ found' = {} /\ todo' = <<>>
    /\ quota' = 0 /\ counted' = {}
    /\ touched' = {} /\ open' = FALSE
    /\ finalizing' = {} /\ missed' = {}
    /\ UNCHANGED <<hot, queue, evicted, shielded, warmerVars, inflight, requests, announced>>

Crash ==
    /\ Event
    /\ table' = disk /\ UNCHANGED disk
    /\ Stopped

\* lifespan cancels the tasks, then close() flushes the touches: that commits what
\* the persister has written, and without a touch it is rolled back
Shutdown ==
    /\ Event
    /\ IF touched = {} THEN table' = disk /\ UNCHANGED disk
       ELSE table' = Flushed(table) /\ disk' = Flushed(table)
    /\ Stopped

Persister ==
    \/ Collect \/ FetchAudio \/ FetchStamps
    \/ Skip \/ WriteAudio \/ WriteStamps \/ Commit
    \/ Measure \/ Evict
Result(v) == Announce(v) \/ Enqueue(v)

Next ==
    \/ \E v \in Variants : FindUncached(v) \/ Claim(v) \/ Result(v) \/ WarmText(v)
    \/ \E r \in Rows : Lapse(r) \/ Retrieve(r)
    \/ Flush \/ FlushFails
    \/ Persister \/ PersistFails
    \/ WarmStart \/ UnpinAll \/ Pin \/ WarmDies
    \/ Crash \/ Shutdown

\* The persister is woken by BRPOP and never waits for anything else; a result
\* that was announced is pushed by the same task
Fairness == WF_vars(Persister) /\ WF_vars(\E v \in Variants : Enqueue(v))

Spec == Init /\ [][Next]_vars /\ Fairness

-----------------------------------------------------------------------------
(* Properties                                                              *)

\* The types of the Redis keys, the table, the persister and the warmer; last_accessed
\* orders the rows of a table (cache.py: key is the primary key).
TableOK(t) ==
    /\ t \in Table
    /\ t.older \subseteq Held(t) \X Held(t)
    /\ \A r \in Rows : <<r, r>> \notin t.older
    /\ \A q, r, s \in Rows : <<q, r>> \in t.older /\ <<r, s>> \in t.older => <<q, s>> \in t.older

TypeOK ==
    /\ hot \subseteq Rows /\ touched \subseteq Rows /\ open \in BOOLEAN
    /\ TableOK(table) /\ TableOK(disk)
    /\ ~open => table = disk
    /\ queue \in Seq(Variants)
    /\ ppc \in {"wait", "stamps", "write", "second", "measure", "evict"}
    /\ batch \in Seq(Variants) /\ Len(batch) <= MaxBatch
    /\ found \subseteq Rows /\ todo \in Seq(Variants)
    /\ wpc \in {"idle", "warm", "pin"} /\ left \subseteq Warm /\ warmed \subseteq Warm
    /\ missed \cup inflight \cup finalizing \cup announced \cup shielded \subseteq Variants
    /\ quota \in Nat /\ counted \subseteq Rows /\ evicted \subseteq Rows
    /\ requests \in Nat /\ events \in Nat

\* Audio that a client was told of can be fetched from Redis or from SQLite until
\* it is evicted: the hand-over through tts:persist leaves no gap, unless the
\* gateway died, a batch failed or the TTL ran out first (cache_persister.py).
AudioKept == events = 0 =>
    \A v \in announced : Available(v) \/ Audio(v) \in evicted

\* What a warming run pinned stays in the table and pinned, whatever is stored,
\* flushed or evicted, through crashes and rollbacks, until the next run unpins
\* it or the same variant is stored again (pin, _enforce_max_size).
PinsHold == \A v \in shielded : table.pin[Audio(v)] = "pinned" /\ disk.pin[Audio(v)] = "pinned"

\* When all unpinned rows have one size, the rows that an eviction is about to
\* delete bring the cache under its limit (_enforce_max_size), unless a row was
\* unpinned or pinned after the sizes were read.
Uniform(rows) == \A r, s \in rows : Size[r] = Size[s]
EvictionSuffices ==
    ppc = "evict" /\ FreeRows(table) = counted /\ Uniform(counted) =>
        \A victims \in Victims(table, quota) : Total(counted \ victims) <= MaxSize

\* Timestamps never come without their audio being stored first: a table has them
\* for variants whose audio it has, or has evicted (run_cache_persister).
StampsFollowAudio == \A v \in Timed :
    Holds(disk, Stamps(v)) => Holds(disk, Audio(v)) \/ Audio(v) \in evicted

\* Every announced variant gets to the table in the end (run_cache_persister),
\* barring the same failures.
EveryAudioPersisted == <>[](events = 0 =>
    \A v \in announced : Holds(disk, Audio(v)) \/ Audio(v) \in evicted)

\* The table is consistent across crashes, rollbacks and the four writers that share
\* one connection: pins hold, evictions suffice, timestamps have their audio.
CacheInv == TypeOK /\ PinsHold /\ EvictionSuffices /\ StampsFollowAudio
=============================================================================
