--------------------------- MODULE LibraryProofs ---------------------------
(***************************************************************************)
(* Safety of DocumentLibrary for any guests, accounts, request handlers,   *)
(* contents, sources, limits and number of failures. Each handler and the  *)
(* cleanup pass carry what they have read across their awaits; the         *)
(* invariant says what is still true of it when they use it.               *)
(***************************************************************************)
EXTENDS DocumentLibrary, FiniteSetTheorems, TLAPS

-----------------------------------------------------------------------------
(* What a document, a prepared file and a task look like                   *)

Sources == Urls \cup {NoValue}
Bytes == Contents \cup {NoValue}

DocRecords ==
    [owner : Users, public : BOOLEAN, content : Bytes, shows : Bytes, source : Sources,
     created : {"recent", "old"}, played : {"never", "recent", "old"},
     maker : Users, wanted : Sources, consent : BOOLEAN, spoiled : BOOLEAN]

FileKeys == {UrlKey(url) : url \in Urls}
                \cup {UploadKey(c, s) : c \in Contents, s \in Sources}
SourceOf(key) == IF key[1] = "url" THEN key[2] ELSE key[3]

Prepared  == [pc : {"prepared"}, user : Users, key : FileKeys, wanted : Sources]
Drafting  == [pc : {"extracting", "drafted"}, draft : DocRecords]
Sharing   == [pc : {"sharing"}, user : Users, doc : Nat, old : BOOLEAN, new : BOOLEAN]
Deletions == [pc : {"deleting", "deleted"}, user : Users, rows : SUBSET Nat,
              hashes : SUBSET Contents, asof : Nat]
Patching  == [pc : {"patching"}, user : Users, field : Fields,
              old : [Fields -> BOOLEAN] \cup {NoValue}, new : BOOLEAN]
Closing   == [pc : {"closing"}, user : Users]

Listed    == [pc : {"listed"}, users : SUBSET Guests, recent : SUBSET Nat]
Purges    == [pc : {"deleting", "deleted"}, user : {NoValue}, users : SUBSET Guests,
              recent : SUBSET Nat, rows : SUBSET Nat, hashes : SUBSET Contents, asof : Nat]
Sweeping  == [pc : {"sweep"}] \cup [pc : {"orphans"}, users : SUBSET Guests]

HandlerTyped(r) ==
    /\ r \in {Idle} \cup Prepared \cup Drafting \cup Sharing \cup Deletions \cup Patching \cup Closing
    /\ r.pc = "extracting" => r.draft.content # NoValue
CleanupTyped(r) == r \in {Idle} \cup Listed \cup Purges \cup Sweeping

Typed ==
    /\ \E n \in Nat : Ids = 1 .. n
    /\ \A d \in Ids : docs[d] = Gone \/ docs[d] \in DocRecords
    /\ prefs \in [Users -> [Fields -> BOOLEAN] \cup {NoValue}]
    /\ \A key \in DOMAIN fileCache :
          key \in FileKeys /\ fileCache[key] \in [content : Bytes, source : Sources]
    /\ images \subseteq Contents /\ accounts \subseteq Accounts
    /\ DOMAIN task = Tasks
    /\ \A h \in Handlers : HandlerTyped(task[h])
    /\ CleanupTyped(task[Cleanup])

-----------------------------------------------------------------------------
(* What is true of what a task holds                                       *)

\* What its user made of it, from the source its user gave
Faithful(d) ==
    /\ d.public => d.consent
    /\ d.source = d.wanted
    /\ d.owner \in Guests => d.maker = d.owner

Illustrated(d) == d.content \in images \cup {NoValue} \/ d.spoiled

DocsFaithful ==
    /\ \A d \in Live : Faithful(docs[d])
    /\ \A h \in Handlers : task[h].pc \in {"extracting", "drafted"} => Faithful(task[h].draft)

FilesKept ==
    /\ \A key \in DOMAIN fileCache : fileCache[key].source = SourceOf(key)
    /\ \A h \in Handlers : task[h].pc = "prepared" => task[h].wanted = SourceOf(task[h].key)

DraftsIllustrated ==
    \A h \in Handlers : task[h].pc = "drafted" => Illustrated(task[h].draft)

\* The rows an open transaction has deleted are its own; what it will purge, only its
\* rows and later documents refer to.
DeletionsApart ==
    /\ \A t \in Tasks : Deleting(t) \subseteq Live
    /\ \A t, s \in Tasks : t # s => Deleting(t) \cap Deleting(s) = {}

PurgesOwnContents ==
    \A t \in Tasks : task[t].pc = "deleted" =>
        /\ task[t].asof <= Cardinality(Ids)
        /\ \A d \in Live : d <= task[t].asof /\ docs[d].content \in task[t].hashes
                => d \in task[t].rows

\* A row of an inactive guest was made by a guest, and not seen in use by the pass
CleanupInv ==
    LET r == task[Cleanup] IN
    /\ r.pc = "listed" => /\ r.recent \subseteq Ids
                          /\ \A d \in r.recent \cap Live : docs[d].owner \notin r.users
    /\ r.pc \in {"deleting", "deleted"} =>
          /\ r.rows \subseteq Ids
          /\ \A d \in r.rows \cap Live : docs[d].maker \in Guests /\ d \notin r.recent

LibraryKept ==
    /\ Typed /\ DocsFaithful /\ FilesKept /\ DraftsIllustrated /\ DeletionsApart
    /\ PurgesOwnContents /\ CleanupInv /\ StorageBounded /\ ImagesServed

-----------------------------------------------------------------------------
(* Types                                                                   *)

LEMMA GoneIsNone == Gone \notin DocRecords
BY LibraryAssumption DEF Gone, DocRecords, Users

LEMMA LiveTyped == Typed => \A d \in Live : d \in Ids /\ d \in Nat /\ docs[d] \in DocRecords
BY DEF Typed, Live

\* What the step of a handler tells of what it holds
LEMMA HandlerKinds ==
    ASSUME Typed, NEW h \in Handlers
    PROVE  /\ task[h].pc = "prepared" => task[h] \in Prepared
           /\ task[h].pc \in {"extracting", "drafted"} => task[h] \in Drafting
           /\ task[h].pc = "extracting" => task[h].draft.content # NoValue
           /\ task[h].pc = "sharing" => task[h] \in Sharing
           /\ task[h].pc \in {"deleting", "deleted"} => task[h] \in Deletions
           /\ task[h].pc = "patching" => task[h] \in Patching
           /\ task[h].pc = "closing" => task[h] \in Closing
           /\ task[h].pc \notin {"listed", "sweep", "orphans"}
<1>1. HandlerTyped(task[h])
      BY DEF Typed
<1>2. QED
      BY <1>1 DEF HandlerTyped, Idle, Prepared, Drafting, Sharing, Deletions, Patching, Closing

LEMMA CleanupKinds ==
    ASSUME Typed
    PROVE  /\ task[Cleanup].pc = "listed" => task[Cleanup] \in Listed
           /\ task[Cleanup].pc \in {"deleting", "deleted"} => task[Cleanup] \in Purges
           /\ task[Cleanup].pc = "orphans" => task[Cleanup] \in Sweeping
           /\ task[Cleanup].pc \notin {"prepared", "extracting", "drafted", "sharing",
                                       "patching", "closing"}
<1>1. CleanupTyped(task[Cleanup])
      BY DEF Typed
<1>2. QED
      BY <1>1 DEF CleanupTyped, Idle, Listed, Purges, Sweeping

LEMMA IdleTyped == HandlerTyped(Idle) /\ CleanupTyped(Idle)
BY DEF HandlerTyped, CleanupTyped, Idle

\* One task moves
LEMMA GotoTyped ==
    ASSUME Typed, NEW t \in Tasks, NEW next, Goto(t, next),
           t \in Handlers => HandlerTyped(next), t = Cleanup => CleanupTyped(next)
    PROVE  /\ DOMAIN task' = Tasks
           /\ \A h \in Handlers : HandlerTyped(task'[h])
           /\ CleanupTyped(task'[Cleanup])
<1>1. \A s \in Tasks : task'[s] = IF s = t THEN next ELSE task[s]
      BY DEF Goto, Typed
<1>2. Cleanup \notin Handlers
      BY LibraryAssumption DEF Cleanup
<1>3. QED
      BY <1>1, <1>2 DEF Goto, Typed, Tasks

LEMMA DraftTyped ==
    ASSUME NEW u \in Users, NEW public \in BOOLEAN, NEW content \in Bytes, NEW source \in Sources
    PROVE  Draft(u, public, content, source) \in DocRecords
BY DEF Draft, DocRecords

LEMMA DefaultPublicTyped == ASSUME Typed, NEW u \in Users  PROVE DefaultPublic(u) \in BOOLEAN
BY DEF DefaultPublic

\* What a request starts with
LEMMA RequestTyped ==
    ASSUME Typed, NEW h \in Handlers, NEW u, NEW next, Request(h, u, next),
           u \in Users => HandlerTyped(next)
    PROVE  /\ u \in Users
           /\ DOMAIN task' = Tasks
           /\ \A k \in Handlers : HandlerTyped(task'[k])
           /\ CleanupTyped(task'[Cleanup])
<1>1. u \in Users
      BY DEF Request, Typed, Users
<1>2. Goto(h, next) /\ h \in Tasks /\ h # Cleanup
      BY LibraryAssumption DEF Request, Goto, Tasks, Cleanup
<1>3. QED
      BY <1>1, <1>2, GotoTyped

RestTyped ==
    /\ prefs' \in [Users -> [Fields -> BOOLEAN] \cup {NoValue}]
    /\ \A key \in DOMAIN fileCache' :
          key \in FileKeys /\ fileCache'[key] \in [content : Bytes, source : Sources]
    /\ images' \subseteq Contents /\ accounts' \subseteq Accounts

TasksTyped ==
    /\ DOMAIN task' = Tasks
    /\ \A h \in Handlers : HandlerTyped(task'[h])
    /\ CleanupTyped(task'[Cleanup])

\* The documents are the ones there were, each of them still a document or gone
DocsTyped ==
    /\ DOMAIN docs' = Ids
    /\ \A d \in Ids : docs'[d] = Gone \/ docs'[d] \in DocRecords

LEMMA TypedParts ==
    /\ Typed /\ DocsTyped /\ TasksTyped /\ RestTyped => Typed'
    /\ Typed /\ UNCHANGED docs => DocsTyped
    /\ Typed /\ UNCHANGED <<prefs, fileCache, images, accounts>> => RestTyped
<1>1. Typed /\ DocsTyped /\ TasksTyped /\ RestTyped => Typed'
      BY DEF Typed, DocsTyped, TasksTyped, RestTyped, Ids
<1>2. Typed /\ UNCHANGED docs => DocsTyped
      BY DEF Typed, DocsTyped, Ids
<1>3. Typed /\ UNCHANGED <<prefs, fileCache, images, accounts>> => RestTyped
      BY DEF Typed, RestTyped
<1>4. QED
      BY <1>1, <1>2, <1>3

\* Every cached file is kept under a key that says where it is from
LEMMA StoredTyped ==
    ASSUME Typed, NEW key \in FileKeys, NEW entry \in [content : Bytes, source : Sources]
    PROVE  \A k \in DOMAIN Stored(key, entry) :
              k \in FileKeys /\ Stored(key, entry)[k] \in [content : Bytes, source : Sources]
BY DEF Stored, Typed

LEMMA TypedCreate ==
    ASSUME Typed, NEW h \in Handlers, CreateStep(h)
    PROVE  Typed'
<1>1. ASSUME NEW u \in Users, NEW url \in Urls, PrepareUrl(h, u, url)
      PROVE  Typed'
  <2>1. UrlKey(url) \in FileKeys /\ url \in Sources /\ NoValue \in Bytes
        BY DEF FileKeys, Sources, Bytes
  <2>2. HandlerTyped([pc |-> "prepared", user |-> u, key |-> UrlKey(url), wanted |-> url])
        BY <2>1 DEF HandlerTyped, Prepared
  <2>3. TasksTyped
        BY <1>1, <2>2, RequestTyped DEF PrepareUrl, TasksTyped
  <2>4. [content |-> NoValue, source |-> url] \in [content : Bytes, source : Sources]
        BY <2>1
  <2>5. RestTyped
        BY <1>1, <2>1, <2>4, StoredTyped DEF PrepareUrl, RestTyped, Typed
  <2>6. DocsTyped
        BY <1>1, TypedParts DEF PrepareUrl
  <2>7. QED
        BY <2>3, <2>5, <2>6, TypedParts
<1>2. ASSUME NEW u \in Users, NEW c \in Contents, NEW s \in Sources, PrepareUpload(h, u, c, s)
      PROVE  Typed'
  <2>1. UploadKey(c, s) \in FileKeys /\ c \in Bytes
        BY DEF FileKeys, Bytes
  <2>2. HandlerTyped([pc |-> "prepared", user |-> u, key |-> UploadKey(c, s), wanted |-> s])
        BY <2>1 DEF HandlerTyped, Prepared
  <2>3. TasksTyped
        BY <1>2, <2>2, RequestTyped DEF PrepareUpload, TasksTyped
  <2>4. [content |-> c, source |-> s] \in [content : Bytes, source : Sources]
        BY <2>1
  <2>5. RestTyped
        BY <1>2, <2>1, <2>4, StoredTyped DEF PrepareUpload, RestTyped, Typed
  <2>6. DocsTyped
        BY <1>2, TypedParts DEF PrepareUpload
  <2>7. QED
        BY <2>3, <2>5, <2>6, TypedParts
<1>3. ASSUME NEW u \in Users, DraftText(h, u)
      PROVE  Typed'
  <2>1. NoValue \in Bytes /\ NoValue \in Sources
        BY DEF Bytes, Sources
  <2>2. Draft(u, DefaultPublic(u), NoValue, NoValue) \in DocRecords
        BY <2>1, DraftTyped, DefaultPublicTyped
  <2>3. HandlerTyped([pc |-> "drafted", draft |-> Draft(u, DefaultPublic(u), NoValue, NoValue)])
        BY <2>2 DEF HandlerTyped, Drafting
  <2>4. TasksTyped
        BY <1>3, <2>3, RequestTyped DEF DraftText, TasksTyped
  <2>5. QED
        BY <1>3, <2>4, TypedParts DEF DraftText
<1>4. ASSUME NEW u \in Users, NEW d \in Ids, DraftCopy(h, u, d)
      PROVE  Typed'
  <2>1. docs[d] \in DocRecords
        BY <1>4, LiveTyped DEF DraftCopy
  <2>2. Copy(u, d) \in DocRecords
        BY <2>1 DEF Copy, DocRecords, Bytes
  <2>3. HandlerTyped([pc |-> "drafted", draft |-> Copy(u, d)])
        BY <2>2 DEF HandlerTyped, Drafting
  <2>4. TasksTyped
        BY <1>4, <2>3, RequestTyped DEF DraftCopy, TasksTyped
  <2>5. QED
        BY <1>4, <2>4, TypedParts DEF DraftCopy
<1>5. ASSUME DraftFile(h)
      PROVE  Typed'
  <2>1. task[h] \in Prepared /\ task[h].key \in DOMAIN fileCache
        BY <1>5, HandlerKinds DEF DraftFile
  <2>2. PICK r \in Prepared : r = task[h]
        BY <2>1
  <2>3. PICK entry \in [content : Bytes, source : Sources] : entry = fileCache[r.key]
        BY <2>1, <2>2 DEF Typed
  <2>4. PICK draft \in DocRecords : draft = Draft(r.user, DefaultPublic(r.user), entry.content, entry.source)
        BY DraftTyped, DefaultPublicTyped DEF Prepared
  <2>5. PICK next : /\ Goto(h, next)
                    /\ next = [pc |-> IF entry.content = NoValue THEN "drafted" ELSE "extracting",
                               draft |-> [draft EXCEPT !.wanted = r.wanted]]
        BY <1>5, <2>2, <2>3, <2>4 DEF DraftFile
  <2>6. [draft EXCEPT !.wanted = r.wanted] \in DocRecords
        BY DEF DocRecords, Prepared
  <2>7. HandlerTyped(next)
    <3>1. next \in Drafting
          BY <2>5, <2>6 DEF Drafting
    <3>2. draft.content = entry.content
          BY <2>4 DEF Draft
    <3>3. [draft EXCEPT !.wanted = r.wanted].content = draft.content
          BY DEF DocRecords
    <3>4. next.pc = "extracting" => next.draft.content # NoValue
          BY <2>5, <3>2, <3>3
    <3>5. QED
          BY <3>1, <3>4 DEF HandlerTyped
  <2>8. TasksTyped
        BY <2>5, <2>7, GotoTyped, LibraryAssumption DEF TasksTyped, Tasks, Cleanup
  <2>9. QED
        BY <1>5, <2>8, TypedParts DEF DraftFile
<1>6. ASSUME RefuseFile(h)
      PROVE  Typed'
  <2>1. Goto(h, Idle) /\ HandlerTyped(Idle)
        BY <1>6, IdleTyped DEF RefuseFile
  <2>2. TasksTyped
        BY <2>1, GotoTyped, LibraryAssumption DEF TasksTyped, Tasks, Cleanup
  <2>3. QED
        BY <1>6, <2>2, TypedParts DEF RefuseFile
<1>7. ASSUME Extract(h)
      PROVE  Typed'
  <2>1. PICK r \in Drafting : r = task[h] /\ r.pc = "extracting"
        BY <1>7, HandlerKinds DEF Extract
  <2>2. [r EXCEPT !.pc = "drafted"] \in Drafting
        BY DEF Drafting
  <2>3. HandlerTyped([r EXCEPT !.pc = "drafted"])
        BY <2>2 DEF HandlerTyped
  <2>4. TasksTyped
        BY <1>7, <2>1, <2>3, GotoTyped, LibraryAssumption DEF Extract, TasksTyped, Tasks, Cleanup
  <2>5. r.draft.content \in Contents
    <3>1. r.draft.content # NoValue /\ r.draft \in DocRecords
          BY <2>1, HandlerKinds DEF Drafting
    <3>2. QED
          BY <3>1 DEF DocRecords, Bytes
  <2>6. RestTyped
        BY <1>7, <2>1, <2>5 DEF Extract, RestTyped, Typed
  <2>7. QED
        BY <1>7, <2>4, <2>6, TypedParts DEF Extract
<1>8. ASSUME Insert(h)
      PROVE  Typed'
  <2>1. task[h].draft \in DocRecords
        BY <1>8, HandlerKinds DEF Insert, Drafting
  <2>2. HandlerTyped(Idle)
        BY IdleTyped
  <2>3. TasksTyped
        BY <1>8, <2>2, GotoTyped, LibraryAssumption DEF Insert, TasksTyped, Tasks, Cleanup
  <2>4. PICK n \in Nat : Ids = 1 .. n
        BY DEF Typed
  <2>5. Cardinality(Ids) = n
        BY <2>4, FS_Interval
  <2>6. /\ Ids' = 1 .. n + 1
        /\ \A d \in Ids' : docs'[d] = IF d \in Ids THEN docs[d] ELSE task[h].draft
        BY <1>8, <2>5 DEF Insert, Ids
  <2>7. QED
        BY <1>8, <2>1, <2>3, <2>6 DEF Insert, Typed, TasksTyped
<1>9. QED
      BY <1>1, <1>2, <1>3, <1>4, <1>5, <1>6, <1>7, <1>8 DEF CreateStep, Sources

\* One handler moves, without a request
LEMMA HandlerGoto ==
    ASSUME Typed, NEW h \in Handlers, NEW next, Goto(h, next), HandlerTyped(next)
    PROVE  TasksTyped
<1>1. h \in Tasks /\ h # Cleanup
      BY LibraryAssumption DEF Tasks, Cleanup
<1>2. QED
      BY <1>1, GotoTyped DEF TasksTyped

LEMMA TypedChange ==
    ASSUME Typed, NEW h \in Handlers, ChangeStep(h)
    PROVE  Typed'
<1>1. ASSUME NEW u \in Users, NEW d \in Ids, NEW public \in BOOLEAN, LoadForUpdate(h, u, d, public)
      PROVE  Typed'
  <2>1. d \in Live
        BY <1>1 DEF LoadForUpdate, OwnedBy
  <2>2. d \in Nat /\ docs[d].public \in BOOLEAN
        BY <2>1, LiveTyped DEF DocRecords
  <2>3. HandlerTyped([pc |-> "sharing", user |-> u, doc |-> d, old |-> docs[d].public, new |-> public])
        BY <2>2 DEF HandlerTyped, Sharing
  <2>4. TasksTyped
        BY <1>1, <2>3, RequestTyped DEF LoadForUpdate, TasksTyped
  <2>5. QED
        BY <1>1, <2>4, TypedParts DEF LoadForUpdate
<1>2. ASSUME NEW u \in Users, NEW f \in Fields, NEW value \in BOOLEAN, LoadPrefs(h, u, f, value)
      PROVE  Typed'
  <2>1. prefs[u] \in [Fields -> BOOLEAN] \cup {NoValue}
        BY DEF Typed
  <2>2. HandlerTyped([pc |-> "patching", user |-> u, field |-> f, old |-> prefs[u], new |-> value])
        BY <2>1 DEF HandlerTyped, Patching
  <2>3. TasksTyped
        BY <1>2, <2>2, RequestTyped DEF LoadPrefs, TasksTyped
  <2>4. QED
        BY <1>2, <2>3, TypedParts DEF LoadPrefs
<1>3. ASSUME NEW u \in Users, NEW rows \in SUBSET Ids, LoadForDelete(h, u, rows)
      PROVE  Typed'
  <2>1. rows \subseteq Live
        BY <1>3 DEF LoadForDelete, OwnedBy
  <2>2. rows \in SUBSET Nat /\ HashesOf(rows) \in SUBSET Contents
    <3>1. \A d \in rows : d \in Nat /\ docs[d].content \in Contents \cup {NoValue}
          BY <2>1, LiveTyped DEF DocRecords, Bytes
    <3>2. QED
          BY <3>1 DEF HashesOf
  <2>3. HandlerTyped([pc |-> "deleting", user |-> u, rows |-> rows, hashes |-> HashesOf(rows),
                      asof |-> 0])
        BY <2>2 DEF HandlerTyped, Deletions
  <2>4. TasksTyped
        BY <1>3, <2>3, RequestTyped DEF LoadForDelete, TasksTyped
  <2>5. QED
        BY <1>3, <2>4, TypedParts DEF LoadForDelete
<1>4. ASSUME NEW u \in Users, CloseAccount(h, u)
      PROVE  Typed'
  <2>1. HandlerTyped([pc |-> "closing", user |-> u])
        BY DEF HandlerTyped, Closing
  <2>2. TasksTyped
        BY <1>4, <2>1, RequestTyped DEF CloseAccount, TasksTyped
  <2>3. DocsTyped
        BY <1>4 DEF CloseAccount, Removed, DocsTyped, Typed
  <2>4. RestTyped
        BY <1>4 DEF CloseAccount, RestTyped, Typed
  <2>5. QED
        BY <2>2, <2>3, <2>4, TypedParts
<1>5. ASSUME SaveUpdate(h)
      PROVE  Typed'
  <2>1. PICK r \in Sharing : r = task[h]
        BY <1>5, HandlerKinds DEF SaveUpdate
  <2>2. TasksTyped
        BY <1>5, IdleTyped, HandlerGoto DEF SaveUpdate
  <2>3. ASSUME r.doc \in Live
        PROVE  [docs[r.doc] EXCEPT !.public = r.new, !.consent = r.new] \in DocRecords
    <3>1. docs[r.doc] \in DocRecords /\ r.new \in BOOLEAN
          BY <2>3, LiveTyped DEF Sharing
    <3>2. QED
          BY <3>1 DEF DocRecords
  <2>4. DocsTyped
    <3>1. CASE UNCHANGED docs
          BY <3>1, TypedParts
    <3>2. CASE r.doc \in Live /\ docs' = [docs EXCEPT ![r.doc].public = r.new, ![r.doc].consent = r.new]
      <4>1. docs'[r.doc] = [docs[r.doc] EXCEPT !.public = r.new, !.consent = r.new] /\ DOMAIN docs' = Ids
            BY <3>2 DEF Ids, Live
      <4>2. \A d \in Ids \ {r.doc} : docs'[d] = docs[d]
            BY <3>2 DEF Ids
      <4>3. QED
            BY <2>3, <3>2, <4>1, <4>2 DEF DocsTyped, Typed
    <3>3. QED
          BY <1>5, <2>1, <3>1, <3>2 DEF SaveUpdate
  <2>5. QED
        BY <1>5, <2>2, <2>4, TypedParts DEF SaveUpdate
<1>6. ASSUME SavePrefs(h)
      PROVE  Typed'
  <2>1. PICK r \in Patching : r = task[h]
        BY <1>6, HandlerKinds DEF SavePrefs
  <2>2. TasksTyped
        BY <1>6, IdleTyped, HandlerGoto DEF SavePrefs
  <2>3. r.user \in Users /\ r.field \in Fields /\ r.new \in BOOLEAN
        BY DEF Patching
  <2>4. prefs' \in [Users -> [Fields -> BOOLEAN] \cup {NoValue}]
    <3>1. CASE r.old = NoValue /\ prefs[r.user] = NoValue
      <4>1. [NoPrefs EXCEPT ![r.field] = r.new] \in [Fields -> BOOLEAN]
            BY <2>3 DEF NoPrefs
      <4>2. prefs' = [prefs EXCEPT ![r.user] = [NoPrefs EXCEPT ![r.field] = r.new]]
            BY <1>6, <2>1, <3>1 DEF SavePrefs
      <4>3. QED
            BY <2>3, <4>1, <4>2 DEF Typed
    <3>2. CASE r.old # NoValue /\ prefs[r.user] # NoValue
      <4>1. prefs[r.user] \in [Fields -> BOOLEAN]
            BY <2>3, <3>2 DEF Typed
      <4>2. Patched(prefs[r.user], r) \in [Fields -> BOOLEAN]
            BY <2>3, <4>1 DEF Patched
      <4>3. prefs' = [prefs EXCEPT ![r.user] = Patched(prefs[r.user], r)]
            BY <1>6, <2>1, <3>2 DEF SavePrefs
      <4>4. QED
            BY <2>3, <4>2, <4>3 DEF Typed
    <3>3. CASE ~(r.old = NoValue /\ prefs[r.user] = NoValue)
               /\ ~(r.old # NoValue /\ prefs[r.user] # NoValue)
      <4>1. prefs' = prefs
            BY <1>6, <2>1, <3>3 DEF SavePrefs
      <4>2. QED
            BY <4>1 DEF Typed
    <3>4. QED
          BY <3>1, <3>2, <3>3
  <2>5. RestTyped
        BY <1>6, <2>4 DEF SavePrefs, RestTyped, Typed
  <2>6. QED
        BY <1>6, <2>2, <2>5, TypedParts DEF SavePrefs
<1>7. ASSUME CloseLogin(h)
      PROVE  Typed'
  <2>1. TasksTyped
        BY <1>7, IdleTyped, HandlerGoto DEF CloseLogin
  <2>2. RestTyped
        BY <1>7 DEF CloseLogin, RestTyped, Typed
  <2>3. QED
        BY <1>7, <2>1, <2>2, TypedParts DEF CloseLogin
<1>8. QED
      BY <1>1, <1>2, <1>3, <1>4, <1>5, <1>6, <1>7 DEF ChangeStep

\* A deletion, by a request or by the pass, is on its way
LEMMA DeletionKinds ==
    ASSUME Typed, NEW t \in Tasks, task[t].pc \in {"deleting", "deleted"}
    PROVE  /\ t \in Handlers => task[t] \in Deletions
           /\ t = Cleanup => task[t] \in Purges
           /\ task[t].rows \subseteq Nat /\ task[t].hashes \subseteq Contents
           /\ task[t].asof \in Nat
<1>1. t \in Handlers \/ t = Cleanup
      BY DEF Tasks
<1>2. CASE t \in Handlers
      BY <1>2, HandlerKinds, LibraryAssumption DEF Deletions, Cleanup
<1>3. CASE t = Cleanup
      BY <1>3, CleanupKinds, LibraryAssumption DEF Purges, Cleanup
<1>4. QED
      BY <1>1, <1>2, <1>3

LEMMA CardinalityOfIds == Typed => Cardinality(Ids) \in Nat /\ Ids = 1 .. Cardinality(Ids)
<1> SUFFICES ASSUME Typed
             PROVE  Cardinality(Ids) \in Nat /\ Ids = 1 .. Cardinality(Ids)
    OBVIOUS
<1>1. PICK n \in Nat : Ids = 1 .. n
      BY DEF Typed
<1>2. Cardinality(Ids) = n
      BY <1>1, FS_Interval
<1>3. QED
      BY <1>1, <1>2

\* A document that loses its images is the same one but for that
LEMMA SpoiledTyped ==
    ASSUME NEW d \in DocRecords
    PROVE  [d EXCEPT !.spoiled = TRUE] \in DocRecords
BY DEF DocRecords

LEMMA TypedDelete ==
    ASSUME Typed, NEW t \in Tasks, DeleteStep(t)
    PROVE  Typed'
<1>1. ASSUME DeleteRows(t)
      PROVE  Typed'
  <2>1. task[t].pc = "deleting"
        BY <1>1 DEF DeleteRows
  <2>2. PICK rows, hashes : /\ rows = task[t].rows \cap Live
                            /\ hashes = task[t].hashes \ StillReferenced(task[t].rows)
        OBVIOUS
  <2>3. rows \in SUBSET Nat /\ hashes \in SUBSET Contents
        BY <2>1, <2>2, DeletionKinds
  <2>4. PICK n \in Nat : n = Cardinality(Ids)
        BY CardinalityOfIds
  <2>5. PICK next : next = [task[t] EXCEPT !.pc = "deleted", !.rows = rows, !.hashes = hashes,
                                            !.asof = n]
        OBVIOUS
  <2>6. TasksTyped
    <3>1. Goto(t, next)
          BY <1>1, <2>2, <2>4, <2>5 DEF DeleteRows
    <3>2. task[t].pc \in {"deleting", "deleted"}
          BY <2>1
    <3>3. ASSUME t \in Handlers
          PROVE  HandlerTyped(next)
      <4>1. task[t] \in Deletions
            BY <3>2, <3>3, DeletionKinds
      <4>2. next \in Deletions /\ next.pc = "deleted"
            BY <2>3, <2>5, <4>1 DEF Deletions
      <4>3. QED
            BY <4>2 DEF HandlerTyped
    <3>4. ASSUME t = Cleanup
          PROVE  CleanupTyped(next)
      <4>1. task[t] \in Purges
            BY <3>2, <3>4, DeletionKinds
      <4>2. next \in Purges
            BY <2>3, <2>5, <4>1 DEF Purges
      <4>3. QED
            BY <4>2 DEF CleanupTyped
    <3>5. QED
          BY <3>1, <3>3, <3>4, GotoTyped DEF TasksTyped
  <2>7. QED
        BY <1>1, <2>6, TypedParts DEF DeleteRows
<1>2. ASSUME PurgeImages(t)
      PROVE  Typed'
  <2>1. task[t].pc = "deleted"
        BY <1>2 DEF PurgeImages
  <2>2. PICK c \in task[t].hashes :
            /\ images' = images \ {c}
            /\ docs' = [d \in Ids |-> IF Overtaken(t, d, c)
                                      THEN [docs[d] EXCEPT !.spoiled = TRUE] ELSE docs[d]]
            /\ task' = [h \in Tasks |->
                           CASE h = t -> [task[t] EXCEPT !.hashes = @ \ {c}]
                             [] h # t /\ task[h].pc = "drafted" /\ task[h].draft.content = c
                                  -> [task[h] EXCEPT !.draft.spoiled = TRUE]
                             [] OTHER -> task[h]]
            /\ UNCHANGED <<prefs, fileCache, accounts, requests, events>>
        BY <1>2 DEF PurgeImages
  <2>3. DocsTyped
    <3>1. ASSUME NEW d \in Ids, Overtaken(t, d, c)
          PROVE  [docs[d] EXCEPT !.spoiled = TRUE] \in DocRecords
          BY <3>1, LiveTyped, SpoiledTyped DEF Overtaken
    <3>2. QED
          BY <2>2, <3>1 DEF DocsTyped, Typed
  <2>4. t \in Handlers => HandlerTyped([task[t] EXCEPT !.hashes = @ \ {c}])
    <3>1. ASSUME t \in Handlers
          PROVE  [task[t] EXCEPT !.hashes = @ \ {c}] \in Deletions
                     /\ [task[t] EXCEPT !.hashes = @ \ {c}].pc = "deleted"
          BY <2>1, <3>1, DeletionKinds DEF Deletions
    <3>2. QED
          BY <3>1 DEF HandlerTyped
  <2>5. t = Cleanup => CleanupTyped([task[t] EXCEPT !.hashes = @ \ {c}])
    <3>1. ASSUME t = Cleanup
          PROVE  [task[t] EXCEPT !.hashes = @ \ {c}] \in Purges
          BY <2>1, <3>1, DeletionKinds DEF Purges
    <3>2. QED
          BY <3>1 DEF CleanupTyped
  <2>6. ASSUME NEW h \in Handlers, h # t, task[h].pc = "drafted"
        PROVE  HandlerTyped([task[h] EXCEPT !.draft.spoiled = TRUE])
    <3>1. PICK r \in Drafting : r = task[h] /\ r.pc = "drafted"
          BY <2>6, HandlerKinds
    <3>2. [r.draft EXCEPT !.spoiled = TRUE] \in DocRecords
          BY SpoiledTyped DEF Drafting
    <3>3. [r EXCEPT !.draft.spoiled = TRUE] \in Drafting
                /\ [r EXCEPT !.draft.spoiled = TRUE].pc = "drafted"
          BY <3>1, <3>2 DEF Drafting
    <3>4. QED
          BY <3>1, <3>3 DEF HandlerTyped
  <2>7. task[Cleanup].pc # "drafted" /\ Cleanup \in Tasks
        BY CleanupKinds DEF Tasks
  <2>8. TasksTyped
    <3>1. \A h \in Handlers : HandlerTyped(task'[h])
      <4>1. TAKE h \in Handlers
      <4>2. h \in Tasks /\ HandlerTyped(task[h])
            BY DEF Tasks, Typed
      <4>3. CASE h = t
            BY <2>2, <2>4, <4>2, <4>3
      <4>4. CASE h # t /\ task[h].pc = "drafted" /\ task[h].draft.content = c
            BY <2>2, <2>6, <4>2, <4>4
      <4>5. CASE h # t /\ ~(task[h].pc = "drafted" /\ task[h].draft.content = c)
            BY <2>2, <4>2, <4>5
      <4>6. QED
            BY <4>3, <4>4, <4>5
    <3>2. CleanupTyped(task'[Cleanup])
          BY <2>2, <2>5, <2>7 DEF Typed
    <3>3. QED
          BY <2>2, <3>1, <3>2 DEF TasksTyped
  <2>9. RestTyped
        BY <2>2 DEF RestTyped, Typed
  <2>10. QED
        BY <2>3, <2>8, <2>9, TypedParts
<1>3. ASSUME CommitDelete(t)
      PROVE  Typed'
  <2>1. DocsTyped
        BY <1>3 DEF CommitDelete, Removed, DocsTyped, Typed
  <2>2. RestTyped
        BY <1>3 DEF CommitDelete, RestTyped, Typed
  <2>3. CleanupTyped([pc |-> "sweep"])
        BY DEF CleanupTyped, Sweeping
  <2>4. t \in Handlers => t # Cleanup
        BY LibraryAssumption DEF Cleanup
  <2>5. TasksTyped
        BY <1>3, <2>3, <2>4, IdleTyped, GotoTyped DEF CommitDelete, TasksTyped
  <2>6. QED
        BY <2>1, <2>2, <2>5, TypedParts
<1>4. QED
      BY <1>1, <1>2, <1>3 DEF DeleteStep

\* The pass moves
LEMMA CleanupGoto ==
    ASSUME Typed, NEW next, Goto(Cleanup, next), CleanupTyped(next)
    PROVE  TasksTyped
<1>1. Cleanup \in Tasks /\ Cleanup \notin Handlers
      BY LibraryAssumption DEF Tasks, Cleanup
<1>2. QED
      BY <1>1, GotoTyped DEF TasksTyped

LEMMA TypedCleanup ==
    ASSUME Typed, CleanupStep
    PROVE  Typed'
<1>1. CASE ListInactive
  <2>1. InactiveGuests \in SUBSET Guests /\ {d \in Live : LastActive(d) = "recent"} \in SUBSET Nat
        BY LiveTyped DEF InactiveGuests
  <2>2. CleanupTyped([pc |-> "listed", users |-> InactiveGuests,
                      recent |-> {d \in Live : LastActive(d) = "recent"}])
        BY <2>1 DEF CleanupTyped, Listed
  <2>3. QED
        BY <1>1, <2>2, CleanupGoto, TypedParts DEF ListInactive
<1>2. CASE LoadGuestDocs
  <2>1. PICK r \in Listed : r = task[Cleanup]
        BY <1>2, CleanupKinds DEF LoadGuestDocs
  <2>2. PICK rows : rows = OwnedBy(r.users)
        OBVIOUS
  <2>3. \A d \in rows : d \in Nat /\ docs[d].content \in Contents \cup {NoValue}
        BY <2>2, LiveTyped DEF OwnedBy, DocRecords, Bytes
  <2>4. rows \in SUBSET Nat /\ HashesOf(rows) \in SUBSET Contents
        BY <2>3 DEF HashesOf
  <2>5. CleanupTyped([pc |-> "deleting", user |-> NoValue, users |-> r.users, recent |-> r.recent,
                      rows |-> rows, hashes |-> HashesOf(rows), asof |-> 0])
        BY <2>4 DEF CleanupTyped, Purges, Listed
  <2>6. TasksTyped
        BY <1>2, <2>1, <2>2, <2>5, CleanupGoto DEF LoadGuestDocs
  <2>7. QED
        BY <1>2, <2>6, TypedParts DEF LoadGuestDocs
<1>3. CASE DeleteStep(Cleanup)
      BY <1>3, TypedDelete DEF Tasks
<1>4. CASE ListOrphans
  <2>1. CleanupTyped([pc |-> "orphans", users |-> Orphans])
    <3>1. Orphans \in SUBSET Guests
          BY DEF Orphans
    <3>2. QED
          BY <3>1 DEF CleanupTyped, Sweeping
  <2>2. QED
        BY <1>4, <2>1, CleanupGoto, TypedParts DEF ListOrphans
<1>5. CASE PurgeOrphans
  <2>1. TasksTyped
        BY <1>5, IdleTyped, CleanupGoto DEF PurgeOrphans
  <2>2. RestTyped
        BY <1>5 DEF PurgeOrphans, RestTyped, Typed
  <2>3. QED
        BY <1>5, <2>1, <2>2, TypedParts DEF PurgeOrphans
<1>6. QED
      BY <1>1, <1>2, <1>3, <1>4, <1>5 DEF CleanupStep

\* What the failure of a deletion leaves of the documents
LEMMA RolledBackTyped ==
    ASSUME Typed, DeletionsApart, NEW t \in Tasks, NEW d \in Ids
    PROVE  /\ RolledBack(t)[d] = Gone \/ RolledBack(t)[d] \in DocRecords
           /\ d \notin Live => RolledBack(t)[d] = Gone
<1>1. CASE d \in Live
  <2>1. docs[d] \in DocRecords /\ [docs[d] EXCEPT !.spoiled = TRUE] \in DocRecords
        BY <1>1, LiveTyped, SpoiledTyped
  <2>2. QED
        BY <1>1, <2>1 DEF RolledBack
<1>2. CASE d \notin Live
  <2>1. docs[d] = Gone /\ d \notin Deleting(t)
        BY <1>2 DEF Live, DeletionsApart
  <2>2. QED
        BY <2>1 DEF RolledBack
<1>3. QED
      BY <1>1, <1>2

LEMMA TypedRest ==
    ASSUME Typed, DeletionsApart,
           \/ \E u \in Users, d \in Ids : Play(u, d)
           \/ \E g \in Guests, u \in Accounts : Claim(g, u)
           \/ \E d \in Ids : Age(d)
           \/ \E t \in Tasks : TaskFails(t)
           \/ \E key \in DOMAIN fileCache : EvictFile(key)
           \/ Crash
    PROVE  Typed'
<1>1. ASSUME NEW u \in Users, NEW d \in Ids, Play(u, d)
      PROVE  Typed'
  <2>1. d \in Live
        BY <1>1 DEF Play, OwnedBy
  <2>2. [docs[d] EXCEPT !.played = "recent"] \in DocRecords
        BY <2>1, LiveTyped DEF DocRecords
  <2>3. DocsTyped
        BY <1>1, <2>2 DEF Play, DocsTyped, Typed, Ids
  <2>4. QED
        BY <1>1, <2>3 DEF Play, Typed, DocsTyped, Ids
<1>2. ASSUME NEW g \in Guests, NEW u \in Accounts, Claim(g, u)
      PROVE  Typed'
  <2>1. ASSUME NEW d \in OwnedBy({g})
        PROVE  [docs[d] EXCEPT !.owner = u] \in DocRecords
        BY <2>1, LiveTyped DEF OwnedBy, DocRecords, Users
  <2>2. DocsTyped
        BY <1>2, <2>1 DEF Claim, DocsTyped, Typed
  <2>3. QED
        BY <1>2, <2>2 DEF Claim, Typed, DocsTyped, Ids
<1>3. ASSUME NEW d \in Ids, Age(d)
      PROVE  Typed'
  <2>1. d \in Live
        BY <1>3 DEF Age
  <2>2. PICK doc \in DocRecords : doc = docs[d]
        BY <2>1, LiveTyped
  <2>3. PICK next : next = [doc EXCEPT !.created = "old", !.played = IF @ = "recent" THEN "old" ELSE @]
        OBVIOUS
  <2>4. next \in DocRecords
        BY <2>3 DEF DocRecords
  <2>5. docs' = [docs EXCEPT ![d] = next]
        BY <1>3, <2>2, <2>3 DEF Age
  <2>6. DocsTyped
        BY <2>4, <2>5 DEF DocsTyped, Typed, Ids
  <2>7. QED
        BY <1>3, <2>6 DEF Age, Typed, DocsTyped, Ids
<1>4. ASSUME NEW t \in Tasks, TaskFails(t)
      PROVE  Typed'
  <2>1. DocsTyped
        BY <1>4, RolledBackTyped DEF TaskFails, DocsTyped, RolledBack
  <2>2. TasksTyped
        BY <1>4, IdleTyped, GotoTyped DEF TaskFails, TasksTyped
  <2>3. QED
        BY <1>4, <2>1, <2>2, TypedParts DEF TaskFails
<1>5. ASSUME NEW key \in DOMAIN fileCache, EvictFile(key)
      PROVE  Typed'
      BY <1>5 DEF EvictFile, Typed, Ids
<1>6. ASSUME Crash
      PROVE  Typed'
  <2>1. ASSUME NEW d \in Ids
        PROVE  docs'[d] = Gone \/ docs'[d] \in DocRecords
    <3>1. CASE Locked(d)
      <4>1. PICK t \in Tasks : t = CHOOSE s \in Tasks : d \in Deleting(s)
            BY <3>1 DEF Locked
      <4>2. docs'[d] = RolledBack(t)[d]
            BY <1>6, <3>1, <4>1 DEF Crash
      <4>3. QED
            BY <4>2, RolledBackTyped
    <3>2. CASE ~Locked(d)
          BY <1>6, <3>2 DEF Crash, Typed
    <3>3. QED
          BY <3>1, <3>2
  <2>2. DocsTyped
        BY <1>6, <2>1 DEF Crash, DocsTyped
  <2>3. TasksTyped
        BY <1>6, IdleTyped DEF Crash, TasksTyped, Tasks
  <2>4. QED
        BY <1>6, <2>2, <2>3, TypedParts DEF Crash
<1>7. QED
      BY <1>1, <1>2, <1>3, <1>4, <1>5, <1>6

LEMMA TypedStep == Typed /\ DeletionsApart /\ [Next]_vars => Typed'
<1>1. Typed /\ UNCHANGED vars => Typed'
      BY DEF Typed, vars, Ids
<1>2. Handlers \subseteq Tasks
      BY DEF Tasks
<1>3. QED
      BY <1>1, <1>2, TypedCreate, TypedChange, TypedDelete, TypedCleanup, TypedRest DEF Next

-----------------------------------------------------------------------------
(* What a step does to one task                                            *)

QuietSteps == {"idle", "sharing", "patching", "closing", "sweep", "orphans"}

\* The draft of another task loses the images of its content
LosesImages(t) == task[t].pc = "drafted" /\ task'[t] = [task[t] EXCEPT !.draft.spoiled = TRUE]

Advances(t) ==
    \/ t \in Handlers /\ CreateStep(t)
    \/ t \in Handlers /\ \E u \in Users, rows \in SUBSET Ids : LoadForDelete(t, u, rows)
    \/ DeleteRows(t) \/ PurgeImages(t)
    \/ t = Cleanup /\ (ListInactive \/ LoadGuestDocs)

Untouched(t) == task'[t] = task[t]
Quiets(t) == task'[t].pc \in QuietSteps

LEMMA GotoMoves ==
    ASSUME Typed, NEW t \in Tasks, NEW next, Goto(t, next)
    PROVE  /\ \A s \in Tasks : s # t => Untouched(s)
           /\ task'[t] = next
           /\ next.pc \in QuietSteps => Quiets(t)
BY DEF Goto, Typed, Untouched, Quiets

LEMMA CreateMoves ==
    ASSUME Typed, NEW h \in Handlers, CreateStep(h), NEW s \in Tasks, s # h
    PROVE  Untouched(s)
<1>1. h \in Tasks
      BY DEF Tasks
<1>2. \E next : Goto(h, next)
      BY DEF CreateStep, PrepareUrl, PrepareUpload, DraftText, DraftCopy, DraftFile, RefuseFile,
          Extract, Insert, Request, Goto
<1>3. QED
      BY <1>1, <1>2, GotoMoves

LEMMA ChangeMoves ==
    ASSUME Typed, NEW h \in Handlers, ChangeStep(h)
    PROVE  /\ \A s \in Tasks : s # h => Untouched(s)
           /\ Quiets(h) \/ \E u \in Users, rows \in SUBSET Ids : LoadForDelete(h, u, rows)
<1>1. h \in Tasks
      BY DEF Tasks
<1>2. \E next : Goto(h, next)
      BY DEF ChangeStep, LoadForUpdate, LoadPrefs, LoadForDelete, CloseAccount, SaveUpdate,
          SavePrefs, CloseLogin, Request, Goto
<1>3. ASSUME NEW u \in Users, NEW d \in Ids, NEW public \in BOOLEAN, LoadForUpdate(h, u, d, public)
      PROVE  Quiets(h)
  <2>1. PICK next : next = [pc |-> "sharing", user |-> u, doc |-> d, old |-> docs[d].public, new |-> public]
        OBVIOUS
  <2>2. Goto(h, next) /\ next.pc = "sharing"
        BY <1>3, <2>1 DEF LoadForUpdate, Request, Goto
  <2>3. QED
        BY <1>1, <2>2, GotoMoves DEF QuietSteps
<1>4. ASSUME NEW u \in Users, NEW f \in Fields, NEW value \in BOOLEAN, LoadPrefs(h, u, f, value)
      PROVE  Quiets(h)
  <2>1. PICK next : next = [pc |-> "patching", user |-> u, field |-> f, old |-> prefs[u], new |-> value]
        OBVIOUS
  <2>2. Goto(h, next) /\ next.pc = "patching"
        BY <1>4, <2>1 DEF LoadPrefs, Request, Goto
  <2>3. QED
        BY <1>1, <2>2, GotoMoves DEF QuietSteps
<1>5. ASSUME NEW u \in Users, CloseAccount(h, u)
      PROVE  Quiets(h)
  <2>1. PICK next : next = [pc |-> "closing", user |-> u]
        OBVIOUS
  <2>2. Goto(h, next) /\ next.pc = "closing"
        BY <1>5, <2>1 DEF CloseAccount, Request, Goto
  <2>3. QED
        BY <1>1, <2>2, GotoMoves DEF QuietSteps
<1>6. SaveUpdate(h) \/ SavePrefs(h) \/ CloseLogin(h) => Quiets(h)
      BY <1>1, GotoMoves DEF SaveUpdate, SavePrefs, CloseLogin, Idle, QuietSteps
<1>7. \A s \in Tasks : s # h => Untouched(s)
      BY <1>1, <1>2, GotoMoves
<1>8. QED
      BY <1>3, <1>4, <1>5, <1>6, <1>7 DEF ChangeStep

LEMMA DeleteMoves ==
    ASSUME Typed, NEW t \in Tasks, DeleteStep(t), NEW s \in Tasks
    PROVE  Untouched(s) \/ Quiets(s) \/ LosesImages(s) \/ (s = t /\ (DeleteRows(t) \/ PurgeImages(t)))
<1>1. CASE s = t
  <2>1. CASE CommitDelete(t)
    <3>1. PICK next : Goto(t, next) /\ next.pc \in {"idle", "sweep"}
          BY <2>1 DEF CommitDelete, Idle
    <3>2. QED
          BY <1>1, <3>1, GotoMoves DEF QuietSteps
  <2>2. QED
        BY <1>1, <2>1 DEF DeleteStep
<1>2. CASE s # t /\ (DeleteRows(t) \/ CommitDelete(t))
  <2>1. \E next : Goto(t, next)
        BY <1>2 DEF DeleteRows, CommitDelete
  <2>2. QED
        BY <1>2, <2>1, GotoMoves
<1>3. CASE s # t /\ PurgeImages(t)
      BY <1>3 DEF PurgeImages, Untouched, LosesImages
<1>4. QED
      BY <1>1, <1>2, <1>3 DEF DeleteStep

LEMMA CleanupMoves ==
    ASSUME Typed, CleanupStep, ~DeleteStep(Cleanup), NEW s \in Tasks
    PROVE  Untouched(s) \/ Quiets(s) \/ (s = Cleanup /\ (ListInactive \/ LoadGuestDocs))
<1>1. Cleanup \in Tasks
      BY DEF Tasks
<1>2. ASSUME ListOrphans \/ PurgeOrphans
      PROVE  Untouched(s) \/ Quiets(s)
  <2>1. PICK next : Goto(Cleanup, next) /\ next.pc \in {"idle", "orphans"}
        BY <1>2 DEF ListOrphans, PurgeOrphans, Idle
  <2>2. QED
        BY <1>1, <2>1, GotoMoves DEF QuietSteps
<1>3. ASSUME ListInactive \/ LoadGuestDocs, s # Cleanup
      PROVE  Untouched(s)
  <2>1. \E next : Goto(Cleanup, next)
        BY <1>3 DEF ListInactive, LoadGuestDocs
  <2>2. QED
        BY <1>1, <1>3, <2>1, GotoMoves
<1>4. QED
      BY <1>2, <1>3 DEF CleanupStep

LEMMA TaskMoves ==
    ASSUME Typed, [Next]_vars, NEW t \in Tasks
    PROVE  Untouched(t) \/ Quiets(t) \/ LosesImages(t) \/ Advances(t)
<1>1. ASSUME NEW h \in Handlers, CreateStep(h) \/ ChangeStep(h)
      PROVE  Untouched(t) \/ Quiets(t) \/ Advances(t)
      BY <1>1, CreateMoves, ChangeMoves DEF Advances
<1>2. ASSUME NEW s \in Tasks, DeleteStep(s)
      PROVE  Untouched(t) \/ Quiets(t) \/ LosesImages(t) \/ Advances(t)
      BY <1>2, DeleteMoves DEF Advances
<1>3. ASSUME CleanupStep, ~DeleteStep(Cleanup)
      PROVE  Untouched(t) \/ Quiets(t) \/ Advances(t)
      BY <1>3, CleanupMoves DEF Advances
<1>4. ASSUME NEW s \in Tasks, TaskFails(s)
      PROVE  Untouched(t) \/ Quiets(t)
      BY <1>4, GotoMoves DEF TaskFails, Idle, QuietSteps
<1>5. ASSUME Crash
      PROVE  Quiets(t)
      BY <1>5 DEF Crash, Idle, Quiets, QuietSteps
<1>6. ASSUME \/ \E u \in Users, d \in Ids : Play(u, d)
             \/ \E g \in Guests, u \in Accounts : Claim(g, u)
             \/ \E d \in Ids : Age(d)
             \/ \E key \in DOMAIN fileCache : EvictFile(key)
             \/ UNCHANGED vars
      PROVE  Untouched(t)
      BY <1>6 DEF Play, Claim, Age, EvictFile, vars, Untouched
<1>7. Handlers \subseteq Tasks /\ Cleanup \in Tasks
      BY DEF Tasks
<1>8. QED
      BY <1>1, <1>2, <1>3, <1>4, <1>5, <1>6, <1>7 DEF Next

-----------------------------------------------------------------------------
(* What a step does to a document                                          *)

\* e is what becomes of d: the same content from the same source by the same maker, with
\* another owner only if a guest signed up, public only by consent
Follows(d, e) ==
    /\ e.content = d.content /\ e.source = d.source /\ e.wanted = d.wanted /\ e.maker = d.maker
    /\ (d.public => d.consent) => (e.public => e.consent)
    /\ e.owner = d.owner \/ (d.owner \in Guests /\ e.owner \in Accounts)
    /\ d.spoiled => e.spoiled

\* A row that is gone was not locked, or goes with the commit of who deleted it
Dropped(d) ==
    docs'[d] = Gone /\ (~Locked(d) \/ \E t \in Tasks : CommitDelete(t) /\ d \in Deleting(t))

Remains(d) == Dropped(d) \/ (d \in Live /\ docs'[d] # Gone /\ Follows(docs[d], docs'[d]))

LEMMA StaysAlike ==
    ASSUME DeletionsApart, NEW d \in Ids, docs'[d] = docs[d]
    PROVE  Remains(d)
BY DEF Remains, Dropped, Follows, Live, Locked, DeletionsApart

LEMMA SpoiledFollows ==
    ASSUME Typed, NEW d \in Ids, d \in Live, docs'[d] = [docs[d] EXCEPT !.spoiled = TRUE]
    PROVE  Remains(d)
<1>1. docs[d] \in DocRecords
      BY LiveTyped
<1>2. docs'[d] \in DocRecords
      BY <1>1, SpoiledTyped
<1>3. Follows(docs[d], docs'[d])
      BY <1>1 DEF Follows, DocRecords
<1>4. QED
      BY <1>2, <1>3, GoneIsNone DEF Remains

LEMMA RolledBackRemains ==
    ASSUME Typed, DeletionsApart, NEW t \in Tasks, NEW d \in Ids, docs'[d] = RolledBack(t)[d]
    PROVE  Remains(d)
<1>1. CASE d \in Deleting(t) /\ docs[d].content \notin images \cup {NoValue}
  <2>1. d \in Live
        BY <1>1 DEF DeletionsApart
  <2>2. docs'[d] = [docs[d] EXCEPT !.spoiled = TRUE]
        BY <1>1 DEF RolledBack
  <2>3. QED
        BY <2>1, <2>2, SpoiledFollows
<1>2. CASE ~(d \in Deleting(t) /\ docs[d].content \notin images \cup {NoValue})
      BY <1>2, StaysAlike DEF RolledBack
<1>3. QED
      BY <1>1, <1>2

LEMMA DocMoves ==
    ASSUME Typed, DeletionsApart, [Next]_vars
    PROVE  /\ \A d \in Ids : d \in Ids' /\ Remains(d)
           /\ Ids' = Ids \/ \E h \in Handlers : Insert(h)
<1> DEFINE Goal == (\A d \in Ids : d \in Ids' /\ Remains(d))
                        /\ (Ids' = Ids \/ \E h \in Handlers : Insert(h))
<1>1. UNCHANGED docs => Goal
      BY StaysAlike DEF Ids
<1>2. ASSUME NEW h \in Handlers, Insert(h)
      PROVE  Goal
  <2>1. Ids = 1 .. Cardinality(Ids) /\ Cardinality(Ids) \in Nat
        BY CardinalityOfIds
  <2>2. Ids' = 1 .. Cardinality(Ids) + 1 /\ \A d \in Ids : docs'[d] = docs[d]
        BY <1>2, <2>1 DEF Insert, Ids
  <2>3. \A d \in Ids : d \in Ids'
        BY <2>1, <2>2
  <2>4. QED
        BY <1>2, <2>2, <2>3, StaysAlike
<1>3. ASSUME NEW h \in Handlers, SaveUpdate(h)
      PROVE  Goal
  <2>1. PICK r \in Sharing : r = task[h]
        BY <1>3, HandlerKinds DEF SaveUpdate
  <2>2. CASE r.doc \in Live /\ docs' = [docs EXCEPT ![r.doc].public = r.new, ![r.doc].consent = r.new]
    <3>1. docs[r.doc] \in DocRecords /\ r.new \in BOOLEAN /\ r.doc \in Ids
          BY <2>2, LiveTyped DEF Sharing
    <3>2. /\ DOMAIN docs' = Ids /\ \A d \in Ids \ {r.doc} : docs'[d] = docs[d]
          /\ docs'[r.doc] = [docs[r.doc] EXCEPT !.public = r.new, !.consent = r.new]
          BY <2>2, <3>1 DEF Ids
    <3>3. docs'[r.doc] \in DocRecords /\ Follows(docs[r.doc], docs'[r.doc])
          BY <2>2, <3>1, <3>2 DEF Follows, DocRecords
    <3>5. Remains(r.doc)
          BY <2>2, <3>3, GoneIsNone DEF Remains
    <3>4. QED
          BY <3>2, <3>5, StaysAlike DEF Ids
  <2>3. QED
        BY <1>1, <1>3, <2>1, <2>2 DEF SaveUpdate
<1>4. ASSUME NEW S, docs' = Removed(S),
             \A d \in S : ~Locked(d) \/ \E t \in Tasks : CommitDelete(t) /\ d \in Deleting(t)
      PROVE  Goal
  <2>1. Ids' = Ids
        BY <1>4 DEF Removed, Ids
  <2>2. ASSUME NEW d \in Ids
        PROVE  Remains(d)
    <3>1. CASE d \in S
          BY <1>4, <3>1 DEF Removed, Remains, Dropped
    <3>2. CASE d \notin S
          BY <1>4, <3>2, StaysAlike DEF Removed
    <3>3. QED
          BY <3>1, <3>2
  <2>3. QED
        BY <2>1, <2>2
<1>5. ASSUME NEW t \in Tasks, PurgeImages(t)
      PROVE  Goal
  <2>1. PICK c : docs' = [d \in Ids |-> IF Overtaken(t, d, c)
                                        THEN [docs[d] EXCEPT !.spoiled = TRUE] ELSE docs[d]]
        BY <1>5 DEF PurgeImages
  <2>2. ASSUME NEW d \in Ids
        PROVE  d \in Ids' /\ Remains(d)
    <3>1. CASE Overtaken(t, d, c)
          BY <2>1, <3>1, SpoiledFollows DEF Overtaken, Ids
    <3>2. CASE ~Overtaken(t, d, c)
          BY <2>1, <3>2, StaysAlike DEF Ids
    <3>3. QED
          BY <3>1, <3>2
  <2>3. QED
        BY <2>1, <2>2 DEF Ids
<1>6. ASSUME NEW u \in Users, NEW d \in Ids, Play(u, d)
      PROVE  Goal
  <2>1. d \in Live /\ docs[d] \in DocRecords
        BY <1>6, LiveTyped DEF Play, OwnedBy
  <2>2. /\ DOMAIN docs' = Ids /\ \A e \in Ids \ {d} : docs'[e] = docs[e]
        /\ docs'[d] = [docs[d] EXCEPT !.played = "recent"]
        BY <1>6 DEF Play, Ids
  <2>3. docs'[d] \in DocRecords /\ Follows(docs[d], docs'[d])
        BY <2>1, <2>2 DEF Follows, DocRecords
  <2>5. Remains(d)
        BY <2>1, <2>3, GoneIsNone DEF Remains
  <2>4. QED
        BY <2>2, <2>5, StaysAlike DEF Ids
<1>7. ASSUME NEW g \in Guests, NEW u \in Accounts, Claim(g, u)
      PROVE  Goal
  <2>1. ASSUME NEW d \in Ids
        PROVE  d \in Ids' /\ Remains(d)
    <3>1. CASE d \in OwnedBy({g})
      <4>1. d \in Live /\ docs[d] \in DocRecords /\ docs[d].owner = g
            BY <3>1, LiveTyped DEF OwnedBy
      <4>2. docs'[d] = [docs[d] EXCEPT !.owner = u] /\ d \in Ids'
            BY <1>7, <3>1 DEF Claim, Ids
      <4>3. docs'[d] \in DocRecords /\ Follows(docs[d], docs'[d])
            BY <4>1, <4>2 DEF Follows, DocRecords, Users
      <4>4. QED
            BY <4>1, <4>2, <4>3, GoneIsNone DEF Remains
    <3>2. CASE d \notin OwnedBy({g})
          BY <1>7, <3>2, StaysAlike DEF Claim, Ids
    <3>3. QED
          BY <3>1, <3>2
  <2>2. QED
        BY <1>7, <2>1 DEF Claim, Ids
<1>8. ASSUME NEW d \in Ids, Age(d)
      PROVE  Goal
  <2>1. d \in Live /\ docs[d] \in DocRecords
        BY <1>8, LiveTyped DEF Age
  <2>2. PICK played : played = IF docs[d].played = "recent" THEN "old" ELSE docs[d].played
        OBVIOUS
  <2>3. /\ DOMAIN docs' = Ids /\ \A e \in Ids \ {d} : docs'[e] = docs[e]
        /\ docs'[d] = [docs[d] EXCEPT !.created = "old", !.played = played]
        BY <1>8, <2>1, <2>2 DEF Age, Ids, DocRecords
  <2>4. played \in {"never", "recent", "old"}
        BY <2>1, <2>2 DEF DocRecords
  <2>5. docs'[d] \in DocRecords /\ Follows(docs[d], docs'[d])
        BY <2>1, <2>3, <2>4 DEF Follows, DocRecords
  <2>6. Remains(d)
        BY <2>1, <2>5, GoneIsNone DEF Remains
  <2>7. QED
        BY <2>3, <2>6, StaysAlike DEF Ids
<1>9. ASSUME NEW t \in Tasks, TaskFails(t)
      PROVE  Goal
  <2>1. docs' = RolledBack(t)
        BY <1>9 DEF TaskFails
  <2>2. Ids' = Ids
        BY <2>1 DEF RolledBack, Ids
  <2>3. QED
        BY <2>1, <2>2, RolledBackRemains
<1>10. ASSUME Crash
       PROVE  Goal
  <2>1. Ids' = Ids
        BY <1>10 DEF Crash, Ids
  <2>2. ASSUME NEW d \in Ids
        PROVE  Remains(d)
    <3>1. CASE Locked(d)
      <4>1. PICK t \in Tasks : t = CHOOSE s \in Tasks : d \in Deleting(s)
            BY <3>1 DEF Locked
      <4>2. docs'[d] = RolledBack(t)[d]
            BY <1>10, <3>1, <4>1 DEF Crash
      <4>3. QED
            BY <4>2, RolledBackRemains
    <3>2. CASE ~Locked(d)
          BY <1>10, <3>2, StaysAlike DEF Crash
    <3>3. QED
          BY <3>1, <3>2
  <2>3. QED
        BY <2>1, <2>2
<1>11. ASSUME NEW h \in Handlers, CreateStep(h)
       PROVE  Goal
  <2>1. Insert(h) \/ UNCHANGED docs
        BY <1>11 DEF CreateStep, PrepareUrl, PrepareUpload, DraftText, DraftCopy, DraftFile,
            RefuseFile, Extract
  <2>2. QED
        BY <1>1, <1>2, <2>1
<1>12. ASSUME NEW h \in Handlers, ChangeStep(h)
       PROVE  Goal
  <2>1. \/ SaveUpdate(h) \/ UNCHANGED docs
        \/ \E u \in Users : CloseAccount(h, u)
        BY <1>12 DEF ChangeStep, LoadForUpdate, LoadPrefs, LoadForDelete, SavePrefs, CloseLogin
  <2>2. ASSUME NEW u \in Users, CloseAccount(h, u)
        PROVE  docs' = Removed(OwnedBy({u})) /\ \A d \in OwnedBy({u}) : ~Locked(d)
        BY <2>2 DEF CloseAccount
  <2>3. QED
        BY <1>1, <1>3, <1>4, <2>1, <2>2
<1>13. ASSUME NEW t \in Tasks, DeleteStep(t)
       PROVE  Goal
  <2>1. CASE DeleteRows(t)
        BY <1>1, <2>1 DEF DeleteRows
  <2>2. CASE CommitDelete(t)
    <3>1. docs' = Removed(task[t].rows) /\ \A d \in task[t].rows : d \in Deleting(t)
          BY <2>2 DEF CommitDelete, Deleting
    <3>2. QED
          BY <1>4, <2>2, <3>1
  <2>3. QED
        BY <1>5, <1>13, <2>1, <2>2 DEF DeleteStep
<1>14. CASE CleanupStep
  <2>1. DeleteStep(Cleanup) \/ UNCHANGED docs
        BY <1>14 DEF CleanupStep, ListInactive, LoadGuestDocs, ListOrphans, PurgeOrphans
  <2>2. QED
        BY <1>1, <1>13, <2>1 DEF Tasks
<1>15. (\E key \in DOMAIN fileCache : EvictFile(key)) \/ UNCHANGED vars => UNCHANGED docs
       BY DEF EvictFile, vars
<1>16. Handlers \subseteq Tasks
       BY DEF Tasks
<1>17. QED
       BY <1>1, <1>6, <1>7, <1>8, <1>9, <1>10, <1>11, <1>12, <1>13, <1>14, <1>15, <1>16 DEF Next

-----------------------------------------------------------------------------
(* What the steps of a deletion do                                          *)

\* What DeleteRows and PurgeImages make of a deletion
LEMMA DeleteRowsShape ==
    ASSUME Typed, NEW t \in Tasks, DeleteRows(t)
    PROVE  /\ task[t].pc = "deleting" /\ task'[t].pc = "deleted"
           /\ task'[t].rows = task[t].rows \cap Live
           /\ task'[t].hashes = task[t].hashes \ StillReferenced(task[t].rows)
           /\ task'[t].asof = Cardinality(Ids)
           /\ t = Cleanup => task'[t].recent = task[t].recent /\ task'[t].users = task[t].users
           /\ \A d \in task[t].rows : ~Locked(d)
           /\ UNCHANGED <<docs, images>>
           /\ \A s \in Tasks : s # t => Untouched(s)
<1>1. PICK rows, hashes, n : /\ rows = task[t].rows \cap Live
                             /\ hashes = task[t].hashes \ StillReferenced(task[t].rows)
                             /\ n = Cardinality(Ids)
      OBVIOUS
<1>2. PICK next : next = [task[t] EXCEPT !.pc = "deleted", !.rows = rows, !.hashes = hashes,
                                          !.asof = n]
      OBVIOUS
<1>3. Goto(t, next) /\ task[t].pc = "deleting"
      BY <1>1, <1>2 DEF DeleteRows
<1>4. task'[t] = next /\ \A s \in Tasks : s # t => Untouched(s)
      BY <1>3, GotoMoves
<1>5. t \in Handlers \/ t = Cleanup
      BY DEF Tasks
<1>6. next.pc = "deleted" /\ next.rows = rows /\ next.hashes = hashes /\ next.asof = n
      BY <1>2, <1>3, <1>5, DeletionKinds DEF Deletions, Purges
<1>7. t = Cleanup => next.recent = task[t].recent /\ next.users = task[t].users
      BY <1>2, <1>3, DeletionKinds DEF Purges
<1>8. UNCHANGED <<docs, images>> /\ \A d \in task[t].rows : ~Locked(d)
      BY DEF DeleteRows
<1>9. QED
      BY <1>1, <1>3, <1>4, <1>6, <1>7, <1>8

LEMMA PurgeImagesShape ==
    ASSUME Typed, NEW t \in Tasks, PurgeImages(t)
    PROVE  \E c \in task[t].hashes :
              /\ task[t].pc = "deleted" /\ task'[t].pc = "deleted"
              /\ task'[t].rows = task[t].rows /\ task'[t].asof = task[t].asof
              /\ task'[t].hashes = task[t].hashes \ {c}
              /\ t = Cleanup => task'[t].recent = task[t].recent /\ task'[t].users = task[t].users
              /\ images' = images \ {c}
              /\ \A d \in Ids : docs'[d] = IF Overtaken(t, d, c)
                                             THEN [docs[d] EXCEPT !.spoiled = TRUE] ELSE docs[d]
              /\ \A s \in Tasks : s # t /\ task[s].pc = "drafted" /\ task[s].draft.content = c
                                     => LosesImages(s)
<1>1. PICK c \in task[t].hashes :
          /\ images' = images \ {c}
          /\ docs' = [d \in Ids |-> IF Overtaken(t, d, c) THEN [docs[d] EXCEPT !.spoiled = TRUE] ELSE docs[d]]
          /\ task' = [h \in Tasks |->
                         CASE h = t -> [task[t] EXCEPT !.hashes = @ \ {c}]
                           [] h # t /\ task[h].pc = "drafted" /\ task[h].draft.content = c
                                -> [task[h] EXCEPT !.draft.spoiled = TRUE]
                           [] OTHER -> task[h]]
      BY DEF PurgeImages
<1>2. task[t].pc = "deleted" /\ task'[t] = [task[t] EXCEPT !.hashes = @ \ {c}]
      BY <1>1 DEF PurgeImages
<1>3. t \in Handlers \/ t = Cleanup
      BY DEF Tasks
<1>4. /\ task'[t].pc = "deleted" /\ task'[t].rows = task[t].rows /\ task'[t].asof = task[t].asof
      /\ task'[t].hashes = task[t].hashes \ {c}
      BY <1>2, <1>3, DeletionKinds DEF Deletions, Purges
<1>5. t = Cleanup => task'[t].recent = task[t].recent /\ task'[t].users = task[t].users
      BY <1>2, DeletionKinds DEF Purges
<1>6. \A s \in Tasks : s # t /\ task[s].pc = "drafted" /\ task[s].draft.content = c => LosesImages(s)
      BY <1>1 DEF LosesImages
<1>7. QED
      BY <1>1, <1>2, <1>4, <1>5, <1>6

\* The steps of a request or the pass that has read what it will delete
LEMMA LoadedRows ==
    ASSUME Typed, NEW h \in Handlers, NEW u \in Users, NEW rows \in SUBSET Ids, LoadForDelete(h, u, rows)
    PROVE  task'[h].pc = "deleting"
<1>1. PICK next : next = [pc |-> "deleting", user |-> u, rows |-> rows, hashes |-> HashesOf(rows),
                          asof |-> 0]
      OBVIOUS
<1>2. Goto(h, next) /\ next.pc = "deleting" /\ h \in Tasks
      BY <1>1 DEF LoadForDelete, Request, Goto, Tasks
<1>3. QED
      BY <1>2, GotoMoves

LEMMA ListedShape ==
    ASSUME Typed, ListInactive
    PROVE  /\ task'[Cleanup].pc = "listed" /\ task'[Cleanup].users = InactiveGuests
           /\ task'[Cleanup].recent = {d \in Live : LastActive(d) = "recent"}
           /\ UNCHANGED docs
<1>1. PICK users, recent : users = InactiveGuests /\ recent = {d \in Live : LastActive(d) = "recent"}
      OBVIOUS
<1>2. PICK next : next = [pc |-> "listed", users |-> users, recent |-> recent]
      OBVIOUS
<1>3. Goto(Cleanup, next) /\ next.pc = "listed" /\ next.users = users /\ next.recent = recent
      BY <1>1, <1>2 DEF ListInactive
<1>4. task'[Cleanup] = next
      BY <1>3, GotoMoves DEF Tasks
<1>5. QED
      BY <1>1, <1>3, <1>4 DEF ListInactive

LEMMA LoadGuestDocsShape ==
    ASSUME Typed, LoadGuestDocs
    PROVE  /\ task[Cleanup].pc = "listed" /\ task'[Cleanup].pc = "deleting"
           /\ task'[Cleanup].rows = OwnedBy(task[Cleanup].users)
           /\ task'[Cleanup].recent = task[Cleanup].recent
           /\ UNCHANGED docs
<1>1. PICK rows, users, recent, hashes :
          /\ users = task[Cleanup].users /\ recent = task[Cleanup].recent
          /\ rows = OwnedBy(users) /\ hashes = HashesOf(rows)
      OBVIOUS
<1>2. PICK next : next = [pc |-> "deleting", user |-> NoValue, users |-> users, recent |-> recent,
                          rows |-> rows, hashes |-> hashes, asof |-> 0]
      OBVIOUS
<1>3. Goto(Cleanup, next) /\ next.pc = "deleting" /\ next.rows = rows /\ next.recent = recent
      BY <1>1, <1>2 DEF LoadGuestDocs
<1>4. task'[Cleanup] = next
      BY <1>3, GotoMoves DEF Tasks
<1>5. QED
      BY <1>1, <1>3, <1>4 DEF LoadGuestDocs

-----------------------------------------------------------------------------
(* Prepared files and drafts                                               *)

\* Where a task that advances gets to
LEMMA AdvanceKinds ==
    ASSUME Typed, NEW t \in Tasks, Advances(t)
    PROVE  \/ t \in Handlers /\ CreateStep(t)
           \/ task'[t].pc \in {"deleting", "deleted", "listed"}
<1>1. DeleteRows(t) => task'[t].pc = "deleted"
      BY DeleteRowsShape
<1>2. PurgeImages(t) => task'[t].pc = "deleted"
      BY PurgeImagesShape
<1>3. t = Cleanup /\ (ListInactive \/ LoadGuestDocs) => task'[t].pc \in {"listed", "deleting"}
      BY ListedShape, LoadGuestDocsShape
<1>4. QED
      BY <1>1, <1>2, <1>3, LoadedRows DEF Advances

\* A handler that prepares, extracts or drafts did so before, or does so by a request
LEMMA MakingMoves ==
    ASSUME Typed, [Next]_vars, NEW h \in Handlers,
           task'[h].pc \in {"prepared", "extracting", "drafted"}
    PROVE  Untouched(h) \/ LosesImages(h) \/ CreateStep(h)
<1>1. h \in Tasks
      BY DEF Tasks
<1>2. ~Quiets(h)
      BY DEF Quiets, QuietSteps
<1>3. QED
      BY <1>1, <1>2, TaskMoves, AdvanceKinds

LEMMA DraftLosesImages ==
    ASSUME Typed, NEW h \in Handlers, LosesImages(h)
    PROVE  /\ task'[h].pc = "drafted" /\ task'[h].draft = [task[h].draft EXCEPT !.spoiled = TRUE]
           /\ task[h].draft \in DocRecords
<1>1. task[h] \in Drafting
      BY HandlerKinds DEF LosesImages
<1>2. QED
      BY <1>1 DEF LosesImages, Drafting

\* What a request may draft
DraftedFrom(h, draft) ==
    \E entry \in [content : Bytes, source : Sources], u \in Users, public \in BOOLEAN :
        /\ task[h].pc = "prepared" /\ task[h].key \in DOMAIN fileCache
        /\ entry = fileCache[task[h].key]
        /\ draft = [Draft(u, public, entry.content, entry.source) EXCEPT !.wanted = task[h].wanted]

Drafted(h, draft) ==
    \/ \E u \in Users, public \in BOOLEAN : draft = Draft(u, public, NoValue, NoValue)
    \/ \E u \in Users, d \in Live : draft = Copy(u, d)
    \/ DraftedFrom(h, draft)
    \/ task[h].pc = "extracting" /\ draft = task[h].draft

LEMMA CreateKinds ==
    ASSUME Typed, NEW h \in Handlers, CreateStep(h), task'[h].pc \in {"extracting", "drafted"}
    PROVE  /\ Drafted(h, task'[h].draft)
           /\ task'[h].pc = "drafted" => \/ task'[h].draft.content = NoValue
                                         \/ images' = images \cup {task'[h].draft.content}
           /\ task'[h].pc = "extracting" \/ ~Extract(h) => images' = images
<1>1. h \in Tasks
      BY DEF Tasks
<1>2. ASSUME NEW u \in Users, DraftText(h, u)
      PROVE  Drafted(h, task'[h].draft) /\ task'[h].draft.content = NoValue /\ images' = images
  <2>1. PICK public \in BOOLEAN : public = DefaultPublic(u)
        BY DefaultPublicTyped
  <2>2. PICK next : next = [pc |-> "drafted", draft |-> Draft(u, public, NoValue, NoValue)]
        OBVIOUS
  <2>3. Goto(h, next) /\ next.draft = Draft(u, public, NoValue, NoValue)
        BY <1>2, <2>1, <2>2 DEF DraftText, Request, Goto
  <2>4. task'[h].draft = Draft(u, public, NoValue, NoValue)
        BY <1>1, <2>3, GotoMoves
  <2>5. Drafted(h, task'[h].draft)
        BY <2>4 DEF Drafted
  <2>6. Draft(u, public, NoValue, NoValue).content = NoValue
        BY DEF Draft
  <2>7. QED
        BY <1>2, <2>4, <2>5, <2>6 DEF DraftText
<1>3. ASSUME NEW u \in Users, NEW d \in Ids, DraftCopy(h, u, d)
      PROVE  Drafted(h, task'[h].draft) /\ task'[h].draft.content = NoValue /\ images' = images
  <2>1. d \in Live /\ docs[d] \in DocRecords
        BY <1>3, LiveTyped DEF DraftCopy
  <2>2. PICK next : next = [pc |-> "drafted", draft |-> Copy(u, d)]
        OBVIOUS
  <2>3. Goto(h, next) /\ next.draft = Copy(u, d)
        BY <1>3, <2>2 DEF DraftCopy, Request, Goto
  <2>4. task'[h].draft = Copy(u, d)
        BY <1>1, <2>3, GotoMoves
  <2>5. Copy(u, d).content = NoValue
        BY <2>1 DEF Copy, DocRecords
  <2>6. QED
        BY <1>3, <2>1, <2>4, <2>5 DEF Drafted, DraftCopy
<1>4. ASSUME DraftFile(h)
      PROVE  /\ Drafted(h, task'[h].draft) /\ images' = images
             /\ task'[h].pc = "drafted" => task'[h].draft.content = NoValue
  <2>1. PICK r \in Prepared : r = task[h] /\ r.pc = "prepared" /\ r.key \in DOMAIN fileCache
        BY <1>4, HandlerKinds DEF DraftFile
  <2>2. PICK entry \in [content : Bytes, source : Sources] : entry = fileCache[r.key]
        BY <2>1 DEF Typed
  <2>3. PICK public \in BOOLEAN : public = DefaultPublic(r.user)
        BY DefaultPublicTyped DEF Prepared
  <2>4. PICK draft : draft = Draft(r.user, public, entry.content, entry.source)
        OBVIOUS
  <2>5. PICK next : next = [pc |-> IF entry.content = NoValue THEN "drafted" ELSE "extracting",
                            draft |-> [draft EXCEPT !.wanted = r.wanted]]
        OBVIOUS
  <2>6. Goto(h, next)
        BY <1>4, <2>1, <2>2, <2>3, <2>4, <2>5 DEF DraftFile
  <2>7. task'[h] = next
        BY <1>1, <2>6, GotoMoves
  <2>8. next.draft.content = entry.content
        BY <2>4, <2>5 DEF Draft
  <2>9. next.draft = [Draft(r.user, public, entry.content, entry.source) EXCEPT !.wanted = r.wanted]
        BY <2>4, <2>5
  <2>10. r.user \in Users
        BY DEF Prepared
  <2>11. Drafted(h, task'[h].draft)
    <3>1. PICK made : made = Draft(r.user, public, entry.content, entry.source)
          OBVIOUS
    <3>2. /\ task[h].pc = "prepared" /\ task[h].key \in DOMAIN fileCache
          /\ entry = fileCache[task[h].key]
          /\ task'[h].draft = [made EXCEPT !.wanted = task[h].wanted]
          BY <2>1, <2>2, <2>7, <2>9, <3>1
    <3>3. /\ task[h].pc = "prepared" /\ task[h].key \in DOMAIN fileCache
          /\ entry = fileCache[task[h].key]
          /\ task'[h].draft = [Draft(r.user, public, entry.content, entry.source)
                                 EXCEPT !.wanted = task[h].wanted]
          BY <3>1, <3>2
    <3>4. DraftedFrom(h, task'[h].draft)
          BY <2>10, <3>3 DEF DraftedFrom
    <3>5. QED
          BY <3>4 DEF Drafted
  <2>12. next.pc = "drafted" => entry.content = NoValue
        BY <2>5
  <2>13. QED
        BY <1>4, <2>7, <2>8, <2>11, <2>12 DEF DraftFile
<1>5. ASSUME Extract(h)
      PROVE  /\ Drafted(h, task'[h].draft) /\ task'[h].pc = "drafted"
             /\ images' = images \cup {task'[h].draft.content}
  <2>1. PICK r \in Drafting : r = task[h] /\ r.pc = "extracting"
        BY <1>5, HandlerKinds DEF Extract
  <2>2. Goto(h, [r EXCEPT !.pc = "drafted"])
        BY <1>5, <2>1 DEF Extract
  <2>3. task'[h] = [r EXCEPT !.pc = "drafted"]
        BY <1>1, <2>2, GotoMoves
  <2>4. task'[h].draft = r.draft /\ task'[h].pc = "drafted"
        BY <2>3 DEF Drafting
  <2>5. QED
        BY <1>5, <2>1, <2>4 DEF Extract, Drafted
<1>6. ASSUME \/ \E u \in Users, url \in Urls : PrepareUrl(h, u, url)
             \/ \E u \in Users, c \in Contents, s \in Urls \cup {NoValue} : PrepareUpload(h, u, c, s)
      PROVE  task'[h].pc = "prepared"
  <2>1. PICK next : Goto(h, next) /\ next.pc = "prepared"
    <3>1. ASSUME NEW u \in Users, NEW url \in Urls, PrepareUrl(h, u, url)
          PROVE  \E next : Goto(h, next) /\ next.pc = "prepared"
      <4>1. PICK next : next = [pc |-> "prepared", user |-> u, key |-> UrlKey(url), wanted |-> url]
            OBVIOUS
      <4>2. Goto(h, next) /\ next.pc = "prepared"
            BY <3>1, <4>1 DEF PrepareUrl, Request, Goto
      <4>3. QED
            BY <4>2
    <3>2. ASSUME NEW u \in Users, NEW c \in Contents, NEW s \in Urls \cup {NoValue}, PrepareUpload(h, u, c, s)
          PROVE  \E next : Goto(h, next) /\ next.pc = "prepared"
      <4>1. PICK next : next = [pc |-> "prepared", user |-> u, key |-> UploadKey(c, s), wanted |-> s]
            OBVIOUS
      <4>2. Goto(h, next) /\ next.pc = "prepared"
            BY <3>2, <4>1 DEF PrepareUpload, Request, Goto
      <4>3. QED
            BY <4>2
    <3>3. QED
          BY <1>6, <3>1, <3>2
  <2>2. QED
        BY <1>1, <2>1, GotoMoves
<1>7. RefuseFile(h) \/ Insert(h) => task'[h].pc = "idle"
      BY <1>1, GotoMoves DEF RefuseFile, Insert, Idle
<1>8. QED
      BY <1>2, <1>3, <1>4, <1>5, <1>6, <1>7 DEF CreateStep

LEMMA KeysHaveSources ==
    /\ \A url : SourceOf(UrlKey(url)) = url
    /\ \A c, s : SourceOf(UploadKey(c, s)) = s
BY DEF SourceOf, UrlKey, UploadKey

LEMMA StoredKept ==
    ASSUME FilesKept, NEW key, NEW entry, entry.source = SourceOf(key),
           fileCache' = Stored(key, entry)
    PROVE  \A k \in DOMAIN fileCache' : fileCache'[k].source = SourceOf(k)
BY DEF FilesKept, Stored

\* Whatever prepares a file knows where it is from
LEMMA PrepareKeeps ==
    ASSUME Typed, FilesKept, NEW h \in Handlers, CreateStep(h)
    PROVE  /\ \A key \in DOMAIN fileCache' : fileCache'[key].source = SourceOf(key)
           /\ task'[h].pc = "prepared" => task'[h].wanted = SourceOf(task'[h].key)
<1>1. h \in Tasks
      BY DEF Tasks
<1>2. ASSUME NEW u \in Users, NEW url \in Urls, PrepareUrl(h, u, url)
      PROVE  /\ \A key \in DOMAIN fileCache' : fileCache'[key].source = SourceOf(key)
             /\ task'[h].wanted = SourceOf(task'[h].key)
  <2>1. PICK next : next = [pc |-> "prepared", user |-> u, key |-> UrlKey(url), wanted |-> url]
        OBVIOUS
  <2>2. Goto(h, next) /\ next.key = UrlKey(url) /\ next.wanted = url
        BY <1>2, <2>1 DEF PrepareUrl, Request, Goto
  <2>3. task'[h] = next
        BY <1>1, <2>2, GotoMoves
  <2>4. PICK entry : entry = [content |-> NoValue, source |-> url]
        OBVIOUS
  <2>5. fileCache' = Stored(UrlKey(url), entry) /\ entry.source = SourceOf(UrlKey(url))
        BY <1>2, <2>4, KeysHaveSources DEF PrepareUrl
  <2>6. QED
        BY <2>2, <2>3, <2>5, StoredKept, KeysHaveSources
<1>3. ASSUME NEW u \in Users, NEW c \in Contents, NEW s \in Sources, PrepareUpload(h, u, c, s)
      PROVE  /\ \A key \in DOMAIN fileCache' : fileCache'[key].source = SourceOf(key)
             /\ task'[h].wanted = SourceOf(task'[h].key)
  <2>1. PICK next : next = [pc |-> "prepared", user |-> u, key |-> UploadKey(c, s), wanted |-> s]
        OBVIOUS
  <2>2. Goto(h, next) /\ next.key = UploadKey(c, s) /\ next.wanted = s
        BY <1>3, <2>1 DEF PrepareUpload, Request, Goto
  <2>3. task'[h] = next
        BY <1>1, <2>2, GotoMoves
  <2>4. PICK entry : entry = [content |-> c, source |-> s]
        OBVIOUS
  <2>5. fileCache' = Stored(UploadKey(c, s), entry) /\ entry.source = SourceOf(UploadKey(c, s))
        BY <1>3, <2>4, KeysHaveSources DEF PrepareUpload
  <2>6. QED
        BY <2>2, <2>3, <2>5, StoredKept, KeysHaveSources
<1>4. ASSUME \/ DraftFile(h) \/ RefuseFile(h) \/ Extract(h) \/ Insert(h)
             \/ \E u \in Users : DraftText(h, u) \/ \E d \in Ids : DraftCopy(h, u, d)
      PROVE  UNCHANGED fileCache /\ task'[h].pc # "prepared"
  <2>1. UNCHANGED fileCache
        BY <1>4 DEF DraftFile, RefuseFile, Extract, Insert, DraftText, DraftCopy
  <2>2. RefuseFile(h) \/ Insert(h) => task'[h].pc # "prepared"
        BY <1>1, GotoMoves DEF RefuseFile, Insert, Idle
  <2>3. ASSUME NEW u \in Users, NEW draft, Request(h, u, [pc |-> "drafted", draft |-> draft])
        PROVE  task'[h].pc # "prepared"
    <3>1. PICK next : next = [pc |-> "drafted", draft |-> draft]
          OBVIOUS
    <3>2. Goto(h, next) /\ next.pc = "drafted"
          BY <2>3, <3>1 DEF Request, Goto
    <3>3. QED
          BY <1>1, <3>2, GotoMoves
  <2>4. ASSUME NEW pc \in {"drafted", "extracting"}, NEW draft, Goto(h, [pc |-> pc, draft |-> draft])
        PROVE  task'[h].pc # "prepared"
        BY <1>1, <2>4, GotoMoves
  <2>5. ASSUME NEW u \in Users, DraftText(h, u) \/ \E d \in Ids : DraftCopy(h, u, d)
        PROVE  task'[h].pc # "prepared"
    <3>1. PICK draft : Request(h, u, [pc |-> "drafted", draft |-> draft])
          BY <2>5 DEF DraftText, DraftCopy
    <3>2. QED
          BY <2>3, <3>1
  <2>6. ASSUME DraftFile(h)
        PROVE  task'[h].pc # "prepared"
    <3>1. \E pc \in {"drafted", "extracting"} : \E draft : Goto(h, [pc |-> pc, draft |-> draft])
          BY <2>6 DEF DraftFile
    <3>2. QED
          BY <2>4, <3>1
  <2>7. ASSUME Extract(h)
        PROVE  task'[h].pc # "prepared"
    <3>1. PICK r \in Drafting : r = task[h]
          BY <2>7, HandlerKinds DEF Extract
    <3>2. Goto(h, [r EXCEPT !.pc = "drafted"]) /\ [r EXCEPT !.pc = "drafted"].pc = "drafted"
          BY <2>7, <3>1 DEF Extract, Drafting
    <3>3. QED
          BY <1>1, <3>2, GotoMoves
  <2>8. QED
        BY <1>4, <2>1, <2>2, <2>5, <2>6, <2>7
<1>5. QED
      BY <1>2, <1>3, <1>4 DEF CreateStep, FilesKept, Sources

LEMMA FilesKeptStep == Typed /\ FilesKept /\ [Next]_vars => FilesKept'
<1> SUFFICES ASSUME Typed, FilesKept, [Next]_vars
             PROVE  FilesKept'
    OBVIOUS
<1>1. \A key \in DOMAIN fileCache' : fileCache'[key].source = SourceOf(key)
  <2>1. CASE UNCHANGED fileCache
        BY <2>1 DEF FilesKept
  <2>2. CASE \E h \in Handlers : CreateStep(h)
        BY <2>2, PrepareKeeps
  <2>3. CASE \E key \in DOMAIN fileCache : EvictFile(key)
        BY <2>3 DEF EvictFile, FilesKept
  <2>4. ASSUME NEW h \in Handlers, ChangeStep(h)
        PROVE  UNCHANGED fileCache
        BY <2>4 DEF ChangeStep, LoadForUpdate, LoadPrefs, LoadForDelete, CloseAccount,
            SaveUpdate, SavePrefs, CloseLogin
  <2>5. ASSUME NEW t, DeleteStep(t)
        PROVE  UNCHANGED fileCache
        BY <2>5 DEF DeleteStep, DeleteRows, PurgeImages, CommitDelete
  <2>6. CleanupStep => UNCHANGED fileCache
        BY <2>5 DEF CleanupStep, ListInactive, LoadGuestDocs, ListOrphans, PurgeOrphans
  <2>7. ASSUME \/ \E u \in Users, d \in Ids : Play(u, d)
               \/ \E g \in Guests, u \in Accounts : Claim(g, u)
               \/ \E d \in Ids : Age(d)
               \/ \E t \in Tasks : TaskFails(t)
               \/ Crash \/ UNCHANGED vars
        PROVE  UNCHANGED fileCache
        BY <2>7 DEF Play, Claim, Age, TaskFails, Crash, vars
  <2>8. QED
        BY <2>1, <2>2, <2>3, <2>4, <2>5, <2>6, <2>7 DEF Next
<1>2. ASSUME NEW h \in Handlers, task'[h].pc = "prepared"
      PROVE  task'[h].wanted = SourceOf(task'[h].key)
  <2>1. Untouched(h) \/ LosesImages(h) \/ CreateStep(h)
        BY <1>2, MakingMoves
  <2>2. CASE Untouched(h)
        BY <1>2, <2>2 DEF Untouched, FilesKept
  <2>3. CASE LosesImages(h)
        BY <1>2, <2>3, DraftLosesImages
  <2>4. CASE CreateStep(h)
        BY <1>2, <2>4, PrepareKeeps
  <2>5. QED
        BY <2>1, <2>2, <2>3, <2>4
<1>3. QED
      BY <1>1, <1>2 DEF FilesKept

-----------------------------------------------------------------------------
(* What is made is what was asked for                                      *)

LEMMA DraftedFaithful ==
    ASSUME Typed, DocsFaithful, FilesKept, NEW h \in Handlers, NEW draft, Drafted(h, draft)
    PROVE  Faithful(draft)
<1>1. ASSUME NEW u \in Users, NEW public \in BOOLEAN, draft = Draft(u, public, NoValue, NoValue)
      PROVE  Faithful(draft)
      BY <1>1 DEF Faithful, Draft
<1>2. ASSUME NEW u \in Users, NEW d \in Live, draft = Copy(u, d)
      PROVE  Faithful(draft)
  <2>1. docs[d] \in DocRecords /\ docs[d].source = docs[d].wanted
        BY LiveTyped DEF DocsFaithful, Faithful
  <2>2. QED
        BY <1>2, <2>1 DEF Faithful, Copy, DocRecords
<1>3. ASSUME DraftedFrom(h, draft)
      PROVE  Faithful(draft)
  <2>1. PICK entry \in [content : Bytes, source : Sources], u \in Users, public \in BOOLEAN :
            /\ task[h].pc = "prepared" /\ task[h].key \in DOMAIN fileCache
            /\ entry = fileCache[task[h].key]
            /\ draft = [Draft(u, public, entry.content, entry.source) EXCEPT !.wanted = task[h].wanted]
        BY <1>3 DEF DraftedFrom
  <2>2. entry.source = task[h].wanted
        BY <2>1 DEF FilesKept
  <2>3. QED
        BY <2>1, <2>2 DEF Faithful, Draft
<1>4. ASSUME task[h].pc = "extracting", draft = task[h].draft
      PROVE  Faithful(draft)
      BY <1>4 DEF DocsFaithful
<1>5. QED
      BY <1>1, <1>2, <1>3, <1>4 DEF Drafted

LEMMA FollowsFaithful ==
    ASSUME NEW d, NEW e, Faithful(d), Follows(d, e)
    PROVE  Faithful(e)
BY LibraryAssumption DEF Faithful, Follows

\* What a document can come from: an older version of itself, or the draft of a handler
LEMMA DocOrigins ==
    ASSUME Typed, DeletionsApart, [Next]_vars, NEW d \in Live'
    PROVE  \/ d \in Live /\ Follows(docs[d], docs'[d])
           \/ /\ d \notin Ids
              /\ d = Cardinality(Ids) + 1
              /\ \E h \in Handlers : Insert(h) /\ docs'[d] = task[h].draft
<1>1. d \in Ids' /\ docs'[d] # Gone
      BY DEF Live
<1>2. CASE d \in Ids
      BY <1>1, <1>2, DocMoves DEF Remains, Dropped
<1>3. CASE d \notin Ids
  <2>1. PICK h \in Handlers : Insert(h)
        BY <1>1, <1>3, DocMoves
  <2>2. Ids = 1 .. Cardinality(Ids) /\ Cardinality(Ids) \in Nat
        BY CardinalityOfIds
  <2>3. d \in 1 .. Cardinality(Ids) + 1 /\ docs'[d] = task[h].draft
        BY <1>1, <1>3, <2>1 DEF Insert, Ids
  <2>4. d = Cardinality(Ids) + 1
        BY <1>3, <2>2, <2>3
  <2>5. QED
        BY <1>3, <2>1, <2>3, <2>4
<1>4. QED
      BY <1>2, <1>3

LEMMA DocsFaithfulStep ==
    Typed /\ DeletionsApart /\ FilesKept /\ DocsFaithful /\ [Next]_vars => DocsFaithful'
<1> SUFFICES ASSUME Typed, DeletionsApart, FilesKept, DocsFaithful, [Next]_vars
             PROVE  DocsFaithful'
    OBVIOUS
<1>1. ASSUME NEW d \in Live'
      PROVE  Faithful(docs'[d])
  <2>1. CASE d \in Live /\ Follows(docs[d], docs'[d])
        BY <2>1, FollowsFaithful DEF DocsFaithful
  <2>2. CASE \E h \in Handlers : Insert(h) /\ docs'[d] = task[h].draft
        BY <2>2 DEF Insert, DocsFaithful
  <2>3. QED
        BY <2>1, <2>2, DocOrigins
<1>2. ASSUME NEW h \in Handlers, task'[h].pc \in {"extracting", "drafted"}
      PROVE  Faithful(task'[h].draft)
  <2>1. CASE Untouched(h)
        BY <1>2, <2>1 DEF Untouched, DocsFaithful
  <2>2. CASE LosesImages(h)
    <3>1. PICK d \in DocRecords : d = task[h].draft
          BY <2>2, DraftLosesImages
    <3>2. Faithful(d)
          BY <2>2, <3>1 DEF LosesImages, DocsFaithful
    <3>3. Faithful([d EXCEPT !.spoiled = TRUE])
          BY <3>2 DEF Faithful, DocRecords
    <3>4. task'[h].draft = [d EXCEPT !.spoiled = TRUE]
          BY <2>2, <3>1, DraftLosesImages
    <3>5. QED
          BY <3>3, <3>4
  <2>3. CASE CreateStep(h)
        BY <1>2, <2>3, CreateKinds, DraftedFaithful
  <2>4. QED
        BY <1>2, <2>1, <2>2, <2>3, MakingMoves
<1>3. QED
      BY <1>1, <1>2 DEF DocsFaithful, Faithful

-----------------------------------------------------------------------------
(* Open deletions                                                          *)

CreatePcs == {"idle", "prepared", "extracting", "drafted"}

LEMMA CreateStepPcs ==
    ASSUME Typed, NEW h \in Handlers, CreateStep(h)
    PROVE  task[h].pc \in CreatePcs /\ task'[h].pc \in CreatePcs
<1>1. h \in Tasks
      BY DEF Tasks
<1>2. task[h].pc \in CreatePcs
  <2>1. task[h] = Idle \/ task[h].pc \in {"prepared", "extracting", "drafted"}
        BY DEF CreateStep, PrepareUrl, PrepareUpload, DraftText, DraftCopy, DraftFile, RefuseFile,
            Extract, Insert, Request
  <2>2. QED
        BY <2>1 DEF Idle, CreatePcs
<1>3. ASSUME NEW u, NEW next, Request(h, u, next), next.pc \in CreatePcs
      PROVE  task'[h].pc \in CreatePcs
  <2>1. Goto(h, next)
        BY <1>3 DEF Request, Goto
  <2>2. QED
        BY <1>1, <1>3, <2>1, GotoMoves
<1>4. ASSUME NEW u \in Users, NEW url \in Urls, PrepareUrl(h, u, url)
      PROVE  task'[h].pc \in CreatePcs
  <2>1. PICK next : next = [pc |-> "prepared", user |-> u, key |-> UrlKey(url), wanted |-> url]
        OBVIOUS
  <2>2. Request(h, u, next) /\ next.pc = "prepared"
        BY <1>4, <2>1 DEF PrepareUrl
  <2>3. QED
        BY <1>3, <2>2 DEF CreatePcs
<1>5. ASSUME NEW u \in Users, NEW c \in Contents, NEW s \in Urls \cup {NoValue}, PrepareUpload(h, u, c, s)
      PROVE  task'[h].pc \in CreatePcs
  <2>1. PICK next : next = [pc |-> "prepared", user |-> u, key |-> UploadKey(c, s), wanted |-> s]
        OBVIOUS
  <2>2. Request(h, u, next) /\ next.pc = "prepared"
        BY <1>5, <2>1 DEF PrepareUpload
  <2>3. QED
        BY <1>3, <2>2 DEF CreatePcs
<1>6. ASSUME NEW u \in Users, DraftText(h, u) \/ \E d \in Ids : DraftCopy(h, u, d)
      PROVE  task'[h].pc \in CreatePcs
  <2>1. PICK draft : Request(h, u, [pc |-> "drafted", draft |-> draft])
        BY <1>6 DEF DraftText, DraftCopy
  <2>2. PICK next : next = [pc |-> "drafted", draft |-> draft]
        OBVIOUS
  <2>3. Request(h, u, next) /\ next.pc = "drafted"
        BY <2>1, <2>2
  <2>4. QED
        BY <1>3, <2>3 DEF CreatePcs
<1>7. ASSUME DraftFile(h)
      PROVE  task'[h].pc \in CreatePcs
  <2>1. PICK pc \in {"drafted", "extracting"} : \E draft : Goto(h, [pc |-> pc, draft |-> draft])
        BY <1>7 DEF DraftFile
  <2>2. PICK next : Goto(h, next) /\ next.pc = pc
        BY <2>1
  <2>3. QED
        BY <1>1, <2>2, GotoMoves DEF CreatePcs
<1>8. ASSUME Extract(h)
      PROVE  task'[h].pc \in CreatePcs
  <2>1. PICK r \in Drafting : r = task[h]
        BY <1>8, HandlerKinds DEF Extract
  <2>2. Goto(h, [r EXCEPT !.pc = "drafted"]) /\ [r EXCEPT !.pc = "drafted"].pc = "drafted"
        BY <1>8, <2>1 DEF Extract, Drafting
  <2>3. QED
        BY <1>1, <2>2, GotoMoves DEF CreatePcs
<1>9. RefuseFile(h) \/ Insert(h) => task'[h].pc \in CreatePcs
      BY <1>1, GotoMoves DEF RefuseFile, Insert, Idle, CreatePcs
<1>10. QED
       BY <1>2, <1>4, <1>5, <1>6, <1>7, <1>8, <1>9 DEF CreateStep

LEMMA DeletedFrom ==
    ASSUME Typed, [Next]_vars, NEW t \in Tasks, task'[t].pc = "deleted"
    PROVE  Untouched(t) \/ DeleteRows(t) \/ PurgeImages(t)
<1>1. ~Quiets(t)
      BY DEF Quiets, QuietSteps
<1>2. ~LosesImages(t)
  <2>1. SUFFICES ASSUME LosesImages(t)
                 PROVE  FALSE
        OBVIOUS
  <2>2. t \in Handlers
        BY <2>1, CleanupKinds DEF LosesImages, Tasks
  <2>3. QED
        BY <2>1, <2>2, DraftLosesImages
<1>3. ASSUME t \in Handlers, CreateStep(t)
      PROVE  FALSE
      BY <1>3, CreateStepPcs DEF CreatePcs
<1>4. ASSUME t \in Handlers, NEW u \in Users, NEW rows \in SUBSET Ids, LoadForDelete(t, u, rows)
      PROVE  FALSE
      BY <1>4, LoadedRows
<1>5. ASSUME t = Cleanup, ListInactive \/ LoadGuestDocs
      PROVE  FALSE
      BY <1>5, ListedShape, LoadGuestDocsShape
<1>6. QED
      BY <1>1, <1>2, <1>3, <1>4, <1>5, TaskMoves DEF Advances

LEMMA DeletedTo ==
    ASSUME Typed, [Next]_vars, NEW t \in Tasks, task[t].pc = "deleted"
    PROVE  Untouched(t) \/ PurgeImages(t) \/ CommitDelete(t) \/ TaskFails(t) \/ Crash
<1>1. ASSUME NEW h \in Handlers, CreateStep(h)
      PROVE  Untouched(t)
  <2>1. h # t
        BY <1>1, CreateStepPcs DEF CreatePcs
  <2>2. QED
        BY <1>1, <2>1, CreateMoves
<1>2. ASSUME NEW h \in Handlers, ChangeStep(h)
      PROVE  Untouched(t)
  <2>1. task[h] = Idle \/ task[h].pc \in {"sharing", "patching", "closing"}
        BY <1>2 DEF ChangeStep, LoadForUpdate, LoadPrefs, LoadForDelete, CloseAccount, SaveUpdate,
            SavePrefs, CloseLogin, Request
  <2>2. h # t
        BY <2>1 DEF Idle
  <2>3. QED
        BY <1>2, <2>2, ChangeMoves
<1>3. ASSUME NEW s \in Tasks, DeleteStep(s)
      PROVE  Untouched(t) \/ PurgeImages(t) \/ CommitDelete(t)
  <2>1. CASE s = t
    <3>1. ~DeleteRows(t)
          BY DEF DeleteRows
    <3>2. QED
          BY <1>3, <2>1, <3>1 DEF DeleteStep
  <2>2. CASE s # t /\ (DeleteRows(s) \/ CommitDelete(s))
    <3>1. \E next : Goto(s, next)
          BY <2>2 DEF DeleteRows, CommitDelete
    <3>2. QED
          BY <2>2, <3>1, GotoMoves
  <2>3. CASE s # t /\ PurgeImages(s)
        BY <2>3 DEF PurgeImages, Untouched
  <2>4. QED
        BY <1>3, <2>1, <2>2, <2>3 DEF DeleteStep
<1>4. ASSUME CleanupStep, ~DeleteStep(Cleanup)
      PROVE  Untouched(t)
  <2>1. task[Cleanup] = Idle \/ task[Cleanup].pc \in {"listed", "sweep", "orphans"}
        BY <1>4 DEF CleanupStep, ListInactive, LoadGuestDocs, ListOrphans, PurgeOrphans
  <2>2. t # Cleanup
        BY <2>1 DEF Idle
  <2>3. \E next : Goto(Cleanup, next)
        BY <1>4 DEF CleanupStep, ListInactive, LoadGuestDocs, ListOrphans, PurgeOrphans
  <2>4. QED
        BY <2>2, <2>3, GotoMoves DEF Tasks
<1>5. ASSUME NEW s \in Tasks, TaskFails(s), s # t
      PROVE  Untouched(t)
      BY <1>5, GotoMoves DEF TaskFails
<1>6. ASSUME \/ \E u \in Users, d \in Ids : Play(u, d)
             \/ \E g \in Guests, u \in Accounts : Claim(g, u)
             \/ \E d \in Ids : Age(d)
             \/ \E key \in DOMAIN fileCache : EvictFile(key)
             \/ UNCHANGED vars
      PROVE  Untouched(t)
      BY <1>6 DEF Play, Claim, Age, EvictFile, vars, Untouched
<1>7. Handlers \subseteq Tasks /\ Cleanup \in Tasks
      BY DEF Tasks
<1>8. QED
      BY <1>1, <1>2, <1>3, <1>4, <1>5, <1>6, <1>7 DEF Next

LEMMA IdsGrow ==
    ASSUME Typed, DeletionsApart, [Next]_vars
    PROVE  Cardinality(Ids') \in Nat /\ Cardinality(Ids) <= Cardinality(Ids')
<1>1. Cardinality(Ids) \in Nat /\ Ids = 1 .. Cardinality(Ids)
      BY CardinalityOfIds
<1>2. ASSUME NEW h \in Handlers, Insert(h)
      PROVE  Cardinality(Ids') = Cardinality(Ids) + 1
  <2>1. Ids' = 1 .. Cardinality(Ids) + 1
        BY <1>2 DEF Insert, Ids
  <2>2. Cardinality(1 .. Cardinality(Ids) + 1) = Cardinality(Ids) + 1
        BY <1>1, FS_Interval
  <2>3. QED
        BY <2>1, <2>2
<1>3. QED
      BY <1>1, <1>2, DocMoves

LEMMA DeletionsApartStep == Typed /\ DeletionsApart /\ [Next]_vars => DeletionsApart'
<1> SUFFICES ASSUME Typed, DeletionsApart, [Next]_vars
             PROVE  DeletionsApart'
    OBVIOUS
<1>1. ASSUME NEW t \in Tasks, NEW d \in Deleting(t)'
      PROVE  /\ task'[t].pc = "deleted"
             /\ \/ DeleteRows(t) /\ d \in Live /\ ~Locked(d)
                \/ ~DeleteRows(t) /\ d \in Deleting(t)
  <2>1. task'[t].pc = "deleted" /\ d \in task'[t].rows
        BY DEF Deleting
  <2>2. CASE Untouched(t)
    <3>1. task[t].pc = "deleted" /\ d \in Deleting(t)
          BY <2>1, <2>2 DEF Untouched, Deleting
    <3>2. QED
          BY <2>1, <3>1 DEF DeleteRows
  <2>3. CASE DeleteRows(t)
        BY <2>1, <2>3, DeleteRowsShape
  <2>4. CASE PurgeImages(t)
    <3>1. task[t].pc = "deleted" /\ d \in task[t].rows
          BY <2>1, <2>4, PurgeImagesShape
    <3>2. QED
          BY <2>1, <3>1 DEF DeleteRows, Deleting
  <2>5. QED
        BY <2>1, <2>2, <2>3, <2>4, DeletedFrom
<1>2. ASSUME NEW t \in Tasks, NEW d \in Deleting(t)'
      PROVE  d \in Live'
  <2>1. CASE DeleteRows(t)
    <3>1. d \in Live /\ docs' = docs
          BY <1>1, <2>1, DeleteRowsShape
    <3>2. QED
          BY <3>1 DEF Live, Ids
  <2>2. CASE ~DeleteRows(t)
    <3>1. d \in Deleting(t) /\ d \in Live /\ Locked(d)
          BY <1>1, <2>2 DEF DeletionsApart, Locked
    <3>2. ~CommitDelete(t)
      <4>1. CommitDelete(t) => \E next : Goto(t, next) /\ next.pc # "deleted"
            BY DEF CommitDelete, Idle
      <4>2. QED
            BY <1>1, <4>1, GotoMoves
    <3>3. ~Dropped(d)
          BY <3>1, <3>2 DEF Dropped, DeletionsApart
    <3>4. d \in Ids' /\ docs'[d] # Gone
          BY <3>1, <3>3, DocMoves DEF Remains, Live
    <3>5. QED
          BY <3>4 DEF Live
  <2>3. QED
        BY <2>1, <2>2
<1>3. ASSUME NEW t \in Tasks, NEW s \in Tasks, t # s, NEW d \in Deleting(t)', d \in Deleting(s)'
      PROVE  FALSE
  <2>1. CASE DeleteRows(t)
    <3>1. task'[s] = task[s]
          BY <1>3, <2>1, DeleteRowsShape DEF Untouched
    <3>2. d \in Deleting(s)
          BY <1>3, <3>1 DEF Deleting
    <3>3. QED
          BY <1>1, <2>1, <3>2 DEF Locked, DeleteRows
  <2>2. CASE DeleteRows(s)
    <3>1. task'[t] = task[t]
          BY <1>3, <2>2, DeleteRowsShape DEF Untouched
    <3>2. d \in Deleting(t)
          BY <1>3, <3>1 DEF Deleting
    <3>3. d \in Live /\ ~Locked(d)
          BY <1>1, <1>3, <2>2
    <3>4. QED
          BY <3>2, <3>3 DEF Locked
  <2>3. CASE ~DeleteRows(t) /\ ~DeleteRows(s)
    <3>1. d \in Deleting(t) /\ d \in Deleting(s)
          BY <1>1, <1>3, <2>3
    <3>2. QED
          BY <1>3, <3>1 DEF DeletionsApart
  <2>4. QED
        BY <2>1, <2>2, <2>3
<1>4. QED
      BY <1>2, <1>3 DEF DeletionsApart

LEMMA PurgesOwnContentsStep ==
    Typed /\ DeletionsApart /\ PurgesOwnContents /\ [Next]_vars => PurgesOwnContents'
<1> SUFFICES ASSUME Typed, DeletionsApart, PurgesOwnContents, [Next]_vars,
                    NEW t \in Tasks, task'[t].pc = "deleted"
             PROVE  /\ task'[t].asof <= Cardinality(Ids')
                    /\ \A d \in Live' : d <= task'[t].asof /\ docs'[d].content \in task'[t].hashes
                           => d \in task'[t].rows
    BY DEF PurgesOwnContents
<1>1. Cardinality(Ids) \in Nat /\ Cardinality(Ids') \in Nat /\ Cardinality(Ids) <= Cardinality(Ids')
      BY IdsGrow, CardinalityOfIds
<1>2. CASE DeleteRows(t)
  <2>1. task'[t].asof = Cardinality(Ids) /\ docs' = docs
        BY <1>2, DeleteRowsShape
  <2>2. ASSUME NEW d \in Live', docs'[d].content \in task'[t].hashes
        PROVE  d \in task'[t].rows
    <3>1. d \in Live /\ docs[d].content \in task[t].hashes \ StillReferenced(task[t].rows)
          BY <1>2, <2>1, <2>2, DeleteRowsShape DEF Live, Ids
    <3>2. d \in task[t].rows
          BY <3>1 DEF StillReferenced
    <3>3. QED
          BY <1>2, <3>1, <3>2, DeleteRowsShape
  <2>3. QED
        BY <1>1, <2>1, <2>2
<1>3. CASE Untouched(t) \/ PurgeImages(t)
  <2>1. /\ task[t].pc = "deleted" /\ task'[t].rows = task[t].rows /\ task'[t].asof = task[t].asof
        /\ task'[t].hashes \subseteq task[t].hashes
    <3>1. CASE Untouched(t)
          BY <3>1 DEF Untouched
    <3>2. CASE PurgeImages(t)
          BY <3>2, PurgeImagesShape
    <3>3. QED
          BY <1>3, <3>1, <3>2
  <2>2. task[t].asof \in Nat /\ task[t].asof <= Cardinality(Ids)
        BY <2>1, DeletionKinds DEF PurgesOwnContents
  <2>3. ASSUME NEW d \in Live', d <= task'[t].asof, docs'[d].content \in task'[t].hashes
        PROVE  d \in task'[t].rows
    <3>1. CASE d \in Live /\ Follows(docs[d], docs'[d])
          BY <2>1, <2>3, <3>1 DEF Follows, PurgesOwnContents
    <3>2. CASE d = Cardinality(Ids) + 1
          BY <1>1, <2>1, <2>2, <2>3, <3>2
    <3>3. QED
          BY <3>1, <3>2, DocOrigins
  <2>4. QED
        BY <1>1, <2>1, <2>2, <2>3
<1>4. QED
      BY <1>2, <1>3, DeletedFrom

-----------------------------------------------------------------------------
(* Images                                                                  *)

LEMMA ImagesShrinkByPurge ==
    ASSUME [Next]_vars
    PROVE  images \subseteq images' \/ \E t \in Tasks : PurgeImages(t)
<1>1. ASSUME NEW h \in Handlers, CreateStep(h)
      PROVE  images \subseteq images'
      BY <1>1 DEF CreateStep, PrepareUrl, PrepareUpload, DraftText, DraftCopy, DraftFile,
          RefuseFile, Extract, Insert
<1>2. ASSUME NEW h \in Handlers, ChangeStep(h)
      PROVE  images \subseteq images'
      BY <1>2 DEF ChangeStep, LoadForUpdate, LoadPrefs, LoadForDelete, CloseAccount, SaveUpdate,
          SavePrefs, CloseLogin
<1>3. ASSUME NEW t \in Tasks, DeleteStep(t)
      PROVE  images \subseteq images' \/ PurgeImages(t)
      BY <1>3 DEF DeleteStep, DeleteRows, CommitDelete
<1>4. ASSUME CleanupStep, ~DeleteStep(Cleanup)
      PROVE  images \subseteq images'
      BY <1>4 DEF CleanupStep, ListInactive, LoadGuestDocs, ListOrphans, PurgeOrphans
<1>5. ASSUME \/ \E u \in Users, d \in Ids : Play(u, d)
             \/ \E g \in Guests, u \in Accounts : Claim(g, u)
             \/ \E d \in Ids : Age(d)
             \/ \E t \in Tasks : TaskFails(t)
             \/ \E key \in DOMAIN fileCache : EvictFile(key)
             \/ Crash \/ UNCHANGED vars
      PROVE  images \subseteq images'
      BY <1>5 DEF Play, Claim, Age, TaskFails, EvictFile, Crash, vars
<1>6. Handlers \subseteq Tasks /\ Cleanup \in Tasks
      BY DEF Tasks
<1>7. QED
      BY <1>1, <1>2, <1>3, <1>4, <1>5, <1>6 DEF Next

\* The purge that takes the images of a draft marks the draft
LEMMA DraftsIllustratedStep ==
    Typed /\ DraftsIllustrated /\ [Next]_vars => DraftsIllustrated'
<1> SUFFICES ASSUME Typed, DraftsIllustrated, [Next]_vars,
                    NEW h \in Handlers, task'[h].pc = "drafted"
             PROVE  task'[h].draft.content \in images' \cup {NoValue} \/ task'[h].draft.spoiled
    BY DEF DraftsIllustrated, Illustrated
<1>1. CASE LosesImages(h)
      BY <1>1, DraftLosesImages DEF DocRecords
<1>2. CASE CreateStep(h)
      BY <1>2, CreateKinds
<1>3. CASE Untouched(h) /\ ~LosesImages(h)
  <2>1. task[h].pc = "drafted" /\ task'[h].draft = task[h].draft
        BY <1>3 DEF Untouched
  <2>2. task[h].draft.content \in images \cup {NoValue} \/ task[h].draft.spoiled
        BY <2>1 DEF DraftsIllustrated, Illustrated
  <2>3. ASSUME NEW t \in Tasks, PurgeImages(t), task[h].draft.content \in images
        PROVE  task[h].draft.content \in images'
    <3>1. PICK c \in task[t].hashes :
              /\ task[t].pc = "deleted" /\ images' = images \ {c}
              /\ \A s \in Tasks : s # t /\ task[s].pc = "drafted" /\ task[s].draft.content = c
                                     => LosesImages(s)
          BY <2>3, PurgeImagesShape
    <3>2. h # t /\ h \in Tasks
          BY <2>1, <3>1 DEF Tasks
    <3>3. QED
          BY <1>3, <2>1, <2>3, <3>1, <3>2
  <2>4. QED
        BY <2>1, <2>2, <2>3, ImagesShrinkByPurge
<1>4. QED
      BY <1>1, <1>2, <1>3, MakingMoves

LEMMA RolledBackSpoils ==
    ASSUME Typed, DeletionsApart, NEW t \in Tasks, NEW d \in Deleting(t),
           docs[d].content \notin images \cup {NoValue}
    PROVE  RolledBack(t)[d].spoiled
<1>1. d \in Live /\ d \in Ids /\ docs[d] \in DocRecords
      BY LiveTyped DEF DeletionsApart
<1>2. RolledBack(t)[d] = [docs[d] EXCEPT !.spoiled = TRUE]
      BY <1>1 DEF RolledBack
<1>3. QED
      BY <1>1, <1>2 DEF DocRecords

\* A document that an open deletion leaves is gone with it, or knows
LEMMA DeletionEnds ==
    ASSUME Typed, DeletionsApart, [Next]_vars, NEW t \in Tasks, NEW d \in Deleting(t),
           docs[d].content \notin images \cup {NoValue}
    PROVE  d \in Deleting(t)' \/ docs'[d] = Gone \/ docs'[d].spoiled
<1>1. task[t].pc = "deleted" /\ d \in task[t].rows /\ d \in Ids
      BY DEF Deleting, DeletionsApart, Live
<1>2. CASE Untouched(t)
      BY <1>1, <1>2 DEF Untouched, Deleting
<1>3. CASE PurgeImages(t)
  <2>1. task'[t].pc = "deleted" /\ task'[t].rows = task[t].rows
        BY <1>3, PurgeImagesShape
  <2>2. QED
        BY <1>1, <2>1 DEF Deleting
<1>4. CASE CommitDelete(t)
      BY <1>1, <1>4 DEF CommitDelete, Removed
<1>5. CASE TaskFails(t)
      BY <1>5, RolledBackSpoils DEF TaskFails
<1>6. CASE Crash
  <2>1. Locked(d)
        BY DEF Locked
  <2>2. PICK s \in Tasks : s = (CHOOSE k \in Tasks : d \in Deleting(k)) /\ d \in Deleting(s)
        BY <2>1 DEF Locked
  <2>3. docs'[d] = RolledBack(s)[d]
        BY <1>1, <1>6, <2>1, <2>2 DEF Crash
  <2>4. QED
        BY <2>2, <2>3, RolledBackSpoils
<1>7. QED
      BY <1>1, <1>2, <1>3, <1>4, <1>5, <1>6, DeletedTo

LEMMA ImagesServedStep ==
    /\ Typed /\ DeletionsApart /\ PurgesOwnContents /\ DraftsIllustrated /\ ImagesServed
    /\ [Next]_vars
    => ImagesServed'
<1> SUFFICES ASSUME Typed, DeletionsApart, PurgesOwnContents, DraftsIllustrated, ImagesServed,
                    [Next]_vars,
                    NEW d \in Live', docs'[d].content \notin images' \cup {NoValue}
             PROVE  docs'[d].spoiled \/ \E t \in Tasks : d \in Deleting(t)'
    BY DEF ImagesServed
<1>1. ASSUME NEW h \in Handlers, Insert(h), docs'[d] = task[h].draft
      PROVE  docs'[d].spoiled
      BY <1>1 DEF Insert, DraftsIllustrated, Illustrated
<1>2. CASE d \in Live /\ Follows(docs[d], docs'[d]) /\ docs[d].content \in images
  <2>1. docs'[d].content = docs[d].content /\ docs[d].content \notin images' /\ d \in Ids
        BY <1>2 DEF Follows, Live
  <2>2. PICK t \in Tasks : PurgeImages(t)
        BY <1>2, <2>1, ImagesShrinkByPurge
  <2>3. PICK c \in task[t].hashes :
            /\ task[t].pc = "deleted" /\ task'[t].pc = "deleted" /\ task'[t].rows = task[t].rows
            /\ images' = images \ {c}
            /\ \A e \in Ids : docs'[e] = IF Overtaken(t, e, c)
                                           THEN [docs[e] EXCEPT !.spoiled = TRUE] ELSE docs[e]
        BY <2>2, PurgeImagesShape
  <2>4. c = docs[d].content
        BY <1>2, <2>1, <2>3
  <2>5. CASE d <= task[t].asof
    <3>1. d \in task[t].rows
          BY <1>2, <2>3, <2>4, <2>5 DEF PurgesOwnContents
    <3>2. d \in Deleting(t)'
          BY <2>3, <3>1 DEF Deleting
    <3>3. QED
          BY <3>2
  <2>6. CASE d > task[t].asof
    <3>1. Overtaken(t, d, c) /\ docs[d] \in DocRecords
          BY <1>2, <2>4, <2>6, LiveTyped DEF Overtaken
    <3>2. docs'[d] = [docs[d] EXCEPT !.spoiled = TRUE]
          BY <2>1, <2>3, <3>1
    <3>3. QED
          BY <3>1, <3>2 DEF DocRecords
  <2>7. d \in Nat /\ task[t].asof \in Nat
        BY <1>2, <2>3, LiveTyped, DeletionKinds
  <2>8. QED
        BY <2>5, <2>6, <2>7
<1>3. CASE d \in Live /\ Follows(docs[d], docs'[d]) /\ docs[d].content \notin images
  <2>1. docs[d].content \notin images \cup {NoValue} /\ docs'[d] # Gone
        BY <1>3 DEF Follows, Live
  <2>2. CASE docs[d].spoiled
        BY <1>3, <2>2 DEF Follows
  <2>3. CASE \E t \in Tasks : d \in Deleting(t)
        BY <2>1, <2>3, DeletionEnds
  <2>4. QED
        BY <1>3, <2>1, <2>2, <2>3 DEF ImagesServed
<1>4. QED
      BY <1>1, <1>2, <1>3, DocOrigins

-----------------------------------------------------------------------------
(* The cleanup pass                                                        *)

LEMMA CleanupApart == Cleanup \in Tasks /\ Cleanup \notin Handlers
BY LibraryAssumption DEF Tasks, Cleanup

\* How the pass gets to each of its states
LEMMA CleanupFrom ==
    ASSUME Typed, [Next]_vars
    PROVE  /\ task'[Cleanup].pc = "listed" => Untouched(Cleanup) \/ ListInactive
           /\ task'[Cleanup].pc = "deleting" => Untouched(Cleanup) \/ LoadGuestDocs
           /\ task'[Cleanup].pc = "deleted" =>
                 Untouched(Cleanup) \/ DeleteRows(Cleanup) \/ PurgeImages(Cleanup)
<1>1. Cleanup \in Tasks /\ Cleanup \notin Handlers
      BY CleanupApart
<1>2. Quiets(Cleanup) => task'[Cleanup].pc \notin {"listed", "deleting", "deleted"}
      BY DEF Quiets, QuietSteps
<1>3. ~LosesImages(Cleanup)
      BY CleanupKinds DEF LosesImages
<1>4. DeleteRows(Cleanup) \/ PurgeImages(Cleanup) => task'[Cleanup].pc = "deleted"
      BY <1>1, DeleteRowsShape, PurgeImagesShape
<1>5. ListInactive => task'[Cleanup].pc = "listed"
      BY ListedShape
<1>6. LoadGuestDocs => task'[Cleanup].pc = "deleting"
      BY LoadGuestDocsShape
<1>7. \/ Untouched(Cleanup) \/ Quiets(Cleanup) \/ DeleteRows(Cleanup) \/ PurgeImages(Cleanup)
      \/ ListInactive \/ LoadGuestDocs
      BY <1>1, <1>3, TaskMoves DEF Advances
<1>8. QED
      BY <1>2, <1>4, <1>5, <1>6, <1>7

LEMMA CleanupInvStep ==
    Typed /\ DeletionsApart /\ DocsFaithful /\ CleanupInv /\ [Next]_vars => CleanupInv'
<1> SUFFICES ASSUME Typed, DeletionsApart, DocsFaithful, CleanupInv, [Next]_vars
             PROVE  CleanupInv'
    OBVIOUS
<1>1. Cleanup \in Tasks
      BY CleanupApart
<1>2. \A d \in Ids : d \in Ids'
      BY DocMoves
<1>3. ASSUME task'[Cleanup].pc = "listed"
      PROVE  /\ task'[Cleanup].recent \subseteq Ids'
             /\ \A d \in task'[Cleanup].recent \cap Live' : docs'[d].owner \notin task'[Cleanup].users
  <2>1. CASE Untouched(Cleanup)
    <3>1. task[Cleanup].pc = "listed" /\ task'[Cleanup] = task[Cleanup]
          BY <1>3, <2>1 DEF Untouched
    <3>2. task[Cleanup].recent \subseteq Ids /\ task[Cleanup].users \subseteq Guests
          BY <3>1, CleanupKinds DEF CleanupInv, Listed
    <3>3. ASSUME NEW d \in task[Cleanup].recent, d \in Live'
          PROVE  docs'[d].owner \notin task[Cleanup].users
      <4>1. d \in Live /\ Follows(docs[d], docs'[d])
            BY <3>2, <3>3, DocOrigins
      <4>2. docs[d].owner \notin task[Cleanup].users
            BY <3>1, <3>3, <4>1 DEF CleanupInv
      <4>3. QED
            BY <3>2, <4>1, <4>2, LibraryAssumption DEF Follows
    <3>4. QED
          BY <1>2, <3>1, <3>2, <3>3
  <2>2. CASE ListInactive
    <3>1. /\ task'[Cleanup].users = InactiveGuests /\ docs' = docs
          /\ task'[Cleanup].recent = {d \in Live : LastActive(d) = "recent"}
          BY <2>2, ListedShape
    <3>2. ASSUME NEW d \in Live, LastActive(d) = "recent"
          PROVE  d \in Ids /\ docs[d].owner \notin InactiveGuests
          BY <3>2 DEF InactiveGuests, OwnedBy, Live
    <3>3. QED
          BY <1>2, <3>1, <3>2
  <2>3. QED
        BY <1>3, <2>1, <2>2, CleanupFrom
<1>4. ASSUME task'[Cleanup].pc \in {"deleting", "deleted"}
      PROVE  /\ task'[Cleanup].rows \subseteq Ids'
             /\ \A d \in task'[Cleanup].rows \cap Live' :
                   docs'[d].maker \in Guests /\ d \notin task'[Cleanup].recent
  <2>1. CASE \/ Untouched(Cleanup) \/ PurgeImages(Cleanup) \/ DeleteRows(Cleanup)
    <3>1. /\ task[Cleanup].pc \in {"deleting", "deleted"}
          /\ task'[Cleanup].rows \subseteq task[Cleanup].rows
          /\ task'[Cleanup].recent = task[Cleanup].recent
      <4>1. CASE Untouched(Cleanup)
            BY <1>4, <4>1 DEF Untouched
      <4>2. CASE PurgeImages(Cleanup)
            BY <1>1, <4>2, PurgeImagesShape
      <4>3. CASE DeleteRows(Cleanup)
            BY <1>1, <4>3, DeleteRowsShape
      <4>4. QED
            BY <2>1, <4>1, <4>2, <4>3
    <3>2. task[Cleanup].rows \subseteq Ids
          BY <3>1 DEF CleanupInv
    <3>3. ASSUME NEW d \in task'[Cleanup].rows, d \in Live'
          PROVE  docs'[d].maker \in Guests /\ d \notin task'[Cleanup].recent
      <4>1. d \in Live /\ Follows(docs[d], docs'[d]) /\ d \in task[Cleanup].rows
            BY <3>1, <3>2, <3>3, DocOrigins
      <4>2. docs[d].maker \in Guests /\ d \notin task[Cleanup].recent
            BY <3>1, <4>1 DEF CleanupInv
      <4>3. QED
            BY <3>1, <4>1, <4>2 DEF Follows
    <3>4. QED
          BY <1>2, <3>1, <3>2, <3>3
  <2>2. CASE LoadGuestDocs
    <3>1. /\ task[Cleanup].pc = "listed" /\ docs' = docs
          /\ task'[Cleanup].rows = OwnedBy(task[Cleanup].users)
          /\ task'[Cleanup].recent = task[Cleanup].recent
          BY <2>2, LoadGuestDocsShape
    <3>2. task[Cleanup].users \subseteq Guests
          BY <3>1, CleanupKinds DEF Listed
    <3>3. ASSUME NEW d \in OwnedBy(task[Cleanup].users)
          PROVE  d \in Ids /\ docs[d].maker \in Guests /\ d \notin task[Cleanup].recent
      <4>1. d \in Live /\ docs[d].owner \in task[Cleanup].users
            BY DEF OwnedBy
      <4>2. docs[d].maker = docs[d].owner
            BY <3>2, <4>1 DEF DocsFaithful, Faithful
      <4>3. d \notin task[Cleanup].recent
            BY <3>1, <4>1 DEF CleanupInv
      <4>4. QED
            BY <3>2, <4>1, <4>2, <4>3 DEF Live
    <3>4. QED
          BY <1>2, <3>1, <3>3
  <2>3. QED
        BY <1>4, <2>1, <2>2, CleanupFrom
<1>5. QED
      BY <1>3, <1>4 DEF CleanupInv

-----------------------------------------------------------------------------
(* The storage limit                                                       *)

Kept(u) == {d \in OwnedBy({u}) : docs[d].maker = u}

\* A draft is the one that was being extracted, or there was room for it
LEMMA CreateRoom ==
    ASSUME Typed, NEW h \in Handlers, CreateStep(h), task'[h].pc \in {"extracting", "drafted"}
    PROVE  /\ UNCHANGED docs
           /\ \/ task[h].pc = "extracting" /\ task'[h].draft.owner = task[h].draft.owner
              \/ HasRoom(task'[h].draft.owner)
<1>1. h \in Tasks
      BY DEF Tasks
<1>2. ~RefuseFile(h) /\ ~Insert(h)
      BY <1>1, GotoMoves DEF RefuseFile, Insert, Idle
<1>3. UNCHANGED docs
      BY <1>2 DEF CreateStep, PrepareUrl, PrepareUpload, DraftText, DraftCopy, DraftFile, Extract
<1>4. ASSUME NEW u \in Users, DraftText(h, u)
      PROVE  HasRoom(task'[h].draft.owner)
  <2>1. PICK draft : draft = Draft(u, DefaultPublic(u), NoValue, NoValue)
        OBVIOUS
  <2>2. PICK next : next = [pc |-> "drafted", draft |-> draft]
        OBVIOUS
  <2>3. Goto(h, next) /\ next.draft = draft
        BY <1>4, <2>1, <2>2 DEF DraftText, Request, Goto
  <2>4. task'[h].draft = draft /\ draft.owner = u
        BY <1>1, <2>1, <2>3, GotoMoves DEF Draft
  <2>5. QED
        BY <1>4, <2>4 DEF DraftText
<1>5. ASSUME NEW u \in Users, NEW d \in Ids, DraftCopy(h, u, d)
      PROVE  HasRoom(task'[h].draft.owner)
  <2>1. docs[d] \in DocRecords
        BY <1>5, LiveTyped DEF DraftCopy
  <2>2. PICK draft : draft = Copy(u, d)
        OBVIOUS
  <2>3. PICK next : next = [pc |-> "drafted", draft |-> draft]
        OBVIOUS
  <2>4. Goto(h, next) /\ next.draft = draft
        BY <1>5, <2>2, <2>3 DEF DraftCopy, Request, Goto
  <2>5. draft.owner = u
        BY <2>1, <2>2 DEF Copy, DocRecords
  <2>6. task'[h].draft.owner = u
        BY <1>1, <2>4, <2>5, GotoMoves
  <2>7. QED
        BY <1>5, <2>6 DEF DraftCopy
<1>6. ASSUME DraftFile(h)
      PROVE  HasRoom(task'[h].draft.owner)
  <2>1. PICK entry, u : entry = fileCache[task[h].key] /\ u = task[h].user
        OBVIOUS
  <2>2. PICK draft : draft = Draft(u, DefaultPublic(u), entry.content, entry.source)
        OBVIOUS
  <2>3. PICK made : made = [draft EXCEPT !.wanted = task[h].wanted]
        OBVIOUS
  <2>4. PICK next : next = [pc |-> IF entry.content = NoValue THEN "drafted" ELSE "extracting",
                            draft |-> made]
        OBVIOUS
  <2>5. Goto(h, next) /\ next.draft = made
        BY <1>6, <2>1, <2>2, <2>3, <2>4 DEF DraftFile
  <2>6. made.owner = u
        BY <2>2, <2>3 DEF Draft
  <2>7. task'[h].draft.owner = u
        BY <1>1, <2>5, <2>6, GotoMoves
  <2>8. QED
        BY <1>6, <2>1, <2>7 DEF DraftFile
<1>7. ASSUME Extract(h)
      PROVE  task[h].pc = "extracting" /\ task'[h].draft.owner = task[h].draft.owner
  <2>1. PICK r \in Drafting : r = task[h] /\ r.pc = "extracting"
        BY <1>7, HandlerKinds DEF Extract
  <2>2. PICK next : next = [r EXCEPT !.pc = "drafted"]
        OBVIOUS
  <2>3. Goto(h, next) /\ next.draft = r.draft
        BY <1>7, <2>1, <2>2 DEF Extract, Drafting
  <2>4. QED
        BY <1>1, <2>1, <2>3, GotoMoves
<1>8. ASSUME \/ \E u \in Users, url \in Urls : PrepareUrl(h, u, url)
             \/ \E u \in Users, c \in Contents, s \in Urls \cup {NoValue} : PrepareUpload(h, u, c, s)
      PROVE  FALSE
  <2>1. PICK u, key, wanted : Request(h, u, [pc |-> "prepared", user |-> u, key |-> key, wanted |-> wanted])
        BY <1>8 DEF PrepareUrl, PrepareUpload
  <2>2. PICK next : next = [pc |-> "prepared", user |-> u, key |-> key, wanted |-> wanted]
        OBVIOUS
  <2>3. Goto(h, next) /\ next.pc = "prepared"
        BY <2>1, <2>2 DEF Request, Goto
  <2>4. QED
        BY <1>1, <2>3, GotoMoves
<1>9. QED
      BY <1>2, <1>3, <1>4, <1>5, <1>6, <1>7, <1>8 DEF CreateStep

LEMMA KeptFrom ==
    ASSUME Typed, DeletionsApart, DocsFaithful, [Next]_vars, NEW u \in Users, NEW d \in Kept(u)'
    PROVE  \/ d \in Kept(u)
           \/ /\ d = Cardinality(Ids) + 1
              /\ \E h \in Handlers : Insert(h) /\ task[h].draft.owner = u
<1>1. d \in Live' /\ docs'[d].owner = u /\ docs'[d].maker = u
      BY DEF Kept, OwnedBy
<1>2. CASE d \in Live /\ Follows(docs[d], docs'[d])
  <2>1. docs[d].maker = u /\ Faithful(docs[d])
        BY <1>1, <1>2 DEF Follows, DocsFaithful
  <2>2. docs[d].owner = u \/ (docs[d].owner \in Guests /\ u \in Accounts)
        BY <1>1, <1>2 DEF Follows
  <2>3. docs[d].owner = u
        BY <2>1, <2>2, LibraryAssumption DEF Faithful
  <2>4. QED
        BY <1>2, <2>1, <2>3 DEF Kept, OwnedBy
<1>3. QED
      BY <1>1, <1>2, DocOrigins

LEMMA MakingFrom ==
    ASSUME Typed, [Next]_vars, NEW u \in Users, NEW h \in Making(u)'
    PROVE  h \in Making(u) \/ (HasRoom(u) /\ UNCHANGED docs)
<1>1. h \in Handlers /\ task'[h].pc \in {"extracting", "drafted"} /\ task'[h].draft.owner = u
      BY DEF Making
<1>2. CASE Untouched(h)
      BY <1>1, <1>2 DEF Untouched, Making
<1>3. CASE LosesImages(h)
  <2>1. task[h].pc = "drafted" /\ task[h].draft.owner = u
        BY <1>1, <1>3, DraftLosesImages DEF LosesImages, DocRecords
  <2>2. QED
        BY <1>1, <2>1 DEF Making
<1>4. CASE CreateStep(h)
      BY <1>1, <1>4, CreateRoom DEF Making
<1>5. QED
      BY <1>1, <1>2, <1>3, <1>4, MakingMoves

LEMMA KeptFinite ==
    ASSUME Typed, NEW u \in Users
    PROVE  /\ IsFiniteSet(Kept(u)) /\ Cardinality(Kept(u)) \in Nat
           /\ Cardinality(Kept(u)) <= Usage(u) /\ Usage(u) \in Nat
           /\ IsFiniteSet(Making(u)) /\ Cardinality(Making(u)) \in Nat
           /\ Cardinality(Handlers) \in Nat /\ Limit[u] \in Nat
<1>1. Cardinality(Ids) \in Nat /\ Ids = 1 .. Cardinality(Ids)
      BY CardinalityOfIds
<1>2. IsFiniteSet(Ids)
      BY <1>1, FS_Interval
<1>3. OwnedBy({u}) \in SUBSET Ids /\ Kept(u) \in SUBSET OwnedBy({u})
      BY DEF OwnedBy, Live, Kept
<1>4. IsFiniteSet(OwnedBy({u}))
      BY <1>2, <1>3, FS_Subset
<1>5. /\ IsFiniteSet(Kept(u))
      /\ Cardinality(Kept(u)) <= Cardinality(OwnedBy({u}))
      BY <1>3, <1>4, FS_Subset
<1>6. Cardinality(Kept(u)) \in Nat /\ Cardinality(OwnedBy({u})) \in Nat
      BY <1>4, <1>5, FS_CardinalityType
<1>7. Making(u) \in SUBSET Handlers /\ IsFiniteSet(Handlers)
      BY LibraryAssumption DEF Making
<1>8. IsFiniteSet(Making(u))
      BY <1>7, FS_Subset
<1>9. Cardinality(Making(u)) \in Nat /\ Cardinality(Handlers) \in Nat
      BY <1>7, <1>8, FS_CardinalityType
<1>10. Limit[u] \in Nat
       BY LibraryAssumption DEF Users
<1>11. QED
       BY <1>5, <1>6, <1>8, <1>9, <1>10 DEF Usage

LEMMA StorageBoundedStep ==
    Typed /\ DeletionsApart /\ DocsFaithful /\ StorageBounded /\ [Next]_vars => StorageBounded'
<1> SUFFICES ASSUME Typed, DeletionsApart, DocsFaithful, StorageBounded, [Next]_vars,
                    NEW u \in Users
             PROVE  Cardinality(Kept(u)') + Cardinality(Making(u)') < Limit[u] + Cardinality(Handlers)
    BY DEF StorageBounded, Kept
<1> DEFINE held == Cardinality(Kept(u))
           made == Cardinality(Making(u))
           all  == Cardinality(Handlers)
<1>1. held \in Nat /\ made \in Nat /\ all \in Nat /\ Limit[u] \in Nat /\ held + made < Limit[u] + all
  <2>1. held + made < Limit[u] + all
        BY DEF StorageBounded, Kept
  <2>2. QED
        BY <2>1, KeptFinite
<1>2. CASE ~(Making(u)' \subseteq Making(u))
  <2>1. HasRoom(u) /\ docs' = docs
        BY <1>2, MakingFrom
  <2>2. Kept(u)' = Kept(u)
        BY <2>1 DEF Kept, OwnedBy, Live, Ids
  <2>3. Making(u)' \in SUBSET Handlers /\ IsFiniteSet(Handlers)
        BY LibraryAssumption DEF Making
  <2>4. IsFiniteSet(Making(u)') /\ Cardinality(Making(u)') <= all
        BY <2>3, FS_Subset
  <2>5. Cardinality(Making(u)') \in Nat
        BY <2>4, FS_CardinalityType
  <2>6. held <= Usage(u) /\ Usage(u) \in Nat /\ Usage(u) < Limit[u]
        BY <2>1, KeptFinite DEF HasRoom
  <2>7. held < Limit[u]
        BY <1>1, <2>6
  <2>8. held + Cardinality(Making(u)') < Limit[u] + all
    <3> HIDE DEF held, all
    <3>1. QED
          BY <1>1, <2>4, <2>5, <2>7
  <2>9. QED
        BY <2>2, <2>8
<1>3. CASE Making(u)' \subseteq Making(u) /\ Kept(u)' \subseteq Kept(u)
  <2>1. IsFiniteSet(Kept(u)) /\ IsFiniteSet(Making(u))
        BY KeptFinite
  <2>2. /\ IsFiniteSet(Kept(u)') /\ Cardinality(Kept(u)') <= held
        /\ IsFiniteSet(Making(u)') /\ Cardinality(Making(u)') <= made
        BY <1>3, <2>1, FS_Subset
  <2>3. Cardinality(Kept(u)') \in Nat /\ Cardinality(Making(u)') \in Nat
        BY <2>2, FS_CardinalityType
  <2>4. PICK k \in Nat, m \in Nat : k = Cardinality(Kept(u)') /\ m = Cardinality(Making(u)')
        BY <2>3
  <2>5. k <= held /\ m <= made
        BY <2>2, <2>4
  <2>6. k + m < Limit[u] + all
    <3> HIDE DEF held, made, all
    <3>1. QED
          BY <1>1, <2>5
  <2>7. QED
        BY <2>4, <2>6
<1>4. CASE Making(u)' \subseteq Making(u) /\ ~(Kept(u)' \subseteq Kept(u))
  <2>1. PICK h \in Handlers : Insert(h) /\ task[h].draft.owner = u
        BY <1>4, KeptFrom
  <2>2. h \in Making(u)
        BY <2>1 DEF Insert, Making
  <2>3. h \notin Making(u)'
    <3>1. task'[h] = Idle
          BY <2>1, GotoMoves DEF Insert, Tasks
    <3>2. QED
          BY <3>1 DEF Making, Idle
  <2>4. Kept(u)' \in SUBSET (Kept(u) \cup {Cardinality(Ids) + 1})
        BY KeptFrom
  <2>5. IsFiniteSet(Kept(u)) /\ IsFiniteSet(Making(u))
        BY KeptFinite
  <2>6. /\ IsFiniteSet(Kept(u) \cup {Cardinality(Ids) + 1})
        /\ Cardinality(Kept(u) \cup {Cardinality(Ids) + 1}) \in {held, held + 1}
        BY <2>5, FS_AddElement
  <2>7. /\ IsFiniteSet(Kept(u)')
        /\ Cardinality(Kept(u)') <= Cardinality(Kept(u) \cup {Cardinality(Ids) + 1})
        BY <2>4, <2>6, FS_Subset
  <2>8. IsFiniteSet(Making(u) \ {h}) /\ Cardinality(Making(u) \ {h}) = made - 1
        BY <2>2, <2>5, FS_RemoveElement
  <2>9. Making(u)' \in SUBSET (Making(u) \ {h})
        BY <1>4, <2>3
  <2>10. IsFiniteSet(Making(u)') /\ Cardinality(Making(u)') <= made - 1
        BY <2>8, <2>9, FS_Subset
  <2>11. Cardinality(Kept(u)') \in Nat /\ Cardinality(Making(u)') \in Nat
        BY <2>7, <2>10, FS_CardinalityType
  <2>12. Cardinality(Kept(u)') <= held + 1
    <3> HIDE DEF held
    <3>1. QED
          BY <1>1, <2>6, <2>7, <2>11
  <2>13. PICK k \in Nat, m \in Nat : k = Cardinality(Kept(u)') /\ m = Cardinality(Making(u)')
        BY <2>11
  <2>14. k <= held + 1 /\ m <= made - 1
        BY <2>10, <2>12, <2>13
  <2>15. k + m < Limit[u] + all
    <3> HIDE DEF held, made, all
    <3>1. QED
          BY <1>1, <2>14
  <2>16. QED
        BY <2>13, <2>15
<1>5. QED
      BY <1>2, <1>3, <1>4

-----------------------------------------------------------------------------
(* The invariant                                                           *)

LEMMA LibraryInit == Init => LibraryKept
<1> SUFFICES ASSUME Init
             PROVE  LibraryKept
    OBVIOUS
<1>1. Ids = {} /\ Live = {}
      BY DEF Init, Ids, Live
<1>2. \A t \in Tasks : task[t] = Idle /\ task[t].pc = "idle" /\ Deleting(t) = {}
      BY DEF Init, Idle, Deleting
<1>3. Handlers \subseteq Tasks /\ Cleanup \in Tasks
      BY DEF Tasks
<1>4. Typed
  <2>1. Ids = 1 .. 0
        BY <1>1
  <2>2. prefs \in [Users -> [Fields -> BOOLEAN] \cup {NoValue}]
        BY DEF Init
  <2>3. DOMAIN fileCache = {} /\ images = {} /\ accounts = Accounts /\ DOMAIN task = Tasks
        BY DEF Init
  <2>4. (\A h \in Handlers : HandlerTyped(task[h])) /\ CleanupTyped(task[Cleanup])
        BY <1>2, <1>3, IdleTyped
  <2>5. QED
        BY <1>1, <2>1, <2>2, <2>3, <2>4 DEF Typed
<1>5. DocsFaithful /\ FilesKept /\ DraftsIllustrated
  <2>1. DOMAIN fileCache = {}
        BY DEF Init
  <2>2. QED
        BY <1>1, <1>2, <1>3, <2>1 DEF DocsFaithful, FilesKept, DraftsIllustrated
<1>6. DeletionsApart /\ PurgesOwnContents /\ CleanupInv /\ ImagesServed
      BY <1>1, <1>2, <1>3 DEF DeletionsApart, PurgesOwnContents, CleanupInv, ImagesServed
<1>7. StorageBounded
  <2>1. ASSUME NEW u \in Users
        PROVE  Cardinality(Kept(u)) + Cardinality(Making(u)) < Limit[u] + Cardinality(Handlers)
    <3>1. Kept(u) = {} /\ Making(u) = {}
          BY <1>1, <1>2, <1>3 DEF Kept, OwnedBy, Making
    <3>2. Cardinality(Handlers) \in Nat /\ Cardinality(Handlers) # 0
          BY LibraryAssumption, FS_EmptySet, FS_CardinalityType
    <3>3. Limit[u] \in Nat
          BY LibraryAssumption DEF Users
    <3>4. Cardinality(Kept(u)) = 0 /\ Cardinality(Making(u)) = 0
          BY <3>1, FS_EmptySet
    <3>5. QED
          BY <3>2, <3>3, <3>4
  <2>2. QED
        BY <2>1 DEF StorageBounded, Kept
<1>8. QED
      BY <1>4, <1>5, <1>6, <1>7 DEF LibraryKept

\* What every task relies on across its awaits holds whatever the others do meanwhile:
\* the inductive invariant of the library (documents.py, users.py, gateway/__init__.py).
THEOREM LibraryInvariant == Spec => []LibraryKept
<1>1. LibraryKept /\ [Next]_vars => LibraryKept'
      BY TypedStep, DocsFaithfulStep, FilesKeptStep, DraftsIllustratedStep, DeletionsApartStep,
         PurgesOwnContentsStep, CleanupInvStep, StorageBoundedStep, ImagesServedStep DEF LibraryKept
<1>2. QED
      BY LibraryInit, <1>1, PTL DEF Spec

\* Overlapping requests break neither the storage limit (by more than the requests that are
\* served at once) nor the owner's say over what is public, nor the source of an upload.
THEOREM LibraryHolds == Spec => []LibraryInv
<1>1. ASSUME LibraryKept
      PROVE  LibraryInv
  <2>1. Typed /\ DocsFaithful /\ DeletionsApart /\ StorageBounded
        BY <1>1 DEF LibraryKept
  <2>2. ASSUME NEW d \in Live
        PROVE  DocTypeOK(docs[d])
        BY <2>1, LiveTyped DEF DocTypeOK, DocRecords, Bytes, Sources
  <2>3. \A u \in Users : prefs[u] \in [Fields -> BOOLEAN] \cup {NoValue}
        BY <2>1 DEF Typed
  <2>4. images \subseteq Contents /\ accounts \subseteq Accounts
        BY <2>1 DEF Typed
  <2>5. \A t, s \in Tasks : t # s => Deleting(t) \cap Deleting(s) = {}
        BY <2>1 DEF DeletionsApart
  <2>6. TypeOK
        BY <2>2, <2>3, <2>4, <2>5 DEF TypeOK
  <2>7. PublicByConsent /\ SourceKept
        BY <2>1 DEF DocsFaithful, Faithful, PublicByConsent, SourceKept
  <2>8. QED
        BY <2>1, <2>6, <2>7 DEF LibraryInv
<1>2. QED
      BY LibraryInvariant, <1>1, PTL

\* A document keeps the images of its content unless a purge overtook it or a deletion of
\* it is open or did not commit (delete_documents_with_images, image_storage.delete_all).
THEOREM ImagesAreServed == Spec => []ImagesServed
<1>1. LibraryKept => ImagesServed
      BY DEF LibraryKept
<1>2. QED
      BY LibraryInvariant, <1>1, PTL

\* The cleanup pass removes only what a guest made, and nothing that had been used within
\* the TTL when the pass looked (_guest_cleanup_task).
THEOREM CleanupSparesUsed == Spec => CleanupSpares
<1>1. ASSUME LibraryKept
      PROVE  \A d \in Live \cap Deleting(Cleanup) : docs'[d] = Gone =>
                docs[d].maker \in Guests /\ d \notin task[Cleanup].recent
  <2>1. CleanupInv
        BY <1>1 DEF LibraryKept
  <2>2. QED
        BY <2>1 DEF CleanupInv, Deleting
<1>2. QED
      BY LibraryInvariant, <1>1, PTL DEF CleanupSpares

PatchOfField(u, f) ==
    \E h \in Handlers : task[h].pc = "patching" /\ task[h].field = f /\ task'[h] = Idle

LEMMA OneFieldStep ==
    ASSUME Typed, [Next]_vars, NEW u \in Users, prefs[u] # NoValue, prefs'[u] # NoValue,
           NEW f \in Fields, prefs'[u][f] # prefs[u][f]
    PROVE  PatchOfField(u, f)
<1>1. prefs[u] \in [Fields -> BOOLEAN] /\ prefs' # prefs /\ DOMAIN prefs = Users
      BY DEF Typed
<1>2. ASSUME NEW h \in Handlers, SavePrefs(h)
      PROVE  PatchOfField(u, f)
  <2>1. PICK r \in Patching : r = task[h] /\ r.pc = "patching"
        BY <1>2, HandlerKinds DEF SavePrefs
  <2>2. task'[h] = Idle
        BY <1>2, GotoMoves DEF SavePrefs, Tasks
  <2>3. r.user = u /\ prefs'[u] = Patched(prefs[u], r)
    <3>1. CASE r.old = NoValue /\ prefs[r.user] = NoValue
      <4>1. prefs' = [prefs EXCEPT ![r.user] = [NoPrefs EXCEPT ![r.field] = r.new]]
            BY <1>2, <2>1, <3>1 DEF SavePrefs
      <4>2. r.user # u
            BY <3>1
      <4>3. QED
            BY <1>1, <4>1, <4>2
    <3>2. CASE r.old # NoValue /\ prefs[r.user] # NoValue
      <4>1. prefs' = [prefs EXCEPT ![r.user] = Patched(prefs[r.user], r)]
            BY <1>2, <2>1, <3>2 DEF SavePrefs
      <4>2. QED
            BY <1>1, <4>1
    <3>3. CASE ~(r.old = NoValue <=> prefs[r.user] = NoValue)
          BY <1>1, <1>2, <2>1, <3>3 DEF SavePrefs
    <3>4. QED
          BY <3>1, <3>2, <3>3
  <2>4. r.field = f
        BY <1>1, <2>3 DEF Patched
  <2>5. QED
        BY <2>1, <2>2, <2>4 DEF PatchOfField
<1>3. ASSUME NEW S, prefs' = [v \in Users |-> IF v \in S THEN NoValue ELSE prefs[v]]
      PROVE  FALSE
      BY <1>3
<1>4. ASSUME NEW h \in Handlers, CreateStep(h)
      PROVE  FALSE
      BY <1>1, <1>4 DEF CreateStep, PrepareUrl, PrepareUpload, DraftText, DraftCopy, DraftFile,
          RefuseFile, Extract, Insert
<1>5. ASSUME NEW h \in Handlers, ChangeStep(h)
      PROVE  PatchOfField(u, f)
  <2>1. SavePrefs(h) \/ \E v \in Users : CloseAccount(h, v)
        BY <1>1, <1>5 DEF ChangeStep, LoadForUpdate, LoadPrefs, LoadForDelete, SaveUpdate, CloseLogin
  <2>2. ASSUME NEW v \in Users, CloseAccount(h, v)
        PROVE  FALSE
        BY <1>1, <2>2 DEF CloseAccount
  <2>3. QED
        BY <1>2, <2>1, <2>2
<1>6. ASSUME NEW t \in Tasks, DeleteStep(t)
      PROVE  FALSE
  <2>1. CommitDelete(t)
        BY <1>1, <1>6 DEF DeleteStep, DeleteRows, PurgeImages
  <2>2. prefs'[u] = NoValue \/ prefs'[u] = prefs[u]
        BY <2>1 DEF CommitDelete
  <2>3. QED
        BY <2>2
<1>7. ASSUME CleanupStep, ~DeleteStep(Cleanup)
      PROVE  FALSE
  <2>1. PurgeOrphans
        BY <1>1, <1>7 DEF CleanupStep, ListInactive, LoadGuestDocs, ListOrphans
  <2>2. QED
        BY <1>3, <2>1 DEF PurgeOrphans
<1>8. ASSUME \/ \E v \in Users, d \in Ids : Play(v, d)
             \/ \E g \in Guests, v \in Accounts : Claim(g, v)
             \/ \E d \in Ids : Age(d)
             \/ \E t \in Tasks : TaskFails(t)
             \/ \E key \in DOMAIN fileCache : EvictFile(key)
             \/ Crash \/ UNCHANGED vars
      PROVE  FALSE
      BY <1>1, <1>8 DEF Play, Claim, Age, TaskFails, EvictFile, Crash, vars
<1>9. Handlers \subseteq Tasks /\ Cleanup \in Tasks
      BY DEF Tasks
<1>10. QED
       BY <1>4, <1>5, <1>6, <1>7, <1>8, <1>9 DEF Next

\* Whoever else writes the preferences in between, a step changes the field it was asked
\* to change and no other (PATCH /me/preferences writes the column that differs).
THEOREM FieldsMerge == Spec => OneFieldAtATime
<1>1. LibraryKept => Typed
      BY DEF LibraryKept
<1>2. ASSUME Typed, [Next]_vars
      PROVE  \A u \in Users : prefs[u] # NoValue /\ prefs'[u] # NoValue =>
                \A f \in Fields : prefs'[u][f] # prefs[u][f] =>
                    \E h \in Handlers : task[h].pc = "patching" /\ task[h].field = f /\ task'[h] = Idle
      BY <1>2, OneFieldStep DEF PatchOfField
<1>3. QED
      BY LibraryInvariant, <1>1, <1>2, PTL DEF Spec, OneFieldAtATime
===============================================================================
