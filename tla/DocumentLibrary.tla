-------------------------- MODULE DocumentLibrary --------------------------
(***************************************************************************)
(* Who has which document: creation from text, websites and uploads,       *)
(* sharing, import, playback positions, deletion with the images of the    *)
(* content, preferences, guests who sign up, accounts that close, and the  *)
(* daily pass that purges inactive guests                                  *)
(* (yapit/gateway/api/v1/documents.py, users.py, gateway/__init__.py).     *)
(*                                                                         *)
(* A task is a request or the cleanup pass: a coroutine that runs between  *)
(* its awaits. Rows a task has deleted and not committed are still there   *)
(* for the others, who wait when they write them. How an extraction comes  *)
(* by its pages and images is the subject of Extraction.                   *)
(***************************************************************************)
EXTENDS Naturals, FiniteSets

CONSTANTS
    Guests, Accounts,
    Handlers,        \* requests served at a time
    Contents,        \* bytes a user may upload
    Urls,            \* what is passed as a source URL
    Limit,           \* documents a user may store: MAX_STORAGE_GUEST, _FREE, _PAID
    NoValue,
    MaxDocs, MaxRequests,
    MaxEvents        \* bound on crashes, failed calls and evictions

ASSUME LibraryAssumption ==
    /\ Guests \cap Accounts = {} /\ NoValue \notin Guests \cup Accounts
    /\ Handlers # {} /\ IsFiniteSet(Handlers) /\ "cleanup" \notin Handlers
    /\ Limit \in [Guests \cup Accounts -> Nat]
    /\ {MaxDocs, MaxRequests, MaxEvents} \subseteq Nat

VARIABLES
    docs,        \* the document table, by the order of creation; Gone once deleted
    prefs,       \* UserPreferences by user, or NoValue
    fileCache,   \* what /prepare has stored, by cache key
    images,      \* contents with a directory of images
    accounts,    \* accounts that Stack Auth knows
    task,        \* the request handlers and the cleanup pass
    requests, events

vars == <<docs, prefs, fileCache, images, accounts, task, requests, events>>

Users == Guests \cup Accounts
Cleanup == "cleanup"
Tasks == Handlers \cup {Cleanup}
Fields == {"default_documents_public", "pinned_voices"}
NoPrefs == [f \in Fields |-> FALSE]
Gone == [owner |-> NoValue]
Idle == [pc |-> "idle"]

Ids == DOMAIN docs
Live == {d \in Ids : docs[d] # Gone}
OwnedBy(users) == {d \in Live : docs[d].owner \in users}

Init ==
    /\ docs = <<>> /\ prefs = [u \in Users |-> NoValue]
    /\ fileCache = <<>> /\ images = {} /\ accounts = Accounts
    /\ task = [t \in Tasks |-> Idle]
    /\ requests = 0 /\ events = 0

Event == events < MaxEvents /\ events' = events + 1

\* A request of a user that authenticate() lets in; the handlers are alike
Request(h, u, next) ==
    /\ task[h] = Idle /\ h = CHOOSE k \in Handlers : task[k] = Idle
    /\ u \in Guests \cup accounts
    /\ requests < MaxRequests /\ requests' = requests + 1
    /\ task' = [task EXCEPT ![h] = next]

Goto(t, next) == task' = [task EXCEPT ![t] = next]

\* Rows deleted by a transaction that is still open
Deleting(t) == IF task[t].pc = "deleted" THEN task[t].rows ELSE {}
Locked(d) == \E t \in Tasks : d \in Deleting(t)

-----------------------------------------------------------------------------
(* /prepare and /prepare/upload                                            *)

\* A URL stands for what _detect_arxiv_id makes of it
UrlKey(url) == <<"url", url>>

\* The same bytes from two sources are two documents.
UploadKey(content, source) == <<"upload", content, source>>

Stored(key, entry) == [k \in DOMAIN fileCache \cup {key} |->
                          IF k \in DOMAIN fileCache THEN fileCache[k] ELSE entry]

\* A miss downloads the URL, or keeps the upload, under the key; a hit is what was kept.
\* Here a URL is a website: a file behind one is made as an upload with that source is.
PrepareUrl(h, u, url) ==
    /\ Request(h, u, [pc |-> "prepared", user |-> u, key |-> UrlKey(url), wanted |-> url])
    /\ fileCache' = Stored(UrlKey(url), [content |-> NoValue, source |-> url])
    /\ UNCHANGED <<docs, prefs, images, accounts, events>>

PrepareUpload(h, u, content, source) ==
    /\ Request(h, u, [pc |-> "prepared", user |-> u, key |-> UploadKey(content, source),
                      wanted |-> source])
    /\ fileCache' = Stored(UploadKey(content, source), [content |-> content, source |-> source])
    /\ UNCHANGED <<docs, prefs, images, accounts, events>>

\* The document cache is an LRU cache with a size limit
EvictFile(key) ==
    /\ key \in DOMAIN fileCache /\ Event
    /\ fileCache' = [k \in DOMAIN fileCache \ {key} |-> fileCache[k]]
    /\ UNCHANGED <<docs, prefs, images, accounts, task, requests>>

-----------------------------------------------------------------------------
(* Creation: /text, /website, /document and /{id}/import                   *)

Usage(u) == Cardinality(OwnedBy({u}))

\* Mutant of HasRoom: the limit itself is let through
HasRoomAtLimit(u) == Usage(u) <= Limit[u]

\* check_storage_limit
HasRoom(u) == Usage(u) < Limit[u]

Draft(u, public, content, source) ==
    [owner |-> u, public |-> public, content |-> content, shows |-> content, source |-> source,
     created |-> "recent", played |-> "never",
     \* read by the properties only
     maker |-> u, wanted |-> source, consent |-> public, spoiled |-> FALSE]

DefaultPublic(u) == prefs[u] # NoValue /\ prefs[u]["default_documents_public"]

\* The storage check, the preferences and the prepared file are read in a row, here in
\* one step; the document is made later, from what was read.
DraftText(h, u) ==
    /\ HasRoom(u)
    /\ Request(h, u, [pc |-> "drafted", draft |-> Draft(u, DefaultPublic(u), NoValue, NoValue)])
    /\ UNCHANGED <<docs, prefs, fileCache, images, accounts, events>>

DraftFile(h) ==
    LET r == task[h]
        entry == fileCache[r.key]
        draft == Draft(r.user, DefaultPublic(r.user), entry.content, entry.source)
    IN
    /\ r.pc = "prepared" /\ r.key \in DOMAIN fileCache /\ HasRoom(r.user)
    /\ Goto(h, [pc |-> IF entry.content = NoValue THEN "drafted" ELSE "extracting",
                draft |-> [draft EXCEPT !.wanted = r.wanted]])
    /\ UNCHANGED <<docs, prefs, fileCache, images, accounts, requests, events>>

\* 403: the limit is reached; 404: the prepared file has been evicted
RefuseFile(h) ==
    /\ task[h].pc = "prepared"
    /\ task[h].key \notin DOMAIN fileCache \/ ~HasRoom(task[h].user)
    /\ Goto(h, Idle)
    /\ UNCHANGED <<docs, prefs, fileCache, images, accounts, requests, events>>

\* The extraction stores the figures of the content
Extract(h) ==
    /\ task[h].pc = "extracting"
    /\ images' = images \cup {task[h].draft.content}
    /\ Goto(h, [task[h] EXCEPT !.pc = "drafted"])
    /\ UNCHANGED <<docs, prefs, fileCache, accounts, requests, events>>

\* A copy is private, and does not know the content its images are stored under
Copy(u, d) == [docs[d] EXCEPT !.owner = u, !.public = FALSE, !.content = NoValue,
                              !.created = "recent", !.played = "never",
                              !.maker = u, !.consent = FALSE]

DraftCopy(h, u, d) ==
    /\ HasRoom(u) /\ d \in Live /\ docs[d].public
    /\ Request(h, u, [pc |-> "drafted", draft |-> Copy(u, d)])
    /\ UNCHANGED <<docs, prefs, fileCache, images, accounts, events>>

Insert(h) ==
    /\ task[h].pc = "drafted" /\ Cardinality(Ids) < MaxDocs
    /\ docs' = [d \in 1 .. Cardinality(Ids) + 1 |->
                   IF d \in Ids THEN docs[d] ELSE task[h].draft]
    /\ Goto(h, Idle)
    /\ UNCHANGED <<prefs, fileCache, images, accounts, requests, events>>

-----------------------------------------------------------------------------
(* Changes: sharing, positions, claims                                     *)

\* get_doc of PATCH /{id}: only the owner gets a document to change
LoadForUpdate(h, u, d, public) ==
    /\ d \in OwnedBy({u})
    /\ Request(h, u, [pc |-> "sharing", user |-> u, doc |-> d, old |-> docs[d].public, new |-> public])
    /\ UNCHANGED <<docs, prefs, fileCache, images, accounts, events>>

\* The UPDATE has the columns that differ from what was loaded; a row that is gone is an error
SaveUpdate(h) ==
    LET r == task[h] IN
    /\ r.pc = "sharing" /\ ~Locked(r.doc)
    /\ docs' = IF r.doc \in Live /\ r.new # r.old
                 THEN [docs EXCEPT ![r.doc].public = r.new, ![r.doc].consent = r.new] ELSE docs
    /\ Goto(h, Idle)
    /\ UNCHANGED <<prefs, fileCache, images, accounts, requests, events>>

\* PATCH /{id}/position with playing: one UPDATE of a row of the user's own
Play(u, d) ==
    /\ u \in Guests \cup accounts /\ d \in OwnedBy({u}) /\ ~Locked(d)
    /\ requests < MaxRequests /\ requests' = requests + 1
    /\ docs' = [docs EXCEPT ![d].played = "recent"]
    /\ UNCHANGED <<prefs, fileCache, images, accounts, task, events>>

\* POST /claim-anonymous: one UPDATE of all rows of the guest
Claim(g, u) ==
    /\ u \in accounts /\ OwnedBy({g}) # {} /\ \A d \in OwnedBy({g}) : ~Locked(d)
    /\ requests < MaxRequests /\ requests' = requests + 1
    /\ docs' = [d \in Ids |-> IF d \in OwnedBy({g}) THEN [docs[d] EXCEPT !.owner = u] ELSE docs[d]]
    /\ UNCHANGED <<prefs, fileCache, images, accounts, task, events>>

\* 30 days pass (GUEST_DOC_TTL_DAYS)
Age(d) ==
    /\ d \in Live
    /\ docs' = [docs EXCEPT ![d].created = "old",
                            ![d].played = IF @ = "recent" THEN "old" ELSE @]
    /\ docs' # docs
    /\ UNCHANGED <<prefs, fileCache, images, accounts, task, requests, events>>

-----------------------------------------------------------------------------
(* Deletion: DELETE /{id}, /bulk and the cleanup pass                      *)

HashesOf(rows) == {docs[d].content : d \in rows} \ {NoValue}

LoadForDelete(h, u, rows) ==
    /\ rows # {} /\ rows \subseteq OwnedBy({u})
    /\ Request(h, u, [pc |-> "deleting", user |-> u, rows |-> rows, hashes |-> HashesOf(rows),
                      asof |-> 0])
    /\ UNCHANGED <<docs, prefs, fileCache, images, accounts, events>>

\* Mutant of StillReferenced: only the documents of the owners are looked at
StillReferencedByOwner(rows) ==
    {docs[d].content : d \in {e \in Live \ rows : \E r \in rows \cap Live : docs[e].owner = docs[r].owner}}

\* The contents of the rows that the transaction sees after its own deletions
StillReferenced(rows) == {docs[d].content : d \in Live \ rows}

\* delete_documents_with_images: DELETE and flush, then the contents nobody refers to any more.
\* What another task commits between the two could as well come before both.
DeleteRows(t) ==
    LET r == task[t] IN
    /\ r.pc = "deleting" /\ \A d \in r.rows : ~Locked(d)
    /\ Goto(t, [r EXCEPT !.pc = "deleted", !.rows = @ \cap Live,
                         !.hashes = @ \ StillReferenced(r.rows), !.asof = Cardinality(Ids)])
    /\ UNCHANGED <<docs, prefs, fileCache, images, accounts, requests, events>>

\* A document that was inserted after t asked who refers to the content
Overtaken(t, d, c) == d > task[t].asof /\ d \in Live /\ docs[d].content = c

\* image_storage.delete_all, before the caller commits
PurgeImages(t) ==
    /\ task[t].pc = "deleted"
    /\ \E c \in task[t].hashes :
        /\ images' = images \ {c}
        /\ docs' = [d \in Ids |-> IF Overtaken(t, d, c) THEN [docs[d] EXCEPT !.spoiled = TRUE] ELSE docs[d]]
        /\ task' = [h \in Tasks |->
                       CASE h = t -> [task[t] EXCEPT !.hashes = @ \ {c}]
                         [] h # t /\ task[h].pc = "drafted" /\ task[h].draft.content = c
                              -> [task[h] EXCEPT !.draft.spoiled = TRUE]
                         [] OTHER -> task[h]]
        /\ UNCHANGED <<prefs, fileCache, accounts, requests, events>>

Removed(rows) == [d \in Ids |-> IF d \in rows THEN Gone ELSE docs[d]]

\* The caller commits; the cleanup pass has deleted the preferences of its guests before
CommitDelete(t) ==
    LET r == task[t] IN
    /\ r.pc = "deleted" /\ r.hashes = {}
    /\ docs' = Removed(r.rows)
    /\ prefs' = [u \in Users |-> IF t = Cleanup /\ u \in r.users THEN NoValue ELSE prefs[u]]
    /\ Goto(t, IF t = Cleanup THEN [pc |-> "sweep"] ELSE Idle)
    /\ UNCHANGED <<fileCache, images, accounts, requests, events>>

\* What a transaction that does not commit has done to the documents it was deleting
RolledBack(t) ==
    [d \in Ids |-> IF d \in Deleting(t) /\ docs[d].content \notin images \cup {NoValue}
                     THEN [docs[d] EXCEPT !.spoiled = TRUE] ELSE docs[d]]

\* A call of a deletion fails and its session is closed without a commit; what fails
\* earlier leaves nothing behind
TaskFails(t) ==
    /\ Event
    /\ task[t].pc = "deleted"
    /\ docs' = RolledBack(t)
    /\ Goto(t, Idle)
    /\ UNCHANGED <<prefs, fileCache, images, accounts, requests>>

-----------------------------------------------------------------------------
(* _guest_cleanup_task                                                     *)

\* coalesce(last_played_at, created)
LastActive(d) == IF docs[d].played = "never" THEN docs[d].created ELSE docs[d].played

\* Mutant of InactiveGuests: only what was played counts
GuestsOncePlayed == {g \in Guests : /\ \E d \in OwnedBy({g}) : docs[d].played # "never"
                                    /\ \A d \in OwnedBy({g}) : docs[d].played # "recent"}

\* Guests whose most recent activity is older than the cutoff
InactiveGuests == {g \in Guests : OwnedBy({g}) # {} /\ \A d \in OwnedBy({g}) : LastActive(d) = "old"}

ListInactive ==
    /\ task[Cleanup] = Idle /\ InactiveGuests # {}
    /\ Goto(Cleanup, [pc |-> "listed", users |-> InactiveGuests,
                      recent |-> {d \in Live : LastActive(d) = "recent"}])
    /\ UNCHANGED <<docs, prefs, fileCache, images, accounts, requests, events>>

LoadGuestDocs ==
    LET r == task[Cleanup]  rows == OwnedBy(r.users) IN
    /\ r.pc = "listed"
    /\ Goto(Cleanup, [pc |-> "deleting", user |-> NoValue, users |-> r.users, recent |-> r.recent,
                      rows |-> rows, hashes |-> HashesOf(rows),
                      asof |-> 0])
    /\ UNCHANGED <<docs, prefs, fileCache, images, accounts, requests, events>>

Orphans == {g \in Guests : prefs[g] # NoValue /\ OwnedBy({g}) = {}}

\* Then, or when nobody is inactive, guests with preferences and no documents
ListOrphans ==
    /\ task[Cleanup].pc = "sweep" \/ (task[Cleanup] = Idle /\ InactiveGuests = {} /\ Orphans # {})
    /\ Goto(Cleanup, [pc |-> "orphans", users |-> Orphans])
    /\ UNCHANGED <<docs, prefs, fileCache, images, accounts, requests, events>>

PurgeOrphans ==
    /\ task[Cleanup].pc = "orphans"
    /\ prefs' = [u \in Users |-> IF u \in task[Cleanup].users THEN NoValue ELSE prefs[u]]
    /\ Goto(Cleanup, Idle)
    /\ UNCHANGED <<docs, fileCache, images, accounts, requests, events>>

-----------------------------------------------------------------------------
(* Preferences and accounts                                                *)

\* PATCH /me/preferences with one field
LoadPrefs(h, u, f, value) ==
    /\ Request(h, u, [pc |-> "patching", user |-> u, field |-> f, old |-> prefs[u], new |-> value])
    /\ UNCHANGED <<docs, prefs, fileCache, images, accounts, events>>

\* The UPDATE has the column that differs from what was loaded
Patched(row, r) == IF r.new = r.old[r.field] THEN row ELSE [row EXCEPT ![r.field] = r.new]

\* An INSERT beside another one, and an UPDATE of a row that is gone, are errors
SavePrefs(h) ==
    LET r == task[h]
        row == prefs[r.user]
    IN
    /\ r.pc = "patching"
    /\ prefs' = CASE r.old = NoValue /\ row = NoValue -> [prefs EXCEPT ![r.user] = [NoPrefs EXCEPT ![r.field] = r.new]]
                  [] r.old # NoValue /\ row # NoValue -> [prefs EXCEPT ![r.user] = Patched(row, r)]
                  [] OTHER -> prefs
    /\ Goto(h, Idle)
    /\ UNCHANGED <<docs, fileCache, images, accounts, requests, events>>

\* DELETE /me: documents and preferences in one transaction (billing: see Subscription)
CloseAccount(h, u) ==
    /\ u \in accounts /\ \A d \in OwnedBy({u}) : ~Locked(d)
    /\ Request(h, u, [pc |-> "closing", user |-> u])
    /\ docs' = Removed(OwnedBy({u}))
    /\ prefs' = [prefs EXCEPT ![u] = NoValue]
    /\ UNCHANGED <<fileCache, images, accounts, events>>

\* Then Stack Auth forgets the user; its failure is swallowed
CloseLogin(h) ==
    /\ task[h].pc = "closing"
    /\ accounts' \in {accounts \ {task[h].user}, accounts}
    /\ Goto(h, Idle)
    /\ UNCHANGED <<docs, prefs, fileCache, images, requests, events>>

\* The gateway stops: open transactions are rolled back, requests are dropped
Crash ==
    /\ Event /\ \E t \in Tasks : Deleting(t) # {}
    /\ docs' = [d \in Ids |-> IF Locked(d) THEN RolledBack(CHOOSE t \in Tasks : d \in Deleting(t))[d] ELSE docs[d]]
    /\ task' = [t \in Tasks |-> Idle]
    /\ UNCHANGED <<prefs, fileCache, images, accounts, requests>>

-----------------------------------------------------------------------------
(* The specification                                                       *)

CreateStep(h) ==
    \/ \E u \in Users : \/ DraftText(h, u)
                        \/ \E url \in Urls : PrepareUrl(h, u, url)
                        \/ \E c \in Contents, s \in Urls \cup {NoValue} : PrepareUpload(h, u, c, s)
                        \/ \E d \in Ids : DraftCopy(h, u, d)
    \/ DraftFile(h) \/ RefuseFile(h) \/ Extract(h) \/ Insert(h)

ChangeStep(h) ==
    \/ \E u \in Users : \/ \E d \in Ids, public \in BOOLEAN : LoadForUpdate(h, u, d, public)
                        \/ \E f \in Fields, value \in BOOLEAN : LoadPrefs(h, u, f, value)
                        \/ \E rows \in SUBSET Ids : LoadForDelete(h, u, rows)
                        \/ CloseAccount(h, u)
    \/ SaveUpdate(h) \/ SavePrefs(h) \/ CloseLogin(h)

DeleteStep(t) == DeleteRows(t) \/ PurgeImages(t) \/ CommitDelete(t)

CleanupStep ==
    ListInactive \/ LoadGuestDocs \/ DeleteStep(Cleanup) \/ ListOrphans \/ PurgeOrphans

Next ==
    \/ \E h \in Handlers : CreateStep(h) \/ ChangeStep(h) \/ DeleteStep(h)
    \/ CleanupStep
    \/ \E u \in Users, d \in Ids : Play(u, d)
    \/ \E g \in Guests, u \in Accounts : Claim(g, u)
    \/ \E d \in Ids : Age(d)
    \/ \E t \in Tasks : TaskFails(t)
    \/ \E key \in DOMAIN fileCache : EvictFile(key)
    \/ Crash

\* The daily pass comes, and deletions go on
Fairness == WF_vars(CleanupStep) /\ WF_vars(\E h \in Handlers : DeleteStep(h))

Spec == Init /\ [][Next]_vars /\ Fairness

-----------------------------------------------------------------------------
(* Properties                                                              *)

DocTypeOK(d) ==
    /\ d.owner \in Users /\ d.maker \in Users
    /\ d.public \in BOOLEAN /\ d.consent \in BOOLEAN /\ d.spoiled \in BOOLEAN
    /\ d.content \in Contents \cup {NoValue} /\ d.shows \in Contents \cup {NoValue}
    /\ d.source \in Urls \cup {NoValue}
    /\ d.created \in {"recent", "old"} /\ d.played \in {"never", "recent", "old"}

\* The shape of the tables; a row is deleted by at most one open transaction
TypeOK ==
    /\ \A d \in Live : DocTypeOK(docs[d])
    /\ \A u \in Users : prefs[u] \in [Fields -> BOOLEAN] \cup {NoValue}
    /\ images \subseteq Contents /\ accounts \subseteq Accounts
    /\ \A t, s \in Tasks : t # s => Deleting(t) \cap Deleting(s) = {}

\* The documents a request is making
Making(u) == {h \in Handlers : task[h].pc \in {"extracting", "drafted"} /\ task[h].draft.owner = u}

\* check_storage_limit runs long before the INSERT: what a user has made and is making
\* exceeds the limit by no more than the requests that are served at once.
StorageBounded ==
    \A u \in Users :
        Cardinality({d \in OwnedBy({u}) : docs[d].maker = u}) + Cardinality(Making(u))
            < Limit[u] + Cardinality(Handlers)

\* A document is public only if its owner made it so, or had new documents public
\* when it was asked for: not because the one it was imported from is.
PublicByConsent == \A d \in Live : docs[d].public => docs[d].consent

\* "The same bytes from two sources are two documents" (documents.py:542): each has the
\* source its own uploader gave, whoever uploaded the bytes first.
SourceKept == \A d \in Live : docs[d].source = docs[d].wanted

\* A document that knows its content has its images, unless they were deleted while
\* it was being made, or by a deletion that did not commit.
ImagesServed ==
    \A d \in Live : docs[d].content \notin images \cup {NoValue} =>
        docs[d].spoiled \/ \E t \in Tasks : d \in Deleting(t)

\* The cleanup pass removes only what a guest made, and nothing that had been used
\* within the TTL when the pass looked, whatever was played or claimed since.
CleanupSpares ==
    [][\A d \in Live \cap Deleting(Cleanup) : docs'[d] = Gone =>
          docs[d].maker \in Guests /\ d \notin task[Cleanup].recent]_vars

\* Two tabs that change different preferences keep both changes.
OneFieldAtATime ==
    [][\A u \in Users : prefs[u] # NoValue /\ prefs'[u] # NoValue =>
          \A f \in Fields : prefs'[u][f] # prefs[u][f] =>
              \E h \in Handlers : task[h].pc = "patching" /\ task[h].field = f /\ task'[h] = Idle]_vars

\* A guest who neither makes nor plays documents does not keep them for ever.
GuestsPurged ==
    \A g \in Guests : []<>(\/ OwnedBy({g}) = {}
                           \/ \E d \in OwnedBy({g}) : "recent" \in {docs[d].created, docs[d].played})

\* What overlapping requests of a user, and of different users, cannot spoil: the
\* storage limit, the owner's say over what is public, the source of an upload.
LibraryInv == TypeOK /\ StorageBounded /\ PublicByConsent /\ SourceKept

\* What one user and the cleanup pass may do to the rows of another: the pass takes
\* what is unused, all of it in the end; two tabs merge their preferences.
RowsOutlive == CleanupSpares /\ OneFieldAtATime /\ GuestsPurged
=============================================================================
