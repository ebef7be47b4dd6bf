----------------------------- MODULE WebImport ------------------------------
(* Importing a list of messages into `tdl web` (app/web/import.go, meta.go and *)
(* the parts of download.go and server.go that keep its records): the items,  *)
(* the resume record in the key-value store, the meta cache on disk, and the  *)
(* downloads that go on while the list is replaced.  Run's own import and that *)
(* of a request may go on at once: only requests look whether one goes on.     *)
(*                                                                            *)
(* A message is a number.  The fingerprint of a list is the list itself, and  *)
(* an item id <<fingerprint, index, position>>: the code hashes just these.   *)
(* Which download gets a slot and when is DownloadScheduler's subject: here   *)
(* any queued item may start.                                                 *)
EXTENDS Naturals, Sequences, FiniteSets, SeqKeep

CONSTANTS
    Exports, Urls,    \* the lists of messages an export and a link give
    Ranges,           \* the --type/--from/--to filters in use
    Videos, Texts,    \* messages that are videos, that have no media
    Date,             \* the date of a message, 0 when it has none
    Jobs,             \* goroutines that download, or save after a request
    Importers, Run,   \* goroutines that import, that of Run among them
    None,
    Continue, SkipSame, RefreshMeta,  \* the options of these names
    MaxImports, MaxActs   \* bounds on the imports, on what users do besides

VARIABLES
    items,        \* s.items: id -> [st, manual, auto]
    fingerprint, finished, importing, importTotal,   \* of s
    downloading,  \* s.downloading
    cancels,      \* s.cancels: the ids of which a job can be canceled
    queue,        \* dlPending
    importer,     \* import goroutine -> what it is doing
    jobs,         \* job -> what it is doing
    kv,           \* the resume records: fingerprint -> positions
    meta,         \* the meta cache: fingerprint -> what was saved, or None
    file, tmp,    \* messages whose target, whose partial file is there
    got,          \* messages that have been downloaded at some time
    imports, acts, \* imports, and acts of users and crashes, so far
    mixed         \* history: have two imports met? (Only the properties read it.)

importVars == <<items, fingerprint, finished, importing, importTotal, downloading,
                cancels, queue, importer, jobs, kv, meta, file, tmp, got, imports, acts, mixed>>

InRange(m, r) ==
    \/ r.type = "none"
    \/ r.type = "id" /\ m \in r.from .. r.to
    \/ r.type = "time" /\ (Date[m] = 0 \/ Date[m] \in r.from .. r.to)

\* Bounds given the wrong way round are swapped.
Ordered(r) == IF r.from > r.to THEN [r EXCEPT !.from = r.to, !.to = r.from] ELSE r

Filtered(list, r) ==
    Keep(list, {list[i] : i \in {k \in DOMAIN list : InRange(list[k], Ordered(r))}})

Lists == {Filtered(l, r) : l \in Exports \cup Urls, r \in Ranges}
Messages == UNION {{l[i] : i \in DOMAIN l} : l \in Lists}

\* A message is a number, no list is None, and one of the importers is Run's.
ASSUME ImportAssumption ==
    Exports \cup Urls \subseteq Seq(Nat) /\ None \notin Lists /\ Run \in Importers

\* Of an id: the list, the place in it, and the logical position.
IsId(id) == id \in Lists \X Nat \X Nat /\ id[2] \in DOMAIN id[1]

Message(id) == id[1][id[2]]
Position(id) == id[3]
IdleJob == [at |-> "idle", id |-> None, res |-> None, snap |-> None]
IdleImport == [at |-> "idle", list |-> <<>>, url |-> <<>>, loaded |-> {}, i |-> 0,
               base |-> 0, cached |-> None, fin |-> None, snap |-> None]

\* Run's import waits for the login, if there is one at all.
FirstImporters == [i \in Importers |-> IF i = Run THEN [IdleImport EXCEPT !.at = "down"] ELSE IdleImport]

ImportInit ==
    /\ items = <<>> /\ fingerprint = None /\ finished = {} /\ importing = FALSE
    /\ importTotal = 0 /\ downloading = {} /\ cancels = {} /\ queue = {}
    /\ importer = FirstImporters /\ jobs = [j \in Jobs |-> IdleJob]
    /\ kv = [l \in Lists |-> {}] /\ meta = [l \in Lists |-> None]
    /\ file = {} /\ tmp = {} /\ got = {} /\ imports = 0 /\ acts = 0 /\ mixed = FALSE

-----------------------------------------------------------------------------
(* What is saved. *)
AllDone == items # <<>> /\ \A id \in DOMAIN items : items[id].st = "completed"

\* saveFinishedOrClear: what is stored, read under the lock; {} is a deleted record.
FinishedSnapshot == [fp |-> fingerprint, fin |-> IF AllDone THEN {} ELSE finished]

Expected == IF importTotal = 0 THEN Cardinality(DOMAIN items) ELSE importTotal
MetaWanted == ~importing /\ fingerprint # None /\ Cardinality(DOMAIN items) = Expected

\* saveMetaCache: of a status only error and paused are restored.
Saved(it) == [it EXCEPT !.st = IF @ \in {"error", "paused"} THEN @ ELSE "queued"]
MetaSnapshot == [fp |-> fingerprint, total |-> Expected,
                 items |-> [id \in DOMAIN items |-> Saved(items[id])]]

\* Mutation: the number of messages in the list is not compared.
LoadMetaCache_AnyTotal(l) == meta[l] # None /\ ~RefreshMeta /\ meta[l].items # <<>>

(* loadMetaCache: is there a cache of this list that is complete? *)
LoadMetaCache(l) ==
    /\ ~RefreshMeta /\ meta[l] # None
    /\ meta[l].total = Len(l) /\ Cardinality(DOMAIN meta[l].items) = Len(l)
    /\ meta[l].total > 0

(* loadFinished: only with --continue *)
LoadFinished(l) == IF Continue THEN kv[l] ELSE {}

(* applyDiskProgress *)
DiskStatus(m, st) ==
    IF m \in file THEN "completed" ELSE IF m \in tmp THEN "paused" ELSE st

\* The status an item starts with: from the record, the file, or the cache.
StatusOf(id, fin, st) ==
    IF Message(id) \in Texts \/ Position(id) \in fin THEN "completed"
    ELSE IF SkipSame /\ Message(id) \in file THEN "completed"
    ELSE IF st = "error" THEN "error" ELSE DiskStatus(Message(id), st)

\* The positions that are finished because the file is there already.
SkipSamePositions(ids) ==
    IF SkipSame THEN {Position(id) : id \in {x \in ids : Message(x) \in file \ Texts}} ELSE {}

\* The cached items with the status they have now.
Restored(cached, fin) ==
    [id \in DOMAIN cached |-> [cached[id] EXCEPT !.st = StatusOf(id, fin, @),
                                               !.auto = Message(id) \notin Texts]]

IdsOf(l) == {<<l, i, i>> : i \in DOMAIN l}

NotWanted(id) == items[id].st \in {"completed", "error"} \/ items[id].manual \/ ~items[id].auto

\* resumePausedIfContinue and enqueueVideoDownloads
ToQueue ==
    {id \in DOMAIN items :
        /\ ~NotWanted(id) /\ id \notin downloading
        /\ \/ Message(id) \in Videos
           \/ Continue /\ (items[id].st = "paused" \/ Message(id) \in tmp)}

-----------------------------------------------------------------------------
(* The import goroutines. *)
UnchangedJobs == UNCHANGED <<jobs, cancels, meta, file, tmp, got, acts>>

Working(i) == importer[i].at \notin {"down", "idle"}

\* What importer becomes when i goes on as r says.
Goes(i, r) == [importer EXCEPT ![i] = r]

\* Goroutine i begins, with a list, a link or a page of a chat.
Begin(i, at, list, url) ==
    /\ importing' = TRUE
    /\ importer' = Goes(i, [IdleImport EXCEPT !.at = at, !.list = list, !.url = url])
    /\ mixed' = (mixed \/ \E k \in Importers \ {i} : Working(k))

Start(i, list, url) ==
    /\ Begin(i, IF list # <<>> THEN "parse" ELSE "url", list, url)
    /\ imports' = imports + 1

(* Run: the exports and links of the command line, once the user is logged in. *)
(* setImporting(true) does not look whether a request is importing already.    *)
Launch(i) ==
    /\ i = Run /\ importer[i].at = "down"
    /\ \E r \in Ranges, f \in Exports \cup {<<>>}, u \in Urls \cup {<<>>} :
          LET list == Filtered(f, r)  url == Filtered(u, r) IN
          IF list = <<>> /\ url = <<>>
          THEN importer' = Goes(i, IdleImport) /\ UNCHANGED <<importing, imports, mixed>>
          ELSE imports < MaxImports /\ Start(i, list, url)
    /\ UnchangedJobs
    /\ UNCHANGED <<items, fingerprint, finished, importTotal, downloading, queue, kv>>

(* handleImport: refused while s.importing is set *)
HandleImport(i) ==
    /\ importer[i].at = "idle" /\ ~importing /\ imports < MaxImports
    /\ \E r \in Ranges, f \in Exports : Filtered(f, r) # <<>> /\ Start(i, Filtered(f, r), <<>>)
    /\ UnchangedJobs
    /\ UNCHANGED <<items, fingerprint, finished, importTotal, downloading, queue, kv>>

(* handleSelectChat and handleMoreChat set s.importing, too, *)
LoadChat(i) ==
    /\ importer[i].at = "idle" /\ ~importing /\ acts < MaxActs /\ acts' = acts + 1
    /\ Begin(i, "chat", <<>>, <<>>)
    /\ UNCHANGED <<items, fingerprint, finished, importTotal, downloading, cancels, queue, jobs, kv,
                   meta, file, tmp, got, imports>>

(* ... and loadChatPage (ChatPaging) counts the chat's items where an import   *)
(* counts its, unless it fails.                                                *)
ChatPageLoaded(i) ==
    /\ importer[i].at = "chat" /\ importTotal' \in 0 .. Cardinality(Messages) \cup {importTotal}
    /\ importing' = FALSE /\ importer' = Goes(i, IdleImport)
    /\ UnchangedJobs
    /\ UNCHANGED <<items, fingerprint, finished, downloading, queue, kv, imports, mixed>>

(* setImporting(false): also on every error on the way *)
SetImportingFalse(i) ==
    /\ importing' = FALSE /\ importer' = Goes(i, IdleImport)
    /\ UnchangedJobs
    /\ UNCHANGED <<items, fingerprint, finished, importTotal, downloading, queue, kv, imports, mixed>>

ImportFails(i) ==
    importer[i].at \in {"parse", "build", "url", "fetch"} /\ SetImportingFalse(i)
ImportEnds(i) == importer[i].at = "done" /\ SetImportingFalse(i)

(* importFromJSONFiles: read and filter the export, loadFinished *)
Parse(i) ==
    /\ importer[i].at = "parse"
    /\ importer' = Goes(i, [importer[i] EXCEPT !.at = "reset",
                                               !.loaded = LoadFinished(importer[i].list)])
    /\ UnchangedJobs
    /\ UNCHANGED <<items, fingerprint, finished, importing, importTotal, downloading,
                   queue, kv, imports, mixed>>

\* Mutation: the positions of the list before stay.
ResetImportState_KeepFinished(l, loaded) ==
    /\ items' = <<>> /\ fingerprint' = l /\ finished' = finished \cup loaded
    /\ importTotal' = Len(l) /\ downloading' = {}

ResetImportState(l, loaded) ==
    /\ items' = <<>> /\ fingerprint' = l /\ finished' = loaded
    /\ importTotal' = Len(l) /\ downloading' = {}

\* Another map becomes s.finished: a scan that holds the old one keeps it.
KeepMaps(f) ==
    [k \in Importers |-> IF f[k].at = "publish" /\ f[k].fin = None
                         THEN [f[k] EXCEPT !.fin = finished] ELSE f[k]]

Reset(i) ==
    /\ importer[i].at = "reset"
    /\ ResetImportState(importer[i].list, importer[i].loaded)
    /\ importer' = KeepMaps(Goes(i, [importer[i] EXCEPT !.at = "cache", !.loaded = {}]))
    /\ UnchangedJobs /\ UNCHANGED <<importing, queue, kv, imports, mixed>>

TakeCache(i) ==
    /\ importer[i].at = "cache"
    /\ LET l == importer[i].list IN
       importer' = Goes(i, IF LoadMetaCache(l)
                           THEN [importer[i] EXCEPT !.at = "scan", !.cached = meta[l].items]
                           ELSE [importer[i] EXCEPT !.at = "build", !.i = 1])
    /\ UnchangedJobs
    /\ UNCHANGED <<items, fingerprint, finished, importing, importTotal, downloading,
                   queue, kv, imports, mixed>>

(* applyCachedItems, first half: s.finished is read, and written, without the  *)
(* lock.  fin is the map it has taken; None as long as that is s.finished.     *)
Scan(i) ==
    /\ importer[i].at = "scan"
    /\ importer' = Goes(i, [importer[i] EXCEPT
          !.at = "publish", !.cached = Restored(importer[i].cached, finished)])
    /\ finished' = finished \cup SkipSamePositions(DOMAIN importer[i].cached)
    /\ UnchangedJobs
    /\ UNCHANGED <<items, fingerprint, importing, importTotal, downloading, queue, kv, imports,
                   mixed>>

(* ... and second half: the items are published, and the map *)
Publish(i) ==
    /\ importer[i].at = "publish"
    /\ items' = importer[i].cached /\ importTotal' = Cardinality(DOMAIN importer[i].cached)
    /\ LET next == Goes(i, [importer[i] EXCEPT !.at = "finRead", !.cached = None, !.fin = None]) IN
       IF importer[i].fin = None
       THEN importer' = next /\ UNCHANGED finished
       ELSE importer' = KeepMaps(next) /\ finished' = importer[i].fin
    /\ UnchangedJobs
    /\ UNCHANGED <<fingerprint, importing, downloading, queue, kv, imports, mixed>>

AppendItem(id, item) == items' = [x \in DOMAIN items \cup {id} |-> IF x = id THEN item ELSE items[x]]

(* The list is built from the export, item by item. *)
Build(i) ==
    /\ importer[i].at = "build"
    /\ LET l == importer[i].list  n == importer[i].i  id == <<l, n, n>> IN
       IF n > Len(l)
       THEN /\ importer' = Goes(i, [importer[i] EXCEPT !.at = "finRead"])
            /\ UNCHANGED <<items, finished>>
       ELSE /\ AppendItem(id, [st |-> StatusOf(id, finished, "queued"), manual |-> FALSE,
                           auto |-> Message(id) \notin Texts])
            /\ finished' = finished \cup SkipSamePositions({id})
            /\ importer' = Goes(i, [importer[i] EXCEPT !.i = @ + 1])
    /\ UnchangedJobs
    /\ UNCHANGED <<fingerprint, importing, importTotal, downloading, queue, kv, imports, mixed>>

ImportFinRead(i) ==
    /\ importer[i].at = "finRead"
    /\ importer' = Goes(i, [importer[i] EXCEPT !.at = "finWrite", !.snap = FinishedSnapshot])
    /\ UnchangedJobs
    /\ UNCHANGED <<items, fingerprint, finished, importing, importTotal, downloading,
                   queue, kv, imports, mixed>>

\* saveMetaCache, its first half: it does nothing, unless another import that has
\* ended has reset s.importing.
ThenSave(i, r) ==
    importer' = Goes(i, IF MetaWanted THEN [r EXCEPT !.at = "metaWrite", !.snap = MetaSnapshot]
                        ELSE [r EXCEPT !.at = "queue", !.snap = None])

\* A list from the cache (i = 0) is not saved to it again.
ImportFinWrite(i) ==
    /\ importer[i].at = "finWrite"
    /\ kv' = [kv EXCEPT ![importer[i].snap.fp] = importer[i].snap.fin]
    /\ IF importer[i].i > 0 THEN ThenSave(i, importer[i])
       ELSE importer' = Goes(i, [importer[i] EXCEPT !.at = "queue", !.snap = None])
    /\ UnchangedJobs
    /\ UNCHANGED <<items, fingerprint, finished, importing, importTotal, downloading,
                   queue, imports, mixed>>

Store(snap) == meta' = [meta EXCEPT ![snap.fp] = [total |-> snap.total, items |-> snap.items]]

ImportMetaWrite(i) ==
    /\ importer[i].at = "metaWrite"
    /\ Store(importer[i].snap)
    /\ importer' = Goes(i, [importer[i] EXCEPT !.at = "queue", !.snap = None])
    /\ UNCHANGED <<items, fingerprint, finished, importing, importTotal, downloading, cancels,
                   queue, jobs, kv, file, tmp, got, imports, acts, mixed>>

EnqueueImported(i) ==
    /\ importer[i].at = "queue"
    /\ queue' = queue \cup ToQueue
    /\ importer' = Goes(i, [importer[i] EXCEPT !.at = IF importer[i].url = <<>> THEN "done" ELSE "url"])
    /\ UnchangedJobs
    /\ UNCHANGED <<items, fingerprint, finished, importing, importTotal, downloading, kv, imports,
                   mixed>>

(* importFromURLs: a list of its own, or more items of the list that is there, *)
(* which may be that of a request before it                                    *)
ImportUrl(i) ==
    /\ importer[i].at = "url"
    /\ LET url == importer[i].url
           next == Goes(i, [importer[i] EXCEPT !.at = "fetch", !.i = 1,
                                               !.base = Cardinality(DOMAIN items)]) IN
       IF fingerprint = None
       THEN ResetImportState(url, LoadFinished(url)) /\ importer' = KeepMaps(next)
       ELSE /\ importTotal' = importTotal + Len(url) /\ importer' = next
            /\ UNCHANGED <<items, fingerprint, finished, downloading>>
    /\ mixed' = (mixed \/ fingerprint \notin {None, importer[i].list})
    /\ UnchangedJobs /\ UNCHANGED <<importing, queue, kv, imports>>

(* A message of a link, which may be gone or have no media *)
FetchMessage(i) ==
    /\ importer[i].at = "fetch"
    /\ LET url == importer[i].url  n == importer[i].i  id == <<url, n, importer[i].base + n>> IN
       IF n > Len(url)
       THEN ThenSave(i, [importer[i] EXCEPT !.url = <<>>]) /\ UNCHANGED items
       ELSE /\ importer' = Goes(i, [importer[i] EXCEPT !.i = @ + 1])
            /\ \/ UNCHANGED items
               \/ /\ Message(id) \notin Texts
                  /\ AppendItem(id, [st |-> DiskStatus(Message(id), "queued"),
                                 manual |-> FALSE, auto |-> FALSE])
    /\ UnchangedJobs
    /\ UNCHANGED <<fingerprint, finished, importing, importTotal, downloading, queue, kv, imports,
                   mixed>>

ImportStep(i) ==
    \/ Launch(i) \/ HandleImport(i) \/ LoadChat(i) \/ ChatPageLoaded(i) \/ ImportFails(i)
    \/ ImportEnds(i) \/ Parse(i) \/ Reset(i) \/ TakeCache(i) \/ Scan(i) \/ Publish(i) \/ Build(i)
    \/ ImportFinRead(i) \/ ImportFinWrite(i) \/ ImportMetaWrite(i) \/ EnqueueImported(i)
    \/ ImportUrl(i) \/ FetchMessage(i)
-----------------------------------------------------------------------------
(* Downloads and requests. *)
SetStatus(id, st) ==
    items' = IF id \in DOMAIN items THEN [items EXCEPT ![id].st = st] ELSE items

UnchangedImport == UNCHANGED <<fingerprint, importing, importTotal, importer, imports, mixed>>

\* A user does something; or nobody does.
Act == acts < MaxActs /\ acts' = acts + 1

(* startDownload, of an item the scheduler popped *)
StartDownload(j) ==
    /\ jobs[j].at = "idle"
    /\ \E id \in queue :
          /\ queue' = queue \ {id}
          /\ IF id \in DOMAIN items /\ items[id].st # "completed" /\ id \notin downloading
             THEN /\ jobs' = [jobs EXCEPT ![j] = [IdleJob EXCEPT !.at = "run", !.id = id]]
                  /\ downloading' = downloading \cup {id}
                  /\ cancels' = cancels \cup {id}
                  /\ SetStatus(id, "caching")
             ELSE UNCHANGED <<jobs, downloading, cancels, items>>
    /\ UnchangedImport /\ UNCHANGED acts /\ UNCHANGED <<finished, kv, meta, file, tmp, got>>

(* downloadItem, to the file in place (ItemFile has its steps) *)
Promote(j) ==
    /\ jobs[j].at = "run"
    /\ LET m == Message(jobs[j].id) IN
       file' = file \cup {m} /\ tmp' = tmp \ {m} /\ got' = got \cup {m}
    /\ jobs' = [jobs EXCEPT ![j].at = "mark"]
    /\ UnchangedImport /\ UNCHANGED acts /\ UNCHANGED <<items, finished, downloading, cancels, queue, kv, meta>>

\* Mutation: a position is marked whether or not the item is in the list.
MarkCompleted_Any(j) ==
    /\ jobs[j].at = "mark"
    /\ SetStatus(jobs[j].id, "completed")
    /\ finished' = finished \cup {Position(jobs[j].id)}
    /\ jobs' = [jobs EXCEPT ![j].at = "end", ![j].res = "completed"]
    /\ UnchangedImport /\ UNCHANGED acts /\ UNCHANGED <<downloading, cancels, queue, kv, meta, file, tmp, got>>

MarkCompleted(j) ==
    /\ jobs[j].at = "mark"
    /\ SetStatus(jobs[j].id, "completed")
    /\ finished' = IF jobs[j].id \in DOMAIN items
                   THEN finished \cup {Position(jobs[j].id)} ELSE finished
    /\ jobs' = [jobs EXCEPT ![j].at = "end", ![j].res = "completed"]
    /\ UnchangedImport /\ UNCHANGED acts /\ UNCHANGED <<downloading, cancels, queue, kv, meta, file, tmp, got>>

(* It fails, or stops: canceled, or its file is in use and is renamed later. *)
DownloadStops(j) ==
    /\ jobs[j].at = "run"
    /\ \E res \in {"error", "paused"}, t \in {tmp, tmp \cup ({Message(jobs[j].id)} \ file)} :
          /\ jobs' = [jobs EXCEPT ![j].at = "end", ![j].res = res]
          /\ tmp' = t
    /\ UnchangedImport /\ UNCHANGED acts
    /\ UNCHANGED <<items, finished, downloading, cancels, queue, kv, meta, file, got>>

\* Only jobs moves, and what the step says.
JobOnly(j, to) ==
    /\ jobs' = [jobs EXCEPT ![j] = to]
    /\ UnchangedImport
    /\ UNCHANGED <<acts, items, finished, downloading, cancels, queue, file, tmp, got>>

(* The end of startDownload's goroutine, *)
FinishDownload(j) ==
    /\ jobs[j].at = "end"
    /\ downloading' = downloading \ {jobs[j].id}
    /\ cancels' = cancels \ {jobs[j].id}
    /\ IF jobs[j].res = "completed" THEN UNCHANGED items ELSE SetStatus(jobs[j].id, jobs[j].res)
    /\ jobs' = [jobs EXCEPT ![j] = [IdleJob EXCEPT !.at = "finRead"]]
    /\ UnchangedImport /\ UNCHANGED <<acts, finished, queue, kv, meta, file, tmp, got>>

(* ... saveFinishedOrClear: read under the lock, written outside it, *)
FinRead(j) ==
    /\ jobs[j].at = "finRead"
    /\ JobOnly(j, IF fingerprint = None THEN IdleJob
                  ELSE [IdleJob EXCEPT !.at = "finWrite", !.snap = FinishedSnapshot])
    /\ UNCHANGED <<kv, meta>>

\* saveMetaCache, its first half: nothing to save, or the items as they are.
MetaRead == IF MetaWanted THEN [IdleJob EXCEPT !.at = "metaWrite", !.snap = MetaSnapshot]
            ELSE IdleJob

\* Mutation: the record of the list shown now is written.
FinWrite_Now(j) ==
    /\ jobs[j].at = "finWrite"
    /\ kv' = [kv EXCEPT ![fingerprint] = jobs[j].snap.fin]
    /\ JobOnly(j, MetaRead) /\ UNCHANGED meta

FinWrite(j) ==
    /\ jobs[j].at = "finWrite"
    /\ kv' = [kv EXCEPT ![jobs[j].snap.fp] = jobs[j].snap.fin]
    /\ JobOnly(j, MetaRead) /\ UNCHANGED meta

(* ... saveMetaCache, its second half: the file is written outside the lock *)
MetaWrite(j) ==
    /\ jobs[j].at = "metaWrite"
    /\ Store(jobs[j].snap)
    /\ JobOnly(j, IdleJob) /\ UNCHANGED kv

\* A request that ends with saveMetaCache.
Request(j) == /\ jobs[j].at = "idle"
              /\ jobs' = [jobs EXCEPT ![j] = [IdleJob EXCEPT !.at = "metaRead"]]

RequestSaves(j) == jobs[j].at = "metaRead" /\ JobOnly(j, MetaRead) /\ UNCHANGED <<kv, meta>>

(* pauseDownload *)
Pause(j, id) ==
    /\ id \in DOMAIN items /\ queue' = queue \ {id}
    /\ IF id \in cancels   \* its download will stop, if it is not over first
       THEN items' = [items EXCEPT ![id].manual = TRUE] /\ UNCHANGED jobs
       ELSE /\ items' = [items EXCEPT
                  ![id].manual = TRUE,
                  ![id].st = IF @ # "completed" /\ (@ # "caching" \/ Message(id) \in tmp)
                             THEN "paused" ELSE @]
            /\ Request(j)
    /\ Act /\ UnchangedImport
    /\ UNCHANGED <<finished, downloading, cancels, kv, meta, file, tmp, got>>

(* markItemError and resetItemError, when a thumbnail or a preview is asked for *)
ItemError(j, id) ==
    /\ id \in DOMAIN items
    /\ \/ items[id].st \notin {"completed", "error"} /\ SetStatus(id, "error")
       \/ items[id].st = "error" /\ SetStatus(id, "queued")
    /\ Request(j)
    /\ Act /\ UnchangedImport
    /\ UNCHANGED <<finished, downloading, cancels, queue, kv, meta, file, tmp, got>>

(* enqueueDownload: asked for by the user *)
Enqueue(id) ==
    /\ id \in DOMAIN items
    /\ items' = [items EXCEPT ![id].manual = FALSE]
    /\ queue' = IF items[id].st = "completed" \/ id \in downloading THEN queue ELSE queue \cup {id}
    /\ Act /\ UnchangedImport
    /\ UNCHANGED <<finished, downloading, cancels, jobs, kv, meta, file, tmp, got>>

(* The user moves a finished file away. *)
MoveFile ==
    /\ \E m \in file : file' = file \ {m}
    /\ Act /\ UnchangedImport
    /\ UNCHANGED <<items, finished, downloading, cancels, queue, jobs, kv, meta, tmp, got>>

(* The process ends: the store, the cache and the files stay. *)
Crash ==
    /\ Act
    /\ items' = <<>> /\ fingerprint' = None /\ finished' = {} /\ importing' = FALSE
    /\ importTotal' = 0 /\ downloading' = {} /\ cancels' = {} /\ queue' = {}
    /\ importer' = FirstImporters /\ jobs' = [j \in Jobs |-> IdleJob]
    /\ UNCHANGED <<kv, meta, file, tmp, got, imports, mixed>>

JobStep(j) ==
    \/ StartDownload(j) \/ Promote(j) \/ MarkCompleted(j) \/ DownloadStops(j)
    \/ FinishDownload(j) \/ FinRead(j) \/ FinWrite(j) \/ RequestSaves(j) \/ MetaWrite(j)
    \/ \E id \in DOMAIN items : Pause(j, id) \/ ItemError(j, id)

ImportNext ==
    \/ \E i \in Importers : ImportStep(i)
    \/ \E j \in Jobs : JobStep(j)
    \/ \E id \in DOMAIN items : Enqueue(id)
    \/ MoveFile \/ Crash

ImportSpec == ImportInit /\ [][ImportNext]_importVars
-----------------------------------------------------------------------------
Statuses == {"queued", "caching", "paused", "completed", "error"}
TypeOK ==
    /\ \A id \in DOMAIN items : items[id] \in [st : Statuses, manual : BOOLEAN, auto : BOOLEAN]
    /\ fingerprint \in Lists \cup {None} /\ importing \in BOOLEAN
    /\ finished \subseteq Nat /\ importTotal \in Nat
    /\ \A id \in DOMAIN items \cup downloading \cup queue \cup cancels : IsId(id)
    /\ file \cup tmp \cup got \subseteq Messages
    /\ \A l \in Lists : kv[l] \subseteq Nat

\* The positions of a list that a later import of it takes as finished.
Claims(l, positions) == {l[p] : p \in positions \cap DOMAIN l}

(* What counts as finished has been downloaded: the positions in memory, those *)
(* in the resume record (saveFinishedOrClear writes it after the list may have *)
(* been replaced), and the items shown as completed.  This and what follows is *)
(* said of one import after another: once two go on at once, positions of one  *)
(* list may come to stand for messages of the other.                           *)
FinishedWasDownloaded == mixed \/
    /\ \A l \in Lists : Claims(l, kv[l]) \subseteq got \cup Texts
    /\ fingerprint # None => Claims(fingerprint, finished) \subseteq got \cup Texts
    /\ \A id \in DOMAIN items :
          items[id].st = "completed" => Message(id) \in got \cup Texts

(* A list restored from the meta cache is the list that was asked for: all its *)
(* messages and no others, whatever savers and earlier imports left there, and *)
(* whether or not these failed or were killed.                                 *)
RestoredIsWhole == mixed \/
    \A i \in Importers : importer[i].at \in {"scan", "publish"} =>
        DOMAIN importer[i].cached = IdsOf(importer[i].list)

(* While applyCachedItems uses s.finished without the lock (import.go:489), no *)
(* download that is still running for the list before writes to it.  (Scan is  *)
(* one step: that a saver may read the map while applyCachedItems itself adds  *)
(* to it, import.go:515 and 653, is not covered.)                              *)
ScanUndisturbed ==
    [][\A i \in Importers :
          importer[i].at \in {"scan", "publish"} /\ importer'[i] = importer[i]
              => mixed' \/ finished' = finished]_importVars
=============================================================================
