-------------------------- MODULE WebImportProofs ---------------------------
(***************************************************************************)
(* Proofs about WebImport: of one import after another, what counts as      *)
(* finished has been downloaded, a list restored from the cache is the list *)
(* asked for, and no download writes to the positions that are used without *)
(* the lock; the types hold however many imports go on at once.  For all    *)
(* exports, links, filters, goroutines and options.                         *)
(***************************************************************************)
EXTENDS WebImport, SequenceLemmas, FiniteSetTheorems, TLAPS

-----------------------------------------------------------------------------
(* The types of what is kept. *)

ItemRecords == [st : Statuses, manual : BOOLEAN, auto : BOOLEAN]
IdSet == {id \in Lists \X Nat \X Nat : id[2] \in DOMAIN id[1]}
ItemMaps == UNION {[S -> ItemRecords] : S \in {T \in SUBSET IdSet : IsFiniteSet(T)}}
FinRecords == [fp : Lists \cup {None}, fin : SUBSET Nat]
SavedRecords == [fp : Lists, total : Nat, items : ItemMaps]
MetaRecords == [total : Nat, items : ItemMaps]

ImportPlaces ==
    {"down", "idle", "parse", "reset", "cache", "scan", "publish", "build", "finRead", "finWrite",
     "metaWrite", "queue", "url", "fetch", "done", "chat"}
ListsOrNot == Lists \cup {<<>>}
CachedSet == ItemMaps \cup {None}
MapsHeld == (SUBSET Nat) \cup {None}
Snaps == FinRecords \cup SavedRecords \cup {None}
ImporterRecords ==
    [at : ImportPlaces, list : ListsOrNot, url : ListsOrNot, loaded : SUBSET Nat, i : Nat,
     base : Nat, cached : CachedSet, fin : MapsHeld, snap : Snaps]

JobPlaces == {"idle", "run", "mark", "end", "finRead", "finWrite", "metaRead", "metaWrite"}
JobIds == IdSet \cup {None}
Outcomes == {"completed", "error", "paused", None}
JobRecords == [at : JobPlaces, id : JobIds, res : Outcomes, snap : Snaps]

\* The import that goes on, as long as there is only one.
imp == IF \E g \in Importers : Working(g)
       THEN importer[CHOOSE g \in Importers : Working(g)] ELSE IdleImport

Alone ==
    /\ \A g, k \in Importers : Working(g) /\ Working(k) => g = k
    /\ (\E g \in Importers : Working(g)) => importing = TRUE
    /\ \A g \in Importers : importer[g].fin = None /\ importer[g].at # "metaWrite"

ImportTypes ==
    /\ items \in ItemMaps /\ IsFiniteSet(DOMAIN items)
    /\ fingerprint \in Lists \cup {None} /\ finished \subseteq Nat
    /\ queue \subseteq IdSet
    /\ imp \in ImporterRecords /\ jobs \in [Jobs -> JobRecords]
    /\ kv \in [Lists -> SUBSET Nat] /\ meta \in [Lists -> MetaRecords \cup {None}]

\* What a goroutine holds, by where it is.
HeldTypes ==
    /\ imp.at \in {"parse", "reset", "cache", "scan", "publish", "build", "finRead", "finWrite"}
          => imp.list # <<>>
    /\ imp.at \in {"url", "fetch"} => imp.url # <<>>
    /\ imp.at \in {"scan", "publish"} => imp.cached \in ItemMaps
    /\ imp.at = "finWrite" => imp.snap \in FinRecords
    /\ \A j \in Jobs :
          /\ jobs[j].at \in {"run", "mark", "end"} => jobs[j].id \in IdSet
          /\ jobs[j].at = "end" => jobs[j].res \in Statuses
          /\ jobs[j].at = "finWrite" => jobs[j].snap \in FinRecords
          /\ jobs[j].at = "metaWrite" => jobs[j].snap \in SavedRecords

-----------------------------------------------------------------------------
(* The shape of the list: which ids it has. *)

\* A part of the list, or all of it and more.
PartOf(l, ids) == IsFiniteSet(ids) /\ (ids \subseteq IdsOf(l) \/ IdsOf(l) \subseteq ids)

\* A position that the list has is that of its message.
Placed(l, ids) == \A id \in ids : Position(id) \in DOMAIN l => l[Position(id)] = Message(id)

NoneDone(f) == \A id \in DOMAIN f : f[id].st # "completed"

ListShape ==
    /\ fingerprint = None => DOMAIN items = {}
    /\ fingerprint # None => PartOf(fingerprint, DOMAIN items) /\ Placed(fingerprint, DOMAIN items)
    /\ imp.at \in {"cache", "scan", "publish", "build", "finRead", "finWrite"}
          => fingerprint = imp.list
    /\ imp.at \in {"cache", "scan", "publish"} => DOMAIN items = {}
    /\ imp.at = "build" =>
          /\ imp.i \in 1 .. Len(imp.list) + 1
          /\ DOMAIN items = {<<imp.list, k, k>> : k \in 1 .. imp.i - 1}
    /\ imp.at \in {"finRead", "finWrite"} => IdsOf(fingerprint) \subseteq DOMAIN items
    /\ imp.at = "queue" => fingerprint # None
    /\ imp.at \in {"queue", "url"} /\ imp.url # <<>> /\ fingerprint = imp.list
          => IdsOf(fingerprint) \subseteq DOMAIN items
    /\ imp.at = "fetch" =>
          /\ imp.i \in 1 .. Len(imp.url) + 1
          /\ \/ /\ fingerprint = imp.url /\ imp.base = 0
                /\ DOMAIN items \subseteq IdsOf(fingerprint)
             \/ /\ fingerprint # None /\ imp.base >= Len(fingerprint)
                /\ IdsOf(fingerprint) \subseteq DOMAIN items

\* What is cached, or about to be, is a part of its list or all of it and more,
\* and none of its items is completed.
CacheShape ==
    /\ \A l \in Lists :
          meta[l] # None => PartOf(l, DOMAIN meta[l].items) /\ NoneDone(meta[l].items)
    /\ \A j \in Jobs : jobs[j].at = "metaWrite" =>
          PartOf(jobs[j].snap.fp, DOMAIN jobs[j].snap.items) /\ NoneDone(jobs[j].snap.items)
    /\ imp.at = "scan" => NoneDone(imp.cached)

-----------------------------------------------------------------------------
(* What counts as finished. *)

Had == got \cup Texts
Downloaded(l, positions) == Claims(l, positions) \subseteq Had
DoneHad(f) == \A id \in DOMAIN f : f[id].st = "completed" => Message(id) \in Had

ClaimsHeld ==
    /\ file \subseteq got
    /\ imp.at = "reset" => Downloaded(imp.list, imp.loaded)
    /\ imp.at = "publish" => DoneHad(imp.cached)
    /\ imp.at = "finWrite" => Downloaded(imp.snap.fp, imp.snap.fin)
    /\ \A j \in Jobs :
          /\ jobs[j].at \in {"mark"} => Message(jobs[j].id) \in got
          /\ jobs[j].at = "end" /\ jobs[j].res = "completed" => Message(jobs[j].id) \in got
          /\ jobs[j].at = "finWrite" => Downloaded(jobs[j].snap.fp, jobs[j].snap.fin)

FinishedHad ==
    /\ \A l \in Lists : Claims(l, kv[l]) \subseteq got \cup Texts
    /\ fingerprint # None => Claims(fingerprint, finished) \subseteq got \cup Texts
    /\ \A id \in DOMAIN items :
          items[id].st = "completed" => Message(id) \in got \cup Texts
CachedWhole == imp.at \in {"scan", "publish"} => DOMAIN imp.cached = IdsOf(imp.list)

ImportInv ==
    /\ ImportTypes /\ HeldTypes /\ ListShape /\ CacheShape /\ ClaimsHeld
    /\ FinishedHad /\ CachedWhole

-----------------------------------------------------------------------------
(* Lists, ids and maps of items. *)

\* The lists are sequences of messages.
LEMMA ListFacts ==
    ASSUME NEW l \in Lists
    PROVE  l \in Seq(Nat) /\ Len(l) \in Nat /\ DOMAIN l = 1 .. Len(l)
<1>1. PICK q \in Exports \cup Urls, r \in Ranges : l = Filtered(q, r)
  BY DEF Lists
<1>2. q \in Seq(Nat)
  BY ImportAssumption
<1> DEFINE S == {q[i] : i \in {k \in DOMAIN q : InRange(q[k], Ordered(r))}}
<1>3. l = Keep(q, S)
  BY <1>1 DEF Filtered
<1>4. l \in Seq(Nat \cap S)
  BY <1>2, <1>3, KeepProperties
<1> HIDE DEF S
<1>5. l \in Seq(Nat)
  BY <1>4
<1> QED
  BY <1>5

\* What an import gets of an export or a link, or of none.
LEMMA FilteredFacts ==
    ASSUME NEW q \in Exports \cup Urls \cup {<<>>}, NEW r \in Ranges
    PROVE  Filtered(q, r) \in ListsOrNot
<1>1. CASE q \in Exports \cup Urls
  BY <1>1 DEF Lists, ListsOrNot
<1>2. CASE q = <<>>
  <2> DEFINE S == {q[i] : i \in {k \in DOMAIN q : InRange(q[k], Ordered(r))}}
  <2>1. Filtered(q, r) = Keep(q, S)
    BY DEF Filtered
  <2>2. q \in Seq({})
    BY <1>2
  <2>3. Keep(q, S) \in Seq({} \cap S)
    BY <2>2, KeepProperties
  <2> HIDE DEF S
  <2>4. Filtered(q, r) = <<>>
    BY <2>1, <2>3
  <2> QED
    BY <2>4 DEF ListsOrNot
<1> QED
  BY <1>1, <1>2

\* A map of items, by its ids and its values.
LEMMA MapFacts ==
    ASSUME NEW f
    PROVE  f \in ItemMaps <=>
               DOMAIN f \subseteq IdSet /\ IsFiniteSet(DOMAIN f) /\ f \in [DOMAIN f -> ItemRecords]
BY DEF ItemMaps

LEMMA EmptyMap == <<>> \in ItemMaps /\ DOMAIN <<>> = {} /\ IsFiniteSet({})
<1>1. DOMAIN <<>> = {} /\ <<>> \in [{} -> ItemRecords]
  OBVIOUS
<1> QED
  BY <1>1, MapFacts, FS_EmptySet

\* What an id of a list is.
LEMMA IdFacts ==
    ASSUME NEW l \in Lists
    PROVE  /\ IdsOf(l) \subseteq IdSet /\ IsFiniteSet(IdsOf(l)) /\ Cardinality(IdsOf(l)) = Len(l)
           /\ \A id \in IdsOf(l) : Position(id) \in DOMAIN l /\ l[Position(id)] = Message(id)
<1>1. l \in Seq(Nat) /\ Len(l) \in Nat /\ DOMAIN l = 1 .. Len(l)
  BY ListFacts
<1>2. IdsOf(l) \subseteq IdSet
  BY <1>1 DEF IdsOf, IdSet
<1>3. \A id \in IdsOf(l) : Position(id) \in DOMAIN l /\ l[Position(id)] = Message(id)
  BY <1>1 DEF IdsOf, Position, Message
<1> DEFINE f == [i \in 1 .. Len(l) |-> <<l, i, i>>]
<1>4. ExistsBijection(1 .. Len(l), IdsOf(l))
  <2>1. f \in [1 .. Len(l) -> IdsOf(l)]
    BY <1>1 DEF IdsOf
  <2>2. \A a, b \in 1 .. Len(l) : f[a] = f[b] => a = b
    OBVIOUS
  <2>3. \A id \in IdsOf(l) : \E a \in 1 .. Len(l) : f[a] = id
    BY <1>1 DEF IdsOf
  <2> HIDE DEF f
  <2>4. f \in Bijection(1 .. Len(l), IdsOf(l))
    BY <2>1, <2>2, <2>3 DEF Bijection, Injection, Surjection, IsInjective
  <2> QED
    BY <2>4 DEF ExistsBijection
<1>5. IsFiniteSet(1 .. Len(l)) /\ Cardinality(1 .. Len(l)) = Len(l)
  <2>1. 1 \in Int /\ Len(l) \in Int /\ (1 > Len(l) <=> Len(l) = 0) /\ Len(l) - 1 + 1 = Len(l)
    BY <1>1
  <2>2. /\ IsFiniteSet(1 .. Len(l))
        /\ Cardinality(1 .. Len(l)) = IF 1 > Len(l) THEN 0 ELSE Len(l) - 1 + 1
    BY <2>1, FS_Interval
  <2> QED
    BY <2>1, <2>2
<1> HIDE DEF f
<1>6. IsFiniteSet(IdsOf(l)) /\ Cardinality(IdsOf(l)) = Len(l)
  BY <1>4, <1>5, FS_Bijection
<1> QED
  BY <1>2, <1>3, <1>6

\* As many ids as the list has are all of its ids.
LEMMA WholeList ==
    ASSUME NEW l \in Lists, NEW ids, PartOf(l, ids), Cardinality(ids) = Len(l)
    PROVE  ids = IdsOf(l)
<1>1. IsFiniteSet(IdsOf(l)) /\ Cardinality(IdsOf(l)) = Len(l) /\ IsFiniteSet(ids)
  BY IdFacts DEF PartOf
<1>2. CASE ids \subseteq IdsOf(l)
  BY <1>1, <1>2, FS_Subset
<1>3. CASE IdsOf(l) \subseteq ids
  BY <1>1, <1>3, FS_Subset
<1> QED
  BY <1>2, <1>3 DEF PartOf

\* A part of a list, or all of it, is one when the positions are those of the list.
LEMMA PartPlaced ==
    ASSUME NEW l \in Lists, NEW ids, ids \subseteq IdsOf(l)
    PROVE  PartOf(l, ids) /\ Placed(l, ids) /\ IsFiniteSet(ids)
BY IdFacts, FS_Subset DEF PartOf, Placed

-----------------------------------------------------------------------------
(* The types, which hold as well when two imports have met. *)

\* An importer, by where it is.
ImporterHolds(r) ==
    /\ r.at \in {"parse", "reset", "cache", "scan", "publish", "build", "finRead", "finWrite"}
          => r.list # <<>>
    /\ r.at \in {"url", "fetch"} => r.url # <<>>
    /\ r.at \in {"build", "fetch"} => r.i >= 1
    /\ r.at \in {"scan", "publish"} => r.cached \in ItemMaps
    /\ r.at = "finWrite" => r.snap \in FinRecords
    /\ r.at = "metaWrite" => r.snap \in SavedRecords

JobHolds(x) ==
    /\ x.at \in {"run", "mark", "end"} => x.id \in IdSet
    /\ x.at = "end" => x.res \in Statuses
    /\ x.at = "finWrite" => x.snap \in FinRecords
    /\ x.at = "metaWrite" => x.snap \in SavedRecords

GoodImporters == {r \in ImporterRecords : ImporterHolds(r)}
GoodJobs == {x \in JobRecords : JobHolds(x)}

ListTypes ==
    /\ items \in ItemMaps /\ fingerprint \in Lists \cup {None} /\ finished \subseteq Nat
    /\ importing \in BOOLEAN /\ importTotal \in Nat /\ mixed \in BOOLEAN
    /\ queue \cup downloading \cup cancels \subseteq IdSet
StoreTypes ==
    /\ kv \in [Lists -> SUBSET Nat] /\ meta \in [Lists -> MetaRecords \cup {None}]
    /\ file \cup tmp \cup got \subseteq Messages
Typed ==
    /\ ListTypes /\ StoreTypes
    /\ importer \in [Importers -> GoodImporters] /\ jobs \in [Jobs -> GoodJobs]

\* A job at a place where it holds nothing.
LEMMA IdleJobFacts ==
    ASSUME NEW place \in JobPlaces
    PROVE  /\ IdleJob \in JobRecords /\ IdleJob.at = "idle"
           /\ [IdleJob EXCEPT !.at = place] \in JobRecords /\ [IdleJob EXCEPT !.at = place].at = place
BY DEF IdleJob, JobRecords, JobPlaces, JobIds, Outcomes, Snaps

\* The importers as they begin hold nothing.
LEMMA IdleImportFacts == IdleImport \in GoodImporters /\ FirstImporters \in [Importers -> GoodImporters]
<1>1. None \in CachedSet /\ None \in Snaps /\ None \in MapsHeld /\ <<>> \in ListsOrNot
  BY DEF CachedSet, Snaps, MapsHeld, ListsOrNot
<1>2. IdleImport \in ImporterRecords /\ IdleImport.at = "idle"
  BY <1>1 DEF IdleImport, ImporterRecords, ImportPlaces
<1>3. [IdleImport EXCEPT !.at = "down"] \in GoodImporters /\ IdleImport \in GoodImporters
  BY <1>2 DEF GoodImporters, ImporterRecords, ImporterHolds, ImportPlaces
<1> QED
  BY <1>3 DEF FirstImporters

LEMMA TypedInit == ImportInit => Typed
<1> SUFFICES ASSUME ImportInit PROVE Typed
  OBVIOUS
<1>1. ListTypes
  <2>1. items \in ItemMaps
    BY EmptyMap DEF ImportInit
  <2>2. queue \cup downloading \cup cancels = {} /\ finished = {} /\ fingerprint = None /\ importTotal = 0
    BY DEF ImportInit
  <2>3. importing = FALSE /\ mixed = FALSE
    BY DEF ImportInit
  <2> QED
    BY <2>1, <2>2, <2>3 DEF ListTypes
<1>2. StoreTypes
  <2>1. file \cup tmp \cup got = {} /\ kv = [l \in Lists |-> {}] /\ meta = [l \in Lists |-> None]
    BY DEF ImportInit
  <2> QED
    BY <2>1 DEF StoreTypes
<1>3. importer \in [Importers -> GoodImporters]
  BY IdleImportFacts DEF ImportInit
<1>4. jobs \in [Jobs -> GoodJobs]
  BY IdleJobFacts DEF ImportInit, GoodJobs, JobHolds, JobPlaces
<1> QED
  BY <1>1, <1>2, <1>3, <1>4 DEF Typed

\* The status an item starts with is one.
LEMMA StatusTypes ==
    ASSUME NEW id, NEW f, NEW st \in Statuses
    PROVE  StatusOf(id, f, st) \in Statuses
BY DEF StatusOf, DiskStatus, Statuses

\* What is read to be saved: the positions, and the list.
LEMMA SnapshotTypes ==
    ASSUME Typed
    PROVE  FinishedSnapshot \in FinRecords /\ (MetaWanted => MetaSnapshot \in SavedRecords)
<1>1. ListTypes
  BY DEF Typed
<1>2. FinishedSnapshot \in FinRecords
  BY <1>1 DEF ListTypes, FinishedSnapshot, FinRecords
<1>3. ASSUME MetaWanted PROVE MetaSnapshot \in SavedRecords
  <2> DEFINE s == [id \in DOMAIN items |-> Saved(items[id])]
  <2>1. fingerprint \in Lists /\ Expected = Cardinality(DOMAIN items)
    BY <1>1, <1>3 DEF MetaWanted, ListTypes
  <2>2. DOMAIN items \subseteq IdSet /\ items \in [DOMAIN items -> ItemRecords] /\ IsFiniteSet(DOMAIN items)
    BY <1>1, MapFacts DEF ListTypes
  <2>3. Expected \in Nat
    BY <2>1, <2>2, FS_CardinalityType
  <2>4. ASSUME NEW id \in DOMAIN items PROVE Saved(items[id]) \in ItemRecords
    <3>1. items[id] \in ItemRecords
      BY <2>2
    <3> QED
      BY <3>1 DEF Saved, ItemRecords, Statuses
  <2>5. DOMAIN s = DOMAIN items /\ s \in [DOMAIN s -> ItemRecords]
    BY <2>4
  <2>6. MetaSnapshot = [fp |-> fingerprint, total |-> Expected, items |-> s]
    BY DEF MetaSnapshot
  <2> HIDE DEF s
  <2>7. s \in ItemMaps
    BY <2>2, <2>5, MapFacts
  <2> QED
    BY <2>1, <2>3, <2>6, <2>7 DEF SavedRecords
<1> QED
  BY <1>2, <1>3

\* An importer moves, and keeps what it holds of the map that another replaces.
LEMMA GoesTypes ==
    ASSUME Typed, NEW g \in Importers, NEW r \in GoodImporters
    PROVE  /\ Goes(g, r) \in [Importers -> GoodImporters]
           /\ KeepMaps(Goes(g, r)) \in [Importers -> GoodImporters]
<1>1. Goes(g, r) \in [Importers -> GoodImporters]
  BY DEF Typed, Goes
<1>2. ASSUME NEW f \in [Importers -> GoodImporters] PROVE KeepMaps(f) \in [Importers -> GoodImporters]
  <2>1. ASSUME NEW k \in Importers PROVE [f[k] EXCEPT !.fin = finished] \in GoodImporters
    <3>1. f[k] \in ImporterRecords /\ ImporterHolds(f[k])
      BY DEF GoodImporters
    <3>2. finished \in SUBSET Nat
      BY DEF Typed, ListTypes
    <3>3. [f[k] EXCEPT !.fin = finished] \in ImporterRecords
      BY <3>1, <3>2 DEF ImporterRecords, MapsHeld
    <3>4. ImporterHolds([f[k] EXCEPT !.fin = finished])
      BY <3>1 DEF ImporterRecords, ImporterHolds
    <3> QED
      BY <3>3, <3>4 DEF GoodImporters
  <2> QED
    BY <2>1 DEF KeepMaps
<1> QED
  BY <1>1, <1>2

LEMMA SameTypes ==
    /\ ListTypes /\ UNCHANGED <<items, fingerprint, finished>> /\ UNCHANGED <<importing, importTotal, mixed>>
         /\ UNCHANGED <<queue, downloading, cancels>> => ListTypes'
    /\ StoreTypes /\ UNCHANGED <<kv, meta>> /\ UNCHANGED <<file, tmp, got>> => StoreTypes'
BY DEF ListTypes, StoreTypes

\* An importer moves, the downloads do not.
LEMMA ImporterTyped ==
    ASSUME Typed, NEW g \in Importers, NEW r \in GoodImporters, ListTypes', StoreTypes', jobs' = jobs,
           importer' = Goes(g, r) \/ importer' = KeepMaps(Goes(g, r))
    PROVE  Typed'
BY GoesTypes DEF Typed

\* Where nothing but the importer, importing and mixed change.
LEMMA ImporterOnly ==
    ASSUME Typed, NEW g \in Importers, NEW r \in GoodImporters, importer' = Goes(g, r),
           UnchangedJobs, UNCHANGED <<items, fingerprint, finished>>, UNCHANGED <<importTotal, queue, downloading>>,
           kv' = kv, importing' \in BOOLEAN, mixed' \in BOOLEAN
    PROVE  Typed'
<1>1. ListTypes' /\ StoreTypes' /\ jobs' = jobs
  BY DEF UnchangedJobs, Typed, ListTypes, StoreTypes
<1> QED
  BY <1>1, ImporterTyped

LEMMA BeginTyped ==
    ASSUME Typed, NEW g \in Importers, Launch(g) \/ HandleImport(g) \/ LoadChat(g)
    PROVE  Typed'
<1>1. importing \in BOOLEAN /\ mixed \in BOOLEAN
  BY DEF Typed, ListTypes
<1>2. ASSUME NEW p \in {"parse", "url", "chat"}, NEW l \in ListsOrNot, NEW u \in ListsOrNot, Begin(g, p, l, u),
             p = "parse" => l # <<>>, p = "url" => u # <<>>
      PROVE  \E r \in GoodImporters : importer' = Goes(g, r) /\ importing' \in BOOLEAN /\ mixed' \in BOOLEAN
  <2> DEFINE r == [IdleImport EXCEPT !.at = p, !.list = l, !.url = u]
  <2>1. IdleImport \in ImporterRecords /\ {"parse", "url", "chat"} \subseteq ImportPlaces
    BY IdleImportFacts DEF GoodImporters, ImportPlaces
  <2>2. r \in ImporterRecords /\ r.at = p /\ r.list = l /\ r.url = u
    BY <2>1 DEF ImporterRecords
  <2>3. r \in GoodImporters
    BY <1>2, <2>2 DEF GoodImporters, ImporterHolds
  <2>4. importer' = Goes(g, r) /\ importing' = TRUE /\ mixed' = (mixed \/ \E k \in Importers \ {g} : Working(k))
    BY <1>2 DEF Begin
  <2> HIDE DEF r
  <2> QED
    BY <1>1, <2>3, <2>4
<1>3. \A q \in Exports \cup Urls \cup {<<>>}, f \in Ranges : Filtered(q, f) \in ListsOrNot
  BY FilteredFacts
<1>4. <<>> \in ListsOrNot
  BY DEF ListsOrNot
<1>5. ASSUME NEW l \in ListsOrNot, NEW u \in ListsOrNot, Start(g, l, u), ~(l = <<>> /\ u = <<>>)
      PROVE  \E r \in GoodImporters : importer' = Goes(g, r) /\ importing' \in BOOLEAN /\ mixed' \in BOOLEAN
  BY <1>2, <1>5 DEF Start
<1>6. CASE LoadChat(g)
  <2>1. PICK r \in GoodImporters : importer' = Goes(g, r) /\ importing' \in BOOLEAN /\ mixed' \in BOOLEAN
    BY <1>2, <1>4, <1>6 DEF LoadChat
  <2>2. ListTypes' /\ StoreTypes' /\ jobs' = jobs
    BY <1>6, <2>1 DEF LoadChat, Typed, ListTypes, StoreTypes
  <2> QED
    BY <2>1, <2>2, ImporterTyped
<1>7. CASE Launch(g) \/ HandleImport(g)
  <2>1. PICK r \in GoodImporters : importer' = Goes(g, r) /\ importing' \in BOOLEAN /\ mixed' \in BOOLEAN
    <3>1. CASE HandleImport(g)
      BY <1>3, <1>4, <1>5, <3>1 DEF HandleImport
    <3>2. CASE Launch(g)
      <4>1. \/ importer' = Goes(g, IdleImport) /\ UNCHANGED <<importing, mixed>>
            \/ \E l \in ListsOrNot, u \in ListsOrNot : Start(g, l, u) /\ ~(l = <<>> /\ u = <<>>)
        BY <1>3, <3>2 DEF Launch
      <4> QED
        BY <1>1, <1>5, <4>1, IdleImportFacts
    <3> QED
      BY <1>7, <3>1, <3>2
  <2>2. UnchangedJobs /\ UNCHANGED <<items, fingerprint, finished>> /\ UNCHANGED <<importTotal, queue, downloading>>
        /\ kv' = kv
    BY <1>7 DEF Launch, HandleImport
  <2> QED
    BY <2>1, <2>2, ImporterOnly
<1> QED
  BY <1>6, <1>7

LEMMA EndTyped ==
    ASSUME Typed, NEW g \in Importers, ChatPageLoaded(g) \/ ImportFails(g) \/ ImportEnds(g)
    PROVE  Typed'
<1>1. importer' = Goes(g, IdleImport) /\ IdleImport \in GoodImporters /\ importing' = FALSE /\ mixed' = mixed
  BY IdleImportFacts DEF ChatPageLoaded, ImportFails, ImportEnds, SetImportingFalse
<1>2. importTotal' \in Nat
  <2>1. importTotal' = importTotal \/ importTotal' \in 0 .. Cardinality(Messages)
    BY DEF ChatPageLoaded, ImportFails, ImportEnds, SetImportingFalse
  <2> QED
    BY <2>1 DEF Typed, ListTypes
<1>3. UnchangedJobs /\ UNCHANGED <<items, fingerprint, finished>> /\ UNCHANGED <<queue, downloading, kv>>
  BY DEF ChatPageLoaded, ImportFails, ImportEnds, SetImportingFalse
<1>4. ListTypes' /\ StoreTypes' /\ jobs' = jobs
  BY <1>1, <1>2, <1>3 DEF UnchangedJobs, Typed, ListTypes, StoreTypes
<1> QED
  BY <1>1, <1>4, ImporterTyped

\* The importer as it is, and the lists it holds.
LEMMA ImporterIs ==
    ASSUME Typed, NEW g \in Importers
    PROVE  /\ importer[g] \in ImporterRecords /\ ImporterHolds(importer[g])
           /\ importer[g].list # <<>> => importer[g].list \in Lists
           /\ importer[g].url # <<>> => importer[g].url \in Lists
           /\ mixed \in BOOLEAN /\ importing \in BOOLEAN
BY DEF Typed, ListTypes, GoodImporters, ImporterRecords, ListsOrNot

LEMMA StepsTyped ==
    ASSUME Typed, NEW g \in Importers, Parse(g) \/ TakeCache(g) \/ ImportFinRead(g)
    PROVE  Typed'
<1> DEFINE r == importer[g]
<1>1. r \in ImporterRecords /\ ImporterHolds(r) /\ mixed \in BOOLEAN /\ importing \in BOOLEAN
  BY ImporterIs
<1>2. UnchangedJobs /\ UNCHANGED <<items, fingerprint, finished>> /\ UNCHANGED <<importTotal, queue, downloading>>
      /\ kv' = kv /\ UNCHANGED <<importing, mixed>>
  BY DEF Parse, TakeCache, ImportFinRead
<1>3. {"reset", "scan", "build", "finWrite"} \subseteq ImportPlaces
  BY DEF ImportPlaces
<1>4. \E x \in GoodImporters : importer' = Goes(g, x)
  <2>1. CASE Parse(g)
    <3> DEFINE x == [r EXCEPT !.at = "reset", !.loaded = LoadFinished(r.list)]
    <3>1. importer' = Goes(g, x) /\ r.at = "parse"
      BY <2>1 DEF Parse
    <3>2. LoadFinished(r.list) \in SUBSET Nat
      <4>1. r.list \in Lists
        BY <1>1, <3>1, ImporterIs DEF ImporterHolds
      <4> QED
        BY <4>1 DEF LoadFinished, Typed, StoreTypes
    <3>3. x \in ImporterRecords /\ x.at = "reset" /\ x.list = r.list
      BY <1>1, <1>3, <3>2 DEF ImporterRecords
    <3>4. x \in GoodImporters
      BY <1>1, <3>1, <3>3 DEF GoodImporters, ImporterHolds
    <3> QED
      BY <3>1, <3>4
  <2>2. CASE TakeCache(g)
    <3> DEFINE l == r.list
               x == [r EXCEPT !.at = "scan", !.cached = meta[l].items]
               y == [r EXCEPT !.at = "build", !.i = 1]
    <3>1. importer' = Goes(g, IF LoadMetaCache(l) THEN x ELSE y) /\ r.at = "cache"
      BY <2>2 DEF TakeCache
    <3>2. l \in Lists /\ l # <<>>
      BY <1>1, <3>1, ImporterIs DEF ImporterHolds
    <3>3. CASE LoadMetaCache(l)
      <4>1. meta[l].items \in ItemMaps
        BY <3>2, <3>3 DEF LoadMetaCache, Typed, StoreTypes, MetaRecords
      <4>2. x \in ImporterRecords /\ x.at = "scan" /\ x.list = l /\ x.cached = meta[l].items
        BY <1>1, <1>3, <4>1 DEF ImporterRecords, CachedSet
      <4>3. x \in GoodImporters
        BY <3>2, <4>1, <4>2 DEF GoodImporters, ImporterHolds
      <4> HIDE DEF x
      <4> QED
        BY <3>1, <3>3, <4>3
    <3>4. CASE ~LoadMetaCache(l)
      <4>1. y \in ImporterRecords /\ y.at = "build" /\ y.list = l /\ y.i = 1
        BY <1>1, <1>3 DEF ImporterRecords
      <4> HIDE DEF y
      <4>2. y \in GoodImporters
        BY <3>2, <4>1 DEF GoodImporters, ImporterHolds
      <4> QED
        BY <3>1, <3>4, <4>2
    <3> QED
      BY <3>3, <3>4
  <2>3. CASE ImportFinRead(g)
    <3> DEFINE x == [r EXCEPT !.at = "finWrite", !.snap = FinishedSnapshot]
    <3>1. importer' = Goes(g, x) /\ r.at = "finRead" /\ FinishedSnapshot \in FinRecords
      BY <2>3, SnapshotTypes DEF ImportFinRead
    <3>2. x \in ImporterRecords /\ x.at = "finWrite" /\ x.list = r.list /\ x.snap = FinishedSnapshot
      BY <1>1, <1>3, <3>1 DEF ImporterRecords, Snaps
    <3>3. x \in GoodImporters
      BY <1>1, <3>1, <3>2 DEF GoodImporters, ImporterHolds
    <3> QED
      BY <3>1, <3>3
  <2> QED
    BY <2>1, <2>2, <2>3
<1> QED
  BY <1>1, <1>2, <1>4, ImporterOnly

LEMMA ResetTyped ==
    ASSUME Typed, NEW g \in Importers, Reset(g)
    PROVE  Typed'
<1> DEFINE r == importer[g]
           x == [r EXCEPT !.at = "cache", !.loaded = {}]
<1>1. r \in ImporterRecords /\ ImporterHolds(r) /\ r.at = "reset" /\ importer' = KeepMaps(Goes(g, x))
  BY ImporterIs DEF Reset
<1>2. r.list \in Lists /\ r.list # <<>> /\ r.loaded \subseteq Nat
  BY <1>1, ImporterIs DEF ImporterHolds, ImporterRecords
<1>3. x \in GoodImporters
  <2>1. x \in ImporterRecords /\ x.at = "cache" /\ x.list = r.list
    BY <1>1 DEF ImporterRecords, ImportPlaces
  <2> QED
    BY <1>2, <2>1 DEF GoodImporters, ImporterHolds
<1>4. /\ items' = <<>> /\ fingerprint' = r.list /\ finished' = r.loaded /\ importTotal' = Len(r.list)
      /\ downloading' = {} /\ UNCHANGED <<importing, queue, kv, mixed>>
      /\ UNCHANGED <<jobs, cancels, meta>> /\ UNCHANGED <<file, tmp, got>>
  BY DEF Reset, ResetImportState, UnchangedJobs
<1>5. Len(r.list) \in Nat
  BY <1>2, ListFacts
<1> HIDE DEF x
<1>6. ListTypes' /\ StoreTypes'
  BY <1>2, <1>4, <1>5, EmptyMap DEF Typed, ListTypes, StoreTypes
<1> QED
  BY <1>1, <1>3, <1>4, <1>6, ImporterTyped

LEMMA ScanTyped ==
    ASSUME Typed, NEW g \in Importers, Scan(g)
    PROVE  Typed'
<1> DEFINE r == importer[g]
           c == r.cached
           d == Restored(c, finished)
           x == [r EXCEPT !.at = "publish", !.cached = d]
<1>1. r \in ImporterRecords /\ ImporterHolds(r) /\ r.at = "scan" /\ importer' = Goes(g, x)
  BY ImporterIs DEF Scan
<1>2. c \in ItemMaps /\ r.list # <<>>
  BY <1>1 DEF ImporterHolds
<1>3. DOMAIN c \subseteq IdSet /\ IsFiniteSet(DOMAIN c) /\ c \in [DOMAIN c -> ItemRecords]
  BY <1>2, MapFacts
<1>4. DOMAIN d = DOMAIN c /\ d = [id \in DOMAIN c |-> d[id]]
  BY DEF Restored
<1>5. ASSUME NEW id \in DOMAIN c PROVE d[id] \in ItemRecords
  <2>1. c[id] \in ItemRecords /\ c[id].st \in Statuses
    BY <1>3 DEF ItemRecords
  <2>2. StatusOf(id, finished, c[id].st) \in Statuses
    BY <2>1, StatusTypes
  <2>3. d[id] = [c[id] EXCEPT !.st = StatusOf(id, finished, c[id].st), !.auto = Message(id) \notin Texts]
    BY DEF Restored
  <2> QED
    BY <2>1, <2>2, <2>3 DEF ItemRecords
<1> HIDE DEF d
<1>6. d \in ItemMaps
  BY <1>3, <1>4, <1>5, MapFacts
<1>7. x \in GoodImporters
  <2>1. x \in ImporterRecords /\ x.at = "publish" /\ x.list = r.list /\ x.cached = d
    BY <1>1, <1>6 DEF ImporterRecords, ImportPlaces, CachedSet
  <2> QED
    BY <1>2, <1>6, <2>1 DEF GoodImporters, ImporterHolds
<1>8. finished' \subseteq Nat
  <2>1. SkipSamePositions(DOMAIN c) \subseteq Nat
    BY <1>3 DEF SkipSamePositions, IdSet, Position
  <2> QED
    BY <2>1 DEF Scan, Typed, ListTypes
<1>9. /\ UNCHANGED <<items, fingerprint, importing>> /\ UNCHANGED <<importTotal, downloading, queue>>
      /\ UNCHANGED <<kv, mixed>> /\ UNCHANGED <<jobs, cancels, meta>> /\ UNCHANGED <<file, tmp, got>>
  BY DEF Scan, UnchangedJobs
<1>10. ListTypes' /\ StoreTypes'
  BY <1>8, <1>9 DEF Typed, ListTypes, StoreTypes
<1> HIDE DEF x
<1> QED
  BY <1>1, <1>7, <1>9, <1>10, ImporterTyped

LEMMA PublishTyped ==
    ASSUME Typed, NEW g \in Importers, Publish(g)
    PROVE  Typed'
<1> DEFINE r == importer[g]
           x == [r EXCEPT !.at = "finRead", !.cached = None, !.fin = None]
<1>1. /\ r \in ImporterRecords /\ ImporterHolds(r) /\ r.at = "publish"
      /\ importer' = Goes(g, x) \/ importer' = KeepMaps(Goes(g, x))
      /\ finished' = finished \/ (r.fin # None /\ finished' = r.fin)
      /\ items' = r.cached /\ importTotal' = Cardinality(DOMAIN r.cached)
  BY ImporterIs DEF Publish
<1>2. r.cached \in ItemMaps /\ r.list # <<>> /\ (r.fin # None => r.fin \subseteq Nat)
  BY <1>1 DEF ImporterHolds, ImporterRecords, MapsHeld
<1>3. importTotal' \in Nat
  BY <1>1, <1>2, MapFacts, FS_CardinalityType
<1>4. x \in GoodImporters
  <2>1. x \in ImporterRecords /\ x.at = "finRead" /\ x.list = r.list
    BY <1>1 DEF ImporterRecords, ImportPlaces, CachedSet, MapsHeld
  <2> QED
    BY <1>2, <2>1 DEF GoodImporters, ImporterHolds
<1>5. /\ UNCHANGED <<fingerprint, importing>> /\ UNCHANGED <<downloading, queue>>
      /\ UNCHANGED <<kv, mixed>> /\ UNCHANGED <<jobs, cancels, meta>> /\ UNCHANGED <<file, tmp, got>>
  BY DEF Publish, UnchangedJobs
<1>6. ListTypes' /\ StoreTypes'
  BY <1>1, <1>2, <1>3, <1>5 DEF Typed, ListTypes, StoreTypes
<1> HIDE DEF x
<1> QED
  BY <1>1, <1>4, <1>5, <1>6, ImporterTyped

\* An item of an id is put into the list.
LEMMA AppendTypes ==
    ASSUME items \in ItemMaps, NEW id \in IdSet, NEW item \in ItemRecords, AppendItem(id, item)
    PROVE  items' \in ItemMaps
<1>1. DOMAIN items \subseteq IdSet /\ IsFiniteSet(DOMAIN items) /\ items \in [DOMAIN items -> ItemRecords]
  BY MapFacts
<1>2. DOMAIN items' = DOMAIN items \cup {id} /\ items' \in [DOMAIN items' -> ItemRecords]
  BY <1>1 DEF AppendItem
<1>3. IsFiniteSet(DOMAIN items')
  BY <1>1, <1>2, FS_AddElement
<1> QED
  BY <1>1, <1>2, <1>3, MapFacts

LEMMA BuildTyped ==
    ASSUME Typed, NEW g \in Importers, Build(g)
    PROVE  Typed'
<1> DEFINE r == importer[g]
           l == r.list
           n == r.i
           id == <<l, n, n>>
<1>1. r \in ImporterRecords /\ ImporterHolds(r) /\ r.at = "build" /\ mixed \in BOOLEAN /\ importing \in BOOLEAN
  BY ImporterIs DEF Build
<1>2. l \in Lists /\ l # <<>> /\ n \in Nat /\ n >= 1
  BY <1>1, ImporterIs DEF ImporterHolds, ImporterRecords
<1>3. /\ UNCHANGED <<fingerprint, importing, importTotal>> /\ UNCHANGED <<downloading, queue>>
      /\ UNCHANGED <<kv, mixed>> /\ UNCHANGED <<jobs, cancels, meta>> /\ UNCHANGED <<file, tmp, got>>
  BY DEF Build, UnchangedJobs
<1>4. CASE n > Len(l)
  <2> DEFINE x == [r EXCEPT !.at = "finRead"]
  <2>1. importer' = Goes(g, x) /\ UNCHANGED <<items, finished>>
    BY <1>4 DEF Build
  <2>2. x \in ImporterRecords /\ x.at = "finRead" /\ x.list = l
    BY <1>1 DEF ImporterRecords, ImportPlaces
  <2>3. x \in GoodImporters
    BY <1>2, <2>2 DEF GoodImporters, ImporterHolds
  <2> HIDE DEF x
  <2>4. ListTypes' /\ StoreTypes'
    BY <1>3, <2>1 DEF Typed, ListTypes, StoreTypes
  <2> QED
    BY <1>3, <2>1, <2>3, <2>4, ImporterTyped
<1>5. CASE ~(n > Len(l))
  <2> DEFINE x == [r EXCEPT !.i = @ + 1]
             item == [st |-> StatusOf(id, finished, "queued"), manual |-> FALSE, auto |-> Message(id) \notin Texts]
  <2>1. /\ importer' = Goes(g, x) /\ AppendItem(id, item)
        /\ finished' = finished \cup SkipSamePositions({id})
    BY <1>5 DEF Build
  <2>2. x \in GoodImporters
    <3>1. x \in ImporterRecords /\ x.at = "build" /\ x.list = l /\ x.i = n + 1
      BY <1>1, <1>2 DEF ImporterRecords
    <3> HIDE DEF x
    <3> QED
      BY <1>2, <3>1 DEF GoodImporters, ImporterHolds
  <2> HIDE DEF x
  <2>3. item \in ItemRecords
    <3>1. StatusOf(id, finished, "queued") \in Statuses
      BY StatusTypes DEF Statuses
    <3> QED
      BY <3>1 DEF ItemRecords
  <2> HIDE DEF item
  <2>4. SkipSamePositions({id}) \subseteq Nat
    BY <1>2 DEF SkipSamePositions, Position
  <2>5. items' \in ItemMaps
    <3>1. n \in DOMAIN l
      BY <1>2, <1>5, ListFacts
    <3>2. id \in IdSet
      BY <1>2, <3>1 DEF IdSet
    <3> QED
      BY <2>1, <2>3, <3>2, AppendTypes DEF Typed, ListTypes
  <2>6. ListTypes' /\ StoreTypes'
    BY <1>3, <2>1, <2>4, <2>5 DEF Typed, ListTypes, StoreTypes
  <2> QED
    BY <1>3, <2>1, <2>2, <2>6, ImporterTyped
<1> QED
  BY <1>4, <1>5

\* What an importer becomes that has saved, or is about to.
LEMMA SaveTyped ==
    ASSUME Typed, NEW g \in Importers, NEW r \in ImporterRecords, ThenSave(g, r)
    PROVE  \E x \in GoodImporters : importer' = Goes(g, x)
<1> DEFINE x == [r EXCEPT !.at = "metaWrite", !.snap = MetaSnapshot]
           y == [r EXCEPT !.at = "queue", !.snap = None]
<1>1. importer' = Goes(g, IF MetaWanted THEN x ELSE y)
  BY DEF ThenSave
<1>2. CASE MetaWanted
  <2>1. MetaSnapshot \in SavedRecords
    BY <1>2, SnapshotTypes
  <2>2. x \in ImporterRecords /\ x.at = "metaWrite" /\ x.snap = MetaSnapshot
    BY <2>1 DEF ImporterRecords, ImportPlaces, Snaps
  <2> HIDE DEF x
  <2>3. x \in GoodImporters
    BY <2>1, <2>2 DEF GoodImporters, ImporterHolds
  <2> QED
    BY <1>1, <1>2, <2>3
<1>3. CASE ~MetaWanted
  <2>1. y \in ImporterRecords /\ y.at = "queue"
    BY DEF ImporterRecords, ImportPlaces, Snaps
  <2> HIDE DEF y
  <2>2. y \in GoodImporters
    BY <2>1 DEF GoodImporters, ImporterHolds
  <2> QED
    BY <1>1, <1>3, <2>2
<1> QED
  BY <1>2, <1>3

\* What is saved is kept for its list.
LEMMA StoredTypes ==
    ASSUME meta \in [Lists -> MetaRecords \cup {None}], NEW s \in SavedRecords, Store(s)
    PROVE  meta' \in [Lists -> MetaRecords \cup {None}]
<1>1. [total |-> s.total, items |-> s.items] \in MetaRecords
  BY DEF SavedRecords, MetaRecords
<1> QED
  BY <1>1 DEF Store

LEMMA WritesTyped ==
    ASSUME Typed, NEW g \in Importers, ImportFinWrite(g) \/ ImportMetaWrite(g)
    PROVE  Typed'
<1> DEFINE r == importer[g]
           y == [r EXCEPT !.at = "queue", !.snap = None]
<1>1. r \in ImporterRecords /\ ImporterHolds(r)
  BY ImporterIs
<1>2. y \in GoodImporters
  <2>1. y \in ImporterRecords /\ y.at = "queue"
    BY <1>1 DEF ImporterRecords, ImportPlaces, Snaps
  <2> HIDE DEF y
  <2> QED
    BY <2>1 DEF GoodImporters, ImporterHolds
<1>3. /\ UNCHANGED <<items, fingerprint, finished>> /\ UNCHANGED <<importing, importTotal, mixed>>
      /\ UNCHANGED <<queue, downloading, cancels>> /\ UNCHANGED <<file, tmp, got>> /\ jobs' = jobs
  BY DEF ImportFinWrite, ImportMetaWrite, UnchangedJobs
<1>4. ListTypes'
  BY <1>3, SameTypes DEF Typed
<1>5. CASE ImportFinWrite(g)
  <2>1. /\ kv' = [kv EXCEPT ![r.snap.fp] = r.snap.fin] /\ meta' = meta /\ r.at = "finWrite"
        /\ ThenSave(g, r) \/ importer' = Goes(g, y)
    BY <1>5 DEF ImportFinWrite, UnchangedJobs
  <2>2. r.snap \in FinRecords
    BY <1>1, <2>1 DEF ImporterHolds
  <2>3. StoreTypes'
    BY <1>3, <2>1, <2>2 DEF Typed, StoreTypes, FinRecords
  <2>4. PICK x \in GoodImporters : importer' = Goes(g, x)
    BY <1>1, <1>2, <2>1, SaveTyped
  <2> QED
    BY <1>3, <1>4, <2>3, <2>4, ImporterTyped
<1>6. CASE ImportMetaWrite(g)
  <2>1. Store(r.snap) /\ kv' = kv /\ r.at = "metaWrite" /\ importer' = Goes(g, y)
    BY <1>6 DEF ImportMetaWrite
  <2>2. r.snap \in SavedRecords
    BY <1>1, <2>1 DEF ImporterHolds
  <2>3. meta' \in [Lists -> MetaRecords \cup {None}]
    BY <2>1, <2>2, StoredTypes DEF Typed, StoreTypes
  <2>4. StoreTypes'
    BY <1>3, <2>1, <2>3 DEF Typed, StoreTypes
  <2> HIDE DEF y
  <2> QED
    BY <1>2, <1>3, <1>4, <2>1, <2>4, ImporterTyped
<1> QED
  BY <1>5, <1>6

LEMMA EnqueueTyped ==
    ASSUME Typed, NEW g \in Importers, EnqueueImported(g)
    PROVE  Typed'
<1> DEFINE r == importer[g]
           x == [r EXCEPT !.at = IF r.url = <<>> THEN "done" ELSE "url"]
<1>1. r \in ImporterRecords /\ importer' = Goes(g, x)
  BY ImporterIs DEF EnqueueImported
<1>2. x \in GoodImporters
  <2>1. x \in ImporterRecords /\ x.at = (IF r.url = <<>> THEN "done" ELSE "url") /\ x.url = r.url
    BY <1>1 DEF ImporterRecords, ImportPlaces
  <2> HIDE DEF x
  <2> QED
    BY <2>1 DEF GoodImporters, ImporterHolds
<1>3. /\ UNCHANGED <<items, fingerprint, finished>> /\ UNCHANGED <<importing, importTotal, mixed>>
      /\ UNCHANGED <<downloading, cancels>> /\ UNCHANGED <<kv, meta>> /\ UNCHANGED <<file, tmp, got>>
      /\ jobs' = jobs /\ queue' = queue \cup ToQueue
  BY DEF EnqueueImported, UnchangedJobs
<1>4. ToQueue \subseteq IdSet
  <2>1. DOMAIN items \subseteq IdSet
    BY MapFacts DEF Typed, ListTypes
  <2> QED
    BY <2>1 DEF ToQueue
<1>5. ListTypes' /\ StoreTypes'
  BY <1>3, <1>4 DEF Typed, ListTypes, StoreTypes
<1> HIDE DEF x
<1> QED
  BY <1>1, <1>2, <1>3, <1>5, ImporterTyped

LEMMA UrlTyped ==
    ASSUME Typed, NEW g \in Importers, ImportUrl(g)
    PROVE  Typed'
<1> DEFINE r == importer[g]
           url == r.url
           x == [r EXCEPT !.at = "fetch", !.i = 1, !.base = Cardinality(DOMAIN items)]
<1>1. r \in ImporterRecords /\ ImporterHolds(r) /\ r.at = "url" /\ mixed \in BOOLEAN
  BY ImporterIs DEF ImportUrl
<1>2. /\ importer' = Goes(g, x) \/ importer' = KeepMaps(Goes(g, x))
      /\ \/ UNCHANGED <<items, fingerprint, finished, downloading>> /\ importTotal' = importTotal + Len(url)
         \/ ResetImportState(url, LoadFinished(url))
  BY DEF ImportUrl
<1>3. url \in Lists /\ url # <<>> /\ Len(url) \in Nat
  BY <1>1, ImporterIs, ListFacts DEF ImporterHolds
<1>4. x \in GoodImporters
  <2>1. Cardinality(DOMAIN items) \in Nat
    BY MapFacts, FS_CardinalityType DEF Typed, ListTypes
  <2>2. x \in ImporterRecords /\ x.at = "fetch" /\ x.url = url /\ x.i = 1
    BY <1>1, <2>1 DEF ImporterRecords, ImportPlaces
  <2> HIDE DEF x
  <2> QED
    BY <1>3, <2>2 DEF GoodImporters, ImporterHolds
<1>5. /\ UNCHANGED <<importing, queue, cancels>> /\ UNCHANGED <<kv, meta>> /\ UNCHANGED <<file, tmp, got>>
      /\ jobs' = jobs /\ mixed' \in BOOLEAN
  BY <1>1 DEF ImportUrl, UnchangedJobs
<1>6. LoadFinished(url) \subseteq Nat
  BY <1>3 DEF LoadFinished, Typed, StoreTypes
<1> HIDE DEF x
<1>7. items' \in ItemMaps /\ fingerprint' \in Lists \cup {None} /\ finished' \subseteq Nat
      /\ importTotal' \in Nat /\ downloading' \subseteq IdSet
  <2>1. CASE ResetImportState(url, LoadFinished(url))
    BY <1>3, <1>6, <2>1, EmptyMap DEF ResetImportState
  <2>2. CASE UNCHANGED <<items, fingerprint, finished, downloading>> /\ importTotal' = importTotal + Len(url)
    BY <1>3, <2>2 DEF Typed, ListTypes
  <2> QED
    BY <1>2, <2>1, <2>2
<1>8. ListTypes' /\ StoreTypes'
  BY <1>5, <1>7 DEF Typed, ListTypes, StoreTypes
<1> QED
  BY <1>2, <1>4, <1>5, <1>8, ImporterTyped

LEMMA FetchTyped ==
    ASSUME Typed, NEW g \in Importers, FetchMessage(g)
    PROVE  Typed'
<1> DEFINE r == importer[g]
           url == r.url
           n == r.i
           id == <<url, n, r.base + n>>
           item == [st |-> DiskStatus(Message(id), "queued"), manual |-> FALSE, auto |-> FALSE]
           x == [r EXCEPT !.i = @ + 1]
           y == [r EXCEPT !.url = <<>>]
<1>1. r \in ImporterRecords /\ ImporterHolds(r) /\ r.at = "fetch"
  BY ImporterIs DEF FetchMessage
<1>2. url \in Lists /\ url # <<>> /\ n \in Nat /\ n >= 1 /\ r.base + n \in Nat
  BY <1>1, ImporterIs DEF ImporterHolds, ImporterRecords
<1>3. /\ UNCHANGED <<fingerprint, finished, importing>> /\ UNCHANGED <<importTotal, downloading, queue>>
      /\ UNCHANGED <<kv, mixed>> /\ UNCHANGED <<jobs, cancels, meta>> /\ UNCHANGED <<file, tmp, got>>
  BY DEF FetchMessage, UnchangedJobs
<1>4. items' \in ItemMaps /\ \E z \in GoodImporters : importer' = Goes(g, z)
  <2>1. CASE n > Len(url)
    <3>1. ThenSave(g, y) /\ UNCHANGED items
      BY <2>1 DEF FetchMessage
    <3>2. y \in ImporterRecords
      BY <1>1 DEF ImporterRecords, ListsOrNot
    <3> HIDE DEF y
    <3> QED
      BY <3>1, <3>2, SaveTyped DEF Typed, ListTypes
  <2>2. CASE ~(n > Len(url))
    <3>1. importer' = Goes(g, x) /\ (UNCHANGED items \/ AppendItem(id, item))
      BY <2>2 DEF FetchMessage
    <3>2. x \in GoodImporters
      <4>1. x \in ImporterRecords /\ x.at = "fetch" /\ x.url = url /\ x.i = n + 1
        BY <1>1, <1>2 DEF ImporterRecords
      <4> HIDE DEF x
      <4> QED
        BY <1>2, <4>1 DEF GoodImporters, ImporterHolds
    <3>3. item \in ItemRecords
      BY DEF DiskStatus, Statuses, ItemRecords
    <3>4. id \in IdSet
      <4>1. n \in DOMAIN url
        BY <1>2, <2>2, ListFacts
      <4> QED
        BY <1>2, <4>1 DEF IdSet
    <3> HIDE DEF x, item, id
    <3>5. items' \in ItemMaps
      BY <3>1, <3>3, <3>4, AppendTypes DEF Typed, ListTypes
    <3> QED
      BY <3>1, <3>2, <3>5
  <2> QED
    BY <2>1, <2>2
<1>5. ListTypes' /\ StoreTypes'
  BY <1>3, <1>4 DEF Typed, ListTypes, StoreTypes
<1> QED
  BY <1>3, <1>4, <1>5, ImporterTyped

LEMMA ImportTyped ==
    ASSUME Typed, NEW g \in Importers, ImportStep(g)
    PROVE  Typed'
BY BeginTyped, EndTyped, StepsTyped, ResetTyped, ScanTyped, PublishTyped, BuildTyped, WritesTyped,
   EnqueueTyped, UrlTyped, FetchTyped DEF ImportStep

\* A job moves.
LEMMA JobTyped ==
    ASSUME Typed, NEW j \in Jobs, NEW x \in GoodJobs, jobs' = [jobs EXCEPT ![j] = x], importer' = importer,
           ListTypes', StoreTypes'
    PROVE  Typed'
BY DEF Typed

LEMMA GoodIdleJobs ==
    /\ IdleJob \in GoodJobs
    /\ \A p \in {"idle", "finRead", "metaRead"} : [IdleJob EXCEPT !.at = p] \in GoodJobs
    /\ \A id \in IdSet : [IdleJob EXCEPT !.at = "run", !.id = id] \in GoodJobs
    /\ \A s \in FinRecords : [IdleJob EXCEPT !.at = "finWrite", !.snap = s] \in GoodJobs
    /\ \A s \in SavedRecords : [IdleJob EXCEPT !.at = "metaWrite", !.snap = s] \in GoodJobs
<1>1. IdleJob \in JobRecords /\ IdleJob.at = "idle"
  BY DEF IdleJob, JobRecords, JobPlaces, JobIds, Outcomes, Snaps
<1>2. ASSUME NEW x \in JobRecords, x.at \in {"idle", "finRead", "metaRead"} PROVE x \in GoodJobs
  BY <1>2 DEF GoodJobs, JobHolds
<1>3. ASSUME NEW p \in {"idle", "finRead", "metaRead"} PROVE [IdleJob EXCEPT !.at = p] \in GoodJobs
  <2>1. [IdleJob EXCEPT !.at = p] \in JobRecords /\ [IdleJob EXCEPT !.at = p].at = p
    BY <1>1 DEF JobRecords, JobPlaces
  <2> QED
    BY <1>2, <2>1
<1>4. ASSUME NEW id \in IdSet PROVE [IdleJob EXCEPT !.at = "run", !.id = id] \in GoodJobs
  <2> DEFINE x == [IdleJob EXCEPT !.at = "run", !.id = id]
  <2>1. x \in JobRecords /\ x.at = "run" /\ x.id = id
    BY <1>1 DEF JobRecords, JobPlaces, JobIds
  <2> HIDE DEF x
  <2>2. x \in GoodJobs
    BY <2>1 DEF GoodJobs, JobHolds
  <2> QED
    BY <2>2 DEF x
<1>5. ASSUME NEW p \in {"finWrite", "metaWrite"}, NEW s \in IF p = "finWrite" THEN FinRecords ELSE SavedRecords
      PROVE  [IdleJob EXCEPT !.at = p, !.snap = s] \in GoodJobs
  <2> DEFINE x == [IdleJob EXCEPT !.at = p, !.snap = s]
  <2>1. x \in JobRecords /\ x.at = p /\ x.snap = s
    BY <1>1 DEF JobRecords, JobPlaces, Snaps
  <2> HIDE DEF x
  <2>2. x \in GoodJobs
    BY <2>1 DEF GoodJobs, JobHolds
  <2> QED
    BY <2>2 DEF x
<1> QED
  BY <1>1, <1>2, <1>3, <1>4, <1>5

\* The status of an item, and what MetaRead makes of a job.
LEMMA StatusTyped ==
    ASSUME items \in ItemMaps, NEW id, NEW st \in Statuses, SetStatus(id, st)
    PROVE  items' \in ItemMaps
<1>1. DOMAIN items \subseteq IdSet /\ IsFiniteSet(DOMAIN items) /\ items \in [DOMAIN items -> ItemRecords]
  BY MapFacts
<1>2. DOMAIN items' = DOMAIN items /\ items' \in [DOMAIN items' -> ItemRecords]
  <2>1. CASE id \in DOMAIN items
    <3>1. [items[id] EXCEPT !.st = st] \in ItemRecords
      BY <1>1, <2>1 DEF ItemRecords
    <3>2. items' = [items EXCEPT ![id] = [items[id] EXCEPT !.st = st]]
      BY <2>1 DEF SetStatus
    <3> QED
      BY <1>1, <2>1, <3>1, <3>2
  <2>2. CASE id \notin DOMAIN items
    BY <1>1, <2>2 DEF SetStatus
  <2> QED
    BY <2>1, <2>2
<1> QED
  BY <1>1, <1>2, MapFacts

LEMMA MetaReadTyped == Typed => MetaRead \in GoodJobs
BY SnapshotTypes, GoodIdleJobs DEF MetaRead

\* The message of an id is one of a list.
LEMMA MessageFacts ==
    ASSUME NEW id \in IdSet
    PROVE  Message(id) \in Messages /\ IsId(id)
BY DEF IdSet, Message, Messages, IsId

\* The job as it is.
LEMMA JobHeld ==
    ASSUME Typed, NEW j \in Jobs
    PROVE  jobs[j] \in JobRecords /\ JobHolds(jobs[j])
BY DEF Typed, GoodJobs

LEMMA DownloadTyped ==
    ASSUME Typed, NEW j \in Jobs,
           StartDownload(j) \/ Promote(j) \/ MarkCompleted(j) \/ DownloadStops(j) \/ FinishDownload(j)
    PROVE  Typed'
<1> DEFINE x == jobs[j]
<1>1. x \in JobRecords /\ JobHolds(x)
  BY JobHeld
<1>2. importer' = importer /\ UNCHANGED <<fingerprint, importing, importTotal>> /\ UNCHANGED <<kv, meta, mixed>>
  BY DEF StartDownload, Promote, MarkCompleted, DownloadStops, FinishDownload, UnchangedImport
<1>3. "caching" \in Statuses /\ "completed" \in Statuses
  BY DEF Statuses
<1>4. CASE StartDownload(j)
  <2>1. PICK id \in queue :
           /\ queue' = queue \ {id}
           /\ \/ /\ jobs' = [jobs EXCEPT ![j] = [IdleJob EXCEPT !.at = "run", !.id = id]]
                 /\ downloading' = downloading \cup {id} /\ cancels' = cancels \cup {id} /\ SetStatus(id, "caching")
              \/ UNCHANGED <<jobs, downloading, cancels, items>>
    BY <1>4 DEF StartDownload
  <2>2. id \in IdSet
    BY DEF Typed, ListTypes
  <2>3. items' \in ItemMaps
    BY <1>3, <2>1, StatusTyped DEF Typed, ListTypes
  <2>4. ListTypes' /\ StoreTypes'
    BY <1>2, <1>4, <2>1, <2>2, <2>3 DEF StartDownload, Typed, ListTypes, StoreTypes
  <2>5. jobs' = jobs \/ \E y \in GoodJobs : jobs' = [jobs EXCEPT ![j] = y]
    BY <2>1, <2>2, GoodIdleJobs
  <2> QED
    BY <1>2, <2>4, <2>5, JobTyped DEF Typed
<1>5. CASE Promote(j)
  <2>1. x.at = "run" /\ jobs' = [jobs EXCEPT ![j] = [x EXCEPT !.at = "mark"]]
    BY <1>5 DEF Promote
  <2>2. [x EXCEPT !.at = "mark"] \in GoodJobs
    <3> DEFINE y == [x EXCEPT !.at = "mark"]
    <3>1. y \in JobRecords /\ y.at = "mark" /\ y.id = x.id
      BY <1>1 DEF JobRecords, JobPlaces
    <3> HIDE DEF y
    <3>2. y \in GoodJobs
      BY <1>1, <2>1, <3>1 DEF GoodJobs, JobHolds
    <3> QED
      BY <3>2 DEF y
  <2>3. Message(x.id) \in Messages
    BY <1>1, <2>1, MessageFacts DEF JobHolds
  <2>4. /\ file' = file \cup {Message(x.id)} /\ tmp' = tmp \ {Message(x.id)} /\ got' = got \cup {Message(x.id)}
        /\ UNCHANGED <<items, finished, downloading>> /\ UNCHANGED <<cancels, queue>>
    BY <1>5 DEF Promote
  <2>5. ListTypes' /\ StoreTypes'
    BY <1>2, <2>3, <2>4 DEF Typed, ListTypes, StoreTypes
  <2> QED
    BY <1>2, <2>1, <2>2, <2>5, JobTyped
<1>6. CASE MarkCompleted(j) \/ DownloadStops(j)
  <2>1. PICK res \in {"completed", "error", "paused"} :
           jobs' = [jobs EXCEPT ![j] = [x EXCEPT !.at = "end", !.res = res]]
    BY <1>6 DEF MarkCompleted, DownloadStops
  <2>2. x.at \in {"run", "mark"}
    BY <1>6 DEF MarkCompleted, DownloadStops
  <2>3. x.id \in IdSet
    BY <1>1, <2>2 DEF JobHolds
  <2>4. [x EXCEPT !.at = "end", !.res = res] \in GoodJobs
    <3> DEFINE y == [x EXCEPT !.at = "end", !.res = res]
    <3>1. y \in JobRecords /\ y.at = "end" /\ y.id = x.id /\ y.res = res
      BY <1>1 DEF JobRecords, JobPlaces, Outcomes
    <3> HIDE DEF y
    <3>2. y \in GoodJobs
      BY <2>3, <3>1 DEF GoodJobs, JobHolds, Statuses
    <3> QED
      BY <3>2 DEF y
  <2>5. Position(x.id) \in Nat /\ Message(x.id) \in Messages
    BY <2>3, MessageFacts DEF IdSet, Position
  <2>6. items' \in ItemMaps /\ finished' \subseteq Nat
    <3>1. CASE MarkCompleted(j)
      <4>1. SetStatus(x.id, "completed") /\ (finished' = finished \/ finished' = finished \cup {Position(x.id)})
        BY <3>1 DEF MarkCompleted
      <4> QED
        BY <1>3, <2>5, <4>1, StatusTyped DEF Typed, ListTypes
    <3>2. CASE DownloadStops(j)
      BY <3>2 DEF DownloadStops, Typed, ListTypes
    <3> QED
      BY <1>6, <3>1, <3>2
  <2>7. /\ tmp' = tmp \/ tmp' = tmp \cup ({Message(x.id)} \ file)
        /\ UNCHANGED <<downloading, cancels, queue>> /\ UNCHANGED <<file, got>>
    BY <1>6 DEF MarkCompleted, DownloadStops
  <2>8. ListTypes' /\ StoreTypes'
    BY <1>2, <2>5, <2>6, <2>7 DEF Typed, ListTypes, StoreTypes
  <2> QED
    BY <1>2, <2>1, <2>4, <2>8, JobTyped
<1>7. CASE FinishDownload(j)
  <2>1. /\ x.at = "end" /\ jobs' = [jobs EXCEPT ![j] = [IdleJob EXCEPT !.at = "finRead"]]
        /\ downloading' \subseteq downloading /\ cancels' \subseteq cancels
        /\ UNCHANGED items \/ SetStatus(x.id, x.res)
        /\ UNCHANGED <<finished, queue>> /\ UNCHANGED <<file, tmp, got>>
    BY <1>7 DEF FinishDownload
  <2>2. x.res \in Statuses
    BY <1>1, <2>1 DEF JobHolds
  <2>3. items' \in ItemMaps
    BY <2>1, <2>2, StatusTyped DEF Typed, ListTypes
  <2>4. ListTypes' /\ StoreTypes'
    BY <1>2, <2>1, <2>3 DEF Typed, ListTypes, StoreTypes
  <2>5. [IdleJob EXCEPT !.at = "finRead"] \in GoodJobs
    BY GoodIdleJobs
  <2> QED
    BY <1>2, <2>1, <2>4, <2>5, JobTyped
<1> QED
  BY <1>4, <1>5, <1>6, <1>7

LEMMA SaverTyped ==
    ASSUME Typed, NEW j \in Jobs, FinRead(j) \/ FinWrite(j) \/ RequestSaves(j) \/ MetaWrite(j)
    PROVE  Typed'
<1> DEFINE x == jobs[j]
<1>1. x \in JobRecords /\ JobHolds(x)
  BY JobHeld
<1>2. /\ UNCHANGED <<items, fingerprint, finished>> /\ UNCHANGED <<importing, importTotal, mixed>>
      /\ UNCHANGED <<queue, downloading, cancels>> /\ UNCHANGED <<file, tmp, got>> /\ importer' = importer
  BY DEF FinRead, FinWrite, RequestSaves, MetaWrite, JobOnly, UnchangedImport
<1>3. ListTypes'
  BY <1>2, SameTypes DEF Typed
<1>4. \E y \in GoodJobs : jobs' = [jobs EXCEPT ![j] = y]
  BY SnapshotTypes, MetaReadTyped, GoodIdleJobs DEF FinRead, FinWrite, RequestSaves, MetaWrite, JobOnly
<1>5. StoreTypes'
  <2>1. CASE FinWrite(j)
    <3>1. kv' = [kv EXCEPT ![x.snap.fp] = x.snap.fin] /\ meta' = meta /\ x.at = "finWrite"
      BY <2>1 DEF FinWrite
    <3>2. x.snap \in FinRecords
      BY <1>1, <3>1 DEF JobHolds
    <3> QED
      BY <1>2, <3>1, <3>2 DEF Typed, StoreTypes, FinRecords
  <2>2. CASE MetaWrite(j)
    <3>1. Store(x.snap) /\ kv' = kv /\ x.at = "metaWrite"
      BY <2>2 DEF MetaWrite
    <3>2. x.snap \in SavedRecords
      BY <1>1, <3>1 DEF JobHolds
    <3>3. meta' \in [Lists -> MetaRecords \cup {None}]
      BY <3>1, <3>2, StoredTypes DEF Typed, StoreTypes
    <3> QED
      BY <1>2, <3>1, <3>3 DEF Typed, StoreTypes
  <2>3. CASE FinRead(j) \/ RequestSaves(j)
    <3>1. UNCHANGED <<kv, meta>>
      BY <2>3 DEF FinRead, RequestSaves
    <3> QED
      BY <1>2, <3>1, SameTypes DEF Typed
  <2> QED
    BY <2>1, <2>2, <2>3
<1> QED
  BY <1>2, <1>3, <1>4, <1>5, JobTyped

LEMMA UserTyped ==
    ASSUME Typed, NEW id \in DOMAIN items, Enqueue(id) \/ \E j \in Jobs : Pause(j, id) \/ ItemError(j, id)
    PROVE  Typed'
<1>1. /\ UNCHANGED <<fingerprint, finished>> /\ UNCHANGED <<importing, importTotal, mixed>>
      /\ UNCHANGED <<downloading, cancels>> /\ UNCHANGED <<kv, meta>> /\ UNCHANGED <<file, tmp, got>>
      /\ importer' = importer /\ queue' \subseteq queue \cup {id}
  BY DEF Enqueue, Pause, ItemError, UnchangedImport
<1>2. DOMAIN items \subseteq IdSet /\ IsFiniteSet(DOMAIN items) /\ items \in [DOMAIN items -> ItemRecords]
  BY MapFacts DEF Typed, ListTypes
<1>3. id \in IdSet /\ items[id] \in ItemRecords /\ {"error", "queued", "paused"} \subseteq Statuses
  BY <1>2 DEF Statuses
<1>4. ASSUME NEW r \in ItemRecords, items' = [items EXCEPT ![id] = r] PROVE items' \in ItemMaps
  <2>1. DOMAIN items' = DOMAIN items /\ items' \in [DOMAIN items' -> ItemRecords]
    BY <1>2, <1>4
  <2> QED
    BY <1>2, <2>1, MapFacts
<1>5. items' \in ItemMaps
  <2>1. CASE Enqueue(id)
    <3>1. [items[id] EXCEPT !.manual = FALSE] \in ItemRecords
      BY <1>3 DEF ItemRecords
    <3> QED
      BY <1>4, <2>1, <3>1 DEF Enqueue
  <2>2. ASSUME NEW j \in Jobs, Pause(j, id) PROVE items' \in ItemMaps
    <3>1. [items[id] EXCEPT !.manual = TRUE] \in ItemRecords
          /\ \A st \in Statuses : [items[id] EXCEPT !.manual = TRUE, !.st = st] \in ItemRecords
      BY <1>3 DEF ItemRecords
    <3>2. items[id].st \in Statuses
      BY <1>3 DEF ItemRecords
    <3>3. \E r \in ItemRecords : items' = [items EXCEPT ![id] = r]
      BY <1>3, <2>2, <3>1, <3>2 DEF Pause
    <3> QED
      BY <1>4, <3>3
  <2>3. ASSUME NEW j \in Jobs, ItemError(j, id) PROVE items' \in ItemMaps
    BY <1>3, <2>3, StatusTyped DEF ItemError, Typed, ListTypes
  <2> QED
    BY <2>1, <2>2, <2>3
<1>6. ListTypes' /\ StoreTypes'
  BY <1>1, <1>3, <1>5 DEF Typed, ListTypes, StoreTypes
<1>7. jobs' = jobs \/ \E j \in Jobs : \E y \in GoodJobs : jobs' = [jobs EXCEPT ![j] = y]
  BY GoodIdleJobs DEF Enqueue, Pause, ItemError, Request
<1> QED
  BY <1>1, <1>6, <1>7, JobTyped DEF Typed

LEMMA CrashTyped == Typed /\ Crash => Typed'
<1> SUFFICES ASSUME Typed, Crash PROVE Typed'
  OBVIOUS
<1>1. /\ items' = <<>> /\ fingerprint' = None /\ finished' = {} /\ importing' = FALSE /\ importTotal' = 0
      /\ downloading' = {} /\ cancels' = {} /\ queue' = {} /\ UNCHANGED <<kv, meta, mixed>>
      /\ UNCHANGED <<file, tmp, got>>
      /\ importer' = FirstImporters /\ jobs' = [j \in Jobs |-> IdleJob]
  BY DEF Crash
<1>2. ListTypes' /\ StoreTypes'
  BY <1>1, EmptyMap DEF Typed, ListTypes, StoreTypes
<1>3. importer' \in [Importers -> GoodImporters] /\ jobs' \in [Jobs -> GoodJobs]
  BY <1>1, IdleImportFacts, GoodIdleJobs
<1> QED
  BY <1>2, <1>3 DEF Typed

LEMMA TypedStep == Typed /\ [ImportNext]_importVars => Typed'
<1> SUFFICES ASSUME Typed, [ImportNext]_importVars PROVE Typed'
  OBVIOUS
<1>1. CASE \E g \in Importers : ImportStep(g)
  BY <1>1, ImportTyped
<1>2. ASSUME NEW j \in Jobs, JobStep(j) PROVE Typed'
  BY <1>2, DownloadTyped, SaverTyped, UserTyped DEF JobStep
<1>3. ASSUME NEW id \in DOMAIN items, Enqueue(id) PROVE Typed'
  BY <1>3, UserTyped
<1>4. CASE MoveFile \/ UNCHANGED importVars
  <2>1. /\ UNCHANGED <<items, fingerprint, finished>> /\ UNCHANGED <<importing, importTotal, mixed>>
        /\ UNCHANGED <<queue, downloading, cancels>> /\ UNCHANGED <<kv, meta>> /\ UNCHANGED <<tmp, got>>
        /\ UNCHANGED <<importer, jobs>> /\ file' \subseteq file
    BY <1>4 DEF MoveFile, UnchangedImport, importVars
  <2>2. ListTypes' /\ StoreTypes'
    BY <2>1 DEF Typed, ListTypes, StoreTypes
  <2> QED
    BY <2>1, <2>2 DEF Typed
<1> QED
  BY <1>1, <1>2, <1>3, <1>4, CrashTyped DEF ImportNext

LEMMA TypedIsOK == Typed => TypeOK
<1> SUFFICES ASSUME Typed PROVE TypeOK
  OBVIOUS
<1>1. DOMAIN items \subseteq IdSet /\ items \in [DOMAIN items -> ItemRecords]
  BY MapFacts DEF Typed, ListTypes
<1>2. \A id \in DOMAIN items \cup downloading \cup queue \cup cancels : IsId(id)
  BY <1>1, MessageFacts DEF Typed, ListTypes
<1> QED
  BY <1>1, <1>2 DEF TypeOK, Typed, ListTypes, StoreTypes, ItemRecords

\* What is kept of a list has its types: ids of lists, statuses, positions and messages,
\* however many imports go on at once.
THEOREM ImportTypeInvariant == ImportSpec => []TypeOK
<1>1. ImportInit => Typed
  BY TypedInit
<1>2. Typed /\ [ImportNext]_importVars => Typed'
  BY TypedStep
<1>3. Typed => TypeOK
  BY TypedIsOK
<1> QED
  BY <1>1, <1>2, <1>3, PTL DEF ImportSpec
-----------------------------------------------------------------------------
(* One import at a time. *)

\* Nobody else works, and what imp is when one goes on.
LEMMA ImpIs ==
    ASSUME NEW g \in Importers, \A k \in Importers : Working(k) => k = g
    PROVE  imp = IF Working(g) THEN importer[g] ELSE IdleImport
BY DEF imp

LEMMA GoesAlone ==
    ASSUME Typed, Alone, NEW g \in Importers, \A k \in Importers : Working(k) => k = g,
           NEW r, importer' = Goes(g, r), r.fin = None, r.at # "metaWrite",
           r.at \notin {"idle", "down"} => importing' = TRUE
    PROVE  Alone' /\ imp' = IF r.at \in {"idle", "down"} THEN IdleImport ELSE r
<1>1. importer'[g] = r /\ \A k \in Importers \ {g} : importer'[k] = importer[k]
  BY DEF Typed, Goes
<1>2. \A k \in Importers : Working(k)' => k = g
  BY <1>1 DEF Working
<1>3. Working(g)' <=> r.at \notin {"idle", "down"}
  BY <1>1 DEF Working
<1>4. imp' = IF r.at \in {"idle", "down"} THEN IdleImport ELSE r
  <2>1. CASE Working(g)'
    <3>1. (CHOOSE k \in Importers : Working(k)') = g
      BY <1>2, <2>1
    <3> QED
      BY <1>1, <1>3, <2>1, <3>1 DEF imp
  <2>2. CASE ~Working(g)'
    BY <1>2, <1>3, <2>2 DEF imp
  <2> QED
    BY <2>1, <2>2
<1>5. Alone'
  BY <1>1, <1>2, <1>3 DEF Alone
<1> QED
  BY <1>4, <1>5

\* The goroutine that works is imp, and goes on alone.
LEMMA Focus ==
    ASSUME Typed, Alone, NEW g \in Importers, Working(g)
    PROVE  /\ imp = importer[g] /\ imp \in ImporterRecords /\ imp.fin = None /\ importing = TRUE
           /\ \A k \in Importers : Working(k) => k = g
           /\ \A r : importer' = Goes(g, r) /\ r.fin = None /\ importing' = importing
                     /\ r.at \notin {"idle", "down", "metaWrite"} => imp' = r /\ Alone'
           /\ importer' = Goes(g, IdleImport) => imp' = IdleImport /\ Alone'
<1>1. \A k \in Importers : Working(k) => k = g
  BY DEF Alone
<1>2. imp = importer[g] /\ imp \in ImporterRecords /\ imp.fin = None /\ importing = TRUE
  BY <1>1, ImpIs DEF Alone, Typed, GoodImporters
<1>3. ASSUME NEW r, importer' = Goes(g, r), r.fin = None, importing' = importing,
             r.at \notin {"idle", "down", "metaWrite"}
      PROVE  imp' = r /\ Alone'
  BY <1>1, <1>2, <1>3, GoesAlone
<1>4. ASSUME importer' = Goes(g, IdleImport) PROVE imp' = IdleImport /\ Alone'
  <2>1. IdleImport.fin = None /\ IdleImport.at = "idle"
    BY DEF IdleImport
  <2> QED
    BY <1>1, <1>4, <2>1, GoesAlone
<1> QED
  BY <1>1, <1>2, <1>3, <1>4

\* No scan holds a map when one resets.
LEMMA NoMaps ==
    ASSUME Typed, NEW g \in Importers, \A k \in Importers : Working(k) => k = g, NEW r, r.at # "publish"
    PROVE  KeepMaps(Goes(g, r)) = Goes(g, r)
<1>1. \A k \in Importers : Goes(g, r)[k].at # "publish"
  BY DEF Typed, Goes, Working
<1>2. Goes(g, r) = [k \in Importers |-> Goes(g, r)[k]]
  BY DEF Typed, Goes
<1> QED
  BY <1>1, <1>2 DEF KeepMaps

-----------------------------------------------------------------------------
(* The import goroutine, where it changes nothing but itself. *)

\* At the start nobody imports.
LEMMA FirstAlone ==
    ASSUME importer = FirstImporters
    PROVE  imp = IdleImport /\ imp \in ImporterRecords /\ imp.at = "idle" /\ Alone
<1>1. IdleImport.at = "idle" /\ IdleImport.fin = None /\ IdleImport \in ImporterRecords
  BY IdleImportFacts DEF IdleImport, GoodImporters
<1>2. \A g \in Importers : importer[g].fin = None /\ importer[g].at \in {"down", "idle"}
  BY DEF FirstImporters, IdleImport
<1> QED
  BY <1>1, <1>2 DEF imp, Alone, Working

LEMMA ImportInitInv == ImportInit => ImportInv /\ Alone
<1> SUFFICES ASSUME ImportInit PROVE ImportInv /\ Alone
  OBVIOUS
<1>1. importer = FirstImporters
  BY DEF ImportInit
<1>2. imp = IdleImport /\ imp \in ImporterRecords /\ imp.at = "idle" /\ Alone
  BY <1>1, FirstAlone
<1>3. jobs \in [Jobs -> JobRecords] /\ \A j \in Jobs : jobs[j].at = "idle"
  BY IdleJobFacts DEF ImportInit, JobPlaces
<1>4. items \in ItemMaps /\ DOMAIN items = {} /\ IsFiniteSet(DOMAIN items)
  BY EmptyMap DEF ImportInit
<1>5. ImportTypes
  BY <1>2, <1>3, <1>4 DEF ImportInit, ImportTypes
<1>6. HeldTypes
  BY <1>2, <1>3 DEF HeldTypes
<1>7. ListShape
  BY <1>2, <1>4 DEF ListShape, ImportInit
<1>8. CacheShape
  BY <1>2, <1>3 DEF CacheShape, ImportInit
<1>9. ClaimsHeld
  BY <1>2, <1>3 DEF ClaimsHeld, ImportInit
<1>10. FinishedHad /\ CachedWhole
  <2>1. \A l \in Lists : Claims(l, kv[l]) = {}
    BY DEF ImportInit, Claims
  <2> QED
    BY <1>2, <1>4, <2>1 DEF FinishedHad, CachedWhole, ImportInit
<1> QED
  BY <1>2, <1>5, <1>6, <1>7, <1>8, <1>9, <1>10 DEF ImportInv

\* What it holds is as claimed of the place it goes to.
Arrives(i) ==
    /\ i \in ImporterRecords
    /\ i.at \in {"parse", "reset", "cache", "scan", "publish", "build", "finRead", "finWrite"}
          => i.list # <<>>
    /\ i.at \in {"url", "fetch"} => i.url # <<>>
    /\ i.at = "reset" => Downloaded(i.list, i.loaded)
    /\ i.at \in {"scan", "publish"} => i.cached \in ItemMaps /\ DOMAIN i.cached = IdsOf(i.list)
    /\ i.at = "scan" => NoneDone(i.cached)
    /\ i.at = "publish" => DoneHad(i.cached)
    /\ i.at = "finWrite" => i.snap \in FinRecords /\ Downloaded(i.snap.fp, i.snap.fin)

\* The list is as claimed, and so is what counts as finished of it.
ListKept ==
    /\ items \in ItemMaps /\ IsFiniteSet(DOMAIN items) /\ DoneHad(items)
    /\ fingerprint \in Lists \cup {None} /\ finished \subseteq Nat
    /\ fingerprint # None => Downloaded(fingerprint, finished)

RecordsKept ==
    /\ kv \in [Lists -> SUBSET Nat] /\ queue \subseteq IdSet
    /\ \A l \in Lists : Downloaded(l, kv[l])

LEMMA AllKept == ImportInv => ListKept /\ RecordsKept
BY DEF ImportInv, ImportTypes, FinishedHad, ListKept, RecordsKept, Downloaded, DoneHad, Had

LEMMA SameKept ==
    /\ ListKept /\ UNCHANGED <<items, fingerprint, finished, got>> => ListKept'
    /\ RecordsKept /\ UNCHANGED <<kv, queue, got>> => RecordsKept'
BY DEF ListKept, RecordsKept, Downloaded, DoneHad, Had

LEMMA ImporterMoves ==
    ASSUME ImportInv, UNCHANGED <<jobs, meta, file, got>>, ListKept', RecordsKept',
           NEW i, imp' = i, Arrives(i), ListShape'
    PROVE  ImportInv'
<1>1. ImportTypes'
  BY DEF ImportInv, ImportTypes, Arrives, ListKept, RecordsKept
<1>2. HeldTypes'
  BY DEF ImportInv, HeldTypes, Arrives
<1>3. CacheShape'
  BY DEF ImportInv, CacheShape, Arrives
<1>4. ClaimsHeld'
  BY DEF ImportInv, ClaimsHeld, Downloaded, DoneHad, Had, Arrives
<1>5. FinishedHad' /\ CachedWhole'
  BY DEF FinishedHad, CachedWhole, Had, Arrives, ListKept, RecordsKept, Downloaded, DoneHad
<1> QED
  BY <1>1, <1>2, <1>3, <1>4, <1>5 DEF ImportInv

\* It changes nothing but itself.
LEMMA OnlyImporter ==
    ASSUME ImportInv, UnchangedJobs, UNCHANGED <<items, fingerprint, finished>>, UNCHANGED <<queue, kv>>,
           NEW i, imp' = i, Arrives(i), ListShape'
    PROVE  ImportInv'
<1>1. UNCHANGED <<jobs, meta, file, got>>
  BY DEF UnchangedJobs
<1>2. ListKept' /\ RecordsKept'
  BY <1>1, AllKept, SameKept
<1> QED
  BY <1>1, <1>2, ImporterMoves

\* An importer begins, when nobody else works.
LEMMA BeginInv ==
    ASSUME Typed, Alone, ImportInv, NEW g \in Importers, ~Working(g), ~mixed',
           NEW p \in {"parse", "url", "chat"}, NEW l \in ListsOrNot, NEW u \in ListsOrNot, Begin(g, p, l, u),
           p = "parse" => l # <<>>, p = "url" => l = <<>> /\ u # <<>>,
           UnchangedJobs \/ UNCHANGED <<jobs, meta, file, got>>,
           UNCHANGED <<items, fingerprint, finished>>, UNCHANGED <<queue, kv>>
    PROVE  ImportInv' /\ Alone'
<1> DEFINE i == [IdleImport EXCEPT !.at = p, !.list = l, !.url = u]
<1>1. importing' = TRUE /\ importer' = Goes(g, i) /\ \A k \in Importers : Working(k) => k = g
  BY DEF Begin
<1>2. IdleImport \in ImporterRecords /\ IdleImport.fin = None /\ {"parse", "url", "chat"} \subseteq ImportPlaces
  BY IdleImportFacts DEF IdleImport, GoodImporters, ImportPlaces
<1>3. i \in ImporterRecords /\ i.at = p /\ i.list = l /\ i.url = u /\ i.fin = None
  BY <1>2 DEF ImporterRecords
<1> HIDE DEF i
<1>4. imp' = i /\ Alone'
  BY <1>1, <1>3, GoesAlone
<1>5. Arrives(i)
  BY <1>3 DEF Arrives
<1>6. IdsOf(<<>>) = {}
  BY DEF IdsOf
<1>7. ListShape'
  BY <1>3, <1>4, <1>6 DEF ImportInv, ListShape
<1>8. UNCHANGED <<jobs, meta, file, got>>
  BY DEF UnchangedJobs
<1>9. ListKept' /\ RecordsKept'
  BY <1>8, AllKept, SameKept
<1> QED
  BY <1>4, <1>5, <1>7, <1>8, <1>9, ImporterMoves

\* One that does not work does not begin to.
LEMMA NothingGoes ==
    ASSUME Typed, Alone, NEW g \in Importers, ~Working(g), importer' = Goes(g, IdleImport), importing' = importing
    PROVE  imp' = imp /\ Alone'
<1>1. IdleImport.at = "idle" /\ IdleImport.fin = None
  BY DEF IdleImport
<1>2. importer'[g] = IdleImport /\ \A k \in Importers \ {g} : importer'[k] = importer[k]
  BY DEF Typed, Goes
<1>3. \A k \in Importers : (Working(k)' <=> Working(k)) /\ (Working(k) => importer'[k] = importer[k])
  BY <1>1, <1>2 DEF Working
<1>4. imp' = imp
  <2>1. CASE \E k \in Importers : Working(k)
    <3>1. PICK k \in Importers : Working(k)
      BY <2>1
    <3>2. \A h \in Importers : Working(h) => h = k
      BY <3>1 DEF Alone
    <3>3. (CHOOSE h \in Importers : Working(h)) = k /\ (CHOOSE h \in Importers : Working(h)') = k
      BY <1>3, <3>1, <3>2
    <3> QED
      BY <1>3, <3>1, <3>3 DEF imp
  <2>2. CASE ~(\E k \in Importers : Working(k))
    BY <1>3, <2>2 DEF imp
  <2> QED
    BY <2>1, <2>2
<1>5. Alone'
  BY <1>1, <1>2, <1>3 DEF Alone
<1> QED
  BY <1>4, <1>5

\* Nothing changes but, maybe, what importers hold that do not work.
LEMMA NothingMoves ==
    ASSUME ImportInv, imp' = imp, UnchangedJobs, UNCHANGED <<items, fingerprint, finished>>, UNCHANGED <<queue, kv>>
    PROVE  ImportInv'
<1>1. UNCHANGED <<jobs, meta, file, got>>
  BY DEF UnchangedJobs
<1> QED
  BY <1>1 DEF ImportInv, ImportTypes, HeldTypes, ListShape, CacheShape, ClaimsHeld, FinishedHad, CachedWhole,
              Downloaded, DoneHad, Had

LEMMA LaunchInv ==
    ASSUME Typed, Alone, ImportInv, NEW g \in Importers, Launch(g) \/ HandleImport(g) \/ LoadChat(g), ~mixed'
    PROVE  ImportInv' /\ Alone'
<1>1. ~Working(g) /\ UNCHANGED <<items, fingerprint, finished>> /\ UNCHANGED <<queue, kv>>
      /\ (UnchangedJobs \/ UNCHANGED <<jobs, meta, file, got>>)
  BY DEF Launch, HandleImport, LoadChat, Working, UnchangedJobs
<1>2. \A q \in Exports \cup Urls \cup {<<>>}, r \in Ranges : Filtered(q, r) \in ListsOrNot
  BY FilteredFacts
<1>3. <<>> \in ListsOrNot
  BY DEF ListsOrNot
<1>4. ASSUME NEW l \in ListsOrNot, NEW u \in ListsOrNot, Start(g, l, u), ~(l = <<>> /\ u = <<>>)
      PROVE  ImportInv' /\ Alone'
  <2>1. Begin(g, IF l # <<>> THEN "parse" ELSE "url", l, u)
    BY <1>4 DEF Start
  <2> QED
    BY <1>1, <1>4, <2>1, BeginInv
<1>5. CASE LoadChat(g)
  <2>1. Begin(g, "chat", <<>>, <<>>)
    BY <1>5 DEF LoadChat
  <2> QED
    BY <1>1, <1>3, <2>1, BeginInv
<1>6. CASE HandleImport(g)
  <2>1. PICK r \in Ranges, f \in Exports : Filtered(f, r) # <<>> /\ Start(g, Filtered(f, r), <<>>)
    BY <1>6 DEF HandleImport
  <2> QED
    BY <1>2, <1>3, <1>4, <2>1
<1>7. CASE Launch(g)
  <2>1. \/ importer' = Goes(g, IdleImport) /\ importing' = importing
        \/ \E l \in ListsOrNot, u \in ListsOrNot : Start(g, l, u) /\ ~(l = <<>> /\ u = <<>>)
    BY <1>2, <1>7 DEF Launch
  <2>2. CASE importer' = Goes(g, IdleImport) /\ importing' = importing
    BY <1>1, <1>7, <2>2, NothingGoes, NothingMoves DEF Launch
  <2> QED
    BY <1>4, <2>1, <2>2
<1> QED
  BY <1>5, <1>6, <1>7

LEMMA ImportStopsInv ==
    ASSUME Typed, Alone, ImportInv, NEW g \in Importers, ImportFails(g) \/ ImportEnds(g) \/ ChatPageLoaded(g)
    PROVE  ImportInv' /\ Alone'
<1>1. /\ UnchangedJobs /\ UNCHANGED <<items, fingerprint, finished>> /\ UNCHANGED <<queue, kv>>
      /\ importer' = Goes(g, IdleImport) /\ Working(g)
  BY DEF ImportFails, ImportEnds, ChatPageLoaded, SetImportingFalse, Working
<1>2. imp' = IdleImport /\ Alone'
  BY <1>1, Focus
<1>3. IdleImport \in ImporterRecords /\ IdleImport.at = "idle"
  BY IdleImportFacts DEF GoodImporters, IdleImport
<1>4. Arrives(IdleImport)
  BY <1>3 DEF Arrives
<1>5. ListShape'
  BY <1>1, <1>2, <1>3 DEF ImportInv, ListShape
<1> QED
  BY <1>1, <1>2, <1>4, <1>5, OnlyImporter

\* What --continue loads of a list was downloaded.
LEMMA LoadedFacts ==
    ASSUME ImportInv, NEW l \in Lists
    PROVE  LoadFinished(l) \in SUBSET Nat /\ Downloaded(l, LoadFinished(l))
BY DEF ImportInv, ImportTypes, FinishedHad, LoadFinished, Downloaded, Claims, Had

\* The list of an import under way is one of the lists.
LEMMA ImportedList ==
    ASSUME ImportInv
    PROVE  /\ imp.list # <<>> => imp.list \in Lists
           /\ imp.url # <<>> => imp.url \in Lists
BY DEF ImportInv, ImportTypes, ImporterRecords, ListsOrNot

LEMMA ParseInv ==
    ASSUME Typed, Alone, ImportInv, NEW g \in Importers, Parse(g)
    PROVE  ImportInv' /\ Alone'
<1> DEFINE i == [imp EXCEPT !.at = "reset", !.loaded = LoadFinished(imp.list)]
<1>alone. imp = importer[g] /\ imp \in ImporterRecords /\ imp.fin = None /\ importing = TRUE /\ Working(g)
          /\ \A k \in Importers : Working(k) => k = g
  BY Focus DEF Parse, Working
<1>1. UnchangedJobs /\ UNCHANGED <<items, fingerprint, finished>> /\ UNCHANGED <<queue, kv>>
      /\ importer' = Goes(g, i) /\ imp.at = "parse" /\ importing' = importing
  BY <1>alone DEF Parse
<1>2. imp.list \in Lists /\ imp.list # <<>>
  BY <1>1, ImportedList DEF ImportInv, HeldTypes
<1>3. LoadFinished(imp.list) \in SUBSET Nat /\ Downloaded(imp.list, LoadFinished(imp.list))
  BY <1>2, LoadedFacts
<1>4. imp \in ImporterRecords /\ "reset" \in ImportPlaces
  BY DEF ImportInv, ImportTypes, ImportPlaces
<1>5. i \in ImporterRecords /\ i.at = "reset" /\ i.list = imp.list /\ i.loaded = LoadFinished(imp.list) /\ i.fin = None
  BY <1>alone, <1>3, <1>4 DEF ImporterRecords
<1> HIDE DEF i
<1>goes. imp' = i /\ Alone'
  BY <1>alone, <1>1, <1>5, Focus
<1>6. Arrives(i)
  BY <1>2, <1>3, <1>5 DEF Arrives
<1>7. ListShape'
  BY <1>1, <1>5, <1>goes DEF ImportInv, ListShape
<1> QED
  BY <1>1, <1>6, <1>7, <1>goes, OnlyImporter

LEMMA TakeCacheInv ==
    ASSUME Typed, Alone, ImportInv, NEW g \in Importers, TakeCache(g)
    PROVE  ImportInv' /\ Alone'
<1> DEFINE l == imp.list
           x == [imp EXCEPT !.at = "scan", !.cached = meta[l].items]
           y == [imp EXCEPT !.at = "build", !.i = 1]
<1>alone. imp = importer[g] /\ imp \in ImporterRecords /\ imp.fin = None /\ importing = TRUE /\ Working(g)
          /\ \A k \in Importers : Working(k) => k = g
  BY Focus DEF TakeCache, Working
<1>1. UnchangedJobs /\ UNCHANGED <<items, fingerprint, finished>> /\ UNCHANGED <<queue, kv>>
      /\ imp.at = "cache" /\ importer' = Goes(g, IF LoadMetaCache(l) THEN x ELSE y) /\ importing' = importing
  BY <1>alone DEF TakeCache
<1>2. l \in Lists /\ l # <<>> /\ Len(l) \in Nat
  BY <1>1, ImportedList, ListFacts DEF ImportInv, HeldTypes
<1>3. imp \in ImporterRecords /\ {"scan", "build"} \subseteq ImportPlaces
  BY DEF ImportInv, ImportTypes, ImportPlaces
<1>4. CASE LoadMetaCache(l)
  <2>1. meta[l] # None /\ Cardinality(DOMAIN meta[l].items) = Len(l)
    BY <1>4 DEF LoadMetaCache
  <2>2. PartOf(l, DOMAIN meta[l].items) /\ NoneDone(meta[l].items) /\ meta[l].items \in ItemMaps
    BY <1>2, <2>1 DEF ImportInv, CacheShape, ImportTypes, MetaRecords
  <2>3. DOMAIN meta[l].items = IdsOf(l)
    BY <1>2, <2>1, <2>2, WholeList
  <2>4. x \in ImporterRecords /\ x.at = "scan" /\ x.list = l /\ x.cached = meta[l].items /\ x.fin = None
    BY <1>alone, <1>3, <2>2 DEF ImporterRecords, CachedSet
  <2> HIDE DEF x
  <2>goes. imp' = x /\ Alone'
    BY <1>alone, <1>1, <1>4, <2>4, Focus
  <2>5. Arrives(x)
    BY <1>2, <2>2, <2>3, <2>4 DEF Arrives
  <2>6. ListShape'
    BY <1>1, <2>4, <2>goes DEF ImportInv, ListShape
  <2> QED
    BY <1>1, <2>5, <2>6, <2>goes, OnlyImporter
<1>5. CASE ~LoadMetaCache(l)
  <2>1. y \in ImporterRecords /\ y.at = "build" /\ y.list = l /\ y.i = 1 /\ y.fin = None
    BY <1>alone, <1>3 DEF ImporterRecords
  <2> HIDE DEF y
  <2>goes. imp' = y /\ Alone'
    BY <1>alone, <1>1, <1>5, <2>1, Focus
  <2>2. Arrives(y)
    BY <1>2, <2>1 DEF Arrives
  <2>3. {<<l, k, k>> : k \in 1 .. 1 - 1} = {} /\ 1 \in 1 .. Len(l) + 1
    BY <1>2
  <2>4. ListShape'
    BY <1>1, <2>1, <2>3, <2>goes DEF ImportInv, ListShape
  <2> QED
    BY <1>1, <2>2, <2>4, <2>goes, OnlyImporter
<1> QED
  BY <1>4, <1>5

\* saveFinishedOrClear: what is read under the lock was downloaded.
LEMMA SnapshotFacts ==
    ASSUME ImportInv, fingerprint # None
    PROVE  /\ FinishedSnapshot \in FinRecords
           /\ Downloaded(FinishedSnapshot.fp, FinishedSnapshot.fin)
<1>1. ListKept
  BY AllKept
<1> QED
  BY <1>1 DEF FinishedSnapshot, FinRecords, ListKept, Downloaded, Claims

\* ... and is written, to the record of its list.
LEMMA WrittenFacts ==
    ASSUME ImportInv, NEW s \in FinRecords, Downloaded(s.fp, s.fin),
           kv' = [kv EXCEPT ![s.fp] = s.fin], queue' = queue, got' = got
    PROVE  RecordsKept'
<1>1. RecordsKept /\ s.fin \in SUBSET Nat
  BY AllKept DEF FinRecords
<1>2. kv' \in [Lists -> SUBSET Nat]
  BY <1>1 DEF RecordsKept
<1>3. ASSUME NEW l \in Lists PROVE Downloaded(l, kv'[l])
  BY <1>1 DEF RecordsKept
<1> QED
  BY <1>1, <1>2, <1>3 DEF RecordsKept, Downloaded, Had

LEMMA ImportFinReadInv ==
    ASSUME Typed, Alone, ImportInv, NEW g \in Importers, ImportFinRead(g)
    PROVE  ImportInv' /\ Alone'
<1> DEFINE i == [imp EXCEPT !.at = "finWrite", !.snap = FinishedSnapshot]
<1>alone. imp = importer[g] /\ imp \in ImporterRecords /\ imp.fin = None /\ importing = TRUE /\ Working(g)
          /\ \A k \in Importers : Working(k) => k = g
  BY Focus DEF ImportFinRead, Working
<1>1. UnchangedJobs /\ UNCHANGED <<items, fingerprint, finished>> /\ UNCHANGED <<queue, kv>>
      /\ importer' = Goes(g, i) /\ imp.at = "finRead" /\ importing' = importing
  BY <1>alone DEF ImportFinRead
<1>2. imp.list \in Lists /\ imp.list # <<>> /\ fingerprint # None
  BY <1>1, ImportedList, ImportAssumption DEF ImportInv, HeldTypes, ListShape
<1>3. imp \in ImporterRecords /\ "finWrite" \in ImportPlaces
  BY DEF ImportInv, ImportTypes, ImportPlaces
<1>4. FinishedSnapshot \in FinRecords /\ Downloaded(FinishedSnapshot.fp, FinishedSnapshot.fin)
  BY <1>2, SnapshotFacts
<1>5. i \in ImporterRecords /\ i.at = "finWrite" /\ i.list = imp.list /\ i.snap = FinishedSnapshot /\ i.fin = None
  BY <1>alone, <1>3, <1>4 DEF ImporterRecords, Snaps
<1> HIDE DEF i
<1>goes. imp' = i /\ Alone'
  BY <1>alone, <1>1, <1>5, Focus
<1>6. Arrives(i)
  BY <1>2, <1>4, <1>5 DEF Arrives
<1>7. ListShape'
  BY <1>1, <1>5, <1>goes DEF ImportInv, ListShape
<1> QED
  BY <1>1, <1>6, <1>7, <1>goes, OnlyImporter

LEMMA ImportFinWriteInv ==
    ASSUME Typed, Alone, ImportInv, NEW g \in Importers, ImportFinWrite(g)
    PROVE  ImportInv' /\ Alone'
<1> DEFINE i == [imp EXCEPT !.at = "queue", !.snap = None]
<1>alone. imp = importer[g] /\ imp \in ImporterRecords /\ imp.fin = None /\ importing = TRUE /\ Working(g)
          /\ \A k \in Importers : Working(k) => k = g
  BY Focus DEF ImportFinWrite, Working
<1>1. UNCHANGED <<jobs, meta, file, got>> /\ UNCHANGED <<items, fingerprint, finished, queue>>
      /\ kv' = [kv EXCEPT ![imp.snap.fp] = imp.snap.fin]
      /\ importer' = Goes(g, i) /\ imp.at = "finWrite" /\ importing' = importing
  BY <1>alone DEF ImportFinWrite, UnchangedJobs, ThenSave, MetaWanted
<1>2. imp.list \in Lists /\ fingerprint # None
  BY <1>1, ImportedList, ImportAssumption DEF ImportInv, HeldTypes, ListShape
<1>3. imp \in ImporterRecords /\ "queue" \in ImportPlaces /\ None \in Snaps
  BY DEF ImportInv, ImportTypes, ImportPlaces, Snaps
<1>4. imp.snap \in FinRecords /\ Downloaded(imp.snap.fp, imp.snap.fin)
  BY <1>1 DEF ImportInv, HeldTypes, ClaimsHeld
<1>5. i \in ImporterRecords /\ i.at = "queue" /\ i.list = imp.list /\ i.url = imp.url /\ i.fin = None
  BY <1>alone, <1>3 DEF ImporterRecords
<1> HIDE DEF i
<1>goes. imp' = i /\ Alone'
  BY <1>alone, <1>1, <1>5, Focus
<1>6. Arrives(i)
  BY <1>5 DEF Arrives
<1>7. ListShape'
  BY <1>1, <1>2, <1>5, <1>goes DEF ImportInv, ListShape
<1>8. ListKept'
  BY <1>1, AllKept, SameKept
<1>9. RecordsKept'
  BY <1>1, <1>4, WrittenFacts
<1> QED
  BY <1>1, <1>6, <1>7, <1>8, <1>9, <1>goes, ImporterMoves

LEMMA EnqueueImportedInv ==
    ASSUME Typed, Alone, ImportInv, NEW g \in Importers, EnqueueImported(g)
    PROVE  ImportInv' /\ Alone'
<1> DEFINE i == [imp EXCEPT !.at = IF imp.url = <<>> THEN "done" ELSE "url"]
<1>alone. imp = importer[g] /\ imp \in ImporterRecords /\ imp.fin = None /\ importing = TRUE /\ Working(g)
          /\ \A k \in Importers : Working(k) => k = g
  BY Focus DEF EnqueueImported, Working
<1>1. UNCHANGED <<jobs, meta, file, got>> /\ UNCHANGED <<items, fingerprint, finished, kv>>
      /\ queue' = queue \cup ToQueue
      /\ importer' = Goes(g, i) /\ imp.at = "queue" /\ importing' = importing
  BY <1>alone DEF EnqueueImported, UnchangedJobs
<1>2. imp \in ImporterRecords /\ {"done", "url"} \subseteq ImportPlaces
  BY DEF ImportInv, ImportTypes, ImportPlaces
<1>3. /\ i \in ImporterRecords /\ i.url = imp.url /\ i.list = imp.list /\ i.fin = None
      /\ i.at = IF imp.url = <<>> THEN "done" ELSE "url"
  BY <1>alone, <1>2 DEF ImporterRecords
<1> HIDE DEF i
<1>goes. imp' = i /\ Alone'
  BY <1>alone, <1>1, <1>3, Focus
<1>4. Arrives(i)
  BY <1>3 DEF Arrives
<1>5. ListShape'
  BY <1>1, <1>3, <1>goes DEF ImportInv, ListShape
<1>6. ListKept /\ RecordsKept /\ ListKept'
  BY <1>1, AllKept, SameKept
<1>7. ToQueue \subseteq IdSet
  <2>1. ToQueue \subseteq DOMAIN items
    BY DEF ToQueue
  <2> QED
    BY <1>6, <2>1, MapFacts DEF ListKept
<1>8. RecordsKept'
  BY <1>1, <1>6, <1>7 DEF RecordsKept, Downloaded, Had
<1> QED
  BY <1>1, <1>4, <1>5, <1>6, <1>8, <1>goes, ImporterMoves

-----------------------------------------------------------------------------
(* The import goroutine, where it replaces or builds the list. *)

\* The status an item starts with is completed only when it was downloaded,
LEMMA StatusFacts ==
    ASSUME ImportInv, fingerprint # None, NEW id \in IdsOf(fingerprint), NEW st \in Statuses, st # "completed"
    PROVE  /\ StatusOf(id, finished, st) \in Statuses
           /\ StatusOf(id, finished, st) = "completed" => Message(id) \in Had
<1>1. fingerprint \in Lists /\ Downloaded(fingerprint, finished) /\ file \subseteq got
  BY AllKept DEF ListKept, ImportInv, ClaimsHeld
<1>2. Position(id) \in DOMAIN fingerprint /\ fingerprint[Position(id)] = Message(id)
  BY <1>1, IdFacts
<1>3. Position(id) \in finished => Message(id) \in Had
  BY <1>1, <1>2 DEF Downloaded, Claims
<1>4. Message(id) \in Texts \cup file => Message(id) \in Had
  BY <1>1 DEF Had
<1>5. DiskStatus(Message(id), st) \in Statuses /\ (DiskStatus(Message(id), st) = "completed" => Message(id) \in file)
  BY DEF DiskStatus, Statuses
<1>6. {"completed", "error"} \subseteq Statuses
  BY DEF Statuses
<1> QED
  BY <1>3, <1>4, <1>5, <1>6 DEF StatusOf

\* ... and so are the positions that --skip-same finds there.
LEMMA SkippedFacts ==
    ASSUME ImportInv, fingerprint # None, NEW ids, ids \subseteq IdsOf(fingerprint)
    PROVE  /\ finished \cup SkipSamePositions(ids) \subseteq Nat
           /\ Downloaded(fingerprint, finished \cup SkipSamePositions(ids))
<1>1. fingerprint \in Lists /\ Downloaded(fingerprint, finished) /\ finished \subseteq Nat /\ file \subseteq got
  BY AllKept DEF ListKept, ImportInv, ClaimsHeld
<1>2. DOMAIN fingerprint = 1 .. Len(fingerprint) /\ Len(fingerprint) \in Nat
  BY <1>1, ListFacts
<1>3. ASSUME NEW p \in SkipSamePositions(ids)
      PROVE  p \in DOMAIN fingerprint /\ fingerprint[p] \in Had
  <2>1. PICK id \in ids : p = Position(id) /\ Message(id) \in file
    BY <1>3 DEF SkipSamePositions
  <2> QED
    BY <1>1, <2>1, IdFacts DEF Had
<1>4. SkipSamePositions(ids) \subseteq Nat
  BY <1>2, <1>3
<1> QED
  BY <1>1, <1>3, <1>4 DEF Downloaded, Claims

LEMMA ResetInv ==
    ASSUME Typed, Alone, ImportInv, NEW g \in Importers, Reset(g)
    PROVE  ImportInv' /\ Alone'
<1> DEFINE i == [imp EXCEPT !.at = "cache", !.loaded = {}]
<1>alone. imp = importer[g] /\ imp \in ImporterRecords /\ imp.fin = None /\ importing = TRUE /\ Working(g)
          /\ \A k \in Importers : Working(k) => k = g
  BY Focus DEF Reset, Working
<1>1. UNCHANGED <<jobs, meta, file, got>> /\ UNCHANGED <<queue, kv>>
      /\ items' = <<>> /\ fingerprint' = imp.list /\ finished' = imp.loaded
      /\ importer' = KeepMaps(Goes(g, i)) /\ imp.at = "reset" /\ importing' = importing
  BY <1>alone DEF Reset, ResetImportState, UnchangedJobs
<1>2. imp.list \in Lists /\ imp.list # <<>> /\ imp.list # None
  BY <1>1, ImportedList, ImportAssumption DEF ImportInv, HeldTypes
<1>3. imp \in ImporterRecords /\ "cache" \in ImportPlaces
  BY DEF ImportInv, ImportTypes, ImportPlaces
<1>4. imp.loaded \in SUBSET Nat /\ Downloaded(imp.list, imp.loaded)
  BY <1>1, <1>3 DEF ImporterRecords, ImportInv, ClaimsHeld
<1>5. i \in ImporterRecords /\ i.at = "cache" /\ i.list = imp.list /\ i.fin = None
  BY <1>alone, <1>3 DEF ImporterRecords
<1> HIDE DEF i
<1>goes. imp' = i /\ Alone'
  <2>1. importer' = Goes(g, i)
    BY <1>alone, <1>1, <1>5, NoMaps
  <2> QED
    BY <1>alone, <1>1, <1>5, <2>1, Focus
<1>6. Arrives(i)
  BY <1>2, <1>5 DEF Arrives
<1>7. PartOf(imp.list, {}) /\ Placed(imp.list, {})
  BY <1>2, PartPlaced
<1>8. items' \in ItemMaps /\ DOMAIN items' = {} /\ IsFiniteSet(DOMAIN items')
  BY <1>1, EmptyMap
<1>9. ListShape'
  BY <1>1, <1>2, <1>5, <1>7, <1>8, <1>goes DEF ListShape
<1>10. ListKept'
  BY <1>1, <1>2, <1>4, <1>8 DEF ListKept, DoneHad, Downloaded, Had
<1>11. RecordsKept'
  BY <1>1, AllKept, SameKept
<1> QED
  BY <1>1, <1>6, <1>9, <1>10, <1>11, <1>goes, ImporterMoves

LEMMA ScanInv ==
    ASSUME Typed, Alone, ImportInv, NEW g \in Importers, Scan(g)
    PROVE  ImportInv' /\ Alone'
<1> DEFINE c == imp.cached
           r == Restored(c, finished)
           i == [imp EXCEPT !.at = "publish", !.cached = r]
           f == finished \cup SkipSamePositions(DOMAIN c)
<1>alone. imp = importer[g] /\ imp \in ImporterRecords /\ imp.fin = None /\ importing = TRUE /\ Working(g)
          /\ \A k \in Importers : Working(k) => k = g
  BY Focus DEF Scan, Working
<1>1. UNCHANGED <<jobs, meta, file, got>> /\ UNCHANGED <<queue, kv>> /\ UNCHANGED <<items, fingerprint>>
      /\ finished' = f /\ importer' = Goes(g, i) /\ imp.at = "scan" /\ importing' = importing
  BY <1>alone DEF Scan, UnchangedJobs
<1>2. imp.list \in Lists /\ imp.list # <<>> /\ fingerprint = imp.list /\ fingerprint # None
  BY <1>1, ImportedList, ImportAssumption DEF ImportInv, HeldTypes, ListShape
<1>3. c \in ItemMaps /\ NoneDone(c) /\ DOMAIN c = IdsOf(fingerprint)
  BY <1>1, <1>2 DEF ImportInv, HeldTypes, CacheShape, CachedWhole
<1>4. DOMAIN r = DOMAIN c
  BY DEF Restored
<1>5. ASSUME NEW id \in DOMAIN c
      PROVE  r[id] \in ItemRecords /\ (r[id].st = "completed" => Message(id) \in Had)
  <2>1. c[id] \in ItemRecords /\ c[id].st # "completed" /\ c[id].st \in Statuses
    BY <1>3, MapFacts DEF NoneDone, ItemRecords
  <2> DEFINE s == StatusOf(id, finished, c[id].st)
  <2>2. s \in Statuses /\ (s = "completed" => Message(id) \in Had)
    BY <1>2, <1>3, <2>1, StatusFacts
  <2>3. r[id] = [c[id] EXCEPT !.st = s, !.auto = Message(id) \notin Texts]
    BY DEF Restored
  <2> HIDE DEF s
  <2> QED
    BY <2>1, <2>2, <2>3 DEF ItemRecords
<1>6. r \in ItemMaps
  <2>1. r = [id \in DOMAIN c |-> r[id]]
    BY DEF Restored
  <2>2. r \in [DOMAIN r -> ItemRecords]
    BY <1>4, <1>5, <2>1
  <2> HIDE DEF r
  <2> QED
    BY <1>3, <1>4, <2>2, MapFacts
<1>7. DoneHad(r)
  BY <1>4, <1>5 DEF DoneHad
<1>8. f \subseteq Nat /\ Downloaded(fingerprint, f)
  BY <1>2, <1>3, SkippedFacts
<1> HIDE DEF r, f
<1>9. imp \in ImporterRecords /\ "publish" \in ImportPlaces
  BY DEF ImportInv, ImportTypes, ImportPlaces
<1>10. i \in ImporterRecords /\ i.at = "publish" /\ i.list = imp.list /\ i.cached = r /\ i.fin = None
  BY <1>alone, <1>6, <1>9 DEF ImporterRecords, CachedSet
<1>11. Arrives(i)
  BY <1>2, <1>3, <1>4, <1>6, <1>7, <1>10 DEF Arrives
<1> HIDE DEF i
<1>goes. imp' = i /\ Alone'
  BY <1>alone, <1>1, <1>10, Focus
<1>12. ListShape'
  BY <1>1, <1>10, <1>goes DEF ImportInv, ListShape
<1>13. ListKept' /\ RecordsKept'
  BY <1>1, <1>8, AllKept, SameKept DEF ListKept, DoneHad, Downloaded, Had
<1> QED
  BY <1>1, <1>11, <1>12, <1>13, <1>goes, ImporterMoves

LEMMA PublishInv ==
    ASSUME Typed, Alone, ImportInv, NEW g \in Importers, Publish(g)
    PROVE  ImportInv' /\ Alone'
<1> DEFINE i == [imp EXCEPT !.at = "finRead", !.cached = None, !.fin = None]
<1>alone. imp = importer[g] /\ imp \in ImporterRecords /\ imp.fin = None /\ importing = TRUE /\ Working(g)
          /\ \A k \in Importers : Working(k) => k = g
  BY Focus DEF Publish, Working
<1>1. UNCHANGED <<jobs, meta, file, got>> /\ UNCHANGED <<queue, kv>> /\ UNCHANGED <<finished, fingerprint>>
      /\ items' = imp.cached /\ importer' = Goes(g, i) /\ imp.at = "publish" /\ importing' = importing
  BY <1>alone DEF Publish, UnchangedJobs
<1>2. imp.list \in Lists /\ imp.list # <<>> /\ fingerprint = imp.list /\ fingerprint # None
  BY <1>1, ImportedList, ImportAssumption DEF ImportInv, HeldTypes, ListShape
<1>3. imp.cached \in ItemMaps /\ DOMAIN imp.cached = IdsOf(fingerprint) /\ DoneHad(imp.cached)
  BY <1>1, <1>2 DEF ImportInv, HeldTypes, ClaimsHeld, CachedWhole
<1>4. imp \in ImporterRecords /\ "finRead" \in ImportPlaces /\ None \in CachedSet
  BY DEF ImportInv, ImportTypes, ImportPlaces, CachedSet
<1>5. i \in ImporterRecords /\ i.at = "finRead" /\ i.list = imp.list /\ i.fin = None
  BY <1>4 DEF ImporterRecords, MapsHeld
<1>6. Arrives(i)
  BY <1>2, <1>5 DEF Arrives
<1> HIDE DEF i
<1>goes. imp' = i /\ Alone'
  BY <1>alone, <1>1, <1>5, Focus
<1>7. PartOf(fingerprint, IdsOf(fingerprint)) /\ Placed(fingerprint, IdsOf(fingerprint)) /\ IsFiniteSet(IdsOf(fingerprint))
  BY <1>2, PartPlaced
<1>8. ListShape'
  BY <1>1, <1>2, <1>3, <1>5, <1>7, <1>goes DEF ListShape
<1>9. ListKept' /\ RecordsKept'
  BY <1>1, <1>3, <1>7, AllKept, SameKept DEF ListKept, DoneHad, Downloaded, Had
<1> QED
  BY <1>1, <1>6, <1>8, <1>9, <1>goes, ImporterMoves

\* An item more.
LEMMA AppendFacts ==
    ASSUME ListKept, NEW id \in IdSet, NEW item \in ItemRecords,
           item.st = "completed" => Message(id) \in Had, AppendItem(id, item)
    PROVE  /\ items' \in ItemMaps /\ DOMAIN items' = DOMAIN items \cup {id} /\ IsFiniteSet(DOMAIN items')
           /\ \A x \in DOMAIN items' : items'[x].st = "completed" => Message(x) \in Had
<1>1. items \in ItemMaps /\ IsFiniteSet(DOMAIN items) /\ DoneHad(items)
  BY DEF ListKept
<1>2. items' = [x \in DOMAIN items \cup {id} |-> IF x = id THEN item ELSE items[x]]
  BY DEF AppendItem
<1>3. DOMAIN items' = DOMAIN items \cup {id} /\ items' \in [DOMAIN items' -> ItemRecords]
  BY <1>1, <1>2, MapFacts
<1>4. IsFiniteSet(DOMAIN items')
  BY <1>1, <1>3, FS_AddElement
<1>5. items' \in ItemMaps
  <2>1. DOMAIN items' \subseteq IdSet
    BY <1>1, <1>3, MapFacts
  <2> QED
    BY <1>3, <1>4, <2>1, MapFacts
<1>6. ASSUME NEW x \in DOMAIN items', items'[x].st = "completed" PROVE Message(x) \in Had
  BY <1>1, <1>2, <1>6 DEF DoneHad
<1> QED
  BY <1>3, <1>4, <1>5, <1>6

LEMMA BuildListInv ==
    ASSUME Typed, Alone, ImportInv, NEW g \in Importers, Build(g)
    PROVE  ImportInv' /\ Alone'
<1> DEFINE l == imp.list
           n == imp.i
           id == <<l, n, n>>
<1>alone. imp = importer[g] /\ imp \in ImporterRecords /\ imp.fin = None /\ importing = TRUE /\ Working(g)
          /\ \A k \in Importers : Working(k) => k = g
  BY Focus DEF Build, Working
<1>1. UNCHANGED <<jobs, meta, file, got>> /\ UNCHANGED <<queue, kv>> /\ UNCHANGED <<fingerprint>>
      /\ imp.at = "build" /\ UnchangedJobs /\ importing' = importing
  BY <1>alone DEF Build, UnchangedJobs
<1>2. l \in Lists /\ l # <<>> /\ fingerprint = l /\ fingerprint # None
  BY <1>1, ImportedList, ImportAssumption DEF ImportInv, HeldTypes, ListShape
<1>3. DOMAIN l = 1 .. Len(l) /\ Len(l) \in Nat /\ IdsOf(l) = {<<l, k, k>> : k \in 1 .. Len(l)}
  BY <1>2, ListFacts DEF IdsOf
<1>4. n \in 1 .. Len(l) + 1 /\ n \in Nat /\ DOMAIN items = {<<l, k, k>> : k \in 1 .. n - 1}
  BY <1>1, <1>3 DEF ImportInv, ListShape
<1>5. imp \in ImporterRecords /\ {"build", "finRead"} \subseteq ImportPlaces
  BY DEF ImportInv, ImportTypes, ImportPlaces
<1>6. CASE n > Len(l)
  <2> DEFINE i == [imp EXCEPT !.at = "finRead"]
  <2>1. importer' = Goes(g, i) /\ UNCHANGED <<items, finished>>
    BY <1>alone, <1>6 DEF Build
  <2>2. i \in ImporterRecords /\ i.at = "finRead" /\ i.list = l /\ i.fin = None
    BY <1>alone, <1>5 DEF ImporterRecords
  <2>3. Arrives(i)
    BY <1>2, <2>2 DEF Arrives
  <2> HIDE DEF i
  <2>goes. imp' = i /\ Alone'
    BY <1>alone, <1>1, <2>1, <2>2, Focus
  <2>4. n - 1 = Len(l)
    BY <1>3, <1>4, <1>6
  <2>5. DOMAIN items = IdsOf(l)
    BY <1>3, <1>4, <2>4
  <2>6. ListShape'
    BY <1>1, <1>2, <2>1, <2>2, <2>5, <2>goes DEF ImportInv, ListShape
  <2> QED
    BY <1>1, <2>1, <2>3, <2>6, <2>goes, OnlyImporter
<1>7. CASE ~(n > Len(l))
  <2> DEFINE i == [imp EXCEPT !.i = @ + 1]
             st == StatusOf(id, finished, "queued")
             item == [st |-> st, manual |-> FALSE, auto |-> Message(id) \notin Texts]
             f == finished \cup SkipSamePositions({id})
  <2>1. importer' = Goes(g, i) /\ AppendItem(id, item) /\ finished' = f
    BY <1>alone, <1>7 DEF Build
  <2>2. id \in IdsOf(fingerprint) /\ id \in IdSet
    <3>1. n \in 1 .. Len(l)
      BY <1>3, <1>4, <1>7
    <3> QED
      BY <1>2, <1>3, <3>1, IdFacts
  <2>3. f \subseteq Nat /\ Downloaded(fingerprint, f)
    BY <1>2, <2>2, SkippedFacts
  <2>4. st \in Statuses /\ (st = "completed" => Message(id) \in Had)
    <3>1. "queued" \in Statuses /\ "queued" # "completed"
      BY DEF Statuses
    <3> QED
      BY <1>2, <2>2, <3>1, StatusFacts
  <2> HIDE DEF st, f
  <2>5. item \in ItemRecords /\ item.st = st
    BY <2>4 DEF ItemRecords
  <2>6. i \in ImporterRecords /\ i.at = "build" /\ i.list = l /\ i.i = n + 1 /\ i.fin = None
    BY <1>alone, <1>1, <1>4, <1>5 DEF ImporterRecords
  <2>7. Arrives(i)
    BY <1>2, <2>6 DEF Arrives
  <2> HIDE DEF i, item
  <2>goes. imp' = i /\ Alone'
    BY <1>alone, <1>1, <2>1, <2>6, Focus
  <2>8. ListKept
    BY AllKept
  <2>9. /\ items' \in ItemMaps /\ DOMAIN items' = DOMAIN items \cup {id} /\ IsFiniteSet(DOMAIN items')
        /\ \A x \in DOMAIN items' : items'[x].st = "completed" => Message(x) \in Had
    BY <2>1, <2>2, <2>4, <2>5, <2>8, AppendFacts
  <2>10. DOMAIN items' = {<<l, k, k>> : k \in 1 .. n} /\ n + 1 - 1 = n /\ n + 1 \in 1 .. Len(l) + 1
    <3>1. n + 1 - 1 = n /\ n + 1 \in 1 .. Len(l) + 1 /\ 1 .. n = (1 .. n - 1) \cup {n}
      BY <1>3, <1>4, <1>7
    <3> QED
      BY <1>4, <2>9, <3>1
  <2>11. DOMAIN items' \subseteq IdsOf(l)
    <3>1. DOMAIN items \subseteq IdsOf(l)
      BY <1>3, <1>4
    <3> QED
      BY <1>2, <2>2, <2>9, <3>1
  <2>12. PartOf(l, DOMAIN items') /\ Placed(l, DOMAIN items')
    BY <1>2, <2>11, PartPlaced
  <2>13. ListShape'
    <3>1. imp'.at = "build" /\ imp'.list = l /\ imp'.i = n + 1
      BY <2>6, <2>goes
    <3>2. imp'.i - 1 = n /\ imp'.i \in 1 .. Len(imp'.list) + 1
      BY <1>4, <2>10, <3>1
    <3>3. DOMAIN items' = {<<imp'.list, k, k>> : k \in 1 .. imp'.i - 1}
      BY <2>10, <3>1, <3>2
    <3>4. fingerprint' = imp'.list /\ fingerprint' # None /\ fingerprint' = l
      BY <1>1, <1>2, <3>1
    <3> QED
      BY <2>12, <3>1, <3>2, <3>3, <3>4 DEF ListShape
  <2>14. ListKept'
    BY <1>1, <2>1, <2>3, <2>8, <2>9 DEF ListKept, DoneHad, Downloaded, Had
  <2>15. RecordsKept'
    BY <1>1, AllKept, SameKept
  <2> QED
    BY <1>1, <2>7, <2>13, <2>14, <2>15, <2>goes, ImporterMoves
<1> QED
  BY <1>6, <1>7

LEMMA ImportUrlInv ==
    ASSUME Typed, Alone, ImportInv, NEW g \in Importers, ImportUrl(g), ~mixed'
    PROVE  ImportInv' /\ Alone'
<1> DEFINE b == Cardinality(DOMAIN items)
           u == imp.url
           i == [imp EXCEPT !.at = "fetch", !.i = 1, !.base = b]
<1>alone. imp = importer[g] /\ imp \in ImporterRecords /\ imp.fin = None /\ importing = TRUE /\ Working(g)
          /\ \A k \in Importers : Working(k) => k = g
  BY Focus DEF ImportUrl, Working
<1>1. UNCHANGED <<jobs, meta, file, got>> /\ UNCHANGED <<queue, kv>>
      /\ (importer' = Goes(g, i) \/ importer' = KeepMaps(Goes(g, i)))
      /\ imp.at = "url" /\ importing' = importing /\ fingerprint \in {None, imp.list}
  BY <1>alone DEF ImportUrl, UnchangedJobs
<1>2. u \in Lists /\ u # <<>> /\ u # None
  BY <1>1, ImportedList, ImportAssumption DEF ImportInv, HeldTypes
<1>3. imp \in ImporterRecords /\ "fetch" \in ImportPlaces
  BY DEF ImportInv, ImportTypes, ImportPlaces
<1>4. ListKept /\ IsFiniteSet(DOMAIN items) /\ b \in Nat
  BY AllKept, FS_CardinalityType DEF ListKept
<1>5. i \in ImporterRecords /\ i.at = "fetch" /\ i.url = u /\ i.i = 1 /\ i.base = b /\ i.fin = None
  BY <1>alone, <1>3, <1>4 DEF ImporterRecords
<1>6. Arrives(i)
  BY <1>2, <1>5 DEF Arrives
<1> HIDE DEF i
<1>goes. imp' = i /\ Alone'
  <2>1. importer' = Goes(g, i)
    BY <1>alone, <1>1, <1>5, NoMaps
  <2> QED
    BY <1>alone, <1>1, <1>5, <2>1, Focus
<1>7. RecordsKept'
  BY <1>1, AllKept, SameKept
<1>8. Len(u) \in Nat /\ 1 \in 1 .. Len(u) + 1
  BY <1>2, ListFacts
<1>9. CASE fingerprint = None
  <2>1. items' = <<>> /\ fingerprint' = u /\ finished' = LoadFinished(u)
    BY <1>alone, <1>9 DEF ImportUrl, ResetImportState
  <2>2. DOMAIN items = {} /\ b = 0
    BY <1>9, FS_EmptySet DEF ImportInv, ListShape
  <2>3. LoadFinished(u) \in SUBSET Nat /\ Downloaded(u, LoadFinished(u))
    BY <1>2, LoadedFacts
  <2>4. items' \in ItemMaps /\ DOMAIN items' = {} /\ IsFiniteSet(DOMAIN items')
    BY <2>1, EmptyMap
  <2>5. PartOf(u, {}) /\ Placed(u, {})
    BY <1>2, PartPlaced
  <2>6. ListShape'
    BY <1>1, <1>2, <1>5, <1>8, <1>goes, <2>1, <2>2, <2>4, <2>5 DEF ListShape
  <2>7. ListKept'
    BY <1>1, <1>2, <2>1, <2>3, <2>4 DEF ListKept, DoneHad, Downloaded, Had
  <2> QED
    BY <1>1, <1>6, <1>7, <1>goes, <2>6, <2>7, ImporterMoves
<1>10. CASE fingerprint # None
  <2>1. UNCHANGED <<items, fingerprint, finished>>
    BY <1>10 DEF ImportUrl
  <2>2. IdsOf(fingerprint) \subseteq DOMAIN items
    BY <1>1, <1>2, <1>10 DEF ImportInv, ListShape
  <2>3. b >= Len(fingerprint)
    <3>1. fingerprint \in Lists
      BY <1>10 DEF ImportInv, ImportTypes
    <3>2. Cardinality(IdsOf(fingerprint)) = Len(fingerprint) /\ Len(fingerprint) \in Nat
      BY <3>1, IdFacts, ListFacts
    <3>3. Cardinality(IdsOf(fingerprint)) <= b
      BY <1>4, <2>2, FS_Subset
    <3> QED
      BY <1>4, <3>2, <3>3
  <2> HIDE DEF b
  <2>4. ListShape'
    BY <1>1, <1>5, <1>8, <1>10, <1>goes, <2>1, <2>2, <2>3 DEF ImportInv, ListShape
  <2>5. ListKept'
    BY <1>1, <1>4, <2>1, SameKept
  <2> QED
    BY <1>1, <1>6, <1>7, <1>goes, <2>4, <2>5, ImporterMoves
<1> QED
  BY <1>9, <1>10

LEMMA FetchMessageInv ==
    ASSUME Typed, Alone, ImportInv, NEW g \in Importers, FetchMessage(g)
    PROVE  ImportInv' /\ Alone'
<1> DEFINE u == imp.url
           n == imp.i
           b == imp.base
           id == <<u, n, b + n>>
<1>alone. imp = importer[g] /\ imp \in ImporterRecords /\ imp.fin = None /\ importing = TRUE /\ Working(g)
          /\ \A k \in Importers : Working(k) => k = g
  BY Focus DEF FetchMessage, Working
<1>1. UNCHANGED <<jobs, meta, file, got>> /\ UNCHANGED <<queue, kv>> /\ UNCHANGED <<fingerprint, finished>>
      /\ imp.at = "fetch" /\ UnchangedJobs /\ importing' = importing
  BY <1>alone DEF FetchMessage, UnchangedJobs
<1>2. u \in Lists /\ u # <<>> /\ u # None
  BY <1>1, ImportedList, ImportAssumption DEF ImportInv, HeldTypes
<1>3. DOMAIN u = 1 .. Len(u) /\ Len(u) \in Nat
  BY <1>2, ListFacts
<1>4. imp \in ImporterRecords /\ {"fetch", "queue"} \subseteq ImportPlaces /\ <<>> \in ListsOrNot /\ b \in Nat
  BY DEF ImportInv, ImportTypes, ImportPlaces, ListsOrNot, ImporterRecords
<1>5. /\ n \in 1 .. Len(u) + 1 /\ n \in Nat
      /\ \/ fingerprint = u /\ b = 0 /\ DOMAIN items \subseteq IdsOf(fingerprint)
         \/ fingerprint # None /\ b >= Len(fingerprint) /\ IdsOf(fingerprint) \subseteq DOMAIN items
  BY <1>1, <1>3 DEF ImportInv, ListShape
<1>6. fingerprint \in Lists /\ fingerprint # None
  BY <1>2, <1>5 DEF ImportInv, ImportTypes
<1>7. DOMAIN fingerprint = 1 .. Len(fingerprint) /\ Len(fingerprint) \in Nat
  BY <1>6, ListFacts
<1>8. ListKept /\ RecordsKept'
  BY <1>1, AllKept, SameKept
<1>9. PartOf(fingerprint, DOMAIN items) /\ Placed(fingerprint, DOMAIN items)
  BY <1>6 DEF ImportInv, ListShape
<1>10. CASE n > Len(u)
  <2> DEFINE i == [[imp EXCEPT !.url = <<>>] EXCEPT !.at = "queue", !.snap = None]
  <2>1. importer' = Goes(g, i) /\ UNCHANGED items
    BY <1>alone, <1>10 DEF FetchMessage, ThenSave, MetaWanted
  <2>2. i \in ImporterRecords /\ i.at = "queue" /\ i.url = <<>> /\ i.fin = None
    BY <1>alone, <1>4 DEF ImporterRecords, Snaps
  <2>3. Arrives(i)
    BY <2>2 DEF Arrives
  <2> HIDE DEF i
  <2>goes. imp' = i /\ Alone'
    BY <1>alone, <1>1, <2>1, <2>2, Focus
  <2>4. ListShape'
    BY <1>1, <1>6, <2>1, <2>2, <2>goes DEF ImportInv, ListShape
  <2> QED
    BY <1>1, <2>1, <2>3, <2>4, <2>goes, OnlyImporter
<1>11. CASE ~(n > Len(u))
  <2> DEFINE i == [imp EXCEPT !.i = @ + 1]
  <2>1. importer' = Goes(g, i)
    BY <1>alone, <1>11 DEF FetchMessage
  <2>2. i \in ImporterRecords /\ i.at = "fetch" /\ i.url = u /\ i.i = n + 1 /\ i.base = b /\ i.fin = None
    BY <1>alone, <1>1, <1>4, <1>5 DEF ImporterRecords
  <2>3. Arrives(i)
    BY <1>2, <2>2 DEF Arrives
  <2> HIDE DEF i
  <2>goes. imp' = i /\ Alone'
    BY <1>alone, <1>1, <2>1, <2>2, Focus
  <2>4. n \in 1 .. Len(u) /\ n + 1 \in 1 .. Len(u) + 1 /\ b + n \in Nat
    BY <1>3, <1>4, <1>5, <1>11
  <2>5. id \in IdSet /\ Position(id) = b + n /\ Message(id) = u[n]
    BY <1>2, <1>3, <2>4 DEF IdSet, Position, Message
  <2>6. CASE UNCHANGED items
    <3>1. /\ imp'.at = "fetch" /\ imp'.url = u /\ imp'.base = b
          /\ imp'.i \in 1 .. Len(imp'.url) + 1
          /\ fingerprint' = fingerprint /\ items' = items
      BY <1>1, <2>2, <2>4, <2>6, <2>goes
    <3>2. ListShape'
      BY <1>5, <1>6, <1>9, <3>1 DEF ListShape
    <3> QED
      BY <1>1, <2>3, <2>6, <2>goes, <3>2, OnlyImporter
  <2>7. CASE ~UNCHANGED items
    <3> DEFINE item == [st |-> DiskStatus(Message(id), "queued"), manual |-> FALSE, auto |-> FALSE]
    <3>1. AppendItem(id, item)
      BY <1>alone, <1>11, <2>7 DEF FetchMessage
    <3>2. item \in ItemRecords /\ (item.st = "completed" => Message(id) \in Had)
      BY DEF ItemRecords, Statuses, DiskStatus, Had, ImportInv, ClaimsHeld
    <3> HIDE DEF item
    <3>3. /\ items' \in ItemMaps /\ DOMAIN items' = DOMAIN items \cup {id} /\ IsFiniteSet(DOMAIN items')
          /\ \A x \in DOMAIN items' : items'[x].st = "completed" => Message(x) \in Had
      BY <1>8, <2>5, <3>1, <3>2, AppendFacts
    <3>4. /\ imp'.at = "fetch" /\ imp'.url = u /\ imp'.i = n + 1 /\ imp'.base = b
          /\ imp'.i \in 1 .. Len(imp'.url) + 1 /\ fingerprint' = fingerprint
      BY <1>1, <2>2, <2>4, <2>goes
    <3>5. ASSUME fingerprint = u /\ b = 0 /\ DOMAIN items \subseteq IdsOf(fingerprint)
          PROVE  ListShape'
      <4>1. id \in IdsOf(fingerprint)
        <5>1. b + n = n
          BY <1>5, <3>5
        <5>2. id = <<fingerprint, n, n>> /\ n \in DOMAIN fingerprint
          BY <1>3, <2>4, <3>5, <5>1
        <5> QED
          BY <5>2 DEF IdsOf
      <4>2. DOMAIN items' \subseteq IdsOf(fingerprint)
        BY <3>3, <3>5, <4>1
      <4>3. PartOf(fingerprint, DOMAIN items') /\ Placed(fingerprint, DOMAIN items')
        BY <1>6, <4>2, PartPlaced
      <4> QED
        BY <1>6, <3>4, <3>5, <4>2, <4>3 DEF ListShape
    <3>6. ASSUME fingerprint # None /\ b >= Len(fingerprint) /\ IdsOf(fingerprint) \subseteq DOMAIN items
          PROVE  ListShape'
      <4>1. Position(id) \notin DOMAIN fingerprint
        BY <1>4, <1>7, <2>4, <2>5, <3>6
      <4>2. IdsOf(fingerprint) \subseteq DOMAIN items'
        BY <3>3, <3>6
      <4>3. PartOf(fingerprint, DOMAIN items') /\ Placed(fingerprint, DOMAIN items')
        BY <1>9, <3>3, <4>1, <4>2 DEF PartOf, Placed
      <4> QED
        BY <1>6, <3>4, <3>6, <4>2, <4>3 DEF ListShape
    <3>7. ListShape'
      BY <1>5, <3>5, <3>6
    <3>8. ListKept'
      BY <1>1, <1>8, <3>3 DEF ListKept, DoneHad, Downloaded, Had
    <3> QED
      BY <1>1, <1>8, <2>3, <2>goes, <3>7, <3>8, ImporterMoves
  <2> QED
    BY <2>6, <2>7
<1> QED
  BY <1>10, <1>11

-----------------------------------------------------------------------------
(* Downloads, savers and requests. *)

\* What a goroutine holds, when g has been downloaded.
JobIs(x, g) ==
    /\ x \in JobRecords
    /\ x.at \in {"run", "mark", "end"} => x.id \in IdSet
    /\ x.at = "mark" => Message(x.id) \in g
    /\ x.at = "end" => x.res \in Statuses /\ (x.res = "completed" => Message(x.id) \in g)
    /\ x.at = "finWrite" => x.snap \in FinRecords /\ Claims(x.snap.fp, x.snap.fin) \subseteq g \cup Texts
    /\ x.at = "metaWrite" =>
          /\ x.snap \in SavedRecords
          /\ PartOf(x.snap.fp, DOMAIN x.snap.items) /\ NoneDone(x.snap.items)

JobsRight == jobs \in [Jobs -> JobRecords] /\ \A j \in Jobs : JobIs(jobs[j], got)
CachesRight ==
    /\ meta \in [Lists -> MetaRecords \cup {None}]
    /\ \A l \in Lists : meta[l] # None => PartOf(l, DOMAIN meta[l].items) /\ NoneDone(meta[l].items)

LEMMA AllRight == ImportInv => JobsRight /\ CachesRight
BY DEF ImportInv, ImportTypes, HeldTypes, CacheShape, ClaimsHeld, JobsRight, CachesRight, JobIs, Downloaded, Had

LEMMA JobsMove ==
    ASSUME ImportInv, UNCHANGED <<importer, fingerprint>>, DOMAIN items' = DOMAIN items,
           file' \subseteq got', got \subseteq got', ListKept', RecordsKept', CachesRight', JobsRight'
    PROVE  ImportInv'
<1> SUFFICES ASSUME imp' = imp, fingerprint' = fingerprint PROVE ImportInv'
  BY DEF imp, Working
<1>1. ImportTypes'
  BY DEF ImportInv, ImportTypes, ListKept, RecordsKept, CachesRight, JobsRight
<1>2. HeldTypes'
  BY DEF ImportInv, HeldTypes, JobsRight, JobIs
<1>3. ListShape'
  BY DEF ImportInv, ListShape
<1>4. CacheShape'
  BY DEF ImportInv, CacheShape, CachesRight, JobsRight, JobIs
<1>5. ClaimsHeld'
  BY DEF ImportInv, ClaimsHeld, JobsRight, JobIs, Downloaded, DoneHad, Had
<1>6. FinishedHad' /\ CachedWhole'
  BY DEF ImportInv, FinishedHad, CachedWhole, Had, ListKept, RecordsKept, Downloaded, DoneHad
<1> QED
  BY <1>1, <1>2, <1>3, <1>4, <1>5, <1>6 DEF ImportInv

\* One of them moves, and no file is taken back.
LEMMA OneJob ==
    ASSUME ImportInv, NEW j \in Jobs, NEW x, jobs' = [jobs EXCEPT ![j] = x], JobIs(x, got'), got \subseteq got'
    PROVE  JobsRight'
<1>1. JobsRight /\ x \in JobRecords
  BY AllRight DEF JobIs
<1>2. jobs' \in [Jobs -> JobRecords]
  BY <1>1 DEF JobsRight
<1>3. ASSUME NEW k \in Jobs PROVE JobIs(jobs'[k], got')
  BY <1>1 DEF JobsRight, JobIs
<1> QED
  BY <1>2, <1>3 DEF JobsRight

LEMMA SameRight ==
    /\ CachesRight /\ UNCHANGED meta => CachesRight'
    /\ JobsRight /\ UNCHANGED <<jobs, got>> => JobsRight'
BY DEF CachesRight, JobsRight

\* The status of an item of the list changes, or it is paused or not.
LEMMA ItemFacts ==
    ASSUME ListKept, NEW id \in DOMAIN items, NEW x \in ItemRecords, items' = [items EXCEPT ![id] = x],
           x.st = "completed" => Message(id) \in Had
    PROVE  /\ items' \in ItemMaps /\ DOMAIN items' = DOMAIN items
           /\ \A y \in DOMAIN items' : items'[y].st = "completed" => Message(y) \in Had
<1>1. items \in ItemMaps /\ DoneHad(items)
  BY DEF ListKept
<1>2. DOMAIN items \subseteq IdSet /\ items \in [DOMAIN items -> ItemRecords]
  BY <1>1, MapFacts
<1>3. DOMAIN items' = DOMAIN items /\ items' \in [DOMAIN items -> ItemRecords] /\ IsFiniteSet(DOMAIN items)
  BY <1>1, <1>2 DEF ListKept
<1>4. items' \in ItemMaps
  BY <1>2, <1>3, MapFacts
<1>5. ASSUME NEW y \in DOMAIN items', items'[y].st = "completed" PROVE Message(y) \in Had
  BY <1>1, <1>2, <1>5 DEF DoneHad
<1> QED
  BY <1>3, <1>4, <1>5

LEMMA StatusSet ==
    ASSUME ImportInv, NEW id, NEW st \in Statuses, SetStatus(id, st), got \subseteq got',
           fingerprint' = fingerprint, st = "completed" => Message(id) \in Had',
           finished' \subseteq Nat, fingerprint # None => Claims(fingerprint, finished') \subseteq Had'
    PROVE  ListKept' /\ DOMAIN items' = DOMAIN items
<1>1. ListKept
  BY AllKept
<1>2. CASE id \notin DOMAIN items
  BY <1>1, <1>2 DEF SetStatus, ListKept, DoneHad, Downloaded, Had
<1>3. CASE id \in DOMAIN items
  <2> DEFINE x == [items[id] EXCEPT !.st = st]
  <2>1. items' = [items EXCEPT ![id] = x]
    BY <1>3 DEF SetStatus
  <2>2. DOMAIN items \subseteq IdSet /\ items \in [DOMAIN items -> ItemRecords] /\ IsFiniteSet(DOMAIN items)
    BY <1>1, MapFacts DEF ListKept
  <2>3. x \in ItemRecords /\ x.st = st
    BY <1>3, <2>2 DEF ItemRecords
  <2> HIDE DEF x
  <2>4. DOMAIN items' = DOMAIN items /\ items' \in [DOMAIN items -> ItemRecords]
    BY <2>1, <2>2, <2>3
  <2>5. items' \in ItemMaps
    BY <2>2, <2>4, MapFacts
  <2>6. ASSUME NEW y \in DOMAIN items', items'[y].st = "completed" PROVE Message(y) \in Had'
    BY <1>1, <2>1, <2>2, <2>3, <2>6 DEF ListKept, DoneHad, Had
  <2> QED
    BY <1>1, <2>2, <2>4, <2>5, <2>6 DEF ListKept, DoneHad, Downloaded, Had
<1> QED
  BY <1>2, <1>3

\* What counts as finished stays had.
LEMMA FinishedStays ==
    ASSUME ImportInv, finished' = finished, got \subseteq got'
    PROVE  finished' \subseteq Nat /\ (fingerprint # None => Claims(fingerprint, finished') \subseteq Had')
BY AllKept DEF ListKept, Downloaded, Had

LEMMA RecordsStay ==
    ASSUME ImportInv, UNCHANGED <<kv, meta>>, queue' \subseteq queue, got \subseteq got'
    PROVE  RecordsKept' /\ CachesRight'
BY AllKept, AllRight DEF RecordsKept, CachesRight, Downloaded, Had

LEMMA ListStays ==
    ASSUME ImportInv, UNCHANGED <<items, fingerprint, finished>>, got \subseteq got'
    PROVE  ListKept'
BY AllKept DEF ListKept, Downloaded, DoneHad, Had

LEMMA StartDownloadInv ==
    ASSUME ImportInv, NEW j \in Jobs, StartDownload(j)
    PROVE  ImportInv'
<1>1. UNCHANGED <<importer, fingerprint>> /\ UNCHANGED <<finished, kv, meta, file, got>> /\ jobs[j].at = "idle"
  BY DEF StartDownload, UnchangedImport
<1>2. PICK id \in queue :
          /\ queue' = queue \ {id}
          /\ \/ /\ jobs' = [jobs EXCEPT ![j] = [IdleJob EXCEPT !.at = "run", !.id = id]]
                /\ SetStatus(id, "caching")
             \/ UNCHANGED <<jobs, items>>
  BY DEF StartDownload
<1>3. ListKept /\ RecordsKept /\ CachesRight /\ JobsRight /\ file \subseteq got
  BY AllKept, AllRight DEF ImportInv, ClaimsHeld
<1>4. RecordsKept' /\ CachesRight' /\ id \in IdSet
  BY <1>1, <1>2, <1>3 DEF RecordsKept, CachesRight, Downloaded, Had
<1>5. CASE UNCHANGED <<jobs, items>>
  <2>1. ListKept' /\ JobsRight'
    BY <1>1, <1>3, <1>5, SameKept, SameRight
  <2> QED
    BY <1>1, <1>3, <1>4, <1>5, <2>1, JobsMove
<1>6. CASE /\ jobs' = [jobs EXCEPT ![j] = [IdleJob EXCEPT !.at = "run", !.id = id]]
           /\ SetStatus(id, "caching")
  <2> DEFINE x == [IdleJob EXCEPT !.at = "run", !.id = id]
  <2>1. JobIs(x, got')
    <3>1. x \in JobRecords /\ x.at = "run" /\ x.id = id
      BY <1>4 DEF IdleJob, JobRecords, JobPlaces, JobIds, Outcomes, Snaps
    <3> HIDE DEF x
    <3> QED
      BY <1>4, <3>1 DEF JobIs
  <2> HIDE DEF x
  <2>2. JobsRight'
    BY <1>1, <1>6, <2>1, OneJob DEF x
  <2>3. ListKept' /\ DOMAIN items' = DOMAIN items
    <3>1. "caching" \in Statuses
      BY DEF Statuses
    <3>2. finished' \subseteq Nat /\ (fingerprint # None => Claims(fingerprint, finished') \subseteq Had')
      BY <1>1, FinishedStays
    <3> QED
      BY <1>1, <1>6, <3>1, <3>2, StatusSet
  <2> QED
    BY <1>1, <1>3, <1>4, <2>2, <2>3, JobsMove
<1> QED
  BY <1>2, <1>5, <1>6

LEMMA PromoteInv ==
    ASSUME ImportInv, NEW j \in Jobs, Promote(j)
    PROVE  ImportInv'
<1> DEFINE x == [jobs[j] EXCEPT !.at = "mark"]
           m == Message(jobs[j].id)
<1>1. UNCHANGED <<importer, fingerprint>> /\ UNCHANGED <<items, fingerprint, finished>> /\ UNCHANGED <<kv, meta>>
      /\ queue' = queue /\ jobs[j].at = "run" /\ jobs' = [jobs EXCEPT ![j] = x]
      /\ file' = file \cup {m} /\ got' = got \cup {m}
  BY DEF Promote, UnchangedImport
<1>2. got \subseteq got' /\ file' \subseteq got'
  BY <1>1 DEF ImportInv, ClaimsHeld
<1>3. JobIs(jobs[j], got)
  BY AllRight DEF JobsRight
<1>4. x \in JobRecords /\ x.at = "mark" /\ x.id = jobs[j].id /\ jobs[j].id \in IdSet
  BY <1>1, <1>3 DEF JobIs, JobRecords, JobPlaces
<1>5. JobIs(x, got')
  BY <1>1, <1>4 DEF JobIs
<1> HIDE DEF x
<1>6. JobsRight'
  BY <1>1, <1>2, <1>5, OneJob
<1>7. ListKept' /\ RecordsKept' /\ CachesRight'
  BY <1>1, <1>2, ListStays, RecordsStay
<1> QED
  BY <1>1, <1>2, <1>6, <1>7, JobsMove

LEMMA MarkCompletedInv ==
    ASSUME ImportInv, NEW j \in Jobs, MarkCompleted(j)
    PROVE  ImportInv'
<1> DEFINE id == jobs[j].id
           x == [jobs[j] EXCEPT !.at = "end", !.res = "completed"]
<1>1. UNCHANGED <<importer, fingerprint>> /\ UNCHANGED <<kv, meta, file, got>> /\ queue' = queue
      /\ jobs[j].at = "mark" /\ jobs' = [jobs EXCEPT ![j] = x] /\ SetStatus(id, "completed")
      /\ finished' = IF id \in DOMAIN items THEN finished \cup {Position(id)} ELSE finished
  BY DEF MarkCompleted, UnchangedImport
<1>2. JobIs(jobs[j], got) /\ file \subseteq got
  BY AllRight DEF JobsRight, ImportInv, ClaimsHeld
<1>3. id \in IdSet /\ Message(id) \in got /\ Position(id) \in Nat
  BY <1>1, <1>2 DEF JobIs, IdSet, Position
<1>4. x \in JobRecords /\ x.at = "end" /\ x.id = id /\ x.res = "completed" /\ "completed" \in Statuses
  BY <1>1, <1>2 DEF JobIs, JobRecords, JobPlaces, Outcomes, Statuses
<1>5. JobIs(x, got')
  BY <1>1, <1>3, <1>4 DEF JobIs
<1> HIDE DEF x
<1>6. JobsRight' /\ RecordsKept' /\ CachesRight'
  BY <1>1, <1>5, OneJob, RecordsStay
<1>7. finished' \subseteq Nat /\ (fingerprint # None => Claims(fingerprint, finished') \subseteq Had')
  <2>1. ListKept
    BY AllKept
  <2>2. id \in DOMAIN items /\ fingerprint # None /\ Position(id) \in DOMAIN fingerprint
          => fingerprint[Position(id)] = Message(id)
    BY DEF ImportInv, ListShape, Placed
  <2> HIDE DEF id
  <2> QED
    BY <1>1, <1>3, <2>1, <2>2 DEF ListKept, Downloaded, Claims, Had
<1>8. ListKept' /\ DOMAIN items' = DOMAIN items
  BY <1>1, <1>3, <1>4, <1>7, StatusSet DEF Had
<1> QED
  BY <1>1, <1>2, <1>6, <1>8, JobsMove

LEMMA DownloadStopsInv ==
    ASSUME ImportInv, NEW j \in Jobs, DownloadStops(j)
    PROVE  ImportInv'
<1>1. UNCHANGED <<importer, fingerprint>> /\ UNCHANGED <<items, fingerprint, finished>> /\ UNCHANGED <<kv, meta>>
      /\ UNCHANGED <<file, got>> /\ queue' = queue /\ jobs[j].at = "run"
  BY DEF DownloadStops, UnchangedImport
<1>2. PICK res \in {"error", "paused"} : jobs' = [jobs EXCEPT ![j] = [jobs[j] EXCEPT !.at = "end", !.res = res]]
  BY DEF DownloadStops
<1> DEFINE x == [jobs[j] EXCEPT !.at = "end", !.res = res]
<1>3. JobIs(jobs[j], got) /\ file \subseteq got
  BY AllRight DEF JobsRight, ImportInv, ClaimsHeld
<1>4. x \in JobRecords /\ x.at = "end" /\ x.id \in IdSet /\ x.res = res /\ res \in Statuses /\ res # "completed"
  BY <1>1, <1>3 DEF JobIs, JobRecords, JobPlaces, Outcomes, Statuses
<1>5. JobIs(x, got')
  BY <1>4 DEF JobIs
<1> HIDE DEF x
<1>6. JobsRight'
  BY <1>1, <1>2, <1>5, OneJob DEF x
<1>7. ListKept' /\ RecordsKept' /\ CachesRight'
  BY <1>1, ListStays, RecordsStay
<1> QED
  BY <1>1, <1>3, <1>6, <1>7, JobsMove

LEMMA FinishDownloadInv ==
    ASSUME ImportInv, NEW j \in Jobs, FinishDownload(j)
    PROVE  ImportInv'
<1> DEFINE x == [IdleJob EXCEPT !.at = "finRead"]
<1>1. UNCHANGED <<importer, fingerprint>> /\ UNCHANGED <<kv, meta>> /\ UNCHANGED <<file, got, finished>>
      /\ queue' = queue /\ jobs[j].at = "end" /\ jobs' = [jobs EXCEPT ![j] = x]
      /\ IF jobs[j].res = "completed" THEN UNCHANGED items ELSE SetStatus(jobs[j].id, jobs[j].res)
  BY DEF FinishDownload, UnchangedImport
<1>2. JobIs(jobs[j], got) /\ file \subseteq got
  BY AllRight DEF JobsRight, ImportInv, ClaimsHeld
<1>3. JobIs(x, got')
  BY IdleJobFacts DEF JobPlaces, JobIs
<1> HIDE DEF x
<1>4. JobsRight' /\ RecordsKept' /\ CachesRight'
  BY <1>1, <1>3, OneJob, RecordsStay
<1>5. ListKept' /\ DOMAIN items' = DOMAIN items
  <2>1. CASE jobs[j].res = "completed"
    BY <1>1, <2>1, ListStays
  <2>2. CASE jobs[j].res # "completed"
    <3>1. jobs[j].res \in Statuses /\ SetStatus(jobs[j].id, jobs[j].res)
      BY <1>1, <1>2, <2>2 DEF JobIs
    <3>2. finished' \subseteq Nat /\ (fingerprint # None => Claims(fingerprint, finished') \subseteq Had')
      BY <1>1, FinishedStays
    <3> QED
      BY <1>1, <2>2, <3>1, <3>2, StatusSet
  <2> QED
    BY <2>1, <2>2
<1> QED
  BY <1>1, <1>2, <1>4, <1>5, JobsMove

\* saveMetaCache: what is read of the list, which is shown as it is.
LEMMA MetaFacts ==
    ASSUME ImportInv
    PROVE  JobIs(MetaRead, got)
<1>1. CASE ~MetaWanted
  BY <1>1, IdleJobFacts DEF MetaRead, JobIs, JobPlaces
<1>2. CASE MetaWanted
  <2> DEFINE s == [id \in DOMAIN items |-> Saved(items[id])]
  <2>1. fingerprint \in Lists /\ Expected = Cardinality(DOMAIN items) /\ Expected \in Nat
    BY <1>2, AllKept, FS_CardinalityType DEF MetaWanted, ListKept
  <2>2. DOMAIN items \subseteq IdSet /\ items \in [DOMAIN items -> ItemRecords] /\ IsFiniteSet(DOMAIN items)
    BY AllKept, MapFacts DEF ListKept
  <2>3. DOMAIN s = DOMAIN items
    OBVIOUS
  <2>4. ASSUME NEW id \in DOMAIN items PROVE Saved(items[id]) \in ItemRecords /\ Saved(items[id]).st # "completed"
    <3>1. items[id] \in ItemRecords
      BY <2>2
    <3> QED
      BY <3>1 DEF Saved, ItemRecords, Statuses
  <2>5. s \in ItemMaps /\ NoneDone(s)
    <3>1. s \in [DOMAIN s -> ItemRecords] /\ NoneDone(s)
      BY <2>3, <2>4 DEF NoneDone
    <3> HIDE DEF s
    <3> QED
      BY <2>2, <2>3, <3>1, MapFacts
  <2>6. PartOf(fingerprint, DOMAIN s)
    BY <2>1, <2>3, ImportAssumption DEF ImportInv, ListShape
  <2>7. MetaSnapshot = [fp |-> fingerprint, total |-> Expected, items |-> s]
    BY DEF MetaSnapshot
  <2> HIDE DEF s
  <2>8. MetaSnapshot \in SavedRecords /\ MetaSnapshot.fp = fingerprint /\ MetaSnapshot.items = s
    BY <2>1, <2>5, <2>7 DEF SavedRecords
  <2>9. MetaRead = [IdleJob EXCEPT !.at = "metaWrite", !.snap = MetaSnapshot]
    BY <1>2 DEF MetaRead
  <2>10. MetaRead \in JobRecords /\ MetaRead.at = "metaWrite" /\ MetaRead.snap = MetaSnapshot
    BY <2>8, <2>9 DEF IdleJob, JobRecords, JobPlaces, JobIds, Outcomes, Snaps
  <2> QED
    BY <2>5, <2>6, <2>8, <2>10 DEF JobIs
<1> QED
  BY <1>1, <1>2

\* Only the goroutine moves, and the records.
LEMMA JobOnlyInv ==
    ASSUME ImportInv, NEW j \in Jobs, NEW x, JobOnly(j, x), JobIs(x, got), RecordsKept', CachesRight'
    PROVE  ImportInv'
<1>1. UNCHANGED <<importer, fingerprint>> /\ UNCHANGED <<items, fingerprint, finished>> /\ UNCHANGED <<file, got>>
      /\ jobs' = [jobs EXCEPT ![j] = x]
  BY DEF JobOnly, UnchangedImport
<1>2. JobsRight' /\ ListKept' /\ file \subseteq got
  BY <1>1, OneJob, ListStays DEF ImportInv, ClaimsHeld
<1> QED
  BY <1>1, <1>2, JobsMove

LEMMA FinReadInv ==
    ASSUME ImportInv, NEW j \in Jobs, FinRead(j)
    PROVE  ImportInv'
<1> DEFINE x == IF fingerprint = None THEN IdleJob ELSE [IdleJob EXCEPT !.at = "finWrite", !.snap = FinishedSnapshot]
<1>1. JobOnly(j, x) /\ UNCHANGED <<kv, meta>>
  BY DEF FinRead
<1>2. UNCHANGED <<queue, got>>
  BY <1>1 DEF JobOnly
<1>3. RecordsKept' /\ CachesRight'
  BY <1>1, <1>2, RecordsStay
<1>4. JobIs(x, got)
  <2>1. CASE fingerprint = None
    BY <2>1, IdleJobFacts DEF JobIs, JobPlaces
  <2>2. CASE fingerprint # None
    <3> DEFINE s == FinishedSnapshot
               y == [IdleJob EXCEPT !.at = "finWrite", !.snap = s]
    <3>1. s \in FinRecords /\ Claims(s.fp, s.fin) \subseteq got \cup Texts
      BY <2>2, SnapshotFacts DEF Downloaded, Had
    <3> HIDE DEF s
    <3>2. y \in JobRecords /\ y.at = "finWrite" /\ y.snap = s
      BY <3>1 DEF IdleJob, JobRecords, JobPlaces, JobIds, Outcomes, Snaps
    <3>3. JobIs(y, got)
      BY <3>1, <3>2 DEF JobIs
    <3> QED
      BY <2>2, <3>3 DEF s
  <2> QED
    BY <2>1, <2>2
<1> HIDE DEF x
<1> QED
  BY <1>1, <1>3, <1>4, JobOnlyInv

LEMMA FinWriteInv ==
    ASSUME ImportInv, NEW j \in Jobs, FinWrite(j)
    PROVE  ImportInv'
<1> DEFINE s == jobs[j].snap
<1>1. jobs[j].at = "finWrite" /\ kv' = [kv EXCEPT ![s.fp] = s.fin] /\ JobOnly(j, MetaRead) /\ meta' = meta
  BY DEF FinWrite
<1>2. UNCHANGED <<queue, got>>
  BY <1>1 DEF JobOnly
<1>3. s \in FinRecords /\ Downloaded(s.fp, s.fin)
  BY <1>1, AllRight DEF JobsRight, JobIs, Downloaded, Had
<1> HIDE DEF s
<1>4. RecordsKept'
  BY <1>1, <1>2, <1>3, WrittenFacts
<1>5. CachesRight'
  BY <1>1, AllRight, SameRight
<1> QED
  BY <1>1, <1>4, <1>5, MetaFacts, JobOnlyInv

LEMMA RequestSavesInv ==
    ASSUME ImportInv, NEW j \in Jobs, RequestSaves(j)
    PROVE  ImportInv'
<1>1. JobOnly(j, MetaRead) /\ UNCHANGED <<kv, meta>>
  BY DEF RequestSaves
<1>2. UNCHANGED <<queue, got>>
  BY <1>1 DEF JobOnly
<1>3. RecordsKept' /\ CachesRight'
  BY <1>1, <1>2, RecordsStay
<1> QED
  BY <1>1, <1>3, MetaFacts, JobOnlyInv

LEMMA MetaWriteInv ==
    ASSUME ImportInv, NEW j \in Jobs, MetaWrite(j)
    PROVE  ImportInv'
<1> DEFINE s == jobs[j].snap
           c == [total |-> s.total, items |-> s.items]
<1>1. jobs[j].at = "metaWrite" /\ meta' = [meta EXCEPT ![s.fp] = c] /\ JobOnly(j, IdleJob) /\ kv' = kv
  BY DEF MetaWrite, Store
<1>2. UNCHANGED <<queue, got>>
  BY <1>1 DEF JobOnly
<1>3. s \in SavedRecords /\ PartOf(s.fp, DOMAIN s.items) /\ NoneDone(s.items)
  BY <1>1, AllRight DEF JobsRight, JobIs
<1> HIDE DEF s
<1>4. c \in MetaRecords /\ c.items = s.items /\ s.fp \in Lists
  BY <1>3 DEF SavedRecords, MetaRecords
<1> HIDE DEF c
<1>5. CachesRight'
  BY <1>1, <1>3, <1>4, AllRight DEF CachesRight
<1>6. RecordsKept'
  BY <1>1, <1>2, AllKept, SameKept
<1>7. JobIs(IdleJob, got)
  BY IdleJobFacts DEF JobIs, JobPlaces
<1> QED
  BY <1>1, <1>5, <1>6, <1>7, JobOnlyInv

LEMMA PauseInv ==
    ASSUME ImportInv, NEW j \in Jobs, NEW id \in DOMAIN items, Pause(j, id)
    PROVE  ImportInv'
<1>1. UNCHANGED <<importer, fingerprint>> /\ UNCHANGED <<kv, meta, finished>> /\ UNCHANGED <<file, got>>
      /\ queue' \subseteq queue
  BY DEF Pause, UnchangedImport
<1>2. ListKept /\ JobsRight /\ file \subseteq got
  BY AllKept, AllRight DEF ImportInv, ClaimsHeld
<1>3. items[id] \in ItemRecords /\ (items[id].st = "completed" => Message(id) \in Had)
  BY <1>2, MapFacts DEF ListKept, DoneHad
<1>4. PICK it \in ItemRecords : items' = [items EXCEPT ![id] = it] /\ (it.st = "completed" => items[id].st = "completed")
  <2>1. CASE id \in cancels
    <3> DEFINE x == [items[id] EXCEPT !.manual = TRUE]
    <3>1. items' = [items EXCEPT ![id] = x]
      BY <2>1 DEF Pause
    <3>2. x \in ItemRecords /\ x.st = items[id].st
      BY <1>3 DEF ItemRecords
    <3> QED
      BY <3>1, <3>2
  <2>2. CASE id \notin cancels
    <3> DEFINE st == IF items[id].st # "completed" /\ (items[id].st # "caching" \/ Message(id) \in tmp)
                     THEN "paused" ELSE items[id].st
               x == [items[id] EXCEPT !.manual = TRUE, !.st = st]
    <3>1. items' = [items EXCEPT ![id] = x]
      BY <2>2 DEF Pause
    <3>2. x \in ItemRecords /\ (x.st = "completed" => items[id].st = "completed")
      BY <1>3 DEF ItemRecords, Statuses
    <3> QED
      BY <3>1, <3>2
  <2> QED
    BY <2>1, <2>2
<1>5. /\ items' \in ItemMaps /\ DOMAIN items' = DOMAIN items
      /\ \A y \in DOMAIN items' : items'[y].st = "completed" => Message(y) \in Had
  BY <1>2, <1>3, <1>4, ItemFacts
<1>6. ListKept'
  BY <1>1, <1>2, <1>5 DEF ListKept, DoneHad, Downloaded, Had
<1>7. RecordsKept' /\ CachesRight'
  BY <1>1, RecordsStay
<1>8. JobsRight'
  <2>1. CASE UNCHANGED jobs
    BY <1>1, <1>2, <2>1, SameRight
  <2>2. CASE Request(j)
    <3> DEFINE x == [IdleJob EXCEPT !.at = "metaRead"]
    <3>1. jobs' = [jobs EXCEPT ![j] = x]
      BY <2>2 DEF Request
    <3>2. JobIs(x, got')
      BY IdleJobFacts DEF JobIs, JobPlaces
    <3> HIDE DEF x
    <3> QED
      BY <1>1, <3>1, <3>2, OneJob
  <2> QED
    BY <2>1, <2>2 DEF Pause
<1> QED
  BY <1>1, <1>2, <1>5, <1>6, <1>7, <1>8, JobsMove

LEMMA ItemErrorInv ==
    ASSUME ImportInv, NEW j \in Jobs, NEW id \in DOMAIN items, ItemError(j, id)
    PROVE  ImportInv'
<1> DEFINE x == [IdleJob EXCEPT !.at = "metaRead"]
<1>1. UNCHANGED <<importer, fingerprint>> /\ UNCHANGED <<kv, meta, finished>> /\ UNCHANGED <<file, got>>
      /\ queue' = queue /\ jobs' = [jobs EXCEPT ![j] = x]
  BY DEF ItemError, UnchangedImport, Request
<1>2. PICK st \in {"error", "queued"} : SetStatus(id, st)
  BY DEF ItemError
<1>3. st \in Statuses /\ st # "completed"
  BY DEF Statuses
<1>4. JobIs(x, got')
  BY IdleJobFacts DEF JobIs, JobPlaces
<1> HIDE DEF x
<1>5. JobsRight' /\ RecordsKept' /\ CachesRight' /\ file \subseteq got
  BY <1>1, <1>4, OneJob, RecordsStay DEF ImportInv, ClaimsHeld
<1>6. finished' \subseteq Nat /\ (fingerprint # None => Claims(fingerprint, finished') \subseteq Had')
  BY <1>1, FinishedStays
<1>7. ListKept' /\ DOMAIN items' = DOMAIN items
  BY <1>1, <1>2, <1>3, <1>6, StatusSet
<1> QED
  BY <1>1, <1>5, <1>7, JobsMove

LEMMA EnqueueInv ==
    ASSUME ImportInv, NEW id \in DOMAIN items, Enqueue(id)
    PROVE  ImportInv'
<1> DEFINE x == [items[id] EXCEPT !.manual = FALSE]
<1>1. UNCHANGED <<importer, fingerprint>> /\ UNCHANGED <<kv, meta, finished>> /\ UNCHANGED <<file, got, jobs>>
      /\ queue' \subseteq queue \cup {id} /\ items' = [items EXCEPT ![id] = x]
  BY DEF Enqueue, UnchangedImport
<1>2. ListKept /\ RecordsKept /\ CachesRight /\ JobsRight /\ file \subseteq got
  BY AllKept, AllRight DEF ImportInv, ClaimsHeld
<1>3. items[id] \in ItemRecords /\ (items[id].st = "completed" => Message(id) \in Had) /\ id \in IdSet
  BY <1>2, MapFacts DEF ListKept, DoneHad
<1>4. x \in ItemRecords /\ x.st = items[id].st
  BY <1>3 DEF ItemRecords
<1> HIDE DEF x
<1>5. /\ items' \in ItemMaps /\ DOMAIN items' = DOMAIN items
      /\ \A y \in DOMAIN items' : items'[y].st = "completed" => Message(y) \in Had
  BY <1>1, <1>2, <1>3, <1>4, ItemFacts
<1>6. ListKept' /\ RecordsKept' /\ CachesRight' /\ JobsRight'
  BY <1>1, <1>2, <1>3, <1>5, SameRight DEF ListKept, RecordsKept, DoneHad, Downloaded, Had
<1> QED
  BY <1>1, <1>2, <1>5, <1>6, JobsMove

\* What does not concern the list.
LEMMA OutsideInv == ImportInv /\ (MoveFile \/ UNCHANGED importVars) => ImportInv'
<1> SUFFICES ASSUME ImportInv, MoveFile \/ UNCHANGED importVars PROVE ImportInv'
  OBVIOUS
<1>1. /\ UNCHANGED <<importer, fingerprint>> /\ UNCHANGED <<items, fingerprint, finished>> /\ UNCHANGED <<kv, meta>>
      /\ UNCHANGED <<jobs, got>> /\ queue' = queue /\ file' \subseteq file
  BY DEF MoveFile, UnchangedImport, importVars
<1>2. ListKept' /\ RecordsKept' /\ CachesRight' /\ JobsRight' /\ file' \subseteq got'
  BY <1>1, ListStays, RecordsStay, AllRight, SameRight DEF ImportInv, ClaimsHeld
<1> QED
  BY <1>1, <1>2, JobsMove

LEMMA CrashInv == ImportInv /\ Crash => ImportInv' /\ Alone'
<1> SUFFICES ASSUME ImportInv, Crash PROVE ImportInv' /\ Alone'
  OBVIOUS
<1>1. /\ UNCHANGED <<meta, file, got>> /\ kv' = kv /\ queue' = {}
      /\ items' = <<>> /\ fingerprint' = None /\ finished' = {}
      /\ importer' = FirstImporters /\ jobs' = [j \in Jobs |-> IdleJob]
  BY DEF Crash
<1>2. imp' \in ImporterRecords /\ imp'.at = "idle" /\ Alone'
  <2>1. IdleImport.at = "idle" /\ IdleImport.fin = None /\ IdleImport \in ImporterRecords
    BY IdleImportFacts DEF IdleImport, GoodImporters
  <2>2. \A g \in Importers : importer'[g].fin = None /\ importer'[g].at \in {"down", "idle"}
    BY <1>1 DEF FirstImporters, IdleImport
  <2> QED
    BY <2>1, <2>2 DEF imp, Alone, Working
<1>3. jobs' \in [Jobs -> JobRecords] /\ \A j \in Jobs : jobs'[j].at = "idle"
  BY <1>1, IdleJobFacts DEF JobPlaces
<1>4. items' \in ItemMaps /\ DOMAIN items' = {} /\ IsFiniteSet(DOMAIN items')
  BY <1>1, EmptyMap
<1>5. ImportTypes' /\ HeldTypes'
  BY <1>1, <1>2, <1>3, <1>4 DEF ImportInv, ImportTypes, HeldTypes
<1>6. ListShape'
  BY <1>1, <1>2, <1>4 DEF ListShape
<1>7. CacheShape' /\ ClaimsHeld'
  BY <1>1, <1>2, <1>3 DEF ImportInv, CacheShape, ClaimsHeld
<1>8. FinishedHad' /\ CachedWhole'
  BY <1>1, <1>2, <1>4 DEF ImportInv, FinishedHad, CachedWhole
<1> QED
  BY <1>2, <1>5, <1>6, <1>7, <1>8 DEF ImportInv

-----------------------------------------------------------------------------
(* What holds of one import after another. *)

Inv == Typed /\ (mixed \/ (Alone /\ ImportInv))

LEMMA InitInv == ImportInit => Inv
BY TypedInit, ImportInitInv DEF Inv

\* Whoever does not import leaves who imports alone.
LEMMA StaysAlone == Alone /\ UNCHANGED <<importer, importing>> => Alone'
BY DEF Alone, Working

LEMMA AloneStep ==
    ASSUME Typed, Alone, ImportInv, ~mixed', [ImportNext]_importVars
    PROVE  Alone' /\ ImportInv'
<1>1. ASSUME NEW g \in Importers, ImportStep(g) PROVE Alone' /\ ImportInv'
  <2>1. ~ImportMetaWrite(g)
    BY DEF Alone, ImportMetaWrite
  <2> QED
    BY <1>1, <2>1, LaunchInv, ImportStopsInv, ParseInv, ResetInv, TakeCacheInv, ScanInv, PublishInv, BuildListInv,
       ImportFinReadInv, ImportFinWriteInv, EnqueueImportedInv, ImportUrlInv, FetchMessageInv DEF ImportStep
<1>2. ASSUME NEW j \in Jobs, JobStep(j) PROVE Alone' /\ ImportInv'
  <2>1. ASSUME NEW id \in DOMAIN items, Pause(j, id) \/ ItemError(j, id) PROVE ImportInv'
    BY <2>1, PauseInv, ItemErrorInv
  <2>2. ImportInv'
    BY <1>2, <2>1, StartDownloadInv, PromoteInv, MarkCompletedInv, DownloadStopsInv, FinishDownloadInv,
       FinReadInv, FinWriteInv, RequestSavesInv, MetaWriteInv DEF JobStep
  <2>3. UNCHANGED <<importer, importing>>
    BY <1>2 DEF JobStep, UnchangedImport, StartDownload, Promote, MarkCompleted, DownloadStops, FinishDownload,
       FinRead, FinWrite, RequestSaves, MetaWrite, JobOnly, Pause, ItemError
  <2> QED
    BY <2>2, <2>3, StaysAlone
<1>3. ASSUME NEW id \in DOMAIN items, Enqueue(id) PROVE Alone' /\ ImportInv'
  BY <1>3, EnqueueInv, StaysAlone DEF Enqueue, UnchangedImport
<1>4. CASE MoveFile \/ UNCHANGED importVars
  <2>1. UNCHANGED <<importer, importing>>
    BY <1>4 DEF MoveFile, UnchangedImport, importVars
  <2> QED
    BY <1>4, <2>1, OutsideInv, StaysAlone
<1> QED
  BY <1>1, <1>2, <1>3, <1>4, CrashInv DEF ImportNext

\* Two imports that have met stay so.
LEMMA MixedStays == Typed /\ mixed /\ [ImportNext]_importVars => mixed'
<1> SUFFICES ASSUME mixed = TRUE, [ImportNext]_importVars PROVE mixed' = TRUE
  BY DEF Typed, ListTypes
<1>1. ASSUME NEW g \in Importers, ImportStep(g) PROVE mixed' = TRUE
  BY <1>1 DEF ImportStep, Launch, HandleImport, LoadChat, Start, Begin, ChatPageLoaded, ImportFails, ImportEnds,
     SetImportingFalse, Parse, Reset, TakeCache, Scan, Publish, Build, ImportFinRead, ImportFinWrite,
     ImportMetaWrite, EnqueueImported, ImportUrl, FetchMessage
<1>2. ASSUME NEW j \in Jobs, JobStep(j) PROVE mixed' = TRUE
  BY <1>2 DEF JobStep, UnchangedImport, StartDownload, Promote, MarkCompleted, DownloadStops, FinishDownload,
     FinRead, FinWrite, RequestSaves, MetaWrite, JobOnly, Pause, ItemError
<1>3. CASE MoveFile \/ Crash \/ UNCHANGED importVars \/ \E id \in DOMAIN items : Enqueue(id)
  BY <1>3 DEF MoveFile, Crash, Enqueue, UnchangedImport, importVars
<1> QED
  BY <1>1, <1>2, <1>3 DEF ImportNext

LEMMA InvStep == Inv /\ [ImportNext]_importVars => Inv'
<1> SUFFICES ASSUME Inv, [ImportNext]_importVars PROVE mixed' \/ (Alone' /\ ImportInv')
  BY TypedStep DEF Inv
<1>1. CASE mixed
  BY <1>1, MixedStays DEF Inv
<1>2. CASE ~mixed
  BY <1>2, AloneStep DEF Inv
<1> QED
  BY <1>1, <1>2

\* Of one import after another: a position that the resume record, s.finished or a status
\* calls finished is that of a message that has been downloaded, or has no media, although
\* records are written outside the lock, after the list may have been replaced (import.go,
\* meta.go, download.go).  Once two imports go on at once, nothing is claimed.
THEOREM FinishedInvariant == ImportSpec => []FinishedWasDownloaded
<1>1. Inv => FinishedWasDownloaded
  BY DEF Inv, ImportInv, FinishedHad, FinishedWasDownloaded
<1> QED
  BY <1>1, InitInv, InvStep, PTL DEF ImportSpec

\* Of one import after another: a list that is restored from the meta cache is the list
\* asked for, all of it (loadMetaCache, saveMetaCache).
THEOREM RestoredInvariant == ImportSpec => []RestoredIsWhole
<1>1. Inv => RestoredIsWhole
  <2> SUFFICES ASSUME Inv, ~mixed, NEW g \in Importers, importer[g].at \in {"scan", "publish"}
               PROVE  DOMAIN importer[g].cached = IdsOf(importer[g].list)
    BY DEF RestoredIsWhole
  <2>1. imp = importer[g]
    BY Focus DEF Inv, Working
  <2> QED
    BY <2>1 DEF Inv, ImportInv, CachedWhole
<1> QED
  BY <1>1, InitInv, InvStep, PTL DEF ImportSpec

LEMMA ScanStep ==
    ASSUME Inv, [ImportNext]_importVars, NEW g \in Importers,
           importer[g].at \in {"scan", "publish"}, importer'[g] = importer[g], ~mixed'
    PROVE  finished' = finished
<1>1. Typed /\ Alone /\ ImportInv
  BY MixedStays DEF Inv
<1>2. imp = importer[g] /\ \A k \in Importers : Working(k) => k = g
  BY <1>1, Focus DEF Working
<1>3. DOMAIN items = {}
  BY <1>1, <1>2 DEF ImportInv, ListShape
<1>4. ASSUME NEW k \in Importers, ImportStep(k) PROVE finished' = finished
  <2>1. CASE k # g
    <3>1. ~Working(k)
      BY <1>2, <2>1
    <3> QED
      BY <1>4, <3>1 DEF Working, ImportStep, Launch, HandleImport, LoadChat, ChatPageLoaded, ImportFails, ImportEnds,
         SetImportingFalse, Parse, Reset, TakeCache, Scan, Publish, Build, ImportFinRead, ImportFinWrite,
         ImportMetaWrite, EnqueueImported, ImportUrl, FetchMessage
  <2>2. CASE k = g
    <3>1. Scan(g) \/ Publish(g)
      BY <1>4, <2>2 DEF ImportStep, Launch, HandleImport, LoadChat, ChatPageLoaded, ImportFails, ImportEnds,
         Parse, Reset, TakeCache, Build, ImportFinRead, ImportFinWrite, ImportMetaWrite, EnqueueImported,
         ImportUrl, FetchMessage
    <3>2. importer[g].fin = None /\ importer[g] \in ImporterRecords
      BY <1>1, <1>2 DEF Alone, ImportInv, ImportTypes
    <3>3. importer'[g].at # importer[g].at
      <4>1. CASE Scan(g)
        BY <1>1, <3>2, <4>1 DEF Scan, Goes, Typed, ImporterRecords
      <4>2. CASE Publish(g)
        BY <1>1, <3>2, <4>2 DEF Publish, Goes, Typed, ImporterRecords
      <4> QED
        BY <3>1, <4>1, <4>2
    <3> QED
      BY <3>3
  <2> QED
    BY <2>1, <2>2
<1>5. ASSUME NEW j \in Jobs, JobStep(j) PROVE finished' = finished
  <2>1. CASE MarkCompleted(j)
    BY <1>3, <2>1 DEF MarkCompleted
  <2>2. CASE JobStep(j) /\ ~MarkCompleted(j)
    BY <1>3, <2>2 DEF JobStep, StartDownload, Promote, DownloadStops, FinishDownload, FinRead, FinWrite,
       RequestSaves, MetaWrite, JobOnly, Pause, ItemError
  <2> QED
    BY <1>5, <2>1, <2>2
<1>6. CASE \E id \in DOMAIN items : Enqueue(id)
  BY <1>3, <1>6
<1>7. CASE MoveFile \/ UNCHANGED importVars
  BY <1>7 DEF MoveFile, importVars
<1>8. CASE Crash
  <2>1. importer'[g].at \in {"down", "idle"}
    BY <1>8 DEF Crash, FirstImporters, IdleImport
  <2> QED
    BY <2>1
<1> QED
  BY <1>4, <1>5, <1>6, <1>7, <1>8 DEF ImportNext

\* Of one import after another: while applyCachedItems uses s.finished without the lock, no
\* download that still runs for the list before writes to it (import.go:489-521).
THEOREM ScanInvariant == ImportSpec => ScanUndisturbed
<1>1. Inv /\ [ImportNext]_importVars
      => [\A i \in Importers :
             importer[i].at \in {"scan", "publish"} /\ importer'[i] = importer[i]
                 => mixed' \/ finished' = finished]_importVars
  BY ScanStep
<1> QED
  BY <1>1, InitInv, InvStep, PTL DEF ImportSpec, ScanUndisturbed
=============================================================================
