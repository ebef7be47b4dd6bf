----------------------------- MODULE ChatPaging -----------------------------
(* Showing a chat in `tdl web`: the recent messages, older ones page by page,  *)
(* and new ones as they arrive (app/web/chats.go).  Saved messages are merged  *)
(* from the histories of their sources (saved.go), a takeout session reads a   *)
(* history range by range (takeout_chat.go).  One chat, of one of these kinds; *)
(* its messages are 1, 2, ... in the order they were sent.                     *)
EXTENDS Naturals, Sequences, SequencesExt, FiniteSets

CONSTANTS
    PageSize, Batch,       \* chatPageSize, and messages per request: 300 and 100
    Histories,             \* how many messages the chat may have to begin with
    MaxNew, MaxImports,    \* bounds on the messages sent, the imports, later
    Sources,               \* senders saved messages come from
    None

VARIABLES
    kind,       \* "history", "takeout" or "saved"
    source,     \* message -> its source
    split,      \* a takeout has the ranges above and up to this message
    posted,     \* messages sent so far
    updates,    \* messages whose update has not been handled
    active,     \* s.activeChat is this chat
    shown,      \* s.chatOrder of the chat
    cursor, chatDone,     \* s.chatCursor and s.chatDone of the chat
    loader,     \* the request that loads a page; it holds s.importing
    saved,      \* s.savedSources: source -> [cursor, done, pending], or None
    takeout,    \* s.takeoutChats of the chat: [index, cursor], or None
    known,      \* messages there were when the first page was asked for
    live,       \* messages shown because of their update
    cut,        \* a page was full in the middle of the last batch of a range
    reimports   \* imports so far

serverVars == <<shown, cursor, chatDone, saved, takeout>>
historyVars == <<kind, source, split>>
chatVars == <<historyVars, posted, updates, active, serverVars, loader, known, live, cut,
              reimports>>

MaxMessages == Max(Histories) + MaxNew
Idle == [at |-> "idle", older |-> FALSE, had |-> FALSE, offset |-> 0, oldest |-> 0,
         count |-> 0, batch |-> {}, got |-> 0]

ChatInit ==
    /\ kind \in {"history", "takeout", "saved"}
    /\ source \in [1 .. MaxMessages -> Sources]
    /\ posted \in Histories /\ split \in 0 .. posted
    /\ kind = "saved" \/ source = [m \in 1 .. MaxMessages |-> CHOOSE x \in Sources : TRUE]
    /\ kind = "takeout" \/ split = 0
    /\ updates = {} /\ active = FALSE /\ shown = <<>> /\ cursor = 0 /\ chatDone = FALSE
    /\ loader = Idle /\ saved = None /\ takeout = None
    /\ known = 0 /\ live = {} /\ cut = FALSE /\ reimports = 0

-----------------------------------------------------------------------------
(* What Telegram answers: the newest of the messages below an offset, 0 for none. *)
Below(messages, offset) == {m \in messages : offset = 0 \/ m < offset}

Newest(messages, n) == {m \in messages : Cardinality({k \in messages : k > m}) < n}

OfSource(x) == {m \in 1 .. posted : source[m] = x}

\* sortMessageRanges: the newest range first.
RangeOf(index) == IF index = 1 THEN split + 1 .. posted ELSE 1 .. split
RangeCount == IF split = 0 THEN 1 ELSE 2

\* Mutation: a message that is there is appended again.
AppendChatItem_Again(m) == Append(shown, m)

AppendChatItem(m) == IF Contains(shown, m) THEN shown ELSE Append(shown, m)
IsNew(m) == ~Contains(shown, m)

\* Mutation: a full page is taken for the last one.
AdvanceChatPage_Full(c, oldest, scanned) ==
    IF scanned = 0 \/ oldest = 0 \/ (c > 0 /\ oldest >= c)
    THEN [cursor |-> c, done |-> TRUE]
    ELSE [cursor |-> oldest, done |-> scanned <= PageSize]

AdvanceChatPage(c, oldest, scanned) ==
    IF scanned = 0 \/ oldest = 0 \/ (c > 0 /\ oldest >= c)
    THEN [cursor |-> c, done |-> TRUE]
    ELSE [cursor |-> oldest, done |-> scanned < PageSize]

\* A batch was the last: nothing, nothing older than the cursor, or a short one.
LastBatch(got, oldest, c) == got = 0 \/ oldest = 0 \/ (c > 0 /\ oldest >= c) \/ got < Batch
-----------------------------------------------------------------------------
(* Requests. *)
Begin(older) ==
    /\ active' = TRUE
    /\ loader' = [Idle EXCEPT !.at = "begin", !.older = older]
    /\ UNCHANGED <<historyVars, posted, updates, serverVars, known, live, cut, reimports>>

(* handleSelectChat *)
SelectChat == loader.at = "idle" /\ Begin(FALSE)

(* ... back to the imported items, also while a page is loading *)
Deselect ==
    /\ active /\ active' = FALSE
    /\ UNCHANGED <<historyVars, posted, updates, serverVars, loader, known, live, cut, reimports>>

(* handleMoreChat *)
MoreChat == loader.at = "idle" /\ active /\ ~chatDone /\ Begin(TRUE)

UnchangedOutside == UNCHANGED <<historyVars, posted, updates, active, live, reimports>>

(* A request to Telegram fails, what is there stays. *)
LoadFails ==
    /\ loader.at \in {"begin", "page", "fetch", "fill"} /\ loader' = Idle
    /\ UnchangedOutside /\ UNCHANGED <<serverVars, known, cut>>

FreshSource == [cursor |-> 0, done |-> FALSE, pending |-> {}]

(* loadChatPage, ensureSavedSources, takeoutChatState *)
LoadChatPage ==
    /\ loader.at = "begin"
    /\ known' = IF cursor = 0 /\ ~chatDone /\ saved = None /\ takeout = None THEN posted
                ELSE known
    /\ loader' = [loader EXCEPT
          !.at = [history |-> "page", takeout |-> "fetch", saved |-> "fill"][kind],
          !.had = shown # <<>>,
          !.offset = IF loader.older THEN cursor ELSE 0]
    /\ saved' = IF kind = "saved" /\ saved = None THEN [x \in Sources |-> FreshSource] ELSE saved
    /\ takeout' = IF kind = "takeout" /\ takeout = None THEN [index |-> 1, cursor |-> 0] ELSE takeout
    /\ UnchangedOutside /\ UNCHANGED <<shown, cursor, chatDone, cut>>

(* A message of the history, newest first *)
NextMessage ==
    LET below == Below(1 .. posted, loader.offset) IN
    /\ loader.at = "page" /\ loader.count < PageSize /\ below # {}
    /\ shown' = AppendChatItem(Max(below))
    /\ loader' = [loader EXCEPT !.offset = Max(below), !.oldest = Max(below), !.count = @ + 1]
    /\ UnchangedOutside /\ UNCHANGED <<cursor, chatDone, saved, takeout, known, cut>>

(* A page is full, or the history is at its end. *)
EndPage ==
    LET next == AdvanceChatPage(cursor, loader.oldest, loader.count) IN
    /\ loader.at = "page"
    /\ loader.count = PageSize \/ Below(1 .. posted, loader.offset) = {}
    /\ IF ~loader.had \/ loader.older
       THEN cursor' = next.cursor /\ chatDone' = next.done
       ELSE UNCHANGED <<cursor, chatDone>>
    /\ loader' = Idle
    /\ UnchangedOutside /\ UNCHANGED <<shown, saved, takeout, known, cut>>

-----------------------------------------------------------------------------
(* loadTakeoutChatPage *)
TakeoutFetch ==
    /\ loader.at = "fetch" /\ loader.count < PageSize /\ takeout.index <= RangeCount
    /\ LET batch == Newest(Below(RangeOf(takeout.index), takeout.cursor), Batch) IN
       loader' = [loader EXCEPT !.at = "batch", !.batch = batch, !.got = Cardinality(batch), !.oldest = 0]
    /\ UnchangedOutside /\ UNCHANGED <<serverVars, known, cut>>

(* A message of the batch; a full page leaves the rest. *)
TakeoutMessage ==
    LET m == Max(loader.batch)
        count == loader.count + (IF IsNew(m) THEN 1 ELSE 0)
        full == IsNew(m) /\ count >= PageSize
        rest == loader.batch \ {m} IN
    /\ loader.at = "batch" /\ loader.batch # {}
    /\ shown' = AppendChatItem(m)
    /\ loader' = [loader EXCEPT !.oldest = m, !.count = count,
                                !.batch = IF full THEN {} ELSE rest]
    /\ cut' = (cut \/ (full /\ rest # {} /\ loader.got < Batch))
    /\ UnchangedOutside /\ UNCHANGED <<cursor, chatDone, saved, takeout, known>>

TakeoutNext ==
    IF LastBatch(loader.got, loader.oldest, takeout.cursor)
    THEN [index |-> takeout.index + 1, cursor |-> 0]
    ELSE [takeout EXCEPT !.cursor = loader.oldest]

TakeoutBatchDone ==
    /\ loader.at = "batch" /\ loader.batch = {}
    /\ takeout' = TakeoutNext /\ loader' = [loader EXCEPT !.at = "fetch"]
    /\ UnchangedOutside /\ UNCHANGED <<shown, cursor, chatDone, saved, known, cut>>

TakeoutEnd ==
    /\ loader.at = "fetch" /\ (loader.count >= PageSize \/ takeout.index > RangeCount)
    /\ chatDone' = (takeout.index > RangeCount) /\ loader' = Idle
    /\ UnchangedOutside /\ UNCHANGED <<shown, cursor, saved, takeout, known, cut>>

-----------------------------------------------------------------------------
(* loadSavedChatPage *)
Wanted(x) == saved[x].pending = {} /\ ~saved[x].done

(* fillSavedPending, fetchSavedSource: a batch of every source that has none *)
FetchSavedSource ==
    /\ loader.at = "fill"
    /\ \E x \in Sources :
          LET batch == Newest(Below(OfSource(x), saved[x].cursor), Batch)
              oldest == IF batch = {} THEN 0 ELSE Min(batch)
              last == LastBatch(Cardinality(batch), oldest, saved[x].cursor) IN
          /\ Wanted(x)
          /\ saved' = [saved EXCEPT ![x] = [pending |-> batch, done |-> last,
                                            cursor |-> IF last THEN @.cursor ELSE oldest]]
    /\ UnchangedOutside /\ UNCHANGED <<shown, cursor, chatDone, takeout, loader, known, cut>>

Pending == UNION {saved[x].pending : x \in Sources}

\* Mutation: a message is taken while a source still has to be asked.
SavedReady_Any == loader.at = "fill" /\ loader.count < PageSize /\ Pending # {}

SavedReady == /\ loader.at = "fill" /\ loader.count < PageSize /\ Pending # {}
              /\ \A x \in Sources : ~Wanted(x)

(* popSavedMessage: the newest of all that are pending *)
PopSavedMessage ==
    LET m == Max(Pending) IN
    /\ SavedReady
    /\ saved' = [saved EXCEPT ![source[m]].pending = @ \ {m}]
    /\ shown' = AppendChatItem(m)
    /\ loader' = [loader EXCEPT !.count = @ + (IF IsNew(m) THEN 1 ELSE 0)]
    /\ UnchangedOutside /\ UNCHANGED <<cursor, chatDone, takeout, known, cut>>

SavedEnd ==
    /\ loader.at = "fill"
    /\ loader.count >= PageSize \/ (Pending = {} /\ \A x \in Sources : ~Wanted(x))
    /\ chatDone' = \A x \in Sources : saved[x].done /\ saved[x].pending = {}
    /\ cursor' = 0 /\ loader' = Idle
    /\ UnchangedOutside /\ UNCHANGED <<shown, saved, takeout, known, cut>>

-----------------------------------------------------------------------------
(* A message is sent; its update is handled some time later. *)
Post ==
    /\ posted < MaxMessages /\ posted' = posted + 1
    /\ updates' = updates \cup {posted + 1}
    /\ UNCHANGED <<historyVars, active, serverVars, loader, known, live, cut, reimports>>

(* appendLiveMessage: only for the chat that is open *)
AppendLiveMessage ==
    /\ \E m \in updates :
          /\ updates' = updates \ {m}
          /\ shown' = IF active THEN AppendChatItem(m) ELSE shown
          /\ live' = IF active /\ IsNew(m) THEN live \cup {m} ELSE live
    /\ UNCHANGED <<historyVars, posted, active, cursor, chatDone, saved, takeout, loader,
                   known, cut, reimports>>

(* resetImportState and applyCachedItems drop what was loaded of every chat. *)
ImportList ==
    /\ loader.at = "idle" /\ reimports < MaxImports /\ reimports' = reimports + 1
    /\ shown' = <<>> /\ cursor' = 0 /\ chatDone' = FALSE /\ saved' = None /\ takeout' = None
    /\ live' = {} /\ cut' = FALSE
    /\ UNCHANGED <<historyVars, posted, updates, active, loader, known>>

ChatNext ==
    \/ SelectChat \/ Deselect \/ MoreChat \/ LoadFails \/ LoadChatPage
    \/ NextMessage \/ EndPage
    \/ TakeoutFetch \/ TakeoutMessage \/ TakeoutBatchDone \/ TakeoutEnd
    \/ FetchSavedSource \/ PopSavedMessage \/ SavedEnd
    \/ Post \/ AppendLiveMessage \/ ImportList

ChatSpec == ChatInit /\ [][ChatNext]_chatVars
-----------------------------------------------------------------------------
TypeOK ==
    /\ posted \in 0 .. MaxMessages /\ updates \subseteq 1 .. posted /\ active \in BOOLEAN
    /\ ToSet(shown) \subseteq 1 .. posted /\ cursor \in 0 .. posted /\ chatDone \in BOOLEAN
    /\ loader.count \in 0 .. PageSize /\ known \in 0 .. posted

(* A chat that says it has no older messages shows every message there was     *)
(* when it was opened, and each once, whatever pages failed, were asked for    *)
(* again or overlapped updates.  Only a takeout page that fills up inside the  *)
(* short last batch of a range loses messages (takeout_chat.go:75).            *)
HistoryComplete ==
    /\ IsInjective(shown)
    /\ chatDone /\ ~cut => 1 .. known \subseteq ToSet(shown)

(* The pages of saved messages are shown newest first over all their sources,  *)
(* also over the limits of pages and batches and after a request that failed.  *)
(* What came as an update is where it came.                                    *)
SavedNewestFirst ==
    kind = "saved" => \A i, j \in DOMAIN shown :
        i < j /\ {shown[i], shown[j]} \cap live = {} => shown[i] > shown[j]
=============================================================================
