------------------------------ MODULE Forward ------------------------------
(* The command `tdl forward`: its iterator (app/forward/iter.go) and the       *)
(* Forwarder (core/forwarder/forwarder.go, clone.go), which take turns in one  *)
(* goroutine.  Telegram forwards a message, or a copy of it is sent.           *)
EXTENDS Integers, Sequences, SequencesExt, FiniteSets

CONSTANTS
    Inputs,   \* what --from may name: sequences of lists of messages of a chat
    Albums,   \* the albums of the chat: sequences of messages
    Kind,     \* message -> "text", "file" (photo or document), "poll" (cannot be
              \* copied) or "place" (can be copied, there is no file to upload)
    NoMsg

VARIABLES
    dialogs,     \* opts.dialogs
    mode,        \* "direct", "clone", or "edit": --edit makes it clone
    single, dry, \* --single, --dry-run
    protected,   \* the chat or the message has noforwards set
    i, j,        \* iter.i, iter.j
    iterErr,     \* iter.err is set
    sent,        \* f.sent
    elem, grouped,   \* the message under way, the messages of its album
    todo, media, \* messages to be converted, messages that were
    at,          \* where Forward is
    stopped,     \* the context is canceled
    copies,      \* at the destination: message -> number of copies
    lost,        \* messages that arrived with an answer that did not
    split,       \* messages of albums that could not be fetched
    failed, dropped  \* messages of which OnDone has an error; left out of a copy

fwOptions == <<dialogs, mode, single, dry, protected>>
fwIter == <<i, j, iterErr>>
fwElem == <<elem, grouped, todo, media>>
fwSeen == <<copies, lost, split, failed, dropped>>
forwardVars == <<fwOptions, fwIter, sent, fwElem, at, stopped, fwSeen>>

Messages == DOMAIN Kind
AlbumOf(m) == IF \E a \in Albums : m \in Range(a) THEN CHOOSE a \in Albums : m \in Range(a) ELSE <<>>
UnderWay == {elem} \cup Range(grouped)

\* collectDialogs: with --desc, each from its last message to its first
CollectDialogs(input, desc) == [k \in DOMAIN input |-> IF desc THEN Reverse(input[k]) ELSE input[k]]

ForwardInit ==
    /\ \E input \in Inputs, desc \in BOOLEAN : dialogs = CollectDialogs(input, desc)
    /\ mode \in {"direct", "clone", "edit"}
    /\ single \in BOOLEAN /\ dry \in BOOLEAN /\ protected \in BOOLEAN
    /\ i = 1 /\ j = 1 /\ iterErr = FALSE /\ sent = {} /\ elem = NoMsg /\ grouped = <<>>
    /\ todo = <<>> /\ media = {} /\ at = "next" /\ stopped = FALSE
    /\ copies = [m \in Messages |-> 0] /\ lost = {} /\ split = {} /\ failed = {} /\ dropped = {}

-----------------------------------------------------------------------------
(* The iterator *)

Cancel ==
    /\ ~stopped /\ at \notin {"ended", "crashed"} /\ stopped' = TRUE
    /\ UNCHANGED <<fwOptions, fwIter, sent, fwElem, at, fwSeen>>

\* Mutation: the last message of a dialog counts as past the end.
Advance_Early ==
    IF j + 1 < Len(dialogs[i]) THEN j' = j + 1 /\ UNCHANGED i ELSE i' = i + 1 /\ j' = 1

Advance == IF j < Len(dialogs[i]) THEN j' = j + 1 /\ UNCHANGED i ELSE i' = i + 1 /\ j' = 1

(* Next: the message, where it goes to and, with --edit, its new text; any of   *)
(* these may fail, which ends the command.  With --edit the error of a          *)
(* destination that is not found is overwritten, and forwardMessage dereferences *)
(* the nil peer.                                                                *)
Next ==
    /\ at = "next"
    /\ IF stopped \/ i > Len(dialogs)
       THEN at' = "ended" /\ iterErr' = (iterErr \/ stopped) /\ UNCHANGED <<i, j, elem>>
       ELSE /\ Advance
            /\ \/ at' = "got" /\ elem' = dialogs[i][j] /\ UNCHANGED iterErr
               \/ at' = "ended" /\ iterErr' = TRUE /\ UNCHANGED elem
               \/ mode = "edit" /\ at' = "crashed" /\ UNCHANGED <<iterErr, elem>>
    /\ UNCHANGED <<fwOptions, sent, grouped, todo, media, stopped, fwSeen>>

-----------------------------------------------------------------------------
(* Forward *)

Skip ==
    /\ at = "got" /\ elem \in sent /\ at' = "next"
    /\ UNCHANGED <<fwOptions, fwIter, sent, fwElem, stopped, fwSeen>>

(* GetGroupedMessages does not look at the error of its iterator: when the      *)
(* history cannot be read, the album is empty.                                  *)
GetGrouped ==
    /\ at = "got" /\ elem \notin sent /\ at' = "forward"
    /\ LET album == IF single THEN <<>> ELSE AlbumOf(elem) IN
       \/ ~(stopped /\ album # <<>>) /\ grouped' = album /\ UNCHANGED split
       \/ album # <<>> /\ grouped' = <<>> /\ split' = split \cup Range(album)
    /\ todo' = <<>> /\ media' = {}
    /\ UNCHANGED <<fwOptions, fwIter, sent, elem, stopped, copies, lost, failed, dropped>>

\* Mutation: only the message itself is marked.
Done_Single(error) ==
    /\ sent' = sent \cup {elem}
    /\ failed' = IF error THEN failed \cup UnderWay ELSE failed
    /\ at' = IF error /\ stopped /\ grouped = <<>> THEN "ended" ELSE "next"

(* forwardMessage returns, by its deferred function; Forward goes on unless a   *)
(* message without an album was canceled.                                       *)
Done(error) ==
    /\ sent' = sent \cup UnderWay
    /\ failed' = IF error THEN failed \cup UnderWay ELSE failed
    /\ at' = IF error /\ stopped /\ grouped = <<>> THEN "ended" ELSE "next"

\* mediaSizeSum: what has no file fails a whole album
Sized == \A m \in Range(grouped) : Kind[m] = "file"

(* forwardMessage begins: Telegram forwards what it allows to be forwarded. *)
Begin ==
    /\ at = "forward"
    /\ IF ~Sized THEN Done(TRUE) /\ UNCHANGED todo
       ELSE /\ at' = IF mode = "direct" /\ ~protected THEN "direct" ELSE "clone"
            /\ todo' = IF grouped = <<>> THEN <<elem>> ELSE grouped
            /\ UNCHANGED <<sent, failed>>
    /\ UNCHANGED <<fwOptions, fwIter, elem, grouped, media, stopped, copies, lost, split, dropped>>

Arrive(msgs) == copies' = [m \in Messages |-> IF m \in msgs /\ ~dry THEN copies[m] + 1 ELSE copies[m]]

\* A request is answered; with --dry-run there is none.
Answered(msgs) == (dry \/ ~stopped) /\ Arrive(msgs) /\ UNCHANGED lost

\* It is refused, or the answer does not come and what it asked for may be done.
NotAnswered(msgs) ==
    /\ ~dry
    /\ \/ UNCHANGED <<copies, lost>>
       \/ ~stopped /\ Arrive(msgs) /\ lost' = lost \cup msgs

(* directForward, with copies as a fallback *)
ForwardDirect ==
    /\ at = "direct"
    /\ \/ Answered(UnderWay) /\ Done(FALSE)
       \/ NotAnswered(UnderWay) /\ at' = "clone" /\ UNCHANGED <<sent, failed>>
    /\ UNCHANGED <<fwOptions, fwIter, fwElem, stopped, split, dropped>>

(* convForwardedMedia: a protected file is downloaded and uploaded again, other *)
(* media are referred to.                                                       *)
Reuploaded(m) == Kind[m] = "file" /\ protected
Convert ==
    /\ at = "clone" /\ todo # <<>> /\ todo' = Tail(todo)
    /\ LET m == Head(todo) IN
       \/ /\ Kind[m] \in {"file", "place"} /\ (Reuploaded(m) => dry \/ ~stopped)
          /\ media' = media \cup {m} /\ UNCHANGED dropped
       \/ /\ Kind[m] \in {"text", "poll"} \/ (Reuploaded(m) /\ ~dry)
          /\ dropped' = (IF grouped = <<>> THEN dropped ELSE dropped \cup {m}) /\ UNCHANGED media
    /\ UNCHANGED <<fwOptions, fwIter, sent, elem, grouped, at, stopped,
                   copies, lost, split, failed>>

(* What was converted is sent; when there is nothing, the text of the message,  *)
(* if it has one.                                                               *)
SendCopy ==
    /\ at = "clone" /\ todo = <<>>
    /\ LET msgs == IF media = {} THEN {elem} ELSE media IN
       \/ Answered(msgs) /\ Done(FALSE)
       \/ NotAnswered(msgs) /\ Done(TRUE)
       \/ media = {} /\ Kind[elem] # "text" /\ Done(TRUE) /\ UNCHANGED <<copies, lost>>
    /\ UNCHANGED <<fwOptions, fwIter, fwElem, stopped, split, dropped>>

ForwardNext == Cancel \/ Next \/ Skip \/ GetGrouped \/ Begin \/ ForwardDirect \/ Convert \/ SendCopy

ForwardSpec == ForwardInit /\ [][ForwardNext]_forwardVars
-----------------------------------------------------------------------------
TypeOK ==
    /\ at \in {"next", "got", "forward", "direct", "clone", "ended", "crashed"}
    /\ i \in 1 .. Len(dialogs) + 1 /\ (i <= Len(dialogs) => j \in 1 .. Len(dialogs[i]))
    /\ elem \in Messages \cup {NoMsg} /\ sent \subseteq Messages
    /\ copies \in [Messages -> 0 .. 4]

(* However often a message is listed, alone or by its album, in one input or in *)
(* two, one copy of it is made; more only when an answer was lost, so that it   *)
(* was sent again in another way, or when its album could not be read.          *)
ForwardedOnce ==
    \A m \in Messages : copies[m] <= 1 \/ m \in lost \cup split

(* A command that ends by itself has come to every listed message: it arrived,  *)
(* its error was reported, or it was left out of the copy of its album.         *)
AllHandled ==
    at = "ended" /\ ~iterErr /\ ~stopped =>
        \A m \in UNION {Range(dialogs[k]) : k \in DOMAIN dialogs} :
            m \in sent /\ (dry \/ copies[m] > 0 \/ m \in failed \cup dropped)

(* --dry-run sends nothing. *)
DryRunSendsNothing == dry => \A m \in Messages : copies[m] = 0
=============================================================================
