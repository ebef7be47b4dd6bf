------------------------------ MODULE Commands ------------------------------
(* The commands of tdl: download, forward, upload, and the storage that all of *)
(* them and `tdl migrate` use.  They share no state here, so in a behaviour one *)
(* of them takes steps and the others stay where they begin.                    *)
EXTENDS DownloadCommand

CONSTANTS
    Turns,                                   \* the commands that may take steps
    Inputs, Albums, Kind,                    \* Forward
    Paths, Excluded, UploadLimit,            \* Upload
    Namespaces, Names, Values, KvClients, MaxCommands,  \* KeyValue
    None

VARIABLES
    turn,
    \* Forward
    dialogs, mode, single, dry, protected, i, j, iterErr, sent, fwElem, grouped, todo, media,
    at, stopped, copies, lost, split, failed, dropped,
    \* Upload
    files, remove, cur, upErr, uploader, upload, tracker, active, upCanceled, onDisk, arrived,
    refused, leaked,
    \* KeyValue
    db, torn, dirMade, backup, proc, client, promised, unsure, commands

Fwd == INSTANCE Forward WITH NoMsg <- None, elem <- fwElem

Up == INSTANCE Upload

Kv == INSTANCE KeyValue WITH Nothing <- None

ASSUME TurnsAssumption == Turns \subseteq {"download", "forward", "upload", "storage"}

\* Every list of an input has a message (an empty one is not looked at, it ends the
\* process), and a message is in one album.
ASSUME ForwardAssumption ==
    /\ \A input \in Inputs :
          /\ input \in Seq(Seq(DOMAIN Kind))
          /\ \A k \in DOMAIN input : input[k] # <<>>
    /\ \A a \in Albums : a \in Seq(DOMAIN Kind)
    /\ \A a, b \in Albums, m \in DOMAIN Kind :
          m \in Fwd!Range(a) /\ m \in Fwd!Range(b) => a = b

\* --limit is not negative; what walk finds are sequences of files.
ASSUME UploadAssumption ==
    /\ UploadLimit \in Nat
    /\ \A p \in Paths : p \in Seq(Up!Range(p))

\* None is told apart from what a storage holds.
ASSUME KeyValueAssumption ==
    /\ None \notin Namespaces /\ None \notin Values
    /\ None \notin [Names -> Values \cup {None}]

downloadVars == vars
forwardAll == <<dialogs, mode, single, dry, protected, i, j, iterErr, sent, fwElem, grouped,
    todo, media, at, stopped, copies, lost, split, failed, dropped>>
uploadAll == <<files, remove, cur, upErr, uploader, upload, tracker, active, upCanceled,
    onDisk, arrived, refused, leaked>>
kvAll == <<db, torn, dirMade, backup, proc, client, promised, unsure, commands>>

CommandsInit ==
    /\ turn \in Turns
    /\ Init /\ Fwd!ForwardInit /\ Up!UploadInit /\ Kv!KeyValueInit

(* A command that has ended. *)
Stopped ==
    /\ \/ turn = "forward" /\ at \in {"ended", "crashed"}
       \/ turn = "upload" /\ uploader = "ended"
       \/ turn = "storage" /\ proc.at = "off"
    /\ UNCHANGED <<downloadVars, forwardAll, uploadAll, kvAll>>

CommandsNext ==
    /\ UNCHANGED turn
    /\ \/ /\ turn = "download" /\ Step
          /\ UNCHANGED <<forwardAll, uploadAll, kvAll>>
       \/ /\ turn = "forward" /\ Fwd!ForwardNext
          /\ UNCHANGED <<downloadVars, uploadAll, kvAll>>
       \/ /\ turn = "upload" /\ Up!UploadNext
          /\ UNCHANGED <<downloadVars, forwardAll, kvAll>>
       \/ /\ turn = "storage" /\ Kv!KeyValueNext
          /\ UNCHANGED <<downloadVars, forwardAll, uploadAll>>
       \/ Stopped

commandsVars == <<turn, downloadVars, forwardAll, uploadAll, kvAll>>
CommandsSpec == CommandsInit /\ [][CommandsNext]_commandsVars

-----------------------------------------------------------------------------
(* The types of all of them. *)
CommandsTypeOK ==
    CASE turn = "download" -> TypeOK
      [] turn = "forward" -> Fwd!TypeOK
      [] turn = "upload" -> Up!TypeOK
      [] turn = "storage" -> Kv!TypeOK

(* Every message is forwarded, once, and with --dry-run none (forwarder.go). *)
ForwardIsRight ==
    turn = "forward" => Fwd!ForwardedOnce /\ Fwd!AllHandled /\ Fwd!DryRunSendsNothing

(* Every file is tried, few are open at once, and only one that was tried is   *)
(* removed (uploader.go, app/up).                                              *)
UploadIsRight ==
    turn = "upload" => Up!FewAreOpen /\ Up!OnlyTriedIsRemoved /\ Up!AllTried

(* A storage has what was put into it (pkg/kv, app/migrate, cmd/root.go). *)
KeyValuesKept == turn = "storage" => Kv!KeyValuesKept

(* With --rm only a file that was sent is removed: "Delete the uploaded file    *)
(* after uploading successfully" (docs/content/en/guide/upload.md).            *)
RemovedWasSent == turn = "upload" => Up!RemovedWasSent
=============================================================================
