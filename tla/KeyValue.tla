------------------------------ MODULE KeyValue ------------------------------
(* The key-value storages (pkg/kv: bolt, legacy and file), the commands that   *)
(* copy one to another (app/migrate), and the migration that the first command *)
(* begins with (cmd/root.go).  One process at a time uses the storages.        *)
EXTENDS Integers, FiniteSets

CONSTANTS
    Namespaces, Names, Values,   \* a namespace holds names with a value each
    KvClients,   \* goroutines that use the storage at once
    Nothing,     \* no namespace, no value
    MaxCommands  \* bound: commands, one after the other

VARIABLES
    db,         \* storage -> namespace -> name -> value
    torn,       \* the JSON file was being written when the process died
    dirMade,    \* the directory of the bolt storage is there
    backup,     \* the file of `tdl backup`: [whole, copy]
    proc,       \* the process: [at, storage, ns, copy, left, to]
    client,     \* goroutine -> what it does with the storage
    promised,   \* storage -> namespace -> name -> the value it should have
    unsure,     \* storages of which that cannot be said: a copy to it did not end
    commands    \* so far

kvVars == <<db, torn, dirMade, backup, proc, client, promised, unsure, commands>>

Storages == {"bolt", "legacy", "file"}
Empty == [s \in Namespaces |-> Nothing]
Off == [at |-> "off", storage |-> "bolt", ns |-> Nothing, copy |-> Empty, left |-> {}, to |-> "bolt"]
Idle == [at |-> "idle", meta |-> Empty, name |-> Nothing, value |-> Nothing]

Present(meta) == {s \in Namespaces : meta[s] # Nothing}
Get(meta, s, n) == IF meta[s] = Nothing THEN Nothing ELSE meta[s][n]

\* A namespace with some pairs put into it; it is made when it is not there.
Put(meta, s, pairs) ==
    [meta EXCEPT ![s] = [n \in Names |-> IF pairs[n] # Nothing THEN pairs[n] ELSE Get(meta, s, n)]]

NoPairs == [n \in Names |-> Nothing]
Opened(meta, s) == Put(meta, s, NoPairs)
PutAll(meta, copy) ==
    [s \in Namespaces |-> IF copy[s] = Nothing THEN meta[s] ELSE Put(meta, s, copy[s])[s]]
Changed(meta, s, n, v) == [meta EXCEPT ![s][n] = v]

\* An earlier version of the program may have left something in the legacy storage.
KeyValueInit ==
    /\ \E old \in Values \cup {Nothing}, s \in Namespaces :
          db = [d \in Storages |->
                   IF d = "legacy" /\ old # Nothing THEN [Empty EXCEPT ![s] = [n \in Names |-> old]]
                   ELSE Empty]
    /\ torn = FALSE /\ dirMade = FALSE /\ backup = [whole |-> FALSE, copy |-> Empty]
    /\ proc = Off
    /\ client = [c \in KvClients |-> Idle]
    /\ promised = [d \in Storages |-> [s \in Namespaces |-> [n \in Names |-> Get(db[d], s, n)]]]
    /\ unsure = {} /\ commands = 0

-----------------------------------------------------------------------------
(* A command begins *)

Counted == proc.at = "off" /\ commands < MaxCommands /\ commands' = commands + 1

\* Mutation: the migration is done whenever there is something to migrate.
MustMigrate_Always == TRUE

\* PersistentPreRunE: by the directory of the bolt storage
MustMigrate == ~dirMade

(* With the default storage.  migrateLegacyToBolt opens the legacy storage and  *)
(* makes the other one before it copies anything.                               *)
StartDefault ==
    /\ Counted
    /\ IF MustMigrate
       THEN /\ dirMade' = TRUE
            /\ proc' = [Off EXCEPT !.at = "auto", !.copy = db["legacy"], !.left = Present(db["legacy"])]
       ELSE proc' = [Off EXCEPT !.at = "use"] /\ UNCHANGED dirMade
    /\ UNCHANGED <<db, torn, backup, client, promised, unsure>>

(* With --storage; there is no migration then, and the storage is made. *)
StartWith(d) ==
    /\ Counted /\ proc' = [Off EXCEPT !.at = "use", !.storage = d]
    /\ dirMade' = (dirMade \/ d = "bolt")
    /\ UNCHANGED <<db, torn, backup, client, promised, unsure>>

Readable == proc.storage = "file" => ~torn

(* Open makes the namespace. *)
Open(s) ==
    /\ proc.at = "use" /\ proc.ns = Nothing /\ Readable
    /\ proc' = [proc EXCEPT !.ns = s] /\ db' = [db EXCEPT ![proc.storage] = Opened(@, s)]
    /\ UNCHANGED <<torn, dirMade, backup, client, promised, unsure, commands>>

-----------------------------------------------------------------------------
(* Set, and Delete for v = Nothing, of a goroutine *)

Promise(n, v) == promised' = [promised EXCEPT ![proc.storage][proc.ns][n] = v]

\* bolt, legacy: one transaction
SetInTransaction(n, v) ==
    /\ proc.at = "use" /\ proc.ns # Nothing /\ proc.storage # "file"
    /\ db' = [db EXCEPT ![proc.storage] = Changed(@, proc.ns, n, v)] /\ Promise(n, v)
    /\ UNCHANGED <<torn, dirMade, backup, proc, client, unsure, commands>>

(* file: the whole file is read, and written, under the lock; it is not held in *)
(* between, so that one of two goroutines may undo what the other did.          *)
FileRead(c, n, v) ==
    /\ proc.at = "use" /\ proc.ns # Nothing /\ proc.storage = "file" /\ Readable /\ client[c] = Idle
    /\ client' = [client EXCEPT ![c] = [at |-> "write", meta |-> db["file"], name |-> n, value |-> v]]
    /\ unsure' = IF \E e \in KvClients : client[e] # Idle THEN unsure \cup {"file"} ELSE unsure
    /\ UNCHANGED <<db, torn, dirMade, backup, proc, promised, commands>>

FileWrite(c) ==
    /\ client[c].at = "write" /\ client' = [client EXCEPT ![c] = Idle]
    /\ db' = [db EXCEPT !["file"] = Changed(client[c].meta, proc.ns, client[c].name, client[c].value)]
    /\ Promise(client[c].name, client[c].value)
    /\ UNCHANGED <<torn, dirMade, backup, proc, unsure, commands>>

-----------------------------------------------------------------------------
(* tdl backup, tdl recover, tdl migrate *)

Copying == proc.at \in {"auto", "copy", "copied"}
Fresh == proc.at = "use" /\ proc.ns = Nothing

Backup ==
    /\ Fresh /\ Readable /\ backup' = [whole |-> FALSE, copy |-> Empty]
    /\ proc' = [proc EXCEPT !.at = "backup", !.copy = db[proc.storage]]
    /\ UNCHANGED <<db, torn, dirMade, client, promised, unsure, commands>>

BackupWritten ==
    /\ proc.at = "backup" /\ backup' = [whole |-> TRUE, copy |-> proc.copy] /\ proc' = Off
    /\ UNCHANGED <<db, torn, dirMade, client, promised, unsure, commands>>

Recover ==
    /\ Fresh /\ backup.whole
    /\ proc' = [proc EXCEPT !.at = "copy", !.copy = backup.copy, !.left = Present(backup.copy), !.to = proc.storage]
    /\ UNCHANGED <<db, torn, dirMade, backup, client, promised, unsure, commands>>

Migrate(d) ==
    /\ Fresh /\ Readable /\ d # proc.storage
    /\ proc' = [proc EXCEPT !.at = "copy", !.copy = db[proc.storage],
                            !.left = Present(db[proc.storage]), !.to = d]
    /\ dirMade' = (dirMade \/ d = "bolt")
    /\ UNCHANGED <<db, torn, backup, client, promised, unsure, commands>>

\* Mutation: the namespace is replaced.
PutNamespace_Replace(s) == [db["bolt"] EXCEPT ![s] = proc.copy[s]]

PutNamespace(s) == Put(db["bolt"], s, proc.copy[s])

(* MigrateFrom, of bolt: a transaction for each namespace *)
CopyNamespace(s) ==
    /\ proc.at \in {"auto", "copy"} /\ proc.to = "bolt" /\ s \in proc.left
    /\ db' = [db EXCEPT !["bolt"] = PutNamespace(s)] /\ proc' = [proc EXCEPT !.left = @ \ {s}]
    /\ UNCHANGED <<torn, dirMade, backup, client, promised, unsure, commands>>

(* of legacy, one transaction; of file, the file is written anew, whatever it had *)
CopyWhole ==
    /\ proc.at = "copy" /\ proc.to # "bolt" /\ proc' = [proc EXCEPT !.at = "copied", !.left = {}]
    /\ db' = [db EXCEPT ![proc.to] = IF proc.to = "file" THEN proc.copy ELSE PutAll(@, proc.copy)]
    /\ torn' = (torn /\ proc.to # "file")
    /\ UNCHANGED <<dirMade, backup, client, promised, unsure, commands>>

\* What a copy promises: its values; the migration a command begins with, no change.
CopyPromise(s, n) ==
    LET old == promised[proc.to][s][n] new == Get(proc.copy, s, n) IN
    IF proc.at = "auto" THEN (IF old = Nothing THEN new ELSE old)
    ELSE IF new # Nothing \/ proc.to = "file" THEN new ELSE old

CopyDone ==
    /\ Copying /\ proc.left = {} /\ (proc.to = "bolt" \/ proc.at = "copied")
    /\ promised' = [promised EXCEPT ![proc.to] = [s \in Namespaces |-> [n \in Names |-> CopyPromise(s, n)]]]
    /\ IF proc.at = "auto" THEN proc' = [Off EXCEPT !.at = "use"]
       ELSE proc' = Off
    /\ UNCHANGED <<db, torn, dirMade, backup, client, unsure, commands>>

-----------------------------------------------------------------------------
Writing == (\E c \in KvClients : client[c].at = "write") \/ (proc.at = "copy" /\ proc.to = "file")

(* The command ends, fails or is killed; a storage that a copy was on its way   *)
(* to has part of it, a file that was being written may be cut short.           *)
End ==
    /\ proc.at # "off" /\ proc' = Off /\ client' = [c \in KvClients |-> Idle]
    /\ unsure' = IF Copying THEN unsure \cup {proc.to} ELSE unsure
    /\ torn' \in IF Writing THEN {torn, TRUE} ELSE {torn}
    /\ UNCHANGED <<db, dirMade, backup, promised, commands>>

KeyValueNext ==
    \/ StartDefault \/ \E d \in Storages : StartWith(d) \/ Migrate(d)
    \/ \E s \in Namespaces : Open(s) \/ CopyNamespace(s)
    \/ \E n \in Names, v \in Values \cup {Nothing} :
          SetInTransaction(n, v) \/ \E c \in KvClients : FileRead(c, n, v)
    \/ \E c \in KvClients : FileWrite(c)
    \/ Backup \/ BackupWritten \/ Recover \/ CopyWhole \/ CopyDone \/ End

KeyValueSpec == KeyValueInit /\ [][KeyValueNext]_kvVars
-----------------------------------------------------------------------------
TypeOK ==
    /\ db \in [Storages -> [Namespaces -> {Nothing} \cup [Names -> Values \cup {Nothing}]]]
    /\ proc.at \in {"off", "auto", "use", "backup", "copy", "copied"} /\ proc.storage \in Storages
    /\ unsure \subseteq Storages /\ torn \in BOOLEAN /\ dirMade \in BOOLEAN

(* What was set, migrated or recovered with success is there, and nothing else, *)
(* in every storage and over any number of commands that are killed at any      *)
(* point: a copy keeps the other pairs of bolt and legacy, the first command's  *)
(* migration takes back no newer value, and no copy changes where it comes from.*)
KeyValuesKept ==
    \A d \in Storages :
        \/ d \in unsure \/ (d = "file" /\ torn) \/ (Copying /\ proc.to = d)
        \/ \A s \in Namespaces, n \in Names : Get(db[d], s, n) = promised[d][s][n]
=============================================================================
