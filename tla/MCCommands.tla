----------------------------- MODULE MCCommands -----------------------------
(* Small instances of the commands of tdl. *)
EXTENDS Commands, MCDownloadCommand

(* An album listed by all its messages; listed over three dialogs, by each of   *)
(* its messages alone and with messages of other kinds; a message in two lists. *)
ThreeInputs == {<<<<1, 2, 3>>>>, <<<<2>>, <<1, 4>>, <<3, 5>>>>, <<<<4, 1>>, <<1>>>>}
OneAlbumOfThree == {<<1, 2, 3>>}
Kinds == <<"file", "file", "file", "text", "place">>

(* More files than slots, a file that is given twice, one that is left out. *)
ThreePaths == {<<1, 2, 3, 5>>, <<1, 2, 1>>, <<1, 2, 3, 4>>}

(* The commands that take no steps begin in one state, and the namespaces and   *)
(* the values of the storage are interchangeable.                               *)
MCInit ==
    /\ CommandsInit
    /\ \/ turn = "forward"
       \/ dialogs = <<<<1, 2, 3>>>> /\ mode = "direct" /\ ~single /\ ~dry /\ ~protected
    /\ turn = "upload" \/ (Len(files) = 4 /\ ~remove)
    /\ db["legacy"]["work"] = None
    /\ db["legacy"]["default"] \in
          IF turn = "storage" THEN {None, [n \in {"session"} |-> 1]} ELSE {None}

MCCommandsSpec == MCInit /\ [][CommandsNext]_commandsVars
=============================================================================
