------------------------------ MODULE MCWebData ------------------------------
(* Small instances of the modules about the data of `tdl web`. *)
EXTENDS WebData, TLC

(* An export of two messages, of which the filter leaves one: its bounds are    *)
(* the wrong way round, 2..9 is meant, and a message without a date passes.  A  *)
(* link gives that message and another, at other positions.                     *)
TwoMessages == {<<3, 2>>}
OtherList == {<<1, 2>>}
Dates == <<5, 0, 1>>
Swapped == {[type |-> "time", from |-> 9, to |-> 2]}

(* From the beginning, within the file and from behind its end. *)
FewAsks == [first : 0 .. 3, last : {0, 2}]

\* What takes no steps begins in one state.  The sources of saved messages are
\* interchangeable, so the first message is of one of them.
MCInit ==
    /\ WebInit
    /\ turn = "chat" \/ kind = "history"
    /\ source[1] = CHOOSE x \in Sources : TRUE
    /\ turn = "thumb" \/ (type = "video" /\ thumb.kind = "none")
    /\ turn = "transfer" \/ (size = 1 /\ have = 0 /\ job = "player")

MCSpec == MCInit /\ [][WebNext]_webVars

\* the goroutines of WebImport are interchangeable
Symmetry == Permutations(Jobs)

\* Once two imports have met, nothing but the types is claimed of the lists: what the
\* importers do then is followed, the downloads beside them are not.
Followed == mixed => \A j \in Jobs : jobs[j].at = "idle"
=============================================================================
