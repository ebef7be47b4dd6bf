---------------------------- MODULE WebDataProofs ----------------------------
(***************************************************************************)
(* Proofs about the data of `tdl web`, for any number of requests, jobs and *)
(* slots, and for every size, range and limit.                              *)
(***************************************************************************)
EXTENDS WebData, WebImportProofs

-----------------------------------------------------------------------------
(* ThumbCache: where an actor may be, and what comes next. *)

ThumbActors == Requests \cup Builders
ThumbPlaces ==
    {"idle", "look", "remove", "join", "wait", "build", "fill", "rename", "leave", "open", "open2",
     "open3", "local", "again", "remote", "preview", "previewRemote", "serve", "serving", "stream",
     "streamWait"}
WhenThere == {"idle", "open", "open2", "open3", "again", "leave", ""}
WhenNot == {"idle", "local", "join", "build", "leave", "remote", "previewRemote", ""}
BuildKinds == {"none", "frame", "file", "inline"}
AfterFlight == {"idle", "again"}
SlotNames == {"none", "shared", "stream"}
ActorRecords ==
    [at : ThumbPlaces, ok : WhenThere, no : WhenNot, kind : BuildKinds, then : AfterFlight, slot : SlotNames]

\* Where one goes after a look: to the first with a thumbnail, else to the second.
Exits ==
    {<<"open", "local">>, <<"again", "join">>, <<"idle", "join">>, <<"leave", "build">>,
     <<"leave", "leave">>, <<"open2", "remote">>, <<"open3", "idle">>, <<"open3", "previewRemote">>}

OnPath(x) ==
    /\ x.at \in {"look", "remove"} => <<x.ok, x.no>> \in Exits
    /\ x.at \in {"join", "wait"} => x.ok \in {"again", "idle"}

\* Within thumbGroup.Do.
Building(x) ==
    \/ x.at \in {"build", "fill", "rename", "leave"}
    \/ x.at \in {"look", "remove"} /\ x.no \in {"build", "leave"}

ThumbTypes ==
    /\ jpg \in {"none", "valid", "bad"} /\ original \in {"none", "part", "whole"}
    /\ flight \in ThumbActors \cup {None}
    /\ actors \in [ThumbActors -> ActorRecords]
    /\ thumbTmp \in [{"tmp", "part"} -> [by : ThumbActors, full : BOOLEAN] \cup {None}]
    /\ sharedSlots \in Nat /\ streamSlots \in Nat

ThumbPaths == \A a \in ThumbActors : OnPath(actors[a])

\* One at most builds the thumbnail: the one that is in flight,
ThumbAlone == \A a \in ThumbActors : Building(actors[a]) => flight = a

\* ... and the file it fills is its own, until it has its name.
ThumbFile(x) == IF x.kind = "frame" THEN "part" ELSE "tmp"
ThumbFiles ==
    \A a \in ThumbActors :
        LET f == thumbTmp[ThumbFile(actors[a])] IN
        /\ actors[a].at = "fill" => f # None /\ f.by = a
        /\ actors[a].at = "rename" => f # None /\ f.full

Holders(slot) == {r \in Requests : actors[r].at = "serving" /\ actors[r].slot = slot}
ThumbSlots ==
    /\ \A a \in ThumbActors :
          actors[a].at = "serving" => a \in Requests /\ actors[a].slot \in {"shared", "stream"}
    /\ IsFiniteSet(Holders("shared")) /\ IsFiniteSet(Holders("stream"))
    /\ sharedSlots = Cardinality(Holders("shared")) /\ sharedSlots <= SharedLimit
    /\ streamSlots = Cardinality(Holders("stream")) /\ streamSlots <= 1

ThumbInv ==
    ThumbTypes /\ ThumbPaths /\ ThumbAlone /\ ThumbFiles /\ ThumbSlots /\ "torn" \notin sent

LEMMA ThumbInitInv == WebInit => ThumbInv
<1> SUFFICES ASSUME WebInit PROVE ThumbInv
  OBVIOUS
<1> USE DEF WebInit, Thumbs!ThumbInit
<1>1. /\ actors \in [ThumbActors -> ActorRecords]
      /\ \A a \in ThumbActors : actors[a].at = "idle"
  BY DEF Thumbs!Idle, Thumbs!Actors, ThumbActors, ActorRecords, ThumbPlaces, WhenThere, WhenNot, BuildKinds,
     AfterFlight, SlotNames
<1>2. ThumbTypes
  BY <1>1 DEF ThumbTypes
<1>3. ThumbPaths /\ ThumbAlone /\ ThumbFiles
  BY <1>1 DEF ThumbPaths, ThumbAlone, ThumbFiles, OnPath, Building
<1>4. ThumbSlots
  <2>1. Holders("shared") = {} /\ Holders("stream") = {}
    BY <1>1 DEF Holders, ThumbActors
  <2> QED
    BY <1>1, <2>1, FS_EmptySet, ThumbAssumption DEF ThumbSlots
<1> QED
  BY <1>2, <1>3, <1>4 DEF ThumbInv

\* Steps that neither touch the files being filled nor the slots.
LEMMA MovesInv ==
    ASSUME ThumbInv, flight' \in ThumbActors \cup {None}, original' \in {"none", "part", "whole"},
           jpg' \in {jpg, "none"}, sent' \in {sent, sent \cup {jpg}},
           UNCHANGED <<thumbTmp, sharedSlots, streamSlots>>,
           actors' \in [ThumbActors -> ActorRecords],
           \A b \in ThumbActors : Building(actors[b])' => flight' = b,
           \A b \in ThumbActors :
               \/ actors'[b] = actors[b]
               \/ /\ OnPath(actors[b])' /\ actors[b].at # "serving"
                  /\ actors'[b].at \notin {"fill", "rename", "serving"}
    PROVE  ThumbInv'
<1>1. ThumbTypes'
  BY DEF ThumbInv, ThumbTypes
<1>2. ThumbPaths'
  BY DEF ThumbInv, ThumbPaths, OnPath
<1>3. ThumbAlone'
  BY DEF ThumbAlone
<1>4. ThumbFiles'
  BY DEF ThumbInv, ThumbFiles, ThumbFile
<1>5. ThumbSlots'
  <2>1. ASSUME NEW a \in ThumbActors
        PROVE  /\ actors'[a].at = "serving" <=> actors[a].at = "serving"
               /\ actors'[a].at = "serving" => actors'[a] = actors[a]
    OBVIOUS
  <2>2. Holders("shared")' = Holders("shared") /\ Holders("stream")' = Holders("stream")
    BY <2>1 DEF Holders, ThumbActors
  <2> QED
    BY <2>1, <2>2 DEF ThumbInv, ThumbSlots
<1>6. ("torn" \notin sent)'
  BY DEF ThumbInv, ThumbTypes
<1> QED
  BY <1>1, <1>2, <1>3, <1>4, <1>5, <1>6 DEF ThumbInv

\* The move of one actor, who may be the one that takes up the flight.
LEMMA MoveInv ==
    ASSUME ThumbInv, NEW a \in ThumbActors, NEW x \in ActorRecords,
           actors' = [actors EXCEPT ![a] = x],
           OnPath(x), x.at \notin {"fill", "rename", "serving"}, actors[a].at # "serving",
           Building(x) => flight' = a,
           flight' = flight \/ (flight = None /\ flight' = a),
           original' \in {"none", "part", "whole"}, jpg' \in {jpg, "none"},
           sent' \in {sent, sent \cup {jpg}}, UNCHANGED <<thumbTmp, sharedSlots, streamSlots>>
    PROVE  ThumbInv'
<1>1. /\ actors \in [ThumbActors -> ActorRecords] /\ flight \in ThumbActors \cup {None}
      /\ None \notin ThumbActors
  BY ThumbAssumption DEF ThumbInv, ThumbTypes, ThumbActors
<1>2. /\ actors' \in [ThumbActors -> ActorRecords]
      /\ \A b \in ThumbActors : actors'[b] = IF b = a THEN x ELSE actors[b]
  BY <1>1
<1>3. ASSUME NEW b \in ThumbActors, Building(actors[b])' PROVE flight' = b
  <2>1. CASE b = a
    BY <1>2, <1>3, <2>1
  <2>2. CASE b # a
    <3>1. Building(actors[b])
      BY <1>2, <1>3, <2>2 DEF Building
    <3> QED
      BY <1>1, <3>1 DEF ThumbInv, ThumbAlone
  <2> QED
    BY <2>1, <2>2
<1>4. ASSUME NEW b \in ThumbActors
      PROVE  \/ actors'[b] = actors[b]
             \/ /\ OnPath(actors[b])' /\ actors[b].at # "serving"
                /\ actors'[b].at \notin {"fill", "rename", "serving"}
  BY <1>2 DEF OnPath
<1>5. flight' \in ThumbActors \cup {None}
  BY <1>1
<1> QED
  BY <1>2, <1>3, <1>4, <1>5, MovesInv

\* What ThumbInv says of one actor.
LEMMA ActorFacts ==
    ASSUME ThumbInv, NEW a \in ThumbActors
    PROVE  /\ actors \in [ThumbActors -> ActorRecords] /\ actors[a] \in ActorRecords
           /\ OnPath(actors[a]) /\ (Building(actors[a]) => flight = a)
           /\ jpg \in {"none", "valid", "bad"} /\ original \in {"none", "part", "whole"}
           /\ flight \in ThumbActors \cup {None} /\ None \notin ThumbActors
BY ThumbAssumption DEF ThumbInv, ThumbTypes, ThumbPaths, ThumbAlone, ThumbActors

\* To another place, all else as it was.
LEMMA PlaceFacts ==
    ASSUME NEW x \in ActorRecords, NEW place \in ThumbPlaces, NEW y, y = [x EXCEPT !.at = place]
    PROVE  /\ y \in ActorRecords /\ y.at = place /\ y.ok = x.ok /\ y.no = x.no
           /\ y.kind = x.kind /\ y.then = x.then /\ y.slot = x.slot
BY DEF ActorRecords

LEMMA ExitFacts ==
    ASSUME NEW ok, NEW no, <<ok, no>> \in Exits
    PROVE  ok \in WhenThere /\ no \in WhenNot /\ "look" \in ThumbPlaces
BY DEF Exits, WhenThere, WhenNot, ThumbPlaces

LEMMA LookInv ==
    ASSUME ThumbInv, NEW a \in ThumbActors, Thumbs!LookJpg(a) \/ Thumbs!RemoveJpg(a)
    PROVE  ThumbInv'
<1> DEFINE x(place) == [actors[a] EXCEPT !.at = place]
           goes(place) == actors' = [actors EXCEPT ![a] = x(place)]
<1>1. PICK next \in {actors[a].ok, actors[a].no, "remove"} : goes(next)
  <2>1. goes(actors[a].ok) \/ goes(actors[a].no) \/ goes("remove")
    <3>1. CASE Thumbs!LookJpg(a)
      <4>1. Thumbs!Goto(a, actors[a].ok) \/ Thumbs!Goto(a, actors[a].no) \/ Thumbs!Goto(a, "remove")
        <5>1. CASE jpg \in {"valid", "torn"}
          BY <3>1, <5>1 DEF Thumbs!LookJpg
        <5>2. CASE jpg = "bad"
          BY <3>1, <5>2 DEF Thumbs!LookJpg
        <5>3. CASE jpg \notin {"valid", "torn", "bad"}
          BY <3>1, <5>3 DEF Thumbs!LookJpg
        <5> QED
          BY <5>1, <5>2, <5>3
      <4> QED
        BY <4>1 DEF Thumbs!Goto
    <3>2. CASE Thumbs!RemoveJpg(a)
      BY <3>2 DEF Thumbs!RemoveJpg, Thumbs!Goto
    <3> QED
      BY <3>1, <3>2
  <2> HIDE DEF goes
  <2> QED
    BY <2>1
<1>2. /\ actors[a].at \in {"look", "remove"} /\ jpg' \in {jpg, "none"}
      /\ UNCHANGED <<flight, original, sent, thumbTmp, sharedSlots, streamSlots>>
  BY DEF Thumbs!LookJpg, Thumbs!RemoveJpg, Thumbs!OnlyActors, Thumbs!UnchangedFiles,
         Thumbs!UnchangedSlots, Thumbs!kindVars
<1>3. /\ x(next) \in ActorRecords /\ OnPath(x(next))
      /\ x(next).at \notin {"fill", "rename", "serving"}
      /\ Building(x(next)) => flight = a
  <2>1. actors[a] \in ActorRecords /\ <<actors[a].ok, actors[a].no>> \in Exits
    BY <1>2, ActorFacts DEF OnPath
  <2>2. /\ actors[a].no \in {"build", "leave"} <=> actors[a].ok = "leave"
        /\ actors[a].ok = "again" \/ actors[a].ok = "idle" <=> actors[a].no = "join"
        /\ actors[a].ok \in {"idle", "open", "open2", "open3", "again", "leave"}
        /\ actors[a].no \in {"idle", "local", "join", "build", "leave", "remote", "previewRemote"}
    <3>1. \/ actors[a].ok = "open" /\ actors[a].no = "local"
          \/ actors[a].ok \in {"again", "idle"} /\ actors[a].no = "join"
          \/ actors[a].ok = "leave" /\ actors[a].no \in {"build", "leave"}
          \/ actors[a].ok = "open2" /\ actors[a].no = "remote"
          \/ actors[a].ok = "open3" /\ actors[a].no \in {"idle", "previewRemote"}
      BY <2>1 DEF Exits
    <3> QED
      BY <3>1
  <2>3. Building(actors[a]) <=> actors[a].no \in {"build", "leave"}
    BY <1>2 DEF Building
  <2>4. /\ x(next) \in ActorRecords /\ x(next).at = next /\ x(next).no = actors[a].no
        /\ x(next).ok = actors[a].ok
    <3>1. next \in ThumbPlaces
      BY <2>2 DEF ThumbPlaces
    <3> QED
      BY <2>1, <3>1, PlaceFacts
  <2> HIDE DEF x
  <2>5. OnPath(x(next))
    BY <2>1, <2>2, <2>4 DEF OnPath
  <2>6. Building(x(next)) => actors[a].no \in {"build", "leave"}
    BY <2>2, <2>4 DEF Building
  <2> QED
    BY <2>2, <2>3, <2>4, <2>5, <2>6, ActorFacts
<1> HIDE DEF x
<1> QED
  BY <1>1, <1>2, <1>3, ActorFacts, MoveInv

LEMMA JoinInv ==
    ASSUME ThumbInv, NEW a \in ThumbActors, Thumbs!Join(a)
    PROVE  ThumbInv'
<1>1. /\ actors[a].at = "join" /\ UNCHANGED <<original, jpg, sent, thumbTmp, sharedSlots, streamSlots>>
  BY DEF Thumbs!Join, Thumbs!UnchangedFiles, Thumbs!UnchangedSlots
<1>2. CASE flight = None
  <2> DEFINE x == [actors[a] EXCEPT !.at = "look", !.ok = "leave", !.no = "build", !.then = actors[a].ok]
  <2>1. flight' = a /\ actors' = [actors EXCEPT ![a] = x]
    BY <1>2, ActorFacts DEF Thumbs!Join
  <2>2. x \in ActorRecords /\ OnPath(x) /\ x.at = "look"
    <3>1. actors[a].ok \in {"again", "idle"}
      BY <1>1, ActorFacts DEF OnPath
    <3>2. x \in ActorRecords /\ x.at = "look" /\ x.ok = "leave" /\ x.no = "build"
      <4>1. /\ "look" \in ThumbPlaces /\ "leave" \in WhenThere /\ "build" \in WhenNot
            /\ actors[a].ok \in AfterFlight
        BY <3>1 DEF ThumbPlaces, WhenThere, WhenNot, AfterFlight
      <4>2. actors[a] \in ActorRecords
        BY ActorFacts
      <4> QED
        BY <4>1, <4>2 DEF ActorRecords
    <3> HIDE DEF x
    <3> QED
      BY <3>2 DEF OnPath, Exits
  <2> HIDE DEF x
  <2> QED
    BY <1>1, <1>2, <2>1, <2>2, ActorFacts, MoveInv
<1>3. CASE flight # None
  <2> DEFINE x == [actors[a] EXCEPT !.at = "wait"]
  <2>1. flight' = flight /\ actors' = [actors EXCEPT ![a] = x]
    BY <1>3, ActorFacts DEF Thumbs!Join, Thumbs!Goto
  <2>2. x \in ActorRecords /\ OnPath(x) /\ x.at = "wait"
    BY <1>1, ActorFacts DEF ActorRecords, ThumbPlaces, OnPath
  <2>3. ~Building(x)
    BY <2>2 DEF Building
  <2> HIDE DEF x
  <2> QED
    BY <1>1, <2>1, <2>2, <2>3, ActorFacts, MoveInv
<1> QED
  BY <1>2, <1>3

LEMMA LeaveInv ==
    ASSUME ThumbInv, NEW a \in ThumbActors, Thumbs!Leave(a)
    PROVE  ThumbInv'
<1>1. /\ actors[a].at = "leave" /\ flight' = None
      /\ UNCHANGED <<original, jpg, sent, thumbTmp, sharedSlots, streamSlots>>
  BY DEF Thumbs!Leave, Thumbs!UnchangedFiles, Thumbs!UnchangedSlots
<1>2. flight = a
  BY <1>1, ActorFacts DEF Building
<1>3. actors' = [b \in ThumbActors |->
          IF b = a THEN [actors[b] EXCEPT !.at = actors[b].then, !.then = "idle"]
          ELSE IF actors[b].at = "wait" THEN [actors[b] EXCEPT !.at = actors[b].ok]
          ELSE actors[b]]
  BY DEF Thumbs!Leave, Thumbs!Actors, ThumbActors
<1>4. ASSUME NEW b \in ThumbActors
      PROVE  /\ actors'[b] \in ActorRecords /\ ~Building(actors'[b])
             /\ \/ actors'[b] = actors[b]
                \/ /\ OnPath(actors'[b]) /\ actors[b].at # "serving"
                   /\ actors'[b].at \notin {"fill", "rename", "serving"}
  <2>1. CASE b = a
    <3> DEFINE y == [actors[a] EXCEPT !.at = actors[a].then, !.then = "idle"]
    <3>1. actors'[b] = y
      BY <1>3, <2>1
    <3>2. y \in ActorRecords /\ y.at \in {"idle", "again"}
      <4>1. /\ AfterFlight \subseteq ThumbPlaces /\ "idle" \in AfterFlight
            /\ \A place \in AfterFlight : place = "idle" \/ place = "again"
        BY DEF AfterFlight, ThumbPlaces
      <4>2. actors[a] \in ActorRecords
        BY ActorFacts
      <4> QED
        BY <4>1, <4>2 DEF ActorRecords
    <3> HIDE DEF y
    <3> QED
      BY <1>1, <2>1, <3>1, <3>2 DEF OnPath, Building
  <2>2. CASE b # a /\ actors[b].at = "wait"
    <3> DEFINE y == [actors[b] EXCEPT !.at = actors[b].ok]
    <3>1. actors'[b] = y
      BY <1>3, <2>2
    <3>2. actors[b].ok \in {"again", "idle"}
      BY <2>2, ActorFacts DEF OnPath
    <3>3. y \in ActorRecords /\ y.at \in {"idle", "again"}
      BY <3>2, ActorFacts, PlaceFacts DEF ThumbPlaces
    <3> HIDE DEF y
    <3> QED
      BY <2>2, <3>1, <3>3 DEF OnPath, Building
  <2>3. CASE b # a /\ actors[b].at # "wait"
    BY <1>2, <1>3, <2>3, ActorFacts
  <2> QED
    BY <2>1, <2>2, <2>3
<1>5. actors' \in [ThumbActors -> ActorRecords]
  BY <1>3, <1>4
<1>6. \A b \in ThumbActors : ~Building(actors[b])'
  BY <1>4 DEF Building
<1>7. \A b \in ThumbActors :
          \/ actors'[b] = actors[b]
          \/ /\ OnPath(actors[b])' /\ actors[b].at # "serving"
             /\ actors'[b].at \notin {"fill", "rename", "serving"}
  BY <1>4 DEF OnPath
<1> QED
  BY <1>1, <1>5, <1>6, <1>7, ActorFacts, MovesInv

-----------------------------------------------------------------------------
(* ThumbCache: requests and jobs outside thumbGroup.Do. *)

\* What their steps leave alone.
Outside ==
    /\ UNCHANGED <<flight, jpg, thumbTmp, sharedSlots, streamSlots>>
    /\ original' \in {"none", "part", "whole"} /\ sent' \in {sent, sent \cup {jpg}}

LEMMA OutsideFacts == ThumbInv /\ Thumbs!OnlyActors => Outside
BY DEF ThumbInv, ThumbTypes, Outside, Thumbs!OnlyActors, Thumbs!UnchangedFiles, Thumbs!UnchangedSlots,
       Thumbs!kindVars

LEMMA RecordInv ==
    ASSUME ThumbInv, Outside, NEW a \in ThumbActors, actors[a].at # "serving",
           NEW x \in ActorRecords, actors' = [actors EXCEPT ![a] = x], OnPath(x), ~Building(x),
           x.at # "serving"
    PROVE  ThumbInv'
<1>1. x.at \notin {"fill", "rename"}
  BY DEF Building
<1> QED
  BY <1>1, MoveInv DEF Outside

LEMMA IdleFacts ==
    /\ Thumbs!Idle \in ActorRecords /\ Thumbs!Idle.at = "idle"
    /\ OnPath(Thumbs!Idle) /\ ~Building(Thumbs!Idle)
BY DEF Thumbs!Idle, ActorRecords, ThumbPlaces, WhenThere, WhenNot, BuildKinds, AfterFlight, SlotNames,
       OnPath, Building

LEMMA IdleInv ==
    ASSUME ThumbInv, Outside, NEW a \in ThumbActors, actors[a].at # "serving",
           actors' = [actors EXCEPT ![a] = Thumbs!Idle]
    PROVE  ThumbInv'
BY IdleFacts, RecordInv

LEMMA GotoInv ==
    ASSUME ThumbInv, Outside, NEW a \in ThumbActors, actors[a].at # "serving",
           NEW place \in {"idle", "local", "remote", "serve", "streamWait"}, Thumbs!Goto(a, place)
    PROVE  ThumbInv'
<1> DEFINE x == [actors[a] EXCEPT !.at = place]
<1>1. actors' = [actors EXCEPT ![a] = x]
  BY DEF Thumbs!Goto
<1>2. x \in ActorRecords /\ x.at = place
  BY PlaceFacts, ActorFacts DEF ThumbPlaces
<1> HIDE DEF x
<1>3. OnPath(x) /\ ~Building(x)
  BY <1>2 DEF OnPath, Building
<1> QED
  BY <1>1, <1>2, <1>3, RecordInv

\* A look, to go on where one may.
LEMMA LookToInv ==
    ASSUME ThumbInv, Outside, NEW a \in ThumbActors, actors[a].at # "serving",
           NEW x \in ActorRecords, actors' = [actors EXCEPT ![a] = x],
           x.at = "look", <<x.ok, x.no>> \in Exits, x.no \notin {"build", "leave"}
    PROVE  ThumbInv'
BY RecordInv DEF OnPath, Building

LEMMA EnsureInv ==
    ASSUME ThumbInv, Outside, NEW a \in ThumbActors, actors[a].at # "serving",
           NEW kind1 \in {"frame", "file", "inline"}, NEW next \in {"again", "idle"},
           Thumbs!Ensure(a, kind1, next)
    PROVE  ThumbInv'
<1> DEFINE x == [actors[a] EXCEPT !.at = "look", !.ok = next, !.no = "join", !.kind = kind1]
<1>1. actors' = [actors EXCEPT ![a] = x]
  BY ActorFacts DEF Thumbs!Ensure
<1>2. <<next, "join">> \in Exits /\ kind1 \in BuildKinds
  BY DEF Exits, BuildKinds
<1>3. x \in ActorRecords /\ x.at = "look" /\ x.ok = next /\ x.no = "join"
  <2>1. actors[a] \in ActorRecords
    BY ActorFacts
  <2>2. next \in WhenThere /\ "join" \in WhenNot /\ "look" \in ThumbPlaces
    BY <1>2, ExitFacts
  <2> QED
    BY <1>2, <2>1, <2>2 DEF ActorRecords
<1> HIDE DEF x
<1> QED
  BY <1>1, <1>2, <1>3, LookToInv

LEMMA LookAtInv ==
    ASSUME ThumbInv, Outside, NEW a \in ThumbActors, actors[a].at # "serving",
           NEW ok, NEW no, <<ok, no>> \in {<<"open2", "remote">>, <<"open3", "idle">>, <<"open3", "previewRemote">>},
           Thumbs!Look(a, ok, no)
    PROVE  ThumbInv'
<1> DEFINE x == [actors[a] EXCEPT !.at = "look", !.ok = ok, !.no = no]
<1>1. actors' = [actors EXCEPT ![a] = x]
  BY ActorFacts DEF Thumbs!Look
<1>2. <<ok, no>> \in Exits /\ no \notin {"build", "leave"}
  BY DEF Exits
<1>3. x \in ActorRecords /\ x.at = "look" /\ x.ok = ok /\ x.no = no
  <2>1. actors[a] \in ActorRecords
    BY ActorFacts
  <2>2. ok \in WhenThere /\ no \in WhenNot /\ "look" \in ThumbPlaces
    BY <1>2, ExitFacts
  <2> QED
    BY <2>1, <2>2 DEF ActorRecords
<1> HIDE DEF x
<1> QED
  BY <1>1, <1>2, <1>3, LookToInv

LEMMA BeginsInv ==
    ASSUME ThumbInv, NEW a \in ThumbActors,
           Thumbs!Thumb(a) \/ Thumbs!Preview(a) \/ Thumbs!Stream(a)
    PROVE  ThumbInv'
<1> DEFINE x(place, ok, no) == [Thumbs!Idle EXCEPT !.at = place, !.ok = ok, !.no = no]
           begins(place, ok, no) == Thumbs!Begins(a, place, ok, no)
<1>1. ASSUME NEW place \in {"look", "preview", "stream"}, NEW ok \in {"open", ""}, NEW no \in {"local", ""},
             place = "look" => <<ok, no>> \in Exits, begins(place, ok, no)
      PROVE  ThumbInv'
  <2>1. /\ actors[a] = Thumbs!Idle /\ actors' = [actors EXCEPT ![a] = x(place, ok, no)] /\ Outside
    BY <1>1 DEF Thumbs!Begins, Outside, ThumbInv, ThumbTypes, Thumbs!kindVars
  <2>2. place \in ThumbPlaces /\ ok \in WhenThere /\ no \in WhenNot
    BY DEF ThumbPlaces, WhenThere, WhenNot
  <2> DEFINE y == x(place, ok, no)
  <2>3. y \in ActorRecords /\ y.at = place /\ y.ok = ok /\ y.no = no
    BY <2>2, IdleFacts DEF ActorRecords
  <2>4. actors[a].at # "serving"
    BY <2>1, IdleFacts
  <2> HIDE DEF y
  <2>5. OnPath(y) /\ ~Building(y)
    BY <1>1, <2>3 DEF OnPath, Building
  <2>6. actors' = [actors EXCEPT ![a] = y]
    BY <2>1 DEF y
  <2> QED
    BY <2>1, <2>3, <2>4, <2>5, <2>6, RecordInv
<1>2. CASE Thumbs!Thumb(a)
  <2>1. begins("look", "open", "local") /\ <<"open", "local">> \in Exits
    BY <1>2 DEF Thumbs!Thumb, Exits
  <2> HIDE DEF begins
  <2> QED
    BY <1>1, <2>1
<1>3. CASE Thumbs!Preview(a) \/ Thumbs!Stream(a)
  <2>1. begins("preview", "", "") \/ begins("stream", "", "")
    BY <1>3 DEF Thumbs!Preview, Thumbs!Stream
  <2> HIDE DEF begins
  <2> QED
    BY <1>1, <2>1
<1> QED
  BY <1>2, <1>3

LEMMA OpenJpgInv ==
    ASSUME ThumbInv, NEW r \in ThumbActors, Thumbs!OpenJpg(r)
    PROVE  ThumbInv'
<1>1. actors[r].at \in {"open", "open2", "open3"}
  BY DEF Thumbs!OpenJpg
<1>2. CASE jpg # "none"
  <2>1. /\ actors' = [actors EXCEPT ![r] = Thumbs!Idle] /\ Outside
    BY <1>2 DEF Thumbs!OpenJpg, Thumbs!Send, Thumbs!UnchangedFiles, Thumbs!UnchangedSlots, Outside,
                ThumbInv, ThumbTypes, Thumbs!kindVars
  <2> QED
    BY <1>1, <2>1, IdleInv
<1>3. CASE jpg = "none"
  <2>1. Thumbs!OnlyActors /\ \E place \in {"local", "remote", "idle"} : Thumbs!Goto(r, place)
    BY <1>3 DEF Thumbs!OpenJpg
  <2> QED
    BY <1>1, <2>1, OutsideFacts, GotoInv
<1> QED
  BY <1>2, <1>3

LEMMA UnavailableInv ==
    ASSUME ThumbInv, NEW a \in ThumbActors, actors[a].at # "serving", Thumbs!Unavailable(a)
    PROVE  ThumbInv'
BY OutsideFacts, IdleInv DEF Thumbs!Unavailable

LEMMA ThumbLocalInv ==
    ASSUME ThumbInv, NEW r \in ThumbActors, Thumbs!ThumbLocal(r) \/ Thumbs!ThumbAgain(r) \/ Thumbs!ThumbRemote(r)
    PROVE  ThumbInv'
<1>1. CASE Thumbs!ThumbLocal(r)
  <2>1. \/ Thumbs!Unavailable(r)
        \/ Thumbs!OnlyActors /\ (Thumbs!Ensure(r, "frame", "again") \/ Thumbs!Goto(r, "remote"))
    BY <1>1 DEF Thumbs!ThumbLocal
  <2>2. actors[r].at # "serving"
    BY <1>1 DEF Thumbs!ThumbLocal
  <2> QED
    BY <2>1, <2>2, UnavailableInv, OutsideFacts, EnsureInv, GotoInv
<1>2. CASE Thumbs!ThumbAgain(r)
  <2>1. /\ actors[r].at # "serving" /\ Thumbs!OnlyActors /\ Thumbs!Look(r, "open2", "remote")
    BY <1>2 DEF Thumbs!ThumbAgain
  <2> QED
    BY <2>1, OutsideFacts, LookAtInv
<1>3. CASE Thumbs!ThumbRemote(r)
  <2>1. actors[r].at # "serving"
    BY <1>3 DEF Thumbs!ThumbRemote
  <2>2. \/ Thumbs!Unavailable(r)
        \/ Thumbs!OnlyActors /\ (Thumbs!Look(r, "open3", "idle") \/ Thumbs!Goto(r, "serve"))
    BY <1>3 DEF Thumbs!ThumbRemote
  <2> QED
    BY <2>1, <2>2, UnavailableInv, OutsideFacts, LookAtInv, GotoInv
<1> QED
  BY <1>1, <1>2, <1>3

LEMMA PreviewInv ==
    ASSUME ThumbInv, NEW r \in Requests, Thumbs!PreviewLocal(r) \/ Thumbs!PreviewRemote(r)
    PROVE  ThumbInv'
<1>1. r \in ThumbActors
  BY DEF ThumbActors
<1>2. actors[r].at # "serving"
  BY DEF Thumbs!PreviewLocal, Thumbs!PreviewRemote
<1>3. \/ Thumbs!Unavailable(r)
      \/ Thumbs!OnlyActors /\ (Thumbs!Look(r, "open3", "previewRemote") \/ Thumbs!Goto(r, "serve"))
      \/ /\ Thumbs!OnlyActors
         /\ \E b \in Builders :
              /\ actors[b] = Thumbs!Idle
              /\ actors' = [actors EXCEPT ![r].at = "serve",
                              ![b] = [Thumbs!Idle EXCEPT !.at = "look", !.no = "join", !.kind = "file"]]
  BY DEF Thumbs!PreviewLocal, Thumbs!PreviewRemote
<1>4. ASSUME Thumbs!OnlyActors, NEW b \in Builders, actors[b] = Thumbs!Idle,
             actors' = [actors EXCEPT ![r].at = "serve",
                          ![b] = [Thumbs!Idle EXCEPT !.at = "look", !.no = "join", !.kind = "file"]]
      PROVE  ThumbInv'
  <2> DEFINE x == [actors[r] EXCEPT !.at = "serve"]
             y == [Thumbs!Idle EXCEPT !.at = "look", !.no = "join", !.kind = "file"]
  <2>1. b \in ThumbActors /\ b # r
    BY ThumbAssumption DEF ThumbActors
  <2>2. /\ actors' \in [ThumbActors -> {actors[c] : c \in ThumbActors} \cup {x, y}]
        /\ \A c \in ThumbActors : actors'[c] = IF c = r THEN x ELSE IF c = b THEN y ELSE actors[c]
    BY <1>1, <1>4, <2>1, ActorFacts
  <2>3. x \in ActorRecords /\ x.at = "serve"
    BY <1>1, PlaceFacts, ActorFacts DEF ThumbPlaces
  <2>4. y \in ActorRecords /\ y.at = "look" /\ y.ok = "idle" /\ y.no = "join"
    <3>1. "look" \in ThumbPlaces /\ "join" \in WhenNot /\ "file" \in BuildKinds /\ Thumbs!Idle.ok = "idle"
      BY DEF ThumbPlaces, WhenNot, BuildKinds, Thumbs!Idle
    <3> QED
      BY <3>1, IdleFacts DEF ActorRecords
  <2> HIDE DEF x, y
  <2>5. OnPath(x) /\ OnPath(y) /\ ~Building(x) /\ ~Building(y)
    BY <2>3, <2>4 DEF OnPath, Building, Exits
  <2>6. actors' \in [ThumbActors -> ActorRecords]
    BY <1>1, <2>2, <2>3, <2>4, ActorFacts
  <2>7. Outside
    BY <1>4, OutsideFacts
  <2>8. \A c \in ThumbActors : Building(actors[c])' => flight' = c
    <3> SUFFICES ASSUME NEW c \in ThumbActors, Building(actors[c])' PROVE flight' = c
      OBVIOUS
    <3>1. c # r /\ c # b /\ actors'[c] = actors[c]
      BY <2>2, <2>5 DEF Building
    <3>2. Building(actors[c])
      BY <3>1 DEF Building
    <3> QED
      BY <2>7, <3>2, ActorFacts DEF Outside
  <2>9. \A c \in ThumbActors :
            \/ actors'[c] = actors[c]
            \/ /\ OnPath(actors[c])' /\ actors[c].at # "serving"
               /\ actors'[c].at \notin {"fill", "rename", "serving"}
    <3>1. OnPath(actors[r])' /\ OnPath(actors[b])'
      BY <1>1, <2>1, <2>2, <2>5 DEF OnPath
    <3>2. actors[b].at # "serving"
      BY <1>4, IdleFacts
    <3> QED
      BY <1>1, <1>2, <2>1, <2>2, <2>3, <2>4, <3>1, <3>2
  <2>10. flight' \in ThumbActors \cup {None}
    BY <2>7 DEF Outside, ThumbInv, ThumbTypes
  <2> QED
    BY <2>6, <2>7, <2>8, <2>9, <2>10, MovesInv DEF Outside
<1> QED
  BY <1>1, <1>2, <1>3, <1>4, UnavailableInv, OutsideFacts, LookAtInv, GotoInv

LEMMA CoverJobInv ==
    ASSUME ThumbInv, NEW b \in ThumbActors, Thumbs!CoverJob(b)
    PROVE  ThumbInv'
<1>1. actors[b].at # "serving" /\ Outside
  BY IdleFacts DEF Thumbs!CoverJob, Outside, ThumbInv, ThumbTypes, Thumbs!kindVars
<1>2. Thumbs!BuildKind \in {"frame", "file", "inline"} /\ Thumbs!Ensure(b, Thumbs!BuildKind, "idle")
  BY DEF Thumbs!CoverJob, Thumbs!BuildKind
<1> QED
  BY <1>1, <1>2, EnsureInv

LEMMA OthersInv ==
    ASSUME ThumbInv, Thumbs!DownloadOriginal \/ UNCHANGED thumbAll
    PROVE  ThumbInv'
<1>1. /\ UNCHANGED <<flight, jpg, thumbTmp, sharedSlots, streamSlots, actors, sent>>
      /\ original' \in {"none", "part", "whole"}
  BY DEF ThumbInv, ThumbTypes, Thumbs!DownloadOriginal, Thumbs!UnchangedSlots, Thumbs!kindVars, thumbAll
<1>2. ThumbTypes' /\ ThumbSlots'
  BY <1>1 DEF ThumbInv, ThumbTypes, ThumbSlots, Holders
<1>3. ThumbPaths' /\ ThumbAlone' /\ ThumbFiles'
  BY <1>1 DEF ThumbInv, ThumbPaths, ThumbAlone, ThumbFiles, ThumbFile, OnPath, Building
<1> QED
  BY <1>1, <1>2, <1>3 DEF ThumbInv

-----------------------------------------------------------------------------
(* ThumbCache: the build, the slots, the restart. *)

TmpFiles == [by : ThumbActors, full : BOOLEAN]

LEMMA BuildInv ==
    ASSUME ThumbInv, NEW a \in ThumbActors, actors[a].at \in {"build", "fill", "rename"},
           NEW x \in ActorRecords, actors' = [actors EXCEPT ![a] = x], OnPath(x), x.at # "serving",
           UNCHANGED <<flight, sharedSlots, streamSlots, sent, original>>,
           jpg' \in {"none", "valid", "bad"},
           thumbTmp' \in [{"tmp", "part"} -> TmpFiles \cup {None}],
           x.at = "fill" => thumbTmp'[ThumbFile(x)] # None /\ thumbTmp'[ThumbFile(x)].by = a,
           x.at = "rename" => thumbTmp'[ThumbFile(x)] # None /\ thumbTmp'[ThumbFile(x)].full
    PROVE  ThumbInv'
<1>1. flight = a /\ actors[a].at # "serving"
  BY ActorFacts DEF Building
<1>2. /\ actors' \in [ThumbActors -> ActorRecords]
      /\ \A b \in ThumbActors : actors'[b] = IF b = a THEN x ELSE actors[b]
  BY ActorFacts
<1>3. ThumbTypes'
  BY <1>2 DEF ThumbInv, ThumbTypes, TmpFiles
<1>4. ThumbPaths'
  BY <1>2 DEF ThumbInv, ThumbPaths, OnPath
<1>5. ASSUME NEW b \in ThumbActors, b # a PROVE ~Building(actors[b]) /\ actors'[b] = actors[b]
  BY <1>1, <1>2, <1>5, ActorFacts
<1>6. ThumbAlone'
  BY <1>1, <1>5 DEF ThumbAlone, Building
<1>7. ThumbFiles'
  BY <1>2, <1>5 DEF ThumbFiles, ThumbFile, Building
<1>8. ThumbSlots'
  <2>1. ASSUME NEW b \in ThumbActors
        PROVE  actors'[b] = actors[b] \/ (actors'[b].at # "serving" /\ actors[b].at # "serving")
    BY <1>1, <1>2
  <2>2. Holders("shared")' = Holders("shared") /\ Holders("stream")' = Holders("stream")
    BY <2>1 DEF Holders, ThumbActors
  <2> QED
    BY <2>1, <2>2 DEF ThumbInv, ThumbSlots
<1> QED
  BY <1>3, <1>4, <1>6, <1>7, <1>8 DEF ThumbInv

LEMMA BuildFacts ==
    ASSUME ThumbInv, NEW a \in ThumbActors, NEW f, f = ThumbFile(actors[a])
    PROVE  /\ f \in {"tmp", "part"} /\ Thumbs!File(a) = f
           /\ thumbTmp \in [{"tmp", "part"} -> TmpFiles \cup {None}]
           /\ None \notin TmpFiles /\ jpg \in {"none", "valid", "bad"}
BY ThumbAssumption DEF ThumbInv, ThumbTypes, TmpFiles, ThumbFile, Thumbs!File, ThumbActors

LEMMA BuildStartInv ==
    ASSUME ThumbInv, NEW a \in ThumbActors, Thumbs!BuildStart(a)
    PROVE  ThumbInv'
<1> DEFINE x(place) == [actors[a] EXCEPT !.at = place]
           f == ThumbFile(actors[a])
<1>1. /\ actors[a].at = "build" /\ UNCHANGED <<flight, sharedSlots, streamSlots, sent, original, jpg>>
  BY DEF Thumbs!BuildStart, Thumbs!UnchangedSlots, Thumbs!kindVars
<1>2. ASSUME NEW place \in {"leave", "fill"}
      PROVE  /\ x(place) \in ActorRecords /\ x(place).at = place /\ OnPath(x(place))
             /\ x(place).kind = actors[a].kind
  <2> DEFINE y == x(place)
  <2>1. y \in ActorRecords /\ y.at = place /\ y.kind = actors[a].kind
    BY ActorFacts, PlaceFacts DEF ThumbPlaces
  <2> HIDE DEF y
  <2>2. OnPath(y)
    BY <2>1 DEF OnPath
  <2> QED
    BY <2>1, <2>2 DEF y
<1>3. CASE actors' = [actors EXCEPT ![a] = x("leave")] /\ UNCHANGED thumbTmp
  <2> DEFINE y == x("leave")
  <2>1. y \in ActorRecords /\ y.at = "leave" /\ OnPath(y) /\ actors' = [actors EXCEPT ![a] = y]
    BY <1>2, <1>3
  <2>2. thumbTmp \in [{"tmp", "part"} -> TmpFiles \cup {None}] /\ jpg \in {"none", "valid", "bad"}
    BY BuildFacts
  <2> HIDE DEF y
  <2> QED
    BY <1>1, <1>3, <2>1, <2>2, BuildInv
<1>4. CASE actors' = [actors EXCEPT ![a] = x("fill")] /\ thumbTmp' = [thumbTmp EXCEPT ![f] = [by |-> a, full |-> FALSE]]
  <2> DEFINE y == x("fill")
  <2>1. y \in ActorRecords /\ y.at = "fill" /\ OnPath(y) /\ actors' = [actors EXCEPT ![a] = y] /\ ThumbFile(y) = f
    BY <1>2, <1>4 DEF ThumbFile
  <2>2. /\ thumbTmp \in [{"tmp", "part"} -> TmpFiles \cup {None}] /\ jpg \in {"none", "valid", "bad"}
        /\ f \in {"tmp", "part"} /\ None \notin TmpFiles
    BY BuildFacts
  <2> HIDE DEF y, f
  <2>3. [by |-> a, full |-> FALSE] \in TmpFiles
    BY DEF TmpFiles
  <2>4. /\ thumbTmp' \in [{"tmp", "part"} -> TmpFiles \cup {None}]
        /\ thumbTmp'[f] # None /\ thumbTmp'[f].by = a
    BY <1>4, <2>2, <2>3
  <2> QED
    BY <1>1, <2>1, <2>2, <2>4, BuildInv
<1> QED
  BY <1>3, <1>4, BuildFacts DEF Thumbs!BuildStart, Thumbs!Goto

LEMMA BuildFillInv ==
    ASSUME ThumbInv, NEW a \in ThumbActors, Thumbs!BuildFill(a)
    PROVE  ThumbInv'
<1> DEFINE x == [actors[a] EXCEPT !.at = "rename"]
           f == ThumbFile(actors[a])
<1>1. /\ actors[a].at = "fill" /\ UNCHANGED <<flight, sharedSlots, streamSlots, sent, original, jpg>>
      /\ actors' = [actors EXCEPT ![a] = x]
  BY DEF Thumbs!BuildFill, Thumbs!UnchangedSlots, Thumbs!kindVars, Thumbs!Goto
<1>2. x \in ActorRecords /\ x.at = "rename" /\ x.kind = actors[a].kind
  BY ActorFacts, PlaceFacts DEF ThumbPlaces
<1>3. ThumbFile(x) = f
  BY <1>2 DEF ThumbFile
<1>4. /\ thumbTmp \in [{"tmp", "part"} -> TmpFiles \cup {None}] /\ jpg \in {"none", "valid", "bad"}
      /\ f \in {"tmp", "part"} /\ None \notin TmpFiles /\ Thumbs!File(a) = f
  BY BuildFacts
<1>5. thumbTmp[f] # None /\ thumbTmp[f].by = a
  BY <1>1 DEF ThumbInv, ThumbFiles
<1> HIDE DEF x, f
<1>6. thumbTmp' = [thumbTmp EXCEPT ![f].full = TRUE]
  BY <1>4, <1>5 DEF Thumbs!BuildFill
<1>7. thumbTmp[f] \in TmpFiles
  BY <1>4, <1>5
<1> DEFINE done == [thumbTmp[f] EXCEPT !.full = TRUE]
<1>8. done \in TmpFiles /\ done.full
  BY <1>7 DEF TmpFiles
<1>9. thumbTmp' = [thumbTmp EXCEPT ![f] = done]
  BY <1>4, <1>6
<1> HIDE DEF done
<1>10. /\ thumbTmp' \in [{"tmp", "part"} -> TmpFiles \cup {None}] /\ thumbTmp'[f] # None /\ thumbTmp'[f].full
  BY <1>4, <1>8, <1>9
<1>11. OnPath(x)
  BY <1>2 DEF OnPath
<1> QED
  BY <1>1, <1>2, <1>3, <1>4, <1>10, <1>11, BuildInv

LEMMA BuildFailsInv ==
    ASSUME ThumbInv, NEW a \in ThumbActors, Thumbs!BuildFails(a)
    PROVE  ThumbInv'
<1> DEFINE x == [actors[a] EXCEPT !.at = "leave"]
<1>1. /\ actors[a].at = "fill" /\ UNCHANGED <<flight, sharedSlots, streamSlots, sent, original, jpg>>
      /\ actors' = [actors EXCEPT ![a] = x]
  BY DEF Thumbs!BuildFails, Thumbs!UnchangedSlots, Thumbs!kindVars, Thumbs!Goto
<1>2. x \in ActorRecords /\ x.at = "leave"
  BY ActorFacts, PlaceFacts DEF ThumbPlaces
<1> HIDE DEF x
<1>3. thumbTmp' \in [{"tmp", "part"} -> TmpFiles \cup {None}] /\ jpg \in {"none", "valid", "bad"}
  BY BuildFacts DEF Thumbs!BuildFails
<1>4. OnPath(x)
  BY <1>2 DEF OnPath
<1> QED
  BY <1>1, <1>2, <1>3, <1>4, BuildInv

LEMMA BuildRenameInv ==
    ASSUME ThumbInv, NEW a \in ThumbActors, Thumbs!BuildRename(a)
    PROVE  ThumbInv'
<1> DEFINE x == [actors[a] EXCEPT !.at = "look", !.ok = "leave", !.no = "leave"]
           f == ThumbFile(actors[a])
<1>1. /\ actors[a].at = "rename" /\ UNCHANGED <<flight, sharedSlots, streamSlots, sent, original>>
      /\ actors' = [actors EXCEPT ![a] = x]
  BY DEF Thumbs!BuildRename, Thumbs!UnchangedSlots, Thumbs!kindVars, Thumbs!Look
<1>2. x \in ActorRecords /\ x.at = "look" /\ x.ok = "leave" /\ x.no = "leave"
  <2>1. "look" \in ThumbPlaces /\ "leave" \in WhenThere /\ "leave" \in WhenNot /\ actors[a] \in ActorRecords
    BY ActorFacts DEF ThumbPlaces, WhenThere, WhenNot
  <2> QED
    BY <2>1 DEF ActorRecords
<1> HIDE DEF x
<1>3. thumbTmp' \in [{"tmp", "part"} -> TmpFiles \cup {None}] /\ Thumbs!File(a) = f
  BY BuildFacts DEF Thumbs!BuildRename
<1>4. thumbTmp[f] # None /\ thumbTmp[f].full
  BY <1>1 DEF ThumbInv, ThumbFiles
<1>5. jpg' \in {"none", "valid", "bad"}
  BY <1>3, <1>4 DEF Thumbs!BuildRename
<1>6. OnPath(x)
  BY <1>2 DEF OnPath, Exits
<1> QED
  BY <1>1, <1>2, <1>3, <1>5, <1>6, BuildInv

\* A slot is taken,
LEMMA TakeInv ==
    ASSUME ThumbInv, NEW r \in Requests, NEW slot \in {"shared", "stream"}, Thumbs!Take(r, slot),
           actors[r].at \in {"serve", "stream", "streamWait"},
           slot = "shared" => sharedSlots < SharedLimit, slot = "stream" => streamSlots = 0
    PROVE  ThumbInv'
<1> DEFINE x == [actors[r] EXCEPT !.at = "serving", !.slot = slot]
<1>1. r \in ThumbActors
  BY DEF ThumbActors
<1>2. actors' = [actors EXCEPT ![r] = x] /\ UNCHANGED <<flight, sent, original, jpg, thumbTmp>>
  BY DEF Thumbs!Take, Thumbs!UnchangedFiles
<1>3. x \in ActorRecords /\ x.at = "serving" /\ x.slot = slot
  <2>1. "serving" \in ThumbPlaces /\ slot \in SlotNames /\ actors[r] \in ActorRecords
    BY <1>1, ActorFacts DEF ThumbPlaces, SlotNames
  <2> QED
    BY <2>1 DEF ActorRecords
<1> HIDE DEF x
<1>4. /\ actors' \in [ThumbActors -> ActorRecords]
      /\ \A b \in ThumbActors : actors'[b] = IF b = r THEN x ELSE actors[b]
  BY <1>1, <1>2, <1>3, ActorFacts
<1>5. ThumbPaths' /\ ThumbAlone' /\ ThumbFiles'
  <2>1. OnPath(x) /\ ~Building(x)
    BY <1>3 DEF OnPath, Building
  <2> QED
    BY <1>2, <1>3, <1>4, <2>1 DEF ThumbInv, ThumbPaths, ThumbAlone, ThumbFiles, ThumbFile, OnPath, Building
<1>6. /\ IsFiniteSet(Holders("shared")) /\ IsFiniteSet(Holders("stream"))
      /\ sharedSlots = Cardinality(Holders("shared")) /\ sharedSlots <= SharedLimit
      /\ streamSlots = Cardinality(Holders("stream")) /\ streamSlots <= 1
      /\ sharedSlots \in Nat /\ streamSlots \in Nat
      /\ r \notin Holders("shared") /\ r \notin Holders("stream")
  BY DEF ThumbInv, ThumbSlots, ThumbTypes, Holders
<1>7. Holders("shared")' = IF slot = "shared" THEN Holders("shared") \cup {r} ELSE Holders("shared")
  BY <1>3, <1>4 DEF Holders, ThumbActors
<1>8. Holders("stream")' = IF slot = "stream" THEN Holders("stream") \cup {r} ELSE Holders("stream")
  BY <1>3, <1>4 DEF Holders, ThumbActors
<1>9. /\ sharedSlots' = IF slot = "shared" THEN sharedSlots + 1 ELSE sharedSlots
      /\ streamSlots' = IF slot = "stream" THEN streamSlots + 1 ELSE streamSlots
  BY DEF Thumbs!Take
<1>10. /\ IsFiniteSet(Holders("shared"))' /\ (sharedSlots = Cardinality(Holders("shared")))'
       /\ sharedSlots' <= SharedLimit /\ sharedSlots' \in Nat
  BY <1>6, <1>7, <1>9, FS_AddElement, ThumbAssumption
<1>11. /\ IsFiniteSet(Holders("stream"))' /\ (streamSlots = Cardinality(Holders("stream")))'
       /\ streamSlots' <= 1 /\ streamSlots' \in Nat
  BY <1>6, <1>8, <1>9, FS_AddElement
<1>12. ThumbSlots'
  <2>1. \A a \in ThumbActors :
          actors'[a].at = "serving" => a \in Requests /\ actors'[a].slot \in {"shared", "stream"}
    BY <1>3, <1>4 DEF ThumbInv, ThumbSlots
  <2> QED
    BY <1>10, <1>11, <2>1 DEF ThumbSlots
<1>13. ThumbTypes'
  BY <1>2, <1>4, <1>10, <1>11 DEF ThumbInv, ThumbTypes
<1> QED
  BY <1>2, <1>5, <1>12, <1>13 DEF ThumbInv

\* ... and given back.
LEMMA ReleaseInv ==
    ASSUME ThumbInv, NEW r \in Requests, Thumbs!Release(r)
    PROVE  ThumbInv'
<1>1. r \in ThumbActors
  BY DEF ThumbActors
<1>2. /\ actors' = [actors EXCEPT ![r] = Thumbs!Idle] /\ UNCHANGED <<flight, sent, original, jpg, thumbTmp>>
      /\ actors[r].at = "serving"
  BY DEF Thumbs!Release, Thumbs!UnchangedFiles
<1>3. /\ actors' \in [ThumbActors -> ActorRecords]
      /\ \A b \in ThumbActors : actors'[b] = IF b = r THEN Thumbs!Idle ELSE actors[b]
  BY <1>1, <1>2, IdleFacts, ActorFacts
<1>4. ThumbPaths' /\ ThumbAlone' /\ ThumbFiles'
  BY <1>2, <1>3, IdleFacts DEF ThumbInv, ThumbPaths, ThumbAlone, ThumbFiles, ThumbFile, OnPath, Building
<1> DEFINE slot == actors[r].slot
<1>5. /\ IsFiniteSet(Holders("shared")) /\ IsFiniteSet(Holders("stream"))
      /\ sharedSlots = Cardinality(Holders("shared")) /\ sharedSlots <= SharedLimit
      /\ streamSlots = Cardinality(Holders("stream")) /\ streamSlots <= 1
      /\ sharedSlots \in Nat /\ streamSlots \in Nat
      /\ slot \in {"shared", "stream"} /\ r \in Holders(slot)
  BY <1>1, <1>2 DEF ThumbInv, ThumbSlots, ThumbTypes, Holders
<1>6. Holders("shared")' = IF slot = "shared" THEN Holders("shared") \ {r} ELSE Holders("shared")
  BY <1>2, <1>3, IdleFacts DEF Holders, ThumbActors
<1>7. Holders("stream")' = IF slot = "stream" THEN Holders("stream") \ {r} ELSE Holders("stream")
  BY <1>2, <1>3, IdleFacts DEF Holders, ThumbActors
<1>8. Cardinality(Holders(slot)) > 0
  BY <1>5, FS_EmptySet, FS_CardinalityType
<1>9. /\ sharedSlots' = IF slot = "shared" THEN sharedSlots - 1 ELSE sharedSlots
      /\ streamSlots' = IF slot = "stream" THEN streamSlots - 1 ELSE streamSlots
  BY <1>5, <1>8 DEF Thumbs!Release
<1> HIDE DEF slot
<1>10. /\ IsFiniteSet(Holders("shared"))' /\ (sharedSlots = Cardinality(Holders("shared")))'
       /\ sharedSlots' <= SharedLimit /\ sharedSlots' \in Nat
  BY <1>5, <1>6, <1>8, <1>9, FS_RemoveElement, ThumbAssumption
<1>11. /\ IsFiniteSet(Holders("stream"))' /\ (streamSlots = Cardinality(Holders("stream")))'
       /\ streamSlots' <= 1 /\ streamSlots' \in Nat
  BY <1>5, <1>7, <1>8, <1>9, FS_RemoveElement
<1>12. ThumbSlots'
  <2>1. \A a \in ThumbActors :
          actors'[a].at = "serving" => a \in Requests /\ actors'[a].slot \in {"shared", "stream"}
    BY <1>3, IdleFacts DEF ThumbInv, ThumbSlots
  <2> QED
    BY <1>10, <1>11, <2>1 DEF ThumbSlots
<1>13. ThumbTypes'
  BY <1>2, <1>3, <1>10, <1>11 DEF ThumbInv, ThumbTypes
<1> QED
  BY <1>2, <1>4, <1>12, <1>13 DEF ThumbInv

LEMMA ServeInv ==
    ASSUME ThumbInv, NEW r \in Requests,
           Thumbs!Serve(r) \/ Thumbs!AcquireTGStream(r) \/ Thumbs!StreamWait(r)
    PROVE  ThumbInv'
<1>1. r \in ThumbActors /\ actors[r].at \in {"serve", "stream", "streamWait"}
  BY DEF ThumbActors, Thumbs!Serve, Thumbs!AcquireTGStream, Thumbs!StreamWait
<1>2. \/ Thumbs!Unavailable(r)
      \/ sharedSlots < SharedLimit /\ Thumbs!Take(r, "shared")
      \/ streamSlots = 0 /\ Thumbs!Take(r, "stream")
      \/ Thumbs!OnlyActors /\ Thumbs!Goto(r, "streamWait")
  BY DEF Thumbs!Serve, Thumbs!AcquireTGStream, Thumbs!StreamWait, Thumbs!SharedFree
<1> QED
  BY <1>1, <1>2, UnavailableInv, TakeInv, OutsideFacts, GotoInv

LEMMA RestartInv == ThumbInv /\ Thumbs!RestartServer => ThumbInv'
<1> SUFFICES ASSUME ThumbInv, Thumbs!RestartServer PROVE ThumbInv'
  OBVIOUS
<1>1. /\ flight' = None /\ sharedSlots' = 0 /\ streamSlots' = 0
      /\ UNCHANGED <<sent, original, jpg, thumbTmp>>
      /\ actors' = [a \in ThumbActors |-> Thumbs!Idle]
  BY DEF Thumbs!RestartServer, Thumbs!Actors, ThumbActors, Thumbs!UnchangedFiles
<1>2. ThumbTypes'
  BY <1>1, IdleFacts DEF ThumbInv, ThumbTypes
<1>3. \A a \in ThumbActors : actors'[a] = Thumbs!Idle
  BY <1>1
<1>4. ThumbPaths' /\ ThumbAlone' /\ ThumbFiles'
  BY <1>3, IdleFacts DEF ThumbPaths, ThumbAlone, ThumbFiles, OnPath, Building
<1>5. ThumbSlots'
  <2>1. Holders("shared")' = {} /\ Holders("stream")' = {}
    BY <1>3, IdleFacts DEF Holders, ThumbActors
  <2> QED
    BY <1>1, <1>3, <2>1, IdleFacts, FS_EmptySet, ThumbAssumption DEF ThumbSlots
<1> QED
  BY <1>1, <1>2, <1>4, <1>5 DEF ThumbInv

LEMMA ThumbStepInv == ThumbInv /\ [WebNext]_webVars => ThumbInv'
<1> SUFFICES ASSUME ThumbInv, [WebNext]_webVars PROVE ThumbInv'
  OBVIOUS
<1>1. Thumbs!ThumbNext \/ UNCHANGED thumbAll
  BY DEF WebNext, webVars
<1>2. CASE Thumbs!ThumbNext
  <2>1. CASE \E a \in ThumbActors :
               \/ Thumbs!LookJpg(a) \/ Thumbs!RemoveJpg(a) \/ Thumbs!Join(a) \/ Thumbs!Leave(a)
               \/ Thumbs!Ends(a) \/ Thumbs!BuildStart(a) \/ Thumbs!BuildFill(a)
               \/ Thumbs!BuildFails(a) \/ Thumbs!BuildRename(a)
    <3>1. ASSUME NEW a \in ThumbActors, Thumbs!Ends(a) PROVE ThumbInv'
      <4>1. actors[a].at # "serving" /\ Thumbs!Unavailable(a)
        BY <3>1 DEF Thumbs!Ends
      <4> QED
        BY <4>1, UnavailableInv
    <3> QED
      BY <2>1, <3>1, LookInv, JoinInv, LeaveInv, BuildStartInv, BuildFillInv, BuildFailsInv, BuildRenameInv
  <2>2. CASE \E r \in Requests :
               \/ Thumbs!Thumb(r) \/ Thumbs!Preview(r) \/ Thumbs!OpenJpg(r) \/ Thumbs!ThumbLocal(r)
               \/ Thumbs!ThumbAgain(r) \/ Thumbs!ThumbRemote(r) \/ Thumbs!PreviewLocal(r)
               \/ Thumbs!PreviewRemote(r) \/ Thumbs!Serve(r) \/ Thumbs!Stream(r)
               \/ Thumbs!AcquireTGStream(r) \/ Thumbs!StreamWait(r) \/ Thumbs!Release(r)
    <3>1. Requests \subseteq ThumbActors
      BY DEF ThumbActors
    <3> QED
      BY <2>2, <3>1, BeginsInv, OpenJpgInv, ThumbLocalInv, PreviewInv, ServeInv, ReleaseInv
  <2>3. CASE \E b \in Builders : Thumbs!CoverJob(b)
    BY <2>3, CoverJobInv DEF ThumbActors
  <2> QED
    BY <1>2, <2>1, <2>2, <2>3, OthersInv, RestartInv DEF Thumbs!ThumbNext, Thumbs!Actors, ThumbActors
<1> QED
  BY <1>1, <1>2, OthersInv

LEMMA ThumbRight == ThumbInv => ThumbsAreRight /\ Thumbs!TypeOK
<1> SUFFICES ASSUME ThumbInv PROVE ThumbsAreRight /\ Thumbs!TypeOK
  OBVIOUS
<1>1. Thumbs!SentIsWhole
  BY DEF ThumbInv, Thumbs!SentIsWhole
<1>2. Thumbs!SlotsAreHeld
  <2>1. \A S : Thumbs!Cardinality(S) = Cardinality(S)
    BY DEF Thumbs!Cardinality, Cardinality, Thumbs!IsFiniteSet, IsFiniteSet
  <2> QED
    BY <2>1 DEF ThumbInv, ThumbSlots, Holders, Thumbs!SlotsAreHeld
<1>3. Thumbs!TypeOK
  BY DEF ThumbInv, ThumbTypes, ThumbSlots, Thumbs!TypeOK, Thumbs!Actors, ThumbActors
<1> QED
  BY <1>1, <1>2, <1>3 DEF ThumbsAreRight

\* A thumbnail that is sent is whole, whoever builds it, gives up or asks meanwhile;
\* and a slot to Telegram is taken as long as something is served in it
\* (app/web/thumb_cache.go, handlers.go).
THEOREM ThumbsInvariant == WebSpec => []ThumbsAreRight
<1>1. WebInit => ThumbInv
  BY ThumbInitInv
<1>2. ThumbInv /\ [WebNext]_webVars => ThumbInv'
  BY ThumbStepInv
<1>3. ThumbInv => ThumbsAreRight
  BY ThumbRight
<1> QED
  BY <1>1, <1>2, <1>3, PTL DEF WebSpec

-----------------------------------------------------------------------------
(* RangeTransfer: what is transferred, and what is left to do. *)

TransferTypes ==
    /\ size \in Nat /\ size > 0 /\ have \in 0 .. size /\ fetched \in Nat
    /\ job \in {"player", "tmp", "resume", "poster"}
    /\ at \in {"begin", "send", "done", "refused"}
    /\ stream \in [next : 0 .. size, place : 0 .. size, skip : 0 .. Align, remain : 0 .. size]

Sending == at \in {"send", "done"}
Remaining == stream.place .. stream.place + stream.remain - 1

\* The stream is at the place it writes to, but for what it skips; what is wanted
\* was written or remains, and is in the file.
TransferStream ==
    /\ stream.place + stream.remain <= size
    /\ stream.remain > 0 => stream.next + stream.skip = stream.place
    /\ wanted = DOMAIN out \cup Remaining
    /\ \A p \in DOMAIN out : out[p] = p
    /\ wanted \subseteq 0 .. size - 1
    /\ Sending => wanted # {}
    /\ ~Sending => out = <<>>
    /\ at = "begin" => fetched = 0
    /\ at = "done" => stream.remain = 0

\* The steps of a poster: nothing any more, the tail after the head, or both; and
\* what they take of the budget.
HeadRange(n) == [new |-> TRUE, start |-> 0, length |-> n]
TailRange(n) == [new |-> FALSE, start |-> size - n, length |-> n]
Span == {n \in Nat : 0 < n /\ 2 * n < size}
PosterSteps ==
    \/ steps = <<>> /\ fetched + stream.remain <= RemoteMax
    \/ \E n \in Span :
          /\ steps = <<TailRange(n)>> /\ wanted = 0 .. n - 1
          /\ fetched + stream.remain + n <= RemoteMax
    \/ \E n \in Span :
          /\ steps = <<HeadRange(n), TailRange(n)>>
          /\ fetched + stream.remain + 2 * n <= RemoteMax

\* Some of the file is not read.
TransferPoster ==
    /\ job # "poster" \/ ~Sending => steps = <<>>
    /\ job = "poster" /\ Sending => PosterSteps /\ \E p \in 0 .. size - 1 : p \notin wanted
    /\ ~Sending => fetched = 0

TransferInv == TransferTypes /\ TransferStream /\ TransferPoster

LEMMA TransferInitInv == WebInit => TransferInv
<1> SUFFICES ASSUME WebInit PROVE TransferInv
  OBVIOUS
<1> USE DEF WebInit, Transfer!TransferInit
<1>1. Align \in Nat \ {0} /\ size \in Nat /\ size > 0
  BY TransferAssumption
<1>2. stream.next = 0 /\ stream.place = 0 /\ stream.skip = 0 /\ stream.remain = 0
  BY DEF Transfer!Idle
<1>3. TransferTypes
  BY <1>1 DEF TransferTypes, Transfer!Idle
<1>4. DOMAIN out = {} /\ Remaining = {}
  BY <1>2 DEF Remaining
<1> QED
  BY <1>1, <1>2, <1>3, <1>4 DEF TransferInv, TransferStream, TransferPoster, Sending

\* From an aligned offset, what is before the range is skipped.
LEMMA OpenedFacts ==
    ASSUME size \in Nat, NEW range, range.start \in Nat, range.length \in Nat,
           range.start + range.length <= size
    PROVE  LET s == Transfer!Opened(range) IN
           /\ s \in [next : 0 .. size, place : 0 .. size, skip : 0 .. Align, remain : 0 .. size]
           /\ s.place = range.start /\ s.remain = range.length /\ s.next + s.skip = s.place
<1>1. Align \in Nat \ {0}
  BY TransferAssumption
<1>2. range.start % Align \in 0 .. Align - 1 /\ range.start % Align <= range.start
  <2> DEFINE n == range.start
  <2>1. n \in Nat
    OBVIOUS
  <2> HIDE DEF n
  <2>2. n % Align \in 0 .. Align - 1
    BY <1>1, <2>1
  <2>3. n % Align <= n
    BY <1>1, <2>1
  <2> QED
    BY <2>2, <2>3 DEF n
<1> DEFINE m == range.start % Align
<1>3. Transfer!Opened(range) = [next |-> range.start - m, place |-> range.start,
                                skip |-> range.start - (range.start - m), remain |-> range.length]
  BY DEF Transfer!Opened, Transfer!AlignDown
<1>4. m \in Nat /\ m <= Align /\ m <= range.start
  BY <1>1, <1>2
<1> HIDE DEF m
<1> QED
  BY <1>1, <1>3, <1>4

\* The first range is taken up.
LEMMA StartsInv ==
    ASSUME TransferInv, at = "begin", NEW ranges, Transfer!Starts(ranges), NEW range, range = Head(ranges),
           range.start \in Nat, range.length \in Nat, range.length > 0, range.start + range.length <= size,
           job # "poster" => Tail(ranges) = <<>>,
           job = "poster" => PosterSteps' /\ \E p \in 0 .. size - 1 : p \notin wanted'
    PROVE  TransferInv'
<1>1. /\ at' = "send" /\ steps' = Tail(ranges) /\ stream' = Transfer!Opened(range)
      /\ wanted' = range.start .. range.start + range.length - 1 /\ out' = <<>>
      /\ UNCHANGED <<size, have, job, fetched>>
  BY DEF Transfer!Starts, Transfer!Places
<1>2. /\ stream' \in [next : 0 .. size, place : 0 .. size, skip : 0 .. Align, remain : 0 .. size]
      /\ stream'.place = range.start /\ stream'.remain = range.length
      /\ stream'.next + stream'.skip = stream'.place
  BY <1>1, OpenedFacts DEF TransferInv, TransferTypes
<1>3. TransferTypes'
  BY <1>1, <1>2 DEF TransferInv, TransferTypes
<1>4. TransferStream'
  <2>1. DOMAIN out' = {} /\ Remaining' = wanted'
    BY <1>1, <1>2 DEF Remaining
  <2>2. range.start \in wanted' /\ wanted' \subseteq 0 .. size - 1
    BY <1>1 DEF TransferInv, TransferTypes
  <2> QED
    BY <1>1, <1>2, <2>1, <2>2 DEF TransferStream, Sending
<1>5. TransferPoster'
  BY <1>1 DEF TransferPoster, Sending
<1> QED
  BY <1>3, <1>4, <1>5 DEF TransferInv

\* What a player is given is within the file.
LEMMA AskFacts ==
    ASSUME TransferTypes, NEW ask \in Asks, NEW spec,
           spec = Transfer!BoundedStreamRange(ask) \/ spec = Transfer!BoundedTmpRange(ask),
           spec.ok, spec.length > 0
    PROVE  spec.start \in Nat /\ spec.length \in Nat /\ spec.start + spec.length <= size
<1> DEFINE last == IF ask.last = 0 THEN size - 1 ELSE Transfer!Smaller(ask.last, size - 1)
           first == ask.first
           length == Transfer!Smaller(last + 1 - first, Chunk)
           whole == Transfer!BoundedStreamRange(ask)
<1>1. ask.first \in Nat /\ ask.last \in Nat /\ size \in Nat /\ have \in 0 .. size /\ Chunk \in Nat \ {0}
  BY TransferAssumption DEF TransferTypes
<1>2. last \in Int /\ last <= size - 1
  BY <1>1 DEF Transfer!Smaller
<1>3. whole = [ok |-> first < size /\ first <= last, start |-> first, length |-> length]
  BY DEF Transfer!BoundedStreamRange
<1>4. length \in Int /\ length <= last + 1 - first
  <2> HIDE DEF last
  <2> QED
    BY <1>1, <1>2 DEF Transfer!Smaller
<1> HIDE DEF last, length, first
<1>5. first \in Nat
  BY <1>1 DEF first
<1>6. CASE spec = whole
  BY <1>1, <1>2, <1>3, <1>4, <1>5, <1>6
<1>7. CASE spec = Transfer!BoundedTmpRange(ask)
  <2>1. spec = [whole EXCEPT !.ok = @ /\ whole.start < have,
                             !.length = Transfer!Smaller(@, have - whole.start)]
    BY <1>7 DEF Transfer!BoundedTmpRange
  <2> HIDE DEF whole
  <2>2. spec.start = first /\ spec.length = Transfer!Smaller(length, have - first)
    BY <1>3, <2>1
  <2>3. spec.length \in Int /\ spec.length <= length
    BY <1>1, <1>4, <1>5, <2>2 DEF Transfer!Smaller
  <2> QED
    BY <1>1, <1>2, <1>4, <1>5, <2>2, <2>3
<1> QED
  BY <1>6, <1>7

LEMMA RefuseInv == TransferInv /\ at = "begin" /\ Transfer!Refuse => TransferInv'
<1> SUFFICES ASSUME TransferInv, at = "begin", Transfer!Refuse PROVE TransferInv'
  OBVIOUS
<1>1. at' = "refused" /\ UNCHANGED <<size, have, job, steps, stream, out, wanted, fetched>>
  BY DEF Transfer!Refuse
<1> QED
  BY <1>1 DEF TransferInv, TransferTypes, TransferStream, TransferPoster, Sending, Remaining

LEMMA PlayerAsksInv == TransferInv /\ Transfer!PlayerAsks => TransferInv'
<1> SUFFICES ASSUME TransferInv, Transfer!PlayerAsks PROVE TransferInv'
  OBVIOUS
<1>1. at = "begin" /\ job # "poster"
  BY DEF Transfer!PlayerAsks
<1>2. PICK ask \in Asks :
          LET spec == IF job = "player" THEN Transfer!BoundedStreamRange(ask)
                      ELSE Transfer!BoundedTmpRange(ask) IN
          IF spec.ok /\ spec.length > 0
          THEN Transfer!Starts(<<[start |-> spec.start, length |-> spec.length]>>)
          ELSE Transfer!Refuse
  BY DEF Transfer!PlayerAsks
<1> DEFINE spec == IF job = "player" THEN Transfer!BoundedStreamRange(ask) ELSE Transfer!BoundedTmpRange(ask)
           range == [start |-> spec.start, length |-> spec.length]
<1>3. CASE spec.ok /\ spec.length > 0
  <2>1. Transfer!Starts(<<range>>)
    BY <1>2, <1>3
  <2>2. spec = Transfer!BoundedStreamRange(ask) \/ spec = Transfer!BoundedTmpRange(ask)
    OBVIOUS
  <2> HIDE DEF spec
  <2>3. spec.start \in Nat /\ spec.length \in Nat /\ spec.start + spec.length <= size
    BY <1>3, <2>2, AskFacts DEF TransferInv
  <2>4. range.start = spec.start /\ range.length = spec.length
    OBVIOUS
  <2>5. Head(<<range>>) = range /\ Tail(<<range>>) = <<>>
    OBVIOUS
  <2> HIDE DEF range
  <2> QED
    BY <1>1, <1>3, <2>1, <2>3, <2>4, <2>5, StartsInv
<1>4. CASE ~(spec.ok /\ spec.length > 0)
  BY <1>1, <1>2, <1>4, RefuseInv
<1> QED
  BY <1>3, <1>4

LEMMA ResumeInv == TransferInv /\ Transfer!ResumeDownload => TransferInv'
<1> SUFFICES ASSUME TransferInv, Transfer!ResumeDownload PROVE TransferInv'
  OBVIOUS
<1> DEFINE n == have - (have % Align)
           range == [start |-> n, length |-> size - n]
<1>1. /\ at = "begin" /\ job = "resume" /\ have < size /\ have \in Nat /\ size \in Nat
      /\ Transfer!Starts(<<range>>)
  BY DEF Transfer!ResumeDownload, Transfer!AlignDown, TransferInv, TransferTypes
<1>2. n \in Nat /\ n <= have
  <2>1. Align \in Nat \ {0}
    BY TransferAssumption
  <2>2. have % Align \in 0 .. Align - 1 /\ have % Align <= have
    BY <1>1, <2>1
  <2> DEFINE m == have % Align
  <2> HIDE DEF m
  <2> QED
    BY <1>1, <2>1, <2>2 DEF m
<1> HIDE DEF n
<1>3. range.start \in Nat /\ range.length \in Nat /\ range.length > 0 /\ range.start + range.length <= size
  BY <1>1, <1>2
<1>4. Head(<<range>>) = range /\ Tail(<<range>>) = <<>>
  OBVIOUS
<1> HIDE DEF range
<1> QED
  BY <1>1, <1>3, <1>4, StartsInv

\* A piece arrives.
LEMMA WriteInv == TransferInv /\ Transfer!Write => TransferInv'
<1> SUFFICES ASSUME TransferInv, Transfer!Write PROVE TransferInv'
  OBVIOUS
<1>1. /\ at = "send" /\ stream.remain > 0 /\ stream.next < size
      /\ UNCHANGED <<size, have, job, steps, wanted, at>>
  BY DEF Transfer!Write
<1>2. PICK n \in 1 .. Transfer!Smaller(Part, size - stream.next) :
        LET skipped == Transfer!Smaller(n, stream.skip)
            kept == Transfer!Smaller(n - skipped, stream.remain) IN
        /\ stream' = [next |-> stream.next + n, place |-> stream.place + kept,
                      skip |-> stream.skip - skipped, remain |-> stream.remain - kept]
        /\ out' = [p \in DOMAIN out \cup stream.place .. stream.place + kept - 1 |->
                      IF p \in DOMAIN out THEN out[p]
                      ELSE stream.next + skipped + (p - stream.place)]
        /\ fetched' = fetched + kept
  BY DEF Transfer!Write
<1> DEFINE skipped == Transfer!Smaller(n, stream.skip)
           kept == Transfer!Smaller(n - skipped, stream.remain)
           next1 == stream.next
           place1 == stream.place
           skip1 == stream.skip
           remain1 == stream.remain
<1>3. /\ size \in Nat /\ Align \in Nat \ {0} /\ Part \in Nat \ {0} /\ fetched \in Nat
      /\ next1 \in 0 .. size /\ place1 \in 0 .. size /\ skip1 \in 0 .. Align /\ remain1 \in 0 .. size
  BY TransferAssumption DEF TransferInv, TransferTypes
<1>4. n \in Nat /\ n > 0 /\ next1 + n <= size
  <2> HIDE DEF skipped, kept
  <2> QED
    BY <1>1, <1>3 DEF Transfer!Smaller
<1>5. /\ place1 + remain1 <= size /\ next1 + skip1 = place1 /\ remain1 > 0
      /\ wanted = DOMAIN out \cup place1 .. place1 + remain1 - 1
      /\ \A p \in DOMAIN out : out[p] = p
      /\ wanted \subseteq 0 .. size - 1 /\ wanted # {}
  BY <1>1 DEF TransferInv, TransferStream, Sending, Remaining
<1>6. /\ skipped \in Nat /\ skipped <= n /\ skipped <= skip1
      /\ kept \in Nat /\ kept <= n - skipped /\ kept <= remain1
      /\ kept > 0 => skipped = skip1
      /\ kept = remain1 \/ skip1 - skipped + next1 + n = place1 + kept
  <2>1. skipped \in Int /\ skipped <= n /\ skipped <= skip1 /\ (skipped = n \/ skipped = skip1)
    BY <1>3, <1>4 DEF Transfer!Smaller
  <2> HIDE DEF skipped
  <2>2. /\ kept \in Int /\ kept <= n - skipped /\ kept <= remain1
        /\ kept = n - skipped \/ kept = remain1
    BY <1>3, <1>4, <2>1 DEF Transfer!Smaller
  <2> HIDE DEF kept, next1, place1, skip1, remain1
  <2> QED
    BY <1>3, <1>4, <1>5, <2>1, <2>2
<1>7. /\ stream' = [next |-> next1 + n, place |-> place1 + kept, skip |-> skip1 - skipped,
                    remain |-> remain1 - kept]
      /\ out' = [p \in DOMAIN out \cup place1 .. place1 + kept - 1 |->
                    IF p \in DOMAIN out THEN out[p] ELSE next1 + skipped + (p - place1)]
      /\ fetched' = fetched + kept
  BY <1>2
<1>8. PosterSteps => PosterSteps'
  <2>1. fetched' + stream'.remain = fetched + stream.remain /\ size' = size /\ steps' = steps /\ wanted' = wanted
    <3>1. stream'.remain = remain1 - kept /\ remain1 = stream.remain
      BY <1>7
    <3> HIDE DEF kept, remain1
    <3> QED
      BY <1>1, <1>3, <1>6, <1>7, <3>1
  <2> DEFINE rest == fetched + stream.remain
             rest1 == fetched' + stream'.remain
  <2>2. rest1 = rest
    BY <2>1
  <2> HIDE DEF rest, rest1
  <2> QED
    BY <2>1, <2>2 DEF PosterSteps, HeadRange, TailRange, Span, rest, rest1
<1> HIDE DEF kept, skipped, next1, place1, skip1, remain1
<1>9. TransferTypes'
  BY <1>1, <1>3, <1>4, <1>5, <1>6, <1>7 DEF TransferInv, TransferTypes
<1>10. TransferStream'
  <2>1. DOMAIN out' = DOMAIN out \cup place1 .. place1 + kept - 1
    BY <1>7
  <2>2. ASSUME NEW p \in DOMAIN out' PROVE out'[p] = p
    <3>1. CASE p \in DOMAIN out
      BY <1>5, <1>7, <3>1
    <3>2. CASE p \notin DOMAIN out
      <4>1. p \in place1 .. place1 + kept - 1 /\ out'[p] = next1 + skipped + (p - place1)
        BY <1>7, <3>2
      <4>2. kept > 0
        BY <1>3, <1>6, <4>1
      <4> QED
        BY <1>3, <1>5, <1>6, <4>1, <4>2
    <3> QED
      BY <3>1, <3>2
  <2>3. /\ stream'.next = next1 + n /\ stream'.place = place1 + kept
        /\ stream'.skip = skip1 - skipped /\ stream'.remain = remain1 - kept
    BY <1>7
  <2>4. wanted' = DOMAIN out' \cup Remaining'
    <3>1. place1 .. place1 + remain1 - 1
            = (place1 .. place1 + kept - 1) \cup (place1 + kept .. (place1 + kept) + (remain1 - kept) - 1)
      BY <1>3, <1>6
    <3> QED
      BY <1>1, <1>5, <2>1, <2>3, <3>1 DEF Remaining
  <2>5. stream'.place + stream'.remain <= size /\ (stream'.remain > 0 => stream'.next + stream'.skip = stream'.place)
    BY <1>3, <1>4, <1>5, <1>6, <2>3
  <2> QED
    BY <1>1, <1>5, <2>2, <2>4, <2>5 DEF TransferStream, Sending
<1>11. TransferPoster'
  BY <1>1, <1>8 DEF TransferInv, TransferPoster, Sending
<1> QED
  BY <1>9, <1>10, <1>11 DEF TransferInv

\* What one attempt at a poster transfers.
LEMMA HalfFacts ==
    ASSUME NEW n \in Nat
    PROVE  /\ n \div 2 \in Nat /\ 2 * (n \div 2) <= n
           /\ n \div 4 \in Nat /\ 4 * (n \div 4) <= n
OBVIOUS

LEMMA PrefixRanges ==
    ASSUME size \in Nat, NEW m \in Nat, NEW r, r = Transfer!AttemptRanges(Transfer!Prefix(m))
    PROVE  r = <<>> \/ \E n \in Nat : 0 < n /\ n < size /\ n <= m /\ r = <<HeadRange(n)>>
<1> DEFINE b == Transfer!Smaller(m, RemoteMax)
           n == Transfer!BoundedRemotePosterBytes(m)
<1>1. RemoteMax \in Nat /\ MinLocal \in Nat \ {0}
  BY TransferAssumption
<1>2. b \in Nat /\ b <= m
  BY <1>1 DEF Transfer!Smaller
<1>3. n = IF b >= size THEN size \div 2 ELSE b
  BY DEF Transfer!BoundedRemotePosterBytes
<1>4. r = IF n < MinLocal THEN <<>> ELSE <<[new |-> TRUE, start |-> 0, length |-> n]>>
  BY DEF Transfer!AttemptRanges, Transfer!Prefix
<1> HIDE DEF b, n
<1>5. n \in Nat /\ n <= m /\ (n > 0 => n < size)
  BY <1>2, <1>3, HalfFacts
<1>6. CASE n < MinLocal
  BY <1>4, <1>6
<1>7. CASE ~(n < MinLocal)
  <2>1. r = <<[new |-> TRUE, start |-> 0, length |-> n]>>
    BY <1>4, <1>7
  <2>2. n > 0
    BY <1>1, <1>5, <1>7
  <2> QED
    BY <1>5, <2>1, <2>2 DEF HeadRange
<1> QED
  BY <1>6, <1>7

LEMMA SparseRanges ==
    ASSUME size \in Nat, NEW m \in Nat, NEW r, r = Transfer!AttemptRanges(Transfer!Sparse(m))
    PROVE  r = <<>> \/ \E n \in Span : n <= m /\ r = <<HeadRange(n), TailRange(n)>>
<1> DEFINE b == Transfer!Smaller(m, RemoteMax \div 2)
           n == Transfer!SparseSpan(m)
<1>1. RemoteMax \in Nat /\ MinLocal \in Nat \ {0}
  BY TransferAssumption
<1>2. b \in Nat /\ b <= m
  BY <1>1, HalfFacts DEF Transfer!Smaller
<1>3. n = IF b * 2 >= size THEN size \div 4 ELSE b
  BY DEF Transfer!SparseSpan
<1>4. r = IF n < MinLocal THEN <<>>
          ELSE <<[new |-> TRUE, start |-> 0, length |-> n], [new |-> FALSE, start |-> size - n, length |-> n]>>
  BY DEF Transfer!AttemptRanges, Transfer!Sparse
<1> HIDE DEF b, n
<1>5. n \in Nat /\ n <= m /\ (n > 0 => 2 * n < size)
  BY <1>2, <1>3, HalfFacts
<1>6. CASE n < MinLocal
  BY <1>4, <1>6
<1>7. CASE ~(n < MinLocal)
  <2>1. r = <<[new |-> TRUE, start |-> 0, length |-> n], [new |-> FALSE, start |-> size - n, length |-> n]>>
    BY <1>4, <1>7
  <2>2. n \in Span
    BY <1>1, <1>5, <1>7 DEF Span
  <2>3. r = <<HeadRange(n), TailRange(n)>>
    BY <2>1 DEF HeadRange, TailRange
  <2> QED
    BY <1>5, <2>2, <2>3
<1> QED
  BY <1>6, <1>7

LEMMA PlanRanges ==
    ASSUME NEW p, NEW q
    PROVE  /\ Transfer!AllRanges(<<>>) = <<>>
           /\ Transfer!AllRanges(<<p>>) = FlattenSeq(<<Transfer!AttemptRanges(p)>>)
           /\ Transfer!AllRanges(<<p, q>>) = FlattenSeq(<<Transfer!AttemptRanges(p), Transfer!AttemptRanges(q)>>)
<1>1. \A s : Transfer!FlattenSeq(s) = FlattenSeq(s)
  BY DEF Transfer!FlattenSeq, FlattenSeq
<1> DEFINE ranges(plan) == [k \in DOMAIN plan |-> Transfer!AttemptRanges(plan[k])]
<1>2. \A plan : Transfer!AllRanges(plan) = FlattenSeq(ranges(plan))
  BY <1>1 DEF Transfer!AllRanges
<1>3. ranges(<<>>) = <<>> /\ FlattenSeq(<<>>) = <<>>
  BY DEF FlattenSeq
<1>4. ranges(<<p>>) = <<Transfer!AttemptRanges(p)>>
  OBVIOUS
<1>5. ranges(<<p, q>>) = <<Transfer!AttemptRanges(p), Transfer!AttemptRanges(q)>>
  OBVIOUS
<1> QED
  BY <1>2, <1>3, <1>4, <1>5

\* ... and all attempts: a prefix, the head and the tail, or one after the other.
LEMMA PosterRanges ==
    ASSUME size \in Nat, NEW container, NEW r,
           r = Transfer!AllRanges(Transfer!RemotePosterPlan(container))
    PROVE  \/ r = <<>>
           \/ \E k \in Nat : 0 < k /\ k < size /\ k <= RemoteMax /\ r = <<HeadRange(k)>>
           \/ \E n \in Span : 2 * n <= RemoteMax /\ r = <<HeadRange(n), TailRange(n)>>
           \/ \E k \in Nat, n \in Span :
                 /\ 0 < k /\ k < size /\ k + 2 * n <= RemoteMax
                 /\ r = <<HeadRange(k), HeadRange(n), TailRange(n)>>
<1> DEFINE one(p) == Transfer!AttemptRanges(p)
           Prefix(n) == Transfer!Prefix(n)
           Sparse(n) == Transfer!Sparse(n)
           half == RemoteMax \div 2
           rest == Transfer!FallbackSpan
           T == {HeadRange(n) : n \in Nat} \cup {TailRange(n) : n \in Nat}
<1>1. /\ RemoteMax \in Nat /\ PrefixMax \in Nat /\ half \in Nat /\ rest \in Nat
      /\ PrefixMax + 2 * rest <= RemoteMax /\ 2 * half <= RemoteMax /\ half <= RemoteMax
      /\ PrefixMax <= RemoteMax
  <2>1. RemoteMax - PrefixMax \in Nat /\ RemoteMax \in Nat /\ PrefixMax \in Nat
    BY TransferAssumption
  <2> DEFINE left == RemoteMax - PrefixMax
  <2>2. rest = left \div 2 /\ PrefixMax + left = RemoteMax
    BY <2>1 DEF Transfer!FallbackSpan
  <2> HIDE DEF left, rest
  <2>3. rest \in Nat /\ 2 * rest <= left
    BY <2>1, <2>2, HalfFacts DEF left
  <2>4. half \in Nat /\ 2 * half <= RemoteMax
    BY <2>1, HalfFacts
  <2> HIDE DEF half
  <2>5. left \in Nat
    BY <2>1 DEF left
  <2> QED
    BY <2>1, <2>2, <2>3, <2>4, <2>5
<1> HIDE DEF half, rest
<1>2. ASSUME NEW m \in Nat
      PROVE  one(Prefix(m)) = <<>> \/ \E n \in Nat : 0 < n /\ n < size /\ n <= m /\ one(Prefix(m)) = <<HeadRange(n)>>
  BY PrefixRanges
<1>3. ASSUME NEW m \in Nat
      PROVE  one(Sparse(m)) = <<>> \/ \E n \in Span : n <= m /\ one(Sparse(m)) = <<HeadRange(n), TailRange(n)>>
  BY SparseRanges
<1>4. ASSUME NEW m \in Nat PROVE one(Prefix(m)) \in Seq(T) /\ one(Sparse(m)) \in Seq(T)
  <2>1. \A n \in Nat : HeadRange(n) \in T /\ TailRange(n) \in T
    OBVIOUS
  <2> HIDE DEF T, one, Prefix, Sparse
  <2>4. <<>> \in Seq(T) /\ (\A x \in T : <<x>> \in Seq(T)) /\ \A x, y \in T : <<x, y>> \in Seq(T)
    OBVIOUS
  <2>2. one(Prefix(m)) \in Seq(T)
    <3> DEFINE s == one(Prefix(m))
    <3>1. s = <<>> \/ \E n \in Nat : s = <<HeadRange(n)>>
      BY <1>2
    <3> HIDE DEF s
    <3>2. s \in Seq(T)
      BY <2>1, <2>4, <3>1
    <3> QED
      BY <3>2 DEF s
  <2>3. one(Sparse(m)) \in Seq(T)
    <3> DEFINE s == one(Sparse(m))
    <3>1. s = <<>> \/ \E n \in Nat : s = <<HeadRange(n), TailRange(n)>>
      BY <1>3 DEF Span
    <3> HIDE DEF s
    <3>2. s \in Seq(T)
      BY <2>1, <2>4, <3>1
    <3> QED
      BY <3>2 DEF s
  <2> QED
    BY <2>2, <2>3
<1>5. \/ r = <<>>
      \/ r = FlattenSeq(<<one(Prefix(PrefixMax)), one(Sparse(rest))>>)
      \/ r = FlattenSeq(<<one(Sparse(half))>>)
      \/ r = FlattenSeq(<<one(Prefix(half))>>)
      \/ r = FlattenSeq(<<one(Prefix(RemoteMax))>>)
  <2>1. \/ Transfer!RemotePosterPlan(container) = <<>>
        \/ Transfer!RemotePosterPlan(container) = <<Prefix(PrefixMax), Sparse(rest)>>
        \/ Transfer!RemotePosterPlan(container) = <<Sparse(half)>>
        \/ Transfer!RemotePosterPlan(container) = <<Prefix(half)>>
        \/ Transfer!RemotePosterPlan(container) = <<Prefix(RemoteMax)>>
    BY DEF Transfer!RemotePosterPlan, half, rest
  <2> HIDE DEF Prefix, Sparse
  <2> QED
    BY <2>1, PlanRanges
<1> HIDE DEF T, one, Prefix, Sparse
<1>6. CASE r = FlattenSeq(<<one(Sparse(half))>>)
  <2>1. r = one(Sparse(half))
    BY <1>1, <1>4, <1>6, FlattenShort
  <2> QED
    BY <1>1, <1>3, <2>1 DEF Span
<1>7. ASSUME NEW m \in {half, RemoteMax}, r = FlattenSeq(<<one(Prefix(m))>>)
      PROVE  r = <<>> \/ \E k \in Nat : 0 < k /\ k < size /\ k <= RemoteMax /\ r = <<HeadRange(k)>>
  <2>1. m \in Nat /\ m <= RemoteMax
    BY <1>1
  <2> DEFINE s == one(Prefix(m))
  <2>2. s \in Seq(T) /\ r = FlattenSeq(<<s>>)
    BY <1>4, <1>7, <2>1
  <2>3. s = <<>> \/ \E n \in Nat : 0 < n /\ n < size /\ n <= m /\ s = <<HeadRange(n)>>
    BY <1>2, <2>1
  <2> HIDE DEF s
  <2>4. r = s
    BY <2>2, FlattenShort
  <2> QED
    BY <1>1, <2>1, <2>3, <2>4
<1>8. CASE r = FlattenSeq(<<one(Prefix(PrefixMax)), one(Sparse(rest))>>)
  <2> DEFINE s == one(Prefix(PrefixMax))
             t == one(Sparse(rest))
  <2>1. s \in Seq(T) /\ t \in Seq(T) /\ r = s \o t
    BY <1>1, <1>4, <1>8, FlattenShort
  <2>2. s = <<>> \/ \E n \in Nat : 0 < n /\ n < size /\ n <= PrefixMax /\ s = <<HeadRange(n)>>
    BY <1>1, <1>2
  <2>3. t = <<>> \/ \E n \in Span : n <= rest /\ t = <<HeadRange(n), TailRange(n)>>
    BY <1>1, <1>3
  <2> HIDE DEF s, t
  <2>4. CASE s = <<>>
    <3>1. r = t
      BY <2>1, <2>4
    <3> QED
      BY <1>1, <2>3, <3>1 DEF Span
  <2>5. ASSUME NEW k \in Nat, 0 < k, k < size, k <= PrefixMax, s = <<HeadRange(k)>>
        PROVE  \/ r = <<HeadRange(k)>>
               \/ \E n \in Span : k + 2 * n <= RemoteMax /\ r = <<HeadRange(k), HeadRange(n), TailRange(n)>>
    <3>1. CASE t = <<>>
      BY <2>1, <2>5, <3>1
    <3>2. ASSUME NEW n \in Span, n <= rest, t = <<HeadRange(n), TailRange(n)>>
          PROVE  k + 2 * n <= RemoteMax /\ r = <<HeadRange(k), HeadRange(n), TailRange(n)>>
      <4>1. k + 2 * n <= RemoteMax
        BY <1>1, <2>5, <3>2 DEF Span
      <4>2. <<HeadRange(k)>> \o <<HeadRange(n), TailRange(n)>> = <<HeadRange(k), HeadRange(n), TailRange(n)>>
        <5>1. HeadRange(k) \in T /\ HeadRange(n) \in T /\ TailRange(n) \in T
          BY DEF T, Span
        <5> QED
          BY <5>1, ConcatShort
      <4> QED
        BY <2>1, <2>5, <3>2, <4>1, <4>2
    <3> QED
      BY <2>3, <3>1, <3>2
  <2> QED
    BY <1>1, <2>2, <2>4, <2>5
<1> QED
  BY <1>5, <1>6, <1>7, <1>8

LEMMA ExtractPosterInv == TransferInv /\ Transfer!ExtractPoster => TransferInv'
<1> SUFFICES ASSUME TransferInv, Transfer!ExtractPoster PROVE TransferInv'
  OBVIOUS
<1>1. at = "begin" /\ job = "poster" /\ size \in Nat /\ fetched = 0
  BY DEF Transfer!ExtractPoster, TransferInv, TransferTypes, TransferStream
<1>2. PICK container \in Transfer!Containers :
          LET ranges == Transfer!AllRanges(Transfer!RemotePosterPlan(container)) IN
          IF ranges = <<>> THEN Transfer!Refuse ELSE Transfer!Starts(ranges)
  BY DEF Transfer!ExtractPoster
<1> DEFINE r == Transfer!AllRanges(Transfer!RemotePosterPlan(container))
<1>3. CASE r = <<>>
  BY <1>1, <1>2, <1>3, RefuseInv
<1>4. CASE r # <<>>
  <2>1. Transfer!Starts(r)
    BY <1>2, <1>4
  <2>2. \/ \E k \in Nat : 0 < k /\ k < size /\ k <= RemoteMax /\ r = <<HeadRange(k)>>
        \/ \E n \in Span : 2 * n <= RemoteMax /\ r = <<HeadRange(n), TailRange(n)>>
        \/ \E k \in Nat, n \in Span :
              /\ 0 < k /\ k < size /\ k + 2 * n <= RemoteMax
              /\ r = <<HeadRange(k), HeadRange(n), TailRange(n)>>
    BY <1>1, <1>4, PosterRanges
  <2> HIDE DEF r
  \* Whatever follows, the first range is from the beginning and leaves some.
  <2>3. ASSUME NEW k \in Nat, 0 < k, k < size, Head(r) = HeadRange(k),
               \/ Tail(r) = <<>> /\ k <= RemoteMax
               \/ k \in Span /\ Tail(r) = <<TailRange(k)>> /\ k + k <= RemoteMax
               \/ \E n \in Span : Tail(r) = <<HeadRange(n), TailRange(n)>> /\ k + 2 * n <= RemoteMax
        PROVE  TransferInv'
    <3> DEFINE range == HeadRange(k)
    <3>1. range.start = 0 /\ range.length = k
      BY DEF HeadRange
    <3> HIDE DEF range
    <3>2. /\ stream' = Transfer!Opened(range) /\ wanted' = 0 .. 0 + k - 1 /\ steps' = Tail(r)
          /\ UNCHANGED <<size, fetched>>
      BY <2>1, <2>3, <3>1 DEF Transfer!Starts, Transfer!Places, range
    <3>3. stream'.remain = k
      BY <1>1, <2>3, <3>1, <3>2, OpenedFacts
    <3>4. wanted' = 0 .. k - 1
      BY <3>2
    <3>5. PosterSteps'
      <4>1. CASE Tail(r) = <<>> /\ k <= RemoteMax
        BY <1>1, <3>2, <3>3, <4>1 DEF PosterSteps
      <4>2. CASE k \in Span /\ Tail(r) = <<TailRange(k)>> /\ k + k <= RemoteMax
        BY <1>1, <3>2, <3>3, <3>4, <4>2 DEF PosterSteps, TailRange, Span
      <4>3. ASSUME NEW n \in Span, Tail(r) = <<HeadRange(n), TailRange(n)>>, k + 2 * n <= RemoteMax
            PROVE  PosterSteps'
        BY <1>1, <3>2, <3>3, <4>3 DEF PosterSteps, HeadRange, TailRange, Span
      <4> QED
        BY <2>3, <4>1, <4>2, <4>3
    <3>6. k \in 0 .. size - 1 /\ k \notin wanted'
      BY <1>1, <2>3, <3>4
    <3>7. /\ range = Head(r) /\ range.start \in Nat /\ range.length \in Nat /\ range.length > 0
          /\ range.start + range.length <= size
      <4>1. range = Head(r)
        BY <2>3 DEF range
      <4> QED
        BY <1>1, <2>3, <3>1, <4>1
    <3> QED
      BY <1>1, <2>1, <3>5, <3>6, <3>7, StartsInv
  <2>4. ASSUME NEW k \in Nat, 0 < k, k < size, k <= RemoteMax, r = <<HeadRange(k)>>
        PROVE  TransferInv'
    <3>1. Head(r) = HeadRange(k) /\ Tail(r) = <<>>
      BY <2>4
    <3> QED
      BY <2>3, <2>4, <3>1
  <2>5. ASSUME NEW n \in Span, 2 * n <= RemoteMax, r = <<HeadRange(n), TailRange(n)>>
        PROVE  TransferInv'
    <3>1. Head(r) = HeadRange(n) /\ Tail(r) = <<TailRange(n)>>
      BY <2>5
    <3>2. n \in Nat /\ 0 < n /\ n < size /\ n + n <= RemoteMax
      BY <1>1, <2>5, TransferAssumption DEF Span
    <3> QED
      BY <2>3, <3>1, <3>2
  <2>6. ASSUME NEW k \in Nat, NEW n \in Span, 0 < k, k < size, k + 2 * n <= RemoteMax,
               r = <<HeadRange(k), HeadRange(n), TailRange(n)>>
        PROVE  TransferInv'
    <3>1. Head(r) = HeadRange(k) /\ Tail(r) = <<HeadRange(n), TailRange(n)>>
      BY <2>6
    <3> QED
      BY <2>3, <2>6, <3>1
  <2> QED
    BY <2>2, <2>4, <2>5, <2>6
<1> QED
  BY <1>3, <1>4

\* The next range, or all is there.
LEMMA NextRangeInv == TransferInv /\ Transfer!NextRange => TransferInv'
<1> SUFFICES ASSUME TransferInv, Transfer!NextRange PROVE TransferInv'
  OBVIOUS
<1>1. /\ at = "send" /\ stream.remain = 0 /\ UNCHANGED <<size, have, job, fetched>> /\ size \in Nat
      /\ fetched \in Nat
  BY DEF Transfer!NextRange, TransferInv, TransferTypes
<1>2. CASE at' = "done" /\ UNCHANGED <<steps, stream, out, wanted>>
  BY <1>1, <1>2 DEF TransferInv, TransferTypes, TransferStream, TransferPoster, Sending, Remaining,
     PosterSteps, HeadRange, TailRange, Span
<1>3. CASE /\ steps # <<>> /\ stream' = Transfer!Opened(Head(steps)) /\ steps' = Tail(steps)
           /\ IF Head(steps).new THEN out' = <<>> /\ wanted' = Transfer!Places(Head(steps))
              ELSE wanted' = wanted \cup Transfer!Places(Head(steps)) /\ UNCHANGED out
           /\ UNCHANGED at
  <2>1. /\ job = "poster" /\ wanted = DOMAIN out /\ \A p \in DOMAIN out : out[p] = p
        /\ wanted \subseteq 0 .. size - 1 /\ wanted # {} /\ RemoteMax \in Nat
    <3>1. Remaining = {}
      BY <1>1 DEF Remaining, TransferInv, TransferTypes
    <3> QED
      BY <1>1, <1>3, <3>1, TransferAssumption DEF TransferInv, TransferPoster, TransferStream, Sending
  <2>2. \/ \E n \in Span : steps = <<TailRange(n)>> /\ wanted = 0 .. n - 1 /\ fetched + n <= RemoteMax
        \/ \E n \in Span : steps = <<HeadRange(n), TailRange(n)>> /\ fetched + 2 * n <= RemoteMax
    BY <1>1, <1>3, <2>1 DEF TransferInv, TransferPoster, PosterSteps, Sending
  \* What follows from the range that is opened, and what is wanted then.
  <2>3. ASSUME NEW range, range.start \in Nat, range.length \in Nat, range.length > 0,
               range.start + range.length <= size, stream' = Transfer!Opened(range),
               wanted' = DOMAIN out' \cup range.start .. range.start + range.length - 1,
               \A p \in DOMAIN out' : out'[p] = p, wanted' \subseteq 0 .. size - 1,
               stream'.remain = range.length => PosterSteps',
               \E p \in 0 .. size - 1 : p \notin wanted'
        PROVE  TransferInv'
    <3>1. /\ stream' \in [next : 0 .. size, place : 0 .. size, skip : 0 .. Align, remain : 0 .. size]
          /\ stream'.place = range.start /\ stream'.remain = range.length
          /\ stream'.next + stream'.skip = stream'.place
      BY <1>1, <2>3, OpenedFacts
    <3>2. TransferTypes'
      BY <1>1, <1>3, <3>1 DEF TransferInv, TransferTypes
    <3>3. TransferStream'
      <4>1. range.start \in wanted'
        BY <2>3
      <4> QED
        BY <1>1, <1>3, <2>3, <3>1, <4>1 DEF TransferStream, Sending, Remaining
    <3>4. TransferPoster'
      BY <1>1, <1>3, <2>1, <2>3, <3>1 DEF TransferPoster, Sending
    <3> QED
      BY <3>2, <3>3, <3>4 DEF TransferInv
  <2>4. ASSUME NEW n \in Span, steps = <<TailRange(n)>>, wanted = 0 .. n - 1, fetched + n <= RemoteMax
        PROVE  TransferInv'
    <3> DEFINE range == TailRange(n)
    <3>1. range.start = size - n /\ range.length = n /\ ~range.new
      BY DEF TailRange
    <3>2. n \in Nat /\ 0 < n /\ 2 * n < size
      BY <2>4 DEF Span
    <3>3. Head(steps) = range /\ Tail(steps) = <<>>
      BY <2>4
    <3> HIDE DEF range
    <3>4. stream' = Transfer!Opened(range) /\ steps' = <<>> /\ out' = out
      BY <1>3, <3>1, <3>3
    <3>5. wanted' = wanted \cup (size - n .. (size - n) + n - 1)
      BY <1>3, <3>1, <3>3 DEF Transfer!Places
    <3>6. n \in 0 .. size - 1 /\ n \notin wanted' /\ wanted' \subseteq 0 .. size - 1
      BY <1>1, <2>1, <2>4, <3>2, <3>5
    <3>7. stream'.remain = range.length => PosterSteps'
      BY <1>1, <2>4, <3>1, <3>4 DEF PosterSteps
    <3>8. /\ range.start \in Nat /\ range.length \in Nat /\ range.length > 0
          /\ range.start + range.length <= size
      BY <1>1, <3>1, <3>2
    <3>9. wanted' = DOMAIN out' \cup range.start .. range.start + range.length - 1
      BY <2>1, <3>1, <3>4, <3>5
    <3> QED
      BY <2>1, <2>3, <3>4, <3>6, <3>7, <3>8, <3>9
  <2>5. ASSUME NEW n \in Span, steps = <<HeadRange(n), TailRange(n)>>, fetched + 2 * n <= RemoteMax
        PROVE  TransferInv'
    <3> DEFINE range == HeadRange(n)
    <3>1. range.start = 0 /\ range.length = n /\ range.new
      BY DEF HeadRange
    <3>2. n \in Nat /\ 0 < n /\ 2 * n < size
      BY <2>5 DEF Span
    <3>3. Head(steps) = range /\ Tail(steps) = <<TailRange(n)>>
      BY <2>5
    <3> HIDE DEF range
    <3>4. stream' = Transfer!Opened(range) /\ steps' = <<TailRange(n)>> /\ out' = <<>>
      BY <1>3, <3>1, <3>3
    <3>5. wanted' = 0 .. 0 + n - 1
      BY <1>3, <3>1, <3>3 DEF Transfer!Places
    <3>6. n \in 0 .. size - 1 /\ n \notin wanted' /\ wanted' \subseteq 0 .. size - 1
      BY <1>1, <3>2, <3>5
    <3>7. stream'.remain = range.length => PosterSteps'
      <4>1. wanted' = 0 .. n - 1 /\ fetched' + n + n <= RemoteMax
        BY <1>1, <2>1, <2>5, <3>2, <3>5
      <4> QED
        BY <1>1, <3>1, <3>2, <3>4, <4>1 DEF PosterSteps, TailRange, Span
    <3>8. /\ range.start \in Nat /\ range.length \in Nat /\ range.length > 0
          /\ range.start + range.length <= size
      BY <1>1, <3>1, <3>2
    <3>9. DOMAIN out' = {} /\ wanted' = DOMAIN out' \cup range.start .. range.start + range.length - 1
      BY <3>1, <3>4, <3>5
    <3> QED
      BY <2>3, <3>4, <3>6, <3>7, <3>8, <3>9
  <2> QED
    BY <2>2, <2>4, <2>5
<1> QED
  BY <1>2, <1>3 DEF Transfer!NextRange

LEMMA TransferStepInv == TransferInv /\ [WebNext]_webVars => TransferInv'
<1> SUFFICES ASSUME TransferInv, [WebNext]_webVars PROVE TransferInv'
  OBVIOUS
<1>1. Transfer!TransferNext \/ UNCHANGED transferAll
  BY DEF WebNext, webVars
<1>2. CASE UNCHANGED transferAll
  BY <1>2 DEF transferAll, TransferInv, TransferTypes, TransferStream, TransferPoster, Sending, Remaining,
     PosterSteps, HeadRange, TailRange, Span
<1> QED
  BY <1>1, <1>2, PlayerAsksInv, ResumeInv, ExtractPosterInv, WriteInv, NextRangeInv DEF Transfer!TransferNext

LEMMA TransferRight == TransferInv => TransfersAreRight /\ Transfer!TypeOK
<1> SUFFICES ASSUME TransferInv PROVE TransfersAreRight /\ Transfer!TypeOK
  OBVIOUS
<1>1. Transfer!TransferIsExact
  <2>1. stream.remain = 0 => Remaining = {}
    BY DEF Remaining, TransferInv, TransferTypes
  <2> QED
    BY <2>1 DEF TransferInv, TransferStream, Sending, Transfer!TransferIsExact
<1>2. Transfer!PosterIsCheap
  <2> SUFFICES ASSUME job = "poster"
               PROVE  Transfer!Cardinality(DOMAIN out) < size /\ fetched <= RemoteMax
    BY DEF Transfer!PosterIsCheap
  <2>1. \A S : Transfer!Cardinality(S) = Cardinality(S)
    BY DEF Transfer!Cardinality, Cardinality
  <2>2. size \in Nat /\ size > 0 /\ fetched \in Nat /\ stream.remain \in Nat /\ RemoteMax \in Nat
    BY TransferAssumption DEF TransferInv, TransferTypes
  <2>3. CASE ~Sending
    <3>1. DOMAIN out = {} /\ fetched = 0
      BY <2>3 DEF TransferInv, TransferPoster, TransferStream
    <3> QED
      BY <2>1, <2>2, <3>1, FS_EmptySet
  <2>4. CASE Sending
    <3>1. PICK p \in 0 .. size - 1 : p \notin wanted
      BY <2>4 DEF TransferInv, TransferPoster
    <3>2. DOMAIN out \subseteq 0 .. size - 1 /\ p \notin DOMAIN out
      BY <3>1 DEF TransferInv, TransferStream
    <3>3. Cardinality(DOMAIN out) < size
      <4>1. IsFiniteSet(0 .. size - 1) /\ Cardinality(0 .. size - 1) = size
        BY <2>2, FS_Interval
      <4>2. /\ Cardinality(DOMAIN out) <= Cardinality(0 .. size - 1) /\ IsFiniteSet(DOMAIN out)
            /\ Cardinality(0 .. size - 1) = Cardinality(DOMAIN out) => 0 .. size - 1 = DOMAIN out
        BY <3>2, <4>1, FS_Subset
      <4>3. Cardinality(DOMAIN out) \in Nat
        BY <4>2, FS_CardinalityType
      <4> QED
        BY <2>2, <3>1, <3>2, <4>1, <4>2, <4>3
    <3>4. fetched <= RemoteMax
      BY <2>2, <2>4 DEF TransferInv, TransferPoster, PosterSteps, Span
    <3> QED
      BY <2>1, <3>3, <3>4
  <2> QED
    BY <2>3, <2>4
<1> QED
  BY <1>1, <1>2 DEF TransfersAreRight, TransferInv, TransferTypes, Transfer!TypeOK

\* What a player, a .tmp or a poster gets of a file is what was asked for, in whatever
\* pieces it arrives; a poster reads but a part of the file, within its budget
\* (app/web/handlers.go, poster.go, download.go).
THEOREM TransfersInvariant == WebSpec => []TransfersAreRight
<1>1. WebInit => TransferInv
  BY TransferInitInv
<1>2. TransferInv /\ [WebNext]_webVars => TransferInv'
  BY TransferStepInv
<1>3. TransferInv => TransfersAreRight
  BY TransferRight
<1> QED
  BY <1>1, <1>2, <1>3, PTL DEF WebSpec

-----------------------------------------------------------------------------
(* ItemFile: the files of an item, and who holds them. *)

FileThreads == Downloads \cup Promoters
FilePlaces ==
    {"idle", "check", "progress", "open", "truncate", "write", "promote", "rename", "mark", "end"}
Fetching == {"check", "progress", "open", "truncate", "write"}
Results == {"none", "paused", "queued", "error", "completed"}
ItemStatuses == {"queued", "caching", "paused", "completed", "error"}

\* A file that was written from its beginning, without a hole.
SolidFiles == {[len |-> n, good |-> 0 .. n - 1] : n \in 0 .. FileUnits}
FileNames == DOMAIN disk \cup {0}
ThreadRecords == [at : FilePlaces, fd : Nat, off : 0 .. FileUnits, res : Results]
PlayerRecords == [at : {"idle", "read"}, fd : Nat, pos : Nat, end : Nat]

PlayersHold ==
    /\ players \in [Players -> PlayerRecords]
    /\ \A p \in Players : players[p].at = "read" => players[p].fd \in DOMAIN disk

FileTypes ==
    /\ Cardinality(DOMAIN disk) \in Nat /\ DOMAIN disk = 1 .. Cardinality(DOMAIN disk)
    /\ disk \in [DOMAIN disk -> SolidFiles]
    /\ itemTmp \in FileNames /\ target \in FileNames
    /\ threads \in [FileThreads -> ThreadRecords] /\ PlayersHold
    /\ \A t \in FileThreads : threads[t].fd \in FileNames
    /\ status \in ItemStatuses /\ busy \in BOOLEAN

\* Of the goroutine that downloads: what it has read of the .tmp still holds, because
\* it alone writes there, and a .tmp that is not complete is not renamed.
Fetches(x) ==
    /\ x.at = "open" /\ x.off < FileUnits => Files!Length(itemTmp) = x.off
    /\ x.at = "truncate" \/ (x.at = "write" /\ x.off < FileUnits) =>
          /\ x.off < FileUnits /\ x.fd = itemTmp /\ itemTmp # 0
          /\ disk[itemTmp].len = x.off

\* Who is about to rename has a complete file, which is the .tmp and there is no target,
\* or has become the target; who is about to mark the item has found the target there.
Promotes(x) ==
    /\ x.at = "rename" =>
          /\ x.fd # 0 /\ disk[x.fd].len = FileUnits
          /\ (x.fd = itemTmp /\ target = 0) \/ x.fd = target
    /\ x.at = "mark" => target # 0
    /\ x.at = "end" => x.res # "none"

FileHolds ==
    /\ \A t \in FileThreads : Fetches(threads[t]) /\ Promotes(threads[t])
    /\ \A t \in FileThreads : threads[t].at \in Fetching => t \in Downloads
    /\ \A t, u \in Downloads : threads[t].at \in Fetching /\ threads[u].at \in Fetching => t = u

FileTarget ==
    /\ target # 0 => disk[target].len = FileUnits /\ target # itemTmp
    /\ status = "completed" => target # 0
    /\ ~garbage

\* Nothing is said of the files once two downloads ran at once, or a .tmp was renamed
\* that nobody found complete: but of the types.
FileInv == FileTypes /\ (Files!Alone => FileHolds /\ FileTarget)

LEMMA SolidFacts ==
    /\ \A f \in SolidFiles : f.len \in 0 .. FileUnits /\ f.good = 0 .. f.len - 1
    /\ \A n \in 0 .. FileUnits : [len |-> n, good |-> 0 .. n - 1] \in SolidFiles
    /\ FileUnits \in Nat /\ FileUnits > 0
BY FileAssumption DEF SolidFiles

LEMMA FileInitInv == WebInit => FileInv
<1> SUFFICES ASSUME WebInit PROVE FileInv
  OBVIOUS
<1>1. Files!FileInit
  BY DEF WebInit
<1>2. DOMAIN disk = {} /\ Cardinality(DOMAIN disk) = 0 /\ 1 .. 0 = {}
  BY <1>1, FS_EmptySet DEF Files!FileInit
<1>3. /\ threads \in [FileThreads -> ThreadRecords]
      /\ \A t \in FileThreads : threads[t].at = "idle" /\ threads[t].fd = 0
  BY <1>1, SolidFacts DEF Files!FileInit, Files!IdleThread, Files!Threads, FileThreads, ThreadRecords, FilePlaces, Results
<1>4. players \in [Players -> PlayerRecords] /\ \A p \in Players : players[p].at = "idle"
  BY <1>1 DEF Files!FileInit, Files!IdlePlayer, PlayerRecords
<1>5. disk \in [DOMAIN disk -> SolidFiles]
  BY <1>1 DEF Files!FileInit
<1>6. /\ itemTmp = 0 /\ target = 0 /\ status = "queued" /\ ~garbage
      /\ busy \in BOOLEAN
  BY <1>1 DEF Files!FileInit
<1>7. FileTypes
  BY <1>2, <1>3, <1>4, <1>5, <1>6 DEF FileTypes, PlayersHold, FileNames, ItemStatuses
<1>8. FileHolds
  BY <1>3 DEF FileHolds, Fetches, Promotes, Fetching, FileThreads
<1>9. FileTarget
  BY <1>6 DEF FileTarget
<1> QED
  BY <1>7, <1>8, <1>9 DEF FileInv

\* Where a goroutine may go with the files as they are.
GoesTo(t, x) ==
    /\ x \in ThreadRecords /\ x.fd \in FileNames /\ Fetches(x) /\ Promotes(x)
    /\ x.at \in Fetching =>
          /\ t \in Downloads
          /\ Files!Alone' => \A u \in Downloads : threads[u].at \in Fetching => u = t

FilesStay == UNCHANGED <<disk, itemTmp, target>> /\ UNCHANGED garbage

LEMMA PlayersStay ==
    ASSUME FileInv, FilesStay, UNCHANGED players \/ \E p \in Players :
                                  players' = [players EXCEPT ![p] = Files!IdlePlayer]
    PROVE  PlayersHold'
<1>1. PlayersHold
  BY DEF FileInv, FileTypes
<1>2. CASE UNCHANGED players
  BY <1>1, <1>2 DEF PlayersHold, FilesStay
<1>3. ASSUME NEW p \in Players, players' = [players EXCEPT ![p] = Files!IdlePlayer]
      PROVE  PlayersHold'
  <2>1. Files!IdlePlayer \in PlayerRecords /\ Files!IdlePlayer.at = "idle"
    BY DEF Files!IdlePlayer, PlayerRecords
  <2> QED
    BY <1>1, <1>3, <2>1 DEF PlayersHold, FilesStay
<1> QED
  BY <1>2, <1>3

LEMMA ThreadMoves ==
    ASSUME FileInv, Files!Alone, FilesStay, NEW t \in FileThreads, NEW x,
           UNCHANGED players \/ \E p \in Players : players' = [players EXCEPT ![p] = Files!IdlePlayer],
           threads' = [threads EXCEPT ![t] = x], GoesTo(t, x),
           status' \in ItemStatuses, status' = "completed" => target # 0, busy' \in BOOLEAN
    PROVE  FileInv'
<1>1. FileTypes /\ FileHolds /\ FileTarget
  BY DEF FileInv
<1>2. threads' \in [FileThreads -> ThreadRecords]
  BY <1>1 DEF FileTypes, GoesTo
<1>3. \A u \in FileThreads : threads'[u] = IF u = t THEN x ELSE threads[u]
  BY <1>1 DEF FileTypes
<1>4. FileTypes'
  BY <1>1, <1>2, <1>3, PlayersStay DEF FileTypes, GoesTo, FilesStay, FileNames
<1>5. ASSUME Files!Alone' PROVE FileHolds'
  <2>1. ASSUME NEW u \in FileThreads PROVE Fetches(threads[u])' /\ Promotes(threads[u])'
    BY <1>1, <1>3 DEF FileHolds, GoesTo, Fetches, Promotes, Files!Length, FilesStay
  <2>2. ASSUME NEW u \in FileThreads, threads'[u].at \in Fetching PROVE u \in Downloads
    BY <1>1, <1>3, <2>2 DEF FileHolds, GoesTo
  <2>3. ASSUME NEW u \in Downloads, NEW v \in Downloads, threads'[u].at \in Fetching, threads'[v].at \in Fetching
        PROVE  u = v
    BY <1>1, <1>3, <1>5, <2>3 DEF FileHolds, GoesTo, FileThreads
  <2> QED
    BY <2>1, <2>2, <2>3 DEF FileHolds
<1>6. FileTarget'
  BY <1>1 DEF FileTarget, FilesStay
<1> QED
  BY <1>4, <1>5, <1>6 DEF FileInv

LEMMA ThreadsStay ==
    ASSUME FileInv, UNCHANGED <<disk, itemTmp, target, threads>>, Files!Alone, ~garbage', PlayersHold',
           status' \in ItemStatuses, status' = "completed" => target # 0, busy' \in BOOLEAN
    PROVE  FileInv'
<1>1. FileTypes /\ FileHolds /\ FileTarget
  BY DEF FileInv
<1>2. FileTypes'
  BY <1>1 DEF FileTypes, FileNames
<1>3. FileHolds'
  BY <1>1 DEF FileHolds, Fetches, Promotes, Files!Length
<1>4. FileTarget'
  BY <1>1 DEF FileTarget
<1> QED
  BY <1>2, <1>3, <1>4 DEF FileInv

LEMMA ThreadFacts ==
    ASSUME FileInv, Files!Alone, NEW t \in FileThreads
    PROVE  /\ threads[t] \in ThreadRecords /\ threads[t].fd \in FileNames
           /\ threads[t].off \in 0 .. FileUnits /\ threads[t].at \in FilePlaces
           /\ Fetches(threads[t]) /\ Promotes(threads[t])
           /\ threads[t].at \in Fetching =>
                 /\ t \in Downloads
                 /\ \A u \in Downloads : threads[u].at \in Fetching => u = t
           /\ status \in ItemStatuses /\ busy \in BOOLEAN /\ (status = "completed" => target # 0)
BY DEF FileInv, FileTypes, FileHolds, FileTarget, ThreadRecords

\* The target is there exactly when it has a file, which is complete; a .tmp is complete
\* when it has the size.
LEMMA TargetFacts ==
    ASSUME FileInv, Files!Alone
    PROVE  /\ Files!TargetExists <=> target # 0
           /\ itemTmp # 0 => itemTmp \in DOMAIN disk /\ disk[itemTmp] \in SolidFiles
           /\ Files!TmpComplete <=> itemTmp # 0 /\ disk[itemTmp].len = FileUnits
           /\ Files!TmpProgress = Files!Length(itemTmp) /\ Files!Length(itemTmp) \in 0 .. FileUnits
<1>1. FileTypes /\ FileTarget
  BY DEF FileInv
<1>2. Files!TargetExists <=> target # 0
  BY <1>1 DEF FileTarget, Files!TargetExists, Files!Length
<1>3. itemTmp # 0 => itemTmp \in DOMAIN disk /\ disk[itemTmp] \in SolidFiles
  BY <1>1 DEF FileTypes, FileNames
<1>4. itemTmp # 0 => disk[itemTmp].len \in 0 .. FileUnits
  BY <1>3, SolidFacts
<1>5. Files!TmpComplete <=> itemTmp # 0 /\ disk[itemTmp].len = FileUnits
  BY <1>4, SolidFacts DEF Files!TmpComplete, Files!Length
<1>6. Files!Length(itemTmp) \in 0 .. FileUnits
  BY <1>4, SolidFacts DEF Files!Length
<1>7. Files!TmpProgress = Files!Length(itemTmp)
  BY <1>6, SolidFacts DEF Files!TmpProgress, Files!Smaller
<1> QED
  BY <1>2, <1>3, <1>5, <1>6, <1>7

\* A goroutine that ends, or does what asks nothing of the files.
LEMMA PlainGoes ==
    ASSUME FileInv, Files!Alone, NEW t \in FileThreads, NEW x \in ThreadRecords, x.fd = 0,
           x.at \in {"idle", "promote", "mark", "end"},
           x.at = "mark" => target # 0, x.at = "end" => x.res # "none"
    PROVE  GoesTo(t, x)
BY DEF GoesTo, Fetches, Promotes, Fetching, FileNames

LEMMA IdleGoes ==
    /\ Files!IdleThread \in ThreadRecords /\ Files!IdleThread.at = "idle" /\ Files!IdleThread.fd = 0
    /\ \A place \in FilePlaces : LET x == [Files!IdleThread EXCEPT !.at = place] IN
          x \in ThreadRecords /\ x.at = place /\ x.fd = 0
    /\ \A res \in Results : LET x == [Files!IdleThread EXCEPT !.at = "end", !.res = res] IN
          x \in ThreadRecords /\ x.at = "end" /\ x.fd = 0 /\ x.res = res
<1> DEFINE y == [at |-> "idle", fd |-> 0, off |-> 0, res |-> "none"]
<1>1. y \in ThreadRecords /\ y.at = "idle" /\ y.fd = 0
  BY SolidFacts DEF ThreadRecords, FilePlaces, Results
<1> HIDE DEF y
<1>2. \A place \in FilePlaces : LET x == [y EXCEPT !.at = place] IN
          x \in ThreadRecords /\ x.at = place /\ x.fd = 0
  BY <1>1 DEF ThreadRecords
<1>3. \A res \in Results : LET x == [y EXCEPT !.at = "end", !.res = res] IN
          x \in ThreadRecords /\ x.at = "end" /\ x.fd = 0 /\ x.res = res
  BY <1>1 DEF ThreadRecords, FilePlaces
<1>4. Files!IdleThread = y
  BY DEF Files!IdleThread, y
<1> QED
  BY <1>1, <1>2, <1>3, <1>4

\* ... or keeps what it holds.
LEMMA GotoGoes ==
    ASSUME FileInv, Files!Alone, NEW t \in FileThreads, NEW place \in {"promote", "mark"},
           place = "mark" => target # 0, NEW x, x = [threads[t] EXCEPT !.at = place]
    PROVE  GoesTo(t, x)
<1>1. x \in ThreadRecords /\ x.at = place /\ x.fd \in FileNames
  BY ThreadFacts DEF ThreadRecords, FilePlaces
<1> QED
  BY <1>1 DEF GoesTo, Fetches, Promotes, Fetching

LEMMA ExitGoes ==
    ASSUME FileInv, Files!Alone, NEW t \in FileThreads, NEW res \in Results \ {"none"}, Files!Exits(t, res)
    PROVE  \E x : threads' = [threads EXCEPT ![t] = x] /\ GoesTo(t, x)
<1>1. CASE t \in Downloads
  <2> DEFINE x == [Files!IdleThread EXCEPT !.at = "end", !.res = res]
  <2>1. x \in ThreadRecords /\ x.at = "end" /\ x.fd = 0 /\ x.res # "none"
    BY IdleGoes
  <2>2. threads' = [threads EXCEPT ![t] = x]
    BY <1>1 DEF Files!Exits
  <2> HIDE DEF x
  <2> QED
    BY <2>1, <2>2, PlainGoes
<1>2. CASE t \notin Downloads
  <2>1. GoesTo(t, Files!IdleThread)
    BY IdleGoes, PlainGoes
  <2> QED
    BY <1>2, <2>1 DEF Files!Exits
<1> QED
  BY <1>1, <1>2

\* Steps of a goroutine that leave the files as they are.
LEMMA StartDownloadFiles ==
    ASSUME FileInv, Files!Alone, NEW t \in FileThreads, t \in Downloads, Files!StartDownload(t)
    PROVE  FileInv'
<1> DEFINE x == [threads[t] EXCEPT !.at = "check"]
<1>1. Files!Alone' => \A u \in Downloads : threads[u].at \in Fetching => u = t
  BY DEF Files!StartDownload, Files!Alone, Fetching
<1>2. x \in ThreadRecords /\ x.at = "check" /\ x.fd \in FileNames
  BY ThreadFacts DEF ThreadRecords, FilePlaces
<1>3. GoesTo(t, x)
  BY <1>1, <1>2 DEF GoesTo, Fetches, Promotes
<1>4. threads' = [threads EXCEPT ![t] = x]
  BY DEF Files!StartDownload, Files!Goto
<1>5. FilesStay /\ UNCHANGED players /\ status' = "caching" /\ busy' = TRUE
  BY DEF Files!StartDownload, Files!UnchangedRest, FilesStay
<1>6. status' \in ItemStatuses /\ (status' = "completed" => target # 0) /\ busy' \in BOOLEAN
  BY <1>5 DEF ItemStatuses
<1> HIDE DEF x
<1> QED
  BY <1>3, <1>4, <1>5, <1>6, ThreadMoves

LEMMA CheckTargetFiles ==
    ASSUME FileInv, Files!Alone, NEW t \in FileThreads, Files!CheckTarget(t)
    PROVE  FileInv'
<1> DEFINE x == [threads[t] EXCEPT !.at = IF Files!TargetExists THEN "mark" ELSE "progress"]
<1>1. x \in ThreadRecords /\ x.fd \in FileNames
  BY ThreadFacts DEF ThreadRecords, FilePlaces
<1>2. x.at = "mark" => target # 0
  BY TargetFacts, ThreadFacts DEF ThreadRecords
<1>3. x.at \in {"mark", "progress"}
  BY ThreadFacts DEF ThreadRecords
<1>4. threads[t].at \in Fetching
  BY DEF Files!CheckTarget, Fetching
<1>5. GoesTo(t, x)
  BY <1>1, <1>2, <1>3, <1>4, ThreadFacts DEF GoesTo, Fetches, Promotes
<1>6. threads' = [threads EXCEPT ![t] = x]
  BY DEF Files!CheckTarget, Files!Goto
<1>7. FilesStay /\ UNCHANGED <<players, status, busy>>
  BY DEF Files!CheckTarget, Files!UnchangedRest, FilesStay
<1> QED
  BY <1>5, <1>6, <1>7, ThreadMoves, ThreadFacts

LEMMA StartOffsetFiles ==
    ASSUME FileInv, Files!Alone, NEW t \in FileThreads, Files!StartOffset(t)
    PROVE  FileInv'
<1> DEFINE x == [threads[t] EXCEPT !.at = "open", !.off = Files!TmpProgress]
<1>1. Files!TmpProgress = Files!Length(itemTmp) /\ Files!Length(itemTmp) \in 0 .. FileUnits
  BY TargetFacts
<1>2. x \in ThreadRecords /\ x.fd \in FileNames /\ x.at = "open" /\ x.off = Files!Length(itemTmp)
  BY <1>1, ThreadFacts DEF ThreadRecords, FilePlaces
<1>3. threads[t].at \in Fetching
  BY DEF Files!StartOffset, Fetching
<1>4. GoesTo(t, x)
  BY <1>2, <1>3, ThreadFacts DEF GoesTo, Fetches, Promotes
<1>5. threads' = [threads EXCEPT ![t] = x]
  BY DEF Files!StartOffset
<1>6. FilesStay /\ UNCHANGED <<players, status, busy>>
  BY DEF Files!StartOffset, Files!UnchangedRest, FilesStay
<1> QED
  BY <1>4, <1>5, <1>6, ThreadMoves, ThreadFacts

LEMMA CloseTmpFiles ==
    ASSUME FileInv, Files!Alone, NEW t \in FileThreads, Files!CloseTmp(t)
    PROVE  FileInv'
<1> DEFINE x == [Files!IdleThread EXCEPT !.at = "promote"]
<1>1. GoesTo(t, x)
  BY IdleGoes, PlainGoes DEF FilePlaces
<1>2. threads' = [threads EXCEPT ![t] = x]
  BY DEF Files!CloseTmp
<1>3. FilesStay /\ UNCHANGED <<players, status, busy>>
  BY DEF Files!CloseTmp, Files!UnchangedRest, FilesStay
<1> QED
  BY <1>1, <1>2, <1>3, ThreadMoves, ThreadFacts

LEMMA DownloadStopsFiles ==
    ASSUME FileInv, Files!Alone, NEW t \in FileThreads, Files!DownloadStops(t)
    PROVE  FileInv'
<1>1. PICK res \in {"paused", "queued", "error"} : Files!Exits(t, res)
  BY DEF Files!DownloadStops
<1>2. PICK x : threads' = [threads EXCEPT ![t] = x] /\ GoesTo(t, x)
  BY <1>1, ExitGoes DEF Results
<1>3. FilesStay /\ UNCHANGED <<players, status, busy>>
  BY DEF Files!DownloadStops, Files!UnchangedRest, FilesStay
<1> QED
  BY <1>2, <1>3, ThreadMoves, ThreadFacts

LEMMA PromoteTmpFiles ==
    ASSUME FileInv, Files!Alone, NEW t \in FileThreads, Files!PromoteTmp(t)
    PROVE  FileInv'
<1>1. FilesStay /\ UNCHANGED <<players, status, busy>>
  BY DEF Files!PromoteTmp, Files!UnchangedRest, FilesStay
<1>2. CASE Files!TargetExists
  <2> DEFINE x == [threads[t] EXCEPT !.at = "mark"]
  <2>1. GoesTo(t, x)
    BY <1>2, TargetFacts, GotoGoes
  <2>2. threads' = [threads EXCEPT ![t] = x]
    BY <1>2 DEF Files!PromoteTmp, Files!Goto
  <2> QED
    BY <1>1, <2>1, <2>2, ThreadMoves, ThreadFacts
<1>3. CASE ~Files!TargetExists /\ Files!TmpComplete
  <2> DEFINE x == [threads[t] EXCEPT !.at = "rename", !.fd = itemTmp]
  <2>1. itemTmp # 0 /\ disk[itemTmp].len = FileUnits /\ target = 0 /\ itemTmp \in Nat /\ itemTmp \in FileNames
    BY <1>3, TargetFacts DEF FileInv, FileTypes, FileNames
  <2>2. x \in ThreadRecords /\ x.fd = itemTmp /\ x.at = "rename"
    BY <2>1, ThreadFacts DEF ThreadRecords, FilePlaces
  <2>3. GoesTo(t, x)
    BY <2>1, <2>2 DEF GoesTo, Fetches, Promotes, Fetching
  <2>4. threads' = [threads EXCEPT ![t] = x]
    BY <1>3 DEF Files!PromoteTmp
  <2> QED
    BY <1>1, <2>3, <2>4, ThreadMoves, ThreadFacts
<1>4. CASE ~Files!TargetExists /\ ~Files!TmpComplete
  <2>1. Files!Exits(t, "paused")
    BY <1>4 DEF Files!PromoteTmp
  <2>2. PICK x : threads' = [threads EXCEPT ![t] = x] /\ GoesTo(t, x)
    BY <2>1, ExitGoes DEF Results
  <2> QED
    BY <1>1, <2>2, ThreadMoves, ThreadFacts
<1> QED
  BY <1>2, <1>3, <1>4

\* Who finds the target goes to mark the item, with nothing held.
LEMMA ToMarkFiles ==
    ASSUME FileInv, Files!Alone, NEW t \in FileThreads, Files!TargetExists,
           threads' = [threads EXCEPT ![t] = [Files!IdleThread EXCEPT !.at = "mark"]],
           FilesStay, UNCHANGED <<players, status, busy>>
    PROVE  FileInv'
<1> DEFINE x == [Files!IdleThread EXCEPT !.at = "mark"]
<1>1. GoesTo(t, x)
  BY IdleGoes, TargetFacts, PlainGoes DEF FilePlaces
<1>2. threads' = [threads EXCEPT ![t] = x]
  OBVIOUS
<1> QED
  BY <1>1, <1>2, ThreadMoves, ThreadFacts

LEMMA RenameBusyFiles ==
    ASSUME FileInv, Files!Alone, NEW t \in FileThreads, Files!RenameBusy(t)
    PROVE  FileInv'
<1>1. FilesStay /\ UNCHANGED <<players, status, busy>>
  BY DEF Files!RenameBusy, FilesStay
<1>2. CASE Files!TargetExists
  BY <1>1, <1>2, ToMarkFiles DEF Files!RenameBusy
<1>3. CASE ~Files!TargetExists
  <2>1. PICK res \in Results \ {"none"} : Files!Exits(t, res)
    BY <1>3 DEF Files!RenameBusy, Results
  <2>2. PICK x : threads' = [threads EXCEPT ![t] = x] /\ GoesTo(t, x)
    BY <2>1, ExitGoes
  <2> QED
    BY <1>1, <2>2, ThreadMoves, ThreadFacts
<1> QED
  BY <1>2, <1>3

LEMMA MarkCompletedFiles ==
    ASSUME FileInv, Files!Alone, NEW t \in FileThreads, Files!MarkCompleted(t)
    PROVE  FileInv'
<1>1. target # 0
  BY ThreadFacts DEF Files!MarkCompleted, Promotes
<1>2. PICK x : threads' = [threads EXCEPT ![t] = x] /\ GoesTo(t, x)
  BY ExitGoes DEF Files!MarkCompleted, Results
<1>3. FilesStay /\ UNCHANGED <<players, busy>> /\ status' = "completed"
  BY DEF Files!MarkCompleted, Files!UnchangedRest, FilesStay
<1>4. status' \in ItemStatuses /\ (status' = "completed" => target # 0) /\ busy' \in BOOLEAN
  BY <1>1, <1>3, ThreadFacts DEF ItemStatuses
<1> QED
  BY <1>2, <1>3, <1>4, ThreadMoves

\* What a download ends with is a status the item may have: "none" is of no end.
LEMMA FinishDownloadFiles ==
    ASSUME FileInv, Files!Alone, NEW t \in FileThreads, Files!FinishDownload(t)
    PROVE  FileInv'
<1>1. GoesTo(t, Files!IdleThread)
  BY IdleGoes, PlainGoes
<1>2. /\ threads' = [threads EXCEPT ![t] = Files!IdleThread] /\ threads[t].at = "end"
      /\ status' = IF threads[t].res = "completed" THEN status ELSE threads[t].res
  BY DEF Files!FinishDownload
<1>3. FilesStay /\ UNCHANGED players /\ busy' = FALSE
  BY DEF Files!FinishDownload, Files!UnchangedRest, FilesStay
<1>4. threads[t].res \in Results \ {"none"}
  BY <1>2, ThreadFacts DEF ThreadRecords, Promotes
<1>5. status' \in ItemStatuses /\ (status' = "completed" => target # 0) /\ busy' \in BOOLEAN
  BY <1>2, <1>3, <1>4, ThreadFacts DEF Results, ItemStatuses
<1> QED
  BY <1>1, <1>2, <1>3, <1>5, ThreadMoves

\* Steps of a goroutine that change the files.
LEMMA OpenTmpFiles ==
    ASSUME FileInv, Files!Alone, NEW t \in FileThreads, Files!OpenTmp(t)
    PROVE  FileInv'
<1>1. FileTypes /\ FileHolds /\ FileTarget
  BY DEF FileInv
<1>2. /\ threads[t].at = "open" /\ threads[t].at \in Fetching
      /\ UNCHANGED <<target, status, busy, players, garbage>>
  BY DEF Files!OpenTmp, Files!UnchangedRest, Fetching
<1> DEFINE n == Cardinality(DOMAIN disk)
           new == n + 1
<1>3. n \in Nat /\ DOMAIN disk = 1 .. n /\ Files!Cardinality(DOMAIN disk) = n
  BY <1>1 DEF FileTypes, Files!Cardinality, Cardinality
<1>4. CASE itemTmp # 0
  <2>1. disk' = disk /\ itemTmp' = itemTmp
    BY <1>4 DEF Files!OpenTmp
  <2>2. FilesStay
    BY <1>2, <2>1 DEF FilesStay
  <2>3. CASE threads[t].off >= FileUnits
    <3> DEFINE x == [threads[t] EXCEPT !.at = "promote"]
    <3>1. GoesTo(t, x)
      BY GotoGoes
    <3>2. threads' = [threads EXCEPT ![t] = x]
      BY <2>3 DEF Files!OpenTmp, Files!Goto
    <3> QED
      BY <1>2, <2>2, <3>1, <3>2, ThreadMoves, ThreadFacts
  <2>4. CASE ~(threads[t].off >= FileUnits)
    <3> DEFINE x == [threads[t] EXCEPT !.at = "truncate", !.fd = itemTmp]
    <3>1. itemTmp \in FileNames /\ itemTmp \in Nat
      BY <1>1, <1>3 DEF FileTypes, FileNames
    <3>2. x \in ThreadRecords /\ x.at = "truncate" /\ x.fd = itemTmp /\ x.off = threads[t].off
      BY <3>1, ThreadFacts DEF ThreadRecords, FilePlaces
    <3>3. disk[itemTmp].len = threads[t].off /\ threads[t].off < FileUnits
      BY <1>2, <1>4, <2>4, ThreadFacts, SolidFacts DEF Fetches, Files!Length
    <3>4. GoesTo(t, x)
      BY <1>2, <1>4, <3>1, <3>2, <3>3, ThreadFacts DEF GoesTo, Fetches, Promotes
    <3>5. threads' = [threads EXCEPT ![t] = x]
      BY <1>4, <2>4 DEF Files!OpenTmp
    <3> QED
      BY <1>2, <2>2, <3>4, <3>5, ThreadMoves, ThreadFacts
  <2> QED
    BY <2>3, <2>4
<1>5. CASE itemTmp = 0
  <2> DEFINE empty == [len |-> 0, good |-> {}]
             f == IF itemTmp = 0 THEN new ELSE itemTmp
  <2>1. empty \in SolidFiles /\ empty.len = 0
    <3>1. 0 .. 0 - 1 = {}
      OBVIOUS
    <3> QED
      BY <3>1, SolidFacts
  <2>2. /\ itemTmp' = new /\ new # 0 /\ new \in Nat
        /\ disk' = [g \in 1 .. new |-> IF g = new THEN empty ELSE disk[g]]
    BY <1>3, <1>5 DEF Files!OpenTmp
  <2> HIDE DEF empty
  <2>3. /\ DOMAIN disk' = 1 .. new /\ disk'[new] = empty
        /\ \A g \in DOMAIN disk : disk'[g] = disk[g] /\ g \in DOMAIN disk'
    BY <1>3, <2>2
  <2>4. Cardinality(DOMAIN disk') = new
    BY <1>3, <2>3, FS_Interval
  <2>5. disk' \in [DOMAIN disk' -> SolidFiles]
    BY <1>1, <1>3, <2>1, <2>2, <2>3 DEF FileTypes
  <2>6. FileNames \subseteq FileNames' /\ new \in FileNames' /\ new \notin FileNames
    BY <1>3, <2>3, <2>2 DEF FileNames
  <2>7. PICK x \in ThreadRecords : /\ threads' = [threads EXCEPT ![t] = x]
                                   /\ \/ x.at = "promote" /\ x.fd = threads[t].fd
                                      \/ x.at = "truncate" /\ x.fd = new /\ x.off = 0
    <3>1. CASE threads[t].off >= FileUnits
      <4> DEFINE x == [threads[t] EXCEPT !.at = "promote"]
      <4>1. x \in ThreadRecords /\ x.at = "promote" /\ x.fd = threads[t].fd
        BY ThreadFacts DEF ThreadRecords, FilePlaces
      <4>2. threads' = [threads EXCEPT ![t] = x]
        BY <3>1 DEF Files!OpenTmp, Files!Goto
      <4> QED
        BY <4>1, <4>2
    <3>2. CASE ~(threads[t].off >= FileUnits)
      <4> DEFINE x == [threads[t] EXCEPT !.at = "truncate", !.fd = new]
      <4>1. threads[t].off = 0
        BY <1>2, <1>5, <3>2, ThreadFacts, SolidFacts DEF Fetches, Files!Length
      <4>2. x \in ThreadRecords /\ x.at = "truncate" /\ x.fd = new /\ x.off = 0
        BY <2>2, <4>1, ThreadFacts DEF ThreadRecords, FilePlaces
      <4>3. threads' = [threads EXCEPT ![t] = x]
        BY <1>3, <1>5, <3>2 DEF Files!OpenTmp
      <4> QED
        BY <4>2, <4>3
    <3> QED
      BY <3>1, <3>2
  <2>8. \A u \in FileThreads : threads'[u] = IF u = t THEN x ELSE threads[u]
    BY <1>1, <2>7 DEF FileTypes
  <2>9. FileTypes'
    <3>1. threads' \in [FileThreads -> ThreadRecords]
      BY <1>1, <2>7 DEF FileTypes
    <3>2. \A u \in FileThreads : threads'[u].fd \in FileNames'
      BY <1>1, <2>6, <2>7, <2>8 DEF FileTypes
    <3>3. PlayersHold'
      BY <1>1, <1>2, <2>3 DEF FileTypes, PlayersHold
    <3>4. itemTmp' \in FileNames' /\ target' \in FileNames'
      BY <1>1, <1>2, <2>2, <2>6 DEF FileTypes
    <3>5. Cardinality(DOMAIN disk') \in Nat /\ DOMAIN disk' = 1 .. Cardinality(DOMAIN disk')
      BY <2>2, <2>3, <2>4
    <3> QED
      BY <1>1, <1>2, <2>5, <3>1, <3>2, <3>3, <3>4, <3>5 DEF FileTypes
  <2>10. ASSUME NEW u \in FileThreads PROVE Promotes(threads[u])'
    <3>1. CASE u = t
      BY <2>7, <2>8, <3>1 DEF Promotes
    <3>2. CASE u # t
      <4>1. threads'[u] = threads[u] /\ Promotes(threads[u]) /\ threads[u].fd \in FileNames
        BY <1>1, <2>8, <3>2 DEF FileTypes, FileHolds
      <4> QED
        BY <1>2, <1>5, <2>3, <4>1 DEF Promotes, FileNames
    <3> QED
      BY <3>1, <3>2
  <2>11. ASSUME NEW u \in FileThreads, u # t PROVE threads'[u].at \notin Fetching
    BY <1>1, <1>2, <2>8, <2>11, ThreadFacts DEF FileHolds
  <2>12. t \in Downloads
    BY <1>2, ThreadFacts
  <2>13. Fetches(threads[t])'
    BY <2>1, <2>2, <2>3, <2>7, <2>8, SolidFacts DEF Fetches
  <2>14. ASSUME NEW u \in FileThreads PROVE Fetches(threads[u])'
    BY <2>11, <2>13 DEF Fetches, Fetching
  <2>15. FileHolds'
    BY <2>10, <2>11, <2>12, <2>14 DEF FileHolds, FileThreads
  <2>16. FileTarget'
    BY <1>1, <1>2, <2>2, <2>3, <2>6 DEF FileTarget, FileTypes, FileNames
  <2> QED
    BY <2>9, <2>15, <2>16 DEF FileInv
<1> QED
  BY <1>4, <1>5

\* A download writes to its .tmp: which is not complete, so nobody is to rename it.
LEMMA TmpChanges ==
    ASSUME FileInv, Files!Alone, NEW t \in FileThreads, threads[t].at \in {"truncate", "write"},
           threads[t].off < FileUnits, NEW g \in SolidFiles, disk' = [disk EXCEPT ![threads[t].fd] = g],
           NEW x \in ThreadRecords, x.at = "write", x.off = g.len, x.fd = threads[t].fd,
           threads' = [threads EXCEPT ![t] = x],
           UNCHANGED <<itemTmp, target, status, busy, players, garbage>>
    PROVE  FileInv' /\ (target # 0 => disk'[target] = disk[target])
<1>1. FileTypes /\ FileHolds /\ FileTarget
  BY DEF FileInv
<1>2. /\ threads[t].at \in Fetching /\ t \in Downloads
      /\ \A u \in Downloads : threads[u].at \in Fetching => u = t
  BY ThreadFacts DEF Fetching
<1>3. threads[t].fd = itemTmp /\ itemTmp # 0 /\ disk[itemTmp].len = threads[t].off
  BY ThreadFacts DEF Fetches
<1>4. itemTmp \in DOMAIN disk
  BY <1>3, TargetFacts
<1>5. /\ DOMAIN disk' = DOMAIN disk /\ disk'[itemTmp] = g
      /\ \A f \in DOMAIN disk : f # itemTmp => disk'[f] = disk[f]
  BY <1>3, <1>4
<1>6. disk' \in [DOMAIN disk' -> SolidFiles]
  BY <1>1, <1>5 DEF FileTypes
<1>7. threads' \in [FileThreads -> ThreadRecords]
  BY <1>1 DEF FileTypes
<1>8. \A u \in FileThreads : threads'[u] = IF u = t THEN x ELSE threads[u]
  BY <1>1 DEF FileTypes
<1>9. FileTypes'
  <2>1. PlayersHold'
    BY <1>1, <1>5 DEF FileTypes, PlayersHold
  <2> QED
    BY <1>1, <1>5, <1>6, <1>7, <1>8, <2>1 DEF FileTypes, FileNames
<1>10. ASSUME NEW u \in FileThreads PROVE Promotes(threads[u])'
  <2>1. CASE u = t
    BY <1>8, <2>1 DEF Promotes
  <2>2. CASE u # t
    <3>1. threads'[u] = threads[u] /\ Promotes(threads[u]) /\ threads[u].fd \in FileNames
      BY <1>1, <1>8, <2>2 DEF FileTypes, FileHolds
    <3>2. disk[itemTmp].len # FileUnits
      BY <1>3, ThreadFacts, SolidFacts
    <3> QED
      BY <1>5, <3>1, <3>2 DEF Promotes, FileNames
  <2> QED
    BY <2>1, <2>2
<1>11. ASSUME NEW u \in FileThreads, u # t PROVE threads'[u].at \notin Fetching
  BY <1>1, <1>2, <1>8, <1>11 DEF FileHolds
<1>12. ASSUME NEW u \in FileThreads PROVE Fetches(threads[u])'
  <2>1. CASE u = t
    BY <1>3, <1>5, <1>8, <2>1 DEF Fetches
  <2>2. CASE u # t
    BY <1>11, <2>2 DEF Fetches, Fetching
  <2> QED
    BY <2>1, <2>2
<1>13. FileHolds'
  BY <1>2, <1>10, <1>11, <1>12 DEF FileHolds, FileThreads
<1>14. target # 0 => disk'[target] = disk[target]
  BY <1>1, <1>5 DEF FileTarget, FileTypes, FileNames
<1>15. FileTarget'
  BY <1>1, <1>14 DEF FileTarget
<1> QED
  BY <1>9, <1>13, <1>14, <1>15 DEF FileInv

LEMMA TruncateFiles ==
    ASSUME FileInv, Files!Alone, NEW t \in FileThreads, Files!Truncate(t)
    PROVE  FileInv' /\ (target # 0 => disk'[target] = disk[target])
<1> DEFINE off == Files!Resume(threads[t].off)
           g == Files!Truncated(disk[threads[t].fd], off)
           x == [threads[t] EXCEPT !.at = "write", !.off = off]
<1>1. threads[t].at = "truncate" /\ threads[t].at \in Fetching
  BY DEF Files!Truncate, Fetching
<1>2. /\ threads[t].off \in 0 .. FileUnits /\ threads[t].off < FileUnits
      /\ threads[t].fd = itemTmp /\ itemTmp # 0 /\ disk[itemTmp].len = threads[t].off
  BY <1>1, ThreadFacts DEF Fetches
<1>3. off \in 0 .. threads[t].off
  <2>1. ASSUME NEW n \in Nat PROVE n - (n % FileAlign) \in 0 .. n
    <3>1. FileAlign \in Nat /\ FileAlign > 0
      BY FileAssumption
    <3>2. n % FileAlign \in 0 .. FileAlign - 1 /\ n = FileAlign * (n \div FileAlign) + (n % FileAlign)
      BY <3>1
    <3>3. n \div FileAlign \in Nat
      BY <3>1
    <3>4. FileAlign * (n \div FileAlign) \in Nat
      BY <3>1, <3>3
    <3> QED
      BY <3>2, <3>4
  <2> QED
    BY <1>2, <2>1, SolidFacts DEF Files!Resume, Files!AlignDown
<1>4. disk[itemTmp] \in SolidFiles /\ disk[itemTmp].good = 0 .. disk[itemTmp].len - 1
  BY <1>2, TargetFacts, SolidFacts
<1> HIDE DEF off
<1>5. g = [len |-> off, good |-> 0 .. off - 1] /\ g.len = off
  <2>1. (0 .. threads[t].off - 1) \cap (0 .. off - 1) = 0 .. off - 1
    BY <1>2, <1>3, SolidFacts
  <2> QED
    BY <1>2, <1>4, <2>1 DEF Files!Truncated
<1>6. off \in 0 .. FileUnits /\ g \in SolidFiles
  BY <1>2, <1>3, <1>5, SolidFacts
<1>7. x \in ThreadRecords /\ x.at = "write" /\ x.off = off /\ x.fd = threads[t].fd
  <2>1. "write" \in FilePlaces
    BY DEF FilePlaces
  <2> QED
    BY <1>6, <2>1, ThreadFacts DEF ThreadRecords
<1>8. /\ disk' = [disk EXCEPT ![threads[t].fd] = g]
      /\ threads' = [threads EXCEPT ![t] = x]
  BY DEF Files!Truncate, off
<1>9. UNCHANGED <<itemTmp, target, status, busy, players, garbage>>
  BY DEF Files!Truncate, Files!UnchangedRest
<1> HIDE DEF g, x
<1> QED
  BY <1>1, <1>2, <1>5, <1>6, <1>7, <1>8, <1>9, TmpChanges

LEMMA WriteUnitFiles ==
    ASSUME FileInv, Files!Alone, NEW t \in FileThreads, Files!WriteUnit(t)
    PROVE  FileInv' /\ (target # 0 => disk'[target] = disk[target])
<1> DEFINE off == threads[t].off
           g == Files!Written(disk[threads[t].fd], off)
           x == [threads[t] EXCEPT !.off = off + 1]
<1>1. threads[t].at = "write" /\ threads[t].at \in Fetching /\ off < FileUnits
  BY DEF Files!WriteUnit, Fetching
<1>2. /\ off \in 0 .. FileUnits /\ threads[t].fd = itemTmp /\ itemTmp # 0
      /\ disk[itemTmp].len = off
  BY <1>1, ThreadFacts DEF Fetches
<1>3. disk[itemTmp] \in SolidFiles /\ disk[itemTmp].good = 0 .. off - 1
  BY <1>2, TargetFacts, SolidFacts
<1>4. g = [len |-> off + 1, good |-> 0 .. (off + 1) - 1] /\ g.len = off + 1
  <2>1. (0 .. off - 1) \cup {off} = 0 .. (off + 1) - 1
    BY <1>2, SolidFacts
  <2>2. ~(off > off)
    BY <1>2, SolidFacts
  <2> QED
    BY <1>2, <1>3, <2>1, <2>2 DEF Files!Written
<1>5. off + 1 \in 0 .. FileUnits
  BY <1>1, <1>2, SolidFacts
<1>6. g \in SolidFiles
  BY <1>4, <1>5, SolidFacts
<1>7. x \in ThreadRecords /\ x.at = "write" /\ x.off = off + 1 /\ x.fd = threads[t].fd
  BY <1>1, <1>5, ThreadFacts DEF ThreadRecords
<1>8. /\ disk' = [disk EXCEPT ![threads[t].fd] = g]
      /\ threads' = [threads EXCEPT ![t] = x]
  BY DEF Files!WriteUnit
<1>9. UNCHANGED <<itemTmp, target, status, busy, players, garbage>>
  BY DEF Files!WriteUnit, Files!UnchangedRest
<1> HIDE DEF g, x
<1> QED
  BY <1>1, <1>2, <1>4, <1>6, <1>7, <1>8, <1>9, TmpChanges

\* The .tmp that is renamed is the one found complete, as long as nobody renamed it
\* before and another was begun; whoever else is to rename it has it as the target now.
LEMMA RenameFiles ==
    ASSUME FileInv, Files!Alone, NEW t \in FileThreads, Files!Rename(t)
    PROVE  FileInv' /\ (target # 0 /\ Files!Alone' => UNCHANGED target)
<1>1. FileTypes /\ FileHolds /\ FileTarget
  BY DEF FileInv
<1>2. threads[t].at = "rename" /\ UNCHANGED <<disk, status, busy, players, garbage>>
  BY DEF Files!Rename, Files!UnchangedRest
<1>3. CASE itemTmp = 0
  <2>1. FilesStay
    BY <1>2, <1>3 DEF Files!Rename, FilesStay
  <2>2. CASE Files!TargetExists
    BY <1>2, <1>3, <2>1, <2>2, ToMarkFiles DEF Files!Rename, FilesStay
  <2>3. CASE ~Files!TargetExists
    <3>1. Files!Exits(t, "error")
      BY <1>3, <2>3 DEF Files!Rename
    <3>2. PICK x : threads' = [threads EXCEPT ![t] = x] /\ GoesTo(t, x)
      BY <3>1, ExitGoes DEF Results
    <3> QED
      BY <1>2, <2>1, <3>2, ThreadMoves, ThreadFacts DEF FilesStay
  <2> QED
    BY <2>2, <2>3
<1>4. CASE itemTmp # 0
  <2> DEFINE x == [Files!IdleThread EXCEPT !.at = "mark"]
  <2>1. /\ target' = itemTmp /\ itemTmp' = 0 /\ threads' = [threads EXCEPT ![t] = x]
        /\ Files!Alone' => itemTmp = threads[t].fd
    BY <1>4 DEF Files!Rename, Files!Alone
  <2>2. x \in ThreadRecords /\ x.at = "mark" /\ x.fd = 0
    BY IdleGoes DEF FilePlaces
  <2> HIDE DEF x
  <2>3. \A u \in FileThreads : threads'[u] = IF u = t THEN x ELSE threads[u]
    BY <1>1, <2>1 DEF FileTypes
  <2>4. FileTypes'
    <3>1. threads' \in [FileThreads -> ThreadRecords]
      BY <1>1, <2>1, <2>2 DEF FileTypes
    <3>2. PlayersHold'
      BY <1>1, <1>2 DEF FileTypes, PlayersHold
    <3> QED
      BY <1>1, <1>2, <2>1, <2>2, <2>3, <3>1, <3>2 DEF FileTypes, FileNames
  <2>5. Files!Alone' => target = 0 /\ disk[itemTmp].len = FileUnits
    BY <1>1, <1>2, <1>4, <2>1, ThreadFacts DEF Promotes, FileTarget
  <2>6. ASSUME Files!Alone', NEW u \in FileThreads PROVE Fetches(threads[u])' /\ Promotes(threads[u])'
    <3>1. CASE u = t
      BY <1>4, <2>1, <2>2, <2>3, <3>1 DEF Fetches, Promotes
    <3>2. CASE u # t
      <4>1. threads'[u] = threads[u] /\ Fetches(threads[u]) /\ Promotes(threads[u]) /\ threads[u].off \in 0 .. FileUnits
        BY <1>1, <2>3, <3>2, ThreadFacts DEF FileHolds
      <4>2. Promotes(threads[u])'
        BY <1>2, <1>4, <2>1, <2>5, <2>6, <4>1 DEF Promotes
      <4>3. Fetches(threads[u])'
        BY <1>2, <1>4, <2>1, <2>5, <2>6, <4>1, SolidFacts DEF Fetches, Files!Length
      <4> QED
        BY <4>2, <4>3
    <3> QED
      BY <3>1, <3>2
  <2>7. Files!Alone' => FileHolds'
    <3>1. \A u \in FileThreads : threads'[u].at \in Fetching => threads[u].at \in Fetching
      BY <2>2, <2>3 DEF Fetching
    <3> QED
      BY <1>1, <2>6, <3>1 DEF FileHolds, FileThreads
  <2>8. Files!Alone' => FileTarget'
    BY <1>1, <1>2, <1>4, <2>1, <2>5 DEF FileTarget
  <2> QED
    BY <2>4, <2>5, <2>7, <2>8 DEF FileInv
<1> QED
  BY <1>3, <1>4

\* A player begins to read a file that is there.
LEMMA PlayFiles ==
    ASSUME FileInv, Files!Alone, NEW p \in Players, NEW f \in DOMAIN disk,
           NEW start \in 0 .. Files!Length(f) - 1, Files!Play(p, f, start)
    PROVE  FileInv' /\ UNCHANGED <<disk, target>>
<1>1. FileTypes /\ FileTarget /\ PlayersHold
  BY DEF FileInv, FileTypes
<1>2. disk[f] \in SolidFiles /\ f \in Nat
  BY <1>1 DEF FileTypes
<1>3. Files!Length(f) \in Nat /\ start \in Nat
  BY <1>2, SolidFacts DEF Files!Length
<1> DEFINE y == [at |-> "read", fd |-> f, pos |-> start, end |-> Files!RangeEnd(start, Files!Length(f))]
<1>4. Files!RangeEnd(start, Files!Length(f)) \in Nat
  BY <1>3, FileAssumption DEF Files!RangeEnd, Files!Smaller
<1>5. y \in PlayerRecords /\ y.fd = f
  BY <1>2, <1>3, <1>4 DEF PlayerRecords
<1>6. /\ players' = [players EXCEPT ![p] = y]
      /\ UNCHANGED <<disk, itemTmp, target, status, busy, threads, garbage>>
  BY DEF Files!Play
<1> HIDE DEF y
<1>7. PlayersHold'
  BY <1>1, <1>5, <1>6 DEF PlayersHold
<1>8. ~garbage'
  BY <1>1, <1>6 DEF FileTarget, FileInv
<1>9. status \in ItemStatuses /\ busy \in BOOLEAN /\ (status = "completed" => target # 0)
  BY <1>1 DEF FileTypes, FileTarget, FileInv
<1> QED
  BY <1>6, <1>7, <1>8, <1>9, ThreadsStay

\* What it reads is there, and a file has no holes.
LEMMA ReadUnitFiles ==
    ASSUME FileInv, Files!Alone, NEW p \in Players, Files!ReadUnit(p)
    PROVE  FileInv' /\ UNCHANGED <<disk, target>>
<1>1. FileTypes /\ FileTarget /\ PlayersHold
  BY DEF FileInv, FileTypes
<1> DEFINE f == players[p].fd
           y == [players[p] EXCEPT !.pos = @ + 1]
<1>2. /\ players[p] \in PlayerRecords /\ players[p].pos \in Nat /\ players[p].end \in Nat
      /\ players[p].at = "read" /\ f \in DOMAIN disk
  BY <1>1 DEF PlayersHold, PlayerRecords, Files!ReadUnit
<1>3. disk[f].len \in 0 .. FileUnits /\ disk[f].good = 0 .. disk[f].len - 1 /\ f # 0
  BY <1>1, <1>2, SolidFacts DEF FileTypes
<1>4. players[p].pos < Files!Smaller(players[p].end, disk[f].len)
  BY <1>3 DEF Files!ReadUnit, Files!Length
<1>5. players[p].pos \in disk[f].good
  BY <1>2, <1>3, <1>4, SolidFacts DEF Files!Smaller
<1>6. /\ players' = [players EXCEPT ![p] = y] /\ garbage' = (garbage \/ players[p].pos \notin disk[f].good)
      /\ UNCHANGED <<disk, itemTmp, target, status, busy, threads>>
  BY DEF Files!ReadUnit
<1>7. y \in PlayerRecords /\ y.fd = f
  BY <1>2 DEF PlayerRecords
<1> HIDE DEF y
<1>8. PlayersHold'
  BY <1>1, <1>2, <1>6, <1>7 DEF PlayersHold
<1>9. ~garbage'
  BY <1>5, <1>6 DEF FileTarget, FileInv
<1>10. status \in ItemStatuses /\ busy \in BOOLEAN /\ (status = "completed" => target # 0)
  BY <1>1 DEF FileTypes, FileTarget, FileInv
<1> QED
  BY <1>6, <1>8, <1>9, <1>10, ThreadsStay

LEMMA EndOfRangeFiles ==
    ASSUME FileInv, Files!Alone, NEW p \in Players, Files!EndOfRange(p)
    PROVE  FileInv' /\ UNCHANGED <<disk, target>>
<1>1. /\ players' = [players EXCEPT ![p] = Files!IdlePlayer] /\ FilesStay
      /\ UNCHANGED <<status, busy>>
  BY DEF Files!EndOfRange, FilesStay
<1>2. FileTypes /\ FileTarget
  BY DEF FileInv
<1>3. CASE UNCHANGED threads
  <2>1. PlayersHold' /\ ~garbage'
    BY <1>1, PlayersStay DEF FileTarget, FilesStay, FileInv
  <2>2. status \in ItemStatuses /\ busy \in BOOLEAN /\ (status = "completed" => target # 0)
    BY <1>2 DEF FileTypes, FileTarget
  <2> QED
    BY <1>1, <1>3, <2>1, <2>2, ThreadsStay DEF FilesStay
<1>4. ASSUME NEW t \in Promoters, Files!Goto(t, "promote") PROVE FileInv'
  <2> DEFINE x == [threads[t] EXCEPT !.at = "promote"]
  <2>1. t \in FileThreads
    BY DEF FileThreads
  <2>2. GoesTo(t, x)
    BY <2>1, GotoGoes
  <2>3. threads' = [threads EXCEPT ![t] = x]
    BY <1>4 DEF Files!Goto
  <2> QED
    BY <1>1, <2>1, <2>2, <2>3, ThreadMoves, ThreadFacts
<1> QED
  BY <1>1, <1>3, <1>4 DEF Files!EndOfRange, FilesStay

\* The list is imported again: the status is what the files say.
LEMMA ReimportFiles ==
    ASSUME FileInv, Files!Alone, Files!Reimport \/ Files!Restart
    PROVE  FileInv' /\ UNCHANGED <<disk, target>>
<1>1. FileTypes /\ FileHolds /\ FileTarget
  BY DEF FileInv
<1>2. /\ UNCHANGED <<disk, itemTmp, target, garbage>> /\ busy' = FALSE
      /\ status' = Files!DiskStatus
  BY DEF Files!Reimport, Files!Restart
<1>3. status' \in ItemStatuses /\ (status' = "completed" => target # 0) /\ busy' \in BOOLEAN
  BY <1>2, TargetFacts DEF Files!DiskStatus, ItemStatuses
<1>4. CASE Files!Reimport
  <2>1. UNCHANGED <<threads, players>>
    BY <1>4 DEF Files!Reimport
  <2>2. PlayersHold' /\ ~garbage'
    BY <1>1, <1>2, <2>1 DEF FileTypes, PlayersHold, FileTarget
  <2> QED
    BY <1>2, <1>3, <2>1, <2>2, ThreadsStay
<1>5. CASE Files!Restart
  <2>1. /\ threads' = [t \in FileThreads |-> Files!IdleThread]
        /\ players' = [p \in Players |-> Files!IdlePlayer]
    BY <1>5 DEF Files!Restart, Files!Threads, FileThreads
  <2>2. PlayersHold'
    <3>1. Files!IdlePlayer \in PlayerRecords /\ Files!IdlePlayer.at = "idle"
      BY DEF Files!IdlePlayer, PlayerRecords
    <3> QED
      BY <2>1, <3>1 DEF PlayersHold
  <2>3. \A t \in FileThreads : threads'[t].at = "idle" /\ threads'[t].fd = 0
    BY <2>1, IdleGoes
  <2>4. threads' \in [FileThreads -> ThreadRecords]
    BY <2>1, IdleGoes
  <2>5. FileTypes'
    BY <1>1, <1>2, <1>3, <2>2, <2>3, <2>4 DEF FileTypes, FileNames
  <2>6. FileHolds'
    BY <2>3 DEF FileHolds, Fetches, Promotes, Fetching, FileThreads
  <2>7. FileTarget'
    BY <1>1, <1>2, <1>3 DEF FileTarget
  <2> QED
    BY <1>2, <2>5, <2>6, <2>7 DEF FileInv
<1> QED
  BY <1>4, <1>5

-----------------------------------------------------------------------------
\* What no step does to a file that is the target.
Keeps == target # 0 /\ Files!Alone' => target' = target /\ disk'[target] = disk[target]

LEMMA ThreadStepFiles ==
    ASSUME FileInv, Files!Alone, NEW t \in FileThreads, Files!ThreadStep(t)
    PROVE  FileInv' /\ Keeps
<1>1. CASE Files!Truncate(t) \/ Files!WriteUnit(t)
  <2>1. UNCHANGED target
    BY <1>1 DEF Files!Truncate, Files!WriteUnit
  <2> QED
    BY <1>1, <2>1, TruncateFiles, WriteUnitFiles DEF Keeps
<1>2. CASE Files!Rename(t)
  <2>1. UNCHANGED disk
    BY <1>2 DEF Files!Rename
  <2> QED
    BY <1>2, <2>1, RenameFiles DEF Keeps
<1>3. CASE Files!OpenTmp(t)
  <2>1. FileTypes
    BY DEF FileInv
  <2>2. target # 0 => disk'[target] = disk[target]
    <3>1. CASE itemTmp # 0
      BY <1>3, <3>1 DEF Files!OpenTmp
    <3>2. CASE itemTmp = 0
      <4> DEFINE n == Cardinality(DOMAIN disk)
      <4>1. n \in Nat /\ DOMAIN disk = 1 .. n /\ Files!Cardinality(DOMAIN disk) = n
        BY <2>1 DEF FileTypes, Files!Cardinality, Cardinality
      <4>2. disk' = [g \in 1 .. n + 1 |-> IF g = n + 1 THEN [len |-> 0, good |-> {}] ELSE disk[g]]
        BY <1>3, <3>2, <4>1 DEF Files!OpenTmp
      <4>3. target # 0 => target \in 1 .. n
        BY <2>1, <4>1 DEF FileTypes, FileNames
      <4> QED
        BY <4>1, <4>2, <4>3
    <3> QED
      BY <3>1, <3>2
  <2>3. UNCHANGED target
    BY <1>3 DEF Files!OpenTmp
  <2> QED
    BY <1>3, <2>2, <2>3, OpenTmpFiles DEF Keeps
<1>4. CASE t \in Downloads /\ Files!StartDownload(t)
  BY <1>4, StartDownloadFiles DEF Keeps, Files!StartDownload
<1>5. CASE Files!FinishDownload(t)
  BY <1>5, FinishDownloadFiles DEF Keeps, Files!FinishDownload
<1>6. CASE Files!CheckTarget(t)
  BY <1>6, CheckTargetFiles DEF Keeps, Files!CheckTarget
<1>7. CASE Files!StartOffset(t)
  BY <1>7, StartOffsetFiles DEF Keeps, Files!StartOffset
<1>8. CASE Files!CloseTmp(t)
  BY <1>8, CloseTmpFiles DEF Keeps, Files!CloseTmp
<1>9. CASE Files!DownloadStops(t)
  BY <1>9, DownloadStopsFiles DEF Keeps, Files!DownloadStops
<1>10. CASE Files!PromoteTmp(t)
  BY <1>10, PromoteTmpFiles DEF Keeps, Files!PromoteTmp
<1>11. CASE Files!RenameBusy(t)
  BY <1>11, RenameBusyFiles DEF Keeps, Files!RenameBusy
<1>12. CASE Files!MarkCompleted(t)
  BY <1>12, MarkCompletedFiles DEF Keeps, Files!MarkCompleted
<1> QED
  BY <1>1, <1>2, <1>3, <1>4, <1>5, <1>6, <1>7, <1>8, <1>9, <1>10, <1>11, <1>12 DEF Files!ThreadStep

LEMMA PlayerStepFiles ==
    ASSUME FileInv, Files!Alone, NEW p \in Players,
           Files!PlayTarget(p) \/ Files!PlayTmp(p) \/ Files!ReadUnit(p) \/ Files!EndOfRange(p)
    PROVE  FileInv' /\ Keeps
<1>1. FileTypes
  BY DEF FileInv
<1>2. CASE Files!PlayTarget(p)
  <2>1. target \in DOMAIN disk
    BY <1>1, <1>2 DEF Files!PlayTarget, FileTypes, FileNames
  <2>2. PICK start \in 0 .. Files!Length(target) - 1 : Files!Play(p, target, start)
    BY <1>2 DEF Files!PlayTarget
  <2> QED
    BY <2>1, <2>2, PlayFiles DEF Keeps
<1>3. CASE Files!PlayTmp(p)
  <2>1. itemTmp \in DOMAIN disk
    BY <1>1, <1>3 DEF Files!PlayTmp, FileTypes, FileNames
  <2>2. PICK start \in 0 .. Files!Length(itemTmp) - 1 : Files!Play(p, itemTmp, start)
    BY <1>3 DEF Files!PlayTmp
  <2> QED
    BY <2>1, <2>2, PlayFiles DEF Keeps
<1>4. CASE Files!ReadUnit(p)
  BY <1>4, ReadUnitFiles DEF Keeps
<1>5. CASE Files!EndOfRange(p)
  BY <1>5, EndOfRangeFiles DEF Keeps
<1> QED
  BY <1>2, <1>3, <1>4, <1>5

LEMMA FileStepInv == FileInv /\ [WebNext]_webVars => FileInv' /\ (Keeps \/ UNCHANGED Files!fileVars)
<1> SUFFICES ASSUME FileInv, [WebNext]_webVars PROVE FileInv' /\ (Keeps \/ UNCHANGED Files!fileVars)
  OBVIOUS
<1>1. Files!FileNext \/ UNCHANGED fileAll
  BY DEF WebNext, webVars
<1>2. CASE UNCHANGED fileAll
  <2>1. FileInv'
    BY <1>2 DEF fileAll, FileInv, FileTypes, PlayersHold, FileHolds, FileTarget, Fetches, Promotes, FileNames,
       Files!Length, Files!Alone
  <2>2. UNCHANGED Files!fileVars
    BY <1>2 DEF fileAll, Files!fileVars
  <2> QED
    BY <2>1, <2>2
<1>3. CASE Files!FileNext
  <2>1. Files!Alone
    BY <1>3 DEF Files!FileNext
  <2>2. ASSUME NEW t \in Files!Threads, Files!ThreadStep(t) PROVE FileInv' /\ Keeps
    BY <2>1, <2>2, ThreadStepFiles DEF Files!Threads, FileThreads
  <2>3. CASE Files!Reimport \/ Files!Restart
    BY <2>1, <2>3, ReimportFiles DEF Keeps
  <2> QED
    BY <1>3, <2>1, <2>2, <2>3, PlayerStepFiles DEF Files!FileNext
<1> QED
  BY <1>1, <1>2, <1>3

LEMMA FilesRight == FileInv => FilesAreRight
<1> SUFFICES ASSUME FileInv, Files!Alone PROVE (status = "completed" => Files!Whole(target)) /\ ~garbage
  BY DEF FilesAreRight, Files!CompletedIsWhole, Files!ServedWasWritten
<1>1. FileTypes /\ FileTarget
  BY DEF FileInv
<1>2. ASSUME target # 0 PROVE Files!Whole(target)
  <2>1. disk[target] \in SolidFiles /\ disk[target].len = FileUnits
    BY <1>1, <1>2 DEF FileTypes, FileTarget, FileNames
  <2>2. disk[target] = [len |-> FileUnits, good |-> 0 .. FileUnits - 1]
    BY <2>1 DEF SolidFiles
  <2> QED
    BY <1>2, <2>2 DEF Files!Whole, Files!Units
<1> QED
  BY <1>1, <1>2 DEF FileTarget

\* An item that is completed has its whole file in place, and a player is sent only what
\* was downloaded, whoever downloads, promotes, plays and imports at once
\* (app/web/download.go, handlers.go).
THEOREM FilesInvariant == WebSpec => []FilesAreRight
<1>1. FileInv /\ [WebNext]_webVars => FileInv'
  BY FileStepInv
<1> QED
  BY <1>1, FileInitInv, FilesRight, PTL DEF WebSpec

\* The whole file of an item is not replaced or cut by late promoters, resumed downloads
\* and busy renames (app/web/download.go: promoteTmp, downloadItem).  The steps in which
\* the code does so are excluded by Alone': a second download of the path truncates the
\* file (shared), or a promoter renames a .tmp that was begun after it looked (stray).
THEOREM WholeInvariant == WebSpec => WholeStays
<1> DEFINE Stays == Files!Whole(target) /\ Files!Alone' => target' = target /\ disk'[target] = disk[target]
<1>1. FileInv /\ [WebNext]_webVars => FileInv'
  BY FileStepInv
<1>2. FileInv /\ [WebNext]_webVars => [Stays]_Files!fileVars
  BY FileStepInv DEF Keeps, Files!Whole
<1>3. WebSpec => [][Stays]_Files!fileVars
  BY <1>1, <1>2, FileInitInv, PTL DEF WebSpec
<1> QED
  BY <1>3 DEF WholeStays, Files!WholeStays

\* Its types (app/web/download.go).
LEMMA FileTypesRight == FileInv => Files!TypeOK
<1> SUFFICES ASSUME FileInv PROVE Files!TypeOK
  OBVIOUS
<1> DEFINE n == Cardinality(DOMAIN disk)
<1>1. n \in Nat /\ DOMAIN disk = 1 .. n /\ Files!Cardinality(DOMAIN disk) = n
  BY DEF FileInv, FileTypes, Files!Cardinality, Cardinality
<1>2. FileNames = Files!Files
  BY <1>1 DEF FileNames, Files!Files
<1>3. \A f \in DOMAIN disk : disk[f].len \in 0 .. FileUnits /\ disk[f].good \subseteq Files!Units
  <2>1. ASSUME NEW f \in DOMAIN disk PROVE disk[f].len \in 0 .. FileUnits /\ disk[f].good = 0 .. disk[f].len - 1
    BY SolidFacts DEF FileInv, FileTypes
  <2> QED
    BY <2>1, SolidFacts DEF Files!Units
<1>4. \A t \in FileThreads : threads[t].off \in 0 .. FileUnits /\ threads[t].fd \in FileNames
  BY DEF FileInv, FileTypes, ThreadRecords
<1> QED
  BY <1>2, <1>3, <1>4 DEF FileInv, FileTypes, Files!TypeOK, Files!Threads, FileThreads, ItemStatuses

-----------------------------------------------------------------------------
(* What WebImportProofs proves of imports holds among the others as well. *)
LEMMA WebImports == WebSpec => ImportSpec
<1>1. WebInit => ImportInit
  BY DEF WebInit
<1>2. [WebNext]_webVars => [ImportNext]_importVars
  BY DEF WebNext, webVars
<1> QED
  BY <1>1, <1>2, PTL DEF WebSpec, ImportSpec

\* Of one import after another: what is said to be finished was downloaded, what a cache
\* restores is a whole list, and no download writes the map that a scan has taken
\* (app/web/import.go, meta.go, download.go).  Nothing is claimed once two go on at once.
THEOREM ImportsInvariant ==
    WebSpec => []FinishedWasDownloaded /\ []RestoredIsWhole /\ ScanUndisturbed
BY WebImports, FinishedInvariant, RestoredInvariant, ScanInvariant

-----------------------------------------------------------------------------
(* ChatPaging: what is shown of a chat, and what is left. *)

Sent == 1 .. posted
Seen == ToSet(shown)
LoaderRecords ==
    [at : {"idle", "begin", "page", "fetch", "batch", "fill"}, older : BOOLEAN, had : BOOLEAN,
     offset : Nat, oldest : Nat, count : 0 .. PageSize, batch : SUBSET Nat, got : Nat]
SourceRecords == [cursor : Nat, done : BOOLEAN, pending : SUBSET Nat]

ChatTypes ==
    /\ kind \in {"history", "takeout", "saved"} /\ source \in [1 .. Chat!MaxMessages -> Sources]
    /\ posted \in 0 .. Chat!MaxMessages /\ split \in 0 .. posted /\ known \in 0 .. posted
    /\ updates \subseteq Sent /\ active \in BOOLEAN /\ chatDone \in BOOLEAN /\ cut \in BOOLEAN
    /\ shown \in Seq(Nat) /\ IsInjective(shown) /\ Seen \subseteq Sent
    /\ cursor \in 0 .. posted
    /\ loader \in LoaderRecords /\ loader.batch \subseteq Sent
    /\ saved = None \/ saved \in [Sources -> SourceRecords]
    /\ takeout = None \/ takeout \in [index : Nat, cursor : Nat]

\* The goroutine that loads is where the kind of the chat has it.
ChatKind ==
    /\ kind = "history" => saved = None /\ takeout = None /\ loader.at \in {"idle", "begin", "page"}
    /\ kind = "takeout" =>
          saved = None /\ loader.at \in {"idle", "begin", "fetch", "batch"}
    /\ kind = "saved" =>
          takeout = None /\ cursor = 0 /\ loader.at \in {"idle", "begin", "fill"}
    /\ loader.at = "begin" => loader.count = 0 /\ loader.oldest = 0
    /\ loader.at \in {"fetch", "batch"} => takeout # None
    /\ loader.at = "fill" => saved # None

ChatIsShown == chatDone /\ ~cut => 1 .. known \subseteq Seen

\* A history is shown down to the cursor, and while a page loads down to its offset.
HistoryShown ==
    /\ cursor > 0 => cursor \in Seen /\ cursor .. known \subseteq Seen
    /\ loader.at = "page" =>
          /\ loader.offset \in 0 .. posted /\ (loader.offset > 0 => loader.offset .. known \subseteq Seen)
          /\ loader.count = 0 => loader.oldest = 0
          /\ loader.count > 0 => loader.offset > 0 /\ loader.oldest = loader.offset /\ loader.offset \in Seen
          /\ loader.older /\ cursor > 0 =>
                /\ loader.offset > 0 /\ loader.offset <= cursor
                /\ loader.count > 0 => loader.offset < cursor
          /\ ~loader.older /\ ~loader.had => cursor = 0

\* What a takeout has not come to: what is below its cursor, and the ranges that follow.
Within(m, i) == IF i = 1 THEN m > split ELSE m <= split
Ahead(m) == Within(m, takeout.index) /\ (takeout.cursor = 0 \/ m < takeout.cursor)
Left(m) ==
    \E i \in 1 .. Chat!RangeCount :
        Within(m, i) /\ (i > takeout.index \/ (i = takeout.index /\ Ahead(m)))

TakeoutShown ==
    /\ takeout # None => takeout.index > 0 /\ (~cut => \A m \in 1 .. known : m \in Seen \/ Left(m))
    /\ loader.at = "batch" =>
          /\ takeout.index <= Chat!RangeCount
          /\ \A m \in loader.batch : Ahead(m)
          /\ loader.oldest > 0 => Ahead(loader.oldest)
          /\ loader.batch = {} /\ loader.oldest = 0 => loader.got = 0
          /\ loader.batch # {} => loader.count < PageSize
          /\ ~cut => \A m \in 1 .. known : Ahead(m) =>
                \/ m \in Seen \/ m \in loader.batch
                \/ /\ loader.got >= Batch /\ \A b \in loader.batch : m < b
                   /\ loader.oldest > 0 => m < loader.oldest

\* Of a source of saved messages what is not shown is pending or below its cursor.
SourceShown(x) ==
    /\ \A m \in saved[x].pending : m \in Sent /\ source[m] = x
    /\ ~saved[x].done => \A m \in saved[x].pending : saved[x].cursor > 0 /\ m >= saved[x].cursor
    /\ \A m \in 1 .. known : source[m] = x =>
          m \in Seen \/ m \in saved[x].pending
             \/ (~saved[x].done /\ (saved[x].cursor = 0 \/ m < saved[x].cursor))

\* What pages have shown is newer than all there is to come.
Newer(p) ==
    \A x \in Sources :
        /\ \A m \in saved[x].pending : m < p
        /\ ~saved[x].done => saved[x].cursor > 0 /\ saved[x].cursor <= p

SavedShown ==
    /\ saved # None => (\A x \in Sources : SourceShown(x)) /\ \A p \in Seen \ live : Newer(p)
    /\ saved = None => Seen \subseteq live
    /\ \A i, j \in DOMAIN shown : i < j /\ shown[i] \notin live /\ shown[j] \notin live =>
          shown[i] > shown[j]

ChatInv ==
    /\ ChatTypes /\ ChatKind /\ ChatIsShown
    /\ kind = "history" => HistoryShown
    /\ kind = "takeout" => TakeoutShown
    /\ kind = "saved" => SavedShown

LEMMA ChatConstants ==
    /\ PageSize \in Nat /\ PageSize > 0 /\ Batch \in Nat /\ Batch > 0
    /\ Chat!Max(Histories) \in Histories /\ \A n \in Histories : n <= Chat!Max(Histories)
    /\ Chat!MaxMessages \in Nat /\ \A n \in Histories : n \in 0 .. Chat!MaxMessages
<1>1. PageSize \in Nat /\ PageSize > 0 /\ Batch \in Nat /\ Batch > 0 /\ MaxNew \in Nat
  BY ChatAssumption
<1>2. Chat!Max(Histories) \in Histories /\ \A n \in Histories : n <= Chat!Max(Histories)
  BY ChatAssumption DEF Chat!Max
<1> DEFINE most == Chat!Max(Histories)
<1>3. most \in Nat /\ \A n \in Histories : n \in Nat /\ n <= most
  BY <1>2, ChatAssumption
<1>4. Chat!MaxMessages = most + MaxNew
  BY DEF Chat!MaxMessages
<1> HIDE DEF most
<1>5. Chat!MaxMessages \in Nat /\ \A n \in Histories : n \in 0 .. Chat!MaxMessages
  BY <1>1, <1>3, <1>4
<1> QED
  BY <1>1, <1>2, <1>5

\* Some messages have a newest and an oldest.
LEMMA Extremes ==
    ASSUME NEW n \in Nat, NEW S, S \subseteq 1 .. n, S # {}
    PROVE  /\ Chat!Max(S) \in S /\ \A k \in S : k <= Chat!Max(S)
           /\ Chat!Min(S) \in S /\ \A k \in S : Chat!Min(S) <= k
<1>0. \A k \in S : k \in Nat /\ n - k \in Nat
  <2>1. \A k \in S : k \in 1 .. n
    OBVIOUS
  <2>2. \A k \in 1 .. n : k \in Nat /\ n - k \in Nat
    OBVIOUS
  <2> QED
    BY <2>1, <2>2
<1> DEFINE B == {n - k : k \in S}
<1>1. B \subseteq Nat /\ B # {}
  BY <1>0
<1>2. PICK b \in B : \A k \in B : b <= k
  BY <1>1, SmallestMember
<1>3. PICK m \in S : b = n - m
  BY <1>2
<1>4. \A k \in S : m >= k
  <2>1. \A k \in S : n - k \in B /\ n - m <= n - k
    BY <1>2, <1>3
  <2> HIDE DEF B
  <2>2. ASSUME NEW k \in S PROVE m >= k
    <3>1. m \in Nat /\ k \in Nat /\ n - m <= n - k
      BY <1>0, <2>1
    <3> QED
      BY <3>1
  <2> QED
    BY <2>2
<1>5. Chat!Max(S) \in S /\ \A k \in S : Chat!Max(S) >= k
  BY <1>4 DEF Chat!Max
<1>6. S \subseteq Nat
  BY <1>0
<1>7. \E k \in S : \A y \in S : k <= y
  BY <1>6, SmallestMember
<1>8. Chat!Min(S) \in S /\ \A k \in S : Chat!Min(S) <= k
  BY <1>7 DEF Chat!Min
<1> QED
  BY <1>5, <1>8

\* What Telegram answers: some of the messages, the newest of them; all when there
\* are fewer than were asked for.
LEMMA NewestFacts ==
    ASSUME NEW n \in Nat, NEW S, S \subseteq 1 .. n
    PROVE  LET N == Chat!Newest(S, Batch) IN
           /\ N \subseteq S /\ Chat!Cardinality(N) \in Nat
           /\ Chat!Cardinality(N) = 0 <=> N = {}
           /\ Chat!Cardinality(N) < Batch => N = S
           /\ \A m \in S \ N : \A b \in N : m < b
<1> DEFINE N == Chat!Newest(S, Batch)
           Above(m) == {k \in S : k > m}
<1>0. \A X : Chat!Cardinality(X) = Cardinality(X)
  BY DEF Chat!Cardinality, Cardinality
<1>1. N = {m \in S : Cardinality(Above(m)) < Batch} /\ N \subseteq S
  BY <1>0 DEF Chat!Newest
<1>2. IsFiniteSet(S) /\ \A k \in S : k \in Nat
  <2>1. IsFiniteSet(1 .. n)
    BY FS_Interval
  <2>2. IsFiniteSet(S)
    BY <2>1, FS_Subset
  <2>3. \A k \in S : k \in 1 .. n
    OBVIOUS
  <2> QED
    BY <2>2, <2>3
<1>3. IsFiniteSet(N) /\ Cardinality(N) \in Nat
  BY <1>1, <1>2, FS_Subset, FS_CardinalityType
<1>4. Cardinality(N) = 0 <=> N = {}
  BY <1>3, FS_EmptySet
<1>5. \A m \in S : IsFiniteSet(Above(m)) /\ Cardinality(Above(m)) \in Nat
  <2>1. \A m \in S : Above(m) \subseteq S
    OBVIOUS
  <2> QED
    BY <1>2, <2>1, FS_Subset, FS_CardinalityType
<1>6. \A m \in S \ N : \A b \in N : m < b
  <2> SUFFICES ASSUME NEW m \in S \ N, NEW b \in N, ~(m < b) PROVE FALSE
    OBVIOUS
  <2>1. b \in S /\ Above(m) \subseteq Above(b)
    <3>0. b \in S /\ m \in S
      BY <1>1
    <3>1. b \in S /\ b \in Nat /\ m \in Nat /\ b <= m
      <4>1. b \in Nat /\ m \in Nat
        BY <1>2, <3>0
      <4> HIDE DEF N
      <4> QED
        BY <3>0, <4>1
    <3>2. \A k \in S : k > m => k > b
      BY <1>2, <3>1
    <3> QED
      BY <3>1, <3>2
  <2>2. Cardinality(Above(m)) <= Cardinality(Above(b))
    BY <1>5, <2>1, FS_Subset
  <2>3. ~(Cardinality(Above(m)) < Batch) /\ Cardinality(Above(b)) < Batch
    BY <1>1
  <2> HIDE DEF Above
  <2> QED
    BY <1>5, <2>1, <2>2, <2>3, ChatConstants
<1>7. ASSUME Cardinality(N) < Batch, N # S PROVE FALSE
  <2> DEFINE Rest == S \ N
  <2>1. Rest \subseteq 1 .. n /\ Rest # {}
    BY <1>1, <1>7
  <2>2. PICK m \in Rest : \A k \in Rest : k <= m
    BY <2>1, Extremes
  <2>3. Above(m) \subseteq N
    <3>1. ASSUME NEW k \in S, k > m PROVE k \in N
      BY <1>2, <2>2, <3>1
    <3> QED
      BY <3>1
  <2>4. Cardinality(Above(m)) <= Cardinality(N)
    BY <1>3, <2>3, FS_Subset
  <2>5. ~(Cardinality(Above(m)) < Batch) /\ m \in S
    BY <1>1, <2>2
  <2> HIDE DEF Above
  <2> QED
    BY <1>3, <1>5, <1>7, <2>4, <2>5, ChatConstants
<1> HIDE DEF N
<1> QED
  BY <1>0, <1>1, <1>3, <1>4, <1>6, <1>7 DEF N

\* A message is shown once, at the end when it is new.
LEMMA ShowFacts ==
    ASSUME shown \in Seq(Nat), IsInjective(shown), NEW m \in Nat
    PROVE  /\ Chat!AppendChatItem(m) \in Seq(Nat) /\ IsInjective(Chat!AppendChatItem(m))
           /\ ToSet(Chat!AppendChatItem(m)) = Seen \cup {m}
           /\ Chat!IsNew(m) <=> m \notin Seen
           /\ m \in Seen => Chat!AppendChatItem(m) = shown
           /\ m \notin Seen => Chat!AppendChatItem(m) = Append(shown, m)
<1>1. Chat!Contains(shown, m) <=> m \in Seen
  BY DEF Chat!Contains, Seen, ToSet
<1>2. CASE m \in Seen
  BY <1>1, <1>2 DEF Chat!AppendChatItem, Chat!IsNew, Seen
<1>3. CASE m \notin Seen
  <2>1. Chat!AppendChatItem(m) = Append(shown, m) /\ Chat!IsNew(m)
    BY <1>1, <1>3 DEF Chat!AppendChatItem, Chat!IsNew
  <2>2. Append(shown, m) \in Seq(Nat)
    OBVIOUS
  <2>3. IsInjective(Append(shown, m)) /\ ToSet(Append(shown, m)) = Seen \cup {m}
    BY <1>3, AppendOther, AppendSet DEF Seen
  <2> QED
    BY <1>3, <2>1, <2>2, <2>3
<1> QED
  BY <1>2, <1>3

LEMMA ChatFacts ==
    ASSUME ChatInv
    PROVE  /\ posted \in Nat /\ known \in Nat /\ known <= posted /\ cursor \in Nat /\ cursor <= posted
           /\ split \in Nat /\ split <= posted /\ Seen \subseteq Sent
           /\ loader \in LoaderRecords /\ loader.count \in 0 .. PageSize /\ loader.offset \in Nat
           /\ loader.oldest \in Nat /\ loader.got \in Nat /\ loader.batch \subseteq Sent
BY ChatConstants DEF ChatInv, ChatTypes, LoaderRecords

\* The goroutine that loads is idle, begins, or is where it was: what is shown and what
\* is known of it are as they were.
LEMMA ChatRests ==
    ASSUME ChatInv, UNCHANGED <<kind, source, split, posted, shown, cursor, chatDone, saved, takeout, known, live, cut>>,
           updates' \subseteq Sent, active' \in BOOLEAN,
           loader' = loader \/ (loader' \in LoaderRecords /\ loader'.batch = {} /\ loader'.at \in {"idle", "begin"}
                                /\ loader'.count = 0 /\ loader'.oldest = 0)
    PROVE  ChatInv'
<1>1. ChatTypes'
  <2>1. loader' \in LoaderRecords /\ loader'.batch \subseteq Sent
    BY DEF ChatInv, ChatTypes
  <2> QED
    BY <2>1 DEF ChatInv, ChatTypes, Seen, Sent, Chat!MaxMessages
<1>2. ChatKind'
  BY DEF ChatInv, ChatKind
<1>3. ChatIsShown'
  BY DEF ChatInv, ChatIsShown, Seen
<1>4. ASSUME kind' = "history" PROVE HistoryShown'
  BY <1>4 DEF ChatInv, HistoryShown, Seen
<1>5. ASSUME kind' = "takeout" PROVE TakeoutShown'
  <2>1. TakeoutShown
    BY <1>5 DEF ChatInv
  <2>2. takeout' # None => takeout'.index > 0 /\ (~cut' => \A m \in 1 .. known' : m \in Seen' \/ Left(m)')
    BY <2>1 DEF TakeoutShown, Seen, Left, Ahead, Within, Chat!RangeCount
  <2>3. CASE loader' = loader
    BY <2>1, <2>2, <2>3 DEF TakeoutShown, Seen, Ahead, Within, Chat!RangeCount
  <2> QED
    BY <2>2, <2>3 DEF TakeoutShown
<1>6. ASSUME kind' = "saved" PROVE SavedShown'
  BY <1>6 DEF ChatInv, SavedShown, SourceShown, Newer, Seen, Sent
<1> QED
  BY <1>1, <1>2, <1>3, <1>4, <1>5, <1>6 DEF ChatInv

LEMMA IdleLoader ==
    /\ Chat!Idle \in LoaderRecords /\ Chat!Idle.batch = {} /\ Chat!Idle.at = "idle"
    /\ Chat!Idle.count = 0 /\ Chat!Idle.oldest = 0
    /\ \A older \in BOOLEAN : LET x == [Chat!Idle EXCEPT !.at = "begin", !.older = older] IN
          /\ x \in LoaderRecords /\ x.batch = {} /\ x.at = "begin" /\ x.count = 0 /\ x.oldest = 0
          /\ x.got = 0
<1> DEFINE y == [at |-> "idle", older |-> FALSE, had |-> FALSE, offset |-> 0, oldest |-> 0,
                 count |-> 0, batch |-> {}, got |-> 0]
<1>1. y \in LoaderRecords /\ y.batch = {} /\ y.at = "idle" /\ y.count = 0 /\ y.oldest = 0 /\ y.got = 0
  BY ChatConstants DEF LoaderRecords
<1> HIDE DEF y
<1>2. \A older \in BOOLEAN : LET x == [y EXCEPT !.at = "begin", !.older = older] IN
          /\ x \in LoaderRecords /\ x.batch = {} /\ x.at = "begin" /\ x.count = 0 /\ x.oldest = 0
          /\ x.got = 0
  BY <1>1 DEF LoaderRecords
<1>3. Chat!Idle = y
  BY DEF Chat!Idle, y
<1> QED
  BY <1>1, <1>2, <1>3

LEMMA BeginChat ==
    ASSUME ChatInv, NEW older \in BOOLEAN, Chat!Begin(older)
    PROVE  ChatInv'
<1> DEFINE x == [Chat!Idle EXCEPT !.at = "begin", !.older = older]
<1>1. loader' = x /\ active' = TRUE
      /\ UNCHANGED <<kind, source, split, posted, updates, shown, cursor, chatDone, saved, takeout, known, live, cut>>
  BY DEF Chat!Begin, Chat!historyVars, Chat!serverVars
<1>2. x \in LoaderRecords /\ x.batch = {} /\ x.at = "begin" /\ x.count = 0 /\ x.oldest = 0
  BY IdleLoader
<1> HIDE DEF x
<1>3. updates' \subseteq Sent
  BY <1>1 DEF ChatInv, ChatTypes
<1> QED
  BY <1>1, <1>2, <1>3, ChatRests

LEMMA DeselectChat ==
    ASSUME ChatInv, Chat!Deselect \/ Chat!LoadFails
    PROVE  ChatInv'
<1>1. UNCHANGED <<kind, source, split, posted, updates, shown, cursor, chatDone, saved, takeout, known, live, cut>>
      /\ active' \in BOOLEAN
  BY DEF Chat!Deselect, Chat!LoadFails, Chat!UnchangedOutside, Chat!historyVars, Chat!serverVars, ChatInv, ChatTypes
<1>2. loader' = loader \/ loader' = Chat!Idle
  BY DEF Chat!Deselect, Chat!LoadFails
<1>3. updates' \subseteq Sent
  BY <1>1 DEF ChatInv, ChatTypes
<1> QED
  BY <1>1, <1>2, <1>3, IdleLoader, ChatRests

LEMMA PostChat ==
    ASSUME ChatInv, Chat!Post
    PROVE  ChatInv'
<1>1. /\ posted < Chat!MaxMessages /\ posted' = posted + 1 /\ updates' = updates \cup {posted + 1}
      /\ UNCHANGED <<kind, source, split, active, shown, cursor, chatDone, saved, takeout, loader, known, live, cut>>
  BY DEF Chat!Post, Chat!historyVars, Chat!serverVars
<1>2. posted \in Nat /\ posted' \in 0 .. Chat!MaxMessages /\ Sent \subseteq Sent' /\ 0 .. posted \subseteq 0 .. posted'
      /\ updates' \subseteq Sent'
  BY <1>1, ChatFacts, ChatConstants DEF Sent, ChatInv, ChatTypes
<1>3. ChatTypes'
  <2>1. Chat!MaxMessages' = Chat!MaxMessages
    BY DEF Chat!MaxMessages
  <2>2. Seen' \subseteq Sent' /\ loader'.batch \subseteq Sent'
    BY <1>1, <1>2 DEF ChatInv, ChatTypes, Seen
  <2>3. split' \in 0 .. posted' /\ known' \in 0 .. posted' /\ cursor' \in 0 .. posted'
    BY <1>1, <1>2 DEF ChatInv, ChatTypes
  <2> QED
    BY <1>1, <1>2, <2>1, <2>2, <2>3 DEF ChatInv, ChatTypes
<1>4. ChatKind' /\ ChatIsShown'
  BY <1>1 DEF ChatInv, ChatKind, ChatIsShown, Seen
<1>5. ASSUME kind' = "history" PROVE HistoryShown'
  BY <1>1, <1>2, <1>5 DEF ChatInv, HistoryShown, Seen
<1>6. ASSUME kind' = "takeout" PROVE TakeoutShown'
  <2>1. TakeoutShown
    BY <1>1, <1>6 DEF ChatInv
  <2> QED
    BY <1>1, <2>1 DEF TakeoutShown, Seen, Left, Ahead, Within, Chat!RangeCount
<1>7. ASSUME kind' = "saved" PROVE SavedShown'
  <2>1. SavedShown
    BY <1>1, <1>7 DEF ChatInv
  <2>2. ASSUME saved # None, NEW x \in Sources PROVE SourceShown(x)'
    <3>1. SourceShown(x)
      BY <2>1, <2>2 DEF SavedShown
    <3> QED
      BY <1>1, <1>2, <3>1 DEF SourceShown, Seen
  <2>3. \A p : Newer(p)' <=> Newer(p)
    BY <1>1 DEF Newer
  <2> QED
    BY <1>1, <2>1, <2>2, <2>3 DEF SavedShown, Seen
<1> QED
  BY <1>3, <1>4, <1>5, <1>6, <1>7 DEF ChatInv

\* A message that is shown, new or not: more is shown than was.
LEMMA ShowTypes ==
    ASSUME ChatInv, NEW m \in Sent, shown' = Chat!AppendChatItem(m)
    PROVE  /\ shown' \in Seq(Nat) /\ IsInjective(shown') /\ Seen' = Seen \cup {m} /\ Seen' \subseteq Sent
           /\ Chat!IsNew(m) <=> m \notin Seen
           /\ m \in Seen => shown' = shown
           /\ m \notin Seen => shown' = Append(shown, m)
<1>1. shown \in Seq(Nat) /\ IsInjective(shown) /\ Seen \subseteq Sent /\ m \in Nat
  BY ChatFacts DEF ChatInv, ChatTypes, Sent
<1> DEFINE then == Chat!AppendChatItem(m)
<1>2. /\ then \in Seq(Nat) /\ IsInjective(then) /\ ToSet(then) = Seen \cup {m}
      /\ Chat!IsNew(m) <=> m \notin Seen
      /\ m \in Seen => then = shown
      /\ m \notin Seen => then = Append(shown, m)
  BY <1>1, ShowFacts
<1> HIDE DEF then
<1>3. shown' = then /\ Seen' = ToSet(shown')
  BY DEF Seen, then
<1> QED
  BY <1>1, <1>2, <1>3

\* The order of what pages show is kept by a message that an update shows, or that is
\* older than all of them.
LEMMA OrderKept ==
    ASSUME shown \in Seq(Nat), NEW m \in Nat, shown' = Append(shown, m), live \subseteq live',
           m \in live' \/ \A p \in Seen \ live : m < p,
           \A i, j \in DOMAIN shown : i < j /\ shown[i] \notin live /\ shown[j] \notin live => shown[i] > shown[j]
    PROVE  (\A i, j \in DOMAIN shown : i < j /\ shown[i] \notin live /\ shown[j] \notin live => shown[i] > shown[j])'
<1>1. Len(shown) \in Nat /\ DOMAIN shown = 1 .. Len(shown) /\ DOMAIN shown' = 1 .. Len(shown) + 1
  OBVIOUS
<1>2. \A i \in 1 .. Len(shown) + 1 : shown'[i] = IF i = Len(shown) + 1 THEN m ELSE shown[i]
  OBVIOUS
<1>3. \A i \in 1 .. Len(shown) : shown[i] \in Seen /\ shown[i] \in Nat
  <2>1. \A i \in 1 .. Len(shown) : shown[i] \in Nat
    OBVIOUS
  <2>2. Seen = {shown[i] : i \in 1 .. Len(shown)}
    BY <1>1 DEF Seen, ToSet
  <2> QED
    BY <2>1, <2>2
<1>4. ASSUME NEW i \in 1 .. Len(shown) + 1, NEW j \in 1 .. Len(shown) + 1, i < j,
             shown'[i] \notin live', shown'[j] \notin live'
      PROVE  shown'[i] > shown'[j]
  <2>1. i \in 1 .. Len(shown) /\ shown'[i] = shown[i]
    BY <1>1, <1>2, <1>4
  <2>2. shown[i] \notin live /\ shown[i] \in Seen /\ shown[i] \in Nat
    BY <1>3, <1>4, <2>1
  <2>3. CASE j = Len(shown) + 1
    BY <1>2, <1>4, <2>1, <2>2, <2>3
  <2>4. CASE j # Len(shown) + 1
    <3>1. j \in 1 .. Len(shown) /\ shown'[j] = shown[j]
      BY <1>1, <1>2, <2>4
    <3>2. i \in DOMAIN shown /\ j \in DOMAIN shown /\ shown[j] \notin live
      BY <1>1, <1>4, <2>1, <3>1
    <3> QED
      BY <1>4, <2>1, <2>2, <3>1, <3>2
  <2> QED
    BY <2>3, <2>4
<1> QED
  BY <1>1, <1>4

\* What is said of the sources stays when more is shown.
LEMMA SourcesStay ==
    ASSUME NEW x \in Sources, UNCHANGED <<source, posted, saved, known>>, Seen \subseteq Seen', SourceShown(x)
    PROVE  SourceShown(x)'
BY DEF SourceShown, Sent

LEMMA AppendLiveChat ==
    ASSUME ChatInv, Chat!AppendLiveMessage
    PROVE  ChatInv'
<1>1. PICK m \in updates : /\ updates' = updates \ {m}
                           /\ shown' = IF active THEN Chat!AppendChatItem(m) ELSE shown
                           /\ live' = IF active /\ Chat!IsNew(m) THEN live \cup {m} ELSE live
  BY DEF Chat!AppendLiveMessage
<1>2. UNCHANGED <<kind, source, split, posted, active, cursor, chatDone, saved, takeout, loader, known, cut>>
  BY DEF Chat!AppendLiveMessage, Chat!historyVars
<1>3. m \in Sent /\ updates' \subseteq Sent
  BY <1>1 DEF ChatInv, ChatTypes
<1>4. \/ shown' = shown /\ live' = live /\ Seen' = Seen
      \/ shown' = Append(shown, m) /\ m \notin Seen /\ live' = live \cup {m} /\ Seen' = Seen \cup {m}
  <2>1. CASE active
    BY <1>1, <1>3, <2>1, ShowTypes DEF Seen
  <2>2. CASE ~active
    BY <1>1, <2>2 DEF Seen
  <2> QED
    BY <2>1, <2>2
<1>5. shown' \in Seq(Nat) /\ IsInjective(shown') /\ Seen' \subseteq Sent
  <2>1. CASE active
    BY <1>1, <1>3, <2>1, ShowTypes
  <2>2. CASE ~active
    BY <1>1, <2>2 DEF ChatInv, ChatTypes, Seen
  <2> QED
    BY <2>1, <2>2
<1>6. Seen \subseteq Seen' /\ Seen' \ live' = Seen \ live
  BY <1>4
<1>7. ChatTypes'
  BY <1>2, <1>3, <1>5 DEF ChatInv, ChatTypes, Sent, Chat!MaxMessages
<1>8. ChatKind' /\ ChatIsShown'
  BY <1>2, <1>6 DEF ChatInv, ChatKind, ChatIsShown
<1>9. ASSUME kind' = "history" PROVE HistoryShown'
  BY <1>2, <1>6, <1>9 DEF ChatInv, HistoryShown
<1>10. ASSUME kind' = "takeout" PROVE TakeoutShown'
  <2>1. TakeoutShown
    BY <1>2, <1>10 DEF ChatInv
  <2>2. \A k : (Left(k)' <=> Left(k)) /\ (Ahead(k)' <=> Ahead(k))
    BY <1>2 DEF Left, Ahead, Within, Chat!RangeCount
  <2>3. Chat!RangeCount' = Chat!RangeCount
    BY <1>2 DEF Chat!RangeCount
  <2> QED
    BY <1>2, <1>6, <2>1, <2>2, <2>3 DEF TakeoutShown
<1>11. ASSUME kind' = "saved" PROVE SavedShown'
  <2>1. SavedShown
    BY <1>2, <1>11 DEF ChatInv
  <2>2. \A x \in Sources : SourceShown(x) => SourceShown(x)'
    BY <1>2, <1>6, SourcesStay
  <2>3. \A p : Newer(p)' <=> Newer(p)
    BY <1>2 DEF Newer
  <2>4. (\A i, j \in DOMAIN shown : i < j /\ shown[i] \notin live /\ shown[j] \notin live => shown[i] > shown[j])'
    <3>1. \A i, j \in DOMAIN shown : i < j /\ shown[i] \notin live /\ shown[j] \notin live => shown[i] > shown[j]
      BY <2>1 DEF SavedShown
    <3>2. CASE shown' = shown /\ live' = live
      BY <3>1, <3>2
    <3>3. CASE shown' = Append(shown, m) /\ live' = live \cup {m}
      <4>1. shown \in Seq(Nat) /\ m \in Nat
        BY <1>3, ChatFacts DEF ChatInv, ChatTypes, Sent
      <4> QED
        BY <3>1, <3>3, <4>1, OrderKept
    <3> QED
      BY <1>4, <3>2, <3>3
  <2>5. saved' = None => Seen' \subseteq live'
    BY <1>2, <1>6, <2>1 DEF SavedShown
  <2>6. saved' # None => (\A x \in Sources : SourceShown(x)') /\ \A p \in Seen' \ live' : Newer(p)'
    BY <1>2, <1>6, <2>1, <2>2, <2>3 DEF SavedShown
  <2> QED
    BY <2>4, <2>5, <2>6 DEF SavedShown
<1> QED
  BY <1>7, <1>8, <1>9, <1>10, <1>11 DEF ChatInv

LEMMA ImportListChat ==
    ASSUME ChatInv, Chat!ImportList
    PROVE  ChatInv'
<1>1. /\ loader.at = "idle" /\ shown' = <<>> /\ cursor' = 0 /\ chatDone' = FALSE /\ saved' = None /\ takeout' = None
      /\ live' = {} /\ cut' = FALSE
      /\ UNCHANGED <<kind, source, split, posted, updates, active, loader, known>>
  BY DEF Chat!ImportList, Chat!historyVars
<1>2. shown' \in Seq(Nat) /\ IsInjective(shown') /\ Seen' = {} /\ DOMAIN shown' = {}
  BY <1>1 DEF IsInjective, Seen, ToSet
<1>3. ChatTypes'
  <2>1. Chat!MaxMessages' = Chat!MaxMessages /\ Sent' = Sent
    BY <1>1 DEF Chat!MaxMessages, Sent
  <2>2. cursor' \in 0 .. posted' /\ Seen' \subseteq Sent'
    BY <1>1, <1>2, ChatFacts
  <2>3. /\ kind \in {"history", "takeout", "saved"} /\ source \in [1 .. Chat!MaxMessages -> Sources]
        /\ posted \in 0 .. Chat!MaxMessages /\ split \in 0 .. posted /\ known \in 0 .. posted
        /\ updates \subseteq Sent /\ active \in BOOLEAN
        /\ loader \in LoaderRecords /\ loader.batch \subseteq Sent
    BY DEF ChatInv, ChatTypes
  <2> QED
    BY <1>1, <1>2, <2>1, <2>2, <2>3 DEF ChatTypes
<1>4. ChatKind' /\ ChatIsShown'
  BY <1>1 DEF ChatInv, ChatKind, ChatIsShown
<1>5. HistoryShown' /\ TakeoutShown'
  BY <1>1 DEF HistoryShown, TakeoutShown
<1>6. SavedShown'
  BY <1>1, <1>2 DEF SavedShown
<1> QED
  BY <1>3, <1>4, <1>5, <1>6 DEF ChatInv

\* A page begins at the cursor or at the newest message; the first one decides which
\* messages are to be shown.
LEMMA LoadPageChat ==
    ASSUME ChatInv, Chat!LoadChatPage
    PROVE  ChatInv'
<1> DEFINE l == [loader EXCEPT
                    !.at = [history |-> "page", takeout |-> "fetch", saved |-> "fill"][kind],
                    !.had = shown # <<>>,
                    !.offset = IF loader.older THEN cursor ELSE 0]
<1>1. /\ loader.at = "begin" /\ loader' = l
      /\ known' = IF cursor = 0 /\ ~chatDone /\ saved = None /\ takeout = None THEN posted ELSE known
      /\ saved' = IF kind = "saved" /\ saved = None THEN [x \in Sources |-> Chat!FreshSource] ELSE saved
      /\ takeout' = IF kind = "takeout" /\ takeout = None THEN [index |-> 1, cursor |-> 0] ELSE takeout
      /\ UNCHANGED <<kind, source, split, posted, updates, active, shown, cursor, chatDone, live, cut>>
  BY DEF Chat!LoadChatPage, Chat!UnchangedOutside, Chat!historyVars
<1>2. kind \in {"history", "takeout", "saved"}
  BY DEF ChatInv, ChatTypes
<1>3. /\ loader' \in LoaderRecords /\ loader'.batch = loader.batch /\ loader'.older = loader.older
      /\ loader'.count = loader.count /\ loader'.oldest = loader.oldest
      /\ loader'.had = (shown # <<>>) /\ loader'.offset = IF loader.older THEN cursor ELSE 0
      /\ kind = "history" => loader'.at = "page"
      /\ kind = "takeout" => loader'.at = "fetch"
      /\ kind = "saved" => loader'.at = "fill"
  <2>1. loader \in LoaderRecords /\ cursor \in Nat
    BY ChatFacts
  <2>2. /\ kind = "history" => l.at = "page"
        /\ kind = "takeout" => l.at = "fetch"
        /\ kind = "saved" => l.at = "fill"
    BY <2>1 DEF LoaderRecords
  <2>3. l.at \in {"page", "fetch", "fill"}
    BY <1>2, <2>2
  <2>4. /\ l \in LoaderRecords /\ l.batch = loader.batch /\ l.older = loader.older
        /\ l.count = loader.count /\ l.oldest = loader.oldest
        /\ l.had = (shown # <<>>) /\ l.offset = IF loader.older THEN cursor ELSE 0
    <3> DEFINE a == [history |-> "page", takeout |-> "fetch", saved |-> "fill"][kind]
    <3>1. a \in {"page", "fetch", "fill"}
      BY <2>1, <2>3 DEF LoaderRecords
    <3>2. l = [loader EXCEPT !.at = a, !.had = shown # <<>>, !.offset = IF loader.older THEN cursor ELSE 0]
      OBVIOUS
    <3> HIDE DEF a, l
    <3>3. (shown # <<>>) \in BOOLEAN
      OBVIOUS
    <3> DEFINE h == shown # <<>>
               o == IF loader.older THEN cursor ELSE 0
    <3>4. h \in BOOLEAN /\ o \in Nat /\ h = (shown # <<>>)
      BY <2>1
    <3>5. l = [loader EXCEPT !.at = a, !.had = h, !.offset = o]
      BY <3>2
    <3> HIDE DEF h
    <3>6. /\ l \in LoaderRecords /\ l.batch = loader.batch /\ l.older = loader.older
          /\ l.count = loader.count /\ l.oldest = loader.oldest /\ l.had = h /\ l.offset = o
      <4> HIDE DEF o
      <4> QED
        BY <2>1, <3>1, <3>4, <3>5 DEF LoaderRecords
    <3> QED
      BY <3>4, <3>6
  <2> HIDE DEF l
  <2> QED
    BY <1>1, <2>2, <2>4
<1> HIDE DEF l
<1>4. loader'.count = 0 /\ loader'.oldest = 0
  BY <1>1, <1>3 DEF ChatInv, ChatKind
<1>5. /\ known' \in 0 .. posted
      /\ cursor > 0 \/ chatDone \/ saved # None \/ takeout # None => known' = known
  BY <1>1, ChatFacts
<1>6. Chat!FreshSource \in SourceRecords /\ Chat!FreshSource.cursor = 0 /\ Chat!FreshSource.done = FALSE
      /\ Chat!FreshSource.pending = {}
  BY DEF Chat!FreshSource, SourceRecords
<1>7. saved' = None \/ saved' \in [Sources -> SourceRecords]
  <2>1. saved = None \/ saved \in [Sources -> SourceRecords]
    BY DEF ChatInv, ChatTypes
  <2> QED
    BY <1>1, <1>6, <2>1
<1>8. takeout' = None \/ takeout' \in [index : Nat, cursor : Nat]
  BY <1>1 DEF ChatInv, ChatTypes
<1>9. ChatTypes'
  <2>1. Chat!MaxMessages' = Chat!MaxMessages /\ Sent' = Sent /\ Seen' = Seen
    BY <1>1 DEF Chat!MaxMessages, Sent, Seen
  <2>2. /\ kind \in {"history", "takeout", "saved"} /\ source \in [1 .. Chat!MaxMessages -> Sources]
        /\ posted \in 0 .. Chat!MaxMessages /\ split \in 0 .. posted
        /\ updates \subseteq Sent /\ active \in BOOLEAN /\ chatDone \in BOOLEAN /\ cut \in BOOLEAN
        /\ shown \in Seq(Nat) /\ IsInjective(shown) /\ Seen \subseteq Sent /\ cursor \in 0 .. posted
        /\ loader.batch \subseteq Sent
    BY DEF ChatInv, ChatTypes
  <2> QED
    BY <1>1, <1>3, <1>5, <1>7, <1>8, <2>1, <2>2 DEF ChatTypes
<1>10. /\ kind = "history" => saved = None /\ takeout = None
       /\ kind = "takeout" => saved = None
       /\ kind = "saved" => takeout = None /\ cursor = 0
  BY DEF ChatInv, ChatKind
<1>11. /\ kind = "takeout" => takeout' # None
       /\ kind = "saved" => saved' # None
  <2>1. [index |-> 1, cursor |-> 0] \in [index : Nat, cursor : Nat]
    OBVIOUS
  <2>2. [index |-> 1, cursor |-> 0] # None
    BY <2>1, ChatAssumption
  <2>3. [x \in Sources |-> Chat!FreshSource] \in [Sources -> SourceRecords]
    BY <1>6
  <2>4. [x \in Sources |-> Chat!FreshSource] # None
    BY <2>3, ChatAssumption DEF SourceRecords
  <2> QED
    BY <1>1, <2>2, <2>4
<1>12. ChatKind'
  BY <1>1, <1>2, <1>3, <1>10, <1>11 DEF ChatKind
<1>13. ChatIsShown'
  BY <1>1, <1>5 DEF ChatInv, ChatIsShown, Seen
<1>14. ASSUME kind' = "history" PROVE HistoryShown'
  <2>1. HistoryShown /\ kind = "history"
    BY <1>1, <1>14 DEF ChatInv
  <2>2. cursor > 0 => cursor \in Seen /\ cursor .. known' \subseteq Seen
    BY <1>5, <2>1 DEF HistoryShown
  <2>3. shown = <<>> => cursor = 0
    <3>1. shown = <<>> => Seen = {}
      BY DEF Seen, ToSet
    <3> QED
      BY <2>2, <3>1, ChatFacts
  <2>4. loader'.offset = cursor \/ loader'.offset = 0
    BY <1>3
  <2>5. Seen' = Seen /\ cursor' = cursor /\ posted' = posted /\ cursor \in 0 .. posted /\ posted \in Nat
    BY <1>1, ChatFacts DEF Seen
  <2>6. loader'.older => loader'.offset = cursor
    BY <1>3
  <2>7. ~loader'.had => cursor = 0
    BY <1>3, <2>3
  <2> QED
    BY <1>4, <2>2, <2>4, <2>5, <2>6, <2>7 DEF HistoryShown
<1>15. ASSUME kind' = "takeout" PROVE TakeoutShown'
  <2>1. TakeoutShown /\ kind = "takeout" /\ loader'.at = "fetch"
    BY <1>1, <1>3, <1>15 DEF ChatInv
  <2>2. CASE takeout # None
    <3>1. takeout' = takeout /\ known' = known
      BY <1>1, <1>5, <2>2
    <3> QED
      BY <1>1, <2>1, <3>1 DEF TakeoutShown, Seen, Left, Ahead, Within, Chat!RangeCount
  <2>3. CASE takeout = None
    <3>1. takeout' = [index |-> 1, cursor |-> 0] /\ split' = split
      BY <1>1, <2>1, <2>3
    <3>2. ASSUME NEW m \in 1 .. known' PROVE Left(m)'
      <4>0. m \in Nat /\ m > 0 /\ split \in Nat
        BY <1>5, ChatFacts
      <4>1. CASE m > split
        <5>1. 1 \in 1 .. Chat!RangeCount'
          BY DEF Chat!RangeCount
        <5> QED
          BY <3>1, <4>1, <5>1 DEF Left, Ahead, Within
      <4>2. CASE m <= split
        <5>1. 2 \in 1 .. Chat!RangeCount'
          BY <3>1, <4>0, <4>2 DEF Chat!RangeCount
        <5> QED
          BY <3>1, <4>2, <5>1 DEF Left, Within
      <4> QED
        BY <4>0, <4>1, <4>2
    <3> QED
      BY <2>1, <3>1, <3>2 DEF TakeoutShown
  <2> QED
    BY <2>2, <2>3
<1>16. ASSUME kind' = "saved" PROVE SavedShown'
  <2>1. SavedShown /\ kind = "saved"
    BY <1>1, <1>16 DEF ChatInv
  <2>2. CASE saved # None
    <3>1. saved' = saved /\ known' = known
      BY <1>1, <1>5, <2>2
    <3>2. \A x \in Sources : SourceShown(x) => SourceShown(x)'
      BY <1>1, <3>1, SourcesStay DEF Seen
    <3>3. \A p : Newer(p)' <=> Newer(p)
      BY <3>1 DEF Newer
    <3> QED
      BY <1>1, <2>1, <3>1, <3>2, <3>3 DEF SavedShown, Seen
  <2>3. CASE saved = None
    <3>1. \A x \in Sources : saved'[x] = Chat!FreshSource
      BY <1>1, <2>1, <2>3
    <3>2. \A x \in Sources : SourceShown(x)'
      BY <1>6, <3>1 DEF SourceShown
    <3>3. Seen' \ live' = {} /\ saved' # None
      BY <1>1, <1>11, <2>1, <2>3 DEF SavedShown, Seen
    <3> QED
      BY <1>1, <2>1, <3>2, <3>3 DEF SavedShown
  <2> QED
    BY <2>2, <2>3
<1> QED
  BY <1>9, <1>12, <1>13, <1>14, <1>15, <1>16 DEF ChatInv

\* The next message of a history is the one below the offset.
LEMMA NextMessageChat ==
    ASSUME ChatInv, Chat!NextMessage
    PROVE  ChatInv'
<1> DEFINE below == Chat!Below(1 .. posted, loader.offset)
           m == Chat!Max(below)
           l == [loader EXCEPT !.offset = m, !.oldest = m, !.count = @ + 1]
<1>1. /\ loader.at = "page" /\ loader.count < PageSize /\ below # {}
      /\ shown' = Chat!AppendChatItem(m) /\ loader' = l
      /\ UNCHANGED <<kind, source, split, posted, updates, active, live, cursor, chatDone, saved, takeout, known, cut>>
  BY DEF Chat!NextMessage, Chat!UnchangedOutside, Chat!historyVars
<1>2. \A k : k \in below <=> k \in Sent /\ (loader.offset = 0 \/ k < loader.offset)
  BY DEF Chat!Below, Sent
<1>3. /\ posted \in Nat /\ known \in Nat /\ known <= posted /\ loader.offset \in Nat
      /\ loader \in LoaderRecords /\ cursor \in Nat /\ PageSize \in Nat /\ loader.count \in Nat
      /\ loader.batch \subseteq Sent
  BY ChatFacts, ChatConstants
<1>4. m \in below /\ \A k \in below : k <= m
  <2>1. below \subseteq 1 .. posted
    BY DEF Chat!Below
  <2> HIDE DEF below
  <2> QED
    BY <1>1, <1>3, <2>1, Extremes
<1>5. m \in Sent /\ m \in Nat /\ m > 0 /\ m <= posted /\ (loader.offset = 0 \/ m < loader.offset)
  <2>1. m \in Sent /\ (loader.offset = 0 \/ m < loader.offset)
    BY <1>2, <1>4
  <2> HIDE DEF m
  <2> QED
    BY <1>3, <2>1 DEF Sent
<1>6. \A k \in Sent : k > m => loader.offset > 0 /\ k >= loader.offset
  <2> SUFFICES ASSUME NEW k \in Sent, k > m PROVE loader.offset > 0 /\ k >= loader.offset
    OBVIOUS
  <2>1. k \notin below
    <3> HIDE DEF below, m
    <3>1. k \in Nat
      BY <1>3 DEF Sent
    <3> QED
      BY <1>4, <1>5, <3>1
  <2>2. k \in Nat
    BY <1>3 DEF Sent
  <2> QED
    BY <1>2, <1>3, <2>1, <2>2
<1> HIDE DEF m, below
<1>7. /\ loader' \in LoaderRecords /\ loader'.offset = m /\ loader'.oldest = m /\ loader'.count = loader.count + 1
      /\ loader'.at = "page" /\ loader'.older = loader.older /\ loader'.had = loader.had
      /\ loader'.batch = loader.batch
  <2>1. loader.count + 1 \in 0 .. PageSize
    BY <1>1, <1>3
  <2>2. l \in LoaderRecords /\ l.offset = m /\ l.oldest = m /\ l.count = loader.count + 1
        /\ l.at = loader.at /\ l.older = loader.older /\ l.had = loader.had
        /\ l.batch = loader.batch
    BY <1>3, <1>5, <2>1 DEF LoaderRecords
  <2> HIDE DEF l
  <2> QED
    BY <1>1, <2>2
<1> HIDE DEF l
<1>8. shown' \in Seq(Nat) /\ IsInjective(shown') /\ Seen' = Seen \cup {m} /\ Seen' \subseteq Sent
  BY <1>1, <1>5, ShowTypes
<1>9. ChatTypes'
  <2>1. Chat!MaxMessages' = Chat!MaxMessages /\ Sent' = Sent
    BY <1>1 DEF Chat!MaxMessages, Sent
  <2>2. /\ kind \in {"history", "takeout", "saved"} /\ source \in [1 .. Chat!MaxMessages -> Sources]
        /\ posted \in 0 .. Chat!MaxMessages /\ split \in 0 .. posted /\ known \in 0 .. posted
        /\ updates \subseteq Sent /\ active \in BOOLEAN /\ chatDone \in BOOLEAN /\ cut \in BOOLEAN
        /\ cursor \in 0 .. posted
        /\ saved = None \/ saved \in [Sources -> SourceRecords]
        /\ takeout = None \/ takeout \in [index : Nat, cursor : Nat]
    BY DEF ChatInv, ChatTypes
  <2> QED
    BY <1>1, <1>3, <1>7, <1>8, <2>1, <2>2 DEF ChatTypes
<1>10. kind = "history"
  BY <1>1 DEF ChatInv, ChatKind, ChatTypes
<1>11. ChatKind' /\ ChatIsShown'
  BY <1>1, <1>7, <1>8, <1>10 DEF ChatInv, ChatKind, ChatIsShown
<1>12. HistoryShown'
  <2>1. HistoryShown
    BY <1>10 DEF ChatInv
  <2>2. cursor > 0 => cursor \in Seen' /\ cursor .. known \subseteq Seen'
    BY <1>8, <2>1 DEF HistoryShown
  <2>3. m .. known \subseteq Seen'
    <3> SUFFICES ASSUME NEW k \in m .. known PROVE k \in Seen'
      OBVIOUS
    <3>1. k \in Sent /\ k \in Nat /\ k >= m /\ k <= known
      BY <1>3, <1>5 DEF Sent
    <3>2. CASE k = m
      BY <1>8, <3>2
    <3>3. CASE k # m
      <4>1. loader.offset > 0 /\ k >= loader.offset
        BY <1>5, <1>6, <3>1, <3>3
      <4>2. loader.offset .. known \subseteq Seen
        BY <1>1, <2>1, <4>1 DEF HistoryShown
      <4> QED
        BY <1>3, <1>8, <3>1, <4>1, <4>2
    <3> QED
      BY <3>2, <3>3
  <2>4. m \in Seen' /\ m \in 0 .. posted
    BY <1>3, <1>5, <1>8
  <2>5. loader.older /\ cursor > 0 => m < cursor
    BY <1>1, <1>3, <1>5, <2>1 DEF HistoryShown
  <2>6. loader'.count > 0
    BY <1>3, <1>7
  <2>7. ~loader'.older /\ ~loader'.had => cursor = 0
    BY <1>1, <1>7, <2>1 DEF HistoryShown
  <2> QED
    BY <1>1, <1>3, <1>5, <1>7, <2>2, <2>3, <2>4, <2>5, <2>6, <2>7 DEF HistoryShown
<1> QED
  BY <1>1, <1>9, <1>10, <1>11, <1>12 DEF ChatInv

\* A page that ends below which there is nothing has shown all there was.
LEMMA EndPageChat ==
    ASSUME ChatInv, Chat!EndPage
    PROVE  ChatInv'
<1> DEFINE next == Chat!AdvanceChatPage(cursor, loader.oldest, loader.count)
           below == Chat!Below(1 .. posted, loader.offset)
<1>1. /\ loader.at = "page" /\ loader' = Chat!Idle
      /\ loader.count = PageSize \/ below = {}
      /\ IF ~loader.had \/ loader.older
         THEN cursor' = next.cursor /\ chatDone' = next.done
         ELSE UNCHANGED <<cursor, chatDone>>
      /\ UNCHANGED <<kind, source, split, posted, updates, active, live, shown, saved, takeout, known, cut>>
  BY DEF Chat!EndPage, Chat!UnchangedOutside, Chat!historyVars
<1>2. /\ posted \in Nat /\ known \in Nat /\ known <= posted /\ loader.offset \in Nat /\ loader.oldest \in Nat
      /\ cursor \in Nat /\ cursor <= posted /\ PageSize \in Nat /\ PageSize > 0 /\ loader.count \in Nat
      /\ loader.count <= PageSize
  BY ChatFacts, ChatConstants
<1>3. HistoryShown /\ kind = "history"
  BY <1>1 DEF ChatInv, ChatKind, ChatTypes
<1>4. below = {} => 1 .. known \subseteq Seen
  <2> SUFFICES ASSUME below = {}, NEW k \in 1 .. known PROVE k \in Seen
    OBVIOUS
  <2>1. k \in Nat /\ k > 0 /\ k <= known /\ 1 \in 1 .. posted
    BY <1>2
  <2>2. loader.offset > 0 /\ ~(1 < loader.offset)
    BY <1>2, <2>1 DEF Chat!Below
  <2>3. loader.offset = 1 /\ loader.offset .. known \subseteq Seen
    BY <1>1, <1>2, <1>3, <2>2 DEF HistoryShown
  <2> QED
    BY <2>3
<1>5. ASSUME ~loader.had \/ loader.older
      PROVE  \/ cursor' = cursor /\ chatDone' = TRUE /\ 1 .. known \subseteq Seen
             \/ /\ cursor' = loader.oldest /\ loader.oldest \in Seen /\ loader.oldest .. known \subseteq Seen
                /\ loader.oldest \in 0 .. posted
                /\ chatDone' = FALSE \/ (chatDone' = TRUE /\ 1 .. known \subseteq Seen)
  <2> DEFINE last == loader.count = 0 \/ loader.oldest = 0 \/ (cursor > 0 /\ loader.oldest >= cursor)
  <2>1. CASE last
    <3>1. cursor' = cursor /\ chatDone' = TRUE
      BY <1>1, <1>5, <2>1 DEF Chat!AdvanceChatPage
    <3>2. loader.count = 0
      BY <1>1, <1>2, <1>3, <1>5, <2>1 DEF HistoryShown
    <3>3. below = {}
      BY <1>1, <1>2, <3>2
    <3> QED
      BY <1>4, <3>1, <3>3
  <2>2. CASE ~last
    <3>1. cursor' = loader.oldest /\ chatDone' = (loader.count < PageSize)
      BY <1>1, <1>5, <2>2 DEF Chat!AdvanceChatPage
    <3>2. loader.count > 0
      BY <1>2, <2>2
    <3>3. loader.oldest \in Seen /\ loader.oldest .. known \subseteq Seen /\ loader.oldest \in 0 .. posted
      BY <1>1, <1>3, <3>2 DEF HistoryShown
    <3>4. loader.count < PageSize => below = {}
      BY <1>1, <1>2
    <3>5. CASE loader.count < PageSize
      <4>1. chatDone' = TRUE /\ 1 .. known \subseteq Seen
        BY <1>4, <3>1, <3>4, <3>5
      <4> HIDE DEF last
      <4> QED
        BY <3>1, <3>3, <4>1
    <3>6. CASE ~(loader.count < PageSize)
      <4>1. chatDone' = FALSE
        <5> DEFINE short == loader.count < PageSize
        <5>1. chatDone' = short /\ short \in BOOLEAN /\ ~short
          BY <1>2, <3>1, <3>6
        <5> HIDE DEF short
        <5> QED
          BY <5>1
      <4> HIDE DEF last
      <4> QED
        BY <3>1, <3>3, <4>1
    <3> QED
      BY <3>5, <3>6
  <2> HIDE DEF last
  <2> QED
    BY <2>1, <2>2
<1> HIDE DEF next, below
<1>6. CASE ~loader.had \/ loader.older
  <2>1. /\ cursor' \in 0 .. posted /\ chatDone' \in BOOLEAN
        /\ cursor' > 0 => cursor' \in Seen /\ cursor' .. known \subseteq Seen
        /\ chatDone' => 1 .. known \subseteq Seen
    <3>1. CASE cursor' = cursor /\ chatDone' = TRUE /\ 1 .. known \subseteq Seen
      BY <1>2, <1>3, <3>1 DEF HistoryShown
    <3> QED
      BY <1>5, <1>6, <3>1
  <2>2. ChatTypes'
    <3>1. Chat!MaxMessages' = Chat!MaxMessages /\ Sent' = Sent /\ Seen' = Seen
      BY <1>1 DEF Chat!MaxMessages, Sent, Seen
    <3> QED
      BY <1>1, <2>1, <3>1, IdleLoader DEF ChatInv, ChatTypes
  <2>3. ChatKind'
    BY <1>1, <1>3, IdleLoader DEF ChatInv, ChatKind
  <2>4. ChatIsShown' /\ HistoryShown'
    BY <1>1, <2>1, IdleLoader DEF ChatIsShown, HistoryShown, Seen
  <2> QED
    BY <1>1, <1>3, <2>2, <2>3, <2>4 DEF ChatInv
<1>7. CASE ~(~loader.had \/ loader.older)
  <2>1. UNCHANGED <<cursor, chatDone>>
    BY <1>1, <1>7
  <2>2. updates' \subseteq Sent /\ active' \in BOOLEAN
    BY <1>1 DEF ChatInv, ChatTypes
  <2> QED
    BY <1>1, <2>1, <2>2, IdleLoader, ChatRests
<1> QED
  BY <1>6, <1>7

\* A takeout, when only its loader, its position and what is shown change.
LEMMA TakeoutSteps ==
    ASSUME ChatInv, kind = "takeout", loader' \in LoaderRecords, loader'.batch \subseteq loader.batch \cup Sent,
           loader'.at \in {"idle", "fetch", "batch"}, takeout' \in [index : Nat, cursor : Nat],
           shown' \in Seq(Nat), IsInjective(shown'), Seen \subseteq Seen', Seen' \subseteq Sent,
           cut' \in BOOLEAN, chatDone' \in BOOLEAN,
           UNCHANGED <<kind, source, split, posted, updates, active, live, cursor, saved, known>>,
           ~cut' => ~cut, chatDone' = chatDone \/ ChatIsShown', TakeoutShown'
    PROVE  ChatInv'
<1>1. ChatTypes'
  <2>1. Chat!MaxMessages' = Chat!MaxMessages /\ Sent' = Sent
    BY DEF Chat!MaxMessages, Sent
  <2>2. /\ kind \in {"history", "takeout", "saved"} /\ source \in [1 .. Chat!MaxMessages -> Sources]
        /\ posted \in 0 .. Chat!MaxMessages /\ split \in 0 .. posted /\ known \in 0 .. posted
        /\ updates \subseteq Sent /\ active \in BOOLEAN /\ cursor \in 0 .. posted
        /\ saved = None \/ saved \in [Sources -> SourceRecords]
        /\ loader.batch \subseteq Sent
    BY DEF ChatInv, ChatTypes
  <2> QED
    BY <2>1, <2>2 DEF ChatTypes
<1>2. ChatKind'
  <2>1. takeout' # None
    BY ChatAssumption
  <2> QED
    BY <2>1 DEF ChatInv, ChatKind
<1>3. ChatIsShown'
  BY DEF ChatInv, ChatIsShown
<1> QED
  BY <1>1, <1>2, <1>3 DEF ChatInv

\* The batch that is asked for has the newest of what the range has left.
LEMMA TakeoutFetchChat ==
    ASSUME ChatInv, Chat!TakeoutFetch
    PROVE  ChatInv'
<1> DEFINE S == Chat!Below(Chat!RangeOf(takeout.index), takeout.cursor)
           N == Chat!Newest(S, Batch)
           l == [loader EXCEPT !.at = "batch", !.batch = N, !.got = Chat!Cardinality(N), !.oldest = 0]
<1>1. /\ loader.at = "fetch" /\ loader.count < PageSize /\ takeout.index <= Chat!RangeCount
      /\ loader' = l
      /\ UNCHANGED <<kind, source, split, posted, updates, active, live, shown, cursor, chatDone, saved, takeout, known, cut>>
  BY DEF Chat!TakeoutFetch, Chat!UnchangedOutside, Chat!historyVars, Chat!serverVars
<1>2. kind = "takeout" /\ TakeoutShown /\ takeout \in [index : Nat, cursor : Nat]
  BY <1>1 DEF ChatInv, ChatKind, ChatTypes
<1>3. takeout.index > 0 /\ takeout.index \in Nat /\ takeout.cursor \in Nat
  <2>1. takeout # None
    BY <1>2, ChatAssumption
  <2> QED
    BY <1>2, <2>1 DEF TakeoutShown
<1>4. /\ posted \in Nat /\ known \in Nat /\ known <= posted /\ split \in Nat /\ split <= posted
      /\ loader \in LoaderRecords /\ Batch \in Nat
  BY ChatFacts, ChatConstants
<1>5. takeout.index = 1 \/ (takeout.index = 2 /\ split > 0)
  BY <1>1, <1>3, <1>4 DEF Chat!RangeCount
<1>6. \A m : m \in S <=> m \in Sent /\ Ahead(m)
  <2>1. CASE takeout.index = 1
    <3>1. \A m : m \in S <=> m \in split + 1 .. posted /\ (takeout.cursor = 0 \/ m < takeout.cursor)
      BY <2>1 DEF Chat!Below, Chat!RangeOf
    <3>2. \A m : m \in split + 1 .. posted <=> m \in Sent /\ m > split
      BY <1>4 DEF Sent
    <3> HIDE DEF S
    <3> QED
      BY <2>1, <3>1, <3>2 DEF Ahead, Within
  <2>2. CASE takeout.index = 2
    <3>1. \A m : m \in S <=> m \in 1 .. split /\ (takeout.cursor = 0 \/ m < takeout.cursor)
      BY <2>2 DEF Chat!Below, Chat!RangeOf
    <3>2. \A m : m \in 1 .. split <=> m \in Sent /\ m <= split
      BY <1>4 DEF Sent
    <3> HIDE DEF S
    <3> QED
      BY <2>2, <3>1, <3>2 DEF Ahead, Within
  <2> QED
    BY <1>5, <2>1, <2>2
<1>7. S \subseteq 1 .. posted
  BY <1>6 DEF Sent
<1> HIDE DEF S
<1>8. /\ N \subseteq S /\ Chat!Cardinality(N) \in Nat
      /\ Chat!Cardinality(N) = 0 <=> N = {}
      /\ Chat!Cardinality(N) < Batch => N = S
      /\ \A m \in S \ N : \A b \in N : m < b
  BY <1>4, <1>7, NewestFacts
<1> HIDE DEF N
<1>9. /\ loader' \in LoaderRecords /\ loader'.at = "batch" /\ loader'.batch = N /\ loader'.oldest = 0
      /\ loader'.got = Chat!Cardinality(N) /\ loader'.count = loader.count
  <2>1. N \in SUBSET Nat
    BY <1>4, <1>7, <1>8
  <2>2. \A g \in Nat : LET x == [loader EXCEPT !.at = "batch", !.batch = N, !.got = g, !.oldest = 0] IN
           /\ x \in LoaderRecords /\ x.at = "batch" /\ x.batch = N /\ x.oldest = 0
           /\ x.got = g /\ x.count = loader.count
    BY <1>4, <2>1 DEF LoaderRecords
  <2> QED
    BY <1>1, <1>8, <2>2
<1> HIDE DEF l
<1>10. TakeoutShown'
  <2>1. Seen' = Seen /\ Chat!RangeCount' = Chat!RangeCount /\ \A m : (Ahead(m)' <=> Ahead(m)) /\ (Left(m)' <=> Left(m))
    BY <1>1 DEF Seen, Chat!RangeCount, Ahead, Left, Within
  <2>2. ASSUME NEW m \in 1 .. known, Ahead(m)
        PROVE  m \in N \/ (Chat!Cardinality(N) >= Batch /\ \A b \in N : m < b)
    <3>1. m \in S
      BY <1>4, <1>6, <2>2 DEF Sent
    <3>2. CASE m \notin N
      BY <1>4, <1>8, <3>1, <3>2
    <3> QED
      BY <3>2
  <2>3. \A m \in N : Ahead(m)
    BY <1>6, <1>8
  <2>4. takeout' # None => takeout'.index > 0 /\ (~cut' => \A m \in 1 .. known' : m \in Seen' \/ Left(m)')
    BY <1>1, <1>2, <2>1 DEF TakeoutShown
  <2>5. ~(loader'.oldest > 0) /\ (loader'.batch = {} => loader'.got = 0) /\ loader'.count < PageSize
    BY <1>1, <1>8, <1>9
  <2> QED
    BY <1>1, <1>9, <2>1, <2>2, <2>3, <2>4, <2>5 DEF TakeoutShown
<1>11. shown' \in Seq(Nat) /\ IsInjective(shown') /\ Seen' = Seen /\ Seen \subseteq Sent
       /\ cut' \in BOOLEAN /\ chatDone' \in BOOLEAN
  BY <1>1 DEF ChatInv, ChatTypes, Seen
<1>12. loader'.batch \subseteq Sent
  BY <1>6, <1>8, <1>9
<1> QED
  BY <1>1, <1>2, <1>9, <1>10, <1>11, <1>12, TakeoutSteps

\* A message of the batch is shown; when the page is full the rest waits below it.
LEMMA TakeoutMessageChat ==
    ASSUME ChatInv, Chat!TakeoutMessage
    PROVE  ChatInv'
<1> DEFINE m == Chat!Max(loader.batch)
           count == loader.count + (IF Chat!IsNew(m) THEN 1 ELSE 0)
           full == Chat!IsNew(m) /\ count >= PageSize
           rest == loader.batch \ {m}
           l == [loader EXCEPT !.oldest = m, !.count = count, !.batch = IF full THEN {} ELSE rest]
<1>1. /\ loader.at = "batch" /\ loader.batch # {}
      /\ shown' = Chat!AppendChatItem(m) /\ loader' = l
      /\ cut' = (cut \/ (full /\ rest # {} /\ loader.got < Batch))
      /\ UNCHANGED <<kind, source, split, posted, updates, active, live, cursor, chatDone, saved, takeout, known>>
  BY DEF Chat!TakeoutMessage, Chat!UnchangedOutside, Chat!historyVars
<1>2. kind = "takeout" /\ TakeoutShown /\ takeout \in [index : Nat, cursor : Nat]
  BY <1>1 DEF ChatInv, ChatKind, ChatTypes
<1>3. /\ posted \in Nat /\ known \in Nat /\ known <= posted /\ loader \in LoaderRecords /\ loader.batch \subseteq 1 .. posted
      /\ Batch \in Nat /\ PageSize \in Nat /\ loader.count \in Nat /\ loader.got \in Nat
      /\ loader.batch \subseteq Sent
  BY ChatFacts, ChatConstants DEF Sent
<1>4. m \in loader.batch /\ \A k \in loader.batch : k <= m
  BY <1>1, <1>3, Extremes
<1>5. m \in Sent /\ m \in Nat /\ m > 0
  <2> HIDE DEF m
  <2> QED
    BY <1>3, <1>4 DEF Sent
<1> HIDE DEF m
<1>6. /\ shown' \in Seq(Nat) /\ IsInjective(shown') /\ Seen' = Seen \cup {m} /\ Seen' \subseteq Sent
  BY <1>1, <1>5, ShowTypes
<1>7. loader.count < PageSize
  BY <1>1, <1>2 DEF TakeoutShown
<1>8. count \in 0 .. PageSize /\ (~full => count < PageSize)
  <2>1. CASE Chat!IsNew(m)
    BY <1>3, <1>7, <2>1
  <2>2. CASE ~Chat!IsNew(m)
    BY <1>3, <1>7, <2>2
  <2> QED
    BY <2>1, <2>2
<1>9. /\ full => cut' = (cut \/ (rest # {} /\ loader.got < Batch))
      /\ cut' \in BOOLEAN /\ (~cut' => ~cut)
  BY <1>1 DEF ChatInv, ChatTypes
<1>10. full \in BOOLEAN
  BY DEF full
<1> HIDE DEF count, full
<1> DEFINE b == IF full THEN {} ELSE rest
<1>11. /\ loader' \in LoaderRecords /\ loader'.at = "batch" /\ loader'.batch = b /\ loader'.oldest = m
       /\ loader'.got = loader.got /\ loader'.count = count
  <2>1. b \in SUBSET Nat
    BY <1>3
  <2>2. l = [loader EXCEPT !.oldest = m, !.count = count, !.batch = b]
    OBVIOUS
  <2> HIDE DEF b
  <2>3. /\ l \in LoaderRecords /\ l.at = "batch" /\ l.batch = b /\ l.oldest = m
        /\ l.got = loader.got /\ l.count = count
    BY <1>1, <1>3, <1>5, <1>8, <2>1, <2>2 DEF LoaderRecords
  <2> QED
    BY <1>1, <2>3
<1> HIDE DEF l
<1>12. TakeoutShown'
  <2>1. Chat!RangeCount' = Chat!RangeCount /\ \A k : (Ahead(k)' <=> Ahead(k)) /\ (Left(k)' <=> Left(k))
    BY <1>1 DEF Chat!RangeCount, Ahead, Left, Within
  <2>2. b \subseteq loader.batch
    OBVIOUS
  <2>3. takeout' # None => takeout'.index > 0 /\ (~cut' => \A k \in 1 .. known' : k \in Seen' \/ Left(k)')
    BY <1>1, <1>2, <1>6, <1>9, <2>1 DEF TakeoutShown
  <2>4. \A k \in loader.batch : Ahead(k)
    BY <1>1, <1>2 DEF TakeoutShown
  <2>5. ASSUME ~cut', NEW k \in 1 .. known, Ahead(k)
        PROVE  \/ k \in Seen' \/ k \in b
               \/ /\ loader.got >= Batch /\ \A x \in b : k < x
                  /\ k < m
    <3>1. \/ k \in Seen \/ k \in loader.batch
          \/ loader.got >= Batch /\ \A x \in loader.batch : k < x
      BY <1>1, <1>2, <1>9, <2>5 DEF TakeoutShown
    <3>2. CASE k \in Seen
      BY <1>6, <3>2
    <3>3. CASE k \in loader.batch
      <4>1. CASE k = m
        BY <1>6, <4>1
      <4>2. CASE k # m /\ ~full
        BY <3>3, <4>2
      <4>3. CASE k # m /\ full
        <5>1. k \in rest /\ b = {} /\ k <= m /\ k \in Nat
          BY <1>3, <1>4, <3>3, <4>3
        <5>2. ~(loader.got < Batch)
          BY <1>9, <2>5, <4>3, <5>1
        <5> HIDE DEF b, rest
        <5> QED
          BY <1>3, <1>5, <4>3, <5>1, <5>2
      <4> QED
        BY <4>1, <4>2, <4>3
    <3>4. CASE loader.got >= Batch /\ \A x \in loader.batch : k < x
      BY <1>4, <2>2, <3>4
    <3> QED
      BY <3>1, <3>2, <3>3, <3>4
  <2>6. b # {} => count < PageSize
    BY <1>8
  <2>7. takeout'.index <= Chat!RangeCount'
    BY <1>1, <1>2, <2>1 DEF TakeoutShown
  <2> HIDE DEF b
  <2> QED
    BY <1>1, <1>4, <1>5, <1>11, <2>1, <2>2, <2>3, <2>4, <2>5, <2>6, <2>7 DEF TakeoutShown
<1>13. loader'.batch \subseteq Sent /\ chatDone' \in BOOLEAN /\ chatDone' = chatDone
  BY <1>1, <1>3, <1>11 DEF ChatInv, ChatTypes
<1> HIDE DEF b
<1> QED
  BY <1>1, <1>2, <1>6, <1>9, <1>11, <1>12, <1>13, TakeoutSteps

\* After a batch the position is below its oldest message, or in the next range.
LEMMA TakeoutBatchDoneChat ==
    ASSUME ChatInv, Chat!TakeoutBatchDone
    PROVE  ChatInv'
<1> DEFINE last == Chat!LastBatch(loader.got, loader.oldest, takeout.cursor)
           l == [loader EXCEPT !.at = "fetch"]
<1>1. /\ loader.at = "batch" /\ loader.batch = {} /\ loader' = l
      /\ takeout' = IF last THEN [index |-> takeout.index + 1, cursor |-> 0]
                    ELSE [takeout EXCEPT !.cursor = loader.oldest]
      /\ UNCHANGED <<kind, source, split, posted, updates, active, live, shown, cursor, chatDone, saved, known, cut>>
  BY DEF Chat!TakeoutBatchDone, Chat!TakeoutNext, Chat!UnchangedOutside, Chat!historyVars
<1>2. kind = "takeout" /\ TakeoutShown /\ takeout \in [index : Nat, cursor : Nat]
  BY <1>1 DEF ChatInv, ChatKind, ChatTypes
<1>3. takeout # None
  BY <1>2, ChatAssumption
<1>4. takeout.index \in Nat /\ takeout.cursor \in Nat /\ takeout.index > 0
  BY <1>2, <1>3 DEF TakeoutShown
<1>5. /\ loader \in LoaderRecords /\ Batch \in Nat /\ Batch > 0 /\ loader.got \in Nat /\ loader.oldest \in Nat
      /\ posted \in Nat /\ known \in Nat /\ split \in Nat /\ loader.batch \subseteq Sent
  BY ChatFacts, ChatConstants
<1>6. loader' \in LoaderRecords /\ loader'.at = "fetch" /\ loader'.batch = loader.batch
  <2>1. l \in LoaderRecords /\ l.at = "fetch" /\ l.batch = loader.batch
    BY <1>5 DEF LoaderRecords
  <2> HIDE DEF l
  <2> QED
    BY <1>1, <2>1
<1>7. ~cut => \A m \in 1 .. known : Ahead(m) =>
         m \in Seen \/ (loader.got >= Batch /\ (loader.oldest > 0 => m < loader.oldest))
  BY <1>1, <1>2 DEF TakeoutShown
<1>8. \A m \in Nat : Ahead(m) => takeout.cursor = 0 \/ m < takeout.cursor
  BY DEF Ahead
<1>9. ~cut => \A m \in 1 .. known : m \in Seen \/ Left(m)
  BY <1>2, <1>3 DEF TakeoutShown
<1>10. ASSUME takeout' \in [index : Nat, cursor : Nat], takeout'.index > 0,
              ~cut => \A m \in 1 .. known : m \in Seen \/ Left(m)'
       PROVE  ChatInv'
  <2>1. shown' \in Seq(Nat) /\ IsInjective(shown') /\ Seen' = Seen /\ Seen \subseteq Sent
        /\ cut' \in BOOLEAN /\ chatDone' \in BOOLEAN
    BY <1>1 DEF ChatInv, ChatTypes, Seen
  <2>2. TakeoutShown'
    BY <1>1, <1>6, <1>10, <2>1 DEF TakeoutShown
  <2>3. loader'.batch \subseteq loader.batch \cup Sent
    BY <1>6
  <2> QED
    BY <1>1, <1>2, <1>6, <1>10, <2>1, <2>2, <2>3, TakeoutSteps
\* What is in a range that follows is left whatever the batch was.
<1>11. ASSUME NEW m, NEW i \in 1 .. Chat!RangeCount, Within(m, i), i > takeout'.index
       PROVE  Left(m)'
  <2>1. i \in 1 .. Chat!RangeCount' /\ Within(m, i)'
    BY <1>1, <1>11 DEF Chat!RangeCount, Within
  <2> QED
    BY <1>11, <2>1 DEF Left
<1>12. CASE last
  <2>1. takeout' = [index |-> takeout.index + 1, cursor |-> 0]
    BY <1>1, <1>12
  <2>2. loader.got < Batch
    <3>1. loader.oldest = 0 => loader.got = 0
      BY <1>1, <1>2 DEF TakeoutShown
    <3>2. loader.oldest > 0 => Ahead(loader.oldest)
      BY <1>1, <1>2 DEF TakeoutShown
    <3>3. ~(takeout.cursor > 0 /\ loader.oldest >= takeout.cursor)
      BY <1>4, <1>5, <1>8, <3>2
    <3> QED
      BY <1>5, <1>12, <3>1, <3>3 DEF Chat!LastBatch
  <2>3. ASSUME ~cut, NEW m \in 1 .. known, m \notin Seen PROVE Left(m)'
    <3>1. ~Ahead(m)
      BY <1>5, <1>7, <2>2, <2>3
    <3>2. PICK i \in 1 .. Chat!RangeCount : Within(m, i) /\ i > takeout.index
      BY <1>9, <2>3, <3>1 DEF Left
    <3>3. i \in Nat /\ Within(m, i)' /\ i \in 1 .. Chat!RangeCount'
      BY <1>1, <3>2 DEF Chat!RangeCount, Within
    <3>4. takeout'.index = takeout.index + 1 /\ takeout'.cursor = 0
      BY <2>1
    <3>5. CASE i > takeout'.index
      BY <1>11, <3>2, <3>5
    <3>6. CASE i = takeout'.index
      <4>1. Ahead(m)'
        BY <3>3, <3>4, <3>6 DEF Ahead
      <4> QED
        BY <3>3, <3>6, <4>1 DEF Left
    <3> QED
      BY <1>4, <3>2, <3>3, <3>4, <3>5, <3>6
  <2>4. takeout' \in [index : Nat, cursor : Nat] /\ takeout'.index > 0
    BY <1>4, <2>1
  <2> QED
    BY <1>10, <2>3, <2>4
<1>13. CASE ~last
  <2>1. takeout' = [takeout EXCEPT !.cursor = loader.oldest]
    BY <1>1, <1>13
  <2>2. takeout' \in [index : Nat, cursor : Nat] /\ takeout'.index = takeout.index
        /\ takeout'.cursor = loader.oldest
    BY <1>2, <1>5, <2>1
  <2>3. loader.oldest > 0
    BY <1>5, <1>13 DEF Chat!LastBatch
  <2>4. ASSUME ~cut, NEW m \in 1 .. known, m \notin Seen PROVE Left(m)'
    <3>1. PICK i \in 1 .. Chat!RangeCount :
             Within(m, i) /\ (i > takeout.index \/ (i = takeout.index /\ Ahead(m)))
      BY <1>9, <2>4 DEF Left
    <3>2. CASE i > takeout.index
      BY <1>11, <2>2, <3>1, <3>2
    <3>3. CASE i = takeout.index /\ Ahead(m)
      <4>1. m < loader.oldest
        BY <1>7, <2>3, <2>4, <3>3
      <4>2. i \in 1 .. Chat!RangeCount' /\ Within(m, i)' /\ i = takeout'.index
        BY <1>1, <2>2, <3>1, <3>3 DEF Chat!RangeCount, Within
      <4>3. Ahead(m)'
        BY <2>2, <4>1, <4>2 DEF Ahead
      <4> QED
        BY <4>2, <4>3 DEF Left
    <3> QED
      BY <3>1, <3>2, <3>3
  <2> QED
    BY <1>4, <1>10, <2>2, <2>4
<1> QED
  BY <1>12, <1>13

LEMMA TakeoutEndChat ==
    ASSUME ChatInv, Chat!TakeoutEnd
    PROVE  ChatInv'
<1>1. /\ loader.at = "fetch" /\ loader' = Chat!Idle /\ chatDone' = (takeout.index > Chat!RangeCount)
      /\ UNCHANGED <<kind, source, split, posted, updates, active, live, shown, cursor, saved, takeout, known, cut>>
  BY DEF Chat!TakeoutEnd, Chat!UnchangedOutside, Chat!historyVars
<1>2. kind = "takeout" /\ TakeoutShown /\ takeout \in [index : Nat, cursor : Nat] /\ takeout # None
  BY <1>1 DEF ChatInv, ChatKind, ChatTypes
<1>3. takeout.index \in Nat /\ takeout.cursor \in Nat
  BY <1>2
<1>4. Seen' = Seen /\ shown' \in Seq(Nat) /\ IsInjective(shown') /\ Seen \subseteq Sent /\ cut' \in BOOLEAN
  BY <1>1 DEF ChatInv, ChatTypes, Seen
<1>5. TakeoutShown'
  <2>1. \A m : Left(m)' <=> Left(m)
    BY <1>1 DEF Left, Ahead, Within, Chat!RangeCount
  <2> QED
    BY <1>1, <1>2, <1>4, <2>1, IdleLoader DEF TakeoutShown
<1>6. ASSUME takeout.index > Chat!RangeCount, ~cut PROVE 1 .. known \subseteq Seen
  <2>1. Chat!RangeCount \in Nat
    BY DEF Chat!RangeCount
  <2>2. \A m : ~Left(m)
    BY <1>3, <1>6, <2>1 DEF Left
  <2> QED
    BY <1>2, <1>6, <2>2 DEF TakeoutShown
<1>7. ChatIsShown'
  BY <1>1, <1>4, <1>6 DEF ChatIsShown
<1>8. chatDone' \in BOOLEAN
  BY <1>1
<1> QED
  BY <1>1, <1>2, <1>4, <1>5, <1>7, <1>8, IdleLoader, TakeoutSteps

\* Saved messages, when only their loader, the sources and what is shown change.
LEMMA SavedSteps ==
    ASSUME ChatInv, kind = "saved", loader' \in LoaderRecords, loader'.batch = {} \/ loader'.batch = loader.batch,
           loader'.at \in {"idle", "fill"}, saved' \in [Sources -> SourceRecords],
           shown' \in Seq(Nat), IsInjective(shown'), Seen \subseteq Seen', Seen' \subseteq Sent,
           chatDone' \in BOOLEAN, cursor' = 0,
           UNCHANGED <<kind, source, split, posted, updates, active, live, cut, takeout, known>>,
           chatDone' = chatDone \/ ChatIsShown',
           \A x \in Sources : SourceShown(x)',
           \A p \in Seen' \ live' : Newer(p)',
           (\A i, j \in DOMAIN shown : i < j /\ shown[i] \notin live /\ shown[j] \notin live => shown[i] > shown[j])'
    PROVE  ChatInv'
<1>1. ChatTypes'
  <2>1. Chat!MaxMessages' = Chat!MaxMessages /\ Sent' = Sent
    BY DEF Chat!MaxMessages, Sent
  <2>2. /\ kind \in {"history", "takeout", "saved"} /\ source \in [1 .. Chat!MaxMessages -> Sources]
        /\ posted \in 0 .. Chat!MaxMessages /\ split \in 0 .. posted /\ known \in 0 .. posted
        /\ updates \subseteq Sent /\ active \in BOOLEAN /\ cut \in BOOLEAN
        /\ takeout = None \/ takeout \in [index : Nat, cursor : Nat]
        /\ loader.batch \subseteq Sent
    BY DEF ChatInv, ChatTypes
  <2>3. 0 \in 0 .. posted /\ loader'.batch \subseteq Sent
    BY <2>2, ChatFacts
  <2> QED
    BY <2>1, <2>2, <2>3 DEF ChatTypes
<1>2. saved' # None
  BY ChatAssumption DEF SourceRecords
<1>3. ChatKind'
  BY <1>2 DEF ChatInv, ChatKind
<1>4. ChatIsShown'
  BY DEF ChatInv, ChatIsShown
<1>5. SavedShown'
  BY <1>2 DEF SavedShown
<1> QED
  BY <1>1, <1>3, <1>4, <1>5 DEF ChatInv

\* What holds of saved messages while their page loads.
LEMMA FillFacts ==
    ASSUME ChatInv, loader.at = "fill"
    PROVE  /\ kind = "saved" /\ SavedShown /\ saved # None /\ saved \in [Sources -> SourceRecords] /\ cursor = 0
           /\ \A x \in Sources : SourceShown(x)
           /\ \A x \in Sources : saved[x].cursor \in Nat /\ saved[x].done \in BOOLEAN /\ saved[x].pending \subseteq Nat
           /\ \A p \in Seen \ live : Newer(p)
           /\ \A i, j \in DOMAIN shown : i < j /\ shown[i] \notin live /\ shown[j] \notin live => shown[i] > shown[j]
<1>1. kind = "saved" /\ saved # None /\ cursor = 0
  BY DEF ChatInv, ChatKind, ChatTypes
<1>2. SavedShown /\ saved \in [Sources -> SourceRecords]
  BY <1>1 DEF ChatInv, ChatTypes
<1>3. \A x \in Sources : saved[x].cursor \in Nat /\ saved[x].done \in BOOLEAN /\ saved[x].pending \subseteq Nat
  <2>1. \A x \in Sources : saved[x] \in SourceRecords
    BY <1>2
  <2> QED
    BY <2>1 DEF SourceRecords
<1> QED
  BY <1>1, <1>2, <1>3 DEF SavedShown

\* A source that is asked has its newest messages below the cursor pending; what
\* pages have shown is newer than those.
LEMMA FetchSourceChat ==
    ASSUME ChatInv, Chat!FetchSavedSource
    PROVE  ChatInv'
<1>1. /\ loader.at = "fill"
      /\ UNCHANGED <<kind, source, split, posted, updates, active, live, shown, cursor, chatDone, takeout, loader, known, cut>>
  BY DEF Chat!FetchSavedSource, Chat!UnchangedOutside, Chat!historyVars
<1> DEFINE S(x) == Chat!Below(Chat!OfSource(x), saved[x].cursor)
           N(x) == Chat!Newest(S(x), Batch)
           O(x) == IF N(x) = {} THEN 0 ELSE Chat!Min(N(x))
           L(x) == Chat!LastBatch(Chat!Cardinality(N(x)), O(x), saved[x].cursor)
<1>2. PICK x \in Sources :
         /\ Chat!Wanted(x)
         /\ saved' = [saved EXCEPT ![x] = [pending |-> N(x), done |-> L(x),
                                           cursor |-> IF L(x) THEN saved[x].cursor ELSE O(x)]]
  BY DEF Chat!FetchSavedSource
<1>3. /\ kind = "saved" /\ saved \in [Sources -> SourceRecords] /\ cursor = 0
      /\ \A y \in Sources : SourceShown(y)
      /\ \A p \in Seen \ live : Newer(p)
      /\ \A i, j \in DOMAIN shown : i < j /\ shown[i] \notin live /\ shown[j] \notin live => shown[i] > shown[j]
  BY <1>1, FillFacts
<1>4. saved[x].cursor \in Nat /\ saved[x].pending = {} /\ ~saved[x].done
  BY <1>1, <1>2, FillFacts DEF Chat!Wanted
<1> DEFINE before == saved[x].cursor
<1>5. posted \in Nat /\ known \in Nat /\ known <= posted /\ Batch \in Nat /\ Batch > 0 /\ Seen \subseteq Sent
  BY ChatFacts, ChatConstants
<1>6. \A m : m \in S(x) <=> m \in Sent /\ source[m] = x /\ (before = 0 \/ m < before)
  BY DEF Chat!Below, Chat!OfSource, Sent
<1>7. S(x) \subseteq 1 .. posted
  BY <1>6 DEF Sent
<1> DEFINE s == S(x)
           n == N(x)
           o == O(x)
           l == L(x)
           g == Chat!Cardinality(n)
<1>8. /\ n \subseteq s /\ g \in Nat /\ (g = 0 <=> n = {}) /\ (g < Batch => n = s)
      /\ \A m \in s \ n : \A b \in n : m < b
  <2> HIDE DEF S
  <2> QED
    BY <1>5, <1>7, NewestFacts
<1>9. /\ n = {} => o = 0
      /\ n # {} => o \in n /\ \A b \in n : o <= b
  <2>1. n \subseteq 1 .. posted
    BY <1>7, <1>8
  <2> HIDE DEF S, N
  <2> QED
    BY <1>5, <2>1, Extremes
<1>10. l <=> (g = 0 \/ o = 0 \/ (before > 0 /\ o >= before) \/ g < Batch)
  BY DEF Chat!LastBatch
<1>11. s \subseteq Sent /\ \A m \in s : source[m] = x /\ m \in Nat /\ m > 0 /\ (before = 0 \/ m < before)
  BY <1>5, <1>6 DEF Sent
<1>12. l \in BOOLEAN
  BY DEF Chat!LastBatch
<1>13. saved' = [saved EXCEPT ![x] = [pending |-> n, done |-> l, cursor |-> IF l THEN before ELSE o]]
  BY <1>2
<1> HIDE DEF S, N, O, L
<1> HIDE DEF s, n, o, l, g
<1>14. o \in Nat /\ n \subseteq Nat /\ n \subseteq Sent
  BY <1>8, <1>9, <1>11
<1>15. /\ saved' \in [Sources -> SourceRecords]
       /\ saved'[x].pending = n /\ saved'[x].done = l /\ saved'[x].cursor = IF l THEN before ELSE o
       /\ \A y \in Sources : y # x => saved'[y] = saved[y]
  <2> DEFINE r == [pending |-> n, done |-> l, cursor |-> IF l THEN before ELSE o]
  <2>1. r \in SourceRecords /\ r.pending = n /\ r.done = l /\ r.cursor = IF l THEN before ELSE o
    BY <1>4, <1>12, <1>14 DEF SourceRecords
  <2>2. saved' = [saved EXCEPT ![x] = r]
    BY <1>13
  <2> HIDE DEF r
  <2>3. saved' \in [Sources -> SourceRecords] /\ saved'[x] = r /\ \A y \in Sources : y # x => saved'[y] = saved[y]
    BY <1>3, <2>1, <2>2
  <2> QED
    BY <2>1, <2>3
<1>16. ASSUME ~l PROVE o > 0 /\ o \in n /\ \A b \in n : o <= b
  BY <1>9, <1>10, <1>14, <1>16
<1>17. SourceShown(x)'
  <2>1. \A m \in n : m \in Sent' /\ source'[m] = x
    BY <1>1, <1>8, <1>11 DEF Sent
  <2>2. ~l => \A m \in n : saved'[x].cursor > 0 /\ m >= saved'[x].cursor
    BY <1>14, <1>15, <1>16
  <2>3. ASSUME NEW m \in 1 .. known', source'[m] = x
        PROVE  m \in Seen' \/ m \in n \/ (~l /\ m < saved'[x].cursor)
    <3>1. m \in Sent /\ m \in Nat /\ m \in 1 .. known /\ source[m] = x
      BY <1>1, <1>5, <2>3 DEF Sent
    <3>2. m \in Seen \/ before = 0 \/ m < before
      BY <1>3, <1>4, <3>1 DEF SourceShown
    <3>3. CASE m \in Seen
      BY <1>1, <3>3 DEF Seen
    <3>4. CASE m \notin Seen /\ m \notin n
      <4>1. m \in s
        BY <1>6, <3>1, <3>2, <3>4 DEF s
      <4>2. g >= Batch /\ n # {}
        BY <1>5, <1>8, <3>4, <4>1
      <4>3. o \in n /\ m < o
        BY <1>8, <1>9, <3>4, <4>1, <4>2
      <4>4. ~l
        BY <1>4, <1>5, <1>8, <1>10, <1>11, <4>2, <4>3
      <4> QED
        BY <1>15, <4>3, <4>4
    <3> QED
      BY <3>3, <3>4
  <2> QED
    BY <1>15, <2>1, <2>2, <2>3 DEF SourceShown
<1>18. ASSUME NEW y \in Sources PROVE SourceShown(y)'
  <2>1. CASE y # x
    <3>1. saved'[y] = saved[y] /\ SourceShown(y)
      BY <1>3, <1>15, <2>1
    <3> QED
      BY <1>1, <3>1 DEF SourceShown, Sent, Seen
  <2> QED
    BY <1>17, <2>1
<1>19. ASSUME NEW p \in Seen' \ live' PROVE Newer(p)'
  <2>1. p \in Seen \ live /\ p \in Nat /\ Newer(p)
    BY <1>1, <1>3, <1>5, <1>19 DEF Seen, Sent
  <2>2. before > 0 /\ before <= p
    BY <1>4, <2>1 DEF Newer
  <2>3. \A m \in n : m < p
    BY <1>4, <1>8, <1>11, <2>1, <2>2
  <2>4. ~l => saved'[x].cursor > 0 /\ saved'[x].cursor <= p
    BY <1>14, <1>15, <1>16, <2>1, <2>3
  <2>5. \A y \in Sources : y # x =>
          /\ \A m \in saved'[y].pending : m < p
          /\ ~saved'[y].done => saved'[y].cursor > 0 /\ saved'[y].cursor <= p
    BY <1>15, <2>1 DEF Newer
  <2> QED
    BY <1>15, <2>3, <2>4, <2>5 DEF Newer
<1>20. loader' \in LoaderRecords /\ shown' \in Seq(Nat) /\ IsInjective(shown') /\ Seen' = Seen /\ chatDone' \in BOOLEAN
  BY <1>1, ChatFacts DEF ChatInv, ChatTypes, Seen
<1>21. (\A i, j \in DOMAIN shown : i < j /\ shown[i] \notin live /\ shown[j] \notin live => shown[i] > shown[j])'
  BY <1>1, <1>3
<1> QED
  BY <1>1, <1>3, <1>5, <1>15, <1>18, <1>19, <1>20, <1>21, SavedSteps

\* The newest of all that is pending is older than what pages have shown, and newer
\* than all there is to come.
LEMMA PopSavedChat ==
    ASSUME ChatInv, Chat!PopSavedMessage
    PROVE  ChatInv'
<1>0. PICK m : m = Chat!Max(Chat!Pending)
  OBVIOUS
<1> DEFINE l == [loader EXCEPT !.count = @ + (IF Chat!IsNew(m) THEN 1 ELSE 0)]
<1>1. /\ loader.at = "fill" /\ loader.count < PageSize /\ Chat!Pending # {} /\ \A x \in Sources : ~Chat!Wanted(x)
      /\ saved' = [saved EXCEPT ![source[m]].pending = @ \ {m}]
      /\ shown' = Chat!AppendChatItem(m) /\ loader' = l
      /\ UNCHANGED <<kind, source, split, posted, updates, active, live, cursor, chatDone, takeout, known, cut>>
  BY <1>0 DEF Chat!PopSavedMessage, Chat!SavedReady, Chat!UnchangedOutside, Chat!historyVars
<1>2. /\ kind = "saved" /\ saved \in [Sources -> SourceRecords] /\ cursor = 0
      /\ \A y \in Sources : SourceShown(y)
      /\ \A x \in Sources : saved[x].cursor \in Nat /\ saved[x].done \in BOOLEAN /\ saved[x].pending \subseteq Nat
      /\ \A p \in Seen \ live : Newer(p)
      /\ \A i, j \in DOMAIN shown : i < j /\ shown[i] \notin live /\ shown[j] \notin live => shown[i] > shown[j]
  BY <1>1, FillFacts
<1>3. /\ posted \in Nat /\ known \in Nat /\ known <= posted /\ Seen \subseteq Sent /\ loader \in LoaderRecords
      /\ loader.count \in Nat /\ PageSize \in Nat /\ loader.batch \subseteq Sent /\ shown \in Seq(Nat)
  BY ChatFacts, ChatConstants DEF ChatInv, ChatTypes
<1>4. \A y \in Sources : \A k \in saved[y].pending : k \in Sent /\ source[k] = y
  BY <1>2 DEF SourceShown
<1>5. \A k : k \in Chat!Pending <=> \E y \in Sources : k \in saved[y].pending
  BY DEF Chat!Pending
<1>6. Chat!Pending \subseteq 1 .. posted
  BY <1>4, <1>5 DEF Sent
<1>7. m \in Chat!Pending /\ \A k \in Chat!Pending : k <= m
  BY <1>0, <1>1, <1>3, <1>6, Extremes
<1> DEFINE x == source[m]
<1>8. x \in Sources /\ m \in saved[x].pending /\ m \in Sent /\ m \in Nat
  BY <1>3, <1>4, <1>5, <1>7 DEF Sent
<1>9. /\ saved' \in [Sources -> SourceRecords]
      /\ \A y \in Sources : /\ saved'[y].cursor = saved[y].cursor /\ saved'[y].done = saved[y].done
                            /\ saved'[y].pending = saved[y].pending \ {m}
  <2>1. saved' = [saved EXCEPT ![x] = [saved[x] EXCEPT !.pending = saved[x].pending \ {m}]]
    BY <1>1
  <2>2. saved[x] \in SourceRecords
    BY <1>2, <1>8
  <2> HIDE DEF x
  <2>3. saved[x].pending \ {m} \in SUBSET Nat
    BY <1>2, <1>8
  <2> DEFINE left == saved[x].pending \ {m}
             r == [saved[x] EXCEPT !.pending = left]
  <2>4. r \in SourceRecords /\ r.cursor = saved[x].cursor /\ r.done = saved[x].done /\ r.pending = left
    <3> HIDE DEF left
    <3> QED
      BY <2>2, <2>3 DEF SourceRecords, left
  <2>5. saved' = [saved EXCEPT ![x] = r]
    BY <2>1
  <2> HIDE DEF r
  <2>6. saved' \in [Sources -> SourceRecords] /\ saved'[x] = r /\ \A y \in Sources : y # x => saved'[y] = saved[y]
    BY <1>2, <1>8, <2>4, <2>5
  <2>7. \A y \in Sources : y # x => m \notin saved[y].pending
    BY <1>4, <1>8 DEF x
  <2>8. ASSUME NEW y \in Sources
        PROVE  /\ saved'[y].cursor = saved[y].cursor /\ saved'[y].done = saved[y].done
               /\ saved'[y].pending = saved[y].pending \ {m}
    <3>1. CASE y = x
      BY <2>4, <2>6, <3>1
    <3>2. CASE y # x
      BY <2>6, <2>7, <2>8, <3>2
    <3> QED
      BY <3>1, <3>2
  <2> QED
    BY <2>6, <2>8
<1> HIDE DEF x
<1>10. /\ shown' \in Seq(Nat) /\ IsInjective(shown') /\ Seen' = Seen \cup {m} /\ Seen' \subseteq Sent
       /\ m \in Seen => shown' = shown
       /\ m \notin Seen => shown' = Append(shown, m)
  BY <1>1, <1>8, ShowTypes
<1>11. loader' \in LoaderRecords /\ loader'.at = "fill" /\ loader'.batch = loader.batch
  <2> DEFINE c == loader.count + (IF Chat!IsNew(m) THEN 1 ELSE 0)
  <2>1. c \in 0 .. PageSize
    <3>1. CASE Chat!IsNew(m)
      BY <1>1, <1>3, <3>1
    <3>2. CASE ~Chat!IsNew(m)
      BY <1>1, <1>3, <3>2
    <3> QED
      BY <3>1, <3>2
  <2>2. l = [loader EXCEPT !.count = c]
    BY <1>3
  <2> HIDE DEF c, l
  <2>3. l \in LoaderRecords /\ l.at = loader.at /\ l.batch = loader.batch
    BY <1>3, <2>1, <2>2 DEF LoaderRecords
  <2> QED
    BY <1>1, <2>3 DEF l
<1> HIDE DEF l
<1>12. ASSUME NEW y \in Sources PROVE SourceShown(y)'
  <2>1. SourceShown(y) /\ saved'[y].pending = saved[y].pending \ {m}
        /\ saved'[y].cursor = saved[y].cursor /\ saved'[y].done = saved[y].done
    BY <1>2, <1>9
  <2>2. Sent' = Sent /\ known' = known /\ source' = source
    BY <1>1 DEF Sent
  <2> QED
    BY <1>10, <2>1, <2>2 DEF SourceShown
<1>13. Newer(m)'
  <2> SUFFICES ASSUME NEW y \in Sources
               PROVE  /\ \A k \in saved'[y].pending : k < m
                      /\ ~saved'[y].done => saved'[y].cursor > 0 /\ saved'[y].cursor <= m
    BY DEF Newer
  <2>1. \A k \in saved[y].pending : k \in Nat /\ k <= m
    BY <1>2, <1>5, <1>7
  <2>2. \A k \in saved'[y].pending : k < m
    BY <1>8, <1>9, <2>1
  <2>3. ASSUME ~saved'[y].done PROVE saved'[y].cursor > 0 /\ saved'[y].cursor <= m
    <3>1. ~saved[y].done /\ saved[y].pending # {}
      BY <1>1, <1>9, <2>3 DEF Chat!Wanted
    <3>2. PICK k \in saved[y].pending : TRUE
      BY <3>1
    <3>3. saved[y].cursor > 0 /\ k >= saved[y].cursor
      BY <1>2, <3>1, <3>2 DEF SourceShown
    <3> QED
      BY <1>2, <1>8, <1>9, <2>1, <3>2, <3>3
  <2> QED
    BY <2>2, <2>3
<1>14. \A p : Newer(p) => Newer(p)'
  BY <1>9 DEF Newer
<1>15. \A p \in Seen' \ live' : Newer(p)'
  BY <1>1, <1>2, <1>10, <1>13, <1>14
<1>16. (\A i, j \in DOMAIN shown : i < j /\ shown[i] \notin live /\ shown[j] \notin live => shown[i] > shown[j])'
  <2>1. CASE m \in Seen
    BY <1>1, <1>2, <1>10, <2>1
  <2>2. CASE m \notin Seen
    <3>1. \A p \in Seen \ live : m < p
      BY <1>2, <1>8 DEF Newer
    <3> QED
      BY <1>1, <1>2, <1>3, <1>8, <1>10, <2>2, <3>1, OrderKept
  <2> QED
    BY <2>1, <2>2
<1>17. chatDone' \in BOOLEAN /\ cursor' = 0
  BY <1>1, <1>2 DEF ChatInv, ChatTypes
<1> QED
  BY <1>1, <1>2, <1>9, <1>10, <1>11, <1>12, <1>15, <1>16, <1>17, SavedSteps

LEMMA SavedEndChat ==
    ASSUME ChatInv, Chat!SavedEnd
    PROVE  ChatInv'
<1>1. /\ loader.at = "fill" /\ loader' = Chat!Idle /\ cursor' = 0
      /\ chatDone' = \A x \in Sources : saved[x].done /\ saved[x].pending = {}
      /\ UNCHANGED <<kind, source, split, posted, updates, active, live, shown, saved, takeout, known, cut>>
  BY DEF Chat!SavedEnd, Chat!UnchangedOutside, Chat!historyVars
<1>2. /\ kind = "saved" /\ saved \in [Sources -> SourceRecords]
      /\ \A y \in Sources : SourceShown(y)
      /\ \A p \in Seen \ live : Newer(p)
      /\ \A i, j \in DOMAIN shown : i < j /\ shown[i] \notin live /\ shown[j] \notin live => shown[i] > shown[j]
  BY <1>1, FillFacts
<1>3. Seen' = Seen /\ shown' \in Seq(Nat) /\ IsInjective(shown') /\ Seen \subseteq Sent
  BY <1>1 DEF ChatInv, ChatTypes, Seen
<1>4. (\A x \in Sources : SourceShown(x)') /\ (\A p \in Seen' \ live' : Newer(p)')
      /\ (\A i, j \in DOMAIN shown : i < j /\ shown[i] \notin live /\ shown[j] \notin live => shown[i] > shown[j])'
  BY <1>1, <1>2, <1>3 DEF SourceShown, Newer, Sent
<1>5. ASSUME chatDone', NEW m \in 1 .. known PROVE m \in Seen
  <2>1. source[m] \in Sources
    <3>1. /\ source \in [1 .. Chat!MaxMessages -> Sources] /\ known \in Nat /\ posted \in 0 .. Chat!MaxMessages
          /\ known <= posted /\ Chat!MaxMessages \in Nat
      BY ChatFacts, ChatConstants DEF ChatInv, ChatTypes
    <3>2. m \in 1 .. Chat!MaxMessages
      BY <3>1
    <3> QED
      BY <3>1, <3>2
  <2>2. saved[source[m]].done /\ saved[source[m]].pending = {} /\ SourceShown(source[m])
    BY <1>1, <1>2, <1>5, <2>1
  <2> QED
    BY <2>2 DEF SourceShown
<1>6. ChatIsShown'
  BY <1>1, <1>3, <1>5 DEF ChatIsShown
<1>7. chatDone' \in BOOLEAN
  BY <1>1
<1> QED
  BY <1>1, <1>2, <1>3, <1>4, <1>6, <1>7, IdleLoader, SavedSteps

LEMMA ChatInitInv == WebInit => ChatInv
<1> SUFFICES ASSUME WebInit PROVE ChatInv
  OBVIOUS
<1>1. /\ kind \in {"history", "takeout", "saved"} /\ source \in [1 .. Chat!MaxMessages -> Sources]
      /\ posted \in Histories /\ split \in 0 .. posted
      /\ updates = {} /\ active = FALSE /\ shown = <<>> /\ cursor = 0 /\ chatDone = FALSE
      /\ loader = Chat!Idle /\ saved = None /\ takeout = None
      /\ known = 0 /\ live = {} /\ cut = FALSE
  BY DEF WebInit, Chat!ChatInit
<1>2. Seen = {} /\ shown \in Seq(Nat) /\ IsInjective(shown) /\ DOMAIN shown = {}
  BY <1>1 DEF Seen, ToSet, IsInjective
<1>3. posted \in 0 .. Chat!MaxMessages /\ posted \in Nat /\ 0 \in 0 .. posted
  BY <1>1, ChatConstants
<1>4. loader \in LoaderRecords /\ loader.batch = {} /\ loader.at = "idle"
  BY <1>1, IdleLoader
<1>5. ChatTypes
  BY <1>1, <1>2, <1>3, <1>4 DEF ChatTypes
<1>6. ChatKind /\ ChatIsShown
  BY <1>1, <1>4 DEF ChatKind, ChatIsShown
<1>7. HistoryShown /\ TakeoutShown
  BY <1>1, <1>4 DEF HistoryShown, TakeoutShown
<1>8. SavedShown
  BY <1>1, <1>2 DEF SavedShown
<1> QED
  BY <1>5, <1>6, <1>7, <1>8 DEF ChatInv

LEMMA ChatStepInv == ChatInv /\ [WebNext]_webVars => ChatInv'
<1> SUFFICES ASSUME ChatInv, [WebNext]_webVars PROVE ChatInv'
  OBVIOUS
<1>1. Chat!ChatNext \/ UNCHANGED chatAll
  BY DEF WebNext, webVars
<1>2. CASE UNCHANGED chatAll
  <2>1. UNCHANGED <<kind, source, split, posted, shown, cursor, chatDone, saved, takeout, known, live, cut>>
        /\ loader' = loader /\ updates' = updates /\ active' = active
    BY <1>2 DEF chatAll
  <2>2. updates' \subseteq Sent /\ active' \in BOOLEAN
    BY <2>1 DEF ChatInv, ChatTypes
  <2> QED
    BY <2>1, <2>2, ChatRests
<1>3. CASE Chat!ChatNext
  <2>1. CASE Chat!SelectChat \/ Chat!MoreChat
    BY <2>1, BeginChat DEF Chat!SelectChat, Chat!MoreChat
  <2>2. CASE Chat!Deselect \/ Chat!LoadFails
    BY <2>2, DeselectChat
  <2>3. CASE Chat!LoadChatPage
    BY <2>3, LoadPageChat
  <2>4. CASE Chat!NextMessage \/ Chat!EndPage
    BY <2>4, NextMessageChat, EndPageChat
  <2>5. CASE Chat!TakeoutFetch \/ Chat!TakeoutMessage \/ Chat!TakeoutBatchDone \/ Chat!TakeoutEnd
    BY <2>5, TakeoutFetchChat, TakeoutMessageChat, TakeoutBatchDoneChat, TakeoutEndChat
  <2>6. CASE Chat!FetchSavedSource \/ Chat!PopSavedMessage \/ Chat!SavedEnd
    BY <2>6, FetchSourceChat, PopSavedChat, SavedEndChat
  <2>7. CASE Chat!Post \/ Chat!AppendLiveMessage \/ Chat!ImportList
    BY <2>7, PostChat, AppendLiveChat, ImportListChat
  <2> QED
    BY <1>3, <2>1, <2>2, <2>3, <2>4, <2>5, <2>6, <2>7 DEF Chat!ChatNext
<1> QED
  BY <1>1, <1>2, <1>3

LEMMA ChatRight == ChatInv => HistoryComplete /\ SavedNewestFirst /\ Chat!TypeOK
<1> SUFFICES ASSUME ChatInv PROVE HistoryComplete /\ SavedNewestFirst /\ Chat!TypeOK
  OBVIOUS
<1>1. ChatTypes /\ ChatIsShown /\ (kind = "saved" => SavedShown)
  BY DEF ChatInv
<1>2. Chat!IsInjective(shown) /\ Chat!ToSet(shown) = Seen
  BY <1>1 DEF ChatTypes, Chat!IsInjective, IsInjective, Chat!ToSet, Seen, ToSet
<1>3. HistoryComplete
  BY <1>1, <1>2 DEF HistoryComplete, Chat!HistoryComplete, ChatIsShown
<1>4. SavedNewestFirst
  <2>1. ASSUME kind = "saved", NEW i \in DOMAIN shown, NEW j \in DOMAIN shown, i < j,
               {shown[i], shown[j]} \cap live = {}
        PROVE  shown[i] > shown[j]
    <3>1. shown[i] \notin live /\ shown[j] \notin live
      BY <2>1
    <3> QED
      BY <1>1, <2>1, <3>1 DEF SavedShown
  <2> QED
    BY <2>1 DEF SavedNewestFirst, Chat!SavedNewestFirst
<1>5. Chat!TypeOK
  <2>1. loader.count \in 0 .. PageSize
    BY ChatFacts
  <2> QED
    BY <1>1, <1>2, <2>1 DEF ChatTypes, Chat!TypeOK, Sent
<1> QED
  BY <1>3, <1>4, <1>5

\* A chat that says it has no older messages shows every message there was when its first
\* page was asked for, and each once: for a history, a takeout and saved messages, over
\* pages that fail or are asked for again and messages that come in between, for any
\* number of them (app/web/chats.go, takeout_chat.go, saved.go).
THEOREM HistoryInvariant == WebSpec => []HistoryComplete
<1>1. ChatInv => HistoryComplete
  BY ChatRight
<1> QED
  BY <1>1, ChatInitInv, ChatStepInv, PTL DEF WebSpec

\* The pages of saved messages are shown newest first over all their sources
\* (app/web/saved.go: popSavedMessage).
THEOREM SavedInvariant == WebSpec => []SavedNewestFirst
<1>1. ChatInv => SavedNewestFirst
  BY ChatRight
<1> QED
  BY <1>1, ChatInitInv, ChatStepInv, PTL DEF WebSpec

-----------------------------------------------------------------------------
\* The types of all five, whichever of them takes steps.
THEOREM WebTypeInvariant == WebSpec => []WebTypeOK
<1>1. WebSpec => []TypeOK
  BY WebImports, ImportTypeInvariant
<1>2. turn \in Turns /\ [WebNext]_webVars => (turn \in Turns)'
  BY DEF WebNext, webVars
<1>3. WebInit => turn \in Turns
  BY DEF WebInit
<1>4. FileInv /\ [WebNext]_webVars => FileInv'
  BY FileStepInv
<1>5. /\ turn \in Turns /\ TypeOK /\ ChatInv /\ FileInv /\ ThumbInv /\ TransferInv
      => WebTypeOK
  BY TurnsAssumption, ChatRight, FileTypesRight, ThumbRight, TransferRight DEF WebTypeOK
<1> QED
  BY <1>1, <1>2, <1>3, <1>4, <1>5, ChatInitInv, ChatStepInv, FileInitInv, ThumbInitInv, ThumbStepInv,
     TransferInitInv, TransferStepInv, PTL DEF WebSpec
=============================================================================
