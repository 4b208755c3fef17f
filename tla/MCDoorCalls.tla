---------------------------- MODULE MCDoorCalls ----------------------------
(***************************************************************************)
(* Small instances of DoorCalls.                                           *)
(***************************************************************************)
EXTENDS DoorCalls, TLC

CONSTANTS s1, s2, lobby, chat, game

\* What the manifests grant: the lobby is the administrator's door as well.
Manifests == [d \in {lobby, chat, game} |->
    IF d = lobby THEN {"move", "reload", "settings", "broadcast"}
    ELSE {"move", "broadcast", "action"}]

\* Doors that follow the advice of the door author's guide: a view only shows
\* (what it broadcasts is not sent).
Careful == [life \in {"view", "update", "on_join", "on_leave"} |->
    CASE life = "view" -> {{"broadcast"}}
      [] life = "update" -> {{"move"}, {"broadcast"}, {"action"}, {"profile", "settings"},
                             {"reload"}, {"move", "action"}}
      [] life = "on_join" -> {{"broadcast"}, {"move"}}
      [] OTHER -> {{"broadcast"}}]

\* No hook of the game asks to open the door one came from.
Onward == {<<lobby, chat>>, <<chat, game>>, <<lobby, game>>}

\* What the theorems of DoorCallsProofs ask of the doors.
ASSUME CarefulDoors ==
    /\ ViewsRenderNobody /\ ViewsOnlyShow /\ LeavingOnlyLeaves
    /\ "policy" \notin Faults
    /\ LeadsOn((lobby :> 0) @@ (chat :> 1) @@ (game :> 2))

\* The policy limits the opens of one of the two.
OneLimited == [s \in {s1, s2} |-> IF s = s1 THEN 0 ELSE 1]

=============================================================================
