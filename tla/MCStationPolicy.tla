-------------------------- MODULE MCStationPolicy --------------------------
\* Two configured admins, a and b, and a user u, each with one connection; the
\* admin door and an ordinary one.
EXTENDS StationPolicy

CONSTANTS a, b, u, admin, game

OwnKey == [s \in Sessions |-> s]

Op(op, on, to) == [op |-> op, on |-> on, to |-> to]

\* An administrator bans and demotes in one batch; another batch has a
\* malformed end.
Moderation == {
    <<Op("ban_key", u, None), Op("set_user_role", a, "member")>>,
    <<Op("unban_key", u, None), Op("ban_key", None, None)>>}

\* What doors may answer to a user who wants more.
Attempt == {<<Op("set_user_role", u, "sysop")>>}

\* Roles and doors only.
Staffing == {
    <<Op("set_user_role", u, "sysop"), Op("set_door_roles", game, "sysop")>>,
    <<Op("set_user_role", u, "member")>>,
    <<Op("disable_door", game, None), Op("enable_door", admin, None)>>,
    <<Op("set_door_roles", game, None), Op("enable_door", game, None)>>,
    <<Op("disable_door", admin, None)>>,
    <<Op("set_user_role", a, "member"), Op("disable_door", None, None)>>}

UpstartRequests == [s \in Sessions |-> IF s = u THEN Attempt ELSE Moderation]
StaffRequests == [s \in Sessions |-> IF s = a THEN Staffing ELSE {}]

\* The instance without overlaps is one the theorems about it speak of.
ASSUME QuietStation == Races = {} => OneAtATime /\ BansNobody

\* An older release's policy that reserves a door.
OldPolicy == [EmptyPolicy EXCEPT !.doorRole[game] = "sysop"]
=============================================================================
