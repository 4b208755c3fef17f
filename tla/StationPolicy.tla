--------------------------- MODULE StationPolicy ---------------------------
(***************************************************************************)
(* The station policy: internal/node/policy.go, admin_ops.go, access.go,   *)
(* and the part of broadcast.go that spreads a change.                     *)
(*                                                                         *)
(* The policy (roles of passports, bans, disabled doors, roles a door is   *)
(* reserved for) is one JSON record in SQLite.  Every check reads it anew. *)
(* A batch of admin operations, answered by a door to an administrator's   *)
(* event, is applied in that session's goroutine: read the record, edit it *)
(* in memory, save it as a whole, disconnect who was banned, read it again *)
(* to refresh the role each session caches, and send every session its     *)
(* door list.  Nothing but SQLite orders these steps among sessions.  The  *)
(* first read of a station that has only the policy of an older release    *)
(* imports it.                                                             *)
(*                                                                         *)
(* A passport's connection is modelled by its login, since that caches the *)
(* role; SessionLifecycle has the rest of it.                              *)
(***************************************************************************)
EXTENDS Naturals, Sequences

CONSTANTS
    Sessions,       \* connections
    Keys,           \* passport public keys
    KeyOf,          \* the passport behind each connection
    Owners,         \* cfg.Access.Admins
    Doors,          \* door identifiers
    AdminDoor,      \* the identifier "admin"
    StaffDoors,     \* doors whose manifest says access = "admin"
    None,           \* no passport, no door, no role, no record, no session
    Legacy,         \* the policy an older release left behind, or None
    Requests,       \* the batches a door may answer each session's events with
    StoreFails,     \* SQLite may fail to read or save the record
    Races           \* what may overlap: "batch", "login", "drop"

Roles == {"admin", "sysop", "member"}

\* What an admin operation asks for: on is its public_key or door_id, to its
\* role.  An operation that lacks its subject has on = None.
PolicyOp ==
    [op : {"set_user_role"}, on : Keys \cup {None}, to : Roles \cup {None}]
    \cup [op : {"ban_key", "unban_key"}, on : Keys \cup {None}, to : {None}]
    \cup [op : {"disable_door", "enable_door"}, on : Doors \cup {None}, to : {None}]
    \cup [op : {"set_door_roles"}, on : Doors \cup {None}, to : Roles \cup {None}]

Policy == [roles : [Keys -> Roles \cup {None}], banned : SUBSET Keys,
           disabled : SUBSET Doors, doorRole : [Doors -> Roles \cup {None}]]

EmptyPolicy == [roles |-> [k \in Keys |-> None], banned |-> {},
                disabled |-> {}, doorRole |-> [d \in Doors |-> None]]

List == [to : Sessions, doors : SUBSET Doors]

ASSUME PolicyAssumption ==
    /\ KeyOf \in [Sessions -> Keys]
    /\ Owners \subseteq Keys
    /\ AdminDoor \in Doors
    /\ StaffDoors \subseteq Doors
    /\ None \notin Keys \cup Doors \cup Roles \cup Policy \cup Sessions \cup List
    /\ Legacy \in Policy \cup {None}
    /\ Requests \in [Sessions -> SUBSET Seq(PolicyOp)]
    /\ StoreFails \in BOOLEAN

VARIABLES
    stored,      \* node_state["station.policy"], None while there is no record
    importing,   \* sessions that found no record and are about to import Legacy
    stage,       \* where the goroutine of a session is
    up,          \* sessions whose connection is open
    role,        \* sessionState.role
    batch,       \* response.AdminOps
    at,          \* the position in batch of the operation to apply next
    draft,       \* the local variable policy of applyAdminOps, then of its caller
    targets,     \* sessions yet to be sent their door list
    outgoing,    \* the list computed for one of them, not written yet
    doorList     \* the doors each client was last told of

batchVars == <<batch, at, draft>>
listVars == <<targets, outgoing, doorList>>
vars == <<stored, importing, stage, up, role, batchVars, listVars>>

LoginStages == {"admitted", "joining"}
BatchStages == {"loading", "editing", "closing", "rereading", "refreshing"}
Stages == {"offline", "idle", "listing"} \cup LoginStages \cup BatchStages

TypeOK ==
    /\ stored \in Policy \cup {None}
    /\ importing \subseteq Sessions
    /\ stage \in [Sessions -> Stages]
    /\ up \subseteq Sessions
    /\ role \in [Sessions -> Roles]
    /\ batch \in [Sessions -> Seq(PolicyOp)]
    /\ at \in [Sessions -> Nat \ {0}]
    /\ draft \in [Sessions -> Policy]
    /\ targets \in [Sessions -> SUBSET Sessions]
    /\ outgoing \in [Sessions -> List \cup {None}]
    /\ doorList \in [Sessions -> SUBSET Doors]

-----------------------------------------------------------------------------
\* isPrivilegedRole.
Privileged(r) == r \in {"admin", "sysop"}

\* Mutant of RoleFor: the policy comes first.
PolicyFirst(p, k) ==
    IF p.roles[k] # None THEN p.roles[k] ELSE IF k \in Owners THEN "admin" ELSE "member"

\* roleForPublicKeyWithPolicy: configured admins come before the policy.
RoleFor(p, k) ==
    IF k \in Owners THEN "admin" ELSE IF p.roles[k] # None THEN p.roles[k] ELSE "member"

\* canAccessDoor, for a passport k whose session caches role r.
CanAccess(p, k, r, d) ==
    /\ k \notin p.banned
    /\ d \in p.disabled => d = AdminDoor
    /\ \/ Privileged(r)
       \/ p.doorRole[d] = r
       \/ p.doorRole[d] = None /\ d \notin StaffDoors

\* visibleDoorSummaries.
Visible(p, k, r) == {d \in Doors : CanAccess(p, k, r, d)}

\* What one operation of applyAdminOps does to the policy in memory.
Edit(p, o) ==
    CASE o.op = "set_user_role" -> [p EXCEPT !.roles[o.on] = o.to]
      [] o.op = "ban_key" -> [p EXCEPT !.banned = @ \cup {o.on}]
      [] o.op = "unban_key" -> [p EXCEPT !.banned = @ \ {o.on}]
      [] o.op = "disable_door" ->
            IF o.on = AdminDoor THEN p ELSE [p EXCEPT !.disabled = @ \cup {o.on}]
      [] o.op = "enable_door" ->
            IF o.on = AdminDoor THEN p ELSE [p EXCEPT !.disabled = @ \ {o.on}]
      [] o.op = "set_door_roles" -> [p EXCEPT !.doorRole[o.on] = o.to]

\* policyChanged: all but an operation on the admin door's enabling, which is
\* skipped.
Changes(o) == ~(o.op \in {"disable_door", "enable_door"} /\ o.on = AdminDoor)

OpsOf(b) == {b[i] : i \in DOMAIN b}

\* bannedKeys of a batch.
BannedBy(b) == {o.on : o \in {o \in OpsOf(b) : o.op = "ban_key"}}

-----------------------------------------------------------------------------
\* What loadStationPolicy returns when SQLite answers.
Current == IF stored # None THEN stored
           ELSE IF Legacy # None THEN Legacy ELSE EmptyPolicy

\* loadStationPolicy by session s returns p.  An error reads as an empty
\* policy.  A missing record is imported from Legacy: s saves it next.
LoadStationPolicy(s, p) ==
    \/ /\ p = Current
       /\ importing' = IF stored = None /\ Legacy # None
                       THEN importing \cup {s} ELSE importing
    \/ StoreFails /\ p = EmptyPolicy /\ UNCHANGED importing

\* ... and an error of that save is ignored.
SaveLegacy(s) ==
    /\ s \in importing
    /\ importing' = importing \ {s}
    /\ \/ stored' = Legacy
       \/ StoreFails /\ UNCHANGED stored
    /\ UNCHANGED <<stage, up, role, batchVars, listVars>>

Goto(s, from, to) ==
    /\ stage[s] = from
    /\ s \notin importing
    /\ stage' = [stage EXCEPT ![s] = to]

Registered == {t \in Sessions : stage[t] \notin {"offline"} \cup LoginStages}
Quiet == \A t \in Sessions : stage[t] \in {"offline", "idle"} /\ t \notin importing
NoLogin == \A t \in Sessions : stage[t] \notin LoginStages /\ t \notin importing
NoBatch == \A t \in Sessions : stage[t] \notin BatchStages \cup {"listing"}

-----------------------------------------------------------------------------
\* authenticate: a passport that is banned is denied.
Admit(s) ==
    /\ stage[s] = "offline" /\ s \notin importing
    /\ "login" \in Races \/ NoBatch
    /\ \E p \in {Current, EmptyPolicy} :
          /\ LoadStationPolicy(s, p)
          /\ stage' = IF KeyOf[s] \in p.banned THEN stage
                      ELSE [stage EXCEPT ![s] = "admitted"]
    /\ UNCHANGED <<stored, up, role, batchVars, listVars>>

\* ... its role is read once more ...
ReadRole(s) ==
    /\ Goto(s, "admitted", "joining")
    /\ \E p \in {Current, EmptyPolicy} :
          /\ LoadStationPolicy(s, p)
          /\ role' = [role EXCEPT ![s] = RoleFor(p, KeyOf[s])]
    /\ UNCHANGED <<stored, up, batchVars, listVars>>

\* ... and handleWS registers the session and sends it the door list.
Register(s) ==
    /\ Goto(s, "joining", "listing")
    /\ up' = up \cup {s}
    /\ targets' = [targets EXCEPT ![s] = {s}]
    /\ doorList' = [doorList EXCEPT ![s] = {}]
    /\ UNCHANGED <<stored, importing, role, batchVars, outgoing>>

\* The connection fails or is closed by the client; the handler finds out
\* when it reads the next message.
Drop(s) ==
    /\ s \in up
    /\ "drop" \in Races \/ Quiet
    /\ up' = up \ {s}
    /\ UNCHANGED <<stored, importing, stage, role, batchVars, listVars>>

ReadFails(s) ==
    /\ Goto(s, "idle", "offline")
    /\ s \notin up
    /\ UNCHANGED <<stored, importing, up, role, batchVars, listVars>>

-----------------------------------------------------------------------------
\* Mutant of Submit: validateAdminOps does not ask for a privileged role.
SubmitUnchecked(s) ==
    /\ Goto(s, "idle", "loading")
    /\ s \in up
    /\ "batch" \in Races \/ NoBatch
    /\ "login" \in Races \/ NoLogin
    /\ "drop" \in Races \/ Registered \subseteq up
    /\ \E b \in Requests[s] : batch' = [batch EXCEPT ![s] = b]
    /\ at' = [at EXCEPT ![s] = 1]
    /\ UNCHANGED <<stored, importing, up, role, draft, listVars>>

\* A door answers an event of s with admin operations, and validateAdminOps
\* finds the cached role privileged.  Otherwise nothing happens.
Submit(s) ==
    /\ Goto(s, "idle", "loading")
    /\ s \in up
    /\ Privileged(role[s])
    /\ "batch" \in Races \/ NoBatch
    /\ "login" \in Races \/ NoLogin
    /\ "drop" \in Races \/ Registered \subseteq up
    /\ \E b \in Requests[s] : batch' = [batch EXCEPT ![s] = b]
    /\ at' = [at EXCEPT ![s] = 1]
    /\ UNCHANGED <<stored, importing, up, role, draft, listVars>>

\* Mutant of LoadForBatch: the edits start from the draft of the last batch.
KeepDraft(s) ==
    /\ Goto(s, "loading", "editing")
    /\ UNCHANGED <<stored, importing, up, role, batchVars, listVars>>

LoadForBatch(s) ==
    /\ Goto(s, "loading", "editing")
    /\ \E p \in {Current, EmptyPolicy} :
          /\ LoadStationPolicy(s, p)
          /\ draft' = [draft EXCEPT ![s] = p]
    /\ UNCHANGED <<stored, up, role, batch, at, listVars>>

NextOp(s) == batch[s][at[s]]

\* One round of the loop of applyAdminOps.
ApplyOp(s) ==
    /\ Goto(s, "editing", "editing")
    /\ at[s] <= Len(batch[s])
    /\ NextOp(s).on # None
    /\ draft' = [draft EXCEPT ![s] = Edit(@, NextOp(s))]
    /\ at' = [at EXCEPT ![s] = @ + 1]
    /\ UNCHANGED <<stored, importing, up, role, batch, listVars>>

\* An operation without its subject ends the batch with an error.
RejectOp(s) ==
    /\ Goto(s, "editing", "idle")
    /\ at[s] <= Len(batch[s])
    /\ NextOp(s).on = None
    /\ UNCHANGED <<stored, importing, up, role, batchVars, listVars>>

\* saveStationPolicy, only if some operation changed the policy.
SavePolicy(s) ==
    /\ Goto(s, "editing", "closing")
    /\ at[s] > Len(batch[s])
    /\ IF \E o \in OpsOf(batch[s]) : Changes(o) THEN stored' = draft[s] ELSE UNCHANGED stored
    /\ UNCHANGED <<importing, up, role, batchVars, listVars>>

\* ... an error of which ends the batch.
SaveFails(s) ==
    /\ StoreFails
    /\ Goto(s, "editing", "idle")
    /\ at[s] > Len(batch[s])
    /\ \E o \in OpsOf(batch[s]) : Changes(o)
    /\ UNCHANGED <<stored, importing, up, role, batchVars, listVars>>

\* closePublicKey for each passport the batch bans.
CloseBanned(s) ==
    /\ Goto(s, "closing", "rereading")
    /\ up' = up \ {t \in Registered : KeyOf[t] \in BannedBy(batch[s])}
    /\ UNCHANGED <<stored, importing, role, batchVars, listVars>>

\* applyDoorEffects reads the policy again ...
Reread(s) ==
    /\ Goto(s, "rereading", "refreshing")
    /\ \E p \in {Current, EmptyPolicy} :
          /\ LoadStationPolicy(s, p)
          /\ draft' = [draft EXCEPT ![s] = p]
    /\ UNCHANGED <<stored, up, role, batch, at, listVars>>

\* Mutants of RefreshRoles: only the session that asked is given its role, or
\* is sent its list.
RefreshSelf(s) ==
    /\ Goto(s, "refreshing", "listing")
    /\ role' = [role EXCEPT ![s] = RoleFor(draft[s], KeyOf[s])]
    /\ targets' = [targets EXCEPT ![s] = Registered]
    /\ UNCHANGED <<stored, importing, up, batchVars, outgoing, doorList>>

ListSelf(s) ==
    /\ Goto(s, "refreshing", "listing")
    /\ role' = [t \in Sessions |-> IF t \in Registered THEN RoleFor(draft[s], KeyOf[t])
                                   ELSE role[t]]
    /\ targets' = [targets EXCEPT ![s] = {s}]
    /\ UNCHANGED <<stored, importing, up, batchVars, outgoing, doorList>>

\* ... gives every registered session its role, and goes on to the lists.
RefreshRoles(s) ==
    /\ Goto(s, "refreshing", "listing")
    /\ role' = [t \in Sessions |-> IF t \in Registered THEN RoleFor(draft[s], KeyOf[t])
                                   ELSE role[t]]
    /\ targets' = [targets EXCEPT ![s] = Registered]
    /\ UNCHANGED <<stored, importing, up, batchVars, outgoing, doorList>>

\* sendDoorList computes the list of a target from the policy and the role of
\* that moment ...
ComputeList(s, t) ==
    /\ Goto(s, "listing", "listing")
    /\ t \in targets[s]
    /\ outgoing[s] = None
    /\ \E p \in {Current, EmptyPolicy} :
          /\ LoadStationPolicy(s, p)
          /\ outgoing' = [outgoing EXCEPT ![s] =
                            [to |-> t, doors |-> Visible(p, KeyOf[t], role[t])]]
    /\ targets' = [targets EXCEPT ![s] = @ \ {t}]
    /\ UNCHANGED <<stored, up, role, batchVars, doorList>>

\* ... and writes it.
WriteList(s) ==
    /\ Goto(s, "listing", "listing")
    /\ outgoing[s] # None
    /\ outgoing[s].to \in up
    /\ doorList' = [doorList EXCEPT ![outgoing[s].to] = outgoing[s].doors]
    /\ outgoing' = [outgoing EXCEPT ![s] = None]
    /\ UNCHANGED <<stored, importing, up, role, batchVars, targets>>

ListsSent(s) ==
    /\ Goto(s, "listing", "idle")
    /\ targets[s] = {} /\ outgoing[s] = None
    /\ UNCHANGED <<stored, importing, up, role, batchVars, listVars>>

\* A write that fails ends the whole response.
WriteFails(s) ==
    /\ Goto(s, "listing", "idle")
    /\ outgoing[s] # None
    /\ outgoing[s].to \notin up
    /\ targets' = [targets EXCEPT ![s] = {}]
    /\ outgoing' = [outgoing EXCEPT ![s] = None]
    /\ UNCHANGED <<stored, importing, up, role, batchVars, doorList>>

-----------------------------------------------------------------------------
Init ==
    /\ stored \in {None, EmptyPolicy}
    /\ Legacy # None => stored = None
    /\ importing = {}
    /\ stage = [s \in Sessions |-> "offline"]
    /\ up = {}
    /\ role = [s \in Sessions |-> "member"]
    /\ batch = [s \in Sessions |-> <<>>]
    /\ at = [s \in Sessions |-> 1]
    /\ draft = [s \in Sessions |-> EmptyPolicy]
    /\ targets = [s \in Sessions |-> {}]
    /\ outgoing = [s \in Sessions |-> None]
    /\ doorList = [s \in Sessions |-> {}]

Next == \E s \in Sessions :
    \/ SaveLegacy(s) \/ Admit(s) \/ ReadRole(s) \/ Register(s) \/ Drop(s) \/ ReadFails(s)
    \/ Submit(s) \/ LoadForBatch(s) \/ ApplyOp(s) \/ RejectOp(s) \/ SavePolicy(s)
    \/ SaveFails(s) \/ CloseBanned(s) \/ Reread(s) \/ RefreshRoles(s)
    \/ \E t \in Sessions : ComputeList(s, t)
    \/ WriteList(s) \/ ListsSent(s) \/ WriteFails(s)

Spec == Init /\ [][Next]_vars

-----------------------------------------------------------------------------
(* What the station may be spared *)

\* Batches wait for each other, for logins and for connections that fail, and
\* the store answers.
OneAtATime == Races = {} /\ ~StoreFails

\* No batch bans a passport.  A client that is banned by the very batch whose
\* lists are being sent would end the round (WriteFails).
BansNobody == \A s \in Sessions : \A b \in Requests[s] : BannedBy(b) = {}

-----------------------------------------------------------------------------
\* A configured admin who is not banned can always open the admin door, and
\* undo there what was done: no sequence of batches and no failing read of the
\* policy takes the cached role or the door away.
OwnersKeepControl == \A s \in Registered :
    KeyOf[s] \in Owners \ Current.banned => AdminDoor \in Visible(Current, KeyOf[s], role[s])

\* As long as no administrator gives a role away, nobody else has one, whatever
\* batches the doors answer to other users' events.
NoUpstarts ==
    /\ \A k \in Keys \ Owners : ~Privileged(RoleFor(Current, k))
    /\ \A s \in Sessions : Privileged(role[s]) => KeyOf[s] \in Owners

\* When nothing is under way, each session has the role that the policy gives
\* to its passport.
RolesFollowPolicy == Quiet => \A s \in Registered : role[s] = RoleFor(Current, KeyOf[s])

\* ... and each client that is still connected knows the doors it may open.
ListsFollowPolicy == Quiet => \A s \in Registered \cap up :
    doorList[s] = Visible(Current, KeyOf[s], role[s])

\* The abstract specification: batches take effect one by one, as wholes.
Contract == INSTANCE PolicyContract WITH
    policy <- Current,
    Start <- IF Legacy # None THEN Legacy ELSE EmptyPolicy,
    Batches <- UNION {Requests[s] : s \in Sessions}

\* No accepted batch is lost, repeated or applied in part.
KeepsEveryChange == Contract!Spec

=============================================================================
