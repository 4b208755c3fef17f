------------------------ MODULE StationPolicyProofs ------------------------
(***************************************************************************)
(* Proofs about StationPolicy, for any passports, doors, batches and       *)
(* policies left behind by an older release.  The first theorems hold      *)
(* whatever overlaps and whether or not the store fails; the last three    *)
(* are about a station where nothing overlaps and the store answers.       *)
(***************************************************************************)
EXTENDS StationPolicy, WellFoundedInduction, TLAPS

LoggedIn(s) == stage[s] \notin {"offline", "admitted"}

\* The cached role of a configured admin's session.
OwnersAreAdmins == \A s \in Sessions :
    KeyOf[s] \in Owners /\ LoggedIn(s) => role[s] = "admin"

\* A policy that gives no passport but the configured admins' a privileged role.
Plain(p) == \A k \in Keys \ Owners : ~Privileged(RoleFor(p, k))

\* An operation that gives none away.
Harmless(o) == o.op = "set_user_role" /\ o.on \notin Owners => ~Privileged(o.to)

\* Administrators give no role away, and an older release left none.
RolesStayWithOwners ==
    /\ Legacy # None => Plain(Legacy)
    /\ \A s \in Sessions : KeyOf[s] \in Owners =>
          \A b \in Requests[s] : \A i \in DOMAIN b : Harmless(b[i])

\* Without a promotion, none is stored, edited, requested or cached.
NoneRose ==
    /\ stored # None => Plain(stored)
    /\ \A s \in Sessions :
          /\ Plain(draft[s])
          /\ \A i \in DOMAIN batch[s] : Harmless(batch[s][i])
          /\ Privileged(role[s]) => KeyOf[s] \in Owners

-----------------------------------------------------------------------------
\* The policy that loadStationPolicy falls back to is well formed.
LEMMA EmptyIsPolicy == EmptyPolicy \in Policy
  BY DEF EmptyPolicy, Policy

\* An operation with a subject makes a policy of a policy (the loop body of
\* applyAdminOps).
LEMMA EditType ==
    ASSUME NEW p \in Policy, NEW o \in PolicyOp, o.on # None
    PROVE  Edit(p, o) \in Policy
<1>1. CASE o.op = "set_user_role"
  BY <1>1 DEF Edit, Policy, PolicyOp
<1>2. CASE o.op = "ban_key"
  BY <1>2 DEF Edit, Policy, PolicyOp
<1>3. CASE o.op = "unban_key"
  BY <1>3 DEF Edit, Policy, PolicyOp
<1>4. CASE o.op = "disable_door"
  BY <1>4 DEF Edit, Policy, PolicyOp
<1>5. CASE o.op = "enable_door"
  BY <1>5 DEF Edit, Policy, PolicyOp
<1>6. CASE o.op = "set_door_roles"
  BY <1>6 DEF Edit, Policy, PolicyOp
<1> QED
  BY <1>1, <1>2, <1>3, <1>4, <1>5, <1>6 DEF PolicyOp

\* Every policy gives every passport a role (roleForPublicKeyWithPolicy).
LEMMA RoleType ==
    ASSUME NEW p \in Policy, NEW k \in Keys
    PROVE  RoleFor(p, k) \in Roles
  BY DEF RoleFor, Roles, Policy

\* What a read returns, and what it may leave to do.
LEMMA ReadType ==
    ASSUME TypeOK, NEW s \in Sessions, NEW p, LoadStationPolicy(s, p)
    PROVE  /\ p \in Policy
           /\ importing' \subseteq Sessions
           /\ \/ p = EmptyPolicy
              \/ p = Legacy /\ Legacy # None
              \/ p = stored /\ stored # None
  BY PolicyAssumption, EmptyIsPolicy DEF TypeOK, LoadStationPolicy, Current

\* Every variable keeps its type.
LEMMA TypeStep ==
    ASSUME TypeOK, [Next]_vars
    PROVE  TypeOK'
<1> USE PolicyAssumption DEF TypeOK, Stages, LoginStages, BatchStages, batchVars, listVars
<1>1. ASSUME NEW s \in Sessions, SaveLegacy(s) PROVE TypeOK'
  BY <1>1 DEF SaveLegacy
<1>2. ASSUME NEW s \in Sessions, Admit(s) PROVE TypeOK'
  BY <1>2, ReadType DEF Admit
<1>3. ASSUME NEW s \in Sessions, ReadRole(s) PROVE TypeOK'
  <2>1. PICK p : LoadStationPolicy(s, p) /\ role' = [role EXCEPT ![s] = RoleFor(p, KeyOf[s])]
    BY <1>3 DEF ReadRole
  <2>2. RoleFor(p, KeyOf[s]) \in Roles
    BY <2>1, ReadType, RoleType
  <2> QED
    BY <1>3, <2>1, <2>2, ReadType DEF ReadRole, Goto
<1>4. ASSUME NEW s \in Sessions, Register(s) PROVE TypeOK'
  BY <1>4 DEF Register, Goto
<1>5. ASSUME NEW s \in Sessions, Drop(s) \/ ReadFails(s) PROVE TypeOK'
  BY <1>5 DEF Drop, ReadFails, Goto
<1>6. ASSUME NEW s \in Sessions, Submit(s) PROVE TypeOK'
  BY <1>6 DEF Submit, Goto
<1>7. ASSUME NEW s \in Sessions, LoadForBatch(s) \/ Reread(s) PROVE TypeOK'
  <2>1. PICK p : LoadStationPolicy(s, p) /\ draft' = [draft EXCEPT ![s] = p]
    BY <1>7 DEF LoadForBatch, Reread
  <2>2. stage' \in [Sessions -> Stages] /\ draft' \in [Sessions -> Policy]
    BY <1>7, <2>1, ReadType DEF LoadForBatch, Reread, Goto
  <2>3. importing' \subseteq Sessions
    BY <2>1, ReadType
  <2> QED
    BY <1>7, <2>2, <2>3 DEF LoadForBatch, Reread
<1>8. ASSUME NEW s \in Sessions, ApplyOp(s) PROVE TypeOK'
  <2>1. NextOp(s) \in PolicyOp
    BY <1>8 DEF ApplyOp, NextOp
  <2>2. Edit(draft[s], NextOp(s)) \in Policy
    BY <1>8, <2>1, EditType DEF ApplyOp
  <2> QED
    BY <1>8, <2>2 DEF ApplyOp, Goto
<1>9. ASSUME NEW s \in Sessions, RejectOp(s) \/ SavePolicy(s) \/ SaveFails(s) PROVE TypeOK'
  <2>1. stage' \in [Sessions -> Stages]
    BY <1>9 DEF RejectOp, SavePolicy, SaveFails, Goto
  <2>2. stored' \in Policy \cup {None}
    BY <1>9 DEF RejectOp, SavePolicy, SaveFails
  <2> QED
    BY <1>9, <2>1, <2>2 DEF RejectOp, SavePolicy, SaveFails
<1>10. ASSUME NEW s \in Sessions, CloseBanned(s) PROVE TypeOK'
  BY <1>10 DEF CloseBanned, Goto
<1>11. ASSUME NEW s \in Sessions, RefreshRoles(s) PROVE TypeOK'
  <2>1. \A t \in Sessions : RoleFor(draft[s], KeyOf[t]) \in Roles
    BY RoleType
  <2>2. role' \in [Sessions -> Roles]
    BY <1>11, <2>1 DEF RefreshRoles
  <2> QED
    BY <1>11, <2>2 DEF RefreshRoles, Registered, Goto
<1>12. ASSUME NEW s \in Sessions, NEW t \in Sessions, ComputeList(s, t) PROVE TypeOK'
  <2>1. PICK p : /\ LoadStationPolicy(s, p)
                 /\ outgoing' = [outgoing EXCEPT ![s] =
                       [to |-> t, doors |-> Visible(p, KeyOf[t], role[t])]]
    BY <1>12 DEF ComputeList
  <2>2. [to |-> t, doors |-> Visible(p, KeyOf[t], role[t])] \in List
    BY DEF List, Visible
  <2> QED
    BY <1>12, <2>1, <2>2, ReadType DEF ComputeList, Goto
<1>13. ASSUME NEW s \in Sessions, WriteList(s) PROVE TypeOK'
  BY <1>13 DEF WriteList, Goto, List
<1>14. ASSUME NEW s \in Sessions, ListsSent(s) \/ WriteFails(s) PROVE TypeOK'
  <2>1. stage' \in [Sessions -> Stages]
    BY <1>14 DEF ListsSent, WriteFails, Goto
  <2>2. outgoing' \in [Sessions -> List \cup {None}]
    BY <1>14 DEF ListsSent, WriteFails
  <2> QED
    BY <1>14, <2>1, <2>2 DEF ListsSent, WriteFails
<1>15. CASE UNCHANGED vars
  BY <1>15 DEF vars
<1> QED
  BY <1>1, <1>2, <1>3, <1>4, <1>5, <1>6, <1>7, <1>8, <1>9, <1>10, <1>11, <1>12, <1>13,
     <1>14, <1>15 DEF Next

-----------------------------------------------------------------------------
\* A configured admin's session caches the role "admin" from the login on:
\* roleForPublicKeyWithPolicy answers it before it looks at the policy.
LEMMA OwnersStep ==
    ASSUME TypeOK, OwnersAreAdmins, [Next]_vars
    PROVE  OwnersAreAdmins'
<1> USE PolicyAssumption DEF TypeOK, OwnersAreAdmins, LoggedIn, batchVars, listVars
<1>1. ASSUME NEW s \in Sessions, ReadRole(s) PROVE OwnersAreAdmins'
  BY <1>1 DEF ReadRole, Goto, RoleFor
<1>2. ASSUME NEW s \in Sessions, RefreshRoles(s) PROVE OwnersAreAdmins'
  BY <1>2 DEF RefreshRoles, Goto, RoleFor
<1>3. ASSUME NEW s \in Sessions, Admit(s) PROVE OwnersAreAdmins'
  BY <1>3 DEF Admit
<1>4. ASSUME NEW s \in Sessions, Register(s) \/ Submit(s) \/ LoadForBatch(s) \/ ReadFails(s)
      PROVE OwnersAreAdmins'
  BY <1>4 DEF Register, Submit, LoadForBatch, ReadFails, Goto
<1>5. ASSUME NEW s \in Sessions,
             ApplyOp(s) \/ RejectOp(s) \/ SavePolicy(s) \/ SaveFails(s) \/ CloseBanned(s)
      PROVE OwnersAreAdmins'
  BY <1>5 DEF ApplyOp, RejectOp, SavePolicy, SaveFails, CloseBanned, Goto
<1>6. ASSUME NEW s \in Sessions, NEW t \in Sessions,
             \/ Reread(s) \/ ComputeList(s, t) \/ WriteList(s) \/ ListsSent(s)
             \/ WriteFails(s) \/ SaveLegacy(s) \/ Drop(s)
      PROVE OwnersAreAdmins'
  BY <1>6 DEF Reread, ComputeList, WriteList, ListsSent, WriteFails, SaveLegacy, Drop, Goto
<1>7. CASE UNCHANGED vars
  BY <1>7 DEF vars
<1> QED
  BY <1>1, <1>2, <1>3, <1>4, <1>5, <1>6, <1>7 DEF Next

-----------------------------------------------------------------------------
\* An operation that gives no role away keeps a policy plain.
LEMMA EditPlain ==
    ASSUME NEW p \in Policy, NEW o \in PolicyOp, o.on # None, Plain(p), Harmless(o)
    PROVE  Plain(Edit(p, o))
<1> SUFFICES ASSUME NEW k \in Keys \ Owners
             PROVE  ~Privileged(RoleFor(Edit(p, o), k))
  BY DEF Plain
<1> USE DEF Plain, RoleFor, Edit, Policy, PolicyOp
<1>1. CASE o.op = "set_user_role"
  <2>1. Edit(p, o).roles = [p.roles EXCEPT ![o.on] = o.to]
    BY <1>1
  <2>2. CASE k = o.on
    BY <1>1, <2>1, <2>2 DEF Harmless, Privileged
  <2>3. CASE k # o.on
    BY <2>1, <2>3
  <2> QED
    BY <2>2, <2>3
<1>2. CASE o.op # "set_user_role"
  <2>1. Edit(p, o).roles = p.roles
    BY <1>2
  <2> QED
    BY <2>1
<1> QED
  BY <1>1, <1>2

\* The step lemma of NoneRose: reads return plain policies, edits keep them
\* plain, and only sessions with a privileged role are listened to.
LEMMA NoneRoseStep ==
    ASSUME RolesStayWithOwners, TypeOK, NoneRose, [Next]_vars
    PROVE  NoneRose'
<1> USE PolicyAssumption DEF TypeOK, NoneRose
<1>0. Plain(EmptyPolicy)
  BY DEF Plain, EmptyPolicy, RoleFor, Privileged
<1>a. ASSUME NEW s \in Sessions, NEW p, LoadStationPolicy(s, p) PROVE Plain(p)
  BY <1>a, <1>0, ReadType DEF RolesStayWithOwners
<1>b. ASSUME NEW p, Plain(p), NEW t \in Sessions
      PROVE  Privileged(RoleFor(p, KeyOf[t])) => KeyOf[t] \in Owners
  BY <1>b DEF Plain
<1>1. ASSUME NEW s \in Sessions, SaveLegacy(s) PROVE NoneRose'
  BY <1>1 DEF SaveLegacy, RolesStayWithOwners, batchVars, listVars
<1>2. ASSUME NEW s \in Sessions, ReadRole(s) PROVE NoneRose'
  <2>1. PICK p : LoadStationPolicy(s, p) /\ role' = [role EXCEPT ![s] = RoleFor(p, KeyOf[s])]
    BY <1>2 DEF ReadRole
  <2> QED
    BY <1>2, <2>1, <1>a, <1>b DEF ReadRole, batchVars
<1>3. ASSUME NEW s \in Sessions, Submit(s) PROVE NoneRose'
  <2>1. KeyOf[s] \in Owners
    BY <1>3 DEF Submit
  <2> QED
    BY <1>3, <2>1 DEF Submit, RolesStayWithOwners
<1>4. ASSUME NEW s \in Sessions, LoadForBatch(s) \/ Reread(s) PROVE NoneRose'
  <2>1. PICK p : LoadStationPolicy(s, p) /\ draft' = [draft EXCEPT ![s] = p]
    BY <1>4 DEF LoadForBatch, Reread
  <2> QED
    BY <1>4, <2>1, <1>a DEF LoadForBatch, Reread
<1>5. ASSUME NEW s \in Sessions, ApplyOp(s) PROVE NoneRose'
  <2>1. NextOp(s) \in PolicyOp /\ Harmless(NextOp(s))
    BY <1>5 DEF ApplyOp, NextOp
  <2>2. Plain(Edit(draft[s], NextOp(s)))
    BY <1>5, <2>1, EditPlain DEF ApplyOp
  <2> QED
    BY <1>5, <2>2 DEF ApplyOp
<1>6. ASSUME NEW s \in Sessions, SavePolicy(s) PROVE NoneRose'
  BY <1>6 DEF SavePolicy, batchVars
<1>7. ASSUME NEW s \in Sessions, RefreshRoles(s) PROVE NoneRose'
  <2>1. \A t \in Sessions : Privileged(role'[t]) => KeyOf[t] \in Owners
    BY <1>7, <1>b DEF RefreshRoles
  <2> QED
    BY <1>7, <2>1 DEF RefreshRoles, batchVars
<1>8. ASSUME NEW s \in Sessions, NEW t \in Sessions,
             \/ Admit(s) \/ Register(s) \/ Drop(s) \/ ReadFails(s) \/ RejectOp(s)
             \/ SaveFails(s) \/ CloseBanned(s) \/ ComputeList(s, t) \/ WriteList(s)
             \/ ListsSent(s) \/ WriteFails(s)
      PROVE NoneRose'
  <2>1. UNCHANGED <<stored, role, batch, draft>>
    BY <1>8 DEF Admit, Register, Drop, ReadFails, RejectOp, SaveFails, CloseBanned,
                ComputeList, WriteList, ListsSent, WriteFails, batchVars
  <2> QED
    BY <2>1
<1>9. CASE UNCHANGED vars
  BY <1>9 DEF vars, batchVars
<1> QED
  BY <1>1, <1>2, <1>3, <1>4, <1>5, <1>6, <1>7, <1>8, <1>9 DEF Next

-----------------------------------------------------------------------------
\* Every variable of the policy, its caches and the batches under way keeps
\* its type, whatever overlaps.
THEOREM TypeCorrect == Spec => []TypeOK
<1>1. Init => TypeOK
  BY PolicyAssumption, EmptyIsPolicy
     DEF Init, TypeOK, Stages, Roles, List
<1>2. TypeOK /\ [Next]_vars => TypeOK'
  BY TypeStep
<1> QED
  BY <1>1, <1>2, PTL DEF Spec

\* No sequence of batches, no overlap of them and no failing read locks a
\* configured admin out of the admin door, unless by a ban (canAccessDoor,
\* roleForPublicKeyWithPolicy).
THEOREM NoLockout == Spec => []OwnersKeepControl
<1>1. Init => OwnersAreAdmins
  BY DEF Init, OwnersAreAdmins, LoggedIn
<1>2. TypeOK /\ OwnersAreAdmins /\ [Next]_vars => OwnersAreAdmins'
  BY OwnersStep
<1>3. OwnersAreAdmins => OwnersKeepControl
  BY PolicyAssumption DEF OwnersAreAdmins, LoggedIn, OwnersKeepControl, Registered,
     LoginStages, Visible, CanAccess, Privileged
<1> QED
  BY <1>1, <1>2, <1>3, TypeCorrect, PTL DEF Spec

\* Where administrators give no role away nobody gains one, whatever batches
\* the doors answer to other users' events (validateAdminOps, refreshRoles).
THEOREM NobodyRises == ASSUME RolesStayWithOwners PROVE Spec => []NoUpstarts
<1>0. Plain(EmptyPolicy)
  BY DEF Plain, EmptyPolicy, RoleFor, Privileged
<1>1. Init => NoneRose
  BY <1>0, PolicyAssumption DEF Init, NoneRose, Privileged
<1>2. TypeOK /\ NoneRose /\ [Next]_vars => NoneRose'
  BY NoneRoseStep
<1>3. NoneRose => NoUpstarts
  BY <1>0 DEF NoneRose, NoUpstarts, Current, Plain, RolesStayWithOwners
<1> QED
  BY <1>1, <1>2, <1>3, TypeCorrect, PTL DEF Spec

-----------------------------------------------------------------------------
(* Without overlaps *)

\* A batch runs alone, and whoever still has the older policy to import has
\* been overtaken by nobody.
Alone ==
    /\ \A s \in Sessions : stage[s] \in BatchStages =>
          /\ batch[s] \in Requests[s]
          /\ \A t \in Sessions \ {s} : stage[t] \in {"offline", "idle"} /\ t \notin importing
    /\ importing # {} => Legacy # None /\ stored \in {None, Legacy}
    /\ \A s \in Sessions : stage[s] = "refreshing" => draft[s] = Current

\* Somebody's batch has been saved and the roles are not refreshed yet.
Saved == \E s \in Sessions : stage[s] \in {"closing", "rereading", "refreshing"}

RolesKnown == Saved \/ \A t \in Sessions : LoggedIn(t) => role[t] = RoleFor(Current, KeyOf[t])

\* What a read returns when the store answers.
LEMMA ReadCurrent ==
    ASSUME OneAtATime, TypeOK, Alone, NEW s \in Sessions, NEW p, LoadStationPolicy(s, p)
    PROVE  /\ p = Current
           /\ importing' \subseteq importing \cup {s}
           /\ importing' # {} => Legacy # None /\ stored \in {None, Legacy}
  BY DEF LoadStationPolicy, OneAtATime, Alone

\* Only a batch that is saved changes the policy: an import saves what is
\* already in force.
LEMMA CurrentStays ==
    ASSUME TypeOK, Alone, [Next]_vars, \A s \in Sessions : ~SavePolicy(s)
    PROVE  Current' = Current
<1>1. ASSUME NEW s \in Sessions, SaveLegacy(s) PROVE Current' = Current
  BY <1>1, PolicyAssumption DEF SaveLegacy, Alone, Current
<1>2. ASSUME stored' = stored PROVE Current' = Current
  BY <1>2 DEF Current
<1>3. ASSUME NEW s \in Sessions, NEW t \in Sessions,
             \/ Admit(s) \/ ReadRole(s) \/ Register(s) \/ Drop(s) \/ ReadFails(s)
             \/ Submit(s) \/ LoadForBatch(s) \/ ApplyOp(s) \/ RejectOp(s) \/ SaveFails(s)
             \/ CloseBanned(s) \/ Reread(s) \/ RefreshRoles(s) \/ ComputeList(s, t)
             \/ WriteList(s) \/ ListsSent(s) \/ WriteFails(s)
      PROVE  stored' = stored
  BY <1>3 DEF Admit, ReadRole, Register, Drop, ReadFails, Submit, LoadForBatch, ApplyOp,
     RejectOp, SaveFails, CloseBanned, Reread, RefreshRoles, ComputeList, WriteList,
     ListsSent, WriteFails
<1>4. CASE UNCHANGED vars
  BY <1>2, <1>4 DEF vars
<1> QED BY <1>1, <1>2, <1>3, <1>4 DEF Next

\* The sessions but s do nothing that a batch could meet.
Calm(s) == \A t \in Sessions \ {s} : stage[t] \in {"offline", "idle"} /\ t \notin importing

\* A step of session s from one stage to another.
LEMMA MoveAlone ==
    ASSUME TypeOK, Alone, NEW s \in Sessions, NEW q,
           stage' = [stage EXCEPT ![s] = q],
           \A t \in Sessions \ {s} : batch'[t] = batch[t],
           \/ /\ Calm(s)
              /\ importing' \subseteq importing \cup {s}
              /\ q \in BatchStages => batch'[s] \in Requests[s]
           \/ /\ \A t \in Sessions : stage[t] \notin BatchStages
              /\ q \notin BatchStages
           \/ importing' = importing /\ s \notin importing /\ q \in {"offline", "idle"},
           importing' # {} => Legacy # None /\ stored' \in {None, Legacy},
           \A t \in Sessions \ {s} : draft'[t] = draft[t],
           Current' = Current \/ Calm(s),
           q = "refreshing" => draft'[s] = Current'
    PROVE  Alone'
<1>1. stage'[s] = q /\ \A t \in Sessions \ {s} : stage'[t] = stage[t]
  BY DEF TypeOK
<1>2. ASSUME NEW r \in Sessions, stage'[r] \in BatchStages
      PROVE  /\ batch'[r] \in Requests[r]
             /\ \A t \in Sessions \ {r} : stage'[t] \in {"offline", "idle"} /\ t \notin importing'
  <2>1. CASE r = s
    <3>1. Calm(s) /\ importing' \subseteq importing \cup {s} /\ batch'[s] \in Requests[s]
      BY <1>1, <1>2, <2>1 DEF BatchStages
    <3> QED BY <1>1, <2>1, <3>1 DEF Calm
  <2>2. CASE r # s
    <3>1. stage[r] \in BatchStages /\ ~Calm(s)
      BY <1>1, <1>2, <2>2 DEF Calm, BatchStages
    <3>2. importing' = importing /\ s \notin importing /\ q \in {"offline", "idle"}
      BY <3>1
    <3>3. /\ batch[r] \in Requests[r]
          /\ \A t \in Sessions \ {r} : stage[t] \in {"offline", "idle"} /\ t \notin importing
      BY <3>1 DEF Alone
    <3> QED BY <1>1, <2>2, <3>2, <3>3
  <2> QED BY <2>1, <2>2
<1>3. ASSUME NEW r \in Sessions, stage'[r] = "refreshing"
      PROVE  draft'[r] = Current'
  <2>1. CASE r = s
    BY <1>1, <1>3, <2>1
  <2>2. CASE r # s
    <3>1. stage[r] = "refreshing"
      BY <1>1, <1>3, <2>2
    <3>2. ~Calm(s)
      BY <2>2, <3>1 DEF Calm
    <3> QED BY <2>2, <3>1, <3>2 DEF Alone
  <2> QED BY <2>1, <2>2
<1> HIDE DEF Current
<1> QED BY <1>2, <1>3 DEF Alone

LEMMA AloneStep ==
    ASSUME OneAtATime, TypeOK, Alone, [Next]_vars
    PROVE  Alone'
<1> USE PolicyAssumption
<1>a. ASSUME NEW s \in Sessions, stage[s] \in BatchStages PROVE Calm(s)
  BY <1>a DEF Alone, Calm
<1>b. ASSUME NEW s \in Sessions, stage[s] \in LoginStages \cup {"listing"}
      PROVE  \A t \in Sessions : stage[t] \notin BatchStages
  <2>1. ASSUME NEW t \in Sessions, stage[t] \in BatchStages PROVE FALSE
    BY <1>b, <2>1 DEF Alone, LoginStages, BatchStages
  <2> QED BY <2>1
<1>c. importing # {} => Legacy # None /\ stored \in {None, Legacy}
  BY DEF Alone
<1>d. stored' = stored => Current' = Current
  BY DEF Current
<1>1. CASE UNCHANGED vars
  BY <1>1, <1>d DEF vars, batchVars, Alone
<1>2. ASSUME NEW s \in Sessions, SaveLegacy(s) PROVE Alone'
  <2>1. /\ Current' = Current /\ stored' \in {None, Legacy} /\ Legacy # None
        /\ importing' \subseteq importing
        /\ UNCHANGED <<stage, batch, draft>>
    BY <1>2 DEF SaveLegacy, Alone, Current, batchVars, OneAtATime
  <2> HIDE DEF Current
  <2> QED BY <2>1 DEF Alone
<1>3. ASSUME NEW s \in Sessions, Admit(s) PROVE Alone'
  <2>1. PICK p : /\ LoadStationPolicy(s, p)
                 /\ stage' = IF KeyOf[s] \in p.banned THEN stage
                             ELSE [stage EXCEPT ![s] = "admitted"]
    BY <1>3 DEF Admit
  <2>2. NoBatch /\ UNCHANGED <<stored, batch, draft>>
    BY <1>3 DEF Admit, OneAtATime, batchVars
  <2>3. \A t \in Sessions : stage'[t] \notin BatchStages /\ stage'[t] # "refreshing"
    BY <2>1, <2>2 DEF NoBatch, BatchStages, TypeOK
  <2> QED BY <2>1, <2>2, <2>3, ReadCurrent DEF Alone
<1>4. ASSUME NEW s \in Sessions, ReadRole(s) PROVE Alone'
  <2>1. PICK p : LoadStationPolicy(s, p)
    BY <1>4 DEF ReadRole
  <2>2. /\ stage' = [stage EXCEPT ![s] = "joining"] /\ stage[s] = "admitted"
        /\ UNCHANGED <<stored, batch, draft>>
    BY <1>4 DEF ReadRole, Goto, batchVars
  <2>3. \A t \in Sessions : stage[t] \notin BatchStages
    BY <1>b, <2>2 DEF LoginStages
  <2> HIDE DEF Current
  <2> QED BY <1>d, <2>1, <2>2, <2>3, ReadCurrent, MoveAlone DEF BatchStages
<1>5. ASSUME NEW s \in Sessions, Register(s) PROVE Alone'
  <2>1. /\ stage' = [stage EXCEPT ![s] = "listing"] /\ stage[s] = "joining"
        /\ UNCHANGED <<stored, importing, batch, draft>>
    BY <1>5 DEF Register, Goto, batchVars
  <2>2. \A t \in Sessions : stage[t] \notin BatchStages
    BY <1>b, <2>1 DEF LoginStages
  <2> HIDE DEF Current
  <2> QED BY <1>c, <1>d, <2>1, <2>2, MoveAlone DEF BatchStages
<1>6. ASSUME NEW s \in Sessions, ReadFails(s) PROVE Alone'
  <2>1. /\ stage' = [stage EXCEPT ![s] = "offline"] /\ s \notin importing
        /\ UNCHANGED <<stored, importing, batch, draft>>
    BY <1>6 DEF ReadFails, Goto, batchVars
  <2> HIDE DEF Current
  <2> QED BY <1>c, <1>d, <2>1, MoveAlone
<1>7. ASSUME NEW s \in Sessions, Submit(s) PROVE Alone'
  <2>1. /\ stage' = [stage EXCEPT ![s] = "loading"] /\ s \notin importing
        /\ UNCHANGED <<stored, importing, draft>>
        /\ NoBatch /\ NoLogin
        /\ \E b \in Requests[s] : batch' = [batch EXCEPT ![s] = b]
    BY <1>7 DEF Submit, Goto, OneAtATime
  <2>2. Calm(s)
    BY <2>1 DEF NoBatch, NoLogin, Calm, TypeOK, Stages
  <2>3. batch'[s] \in Requests[s] /\ \A t \in Sessions \ {s} : batch'[t] = batch[t]
    BY <2>1 DEF TypeOK
  <2> HIDE DEF Current
  <2> QED BY <1>c, <1>d, <2>1, <2>2, <2>3, MoveAlone
<1>8. ASSUME NEW s \in Sessions, LoadForBatch(s) \/ Reread(s) PROVE Alone'
  <2>1. PICK p : LoadStationPolicy(s, p) /\ draft' = [draft EXCEPT ![s] = p]
    BY <1>8 DEF LoadForBatch, Reread
  <2>2. PICK q \in BatchStages : stage' = [stage EXCEPT ![s] = q]
    BY <1>8 DEF LoadForBatch, Reread, Goto, BatchStages
  <2>3. stage[s] \in BatchStages /\ UNCHANGED <<stored, batch>>
    BY <1>8 DEF LoadForBatch, Reread, Goto, BatchStages
  <2>4. Calm(s) /\ batch[s] \in Requests[s]
    BY <1>a, <2>3 DEF Alone
  <2>5. draft'[s] = Current /\ \A t \in Sessions \ {s} : draft'[t] = draft[t]
    BY <2>1, ReadCurrent DEF TypeOK
  <2> HIDE DEF Current
  <2> QED BY <1>d, <2>1, <2>2, <2>3, <2>4, <2>5, ReadCurrent, MoveAlone
<1>9. ASSUME NEW s \in Sessions, ApplyOp(s) \/ RejectOp(s) \/ SaveFails(s) \/ CloseBanned(s)
      PROVE Alone'
  <2>1. PICK q \in {"editing", "idle", "rereading"} : stage' = [stage EXCEPT ![s] = q]
    BY <1>9 DEF ApplyOp, RejectOp, SaveFails, CloseBanned, Goto
  <2>2. stage[s] \in BatchStages /\ UNCHANGED <<stored, importing, batch>>
    BY <1>9 DEF ApplyOp, RejectOp, SaveFails, CloseBanned, Goto, BatchStages, batchVars
  <2>3. Calm(s) /\ batch[s] \in Requests[s]
    BY <1>a, <2>2 DEF Alone
  <2>4. \A t \in Sessions \ {s} : draft'[t] = draft[t]
    BY <1>9 DEF ApplyOp, RejectOp, SaveFails, CloseBanned, batchVars, TypeOK
  <2> HIDE DEF Current
  <2> QED BY <1>c, <1>d, <2>1, <2>2, <2>3, <2>4, MoveAlone
<1>10. ASSUME NEW s \in Sessions, SavePolicy(s) PROVE Alone'
  <2>1. /\ stage' = [stage EXCEPT ![s] = "closing"] /\ s \notin importing
        /\ UNCHANGED <<importing, batch, draft>> /\ stage[s] = "editing"
    BY <1>10 DEF SavePolicy, Goto, batchVars
  <2>2. Calm(s) /\ batch[s] \in Requests[s]
    BY <1>a, <2>1 DEF Alone, BatchStages
  <2>3. importing' = {}
    BY <2>1, <2>2 DEF Calm, TypeOK
  <2> HIDE DEF Current
  <2> QED BY <2>1, <2>2, <2>3, MoveAlone
<1>11. ASSUME NEW s \in Sessions, RefreshRoles(s) PROVE Alone'
  <2>1. /\ stage' = [stage EXCEPT ![s] = "listing"] /\ stage[s] \in BatchStages
        /\ UNCHANGED <<stored, importing, batch, draft>>
    BY <1>11 DEF RefreshRoles, Goto, batchVars, BatchStages
  <2>2. Calm(s)
    BY <1>a, <2>1
  <2> HIDE DEF Current
  <2> QED BY <1>c, <1>d, <2>1, <2>2, MoveAlone DEF BatchStages
<1>12. ASSUME NEW s \in Sessions, NEW t \in Sessions, ComputeList(s, t) PROVE Alone'
  <2>1. PICK p : LoadStationPolicy(s, p)
    BY <1>12 DEF ComputeList
  <2>2. /\ stage' = [stage EXCEPT ![s] = "listing"] /\ stage[s] = "listing"
        /\ UNCHANGED <<stored, batch, draft>>
    BY <1>12 DEF ComputeList, Goto, batchVars
  <2>3. \A r \in Sessions : stage[r] \notin BatchStages
    BY <1>b, <2>2
  <2> HIDE DEF Current
  <2> QED BY <1>d, <2>1, <2>2, <2>3, ReadCurrent, MoveAlone DEF BatchStages
<1>13. ASSUME NEW s \in Sessions, WriteList(s) \/ ListsSent(s) \/ WriteFails(s) PROVE Alone'
  <2>1. /\ \E q \in {"listing", "idle"} : stage' = [stage EXCEPT ![s] = q]
        /\ stage[s] = "listing"
        /\ UNCHANGED <<stored, importing, batch, draft>>
    BY <1>13 DEF WriteList, ListsSent, WriteFails, Goto, batchVars
  <2>2. \A t \in Sessions : stage[t] \notin BatchStages
    BY <1>b, <2>1
  <2> HIDE DEF Current
  <2> QED BY <1>c, <1>d, <2>1, <2>2, MoveAlone DEF BatchStages
<1>14. ASSUME NEW s \in Sessions, Drop(s) PROVE Alone'
  <2>1. UNCHANGED <<stored, importing, stage, batch, draft>>
    BY <1>14 DEF Drop, batchVars
  <2> QED BY <1>d, <2>1 DEF Alone
<1> QED
  BY <1>1, <1>2, <1>3, <1>4, <1>5, <1>6, <1>7, <1>8, <1>9, <1>10, <1>11, <1>12, <1>13, <1>14
     DEF Next

-----------------------------------------------------------------------------
(* Roles *)

Settling == {"closing", "rereading", "refreshing"}

\* A step that neither logs a session in nor ends what a saved batch has to do.
LEMMA MoveKnown ==
    ASSUME TypeOK, RolesKnown, NEW s \in Sessions, NEW q,
           stage' = [stage EXCEPT ![s] = q], role' = role, Current' = Current,
           LoggedIn(s) \/ q \in {"offline", "admitted"},
           stage[s] \in Settling => q \in Settling
    PROVE  RolesKnown'
<1> HIDE DEF Current
<1>1. Saved => Saved'
  BY DEF Saved, Settling, TypeOK
<1>2. \A t \in Sessions : LoggedIn(t)' => LoggedIn(t)
  BY DEF LoggedIn, TypeOK
<1> QED BY <1>1, <1>2 DEF RolesKnown

LEMMA RolesStep ==
    ASSUME OneAtATime, TypeOK, Alone, RolesKnown, [Next]_vars
    PROVE  RolesKnown'
<1> USE PolicyAssumption
<1>0. (\A s \in Sessions : ~SavePolicy(s)) => Current' = Current
  BY CurrentStays
<1>d. stored' = stored => Current' = Current
  BY DEF Current
<1>1. ASSUME NEW s \in Sessions, SavePolicy(s) PROVE RolesKnown'
  BY <1>1 DEF SavePolicy, Goto, RolesKnown, Saved, TypeOK
<1>2. ASSUME NEW s \in Sessions, ReadRole(s) PROVE RolesKnown'
  <2>1. PICK p : LoadStationPolicy(s, p) /\ role' = [role EXCEPT ![s] = RoleFor(p, KeyOf[s])]
    BY <1>2 DEF ReadRole
  <2>2. role' = [role EXCEPT ![s] = RoleFor(Current, KeyOf[s])]
    <3>1. p = Current
      BY <2>1, ReadCurrent
    <3> QED BY <2>1, <3>1
  <2>3. /\ stage' = [stage EXCEPT ![s] = "joining"] /\ stage[s] = "admitted"
        /\ Current' = Current
    BY <1>2, <1>d DEF ReadRole, Goto
  <2> HIDE DEF Current
  <2>4. Saved => Saved'
    BY <2>3 DEF Saved, TypeOK
  <2>5. ASSUME NEW t \in Sessions, LoggedIn(t)', ~Saved PROVE role'[t] = RoleFor(Current, KeyOf[t])
    <3>1. CASE t = s
      BY <2>2, <3>1 DEF TypeOK
    <3>2. CASE t # s
      <4>1. LoggedIn(t) /\ role'[t] = role[t]
        BY <2>2, <2>3, <2>5, <3>2 DEF TypeOK, LoggedIn
      <4> QED BY <2>5, <4>1 DEF RolesKnown
    <3> QED BY <3>1, <3>2
  <2> QED BY <2>3, <2>4, <2>5 DEF RolesKnown
<1>3. ASSUME NEW s \in Sessions, RefreshRoles(s) PROVE RolesKnown'
  <2>1. /\ stage' = [stage EXCEPT ![s] = "listing"] /\ stage[s] = "refreshing"
        /\ stored' = stored
        /\ role' = [t \in Sessions |-> IF t \in Registered THEN RoleFor(draft[s], KeyOf[t])
                                       ELSE role[t]]
    BY <1>3 DEF RefreshRoles, Goto
  <2>2. draft[s] = Current /\ Current' = Current
    BY <1>d, <2>1 DEF Alone
  <2>3. \A t \in Sessions \ {s} : stage[t] \in {"offline", "idle"}
    BY <2>1 DEF Alone, BatchStages
  <2>4. \A t \in Sessions : LoggedIn(t)' => t \in Registered
    BY <2>1, <2>3 DEF LoggedIn, Registered, LoginStages, TypeOK
  <2> HIDE DEF Current
  <2> QED BY <2>1, <2>2, <2>4 DEF RolesKnown
<1>4. ASSUME NEW s \in Sessions, Admit(s) PROVE RolesKnown'
  <2>1. /\ \/ stage' = [stage EXCEPT ![s] = "admitted"]
           \/ stage' = stage
        /\ stage[s] = "offline" /\ role' = role /\ Current' = Current
    BY <1>4, <1>d DEF Admit
  <2>2. stage' = stage => stage' = [stage EXCEPT ![s] = "offline"]
    BY <2>1 DEF TypeOK
  <2> HIDE DEF Current
  <2> QED BY <2>1, <2>2, MoveKnown DEF Settling
<1>5. ASSUME NEW s \in Sessions, Register(s) \/ Submit(s) \/ LoadForBatch(s) PROVE RolesKnown'
  <2>1. /\ \E q \in Stages : stage' = [stage EXCEPT ![s] = q]
        /\ stage[s] \in {"joining", "idle", "loading"}
        /\ role' = role /\ Current' = Current
    BY <1>5, <1>d DEF Register, Submit, LoadForBatch, Goto, Stages, BatchStages, LoginStages
  <2> HIDE DEF Current
  <2> QED BY <2>1, MoveKnown DEF Settling, LoggedIn
<1>6. ASSUME NEW s \in Sessions, ReadFails(s) \/ ApplyOp(s) \/ RejectOp(s) \/ SaveFails(s)
      PROVE RolesKnown'
  <2>1. /\ \E q \in Stages : stage' = [stage EXCEPT ![s] = q]
        /\ stage[s] \in {"idle", "editing"}
        /\ role' = role /\ Current' = Current
    BY <1>6, <1>d DEF ReadFails, ApplyOp, RejectOp, SaveFails, Goto, Stages, BatchStages
  <2> HIDE DEF Current
  <2> QED BY <2>1, MoveKnown DEF Settling, LoggedIn
<1>7. ASSUME NEW s \in Sessions, CloseBanned(s) \/ Reread(s) PROVE RolesKnown'
  <2>1. /\ \E q \in Settling : stage' = [stage EXCEPT ![s] = q]
        /\ stage[s] \in Settling
        /\ role' = role /\ Current' = Current
    BY <1>7, <1>d DEF CloseBanned, Reread, Goto, Settling
  <2> HIDE DEF Current
  <2> QED BY <2>1, MoveKnown DEF Settling, LoggedIn
<1>8. ASSUME NEW s \in Sessions, NEW t \in Sessions,
             ComputeList(s, t) \/ WriteList(s) \/ ListsSent(s) \/ WriteFails(s)
      PROVE RolesKnown'
  <2>1. /\ \E q \in Stages : stage' = [stage EXCEPT ![s] = q]
        /\ stage[s] = "listing"
        /\ role' = role /\ Current' = Current
    BY <1>8, <1>d DEF ComputeList, WriteList, ListsSent, WriteFails, Goto, Stages
  <2> HIDE DEF Current
  <2> QED BY <2>1, MoveKnown DEF Settling, LoggedIn
<1>9. ASSUME NEW s \in Sessions, SaveLegacy(s) \/ Drop(s) PROVE RolesKnown'
  <2>1. stage' = stage /\ role' = role
    BY <1>9 DEF SaveLegacy, Drop
  <2>2. \A r \in Sessions : ~SavePolicy(r)
    <3>1. \A r \in Sessions : SavePolicy(r) => stage' # stage
      BY DEF SavePolicy, Goto, TypeOK
    <3> QED BY <2>1, <3>1
  <2>3. Current' = Current
    BY <1>0, <2>2
  <2> HIDE DEF Current
  <2> QED BY <2>1, <2>3 DEF RolesKnown, Saved, LoggedIn
<1>10. CASE UNCHANGED vars
  <2>1. stage' = stage /\ role' = role /\ Current' = Current
    BY <1>10, <1>d DEF vars
  <2> HIDE DEF Current
  <2> QED BY <2>1 DEF RolesKnown, Saved, LoggedIn
<1> QED
  BY <1>1, <1>2, <1>3, <1>4, <1>5, <1>6, <1>7, <1>8, <1>9, <1>10 DEF Next

LEMMA InitAlone == Init => Alone /\ RolesKnown
  BY DEF Init, Alone, RolesKnown, LoggedIn, BatchStages

\* Where nothing overlaps and the store answers, every session has the role
\* its passport has been given as soon as a batch is done (refreshRoles,
\* authenticate), whatever an older release left to import.
THEOREM RolesAreCurrent == ASSUME OneAtATime PROVE Spec => []RolesFollowPolicy
<1>1. TypeOK /\ Alone /\ [Next]_vars => Alone'
  BY AloneStep
<1>2. TypeOK /\ Alone /\ RolesKnown /\ [Next]_vars => RolesKnown'
  BY RolesStep
<1>3. TypeOK /\ RolesKnown => RolesFollowPolicy
  BY DEF RolesKnown, RolesFollowPolicy, Quiet, Saved, Registered, LoggedIn, LoginStages
<1> QED
  BY <1>1, <1>2, <1>3, InitAlone, TypeCorrect, PTL DEF Spec

-----------------------------------------------------------------------------
(* Door lists *)

\* Lists are computed for connected sessions, from the policy in force, and
\* only while no batch is being applied.
Sending ==
    /\ \A s \in Sessions :
          /\ targets[s] \subseteq up \cap Registered
          /\ targets[s] # {} => stage[s] = "listing"
          /\ stage[s] \in BatchStages => Registered \subseteq up
    /\ \A s \in Sessions : outgoing[s] # None =>
          /\ stage[s] = "listing"
          /\ outgoing[s].to \in up \cap Registered
          /\ outgoing[s].doors =
                Visible(Current, KeyOf[outgoing[s].to], role[outgoing[s].to])

Due(t) == \E s \in Sessions : t \in targets[s] \/ (outgoing[s] # None /\ outgoing[s].to = t)

\* Who has not been told the doors of the policy in force is about to be.
ListsKnown == Saved \/ \A t \in Registered \cap up :
    doorList[t] = Visible(Current, KeyOf[t], role[t]) \/ Due(t)

ListInv == Sending /\ ListsKnown

\* While a batch is applied no list is under way.
LEMMA NothingSent ==
    ASSUME TypeOK, Alone, Sending, NEW s \in Sessions, stage[s] \in BatchStages
    PROVE  \A t \in Sessions : targets[t] = {} /\ outgoing[t] = None
  BY DEF Alone, Sending, BatchStages

\* A step that leaves lists, roles and connections alone.
LEMMA MoveSending ==
    ASSUME TypeOK, Alone, Sending, NEW s \in Sessions, NEW q \in Stages,
           stage' = [stage EXCEPT ![s] = q],
           UNCHANGED <<role, up, targets, outgoing>>,
           Current' = Current \/ stage[s] \in BatchStages,
           stage[s] = "listing" => targets[s] = {} /\ outgoing[s] = None,
           s \in up => (s \in Registered)' = (s \in Registered),
           q \notin {"offline"} \cup LoginStages => s \in Registered,
           q \in BatchStages => Registered \subseteq up
    PROVE  Sending'
<1> HIDE DEF Current
<1>1. stage'[s] = q /\ \A t \in Sessions \ {s} : stage'[t] = stage[t]
  BY DEF TypeOK
<1>2. Registered' \subseteq Registered /\ up \cap Registered \subseteq Registered'
  BY <1>1 DEF Registered
<1>3. ASSUME NEW t \in Sessions
      PROVE  /\ targets'[t] \subseteq up' \cap Registered'
             /\ targets'[t] # {} => stage'[t] = "listing"
  BY <1>1, <1>2 DEF Sending
<1>4. ASSUME NEW t \in Sessions, stage'[t] \in BatchStages PROVE Registered' \subseteq up'
  BY <1>1, <1>2, <1>4 DEF Sending
<1>5. ASSUME NEW t \in Sessions, outgoing'[t] # None
      PROVE  /\ stage'[t] = "listing"
             /\ outgoing'[t].to \in up' \cap Registered'
             /\ outgoing'[t].doors =
                  Visible(Current', KeyOf[outgoing'[t].to], role'[outgoing'[t].to])
  <2>1. stage[t] = "listing" /\ outgoing[t] # None
    BY <1>5 DEF Sending
  <2>2. Current' = Current
    BY <1>5, NothingSent
  <2>3. t # s
    BY <2>1
  <2>4. /\ outgoing[t].to \in up \cap Registered
        /\ outgoing[t].doors = Visible(Current, KeyOf[outgoing[t].to], role[outgoing[t].to])
    BY <1>5 DEF Sending
  <2> QED BY <1>1, <1>2, <2>1, <2>2, <2>3, <2>4
<1> QED BY <1>3, <1>4, <1>5 DEF Sending

\* ... and does not log a session in or end what a saved batch has to do.
LEMMA MoveListed ==
    ASSUME TypeOK, ListsKnown, NEW s \in Sessions, NEW q \in Stages,
           stage' = [stage EXCEPT ![s] = q],
           UNCHANGED <<role, up, targets, outgoing, doorList>>,
           Current' = Current,
           q \notin {"offline"} \cup LoginStages => s \in Registered,
           stage[s] \in Settling => q \in Settling
    PROVE  ListsKnown'
<1> HIDE DEF Current
<1>1. stage'[s] = q /\ \A t \in Sessions \ {s} : stage'[t] = stage[t]
  BY DEF TypeOK
<1>2. Registered' \subseteq Registered
  BY <1>1 DEF Registered
<1>3. Saved => Saved'
  BY <1>1 DEF Saved, Settling
<1>4. \A t : Due(t)' = Due(t)
  BY DEF Due
<1> QED BY <1>2, <1>3, <1>4 DEF ListsKnown

LEMMA ListsStep ==
    ASSUME OneAtATime, BansNobody, TypeOK, Alone, ListInv, [Next]_vars
    PROVE  ListInv'
<1> USE PolicyAssumption DEF ListInv
<1>0. (\A s \in Sessions : ~SavePolicy(s)) => Current' = Current
  BY CurrentStays
<1>d. stored' = stored => Current' = Current
  BY DEF Current
<1>1. ASSUME NEW s \in Sessions, SavePolicy(s) PROVE ListInv'
  <2>1. /\ stage' = [stage EXCEPT ![s] = "closing"] /\ stage[s] = "editing"
        /\ UNCHANGED <<role, up, targets, outgoing>>
    BY <1>1 DEF SavePolicy, Goto, listVars
  <2>2. Saved'
    BY <2>1 DEF Saved, TypeOK
  <2>3. s \in Registered /\ (s \in Registered)' /\ Registered \subseteq up
    BY <2>1 DEF Registered, LoginStages, TypeOK, Sending, BatchStages
  <2>4. Sending'
    <3> HIDE DEF Current
    <3> QED BY <2>1, <2>3, MoveSending DEF BatchStages, Stages
  <2> QED BY <2>2, <2>4 DEF ListsKnown
<1>2. ASSUME NEW s \in Sessions, NEW q \in Stages,
             stage' = [stage EXCEPT ![s] = q],
             UNCHANGED <<role, up, targets, outgoing, doorList>>,
             Current' = Current,
             stage[s] = "listing" => targets[s] = {} /\ outgoing[s] = None,
             \/ stage[s] \in {"offline", "admitted", "joining"} <=> q \in {"offline", "admitted", "joining"}
             \/ q = "offline" /\ s \notin up,
             q \in BatchStages => Registered \subseteq up,
             stage[s] \in Settling => q \in Settling
      PROVE ListInv'
  <2> HIDE DEF Current
  <2>1. /\ s \in up => (s \in Registered)' = (s \in Registered)
        /\ q \notin {"offline"} \cup LoginStages => s \in Registered
    BY <1>2 DEF Registered, TypeOK, LoginStages
  <2>2. Sending'
    BY <1>2, <2>1, MoveSending
  <2> QED BY <1>2, <2>1, <2>2, MoveListed
<1>3. ASSUME NEW s \in Sessions, stage[s] \in BatchStages PROVE Registered \subseteq up
  BY <1>3 DEF Sending
<1>4. ASSUME NEW s \in Sessions, Admit(s) PROVE ListInv'
  <2>1. /\ \/ stage' = [stage EXCEPT ![s] = "admitted"]
           \/ stage' = stage
        /\ stage[s] = "offline" /\ Current' = Current
        /\ UNCHANGED <<role, up, targets, outgoing, doorList>>
    BY <1>4, <1>d DEF Admit, listVars
  <2>2. stage' = stage => stage' = [stage EXCEPT ![s] = "offline"]
    BY <2>1 DEF TypeOK
  <2> HIDE DEF Current
  <2> QED BY <1>2, <2>1, <2>2 DEF Stages, LoginStages, BatchStages, Settling
<1>5. ASSUME NEW s \in Sessions, ReadFails(s) PROVE ListInv'
  <2>1. /\ stage' = [stage EXCEPT ![s] = "offline"] /\ stage[s] = "idle"
        /\ s \notin up /\ Current' = Current
        /\ UNCHANGED <<role, up, targets, outgoing, doorList>>
    BY <1>5, <1>d DEF ReadFails, Goto, listVars
  <2> HIDE DEF Current
  <2> QED BY <1>2, <2>1 DEF Stages, LoginStages, BatchStages, Settling
<1>6. ASSUME NEW s \in Sessions, Submit(s) PROVE ListInv'
  <2>1. /\ stage' = [stage EXCEPT ![s] = "loading"] /\ stage[s] = "idle"
        /\ Registered \subseteq up /\ Current' = Current
        /\ UNCHANGED <<role, up, targets, outgoing, doorList>>
    BY <1>6, <1>d DEF Submit, Goto, listVars, OneAtATime
  <2> HIDE DEF Current
  <2> QED BY <1>2, <2>1 DEF Stages, LoginStages, BatchStages, Settling
<1>7. ASSUME NEW s \in Sessions,
             LoadForBatch(s) \/ ApplyOp(s) \/ RejectOp(s) \/ SaveFails(s)
      PROVE ListInv'
  <2>1. /\ \E q \in {"editing", "idle"} : stage' = [stage EXCEPT ![s] = q]
        /\ stage[s] \in {"loading", "editing"} /\ Current' = Current
        /\ UNCHANGED <<role, up, targets, outgoing, doorList>>
    BY <1>7, <1>d DEF LoadForBatch, ApplyOp, RejectOp, SaveFails, Goto, listVars
  <2>2. Registered \subseteq up
    BY <1>3, <2>1 DEF BatchStages
  <2> HIDE DEF Current
  <2> QED BY <1>2, <2>1, <2>2 DEF Stages, LoginStages, BatchStages, Settling
<1>8. ASSUME NEW s \in Sessions, CloseBanned(s) \/ Reread(s) PROVE ListInv'
  <2>1. /\ \E q \in {"rereading", "refreshing"} : stage' = [stage EXCEPT ![s] = q]
        /\ stage[s] \in {"closing", "rereading"} /\ Current' = Current
        /\ UNCHANGED <<role, targets, outgoing, doorList>>
    BY <1>8, <1>d DEF CloseBanned, Reread, Goto, listVars
  <2>2. BannedBy(batch[s]) = {}
    BY <2>1 DEF BansNobody, Alone, BatchStages
  <2>3. up' = up
    BY <1>8, <2>2 DEF CloseBanned, Reread, TypeOK
  <2>4. Registered \subseteq up
    BY <1>3, <2>1 DEF BatchStages
  <2> HIDE DEF Current
  <2> QED BY <1>2, <2>1, <2>3, <2>4 DEF Stages, LoginStages, BatchStages, Settling
<1>9. ASSUME NEW s \in Sessions, ListsSent(s) PROVE ListInv'
  <2>1. /\ stage' = [stage EXCEPT ![s] = "idle"] /\ stage[s] = "listing"
        /\ targets[s] = {} /\ outgoing[s] = None /\ Current' = Current
        /\ UNCHANGED <<role, up, targets, outgoing, doorList>>
    BY <1>9, <1>d DEF ListsSent, Goto, listVars
  <2> HIDE DEF Current
  <2> QED BY <1>2, <2>1 DEF Stages, LoginStages, BatchStages, Settling
<1>10. ASSUME NEW s \in Sessions, WriteFails(s) PROVE ListInv'
  BY <1>10 DEF WriteFails, Sending
<1>11. ASSUME UNCHANGED <<stage, role, up, targets, outgoing, doorList>>, Current' = Current
       PROVE ListInv'
  <2> HIDE DEF Current
  <2>1. Sending'
    BY <1>11 DEF Sending, Registered
  <2> QED BY <1>11, <2>1 DEF ListsKnown, Saved, Registered, Due
<1>12. ASSUME NEW s \in Sessions, SaveLegacy(s) PROVE ListInv'
  <2>1. UNCHANGED <<stage, role, up, targets, outgoing, doorList>>
    BY <1>12 DEF SaveLegacy, listVars
  <2>2. \A r \in Sessions : SavePolicy(r) => stage' # stage
    BY DEF SavePolicy, Goto, TypeOK
  <2> QED BY <1>0, <1>11, <2>1, <2>2
<1>13. CASE UNCHANGED vars
  BY <1>11, <1>13, <1>d DEF vars, listVars
<1>14. ASSUME NEW s \in Sessions, Drop(s) PROVE ListInv'
  <2>1. /\ up' = up \ {s} /\ Quiet /\ Current' = Current
        /\ UNCHANGED <<stage, role, targets, outgoing, doorList>>
    BY <1>14, <1>d DEF Drop, OneAtATime, listVars
  <2> HIDE DEF Current
  <2>2. \A t \in Sessions : targets[t] = {} /\ outgoing[t] = None /\ stage[t] \notin BatchStages
    BY <2>1 DEF Quiet, Sending, BatchStages
  <2>3. Sending'
    BY <2>1, <2>2 DEF Sending
  <2> QED BY <2>1, <2>3 DEF ListsKnown, Saved, Registered, Due
<1>15. ASSUME NEW s \in Sessions, Register(s) PROVE ListInv'
  <2>1. /\ stage' = [stage EXCEPT ![s] = "listing"] /\ stage[s] = "joining"
        /\ up' = up \cup {s} /\ targets' = [targets EXCEPT ![s] = {s}]
        /\ doorList' = [doorList EXCEPT ![s] = {}]
        /\ Current' = Current
        /\ UNCHANGED <<role, outgoing>>
    BY <1>15, <1>d DEF Register, Goto
  <2> HIDE DEF Current
  <2>2. Registered' = Registered \cup {s} /\ s \notin Registered
    BY <2>1 DEF Registered, TypeOK, LoginStages
  <2>3. \A t \in Sessions \ {s} : /\ stage'[t] = stage[t] /\ targets'[t] = targets[t]
                                  /\ doorList'[t] = doorList[t]
    BY <2>1 DEF TypeOK
  <2>4. stage'[s] = "listing" /\ targets'[s] = {s} /\ outgoing[s] = None /\ targets[s] = {}
    BY <2>1 DEF TypeOK, Sending
  <2>5. ASSUME NEW t \in Sessions
        PROVE  /\ targets'[t] \subseteq up' \cap Registered'
               /\ targets'[t] # {} => stage'[t] = "listing"
               /\ stage'[t] \in BatchStages => Registered' \subseteq up'
    BY <2>1, <2>2, <2>3, <2>4 DEF Sending, BatchStages
  <2>6. Sending'
    BY <2>1, <2>2, <2>3, <2>4, <2>5 DEF Sending
  <2>7. Saved => Saved'
    BY <2>1 DEF Saved, TypeOK
  <2>8. Due(s)' /\ \A t : Due(t) => Due(t)'
    BY <2>1, <2>3, <2>4 DEF Due
  <2> QED BY <2>1, <2>2, <2>3, <2>6, <2>7, <2>8 DEF ListsKnown
<1>16. ASSUME NEW s \in Sessions, ReadRole(s) PROVE ListInv'
  <2>1. /\ stage' = [stage EXCEPT ![s] = "joining"] /\ stage[s] = "admitted"
        /\ \A t \in Sessions \ {s} : role'[t] = role[t]
        /\ UNCHANGED <<up, targets, outgoing, doorList>> /\ Current' = Current
    BY <1>16, <1>d DEF ReadRole, Goto, listVars, TypeOK
  <2> HIDE DEF Current
  <2>2. Registered' = Registered /\ s \notin Registered
    BY <2>1 DEF Registered, TypeOK, LoginStages
  <2>3. \A t \in Sessions \ {s} : stage'[t] = stage[t]
    BY <2>1 DEF TypeOK
  <2>4. stage'[s] = "joining"
    BY <2>1 DEF TypeOK
  <2>5. /\ \A t \in Registered : t # s /\ t \in Sessions /\ role'[t] = role[t]
        /\ \A t \in Sessions : /\ stage[t] = "listing" => stage'[t] = "listing"
                               /\ stage'[t] \in BatchStages => stage[t] \in BatchStages
    BY <2>1, <2>2, <2>3, <2>4 DEF Registered, BatchStages
  <2>6. Sending'
    <3>1. ASSUME NEW t \in Sessions, outgoing'[t] # None
          PROVE  /\ stage'[t] = "listing"
                 /\ outgoing'[t].to \in up' \cap Registered'
                 /\ outgoing'[t].doors =
                      Visible(Current', KeyOf[outgoing'[t].to], role'[outgoing'[t].to])
      <4>1. outgoing[t].to \in up \cap Registered
        BY <2>1, <3>1 DEF Sending
      <4>2. role'[outgoing[t].to] = role[outgoing[t].to]
        BY <2>5, <4>1
      <4> QED BY <2>1, <2>2, <2>5, <3>1, <4>1, <4>2 DEF Sending
    <3> QED BY <2>1, <2>2, <2>5, <3>1 DEF Sending
  <2>7. Saved => Saved'
    BY <2>1 DEF Saved, TypeOK
  <2>8. ListsKnown'
    BY <2>1, <2>2, <2>5, <2>7 DEF ListsKnown, Due
  <2> QED BY <2>6, <2>8
<1>17. ASSUME NEW s \in Sessions, RefreshRoles(s) PROVE ListInv'
  <2>1. /\ stage' = [stage EXCEPT ![s] = "listing"] /\ stage[s] = "refreshing"
        /\ targets' = [targets EXCEPT ![s] = Registered]
        /\ UNCHANGED <<up, outgoing, doorList>>
    BY <1>17 DEF RefreshRoles, Goto
  <2>2. /\ \A t \in Sessions : targets[t] = {} /\ outgoing[t] = None
        /\ Registered \subseteq up
        /\ \A t \in Sessions \ {s} : stage[t] \in {"offline", "idle"}
    BY <1>3, <2>1, NothingSent DEF BatchStages, Alone
  <2>3. Registered' = Registered
    BY <2>1 DEF Registered, TypeOK, LoginStages
  <2>4. /\ targets'[s] = Registered /\ stage'[s] = "listing"
        /\ \A t \in Sessions \ {s} : targets'[t] = {} /\ stage'[t] \in {"offline", "idle"}
    BY <2>1, <2>2 DEF TypeOK
  <2>5. Sending'
    BY <2>1, <2>2, <2>3, <2>4 DEF Sending, BatchStages
  <2> QED BY <2>3, <2>4, <2>5 DEF ListsKnown, Due
<1>18. ASSUME NEW s \in Sessions, NEW t \in Sessions, ComputeList(s, t) PROVE ListInv'
  <2>1. /\ stage' = stage /\ stage[s] = "listing" /\ t \in targets[s]
        /\ outgoing[s] = None
        /\ targets' = [targets EXCEPT ![s] = @ \ {t}]
        /\ UNCHANGED <<up, role, doorList>> /\ Current' = Current
    BY <1>18, <1>d DEF ComputeList, Goto, TypeOK
  <2>2. PICK p : /\ LoadStationPolicy(s, p)
                 /\ outgoing' = [outgoing EXCEPT ![s] =
                       [to |-> t, doors |-> Visible(p, KeyOf[t], role[t])]]
    BY <1>18 DEF ComputeList
  <2>3. p = Current
    BY <2>2, ReadCurrent
  <2> HIDE DEF Current
  <2>4. /\ outgoing'[s] = [to |-> t, doors |-> Visible(Current, KeyOf[t], role[t])]
        /\ outgoing'[s] # None
        /\ \A r \in Sessions \ {s} : outgoing'[r] = outgoing[r] /\ targets'[r] = targets[r]
        /\ targets'[s] = targets[s] \ {t}
    <3>1. [to |-> t, doors |-> Visible(Current, KeyOf[t], role[t])].to = t
      OBVIOUS
    <3>2. outgoing'[s] = [to |-> t, doors |-> Visible(Current, KeyOf[t], role[t])]
      BY <2>2, <2>3 DEF TypeOK
    <3>3. outgoing'[s] \in List
      BY <2>1, <3>2 DEF List, Visible, TypeOK
    <3>4. outgoing'[s] # None
      BY <3>3
    <3> QED BY <2>1, <2>2, <3>2, <3>4 DEF TypeOK
  <2>5. Registered' = Registered
    BY <2>1 DEF Registered
  <2>6. Sending'
    BY <2>1, <2>4, <2>5 DEF Sending
  <2>7. \A r : Due(r) => Due(r)'
    BY <2>1, <2>4 DEF Due
  <2> QED BY <2>1, <2>5, <2>6, <2>7 DEF ListsKnown, Saved
<1>19. ASSUME NEW s \in Sessions, WriteList(s) PROVE ListInv'
  <2>1. /\ stage' = stage /\ outgoing[s] # None
        /\ doorList' = [doorList EXCEPT ![outgoing[s].to] = outgoing[s].doors]
        /\ outgoing' = [outgoing EXCEPT ![s] = None]
        /\ UNCHANGED <<up, role, targets>> /\ Current' = Current
    BY <1>19, <1>d DEF WriteList, Goto, TypeOK
  <2> HIDE DEF Current
  <2>2. /\ outgoing'[s] = None /\ \A r \in Sessions \ {s} : outgoing'[r] = outgoing[r]
    BY <2>1 DEF TypeOK
  <2>3. Registered' = Registered
    BY <2>1 DEF Registered
  <2>4. Sending'
    BY <2>1, <2>2, <2>3 DEF Sending
  <2> DEFINE t == outgoing[s].to
  <2>5. t \in Sessions /\ doorList'[t] = Visible(Current, KeyOf[t], role[t])
        /\ \A r \in Sessions \ {t} : doorList'[r] = doorList[r]
    BY <2>1 DEF Sending, TypeOK, Registered
  <2>6. \A r \in Sessions \ {t} : Due(r) => Due(r)'
    BY <2>1, <2>2 DEF Due
  <2> HIDE DEF t
  <2>7. \A r \in Registered \cap up : r \in Sessions
    BY DEF Registered
  <2> QED BY <2>1, <2>3, <2>4, <2>5, <2>6, <2>7 DEF ListsKnown, Saved
<1> QED
  BY <1>1, <1>4, <1>5, <1>6, <1>7, <1>8, <1>9, <1>10, <1>12, <1>13, <1>14, <1>15, <1>16,
     <1>17, <1>18, <1>19 DEF Next

LEMMA InitLists == Init => ListInv
  BY DEF Init, ListInv, Sending, ListsKnown, Registered, BatchStages

\* ... and each client that is still connected has been sent the doors its
\* role and the policy let it open (sendDoorList), unless somebody is banned.
THEOREM ListsAreCurrent == ASSUME OneAtATime, BansNobody PROVE Spec => []ListsFollowPolicy
<1>1. TypeOK /\ Alone /\ [Next]_vars => Alone'
  BY AloneStep
<1>2. TypeOK /\ Alone /\ ListInv /\ [Next]_vars => ListInv'
  BY ListsStep
<1>3. TypeOK /\ ListInv => ListsFollowPolicy
  <2> SUFFICES ASSUME TypeOK, ListInv, Quiet PROVE ListsFollowPolicy
    BY DEF ListsFollowPolicy
  <2>1. ~Saved /\ \A t : ~Due(t)
    BY PolicyAssumption DEF Quiet, Saved, Due, ListInv, Sending
  <2> QED BY <2>1 DEF ListInv, ListsKnown, ListsFollowPolicy
<1> QED
  BY <1>1, <1>2, <1>3, InitAlone, InitLists, TypeCorrect, PTL DEF Spec

-----------------------------------------------------------------------------
(* Batches take effect one by one *)

\* The policies between the operations applied so far, from the one in force
\* to the draft.
Edited(s) == \E r \in [0..(at[s] - 1) -> Policy] :
    /\ r[0] = Current
    /\ \A i \in 1..(at[s] - 1) :
          batch[s][i].on # None /\ r[i] = Edit(r[i - 1], batch[s][i])
    /\ r[at[s] - 1] = draft[s]

EditInv == \A s \in Sessions :
    /\ stage[s] = "loading" => at[s] = 1
    /\ stage[s] = "editing" => at[s] <= Len(batch[s]) + 1 /\ Edited(s)

LEMMA LeastNumber ==
    ASSUME NEW T, T \subseteq Nat, T # {}
    PROVE  \E m \in T : \A k \in T : m <= k
  <1> DEFINE R == OpToRel(<, Nat)
  <1>1. IsWellFoundedOn(R, Nat)
    BY NatLessThanWellFounded
  <1>2. \A x, y \in Nat : x < y => <<x, y>> \in R
    BY DEF OpToRel
  <1>3. PICK m \in T : \A y \in T : ~ (<<y, m>> \in R)
    <2> HIDE DEF R
    <2> QED BY <1>1, WFMin
  <1> HIDE DEF R
  <1>4. ASSUME NEW k \in T PROVE m <= k
    <2>1. m \in Nat /\ k \in Nat /\ ~(k < m)
      BY <1>2, <1>3
    <2> QED BY <2>1
  <1> QED BY <1>4

\* The policies a batch passes through end in what PolicyContract has it make.
LEMMA AfterIsLast ==
    ASSUME NEW b \in Seq(PolicyOp), NEW r \in [0..Len(b) -> Policy],
           \A i \in 1..Len(b) : r[i] = Edit(r[i - 1], b[i])
    PROVE  Contract!After(r[0], b) = r[Len(b)]
<1> DEFINE n == Len(b)
           Step(f) == [i \in 0..n |-> IF i = 0 THEN r[0] ELSE Edit(f[i - 1], b[i])]
           result == CHOOSE f : f = Step(f)
<1>0. n \in Nat
  OBVIOUS
<1>1. r = Step(r)
  <2>1. \A i \in 0..n : r[i] = IF i = 0 THEN r[0] ELSE Edit(r[i - 1], b[i])
    BY <1>0
  <2> QED BY <2>1
<1>2. result = Step(result)
  <2> HIDE DEF Step
  <2> QED BY <1>1
<1>3. Contract!After(r[0], b) = result[n]
  BY DEF Contract!After
<1>4. \A i \in 0..n : result[i] = IF i = 0 THEN r[0] ELSE Edit(result[i - 1], b[i])
  <2> HIDE DEF result
  <2> QED BY <1>2
<1> HIDE DEF result, Step, n
<1>5. SUFFICES ASSUME result[n] # r[n] PROVE FALSE
  BY <1>3 DEF n
<1> DEFINE wrong == {i \in 0..n : result[i] # r[i]}
<1>6. PICK m \in wrong : \A k \in wrong : m <= k
  <2>1. wrong \subseteq Nat /\ wrong # {}
    BY <1>0, <1>5
  <2> HIDE DEF wrong
  <2> QED BY <2>1, LeastNumber
<1>7. m \in 1..n /\ m - 1 \in 0..n
  BY <1>0, <1>4, <1>6
<1>8. result[m - 1] = r[m - 1]
  <2>1. m - 1 \notin wrong
    BY <1>6, <1>7
  <2> QED BY <1>7, <2>1
<1>9. r[m] = Edit(r[m - 1], b[m])
  BY <1>7 DEF n
<1> QED BY <1>4, <1>6, <1>7, <1>8, <1>9

\* A step that leaves what the batches are at alone.
LEMMA MoveEdited ==
    ASSUME EditInv, Current' = Current,
           \A s \in Sessions :
              /\ stage'[s] \in {"loading", "editing"} => stage'[s] = stage[s]
              /\ batch'[s] = batch[s] /\ at'[s] = at[s]
              /\ stage[s] = "editing" => draft'[s] = draft[s]
    PROVE  EditInv'
<1> HIDE DEF Current
<1> QED BY DEF EditInv, Edited

LEMMA EditStep ==
    ASSUME OneAtATime, TypeOK, Alone, EditInv, [Next]_vars
    PROVE  EditInv'
<1> USE PolicyAssumption
<1>0. (\A s \in Sessions : ~SavePolicy(s)) => Current' = Current
  BY CurrentStays
<1>d. stored' = stored => Current' = Current
  BY DEF Current
<1>1. ASSUME NEW s \in Sessions, NEW t \in Sessions,
             \/ ReadRole(s) \/ Register(s) \/ ReadFails(s) \/ RejectOp(s) \/ SaveFails(s)
             \/ CloseBanned(s) \/ RefreshRoles(s) \/ ComputeList(s, t) \/ WriteList(s)
             \/ ListsSent(s) \/ WriteFails(s)
      PROVE EditInv'
  <2>1. /\ \E q \in {"joining", "listing", "offline", "idle", "rereading"} :
              stage' = [stage EXCEPT ![s] = q]
        /\ UNCHANGED <<stored, batch, at, draft>>
    BY <1>1 DEF ReadRole, Register, ReadFails, RejectOp, SaveFails, CloseBanned, RefreshRoles,
       ComputeList, WriteList, ListsSent, WriteFails, Goto, batchVars
  <2>2. \A r \in Sessions : stage'[r] \in {"loading", "editing"} => stage'[r] = stage[r]
    BY <2>1 DEF TypeOK
  <2> QED BY <1>d, <2>1, <2>2, MoveEdited
<1>2. ASSUME NEW s \in Sessions, Admit(s) \/ Drop(s) PROVE EditInv'
  <2>1. /\ stage' = stage \/ stage' = [stage EXCEPT ![s] = "admitted"]
        /\ UNCHANGED <<stored, batch, at, draft>>
    BY <1>2 DEF Admit, Drop, batchVars
  <2>2. \A r \in Sessions : stage'[r] \in {"loading", "editing"} => stage'[r] = stage[r]
    BY <2>1 DEF TypeOK
  <2> QED BY <1>d, <2>1, <2>2, MoveEdited
<1>3. ASSUME NEW s \in Sessions, SaveLegacy(s) PROVE EditInv'
  <2>1. UNCHANGED <<stage, batch, at, draft>>
    BY <1>3 DEF SaveLegacy, batchVars
  <2>2. \A r \in Sessions : SavePolicy(r) => stage' # stage
    BY DEF SavePolicy, Goto, TypeOK
  <2> QED BY <1>0, <2>1, <2>2, MoveEdited
<1>4. ASSUME NEW s \in Sessions, SavePolicy(s) PROVE EditInv'
  <2>1. stage' = [stage EXCEPT ![s] = "closing"] /\ stage[s] \in BatchStages
    BY <1>4 DEF SavePolicy, Goto, BatchStages
  <2>2. \A r \in Sessions : stage'[r] \notin {"loading", "editing"}
    BY <2>1 DEF Alone, TypeOK
  <2> QED BY <2>2 DEF EditInv
<1>5. ASSUME NEW s \in Sessions, Submit(s) PROVE EditInv'
  <2>1. /\ stage' = [stage EXCEPT ![s] = "loading"] /\ stored' = stored
        /\ at' = [at EXCEPT ![s] = 1] /\ NoBatch
    BY <1>5 DEF Submit, Goto, OneAtATime
  <2>2. \A r \in Sessions \ {s} : stage'[r] \notin {"loading", "editing"}
    BY <2>1 DEF NoBatch, BatchStages, TypeOK
  <2>3. stage'[s] = "loading" /\ at'[s] = 1
    BY <2>1 DEF TypeOK
  <2> QED BY <2>2, <2>3 DEF EditInv
<1>6. ASSUME NEW s \in Sessions, LoadForBatch(s) PROVE EditInv'
  <2>1. PICK p : LoadStationPolicy(s, p) /\ draft' = [draft EXCEPT ![s] = p]
    BY <1>6 DEF LoadForBatch
  <2>2. /\ stage' = [stage EXCEPT ![s] = "editing"] /\ stage[s] = "loading"
        /\ UNCHANGED <<stored, batch, at>>
    BY <1>6 DEF LoadForBatch, Goto
  <2>3. p = Current /\ p \in Policy /\ Current' = Current
    BY <1>d, <2>1, <2>2, ReadCurrent, ReadType
  <2>4. \A r \in Sessions \ {s} : stage'[r] \notin {"loading", "editing"}
    BY <2>2 DEF Alone, BatchStages, TypeOK
  <2> HIDE DEF Current
  <2>5. stage'[s] = "editing" /\ draft'[s] = Current /\ at'[s] = 1
    BY <2>1, <2>2, <2>3 DEF EditInv, TypeOK
  <2>6. Len(batch'[s]) \in Nat
    BY <2>2 DEF TypeOK
  <2>7. Edited(s)'
    <3> DEFINE r == [i \in 0..0 |-> p]
    <3>1. r \in [0..(at'[s] - 1) -> Policy] /\ r[0] = Current' /\ r[at'[s] - 1] = draft'[s]
      BY <2>3, <2>5
    <3> HIDE DEF r
    <3>2. \A i \in 1..(at'[s] - 1) : FALSE
      BY <2>5
    <3> QED BY <3>1, <3>2 DEF Edited
  <2> QED BY <2>4, <2>5, <2>6, <2>7 DEF EditInv
<1>7. ASSUME NEW s \in Sessions, ApplyOp(s) PROVE EditInv'
  <2>1. /\ stage' = [stage EXCEPT ![s] = "editing"] /\ stage[s] = "editing"
        /\ at[s] <= Len(batch[s]) /\ NextOp(s).on # None
        /\ draft' = [draft EXCEPT ![s] = Edit(draft[s], NextOp(s))]
        /\ at' = [at EXCEPT ![s] = at[s] + 1]
        /\ UNCHANGED <<stored, batch>>
    BY <1>7 DEF ApplyOp, Goto
  <2>2. Current' = Current
    BY <1>d, <2>1
  <2>3. \A r \in Sessions \ {s} : stage'[r] \notin {"loading", "editing"}
    BY <2>1 DEF Alone, BatchStages, TypeOK
  <2> HIDE DEF Current
  <2>4. /\ stage'[s] = "editing" /\ draft'[s] = Edit(draft[s], batch[s][at[s]])
        /\ at'[s] = at[s] + 1 /\ at[s] \in Nat \ {0} /\ Len(batch[s]) \in Nat
        /\ batch'[s] = batch[s] /\ draft'[s] \in Policy
    BY <1>7, <2>1, TypeStep DEF TypeOK, NextOp
  <2>5. PICK r \in [0..(at[s] - 1) -> Policy] :
            /\ r[0] = Current
            /\ \A i \in 1..(at[s] - 1) :
                  batch[s][i].on # None /\ r[i] = Edit(r[i - 1], batch[s][i])
            /\ r[at[s] - 1] = draft[s]
    BY <2>1 DEF EditInv, Edited
  <2>6. Edited(s)'
    <3> DEFINE n == at[s]
               rr == [i \in 0..n |-> IF i = n THEN draft'[s] ELSE r[i]]
    <3>1. n \in Nat \ {0} /\ at'[s] - 1 = n
      BY <2>4
    <3>2. rr \in [0..n -> Policy]
      BY <2>4, <2>5, <3>1
    <3>3. rr[0] = Current /\ rr[n] = draft'[s] /\ \A i \in 0..(n - 1) : rr[i] = r[i]
      BY <2>5, <3>1
    <3> HIDE DEF rr
    <3>4. ASSUME NEW i \in 1..n PROVE batch[s][i].on # None /\ rr[i] = Edit(rr[i - 1], batch[s][i])
      <4>1. CASE i = n
        <5>1. n - 1 \in 0..(n - 1)
          BY <3>1
        <5> QED BY <2>1, <2>4, <2>5, <3>3, <4>1, <5>1 DEF NextOp
      <4>2. CASE i # n
        <5>1. i \in 1..(n - 1) /\ i \in 0..(n - 1) /\ i - 1 \in 0..(n - 1)
          BY <3>1, <4>2
        <5> QED BY <2>5, <3>3, <5>1
      <4> QED BY <4>1, <4>2
    <3> HIDE DEF n
    <3> QED BY <2>2, <2>4, <3>1, <3>2, <3>3, <3>4 DEF Edited
  <2>7. at'[s] <= Len(batch'[s]) + 1
    BY <2>1, <2>4
  <2> QED BY <2>3, <2>4, <2>6, <2>7 DEF EditInv
<1>8. ASSUME NEW s \in Sessions, Reread(s) PROVE EditInv'
  <2>1. /\ stage' = [stage EXCEPT ![s] = "refreshing"] /\ stage[s] = "rereading"
        /\ UNCHANGED <<stored, batch, at>>
        /\ \E p : draft' = [draft EXCEPT ![s] = p]
    BY <1>8 DEF Reread, Goto
  <2>2. \A r \in Sessions : /\ stage'[r] \in {"loading", "editing"} => stage'[r] = stage[r]
                            /\ stage[r] = "editing" => draft'[r] = draft[r]
    BY <2>1 DEF TypeOK
  <2> QED BY <1>d, <2>1, <2>2, MoveEdited
<1>9. CASE UNCHANGED vars
  BY <1>9, <1>d, MoveEdited DEF vars, batchVars
<1> QED
  BY <1>1, <1>2, <1>3, <1>4, <1>5, <1>6, <1>7, <1>8, <1>9 DEF Next

\* Where nothing overlaps and the store answers, StationPolicy implements
\* PolicyContract: each batch takes effect as a whole, once, on what the
\* batches before it have left, and a malformed one not at all (applyAdminOps).
THEOREM ImplementsContract == ASSUME OneAtATime PROVE Spec => KeepsEveryChange
<1>1. Init => Contract!Init
  BY PolicyAssumption, EmptyIsPolicy DEF Init, Contract!Init, Current
<1>2. Init => EditInv
  BY DEF Init, EditInv
<1>3. TypeOK /\ Alone /\ [Next]_vars => Alone'
  BY AloneStep
<1>4. TypeOK /\ Alone /\ EditInv /\ [Next]_vars => EditInv'
  BY EditStep
<1>5. TypeOK /\ Alone /\ EditInv /\ [Next]_vars => [Contract!Next]_Current
  <2> SUFFICES ASSUME TypeOK, Alone, EditInv, [Next]_vars, Current' # Current
               PROVE  Contract!Next
    OBVIOUS
  <2>1. PICK s \in Sessions : SavePolicy(s)
    BY CurrentStays
  <2>2. /\ stage[s] = "editing" /\ at[s] > Len(batch[s])
        /\ stored' = draft[s] \/ stored' = stored
    BY <2>1 DEF SavePolicy, Goto
  <2>3. batch[s] \in Requests[s] /\ batch[s] \in Seq(PolicyOp) /\ draft[s] \in Policy
    BY <2>2 DEF Alone, BatchStages, TypeOK
  <2>4. Current' = draft[s]
    BY <2>2, <2>3, PolicyAssumption DEF Current
  <2> HIDE DEF Current
  <2>5. at[s] - 1 = Len(batch[s])
    BY <2>2, <2>3 DEF EditInv, TypeOK
  <2>6. PICK r \in [0..Len(batch[s]) -> Policy] :
            /\ r[0] = Current
            /\ \A i \in 1..Len(batch[s]) :
                  batch[s][i].on # None /\ r[i] = Edit(r[i - 1], batch[s][i])
            /\ r[Len(batch[s])] = draft[s]
    BY <2>2, <2>5 DEF EditInv, Edited
  <2>7. Contract!After(Current, batch[s]) = draft[s]
    BY <2>3, <2>6, AfterIsLast
  <2>8. Contract!WellFormed(batch[s])
    BY <2>3, <2>6 DEF Contract!WellFormed
  <2>9. Contract!Apply(batch[s])
    BY <2>4, <2>7, <2>8 DEF Contract!Apply
  <2> QED BY <2>3, <2>9 DEF Contract!Next
<1> QED
  BY <1>1, <1>2, <1>3, <1>4, <1>5, InitAlone, TypeCorrect, PTL
     DEF Spec, KeepsEveryChange, Contract!Spec
=============================================================================
