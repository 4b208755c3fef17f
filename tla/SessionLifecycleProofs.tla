---------------------- MODULE SessionLifecycleProofs ----------------------
(***************************************************************************)
(* Proofs about SessionLifecycle, for any number of connections, passports *)
(* and doors, with or without a grace period, whatever administrators do.  *)
(***************************************************************************)
EXTENDS SessionLifecycle, TLAPS

Live == {"registered", "listed", "leavingPending", "opening", "entering",
         "routing", "closing"}

\* Nothing has been decided about what becomes of the stay of session s.
Unsettled(s) == leaveRuns[s] = 0 /\ successor[s] = None

\* The handler of a session, its flags in the registry and its timer agree.
Coherent(s) ==
    /\ s \in registry /\ ~dropped[s] <=> pc[s] \in Live
    /\ s \in registry /\ dropped[s] => pc[s] = "closed"
    /\ timer[s] # "off" => pc[s] = "closed"
    /\ timer[s] = "armed" => s \in registry
    /\ timer[s] = "leaving" => s \notin registry
    /\ pc[s] = "leavingPending" => pending[s] # None
    /\ pc[s] \in {"offline", "authenticated"} => pending[s] = None

\* A claimed session is out of the registry, out of reach of its timer, and
\* claimed by nobody else.
ClaimExclusive(s) == \A p \in Sessions : pending[s] = p =>
    /\ p \notin registry
    /\ pc[p] = "closed"
    /\ timer[p] # "leaving"
    /\ \A q \in Sessions : pending[q] = p => q = s

\* Whoever has a session in hand has it before anything was decided.
Custody(s) ==
    /\ pc[s] # "closed" \/ s \in registry \/ timer[s] = "leaving" => Unsettled(s)
    /\ \A p \in Sessions : Holds(s, p) => Unsettled(p)
    /\ leaveRuns[s] <= 1
    /\ successor[s] # None => leaveRuns[s] = 0

\* The stays that are open, and those being resumed.
StayOpen(s) ==
    /\ joined[s] \subseteq {activeDoor[s]}
    /\ pc[s] = "entering" => joined[s] \subseteq {want[s]}
    /\ Unsettled(s) /\ pc[s] # "entering" /\ activeDoor[s] # None
          => activeDoor[s] \in joined[s]
    /\ pc[s] \in {"opening", "entering"} => want[s] \in Doors
    /\ resume[s] => /\ pc[s] \in {"opening", "entering"}
                    /\ pending[s] \in Sessions
                    /\ want[s] = activeDoor[pending[s]]
                    /\ want[s] \in joined[pending[s]]

IInv ==
    /\ TypeOK
    /\ \A s \in Sessions : Coherent(s)
    /\ \A s \in Sessions : ClaimExclusive(s)
    /\ \A s \in Sessions : Custody(s)
    /\ \A s \in Sessions : StayOpen(s)

-----------------------------------------------------------------------------
\* Every variable keeps its type (the registry, timer and handler fields of
\* session.go and server.go).
LEMMA TypeStep ==
    ASSUME IInv, [Next]_vars
    PROVE  TypeOK'
<1> TypeOK
  BY DEF IInv
<1> DEFINE Bound(s) == /\ resume[s] => pending[s] \in Sessions
                       /\ pc[s] = "entering" => want[s] \in Doors
                       /\ pc[s] = "leavingPending" => pending[s] \in Sessions
<1>0. ASSUME NEW s \in Sessions PROVE Bound(s)
  BY DEF IInv, StayOpen, Coherent, TypeOK
<1> USE LifecycleAssumption DEF TypeOK, HandlerStates, TimerStates,
        handlerVars, registryVars, policyVars, historyVars
<1>1. ASSUME NEW s \in Sessions, HandlerStep(s) PROVE TypeOK'
  <2>1. CASE ClaimPendingReconnect(s)
    BY <2>1 DEF ClaimPendingReconnect, Advance, Claimable, MostRecent, Stopped
  <2>2. CASE Add(s)
    BY <2>2 DEF Add, Advance
  <2>3. CASE SendDoorList(s)
    BY <2>3 DEF SendDoorList, Advance
  <2>4. CASE NothingToResume(s)
    BY <2>4 DEF NothingToResume, Advance, OldDoor
  <2>5. CASE ResumeDoor(s)
    BY <2>5 DEF ResumeDoor, Advance, OldDoor
  <2>6. CASE GiveUpOldDoor(s)
    BY <2>6 DEF GiveUpOldDoor, Advance, OldDoor
  <2>7. CASE LeavePending(s)
    <3>1. pending[s] \in Sessions
      BY <1>0, <2>7 DEF LeavePending, Advance
    <3>2. /\ joined' \in [Sessions -> SUBSET Doors]
          /\ leaveRuns' \in [Sessions -> Nat]
      BY <2>7, <3>1 DEF LeavePending, CompleteSessionLeave, Without
    <3> QED BY <2>7, <3>2 DEF LeavePending, Advance, CompleteSessionLeave
  <2>8. CASE OpenDenied(s)
    BY <2>8 DEF OpenDenied, Advance
  <2>9. CASE LeaveOldDoor(s)
    BY <2>9 DEF LeaveOldDoor, Advance, Without
  <2>10. CASE EnterDoor(s)
    <3>1. /\ activeDoor' \in [Sessions -> Doors \cup {None}]
          /\ want' \in [Sessions -> Doors \cup {None}]
          /\ pc' \in [Sessions -> HandlerStates]
      BY <2>10 DEF EnterDoor, Advance
    <3>2. /\ joined' \in [Sessions -> SUBSET Doors]
          /\ resume' \in [Sessions -> BOOLEAN]
          /\ successor' \in [Sessions -> Sessions \cup {None}]
      <4>1. CASE resume[s]
        <5>1. joined[s] \cup joined[pending[s]] \in SUBSET Doors
          BY <1>0, <4>1
        <5>2. joined' \in [Sessions -> SUBSET Doors]
          BY <2>10, <4>1, <5>1 DEF EnterDoor
        <5>3. resume' = [resume EXCEPT ![s] = FALSE]
              /\ successor' = [successor EXCEPT ![pending[s]] = s]
          BY <2>10, <4>1 DEF EnterDoor
        <5> QED BY <5>2, <5>3
      <4>2. CASE ~resume[s]
        BY <1>0, <2>10, <4>2 DEF EnterDoor, Advance
      <4> QED BY <4>1, <4>2
    <3> QED BY <2>10, <3>1, <3>2 DEF EnterDoor
  <2>11. CASE ReadFails(s)
    BY <2>11 DEF ReadFails, Advance
  <2>12. CASE BeginGrace(s)
    BY <2>12 DEF BeginGrace, Advance
  <2>13. CASE BeginImmediateLeave(s)
    BY <2>13 DEF BeginImmediateLeave, Advance
  <2>14. CASE ImmediateLeave(s)
    BY <2>14 DEF ImmediateLeave, Advance, CompleteSessionLeave, Without
  <2> QED BY <1>1, <2>1, <2>2, <2>3, <2>4, <2>5, <2>6, <2>7, <2>8, <2>9, <2>10,
              <2>11, <2>12, <2>13, <2>14 DEF HandlerStep
<1>2. ASSUME NEW s \in Sessions, TimerStep(s) PROVE TypeOK'
  <2>1. CASE TimerFires(s)
    BY <2>1 DEF TimerFires
  <2>2. CASE RemovePending(s)
    BY <2>2 DEF RemovePending
  <2>3. CASE ExpiredLeave(s)
    BY <2>3 DEF ExpiredLeave, CompleteSessionLeave, Without
  <2> QED BY <1>2, <2>1, <2>2, <2>3 DEF TimerStep
<1>3. ASSUME NEW s \in Sessions, ClientStep(s) PROVE TypeOK'
  <2>1. CASE Authenticate(s)
    BY <2>1 DEF Authenticate, Advance
  <2>2. CASE ClientDrops(s)
    BY <2>2 DEF ClientDrops
  <2>3. ASSUME NEW d \in Doors, OpenDoor(s, d) PROVE TypeOK'
    BY <2>3 DEF OpenDoor, Advance
  <2> QED BY <1>3, <2>1, <2>2, <2>3 DEF ClientStep
<1>4. CASE AdminStep
  <2>1. ASSUME NEW k \in Keys, SaveBan(k) PROVE TypeOK'
    BY <2>1 DEF SaveBan
  <2>2. ASSUME NEW k \in Keys, ClosePublicKey(k) PROVE TypeOK'
    BY <2>2 DEF ClosePublicKey
  <2>3. ASSUME NEW k \in Keys, Unban(k) PROVE TypeOK'
    BY <2>3 DEF Unban
  <2>4. ASSUME NEW s \in Sessions, CloseTarget(s) PROVE TypeOK'
    BY <2>4 DEF CloseTarget
  <2>5. ASSUME NEW d \in Doors, NEW status \in {"open", "disabled", "missing"},
               SetDoorStatus(d, status)
        PROVE  TypeOK'
    BY <2>5 DEF SetDoorStatus
  <2> QED BY <1>4, <2>1, <2>2, <2>3, <2>4, <2>5 DEF AdminStep
<1>5. CASE UNCHANGED vars
  BY <1>5 DEF vars
<1> QED BY <1>1, <1>2, <1>3, <1>4, <1>5 DEF Next

\* A handler, its session's entry in the registry and its timer stay in
\* step, because each registry operation is one critical section.
LEMMA CoherentStep ==
    ASSUME IInv, [Next]_vars, NEW x \in Sessions
    PROVE  Coherent(x)'
<1> USE LifecycleAssumption DEF IInv, TypeOK, HandlerStates, TimerStates,
        handlerVars, registryVars, policyVars, historyVars, Coherent, Live
<1>1. ASSUME NEW s \in Sessions, HandlerStep(s) PROVE Coherent(x)'
  <2>1. CASE ClaimPendingReconnect(s)
    BY <2>1 DEF ClaimPendingReconnect, Advance, Claimable, MostRecent, Stopped
  <2>2. CASE Add(s)
    BY <2>2 DEF Add, Advance
  <2>3. CASE SendDoorList(s)
    BY <2>3 DEF SendDoorList, Advance
  <2>4. CASE NothingToResume(s)
    BY <2>4 DEF NothingToResume, Advance, OldDoor
  <2>5. CASE ResumeDoor(s)
    BY <2>5 DEF ResumeDoor, Advance, OldDoor
  <2>6. CASE GiveUpOldDoor(s)
    BY <2>6 DEF GiveUpOldDoor, Advance, OldDoor
  <2>7. CASE LeavePending(s)
    BY <2>7 DEF LeavePending, Advance, CompleteSessionLeave, Without
  <2>8. CASE OpenDenied(s)
    BY <2>8 DEF OpenDenied, Advance
  <2>9. CASE LeaveOldDoor(s)
    BY <2>9 DEF LeaveOldDoor, Advance, Without
  <2>10. CASE EnterDoor(s)
    BY <2>10 DEF EnterDoor, Advance
  <2>11. CASE ReadFails(s)
    BY <2>11 DEF ReadFails, Advance
  <2>12. CASE BeginGrace(s)
    BY <2>12 DEF BeginGrace, Advance
  <2>13. CASE BeginImmediateLeave(s)
    BY <2>13 DEF BeginImmediateLeave, Advance
  <2>14. CASE ImmediateLeave(s)
    BY <2>14 DEF ImmediateLeave, Advance, CompleteSessionLeave, Without
  <2> QED BY <1>1, <2>1, <2>2, <2>3, <2>4, <2>5, <2>6, <2>7, <2>8, <2>9, <2>10,
              <2>11, <2>12, <2>13, <2>14 DEF HandlerStep
<1>2. ASSUME NEW s \in Sessions, TimerStep(s) PROVE Coherent(x)'
  <2>1. CASE TimerFires(s)
    BY <2>1 DEF TimerFires
  <2>2. CASE RemovePending(s)
    BY <2>2 DEF RemovePending
  <2>3. CASE ExpiredLeave(s)
    BY <2>3 DEF ExpiredLeave, CompleteSessionLeave, Without
  <2> QED BY <1>2, <2>1, <2>2, <2>3 DEF TimerStep
<1>3. ASSUME NEW s \in Sessions, ClientStep(s) PROVE Coherent(x)'
  <2>1. CASE Authenticate(s)
    BY <2>1 DEF Authenticate, Advance
  <2>2. CASE ClientDrops(s)
    BY <2>2 DEF ClientDrops
  <2>3. ASSUME NEW d \in Doors, OpenDoor(s, d) PROVE Coherent(x)'
    BY <2>3 DEF OpenDoor, Advance
  <2> QED BY <1>3, <2>1, <2>2, <2>3 DEF ClientStep
<1>4. CASE AdminStep
  BY <1>4 DEF AdminStep, SaveBan, ClosePublicKey, Unban, CloseTarget, SetDoorStatus
<1>5. CASE UNCHANGED vars
  BY <1>5 DEF vars
<1> QED BY <1>1, <1>2, <1>3, <1>4, <1>5 DEF Next

\* claimPendingReconnect deletes what it claims, so no timer and no second
\* claim can reach it.
LEMMA ClaimExclusiveStep ==
    ASSUME IInv, [Next]_vars, NEW x \in Sessions
    PROVE  ClaimExclusive(x)'
<1> USE LifecycleAssumption DEF IInv, TypeOK, HandlerStates, TimerStates,
        handlerVars, registryVars, policyVars, historyVars, Coherent, ClaimExclusive, Live
<1>1. ASSUME NEW s \in Sessions, HandlerStep(s) PROVE ClaimExclusive(x)'
  <2>1. CASE ClaimPendingReconnect(s)
    BY <2>1 DEF ClaimPendingReconnect, Advance, Claimable, MostRecent, Stopped
  <2>2. CASE Add(s)
    BY <2>2 DEF Add, Advance
  <2>3. CASE SendDoorList(s)
    BY <2>3 DEF SendDoorList, Advance
  <2>4. CASE NothingToResume(s)
    BY <2>4 DEF NothingToResume, Advance, OldDoor
  <2>5. CASE ResumeDoor(s)
    BY <2>5 DEF ResumeDoor, Advance, OldDoor
  <2>6. CASE GiveUpOldDoor(s)
    BY <2>6 DEF GiveUpOldDoor, Advance, OldDoor
  <2>7. CASE LeavePending(s)
    BY <2>7 DEF LeavePending, Advance, CompleteSessionLeave, Without
  <2>8. CASE OpenDenied(s)
    BY <2>8 DEF OpenDenied, Advance
  <2>9. CASE LeaveOldDoor(s)
    BY <2>9 DEF LeaveOldDoor, Advance, Without
  <2>10. CASE EnterDoor(s)
    BY <2>10 DEF EnterDoor, Advance
  <2>11. CASE ReadFails(s)
    BY <2>11 DEF ReadFails, Advance
  <2>12. CASE BeginGrace(s)
    BY <2>12 DEF BeginGrace, Advance
  <2>13. CASE BeginImmediateLeave(s)
    BY <2>13 DEF BeginImmediateLeave, Advance
  <2>14. CASE ImmediateLeave(s)
    BY <2>14 DEF ImmediateLeave, Advance, CompleteSessionLeave, Without
  <2> QED BY <1>1, <2>1, <2>2, <2>3, <2>4, <2>5, <2>6, <2>7, <2>8, <2>9, <2>10,
              <2>11, <2>12, <2>13, <2>14 DEF HandlerStep
<1>2. ASSUME NEW s \in Sessions, TimerStep(s) PROVE ClaimExclusive(x)'
  <2>1. CASE TimerFires(s)
    BY <2>1 DEF TimerFires
  <2>2. CASE RemovePending(s)
    BY <2>2 DEF RemovePending
  <2>3. CASE ExpiredLeave(s)
    BY <2>3 DEF ExpiredLeave, CompleteSessionLeave, Without
  <2> QED BY <1>2, <2>1, <2>2, <2>3 DEF TimerStep
<1>3. ASSUME NEW s \in Sessions, ClientStep(s) PROVE ClaimExclusive(x)'
  <2>1. CASE Authenticate(s)
    BY <2>1 DEF Authenticate, Advance
  <2>2. CASE ClientDrops(s)
    BY <2>2 DEF ClientDrops
  <2>3. ASSUME NEW d \in Doors, OpenDoor(s, d) PROVE ClaimExclusive(x)'
    BY <2>3 DEF OpenDoor, Advance
  <2> QED BY <1>3, <2>1, <2>2, <2>3 DEF ClientStep
<1>4. CASE AdminStep
  BY <1>4 DEF AdminStep, SaveBan, ClosePublicKey, Unban, CloseTarget, SetDoorStatus
<1>5. CASE UNCHANGED vars
  BY <1>5 DEF vars
<1> QED BY <1>1, <1>2, <1>3, <1>4, <1>5 DEF Next

\* Whoever decides about a dropped session is alone in doing so.
LEMMA CustodyStep ==
    ASSUME IInv, [Next]_vars, NEW x \in Sessions
    PROVE  Custody(x)'
<1> USE LifecycleAssumption DEF IInv, TypeOK, HandlerStates, TimerStates,
        handlerVars, registryVars, policyVars, historyVars,
        Coherent, ClaimExclusive, Custody, StayOpen, Holds, Unsettled, Live
<1>1. ASSUME NEW s \in Sessions, HandlerStep(s) PROVE Custody(x)'
  <2>1. CASE ClaimPendingReconnect(s)
    BY <2>1 DEF ClaimPendingReconnect, Advance, Claimable, MostRecent, Stopped
  <2>2. CASE Add(s)
    BY <2>2 DEF Add, Advance
  <2>3. CASE SendDoorList(s)
    BY <2>3 DEF SendDoorList, Advance
  <2>4. CASE NothingToResume(s)
    BY <2>4 DEF NothingToResume, Advance, OldDoor
  <2>5. CASE ResumeDoor(s)
    BY <2>5 DEF ResumeDoor, Advance, OldDoor
  <2>6. CASE GiveUpOldDoor(s)
    BY <2>6 DEF GiveUpOldDoor, Advance, OldDoor
  <2>7. CASE LeavePending(s)
    BY <2>7 DEF LeavePending, Advance, CompleteSessionLeave, Without
  <2>8. CASE OpenDenied(s)
    BY <2>8 DEF OpenDenied, Advance
  <2>9. CASE LeaveOldDoor(s)
    BY <2>9 DEF LeaveOldDoor, Advance, Without
  <2>10. CASE EnterDoor(s)
    BY <2>10 DEF EnterDoor, Advance
  <2>11. CASE ReadFails(s)
    BY <2>11 DEF ReadFails, Advance
  <2>12. CASE BeginGrace(s)
    BY <2>12 DEF BeginGrace, Advance
  <2>13. CASE BeginImmediateLeave(s)
    BY <2>13 DEF BeginImmediateLeave, Advance
  <2>14. CASE ImmediateLeave(s)
    BY <2>14 DEF ImmediateLeave, Advance, CompleteSessionLeave, Without
  <2> QED BY <1>1, <2>1, <2>2, <2>3, <2>4, <2>5, <2>6, <2>7, <2>8, <2>9, <2>10,
              <2>11, <2>12, <2>13, <2>14 DEF HandlerStep
<1>2. ASSUME NEW s \in Sessions, TimerStep(s) PROVE Custody(x)'
  <2>1. CASE TimerFires(s)
    BY <2>1 DEF TimerFires
  <2>2. CASE RemovePending(s)
    BY <2>2 DEF RemovePending
  <2>3. CASE ExpiredLeave(s)
    BY <2>3 DEF ExpiredLeave, CompleteSessionLeave, Without
  <2> QED BY <1>2, <2>1, <2>2, <2>3 DEF TimerStep
<1>3. ASSUME NEW s \in Sessions, ClientStep(s) PROVE Custody(x)'
  <2>1. CASE Authenticate(s)
    BY <2>1 DEF Authenticate, Advance
  <2>2. CASE ClientDrops(s)
    BY <2>2 DEF ClientDrops
  <2>3. ASSUME NEW d \in Doors, OpenDoor(s, d) PROVE Custody(x)'
    BY <2>3 DEF OpenDoor, Advance
  <2> QED BY <1>3, <2>1, <2>2, <2>3 DEF ClientStep
<1>4. CASE AdminStep
  BY <1>4 DEF AdminStep, SaveBan, ClosePublicKey, Unban, CloseTarget, SetDoorStatus
<1>5. CASE UNCHANGED vars
  BY <1>5 DEF vars
<1> QED BY <1>1, <1>2, <1>3, <1>4, <1>5 DEF Next

\* The doors a session has joined and not left are the door it is in, also
\* across openDoorWithOptions and a resumed stay.
LEMMA StayOpenStep ==
    ASSUME IInv, [Next]_vars, NEW x \in Sessions
    PROVE  StayOpen(x)'
<1> USE LifecycleAssumption DEF IInv, TypeOK, HandlerStates, TimerStates,
        handlerVars, registryVars, policyVars, historyVars,
        Coherent, ClaimExclusive, Custody, Holds, Unsettled, StayOpen, Live
<1>1. ASSUME NEW s \in Sessions, HandlerStep(s) PROVE StayOpen(x)'
  <2>1. CASE ClaimPendingReconnect(s)
    BY <2>1 DEF ClaimPendingReconnect, Advance, Claimable, MostRecent, Stopped
  <2>2. CASE Add(s)
    BY <2>2 DEF Add, Advance
  <2>3. CASE SendDoorList(s)
    BY <2>3 DEF SendDoorList, Advance
  <2>4. CASE NothingToResume(s)
    BY <2>4 DEF NothingToResume, Advance, OldDoor
  <2>5. CASE ResumeDoor(s)
    BY <2>5 DEF ResumeDoor, Advance, OldDoor
  <2>6. CASE GiveUpOldDoor(s)
    BY <2>6 DEF GiveUpOldDoor, Advance, OldDoor
  <2>7. CASE LeavePending(s)
    BY <2>7 DEF LeavePending, Advance, CompleteSessionLeave, Without
  <2>8. CASE OpenDenied(s)
    BY <2>8 DEF OpenDenied, Advance
  <2>9. CASE LeaveOldDoor(s)
    BY <2>9 DEF LeaveOldDoor, Advance, Without
  <2>10. CASE EnterDoor(s)
    <3>1. CASE resume[s]
      <4> DEFINE p == pending[s]
      <4>1. /\ p \in Sessions /\ p # s /\ pc[p] = "closed" /\ want[s] = activeDoor[p]
            /\ pending[x] = p => x = s
            /\ pending[x] = x => x # s
        BY <2>10, <3>1 DEF EnterDoor, Advance
      <4>2. /\ pc' = [pc EXCEPT ![s] = "routing"]
            /\ activeDoor' = [activeDoor EXCEPT ![s] = want[s]]
            /\ want' = [want EXCEPT ![s] = None]
            /\ resume' = [resume EXCEPT ![s] = FALSE]
            /\ successor' = [successor EXCEPT ![p] = s]
            /\ joined' = [joined EXCEPT ![s] = @ \cup joined[p], ![p] = {}]
            /\ UNCHANGED <<pending, leaveRuns>>
        BY <2>10, <3>1 DEF EnterDoor, Advance
      <4> HIDE DEF p
      <4>3. CASE x = s
        <5>1. /\ joined'[s] = joined[s] \cup joined[p]
              /\ activeDoor'[s] = want[s]
              /\ pc'[s] = "routing"
              /\ ~resume'[s]
          BY <4>1, <4>2
        <5>2. /\ want[s] \in joined[p]
              /\ joined[s] \subseteq {want[s]} /\ joined[p] \subseteq {want[s]}
          BY <2>10, <3>1, <4>1 DEF EnterDoor, Advance, p
        <5> QED BY <4>3, <5>1, <5>2
      <4>4. CASE x = p
        BY <2>10, <3>1, <4>1, <4>2, <4>4
      <4>5. CASE x # s /\ x # p
        BY <2>10, <3>1, <4>1, <4>2, <4>5
      <4> QED BY <4>3, <4>4, <4>5
    <3>2. CASE ~resume[s]
      BY <2>10, <3>2 DEF EnterDoor, Advance
    <3> QED BY <3>1, <3>2
  <2>11. CASE ReadFails(s)
    BY <2>11 DEF ReadFails, Advance
  <2>12. CASE BeginGrace(s)
    BY <2>12 DEF BeginGrace, Advance
  <2>13. CASE BeginImmediateLeave(s)
    BY <2>13 DEF BeginImmediateLeave, Advance
  <2>14. CASE ImmediateLeave(s)
    BY <2>14 DEF ImmediateLeave, Advance, CompleteSessionLeave, Without
  <2> QED BY <1>1, <2>1, <2>2, <2>3, <2>4, <2>5, <2>6, <2>7, <2>8, <2>9, <2>10,
              <2>11, <2>12, <2>13, <2>14 DEF HandlerStep
<1>2. ASSUME NEW s \in Sessions, TimerStep(s) PROVE StayOpen(x)'
  <2>1. CASE TimerFires(s)
    BY <2>1 DEF TimerFires
  <2>2. CASE RemovePending(s)
    BY <2>2 DEF RemovePending
  <2>3. CASE ExpiredLeave(s)
    BY <2>3 DEF ExpiredLeave, CompleteSessionLeave, Without
  <2> QED BY <1>2, <2>1, <2>2, <2>3 DEF TimerStep
<1>3. ASSUME NEW s \in Sessions, ClientStep(s) PROVE StayOpen(x)'
  <2>1. CASE Authenticate(s)
    BY <2>1 DEF Authenticate, Advance
  <2>2. CASE ClientDrops(s)
    BY <2>2 DEF ClientDrops
  <2>3. ASSUME NEW d \in Doors, OpenDoor(s, d) PROVE StayOpen(x)'
    BY <2>3 DEF OpenDoor, Advance
  <2> QED BY <1>3, <2>1, <2>2, <2>3 DEF ClientStep
<1>4. CASE AdminStep
  BY <1>4 DEF AdminStep, SaveBan, ClosePublicKey, Unban, CloseTarget, SetDoorStatus
<1>5. CASE UNCHANGED vars
  BY <1>5 DEF vars
<1> QED BY <1>1, <1>2, <1>3, <1>4, <1>5 DEF Next

\* The inductive invariant holds throughout.
THEOREM Inductive == Spec => []IInv
<1>1. Init => IInv
  BY LifecycleAssumption DEF Init, IInv, TypeOK, HandlerStates, TimerStates, Coherent,
     ClaimExclusive, Custody, Holds, Unsettled, StayOpen, Live
<1>2. IInv /\ [Next]_vars => IInv'
  BY TypeStep, CoherentStep, ClaimExclusiveStep, CustodyStep, StayOpenStep DEF IInv
<1> QED BY <1>1, <1>2, PTL DEF Spec

-----------------------------------------------------------------------------
\* All of the node's session state keeps its type, in every step of handleWS,
\* the grace timers and the administrators.
THEOREM TypeCorrect == Spec => []TypeOK
<1>1. IInv => TypeOK
  BY DEF IInv
<1> QED BY <1>1, Inductive, PTL

\* However the grace timer, a reconnecting handler and the session's own
\* handler interleave, the on_leave of a session runs once at most, and not
\* at all when a later session goes on with the stay.
THEOREM LeaveRunsOnce == Spec => []SettledOnce
<1>1. IInv => SettledOnce
  BY DEF IInv, TypeOK, Custody, SettledOnce
<1> QED BY <1>1, Inductive, PTL

\* on_join is suppressed on a reconnect only for a stay that no on_leave has
\* ended since its session dropped.
THEOREM ResumeIsSound == Spec => []ResumedStayIsOpen
<1>1. IInv => ResumedStayIsOpen
  BY DEF IInv, StayOpen, ResumedStayIsOpen
<1> QED BY <1>1, Inductive, PTL

\* Presence and broadcast targets name the only door a session has joined.
THEOREM OneDoorAtATime == Spec => []InsideActiveDoorOnly
<1>1. IInv => InsideActiveDoorOnly
  BY DEF IInv, StayOpen, InsideActiveDoorOnly
<1> QED BY <1>1, Inductive, PTL

\* Only beginDisconnect marks a session as dropped, and it keeps no session
\* in the registry that closePublicKey marked before it.
THEOREM ForcedLeavesAtOnce == Spec => ForcedSkipsGrace
<1> USE DEF IInv, TypeOK, Advance, handlerVars, registryVars, policyVars, historyVars
<1>1. ASSUME IInv, [Next]_vars, NEW x \in Sessions, forced[x], ~dropped[x], dropped'[x]
      PROVE  x \notin registry'
  <2>1. ASSUME NEW s \in Sessions, HandlerStep(s) PROVE x \notin registry'
    <3>1. CASE BeginGrace(s)
      BY <1>1, <3>1 DEF BeginGrace
    <3>2. CASE BeginImmediateLeave(s)
      BY <1>1, <3>2 DEF BeginImmediateLeave
    <3>3. CASE Add(s)
      BY <1>1, <3>3 DEF Add
    <3>4. CASE UNCHANGED dropped
      BY <1>1, <3>4
    <3> QED BY <2>1, <3>1, <3>2, <3>3, <3>4 DEF HandlerStep, ClaimPendingReconnect,
            SendDoorList, NothingToResume, ResumeDoor, GiveUpOldDoor, LeavePending,
            OpenDenied, LeaveOldDoor, EnterDoor, ReadFails, ImmediateLeave
  <2>2. CASE UNCHANGED dropped
    BY <1>1, <2>2
  <2> QED BY <1>1, <2>1, <2>2 DEF Next, TimerStep, TimerFires, RemovePending,
          ExpiredLeave, ClientStep, Authenticate, ClientDrops, OpenDoor, AdminStep,
          SaveBan, ClosePublicKey, Unban, CloseTarget, SetDoorStatus, vars
<1>2. IInv /\ [Next]_vars => [\A s \in Sessions :
          forced[s] /\ ~dropped[s] /\ dropped'[s] => s \notin registry']_vars
  BY <1>1
<1> QED BY <1>2, Inductive, PTL DEF Spec, ForcedSkipsGrace

-----------------------------------------------------------------------------
\* Connections hold until the first door is open, and administrators keep their
\* hands off doors and passports: the circumstances in which no stay is lost.
\* Without them handleWS may return, or find the old door closed, between its
\* claim and its first open, and nobody is left who knows the claimed session.
Calm == ~EarlyDrops /\ Hostile = {} /\ Bannable = {}

\* What the circumstances come to: nobody interferes, no connection fails early,
\* and a dropped session that is still registered has its timer.
LeftAlone ==
    /\ banned = {}
    /\ \A d \in Doors : doorStatus[d] = "open"
    /\ \A k \in Keys : banPhase[k] = "idle"
    /\ toClose = {}

KeptUp(s) ==
    /\ pc[s] \in {"authenticated", "claimed", "registered", "listed", "opening", "entering"}
          => connUp[s]
    /\ pc[s] # "leavingPending"
    /\ s \in registry /\ dropped[s] => timer[s] \in {"armed", "fired"}

InCustody(p) == joined[p] # {} =>
    \/ p \in registry /\ (dropped[p] => timer[p] \in {"armed", "fired"})
    \/ pc[p] = "leaving" \/ timer[p] = "leaving"
    \/ \E s \in Sessions : Holds(s, p)

CInv ==
    /\ IInv
    /\ LeftAlone
    /\ \A s \in Sessions : KeptUp(s)
    /\ \A s \in Sessions : InCustody(s)

\* Every open door can be entered.
LEMMA AlwaysOpen ==
    ASSUME Calm, CInv, NEW s \in Sessions, NEW d \in Doors
    PROVE  CanAccess(s, d)
BY LifecycleAssumption DEF CInv, LeftAlone, CanAccess

LEMMA LeftAloneStep ==
    ASSUME Calm, CInv, [Next]_vars
    PROVE  LeftAlone'
<1> USE DEF CInv, LeftAlone, Calm, policyVars
<1>1. UNCHANGED policyVars => LeftAlone'
  OBVIOUS
<1>2. CASE AdminStep
  BY <1>2 DEF AdminStep, SaveBan, ClosePublicKey, Unban, CloseTarget, SetDoorStatus
<1>3. ASSUME NEW s \in Sessions, HandlerStep(s) PROVE LeftAlone'
  BY <1>3, <1>1 DEF HandlerStep, ClaimPendingReconnect, Add,
            SendDoorList, NothingToResume, ResumeDoor, GiveUpOldDoor, LeavePending,
            OpenDenied, LeaveOldDoor, EnterDoor, ReadFails, BeginGrace,
            BeginImmediateLeave, ImmediateLeave
<1>4. ASSUME NEW s \in Sessions, TimerStep(s) PROVE LeftAlone'
  BY <1>4 DEF TimerStep, TimerFires, RemovePending, ExpiredLeave
<1>5. ASSUME NEW s \in Sessions, ClientStep(s) PROVE LeftAlone'
  BY <1>5 DEF ClientStep, Authenticate, ClientDrops, OpenDoor
<1>6. CASE UNCHANGED vars
  BY <1>6 DEF vars
<1> QED BY <1>2, <1>3, <1>4, <1>5, <1>6 DEF Next

LEMMA KeptUpStep ==
    ASSUME Calm, CInv, [Next]_vars, NEW x \in Sessions
    PROVE  KeptUp(x)'
<1> USE LifecycleAssumption DEF CInv, IInv, TypeOK, HandlerStates, TimerStates, handlerVars,
        registryVars, policyVars, historyVars, Coherent, ClaimExclusive, KeptUp, Live, Advance
<1>1. ASSUME NEW s \in Sessions, HandlerStep(s) PROVE KeptUp(x)'
  <2>1. CASE ClaimPendingReconnect(s)
    BY <2>1 DEF ClaimPendingReconnect, Claimable, MostRecent, Stopped
  <2>2. CASE Add(s)
    BY <2>2 DEF Add
  <2>3. CASE SendDoorList(s)
    BY <2>3 DEF SendDoorList
  <2>4. CASE NothingToResume(s)
    BY <2>4 DEF NothingToResume
  <2>5. CASE ResumeDoor(s)
    BY <2>5 DEF ResumeDoor
  <2>6. CASE GiveUpOldDoor(s)
    BY <2>6, AlwaysOpen DEF GiveUpOldDoor, OldDoor
  <2>7. CASE LeavePending(s)
    BY <2>7 DEF LeavePending
  <2>8. CASE OpenDenied(s)
    BY <2>8 DEF OpenDenied
  <2>9. CASE LeaveOldDoor(s)
    BY <2>9 DEF LeaveOldDoor
  <2>10. CASE EnterDoor(s)
    <3>1. /\ pc' = [pc EXCEPT ![s] = "routing"]
          /\ UNCHANGED <<connUp, registry, dropped, timer>>
          /\ resume' = [resume EXCEPT ![s] = FALSE] \/ UNCHANGED resume
      BY <2>10 DEF EnterDoor
    <3> QED BY <3>1
  <2>11. CASE ReadFails(s)
    BY <2>11 DEF ReadFails
  <2>12. CASE BeginGrace(s)
    BY <2>12 DEF BeginGrace
  <2>13. CASE BeginImmediateLeave(s)
    BY <2>13 DEF BeginImmediateLeave
  <2>14. CASE ImmediateLeave(s)
    BY <2>14 DEF ImmediateLeave
  <2> QED BY <1>1, <2>1, <2>2, <2>3, <2>4, <2>5, <2>6, <2>7, <2>8, <2>9, <2>10,
              <2>11, <2>12, <2>13, <2>14 DEF HandlerStep
<1>2. ASSUME NEW s \in Sessions, TimerStep(s) PROVE KeptUp(x)'
  BY <1>2 DEF TimerStep, TimerFires, RemovePending, ExpiredLeave
<1>3. ASSUME NEW s \in Sessions, ClientStep(s) PROVE KeptUp(x)'
  BY <1>3 DEF ClientStep, Authenticate, ClientDrops, OpenDoor, Calm, StayOpen
<1>4. CASE AdminStep
  BY <1>4 DEF AdminStep, SaveBan, ClosePublicKey, Unban, CloseTarget, SetDoorStatus, Calm,
     LeftAlone
<1>5. CASE UNCHANGED vars
  BY <1>5 DEF vars
<1> QED BY <1>1, <1>2, <1>3, <1>4, <1>5 DEF Next

LEMMA InCustodyStep ==
    ASSUME Calm, CInv, [Next]_vars, NEW p \in Sessions
    PROVE  InCustody(p)'
<1> USE LifecycleAssumption DEF CInv, IInv, TypeOK, HandlerStates, TimerStates, handlerVars,
        registryVars, policyVars, historyVars, Coherent, ClaimExclusive, KeptUp, InCustody,
        Holds, Live, Advance
<1>1. ASSUME NEW s \in Sessions, HandlerStep(s) PROVE InCustody(p)'
  <2>1. CASE ClaimPendingReconnect(s)
    BY <2>1 DEF ClaimPendingReconnect, Claimable, MostRecent, Stopped
  <2>2. CASE Add(s)
    BY <2>2 DEF Add
  <2>3. CASE SendDoorList(s)
    BY <2>3 DEF SendDoorList
  <2>4. CASE NothingToResume(s)
    <3>1. pending[s] = p => joined[p] = {}
      BY <2>4 DEF NothingToResume, OldDoor, StayOpen
    <3> QED BY <2>4, <3>1 DEF NothingToResume
  <2>5. CASE ResumeDoor(s)
    BY <2>5 DEF ResumeDoor
  <2>6. CASE GiveUpOldDoor(s)
    BY <2>6, AlwaysOpen DEF GiveUpOldDoor, OldDoor
  <2>7. CASE LeavePending(s)
    BY <2>7 DEF LeavePending
  <2>8. CASE OpenDenied(s)
    BY <2>8, AlwaysOpen DEF OpenDenied, StayOpen
  <2>9. CASE LeaveOldDoor(s)
    BY <2>9 DEF LeaveOldDoor, Without
  <2>10. CASE EnterDoor(s)
    <3>1. s \in registry /\ ~dropped[s] /\ p = s => InCustody(p)'
      BY <2>10 DEF EnterDoor
    <3>2. /\ pc' = [pc EXCEPT ![s] = "routing"]
          /\ UNCHANGED <<registry, dropped, timer, pending>>
      BY <2>10 DEF EnterDoor
    <3>3. p # s => joined'[p] \subseteq joined[p]
      BY <2>10 DEF EnterDoor, StayOpen
    <3>4. resume[s] => pending[s] \in Sessions \ {s} /\ joined'[pending[s]] = {}
      BY <2>10 DEF EnterDoor, StayOpen
    <3>5. \A q \in Sessions : q # s => resume'[q] = resume[q]
      BY <2>10 DEF EnterDoor
    <3> QED BY <2>10, <3>1, <3>2, <3>3, <3>4, <3>5 DEF EnterDoor
  <2>11. CASE ReadFails(s)
    BY <2>11 DEF ReadFails
  <2>12. CASE BeginGrace(s)
    BY <2>12 DEF BeginGrace
  <2>13. CASE BeginImmediateLeave(s)
    BY <2>13 DEF BeginImmediateLeave
  <2>14. CASE ImmediateLeave(s)
    BY <2>14 DEF ImmediateLeave, CompleteSessionLeave, Without, StayOpen
  <2> QED BY <1>1, <2>1, <2>2, <2>3, <2>4, <2>5, <2>6, <2>7, <2>8, <2>9, <2>10,
              <2>11, <2>12, <2>13, <2>14 DEF HandlerStep
<1>2. ASSUME NEW s \in Sessions, TimerStep(s) PROVE InCustody(p)'
  BY <1>2 DEF TimerStep, TimerFires, RemovePending, ExpiredLeave, CompleteSessionLeave,
     Without, StayOpen
<1>3. ASSUME NEW s \in Sessions, ClientStep(s) PROVE InCustody(p)'
  BY <1>3 DEF ClientStep, Authenticate, ClientDrops, OpenDoor, StayOpen
<1>4. CASE AdminStep
  BY <1>4 DEF AdminStep, SaveBan, ClosePublicKey, Unban, CloseTarget, SetDoorStatus
<1>5. CASE UNCHANGED vars
  BY <1>5 DEF vars
<1> QED BY <1>1, <1>2, <1>3, <1>4, <1>5 DEF Next

\* Every stay somebody began is going to be left or resumed by somebody, as long
\* as nothing happens between a claim and the first open: the grace timer, the
\* claim and the handler hand a dropped session on without letting go of it.
THEOREM NoStayIsLost ==
    ASSUME Calm
    PROVE  Spec => []StayHasCustodian
<1>1. Init => CInv
  <2> SUFFICES ASSUME Init PROVE CInv
    OBVIOUS
  <2>1. IInv
    BY LifecycleAssumption DEF Init, IInv, TypeOK, HandlerStates, TimerStates, Coherent,
       ClaimExclusive, Custody, Holds, Unsettled, StayOpen, Live
  <2> QED BY <2>1 DEF CInv, Init, LeftAlone, KeptUp, InCustody
<1>2. CInv /\ [Next]_vars => CInv'
  <2> SUFFICES ASSUME CInv, [Next]_vars PROVE CInv'
    OBVIOUS
  <2>1. IInv'
    BY TypeStep, CoherentStep, ClaimExclusiveStep, CustodyStep, StayOpenStep DEF CInv, IInv
  <2> QED BY <2>1, LeftAloneStep, KeptUpStep, InCustodyStep DEF CInv
<1>3. CInv => StayHasCustodian
  BY DEF CInv, InCustody, StayHasCustodian
<1> QED BY <1>1, <1>2, <1>3, PTL DEF Spec

-----------------------------------------------------------------------------
\* SessionLifecycle implements SessionRecovery: every step of the handlers, the
\* grace timers, the clients and the administrators moves at most one session on
\* in its life, in a way the recovery contract allows.

Ending(p) == timer[p] = "leaving" \/ pc[p] = "leaving"
Claimed(p) == \E s \in Sessions : pending[s] = p
GivenUp(p) == \E s \in Sessions : pending[s] = p /\ pc[s] = "leavingPending"

\* Phase, as the separate facts the steps below need.
PhaseFacts(p) ==
    /\ successor[p] # None => Phase(p) = "resumed"
    /\ successor[p] = None /\ leaveRuns[p] > 0 => Phase(p) = "left"
    /\ successor[p] = None /\ ~(leaveRuns[p] > 0) =>
        /\ Ending(p) \/ GivenUp(p) => Phase(p) = "ending"
        /\ ~Ending(p) /\ ~GivenUp(p) =>
            /\ Claimed(p) => Phase(p) = "claimed"
            /\ ~Claimed(p) =>
                /\ p \in registry /\ dropped[p] => Phase(p) = "grace"
                /\ p \in registry /\ ~dropped[p] => Phase(p) = "present"
                /\ p \notin registry => Phase(p) = "unknown"

\* Phase says what PhaseFacts lists.
LEMMA PhaseIs ==
    ASSUME NEW p \in Sessions
    PROVE  PhaseFacts(p) /\ PhaseFacts(p)'
<1>1. /\ ClaimedBy(p) # {} <=> Claimed(p)
      /\ (\E s \in ClaimedBy(p) : pc[s] = "leavingPending") <=> GivenUp(p)
  BY DEF ClaimedBy, Claimed, GivenUp
<1>2. PhaseFacts(p)
  BY <1>1 DEF PhaseFacts, Phase, Ending
<1>3. /\ ClaimedBy(p)' # {} <=> Claimed(p)'
      /\ (\E s \in ClaimedBy(p)' : pc'[s] = "leavingPending") <=> GivenUp(p)'
  BY DEF ClaimedBy, Claimed, GivenUp
<1>4. PhaseFacts(p)'
  BY <1>3 DEF PhaseFacts, Phase, Ending
<1> QED BY <1>2, <1>4

\* What Phase reads of the state stays the same.
Undisturbed(p) ==
    /\ successor'[p] = successor[p]
    /\ leaveRuns'[p] = leaveRuns[p]
    /\ Ending(p)' <=> Ending(p)
    /\ Claimed(p)' <=> Claimed(p)
    /\ GivenUp(p)' <=> GivenUp(p)
    /\ p \in registry' <=> p \in registry
    /\ p \in registry => (dropped'[p] <=> dropped[p])

\* A session nothing was done to stays in its phase.
LEMMA PhaseStays ==
    ASSUME NEW p \in Sessions, Undisturbed(p)
    PROVE  Phase(p)' = Phase(p)
BY PhaseIs DEF PhaseFacts, Undisturbed

\* If only s is disturbed, the step is a move of s from one phase to another.
LEMMA OneMove ==
    ASSUME NEW s \in Sessions, NEW from, NEW to,
           Phase(s) = from, Phase(s)' = to,
           \A q \in Sessions \ {s} : Undisturbed(q)
    PROVE  Recovery!Move(s, from, to)
<1>1. \A q \in Sessions \ {s} : Phase(q)' = Phase(q)
  BY PhaseStays
<1>2. [p \in Sessions |-> Phase(p)]'
         = [[p \in Sessions |-> Phase(p)] EXCEPT ![s] = to]
  BY <1>1
<1> QED BY <1>2 DEF Recovery!Move

\* The heir of a session is the one that claimed it.
LEMMA HeirIs ==
    ASSUME NEW p \in Sessions, NEW s \in Sessions
    PROVE  /\ (\A q \in Sessions : pending[q] = p <=> q = s) => Heir(p) = s
           /\ (\A q \in Sessions : pending'[q] = p <=> q = s) => Heir(p)' = s
<1>1. (\A q \in Sessions : pending[q] = p <=> q = s) => ClaimedBy(p) = {s}
  BY DEF ClaimedBy
<1>2. (\A q \in Sessions : pending'[q] = p <=> q = s) => ClaimedBy(p)' = {s}
  BY DEF ClaimedBy
<1> QED BY <1>1, <1>2 DEF Heir

LEMMA HeirStays ==
    ASSUME NEW p \in Sessions, \A q \in Sessions : pending'[q] = p <=> pending[q] = p
    PROVE  Heir(p)' = Heir(p)
<1>1. ClaimedBy(p)' = ClaimedBy(p)
  BY DEF ClaimedBy
<1> QED BY <1>1 DEF Heir

LEMMA HeirsStay ==
    ASSUME UNCHANGED pending
    PROVE  [p \in Sessions |-> Heir(p)]' = [p \in Sessions |-> Heir(p)]
BY HeirStays

-----------------------------------------------------------------------------
\* Nothing the recovery contract speaks of changes.
Stutters == UNCHANGED Recovery!vars

LEMMA AllStay ==
    ASSUME UNCHANGED pending, \A q \in Sessions : Undisturbed(q)
    PROVE  Stutters
BY HeirsStay, PhaseStays DEF Stutters, Recovery!vars

\* Authentication, door lists, door opens and what administrators do leave
\* every session in its phase.
LEMMA QuietSteps ==
    ASSUME IInv, NEW s \in Sessions,
           \/ SendDoorList(s) \/ NothingToResume(s) \/ ResumeDoor(s)
           \/ OpenDenied(s) \/ LeaveOldDoor(s) \/ ReadFails(s)
           \/ TimerFires(s) \/ ClientStep(s)
           \/ pc[s] = "entering" /\ ~resume[s] /\ EnterDoor(s)
           \/ pc[s] = "authenticated" /\ Claimable(s) = {} /\ ClaimPendingReconnect(s)
           \/ ~(s \in registry /\ dropped[s]) /\ RemovePending(s)
    PROVE  Stutters
<1> USE DEF IInv, TypeOK, handlerVars, registryVars, policyVars, historyVars,
        Undisturbed, Ending, Claimed, GivenUp, Advance
<1>1. CASE SendDoorList(s)
  BY <1>1, AllStay DEF SendDoorList
<1>2. CASE NothingToResume(s)
  BY <1>2, AllStay DEF NothingToResume
<1>3. CASE ResumeDoor(s)
  BY <1>3, AllStay DEF ResumeDoor
<1>4. CASE OpenDenied(s)
  BY <1>4, AllStay DEF OpenDenied
<1>5. CASE LeaveOldDoor(s)
  BY <1>5, AllStay DEF LeaveOldDoor
<1>6. CASE ReadFails(s)
  BY <1>6, AllStay DEF ReadFails
<1>7. CASE TimerFires(s)
  BY <1>7, AllStay DEF TimerFires
<1>8. CASE ClientStep(s)
  BY <1>8, AllStay DEF ClientStep, Authenticate, ClientDrops, OpenDoor
<1>9. CASE ~resume[s] /\ EnterDoor(s)
  BY <1>9, AllStay DEF EnterDoor
<1>10. CASE Claimable(s) = {} /\ ClaimPendingReconnect(s)
  BY <1>10, AllStay DEF ClaimPendingReconnect, MostRecent
<1>11. CASE ~(s \in registry /\ dropped[s]) /\ RemovePending(s)
  BY <1>11, AllStay DEF RemovePending
<1> QED BY <1>1, <1>2, <1>3, <1>4, <1>5, <1>6, <1>7, <1>8, <1>9, <1>10, <1>11

LEMMA QuietAdmins ==
    ASSUME IInv, AdminStep
    PROVE  Stutters
BY AllStay DEF IInv, TypeOK, AdminStep, SaveBan, ClosePublicKey, Unban, CloseTarget,
   SetDoorStatus, handlerVars, registryVars, policyVars, historyVars, Undisturbed,
   Ending, Claimed, GivenUp

-----------------------------------------------------------------------------
\* sessions.add: nobody can have claimed a session that others do not see.
LEMMA Arrives ==
    ASSUME IInv, NEW s \in Sessions, Add(s)
    PROVE  Recovery!Arrive(s)
<1> USE DEF IInv, TypeOK, Add, Advance, handlerVars, policyVars, historyVars, Coherent,
        ClaimExclusive, Custody, Unsettled, Live, Ending, Claimed, GivenUp
<1>1. \A q \in Sessions \ {s} : Undisturbed(q)
  BY DEF Undisturbed
<1>2. Phase(s) = "unknown"
  BY PhaseIs DEF PhaseFacts
<1>3. Phase(s)' = "present"
  BY PhaseIs DEF PhaseFacts
<1> QED BY <1>1, <1>2, <1>3, OneMove, HeirsStay DEF Recovery!Arrive

\* beginDisconnect with a grace period.
LEMMA Drops ==
    ASSUME IInv, NEW s \in Sessions, BeginGrace(s)
    PROVE  Recovery!Drop(s)
<1> USE DEF IInv, TypeOK, BeginGrace, Advance, handlerVars, policyVars, historyVars,
        Coherent, ClaimExclusive, Custody, Unsettled, Live, Ending, Claimed, GivenUp
<1>1. \A q \in Sessions \ {s} : Undisturbed(q)
  BY DEF Undisturbed
<1>2. Phase(s) = "present"
  BY PhaseIs DEF PhaseFacts
<1>3. Phase(s)' = "grace"
  BY PhaseIs DEF PhaseFacts
<1> QED BY <1>1, <1>2, <1>3, OneMove, HeirsStay DEF Recovery!Drop

\* beginDisconnect without one.
LEMMA IsEvicted ==
    ASSUME IInv, NEW s \in Sessions, BeginImmediateLeave(s)
    PROVE  Recovery!Evict(s)
<1> USE DEF IInv, TypeOK, BeginImmediateLeave, Advance, handlerVars, policyVars,
        historyVars, Coherent, ClaimExclusive, Custody, Unsettled, Live, Ending,
        Claimed, GivenUp
<1>1. \A q \in Sessions \ {s} : Undisturbed(q)
  BY DEF Undisturbed
<1>2. Phase(s) = "present"
  BY PhaseIs DEF PhaseFacts
<1>3. Phase(s)' = "ending"
  BY PhaseIs DEF PhaseFacts
<1> QED BY <1>1, <1>2, <1>3, OneMove, HeirsStay DEF Recovery!Evict

\* removePending finds the session: it has not been claimed.
LEMMA Expires ==
    ASSUME IInv, NEW s \in Sessions, RemovePending(s), s \in registry, dropped[s]
    PROVE  Recovery!Expire(s)
<1> USE DEF IInv, TypeOK, RemovePending, handlerVars, policyVars,
        historyVars, Coherent, ClaimExclusive, Custody, Unsettled, Live, Ending,
        Claimed, GivenUp
<1>1. \A q \in Sessions \ {s} : Undisturbed(q)
  BY DEF Undisturbed
<1>2. Phase(s) = "grace"
  BY PhaseIs DEF PhaseFacts
<1>3. Phase(s)' = "ending"
  BY PhaseIs DEF PhaseFacts
<1> QED BY <1>1, <1>2, <1>3, OneMove, HeirsStay DEF Recovery!Expire

\* completeSessionLeave in the session's own goroutine, in its timer's, or in
\* the goroutine of the session that claimed it.
LEMMA Leaves ==
    ASSUME IInv, NEW s \in Sessions,
           ImmediateLeave(s) \/ ExpiredLeave(s) \/ LeavePending(s)
    PROVE  \E p \in Sessions : Recovery!Leave(p)
<1> USE DEF IInv, TypeOK, Advance, CompleteSessionLeave, handlerVars, registryVars,
        policyVars, Coherent, ClaimExclusive, Custody, Holds, Unsettled, Live, Ending,
        Claimed, GivenUp
<1>1. CASE ImmediateLeave(s)
  <2>1. \A q \in Sessions \ {s} : Undisturbed(q)
    BY <1>1 DEF ImmediateLeave, Undisturbed
  <2>2. Phase(s) = "ending"
    BY <1>1, PhaseIs DEF ImmediateLeave, PhaseFacts
  <2>3. Phase(s)' = "left"
    BY <1>1, PhaseIs DEF ImmediateLeave, PhaseFacts
  <2>4. UNCHANGED pending
    BY <1>1 DEF ImmediateLeave
  <2> QED BY <2>1, <2>2, <2>3, <2>4, OneMove, HeirsStay DEF Recovery!Leave
<1>2. CASE ExpiredLeave(s)
  <2>1. \A q \in Sessions \ {s} : Undisturbed(q)
    BY <1>2 DEF ExpiredLeave, Undisturbed
  <2>2. Phase(s) = "ending"
    BY <1>2, PhaseIs DEF ExpiredLeave, PhaseFacts
  <2>3. Phase(s)' = "left"
    BY <1>2, PhaseIs DEF ExpiredLeave, PhaseFacts
  <2>4. UNCHANGED pending
    BY <1>2 DEF ExpiredLeave
  <2> QED BY <2>1, <2>2, <2>3, <2>4, OneMove, HeirsStay DEF Recovery!Leave
<1>3. CASE LeavePending(s)
  <2>0. PICK p \in Sessions : p = pending[s]
    BY <1>3 DEF LeavePending
  <2>1. p # s /\ pending[s] = p /\ \A q \in Sessions : pending[q] = p => q = s
    BY <1>3, <2>0 DEF LeavePending
  <2>2. /\ pc[s] = "leavingPending" /\ pc' = [pc EXCEPT ![s] = "opening"]
        /\ leaveRuns' = [leaveRuns EXCEPT ![p] = @ + 1]
        /\ UNCHANGED <<successor, timer, registry, dropped, pending>>
    BY <1>3, <2>0 DEF LeavePending
  <2>3. Unsettled(p)
    BY <2>1, <2>2
  <2>4. \A q \in Sessions \ {p} : Undisturbed(q)
    BY <2>1, <2>2 DEF Undisturbed
  <2>5. Phase(p) = "ending"
    BY <2>1, <2>2, <2>3, PhaseIs DEF PhaseFacts
  <2>6. Phase(p)' = "left"
    BY <2>1, <2>2, <2>3, PhaseIs DEF PhaseFacts
  <2> QED BY <2>1, <2>2, <2>4, <2>5, <2>6, OneMove, HeirsStay DEF Recovery!Leave
<1> QED BY <1>1, <1>2, <1>3

-----------------------------------------------------------------------------
\* claimPendingReconnect finds a session: the claiming one is not yet visible
\* to anybody and has claimed nothing else.
LEMMA Claims ==
    ASSUME IInv, NEW s \in Sessions, ClaimPendingReconnect(s), Claimable(s) # {}
    PROVE  \E p \in Sessions : Recovery!Claim(p, s)
<1> USE DEF IInv, TypeOK, Advance, policyVars, historyVars, Coherent, ClaimExclusive,
        Custody, Unsettled, Live, Ending, Claimed, GivenUp
<1>1. PICK p \in MostRecent(Claimable(s)) :
        /\ pending' = [pending EXCEPT ![s] = p]
        /\ registry' = registry \ {p}
        /\ timer' = [timer EXCEPT ![p] = Stopped(@)]
  BY DEF ClaimPendingReconnect
<1>2. /\ p \in Sessions /\ p \in registry /\ dropped[p] /\ KeyOf[p] = KeyOf[s]
      /\ pc[s] = "authenticated" /\ pc' = [pc EXCEPT ![s] = "claimed"]
      /\ UNCHANGED <<dropped, successor, leaveRuns>>
  BY DEF ClaimPendingReconnect, MostRecent, Claimable
<1>3. /\ p # s /\ pc[p] = "closed" /\ pending[s] = None /\ Unsettled(p) /\ Unsettled(s)
      /\ timer[p] # "leaving" /\ timer[s] = "off" /\ s \notin registry
      /\ \A q \in Sessions : pending[q] # p /\ pending[q] # s
  BY <1>2 DEF TimerStates
<1>4. \A q \in Sessions \ {p} : Undisturbed(q)
  BY <1>1, <1>2, <1>3, LifecycleAssumption DEF Undisturbed, Stopped
<1>5. Phase(p) = "grace"
  BY <1>2, <1>3, PhaseIs DEF PhaseFacts
<1>6. Phase(p)' = "claimed"
  <2>1. timer'[p] # "leaving" /\ pc'[p] = "closed" /\ pending'[s] = p
    BY <1>1, <1>2, <1>3 DEF Stopped
  <2>2. \A q \in Sessions : pending'[q] = p => q = s
    BY <1>1, <1>3
  <2>3. ~GivenUp(p)' /\ Claimed(p)'
    BY <2>1, <2>2, <1>2
  <2> QED BY <1>2, <1>3, <2>1, <2>3, PhaseIs DEF PhaseFacts
<1>7. Phase(s) = "unknown"
  BY <1>2, <1>3, PhaseIs DEF PhaseFacts
<1>8. \A q \in Sessions : Heir(q) # s
  <2>1. ASSUME NEW q \in Sessions, Heir(q) = s PROVE FALSE
    <3>1. s \in ClaimedBy(q) \/ s = None
      BY <2>1 DEF Heir
    <3> QED BY <3>1, <1>3, LifecycleAssumption DEF ClaimedBy
  <2> QED BY <2>1
<1>9. [q \in Sessions |-> Heir(q)]'
         = [[q \in Sessions |-> Heir(q)] EXCEPT ![p] = s]
  <2>1. Heir(p)' = s
    BY <1>1, <1>2, <1>3, HeirIs
  <2>2. ASSUME NEW q \in Sessions \ {p} PROVE Heir(q)' = Heir(q)
    BY <1>1, <1>3, LifecycleAssumption, HeirStays
  <2> QED BY <2>1, <2>2
<1>10. Recovery!Move(p, "grace", "claimed")
  BY <1>2, <1>4, <1>5, <1>6, OneMove
<1>11. \A q \in Sessions : [r \in Sessions |-> Heir(r)][q] # s
  BY <1>8
<1>12. [r \in Sessions |-> Phase(r)][s] = "unknown"
  BY <1>7
<1> QED BY <1>2, <1>3, <1>9, <1>10, <1>11, <1>12 DEF Recovery!Claim

\* The claiming session is present once it is registered.
LEMMA HeirIsPresent ==
    ASSUME IInv, NEW s \in Sessions, pc[s] \in {"listed", "entering"},
           pending[s] \in Sessions
    PROVE  Phase(s) = "present" /\ Heir(pending[s]) = s
<1> USE DEF IInv, TypeOK, Coherent, ClaimExclusive, Custody, Unsettled, Live
<1>1. Phase(s) = "present"
  BY PhaseIs DEF PhaseFacts, Ending, Claimed, GivenUp
<1>2. \A q \in Sessions : pending[q] = pending[s] <=> q = s
  OBVIOUS
<1> QED BY <1>1, <1>2, HeirIs

\* initialDoorForReconnect cannot go back: the old session's stay ends.
LEMMA Abandons ==
    ASSUME IInv, NEW s \in Sessions, GiveUpOldDoor(s)
    PROVE  \E p \in Sessions : Recovery!Abandon(p)
<1> USE DEF IInv, TypeOK, Advance, registryVars, policyVars, historyVars, Coherent,
        ClaimExclusive, Custody, Holds, Unsettled, Live, Ending, Claimed, GivenUp
<1>0. PICK p \in Sessions : p = pending[s]
  BY DEF GiveUpOldDoor, OldDoor
<1>1. p # s /\ pending[s] = p /\ Unsettled(p) /\ pc[p] = "closed"
      /\ timer[p] # "leaving"
      /\ \A q \in Sessions : pending[q] = p => q = s
  BY <1>0 DEF GiveUpOldDoor, OldDoor
<1>2. /\ pc[s] = "listed" /\ pc' = [pc EXCEPT ![s] = "leavingPending"]
      /\ UNCHANGED <<pending, successor, leaveRuns, timer, registry, dropped>>
  BY <1>0 DEF GiveUpOldDoor
<1>3. Phase(s) = "present" /\ Heir(p) = s
  BY <1>1, <1>2, HeirIsPresent
<1>4. \A q \in Sessions \ {p} : Undisturbed(q)
  BY <1>1, <1>2 DEF Undisturbed
<1>5. Phase(p) = "claimed"
  BY <1>1, <1>2, PhaseIs DEF PhaseFacts
<1>6. Phase(p)' = "ending"
  BY <1>1, <1>2, PhaseIs DEF PhaseFacts
<1>7. Recovery!Move(p, "claimed", "ending")
  BY <1>1, <1>4, <1>5, <1>6, OneMove
<1> QED BY <1>1, <1>2, <1>3, <1>7, HeirsStay DEF Recovery!Abandon

\* openDoorWithOptions with on_join suppressed: the old session's stay goes on.
LEMMA Resumes ==
    ASSUME IInv, NEW s \in Sessions, EnterDoor(s), resume[s]
    PROVE  \E p \in Sessions : Recovery!Resume(p)
<1> USE DEF IInv, TypeOK, Advance, registryVars, policyVars, Coherent,
        ClaimExclusive, Custody, Holds, Unsettled, StayOpen, Live, Ending, Claimed,
        GivenUp
<1>0. PICK p \in Sessions : p = pending[s]
  BY DEF EnterDoor
<1>1. p # s /\ pending[s] = p /\ Unsettled(p) /\ pc[p] = "closed"
      /\ timer[p] # "leaving"
      /\ \A q \in Sessions : pending[q] = p => q = s
  BY <1>0 DEF EnterDoor
<1>2. /\ pc[s] = "entering" /\ pc' = [pc EXCEPT ![s] = "routing"]
      /\ successor' = [successor EXCEPT ![p] = s]
      /\ UNCHANGED <<pending, leaveRuns, timer, registry, dropped>>
  BY <1>0 DEF EnterDoor
<1>3. Phase(s) = "present" /\ Heir(p) = s
  BY <1>1, <1>2, HeirIsPresent
<1>4. \A q \in Sessions \ {p} : Undisturbed(q)
  BY <1>1, <1>2 DEF Undisturbed
<1>5. Phase(p) = "claimed"
  BY <1>1, <1>2, PhaseIs DEF PhaseFacts
<1>6. Phase(p)' = "resumed"
  BY <1>1, <1>2, PhaseIs, LifecycleAssumption DEF PhaseFacts
<1>7. Recovery!Move(p, "claimed", "resumed")
  BY <1>1, <1>4, <1>5, <1>6, OneMove
<1> QED BY <1>1, <1>2, <1>3, <1>7, HeirsStay DEF Recovery!Resume

-----------------------------------------------------------------------------
\* The node keeps the recovery contract: however reconnecting handlers, grace
\* timers, failing connections and bans interleave, a dropped session is
\* claimed by one session of its passport at most, and ends up either resumed
\* or left, never both and never twice.
THEOREM ImplementsRecovery == Spec => KeepsRecoveryContract
<1>1. Init => Recovery!Init
  <2> SUFFICES ASSUME Init PROVE Recovery!Init
    OBVIOUS
  <2>1. ASSUME NEW p \in Sessions PROVE Phase(p) = "unknown" /\ Heir(p) = None
    <3>1. ClaimedBy(p) = {}
      BY LifecycleAssumption DEF Init, ClaimedBy
    <3>2. Heir(p) = None
      BY <3>1 DEF Heir
    <3> QED BY <3>1, <3>2 DEF Init, Phase
  <2> QED BY <2>1 DEF Recovery!Init
<1>2. IInv /\ [Next]_vars => [Recovery!Next]_(Recovery!vars)
  <2> SUFFICES ASSUME IInv, [Next]_vars PROVE Recovery!Next \/ Stutters
    BY DEF Stutters
  <2> USE DEF Recovery!Next
  <2>1. ASSUME NEW s \in Sessions, HandlerStep(s) PROVE Recovery!Next \/ Stutters
    <3>1. CASE ClaimPendingReconnect(s)
      BY <3>1, Claims, QuietSteps DEF ClaimPendingReconnect, Advance
    <3>2. CASE EnterDoor(s)
      BY <3>2, Resumes, QuietSteps DEF EnterDoor, Advance
    <3> QED BY <2>1, <3>1, <3>2, Arrives, Drops, IsEvicted, Leaves, Abandons, QuietSteps
            DEF HandlerStep
  <2>2. ASSUME NEW s \in Sessions, TimerStep(s) PROVE Recovery!Next \/ Stutters
    BY <2>2, Expires, Leaves, QuietSteps DEF TimerStep
  <2>3. ASSUME NEW s \in Sessions, ClientStep(s) PROVE Stutters
    BY <2>3, QuietSteps
  <2>4. CASE AdminStep
    BY <2>4, QuietAdmins
  <2>5. CASE UNCHANGED vars
    BY <2>5, AllStay DEF vars, handlerVars, registryVars, historyVars, Undisturbed,
       Ending, Claimed, GivenUp
  <2> QED BY <2>1, <2>2, <2>3, <2>4, <2>5 DEF Next
<1> QED BY <1>1, <1>2, Inductive, PTL DEF Spec, KeepsRecoveryContract, Recovery!Spec
=============================================================================
