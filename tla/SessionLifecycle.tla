------------------------- MODULE SessionLifecycle -------------------------
(***************************************************************************)
(* The life of a node session: internal/node/session.go (the registry) and *)
(* the part of internal/node/server.go that drives it.                     *)
(*                                                                         *)
(* Every WebSocket connection is served by a goroutine running handleWS.   *)
(* It authenticates, takes over ("claims") a session of the same passport  *)
(* that dropped a moment ago, registers itself, sends the door list, opens *)
(* the old door again or the lobby, and then routes client messages until  *)
(* the connection fails.  A dropped session stays in the registry for a    *)
(* grace period, and a time.AfterFunc goroutine runs its on_leave when     *)
(* the period ends.  Claiming goroutines, grace timers, handlers of forced *)
(* sessions and an administrator's ban all compete for the same sessions.  *)
(*                                                                         *)
(* Each critical section under sessionRegistry.mu is one step, and so is   *)
(* each invocation of a door hook.  Door effects (renders, broadcasts,     *)
(* transitions) are left out: they do not touch the state kept here.       *)
(***************************************************************************)
EXTENDS Naturals

CONSTANTS
    Sessions,       \* connections; each one that authenticates is a session
    Keys,           \* passport public keys
    Doors,          \* door identifiers
    Lobby,          \* the identifier "lobby"
    None,           \* no door ("") or no session (nil)
    KeyOf,          \* the passport behind each connection
    GraceEnabled,   \* disconnectGrace > 0
    Hostile,        \* doors an administrator disables or removes meanwhile
    Bannable,       \* passports an administrator bans or unbans meanwhile
    EarlyDrops      \* connections may fail before the initial door is open

ASSUME LifecycleAssumption ==
    /\ Lobby \in Doors
    /\ None \notin Doors
    /\ None \notin Sessions
    /\ KeyOf \in [Sessions -> Keys]
    /\ GraceEnabled \in BOOLEAN
    /\ EarlyDrops \in BOOLEAN
    /\ Hostile \subseteq Doors
    /\ Bannable \subseteq Keys

VARIABLES
    pc,          \* where the handleWS goroutine of a connection is
    connUp,      \* the connection has not failed and has not been closed
    registry,    \* the sessions in sessionRegistry.sessions
    dropped,     \* sessionState.disconnected
    droppedAt,   \* sessionState.disconnectedAt
    now,         \* the clock that stamps droppedAt
    timer,       \* sessionState.disconnectTimer and the goroutine it starts
    forced,      \* sessionState.forceImmediateLeave
    activeDoor,  \* sessionState.activeDoor
    pending,     \* handleWS's local variable pending
    want,        \* the door being opened
    resume,      \* suppressJoin of the initial open
    doorStatus,  \* what the manifests and the station policy say of a door
    banned,      \* passports with a ban in the saved station policy
    banPhase,    \* applyAdminOps between saving a ban and closePublicKey
    toClose,     \* sessions closePublicKey has yet to close
    joined,      \* history: doors whose on_join ran for a session, not left
    leaveRuns,   \* history: how often completeSessionLeave ran for a session
    successor    \* history: the session that went on with a session's stay

handlerVars == <<pc, pending, want, resume>>
registryVars == <<registry, dropped, droppedAt, now, timer, forced>>
policyVars == <<doorStatus, banned, banPhase, toClose>>
historyVars == <<joined, leaveRuns, successor>>
vars == <<handlerVars, registryVars, policyVars, historyVars, connUp, activeDoor>>

HandlerStates ==
    {"offline", "authenticated", "claimed", "registered", "listed",
     "leavingPending", "opening", "entering", "routing", "closing",
     "leaving", "closed"}

TimerStates == {"off", "armed", "fired", "leaving"}

TypeOK ==
    /\ pc \in [Sessions -> HandlerStates]
    /\ connUp \in [Sessions -> BOOLEAN]
    /\ registry \subseteq Sessions
    /\ dropped \in [Sessions -> BOOLEAN]
    /\ droppedAt \in [Sessions -> Nat]
    /\ now \in Nat
    /\ timer \in [Sessions -> TimerStates]
    /\ forced \in [Sessions -> BOOLEAN]
    /\ activeDoor \in [Sessions -> Doors \cup {None}]
    /\ pending \in [Sessions -> Sessions \cup {None}]
    /\ want \in [Sessions -> Doors \cup {None}]
    /\ resume \in [Sessions -> BOOLEAN]
    /\ doorStatus \in [Doors -> {"open", "disabled", "missing"}]
    /\ banned \subseteq Keys
    /\ banPhase \in [Keys -> {"idle", "saved"}]
    /\ toClose \subseteq Sessions
    /\ joined \in [Sessions -> SUBSET Doors]
    /\ leaveRuns \in [Sessions -> Nat]
    /\ successor \in [Sessions -> Sessions \cup {None}]

-----------------------------------------------------------------------------
\* findDoor and canAccessDoor, for a passport whose role and door allowlists
\* admit it: the manifest is loaded, and the policy neither disables the door
\* nor bans the passport.
CanAccess(s, d) == doorStatus[d] = "open" /\ KeyOf[s] \notin banned

\* Running on_leave of a door ends the stay its on_join began.  A door whose
\* manifest is gone has no hook to run, and nothing to leave any more.
Without(s, d) == [joined EXCEPT ![s] = @ \ {d}]

\* What completeSessionLeave does to session s, whoever calls it.
CompleteSessionLeave(s) ==
    /\ joined' = IF activeDoor[s] = None THEN joined ELSE Without(s, activeDoor[s])
    /\ leaveRuns' = [leaveRuns EXCEPT ![s] = @ + 1]
    /\ UNCHANGED successor

Advance(s, from, to) ==
    /\ pc[s] = from
    /\ pc' = [pc EXCEPT ![s] = to]

-----------------------------------------------------------------------------
\* authenticate: hello, challenge and auth succeed, and the passport is not
\* banned when the policy is read.  The session exists, but is registered
\* nowhere yet.  A denied connection leaves no trace in this state.
Authenticate(s) ==
    /\ Advance(s, "offline", "authenticated")
    /\ KeyOf[s] \notin banned
    /\ connUp' = [connUp EXCEPT ![s] = TRUE]
    /\ UNCHANGED <<pending, want, resume, registryVars, policyVars, historyVars,
                   activeDoor>>

\* The dropped sessions a reconnecting passport may take over, and the ones
\* claimPendingReconnect picks: those that dropped last.
Claimable(s) == {p \in registry : dropped[p] /\ KeyOf[p] = KeyOf[s]}
MostRecent(P) == {p \in P : \A q \in P : droppedAt[q] <= droppedAt[p]}

\* Stopping a timer prevents its goroutine only if it has not started.
Stopped(t) == IF t = "armed" THEN "off" ELSE t

\* Mutant of ClaimPendingReconnect: what is claimed stays in the registry.
ClaimWithoutDelete(s) ==
    /\ Advance(s, "authenticated", "claimed")
    /\ \/ Claimable(s) = {} /\ UNCHANGED <<pending, timer>>
       \/ \E p \in MostRecent(Claimable(s)) :
             /\ pending' = [pending EXCEPT ![s] = p]
             /\ timer' = [timer EXCEPT ![p] = Stopped(@)]
    /\ UNCHANGED <<want, resume, registry, dropped, droppedAt, now, forced, policyVars,
                   historyVars, connUp, activeDoor>>

\* claimPendingReconnect: one critical section that picks the session, stops
\* its timer and deletes it from the registry.
ClaimPendingReconnect(s) ==
    /\ Advance(s, "authenticated", "claimed")
    /\ \/ /\ Claimable(s) = {}
          /\ UNCHANGED <<pending, registry, timer>>
       \/ \E p \in MostRecent(Claimable(s)) :
             /\ pending' = [pending EXCEPT ![s] = p]
             /\ registry' = registry \ {p}
             /\ timer' = [timer EXCEPT ![p] = Stopped(@)]
    /\ UNCHANGED <<want, resume, dropped, droppedAt, now, forced, policyVars,
                   historyVars, connUp, activeDoor>>

\* sessions.add: from here on other sessions, and bans, can see this one.
Add(s) ==
    /\ Advance(s, "claimed", "registered")
    /\ registry' = registry \cup {s}
    /\ dropped' = [dropped EXCEPT ![s] = FALSE]
    /\ timer' = [timer EXCEPT ![s] = "off"]
    /\ UNCHANGED <<pending, want, resume, droppedAt, now, forced, policyVars,
                   historyVars, connUp, activeDoor>>

\* sendDoorList: an error makes handleWS return.  The write to a connection
\* that failed a moment ago may still succeed.
SendDoorList(s) ==
    /\ \/ Advance(s, "registered", "listed")
       \/ ~connUp[s] /\ Advance(s, "registered", "closing")
    /\ UNCHANGED <<pending, want, resume, registryVars, policyVars, historyVars,
                   connUp, activeDoor>>

\* The door to go back to, if any.
OldDoor(s) == IF pending[s] = None THEN None ELSE activeDoor[pending[s]]

\* initialDoorForReconnect when there is none.
NothingToResume(s) ==
    /\ Advance(s, "listed", "opening")
    /\ OldDoor(s) = None
    /\ want' = [want EXCEPT ![s] = Lobby]
    /\ UNCHANGED <<pending, resume, registryVars, policyVars, historyVars, connUp,
                   activeDoor>>

\* Mutant of ResumeDoor: the old door is opened like any other.
ReopenDoor(s) ==
    /\ Advance(s, "listed", "opening")
    /\ OldDoor(s) # None
    /\ CanAccess(s, OldDoor(s))
    /\ want' = [want EXCEPT ![s] = OldDoor(s)]
    /\ UNCHANGED <<pending, resume, registryVars, policyVars, historyVars, connUp,
                   activeDoor>>

\* initialDoorForReconnect when the old door is accessible: on_join is
\* suppressed, because the stay that began before the drop goes on.
ResumeDoor(s) ==
    /\ Advance(s, "listed", "opening")
    /\ OldDoor(s) # None
    /\ CanAccess(s, OldDoor(s))
    /\ want' = [want EXCEPT ![s] = OldDoor(s)]
    /\ resume' = [resume EXCEPT ![s] = TRUE]
    /\ UNCHANGED <<pending, registryVars, policyVars, historyVars, connUp, activeDoor>>

\* initialDoorForReconnect when it is not accessible any more.
GiveUpOldDoor(s) ==
    /\ Advance(s, "listed", "leavingPending")
    /\ OldDoor(s) # None
    /\ ~CanAccess(s, OldDoor(s))
    /\ UNCHANGED <<pending, want, resume, registryVars, policyVars, historyVars,
                   connUp, activeDoor>>

\* Mutant of LeavePending: the claimed session is forgotten.
ForgetPending(s) ==
    /\ Advance(s, "leavingPending", "opening")
    /\ want' = [want EXCEPT ![s] = Lobby]
    /\ UNCHANGED <<pending, resume, registryVars, policyVars, historyVars, connUp,
                   activeDoor>>

\* ... its on_leave runs in the new session's goroutine, which then opens
\* the lobby.
LeavePending(s) ==
    /\ Advance(s, "leavingPending", "opening")
    /\ CompleteSessionLeave(pending[s])
    /\ want' = [want EXCEPT ![s] = Lobby]
    /\ UNCHANGED <<pending, resume, registryVars, policyVars, connUp, activeDoor>>

-----------------------------------------------------------------------------
\* openDoorWithOptions refuses a door that is unknown or not accessible.  The
\* first open then falls back to the lobby view of defaultLobbyView, without
\* an active door; a later one answers with an error.
OpenDenied(s) ==
    /\ Advance(s, "opening", "routing")
    /\ ~CanAccess(s, want[s])
    /\ want' = [want EXCEPT ![s] = None]
    /\ resume' = [resume EXCEPT ![s] = FALSE]
    /\ UNCHANGED <<pending, registryVars, policyVars, historyVars,
                   connUp, activeDoor>>

\* Mutant of LeaveOldDoor: the current door is never left.
SkipOldDoor(s) ==
    /\ Advance(s, "opening", "entering")
    /\ CanAccess(s, want[s])
    /\ UNCHANGED <<pending, want, resume, registryVars, policyVars, historyVars,
                   connUp, activeDoor>>

\* Otherwise the on_leave of the current door runs, if it is another door.
LeaveOldDoor(s) ==
    /\ Advance(s, "opening", "entering")
    /\ CanAccess(s, want[s])
    /\ joined' = IF activeDoor[s] \notin {None, want[s]}
                 THEN Without(s, activeDoor[s]) ELSE joined
    /\ UNCHANGED <<pending, want, resume, registryVars, policyVars, leaveRuns, successor,
                   connUp, activeDoor>>

\* Mutant of EnterDoor: on_join runs for the door that is wanted next.
EnterTooLate(s) ==
    /\ Advance(s, "entering", "routing")
    /\ activeDoor' = [activeDoor EXCEPT ![s] = want[s]]
    /\ want' = [want EXCEPT ![s] = None]
    /\ joined' = [joined EXCEPT ![s] = @ \cup {want'[s]}]
    /\ UNCHANGED <<pending, resume, registryVars, policyVars, leaveRuns, successor, connUp>>

\* ... then updateDoor, and on_join unless it is suppressed.  A resumed stay
\* passes from the old session to the new one.  Errors of on_join and of the
\* first render end in handleWS's loop too, with the door left active.
EnterDoor(s) ==
    /\ Advance(s, "entering", "routing")
    /\ activeDoor' = [activeDoor EXCEPT ![s] = want[s]]
    /\ want' = [want EXCEPT ![s] = None]
    /\ IF resume[s]
       THEN /\ joined' = [joined EXCEPT ![s] = @ \cup joined[pending[s]],
                                        ![pending[s]] = {}]
            /\ resume' = [resume EXCEPT ![s] = FALSE]
            /\ successor' = [successor EXCEPT ![pending[s]] = s]
       ELSE /\ joined' = [joined EXCEPT ![s] = @ \cup {want[s]}]
            /\ UNCHANGED <<resume, successor>>
    /\ UNCHANGED <<pending, registryVars, policyVars, leaveRuns, connUp>>

\* routeClientMessage: the client asks for a door.
OpenDoor(s, d) ==
    /\ Advance(s, "routing", "opening")
    /\ connUp[s]
    /\ want' = [want EXCEPT ![s] = d]
    /\ UNCHANGED <<pending, resume, registryVars, policyVars, historyVars, connUp,
                   activeDoor>>

\* readClientMessage fails: handleWS returns and runs its deferred call.
ReadFails(s) ==
    /\ Advance(s, "routing", "closing")
    /\ ~connUp[s]
    /\ UNCHANGED <<pending, want, resume, registryVars, policyVars, historyVars,
                   connUp, activeDoor>>

-----------------------------------------------------------------------------
\* Mutants of BeginGrace: a forced session waits like any other, and the
\* grace timer is not started.
GraceForAll(s) ==
    /\ Advance(s, "closing", "closed")
    /\ s \in registry /\ ~dropped[s]
    /\ dropped' = [dropped EXCEPT ![s] = TRUE]
    /\ droppedAt' = [droppedAt EXCEPT ![s] = now]
    /\ now' = now + 1
    /\ timer' = [timer EXCEPT ![s] = "armed"]
    /\ UNCHANGED <<pending, want, resume, registry, forced, policyVars, historyVars,
                   connUp, activeDoor>>

GraceWithoutTimer(s) ==
    /\ Advance(s, "closing", "closed")
    /\ s \in registry /\ ~dropped[s]
    /\ ~forced[s] /\ GraceEnabled
    /\ dropped' = [dropped EXCEPT ![s] = TRUE]
    /\ droppedAt' = [droppedAt EXCEPT ![s] = now]
    /\ now' = now + 1
    /\ UNCHANGED <<pending, want, resume, registry, timer, forced, policyVars,
                   historyVars, connUp, activeDoor>>

\* beginDisconnect of a session that keeps its place for the grace period.
BeginGrace(s) ==
    /\ Advance(s, "closing", "closed")
    /\ s \in registry /\ ~dropped[s]
    /\ ~forced[s] /\ GraceEnabled
    /\ dropped' = [dropped EXCEPT ![s] = TRUE]
    /\ droppedAt' = [droppedAt EXCEPT ![s] = now]
    /\ now' = now + 1
    /\ timer' = [timer EXCEPT ![s] = "armed"]
    /\ UNCHANGED <<pending, want, resume, registry, forced, policyVars, historyVars,
                   connUp, activeDoor>>

\* beginDisconnect of a forced session, or without a grace period: the
\* session is deleted and its own goroutine runs on_leave.
BeginImmediateLeave(s) ==
    /\ Advance(s, "closing", "leaving")
    /\ s \in registry /\ ~dropped[s]
    /\ forced[s] \/ ~GraceEnabled
    /\ dropped' = [dropped EXCEPT ![s] = TRUE]
    /\ droppedAt' = [droppedAt EXCEPT ![s] = now]
    /\ now' = now + 1
    /\ registry' = registry \ {s}
    /\ UNCHANGED <<pending, want, resume, timer, forced, policyVars, historyVars,
                   connUp, activeDoor>>

ImmediateLeave(s) ==
    /\ Advance(s, "leaving", "closed")
    /\ CompleteSessionLeave(s)
    /\ UNCHANGED <<pending, want, resume, registryVars, policyVars, connUp, activeDoor>>

\* The grace period ends: the runtime starts the AfterFunc goroutine, which
\* has yet to take the registry's lock.
TimerFires(s) ==
    /\ timer[s] = "armed"
    /\ timer' = [timer EXCEPT ![s] = "fired"]
    /\ UNCHANGED <<handlerVars, registry, dropped, droppedAt, now, forced, policyVars,
                   historyVars, connUp, activeDoor>>

\* Mutants of RemovePending: the timer does not look whether the session is
\* still there, and it removes the session without running on_leave.
RemoveBlindly(s) ==
    /\ timer[s] = "fired"
    /\ registry' = registry \ {s}
    /\ timer' = [timer EXCEPT ![s] = "leaving"]
    /\ UNCHANGED <<handlerVars, dropped, droppedAt, now, forced, policyVars,
                   historyVars, connUp, activeDoor>>

RemoveOnly(s) ==
    /\ timer[s] = "fired"
    /\ registry' = registry \ {s}
    /\ timer' = [timer EXCEPT ![s] = "off"]
    /\ UNCHANGED <<handlerVars, dropped, droppedAt, now, forced, policyVars,
                   historyVars, connUp, activeDoor>>

\* completePendingDisconnect calls removePending, which finds the session or
\* finds that it has been claimed meanwhile.
RemovePending(s) ==
    /\ timer[s] = "fired"
    /\ IF s \in registry /\ dropped[s]
       THEN /\ registry' = registry \ {s}
            /\ timer' = [timer EXCEPT ![s] = "leaving"]
       ELSE /\ timer' = [timer EXCEPT ![s] = "off"]
            /\ UNCHANGED registry
    /\ UNCHANGED <<handlerVars, dropped, droppedAt, now, forced, policyVars,
                   historyVars, connUp, activeDoor>>

ExpiredLeave(s) ==
    /\ timer[s] = "leaving"
    /\ timer' = [timer EXCEPT ![s] = "off"]
    /\ CompleteSessionLeave(s)
    /\ UNCHANGED <<handlerVars, registry, dropped, droppedAt, now, forced, policyVars,
                   connUp, activeDoor>>

-----------------------------------------------------------------------------
\* The client goes away, or the network fails.
ClientDrops(s) ==
    /\ connUp[s]
    /\ EarlyDrops \/ pc[s] = "routing"
    /\ connUp' = [connUp EXCEPT ![s] = FALSE]
    /\ UNCHANGED <<handlerVars, registryVars, policyVars, historyVars, activeDoor>>

\* applyAdminOps with ban_key: the policy is saved first ...
SaveBan(k) ==
    /\ k \in Bannable
    /\ banPhase[k] = "idle"
    /\ banned' = banned \cup {k}
    /\ banPhase' = [banPhase EXCEPT ![k] = "saved"]
    /\ UNCHANGED <<doorStatus, toClose, handlerVars, registryVars, historyVars, connUp,
                   activeDoor>>

\* ... then closePublicKey marks every registered session of the passport in
\* one critical section ...
ClosePublicKey(k) ==
    LET targets == {s \in registry : KeyOf[s] = k} IN
    /\ banPhase[k] = "saved"
    /\ banPhase' = [banPhase EXCEPT ![k] = "idle"]
    /\ forced' = [s \in Sessions |-> forced[s] \/ s \in targets]
    /\ toClose' = toClose \cup targets
    /\ UNCHANGED <<doorStatus, banned, handlerVars, registry, dropped, droppedAt, now,
                   timer, historyVars, connUp, activeDoor>>

\* ... and closes them one by one afterwards.  A dropped session's conn is
\* nil and is skipped, which is no different here.
CloseTarget(s) ==
    /\ s \in toClose
    /\ toClose' = toClose \ {s}
    /\ connUp' = [connUp EXCEPT ![s] = FALSE]
    /\ UNCHANGED <<doorStatus, banned, banPhase, handlerVars, registryVars, historyVars,
                   activeDoor>>

\* unban_key.
Unban(k) ==
    /\ k \in banned
    /\ banned' = banned \ {k}
    /\ UNCHANGED <<doorStatus, banPhase, toClose, handlerVars, registryVars, historyVars,
                   connUp, activeDoor>>

\* set_door_enabled, set_door_roles, or reload_manifests after a manifest was
\* removed or restored.
SetDoorStatus(d, status) ==
    /\ d \in Hostile
    /\ doorStatus[d] # status
    /\ doorStatus' = [doorStatus EXCEPT ![d] = status]
    /\ UNCHANGED <<banned, banPhase, toClose, handlerVars, registryVars, historyVars,
                   connUp, activeDoor>>

-----------------------------------------------------------------------------
Init ==
    /\ pc = [s \in Sessions |-> "offline"]
    /\ connUp = [s \in Sessions |-> FALSE]
    /\ registry = {}
    /\ dropped = [s \in Sessions |-> FALSE]
    /\ droppedAt = [s \in Sessions |-> 0]
    /\ now = 0
    /\ timer = [s \in Sessions |-> "off"]
    /\ forced = [s \in Sessions |-> FALSE]
    /\ activeDoor = [s \in Sessions |-> None]
    /\ pending = [s \in Sessions |-> None]
    /\ want = [s \in Sessions |-> None]
    /\ resume = [s \in Sessions |-> FALSE]
    /\ doorStatus = [d \in Doors |-> "open"]
    /\ banned = {}
    /\ banPhase = [k \in Keys |-> "idle"]
    /\ toClose = {}
    /\ joined = [s \in Sessions |-> {}]
    /\ leaveRuns = [s \in Sessions |-> 0]
    /\ successor = [s \in Sessions |-> None]

\* The steps of handleWS that wait for nobody but the node itself.
HandlerStep(s) ==
    \/ ClaimPendingReconnect(s) \/ Add(s) \/ SendDoorList(s)
    \/ NothingToResume(s) \/ ResumeDoor(s) \/ GiveUpOldDoor(s) \/ LeavePending(s)
    \/ OpenDenied(s) \/ LeaveOldDoor(s) \/ EnterDoor(s)
    \/ ReadFails(s)
    \/ BeginGrace(s) \/ BeginImmediateLeave(s) \/ ImmediateLeave(s)

TimerStep(s) == TimerFires(s) \/ RemovePending(s) \/ ExpiredLeave(s)

ClientStep(s) ==
    \/ Authenticate(s)
    \/ ClientDrops(s)
    \/ \E d \in Doors : OpenDoor(s, d)

AdminStep ==
    \/ \E k \in Keys : SaveBan(k) \/ ClosePublicKey(k) \/ Unban(k)
    \/ \E s \in Sessions : CloseTarget(s)
    \/ \E d \in Doors, status \in {"open", "disabled", "missing"} :
          SetDoorStatus(d, status)

Next ==
    \/ \E s \in Sessions : HandlerStep(s) \/ TimerStep(s) \/ ClientStep(s)
    \/ AdminStep

Spec == Init /\ [][Next]_vars

\* Goroutines run when they can, timers fire, hooks return (they are cut off
\* after five seconds), and closePublicKey gets through its list.  Nothing is
\* assumed of clients or of what administrators decide.
Fairness ==
    /\ \A s \in Sessions : WF_vars(HandlerStep(s)) /\ WF_vars(TimerStep(s))
    /\ \A k \in Keys : WF_vars(ClosePublicKey(k))
    /\ \A s \in Sessions : WF_vars(CloseTarget(s))

FairSpec == Spec /\ Fairness

-----------------------------------------------------------------------------
\* A session that dropped is settled in one of two ways: its on_leave runs,
\* once, or a later session goes on with its stay; never both, although the
\* grace timer, the claiming handler and the session's own handler run
\* concurrently (removePending, claimPendingReconnect and beginDisconnect).
SettledOnce == \A p \in Sessions :
    /\ leaveRuns[p] <= 1
    /\ successor[p] # None => leaveRuns[p] = 0

\* A handler that claimed p and has not decided yet what becomes of it.
Holds(s, p) ==
    /\ pending[s] = p
    /\ \/ pc[s] \in {"claimed", "registered", "listed", "leavingPending"}
       \/ pc[s] \in {"opening", "entering"} /\ resume[s]

\* on_join is suppressed only while the stay it stands for is still open: no
\* on_leave of the old door ran between the claim and the open.
ResumedStayIsOpen == \A s \in Sessions :
    resume[s] => want[s] \in joined[pending[s]]

\* A session is inside one door at most, and it is the door that presence
\* and broadcast targeting take it to be in.
InsideActiveDoorOnly == \A s \in Sessions : joined[s] \subseteq {activeDoor[s]}

\* Every open stay is still going to be left: its session is registered (and,
\* if it dropped, its grace timer runs), or somebody is about to run its
\* on_leave or to resume it.
StayHasCustodian == \A p \in Sessions : joined[p] # {} =>
    \/ p \in registry /\ (dropped[p] => timer[p] \in {"armed", "fired"})
    \/ pc[p] = "leaving" \/ timer[p] = "leaving"
    \/ \E s \in Sessions : Holds(s, p)

\* The refinement mapping to the abstract specification.
ClaimedBy(p) == {s \in Sessions : pending[s] = p}

Phase(p) ==
    IF successor[p] # None THEN "resumed"
    ELSE IF leaveRuns[p] > 0 THEN "left"
    ELSE IF timer[p] = "leaving" \/ pc[p] = "leaving" THEN "ending"
    ELSE IF \E s \in ClaimedBy(p) : pc[s] = "leavingPending" THEN "ending"
    ELSE IF ClaimedBy(p) # {} THEN "claimed"
    ELSE IF p \notin registry THEN "unknown"
    ELSE IF dropped[p] THEN "grace" ELSE "present"

Heir(p) == IF ClaimedBy(p) = {} THEN None ELSE CHOOSE s \in ClaimedBy(p) : TRUE

Recovery == INSTANCE SessionRecovery WITH
    phase <- [p \in Sessions |-> Phase(p)],
    heir <- [p \in Sessions |-> Heir(p)]

\* Whatever the interleaving of timers, claims, drops and bans, the node does
\* to a session only what the recovery contract allows.
KeepsRecoveryContract == Recovery!Spec

\* closePublicKey denies the grace period: a session it marked while it was
\* connected leaves at once, whatever ends its connection.
ForcedSkipsGrace == [][\A s \in Sessions :
    forced[s] /\ ~dropped[s] /\ dropped'[s] => s \notin registry']_vars

\* A session whose connection failed does not stay in the registry for ever.
NoGhostSessions == \A s \in Sessions :
    (s \in registry /\ ~connUp[s]) ~> (s \notin registry)

\* What a session that dropped out of a door left behind is settled in the end.
DropIsSettled == \A p \in Sessions :
    (dropped[p] /\ activeDoor[p] # None) ~> (leaveRuns[p] = 1 \/ successor[p] # None)

=============================================================================
