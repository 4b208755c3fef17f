--------------------------- MODULE RenderDelivery ---------------------------
(***************************************************************************)
(* Renders and events of one session: writeRender and the event checks of  *)
(* internal/node/session.go, handleDoorEvent and openDoorWithOptions of    *)
(* doors.go, the broadcasts of broadcast.go, and the client that answers.  *)
(*                                                                         *)
(* The goroutine that serves the session opens doors and handles events    *)
(* for it.  When another session posts something to a door, that session's *)
(* goroutine draws the door again for everybody inside it, so several      *)
(* goroutines ("workers") invoke hooks and write renders for one session.  *)
(* Only the write itself is under a lock.  The client sends each message   *)
(* from a goroutine of its own, hence in any order.                        *)
(*                                                                         *)
(* A view is reduced to the door that drew it and the version of the       *)
(* door's state it shows; a control to its identity, which is all that     *)
(* validateEventAgainstPolicy looks at.  Access checks are left out: they  *)
(* turn a message away like the errors that Fails stands for.              *)
(***************************************************************************)
EXTENDS Naturals, Sequences

CONSTANTS
    Doors,          \* door identifiers
    First,          \* the door the session is in when the model starts
    Controls,       \* what a client can send events from
    RawControls,    \* those whose events are key, focus or blur events
    Offers(_),      \* the controls in a view
    Self,           \* the goroutine of the session
    Peers,          \* goroutines of other sessions
    None,           \* no door, control, event or worker
    Overlap,        \* workers need not wait for each other
    Transitions,    \* hooks may answer with a transition
    Fails,          \* hooks and their effects may fail
    Repeats,        \* an event may arrive again
    Forgets,        \* ... after sessionEventIDWindow
    MaxMessages,    \* bound on what the client sends
    MaxPosts        \* bound on what other sessions post

Workers == {Self} \cup Peers
Ids == 1..MaxMessages
View == [door : Doors, version : Nat]
Render == [door : Doors, rev : Nat, view : View]
Open == [id : Ids, door : Doors, control : {None}, rev : {0}, on : {None}]
Event == [id : Ids, door : Doors, control : Controls, rev : Nat, on : View]

ASSUME DeliveryAssumption ==
    /\ First \in Doors
    /\ RawControls \subseteq Controls
    /\ Self \notin Peers
    /\ None \notin Doors \cup Controls \cup Workers \cup Event \cup View
    /\ {Overlap, Transitions, Fails, Repeats, Forgets} \subseteq BOOLEAN
    /\ MaxMessages \in Nat
    /\ MaxPosts \in Nat

VARIABLES
    version,     \* the version of each door's shared state
    posts,       \* how often other sessions posted
    activeDoor,  \* sessionState.activeDoor
    renderRev,   \* sessionState.renderRev
    viewPolicy,  \* sessionState.viewPolicy: the view it was built from
    eventIDs,    \* sessionState.eventIDs
    writeMu,     \* the worker that holds sessionState.writeMu
    at,          \* where each worker is
    work,        \* the door whose hook it runs or that it opens, with the
                 \* version the hook was given or draws
    event,       \* the event the session's goroutine handles
    toClient,    \* renders on their way
    screen,      \* the render that the client shows
    inbox,       \* messages on their way to the node
    sent,        \* how many messages the client has sent
    times        \* history: how often each event was given to a door

stateVars == <<version, posts>>
renderVars == <<renderRev, viewPolicy, writeMu>>
workerVars == <<at, work>>
eventVars == <<eventIDs, event, times>>
wireVars == <<toClient, inbox>>
clientVars == <<screen, sent>>
vars == <<stateVars, activeDoor, renderVars, workerVars, eventVars, wireVars, clientVars>>

Stages == {"idle", "checked", "updating", "opening", "entered", "targeted",
           "viewing", "drawn", "ready", "writing"}

TypeOK ==
    /\ version \in [Doors -> Nat]
    /\ posts \in Nat
    /\ activeDoor \in Doors
    /\ renderRev \in Nat
    /\ viewPolicy \in View
    /\ eventIDs \subseteq Ids
    /\ writeMu \in Workers \cup {None}
    /\ at \in [Workers -> Stages]
    /\ work \in [Workers -> View \cup {None}]
    /\ event \in Event \cup {None}
    /\ toClient \in Seq(Render)
    /\ screen \in Render
    /\ inbox \subseteq Open \cup Event
    /\ sent \in 0..MaxMessages
    /\ times \in [Ids -> Nat]

-----------------------------------------------------------------------------
Goto(w, from, to) ==
    /\ at[w] = from
    /\ at' = [at EXCEPT ![w] = to]

Alone(w) == \A v \in Workers \ {w} : at[v] = "idle"
MayStart(w) == Overlap \/ Alone(w)

Current(d) == [door |-> d, version |-> version[d]]

\* submitLikeEvent.
SubmitLike(c) == c \notin RawControls

-----------------------------------------------------------------------------
\* Another session's event is handled by door d, which changes its state and
\* broadcasts to its room; targets finds this session if it is there.
Post(p, d) ==
    /\ posts < MaxPosts
    /\ MayStart(p)
    /\ posts' = posts + 1
    /\ version' = [version EXCEPT ![d] = @ + 1]
    /\ IF activeDoor = d THEN Goto(p, "idle", "targeted") ELSE at[p] = "idle" /\ UNCHANGED at
    /\ UNCHANGED <<activeDoor, renderVars, work, eventVars, wireVars, clientVars>>

\* applyDoorEffects reads the target's active door once more.
FindTargetDoor(p) ==
    /\ Goto(p, "targeted", "viewing")
    /\ work' = [work EXCEPT ![p] = Current(activeDoor)]
    /\ UNCHANGED <<stateVars, activeDoor, renderVars, eventVars, wireVars, clientVars>>

\* renderDoorWithBudget: LoadScopedState, then the view hook.
InvokeView(w) ==
    /\ Goto(w, "viewing", "drawn")
    /\ work' = [work EXCEPT ![w] = Current(@.door)]
    /\ UNCHANGED <<stateVars, activeDoor, renderVars, eventVars, wireVars, clientVars>>

\* Mutant of DropView: the session is left without a door.
LoseDoor(w) ==
    /\ Goto(w, "drawn", "idle")
    /\ activeDoor # work[w].door
    /\ activeDoor' = None
    /\ work' = [work EXCEPT ![w] = None]
    /\ UNCHANGED <<stateVars, renderVars, eventVars, wireVars, clientVars>>

\* What is drawn is dropped if the session has moved to another door ...
DropView(w) ==
    /\ Goto(w, "drawn", "idle")
    /\ activeDoor # work[w].door
    /\ work' = [work EXCEPT ![w] = None]
    /\ UNCHANGED <<stateVars, activeDoor, renderVars, eventVars, wireVars, clientVars>>

\* ... and otherwise goes to writeRender.
KeepView(w) ==
    /\ Goto(w, "drawn", "ready")
    /\ activeDoor = work[w].door
    /\ UNCHANGED <<stateVars, activeDoor, renderVars, work, eventVars, wireVars,
                   clientVars>>

\* Mutants of BeginWrite: the lock is not taken, and the policy not installed.
NumberUnlocked(w) ==
    /\ Goto(w, "ready", "writing")
    /\ renderRev' = renderRev + 1
    /\ viewPolicy' = work[w]
    /\ UNCHANGED <<stateVars, activeDoor, writeMu, work, eventVars, wireVars, clientVars>>

NumberOnly(w) ==
    /\ Goto(w, "ready", "writing")
    /\ writeMu = None
    /\ writeMu' = w
    /\ renderRev' = renderRev + 1
    /\ UNCHANGED <<stateVars, activeDoor, viewPolicy, work, eventVars, wireVars, clientVars>>

\* writeRender takes the lock, numbers the render and installs its policy ...
BeginWrite(w) ==
    /\ Goto(w, "ready", "writing")
    /\ writeMu = None
    /\ writeMu' = w
    /\ renderRev' = renderRev + 1
    /\ viewPolicy' = work[w]
    /\ UNCHANGED <<stateVars, activeDoor, work, eventVars, wireVars, clientVars>>

\* ... labels it with the door that is active by then, and sends it.
Write(w) ==
    /\ Goto(w, "writing", "idle")
    /\ writeMu' = None
    /\ toClient' = Append(toClient,
                    [door |-> activeDoor, rev |-> renderRev, view |-> work[w]])
    /\ work' = [work EXCEPT ![w] = None]
    /\ UNCHANGED <<stateVars, activeDoor, renderRev, viewPolicy, eventVars, inbox,
                   clientVars>>

-----------------------------------------------------------------------------
\* A message of the client reaches the session's goroutine.  A repeated one
\* is still to come again.
Take(m) ==
    /\ m \in inbox
    /\ MayStart(Self)
    /\ \/ inbox' = inbox \ {m}
       \/ Repeats /\ m.control # None /\ UNCHANGED inbox

\* openDoorWithOptions, once the door is known to be accessible.
ReadOpen(m) ==
    /\ Goto(Self, "idle", "opening")
    /\ Take(m)
    /\ m.control = None
    /\ work' = [work EXCEPT ![Self] = Current(m.door)]
    /\ UNCHANGED <<stateVars, activeDoor, renderVars, eventVars, toClient, clientVars>>

\* on_leave of the old door has run: updateDoor.
EnterDoor(w) ==
    /\ Goto(w, "opening", "entered")
    /\ activeDoor' = work[w].door
    /\ UNCHANGED <<stateVars, renderVars, work, eventVars, wireVars, clientVars>>

\* on_join has run; the door is drawn unless the session moved on ...
JoinDoor(w) ==
    /\ at[w] = "entered"
    /\ IF activeDoor = work[w].door
       THEN at' = [at EXCEPT ![w] = "viewing"] /\ UNCHANGED work
       ELSE at' = [at EXCEPT ![w] = "idle"] /\ work' = [work EXCEPT ![w] = None]
    /\ UNCHANGED <<stateVars, activeDoor, renderVars, eventVars, wireVars, clientVars>>

\* ... and on_join, view or update may answer with a transition to another
\* door, which the worker that ran the hook opens for the session.
Follow(w, d) ==
    /\ Transitions
    /\ at[w] \in {"entered", "drawn"}
    /\ d # activeDoor
    /\ at' = [at EXCEPT ![w] = "opening"]
    /\ work' = [work EXCEPT ![w] = Current(d)]
    /\ UNCHANGED <<stateVars, activeDoor, renderVars, eventVars, wireVars, clientVars>>

\* A hook, or one of its effects, fails.
Fail(w) ==
    /\ Fails
    /\ at[w] \in {"updating", "opening", "entered", "viewing", "drawn"}
    /\ at' = [at EXCEPT ![w] = "idle"]
    /\ work' = [work EXCEPT ![w] = None]
    /\ event' = IF w = Self THEN None ELSE event
    /\ UNCHANGED <<stateVars, activeDoor, renderVars, eventIDs, times, wireVars,
                   clientVars>>

-----------------------------------------------------------------------------
\* validateEventEnvelope: the door must be the active one, then the id must be
\* new, then the revision of a submit-like event must be the newest.
FreshDoor(m) == m.door = activeDoor
FreshRevision(m) == SubmitLike(m.control) => m.rev = renderRev

\* Mutants of AcceptEvent, which forget one of the three each.
AcceptAnyDoor(m) ==
    /\ Goto(Self, "idle", "checked")
    /\ Take(m)
    /\ m.control # None
    /\ m.id \notin eventIDs
    /\ FreshRevision(m)
    /\ eventIDs' = eventIDs \cup {m.id}
    /\ event' = m
    /\ UNCHANGED <<stateVars, activeDoor, renderVars, work, times, toClient, clientVars>>

AcceptAnyId(m) ==
    /\ Goto(Self, "idle", "checked")
    /\ Take(m)
    /\ m.control # None
    /\ FreshDoor(m) /\ FreshRevision(m)
    /\ eventIDs' = eventIDs \cup {m.id}
    /\ event' = m
    /\ UNCHANGED <<stateVars, activeDoor, renderVars, work, times, toClient, clientVars>>

AcceptEvent(m) ==
    /\ Goto(Self, "idle", "checked")
    /\ Take(m)
    /\ m.control # None
    /\ FreshDoor(m) /\ m.id \notin eventIDs /\ FreshRevision(m)
    /\ eventIDs' = eventIDs \cup {m.id}
    /\ event' = m
    /\ UNCHANGED <<stateVars, activeDoor, renderVars, work, times, toClient, clientVars>>

\* An event is turned away; its id is remembered if the check got that far.
RejectEvent(m) ==
    /\ at[Self] = "idle"
    /\ Take(m)
    /\ m.control # None
    /\ ~(FreshDoor(m) /\ m.id \notin eventIDs /\ FreshRevision(m))
    /\ eventIDs' = IF FreshDoor(m) THEN eventIDs \cup {m.id} ELSE eventIDs
    /\ UNCHANGED <<stateVars, activeDoor, renderVars, workerVars, event, times, toClient,
                   clientVars>>

\* handleDoorEvent takes the active door and checks the event against the
\* policy of the newest render ...
RefuseEvent ==
    /\ Goto(Self, "checked", "idle")
    /\ event.control \notin Offers(viewPolicy)
    /\ event' = None
    /\ UNCHANGED <<stateVars, activeDoor, renderVars, work, eventIDs, times, wireVars,
                   clientVars>>

\* ... LoadScopedState gives the update hook the state of the moment ...
InvokeUpdate ==
    /\ Goto(Self, "checked", "updating")
    /\ event.control \in Offers(viewPolicy)
    /\ work' = [work EXCEPT ![Self] = Current(activeDoor)]
    /\ times' = [times EXCEPT ![event.id] = @ + 1]
    /\ UNCHANGED <<stateVars, activeDoor, renderVars, eventIDs, event, wireVars,
                   clientVars>>

\* Mutant of ApplyUpdate: the view is drawn before the operations.
DrawFirst ==
    /\ Goto(Self, "updating", "drawn")
    /\ version' = [version EXCEPT ![work[Self].door] = @ + 1]
    /\ event' = None
    /\ UNCHANGED <<posts, activeDoor, renderVars, work, eventIDs, times, wireVars, clientVars>>

\* ... and its operations are applied.  Its view shows what it changed, if
\* nobody else changed the state meanwhile.
ApplyUpdate ==
    /\ Goto(Self, "updating", "drawn")
    /\ LET d == work[Self].door IN
          /\ version' = [version EXCEPT ![d] = @ + 1]
          /\ IF work[Self] = Current(d)
             THEN work' = [work EXCEPT ![Self] = [door |-> d, version |-> version[d] + 1]]
             ELSE UNCHANGED work
    /\ event' = None
    /\ UNCHANGED <<posts, activeDoor, renderVars, eventIDs, times, wireVars, clientVars>>

\* After an update that changes a profile, door settings or manifests the view
\* is drawn anew.
RedrawUpdate ==
    /\ Goto(Self, "drawn", "viewing")
    /\ activeDoor = work[Self].door
    /\ UNCHANGED <<stateVars, activeDoor, renderVars, work, eventVars, wireVars,
                   clientVars>>

\* claimEventID forgets an id after sessionEventIDWindow (here, no more often
\* than it takes to give an event to a door a second time).
ForgetId(i) ==
    /\ Forgets
    /\ times[i] < 2
    /\ i \in eventIDs
    /\ eventIDs' = eventIDs \ {i}
    /\ UNCHANGED <<stateVars, activeDoor, renderVars, workerVars, event, times, wireVars,
                   clientVars>>

-----------------------------------------------------------------------------
\* The client shows the next render.
ShowRender ==
    /\ toClient # <<>>
    /\ screen' = Head(toClient)
    /\ toClient' = Tail(toClient)
    /\ UNCHANGED <<stateVars, activeDoor, renderVars, workerVars, eventVars, inbox, sent>>

Send(m) ==
    /\ sent < MaxMessages
    /\ sent' = sent + 1
    /\ inbox' = inbox \cup {m}
    /\ UNCHANGED <<stateVars, activeDoor, renderVars, workerVars, eventVars, toClient,
                   screen>>

\* The user picks a door from the list, or uses a control of the view.
PickDoor(d) ==
    Send([id |-> sent + 1, door |-> d, control |-> None, rev |-> 0, on |-> None])

Use(c) ==
    /\ c \in Offers(screen.view)
    /\ Send([id |-> sent + 1, door |-> screen.door, control |-> c, rev |-> screen.rev,
             on |-> screen.view])

-----------------------------------------------------------------------------
Init ==
    /\ version = [d \in Doors |-> 0]
    /\ posts = 0
    /\ activeDoor = First
    /\ renderRev = 1
    /\ viewPolicy = Current(First)
    /\ eventIDs = {}
    /\ writeMu = None
    /\ at = [w \in Workers |-> "idle"]
    /\ work = [w \in Workers |-> None]
    /\ event = None
    /\ toClient = <<>>
    /\ screen = [door |-> First, rev |-> 1, view |-> Current(First)]
    /\ inbox = {}
    /\ sent = 0
    /\ times = [i \in Ids |-> 0]

WorkerStep(w) ==
    \/ InvokeView(w) \/ DropView(w) \/ KeepView(w) \/ BeginWrite(w) \/ Write(w)
    \/ EnterDoor(w) \/ JoinDoor(w) \/ Fail(w)
    \/ \E d \in Doors : Follow(w, d)

PeerStep(p) ==
    \/ FindTargetDoor(p)
    \/ \E d \in Doors : Post(p, d)

SelfStep ==
    \/ \E m \in inbox : ReadOpen(m) \/ AcceptEvent(m) \/ RejectEvent(m)
    \/ RefuseEvent \/ InvokeUpdate \/ ApplyUpdate \/ RedrawUpdate
    \/ \E i \in Ids : ForgetId(i)

ClientStep ==
    \/ ShowRender
    \/ \E d \in Doors : PickDoor(d)
    \/ \E c \in Controls : Use(c)

Next ==
    \/ \E w \in Workers : WorkerStep(w)
    \/ \E p \in Peers : PeerStep(p)
    \/ SelfStep
    \/ ClientStep

Spec == Init /\ [][Next]_vars

-----------------------------------------------------------------------------
\* Although several goroutines render for a session, its renders reach the
\* client in the order of their revisions, each revision once: no render that
\* is still on its way is older than one before it or than the screen.
RendersInOrder ==
    /\ \A i \in DOMAIN toClient : screen.rev < toClient[i].rev
    /\ \A i, j \in DOMAIN toClient : i < j => toClient[i].rev < toClient[j].rev

\* When nothing is on its way, the node checks events against the view that
\* the client shows.
ScreenMatchesPolicy ==
    writeMu = None /\ toClient = <<>> => screen.view = viewPolicy /\ screen.rev = renderRev

\* While ids are remembered, no event is given to a door twice.
EventOnce == ~Forgets => \A i \in Ids : times[i] <= 1

\* An event is given to the door whose view produced it.
EventsReachTheirDoor == at[Self] = "updating" => event.on.door = work[Self].door

\* When nothing is under way, the client shows the active door as it is.
ViewsAreFresh ==
    /\ \A w \in Workers : at[w] = "idle"
    /\ toClient = <<>>
    => screen.view = Current(activeDoor)

=============================================================================
