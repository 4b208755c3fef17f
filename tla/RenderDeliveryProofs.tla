------------------------ MODULE RenderDeliveryProofs ------------------------
(***************************************************************************)
(* Proofs about RenderDelivery, for any doors, controls and number of      *)
(* other sessions, with all of its hazards allowed or not; the last two    *)
(* need workers that wait for each other.                                  *)
(***************************************************************************)
EXTENDS RenderDelivery, SequenceTheorems, TLAPS

Busy == {"updating", "opening", "entered", "viewing", "drawn", "ready", "writing"}

\* A worker that runs hooks has a door, and the session's goroutine an event
\* while it handles one.
Equipped ==
    /\ \A w \in Workers : at[w] \in Busy => work[w] # None
    /\ at[Self] = "checked" => event # None

\* writeMu is held by the worker that writes, which installed its view.
Locked ==
    /\ \A w \in Workers : at[w] = "writing" <=> writeMu = w
    /\ writeMu # None => viewPolicy = work[writeMu]

\* The render that the client will show in the end.
Latest == IF toClient = <<>> THEN screen ELSE toClient[Len(toClient)]

\* It is the newest one, unless a newer one is being written.
Newest ==
    /\ writeMu = None => Latest.rev = renderRev /\ Latest.view = viewPolicy
    /\ writeMu # None => Latest.rev < renderRev
    /\ \A i \in DOMAIN toClient : toClient[i].rev <= Latest.rev

\* What was given to a door is remembered.
Remembered == ~Forgets =>
    /\ \A i \in Ids : times[i] <= 1
    /\ \A i \in Ids : times[i] = 1 => i \in eventIDs
    /\ at[Self] = "checked" => event.id \in eventIDs /\ times[event.id] = 0

IInv == TypeOK /\ Equipped /\ Locked /\ Newest /\ RendersInOrder /\ Remembered

USE DEF stateVars, renderVars, workerVars, eventVars, wireVars, clientVars

-----------------------------------------------------------------------------
\* The session's goroutine and what it reads are as DeliveryAssumption says.
LEMMA Basics ==
    /\ Self \in Workers
    /\ None \notin Workers
    /\ None \notin Controls
    /\ None \notin Event
    /\ None \notin View
    /\ Peers \subseteq Workers
    /\ First \in Doors
    /\ \A m \in Open : m.control = None
    /\ \A m \in Event : m.control # None
BY DeliveryAssumption DEF Workers, Open, Event

\* Every variable keeps its type, whatever workers and client do.
LEMMA TypeStep ==
    ASSUME TypeOK, Equipped, [Next]_vars
    PROVE  TypeOK'
<1> USE Basics DEF TypeOK, Goto, Stages
<1>1. ASSUME NEW w \in Workers, WorkerStep(w) PROVE TypeOK'
  <2>1. CASE InvokeView(w)
    BY <2>1 DEF InvokeView, Current, View, Equipped, Busy
  <2>2. CASE DropView(w)
    BY <2>2 DEF DropView
  <2>3. CASE KeepView(w)
    BY <2>3 DEF KeepView
  <2>4. CASE BeginWrite(w)
    BY <2>4 DEF BeginWrite, Equipped, Busy
  <2>5. CASE Write(w)
    <3>1. work[w] \in View
      BY <2>5 DEF Write, Equipped, Busy
    <3>2. [door |-> activeDoor, rev |-> renderRev, view |-> work[w]] \in Render
      BY <3>1 DEF Render
    <3>3. toClient' \in Seq(Render)
      BY <2>5, <3>2 DEF Write
    <3> QED BY <2>5, <3>3 DEF Write
  <2>6. CASE EnterDoor(w)
    BY <2>6 DEF EnterDoor, Equipped, Busy, View
  <2>7. CASE JoinDoor(w)
    BY <2>7 DEF JoinDoor
  <2>8. CASE Fail(w)
    BY <2>8 DEF Fail
  <2>9. ASSUME NEW d \in Doors, Follow(w, d) PROVE TypeOK'
    BY <2>9 DEF Follow, Current, View
  <2> QED BY <1>1, <2>1, <2>2, <2>3, <2>4, <2>5, <2>6, <2>7, <2>8, <2>9 DEF WorkerStep
<1>2. ASSUME NEW p \in Peers, PeerStep(p) PROVE TypeOK'
  <2>1. CASE FindTargetDoor(p)
    BY <2>1 DEF FindTargetDoor, Current, View
  <2>2. ASSUME NEW d \in Doors, Post(p, d) PROVE TypeOK'
    <3>1. posts' \in Nat /\ version' \in [Doors -> Nat]
      BY <2>2 DEF Post
    <3>2. at' \in [Workers -> Stages]
      <4>1. CASE activeDoor = d
        BY <2>2, <4>1 DEF Post
      <4>2. CASE activeDoor # d
        BY <2>2, <4>2 DEF Post
      <4> QED BY <4>1, <4>2
    <3> QED BY <2>2, <3>1, <3>2 DEF Post
  <2> QED BY <1>2, <2>1, <2>2 DEF PeerStep
<1>3. ASSUME SelfStep PROVE TypeOK'
  <2>1. ASSUME NEW m \in inbox, ReadOpen(m) PROVE TypeOK'
    BY <2>1 DEF ReadOpen, Take, Current, View, Open, Event
  <2>2. ASSUME NEW m \in inbox, AcceptEvent(m) PROVE TypeOK'
    <3>1. m \in Event
      BY <2>2 DEF AcceptEvent
    <3>2. m.id \in Ids
      BY <3>1 DEF Event
    <3> QED BY <2>2, <3>1, <3>2 DEF AcceptEvent, Take
  <2>3. ASSUME NEW m \in inbox, RejectEvent(m) PROVE TypeOK'
    <3>1. m.id \in Ids
      BY DEF Open, Event
    <3> QED BY <2>3, <3>1 DEF RejectEvent, Take
  <2>4. CASE RefuseEvent
    BY <2>4 DEF RefuseEvent
  <2>5. CASE InvokeUpdate
    <3>1. event.id \in Ids
      BY <2>5 DEF InvokeUpdate, Equipped, Event
    <3> QED BY <2>5, <3>1 DEF InvokeUpdate, Current, View
  <2>6. CASE ApplyUpdate
    <3>1. work[Self] \in View
      BY <2>6 DEF ApplyUpdate, Equipped, Busy
    <3>2. [door |-> work[Self].door, version |-> version[work[Self].door] + 1] \in View
      BY <3>1 DEF View
    <3>3. work' \in [Workers -> View \cup {None}]
      <4>1. CASE work[Self] = Current(work[Self].door)
        BY <2>6, <3>2, <4>1 DEF ApplyUpdate
      <4>2. CASE work[Self] # Current(work[Self].door)
        BY <2>6, <4>2 DEF ApplyUpdate
      <4> QED BY <4>1, <4>2
    <3>4. version' \in [Doors -> Nat]
      BY <2>6, <3>1 DEF ApplyUpdate, View
    <3> QED BY <2>6, <3>3, <3>4 DEF ApplyUpdate
  <2>7. CASE RedrawUpdate
    BY <2>7 DEF RedrawUpdate
  <2>8. ASSUME NEW i \in Ids, ForgetId(i) PROVE TypeOK'
    BY <2>8 DEF ForgetId
  <2> QED BY <1>3, <2>1, <2>2, <2>3, <2>4, <2>5, <2>6, <2>7, <2>8 DEF SelfStep
<1>4. ASSUME ClientStep PROVE TypeOK'
  <2>1. CASE ShowRender
    BY <2>1, HeadTailProperties DEF ShowRender
  <2>2. ASSUME NEW d \in Doors, PickDoor(d) PROVE TypeOK'
    BY <2>2, DeliveryAssumption DEF PickDoor, Send, Open, Ids
  <2>3. ASSUME NEW c \in Controls, Use(c) PROVE TypeOK'
    BY <2>3, DeliveryAssumption DEF Use, Send, Event, Ids, Render
  <2> QED BY <1>4, <2>1, <2>2, <2>3 DEF ClientStep
<1>5. CASE UNCHANGED vars
  BY <1>5 DEF vars
<1> QED BY <1>1, <1>2, <1>3, <1>4, <1>5 DEF Next

-----------------------------------------------------------------------------
\* Workers always have what their stage needs.
LEMMA EquippedStep ==
    ASSUME TypeOK, Equipped, [Next]_vars
    PROVE  Equipped'
<1> USE Basics DEF TypeOK, Goto, Equipped, Busy
<1>0. \A d \in Doors : Current(d) \in View
  BY DEF Current, View
<1>1. ASSUME NEW w \in Workers, WorkerStep(w) PROVE Equipped'
  <2>1. CASE InvokeView(w)
    <3>1. work[w] \in View /\ Current(work[w].door) \in View
      BY <1>0, <2>1 DEF InvokeView, View
    <3> QED BY <2>1, <3>1 DEF InvokeView
  <2>2. CASE DropView(w)
    BY <2>2 DEF DropView
  <2>3. CASE KeepView(w)
    BY <2>3 DEF KeepView
  <2>4. CASE BeginWrite(w)
    BY <2>4 DEF BeginWrite
  <2>5. CASE Write(w)
    BY <2>5 DEF Write
  <2>6. CASE EnterDoor(w)
    BY <2>6 DEF EnterDoor
  <2>7. CASE JoinDoor(w)
    BY <2>7 DEF JoinDoor
  <2>8. CASE Fail(w)
    BY <2>8 DEF Fail
  <2>9. ASSUME NEW d \in Doors, Follow(w, d) PROVE Equipped'
    BY <1>0, <2>9 DEF Follow
  <2> QED BY <1>1, <2>1, <2>2, <2>3, <2>4, <2>5, <2>6, <2>7, <2>8, <2>9 DEF WorkerStep
<1>2. ASSUME NEW p \in Peers, PeerStep(p) PROVE Equipped'
  <2>0. p # Self
    BY DeliveryAssumption
  <2>1. CASE FindTargetDoor(p)
    BY <1>0, <2>1 DEF FindTargetDoor
  <2>2. ASSUME NEW d \in Doors, Post(p, d) PROVE Equipped'
    BY <2>0, <2>2 DEF Post
  <2> QED BY <1>2, <2>1, <2>2 DEF PeerStep
<1>3. ASSUME SelfStep PROVE Equipped'
  <2>1. ASSUME NEW m \in inbox, ReadOpen(m) PROVE Equipped'
    <3>1. Current(m.door) \in View
      BY <1>0 DEF Open, Event
    <3> QED BY <2>1, <3>1 DEF ReadOpen
  <2>2. ASSUME NEW m \in inbox, AcceptEvent(m) PROVE Equipped'
    BY <2>2 DEF AcceptEvent
  <2>3. ASSUME NEW m \in inbox, RejectEvent(m) PROVE Equipped'
    BY <2>3 DEF RejectEvent
  <2>4. CASE RefuseEvent
    BY <2>4 DEF RefuseEvent
  <2>5. CASE InvokeUpdate
    BY <1>0, <2>5 DEF InvokeUpdate
  <2>6. CASE ApplyUpdate
    <3>1. work[Self] \in View
      BY <2>6 DEF ApplyUpdate
    <3>2. [door |-> work[Self].door, version |-> version[work[Self].door] + 1] \in View
      BY <3>1 DEF View
    <3> QED BY <2>6, <3>2 DEF ApplyUpdate
  <2>7. CASE RedrawUpdate
    BY <2>7 DEF RedrawUpdate
  <2>8. ASSUME NEW i \in Ids, ForgetId(i) PROVE Equipped'
    BY <2>8 DEF ForgetId
  <2> QED BY <1>3, <2>1, <2>2, <2>3, <2>4, <2>5, <2>6, <2>7, <2>8 DEF SelfStep
<1>4. ASSUME ClientStep PROVE Equipped'
  BY <1>4 DEF ClientStep, ShowRender, PickDoor, Use, Send
<1>5. CASE UNCHANGED vars
  BY <1>5 DEF vars
<1> QED BY <1>1, <1>2, <1>3, <1>4, <1>5 DEF Next

\* The lock is held exactly while its holder writes, and the policy is that of
\* the view being written.
LEMMA LockedStep ==
    ASSUME TypeOK, Locked, [Next]_vars
    PROVE  Locked'
<1> USE Basics DEF TypeOK, Goto, Locked
<1>1. ASSUME NEW w \in Workers, WorkerStep(w) PROVE Locked'
  <2>1. CASE InvokeView(w)
    BY <2>1 DEF InvokeView
  <2>2. CASE DropView(w)
    BY <2>2 DEF DropView
  <2>3. CASE KeepView(w)
    BY <2>3 DEF KeepView
  <2>4. CASE BeginWrite(w)
    BY <2>4 DEF BeginWrite
  <2>5. CASE Write(w)
    BY <2>5 DEF Write
  <2>6. CASE EnterDoor(w)
    BY <2>6 DEF EnterDoor
  <2>7. CASE JoinDoor(w)
    BY <2>7 DEF JoinDoor
  <2>8. CASE Fail(w)
    BY <2>8 DEF Fail
  <2>9. ASSUME NEW d \in Doors, Follow(w, d) PROVE Locked'
    BY <2>9 DEF Follow
  <2> QED BY <1>1, <2>1, <2>2, <2>3, <2>4, <2>5, <2>6, <2>7, <2>8, <2>9 DEF WorkerStep
<1>2. ASSUME NEW p \in Peers, PeerStep(p) PROVE Locked'
  BY <1>2 DEF PeerStep, FindTargetDoor, Post
<1>3. ASSUME SelfStep PROVE Locked'
  <2>1. ASSUME NEW m \in inbox, ReadOpen(m) PROVE Locked'
    BY <2>1 DEF ReadOpen
  <2>2. ASSUME NEW m \in inbox, AcceptEvent(m) PROVE Locked'
    BY <2>2 DEF AcceptEvent
  <2>3. ASSUME NEW m \in inbox, RejectEvent(m) PROVE Locked'
    BY <2>3 DEF RejectEvent
  <2>4. CASE RefuseEvent
    BY <2>4 DEF RefuseEvent
  <2>5. CASE InvokeUpdate
    BY <2>5 DEF InvokeUpdate
  <2>6. CASE ApplyUpdate
    BY <2>6 DEF ApplyUpdate
  <2>7. CASE RedrawUpdate
    BY <2>7 DEF RedrawUpdate
  <2>8. ASSUME NEW i \in Ids, ForgetId(i) PROVE Locked'
    BY <2>8 DEF ForgetId
  <2> QED BY <1>3, <2>1, <2>2, <2>3, <2>4, <2>5, <2>6, <2>7, <2>8 DEF SelfStep
<1>4. ASSUME ClientStep PROVE Locked'
  BY <1>4 DEF ClientStep, ShowRender, PickDoor, Use, Send
<1>5. CASE UNCHANGED vars
  BY <1>5 DEF vars
<1> QED BY <1>1, <1>2, <1>3, <1>4, <1>5 DEF Next

-----------------------------------------------------------------------------
\* Only a write and the client move renders.
LEMMA RenderFrame ==
    ASSUME [Next]_vars,
           ~ShowRender,
           \A w \in Workers : ~BeginWrite(w) /\ ~Write(w)
    PROVE  UNCHANGED <<renderVars, toClient, screen>>
<1>1. ASSUME NEW w \in Workers, WorkerStep(w)
      PROVE UNCHANGED <<renderVars, toClient, screen>>
  BY <1>1 DEF WorkerStep, InvokeView, DropView, KeepView, EnterDoor, JoinDoor, Fail, Follow
<1>2. ASSUME NEW p \in Peers, PeerStep(p)
      PROVE UNCHANGED <<renderVars, toClient, screen>>
  BY <1>2 DEF PeerStep, FindTargetDoor, Post
<1>3. ASSUME SelfStep PROVE UNCHANGED <<renderVars, toClient, screen>>
  BY <1>3 DEF SelfStep, ReadOpen, AcceptEvent, RejectEvent, RefuseEvent, InvokeUpdate,
              ApplyUpdate, RedrawUpdate, ForgetId
<1>4. ASSUME ClientStep PROVE UNCHANGED <<renderVars, toClient, screen>>
  BY <1>4 DEF ClientStep, PickDoor, Use, Send
<1>5. CASE UNCHANGED vars
  BY <1>5 DEF vars
<1> QED BY <1>1, <1>2, <1>3, <1>4, <1>5 DEF Next

Rendering == Newest /\ RendersInOrder

\* Numbering and sending under one lock keeps the renders in order, and the
\* policy that of the newest one.
LEMMA RenderingStep ==
    ASSUME TypeOK, Equipped, Locked, Rendering, [Next]_vars
    PROVE  Rendering'
<1> USE Basics DEF TypeOK, Goto, Rendering, Newest, RendersInOrder, Latest
<1>0. /\ \A i \in DOMAIN toClient : toClient[i] \in Render
      /\ \A r \in Render : r.rev \in Nat
      /\ Len(toClient) \in Nat
      /\ DOMAIN toClient = 1..Len(toClient)
      /\ toClient # <<>> => Len(toClient) \in DOMAIN toClient
  <2>1. toClient \in Seq(Render)
    OBVIOUS
  <2>2. Len(toClient) \in Nat /\ DOMAIN toClient = 1..Len(toClient)
    BY <2>1, LenProperties
  <2>3. \A i \in DOMAIN toClient : toClient[i] \in Render
    BY <2>1, ElementOfSeq
  <2>4. toClient # <<>> => Len(toClient) # 0
    BY <2>1, EmptySeq
  <2>5. \A q \in Render : q.rev \in Nat
    BY DEF Render
  <2> QED BY <2>2, <2>3, <2>4, <2>5
<1>1. ASSUME NEW w \in Workers, BeginWrite(w) PROVE Rendering'
  BY <1>0, <1>1 DEF BeginWrite
<1>2. ASSUME NEW w \in Workers, Write(w) PROVE Rendering'
  <2> DEFINE r == [door |-> activeDoor, rev |-> renderRev, view |-> work[w]]
  <2>1. /\ writeMu = w /\ viewPolicy = work[w] /\ work[w] \in View
        /\ r \in Render /\ r.rev = renderRev /\ r.view = viewPolicy
    BY <1>2 DEF Write, Locked, Equipped, Busy, Render
  <2>2. toClient' = Append(toClient, r)
    BY <1>2 DEF Write
  <2>3. /\ Len(toClient') = Len(toClient) + 1
        /\ DOMAIN toClient' = 1..(Len(toClient) + 1)
        /\ toClient'[Len(toClient) + 1] = r
        /\ \A i \in 1..Len(toClient) : toClient'[i] = toClient[i]
        /\ toClient' # <<>>
    BY <1>0, <2>1, <2>2
  <2>4. Latest.rev < renderRev /\ \A i \in DOMAIN toClient : toClient[i].rev < renderRev
    BY <1>0, <2>1
  <2>5. screen.rev < renderRev
    BY <1>0, <2>4
  <2>6. writeMu' = None /\ renderRev' = renderRev /\ viewPolicy' = viewPolicy /\ screen' = screen
    BY <1>2 DEF Write
  <2>7. Latest' = r /\ r.rev \in Nat
    BY <1>0, <2>1, <2>3
  <2>8. \A i \in DOMAIN toClient' :
           /\ i \in DOMAIN toClient => toClient'[i] = toClient[i]
           /\ i \notin DOMAIN toClient => i = Len(toClient) + 1 /\ toClient'[i] = r
    BY <1>0, <2>3
  <2>9. Newest'
    <3>1. \A i \in DOMAIN toClient' : toClient'[i].rev <= r.rev
      BY <1>0, <2>1, <2>4, <2>8
    <3> QED BY <2>1, <2>6, <2>7, <3>1
  <2>10. RendersInOrder'
    <3>1. \A i \in DOMAIN toClient' : screen'.rev < toClient'[i].rev
      BY <2>1, <2>5, <2>6, <2>8
    <3>2. \A i, j \in DOMAIN toClient' : i < j => toClient'[i].rev < toClient'[j].rev
      BY <1>0, <2>1, <2>3, <2>4, <2>8
    <3> QED BY <3>1, <3>2
  <2> QED BY <2>9, <2>10
<1>3. CASE ShowRender
  <2>1. /\ screen' = toClient[1]
        /\ toClient' = Tail(toClient)
        /\ toClient # <<>>
        /\ UNCHANGED <<renderRev, viewPolicy, writeMu>>
    BY <1>3 DEF ShowRender
  <2>2. /\ Len(toClient') = Len(toClient) - 1
        /\ DOMAIN toClient' = 1..(Len(toClient) - 1)
        /\ \A i \in 1..(Len(toClient) - 1) : toClient'[i] = toClient[i + 1]
        /\ Len(toClient) >= 1
    BY <1>0, <2>1
  <2>3. Latest' = Latest
    <3>1. CASE toClient' = <<>>
      BY <1>0, <2>1, <2>2, <3>1
    <3>2. CASE toClient' # <<>>
      <4>1. Len(toClient) - 1 \in 1..(Len(toClient) - 1)
        BY <1>0, <2>1, <2>2, <3>2, EmptySeq
      <4> QED BY <1>0, <2>1, <2>2, <3>2, <4>1
    <3> QED BY <3>1, <3>2
  <2>4. \A i \in DOMAIN toClient' : i + 1 \in DOMAIN toClient /\ toClient'[i] = toClient[i + 1]
    BY <1>0, <2>2
  <2>5. Newest'
    <3>1. \A i \in DOMAIN toClient' : toClient'[i].rev <= Latest.rev
      BY <2>4
    <3> QED BY <2>1, <2>3, <3>1
  <2>6. RendersInOrder'
    <3>1. 1 \in DOMAIN toClient /\ \A i \in DOMAIN toClient' : i \in Nat /\ 1 < i + 1
      BY <1>0, <2>2
    <3>2. \A i \in DOMAIN toClient' : screen'.rev < toClient'[i].rev
      BY <2>1, <2>4, <3>1
    <3>3. \A i, j \in DOMAIN toClient' : i < j => i + 1 < j + 1
      BY <3>1
    <3>4. \A i, j \in DOMAIN toClient' : i < j => toClient'[i].rev < toClient'[j].rev
      BY <2>4, <3>3
    <3> QED BY <3>2, <3>4
  <2> QED BY <2>5, <2>6
<1>4. CASE UNCHANGED <<renderVars, toClient, screen>>
  BY <1>4
<1> QED BY <1>1, <1>2, <1>3, <1>4, RenderFrame

\* Only claiming, giving and forgetting an event touch what is remembered.
LEMMA RememberedStep ==
    ASSUME TypeOK, Equipped, Remembered, [Next]_vars
    PROVE  Remembered'
<1> SUFFICES ASSUME ~Forgets PROVE Remembered'
  BY DEF Remembered
<1> USE Basics DEF TypeOK, Goto, Remembered
<1>1. ASSUME NEW w \in Workers, WorkerStep(w) PROVE Remembered'
  BY <1>1 DEF WorkerStep, InvokeView, DropView, KeepView, BeginWrite, Write, EnterDoor,
              JoinDoor, Fail, Follow
<1>2. ASSUME NEW p \in Peers, PeerStep(p) PROVE Remembered'
  BY <1>2 DEF PeerStep, FindTargetDoor, Post
<1>3. ASSUME SelfStep PROVE Remembered'
  <2>1. ASSUME NEW m \in inbox, ReadOpen(m) PROVE Remembered'
    BY <2>1 DEF ReadOpen
  <2>2. ASSUME NEW m \in inbox, AcceptEvent(m) PROVE Remembered'
    <3>1. m.id \in Ids /\ m.id \notin eventIDs
      BY <2>2 DEF AcceptEvent, Open, Event
    <3>2. times[m.id] = 0
      BY <3>1
    <3> QED BY <2>2, <3>1, <3>2 DEF AcceptEvent
  <2>3. ASSUME NEW m \in inbox, RejectEvent(m) PROVE Remembered'
    BY <2>3 DEF RejectEvent
  <2>4. CASE RefuseEvent
    BY <2>4 DEF RefuseEvent
  <2>5. CASE InvokeUpdate
    <3>1. event.id \in Ids
      BY <2>5 DEF InvokeUpdate, Equipped, Event
    <3> QED BY <2>5, <3>1 DEF InvokeUpdate
  <2>6. CASE ApplyUpdate
    BY <2>6 DEF ApplyUpdate
  <2>7. CASE RedrawUpdate
    BY <2>7 DEF RedrawUpdate
  <2>8. ASSUME NEW i \in Ids, ForgetId(i) PROVE Remembered'
    BY <2>8 DEF ForgetId
  <2> QED BY <1>3, <2>1, <2>2, <2>3, <2>4, <2>5, <2>6, <2>7, <2>8 DEF SelfStep
<1>4. ASSUME ClientStep PROVE Remembered'
  BY <1>4 DEF ClientStep, ShowRender, PickDoor, Use, Send
<1>5. CASE UNCHANGED vars
  BY <1>5 DEF vars
<1> QED BY <1>1, <1>2, <1>3, <1>4, <1>5 DEF Next

-----------------------------------------------------------------------------
LEMMA Start == Init => IInv
<1> SUFFICES ASSUME Init PROVE IInv
  OBVIOUS
<1> USE Basics, DeliveryAssumption DEF Init
<1>1. TypeOK
  BY DEF TypeOK, Stages, Current, View, Render, Ids
<1>2. Equipped /\ Locked
  BY DEF Equipped, Busy, Locked
<1>3. Newest /\ RendersInOrder
  BY DEF Newest, Latest, RendersInOrder
<1>4. Remembered
  BY DEF Remembered
<1> QED BY <1>1, <1>2, <1>3, <1>4 DEF IInv

\* IInv is inductive: it holds in every behaviour.
THEOREM Inductive == Spec => []IInv
<1>1. IInv /\ [Next]_vars => IInv'
  BY TypeStep, EquippedStep, LockedStep, RenderingStep, RememberedStep DEF IInv, Rendering
<1> QED BY Start, <1>1, PTL DEF Spec

\* The fields of a session, its workers and the messages keep their types.
THEOREM TypeCorrect == Spec => []TypeOK
<1>1. IInv => TypeOK
  BY DEF IInv
<1> QED BY Inductive, <1>1, PTL

\* However many goroutines write renders for a session (writeRender), the client
\* gets them in the order of their revisions.
THEOREM InOrder == Spec => []RendersInOrder
<1>1. IInv => RendersInOrder
  BY DEF IInv
<1> QED BY Inductive, <1>1, PTL

\* What the node validates events against (validateEvent) is what the client
\* will show when all renders have arrived.
THEOREM PolicyIsShown == Spec => []ScreenMatchesPolicy
<1>1. IInv => ScreenMatchesPolicy
  BY DEF IInv, Newest, Latest, ScreenMatchesPolicy
<1> QED BY Inductive, <1>1, PTL

\* claimEventID gives no event to a door twice within its window.
THEOREM HandledOnce == Spec => []EventOnce
<1>1. IInv => EventOnce
  BY DEF IInv, Remembered, EventOnce
<1> QED BY Inductive, <1>1, PTL

-----------------------------------------------------------------------------
(* Workers that wait for each other *)

\* One worker at a time is on its way.
Serial == \A v, w \in Workers : at[v] # "idle" /\ at[w] # "idle" => v = w

\* A worker that draws, draws the door the session is in.
AtHome ==
    \A w \in Workers :
        at[w] \in {"updating", "entered", "viewing", "drawn", "ready", "writing"}
            => work[w].door = activeDoor

\* A render is labelled with the door that drew it, and so is the event it gets.
Labelled ==
    /\ screen.door = screen.view.door
    /\ \A i \in DOMAIN toClient : toClient[i].door = toClient[i].view.door
    /\ \A m \in inbox : m.control # None => m.door = m.on.door

\* The event that is handled comes from the door the session is in.
FromHome ==
    at[Self] \in {"checked", "updating"} =>
        event # None /\ event.door = activeDoor /\ event.on.door = activeDoor

HomeInv == TypeOK /\ Equipped /\ Serial /\ AtHome /\ Labelled /\ FromHome

\* The worker that moves is the only one on its way, before and after.
Only(w) ==
    /\ w \in Workers /\ at' \in [Workers -> Stages]
    /\ \A v \in Workers \ {w} : at[v] = "idle" /\ at'[v] = "idle"

LEMMA MovesAlone ==
    ASSUME TypeOK, Serial, NEW w \in Workers, NEW s \in Stages,
           at' = [at EXCEPT ![w] = s] \/ at' = at,
           at[w] # "idle" \/ Alone(w)
    PROVE  Only(w) /\ Serial'
  <1>1. \A v \in Workers \ {w} : at[v] = "idle"
    BY DEF Serial, Alone
  <1>2. at' \in [Workers -> Stages] /\ \A v \in Workers \ {w} : at'[v] = at[v]
    BY DEF TypeOK
  <1> QED BY <1>1, <1>2 DEF Only, Serial

LEMMA WorkerAlone ==
    ASSUME TypeOK, Serial, NEW w \in Workers, WorkerStep(w)
    PROVE  Only(w) /\ Serial'
  <1>1. \E s \in Stages : at' = [at EXCEPT ![w] = s] /\ at[w] # "idle"
    <2>1. CASE InvokeView(w) \/ DropView(w) \/ KeepView(w) \/ BeginWrite(w) \/ Write(w)
      BY <2>1 DEF InvokeView, DropView, KeepView, BeginWrite, Write, Goto, Stages
    <2>2. CASE EnterDoor(w) \/ JoinDoor(w) \/ Fail(w) \/ \E d \in Doors : Follow(w, d)
      BY <2>2 DEF EnterDoor, JoinDoor, Fail, Follow, Goto, Stages
    <2> QED BY <2>1, <2>2 DEF WorkerStep
  <1> QED BY <1>1, MovesAlone

LEMMA PeerAlone ==
    ASSUME ~Overlap, TypeOK, Serial, NEW p \in Peers, PeerStep(p)
    PROVE  Only(p) /\ Serial'
  <1>1. p \in Workers
    BY Basics
  <1>2. CASE FindTargetDoor(p)
    BY <1>1, <1>2, MovesAlone DEF FindTargetDoor, Goto, Stages
  <1>3. ASSUME NEW d \in Doors, Post(p, d) PROVE Only(p) /\ Serial'
    <2>1. Alone(p) /\ (at' = [at EXCEPT ![p] = "targeted"] \/ at' = at)
      BY <1>3 DEF Post, MayStart, Goto
    <2> QED BY <1>1, <2>1, MovesAlone DEF Stages
  <1> QED BY <1>2, <1>3 DEF PeerStep, PeerStep

LEMMA SelfAlone ==
    ASSUME ~Overlap, TypeOK, Serial, SelfStep, ~\E i \in Ids : ForgetId(i)
    PROVE  Only(Self) /\ Serial'
  <1>1. Self \in Workers
    BY Basics
  <1>2. \/ at[Self] # "idle" \/ Alone(Self)
    BY DEF SelfStep, ReadOpen, AcceptEvent, RejectEvent, Take, MayStart, RefuseEvent, InvokeUpdate,
           ApplyUpdate, RedrawUpdate, Goto
  <1>3. \E s \in Stages : at' = [at EXCEPT ![Self] = s] \/ at' = at
    BY DEF SelfStep, ReadOpen, AcceptEvent, RejectEvent, RefuseEvent, InvokeUpdate, ApplyUpdate,
           RedrawUpdate, Goto, Stages
  <1> QED BY <1>1, <1>2, <1>3, MovesAlone

LEMMA WorkerHome ==
    ASSUME HomeInv, NEW w \in Workers, WorkerStep(w)
    PROVE  AtHome' /\ Labelled' /\ FromHome'
  <1> USE Basics DEF TypeOK, Goto, HomeInv
  <1>1. Only(w)
    BY WorkerAlone
  <1>2. at[w] \in Busy => work[w] \in View
    BY DEF Equipped
  <1>3. FromHome'
    <2>1. at'[w] \notin {"checked", "updating"}
      BY DEF WorkerStep, InvokeView, DropView, KeepView, BeginWrite, Write, EnterDoor, JoinDoor,
             Fail, Follow
    <2> QED BY <1>1, <2>1 DEF Only, FromHome
  <1>4. Labelled'
    <2>1. CASE Write(w)
      <3> DEFINE r == [door |-> activeDoor, rev |-> renderRev, view |-> work[w]]
      <3>1. toClient' = Append(toClient, r) /\ r.door = r.view.door
        BY <2>1 DEF Write, AtHome
      <3>2. UNCHANGED <<screen, inbox>>
        BY <2>1 DEF Write
      <3> HIDE DEF r
      <3> QED BY <3>1, <3>2 DEF Labelled
    <2>2. CASE ~Write(w)
      <3>1. UNCHANGED <<screen, toClient, inbox>>
        BY <2>2 DEF WorkerStep, InvokeView, DropView, KeepView, BeginWrite, EnterDoor, JoinDoor,
                    Fail, Follow
      <3> QED BY <3>1 DEF Labelled
    <2> QED BY <2>1, <2>2
  <1>5. at'[w] \in {"updating", "entered", "viewing", "drawn", "ready", "writing"}
           => work'[w].door = activeDoor'
    <2>1. CASE InvokeView(w)
      BY <1>2, <2>1 DEF InvokeView, AtHome, Current, Busy
    <2>2. CASE KeepView(w) \/ BeginWrite(w)
      BY <2>2 DEF KeepView, BeginWrite, AtHome
    <2>3. CASE DropView(w) \/ Write(w) \/ Fail(w) \/ \E d \in Doors : Follow(w, d)
      BY <2>3 DEF DropView, Write, Fail, Follow
    <2>4. CASE EnterDoor(w)
      BY <2>4 DEF EnterDoor
    <2>5. CASE JoinDoor(w)
      BY <2>5 DEF JoinDoor, AtHome
    <2> QED BY <2>1, <2>2, <2>3, <2>4, <2>5 DEF WorkerStep
  <1>6. AtHome'
    BY <1>1, <1>5 DEF Only, AtHome
  <1> QED BY <1>3, <1>4, <1>6

LEMMA PeerHome ==
    ASSUME ~Overlap, HomeInv, NEW p \in Peers, PeerStep(p)
    PROVE  AtHome' /\ Labelled' /\ FromHome'
  <1> USE Basics DEF TypeOK, Goto, HomeInv
  <1>1. Only(p) /\ p # Self
    BY PeerAlone, DeliveryAssumption
  <1>2. UNCHANGED <<activeDoor, event, screen, toClient, inbox>>
    BY DEF PeerStep, FindTargetDoor, Post
  <1>3. at'[p] \in {"updating", "entered", "viewing", "drawn", "ready", "writing"}
           => work'[p].door = activeDoor'
    <2>1. CASE FindTargetDoor(p)
      BY <2>1 DEF FindTargetDoor, Current
    <2>2. ASSUME NEW d \in Doors, Post(p, d)
          PROVE  at'[p] \in {"idle", "targeted"}
      BY <2>2 DEF Post
    <2> QED BY <2>1, <2>2 DEF PeerStep
  <1> QED BY <1>1, <1>2, <1>3 DEF Only, AtHome, Labelled, FromHome

LEMMA SelfHome ==
    ASSUME ~Overlap, HomeInv, SelfStep, ~\E i \in Ids : ForgetId(i)
    PROVE  AtHome' /\ Labelled' /\ FromHome'
  <1> USE Basics DEF TypeOK, Goto, HomeInv
  <1>1. Only(Self)
    BY SelfAlone
  <1>2. Labelled'
    <2>1. UNCHANGED <<screen, toClient>> /\ inbox' \subseteq inbox
      BY DEF SelfStep, ReadOpen, AcceptEvent, RejectEvent, Take, RefuseEvent, InvokeUpdate,
             ApplyUpdate, RedrawUpdate
    <2> QED BY <2>1 DEF Labelled
  <1>3. /\ at'[Self] \in {"updating", "entered", "viewing", "drawn", "ready", "writing"}
             => work'[Self].door = activeDoor'
        /\ FromHome'
    <2>1. ASSUME NEW m \in inbox, ReadOpen(m)
          PROVE  at'[Self] = "opening"
      BY <2>1 DEF ReadOpen
    <2>2. ASSUME NEW m \in inbox, AcceptEvent(m)
          PROVE  at'[Self] = "checked" /\ FromHome'
      <3>1. /\ at'[Self] = "checked" /\ event' = m /\ m.control # None /\ m.door = activeDoor
            /\ activeDoor' = activeDoor
        BY <2>2 DEF AcceptEvent, FreshDoor
      <3>2. m \in Event /\ m.on.door = activeDoor
        BY <3>1 DEF Labelled
      <3> QED BY <3>1, <3>2 DEF FromHome
    <2>3. CASE (\E m \in inbox : RejectEvent(m)) \/ RefuseEvent
      BY <2>3 DEF RejectEvent, RefuseEvent, FromHome
    <2>4. CASE InvokeUpdate
      BY <2>4 DEF InvokeUpdate, Current, FromHome
    <2>5. CASE ApplyUpdate
      BY <2>5 DEF ApplyUpdate, AtHome, FromHome
    <2>6. CASE RedrawUpdate
      BY <2>6 DEF RedrawUpdate, FromHome
    <2> QED BY <2>1, <2>2, <2>3, <2>4, <2>5, <2>6 DEF SelfStep, FromHome
  <1> QED BY <1>1, <1>2, <1>3 DEF Only, AtHome

LEMMA ClientHome ==
    ASSUME HomeInv, ClientStep \/ (\E i \in Ids : ForgetId(i)) \/ UNCHANGED vars
    PROVE  Serial' /\ AtHome' /\ Labelled' /\ FromHome'
  <1> USE Basics DEF TypeOK, HomeInv
  <1>1. UNCHANGED <<at, work, activeDoor, event>>
    BY DEF ClientStep, ShowRender, PickDoor, Use, Send, ForgetId, vars
  <1>2. Serial' /\ AtHome' /\ FromHome'
    BY <1>1 DEF Serial, AtHome, FromHome
  <1>3. Labelled'
    <2>1. CASE ShowRender
      <3>1. toClient # <<>> /\ screen' = Head(toClient) /\ toClient' = Tail(toClient)
            /\ UNCHANGED inbox
        BY <2>1 DEF ShowRender
      <3>2. /\ 1 \in DOMAIN toClient /\ screen' = toClient[1]
            /\ \A i \in DOMAIN toClient' : i + 1 \in DOMAIN toClient /\ toClient'[i] = toClient[i + 1]
        BY <3>1
      <3> QED BY <3>1, <3>2 DEF Labelled
    <2>2. ASSUME NEW d \in Doors, PickDoor(d) PROVE Labelled'
      BY <2>2 DEF PickDoor, Send, Labelled
    <2>3. ASSUME NEW c \in Controls, Use(c) PROVE Labelled'
      BY <2>3 DEF Use, Send, Labelled
    <2>4. CASE (\E i \in Ids : ForgetId(i)) \/ UNCHANGED vars
      BY <2>4 DEF ForgetId, vars, Labelled
    <2> QED BY <2>1, <2>2, <2>3, <2>4 DEF ClientStep
  <1> QED BY <1>2, <1>3

LEMMA HomeStep ==
    ASSUME ~Overlap, HomeInv, [Next]_vars
    PROVE  HomeInv'
  <1>1. TypeOK' /\ Equipped'
    BY TypeStep, EquippedStep DEF HomeInv
  <1>2. ASSUME NEW w \in Workers, WorkerStep(w) PROVE HomeInv'
    BY <1>1, <1>2, WorkerAlone, WorkerHome DEF HomeInv
  <1>3. ASSUME NEW p \in Peers, PeerStep(p) PROVE HomeInv'
    BY <1>1, <1>3, PeerAlone, PeerHome DEF HomeInv
  <1>4. CASE SelfStep /\ ~\E i \in Ids : ForgetId(i)
    BY <1>1, <1>4, SelfAlone, SelfHome DEF HomeInv
  <1>5. CASE ClientStep \/ (\E i \in Ids : ForgetId(i)) \/ UNCHANGED vars
    BY <1>1, <1>5, ClientHome DEF HomeInv
  <1> QED BY <1>2, <1>3, <1>4, <1>5 DEF Next

LEMMA HomeStart == Init => HomeInv
  <1> SUFFICES ASSUME Init PROVE HomeInv
    OBVIOUS
  <1>1. TypeOK /\ Equipped
    BY Start DEF IInv
  <1>2. \A w \in Workers : at[w] = "idle"
    BY DEF Init
  <1>3. Labelled
    BY DEF Init, Labelled, Current
  <1> QED BY <1>1, <1>2, <1>3, Basics DEF HomeInv, Serial, AtHome, FromHome

\* If the goroutines that draw for a session wait for each other, an event is
\* given to the door whose view produced it, whichever hooks fail or move the
\* session, and however its messages and renders are delayed or repeated
\* (validateEventEnvelope, writeRender).
THEOREM EventsFindTheirDoor == ASSUME ~Overlap PROVE Spec => []EventsReachTheirDoor
  <1>1. HomeInv /\ [Next]_vars => HomeInv'
    BY HomeStep
  <1>2. HomeInv => EventsReachTheirDoor
    BY Basics DEF HomeInv, AtHome, FromHome, EventsReachTheirDoor
  <1> QED BY HomeStart, <1>1, <1>2, PTL DEF Spec

-----------------------------------------------------------------------------
(* What is drawn is what there is *)

\* A view that was drawn is of the active door as it is, and so is the newest
\* render when nobody draws.
Drawn ==
    /\ \A w \in Workers :
           at[w] \in {"updating", "drawn", "ready", "writing"} => work[w] = Current(activeDoor)
    /\ (\A w \in Workers : at[w] \in {"idle", "checked"}) => viewPolicy = Current(activeDoor)

UpToDate == HomeInv /\ Locked /\ Drawn

LEMMA WorkerFresh ==
    ASSUME ~Fails, UpToDate, NEW w \in Workers, WorkerStep(w)
    PROVE  Drawn'
  <1> USE Basics DEF TypeOK, Goto, HomeInv, UpToDate
  <1>1. Only(w)
    BY WorkerAlone
  <1>2. UNCHANGED version
    BY DEF WorkerStep, InvokeView, DropView, KeepView, BeginWrite, Write, EnterDoor, JoinDoor, Fail,
           Follow
  <1>3. at[w] \in Busy => work[w] \in View
    BY DEF Equipped
  <1>4. /\ at'[w] \in {"updating", "drawn", "ready", "writing"}
             => work'[w] = Current(activeDoor)'
        /\ at'[w] \in {"idle", "checked"} => viewPolicy' = Current(activeDoor)'
    <2>1. CASE InvokeView(w)
      BY <1>2, <1>3, <2>1 DEF InvokeView, AtHome, Current, Busy
    <2>2. CASE DropView(w)
      BY <2>2 DEF DropView, AtHome
    <2>3. CASE KeepView(w) \/ BeginWrite(w)
      BY <1>2, <2>3 DEF KeepView, BeginWrite, Drawn, Current
    <2>4. CASE Write(w)
      <3>1. viewPolicy = work[w] /\ work[w] = Current(activeDoor)
        BY <2>4 DEF Write, Locked, Drawn
      <3> QED BY <1>2, <2>4, <3>1 DEF Write, Current
    <2>5. CASE EnterDoor(w) \/ \E d \in Doors : Follow(w, d)
      BY <2>5 DEF EnterDoor, Follow
    <2>6. CASE JoinDoor(w)
      BY <2>6 DEF JoinDoor, AtHome
    <2>7. CASE Fail(w)
      BY <2>7 DEF Fail
    <2> QED BY <2>1, <2>2, <2>3, <2>4, <2>5, <2>6, <2>7 DEF WorkerStep
  <1> QED BY <1>1, <1>4 DEF Only, Drawn

LEMMA PeerFresh ==
    ASSUME ~Overlap, UpToDate, NEW p \in Peers, PeerStep(p)
    PROVE  Drawn'
  <1> USE Basics DEF TypeOK, Goto, HomeInv, UpToDate
  <1>1. Only(p) /\ p \in Workers
    BY PeerAlone
  <1>2. CASE FindTargetDoor(p)
    <2>1. at'[p] = "viewing"
      BY <1>2 DEF FindTargetDoor
    <2> QED BY <1>1, <2>1 DEF Only, Drawn
  <1>3. ASSUME NEW d \in Doors, Post(p, d), activeDoor = d PROVE Drawn'
    <2>1. at'[p] = "targeted"
      BY <1>3 DEF Post
    <2> QED BY <1>1, <2>1 DEF Only, Drawn
  <1>4. ASSUME NEW d \in Doors, Post(p, d), activeDoor # d PROVE Drawn'
    <2>1. UNCHANGED <<at, work, activeDoor, viewPolicy>> /\ version'[activeDoor] = version[activeDoor]
      BY <1>4 DEF Post
    <2> QED BY <2>1 DEF Drawn, Current
  <1> QED BY <1>2, <1>3, <1>4 DEF PeerStep

LEMMA SelfFresh ==
    ASSUME ~Overlap, UpToDate, SelfStep, ~\E i \in Ids : ForgetId(i)
    PROVE  Drawn'
  <1> USE Basics DEF TypeOK, Goto, HomeInv, UpToDate
  <1>1. Only(Self)
    BY SelfAlone
  <1>2. /\ at'[Self] \in {"updating", "drawn", "ready", "writing"}
             => work'[Self] = Current(activeDoor)'
        /\ at'[Self] \in {"idle", "checked"} => viewPolicy' = Current(activeDoor)'
    <2>1. ASSUME NEW m \in inbox, ReadOpen(m)
          PROVE  at'[Self] = "opening"
      BY <2>1 DEF ReadOpen
    <2>2. CASE \/ \E m \in inbox : AcceptEvent(m) \/ RejectEvent(m)
               \/ RefuseEvent
      <3>1. /\ at[Self] \in {"idle", "checked"} /\ at'[Self] \in {"idle", "checked"}
            /\ UNCHANGED <<version, activeDoor, viewPolicy>>
        BY <2>2 DEF AcceptEvent, RejectEvent, RefuseEvent
      <3>2. viewPolicy = Current(activeDoor)
        BY <1>1, <3>1 DEF Only, Drawn
      <3> QED BY <3>1, <3>2 DEF Current
    <2>3. CASE InvokeUpdate
      BY <2>3 DEF InvokeUpdate, Current
    <2>4. CASE ApplyUpdate
      <3>1. /\ at'[Self] = "drawn" /\ work[Self] = Current(activeDoor) /\ work[Self].door = activeDoor
            /\ activeDoor' = activeDoor
        BY <2>4 DEF ApplyUpdate, Drawn, Current
      <3>2. work'[Self] = [door |-> activeDoor, version |-> version[activeDoor] + 1]
        BY <2>4, <3>1 DEF ApplyUpdate
      <3>3. version'[activeDoor] = version[activeDoor] + 1
        BY <2>4, <3>1 DEF ApplyUpdate
      <3> QED BY <3>1, <3>2, <3>3 DEF Current
    <2>5. CASE RedrawUpdate
      BY <2>5 DEF RedrawUpdate
    <2> QED BY <2>1, <2>2, <2>3, <2>4, <2>5 DEF SelfStep
  <1> QED BY <1>1, <1>2 DEF Only, Drawn

LEMMA FreshStep ==
    ASSUME ~Overlap, ~Fails, UpToDate, [Next]_vars
    PROVE  UpToDate'
  <1>1. HomeInv' /\ Locked'
    BY HomeStep, LockedStep DEF UpToDate, HomeInv
  <1>2. ASSUME NEW w \in Workers, WorkerStep(w) PROVE Drawn'
    BY <1>2, WorkerFresh
  <1>3. ASSUME NEW p \in Peers, PeerStep(p) PROVE Drawn'
    BY <1>3, PeerFresh
  <1>4. ASSUME SelfStep, ~\E i \in Ids : ForgetId(i) PROVE Drawn'
    BY <1>4, SelfFresh
  <1>5. ASSUME ClientStep \/ (\E i \in Ids : ForgetId(i)) \/ UNCHANGED vars PROVE Drawn'
    <2>1. UNCHANGED <<at, work, activeDoor, version, viewPolicy>>
      BY <1>5 DEF ClientStep, ShowRender, PickDoor, Use, Send, ForgetId, vars
    <2>2. Drawn
      BY DEF UpToDate
    <2> QED BY <2>1, <2>2 DEF Drawn, Current
  <1> QED BY <1>1, <1>2, <1>3, <1>4, <1>5 DEF Next, UpToDate

\* If they do, and no hook fails, the client shows the active door as it is when
\* nothing is under way, whatever was posted to it and wherever the session went
\* meanwhile (renderDoorWithBudget, handleDoorEvent, applyDoorEffects).
THEOREM ViewsStayFresh == ASSUME ~Overlap, ~Fails PROVE Spec => []ViewsAreFresh
  <1>1. Init => UpToDate /\ IInv
    BY Start, HomeStart DEF Init, IInv, UpToDate, Drawn
  <1>2. UpToDate /\ [Next]_vars => UpToDate'
    BY FreshStep
  <1>3. UpToDate /\ ScreenMatchesPolicy => ViewsAreFresh
    <2> SUFFICES ASSUME UpToDate, ScreenMatchesPolicy, toClient = <<>>,
                        \A w \in Workers : at[w] = "idle"
                 PROVE  screen.view = Current(activeDoor)
      BY DEF ViewsAreFresh
    <2>1. viewPolicy = Current(activeDoor)
      BY DEF UpToDate, Drawn
    <2>2. writeMu = None
      BY DEF UpToDate, HomeInv, TypeOK, Locked
    <2> QED BY <2>1, <2>2 DEF ScreenMatchesPolicy
  <1> QED BY <1>1, <1>2, <1>3, PolicyIsShown, PTL DEF Spec

=============================================================================
