----------------------------- MODULE DoorCalls -----------------------------
(***************************************************************************)
(* Calls into doors.  One handler of the node at a time works on a client  *)
(* message: it opens a door or delivers an event, runs the door's hooks    *)
(* and applies the effects each hook answers with.  An effect may open     *)
(* another door or render other sessions, which runs further hooks before  *)
(* the first call returns, so the handler is a call stack.  The stack is   *)
(* modelled frame by frame; what a hook answers is chosen freely within    *)
(* what the door scripts may ask for.                                      *)
(*                                                                         *)
(* Two handlers at once are the subject of RenderDelivery and ScopedState. *)
(***************************************************************************)
EXTENDS Integers, Sequences, FiniteSets

CONSTANTS
    Sessions,        \* the sessions of the node
    Doors,           \* the door manifests that can be registered
    Lobby,           \* the door a new session opens
    Volatile,        \* doors that may be disabled, removed and put back
    None,            \* no door
    Default,         \* the built-in lobby view, shown when the first door fails
    Staff,           \* sessions with the admin or sysop role
    Granted,         \* what the manifest of a door lets its answers ask for
    Asks,            \* what the hooks of each lifecycle may ask for
    Leads,           \* <<d, e>>: a hook of d may ask to open e
    MaxTransitions,  \* transitions one message may cause in a row
    MaxActionChain,  \* host actions one event may cause
    OpenLimit,       \* the policy's opens per minute for a session, 0 for no limit
    Faults           \* subset of {"hook", "policy"}: hooks may fail or time out;
                     \* the policy may change while a handler runs

Lifecycles == {"view", "update", "on_join", "on_leave"}
Effects == {"move", "profile", "broadcast", "action", "reload", "settings"}

ASSUME DoorAssumption ==
    /\ Lobby \in Doors
    /\ Volatile \subseteq Doors \ {Lobby}
    /\ None \notin Doors
    /\ Default \notin Doors \cup {None}
    /\ Staff \subseteq Sessions
    /\ Granted \in [Doors -> SUBSET Effects]
    /\ Asks \in [Lifecycles -> SUBSET (SUBSET Effects)]
    /\ Leads \subseteq Doors \X Doors
    /\ MaxTransitions \in Nat
    /\ MaxActionChain \in Nat
    /\ OpenLimit \in [Sessions -> Nat]

VARIABLES
    online,   \* sessions in the registry
    active,   \* the active door of a session
    doors,    \* the registered manifests
    closed,   \* doors the station policy has disabled
    opens,    \* opens of a session still inside the rate window
    stack,    \* the running handler's calls, the innermost one last
    result,   \* what the call that returned last reported
    screen,   \* the view a session was sent last
    stale,    \* sessions whose last view was computed before the one it replaced
    failed,   \* sessions whose last call failed and that were sent no view since
    joined    \* doors whose on_join ran for a session and whose on_leave did not

vars == <<online, active, doors, closed, opens, stack, result, screen, stale,
          failed, joined>>

shown == <<screen, stale>>

\* An answer is the set of effects asked for and the door a transition names.
Answers(life, d) ==
    {answer \in [asks : Asks[life], to : Doors \cup {None}] :
        IF "move" \in answer.asks THEN <<d, answer.to>> \in Leads ELSE answer.to = None}

NoAnswer == [asks |-> {}, to |-> None]

Call(op, at, s, d, b) ==
    [op |-> op, at |-> at, s |-> s, d |-> d, b |-> b, answer |-> NoAnswer,
     how |-> "plain", fan |-> TRUE, todo |-> {}, n |-> 0, seen |-> {},
     late |-> FALSE]

Top == stack[Len(stack)]
Rest == SubSeq(stack, 1, Len(stack) - 1)
At(op, at) == stack # <<>> /\ Top.op = op /\ Top.at = at

Become(f) == stack' = Append(Rest, f) /\ UNCHANGED result
Enter(f, g) == stack' = Append(Append(Rest, f), g) /\ result' = "ok"
Return == /\ stack' = Rest
          /\ result' = "ok"
          /\ UNCHANGED failed
ReturnError == /\ stack' = Rest
               /\ result' = "error"
               /\ failed' = failed \cup {Top.s}

CanAccess(s, d) == d \notin closed

Outdated(f) == [f EXCEPT !.late = TRUE]

\* A render is stamped and sent; views of the same session that callers still
\* hold are older than the one that was just sent.
WriteRender(s, view) ==
    /\ screen' = [screen EXCEPT ![s] = view]
    /\ stale' = IF Top.late /\ view # Default THEN stale \cup {s} ELSE stale \ {s}
    /\ failed' = failed \ {s}
    /\ stack' = [i \in 1..(Len(stack) - 1) |->
                    IF stack[i].s = s THEN Outdated(stack[i]) ELSE stack[i]]
    /\ result' = "ok"

\* Mutant of Moved: a transition during the call goes unnoticed.
NeverMoved(s, d) == active[s] = None /\ active[s] # d

Moved(s, d) == active[s] # None /\ active[s] # d

-----------------------------------------------------------------------------
(* Hooks *)

\* What the node applies: effects the manifest grants (a profile update needs no
\* grant), administrative ones for a session with the role, actions from update.
Permitted(s, d, life, answer) ==
    /\ answer.asks \ {"profile"} \subseteq Granted[d]
    /\ answer.asks \cap {"reload", "settings"} # {} => s \in Staff
    /\ "action" \in answer.asks => life = "update"

\* A hook runs and answers; its effects are applied by the frame that is
\* entered, and the caller goes on at the frame f (in which late is reset: the
\* view the hook answered is new).
HookAnswers(s, d, life, b, f, fan) ==
    \E answer \in Answers(life, d) :
        /\ Permitted(s, d, life, answer)
        /\ Enter([f EXCEPT !.answer = IF life = "update" THEN answer ELSE NoAnswer,
                           !.late = FALSE],
                 [Call("effects", "apply", s, d, b)
                    EXCEPT !.answer = answer, !.fan = fan])
        /\ UNCHANGED failed

\* The hook fails, times out, or answers what the node refuses.
HookFails(s, d, life) ==
    \/ "hook" \in Faults
    \/ \E answer \in Answers(life, d) : ~Permitted(s, d, life, answer)

-----------------------------------------------------------------------------
(* Opening a door *)

CheckOpen ==
    LET s == Top.s  d == Top.d
        counted == Top.how = "plain" /\ OpenLimit[s] > 0
        leaves == active[s] \notin {None, d} /\ active[s] \in doors
    IN /\ At("open", "check")
       /\ opens' = IF counted /\ opens[s] < OpenLimit[s]
                   THEN [opens EXCEPT ![s] = @ + 1] ELSE opens
       /\ IF (counted /\ opens[s] >= OpenLimit[s]) \/ d \notin doors \/ ~CanAccess(s, d)
          THEN ReturnError
          ELSE /\ Become([Top EXCEPT !.at = IF leaves THEN "leave" ELSE "enter"])
               /\ UNCHANGED failed
       /\ UNCHANGED <<online, active, doors, closed, shown, joined>>

\* Mutant of LeaveOld: the active door is replaced before its on_leave.
EnterThenLeave ==
    LET s == Top.s  old == Top.d
    IN /\ At("open", "leave")
       /\ \/ HookAnswers(s, old, "on_leave", Top.b, [Top EXCEPT !.at = "enter"], TRUE)
          \/ /\ HookFails(s, old, "on_leave")
             /\ Become([Top EXCEPT !.at = "enter"])
             /\ UNCHANGED failed
       /\ joined' = [joined EXCEPT ![s] = @ \ {old}]
       /\ UNCHANGED <<online, active, doors, closed, opens, shown>>

\* on_leave of the door that was active; errors of the hook and of its
\* effects are ignored.
LeaveOld ==
    LET s == Top.s  old == active[Top.s]
    IN /\ At("open", "leave")
       /\ \/ HookAnswers(s, old, "on_leave", Top.b, [Top EXCEPT !.at = "enter"], TRUE)
          \/ /\ HookFails(s, old, "on_leave")
             /\ Become([Top EXCEPT !.at = "enter"])
             /\ UNCHANGED failed
       /\ joined' = [joined EXCEPT ![s] = @ \ {old}]
       /\ UNCHANGED <<online, active, doors, closed, opens, shown>>

EnterDoor ==
    LET s == Top.s  d == Top.d
    IN /\ At("open", "enter")
       /\ active' = [active EXCEPT ![s] = d]
       /\ joined' = [joined EXCEPT ![s] = @ \cup {d}]
       /\ \/ /\ Top.how = "resume"
             /\ Become(Call("render", "view", s, d, Top.b))
             /\ UNCHANGED failed
          \/ /\ Top.how # "resume"
             /\ HookAnswers(s, d, "on_join", Top.b, [Top EXCEPT !.at = "joined"], TRUE)
          \/ /\ Top.how # "resume"
             /\ HookFails(s, d, "on_join")
             /\ ReturnError
       /\ UNCHANGED <<online, doors, closed, opens, shown>>

Joined ==
    /\ At("open", "joined")
    /\ IF result = "error" THEN ReturnError
       ELSE IF Moved(Top.s, Top.d) THEN Return
       ELSE Become(Call("render", "view", Top.s, Top.d, Top.b)) /\ UNCHANGED failed
    /\ UNCHANGED <<online, active, doors, closed, opens, shown, joined>>

-----------------------------------------------------------------------------
(* Rendering a door *)

\* Mutant of InvokeView: broadcasts of a view are fanned out.
FanOutViews ==
    /\ At("render", "view")
    /\ \/ HookAnswers(Top.s, Top.d, "view", Top.b, [Top EXCEPT !.at = "viewed"], TRUE)
       \/ HookFails(Top.s, Top.d, "view") /\ ReturnError
    /\ UNCHANGED <<online, active, doors, closed, opens, shown, joined>>

InvokeView ==
    /\ At("render", "view")
    /\ \/ HookAnswers(Top.s, Top.d, "view", Top.b, [Top EXCEPT !.at = "viewed"], FALSE)
       \/ HookFails(Top.s, Top.d, "view") /\ ReturnError
    /\ UNCHANGED <<online, active, doors, closed, opens, shown, joined>>

Viewed ==
    /\ At("render", "viewed")
    /\ IF result = "error" THEN ReturnError /\ UNCHANGED shown
       ELSE IF Moved(Top.s, Top.d) THEN Return /\ UNCHANGED shown
       ELSE WriteRender(Top.s, Top.d)
    /\ UNCHANGED <<online, active, doors, closed, opens, joined>>
-----------------------------------------------------------------------------
(* Applying the effects of an answer *)

\* Profile and administrative effects, then the transition: the first one that
\* names another door is followed and ends the work on this answer.
ApplyEffects ==
    LET s == Top.s  answer == Top.answer
    IN /\ At("effects", "apply")
       /\ doors' \in IF "reload" \in answer.asks
                     THEN {Doors \ gone : gone \in SUBSET Volatile} ELSE {doors}
       /\ joined' = [t \in Sessions |-> joined[t] \cap doors']
       /\ IF "move" \in answer.asks /\ answer.to # active[s]
          THEN IF Top.b <= 0
               THEN ReturnError
               ELSE /\ Become(Call("open", "check", s, answer.to, Top.b - 1))
                    /\ UNCHANGED failed
          ELSE /\ Become([Top EXCEPT !.at = "profile",
                                     !.todo = IF "profile" \in answer.asks
                                              THEN online \ {s} ELSE {}])
               /\ UNCHANGED failed
       /\ UNCHANGED <<online, active, closed, opens, shown>>

\* Mutant of RenderPeers: a broadcast renders its source as well.
RenderRoom ==
    /\ At("effects", "profile") \/ At("effects", "room")
    /\ \/ result = "error" /\ ReturnError
       \/ /\ result # "error"
          /\ \E t \in Top.todo :
                LET rest == [Top EXCEPT !.todo = @ \ {t}]
                IN IF active[t] \in doors
                   THEN Enter(rest, Call("render", "view", t, active[t], MaxTransitions))
                   ELSE Become(rest)
          /\ UNCHANGED failed
       \/ /\ result # "error" /\ Top.todo = {}
          /\ IF Top.at = "profile" /\ Top.fan /\ "broadcast" \in Top.answer.asks
             THEN /\ Become([Top EXCEPT !.at = "room",
                               !.todo = {t \in online : active[t] = Top.d}])
                  /\ UNCHANGED failed
             ELSE Return
    /\ UNCHANGED <<online, active, doors, closed, opens, shown, joined>>

\* The other sessions are shown a profile that changed, and then the sessions
\* in the room a broadcast. The map of sessions is walked in no particular
\* order; each is rendered in the door it is in by now, and skipped when that
\* door is gone; the first render that fails ends the work.
RenderPeers ==
    /\ At("effects", "profile") \/ At("effects", "room")
    /\ \/ result = "error" /\ ReturnError
       \/ /\ result # "error"
          /\ \E t \in Top.todo :
                LET rest == [Top EXCEPT !.todo = @ \ {t}]
                IN IF active[t] \in doors
                   THEN Enter(rest, Call("render", "view", t, active[t], MaxTransitions))
                   ELSE Become(rest)
          /\ UNCHANGED failed
       \/ /\ result # "error" /\ Top.todo = {}
          /\ IF Top.at = "profile" /\ Top.fan /\ "broadcast" \in Top.answer.asks
             THEN /\ Become([Top EXCEPT !.at = "room",
                               !.todo = {t \in online \ {Top.s} : active[t] = Top.d}])
                  /\ UNCHANGED failed
             ELSE Return
    /\ UNCHANGED <<online, active, doors, closed, opens, shown, joined>>

-----------------------------------------------------------------------------
(* Delivering an event *)

\* update is called with the client's event, and again with the result of
\* each host action, whatever that result is.
InvokeUpdate ==
    /\ At("event", "update")
    /\ \/ HookAnswers(Top.s, Top.d, "update", MaxTransitions,
                      [Top EXCEPT !.at = "updated"], TRUE)
       \/ HookFails(Top.s, Top.d, "update") /\ ReturnError
    /\ UNCHANGED <<online, active, doors, closed, opens, shown, joined>>

\* Mutant of Updated: the actions of an event are not counted.
ChainForever ==
    LET s == Top.s  d == Top.d  asks == Top.answer.asks
        seen == Top.seen \cup (asks \cap {"reload", "settings", "profile"})
    IN /\ At("event", "updated")
       /\ IF result # "error" /\ Moved(s, d)
          THEN Return /\ UNCHANGED shown
          ELSE IF \/ result = "error"
                  \/ "reload" \in asks /\ d \notin doors
                  \/ "action" \in asks /\ Top.n >= MaxActionChain
          THEN ReturnError /\ UNCHANGED shown
          ELSE IF "action" \in asks
          THEN /\ Become([Top EXCEPT !.at = "update", !.n = @, !.seen = seen,
                                !.answer = NoAnswer])
               /\ UNCHANGED <<failed, shown>>
          ELSE IF seen = {}
          THEN WriteRender(s, d)
          ELSE /\ Become([Top EXCEPT !.at = "settings", !.answer = NoAnswer,
                            !.todo = IF "settings" \in seen /\ "reload" \notin seen
                                     THEN online \ {s} ELSE {}])
               /\ UNCHANGED <<failed, shown>>
       /\ UNCHANGED <<online, active, doors, closed, opens, joined>>

Updated ==
    LET s == Top.s  d == Top.d  asks == Top.answer.asks
        seen == Top.seen \cup (asks \cap {"reload", "settings", "profile"})
    IN /\ At("event", "updated")
       /\ IF result # "error" /\ Moved(s, d)
          THEN Return /\ UNCHANGED shown
          ELSE IF \/ result = "error"
                  \/ "reload" \in asks /\ d \notin doors
                  \/ "action" \in asks /\ Top.n >= MaxActionChain
          THEN ReturnError /\ UNCHANGED shown
          ELSE IF "action" \in asks
          THEN /\ Become([Top EXCEPT !.at = "update", !.n = @ + 1, !.seen = seen,
                                !.answer = NoAnswer])
               /\ UNCHANGED <<failed, shown>>
          ELSE IF seen = {}
          THEN WriteRender(s, d)
          ELSE /\ Become([Top EXCEPT !.at = "settings", !.answer = NoAnswer,
                            !.todo = IF "settings" \in seen /\ "reload" \notin seen
                                     THEN online \ {s} ELSE {}])
               /\ UNCHANGED <<failed, shown>>
       /\ UNCHANGED <<online, active, doors, closed, opens, joined>>

\* Settings, profile or manifests changed: the others see the settings, and the
\* source gets a view computed after the change instead of the one it has.
RenderChanged ==
    /\ At("event", "settings")
    /\ \/ result = "error" /\ ReturnError
       \/ /\ result # "error"
          /\ \E t \in Top.todo :
                LET rest == [Top EXCEPT !.todo = @ \ {t}]
                IN IF active[t] \in doors
                   THEN Enter(rest, Call("render", "view", t, active[t], MaxTransitions))
                   ELSE Become(rest)
          /\ UNCHANGED failed
       \/ /\ result # "error" /\ Top.todo = {}
          /\ Become(Call("render", "view", Top.s, Top.d, MaxTransitions))
          /\ UNCHANGED failed
    /\ UNCHANGED <<online, active, doors, closed, opens, shown, joined>>

-----------------------------------------------------------------------------
(* Messages *)

Start(f) == stack = <<>> /\ stack' = <<f>> /\ result' = "ok"

\* A login: the lobby, or without on_join the door of a dropped session that is
\* taken over.
Connect(s) ==
    /\ s \notin online
    /\ online' = online \cup {s}
    /\ \E d \in doors, how \in {"initial", "resume"} :
         /\ IF how = "initial" THEN d = Lobby ELSE CanAccess(s, d)
         /\ Start([Call("connect", "opening", s, d, 0) EXCEPT !.how = how])
         /\ joined' = [joined EXCEPT ![s] = IF how = "resume" THEN {d} ELSE {}]
    /\ UNCHANGED <<active, doors, closed, opens, shown, failed>>

OpenInitial ==
    /\ At("connect", "opening")
    /\ Enter([Top EXCEPT !.at = "opened"],
             [Call("open", "check", Top.s, Top.d, MaxTransitions)
                EXCEPT !.how = Top.how])
    /\ UNCHANGED <<online, active, doors, closed, opens, shown, failed, joined>>

\* A first door that cannot be shown is replaced by the built-in lobby view.
InitialOpened ==
    /\ At("connect", "opened")
    /\ IF result = "error" THEN WriteRender(Top.s, Default)
                           ELSE Return /\ UNCHANGED shown
    /\ UNCHANGED <<online, active, doors, closed, opens, joined>>

OpenDoor(s, d) ==
    /\ s \in online
    /\ Start(Call("open", "check", s, d, MaxTransitions))
    /\ UNCHANGED <<online, active, doors, closed, opens, shown, failed, joined>>

\* An event that is refused (a door that is closed by now, a stale revision, a
\* muted user, the event rate limit) changes nothing and is answered by an error.
Event(s) ==
    /\ s \in online /\ active[s] \in doors /\ CanAccess(s, active[s])
    /\ Start(Call("event", "update", s, active[s], MaxTransitions))
    /\ UNCHANGED <<online, active, doors, closed, opens, shown, failed, joined>>

\* The stay of a session that is gone ends: its door's on_leave, with effects.
Leave(s) ==
    /\ s \in online
    /\ online' = online \ {s}
    /\ LET found == active[s] \in doors
       IN Start(Call("leave", IF found THEN "leave" ELSE "left", s,
                     IF found THEN active[s] ELSE Lobby, MaxTransitions))
    /\ UNCHANGED <<active, doors, closed, opens, shown, failed, joined>>

LeaveLast ==
    /\ At("leave", "leave")
    /\ \/ HookAnswers(Top.s, Top.d, "on_leave", MaxTransitions,
                      [Top EXCEPT !.at = "left"], TRUE)
       \/ /\ HookFails(Top.s, Top.d, "on_leave")
          /\ Become([Top EXCEPT !.at = "left"])
          /\ UNCHANGED failed
    /\ joined' = [joined EXCEPT ![Top.s] = @ \ {Top.d}]
    /\ UNCHANGED <<online, active, doors, closed, opens, shown>>

\* Nothing refers to the session any more.
LeftLast ==
    /\ At("leave", "left")
    /\ stack' = Rest
    /\ result' = "ok"
    /\ active' = [active EXCEPT ![Top.s] = None]
    /\ screen' = [screen EXCEPT ![Top.s] = None]
    /\ failed' = failed \ {Top.s}
    /\ stale' = stale \ {Top.s}
    /\ UNCHANGED <<online, doors, closed, opens, joined>>

\* A minute passes since the oldest open of a session.
OpenExpires(s) ==
    /\ opens[s] > 0
    /\ opens' = [opens EXCEPT ![s] = @ - 1]
    /\ UNCHANGED <<online, active, doors, closed, stack, result, shown, failed, joined>>

\* Another handler's administrator enables or disables a door.
SetDoorEnabled(d) ==
    /\ stack # <<>> => "policy" \in Faults
    /\ closed' = IF d \in closed THEN closed \ {d} ELSE closed \cup {d}
    /\ UNCHANGED <<online, active, doors, opens, stack, result, shown, failed, joined>>

-----------------------------------------------------------------------------
Init ==
    /\ online = {}
    /\ active = [s \in Sessions |-> None]
    /\ doors = Doors
    /\ closed = {}
    /\ opens = [s \in Sessions |-> 0]
    /\ stack = <<>>
    /\ result = "ok"
    /\ screen = [s \in Sessions |-> None]
    /\ stale = {}
    /\ failed = {}
    /\ joined = [s \in Sessions |-> {}]

Step ==
    \/ CheckOpen \/ LeaveOld \/ EnterDoor \/ Joined
    \/ InvokeView \/ Viewed
    \/ ApplyEffects \/ RenderPeers
    \/ InvokeUpdate \/ Updated \/ RenderChanged
    \/ OpenInitial \/ InitialOpened \/ LeaveLast \/ LeftLast

Message ==
    \E s \in Sessions :
        Connect(s) \/ Event(s) \/ Leave(s) \/ \E d \in Doors : OpenDoor(s, d)

Environment ==
    \/ \E s \in Sessions : OpenExpires(s)
    \/ \E d \in Volatile : SetDoorEnabled(d)

Next == Step \/ Message \/ Environment

Spec == Init /\ [][Next]_vars

\* A hook answers or is cut off after its timeout, so a handler always goes on.
FairSpec == Spec /\ WF_vars(Step)
-----------------------------------------------------------------------------
(* What doors may be relied on to do, for the properties that need it *)

SomeViewMoves == \E asks \in Asks["view"] : "move" \in asks

\* No hook renders a session in answer to a render: no view changes a profile and,
\* if a view may lead to another door, no on_join or on_leave broadcasts or
\* changes a profile. (What a view broadcasts is not sent.)
ViewsRenderNobody ==
    /\ \A asks \in Asks["view"] : "profile" \notin asks
    /\ SomeViewMoves =>
         \A life \in {"on_join", "on_leave"} : \A asks \in Asks[life] :
            asks \cap {"profile", "broadcast"} = {}

\* Views show, and that is all: they neither lead to another door nor change a
\* profile. (What they broadcast is not sent.)
ViewsOnlyShow == \A asks \in Asks["view"] : asks \cap {"move", "profile"} = {}

\* Doors lead on and never back.
LeadsOn(rank) ==
    rank \in [Doors -> Nat] /\ \A d, e \in Doors : <<d, e>> \in Leads => rank[d] < rank[e]

\* No view and no on_leave leads to another door or reloads the doors.
LeavingOnlyLeaves ==
    \A life \in {"view", "on_leave"} : \A asks \in Asks[life] : asks \cap {"move", "reload"} = {}

-----------------------------------------------------------------------------
(* Properties *)

\* An answer that asks for a transition names a door.
ValidAnswers ==
    {answer \in [asks : SUBSET Effects, to : Doors \cup {None}] :
        "move" \in answer.asks => answer.to \in Doors}

Frames ==
    [op : {"open", "render", "effects", "event", "connect", "leave"},
     at : {"check", "leave", "enter", "joined", "view", "viewed", "apply", "profile",
           "room", "update", "updated", "settings", "opening", "opened", "left"},
     s : Sessions, d : Doors, b : 0..MaxTransitions,
     answer : ValidAnswers,
     how : {"plain", "initial", "resume"}, fan : BOOLEAN, todo : SUBSET Sessions,
     n : 0..MaxActionChain, seen : SUBSET Effects, late : BOOLEAN]

\* Types. In particular no call is ever made with a transition budget outside
\* 0..MaxTransitions, and no event causes more than MaxActionChain actions.
TypeOK ==
    /\ online \subseteq Sessions
    /\ active \in [Sessions -> Doors \cup {None}]
    /\ doors \subseteq Doors /\ Lobby \in doors
    /\ closed \subseteq Doors
    /\ opens \in [Sessions -> Nat] /\ \A s \in Sessions : opens[s] <= OpenLimit[s]
    /\ stack \in Seq(Frames)
    /\ result \in {"ok", "error"}
    /\ screen \in [Sessions -> Doors \cup {None, Default}]
    /\ stale \subseteq Sessions /\ failed \subseteq Sessions
    /\ joined \in [Sessions -> SUBSET Doors]

Idle == stack = <<>>

\* A session that was told of no error is shown the door it is in, whatever
\* doors its own call and the calls of others took it through.
ScreenFollowsDoor ==
    Idle => \A s \in online :
                s \in failed \/ screen[s] \in {active[s], Default}

\* The view a session is left with was computed after every view it was sent
\* before: a render of a nested call is never overwritten by an older one.
LatestViewShown == Idle => stale \cap online = {}

\* Between messages a door believes a session inside (it was told of the join
\* and of no leave) only if the session is in it: who moves on, or goes away,
\* is announced as leaving by every door it joined.
HooksPaired ==
    Idle => \A s \in Sessions :
                joined[s] \subseteq IF s \in online THEN {active[s]} ELSE {}

\* A session is rendered again inside its own render only with a smaller
\* transition budget: hooks that render sessions cannot call each other for ever.
NoRenderLoop ==
    \A i, j \in DOMAIN stack :
        /\ i < j
        /\ stack[i].op = "render" /\ stack[j].op = "render"
        /\ stack[i].s = stack[j].s /\ stack[i].d = stack[j].d
        => stack[j].b < stack[i].b

\* Every message is answered: the calls it causes come to an end.
EveryCallReturns == stack # <<>> ~> Idle
=============================================================================
