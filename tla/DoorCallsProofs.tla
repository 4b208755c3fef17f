-------------------------- MODULE DoorCallsProofs --------------------------
(***************************************************************************)
(* Proofs about DoorCalls, for any sessions, doors and answers of hooks.   *)
(*                                                                         *)
(* TypeOK is not inductive: a handler that leaves a door runs the on_leave *)
(* of the session's active door, and there must be one.  Only the          *)
(* innermost call is ever about to leave, because a call that waits for    *)
(* another is past its own on_leave.                                       *)
(*                                                                         *)
(* The other four invariants speak of the calls that wait under the one    *)
(* that runs.  Each is proved from an invariant of the whole stack, and    *)
(* its step from what a step does to the stack (the first part below):     *)
(* the running call returns to the call under it, goes on, or goes on and  *)
(* calls another.  ScreenFollowsDoor holds for all constants; the others   *)
(* for doors of which a stated hypothesis on Asks, Leads and Faults holds. *)
(***************************************************************************)
EXTENDS DoorCalls, TLAPS, SequenceTheorems

Leaving ==
    /\ \A i \in 1..(Len(stack) - 1) : stack[i].at # "leave"
    /\ stack # <<>> /\ Top.op = "open" /\ Top.at = "leave" => active[Top.s] # None

DInv == TypeOK /\ Leaving

StackInv == stack \in Seq(Frames) /\ Leaving

-----------------------------------------------------------------------------
(* Frames *)

LEMMA FullBudget == MaxTransitions \in 0..MaxTransitions
  BY DoorAssumption

LEMMA CallTyped ==
    ASSUME NEW op \in {"open", "render", "effects", "event", "connect", "leave"},
           NEW at \in {"check", "leave", "enter", "joined", "view", "viewed", "apply", "profile",
                       "room", "update", "updated", "settings", "opening", "opened", "left"},
           NEW s \in Sessions, NEW d \in Doors, NEW b \in 0..MaxTransitions
    PROVE  Call(op, at, s, d, b) \in Frames
  BY DoorAssumption DEF Call, Frames, ValidAnswers, NoAnswer

\* A call that goes on at another point, with an answer and sessions to render.
LEMMA NoAnswerValid == NoAnswer \in ValidAnswers
  BY DEF NoAnswer, ValidAnswers

LEMMA FrameFields ==
    ASSUME NEW f \in Frames
    PROVE  /\ f.s \in Sessions /\ f.d \in Doors /\ f.b \in 0..MaxTransitions
           /\ f.answer \in ValidAnswers /\ f.todo \subseteq Sessions
           /\ f.n \in 0..MaxActionChain /\ f.seen \subseteq Effects
  BY DEF Frames

LEMMA AtTyped ==
    ASSUME NEW f \in Frames,
           NEW at \in {"check", "leave", "enter", "joined", "view", "viewed", "apply", "profile",
                       "room", "update", "updated", "settings", "opening", "opened", "left"}
    PROVE  \E g \in Frames : g = [f EXCEPT !.at = at] /\ g.at = at /\ g.s = f.s
  <1>1. [f EXCEPT !.at = at] \in Frames
    BY DEF Frames
  <1>2. [f EXCEPT !.at = at].at = at /\ [f EXCEPT !.at = at].s = f.s
    BY DEF Frames
  <1> QED BY <1>1, <1>2

LEMMA TodoTyped ==
    ASSUME NEW f \in Frames, NEW todo \in SUBSET Sessions
    PROVE  [f EXCEPT !.todo = todo] \in Frames
  BY DEF Frames

LEMMA AtTodoTyped ==
    ASSUME NEW f \in Frames, NEW at \in {"profile", "room"}, NEW todo \in SUBSET Sessions
    PROVE  \E g \in Frames : g = [f EXCEPT !.at = at, !.todo = todo] /\ g.at = at
  <1>1. [f EXCEPT !.at = at, !.todo = todo] \in Frames
    BY DEF Frames
  <1>2. [f EXCEPT !.at = at, !.todo = todo].at = at
    BY DEF Frames
  <1> QED BY <1>1, <1>2

LEMMA HowTyped ==
    ASSUME NEW f \in Frames, NEW how \in {"plain", "initial", "resume"}
    PROVE  \E g \in Frames : g = [f EXCEPT !.how = how] /\ g.at = f.at /\ g.op = f.op
  <1>1. [f EXCEPT !.how = how] \in Frames
    BY DEF Frames
  <1>2. [f EXCEPT !.how = how].at = f.at /\ [f EXCEPT !.how = how].op = f.op
    BY DEF Frames
  <1> QED BY <1>1, <1>2

LEMMA AgainTyped ==
    ASSUME NEW f \in Frames, f.n + 1 \in 0..MaxActionChain, NEW seen, seen \subseteq Effects
    PROVE  \E g \in Frames :
             /\ g = [f EXCEPT !.at = "update", !.n = @ + 1, !.seen = seen, !.answer = NoAnswer]
             /\ g.at = "update"
  <1> DEFINE g == [f EXCEPT !.at = "update", !.n = @ + 1, !.seen = seen, !.answer = NoAnswer]
  <1>1. g \in Frames
    BY NoAnswerValid DEF Frames
  <1>2. g.at = "update"
    BY DEF Frames
  <1> QED BY <1>1, <1>2

LEMMA SettledTyped ==
    ASSUME NEW f \in Frames, NEW todo \in SUBSET Sessions
    PROVE  \E g \in Frames :
             /\ g = [f EXCEPT !.at = "settings", !.answer = NoAnswer, !.todo = todo]
             /\ g.at = "settings"
  <1> DEFINE g == [f EXCEPT !.at = "settings", !.answer = NoAnswer, !.todo = todo]
  <1>1. g \in Frames
    BY NoAnswerValid DEF Frames
  <1>2. g.at = "settings"
    BY DEF Frames
  <1> QED BY <1>1, <1>2

LEMMA AnsweredTyped ==
    ASSUME NEW f \in Frames, NEW answer \in ValidAnswers
    PROVE  /\ [f EXCEPT !.answer = answer, !.late = FALSE] \in Frames
           /\ [f EXCEPT !.answer = answer, !.late = FALSE].at = f.at
  BY DEF Frames

LEMMA EffectsTyped ==
    ASSUME NEW f \in Frames, NEW answer \in ValidAnswers, NEW fan \in BOOLEAN
    PROVE  /\ [f EXCEPT !.answer = answer, !.fan = fan] \in Frames
           /\ [f EXCEPT !.answer = answer, !.fan = fan].at = f.at
  BY DEF Frames

LEMMA OutdatedTyped ==
    ASSUME NEW f \in Frames
    PROVE  Outdated(f) \in Frames /\ Outdated(f).at = f.at
  BY DEF Frames, Outdated

LEMMA AnswersValid ==
    ASSUME NEW life \in Lifecycles, NEW d \in Doors, NEW answer \in Answers(life, d)
    PROVE  answer \in ValidAnswers
  <1>1. answer.asks \in SUBSET Effects
    BY DoorAssumption DEF Answers
  <1>2. "move" \in answer.asks => answer.to \in Doors
    BY DoorAssumption DEF Answers
  <1> QED BY <1>1, <1>2 DEF Answers, ValidAnswers

-----------------------------------------------------------------------------
(* The stack *)

LEMMA StackParts ==
    ASSUME StackInv, stack # <<>>
    PROVE  /\ Len(stack) \in Nat \ {0}
           /\ Top \in Frames
           /\ Rest \in Seq(Frames) /\ Len(Rest) = Len(stack) - 1
           /\ \A i \in 1..(Len(stack) - 1) : Rest[i] = stack[i] /\ Rest[i].at # "leave"
  <1>1. Len(stack) \in Nat \ {0}
    BY EmptySeq DEF StackInv
  <1>2. Rest = [i \in 1..(Len(stack) - 1) |-> stack[i]]
    BY <1>1 DEF Rest, StackInv
  <1>3. Rest \in Seq(Frames) /\ Len(Rest) = Len(stack) - 1
    BY <1>1, <1>2 DEF StackInv
  <1> QED BY <1>1, <1>2, <1>3 DEF StackInv, Top, Leaving

LEMMA BecomeKeeps ==
    ASSUME StackInv, stack # <<>>, NEW f \in Frames, Become(f),
           f.op = "open" /\ f.at = "leave" => active'[f.s] # None
    PROVE  StackInv'
  BY StackParts DEF Become, StackInv, Leaving, Top

LEMMA EnterKeeps ==
    ASSUME StackInv, stack # <<>>, NEW f \in Frames, NEW g \in Frames, Enter(f, g),
           f.at # "leave", g.at # "leave"
    PROVE  StackInv'
  BY StackParts DEF Enter, StackInv, Leaving, Top

LEMMA ReturnKeeps ==
    ASSUME StackInv, stack # <<>>, stack' = Rest
    PROVE  StackInv'
  <1>1. Rest # <<>> => Len(Rest) \in 1..(Len(stack) - 1)
    BY StackParts, EmptySeq
  <1> QED BY <1>1, StackParts DEF StackInv, Leaving, Top

LEMMA WriteKeeps ==
    ASSUME StackInv, stack # <<>>, NEW s \in Sessions, NEW view, WriteRender(s, view)
    PROVE  StackInv'
  <1>1. /\ DOMAIN stack' = 1..(Len(stack) - 1)
        /\ stack' = [i \in 1..(Len(stack) - 1) |->
                        IF stack[i].s = s THEN Outdated(stack[i]) ELSE stack[i]]
    BY DEF WriteRender
  <1>2. \A i \in 1..(Len(stack) - 1) : stack[i] \in Frames
    BY StackParts DEF StackInv
  <1>3. \A i \in 1..(Len(stack) - 1) : stack'[i] \in Frames /\ stack'[i].at = stack[i].at
    BY <1>1, <1>2, OutdatedTyped
  <1>4. stack' \in Seq(Frames) /\ Len(stack') = Len(stack) - 1
    BY <1>1, <1>3, StackParts
  <1>5. \A i \in 1..Len(stack') : stack'[i].at # "leave"
    BY <1>3, <1>4 DEF StackInv, Leaving
  <1>6. stack' # <<>> => Len(stack') \in 1..Len(stack')
    BY <1>4, EmptySeq, StackParts
  <1> QED BY <1>4, <1>5, <1>6, StackParts DEF StackInv, Leaving, Top
-----------------------------------------------------------------------------
(* Actions *)

LEMMA InitHolds == Init => DInv
  BY DoorAssumption, EmptySeq DEF Init, DInv, TypeOK, Leaving

\* What a step may do to everything but the stack.
LEMMA RestOfState ==
    ASSUME StackInv', online' \subseteq Sessions, active' \in [Sessions -> Doors \cup {None}],
           doors' \subseteq Doors, Lobby \in doors', closed' \subseteq Doors,
           \A s \in Sessions : opens'[s] <= OpenLimit[s], opens' \in [Sessions -> Nat],
           result' \in {"ok", "error"}, screen' \in [Sessions -> Doors \cup {None, Default}],
           stale' \subseteq Sessions, failed' \subseteq Sessions,
           joined' \in [Sessions -> SUBSET Doors]
    PROVE  DInv'
  BY DEF DInv, TypeOK, StackInv

\* A hook that answers, and the frame of its caller.
LEMMA HookKeeps ==
    ASSUME DInv, stack # <<>>, NEW s \in Sessions, NEW d \in Doors, NEW life \in Lifecycles,
           NEW b \in 0..MaxTransitions, NEW f \in Frames, NEW fan \in BOOLEAN,
           f.at # "leave", HookAnswers(s, d, life, b, f, fan)
    PROVE  StackInv' /\ result' \in {"ok", "error"} /\ failed' = failed
  <1>1. PICK answer \in Answers(life, d) :
        /\ Enter([f EXCEPT !.answer = IF life = "update" THEN answer ELSE NoAnswer,
                           !.late = FALSE],
                 [Call("effects", "apply", s, d, b) EXCEPT !.answer = answer, !.fan = fan])
        /\ UNCHANGED failed
    BY DEF HookAnswers
  <1>2. answer \in ValidAnswers
    BY AnswersValid
  <1>3. [Call("effects", "apply", s, d, b) EXCEPT !.answer = answer, !.fan = fan] \in Frames
        /\ [Call("effects", "apply", s, d, b) EXCEPT !.answer = answer, !.fan = fan].at = "apply"
    <2>1. Call("effects", "apply", s, d, b) \in Frames /\ Call("effects", "apply", s, d, b).at = "apply"
      BY CallTyped DEF Call
    <2> QED BY <1>2, <2>1, EffectsTyped
  <1>4. (IF life = "update" THEN answer ELSE NoAnswer) \in ValidAnswers
    BY <1>2, NoAnswerValid
  <1>5. PICK g \in Frames : /\ g.at = f.at
                           /\ g = [f EXCEPT !.answer = IF life = "update" THEN answer ELSE NoAnswer,
                                            !.late = FALSE]
    BY <1>4, AnsweredTyped
  <1> QED BY <1>1, <1>3, <1>5, EnterKeeps DEF DInv, TypeOK, StackInv, Enter

LEMMA TopOf ==
    ASSUME DInv, stack # <<>>
    PROVE  /\ StackInv /\ Top \in Frames
           /\ Top.s \in Sessions /\ Top.d \in Doors /\ Top.b \in 0..MaxTransitions
           /\ Top.answer \in ValidAnswers /\ Top.todo \subseteq Sessions
           /\ Top.n \in 0..MaxActionChain /\ Top.seen \subseteq Effects
  <1>1. StackInv
    BY DEF DInv, TypeOK, StackInv
  <1> QED BY <1>1, StackParts, FrameFields

\* A call that goes on, or returns.
LEMMA GoesOn ==
    ASSUME DInv, stack # <<>>, NEW f \in Frames, Become(f),
           f.op = "open" /\ f.at = "leave" => active'[f.s] # None
    PROVE  StackInv' /\ result' \in {"ok", "error"}
  BY TopOf, BecomeKeeps DEF Become, DInv, TypeOK

LEMMA GoesBack ==
    ASSUME DInv, stack # <<>>, Return \/ ReturnError
    PROVE  StackInv' /\ result' \in {"ok", "error"} /\ failed' \subseteq Sessions
  BY TopOf, ReturnKeeps DEF Return, ReturnError, DInv, TypeOK

LEMMA Renders ==
    ASSUME DInv, stack # <<>>, NEW s \in Sessions, NEW view \in Doors \cup {Default},
           WriteRender(s, view)
    PROVE  /\ StackInv' /\ result' \in {"ok", "error"} /\ failed' \subseteq Sessions
           /\ screen' \in [Sessions -> Doors \cup {None, Default}] /\ stale' \subseteq Sessions
  BY TopOf, WriteKeeps DEF WriteRender, DInv, TypeOK
-----------------------------------------------------------------------------
(* Opening a door *)

LEMMA CheckOpenKeeps ==
    ASSUME DInv, CheckOpen PROVE DInv'
  <1>1. stack # <<>> /\ Top.op = "open"
    BY DEF CheckOpen, At
  <1>2. UNCHANGED <<online, active, doors, closed, shown, joined>>
    BY DEF CheckOpen
  <1>3. opens' \in [Sessions -> Nat] /\ \A s \in Sessions : opens'[s] <= OpenLimit[s]
    <2>1. CASE opens[Top.s] < OpenLimit[Top.s] /\ opens' = [opens EXCEPT ![Top.s] = @ + 1]
      <3>1. /\ Top.s \in Sessions /\ opens \in [Sessions -> Nat] /\ OpenLimit \in [Sessions -> Nat]
            /\ \A s \in Sessions : opens[s] <= OpenLimit[s]
        BY <1>1, TopOf, DoorAssumption DEF DInv, TypeOK
      <3>2. opens' \in [Sessions -> Nat] /\ opens'[Top.s] <= OpenLimit[Top.s]
        BY <2>1, <3>1
      <3>3. \A s \in Sessions \ {Top.s} : opens'[s] = opens[s]
        BY <2>1, <3>1
      <3> QED BY <3>1, <3>2, <3>3
    <2>2. CASE opens' = opens
      BY <2>2 DEF DInv, TypeOK
    <2> QED BY <2>1, <2>2 DEF CheckOpen
  <1>4. CASE ReturnError
    BY <1>1, <1>2, <1>3, <1>4, GoesBack, RestOfState DEF DInv, TypeOK, shown
  <1>5. CASE ~ReturnError
    <2>1. PICK at \in {"leave", "enter"} :
            /\ at = "leave" => active[Top.s] # None
            /\ Become([Top EXCEPT !.at = at]) /\ UNCHANGED failed
      BY <1>5 DEF CheckOpen
    <2>2. PICK f \in Frames : f = [Top EXCEPT !.at = at] /\ f.at = at /\ f.s = Top.s
      <3>1. CASE at = "leave"
        BY <1>1, <3>1, TopOf, AtTyped
      <3>2. CASE at = "enter"
        BY <1>1, <3>2, TopOf, AtTyped
      <3> QED BY <2>1, <3>1, <3>2
    <2> QED BY <1>1, <1>2, <1>3, <2>1, <2>2, GoesOn, RestOfState DEF DInv, TypeOK, shown
  <1> QED BY <1>4, <1>5

LEMMA LeaveOldKeeps ==
    ASSUME DInv, LeaveOld PROVE DInv'
  <1>1. stack # <<>> /\ Top.op = "open" /\ Top.at = "leave"
    BY DEF LeaveOld, At
  <1>2. UNCHANGED <<online, active, doors, closed, opens, shown>>
    BY DEF LeaveOld
  <1>3. active[Top.s] \in Doors
    BY <1>1, TopOf DEF DInv, TypeOK, Leaving
  <1>4. joined' \in [Sessions -> SUBSET Doors]
    BY <1>1, TopOf DEF LeaveOld, DInv, TypeOK
  <1>5. PICK f \in Frames : f = [Top EXCEPT !.at = "enter"] /\ f.at = "enter"
    BY <1>1, TopOf, AtTyped
  <1>6. CASE HookAnswers(Top.s, active[Top.s], "on_leave", Top.b, f, TRUE)
    BY <1>1, <1>2, <1>3, <1>4, <1>5, <1>6, TopOf, HookKeeps, RestOfState
       DEF DInv, TypeOK, shown, Lifecycles
  <1>7. CASE Become(f) /\ UNCHANGED failed
    BY <1>1, <1>2, <1>4, <1>5, <1>7, GoesOn, RestOfState DEF DInv, TypeOK, shown
  <1> QED BY <1>5, <1>6, <1>7 DEF LeaveOld

LEMMA EnterDoorKeeps ==
    ASSUME DInv, EnterDoor PROVE DInv'
  <1>1. stack # <<>>
    BY DEF EnterDoor, At
  <1>2. UNCHANGED <<online, doors, closed, opens, shown>>
    BY DEF EnterDoor
  <1>3. active' \in [Sessions -> Doors \cup {None}] /\ joined' \in [Sessions -> SUBSET Doors]
    BY <1>1, TopOf DEF EnterDoor, DInv, TypeOK
  <1>4. CASE Become(Call("render", "view", Top.s, Top.d, Top.b)) /\ UNCHANGED failed
    <2>1. PICK f \in Frames : f = Call("render", "view", Top.s, Top.d, Top.b) /\ f.op = "render"
      BY <1>1, TopOf, CallTyped DEF Call
    <2> QED BY <1>1, <1>2, <1>3, <1>4, <2>1, GoesOn, RestOfState DEF DInv, TypeOK, shown
  <1>5. CASE HookAnswers(Top.s, Top.d, "on_join", Top.b, [Top EXCEPT !.at = "joined"], TRUE)
    <2>1. PICK f \in Frames : f = [Top EXCEPT !.at = "joined"] /\ f.at = "joined"
      BY <1>1, TopOf, AtTyped
    <2> QED BY <1>1, <1>2, <1>3, <1>5, <2>1, TopOf, HookKeeps, RestOfState
            DEF DInv, TypeOK, shown, Lifecycles
  <1>6. CASE ReturnError
    BY <1>1, <1>2, <1>3, <1>6, GoesBack, RestOfState DEF DInv, TypeOK, shown
  <1> QED BY <1>4, <1>5, <1>6 DEF EnterDoor

LEMMA JoinedKeeps ==
    ASSUME DInv, Joined PROVE DInv'
  <1>1. stack # <<>> /\ UNCHANGED <<online, active, doors, closed, opens, shown, joined>>
    BY DEF Joined, At
  <1>2. CASE Return \/ ReturnError
    BY <1>1, <1>2, GoesBack, RestOfState DEF DInv, TypeOK, shown
  <1>3. CASE Become(Call("render", "view", Top.s, Top.d, Top.b)) /\ UNCHANGED failed
    <2>1. PICK f \in Frames : f = Call("render", "view", Top.s, Top.d, Top.b) /\ f.op = "render"
      BY <1>1, TopOf, CallTyped DEF Call
    <2> QED BY <1>1, <1>3, <2>1, GoesOn, RestOfState DEF DInv, TypeOK, shown
  <1> QED BY <1>2, <1>3 DEF Joined

-----------------------------------------------------------------------------
(* Rendering *)

LEMMA InvokeViewKeeps ==
    ASSUME DInv, InvokeView PROVE DInv'
  <1>1. stack # <<>> /\ UNCHANGED <<online, active, doors, closed, opens, shown, joined>>
    BY DEF InvokeView, At
  <1>2. CASE HookAnswers(Top.s, Top.d, "view", Top.b, [Top EXCEPT !.at = "viewed"], FALSE)
    <2>1. PICK f \in Frames : f = [Top EXCEPT !.at = "viewed"] /\ f.at = "viewed"
      BY <1>1, TopOf, AtTyped
    <2> QED BY <1>1, <1>2, <2>1, TopOf, HookKeeps, RestOfState
            DEF DInv, TypeOK, shown, Lifecycles
  <1>3. CASE ReturnError
    BY <1>1, <1>3, GoesBack, RestOfState DEF DInv, TypeOK, shown
  <1> QED BY <1>2, <1>3 DEF InvokeView

LEMMA ViewedKeeps ==
    ASSUME DInv, Viewed PROVE DInv'
  <1>1. stack # <<>> /\ UNCHANGED <<online, active, doors, closed, opens, joined>>
    BY DEF Viewed, At
  <1>2. CASE (Return \/ ReturnError) /\ UNCHANGED shown
    BY <1>1, <1>2, GoesBack, RestOfState DEF DInv, TypeOK, shown
  <1>3. CASE WriteRender(Top.s, Top.d)
    BY <1>1, <1>3, TopOf, Renders, RestOfState DEF DInv, TypeOK
  <1> QED BY <1>2, <1>3 DEF Viewed

\* The walk over sessions to render: one more, or one that is skipped.
LEMMA WalkKeeps ==
    ASSUME DInv, stack # <<>>, Top.at # "leave",
           UNCHANGED <<online, active, doors, closed, opens, shown, joined>>, UNCHANGED failed,
           NEW t \in Top.todo,
           LET rest == [Top EXCEPT !.todo = @ \ {t}]
           IN IF active[t] \in doors
              THEN Enter(rest, Call("render", "view", t, active[t], MaxTransitions))
              ELSE Become(rest)
    PROVE  DInv'
  <1>1. PICK rest \in Frames : rest = [Top EXCEPT !.todo = Top.todo \ {t}] /\ rest.at = Top.at
    BY TopOf, TodoTyped DEF Frames
  <1>2. CASE active[t] \in doors
    <2>1. t \in Sessions /\ active[t] \in Doors /\ MaxTransitions \in 0..MaxTransitions
      BY <1>2, TopOf, DoorAssumption DEF DInv, TypeOK
    <2>2. PICK g \in Frames : g = Call("render", "view", t, active[t], MaxTransitions) /\ g.at = "view"
      BY <2>1, CallTyped DEF Call
    <2>3. Enter(rest, g)
      BY <1>1, <1>2, <2>2
    <2>4. StackInv' /\ result' = "ok"
      BY <1>1, <2>2, <2>3, TopOf, EnterKeeps DEF Enter
    <2> QED BY <2>4, RestOfState DEF DInv, TypeOK, shown
  <1>3. CASE active[t] \notin doors
    <2>1. Become(rest)
      BY <1>1, <1>3
    <2>2. StackInv' /\ result' \in {"ok", "error"}
      BY <1>1, <2>1, GoesOn
    <2> QED BY <2>2, RestOfState DEF DInv, TypeOK, shown
  <1> QED BY <1>2, <1>3
-----------------------------------------------------------------------------
(* The effects of an answer *)

LEMMA ApplyEffectsKeeps ==
    ASSUME DInv, ApplyEffects PROVE DInv'
  <1>1. stack # <<>> /\ UNCHANGED <<online, active, closed, opens, shown>>
    BY DEF ApplyEffects, At
  <1>2. doors' \subseteq Doors /\ Lobby \in doors'
    BY DoorAssumption DEF ApplyEffects, DInv, TypeOK
  <1>3. joined' \in [Sessions -> SUBSET Doors]
    BY DEF ApplyEffects, DInv, TypeOK
  <1>4. CASE ReturnError
    BY <1>1, <1>2, <1>3, <1>4, GoesBack, RestOfState DEF DInv, TypeOK, shown
  <1>5. CASE /\ "move" \in Top.answer.asks /\ Top.b > 0 /\ UNCHANGED failed
             /\ Become(Call("open", "check", Top.s, Top.answer.to, Top.b - 1))
    <2>1. Top.answer.to \in Doors
      BY <1>1, <1>5, TopOf DEF ValidAnswers
    <2>2. Top.b - 1 \in 0..MaxTransitions
      BY <1>1, <1>5, TopOf, DoorAssumption
    <2>3. PICK f \in Frames : /\ f = Call("open", "check", Top.s, Top.answer.to, Top.b - 1)
                             /\ f.at = "check"
      BY <1>1, <2>1, <2>2, TopOf, CallTyped DEF Call
    <2> QED BY <1>1, <1>2, <1>3, <1>5, <2>3, GoesOn, RestOfState DEF DInv, TypeOK, shown
  <1>6. CASE /\ UNCHANGED failed
             /\ Become([Top EXCEPT !.at = "profile",
                                   !.todo = IF "profile" \in Top.answer.asks
                                            THEN online \ {Top.s} ELSE {}])
    <2> DEFINE todo == IF "profile" \in Top.answer.asks THEN online \ {Top.s} ELSE {}
    <2>1. todo \in SUBSET Sessions
      BY DEF DInv, TypeOK
    <2>2. Become([Top EXCEPT !.at = "profile", !.todo = todo])
      BY <1>6
    <2> HIDE DEF todo
    <2>3. Top \in Frames
      BY <1>1, TopOf
    <2>4. \E f \in Frames : f = [Top EXCEPT !.at = "profile", !.todo = todo] /\ f.at = "profile"
      BY <2>1, <2>3, AtTodoTyped
    <2>5. PICK f \in Frames : /\ f = [Top EXCEPT !.at = "profile", !.todo = todo]
                             /\ f.at = "profile"
      BY <2>4
    <2> QED BY <1>1, <1>2, <1>3, <1>6, <2>2, <2>5, GoesOn, RestOfState DEF DInv, TypeOK, shown
  <1>7. Top.b \in Int
    BY <1>1, TopOf
  <1> QED BY <1>4, <1>5, <1>6, <1>7 DEF ApplyEffects

LEMMA RenderPeersKeeps ==
    ASSUME DInv, RenderPeers PROVE DInv'
  <1>1. /\ stack # <<>> /\ Top.at \in {"profile", "room"}
        /\ UNCHANGED <<online, active, doors, closed, opens, shown, joined>>
    BY DEF RenderPeers, At
  <1>2. CASE Return \/ ReturnError
    BY <1>1, <1>2, GoesBack, RestOfState DEF DInv, TypeOK, shown
  <1>3. CASE /\ UNCHANGED failed
             /\ \E t \in Top.todo :
                  LET rest == [Top EXCEPT !.todo = @ \ {t}]
                  IN IF active[t] \in doors
                     THEN Enter(rest, Call("render", "view", t, active[t], MaxTransitions))
                     ELSE Become(rest)
    BY <1>1, <1>3, WalkKeeps
  <1>4. CASE /\ UNCHANGED failed
             /\ Become([Top EXCEPT !.at = "room",
                           !.todo = {t \in online \ {Top.s} : active[t] = Top.d}])
    <2>1. {t \in online \ {Top.s} : active[t] = Top.d} \in SUBSET Sessions
      BY DEF DInv, TypeOK
    <2>2. PICK f \in Frames :
            /\ f = [Top EXCEPT !.at = "room", !.todo = {t \in online \ {Top.s} : active[t] = Top.d}]
            /\ f.at = "room"
      BY <1>1, <2>1, TopOf, AtTodoTyped
    <2> QED BY <1>1, <1>4, <2>2, GoesOn, RestOfState DEF DInv, TypeOK, shown
  <1> QED BY <1>2, <1>3, <1>4 DEF RenderPeers

-----------------------------------------------------------------------------
(* Events *)

LEMMA InvokeUpdateKeeps ==
    ASSUME DInv, InvokeUpdate PROVE DInv'
  <1>1. stack # <<>> /\ UNCHANGED <<online, active, doors, closed, opens, shown, joined>>
    BY DEF InvokeUpdate, At
  <1>2. CASE HookAnswers(Top.s, Top.d, "update", MaxTransitions, [Top EXCEPT !.at = "updated"], TRUE)
    <2>1. PICK f \in Frames : f = [Top EXCEPT !.at = "updated"] /\ f.at = "updated"
      BY <1>1, TopOf, AtTyped
    <2>2. MaxTransitions \in 0..MaxTransitions
      BY DoorAssumption
    <2> QED BY <1>1, <1>2, <2>1, <2>2, TopOf, HookKeeps, RestOfState
            DEF DInv, TypeOK, shown, Lifecycles
  <1>3. CASE ReturnError
    BY <1>1, <1>3, GoesBack, RestOfState DEF DInv, TypeOK, shown
  <1> QED BY <1>2, <1>3 DEF InvokeUpdate

LEMMA UpdatedKeeps ==
    ASSUME DInv, Updated PROVE DInv'
  <1> DEFINE seen == Top.seen \cup (Top.answer.asks \cap {"reload", "settings", "profile"})
  <1>1. stack # <<>> /\ UNCHANGED <<online, active, doors, closed, opens, joined>>
    BY DEF Updated, At
  <1>2. seen \subseteq Effects
    BY <1>1, TopOf DEF ValidAnswers
  <1>3. CASE (Return \/ ReturnError) /\ UNCHANGED shown
    BY <1>1, <1>3, GoesBack, RestOfState DEF DInv, TypeOK, shown
  <1>4. CASE WriteRender(Top.s, Top.d)
    BY <1>1, <1>4, TopOf, Renders, RestOfState DEF DInv, TypeOK
  <1>5. CASE /\ ~(Top.n >= MaxActionChain) /\ UNCHANGED <<failed, shown>>
             /\ Become([Top EXCEPT !.at = "update", !.n = @ + 1, !.seen = seen, !.answer = NoAnswer])
    <2>1. Top.n + 1 \in 0..MaxActionChain
      BY <1>1, <1>5, TopOf, DoorAssumption
    <2> HIDE DEF seen
    <2>2. PICK f \in Frames :
            /\ f = [Top EXCEPT !.at = "update", !.n = @ + 1, !.seen = seen, !.answer = NoAnswer]
            /\ f.at = "update"
      BY <1>1, <1>2, <2>1, TopOf, AgainTyped
    <2> QED BY <1>1, <1>5, <2>2, GoesOn, RestOfState DEF DInv, TypeOK, shown
  <1>6. CASE /\ UNCHANGED <<failed, shown>>
             /\ Become([Top EXCEPT !.at = "settings", !.answer = NoAnswer,
                           !.todo = IF "settings" \in seen /\ "reload" \notin seen
                                    THEN online \ {Top.s} ELSE {}])
    <2> HIDE DEF seen
    <2>1. PICK todo \in SUBSET Sessions :
            todo = IF "settings" \in seen /\ "reload" \notin seen THEN online \ {Top.s} ELSE {}
      BY DEF DInv, TypeOK
    <2>2. PICK f \in Frames :
            /\ f = [Top EXCEPT !.at = "settings", !.answer = NoAnswer, !.todo = todo]
            /\ f.at = "settings"
      BY <1>1, TopOf, SettledTyped
    <2> QED BY <1>1, <1>6, <2>1, <2>2, GoesOn, RestOfState DEF DInv, TypeOK, shown
  <1> QED BY <1>3, <1>4, <1>5, <1>6 DEF Updated

LEMMA RenderChangedKeeps ==
    ASSUME DInv, RenderChanged PROVE DInv'
  <1>1. /\ stack # <<>> /\ Top.at = "settings"
        /\ UNCHANGED <<online, active, doors, closed, opens, shown, joined>>
    BY DEF RenderChanged, At
  <1>2. CASE ReturnError
    BY <1>1, <1>2, GoesBack, RestOfState DEF DInv, TypeOK, shown
  <1>3. CASE /\ UNCHANGED failed
             /\ \E t \in Top.todo :
                  LET rest == [Top EXCEPT !.todo = @ \ {t}]
                  IN IF active[t] \in doors
                     THEN Enter(rest, Call("render", "view", t, active[t], MaxTransitions))
                     ELSE Become(rest)
    BY <1>1, <1>3, WalkKeeps
  <1>4. CASE Become(Call("render", "view", Top.s, Top.d, MaxTransitions)) /\ UNCHANGED failed
    <2>1. MaxTransitions \in 0..MaxTransitions
      BY DoorAssumption
    <2>2. PICK f \in Frames : f = Call("render", "view", Top.s, Top.d, MaxTransitions) /\ f.op = "render"
      BY <1>1, <2>1, TopOf, CallTyped DEF Call
    <2> QED BY <1>1, <1>4, <2>2, GoesOn, RestOfState DEF DInv, TypeOK, shown
  <1> QED BY <1>2, <1>3, <1>4 DEF RenderChanged
-----------------------------------------------------------------------------
(* Messages *)

LEMMA StartKeeps ==
    ASSUME DInv, NEW f \in Frames, Start(f), ~(f.op = "open" /\ f.at = "leave")
    PROVE  StackInv' /\ result' = "ok"
  BY DEF Start, StackInv, Leaving, Top

LEMMA ConnectKeeps ==
    ASSUME DInv, NEW s \in Sessions, Connect(s) PROVE DInv'
  <1>1. /\ online' \subseteq Sessions
        /\ UNCHANGED <<active, doors, closed, opens, shown, failed>>
    BY DEF Connect, DInv, TypeOK
  <1>2. PICK d \in doors, how \in {"initial", "resume"} :
        /\ Start([Call("connect", "opening", s, d, 0) EXCEPT !.how = how])
        /\ joined' = [joined EXCEPT ![s] = IF how = "resume" THEN {d} ELSE {}]
    BY DEF Connect
  <1>3. d \in Doors /\ 0 \in 0..MaxTransitions
    BY DoorAssumption DEF DInv, TypeOK
  <1>4. joined' \in [Sessions -> SUBSET Doors]
    BY <1>2, <1>3 DEF DInv, TypeOK
  <1>5. PICK f \in Frames : /\ f = [Call("connect", "opening", s, d, 0) EXCEPT !.how = how]
                           /\ f.op = "connect"
    <2>1. PICK c \in Frames : c = Call("connect", "opening", s, d, 0) /\ c.op = "connect"
      BY <1>3, CallTyped DEF Call
    <2>2. CASE how = "initial"
      <3>1. PICK f \in Frames : f = [c EXCEPT !.how = "initial"] /\ f.op = c.op
        BY HowTyped
      <3> QED BY <2>1, <2>2, <3>1
    <2>3. CASE how = "resume"
      <3>1. PICK f \in Frames : f = [c EXCEPT !.how = "resume"] /\ f.op = c.op
        BY HowTyped
      <3> QED BY <2>1, <2>3, <3>1
    <2> QED BY <1>2, <2>2, <2>3
  <1> QED BY <1>1, <1>2, <1>4, <1>5, StartKeeps, RestOfState DEF DInv, TypeOK, shown

LEMMA OpenInitialKeeps ==
    ASSUME DInv, OpenInitial PROVE DInv'
  <1>1. stack # <<>> /\ UNCHANGED <<online, active, doors, closed, opens, shown, failed, joined>>
    BY DEF OpenInitial, At
  <1>2. PICK f \in Frames : f = [Top EXCEPT !.at = "opened"] /\ f.at = "opened"
    BY <1>1, TopOf, AtTyped
  <1>3. PICK g \in Frames : /\ g = [Call("open", "check", Top.s, Top.d, MaxTransitions)
                                    EXCEPT !.how = Top.how]
                           /\ g.at = "check"
    <2>1. PICK c \in Frames : c = Call("open", "check", Top.s, Top.d, MaxTransitions) /\ c.at = "check"
      BY <1>1, TopOf, FullBudget, CallTyped DEF Call
    <2>2. Top.how \in {"plain", "initial", "resume"}
      BY <1>1, TopOf DEF Frames
    <2>3. CASE Top.how = "plain"
      <3>1. PICK g \in Frames : g = [c EXCEPT !.how = "plain"] /\ g.at = c.at
        BY HowTyped
      <3> QED BY <2>1, <2>3, <3>1
    <2>4. CASE Top.how = "initial"
      <3>1. PICK g \in Frames : g = [c EXCEPT !.how = "initial"] /\ g.at = c.at
        BY HowTyped
      <3> QED BY <2>1, <2>4, <3>1
    <2>5. CASE Top.how = "resume"
      <3>1. PICK g \in Frames : g = [c EXCEPT !.how = "resume"] /\ g.at = c.at
        BY HowTyped
      <3> QED BY <2>1, <2>5, <3>1
    <2> QED BY <2>2, <2>3, <2>4, <2>5
  <1>4. Enter(f, g)
    BY <1>2, <1>3 DEF OpenInitial
  <1>5. StackInv' /\ result' = "ok"
    BY <1>1, <1>2, <1>3, <1>4, TopOf, EnterKeeps DEF Enter
  <1> QED BY <1>1, <1>5, RestOfState DEF DInv, TypeOK, shown

LEMMA InitialOpenedKeeps ==
    ASSUME DInv, InitialOpened PROVE DInv'
  <1>1. stack # <<>> /\ UNCHANGED <<online, active, doors, closed, opens, joined>>
    BY DEF InitialOpened, At
  <1>2. CASE WriteRender(Top.s, Default)
    BY <1>1, <1>2, TopOf, Renders, RestOfState DEF DInv, TypeOK
  <1>3. CASE Return /\ UNCHANGED shown
    BY <1>1, <1>3, GoesBack, RestOfState DEF DInv, TypeOK, shown
  <1> QED BY <1>2, <1>3 DEF InitialOpened

LEMMA OpenDoorKeeps ==
    ASSUME DInv, NEW s \in Sessions, NEW d \in Doors, OpenDoor(s, d) PROVE DInv'
  <1>1. PICK f \in Frames : f = Call("open", "check", s, d, MaxTransitions) /\ f.at = "check"
    BY FullBudget, CallTyped DEF Call
  <1> QED BY <1>1, StartKeeps, RestOfState DEF OpenDoor, DInv, TypeOK, shown

LEMMA EventKeeps ==
    ASSUME DInv, NEW s \in Sessions, Event(s) PROVE DInv'
  <1>1. active[s] \in Doors
    BY DEF Event, DInv, TypeOK
  <1>2. PICK f \in Frames : f = Call("event", "update", s, active[s], MaxTransitions) /\ f.op = "event"
    BY <1>1, FullBudget, CallTyped DEF Call
  <1> QED BY <1>2, StartKeeps, RestOfState DEF Event, DInv, TypeOK, shown

LEMMA LeaveKeeps ==
    ASSUME DInv, NEW s \in Sessions, Leave(s) PROVE DInv'
  <1>1. \E at \in {"leave", "left"}, d \in Doors : Start(Call("leave", at, s, d, MaxTransitions))
    BY DoorAssumption DEF Leave, DInv, TypeOK
  <1>2. PICK at \in {"leave", "left"}, d \in Doors : Start(Call("leave", at, s, d, MaxTransitions))
    BY <1>1
  <1>3. at \in {"check", "leave", "enter", "joined", "view", "viewed", "apply", "profile",
               "room", "update", "updated", "settings", "opening", "opened", "left"}
    BY <1>2
  <1>4. PICK f \in Frames : f = Call("leave", at, s, d, MaxTransitions) /\ f.op = "leave"
    BY <1>3, FullBudget, CallTyped DEF Call
  <1> QED BY <1>2, <1>4, StartKeeps, RestOfState DEF Leave, DInv, TypeOK, shown

LEMMA LeaveLastKeeps ==
    ASSUME DInv, LeaveLast PROVE DInv'
  <1>1. stack # <<>> /\ UNCHANGED <<online, active, doors, closed, opens, shown>>
    BY DEF LeaveLast, At
  <1>2. joined' \in [Sessions -> SUBSET Doors]
    BY <1>1, TopOf DEF LeaveLast, DInv, TypeOK
  <1>3. PICK f \in Frames : f = [Top EXCEPT !.at = "left"] /\ f.at = "left"
    BY <1>1, TopOf, AtTyped
  <1>4. MaxTransitions \in 0..MaxTransitions
    BY DoorAssumption
  <1>5. CASE HookAnswers(Top.s, Top.d, "on_leave", MaxTransitions, f, TRUE)
    BY <1>1, <1>2, <1>3, <1>4, <1>5, TopOf, HookKeeps, RestOfState
       DEF DInv, TypeOK, shown, Lifecycles
  <1>6. CASE Become(f) /\ UNCHANGED failed
    BY <1>1, <1>2, <1>3, <1>6, GoesOn, RestOfState DEF DInv, TypeOK, shown
  <1> QED BY <1>3, <1>5, <1>6 DEF LeaveLast

LEMMA LeftLastKeeps ==
    ASSUME DInv, LeftLast PROVE DInv'
  <1>1. stack # <<>> /\ stack' = Rest
    BY DEF LeftLast, At
  <1>2. \A i \in 1..Len(Rest) : Rest[i].at # "leave"
    BY <1>1, TopOf, StackParts
  <1>3. StackInv'
    BY <1>1, <1>2, TopOf, ReturnKeeps
  <1>4. /\ active' \in [Sessions -> Doors \cup {None}]
        /\ screen' \in [Sessions -> Doors \cup {None, Default}]
    BY <1>1, TopOf DEF LeftLast, DInv, TypeOK
  <1> QED BY <1>3, <1>4, RestOfState DEF LeftLast, DInv, TypeOK, shown

-----------------------------------------------------------------------------
LEMMA EnvironmentKeeps ==
    ASSUME DInv, Environment PROVE DInv'
  <1>1. ASSUME NEW s \in Sessions, OpenExpires(s) PROVE DInv'
    <2>1. /\ opens \in [Sessions -> Nat] /\ opens[s] > 0 /\ opens' = [opens EXCEPT ![s] = opens[s] - 1]
          /\ OpenLimit \in [Sessions -> Nat] /\ \A t \in Sessions : opens[t] <= OpenLimit[t]
      BY <1>1, DoorAssumption DEF OpenExpires, DInv, TypeOK
    <2>2. opens' \in [Sessions -> Nat] /\ opens'[s] <= OpenLimit[s]
      BY <2>1
    <2>3. \A t \in Sessions \ {s} : opens'[t] = opens[t]
      BY <2>1
    <2>4. \A t \in Sessions : opens'[t] <= OpenLimit[t]
      BY <2>1, <2>2, <2>3
    <2> QED BY <1>1, <2>2, <2>4 DEF OpenExpires, DInv, TypeOK, Leaving, Top, shown
  <1>2. ASSUME NEW d \in Volatile, SetDoorEnabled(d) PROVE DInv'
    BY <1>2, DoorAssumption DEF SetDoorEnabled, DInv, TypeOK, Leaving, Top, shown
  <1> QED BY <1>1, <1>2 DEF Environment

LEMMA NextKeeps == DInv /\ [Next]_vars => DInv'
  <1> SUFFICES ASSUME DInv, [Next]_vars PROVE DInv'
    OBVIOUS
  <1>1. CASE Step
    BY <1>1, CheckOpenKeeps, LeaveOldKeeps, EnterDoorKeeps, JoinedKeeps, InvokeViewKeeps,
       ViewedKeeps, ApplyEffectsKeeps, RenderPeersKeeps, InvokeUpdateKeeps, UpdatedKeeps,
       RenderChangedKeeps, OpenInitialKeeps, InitialOpenedKeeps, LeaveLastKeeps, LeftLastKeeps
       DEF Step
  <1>2. CASE Message
    BY <1>2, ConnectKeeps, EventKeeps, LeaveKeeps, OpenDoorKeeps DEF Message
  <1>3. CASE Environment
    BY <1>3, EnvironmentKeeps
  <1>4. CASE UNCHANGED vars
    BY <1>4 DEF DInv, TypeOK, Leaving, Top, vars, shown
  <1> QED BY <1>1, <1>2, <1>3, <1>4 DEF Next

\* Whatever the hooks answer and however the calls nest, no call is made with a
\* transition budget below zero, no event starts more than MaxActionChain
\* actions, and a door is left only by a session that is in one (invokeDoor).
THEOREM TypeCorrect == Spec => []TypeOK
  <1>1. DInv => TypeOK
    BY DEF DInv
  <1> QED BY InitHolds, NextKeeps, <1>1, PTL DEF Spec

-----------------------------------------------------------------------------
(* What a step does to the stack, frame by frame *)

\* Frames that differ in nothing but the freshness of the view they hold.
Like(f, g) ==
    /\ f.op = g.op /\ f.at = g.at /\ f.s = g.s /\ f.d = g.d /\ f.b = g.b
    /\ f.answer = g.answer /\ f.how = g.how /\ f.fan = g.fan /\ f.todo = g.todo

\* The calls below the innermost one wait.
CallersWait ==
    \A i \in 1..(Len(stack) - 1) : i \in 1..Len(stack') /\ Like(stack'[i], stack[i])

GoesOnAs(f) ==
    /\ Len(stack') = Len(stack)
    /\ stack'[Len(stack)] = f
    /\ CallersWait

CallsFrom(f, g) ==
    /\ Len(stack') = Len(stack) + 1
    /\ stack'[Len(stack)] = f
    /\ stack'[Len(stack) + 1] = g
    /\ CallersWait

IsOver == Len(stack') = Len(stack) - 1 /\ CallersWait

\* An innermost call there is.
LEMMA Innermost ==
    ASSUME DInv, stack # <<>>
    PROVE  /\ Len(stack) \in Nat \ {0}
           /\ stack[Len(stack)] = Top
           /\ Len(Rest) = Len(stack) - 1
           /\ \A i \in 1..(Len(stack) - 1) : Rest[i] = stack[i]
  BY TopOf, StackParts DEF Top

LEMMA BecomeShape ==
    ASSUME DInv, stack # <<>>, NEW f, Become(f)
    PROVE  GoesOnAs(f)
  <1>1. Len(Rest) \in Nat /\ Rest \in Seq(Frames)
    BY TopOf, StackParts
  <1>2. /\ Len(stack') = Len(Rest) + 1
        /\ stack'[Len(Rest) + 1] = f
        /\ \A i \in 1..Len(Rest) : stack'[i] = Rest[i]
    BY <1>1 DEF Become
  <1> QED BY <1>2, Innermost DEF GoesOnAs, CallersWait, Like

LEMMA EnterShape ==
    ASSUME DInv, stack # <<>>, NEW f, NEW g, Enter(f, g)
    PROVE  CallsFrom(f, g)
  <1>1. Len(Rest) \in Nat /\ Rest \in Seq(Frames)
    BY TopOf, StackParts
  <1>2. /\ Len(stack') = Len(Rest) + 2
        /\ stack'[Len(Rest) + 1] = f
        /\ stack'[Len(Rest) + 2] = g
        /\ \A i \in 1..Len(Rest) : stack'[i] = Rest[i]
    BY <1>1 DEF Enter
  <1> QED BY <1>2, Innermost DEF CallsFrom, CallersWait, Like

LEMMA ReturnShape ==
    ASSUME DInv, stack # <<>>, stack' = Rest
    PROVE  IsOver
  BY Innermost DEF IsOver, CallersWait, Like

LEMMA WriteShape ==
    ASSUME DInv, stack # <<>>, NEW s, NEW view, WriteRender(s, view)
    PROVE  IsOver
  <1>1. /\ Len(stack) - 1 \in Nat
        /\ stack' = [i \in 1..(Len(stack) - 1) |->
                        IF stack[i].s = s THEN Outdated(stack[i]) ELSE stack[i]]
    BY Innermost DEF WriteRender
  <1>2. Len(stack') = Len(stack) - 1
    BY <1>1
  <1>3. \A i \in 1..(Len(stack) - 1) : stack[i] \in Frames
    BY Innermost DEF DInv, TypeOK
  <1>4. \A f \in Frames : Like(Outdated(f), f)
    BY DEF Frames, Outdated, Like
  <1> QED BY <1>1, <1>2, <1>3, <1>4 DEF IsOver, CallersWait, Like

LEMMA StartShape ==
    ASSUME DInv, NEW f, Start(f)
    PROVE  Len(stack) = 0 /\ Len(stack') = 1 /\ stack'[1] = f
  BY DEF Start


ReturnsError == IsOver /\ failed' = failed \cup {Top.s}
Returns == IsOver /\ failed' = failed

\* Frame f is the innermost call, at another point of its work.
IsTopAt(f, at) ==
    /\ f.op = Top.op /\ f.at = at /\ f.s = Top.s /\ f.d = Top.d /\ f.b = Top.b
    /\ f.how = Top.how /\ f.fan = Top.fan

IsCall(f, op, at, s, d, b) ==
    f.op = op /\ f.at = at /\ f.s = s /\ f.d = d /\ f.b = b /\ f.todo = {} /\ ~f.late

\* The innermost call goes on elsewhere, or as another call.
Proceeds(at) == (\E f : GoesOnAs(f) /\ IsTopAt(f, at) /\ f.todo = Top.todo) /\ failed' = failed
TurnsInto(op, at, s, d, b) ==
    (\E f : GoesOnAs(f) /\ IsCall(f, op, at, s, d, b) /\ f.how = "plain") /\ failed' = failed

\* A hook was called, and the effects of an answer its script may give are to be
\* applied before the caller goes on.
HookCalled(s, d, life, b, at, fan) ==
    \E f, g :
        /\ CallsFrom(f, g)
        /\ IsTopAt(f, at) /\ f.todo = Top.todo /\ ~f.late
        /\ IsCall(g, "effects", "apply", s, d, b) /\ g.fan = fan
        /\ g.answer.asks \in Asks[life]
        /\ "move" \in g.answer.asks => <<d, g.answer.to>> \in Leads
        /\ failed' = failed

\* The next session of a walk is rendered, or skipped because its door is gone.
Walks(at) ==
    \E t, f :
        /\ t \in Top.todo
        /\ IsTopAt(f, at) /\ f.todo \subseteq Top.todo /\ f.answer = Top.answer
        /\ \/ GoesOnAs(f)
           \/ \E g : /\ active[t] \in doors
                     /\ CallsFrom(f, g)
                     /\ IsCall(g, "render", "view", t, active[t], MaxTransitions)
        /\ failed' = failed

Points == {"check", "leave", "enter", "joined", "view", "viewed", "apply", "profile",
           "room", "update", "updated", "settings", "opening", "opened", "left"}

LEMMA BecomeAt ==
    ASSUME DInv, stack # <<>>, NEW at \in Points, Become([Top EXCEPT !.at = at]),
           UNCHANGED failed
    PROVE  Proceeds(at)
  <1> DEFINE f == [Top EXCEPT !.at = at]
  <1>1. GoesOnAs(f)
    BY BecomeShape
  <1>2. IsTopAt(f, at) /\ f.todo = Top.todo
    BY TopOf DEF IsTopAt, Frames
  <1> HIDE DEF f
  <1> QED BY <1>1, <1>2 DEF Proceeds

LEMMA BecomeCall ==
    ASSUME DInv, stack # <<>>, NEW op, NEW at, NEW s, NEW d, NEW b,
           Become(Call(op, at, s, d, b)), UNCHANGED failed
    PROVE  TurnsInto(op, at, s, d, b)
  <1>1. GoesOnAs(Call(op, at, s, d, b))
    BY BecomeShape
  <1>2. IsCall(Call(op, at, s, d, b), op, at, s, d, b) /\ Call(op, at, s, d, b).how = "plain"
    BY DEF IsCall, Call
  <1> QED BY <1>1, <1>2 DEF TurnsInto

LEMMA HookShape ==
    ASSUME DInv, stack # <<>>, NEW s, NEW d, NEW life, NEW b, NEW at \in Points, NEW fan,
           HookAnswers(s, d, life, b, [Top EXCEPT !.at = at], fan)
    PROVE  HookCalled(s, d, life, b, at, fan)
  <1>1. PICK answer \in Answers(life, d) :
        /\ Enter([[Top EXCEPT !.at = at] EXCEPT
                     !.answer = IF life = "update" THEN answer ELSE NoAnswer, !.late = FALSE],
                 [Call("effects", "apply", s, d, b) EXCEPT !.answer = answer, !.fan = fan])
        /\ UNCHANGED failed
    BY DEF HookAnswers
  <1> DEFINE f == [[Top EXCEPT !.at = at] EXCEPT
                      !.answer = IF life = "update" THEN answer ELSE NoAnswer, !.late = FALSE]
             g == [Call("effects", "apply", s, d, b) EXCEPT !.answer = answer, !.fan = fan]
  <1>2. IsTopAt(f, at) /\ f.todo = Top.todo /\ ~f.late
    BY TopOf DEF IsTopAt, Frames
  <1>3. IsCall(g, "effects", "apply", s, d, b) /\ g.fan = fan /\ g.answer = answer
    BY DEF Call, IsCall
  <1>4. /\ answer.asks \in Asks[life]
        /\ "move" \in answer.asks => <<d, answer.to>> \in Leads
    BY DEF Answers
  <1>5. CallsFrom(f, g) /\ failed' = failed
    BY <1>1, EnterShape
  <1> HIDE DEF f, g
  <1> QED BY <1>2, <1>3, <1>4, <1>5 DEF HookCalled

LEMMA WalkShape ==
    ASSUME DInv, stack # <<>>, NEW t \in Top.todo, UNCHANGED failed,
           LET rest == [Top EXCEPT !.todo = @ \ {t}]
           IN IF active[t] \in doors
              THEN Enter(rest, Call("render", "view", t, active[t], MaxTransitions))
              ELSE Become(rest)
    PROVE  Walks(Top.at)
  <1> DEFINE f == [Top EXCEPT !.todo = @ \ {t}]
             g == Call("render", "view", t, active[t], MaxTransitions)
  <1>1. IsTopAt(f, Top.at) /\ f.todo \subseteq Top.todo /\ f.answer = Top.answer
    BY TopOf DEF IsTopAt, Frames
  <1>2. IsCall(g, "render", "view", t, active[t], MaxTransitions)
    BY DEF IsCall, Call
  <1>3. IF active[t] \in doors THEN Enter(f, g) ELSE Become(f)
    OBVIOUS
  <1> HIDE DEF f, g
  <1>4. CASE active[t] \in doors
    BY <1>1, <1>2, <1>3, <1>4, EnterShape DEF Walks
  <1>5. CASE active[t] \notin doors
    BY <1>1, <1>3, <1>5, BecomeShape DEF Walks
  <1> QED BY <1>4, <1>5

LEMMA ReturnShapes ==
    ASSUME DInv, stack # <<>>
    PROVE  /\ Return => Returns
           /\ ReturnError => ReturnsError
  BY ReturnShape DEF Return, ReturnError, Returns, ReturnsError

-----------------------------------------------------------------------------
(* What each action does *)

Idles == stack # <<>> /\ UNCHANGED <<online, active, doors, closed, opens, shown, joined>>

LEMMA CheckOpenShape ==
    ASSUME DInv, CheckOpen
    PROVE  /\ stack # <<>> /\ Top.op = "open" /\ Top.at = "check"
           /\ UNCHANGED <<online, active, doors, closed, screen, stale, joined>>
           /\ \/ /\ Top.d \in doors /\ Top.d \notin closed
                 /\ Proceeds(IF active[Top.s] \notin {None, Top.d} /\ active[Top.s] \in doors
                             THEN "leave" ELSE "enter")
              \/ /\ Top.d \in doors /\ Top.d \notin closed => Top.how = "plain"
                 /\ ReturnsError
  <1>1. /\ stack # <<>> /\ Top.op = "open" /\ Top.at = "check"
        /\ UNCHANGED <<online, active, doors, closed, screen, stale, joined>>
    BY DEF CheckOpen, At, shown
  <1> DEFINE at == IF active[Top.s] \notin {None, Top.d} /\ active[Top.s] \in doors
                   THEN "leave" ELSE "enter"
  <1>2. \/ /\ Top.d \in doors /\ Top.d \notin closed
           /\ Become([Top EXCEPT !.at = at]) /\ UNCHANGED failed
        \/ ReturnError /\ (Top.d \in doors /\ Top.d \notin closed => Top.how = "plain")
    BY DEF CheckOpen, CanAccess
  <1>3. at \in Points
    BY DEF Points
  <1> HIDE DEF at
  <1>4. Become([Top EXCEPT !.at = at]) /\ UNCHANGED failed => Proceeds(at)
    BY <1>1, <1>3, BecomeAt
  <1>5. ReturnError => ReturnsError
    BY <1>1, ReturnShapes
  <1> QED BY <1>1, <1>2, <1>4, <1>5 DEF at

LEMMA LeaveOldShape ==
    ASSUME DInv, LeaveOld
    PROVE  /\ stack # <<>> /\ Top.op = "open" /\ Top.at = "leave" /\ active[Top.s] \in Doors
           /\ UNCHANGED <<online, active, doors, closed, screen, stale>>
           /\ joined' = [joined EXCEPT ![Top.s] = @ \ {active[Top.s]}]
           /\ \/ HookCalled(Top.s, active[Top.s], "on_leave", Top.b, "enter", TRUE)
              \/ Proceeds("enter")
  <1>1. /\ stack # <<>> /\ Top.op = "open" /\ Top.at = "leave"
        /\ UNCHANGED <<online, active, doors, closed, screen, stale>>
        /\ joined' = [joined EXCEPT ![Top.s] = @ \ {active[Top.s]}]
    BY DEF LeaveOld, At, shown
  <1>2. active[Top.s] \in Doors
    BY <1>1, TopOf DEF DInv, TypeOK, Leaving
  <1>3. \/ HookAnswers(Top.s, active[Top.s], "on_leave", Top.b, [Top EXCEPT !.at = "enter"], TRUE)
        \/ Become([Top EXCEPT !.at = "enter"]) /\ UNCHANGED failed
    BY DEF LeaveOld
  <1> QED BY <1>1, <1>2, <1>3, BecomeAt, HookShape DEF Points

LEMMA EnterDoorShape ==
    ASSUME DInv, EnterDoor
    PROVE  /\ stack # <<>> /\ Top.op = "open" /\ Top.at = "enter"
           /\ UNCHANGED <<online, doors, closed, screen, stale>>
           /\ active' = [active EXCEPT ![Top.s] = Top.d]
           /\ joined' = [joined EXCEPT ![Top.s] = @ \cup {Top.d}]
           /\ \/ TurnsInto("render", "view", Top.s, Top.d, Top.b)
              \/ HookCalled(Top.s, Top.d, "on_join", Top.b, "joined", TRUE)
              \/ ReturnsError
  <1>1. /\ stack # <<>> /\ Top.op = "open" /\ Top.at = "enter"
        /\ UNCHANGED <<online, doors, closed, screen, stale>>
        /\ active' = [active EXCEPT ![Top.s] = Top.d]
        /\ joined' = [joined EXCEPT ![Top.s] = @ \cup {Top.d}]
    BY DEF EnterDoor, At, shown
  <1>2. \/ Become(Call("render", "view", Top.s, Top.d, Top.b)) /\ UNCHANGED failed
        \/ HookAnswers(Top.s, Top.d, "on_join", Top.b, [Top EXCEPT !.at = "joined"], TRUE)
        \/ ReturnError
    BY DEF EnterDoor
  <1> QED BY <1>1, <1>2, BecomeCall, HookShape, ReturnShapes DEF Points

LEMMA JoinedShape ==
    ASSUME DInv, Joined
    PROVE  /\ Idles /\ Top.op = "open" /\ Top.at = "joined"
           /\ \/ ReturnsError
              \/ Moved(Top.s, Top.d) /\ Returns
              \/ ~Moved(Top.s, Top.d) /\ TurnsInto("render", "view", Top.s, Top.d, Top.b)
  <1>1. Idles /\ Top.op = "open" /\ Top.at = "joined"
    BY DEF Joined, At, Idles
  <1>2. \/ ReturnError
        \/ Moved(Top.s, Top.d) /\ Return
        \/ /\ ~Moved(Top.s, Top.d)
           /\ Become(Call("render", "view", Top.s, Top.d, Top.b)) /\ UNCHANGED failed
    BY DEF Joined
  <1> QED BY <1>1, <1>2, BecomeCall, ReturnShapes DEF Idles

LEMMA InvokeViewShape ==
    ASSUME DInv, InvokeView
    PROVE  /\ Idles /\ Top.op = "render" /\ Top.at = "view"
           /\ \/ HookCalled(Top.s, Top.d, "view", Top.b, "viewed", FALSE)
              \/ ReturnsError
  <1>1. Idles /\ Top.op = "render" /\ Top.at = "view"
    BY DEF InvokeView, At, Idles
  <1>2. \/ HookAnswers(Top.s, Top.d, "view", Top.b, [Top EXCEPT !.at = "viewed"], FALSE)
        \/ ReturnError
    BY DEF InvokeView
  <1> QED BY <1>1, <1>2, HookShape, ReturnShapes DEF Idles, Points

LEMMA ViewedShape ==
    ASSUME DInv, Viewed
    PROVE  /\ stack # <<>> /\ Top.op = "render" /\ Top.at = "viewed"
           /\ UNCHANGED <<online, active, doors, closed, joined>>
           /\ \/ ReturnsError /\ UNCHANGED <<screen, stale>>
              \/ Moved(Top.s, Top.d) /\ Returns /\ UNCHANGED <<screen, stale>>
              \/ ~Moved(Top.s, Top.d) /\ IsOver /\ WriteRender(Top.s, Top.d)
  <1>1. /\ stack # <<>> /\ Top.op = "render" /\ Top.at = "viewed"
        /\ UNCHANGED <<online, active, doors, closed, joined>>
    BY DEF Viewed, At
  <1>2. \/ ReturnError /\ UNCHANGED <<screen, stale>>
        \/ Moved(Top.s, Top.d) /\ Return /\ UNCHANGED <<screen, stale>>
        \/ ~Moved(Top.s, Top.d) /\ WriteRender(Top.s, Top.d)
    BY DEF Viewed, shown
  <1> QED BY <1>1, <1>2, WriteShape, ReturnShapes

LEMMA ApplyEffectsShape ==
    ASSUME DInv, ApplyEffects
    PROVE  /\ stack # <<>> /\ Top.op = "effects" /\ Top.at = "apply"
           /\ UNCHANGED <<online, active, closed, screen, stale>>
           /\ "reload" \notin Top.answer.asks => doors' = doors
           /\ joined' = [t \in Sessions |-> joined[t] \cap doors']
           /\ \/ /\ "move" \in Top.answer.asks
                 /\ \/ ReturnsError
                    \/ /\ Top.b > 0
                       /\ TurnsInto("open", "check", Top.s, Top.answer.to, Top.b - 1)
              \/ /\ failed' = failed
                 /\ \E f : /\ GoesOnAs(f) /\ IsTopAt(f, "profile") /\ f.answer = Top.answer
                           /\ f.todo = IF "profile" \in Top.answer.asks
                                       THEN online \ {Top.s} ELSE {}
  <1>1. /\ stack # <<>> /\ Top.op = "effects" /\ Top.at = "apply"
        /\ UNCHANGED <<online, active, closed, screen, stale>>
        /\ "reload" \notin Top.answer.asks => doors' = doors
        /\ joined' = [t \in Sessions |-> joined[t] \cap doors']
    BY DEF ApplyEffects, At, shown
  <1> DEFINE todo == IF "profile" \in Top.answer.asks THEN online \ {Top.s} ELSE {}
             f == [Top EXCEPT !.at = "profile", !.todo = todo]
  <1>2. Top.b \in Int
    BY <1>1, TopOf
  <1>3. \/ /\ "move" \in Top.answer.asks
           /\ \/ ReturnError
              \/ /\ Top.b > 0 /\ UNCHANGED failed
                 /\ Become(Call("open", "check", Top.s, Top.answer.to, Top.b - 1))
        \/ Become(f) /\ UNCHANGED failed
    BY <1>2 DEF ApplyEffects
  <1>4. IsTopAt(f, "profile") /\ f.answer = Top.answer /\ f.todo = todo
    BY <1>1, TopOf DEF IsTopAt, Frames
  <1> HIDE DEF f
  <1>5. Become(f) => GoesOnAs(f)
    BY <1>1, BecomeShape
  <1> QED BY <1>1, <1>3, <1>4, <1>5, BecomeCall, ReturnShapes

LEMMA RenderPeersShape ==
    ASSUME DInv, RenderPeers
    PROVE  /\ Idles /\ Top.op = "effects" /\ Top.at \in {"profile", "room"}
           /\ \/ ReturnsError
              \/ Walks(Top.at)
              \/ Returns
              \/ /\ Top.fan /\ "broadcast" \in Top.answer.asks /\ failed' = failed
                 /\ \E f : /\ GoesOnAs(f) /\ IsTopAt(f, "room") /\ f.answer = Top.answer
                           /\ f.todo = {t \in online \ {Top.s} : active[t] = Top.d}
  <1>1. Idles /\ Top.op = "effects" /\ Top.at \in {"profile", "room"}
    BY DEF RenderPeers, At, Idles
  <1> DEFINE todo == {t \in online \ {Top.s} : active[t] = Top.d}
             f == [Top EXCEPT !.at = "room", !.todo = todo]
             Walk == \E t \in Top.todo :
                        LET rest == [Top EXCEPT !.todo = @ \ {t}]
                        IN IF active[t] \in doors
                           THEN Enter(rest, Call("render", "view", t, active[t], MaxTransitions))
                           ELSE Become(rest)
  <1>2. \/ ReturnError
        \/ Walk /\ UNCHANGED failed
        \/ Return
        \/ Top.fan /\ "broadcast" \in Top.answer.asks /\ Become(f) /\ UNCHANGED failed
    BY DEF RenderPeers
  <1>3. IsTopAt(f, "room") /\ f.answer = Top.answer /\ f.todo = todo
    BY <1>1, TopOf DEF IsTopAt, Frames, Idles
  <1>4. Walk /\ UNCHANGED failed => Walks(Top.at)
    BY <1>1, WalkShape DEF Idles
  <1> HIDE DEF f, Walk
  <1>5. Become(f) => GoesOnAs(f)
    BY <1>1, BecomeShape DEF Idles
  <1> QED BY <1>1, <1>2, <1>3, <1>4, <1>5, ReturnShapes DEF Idles

LEMMA InvokeUpdateShape ==
    ASSUME DInv, InvokeUpdate
    PROVE  /\ Idles /\ Top.op = "event" /\ Top.at = "update"
           /\ \/ HookCalled(Top.s, Top.d, "update", MaxTransitions, "updated", TRUE)
              \/ ReturnsError
  <1>1. Idles /\ Top.op = "event" /\ Top.at = "update"
    BY DEF InvokeUpdate, At, Idles
  <1>2. \/ HookAnswers(Top.s, Top.d, "update", MaxTransitions, [Top EXCEPT !.at = "updated"], TRUE)
        \/ ReturnError
    BY DEF InvokeUpdate
  <1> QED BY <1>1, <1>2, HookShape, ReturnShapes DEF Idles, Points

LEMMA UpdatedShape ==
    ASSUME DInv, Updated
    PROVE  /\ stack # <<>> /\ Top.op = "event" /\ Top.at = "updated"
           /\ UNCHANGED <<online, active, doors, closed, joined>>
           /\ \/ ReturnsError /\ UNCHANGED <<screen, stale>>
              \/ Moved(Top.s, Top.d) /\ Returns /\ UNCHANGED <<screen, stale>>
              \/ ~Moved(Top.s, Top.d) /\ IsOver /\ WriteRender(Top.s, Top.d)
              \/ /\ failed' = failed /\ UNCHANGED <<screen, stale>>
                 /\ \E f : /\ GoesOnAs(f)
                           /\ \/ IsTopAt(f, "update") /\ f.todo = Top.todo
                              \/ IsTopAt(f, "settings") /\ f.todo \subseteq online \ {Top.s}
  <1>1. /\ stack # <<>> /\ Top.op = "event" /\ Top.at = "updated"
        /\ UNCHANGED <<online, active, doors, closed, joined>>
    BY DEF Updated, At
  <1> DEFINE seen == Top.seen \cup (Top.answer.asks \cap {"reload", "settings", "profile"})
             todo == IF "settings" \in seen /\ "reload" \notin seen THEN online \ {Top.s} ELSE {}
             f == [Top EXCEPT !.at = "update", !.n = @ + 1, !.seen = seen, !.answer = NoAnswer]
             g == [Top EXCEPT !.at = "settings", !.answer = NoAnswer, !.todo = todo]
  <1>2. \/ ReturnError /\ UNCHANGED <<screen, stale>>
        \/ Moved(Top.s, Top.d) /\ Return /\ UNCHANGED <<screen, stale>>
        \/ ~Moved(Top.s, Top.d) /\ WriteRender(Top.s, Top.d)
        \/ UNCHANGED <<failed, screen, stale>> /\ (Become(f) \/ Become(g))
    BY DEF Updated, shown
  <1>3. IsTopAt(f, "update") /\ f.todo = Top.todo
    BY <1>1, TopOf DEF IsTopAt, Frames
  <1>4. IsTopAt(g, "settings") /\ g.todo = todo
    BY <1>1, TopOf DEF IsTopAt, Frames
  <1>5. todo \subseteq online \ {Top.s}
    OBVIOUS
  <1> HIDE DEF seen, todo, f, g
  <1>6. (Become(f) => GoesOnAs(f)) /\ (Become(g) => GoesOnAs(g))
    BY <1>1, BecomeShape
  <1>7. CASE UNCHANGED <<failed, screen, stale>> /\ Become(f)
    BY <1>1, <1>3, <1>6, <1>7
  <1>8. CASE UNCHANGED <<failed, screen, stale>> /\ Become(g)
    BY <1>1, <1>4, <1>5, <1>6, <1>8
  <1>9. CASE ReturnError /\ UNCHANGED <<screen, stale>>
    BY <1>1, <1>9, ReturnShapes
  <1>10. CASE Moved(Top.s, Top.d) /\ Return /\ UNCHANGED <<screen, stale>>
    BY <1>1, <1>10, ReturnShapes
  <1>11. CASE ~Moved(Top.s, Top.d) /\ WriteRender(Top.s, Top.d)
    BY <1>1, <1>11, WriteShape
  <1> QED BY <1>2, <1>7, <1>8, <1>9, <1>10, <1>11

LEMMA RenderChangedShape ==
    ASSUME DInv, RenderChanged
    PROVE  /\ Idles /\ Top.op = "event" /\ Top.at = "settings"
           /\ \/ ReturnsError
              \/ Walks("settings")
              \/ TurnsInto("render", "view", Top.s, Top.d, MaxTransitions)
  <1>1. Idles /\ Top.op = "event" /\ Top.at = "settings"
    BY DEF RenderChanged, At, Idles
  <1> DEFINE Walk == \E t \in Top.todo :
                        LET rest == [Top EXCEPT !.todo = @ \ {t}]
                        IN IF active[t] \in doors
                           THEN Enter(rest, Call("render", "view", t, active[t], MaxTransitions))
                           ELSE Become(rest)
  <1>2. \/ ReturnError
        \/ Walk /\ UNCHANGED failed
        \/ Become(Call("render", "view", Top.s, Top.d, MaxTransitions)) /\ UNCHANGED failed
    BY DEF RenderChanged
  <1>3. Walk /\ UNCHANGED failed => Walks("settings")
    BY <1>1, WalkShape DEF Idles
  <1> HIDE DEF Walk
  <1> QED BY <1>1, <1>2, <1>3, BecomeCall, ReturnShapes DEF Idles

LEMMA OpenInitialShape ==
    ASSUME DInv, OpenInitial
    PROVE  /\ Idles /\ failed' = failed /\ Top.op = "connect" /\ Top.at = "opening"
           /\ \E f, g : /\ CallsFrom(f, g) /\ IsTopAt(f, "opened") /\ f.todo = Top.todo
                        /\ IsCall(g, "open", "check", Top.s, Top.d, MaxTransitions)
                        /\ g.how = Top.how
  <1>1. Idles /\ failed' = failed /\ Top.op = "connect" /\ Top.at = "opening"
    BY DEF OpenInitial, At, Idles
  <1> DEFINE f == [Top EXCEPT !.at = "opened"]
             g == [Call("open", "check", Top.s, Top.d, MaxTransitions) EXCEPT !.how = Top.how]
  <1>2. IsTopAt(f, "opened") /\ f.todo = Top.todo
    BY <1>1, TopOf DEF IsTopAt, Frames, Idles
  <1>3. IsCall(g, "open", "check", Top.s, Top.d, MaxTransitions) /\ g.how = Top.how
    BY DEF IsCall, Call
  <1>4. Enter(f, g)
    BY DEF OpenInitial
  <1> HIDE DEF f, g
  <1> QED BY <1>1, <1>2, <1>3, <1>4, EnterShape DEF Idles

LEMMA InitialOpenedShape ==
    ASSUME DInv, InitialOpened
    PROVE  /\ stack # <<>> /\ Top.op = "connect" /\ Top.at = "opened"
           /\ UNCHANGED <<online, active, doors, closed, joined>>
           /\ \/ IsOver /\ WriteRender(Top.s, Default)
              \/ result # "error" /\ Returns /\ UNCHANGED <<screen, stale>>
  <1>1. /\ stack # <<>> /\ Top.op = "connect" /\ Top.at = "opened"
        /\ UNCHANGED <<online, active, doors, closed, joined>>
    BY DEF InitialOpened, At
  <1>2. \/ WriteRender(Top.s, Default)
        \/ result # "error" /\ Return /\ UNCHANGED <<screen, stale>>
    BY DEF InitialOpened, shown
  <1> QED BY <1>1, <1>2, WriteShape, ReturnShapes

LEMMA LeaveLastShape ==
    ASSUME DInv, LeaveLast
    PROVE  /\ stack # <<>> /\ Top.op = "leave" /\ Top.at = "leave"
           /\ UNCHANGED <<online, active, doors, closed, screen, stale>>
           /\ joined' = [joined EXCEPT ![Top.s] = @ \ {Top.d}]
           /\ \/ HookCalled(Top.s, Top.d, "on_leave", MaxTransitions, "left", TRUE)
              \/ Proceeds("left")
  <1>1. /\ stack # <<>> /\ Top.op = "leave" /\ Top.at = "leave"
        /\ UNCHANGED <<online, active, doors, closed, screen, stale>>
        /\ joined' = [joined EXCEPT ![Top.s] = @ \ {Top.d}]
    BY DEF LeaveLast, At, shown
  <1>2. \/ HookAnswers(Top.s, Top.d, "on_leave", MaxTransitions, [Top EXCEPT !.at = "left"], TRUE)
        \/ Become([Top EXCEPT !.at = "left"]) /\ UNCHANGED failed
    BY DEF LeaveLast
  <1> QED BY <1>1, <1>2, BecomeAt, HookShape DEF Points

LEMMA LeftLastShape ==
    ASSUME DInv, LeftLast
    PROVE  /\ stack # <<>> /\ Top.op = "leave" /\ Top.at = "left" /\ IsOver
           /\ active' = [active EXCEPT ![Top.s] = None]
           /\ screen' = [screen EXCEPT ![Top.s] = None]
           /\ failed' = failed \ {Top.s} /\ stale' = stale \ {Top.s}
           /\ UNCHANGED <<online, doors, closed, joined>>
  BY ReturnShape DEF LeftLast, At

-----------------------------------------------------------------------------
(* The screen follows the door *)

\* A call that shows the session its door, or has a hook that may still do so.
Shows(f) == f.op = "render" \/ (f.op = "open" /\ f.at = "joined")

Owes(f, x) == f.s = x /\ f.d = active[x] /\ Shows(f)

Settled(x) == x \in failed \/ screen[x] \in {active[x], Default}

\* The stay of a session ends in a message of its own.
LeavesAtBottom == \A i \in DOMAIN stack : stack[i].op = "leave" => i = 1

\* A session that is shown a door, or has sent it an event, is in one.
Inside ==
    \A i \in DOMAIN stack :
        Shows(stack[i]) \/ stack[i].op = "event" => active[stack[i].s] # None

OwedTo(x) == \E i \in DOMAIN stack : Owes(stack[i], x)

Owed == \A x \in Sessions : Settled(x) \/ OwedTo(x)

SInv == DInv /\ LeavesAtBottom /\ Inside /\ Owed

LEMMA LikeShows ==
    ASSUME NEW f, NEW g, Like(f, g)
    PROVE  /\ f.op = g.op /\ f.s = g.s /\ f.d = g.d
           /\ Shows(f) <=> Shows(g)
           /\ \A x : Owes(f, x) <=> Owes(g, x)
  BY DEF Like, Shows, Owes

\* What the calls that are new, or go on, must fulfil.
NewFrames ==
    \A i \in DOMAIN stack' : i >= Len(stack) =>
        /\ stack'[i].op = "leave" => i = Len(stack) /\ Top.op = "leave"
        /\ Shows(stack'[i]) \/ stack'[i].op = "event" => active'[stack'[i].s] # None

SettledNext(x) == x \in failed' \/ screen'[x] \in {active'[x], Default}

OwedNext(x) ==
    \E i \in DOMAIN stack' :
        stack'[i].s = x /\ stack'[i].d = active'[x] /\ Shows(stack'[i])

\* What each session must be left with: the view it is due, a call that owes it,
\* or nothing taken away.
StaysOwed(x) ==
    \/ SettledNext(x)
    \/ OwedNext(x)
    \/ /\ active'[x] = active[x] /\ screen'[x] = screen[x] /\ (x \in failed => x \in failed')
       /\ ~Owes(Top, x)

LEMMA SKeeps ==
    ASSUME SInv, stack # <<>>, DInv', CallersWait, Len(stack') >= Len(stack) - 1,
           \A s \in Sessions : active'[s] = None => active[s] = None,
           NewFrames, \A x \in Sessions : StaysOwed(x)
    PROVE  SInv'
  <1>1. Len(stack) \in Nat \ {0} /\ Len(stack') \in Nat
        /\ DOMAIN stack = 1..Len(stack) /\ DOMAIN stack' = 1..Len(stack')
        /\ stack[Len(stack)] = Top
    BY Innermost DEF SInv, DInv, TypeOK
  <1>2. \A i \in 1..(Len(stack) - 1) : i \in DOMAIN stack' /\ Like(stack'[i], stack[i])
    BY <1>1 DEF CallersWait
  <1>3. \A i \in DOMAIN stack' : i >= Len(stack) \/ i \in 1..(Len(stack) - 1)
    BY <1>1
  <1>4. LeavesAtBottom'
    <2> SUFFICES ASSUME NEW i \in DOMAIN stack', stack'[i].op = "leave" PROVE i = 1
      BY DEF LeavesAtBottom
    <2>1. CASE i >= Len(stack)
      BY <1>1, <2>1 DEF NewFrames, SInv, LeavesAtBottom
    <2>2. CASE i \in 1..(Len(stack) - 1)
      BY <1>1, <1>2, <2>2, LikeShows DEF SInv, LeavesAtBottom
    <2> QED BY <1>3, <2>1, <2>2
  <1>5. Inside'
    <2> SUFFICES ASSUME NEW i \in DOMAIN stack', Shows(stack'[i]) \/ stack'[i].op = "event"
                 PROVE  active'[stack'[i].s] # None
      BY DEF Inside, Shows
    <2>1. CASE i >= Len(stack)
      BY <1>1, <2>1 DEF NewFrames
    <2>2. CASE i \in 1..(Len(stack) - 1)
      <3>1. stack[i] \in Frames
        BY <1>1, <2>2 DEF SInv, DInv, TypeOK
      <3>2. Like(stack'[i], stack[i]) /\ i \in DOMAIN stack
        BY <1>1, <1>2, <2>2
      <3>3. stack'[i].s = stack[i].s /\ active[stack[i].s] # None
        BY <3>2, LikeShows DEF SInv, Inside
      <3> QED BY <3>1, <3>3 DEF Frames
    <2> QED BY <1>3, <2>1, <2>2
  <1>6. Owed'
    <2> SUFFICES ASSUME NEW x \in Sessions
                 PROVE  SettledNext(x) \/ OwedNext(x)
      BY DEF Owed, Settled, OwedTo, Owes, Shows, SettledNext, OwedNext
    <2>1. CASE /\ active'[x] = active[x] /\ screen'[x] = screen[x] /\ (x \in failed => x \in failed')
               /\ ~Owes(Top, x)
      <3>1. CASE Settled(x)
        BY <2>1, <3>1 DEF Settled, SettledNext
      <3>2. CASE OwedTo(x)
        <4>1. PICK i \in DOMAIN stack : Owes(stack[i], x)
          BY <3>2 DEF OwedTo
        <4>2. i \in 1..(Len(stack) - 1)
          BY <1>1, <2>1, <4>1
        <4>3. i \in DOMAIN stack' /\ Like(stack'[i], stack[i])
          BY <1>2, <4>2
        <4> QED BY <2>1, <4>1, <4>3 DEF Like, OwedNext, Owes, Shows
      <3> QED BY <3>1, <3>2 DEF SInv, Owed
    <2> QED BY <2>1 DEF StaysOwed
  <1> QED BY <1>4, <1>5, <1>6 DEF SInv

\* A call that may go on in the place of the innermost one.
Fits(f) ==
    /\ f.op = "leave" => Top.op = "leave"
    /\ Shows(f) \/ f.op = "event" => active'[f.s] # None

LEMMA FitsNew ==
    ASSUME DInv, DInv', stack # <<>>
    PROVE  /\ \A f : GoesOnAs(f) /\ Fits(f) => NewFrames
           /\ \A f, g : CallsFrom(f, g) /\ Fits(f) /\ Fits(g) /\ g.op # "leave" => NewFrames
           /\ IsOver => NewFrames
           /\ \A f : GoesOnAs(f) => CallersWait /\ Len(stack') >= Len(stack) - 1
           /\ \A f, g : CallsFrom(f, g) => CallersWait /\ Len(stack') >= Len(stack) - 1
           /\ IsOver => CallersWait /\ Len(stack') >= Len(stack) - 1
  <1>1. Len(stack) \in Nat \ {0} /\ Len(stack') \in Nat /\ DOMAIN stack' = 1..Len(stack')
    BY Innermost DEF DInv, TypeOK
  <1>2. ASSUME NEW f, GoesOnAs(f)
        PROVE  /\ CallersWait /\ Len(stack') >= Len(stack) - 1
               /\ \A i \in DOMAIN stack' : i >= Len(stack) => i = Len(stack) /\ stack'[i] = f
    BY <1>1, <1>2 DEF GoesOnAs
  <1>3. ASSUME NEW f, NEW g, CallsFrom(f, g)
        PROVE  /\ CallersWait /\ Len(stack') >= Len(stack) - 1
               /\ \A i \in DOMAIN stack' : i >= Len(stack) =>
                    \/ i = Len(stack) /\ stack'[i] = f
                    \/ i = Len(stack) + 1 /\ stack'[i] = g
    BY <1>1, <1>3 DEF CallsFrom
  <1>4. ASSUME IsOver
        PROVE  /\ CallersWait /\ Len(stack') >= Len(stack) - 1
               /\ ~\E i \in DOMAIN stack' : i >= Len(stack)
    BY <1>1, <1>4 DEF IsOver
  <1>5. ASSUME NEW f, GoesOnAs(f), Fits(f) PROVE NewFrames
    BY <1>2, <1>5 DEF NewFrames, Fits
  <1>6. ASSUME NEW f, NEW g, CallsFrom(f, g), Fits(f), Fits(g), g.op # "leave" PROVE NewFrames
    BY <1>3, <1>6 DEF NewFrames, Fits
  <1>7. ASSUME IsOver PROVE NewFrames
    BY <1>4, <1>7 DEF NewFrames
  <1> QED BY <1>2, <1>3, <1>4, <1>5, <1>6, <1>7

\* The call that goes on may owe a session its view.
LEMMA OwesNext ==
    ASSUME DInv, DInv', stack # <<>>, NEW f, NEW x, f.s = x, f.d = active'[x], Shows(f)
    PROVE  /\ GoesOnAs(f) => OwedNext(x)
           /\ \A g : CallsFrom(f, g) => OwedNext(x)
  <1>1. Len(stack) \in Nat \ {0} /\ Len(stack') \in Nat /\ DOMAIN stack' = 1..Len(stack')
    BY Innermost DEF DInv, TypeOK
  <1>2. ASSUME Len(stack) \in DOMAIN stack', stack'[Len(stack)] = f PROVE OwedNext(x)
    BY <1>2 DEF OwedNext
  <1>3. GoesOnAs(f) => Len(stack) \in DOMAIN stack' /\ stack'[Len(stack)] = f
    BY <1>1 DEF GoesOnAs
  <1>4. ASSUME NEW g, CallsFrom(f, g) PROVE Len(stack) \in DOMAIN stack' /\ stack'[Len(stack)] = f
    BY <1>1, <1>4 DEF CallsFrom
  <1> QED BY <1>2, <1>3, <1>4

LEMMA OthersStay ==
    ASSUME NEW x, active'[x] = active[x], screen'[x] = screen[x], x \in failed => x \in failed',
           x # Top.s \/ ~Shows(Top)
    PROVE  StaysOwed(x)
  BY DEF StaysOwed, Owes

\* A call that shows a session nothing itself.
LEMMA QuietKeeps ==
    ASSUME SInv, stack # <<>>, DInv', NewFrames, CallersWait, Len(stack') >= Len(stack) - 1,
           UNCHANGED <<active, screen>>, failed \subseteq failed', ~Shows(Top)
    PROVE  SInv'
  BY OthersStay, SKeeps

\* The hook of a call that goes on with it, or the same call later on.
LEMMA HookFits ==
    ASSUME DInv, DInv', stack # <<>>, NEW s, NEW d, NEW life, NEW b, NEW at, NEW fan,
           HookCalled(s, d, life, b, at, fan),
           Top.op = "leave" => at # "joined",
           Top.op = "render" \/ Top.op = "event" \/ at = "joined" => active'[Top.s] # None
    PROVE  NewFrames /\ CallersWait /\ Len(stack') >= Len(stack) - 1 /\ failed' = failed
  <1>1. PICK f, g : /\ CallsFrom(f, g) /\ IsTopAt(f, at)
                    /\ IsCall(g, "effects", "apply", s, d, b) /\ failed' = failed
    BY DEF HookCalled
  <1>2. Fits(f) /\ Fits(g) /\ g.op # "leave"
    BY <1>1 DEF Fits, IsTopAt, IsCall, Shows
  <1> QED BY <1>1, <1>2, FitsNew

LEMMA ProceedsFits ==
    ASSUME DInv, DInv', stack # <<>>, NEW at, Proceeds(at), at # "joined",
           Top.op = "render" \/ Top.op = "event" => active'[Top.s] # None
    PROVE  NewFrames /\ CallersWait /\ Len(stack') >= Len(stack) - 1 /\ failed' = failed
  <1>1. PICK f : GoesOnAs(f) /\ IsTopAt(f, at) /\ failed' = failed
    BY DEF Proceeds
  <1>2. Fits(f)
    BY <1>1 DEF Fits, IsTopAt, Shows
  <1> QED BY <1>1, <1>2, FitsNew

LEMMA TurnsFits ==
    ASSUME DInv, DInv', stack # <<>>, NEW op, NEW at, NEW s, NEW d, NEW b,
           TurnsInto(op, at, s, d, b), op = "render" \/ (op = "open" /\ at = "check"),
           op = "render" => active'[s] # None
    PROVE  /\ NewFrames /\ CallersWait /\ Len(stack') >= Len(stack) - 1 /\ failed' = failed
           /\ op = "render" /\ d = active'[s] => OwedNext(s)
  <1>1. PICK f : GoesOnAs(f) /\ IsCall(f, op, at, s, d, b) /\ failed' = failed
    BY DEF TurnsInto
  <1>2. Fits(f) /\ f.s = s /\ f.d = d /\ (op = "render" => Shows(f))
    BY <1>1 DEF Fits, IsCall, Shows
  <1> QED BY <1>1, <1>2, FitsNew, OwesNext

LEMMA WalksFits ==
    ASSUME DInv, DInv', stack # <<>>, NEW at, Walks(at), UNCHANGED active, Top.op # "open",
           Top.op = "render" \/ Top.op = "event" => active[Top.s] # None
    PROVE  NewFrames /\ CallersWait /\ Len(stack') >= Len(stack) - 1 /\ failed' = failed
  <1>1. PICK t, f :
        /\ t \in Top.todo
        /\ IsTopAt(f, at) /\ failed' = failed
        /\ \/ GoesOnAs(f)
           \/ \E g : /\ active[t] \in doors
                     /\ CallsFrom(f, g)
                     /\ IsCall(g, "render", "view", t, active[t], MaxTransitions)
    BY DEF Walks
  <1>2. Fits(f)
    BY <1>1 DEF Fits, IsTopAt, Shows
  <1>3. CASE GoesOnAs(f)
    BY <1>1, <1>2, <1>3, FitsNew
  <1>4. ASSUME NEW g, active[t] \in doors, CallsFrom(f, g),
               IsCall(g, "render", "view", t, active[t], MaxTransitions)
        PROVE  NewFrames /\ CallersWait /\ Len(stack') >= Len(stack) - 1
    <2>1. active[t] # None
      BY <1>4, DoorAssumption DEF DInv, TypeOK
    <2>2. Fits(g) /\ g.op # "leave"
      BY <1>4, <2>1 DEF Fits, IsCall
    <2> QED BY <1>2, <1>4, <2>2, FitsNew
  <1> QED BY <1>1, <1>3, <1>4

LEMMA CheckOpenSettles ==
    ASSUME SInv, DInv', CheckOpen PROVE SInv'
  <1>1. /\ stack # <<>> /\ Top.op = "open" /\ Top.at = "check" /\ UNCHANGED <<active, screen>>
        /\ \/ \E at \in {"leave", "enter"} : Proceeds(at)
           \/ ReturnsError
    BY CheckOpenShape DEF SInv
  <1>2. CASE \E at \in {"leave", "enter"} : Proceeds(at)
    BY <1>1, <1>2, ProceedsFits, QuietKeeps DEF SInv, Shows
  <1>3. CASE ReturnsError
    BY <1>1, <1>3, FitsNew, QuietKeeps DEF SInv, Shows, ReturnsError
  <1> QED BY <1>1, <1>2, <1>3

LEMMA LeaveOldSettles ==
    ASSUME SInv, DInv', LeaveOld PROVE SInv'
  <1>1. /\ stack # <<>> /\ Top.op = "open" /\ Top.at = "leave" /\ UNCHANGED <<active, screen>>
        /\ \/ HookCalled(Top.s, active[Top.s], "on_leave", Top.b, "enter", TRUE)
           \/ Proceeds("enter")
    BY LeaveOldShape DEF SInv
  <1> QED BY <1>1, HookFits, ProceedsFits, QuietKeeps DEF SInv, Shows

\* A hook that is called by a call that will still show the session its door.
LEMMA HookOwes ==
    ASSUME DInv, DInv', stack # <<>>, NEW s, NEW d, NEW life, NEW b, NEW at, NEW fan,
           HookCalled(s, d, life, b, at, fan), Top.d = active'[Top.s],
           Top.op = "render" \/ (Top.op = "open" /\ at = "joined")
    PROVE  OwedNext(Top.s)
  <1>1. PICK f, g : CallsFrom(f, g) /\ IsTopAt(f, at)
    BY DEF HookCalled
  <1> QED BY <1>1, OwesNext DEF IsTopAt, Shows

LEMMA EnterDoorSettles ==
    ASSUME SInv, DInv', EnterDoor PROVE SInv'
  <1>1. /\ stack # <<>> /\ Top.op = "open" /\ Top.at = "enter" /\ UNCHANGED screen
        /\ active' = [active EXCEPT ![Top.s] = Top.d]
        /\ \/ TurnsInto("render", "view", Top.s, Top.d, Top.b)
           \/ HookCalled(Top.s, Top.d, "on_join", Top.b, "joined", TRUE)
           \/ ReturnsError
    BY EnterDoorShape DEF SInv
  <1>2. /\ active'[Top.s] = Top.d /\ Top.d # None /\ Top.s \in Sessions
        /\ \A x \in Sessions \ {Top.s} : active'[x] = active[x]
    BY <1>1, TopOf, DoorAssumption DEF SInv, DInv, TypeOK
  <1>3. /\ NewFrames /\ CallersWait /\ Len(stack') >= Len(stack) - 1 /\ failed \subseteq failed'
        /\ SettledNext(Top.s) \/ OwedNext(Top.s)
    <2>1. CASE TurnsInto("render", "view", Top.s, Top.d, Top.b)
      BY <1>1, <1>2, <2>1, TurnsFits DEF SInv
    <2>2. CASE HookCalled(Top.s, Top.d, "on_join", Top.b, "joined", TRUE)
      BY <1>1, <1>2, <2>2, HookFits, HookOwes DEF SInv
    <2>3. CASE ReturnsError
      <3>1. /\ NewFrames /\ CallersWait /\ Len(stack') >= Len(stack) - 1
            /\ failed' = failed \cup {Top.s}
        BY <1>1, <2>3, FitsNew DEF SInv, ReturnsError
      <3>2. SettledNext(Top.s)
        BY <3>1 DEF SettledNext
      <3> QED BY <3>1, <3>2
    <2> QED BY <1>1, <2>1, <2>2, <2>3
  <1>4. \A x \in Sessions : StaysOwed(x)
    BY <1>1, <1>2, <1>3, OthersStay DEF StaysOwed
  <1>5. \A s \in Sessions : active'[s] = None => active[s] = None
    BY <1>2
  <1> QED BY <1>1, <1>3, <1>4, <1>5, SKeeps DEF SInv

\* A call that fails, or returns because the session is elsewhere by now.
LEMMA ErrorKeeps ==
    ASSUME SInv, stack # <<>>, DInv', ReturnsError, UNCHANGED <<active, screen>>
    PROVE  SInv'
  <1>1. failed' = failed \cup {Top.s} /\ IsOver
    BY DEF ReturnsError
  <1>2. SettledNext(Top.s)
    BY <1>1 DEF SettledNext
  <1>3. \A x \in Sessions : StaysOwed(x)
    BY <1>1, <1>2, OthersStay DEF StaysOwed
  <1> QED BY <1>1, <1>3, FitsNew, SKeeps DEF SInv

LEMMA ElsewhereKeeps ==
    ASSUME SInv, stack # <<>>, DInv', Returns, Moved(Top.s, Top.d), UNCHANGED <<active, screen>>
    PROVE  SInv'
  <1>1. failed' = failed /\ IsOver
    BY DEF Returns
  <1>2. \A x \in Sessions : StaysOwed(x)
    BY <1>1 DEF StaysOwed, Moved, Owes
  <1> QED BY <1>1, <1>2, FitsNew, SKeeps DEF SInv

LEMMA SentKeeps ==
    ASSUME SInv, stack # <<>>, DInv', IsOver, NEW view, WriteRender(Top.s, view),
           UNCHANGED active, view \in {active[Top.s], Default}
    PROVE  SInv'
  <1>1. /\ Top.s \in Sessions /\ failed' = failed \ {Top.s}
        /\ screen' = [screen EXCEPT ![Top.s] = view]
    BY TopOf DEF SInv, WriteRender
  <1>2. SettledNext(Top.s) /\ \A x \in Sessions \ {Top.s} : screen'[x] = screen[x]
    BY <1>1 DEF SettledNext, SInv, DInv, TypeOK
  <1>3. \A x \in Sessions : StaysOwed(x)
    BY <1>1, <1>2, OthersStay DEF StaysOwed
  <1> QED BY <1>3, FitsNew, SKeeps DEF SInv

\* The session of a call that shows it a door is in one.
LEMMA TopInside ==
    ASSUME SInv, stack # <<>>
    PROVE  /\ Shows(Top) \/ Top.op = "event" => active[Top.s] # None
           /\ Shows(Top) \/ Top.op = "event" => (Moved(Top.s, Top.d) <=> active[Top.s] # Top.d)
  BY Innermost DEF SInv, Inside, Moved, DInv, TypeOK

LEMMA JoinedSettles ==
    ASSUME SInv, DInv', Joined PROVE SInv'
  <1>1. /\ stack # <<>> /\ Top.op = "open" /\ Top.at = "joined" /\ UNCHANGED <<active, screen>>
        /\ \/ ReturnsError
           \/ Moved(Top.s, Top.d) /\ Returns
           \/ ~Moved(Top.s, Top.d) /\ TurnsInto("render", "view", Top.s, Top.d, Top.b)
    BY JoinedShape DEF SInv, Idles, shown
  <1>2. CASE ~Moved(Top.s, Top.d) /\ TurnsInto("render", "view", Top.s, Top.d, Top.b)
    <2>1. active[Top.s] # None /\ active[Top.s] = Top.d
      BY <1>1, <1>2, TopInside DEF Shows
    <2>2. /\ NewFrames /\ CallersWait /\ Len(stack') >= Len(stack) - 1 /\ failed' = failed
          /\ OwedNext(Top.s)
      BY <1>1, <1>2, <2>1, TurnsFits DEF SInv
    <2>3. \A x \in Sessions : StaysOwed(x)
      BY <1>1, <2>2, OthersStay DEF StaysOwed
    <2> QED BY <1>1, <2>2, <2>3, SKeeps DEF SInv
  <1> QED BY <1>1, <1>2, ErrorKeeps, ElsewhereKeeps

LEMMA InvokeViewSettles ==
    ASSUME SInv, DInv', InvokeView PROVE SInv'
  <1>1. /\ stack # <<>> /\ Top.op = "render" /\ Top.at = "view" /\ UNCHANGED <<active, screen>>
        /\ \/ HookCalled(Top.s, Top.d, "view", Top.b, "viewed", FALSE)
           \/ ReturnsError
    BY InvokeViewShape DEF SInv, Idles, shown
  <1>2. CASE HookCalled(Top.s, Top.d, "view", Top.b, "viewed", FALSE)
    <2>1. active[Top.s] # None
      BY <1>1, TopInside DEF Shows
    <2>2. /\ NewFrames /\ CallersWait /\ Len(stack') >= Len(stack) - 1 /\ failed' = failed
      BY <1>1, <1>2, <2>1, HookFits DEF SInv
    <2>3. Top.d = active[Top.s] => OwedNext(Top.s)
      BY <1>1, <1>2, HookOwes DEF SInv
    <2>4. \A x \in Sessions : StaysOwed(x)
      BY <1>1, <2>2, <2>3 DEF StaysOwed, Owes
    <2> QED BY <1>1, <2>2, <2>4, SKeeps DEF SInv
  <1> QED BY <1>1, <1>2, ErrorKeeps

LEMMA ViewedSettles ==
    ASSUME SInv, DInv', Viewed PROVE SInv'
  <1>1. /\ stack # <<>> /\ Top.op = "render" /\ UNCHANGED active
        /\ \/ ReturnsError /\ UNCHANGED screen
           \/ Moved(Top.s, Top.d) /\ Returns /\ UNCHANGED screen
           \/ ~Moved(Top.s, Top.d) /\ IsOver /\ WriteRender(Top.s, Top.d)
    BY ViewedShape DEF SInv
  <1>2. active[Top.s] # None /\ (~Moved(Top.s, Top.d) => active[Top.s] = Top.d)
    BY <1>1, TopInside DEF Shows
  <1> QED BY <1>1, <1>2, ErrorKeeps, ElsewhereKeeps, SentKeeps

LEMMA ApplyEffectsSettles ==
    ASSUME SInv, DInv', ApplyEffects PROVE SInv'
  <1>1. /\ stack # <<>> /\ Top.op = "effects" /\ UNCHANGED <<active, screen>>
        /\ \/ ReturnsError
           \/ TurnsInto("open", "check", Top.s, Top.answer.to, Top.b - 1)
           \/ failed' = failed /\ \E f : GoesOnAs(f) /\ IsTopAt(f, "profile")
    BY ApplyEffectsShape DEF SInv
  <1>2. CASE TurnsInto("open", "check", Top.s, Top.answer.to, Top.b - 1)
    BY <1>1, <1>2, TurnsFits, QuietKeeps DEF SInv, Shows
  <1>3. CASE failed' = failed /\ \E f : GoesOnAs(f) /\ IsTopAt(f, "profile")
    <2>1. PICK f : GoesOnAs(f) /\ IsTopAt(f, "profile")
      BY <1>3
    <2>2. Fits(f)
      BY <1>1, <2>1 DEF Fits, IsTopAt, Shows
    <2> QED BY <1>1, <1>3, <2>1, <2>2, FitsNew, QuietKeeps DEF SInv, Shows
  <1> QED BY <1>1, <1>2, <1>3, ErrorKeeps

LEMMA RenderPeersSettles ==
    ASSUME SInv, DInv', RenderPeers PROVE SInv'
  <1>1. /\ stack # <<>> /\ Top.op = "effects" /\ UNCHANGED <<active, screen>>
        /\ \/ ReturnsError
           \/ Walks(Top.at)
           \/ Returns
           \/ failed' = failed /\ \E f : GoesOnAs(f) /\ IsTopAt(f, "room")
    BY RenderPeersShape DEF SInv, Idles, shown
  <1>2. CASE Walks(Top.at)
    BY <1>1, <1>2, WalksFits, QuietKeeps DEF SInv, Shows
  <1>3. CASE Returns
    BY <1>1, <1>3, FitsNew, QuietKeeps DEF SInv, Shows, Returns
  <1>4. CASE failed' = failed /\ \E f : GoesOnAs(f) /\ IsTopAt(f, "room")
    <2>1. PICK f : GoesOnAs(f) /\ IsTopAt(f, "room")
      BY <1>4
    <2>2. Fits(f)
      BY <1>1, <2>1 DEF Fits, IsTopAt, Shows
    <2> QED BY <1>1, <1>4, <2>1, <2>2, FitsNew, QuietKeeps DEF SInv, Shows
  <1> QED BY <1>1, <1>2, <1>3, <1>4, ErrorKeeps

LEMMA InvokeUpdateSettles ==
    ASSUME SInv, DInv', InvokeUpdate PROVE SInv'
  <1>1. /\ stack # <<>> /\ Top.op = "event" /\ UNCHANGED <<active, screen>>
        /\ \/ HookCalled(Top.s, Top.d, "update", MaxTransitions, "updated", TRUE)
           \/ ReturnsError
    BY InvokeUpdateShape DEF SInv, Idles, shown
  <1>2. active[Top.s] # None
    BY <1>1, TopInside
  <1> QED BY <1>1, <1>2, HookFits, QuietKeeps, ErrorKeeps DEF SInv, Shows

LEMMA UpdatedSettles ==
    ASSUME SInv, DInv', Updated PROVE SInv'
  <1>1. /\ stack # <<>> /\ Top.op = "event" /\ UNCHANGED active
        /\ \/ ReturnsError /\ UNCHANGED screen
           \/ Moved(Top.s, Top.d) /\ Returns /\ UNCHANGED screen
           \/ ~Moved(Top.s, Top.d) /\ IsOver /\ WriteRender(Top.s, Top.d)
           \/ /\ failed' = failed /\ UNCHANGED screen
              /\ \E f : GoesOnAs(f) /\ \E at \in {"update", "settings"} : IsTopAt(f, at)
    BY UpdatedShape DEF SInv
  <1>2. active[Top.s] # None /\ (~Moved(Top.s, Top.d) => active[Top.s] = Top.d)
    BY <1>1, TopInside
  <1>3. CASE /\ failed' = failed /\ UNCHANGED screen
             /\ \E f : GoesOnAs(f) /\ \E at \in {"update", "settings"} : IsTopAt(f, at)
    <2>1. PICK f : GoesOnAs(f) /\ \E at \in {"update", "settings"} : IsTopAt(f, at)
      BY <1>3
    <2>2. Fits(f)
      BY <1>1, <1>2, <2>1 DEF Fits, IsTopAt, Shows
    <2> QED BY <1>1, <1>3, <2>1, <2>2, FitsNew, QuietKeeps DEF SInv, Shows
  <1> QED BY <1>1, <1>2, <1>3, ErrorKeeps, ElsewhereKeeps, SentKeeps

LEMMA RenderChangedSettles ==
    ASSUME SInv, DInv', RenderChanged PROVE SInv'
  <1>1. /\ stack # <<>> /\ Top.op = "event" /\ UNCHANGED <<active, screen>>
        /\ \/ ReturnsError
           \/ Walks("settings")
           \/ TurnsInto("render", "view", Top.s, Top.d, MaxTransitions)
    BY RenderChangedShape DEF SInv, Idles, shown
  <1>2. active[Top.s] # None
    BY <1>1, TopInside
  <1>3. CASE Walks("settings")
    BY <1>1, <1>2, <1>3, WalksFits, QuietKeeps DEF SInv, Shows
  <1>4. CASE TurnsInto("render", "view", Top.s, Top.d, MaxTransitions)
    BY <1>1, <1>2, <1>4, TurnsFits, QuietKeeps DEF SInv, Shows
  <1> QED BY <1>1, <1>3, <1>4, ErrorKeeps

LEMMA OpenInitialSettles ==
    ASSUME SInv, DInv', OpenInitial PROVE SInv'
  <1>1. /\ stack # <<>> /\ Top.op = "connect" /\ UNCHANGED <<active, screen>> /\ failed' = failed
    BY OpenInitialShape DEF SInv, Idles, shown
  <1>2. PICK f, g : /\ CallsFrom(f, g) /\ IsTopAt(f, "opened")
                    /\ IsCall(g, "open", "check", Top.s, Top.d, MaxTransitions)
    BY OpenInitialShape DEF SInv
  <1>3. Fits(f) /\ Fits(g) /\ g.op # "leave"
    BY <1>1, <1>2 DEF Fits, IsTopAt, IsCall, Shows
  <1> QED BY <1>1, <1>2, <1>3, FitsNew, QuietKeeps DEF SInv, Shows

LEMMA InitialOpenedSettles ==
    ASSUME SInv, DInv', InitialOpened PROVE SInv'
  <1>1. /\ stack # <<>> /\ Top.op = "connect" /\ UNCHANGED active
        /\ \/ IsOver /\ WriteRender(Top.s, Default)
           \/ Returns /\ UNCHANGED screen
    BY InitialOpenedShape DEF SInv
  <1>2. CASE Returns /\ UNCHANGED screen
    BY <1>1, <1>2, FitsNew, QuietKeeps DEF SInv, Shows, Returns
  <1> QED BY <1>1, <1>2, SentKeeps

LEMMA LeaveLastSettles ==
    ASSUME SInv, DInv', LeaveLast PROVE SInv'
  <1>1. /\ stack # <<>> /\ Top.op = "leave" /\ UNCHANGED <<active, screen>>
        /\ \/ HookCalled(Top.s, Top.d, "on_leave", MaxTransitions, "left", TRUE)
           \/ Proceeds("left")
    BY LeaveLastShape DEF SInv
  <1>2. CASE HookCalled(Top.s, Top.d, "on_leave", MaxTransitions, "left", TRUE)
    <2>1. /\ DInv /\ stack # <<>> /\ "left" # "joined"
          /\ Top.op # "render" /\ Top.op # "event"
      BY <1>1 DEF SInv
    <2>2. NewFrames /\ CallersWait /\ Len(stack') >= Len(stack) - 1 /\ failed' = failed
      BY <1>2, <2>1, HookFits
    <2> QED BY <1>1, <2>2, QuietKeeps DEF Shows
  <1>3. CASE Proceeds("left")
    BY <1>1, <1>3, ProceedsFits, QuietKeeps DEF SInv, Shows
  <1> QED BY <1>1, <1>2, <1>3

\* The stay of a session ends with the handler: no call is left.
LEMMA LeftLastSettles ==
    ASSUME SInv, DInv', LeftLast PROVE SInv'
  <1>1. /\ stack # <<>> /\ Top.op = "leave" /\ IsOver /\ Top.s \in Sessions
        /\ active' = [active EXCEPT ![Top.s] = None]
        /\ screen' = [screen EXCEPT ![Top.s] = None]
        /\ failed' = failed \ {Top.s}
    BY LeftLastShape, TopOf DEF SInv
  <1>2. Len(stack) \in Nat \ {0} /\ stack[Len(stack)] = Top /\ DOMAIN stack = 1..Len(stack)
    BY <1>1, Innermost DEF SInv, DInv, TypeOK
  <1>3. Len(stack) = 1
    BY <1>1, <1>2 DEF SInv, LeavesAtBottom
  <1>4. DOMAIN stack' = {} /\ ~Shows(Top)
    BY <1>1, <1>3 DEF IsOver, DInv, TypeOK, Shows
  <1>5. \A x \in Sessions : Settled(x)
    BY <1>2, <1>3, <1>4 DEF SInv, Owed, OwedTo, Owes
  <1>6. \A x \in Sessions : Settled(x)'
    BY <1>1, <1>5 DEF Settled, SInv, DInv, TypeOK
  <1>7. Owed'
    BY <1>6 DEF Owed
  <1> QED BY <1>4, <1>7 DEF SInv, LeavesAtBottom, Inside

LEMMA MessageSettles ==
    ASSUME SInv, DInv', Message PROVE SInv'
  <1>1. /\ stack = <<>> /\ UNCHANGED <<active, screen, failed>>
        /\ \E f : /\ stack' = <<f>> /\ ~Shows(f)
                  /\ f.op = "event" => active[f.s] # None
    <2>1. ASSUME NEW s \in Sessions, Connect(s)
          PROVE  UNCHANGED <<active, screen, failed>> /\ \E f : Start(f) /\ f.op = "connect"
      BY <2>1 DEF Connect, shown, Call
    <2>2. ASSUME NEW s \in Sessions, Event(s)
          PROVE  /\ UNCHANGED <<active, screen, failed>> /\ active[s] # None
                 /\ \E f : Start(f) /\ f.op = "event" /\ f.s = s
      <3>1. active[s] # None
        BY <2>2, DoorAssumption DEF Event, SInv, DInv, TypeOK
      <3>2. Start(Call("event", "update", s, active[s], MaxTransitions))
        BY <2>2 DEF Event
      <3>3. /\ Call("event", "update", s, active[s], MaxTransitions).op = "event"
            /\ Call("event", "update", s, active[s], MaxTransitions).s = s
        BY DEF Call
      <3> QED BY <2>2, <3>1, <3>2, <3>3 DEF Event, shown
    <2>3. ASSUME NEW s \in Sessions, Leave(s)
          PROVE  UNCHANGED <<active, screen, failed>> /\ \E f : Start(f) /\ f.op = "leave"
      BY <2>3 DEF Leave, shown, Call
    <2>4. ASSUME NEW s \in Sessions, NEW d \in Doors, OpenDoor(s, d)
          PROVE  /\ UNCHANGED <<active, screen, failed>>
                 /\ \E f : Start(f) /\ f.op = "open" /\ f.at = "check"
      BY <2>4 DEF OpenDoor, shown, Call
    <2> QED BY <2>1, <2>2, <2>3, <2>4 DEF Message, Start, Shows
  <1>2. PICK f : stack' = <<f>> /\ ~Shows(f) /\ (f.op = "event" => active[f.s] # None)
    BY <1>1
  <1>3. DOMAIN stack = {} /\ DOMAIN stack' = {1} /\ stack'[1] = f
    BY <1>1, <1>2
  <1>4. \A x \in Sessions : Settled(x)
    BY <1>3 DEF SInv, Owed, OwedTo
  <1>5. Owed'
    BY <1>1, <1>4 DEF Owed, Settled
  <1>6. Inside'
    BY <1>1, <1>2, <1>3 DEF Inside, Shows
  <1> QED BY <1>3, <1>5, <1>6 DEF SInv, LeavesAtBottom

LEMMA NextSettles ==
    ASSUME SInv, [Next]_vars PROVE SInv'
  <1>1. DInv'
    BY NextKeeps DEF SInv
  <1>2. CASE Step
    BY <1>1, <1>2, CheckOpenSettles, LeaveOldSettles, EnterDoorSettles, JoinedSettles,
       InvokeViewSettles, ViewedSettles, ApplyEffectsSettles, RenderPeersSettles,
       InvokeUpdateSettles, UpdatedSettles, RenderChangedSettles, OpenInitialSettles,
       InitialOpenedSettles, LeaveLastSettles, LeftLastSettles DEF Step
  <1>3. CASE Message
    BY <1>1, <1>3, MessageSettles
  <1>4. CASE Environment \/ UNCHANGED vars
    <2>1. UNCHANGED <<stack, active, screen, failed>>
      BY <1>4 DEF Environment, OpenExpires, SetDoorEnabled, vars, shown
    <2> QED BY <1>1, <2>1 DEF SInv, LeavesAtBottom, Inside, Shows, Owed, OwedTo, Owes, Settled
  <1> QED BY <1>2, <1>3, <1>4 DEF Next

LEMMA InitSettles == Init => SInv
  <1> SUFFICES ASSUME Init PROVE SInv
    OBVIOUS
  <1>1. DInv /\ DOMAIN stack = {}
    BY InitHolds DEF Init
  <1>2. Owed
    BY DEF Init, Owed, Settled
  <1> QED BY <1>1, <1>2 DEF SInv, LeavesAtBottom, Inside

\* Whatever doors the hooks lead to, whoever else is rendered on the way, and
\* whatever fails, is disabled or is reloaded meanwhile, a session that was told
\* of no error is shown the door it is in (OpenDoor, renderDoor, executeEffects).
THEOREM ScreenAlwaysFollows == Spec => []ScreenFollowsDoor
  <1>1. Init => SInv
    BY InitSettles
  <1>2. SInv /\ [Next]_vars => SInv'
    BY NextSettles
  <1>3. SInv => ScreenFollowsDoor
    <2>1. Idle => DOMAIN stack = {}
      BY DEF Idle
    <2>2. SInv /\ Idle => \A s \in Sessions : Settled(s)
      BY <2>1 DEF SInv, Owed, OwedTo
    <2> QED BY <2>2 DEF ScreenFollowsDoor, Settled, SInv, DInv, TypeOK
  <1> QED BY <1>1, <1>2, <1>3, PTL DEF Spec

-----------------------------------------------------------------------------
(* No render loops *)

\* What call g may be that is made, directly or not, by render f.
Inner(f, g) ==
    /\ g.s = f.s /\ g.b <= f.b
    /\ g.op \in {"open", "render", "effects"}
    /\ g.op \in {"open", "render"} => g.b < f.b
    /\ g.op = "open" => SomeViewMoves
    /\ g.op = "effects" =>
         /\ g.todo = {} /\ "profile" \notin g.answer.asks
         /\ g.fan => "broadcast" \notin g.answer.asks
         /\ "move" \in g.answer.asks => SomeViewMoves

Nested ==
    \A i, j \in DOMAIN stack : i < j /\ stack[i].op = "render" => Inner(stack[i], stack[j])

LInv == DInv /\ Nested

\* A frame that may take the place of the innermost call.
Within(f) == \A i \in 1..(Len(stack) - 1) : stack[i].op = "render" => Inner(stack[i], f)

LEMMA LikeInner ==
    ASSUME NEW f, NEW g, NEW h, NEW k, Like(f, g), Like(h, k), Inner(g, k)
    PROVE  Inner(f, h)
  BY DEF Like, Inner

LEMMA LikeInnerOne ==
    ASSUME NEW f, NEW g, NEW h, Like(f, g), Inner(g, h)
    PROVE  Inner(f, h)
  BY DEF Like, Inner

LEMMA TopWithin ==
    ASSUME LInv, stack # <<>>
    PROVE  Within(Top)
  <1>1. Len(stack) \in Nat \ {0} /\ DOMAIN stack = 1..Len(stack) /\ stack[Len(stack)] = Top
    BY Innermost DEF LInv, DInv, TypeOK
  <1>2. \A i \in 1..(Len(stack) - 1) : i \in DOMAIN stack /\ i < Len(stack)
    BY <1>1
  <1> QED BY <1>1, <1>2 DEF LInv, Nested, Within

LEMMA NestedKeeps ==
    ASSUME LInv, stack # <<>>, DInv'
    PROVE  /\ \A f : GoesOnAs(f) /\ Within(f) => LInv'
           /\ \A f, g : /\ CallsFrom(f, g) /\ Within(f) /\ Within(g)
                        /\ f.op = "render" => Inner(f, g)
                        => LInv'
           /\ IsOver => LInv'
  <1>1. Len(stack) \in Nat \ {0} /\ Len(stack') \in Nat
        /\ DOMAIN stack = 1..Len(stack) /\ DOMAIN stack' = 1..Len(stack')
    BY Innermost DEF LInv, DInv, TypeOK
  <1>2. ASSUME CallersWait, NEW i \in 1..(Len(stack) - 1), NEW j \in 1..(Len(stack) - 1),
               i < j, stack'[i].op = "render"
        PROVE  Inner(stack'[i], stack'[j])
    <2>1. Like(stack'[i], stack[i]) /\ Like(stack'[j], stack[j])
      BY <1>2 DEF CallersWait
    <2>2. stack[i].op = "render" /\ i \in DOMAIN stack /\ j \in DOMAIN stack
      BY <1>1, <1>2, <2>1 DEF Like
    <2>3. Inner(stack[i], stack[j])
      BY <1>2, <2>2 DEF LInv, Nested
    <2> QED BY <2>1, <2>3, LikeInner
  <1>3. ASSUME CallersWait, NEW i \in 1..(Len(stack) - 1), NEW f, Within(f), stack'[i].op = "render"
        PROVE  Inner(stack'[i], f)
    <2>1. Like(stack'[i], stack[i])
      BY <1>3 DEF CallersWait
    <2>2. Inner(stack[i], f)
      BY <1>3, <2>1 DEF Within, Like
    <2> QED BY <2>1, <2>2, LikeInnerOne
  <1>4. ASSUME NEW f, GoesOnAs(f), Within(f) PROVE LInv'
    <2> SUFFICES ASSUME NEW i \in DOMAIN stack', NEW j \in DOMAIN stack', i < j,
                        stack'[i].op = "render"
                 PROVE  Inner(stack'[i], stack'[j])
      BY DEF LInv, Nested, Inner
    <2>1. i \in 1..(Len(stack) - 1) /\ (j \in 1..(Len(stack) - 1) \/ stack'[j] = f)
      BY <1>1, <1>4 DEF GoesOnAs
    <2> QED BY <1>2, <1>3, <1>4, <2>1 DEF GoesOnAs
  <1>5. ASSUME NEW f, NEW g, CallsFrom(f, g), Within(f), Within(g),
               f.op = "render" => Inner(f, g)
        PROVE  LInv'
    <2> SUFFICES ASSUME NEW i \in DOMAIN stack', NEW j \in DOMAIN stack', i < j,
                        stack'[i].op = "render"
                 PROVE  Inner(stack'[i], stack'[j])
      BY DEF LInv, Nested, Inner
    <2>1. \/ /\ i \in 1..(Len(stack) - 1)
             /\ j \in 1..(Len(stack) - 1) \/ stack'[j] = f \/ stack'[j] = g
          \/ stack'[i] = f /\ stack'[j] = g
      BY <1>1, <1>5 DEF CallsFrom
    <2> QED BY <1>2, <1>3, <1>5, <2>1 DEF CallsFrom
  <1>6. ASSUME IsOver PROVE LInv'
    <2> SUFFICES ASSUME NEW i \in DOMAIN stack', NEW j \in DOMAIN stack', i < j,
                        stack'[i].op = "render"
                 PROVE  Inner(stack'[i], stack'[j])
      BY DEF LInv, Nested, Inner
    <2>1. i \in 1..(Len(stack) - 1) /\ j \in 1..(Len(stack) - 1)
      BY <1>1, <1>6 DEF IsOver
    <2> QED BY <1>2, <1>6, <2>1 DEF IsOver
  <1> QED BY <1>4, <1>5, <1>6

\* Inside a render nothing is delivered, connected or left, and no other session
\* is rendered.
NoRenderBelow == \A i \in 1..(Len(stack) - 1) : stack[i].op # "render"

LEMMA NothingInside ==
    ASSUME LInv, stack # <<>>,
           Top.op \in {"event", "connect", "leave"} \/ (Top.op = "effects" /\ Top.todo # {})
                \/ (Top.op = "effects" /\ "profile" \in Top.answer.asks)
                \/ (Top.op = "effects" /\ Top.fan /\ "broadcast" \in Top.answer.asks)
    PROVE  NoRenderBelow
  BY TopWithin DEF Within, Inner, NoRenderBelow

LEMMA AloneWithin ==
    ASSUME NoRenderBelow, NEW f
    PROVE  Within(f)
  BY DEF NoRenderBelow, Within

\* The call itself, later on.
LEMMA SameWithin ==
    ASSUME LInv, stack # <<>>, NEW f, NEW at, IsTopAt(f, at), Top.op # "effects"
    PROVE  Within(f)
  BY TopWithin DEF Within, Inner, IsTopAt

LEMMA HookWithin ==
    ASSUME LInv, stack # <<>>, DInv', NEW at, NEW d, NEW life, NEW fan,
           HookCalled(Top.s, d, life, Top.b, at, fan), ViewsRenderNobody,
           \/ Top.op = "open" /\ life \in {"on_join", "on_leave"}
           \/ Top.op = "render" /\ life = "view" /\ ~fan
    PROVE  LInv'
  <1>1. PICK f, g :
        /\ CallsFrom(f, g)
        /\ IsTopAt(f, at) /\ f.todo = Top.todo /\ ~f.late
        /\ IsCall(g, "effects", "apply", Top.s, d, Top.b) /\ g.fan = fan
        /\ g.answer.asks \in Asks[life]
    BY DEF HookCalled
  <1>2. Within(f)
    BY <1>1, SameWithin
  <1>3. Top.b \in Int
    BY TopOf DEF LInv
  <1>4. CASE Top.op = "open" /\ life \in {"on_join", "on_leave"}
    <2>1. ASSUME SomeViewMoves PROVE g.answer.asks \cap {"profile", "broadcast"} = {}
      BY <1>1, <1>4, <2>1 DEF ViewsRenderNobody
    <2>2. Within(g)
      <3> SUFFICES ASSUME NEW i \in 1..(Len(stack) - 1), stack[i].op = "render"
                   PROVE  Inner(stack[i], g)
        BY DEF Within
      <3>1. Inner(stack[i], Top)
        BY TopWithin DEF Within
      <3> QED BY <1>1, <1>4, <2>1, <3>1 DEF Inner, IsCall
    <2>3. f.op # "render"
      BY <1>1, <1>4 DEF IsTopAt
    <2> QED BY <1>1, <1>2, <2>2, <2>3, NestedKeeps
  <1>5. CASE Top.op = "render" /\ life = "view" /\ ~fan
    <2>1. /\ "profile" \notin g.answer.asks
          /\ "move" \in g.answer.asks => SomeViewMoves
      BY <1>1, <1>5 DEF ViewsRenderNobody, SomeViewMoves
    <2>2. Within(g)
      <3> SUFFICES ASSUME NEW i \in 1..(Len(stack) - 1), stack[i].op = "render"
                   PROVE  Inner(stack[i], g)
        BY DEF Within
      <3>1. Inner(stack[i], Top)
        BY TopWithin DEF Within
      <3> QED BY <1>1, <1>5, <2>1, <3>1 DEF Inner, IsCall
    <2>3. Inner(f, g)
      BY <1>1, <1>3, <1>5, <2>1 DEF Inner, IsCall, IsTopAt
    <2> QED BY <1>1, <1>2, <2>2, <2>3, NestedKeeps
  <1> QED BY <1>4, <1>5

LEMMA ProceedsWithin ==
    ASSUME LInv, stack # <<>>, DInv', NEW at, Proceeds(at), Top.op # "effects"
    PROVE  LInv'
  BY SameWithin, NestedKeeps DEF Proceeds

LEMMA TurnsWithin ==
    ASSUME LInv, stack # <<>>, DInv', NEW b \in Int, NEW d, NEW op, NEW at,
           TurnsInto(op, at, Top.s, d, b),
           \/ NoRenderBelow
           \/ op = "render" /\ Top.op = "open" /\ b = Top.b
           \/ op = "open" /\ Top.op = "effects" /\ b < Top.b /\ "move" \in Top.answer.asks
    PROVE  LInv'
  <1>1. PICK f : GoesOnAs(f) /\ IsCall(f, op, at, Top.s, d, b)
    BY DEF TurnsInto
  <1>2. /\ Top.b \in Int
        /\ \A i \in 1..(Len(stack) - 1) : stack[i].b \in Int
    <2>1. Top.b \in Int /\ Len(stack) \in Nat
      BY TopOf, Innermost DEF LInv
    <2>2. \A i \in 1..Len(stack) : stack[i] \in Frames
      BY DEF LInv, DInv, TypeOK
    <2>3. \A h \in Frames : h.b \in Int
      BY FrameFields
    <2>4. \A i \in 1..(Len(stack) - 1) : i \in 1..Len(stack)
      BY <2>1
    <2> QED BY <2>1, <2>2, <2>3, <2>4
  <1>3. ASSUME NEW i \in 1..(Len(stack) - 1), stack[i].op = "render"
        PROVE  Inner(stack[i], f)
    <2>1. Inner(stack[i], Top) /\ ~NoRenderBelow
      BY <1>3, TopWithin DEF Within, NoRenderBelow
    <2>2. CASE op = "render" /\ Top.op = "open" /\ b = Top.b
      BY <1>1, <2>1, <2>2 DEF Inner, IsCall
    <2>3. CASE op = "open" /\ Top.op = "effects" /\ b < Top.b /\ "move" \in Top.answer.asks
      <3>1. b < stack[i].b
        BY <1>2, <2>1, <2>3 DEF Inner
      <3> QED BY <1>1, <1>2, <2>1, <2>3, <3>1 DEF Inner, IsCall
    <2> QED BY <2>1, <2>2, <2>3
  <1> QED BY <1>1, <1>3, NestedKeeps DEF Within

LEMMA WalksWithin ==
    ASSUME LInv, stack # <<>>, DInv', NEW at, Walks(at), NoRenderBelow, Top.op # "render"
    PROVE  LInv'
  <1>1. PICK f : /\ f.op # "render"
                 /\ GoesOnAs(f) \/ \E g : CallsFrom(f, g)
    BY DEF Walks, IsTopAt
  <1> QED BY <1>1, AloneWithin, NestedKeeps

LEMMA AloneKeeps ==
    ASSUME LInv, stack # <<>>, DInv', NoRenderBelow, Top.op # "render"
    PROVE  /\ (\E f : GoesOnAs(f)) => LInv'
           /\ \A f, g, at : CallsFrom(f, g) /\ IsTopAt(f, at) => LInv'
  <1>1. \A f : Within(f)
    BY AloneWithin
  <1>2. \A f, at : IsTopAt(f, at) => f.op # "render"
    BY DEF IsTopAt
  <1>3. (\E f : GoesOnAs(f)) => LInv'
    BY <1>1, NestedKeeps
  <1>4. ASSUME NEW f, NEW g, NEW at, CallsFrom(f, g), IsTopAt(f, at) PROVE LInv'
    BY <1>1, <1>2, <1>4, NestedKeeps
  <1> QED BY <1>3, <1>4

LEMMA HookAlone ==
    ASSUME LInv, stack # <<>>, DInv', NoRenderBelow, Top.op # "render",
           NEW s, NEW d, NEW life, NEW b, NEW at, NEW fan, HookCalled(s, d, life, b, at, fan)
    PROVE  LInv'
  BY AloneKeeps DEF HookCalled

LEMMA ApplyEffectsNests ==
    ASSUME LInv, DInv', ApplyEffects PROVE LInv'
  <1>1. /\ stack # <<>> /\ Top.op = "effects"
        /\ \/ IsOver
           \/ /\ "move" \in Top.answer.asks
              /\ TurnsInto("open", "check", Top.s, Top.answer.to, Top.b - 1)
           \/ \E f : /\ GoesOnAs(f) /\ IsTopAt(f, "profile") /\ f.answer = Top.answer
                     /\ f.todo = IF "profile" \in Top.answer.asks
                                 THEN online \ {Top.s} ELSE {}
    BY ApplyEffectsShape DEF LInv, ReturnsError
  <1>2. Top.b \in Int
    BY <1>1, TopOf DEF LInv
  <1>3. CASE /\ "move" \in Top.answer.asks
             /\ TurnsInto("open", "check", Top.s, Top.answer.to, Top.b - 1)
    <2>1. Top.b - 1 \in Int /\ Top.b - 1 < Top.b
      BY <1>2
    <2> QED BY <1>1, <1>3, <2>1, TurnsWithin
  <1>4. ASSUME NEW f, GoesOnAs(f), IsTopAt(f, "profile"), f.answer = Top.answer,
               f.todo = IF "profile" \in Top.answer.asks THEN online \ {Top.s} ELSE {}
        PROVE  LInv'
    <2>1. Within(f)
      BY <1>1, <1>4, TopWithin DEF Within, Inner, IsTopAt
    <2> QED BY <1>1, <1>4, <2>1, NestedKeeps
  <1> QED BY <1>1, <1>3, <1>4, NestedKeeps

LEMMA RenderPeersNests ==
    ASSUME LInv, DInv', RenderPeers PROVE LInv'
  <1>1. /\ stack # <<>> /\ Top.op = "effects"
        /\ \/ IsOver
           \/ Walks(Top.at)
           \/ Top.fan /\ "broadcast" \in Top.answer.asks /\ \E f : GoesOnAs(f)
    BY RenderPeersShape DEF LInv, ReturnsError, Returns, Idles
  <1>2. CASE Walks(Top.at)
    <2>1. Top.todo # {}
      BY <1>2 DEF Walks
    <2>2. NoRenderBelow
      BY <1>1, <2>1, NothingInside
    <2> QED BY <1>1, <1>2, <2>2, WalksWithin
  <1>3. CASE Top.fan /\ "broadcast" \in Top.answer.asks /\ \E f : GoesOnAs(f)
    <2>1. NoRenderBelow
      BY <1>1, <1>3, NothingInside
    <2> QED BY <1>1, <1>3, <2>1, AloneKeeps
  <1> QED BY <1>1, <1>2, <1>3, NestedKeeps

LEMMA OpenNests ==
    ASSUME LInv, DInv', ViewsRenderNobody, CheckOpen \/ LeaveOld \/ EnterDoor \/ Joined
    PROVE  LInv'
  <1>1. CASE CheckOpen
    <2>1. /\ stack # <<>> /\ Top.op = "open"
          /\ (\E at : Proceeds(at)) \/ IsOver
      BY <1>1, CheckOpenShape DEF LInv, ReturnsError
    <2> QED BY <2>1, ProceedsWithin, NestedKeeps
  <1>2. CASE LeaveOld
    <2>1. /\ stack # <<>> /\ Top.op = "open"
          /\ \/ HookCalled(Top.s, active[Top.s], "on_leave", Top.b, "enter", TRUE)
             \/ Proceeds("enter")
      BY <1>2, LeaveOldShape DEF LInv
    <2> QED BY <2>1, HookWithin, ProceedsWithin
  <1>3. CASE EnterDoor
    <2>1. /\ stack # <<>> /\ Top.op = "open"
          /\ \/ TurnsInto("render", "view", Top.s, Top.d, Top.b)
             \/ HookCalled(Top.s, Top.d, "on_join", Top.b, "joined", TRUE)
             \/ IsOver
      BY <1>3, EnterDoorShape DEF LInv, ReturnsError
    <2>2. Top.b \in Int
      BY <2>1, TopOf DEF LInv
    <2>3. CASE TurnsInto("render", "view", Top.s, Top.d, Top.b)
      BY <2>1, <2>2, <2>3, TurnsWithin
    <2>4. CASE HookCalled(Top.s, Top.d, "on_join", Top.b, "joined", TRUE)
      BY <2>1, <2>4, HookWithin
    <2> QED BY <2>1, <2>3, <2>4, NestedKeeps
  <1>4. CASE Joined
    <2>1. /\ stack # <<>> /\ Top.op = "open"
          /\ IsOver \/ TurnsInto("render", "view", Top.s, Top.d, Top.b)
      BY <1>4, JoinedShape DEF LInv, ReturnsError, Returns, Idles
    <2>2. Top.b \in Int
      BY <2>1, TopOf DEF LInv
    <2>3. CASE TurnsInto("render", "view", Top.s, Top.d, Top.b)
      BY <2>1, <2>2, <2>3, TurnsWithin
    <2> QED BY <2>1, <2>3, NestedKeeps
  <1> QED BY <1>1, <1>2, <1>3, <1>4

LEMMA RenderNests ==
    ASSUME LInv, DInv', ViewsRenderNobody, InvokeView \/ Viewed
    PROVE  LInv'
  <1>1. CASE InvokeView
    <2>1. /\ stack # <<>> /\ Top.op = "render"
          /\ HookCalled(Top.s, Top.d, "view", Top.b, "viewed", FALSE) \/ IsOver
      BY <1>1, InvokeViewShape DEF LInv, ReturnsError, Idles
    <2> QED BY <2>1, HookWithin, NestedKeeps
  <1>2. CASE Viewed
    <2>1. stack # <<>> /\ IsOver
      BY <1>2, ViewedShape DEF LInv, ReturnsError, Returns
    <2> QED BY <2>1, NestedKeeps
  <1> QED BY <1>1, <1>2

LEMMA EventNests ==
    ASSUME LInv, DInv', InvokeUpdate \/ Updated \/ RenderChanged
    PROVE  LInv'
  <1>1. stack # <<>> /\ Top.op = "event"
    BY DEF InvokeUpdate, Updated, RenderChanged, At
  <1>2. NoRenderBelow
    BY <1>1, NothingInside
  <1>3. CASE InvokeUpdate
    <2>1. HookCalled(Top.s, Top.d, "update", MaxTransitions, "updated", TRUE) \/ IsOver
      BY <1>3, InvokeUpdateShape DEF LInv, ReturnsError
    <2> QED BY <1>1, <1>2, <2>1, HookAlone, NestedKeeps
  <1>4. CASE Updated
    <2>1. IsOver \/ \E f : GoesOnAs(f)
      BY <1>4, UpdatedShape DEF LInv, ReturnsError, Returns
    <2> QED BY <1>1, <1>2, <2>1, AloneKeeps, NestedKeeps
  <1>5. CASE RenderChanged
    <2>1. IsOver \/ Walks("settings") \/ \E f : GoesOnAs(f)
      BY <1>5, RenderChangedShape DEF LInv, ReturnsError, TurnsInto
    <2> QED BY <1>1, <1>2, <2>1, AloneKeeps, WalksWithin, NestedKeeps
  <1> QED BY <1>3, <1>4, <1>5

LEMMA StayNests ==
    ASSUME LInv, DInv', OpenInitial \/ InitialOpened \/ LeaveLast \/ LeftLast
    PROVE  LInv'
  <1>1. stack # <<>> /\ Top.op \in {"connect", "leave"}
    BY DEF OpenInitial, InitialOpened, LeaveLast, LeftLast, At
  <1>2. NoRenderBelow
    BY <1>1, NothingInside
  <1>3. CASE OpenInitial
    <2>1. \E f, g : CallsFrom(f, g) /\ IsTopAt(f, "opened")
      BY <1>3, OpenInitialShape DEF LInv
    <2> QED BY <1>1, <1>2, <2>1, AloneKeeps
  <1>4. CASE InitialOpened
    <2>1. IsOver
      BY <1>4, InitialOpenedShape DEF LInv, Returns
    <2> QED BY <1>1, <2>1, NestedKeeps
  <1>5. CASE LeaveLast
    <2>1. \/ HookCalled(Top.s, Top.d, "on_leave", MaxTransitions, "left", TRUE)
          \/ \E f : GoesOnAs(f)
      BY <1>5, LeaveLastShape DEF LInv, Proceeds
    <2> QED BY <1>1, <1>2, <2>1, HookAlone, AloneKeeps
  <1>6. CASE LeftLast
    <2>1. IsOver
      BY <1>6, LeftLastShape DEF LInv
    <2> QED BY <1>1, <2>1, NestedKeeps
  <1> QED BY <1>3, <1>4, <1>5, <1>6

LEMMA NextNests ==
    ASSUME LInv, [Next]_vars, ViewsRenderNobody PROVE LInv'
  <1>1. DInv'
    BY NextKeeps DEF LInv
  <1>2. CASE Step
    BY <1>1, <1>2, OpenNests, RenderNests, ApplyEffectsNests, RenderPeersNests, EventNests,
       StayNests DEF Step
  <1>3. CASE Message
    <2>1. \E f : stack' = <<f>>
      BY <1>3 DEF Message, Connect, Event, Leave, OpenDoor, Start
    <2>2. DOMAIN stack' = {1}
      BY <2>1
    <2>3. Nested'
      BY <2>2 DEF Nested
    <2> QED BY <1>1, <2>3 DEF LInv
  <1>4. CASE Environment \/ UNCHANGED vars
    <2>1. UNCHANGED stack
      BY <1>4 DEF Environment, OpenExpires, SetDoorEnabled, vars
    <2> QED BY <1>1, <2>1 DEF LInv, Nested, Inner
  <1> QED BY <1>2, <1>3, <1>4 DEF Next

\* If views render nobody else, and no hook a view leads to does, a session is
\* rendered again inside its own render only by a transition, each of which takes
\* one off the budget of the message: renders cannot call each other for ever
\* (fanoutBroadcast, renderProfileUpdates, executeTransition).
THEOREM NestedRendersEnd == ASSUME ViewsRenderNobody PROVE Spec => []NoRenderLoop
  <1>1. Init => LInv
    <2> SUFFICES ASSUME Init PROVE LInv
      OBVIOUS
    <2>1. DInv /\ DOMAIN stack = {}
      BY InitHolds DEF Init
    <2> QED BY <2>1 DEF LInv, Nested
  <1>2. LInv /\ [Next]_vars => LInv'
    BY NextNests
  <1>3. LInv => NoRenderLoop
    BY DEF LInv, Nested, Inner, NoRenderLoop
  <1> QED BY <1>1, <1>2, <1>3, PTL DEF Spec

-----------------------------------------------------------------------------
(* The latest view is shown *)

\* No view is sent by the step: the calls that wait are what they were.
NothingSent == \A i \in 1..(Len(stack) - 1) : stack'[i] = stack[i]

\* What a step does to the freshness of the views that callers hold.
Sends ==
    \/ WriteRender(Top.s, Default) /\ Top.op = "connect"
    \/ /\ WriteRender(Top.s, Top.d) /\ ~Moved(Top.s, Top.d)
       /\ Top.op = "render" \/ (Top.op = "event" /\ Top.at = "updated")

LEMMA SendingShape ==
    ASSUME DInv, Step
    PROVE  \/ NothingSent /\ stale' \subseteq stale
           \/ Sends
  <1>1. stack # <<>>
    BY DEF Step, CheckOpen, LeaveOld, EnterDoor, Joined, InvokeView, Viewed, ApplyEffects,
           RenderPeers, InvokeUpdate, Updated, RenderChanged, OpenInitial, InitialOpened,
           LeaveLast, LeftLast, At
  <1>2. /\ Len(stack) \in Nat \ {0} /\ Rest \in Seq(Frames) /\ Len(Rest) = Len(stack) - 1
        /\ \A i \in 1..(Len(stack) - 1) : Rest[i] = stack[i]
    BY <1>1, Innermost, TopOf, StackParts
  <1>3. \A f : Become(f) => NothingSent
    BY <1>2 DEF Become, NothingSent
  <1>4. \A f, g : Enter(f, g) => NothingSent
    BY <1>2 DEF Enter, NothingSent
  <1>5. stack' = Rest => NothingSent
    BY <1>2 DEF NothingSent
  <1>6. \A s, d, life, b, f, fan : HookAnswers(s, d, life, b, f, fan) => NothingSent
    BY <1>4 DEF HookAnswers
  <1>7. (Return \/ ReturnError) => NothingSent
    BY <1>5 DEF Return, ReturnError
  <1>8. ASSUME CheckOpen PROVE NothingSent /\ stale' = stale
    BY <1>3, <1>7, <1>8 DEF CheckOpen, shown
  <1>9. ASSUME LeaveOld \/ EnterDoor PROVE NothingSent /\ stale' = stale
    BY <1>3, <1>6, <1>7, <1>9 DEF LeaveOld, EnterDoor, shown
  <1>10. ASSUME Joined \/ InvokeView PROVE NothingSent /\ stale' = stale
    BY <1>3, <1>6, <1>7, <1>10 DEF Joined, InvokeView, shown
  <1>11. ASSUME Viewed
         PROVE  \/ NothingSent /\ stale' = stale
                \/ Sends
    BY <1>7, <1>11 DEF Viewed, shown, At, Sends
  <1>12. ASSUME ApplyEffects PROVE NothingSent /\ stale' = stale
    BY <1>3, <1>7, <1>12 DEF ApplyEffects, shown
  <1>13. ASSUME RenderPeers PROVE NothingSent /\ stale' = stale
    BY <1>3, <1>4, <1>7, <1>13 DEF RenderPeers, shown
  <1>14. ASSUME InvokeUpdate PROVE NothingSent /\ stale' = stale
    BY <1>6, <1>7, <1>14 DEF InvokeUpdate, shown
  <1>15. ASSUME Updated
         PROVE  \/ NothingSent /\ stale' = stale
                \/ Sends
    BY <1>3, <1>7, <1>15 DEF Updated, shown, At, Sends
  <1>16. ASSUME RenderChanged PROVE NothingSent /\ stale' = stale
    BY <1>3, <1>4, <1>7, <1>16 DEF RenderChanged, shown
  <1>17. ASSUME OpenInitial PROVE NothingSent /\ stale' = stale
    BY <1>4, <1>17 DEF OpenInitial, shown
  <1>18. ASSUME InitialOpened
         PROVE  \/ NothingSent /\ stale' = stale
                \/ Sends
    BY <1>7, <1>18 DEF InitialOpened, shown, At, Sends
  <1>19. ASSUME LeaveLast PROVE NothingSent /\ stale' = stale
    BY <1>3, <1>6, <1>19 DEF LeaveLast, shown
  <1>20. ASSUME LeftLast PROVE NothingSent /\ stale' \subseteq stale
    BY <1>5, <1>20 DEF LeftLast
  <1> QED BY <1>8, <1>9, <1>10, <1>11, <1>12, <1>13, <1>14, <1>15, <1>16, <1>17, <1>18, <1>19,
             <1>20 DEF Step

\* A view that is sent makes those older that callers hold for its session.
LEMMA SentShape ==
    ASSUME DInv, stack # <<>>, NEW s, NEW view, WriteRender(s, view)
    PROVE  \A i \in 1..(Len(stack) - 1) :
             /\ stack[i].s # s => stack'[i] = stack[i]
             /\ stack'[i].late => stack[i].late \/ stack[i].s = s
  <1>1. \A i \in 1..(Len(stack) - 1) :
           stack'[i] = IF stack[i].s = s THEN Outdated(stack[i]) ELSE stack[i]
    BY DEF WriteRender
  <1> QED BY <1>1

-----------------------------------------------------------------------------
\* The effects of a view: there are none to apply.
Quiet(f) ==
    f.op = "effects" /\ f.todo = {} /\ ~f.fan /\ f.answer.asks \cap {"move", "profile"} = {}

\* A call that an event causes takes its session on, and renders others.
Caused(e, f, rank) ==
    IF f.s = e.s
    THEN \/ f.op \in {"open", "render"} /\ rank[e.d] < rank[f.d]
         \/ f.op = "effects" /\ rank[e.d] <= rank[f.d]
    ELSE f.op = "render" \/ Quiet(f)

Pair(e, f, rank) ==
    /\ e.op = "render" => Quiet(f)
    /\ e.op = "event" => Caused(e, f, rank)

Fine(f) ==
    /\ f.s \notin f.todo
    /\ f.op = "effects" /\ "move" \in f.answer.asks => <<f.d, f.answer.to>> \in Leads

Messages == {"event", "connect", "leave"}

Tidy(rank) ==
    /\ \A i \in DOMAIN stack : Fine(stack[i]) /\ (stack[i].op \in Messages => i = 1)
    /\ \A i, j \in DOMAIN stack : i < j => Pair(stack[i], stack[j], rank)

\* No render holds a view that is older than the one sent last.
RendersFresh == \A i \in DOMAIN stack : stack[i].op = "render" => ~stack[i].late

\* The session of an event is taken on from its door, and not back to it.
TakenOn(e, rank) ==
    e.op = "event" =>
        /\ active[e.s] \in Doors /\ rank[e.d] <= rank[active[e.s]]
        /\ e.at = "updated" /\ e.late => active[e.s] # e.d

EventGoesOn(rank) == stack # <<>> => TakenOn(stack[1], rank)

QInv(rank) == SInv /\ Tidy(rank) /\ RendersFresh /\ EventGoesOn(rank) /\ stale = {}

Pairs(f, rank) == \A i \in 1..(Len(stack) - 1) : Pair(stack[i], f, rank)

LEMMA LikePair ==
    ASSUME NEW rank, NEW e, NEW f, NEW g, NEW h, Like(e, f), Like(g, h)
    PROVE  /\ Fine(e) <=> Fine(f)
           /\ Pair(f, h, rank) => Pair(e, g, rank)
  BY DEF Like, Fine, Pair, Caused, Quiet

LEMMA LikePairOne ==
    ASSUME NEW rank, NEW e, NEW f, NEW g, Like(e, f), Pair(f, g, rank)
    PROVE  Pair(e, g, rank)
  BY DEF Like, Pair, Caused, Quiet

LEMMA TopPairs ==
    ASSUME NEW rank, SInv, Tidy(rank), stack # <<>>
    PROVE  /\ Pairs(Top, rank) /\ Fine(Top)
           /\ Top.op \in Messages => Len(stack) = 1
  <1>1. Len(stack) \in Nat \ {0} /\ DOMAIN stack = 1..Len(stack) /\ stack[Len(stack)] = Top
    BY Innermost DEF SInv, DInv, TypeOK
  <1>2. \A i \in 1..(Len(stack) - 1) : i \in DOMAIN stack /\ i < Len(stack)
    BY <1>1
  <1> QED BY <1>1, <1>2 DEF Tidy, Pairs

LEMMA TidyKeeps ==
    ASSUME NEW rank, SInv, Tidy(rank), stack # <<>>, SInv'
    PROVE  /\ \A f : /\ GoesOnAs(f) /\ Pairs(f, rank) /\ Fine(f)
                     /\ f.op \in Messages => Top.op \in Messages
                     => Tidy(rank)'
           /\ \A f, g : /\ CallsFrom(f, g) /\ Pairs(f, rank) /\ Pairs(g, rank)
                        /\ Fine(f) /\ Fine(g) /\ Pair(f, g, rank)
                        /\ f.op \in Messages => Top.op \in Messages
                        /\ g.op \notin Messages
                        => Tidy(rank)'
           /\ IsOver => Tidy(rank)'
  <1>1. Len(stack) \in Nat \ {0} /\ Len(stack') \in Nat
        /\ DOMAIN stack = 1..Len(stack) /\ DOMAIN stack' = 1..Len(stack')
    BY Innermost DEF SInv, DInv, TypeOK
  <1>2. ASSUME CallersWait, NEW i \in 1..(Len(stack) - 1), NEW j \in 1..(Len(stack) - 1), i < j
        PROVE  Pair(stack'[i], stack'[j], rank)
    <2>1. Like(stack'[i], stack[i]) /\ Like(stack'[j], stack[j])
      BY <1>2 DEF CallersWait
    <2>2. Pair(stack[i], stack[j], rank)
      BY <1>1, <1>2 DEF Tidy
    <2> QED BY <2>1, <2>2, LikePair
  <1>3. ASSUME CallersWait, NEW i \in 1..(Len(stack) - 1), NEW f, Pairs(f, rank)
        PROVE  Pair(stack'[i], f, rank)
    BY <1>3, LikePairOne DEF CallersWait, Pairs
  <1>4. ASSUME CallersWait, NEW i \in 1..(Len(stack) - 1)
        PROVE  Fine(stack'[i]) /\ (stack'[i].op \in Messages => i = 1)
    <2>1. Like(stack'[i], stack[i]) /\ i \in DOMAIN stack
      BY <1>1, <1>4 DEF CallersWait
    <2>2. Fine(stack[i]) /\ (stack[i].op \in Messages => i = 1)
      BY <2>1 DEF Tidy
    <2>3. stack'[i].op = stack[i].op
      BY <2>1 DEF Like
    <2> QED BY <2>1, <2>2, <2>3, LikePair
  <1>5. ASSUME NEW f, GoesOnAs(f), Pairs(f, rank), Fine(f),
               f.op \in Messages => Top.op \in Messages
        PROVE  Tidy(rank)'
    <2>1. /\ CallersWait /\ stack'[Len(stack)] = f
          /\ \A i \in DOMAIN stack' : i \in 1..(Len(stack) - 1) \/ i = Len(stack)
      BY <1>1, <1>5 DEF GoesOnAs
    <2>2. \A i \in DOMAIN stack' : Fine(stack'[i]) /\ (stack'[i].op \in Messages => i = 1)
      BY <1>4, <1>5, <2>1, TopPairs
    <2>3. \A i, j \in DOMAIN stack' : i < j =>
             i \in 1..(Len(stack) - 1) /\ (j \in 1..(Len(stack) - 1) \/ stack'[j] = f)
      BY <1>1, <2>1
    <2>4. \A i, j \in DOMAIN stack' : i < j => Pair(stack'[i], stack'[j], rank)
      BY <1>2, <1>3, <1>5, <2>1, <2>3
    <2> QED BY <2>2, <2>4 DEF Tidy, Fine, Pair, Caused, Quiet
  <1>6. ASSUME NEW f, NEW g, CallsFrom(f, g), Pairs(f, rank), Pairs(g, rank), Fine(f), Fine(g),
               Pair(f, g, rank), f.op \in Messages => Top.op \in Messages, g.op \notin Messages
        PROVE  Tidy(rank)'
    <2>1. /\ CallersWait /\ stack'[Len(stack)] = f /\ stack'[Len(stack) + 1] = g
          /\ \A i \in DOMAIN stack' :
                i \in 1..(Len(stack) - 1) \/ i = Len(stack) \/ i = Len(stack) + 1
      BY <1>1, <1>6 DEF CallsFrom
    <2>2. \A i \in DOMAIN stack' : Fine(stack'[i]) /\ (stack'[i].op \in Messages => i = 1)
      BY <1>4, <1>6, <2>1, TopPairs
    <2>3. \A i, j \in DOMAIN stack' : i < j =>
             \/ /\ i \in 1..(Len(stack) - 1)
                /\ j \in 1..(Len(stack) - 1) \/ stack'[j] = f \/ stack'[j] = g
             \/ stack'[i] = f /\ stack'[j] = g
      BY <1>1, <2>1
    <2>4. \A i, j \in DOMAIN stack' : i < j => Pair(stack'[i], stack'[j], rank)
      BY <1>2, <1>3, <1>6, <2>1, <2>3
    <2> QED BY <2>2, <2>4 DEF Tidy, Fine, Pair, Caused, Quiet
  <1>7. ASSUME IsOver PROVE Tidy(rank)'
    <2>1. CallersWait /\ DOMAIN stack' = 1..(Len(stack) - 1)
      BY <1>1, <1>7 DEF IsOver
    <2>2. \A i \in DOMAIN stack' : Fine(stack'[i]) /\ (stack'[i].op \in Messages => i = 1)
      BY <1>4, <2>1
    <2>3. \A i, j \in DOMAIN stack' : i < j => Pair(stack'[i], stack'[j], rank)
      BY <1>2, <2>1
    <2> QED BY <2>2, <2>3 DEF Tidy, Fine, Pair, Caused, Quiet
  <1> QED BY <1>5, <1>6, <1>7

\* Below a call that does more than show a view there is no render, and the
\* session of an event below it is its own.
LEMMA Busy ==
    ASSUME NEW rank, SInv, Tidy(rank), stack # <<>>, NEW i \in 1..(Len(stack) - 1), ~Quiet(Top)
    PROVE  /\ stack[i] \in Frames
           /\ stack[i].op # "render"
           /\ stack[i].op = "event" /\ Top.op # "render" => stack[i].s = Top.s
           /\ stack[i].op = "event" /\ stack[i].s = Top.s =>
                \/ Top.op \in {"open", "render"} /\ rank[stack[i].d] < rank[Top.d]
                \/ Top.op = "effects" /\ rank[stack[i].d] <= rank[Top.d]
  <1>1. Pair(stack[i], Top, rank)
    BY TopPairs DEF Pairs
  <1>2. stack[i] \in Frames
    BY Innermost DEF SInv, DInv, TypeOK
  <1> QED BY <1>1, <1>2 DEF Pair, Caused

LEMMA SamePairs ==
    ASSUME NEW rank, SInv, Tidy(rank), stack # <<>>, Top.op # "effects",
           NEW f, NEW at, IsTopAt(f, at), f.todo = Top.todo
    PROVE  Pairs(f, rank) /\ Fine(f)
  BY TopPairs DEF IsTopAt, Pairs, Pair, Caused, Quiet, Fine

LEMMA ProceedsTidy ==
    ASSUME NEW rank, SInv, Tidy(rank), stack # <<>>, SInv', Top.op # "effects",
           NEW at, Proceeds(at)
    PROVE  Tidy(rank)'
  <1>1. PICK f : GoesOnAs(f) /\ IsTopAt(f, at) /\ f.todo = Top.todo
    BY DEF Proceeds
  <1>2. f.op = Top.op
    BY <1>1 DEF IsTopAt
  <1> QED BY <1>1, <1>2, SamePairs, TidyKeeps

LEMMA HookTidy ==
    ASSUME NEW rank, LeadsOn(rank), ViewsOnlyShow, SInv, Tidy(rank), stack # <<>>, SInv',
           Top.op # "effects", NEW d \in Doors, NEW life, NEW b, NEW at, NEW fan,
           HookCalled(Top.s, d, life, b, at, fan),
           Top.op = "render" => life = "view" /\ ~fan,
           \/ d = Top.d
           \/ /\ Top.op = "open"
              /\ \A i \in 1..(Len(stack) - 1) :
                    stack[i].op = "event" /\ stack[i].s = Top.s => rank[stack[i].d] <= rank[d]
    PROVE  Tidy(rank)'
  <1>1. PICK f, g :
        /\ CallsFrom(f, g)
        /\ IsTopAt(f, at) /\ f.todo = Top.todo /\ ~f.late
        /\ IsCall(g, "effects", "apply", Top.s, d, b) /\ g.fan = fan
        /\ g.answer.asks \in Asks[life]
        /\ "move" \in g.answer.asks => <<d, g.answer.to>> \in Leads
    BY DEF HookCalled
  <1>2. Pairs(f, rank) /\ Fine(f) /\ f.op = Top.op /\ f.s = Top.s /\ f.d = Top.d
    BY <1>1, SamePairs DEF IsTopAt
  <1>3. Fine(g) /\ g.op = "effects" /\ g.s = Top.s /\ g.d = d
    BY <1>1 DEF Fine, IsCall
  <1>4. Top.op = "render" => Quiet(g)
    BY <1>1 DEF Quiet, IsCall, ViewsOnlyShow
  <1>5. ~Quiet(Top)
    BY DEF Quiet
  <1>6. /\ Top.d \in Doors
        /\ \A x, y \in Doors : rank[x] \in Nat /\ (rank[x] < rank[y] => rank[x] <= rank[y])
                               /\ rank[x] <= rank[x]
    BY TopOf DEF SInv, LeadsOn
  <1>7. Pairs(g, rank)
    <2> SUFFICES ASSUME NEW i \in 1..(Len(stack) - 1) PROVE Pair(stack[i], g, rank)
      BY DEF Pairs
    <2>1. /\ stack[i].d \in Doors
          /\ stack[i].op # "render"
          /\ stack[i].op = "event" /\ Top.op # "render" => stack[i].s = Top.s
          /\ stack[i].op = "event" /\ stack[i].s = Top.s => rank[stack[i].d] < rank[Top.d]
      BY <1>5, Busy, FrameFields
    <2>2. CASE stack[i].op = "event" /\ stack[i].s = Top.s
      <3>1. rank[stack[i].d] <= rank[d]
        BY <1>6, <2>1, <2>2
      <3> QED BY <1>3, <2>2, <3>1 DEF Pair, Caused
    <2>3. CASE stack[i].op = "event" /\ stack[i].s # Top.s
      BY <1>3, <1>4, <2>1, <2>3 DEF Pair, Caused
    <2> QED BY <2>1, <2>2, <2>3 DEF Pair
  <1>8. Pair(f, g, rank)
    BY <1>2, <1>3, <1>4, <1>6 DEF Pair, Caused
  <1>9. g.op \notin Messages
    BY <1>3 DEF Messages
  <1> QED BY <1>1, <1>2, <1>3, <1>7, <1>8, <1>9, TidyKeeps

LEMMA TurnsTidy ==
    ASSUME NEW rank, LeadsOn(rank), SInv, Tidy(rank), stack # <<>>, SInv',
           NEW op \in {"open", "render"}, NEW at, NEW d \in Doors, NEW b,
           TurnsInto(op, at, Top.s, d, b),
           \/ Top.op \in {"open", "event"} /\ d = Top.d
           \/ Top.op = "effects" /\ "move" \in Top.answer.asks /\ d = Top.answer.to
    PROVE  Tidy(rank)'
  <1>1. PICK f : GoesOnAs(f) /\ IsCall(f, op, at, Top.s, d, b)
    BY DEF TurnsInto
  <1>2. Fine(f) /\ f.op \notin Messages /\ f.op = op /\ f.s = Top.s /\ f.d = d
    BY <1>1 DEF Fine, IsCall, Messages
  <1>3. ~Quiet(Top) /\ Top.d \in Doors
    BY TopOf DEF Quiet, SInv
  <1>4. Top.op = "effects" => rank[Top.d] < rank[d]
    BY <1>3, TopPairs DEF Fine, LeadsOn
  <1>5. Pairs(f, rank)
    <2> SUFFICES ASSUME NEW i \in 1..(Len(stack) - 1) PROVE Pair(stack[i], f, rank)
      BY DEF Pairs
    <2>1. /\ stack[i].d \in Doors
          /\ stack[i].op # "render"
          /\ stack[i].op = "event" /\ Top.op # "render" => stack[i].s = Top.s
          /\ stack[i].op = "event" /\ stack[i].s = Top.s =>
               \/ Top.op \in {"open", "render"} /\ rank[stack[i].d] < rank[Top.d]
               \/ Top.op = "effects" /\ rank[stack[i].d] <= rank[Top.d]
      BY <1>3, Busy, FrameFields
    <2>2. rank[stack[i].d] \in Nat /\ rank[Top.d] \in Nat /\ rank[d] \in Nat
      BY <1>3, <2>1 DEF LeadsOn
    <2>3. ASSUME stack[i].op = "event" PROVE stack[i].s = Top.s /\ rank[stack[i].d] < rank[d]
      BY <1>4, <2>1, <2>2, <2>3
    <2> QED BY <1>2, <2>1, <2>3 DEF Pair, Caused
  <1> QED BY <1>1, <1>2, <1>5, TidyKeeps

LEMMA WalksTidy ==
    ASSUME NEW rank, SInv, Tidy(rank), stack # <<>>, SInv', Walks(Top.at),
           Top.op \in {"effects", "event"}
    PROVE  Tidy(rank)'
  <1>1. PICK t, f :
        /\ t \in Top.todo
        /\ IsTopAt(f, Top.at) /\ f.todo \subseteq Top.todo /\ f.answer = Top.answer
        /\ \/ GoesOnAs(f)
           \/ \E g : CallsFrom(f, g) /\ IsCall(g, "render", "view", t, active[t], MaxTransitions)
    BY DEF Walks
  <1>2. /\ ~Quiet(Top) /\ Top.s \notin Top.todo
        /\ f.op = Top.op /\ f.s = Top.s /\ f.d = Top.d
    BY <1>1, TopPairs DEF Quiet, Fine, IsTopAt
  <1>3. Fine(f)
    BY <1>1, <1>2, TopPairs DEF Fine
  <1>4. Top.op = "effects" \/ Len(stack) = 1
    BY TopPairs DEF Messages
  <1>5. \A i \in 1..(Len(stack) - 1) :
           /\ stack[i].op # "render"
           /\ stack[i].op = "event" => stack[i].s = Top.s /\ rank[stack[i].d] <= rank[Top.d]
    BY <1>2, <1>4, Busy
  <1>6. Pairs(f, rank)
    <2>1. CASE Len(stack) = 1
      BY <2>1 DEF Pairs
    <2>2. CASE Top.op = "effects"
      <3>1. ASSUME NEW i \in 1..(Len(stack) - 1) PROVE Pair(stack[i], f, rank)
        <4>1. f.s = Top.s /\ f.op = "effects" /\ f.d = Top.d
          BY <1>2, <2>2
        <4>2. /\ stack[i].op # "render"
              /\ stack[i].op = "event" => stack[i].s = Top.s /\ rank[stack[i].d] <= rank[Top.d]
          BY <1>5
        <4> QED BY <4>1, <4>2 DEF Pair, Caused
      <3> QED BY <3>1 DEF Pairs
    <2> QED BY <1>4, <2>1, <2>2
  <1>7. ASSUME NEW g, CallsFrom(f, g), IsCall(g, "render", "view", t, active[t], MaxTransitions)
        PROVE  Tidy(rank)'
    <2>1. Fine(g) /\ g.op = "render" /\ g.s # Top.s /\ g.op \notin Messages
      BY <1>1, <1>2, <1>7 DEF Fine, IsCall, Messages
    <2>2. Pairs(g, rank) /\ Pair(f, g, rank)
      BY <1>2, <1>5, <2>1 DEF Pairs, Pair, Caused
    <2> QED BY <1>2, <1>3, <1>6, <1>7, <2>1, <2>2, TidyKeeps
  <1> QED BY <1>1, <1>2, <1>3, <1>6, <1>7, TidyKeeps

LEMMA OverTidy ==
    ASSUME NEW rank, SInv, Tidy(rank), stack # <<>>, SInv', IsOver
    PROVE  Tidy(rank)'
  BY TidyKeeps

LEMMA OpenTidies ==
    ASSUME NEW rank, LeadsOn(rank), ViewsOnlyShow, QInv(rank), SInv',
           CheckOpen \/ LeaveOld \/ EnterDoor \/ Joined
    PROVE  Tidy(rank)'
  <1>1. SInv /\ Tidy(rank)
    BY DEF QInv
  <1>2. CASE CheckOpen
    <2>1. /\ stack # <<>> /\ Top.op = "open"
          /\ (\E at : Proceeds(at)) \/ IsOver
      BY <1>1, <1>2, CheckOpenShape DEF SInv, ReturnsError
    <2> QED BY <1>1, <2>1, ProceedsTidy, OverTidy
  <1>3. CASE LeaveOld
    <2>1. /\ stack # <<>> /\ Top.op = "open" /\ active[Top.s] \in Doors
          /\ \/ HookCalled(Top.s, active[Top.s], "on_leave", Top.b, "enter", TRUE)
             \/ Proceeds("enter")
      BY <1>1, <1>3, LeaveOldShape DEF SInv
    <2>2. \A i \in 1..(Len(stack) - 1) :
             stack[i].op = "event" /\ stack[i].s = Top.s => rank[stack[i].d] <= rank[active[Top.s]]
      <3> SUFFICES ASSUME NEW i \in 1..(Len(stack) - 1), stack[i].op = "event", stack[i].s = Top.s
                   PROVE  rank[stack[i].d] <= rank[active[Top.s]]
        OBVIOUS
      <3>1. Len(stack) \in Nat
        BY <1>1, <2>1, Innermost DEF SInv
      <3>2. i \in DOMAIN stack
        BY <1>1, <3>1 DEF SInv, DInv, TypeOK
      <3>3. i = 1
        BY <1>1, <3>2 DEF Tidy, Messages
      <3> QED BY <2>1, <3>3 DEF QInv, EventGoesOn, TakenOn
    <2>3. CASE HookCalled(Top.s, active[Top.s], "on_leave", Top.b, "enter", TRUE)
      BY <1>1, <2>1, <2>2, <2>3, HookTidy
    <2> QED BY <1>1, <2>1, <2>3, ProceedsTidy
  <1>4. CASE EnterDoor
    <2>1. /\ stack # <<>> /\ Top.op = "open"
          /\ \/ TurnsInto("render", "view", Top.s, Top.d, Top.b)
             \/ HookCalled(Top.s, Top.d, "on_join", Top.b, "joined", TRUE)
             \/ IsOver
      BY <1>1, <1>4, EnterDoorShape DEF SInv, ReturnsError
    <2>2. Top.d \in Doors
      BY <1>1, <2>1, TopOf DEF SInv
    <2>3. CASE TurnsInto("render", "view", Top.s, Top.d, Top.b)
      BY <1>1, <2>1, <2>2, <2>3, TurnsTidy
    <2>4. CASE HookCalled(Top.s, Top.d, "on_join", Top.b, "joined", TRUE)
      BY <1>1, <2>1, <2>2, <2>4, HookTidy
    <2> QED BY <1>1, <2>1, <2>3, <2>4, OverTidy
  <1>5. CASE Joined
    <2>1. /\ stack # <<>> /\ Top.op = "open"
          /\ IsOver \/ TurnsInto("render", "view", Top.s, Top.d, Top.b)
      BY <1>1, <1>5, JoinedShape DEF SInv, ReturnsError, Returns, Idles
    <2>2. Top.d \in Doors
      BY <1>1, <2>1, TopOf DEF SInv
    <2>3. CASE TurnsInto("render", "view", Top.s, Top.d, Top.b)
      BY <1>1, <2>1, <2>2, <2>3, TurnsTidy
    <2> QED BY <1>1, <2>1, <2>3, OverTidy
  <1> QED BY <1>2, <1>3, <1>4, <1>5

LEMMA RenderTidies ==
    ASSUME NEW rank, LeadsOn(rank), ViewsOnlyShow, QInv(rank), SInv', InvokeView \/ Viewed
    PROVE  Tidy(rank)'
  <1>1. SInv /\ Tidy(rank)
    BY DEF QInv
  <1>2. CASE InvokeView
    <2>1. /\ stack # <<>> /\ Top.op = "render"
          /\ HookCalled(Top.s, Top.d, "view", Top.b, "viewed", FALSE) \/ IsOver
      BY <1>1, <1>2, InvokeViewShape DEF SInv, ReturnsError, Idles
    <2>2. Top.d \in Doors
      BY <1>1, <2>1, TopOf DEF SInv
    <2>3. CASE HookCalled(Top.s, Top.d, "view", Top.b, "viewed", FALSE)
      BY <1>1, <2>1, <2>2, <2>3, HookTidy
    <2> QED BY <1>1, <2>1, <2>3, OverTidy
  <1>3. CASE Viewed
    <2>1. stack # <<>> /\ IsOver
      BY <1>1, <1>3, ViewedShape DEF SInv, ReturnsError, Returns
    <2> QED BY <1>1, <2>1, OverTidy
  <1> QED BY <1>2, <1>3

LEMMA ApplyEffectsTidies ==
    ASSUME NEW rank, LeadsOn(rank), QInv(rank), SInv', ApplyEffects
    PROVE  Tidy(rank)'
  <1>1. SInv /\ Tidy(rank)
    BY DEF QInv
  <1>2. /\ stack # <<>> /\ Top.op = "effects"
        /\ \/ IsOver
           \/ /\ "move" \in Top.answer.asks
              /\ TurnsInto("open", "check", Top.s, Top.answer.to, Top.b - 1)
           \/ \E f : /\ GoesOnAs(f) /\ IsTopAt(f, "profile") /\ f.answer = Top.answer
                     /\ f.todo = IF "profile" \in Top.answer.asks
                                 THEN online \ {Top.s} ELSE {}
    BY <1>1, ApplyEffectsShape DEF SInv, ReturnsError
  <1>3. CASE /\ "move" \in Top.answer.asks
             /\ TurnsInto("open", "check", Top.s, Top.answer.to, Top.b - 1)
    <2>1. Top.answer.to \in Doors
      BY <1>1, <1>2, <1>3, TopOf DEF SInv, ValidAnswers
    <2> QED BY <1>1, <1>2, <1>3, <2>1, TurnsTidy
  <1>4. ASSUME NEW f, GoesOnAs(f), IsTopAt(f, "profile"), f.answer = Top.answer,
               f.todo = IF "profile" \in Top.answer.asks THEN online \ {Top.s} ELSE {}
        PROVE  Tidy(rank)'
    <2>1. f.op = Top.op /\ f.s = Top.s /\ f.d = Top.d /\ f.fan = Top.fan
      BY <1>4 DEF IsTopAt
    <2>2. Fine(f) /\ (Quiet(Top) => Quiet(f))
      BY <1>1, <1>2, <1>4, <2>1, TopPairs DEF Fine, Quiet
    <2>3. Pairs(f, rank)
      BY <1>1, <1>2, <2>1, <2>2, TopPairs DEF Pairs, Pair, Caused
    <2> QED BY <1>1, <1>2, <1>4, <2>1, <2>2, <2>3, TidyKeeps
  <1> QED BY <1>1, <1>2, <1>3, <1>4, OverTidy

LEMMA RenderPeersTidies ==
    ASSUME NEW rank, QInv(rank), SInv', RenderPeers
    PROVE  Tidy(rank)'
  <1>1. SInv /\ Tidy(rank)
    BY DEF QInv
  <1>2. /\ stack # <<>> /\ Top.op = "effects"
        /\ \/ IsOver
           \/ Walks(Top.at)
           \/ /\ Top.fan
              /\ \E f : /\ GoesOnAs(f) /\ IsTopAt(f, "room") /\ f.answer = Top.answer
                        /\ f.todo = {t \in online \ {Top.s} : active[t] = Top.d}
    BY <1>1, RenderPeersShape DEF SInv, ReturnsError, Returns, Idles
  <1>3. ASSUME NEW f, GoesOnAs(f), IsTopAt(f, "room"), f.answer = Top.answer, Top.fan,
               f.todo = {t \in online \ {Top.s} : active[t] = Top.d}
        PROVE  Tidy(rank)'
    <2>1. f.op = Top.op /\ f.s = Top.s /\ f.d = Top.d
      BY <1>3 DEF IsTopAt
    <2>2. Fine(f) /\ ~Quiet(Top)
      BY <1>1, <1>2, <1>3, <2>1, TopPairs DEF Fine, Quiet
    <2>3. Pairs(f, rank)
      BY <1>1, <1>2, <2>1, <2>2, TopPairs DEF Pairs, Pair, Caused
    <2> QED BY <1>1, <1>2, <1>3, <2>1, <2>2, <2>3, TidyKeeps
  <1> QED BY <1>1, <1>2, <1>3, OverTidy, WalksTidy

LEMMA EventTidies ==
    ASSUME NEW rank, LeadsOn(rank), ViewsOnlyShow, QInv(rank), SInv',
           InvokeUpdate \/ Updated \/ RenderChanged
    PROVE  Tidy(rank)'
  <1>1. SInv /\ Tidy(rank)
    BY DEF QInv
  <1>2. stack # <<>> /\ Top.op = "event"
    BY DEF InvokeUpdate, Updated, RenderChanged, At
  <1>3. Top.d \in Doors /\ Len(stack) = 1 /\ Fine(Top)
    BY <1>1, <1>2, TopOf, TopPairs DEF SInv, Messages
  <1>4. CASE InvokeUpdate
    <2>1. HookCalled(Top.s, Top.d, "update", MaxTransitions, "updated", TRUE) \/ IsOver
      BY <1>1, <1>4, InvokeUpdateShape DEF SInv, ReturnsError
    <2> QED BY <1>1, <1>2, <1>3, <2>1, HookTidy, OverTidy
  <1>5. CASE Updated
    <2>1. \/ IsOver
          \/ \E f, at : /\ GoesOnAs(f) /\ IsTopAt(f, at)
                        /\ f.todo = Top.todo \/ f.todo \subseteq online \ {Top.s}
      BY <1>1, <1>5, UpdatedShape DEF SInv, ReturnsError, Returns
    <2>2. ASSUME NEW f, NEW at, GoesOnAs(f), IsTopAt(f, at),
                 f.todo = Top.todo \/ f.todo \subseteq online \ {Top.s}
          PROVE  Tidy(rank)'
      <3>1. f.op = Top.op /\ f.s = Top.s
        BY <2>2 DEF IsTopAt
      <3>2. Fine(f)
        BY <1>2, <1>3, <2>2, <3>1 DEF Fine
      <3>3. Pairs(f, rank)
        BY <1>3 DEF Pairs
      <3> QED BY <1>1, <1>2, <2>2, <3>1, <3>2, <3>3, TidyKeeps
    <2> QED BY <1>1, <1>2, <2>1, <2>2, OverTidy
  <1>6. CASE RenderChanged
    <2>1. /\ Top.at = "settings"
          /\ \/ IsOver
             \/ Walks("settings")
             \/ TurnsInto("render", "view", Top.s, Top.d, MaxTransitions)
      BY <1>1, <1>6, RenderChangedShape DEF SInv, ReturnsError
    <2>2. CASE TurnsInto("render", "view", Top.s, Top.d, MaxTransitions)
      BY <1>1, <1>2, <1>3, <2>2, TurnsTidy
    <2> QED BY <1>1, <1>2, <2>1, <2>2, OverTidy, WalksTidy
  <1> QED BY <1>4, <1>5, <1>6

LEMMA StayTidies ==
    ASSUME NEW rank, LeadsOn(rank), ViewsOnlyShow, QInv(rank), SInv',
           OpenInitial \/ InitialOpened \/ LeaveLast \/ LeftLast
    PROVE  Tidy(rank)'
  <1>1. SInv /\ Tidy(rank)
    BY DEF QInv
  <1>2. stack # <<>> /\ Top.op \in {"connect", "leave"}
    BY DEF OpenInitial, InitialOpened, LeaveLast, LeftLast, At
  <1>3. Top.d \in Doors /\ Len(stack) = 1
    BY <1>1, <1>2, TopOf, TopPairs DEF SInv, Messages
  <1>4. CASE OpenInitial
    <2>1. PICK f, g : /\ CallsFrom(f, g) /\ IsTopAt(f, "opened") /\ f.todo = Top.todo
                      /\ IsCall(g, "open", "check", Top.s, Top.d, MaxTransitions)
      BY <1>1, <1>4, OpenInitialShape DEF SInv
    <2>2. Pairs(f, rank) /\ Fine(f) /\ f.op = Top.op
      BY <1>1, <1>2, <2>1, SamePairs DEF IsTopAt
    <2>3. Pairs(g, rank)
      BY <1>3 DEF Pairs
    <2>4. Fine(g) /\ Pair(f, g, rank) /\ g.op \notin Messages
      BY <1>2, <2>1, <2>2 DEF Fine, IsCall, Pair, Messages
    <2> QED BY <1>1, <1>2, <2>1, <2>2, <2>3, <2>4, TidyKeeps
  <1>5. CASE InitialOpened
    <2>1. IsOver
      BY <1>1, <1>5, InitialOpenedShape DEF SInv, Returns
    <2> QED BY <1>1, <1>2, <2>1, OverTidy
  <1>6. CASE LeaveLast
    <2>1. \/ HookCalled(Top.s, Top.d, "on_leave", MaxTransitions, "left", TRUE)
          \/ Proceeds("left")
      BY <1>1, <1>6, LeaveLastShape DEF SInv
    <2> QED BY <1>1, <1>2, <1>3, <2>1, HookTidy, ProceedsTidy
  <1>7. CASE LeftLast
    <2>1. IsOver
      BY <1>1, <1>7, LeftLastShape DEF SInv
    <2> QED BY <1>1, <1>2, <2>1, OverTidy
  <1> QED BY <1>4, <1>5, <1>6, <1>7

-----------------------------------------------------------------------------
\* A call that is new, or goes on, holds no view that was outdated meanwhile.
Anew(f) ==
    /\ f.op = "render" => ~f.late
    /\ f.op = "event" =>
         /\ Top.op = "event" /\ f.s = Top.s /\ f.d = Top.d
         /\ f.at = "updated" => ~f.late

Renews ==
    \/ IsOver
    \/ \E f : GoesOnAs(f) /\ Anew(f)
    \/ \E f, g : CallsFrom(f, g) /\ Anew(f) /\ Anew(g)

LEMMA ShapesRenew ==
    ASSUME DInv, stack # <<>>
    PROVE  /\ \A at : Proceeds(at) /\ Top.op \in {"open", "leave"} => Renews
           /\ \A op, at, s, d, b :
                TurnsInto(op, at, s, d, b) /\ op \in {"open", "render"} => Renews
           /\ \A s, d, life, b, at, fan : HookCalled(s, d, life, b, at, fan) => Renews
           /\ \A at : Walks(at) /\ Top.op \in {"effects", "event"} /\ at # "updated" => Renews
           /\ \A f, at : GoesOnAs(f) /\ IsTopAt(f, at) /\ Top.op \in {"effects", "event"}
                           /\ (at = "updated" => Top.op = "effects") => Renews
  <1>1. ASSUME NEW at, Proceeds(at), Top.op \in {"open", "leave"} PROVE Renews
    <2>1. PICK f : GoesOnAs(f) /\ IsTopAt(f, at)
      BY <1>1 DEF Proceeds
    <2>2. Anew(f)
      BY <1>1, <2>1 DEF Anew, IsTopAt
    <2> QED BY <2>1, <2>2 DEF Renews
  <1>2. ASSUME NEW op \in {"open", "render"}, NEW at, NEW s, NEW d, NEW b,
               TurnsInto(op, at, s, d, b)
        PROVE  Renews
    <2>1. PICK f : GoesOnAs(f) /\ IsCall(f, op, at, s, d, b)
      BY <1>2 DEF TurnsInto
    <2>2. Anew(f)
      BY <2>1 DEF Anew, IsCall
    <2> QED BY <2>1, <2>2 DEF Renews
  <1>3. ASSUME NEW s, NEW d, NEW life, NEW b, NEW at, NEW fan,
               HookCalled(s, d, life, b, at, fan)
        PROVE  Renews
    <2>1. PICK f, g : /\ CallsFrom(f, g) /\ IsTopAt(f, at) /\ ~f.late
                      /\ IsCall(g, "effects", "apply", s, d, b)
      BY <1>3 DEF HookCalled
    <2>2. Anew(f) /\ Anew(g)
      BY <2>1 DEF Anew, IsCall, IsTopAt
    <2> QED BY <2>1, <2>2 DEF Renews
  <1>4. ASSUME NEW at, Walks(at), Top.op \in {"effects", "event"}, at # "updated" PROVE Renews
    <2>1. PICK t, f :
            /\ t \in Top.todo
            /\ IsTopAt(f, at)
            /\ \/ GoesOnAs(f)
               \/ \E g : CallsFrom(f, g) /\ IsCall(g, "render", "view", t, active[t], MaxTransitions)
      BY <1>4 DEF Walks
    <2>2. Anew(f)
      BY <1>4, <2>1 DEF Anew, IsTopAt
    <2>3. ASSUME NEW g, CallsFrom(f, g), IsCall(g, "render", "view", t, active[t], MaxTransitions)
          PROVE  Renews
      <3>1. Anew(g)
        BY <2>3 DEF Anew, IsCall
      <3> QED BY <2>2, <2>3, <3>1 DEF Renews
    <2> QED BY <2>1, <2>2, <2>3 DEF Renews
  <1>5. ASSUME NEW f, NEW at, GoesOnAs(f), IsTopAt(f, at), Top.op \in {"effects", "event"},
               at = "updated" => Top.op = "effects"
        PROVE  Renews
    <2>1. Anew(f)
      BY <1>5 DEF Anew, IsTopAt
    <2> QED BY <1>5, <2>1 DEF Renews
  <1> QED BY <1>1, <1>2, <1>3, <1>4, <1>5

LEMMA StepRenews ==
    ASSUME DInv, Step
    PROVE  /\ stack # <<>> /\ Renews
           /\ \/ active' = active
              \/ Top.op = "open" /\ active' = [active EXCEPT ![Top.s] = Top.d]
              \/ Top.op = "leave"
  <1>1. stack # <<>>
    BY DEF Step, CheckOpen, LeaveOld, EnterDoor, Joined, InvokeView, Viewed, ApplyEffects,
           RenderPeers, InvokeUpdate, Updated, RenderChanged, OpenInitial, InitialOpened,
           LeaveLast, LeftLast, At
  <1>2. CASE CheckOpen
    BY <1>1, <1>2, CheckOpenShape, ShapesRenew DEF ReturnsError, Renews
  <1>3. CASE LeaveOld
    BY <1>1, <1>3, LeaveOldShape, ShapesRenew
  <1>4. CASE EnterDoor
    BY <1>1, <1>4, EnterDoorShape, ShapesRenew DEF ReturnsError, Renews
  <1>5. CASE Joined
    BY <1>1, <1>5, JoinedShape, ShapesRenew DEF ReturnsError, Returns, Renews, Idles
  <1>6. CASE InvokeView
    BY <1>1, <1>6, InvokeViewShape, ShapesRenew DEF ReturnsError, Renews, Idles
  <1>7. CASE Viewed
    BY <1>1, <1>7, ViewedShape DEF ReturnsError, Returns, Renews
  <1>8. CASE ApplyEffects
    <2>1. /\ Top.op = "effects" /\ active' = active
          /\ \/ IsOver
             \/ TurnsInto("open", "check", Top.s, Top.answer.to, Top.b - 1)
             \/ \E f : GoesOnAs(f) /\ IsTopAt(f, "profile")
      BY <1>8, ApplyEffectsShape DEF ReturnsError
    <2> QED BY <1>1, <2>1, ShapesRenew DEF Renews
  <1>9. CASE RenderPeers
    <2>1. /\ Top.op = "effects" /\ Top.at # "updated" /\ active' = active
          /\ \/ IsOver
             \/ Walks(Top.at)
             \/ \E f : GoesOnAs(f) /\ IsTopAt(f, "room")
      BY <1>9, RenderPeersShape DEF ReturnsError, Returns, Idles
    <2> QED BY <1>1, <2>1, ShapesRenew DEF Renews
  <1>10. CASE InvokeUpdate
    BY <1>1, <1>10, InvokeUpdateShape, ShapesRenew DEF ReturnsError, Renews, Idles
  <1>11. CASE Updated
    <2>1. /\ Top.op = "event" /\ active' = active
          /\ \/ IsOver
             \/ \E f : GoesOnAs(f) /\ (IsTopAt(f, "update") \/ IsTopAt(f, "settings"))
      BY <1>11, UpdatedShape DEF ReturnsError, Returns
    <2> QED BY <1>1, <2>1, ShapesRenew DEF Renews
  <1>12. CASE RenderChanged
    BY <1>1, <1>12, RenderChangedShape, ShapesRenew DEF ReturnsError, Renews, Idles
  <1>13. CASE OpenInitial
    <2>1. active' = active /\ Top.op = "connect"
      BY <1>13, OpenInitialShape DEF Idles
    <2>2. PICK f, g : /\ CallsFrom(f, g) /\ IsTopAt(f, "opened")
                      /\ IsCall(g, "open", "check", Top.s, Top.d, MaxTransitions)
      BY <1>13, OpenInitialShape
    <2>3. Anew(f) /\ Anew(g)
      BY <2>1, <2>2 DEF Anew, IsTopAt, IsCall
    <2> QED BY <1>1, <2>1, <2>2, <2>3 DEF Renews
  <1>14. CASE InitialOpened
    BY <1>1, <1>14, InitialOpenedShape DEF Returns, Renews
  <1>15. CASE LeaveLast
    BY <1>1, <1>15, LeaveLastShape, ShapesRenew
  <1>16. CASE LeftLast
    BY <1>1, <1>16, LeftLastShape DEF Renews
  <1> QED BY <1>2, <1>3, <1>4, <1>5, <1>6, <1>7, <1>8, <1>9, <1>10, <1>11, <1>12, <1>13, <1>14,
             <1>15, <1>16 DEF Step

\* A view is sent by the innermost call, for its session; calls below it that
\* wait with a view of that session are those of an event that took it here.
LEMMA StepStaysFresh ==
    ASSUME NEW rank, QInv(rank), SInv', Step
    PROVE  RendersFresh' /\ stale' = {}
  <1>1. /\ DInv /\ stack # <<>> /\ Renews /\ Tidy(rank) /\ SInv
        /\ (NothingSent /\ stale' \subseteq stale) \/ Sends
    BY StepRenews, SendingShape DEF QInv, SInv
  <1>2. Len(stack) \in Nat \ {0} /\ Len(stack') \in Nat
        /\ DOMAIN stack = 1..Len(stack) /\ DOMAIN stack' = 1..Len(stack')
        /\ stack[Len(stack)] = Top
    BY <1>1, Innermost DEF SInv, DInv, TypeOK
  <1>3. /\ CallersWait
        /\ \A i \in DOMAIN stack' : i \in 1..(Len(stack) - 1) \/ Anew(stack'[i])
    <2>1. ASSUME IsOver PROVE DOMAIN stack' = 1..(Len(stack) - 1) /\ CallersWait
      BY <1>2, <2>1 DEF IsOver
    <2>2. ASSUME NEW f, GoesOnAs(f), Anew(f)
          PROVE  /\ CallersWait
                 /\ \A i \in DOMAIN stack' : i \in 1..(Len(stack) - 1) \/ stack'[i] = f
      BY <1>2, <2>2 DEF GoesOnAs
    <2>3. ASSUME NEW f, NEW g, CallsFrom(f, g), Anew(f), Anew(g)
          PROVE  /\ CallersWait
                 /\ \A i \in DOMAIN stack' :
                       i \in 1..(Len(stack) - 1) \/ stack'[i] = f \/ stack'[i] = g
      BY <1>2, <2>3 DEF CallsFrom
    <2> QED BY <1>1, <2>1, <2>2, <2>3 DEF Renews
  <1>4. Sends => \A i \in 1..(Len(stack) - 1) : stack[i].op # "render"
    BY <1>1, Busy DEF Sends, Quiet
  <1>5. RendersFresh'
    <2> SUFFICES ASSUME NEW i \in DOMAIN stack', stack'[i].op = "render" PROVE ~stack'[i].late
      BY DEF RendersFresh
    <2>1. CASE Anew(stack'[i])
      BY <2>1 DEF Anew
    <2>2. CASE i \in 1..(Len(stack) - 1)
      <3>1. stack[i].op = "render" /\ i \in DOMAIN stack
        BY <1>2, <1>3, <2>2 DEF CallersWait, Like
      <3>2. NothingSent
        BY <1>1, <1>4, <2>2, <3>1
      <3> QED BY <2>2, <3>1, <3>2 DEF NothingSent, QInv, RendersFresh
    <2> QED BY <1>3, <2>1, <2>2
  <1>6. stale' = {}
    <2>1. ASSUME Sends PROVE ~Top.late \/ Top.op = "connect"
      <3>1. CASE Top.op = "render"
        BY <1>2, <3>1 DEF QInv, RendersFresh
      <3>2. CASE Top.op = "event"
        <4>1. Len(stack) = 1 /\ active[Top.s] = Top.d
          BY <1>1, <2>1, <3>2, TopPairs, TopInside DEF Messages, Sends
        <4>2. TakenOn(Top, rank) /\ Top.at = "updated"
          BY <1>1, <1>2, <2>1, <3>2, <4>1 DEF QInv, EventGoesOn, Sends
        <4> QED BY <3>2, <4>1, <4>2 DEF TakenOn
      <3> QED BY <2>1, <3>1, <3>2 DEF Sends
    <2>2. ASSUME Sends PROVE stale' \subseteq stale
      BY <2>1, <2>2 DEF Sends, WriteRender
    <2> QED BY <1>1, <2>2 DEF QInv
  <1> QED BY <1>5, <1>6

LEMMA StepTakesOn ==
    ASSUME NEW rank, LeadsOn(rank), QInv(rank), SInv', Step
    PROVE  EventGoesOn(rank)'
  <1>1. /\ DInv /\ stack # <<>> /\ Renews /\ Tidy(rank) /\ SInv
        /\ NothingSent \/ Sends
        /\ \/ active' = active
           \/ Top.op = "open" /\ active' = [active EXCEPT ![Top.s] = Top.d]
           \/ Top.op = "leave"
    BY StepRenews, SendingShape DEF QInv, SInv
  <1>2. Len(stack) \in Nat \ {0} /\ Len(stack') \in Nat
        /\ DOMAIN stack = 1..Len(stack) /\ DOMAIN stack' = 1..Len(stack')
        /\ stack[Len(stack)] = Top /\ active \in [Sessions -> Doors \cup {None}]
    BY <1>1, Innermost DEF SInv, DInv, TypeOK
  <1>3. Top \in Frames /\ Top.s \in Sessions /\ Top.d \in Doors
    BY <1>1, TopOf
  <1> SUFFICES ASSUME stack' # <<>>, stack'[1].op = "event"
               PROVE  LET e == stack'[1]
                      IN /\ active'[e.s] \in Doors /\ rank[e.d] <= rank[active'[e.s]]
                         /\ e.at = "updated" /\ e.late => active'[e.s] # e.d
    BY DEF EventGoesOn, TakenOn
  <1>4. CASE Len(stack) = 1
    <2>1. Anew(stack'[1])
      <3>1. ~IsOver
        BY <1>2, <1>4 DEF IsOver, SInv, DInv, TypeOK
      <3> QED BY <1>1, <1>2, <1>4, <3>1 DEF Renews, GoesOnAs, CallsFrom
    <2>2. /\ Top.op = "event" /\ stack'[1].s = Top.s /\ stack'[1].d = Top.d
          /\ stack'[1].at = "updated" => ~stack'[1].late
      BY <2>1 DEF Anew
    <2>3. TakenOn(Top, rank)
      BY <1>1, <1>2, <1>4 DEF QInv, EventGoesOn
    <2>4. active' = active
      BY <1>1, <2>2
    <2> QED BY <2>2, <2>3, <2>4 DEF TakenOn
  <1>5. CASE Len(stack) # 1
    <2>1. 1 \in 1..(Len(stack) - 1) /\ 1 \in DOMAIN stack
      BY <1>2, <1>5
    <2>2. CallersWait
      BY <1>1 DEF Renews, IsOver, GoesOnAs, CallsFrom
    <2>3. /\ stack[1].op = "event" /\ stack'[1].at = stack[1].at
          /\ stack'[1].s = stack[1].s /\ stack'[1].d = stack[1].d
      BY <2>1, <2>2 DEF CallersWait, Like
    <2>4. /\ TakenOn(stack[1], rank) /\ stack[1] \in Frames
          /\ stack[1].d \in Doors /\ stack[1].s \in Sessions
      BY <1>1, <2>1, FrameFields DEF QInv, EventGoesOn, SInv, DInv, TypeOK
    <2>5. /\ Top.op \notin Messages
          /\ Top.op \in {"open", "render"} /\ stack[1].s = Top.s => rank[stack[1].d] < rank[Top.d]
      <3>1. Top.op \notin Messages
        BY <1>1, <1>5, TopPairs
      <3>2. Caused(stack[1], Top, rank)
        BY <1>1, <2>1, <2>3, TopPairs DEF Pairs, Pair
      <3> QED BY <3>1, <3>2 DEF Caused
    <2>6. rank[stack[1].d] \in Nat /\ rank[Top.d] \in Nat
      BY <1>3, <2>4 DEF LeadsOn
    <2>7. CASE active' = active
      <3>1. ASSUME stack'[1].late, ~stack[1].late PROVE active[stack[1].s] # stack[1].d
        <4>1. Sends
          BY <1>1, <2>1, <3>1 DEF NothingSent
        <4>2. WriteRender(Top.s, Top.d) /\ ~Moved(Top.s, Top.d) /\ Top.op = "render"
          BY <2>5, <4>1 DEF Sends, Messages
        <4>3. stack[1].s = Top.s
          BY <1>1, <2>1, <3>1, <4>2, SentShape
        <4>4. active[Top.s] = Top.d
          BY <1>1, <4>2, TopInside DEF Shows
        <4>5. rank[stack[1].d] < rank[Top.d]
          BY <2>5, <4>2, <4>3
        <4> QED BY <2>6, <4>3, <4>4, <4>5
      <3> QED BY <2>3, <2>4, <2>7, <3>1 DEF TakenOn
    <2>8. CASE Top.op = "open" /\ active' = [active EXCEPT ![Top.s] = Top.d]
      <3>1. NothingSent
        BY <1>1, <2>8 DEF Sends
      <3>2. stack'[1] = stack[1]
        BY <2>1, <3>1 DEF NothingSent
      <3>3. CASE stack[1].s = Top.s
        <4>1. active'[stack[1].s] = Top.d /\ rank[stack[1].d] < rank[Top.d]
          BY <1>2, <1>3, <2>5, <2>8, <3>3
        <4> QED BY <1>3, <2>6, <3>2, <4>1
      <3>4. CASE stack[1].s # Top.s
        <4>1. active'[stack[1].s] = active[stack[1].s]
          BY <1>2, <2>4, <2>8, <3>4
        <4> QED BY <2>3, <2>4, <3>2, <4>1 DEF TakenOn
      <3> QED BY <3>3, <3>4
    <2> QED BY <1>1, <2>5, <2>7, <2>8 DEF Messages
  <1> QED BY <1>4, <1>5

LEMMA MessageStaysFresh ==
    ASSUME NEW rank, LeadsOn(rank), QInv(rank), SInv', Message
    PROVE  QInv(rank)'
  <1>1. /\ UNCHANGED <<active, stale>>
        /\ \E f : /\ stack' = <<f>> /\ f.op # "effects" /\ f.todo = {} /\ ~f.late
                  /\ f.op \in {"event", "open", "connect", "leave"}
                  /\ f.op = "event" => f.d = active[f.s] /\ f.d \in Doors
    <2>1. ASSUME NEW s \in Sessions, Connect(s)
          PROVE  /\ UNCHANGED <<active, stale>>
                 /\ \E f : stack' = <<f>> /\ f.op = "connect" /\ f.todo = {} /\ ~f.late
      <3>1. PICK d, how : Start([Call("connect", "opening", s, d, 0) EXCEPT !.how = how])
        BY <2>1 DEF Connect
      <3> DEFINE f == [Call("connect", "opening", s, d, 0) EXCEPT !.how = how]
      <3>2. f.op = "connect" /\ f.todo = {} /\ ~f.late
        BY DEF Call
      <3>3. stack' = <<f>> /\ UNCHANGED <<active, stale>>
        BY <2>1, <3>1 DEF Connect, Start, shown
      <3> HIDE DEF f
      <3> QED BY <3>2, <3>3
    <2>2. ASSUME NEW s \in Sessions, Event(s)
          PROVE  /\ UNCHANGED <<active, stale>>
                 /\ \E f : /\ stack' = <<f>> /\ f.op = "event" /\ f.todo = {} /\ ~f.late
                           /\ f.d = active[f.s] /\ f.d \in Doors
      <3> DEFINE f == Call("event", "update", s, active[s], MaxTransitions)
      <3>1. /\ f.op = "event" /\ f.todo = {} /\ ~f.late /\ f.s = s /\ f.d = active[s]
        BY DEF Call
      <3>2. stack' = <<f>> /\ active[s] \in Doors /\ UNCHANGED <<active, stale>>
        BY <2>2 DEF Event, Start, shown, QInv, SInv, DInv, TypeOK
      <3> HIDE DEF f
      <3> QED BY <3>1, <3>2
    <2>3. ASSUME NEW s \in Sessions, Leave(s)
          PROVE  /\ UNCHANGED <<active, stale>>
                 /\ \E f : stack' = <<f>> /\ f.op = "leave" /\ f.todo = {} /\ ~f.late
      BY <2>3 DEF Leave, Start, shown, Call
    <2>4. ASSUME NEW s \in Sessions, NEW d \in Doors, OpenDoor(s, d)
          PROVE  /\ UNCHANGED <<active, stale>>
                 /\ \E f : stack' = <<f>> /\ f.op = "open" /\ f.todo = {} /\ ~f.late
      BY <2>4 DEF OpenDoor, Start, shown, Call
    <2>5. CASE \E s \in Sessions : Event(s)
      BY <2>2, <2>5
    <2> QED BY <2>1, <2>3, <2>4, <2>5 DEF Message
  <1>2. PICK f : /\ stack' = <<f>> /\ f.op # "effects" /\ f.todo = {} /\ ~f.late
                 /\ f.op \in {"event", "open", "connect", "leave"}
                 /\ f.op = "event" => f.d = active[f.s] /\ f.d \in Doors
    BY <1>1
  <1>3. DOMAIN stack' = {1} /\ stack'[1] = f
    BY <1>2
  <1>4. Tidy(rank)'
    BY <1>2, <1>3 DEF Tidy, Fine
  <1>5. RendersFresh'
    BY <1>2, <1>3 DEF RendersFresh
  <1>6. EventGoesOn(rank)'
    BY <1>1, <1>2, <1>3 DEF EventGoesOn, TakenOn, LeadsOn
  <1> QED BY <1>1, <1>4, <1>5, <1>6 DEF QInv

LEMMA NextStaysFresh ==
    ASSUME NEW rank, LeadsOn(rank), ViewsOnlyShow, QInv(rank), [Next]_vars
    PROVE  QInv(rank)'
  <1>1. SInv'
    BY NextSettles DEF QInv
  <1>2. CASE Step
    <2>1. Tidy(rank)'
      BY <1>1, <1>2, OpenTidies, RenderTidies, ApplyEffectsTidies, RenderPeersTidies,
         EventTidies, StayTidies DEF Step
    <2> QED BY <1>1, <1>2, <2>1, StepStaysFresh, StepTakesOn DEF QInv
  <1>3. CASE Message
    BY <1>1, <1>3, MessageStaysFresh
  <1>4. CASE Environment \/ UNCHANGED vars
    <2>1. UNCHANGED <<stack, active, stale>>
      BY <1>4 DEF Environment, OpenExpires, SetDoorEnabled, vars, shown
    <2> QED BY <1>1, <2>1 DEF QInv, Tidy, Fine, Pair, Caused, Quiet, RendersFresh, EventGoesOn,
                              TakenOn
  <1> QED BY <1>2, <1>3, <1>4 DEF Next

\* If views only show, and doors lead on and never back, then the view a session
\* is left with was computed after every view it was sent before, whatever else
\* the hooks ask for and whatever fails: an event whose session was taken on to
\* another door never sends the view it was answered (handleEvent, writeRender).
THEOREM LatestViewIsShown ==
    ASSUME NEW rank, LeadsOn(rank), ViewsOnlyShow
    PROVE  Spec => []LatestViewShown
  <1>1. Init => QInv(rank)
    <2> SUFFICES ASSUME Init PROVE QInv(rank)
      OBVIOUS
    <2>1. SInv /\ stack = <<>> /\ DOMAIN stack = {}
      BY InitSettles DEF Init
    <2> QED BY <2>1 DEF Init, QInv, Tidy, RendersFresh, EventGoesOn
  <1>2. QInv(rank) /\ [Next]_vars => QInv(rank)'
    BY NextStaysFresh
  <1>3. QInv(rank) => LatestViewShown
    BY DEF QInv, LatestViewShown
  <1> QED BY <1>1, <1>2, <1>3, PTL DEF Spec

-----------------------------------------------------------------------------
(* Joins and leaves are paired *)

\* Calls that wait are past their checks; what a render, a leave or an open that
\* is about to enter its door calls moves nobody and removes no door.
Waits(f) ==
    /\ f.op = "open" => f.at \in {"enter", "joined"}
    /\ f.op = "connect" => f.at = "opened"
    /\ f.op = "leave" => f.at = "left"

Holds(f) == f.op = "render" \/ (f.op = "open" /\ f.at = "enter") \/ f.op = "leave"

Mild(f) == f.op = "render" \/ (f.op = "effects" /\ f.answer.asks \cap {"move", "reload"} = {})

HookPair(e, f) == Waits(e) /\ (Holds(e) => Mild(f))

\* A call of a login that takes over the door of a dropped session, before the
\* session is in the door.
Resumes(f) ==
    /\ f.how = "resume"
    /\ \/ f.op = "connect" /\ f.at = "opening"
       \/ f.op = "open" /\ f.at \in {"check", "leave", "enter"}

Placed(f) ==
    /\ f.op \in {"open", "connect", "event"} => f.s \in online
    /\ f.op = "effects" /\ "move" \in f.answer.asks => f.s \in online
    /\ f.op = "leave" => f.s \notin online
    /\ f.op = "open" /\ f.at \in {"leave", "enter"} => f.d \in doors
    /\ f.op = "open" /\ f.at = "enter" => joined[f.s] \subseteq {f.d}
    /\ f.op = "leave" /\ f.at = "leave" => f.d = active[f.s]
    /\ Resumes(f) => f.d \in doors /\ f.d \notin closed

Resuming(x) ==
    \E i \in DOMAIN stack :
        stack[i].s = x /\ Resumes(stack[i]) /\ joined[x] \subseteq {stack[i].d}

LeavingLast(x) == \E i \in DOMAIN stack :
    stack[i].op = "leave" /\ stack[i].at = "leave" /\ stack[i].s = x

HInv ==
    /\ DInv
    /\ \A i, j \in DOMAIN stack : i < j => HookPair(stack[i], stack[j])
    /\ \A i \in DOMAIN stack : Placed(stack[i])
    /\ \A x \in Sessions : joined[x] \subseteq doors
    /\ \A x \in Sessions : joined[x] \subseteq {active[x]} \/ Resuming(x)
    /\ \A x \in Sessions : x \in online \/ joined[x] = {} \/ LeavingLast(x)

\* The same of the next state, for a call that is new or goes on.
PlacedNext(f) ==
    /\ f.op \in {"open", "connect", "event"} => f.s \in online
    /\ f.op = "effects" /\ "move" \in f.answer.asks => f.s \in online
    /\ f.op = "leave" => f.s \notin online /\ f.at = "left"
    /\ f.op = "open" /\ f.at \in {"leave", "enter"} => f.d \in doors'
    /\ f.op = "open" /\ f.at = "enter" => joined'[f.s] \subseteq {f.d}
    /\ Resumes(f) => f.d \in doors' /\ f.d \notin closed

\* A call that may go on in the place of the innermost one.
May(f) == PlacedNext(f) /\ (Mild(Top) => Mild(f))

\* What becomes of the stack, as far as joins and leaves go.
Pairing ==
    /\ \A i \in 1..(Len(stack) - 1) : i \in DOMAIN stack' /\ Like(stack'[i], stack[i])
    /\ \A i \in DOMAIN stack' : i >= Len(stack) =>
         /\ May(stack'[i])
         /\ i = Len(stack) \/ (i = Len(stack) + 1 /\ HookPair(stack'[Len(stack)], stack'[i]))

ResumingNext(x) ==
    \E i \in DOMAIN stack' :
        stack'[i].s = x /\ Resumes(stack'[i]) /\ joined'[x] \subseteq {stack'[i].d}

StaysIn(x) ==
    \/ joined'[x] \subseteq {active'[x]}
    \/ ResumingNext(x)
    \/ /\ active'[x] = active[x] /\ joined'[x] \subseteq joined[x]
       /\ ~(Top.s = x /\ Resumes(Top))

StaysOut(x) ==
    \/ x \in online
    \/ joined'[x] = {}
    \/ joined'[x] \subseteq joined[x] /\ ~(Top.op = "leave" /\ Top.at = "leave" /\ Top.s = x)

LEMMA LikeHooks ==
    ASSUME NEW e, NEW f, Like(e, f)
    PROVE  /\ Waits(e) <=> Waits(f)
           /\ Holds(e) <=> Holds(f)
           /\ Mild(e) <=> Mild(f)
           /\ Resumes(e) <=> Resumes(f)
           /\ e.op = f.op /\ e.at = f.at /\ e.s = f.s /\ e.d = f.d /\ e.answer = f.answer
  BY DEF Like, Waits, Holds, Mild, Resumes

LEMMA BelowTop ==
    ASSUME HInv, stack # <<>>, NEW i \in 1..(Len(stack) - 1)
    PROVE  /\ i \in DOMAIN stack /\ HookPair(stack[i], Top) /\ Placed(stack[i])
           /\ Placed(Top) /\ stack[i] \in Frames
  <1>1. Len(stack) \in Nat \ {0} /\ DOMAIN stack = 1..Len(stack) /\ stack[Len(stack)] = Top
        /\ stack \in Seq(Frames)
    BY Innermost DEF HInv, DInv, TypeOK
  <1>2. i \in DOMAIN stack /\ i < Len(stack) /\ Len(stack) \in DOMAIN stack
    BY <1>1
  <1>3. HookPair(stack[i], Top)
    BY <1>1, <1>2 DEF HInv
  <1> QED BY <1>1, <1>2, <1>3 DEF HInv

LEMMA TopPlaced ==
    ASSUME HInv, stack # <<>>
    PROVE  Placed(Top)
  <1>1. Len(stack) \in DOMAIN stack /\ stack[Len(stack)] = Top
    BY Innermost DEF HInv, DInv, TypeOK
  <1> QED BY <1>1 DEF HInv

LEMMA HooksKeep ==
    ASSUME HInv, stack # <<>>, DInv', Pairing, UNCHANGED <<online, closed>>,
           Mild(Top) => doors' = doors /\ \A x \in Sessions : joined'[x] \subseteq joined[x],
           \A x \in Sessions : joined'[x] \subseteq doors' /\ StaysIn(x) /\ StaysOut(x)
    PROVE  HInv'
  <1>1. Len(stack) \in Nat \ {0} /\ Len(stack') \in Nat
        /\ DOMAIN stack = 1..Len(stack) /\ DOMAIN stack' = 1..Len(stack')
        /\ stack[Len(stack)] = Top
    BY Innermost DEF HInv, DInv, TypeOK
  <1>2. ASSUME NEW i \in 1..(Len(stack) - 1), NEW j \in DOMAIN stack', i < j
        PROVE  HookPair(stack'[i], stack'[j])
    <2>1. Like(stack'[i], stack[i]) /\ i \in DOMAIN stack /\ HookPair(stack[i], Top)
      BY <1>1, BelowTop DEF Pairing
    <2>2. CASE j \in 1..(Len(stack) - 1)
      <3>1. Like(stack'[j], stack[j]) /\ HookPair(stack[i], stack[j])
        BY <1>1, <1>2, <2>2 DEF Pairing, HInv
      <3> QED BY <2>1, <3>1, LikeHooks DEF HookPair
    <2>3. CASE j >= Len(stack)
      BY <2>1, <2>3, LikeHooks DEF Pairing, HookPair, May
    <2> QED BY <1>1, <2>2, <2>3
  <1>3. ASSUME NEW i \in DOMAIN stack', NEW j \in DOMAIN stack', i < j
        PROVE  HookPair(stack'[i], stack'[j])
    <2>1. CASE i \in 1..(Len(stack) - 1)
      BY <1>2, <1>3, <2>1
    <2>2. CASE i >= Len(stack)
      <3>1. i = Len(stack) /\ j = Len(stack) + 1
        BY <1>1, <1>3, <2>2 DEF Pairing
      <3> QED BY <1>1, <3>1 DEF Pairing
    <2> QED BY <1>1, <2>1, <2>2
  <1>4. ASSUME NEW i \in DOMAIN stack'
        PROVE  Placed(stack[i])'
    <2>1. CASE i >= Len(stack)
      <3>1. PlacedNext(stack'[i])
        BY <2>1 DEF Pairing, May
      <3> QED BY <3>1 DEF PlacedNext, Placed, Resumes
    <2>2. CASE i \in 1..(Len(stack) - 1)
      <3>1. /\ Like(stack'[i], stack[i]) /\ HookPair(stack[i], Top) /\ Placed(stack[i])
            /\ stack[i].s \in Sessions
        BY <2>2, BelowTop, FrameFields DEF Pairing
      <3>2. Holds(stack[i]) => doors' = doors /\ joined'[stack[i].s] \subseteq joined[stack[i].s]
        BY <3>1 DEF HookPair
      <3>3. PlacedNext(stack'[i])
        BY <3>1, <3>2, LikeHooks DEF HookPair, Waits, Holds, Placed, PlacedNext, Resumes
      <3> QED BY <3>3 DEF PlacedNext, Placed, Resumes
    <2> QED BY <1>1, <2>1, <2>2
  <1>5. ASSUME NEW x \in Sessions
        PROVE  joined'[x] \subseteq {active'[x]} \/ ResumingNext(x)
    <2>1. CASE /\ active'[x] = active[x] /\ joined'[x] \subseteq joined[x]
               /\ ~(Top.s = x /\ Resumes(Top))
      <3>1. CASE Resuming(x)
        <4>1. PICK i \in DOMAIN stack :
                stack[i].s = x /\ Resumes(stack[i]) /\ joined[x] \subseteq {stack[i].d}
          BY <3>1 DEF Resuming
        <4>2. i \in 1..(Len(stack) - 1)
          BY <1>1, <2>1, <4>1
        <4>3. i \in DOMAIN stack' /\ Like(stack'[i], stack[i])
          BY <4>2 DEF Pairing
        <4> QED BY <2>1, <4>1, <4>3, LikeHooks DEF ResumingNext
      <3> QED BY <2>1, <3>1 DEF HInv
    <2> QED BY <2>1 DEF StaysIn
  <1>6. ASSUME NEW x \in Sessions
        PROVE  x \in online' \/ joined'[x] = {}
    <2>1. CASE /\ joined'[x] \subseteq joined[x]
               /\ ~(Top.op = "leave" /\ Top.at = "leave" /\ Top.s = x)
      <3>1. ASSUME LeavingLast(x) PROVE FALSE
        <4>1. PICK i \in DOMAIN stack :
                stack[i].op = "leave" /\ stack[i].at = "leave" /\ stack[i].s = x
          BY <3>1 DEF LeavingLast
        <4>2. i \in 1..(Len(stack) - 1)
          BY <1>1, <2>1, <4>1
        <4> QED BY <4>1, <4>2, BelowTop DEF HookPair, Waits
      <3> QED BY <2>1, <3>1 DEF HInv
    <2> QED BY <2>1 DEF StaysOut
  <1>7. \A x \in Sessions : joined'[x] \subseteq {active'[x]} \/ Resuming(x)'
    BY <1>5 DEF ResumingNext, Resuming, Resumes
  <1> QED BY <1>3, <1>4, <1>6, <1>7 DEF HInv, HookPair, Waits, Holds, Mild

LEMMA PairingOf ==
    ASSUME HInv, stack # <<>>, DInv'
    PROVE  /\ \A f : GoesOnAs(f) /\ May(f) => Pairing
           /\ \A f, g : CallsFrom(f, g) /\ May(f) /\ May(g) /\ HookPair(f, g) => Pairing
           /\ IsOver => Pairing
  <1>1. Len(stack) \in Nat \ {0} /\ Len(stack') \in Nat
        /\ DOMAIN stack = 1..Len(stack) /\ DOMAIN stack' = 1..Len(stack')
    BY Innermost DEF HInv, DInv, TypeOK
  <1>2. CallersWait => \A i \in 1..(Len(stack) - 1) : i \in 1..Len(stack') /\ Like(stack'[i], stack[i])
    BY DEF CallersWait
  <1>3. ASSUME NEW f, GoesOnAs(f), May(f) PROVE Pairing
    <2>1. \A i \in DOMAIN stack' : i >= Len(stack) => i = Len(stack) /\ stack'[i] = f
      BY <1>1, <1>3 DEF GoesOnAs
    <2> QED BY <1>1, <1>2, <1>3, <2>1 DEF Pairing, GoesOnAs
  <1>4. ASSUME NEW f, NEW g, CallsFrom(f, g), May(f), May(g), HookPair(f, g) PROVE Pairing
    <2>1. /\ \A i \in DOMAIN stack' : i >= Len(stack) =>
                \/ i = Len(stack) /\ stack'[i] = f
                \/ i = Len(stack) + 1 /\ stack'[i] = g
          /\ stack'[Len(stack)] = f
      BY <1>1, <1>4 DEF CallsFrom
    <2> QED BY <1>1, <1>2, <1>4, <2>1 DEF Pairing, CallsFrom
  <1>5. ASSUME IsOver PROVE Pairing
    <2>1. \A i \in DOMAIN stack' : ~(i >= Len(stack))
      BY <1>1, <1>5 DEF IsOver
    <2> QED BY <1>1, <1>2, <1>5, <2>1 DEF Pairing, IsOver
  <1> QED BY <1>3, <1>4, <1>5

\* A call that runs a hook, and the effects it asks for.
LEMMA HookPairs ==
    ASSUME LeavingOnlyLeaves, HInv, stack # <<>>, DInv', NEW d, NEW life, NEW b, NEW at, NEW fan,
           HookCalled(Top.s, d, life, b, at, fan),
           \/ Top.op = "render" /\ life = "view"
           \/ Top.op = "open" /\ at = "joined"
           \/ /\ Top.op = "open" /\ Top.at = "leave" /\ at = "enter" /\ life = "on_leave"
              /\ Top.d \in doors' /\ joined'[Top.s] \subseteq {Top.d}
              /\ Top.how = "resume" => Top.d \notin closed
           \/ Top.op = "event"
           \/ Top.op = "leave" /\ at = "left" /\ life = "on_leave"
    PROVE  Pairing
  <1>1. PICK f, g :
        /\ CallsFrom(f, g) /\ IsTopAt(f, at)
        /\ IsCall(g, "effects", "apply", Top.s, d, b)
        /\ g.answer.asks \in Asks[life]
    BY DEF HookCalled
  <1>2. /\ f.op = Top.op /\ f.s = Top.s /\ f.d = Top.d /\ f.at = at /\ f.how = Top.how
        /\ g.op = "effects" /\ g.s = Top.s
    BY <1>1 DEF IsTopAt, IsCall
  <1>3. life \in {"view", "on_leave"} => Mild(g) /\ "move" \notin g.answer.asks
    BY <1>1, <1>2 DEF Mild, LeavingOnlyLeaves
  <1>4. PlacedNext(f)
    BY <1>2, TopPlaced DEF PlacedNext, Placed, Resumes
  <1>5. PlacedNext(g)
    BY <1>2, <1>3, TopPlaced DEF PlacedNext, Placed, Resumes
  <1>6. May(f) /\ May(g)
    BY <1>2, <1>3, <1>4, <1>5 DEF May, Mild
  <1>7. HookPair(f, g)
    BY <1>2, <1>3 DEF HookPair, Waits, Holds
  <1> QED BY <1>1, <1>6, <1>7, PairingOf

LEMMA TurnsPairs ==
    ASSUME HInv, stack # <<>>, DInv', NEW op, NEW at, NEW d, NEW b,
           TurnsInto(op, at, Top.s, d, b), ~Mild(Top),
           op = "render" \/ (op = "open" /\ at = "check" /\ Top.op = "effects"
                                         /\ "move" \in Top.answer.asks)
    PROVE  Pairing
  <1>1. PICK f : GoesOnAs(f) /\ IsCall(f, op, at, Top.s, d, b) /\ f.how = "plain"
    BY DEF TurnsInto
  <1>2. May(f)
    BY <1>1, TopPlaced DEF May, IsCall, PlacedNext, Resumes, Placed
  <1> QED BY <1>1, <1>2, PairingOf

LEMMA WalksPairs ==
    ASSUME HInv, stack # <<>>, DInv', NEW at, Walks(at), Top.op \in {"effects", "event"}
    PROVE  Pairing
  <1>1. PICK t, f :
        /\ t \in Top.todo
        /\ IsTopAt(f, at) /\ f.answer = Top.answer
        /\ \/ GoesOnAs(f)
           \/ \E g : CallsFrom(f, g) /\ IsCall(g, "render", "view", t, active[t], MaxTransitions)
    BY DEF Walks
  <1>2. May(f) /\ Waits(f) /\ ~Holds(f)
    BY <1>1, TopPlaced DEF May, IsTopAt, PlacedNext, Placed, Resumes, Mild, Waits, Holds
  <1>3. ASSUME NEW g, CallsFrom(f, g), IsCall(g, "render", "view", t, active[t], MaxTransitions)
        PROVE  Pairing
    <2>1. May(g) /\ HookPair(f, g)
      BY <1>2, <1>3 DEF May, PlacedNext, Resumes, IsCall, Mild, HookPair
    <2> QED BY <1>2, <1>3, <2>1, PairingOf
  <1> QED BY <1>1, <1>2, <1>3, PairingOf

\* A call that goes on or returns, and leaves everyone where they are.
LEMMA QuietHooks ==
    ASSUME HInv, stack # <<>>, DInv', Pairing, UNCHANGED <<online, active, closed>>,
           Mild(Top) => doors' = doors,
           \A x \in Sessions : joined'[x] \subseteq doors' /\ joined'[x] \subseteq joined[x],
           ~Resumes(Top), ~(Top.op = "leave" /\ Top.at = "leave")
    PROVE  HInv'
  BY HooksKeep DEF StaysIn, StaysOut

LEMMA StillHooks ==
    ASSUME HInv, stack # <<>>, DInv', Pairing, UNCHANGED <<online, active, doors, closed, joined>>,
           ~Resumes(Top), ~(Top.op = "leave" /\ Top.at = "leave")
    PROVE  HInv'
  BY QuietHooks DEF HInv

LEMMA RenderHooks ==
    ASSUME LeavingOnlyLeaves, HInv, DInv', InvokeView \/ Viewed PROVE HInv'
  <1>1. CASE InvokeView
    <2>1. /\ stack # <<>> /\ Top.op = "render" /\ UNCHANGED <<online, active, doors, closed, joined>>
          /\ HookCalled(Top.s, Top.d, "view", Top.b, "viewed", FALSE) \/ IsOver
      BY <1>1, InvokeViewShape DEF HInv, ReturnsError, Idles
    <2>2. Pairing
      BY <2>1, HookPairs, PairingOf
    <2> QED BY <2>1, <2>2, StillHooks DEF Resumes
  <1>2. CASE Viewed
    <2>1. /\ stack # <<>> /\ Top.op = "render" /\ UNCHANGED <<online, active, doors, closed, joined>>
          /\ IsOver
      BY <1>2, ViewedShape DEF HInv, ReturnsError, Returns
    <2> QED BY <2>1, PairingOf, StillHooks DEF Resumes
  <1> QED BY <1>1, <1>2

LEMMA EventHooks ==
    ASSUME LeavingOnlyLeaves, HInv, DInv', InvokeUpdate \/ Updated \/ RenderChanged PROVE HInv'
  <1>1. CASE InvokeUpdate
    <2>1. /\ stack # <<>> /\ Top.op = "event" /\ UNCHANGED <<online, active, doors, closed, joined>>
          /\ HookCalled(Top.s, Top.d, "update", MaxTransitions, "updated", TRUE) \/ IsOver
      BY <1>1, InvokeUpdateShape DEF HInv, ReturnsError, Idles
    <2>2. Pairing
      BY <2>1, HookPairs, PairingOf
    <2> QED BY <2>1, <2>2, StillHooks DEF Resumes
  <1>2. CASE Updated
    <2>1. /\ stack # <<>> /\ Top.op = "event" /\ UNCHANGED <<online, active, doors, closed, joined>>
          /\ IsOver \/ \E f, at : GoesOnAs(f) /\ IsTopAt(f, at)
      BY <1>2, UpdatedShape DEF HInv, ReturnsError, Returns
    <2>2. ASSUME NEW f, NEW at, GoesOnAs(f), IsTopAt(f, at) PROVE Pairing
      <3>1. May(f)
        BY <2>1, <2>2, TopPlaced DEF May, IsTopAt, PlacedNext, Placed, Resumes, Mild
      <3> QED BY <2>1, <2>2, <3>1, PairingOf
    <2>3. Pairing
      BY <2>1, <2>2, PairingOf
    <2> QED BY <2>1, <2>3, StillHooks DEF Resumes
  <1>3. CASE RenderChanged
    <2>1. /\ stack # <<>> /\ Top.op = "event" /\ UNCHANGED <<online, active, doors, closed, joined>>
          /\ \/ IsOver
             \/ Walks("settings")
             \/ TurnsInto("render", "view", Top.s, Top.d, MaxTransitions)
      BY <1>3, RenderChangedShape DEF HInv, ReturnsError, Idles
    <2>2. ~Mild(Top)
      BY <2>1 DEF Mild
    <2>3. Pairing
      BY <2>1, <2>2, WalksPairs, TurnsPairs, PairingOf
    <2> QED BY <2>1, <2>3, StillHooks DEF Resumes
  <1> QED BY <1>1, <1>2, <1>3

LEMMA EffectsHooks ==
    ASSUME HInv, DInv', ApplyEffects \/ RenderPeers PROVE HInv'
  <1>1. CASE ApplyEffects
    <2>1. /\ stack # <<>> /\ Top.op = "effects" /\ UNCHANGED <<online, active, closed>>
          /\ "reload" \notin Top.answer.asks => doors' = doors
          /\ joined' = [t \in Sessions |-> joined[t] \cap doors']
          /\ \/ IsOver
             \/ /\ "move" \in Top.answer.asks
                /\ TurnsInto("open", "check", Top.s, Top.answer.to, Top.b - 1)
             \/ \E f : GoesOnAs(f) /\ IsTopAt(f, "profile") /\ f.answer = Top.answer
      BY <1>1, ApplyEffectsShape DEF HInv, ReturnsError
    <2>2. ASSUME NEW f, GoesOnAs(f), IsTopAt(f, "profile"), f.answer = Top.answer PROVE Pairing
      <3>1. May(f)
        BY <2>1, <2>2, TopPlaced DEF May, IsTopAt, PlacedNext, Placed, Resumes, Mild
      <3> QED BY <2>1, <2>2, <3>1, PairingOf
    <2>3. Mild(Top) => doors' = doors
      BY <2>1 DEF Mild
    <2>4. \A x \in Sessions : joined'[x] \subseteq doors' /\ joined'[x] \subseteq joined[x]
      BY <2>1
    <2>5. Pairing
      BY <2>1, <2>2, PairingOf, TurnsPairs DEF Mild
    <2> QED BY <2>1, <2>3, <2>4, <2>5, QuietHooks DEF Resumes
  <1>2. CASE RenderPeers
    <2>1. /\ stack # <<>> /\ Top.op = "effects" /\ UNCHANGED <<online, active, doors, closed, joined>>
          /\ \/ IsOver
             \/ Walks(Top.at)
             \/ \E f : GoesOnAs(f) /\ IsTopAt(f, "room") /\ f.answer = Top.answer
      BY <1>2, RenderPeersShape DEF HInv, ReturnsError, Returns, Idles
    <2>2. ASSUME NEW f, GoesOnAs(f), IsTopAt(f, "room"), f.answer = Top.answer PROVE Pairing
      <3>1. May(f)
        BY <2>1, <2>2, TopPlaced DEF May, IsTopAt, PlacedNext, Placed, Resumes, Mild
      <3> QED BY <2>1, <2>2, <3>1, PairingOf
    <2>3. Pairing
      BY <2>1, <2>2, WalksPairs, PairingOf
    <2> QED BY <2>1, <2>3, StillHooks DEF Resumes
  <1> QED BY <1>1, <1>2

\* What is known of the doors a session has joined when its call is the
\* innermost one.
LEMMA TopJoined ==
    ASSUME HInv, stack # <<>>, ~Mild(Top)
    PROVE  /\ \A x \in Sessions :
                joined[x] \subseteq {active[x]} \/ (x = Top.s /\ Resumes(Top) /\ joined[x] \subseteq {Top.d})
           /\ \A x \in Sessions : joined[x] \subseteq doors
  <1>1. Len(stack) \in Nat \ {0} /\ DOMAIN stack = 1..Len(stack) /\ stack[Len(stack)] = Top
    BY Innermost DEF HInv, DInv, TypeOK
  <1>2. ASSUME NEW x \in Sessions, Resuming(x)
        PROVE  x = Top.s /\ Resumes(Top) /\ joined[x] \subseteq {Top.d}
    <2>1. PICK i \in DOMAIN stack :
            stack[i].s = x /\ Resumes(stack[i]) /\ joined[x] \subseteq {stack[i].d}
      BY <1>2 DEF Resuming
    <2>2. i \notin 1..(Len(stack) - 1)
      BY <2>1, BelowTop DEF HookPair, Waits, Holds, Resumes
    <2> QED BY <1>1, <2>1, <2>2
  <1> QED BY <1>2 DEF HInv

LEMMA CheckOpenHooks ==
    ASSUME HInv, DInv', CheckOpen PROVE HInv'
  <1>1. /\ stack # <<>> /\ Top.op = "open" /\ Top.at = "check"
        /\ UNCHANGED <<online, active, doors, closed, joined>>
        /\ Top.s \in Sessions /\ Top.d \in Doors
    BY CheckOpenShape, TopOf DEF HInv
  <1>2. /\ ~Mild(Top) /\ Placed(Top)
        /\ \A x \in Sessions : joined[x] \subseteq doors
    BY <1>1, TopPlaced, TopJoined DEF Mild
  <1>3. \A x \in Sessions :
           joined[x] \subseteq {active[x]} \/ (x = Top.s /\ Resumes(Top) /\ joined[x] \subseteq {Top.d})
    BY <1>1, <1>2, TopJoined
  <1>4. CASE ReturnsError /\ (Top.d \in doors /\ Top.d \notin closed => Top.how = "plain")
    <2>1. ~Resumes(Top)
      BY <1>2, <1>4 DEF Placed, Resumes
    <2>2. Pairing
      BY <1>1, <1>4, PairingOf DEF ReturnsError
    <2> QED BY <1>1, <2>1, <2>2, StillHooks
  <1>5. ASSUME NEW at \in {"leave", "enter"}, Proceeds(at), Top.d \in doors, Top.d \notin closed,
               at = "enter" => active[Top.s] \in {None, Top.d} \/ active[Top.s] \notin doors
        PROVE  HInv'
    <2>1. PICK f : GoesOnAs(f) /\ IsTopAt(f, at)
      BY <1>5 DEF Proceeds
    <2>2. f.op = "open" /\ f.at = at /\ f.s = Top.s /\ f.d = Top.d /\ f.how = Top.how
      BY <1>1, <2>1 DEF IsTopAt
    <2>3. at = "enter" => joined[Top.s] \subseteq {Top.d}
      <3>1. None \notin doors
        BY DoorAssumption DEF HInv, DInv, TypeOK
      <3>2. joined[Top.s] \subseteq {active[Top.s]} \/ joined[Top.s] \subseteq {Top.d}
        BY <1>1, <1>3
      <3>3. joined[Top.s] \subseteq doors
        BY <1>1, <1>2
      <3> QED BY <1>5, <3>1, <3>2, <3>3
    <2>4. May(f)
      BY <1>1, <1>2, <1>5, <2>2, <2>3 DEF May, PlacedNext, Placed, Resumes
    <2>5. Pairing
      BY <1>1, <2>1, <2>4, PairingOf
    <2>6. Len(stack) \in DOMAIN stack' /\ stack'[Len(stack)] = f
      BY <1>1, <2>1, Innermost DEF GoesOnAs, HInv, DInv, TypeOK
    <2>7. \A x \in Sessions : StaysIn(x)
      <3> SUFFICES ASSUME NEW x \in Sessions PROVE StaysIn(x)
        OBVIOUS
      <3>1. CASE joined[x] \subseteq {active[x]}
        BY <1>1, <3>1 DEF StaysIn
      <3>2. CASE x = Top.s /\ Resumes(Top) /\ joined[x] \subseteq {Top.d}
        <4>1. Resumes(f)
          BY <1>1, <1>5, <2>2, <3>2 DEF Resumes
        <4>2. ResumingNext(x)
          BY <1>1, <2>2, <2>6, <3>2, <4>1 DEF ResumingNext
        <4> QED BY <4>2 DEF StaysIn
      <3> QED BY <1>3, <3>1, <3>2
    <2>8. \A x \in Sessions : StaysOut(x)
      BY <1>1 DEF StaysOut
    <2> QED BY <1>1, <1>2, <2>5, <2>7, <2>8, HooksKeep
  <1> QED BY <1>4, <1>5, CheckOpenShape DEF HInv

LEMMA LeaveOldHooks ==
    ASSUME LeavingOnlyLeaves, HInv, DInv', LeaveOld PROVE HInv'
  <1>1. /\ stack # <<>> /\ Top.op = "open" /\ Top.at = "leave"
        /\ UNCHANGED <<online, active, doors, closed>>
        /\ joined' = [joined EXCEPT ![Top.s] = @ \ {active[Top.s]}]
        /\ Top.s \in Sessions /\ Top.d \in Doors
    BY LeaveOldShape, TopOf DEF HInv
  <1>2. ~Mild(Top) /\ Placed(Top)
    BY <1>1, TopPlaced DEF Mild
  <1>3. /\ \A x \in Sessions :
              joined[x] \subseteq {active[x]} \/ (x = Top.s /\ Resumes(Top) /\ joined[x] \subseteq {Top.d})
        /\ \A x \in Sessions : joined[x] \subseteq doors
    BY <1>1, <1>2, TopJoined
  <1>4. /\ joined'[Top.s] = joined[Top.s] \ {active[Top.s]}
        /\ \A x \in Sessions : joined'[x] \subseteq joined[x]
    BY <1>1 DEF HInv, DInv, TypeOK
  <1>5. /\ joined'[Top.s] \subseteq {Top.d} /\ Top.d \in doors'
        /\ joined'[Top.s] = {} \/ Resumes(Top)
        /\ Top.how = "resume" => Top.d \notin closed
    BY <1>1, <1>2, <1>3, <1>4 DEF Placed, Resumes
  <1>6. /\ Pairing
        /\ \E f : /\ Len(stack) \in DOMAIN stack' /\ stack'[Len(stack)] = f
                  /\ IsTopAt(f, "enter")
    <2>1. CASE HookCalled(Top.s, active[Top.s], "on_leave", Top.b, "enter", TRUE)
      <3>1. Pairing
        BY <1>1, <1>5, <2>1, HookPairs
      <3>2. PICK f, g : CallsFrom(f, g) /\ IsTopAt(f, "enter")
        BY <2>1 DEF HookCalled
      <3>3. Len(stack) \in DOMAIN stack' /\ stack'[Len(stack)] = f
        BY <1>1, <3>2, Innermost DEF CallsFrom, HInv, DInv, TypeOK
      <3> QED BY <3>1, <3>2, <3>3
    <2>2. CASE Proceeds("enter")
      <3>1. PICK f : GoesOnAs(f) /\ IsTopAt(f, "enter")
        BY <2>2 DEF Proceeds
      <3>2. May(f)
        BY <1>1, <1>2, <1>5, <3>1 DEF May, PlacedNext, Placed, Resumes, IsTopAt
      <3>3. Pairing
        BY <1>1, <3>1, <3>2, PairingOf
      <3>4. Len(stack) \in DOMAIN stack' /\ stack'[Len(stack)] = f
        BY <1>1, <3>1, Innermost DEF GoesOnAs, HInv, DInv, TypeOK
      <3> QED BY <3>1, <3>3, <3>4
    <2> QED BY <2>1, <2>2, LeaveOldShape DEF HInv
  <1>7. PICK f : /\ Len(stack) \in DOMAIN stack' /\ stack'[Len(stack)] = f
                 /\ IsTopAt(f, "enter")
    BY <1>6
  <1>8. f.op = "open" /\ f.at = "enter" /\ f.s = Top.s /\ f.d = Top.d /\ f.how = Top.how
    BY <1>1, <1>7 DEF IsTopAt
  <1>9. \A x \in Sessions : StaysIn(x)
    <2> SUFFICES ASSUME NEW x \in Sessions PROVE StaysIn(x)
      OBVIOUS
    <2>1. CASE x # Top.s
      BY <1>1, <1>4, <2>1 DEF StaysIn
    <2>2. CASE x = Top.s /\ joined'[Top.s] = {}
      BY <2>2 DEF StaysIn
    <2>3. CASE x = Top.s /\ Resumes(Top)
      <3>1. Resumes(f)
        BY <1>8, <2>3 DEF Resumes
      <3>2. ResumingNext(x)
        BY <1>5, <1>7, <1>8, <2>3, <3>1 DEF ResumingNext
      <3> QED BY <3>2 DEF StaysIn
    <2> QED BY <1>5, <2>1, <2>2, <2>3
  <1>10. \A x \in Sessions : StaysOut(x)
    BY <1>1, <1>4 DEF StaysOut
  <1> QED BY <1>1, <1>2, <1>3, <1>4, <1>6, <1>9, <1>10, HooksKeep

LEMMA EnterDoorHooks ==
    ASSUME LeavingOnlyLeaves, HInv, DInv', EnterDoor PROVE HInv'
  <1>1. /\ stack # <<>> /\ Top.op = "open" /\ Top.at = "enter"
        /\ UNCHANGED <<online, doors, closed>>
        /\ active' = [active EXCEPT ![Top.s] = Top.d]
        /\ joined' = [joined EXCEPT ![Top.s] = @ \cup {Top.d}]
        /\ Top.s \in Sessions /\ Top.d \in Doors
        /\ \/ TurnsInto("render", "view", Top.s, Top.d, Top.b)
           \/ HookCalled(Top.s, Top.d, "on_join", Top.b, "joined", TRUE)
           \/ IsOver
    BY EnterDoorShape, TopOf DEF HInv, ReturnsError
  <1>2. ~Mild(Top) /\ Placed(Top)
    BY <1>1, TopPlaced DEF Mild
  <1>3. /\ \A x \in Sessions :
              joined[x] \subseteq {active[x]} \/ (x = Top.s /\ Resumes(Top) /\ joined[x] \subseteq {Top.d})
        /\ \A x \in Sessions : joined[x] \subseteq doors
    BY <1>1, <1>2, TopJoined
  <1>4. /\ joined'[Top.s] = joined[Top.s] \cup {Top.d} /\ active'[Top.s] = Top.d
        /\ \A x \in Sessions \ {Top.s} : joined'[x] = joined[x] /\ active'[x] = active[x]
    BY <1>1 DEF HInv, DInv, TypeOK
  <1>5. Top.s \in online /\ Top.d \in doors /\ joined[Top.s] \subseteq {Top.d}
    BY <1>1, <1>2 DEF Placed
  <1>6. \A x \in Sessions : joined'[x] \subseteq doors' /\ StaysIn(x) /\ StaysOut(x)
    BY <1>1, <1>3, <1>4, <1>5 DEF StaysIn, StaysOut
  <1>7. Pairing
    BY <1>1, <1>2, HookPairs, TurnsPairs, PairingOf
  <1> QED BY <1>1, <1>2, <1>6, <1>7, HooksKeep

LEMMA JoinedHooks ==
    ASSUME HInv, DInv', Joined PROVE HInv'
  <1>1. /\ stack # <<>> /\ Top.op = "open" /\ Top.at = "joined"
        /\ UNCHANGED <<online, active, doors, closed, joined>>
        /\ IsOver \/ TurnsInto("render", "view", Top.s, Top.d, Top.b)
    BY JoinedShape DEF HInv, ReturnsError, Returns, Idles
  <1>2. Pairing
    BY <1>1, TurnsPairs, PairingOf DEF Mild
  <1> QED BY <1>1, <1>2, StillHooks DEF Resumes

LEMMA ConnectsHooks ==
    ASSUME HInv, DInv', OpenInitial \/ InitialOpened PROVE HInv'
  <1>1. CASE OpenInitial
    <2>1. /\ stack # <<>> /\ Top.op = "connect" /\ Top.at = "opening"
          /\ UNCHANGED <<online, active, doors, closed, joined>> /\ Top.s \in Sessions
      BY <1>1, OpenInitialShape, TopOf DEF HInv, Idles
    <2>2. PICK f, g : /\ CallsFrom(f, g) /\ IsTopAt(f, "opened")
                      /\ IsCall(g, "open", "check", Top.s, Top.d, MaxTransitions)
                      /\ g.how = Top.how
      BY <1>1, OpenInitialShape DEF HInv
    <2>3. /\ f.op = "connect" /\ f.at = "opened" /\ f.s = Top.s /\ f.d = Top.d
          /\ g.op = "open" /\ g.at = "check" /\ g.s = Top.s /\ g.d = Top.d /\ g.how = Top.how
      BY <2>1, <2>2 DEF IsTopAt, IsCall
    <2>4. ~Mild(Top) /\ Placed(Top)
      BY <2>1, TopPlaced DEF Mild
    <2>5. May(f) /\ May(g)
      BY <2>1, <2>3, <2>4 DEF May, PlacedNext, Placed, Resumes
    <2>6. HookPair(f, g)
      BY <2>3 DEF HookPair, Waits, Holds
    <2>7. Pairing
      BY <2>1, <2>2, <2>5, <2>6, PairingOf
    <2>8. Len(stack) + 1 \in DOMAIN stack' /\ stack'[Len(stack) + 1] = g
      BY <2>1, <2>2, Innermost DEF CallsFrom, HInv, DInv, TypeOK
    <2>9. \A x \in Sessions : StaysIn(x)
      <3> SUFFICES ASSUME NEW x \in Sessions PROVE StaysIn(x)
        OBVIOUS
      <3>1. CASE joined[x] \subseteq {active[x]}
        BY <2>1, <3>1 DEF StaysIn
      <3>2. CASE x = Top.s /\ Resumes(Top) /\ joined[x] \subseteq {Top.d}
        <4>1. Resumes(g)
          BY <2>3, <3>2 DEF Resumes
        <4>2. ResumingNext(x)
          BY <2>1, <2>3, <2>8, <3>2, <4>1 DEF ResumingNext
        <4> QED BY <4>2 DEF StaysIn
      <3> QED BY <2>1, <2>4, <3>1, <3>2, TopJoined
    <2> QED BY <2>1, <2>4, <2>7, <2>9, TopJoined, HooksKeep DEF StaysOut
  <1>2. CASE InitialOpened
    <2>1. /\ stack # <<>> /\ Top.op = "connect" /\ Top.at = "opened"
          /\ UNCHANGED <<online, active, doors, closed, joined>> /\ IsOver
      BY <1>2, InitialOpenedShape DEF HInv, Returns
    <2> QED BY <2>1, PairingOf, StillHooks DEF Resumes
  <1> QED BY <1>1, <1>2

LEMMA LeavesHooks ==
    ASSUME LeavingOnlyLeaves, HInv, DInv', LeaveLast \/ LeftLast PROVE HInv'
  <1>1. CASE LeaveLast
    <2>1. /\ stack # <<>> /\ Top.op = "leave" /\ Top.at = "leave"
          /\ UNCHANGED <<online, active, doors, closed>>
          /\ joined' = [joined EXCEPT ![Top.s] = @ \ {Top.d}]
          /\ Top.s \in Sessions
          /\ \/ HookCalled(Top.s, Top.d, "on_leave", MaxTransitions, "left", TRUE)
             \/ Proceeds("left")
      BY <1>1, LeaveLastShape, TopOf DEF HInv
    <2>2. ~Mild(Top) /\ Placed(Top) /\ ~Resumes(Top)
      BY <2>1, TopPlaced DEF Mild, Resumes
    <2>3. \A x \in Sessions : joined[x] \subseteq {active[x]} /\ joined[x] \subseteq doors
      BY <2>1, <2>2, TopJoined
    <2>4. /\ joined'[Top.s] = joined[Top.s] \ {Top.d}
          /\ \A x \in Sessions : joined'[x] \subseteq joined[x]
      BY <2>1 DEF HInv, DInv, TypeOK
    <2>5. joined'[Top.s] = {}
      BY <2>1, <2>2, <2>3, <2>4 DEF Placed
    <2>6. ASSUME NEW f, GoesOnAs(f), IsTopAt(f, "left") PROVE Pairing
      <3>1. May(f)
        BY <2>1, <2>2, <2>6 DEF May, PlacedNext, Placed, Resumes, IsTopAt
      <3> QED BY <2>1, <2>6, <3>1, PairingOf
    <2>7. Pairing
      BY <2>1, <2>6, HookPairs DEF Proceeds
    <2>8. \A x \in Sessions : joined'[x] \subseteq doors' /\ StaysIn(x) /\ StaysOut(x)
      BY <2>1, <2>2, <2>3, <2>4, <2>5 DEF StaysIn, StaysOut
    <2> QED BY <2>1, <2>2, <2>7, <2>8, HooksKeep
  <1>2. CASE LeftLast
    <2>1. /\ stack # <<>> /\ Top.op = "leave" /\ Top.at = "left" /\ IsOver
          /\ active' = [active EXCEPT ![Top.s] = None]
          /\ UNCHANGED <<online, doors, closed, joined>> /\ Top.s \in Sessions
      BY <1>2, LeftLastShape, TopOf DEF HInv
    <2>2. ~Mild(Top) /\ Placed(Top) /\ ~Resumes(Top)
      BY <2>1, TopPlaced DEF Mild, Resumes
    <2>3. joined[Top.s] = {}
      <3>1. ASSUME LeavingLast(Top.s) PROVE FALSE
        <4>1. PICK i \in DOMAIN stack : stack[i].op = "leave" /\ stack[i].at = "leave"
          BY <3>1 DEF LeavingLast
        <4>2. i \in 1..(Len(stack) - 1)
          BY <2>1, <4>1, Innermost DEF HInv, DInv, TypeOK
        <4> QED BY <2>1, <4>1, <4>2, BelowTop DEF HookPair, Waits
      <3> QED BY <2>1, <2>2, <3>1 DEF HInv, Placed
    <2>4. \A x \in Sessions : joined[x] \subseteq doors /\ StaysIn(x) /\ StaysOut(x)
      BY <2>1, <2>2, <2>3, TopJoined DEF StaysIn, StaysOut, HInv, DInv, TypeOK
    <2>5. Pairing
      BY <2>1, PairingOf
    <2> QED BY <2>1, <2>2, <2>4, <2>5, HooksKeep
  <1> QED BY <1>1, <1>2

LEMMA MessageHooks ==
    ASSUME HInv, DInv', Message PROVE HInv'
  <1>1. stack = <<>>
    BY DEF Message, Connect, Event, Leave, OpenDoor, Start
  <1>2. DOMAIN stack = {} /\ \A x \in Sessions : ~Resuming(x) /\ ~LeavingLast(x)
    BY <1>1 DEF Resuming, LeavingLast
  <1>3. /\ \A x \in Sessions : joined[x] \subseteq {active[x]} /\ joined[x] \subseteq doors
        /\ \A x \in Sessions : x \in online \/ joined[x] = {}
        /\ joined \in [Sessions -> SUBSET Doors]
    BY <1>2 DEF HInv, DInv, TypeOK
  <1>4. ASSUME NEW f, stack' = <<f>>, PlacedNext(f), UNCHANGED <<online, active, doors, closed, joined>>
        PROVE  HInv'
    <2>1. DOMAIN stack' = {1} /\ stack'[1] = f
      BY <1>4
    <2>2. \A i \in DOMAIN stack' : PlacedNext(stack'[i])
      BY <1>4, <2>1
    <2>3. \A i, j \in DOMAIN stack' : ~(i < j)
      BY <2>1
    <2> QED BY <1>3, <1>4, <2>2, <2>3 DEF HInv, PlacedNext, Placed, Resumes
  <1>5. ASSUME NEW s \in Sessions, Connect(s) PROVE HInv'
    <2>1. PICK d \in doors, how \in {"initial", "resume"} :
            /\ how = "resume" => d \notin closed
            /\ Start([Call("connect", "opening", s, d, 0) EXCEPT !.how = how])
            /\ joined' = [joined EXCEPT ![s] = IF how = "resume" THEN {d} ELSE {}]
      BY <1>5 DEF Connect, CanAccess
    <2> DEFINE f == [Call("connect", "opening", s, d, 0) EXCEPT !.how = how]
    <2>2. f.op = "connect" /\ f.at = "opening" /\ f.s = s /\ f.d = d /\ f.how = how
      BY DEF Call
    <2>3. stack' = <<f>> /\ online' = online \cup {s} /\ UNCHANGED <<active, doors, closed>>
      BY <1>5, <2>1 DEF Connect, Start
    <2> HIDE DEF f
    <2>4. DOMAIN stack' = {1} /\ stack'[1] = f
      BY <2>3
    <2>5. /\ joined'[s] = IF how = "resume" THEN {d} ELSE {}
          /\ \A x \in Sessions \ {s} : joined'[x] = joined[x]
      BY <1>3, <2>1
    <2>6. \A i \in DOMAIN stack' :
             /\ stack'[i].op = "connect" /\ stack'[i].s \in online'
             /\ Resumes(stack'[i]) => stack'[i].d \in doors' /\ stack'[i].d \notin closed'
      BY <2>1, <2>2, <2>3, <2>4 DEF Resumes
    <2>7. \A i \in DOMAIN stack : Placed(stack[i])
      BY <1>2
    <2>8. (\A i \in DOMAIN stack : Placed(stack[i]))'
      BY <2>6 DEF Placed, Resumes
    <2>9. \A i, j \in DOMAIN stack' : ~(i < j)
      BY <2>4
    <2>10. \A x \in Sessions : joined'[x] \subseteq {active'[x]} \/ ResumingNext(x)
      <3>1. how = "resume" => ResumingNext(s)
        BY <2>2, <2>4, <2>5 DEF ResumingNext, Resumes
      <3>2. how # "resume" => joined'[s] \subseteq {active'[s]}
        BY <2>5
      <3> QED BY <1>3, <2>3, <2>5, <3>1, <3>2
    <2>11. \A x \in Sessions : joined'[x] \subseteq {active'[x]} \/ Resuming(x)'
      BY <2>10 DEF ResumingNext, Resuming, Resumes
    <2>12. \A x \in Sessions : joined'[x] \subseteq doors' /\ (x \in online' \/ joined'[x] = {})
      BY <1>3, <2>1, <2>3, <2>5
    <2> QED BY <2>8, <2>9, <2>11, <2>12 DEF HInv
  <1>6. ASSUME NEW s \in Sessions, Event(s) PROVE HInv'
    <2> DEFINE f == Call("event", "update", s, active[s], MaxTransitions)
    <2>1. f.op = "event" /\ f.s = s /\ f.how = "plain"
      BY DEF Call
    <2>2. PlacedNext(f)
      BY <1>6, <2>1 DEF PlacedNext, Resumes, Event
    <2>3. stack' = <<f>> /\ UNCHANGED <<online, active, doors, closed, joined>>
      BY <1>6 DEF Event, Start
    <2> HIDE DEF f
    <2> QED BY <1>4, <2>2, <2>3
  <1>7. ASSUME NEW s \in Sessions, NEW d \in Doors, OpenDoor(s, d) PROVE HInv'
    <2> DEFINE f == Call("open", "check", s, d, MaxTransitions)
    <2>1. f.op = "open" /\ f.at = "check" /\ f.s = s /\ f.how = "plain"
      BY DEF Call
    <2>2. PlacedNext(f)
      BY <1>7, <2>1 DEF PlacedNext, Resumes, OpenDoor
    <2>3. stack' = <<f>> /\ UNCHANGED <<online, active, doors, closed, joined>>
      BY <1>7 DEF OpenDoor, Start
    <2> HIDE DEF f
    <2> QED BY <1>4, <2>2, <2>3
  <1>8. ASSUME NEW s \in Sessions, Leave(s) PROVE HInv'
    <2> DEFINE found == active[s] \in doors
               f == Call("leave", IF found THEN "leave" ELSE "left", s,
                         IF found THEN active[s] ELSE Lobby, MaxTransitions)
    <2>1. /\ f.op = "leave" /\ f.s = s /\ (found => f.at = "leave" /\ f.d = active[s])
      BY DEF Call
    <2>2. /\ stack' = <<f>> /\ online' = online \ {s}
          /\ UNCHANGED <<active, doors, closed, joined>>
      BY <1>8 DEF Leave, Start
    <2>3. found \/ f.at = "left"
      BY DEF Call
    <2>4. found \/ joined[s] = {}
      BY <1>3
    <2> HIDE DEF f, found
    <2>5. DOMAIN stack' = {1} /\ stack'[1] = f
      BY <2>2
    <2>6. (\A i \in DOMAIN stack : Placed(stack[i]))'
      <3>1. \A i \in DOMAIN stack' :
               /\ stack'[i].op = "leave" /\ stack'[i].s \notin online'
               /\ stack'[i].at = "leave" => stack'[i].d = active'[stack'[i].s]
        BY <2>1, <2>2, <2>3, <2>5
      <3> QED BY <3>1 DEF Placed, Resumes
    <2>7. \A i, j \in DOMAIN stack' : ~(i < j)
      BY <2>5
    <2>8. \A x \in Sessions : x \in online' \/ joined'[x] = {} \/ LeavingLast(x)'
      BY <1>3, <2>1, <2>2, <2>4, <2>5 DEF LeavingLast
    <2> QED BY <1>3, <2>2, <2>6, <2>7, <2>8 DEF HInv
  <1> QED BY <1>5, <1>6, <1>7, <1>8 DEF Message

LEMMA NextHooks ==
    ASSUME LeavingOnlyLeaves, "policy" \notin Faults, HInv, [Next]_vars PROVE HInv'
  <1>1. DInv'
    BY NextKeeps DEF HInv
  <1>2. CASE Step
    BY <1>1, <1>2, CheckOpenHooks, LeaveOldHooks, EnterDoorHooks, JoinedHooks, RenderHooks,
       EffectsHooks, EventHooks, ConnectsHooks, LeavesHooks DEF Step
  <1>3. CASE Message
    BY <1>1, <1>3, MessageHooks
  <1>4. CASE Environment \/ UNCHANGED vars
    <2>1. /\ UNCHANGED <<stack, online, active, doors, joined>>
          /\ stack # <<>> => UNCHANGED closed
      BY <1>4 DEF Environment, OpenExpires, SetDoorEnabled, vars
    <2>2. CASE stack = <<>>
      <3>1. DOMAIN stack = {} /\ DOMAIN stack' = {}
        BY <2>1, <2>2
      <3>2. \A x \in Sessions : ~Resuming(x) /\ ~LeavingLast(x)
        BY <3>1 DEF Resuming, LeavingLast
      <3> QED BY <1>1, <2>1, <3>1, <3>2 DEF HInv
    <2>3. CASE stack # <<>>
      BY <1>1, <2>1, <2>3 DEF HInv, HookPair, Waits, Holds, Mild, Placed, Resumes, Resuming,
                              LeavingLast
    <2> QED BY <2>2, <2>3
  <1> QED BY <1>2, <1>3, <1>4 DEF Next

\* If no view and no on_leave leads to another door or reloads the doors, and no
\* door is disabled while a handler runs, then who moves on, drops or is taken
\* over is announced as leaving by every door it joined, whatever the hooks ask
\* for otherwise and whichever of them fail (OpenDoor, LeaveActiveDoor).
THEOREM JoinsAndLeavesPair ==
    ASSUME LeavingOnlyLeaves, "policy" \notin Faults
    PROVE  Spec => []HooksPaired
  <1>1. Init => HInv
    <2> SUFFICES ASSUME Init PROVE HInv
      OBVIOUS
    <2>1. DInv /\ DOMAIN stack = {}
      BY InitHolds DEF Init
    <2> QED BY <2>1 DEF Init, HInv
  <1>2. HInv /\ [Next]_vars => HInv'
    BY NextHooks
  <1>3. HInv => HooksPaired
    <2> SUFFICES ASSUME HInv, Idle, NEW s \in Sessions
                 PROVE  joined[s] \subseteq IF s \in online THEN {active[s]} ELSE {}
      BY DEF HooksPaired
    <2>1. ~Resuming(s) /\ ~LeavingLast(s)
      BY DEF Idle, Resuming, LeavingLast
    <2> QED BY <2>1 DEF HInv
  <1> QED BY <1>1, <1>2, <1>3, PTL DEF Spec
=============================================================================
