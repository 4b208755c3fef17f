------------------------ MODULE TerminalClientProofs ------------------------
(***************************************************************************)
(* Proofs about TerminalClient, for any doors, views, names and bounds.    *)
(*                                                                         *)
(* ScreenCatchesUp and EventNamesItsView rest on WireInv: what is shown,   *)
(* and every render on its way, is a view the node sent, at its revision,  *)
(* and the node's last view is shown or the last render on its way.  The   *)
(* two messages that newConnectCommand reads first are safe because the    *)
(* node sends a door list before any view.  That what has the focus is a   *)
(* component of its view is a fact about Focusables (ViewOffers): the      *)
(* parts that FlattenSeq joins are sequences, by the least counterexample, *)
(* and each is made of one node.                                           *)
(***************************************************************************)
EXTENDS TerminalClient, TLAPS, FiniteSetTheorems, SequenceTheorems, WellFoundedInduction

-----------------------------------------------------------------------------
(* Drafts *)

DraftInv == DraftsKept /\ owed \in [Names -> Nat]

LEMMA DraftUntouched == DraftInv /\ UNCHANGED draftVars => DraftInv'
  BY DEF DraftInv, DraftsKept, Draft, draftVars

LEMMA TypingKeeps == DraftInv /\ Type => DraftInv'
  <1> SUFFICES ASSUME DraftInv, Type PROVE DraftInv'
    OBVIOUS
  <1> DEFINE id == Control.id
  <1>1. /\ drafts' = WithDraft(id, Draft(id) + 1)
        /\ owed' = [owed EXCEPT ![id] = @ + 1]
    BY DEF Type
  <1>2. DOMAIN drafts' = {id} \cup DOMAIN drafts
    BY <1>1 DEF WithDraft
  <1>3. drafts'[id] = Draft(id) + 1
    BY <1>1 DEF WithDraft
  <1>4. \A n \in DOMAIN drafts \ {id} : drafts'[n] = drafts[n]
    BY <1>1 DEF WithDraft
  <1> HIDE DEF id
  <1>5. ASSUME NEW n \in Names PROVE Draft(n)' = owed'[n] /\ owed'[n] \in Nat
    <2>1. Draft(n) = owed[n] /\ owed[n] \in Nat
      BY DEF DraftInv, DraftsKept
    <2>2. CASE n = id
      BY <1>1, <1>2, <1>3, <2>1, <2>2 DEF Draft, DraftInv
    <2>3. CASE n # id
      BY <1>1, <1>2, <1>4, <2>1, <2>3 DEF Draft, DraftInv
    <2> QED BY <2>2, <2>3
  <1> QED BY <1>1, <1>5 DEF DraftInv, DraftsKept

LEMMA ErasingKeeps == DraftInv /\ Erase => DraftInv'
  <1> SUFFICES ASSUME DraftInv, Erase PROVE DraftInv'
    OBVIOUS
  <1> DEFINE id == Control.id
  <1>1. /\ Draft(id) > 0
        /\ drafts' = WithDraft(id, Draft(id) - 1)
        /\ owed' = [owed EXCEPT ![id] = @ - 1]
    BY DEF Erase
  <1>2. DOMAIN drafts' = {id} \cup DOMAIN drafts
    BY <1>1 DEF WithDraft
  <1>3. drafts'[id] = Draft(id) - 1
    BY <1>1 DEF WithDraft
  <1>4. \A n \in DOMAIN drafts \ {id} : drafts'[n] = drafts[n]
    BY <1>1 DEF WithDraft
  <1> HIDE DEF id
  <1>5. ASSUME NEW n \in Names PROVE Draft(n)' = owed'[n] /\ owed'[n] \in Nat
    <2>1. Draft(n) = owed[n] /\ owed[n] \in Nat
      BY DEF DraftInv, DraftsKept
    <2>2. CASE n = id
      BY <1>1, <1>2, <1>3, <2>1, <2>2 DEF Draft, DraftInv
    <2>3. CASE n # id
      BY <1>1, <1>2, <1>4, <2>1, <2>3 DEF Draft, DraftInv
    <2> QED BY <2>2, <2>3
  <1> QED BY <1>1, <1>5 DEF DraftInv, DraftsKept

\* The one event of a submit carries the whole draft, and only that one is dropped.
LEMMA SubmittingKeeps == DraftInv /\ Submit => DraftInv'
  <1> SUFFICES ASSUME DraftInv, Submit PROVE DraftInv'
    OBVIOUS
  <1> DEFINE id == Control.id
  <1>1. PICK e \in Events : owed' = [owed EXCEPT ![e.target] = @ - e.values[e.target]]
    BY DEF Submit
  <1>2. Control.kind = "input"
    BY DEF Submit, SubmitsOnEnter
  <1>3. Events = {Event("submit", id, NoName, [n \in {id} |-> Draft(n)])}
    BY <1>2 DEF Events, TextInputs, Buttons
  <1>4. e.target = id /\ e.values[e.target] = Draft(id)
    BY <1>1, <1>3 DEF Event
  <1>5. drafts' = [n \in DOMAIN drafts \ {id} |-> drafts[n]]
    BY DEF Submit, Without
  <1>6. owed' = [owed EXCEPT ![id] = @ - Draft(id)]
    BY <1>1, <1>4
  <1> HIDE DEF id
  <1>7. ASSUME NEW n \in Names PROVE Draft(n)' = owed'[n] /\ owed'[n] \in Nat
    <2>1. Draft(n) = owed[n] /\ owed[n] \in Nat
      BY DEF DraftInv, DraftsKept
    <2>2. CASE n = id
      BY <1>5, <1>6, <2>1, <2>2 DEF Draft, DraftInv
    <2>3. CASE n # id
      BY <1>5, <1>6, <2>1, <2>3 DEF Draft, DraftInv
    <2> QED BY <2>2, <2>3
  <1> QED BY <1>6, <1>7 DEF DraftInv, DraftsKept

LEMMA NextDrafts == DraftInv /\ [Next]_vars => DraftInv'
  <1> SUFFICES ASSUME DraftInv, [Next]_vars PROVE DraftInv'
    OBVIOUS
  <1>1. CASE Node \/ Messages \/ Written \/ Leave \/ UNCHANGED vars
    <2>1. UNCHANGED draftVars
      BY <1>1 DEF Node, Greet, Announce, FallBack, Draw, Refuse, Notice, Push, Messages, Open,
                  TakeRender, Show, TakeNotify, Overrun, TakeDoorList, TakeError, Quit, Written,
                  Leave, tuiVars, vars
    <2> QED BY <2>1, DraftUntouched
  <1>2. CASE Pressed
    <2>1. Type \/ Erase \/ Submit \/ UNCHANGED draftVars
      BY <1>2 DEF Pressed, Move, SwitchFocus, ToggleFull, Escape, Scroll, NextControl, Activate,
                  PressKey, OpenDoor
    <2> QED BY <2>1, TypingKeeps, ErasingKeeps, SubmittingKeeps, DraftUntouched
  <1> QED BY <1>1, <1>2 DEF Next

\* What was typed into an input is in its draft until it was erased or went out in
\* a submit event, whatever views, doors, lists and errors come between
\* (inputValues of tuiModel).
THEOREM NoDraftIsLost == Spec => []DraftsKept
  <1>1. Init => DraftInv
    BY DEF Init, DraftInv, DraftsKept, Draft
  <1>2. DraftInv /\ [Next]_vars => DraftInv'
    BY NextDrafts
  <1>3. DraftInv => DraftsKept
    BY DEF DraftInv
  <1> QED BY <1>1, <1>2, <1>3, PTL DEF Spec

-----------------------------------------------------------------------------
(* The views on their way *)

Mail ==
    [type : {"door_list"}, doors : DoorLists]
        \cup [type : {"render"}, rev : Nat, view : Sendable \cup {Fallback}]
        \cup [type : {"notify", "error"}]

IsRender(i) == inbox[i].type = "render"

\* A render on its way is a view the node has sent, and so is what is shown.
Genuine ==
    /\ inbox \in Seq(Mail)
    /\ views \in Seq(Sendable \cup {Fallback})
    /\ \A i \in DOMAIN inbox :
           IsRender(i) => inbox[i].rev \in DOMAIN views /\ inbox[i].view = views[inbox[i].rev]
    /\ rev \in 0..Len(views)
    /\ view = IF rev = 0 THEN Blank ELSE views[rev]

\* The node's first message to the client is no render.
Prefaced ==
    /\ stage = "greeting" => views = <<>>
    /\ phase = "reading" =>
        /\ rev = 0
        /\ inbox = <<>> => stage = "greeting"
        /\ inbox # <<>> => ~IsRender(1)

\* The node's last view is shown, or is the last of those on their way.
Coming ==
    \/ rev = Len(views) /\ \A i \in DOMAIN inbox : ~IsRender(i)
    \/ \E i \in DOMAIN inbox :
          /\ IsRender(i) /\ inbox[i].rev = Len(views)
          /\ \A j \in (i + 1)..Len(inbox) : ~IsRender(j)

WireInv == Genuine /\ Prefaced /\ (phase # "off" => Coming)

LEMMA WireUntouched ==
    ASSUME WireInv, UNCHANGED <<phase, nodeVars, inbox, screenVars>>
    PROVE  WireInv'
  BY DEF WireInv, Genuine, Prefaced, Coming, IsRender, nodeVars, screenVars

\* The first of what is left is the second of what there was, and so on.
LEMMA TailOf ==
    ASSUME inbox \in Seq(Mail), inbox # <<>>, inbox' = Tail(inbox)
    PROVE  /\ inbox' \in Seq(Mail)
           /\ Len(inbox) \in Nat /\ Len(inbox) > 0 /\ Len(inbox') = Len(inbox) - 1
           /\ DOMAIN inbox = 1..Len(inbox) /\ DOMAIN inbox' = 1..Len(inbox')
           /\ Head(inbox) = inbox[1] /\ Head(inbox) \in Mail
           /\ \A i \in DOMAIN inbox' : i + 1 \in DOMAIN inbox /\ inbox'[i] = inbox[i + 1]
           /\ \A i \in DOMAIN inbox \ {1} : i - 1 \in DOMAIN inbox' /\ inbox'[i - 1] = inbox[i]
  OBVIOUS

\* A message that is no view is taken.
LEMMA OtherTaken ==
    ASSUME WireInv, inbox # <<>>, inbox' = Tail(inbox), Head(inbox).type # "render",
           phase = "screen", UNCHANGED <<phase, nodeVars, screenVars>>
    PROVE  WireInv'
  <1>1. Genuine'
    BY TailOf DEF WireInv, Genuine, IsRender, nodeVars, screenVars
  <1>2. Prefaced'
    BY DEF WireInv, Prefaced, nodeVars
  <1>3. Coming'
    <2>1. CASE rev = Len(views) /\ \A i \in DOMAIN inbox : ~IsRender(i)
      BY <2>1, TailOf DEF WireInv, Genuine, Coming, IsRender, nodeVars, screenVars
    <2>2. ASSUME NEW i \in DOMAIN inbox, IsRender(i), inbox[i].rev = Len(views),
                 \A j \in (i + 1)..Len(inbox) : ~IsRender(j)
          PROVE  Coming'
      <3>1. i - 1 \in DOMAIN inbox' /\ inbox'[i - 1] = inbox[i]
        BY <2>2, TailOf DEF IsRender, WireInv, Genuine
      <3>2. \A j \in ((i - 1) + 1)..Len(inbox') : inbox'[j].type # "render"
        BY <2>2, TailOf DEF IsRender, WireInv, Genuine
      <3> QED BY <2>2, <3>1, <3>2 DEF Coming, IsRender, nodeVars
    <2> QED BY <2>1, <2>2 DEF WireInv, Coming
  <1> QED BY <1>1, <1>2, <1>3 DEF WireInv

\* A view is taken: it is shown, and a later one is still on its way or none is.
LEMMA RenderTaken == WireInv /\ TakeRender => WireInv'
  <1> SUFFICES ASSUME WireInv, TakeRender PROVE WireInv'
    OBVIOUS
  <1>1. /\ inbox # <<>> /\ inbox' = Tail(inbox) /\ IsRender(1) /\ phase = "screen"
        /\ UNCHANGED <<phase, nodeVars>>
        /\ view' = inbox[1].view /\ rev' = inbox[1].rev
    BY TailOf DEF TakeRender, Arrives, Show, WireInv, Genuine, IsRender
  <1>2. 1 \in DOMAIN inbox /\ rev' \in DOMAIN views /\ view' = views[rev']
    BY <1>1, TailOf DEF WireInv, Genuine
  <1>3. Genuine'
    <2>1. rev' \in 0..Len(views) /\ rev' # 0
      BY <1>2 DEF WireInv, Genuine
    <2> QED BY <1>1, <1>2, <2>1, TailOf DEF WireInv, Genuine, IsRender, nodeVars
  <1>4. Prefaced'
    BY <1>1 DEF WireInv, Prefaced, nodeVars
  <1>5. Coming'
    <2>1. PICK i \in DOMAIN inbox :
              /\ IsRender(i) /\ inbox[i].rev = Len(views)
              /\ \A j \in (i + 1)..Len(inbox) : ~IsRender(j)
      BY <1>1, <1>2 DEF WireInv, Coming
    <2>2. CASE i = 1
      <3>1. \A j \in DOMAIN inbox' : inbox'[j].type # "render"
        BY <1>1, <2>1, <2>2, TailOf DEF IsRender, WireInv, Genuine
      <3> QED BY <1>1, <2>1, <2>2, <3>1 DEF Coming, IsRender, nodeVars
    <2>3. CASE i # 1
      <3>1. i - 1 \in DOMAIN inbox' /\ inbox'[i - 1] = inbox[i]
        BY <1>1, <2>1, <2>3, TailOf DEF IsRender, WireInv, Genuine
      <3>2. \A j \in ((i - 1) + 1)..Len(inbox') : inbox'[j].type # "render"
        BY <1>1, <2>1, <2>3, TailOf DEF IsRender, WireInv, Genuine
      <3> QED BY <1>1, <2>1, <3>1, <3>2 DEF Coming, IsRender, nodeVars
    <2> QED BY <2>2, <2>3
  <1> QED BY <1>1, <1>3, <1>4, <1>5 DEF WireInv
\* A message that is no view is sent.
LEMMA OtherSent ==
    ASSUME WireInv, NEW m \in Mail, m.type # "render", Push(<<m>>), UNCHANGED views,
           stage' = "greeting" => stage = "greeting"
    PROVE  WireInv'
  <1>1. /\ inbox' = inbox \o <<m>> /\ inbox \in Seq(Mail)
        /\ phase # "off" /\ UNCHANGED <<phase, views, screenVars>>
    BY DEF Push, WireInv, Genuine, tuiVars
  <1>2. /\ inbox' \in Seq(Mail) /\ Len(inbox) \in Nat /\ Len(inbox') = Len(inbox) + 1
        /\ DOMAIN inbox = 1..Len(inbox) /\ DOMAIN inbox' = 1..(Len(inbox) + 1)
        /\ inbox'[Len(inbox) + 1] = m
        /\ \A i \in DOMAIN inbox : inbox'[i] = inbox[i]
    BY <1>1
  <1>3. Genuine'
    BY <1>1, <1>2 DEF WireInv, Genuine, IsRender, screenVars
  <1>4. Prefaced'
    BY <1>1, <1>2 DEF WireInv, Prefaced, IsRender, screenVars
  <1>5. Coming'
    <2>1. CASE rev = Len(views) /\ \A i \in DOMAIN inbox : ~IsRender(i)
      BY <1>1, <1>2, <2>1 DEF Coming, IsRender, screenVars
    <2>2. ASSUME NEW i \in DOMAIN inbox, IsRender(i), inbox[i].rev = Len(views),
                 \A j \in (i + 1)..Len(inbox) : ~IsRender(j)
          PROVE  Coming'
      <3>1. \A j \in (i + 1)..Len(inbox') : inbox'[j].type # "render"
        <4> SUFFICES ASSUME NEW j \in (i + 1)..Len(inbox') PROVE inbox'[j].type # "render"
          OBVIOUS
        <4>1. CASE j = Len(inbox) + 1
          BY <1>2, <4>1
        <4>2. CASE j # Len(inbox) + 1
          BY <1>2, <2>2, <4>2 DEF IsRender
        <4> QED BY <4>1, <4>2
      <3>2. i \in DOMAIN inbox' /\ inbox'[i] = inbox[i]
        BY <1>2
      <3> QED BY <1>1, <2>2, <3>1, <3>2 DEF Coming, IsRender
    <2> QED BY <1>1, <2>1, <2>2 DEF WireInv, Coming
  <1> QED BY <1>3, <1>4, <1>5 DEF WireInv

\* A view is sent, the last of the messages of its step.
LEMMA RenderSent ==
    ASSUME WireInv, NEW v \in Sendable \cup {Fallback}, NEW messages \in Seq(Mail), Push(messages),
           Len(messages) > 0, messages[Len(messages)] = RenderOf(v),
           \A k \in 1..(Len(messages) - 1) : messages[k].type # "render",
           views' = Append(views, v), stage # "greeting", stage' = "up"
    PROVE  WireInv'
  <1> DEFINE n == Len(inbox) + Len(messages)
  <1>1. /\ inbox' = inbox \o messages /\ inbox \in Seq(Mail)
        /\ phase # "off" /\ UNCHANGED <<phase, screenVars>>
    BY DEF Push, WireInv, Genuine, tuiVars
  <1>2. /\ inbox' \in Seq(Mail) /\ Len(inbox) \in Nat /\ Len(messages) \in Nat
        /\ Len(inbox') = n /\ DOMAIN inbox = 1..Len(inbox) /\ DOMAIN inbox' = 1..n
        /\ \A i \in 1..Len(messages) : inbox'[Len(inbox) + i] = messages[i]
        /\ \A i \in DOMAIN inbox : inbox'[i] = inbox[i]
    BY <1>1
  <1>3. /\ views' \in Seq(Sendable \cup {Fallback}) /\ Len(views) \in Nat
        /\ DOMAIN views = 1..Len(views) /\ DOMAIN views' = 1..(Len(views) + 1)
        /\ Len(views') = Len(views) + 1 /\ views'[Len(views')] = v
        /\ \A i \in DOMAIN views : views'[i] = views[i]
    BY DEF WireInv, Genuine
  <1>4. /\ inbox'[n].type = "render" /\ inbox'[n].rev = Len(views') /\ inbox'[n].view = v
        /\ n \in DOMAIN inbox'
    BY <1>2, <1>3 DEF RenderOf
  <1> HIDE DEF n
  <1>5. Genuine'
    <2>1. ASSUME NEW i \in DOMAIN inbox', inbox'[i].type = "render"
          PROVE  inbox'[i].rev \in DOMAIN views' /\ inbox'[i].view = views'[inbox'[i].rev]
      <3>1. CASE i \in DOMAIN inbox
        BY <1>2, <1>3, <2>1, <3>1 DEF WireInv, Genuine, IsRender
      <3>2. CASE i = n
        BY <1>3, <1>4, <3>2
      <3>3. CASE i \notin DOMAIN inbox /\ i # n
        <4>1. PICK k \in 1..(Len(messages) - 1) : i = Len(inbox) + k
          <5>1. i \in Int /\ i > Len(inbox) /\ i < Len(inbox) + Len(messages)
            BY <1>2, <3>3 DEF n
          <5>2. i - Len(inbox) \in 1..(Len(messages) - 1) /\ i = Len(inbox) + (i - Len(inbox))
            BY <1>2, <5>1
          <5> QED BY <5>2
        <4>2. inbox'[i] = messages[k]
          BY <1>2, <4>1
        <4> QED BY <2>1, <4>1, <4>2
      <3> QED BY <3>1, <3>2, <3>3
    <2>2. rev' \in 0..Len(views') /\ view' = IF rev' = 0 THEN Blank ELSE views'[rev']
      BY <1>1, <1>3 DEF WireInv, Genuine, screenVars
    <2> QED BY <1>2, <1>3, <2>1, <2>2 DEF Genuine, IsRender
  <1>6. Prefaced'
    BY <1>1, <1>2 DEF WireInv, Prefaced, IsRender, screenVars
  <1>7. Coming'
    <2>1. \A j \in (n + 1)..Len(inbox') : inbox'[j].type # "render"
      BY <1>2 DEF n
    <2> QED BY <1>4, <2>1 DEF Coming, IsRender
  <1> QED BY <1>5, <1>6, <1>7 DEF WireInv

LEMMA NodeSends == WireInv /\ Node => WireInv'
  <1> SUFFICES ASSUME WireInv, Node PROVE WireInv'
    OBVIOUS
  <1>1. ASSUME NEW l \in DoorLists, Greet(l) \/ Announce(l) PROVE WireInv'
    BY <1>1, OtherSent DEF Greet, Announce, DoorList, Mail, nodeVars
  <1>2. ASSUME Refuse \/ Notice PROVE WireInv'
    <2>1. Failure \in Mail /\ Failure.type # "render" /\ Notify \in Mail /\ Notify.type # "render"
      BY DEF Failure, Notify, Mail
    <2> QED BY <1>2, <2>1, OtherSent DEF Refuse, Notice, nodeVars
  <1>3. \A v \in Sendable \cup {Fallback} :
           RenderOf(v) \in Mail /\ RenderOf(v).type = "render" /\ Notify \in Mail
           /\ Notify.type # "render"
    BY DEF RenderOf, Notify, Mail, WireInv, Genuine
  <1>4. ASSUME FallBack PROVE WireInv'
    <2> DEFINE messages == <<Notify, RenderOf(Fallback)>>
    <2>1. /\ messages \in Seq(Mail) /\ Len(messages) = 2 /\ messages[2] = RenderOf(Fallback)
          /\ messages[1] = Notify
      BY <1>3
    <2>2. Push(messages) /\ views' = Append(views, Fallback) /\ stage # "greeting" /\ stage' = "up"
      BY <1>4 DEF FallBack
    <2> HIDE DEF messages
    <2>3. \A k \in 1..(Len(messages) - 1) : messages[k].type # "render"
      BY <1>3, <2>1
    <2>4. Len(messages) > 0 /\ messages[Len(messages)] = RenderOf(Fallback)
      BY <2>1
    <2> QED BY <2>1, <2>2, <2>3, <2>4, RenderSent
  <1>5. ASSUME NEW v \in RawViews, Draw(v) PROVE WireInv'
    <2> DEFINE messages == <<RenderOf(v)>>
    <2>1. v \in Sendable
      BY <1>5 DEF Draw
    <2>2. messages \in Seq(Mail) /\ Len(messages) = 1 /\ messages[1] = RenderOf(v)
      BY <1>3, <2>1
    <2>3. Push(messages) /\ views' = Append(views, v) /\ stage # "greeting" /\ stage' = "up"
      BY <1>5 DEF Draw
    <2> HIDE DEF messages
    <2>4. \A k \in 1..(Len(messages) - 1) : messages[k].type # "render"
      BY <2>2
    <2>5. Len(messages) > 0 /\ messages[Len(messages)] = RenderOf(v)
      BY <2>2
    <2> QED BY <2>1, <2>2, <2>3, <2>4, <2>5, RenderSent
  <1> QED BY <1>1, <1>2, <1>4, <1>5 DEF Node

\* The terminal starts from two messages, of which only the second can be a view.
LEMMA OpenTakes == WireInv /\ Open => WireInv'
  <1> SUFFICES ASSUME WireInv, Open PROVE WireInv'
    OBVIOUS
  <1>1. /\ Len(inbox) >= 2 /\ phase = "reading" /\ phase' = "screen"
        /\ inbox' = SubSeq(inbox, 3, Len(inbox))
        /\ view' = IF IsRender(2) THEN inbox[2].view ELSE Blank
        /\ rev' = IF IsRender(2) THEN inbox[2].rev ELSE 0
        /\ UNCHANGED <<stage, views>> /\ inbox \in Seq(Mail)
    BY DEF Open, IsRender, nodeVars, WireInv, Genuine
  <1>2. /\ inbox' \in Seq(Mail) /\ Len(inbox) \in Nat /\ Len(inbox') = Len(inbox) - 2
        /\ DOMAIN inbox = 1..Len(inbox) /\ DOMAIN inbox' = 1..(Len(inbox) - 2)
        /\ \A i \in 1..(Len(inbox) - 2) : inbox'[i] = inbox[i + 2]
    <2>1. Len(inbox) \in Nat /\ DOMAIN inbox = 1..Len(inbox)
      BY <1>1
    <2>2. \A i \in 3..Len(inbox) : inbox[i] \in Mail
      BY <1>1, <2>1
    <2>3. /\ inbox' \in Seq(Mail)
          /\ Len(inbox') = IF 3 <= Len(inbox) THEN Len(inbox) - 3 + 1 ELSE 0
          /\ \A i \in 1..(Len(inbox) - 3 + 1) : inbox'[i] = inbox[3 + i - 1]
      BY <1>1, <2>1, <2>2, SubSeqProperties
    <2>4. Len(inbox') = Len(inbox) - 2
      BY <1>1, <2>1, <2>3
    <2>5. ASSUME NEW i \in 1..(Len(inbox) - 2) PROVE inbox'[i] = inbox[i + 2]
      <3>1. i \in 1..(Len(inbox) - 3 + 1) /\ 3 + i - 1 = i + 2
        BY <2>1
      <3> QED BY <2>3, <3>1
    <2>6. DOMAIN inbox' = 1..(Len(inbox) - 2)
      BY <2>3, <2>4
    <2> QED BY <2>1, <2>3, <2>4, <2>5, <2>6
  <1>3. ~IsRender(1) /\ rev = 0
    BY <1>1 DEF WireInv, Prefaced
  <1>4. Genuine'
    <2>1. ASSUME NEW i \in DOMAIN inbox', inbox'[i].type = "render"
          PROVE  inbox'[i].rev \in DOMAIN views' /\ inbox'[i].view = views'[inbox'[i].rev]
      <3>1. i + 2 \in DOMAIN inbox /\ inbox'[i] = inbox[i + 2]
        BY <1>2, <2>1
      <3> QED BY <1>1, <2>1, <3>1 DEF WireInv, Genuine, IsRender
    <2>2. rev' \in 0..Len(views') /\ view' = IF rev' = 0 THEN Blank ELSE views'[rev']
      <3>1. CASE IsRender(2)
        <4>1. 2 \in DOMAIN inbox
          BY <1>1, <1>2
        <4> QED BY <1>1, <3>1, <4>1 DEF WireInv, Genuine
      <3>2. CASE ~IsRender(2)
        BY <1>1, <3>2 DEF WireInv, Genuine
      <3> QED BY <3>1, <3>2
    <2> QED BY <1>1, <1>2, <2>1, <2>2 DEF WireInv, Genuine, IsRender
  <1>5. Prefaced'
    BY <1>1 DEF WireInv, Prefaced
  <1>6. Coming'
    <2>1. CASE \A i \in DOMAIN inbox : ~IsRender(i)
      <3>1. rev = Len(views)
        BY <2>1, <1>1 DEF WireInv, Coming
      <3>2. ~IsRender(2) /\ \A i \in DOMAIN inbox' : inbox'[i].type # "render"
        BY <1>1, <1>2, <2>1 DEF IsRender
      <3> QED BY <1>1, <1>3, <3>1, <3>2 DEF Coming, IsRender
    <2>2. ASSUME NEW i \in DOMAIN inbox, IsRender(i), inbox[i].rev = Len(views),
                 \A j \in (i + 1)..Len(inbox) : ~IsRender(j)
          PROVE  Coming'
      <3>1. CASE i = 2
        <4>1. \A j \in DOMAIN inbox' : inbox'[j].type # "render"
          BY <1>2, <2>2, <3>1 DEF IsRender
        <4> QED BY <1>1, <2>2, <3>1, <4>1 DEF Coming, IsRender
      <3>2. CASE i # 2
        <4>1. i - 2 \in DOMAIN inbox' /\ inbox'[i - 2] = inbox[i]
          BY <1>2, <1>3, <2>2, <3>2
        <4>2. \A j \in ((i - 2) + 1)..Len(inbox') : inbox'[j].type # "render"
          BY <1>2, <2>2, <4>1 DEF IsRender
        <4> QED BY <1>1, <2>2, <4>1, <4>2 DEF Coming, IsRender
      <3> QED BY <3>1, <3>2
    <2> QED BY <1>1, <2>1, <2>2 DEF WireInv, Coming
  <1> QED BY <1>4, <1>5, <1>6 DEF WireInv

LEMMA EndKeeps == WireInv /\ Quit => WireInv'
  <1> SUFFICES ASSUME WireInv, Quit PROVE WireInv'
    OBVIOUS
  <1>1. phase' = "off" /\ inbox' = <<>> /\ UNCHANGED <<stage, views, view, rev>>
    BY DEF Quit, nodeVars, tuiVars, screenVars
  <1>2. Genuine' /\ Prefaced'
    BY <1>1 DEF WireInv, Genuine, Prefaced
  <1> QED BY <1>1, <1>2 DEF WireInv

LEMMA NextWire == WireInv /\ [Next]_vars => WireInv'
  <1> SUFFICES ASSUME WireInv, [Next]_vars PROVE WireInv'
    OBVIOUS
  <1>1. CASE Node
    BY <1>1, NodeSends
  <1>2. CASE Open
    BY <1>2, OpenTakes
  <1>3. CASE TakeRender
    BY <1>3, RenderTaken
  <1>4. CASE TakeNotify \/ TakeDoorList \/ TakeError
    BY <1>4, OtherTaken DEF TakeNotify, TakeDoorList, TakeError, Arrives
  <1>5. CASE Overrun \/ Leave
    BY <1>5, EndKeeps DEF Overrun, Leave
  <1>6. CASE Pressed \/ Written \/ UNCHANGED vars
    <2>1. UNCHANGED <<phase, nodeVars, inbox, screenVars>>
      BY <1>6 DEF Pressed, Move, SwitchFocus, ToggleFull, Escape, Scroll, Type, Erase, Submit,
                  NextControl, Activate, PressKey, OpenDoor, Keyed, Written, tuiVars, vars, wireVars
    <2> QED BY <2>1, WireUntouched
  <1> QED BY <1>1, <1>2, <1>3, <1>4, <1>5, <1>6 DEF Next, Messages

LEMMA InitWire == Init => WireInv
  BY DEF Init, WireInv, Genuine, Prefaced, Coming, IsRender

\* When nothing is on its way, the screen shows the node's last view, also after
\* a start on which the first messages were taken for others (newConnectCommand,
\* readLoop).
THEOREM TheLastViewIsShown == Spec => []ScreenCatchesUp
  <1>1. WireInv => ScreenCatchesUp
    BY DEF WireInv, Genuine, Coming, ScreenCatchesUp
  <1> QED BY <1>1, InitWire, NextWire, PTL DEF Spec

-----------------------------------------------------------------------------
(* Views the node let through *)

LEMMA LeastNumber ==
    ASSUME NEW T, T \subseteq Nat, T # {}
    PROVE  \E m \in T : \A k \in T : m <= k
  <1> DEFINE R == OpToRel(<, Nat)
  <1>1. IsWellFoundedOn(R, Nat)
    BY NatLessThanWellFounded
  <1>2. \A x, y \in Nat : x < y => <<x, y>> \in R
    BY DEF OpToRel
  <1>3. PICK m \in T : \A y \in T : ~ (<<y, m>> \in R)
    <2> HIDE DEF R
    <2> QED BY <1>1, WFMin
  <1> HIDE DEF R
  <1>4. ASSUME NEW k \in T PROVE m <= k
    <2>1. m \in Nat /\ k \in Nat /\ ~(k < m)
      BY <1>2, <1>3
    <2> QED BY <2>1
  <1> QED BY <1>4

LEMMA ParentBefore ==
    ASSUME NEW v, IsTree(v), NEW i \in DOMAIN v \ {1}
    PROVE  Parent(v, i) \in 1..(i - 1)
  BY DEF IsTree, Parent

\* The equation that says which nodes survive.
Surviving(v, f) ==
    f = [i \in DOMAIN v |->
            \/ i = 1
            \/ /\ f[Parent(v, i)]
               /\ v[Parent(v, i)].kind \in Containers
               /\ ~Replaced(v[Parent(v, i)])
               /\ Place(v, i) <= MaxUIChildren]

LEMMA SurvivesDef == \A v : Survives(v) = CHOOSE f : Surviving(v, f)
  BY DEF Survives, Surviving

LEMMA NoneReplaced ==
    ASSUME NEW v, IsTree(v), Validated(v), NEW i \in DOMAIN v
    PROVE  ~Replaced(v[i])
  <1>1. v[i].depth \in Nat /\ v[i].depth < MaxUINodeDepth /\ v[i].kind \in Known
    BY DEF IsTree, Validated, ValidNode
  <1> QED BY <1>1, ContractAssumption DEF Replaced

LEMMA AllSurvive ==
    ASSUME NEW v, IsTree(v), Validated(v)
    PROVE  Survives(v) = [i \in DOMAIN v |-> TRUE]
  <1> DEFINE all == [i \in DOMAIN v |-> TRUE]
  <1>1. \A i \in DOMAIN v \ {1} :
           /\ Parent(v, i) \in 1..(i - 1) /\ Parent(v, i) \in DOMAIN v
           /\ v[Parent(v, i)].kind \in Containers
           /\ ~Replaced(v[Parent(v, i)])
           /\ Place(v, i) <= MaxUIChildren
    <2> TAKE i \in DOMAIN v \ {1}
    <2>1. Parent(v, i) \in 1..(i - 1)
      BY ParentBefore
    <2>2. Parent(v, i) \in DOMAIN v
      <3>1. v \in Seq(ToSet(v))
        BY DEF IsTree
      <3> QED BY <2>1, <3>1
    <2> QED BY <2>1, <2>2, NoneReplaced DEF Validated, ValidChild
  <1>2. Surviving(v, all)
    BY <1>1 DEF Surviving
  <1>3. ASSUME NEW f, Surviving(v, f) PROVE f = all
    <2>1. f = [i \in DOMAIN v |-> f[i]] /\ DOMAIN f = DOMAIN v
      BY <1>3 DEF Surviving
    <2>2. \A i \in DOMAIN v : i = 1 \/ f[Parent(v, i)] => f[i] = TRUE
      BY <1>1, <1>3 DEF Surviving
    <2>3. ASSUME NEW j \in DOMAIN v, f[j] # TRUE PROVE FALSE
      <3> DEFINE T == {i \in DOMAIN v : f[i] # TRUE}
      <3>1. DOMAIN v \subseteq Nat
        BY DEF IsTree
      <3>2. PICK m \in T : \A k \in T : m <= k
        <4>1. T \subseteq Nat /\ T # {}
          BY <2>3, <3>1
        <4> HIDE DEF T
        <4> QED BY <4>1, LeastNumber
      <3>3. m # 1 /\ Parent(v, m) \in 1..(m - 1) /\ Parent(v, m) \in DOMAIN v
        BY <1>1, <2>2, <3>2
      <3> HIDE DEF T
      <3>4. ~(m <= Parent(v, m))
        <4>1. m \in Nat
          BY <3>1, <3>2 DEF T
        <4> QED BY <3>3, <4>1
      <3>5. Parent(v, m) \notin T
        BY <3>2, <3>4
      <3> QED BY <2>2, <3>2, <3>3, <3>5 DEF T
    <2> QED BY <2>1, <2>3
  <1> HIDE DEF all
  <1> QED BY <1>2, <1>3, SurvivesDef DEF all

LEMMA CountTo ==
    ASSUME NEW n \in Nat
    PROVE  Cardinality(1..n) = n
  <1>1. Cardinality(1..n) = IF 1 > n THEN 0 ELSE n - 1 + 1
    BY FS_Interval
  <1> QED BY <1>1

\* The client shows every node of a view that the node let through, and every
\* action: its own limits never bite.
LEMMA ViewsStayWhole ==
    ASSUME NEW v, IsTree(v), Validated(v)
    PROVE  /\ Lines(v) = Len(v)
           /\ \A i \in DOMAIN v : ~Replaced(v[i])
           /\ \A i \in DOMAIN v : Len(ShownActions(v[i].actions)) = Len(v[i].actions)
  <1>1. Lines(v) = Len(v)
    <2>1. Len(v) \in Nat /\ DOMAIN v = 1..Len(v)
      BY DEF IsTree
    <2>2. {i \in DOMAIN v : Survives(v)[i]} = 1..Len(v)
      BY <2>1, AllSurvive
    <2>3. Lines(v) = Cardinality({i \in DOMAIN v : Survives(v)[i]})
      BY DEF Lines
    <2>4. Cardinality(1..Len(v)) = Len(v)
      BY <2>1, CountTo
    <2> QED BY <2>2, <2>3, <2>4
  <1>2. ASSUME NEW i \in DOMAIN v PROVE Len(ShownActions(v[i].actions)) = Len(v[i].actions)
    <2> DEFINE actions == v[i].actions
    <2>1. /\ actions \in Seq(ToSet(actions))
          /\ v[i].kind \notin Lists => Len(actions) <= 1
          /\ v[i].kind \in Lists => Len(actions) <= MaxUIItems
      BY DEF IsTree, Validated, ValidNode
    <2> HIDE DEF actions
    <2>2. Len(actions) \in Nat /\ DOMAIN actions = 1..Len(actions) /\ Len(actions) <= MaxUIItems
      BY <2>1, ContractAssumption
    <2>3. ShownActions(actions) = [k \in 1..Len(actions) |-> Clean(actions[k])]
      BY <2>2 DEF ShownActions
    <2>4. Len(ShownActions(actions)) = Len(actions)
      BY <2>2, <2>3
    <2> QED BY <2>4 DEF actions
  <1> QED BY <1>1, <1>2, NoneReplaced

\* Whatever the doors answer with, a view on the screen is shown with all its
\* nodes and all their actions (sanitizeRemoteNode against validateUINode).
THEOREM AcceptedViewsStayWhole == Spec => []AcceptedViewsAreWhole
  <1>1. WireInv => AcceptedViewsAreWhole
    <2> SUFFICES ASSUME WireInv, view # Blank PROVE AcceptedViewsAreWhole
      BY DEF AcceptedViewsAreWhole
    <2>1. view \in Sendable \cup {Fallback}
      BY DEF WireInv, Genuine
    <2>2. IsTree(view) /\ Validated(view)
      BY <2>1, ClientAssumption DEF Sendable
    <2> QED BY <2>2, ViewsStayWhole DEF AcceptedViewsAreWhole
  <1> QED BY <1>1, InitWire, NextWire, PTL DEF Spec

-----------------------------------------------------------------------------
(* What a view offers *)

\* FlattenSeq of the first n parts takes the fixed point of this.
FlattenStep(f, parts, n) == [i \in 1..n |-> IF i = 1 THEN parts[i] ELSE f[i - 1] \o parts[i]]

LEMMA FlattenExists ==
    ASSUME NEW parts, NEW n \in Nat
    PROVE  \E f : f = FlattenStep(f, parts, n)
  <1> DEFINE bad == {m \in Nat : ~ \E f : f = FlattenStep(f, parts, m)}
  <1>1. SUFFICES ASSUME bad # {} PROVE FALSE
    OBVIOUS
  <1>2. PICK m \in bad : \A k \in bad : m <= k
    <2>1. bad \subseteq Nat
      OBVIOUS
    <2> HIDE DEF bad
    <2> QED BY <1>1, <2>1, LeastNumber
  <1>3. m \in Nat /\ ~ \E f : f = FlattenStep(f, parts, m)
    BY <1>2
  <1>4. CASE m = 0
    <2> DEFINE f == [i \in 1..m |-> parts[i]]
    <2>1. f = FlattenStep(f, parts, m)
      BY <1>4 DEF FlattenStep
    <2> QED BY <1>3, <2>1
  <1>5. CASE m # 0
    <2>1. m - 1 \in Nat /\ ~(m <= m - 1)
      BY <1>3, <1>5
    <2>2. PICK f : f = FlattenStep(f, parts, m - 1)
      BY <1>2, <2>1
    <2> DEFINE g == [i \in 1..m |->
                       IF i = m THEN IF m = 1 THEN parts[i] ELSE f[m - 1] \o parts[i] ELSE f[i]]
    <2>3. \A i \in 1..(m - 1) : f[i] = IF i = 1 THEN parts[i] ELSE f[i - 1] \o parts[i]
      BY <2>2 DEF FlattenStep
    <2>4. ASSUME NEW i \in 1..m
          PROVE  g[i] = IF i = 1 THEN parts[i] ELSE g[i - 1] \o parts[i]
      <3>1. \A k \in 1..(m - 1) : g[k] = f[k]
        BY <1>3
      <3>2. CASE i = m
        <4>1. m # 1 => m - 1 \in 1..(m - 1)
          BY <1>3, <1>5
        <4> QED BY <3>1, <3>2, <4>1
      <3>3. CASE i # m
        <4>1. i \in 1..(m - 1) /\ (i # 1 => i - 1 \in 1..(m - 1))
          BY <1>3, <3>3
        <4> QED BY <2>3, <3>1, <4>1
      <3> QED BY <3>2, <3>3
    <2>5. g = [i \in 1..m |-> g[i]]
      OBVIOUS
    <2> HIDE DEF g
    <2>6. g = FlattenStep(g, parts, m)
      BY <2>4, <2>5 DEF FlattenStep
    <2> QED BY <1>3, <2>6
  <1> QED BY <1>4, <1>5

LEMMA FlattenIn ==
    ASSUME NEW S, NEW n \in Nat, NEW parts \in [1..n -> Seq(S)]
    PROVE  FlattenSeq(parts) \in Seq(S)
  <1> DEFINE Step(f) == [i \in 1..n |-> IF i = 1 THEN parts[i] ELSE f[i - 1] \o parts[i]]
             flat == CHOOSE f : f = Step(f)
  <1>1. Len(parts) = n /\ (n = 0 => parts = <<>>)
    OBVIOUS
  <1>2. FlattenSeq(parts) = IF n = 0 THEN parts ELSE flat[n]
    BY <1>1 DEF FlattenSeq
  <1>3. flat = Step(flat)
    <2>1. \E f : f = FlattenStep(f, parts, n)
      BY FlattenExists
    <2>2. \A f : FlattenStep(f, parts, n) = Step(f)
      BY DEF FlattenStep
    <2> HIDE DEF Step
    <2> QED BY <2>1, <2>2
  <1> HIDE DEF flat
  <1>4. \A i \in 1..n : flat[i] = IF i = 1 THEN parts[i] ELSE flat[i - 1] \o parts[i]
    BY <1>3
  <1> HIDE DEF Step
  <1> DEFINE wrong == {i \in 1..n : flat[i] \notin Seq(S)}
  <1>5. wrong = {}
    <2> SUFFICES ASSUME wrong # {} PROVE FALSE
      OBVIOUS
    <2>1. PICK m \in wrong : \A k \in wrong : m <= k
      <3>1. wrong \subseteq Nat
        OBVIOUS
      <3> HIDE DEF wrong
      <3> QED BY <3>1, LeastNumber
    <2>2. m \in 1..n /\ flat[m] \notin Seq(S) /\ parts[m] \in Seq(S)
      BY <2>1
    <2>3. CASE m = 1
      BY <1>4, <2>2, <2>3
    <2>4. CASE m # 1
      <3>1. m - 1 \in 1..n /\ ~(m <= m - 1)
        BY <2>2, <2>4
      <3>2. flat[m - 1] \in Seq(S)
        BY <2>1, <3>1
      <3>3. flat[m] = flat[m - 1] \o parts[m]
        BY <1>4, <2>2, <2>4
      <3> QED BY <2>2, <3>2, <3>3
    <2> QED BY <2>3, <2>4
  <1>6. CASE n = 0
    BY <1>1, <1>2, <1>6
  <1>7. CASE n # 0
    BY <1>2, <1>5, <1>7
  <1> QED BY <1>6, <1>7

\* What filterVisibleDoors leaves of a list.
LEMMA VisibleDoors == ASSUME NEW l \in Seq(Doors) PROVE Visible(l) \in Seq(Doors \ Hidden)
  <1> DEFINE parts == [k \in DOMAIN l |-> IF l[k] \in Hidden THEN <<>> ELSE <<l[k]>>]
  <1>1. Len(l) \in Nat /\ DOMAIN l = 1..Len(l)
    OBVIOUS
  <1>2. ASSUME NEW k \in DOMAIN l
        PROVE  (IF l[k] \in Hidden THEN <<>> ELSE <<l[k]>>) \in Seq(Doors \ Hidden)
    <2>1. l[k] \notin Hidden => <<l[k]>> \in Seq(Doors \ Hidden)
      <3>1. l[k] \notin Hidden => l[k] \in Doors \ Hidden
        OBVIOUS
      <3>2. \A d \in Doors \ Hidden : <<d>> \in Seq(Doors \ Hidden)
        OBVIOUS
      <3> QED BY <3>1, <3>2
    <2>2. <<>> \in Seq(Doors \ Hidden)
      OBVIOUS
    <2> QED BY <2>1, <2>2
  <1>3. parts \in [1..Len(l) -> Seq(Doors \ Hidden)]
    BY <1>1, <1>2
  <1>4. Visible(l) = FlattenSeq(parts)
    BY DEF Visible
  <1> HIDE DEF parts
  <1> QED BY <1>1, <1>3, <1>4, FlattenIn

\* A control that a view offers is one of its interactive nodes, or an item of
\* one, and has its actions from there.
Offers(v, control) ==
    /\ control.kind \in Interactive \ {"dynamic_list"}
    /\ control.actions \in Seq(ToSet(control.actions))
    /\ \E i \in DOMAIN v :
        /\ v[i].kind \in Interactive /\ Clean(v[i].id) \in {control.id, NoName}
        /\ ToSet(control.actions)
              \subseteq {NoName} \cup {Clean(v[i].actions[k]) : k \in DOMAIN v[i].actions}

\* The client cleans actions and cuts them off, and changes nothing else of them.
LEMMA ActionsComeFrom ==
    ASSUME NEW S, NEW actions \in Seq(S), NEW named, NoName \in named,
           \A k \in DOMAIN actions : Clean(actions[k]) \in named
    PROVE  ShownActions(actions) \in Seq(named)
  <1>1. Len(actions) \in Nat /\ DOMAIN actions = 1..Len(actions) /\ MaxUIItems \in Nat
    BY ContractAssumption
  <1>2. ASSUME NEW n \in Nat, n <= Len(actions) PROVE [k \in 1..n |-> Clean(actions[k])] \in Seq(named)
    <2>1. \A k \in 1..n : Clean(actions[k]) \in named
      BY <1>1, <1>2
    <2> QED BY <2>1
  <1>3. CASE Len(actions) <= MaxUIItems
    <2>1. [k \in 1..Len(actions) |-> Clean(actions[k])] \in Seq(named)
      BY <1>1, <1>2
    <2> QED BY <1>1, <1>3, <2>1 DEF ShownActions
  <1>4. CASE ~(Len(actions) <= MaxUIItems)
    <2> DEFINE first == [k \in 1..MaxUIItems |-> Clean(actions[k])]
    <2>1. first \in Seq(named)
      BY <1>1, <1>2, <1>4
    <2>2. ShownActions(actions) = Append(first, NoName)
      BY <1>4 DEF ShownActions
    <2> HIDE DEF first
    <2> QED BY <2>1, <2>2
  <1> QED BY <1>3, <1>4

\* The actions that the client can have of a node.
ActionsOf(v, i) == {NoName} \cup {Clean(v[i].actions[k]) : k \in DOMAIN v[i].actions}

LEMMA ControlIsOffered ==
    ASSUME NEW v, NEW i \in DOMAIN v, v[i].kind \in Interactive, NEW c,
           c.kind \in Interactive \ {"dynamic_list"},
           c.actions \in Seq(ActionsOf(v, i)), Clean(v[i].id) \in {c.id, NoName}
    PROVE  Offers(v, c)
  <1> DEFINE actions == c.actions
  <1>1. actions \in Seq(ToSet(actions)) /\ ToSet(actions) \subseteq ActionsOf(v, i)
    <2>1. \A k \in DOMAIN actions : actions[k] \in ActionsOf(v, i)
      OBVIOUS
    <2>2. actions \in Seq({actions[k] : k \in DOMAIN actions})
      OBVIOUS
    <2> QED BY <2>1, <2>2 DEF ToSet
  <1> QED BY <1>1 DEF Offers, ActionsOf

LEMMA NodeOffers ==
    ASSUME NEW v, NEW i \in DOMAIN v, v[i].actions \in Seq(ToSet(v[i].actions))
    PROVE  LET part == ControlsOf(Shown(v, i))
           IN  /\ part \in Seq(ToSet(part))
               /\ \A k \in DOMAIN part : \A n : Offers(v, WithName(part[k], n))
  <1> DEFINE node == Shown(v, i)
             part == ControlsOf(node)
  <1>1. /\ node = [line |-> node.line, kind |-> node.kind, id |-> node.id,
                   actions |-> node.actions, bottom |-> node.bottom]
        /\ node.id = Clean(v[i].id)
        /\ node.actions = ShownActions(v[i].actions)
        /\ node.kind \in {"text", v[i].kind}
    BY DEF Shown
  <1>2. node.actions \in Seq(ActionsOf(v, i)) /\ NoName \in ActionsOf(v, i)
    <2>1. \A k \in DOMAIN v[i].actions : Clean(v[i].actions[k]) \in ActionsOf(v, i)
      BY DEF ActionsOf
    <2>2. NoName \in ActionsOf(v, i)
      BY DEF ActionsOf
    <2> QED BY <1>1, <2>1, <2>2, ActionsComeFrom
  <1>3. "text" \notin Interactive /\ "dynamic_list" \in Interactive
        /\ "button" \in Interactive \ {"dynamic_list"}
    BY DEF Interactive, Lists, TextInputs, Buttons
  <1> HIDE DEF node
  <1>4. ASSUME v[i].kind \in Interactive, node.kind \in Interactive \ {"dynamic_list"}, NEW n
        PROVE  Offers(v, WithName(node, n))
    <2>1. /\ WithName(node, n).kind = node.kind /\ WithName(node, n).actions = node.actions
          /\ node.id \in {WithName(node, n).id, NoName}
      BY <1>1 DEF WithName
    <2> QED BY <1>1, <1>2, <1>4, <2>1, ControlIsOffered
  <1>5. CASE node.kind = "dynamic_list"
    <2> DEFINE m == IF Len(node.actions) < MaxUIItems THEN Len(node.actions) ELSE MaxUIItems
               button(k) == [node EXCEPT !.kind = "button", !.actions = <<node.actions[k]>>]
    <2>1. m \in Nat /\ m <= Len(node.actions) /\ Len(node.actions) \in Nat
      BY <1>2, ContractAssumption
    <2>2. part = [k \in 1..m |-> button(k)]
      BY <1>3, <1>5 DEF ControlsOf, ButtonsOf
    <2>3. part \in Seq(ToSet(part)) /\ DOMAIN part = 1..m
      <3> HIDE DEF part, m, button
      <3>1. DOMAIN part = 1..m /\ part = [k \in 1..m |-> part[k]]
        BY <2>2
      <3>2. \A k \in 1..m : part[k] \in {part[j] : j \in DOMAIN part}
        BY <3>1
      <3> QED BY <2>1, <3>1, <3>2 DEF ToSet
    <2>4. v[i].kind \in Interactive
      BY <1>1, <1>3, <1>5
    <2>5. ASSUME NEW k \in 1..m, NEW n PROVE Offers(v, WithName(button(k), n))
      <3> DEFINE one == WithName(button(k), n)
      <3>1. /\ one.kind = "button" /\ one.actions = <<node.actions[k]>>
            /\ node.id \in {one.id, NoName}
        <4>1. /\ button(k).kind = "button" /\ button(k).actions = <<node.actions[k]>>
              /\ button(k).id = node.id
          BY <1>1
        <4>2. ASSUME NEW id
              PROVE  /\ [button(k) EXCEPT !.id = id].kind = "button"
                     /\ [button(k) EXCEPT !.id = id].actions = <<node.actions[k]>>
          BY <1>1
        <4> HIDE DEF button
        <4>3. one.kind = "button" /\ one.actions = <<node.actions[k]>>
          BY <4>1, <4>2 DEF WithName
        <4>4. node.id # NoName => one = button(k)
          BY <4>1 DEF WithName
        <4>5. node.id \in {one.id, NoName}
          BY <4>1, <4>4
        <4> QED BY <4>3, <4>5
      <3> HIDE DEF one
      <3>2. <<node.actions[k]>> \in Seq(ActionsOf(v, i))
        <4>1. node.actions[k] \in ActionsOf(v, i)
          <5>1. k \in 1..Len(node.actions)
            <6> HIDE DEF m
            <6> QED BY <2>1
          <5> QED BY <1>2, <5>1
        <4>2. \A a \in ActionsOf(v, i) : <<a>> \in Seq(ActionsOf(v, i))
          OBVIOUS
        <4> QED BY <4>1, <4>2
      <3>3. Offers(v, one)
        <4>1. one.kind \in Interactive \ {"dynamic_list"} /\ one.actions \in Seq(ActionsOf(v, i))
          BY <1>3, <3>1, <3>2
        <4>2. Clean(v[i].id) \in {one.id, NoName}
          BY <1>1, <3>1
        <4> QED BY <2>4, <4>1, <4>2, ControlIsOffered
      <3> QED BY <3>3 DEF one
    <2>6. \A k \in 1..m : part[k] = button(k)
      <3> HIDE DEF part, m, button
      <3> QED BY <2>2
    <2> HIDE DEF part, m, button
    <2> QED BY <2>3, <2>5, <2>6 DEF part, node
  <1>6. CASE node.kind \in Interactive \ {"dynamic_list"}
    <2>1. part = <<node>>
      BY <1>6 DEF ControlsOf
    <2>2. v[i].kind \in Interactive
      BY <1>1, <1>3, <1>6
    <2>3. \A n : Offers(v, WithName(node, n))
      BY <1>4, <1>6, <2>2
    <2>4. part \in Seq(ToSet(part)) /\ DOMAIN part = {1} /\ part[1] = node
      <3> HIDE DEF part, node
      <3>1. \A c : <<c>> \in Seq({<<c>>[k] : k \in DOMAIN <<c>>}) /\ DOMAIN <<c>> = {1} /\ <<c>>[1] = c
        OBVIOUS
      <3> QED BY <2>1, <3>1 DEF ToSet
    <2> QED BY <2>3, <2>4 DEF node
  <1>7. CASE node.kind \notin Interactive
    <2>1. part = <<>>
      BY <1>3, <1>7 DEF ControlsOf
    <2>2. part \in Seq(ToSet(part)) /\ DOMAIN part = {}
      BY <2>1
    <2> QED BY <2>2 DEF node
  <1> QED BY <1>5, <1>6, <1>7 DEF node

LEMMA ViewOffers ==
    ASSUME NEW v, v \in Seq(ToSet(v)), \A i \in DOMAIN v : v[i].actions \in Seq(ToSet(v[i].actions))
    PROVE  /\ Focusables(v) \in Seq(ToSet(Focusables(v)))
           /\ \A k \in DOMAIN Focusables(v) : Offers(v, Focusables(v)[k])
  <1> DEFINE part(i) == ControlsOf(Shown(v, i))
             parts == [i \in DOMAIN v |-> IF Survives(v)[i] THEN part(i) ELSE <<>>]
             found == FlattenSeq(parts)
             all == UNION {ToSet(part(i)) : i \in DOMAIN v}
  <1>1. Len(v) \in Nat /\ DOMAIN v = 1..Len(v)
    OBVIOUS
  <1>2. ASSUME NEW i \in DOMAIN v
        PROVE  /\ part(i) \in Seq(ToSet(part(i)))
               /\ \A k \in DOMAIN part(i) : \A n : Offers(v, WithName(part(i)[k], n))
    BY NodeOffers
  <1> HIDE DEF part
  <1>3. ASSUME NEW i \in DOMAIN v PROVE part(i) \in Seq(all)
    <2>1. ToSet(part(i)) \subseteq all
      OBVIOUS
    <2> HIDE DEF all
    <2> QED BY <1>2, <2>1
  <1>4. ASSUME NEW c \in all, NEW n PROVE Offers(v, WithName(c, n))
    <2>1. PICK i \in DOMAIN v : c \in ToSet(part(i))
      OBVIOUS
    <2>2. PICK k \in DOMAIN part(i) : c = part(i)[k]
      BY <2>1 DEF ToSet
    <2> QED BY <1>2, <2>2
  <1> HIDE DEF all
  <1>5. parts \in [1..Len(v) -> Seq(all)]
    <2>1. <<>> \in Seq(all)
      OBVIOUS
    <2> QED BY <1>1, <1>3, <2>1
  <1>6. Focusables(v) = [k \in DOMAIN found |-> WithName(found[k], k)]
    BY DEF Focusables, part
  <1> HIDE DEF parts
  <1>7. found \in Seq(all)
    BY <1>1, <1>5, FlattenIn
  <1> HIDE DEF found
  <1>8. \A k \in DOMAIN found : Offers(v, WithName(found[k], k))
    BY <1>4, <1>7
  <1>9. /\ DOMAIN Focusables(v) = 1..Len(found) /\ Len(found) \in Nat
        /\ \A k \in DOMAIN found : Focusables(v)[k] = WithName(found[k], k)
    BY <1>6, <1>7
  <1>10. Focusables(v) \in Seq(ToSet(Focusables(v)))
    <2> DEFINE controls1 == Focusables(v)
    <2>1. DOMAIN controls1 = 1..Len(found) /\ controls1 = [k \in 1..Len(found) |-> controls1[k]]
      BY <1>6, <1>7
    <2> HIDE DEF controls1
    <2>2. \A k \in 1..Len(found) : controls1[k] \in {controls1[j] : j \in DOMAIN controls1}
      BY <2>1
    <2>3. controls1 \in Seq({controls1[j] : j \in DOMAIN controls1})
      BY <1>9, <2>1, <2>2
    <2> QED BY <2>3 DEF ToSet, controls1
  <1> QED BY <1>6, <1>8, <1>9, <1>10

\* The same of every view that the client can have on its screen.
LEMMA ControlsAreOffered ==
    ASSUME NEW v \in Sendable \cup {Fallback, Blank}
    PROVE  /\ Focusables(v) \in Seq(ToSet(Focusables(v)))
           /\ \A k \in DOMAIN Focusables(v) : Offers(v, Focusables(v)[k])
  <1>1. v \in Seq(ToSet(v)) /\ \A i \in DOMAIN v : v[i].actions \in Seq(ToSet(v[i].actions))
    <2>1. CASE v = Blank
      <3> DEFINE root == [depth |-> 0, kind |-> "", id |-> NoName, actions |-> <<>>,
                          bottom |-> FALSE, capture |-> FALSE]
      <3>1. v = <<root>>
        BY <2>1 DEF Blank
      <3>2. root.actions = <<>> /\ <<>> \in Seq(ToSet(<<>>))
        OBVIOUS
      <3> HIDE DEF root
      <3>3. \A node : /\ <<node>> \in Seq({<<node>>[i] : i \in DOMAIN <<node>>})
                      /\ <<node>>[1] = node /\ DOMAIN <<node>> = {1}
        OBVIOUS
      <3>4. v \in Seq(ToSet(v))
        BY <3>1, <3>3 DEF ToSet
      <3>5. DOMAIN v = {1} /\ v[1] = root
        BY <3>1, <3>3
      <3> QED BY <3>2, <3>4, <3>5
    <2>2. CASE v # Blank
      <3>1. IsTree(v)
        BY <2>2, ClientAssumption DEF Sendable
      <3> QED BY <3>1 DEF IsTree
    <2> QED BY <2>1, <2>2
  <1> QED BY <1>1, ViewOffers

-----------------------------------------------------------------------------
(* Events and the views they answer *)

EventInv ==
    /\ WireInv
    /\ \A k \in DOMAIN controls : Offers(view, controls[k])
    /\ EventNamesItsView

\* What an event names, the view of its revision offers.
Answers(e) ==
    /\ e.rev \in DOMAIN views
    /\ IF e.kind = "key"
       THEN views[e.rev][1].capture
       ELSE \E node \in {views[e.rev][i] : i \in DOMAIN views[e.rev]} :
                /\ node.kind \in Interactive
                /\ Clean(node.id) \in {e.target, NoName}
                /\ e.action \in {NoName} \cup {Clean(node.actions[k]) : k \in DOMAIN node.actions}

\* Views are only ever added, so that an event on its way stays right.
LEMMA EventsStayRight ==
    ASSUME EventInv, [Next]_vars, pending' \subseteq pending
    PROVE  EventNamesItsView'
  <1>1. \A k \in DOMAIN views : k \in DOMAIN views' /\ views'[k] = views[k]
    <2>1. views' = views \/ \E v : views' = Append(views, v)
      BY DEF Next, Node, Greet, Announce, FallBack, Draw, Refuse, Notice, Messages, Open,
             TakeRender, TakeNotify, Overrun, TakeDoorList, TakeError, Arrives, Quit, Pressed, Move,
             SwitchFocus, ToggleFull, Escape, Scroll, Type, Erase, Submit, NextControl, Activate,
             PressKey, OpenDoor, Keyed, Written, Leave, nodeVars, vars
    <2>2. views \in Seq(Sendable \cup {Fallback})
      BY DEF EventInv, WireInv, Genuine
    <2> QED BY <2>1, <2>2
  <1>2. \A e \in pending : e.type = "event" => Answers(e)
    BY DEF EventInv, EventNamesItsView, Answers
  <1>3. \A e \in pending : e.type = "event" => Answers(e)'
    BY <1>1, <1>2 DEF Answers
  <1> QED BY <1>3 DEF EventNamesItsView, Answers

\* A control is on the screen only while a view is.
LEMMA ControlsNeedAView ==
    ASSUME EventInv
    PROVE  /\ HasControl => rev \in DOMAIN views /\ view = views[rev] /\ Offers(view, Control)
           /\ view[1].capture => rev \in DOMAIN views /\ view = views[rev]
  <1>1. rev # 0 => rev \in DOMAIN views /\ view = views[rev]
    BY DEF EventInv, WireInv, Genuine
  <1>2. rev = 0 => view = Blank
    BY DEF EventInv, WireInv, Genuine
  <1>3. ~Blank[1].capture /\ \A control : ~Offers(Blank, control)
    <2>1. DOMAIN Blank = {1} /\ Blank[1].kind = "" /\ Blank[1].capture = FALSE
      <3> DEFINE root == [depth |-> 0, kind |-> "", id |-> NoName, actions |-> <<>>,
                          bottom |-> FALSE, capture |-> FALSE]
      <3>1. Blank = <<root>>
        BY DEF Blank
      <3>2. root.kind = "" /\ root.capture = FALSE
        OBVIOUS
      <3> HIDE DEF root
      <3>3. \A node : <<node>>[1] = node /\ DOMAIN <<node>> = {1}
        OBVIOUS
      <3> QED BY <3>1, <3>2, <3>3
    <2>2. "" \notin Interactive
      BY DEF Interactive, Lists, TextInputs, Buttons
    <2> QED BY <2>1, <2>2 DEF Offers
  <1>4. HasControl => Offers(view, Control)
    BY DEF EventInv, HasControl, Control
  <1> QED BY <1>1, <1>2, <1>3, <1>4

\* The event of the control that has the focus.
LEMMA EventsAnswer ==
    ASSUME EventInv, HasControl, NEW e \in Events
    PROVE  e.type = "event" /\ Answers(e)
  <1>1. rev \in DOMAIN views /\ view = views[rev] /\ Offers(view, Control)
    BY ControlsNeedAView
  <1>2. Control.kind \in Interactive \ {"dynamic_list"}
    BY <1>1 DEF Offers
  <1>3. /\ e.type = "event" /\ e.rev = rev /\ e.target = Control.id /\ e.kind # "key"
        /\ e.action = NoName \/ (Control.actions # <<>> /\ e.action = Control.actions[1])
    <2>1. CASE Control.kind \in {"menu", "list"}
      BY <2>1 DEF Events, Event
    <2>2. CASE Control.kind \in Buttons
      BY <2>2 DEF Events, Event, Buttons
    <2>3. CASE Control.kind \in TextInputs
      BY <2>3 DEF Events, Event, TextInputs, Buttons
    <2> QED BY <1>2, <2>1, <2>2, <2>3 DEF Interactive, Lists
  <1>4. e.action = NoName \/ e.action \in ToSet(Control.actions)
    <2>1. Control.actions \in Seq(ToSet(Control.actions))
      BY <1>1 DEF Offers
    <2>2. Control.actions # <<>> => Control.actions[1] \in ToSet(Control.actions)
      BY <2>1
    <2> QED BY <1>3, <2>2
  <1>5. PICK i \in DOMAIN view :
            /\ view[i].kind \in Interactive /\ Clean(view[i].id) \in {Control.id, NoName}
            /\ ToSet(Control.actions)
                  \subseteq {NoName} \cup {Clean(view[i].actions[k]) : k \in DOMAIN view[i].actions}
    BY <1>1 DEF Offers
  <1>6. e.action \in {NoName} \cup {Clean(view[i].actions[k]) : k \in DOMAIN view[i].actions}
    BY <1>4, <1>5
  <1> QED BY <1>1, <1>3, <1>5, <1>6 DEF Answers

LEMMA SentIsRight ==
    ASSUME EventInv, NEW m, pending' = pending \cup {m}, views' = views,
           m.type = "event" => Answers(m)
    PROVE  EventNamesItsView'
  <1>1. \A e \in pending' : e.type = "event" => Answers(e)
    BY DEF EventInv, EventNamesItsView, Answers
  <1> QED BY <1>1 DEF EventNamesItsView, Answers

LEMMA NextEvents ==
    ASSUME EventInv, [Next]_vars
    PROVE  EventInv'
  <1>1. WireInv'
    BY NextWire DEF EventInv
  <1>2. (\A k \in DOMAIN controls : Offers(view, controls[k]))'
    <2>1. CASE Open \/ TakeRender
      <3>1. controls' = Focusables(view')
        BY <2>1 DEF Open, TakeRender, Show, Refresh
      <3>2. view' \in Sendable \cup {Fallback, Blank}
        BY <1>1 DEF WireInv, Genuine
      <3> QED BY <3>1, <3>2, ControlsAreOffered
    <2>2. CASE ~(Open \/ TakeRender)
      <3>1. UNCHANGED <<view, controls>>
        BY <2>2 DEF Next, Node, Greet, Announce, FallBack, Draw, Refuse, Notice, Push, Messages,
                    TakeNotify, Overrun, TakeDoorList, TakeError, Quit, Pressed, Move, SwitchFocus,
                    ToggleFull, Escape, Scroll, Type, Erase, Submit, NextControl, Activate, PressKey,
                    OpenDoor, Keyed, Written, Leave, screenVars, tuiVars, vars
      <3> QED BY <3>1 DEF EventInv
    <2> QED BY <2>1, <2>2
  <1>3. EventNamesItsView'
    <2>1. CASE Submit \/ Activate
      <3>1. PICK e \in Events : pending' = pending \cup {e}
        BY <2>1 DEF Submit, Activate, Send
      <3>2. HasControl /\ views' = views
        BY <2>1 DEF Submit, SubmitsOnEnter, Activate, Keyed, nodeVars
      <3> QED BY <3>1, <3>2, EventsAnswer, SentIsRight
    <2>2. CASE PressKey
      <3> DEFINE e == Event("key", NoName, NoName, <<>>)
      <3>1. pending' = pending \cup {e} /\ views' = views /\ view[1].capture
        BY <2>2 DEF PressKey, Send, Keyed, nodeVars
      <3>2. e.kind = "key" /\ e.rev = rev
        BY DEF Event
      <3> HIDE DEF e
      <3>3. Answers(e)
        BY <3>1, <3>2, ControlsNeedAView DEF Answers
      <3> QED BY <3>1, <3>3, SentIsRight
    <2>3. CASE OpenDoor
      <3> DEFINE m == [type |-> "open_door", door |-> rail[selected]]
      <3>1. pending' = pending \cup {m} /\ views' = views
        BY <2>3 DEF OpenDoor, Send, Keyed, nodeVars
      <3>2. m.type # "event"
        OBVIOUS
      <3> HIDE DEF m
      <3> QED BY <3>1, <3>2, SentIsRight
    <2>4. CASE ~(Submit \/ Activate \/ PressKey \/ OpenDoor)
      <3>1. pending' \subseteq pending
        BY <2>4 DEF Next, Node, Greet, Announce, FallBack, Draw, Refuse, Notice, Push, Messages, Open,
                    TakeRender, TakeNotify, Overrun, TakeDoorList, TakeError, Arrives, Quit, Pressed,
                    Move, SwitchFocus, ToggleFull, Escape, Scroll, Type, Erase, NextControl, Written,
                    Leave, wireVars, vars
      <3> QED BY <3>1, EventsStayRight
    <2> QED BY <2>1, <2>2, <2>3, <2>4
  <1> QED BY <1>1, <1>2, <1>3 DEF EventInv

\* Every event on its way names a control that the view of its revision offers,
\* whatever views, lists, keys and errors come between (remoteEventForFocus,
\* refreshRemoteState).
THEOREM EventsNameTheirView == Spec => []EventNamesItsView
  <1>1. Init => EventInv
    BY InitWire DEF Init, EventInv, EventNamesItsView
  <1>2. EventInv /\ [Next]_vars => EventInv'
    BY NextEvents
  <1>3. EventInv => EventNamesItsView
    BY DEF EventInv
  <1> QED BY <1>1, <1>2, <1>3, PTL DEF Spec

-----------------------------------------------------------------------------
(* The places of the selection, the focus and the screen *)

TypeInv ==
    /\ TypeOK /\ WireInv /\ DraftInv
    /\ controls \in Seq(ToSet(controls))
    /\ phase = "reading" => at = 1 /\ scroll = 0

LEMMA GreatestNumber ==
    ASSUME NEW n \in Nat, NEW T, T \subseteq 0..n, T # {}
    PROVE  \E m \in T : \A k \in T : m >= k
  <1> DEFINE U == {n - k : k \in T}
  <1>1. U \subseteq Nat /\ U # {}
    <2>1. \A k \in T : n - k \in Nat
      <3> TAKE k \in T
      <3>1. k \in 0..n
        OBVIOUS
      <3> QED BY <3>1
    <2> QED BY <2>1
  <1> HIDE DEF U
  <1>2. PICK u \in U : \A k \in U : u <= k
    BY <1>1, LeastNumber
  <1>3. PICK m \in T : u = n - m
    BY <1>2 DEF U
  <1>4. ASSUME NEW k \in T PROVE m >= k
    <2>1. n - m <= n - k
      BY <1>2, <1>3, <1>4 DEF U
    <2>2. n \in Int /\ m \in Int /\ k \in Int
      OBVIOUS
    <2> QED BY <2>1, <2>2
  <1> QED BY <1>3, <1>4

LEMMA LinesNatural ==
    ASSUME NEW v, v \in Seq(ToSet(v))
    PROVE  Lines(v) \in Nat /\ MaxScroll(v) \in Nat /\ MaxScroll(v) = LargerOf(Lines(v) - Height, 0)
  <1>1. Lines(v) = Cardinality({i \in DOMAIN v : Survives(v)[i]})
    BY DEF Lines
  <1>2. IsFiniteSet(DOMAIN v)
    <2>1. Len(v) \in Nat /\ DOMAIN v = 1..Len(v)
      OBVIOUS
    <2>2. \A n \in Nat : IsFiniteSet(1..n)
      BY FS_Interval
    <2> QED BY <2>1, <2>2
  <1>3. Lines(v) \in Nat
    BY <1>1, <1>2, FS_Subset, FS_CardinalityType
  <1> QED BY <1>3, ClientAssumption DEF MaxScroll, LargerOf

LEMMA ViewsAreSequences ==
    ASSUME NEW v \in Sendable \cup {Fallback, Blank}
    PROVE  v \in RawViews \cup {Fallback, Blank} /\ v \in Seq(ToSet(v))
  <1>1. Blank \in Seq(ToSet(Blank))
    <2>1. \A node : <<node>> \in Seq({<<node>>[i] : i \in DOMAIN <<node>>})
      OBVIOUS
    <2> QED BY <2>1 DEF Blank, ToSet
  <1> QED BY <1>1, ClientAssumption DEF Sendable, IsTree

LEMMA PreferredInside ==
    ASSUME NEW S, NEW l \in Seq(S), NEW d
    PROVE  Preferred(l, d) \in 1..LargerOf(Len(l), 1)
  <1>1. Len(l) \in Nat /\ DOMAIN l = 1..Len(l)
    OBVIOUS
  <1>2. CASE \E k \in DOMAIN l : l[k] = d
    <2> DEFINE T == {k \in DOMAIN l : l[k] = d}
    <2>1. T \subseteq Nat /\ T # {}
      BY <1>1, <1>2
    <2>2. PICK m \in T : \A k \in T : m <= k
      <3> HIDE DEF T
      <3> QED BY <2>1, LeastNumber
    <2>3. m \in DOMAIN l /\ l[m] = d /\ \A j \in 1..(m - 1) : l[j] # d
      BY <1>1, <2>2
    <2>4. Preferred(l, d) \in DOMAIN l
      BY <1>2, <2>3 DEF Preferred
    <2> QED BY <1>1, <2>4 DEF LargerOf
  <1>3. CASE ~\E k \in DOMAIN l : l[k] = d
    BY <1>1, <1>3 DEF Preferred, LargerOf
  <1> QED BY <1>2, <1>3

LEMMA FocusMovesInside ==
    ASSUME TypeInv, NEW forward \in BOOLEAN, NEW around \in BOOLEAN
    PROVE  MovedFocus(forward, around) \in 0..LargerOf(Len(controls), 1)
  <1>1. /\ Len(controls) \in Nat /\ DOMAIN controls = 1..Len(controls)
        /\ at \in 0..LargerOf(Len(controls), 1)
    BY DEF TypeInv, TypeOK
  <1>2. InSight \subseteq DOMAIN controls
    BY DEF InSight
  <1>3. ASSUME NEW S, S \subseteq InSight, S # {} PROVE FirstOf(S) \in S /\ LastOf(S) \in S
    <2>1. S \subseteq Nat /\ S \subseteq 0..Len(controls)
      BY <1>1, <1>2, <1>3
    <2>2. \E k \in S : \A j \in S : k <= j
      BY <1>3, <2>1, LeastNumber
    <2>3. \E k \in S : \A j \in S : k >= j
      BY <1>1, <1>3, <2>1, GreatestNumber
    <2> QED BY <2>2, <2>3 DEF FirstOf, LastOf
  <1>4. MovedFocus(forward, around) \in InSight \cup {at}
    <2> DEFINE later == {k \in InSight : k > at}
               earlier == {k \in InSight : k < at}
    <2>1. later # {} => FirstOf(later) \in InSight
      BY <1>3
    <2>2. earlier # {} => LastOf(earlier) \in InSight
      BY <1>3
    <2>3. InSight # {} => FirstOf(InSight) \in InSight /\ LastOf(InSight) \in InSight
      BY <1>3
    <2>4. MovedFocus(forward, around) =
            IF InSight = {} THEN at
            ELSE IF at \notin InSight
            THEN IF forward THEN FirstOf(InSight) ELSE LastOf(InSight)
            ELSE IF forward
            THEN IF later # {} THEN FirstOf(later) ELSE IF around THEN FirstOf(InSight) ELSE at
            ELSE IF earlier # {} THEN LastOf(earlier) ELSE IF around THEN LastOf(InSight) ELSE at
      BY DEF MovedFocus
    <2> HIDE DEF later, earlier
    <2> QED BY <2>1, <2>2, <2>3, <2>4
  <1>5. InSight \subseteq 0..LargerOf(Len(controls), 1)
    BY <1>1, <1>2 DEF LargerOf
  <1> QED BY <1>1, <1>4, <1>5

\* Where the selection, the focus and the screen are.
Places ==
    /\ phase \in {"reading", "screen", "off"}
    /\ stage \in {"greeting", "listed", "up"}
    /\ rail \in Seq(Doors \ Hidden)
    /\ selected \in 1..LargerOf(Len(rail), 1)
    /\ focus \in {"doors", "remote"}
    /\ controls \in Seq(ToSet(controls))
    /\ at \in 0..LargerOf(Len(controls), 1)
    /\ scroll \in 0..LargerOf(Lines(view) - Height, 0)
    /\ opening \in BOOLEAN
    /\ phase = "reading" => at = 1 /\ scroll = 0

LEMMA PlacesSuffice == WireInv /\ DraftInv /\ Places <=> TypeInv
  <1>1. WireInv => views \in Seq(Sendable \cup {Fallback}) /\ rev \in 0..Len(views)
                   /\ view \in RawViews \cup {Fallback, Blank}
    BY ViewsAreSequences DEF WireInv, Genuine
  <1>2. DraftInv => owed \in [Names -> Nat]
    BY DEF DraftInv
  <1> QED BY <1>1, <1>2 DEF Places, TypeInv, TypeOK

\* A door list on its way is one that the node sends.
LEMMA ListsInMail ==
    ASSUME NEW m \in Mail, m.type = "door_list"
    PROVE  m.doors \in Seq(Doors)
  BY ClientAssumption DEF Mail

LEMMA OpenPlaces ==
    ASSUME TypeInv, WireInv', Open
    PROVE  Places'
  <1> DEFINE listed == IF inbox[1].type = "door_list" THEN Visible(inbox[1].doors) ELSE <<>>
  <1>1. /\ phase = "reading" /\ phase' = "screen" /\ 1 \in DOMAIN inbox /\ inbox[1] \in Mail
        /\ UNCHANGED <<stage, focus, at, scroll, opening>>
    <2>1. inbox \in Seq(Mail) /\ Len(inbox) >= 2
      BY DEF Open, TypeInv, WireInv, Genuine
    <2>2. 1 \in DOMAIN inbox /\ inbox[1] \in Mail
      BY <2>1
    <2> QED BY <2>2 DEF Open, nodeVars, looks
  <1>2. controls' = Focusables(view') /\ rail' = listed /\ selected' = Preferred(listed, Lobby)
    BY DEF Open
  <1>3. listed \in Seq(Doors \ Hidden)
    <2>1. inbox[1].type = "door_list" => inbox[1].doors \in Seq(Doors)
      BY <1>1, ListsInMail
    <2> QED BY <2>1, VisibleDoors
  <1> HIDE DEF listed
  <1>4. selected' \in 1..LargerOf(Len(rail'), 1)
    BY <1>2, <1>3, PreferredInside
  <1>5. view' \in Sendable \cup {Fallback, Blank}
    BY DEF WireInv, Genuine
  <1>6. controls' \in Seq(ToSet(controls')) /\ Len(controls') \in Nat
    BY <1>2, <1>5, ControlsAreOffered
  <1>7. at' = 1 /\ scroll' = 0
    BY <1>1 DEF TypeInv
  <1>8. at' \in 0..LargerOf(Len(controls'), 1)
    BY <1>6, <1>7 DEF LargerOf
  <1>9. LargerOf(Lines(view') - Height, 0) \in Nat
    <2>1. view' \in Seq(ToSet(view'))
      BY <1>5, ViewsAreSequences
    <2> QED BY <2>1, LinesNatural
  <1>10. scroll' \in 0..LargerOf(Lines(view') - Height, 0)
    BY <1>7, <1>9
  <1> QED BY <1>1, <1>2, <1>3, <1>4, <1>6, <1>8, <1>10 DEF Places, TypeInv, TypeOK

LEMMA RenderPlaces ==
    ASSUME TypeInv, WireInv', TakeRender
    PROVE  Places'
  <1> DEFINE v == view'
  <1>1. /\ phase = "screen" /\ UNCHANGED <<phase, stage, rail, selected>>
        /\ controls' = Focusables(v) /\ opening' = FALSE
        /\ scroll' = ScrollFor(v)
        /\ at' = IF at > Len(controls') THEN LargerOf(Len(controls'), 1) ELSE at
        /\ focus' = IF controls' = <<>> THEN "doors" ELSE focus
    BY DEF TakeRender, Arrives, Show, Refresh, nodeVars, railVars
  <1>2. v \in Sendable \cup {Fallback, Blank} /\ v \in Seq(ToSet(v))
    <2>1. view' \in Sendable \cup {Fallback, Blank}
      BY DEF WireInv, Genuine
    <2> QED BY <2>1, ViewsAreSequences
  <1> HIDE DEF v
  <1>3. controls' \in Seq(ToSet(controls')) /\ Len(controls') \in Nat
    BY <1>1, <1>2, ControlsAreOffered
  <1>4. at \in Nat
    BY DEF TypeInv, TypeOK, LargerOf
  <1>5. at' \in 0..LargerOf(Len(controls'), 1)
    BY <1>1, <1>3, <1>4 DEF LargerOf
  <1>6. scroll' \in 0..LargerOf(Lines(v) - Height, 0)
    <2>1. MaxScroll(v) \in Nat /\ MaxScroll(v) = LargerOf(Lines(v) - Height, 0)
      BY <1>2, LinesNatural
    <2>2. scroll \in Nat
      BY DEF TypeInv, TypeOK
    <2>3. scroll' \in {0, MaxScroll(v), SmallerOf(scroll, MaxScroll(v))}
      BY <1>1 DEF ScrollFor
    <2>4. SmallerOf(scroll, MaxScroll(v)) \in 0..MaxScroll(v)
      BY <2>1, <2>2 DEF SmallerOf
    <2> QED BY <2>1, <2>3, <2>4
  <1> QED BY <1>1, <1>3, <1>5, <1>6 DEF Places, TypeInv, TypeOK, v

LEMMA ListPlaces ==
    ASSUME TypeInv, TakeDoorList
    PROVE  Places'
  <1> DEFINE listed == Visible(Head(inbox).doors)
  <1>1. /\ phase = "screen" /\ Head(inbox) \in Mail /\ Head(inbox).type = "door_list"
        /\ UNCHANGED <<phase, stage, view, controls, focus, at, scroll, opening>>
        /\ rail' = listed /\ selected' = Reselect(listed)
    <2>1. inbox \in Seq(Mail) /\ inbox # <<>>
      BY DEF TakeDoorList, Arrives, TypeInv, WireInv, Genuine
    <2>2. Head(inbox) \in Mail
      BY <2>1
    <2> QED BY <2>2 DEF TakeDoorList, Arrives, nodeVars, screenVars, looks
  <1>2. listed \in Seq(Doors \ Hidden)
    <2>1. Head(inbox).doors \in Seq(Doors)
      BY <1>1, ListsInMail
    <2> QED BY <2>1, VisibleDoors
  <1> HIDE DEF listed
  <1>3. selected' \in 1..LargerOf(Len(rail'), 1)
    <2>1. CASE rail = <<>>
      <3>1. selected' = 1
        BY <1>1, <2>1 DEF Reselect, TypeInv, TypeOK, LargerOf
      <3>2. Len(listed) \in Nat
        BY <1>2
      <3> QED BY <1>1, <3>1, <3>2 DEF LargerOf
    <2>2. CASE rail # <<>>
      BY <1>1, <1>2, <2>2, PreferredInside DEF Reselect
    <2> QED BY <2>1, <2>2
  <1> QED BY <1>1, <1>2, <1>3 DEF Places, TypeInv, TypeOK

LEMMA KeyPlaces == ASSUME TypeInv, Pressed PROVE Places'
  <1>1. /\ phase = "screen" /\ UNCHANGED <<phase, stage, rail, view, controls>>
    BY DEF Pressed, Move, SwitchFocus, ToggleFull, Escape, Scroll, Type, Erase, Submit, NextControl,
           Activate, PressKey, OpenDoor, Keyed, nodeVars, screenVars, railVars
  <1>2. selected' \in 1..LargerOf(Len(rail), 1)
    <2>1. Len(rail) \in Nat /\ selected \in 1..LargerOf(Len(rail), 1)
      BY DEF TypeInv, TypeOK
    <2>2. rail # <<>> => Len(rail) > 0
      BY DEF TypeInv, TypeOK
    <2>3. \/ selected' = selected
          \/ rail # <<>> /\ selected' \in {SmallerOf(selected + 1, Len(rail)), LargerOf(selected - 1, 1)}
      BY DEF Pressed, Move, SwitchFocus, ToggleFull, Escape, Scroll, Type, Erase, Submit,
             NextControl, Activate, PressKey, OpenDoor, railVars
    <2> QED BY <2>1, <2>2, <2>3 DEF SmallerOf, LargerOf
  <1>3. at' \in 0..LargerOf(Len(controls), 1)
    <2>1. at \in 0..LargerOf(Len(controls), 1) /\ Len(controls) \in Nat
      BY DEF TypeInv, TypeOK
    <2>2. at' \in {at, 0} \/ \E forward, around \in BOOLEAN : at' = MovedFocus(forward, around)
      BY DEF Pressed, Move, SwitchFocus, ToggleFull, Escape, Scroll, Type, Erase, Submit,
             NextControl, Activate, PressKey, OpenDoor, looks
    <2>3. 0 \in 0..LargerOf(Len(controls), 1)
      BY <2>1 DEF LargerOf
    <2> QED BY <2>1, <2>2, <2>3, FocusMovesInside
  <1>4. scroll' \in 0..LargerOf(Lines(view) - Height, 0)
    <2>1. scroll' = scroll \/ scroll' \in 0..MaxScroll(view)
      BY DEF Pressed, Move, SwitchFocus, ToggleFull, Escape, Scroll, Type, Erase, Submit,
             NextControl, Activate, PressKey, OpenDoor, looks
    <2> QED BY <2>1 DEF TypeInv, TypeOK, MaxScroll
  <1>5. focus' \in {"doors", "remote"} /\ opening' \in BOOLEAN
    BY DEF Pressed, Move, SwitchFocus, ToggleFull, Escape, Scroll, Type, Erase, Submit,
           NextControl, Activate, PressKey, OpenDoor, looks, TypeInv, TypeOK
  <1> QED BY <1>1, <1>2, <1>3, <1>4, <1>5 DEF Places, TypeInv, TypeOK

LEMMA NextPlaces ==
    ASSUME TypeInv, WireInv', [Next]_vars
    PROVE  Places'
  <1>1. CASE Node
    <2>1. /\ UNCHANGED <<phase, rail, selected, focus, controls, at, scroll, view, opening>>
          /\ stage' \in {"greeting", "listed", "up"}
      BY <1>1 DEF Node, Greet, Announce, FallBack, Draw, Refuse, Notice, Push, tuiVars, screenVars,
                  railVars, looks, nodeVars, TypeInv, TypeOK
    <2> QED BY <2>1 DEF Places, TypeInv, TypeOK
  <1>2. CASE TakeNotify \/ TakeError
    <2>1. /\ UNCHANGED <<phase, stage, rail, selected, focus, controls, at, scroll, view>>
          /\ opening' \in BOOLEAN
      BY <1>2 DEF TakeNotify, TakeError, Arrives, screenVars, railVars, looks, nodeVars, TypeInv,
                  TypeOK
    <2> QED BY <2>1 DEF Places, TypeInv, TypeOK
  <1>3. CASE Overrun \/ Leave \/ Written \/ UNCHANGED vars
    <2>1. /\ UNCHANGED <<stage, rail, selected, focus, controls, at, scroll, view, opening>>
          /\ phase' \in {phase, "off"}
      BY <1>3 DEF Overrun, Leave, Written, Quit, vars, nodeVars, tuiVars, screenVars, railVars, looks
    <2> QED BY <2>1 DEF Places, TypeInv, TypeOK
  <1>4. CASE Pressed
    BY <1>4, KeyPlaces
  <1>5. CASE Open
    BY <1>5, OpenPlaces
  <1>6. CASE TakeRender
    BY <1>6, RenderPlaces
  <1>7. CASE TakeDoorList
    BY <1>7, ListPlaces
  <1> QED BY <1>1, <1>2, <1>3, <1>4, <1>5, <1>6, <1>7 DEF Next, Messages

\* The selected door, the focused control and the top line are always inside what
\* there is now, however lists and views change under them (tuiModel's indices
\* into doors, focusables and lines).
THEOREM PlacesStayInside == Spec => []TypeOK
  <1>1. Init => TypeInv
    <2> SUFFICES ASSUME Init PROVE TypeInv
      OBVIOUS
    <2>1. WireInv /\ DraftInv
      BY InitWire DEF Init, DraftInv, DraftsKept, Draft
    <2>2. Blank \in Seq(ToSet(Blank)) /\ view = Blank
      BY ViewsAreSequences DEF Init
    <2>3. LargerOf(Lines(view) - Height, 0) \in Nat
      BY <2>2, LinesNatural
    <2>4. Places
      <3>1. controls = <<>> /\ controls \in Seq(ToSet(controls)) /\ Len(controls) = 0
        BY DEF Init
      <3>2. rail \in Seq(Doors \ Hidden) /\ Len(rail) = 0
        BY DEF Init
      <3>3. scroll \in 0..LargerOf(Lines(view) - Height, 0)
        BY <2>3 DEF Init
      <3>4. LargerOf(0, 1) = 1
        BY DEF LargerOf
      <3>5. selected \in 1..LargerOf(Len(rail), 1) /\ at \in 0..LargerOf(Len(controls), 1)
        BY <3>1, <3>2, <3>4 DEF Init
      <3>6. /\ phase \in {"reading", "screen", "off"} /\ stage \in {"greeting", "listed", "up"}
            /\ focus \in {"doors", "remote"} /\ opening \in BOOLEAN
            /\ phase = "reading" => at = 1 /\ scroll = 0
        BY DEF Init
      <3> QED BY <3>1, <3>2, <3>3, <3>5, <3>6 DEF Places
    <2> QED BY <2>1, <2>4, PlacesSuffice
  <1>2. TypeInv /\ [Next]_vars => TypeInv'
    <2> SUFFICES ASSUME TypeInv, [Next]_vars PROVE TypeInv'
      OBVIOUS
    <2>1. WireInv' /\ DraftInv'
      BY NextWire, NextDrafts DEF TypeInv
    <2>2. Places'
      BY <2>1, NextPlaces
    <2>3. /\ views' \in Seq(Sendable \cup {Fallback}) /\ rev' \in 0..Len(views')
          /\ view' \in Sendable \cup {Fallback, Blank}
      BY <2>1 DEF WireInv, Genuine
    <2>4. view' \in RawViews \cup {Fallback, Blank}
      BY <2>3, ViewsAreSequences
    <2>5. owed' \in [Names -> Nat]
      BY <2>1 DEF DraftInv
    <2> QED BY <2>1, <2>2, <2>3, <2>4, <2>5 DEF Places, TypeInv, TypeOK
  <1>3. TypeInv => TypeOK
    BY DEF TypeInv
  <1> QED BY <1>1, <1>2, <1>3, PTL DEF Spec
=============================================================================
