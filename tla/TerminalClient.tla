--------------------------- MODULE TerminalClient ---------------------------
(***************************************************************************)
(* The terminal of one client, from its login to its end: tui.go, the last *)
(* part of newConnectCommand, and the messages that the node sends it      *)
(* (handleWS).  How it came to the login is the matter of StationTrust.    *)
(*                                                                         *)
(* Update handles one key or one message at a time.  What it sends is      *)
(* written by a goroutine of its own ("pending").  A draft is the number   *)
(* of characters typed; the screen is Height lines.  Fullscreen is layout: *)
(* what f and esc do to the focus may or may not happen.                   *)
(***************************************************************************)
EXTENDS UIContract, Integers

CONSTANTS
    Doors,
    Hidden,        \* the doors whose visibility is not public
    Lobby,
    Names,         \* ids of inputs, as the client has them
    RawViews,      \* what doors answer with
    Fallback,      \* defaultLobbyView
    DoorLists,     \* what the node sends as a door list
    Height,        \* remoteViewportHeight
    MaxRenderMessagesPerSecond,
    MaxRenders,    \* bound on the renders of a session
    MaxDraft,      \* bound on what is typed
    MaxInbox,      \* bound on the messages on their way
    MaxPending     \* bound on the messages being written

ASSUME ClientAssumption ==
    /\ Lobby \in Doors
    /\ Hidden \subseteq Doors
    /\ \A v \in RawViews \cup {Fallback} : IsTree(v)
    /\ Validated(Fallback)
    /\ DoorLists \subseteq Seq(Doors)
    /\ Height \in Nat

VARIABLES
    phase,       \* the client is "reading" its first messages, on "screen" or "off"
    stage,       \* how far handleWS is: "greeting", "listed" or "up"
    views,       \* the views sent in this session; a revision is an index
    inbox,       \* messages on their way to the client
    pending,     \* messages that goroutines of the client are writing
    view,        \* tuiModel.currentView
    rev,         \* tuiModel.renderRevision
    controls,    \* tuiModel.remoteState.focusables
    rail,        \* tuiModel.doors
    selected,    \* tuiModel.selected, from one
    focus,       \* tuiModel.focus: "doors" or "remote"
    at,          \* tuiModel.focusedRemote, from one; zero is no control
    scroll,      \* tuiModel.remoteScroll
    drafts,      \* tuiModel.inputValues
    opening,     \* tuiModel.openingDoor is set
    burst,       \* tuiModel.renderWindowCount
    owed         \* history: what was typed, less what was erased or submitted

nodeVars == <<stage, views>>
wireVars == <<inbox, pending>>
screenVars == <<view, rev, controls>>
railVars == <<rail, selected>>
draftVars == <<drafts, owed>>
looks == <<focus, at, scroll>>
tuiVars == <<screenVars, railVars, draftVars, looks, opening, burst>>
vars == <<phase, nodeVars, wireVars, tuiVars>>

\* What the node lets through.
Sendable == {v \in RawViews : Validated(v)}

\* A message that is no render, read as one.
Blank == <<[depth |-> 0, kind |-> "", id |-> NoName, actions |-> <<>>,
            bottom |-> FALSE, capture |-> FALSE]>>

SmallerOf(m, n) == IF m < n THEN m ELSE n
LargerOf(m, n) == IF m > n THEN m ELSE n

TypeOK ==
    /\ phase \in {"reading", "screen", "off"}
    /\ stage \in {"greeting", "listed", "up"}
    /\ views \in Seq(Sendable \cup {Fallback})
    /\ view \in RawViews \cup {Fallback, Blank}
    /\ rev \in 0..Len(views)
    /\ rail \in Seq(Doors \ Hidden)
    /\ selected \in 1..LargerOf(Len(rail), 1)
    /\ focus \in {"doors", "remote"}
    /\ at \in 0..LargerOf(Len(controls), 1)
    /\ scroll \in 0..LargerOf(Lines(view) - Height, 0)
    /\ opening \in BOOLEAN
    /\ owed \in [Names -> Nat]

\* authenticate has accepted the login; tuiModel has its first values.
Init ==
    /\ phase = "reading"
    /\ stage = "greeting"
    /\ views = <<>>
    /\ inbox = <<>>
    /\ pending = {}
    /\ view = Blank
    /\ rev = 0
    /\ controls = <<>>
    /\ rail = <<>>
    /\ selected = 1
    /\ focus = "doors"
    /\ at = 1
    /\ scroll = 0
    /\ drafts = <<>>
    /\ opening = FALSE
    /\ burst = 0
    /\ owed = [id \in Names |-> 0]

\* The terminal ends: tea.Quit, or the connection is gone.
Quit ==
    /\ phase' = "off"
    /\ inbox' = <<>>
    /\ pending' = {}
    /\ UNCHANGED <<nodeVars, tuiVars>>

-----------------------------------------------------------------------------
(* The node.                                                               *)

Push(messages) ==
    /\ phase # "off"
    /\ Len(inbox) < MaxInbox
    /\ inbox' = inbox \o messages
    /\ UNCHANGED <<phase, pending, tuiVars>>

DoorList(l) == [type |-> "door_list", doors |-> l]
RenderOf(v) == [type |-> "render", rev |-> Len(views) + 1, view |-> v]
Notify == [type |-> "notify"]
Failure == [type |-> "error"]

\* sendDoorList, first for this session alone.
Greet(l) ==
    /\ stage = "greeting"
    /\ Push(<<DoorList(l)>>)
    /\ stage' = "listed"
    /\ UNCHANGED views

\* openInitialDoor fails: handleWS sends a notice and a lobby of its own.
FallBack ==
    /\ stage = "listed"
    /\ Push(<<Notify, RenderOf(Fallback)>>)
    /\ views' = Append(views, Fallback)
    /\ stage' = "up"

\* A door answers, for this session's first door, its events, or a broadcast.
Draw(v) ==
    /\ stage \in {"listed", "up"}
    /\ Len(views) < MaxRenders
    /\ v \in Sendable
    /\ Push(<<RenderOf(v)>>)
    /\ views' = Append(views, v)
    /\ stage' = "up"

\* The answer to one of the session's own messages is an error.
Refuse ==
    /\ stage = "up"
    /\ Push(<<Failure>>)
    /\ UNCHANGED nodeVars

\* reloadDoorManifests and the policy's changes send every session a list.
Announce(l) ==
    /\ Push(<<DoorList(l)>>)
    /\ UNCHANGED nodeVars

\* A hook of any session notifies all.
Notice ==
    /\ Push(<<Notify>>)
    /\ UNCHANGED nodeVars

-----------------------------------------------------------------------------
(* Messages that arrive.                                                   *)

\* filterVisibleDoors and preferredDoorIndex.
Visible(l) == FlattenSeq([k \in DOMAIN l |-> IF l[k] \in Hidden THEN <<>> ELSE <<l[k]>>])
Preferred(l, d) ==
    IF \E k \in DOMAIN l : l[k] = d
    THEN CHOOSE k \in DOMAIN l : l[k] = d /\ \A j \in 1..(k - 1) : l[j] # d
    ELSE 1

MaxScroll(v) == LargerOf(Lines(v) - Height, 0)

\* newConnectCommand reads the next two messages as a door list and a render,
\* whatever they are, and newTUIModel starts from them.
Open ==
    LET first == inbox[1]
        second == inbox[2]
        shown == IF second.type = "render" THEN second.view ELSE Blank
        listed == IF first.type = "door_list" THEN Visible(first.doors) ELSE <<>>
    IN  /\ Len(inbox) >= 2
        /\ phase = "reading"
        /\ phase' = "screen"
        /\ inbox' = SubSeq(inbox, 3, Len(inbox))
        /\ view' = shown
        /\ rev' = IF second.type = "render" THEN second.rev ELSE 0
        /\ controls' = Focusables(shown)
        /\ rail' = listed
        /\ selected' = Preferred(listed, Lobby)
        /\ UNCHANGED <<nodeVars, pending, draftVars, looks, opening, burst>>

Arrives(type) ==
    /\ phase = "screen"
    /\ inbox # <<>>
    /\ Head(inbox).type = type
    /\ inbox' = Tail(inbox)
    /\ UNCHANGED <<phase, nodeVars, pending>>

\* allowRender: one more in a window of a second, which may just have begun.
Counts == {1, burst + 1}

\* Mutant of Refresh: the controls are those of the view before.
RefreshLate(v) == controls

\* refreshRemoteState.
Refresh(v) == Focusables(v)

\* clampRemoteScroll, and a view that wants to be read from its end.
ScrollFor(v) ==
    LET atBottom == scroll >= MaxScroll(view)
    IN  IF v[1].bottom /\ (opening \/ atBottom)
        THEN MaxScroll(v)
        ELSE IF opening THEN 0 ELSE SmallerOf(scroll, MaxScroll(v))

\* A render within the limit.
Show(message) ==
    LET now == Refresh(message.view)
    IN  /\ view' = message.view
        /\ rev' = message.rev
        /\ controls' = now
        /\ scroll' = ScrollFor(message.view)
        /\ at' = IF at > Len(now) THEN LargerOf(Len(now), 1) ELSE at
        /\ focus' = IF now = <<>> THEN "doors" ELSE focus
        /\ opening' = FALSE
        /\ UNCHANGED <<railVars, draftVars>>

\* Mutant of TakeRender: what comes too fast is dropped.
TakeRenderOrDrop ==
    /\ Arrives("render")
    /\ \E n \in Counts :
        /\ burst' = SmallerOf(n, MaxRenderMessagesPerSecond)
        /\ IF n <= MaxRenderMessagesPerSecond
           THEN Show(Head(inbox))
           ELSE UNCHANGED <<screenVars, railVars, draftVars, looks, opening>>

TakeRender ==
    \E n \in Counts :
        /\ n <= MaxRenderMessagesPerSecond
        /\ Arrives("render")
        /\ Show(Head(inbox))
        /\ burst' = n

TakeNotify ==
    /\ Arrives("notify")
    /\ UNCHANGED <<screenVars, railVars, draftVars, looks, opening, burst>>

\* The node sends more renders in a second, or more notices in a minute, than
\* it may, and the client leaves.  Notices are not counted here: any may be one
\* too many.
Overrun ==
    /\ phase = "screen"
    /\ inbox # <<>>
    /\ \/ Head(inbox).type = "render" /\ burst = MaxRenderMessagesPerSecond
       \/ Head(inbox).type = "notify"
    /\ Quit

\* Mutant of Reselect: the selection is an index, whatever the list is now.
ReselectIndex(l) == selected

\* The door that was selected stays so, if it is still there.
Reselect(l) == IF rail = <<>> THEN selected ELSE Preferred(l, rail[selected])

TakeDoorList ==
    LET listed == Visible(Head(inbox).doors)
    IN  /\ Arrives("door_list")
        /\ rail' = listed
        /\ selected' = Reselect(listed)
        /\ UNCHANGED <<screenVars, draftVars, looks, opening, burst>>

TakeError ==
    /\ Arrives("error")
    /\ opening' = FALSE
    /\ UNCHANGED <<screenVars, railVars, draftVars, looks, burst>>

Messages == Open \/ TakeRender \/ TakeNotify \/ Overrun \/ TakeDoorList \/ TakeError

-----------------------------------------------------------------------------
(* Keys.                                                                   *)

Keyed ==
    /\ phase = "screen"
    /\ UNCHANGED <<phase, nodeVars, inbox, screenVars, burst>>

\* focusedComponent.
HasControl == focus = "remote" /\ at \in DOMAIN controls
Control == controls[at]
InText == HasControl /\ Control.kind \in TextInputs

\* focusedComponentSubmitsOnEnter.
SubmitsOnEnter == HasControl /\ Control.kind = "input" /\ Control.bottom

\* visibleRemoteFocusables.
InSight == {k \in DOMAIN controls : controls[k].line \in (scroll + 1)..(scroll + Height)}
FirstOf(S) == CHOOSE k \in S : \A j \in S : k <= j
LastOf(S) == CHOOSE k \in S : \A j \in S : k >= j

\* moveRemoteFocus, and moveRemoteFocusCycle when around.
MovedFocus(forward, around) ==
    LET later == {k \in InSight : k > at}
        earlier == {k \in InSight : k < at}
    IN  IF InSight = {} THEN at
        ELSE IF at \notin InSight
        THEN IF forward THEN FirstOf(InSight) ELSE LastOf(InSight)
        ELSE IF forward
        THEN IF later # {} THEN FirstOf(later) ELSE IF around THEN FirstOf(InSight) ELSE at
        ELSE IF earlier # {} THEN LastOf(earlier) ELSE IF around THEN LastOf(InSight) ELSE at

\* left and right.
Move(forward) ==
    /\ Keyed
    /\ IF focus = "doors"
       THEN /\ rail # <<>>
            /\ selected' = IF forward THEN SmallerOf(selected + 1, Len(rail))
                                      ELSE LargerOf(selected - 1, 1)
            /\ UNCHANGED at
       ELSE at' = MovedFocus(forward, FALSE) /\ UNCHANGED selected
    /\ UNCHANGED <<pending, rail, draftVars, focus, scroll, opening>>

\* tab and shift+tab; f; esc.
SwitchFocus ==
    /\ Keyed
    /\ focus' = IF focus = "doors" THEN "remote" ELSE "doors"
    /\ UNCHANGED <<pending, railVars, draftVars, at, scroll, opening>>

ToggleFull ==
    /\ Keyed
    /\ ~InText
    /\ focus' = "remote"
    /\ UNCHANGED <<pending, railVars, draftVars, at, scroll, opening>>

Escape ==
    /\ Keyed
    /\ focus' = "doors"
    /\ UNCHANGED <<pending, railVars, draftVars, at, scroll, opening>>

\* Arrows, pages, home and end: scrolling takes the focus off every control.
Scroll(line) ==
    /\ Keyed
    /\ line # scroll
    /\ scroll' = line
    /\ at' = 0
    /\ UNCHANGED <<pending, railVars, draftVars, focus, opening>>

-----------------------------------------------------------------------------
(* Typing and sending.                                                     *)

Draft(id) == IF id \in DOMAIN drafts THEN drafts[id] ELSE 0

\* An input's value is written.
WithDraft(id, n) == [i \in DOMAIN drafts \cup {id} |-> IF i = id THEN n ELSE drafts[i]]

\* appendRemoteInput: a rune, a space, or enter in a textarea.
Type ==
    /\ Keyed
    /\ InText
    /\ Draft(Control.id) < MaxDraft
    /\ drafts' = WithDraft(Control.id, Draft(Control.id) + 1)
    /\ owed' = [owed EXCEPT ![Control.id] = @ + 1]
    /\ UNCHANGED <<pending, railVars, looks, opening>>

\* backspaceRemoteInput.
Erase ==
    /\ Keyed
    /\ InText
    /\ Draft(Control.id) > 0
    /\ drafts' = WithDraft(Control.id, Draft(Control.id) - 1)
    /\ owed' = [owed EXCEPT ![Control.id] = @ - 1]
    /\ UNCHANGED <<pending, railVars, looks, opening>>

Event(kind, target, action, values) ==
    [type |-> "event", rev |-> rev, kind |-> kind, target |-> target,
     action |-> action, values |-> values]

\* remoteEventForFocus.  Nothing ever moves the selection inside a menu or a
\* list: itemSelection stays empty, and the first item is chosen.
Events ==
    CASE Control.kind \in {"menu", "list"} ->
            IF Control.actions = <<>> THEN {}
            ELSE {Event(IF Control.kind = "menu" THEN "action" ELSE "select",
                        Control.id, Control.actions[1], <<>>)}
      [] Control.kind \in Buttons ->
            {Event("action", Control.id,
                   IF Control.actions = <<>> THEN NoName ELSE Control.actions[1], drafts)}
      [] Control.kind \in TextInputs ->
            {Event("submit", Control.id, NoName, [id \in {Control.id} |-> Draft(id)])}

Send(message) ==
    /\ Cardinality(pending) < MaxPending
    /\ pending' = pending \cup {message}

\* Mutant of Without: a submit clears the whole form.
WithoutAny(f, id) == <<>>

Without(f, id) == [i \in DOMAIN f \ {id} |-> f[i]]

\* enter on an input that is docked to the bottom: its draft is dropped before
\* anybody knows whether the event could be written.
Submit ==
    /\ Keyed
    /\ SubmitsOnEnter
    /\ \E e \in Events :
        /\ Send(e)
        /\ owed' = [owed EXCEPT ![e.target] = @ - e.values[e.target]]
    /\ drafts' = Without(drafts, Control.id)
    /\ UNCHANGED <<railVars, looks, opening>>

\* enter on any other input goes to the next control.
NextControl ==
    /\ Keyed
    /\ InText
    /\ Control.kind = "input"
    /\ ~SubmitsOnEnter
    /\ at' = MovedFocus(TRUE, TRUE)
    /\ UNCHANGED <<pending, railVars, draftVars, focus, scroll, opening>>

\* enter or space on a button, a checkbox, a menu or a list.
Activate ==
    /\ Keyed
    /\ HasControl /\ ~InText
    /\ \E e \in Events : Send(e)
    /\ UNCHANGED <<railVars, draftVars, looks, opening>>

\* A key for a door that captures keys.
PressKey ==
    /\ Keyed
    /\ focus = "remote" /\ ~InText
    /\ view[1].capture
    /\ Send(Event("key", NoName, NoName, <<>>))
    /\ UNCHANGED <<railVars, draftVars, looks, opening>>

\* enter or space on the rail: openDoorCmd.
OpenDoor ==
    /\ Keyed
    /\ focus = "doors"
    /\ rail # <<>>
    /\ Send([type |-> "open_door", door |-> rail[selected]])
    /\ opening' = TRUE
    /\ UNCHANGED <<railVars, draftVars, looks>>

Pressed ==
    \/ \E forward \in BOOLEAN : Move(forward)
    \/ SwitchFocus \/ ToggleFull \/ Escape
    \/ \E line \in 0..MaxScroll(view) : Scroll(line)
    \/ Type \/ Erase \/ Submit \/ NextControl \/ Activate \/ PressKey \/ OpenDoor

\* A goroutine's write is done.
Written ==
    /\ phase = "screen"
    /\ \E m \in pending : pending' = pending \ {m}
    /\ UNCHANGED <<phase, nodeVars, inbox, tuiVars>>

\* q or ctrl+c, a connection that closes, a write or a read that fails, a
\* first door list and view that do not come in time.
Leave ==
    /\ phase # "off"
    /\ Quit

Node ==
    \/ \E l \in DoorLists : Greet(l) \/ Announce(l)
    \/ FallBack
    \/ \E v \in RawViews : Draw(v)
    \/ Refuse \/ Notice

Next == Node \/ Messages \/ Pressed \/ Written \/ Leave

Spec == Init /\ [][Next]_vars

-----------------------------------------------------------------------------
\* Every event on its way names a control that the view of the revision it
\* carries really offers, with an action of that control (a control whose id has
\* nothing that can be printed has one of the client's own); a key event comes from
\* a view that captures keys.  The node checks the revision of an event and not
\* its target, so only the client can keep the two together, however renders
\* and keys interleave (remoteEventForFocus, refreshRemoteState).
EventNamesItsView ==
    \A e \in {m \in pending : m.type = "event"} :
        /\ e.rev \in DOMAIN views
        /\ IF e.kind = "key"
           THEN views[e.rev][1].capture
           ELSE \E node \in {views[e.rev][i] : i \in DOMAIN views[e.rev]} :
                    /\ node.kind \in Interactive
                    /\ Clean(node.id) \in {e.target, NoName}
                    /\ e.action \in {NoName} \cup {Clean(node.actions[k]) : k \in DOMAIN node.actions}

\* What was typed into an input is in its draft, until it was erased or went out
\* in a submit event: no render, no change of door and no other event loses it
\* (inputValues of tuiModel).
DraftsKept == \A id \in Names : Draft(id) = owed[id]

\* A view that the node let through is on the screen with all its nodes: the
\* client's limits on depth, children and items never bite on a view that
\* passed the node's (sanitizeRemoteNode against validateUINode).
AcceptedViewsAreWhole ==
    view # Blank =>
        /\ Lines(view) = Len(view)
        /\ \A i \in DOMAIN view : ~Replaced(view[i])
        /\ \A i \in DOMAIN view : Len(ShownActions(view[i].actions)) = Len(view[i].actions)

\* When nothing is on its way, the screen shows the node's last view, also after
\* a start on which the first messages were taken for others (newConnectCommand,
\* readLoop).
ScreenCatchesUp ==
    phase = "screen" /\ inbox = <<>> =>
        /\ rev = Len(views)
        /\ rev > 0 => view = views[rev]

=============================================================================
