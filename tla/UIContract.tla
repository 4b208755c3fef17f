----------------------------- MODULE UIContract -----------------------------
(***************************************************************************)
(* The JSON UI on both ends of the wire: what the node lets a door show    *)
(* (ValidateRuntimeResponse and ValidateUINode, internal/protocol/         *)
(* ui_contract.go) and what the client makes of it (sanitizeRemoteNode and *)
(* renderComponent, internal/client/render.go).                            *)
(*                                                                         *)
(* A view is the sequence of its nodes in tree order, each with its depth, *)
(* so that the children of a node are the deeper nodes that follow it.     *)
(* Text, colours, grids and widths are left out: a node keeps its kind,    *)
(* its id, the actions it offers and the flags that change behaviour.      *)
(* Every node takes one line of the screen.                                *)
(***************************************************************************)
EXTENDS Naturals, FiniteSets, SequencesExt

CONSTANTS
    MaxUINodeDepth,
    MaxUIChildren,
    MaxUIItems,
    NoName,        \* the empty id or action
    Clean(_)       \* sanitizeChromeText on ids and actions

ASSUME ContractAssumption ==
    /\ MaxUINodeDepth \in Nat /\ MaxUIChildren \in Nat
    /\ MaxUIItems \in Nat \ {0}

Containers == {"screen", "panel", "log"}
Lists == {"menu", "list", "dynamic_list"}
TextInputs == {"input", "textarea"}
Buttons == {"button", "checkbox"}
Interactive == Lists \cup TextInputs \cup Buttons
Known == Containers \cup Interactive \cup {"text", "grid"}
Named == Interactive \cup {"log", "grid"}

-----------------------------------------------------------------------------
Parent(view, i) ==
    CHOOSE j \in 1..(i - 1) :
        /\ view[j].depth + 1 = view[i].depth
        /\ \A k \in (j + 1)..(i - 1) : view[k].depth >= view[i].depth

\* What the JSON of a component tree is, written this way: every node but the
\* first is inside another, and a component has one action, a list one per item.
IsTree(view) ==
    /\ view # <<>> /\ view \in Seq(ToSet(view))
    /\ \A i \in DOMAIN view :
        /\ view[i].depth \in Nat
        /\ view[i].actions \in Seq(ToSet(view[i].actions))
        /\ view[i].kind \notin Lists => Len(view[i].actions) <= 1
    /\ \A i \in DOMAIN view \ {1} :
        \E j \in 1..(i - 1) :
            /\ view[j].depth + 1 = view[i].depth
            /\ \A k \in (j + 1)..(i - 1) : view[k].depth >= view[i].depth

\* The place of a node among its siblings.
Place(view, i) ==
    Cardinality({k \in (Parent(view, i) + 1)..i : view[k].depth = view[i].depth})

-----------------------------------------------------------------------------
\* validateNoLeafFields and the checks of one component.
ValidNode(node) ==
    /\ node.kind \in Known
    /\ node.depth < MaxUINodeDepth
    /\ (node.id # NoName) <=> (node.kind \in Named)
    /\ node.actions # <<>> => node.kind \in Lists \cup Buttons
    /\ node.kind \in Lists => Len(node.actions) <= MaxUIItems
    /\ node.capture => node.kind = "screen"
    /\ node.bottom => node.kind \in {"screen"} \cup TextInputs

ValidChild(view, i) ==
    /\ view[Parent(view, i)].kind \in Containers
    /\ Place(view, i) <= MaxUIChildren

\* ValidateRuntimeResponse, for the view.
Validated(view) ==
    /\ view[1].kind = "screen"
    /\ \A i \in DOMAIN view : ValidNode(view[i])
    /\ \A i \in DOMAIN view \ {1} : ValidChild(view, i)

-----------------------------------------------------------------------------
\* Mutant of Replaced: the client counts depth from one.
ReplacedEarly(node) ==
    \/ node.depth + 1 >= MaxUINodeDepth
    \/ node.kind \notin Known

\* sanitizeRemoteNode: a node too deep or unknown becomes a line of text.
Replaced(node) ==
    \/ node.depth >= MaxUINodeDepth
    \/ node.kind \notin Known

\* Which nodes survive: those of a surviving container, up to the limit.
Survives(view) ==
    LET survives[i \in DOMAIN view] ==
            \/ i = 1
            \/ /\ survives[Parent(view, i)]
               /\ view[Parent(view, i)].kind \in Containers
               /\ ~Replaced(view[Parent(view, i)])
               /\ Place(view, i) <= MaxUIChildren
    IN  survives

\* sanitizeRemoteItems: one more item says that some were left out.
ShownActions(actions) ==
    IF Len(actions) <= MaxUIItems
    THEN [k \in DOMAIN actions |-> Clean(actions[k])]
    ELSE Append([k \in 1..MaxUIItems |-> Clean(actions[k])], NoName)

\* A node that survived, as the client has it, and the line it is on.
Shown(view, i) ==
    [line    |-> Cardinality({k \in 1..i : Survives(view)[k]}),
     kind    |-> IF Replaced(view[i]) THEN "text" ELSE view[i].kind,
     id      |-> Clean(view[i].id),
     actions |-> ShownActions(view[i].actions),
     bottom  |-> view[i].bottom]

\* renderDynamicList: one button for each item.
ButtonsOf(node) ==
    [k \in 1..(IF Len(node.actions) < MaxUIItems THEN Len(node.actions) ELSE MaxUIItems) |->
        [node EXCEPT !.kind = "button", !.actions = <<node.actions[k]>>]]

\* addFocusable gives a control that has no id one made of its number.
WithName(control, k) ==
    IF control.id = NoName THEN [control EXCEPT !.id = <<"_remote_", k - 1>>] ELSE control

\* renderComponent: what of a node can have the focus.
ControlsOf(node) ==
    CASE node.kind = "dynamic_list" -> ButtonsOf(node)
      [] node.kind \in Interactive \ {"dynamic_list"} -> <<node>>
      [] node.kind \notin Interactive -> <<>>

\* RenderComponents: what can have the focus, in tree order.
Focusables(view) ==
    LET found == FlattenSeq([i \in DOMAIN view |->
                    IF Survives(view)[i] THEN ControlsOf(Shown(view, i)) ELSE <<>>])
    IN  [k \in DOMAIN found |-> WithName(found[k], k)]

\* renderedLineCount.
Lines(view) == LET survives == Survives(view) IN Cardinality({i \in DOMAIN view : survives[i]})

=============================================================================
