--------------------------- MODULE MCStationStore --------------------------
(* Two handlers of members and one of staff on one door, with hooks that    *)
(* write the room they share.                                               *)
EXTENDS StationStore

CONSTANTS h1, h2, u1, u2, a, b

TwoCells == {u1, u2, "room", "global"}
OneKey == {"k"}
ShortLists == UNION {[1..n -> {a, b}] : n \in 0..1}
Sessions == (h1 :> u1) @@ (h2 :> u2)

\* u1 is a door of the old kind that changes its table; u2 uses the helpers.
TwoScripts ==
    (h1 :> {<<"mutate", "user">>, <<"append", "room">>, <<"set", "global">>})
 @@ (h2 :> {<<"set", "user">>, <<"delete", "user">>, <<"clear", "room">>, <<"set", "global">>})
Filled == {<<b>>}

OldRows == (u1 :> [k \in OneKey |-> <<a>>]) @@ (u2 :> [k \in OneKey |-> <<>>])
CallsOf == (h1 :> 2) @@ (h2 :> 1)
EventSizes == (h1 :> 1) @@ (h2 :> 3)

\* One hook of each user at a time, with scripts of one style.
ASSUME CarefulScripts == OneHookEach /\ OneStyle
=============================================================================
