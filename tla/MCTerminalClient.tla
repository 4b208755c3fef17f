-------------------------- MODULE MCTerminalClient --------------------------
(***************************************************************************)
(* Instances of TerminalClient.                                            *)
(***************************************************************************)
EXTENDS TerminalClient

CONSTANTS name, note, padded, unseen, go, lobby, chat, vault

\* The client trims ids and actions and drops what cannot be printed.
Trim(n) == IF n = padded THEN note ELSE IF n = unseen THEN NoName ELSE n

Node1(depth, kind, id, actions) ==
    [depth |-> depth, kind |-> kind, id |-> id, actions |-> actions,
     bottom |-> FALSE, capture |-> FALSE]

Screen1(bottom, capture) ==
    [Node1(0, "screen", NoName, <<>>) EXCEPT !.bottom = bottom, !.capture = capture]

\* A chat: its input has the id of another one once it is trimmed, and nothing
\* is left of the id of its list.
Chat == <<Screen1(FALSE, FALSE), Node1(1, "dynamic_list", unseen, <<go, name>>),
          [Node1(1, "input", padded, <<>>) EXCEPT !.bottom = TRUE]>>

\* A game that takes keys and is read from its end, with a menu in a panel, as
\* deep as a view may be, and an input: one line more than the screen has.
Game == <<Screen1(TRUE, TRUE), Node1(1, "panel", NoName, <<>>),
          Node1(2, "menu", note, <<name, go>>), Node1(1, "input", name, <<>>)>>

\* Views that the node refuses.
TooDeep == <<Screen1(FALSE, FALSE), Node1(1, "panel", NoName, <<>>),
             Node1(2, "panel", NoName, <<>>), Node1(3, "text", NoName, <<>>)>>
TooWide == <<Screen1(FALSE, FALSE), Node1(1, "text", NoName, <<>>),
             Node1(1, "text", NoName, <<>>), Node1(1, "text", NoName, <<>>)>>
Nameless == <<Screen1(FALSE, FALSE), Node1(1, "button", NoName, <<go>>)>>

InputNames == {name, note}
Drawn == {Chat, Game, TooDeep, TooWide, Nameless}
Plain == <<Screen1(FALSE, FALSE), Node1(1, "button", go, <<go>>)>>
Lists1 == {<<lobby, vault, chat>>, <<vault>>}

=============================================================================
