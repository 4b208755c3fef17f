------------------------- MODULE MCRenderDelivery -------------------------
\* One session that moves between two doors, and other sessions that post to
\* them.  The views of both have a button of the same name, and every other one
\* takes keys.
EXTENDS RenderDelivery, TLC

CONSTANTS chat, game, button, keys

\* Other sessions are interchangeable.
Symmetry == Permutations(Peers)

\* What the view of a version of a door offers.
TakesTurns(view) == IF view.version % 2 = 0 THEN {button, keys} ELSE {button}

===========================================================================
