------------------------ MODULE MCSessionLifecycle ------------------------
(***************************************************************************)
(* Small instances of SessionLifecycle.                                    *)
(***************************************************************************)
EXTENDS SessionLifecycle, TLC

CONSTANTS s1, s2, s3, k1, lobby, chat

\* Three connections of one passport: the third can find two dropped ones.
OneKey == [s \in {s1, s2, s3} |-> k1]

\* Connections of one passport are interchangeable.
Symmetry == Permutations({s1, s2, s3})

\* Two connections of one passport.
Pair == [s \in {s1, s2} |-> k1]
=============================================================================
