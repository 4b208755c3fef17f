-------------------------- MODULE PolicyContract --------------------------
(***************************************************************************)
(* What an administrator expects of the station policy: each batch of      *)
(* admin operations takes effect at one moment, as a whole, on the policy  *)
(* that all batches before it have left; a batch with a malformed          *)
(* operation has no effect.                                                *)
(***************************************************************************)
EXTENDS Naturals, Sequences

CONSTANTS
    Start,          \* the policy of the station when it starts
    Batches,        \* what administrators may ask for
    None,           \* the subject a malformed operation lacks
    Edit(_, _)      \* the effect of one operation on a policy

VARIABLE policy

WellFormed(b) == \A i \in DOMAIN b : b[i].on # None

\* The policy that batch b makes of p.
After(p, b) ==
    LET result[i \in 0..Len(b)] == IF i = 0 THEN p ELSE Edit(result[i - 1], b[i])
    IN  result[Len(b)]

Init == policy = Start

Apply(b) == WellFormed(b) /\ policy' = After(policy, b)

Next == \E b \in Batches : Apply(b)

Spec == Init /\ [][Next]_policy

=============================================================================
