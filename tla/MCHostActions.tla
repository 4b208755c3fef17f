--------------------------- MODULE MCHostActions ---------------------------
(* Three daemons that are started, killed and cancelled in any order, and a    *)
(* request; one of the rule files that may be found is accepted.            *)
EXTENDS HostActions

CONSTANTS d1, d2, d3, chat, lobby, star, restart

Rule(doors, copy) == [id |-> restart, doors |-> doors, copy |-> copy]
RuleFiles == {{Rule({chat}, 0)}, {Rule({star}, 0)}, {Rule({chat}, 0), Rule({chat}, 1)}}
=============================================================================
