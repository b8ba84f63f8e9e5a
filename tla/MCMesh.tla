------------------------------ MODULE MCMesh ------------------------------
(* Instances of Mesh for TLC. *)
EXTENDS Mesh

WireGuardOnly == <<"wireguard">>
PolicyOnly == <<"policy">>

\* One key per peer, two endpoints.
Moving == [key : {1}, endpoint : {1, 2}]
Fixed == [key : {1}, endpoint : {1}]

\* The loop alone; with SSE handlers beside it that get every event; and with
\* events lost and calls failing while peers only join.
Surroundings == {{"leaving", "changing"}, {"events", "changing"},
                 {"events", "lost events", "failing"}}
\* Everything may change, with rules rewritten or calls failing.
Changes == {{"leaving", "changing"}, {"leaving", "changing", "rewriting"},
            {"leaving", "changing", "failing"}}
EventsAndLeaving == {{"events", "leaving"}}

CONSTANTS p1, p2
Rule(p, a) == [src |-> Local, dst |-> p, action |-> a]
NoRules == {{}}
\* The rules of a policy may change under the same policy ID.
TwoRuleSets == {{Rule(p1, "allow")}, {Rule(AnyNode, "allow"), Rule(p1, "deny")}}
\* Where they do not change, every rule set has a policy.
FixedRules == CHOOSE f \in [PolicyID -> Rules] :
                  PolicyID # {} => \A rs \in Rules : \E q \in PolicyID : f[q] = rs
=============================================================================
