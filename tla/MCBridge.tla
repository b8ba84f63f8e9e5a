------------------------------ MODULE MCBridge ------------------------------
(***************************************************************************)
(* The services of a bridge node for model checking.  They share no state  *)
(* beyond what their modules say, so a behaviour exercises one of them,    *)
(* the one `service' names, and TLC visits the union of their states.      *)
(***************************************************************************)
EXTENDS BridgeRouting, Relay, Ingress

CONSTANTS n1, a1, a2, a3

MCAccessSubnets == <<n1>>
MCPeerPair == {<<a1, a2>>, <<a2, a3>>}

VARIABLE service

vars == <<service, routingVars, relayVars, ingressVars>>

Init ==
    /\ service \in {"routes", "users", "tunnels", "relay", "sessions", "proxy", "rules", "restarts"}
    /\ RoutingInit /\ RelayInit /\ IngressInit

\* Updates of the access routes on their own, then user access and site-to-site
\* next to a bridge that is set up and torn down.
RoutingStep ==
    /\ service \in {"routes", "users", "tunnels"}
    /\ RoutingNext
    /\ service # "tunnels" => siteVars' = siteVars /\ cycle'.of # "tunnels"
    /\ service # "users" => accessVars' = accessVars /\ cycle'.of # "users"
    /\ service # "routes" => IF bridge' = bridge THEN activeRoutes' = activeRoutes
                             ELSE faults' = faults
    /\ UNCHANGED <<relayVars, ingressVars, service>>

\* The relay with its packets, and its sessions with the reconcile handler.
RelayStep ==
    /\ service \in {"relay", "sessions"}
    /\ RelayNext
    /\ service = "relay" => relayCycle'.n = 0
    /\ service = "sessions" => packet'.at = "gone" \/ packet' = NoPacket
    /\ UNCHANGED <<routingVars, ingressVars, service>>

\* Proxied connections of a rule; the reconcile handler among events; and the
\* reconcile handler after events, which hands a port from one rule to another.
IngressStep ==
    /\ service \in {"proxy", "rules", "restarts"}
    /\ IngressNext
    /\ service = "proxy" => ruleCycle'.n = 0 /\ rulesAdded' <= 1
    /\ service # "proxy" => connCount' = 0 /\ listenFails' = 0
    /\ service = "rules" => rulesAdded' <= 2
    /\ service = "restarts" =>
         /\ ingress => ingress'
         /\ ruleCycle.n = 0 => rulesAdded' <= 2 /\ remover' = remover
         /\ ruleCycle.n = 1 /\ ~ruleCycle.on => activeRules' = activeRules
         /\ ruleCycle'.on => ruleCycle'.clean
    /\ UNCHANGED <<routingVars, relayVars, service>>

Next == RoutingStep \/ RelayStep \/ IngressStep

Spec == Init /\ [][Next]_vars /\ RelayFairness /\ IngressFairness

=============================================================================
