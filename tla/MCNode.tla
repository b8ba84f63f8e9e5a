------------------------------- MODULE MCNode -------------------------------
(***************************************************************************)
(* The node's local services for model checking.  They share no state, so  *)
(* a behaviour exercises one of them, the one `service' names, and TLC     *)
(* visits the union of their states and not the product.                   *)
(***************************************************************************)
EXTENDS NodeApi, NodeState, CrdController, NatExchange, Integrity

VARIABLE service

vars == <<service, nodeApiVars, nodeStateVars, crdVars, natVars, integrityVars>>

Init ==
    /\ service \in {"reports", "state", "crd", "nat", "integrity"}
    /\ NodeApiInit /\ NodeStateInit /\ CrdInit /\ NatInit /\ IntegrityInit
    /\ service # "nat" => kind = "none"

Reports ==
    /\ service = "reports" /\ NodeApiNext
    /\ UNCHANGED <<service, nodeStateVars, crdVars, natVars, integrityVars>>

State ==
    /\ service = "state" /\ NodeStateNext
    /\ UNCHANGED <<service, nodeApiVars, crdVars, natVars, integrityVars>>

Crd ==
    /\ service = "crd" /\ CrdNext
    /\ UNCHANGED <<service, nodeApiVars, nodeStateVars, natVars, integrityVars>>

Exchange ==
    /\ service = "nat" /\ NatNext
    /\ UNCHANGED <<service, nodeApiVars, nodeStateVars, crdVars, integrityVars>>

Verification ==
    /\ service = "integrity" /\ IntegrityNext
    /\ UNCHANGED <<service, nodeApiVars, nodeStateVars, crdVars, natVars>>

Next == Reports \/ State \/ Crd \/ Exchange \/ Verification

\* The fairness of the services' own modules, of the chosen service: actions
\* that are enabled in the initial state are due only where they are taken.
Fairness ==
    /\ NodeApiFairness
    /\ WF_nodeStateVars(service = "state" /\ HandleEvent)
    /\ WF_nodeStateVars(service = "state" /\ EventWrite)
    /\ WF_nodeStateVars(service = "state" /\ CycleStep)
    /\ WF_natVars(service = "nat" /\ BindFirst) /\ WF_natVars(service = "nat" /\ BindSecond)
    /\ WF_natVars(service = "nat" /\ ReportEndpoint) /\ WF_natVars(service = "nat" /\ ApplyEndpoints)
    /\ WF_natVars(service = "nat" /\ RefreshTick)
    /\ WF_natVars(service = "nat" /\ PeerEndpointChanged)
    /\ WF_integrityVars(service = "integrity" /\ VerifyStep)

Spec == Init /\ [][Next]_vars /\ Fairness

----------------------------------------------------------------------------
\* No change a report keeps is forgotten by requests and syncer, and every one is
\* sent in the end.
ReportsLive == service = "reports" => []ReportsAccounted /\ ReportsReach

\* Event handlers and reconcile cycles write the node API's state cache in any
\* order, and it settles on the control plane's state and has it whenever
\* nothing is under way.
StateLive == service = "state" => []RestAgrees /\ StateSettles

\* Discovery, reports and peer_endpoint_changed events settle on the endpoints
\* there are once the network is at rest.
ExchangeLive == service = "nat" => EndpointsSettle

\* VerifyBinary never trades the stored baseline for the binary it finds, and a
\* binary that keeps differing from it is reported.
VerificationLive == BaselineKept /\ (service = "integrity" => MismatchReported)
=============================================================================
