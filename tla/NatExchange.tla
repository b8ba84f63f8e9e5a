---------------------------- MODULE NatExchange ----------------------------
(***************************************************************************)
(* Endpoint discovery and exchange (internal/nat/discoverer.go,            *)
(* internal/nat/reporter.go, internal/peerexchange/exchanger.go): STUN     *)
(* requests to the servers in turn, classification of the NAT, a report to *)
(* the control plane, and the peers' endpoints in its answer applied to    *)
(* the WireGuard device, which peer_endpoint_changed events change too.    *)
(*                                                                         *)
(* What a NAT does is external: it keeps the local port, maps it to one    *)
(* port for all servers, or to one per server.  The node may move between  *)
(* any two requests.  One peer stands for all.                             *)
(***************************************************************************)
EXTENDS Naturals

CONSTANTS
    Servers,     \* number of STUN servers
    MaxMoves,    \* bound: moves of the node, and of the peer
    MaxNatFails  \* bound: requests that fail

ASSUME NatAssumption == Servers \in Nat /\ Servers >= 2 /\ MaxMoves \in Nat /\ MaxNatFails \in Nat

VARIABLES
    site, kind,  \* where the node is, and behind which kind of NAT
    natFails,
    disc,        \* the Run goroutine: where it is, server, first binding, result
    lastResult,  \* Discoverer.lastResult
    known,       \* what the control plane was told of this node
    peerAt,      \* where the peer is
    told,        \* the peer's moves delivered as events
    wgEndpoint   \* the peer's endpoint on the device

natVars == <<site, kind, natFails, disc, lastResult, known, peerAt, told, wgEndpoint>>
peerVars == <<peerAt, told, wgEndpoint>>

NatKind == {"none", "full_cone", "symmetric"}
NoResult == [endpoint |-> <<>>, type |-> "none yet"]

\* The port a server sees: 0 is the local one, Servers + 1 one for all servers.
LocalPort == 0
MappedPort(s) ==
    CASE kind = "none" -> LocalPort [] kind = "full_cone" -> Servers + 1 [] kind = "symmetric" -> s
Mapped(s) == <<site, MappedPort(s)>>

NatInit ==
    /\ site = 0 /\ kind \in NatKind /\ natFails = 0
    /\ disc = [at |-> "first", server |-> 1, initial |-> TRUE]
    /\ lastResult = NoResult /\ known = NoResult
    /\ peerAt = 0 /\ told = 0 /\ wgEndpoint = 0

NatFails == natFails < MaxNatFails /\ natFails' = natFails + 1

----------------------------------------------------------------------------
(* Discover *)

\* Mutant: an error of a refresh ends the loop like one of the first discovery.
StopOnError == "stopped"

\* All servers failed: Run returns after the first discovery, else waits on.
AfterError == IF disc.initial THEN "stopped" ELSE "wait"

Class(a, b) == IF a = b THEN "full_cone" ELSE "symmetric"

\* updateLastResult and the return of Discover.
Discovered(endpoint, type) ==
    /\ lastResult' = [endpoint |-> endpoint, type |-> type]
    /\ disc' = [at |-> "report", result |-> [endpoint |-> endpoint, type |-> type]]

\* The first server that answers gives the endpoint; an unchanged port means
\* that there is no NAT.
BindFirst ==
    /\ disc.at = "first"
    /\ \/ /\ UNCHANGED natFails
          /\ IF MappedPort(disc.server) = LocalPort
             THEN Discovered(Mapped(disc.server), "none")
             ELSE /\ disc' = [at |-> "second", server |-> disc.server + 1,
                              first |-> Mapped(disc.server)]
                  /\ UNCHANGED lastResult
       \/ /\ NatFails
          /\ disc' = IF disc.server = Servers THEN [at |-> AfterError]
                     ELSE [disc EXCEPT !.server = @ + 1]
          /\ UNCHANGED lastResult
    /\ UNCHANGED <<site, kind, known, peerVars>>

\* The next one that answers classifies it; without one it stays unknown.
BindSecond ==
    /\ disc.at = "second"
    /\ IF disc.server > Servers THEN Discovered(disc.first, "unknown") /\ UNCHANGED natFails
       ELSE \/ /\ Discovered(disc.first, Class(disc.first, Mapped(disc.server)))
               /\ UNCHANGED natFails
            \/ /\ NatFails /\ disc' = [disc EXCEPT !.server = @ + 1]
               /\ UNCHANGED lastResult
    /\ UNCHANGED <<site, kind, known, peerVars>>

----------------------------------------------------------------------------
(* Run *)

\* reportAndApply: the answer has the peers' endpoints as of its writing.
ReportEndpoint ==
    /\ disc.at = "report"
    /\ \/ /\ known' = disc.result /\ disc' = [at |-> "apply", endpoint |-> peerAt]
          /\ UNCHANGED natFails
       \/ NatFails /\ disc' = [at |-> "wait"] /\ UNCHANGED known
    /\ UNCHANGED <<site, kind, lastResult, peerVars>>

ApplyEndpoints ==
    /\ disc.at = "apply" /\ disc' = [at |-> "wait"]
    /\ wgEndpoint' = disc.endpoint
    /\ UNCHANGED <<site, kind, natFails, lastResult, known, peerAt, told>>

RefreshTick ==
    /\ disc.at = "wait" /\ disc' = [at |-> "first", server |-> 1, initial |-> FALSE]
    /\ UNCHANGED <<site, kind, natFails, lastResult, known, peerVars>>

----------------------------------------------------------------------------
(* The network: the node moves, the peer moves, its moves arrive in order *)

MoveNode ==
    /\ site < MaxMoves /\ site' = site + 1 /\ kind' \in NatKind
    /\ UNCHANGED <<natFails, disc, lastResult, known, peerVars>>

MovePeer ==
    /\ peerAt < MaxMoves /\ peerAt' = peerAt + 1
    /\ UNCHANGED <<site, kind, natFails, disc, lastResult, known, told, wgEndpoint>>

\* HandlePeerEndpointChanged.
PeerEndpointChanged ==
    /\ told < peerAt /\ told' = told + 1 /\ wgEndpoint' = told + 1
    /\ UNCHANGED <<site, kind, natFails, disc, lastResult, known, peerAt>>

NatNext ==
    \/ BindFirst \/ BindSecond \/ ReportEndpoint \/ ApplyEndpoints \/ RefreshTick
    \/ MoveNode \/ MovePeer \/ PeerEndpointChanged

\* The goroutine goes on, the ticker ticks and events arrive.
NatFairness ==
    /\ WF_natVars(BindFirst) /\ WF_natVars(BindSecond) /\ WF_natVars(ReportEndpoint)
    /\ WF_natVars(ApplyEndpoints) /\ WF_natVars(RefreshTick) /\ WF_natVars(PeerEndpointChanged)

NatSpec == NatInit /\ [][NatNext]_natVars /\ NatFairness

----------------------------------------------------------------------------
\* When the network has come to rest, the control plane knows the endpoint the
\* first server sees and the kind of NAT there is, and the device has the
\* peer's last endpoint: answers older than an event, bindings from before and
\* after a move, and lost requests are made good by later refreshes.  The
\* exception is a first discovery that fails, after which Run has returned.
EndpointsSettle ==
    \/ <>[](disc.at = "stopped" /\ lastResult = NoResult)
    \/ <>[](known = [endpoint |-> Mapped(1), type |-> kind] /\ wgEndpoint = peerAt)
=============================================================================
