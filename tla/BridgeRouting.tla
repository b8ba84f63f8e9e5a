--------------------------- MODULE BridgeRouting ---------------------------
(***************************************************************************)
(* Bridge mode: the access routes (internal/bridge/manager.go), the user   *)
(* access interface (user_access.go) and the site-to-site tunnels          *)
(* (site_to_site.go), three managers that change one kernel through one    *)
(* route controller (route_linux.go).                                      *)
(*                                                                         *)
(* An operation makes its kernel calls one after the other under its       *)
(* manager's lock.  It is one step here, and the environment chooses which *)
(* of its additions (A) and which of its removals (R) fail.  The managers  *)
(* touch different kernel objects except for the forwarding switch of an   *)
(* interface they share.                                                   *)
(*                                                                         *)
(* The WireGuard controllers of user access and site-to-site are           *)
(* interfaces without an implementation in the repository; their calls     *)
(* create or remove what they name, or fail.  Subnets of different users   *)
(* of the kernel are disjoint and tunnels have interfaces of their own.    *)
(***************************************************************************)
EXTENDS Naturals, FiniteSets, Sequences

CONSTANTS
    AccessSubnets,             \* Config.AccessSubnets, a sequence
    OtherSubnet,               \* subnets an update may bring
    NatEnabled,                \* Config.natEnabled()
    UserKey, MaxAccessPeers,   \* user access peers and their limit
    TunnelID, MaxTunnels,      \* site-to-site tunnels and their limit
    RemoteSubnet,              \* subnets behind tunnels
    MaxFaults,                 \* bound: kernel calls that fail
    MaxCycles                  \* bound: reconciliation cycles

Elems(s) == {s[j] : j \in DOMAIN s}

ASSUME BridgeAssumption ==
    /\ AccessSubnets \in Seq(Elems(AccessSubnets))
    /\ NatEnabled \in BOOLEAN
    /\ \A n \in {MaxAccessPeers, MaxTunnels, MaxFaults, MaxCycles} : n \in Nat
    /\ TunnelID \intersect {"mesh", "access", "users"} = {}

\* A tunnel's configuration is the sequence of its remote subnets; Down is none.
Down == <<>>
TunnelConfig == {<<s>> : s \in RemoteSubnet}

\* Kernel objects.  A tunnel's ID stands for its interface too.
Switch(i) == <<"forwarding", i>>
Link(i) == <<"link", i>>
Peer(p, i) == <<"peer", p, i>>
Route(s, i) == <<"route", s, i>>
Masquerade == <<"nat", "access">>
OnLink(i, objects) == {o \in objects : o[Len(o)] = i}

VARIABLES
    kernel,        \* the objects of the kernel
    leftovers,     \* objects that failed calls left in it
    faults,        \* number of calls that have failed
    bridge,        \* Manager: setup called, active, natConfigured
    activeRoutes,  \* Manager.activeRoutes
    access,        \* UserAccessManager.active
    activePeers,   \* UserAccessManager.activePeers
    siteToSite,    \* SiteToSiteManager.active
    activeTunnels, \* SiteToSiteManager.activeTunnels: ID -> config, or Down
    cycle          \* the reconcile handler at work, its stale view and its plan

managerVars == <<bridge, activeRoutes>>
accessVars == <<access, activePeers>>
siteVars == <<siteToSite, activeTunnels>>
routingVars == <<kernel, leftovers, faults, managerVars, accessVars, siteVars, cycle>>

NoCycle(n) == [of |-> "none", n |-> n]

RoutingInit ==
    /\ kernel = {} /\ leftovers = {} /\ faults = 0
    /\ bridge = [called |-> FALSE, active |-> FALSE, nat |-> FALSE]
    /\ activeRoutes = {}
    /\ access = FALSE /\ activePeers = {}
    /\ siteToSite = FALSE /\ activeTunnels = [t \in TunnelID |-> Down]
    /\ cycle = NoCycle(0)

----------------------------------------------------------------------------
(* Kernel calls *)

\* What a sequence of additions makes before the first one in A stops it.
Made(want, A) == {want[j] : j \in {l \in DOMAIN want : \A h \in 1..l : want[h] \notin A}}

Forwarding(a, b) == <<Switch(a), Switch(b)>>
Routes(subnets, i) == [j \in DOMAIN subnets |-> Route(subnets[j], i)]

\* DisableForwarding(a, b) writes the second switch only when the first
\* write succeeded.
StopsAt(R, a, b) == IF Switch(a) \in R THEN R \union {Switch(b)} ELSE R

\* Removing the objects D, but for those in R.  A link takes what is on it along.
Without(k, D, R) ==
    LET gone == D \ R
    IN  (k \ gone) \ UNION {OnLink(i, k) : i \in {o[2] : o \in {g \in gone : g[1] = "link"}}}

\* What failed removals leave: the objects, and what is on a link among them.
Left(k, R) == R \union UNION {OnLink(i, k) : i \in {o[2] : o \in {g \in R : g[1] = "link"}}}

\* A step whose additions A and removals R fail.
Fails(A, R) ==
    /\ faults + Cardinality(A) + Cardinality(R) <= MaxFaults
    /\ faults' = faults + Cardinality(A) + Cardinality(R)

\* The additions that may fail, at most one since the first failure ends them,
\* and the removals that may fail.
FailOne(S) == {{}} \union {{o} : o \in {x \in S : faults < MaxFaults}}
FailSome(S) == IF faults = MaxFaults THEN {{}} ELSE SUBSET S

StillThere(objects) == (leftovers \union objects) \intersect kernel'

\* A reconcile handler goes on with what it has left to remove and to add.
Goes(remove, add, clean) ==
    [of |-> cycle.of, n |-> cycle.n, want |-> cycle.want, remove |-> remove, add |-> add,
     clean |-> cycle.clean /\ clean]

\* Any other operation: the cycle under way no longer runs undisturbed.
Disturb == cycle' = IF cycle.of = "none" THEN cycle ELSE Goes(cycle.remove, cycle.add, FALSE)

----------------------------------------------------------------------------
(* Manager: access routes *)

\* Mutant: the roll-back leaves the forwarding switches on.
RollbackRoutesOnly(made) == {o \in made : o[1] = "route"}

\* What Setup undoes: an error of EnableForwarding returns at once.
rollbackSetup(made) ==
    IF {Switch("mesh"), Switch("access")} \subseteq made THEN made ELSE {}

Setup ==
    LET want == Forwarding("mesh", "access") \o Routes(AccessSubnets, "access")
                    \o IF NatEnabled THEN <<Masquerade>> ELSE <<>>
    IN  \E A \in FailOne(Elems(want)) :
          LET made == Made(want, A)
              undo == IF A = {} THEN {} ELSE rollbackSetup(made)
          IN \E R \in FailSome(undo) :
              /\ ~bridge.called
              /\ Fails(A, R)
              /\ kernel' = Without(kernel \union made, undo, StopsAt(R, "mesh", "access"))
              /\ leftovers' = StillThere(Left(kernel', StopsAt(R, "mesh", "access"))
                     \union IF A = {} \/ Switch("access") \in made THEN {} ELSE made)
              /\ bridge' = [called |-> TRUE, active |-> A = {}, nat |-> A = {} /\ NatEnabled]
              /\ activeRoutes' = IF A = {} THEN Elems(AccessSubnets) ELSE {}
              /\ Disturb
              /\ UNCHANGED <<accessVars, siteVars>>

Teardown ==
    LET tracked == {Route(s, "access") : s \in activeRoutes}
                       \union (IF bridge.nat THEN {Masquerade} ELSE {})
                       \union {Switch("mesh"), Switch("access")}
    IN  \E R \in FailSome(tracked) :
          /\ bridge.active
          /\ Fails({}, R)
          /\ kernel' = Without(kernel, tracked, StopsAt(R, "mesh", "access"))
          /\ leftovers' = StillThere(StopsAt(R, "mesh", "access"))
          /\ bridge' = [bridge EXCEPT !.active = FALSE, !.nat = FALSE]
          /\ activeRoutes' = {}
          /\ Disturb
          /\ UNCHANGED <<accessVars, siteVars>>

\* Routes whose removal fails stay tracked; those that cannot be added are not.
KeptRoutes(subnets, A, R) == (activeRoutes \intersect (subnets \union R)) \union (subnets \ A)

\* UpdateRoutes, called by the routes' ReconcileHandler with the desired subnets.
UpdateRoutes(subnets) ==
    \E A \in SUBSET (subnets \ activeRoutes), R \in SUBSET (activeRoutes \ subnets) :
        /\ bridge.called
        /\ Fails(A, R)
        /\ kernel' = Without(kernel, {Route(s, "access") : s \in activeRoutes \ subnets},
                             {Route(s, "access") : s \in R})
                         \union {Route(s, "access") : s \in (subnets \ activeRoutes) \ A}
        /\ activeRoutes' = KeptRoutes(subnets, A, R)
        /\ leftovers' = StillThere({})
        /\ Disturb
        /\ UNCHANGED <<bridge, accessVars, siteVars>>

----------------------------------------------------------------------------
(* UserAccessManager *)

UserAccessSetup ==
    LET want == <<Link("users")>> \o Forwarding("users", "access")
    IN  \E A \in FailOne(Elems(want)) :
          LET made == Made(want, A)
              undo == IF A = {} THEN {} ELSE made \intersect {Link("users")}
          IN \E R \in FailSome(undo) :
              /\ ~access /\ Link("users") \notin kernel
              /\ Fails(A, R)
              /\ kernel' = Without(kernel \union made, undo, R)
              /\ leftovers' = StillThere(Left(kernel', R))
              /\ access' = (A = {})
              /\ Disturb
              /\ UNCHANGED <<managerVars, activePeers, siteVars>>

UserAccessTeardown ==
    LET tracked == {Peer(p, "users") : p \in activePeers}
                       \union {Switch("users"), Switch("access"), Link("users")}
    IN  \E R \in FailSome(tracked) :
          /\ access
          /\ Fails({}, R)
          /\ kernel' = Without(kernel, tracked, StopsAt(R, "users", "access"))
          /\ leftovers' = StillThere(StopsAt(R, "users", "access"))
          /\ access' = FALSE /\ activePeers' = {}
          /\ Disturb
          /\ UNCHANGED <<managerVars, siteVars>>

CanAddPeer(p) == p \notin activePeers /\ Cardinality(activePeers) < MaxAccessPeers

\* AddPeer.  ConfigurePeer needs the interface; the manager need not be active.
AddPeer(p) ==
    \E A \in FailOne({Peer(p, "users")}) :
        LET ok == CanAddPeer(p) /\ Link("users") \in kernel /\ A = {}
        IN  /\ Fails(A, {})
            /\ kernel' = IF ok THEN kernel \union {Peer(p, "users")} ELSE kernel
            /\ activePeers' = IF ok THEN activePeers \union {p} ELSE activePeers
            /\ UNCHANGED <<leftovers, access, managerVars, siteVars>>

\* RemovePeer keeps a peer whose removal failed.
RemovePeer(p) ==
    \E R \in FailSome({Peer(p, "users") : q \in activePeers \intersect {p}}) :
        /\ Fails({}, R)
        /\ kernel' = IF p \in activePeers THEN Without(kernel, {Peer(p, "users")}, R) ELSE kernel
        /\ leftovers' = StillThere({})
        /\ activePeers' = IF R = {} THEN activePeers \ {p} ELSE activePeers
        /\ UNCHANGED <<access, managerVars, siteVars>>

----------------------------------------------------------------------------
(* SiteToSiteManager *)

SiteSetup ==
    /\ ~siteToSite /\ siteToSite' = TRUE
    /\ Disturb
    /\ UNCHANGED <<kernel, leftovers, faults, managerVars, accessVars, activeTunnels>>

Up == {t \in TunnelID : activeTunnels[t] # Down}
ObjectsOf(t, config) ==
    {Route(s, t) : s \in Elems(config)} \union {Switch(t), Switch("mesh"), Peer(t, t), Link(t)}

\* What AddTunnel undoes: all it made.  A switch is only written back once both
\* were on; the interface takes its own along in any case.
rollbackTunnel(t, made) == IF Switch("mesh") \in made THEN made ELSE made \ {Switch(t)}

AddTunnel(t, config) ==
    LET want == <<Link(t), Peer(t, t)>> \o Forwarding(t, "mesh") \o Routes(config, t)
        refused == ~siteToSite \/ activeTunnels[t] # Down \/ Cardinality(Up) >= MaxTunnels
    IN  /\ \/ refused /\ UNCHANGED <<kernel, leftovers, faults, activeTunnels>>
           \/ \E A \in FailOne(Elems(want)) :
                LET made == Made(want, A)
                    undo == IF A = {} THEN {} ELSE rollbackTunnel(t, made)
                IN \E R \in FailSome(undo) :
                    /\ ~refused
                    /\ Fails(A, R)
                    /\ kernel' = Without(kernel \union made, undo, StopsAt(R, t, "mesh"))
                    /\ leftovers' = StillThere(Left(kernel', StopsAt(R, t, "mesh")))
                    /\ activeTunnels' = [activeTunnels EXCEPT ![t] = IF A = {} THEN config ELSE Down]
        /\ UNCHANGED <<siteToSite, managerVars, accessVars>>

RemoveTunnel(t) ==
    LET tracked == IF siteToSite /\ t \in Up THEN ObjectsOf(t, activeTunnels[t]) ELSE {}
    IN  \E R \in FailSome(tracked) :
          /\ Fails({}, R)
          /\ kernel' = Without(kernel, tracked, StopsAt(R, t, "mesh"))
          /\ leftovers' = StillThere(StopsAt(R, t, "mesh"))
          /\ activeTunnels' = IF siteToSite THEN [activeTunnels EXCEPT ![t] = Down] ELSE activeTunnels
          /\ UNCHANGED <<siteToSite, managerVars, accessVars>>

SiteTeardown ==
    LET tracked == UNION {ObjectsOf(t, activeTunnels[t]) \ {Peer(t, t)} : t \in Up}
        stuck(R) == R \union IF Up # {} /\ \A t \in Up : Switch(t) \in R
                             THEN {Switch("mesh")} ELSE {}
    IN  \E R \in FailSome(tracked) :
          /\ siteToSite
          /\ Fails({}, R)
          /\ kernel' = Without(kernel, tracked, stuck(R))
          /\ leftovers' = StillThere(Left(kernel', stuck(R)))
          /\ siteToSite' = FALSE /\ activeTunnels' = [t \in TunnelID |-> Down]
          /\ Disturb
          /\ UNCHANGED <<managerVars, accessVars>>

----------------------------------------------------------------------------
(* Callers: event handlers, and the reconcile handlers, which list what is  *)
(* active, remove what is stale and then add what is missing, call by call. *)

\* HandleUserAccessPeerAssigned and HandleUserAccessPeerRevoked.
PeerEvent == Disturb /\ \E p \in UserKey : AddPeer(p) \/ RemovePeer(p)

\* HandleSiteToSiteTunnelAssigned and HandleSiteToSiteTunnelRevoked.
TunnelEvent ==
    Disturb /\ \E t \in TunnelID : RemoveTunnel(t) \/ \E config \in TunnelConfig : AddTunnel(t, config)

Plan(of, want, remove, add) ==
    /\ cycle.of = "none" /\ cycle.n < MaxCycles
    /\ cycle' = [of |-> of, n |-> cycle.n + 1, want |-> want,
                 remove |-> remove, add |-> add, clean |-> TRUE]
    /\ UNCHANGED <<kernel, leftovers, faults, managerVars, accessVars, siteVars>>

Visited(x, clean) == Goes(cycle.remove \ {x}, cycle.add, clean)
Added(x, clean) == Goes(cycle.remove, cycle.add \ {x}, clean)

\* UserAccessReconcileHandler.
PlanPeers == \E want \in SUBSET UserKey : Plan("users", want, activePeers \ want, want \ activePeers)

CyclePeers ==
    /\ cycle.of = "users"
    /\ \/ \E p \in cycle.remove : RemovePeer(p) /\ cycle' = Visited(p, p \notin activePeers')
       \/ \E p \in cycle.add :
            cycle.remove = {} /\ AddPeer(p) /\ cycle' = Added(p, p \in activePeers')

\* SiteToSiteReconcileHandler: all active tunnels are visited; one that is stale
\* or has another configuration is removed, and in the latter case added again.
PlanTunnels ==
    \E want \in [TunnelID -> TunnelConfig \union {Down}] :
        Plan("tunnels", want, Up, {t \in TunnelID : want[t] # Down} \ Up)

\* Mutant: a tunnel whose configuration changed is left as it is.
RestartStaleOnly(t) == activeTunnels[t] # Down /\ cycle.want[t] = Down

Restart(t) == activeTunnels[t] \notin {Down, cycle.want[t]}

CycleTunnels ==
    /\ cycle.of = "tunnels"
    /\ \/ \E t \in cycle.remove :
            IF Restart(t)
            THEN /\ RemoveTunnel(t)
                 /\ cycle' = Goes(cycle.remove \ {t},
                                  IF cycle.want[t] = Down THEN cycle.add ELSE cycle.add \union {t},
                                  TRUE)
            ELSE /\ cycle' = Visited(t, TRUE)
                 /\ UNCHANGED <<kernel, leftovers, faults, managerVars, accessVars, siteVars>>
       \/ \E t \in cycle.add :
            /\ cycle.remove = {}
            /\ AddTunnel(t, cycle.want[t])
            /\ cycle' = Added(t, activeTunnels'[t] = cycle.want[t])

CycleEnds ==
    /\ cycle.of # "none" /\ cycle.remove = {} /\ cycle.add = {}
    /\ cycle' = NoCycle(cycle.n)
    /\ UNCHANGED <<kernel, leftovers, faults, managerVars, accessVars, siteVars>>

RoutingNext ==
    \/ Setup \/ Teardown
    \/ \E subnets \in SUBSET (Elems(AccessSubnets) \union OtherSubnet) : UpdateRoutes(subnets)
    \/ UserAccessSetup \/ UserAccessTeardown \/ PeerEvent \/ PlanPeers \/ CyclePeers
    \/ SiteSetup \/ SiteTeardown \/ TunnelEvent \/ PlanTunnels \/ CycleTunnels
    \/ CycleEnds

RoutingSpec == RoutingInit /\ [][RoutingNext]_routingVars

----------------------------------------------------------------------------
(* Properties *)

Tracked ==
    {Route(s, "access") : s \in activeRoutes}
        \union (IF bridge.nat THEN {Masquerade} ELSE {})
        \union (IF bridge.active THEN {Switch("mesh"), Switch("access")} ELSE {})
        \union (IF access THEN {Link("users"), Switch("users"), Switch("access")} ELSE {})
        \union {Peer(p, "users") : p \in activePeers}
        \union UNION {ObjectsOf(t, activeTunnels[t]) : t \in Up}

\* Whatever sequence of set-ups, assignments, revocations, updates, roll-backs and
\* teardowns the three managers go through, and whichever kernel calls fail,
\* each route, masquerade rule, interface, peer and forwarding switch in the
\* kernel is tracked by the manager that will remove it, or is there only
\* because a call to the kernel failed.
NothingLeaks == kernel \subseteq Tracked \union leftovers

\* A manager does not track what the kernel lost: the routes, interfaces, peers
\* and rules it holds are there.  An addition skipped because the manager
\* believes the object is in place could never be made up for.  (Forwarding
\* switches are not among them, see ForwardingKept.)
TrackedIsInstalled == {o \in Tracked : o[1] # "forwarding"} \subseteq kernel

\* A reconcile handler that ran without an error and without a concurrent
\* operation leaves exactly the desired peers, or the desired tunnels with the
\* desired configuration, active: a tunnel that changed is restarted.
CycleExact ==
    cycle.of # "none" /\ cycle.remove = {} /\ cycle.add = {} /\ cycle.clean =>
        IF cycle.of = "users" THEN activePeers = cycle.want
        ELSE siteToSite => activeTunnels = cycle.want

\* The limits on user access peers and tunnels hold.
LimitsHold == Cardinality(activePeers) <= MaxAccessPeers /\ Cardinality(Up) <= MaxTunnels

\* The managers' books and the kernel agree, both ways, within the limits.
KernelAgrees == NothingLeaks /\ TrackedIsInstalled /\ LimitsHold

\* What EnableForwarding set up for an active bridge, user access interface or
\* tunnel stays on until that one is torn down.
ForwardingKept ==
    /\ bridge.active => {Switch("mesh"), Switch("access")} \subseteq kernel
    /\ access => {Switch("users"), Switch("access")} \subseteq kernel
    /\ \A t \in Up : {Switch(t), Switch("mesh")} \subseteq kernel
=============================================================================
