------------------------------- MODULE Mesh -------------------------------
(***************************************************************************)
(* The WireGuard peers of a node: the reconcile loop with the WireGuard    *)
(* and policy handlers registered in it, and the SSE handlers that change  *)
(* the same peers from another goroutine (internal/wireguard/manager.go,   *)
(* handler.go, index.go; internal/policy/engine.go, enforcer.go,           *)
(* handler.go).                                                            *)
(*                                                                         *)
(* Each goroutine works through a list of Manager calls.  A call takes the *)
(* steps of the code: look up the index, call the controller, update the   *)
(* index; no lock is held from one step to the next.                       *)
(***************************************************************************)
EXTENDS Reconciler, FiniteSets, Functions

CONSTANTS
    Local,      \* the local node's ID in policy rules
    AnyNode,    \* the wildcard "*" in policy rules
    RulesOf,    \* the rules of each policy, where they are not rewritten
    Environments \* the surroundings the node may find itself in

\* What goes on around the node: the control plane also sends SSE events
\* about peers; events sent while the stream is down are lost; peers leave;
\* peers change; the rules of a policy are rewritten under its ID; calls to
\* the kernel fail.
Circumstance == {"events", "lost events", "leaving", "changing", "rewriting", "failing"}

ASSUME EnvironmentsAssumption == Environments \subseteq SUBSET Circumstance
ASSUME RulesAssumption == RulesOf \in [PolicyID -> Rules]
ASSUME NodesAssumption == {Local, AnyNode} \cap PeerID = {}

VARIABLES
    env,       \* the circumstances of this behaviour
    device,    \* the kernel's peers: public key -> endpoint
    index,     \* PeerIndex: peer ID -> public key
    allowed,   \* the policy handler's closure variable allowedPeers
    firewall,  \* the policies the packet filter was last built from
    call,      \* per goroutine: the Manager calls still to make
    events     \* SSE events on their way

mesh == <<env, device, index, allowed, firewall, call, events>>
meshVars == <<vars, mesh>>

Goroutine == {"reconcile", "sse"}

\* PeerCfg is a set of records [key, endpoint]; peers never share a key.
PublicKey(id, cfg) == <<id, cfg.key>>

Put(f, k, v) == [j \in DOMAIN f \cup {k} |-> IF j = k THEN v ELSE f[j]]
Drop(f, k) == [j \in DOMAIN f \ {k} |-> f[j]]

\* A Manager call; cfg is unused by RemovePeerByID.
Call(kind, id, cfg) == [kind |-> kind, id |-> id, cfg |-> cfg]
NoCfg == CHOOSE c \in PeerCfg : TRUE
RemoveCalls(ids) == {Call("RemovePeerByID", id, NoCfg) : id \in ids}
PutCalls(kind, peers) == {Call(kind, id, peers[id]) : id \in DOMAIN peers}

\* The orders in which the calls of a set can be made: each of them once.
Orders(S) == UNION {Bijection(1 .. n, S) : n \in 0 .. Cardinality(S)}

Idle == [todo |-> <<>>, stage |-> "start", key |-> <<>>, failed |-> FALSE, busy |-> FALSE]

MeshInit ==
    /\ Init
    /\ env \in Environments
    /\ device = NoEntries
    /\ index = NoEntries
    /\ allowed = {}
    /\ firewall = NoEntries
    /\ call = [g \in Goroutine |-> Idle]
    /\ events = <<>>

----------------------------------------------------------------------------
(* manager.go *)

Current(g) == Head(call[g].todo)

\* The current call of g returned; an error is remembered.
Returned(g, ok) ==
    [call[g] EXCEPT !.todo = Tail(@), !.stage = "start", !.key = <<>>,
                    !.failed = @ \/ ~ ok]

\* RemovePeerByID: an ID that is not in the index is an error.
LookUp(g) ==
    /\ call[g].todo # <<>>
    /\ Current(g).kind = "RemovePeerByID"
    /\ call[g].stage = "start"
    /\ call' = [call EXCEPT ![g] =
                   IF Current(g).id \in DOMAIN index
                   THEN [@ EXCEPT !.stage = "controller", !.key = index[Current(g).id]]
                   ELSE Returned(g, FALSE)]
    /\ UNCHANGED <<vars, env, device, index, allowed, firewall, events>>

\* The controller removes a peer; an unknown key is not an error.
ControllerRemove(g) ==
    /\ call[g].todo # <<>>
    /\ Current(g).kind = "RemovePeerByID"
    /\ call[g].stage = "controller"
    /\ device' = Drop(device, call[g].key)
    /\ call' = [call EXCEPT ![g].stage = "index"]
    /\ UNCHANGED <<vars, env, index, allowed, firewall, events>>

\* AddPeer and UpdatePeer: the controller inserts or overwrites by public key.
ControllerPut(g) ==
    /\ call[g].todo # <<>>
    /\ Current(g).kind \in {"AddPeer", "UpdatePeer"}
    /\ call[g].stage = "start"
    /\ LET c == Current(g) IN
       /\ device' = Put(device, PublicKey(c.id, c.cfg), c.cfg.endpoint)
       /\ call' = [call EXCEPT ![g].stage = "index", ![g].key = PublicKey(c.id, c.cfg)]
    /\ UNCHANGED <<vars, env, index, allowed, firewall, events>>

\* A call to the kernel fails, within the bound.
CallFails ==
    /\ "failing" \in env
    /\ faults < MaxFaults
    /\ faults' = faults + 1

\* The controller call fails: the Manager returns the error at once.
ControllerFails(g) ==
    /\ call[g].todo # <<>>
    /\ call[g].stage = (IF Current(g).kind = "RemovePeerByID" THEN "controller" ELSE "start")
    /\ CallFails
    /\ call' = [call EXCEPT ![g] = Returned(g, FALSE)]
    /\ UNCHANGED <<cp, pc, cycle, snapshot, trigger, cancelled, changes, owed, acked>>
    /\ UNCHANGED <<env, device, index, allowed, firewall, events>>

\* Mutant: the index is not cleaned after a removal.
IndexKeepsRemoved(g) ==
    /\ call[g].todo # <<>>
    /\ call[g].stage = "index"
    /\ index' = IF Current(g).kind = "RemovePeerByID"
                THEN index
                ELSE Put(index, Current(g).id, call[g].key)
    /\ call' = [call EXCEPT ![g] = Returned(g, TRUE)]
    /\ UNCHANGED <<vars, env, device, allowed, firewall, events>>

\* index.go: Remove, Add and Update.
UpdateIndex(g) ==
    /\ call[g].todo # <<>>
    /\ call[g].stage = "index"
    /\ index' = IF Current(g).kind = "RemovePeerByID"
                THEN Drop(index, Current(g).id)
                ELSE Put(index, Current(g).id, call[g].key)
    /\ call' = [call EXCEPT ![g] = Returned(g, TRUE)]
    /\ UNCHANGED <<vars, env, device, allowed, firewall, events>>

ManagerStep(g) ==
    \/ LookUp(g) \/ ControllerRemove(g) \/ ControllerPut(g)
    \/ ControllerFails(g) \/ UpdateIndex(g)

----------------------------------------------------------------------------
(* engine.go *)

\* peerAllowed: an allow rule names both nodes, in either direction.
PeerAllowed(p, policies) ==
    \E q \in DOMAIN policies : \E r \in policies[q] :
        /\ r.action = "allow"
        /\ \/ r.src \in {Local, AnyNode} /\ r.dst \in {p, AnyNode}
           \/ r.src \in {p, AnyNode} /\ r.dst \in {Local, AnyNode}

FilterPeers(peers, policies) ==
    {p \in DOMAIN peers \ {Local} : PeerAllowed(p, policies)}

----------------------------------------------------------------------------
(* The reconcile handlers. *)

Handler == Handlers[next]
Running == call["reconcile"].busy
Start(todo, failed) ==
    call' = [call EXCEPT !["reconcile"] =
                [Idle EXCEPT !.todo = todo, !.failed = failed, !.busy = TRUE]]

\* wireguard/handler.go: removes, then updates, then adds.
WireGuardHandler ==
    /\ pc = "handlers" /\ Handler = "wireguard" /\ ~ Running
    /\ \E rs \in Orders(RemoveCalls(diff.peersToRemove)),
          us \in Orders(PutCalls("UpdatePeer", diff.peersToUpdate)),
          as \in Orders(PutCalls("AddPeer", diff.peersToAdd)) :
          Start(rs \o us \o as, FALSE)
    /\ UNCHANGED <<vars, env, device, index, allowed, firewall, events>>

\* policy/handler.go: hasPolicyOrPeerChanges.
HasPolicyOrPeerChanges ==
    \/ DOMAIN diff.policiesToAdd # {} \/ diff.policiesToRemove # {}
    \/ DOMAIN diff.peersToAdd # {} \/ diff.peersToRemove # {}
    \/ DOMAIN diff.peersToUpdate # {}

PolicyHandlerSkips ==
    /\ pc = "handlers" /\ Handler = "policy" /\ ~ Running
    /\ ~ HasPolicyOrPeerChanges
    /\ HandlerReturns(TRUE)
    /\ UNCHANGED <<faults, mesh>>

\* policy/handler.go up to the peer changes: the firewall rules are replaced
\* (or that fails), and the peers to remove and to add are known.
PolicyHandler ==
    /\ pc = "handlers" /\ Handler = "policy" /\ ~ Running
    /\ HasPolicyOrPeerChanges
    /\ LET newAllowed == FilterPeers(desired.peers, desired.policies) IN
       \E rs \in Orders(RemoveCalls(allowed \ newAllowed)),
          as \in Orders({Call("AddPeer", p, desired.peers[p]) : p \in newAllowed \ allowed}) :
          \/ /\ firewall' = desired.policies
             /\ Start(rs \o as, FALSE)
             /\ UNCHANGED faults
          \/ /\ CallFails
             /\ Start(rs \o as, TRUE)
             /\ UNCHANGED firewall
    /\ UNCHANGED <<cp, pc, cycle, snapshot, trigger, cancelled, changes, owed, acked>>
    /\ UNCHANGED <<env, device, index, allowed, events>>

\* Mutant: the errors the handler collected are only logged.
HandlerErrorsDropped ==
    /\ Running
    /\ call["reconcile"].todo = <<>>
    /\ HandlerReturns(TRUE)
    /\ allowed' = IF Handler = "policy"
                  THEN FilterPeers(desired.peers, desired.policies)
                  ELSE allowed
    /\ call' = [call EXCEPT !["reconcile"] = Idle]
    /\ UNCHANGED <<faults, env, device, index, firewall, events>>

\* The handler returns the joined errors; the policy handler replaces its
\* allowed set whether or not there were any.
HandlerDone ==
    /\ Running
    /\ call["reconcile"].todo = <<>>
    /\ HandlerReturns(~ call["reconcile"].failed)
    /\ allowed' = IF Handler = "policy"
                  THEN FilterPeers(desired.peers, desired.policies)
                  ELSE allowed
    /\ call' = [call EXCEPT !["reconcile"] = Idle]
    /\ UNCHANGED <<faults, env, device, index, firewall, events>>

----------------------------------------------------------------------------
(* The control plane and the SSE handlers of wireguard/handler.go. *)

Event(type, id, cfg) == [type |-> type, id |-> id, cfg |-> cfg]

Announce(es) == events' = IF "events" \in env THEN events \o es ELSE events

ChangeState(s, es) ==
    /\ changes < MaxChanges
    /\ changes' = changes + 1
    /\ cp' = s
    /\ Announce(es)
    /\ UNCHANGED <<pc, cycle, snapshot, trigger, cancelled, faults, owed, acked>>
    /\ UNCHANGED <<env, device, index, allowed, firewall, call>>

AddOrChangePeer(p, c) ==
    LET old == cp.peers IN
    /\ p \in DOMAIN old => "changing" \in env /\ old[p] # c
    /\ ChangeState([cp EXCEPT !.peers = Put(@, p, c)],
           <<Event(IF p \notin DOMAIN old THEN "peer_added"
                   ELSE IF old[p].key # c.key THEN "peer_key_rotated"
                   ELSE "peer_endpoint_changed", p, c)>>)

DeletePeer(p) ==
    /\ "leaving" \in env
    /\ p \in DOMAIN cp.peers
    /\ ChangeState([cp EXCEPT !.peers = Drop(@, p)], <<Event("peer_removed", p, NoCfg)>>)

ChangePolicy(q, r) ==
    /\ q \in DOMAIN cp.policies => cp.policies[q] # r
    /\ "rewriting" \in env \/ r = RulesOf[q]
    /\ ChangeState([cp EXCEPT !.policies = Put(@, q, r)], <<>>)

DeletePolicy(q) ==
    /\ q \in DOMAIN cp.policies
    /\ ChangeState([cp EXCEPT !.policies = Drop(@, q)], <<>>)

\* Drift that is neither about peers nor about policies.
ChangeMetadata(m) ==
    /\ cp.metadata # m
    /\ ChangeState([cp EXCEPT !.metadata = m], <<>>)

\* The calls each SSE handler makes; peer_key_rotated goes on with the add
\* when the removal fails.
EventCalls(e) ==
    CASE e.type = "peer_added"            -> <<Call("AddPeer", e.id, e.cfg)>>
      [] e.type = "peer_removed"          -> <<Call("RemovePeerByID", e.id, NoCfg)>>
      [] e.type = "peer_key_rotated"      -> <<Call("RemovePeerByID", e.id, NoCfg),
                                               Call("AddPeer", e.id, e.cfg)>>
      [] e.type = "peer_endpoint_changed" -> <<Call("UpdatePeer", e.id, e.cfg)>>

DeliverEvent ==
    /\ events # <<>>
    /\ call["sse"].todo = <<>>
    /\ call' = [call EXCEPT !["sse"] = [Idle EXCEPT !.todo = EventCalls(Head(events))]]
    /\ events' = Tail(events)
    /\ UNCHANGED <<vars, env, device, index, allowed, firewall>>

LoseEvent ==
    /\ "lost events" \in env
    /\ events # <<>>
    /\ events' = Tail(events)
    /\ UNCHANGED <<vars, env, device, index, allowed, firewall, call>>

----------------------------------------------------------------------------
MeshNext ==
    \/ \E p \in PeerID, c \in PeerCfg : AddOrChangePeer(p, c)
    \/ \E p \in PeerID : DeletePeer(p)
    \/ \E q \in PolicyID, r \in Rules : ChangePolicy(q, r)
    \/ \E q \in PolicyID : DeletePolicy(q)
    \/ \E m \in Metadata : ChangeMetadata(m)
    \/ DeliverEvent
    \/ LoseEvent
    \/ (Tick \/ Fetch \/ ReportAndUpdate) /\ UNCHANGED mesh
    \/ FetchFails /\ ~ cancelled /\ UNCHANGED mesh
    \/ WireGuardHandler
    \/ PolicyHandlerSkips
    \/ PolicyHandler
    \/ HandlerDone
    \/ \E g \in Goroutine : ManagerStep(g)

MeshSpec == MeshInit /\ [][MeshNext]_meshVars

\* The loop runs, calls return, and the SSE goroutine handles what arrives.
MeshFairness ==
    /\ WF_meshVars(Tick /\ UNCHANGED mesh)
    /\ WF_meshVars((Fetch \/ FetchFails) /\ UNCHANGED mesh)
    /\ WF_meshVars(ReportAndUpdate /\ UNCHANGED mesh)
    /\ WF_meshVars(WireGuardHandler \/ PolicyHandlerSkips \/ PolicyHandler \/ HandlerDone)
    /\ WF_meshVars(DeliverEvent \/ LoseEvent)
    /\ \A g \in Goroutine : WF_meshVars(ManagerStep(g))

MeshFairSpec == MeshSpec /\ MeshFairness

----------------------------------------------------------------------------
\* The peer tables hold what the control plane can send, and the Manager
\* calls of a reconcile handler are over when invokeHandlers moves on.
MeshTypeOK ==
    /\ TypeOK
    /\ env \in Environments
    /\ device \in Partial(PeerID \X {c.key : c \in PeerCfg}, {c.endpoint : c \in PeerCfg})
    /\ index \in Partial(PeerID, PeerID \X {c.key : c \in PeerCfg})
    /\ allowed \subseteq PeerID
    /\ firewall \in Partial(PolicyID, Rules)
    /\ \A g \in Goroutine : call[g].stage \in {"start", "controller", "index"}
    /\ Running => pc = "handlers"

\* Without SSE handlers the index never names a key the kernel does not have,
\* except between the two steps of a removal: every Manager call changes the
\* device first and the index after it, and stops between them on an error.
IndexOnDevice ==
    \A p \in DOMAIN index :
        \/ index[p] \in DOMAIN device
        \/ /\ call["reconcile"].stage = "index"
           /\ Current("reconcile").kind = "RemovePeerByID"
           /\ Current("reconcile").id = p

\* While no call fails and no SSE handler interferes, between cycles the peers
\* the WireGuard handler installed are the peers of the snapshot, each under
\* its current key and endpoint.
PeersMatchSnapshot ==
    {"events", "failing"} \cap env = {} /\ pc \in {"select", "fetch"} =>
        /\ DOMAIN index = DOMAIN snapshot.peers
        /\ \A p \in DOMAIN index :
              /\ index[p] = PublicKey(p, snapshot.peers[p])
              /\ device[index[p]] = snapshot.peers[p].endpoint

\* With only the policy handler registered, no call failing and rules that keep
\* to their policy ID, between cycles the node has exactly the peers the
\* snapshot's policies allow, and the packet filter was built from those
\* policies, also after cycles in which the handler had nothing to do.
OnlyAllowedPeers ==
    {"failing", "rewriting"} \cap env = {} /\ pc \in {"select", "fetch"} =>
        /\ DOMAIN index = FilterPeers(snapshot.peers, snapshot.policies)
        /\ firewall = snapshot.policies

\* A cycle that ends without an error has rebuilt the packet filter from the
\* policies it fetched: ApplyFirewallRules' error fails the policy handler.
FirewallOfAcceptedState ==
    pc = "report" /\ ~ handlerFailed /\ HasPolicyOrPeerChanges =>
        firewall = desired.policies

\* Peers and packet filter follow the policies: between cycles and when a cycle
\* is accepted, over errors of single calls and rewritten policies.
PolicyEnforced == OnlyAllowedPeers /\ FirewallOfAcceptedState

\* wireguard.md: "The reconcile handler ensures WireGuard state converges to
\* desired state even after missed SSE events". Once the control plane is
\* quiet the kernel comes to have exactly the desired peers, for good.
MeshConverges ==
    <>[](device = [k \in {PublicKey(p, cp.peers[p]) : p \in DOMAIN cp.peers} |->
                      cp.peers[k[1]].endpoint])

\* reconciliation.md: the loop "keeps every node aligned with desired state".
\* With the SSE handlers beside it, the snapshot catches up with the desired
\* state once the control plane is quiet.
CyclesSucceed == <>[](Tracked(cp) = Tracked(snapshot))

=============================================================================
