----------------------------- MODULE NodeState -----------------------------
(***************************************************************************)
(* The node API's copy of the control plane's state: metadata, data and    *)
(* secret index (internal/nodeapi/cache.go, events.go, server.go).  Two    *)
(* processes write it: the handlers of node_state_updated and              *)
(* node_secrets_updated events, and the reconcile handler, which compares  *)
(* the fetched state with the reconciler's snapshot, not with the cache.   *)
(* The cache is written to files and loaded from them at start.            *)
(*                                                                         *)
(* A part's content is one value, the value None being the empty map or    *)
(* list.  A state event carries metadata and data, a secrets event the     *)
(* index, as they were when it was sent; events arrive in order, and some  *)
(* are lost.  The reconcile cycle is Reconciler's, reduced to its fetch,   *)
(* this handler's calls and the new snapshot.                              *)
(***************************************************************************)
EXTENDS Naturals, Sequences

CONSTANTS
    Content, None, \* a part's content; the empty one
    MaxEdits,      \* bound: changes made in the control plane
    MaxRestarts,   \* bound: restarts of the node
    EventsAreLost  \* whether the event stream loses events

ASSUME NodeStateAssumption ==
    /\ None \in Content
    /\ MaxEdits \in Nat /\ MaxRestarts \in Nat /\ EventsAreLost \in BOOLEAN

Part == {"metadata", "data", "secrets"}
NodeContent == [Part -> Content]
Empty == [p \in Part |-> None]

VARIABLES
    truth,    \* the control plane's state of the node
    stream,   \* events sent and not yet handled: the parts each one carries
    writes,   \* the calls the event handler under way has still to make
    snapshot, \* the reconciler's snapshot
    cycle,    \* the reconcile cycle: its fetched state and the calls still to make
    cache,    \* StateCache: metadata, data, secretIndex
    stateFiles, \* metadata.json, data/, secrets.json
    writer,   \* part -> who wrote the cached value last
    lost,     \* an event has been lost
    edits, restarts

cachedVars == <<cache, stateFiles, writer>>
nodeStateVars == <<truth, stream, writes, snapshot, cycle, cachedVars, lost, edits, restarts>>

NoCycle == [running |-> FALSE, desired |-> Empty, todo |-> {}]

NodeStateInit ==
    /\ truth = Empty
    /\ stream = <<>> /\ writes = <<>>
    /\ snapshot = Empty /\ cycle = NoCycle
    /\ cache = Empty /\ stateFiles = Empty
    /\ writer = [p \in Part |-> "load"]
    /\ lost = FALSE /\ edits = 0 /\ restarts = 0

\* The parts an event about part p carries, in the order the handler writes them.
Carried(p) == IF p = "secrets" THEN <<"secrets">> ELSE <<"metadata", "data">>

\* The control plane changes one part and sends the event (external).
Edit(p, v) ==
    /\ edits < MaxEdits
    /\ v # truth[p]
    /\ edits' = edits + 1
    /\ truth' = [truth EXCEPT ![p] = v]
    /\ stream' = Append(stream, [n \in DOMAIN Carried(p) |->
                     [part |-> Carried(p)[n], content |-> truth'[Carried(p)[n]]]])
    /\ UNCHANGED <<writes, snapshot, cycle, cachedVars, lost, restarts>>

LoseEvent ==
    /\ EventsAreLost
    /\ stream # <<>>
    /\ stream' = Tail(stream)
    /\ lost' = TRUE
    /\ UNCHANGED <<truth, writes, snapshot, cycle, cachedVars, edits, restarts>>

\* UpdateMetadata, UpdateData, UpdateSecretIndex: the cached value is replaced
\* and written; a failed write is only logged.
Update(p, v, who) ==
    /\ cache' = [cache EXCEPT ![p] = v]
    /\ stateFiles' \in {stateFiles, [stateFiles EXCEPT ![p] = v]}
    /\ writer' = [writer EXCEPT ![p] = who]

----------------------------------------------------------------------------
\* An event handler is called, and makes its calls one after the other.
HandleEvent ==
    /\ writes = <<>> /\ stream # <<>>
    /\ writes' = Head(stream)
    /\ stream' = Tail(stream)
    /\ UNCHANGED <<truth, snapshot, cycle, cachedVars, lost, edits, restarts>>

EventWrite ==
    /\ writes # <<>>
    /\ Update(Head(writes).part, Head(writes).content, "event")
    /\ writes' = Tail(writes)
    /\ UNCHANGED <<truth, stream, snapshot, cycle, lost, edits, restarts>>

\* A cycle fetches the state and compares it with the snapshot.
CycleFetch ==
    /\ ~cycle.running
    /\ truth # snapshot
    /\ cycle' = [running |-> TRUE, desired |-> truth,
                 todo |-> {p \in Part : truth[p] # snapshot[p]}]
    /\ UNCHANGED <<truth, stream, writes, snapshot, cachedVars, lost, edits, restarts>>

\* ReconcileHandler: metadata, data, secret index, each only when it changed.
CycleWrite(p) ==
    /\ p \in cycle.todo
    /\ p # "metadata" => "metadata" \notin cycle.todo
    /\ p = "secrets" => "data" \notin cycle.todo
    /\ Update(p, cycle.desired[p], "reconcile")
    /\ cycle' = [cycle EXCEPT !.todo = @ \ {p}]
    /\ UNCHANGED <<truth, stream, writes, snapshot, lost, edits, restarts>>

\* Mutant: the snapshot becomes the state of now, not the one the cycle fetched.
CycleDoneWithLatest ==
    /\ cycle.running /\ cycle.todo = {}
    /\ snapshot' = truth
    /\ cycle' = NoCycle
    /\ UNCHANGED <<truth, stream, writes, cachedVars, lost, edits, restarts>>

CycleDone ==
    /\ cycle.running /\ cycle.todo = {}
    /\ snapshot' = cycle.desired
    /\ cycle' = NoCycle
    /\ UNCHANGED <<truth, stream, writes, cachedVars, lost, edits, restarts>>

\* The node restarts: Load reads the files, the snapshot is empty, and the events
\* under way are not sent again.
NodeRestart ==
    /\ restarts < MaxRestarts
    /\ restarts' = restarts + 1
    /\ cache' = stateFiles
    /\ writer' = [p \in Part |-> "load"]
    /\ snapshot' = Empty /\ cycle' = NoCycle
    /\ stream' = <<>> /\ writes' = <<>>
    /\ UNCHANGED <<truth, stateFiles, lost, edits>>

CycleStep == CycleFetch \/ CycleDone \/ \E p \in Part : CycleWrite(p)

NodeStateNext ==
    \/ \E p \in Part, v \in Content : Edit(p, v)
    \/ LoseEvent \/ HandleEvent \/ EventWrite \/ CycleStep \/ NodeRestart

\* The event stream and the reconcile loop both go on.
NodeStateFairness ==
    /\ WF_nodeStateVars(HandleEvent) /\ WF_nodeStateVars(EventWrite)
    /\ WF_nodeStateVars(CycleStep)

NodeStateSpec == NodeStateInit /\ [][NodeStateNext]_nodeStateVars /\ NodeStateFairness

----------------------------------------------------------------------------
\* Where the cache can stay different from the control plane: a value loaded at
\* start stays where the control plane has none, and a value of a late event
\* stays where the event that would have replaced it was lost.
Uncorrected(p) ==
    \/ writer[p] = "load" /\ truth[p] = None
    \/ writer[p] = "event" /\ lost

\* Whenever nothing is under way, no event, no handler and no cycle, and the
\* snapshot is what the control plane has, every part is too, but for these two
\* cases: whichever of the writers came last wrote the last content.
RestAgrees ==
    stream = <<>> /\ writes = <<>> /\ ~cycle.running /\ snapshot = truth =>
        \A p \in Part : cache[p] = truth[p] \/ Uncorrected(p)

\* With events and cycles writing the same cache in any order, every part is in
\* the end what the control plane has, but for these two cases.
StateSettles == <>[](\A p \in Part : cache[p] = truth[p] \/ Uncorrected(p))

\* "The reconciliation loop compares local state cache (metadata, data, secret
\* index) against the control plane, correcting any drift": in the end the cache
\* is what the control plane has.
DriftCorrected == <>[](cache = truth)
=============================================================================
