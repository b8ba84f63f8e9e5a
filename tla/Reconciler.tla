---------------------------- MODULE Reconciler ----------------------------
(***************************************************************************)
(* The reconcile loop (internal/reconcile/reconciler.go, snapshot.go).     *)
(*                                                                         *)
(* One goroutine runs the cycles: fetch, diff, invoke the handlers one by  *)
(* one, report the drift, update the snapshot.  Other goroutines (the      *)
(* heartbeat, SSE handlers) call TriggerReconcile at any time, and the     *)
(* control plane changes the desired state at any time.  What a handler    *)
(* does to the node is left to the modules that compose this one.          *)
(***************************************************************************)
EXTENDS StateDiff, Sequences

CONSTANTS
    Handlers,    \* the registered handlers, in registration order
    MaxChanges,  \* bound: changes of the desired state
    MaxFaults    \* bound: failed fetches and failed handler calls

ASSUME HandlersAssumption == Handlers \in Seq(STRING)
ASSUME BoundsAssumption == MaxChanges \in Nat /\ MaxFaults \in Nat

VARIABLES
    cp,            \* the desired state held by the control plane
    pc,            \* where the loop is
    desired,       \* local of runCycle: the state FetchState returned
    diff,          \* local of runCycle
    next,          \* local of invokeHandlers: the next handler to call
    handlerFailed, \* local of runCycle: some handler returned an error
    snapshot,      \* stateSnapshot
    trigger,       \* triggerCh (capacity 1) holds a value
    cancelled,     \* ctx is done
    changes, faults,
    owed,          \* history: TriggerReconcile was called since the last fetch
    acked          \* history: for each handler, the states it accepted

cycle == <<desired, diff, next, handlerFailed>>
bounds == <<changes, faults>>
vars == <<cp, pc, cycle, snapshot, trigger, cancelled, bounds, owed, acked>>

HandlerIdx == 1 .. Len(Handlers)

NoDiff == ComputeDiff(EmptyState, EmptyState)

Init ==
    /\ cp = EmptyState
    /\ pc = "fetch"          \* "First cycle runs immediately."
    /\ desired = EmptyState /\ diff = NoDiff /\ next = 1 /\ handlerFailed = FALSE
    /\ snapshot = EmptyState
    /\ trigger = FALSE
    /\ cancelled = FALSE
    /\ changes = 0 /\ faults = 0
    /\ owed = FALSE
    /\ acked = [h \in HandlerIdx |-> {EmptyState}]

----------------------------------------------------------------------------
(* The control plane and the callers of TriggerReconcile. *)

Change(s) ==
    /\ changes < MaxChanges
    /\ s \in Edits(cp) \ {cp}
    /\ cp' = s
    /\ changes' = changes + 1
    /\ UNCHANGED <<pc, cycle, snapshot, trigger, cancelled, faults, owed, acked>>

\* Mutant: a call made while a cycle is running is dropped.
TriggerDroppedWhileBusy ==
    /\ trigger' = (trigger \/ pc = "select")
    /\ owed' = TRUE
    /\ UNCHANGED <<cp, pc, cycle, snapshot, cancelled, bounds, acked>>

\* A send that does not block: a second value is dropped while one is pending.
TriggerReconcile ==
    /\ trigger' = TRUE
    /\ owed' = TRUE
    /\ UNCHANGED <<cp, pc, cycle, snapshot, cancelled, bounds, acked>>

Cancel ==
    /\ ~ cancelled
    /\ cancelled' = TRUE
    /\ UNCHANGED <<cp, pc, cycle, snapshot, trigger, bounds, owed, acked>>

----------------------------------------------------------------------------
(* Run: the select statement. *)

Tick ==
    /\ pc = "select"
    /\ pc' = "fetch"
    /\ UNCHANGED <<cp, cycle, snapshot, trigger, cancelled, bounds, owed, acked>>

TakeTrigger ==
    /\ pc = "select"
    /\ trigger
    /\ trigger' = FALSE
    /\ pc' = "fetch"
    /\ UNCHANGED <<cp, cycle, snapshot, cancelled, bounds, owed, acked>>

Stop ==
    /\ pc = "select"
    /\ cancelled
    /\ pc' = "stopped"
    /\ UNCHANGED <<cp, cycle, snapshot, trigger, cancelled, bounds, owed, acked>>

----------------------------------------------------------------------------
(* runCycle *)

\* Mutant: a done context does not end the fetch.
FetchIgnoresCancel ==
    /\ pc = "fetch"
    /\ faults < MaxFaults /\ faults' = faults + 1
    /\ pc' = "select"
    /\ owed' = FALSE
    /\ UNCHANGED <<cp, cycle, snapshot, trigger, cancelled, changes, acked>>

\* The fetch fails: the cycle ends. With a done context it always fails.
FetchFails ==
    /\ pc = "fetch"
    /\ IF cancelled THEN UNCHANGED faults
                    ELSE faults < MaxFaults /\ faults' = faults + 1
    /\ pc' = "select"
    /\ owed' = FALSE
    /\ UNCHANGED <<cp, cycle, snapshot, trigger, cancelled, changes, acked>>

\* Where invokeHandlers goes after i - 1 handlers.
HandlerPc(i) == IF i \in HandlerIdx THEN "handlers" ELSE "report"

\* runCycle with the state d fetched and its difference to the snapshot.
BeginHandlers(d) ==
    /\ desired' = d
    /\ diff' = ComputeDiff(d, snapshot)
    /\ next' = 1
    /\ handlerFailed' = FALSE
    /\ pc' = HandlerPc(1)

\* The fetch succeeds; an empty diff ends the cycle.
Fetch ==
    /\ pc = "fetch"
    /\ ~ cancelled
    /\ IF IsEmpty(ComputeDiff(cp, snapshot))
       THEN pc' = "select" /\ UNCHANGED cycle
       ELSE BeginHandlers(cp)
    /\ owed' = FALSE
    /\ UNCHANGED <<cp, snapshot, trigger, cancelled, bounds, acked>>

\* Mutant: the last handler decides whether the cycle failed.
LastHandlerDecides(ok) ==
    /\ pc = "handlers"
    /\ handlerFailed' = ~ ok
    /\ next' = next + 1
    /\ pc' = HandlerPc(next + 1)
    /\ acked' = IF ok THEN [acked EXCEPT ![next] = @ \cup {desired}] ELSE acked
    /\ UNCHANGED <<cp, desired, diff, snapshot, trigger, cancelled, changes, owed>>

\* invokeHandlers: handler next returns (or panics: safeInvoke turns a panic
\* into an error); the remaining handlers run whatever it returned.
HandlerReturns(ok) ==
    /\ pc = "handlers"
    /\ handlerFailed' = (handlerFailed \/ ~ ok)
    /\ next' = next + 1
    /\ pc' = HandlerPc(next + 1)
    /\ acked' = IF ok THEN [acked EXCEPT ![next] = @ \cup {desired}] ELSE acked
    /\ UNCHANGED <<cp, desired, diff, snapshot, trigger, cancelled, changes, owed>>

\* A handler that fails for reasons of its own, within the bound.
InvokeHandler ==
    \/ HandlerReturns(TRUE) /\ UNCHANGED faults
    \/ HandlerReturns(FALSE) /\ faults < MaxFaults /\ faults' = faults + 1

\* snapshot.Update keeps the six tracked fields.
Snapshot(s) == [s EXCEPT !.config = NoConfig]

\* ReportDrift, whose failure is only logged, and snapshot.Update unless a
\* handler failed.
ReportAndUpdate ==
    /\ pc = "report"
    /\ snapshot' = IF handlerFailed THEN snapshot ELSE Snapshot(desired)
    /\ pc' = "select"
    /\ desired' = EmptyState /\ diff' = NoDiff /\ next' = 1 /\ handlerFailed' = FALSE
    /\ UNCHANGED <<cp, trigger, cancelled, bounds, owed, acked>>

----------------------------------------------------------------------------
Loop == Tick \/ TakeTrigger \/ Stop \/ FetchFails \/ Fetch \/ ReportAndUpdate

Next ==
    \/ \E s \in Edits(cp) : Change(s)
    \/ TriggerReconcile
    \/ Cancel
    \/ Loop
    \/ InvokeHandler

Spec == Init /\ [][Next]_vars

\* The loop's goroutine is scheduled, the ticker ticks, and calls return.
\* Strong fairness for Stop: select chooses among its ready cases at random,
\* so a done context is not passed over for ever.
Fairness ==
    /\ WF_vars(Tick \/ TakeTrigger)
    /\ SF_vars(Stop)
    /\ WF_vars(FetchFails \/ Fetch)
    /\ WF_vars(InvokeHandler)
    /\ WF_vars(ReportAndUpdate)

FairSpec == Spec /\ Fairness
----------------------------------------------------------------------------
\* The loop's variables are in range; next never points past the end of the
\* handler list by more than one.
TypeOK ==
    /\ cp \in StateResponse
    /\ pc \in {"select", "fetch", "handlers", "report", "stopped"}
    /\ desired \in StateResponse
    /\ next \in 1 .. (Len(Handlers) + 1)
    /\ handlerFailed \in BOOLEAN
    /\ snapshot \in StateResponse
    /\ trigger \in BOOLEAN
    /\ cancelled \in BOOLEAN
    /\ changes \in 0 .. MaxChanges
    /\ faults \in 0 .. MaxFaults
    /\ owed \in BOOLEAN
    /\ acked \in [HandlerIdx -> SUBSET StateResponse]

\* TriggerReconcile coalesces calls but loses none: while a call has not been
\* followed by a fetch, a value waits in the channel or a fetch is about to
\* be made, whatever the loop was doing when the call came.
NoLostTrigger == owed => trigger \/ pc = "fetch"

\* The snapshot is a state that every handler has accepted: runCycle updates
\* it only when no handler of the cycle failed, so the next diff never hides
\* work a handler still owes.
SnapshotAccepted ==
    \A h \in HandlerIdx : \E s \in acked[h] : Snapshot(s) = snapshot

\* What makes SnapshotAccepted inductive: invokeHandlers has the acceptance
\* of every handler it has passed, or has noted that one of them failed.
AcceptedSoFar ==
    pc \in {"handlers", "report"} /\ ~ handlerFailed =>
        \A h \in HandlerIdx : h < next => desired \in acked[h]

\* next points at a handler exactly while handlers are being invoked.
NextInRange ==
    /\ pc = "handlers" => next \in HandlerIdx
    /\ pc = "report" => next = Len(Handlers) + 1

AcceptanceInv == TypeOK /\ NextInRange /\ AcceptedSoFar /\ SnapshotAccepted

\* While a cycle runs its diff still is the difference between what it
\* fetched and the snapshot: nothing else writes the snapshot meanwhile.
DiffIsCurrent ==
    pc \in {"handlers", "report"} =>
        /\ diff = ComputeDiff(desired, snapshot)
        /\ BuildDriftReport(diff) # {}

\* ComputeDiff finds no drift exactly when the tracked parts agree, and its
\* peer part turns the snapshot's peers into the desired ones.
DiffIsExact ==
    LET d == ComputeDiff(cp, snapshot) IN
    /\ IsEmpty(d) <=> Tracked(cp) = Tracked(snapshot)
    /\ PatchPeers(snapshot.peers, d) = cp.peers

\* The diff a cycle works from is the right one, from its computation to the
\* last handler: ComputeDiff is exact, and stays current while runCycle uses it.
DiffFaithful == DiffIsExact /\ DiffIsCurrent

\* The loop converges: once the control plane stops changing the desired
\* state and calls stop failing, the snapshot comes to agree with it and
\* stays so, unless the loop is cancelled.
Converges == <>[](cancelled \/ Tracked(cp) = Tracked(snapshot))

\* A done context ends the loop: Run "blocks until ctx is cancelled".
CancelStops == cancelled ~> pc = "stopped"

\* Run either converges on a control plane that is quiet, or, its context done,
\* ends, whatever fetches, handlers and triggers do meanwhile.
LoopLive == Converges /\ CancelStops

\* bridge/handler.go: ReconcileHandler "updates bridge routes when the desired
\* BridgeConfig changes". The last state handed to the handlers carries the
\* control plane's bridge configuration, eventually and for good.
ConfigReachesHandlers ==
    <>[](cancelled \/ \A h \in HandlerIdx :
                         \E s \in acked[h] : s.config = cp.config)

=============================================================================
