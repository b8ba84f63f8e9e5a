-------------------------- MODULE ReconcilerProofs --------------------------
(***************************************************************************)
(* ComputeDiff for states of any size; invariants of the reconcile loop    *)
(* for any number of handlers and any sets of peers, policies, keys and    *)
(* values; and of the loop with the WireGuard and policy handlers in it:   *)
(* the types of the peer tables and calls, and that the index follows the  *)
(* device.                                                                 *)
(***************************************************************************)
EXTENDS Mesh, TLAPS


----------------------------------------------------------------------------
(* ComputeDiff reports no drift exactly when the tracked parts of the two  *)
(* states agree, and its peer part turns the one table of peers into the   *)
(* other.                                                                  *)

\* A partial function maps its domain, a subset of K, into V.
LEMMA PartialFunction ==
    ASSUME NEW K, NEW V, NEW f \in Partial(K, V)
    PROVE  /\ f \in [DOMAIN f -> V]
           /\ DOMAIN f \subseteq K
BY Zenon DEF Partial

LEMMA PartialIntro ==
    ASSUME NEW K, NEW V, NEW D \in SUBSET K, NEW f \in [D -> V]
    PROVE  f \in Partial(K, V)
BY Zenon DEF Partial

\* Two functions are equal when nothing was added, removed or updated.
LEMMA SameTable ==
    ASSUME NEW K, NEW V, NEW f \in Partial(K, V), NEW g \in Partial(K, V)
    PROVE  f = g <=> /\ DOMAIN Added(f, g) = {}
                     /\ Removed(f, g) = {}
                     /\ DOMAIN PeersToUpdate(f, g) = {}
<1>1. f \in [DOMAIN f -> V] /\ g \in [DOMAIN g -> V]
  BY Zenon, PartialFunction
<1>2. ASSUME DOMAIN Added(f, g) = {}, Removed(f, g) = {}, DOMAIN PeersToUpdate(f, g) = {}
      PROVE  f = g
  <2>1. DOMAIN f = DOMAIN g
    BY Zenon, <1>2 DEF Added, Removed
  <2>2. \A k \in DOMAIN f : f[k] = g[k]
    BY Zenon, <1>2, <2>1 DEF PeersToUpdate
  <2> QED BY <1>1, <2>1, <2>2
<1>3. ASSUME f = g
      PROVE  /\ DOMAIN Added(f, g) = {}
             /\ Removed(f, g) = {}
             /\ DOMAIN PeersToUpdate(f, g) = {}
  BY Zenon, <1>3 DEF Added, Removed, PeersToUpdate
<1> QED BY Zenon, <1>2, <1>3

LEMMA SameKeys ==
    ASSUME NEW a \in SigningKeys, NEW b \in SigningKeys
    PROVE  ~ SigningKeysChanged(a, b) <=>
              (IF a = NoKeys THEN NoKeys ELSE a.keys) = (IF b = NoKeys THEN NoKeys ELSE b.keys)
BY Zenon, NoKeysAssumption DEF SigningKeys, SigningKeysChanged

LEMMA SameData ==
    ASSUME NEW a \in DataEntries, NEW b \in DataEntries
    PROVE  ~ DataChanged(a, b) <=>
              [k \in DOMAIN a |-> a[k].version] = [k \in DOMAIN b |-> b[k].version]
<1> DEFINE f == [k \in DOMAIN a |-> a[k].version]
           g == [k \in DOMAIN b |-> b[k].version]
<1>1. ASSUME ~ DataChanged(a, b) PROVE f = g
  <2>1. DOMAIN a = DOMAIN b
    BY Zenon, <1>1 DEF DataChanged
  <2>2. \A k \in DOMAIN a : a[k].version = b[k].version
    BY Zenon, <1>1 DEF DataChanged
  <2> QED BY Zenon, <2>1, <2>2
<1>2. ASSUME f = g PROVE ~ DataChanged(a, b)
  <2>1. DOMAIN a = DOMAIN f /\ DOMAIN b = DOMAIN g
    BY Zenon
  <2>2. DOMAIN a = DOMAIN b
    BY Zenon, <1>2, <2>1
  <2>3. \A k \in DOMAIN a : f[k] = a[k].version /\ g[k] = b[k].version
    BY Zenon, <2>2
  <2>4. \A k \in DOMAIN a : a[k].version = b[k].version
    BY Zenon, <1>2, <2>3
  <2> QED BY Zenon, <2>2, <2>4 DEF DataChanged
<1> QED BY Zenon, <1>1, <1>2

LEMMA SameSecretRefs ==
    ASSUME NEW a \in Partial(SecretKey, Version), NEW b \in Partial(SecretKey, Version)
    PROVE  ~ SecretRefsChanged(a, b) <=> a = b
<1>1. a \in [DOMAIN a -> Version] /\ b \in [DOMAIN b -> Version]
  BY Zenon, PartialFunction
<1>2. ASSUME ~ SecretRefsChanged(a, b) PROVE a = b
  <2>1. DOMAIN a = DOMAIN b /\ \A k \in DOMAIN a : a[k] = b[k]
    BY Zenon, <1>2 DEF SecretRefsChanged
  <2> QED BY <1>1, <2>1
<1>3. a = b => ~ SecretRefsChanged(a, b)
  BY Zenon DEF SecretRefsChanged
<1> QED BY Zenon, <1>2, <1>3

\* ComputeDiff is empty exactly when the tracked parts agree (diff.go).
THEOREM EmptyDiffMeansAligned ==
    ASSUME NEW des \in StateResponse, NEW cur \in StateResponse
    PROVE  IsEmpty(ComputeDiff(des, cur)) <=> Tracked(des) = Tracked(cur)
<1>1. /\ des.peers \in Partial(PeerID, PeerCfg)
      /\ cur.peers \in Partial(PeerID, PeerCfg)
      /\ des.signing_keys \in SigningKeys
      /\ cur.signing_keys \in SigningKeys
      /\ des.data \in DataEntries
      /\ cur.data \in DataEntries
      /\ des.secret_refs \in Partial(SecretKey, Version)
      /\ cur.secret_refs \in Partial(SecretKey, Version)
  BY Zenon DEF StateResponse
<1> DEFINE d == ComputeDiff(des, cur)
<1>2. des.peers = cur.peers <=> /\ DOMAIN d.peersToAdd = {}
                                /\ d.peersToRemove = {}
                                /\ DOMAIN d.peersToUpdate = {}
  BY <1>1, SameTable DEF ComputeDiff
<1>3. DOMAIN des.policies = DOMAIN cur.policies <=> /\ DOMAIN d.policiesToAdd = {}
                                                    /\ d.policiesToRemove = {}
  BY Zenon DEF ComputeDiff, Added, Removed
<1>4. (IF des.signing_keys = NoKeys THEN NoKeys ELSE des.signing_keys.keys)
      = (IF cur.signing_keys = NoKeys THEN NoKeys ELSE cur.signing_keys.keys)
      <=> ~ d.signingKeysChanged
  BY Zenon, <1>1, SameKeys DEF ComputeDiff
<1>5. des.metadata = cur.metadata <=> ~ d.metadataChanged
  BY Zenon DEF ComputeDiff, MetadataChanged
<1>6. [k \in DOMAIN des.data |-> des.data[k].version]
      = [k \in DOMAIN cur.data |-> cur.data[k].version] <=> ~ d.dataChanged
  BY Zenon, <1>1, SameData DEF ComputeDiff
<1>7. des.secret_refs = cur.secret_refs <=> ~ d.secretRefsChanged
  BY Zenon, <1>1, SameSecretRefs DEF ComputeDiff
<1>8. Tracked(des) = Tracked(cur) <=>
        /\ des.peers = cur.peers
        /\ DOMAIN des.policies = DOMAIN cur.policies
        /\ (IF des.signing_keys = NoKeys THEN NoKeys ELSE des.signing_keys.keys)
           = (IF cur.signing_keys = NoKeys THEN NoKeys ELSE cur.signing_keys.keys)
        /\ des.metadata = cur.metadata
        /\ [k \in DOMAIN des.data |-> des.data[k].version]
           = [k \in DOMAIN cur.data |-> cur.data[k].version]
        /\ des.secret_refs = cur.secret_refs
  BY Zenon DEF Tracked
<1> HIDE DEF d
<1>9. IsEmpty(d) <=> Tracked(des) = Tracked(cur)
  BY Zenon, <1>2, <1>3, <1>4, <1>5, <1>6, <1>7, <1>8 DEF IsEmpty
<1> QED BY Zenon, <1>9 DEF d

\* The peer part of the diff, applied to the peers of the snapshot, gives the
\* desired peers (diffPeers).
THEOREM PatchRestoresPeers ==
    ASSUME NEW des \in StateResponse, NEW cur \in StateResponse
    PROVE  PatchPeers(cur.peers, ComputeDiff(des, cur)) = des.peers
<1> DEFINE f == des.peers
           g == cur.peers
           d == ComputeDiff(des, cur)
           p == PatchPeers(g, d)
<1>1. f \in Partial(PeerID, PeerCfg) /\ g \in Partial(PeerID, PeerCfg)
  BY Zenon DEF StateResponse
<1>2. f = [k \in DOMAIN f |-> f[k]]
  BY Zenon, <1>1, PartialFunction
<1>3. /\ d.peersToAdd = Added(f, g)
      /\ d.peersToRemove = Removed(f, g)
      /\ d.peersToUpdate = PeersToUpdate(f, g)
  BY Zenon DEF ComputeDiff
<1>4. /\ DOMAIN d.peersToAdd = DOMAIN f \ DOMAIN g
      /\ d.peersToRemove = DOMAIN g \ DOMAIN f
      /\ DOMAIN d.peersToUpdate = {k \in DOMAIN f \cap DOMAIN g : f[k] # g[k]}
  BY Zenon, <1>3 DEF Added, Removed, PeersToUpdate
<1>5. /\ \A k \in DOMAIN d.peersToAdd : d.peersToAdd[k] = f[k]
      /\ \A k \in DOMAIN d.peersToUpdate : d.peersToUpdate[k] = f[k]
  BY Zenon, <1>3 DEF Added, PeersToUpdate
<1> HIDE DEF d, f, g
<1>6. DOMAIN p = DOMAIN f
  BY Zenon, <1>4 DEF PatchPeers
<1>7. \A k \in DOMAIN f : p[k] = f[k]
  BY Zenon, <1>4, <1>5, <1>6 DEF PatchPeers
<1>8. p = [k \in DOMAIN f |-> p[k]]
  BY Zenon, <1>6 DEF PatchPeers
<1>9. p = f
  BY Zenon, <1>2, <1>7, <1>8
<1> QED BY Zenon, <1>9 DEF d, f, g

\* A cycle with drift always has something to report (drift.go).
LEMMA DriftIsReported ==
    ASSUME NEW d, ~ IsEmpty(d)
    PROVE  BuildDriftReport(d) # {}
BY ZenonT(30) DEF IsEmpty, BuildDriftReport

----------------------------------------------------------------------------
(* The reconcile loop. *)

LEMMA LenHandlers == Len(Handlers) \in Nat
BY HandlersAssumption

LEMMA EmptyStateType == EmptyState \in StateResponse
<1>1. \A K, V : NoEntries \in Partial(K, V)
  BY Zenon DEF NoEntries, Partial
<1> QED BY Zenon, <1>1 DEF EmptyState, StateResponse, SigningKeys, DataEntries

LEMMA EditsType ==
    ASSUME NEW s \in StateResponse, NEW t \in Edits(s)
    PROVE  t \in StateResponse
<1>1. \A v \in Partial(PeerID, PeerCfg) : [s EXCEPT !.peers = v] \in StateResponse
  BY Zenon DEF StateResponse
<1>2. \A v \in Partial(PolicyID, Rules) : [s EXCEPT !.policies = v] \in StateResponse
  BY Zenon DEF StateResponse
<1>3. \A v \in SigningKeys : [s EXCEPT !.signing_keys = v] \in StateResponse
  BY Zenon DEF StateResponse
<1>4. \A v \in Metadata \cup {NoMetadata} : [s EXCEPT !.metadata = v] \in StateResponse
  BY Zenon DEF StateResponse
<1>5. \A v \in DataEntries : [s EXCEPT !.data = v] \in StateResponse
  BY Zenon DEF StateResponse
<1>6. \A v \in Partial(SecretKey, Version) : [s EXCEPT !.secret_refs = v] \in StateResponse
  BY Zenon DEF StateResponse
<1>7. \A v \in Config \cup {NoConfig} : [s EXCEPT !.config = v] \in StateResponse
  BY Zenon DEF StateResponse
<1> QED BY ZenonT(30), <1>1, <1>2, <1>3, <1>4, <1>5, <1>6, <1>7 DEF Edits

LEMMA SnapshotType ==
    ASSUME NEW s \in StateResponse
    PROVE  Snapshot(s) \in StateResponse
BY Zenon DEF Snapshot, StateResponse

LEMMA SnapshotOfEmpty == Snapshot(EmptyState) = EmptyState
BY DEF Snapshot, EmptyState

----------------------------------------------------------------------------
(* TypeOK is inductive together with NextInRange: next stays in its range  *)
(* because invokeHandlers leaves its loop at the last handler.             *)

LEMMA TypeInit == Init => TypeOK /\ NextInRange
<1> SUFFICES ASSUME Init PROVE TypeOK /\ NextInRange
  BY Zenon
<1>1. acked \in [HandlerIdx -> SUBSET StateResponse]
  BY Zenon, EmptyStateType DEF Init
<1>2. 1 \in 1 .. (Len(Handlers) + 1) /\ 0 \in 0 .. MaxChanges /\ 0 \in 0 .. MaxFaults
  BY LenHandlers, BoundsAssumption
<1> QED BY Zenon, <1>1, <1>2, EmptyStateType DEF Init, TypeOK, NextInRange

\* The program counter after i - 1 handlers.
LEMMA HandlerPcRange ==
    ASSUME NEW i \in 1 .. (Len(Handlers) + 1)
    PROVE  /\ HandlerPc(i) \in {"handlers", "report"}
           /\ HandlerPc(i) = "handlers" => i \in HandlerIdx
           /\ HandlerPc(i) = "report" => i = Len(Handlers) + 1
BY LenHandlers DEF HandlerPc, HandlerIdx

LEMMA HandlerReturnsType ==
    ASSUME TypeOK, NextInRange, NEW ok \in BOOLEAN, HandlerReturns(ok),
           faults' \in 0 .. MaxFaults
    PROVE  TypeOK' /\ NextInRange'
<1>1. next \in HandlerIdx /\ next + 1 \in 1 .. (Len(Handlers) + 1)
  BY LenHandlers DEF HandlerReturns, NextInRange, HandlerIdx
<1>2. acked' \in [HandlerIdx -> SUBSET StateResponse]
  <2>1. CASE ok
    <3>1. acked' = [acked EXCEPT ![next] = @ \cup {desired}]
      BY Zenon, <2>1 DEF HandlerReturns
    <3> QED BY Zenon, <1>1, <3>1 DEF TypeOK
  <2>2. CASE ~ ok
    BY Zenon, <2>2 DEF HandlerReturns, TypeOK
  <2> QED BY Zenon, <2>1, <2>2
<1>3. handlerFailed' \in BOOLEAN
  BY Zenon DEF HandlerReturns, TypeOK
<1>4. TypeOK'
  <2>1. pc' \in {"handlers", "report"} /\ next' \in 1 .. (Len(Handlers) + 1)
    BY Zenon, <1>1, HandlerPcRange DEF HandlerReturns
  <2>2. UNCHANGED <<cp, desired, snapshot, trigger, cancelled, changes, owed>>
    BY Zenon DEF HandlerReturns
  <2> QED BY Zenon, <1>2, <1>3, <2>1, <2>2 DEF TypeOK
<1>5. NextInRange'
  BY Zenon, <1>1, HandlerPcRange DEF HandlerReturns, NextInRange
<1> QED BY Zenon, <1>4, <1>5

LEMMA TypeStep == TypeOK /\ NextInRange /\ [Next]_vars => TypeOK' /\ NextInRange'
<1> SUFFICES ASSUME TypeOK, NextInRange, [Next]_vars PROVE TypeOK' /\ NextInRange'
  BY Zenon
<1> USE LenHandlers, BoundsAssumption
<1>1. ASSUME NEW s \in Edits(cp), Change(s) PROVE TypeOK' /\ NextInRange'
  BY <1>1, EditsType DEF Change, cycle, TypeOK, NextInRange
<1>2. CASE TriggerReconcile
  BY Zenon, <1>2 DEF TriggerReconcile, cycle, bounds, TypeOK, NextInRange
<1>3. CASE Cancel
  BY Zenon, <1>3 DEF Cancel, cycle, bounds, TypeOK, NextInRange
<1>4. CASE Tick
  BY Zenon, <1>4 DEF Tick, cycle, bounds, TypeOK, NextInRange
<1>5. CASE TakeTrigger
  BY Zenon, <1>5 DEF TakeTrigger, cycle, bounds, TypeOK, NextInRange
<1>6. CASE Stop
  BY Zenon, <1>6 DEF Stop, cycle, bounds, TypeOK, NextInRange
<1>7. CASE FetchFails
  <2>1. faults' \in 0 .. MaxFaults
    <3>1. CASE cancelled
      BY Zenon, <1>7, <3>1 DEF FetchFails, TypeOK
    <3>2. CASE ~ cancelled
      BY <1>7, <3>2 DEF FetchFails, TypeOK
    <3> QED BY Zenon, <3>1, <3>2
  <2>2. pc' = "select" /\ owed' = FALSE
        /\ UNCHANGED <<cp, desired, next, handlerFailed, snapshot, trigger, cancelled, changes, acked>>
    BY Zenon, <1>7 DEF FetchFails, cycle
  <2> QED BY Zenon, <2>1, <2>2 DEF TypeOK, NextInRange
<1>8. CASE Fetch
  <2>1. CASE IsEmpty(ComputeDiff(cp, snapshot))
    BY Zenon, <1>8, <2>1 DEF Fetch, cycle, bounds, TypeOK, NextInRange
  <2>2. CASE ~ IsEmpty(ComputeDiff(cp, snapshot))
    <3>1. BeginHandlers(cp) /\ UNCHANGED <<cp, snapshot, trigger, cancelled, changes, faults, acked>>
          /\ owed' = FALSE
      BY Zenon, <1>8, <2>2 DEF Fetch, bounds
    <3>2. desired' = cp /\ next' = 1 /\ handlerFailed' = FALSE /\ pc' = HandlerPc(1)
      BY Zenon, <3>1 DEF BeginHandlers
    <3>3. 1 \in 1 .. (Len(Handlers) + 1)
      OBVIOUS
    <3> QED BY Zenon, <3>1, <3>2, <3>3, HandlerPcRange DEF TypeOK, NextInRange
  <2> QED BY Zenon, <2>1, <2>2
<1>9. CASE ReportAndUpdate
  <2>1. snapshot' \in StateResponse
    BY Zenon, <1>9, SnapshotType DEF ReportAndUpdate, TypeOK
  <2>2. /\ pc' = "select" /\ desired' = EmptyState /\ next' = 1 /\ handlerFailed' = FALSE
        /\ UNCHANGED <<cp, trigger, cancelled, changes, faults, owed, acked>>
    BY Zenon, <1>9 DEF ReportAndUpdate, bounds
  <2>3. 1 \in 1 .. (Len(Handlers) + 1)
    OBVIOUS
  <2> QED BY Zenon, <2>1, <2>2, <2>3, EmptyStateType DEF TypeOK, NextInRange
<1>10. CASE InvokeHandler
  <2>1. faults' = faults \/ (faults < MaxFaults /\ faults' = faults + 1)
    BY Zenon, <1>10 DEF InvokeHandler
  <2>2. faults' \in 0 .. MaxFaults
    BY <2>1 DEF TypeOK
  <2> QED BY Zenon, <1>10, <2>2, HandlerReturnsType DEF InvokeHandler
<1>11. CASE UNCHANGED vars
  BY Zenon, <1>11 DEF vars, cycle, bounds, TypeOK, NextInRange
<1> QED
  BY Zenon, <1>1, <1>2, <1>3, <1>4, <1>5, <1>6, <1>7, <1>8, <1>9, <1>10, <1>11 DEF Next, Loop

\* Every variable keeps its type (TypeOK), and next points at a handler
\* exactly while runCycle is invoking handlers.
THEOREM TypeCorrect == Spec => [](TypeOK /\ NextInRange)
BY TypeInit, TypeStep, PTL DEF Spec

----------------------------------------------------------------------------
\* TriggerReconcile never loses a call: the select only takes the value from
\* triggerCh to fetch, and only a fetch settles what is owed.
THEOREM TriggersAreServed == Spec => []NoLostTrigger
<1>1. Init => NoLostTrigger
  BY Zenon DEF Init, NoLostTrigger
<1>2. NoLostTrigger /\ [Next]_vars => NoLostTrigger'
  <2> SUFFICES ASSUME NoLostTrigger, [Next]_vars PROVE NoLostTrigger'
    BY Zenon
  <2> USE DEF NoLostTrigger
  <2>1. ASSUME NEW s \in Edits(cp), Change(s) PROVE NoLostTrigger'
    BY Zenon, <2>1 DEF Change
  <2>2. CASE TriggerReconcile
    BY Zenon, <2>2 DEF TriggerReconcile
  <2>3. CASE Cancel
    BY Zenon, <2>3 DEF Cancel
  <2>4. CASE Tick \/ TakeTrigger \/ Stop
    BY Zenon, <2>4 DEF Tick, TakeTrigger, Stop
  <2>5. CASE FetchFails \/ Fetch
    BY Zenon, <2>5 DEF FetchFails, Fetch
  <2>6. CASE ReportAndUpdate
    BY Zenon, <2>6 DEF ReportAndUpdate
  <2>7. ASSUME NEW ok, HandlerReturns(ok) PROVE NoLostTrigger'
    BY Zenon, <2>7 DEF HandlerReturns
  <2>8. CASE UNCHANGED vars
    BY Zenon, <2>8 DEF vars
  <2> QED
    BY Zenon, <2>1, <2>2, <2>3, <2>4, <2>5, <2>6, <2>7, <2>8 DEF Next, Loop, InvokeHandler
<1> QED BY <1>1, <1>2, PTL DEF Spec

----------------------------------------------------------------------------
\* The diff is exact in every reachable state: it is empty exactly when the
\* tracked parts agree, and patching the snapshot's peers gives the desired.
THEOREM DiffAlwaysExact == Spec => []DiffIsExact
<1>1. TypeOK => DiffIsExact
  <2> SUFFICES ASSUME TypeOK PROVE DiffIsExact
    BY Zenon
  <2>1. cp \in StateResponse /\ snapshot \in StateResponse
    BY Zenon DEF TypeOK
  <2> QED BY Zenon, <2>1, EmptyDiffMeansAligned, PatchRestoresPeers DEF DiffIsExact
<1> QED BY <1>1, TypeCorrect, PTL

LEMMA DiffCurrentStep == DiffIsCurrent /\ [Next]_vars => DiffIsCurrent'
<1> SUFFICES ASSUME DiffIsCurrent, [Next]_vars PROVE DiffIsCurrent'
  BY Zenon
<1>1. ASSUME UNCHANGED <<desired, diff, snapshot>>,
             pc' \in {"handlers", "report"} => pc \in {"handlers", "report"}
      PROVE  DiffIsCurrent'
  BY Zenon, <1>1 DEF DiffIsCurrent
<1>2. ASSUME NEW s \in Edits(cp), Change(s) PROVE DiffIsCurrent'
  BY Zenon, <1>1, <1>2 DEF Change, cycle
<1>3. CASE TriggerReconcile \/ Cancel
  BY Zenon, <1>1, <1>3 DEF TriggerReconcile, Cancel, cycle
<1>4. CASE Tick \/ TakeTrigger \/ Stop \/ FetchFails
  BY Zenon, <1>1, <1>4 DEF Tick, TakeTrigger, Stop, FetchFails, cycle
<1>5. CASE Fetch
  <2>1. CASE IsEmpty(ComputeDiff(cp, snapshot))
    BY Zenon, <1>5, <2>1 DEF Fetch, DiffIsCurrent
  <2>2. CASE ~ IsEmpty(ComputeDiff(cp, snapshot))
    <3>1. desired' = cp /\ diff' = ComputeDiff(cp, snapshot) /\ snapshot' = snapshot
      BY Zenon, <1>5, <2>2 DEF Fetch, BeginHandlers
    <3>2. BuildDriftReport(ComputeDiff(cp, snapshot)) # {}
      BY Zenon, <2>2, DriftIsReported
    <3> QED BY Zenon, <3>1, <3>2 DEF DiffIsCurrent
  <2> QED BY Zenon, <2>1, <2>2
<1>6. CASE ReportAndUpdate
  BY Zenon, <1>6 DEF ReportAndUpdate, DiffIsCurrent
<1>7. ASSUME NEW ok, HandlerReturns(ok) PROVE DiffIsCurrent'
  BY Zenon, <1>1, <1>7 DEF HandlerReturns
<1>8. CASE UNCHANGED vars
  BY Zenon, <1>1, <1>8 DEF vars, cycle
<1> QED
  BY Zenon, <1>2, <1>3, <1>4, <1>5, <1>6, <1>7, <1>8 DEF Next, Loop, InvokeHandler

\* During a cycle the diff remains the difference to the snapshot, and there
\* is something to report: only ReportAndUpdate writes the snapshot, and it
\* ends the cycle.
THEOREM DiffStaysCurrent == Spec => []DiffIsCurrent
<1>1. Init => DiffIsCurrent
  BY Zenon DEF Init, DiffIsCurrent
<1> QED BY <1>1, DiffCurrentStep, PTL DEF Spec

\* The diff of a cycle is exact and stays current, for any states, handlers and
\* bounds: both facts together are what the handlers rely on.
THEOREM DiffAlwaysFaithful == Spec => []DiffFaithful
<1>1. DiffIsExact /\ DiffIsCurrent => DiffFaithful
  BY Zenon DEF DiffFaithful
<1> QED BY <1>1, DiffAlwaysExact, DiffStaysCurrent, PTL

----------------------------------------------------------------------------
(* SnapshotAccepted needs AcceptedSoFar: when runCycle updates the         *)
(* snapshot, no handler has failed, so all of them accepted the state.     *)

\* A handler that returns: acceptance is recorded, and nothing recorded
\* before is lost.
LEMMA HandlerReturnsAccepts ==
    ASSUME TypeOK, NextInRange, AcceptedSoFar, SnapshotAccepted,
           NEW ok \in BOOLEAN, HandlerReturns(ok)
    PROVE  AcceptedSoFar' /\ SnapshotAccepted'
<1>1. next \in HandlerIdx /\ next \in Nat /\ next' = next + 1 /\ pc = "handlers"
  BY LenHandlers DEF HandlerReturns, NextInRange, HandlerIdx
<1>2. \A h \in HandlerIdx : acked[h] \subseteq acked'[h]
  BY Zenon, <1>1 DEF HandlerReturns, TypeOK
<1>3. ok => desired \in acked'[next]
  BY Zenon, <1>1 DEF HandlerReturns, TypeOK
<1>4. AcceptedSoFar'
  <2> SUFFICES ASSUME ~ handlerFailed', NEW h \in HandlerIdx, h < next'
               PROVE  desired' \in acked'[h]
    BY Zenon DEF AcceptedSoFar
  <2>1. ~ handlerFailed /\ ok /\ desired' = desired
    BY Zenon DEF HandlerReturns, TypeOK
  <2>2. h < next \/ h = next
    BY <1>1 DEF HandlerIdx
  <2>3. CASE h = next
    BY Zenon, <1>3, <2>1, <2>3
  <2>4. CASE h < next
    <3>1. desired \in acked[h]
      BY Zenon, <1>1, <2>1, <2>4 DEF AcceptedSoFar
    <3> QED BY Zenon, <1>2, <2>1, <3>1
  <2> QED BY Zenon, <2>2, <2>3, <2>4
<1>5. SnapshotAccepted'
  <2>1. snapshot' = snapshot
    BY Zenon DEF HandlerReturns
  <2> QED BY Zenon, <1>2, <2>1 DEF SnapshotAccepted, Snapshot
<1> QED BY Zenon, <1>4, <1>5

LEMMA AcceptanceInit == Init => AcceptedSoFar /\ SnapshotAccepted
BY Zenon, SnapshotOfEmpty DEF Init, AcceptedSoFar, SnapshotAccepted

LEMMA AcceptanceStep == AcceptanceInv /\ [Next]_vars => AcceptanceInv'
<1> SUFFICES ASSUME AcceptanceInv, [Next]_vars
             PROVE  AcceptedSoFar' /\ SnapshotAccepted'
  BY Zenon, TypeStep DEF AcceptanceInv
<1>0. TypeOK /\ NextInRange /\ AcceptedSoFar /\ SnapshotAccepted
  BY Zenon DEF AcceptanceInv
<1>1. ASSUME UNCHANGED <<desired, next, handlerFailed, snapshot, acked>>,
             pc' \in {"handlers", "report"} => pc \in {"handlers", "report"}
      PROVE  AcceptedSoFar' /\ SnapshotAccepted'
  BY Zenon, <1>0, <1>1 DEF AcceptedSoFar, SnapshotAccepted, Snapshot
<1>2. ASSUME NEW s \in Edits(cp), Change(s) PROVE AcceptedSoFar' /\ SnapshotAccepted'
  BY Zenon, <1>1, <1>2 DEF Change, cycle
<1>3. CASE TriggerReconcile \/ Cancel
  BY Zenon, <1>1, <1>3 DEF TriggerReconcile, Cancel, cycle
<1>4. CASE Tick \/ TakeTrigger \/ Stop \/ FetchFails
  BY Zenon, <1>1, <1>4 DEF Tick, TakeTrigger, Stop, FetchFails, cycle
<1>5. CASE Fetch
  <2>1. snapshot' = snapshot /\ acked' = acked
    BY Zenon, <1>5 DEF Fetch
  <2>2. SnapshotAccepted'
    BY Zenon, <1>0, <2>1 DEF SnapshotAccepted, Snapshot
  <2>3. pc' = "select" \/ next' = 1
    BY Zenon, <1>5 DEF Fetch, BeginHandlers
  <2>4. AcceptedSoFar'
    BY <2>3, LenHandlers DEF AcceptedSoFar, HandlerIdx
  <2> QED BY Zenon, <2>2, <2>4
<1>6. CASE ReportAndUpdate
  <2>1. pc = "report" /\ pc' = "select" /\ acked' = acked
    BY Zenon, <1>6 DEF ReportAndUpdate
  <2>2. AcceptedSoFar'
    BY Zenon, <2>1 DEF AcceptedSoFar
  <2>3. CASE handlerFailed
    <3>1. snapshot' = snapshot
      BY Zenon, <1>6, <2>3 DEF ReportAndUpdate
    <3> QED BY Zenon, <1>0, <2>1, <2>2, <3>1 DEF SnapshotAccepted, Snapshot
  <2>4. CASE ~ handlerFailed
    <3>1. snapshot' = Snapshot(desired)
      BY Zenon, <1>6, <2>4 DEF ReportAndUpdate
    <3>2. \A h \in HandlerIdx : h < next
      BY <1>0, <2>1, LenHandlers DEF NextInRange, HandlerIdx
    <3>3. \A h \in HandlerIdx : desired \in acked[h]
      BY Zenon, <1>0, <2>1, <2>4, <3>2 DEF AcceptedSoFar
    <3> QED BY Zenon, <2>1, <2>2, <3>1, <3>3 DEF SnapshotAccepted, Snapshot
  <2> QED BY Zenon, <2>3, <2>4
<1>7. CASE InvokeHandler
  BY Zenon, <1>0, <1>7, HandlerReturnsAccepts DEF InvokeHandler
<1>8. CASE UNCHANGED vars
  BY Zenon, <1>1, <1>8 DEF vars, cycle
<1> QED BY Zenon, <1>2, <1>3, <1>4, <1>5, <1>6, <1>7, <1>8 DEF Next, Loop

\* The snapshot is always a state that every registered handler accepted,
\* however many handlers there are and whichever of them fail.
THEOREM SnapshotAlwaysAccepted == Spec => []SnapshotAccepted
<1>1. Init => AcceptanceInv
  BY Zenon, TypeInit, AcceptanceInit DEF AcceptanceInv
<1>2. AcceptanceInv => SnapshotAccepted
  BY Zenon DEF AcceptanceInv
<1> QED BY <1>1, <1>2, AcceptanceStep, PTL DEF Spec


----------------------------------------------------------------------------
(* Types of the peer tables and of the Manager calls. *)

PeerKey == PeerID \X {c.key : c \in PeerCfg}
Endpoint == {c.endpoint : c \in PeerCfg}

PutKind == {"AddPeer", "UpdatePeer"}
ManagerCall ==
    [kind : {"RemovePeerByID"}, id : PeerID, cfg : {NoCfg}]
    \cup [kind : PutKind, id : PeerID, cfg : PeerCfg]

PeerEvent ==
    [type : {"peer_removed"}, id : PeerID, cfg : {NoCfg}]
    \cup [type : {"peer_added", "peer_key_rotated", "peer_endpoint_changed"},
          id : PeerID, cfg : PeerCfg]

CallState ==
    [todo : Seq(ManagerCall), stage : {"start", "controller", "index"},
     key : PeerKey \cup {<<>>}, failed : BOOLEAN, busy : BOOLEAN]

\* A call that is under way is the first of the list, and has a key of its peer.
CallOK(r) ==
    /\ r \in CallState
    /\ r.stage # "start" => r.todo # <<>> /\ r.key \in PeerKey /\ r.key[1] = Head(r.todo).id
    /\ r.stage = "controller" => Head(r.todo).kind = "RemovePeerByID"

CallsOK == call \in [Goroutine -> CallState] /\ \A g \in Goroutine : CallOK(call[g])

LoopOK == TypeOK /\ NextInRange /\ DiffIsCurrent

TablesOK ==
    /\ env \in Environments
    /\ device \in Partial(PeerKey, Endpoint)
    /\ index \in Partial(PeerID, PeerKey)
    /\ \A p \in DOMAIN index : index[p][1] = p
    /\ allowed \subseteq PeerID
    /\ firewall \in Partial(PolicyID, Rules)
    /\ events \in Seq(PeerEvent)

\* A handler has calls to make only while invokeHandlers is in it.
HandlerOK ==
    /\ Running => pc = "handlers"
    /\ ~ Running => call["reconcile"].todo = <<>>

MeshTypeInv == LoopOK /\ CallsOK /\ TablesOK /\ HandlerOK

----------------------------------------------------------------------------
(* The order in which the handlers make their Manager calls: any, for each  *)
(* kind of call, but every call once.                                       *)

\* The calls of a list are about different peers.
OnePerPeer(s) == \A i, j \in 1 .. Len(s) : s[i].id = s[j].id => i = j

\* A sequence out of Orders has every element of the set, once.
LEMMA Ordering ==
    ASSUME NEW S, NEW f \in Orders(S)
    PROVE  /\ f \in Seq(S)
           /\ Range(f) = S
           /\ \A i, j \in 1 .. Len(f) : f[i] = f[j] => i = j
<1>1. PICK n \in 0 .. Cardinality(S) : f \in Bijection(1 .. n, S)
  BY Zenon DEF Orders
<1>2. /\ f \in [1 .. n -> S] /\ \A t \in S : \E i \in 1 .. n : f[i] = t
      /\ \A i, j \in 1 .. n : f[i] = f[j] => i = j
  BY Zenon, <1>1 DEF Bijection, Injection, Surjection, IsInjective
<1>3. n \in Nat
  OBVIOUS
<1>4. f \in Seq(S) /\ Len(f) = n
  BY <1>2, <1>3
<1> QED BY <1>2, <1>4 DEF Range

LEMMA Joined ==
    ASSUME NEW s \in Seq(ManagerCall), NEW t \in Seq(ManagerCall), OnePerPeer(s), OnePerPeer(t),
           \A c \in Range(s), d \in Range(t) : c.id # d.id
    PROVE  /\ s \o t \in Seq(ManagerCall)
           /\ Range(s \o t) = Range(s) \cup Range(t)
           /\ OnePerPeer(s \o t)
<1> DEFINE u == s \o t
           m == Len(s)
           n == Len(t)
<1>1. /\ m \in Nat /\ n \in Nat /\ u \in Seq(ManagerCall) /\ Len(u) = m + n
      /\ DOMAIN s = 1 .. m /\ DOMAIN t = 1 .. n /\ DOMAIN u = 1 .. (m + n)
      /\ \A i \in 1 .. m : u[i] = s[i]
      /\ \A i \in 1 .. n : u[m + i] = t[i]
  OBVIOUS
<1> HIDE DEF u, m, n
<1>2. \A i \in 1 .. (m + n) : i \in 1 .. m \/ (i - m \in 1 .. n /\ i = m + (i - m))
  BY <1>1
<1>3. Range(u) = Range(s) \cup Range(t)
  <2>0. /\ \A i \in 1 .. m : s[i] \in Range(s)
        /\ \A i \in 1 .. n : t[i] \in Range(t)
        /\ \A i \in 1 .. (m + n) : u[i] \in Range(u)
        /\ \A c \in Range(s) : \E i \in 1 .. m : c = s[i]
        /\ \A c \in Range(t) : \E i \in 1 .. n : c = t[i]
        /\ \A c \in Range(u) : \E i \in 1 .. (m + n) : c = u[i]
    BY Zenon, <1>1 DEF Range
  <2>1. ASSUME NEW i \in 1 .. (m + n) PROVE u[i] \in Range(s) \cup Range(t)
    <3>1. CASE i \in 1 .. m
      BY Zenon, <1>1, <2>0, <3>1
    <3>2. CASE i - m \in 1 .. n
      <4>1. u[i] = t[i - m]
        BY <1>1, <3>2
      <4> QED BY Zenon, <2>0, <3>2, <4>1
    <3> QED BY Zenon, <1>2, <3>1, <3>2
  <2>2. ASSUME NEW i \in 1 .. m PROVE s[i] \in Range(u)
    <3>1. i \in 1 .. (m + n)
      BY <1>1
    <3> QED BY Zenon, <1>1, <2>0, <3>1
  <2>3. ASSUME NEW i \in 1 .. n PROVE t[i] \in Range(u)
    <3>1. m + i \in 1 .. (m + n)
      BY <1>1
    <3> QED BY Zenon, <1>1, <2>0, <3>1
  <2> QED BY <2>0, <2>1, <2>2, <2>3
<1>4. ASSUME NEW i \in 1 .. (m + n), NEW j \in 1 .. (m + n), u[i].id = u[j].id PROVE i = j
  <2>1. CASE i \in 1 .. m /\ j \in 1 .. m
    BY Zenon, <1>1, <1>4, <2>1 DEF OnePerPeer, m
  <2>2. CASE i - m \in 1 .. n /\ j - m \in 1 .. n
    <3>1. t[i - m].id = t[j - m].id
      BY <1>1, <1>2, <1>4, <2>2
    <3>2. i - m = j - m
      BY Zenon, <2>2, <3>1 DEF OnePerPeer, n
    <3> QED BY <1>1, <3>2
  <2>3. ASSUME NEW a \in 1 .. m, NEW b \in 1 .. n PROVE u[a].id # u[m + b].id
    <3>1. s[a] \in Range(s) /\ t[b] \in Range(t)
      BY Zenon, <1>1 DEF Range
    <3> QED BY Zenon, <1>1, <3>1
  <2> QED BY Zenon, <1>2, <1>4, <2>1, <2>2, <2>3
<1> QED BY Zenon, <1>1, <1>3, <1>4 DEF OnePerPeer, u

\* The calls left once the first one has returned.
LEMMA Rest ==
    ASSUME NEW S, NEW s \in Seq(S), s # <<>>
    PROVE  /\ Head(s) \in S /\ Head(s) \in Range(s) /\ Tail(s) \in Seq(S)
           /\ OnePerPeer(s) =>
                /\ OnePerPeer(Tail(s))
                /\ Range(Tail(s)) = {c \in Range(s) : c.id # Head(s).id}
<1> DEFINE n == Len(s)
           t == Tail(s)
<1>1. /\ n \in Nat /\ n > 0 /\ DOMAIN s = 1 .. n /\ Head(s) = s[1] /\ s[1] \in S
      /\ t \in Seq(S) /\ Len(t) = n - 1 /\ DOMAIN t = 1 .. (n - 1)
      /\ \A i \in 1 .. (n - 1) : t[i] = s[i + 1]
  OBVIOUS
<1> HIDE DEF n, t
<1>2. s[1] \in Range(s)
  BY <1>1 DEF Range
<1>3. ASSUME OnePerPeer(s)
      PROVE  OnePerPeer(t) /\ Range(t) = {c \in Range(s) : c.id # s[1].id}
  <2>1. \A i, j \in 1 .. n : s[i].id = s[j].id => i = j
    BY Zenon, <1>3 DEF OnePerPeer, n
  <2>2. \A i \in 1 .. (n - 1) : i + 1 \in 1 .. n /\ i + 1 # 1
    BY <1>1
  <2>3. OnePerPeer(t)
    <3> SUFFICES ASSUME NEW i \in 1 .. (n - 1), NEW j \in 1 .. (n - 1), t[i].id = t[j].id
                 PROVE  i = j
      BY Zenon, <1>1 DEF OnePerPeer
    <3>1. i + 1 = j + 1
      BY <1>1, <2>1, <2>2
    <3> QED BY <3>1
  <2>0. /\ \A i \in 1 .. n : s[i] \in Range(s)
        /\ \A i \in 1 .. (n - 1) : t[i] \in Range(t)
    BY Zenon, <1>1 DEF Range
  <2>4. ASSUME NEW i \in 1 .. (n - 1) PROVE t[i] \in Range(s) /\ t[i].id # s[1].id
    <3>1. t[i] = s[i + 1] /\ i + 1 \in 1 .. n /\ i + 1 # 1 /\ 1 \in 1 .. n
      BY <1>1
    <3> QED BY Zenon, <2>0, <2>1, <3>1
  <2>5. ASSUME NEW i \in 1 .. n, s[i].id # s[1].id PROVE s[i] \in Range(t)
    <3>1. i - 1 \in 1 .. (n - 1) /\ t[i - 1] = s[i]
      BY <1>1, <2>5
    <3> QED BY Zenon, <2>0, <3>1
  <2>6. \A c \in Range(s) : \E i \in 1 .. n : c = s[i]
    BY Zenon, <1>1 DEF Range
  <2>7. \A c \in Range(t) : \E i \in 1 .. (n - 1) : c = t[i]
    BY Zenon, <1>1 DEF Range
  <2> QED BY <2>3, <2>4, <2>5, <2>6, <2>7
<1> QED BY Zenon, <1>1, <1>2, <1>3 DEF t

LEMMA PutPartial ==
    ASSUME NEW K, NEW V, NEW f \in Partial(K, V), NEW k \in K, NEW v \in V
    PROVE  Put(f, k, v) \in Partial(K, V)
<1>1. f \in [DOMAIN f -> V] /\ DOMAIN f \subseteq K
  BY Zenon, PartialFunction
<1>2. Put(f, k, v) \in [DOMAIN f \cup {k} -> V] /\ DOMAIN f \cup {k} \in SUBSET K
  BY Zenon, <1>1 DEF Put
<1> QED BY Zenon, <1>2, PartialIntro

LEMMA DropPartial ==
    ASSUME NEW K, NEW V, NEW f \in Partial(K, V), NEW k
    PROVE  Drop(f, k) \in Partial(K, V)
<1>1. f \in [DOMAIN f -> V] /\ DOMAIN f \subseteq K
  BY Zenon, PartialFunction
<1>2. Drop(f, k) \in [DOMAIN f \ {k} -> V] /\ DOMAIN f \ {k} \in SUBSET K
  BY Zenon, <1>1 DEF Drop
<1> QED BY Zenon, <1>2, PartialIntro

\* What the WireGuard and the policy handler put on their lists.
LEMMA RemoveList ==
    ASSUME NEW ids \in SUBSET PeerID, NEW s \in Orders(RemoveCalls(ids))
    PROVE  s \in Seq(ManagerCall) /\ Range(s) = RemoveCalls(ids) /\ OnePerPeer(s)
<1> DEFINE S == RemoveCalls(ids)
<1>1. S \subseteq ManagerCall /\ \A c, d \in S : c.id = d.id => c = d
  BY DEF RemoveCalls, Call, ManagerCall
<1> HIDE DEF S
<1>2. s \in Seq(S) /\ Range(s) = S /\ \A i, j \in 1 .. Len(s) : s[i] = s[j] => i = j
  BY Zenon, Ordering DEF S
<1>3. \A i \in 1 .. Len(s) : s[i] \in S
  BY <1>2
<1>4. s \in Seq(ManagerCall)
  BY <1>1, <1>2
<1> QED BY Zenon, <1>1, <1>2, <1>3, <1>4 DEF OnePerPeer, S

LEMMA PutList ==
    ASSUME NEW kind \in PutKind, NEW peers \in Partial(PeerID, PeerCfg),
           NEW s \in Orders(PutCalls(kind, peers))
    PROVE  s \in Seq(ManagerCall) /\ Range(s) = PutCalls(kind, peers) /\ OnePerPeer(s)
<1> DEFINE S == PutCalls(kind, peers)
           D == DOMAIN peers
<1>0. D \subseteq PeerID /\ peers \in [D -> PeerCfg]
  BY Zenon, PartialFunction
<1>1. S \subseteq ManagerCall /\ \A c, d \in S : c.id = d.id => c = d
  BY <1>0 DEF PutCalls, Call, ManagerCall
<1> HIDE DEF S
<1>2. s \in Seq(S) /\ Range(s) = S /\ \A i, j \in 1 .. Len(s) : s[i] = s[j] => i = j
  BY Zenon, Ordering DEF S
<1>3. \A i \in 1 .. Len(s) : s[i] \in S
  BY <1>2
<1>4. s \in Seq(ManagerCall)
  BY <1>1, <1>2
<1> QED BY Zenon, <1>1, <1>2, <1>3, <1>4 DEF OnePerPeer, S

----------------------------------------------------------------------------
(* MeshTypeInv is inductive.  Steps of the loop keep LoopOK; a step of the  *)
(* Manager, of a handler or of the SSE goroutine replaces one CallState.    *)

LEMMA CallReplaced ==
    ASSUME CallsOK, NEW g \in Goroutine, NEW r, CallOK(r), call' = [call EXCEPT ![g] = r]
    PROVE  CallsOK' /\ call'[g] = r /\ \A h \in Goroutine \ {g} : call'[h] = call[h]
BY Zenon DEF CallsOK, CallOK, Goroutine

LEMMA IdleOK == CallOK(Idle)
BY DEF CallOK, CallState, Idle

\* The loop's invariants survive whatever a handler does inside a cycle.
LEMMA LoopKept ==
    ASSUME LoopOK, UNCHANGED <<cp, pc, cycle, snapshot, trigger, cancelled, changes, owed, acked>>,
           faults' \in 0 .. MaxFaults
    PROVE  LoopOK'
BY Zenon DEF LoopOK, cycle, TypeOK, NextInRange, DiffIsCurrent

LEMMA LoopSteps ==
    ASSUME LoopOK, Tick \/ Fetch \/ ReportAndUpdate \/ FetchFails
    PROVE  LoopOK'
<1>1. Next
  BY Zenon DEF Next, Loop
<1> QED BY Zenon, <1>1, TypeStep, DiffCurrentStep DEF LoopOK

LEMMA LoopReturns ==
    ASSUME LoopOK, NEW ok \in BOOLEAN, HandlerReturns(ok), faults' = faults
    PROVE  LoopOK'
<1>1. faults' \in 0 .. MaxFaults
  BY Zenon DEF LoopOK, TypeOK
<1>2. TypeOK' /\ NextInRange'
  BY Zenon, <1>1, HandlerReturnsType DEF LoopOK
<1>3. DiffIsCurrent'
  BY Zenon DEF LoopOK, HandlerReturns, DiffIsCurrent
<1> QED BY Zenon, <1>2, <1>3 DEF LoopOK

LEMMA FaultsBound ==
    ASSUME LoopOK, CallFails PROVE faults' \in 0 .. MaxFaults
BY BoundsAssumption DEF LoopOK, TypeOK, CallFails

LEMMA ReturnedOK ==
    ASSUME CallsOK, NEW g \in Goroutine, call[g].todo # <<>>, NEW ok \in BOOLEAN
    PROVE  /\ CallOK(Returned(g, ok))
           /\ Returned(g, ok).todo = Tail(call[g].todo)
           /\ Returned(g, ok).busy = call[g].busy
           /\ Returned(g, ok).stage = "start"
           /\ Returned(g, ok).failed = (call[g].failed \/ ~ ok)
<1>1. call[g] \in CallState
  BY Zenon DEF CallsOK
<1>2. Tail(call[g].todo) \in Seq(ManagerCall)
  BY Zenon, <1>1, Rest DEF CallState
<1> QED BY Zenon, <1>1, <1>2 DEF Returned, CallOK, CallState

\* The call under way and its list.
LEMMA CurrentOK ==
    ASSUME CallsOK, NEW g \in Goroutine, call[g].todo # <<>>
    PROVE  /\ call[g] \in CallState /\ Current(g) \in ManagerCall
           /\ Current(g).id \in PeerID
           /\ Current(g).kind \in PutKind \cup {"RemovePeerByID"}
           /\ Current(g).kind \in PutKind => Current(g).cfg \in PeerCfg
           /\ Current(g).kind \notin PutKind => Current(g).kind = "RemovePeerByID"
<1>1. call[g] \in CallState
  BY Zenon DEF CallsOK
<1>2. Current(g) \in ManagerCall
  BY Zenon, <1>1, Rest DEF CallState, Current
<1> QED BY Zenon, <1>1, <1>2 DEF ManagerCall, PutKind

\* What a Manager step leaves of the list and of the goroutine's state.
ListKept(g) ==
    /\ \A h \in Goroutine \ {g} : call'[h] = call[h]
    /\ call'[g].busy = call[g].busy
    /\ call'[g].todo \in {call[g].todo, Tail(call[g].todo)}

LEMMA ManagerTypes ==
    ASSUME MeshTypeInv, NEW g \in Goroutine, ManagerStep(g)
    PROVE  CallsOK' /\ TablesOK' /\ ListKept(g)
<1>0. CallsOK /\ TablesOK /\ call[g] \in CallState /\ CallOK(call[g])
  BY Zenon DEF MeshTypeInv, CallsOK
<1>a. call[g].todo # <<>>
  BY Zenon DEF ManagerStep, LookUp, ControllerRemove, ControllerPut, ControllerFails, UpdateIndex
<1>b. /\ Current(g) \in ManagerCall /\ Current(g).id \in PeerID
      /\ Current(g).kind \in PutKind => Current(g).cfg \in PeerCfg
      /\ Current(g).kind \notin PutKind => Current(g).kind = "RemovePeerByID"
  BY Zenon, <1>0, <1>a, CurrentOK
<1>c. index \in [DOMAIN index -> PeerKey] /\ DOMAIN index \subseteq PeerID
  BY Zenon, <1>0, PartialFunction DEF TablesOK
<1>d. ASSUME NEW ok \in BOOLEAN, call' = [call EXCEPT ![g] = Returned(g, ok)]
      PROVE  CallsOK' /\ ListKept(g)
  <2>1. CallOK(Returned(g, ok))
    BY Zenon, <1>0, <1>a, ReturnedOK
  <2>2. CallsOK' /\ call'[g] = Returned(g, ok) /\ \A h \in Goroutine \ {g} : call'[h] = call[h]
    BY Zenon, <1>0, <1>d, <2>1, CallReplaced
  <2> QED BY ZenonT(30), <1>0, <1>a, <2>2, ReturnedOK DEF ListKept
<1>e. ASSUME NEW r, CallOK(r), call' = [call EXCEPT ![g] = r],
             r.busy = call[g].busy, r.todo = call[g].todo
      PROVE  CallsOK' /\ ListKept(g)
  BY ZenonT(30), <1>0, <1>e, CallReplaced DEF ListKept
<1>1. CASE LookUp(g)
  <2>1. TablesOK'
    BY Zenon, <1>0, <1>1 DEF LookUp, TablesOK
  <2>2. CASE Current(g).id \in DOMAIN index
    <3> DEFINE r == [call[g] EXCEPT !.stage = "controller", !.key = index[Current(g).id]]
    <3>1. call' = [call EXCEPT ![g] = r]
      BY Zenon, <1>1, <2>2 DEF LookUp
    <3>2. index[Current(g).id] \in PeerKey /\ index[Current(g).id][1] = Current(g).id
      BY Zenon, <1>0, <1>c, <2>2 DEF TablesOK
    <3>3. Current(g).kind = "RemovePeerByID"
      BY Zenon, <1>1 DEF LookUp
    <3>4. r \in CallState /\ r.todo = call[g].todo /\ r.busy = call[g].busy
          /\ r.stage = "controller" /\ r.key = index[Current(g).id]
      BY Zenon, <1>0, <3>2 DEF CallState
    <3>5. CallOK(r)
      BY Zenon, <1>a, <3>2, <3>3, <3>4 DEF CallOK, Current
    <3> HIDE DEF r
    <3> QED BY Zenon, <1>e, <2>1, <3>1, <3>4, <3>5
  <2>3. CASE Current(g).id \notin DOMAIN index
    <3>1. call' = [call EXCEPT ![g] = Returned(g, FALSE)]
      BY Zenon, <1>1, <2>3 DEF LookUp
    <3> QED BY Zenon, <1>d, <2>1, <3>1
  <2> QED BY Zenon, <2>2, <2>3
<1>2. CASE ControllerRemove(g)
  <2> DEFINE r == [call[g] EXCEPT !.stage = "index"]
  <2>1. call' = [call EXCEPT ![g] = r] /\ device' = Drop(device, call[g].key)
        /\ UNCHANGED <<env, index, allowed, firewall, events>>
    BY Zenon, <1>2 DEF ControllerRemove
  <2>2. device' \in Partial(PeerKey, Endpoint)
    BY Zenon, <1>0, <2>1, DropPartial DEF TablesOK
  <2>3. TablesOK'
    BY Zenon, <1>0, <2>1, <2>2 DEF TablesOK
  <2>4. call[g].stage = "controller"
    BY Zenon, <1>2 DEF ControllerRemove
  <2>5. r \in CallState /\ r.todo = call[g].todo /\ r.busy = call[g].busy
        /\ r.stage = "index" /\ r.key = call[g].key
    BY Zenon, <1>0 DEF CallState
  <2>6. CallOK(r)
    BY Zenon, <1>0, <2>4, <2>5 DEF CallOK
  <2> HIDE DEF r
  <2> QED BY Zenon, <1>e, <2>1, <2>3, <2>5, <2>6
<1>3. CASE ControllerPut(g)
  <2> DEFINE c == Current(g)
             k == PublicKey(c.id, c.cfg)
             r == [call[g] EXCEPT !.stage = "index", !.key = k]
  <2>1. call' = [call EXCEPT ![g] = r] /\ device' = Put(device, k, c.cfg.endpoint)
        /\ UNCHANGED <<env, index, allowed, firewall, events>>
    BY Zenon, <1>3 DEF ControllerPut
  <2>2. c.cfg \in PeerCfg
    BY Zenon, <1>3, <1>b DEF ControllerPut, PutKind
  <2>3. k \in PeerKey /\ k[1] = c.id /\ c.cfg.endpoint \in Endpoint
    BY Zenon, <1>b, <2>2 DEF PublicKey, PeerKey, Endpoint
  <2>4. device' \in Partial(PeerKey, Endpoint)
    BY Zenon, <1>0, <2>1, <2>3, PutPartial DEF TablesOK
  <2>5. TablesOK'
    BY Zenon, <1>0, <2>1, <2>4 DEF TablesOK
  <2>6. r \in CallState /\ r.todo = call[g].todo /\ r.busy = call[g].busy
        /\ r.stage = "index" /\ r.key = k
    BY Zenon, <1>0, <2>3 DEF CallState
  <2>7. CallOK(r)
    BY Zenon, <1>a, <2>3, <2>6 DEF CallOK, Current
  <2> HIDE DEF r
  <2> QED BY Zenon, <1>e, <2>1, <2>5, <2>6, <2>7
<1>4. CASE ControllerFails(g)
  <2>1. call' = [call EXCEPT ![g] = Returned(g, FALSE)]
        /\ UNCHANGED <<env, device, index, allowed, firewall, events>>
    BY Zenon, <1>4 DEF ControllerFails
  <2> QED BY Zenon, <1>0, <1>d, <2>1 DEF TablesOK
<1>5. CASE UpdateIndex(g)
  <2>1. call' = [call EXCEPT ![g] = Returned(g, TRUE)]
        /\ UNCHANGED <<env, device, allowed, firewall, events>> /\ call[g].stage = "index"
    BY Zenon, <1>5 DEF UpdateIndex
  <2>2. call[g].key \in PeerKey /\ call[g].key[1] = Current(g).id
    BY Zenon, <1>0, <2>1 DEF CallOK, Current
  <2>3. index' \in Partial(PeerID, PeerKey) /\ \A p \in DOMAIN index' : index'[p][1] = p
    <3>1. CASE index' = Drop(index, Current(g).id)
      <4>1. /\ index' \in Partial(PeerID, PeerKey)
            /\ DOMAIN index' = DOMAIN index \ {Current(g).id}
            /\ \A p \in DOMAIN index : p # Current(g).id => index'[p] = index[p]
        <5>1. index \in Partial(PeerID, PeerKey)
          BY Zenon, <1>0 DEF TablesOK
        <5> QED BY Zenon, <3>1, <5>1, DropPartial DEF Drop
      <4> QED BY Zenon, <1>0, <4>1 DEF TablesOK
    <3>2. CASE index' = Put(index, Current(g).id, call[g].key)
      <4>1. /\ index' \in Partial(PeerID, PeerKey)
            /\ DOMAIN index' = DOMAIN index \cup {Current(g).id}
            /\ index'[Current(g).id] = call[g].key
            /\ \A p \in DOMAIN index : p # Current(g).id => index'[p] = index[p]
        <5>1. index \in Partial(PeerID, PeerKey)
          BY Zenon, <1>0 DEF TablesOK
        <5>2. index' \in Partial(PeerID, PeerKey)
          BY Zenon, <1>b, <2>2, <3>2, <5>1, PutPartial
        <5>3. index' = [j \in DOMAIN index \cup {Current(g).id} |->
                           IF j = Current(g).id THEN call[g].key ELSE index[j]]
          BY Zenon, <3>2 DEF Put
        <5> QED BY Zenon, <5>2, <5>3
      <4> QED BY SMTT(30), <1>0, <2>2, <4>1 DEF TablesOK
    <3> QED BY Zenon, <1>5, <3>1, <3>2 DEF UpdateIndex
  <2>4. TablesOK'
    BY ZenonT(30), <1>0, <2>1, <2>3 DEF TablesOK
  <2> QED BY ZenonT(30), <1>d, <2>1, <2>4
<1> QED BY Zenon, <1>1, <1>2, <1>3, <1>4, <1>5 DEF ManagerStep

\* The parts of the diff a cycle works from.
LEMMA DiffParts ==
    ASSUME LoopOK, pc = "handlers"
    PROVE  /\ diff.peersToRemove = Removed(desired.peers, snapshot.peers)
           /\ diff.peersToUpdate = PeersToUpdate(desired.peers, snapshot.peers)
           /\ diff.peersToAdd = Added(desired.peers, snapshot.peers)
           /\ diff.policiesToAdd = Added(desired.policies, snapshot.policies)
           /\ diff.policiesToRemove = Removed(desired.policies, snapshot.policies)
<1>1. diff = ComputeDiff(desired, snapshot)
  BY Zenon DEF LoopOK, DiffIsCurrent
<1>2. ASSUME NEW d, d = ComputeDiff(desired, snapshot)
      PROVE  /\ d.peersToRemove = Removed(desired.peers, snapshot.peers)
             /\ d.peersToUpdate = PeersToUpdate(desired.peers, snapshot.peers)
             /\ d.peersToAdd = Added(desired.peers, snapshot.peers)
             /\ d.policiesToAdd = Added(desired.policies, snapshot.policies)
             /\ d.policiesToRemove = Removed(desired.policies, snapshot.policies)
  BY Zenon, <1>2 DEF ComputeDiff
<1> QED BY Zenon, <1>1, <1>2

\* The calls of the WireGuard handler: about different peers, the ones the
\* diff names.
LEMMA WireGuardList ==
    ASSUME LoopOK, pc = "handlers",
           NEW rs \in Orders(RemoveCalls(diff.peersToRemove)),
           NEW us \in Orders(PutCalls("UpdatePeer", diff.peersToUpdate)),
           NEW as \in Orders(PutCalls("AddPeer", diff.peersToAdd))
    PROVE  /\ rs \o us \o as \in Seq(ManagerCall)
           /\ OnePerPeer(rs \o us \o as)
           /\ Range(rs \o us \o as) = RemoveCalls(diff.peersToRemove)
                  \cup PutCalls("UpdatePeer", diff.peersToUpdate)
                  \cup PutCalls("AddPeer", diff.peersToAdd)
<1> DEFINE f == desired.peers
           g == snapshot.peers
<1>1. f \in Partial(PeerID, PeerCfg) /\ g \in Partial(PeerID, PeerCfg)
  BY Zenon DEF LoopOK, TypeOK, StateResponse
<1>2. f \in [DOMAIN f -> PeerCfg] /\ DOMAIN f \subseteq PeerID /\ DOMAIN g \subseteq PeerID
  BY Zenon, <1>1, PartialFunction
<1>3. /\ diff.peersToRemove = Removed(f, g)
      /\ diff.peersToUpdate = PeersToUpdate(f, g)
      /\ diff.peersToAdd = Added(f, g)
  BY Zenon, DiffParts
<1> HIDE DEF f, g
<1>4. /\ diff.peersToRemove = DOMAIN g \ DOMAIN f
      /\ DOMAIN diff.peersToAdd = DOMAIN f \ DOMAIN g
      /\ DOMAIN diff.peersToUpdate \subseteq DOMAIN f \cap DOMAIN g
  BY Zenon, <1>3 DEF Removed, Added, PeersToUpdate
<1>5. diff.peersToAdd \in Partial(PeerID, PeerCfg)
  <2>1. diff.peersToAdd \in [DOMAIN f \ DOMAIN g -> PeerCfg]
    BY Zenon, <1>2, <1>3 DEF Added
  <2> QED BY Zenon, <1>2, <2>1, PartialIntro
<1>6. diff.peersToUpdate \in Partial(PeerID, PeerCfg)
  <2>1. diff.peersToUpdate \in [{j \in DOMAIN f \cap DOMAIN g : f[j] # g[j]} -> PeerCfg]
    BY Zenon, <1>2, <1>3 DEF PeersToUpdate
  <2> QED BY ZenonT(30), <1>2, <2>1, PartialIntro
<1>7. rs \in Seq(ManagerCall) /\ Range(rs) = RemoveCalls(diff.peersToRemove) /\ OnePerPeer(rs)
  BY Zenon, <1>2, <1>4, RemoveList
<1>8. us \in Seq(ManagerCall) /\ Range(us) = PutCalls("UpdatePeer", diff.peersToUpdate) /\ OnePerPeer(us)
  BY Zenon, <1>6, PutList DEF PutKind
<1>9. as \in Seq(ManagerCall) /\ Range(as) = PutCalls("AddPeer", diff.peersToAdd) /\ OnePerPeer(as)
  BY Zenon, <1>5, PutList DEF PutKind
<1>10. /\ \A c \in Range(rs) : c.id \in DOMAIN g \ DOMAIN f
       /\ \A c \in Range(us) : c.id \in DOMAIN f \cap DOMAIN g
       /\ \A c \in Range(as) : c.id \in DOMAIN f \ DOMAIN g
  <2>1. ASSUME NEW c \in Range(rs) PROVE c.id \in DOMAIN g \ DOMAIN f
    <3>1. PICK p \in diff.peersToRemove : c = Call("RemovePeerByID", p, NoCfg)
      BY Zenon, <1>7 DEF RemoveCalls
    <3>2. c.id = p
      BY Zenon, <3>1 DEF Call
    <3> QED BY Zenon, <1>4, <3>2
  <2>2. ASSUME NEW c \in Range(us) PROVE c.id \in DOMAIN f \cap DOMAIN g
    <3>1. PICK p \in DOMAIN diff.peersToUpdate : c = Call("UpdatePeer", p, diff.peersToUpdate[p])
      BY Zenon, <1>8 DEF PutCalls
    <3>2. c.id = p
      BY Zenon, <3>1 DEF Call
    <3> QED BY Zenon, <1>4, <3>2
  <2>3. ASSUME NEW c \in Range(as) PROVE c.id \in DOMAIN f \ DOMAIN g
    <3>1. PICK p \in DOMAIN diff.peersToAdd : c = Call("AddPeer", p, diff.peersToAdd[p])
      BY Zenon, <1>9 DEF PutCalls
    <3>2. c.id = p
      BY Zenon, <3>1 DEF Call
    <3> QED BY Zenon, <1>4, <3>2
  <2> QED BY ZenonT(30), <2>1, <2>2, <2>3
<1>11. \A c \in Range(rs), d \in Range(us) : c.id # d.id
  BY Zenon, <1>10
<1>12. /\ rs \o us \in Seq(ManagerCall) /\ OnePerPeer(rs \o us)
       /\ Range(rs \o us) = Range(rs) \cup Range(us)
  BY Zenon, <1>7, <1>8, <1>11, Joined
<1>13. \A c \in Range(rs \o us), d \in Range(as) : c.id # d.id
  BY Zenon, <1>10, <1>12
<1>14. /\ rs \o us \o as \in Seq(ManagerCall) /\ OnePerPeer(rs \o us \o as)
       /\ Range(rs \o us \o as) = Range(rs \o us) \cup Range(as)
  BY Zenon, <1>9, <1>12, <1>13, Joined
<1> QED BY ZenonT(30), <1>7, <1>8, <1>9, <1>12, <1>14

\* The calls of the policy handler.
NewAllowed == FilterPeers(desired.peers, desired.policies)
AddCalls(ids) == {Call("AddPeer", p, desired.peers[p]) : p \in ids}

LEMMA PolicyList ==
    ASSUME LoopOK, TablesOK,
           NEW rs \in Orders(RemoveCalls(allowed \ NewAllowed)),
           NEW as \in Orders(AddCalls(NewAllowed \ allowed))
    PROVE  /\ NewAllowed \subseteq PeerID
           /\ rs \o as \in Seq(ManagerCall)
           /\ OnePerPeer(rs \o as)
           /\ Range(rs \o as) = RemoveCalls(allowed \ NewAllowed) \cup AddCalls(NewAllowed \ allowed)
<1> DEFINE f == desired.peers
           D == NewAllowed \ allowed
           peers == [p \in D |-> f[p]]
<1>1. f \in Partial(PeerID, PeerCfg)
  BY Zenon DEF LoopOK, TypeOK, StateResponse
<1>2. f \in [DOMAIN f -> PeerCfg] /\ DOMAIN f \subseteq PeerID
  BY Zenon, <1>1, PartialFunction
<1>3. NewAllowed \subseteq DOMAIN f
  BY Zenon DEF NewAllowed, FilterPeers
<1>4. peers \in Partial(PeerID, PeerCfg)
  <2>1. peers \in [D -> PeerCfg] /\ D \in SUBSET PeerID
    BY Zenon, <1>2, <1>3
  <2> QED BY Zenon, <2>1, PartialIntro
<1>5. AddCalls(D) = PutCalls("AddPeer", peers)
  BY Zenon DEF AddCalls, PutCalls
<1> HIDE DEF f, peers
<1>6. as \in Seq(ManagerCall) /\ Range(as) = AddCalls(D) /\ OnePerPeer(as)
  BY Zenon, <1>4, <1>5, PutList DEF PutKind
<1>7. rs \in Seq(ManagerCall) /\ Range(rs) = RemoveCalls(allowed \ NewAllowed) /\ OnePerPeer(rs)
  BY Zenon, RemoveList DEF TablesOK
<1>8. /\ \A c \in Range(rs) : c.id \in allowed
      /\ \A c \in Range(as) : c.id \notin allowed
  BY <1>6, <1>7 DEF RemoveCalls, AddCalls, Call
<1>9. \A c \in Range(rs), d \in Range(as) : c.id # d.id
  BY Zenon, <1>8
<1>10. /\ rs \o as \in Seq(ManagerCall) /\ OnePerPeer(rs \o as)
       /\ Range(rs \o as) = Range(rs) \cup Range(as)
  BY Zenon, <1>6, <1>7, <1>9, Joined
<1> QED BY Zenon, <1>2, <1>3, <1>6, <1>7, <1>10

LEMMA MeshTypeInit == MeshInit => MeshTypeInv
<1> SUFFICES ASSUME MeshInit PROVE MeshTypeInv
  BY Zenon
<1>1. LoopOK
  BY Zenon, TypeInit DEF MeshInit, Init, LoopOK, DiffIsCurrent
<1>2. CallsOK /\ call["reconcile"] = Idle
  BY Zenon, IdleOK DEF MeshInit, CallsOK, CallOK, Goroutine
<1>3. \A K, V : NoEntries \in Partial(K, V) /\ DOMAIN NoEntries = {}
  BY ZenonT(30) DEF NoEntries, Partial
<1>4. TablesOK
  BY <1>3 DEF MeshInit, TablesOK
<1>5. HandlerOK
  BY <1>2 DEF HandlerOK, Running, Idle
<1> QED BY Zenon, <1>1, <1>2, <1>4, <1>5 DEF MeshTypeInv

\* Changes of the control plane and their events.
LEMMA ChangeTypes ==
    ASSUME MeshTypeInv, NEW s \in StateResponse, NEW es \in Seq(PeerEvent), ChangeState(s, es)
    PROVE  MeshTypeInv'
<1>1. LoopOK'
  <2>1. /\ UNCHANGED <<pc, desired, diff, next, handlerFailed, snapshot, trigger, cancelled, faults, owed, acked>>
        /\ cp' = s /\ changes < MaxChanges /\ changes' = changes + 1
    BY Zenon DEF ChangeState, cycle
  <2>2. changes' \in 0 .. MaxChanges
    BY <2>1, BoundsAssumption DEF MeshTypeInv, LoopOK, TypeOK
  <2>3. TypeOK'
    BY Zenon, <2>1, <2>2 DEF MeshTypeInv, LoopOK, TypeOK
  <2>4. NextInRange' /\ DiffIsCurrent'
    BY Zenon, <2>1 DEF MeshTypeInv, LoopOK, NextInRange, DiffIsCurrent
  <2> QED BY Zenon, <2>3, <2>4 DEF LoopOK
<1>2. events' \in Seq(PeerEvent)
  BY DEF MeshTypeInv, TablesOK, ChangeState, Announce
<1>3. UNCHANGED <<pc, env, device, index, allowed, firewall, call>>
  BY Zenon DEF ChangeState
<1>4. TablesOK'
  BY Zenon, <1>2, <1>3 DEF MeshTypeInv, TablesOK
<1>5. CallsOK' /\ HandlerOK'
  BY Zenon, <1>3 DEF MeshTypeInv, CallsOK, HandlerOK, Running
<1> QED BY Zenon, <1>1, <1>4, <1>5 DEF MeshTypeInv

\* The changes are changes of one field, and their events name the new value.
LEMMA ChangesOK ==
    ASSUME MeshTypeInv,
           \/ \E p \in PeerID, c \in PeerCfg : AddOrChangePeer(p, c)
           \/ \E p \in PeerID : DeletePeer(p)
           \/ \E q \in PolicyID, r \in Rules : ChangePolicy(q, r)
           \/ \E q \in PolicyID : DeletePolicy(q)
           \/ \E m \in Metadata : ChangeMetadata(m)
    PROVE  \E s \in StateResponse, es \in Seq(PeerEvent) : ChangeState(s, es)
<1>1. cp \in StateResponse
  BY Zenon DEF MeshTypeInv, LoopOK, TypeOK
<1>2. cp.peers \in Partial(PeerID, PeerCfg) /\ cp.policies \in Partial(PolicyID, Rules)
  BY Zenon, <1>1 DEF StateResponse
<1>3. /\ \A v \in Partial(PeerID, PeerCfg) : [cp EXCEPT !.peers = v] \in StateResponse
      /\ \A v \in Partial(PolicyID, Rules) : [cp EXCEPT !.policies = v] \in StateResponse
      /\ \A v \in Metadata : [cp EXCEPT !.metadata = v] \in StateResponse
  BY Zenon, <1>1 DEF StateResponse
<1>4. <<>> \in Seq(PeerEvent) /\ \A e \in PeerEvent : <<e>> \in Seq(PeerEvent)
  OBVIOUS
<1>5. ASSUME NEW p \in PeerID, NEW c \in PeerCfg, AddOrChangePeer(p, c)
      PROVE  \E s \in StateResponse, es \in Seq(PeerEvent) : ChangeState(s, es)
  <2> DEFINE type == IF p \notin DOMAIN cp.peers THEN "peer_added"
                     ELSE IF cp.peers[p].key # c.key THEN "peer_key_rotated"
                     ELSE "peer_endpoint_changed"
  <2>1. Put(cp.peers, p, c) \in Partial(PeerID, PeerCfg)
    BY Zenon, <1>2, PutPartial
  <2>2. type \in {"peer_added", "peer_key_rotated", "peer_endpoint_changed"}
    BY Zenon
  <2>3. ChangeState([cp EXCEPT !.peers = Put(cp.peers, p, c)], <<Event(type, p, c)>>)
    BY Zenon, <1>5 DEF AddOrChangePeer
  <2> HIDE DEF type
  <2>4. Event(type, p, c) \in PeerEvent
    BY Zenon, <2>2 DEF Event, PeerEvent
  <2> QED BY ZenonT(30), <1>3, <1>4, <2>1, <2>3, <2>4
<1>6. ASSUME NEW p \in PeerID, DeletePeer(p)
      PROVE  \E s \in StateResponse, es \in Seq(PeerEvent) : ChangeState(s, es)
  <2>1. Drop(cp.peers, p) \in Partial(PeerID, PeerCfg)
    BY Zenon, <1>2, DropPartial
  <2>2. ChangeState([cp EXCEPT !.peers = Drop(cp.peers, p)], <<Event("peer_removed", p, NoCfg)>>)
    BY Zenon, <1>6 DEF DeletePeer
  <2>3. Event("peer_removed", p, NoCfg) \in PeerEvent
    BY Zenon DEF Event, PeerEvent
  <2> QED BY ZenonT(30), <1>3, <1>4, <2>1, <2>2, <2>3
<1>7. ASSUME NEW q \in PolicyID, NEW r \in Rules, ChangePolicy(q, r)
      PROVE  \E s \in StateResponse, es \in Seq(PeerEvent) : ChangeState(s, es)
  <2>1. Put(cp.policies, q, r) \in Partial(PolicyID, Rules)
    BY Zenon, <1>2, PutPartial
  <2>2. ChangeState([cp EXCEPT !.policies = Put(cp.policies, q, r)], <<>>)
    BY Zenon, <1>7 DEF ChangePolicy
  <2> QED BY ZenonT(30), <1>3, <1>4, <2>1, <2>2
<1>8. ASSUME NEW q \in PolicyID, DeletePolicy(q)
      PROVE  \E s \in StateResponse, es \in Seq(PeerEvent) : ChangeState(s, es)
  <2>1. Drop(cp.policies, q) \in Partial(PolicyID, Rules)
    BY Zenon, <1>2, DropPartial
  <2>2. ChangeState([cp EXCEPT !.policies = Drop(cp.policies, q)], <<>>)
    BY Zenon, <1>8 DEF DeletePolicy
  <2> QED BY ZenonT(30), <1>3, <1>4, <2>1, <2>2
<1>9. ASSUME NEW m \in Metadata, ChangeMetadata(m)
      PROVE  \E s \in StateResponse, es \in Seq(PeerEvent) : ChangeState(s, es)
  BY ZenonT(30), <1>3, <1>4, <1>9 DEF ChangeMetadata
<1> QED BY Zenon, <1>5, <1>6, <1>7, <1>8, <1>9

LEMMA EventCallsOK ==
    ASSUME NEW e \in PeerEvent PROVE EventCalls(e) \in Seq(ManagerCall)
<1>1. e.id \in PeerID /\ (e.type # "peer_removed" => e.cfg \in PeerCfg)
  BY Zenon DEF PeerEvent
<1>2. e.type \in {"peer_removed", "peer_added", "peer_key_rotated", "peer_endpoint_changed"}
  BY Zenon DEF PeerEvent
<1>3. Call("RemovePeerByID", e.id, NoCfg) \in ManagerCall
  BY Zenon, <1>1 DEF Call, ManagerCall
<1>4. e.type # "peer_removed" =>
        Call("AddPeer", e.id, e.cfg) \in ManagerCall /\ Call("UpdatePeer", e.id, e.cfg) \in ManagerCall
  BY Zenon, <1>1 DEF Call, ManagerCall, PutKind
<1>5. \A c, d \in ManagerCall : <<c>> \in Seq(ManagerCall) /\ <<c, d>> \in Seq(ManagerCall)
  OBVIOUS
<1> QED BY Zenon, <1>2, <1>3, <1>4, <1>5 DEF EventCalls

\* A handler starts with a list of calls.
LEMMA StartTypes ==
    ASSUME MeshTypeInv, pc = "handlers", pc' = "handlers", NEW todo \in Seq(ManagerCall),
           NEW failed \in BOOLEAN, Start(todo, failed)
    PROVE  /\ CallsOK' /\ HandlerOK' /\ Running'
           /\ call'["reconcile"].todo = todo /\ call'["reconcile"].failed = failed
           /\ call'["reconcile"].stage = "start" /\ call'["sse"] = call["sse"]
<1> DEFINE r == [Idle EXCEPT !.todo = todo, !.failed = failed, !.busy = TRUE]
<1>1. /\ CallOK(r) /\ r.busy /\ r.todo = todo /\ r.failed = failed /\ r.stage = "start"
  BY Zenon DEF CallOK, CallState, Idle
<1>2. call' = [call EXCEPT !["reconcile"] = r]
  BY Zenon DEF Start
<1> HIDE DEF r
<1>3. CallsOK' /\ call'["reconcile"] = r /\ call'["sse"] = call["sse"]
  BY ZenonT(30), <1>1, <1>2, CallReplaced DEF MeshTypeInv, Goroutine
<1> QED BY Zenon, <1>1, <1>3 DEF HandlerOK, Running

\* A handler returns.
LEMMA DoneTypes ==
    ASSUME MeshTypeInv, HandlerDone
    PROVE  /\ LoopOK' /\ CallsOK' /\ HandlerOK' /\ ~ Running'
           /\ call'["reconcile"] = Idle /\ call'["sse"] = call["sse"]
<1>1. HandlerReturns(~ call["reconcile"].failed) /\ faults' = faults
      /\ call' = [call EXCEPT !["reconcile"] = Idle]
  BY Zenon DEF HandlerDone
<1>2. call["reconcile"].failed \in BOOLEAN
  BY Zenon DEF MeshTypeInv, CallsOK, CallState, Goroutine
<1>3. (~ call["reconcile"].failed) \in BOOLEAN
  BY Zenon, <1>2
<1>4. LoopOK'
  BY Zenon, <1>1, <1>3, LoopReturns DEF MeshTypeInv
<1>5. CallsOK' /\ call'["reconcile"] = Idle /\ call'["sse"] = call["sse"]
  BY Zenon, <1>1, IdleOK, CallReplaced DEF MeshTypeInv, Goroutine
<1> QED BY SMTT(30), <1>4, <1>5 DEF HandlerOK, Running, Idle

LEMMA MeshTypeStep == MeshTypeInv /\ [MeshNext]_meshVars => MeshTypeInv'
<1> SUFFICES ASSUME MeshTypeInv, [MeshNext]_meshVars PROVE MeshTypeInv'
  BY Zenon
<1>0. LoopOK /\ CallsOK /\ TablesOK /\ HandlerOK
  BY Zenon DEF MeshTypeInv
<1>1. CASE \/ \E p \in PeerID, c \in PeerCfg : AddOrChangePeer(p, c)
           \/ \E p \in PeerID : DeletePeer(p)
           \/ \E q \in PolicyID, r \in Rules : ChangePolicy(q, r)
           \/ \E q \in PolicyID : DeletePolicy(q)
           \/ \E m \in Metadata : ChangeMetadata(m)
  BY Zenon, <1>1, ChangesOK, ChangeTypes
<1>2. CASE DeliverEvent
  <2> DEFINE r == [Idle EXCEPT !.todo = EventCalls(Head(events))]
  <2>1. call' = [call EXCEPT !["sse"] = r] /\ events' = Tail(events) /\ events # <<>>
        /\ UNCHANGED <<vars, env, device, index, allowed, firewall>>
    BY Zenon, <1>2 DEF DeliverEvent
  <2>2. Head(events) \in PeerEvent /\ Tail(events) \in Seq(PeerEvent)
    BY <1>0, <2>1 DEF TablesOK
  <2>3. EventCalls(Head(events)) \in Seq(ManagerCall)
    BY Zenon, <2>2, EventCallsOK
  <2>4. CallOK(r)
    BY Zenon, <2>3 DEF CallOK, CallState, Idle
  <2> HIDE DEF r
  <2>5. CallsOK' /\ call'["reconcile"] = call["reconcile"]
    BY ZenonT(30), <1>0, <2>1, <2>4, CallReplaced DEF Goroutine
  <2>6. LoopOK' /\ pc' = pc
    BY Zenon, <1>0, <2>1, LoopKept DEF vars, bounds, LoopOK, TypeOK
  <2>7. TablesOK'
    BY Zenon, <1>0, <2>1, <2>2 DEF TablesOK
  <2>8. HandlerOK'
    BY Zenon, <1>0, <2>5, <2>6 DEF HandlerOK, Running
  <2> QED BY Zenon, <2>5, <2>6, <2>7, <2>8 DEF MeshTypeInv
<1>3. CASE LoseEvent
  <2>1. events' = Tail(events) /\ events # <<>>
        /\ UNCHANGED <<vars, env, device, index, allowed, firewall, call>>
    BY ZenonT(30), <1>3 DEF LoseEvent
  <2>2. TablesOK'
    BY SMTT(30), <1>0, <2>1 DEF TablesOK
  <2>3. LoopOK' /\ pc' = pc
    BY Zenon, <1>0, <2>1, LoopKept DEF vars, bounds, LoopOK, TypeOK
  <2> QED BY Zenon, <1>0, <2>1, <2>2, <2>3 DEF MeshTypeInv, CallsOK, HandlerOK, Running
<1>4. CASE (Tick \/ Fetch \/ ReportAndUpdate \/ FetchFails) /\ UNCHANGED mesh
  <2>1. UNCHANGED <<env, device, index, allowed, firewall, call, events>>
    BY Zenon, <1>4 DEF mesh
  <2>2. LoopOK'
    BY Zenon, <1>0, <1>4, LoopSteps
  <2>3. ~ Running
    BY Zenon, <1>0, <1>4 DEF HandlerOK, Tick, Fetch, ReportAndUpdate, FetchFails
  <2>4. HandlerOK'
    BY Zenon, <1>0, <2>1, <2>3 DEF HandlerOK, Running
  <2> QED BY Zenon, <1>0, <2>1, <2>2, <2>4 DEF MeshTypeInv, CallsOK, TablesOK
<1>5. CASE WireGuardHandler
  <2>1. PICK rs \in Orders(RemoveCalls(diff.peersToRemove)),
             us \in Orders(PutCalls("UpdatePeer", diff.peersToUpdate)),
             as \in Orders(PutCalls("AddPeer", diff.peersToAdd)) :
             Start(rs \o us \o as, FALSE)
    BY ZenonT(30), <1>5 DEF WireGuardHandler
  <2>2. pc = "handlers" /\ UNCHANGED <<vars, env, device, index, allowed, firewall, events>>
    BY Zenon, <1>5 DEF WireGuardHandler
  <2>3. LoopOK' /\ pc' = pc
    BY Zenon, <1>0, <2>2, LoopKept DEF vars, bounds, LoopOK, TypeOK
  <2>4. rs \o us \o as \in Seq(ManagerCall)
    BY ZenonT(30), <1>0, <2>2, WireGuardList
  <2>5. CallsOK' /\ HandlerOK'
    BY ZenonT(30), <2>1, <2>2, <2>3, <2>4, StartTypes
  <2> QED BY ZenonT(30), <1>0, <2>2, <2>3, <2>5 DEF MeshTypeInv, TablesOK
<1>6. CASE PolicyHandlerSkips
  <2>1. HandlerReturns(TRUE) /\ faults' = faults /\ ~ Running
        /\ UNCHANGED <<env, device, index, allowed, firewall, call, events>>
    BY Zenon, <1>6 DEF PolicyHandlerSkips, mesh
  <2>2. LoopOK'
    BY ZenonT(30), <1>0, <2>1, LoopReturns
  <2>3. HandlerOK'
    BY Zenon, <1>0, <2>1 DEF HandlerOK, Running
  <2> QED BY Zenon, <1>0, <2>1, <2>2, <2>3 DEF MeshTypeInv, CallsOK, TablesOK
<1>7. CASE PolicyHandler
  <2>1. PICK rs \in Orders(RemoveCalls(allowed \ NewAllowed)),
             as \in Orders(AddCalls(NewAllowed \ allowed)) :
             \/ firewall' = desired.policies /\ Start(rs \o as, FALSE) /\ UNCHANGED faults
             \/ CallFails /\ Start(rs \o as, TRUE) /\ UNCHANGED firewall
    BY ZenonT(30), <1>7 DEF PolicyHandler, NewAllowed, AddCalls
  <2>2. /\ pc = "handlers"
        /\ UNCHANGED <<cp, pc, cycle, snapshot, trigger, cancelled, changes, owed, acked>>
        /\ UNCHANGED <<env, device, index, allowed, events>>
    BY Zenon, <1>7 DEF PolicyHandler
  <2>3. LoopOK' /\ pc' = pc
    <3>1. faults' \in 0 .. MaxFaults
      BY Zenon, <1>0, <2>1, FaultsBound DEF LoopOK, TypeOK
    <3> QED BY Zenon, <1>0, <2>2, <3>1, LoopKept
  <2>4. rs \o as \in Seq(ManagerCall)
    BY ZenonT(30), <1>0, PolicyList
  <2>5. CallsOK' /\ HandlerOK'
    BY Zenon, <2>1, <2>2, <2>3, <2>4, StartTypes
  <2>6. firewall' \in Partial(PolicyID, Rules)
    <3>1. desired.policies \in Partial(PolicyID, Rules)
      BY Zenon, <1>0 DEF LoopOK, TypeOK, StateResponse
    <3> QED BY ZenonT(30), <1>0, <2>1, <3>1 DEF TablesOK
  <2> QED BY Zenon, <1>0, <2>2, <2>3, <2>5, <2>6 DEF MeshTypeInv, TablesOK
<1>8. CASE HandlerDone
  <2>1. LoopOK' /\ CallsOK' /\ HandlerOK'
    BY Zenon, <1>8, DoneTypes
  <2>2. FilterPeers(desired.peers, desired.policies) \subseteq PeerID
    <3>1. desired.peers \in Partial(PeerID, PeerCfg)
      BY Zenon, <1>0 DEF LoopOK, TypeOK, StateResponse
    <3>2. DOMAIN desired.peers \subseteq PeerID
      BY Zenon, <3>1, PartialFunction
    <3> QED BY Zenon, <3>2 DEF FilterPeers
  <2>3. allowed' \subseteq PeerID /\ UNCHANGED <<env, device, index, firewall, events>>
    BY Zenon, <1>0, <1>8, <2>2 DEF HandlerDone, TablesOK
  <2> QED BY Zenon, <1>0, <2>1, <2>3 DEF MeshTypeInv, TablesOK
<1>9. ASSUME NEW g \in Goroutine, ManagerStep(g) PROVE MeshTypeInv'
  <2>1. CallsOK' /\ TablesOK' /\ ListKept(g)
    BY Zenon, <1>9, ManagerTypes
  <2>2. /\ UNCHANGED <<cp, pc, cycle, snapshot, trigger, cancelled, changes, owed, acked>>
        /\ CallFails \/ UNCHANGED faults
        /\ call[g].todo # <<>>
    BY ZenonT(30), <1>9 DEF ManagerStep, LookUp, ControllerRemove, ControllerPut, ControllerFails, UpdateIndex,
                vars, bounds
  <2>3. LoopOK'
    <3>1. faults' \in 0 .. MaxFaults
      BY Zenon, <1>0, <2>2, FaultsBound DEF LoopOK, TypeOK
    <3> QED BY Zenon, <1>0, <2>2, <3>1, LoopKept
  <2>4. HandlerOK'
    BY ZenonT(30), <1>0, <2>1, <2>2 DEF HandlerOK, Running, ListKept, Goroutine
  <2> QED BY Zenon, <2>1, <2>3, <2>4 DEF MeshTypeInv
<1>10. CASE UNCHANGED meshVars
  <2>1. UNCHANGED <<vars, env, device, index, allowed, firewall, call, events>>
    BY Zenon, <1>10 DEF meshVars, mesh
  <2>2. LoopOK' /\ pc' = pc
    BY Zenon, <1>0, <2>1, LoopKept DEF vars, bounds, LoopOK, TypeOK
  <2> QED BY Zenon, <1>0, <2>1, <2>2 DEF MeshTypeInv, CallsOK, TablesOK, HandlerOK, Running
<1> QED BY Zenon, <1>1, <1>2, <1>3, <1>4, <1>5, <1>6, <1>7, <1>8, <1>9, <1>10 DEF MeshNext

\* The peer tables hold what the control plane can send, with SSE handlers
\* beside the loop as well, and a handler's calls are over when it returns.
THEOREM MeshTypeCorrect == MeshSpec => []MeshTypeOK
<1>1. MeshTypeInv => MeshTypeOK
  BY Zenon DEF MeshTypeInv, LoopOK, CallsOK, TablesOK, HandlerOK, MeshTypeOK, PeerKey, Endpoint, CallState
<1> QED BY <1>1, MeshTypeInit, MeshTypeStep, PTL DEF MeshSpec

----------------------------------------------------------------------------
(* Without SSE events the reconcile goroutine is the only caller of the     *)
(* Manager.                                                                 *)

NoEvents == \A e \in Environments : "events" \notin e

Undisturbed == "events" \notin env /\ events = <<>> /\ call["sse"].todo = <<>>

Mine == call["reconcile"]

\* No step changes the circumstances of a behaviour.
LEMMA SameSurroundings == [MeshNext]_meshVars => env' = env
BY Zenon
   DEF MeshNext, AddOrChangePeer, DeletePeer, ChangePolicy, DeletePolicy, ChangeMetadata, ChangeState,
       DeliverEvent, LoseEvent, WireGuardHandler, PolicyHandlerSkips, PolicyHandler, HandlerDone,
       ManagerStep, LookUp, ControllerRemove, ControllerPut, ControllerFails, UpdateIndex,
       mesh, meshVars

LEMMA UndisturbedStep ==
    MeshTypeInv /\ Undisturbed /\ [MeshNext]_meshVars => Undisturbed'
<1> SUFFICES ASSUME MeshTypeInv, Undisturbed, [MeshNext]_meshVars PROVE Undisturbed'
  BY Zenon
<1> USE DEF Undisturbed
<1>1. ASSUME NEW s, NEW es, ChangeState(s, es) PROVE Undisturbed'
  BY ZenonT(30), <1>1 DEF ChangeState, Announce
<1>2. CASE \/ \E p \in PeerID, c \in PeerCfg : AddOrChangePeer(p, c)
           \/ \E p \in PeerID : DeletePeer(p)
           \/ \E q \in PolicyID, r \in Rules : ChangePolicy(q, r)
           \/ \E q \in PolicyID : DeletePolicy(q)
           \/ \E m \in Metadata : ChangeMetadata(m)
  BY Zenon, <1>1, <1>2, ChangesOK
<1>3. CASE DeliverEvent \/ LoseEvent
  BY Zenon, <1>3 DEF DeliverEvent, LoseEvent
<1>4. CASE (Tick \/ Fetch \/ ReportAndUpdate \/ FetchFails) /\ UNCHANGED mesh
  BY Zenon, <1>4 DEF mesh
<1>5. CASE WireGuardHandler
  BY Zenon, <1>5 DEF WireGuardHandler, Start, MeshTypeInv, CallsOK, Goroutine
<1>6. CASE PolicyHandlerSkips
  BY Zenon, <1>6 DEF PolicyHandlerSkips, mesh
<1>7. CASE PolicyHandler
  BY Zenon, <1>7 DEF PolicyHandler, Start, MeshTypeInv, CallsOK, Goroutine
<1>8. CASE HandlerDone
  BY ZenonT(30), <1>8 DEF HandlerDone, MeshTypeInv, CallsOK, Goroutine
<1>9. ASSUME NEW g \in Goroutine, ManagerStep(g) PROVE Undisturbed'
  <2>1. call[g].todo # <<>> /\ UNCHANGED <<env, events>>
    BY ZenonT(30), <1>9 DEF ManagerStep, LookUp, ControllerRemove, ControllerPut, ControllerFails, UpdateIndex
  <2>2. g = "reconcile"
    BY Zenon, <2>1 DEF Goroutine
  <2>3. call'["sse"] = call["sse"]
    BY Zenon, <1>9, <2>2, ManagerTypes DEF ListKept, Goroutine
  <2> QED BY Zenon, <2>1, <2>3
<1>10. CASE UNCHANGED meshVars
  BY Zenon, <1>10 DEF meshVars, mesh
<1> QED BY Zenon, <1>2, <1>3, <1>4, <1>5, <1>6, <1>7, <1>8, <1>9, <1>10 DEF MeshNext

\* What the key of a call under way stands for.
KeyHeld ==
    /\ Mine.stage = "controller" =>
         Head(Mine.todo).id \in DOMAIN index /\ Mine.key = index[Head(Mine.todo).id]
    /\ Mine.stage = "index" /\ Head(Mine.todo).kind # "RemovePeerByID" => Mine.key \in DOMAIN device

IndexInv == MeshTypeInv /\ Undisturbed /\ KeyHeld /\ IndexOnDevice

\* One step of a Manager call of the loop, case by case.
LEMMA ManagerCases ==
    ASSUME MeshTypeInv, ManagerStep("reconcile")
    PROVE  /\ Mine.todo # <<>> /\ Mine \in CallState /\ CallOK(Mine)
           /\ Head(Mine.todo).id \in PeerID
           /\ Head(Mine.todo).kind \in PutKind \/ Head(Mine.todo).kind = "RemovePeerByID"
           /\ Head(Mine.todo).kind \in PutKind => Head(Mine.todo).cfg \in PeerCfg
           /\ \/ LookUp("reconcile") \/ ControllerRemove("reconcile") \/ ControllerPut("reconcile")
              \/ ControllerFails("reconcile") \/ UpdateIndex("reconcile")
<1>1. Mine.todo # <<>>
  BY Zenon DEF ManagerStep, LookUp, ControllerRemove, ControllerPut, ControllerFails, UpdateIndex, Mine
<1>2. "reconcile" \in Goroutine
  BY Zenon DEF Goroutine
<1> QED BY Zenon, <1>1, <1>2, CurrentOK DEF MeshTypeInv, CallsOK, Mine, Current, ManagerStep

\* The loop's call state after a step that only changes it.
LEMMA MineReplaced ==
    ASSUME MeshTypeInv, NEW r, call' = [call EXCEPT !["reconcile"] = r]
    PROVE  Mine' = r
BY Zenon DEF MeshTypeInv, CallsOK, Goroutine, Mine

LEMMA MineReturned ==
    ASSUME MeshTypeInv, Mine.todo # <<>>, NEW ok \in BOOLEAN,
           call' = [call EXCEPT !["reconcile"] = Returned("reconcile", ok)]
    PROVE  /\ Mine'.todo = Tail(Mine.todo) /\ Mine'.stage = "start"
           /\ Mine'.failed = (Mine.failed \/ ~ ok) /\ Mine'.busy = Mine.busy
<1>1. Mine' = Returned("reconcile", ok)
  BY ZenonT(30), MineReplaced
<1> QED BY Zenon, <1>1, ReturnedOK DEF MeshTypeInv, Goroutine, Mine

LEMMA IndexManagerStep ==
    ASSUME IndexInv, ManagerStep("reconcile") PROVE KeyHeld' /\ IndexOnDevice'
<1>0. MeshTypeInv /\ KeyHeld /\ IndexOnDevice /\ CallOK(Mine) /\ Mine \in CallState /\ Mine.todo # <<>>
      /\ \A p \in DOMAIN index : index[p][1] = p
  BY Zenon, ManagerCases DEF IndexInv, MeshTypeInv, TablesOK
<1> DEFINE h == Head(Mine.todo)
<1>a. \A p \in DOMAIN index : index[p] \in DOMAIN device
                              \/ (Mine.stage = "index" /\ h.kind = "RemovePeerByID" /\ h.id = p)
  BY ZenonT(30), <1>0 DEF IndexOnDevice, Mine, Current
<1>b. ASSUME Mine'.stage = "start", \A p \in DOMAIN index' : index'[p] \in DOMAIN device'
      PROVE  KeyHeld' /\ IndexOnDevice'
  BY Zenon, <1>b DEF KeyHeld, IndexOnDevice
<1>1. CASE LookUp("reconcile")
  <2>1. Mine.stage = "start" /\ UNCHANGED <<device, index>>
    BY Zenon, <1>1 DEF LookUp, Mine
  <2>2. CASE h.id \in DOMAIN index
    <3>1. Mine' = [Mine EXCEPT !.stage = "controller", !.key = index[h.id]]
      BY Zenon, <1>0, <1>1, <2>2, MineReplaced DEF LookUp, Mine, Current
    <3>2. Mine'.stage = "controller" /\ Mine'.key = index[h.id] /\ Mine'.todo = Mine.todo
      BY Zenon, <1>0, <3>1 DEF CallState
    <3> QED BY Zenon, <1>a, <2>1, <2>2, <3>2 DEF KeyHeld, IndexOnDevice
  <2>3. CASE h.id \notin DOMAIN index
    <3>1. call' = [call EXCEPT !["reconcile"] = Returned("reconcile", FALSE)]
      BY Zenon, <1>1, <2>3 DEF LookUp, Mine, Current
    <3>2. Mine'.stage = "start"
      BY Zenon, <1>0, <3>1, MineReturned
    <3> QED BY Zenon, <1>a, <1>b, <2>1, <3>2
  <2> QED BY Zenon, <2>2, <2>3
<1>2. CASE ControllerRemove("reconcile")
  <2>1. /\ Mine.stage = "controller" /\ h.kind = "RemovePeerByID"
        /\ device' = Drop(device, Mine.key) /\ index' = index
        /\ Mine' = [Mine EXCEPT !.stage = "index"]
    BY Zenon, <1>0, <1>2, MineReplaced DEF ControllerRemove, Mine, Current
  <2>2. Mine'.stage = "index" /\ Mine'.todo = Mine.todo
    BY Zenon, <1>0, <2>1 DEF CallState
  <2>3. Mine.key[1] = h.id
    BY Zenon, <1>0, <2>1 DEF CallOK
  <2>4. \A p \in DOMAIN index : p # h.id => index[p] \in DOMAIN device /\ index[p] # Mine.key
    BY Zenon, <1>0, <1>a, <2>1, <2>3
  <2>5. DOMAIN device' = DOMAIN device \ {Mine.key}
    BY Zenon, <2>1 DEF Drop
  <2>6. \A p \in DOMAIN index' : index'[p] \in DOMAIN device' \/ p = h.id
    BY Zenon, <2>1, <2>4, <2>5
  <2>7. KeyHeld'
    BY Zenon, <2>1, <2>2 DEF KeyHeld
  <2>8. Current("reconcile")' = h /\ call'["reconcile"].stage = "index"
    BY Zenon, <2>2 DEF Current, Mine
  <2> QED BY Zenon, <2>1, <2>6, <2>7, <2>8 DEF IndexOnDevice
<1>3. CASE ControllerPut("reconcile")
  <2> DEFINE k == PublicKey(h.id, h.cfg)
  <2>1. /\ Mine.stage = "start" /\ h.kind # "RemovePeerByID"
        /\ device' = Put(device, k, h.cfg.endpoint) /\ index' = index
        /\ call' = [call EXCEPT !["reconcile"] = [Mine EXCEPT !.stage = "index", !.key = k]]
    BY Zenon, <1>3 DEF ControllerPut, Mine, Current
  <2>a. Mine' = [Mine EXCEPT !.stage = "index", !.key = k]
    BY Zenon, <1>0, <2>1, MineReplaced
  <2>2. Mine'.stage = "index" /\ Mine'.key = k /\ Mine'.todo = Mine.todo
    BY Zenon, <1>0, <2>a DEF CallState
  <2>3. DOMAIN device' = DOMAIN device \cup {k}
    BY Zenon, <2>1 DEF Put
  <2> QED BY Zenon, <1>a, <2>1, <2>2, <2>3 DEF KeyHeld, IndexOnDevice
<1>4. CASE ControllerFails("reconcile")
  <2>1. /\ Mine.stage # "index" /\ UNCHANGED <<device, index>>
        /\ call' = [call EXCEPT !["reconcile"] = Returned("reconcile", FALSE)]
    BY Zenon, <1>4 DEF ControllerFails, Mine, Current
  <2>2. Mine'.stage = "start"
    BY ZenonT(30), <1>0, <2>1, MineReturned
  <2> QED BY Zenon, <1>a, <1>b, <2>1, <2>2
<1>5. CASE UpdateIndex("reconcile")
  <2>1. /\ Mine.stage = "index" /\ device' = device
        /\ call' = [call EXCEPT !["reconcile"] = Returned("reconcile", TRUE)]
        /\ index' = IF h.kind = "RemovePeerByID" THEN Drop(index, h.id) ELSE Put(index, h.id, Mine.key)
    BY Zenon, <1>5 DEF UpdateIndex, Mine, Current
  <2>2. Mine'.stage = "start"
    BY ZenonT(30), <1>0, <2>1, MineReturned
  <2>3. CASE h.kind = "RemovePeerByID"
    <3>1. DOMAIN index' = DOMAIN index \ {h.id} /\ \A p \in DOMAIN index' : index'[p] = index[p]
      BY Zenon, <2>1, <2>3 DEF Drop
    <3> QED BY ZenonT(30), <1>a, <1>b, <2>1, <2>2, <3>1
  <2>4. CASE h.kind # "RemovePeerByID"
    <3>1. Mine.key \in DOMAIN device
      BY ZenonT(30), <1>0, <2>1, <2>4 DEF KeyHeld
    <3>2. DOMAIN index' = DOMAIN index \cup {h.id} /\ index'[h.id] = Mine.key
          /\ \A p \in DOMAIN index : p # h.id => index'[p] = index[p]
      BY Zenon, <2>1, <2>4 DEF Put
    <3> QED BY ZenonT(30), <1>a, <1>b, <2>1, <2>2, <2>4, <3>1, <3>2
  <2> QED BY Zenon, <2>3, <2>4
<1> QED BY Zenon, <1>1, <1>2, <1>3, <1>4, <1>5 DEF ManagerStep

\* Outside the Manager calls, a step that changes the loop's list finds it empty.
LEMMA IndexStep == IndexInv /\ [MeshNext]_meshVars => IndexInv'
<1> SUFFICES ASSUME IndexInv, [MeshNext]_meshVars PROVE IndexInv'
  BY Zenon
<1>0. MeshTypeInv /\ Undisturbed /\ KeyHeld /\ IndexOnDevice
  BY Zenon DEF IndexInv
<1>1. MeshTypeInv' /\ Undisturbed'
  BY Zenon, <1>0, MeshTypeStep, UndisturbedStep
<1> SUFFICES KeyHeld' /\ IndexOnDevice'
  BY Zenon, <1>1 DEF IndexInv
<1>2. ASSUME UNCHANGED <<device, index, Mine>> PROVE KeyHeld' /\ IndexOnDevice'
  BY ZenonT(30), <1>0, <1>2 DEF KeyHeld, IndexOnDevice, Current, Mine
<1>3. ASSUME UNCHANGED <<device, index>>, Mine.todo = <<>>, Mine'.stage = "start"
      PROVE  KeyHeld' /\ IndexOnDevice'
  <2>1. Mine.stage = "start"
    BY Zenon, <1>0, <1>3 DEF MeshTypeInv, CallsOK, CallOK, Mine, Goroutine
  <2> QED BY Zenon, <1>0, <1>3, <2>1 DEF KeyHeld, IndexOnDevice, Mine
<1>4. ~ Running => Mine.todo = <<>>
  BY Zenon, <1>0 DEF MeshTypeInv, HandlerOK, Mine
<1>5. CASE \/ \E p \in PeerID, c \in PeerCfg : AddOrChangePeer(p, c)
           \/ \E p \in PeerID : DeletePeer(p)
           \/ \E q \in PolicyID, r \in Rules : ChangePolicy(q, r)
           \/ \E q \in PolicyID : DeletePolicy(q)
           \/ \E m \in Metadata : ChangeMetadata(m)
  BY Zenon, <1>0, <1>2, <1>5, ChangesOK DEF ChangeState, Mine
<1>6. CASE DeliverEvent \/ LoseEvent
  BY Zenon, <1>0, <1>6 DEF DeliverEvent, LoseEvent, Undisturbed
<1>7. CASE (Tick \/ Fetch \/ ReportAndUpdate \/ FetchFails) /\ UNCHANGED mesh
  BY Zenon, <1>2, <1>7 DEF mesh, Mine
<1>8. CASE WireGuardHandler
  <2>1. PICK todo : Start(todo, FALSE)
    BY Zenon, <1>8 DEF WireGuardHandler
  <2>2. Mine' = [Idle EXCEPT !.todo = todo, !.failed = FALSE, !.busy = TRUE]
    BY ZenonT(30), <1>0, <2>1, MineReplaced DEF Start
  <2>3. Mine'.stage = "start"
    BY Zenon, <2>2 DEF Idle
  <2> QED BY Zenon, <1>3, <1>4, <1>8, <2>3 DEF WireGuardHandler
<1>9. CASE PolicyHandlerSkips
  BY Zenon, <1>2, <1>9 DEF PolicyHandlerSkips, mesh, Mine
<1>10. CASE PolicyHandler
  <2>1. PICK todo, failed : Start(todo, failed)
    BY Zenon, <1>10 DEF PolicyHandler
  <2>2. Mine' = [Idle EXCEPT !.todo = todo, !.failed = failed, !.busy = TRUE]
    BY Zenon, <1>0, <2>1, MineReplaced DEF Start
  <2>3. Mine'.stage = "start"
    BY Zenon, <2>2 DEF Idle
  <2> QED BY Zenon, <1>3, <1>4, <1>10, <2>3 DEF PolicyHandler
<1>11. CASE HandlerDone
  <2>1. Mine' = Idle
    BY Zenon, <1>0, <1>11, MineReplaced DEF HandlerDone
  <2> QED BY <1>3, <1>11, <2>1 DEF HandlerDone, Mine, Idle
<1>12. ASSUME NEW g \in Goroutine, ManagerStep(g) PROVE KeyHeld' /\ IndexOnDevice'
  <2>1. call[g].todo # <<>>
    BY Zenon, <1>12 DEF ManagerStep, LookUp, ControllerRemove, ControllerPut, ControllerFails, UpdateIndex
  <2>2. g = "reconcile"
    BY Zenon, <1>0, <2>1 DEF Undisturbed, Goroutine
  <2> QED BY Zenon, <1>12, <2>2, IndexManagerStep
<1>13. CASE UNCHANGED meshVars
  BY Zenon, <1>2, <1>13 DEF meshVars, mesh, Mine
<1> QED
  BY Zenon, <1>5, <1>6, <1>7, <1>8, <1>9, <1>10, <1>11, <1>12, <1>13 DEF MeshNext

\* Where no SSE event is sent, the index never names a key the kernel does not
\* have but in the middle of a removal, whatever handlers are registered and
\* whichever calls fail.
THEOREM IndexAlwaysOnDevice == NoEvents /\ MeshSpec => []IndexOnDevice
<1>1. NoEvents /\ MeshInit => IndexInv
  <2> SUFFICES ASSUME NoEvents, MeshInit PROVE IndexInv
    BY Zenon
  <2>1. Mine = Idle /\ call["sse"] = Idle
    BY Zenon DEF MeshInit, Mine, Goroutine
  <2>2. Undisturbed
    BY <2>1 DEF MeshInit, NoEvents, Undisturbed, Idle
  <2>3. KeyHeld
    BY Zenon, <2>1 DEF KeyHeld, Idle
  <2>4. IndexOnDevice
    BY Zenon DEF MeshInit, IndexOnDevice, NoEntries
  <2> QED BY Zenon, <2>2, <2>3, <2>4, MeshTypeInit DEF IndexInv
<1>2. IndexInv => IndexOnDevice
  BY Zenon DEF IndexInv
<1> QED BY <1>1, <1>2, IndexStep, PTL DEF MeshSpec

=============================================================================
