---------------------------- MODULE AgentProofs ----------------------------
(***************************************************************************)
(* What events of the control plane set off on the node: the state cache,  *)
(* which the reconcile cycle writes too, for any contents and any number of *)
(* edits, events, cycles and restarts; and the executor's slots, for any set *)
(* of execution IDs, any limit and any number of requests.                 *)
(***************************************************************************)
EXTENDS NodeState, ActionExecutor, FiniteSetTheorems, TLAPS

----------------------------------------------------------------------------
(* The state cache *)

Write == [part : Part, content : Content]

Carries(e, p) == \E n \in DOMAIN e : e[n].part = p
Coming(s, p) == \E i \in DOMAIN s : Carries(s[i], p)

\* The last event on its way for a part has what the control plane has.
LastIsTrue(s, t) ==
    \A i \in DOMAIN s : \A n \in DOMAIN s[i] :
        \/ s[i][n].content = t[s[i][n].part]
        \/ \E j \in DOMAIN s : j > i /\ Carries(s[j], s[i][n].part)

StateType ==
    /\ truth \in NodeContent /\ snapshot \in NodeContent /\ cache \in NodeContent
    /\ stateFiles \in NodeContent
    /\ cycle \in [running : BOOLEAN, desired : NodeContent, todo : SUBSET Part]
    /\ stream \in Seq(Seq(Write)) /\ writes \in Seq(Write)
    /\ writer \in [Part -> {"load", "event", "reconcile"}]

\* The state the reconcile handler has brought part p to.
Reached(p) == IF cycle.running /\ p \notin cycle.todo THEN cycle.desired[p] ELSE snapshot[p]

\* Each part by its last writer: an event left what the control plane has or is
\* followed by another one, the handler left what its cycles have reached, and
\* where neither has written, the control plane had nothing.
WriterInv(p) ==
    /\ writer[p] = "event" =>
          lost \/ Coming(stream, p) \/ Carries(writes, p) \/ cache[p] = truth[p]
    /\ writer[p] = "reconcile" => cache[p] = Reached(p)
    /\ writer[p] = "load" => snapshot[p] = None /\ Reached(p) = None

StateInv ==
    /\ StateType
    /\ LastIsTrue(stream, truth)
    /\ \A n \in DOMAIN writes :
          lost \/ Coming(stream, writes[n].part) \/ writes[n].content = truth[writes[n].part]
    /\ cycle.todo # {} => cycle.running
    /\ \A p \in Part : WriterInv(p)

LEMMA StateInitially == NodeStateInit => StateInv
<1> SUFFICES ASSUME NodeStateInit PROVE StateInv
  BY Zenon
<1>1. Empty \in NodeContent /\ \A p \in Part : Empty[p] = None
  BY Zenon, NodeStateAssumption DEF Empty, NodeContent
<1>2. StateType
  BY <1>1 DEF NodeStateInit, StateType, NoCycle
<1>3. \A p \in Part : WriterInv(p)
  BY Zenon, <1>1 DEF NodeStateInit, WriterInv, Reached, NoCycle
<1> QED BY <1>2, <1>3 DEF NodeStateInit, StateInv, LastIsTrue, NoCycle

\* The first event leaves the stream.
LEMMA TailOfStream ==
    ASSUME StateInv, stream # <<>>, stream' = Tail(stream), truth' = truth
    PROVE  /\ stream' \in Seq(Seq(Write))
           /\ LastIsTrue(stream, truth)'
           /\ \A p \in Part : Coming(stream, p) => Coming(stream, p)' \/ Carries(Head(stream), p)
<1>1. stream \in Seq(Seq(Write))
  BY Zenon DEF StateInv, StateType
<1>2. /\ stream' \in Seq(Seq(Write))
      /\ \A i \in DOMAIN stream' : i + 1 \in DOMAIN stream /\ stream'[i] = stream[i + 1]
      /\ \A i \in DOMAIN stream : i # 1 => i - 1 \in DOMAIN stream' /\ stream[i] = stream'[i - 1]
      /\ DOMAIN stream \subseteq Nat /\ DOMAIN stream' \subseteq Nat
      /\ Head(stream) = stream[1]
  BY <1>1
<1>3. LastIsTrue(stream, truth)'
  <2> SUFFICES ASSUME NEW i \in DOMAIN stream', NEW n \in DOMAIN stream'[i]
               PROVE  \/ stream'[i][n].content = truth[stream'[i][n].part]
                      \/ \E j \in DOMAIN stream' : j > i /\ Carries(stream'[j], stream'[i][n].part)
    BY Zenon DEF LastIsTrue
  <2>1. i + 1 \in DOMAIN stream /\ stream'[i] = stream[i + 1]
    BY Zenon, <1>2
  <2>2. CASE stream[i + 1][n].content = truth[stream[i + 1][n].part]
    BY Zenon, <2>1, <2>2
  <2>3. ASSUME NEW j \in DOMAIN stream, j > i + 1, Carries(stream[j], stream[i + 1][n].part)
        PROVE  \E h \in DOMAIN stream' : h > i /\ Carries(stream'[h], stream'[i][n].part)
    <3>1. j - 1 \in DOMAIN stream' /\ stream[j] = stream'[j - 1] /\ j - 1 > i
      BY <1>2, <2>3
    <3> QED BY Zenon, <2>1, <2>3, <3>1
  <2> QED BY Zenon, <2>1, <2>2, <2>3 DEF StateInv, LastIsTrue
<1>4. ASSUME NEW p \in Part, NEW i \in DOMAIN stream, Carries(stream[i], p)
      PROVE  Coming(stream', p) \/ Carries(Head(stream), p)
  BY Zenon, <1>2, <1>4 DEF Coming
<1> QED BY Zenon, <1>2, <1>3, <1>4 DEF Coming

\* The event an edit of part p sends.
LEMMA EditEvent ==
    ASSUME NEW p \in Part, NEW t \in NodeContent
    PROVE  LET e == [n \in DOMAIN Carried(p) |-> [part |-> Carried(p)[n], content |-> t[Carried(p)[n]]]]
           IN  /\ e \in Seq(Write) /\ Carries(e, p)
               /\ \A n \in DOMAIN e : e[n].content = t[e[n].part]
<1> DEFINE e == [n \in DOMAIN Carried(p) |-> [part |-> Carried(p)[n], content |-> t[Carried(p)[n]]]]
<1>1. CASE p = "secrets"
  <2>1. DOMAIN Carried(p) = 1 .. 1 /\ Carried(p)[1] = "secrets"
    BY <1>1 DEF Carried
  <2>2. e \in [1 .. 1 -> Write]
    BY <2>1 DEF Write, Part, NodeContent
  <2> QED BY <1>1, <2>1, <2>2 DEF Carries
<1>2. CASE p # "secrets"
  <2>1. DOMAIN Carried(p) = 1 .. 2 /\ Carried(p)[1] = "metadata" /\ Carried(p)[2] = "data"
    BY <1>2 DEF Carried
  <2>2. e \in [1 .. 2 -> Write]
    BY <2>1 DEF Write, Part, NodeContent
  <2>3. 1 \in DOMAIN e /\ 2 \in DOMAIN e /\ e[1].part = "metadata" /\ e[2].part = "data"
    BY <2>1
  <2>4. p = "metadata" \/ p = "data"
    BY Zenon, <1>2 DEF Part
  <2> QED BY <2>1, <2>2, <2>3, <2>4 DEF Carries
<1> QED BY Zenon, <1>1, <1>2

LEMMA EditStep == ASSUME StateInv, NEW p \in Part, NEW v \in Content, Edit(p, v) PROVE StateInv'
<1> DEFINE e == [n \in DOMAIN Carried(p) |->
                   [part |-> Carried(p)[n], content |-> truth'[Carried(p)[n]]]]
           newest == Len(stream) + 1
<1>1. /\ truth' = [truth EXCEPT ![p] = v] /\ stream' = Append(stream, e)
      /\ UNCHANGED <<writes, snapshot, cycle, cache, stateFiles, writer, lost>>
  BY Zenon DEF Edit, cachedVars
<1>2. /\ truth' \in NodeContent
      /\ \A q \in Part : q # p => truth'[q] = truth[q]
  BY Zenon, <1>1 DEF StateInv, StateType, NodeContent
<1>3. e \in Seq(Write) /\ Carries(e, p) /\ \A n \in DOMAIN e : e[n].content = truth'[e[n].part]
  BY Zenon, <1>2, EditEvent
<1> HIDE DEF e
<1>4. stream \in Seq(Seq(Write))
  BY Zenon DEF StateInv, StateType
<1>5. /\ stream' \in Seq(Seq(Write)) /\ DOMAIN stream' = DOMAIN stream \union {newest}
      /\ stream'[newest] = e /\ newest \in Nat
      /\ \A i \in DOMAIN stream : stream'[i] = stream[i] /\ i < newest
  BY SMTT(30), <1>1, <1>3, <1>4
<1> HIDE DEF newest
<1>6. StateType'
  BY Zenon, <1>1, <1>2, <1>5 DEF StateInv, StateType
<1>7. Coming(stream', p) /\ \A q \in Part : Coming(stream, q) => Coming(stream', q)
  BY Zenon, <1>3, <1>5 DEF Coming
<1>8. LastIsTrue(stream', truth')
  <2> SUFFICES ASSUME NEW i \in DOMAIN stream', NEW n \in DOMAIN stream'[i]
               PROVE  \/ stream'[i][n].content = truth'[stream'[i][n].part]
                      \/ \E j \in DOMAIN stream' : j > i /\ Carries(stream'[j], stream'[i][n].part)
    BY Zenon DEF LastIsTrue
  <2>1. CASE i = newest
    BY Zenon, <1>3, <1>5, <2>1
  <2>2. CASE i \in DOMAIN stream
    <3>1. stream'[i] = stream[i] /\ i < newest /\ newest \in DOMAIN stream' /\ i \in Nat
      BY <1>4, <1>5, <2>2
    <3>2. stream[i][n].part \in Part
      <4>1. stream[i] \in Seq(Write)
        BY <1>4, <2>2
      <4>2. stream[i][n] \in Write
        BY <4>1, <3>1
      <4> QED BY Zenon, <4>2 DEF Write
    <3>3. CASE stream[i][n].part = p
      BY Zenon, <1>3, <1>5, <3>1, <3>3
    <3>4. CASE stream[i][n].part # p
      <4>1. \/ stream[i][n].content = truth[stream[i][n].part]
            \/ \E j \in DOMAIN stream : j > i /\ Carries(stream[j], stream[i][n].part)
        BY Zenon, <2>2, <3>1 DEF StateInv, LastIsTrue
      <4> QED BY Zenon, <1>2, <1>5, <3>1, <3>2, <3>4, <4>1
    <3> QED BY Zenon, <3>3, <3>4
  <2> QED BY Zenon, <1>5, <2>1, <2>2
<1>9. \A n \in DOMAIN writes : writes[n].part \in Part
  <2>1. writes \in Seq(Write)
    BY Zenon DEF StateInv, StateType
  <2>2. \A n \in DOMAIN writes : writes[n] \in Write
    BY <2>1
  <2> QED BY Zenon, <2>2 DEF Write
<1>10. ASSUME NEW n \in DOMAIN writes'
       PROVE  \/ lost' \/ Coming(stream', writes'[n].part)
              \/ writes'[n].content = truth'[writes'[n].part]
  BY Zenon, <1>1, <1>2, <1>7, <1>9 DEF StateInv
<1>11. ASSUME NEW q \in Part PROVE WriterInv(q)'
  <2>1. WriterInv(q)
    BY Zenon DEF StateInv
  <2> QED BY Zenon, <1>1, <1>2, <1>7, <2>1 DEF WriterInv, Reached
<1> QED BY Zenon, <1>1, <1>6, <1>8, <1>10, <1>11 DEF StateInv

LEMMA LoseStep == ASSUME StateInv, LoseEvent PROVE StateInv'
<1>1. /\ stream # <<>> /\ stream' = Tail(stream) /\ lost' = TRUE
      /\ UNCHANGED <<truth, writes, snapshot, cycle, cache, stateFiles, writer>>
  BY Zenon DEF LoseEvent, cachedVars
<1>2. StateType' /\ LastIsTrue(stream, truth)'
  BY Zenon, <1>1, TailOfStream DEF StateInv, StateType
<1>3. \A p \in Part : WriterInv(p)'
  BY Zenon, <1>1 DEF StateInv, WriterInv, Reached
<1> QED BY Zenon, <1>1, <1>2, <1>3 DEF StateInv

LEMMA HandleStep == ASSUME StateInv, HandleEvent PROVE StateInv'
<1>1. /\ stream # <<>> /\ stream' = Tail(stream) /\ writes' = Head(stream) /\ writes = <<>>
      /\ UNCHANGED <<truth, snapshot, cycle, cache, stateFiles, writer, lost>>
  BY Zenon DEF HandleEvent, cachedVars
<1>2. stream \in Seq(Seq(Write))
  BY Zenon DEF StateInv, StateType
<1>3. Head(stream) \in Seq(Write) /\ 1 \in DOMAIN stream /\ Head(stream) = stream[1]
  BY <1>1, <1>2
<1>4. StateType' /\ LastIsTrue(stream, truth)'
  BY Zenon, <1>1, <1>3, TailOfStream DEF StateInv, StateType
<1>5. ASSUME NEW n \in DOMAIN writes'
      PROVE  lost' \/ Coming(stream', writes'[n].part) \/ writes'[n].content = truth'[writes'[n].part]
  <2>1. writes' = stream[1]
    BY Zenon, <1>1, <1>3
  <2>2. CASE stream[1][n].content = truth[stream[1][n].part]
    BY Zenon, <1>1, <2>1, <2>2
  <2>3. ASSUME NEW j \in DOMAIN stream, j > 1, Carries(stream[j], stream[1][n].part)
        PROVE  Coming(stream', writes'[n].part)
    <3>1. j - 1 \in DOMAIN stream' /\ stream'[j - 1] = stream[j]
      BY <1>1, <1>2, <2>3
    <3> QED BY Zenon, <2>1, <2>3, <3>1 DEF Coming
  <2> QED BY Zenon, <1>3, <2>1, <2>2, <2>3 DEF StateInv, LastIsTrue
<1>6. ASSUME NEW p \in Part PROVE WriterInv(p)'
  <2>1. Coming(stream, p) => Coming(stream', p) \/ Carries(writes', p)
    BY Zenon, <1>1, TailOfStream
  <2>2. ~ Carries(writes, p)
    BY <1>1 DEF Carries
  <2> QED BY Zenon, <1>1, <2>1, <2>2 DEF StateInv, WriterInv, Reached
<1> QED BY Zenon, <1>1, <1>4, <1>5, <1>6 DEF StateInv

LEMMA EventWriteStep == ASSUME StateInv, EventWrite PROVE StateInv'
<1> DEFINE q == Head(writes).part
           v == Head(writes).content
<1>1. /\ writes # <<>> /\ writes' = Tail(writes)
      /\ cache' = [cache EXCEPT ![q] = v]
      /\ stateFiles' \in {stateFiles, [stateFiles EXCEPT ![q] = v]}
      /\ writer' = [writer EXCEPT ![q] = "event"]
      /\ UNCHANGED <<truth, stream, snapshot, cycle, lost>>
  BY Zenon DEF EventWrite, Update
<1>2. writes \in Seq(Write)
  BY Zenon DEF StateInv, StateType
<1>3. /\ 1 \in DOMAIN writes /\ Head(writes) = writes[1] /\ Head(writes) \in Write
      /\ writes' \in Seq(Write)
      /\ \A n \in DOMAIN writes' : n + 1 \in DOMAIN writes /\ writes'[n] = writes[n + 1]
      /\ \A n \in DOMAIN writes : n # 1 => n - 1 \in DOMAIN writes' /\ writes[n] = writes'[n - 1]
  BY <1>1, <1>2
<1>4. q \in Part /\ v \in Content
  BY Zenon, <1>3 DEF Write
<1>5. q = writes[1].part /\ v = writes[1].content
  BY Zenon, <1>3
<1> HIDE DEF q, v
<1>6. StateType'
  <2>1. cache' \in NodeContent /\ stateFiles' \in NodeContent
    <3>1. cache \in [Part -> Content] /\ stateFiles \in [Part -> Content]
      BY Zenon DEF StateInv, StateType, NodeContent
    <3>2. cache' \in [Part -> Content]
      BY Zenon, <1>1, <1>4, <3>1
    <3>3. CASE stateFiles' = stateFiles
      BY Zenon, <3>1, <3>2, <3>3 DEF NodeContent
    <3>4. CASE stateFiles' = [stateFiles EXCEPT ![q] = v]
      BY Zenon, <1>4, <3>1, <3>2, <3>4 DEF NodeContent
    <3> QED BY Zenon, <1>1, <3>3, <3>4
  <2>2. writer' \in [Part -> {"load", "event", "reconcile"}]
    BY Zenon, <1>1, <1>4 DEF StateInv, StateType
  <2> QED BY Zenon, <1>1, <1>3, <2>1, <2>2 DEF StateInv, StateType
<1>7. ASSUME NEW n \in DOMAIN writes'
      PROVE  lost' \/ Coming(stream', writes'[n].part) \/ writes'[n].content = truth'[writes'[n].part]
  BY Zenon, <1>1, <1>3 DEF StateInv
<1>8. ASSUME NEW p \in Part PROVE WriterInv(p)'
  <2>1. CASE p = q
    <3>1. writer'[p] = "event" /\ cache'[p] = v
      BY Zenon, <1>1, <1>4, <2>1 DEF StateInv, StateType, NodeContent
    <3>2. lost \/ Coming(stream, p) \/ v = truth[p]
      BY Zenon, <1>3, <1>5, <2>1 DEF StateInv
    <3> QED BY Zenon, <1>1, <3>1, <3>2 DEF WriterInv
  <2>2. CASE p # q
    <3>1. writer'[p] = writer[p] /\ cache'[p] = cache[p]
      BY Zenon, <1>1, <2>2 DEF StateInv, StateType, NodeContent
    <3>2. Carries(writes, p) => Carries(writes', p)
      BY Zenon, <1>3, <1>5, <2>2 DEF Carries
    <3> QED BY Zenon, <1>1, <3>1, <3>2 DEF StateInv, WriterInv, Reached
  <2> QED BY Zenon, <2>1, <2>2
<1> QED BY Zenon, <1>1, <1>6, <1>7, <1>8 DEF StateInv

LEMMA CycleSteps == ASSUME StateInv, CycleStep PROVE StateInv'
<1>0. /\ cycle \in [running : BOOLEAN, desired : NodeContent, todo : SUBSET Part]
      /\ truth \in NodeContent /\ snapshot \in NodeContent
  BY Zenon DEF StateInv, StateType
<1>1. CASE CycleFetch
  <2>1. /\ cycle' = [running |-> TRUE, desired |-> truth,
                     todo |-> {p \in Part : truth[p] # snapshot[p]}]
        /\ ~cycle.running
        /\ UNCHANGED <<truth, stream, writes, snapshot, cache, stateFiles, writer, lost>>
    BY Zenon, <1>1 DEF CycleFetch, cachedVars
  <2>2. StateType'
    BY Zenon, <1>0, <2>1 DEF StateInv, StateType
  <2>3. \A p \in Part : Reached(p)' = Reached(p)
    BY Zenon, <2>1 DEF Reached
  <2> QED BY Zenon, <2>1, <2>2, <2>3 DEF StateInv, WriterInv
<1>2. CASE CycleDone
  <2>1. /\ cycle.running /\ cycle.todo = {} /\ snapshot' = cycle.desired /\ cycle' = NoCycle
        /\ UNCHANGED <<truth, stream, writes, cache, stateFiles, writer, lost>>
    BY Zenon, <1>2 DEF CycleDone, cachedVars
  <2>2. /\ NoCycle \in [running : BOOLEAN, desired : NodeContent, todo : SUBSET Part]
        /\ ~NoCycle.running /\ NoCycle.todo = {}
    BY Zenon, NodeStateAssumption DEF NoCycle, Empty, NodeContent
  <2>3. StateType'
    BY Zenon, <1>0, <2>1, <2>2 DEF StateInv, StateType
  <2>4. \A p \in Part : snapshot'[p] = Reached(p) /\ Reached(p)' = Reached(p)
    BY Zenon, <2>1, <2>2 DEF Reached
  <2> QED BY ZenonT(30), <2>1, <2>2, <2>3, <2>4 DEF StateInv, WriterInv
<1>3. ASSUME NEW q \in Part, CycleWrite(q) PROVE StateInv'
  <2> DEFINE v == cycle.desired[q]
  <2>1. /\ q \in cycle.todo
        /\ cache' = [cache EXCEPT ![q] = v]
        /\ stateFiles' \in {stateFiles, [stateFiles EXCEPT ![q] = v]}
        /\ writer' = [writer EXCEPT ![q] = "reconcile"]
        /\ cycle' = [cycle EXCEPT !.todo = @ \ {q}]
        /\ UNCHANGED <<truth, stream, writes, snapshot, lost>>
    BY Zenon, <1>3 DEF CycleWrite, Update
  <2>2. v \in Content
    BY Zenon, <1>0 DEF NodeContent
  <2>3. StateType'
    BY Zenon, <1>0, <2>1, <2>2 DEF StateInv, StateType, NodeContent
  <2>4. cycle'.running = cycle.running /\ cycle'.desired = cycle.desired /\ cycle'.todo = cycle.todo \ {q}
    BY Zenon, <1>0, <2>1
  <2>5. cycle.running
    BY Zenon, <2>1 DEF StateInv
  <2>6. ASSUME NEW p \in Part PROVE WriterInv(p)'
    <3>1. CASE p = q
      <4>1. writer'[p] = "reconcile" /\ cache'[p] = v
        BY Zenon, <2>1, <3>1 DEF StateInv, StateType, NodeContent
      <4> QED BY Zenon, <2>4, <2>5, <3>1, <4>1 DEF WriterInv, Reached
    <3>2. CASE p # q
      <4>1. writer'[p] = writer[p] /\ cache'[p] = cache[p]
        BY Zenon, <2>1, <3>2 DEF StateInv, StateType, NodeContent
      <4>2. Reached(p)' = Reached(p)
        BY <2>1, <2>4, <3>2 DEF Reached
      <4> QED BY Zenon, <2>1, <4>1, <4>2 DEF StateInv, WriterInv
    <3> QED BY Zenon, <3>1, <3>2
  <2> QED BY <2>1, <2>3, <2>6 DEF StateInv
<1> QED BY Zenon, <1>1, <1>2, <1>3 DEF CycleStep

LEMMA StatePreserved == StateInv /\ [NodeStateNext]_nodeStateVars => StateInv'
<1> SUFFICES ASSUME StateInv, [NodeStateNext]_nodeStateVars PROVE StateInv'
  BY Zenon
<1>1. CASE NodeRestart
  <2>1. Empty \in NodeContent /\ \A p \in Part : Empty[p] = None
    BY Zenon, NodeStateAssumption DEF Empty, NodeContent
  <2>2. /\ cache' = stateFiles /\ stateFiles' = stateFiles /\ truth' = truth
        /\ writer' = [p \in Part |-> "load"] /\ snapshot' = Empty /\ cycle' = NoCycle
        /\ stream' = <<>> /\ writes' = <<>>
    BY Zenon, <1>1 DEF NodeRestart
  <2>3. StateType'
    BY <2>1, <2>2 DEF StateInv, StateType, NoCycle
  <2>4. \A p \in Part : WriterInv(p)'
    BY Zenon, <2>1, <2>2 DEF WriterInv, Reached, NoCycle
  <2> QED BY <2>2, <2>3, <2>4 DEF StateInv, LastIsTrue, NoCycle
<1>2. CASE UNCHANGED nodeStateVars
  BY Zenon, <1>2 DEF nodeStateVars, cachedVars, StateInv, StateType, WriterInv, Reached
<1> QED BY Zenon, <1>1, <1>2, EditStep, LoseStep, HandleStep, EventWriteStep, CycleSteps DEF NodeStateNext

\* However event handlers, cycles and restarts interleave and whichever events
\* are lost, the cache has the control plane's state when nothing is under way,
\* up to the two cases Uncorrected names (cache.go, events.go, server.go).
THEOREM CacheAgreesAtRest == NodeStateSpec => []RestAgrees
<1>1. StateInv => RestAgrees
  <2> SUFFICES ASSUME StateInv, stream = <<>>, writes = <<>>, ~cycle.running, snapshot = truth,
                      NEW p \in Part
               PROVE  cache[p] = truth[p] \/ Uncorrected(p)
    BY Zenon DEF RestAgrees
  <2>1. ~Coming(stream, p) /\ ~Carries(writes, p)
    BY DEF Coming, Carries
  <2>2. writer[p] \in {"load", "event", "reconcile"}
    BY Zenon DEF StateInv, StateType
  <2> QED BY Zenon, <2>1, <2>2 DEF StateInv, WriterInv, Reached, Uncorrected
<1> QED BY <1>1, StateInitially, StatePreserved, PTL DEF NodeStateSpec

----------------------------------------------------------------------------
(* The executor *)

\* The number of active IDs is the number of executions in flight.
SlotsCounted ==
    /\ IsFiniteSet(active)
    /\ Cardinality(active) = Cardinality(InFlight)
    /\ Cardinality(active) <= MaxConcurrent

SlotInv ==
    /\ TypeOK /\ ActiveIsInFlight /\ OneRunPerID /\ WgCounts /\ SlotsCounted
    /\ ShutdownCovers

LEMMA RequestFinite ==
    /\ IsFiniteSet(Request)
    /\ \A S \in SUBSET Request : IsFiniteSet(S) /\ Cardinality(S) \in Nat
<1>1. IsFiniteSet(Request)
  BY FS_Interval, LimitsAssumption DEF Request
<1> QED BY Zenon, <1>1, FS_Subset, FS_CardinalityType

LEMMA InFlightFinite ==
    /\ IsFiniteSet(InFlight) /\ Cardinality(InFlight) \in Nat
    /\ IsFiniteSet(Launched) /\ Cardinality(Launched) \in Nat
BY Zenon, RequestFinite DEF InFlight, Launched

----------------------------------------------------------------------------
(* The steps that neither take nor free a slot nor start or end a          *)
(* goroutine: acknowledgements, returns, reports, deadlines, and the       *)
(* steps of Shutdown.                                                      *)

Quiet ==
    /\ UNCHANGED <<active, wg, arrived>>
    /\ \A r \in InFlight : id'[r] = id[r]
    /\ InFlight' = InFlight
    /\ Launched' = Launched

LEMMA QuietKeepsSlots ==
    ASSUME SlotInv, Quiet
    PROVE  ActiveIsInFlight' /\ OneRunPerID' /\ WgCounts' /\ SlotsCounted'
BY DEF SlotInv, Quiet, ActiveIsInFlight, OneRunPerID, WgCounts, SlotsCounted

\* Moving one request from one step to another.
LEMMA Moved ==
    ASSUME TypeOK, NEW r \in Request, NEW x \in Step, step' = [step EXCEPT ![r] = x]
    PROVE  /\ step' \in [Request -> Step]
           /\ step'[r] = x
           /\ \A q \in Request \ {r} : step'[q] = step[q]
BY Zenon DEF TypeOK

LEMMA QuietMove ==
    ASSUME TypeOK, NEW r \in Request, NEW x \in Step, step' = [step EXCEPT ![r] = x],
           UNCHANGED <<active, wg, arrived>>, \A q \in InFlight : id'[q] = id[q],
           r \in InFlight <=> x \in {"ack", "launch", "run", "report", "cleanup"},
           r \in Launched <=> x \in {"run", "report", "cleanup", "exit"}
    PROVE  Quiet
<1>1. /\ step'[r] = x
      /\ \A q \in Request \ {r} : step'[q] = step[q]
  BY Zenon, Moved
<1>2. InFlight' = InFlight
  BY Zenon, <1>1 DEF InFlight
<1>3. Launched' = Launched
  BY Zenon, <1>1 DEF Launched
<1> QED BY Zenon, <1>2, <1>3 DEF Quiet

LEMMA AckStep ==
    ASSUME TypeOK, NEW r \in Request, Ack(r)
    PROVE  Quiet
<1>1. UNCHANGED <<active, wg, arrived>>
  BY Zenon DEF Ack
<1>2. CASE step[r] = "ack"
  <2>1. step' = [step EXCEPT ![r] = "launch"]
    BY Zenon, <1>2 DEF Ack
  <2>2. r \in InFlight /\ r \notin Launched
    BY Zenon, <1>2 DEF InFlight, Launched
  <2>3. id' = id
    BY Zenon, <1>2 DEF Ack, TypeOK
  <2> QED BY Zenon, <1>1, <2>1, <2>2, <2>3, QuietMove DEF Step
<1>3. CASE step[r] = "reject"
  <2>1. step' = [step EXCEPT ![r] = "rejected"]
    BY Zenon, <1>3 DEF Ack
  <2>2. r \notin InFlight /\ r \notin Launched
    BY Zenon, <1>3 DEF InFlight, Launched
  <2>3. \A q \in InFlight : id'[q] = id[q]
    BY Zenon, <1>3, <2>2 DEF Ack, TypeOK, InFlight
  <2> QED BY Zenon, <1>1, <2>1, <2>2, <2>3, QuietMove DEF Step
<1> QED BY Zenon, <1>2, <1>3 DEF Ack

LEMMA ReturnsStep ==
    ASSUME TypeOK, NEW r \in Request, Returns(r)
    PROVE  Quiet
<1>1. /\ step[r] = "run" /\ step' = [step EXCEPT ![r] = "report"]
      /\ UNCHANGED <<id, active, wg, arrived>>
  BY Zenon DEF Returns, ActionReturns, ActionPanics, reqVars
<1>2. r \in InFlight /\ r \in Launched
  BY Zenon, <1>1 DEF InFlight, Launched
<1> QED BY Zenon, <1>1, <1>2, QuietMove DEF Step

LEMMA ReportResultStep ==
    ASSUME TypeOK, NEW r \in Request, ReportResult(r)
    PROVE  Quiet
<1>1. /\ step[r] = "report" /\ step' = [step EXCEPT ![r] = "cleanup"]
      /\ UNCHANGED <<id, active, wg, arrived>>
  BY Zenon DEF ReportResult, reqVars
<1>2. r \in InFlight /\ r \in Launched
  BY Zenon, <1>1 DEF InFlight, Launched
<1> QED BY Zenon, <1>1, <1>2, QuietMove DEF Step

LEMMA SameStepQuiet ==
    ASSUME UNCHANGED <<step, id, active, wg, arrived>>
    PROVE  Quiet
BY Zenon DEF Quiet, InFlight, Launched

----------------------------------------------------------------------------
(* The steps that do. *)

LEMMA ExecuteAccepts ==
    ASSUME SlotInv, NEW i \in Execution, NEW known \in BOOLEAN, Execute(i, known),
           Verdict(i, known) = "accepted"
    PROVE  /\ ActiveIsInFlight' /\ OneRunPerID' /\ WgCounts' /\ SlotsCounted'
           /\ ~ shuttingDown
<1> USE DEF SlotInv
<1> DEFINE r == arrived + 1
<1>1. r \in Request /\ step[r] = "absent" /\ r \notin InFlight
  BY LimitsAssumption DEF Execute, TypeOK, Request, InFlight
<1>2. /\ step' = [step EXCEPT ![r] = "ack"] /\ id' = [id EXCEPT ![r] = i]
      /\ active' = active \cup {i} /\ wg' = wg
  BY Zenon DEF Execute
<1>3. i \notin active /\ ~ (Cardinality(active) >= MaxConcurrent) /\ ~ shuttingDown
  BY Zenon DEF Verdict
<1> HIDE DEF r
<1>4. /\ step'[r] = "ack"
      /\ \A q \in Request \ {r} : step'[q] = step[q]
  BY Zenon, <1>1, <1>2, Moved DEF Step
<1>5. /\ id'[r] = i
      /\ \A q \in Request \ {r} : id'[q] = id[q]
  BY Zenon, <1>1, <1>2 DEF TypeOK
<1>6. InFlight' = InFlight \cup {r}
  BY Zenon, <1>1, <1>4 DEF InFlight
<1>7. Launched' = Launched
  BY Zenon, <1>1, <1>4 DEF Launched
<1>8. InFlight \subseteq Request
  BY Zenon DEF InFlight
<1>9. ActiveIsInFlight'
  BY Zenon, <1>1, <1>2, <1>5, <1>6, <1>8 DEF ActiveIsInFlight
<1>10. OneRunPerID'
  BY <1>1, <1>3, <1>5, <1>6, <1>8 DEF OneRunPerID, ActiveIsInFlight
<1>11. WgCounts'
  BY Zenon, <1>2, <1>7 DEF WgCounts
<1>12. SlotsCounted'
  <2>1. /\ IsFiniteSet(active \cup {i})
        /\ Cardinality(active \cup {i}) = Cardinality(active) + 1
    BY Zenon, <1>3, FS_AddElement DEF SlotsCounted
  <2>2. Cardinality(InFlight \cup {r}) = Cardinality(InFlight) + 1
    BY Zenon, <1>1, InFlightFinite, FS_AddElement
  <2>3. Cardinality(active) \in Nat /\ Cardinality(active) + 1 <= MaxConcurrent
    BY <1>3, InFlightFinite, LimitsAssumption DEF SlotsCounted
  <2> QED BY Zenon, <1>2, <1>6, <2>1, <2>2, <2>3 DEF SlotsCounted
<1> QED BY Zenon, <1>3, <1>9, <1>10, <1>11, <1>12

LEMMA ExecuteRejects ==
    ASSUME SlotInv, NEW i \in Execution, NEW known \in BOOLEAN, Execute(i, known),
           Verdict(i, known) # "accepted"
    PROVE  /\ ActiveIsInFlight' /\ OneRunPerID' /\ WgCounts' /\ SlotsCounted'
           /\ InFlight' = InFlight
<1> USE DEF SlotInv
<1> DEFINE r == arrived + 1
<1>1. r \in Request /\ step[r] = "absent"
  BY LimitsAssumption DEF Execute, TypeOK, Request
<1>2. /\ step' = [step EXCEPT ![r] = "reject"] /\ id' = [id EXCEPT ![r] = i]
      /\ active' = active /\ wg' = wg
  BY Zenon DEF Execute
<1> HIDE DEF r
<1>3. /\ step'[r] = "reject"
      /\ \A q \in Request \ {r} : step'[q] = step[q]
  BY Zenon, <1>1, <1>2, Moved DEF Step
<1>4. InFlight' = InFlight /\ Launched' = Launched /\ r \notin InFlight /\ InFlight \subseteq Request
  BY Zenon, <1>1, <1>3 DEF InFlight, Launched
<1>5. \A q \in InFlight : id'[q] = id[q]
  BY Zenon, <1>1, <1>2, <1>4 DEF TypeOK
<1> QED
  BY <1>2, <1>4, <1>5 DEF ActiveIsInFlight, OneRunPerID, WgCounts, SlotsCounted

LEMMA LaunchStep ==
    ASSUME SlotInv, NEW r \in Request, Launch(r)
    PROVE  /\ ActiveIsInFlight' /\ OneRunPerID' /\ WgCounts' /\ SlotsCounted'
           /\ InFlight' = InFlight
<1> USE DEF SlotInv
<1>1. /\ step[r] = "launch" /\ step' = [step EXCEPT ![r] = "run"] /\ wg' = wg + 1
      /\ UNCHANGED <<id, active>>
  BY Zenon DEF Launch, reqVars
<1>2. /\ step'[r] = "run"
      /\ \A q \in Request \ {r} : step'[q] = step[q]
  BY Zenon, <1>1, Moved DEF Step
<1>3. InFlight' = InFlight
  BY Zenon, <1>1, <1>2 DEF InFlight
<1>4. Launched' = Launched \cup {r} /\ r \notin Launched
  BY Zenon, <1>1, <1>2 DEF Launched
<1>5. Cardinality(Launched') = Cardinality(Launched) + 1
  BY Zenon, <1>4, InFlightFinite, FS_AddElement
<1>6. WgCounts'
  BY Zenon, <1>1, <1>5 DEF WgCounts
<1> QED BY Zenon, <1>1, <1>3, <1>6 DEF ActiveIsInFlight, OneRunPerID, SlotsCounted

LEMMA CleanupStep ==
    ASSUME SlotInv, NEW r \in Request, Cleanup(r)
    PROVE  /\ ActiveIsInFlight' /\ OneRunPerID' /\ WgCounts' /\ SlotsCounted'
           /\ InFlight' \subseteq InFlight
<1> USE DEF SlotInv
<1>1. /\ step[r] = "cleanup" /\ step' = [step EXCEPT ![r] = "exit"]
      /\ active' = active \ {id[r]} /\ id' = [id EXCEPT ![r] = NoID] /\ wg' = wg
  BY Zenon DEF Cleanup
<1>2. /\ step'[r] = "exit"
      /\ \A q \in Request \ {r} : step'[q] = step[q]
  BY Zenon, <1>1, Moved DEF Step
<1>3. InFlight' = InFlight \ {r} /\ r \in InFlight
  BY Zenon, <1>1, <1>2 DEF InFlight
<1>4. Launched' = Launched
  BY Zenon, <1>1, <1>2 DEF Launched
<1>5. id[r] \in active
  BY Zenon, <1>3 DEF ActiveIsInFlight
<1>6. \A q \in InFlight \ {r} : id'[q] = id[q]
  BY Zenon, <1>1 DEF InFlight, TypeOK
<1>7. ActiveIsInFlight'
  BY <1>1, <1>3, <1>6 DEF ActiveIsInFlight, OneRunPerID
<1>8. OneRunPerID'
  BY <1>1, <1>3, <1>6 DEF OneRunPerID
<1>9. SlotsCounted'
  <2>1. /\ IsFiniteSet(active \ {id[r]})
        /\ Cardinality(active \ {id[r]}) = Cardinality(active) - 1
    BY Zenon, <1>5, FS_RemoveElement DEF SlotsCounted
  <2>2. Cardinality(InFlight \ {r}) = Cardinality(InFlight) - 1
    BY Zenon, <1>3, InFlightFinite, FS_RemoveElement
  <2>3. Cardinality(active) \in Nat
    BY Zenon, InFlightFinite DEF SlotsCounted
  <2> QED BY <1>1, <1>3, <2>1, <2>2, <2>3, LimitsAssumption DEF SlotsCounted
<1> QED BY Zenon, <1>1, <1>3, <1>4, <1>7, <1>8, <1>9 DEF WgCounts

LEMMA WgDoneStep ==
    ASSUME SlotInv, NEW r \in Request, WgDone(r)
    PROVE  /\ ActiveIsInFlight' /\ OneRunPerID' /\ WgCounts' /\ SlotsCounted'
           /\ InFlight' = InFlight
<1> USE DEF SlotInv
<1>1. /\ step[r] = "exit" /\ step' = [step EXCEPT ![r] = "done"]
      /\ wg' = wg - 1 /\ UNCHANGED <<id, active>>
  BY Zenon DEF WgDone, reqVars
<1>2. /\ step'[r] = "done"
      /\ \A q \in Request \ {r} : step'[q] = step[q]
  BY Zenon, <1>1, Moved DEF Step
<1>3. InFlight' = InFlight
  BY Zenon, <1>1, <1>2 DEF InFlight
<1>4. Launched' = Launched \ {r} /\ r \in Launched
  BY Zenon, <1>1, <1>2 DEF Launched
<1>5. Cardinality(Launched') = Cardinality(Launched) - 1
  BY Zenon, <1>4, InFlightFinite, FS_RemoveElement
<1>6. WgCounts'
  BY Zenon, <1>1, <1>5 DEF WgCounts
<1> QED BY Zenon, <1>1, <1>3, <1>6 DEF ActiveIsInFlight, OneRunPerID, SlotsCounted

----------------------------------------------------------------------------
(* Types. *)

\* A request that has arrived moves on.
LEMMA MoveType ==
    ASSUME TypeOK, NEW r \in Request, NEW x \in Step, step[r] # "absent", x # "absent",
           step' = [step EXCEPT ![r] = x], UNCHANGED arrived,
           id' \in [Request -> Execution \cup {NoID}],
           active' \subseteq Execution, wg' \in Nat, cancelled' \subseteq Request,
           expired' \subseteq Request,
           UNCHANGED <<shuttingDown, shutdown, toCancel>>
    PROVE  TypeOK'
<1>1. /\ step' \in [Request -> Step]
      /\ step'[r] = x
      /\ \A q \in Request \ {r} : step'[q] = step[q]
  BY ZenonT(30), Moved
<1>2. \A q \in Request : q > arrived' <=> step'[q] = "absent"
  BY Zenon, <1>1 DEF TypeOK
<1> QED BY Zenon, <1>1, <1>2 DEF TypeOK

LEMMA WgType ==
    ASSUME WgCounts'
    PROVE  wg' \in Nat
<1>1. Launched' \in SUBSET Request
  BY Zenon DEF Launched
<1> QED BY Zenon, <1>1, RequestFinite DEF WgCounts

LEMMA ExecuteType ==
    ASSUME TypeOK, WgCounts', NEW i \in Execution, NEW known \in BOOLEAN, Execute(i, known)
    PROVE  TypeOK'
<1> DEFINE r == arrived + 1
           x == IF Verdict(i, known) = "accepted" THEN "ack" ELSE "reject"
<1>1. r \in Request /\ arrived' = r /\ r \in 0 .. MaxRequests /\ arrived \in Nat
  BY LimitsAssumption DEF Execute, TypeOK, Request
<1>2. step' = [step EXCEPT ![r] = x] /\ id' = [id EXCEPT ![r] = i]
  BY Zenon DEF Execute
<1>3. x \in {"ack", "reject"} /\ x \in Step
  BY Zenon DEF Step
<1> HIDE DEF r, x
<1>4. /\ step' \in [Request -> Step]
      /\ step'[r] = x
      /\ \A q \in Request \ {r} : step'[q] = step[q]
  BY Zenon, <1>1, <1>2, <1>3, Moved
<1>5. id' \in [Request -> Execution \cup {NoID}]
  BY Zenon, <1>1, <1>2 DEF TypeOK
<1>6. \A q \in Request : q > arrived' <=> step'[q] = "absent"
  <2> SUFFICES ASSUME NEW q \in Request PROVE q > r <=> step'[q] = "absent"
    BY Zenon, <1>1
  <2>1. q \in Nat
    BY DEF Request
  <2>2. CASE q = r
    BY <1>1, <1>3, <1>4, <2>1, <2>2
  <2>3. CASE q # r
    <3>1. q > r <=> q > arrived
      BY <1>1, <2>1, <2>3 DEF r
    <3> QED BY Zenon, <1>4, <2>3, <3>1 DEF TypeOK
  <2> QED BY Zenon, <2>2, <2>3
<1>7. active' \subseteq Execution
  BY Zenon DEF Execute, TypeOK
<1>8. UNCHANGED <<cancelled, expired, shuttingDown, shutdown, toCancel, wg>>
  BY Zenon DEF Execute
<1> QED BY Zenon, <1>1, <1>4, <1>5, <1>6, <1>7, <1>8 DEF TypeOK

LEMMA AdvanceType ==
    ASSUME TypeOK, WgCounts', NEW r \in Request, Advance(r)
    PROVE  TypeOK'
<1>0. wg' \in Nat
  BY Zenon, WgType
<1>1. ASSUME Ack(r) PROVE TypeOK'
  <2> DEFINE x == IF step[r] = "ack" THEN "launch" ELSE "rejected"
  <2>1. step' = [step EXCEPT ![r] = x] /\ x \in Step /\ x # "absent" /\ step[r] # "absent"
    BY Zenon, <1>1 DEF Ack, Step
  <2>3. id' \in [Request -> Execution \cup {NoID}]
    BY Zenon, <1>1 DEF Ack, TypeOK
  <2>4. UNCHANGED <<arrived, active, cancelled, expired, shuttingDown, shutdown, toCancel>>
    BY Zenon, <1>1 DEF Ack
  <2>5. active' \subseteq Execution /\ cancelled' \subseteq Request /\ expired' \subseteq Request
    BY Zenon, <2>4 DEF TypeOK
  <2> HIDE DEF x
  <2> QED BY Zenon, <1>0, <2>1, <2>3, <2>4, <2>5, MoveType
<1>2. ASSUME ReportResult(r) PROVE TypeOK'
  <2>1. step' = [step EXCEPT ![r] = "cleanup"] /\ step[r] # "absent" /\ "cleanup" \in Step
    BY Zenon, <1>2 DEF ReportResult, Step
  <2>4. UNCHANGED <<arrived, id, active, cancelled, expired, shuttingDown, shutdown, toCancel>>
    BY Zenon, <1>2 DEF ReportResult, reqVars
  <2>5. /\ active' \subseteq Execution /\ cancelled' \subseteq Request /\ expired' \subseteq Request
        /\ id' \in [Request -> Execution \cup {NoID}]
    BY Zenon, <2>4 DEF TypeOK
  <2> QED BY Zenon, <1>0, <2>1, <2>4, <2>5, MoveType
<1>3. ASSUME NEW x \in Step, x # "absent", step[r] # "absent", step' = [step EXCEPT ![r] = x],
             UNCHANGED <<arrived, shuttingDown, shutdown, toCancel>>,
             id' = id \/ id' = [id EXCEPT ![r] = NoID],
             active' \subseteq active, cancelled' \subseteq cancelled \cup {r},
             expired' \subseteq expired
      PROVE  TypeOK'
  <2>1. active' \subseteq Execution /\ cancelled' \subseteq Request
        /\ expired' \subseteq Request
    BY Zenon, <1>3 DEF TypeOK
  <2>2. id' \in [Request -> Execution \cup {NoID}]
    BY Zenon, <1>3 DEF TypeOK
  <2> QED BY Zenon, <1>0, <1>3, <2>1, <2>2, MoveType
<1>4. CASE Launch(r)
  BY Zenon, <1>3, <1>4 DEF Launch, reqVars, Step
<1>5. CASE Returns(r)
  BY Zenon, <1>3, <1>5 DEF Returns, ActionReturns, ActionPanics, reqVars, Step
<1>6. CASE Cleanup(r)
  BY Zenon, <1>3, <1>6 DEF Cleanup, reqVars, Step
<1>7. CASE WgDone(r)
  BY Zenon, <1>3, <1>7 DEF WgDone, reqVars, Step
<1> QED BY Zenon, <1>1, <1>2, <1>4, <1>5, <1>6, <1>7 DEF Advance

----------------------------------------------------------------------------
LEMMA SlotInit == Init => SlotInv
<1> SUFFICES ASSUME Init PROVE SlotInv
  BY Zenon
<1>1. InFlight = {} /\ Launched = {}
  BY Zenon DEF Init, InFlight, Launched
<1>2. TypeOK
  <2>1. \A r \in Request : r > 0 /\ step[r] = "absent"
    BY LimitsAssumption DEF Init, Request
  <2>2. id \in [Request -> Execution \cup {NoID}] /\ step \in [Request -> Step]
    BY Zenon DEF Init, Step
  <2>3. arrived \in 0 .. MaxRequests /\ wg \in Nat
    BY LimitsAssumption DEF Init
  <2>4. \A r \in Request : r > arrived <=> step[r] = "absent"
    BY Zenon, <2>1 DEF Init
  <2>5. /\ cancelled \subseteq Request /\ expired \subseteq Request /\ toCancel \subseteq Request
        /\ active \subseteq Execution
        /\ shuttingDown \in BOOLEAN /\ shutdown \in {"none", "cancel", "returned"}
    BY Zenon DEF Init
  <2> QED BY Zenon, <2>2, <2>3, <2>4, <2>5 DEF TypeOK
<1>3. ActiveIsInFlight /\ OneRunPerID /\ ShutdownCovers
  BY Zenon, <1>1 DEF Init, ActiveIsInFlight, OneRunPerID, ShutdownCovers
<1>4. WgCounts /\ SlotsCounted
  BY <1>1, FS_EmptySet, LimitsAssumption DEF Init, WgCounts, SlotsCounted
<1> QED BY Zenon, <1>2, <1>3, <1>4 DEF SlotInv

\* Shutdown's cover survives a step that adds nothing to what is in flight.
LEMMA CoverKept ==
    ASSUME ShutdownCovers, UNCHANGED <<shuttingDown, shutdown>>,
           InFlight' \subseteq InFlight,
           cancelled \cup toCancel \subseteq cancelled' \cup toCancel',
           toCancel' \subseteq toCancel
    PROVE  ShutdownCovers'
BY Zenon DEF ShutdownCovers

LEMMA ExecuteStep ==
    ASSUME SlotInv, NEW i \in Execution, NEW known \in BOOLEAN, Execute(i, known)
    PROVE  SlotInv'
<1>1. UNCHANGED <<cancelled, shuttingDown, shutdown, toCancel>>
  BY Zenon DEF Execute
<1>2. CASE Verdict(i, known) = "accepted"
  <2>1. ActiveIsInFlight' /\ OneRunPerID' /\ WgCounts' /\ SlotsCounted' /\ ~ shuttingDown
    BY Zenon, <1>2, ExecuteAccepts
  <2>2. ShutdownCovers'
    BY Zenon, <1>1, <2>1 DEF ShutdownCovers, SlotInv
  <2>3. TypeOK'
    BY Zenon, <2>1, ExecuteType DEF SlotInv
  <2> QED BY Zenon, <2>1, <2>2, <2>3 DEF SlotInv
<1>3. CASE Verdict(i, known) # "accepted"
  <2>1. ActiveIsInFlight' /\ OneRunPerID' /\ WgCounts' /\ SlotsCounted' /\ InFlight' = InFlight
    BY Zenon, <1>3, ExecuteRejects
  <2>2. ShutdownCovers'
    BY Zenon, <1>1, <2>1, CoverKept DEF SlotInv
  <2>3. TypeOK'
    BY Zenon, <2>1, ExecuteType DEF SlotInv
  <2> QED BY Zenon, <2>1, <2>2, <2>3 DEF SlotInv
<1> QED BY Zenon, <1>2, <1>3

LEMMA AdvanceStep ==
    ASSUME SlotInv, NEW r \in Request, Advance(r)
    PROVE  SlotInv'
<1>1. TypeOK
  BY Zenon DEF SlotInv
<1>2. ActiveIsInFlight' /\ OneRunPerID' /\ WgCounts' /\ SlotsCounted' /\ InFlight' \subseteq InFlight
  <2>1. ASSUME ReportResult(r) PROVE Quiet
    BY Zenon, <1>1, <2>1, ReportResultStep
  <2>2. CASE Returns(r)
    BY Zenon, <1>1, <2>2, ReturnsStep, QuietKeepsSlots DEF Quiet
  <2>3. CASE Launch(r)
    BY Zenon, <2>3, LaunchStep
  <2>4. CASE Cleanup(r)
    BY Zenon, <2>4, CleanupStep
  <2>5. CASE WgDone(r)
    BY Zenon, <2>5, WgDoneStep
  <2>6. CASE ReportResult(r)
    BY Zenon, <2>1, <2>6, QuietKeepsSlots DEF Quiet
  <2>7. CASE Ack(r)
    BY Zenon, <1>1, <2>7, AckStep, QuietKeepsSlots DEF Quiet
  <2> QED BY Zenon, <2>2, <2>3, <2>4, <2>5, <2>6, <2>7 DEF Advance
<1>3. TypeOK'
  BY Zenon, <1>1, <1>2, AdvanceType
<1>4. UNCHANGED <<shuttingDown, shutdown, toCancel>> /\ cancelled \subseteq cancelled'
  BY Zenon DEF Advance, Ack, ReportResult, Launch, Returns, ActionReturns, ActionPanics, Cleanup, WgDone
<1>5. ShutdownCovers'
  BY Zenon, <1>2, <1>4, CoverKept DEF SlotInv
<1> QED BY Zenon, <1>2, <1>3, <1>5 DEF SlotInv

LEMMA ShutdownStep ==
    ASSUME SlotInv, \/ \E r \in Request : Expire(r) \/ CancelAction(r)
                    \/ ParentDone \/ BeginShutdown \/ EndShutdown \/ UNCHANGED vars
    PROVE  SlotInv'
<1> USE DEF SlotInv
<1>1. UNCHANGED <<step, id, active, wg, arrived>>
  BY Zenon DEF Expire, CancelAction, ParentDone, BeginShutdown, EndShutdown, vars, reqVars
<1>2. Quiet
  BY Zenon, <1>1, SameStepQuiet
<1>3. ActiveIsInFlight' /\ OneRunPerID' /\ WgCounts' /\ SlotsCounted'
  BY Zenon, <1>2, QuietKeepsSlots
<1>4. InFlight' = InFlight
  BY Zenon, <1>2 DEF Quiet
<1>5. InFlight \subseteq Request
  BY Zenon DEF InFlight
<1>6. ASSUME NEW r \in Request, Expire(r) PROVE TypeOK' /\ ShutdownCovers'
  <2>1. TypeOK'
    BY Zenon, <1>1, <1>6 DEF Expire, TypeOK
  <2>2. ShutdownCovers'
    BY Zenon, <1>4, <1>6, CoverKept DEF Expire
  <2> QED BY Zenon, <2>1, <2>2
<1>7. ASSUME NEW r \in Request, CancelAction(r) PROVE TypeOK' /\ ShutdownCovers'
  <2>1. TypeOK'
    BY Zenon, <1>1, <1>7 DEF CancelAction, TypeOK
  <2>2. ShutdownCovers'
    BY Zenon, <1>4, <1>7, CoverKept DEF CancelAction
  <2> QED BY Zenon, <2>1, <2>2
<1>8. CASE BeginShutdown
  <2>1. toCancel' = InFlight
    BY Zenon, <1>8 DEF BeginShutdown, ActiveIsInFlight
  <2>2. TypeOK'
    BY Zenon, <1>1, <1>5, <1>8, <2>1 DEF BeginShutdown, TypeOK
  <2>3. ShutdownCovers'
    BY Zenon, <1>4, <1>8, <2>1 DEF BeginShutdown, ShutdownCovers
  <2> QED BY Zenon, <1>3, <2>2, <2>3
<1>9. CASE EndShutdown
  <2>1. TypeOK'
    BY Zenon, <1>1, <1>9 DEF EndShutdown, TypeOK
  <2>2. ShutdownCovers'
    BY Zenon, <1>4, <1>9 DEF EndShutdown, ShutdownCovers
  <2> QED BY Zenon, <1>3, <2>1, <2>2
<1>10. CASE UNCHANGED vars
  <2>1. TypeOK'
    BY Zenon, <1>10 DEF vars, reqVars, TypeOK
  <2>2. ShutdownCovers'
    BY Zenon, <1>4, <1>10 DEF vars, ShutdownCovers
  <2> QED BY Zenon, <1>3, <2>1, <2>2
<1>11. CASE ParentDone
  <2>1. TypeOK'
    BY Zenon, <1>1, <1>11 DEF ParentDone, TypeOK
  <2>2. cancelled \cup toCancel \subseteq cancelled'
    BY Zenon, <1>11 DEF ParentDone, TypeOK
  <2>3. ShutdownCovers'
    BY Zenon, <1>4, <1>11, <2>2, CoverKept DEF ParentDone
  <2> QED BY Zenon, <1>3, <2>1, <2>3
<1> QED BY Zenon, <1>3, <1>6, <1>7, <1>8, <1>9, <1>10, <1>11

LEMMA SlotStep == SlotInv /\ [Next]_vars => SlotInv'
BY Zenon, ExecuteStep, AdvanceStep, ShutdownStep DEF Next

\* The inductive invariant: types, the active map, one run per ID, the wait
\* group, the slot count and Shutdown's cover.
THEOREM SlotInvariant == Spec => []SlotInv
BY SlotInit, SlotStep, PTL DEF Spec

\* However executions end, the active map is what is in flight, no ID is in
\* flight twice, the wait group counts the goroutines that were launched, and
\* MaxConcurrent bounds the executions in flight.
THEOREM SlotsAreExact == Spec => [](TypeOK /\ SlotsExact)
<1>1. SlotInv => ConcurrencyBounded
  BY Zenon DEF SlotInv, SlotsCounted, ConcurrencyBounded
<1>2. SlotInv => TypeOK /\ SlotsExact
  BY Zenon, <1>1 DEF SlotInv, SlotsExact
<1> QED BY <1>2, SlotInvariant, PTL

\* Shutdown never returns with an execution in flight that it has not
\* cancelled.
THEOREM NothingLivesPastShutdown == Spec => []ShutdownCancelsAll
<1>1. SlotInv => ShutdownCancelsAll
  BY Zenon DEF SlotInv, ShutdownCovers, ShutdownCancelsAll
<1> QED BY <1>1, SlotInvariant, PTL

----------------------------------------------------------------------------
(* Deadlines: a result has a status from the action's return to the end of *)
(* its goroutine only, so a deadline always passes before it is determined.*)

DeadlineInv ==
    /\ status \in [Request -> {"none", "success", "failed", "error", "timeout", "cancelled"}]
    /\ \A r \in Request : step[r] \notin {"report", "cleanup"} => status[r] = "none"
    /\ TimeoutReported

LEMMA DeadlineStep ==
    ASSUME SlotInv, DeadlineInv, [Next]_vars
    PROVE  DeadlineInv'
<1> DEFINE Status == {"none", "success", "failed", "error", "timeout", "cancelled"}
<1> USE DEF DeadlineInv, TimeoutReported
<1>1. step \in [Request -> Step] /\ expired \subseteq Request
  BY Zenon DEF SlotInv, TypeOK
<1>2. ASSUME NEW i \in Execution, NEW known \in BOOLEAN, Execute(i, known)
      PROVE  DeadlineInv'
  <2>1. arrived + 1 \in Request /\ step[arrived + 1] = "absent"
    BY <1>2, LimitsAssumption DEF Execute, SlotInv, TypeOK, Request
  <2> QED BY Zenon, <1>1, <1>2, <2>1 DEF Execute
<1>3. ASSUME NEW r \in Request, Ack(r)
      PROVE  DeadlineInv'
  BY Zenon, <1>1, <1>3 DEF Ack
<1>4. ASSUME NEW r \in Request, Launch(r)
      PROVE  DeadlineInv'
  BY Zenon, <1>1, <1>4 DEF Launch
<1>5. ASSUME NEW r \in Request, NEW err \in {"nil", "exit", "other"},
             NEW exitCode \in {0, 1}, ActionReturns(r, err, exitCode)
      PROVE  DeadlineInv'
  <2> DEFINE s == DetermineStatus(r, err, exitCode)
  <2>1. s \in Status /\ (r \in expired => s # "cancelled")
    BY Zenon DEF DetermineStatus
  <2>2. /\ status' = [status EXCEPT ![r] = s]
        /\ step' = [step EXCEPT ![r] = "report"]
        /\ expired' = expired
    BY Zenon, <1>5 DEF ActionReturns
  <2> HIDE DEF s
  <2> QED BY Zenon, <1>1, <2>1, <2>2
<1>6. ASSUME NEW r \in Request, ActionPanics(r)
      PROVE  DeadlineInv'
  BY Zenon, <1>1, <1>6 DEF ActionPanics
<1>7. ASSUME NEW r \in Request, ReportResult(r)
      PROVE  DeadlineInv'
  BY Zenon, <1>1, <1>7 DEF ReportResult
<1>8. ASSUME NEW r \in Request, Cleanup(r)
      PROVE  DeadlineInv'
  BY Zenon, <1>1, <1>8 DEF Cleanup
<1>9. ASSUME NEW r \in Request, WgDone(r)
      PROVE  DeadlineInv'
  BY Zenon, <1>1, <1>9 DEF WgDone
<1>10. ASSUME NEW r \in Request, Expire(r)
       PROVE  DeadlineInv'
  BY Zenon, <1>1, <1>10 DEF Expire
<1>11. ASSUME UNCHANGED <<step, status, expired>>
       PROVE  DeadlineInv'
  BY Zenon, <1>11
<1> QED
  BY ZenonT(30), <1>2, <1>3, <1>4, <1>5, <1>6, <1>7, <1>8, <1>9, <1>10, <1>11
     DEF Next, Advance, Returns, CancelAction, ParentDone, BeginShutdown, EndShutdown, vars

\* executor.go, determineStatus: an action whose deadline passed is never
\* reported as cancelled, even when Shutdown or the end of the agent cancels its
\* context before the action has returned.
THEOREM DeadlinesAreReported == Spec => []TimeoutReported
<1>1. Init => DeadlineInv
  BY Zenon DEF Init, DeadlineInv, TimeoutReported
<1> QED BY <1>1, DeadlineStep, SlotInvariant, PTL DEF Spec, DeadlineInv

=============================================================================
