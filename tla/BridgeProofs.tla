---------------------------- MODULE BridgeProofs ----------------------------
(***************************************************************************)
(* The servers of a bridge node: the relay with its address index, and     *)
(* ingress with its rules and proxied connections; for any IDs, addresses, *)
(* ports and clients, any limits, and any number of sessions and rules.    *)
(***************************************************************************)
EXTENDS Relay, Ingress, FiniteSetTheorems, TLAPS

----------------------------------------------------------------------------
(* The relay *)

SessionCount == Cardinality(DOMAIN info)
RelayCycle == [n : Nat, stale : SUBSET RelayID, missing : SUBSET RelayID]

\* Every session ever added keeps its ID and endpoints, the table leads to the
\* session with the ID, and timers and the handler know only such IDs.
TableInv ==
    /\ SessionCount \in Nat /\ DOMAIN info = 1 .. SessionCount
    /\ \A n \in DOMAIN info : info[n].id \in RelayID /\ info[n].a \in Addr /\ info[n].b \in Addr
    /\ relaySessions \in [RelayID -> Nat]
    /\ \A id \in RelayID : relaySessions[id] # NoSession =>
          relaySessions[id] \in DOMAIN info /\ info[relaySessions[id]].id = id
    /\ addrIndex \in [Addr -> Nat]
    /\ DOMAIN ttl = Number
    /\ \A n \in Number : ttl[n] \in {"armed", "fired"} => n \in DOMAIN info
    /\ relayCycle \in RelayCycle

IndexInv == TableInv /\ IndexFaithful

----------------------------------------------------------------------------
LEMMA IndexInitially == RelayInit => IndexInv
<1> SUFFICES ASSUME RelayInit PROVE IndexInv
  BY Zenon
<1>1. DOMAIN info = {} /\ SessionCount = 0
  BY FS_EmptySet DEF RelayInit, SessionCount
<1>2. TableInv
  BY <1>1 DEF RelayInit, TableInv, NoSession, RelayCycle
<1>3. IndexFaithful
  BY Zenon DEF RelayInit, IndexFaithful, Live, NoSession
<1> QED BY Zenon, <1>2, <1>3 DEF IndexInv

\* Steps that leave table, index and sessions alone and arm no timer.
Quiet ==
    /\ UNCHANGED <<relaySessions, info, addrIndex>>
    /\ DOMAIN ttl' = Number
    /\ \A n \in Number : ttl'[n] \in {"armed", "fired"} => ttl[n] \in {"armed", "fired"}
    /\ relayCycle' \in RelayCycle

LEMMA QuietStep == IndexInv /\ Quiet => IndexInv'
<1> SUFFICES ASSUME IndexInv, Quiet PROVE IndexInv'
  BY Zenon
<1>1. SessionCount' = SessionCount
  BY Zenon DEF Quiet, SessionCount
<1>2. TableInv'
  BY Zenon, <1>1 DEF Quiet, IndexInv, TableInv
<1>3. IndexFaithful'
  BY DEF Quiet, IndexInv, IndexFaithful, Live, Endpoints
<1> QED BY Zenon, <1>2, <1>3 DEF IndexInv

----------------------------------------------------------------------------
\* Removing a session takes its endpoints out of the index, and with them every
\* entry that leads to it; no other entry of a session without shared endpoints
\* is touched.
LEMMA RemoveStep ==
    ASSUME IndexInv, NEW id \in RelayID, NEW timers, RemoveSession(id, timers),
           DOMAIN timers = Number,
           \A n \in Number : timers[n] \in {"armed", "fired"} => ttl[n] \in {"armed", "fired"},
           relayCycle' \in RelayCycle
    PROVE  IndexInv'
<1>1. CASE relaySessions[id] = NoSession
  <2>1. Quiet
    BY Zenon, <1>1 DEF RemoveSession, Quiet
  <2> QED BY Zenon, <2>1, QuietStep
<1>2. CASE relaySessions[id] # NoSession
  <2> DEFINE n == relaySessions[id]
  <2>1. /\ relaySessions' = [relaySessions EXCEPT ![id] = NoSession]
        /\ addrIndex' = Unindex(n)
        /\ ttl' = [timers EXCEPT ![n] = IF @ = "armed" THEN "over" ELSE @]
        /\ info' = info
    BY Zenon, <1>2 DEF RemoveSession
  <2>2. n \in DOMAIN info /\ info[n].id = id
    BY Zenon, <1>2 DEF IndexInv, TableInv
  <2>3. \A a \in Addr : addrIndex'[a] = IF a \in Endpoints(n) THEN NoSession ELSE addrIndex[a]
    BY Zenon, <2>1 DEF Unindex
  <2>4. addrIndex' \in [Addr -> Nat]
    BY Zenon, <2>1 DEF Unindex, NoSession, IndexInv, TableInv
  <2>5. /\ DOMAIN ttl' = Number
        /\ \A m \in Number : ttl'[m] \in {"armed", "fired"} => ttl[m] \in {"armed", "fired"}
    BY Zenon, <2>1
  <2>6. \A j \in RelayID : relaySessions'[j] = IF j = id THEN NoSession ELSE relaySessions[j]
    BY Zenon, <2>1 DEF IndexInv, TableInv
  <2>7. TableInv'
    <3>1. SessionCount' = SessionCount
      BY Zenon, <2>1 DEF SessionCount
    <3>2. relaySessions' \in [RelayID -> Nat]
      BY Zenon, <2>1 DEF IndexInv, TableInv, NoSession
    <3> QED BY Zenon, <2>1, <2>4, <2>5, <2>6, <3>1, <3>2 DEF IndexInv, TableInv
  <2> HIDE DEF n
  <2>8. Live' \subseteq Live /\ n \notin Live' /\ \A m \in Live : m # n => m \in Live'
    <3>1. \A j \in RelayID : relaySessions[j] = n => j = id
      BY Zenon, <1>2, <2>2 DEF n, IndexInv, TableInv
    <3> QED BY Zenon, <1>2, <2>6, <3>1 DEF n, Live
  <2>9. ASSUME NEW a \in Addr, addrIndex'[a] # NoSession
        PROVE  addrIndex'[a] \in Live' /\ a \in Endpoints(addrIndex[a]) /\ addrIndex'[a] = addrIndex[a]
    <3>1. a \notin Endpoints(n) /\ addrIndex'[a] = addrIndex[a]
      BY Zenon, <2>3, <2>9
    <3>2. addrIndex[a] \in Live /\ a \in Endpoints(addrIndex[a])
      BY Zenon, <2>9, <3>1 DEF IndexInv, IndexFaithful
    <3>3. addrIndex[a] # n
      BY Zenon, <3>1, <3>2
    <3> QED BY Zenon, <3>1, <3>2, <3>3, <2>8
  <2>10. ASSUME NEW m \in Live',
                \A h \in DOMAIN info \ {m} : Endpoints(h) \intersect Endpoints(m) = {},
                NEW a \in Endpoints(m)
         PROVE  addrIndex'[a] = m
    <3>0. m \in Live /\ m # n
      BY Zenon, <2>8
    <3>1. m \in Live /\ m # n /\ m \in DOMAIN info
      BY Zenon, <3>0 DEF Live, IndexInv, TableInv
    <3>2. addrIndex[a] = m /\ a \in Addr
      BY <2>10, <3>1 DEF IndexInv, IndexFaithful, TableInv, Endpoints
    <3>3. a \notin Endpoints(n)
      BY Zenon, <2>2, <2>10, <3>1
    <3> QED BY Zenon, <2>3, <3>2, <3>3
  <2>11. IndexFaithful'
    BY ZenonT(30), <2>1, <2>9, <2>10 DEF IndexFaithful, Endpoints
  <2> QED BY Zenon, <2>7, <2>11 DEF IndexInv
<1> QED BY Zenon, <1>1, <1>2

\* A session is added under a free ID with a number of its own.
LEMMA AddStep ==
    ASSUME IndexInv, NEW id \in RelayID, NEW pair \in PeerPair, AddSession(id, pair),
           relayCycle' \in RelayCycle
    PROVE  IndexInv'
<1> DEFINE n == SessionCount + 1
           a == pair[1]
           b == pair[2]
<1>0. a \in Addr /\ b \in Addr
  BY Zenon, RelayAssumption
<1>1. /\ n \in Number /\ n \notin DOMAIN info /\ n # NoSession /\ n \in Nat
      /\ relaySessions[id] = NoSession
      /\ relaySessions' = [relaySessions EXCEPT ![id] = n]
      /\ addrIndex' = [addrIndex EXCEPT ![a] = n, ![b] = n]
      /\ ttl' = [ttl EXCEPT ![n] = "armed"]
  BY RelayAssumption DEF AddSession, SessionCount, IndexInv, TableInv, Number, NoSession, Index
<1>2. /\ DOMAIN info' = 1 .. n /\ DOMAIN info' = DOMAIN info \union {n}
      /\ info'[n].id = id /\ info'[n].a = a /\ info'[n].b = b
      /\ \A m \in DOMAIN info : info'[m] = info[m]
  <2>1. info' = [m \in 1 .. n |-> IF m = n THEN [id |-> id, a |-> a, b |-> b] ELSE info[m]]
    BY Zenon DEF AddSession, SessionCount
  <2>2. 1 .. n = 1 .. SessionCount \union {n} /\ n \in 1 .. n /\ DOMAIN info = 1 .. SessionCount
    BY DEF IndexInv, TableInv
  <2> HIDE DEF n
  <2> QED BY Zenon, <1>1, <2>1, <2>2
<1>3. SessionCount' = n
  BY <1>1, <1>2, FS_Interval DEF SessionCount
<1> HIDE DEF n, a, b
<1>4. \A j \in RelayID : relaySessions'[j] = IF j = id THEN n ELSE relaySessions[j]
  BY Zenon, <1>1 DEF IndexInv, TableInv
<1>5. \A x \in Addr : addrIndex'[x] = IF x \in {a, b} THEN n ELSE addrIndex[x]
  BY Zenon, <1>0, <1>1 DEF IndexInv, TableInv
<1>6. TableInv'
  <2>1. SessionCount' \in Nat /\ DOMAIN info' = 1 .. SessionCount'
    BY Zenon, <1>1, <1>2, <1>3
  <2>2. \A m \in DOMAIN info' : info'[m].id \in RelayID /\ info'[m].a \in Addr /\ info'[m].b \in Addr
    <3> SUFFICES ASSUME NEW m \in DOMAIN info'
                 PROVE  info'[m].id \in RelayID /\ info'[m].a \in Addr /\ info'[m].b \in Addr
      BY Zenon
    <3>1. CASE m = n
      BY Zenon, <3>1, <1>0, <1>2
    <3>2. CASE m \in DOMAIN info
      BY Zenon, <3>2, <1>2 DEF IndexInv, TableInv
    <3> QED BY Zenon, <3>1, <3>2, <1>2
  <2>3. relaySessions' \in [RelayID -> Nat] /\ addrIndex' \in [Addr -> Nat]
    BY Zenon, <1>0, <1>1 DEF IndexInv, TableInv
  <2>4. ASSUME NEW j \in RelayID, relaySessions'[j] # NoSession
        PROVE  relaySessions'[j] \in DOMAIN info' /\ info'[relaySessions'[j]].id = j
    <3>1. CASE j = id
      BY Zenon, <3>1, <1>2, <1>4
    <3>2. CASE j # id
      <4>1. relaySessions'[j] = relaySessions[j]
        BY Zenon, <3>2, <1>4
      <4>2. relaySessions[j] \in DOMAIN info /\ info[relaySessions[j]].id = j
        BY Zenon, <4>1, <2>4 DEF IndexInv, TableInv
      <4> QED BY ZenonT(30), <4>1, <4>2, <1>2
    <3> QED BY Zenon, <3>1, <3>2
  <2>5. DOMAIN ttl' = Number /\ \A m \in Number : ttl'[m] \in {"armed", "fired"} => m \in DOMAIN info'
    BY Zenon, <1>1, <1>2 DEF IndexInv, TableInv
  <2> QED BY Zenon, <2>1, <2>2, <2>3, <2>4, <2>5 DEF TableInv
<1>7. Live' = Live \union {n} /\ Live \subseteq DOMAIN info
  <2>1. Live' \subseteq Live \union {n}
    BY Zenon, <1>4 DEF Live
  <2>2. n \in Live'
    BY Zenon, <1>1, <1>4 DEF Live
  <2>3. Live \subseteq Live'
    BY Zenon, <1>1, <1>4 DEF Live
  <2>4. Live \subseteq DOMAIN info
    BY Zenon DEF Live, IndexInv, TableInv
  <2> QED BY Zenon, <2>1, <2>2, <2>3, <2>4
<1>8. ASSUME NEW x \in Addr, addrIndex'[x] # NoSession
      PROVE  /\ addrIndex'[x] \in Live'
             /\ x \in {info'[addrIndex'[x]].a, info'[addrIndex'[x]].b}
  <2>1. CASE x \in {a, b}
    BY Zenon, <2>1, <1>2, <1>5, <1>7
  <2>2. CASE x \notin {a, b}
    <3>1. addrIndex'[x] = addrIndex[x] /\ addrIndex[x] \in Live /\ x \in Endpoints(addrIndex[x])
      BY Zenon, <2>2, <1>5, <1>8 DEF IndexInv, IndexFaithful
    <3>2. addrIndex[x] \in DOMAIN info
      BY Zenon, <3>1, <1>7
    <3> QED BY Zenon, <3>1, <3>2, <1>2, <1>7 DEF Endpoints
  <2> QED BY Zenon, <2>1, <2>2
<1>9. ASSUME NEW m \in Live',
             \A h \in DOMAIN info' \ {m} :
                 {info'[h].a, info'[h].b} \intersect {info'[m].a, info'[m].b} = {},
             NEW x \in {info'[m].a, info'[m].b}
      PROVE  addrIndex'[x] = m
  <2>1. CASE m = n
    BY Zenon, <2>1, <1>0, <1>2, <1>5
  <2>2. CASE m # n
    <3>1. m \in Live /\ m \in DOMAIN info /\ info'[m] = info[m]
      BY Zenon, <2>2, <1>2, <1>7
    <3>2. \A h \in DOMAIN info \ {m} : Endpoints(h) \intersect Endpoints(m) = {}
      BY Zenon, <1>2, <1>9, <3>1 DEF Endpoints
    <3>3. x \in Endpoints(m) /\ x \in Addr
      BY <1>9, <3>1 DEF Endpoints, IndexInv, TableInv
    <3>4. addrIndex[x] = m
      BY Zenon, <3>1, <3>2, <3>3 DEF IndexInv, IndexFaithful
    <3>5. x \notin {a, b}
      <4>1. n \in DOMAIN info' \ {m} /\ info'[n].a = a /\ info'[n].b = b
        BY Zenon, <2>2, <1>2
      <4> QED BY Zenon, <4>1, <1>9
    <3> QED BY Zenon, <1>5, <3>3, <3>4, <3>5
  <2> QED BY Zenon, <2>1, <2>2
<1>10. IndexFaithful'
  BY Zenon, <1>8, <1>9 DEF IndexFaithful, Endpoints
<1> QED BY Zenon, <1>6, <1>10 DEF IndexInv

LEMMA StopStep == ASSUME IndexInv, StopRelay PROVE IndexInv'
<1>1. /\ relaySessions' = [id \in RelayID |-> NoSession]
      /\ addrIndex' = [x \in Addr |-> NoSession]
      /\ UNCHANGED <<info, relayCycle>>
      /\ ttl' = [n \in Number |-> Disarm(n)]
  BY Zenon DEF StopRelay
<1>2. \A n \in Number : ttl'[n] \in {"armed", "fired"} => ttl[n] \in {"armed", "fired"}
  BY Zenon, <1>1 DEF Disarm
<1>3. SessionCount' = SessionCount
  BY Zenon, <1>1 DEF SessionCount
<1>4. TableInv'
  BY Zenon, <1>1, <1>2, <1>3 DEF IndexInv, TableInv, NoSession
<1>5. IndexFaithful'
  BY Zenon, <1>1 DEF IndexFaithful, Live
<1> QED BY Zenon, <1>4, <1>5 DEF IndexInv

LEMMA IndexPreserved == IndexInv /\ [RelayNext]_relayVars => IndexInv'
<1> SUFFICES ASSUME IndexInv, [RelayNext]_relayVars PROVE IndexInv'
  BY Zenon
<1>0. /\ DOMAIN ttl = Number
      /\ relayCycle \in RelayCycle
  BY Zenon DEF IndexInv, TableInv
<1>1. CASE \/ StartRelay \/ CloseSocket \/ Forward \/ Send \/ DispatchReturns
           \/ (\E x \in Addr : Receive(x)) \/ (\E n \in Number : CloseSession(n))
           \/ UNCHANGED relayVars
  <2>1. UNCHANGED <<relaySessions, info, addrIndex, ttl, relayCycle>>
    BY Zenon, <1>1 DEF StartRelay, CloseSocket, Forward, Send, DispatchReturns, Receive, CloseSession,
         relayVars
  <2>2. Quiet
    BY Zenon, <2>1, <1>0 DEF Quiet
  <2> QED BY Zenon, <2>2, QuietStep
<1>2. ASSUME NEW n \in Number, TTLExpires(n) PROVE IndexInv'
  <2>1. Quiet
    BY Zenon, <1>0, <1>2 DEF TTLExpires, Quiet
  <2> QED BY Zenon, <2>1, QuietStep
<1>3. ASSUME NEW n \in Number, TTLCallback(n) PROVE IndexInv'
  <2> DEFINE timers == [ttl EXCEPT ![n] = "over"]
  <2>1. info[n].id \in RelayID
    BY Zenon, <1>3 DEF TTLCallback, IndexInv, TableInv
  <2>2. RemoveSession(info[n].id, timers) /\ relayCycle' = relayCycle
    BY Zenon, <1>3 DEF TTLCallback
  <2>3. /\ DOMAIN timers = Number
        /\ \A m \in Number : timers[m] \in {"armed", "fired"} => ttl[m] \in {"armed", "fired"}
    BY Zenon, <1>0
  <2> HIDE DEF timers
  <2> QED BY Zenon, <1>0, <2>1, <2>2, <2>3, RemoveStep
<1>4. CASE RelayEvent
  <2>1. relayCycle' = relayCycle
    BY Zenon, <1>4 DEF RelayEvent
  <2>2. ASSUME NEW id \in RelayID, NEW pair \in PeerPair, AddSession(id, pair) PROVE IndexInv'
    BY Zenon, <1>0, <2>1, <2>2, AddStep
  <2>3. ASSUME NEW id \in RelayID, RemoveSession(id, ttl) PROVE IndexInv'
    BY Zenon, <1>0, <2>1, <2>3, RemoveStep
  <2> QED BY Zenon, <1>4, <2>2, <2>3 DEF RelayEvent
<1>5. CASE CycleSessions
  <2>1. relayCycle' \in RelayCycle
    <3>1. PICK id : Rest(id)
      BY Zenon, <1>5 DEF CycleSessions
    <3> QED BY Zenon, <1>0, <3>1 DEF Rest, RelayCycle
  <2>2. ASSUME NEW id \in RelayID, NEW pair \in PeerPair, AddSession(id, pair) PROVE IndexInv'
    BY Zenon, <2>1, <2>2, AddStep
  <2>3. ASSUME NEW id \in RelayID, RemoveSession(id, ttl) PROVE IndexInv'
    BY Zenon, <1>0, <2>1, <2>3, RemoveStep
  <2>4. CASE UNCHANGED <<relaySessions, info, addrIndex, ttl>>
    <3>1. Quiet
      BY Zenon, <1>0, <2>1, <2>4 DEF Quiet
    <3> QED BY Zenon, <3>1, QuietStep
  <2> QED BY Zenon, <1>0, <1>5, <2>2, <2>3, <2>4 DEF CycleSessions, RelayCycle
<1>6. ASSUME NEW desired \in SUBSET RelayID, PlanSessions(desired) PROVE IndexInv'
  <2>1. Quiet
    BY <1>0, <1>6 DEF PlanSessions, Quiet, RelayCycle
  <2> QED BY Zenon, <2>1, QuietStep
<1> QED BY Zenon, <1>1, <1>2, <1>3, <1>4, <1>5, <1>6, StopStep DEF RelayNext

----------------------------------------------------------------------------
\* However sessions are added, removed, re-added under an ID whose old timer is
\* about to fire, and stopped, the index leads only to sessions of the table
\* that have the address, and finds every session whose endpoints are its own
\* (relay.go).
THEOREM IndexAlwaysFaithful == RelaySpec => []IndexFaithful
<1>1. IndexInv => IndexFaithful
  BY Zenon DEF IndexInv
<1> QED BY <1>1, IndexInitially, IndexPreserved, PTL DEF RelaySpec

----------------------------------------------------------------------------
(* Ingress *)

Phase == {"none", "cancel", "close", "wait", "back"}

\* Rules in the table, listeners and removers are of rules that were added; and
\* a listener is of a rule in the table or of one that is being closed.
RulesInv ==
    /\ rulesAdded \in 0 .. MaxRulesAdded
    /\ activeRules \in [RuleID -> 0 .. rulesAdded]
    /\ DOMAIN port = RuleNo /\ \A n \in 1 .. rulesAdded : port[n] \in Port
    /\ remover \in [RuleNo -> Phase]
    /\ bound \subseteq 1 .. rulesAdded
    /\ bound \subseteq Held \union Closing

LEMMA NumbersGrow ==
    ASSUME RulesInv, rulesAdded < MaxRulesAdded
    PROVE  /\ rulesAdded + 1 \in RuleNo /\ rulesAdded + 1 \in 0 .. MaxRulesAdded
           /\ 0 .. rulesAdded \subseteq 0 .. (rulesAdded + 1)
           /\ 1 .. rulesAdded \subseteq 1 .. (rulesAdded + 1)
           /\ 1 .. rulesAdded \subseteq RuleNo
           /\ rulesAdded + 1 \notin 0 .. rulesAdded
           /\ rulesAdded + 1 \in 1 .. (rulesAdded + 1) /\ rulesAdded + 1 \in 0 .. (rulesAdded + 1)
           /\ \A n \in 1 .. (rulesAdded + 1) : n \in 1 .. rulesAdded \/ n = rulesAdded + 1
           /\ rulesAdded + 1 # NoRule
BY IngressAssumption DEF RulesInv, RuleNo, NoRule

LEMMA AddRuleStep ==
    ASSUME RulesInv, NEW id \in RuleID, NEW p \in Port, AddRule(id, p)
    PROVE  RulesInv'
<1> DEFINE n == rulesAdded + 1
<1>1. /\ activeRules[id] = NoRule /\ rulesAdded < MaxRulesAdded /\ rulesAdded' = n
      /\ port' = [port EXCEPT ![n] = p] /\ bound' = bound \union {n}
      /\ activeRules' = [activeRules EXCEPT ![id] = n] /\ remover' = remover
  BY Zenon DEF AddRule, Refused
<1>2. /\ n \in RuleNo /\ n \in 0 .. MaxRulesAdded /\ 0 .. rulesAdded \subseteq 0 .. n
      /\ 1 .. rulesAdded \subseteq 1 .. n /\ 1 .. rulesAdded \subseteq RuleNo
      /\ n \in 1 .. n /\ n \in 0 .. n /\ n # NoRule /\ n \notin 0 .. rulesAdded
      /\ \A m \in 1 .. n : m \in 1 .. rulesAdded \/ m = n
  BY Zenon, <1>1, NumbersGrow
<1>3. activeRules \in [RuleID -> 0 .. rulesAdded]
  BY Zenon DEF RulesInv
<1> HIDE DEF n
<1>4. activeRules' \in [RuleID -> 0 .. n]
  BY Zenon, <1>1, <1>2, <1>3
<1>5. DOMAIN port' = RuleNo /\ \A m \in 1 .. n : port'[m] \in Port
  BY Zenon, <1>1, <1>2 DEF RulesInv
<1>6. Closing' = Closing
  BY Zenon, <1>1 DEF Closing
<1>7. ASSUME NEW m \in bound' PROVE m \in Held' \union Closing' /\ m \in 1 .. n
  <2>1. CASE m = n
    <3>1. activeRules'[id] = n
      BY Zenon, <1>1, <1>3
    <3> QED BY Zenon, <1>2, <2>1, <3>1 DEF Held
  <2>2. CASE m \in bound /\ m \in Closing
    BY Zenon, <1>2, <1>6, <2>2 DEF RulesInv
  <2>3. CASE m \in bound /\ m \in Held
    <3>1. PICK j \in RuleID : activeRules[j] = m /\ m # NoRule
      BY Zenon, <2>3 DEF Held
    <3>2. activeRules'[j] = m
      BY Zenon, <1>1, <1>3, <3>1
    <3> QED BY Zenon, <1>2, <2>3, <3>1, <3>2 DEF RulesInv, Held
  <2> QED BY ZenonT(30), <1>1, <1>7, <2>1, <2>2, <2>3 DEF RulesInv
<1> QED BY Zenon, <1>1, <1>2, <1>4, <1>5, <1>7 DEF RulesInv

LEMMA RemoveRuleStep ==
    ASSUME RulesInv, NEW id \in RuleID, activeRules[id] # NoRule, RemoveRule(id)
    PROVE  RulesInv'
<1>1. /\ activeRules' = [activeRules EXCEPT ![id] = NoRule]
      /\ remover' = [n \in RuleNo |-> IF n = activeRules[id] THEN "cancel" ELSE remover[n]]
      /\ UNCHANGED <<port, rulesAdded, bound>>
  BY Zenon DEF RemoveRule, boundVars
<1>2. activeRules \in [RuleID -> 0 .. rulesAdded] /\ 0 \in 0 .. rulesAdded
      /\ 1 .. rulesAdded \subseteq RuleNo
  BY IngressAssumption DEF RulesInv, RuleNo
<1>3. activeRules' \in [RuleID -> 0 .. rulesAdded]
  BY Zenon, <1>1, <1>2 DEF NoRule
<1>4. remover' \in [RuleNo -> Phase] /\ Closing \subseteq Closing'
      /\ \A n \in RuleNo : n = activeRules[id] => n \in Closing'
  BY Zenon, <1>1 DEF RulesInv, Phase, Closing
<1>5. ASSUME NEW m \in bound PROVE m \in Held' \union Closing'
  <2>1. m \in RuleNo
    BY Zenon, <1>2 DEF RulesInv
  <2>2. CASE m = activeRules[id]
    BY Zenon, <1>4, <2>1, <2>2
  <2>3. CASE m # activeRules[id] /\ m \in Held
    <3>1. PICK j \in RuleID : activeRules[j] = m /\ m # NoRule
      BY Zenon, <2>3 DEF Held
    <3>2. activeRules'[j] = m
      BY Zenon, <1>1, <1>2, <2>3, <3>1
    <3> QED BY Zenon, <3>1, <3>2 DEF Held
  <2> QED BY Zenon, <1>4, <2>2, <2>3 DEF RulesInv
<1> QED BY Zenon, <1>1, <1>3, <1>4, <1>5 DEF RulesInv

LEMMA RemoverSteps ==
    ASSUME RulesInv, NEW n \in RuleNo, CancelRule(n) \/ CloseListener(n) \/ RemoveRuleReturns(n)
    PROVE  RulesInv' /\ Closing' \subseteq Closing /\ Held' = Held
<1>1. UNCHANGED <<port, rulesAdded, activeRules>>
  BY Zenon DEF CancelRule, CloseListener, RemoveRuleReturns, boundVars
<1>2. Held' = Held
  BY Zenon, <1>1 DEF Held
<1>3. CASE CancelRule(n)
  <2>1. remover[n] = "cancel" /\ remover' = [remover EXCEPT ![n] = "close"] /\ bound' = bound
    BY Zenon, <1>3 DEF CancelRule, RemoverStep
  <2>2. remover' \in [RuleNo -> Phase] /\ Closing' = Closing
    BY Zenon, <2>1 DEF RulesInv, Phase, Closing
  <2> QED BY Zenon, <1>1, <1>2, <2>1, <2>2 DEF RulesInv
<1>4. CASE CloseListener(n)
  <2>1. remover[n] = "close" /\ remover' = [remover EXCEPT ![n] = "wait"] /\ bound' = bound \ {n}
    BY Zenon, <1>4 DEF CloseListener, RemoverStep
  <2>2. remover' \in [RuleNo -> Phase] /\ Closing' = Closing \ {n}
    BY Zenon, <2>1 DEF RulesInv, Phase, Closing
  <2> QED BY ZenonT(30), <1>1, <1>2, <2>1, <2>2 DEF RulesInv
<1>5. CASE RemoveRuleReturns(n)
  <2>1. remover[n] = "wait" /\ remover' = [remover EXCEPT ![n] = "back"] /\ bound' = bound
    BY Zenon, <1>5 DEF RemoveRuleReturns, RemoverStep
  <2>2. remover' \in [RuleNo -> Phase] /\ Closing' = Closing
    BY Zenon, <2>1 DEF RulesInv, Phase, Closing
  <2> QED BY Zenon, <1>1, <1>2, <2>1, <2>2 DEF RulesInv
<1> QED BY Zenon, <1>3, <1>4, <1>5

LEMMA IngressTeardownStep ==
    ASSUME RulesInv, IngressTeardown
    PROVE  RulesInv'
<1>1. /\ bound' = bound \ Held /\ activeRules' = [id \in RuleID |-> NoRule]
      /\ UNCHANGED <<port, rulesAdded, remover>>
  BY Zenon DEF IngressTeardown, boundVars
<1>2. activeRules' \in [RuleID -> 0 .. rulesAdded]
  BY <1>1, IngressAssumption DEF RulesInv, NoRule
<1>3. Closing' = Closing
  BY Zenon, <1>1 DEF Closing
<1> QED BY Zenon, <1>1, <1>2, <1>3 DEF RulesInv

LEMMA SameRules ==
    ASSUME RulesInv, UNCHANGED <<port, rulesAdded, activeRules, remover, bound>>
    PROVE  RulesInv' /\ Held' = Held /\ Closing' = Closing
BY Zenon DEF RulesInv, Held, Closing

LEMMA AddRuleKeeps ==
    ASSUME RulesInv, NEW id \in RuleID, NEW p, AddRule(id, p)
    PROVE  /\ activeRules'[id] # NoRule /\ port'[activeRules'[id]] = p
           /\ \A j \in RuleID \ {id} : /\ activeRules'[j] = activeRules[j]
                                       /\ port'[activeRules'[j]] = port[activeRules[j]]
           /\ Closing' = Closing
<1> DEFINE n == rulesAdded + 1
<1>1. /\ rulesAdded < MaxRulesAdded
      /\ port' = [port EXCEPT ![n] = p]
      /\ activeRules' = [activeRules EXCEPT ![id] = n] /\ remover' = remover
  BY Zenon DEF AddRule
<1>2. n \in RuleNo /\ n # NoRule /\ n \notin 0 .. rulesAdded
  BY Zenon, <1>1, NumbersGrow
<1>3. activeRules \in [RuleID -> 0 .. rulesAdded] /\ DOMAIN port = RuleNo
  BY Zenon DEF RulesInv
<1> HIDE DEF n
<1>4. activeRules'[id] = n /\ port'[n] = p
  BY Zenon, <1>1, <1>2, <1>3
<1>5. ASSUME NEW j \in RuleID \ {id}
      PROVE  activeRules'[j] = activeRules[j] /\ port'[activeRules'[j]] = port[activeRules[j]]
  <2>1. activeRules'[j] = activeRules[j] /\ activeRules[j] # n
    BY Zenon, <1>1, <1>2, <1>3
  <2> QED BY <1>1, <2>1
<1> QED BY Zenon, <1>1, <1>2, <1>4, <1>5 DEF Closing

(* Proxied connections *)

At == {"none", "dial", "copy", "close", "gone"}
Busy == {c \in Conn : proxied[c].at \in {"dial", "copy", "close"}}

ConnInv ==
    /\ proxied \in [Conn -> [rule : Nat, at : At]]
    /\ connCount \in Nat /\ connCount = Cardinality(Busy)

LEMMA FiniteBusy == IsFiniteSet(Busy)
BY Zenon, IngressAssumption, FS_Subset DEF Busy

LEMMA AcceptStep ==
    ASSUME ConnInv, NEW n \in RuleNo, NEW c \in Conn, AcceptConn(n, c)
    PROVE  ConnInv'
<1>1. /\ proxied[c].at = "none" /\ connCount' = connCount + 1
      /\ proxied' = [proxied EXCEPT ![c] = [rule |-> n, at |-> "dial"]]
  BY Zenon DEF AcceptConn
<1>2. n \in Nat
  BY DEF RuleNo
<1>3. proxied' \in [Conn -> [rule : Nat, at : At]]
  BY Zenon, <1>1, <1>2 DEF ConnInv, At
<1>4. Busy' = Busy \union {c} /\ c \notin Busy
  BY Zenon, <1>1 DEF ConnInv, Busy
<1>5. Cardinality(Busy)' = Cardinality(Busy) + 1
  BY Zenon, <1>4, FiniteBusy, FS_AddElement
<1> QED BY <1>1, <1>3, <1>5 DEF ConnInv

LEMMA ProxySteps ==
    ASSUME ConnInv, NEW c \in Conn, NEW from \in {"dial", "copy"}, NEW to \in {"copy", "close"},
           ProxyStep(c, from, to), UNCHANGED connCount
    PROVE  ConnInv'
<1>1. proxied[c].at = from /\ proxied' = [proxied EXCEPT ![c].at = to]
  BY Zenon DEF ProxyStep
<1>2. proxied' \in [Conn -> [rule : Nat, at : At]]
  BY Zenon, <1>1 DEF ConnInv, At
<1>3. \A d \in Conn : proxied'[d].at = IF d = c THEN to ELSE proxied[d].at
  BY Zenon, <1>1 DEF ConnInv
<1>4. Busy' = Busy
  BY Zenon, <1>1, <1>3 DEF Busy
<1> QED BY Zenon, <1>2, <1>4 DEF ConnInv

LEMMA ProxyReturnsStep ==
    ASSUME ConnInv, NEW c \in Conn, ProxyReturns(c)
    PROVE  ConnInv'
<1>1. proxied[c].at = "close" /\ proxied' = [proxied EXCEPT ![c].at = "gone"]
      /\ connCount' = connCount - 1
  BY Zenon DEF ProxyReturns, ProxyStep
<1>2. proxied' \in [Conn -> [rule : Nat, at : At]]
  BY Zenon, <1>1 DEF ConnInv, At
<1>3. \A d \in Conn : proxied'[d].at = IF d = c THEN "gone" ELSE proxied[d].at
  BY Zenon, <1>1 DEF ConnInv
<1>4. Busy' = Busy \ {c} /\ c \in Busy
  BY <1>1, <1>3 DEF Busy
<1>5. Cardinality(Busy)' = Cardinality(Busy) - 1
  BY Zenon, <1>4, FiniteBusy, FS_RemoveElement
<1>6. Cardinality(Busy)' \in Nat
  BY Zenon, <1>4, FiniteBusy, FS_CardinalityType, FS_RemoveElement
<1> QED BY Zenon, <1>1, <1>2, <1>5, <1>6 DEF ConnInv

LEMMA SameConns == ASSUME ConnInv, UNCHANGED connVars PROVE ConnInv'
BY Zenon DEF ConnInv, Busy, connVars

(* The reconcile handler *)

\* Where a clean cycle has put a rule: still to be visited, to be added, or as
\* the control plane wants it.
Placed(id) ==
    /\ id \in ruleCycle.visit => activeRules[id] # NoRule /\ id \notin ruleCycle.add
    /\ id \in ruleCycle.add => activeRules[id] = NoRule /\ ruleCycle.want[id] # NoPort
    /\ id \notin ruleCycle.visit /\ id \notin ruleCycle.add =>
          /\ ruleCycle.want[id] = NoPort => activeRules[id] = NoRule
          /\ ruleCycle.want[id] # NoPort => /\ activeRules[id] # NoRule
                                           /\ port[activeRules[id]] = ruleCycle.want[id]

RuleCycleInv ==
    ruleCycle.on =>
        /\ ruleCycle.want \in Wanted
        /\ ruleCycle.visit \subseteq RuleID /\ ruleCycle.add \subseteq RuleID
        /\ \A id \in ruleCycle.add : ruleCycle.want[id] # NoPort
        /\ ruleCycle.clean => Closing \subseteq {ruleCycle.waiting}
        /\ ruleCycle.clean /\ ingress => \A id \in RuleID : Placed(id)

LEMMA InterfereStep == ASSUME RuleCycleInv, Interfere PROVE RuleCycleInv'
<1>1. CASE ruleCycle.on
  <2>1. ruleCycle' = Onward(ruleCycle.visit, ruleCycle.add, ruleCycle.waiting, FALSE)
    BY Zenon, <1>1 DEF Interfere
  <2>2. /\ ruleCycle'.want = ruleCycle.want /\ ruleCycle'.visit = ruleCycle.visit
        /\ ruleCycle'.add = ruleCycle.add /\ ~ruleCycle'.clean
    BY ZenonT(30), <2>1 DEF Onward
  <2> QED BY Zenon, <1>1, <2>2 DEF RuleCycleInv, Wanted
<1>2. CASE ~ruleCycle.on
  BY Zenon, <1>2 DEF Interfere, RuleCycleInv
<1> QED BY Zenon, <1>1, <1>2

LEMMA PlanStep == ASSUME RuleCycleInv, PlanRules PROVE RuleCycleInv'
<1> DEFINE current == {id \in RuleID : activeRules[id] # NoRule}
<1>1. PICK w \in Wanted :
        /\ ruleCycle' = [n |-> ruleCycle.n + 1, on |-> TRUE, want |-> w, visit |-> current,
                         add |-> {id \in RuleID : w[id] # NoPort} \ current,
                         waiting |-> NoRule, clean |-> Closing = {}]
        /\ UNCHANGED <<ingress, activeRules, port, remover>>
  BY Zenon DEF PlanRules
<1>2. /\ ruleCycle'.want = w /\ ruleCycle'.visit = current
      /\ ruleCycle'.add = {id \in RuleID : w[id] # NoPort} \ current
      /\ ruleCycle'.clean <=> Closing = {}
  BY ZenonT(30), <1>1
<1>3. Closing' = Closing /\ Wanted' = Wanted
  BY Zenon, <1>1 DEF Closing, Wanted
<1>4. ASSUME NEW id \in RuleID PROVE Placed(id)'
  BY Zenon, <1>1, <1>2 DEF Placed
<1> QED BY Zenon, <1>2, <1>3, <1>4 DEF RuleCycleInv

LEMMA NoNumber == NoRule \notin RuleNo
BY IngressAssumption DEF NoRule, RuleNo

LEMMA VisitStep == ASSUME RulesInv, RuleCycleInv, VisitRule PROVE RulesInv' /\ RuleCycleInv'
<1>1. ruleCycle.on /\ ruleCycle.waiting = NoRule
  BY Zenon DEF VisitRule
<1>2. PICK id \in ruleCycle.visit :
         IF ingress /\ activeRules[id] # NoRule /\ port[activeRules[id]] # ruleCycle.want[id]
         THEN /\ RemoveRule(id)
              /\ ruleCycle' = Onward(ruleCycle.visit \ {id},
                                     IF ruleCycle.want[id] = NoPort THEN ruleCycle.add
                                     ELSE ruleCycle.add \union {id}, WaitsFor(id), TRUE)
         ELSE /\ ruleCycle' = Onward(ruleCycle.visit \ {id}, ruleCycle.add, NoRule, TRUE)
              /\ UNCHANGED <<ingress, activeRules, port, boundVars, bound, ruleCancelled, ruleLoop,
                             remover, tearing, connVars>>
  BY ZenonT(30) DEF VisitRule
<1>3. /\ ruleCycle.want \in Wanted /\ ruleCycle.visit \subseteq RuleID
      /\ ruleCycle.add \subseteq RuleID /\ id \in RuleID /\ Wanted' = Wanted
      /\ id \in ruleCycle.visit /\ activeRules \in [RuleID -> 0 .. rulesAdded]
  BY Zenon, <1>1 DEF RuleCycleInv, RulesInv, Wanted
<1>4. ruleCycle.clean => Closing = {}
  BY Zenon, <1>1, NoNumber DEF RuleCycleInv, Closing
<1>5. CASE ingress /\ activeRules[id] # NoRule /\ port[activeRules[id]] # ruleCycle.want[id]
  <2> DEFINE add == IF ruleCycle.want[id] = NoPort THEN ruleCycle.add
                    ELSE ruleCycle.add \union {id}
  <2>1. RemoveRule(id) /\ ruleCycle' = Onward(ruleCycle.visit \ {id}, add, WaitsFor(id), TRUE)
    BY Zenon, <1>2, <1>5
  <2>2. /\ ruleCycle'.want = ruleCycle.want /\ ruleCycle'.visit = ruleCycle.visit \ {id}
        /\ ruleCycle'.add = add /\ ruleCycle'.waiting = activeRules[id]
        /\ (ruleCycle'.clean => ruleCycle.clean)
    BY ZenonT(30), <2>1 DEF Onward, WaitsFor
  <2>3. /\ ingress' = ingress /\ activeRules' = [activeRules EXCEPT ![id] = NoRule]
        /\ remover' = [n \in RuleNo |-> IF n = activeRules[id] THEN "cancel" ELSE remover[n]]
        /\ port' = port
    BY Zenon, <2>1 DEF RemoveRule
  <2>4. RulesInv'
    BY Zenon, <1>3, <1>5, <2>1, RemoveRuleStep
  <2>5. ruleCycle'.clean => Closing' \subseteq {ruleCycle'.waiting}
    BY ZenonT(30), <1>4, <2>2, <2>3 DEF Closing
  <2>6. ASSUME ruleCycle.clean, NEW j \in RuleID PROVE Placed(j)'
    <3>1. Placed(j)
      BY Zenon, <1>1, <1>5, <2>6 DEF RuleCycleInv
    <3>2. CASE j = id
      BY Zenon, <1>3, <2>2, <2>3, <3>1, <3>2 DEF Placed
    <3>3. CASE j # id
      <4>1. /\ activeRules'[j] = activeRules[j]
            /\ j \in ruleCycle'.visit <=> j \in ruleCycle.visit
            /\ j \in ruleCycle'.add <=> j \in ruleCycle.add
        BY ZenonT(30), <1>3, <2>2, <2>3, <3>3
      <4> QED BY Zenon, <2>2, <2>3, <3>1, <4>1 DEF Placed
    <3> QED BY Zenon, <3>2, <3>3
  <2>7. add \subseteq RuleID /\ \A j \in add : ruleCycle.want[j] # NoPort
    BY Zenon, <1>1, <1>3 DEF RuleCycleInv
  <2> QED BY ZenonT(30), <1>3, <2>2, <2>4, <2>5, <2>6, <2>7 DEF RuleCycleInv
<1>6. CASE ~(ingress /\ activeRules[id] # NoRule /\ port[activeRules[id]] # ruleCycle.want[id])
  <2>1. /\ ruleCycle' = Onward(ruleCycle.visit \ {id}, ruleCycle.add, NoRule, TRUE)
        /\ UNCHANGED <<ingress, activeRules, port, rulesAdded, bound, remover>>
    BY ZenonT(30), <1>2, <1>6 DEF boundVars
  <2>2. /\ ruleCycle'.want = ruleCycle.want /\ ruleCycle'.visit = ruleCycle.visit \ {id}
        /\ ruleCycle'.add = ruleCycle.add /\ ruleCycle'.waiting = NoRule
        /\ (ruleCycle'.clean => ruleCycle.clean)
    BY Zenon, <2>1 DEF Onward
  <2>3. RulesInv' /\ Closing' = Closing
    BY Zenon, <2>1, SameRules
  <2>4. ASSUME ruleCycle.clean, ingress, NEW j \in RuleID PROVE Placed(j)'
    <3>1. Placed(j) /\ Placed(id)
      BY Zenon, <1>1, <1>3, <2>4 DEF RuleCycleInv
    <3>2. CASE j = id
      <4>1. activeRules[id] # NoRule /\ id \notin ruleCycle.add
        BY Zenon, <1>3, <3>1 DEF Placed
      <4>2. port[activeRules[id]] = ruleCycle.want[id]
        BY Zenon, <1>6, <2>4, <4>1
      <4>3. activeRules[id] \in 1 .. rulesAdded
        BY <1>3, <4>1, IngressAssumption DEF RulesInv, NoRule
      <4>4. ruleCycle.want[id] # NoPort
        BY Zenon, <4>2, <4>3, IngressAssumption DEF RulesInv
      <4> QED BY ZenonT(30), <2>1, <2>2, <3>2, <4>1, <4>2, <4>4 DEF Placed
    <3>3. CASE j # id
      BY ZenonT(30), <2>1, <2>2, <3>1, <3>3 DEF Placed
    <3> QED BY Zenon, <3>2, <3>3
  <2> QED BY ZenonT(30), <1>1, <1>3, <1>4, <2>1, <2>2, <2>3, <2>4 DEF RuleCycleInv
<1> QED BY Zenon, <1>5, <1>6

\* A rule the cycle has left to add finds room in the table and its port free.
LEMMA RoomForRule ==
    ASSUME RulesInv, RuleCycleInv, ruleCycle.on, ruleCycle.clean, ingress,
           ruleCycle.waiting = NoRule, ruleCycle.visit = {}, NEW id \in ruleCycle.add
    PROVE  ~Refused(id) /\ ~InUse(ruleCycle.want[id])
<1> DEFINE want == ruleCycle.want
           Active == {j \in RuleID : activeRules[j] # NoRule}
           Wish == {j \in RuleID : want[j] # NoPort}
<1>1. /\ want \in Wanted /\ id \in RuleID /\ Closing = {} /\ \A j \in RuleID : Placed(j)
  BY Zenon, NoNumber DEF RuleCycleInv, Closing
<1>2. activeRules[id] = NoRule /\ want[id] # NoPort
  BY Zenon, <1>1 DEF Placed
<1>3. ASSUME NEW j \in RuleID, activeRules[j] # NoRule
      PROVE  j # id /\ want[j] # NoPort /\ port[activeRules[j]] = want[j]
  BY Zenon, <1>1, <1>2, <1>3 DEF Placed
<1>4. ~InUse(want[id])
  <2>1. SUFFICES ASSUME NEW n \in bound, port[n] = want[id] PROVE FALSE
    BY Zenon DEF InUse
  <2>2. PICK j \in RuleID : activeRules[j] = n /\ n # NoRule
    BY Zenon, <1>1 DEF RulesInv, Held
  <2>3. j # id /\ want[j] = want[id]
    BY Zenon, <1>3, <2>1, <2>2
  <2> QED BY Zenon, <1>1, <1>2, <2>3 DEF Wanted
<1>5. Cardinality(Held) < MaxIngressRules
  <2>1. IsFiniteSet(Active) /\ IsFiniteSet(Wish)
    BY Zenon, FS_Subset, IngressAssumption
  <2>2. Cardinality(Wish) <= MaxIngressRules
    BY Zenon, <1>1 DEF Wanted
  <2>3. Active \subseteq Wish \ {id} /\ id \in Wish
    BY Zenon, <1>1, <1>2, <1>3
  <2> DEFINE f == [j \in Active |-> activeRules[j]]
  <2>4. f \in Surjection(Active, Held)
    <3>1. f \in [Active -> Held]
      BY Zenon DEF Held
    <3>2. ASSUME NEW n \in Held PROVE \E j \in Active : f[j] = n
      BY Zenon DEF Held
    <3> HIDE DEF f, Active
    <3> QED BY Zenon, <3>1, <3>2 DEF Surjection
  <2> HIDE DEF f, Active, Wish
  <2>5. IsFiniteSet(Held) /\ Cardinality(Held) <= Cardinality(Active)
    BY Zenon, <2>1, <2>4, FS_Surjection
  <2>6. IsFiniteSet(Wish \ {id}) /\ Cardinality(Wish \ {id}) = Cardinality(Wish) - 1
    BY Zenon, <2>1, <2>3, FS_RemoveElement
  <2>7. Cardinality(Active) <= Cardinality(Wish \ {id})
    BY Zenon, <2>3, <2>6, FS_Subset
  <2>8. Cardinality(Held) \in Nat /\ Cardinality(Active) \in Nat /\ Cardinality(Wish) \in Nat
    BY Zenon, <2>1, <2>5, FS_CardinalityType
  <2> QED BY <2>2, <2>5, <2>6, <2>7, <2>8, IngressAssumption
<1>6. Cardinality(Held) \in Nat
  <2>1. Held \subseteq 0 .. rulesAdded /\ IsFiniteSet(0 .. rulesAdded)
    BY FS_Interval, IngressAssumption DEF RulesInv, Held
  <2> QED BY ZenonT(30), <2>1, FS_Subset, FS_CardinalityType
<1>7. ~(Cardinality(Held) >= MaxIngressRules)
  BY <1>5, <1>6, IngressAssumption
<1> QED BY Zenon, <1>2, <1>4, <1>7 DEF Refused

LEMMA AddMissingStep ==
    ASSUME RulesInv, RuleCycleInv, AddMissing
    PROVE  RulesInv' /\ RuleCycleInv'
<1>1. ruleCycle.on /\ ruleCycle.waiting = NoRule /\ ruleCycle.visit = {}
  BY Zenon DEF AddMissing
<1> DEFINE fault(id) == ~Refused(id) /\ ~InUse(ruleCycle.want[id])
<1>2. PICK id \in ruleCycle.add :
        \/ AddRule(id, ruleCycle.want[id]) /\ ruleCycle' = Onward({}, ruleCycle.add \ {id}, NoRule, TRUE)
        \/ /\ ruleCycle' = Onward({}, ruleCycle.add \ {id}, NoRule, ~fault(id))
           /\ UNCHANGED <<ingress, activeRules, port, rulesAdded, bound, remover>>
  BY ZenonT(30) DEF AddMissing
<1>3. /\ ruleCycle.want \in Wanted /\ ruleCycle.add \subseteq RuleID /\ id \in RuleID
      /\ Wanted' = Wanted
  BY Zenon, <1>1 DEF RuleCycleInv, Wanted
<1>4. ruleCycle.clean => Closing = {}
  BY Zenon, <1>1, NoNumber DEF RuleCycleInv, Closing
<1>5. CASE /\ AddRule(id, ruleCycle.want[id])
           /\ ruleCycle' = Onward({}, ruleCycle.add \ {id}, NoRule, TRUE)
  <2>1. /\ ruleCycle'.want = ruleCycle.want /\ ruleCycle'.visit = {}
        /\ ruleCycle'.add = ruleCycle.add \ {id} /\ ruleCycle'.waiting = NoRule
        /\ (ruleCycle'.clean => ruleCycle.clean)
    BY ZenonT(30), <1>5 DEF Onward
  <2>2. /\ activeRules'[id] # NoRule /\ port'[activeRules'[id]] = ruleCycle.want[id]
        /\ \A j \in RuleID \ {id} : /\ activeRules'[j] = activeRules[j]
                                    /\ port'[activeRules'[j]] = port[activeRules[j]]
        /\ Closing' = Closing
    BY Zenon, <1>3, <1>5, AddRuleKeeps
  <2>3. ingress' = ingress /\ ingress
    BY Zenon, <1>5 DEF AddRule, Refused
  <2>4. RulesInv'
    <3>1. ruleCycle.want[id] \in Port \union {NoPort} /\ ruleCycle.want[id] # NoPort
      BY Zenon, <1>1, <1>3 DEF Wanted, RuleCycleInv
    <3> QED BY Zenon, <1>3, <1>5, <3>1, AddRuleStep
  <2>5. ASSUME ruleCycle.clean, NEW j \in RuleID PROVE Placed(j)'
    <3>1. Placed(j) /\ Placed(id)
      BY Zenon, <1>1, <1>3, <2>3, <2>5 DEF RuleCycleInv
    <3>2. CASE j = id
      BY Zenon, <1>1, <2>1, <2>2, <3>1, <3>2 DEF Placed
    <3>3. CASE j # id
      BY Zenon, <1>1, <2>1, <2>2, <3>1, <3>3 DEF Placed
    <3> QED BY Zenon, <3>2, <3>3
  <2> QED BY ZenonT(30), <1>1, <1>3, <1>4, <2>1, <2>2, <2>3, <2>4, <2>5 DEF RuleCycleInv
<1>6. CASE /\ ruleCycle' = Onward({}, ruleCycle.add \ {id}, NoRule, ~fault(id))
           /\ UNCHANGED <<ingress, activeRules, port, rulesAdded, bound, remover>>
  <2>1. /\ ruleCycle'.want = ruleCycle.want /\ ruleCycle'.visit = {}
        /\ ruleCycle'.add = ruleCycle.add \ {id} /\ ruleCycle'.waiting = NoRule
        /\ (ruleCycle'.clean => ruleCycle.clean /\ ~fault(id))
    BY ZenonT(30), <1>6 DEF Onward
  <2>2. RulesInv' /\ Closing' = Closing
    BY Zenon, <1>6, SameRules
  <2>3. ruleCycle'.clean => ruleCycle.clean /\ ~ingress'
    BY Zenon, <1>1, <1>6, <2>1, RoomForRule
  <2> QED BY Zenon, <1>1, <1>3, <1>4, <2>1, <2>2, <2>3 DEF RuleCycleInv
<1> QED BY ZenonT(30), <1>2, <1>5, <1>6

LEMMA RemovalReturnsStep == ASSUME RuleCycleInv, RemovalReturns PROVE RuleCycleInv'
<1>1. /\ ruleCycle.on /\ remover[ruleCycle.waiting] = "back"
      /\ ruleCycle' = Onward(ruleCycle.visit, ruleCycle.add, NoRule, TRUE)
      /\ UNCHANGED <<ingress, activeRules, port, remover>>
  BY Zenon DEF RemovalReturns
<1>2. /\ ruleCycle'.want = ruleCycle.want /\ ruleCycle'.visit = ruleCycle.visit
      /\ ruleCycle'.add = ruleCycle.add /\ ruleCycle'.waiting = NoRule
      /\ (ruleCycle'.clean => ruleCycle.clean)
  BY ZenonT(30), <1>1 DEF Onward
<1>3. Closing' = Closing /\ Wanted' = Wanted
  BY Zenon, <1>1 DEF Closing, Wanted
<1>4. ruleCycle.clean => Closing = {}
  BY Zenon, <1>1 DEF RuleCycleInv, Closing
<1>5. \A id \in RuleID : Placed(id)' <=> Placed(id)
  BY ZenonT(30), <1>1, <1>2 DEF Placed
<1> QED BY ZenonT(30), <1>1, <1>2, <1>3, <1>4, <1>5 DEF RuleCycleInv

LEMMA SameCycle ==
    ASSUME RuleCycleInv, UNCHANGED <<ingress, activeRules, port, ruleCycle>>,
           Closing' \subseteq Closing
    PROVE  RuleCycleInv'
<1>1. \A id \in RuleID : Placed(id)' <=> Placed(id)
  BY Zenon DEF Placed
<1>2. Wanted' = Wanted
  BY Zenon DEF Wanted
<1> QED BY Zenon, <1>1, <1>2 DEF RuleCycleInv

IngressInv == RulesInv /\ ConnInv /\ RuleCycleInv

LEMMA IngressInitially == IngressInit => IngressInv
<1> SUFFICES ASSUME IngressInit PROVE IngressInv
  BY Zenon
<1>1. RulesInv
  <2>1. 0 \in 0 .. MaxRulesAdded /\ 0 \in 0 .. 0 /\ 1 .. 0 = {}
    BY IngressAssumption
  <2>2. activeRules = [id \in RuleID |-> 0] /\ rulesAdded = 0 /\ bound = {}
        /\ port = [n \in RuleNo |-> CHOOSE p \in Port : TRUE]
        /\ remover = [n \in RuleNo |-> "none"]
    BY Zenon DEF IngressInit, NoRule
  <2>3. activeRules \in [RuleID -> 0 .. rulesAdded]
    BY Zenon, <2>1, <2>2
  <2>4. DOMAIN port = RuleNo /\ remover \in [RuleNo -> Phase]
    BY Zenon, <2>2 DEF Phase
  <2> QED BY Zenon, <2>1, <2>2, <2>3, <2>4 DEF RulesInv
<1>2. ConnInv
  <2>1. proxied = [c \in Conn |-> [rule |-> NoRule, at |-> "none"]] /\ connCount = 0
    BY Zenon DEF IngressInit
  <2>2. Busy = {} /\ proxied \in [Conn -> [rule : Nat, at : At]]
    BY Zenon, <2>1 DEF Busy, At, NoRule
  <2> QED BY Zenon, <2>1, <2>2, FS_EmptySet DEF ConnInv
<1>3. RuleCycleInv
  BY Zenon DEF IngressInit, NoRuleCycle, RuleCycleInv
<1> QED BY Zenon, <1>1, <1>2, <1>3 DEF IngressInv

LEMMA IngressPreserved == IngressInv /\ [IngressNext]_ingressVars => IngressInv'
<1> SUFFICES ASSUME IngressInv, [IngressNext]_ingressVars PROVE IngressInv'
  BY Zenon
<1>0. RulesInv /\ ConnInv /\ RuleCycleInv
  BY Zenon DEF IngressInv
<1>1. CASE IngressSetup
  <2>1. UNCHANGED <<port, rulesAdded, activeRules, remover, bound>> /\ UNCHANGED connVars /\ Interfere
    BY Zenon, <1>1 DEF IngressSetup, boundVars
  <2> QED BY Zenon, <1>0, <2>1, SameRules, SameConns, InterfereStep DEF IngressInv
<1>2. CASE IngressTeardown
  <2>1. UNCHANGED connVars /\ Interfere
    BY Zenon, <1>2 DEF IngressTeardown
  <2> QED BY Zenon, <1>0, <1>2, <2>1, IngressTeardownStep, SameConns, InterfereStep DEF IngressInv
<1>3. CASE \/ TeardownReturns
           \/ \E n \in RuleNo : AcceptLoopReturns(n)
           \/ UNCHANGED ingressVars
  <2>1. /\ UNCHANGED <<port, rulesAdded, activeRules, remover, bound>> /\ UNCHANGED connVars
        /\ UNCHANGED <<ingress, activeRules, port, ruleCycle>>
    BY Zenon, <1>3 DEF TeardownReturns, AcceptLoopReturns, boundVars, ingressVars, connVars
  <2>2. RulesInv' /\ Closing' = Closing
    BY Zenon, <1>0, <2>1, SameRules
  <2> QED BY Zenon, <1>0, <2>1, <2>2, SameConns, SameCycle DEF IngressInv
<1>4. CASE RuleEvent
  <2>1. PICK id \in RuleID : \/ \E p \in Port : AddRule(id, p)
                             \/ activeRules[id] # NoRule /\ RemoveRule(id)
    BY Zenon, <1>4 DEF RuleEvent
  <2>2. RulesInv'
    BY Zenon, <1>0, <2>1, AddRuleStep, RemoveRuleStep
  <2>3. UNCHANGED connVars
    BY Zenon, <2>1 DEF AddRule, RemoveRule
  <2>4. Interfere
    BY Zenon, <1>4 DEF RuleEvent
  <2> QED BY Zenon, <1>0, <2>2, <2>3, <2>4, SameConns, InterfereStep DEF IngressInv
<1>5. CASE PlanRules
  <2>1. UNCHANGED <<port, rulesAdded, activeRules, remover, bound>> /\ UNCHANGED connVars
    BY Zenon, <1>5 DEF PlanRules, boundVars
  <2> QED BY Zenon, <1>0, <1>5, <2>1, SameRules, SameConns, PlanStep DEF IngressInv
<1>6. CASE VisitRule
  <2>1. UNCHANGED connVars
    BY ZenonT(30), <1>6 DEF VisitRule, RemoveRule
  <2> QED BY Zenon, <1>0, <1>6, <2>1, VisitStep, SameConns DEF IngressInv
<1>7. CASE RemovalReturns
  <2>1. UNCHANGED <<port, rulesAdded, activeRules, remover, bound>> /\ UNCHANGED connVars
    BY Zenon, <1>7 DEF RemovalReturns, boundVars
  <2> QED BY Zenon, <1>0, <1>7, <2>1, SameRules, SameConns, RemovalReturnsStep DEF IngressInv
<1>8. CASE AddMissing
  <2>1. UNCHANGED connVars
    BY ZenonT(30), <1>8 DEF AddMissing, AddRule
  <2> QED BY Zenon, <1>0, <1>8, <2>1, AddMissingStep, SameConns DEF IngressInv
<1>9. CASE RuleCycleReturns
  <2>1. UNCHANGED <<port, rulesAdded, activeRules, remover, bound>> /\ UNCHANGED connVars
        /\ ~ruleCycle'.on
    BY Zenon, <1>9 DEF RuleCycleReturns, boundVars, NoRuleCycle
  <2> QED BY ZenonT(30), <1>0, <2>1, SameRules, SameConns DEF IngressInv, RuleCycleInv
<1>10. CASE \E n \in RuleNo : CancelRule(n) \/ CloseListener(n) \/ RemoveRuleReturns(n)
  <2>1. PICK n \in RuleNo : CancelRule(n) \/ CloseListener(n) \/ RemoveRuleReturns(n)
    BY Zenon, <1>10
  <2>2. RulesInv' /\ Closing' \subseteq Closing
    BY Zenon, <1>0, <2>1, RemoverSteps
  <2>3. UNCHANGED connVars /\ UNCHANGED <<ingress, activeRules, port, ruleCycle>>
    BY Zenon, <2>1 DEF CancelRule, CloseListener, RemoveRuleReturns
  <2> QED BY Zenon, <1>0, <2>2, <2>3, SameConns, SameCycle DEF IngressInv
<1>11. CASE \/ \E n \in RuleNo, c \in Conn : AcceptConn(n, c)
            \/ \E c \in Conn : DialTarget(c) \/ DialTargetFails(c) \/ EndOfContext(c)
                               \/ CopyDone(c) \/ ProxyReturns(c)
  <2>1. /\ UNCHANGED <<port, rulesAdded, activeRules, remover, bound>>
        /\ UNCHANGED <<ingress, activeRules, port, ruleCycle>>
    BY Zenon, <1>11 DEF AcceptConn, DialTarget, DialTargetFails, EndOfContext, CopyDone, ProxyReturns,
                 ProxyStep, boundVars
  <2>2. RulesInv' /\ RuleCycleInv'
    BY Zenon, <1>0, <2>1, SameRules, SameCycle
  <2>3. ConnInv'
    BY Zenon, <1>0, <1>11, AcceptStep, ProxySteps, ProxyReturnsStep
       DEF DialTarget, DialTargetFails, EndOfContext, CopyDone
  <2> QED BY Zenon, <2>2, <2>3 DEF IngressInv
<1> QED BY Zenon, <1>1, <1>2, <1>3, <1>4, <1>5, <1>6, <1>7, <1>8, <1>9, <1>10, <1>11 DEF IngressNext

\* The invariant of the ingress manager: where rules, listeners and removers
\* belong, what the connection count counts, and how far a cycle has come.
THEOREM IngressInvariant == IngressSpec => []IngressInv
BY IngressInitially, IngressPreserved, PTL DEF IngressSpec

\* IngressHeld for any rules, connections and bounds: no listener is orphaned
\* by AddRule, RemoveRule (ingress.go) and Teardown in any interleaving, and the
\* connection count is the number of proxied connections.
THEOREM ListenersAlwaysHeld == IngressSpec => []IngressHeld
<1>1. IngressInv => IngressHeld
  BY Zenon DEF IngressInv, RulesInv, ConnInv, Busy, IngressHeld
<1> QED BY <1>1, IngressInvariant, PTL

\* An undisturbed cycle of the ingress reconcile handler ends with exactly the
\* desired rules on their desired ports.
THEOREM IngressReachesDesired == IngressSpec => []IngressCycleExact
<1>1. IngressInv => IngressCycleExact
  BY Zenon DEF IngressInv, RuleCycleInv, Placed, IngressCycleExact, CycleOver
<1> QED BY <1>1, IngressInvariant, PTL
=============================================================================
