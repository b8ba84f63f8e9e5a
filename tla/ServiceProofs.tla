--------------------------- MODULE ServiceProofs ---------------------------
(***************************************************************************)
(* The references of the PlexdNodeState object, for any keys and overlapping *)
(* updates; and access tunnels: no session is lost, the limit bounds the   *)
(* listeners, and the SSH server counts its connections, for any set of    *)
(* session IDs and of clients, any limit, and any number of sessions and   *)
(* clock ticks.                                                            *)
(***************************************************************************)
EXTENDS CrdController, MeshServer, FiniteSetTheorems, TLAPS

----------------------------------------------------------------------------
(* The references of the PlexdNodeState object *)

UpdateCall ==
    [at : {"spec", "index", "delete"}, version : Nat,
     refs : SUBSET SecretKey, todo : SUBSET SecretKey]

CrdType ==
    /\ object \in [exists : BOOLEAN, version : Nat, refs : SUBSET SecretKey]
    /\ call \in [Updater -> {NoCall} \union UpdateCall]
    /\ crdLock \in Updater \union {Unlocked}

\* The update that holds the lock is the only one among the Secrets, and those
\* of its references that it is done with have theirs.
CrdInv ==
    /\ CrdType /\ RefsBacked
    /\ \A u \in Updater :
          /\ call[u].at = "delete" <=> crdLock = u
          /\ call[u].at = "delete" => call[u].refs \ call[u].todo \subseteq kubeSecrets
          /\ call[u].at = "index" => call[u].todo = call[u].refs

LEMMA CrdInitially == CrdInit => CrdInv
BY CrdAssumption DEF CrdInit, CrdInv, CrdType, RefsBacked, NoCall, Unlocked

\* What a call is when it is not idle.
LEMMA InCall ==
    ASSUME CrdInv, NEW u \in Updater, call[u].at # "idle"
    PROVE  /\ call[u] \in UpdateCall
           /\ call[u].refs \in SUBSET SecretKey /\ call[u].todo \in SUBSET SecretKey
BY DEF CrdInv, CrdType, NoCall, UpdateCall

LEMMA CrdPreserved == CrdInv /\ [CrdNext]_crdVars => CrdInv'
<1> SUFFICES ASSUME CrdInv, [CrdNext]_crdVars PROVE CrdInv'
  BY Zenon
<1>0. CrdType
  BY Zenon DEF CrdInv
<1>1. CASE ensureResource \/ UNCHANGED crdVars
  <2>1. /\ UNCHANGED <<kubeSecrets, abandoned, currentSecrets, call, crdLock, refsFailed>>
        /\ object'.refs = object.refs
        /\ object' \in [exists : BOOLEAN, version : Nat, refs : SUBSET SecretKey]
    <3>1. object.version \in Nat /\ object.refs \in SUBSET SecretKey
      BY Zenon, <1>0 DEF CrdType
    <3>2. CASE object' = [exists |-> TRUE, version |-> object.version + 1, refs |-> object.refs]
               /\ ensureResource
      BY <3>1, <3>2 DEF ensureResource
    <3>3. CASE object' = object
      BY Zenon, <1>0, <1>1, <3>3 DEF ensureResource, crdVars, CrdType
    <3> QED BY Zenon, <1>1, <3>2, <3>3 DEF ensureResource, crdVars
  <2> QED BY Zenon, <2>1 DEF CrdInv, CrdType, RefsBacked
<1>2. CASE KubeRestart
  BY Zenon, <1>2, CrdAssumption DEF KubeRestart, CrdInv, CrdType, RefsBacked, NoCall
<1>3. ASSUME NEW u \in Updater, NEW kind \in {"spec", "index"}, NEW refs \in SUBSET SecretKey,
             GetForUpdate(u, kind, refs)
      PROVE  CrdInv'
  <2>1. [at |-> kind, version |-> object.version, refs |-> refs, todo |-> refs] \in UpdateCall
    BY Zenon, <1>0 DEF CrdType, UpdateCall
  <2> QED BY <1>3, <2>1 DEF GetForUpdate, Goto, CrdInv, CrdType, RefsBacked, NoCall
<1>4. ASSUME NEW u \in Updater, UpdateSpec(u) PROVE CrdInv'
  BY <1>4 DEF UpdateSpec, Goto, CrdInv, CrdType, RefsBacked, NoCall
<1>5. ASSUME NEW u \in Updater, LockSecrets(u) PROVE CrdInv'
  <2>1. call[u] \in UpdateCall
    BY Zenon, <1>5, InCall DEF LockSecrets
  <2>2. /\ call' = [call EXCEPT ![u] = [call[u] EXCEPT !.at = "delete"]]
        /\ call[u].at = "index" /\ crdLock = Unlocked /\ crdLock' = u
        /\ UNCHANGED <<object, kubeSecrets, abandoned, currentSecrets, refsFailed>>
    BY Zenon, <1>5 DEF LockSecrets, Goto
  <2>3. /\ call'[u] \in UpdateCall /\ call'[u].at = "delete"
        /\ call'[u].refs \ call'[u].todo = {}
    BY Zenon, <2>1, <2>2, <1>0 DEF CrdInv, CrdType, UpdateCall
  <2>4. \A v \in Updater \ {u} : call'[v] = call[v]
    BY Zenon, <2>2, <1>0 DEF CrdType
  <2>5. CrdType'
    BY Zenon, <1>0, <2>2, <2>3 DEF CrdType
  <2> QED BY ZenonT(30), <2>2, <2>3, <2>4, <2>5, CrdAssumption DEF CrdInv, RefsBacked
<1>6. ASSUME NEW u \in Updater, DeleteSecret(u) PROVE CrdInv'
  <2>1. PICK key \in Stale(u) :
          /\ currentSecrets' = currentSecrets \ {key}
          /\ \/ kubeSecrets' = kubeSecrets \ {key} /\ abandoned' = abandoned \ {key}
             \/ kubeSecrets' = kubeSecrets /\ abandoned' = abandoned \union {key}
    BY Zenon, <1>6 DEF DeleteSecret
  <2>2. /\ call[u].at = "delete" /\ crdLock = u /\ crdLock # Unlocked /\ key \notin call[u].refs
        /\ UNCHANGED <<object, call, crdLock, refsFailed>>
    BY Zenon, <1>6, <2>1, CrdAssumption DEF DeleteSecret, Stale, CrdInv
  <2>3. \A v \in Updater : call[v].at = "delete" => v = u
    BY Zenon, <2>2 DEF CrdInv
  <2> QED BY Zenon, <2>1, <2>2, <2>3 DEF CrdInv, CrdType, RefsBacked
<1>7. ASSUME NEW u \in Updater, PutSecret(u) PROVE CrdInv'
  BY <1>7, InCall, CrdAssumption
     DEF PutSecret, SecretFails, Return, Goto, CrdInv, CrdType, RefsBacked, UpdateCall, NoCall
<1>8. ASSUME NEW u \in Updater, UpdateRefs(u) PROVE CrdInv'
  <2>1. /\ call[u].at = "delete" /\ crdLock = u /\ call[u].refs \subseteq kubeSecrets
        /\ call[u].refs \in SUBSET SecretKey
        /\ call' = [call EXCEPT ![u] = NoCall] /\ crdLock' = Unlocked
        /\ UNCHANGED <<kubeSecrets, abandoned, currentSecrets>>
    BY Zenon, <1>8, InCall DEF UpdateRefs, Return, Goto, CrdInv
  <2>2. /\ object' \in [exists : BOOLEAN, version : Nat, refs : SUBSET SecretKey]
        /\ ~refsFailed' => object'.refs = call[u].refs
    <3>1. object.version \in Nat
      BY Zenon, <1>0 DEF CrdType
    <3>2. CASE object' = [exists |-> TRUE, version |-> object.version + 1, refs |-> call[u].refs]
      BY <2>1, <3>1, <3>2
    <3>3. CASE object' = object /\ refsFailed' = TRUE
      BY Zenon, <1>0, <3>3 DEF CrdType
    <3> QED BY Zenon, <1>8, <3>2, <3>3 DEF UpdateRefs, Return
  <2>3. \A v \in Updater : call'[v] = IF v = u THEN NoCall ELSE call[v]
    BY Zenon, <1>0, <2>1 DEF CrdType
  <2>4. \A v \in Updater : call'[v].at # "delete"
    BY <2>1, <2>3, CrdAssumption DEF CrdInv, NoCall
  <2>5. CrdType'
    BY Zenon, <1>0, <2>1, <2>2 DEF CrdType
  <2> QED BY <2>1, <2>2, <2>3, <2>4, <2>5, CrdAssumption DEF CrdInv, RefsBacked, NoCall
<1> QED BY <1>1, <1>2, <1>3, <1>4, <1>5, <1>6, <1>7, <1>8 DEF CrdNext

\* However updates overlap, calls fail and restarts hit, the object refers only
\* to Secrets that exist, unless an update returned an error, and no Secret is
\* lost sight of silently (crdcontroller.go, UpdateSecretIndex).
THEOREM RefsAlwaysBacked == CrdSpec => []RefsBacked
<1>1. CrdInv => RefsBacked
  BY Zenon DEF CrdInv
<1> QED BY <1>1, CrdInitially, CrdPreserved, PTL DEF CrdSpec

----------------------------------------------------------------------------
(* Access tunnels *)

\* The sessions together with the calls that the mesh server's Shutdown makes.
ManagerNext == TunnelNext \/ ShutdownCollect \/ \E k \in SessionID : ShutdownClose(k)
ManagerSpec == TunnelInit /\ [][ManagerNext]_tunnelVars

TableType ==
    /\ created \in Nat
    /\ sessions \in [SessionID -> 0 .. created]
    /\ ident \in [Session -> SessionID \union {NoID}]
    /\ timer \in [Session -> {"none", "set", "fired"}]
    /\ closing \subseteq 1 .. created
    /\ cancelled \subseteq 1 .. created
    /\ listening \subseteq 1 .. created
    /\ created <= MaxCreated

\* A session keeps the ID it was created with, and timers and handlers know
\* only sessions that were created.
Identified ==
    /\ \A i \in 1 .. created : ident[i] \in SessionID
    /\ \A k \in SessionID : sessions[k] # Nobody => ident[sessions[k]] = k
    /\ \A i \in Session : timer[i] = "set" => i \in 1 .. created
    /\ handler.step = "timer" => handler.session \in 1 .. created
    /\ doomed \subseteq SessionID

MapBounded == IsFiniteSet(Active) /\ Cardinality(Active) <= MaxSessions

SessionInv ==
    /\ TableType /\ Identified /\ NoLostSession /\ MapBounded
    /\ listening \intersect cancelled = {}

----------------------------------------------------------------------------
LEMMA SessionInitially == TunnelInit => SessionInv
<1> SUFFICES ASSUME TunnelInit PROVE SessionInv
  BY Zenon
<1>1. TableType
  BY TunnelAssumption DEF TunnelInit, TableType, Session, Nobody
<1>2. Identified /\ NoLostSession /\ listening \intersect cancelled = {}
  BY DEF TunnelInit, Identified, NoLostSession, Idle, Nobody
<1>3. Active = {}
  BY Zenon DEF TunnelInit, Active
<1>4. MapBounded
  BY <1>3, FS_EmptySet, TunnelAssumption DEF MapBounded
<1> QED BY Zenon, <1>1, <1>2, <1>4 DEF SessionInv

\* Steps that leave the table, its closers and the timers alone and open no
\* listener: the accept loop, the event handler's returns, Shutdown's list.
Quiet ==
    /\ UNCHANGED <<created, sessions, ident, closing, cancelled, timer>>
    /\ listening' \subseteq listening
    /\ handler'.step = "timer" => handler' = handler
    /\ doomed' \subseteq SessionID

LEMMA QuietStep == SessionInv /\ Quiet => SessionInv'
<1> SUFFICES ASSUME SessionInv, Quiet PROVE SessionInv'
  BY Zenon
<1>1. TableType'
  BY Zenon DEF SessionInv, Quiet, TableType
<1>2. Identified'
  BY Zenon DEF SessionInv, Quiet, Identified
<1>3. NoLostSession' /\ (listening \intersect cancelled = {})'
  BY Zenon DEF SessionInv, Quiet, NoLostSession
<1>4. Active' = Active
  BY Zenon DEF Quiet, Active
<1>5. MapBounded'
  BY Zenon, <1>4 DEF SessionInv, MapBounded
<1> QED BY Zenon, <1>1, <1>2, <1>3, <1>5 DEF SessionInv

\* Whoever takes an ID out of the map is the closer of the session it stood for.
LEMMA RemoveStep ==
    ASSUME SessionInv, NEW k \in SessionID, removeSession(k),
           \A i \in Session : timer'[i] = "set" => timer[i] = "set",
           timer' \in [Session -> {"none", "set", "fired"}],
           handler'.step = "timer" => handler' = handler,
           doomed' \subseteq SessionID
    PROVE  SessionInv'
<1>1. TableType'
  <2>1. sessions' \in [SessionID -> 0 .. created']
    BY DEF SessionInv, TableType, removeSession, Nobody
  <2>2. sessions[k] # Nobody => sessions[k] \in 1 .. created
    BY DEF SessionInv, TableType, Nobody
  <2>3. closing' \subseteq 1 .. created'
    BY Zenon, <2>2 DEF SessionInv, TableType, removeSession
  <2> QED BY Zenon, <2>1, <2>3 DEF SessionInv, TableType, removeSession
<1>2. Identified'
  <2>1. \A i \in 1 .. created' : ident'[i] \in SessionID
    BY Zenon DEF SessionInv, Identified, removeSession
  <2>2. \A j \in SessionID : sessions'[j] # Nobody => ident'[sessions'[j]] = j
    BY Zenon DEF SessionInv, TableType, Identified, removeSession
  <2>3. \A i \in Session : timer'[i] = "set" => i \in 1 .. created'
    BY Zenon DEF SessionInv, Identified, removeSession
  <2>4. handler'.step = "timer" => handler'.session \in 1 .. created'
    BY Zenon DEF SessionInv, Identified, removeSession
  <2> QED BY Zenon, <2>1, <2>2, <2>3, <2>4 DEF Identified
<1>3. NoLostSession'
  <2> SUFFICES ASSUME NEW i \in 1 .. created
               PROVE  sessions'[ident[i]] = i \/ i \in closing' \/ i \in cancelled
    BY Zenon DEF NoLostSession, removeSession
  <2>1. CASE ident[i] = k
    BY Zenon, <2>1 DEF SessionInv, NoLostSession, TableType, removeSession, Nobody
  <2>2. CASE ident[i] # k
    BY Zenon, <2>2 DEF SessionInv, NoLostSession, Identified, TableType, removeSession, Nobody
  <2> QED BY Zenon, <2>1, <2>2
<1>4. MapBounded'
  <2>1. Active' = Active \ {k}
    BY Zenon DEF SessionInv, TableType, Active, removeSession, Nobody
  <2>2. IsFiniteSet(Active) /\ Cardinality(Active) \in Nat
    BY Zenon, FS_CardinalityType DEF SessionInv, MapBounded
  <2>3. IsFiniteSet(Active') /\ Cardinality(Active') <= Cardinality(Active)
         /\ Cardinality(Active') \in Nat
    BY Zenon, <2>1, <2>2, FS_Subset, FS_CardinalityType
  <2> QED BY <2>2, <2>3, TunnelAssumption DEF SessionInv, MapBounded
<1>5. (listening \intersect cancelled = {})'
  BY Zenon DEF SessionInv, removeSession
<1> QED BY Zenon, <1>1, <1>2, <1>3, <1>4, <1>5 DEF SessionInv

\* A session is created under an ID that is free and below the limit.
LEMMA CreateStep ==
    ASSUME SessionInv, NEW k \in SessionID, NEW t \in Nat, CreateSession(k, t)
    PROVE  SessionInv'
<1> DEFINE n == created + 1
<1>0. /\ n \in Session /\ n \in 1 .. created' /\ created' = n
      /\ created \in Nat /\ sessions[k] = Nobody
      /\ sessions' = [sessions EXCEPT ![k] = n]
      /\ ident' = [ident EXCEPT ![n] = k]
      /\ listening' = listening \union {n}
      /\ UNCHANGED <<closing, cancelled, timer>>
  BY TunnelAssumption DEF SessionInv, TableType, CreateSession, CanCreate, Session
<1>1. TableType'
  BY <1>0, TunnelAssumption DEF SessionInv, TableType, CreateSession, Session
<1>2. Identified'
  <2>1. \A i \in 1 .. created' : ident'[i] \in SessionID
    BY <1>0, TunnelAssumption DEF SessionInv, TableType, Identified, Session
  <2>2. ASSUME NEW j \in SessionID, sessions'[j] # Nobody PROVE ident'[sessions'[j]] = j
    <3>1. CASE j = k
      BY Zenon, <3>1, <1>0 DEF SessionInv, TableType
    <3>2. CASE j # k
      <4>1. sessions'[j] = sessions[j] /\ sessions[j] \in 0 .. created /\ sessions[j] # n
        BY <3>2, <1>0 DEF SessionInv, TableType
      <4> QED BY <4>1, <1>0, <2>2 DEF SessionInv, TableType, Identified, Session
    <3> QED BY Zenon, <3>1, <3>2
  <2>3. \A i \in Session : timer'[i] = "set" => i \in 1 .. created'
    BY <1>0 DEF SessionInv, Identified
  <2>4. handler'.step = "timer" => handler'.session \in 1 .. created'
    BY Zenon, <1>0 DEF CreateSession
  <2>5. doomed' \subseteq SessionID
    BY Zenon DEF CreateSession, shutVars, SessionInv, Identified
  <2> QED BY Zenon, <2>1, <2>2, <2>3, <2>4, <2>5 DEF Identified
<1>3. NoLostSession'
  <2> SUFFICES ASSUME NEW i \in 1 .. created'
               PROVE  sessions'[ident'[i]] = i \/ i \in closing' \/ i \in cancelled'
    BY Zenon DEF NoLostSession
  <2>1. CASE i = n
    BY Zenon, <2>1, <1>0 DEF SessionInv, TableType
  <2>2. CASE i # n
    <3>1. i \in 1 .. created /\ ident'[i] = ident[i]
      BY <2>2, <1>0 DEF SessionInv, TableType, Session
    <3>2. CASE sessions[ident[i]] = i
      <4>1. ident[i] # k /\ ident[i] \in SessionID
        BY <3>1, <3>2, <1>0 DEF Nobody, SessionInv, Identified
      <4> QED BY Zenon, <4>1, <3>1, <3>2, <1>0 DEF SessionInv, TableType
    <3> QED BY Zenon, <3>1, <3>2, <1>0 DEF SessionInv, NoLostSession
  <2> QED BY Zenon, <2>1, <2>2
<1>4. MapBounded'
  <2>1. Active' = Active \union {k} /\ k \notin Active
    BY <1>0 DEF SessionInv, TableType, Active, Nobody
  <2>2. IsFiniteSet(Active) /\ Cardinality(Active) \in Nat /\ Cardinality(Active) < MaxSessions
    BY Zenon, FS_CardinalityType DEF SessionInv, MapBounded, CreateSession, CanCreate
  <2>3. IsFiniteSet(Active') /\ Cardinality(Active') = Cardinality(Active) + 1
    BY Zenon, <2>1, <2>2, FS_AddElement
  <2> QED BY <2>2, <2>3, TunnelAssumption DEF MapBounded
<1>5. (listening \intersect cancelled = {})'
  BY <1>0 DEF SessionInv, TableType
<1> QED BY Zenon, <1>1, <1>2, <1>3, <1>4, <1>5 DEF SessionInv

\* Close ends with the context cancelled and the listener closed.
LEMMA FinishStep ==
    ASSUME SessionInv, NEW i \in Session, FinishClose(i)
    PROVE  SessionInv'
<1>0. /\ UNCHANGED <<created, sessions, ident, timer, handler, doomed>>
      /\ i \in closing
      /\ closing' = closing \ {i} /\ cancelled' = cancelled \union {i}
      /\ listening' = listening \ {i}
  BY Zenon DEF FinishClose, mapVars, shutVars
<1>1. TableType'
  BY Zenon, <1>0 DEF SessionInv, TableType
<1>2. Identified'
  BY Zenon, <1>0 DEF SessionInv, Identified
<1>3. NoLostSession' /\ (listening \intersect cancelled = {})'
  BY Zenon, <1>0 DEF SessionInv, NoLostSession
<1>4. Active' = Active
  BY Zenon, <1>0 DEF Active
<1>5. MapBounded'
  BY Zenon, <1>4 DEF SessionInv, MapBounded
<1> QED BY Zenon, <1>1, <1>2, <1>3, <1>5 DEF SessionInv

LEMMA SessionPreserved == SessionInv /\ [ManagerNext]_tunnelVars => SessionInv'
<1> SUFFICES ASSUME SessionInv, [ManagerNext]_tunnelVars PROVE SessionInv'
  BY Zenon
<1> USE DEF tunnelVars, mapVars, closeVars, loopVars, shutVars
<1>0. doomed \subseteq SessionID
  BY Zenon DEF SessionInv, Identified
<1>1. ASSUME NEW k \in SessionID, NEW t \in 0 .. MaxTime, CreateSession(k, t) PROVE SessionInv'
  BY <1>1, CreateStep, TunnelAssumption
<1>2. CASE SetTimer
  <2> DEFINE i == handler.session
  <2>1. i \in 1 .. created /\ i \in Session
    BY <1>2, TunnelAssumption DEF SetTimer, SessionInv, TableType, Identified, Session
  <2>2. /\ UNCHANGED <<created, sessions, ident, closing, cancelled, listening, doomed>>
        /\ \A j \in Session : timer'[j] = "set" => timer[j] = "set" \/ j = i
        /\ timer' \in [Session -> {"none", "set", "fired"}]
    BY Zenon, <1>2, <2>1 DEF SetTimer, SessionInv, TableType
  <2>3. handler'.step = "timer" => handler'.session \in 1 .. created'
    BY <1>2, <2>1 DEF SetTimer
  <2>4. Identified'
    BY Zenon, <2>1, <2>2, <2>3 DEF SessionInv, Identified
  <2>5. TableType' /\ NoLostSession' /\ (listening \intersect cancelled = {})'
    BY Zenon, <2>2 DEF SessionInv, TableType, NoLostSession
  <2>6. Active' = Active
    BY Zenon, <2>2 DEF Active
  <2>7. MapBounded'
    BY Zenon, <2>6 DEF SessionInv, MapBounded
  <2> QED BY Zenon, <2>4, <2>5, <2>7 DEF SessionInv
<1>3. ASSUME NEW k \in SessionID, Revoke(k) PROVE SessionInv'
  <2>1. /\ removeSession(k) /\ UNCHANGED timer /\ doomed' = doomed
        /\ handler'.step # "timer"
    BY Zenon, <1>3 DEF Revoke
  <2> QED BY Zenon, <2>1, <1>0, RemoveStep DEF SessionInv, TableType
<1>4. ASSUME NEW i \in Session, Expire(i) PROVE SessionInv'
  <2>1. ident[i] \in SessionID
    BY Zenon, <1>4 DEF Expire, SessionInv, Identified
  <2>2. /\ removeSession(ident[i]) /\ handler' = handler /\ doomed' = doomed
        /\ \A j \in Session : timer'[j] = "set" => timer[j] = "set"
        /\ timer' \in [Session -> {"none", "set", "fired"}]
    BY Zenon, <1>4 DEF Expire, SessionInv, TableType
  <2> QED BY Zenon, <2>1, <2>2, <1>0, RemoveStep
<1>5. ASSUME NEW k \in SessionID, ShutdownClose(k) PROVE SessionInv'
  <2>1. /\ removeSession(k) /\ UNCHANGED timer /\ handler' = handler
        /\ doomed' \subseteq SessionID
    BY Zenon, <1>5, <1>0 DEF ShutdownClose
  <2> QED BY Zenon, <2>1, RemoveStep DEF SessionInv, TableType
<1>6. ASSUME NEW i \in Session, FinishClose(i) PROVE SessionInv'
  BY Zenon, <1>6, FinishStep
<1>7. ASSUME NEW i \in Session,
             \/ MarkClosed(i) \/ StopListening(i) \/ Accept(i) \/ LoopReturns(i)
             \/ Forward(i) \/ PeerCloses(i)
      PROVE  SessionInv'
  <2>1. Quiet
    BY Zenon, <1>7, <1>0 DEF Quiet, MarkClosed, StopListening, Accept, LoopReturns, Forward, Dialed,
         DialFails, RecordConn, CopyEnds, LoopStep, PeerCloses
  <2> QED BY Zenon, <2>1, QuietStep
<1>8. CASE \/ Tick \/ Stop \/ ReportReady \/ RevokeReturns \/ ShutdownCollect
           \/ UNCHANGED tunnelVars
  <2>1. Quiet
    <3>1. CASE ShutdownCollect
      BY Zenon, <3>1 DEF Quiet, ShutdownCollect, Idle, Active
    <3>2. CASE ReportReady \/ RevokeReturns
      BY <3>2, <1>0 DEF Quiet, ReportReady, RevokeReturns, Idle
    <3>3. CASE Tick \/ Stop \/ UNCHANGED tunnelVars
      BY Zenon, <3>3, <1>0 DEF Quiet, Tick, Stop
    <3> QED BY Zenon, <1>8, <3>1, <3>2, <3>3
  <2> QED BY Zenon, <2>1, QuietStep
<1> QED
  BY Zenon, <1>1, <1>2, <1>3, <1>4, <1>5, <1>6, <1>7, <1>8
     DEF ManagerNext, TunnelNext, SessionStep, Close

\* The sessions that listen and are not being closed are the ones some ID stands
\* for, so there are no more of them than IDs in the map.
LEMMA ListenersAreMapped == SessionInv => ListenersBounded
<1> SUFFICES ASSUME SessionInv PROVE ListenersBounded
  BY Zenon
<1> DEFINE L == listening \ closing
           f == [i \in L |-> ident[i]]
<1>1. \A i \in L : sessions[ident[i]] = i /\ i # Nobody /\ ident[i] \in SessionID
  BY DEF SessionInv, TableType, NoLostSession, Identified, Nobody
<1>2. f \in Injection(L, Active)
  BY <1>1 DEF Injection, IsInjective, Active
<1>3. IsFiniteSet(L) /\ Cardinality(L) <= Cardinality(Active)
  BY Zenon, <1>2, FS_Injection DEF SessionInv, MapBounded
<1>4. Cardinality(L) \in Nat /\ Cardinality(Active) \in Nat
  BY Zenon, <1>3, FS_CardinalityType DEF SessionInv, MapBounded
<1> QED BY <1>3, <1>4, TunnelAssumption DEF SessionInv, MapBounded, ListenersBounded

----------------------------------------------------------------------------
(* The SSH server *)

Holding == {c \in Client : sshConn[c] \in {"handshake", "open"}}
Working == {c \in Client : sshConn[c] \in {"handshake", "open", "closed"}}
LoopCount == IF sshLoop THEN 1 ELSE 0

\* The semaphore counts the connections that hold a slot, the wait group the
\* goroutines, which include those past the release of their slot.
SshInv ==
    /\ sshConn \in [Client -> {"none", "handshake", "open", "closed", "gone"}]
    /\ sshLoop \in BOOLEAN
    /\ sem = Cardinality(Holding) /\ sem <= MaxSessions
    /\ sshWg = Cardinality(Working) + LoopCount
    /\ shutdown \in {"sessions", "done"} => ~sshLoop /\ Working = {}

\* Sets of clients and their sizes when one client joins or leaves.
LEMMA ClientSets ==
    ASSUME NEW S \in SUBSET Client
    PROVE  /\ IsFiniteSet(S) /\ Cardinality(S) \in Nat
           /\ Cardinality(S) = 0 => S = {}
           /\ \A c \in S : Cardinality(S \ {c}) = Cardinality(S) - 1
           /\ \A c \in Client \ S : Cardinality(S \union {c}) = Cardinality(S) + 1
<1>1. IsFiniteSet(S)
  BY Zenon, ClientAssumption, FS_Subset
<1> QED BY Zenon, <1>1, FS_CardinalityType, FS_EmptySet, FS_AddElement, FS_RemoveElement

LEMMA SshInitially == MeshInit => SshInv
<1> SUFFICES ASSUME MeshInit PROVE SshInv
  BY Zenon
<1>1. Holding = {} /\ Working = {}
  BY Zenon DEF MeshInit, Holding, Working
<1>2. Cardinality({}) = 0
  BY Zenon, FS_EmptySet
<1> QED BY <1>1, <1>2, TunnelAssumption DEF MeshInit, SshInv, LoopCount

\* Steps of the sessions, the listener, the channels and Shutdown's list.
LEMMA SshQuiet ==
    ASSUME SshInv, UNCHANGED <<sshLoop, sshConn, sem, sshWg>>,
           shutdown' \in {"sessions", "done"} => shutdown \in {"sessions", "done"} \/ sshWg = 0
    PROVE  SshInv'
<1>1. Holding' = Holding /\ Working' = Working /\ LoopCount' = LoopCount
  BY Zenon DEF Holding, Working, LoopCount
<1>2. Working \in SUBSET Client
  BY Zenon DEF Working
<1>3. Cardinality(Working) \in Nat /\ (Cardinality(Working) = 0 => Working = {})
  BY Zenon, <1>2, ClientSets
<1>4. sshWg = 0 => ~sshLoop /\ Working = {}
  BY <1>3 DEF SshInv, LoopCount
<1> QED BY Zenon, <1>1, <1>4 DEF SshInv

\* The connection of one client goes on, and the counters with it.
LEMMA SshConnStep ==
    ASSUME SshInv, NEW c \in Client, NEW to \in {"handshake", "open", "closed", "gone"},
           sshConn' = [sshConn EXCEPT ![c] = to],
           UNCHANGED <<sshLoop, shutdown>>,
           \/ /\ sshConn[c] = "none" /\ to = "handshake" /\ sshLoop
              /\ sem < MaxSessions /\ sem' = sem + 1 /\ sshWg' = sshWg + 1
           \/ sshConn[c] = "none" /\ to = "gone" /\ UNCHANGED <<sem, sshWg>>
           \/ sshConn[c] \in {"handshake", "open"} /\ to = "open" /\ UNCHANGED <<sem, sshWg>>
           \/ /\ sshConn[c] \in {"handshake", "open"} /\ to = "closed"
              /\ sem' = sem - 1 /\ UNCHANGED sshWg
           \/ sshConn[c] = "closed" /\ to = "gone" /\ sshWg' = sshWg - 1 /\ UNCHANGED sem
    PROVE  SshInv'
<1>1. /\ Holding' = IF to \in {"handshake", "open"} THEN Holding \union {c} ELSE Holding \ {c}
      /\ Working' = IF to \in {"handshake", "open", "closed"} THEN Working \union {c}
                    ELSE Working \ {c}
      /\ c \in Holding <=> sshConn[c] \in {"handshake", "open"}
      /\ c \in Working <=> sshConn[c] \in {"handshake", "open", "closed"}
  BY Zenon DEF Holding, Working, SshInv
<1>2. LoopCount' = LoopCount /\ LoopCount \in Nat
  BY Zenon DEF LoopCount
<1>3. Holding \in SUBSET Client /\ Working \in SUBSET Client
  BY Zenon DEF Holding, Working
<1>4. /\ Cardinality(Holding) \in Nat /\ Cardinality(Working) \in Nat
      /\ c \in Holding => Cardinality(Holding \ {c}) = Cardinality(Holding) - 1
      /\ c \in Working => Cardinality(Working \ {c}) = Cardinality(Working) - 1
      /\ c \notin Holding => Cardinality(Holding \union {c}) = Cardinality(Holding) + 1
      /\ c \notin Working => Cardinality(Working \union {c}) = Cardinality(Working) + 1
  BY Zenon, <1>3, ClientSets
<1>5. /\ c \in Holding => Holding \union {c} = Holding
      /\ c \notin Holding => Holding \ {c} = Holding
      /\ c \in Working => Working \union {c} = Working
      /\ c \notin Working => Working \ {c} = Working
  BY Zenon
<1>6. sshConn' \in [Client -> {"none", "handshake", "open", "closed", "gone"}]
  BY Zenon DEF SshInv
<1>7. sem' = Cardinality(Holding)' /\ sem' <= MaxSessions
  <2>1. sem = Cardinality(Holding) /\ sem <= MaxSessions /\ sem \in Nat /\ MaxSessions \in Nat
    BY Zenon, <1>4, TunnelAssumption DEF SshInv
  <2>2. CASE sshConn[c] = "none" /\ to = "handshake"
    BY <1>1, <1>4, <2>1, <2>2
  <2>3. CASE sshConn[c] \in {"handshake", "open"} /\ to = "closed"
    BY <1>1, <1>4, <2>1, <2>3
  <2>4. CASE sshConn[c] \in {"handshake", "open"} /\ to = "open"
    BY Zenon, <1>1, <1>5, <2>1, <2>4
  <2>5. CASE sshConn[c] \in {"none", "closed"} /\ to = "gone"
    BY ZenonT(30), <1>1, <1>5, <2>1, <2>5
  <2> QED BY Zenon, <2>2, <2>3, <2>4, <2>5
<1>8. sshWg' = Cardinality(Working)' + LoopCount'
  <2>1. sshWg = Cardinality(Working) + LoopCount
    BY Zenon DEF SshInv
  <2>2. CASE sshConn[c] = "none" /\ to = "handshake"
    BY SMTT(30), <1>1, <1>2, <1>4, <2>1, <2>2
  <2>3. CASE sshConn[c] = "closed" /\ to = "gone"
    BY <1>1, <1>2, <1>4, <2>1, <2>3
  <2>4. CASE sshConn[c] \in {"handshake", "open"} /\ to \in {"open", "closed"}
    BY Zenon, <1>1, <1>2, <1>5, <2>1, <2>4
  <2>5. CASE sshConn[c] = "none" /\ to = "gone"
    BY Zenon, <1>1, <1>2, <1>5, <2>1, <2>5
  <2> QED BY Zenon, <2>2, <2>3, <2>4, <2>5
<1>9. shutdown' \in {"sessions", "done"} => ~sshLoop' /\ Working' = {}
  BY Zenon, <1>1 DEF SshInv
<1> QED BY Zenon, <1>6, <1>7, <1>8, <1>9 DEF SshInv

LEMMA SshPreserved == SshInv /\ [MeshNext]_meshVars => SshInv'
<1> SUFFICES ASSUME SshInv, [MeshNext]_meshVars PROVE SshInv'
  BY Zenon
<1> USE DEF sshVars
<1>1. CASE (TunnelNext /\ UNCHANGED <<sshVars, shutdown>>) \/ SshStopListening \/ UNCHANGED meshVars
  <2>1. UNCHANGED <<sshLoop, sshConn, sem, sshWg, shutdown>>
    BY Zenon, <1>1 DEF SshStopListening, meshVars
  <2> QED BY Zenon, <2>1, SshQuiet
<1>2. CASE SshLoopReturns
  <2>1. Holding' = Holding /\ Working' = Working /\ Cardinality(Working) \in Nat
    BY Zenon, <1>2, ClientSets DEF SshLoopReturns, Holding, Working
  <2>2. LoopCount = 1 /\ LoopCount' = 0 /\ sshWg' = sshWg - 1
    BY Zenon, <1>2 DEF SshLoopReturns, LoopCount
  <2>3. UNCHANGED <<sshConn, sem, shutdown>> /\ sshLoop' = FALSE
    BY Zenon, <1>2 DEF SshLoopReturns
  <2>4. sshWg' = Cardinality(Working)' + LoopCount'
    BY <2>1, <2>2 DEF SshInv
  <2>5. sem' = Cardinality(Holding)' /\ sem' <= MaxSessions
    BY Zenon, <2>1, <2>3 DEF SshInv
  <2> QED BY Zenon, <2>1, <2>3, <2>4, <2>5 DEF SshInv
<1>3. CASE Shutdown
  BY Zenon, <1>3, SshQuiet DEF Shutdown, ShutdownSsh, ShutdownSessions, ShutdownSession, ShutdownReturns
<1>4. ASSUME NEW c \in Client, SshStep(c) PROVE SshInv'
  <2>1. CASE SshAccept(c)
    BY Zenon, <2>1, SshConnStep DEF SshAccept
  <2>2. CASE HandshakeDone(c)
    BY ZenonT(30), <2>2, SshConnStep DEF HandshakeDone, ConnStep
  <2>3. CASE ConnEnds(c)
    BY Zenon, <2>3, SshConnStep DEF ConnEnds, ConnStep
  <2>4. CASE ConnReturns(c)
    BY Zenon, <2>4, SshConnStep DEF ConnReturns, ConnStep
  <2>5. CASE OpenChannel(c)
    BY Zenon, <2>5, SshConnStep DEF OpenChannel, ConnStep
  <2>6. CASE ChannelDialed(c) \/ ChannelRejected(c) \/ ChannelEnds(c)
    BY Zenon, <2>6, SshQuiet DEF ChannelDialed, ChannelRejected, ChannelEnds, ChannelStep
  <2> QED BY Zenon, <1>4, <2>1, <2>2, <2>3, <2>4, <2>5, <2>6 DEF SshStep
<1> QED BY Zenon, <1>1, <1>2, <1>3, <1>4 DEF MeshNext

----------------------------------------------------------------------------
\* The SSH server's steps leave the sessions alone, and Shutdown reaches them
\* only through the manager's calls.
LEMMA MeshRunsManager == MeshSpec => ManagerSpec
<1>1. MeshInit => TunnelInit
  BY Zenon DEF MeshInit
<1>2. [MeshNext]_meshVars => [ManagerNext]_tunnelVars
  <2> SUFFICES ASSUME [MeshNext]_meshVars PROVE ManagerNext \/ UNCHANGED tunnelVars
    BY Zenon
  <2>1. ASSUME NEW c \in Client, SshStep(c) PROVE UNCHANGED tunnelVars
    BY Zenon, <2>1 DEF SshStep, SshAccept, HandshakeDone, ConnEnds, ConnReturns, OpenChannel,
         ChannelDialed, ChannelRejected, ChannelEnds, ChannelStep, ConnStep
  <2>2. CASE SshStopListening \/ SshLoopReturns \/ UNCHANGED meshVars
    BY Zenon, <2>2 DEF SshStopListening, SshLoopReturns, meshVars
  <2>3. CASE Shutdown
    BY Zenon, <2>3 DEF Shutdown, ShutdownSsh, ShutdownSessions, ShutdownSession, ShutdownReturns,
         ManagerNext
  <2> QED BY Zenon, <2>1, <2>2, <2>3 DEF MeshNext, ManagerNext
<1> QED BY <1>1, <1>2, PTL DEF MeshSpec, ManagerSpec

\* However creations, revocations, expiries, the timers of earlier sessions with
\* the same ID, and Shutdown interleave, each session is the one its ID stands
\* for, or has a closer, or is closed; and no more than MaxSessions listen
\* besides those that are being closed (manager.go, session.go).
THEOREM SessionsAreHeld == MeshSpec => []SessionsHeld
<1>1. SessionInv => SessionsHeld
  BY Zenon, ListenersAreMapped DEF SessionInv, SessionsHeld
<1> QED BY <1>1, SessionInitially, SessionPreserved, MeshRunsManager, PTL DEF ManagerSpec

\* However connections are taken, refused, shaken hands with, timed out and
\* shut down, slots and goroutines are counted exactly, and the wait in
\* Shutdown ends only when all of them have returned (ssh_server.go).
THEOREM SshAlwaysAccounted == MeshSpec => []SshAccounted
<1>1. SshInv => SshAccounted
  <2> SUFFICES ASSUME SshInv PROVE SshAccounted
    BY Zenon
  <2>1. shutdown \in {"sessions", "done"} => \A c \in Client : sshConn[c] \in {"none", "gone"}
    BY Zenon DEF SshInv, Working
  <2> QED BY Zenon, <2>1 DEF SshInv, SshAccounted, Holding
<1> QED BY <1>1, SshInitially, SshPreserved, PTL DEF MeshSpec
=============================================================================
