------------------------- MODULE ControlPlaneProofs -------------------------
(***************************************************************************)
(* The node's dealings with the control plane.  Replayed events and        *)
(* rotated keys, for any windows, intervals, numbers of events and orders  *)
(* of stream, time and reconcile cycle; the node's identity files, for any *)
(* number of registrations, retries and crashes; and what the forwarders   *)
(* send, for any batch size and any number of sources and failures.        *)
(***************************************************************************)
EXTENDS EventStream, Registration, BatchForwarder, TLAPS

----------------------------------------------------------------------------
(* The event stream *)

Keys == [current : Nat, previous : Nat, expires : Nat]
Events == [at : Nat, key : Nat, rotates : BOOLEAN, keys : Keys]

\* The event in hand is one of those sent; none is from the future.
StreamInv ==
    /\ now \in Nat /\ log \in Seq(Events)
    /\ cpKeys \in Keys /\ keys \in Keys /\ fetched \in Keys
    /\ cursor \in Nat \ {0}
    /\ pc \in {"add", "dispatch"} => cursor \in DOMAIN log
    /\ \A e \in DOMAIN log : log[e].at <= now

\* No one has newer keys than the control plane.  The keys it has moved on from
\* were announced a transition ago, so the rotation being handled, which is
\* not stale, announced the control plane's keys or comes before no other one.
KeysInv ==
    /\ keys.current <= cpKeys.current /\ fetched.current <= cpKeys.current
    /\ \A e \in DOMAIN log : log[e].rotates =>
          /\ log[e].keys.current <= cpKeys.current
          /\ IF log[e].keys.current = cpKeys.current
             THEN cpKeys.expires = log[e].at + Transition
             ELSE now >= log[e].at + Transition
    /\ pc \in {"add", "dispatch"} /\ log[cursor].rotates => ~ Stale(cursor)

\* The nonce of an event that is or will be handled is kept while it counts.
NonceInv ==
    /\ handled \subseteq DOMAIN log
    /\ \A e \in handled : Stale(e) \/ e \in seen
    /\ pc = "dispatch" => Stale(cursor) \/ cursor \in seen

EventInv == StreamInv /\ KeysInv /\ NonceInv

----------------------------------------------------------------------------
LEMMA EventInitially == Init => EventInv
<1> SUFFICES ASSUME Init PROVE EventInv
  BY Zenon
<1>1. FirstKeys \in Keys /\ NoKeys \in Keys /\ FirstKeys.current = 1 /\ NoKeys.current = 0
  BY Zenon DEF FirstKeys, NoKeys, Keys
<1>2. log = <<>> /\ DOMAIN log = {} /\ log \in Seq(Events)
  BY DEF Init
<1>3. StreamInv
  BY <1>1, <1>2 DEF Init, StreamInv
<1>4. KeysInv
  BY <1>1, <1>2 DEF Init, KeysInv
<1>5. NonceInv
  BY Zenon DEF Init, NonceInv
<1> QED BY Zenon, <1>3, <1>4, <1>5 DEF EventInv

\* What is known of an event that was sent.
LEMMA LoggedEvent ==
    ASSUME StreamInv, NEW e \in DOMAIN log
    PROVE  /\ log[e].at \in Nat /\ log[e].rotates \in BOOLEAN
           /\ log[e].keys \in Keys /\ log[e].keys.current \in Nat
<1>1. log \in Seq(Events)
  BY Zenon DEF StreamInv
<1>2. log[e] \in Events
  BY <1>1
<1> QED BY Zenon, <1>2 DEF Events, Keys

\* Steps of the engine and the fetch: neither the clock nor the log nor the
\* nonces move, and no event comes into hand.
LEMMA EngineStep ==
    ASSUME EventInv, UNCHANGED <<now, log, cpKeys, keys, handled, seen>>,
           fetched' \in {fetched, cpKeys}, cursor' \in Nat \ {0},
           \/ UNCHANGED <<pc, cursor>>
           \/ pc' \notin {"add", "dispatch"}
    PROVE  EventInv'
<1>1. StreamInv'
  BY Zenon DEF EventInv, StreamInv
<1>2. KeysInv'
  <2>1. fetched'.current <= cpKeys.current
    BY DEF EventInv, StreamInv, KeysInv, Keys
  <2> QED BY Zenon, <2>1 DEF EventInv, KeysInv, Stale
<1>3. NonceInv'
  BY Zenon DEF EventInv, NonceInv, Stale
<1> QED BY Zenon, <1>1, <1>2, <1>3 DEF EventInv

LEMMA TickStep == ASSUME EventInv, Tick PROVE EventInv'
<1>1. /\ now' = now + 1 /\ now \in Nat
      /\ UNCHANGED <<log, cpKeys, keys, fetched, cursor, pc, handled, seen>>
      /\ pc \in {"add", "dispatch"} => ~ log[cursor].rotates
  BY Zenon DEF Tick, cpVars, streamVars, nonceVars, cycleVars, EventInv, StreamInv
<1>2. \A e \in DOMAIN log : log[e].at \in Nat /\ log[e].keys \in Keys /\ log[e].at <= now
  BY Zenon, LoggedEvent DEF EventInv, StreamInv
<1>3. StreamInv'
  BY <1>1, <1>2 DEF EventInv, StreamInv
<1>4. KeysInv'
  BY <1>1, <1>2, TimesAssumption DEF EventInv, KeysInv
<1>5. \A e \in DOMAIN log : Stale(e) => now' - log'[e].at > Window
  BY <1>1, <1>2, TimesAssumption DEF Stale
<1>6. NonceInv'
  BY Zenon, <1>1, <1>5 DEF EventInv, NonceInv, StreamInv, Stale
<1> QED BY Zenon, <1>3, <1>4, <1>6 DEF EventInv

LEMMA SendStep == ASSUME EventInv, NEW rotates \in BOOLEAN, Send(rotates) PROVE EventInv'
<1> DEFINE n == Len(log) + 1
           sent == [at |-> now, key |-> cpKeys.current, rotates |-> rotates, keys |-> cpKeys']
<1>1. /\ log' = Append(log, sent)
      /\ cpKeys' = IF rotates THEN Rotated ELSE cpKeys
      /\ rotates => now >= cpKeys.expires
      /\ UNCHANGED <<now, keys, fetched, cursor, pc, handled, seen>>
  BY Zenon DEF Send, streamVars, nonceVars, cycleVars
<1>2. /\ now \in Nat /\ cpKeys \in Keys /\ cpKeys.current \in Nat /\ Transition \in Nat
      /\ log \in Seq(Events)
  BY Zenon, TimesAssumption DEF EventInv, StreamInv, Keys
<1>3. Rotated \in Keys /\ Rotated.current = cpKeys.current + 1 /\ Rotated.expires = now + Transition
  BY <1>2 DEF Rotated, Keys
<1>4. cpKeys' \in Keys /\ cpKeys'.current \in Nat /\ cpKeys.current <= cpKeys'.current
  BY <1>1, <1>2, <1>3
<1>5. sent \in Events
  BY Zenon, <1>2, <1>4 DEF Events, Keys
<1>6. /\ log' \in Seq(Events) /\ DOMAIN log' = DOMAIN log \union {n} /\ n \notin DOMAIN log
      /\ log'[n] = sent
      /\ \A e \in DOMAIN log : log'[e] = log[e]
  BY <1>1, <1>2, <1>5
<1>7. sent.at = now /\ sent.rotates = rotates /\ sent.keys = cpKeys'
  BY Zenon
<1>8. \A e \in DOMAIN log : log[e].at \in Nat /\ log[e].keys.current \in Nat
  BY Zenon, LoggedEvent DEF EventInv
<1> HIDE DEF n, sent
<1>9. StreamInv'
  BY <1>1, <1>2, <1>4, <1>6, <1>7 DEF EventInv, StreamInv
<1>10. pc \in {"add", "dispatch"} => cursor \in DOMAIN log
  BY Zenon DEF EventInv, StreamInv
<1>11. KeysInv'
  <2>1. keys'.current <= cpKeys'.current /\ fetched'.current <= cpKeys'.current
    <3>1. keys.current \in Nat /\ fetched.current \in Nat
      BY Zenon DEF EventInv, StreamInv, Keys
    <3> QED BY <1>1, <1>2, <1>4, <3>1 DEF EventInv, KeysInv
  <2>2. ASSUME NEW e \in DOMAIN log', log'[e].rotates
        PROVE  /\ log'[e].keys.current <= cpKeys'.current
               /\ IF log'[e].keys.current = cpKeys'.current
                  THEN cpKeys'.expires = log'[e].at + Transition
                  ELSE now' >= log'[e].at + Transition
    <3>1. CASE e = n
      <4>1. rotates /\ log'[e].keys = cpKeys' /\ log'[e].at = now
        BY Zenon, <3>1, <2>2, <1>6, <1>7
      <4> QED BY <4>1, <1>1, <1>3, <1>4
    <3>2. CASE e \in DOMAIN log
      <4>1. /\ log'[e] = log[e] /\ log[e].keys.current <= cpKeys.current
            /\ log[e].at \in Nat /\ log[e].keys.current \in Nat
            /\ IF log[e].keys.current = cpKeys.current
               THEN cpKeys.expires = log[e].at + Transition
               ELSE now >= log[e].at + Transition
        BY Zenon, <3>2, <2>2, <1>6, <1>8 DEF EventInv, KeysInv
      <4>2. CASE rotates
        <5>1. cpKeys'.current = cpKeys.current + 1 /\ now' = now /\ now >= cpKeys.expires
          BY Zenon, <4>2, <1>1, <1>3
        <5>2. now >= log[e].at + Transition
          BY Zenon, <4>1, <5>1
        <5>3. log[e].keys.current < cpKeys'.current
          BY <4>1, <5>1, <1>2
        <5> QED BY <4>1, <5>1, <5>2, <5>3, <1>2
      <4>3. CASE ~ rotates
        BY Zenon, <4>1, <4>3, <1>1
      <4> QED BY Zenon, <4>2, <4>3
    <3> QED BY Zenon, <3>1, <3>2, <1>6
  <2>3. pc' \in {"add", "dispatch"} /\ log'[cursor'].rotates => ~ (now' - log'[cursor'].at > Window)
    BY Zenon, <1>1, <1>6, <1>10 DEF EventInv, KeysInv, Stale
  <2> QED BY Zenon, <2>1, <2>2, <2>3 DEF KeysInv, Stale
<1>12. NonceInv'
  <2>1. \A e \in DOMAIN log : Stale(e) => now' - log'[e].at > Window
    BY Zenon, <1>1, <1>6 DEF Stale
  <2> QED BY Zenon, <2>1, <1>1, <1>6, <1>10 DEF EventInv, NonceInv, Stale
<1> QED BY Zenon, <1>9, <1>11, <1>12 DEF EventInv

LEMMA ReceiveStep == ASSUME EventInv, Receive PROVE EventInv'
<1>0. cursor \in Nat \ {0} /\ log \in Seq(Events)
  BY Zenon DEF EventInv, StreamInv
<1>1. /\ UNCHANGED <<now, log, cpKeys, keys, fetched, handled, seen>>
      /\ cursor \in DOMAIN log /\ pc = "stream"
  BY <1>0 DEF Receive, cpVars, nonceVars, cycleVars
<1>2. CASE pc' = "add" /\ cursor' = cursor /\ ~ Stale(cursor)
  BY Zenon, <1>1, <1>2 DEF EventInv, StreamInv, KeysInv, NonceInv, Stale
<1>3. CASE pc' = pc /\ cursor' = cursor + 1
  BY <1>0, <1>1, <1>3, EngineStep
<1> QED BY Zenon, <1>2, <1>3 DEF Receive

LEMMA AddNonceStep == ASSUME EventInv, AddNonce PROVE EventInv'
<1> DEFINE kept == IF now - lastCleanup >= Cleanup THEN Retained ELSE seen
<1>1. /\ pc = "add" /\ cursor \in DOMAIN log
      /\ UNCHANGED <<now, log, cpKeys, keys, fetched, handled>>
      /\ \/ seen' = kept /\ pc' = "stream" /\ cursor' = cursor + 1
         \/ seen' = kept \union {cursor} /\ pc' = "dispatch" /\ cursor' = cursor
  BY Zenon DEF AddNonce, cpVars, cycleVars, EventInv, StreamInv
<1>2. \A e \in DOMAIN log : log[e].at \in Nat /\ now \in Nat /\ Window \in Nat
  BY Zenon, LoggedEvent, TimesAssumption DEF EventInv, StreamInv
<1>3. \A e \in DOMAIN log : e \in seen => e \in kept \/ Stale(e)
  BY <1>2 DEF Retained, Stale
<1> HIDE DEF kept
<1>4. StreamInv'
  BY <1>1 DEF EventInv, StreamInv
<1>5. KeysInv'
  BY Zenon, <1>1 DEF EventInv, KeysInv, Stale
<1>6. NonceInv'
  BY Zenon, <1>1, <1>3 DEF EventInv, NonceInv, Stale
<1> QED BY Zenon, <1>4, <1>5, <1>6 DEF EventInv

\* The rotation in hand is the control plane's last or is followed by none.
LEMMA HandledRotation ==
    ASSUME EventInv, pc \in {"add", "dispatch"}, log[cursor].rotates
    PROVE  /\ Announced(cursor) \in Keys
           /\ Announced(cursor).current = cpKeys.current
<1>1. cursor \in DOMAIN log
  BY Zenon DEF EventInv, StreamInv
<1>2. log[cursor].at \in Nat /\ log[cursor].keys \in Keys /\ now \in Nat /\ cpKeys \in Keys
  BY Zenon, <1>1, LoggedEvent DEF EventInv, StreamInv
<1>3. ~ (now - log[cursor].at > Window)
  BY Zenon DEF EventInv, KeysInv, Stale
<1>4. ~ (now >= log[cursor].at + Transition)
  BY <1>2, <1>3, TimesAssumption
<1> QED BY Zenon, <1>1, <1>2, <1>4 DEF EventInv, KeysInv, Announced

LEMMA DispatchStep ==
    ASSUME EventInv, Dispatch PROVE EventInv' /\ keys'.current >= keys.current
<1>1. /\ pc = "dispatch" /\ pc' = "stream" /\ cursor' = cursor + 1
      /\ handled' = handled \union {cursor}
      /\ keys' = IF log[cursor].rotates THEN Announced(cursor) ELSE keys
      /\ UNCHANGED <<now, log, cpKeys, fetched, seen>>
      /\ cursor \in DOMAIN log
  BY Zenon DEF Dispatch, cpVars, nonceVars, cycleVars, EventInv, StreamInv
<1>2. /\ keys' \in Keys /\ keys'.current <= cpKeys.current
      /\ keys'.current >= keys.current
  <2>1. keys.current \in Nat /\ cpKeys.current \in Nat /\ keys \in Keys /\ keys.current <= cpKeys.current
    BY Zenon DEF EventInv, StreamInv, KeysInv, Keys
  <2>2. CASE log[cursor].rotates
    BY <1>1, <2>1, <2>2, HandledRotation
  <2>3. CASE ~ log[cursor].rotates
    BY <1>1, <2>1, <2>3
  <2> QED BY Zenon, <2>2, <2>3
<1>3. StreamInv'
  BY <1>1, <1>2 DEF EventInv, StreamInv
<1>4. KeysInv'
  BY Zenon, <1>1, <1>2 DEF EventInv, KeysInv, Stale
<1>5. NonceInv'
  BY Zenon, <1>1 DEF EventInv, NonceInv, Stale
<1> QED BY Zenon, <1>2, <1>3, <1>4, <1>5 DEF EventInv

LEMMA ApplyStep == ASSUME EventInv, NEW ok \in BOOLEAN, ApplyKeys(ok) PROVE EventInv'
<1>1. /\ keys' = fetched /\ fetched' = NoKeys
      /\ UNCHANGED <<now, log, cpKeys, cursor, pc, handled, seen>>
  BY Zenon DEF ApplyKeys, cpVars, streamVars, nonceVars
<1>2. NoKeys \in Keys /\ NoKeys.current = 0
  BY Zenon DEF NoKeys, Keys
<1>3. 0 <= cpKeys.current
  BY DEF EventInv, StreamInv, Keys
<1>4. StreamInv'
  BY Zenon, <1>1, <1>2 DEF EventInv, StreamInv
<1>5. KeysInv'
  BY Zenon, <1>1, <1>2, <1>3 DEF EventInv, KeysInv, Stale
<1>6. NonceInv'
  BY Zenon, <1>1 DEF EventInv, NonceInv, Stale
<1> QED BY Zenon, <1>4, <1>5, <1>6 DEF EventInv

LEMMA EventPreserved == EventInv /\ [Next]_vars => EventInv'
<1> SUFFICES ASSUME EventInv, [Next]_vars PROVE EventInv'
  BY Zenon
<1>0. cursor \in Nat \ {0}
  BY Zenon DEF EventInv, StreamInv
<1> USE DEF cpVars, engineVars, streamVars, nonceVars, cycleVars
<1>1. ASSUME NEW from \in 1 .. MaxEvents + 1, Connected(from) PROVE EventInv'
  BY <1>1, EngineStep DEF Connected
<1>2. CASE StreamCloses \/ Wait \/ Shutdown \/ FetchKeys
  BY Zenon, <1>0, <1>2, EngineStep DEF StreamCloses, Wait, Shutdown, FetchKeys
<1>3. ASSUME NEW class \in Errors, ConnectError(class) PROVE EventInv'
  <2>1. pc' \in {"stopped", "poll", "wait"}
    BY Zenon, <1>3 DEF ConnectError, Errors
  <2> QED BY Zenon, <1>0, <1>3, <2>1, EngineStep DEF ConnectError
<1>4. CASE UNCHANGED vars
  BY Zenon, <1>0, <1>4, EngineStep DEF vars
<1> QED BY Zenon, <1>1, <1>2, <1>3, <1>4, TickStep, SendStep, ReceiveStep, AddNonceStep, DispatchStep,
           ApplyStep DEF Next

LEMMA EventInvariant == Spec => []EventInv
BY EventInitially, EventPreserved, PTL DEF Spec

----------------------------------------------------------------------------
\* An event that was handled passes the nonce check again only once it is too
\* old to pass Verify, whatever is replayed and whenever cleanup runs
\* (verifier.go, NonceStore.Add and cleanup).
THEOREM NeverHandledTwice == Spec => HandledOnce
<1>1. EventInv /\ [Next]_vars =>
        [\A e \in handled : (pc = "add" /\ cursor = e /\ pc' = "dispatch") => Stale(e)]_vars
  <2> SUFFICES ASSUME EventInv, [Next]_vars, NEW e \in handled,
                      pc = "add", cursor = e, pc' = "dispatch"
               PROVE  Stale(e)
    BY Zenon
  <2>1. AddNonce
    BY Zenon DEF Next, vars, Tick, Send, Connected, StreamCloses, ConnectError, Wait, Shutdown, Receive,
           Dispatch, FetchKeys, ApplyKeys, cpVars, engineVars, streamVars, nonceVars, cycleVars
  <2>2. e \in DOMAIN log /\ (Stale(e) \/ e \in seen)
    BY Zenon DEF EventInv, NonceInv
  <2>3. log[e].at \in Nat /\ now \in Nat /\ Window \in Nat
    BY Zenon, <2>2, LoggedEvent, TimesAssumption DEF EventInv, StreamInv
  <2>4. e \notin Retained \/ e \notin seen
    BY Zenon, <2>1 DEF AddNonce, Retained
  <2> QED BY <2>2, <2>3, <2>4 DEF Retained, Stale
<1> QED BY <1>1, EventInvariant, PTL DEF Spec, HandledOnce

\* An event never takes the verifier back to older keys, whichever cycle set
\* newer ones while the event was verified (up.go, the signing key handlers).
THEOREM EventsOnlyAdvance == Spec => EventsNeverRollBack
<1>1. EventInv /\ [Next]_vars =>
        [pc = "dispatch" /\ pc' = "stream" => keys'.current >= keys.current]_vars
  <2> SUFFICES ASSUME EventInv, [Next]_vars, pc = "dispatch", pc' = "stream"
               PROVE  keys'.current >= keys.current
    BY Zenon
  <2>1. Dispatch
    BY Zenon DEF Next, vars, Tick, Send, Connected, StreamCloses, ConnectError, Wait, Shutdown, Receive,
           AddNonce, FetchKeys, ApplyKeys, cpVars, engineVars, streamVars, nonceVars, cycleVars
  <2> QED BY Zenon, <2>1, DispatchStep
<1> QED BY <1>1, EventInvariant, PTL DEF Spec, EventsNeverRollBack

----------------------------------------------------------------------------
(* Registration *)

\* A request is sent with a key pair, and the response is for that key pair.
ResponseFits ==
    /\ phase \in {"send", "retry"} => keyPairs >= 1
    /\ phase \in File => resp \in 1 .. Len(issued) /\ issued[resp] = keyPairs

\* The files written before the one that is next are of this registration.
WrittenBefore ==
    /\ phase \in {"private_key", "node_secret_key", "signing_public_key"} =>
          files["identity.json"] = resp
    /\ phase \in {"node_secret_key", "signing_public_key"} => files["private_key"] = keyPairs
    /\ phase = "signing_public_key" => files["node_secret_key"] = resp

\* The signing key is written last: where it is there, the identity is whole
\* and Register does not go on to ask for another.
LastIsWhole ==
    files["signing_public_key"] # 0 =>
        Whole /\ phase \notin {"resolve", "send", "retry"} \cup File

\* The token file goes when the identity is whole.
TokenAfterAll == phase = "token" => Whole

IdentityInv ==
    /\ RegistrationTypeOK /\ ResponseFits
    /\ ~ purged => cli = "idle" /\ WrittenBefore /\ LastIsWhole /\ TokenAfterAll

LEMMA SeqWidens ==
    ASSUME NEW k \in Nat, NEW s \in Seq(1 .. k)
    PROVE  s \in Seq(1 .. (k + 1))
<1>1. /\ Len(s) \in Nat /\ s \in [1 .. Len(s) -> 1 .. k]
  OBVIOUS
<1>2. s \in [1 .. Len(s) -> 1 .. (k + 1)]
  <2>1. \A i \in 1 .. Len(s) : s[i] \in 1 .. (k + 1)
    BY <1>1
  <2> QED BY Zenon, <1>1, <2>1
<1> QED BY <1>1, <1>2

\* Issuing an identity keeps the earlier ones.
LEMMA IssueProperties ==
    ASSUME RegistrationTypeOK, Issue, phase = "send", keyPairs >= 1
    PROVE  /\ issued' \in Seq(1 .. keyPairs)
           /\ Len(issued') = Len(issued) + 1 /\ Len(issued) \in Nat
           /\ issued'[Len(issued')] = keyPairs
           /\ \A n \in 1 .. Len(issued) : issued'[n] = issued[n]
<1>1. issued \in Seq(1 .. keyPairs) /\ keyPairs \in 1 .. keyPairs /\ Len(issued) \in Nat
  BY BoundsAssumption DEF RegistrationTypeOK
<1>2. issued' = Append(issued, keyPairs)
  BY Zenon DEF Issue
<1> QED BY <1>1, <1>2

----------------------------------------------------------------------------
(* Steps that write no file and issue no identity. *)

\* Nothing that the identity's invariant speaks of changes but pc.
Still == UNCHANGED <<files, issued, purged, cli>>

LEMMA StillKeepsWhole ==
    ASSUME Still, Whole
    PROVE  Whole'
BY Zenon DEF Still, Whole

\* A step to a place where Register has not begun to write.
LEMMA MoveAway ==
    ASSUME IdentityInv, RegistrationTypeOK', Still,
           phase' \in {"down", "running", "load", "resolve", "send", "retry"},
           phase' \in {"send", "retry"} => keyPairs' >= 1,
           ~ purged /\ phase' \in {"resolve", "send", "retry"} => files["signing_public_key"] = 0
    PROVE  IdentityInv'
<1>1. phase' \notin File /\ phase' # "token"
  BY Zenon DEF File
<1>2. ResponseFits'
  BY Zenon, <1>1 DEF ResponseFits
<1>3. ASSUME ~ purged' PROVE cli' = "idle" /\ WrittenBefore' /\ LastIsWhole' /\ TokenAfterAll'
  <2>1. ~ purged /\ cli' = "idle" /\ LastIsWhole
    BY Zenon, <1>3 DEF Still, IdentityInv
  <2>2. WrittenBefore' /\ TokenAfterAll'
    BY Zenon, <1>1 DEF WrittenBefore, TokenAfterAll, File
  <2>3. LastIsWhole'
    <3> SUFFICES ASSUME files'["signing_public_key"] # 0
                 PROVE  Whole' /\ phase' \notin {"resolve", "send", "retry"} \cup File
      BY Zenon DEF LastIsWhole
    <3>1. files["signing_public_key"] # 0
      BY Zenon DEF Still
    <3>2. Whole'
      BY Zenon, <2>1, <3>1, StillKeepsWhole DEF LastIsWhole
    <3> QED BY Zenon, <1>1, <2>1, <3>1, <3>2
  <2> QED BY Zenon, <2>1, <2>2, <2>3
<1> QED BY Zenon, <1>2, <1>3 DEF IdentityInv

LEMMA WholeLoads ==
    ASSUME RegistrationTypeOK, Whole
    PROVE  Loads
<1>1. files["private_key"] \in 1 .. keyPairs
  BY DEF RegistrationTypeOK, Whole
<1> QED BY <1>1 DEF Whole, Loads, File

LEMMA StartStep ==
    ASSUME IdentityInv, NEW c \in {"up", "join"}, Start(c)
    PROVE  IdentityInv'
<1>1. RegistrationTypeOK'
  BY DEF IdentityInv, Start, RegistrationTypeOK, issuedVars, Step
<1> QED BY Zenon, <1>1, MoveAway DEF Start, Still, issuedVars

LEMMA LoadIdentityStep ==
    ASSUME IdentityInv, LoadIdentity
    PROVE  IdentityInv'
<1> USE DEF IdentityInv
<1>1. CASE Loads
  <2>1. phase' \in {"down", "running"} /\ auth' = files["node_secret_key"]
    BY Zenon, <1>1 DEF LoadIdentity, AfterSuccess
  <2>2. auth' \in 0 .. Len(issued)
    BY <2>1 DEF RegistrationTypeOK, File
  <2>3. RegistrationTypeOK'
    BY Zenon, <2>1, <2>2 DEF LoadIdentity, RegistrationTypeOK, issuedVars, Step
  <2> QED BY Zenon, <2>1, <2>3, MoveAway DEF LoadIdentity, Still, issuedVars
<1>2. CASE ~ Loads
  <2>1. phase' = "resolve" /\ auth' = auth
    BY Zenon, <1>2 DEF LoadIdentity
  <2>2. RegistrationTypeOK'
    BY Zenon, <2>1 DEF LoadIdentity, RegistrationTypeOK, issuedVars, Step
  <2>3. ~ purged => files["signing_public_key"] = 0
    BY Zenon, <1>2, WholeLoads DEF LastIsWhole
  <2> QED BY Zenon, <2>1, <2>2, <2>3, MoveAway DEF LoadIdentity, Still, issuedVars
<1> QED BY Zenon, <1>1, <1>2

LEMMA ResolveTokenStep ==
    ASSUME IdentityInv, ResolveToken
    PROVE  IdentityInv'
<1> USE DEF IdentityInv
<1>1. /\ keyPairs' = keyPairs + 1 /\ keyPairs' \in 1 .. MaxKeys /\ keyPairs \in Nat
      /\ UNCHANGED <<files, issued>>
  BY BoundsAssumption DEF ResolveToken, RegistrationTypeOK, issuedVars
<1>2. issued' \in Seq(1 .. keyPairs')
  BY Zenon, <1>1, SeqWidens DEF RegistrationTypeOK
<1>3. source' \in {"value", "file", "env", "none"}
  BY Zenon DEF ResolveToken, Resolve, RegistrationTypeOK
<1>4. \A f \in File : files'[f] <= IF f = "private_key" THEN keyPairs' ELSE Len(issued')
  BY <1>1 DEF RegistrationTypeOK
<1>5. 0 \in 0 .. Len(issued') /\ 0 \in 0 .. MaxRetries
  BY <1>1, BoundsAssumption DEF RegistrationTypeOK
<1>6. RegistrationTypeOK'
  BY <1>1, <1>2, <1>3, <1>4, <1>5 DEF ResolveToken, RegistrationTypeOK, issuedVars, Step
<1>7. ~ purged => files["signing_public_key"] = 0
  BY Zenon DEF ResolveToken, LastIsWhole
<1> QED BY <1>1, <1>6, <1>7, MoveAway DEF ResolveToken, Still, issuedVars

\* Register gives up.
LEMMA GiveUpStep ==
    ASSUME IdentityInv, ResolveFails \/ RegisterRefused \/ SaveFails \/ Crash
    PROVE  IdentityInv'
<1> USE DEF IdentityInv
<1>1. phase' \in {"down", "running"} /\ Still
      /\ UNCHANGED <<tokenFile, other, caller, source, keyPairs, resp, retries, auth, revoked>>
  BY Zenon DEF ResolveFails, RegisterRefused, SaveFails, Crash, AfterFailure, Still, issuedVars
<1>2. crashes' \in 0 .. MaxCrashes
  <2>1. crashes' = crashes \/ (crashes < MaxCrashes /\ crashes' = crashes + 1)
    BY Zenon DEF ResolveFails, RegisterRefused, SaveFails, Crash, Fault
  <2> QED BY <2>1, BoundsAssumption DEF RegistrationTypeOK
<1>3. RegistrationTypeOK'
  BY ZenonT(30), <1>1, <1>2 DEF RegistrationTypeOK, Still, Step
<1> QED BY Zenon, <1>1, <1>3, MoveAway

LEMMA RetryStep ==
    ASSUME IdentityInv, Retry
    PROVE  IdentityInv'
<1> USE DEF IdentityInv
<1>1. phase = "retry" /\ phase' \in {"down", "running", "send"} /\ Still
      /\ UNCHANGED <<tokenFile, other, caller, source, keyPairs, resp, auth, revoked, crashes>>
  BY Zenon DEF Retry, AfterFailure, Still, issuedVars
<1>2. retries' \in 0 .. MaxRetries
  <2>1. retries' = retries \/ (~ (retries >= MaxRetries) /\ retries' = retries + 1)
    BY Zenon DEF Retry
  <2> QED BY <2>1, BoundsAssumption DEF RegistrationTypeOK
<1>3. RegistrationTypeOK'
  BY ZenonT(30), <1>1, <1>2 DEF RegistrationTypeOK, Still, Step
<1>4. keyPairs >= 1 /\ (~ purged => files["signing_public_key"] = 0)
  BY Zenon, <1>1 DEF ResponseFits, LastIsWhole
<1> QED BY Zenon, <1>1, <1>3, <1>4, MoveAway

LEMMA HeartbeatStep ==
    ASSUME IdentityInv, HeartbeatUnauthorized
    PROVE  IdentityInv'
<1>1. RegistrationTypeOK'
  BY Zenon DEF IdentityInv, HeartbeatUnauthorized, RegistrationTypeOK, issuedVars, Step
<1> QED BY Zenon, <1>1, MoveAway DEF HeartbeatUnauthorized, Still, issuedVars

----------------------------------------------------------------------------
(* Steps that issue an identity or write a file. *)

\* What an issued identity leaves of the types.
LEMMA IssueType ==
    ASSUME IdentityInv, phase = "send", Issue
    PROVE  /\ issued' \in Seq(1 .. keyPairs) /\ Len(issued') = Len(issued) + 1
           /\ Len(issued) \in Nat /\ issued'[Len(issued')] = keyPairs
           /\ 0 .. Len(issued) \subseteq 0 .. Len(issued')
           /\ 1 .. Len(issued) \subseteq 1 .. Len(issued')
           /\ \A f \in File :
                 files[f] <= IF f = "private_key" THEN keyPairs ELSE Len(issued')
<1>1. keyPairs >= 1 /\ RegistrationTypeOK
  BY Zenon DEF IdentityInv, ResponseFits
<1>2. /\ issued' \in Seq(1 .. keyPairs) /\ Len(issued') = Len(issued) + 1
      /\ Len(issued) \in Nat /\ issued'[Len(issued')] = keyPairs
  BY Zenon, <1>1, IssueProperties
<1>3. \A f \in File : files[f] \in Nat
  BY Zenon, <1>1 DEF RegistrationTypeOK
<1>4. \A f \in File : files[f] <= IF f = "private_key" THEN keyPairs ELSE Len(issued)
  BY Zenon, <1>1 DEF RegistrationTypeOK
<1>5. \A f \in File : files[f] <= IF f = "private_key" THEN keyPairs ELSE Len(issued')
  BY <1>2, <1>3, <1>4
<1> QED BY <1>2, <1>5

LEMMA RegisterAcceptedStep ==
    ASSUME IdentityInv, RegisterAccepted
    PROVE  IdentityInv'
<1> USE DEF IdentityInv
<1>1. /\ phase = "send" /\ phase' = "identity.json" /\ Issue /\ resp' = Len(issued')
      /\ UNCHANGED <<files, tokenFile, other, caller, source, keyPairs, retries, auth,
                     revoked, cli, purged, crashes>>
  BY Zenon DEF RegisterAccepted
<1>2. /\ issued' \in Seq(1 .. keyPairs) /\ Len(issued') = Len(issued) + 1
      /\ Len(issued) \in Nat /\ issued'[Len(issued')] = keyPairs
      /\ 0 .. Len(issued) \subseteq 0 .. Len(issued')
      /\ 1 .. Len(issued) \subseteq 1 .. Len(issued')
      /\ \A f \in File : files[f] <= IF f = "private_key" THEN keyPairs ELSE Len(issued')
  BY Zenon, <1>1, IssueType
<1>3. resp' \in 0 .. Len(issued') /\ resp' \in 1 .. Len(issued')
  BY <1>1, <1>2
<1>4. RegistrationTypeOK'
  BY Zenon, <1>1, <1>2, <1>3 DEF RegistrationTypeOK, Step, File
<1>5. ResponseFits'
  BY Zenon, <1>1, <1>2, <1>3 DEF ResponseFits
<1>6. ASSUME ~ purged' PROVE cli' = "idle" /\ WrittenBefore' /\ LastIsWhole' /\ TokenAfterAll'
  <2>1. cli' = "idle" /\ files'["signing_public_key"] = 0
    BY Zenon, <1>1, <1>6 DEF LastIsWhole
  <2> QED BY Zenon, <1>1, <2>1 DEF WrittenBefore, LastIsWhole, TokenAfterAll
<1> QED BY Zenon, <1>4, <1>5, <1>6

LEMMA RegisterTransientStep ==
    ASSUME IdentityInv, NEW arrived \in BOOLEAN, RegisterTransient(arrived)
    PROVE  IdentityInv'
<1> USE DEF IdentityInv
<1>1. /\ phase = "send" /\ phase' = "retry"
      /\ UNCHANGED <<files, tokenFile, other, caller, source, keyPairs, resp, retries, auth,
                     revoked, cli, purged, crashes>>
  BY Zenon DEF RegisterTransient
<1>2. RegistrationTypeOK'
  <2>1. CASE arrived
    <3>1. Issue
      BY Zenon, <2>1 DEF RegisterTransient
    <3>2. /\ issued' \in Seq(1 .. keyPairs)
          /\ 0 .. Len(issued) \subseteq 0 .. Len(issued')
          /\ 1 .. Len(issued) \subseteq 1 .. Len(issued')
          /\ \A f \in File : files[f] <= IF f = "private_key" THEN keyPairs ELSE Len(issued')
      BY Zenon, <1>1, <3>1, IssueType
    <3> QED BY ZenonT(30), <1>1, <3>2 DEF RegistrationTypeOK, Step
  <2>2. CASE ~ arrived
    BY Zenon, <1>1, <2>2 DEF RegisterTransient, RegistrationTypeOK, Step
  <2> QED BY Zenon, <2>1, <2>2
<1>3. ResponseFits'
  BY Zenon, <1>1 DEF ResponseFits, File
<1>4. ASSUME ~ purged' PROVE cli' = "idle" /\ WrittenBefore' /\ LastIsWhole' /\ TokenAfterAll'
  <2>1. cli' = "idle" /\ files'["signing_public_key"] = 0
    BY Zenon, <1>1, <1>4 DEF LastIsWhole
  <2> QED BY Zenon, <1>1, <2>1 DEF WrittenBefore, LastIsWhole, TokenAfterAll
<1> QED BY Zenon, <1>2, <1>3, <1>4

LEMMA SaveFileStep ==
    ASSUME IdentityInv, SaveFile
    PROVE  IdentityInv'
<1> USE DEF IdentityInv
<1> DEFINE value == IF phase = "private_key" THEN keyPairs ELSE resp
<1>1. /\ phase \in File /\ files' = [files EXCEPT ![phase] = value] /\ phase' = NextFile(phase)
      /\ UNCHANGED <<tokenFile, other, caller, source, keyPairs, resp, retries, auth,
                     issued, revoked, cli, purged, crashes>>
  BY Zenon DEF SaveFile, issuedVars
<1>2. /\ resp \in 1 .. Len(issued) /\ issued[resp] = keyPairs /\ Len(issued) \in Nat
      /\ files \in [File -> Nat] /\ keyPairs \in Nat
  BY <1>1, BoundsAssumption DEF ResponseFits, RegistrationTypeOK
<1>3. value \in Nat /\ value <= IF phase = "private_key" THEN keyPairs ELSE Len(issued)
  BY <1>2
<1> HIDE DEF value
<1>4. /\ files' \in [File -> Nat] /\ files'[phase] = value
      /\ \A f \in File \ {phase} : files'[f] = files[f]
  BY Zenon, <1>1, <1>2, <1>3
<1>5. phase' \in {"private_key", "node_secret_key", "signing_public_key", "token"}
  BY Zenon, <1>1 DEF NextFile, File
<1>6. RegistrationTypeOK'
  <2>1. \A f \in File : files'[f] <= IF f = "private_key" THEN keyPairs ELSE Len(issued)
    BY Zenon, <1>3, <1>4 DEF RegistrationTypeOK
  <2> QED BY ZenonT(30), <1>1, <1>4, <1>5, <2>1 DEF RegistrationTypeOK, Step, File
<1>7. ResponseFits'
  BY Zenon, <1>1, <1>2, <1>5 DEF ResponseFits
<1>8. ASSUME ~ purged' PROVE cli' = "idle" /\ WrittenBefore' /\ LastIsWhole' /\ TokenAfterAll'
  <2>1. ~ purged /\ cli' = "idle" /\ WrittenBefore /\ files["signing_public_key"] = 0
    BY Zenon, <1>1, <1>8 DEF LastIsWhole
  <2>2. CASE phase = "identity.json"
    <3>1. phase' = "private_key" /\ files'["identity.json"] = resp /\ files'["signing_public_key"] = 0
      BY Zenon, <1>1, <1>4, <2>1, <2>2 DEF NextFile, value, File
    <3> QED BY Zenon, <1>1, <2>1, <3>1 DEF WrittenBefore, LastIsWhole, TokenAfterAll
  <2>3. CASE phase = "private_key"
    <3>1. /\ phase' = "node_secret_key" /\ files'["identity.json"] = resp
          /\ files'["private_key"] = keyPairs /\ files'["signing_public_key"] = 0
      BY Zenon, <1>1, <1>4, <2>1, <2>3 DEF NextFile, value, File, WrittenBefore
    <3> QED BY Zenon, <1>1, <2>1, <3>1 DEF WrittenBefore, LastIsWhole, TokenAfterAll
  <2>4. CASE phase = "node_secret_key"
    <3>1. /\ phase' = "signing_public_key" /\ files'["identity.json"] = resp
          /\ files'["private_key"] = keyPairs /\ files'["node_secret_key"] = resp
          /\ files'["signing_public_key"] = 0
      BY Zenon, <1>1, <1>4, <2>1, <2>4 DEF NextFile, value, File, WrittenBefore
    <3> QED BY Zenon, <1>1, <2>1, <3>1 DEF WrittenBefore, LastIsWhole, TokenAfterAll
  <2>5. CASE phase = "signing_public_key"
    <3>1. /\ phase' = "token" /\ files'["identity.json"] = resp
          /\ files'["private_key"] = keyPairs /\ files'["node_secret_key"] = resp
          /\ files'["signing_public_key"] = resp
      BY Zenon, <1>1, <1>4, <2>1, <2>5 DEF NextFile, value, File, WrittenBefore
    <3>2. Whole'
      BY Zenon, <1>1, <1>2, <3>1 DEF Whole
    <3> QED BY Zenon, <1>1, <2>1, <3>1, <3>2 DEF WrittenBefore, LastIsWhole, TokenAfterAll, File
  <2> QED BY Zenon, <1>1, <2>2, <2>3, <2>4, <2>5 DEF File
<1> QED BY Zenon, <1>6, <1>7, <1>8

LEMMA RemoveTokenStep ==
    ASSUME IdentityInv, NEW removed \in BOOLEAN, RemoveToken(removed)
    PROVE  IdentityInv'
<1> USE DEF IdentityInv
<1>1. /\ phase = "token" /\ phase' \in {"down", "running"} /\ Still /\ auth' = resp
      /\ UNCHANGED <<other, caller, source, keyPairs, resp, retries, revoked, crashes>>
      /\ tokenFile' \in BOOLEAN
  BY Zenon DEF RemoveToken, AfterSuccess, Still, issuedVars
<1>2. RegistrationTypeOK'
  BY Zenon, <1>1 DEF RegistrationTypeOK, Still, Step
<1> QED BY Zenon, <1>1, <1>2, MoveAway

\* Steps that leave Register alone.
LEMMA OutsideStep ==
    ASSUME IdentityInv, Provision \/ UNCHANGED registrationVars
    PROVE  IdentityInv'
<1> USE DEF IdentityInv
<1>1. UNCHANGED <<files, other, procVars, issuedVars, cli, purged, crashes>> /\ tokenFile' \in BOOLEAN
  BY Zenon DEF Provision, registrationVars, RegistrationTypeOK
<1>2. RegistrationTypeOK'
  BY Zenon, <1>1 DEF RegistrationTypeOK, procVars, issuedVars
<1>3. Whole' <=> Whole
  BY Zenon, <1>1 DEF Whole, issuedVars
<1>4. ResponseFits' /\ (WrittenBefore' <=> WrittenBefore)
      /\ (LastIsWhole' <=> LastIsWhole) /\ (TokenAfterAll' <=> TokenAfterAll)
  BY Zenon, <1>1, <1>3 DEF ResponseFits, WrittenBefore, LastIsWhole, TokenAfterAll, procVars, issuedVars
<1> QED BY Zenon, <1>1, <1>2, <1>4

LEMMA DeregisterStep ==
    ASSUME IdentityInv, NEW purge \in BOOLEAN, Deregister(purge)
    PROVE  IdentityInv'
<1> USE DEF IdentityInv
<1>1. /\ UNCHANGED <<files, tokenFile, other, procVars, issued, crashes>>
      /\ Loads /\ revoked' = revoked \cup {files["identity.json"]}
      /\ cli' = (IF purge THEN "purge" ELSE "idle") /\ purged' = (purged \/ purge)
      /\ cli = "idle"
  BY Zenon DEF Deregister
<1>2. revoked' \subseteq 1 .. Len(issued)
  <2>1. files["identity.json"] \in Nat /\ files["identity.json"] # 0
        /\ files["identity.json"] <= Len(issued)
    BY Zenon, <1>1 DEF RegistrationTypeOK, Loads, File
  <2>2. Len(issued) \in Nat
    BY DEF RegistrationTypeOK
  <2>3. files["identity.json"] \in 1 .. Len(issued)
    BY <2>1, <2>2
  <2> QED BY ZenonT(30), <1>1, <2>3 DEF RegistrationTypeOK
<1>3. RegistrationTypeOK'
  BY Zenon, <1>1, <1>2 DEF RegistrationTypeOK, procVars
<1>4. Whole' <=> Whole
  BY Zenon, <1>1 DEF Whole
<1>5. ResponseFits' /\ (WrittenBefore' <=> WrittenBefore)
      /\ (LastIsWhole' <=> LastIsWhole) /\ (TokenAfterAll' <=> TokenAfterAll)
  BY Zenon, <1>1, <1>4 DEF ResponseFits, WrittenBefore, LastIsWhole, TokenAfterAll, procVars
<1> QED BY Zenon, <1>1, <1>3, <1>5

\* A purge that runs was started.
LEMMA PurgeStep ==
    ASSUME IdentityInv, PurgeEnds \/ \E f \in File : PurgeFile(f)
    PROVE  IdentityInv'
<1> USE DEF IdentityInv
<1>1. /\ cli = "purge" /\ cli' \in {"purge", "idle"} /\ UNCHANGED <<other, procVars, issuedVars, purged>>
      /\ tokenFile' \in BOOLEAN
  BY Zenon DEF PurgeEnds, PurgeFile, RegistrationTypeOK
<1>2. purged'
  BY Zenon, <1>1 DEF RegistrationTypeOK
<1>3. files' = files \/ \E f \in File : files' = [files EXCEPT ![f] = 0]
  BY Zenon DEF PurgeEnds, PurgeFile
<1>4. /\ files' \in [File -> Nat]
      /\ \A f \in File : files'[f] <= IF f = "private_key" THEN keyPairs ELSE Len(issued)
  <2>1. keyPairs \in Nat /\ Len(issued) \in Nat
    BY BoundsAssumption DEF RegistrationTypeOK
  <2>2. \A f \in File : files'[f] = files[f] \/ files'[f] = 0
    BY Zenon, <1>3 DEF RegistrationTypeOK
  <2>3. files' \in [File -> Nat]
    BY <1>3 DEF RegistrationTypeOK
  <2>4. ASSUME NEW f \in File
        PROVE  files'[f] <= IF f = "private_key" THEN keyPairs ELSE Len(issued)
    <3>1. files[f] <= IF f = "private_key" THEN keyPairs ELSE Len(issued)
      BY Zenon DEF RegistrationTypeOK
    <3>2. CASE files'[f] = files[f]
      BY Zenon, <3>1, <3>2
    <3>3. CASE files'[f] = 0
      BY <2>1, <3>3
    <3> QED BY Zenon, <2>2, <3>2, <3>3
  <2> QED BY Zenon, <2>3, <2>4
<1>5. crashes' \in 0 .. MaxCrashes
  <2>1. crashes' = crashes \/ (crashes < MaxCrashes /\ crashes' = crashes + 1)
    BY Zenon DEF PurgeEnds, PurgeFile, Fault
  <2> QED BY <2>1, BoundsAssumption DEF RegistrationTypeOK
<1>6. RegistrationTypeOK'
  BY Zenon, <1>1, <1>4, <1>5 DEF RegistrationTypeOK, procVars, issuedVars
<1>7. ResponseFits'
  BY Zenon, <1>1 DEF ResponseFits, procVars, issuedVars
<1> QED BY Zenon, <1>2, <1>6, <1>7

----------------------------------------------------------------------------
LEMMA IdentityInit == RegistrationInit => IdentityInv
<1> SUFFICES ASSUME RegistrationInit PROVE IdentityInv
  BY Zenon
<1>1. issued = <<>> /\ Len(issued) = 0 /\ issued \in Seq(1 .. keyPairs)
  BY DEF RegistrationInit
<1>2. /\ files \in [File -> Nat] /\ \A f \in File : files[f] = 0
  BY Zenon DEF RegistrationInit
<1>3. RegistrationTypeOK
  <2>1. \A f \in File : files[f] <= IF f = "private_key" THEN keyPairs ELSE Len(issued)
    BY <1>1, <1>2 DEF RegistrationInit
  <2>2. keyPairs \in 0 .. MaxKeys /\ retries \in 0 .. MaxRetries /\ crashes \in 0 .. MaxCrashes
    BY BoundsAssumption DEF RegistrationInit
  <2>3. /\ resp \in 0 .. Len(issued) /\ auth \in 0 .. Len(issued)
        /\ revoked \subseteq 1 .. Len(issued)
    BY <1>1 DEF RegistrationInit
  <2>4. /\ tokenFile \in BOOLEAN /\ other \in {"value", "env", "none"}
        /\ phase \in Step /\ caller \in {"up", "join", "heartbeat"}
        /\ source \in {"value", "file", "env", "none"}
        /\ cli \in {"idle", "purge"} /\ purged \in BOOLEAN
    BY Zenon DEF RegistrationInit, Step
  <2> QED BY Zenon, <1>1, <1>2, <2>1, <2>2, <2>3, <2>4 DEF RegistrationTypeOK
<1>4. ResponseFits /\ WrittenBefore /\ TokenAfterAll /\ cli = "idle"
  BY Zenon DEF RegistrationInit, ResponseFits, WrittenBefore, TokenAfterAll, File
<1>5. LastIsWhole
  BY Zenon, <1>2 DEF LastIsWhole, File
<1> QED BY Zenon, <1>3, <1>4, <1>5 DEF IdentityInv

LEMMA IdentityStep == IdentityInv /\ [RegistrationNext]_registrationVars => IdentityInv'
<1> SUFFICES ASSUME IdentityInv, [RegistrationNext]_registrationVars PROVE IdentityInv'
  BY Zenon
<1>1. CASE Register
  BY Zenon, <1>1, LoadIdentityStep, ResolveTokenStep, GiveUpStep, RegisterAcceptedStep, RetryStep,
     RegisterTransientStep, SaveFileStep, RemoveTokenStep DEF Register
<1>2. CASE RegistrationNext /\ ~ Register
  BY Zenon, <1>2, StartStep, GiveUpStep, HeartbeatStep, DeregisterStep, PurgeStep, OutsideStep DEF RegistrationNext
<1> QED BY Zenon, <1>1, <1>2, OutsideStep

\* The inductive invariant: where Register is determines which files are of
\* this registration, and the last file stands for all of them.
THEOREM IdentityInvariant == RegistrationSpec => []IdentityInv
BY IdentityInit, IdentityStep, PTL DEF RegistrationSpec

\* Crashes and failed writes never make LoadIdentity mix two registrations.
THEOREM IdentityNeverMixed == RegistrationSpec => []IdentityWhole
<1>1. IdentityInv => IdentityWhole
  BY Zenon DEF IdentityInv, LastIsWhole, IdentityWhole, Loads, File
<1> QED BY <1>1, IdentityInvariant, PTL

\* The token file is only removed when a whole identity is on disk.
THEOREM TokenKeptUntilSaved == RegistrationSpec => TokenOrIdentity
<1>1. IdentityInv /\ [RegistrationNext]_registrationVars => [tokenFile /\ ~ tokenFile' /\ ~ purged => Whole']_registrationVars
  <2> SUFFICES ASSUME IdentityInv, RegistrationNext, tokenFile, ~ tokenFile', ~ purged
               PROVE  Whole'
    BY Zenon
  <2>1. cli = "idle"
    BY Zenon DEF IdentityInv
  <2>2. PICK removed \in BOOLEAN : RemoveToken(removed)
    BY Zenon, <2>1 DEF RegistrationNext, Register, Start, LoadIdentity, ResolveToken, ResolveFails, RegisterAccepted,
       RegisterTransient, RegisterRefused, Retry, SaveFile, SaveFails, Crash,
       HeartbeatUnauthorized, Deregister, PurgeFile, PurgeEnds, Provision
  <2>3. Whole /\ Still
    BY Zenon, <2>2 DEF RemoveToken, IdentityInv, TokenAfterAll, Still, issuedVars
  <2> QED BY Zenon, <2>3, StillKeepsWhole
<1> QED BY <1>1, IdentityInvariant, PTL DEF RegistrationSpec, TokenOrIdentity

----------------------------------------------------------------------------
(* The forwarders of observability data: the buffer, for any batch size,   *)
(* any number of sources and any number of failures.                       *)

\* Concatenation of sequences of entries.
LEMMA Concatenation ==
    ASSUME NEW s \in Seq(Nat), NEW t \in Seq(Nat)
    PROVE  s \o t \in Seq(Nat) /\ Len(s \o t) = Len(s) + Len(t) /\ Len(s) \in Nat
OBVIOUS

LEMMA EmptyPart ==
    ASSUME NEW s \in Seq(Nat)
    PROVE  s \o <<>> = s /\ <<>> \o s = s
OBVIOUS

\* The last entries of a sequence.
LEMMA Suffix ==
    ASSUME NEW s \in Seq(Nat), NEW k \in Nat, k <= Len(s)
    PROVE  /\ SubSeq(s, k + 1, Len(s)) \in Seq(Nat)
           /\ Len(SubSeq(s, k + 1, Len(s))) = Len(s) - k
           /\ \A i \in 1 .. (Len(s) - k) : SubSeq(s, k + 1, Len(s))[i] = s[k + i]
<1>1. Len(s) \in Nat /\ k + 1 \in Int
  OBVIOUS
<1>2. \A i \in (k + 1) .. Len(s) : s[i] \in Nat
  BY <1>1
<1> DEFINE t == SubSeq(s, k + 1, Len(s))
<1>3. /\ t \in Seq(Nat)
      /\ Len(t) = IF k + 1 <= Len(s) THEN Len(s) - (k + 1) + 1 ELSE 0
      /\ \A i \in 1 .. (Len(s) - (k + 1) + 1) : t[i] = s[(k + 1) + i - 1]
  BY <1>1, <1>2
<1> HIDE DEF t
<1>4. Len(t) = Len(s) - k
  BY <1>1, <1>3
<1>5. ASSUME NEW i \in 1 .. (Len(s) - k) PROVE t[i] = s[k + i]
  <2>1. i \in 1 .. (Len(s) - (k + 1) + 1) /\ (k + 1) + i - 1 = k + i
    BY SMTT(30), <1>1
  <2> QED BY Zenon, <1>3, <2>1
<1> QED BY Zenon, <1>3, <1>4, <1>5 DEF t

\* What EnforceCapacity returns: the last entries, at most 2 * BatchSize.
LEMMA CapacityEnforced ==
    ASSUME NEW s \in Seq(Nat)
    PROVE  /\ EnforceCapacity(s) \in Seq(Nat)
           /\ Len(EnforceCapacity(s)) <= 2 * BatchSize
           /\ Len(EnforceCapacity(s)) <= Len(s)
           /\ \A i \in 1 .. Len(EnforceCapacity(s)) :
                 EnforceCapacity(s)[i] = s[Len(s) - Len(EnforceCapacity(s)) + i]
           /\ Len(s) <= 2 * BatchSize => EnforceCapacity(s) = s
           /\ Len(s) > 2 * BatchSize => Len(EnforceCapacity(s)) = 2 * BatchSize
<1> DEFINE limit == 2 * BatchSize
<1>1. limit \in Nat /\ Len(s) \in Nat
  BY SizesAssumption
<1>2. CASE Len(s) <= limit
  <2>1. EnforceCapacity(s) = s
    BY <1>1, <1>2 DEF EnforceCapacity
  <2> QED BY <1>1, <1>2, <2>1
<1>3. CASE Len(s) > limit
  <2> DEFINE t == SubSeq(s, Len(s) - limit + 1, Len(s))
  <2>1. EnforceCapacity(s) = t
    BY Zenon, <1>3 DEF EnforceCapacity
  <2>2. Len(s) - limit \in Nat /\ Len(s) - limit <= Len(s)
        /\ Len(s) - (Len(s) - limit) = limit
    BY <1>1, <1>3
  <2> HIDE DEF limit
  <2>3. /\ t \in Seq(Nat)
        /\ Len(t) = limit
        /\ \A i \in 1 .. limit : t[i] = s[(Len(s) - limit) + i]
    <3> DEFINE k == Len(s) - limit
    <3>1. k \in Nat /\ k <= Len(s) /\ Len(s) - k = limit
      BY Zenon, <2>2
    <3> HIDE DEF k
    <3>2. /\ SubSeq(s, k + 1, Len(s)) \in Seq(Nat)
          /\ Len(SubSeq(s, k + 1, Len(s))) = limit
          /\ \A i \in 1 .. limit : SubSeq(s, k + 1, Len(s))[i] = s[k + i]
      BY Zenon, <3>1, Suffix
    <3> QED BY Zenon, <3>2 DEF k
  <2> HIDE DEF t
  <2>4. /\ Len(t) <= Len(s)
        /\ ~ (Len(s) <= limit)
        /\ \A i \in 1 .. Len(t) : t[i] = s[Len(s) - Len(t) + i]
    BY <1>1, <1>3, <2>3
  <2> QED BY <1>1, <2>1, <2>3, <2>4 DEF limit
<1> QED BY <1>1, <1>2, <1>3

\* A run of consecutive numbers that ends with n.
Run(s, n) == \A i \in 1 .. Len(s) : s[i] = n - Len(s) + i

\* Appending the next k numbers to a run gives a run.
LEMMA RunGrows ==
    ASSUME NEW s \in Seq(Nat), collected \in Nat, Run(s, collected), NEW k \in Nat
    PROVE  /\ s \o NewEntries(k) \in Seq(Nat)
           /\ Run(s \o NewEntries(k), collected + k)
<1>1. /\ NewEntries(k) \in Seq(Nat)
      /\ Len(NewEntries(k)) = k
      /\ \A i \in 1 .. k : NewEntries(k)[i] = collected + i
  <2>1. \A i \in 1 .. k : collected + i \in Nat
    OBVIOUS
  <2>2. NewEntries(k) \in [1 .. k -> Nat]
    BY Zenon, <2>1 DEF NewEntries
  <2>3. NewEntries(k) \in Seq(Nat)
    BY <2>2
  <2>4. DOMAIN NewEntries(k) = 1 .. k
    BY Zenon DEF NewEntries
  <2>5. Len(NewEntries(k)) = k
    BY <2>3, <2>4
  <2> QED BY Zenon, <2>3, <2>5 DEF NewEntries
<1> DEFINE t == s \o NewEntries(k)
<1>2. t \in Seq(Nat) /\ Len(t) = Len(s) + k /\ Len(s) \in Nat
  <2>1. Len(s) \in Nat
    OBVIOUS
  <2>2. t \in Seq(Nat) /\ Len(t) = Len(s) + Len(NewEntries(k))
    BY Zenon, <1>1, Concatenation
  <2> QED BY Zenon, <1>1, <2>1, <2>2
<1>3. ASSUME NEW i \in 1 .. Len(t)
      PROVE  t[i] = collected + k - Len(t) + i
  <2>1. CASE i <= Len(s)
    <3>1. t[i] = s[i] /\ i \in 1 .. Len(s)
      BY <1>1, <1>2, <2>1
    <3>2. s[i] = collected - Len(s) + i
      BY Zenon, <3>1 DEF Run
    <3> QED BY <1>2, <3>1, <3>2
  <2>2. CASE i > Len(s)
    <3>1. t[i] = NewEntries(k)[i - Len(s)] /\ i - Len(s) \in 1 .. k
      BY <1>1, <1>2, <2>2
    <3> QED BY <1>1, <1>2, <3>1
  <2> QED BY <1>2, <2>1, <2>2
<1> QED BY <1>2, <1>3 DEF Run

\* Dropping from the front of a run leaves a run.
LEMMA RunShrinks ==
    ASSUME NEW s \in Seq(Nat), NEW n \in Nat, Run(s, n)
    PROVE  Run(EnforceCapacity(s), n)
<1>1. Len(s) \in Nat /\ Len(EnforceCapacity(s)) \in Nat
  BY CapacityEnforced
<1>2. ASSUME NEW i \in 1 .. Len(EnforceCapacity(s))
      PROVE  EnforceCapacity(s)[i] = n - Len(EnforceCapacity(s)) + i
  <2> DEFINE j == Len(s) - Len(EnforceCapacity(s)) + i
  <2>1. j \in 1 .. Len(s) /\ EnforceCapacity(s)[i] = s[j]
    BY <1>1, CapacityEnforced
  <2>2. s[j] = n - Len(s) + j
    BY Zenon, <2>1 DEF Run
  <2> QED BY <1>1, <2>1, <2>2
<1> QED BY Zenon, <1>2 DEF Run

LEMMA RunTail ==
    ASSUME NEW s \in Seq(Nat), NEW n \in Nat, Run(s, n), NEW k \in 0 .. Len(s)
    PROVE  /\ SubSeq(s, k + 1, Len(s)) \in Seq(Nat)
           /\ Len(SubSeq(s, k + 1, Len(s))) = Len(s) - k
           /\ Run(SubSeq(s, k + 1, Len(s)), n)
<1> DEFINE t == SubSeq(s, k + 1, Len(s))
<1>1. /\ Len(s) \in Nat
      /\ t \in Seq(Nat)
      /\ Len(t) = Len(s) - k
      /\ \A i \in 1 .. (Len(s) - k) : t[i] = s[k + i]
  <2>1. Len(s) \in Nat /\ k \in Nat /\ k <= Len(s)
    OBVIOUS
  <2> QED BY Zenon, <2>1, Suffix
<1> HIDE DEF t
<1>2. ASSUME NEW i \in 1 .. Len(t) PROVE t[i] = n - Len(t) + i
  <2>1. k + i \in 1 .. Len(s) /\ t[i] = s[k + i]
    BY <1>1
  <2>2. s[k + i] = n - Len(s) + (k + i)
    BY Zenon, <2>1 DEF Run
  <2> QED BY <1>1, <2>1, <2>2
<1>3. Run(t, n)
  BY Zenon, <1>2 DEF Run
<1> QED BY Zenon, <1>1, <1>3 DEF t

\* One of the two parts of what is held is empty at any time.
LEMMA HeldIsOnePart ==
    ASSUME ForwarderTypeOK, OneGoroutine
    PROVE  /\ Held \in Seq(Nat)
           /\ stage \in {"flush", "final"} => Held = batch
           /\ stage \notin {"flush", "final"} => Held = buffer
BY Zenon, Concatenation, EmptyPart DEF ForwarderTypeOK, OneGoroutine, Held

----------------------------------------------------------------------------
\* In a flush, the chunk is a non-empty part of what is left to send.
LEMMA ChunkProperties ==
    ASSUME ForwarderTypeOK, batch # <<>>
    PROVE  /\ ChunkSize \in 1 .. Len(batch)
           /\ Len(batch) \in Nat
BY SizesAssumption DEF ForwarderTypeOK, ChunkSize

LEMMA HeldInit == ForwarderInit => HeldInv
<1> SUFFICES ASSUME ForwarderInit PROVE HeldInv
  BY Zenon
<1>1. Held = <<>> /\ Len(Held) = 0
  BY DEF ForwarderInit, Held
<1>2. ForwarderTypeOK
  <2>1. /\ stage \in {"collect", "select"} /\ (stage = "collect" => 1 <= Sources)
        /\ 1 \in 1 .. (Sources + 1) /\ 0 \in 0 .. MaxEntries /\ 0 \in 0 .. MaxFaults
    BY SizesAssumption DEF ForwarderInit, AfterSource
  <2>2. <<>> \in Seq(Nat)
    OBVIOUS
  <2> QED BY Zenon, <2>1, <2>2 DEF ForwarderInit, ForwarderTypeOK
<1>3. BufferBounded /\ NewestHeld
  BY <1>1, SizesAssumption DEF BufferBounded, NewestHeld
<1>4. OneGoroutine
  BY Zenon DEF ForwarderInit, OneGoroutine, AfterSource
<1> QED BY Zenon, <1>2, <1>3, <1>4 DEF HeldInv

\* What has to be shown of the next state, with Held' named.
LEMMA HeldIntro ==
    ASSUME NEW s \in Seq(Nat), NEW n \in Nat, Len(s) <= 2 * BatchSize, Run(s, n),
           Held' = s, collected' = n
    PROVE  BufferBounded' /\ NewestHeld'
BY Zenon DEF BufferBounded, NewestHeld, Run

LEMMA CollectStep ==
    ASSUME HeldInv, NEW n \in 0 .. MaxPerCollect, CollectFrom(n)
    PROVE  HeldInv'
<1> USE DEF HeldInv
<1>1. /\ stage = "collect" /\ batch = <<>> /\ batch' = <<>> /\ Held = buffer
      /\ buffer \in Seq(Nat) /\ collected \in Nat /\ n \in Nat
  BY HeldIsOnePart, SizesAssumption DEF CollectFrom, OneGoroutine, ForwarderTypeOK
<1> DEFINE all == buffer \o NewEntries(n)
<1>2. Run(buffer, collected)
  BY Zenon, <1>1 DEF NewestHeld, Run
<1>3. all \in Seq(Nat) /\ Run(all, collected + n)
  BY Zenon, <1>1, <1>2, RunGrows
<1>4. buffer' = EnforceCapacity(all) /\ collected' = collected + n /\ collected' \in Nat
  BY <1>1 DEF CollectFrom
<1> HIDE DEF all
<1>5. buffer' \in Seq(Nat) /\ Len(buffer') <= 2 * BatchSize /\ Run(buffer', collected')
  BY Zenon, <1>1, <1>3, <1>4, CapacityEnforced, RunShrinks
<1>6. Held' = buffer'
  BY <1>1, <1>5 DEF Held
<1>7. BufferBounded' /\ NewestHeld'
  BY Zenon, <1>4, <1>5, <1>6, HeldIntro
<1>8. stage' \in {"collect", "select"} /\ (stage' = "collect" => collector' <= Sources)
      /\ collector' \in 1 .. (Sources + 1)
  BY SMTT(30), SizesAssumption DEF CollectFrom, AfterSource, ForwarderTypeOK
<1>9. ForwarderTypeOK'
  <2>1. collected' \in 0 .. MaxEntries
    BY <1>4, SizesAssumption DEF CollectFrom
  <2> QED BY Zenon, <1>1, <1>5, <1>8, <2>1 DEF CollectFrom, ForwarderTypeOK
<1>10. OneGoroutine'
  BY Zenon, <1>1, <1>8 DEF OneGoroutine
<1> QED BY Zenon, <1>7, <1>9, <1>10

LEMMA SwapStep ==
    ASSUME HeldInv, ReportTick \/ Done
    PROVE  HeldInv' /\ Held' = Held
<1> USE DEF HeldInv
<1>1. /\ stage = "select" /\ batch = <<>> /\ Held = buffer /\ buffer \in Seq(Nat)
      /\ batch' = buffer /\ buffer' = <<>>
      /\ UNCHANGED <<collector, cancelled, collected, faults, received, unanswered>>
      /\ IF buffer = <<>> THEN stage' \in {"select", "stopped"} ELSE stage' \in {"flush", "final"}
  BY Zenon, HeldIsOnePart DEF ReportTick, Done, SwapBuffer, OneGoroutine, ForwarderTypeOK
<1>2. Held' = Held
  BY <1>1 DEF Held
<1>3. ForwarderTypeOK'
  BY Zenon, <1>1 DEF ForwarderTypeOK
<1>4. OneGoroutine'
  BY Zenon, <1>1 DEF OneGoroutine
<1>5. BufferBounded' /\ NewestHeld'
  BY Zenon, <1>1, <1>2 DEF BufferBounded, NewestHeld
<1> QED BY Zenon, <1>2, <1>3, <1>4, <1>5

LEMMA ReportStep ==
    ASSUME HeldInv, Report
    PROVE  /\ HeldInv'
           /\ Held = batch
           /\ Held' = SubSeq(Held, ChunkSize + 1, Len(Held))
<1> USE DEF HeldInv
<1>1. /\ stage \in {"flush", "final"} /\ buffer = <<>> /\ batch # <<>> /\ Held = batch
      /\ batch \in Seq(Nat) /\ collected \in Nat
  BY HeldIsOnePart, SizesAssumption DEF Report, OneGoroutine, ForwarderTypeOK
<1>2. ChunkSize \in 0 .. Len(batch) /\ ChunkSize > 0 /\ Len(batch) \in Nat
  BY <1>1, ChunkProperties
<1>3. Run(batch, collected)
  BY Zenon, <1>1 DEF NewestHeld, Run
<1> DEFINE rest == SubSeq(batch, ChunkSize + 1, Len(batch))
<1>4. rest \in Seq(Nat) /\ Len(rest) = Len(batch) - ChunkSize /\ Run(rest, collected)
  <2> HIDE DEF rest
  <2> DEFINE k == ChunkSize
  <2>1. k \in 0 .. Len(batch)
    BY Zenon, <1>2
  <2> HIDE DEF k
  <2> QED BY Zenon, <1>1, <1>3, <2>1, RunTail DEF k, rest
<1>5. batch' = rest /\ buffer' = <<>> /\ collected' = collected
  BY Zenon, <1>1 DEF Report, Unsent
<1> HIDE DEF rest
<1>6. Held' = rest
  BY <1>4, <1>5 DEF Held
<1>7. Len(rest) <= 2 * BatchSize
  BY <1>1, <1>2, <1>4, SizesAssumption DEF BufferBounded
<1>8. BufferBounded' /\ NewestHeld'
  BY Zenon, <1>1, <1>4, <1>5, <1>6, <1>7, HeldIntro
<1>9. Chunk \in Seq(Nat)
  <2>1. \A i \in 1 .. ChunkSize : batch[i] \in Nat
    BY <1>1, <1>2
  <2>2. ChunkSize \in Int
    BY <1>2
  <2> QED BY <2>1, <2>2 DEF Chunk
<1>10. received' \in Seq(Nat)
  BY <1>9 DEF Report, ForwarderTypeOK
<1>11. IF batch' = <<>> THEN stage' \in {"select", "stopped"} ELSE stage' = stage
  BY Zenon DEF Report, AfterFlush
<1>12. ForwarderTypeOK'
  BY Zenon, <1>1, <1>4, <1>5, <1>10, <1>11 DEF Report, ForwarderTypeOK
<1>13. OneGoroutine'
  BY Zenon, <1>1, <1>5, <1>11 DEF OneGoroutine
<1>14. Held' = SubSeq(Held, ChunkSize + 1, Len(Held))
  BY Zenon, <1>1, <1>6 DEF rest
<1> QED BY Zenon, <1>1, <1>8, <1>12, <1>13, <1>14

LEMMA ReportFailsStep ==
    ASSUME HeldInv, NEW arrived \in BOOLEAN, ReportFails(arrived)
    PROVE  HeldInv' /\ Held = batch /\ Held' = Held
<1> USE DEF HeldInv
<1>1. /\ stage \in {"flush", "final"} /\ buffer = <<>> /\ batch # <<>> /\ Held = batch
      /\ batch \in Seq(Nat) /\ Len(batch) <= 2 * BatchSize
  BY Zenon, HeldIsOnePart DEF ReportFails, OneGoroutine, ForwarderTypeOK, BufferBounded
<1>2. batch \o buffer = batch
  BY <1>1
<1>3. buffer' = batch /\ batch' = <<>>
  BY Zenon, <1>1, <1>2, CapacityEnforced DEF ReportFails, Retain
<1>4. Held' = Held
  BY <1>1, <1>3 DEF Held
<1>5. stage' \in {"select", "stopped"} /\ UNCHANGED <<collector, cancelled, collected>>
  BY Zenon DEF ReportFails, AfterFlush
<1>6. BufferBounded' /\ NewestHeld'
  BY Zenon, <1>4, <1>5 DEF BufferBounded, NewestHeld
<1>7. Chunk \in Seq(Nat)
  <2>1. ChunkSize \in 1 .. Len(batch) /\ Len(batch) \in Nat
    BY Zenon, <1>1, ChunkProperties
  <2>2. ChunkSize \in Int /\ \A i \in 1 .. ChunkSize : batch[i] \in Nat
    BY <1>1, <2>1
  <2> QED BY <2>2 DEF Chunk
<1>8. received' \in Seq(Nat)
  BY <1>7 DEF ReportFails, ForwarderTypeOK
<1>9. unanswered' \in Nat
  BY DEF ReportFails, ForwarderTypeOK
<1>10. faults' \in 0 .. MaxFaults
  <2>1. faults' = faults \/ (faults < MaxFaults /\ faults' = faults + 1)
    BY Zenon DEF ReportFails
  <2> QED BY <2>1, SizesAssumption DEF ForwarderTypeOK
<1>11. ForwarderTypeOK'
  BY Zenon, <1>1, <1>3, <1>5, <1>8, <1>9, <1>10 DEF ForwarderTypeOK
<1>12. OneGoroutine'
  BY Zenon, <1>3, <1>5 DEF OneGoroutine
<1> QED BY Zenon, <1>1, <1>4, <1>6, <1>11, <1>12

\* Cancel, SourceFails and CollectTick do not touch what is held.
LEMMA OtherStep ==
    ASSUME HeldInv, Cancel \/ SourceFails \/ CollectTick \/ UNCHANGED forwarderVars
    PROVE  HeldInv' /\ Held' = Held /\ received' = received
<1> USE DEF HeldInv
<1>1. UNCHANGED <<buffer, batch, collected, received, unanswered>>
  BY Zenon DEF Cancel, SourceFails, CollectTick, forwarderVars
<1>2. Held' = Held
  BY Zenon, <1>1 DEF Held
<1>3. BufferBounded' /\ NewestHeld'
  BY Zenon, <1>1, <1>2 DEF BufferBounded, NewestHeld
<1>4. CASE Cancel
  BY Zenon, <1>1, <1>2, <1>3, <1>4 DEF Cancel, ForwarderTypeOK, OneGoroutine
<1>5. CASE SourceFails
  <2>1. stage = "collect" /\ stage' \in {"collect", "select"} /\ (stage' = "collect" => collector' <= Sources)
        /\ collector' \in 1 .. (Sources + 1) /\ faults' \in 0 .. MaxFaults
    BY SMTT(30), <1>5, SizesAssumption DEF SourceFails, AfterSource, ForwarderTypeOK
  <2> QED BY Zenon, <1>1, <1>2, <1>3, <1>5, <2>1 DEF SourceFails, ForwarderTypeOK, OneGoroutine
<1>6. CASE CollectTick
  <2>1. stage = "select" /\ stage' \in {"collect", "select"} /\ (stage' = "collect" => collector' <= Sources)
        /\ collector' \in 1 .. (Sources + 1)
    BY SMTT(30), <1>6, SizesAssumption DEF CollectTick, AfterSource, ForwarderTypeOK
  <2> QED BY Zenon, <1>1, <1>2, <1>3, <1>6, <2>1 DEF CollectTick, ForwarderTypeOK, OneGoroutine
<1>7. CASE UNCHANGED forwarderVars
  BY Zenon, <1>2, <1>3, <1>7 DEF forwarderVars, ForwarderTypeOK, OneGoroutine
<1> QED BY Zenon, <1>4, <1>5, <1>6, <1>7

LEMMA HeldStep == HeldInv /\ [ForwarderNext]_forwarderVars => HeldInv'
BY Zenon, CollectStep, SwapStep, ReportStep, ReportFailsStep, OtherStep DEF ForwarderNext

\* Types, the bound, the newest run and the single goroutine together are an
\* inductive invariant of the forwarders' loop.
THEOREM HeldInvariant == ForwarderSpec => []HeldInv
BY HeldInit, HeldStep, PTL DEF ForwarderSpec

\* At most 2 * BatchSize entries are ever in memory, whatever fails.
THEOREM MemoryIsBounded == ForwarderSpec => []BufferBounded
<1>1. HeldInv => BufferBounded
  BY Zenon DEF HeldInv
<1> QED BY <1>1, HeldInvariant, PTL

\* What is held is always the newest run of entries, without a gap.
THEOREM NewestAlwaysHeld == ForwarderSpec => []NewestHeld
<1>1. HeldInv => NewestHeld
  BY Zenon DEF HeldInv
<1> QED BY <1>1, HeldInvariant, PTL

----------------------------------------------------------------------------
(* The forwarder implements the lossy queue.                               *)

\* EnforceCapacity is the queue's KeepNewest.
LEMMA CapacityIsKeepNewest ==
    ASSUME NEW s
    PROVE  EnforceCapacity(s) = Queue!KeepNewest(s, 2 * BatchSize)
BY Zenon DEF EnforceCapacity, Queue!KeepNewest

LEMMA CollectEnqueues ==
    ASSUME HeldInv, NEW n \in 0 .. MaxPerCollect, CollectFrom(n)
    PROVE  Queue!QueueNext
<1>1. HeldInv'
  BY Zenon, CollectStep
<1>2. /\ stage = "collect" /\ Held = buffer /\ batch' = <<>> /\ buffer' \in Seq(Nat)
      /\ received' = received
  BY Zenon, <1>1, HeldIsOnePart DEF CollectFrom, HeldInv, ForwarderTypeOK, OneGoroutine
<1>3. Held' = buffer'
  BY <1>2 DEF Held
<1>4. buffer' = Queue!KeepNewest(Held \o NewEntries(n), 2 * BatchSize)
  BY Zenon, <1>2, CapacityIsKeepNewest DEF CollectFrom
<1>5. Queue!Enqueue(n)
  BY Zenon, <1>2, <1>3, <1>4 DEF Queue!Enqueue, NewEntries, CollectFrom
<1> QED BY Zenon, <1>5 DEF Queue!QueueNext

LEMMA ReportDelivers ==
    ASSUME HeldInv, Report
    PROVE  Queue!QueueNext
<1>1. Held = batch /\ Held' = SubSeq(Held, ChunkSize + 1, Len(Held))
  BY Zenon, ReportStep
<1>2. ChunkSize \in 1 .. Len(Held)
  BY Zenon, <1>1, ChunkProperties DEF Report, HeldInv, OneGoroutine
<1>3. received' = received \o SubSeq(Held, 1, ChunkSize)
  BY Zenon, <1>1 DEF Report, Chunk
<1>4. Queue!Deliver(ChunkSize)
  BY Zenon, <1>1, <1>3 DEF Queue!Deliver, Report
<1> QED BY Zenon, <1>2, <1>4 DEF Queue!QueueNext

LEMMA FailureDeliversOrStutters ==
    ASSUME HeldInv, NEW arrived \in BOOLEAN, ReportFails(arrived)
    PROVE  Queue!QueueNext \/ UNCHANGED <<collected, Held, received>>
<1>1. Held = batch /\ Held' = Held
  BY Zenon, ReportFailsStep
<1>2. CASE ~ arrived
  BY Zenon, <1>1, <1>2 DEF ReportFails
<1>3. CASE arrived
  <2>1. ChunkSize \in 1 .. Len(Held)
    BY Zenon, <1>1, ChunkProperties DEF ReportFails, HeldInv, OneGoroutine
  <2>2. received' = received \o SubSeq(Held, 1, ChunkSize)
    BY Zenon, <1>1, <1>3 DEF ReportFails, Chunk
  <2>3. Queue!Deliver(ChunkSize)
    BY Zenon, <1>1, <2>2 DEF Queue!Deliver, ReportFails
  <2> QED BY Zenon, <2>1, <2>3 DEF Queue!QueueNext
<1> QED BY Zenon, <1>2, <1>3

\* The collect-and-report loop implements the lossy queue: it delivers from
\* the front, in order, and gives up entries only to capacity.
THEOREM ForwarderImplementsQueue == ForwarderSpec => ImplementsQueue
<1>1. ForwarderInit => Queue!QueueInit
  <2> SUFFICES ASSUME ForwarderInit PROVE collected = 0 /\ Held = <<>> /\ received = <<>>
    BY Zenon DEF Queue!QueueInit
  <2> QED BY DEF ForwarderInit, Held
<1>2. HeldInv /\ [ForwarderNext]_forwarderVars => [Queue!QueueNext]_(Queue!queueVars)
  <2> SUFFICES ASSUME HeldInv, [ForwarderNext]_forwarderVars
               PROVE  Queue!QueueNext \/ UNCHANGED <<collected, Held, received>>
    BY Zenon DEF Queue!queueVars
  <2>1. ASSUME NEW n \in 0 .. MaxPerCollect, CollectFrom(n) PROVE Queue!QueueNext
    BY Zenon, <2>1, CollectEnqueues
  <2>2. CASE Cancel \/ SourceFails \/ CollectTick \/ UNCHANGED forwarderVars
    BY ZenonT(30), <2>2, OtherStep DEF Cancel, SourceFails, CollectTick, forwarderVars
  <2>3. CASE ReportTick \/ Done
    BY Zenon, <2>3, SwapStep DEF ReportTick, Done, SwapBuffer
  <2>4. CASE Report
    BY Zenon, <2>4, ReportDelivers
  <2>5. ASSUME NEW arrived \in BOOLEAN, ReportFails(arrived)
        PROVE  Queue!QueueNext \/ UNCHANGED <<collected, Held, received>>
    BY Zenon, <2>5, FailureDeliversOrStutters
  <2> QED BY Zenon, <2>1, <2>2, <2>3, <2>4, <2>5 DEF ForwarderNext
<1> QED BY <1>1, <1>2, HeldInvariant, PTL DEF ForwarderSpec, ImplementsQueue, Queue!QueueSpec

----------------------------------------------------------------------------
(* Where every collected entry is.                                         *)

\* The number of the newest entry that has left the forwarder.
Gone == collected - Len(Held)

\* An entry that has left was received, or lost to overflow; and as long as no
\* answer was lost, the received ones are in order and all older than what is held.
AccountInv ==
    /\ \A e \in 1 .. collected : e <= Gone => e \in Range(received) \/ e <= collected - 2 * BatchSize
    /\ unanswered = 0 => \A i \in 1 .. Len(received) : received[i] <= Gone
    /\ InOrderOnce

LEMMA Appended ==
    ASSUME NEW s \in Seq(Nat), NEW t \in Seq(Nat)
    PROVE  /\ s \o t \in Seq(Nat) /\ Len(s \o t) = Len(s) + Len(t)
           /\ Len(s) \in Nat /\ Len(t) \in Nat
           /\ \A i \in 1 .. Len(s) : (s \o t)[i] = s[i]
           /\ \A i \in 1 .. Len(t) : (s \o t)[Len(s) + i] = t[i]
           /\ Range(s) \subseteq Range(s \o t)
           /\ \A i \in 1 .. Len(t) : t[i] \in Range(s \o t)
<1> DEFINE u == s \o t
<1>1. u \in Seq(Nat) /\ Len(u) = Len(s) + Len(t)
      /\ \A i \in 1 .. (Len(s) + Len(t)) : u[i] = IF i <= Len(s) THEN s[i] ELSE t[i - Len(s)]
  OBVIOUS
<1>2. Len(s) \in Nat /\ Len(t) \in Nat /\ DOMAIN s = 1 .. Len(s) /\ DOMAIN u = 1 .. Len(u)
  BY <1>1
<1> HIDE DEF u
<1>3. ASSUME NEW i \in 1 .. Len(s) PROVE u[i] = s[i] /\ i \in DOMAIN u
  <2>1. i \in 1 .. (Len(s) + Len(t)) /\ i <= Len(s)
    BY <1>2
  <2> QED BY Zenon, <1>1, <1>2, <2>1
<1>4. ASSUME NEW i \in 1 .. Len(t) PROVE u[Len(s) + i] = t[i] /\ Len(s) + i \in DOMAIN u
  <2>1. /\ Len(s) + i \in 1 .. (Len(s) + Len(t)) /\ ~ (Len(s) + i <= Len(s))
        /\ (Len(s) + i) - Len(s) = i
    BY <1>2
  <2> QED BY Zenon, <1>1, <1>2, <2>1
<1>5. Range(s) \subseteq Range(u)
  BY Zenon, <1>2, <1>3 DEF Range
<1>6. \A i \in 1 .. Len(t) : t[i] \in Range(u)
  BY Zenon, <1>4 DEF Range
<1> QED BY Zenon, <1>1, <1>2, <1>3, <1>4, <1>5, <1>6 DEF u

\* Nothing that has left is touched when what is held stays.
LEMMA StillAccounted ==
    ASSUME AccountInv, UNCHANGED <<collected, Held, received, unanswered>>
    PROVE  AccountInv'
BY Zenon DEF AccountInv, Gone, InOrderOnce

LEMMA CollectAccounted ==
    ASSUME HeldInv, AccountInv, NEW n \in 0 .. MaxPerCollect, CollectFrom(n)
    PROVE  AccountInv'
<1>1. /\ stage = "collect" /\ batch = <<>> /\ batch' = <<>> /\ Held = buffer
      /\ buffer \in Seq(Nat) /\ collected \in Nat /\ n \in Nat /\ Len(buffer) \in Nat
      /\ received \in Seq(Nat) /\ Len(buffer) <= 2 * BatchSize
  BY HeldIsOnePart, SizesAssumption DEF CollectFrom, OneGoroutine, ForwarderTypeOK, HeldInv, BufferBounded
<1> DEFINE all == buffer \o NewEntries(n)
<1>2. NewEntries(n) \in Seq(Nat) /\ Len(NewEntries(n)) = n
  <2>1. NewEntries(n) \in [1 .. n -> Nat] /\ DOMAIN NewEntries(n) = 1 .. n
    BY <1>1 DEF NewEntries
  <2>2. NewEntries(n) \in Seq(Nat)
    BY <1>1, <2>1
  <2> QED BY <1>1, <2>1, <2>2
<1>3. all \in Seq(Nat) /\ Len(all) = Len(buffer) + n
  BY ZenonT(30), <1>1, <1>2, Concatenation
<1>4. /\ buffer' = EnforceCapacity(all) /\ collected' = collected + n
      /\ UNCHANGED <<received, unanswered>>
  BY Zenon DEF CollectFrom
<1> HIDE DEF all
<1>5. /\ buffer' \in Seq(Nat) /\ Len(buffer') \in Nat
      /\ \/ Len(buffer') = Len(buffer) + n
         \/ Len(buffer') = 2 * BatchSize /\ Len(buffer) + n > 2 * BatchSize
  <2> DEFINE kept == EnforceCapacity(all)
  <2>1. /\ kept \in Seq(Nat)
        /\ Len(all) <= 2 * BatchSize => kept = all
        /\ Len(all) > 2 * BatchSize => Len(kept) = 2 * BatchSize
    BY Zenon, <1>3, CapacityEnforced
  <2> HIDE DEF kept
  <2>2. Len(kept) \in Nat
    BY <2>1
  <2>3. Len(kept) = Len(buffer) + n \/ (Len(kept) = 2 * BatchSize /\ Len(buffer) + n > 2 * BatchSize)
    BY <1>1, <1>3, <2>1, <2>2, SizesAssumption
  <2>4. buffer' = kept
    BY Zenon, <1>4 DEF kept
  <2> QED BY Zenon, <2>1, <2>2, <2>3, <2>4
<1>6. Held' = buffer'
  BY <1>1, <1>5 DEF Held
<1>7. Gone = collected - Len(buffer) /\ Gone' = collected + n - Len(buffer')
  BY <1>1, <1>4, <1>6 DEF Gone
<1>8. Gone \in Int /\ Gone' \in Int /\ Gone <= Gone'
      /\ (Gone' = Gone \/ Gone' = collected' - 2 * BatchSize)
  <2> DEFINE b == Len(buffer)  c == Len(buffer')
  <2>1. /\ b \in Nat /\ c \in Nat /\ b <= 2 * BatchSize /\ 2 * BatchSize \in Nat
        /\ c = b + n \/ (c = 2 * BatchSize /\ b + n > 2 * BatchSize)
        /\ Gone = collected - b /\ Gone' = collected + n - c /\ collected' = collected + n
    BY <1>1, <1>4, <1>5, <1>7, SizesAssumption
  <2> HIDE DEF b, c
  <2> QED BY SMTT(30), <1>1, <2>1, SizesAssumption
<1>9. ASSUME NEW e \in 1 .. collected', e <= Gone'
      PROVE  e \in Range(received) \/ e <= collected' - 2 * BatchSize
  <2>1. CASE Gone' = collected' - 2 * BatchSize
    BY Zenon, <1>8, <1>9, <2>1
  <2>2. CASE Gone' = Gone
    <3>1. e \in 1 .. collected /\ e <= Gone
      BY <1>1, <1>4, <1>7, <1>9, <2>2
    <3> QED BY SMTT(30), <1>1, <1>4, <3>1, SizesAssumption DEF AccountInv
  <2> QED BY Zenon, <1>8, <2>1, <2>2
<1>10. ASSUME unanswered = 0, NEW i \in 1 .. Len(received)
       PROVE  received[i] <= Gone'
  <2>1. received[i] \in Nat /\ received[i] <= Gone
    BY <1>1, <1>10 DEF AccountInv
  <2> QED BY <1>8, <2>1
<1> QED BY Zenon, <1>4, <1>9, <1>10 DEF AccountInv, InOrderOnce

\* The chunk of a report is the oldest part of what is held.
LEMMA ChunkIsOldest ==
    ASSUME HeldInv, stage \in {"flush", "final"}
    PROVE  /\ Chunk \in Seq(Nat) /\ Len(Chunk) = ChunkSize /\ Held = batch
           /\ ChunkSize \in 1 .. Len(Held) /\ Len(Held) \in Nat /\ collected \in Nat
           /\ received \in Seq(Nat) /\ Gone \in Int
           /\ \A i \in 1 .. ChunkSize : Chunk[i] = Gone + i
<1>1. /\ batch # <<>> /\ Held = batch /\ batch \in Seq(Nat) /\ collected \in Nat
      /\ received \in Seq(Nat)
  BY HeldIsOnePart, SizesAssumption DEF OneGoroutine, ForwarderTypeOK, HeldInv
<1>2. ChunkSize \in 1 .. Len(batch) /\ Len(batch) \in Nat
  BY Zenon, <1>1, ChunkProperties DEF HeldInv
<1> DEFINE k == ChunkSize
<1>3. k \in 1 .. Len(batch) /\ Chunk = SubSeq(batch, 1, k)
  BY Zenon, <1>2 DEF Chunk
<1> HIDE DEF k
<1>4. /\ Chunk \in Seq(Nat) /\ Len(Chunk) = k
      /\ \A i \in 1 .. k : Chunk[i] = batch[i]
  <2>1. \A i \in 1 .. k : batch[i] \in Nat
    BY <1>1, <1>2, <1>3
  <2>2. k \in Int /\ 1 <= k
    BY <1>2, <1>3
  <2>3. /\ SubSeq(batch, 1, k) \in Seq(Nat)
        /\ Len(SubSeq(batch, 1, k)) = IF 1 <= k THEN k - 1 + 1 ELSE 0
        /\ \A i \in 1 .. (k - 1 + 1) : SubSeq(batch, 1, k)[i] = batch[1 + i - 1]
    BY <2>1, <2>2
  <2> QED BY <1>3, <2>2, <2>3
<1>5. ASSUME NEW i \in 1 .. k PROVE Chunk[i] = Gone + i
  <2>1. i \in 1 .. Len(Held)
    BY <1>1, <1>2, <1>3
  <2> QED BY Zenon, <1>1, <1>2, <1>4, <2>1 DEF HeldInv, NewestHeld, Gone
<1> QED BY SMTT(30), <1>1, <1>2, <1>4, <1>5 DEF k, Gone

LEMMA ReportAccounted ==
    ASSUME HeldInv, AccountInv, Report
    PROVE  AccountInv'
<1>1. stage \in {"flush", "final"} /\ received' = received \o Chunk /\ UNCHANGED <<collected, unanswered>>
  BY Zenon DEF Report
<1> DEFINE k == ChunkSize
<1>2. /\ Chunk \in Seq(Nat) /\ Len(Chunk) = k
      /\ k \in 1 .. Len(Held) /\ Len(Held) \in Nat /\ collected \in Nat
      /\ received \in Seq(Nat) /\ Gone \in Int
      /\ \A i \in 1 .. k : Chunk[i] = Gone + i
  BY Zenon, <1>1, ChunkIsOldest
<1>3. Gone' = Gone + k
  <2>1. Held' = SubSeq(Held, k + 1, Len(Held))
    BY Zenon, ReportStep
  <2>2. Held \in Seq(Nat) /\ k \in Nat /\ k <= Len(Held)
    BY <1>2, HeldIsOnePart DEF HeldInv
  <2> HIDE DEF k
  <2>3. Len(SubSeq(Held, k + 1, Len(Held))) = Len(Held) - k
    BY Zenon, <2>2, Suffix
  <2>4. Len(Held)' = Len(Held) - k
    BY Zenon, <2>1, <2>3
  <2> QED BY <1>1, <1>2, <2>4 DEF Gone
<1> DEFINE m == Len(received)
<1>4. /\ Len(received') = m + k /\ m \in Nat /\ k \in Nat
      /\ \A i \in 1 .. m : received'[i] = received[i]
      /\ \A i \in 1 .. k : received'[m + i] = Gone + i
      /\ Range(received) \subseteq Range(received')
      /\ \A i \in 1 .. k : Gone + i \in Range(received')
  BY ZenonT(30), <1>1, <1>2, Appended
<1>5. \A i \in 1 .. m : received[i] \in Nat
  BY <1>2
<1> HIDE DEF k, m
<1>6. ASSUME NEW e \in 1 .. collected', e <= Gone'
      PROVE  e \in Range(received)' \/ e <= collected' - 2 * BatchSize
  <2>1. CASE e <= Gone
    BY Zenon, <1>1, <1>4, <2>1 DEF AccountInv
  <2>2. CASE e > Gone
    <3>1. e - Gone \in 1 .. k /\ Gone + (e - Gone) = e
      BY SMTT(30), <1>1, <1>2, <1>3, <1>4, <1>6, <2>2
    <3>2. Gone + (e - Gone) \in Range(received')
      BY Zenon, <1>4, <3>1
    <3> QED BY Zenon, <3>1, <3>2
  <2> QED BY SMTT(30), <1>2, <2>1, <2>2
<1>7. ASSUME unanswered = 0
      PROVE  /\ \A i \in 1 .. Len(received') : received'[i] <= Gone'
             /\ \A i, j \in 1 .. Len(received') : i < j => received'[i] < received'[j]
  <2>1. ASSUME NEW i \in 1 .. (m + k)
        PROVE  \/ i \in 1 .. m /\ received'[i] = received[i] /\ received[i] \in Nat /\ received[i] <= Gone
               \/ i > m /\ received'[i] = Gone + (i - m) /\ i - m \in 1 .. k
    <3>1. CASE i <= m
      BY <1>4, <1>5, <1>7, <3>1 DEF AccountInv, m
    <3>2. CASE i > m
      <4>1. i - m \in 1 .. k /\ m + (i - m) = i
        BY <1>4, <3>2
      <4>2. received'[m + (i - m)] = Gone + (i - m)
        BY Zenon, <1>4, <4>1
      <4> QED BY Zenon, <3>2, <4>1, <4>2
    <3> QED BY SMTT(30), <1>4, <3>1, <3>2
  <2> DEFINE g == Gone
  <2>a. g \in Int /\ m \in Nat /\ k \in Nat /\ Gone' = g + k
    BY Zenon, <1>2, <1>3, <1>4
  <2>b. ASSUME NEW i \in 1 .. (m + k)
        PROVE  \/ i <= m /\ received'[i] \in Nat /\ received'[i] <= g
               \/ i > m /\ received'[i] = g + (i - m)
    BY <2>1
  <2> HIDE DEF g
  <2>2. ASSUME NEW i \in 1 .. (m + k) PROVE received'[i] <= Gone'
    <3>1. CASE i <= m /\ received'[i] \in Nat /\ received'[i] <= g
      BY <2>a, <3>1
    <3>2. CASE i > m /\ received'[i] = g + (i - m)
      BY <2>a, <3>2
    <3> QED BY Zenon, <2>b, <3>1, <3>2
  <2>3. ASSUME NEW i \in 1 .. (m + k), NEW j \in 1 .. (m + k), i < j
        PROVE  received'[i] < received'[j]
    <3>1. CASE i \in 1 .. m /\ j \in 1 .. m
      BY Zenon, <1>4, <1>7, <2>3, <3>1 DEF AccountInv, InOrderOnce, m
    <3>2. CASE i > m \/ j > m
      <4>1. j > m /\ received'[j] = g + (j - m)
        BY <2>a, <2>b, <2>3, <3>2
      <4>2. CASE i <= m /\ received'[i] \in Nat /\ received'[i] <= g
        BY <2>a, <4>1, <4>2
      <4>3. CASE i > m /\ received'[i] = g + (i - m)
        BY <2>a, <2>3, <4>1, <4>3
      <4> QED BY Zenon, <2>b, <4>2, <4>3
    <3> QED BY SMTT(30), <1>4, <3>1, <3>2
  <2> QED BY Zenon, <1>4, <2>2, <2>3
<1> QED BY Zenon, <1>1, <1>6, <1>7 DEF AccountInv, InOrderOnce

\* A report whose call fails leaves everything held; if it arrived, the chunk is
\* received and will be sent again.
LEMMA FailureAccounted ==
    ASSUME HeldInv, AccountInv, NEW arrived \in BOOLEAN, ReportFails(arrived)
    PROVE  AccountInv'
<1>1. stage \in {"flush", "final"} /\ collected' = collected /\ Held' = Held
  BY Zenon, ReportFailsStep DEF ReportFails
<1>2. CASE ~ arrived
  BY Zenon, <1>1, <1>2, StillAccounted DEF ReportFails
<1>3. CASE arrived
  <2>1. Range(received) \subseteq Range(received')
    BY Zenon, <1>1, <1>3, ChunkIsOldest, Appended DEF ReportFails
  <2>2. unanswered' # 0
    BY <1>3 DEF ReportFails, HeldInv, ForwarderTypeOK
  <2>3. Gone' = Gone
    BY Zenon, <1>1 DEF Gone
  <2> QED BY Zenon, <1>1, <2>1, <2>2, <2>3 DEF AccountInv, InOrderOnce
<1> QED BY Zenon, <1>2, <1>3

\* Entries are held within the bound, lost by overflow alone and received in
\* order and once: however reports fail, are answered too late or not at all.
THEOREM EntriesAccountedFor == ForwarderSpec => []Accounted
<1>1. ForwarderInit => AccountInv
  <2> SUFFICES ASSUME ForwarderInit PROVE AccountInv
    BY Zenon
  <2>1. collected = 0 /\ received = <<>> /\ Len(received) = 0
    BY Zenon DEF ForwarderInit
  <2> QED BY <2>1 DEF AccountInv, InOrderOnce
<1>2. HeldInv /\ AccountInv /\ [ForwarderNext]_forwarderVars => AccountInv'
  <2> SUFFICES ASSUME HeldInv, AccountInv, [ForwarderNext]_forwarderVars PROVE AccountInv'
    BY Zenon
  <2>1. CASE Cancel \/ SourceFails \/ CollectTick \/ UNCHANGED forwarderVars
    BY ZenonT(30), <2>1, OtherStep, StillAccounted DEF Cancel, SourceFails, CollectTick, forwarderVars
  <2>2. CASE ReportTick \/ Done
    BY Zenon, <2>2, SwapStep, StillAccounted DEF ReportTick, Done, SwapBuffer
  <2> QED BY Zenon, <2>1, <2>2, CollectAccounted, ReportAccounted, FailureAccounted DEF ForwarderNext
<1>3. HeldInv /\ AccountInv => Accounted
  <2> SUFFICES ASSUME HeldInv, AccountInv PROVE OnlyOverflowLoses
    BY Zenon DEF HeldInv, AccountInv, Accounted
  <2> SUFFICES ASSUME NEW e \in 1 .. collected, e > Gone PROVE e \in Range(Held)
    BY SMTT(30), SizesAssumption DEF AccountInv, OnlyOverflowLoses, Gone, HeldInv, ForwarderTypeOK
  <2>1. Held \in Seq(Nat) /\ collected \in Nat /\ Len(Held) \in Nat /\ DOMAIN Held = 1 .. Len(Held)
    BY HeldIsOnePart, SizesAssumption DEF HeldInv, ForwarderTypeOK
  <2>2. e - Gone \in 1 .. Len(Held) /\ collected - Len(Held) + (e - Gone) = e
    BY <2>1 DEF Gone
  <2>3. Held[e - Gone] = e
    BY Zenon, <2>1, <2>2 DEF HeldInv, NewestHeld
  <2> QED BY Zenon, <2>1, <2>2, <2>3 DEF Range
<1> QED BY <1>1, <1>2, <1>3, HeldInvariant, PTL DEF ForwarderSpec

=============================================================================
