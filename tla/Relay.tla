------------------------------- MODULE Relay -------------------------------
(***************************************************************************)
(* The relay of a bridge node (internal/bridge/relay.go, relay_handler.go):*)
(* one UDP socket, a dispatch loop that looks up the session of a packet's *)
(* source address and forwards the packet to the session's other endpoint, *)
(* sessions added and removed by events and by the reconcile handler, and  *)
(* one TTL timer per session whose callback removes the session by its ID. *)
(*                                                                         *)
(* Sessions are numbered in the order in which they are added, so that two *)
(* sessions with one ID are told apart.  Critical sections of Relay.mu are *)
(* steps; closing a session happens after the lock is released.  Timers    *)
(* fire at any time (TTLs and ExpiresAt only say when).                    *)
(***************************************************************************)
EXTENDS Naturals, FiniteSets

CONSTANTS
    RelayID,          \* session IDs
    Addr,             \* addresses
    PeerPair,         \* pairs of endpoints that the control plane assigns
    MaxRelaySessions, \* maxSessions
    MaxAdded,         \* bound: sessions added
    MaxRelayCycles    \* bound: reconciliation cycles

ASSUME RelayAssumption ==
    /\ PeerPair \subseteq Addr \X Addr
    /\ MaxRelaySessions \in Nat /\ MaxAdded \in Nat /\ MaxRelayCycles \in Nat

Number == 1..MaxAdded
NoSession == 0

VARIABLES
    relayActive,  \* Relay.active
    relayStarted, \* Start was called
    socket,       \* the UDP socket is open
    relaySessions,\* Relay.sessions: ID -> number, or NoSession
    info,         \* number -> ID and endpoints of the session added
    addrIndex,    \* Relay.addrIndex: address -> number, or NoSession
    ttl,          \* number -> its timer: "none", "armed", "fired", "over"
    unclosed,     \* sessions taken out of the map, Close still to be called
    closedRelay,  \* sessions with closed = TRUE
    packet,       \* the dispatch loop: the packet at hand
    relayCycle    \* the reconcile handler: stale and missing session IDs

relayVars == <<relayActive, relayStarted, socket, relaySessions, info, addrIndex, ttl,
               unclosed, closedRelay, packet, relayCycle>>

NoPacket == [at |-> "read"]
LoopGone == [at |-> "gone"]

RelayInit ==
    /\ relayActive = FALSE /\ relayStarted = FALSE /\ socket = FALSE
    /\ relaySessions = [id \in RelayID |-> NoSession]
    /\ info = <<>>
    /\ addrIndex = [a \in Addr |-> NoSession]
    /\ ttl = [n \in Number |-> "none"]
    /\ unclosed = {} /\ closedRelay = {}
    /\ packet = LoopGone
    /\ relayCycle = [n |-> 0, stale |-> {}, missing |-> {}]

Live == {relaySessions[id] : id \in RelayID} \ {NoSession}
Endpoints(n) == {info[n].a, info[n].b}

----------------------------------------------------------------------------
(* Sessions *)

Index(n, a, b) == [addrIndex EXCEPT ![a] = n, ![b] = n]

\* AddSession: refused for equal endpoints, a duplicate ID or a full table.
\* There is no check that the relay is active.
AddSession(id, pair) ==
    LET n == Cardinality(DOMAIN info) + 1
        a == pair[1]
        b == pair[2]
    IN  /\ n <= MaxAdded
        /\ a # b
        /\ relaySessions[id] = NoSession
        /\ Cardinality(Live) < MaxRelaySessions
        /\ info' = [m \in 1..n |-> IF m = n THEN [id |-> id, a |-> a, b |-> b] ELSE info[m]]
        /\ relaySessions' = [relaySessions EXCEPT ![id] = n]
        /\ addrIndex' = Index(n, a, b)
        /\ ttl' = [ttl EXCEPT ![n] = "armed"]
        /\ UNCHANGED <<relayActive, relayStarted, socket, unclosed, closedRelay, packet>>

\* timer.Stop has no effect on a timer that has fired.
Disarm(n) == IF ttl[n] = "armed" THEN "over" ELSE ttl[n]

\* Mutant: the index keeps the address of the second endpoint.
UnindexFirst(n) == [a \in Addr |-> IF a = info[n].a THEN NoSession ELSE addrIndex[a]]

\* Both endpoints leave the index, whichever session they lead to.
Unindex(n) == [a \in Addr |-> IF a \in Endpoints(n) THEN NoSession ELSE addrIndex[a]]

\* The critical section of RemoveSession; timers are those after it, given what
\* they were (the callback's own has fired).
RemoveSession(id, timers) ==
    LET n == relaySessions[id]
    IN  /\ IF n = NoSession
           THEN ttl' = timers /\ UNCHANGED <<relaySessions, addrIndex, unclosed>>
           ELSE /\ relaySessions' = [relaySessions EXCEPT ![id] = NoSession]
                /\ addrIndex' = Unindex(n)
                /\ ttl' = [timers EXCEPT ![n] = IF @ = "armed" THEN "over" ELSE @]
                /\ unclosed' = unclosed \union {n}
        /\ UNCHANGED <<relayActive, relayStarted, socket, info, closedRelay, packet>>

\* session.Close, after the lock is released.
CloseSession(n) ==
    /\ n \in unclosed
    /\ unclosed' = unclosed \ {n} /\ closedRelay' = closedRelay \union {n}
    /\ UNCHANGED <<relayActive, relayStarted, socket, relaySessions, info, addrIndex, ttl,
                   packet, relayCycle>>

\* Mutant: the timer of a session is never started.
NeverFires(n) == FALSE /\ UNCHANGED relayVars

\* The TTL of a session runs out: its callback starts.
TTLExpires(n) ==
    /\ ttl[n] = "armed" /\ ttl' = [ttl EXCEPT ![n] = "fired"]
    /\ UNCHANGED <<relayActive, relayStarted, socket, relaySessions, info, addrIndex,
                   unclosed, closedRelay, packet, relayCycle>>

\* The callback removes whatever session has the ID by now.
TTLCallback(n) ==
    /\ ttl[n] = "fired"
    /\ RemoveSession(info[n].id, [ttl EXCEPT ![n] = "over"])
    /\ UNCHANGED relayCycle

----------------------------------------------------------------------------
(* Start, Stop and the dispatch loop *)

StartRelay ==
    /\ ~relayStarted /\ relayStarted' = TRUE
    /\ relayActive' = TRUE /\ socket' = TRUE /\ packet' = NoPacket
    /\ UNCHANGED <<relaySessions, info, addrIndex, ttl, unclosed, closedRelay, relayCycle>>

\* Stop: one critical section; the sessions and the socket are closed after it.
StopRelay ==
    /\ relayActive /\ relayActive' = FALSE
    /\ ttl' = [n \in Number |-> Disarm(n)]
    /\ relaySessions' = [id \in RelayID |-> NoSession]
    /\ addrIndex' = [a \in Addr |-> NoSession]
    /\ unclosed' = unclosed \union Live
    /\ UNCHANGED <<relayStarted, socket, info, closedRelay, packet, relayCycle>>

\* Stop closes the socket, or the context's end does.
CloseSocket ==
    /\ socket /\ socket' = FALSE
    /\ UNCHANGED <<relayActive, relayStarted, relaySessions, info, addrIndex, ttl, unclosed,
                   closedRelay, packet, relayCycle>>

\* A packet arrives and its source is looked up; the lock is released before
\* the session is used.
Receive(a) ==
    /\ packet = NoPacket /\ socket
    /\ addrIndex[a] # NoSession
    /\ packet' = [at |-> "forward", from |-> a, of |-> addrIndex[a]]
    /\ UNCHANGED <<relayActive, relayStarted, socket, relaySessions, info, addrIndex, ttl,
                   unclosed, closedRelay, relayCycle>>

\* Forward: nothing for a closed session, else the packet goes to the endpoint
\* that is not its source, or nowhere when the source is neither.
Forward ==
    /\ packet.at = "forward"
    /\ packet' = IF packet.of \in closedRelay \/ packet.from \notin Endpoints(packet.of)
                 THEN NoPacket
                 ELSE [packet EXCEPT !.at = "send"]
    /\ UNCHANGED <<relayActive, relayStarted, socket, relaySessions, info, addrIndex, ttl,
                   unclosed, closedRelay, relayCycle>>

Send ==
    /\ packet.at = "send" /\ packet' = NoPacket
    /\ UNCHANGED <<relayActive, relayStarted, socket, relaySessions, info, addrIndex, ttl,
                   unclosed, closedRelay, relayCycle>>

DispatchReturns ==
    /\ packet = NoPacket /\ ~socket /\ packet' = LoopGone
    /\ UNCHANGED <<relayActive, relayStarted, socket, relaySessions, info, addrIndex, ttl,
                   unclosed, closedRelay, relayCycle>>

----------------------------------------------------------------------------
(* Callers *)

\* HandleRelaySessionAssigned and HandleRelaySessionRevoked.
RelayEvent ==
    /\ \E id \in RelayID : \/ \E pair \in PeerPair : AddSession(id, pair)
                           \/ relaySessions[id] # NoSession /\ RemoveSession(id, ttl)
    /\ UNCHANGED relayCycle

Rest(done) == relayCycle' = [relayCycle EXCEPT !.stale = @ \ {done}, !.missing = @ \ {done}]

\* RelayReconcileHandler lists the IDs once, removes the stale ones, then adds
\* the missing ones; a session whose ID is known keeps its endpoints.
PlanSessions(desired) ==
    LET current == {id \in RelayID : relaySessions[id] # NoSession}
    IN  /\ relayCycle.stale = {} /\ relayCycle.missing = {} /\ relayCycle.n < MaxRelayCycles
        /\ relayCycle' = [n |-> relayCycle.n + 1, stale |-> current \ desired,
                          missing |-> desired \ current]
        /\ UNCHANGED <<relayActive, relayStarted, socket, relaySessions, info, addrIndex, ttl,
                       unclosed, closedRelay, packet>>

CycleSessions ==
    \/ \E id \in relayCycle.stale : RemoveSession(id, ttl) /\ Rest(id)
    \/ \E id \in relayCycle.missing :
         /\ relayCycle.stale = {}
         /\ \/ \E pair \in PeerPair : AddSession(id, pair)
            \/ /\ relaySessions[id] # NoSession \/ Cardinality(Live) >= MaxRelaySessions
               /\ UNCHANGED <<relayActive, relayStarted, socket, relaySessions, info, addrIndex,
                              ttl, unclosed, closedRelay, packet>>
         /\ Rest(id)

RelayNext ==
    \/ StartRelay \/ StopRelay \/ CloseSocket
    \/ \E a \in Addr : Receive(a)
    \/ Forward \/ Send \/ DispatchReturns
    \/ \E n \in Number : TTLExpires(n) \/ TTLCallback(n) \/ CloseSession(n)
    \/ RelayEvent \/ CycleSessions
    \/ \E desired \in SUBSET RelayID : PlanSessions(desired)

\* Timers fire and callbacks run; goroutines at work go on.  A session takes each
\* of its steps once, and the dispatch loop is at one of its own at a time.
SessionStep(n) == TTLExpires(n) \/ TTLCallback(n) \/ CloseSession(n)
RelayFairness ==
    (\A n \in Number : WF_relayVars(SessionStep(n))) /\ WF_relayVars(Forward \/ Send)

RelaySpec == RelayInit /\ [][RelayNext]_relayVars /\ RelayFairness

----------------------------------------------------------------------------
(* Properties *)

\* The address index never leads to a session that is no longer in the table or
\* does not have the address, so no packet of one pair of peers is handed to
\* another session; and a session that shares no endpoint with another one
\* ever added is found from both of its endpoints.
IndexFaithful ==
    /\ \A a \in Addr : addrIndex[a] # NoSession => addrIndex[a] \in Live /\ a \in Endpoints(addrIndex[a])
    /\ \A n \in Live :
         (\A m \in DOMAIN info \ {n} : Endpoints(m) \intersect Endpoints(n) = {}) =>
             \A a \in Endpoints(n) : addrIndex[a] = n

\* Every session ends: its timer fires, or it is removed or the relay stopped
\* before; from some point on it is closed and the dispatch loop, which may
\* hold a session that is removed under it, uses it no more.  (Numbers are not
\* used twice, and finitely many sessions are added.)
RelaySessionsEnd ==
    <>[](\A n \in Number : ttl[n] # "none" =>
            n \in closedRelay /\ (packet.at = "send" => packet.of # n))
=============================================================================
