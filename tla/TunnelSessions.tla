-------------------------- MODULE TunnelSessions --------------------------
(***************************************************************************)
(* Access-tunnel sessions (internal/tunnel/manager.go, session.go,         *)
(* handler.go).  A session is a listener that forwards one connection at a *)
(* time to its target, until it is revoked, expires, or the node stops.    *)
(*                                                                         *)
(* A session is a number in order of creation, because one session ID may  *)
(* be used again after its first session ended, while timers and closers   *)
(* of the first one are still under way.  The processes are the event      *)
(* stream (one goroutine, one event at a time), one expiry timer and one   *)
(* accept loop per session, the closers, and the manager's Shutdown.       *)
(***************************************************************************)
EXTENDS Naturals, FiniteSets

CONSTANTS
    SessionID,
    NoID,           \* the ID of a session not created yet
    MaxSessions,    \* Config.MaxSessions
    DefaultTimeout, \* Config.DefaultTimeout, in clock ticks
    MaxTime,        \* bound: the clock stops here
    MaxCreated,     \* bound: sessions that are created
    MaxAccepts      \* bound: connections that clients make to sessions

ASSUME TunnelAssumption ==
    /\ NoID \notin SessionID
    /\ MaxSessions \in Nat \ {0} /\ DefaultTimeout \in Nat \ {0}
    /\ MaxTime \in Nat /\ MaxCreated \in Nat /\ MaxAccepts \in Nat

Session == 1 .. MaxCreated
Nobody == 0

VARIABLES
    now,       \* the clock
    stopping,  \* the agent's context is cancelled
    created,   \* number of sessions created
    sessions,  \* SessionManager.sessions: ID -> session or Nobody
    ident,     \* session -> its ID
    expires,   \* session -> expiresAt
    timer,     \* session -> "none", "set" or "fired"
    closing,   \* sessions taken out of the map whose Close has not returned
    closed,    \* sessions with closed set by markClosed
    grabbed,   \* sessions whose connection markClosed handed to Close
    cancelled, \* sessions whose own context Close cancelled
    listening, \* sessions with an open listener
    accepted,  \* connections accepted so far
    loop,      \* session -> where its accept loop is
    conn,      \* sessions with s.conn # nil
    open,      \* sessions with an open client and target connection
    handler,   \* the event being handled
    doomed,    \* IDs that Shutdown has collected and not yet closed
    victim     \* the session Shutdown is closing, or Nobody

mapVars == <<created, sessions, ident, expires>>
loopVars == <<accepted, loop, conn, open>>
closeVars == <<closing, closed, grabbed, cancelled, listening>>
shutVars == <<doomed, victim>>
tunnelVars == <<now, stopping, mapVars, timer, closeVars, loopVars, handler, shutVars>>

Idle == [step |-> "idle", session |-> Nobody]

TunnelInit ==
    /\ now = 0 /\ stopping = FALSE
    /\ created = 0
    /\ sessions = [k \in SessionID |-> Nobody]
    /\ ident = [i \in Session |-> NoID]
    /\ expires = [i \in Session |-> 0]
    /\ timer = [i \in Session |-> "none"]
    /\ closing = {} /\ closed = {} /\ grabbed = {} /\ cancelled = {} /\ listening = {}
    /\ accepted = 0
    /\ loop = [i \in Session |-> "none"]
    /\ conn = {} /\ open = {}
    /\ handler = Idle
    /\ doomed = {} /\ victim = Nobody

Active == {k \in SessionID : sessions[k] # Nobody}
CtxDone(i) == stopping \/ i \in cancelled

----------------------------------------------------------------------------
(* SessionManager *)

\* No session lasts longer than DefaultTimeout.
Capped(expiresAt) ==
    IF expiresAt > now + DefaultTimeout THEN now + DefaultTimeout ELSE expiresAt

\* Mutant: the limit is not checked.
CanCreateAny(k) == sessions[k] = Nobody

CanCreate(k) == sessions[k] = Nobody /\ Cardinality(Active) < MaxSessions

\* CreateSession's critical section: refused for an ID in use, at the limit,
\* or when Start cannot listen (then nothing changes).  The session's time is
\* capped, and a session whose time has passed is refused.
CreateSession(k, expiresAt) ==
    LET i == created + 1
    IN /\ handler = Idle
       /\ created < MaxCreated
       /\ expiresAt >= now
       /\ CanCreate(k)
       /\ created' = i
       /\ ident' = [ident EXCEPT ![i] = k]
       /\ sessions' = [sessions EXCEPT ![k] = i]
       /\ expires' = [expires EXCEPT ![i] = Capped(expiresAt)]
       /\ listening' = listening \union {i}
       /\ loop' = [loop EXCEPT ![i] = "accept"]
       /\ handler' = [step |-> "timer", session |-> i]
       /\ UNCHANGED <<now, stopping, timer, closing, closed, grabbed,
                      cancelled, accepted, conn, open, shutVars>>

\* After the unlock: the timer is set only if some of the time is left.
SetTimer ==
    LET i == handler.session
    IN /\ handler.step = "timer"
       /\ timer' = IF expires[i] > now THEN [timer EXCEPT ![i] = "set"] ELSE timer
       /\ handler' = [handler EXCEPT !.step = "ready"]
       /\ UNCHANGED <<now, stopping, mapVars, closeVars, loopVars, shutVars>>

\* reporter.ReportReady has returned.
ReportReady ==
    /\ handler.step = "ready"
    /\ handler' = Idle
    /\ UNCHANGED <<now, stopping, mapVars, timer, closeVars, loopVars, shutVars>>

\* removeSession: whichever session the ID stands for now is in the caller's hands.
removeSession(k) ==
    /\ sessions' = [sessions EXCEPT ![k] = Nobody]
    /\ closing' = closing \union ({sessions[k]} \ {Nobody})
    /\ UNCHANGED <<created, ident, expires, closed, grabbed, cancelled, listening>>

\* The session_revoked event.
Revoke(k) ==
    /\ handler = Idle
    /\ k \in Active
    /\ removeSession(k)
    /\ handler' = [step |-> "revoke", session |-> sessions[k]]
    /\ UNCHANGED <<now, stopping, timer, loopVars, shutVars>>

\* CloseSession and ReportClosed have returned.
RevokeReturns ==
    /\ handler.step = "revoke"
    /\ handler.session \notin closing
    /\ handler' = Idle
    /\ UNCHANGED <<now, stopping, mapVars, timer, closeVars, loopVars, shutVars>>

\* Mutant: the timer fires and closes nothing.
ExpireClosesNothing(i) ==
    /\ timer[i] = "set"
    /\ now >= expires[i]
    /\ timer' = [timer EXCEPT ![i] = "fired"]
    /\ UNCHANGED <<now, stopping, mapVars, closeVars, loopVars, handler, shutVars>>

\* The timer of session i closes the session that has i's ID when it fires.
Expire(i) ==
    /\ timer[i] = "set"
    /\ now >= expires[i]
    /\ timer' = [timer EXCEPT ![i] = "fired"]
    /\ removeSession(ident[i])
    /\ UNCHANGED <<now, stopping, loopVars, handler, shutVars>>

\* Shutdown: the IDs are collected under the lock, then closed one by one.
ShutdownCollect ==
    /\ doomed' = Active
    /\ UNCHANGED <<now, stopping, mapVars, timer, closeVars, loopVars, handler, victim>>

ShutdownClose(k) ==
    /\ k \in doomed
    /\ victim \notin closing
    /\ removeSession(k)
    /\ doomed' = doomed \ {k}
    /\ victim' = sessions[k]
    /\ UNCHANGED <<now, stopping, timer, loopVars, handler>>

----------------------------------------------------------------------------
(* Session *)

\* markClosed: the flag is set and the connection of this moment is taken.
MarkClosed(i) ==
    /\ i \in closing \ closed
    /\ closed' = closed \union {i}
    /\ grabbed' = grabbed \union ({i} \intersect conn)
    /\ UNCHANGED <<now, stopping, mapVars, timer, closing, cancelled, listening,
                   loopVars, handler, shutVars>>

\* The rest of Close: the context, the listener and the taken connection.
FinishClose(i) ==
    /\ i \in closing \intersect closed
    /\ closing' = closing \ {i}
    /\ cancelled' = cancelled \union {i}
    /\ listening' = listening \ {i}
    /\ open' = open \ ({i} \intersect grabbed)
    /\ grabbed' = grabbed \ {i}
    /\ UNCHANGED <<now, stopping, mapVars, timer, closed, accepted, loop, conn, handler, shutVars>>

\* acceptLoop's helper goroutine closes the listener when the context is done.
StopListening(i) ==
    /\ i \in listening /\ CtxDone(i)
    /\ listening' = listening \ {i}
    /\ UNCHANGED <<now, stopping, mapVars, timer, closing, closed, grabbed, cancelled,
                   loopVars, handler, shutVars>>

LoopStep(i, from, to) ==
    /\ loop[i] = from
    /\ loop' = [loop EXCEPT ![i] = to]
    /\ UNCHANGED <<now, stopping, mapVars, timer, closing, closed, cancelled,
                   listening, handler, shutVars>>

\* A client connects; tryAccept refuses it while a connection is recorded.
Accept(i) ==
    /\ i \in listening
    /\ i \notin conn
    /\ accepted < MaxAccepts
    /\ accepted' = accepted + 1
    /\ LoopStep(i, "accept", "dial")
    /\ UNCHANGED <<conn, open, grabbed>>

LoopReturns(i) ==
    /\ i \notin listening
    /\ LoopStep(i, "accept", "returned")
    /\ UNCHANGED <<accepted, conn, open, grabbed>>

\* DialContext: fails at any time, succeeds only while the context is live.
DialFails(i) ==
    /\ LoopStep(i, "dial", "accept")
    /\ UNCHANGED <<accepted, conn, open, grabbed>>

Dialed(i) ==
    /\ ~CtxDone(i)
    /\ LoopStep(i, "dial", "dialed")
    /\ open' = open \union {i}
    /\ UNCHANGED <<accepted, conn, grabbed>>

\* s.conn = clientConn, whether or not the session has been closed meanwhile.
RecordConn(i) ==
    /\ LoopStep(i, "dialed", "copy")
    /\ conn' = conn \union {i}
    /\ UNCHANGED <<accepted, open, grabbed>>

\* The client or the target ends the connection.
PeerCloses(i) ==
    /\ i \in open
    /\ open' = open \ {i}
    /\ UNCHANGED <<now, stopping, mapVars, timer, closeVars, accepted, loop, conn, handler, shutVars>>

\* Both copies end and cleanup forgets the connection.
CopyEnds(i) ==
    /\ i \notin open
    /\ LoopStep(i, "copy", "accept")
    /\ conn' = conn \ {i}
    /\ grabbed' = grabbed \ {i} \* closing it once more has no effect
    /\ UNCHANGED <<accepted, open>>

----------------------------------------------------------------------------
Tick ==
    /\ now < MaxTime
    /\ now' = now + 1
    /\ UNCHANGED <<stopping, mapVars, timer, closeVars, loopVars, handler, shutVars>>

\* The agent's context, of which every session's context is a child, is cancelled.
Stop ==
    /\ ~stopping
    /\ stopping' = TRUE
    /\ UNCHANGED <<now, mapVars, timer, closeVars, loopVars, handler, shutVars>>

Close(i) == MarkClosed(i) \/ FinishClose(i)
Forward(i) == Dialed(i) \/ DialFails(i) \/ RecordConn(i) \/ CopyEnds(i)

SessionStep(i) ==
    \/ Expire(i) \/ Close(i) \/ StopListening(i)
    \/ Accept(i) \/ LoopReturns(i) \/ Forward(i) \/ PeerCloses(i)

\* Everything but the Shutdown call, which MeshServer makes.
TunnelNext ==
    \/ Tick \/ Stop
    \/ \E k \in SessionID : Revoke(k) \/ \E t \in 0 .. MaxTime : CreateSession(k, t)
    \/ SetTimer \/ ReportReady \/ RevokeReturns
    \/ \E i \in Session : SessionStep(i)

\* The runtime runs every goroutine and every due timer, DialContext returns, and
\* time passes.  Nothing makes a client or a target close its connection.
TunnelFairness ==
    /\ WF_tunnelVars(Tick)
    /\ WF_tunnelVars(SetTimer \/ ReportReady \/ RevokeReturns)
    /\ \A i \in Session :
          /\ WF_tunnelVars(Expire(i)) /\ WF_tunnelVars(Close(i))
          /\ WF_tunnelVars(StopListening(i)) /\ WF_tunnelVars(LoopReturns(i))
          /\ WF_tunnelVars(Forward(i))

TunnelSpec == TunnelInit /\ [][TunnelNext]_tunnelVars /\ TunnelFairness

----------------------------------------------------------------------------
TunnelTypeOK ==
    /\ now \in 0 .. MaxTime /\ stopping \in BOOLEAN
    /\ created \in 0 .. MaxCreated
    /\ sessions \in [SessionID -> 0 .. created]
    /\ ident \in [Session -> SessionID \union {NoID}]
    /\ expires \in [Session -> 0 .. MaxTime]
    /\ timer \in [Session -> {"none", "set", "fired"}]
    /\ closing \subseteq 1 .. created /\ closed \subseteq 1 .. created
    /\ cancelled \subseteq closed /\ grabbed \subseteq closed
    /\ listening \subseteq 1 .. created
    /\ accepted \in 0 .. MaxAccepts
    /\ loop \in [Session -> {"none", "accept", "dial", "dialed", "copy", "returned"}]
    /\ conn \subseteq Session /\ open \subseteq Session
    /\ handler \in [step : {"idle", "timer", "ready", "revoke"}, session : 0 .. created]
    /\ doomed \subseteq SessionID /\ victim \in 0 .. created

\* No session is lost: from its creation until its Close has cancelled its
\* context, a session is the one its ID stands for, or a closer has it.  A
\* listener nobody can close any more would stay open until the agent stops.
NoLostSession ==
    \A i \in 1 .. created : sessions[ident[i]] = i \/ i \in closing \/ i \in cancelled

\* MaxSessions bounds the listeners, not only the entries of the map: besides
\* the sessions that are being closed, no more than MaxSessions listen.
ListenersBounded == Cardinality(listening \ closing) <= MaxSessions

\* The map, the closers and the listeners agree, through revocations, expiries,
\* re-used IDs and Shutdown in any order.
SessionsHeld == NoLostSession /\ ListenersBounded

\* A session whose timer was set stops listening for good, and its accept loop
\* returns, unless the last connection it forwards is never ended by its peers.
TimedSessionsEnd ==
    \A i \in Session :
        timer[i] = "set" ~> [](i \notin listening /\ (loop[i] = "returned" \/ i \in open))

\* "Close ... closes listener and active connection": once Close has returned,
\* the session has no open connection.
ClosedIsQuiet == cancelled \intersect open = {}
=============================================================================
