---------------------------- MODULE MeshServer ----------------------------
(***************************************************************************)
(* The mesh server (internal/tunnel/mesh_server.go, ssh_server.go,         *)
(* ssh_channels.go): the SSH server and the tunnel sessions of one node,   *)
(* and the Shutdown that stops the first and then the second.              *)
(*                                                                         *)
(* The SSH server takes a connection when a slot of its semaphore is free, *)
(* handles it in a goroutine of its own, and counts that goroutine and the *)
(* accept loop in a wait group.  Every connection has at most one channel  *)
(* at a time.  The SSH protocol itself (golang.org/x/crypto/ssh) is        *)
(* external: a handshake succeeds or fails when the client lets it.        *)
(***************************************************************************)
EXTENDS TunnelSessions

CONSTANTS
    Client \* bound: connections made to the SSH server

ASSUME ClientAssumption == IsFiniteSet(Client)

VARIABLES
    sshListening, \* the SSH listener is open
    sshLoop,      \* the accept loop runs
    sshConn,      \* client -> where its connection's goroutine is
    deadline,     \* client -> the connection's idle deadline
    channel,      \* client -> its direct-tcpip channel
    sem,          \* slots taken in the semaphore
    sshWg,        \* the wait group's counter
    shutdown      \* where MeshServer.Shutdown is

sshVars == <<sshListening, sshLoop, sshConn, deadline, channel, sem, sshWg>>
meshVars == <<tunnelVars, sshVars, shutdown>>

\* Start has opened the listener and started the accept loop.
MeshInit ==
    /\ TunnelInit
    /\ sshListening = TRUE /\ sshLoop = TRUE
    /\ sshConn = [c \in Client |-> "none"]
    /\ deadline = [c \in Client |-> 0]
    /\ channel = [c \in Client |-> "none"]
    /\ sem = 0
    /\ sshWg = 1
    /\ shutdown = "running"

\* The server's context: cancelled with the agent's or by Shutdown.
SshCtxDone == stopping \/ shutdown # "running"

----------------------------------------------------------------------------
(* acceptLoop *)

SshAccept(c) ==
    /\ sshLoop /\ sshListening
    /\ sshConn[c] = "none"
    /\ IF sem < MaxSessions
       THEN /\ sem' = sem + 1
            /\ sshWg' = sshWg + 1
            /\ sshConn' = [sshConn EXCEPT ![c] = "handshake"]
       ELSE /\ sshConn' = [sshConn EXCEPT ![c] = "gone"]
            /\ UNCHANGED <<sem, sshWg>>
    /\ UNCHANGED <<tunnelVars, sshListening, sshLoop, deadline, channel, shutdown>>

\* The helper goroutine of the accept loop.
SshStopListening ==
    /\ sshListening /\ SshCtxDone
    /\ sshListening' = FALSE
    /\ UNCHANGED <<tunnelVars, sshLoop, sshConn, deadline, channel, sem, sshWg, shutdown>>

SshLoopReturns ==
    /\ sshLoop /\ ~sshListening
    /\ sshLoop' = FALSE
    /\ sshWg' = sshWg - 1
    /\ UNCHANGED <<tunnelVars, sshListening, sshConn, deadline, channel, sem, shutdown>>

----------------------------------------------------------------------------
(* handleConnection *)

ConnStep(c, from, to) ==
    /\ sshConn[c] = from
    /\ sshConn' = [sshConn EXCEPT ![c] = to]
    /\ UNCHANGED <<tunnelVars, sshListening, sshLoop, shutdown>>

\* The deadlines the bounded clock can reach.
InTime == now + DefaultTimeout <= MaxTime

HandshakeDone(c) ==
    /\ InTime
    /\ ConnStep(c, "handshake", "open")
    /\ deadline' = [deadline EXCEPT ![c] = now + DefaultTimeout]
    /\ UNCHANGED <<channel, sem, sshWg>>

\* Mutant: a handshake that fails keeps its slot.
ConnEndsKeepsSlot(c) ==
    /\ \/ ConnStep(c, "handshake", "closed") /\ UNCHANGED sem
       \/ ConnStep(c, "open", "closed") /\ sem' = sem - 1
    /\ UNCHANGED <<deadline, channel, sshWg>>

\* The handshake fails, the client leaves, or the idle deadline passes: the
\* connection is closed, which ends its channel, and the slot is released.
ConnEnds(c) ==
    /\ \/ ConnStep(c, "handshake", "closed")
       \/ ConnStep(c, "open", "closed")
    /\ sem' = sem - 1
    /\ UNCHANGED <<deadline, channel, sshWg>>

\* Mutant: the goroutine returns without telling the wait group.
ConnReturnsUncounted(c) ==
    /\ ConnStep(c, "closed", "gone")
    /\ UNCHANGED <<deadline, channel, sem, sshWg>>

ConnReturns(c) ==
    /\ ConnStep(c, "closed", "gone")
    /\ sshWg' = sshWg - 1
    /\ UNCHANGED <<deadline, channel, sem>>

\* A direct-tcpip channel is requested, which moves the deadline.
OpenChannel(c) ==
    /\ InTime
    /\ channel[c] \in {"none", "done"}
    /\ ConnStep(c, "open", "open")
    /\ deadline' = [deadline EXCEPT ![c] = now + DefaultTimeout]
    /\ channel' = [channel EXCEPT ![c] = "dial"]
    /\ UNCHANGED <<sem, sshWg>>

ChannelStep(c, from, to) ==
    /\ channel[c] = from
    /\ channel' = [channel EXCEPT ![c] = to]
    /\ UNCHANGED <<tunnelVars, sshListening, sshLoop, sshConn, deadline, sem, sshWg, shutdown>>

\* handleDirectTCPIP, in a goroutine the wait group does not count: the dial
\* succeeds while the context is live, and Accept fails on a closed connection.
ChannelDialed(c) ==
    /\ ~SshCtxDone /\ sshConn[c] = "open"
    /\ ChannelStep(c, "dial", "copy")

ChannelRejected(c) == ChannelStep(c, "dial", "done")

\* One side ends; the close of the SSH connection ends it in any case.
ChannelEnds(c) == ChannelStep(c, "copy", "done")

----------------------------------------------------------------------------
(* MeshServer.Shutdown *)

\* SSHServer.Shutdown cancels the context and closes the listener ...
ShutdownSsh ==
    /\ stopping /\ shutdown = "running"
    /\ shutdown' = "ssh"
    /\ sshListening' = FALSE
    /\ UNCHANGED <<tunnelVars, sshLoop, sshConn, deadline, channel, sem, sshWg>>

\* ... waits for every connection, and only then the sessions are collected.
ShutdownSessions ==
    /\ shutdown = "ssh" /\ sshWg = 0
    /\ shutdown' = "sessions"
    /\ ShutdownCollect
    /\ UNCHANGED sshVars

ShutdownSession(k) ==
    /\ shutdown = "sessions"
    /\ ShutdownClose(k)
    /\ UNCHANGED <<sshVars, shutdown>>

ShutdownReturns ==
    /\ shutdown = "sessions"
    /\ doomed = {} /\ victim \notin closing
    /\ shutdown' = "done"
    /\ UNCHANGED <<tunnelVars, sshVars>>

Shutdown ==
    \/ ShutdownSsh \/ ShutdownSessions \/ ShutdownReturns
    \/ \E k \in SessionID : ShutdownSession(k)

SshStep(c) ==
    \/ SshAccept(c) \/ HandshakeDone(c) \/ ConnEnds(c) \/ ConnReturns(c)
    \/ OpenChannel(c) \/ ChannelDialed(c) \/ ChannelRejected(c) \/ ChannelEnds(c)

MeshNext ==
    \/ TunnelNext /\ UNCHANGED <<sshVars, shutdown>>
    \/ SshStopListening \/ SshLoopReturns
    \/ \E c \in Client : SshStep(c)
    \/ Shutdown

\* When handleConnection must go on: a client finishes its handshake or leaves
\* (no deadline runs before the handshake is done), the deadline has passed, or
\* the goroutine is past its loop.
MustEnd(c) ==
    /\ sshConn[c] = "handshake" \/ now >= deadline[c]
    /\ ConnEnds(c)

MeshFairness ==
    /\ TunnelFairness
    /\ WF_meshVars(SshStopListening) /\ WF_meshVars(SshLoopReturns)
    /\ \A c \in Client :
          /\ WF_meshVars(HandshakeDone(c) \/ MustEnd(c)) /\ WF_meshVars(ConnReturns(c))
          /\ WF_meshVars(ChannelDialed(c) \/ ChannelRejected(c))
          /\ WF_meshVars(sshConn[c] # "open" /\ ChannelEnds(c))
    /\ WF_meshVars(Shutdown)

MeshSpec == MeshInit /\ [][MeshNext]_meshVars /\ MeshFairness

----------------------------------------------------------------------------
\* The semaphore and the wait group count exactly: a slot is held by every
\* connection up to its end and by no other, so no more than MaxSessions are
\* served, and when the wait in Shutdown is over, the accept loop and every
\* connection's goroutine have returned.
SshAccounted ==
    /\ sem = Cardinality({c \in Client : sshConn[c] \in {"handshake", "open"}})
    /\ sem <= MaxSessions
    /\ shutdown \in {"sessions", "done"} =>
          ~sshLoop /\ \A c \in Client : sshConn[c] \in {"none", "gone"}

\* Once the agent stops, Shutdown returns: the connections it waits for end by
\* their clients or at the idle deadline, and then nothing listens any more and
\* no channel is left.
StopEnds ==
    stopping ~> [](/\ shutdown = "done"
                   /\ listening = {} /\ ~sshListening
                   /\ \A c \in Client : channel[c] \in {"none", "done"})
=============================================================================
