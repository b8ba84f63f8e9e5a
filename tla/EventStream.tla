---------------------------- MODULE EventStream ----------------------------
(***************************************************************************)
(* The control plane's event stream as the agent consumes it: the          *)
(* reconnect engine with its polling fallback (internal/api/reconnect.go), *)
(* the stream loop (sse.go), the envelope verifier with its nonce store    *)
(* (verifier.go) and the rotation of signing keys through events and       *)
(* through the reconcile loop (cmd/plexd/cmd/up.go).                       *)
(*                                                                         *)
(* Events are numbered in the order they are sent; the number is the event *)
(* ID and the nonce.  Time is a number of ticks and may pass between any   *)
(* two steps.  Back-off delays and the poll interval are left open: a wait *)
(* ends at some time.                                                      *)
(***************************************************************************)
EXTENDS Integers, Sequences

CONSTANTS
    Window,     \* DefaultStalenessWindow and nonceTTL, in ticks
    Cleanup,    \* nonceCleanupInterval
    Transition, \* how long the previous signing key is accepted
    Fallback,   \* pollingFallback
    Idle,       \* the idle timeout of the stream
    MaxTime,    \* bound: ticks
    MaxEvents,  \* bound: events sent
    MaxReplays  \* bound: connections on which known events are sent again

ASSUME TimesAssumption ==
    /\ {Window, Cleanup, Transition, Fallback, Idle,
        MaxTime, MaxEvents, MaxReplays} \subseteq Nat
    /\ Transition > Window  \* 24 hours and 5 minutes

VARIABLES
    now,
    log,         \* control plane: the events sent, each [at, key, rotates]
    cpKeys,      \* control plane: its SigningKeys
    pc,          \* where Run is
    polling,     \* Run is in runPollingFallback
    failingSince,\* the field, -1 for the zero time
    lastData,    \* when the stream was accepted or last read
    cursor,      \* the next event on the connection
    lastEventID, \* the field
    keys,        \* the verifier's current, previous and transitionExpires
    seen,        \* the nonce store
    lastCleanup,
    handled,     \* events that have been dispatched
    fetched,     \* the SigningKeys of a reconcile cycle, NoKeys outside one
    snapshotKeys,\* the SigningKeys in the reconciler's snapshot
    replays

engineVars == <<polling, failingSince, lastData>>
streamVars == <<cursor, lastEventID, handled, replays>>
nonceVars == <<seen, lastCleanup>>
cycleVars == <<fetched, snapshotKeys>>
cpVars == <<log, cpKeys>>
vars == <<now, cpVars, pc, engineVars, streamVars, keys, nonceVars, cycleVars>>

\* Signing keys are numbered by rotation; 0 is no key.
NoKeys == [current |-> 0, previous |-> 0, expires |-> 0]

\* The key that registration returned.
FirstKeys == [NoKeys EXCEPT !.current = 1]

Init ==
    /\ now = 0
    /\ log = <<>> /\ cpKeys = FirstKeys
    /\ pc = "connect"
    /\ polling = FALSE /\ failingSince = -1 /\ lastData = 0
    /\ cursor = 1 /\ lastEventID = 0 /\ handled = {} /\ replays = 0
    /\ keys = FirstKeys
    /\ seen = {} /\ lastCleanup = 0
    /\ fetched = NoKeys /\ snapshotKeys = NoKeys

\* Time passes; less than a tick, though, while a rotation is verified and
\* handled, which only decodes and sets keys.
Tick ==
    /\ now < MaxTime
    /\ pc \in {"add", "dispatch"} => ~ log[cursor].rotates
    /\ now' = now + 1
    /\ UNCHANGED <<cpVars, pc, engineVars, streamVars, keys, nonceVars, cycleVars>>

\* The control plane's keys after a rotation.
Rotated == [current |-> cpKeys.current + 1, previous |-> cpKeys.current,
            expires |-> now + Transition]

\* The control plane sends an event. The one that announces new keys is
\* signed with the old one, and comes after the transition before it.
Send(rotates) ==
    /\ Len(log) < MaxEvents
    /\ rotates => now >= cpKeys.expires
    /\ cpKeys' = IF rotates THEN Rotated ELSE cpKeys
    /\ log' = Append(log, [at |-> now, key |-> cpKeys.current, rotates |-> rotates,
                          keys |-> cpKeys'])
    /\ UNCHANGED <<now, pc, engineVars, streamVars, keys, nonceVars, cycleVars>>

----------------------------------------------------------------------------
(* The reconnect engine *)

\* resetBackoff: the interval, which is left out, and failingSince.
ResetBackoff == failingSince' = -1

\* connectFn is accepted; the control plane goes on after the last event ID,
\* or repeats events before it.
Connected(from) ==
    /\ pc = "connect"
    /\ from \in 1 .. (lastEventID + 1)
    /\ IF from = lastEventID + 1 THEN UNCHANGED replays
       ELSE replays < MaxReplays /\ replays' = replays + 1
    /\ cursor' = from
    /\ pc' = "stream"
    /\ lastData' = now
    /\ UNCHANGED <<now, cpVars, polling, failingSince, lastEventID, handled, keys,
                   nonceVars, cycleVars>>

\* connectFn returns nil: the stream was closed.
StreamCloses ==
    /\ pc = "stream"
    /\ ResetBackoff
    /\ polling' = FALSE
    /\ pc' = "connect"
    /\ UNCHANGED <<now, cpVars, lastData, streamVars, keys, nonceVars, cycleVars>>

\* A transient error outside the fallback: since when do connections fail?
Failing == IF failingSince = -1 THEN now ELSE failingSince

\* The idle timer of the connection has fired and closed it.
IdleExpired == now - lastData >= Idle

\* connectFn returns an error: the connection was refused, or the stream was
\* idle for too long, which is transient.
ConnectError(class) ==
    /\ pc = "connect" \/ (pc = "stream" /\ IdleExpired /\ class = "transient")
    /\ CASE class \in {"auth", "permanent"} ->
              pc' = "stopped" /\ UNCHANGED <<polling, failingSince>>
         [] class = "rate limit" ->
              pc' = (IF polling THEN "poll" ELSE "wait") /\ UNCHANGED <<polling, failingSince>>
         [] class = "transient" ->
              IF polling
              THEN pc' = "poll" /\ UNCHANGED <<polling, failingSince>>
              ELSE /\ failingSince' = Failing
                   /\ polling' = (now - Failing >= Fallback)
                   /\ pc' = IF polling' THEN "poll" ELSE "wait"
    /\ UNCHANGED <<now, cpVars, lastData, streamVars, keys, nonceVars, cycleVars>>

\* Mutant: the fallback polls and does not try the stream again.
WaitPollsOn ==
    /\ pc \in {"wait", "poll"}
    /\ pc' = IF pc = "wait" THEN "connect" ELSE "poll"
    /\ UNCHANGED <<now, cpVars, engineVars, streamVars, keys, nonceVars, cycleVars>>

\* The back-off ends; or pollFn was called, its error logged, and the poll
\* interval has passed: the stream is tried again.
Wait ==
    /\ pc \in {"wait", "poll"}
    /\ pc' = "connect"
    /\ UNCHANGED <<now, cpVars, engineVars, streamVars, keys, nonceVars, cycleVars>>

\* Shutdown cancels the context; Run returns from wherever it looks at it.
Shutdown ==
    /\ pc \in {"connect", "stream", "wait", "poll"}
    /\ pc' = "stopped"
    /\ UNCHANGED <<now, cpVars, engineVars, streamVars, keys, nonceVars, cycleVars>>

----------------------------------------------------------------------------
(* The stream loop and the verifier *)

Stale(e) == now - log[e].at > Window

\* The signature of event e against the verifier's keys.
Verified(e) ==
    \/ log[e].key = keys.current
    \/ keys.previous # 0 /\ log[e].key = keys.previous /\ now < keys.expires

\* parser.Next returns an event: its ID is recorded, and Verify checks its
\* age and its signature. An event that fails is skipped. After an idle timeout
\* the events that are already in the parser's buffer still come.
Receive ==
    /\ pc = "stream" /\ cursor <= Len(log)
    /\ lastEventID' = cursor
    /\ IF ~ Stale(cursor) /\ Verified(cursor)
       THEN pc' = "add" /\ UNCHANGED cursor
       ELSE cursor' = cursor + 1 /\ UNCHANGED pc
    /\ lastData' = IF IdleExpired THEN lastData ELSE now
    /\ UNCHANGED <<now, cpVars, polling, failingSince, handled, replays, keys, nonceVars,
                   cycleVars>>

\* Mutant: cleanup also drops the nonces that are exactly nonceTTL old.
RetainedTooFew == {e \in seen : log[e].at > now - Window}

\* cleanup: the nonces that stay.
Retained == {e \in seen : log[e].at >= now - Window}

CleanedAt(due) == IF due THEN now ELSE lastCleanup

\* NonceStore.Add, at the end of Verify: a known nonce fails the event.
AddNonce ==
    LET due == now - lastCleanup >= Cleanup
        kept == IF due THEN Retained ELSE seen
    IN  /\ pc = "add"
        /\ lastCleanup' = CleanedAt(due)
        /\ IF cursor \in kept
           THEN seen' = kept /\ pc' = "stream" /\ cursor' = cursor + 1
           ELSE seen' = kept \cup {cursor} /\ pc' = "dispatch" /\ UNCHANGED cursor
        /\ UNCHANGED <<now, cpVars, engineVars, lastEventID, handled, replays, keys, cycleVars>>

\* Mutant: the keys are swapped in the call of SetKeys.
AnnouncedSwapped(e) ==
    [log[e].keys EXCEPT !.current = log[e].keys.previous, !.previous = log[e].keys.current]

\* decodeSigningKeys of event e's payload.
Announced(e) == log[e].keys

\* Dispatch: the handlers run; the one of a rotation sets the verifier's keys.
Dispatch ==
    /\ pc = "dispatch"
    /\ handled' = handled \cup {cursor}
    /\ keys' = IF log[cursor].rotates THEN Announced(cursor) ELSE keys
    /\ pc' = "stream" /\ cursor' = cursor + 1
    /\ UNCHANGED <<now, cpVars, engineVars, lastEventID, replays, nonceVars, cycleVars>>

----------------------------------------------------------------------------
(* The reconcile cycle, as far as signing keys go *)

\* The cycle fetches the state and finds that the signing keys have changed.
FetchKeys ==
    /\ fetched = NoKeys
    /\ <<cpKeys.current, cpKeys.previous>> # <<snapshotKeys.current, snapshotKeys.previous>>
    /\ fetched' = cpKeys
    /\ UNCHANGED <<now, cpVars, pc, engineVars, streamVars, keys, nonceVars, snapshotKeys>>

\* Mutant: the snapshot takes the state of the control plane at the end of
\* the cycle, instead of the one the handlers were given.
ApplyKeysSkipsAhead(ok) ==
    /\ fetched # NoKeys
    /\ keys' = fetched
    /\ snapshotKeys' = IF ok THEN cpKeys ELSE snapshotKeys
    /\ fetched' = NoKeys
    /\ UNCHANGED <<now, cpVars, pc, engineVars, streamVars, nonceVars>>

\* The signing-key handler runs; the snapshot is updated when every other
\* handler of the cycle succeeded too.
ApplyKeys(ok) ==
    /\ fetched # NoKeys
    /\ keys' = fetched
    /\ snapshotKeys' = IF ok THEN fetched ELSE snapshotKeys
    /\ fetched' = NoKeys
    /\ UNCHANGED <<now, cpVars, pc, engineVars, streamVars, nonceVars>>

----------------------------------------------------------------------------
Errors == {"auth", "permanent", "rate limit", "transient"}

Next ==
    \/ Tick
    \/ \E rotates \in BOOLEAN : Send(rotates)
    \/ \E from \in 1 .. MaxEvents + 1 : Connected(from)
    \/ StreamCloses
    \/ \E class \in Errors : ConnectError(class)
    \/ Wait \/ Shutdown
    \/ Receive \/ AddNonce \/ Dispatch
    \/ FetchKeys
    \/ \E ok \in BOOLEAN : ApplyKeys(ok)

Spec == Init /\ [][Next]_vars

\* The loop, the stream and the cycle go on. The network is not down for ever:
\* a connection that is tried again and again is accepted in the end, and an
\* event that is sent on one connection after another arrives. A cycle that is
\* repeated succeeds in the end.
Fairness ==
    /\ WF_vars(Wait) /\ WF_vars(AddNonce) /\ WF_vars(Dispatch) /\ WF_vars(FetchKeys)
    /\ SF_vars(\E from \in 1 .. MaxEvents + 1 : Connected(from))
    /\ SF_vars(Receive)
    /\ WF_vars(\E ok \in BOOLEAN : ApplyKeys(ok)) /\ SF_vars(ApplyKeys(TRUE))

FairSpec == Spec /\ Fairness

----------------------------------------------------------------------------
SigningKeys ==
    [current : 0 .. MaxEvents + 1, previous : 0 .. MaxEvents, expires : 0 .. MaxTime + Transition]

\* The types: every ID and nonce the agent knows is one of an event that was
\* sent, and failingSince is never in the future.
TypeOK ==
    /\ now \in 0 .. MaxTime
    /\ log \in Seq([at : 0 .. now, key : 1 .. MaxEvents + 1, rotates : BOOLEAN,
                    keys : SigningKeys])
    /\ Len(log) <= MaxEvents
    /\ {cpKeys, keys, fetched, snapshotKeys} \subseteq SigningKeys
    /\ pc \in {"connect", "stream", "add", "dispatch", "wait", "poll", "stopped"}
    /\ polling \in BOOLEAN /\ failingSince \in -1 .. now /\ lastData \in 0 .. now
    /\ cursor \in 1 .. Len(log) + 1 /\ lastEventID \in 0 .. Len(log)
    /\ seen \subseteq 1 .. Len(log) /\ handled \subseteq 1 .. Len(log)
    /\ lastCleanup \in 0 .. now /\ replays \in 0 .. MaxReplays

\* No event is handled a second time within its staleness window, however often
\* the control plane sends it (NonceStore.Add, cleanup): a nonce is not dropped
\* while its event could still pass Verify.
HandledOnce ==
    [][\A e \in handled : (pc = "add" /\ cursor = e /\ pc' = "dispatch") => Stale(e)]_vars

\* The event stream never moves the verifier to older keys than it has, whatever
\* is replayed and whatever the reconcile cycle has set in between: a rotation
\* is announced with a key that its own handling makes the previous one.
EventsNeverRollBack ==
    [][pc = "dispatch" /\ pc' = "stream" => keys'.current >= keys.current]_vars

\* Every event sent is received in the end, unless the control plane refused
\* the agent for good or it was shut down: an outage, a polling phase, or an event the verifier
\* refuses does not stop the stream (Run, runPollingFallback, Connect).
AllReceived == <>[](lastEventID = Len(log) \/ pc = "stopped")

\* The verifier ends with the control plane's keys: by the event, or by the
\* reconcile cycle when the event was refused, even if a cycle set keys that
\* were out of date by then.
KeysCatchUp == <>[](keys.current = cpKeys.current)

\* "If the SSE stream cannot be re-established after 5 minutes, plexd falls
\* back to polling": the stream has been down that long when Run starts to poll.
PollsAfterOutage == [][~ polling /\ polling' => now - lastData >= Fallback]_vars

============================================================================
