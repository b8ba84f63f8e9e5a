-------------------------- MODULE ActionExecutor --------------------------
(***************************************************************************)
(* Remote actions (internal/actions/executor.go, handler.go): requests     *)
(* arrive, are rejected or accepted under the executor's mutex, accepted   *)
(* ones run in a goroutine each, and Shutdown cancels what runs and waits. *)
(*                                                                         *)
(* A request is a number in order of arrival; several requests may carry   *)
(* the same execution ID.  Every step between two points where the mutex   *)
(* is released is one action.                                              *)
(***************************************************************************)
EXTENDS Naturals, FiniteSets

CONSTANTS
    Execution,     \* execution IDs
    NoID,          \* no execution ID yet
    Enabled,       \* Config.Enabled
    MaxConcurrent, \* Config.MaxConcurrent
    MaxRequests    \* bound: requests that arrive

ASSUME LimitsAssumption ==
    /\ NoID \notin Execution
    /\ Enabled \in BOOLEAN
    /\ MaxConcurrent \in Nat \ {0}
    /\ MaxRequests \in Nat

Request == 1 .. MaxRequests

VARIABLES
    arrived,      \* number of requests so far
    id,           \* request -> its execution ID, while its call or goroutine has it
    step,         \* request -> where its Execute call or its goroutine is
    cancelled,    \* requests whose actionCtx is cancelled
    expired,      \* requests whose timeoutCtx passed its deadline first
    status,       \* request -> ExecutionResult.Status
    active,       \* the active map: execution IDs with a cancel function
    wg,           \* the wait group's counter
    shuttingDown, \* the field
    shutdown,     \* where the Shutdown call is
    toCancel      \* local of Shutdown: cancel functions still to call

reqVars == <<arrived, id>>
vars == <<reqVars, step, cancelled, expired, status, active, wg, shuttingDown,
          shutdown, toCancel>>

Init ==
    /\ arrived = 0
    /\ id = [r \in Request |-> NoID]
    /\ step = [r \in Request |-> "absent"]
    /\ cancelled = {} /\ expired = {}
    /\ status = [r \in Request |-> "none"]
    /\ active = {}
    /\ wg = 0
    /\ shuttingDown = FALSE /\ shutdown = "none" /\ toCancel = {}

\* The goroutines between their registration in active and its removal.
InFlight == {r \in Request : step[r] \in {"ack", "launch", "run", "report", "cleanup"}}

----------------------------------------------------------------------------
(* Execute *)

\* The checks of HandleActionRequest and Execute, in order.
Verdict(i, known) ==
    IF ~ Enabled THEN "actions_disabled"
    ELSE IF shuttingDown THEN "shutting_down"
    ELSE IF i \in active THEN "duplicate_execution_id"
    ELSE IF Cardinality(active) >= MaxConcurrent THEN "max_concurrent_reached"
    ELSE IF known THEN "accepted" ELSE "unknown_action"

\* A request arrives, for a known action or not: the part under the mutex.
Execute(i, known) ==
    /\ arrived < MaxRequests
    /\ LET r == arrived + 1
           v == Verdict(i, known) IN
       /\ arrived' = r
       /\ id' = [id EXCEPT ![r] = i]
       /\ step' = [step EXCEPT ![r] = IF v = "accepted" THEN "ack" ELSE "reject"]
       /\ active' = IF v = "accepted" THEN active \cup {i} ELSE active
    /\ UNCHANGED <<cancelled, expired, status, wg, shuttingDown, shutdown, toCancel>>

\* AckExecution, accepted or rejected, whose error is only logged; Execute
\* then goes on or returns.
Ack(r) ==
    /\ step[r] \in {"ack", "reject"}
    /\ step' = [step EXCEPT ![r] = IF @ = "ack" THEN "launch" ELSE "rejected"]
    /\ id' = [id EXCEPT ![r] = IF step[r] = "ack" THEN @ ELSE NoID]
    /\ UNCHANGED <<arrived, cancelled, expired, status, active, wg, shuttingDown,
                   shutdown, toCancel>>

\* wg.Add(1) and the go statement.
Launch(r) ==
    /\ step[r] = "launch"
    /\ wg' = wg + 1
    /\ step' = [step EXCEPT ![r] = "run"]
    /\ UNCHANGED <<reqVars, cancelled, expired, status, active, shuttingDown,
                   shutdown, toCancel>>

----------------------------------------------------------------------------
(* runAction *)

\* The deadline of timeoutCtx passes before its parent is cancelled.
Expire(r) ==
    /\ step[r] = "run"
    /\ r \notin cancelled \cup expired
    /\ expired' = expired \cup {r}
    /\ UNCHANGED <<reqVars, step, cancelled, status, active, wg, shuttingDown,
                   shutdown, toCancel>>

\* The context the event was dispatched with ends: the agent stops. Every
\* actionCtx, of this request and of later ones, is cancelled with it.
ParentDone ==
    /\ cancelled # Request
    /\ cancelled' = Request
    /\ UNCHANGED <<reqVars, step, expired, status, active, wg, shuttingDown,
                   shutdown, toCancel>>

\* Mutant: a cancellation is taken for the reason before the deadline is.
StatusCancelFirst(r, err, exitCode) ==
    CASE err # "nil" /\ r \in cancelled                      -> "cancelled"
      [] err # "nil" /\ r \notin cancelled /\ r \in expired  -> "timeout"
      [] err # "nil" /\ r \notin cancelled \cup expired      -> IF err = "exit" THEN "failed" ELSE "error"
      [] err = "nil"                                         -> IF exitCode # 0 THEN "failed" ELSE "success"

DetermineStatus(r, err, exitCode) ==
    IF err # "nil"
    THEN IF r \in expired THEN "timeout"
         ELSE IF r \in cancelled THEN "cancelled"
         ELSE IF err = "exit" THEN "failed" ELSE "error"
    ELSE IF exitCode # 0 THEN "failed" ELSE "success"

\* The builtin or hook returns: no error, an ExitError, or another error.
ActionReturns(r, err, exitCode) ==
    /\ step[r] = "run"
    /\ status' = [status EXCEPT ![r] = DetermineStatus(r, err, exitCode)]
    /\ step' = [step EXCEPT ![r] = "report"]
    /\ UNCHANGED <<reqVars, cancelled, expired, active, wg, shuttingDown,
                   shutdown, toCancel>>

\* Mutant: a panic ends the goroutine without the deferred cleanup.
ActionPanicsUncaught(r) ==
    /\ step[r] = "run"
    /\ status' = [status EXCEPT ![r] = "error"]
    /\ step' = [step EXCEPT ![r] = "exit"]
    /\ UNCHANGED <<reqVars, cancelled, expired, active, wg, shuttingDown,
                   shutdown, toCancel>>

\* A panic is recovered and reported as an error.
ActionPanics(r) ==
    /\ step[r] = "run"
    /\ status' = [status EXCEPT ![r] = "error"]
    /\ step' = [step EXCEPT ![r] = "report"]
    /\ UNCHANGED <<reqVars, cancelled, expired, active, wg, shuttingDown,
                   shutdown, toCancel>>

\* ReportResult is called and returns; an error is only logged.
ReportResult(r) ==
    /\ step[r] = "report"
    /\ step' = [step EXCEPT ![r] = "cleanup"]
    /\ UNCHANGED <<reqVars, cancelled, expired, status, active, wg, shuttingDown,
                   shutdown, toCancel>>

\* The deferred cancel and delete; runAction's locals go with it.
Cleanup(r) ==
    /\ step[r] = "cleanup"
    /\ status' = [status EXCEPT ![r] = "none"]
    /\ expired' = expired \ {r}
    /\ cancelled' = cancelled \cup {r}
    /\ active' = active \ {id[r]}
    /\ step' = [step EXCEPT ![r] = "exit"]
    /\ id' = [id EXCEPT ![r] = NoID]
    /\ UNCHANGED <<arrived, wg, shuttingDown, shutdown, toCancel>>

\* Mutant: the goroutine ends without wg.Done.
WgDoneForgotten(r) ==
    /\ step[r] = "exit"
    /\ step' = [step EXCEPT ![r] = "done"]
    /\ UNCHANGED <<reqVars, wg, cancelled, expired, status, active, shuttingDown,
                   shutdown, toCancel>>

WgDone(r) ==
    /\ step[r] = "exit"
    /\ wg' = wg - 1
    /\ step' = [step EXCEPT ![r] = "done"]
    /\ UNCHANGED <<reqVars, cancelled, expired, status, active, shuttingDown,
                   shutdown, toCancel>>

----------------------------------------------------------------------------
(* Shutdown *)

\* The part under the mutex collects the cancel functions.
BeginShutdown ==
    /\ shutdown = "none"
    /\ shuttingDown' = TRUE
    /\ toCancel' = {r \in InFlight : id[r] \in active}
    /\ shutdown' = "cancel"
    /\ UNCHANGED <<reqVars, step, cancelled, expired, status, active, wg>>

\* Mutant: Shutdown waits without cancelling.
CancelNothing(r) ==
    /\ shutdown = "cancel"
    /\ r \in toCancel
    /\ toCancel' = toCancel \ {r}
    /\ UNCHANGED <<reqVars, step, cancelled, expired, status, active, wg,
                   shuttingDown, shutdown>>

CancelAction(r) ==
    /\ shutdown = "cancel"
    /\ r \in toCancel
    /\ cancelled' = cancelled \cup {r}
    /\ toCancel' = toCancel \ {r}
    /\ UNCHANGED <<reqVars, step, expired, status, active, wg, shuttingDown,
                   shutdown>>

\* wg.Wait returns when the counter is zero.
EndShutdown ==
    /\ shutdown = "cancel"
    /\ toCancel = {}
    /\ wg = 0
    /\ shutdown' = "returned"
    /\ UNCHANGED <<reqVars, step, cancelled, expired, status, active, wg,
                   shuttingDown, toCancel>>

----------------------------------------------------------------------------
Returns(r) ==
    \/ \E err \in {"nil", "exit", "other"}, exitCode \in {0, 1} : ActionReturns(r, err, exitCode)
    \/ ActionPanics(r)

Advance(r) ==
    \/ Ack(r) \/ ReportResult(r)
    \/ Launch(r) \/ Returns(r) \/ Cleanup(r) \/ WgDone(r)

Next ==
    \/ \E i \in Execution, known \in BOOLEAN : Execute(i, known)
    \/ \E r \in Request : Advance(r) \/ Expire(r) \/ CancelAction(r)
    \/ ParentDone
    \/ BeginShutdown
    \/ EndShutdown

Spec == Init /\ [][Next]_vars

\* Goroutines are scheduled, control-plane calls return (the client has
\* timeouts), and an action ends at the latest when its deadline or a
\* cancellation kills it.
Fairness ==
    /\ \A r \in Request : WF_vars(Advance(r)) /\ WF_vars(CancelAction(r))
    /\ WF_vars(EndShutdown)

FairSpec == Spec /\ Fairness

----------------------------------------------------------------------------
Step == {"absent", "reject", "rejected", "ack", "launch", "run", "report",
         "cleanup", "exit", "done"}

\* Requests are numbered as they arrive, and the wait group's counter, which
\* panics below zero in Go, is a natural number.
TypeOK ==
    /\ arrived \in 0 .. MaxRequests
    /\ id \in [Request -> Execution \cup {NoID}]
    /\ step \in [Request -> Step]
    /\ cancelled \subseteq Request /\ expired \subseteq Request
    /\ active \subseteq Execution
    /\ wg \in Nat
    /\ shuttingDown \in BOOLEAN
    /\ shutdown \in {"none", "cancel", "returned"}
    /\ toCancel \subseteq Request
    /\ \A r \in Request : r > arrived <=> step[r] = "absent"

\* The active map holds exactly the IDs of the executions in flight: however
\* an action ends (return, timeout, cancellation, panic), its slot is freed,
\* and no sooner than its result was reported.
ActiveIsInFlight == active = {id[r] : r \in InFlight}

\* One execution ID is never in flight twice, even when the request is
\* delivered again while the first one is being acknowledged or cleaned up.
OneRunPerID == \A r, s \in InFlight : id[r] = id[s] => r = s

\* At most MaxConcurrent executions are in flight.
ConcurrencyBounded == Cardinality(InFlight) <= MaxConcurrent

\* The goroutines the wait group counts.
Launched == {r \in Request : step[r] \in {"run", "report", "cleanup", "exit"}}

\* wg.Wait waits for exactly the goroutines that were launched and have not
\* ended: the counter never goes negative and never keeps a finished one.
WgCounts == wg = Cardinality(Launched)

\* The executor's books are exact whatever an execution goes through: slots,
\* execution IDs and the wait group agree with the goroutines there are.
SlotsExact == ActiveIsInFlight /\ OneRunPerID /\ WgCounts /\ ConcurrencyBounded

\* Once Shutdown has returned nothing runs with a live context: an execution
\* that is still in flight then was accepted before Shutdown took the mutex,
\* and Shutdown has cancelled it.
ShutdownCancelsAll == shutdown = "returned" => InFlight \subseteq cancelled

\* What makes ShutdownCancelsAll inductive: from the moment Shutdown holds the
\* mutex, what is in flight is cancelled or about to be.
ShutdownCovers ==
    /\ shuttingDown <=> shutdown # "none"
    /\ shutdown # "none" => InFlight \subseteq cancelled \cup toCancel
    /\ shutdown = "returned" => toCancel = {}

\* A deadline is never reported as a cancellation.
TimeoutReported ==
    \A r \in Request : r \in expired => status[r] # "cancelled"

\* Every request is answered: it is rejected or it runs to its end, and when
\* no more requests arrive nothing is left running and a Shutdown that was
\* called has returned.
AllSettle ==
    <>[](/\ \A r \in Request : step[r] \in {"absent", "rejected", "done"}
         /\ shutdown # "cancel")

\* executor.go: Shutdown "waits for all in-flight goroutines to drain".
ShutdownDrains == shutdown = "returned" => InFlight = {}

=============================================================================
