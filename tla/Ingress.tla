------------------------------ MODULE Ingress ------------------------------
(***************************************************************************)
(* Public ingress on a bridge node (internal/bridge/ingress.go and         *)
(* ingress_handler.go): per rule a TCP listener, an accept loop and one    *)
(* goroutine per proxied connection, under the rule's context.  Rules are  *)
(* added and removed by events and by the reconcile handler, and all of    *)
(* them end with Teardown.                                                 *)
(*                                                                         *)
(* Rules are numbered as they are added.  Critical sections of the         *)
(* manager's lock are steps; RemoveRule cancels, closes and waits for the  *)
(* accept loop after it has released the lock.  A rule's configuration is  *)
(* its listen port: two listeners cannot have one port at a time.          *)
(***************************************************************************)
EXTENDS Naturals, FiniteSets

CONSTANTS
    RuleID, Port,
    MaxIngressRules,  \* Config.MaxIngressRules
    Conn,             \* client connections
    MaxRulesAdded,    \* bound: rules added
    MaxIngressCycles, \* bound: reconciliation cycles
    MaxListenFails    \* bound: failures of Listen or Accept from outside

NoPort == 0

ASSUME IngressAssumption ==
    /\ \A n \in {MaxIngressRules, MaxRulesAdded, MaxIngressCycles, MaxListenFails} : n \in Nat
    /\ IsFiniteSet(RuleID) /\ IsFiniteSet(Conn)
    /\ NoPort \notin Port

RuleNo == 1..MaxRulesAdded
NoRule == 0

VARIABLES
    ingress,       \* IngressManager.active
    activeRules,   \* IngressManager.activeRules: ID -> number, or NoRule
    port,          \* number -> the port of the rule
    rulesAdded, listenFails,
    bound,         \* rules whose listener is open
    ruleCancelled, \* rules whose context is cancelled
    ruleLoop,      \* number -> accept loop: "none", "accept", "done"
    remover,       \* number -> RemoveRule's goroutine: "none", "cancel", "close", "wait", "back"
    tearing,       \* Teardown: "no", "wait", "back"
    proxied,       \* connection -> its rule and state
    connCount,     \* IngressManager.connCount
    ruleCycle      \* the reconcile handler

ingressVars == <<ingress, activeRules, port, rulesAdded, listenFails, bound, ruleCancelled,
                 ruleLoop, remover, tearing, proxied, connCount, ruleCycle>>
connVars == <<proxied, connCount>>
boundVars == <<rulesAdded, listenFails>>

NoRuleCycle(n) == [n |-> n, on |-> FALSE]

IngressInit ==
    /\ ingress = FALSE
    /\ activeRules = [id \in RuleID |-> NoRule]
    /\ port = [n \in RuleNo |-> CHOOSE p \in Port : TRUE]
    /\ rulesAdded = 0 /\ listenFails = 0
    /\ bound = {} /\ ruleCancelled = {}
    /\ ruleLoop = [n \in RuleNo |-> "none"]
    /\ remover = [n \in RuleNo |-> "none"]
    /\ tearing = "no"
    /\ proxied = [c \in Conn |-> [rule |-> NoRule, at |-> "none"]]
    /\ connCount = 0
    /\ ruleCycle = NoRuleCycle(0)

Held == {activeRules[id] : id \in RuleID} \ {NoRule}
InUse(p) == \E n \in bound : port[n] = p

Closing == {n \in RuleNo : remover[n] \in {"cancel", "close"}}

\* The reconcile handler goes on with what it has left to visit and to add.
Onward(visit, add, waiting, clean) ==
    [n |-> ruleCycle.n, on |-> TRUE, want |-> ruleCycle.want, visit |-> visit, add |-> add,
     waiting |-> waiting, clean |-> ruleCycle.clean /\ clean]

\* Any other operation: the cycle under way no longer runs undisturbed.
Interfere ==
    ruleCycle' = IF ruleCycle.on
                 THEN Onward(ruleCycle.visit, ruleCycle.add, ruleCycle.waiting, FALSE)
                 ELSE ruleCycle

----------------------------------------------------------------------------
(* The manager *)

IngressSetup ==
    /\ ~ingress /\ tearing = "no" /\ ingress' = TRUE
    /\ Interfere
    /\ UNCHANGED <<activeRules, port, boundVars, bound, ruleCancelled, ruleLoop, remover,
                   tearing, connVars>>

Refused(id) == ~ingress \/ activeRules[id] # NoRule \/ Cardinality(Held) >= MaxIngressRules

\* AddRule.  Listen fails when the port is in use, and may fail otherwise.
AddRule(id, p) ==
    LET n == rulesAdded + 1
    IN  /\ ~Refused(id) /\ ~InUse(p) /\ rulesAdded < MaxRulesAdded
        /\ rulesAdded' = n
        /\ port' = [port EXCEPT ![n] = p]
        /\ bound' = bound \union {n}
        /\ activeRules' = [activeRules EXCEPT ![id] = n]
        /\ ruleLoop' = [ruleLoop EXCEPT ![n] = "accept"]
        /\ UNCHANGED <<ingress, listenFails, ruleCancelled, remover, tearing, connVars>>

\* Mutant: the rule leaves the table and nobody stops it.
ForgetRule(id) ==
    /\ activeRules' = [activeRules EXCEPT ![id] = NoRule]
    /\ UNCHANGED <<ingress, port, boundVars, bound, ruleCancelled, ruleLoop, remover, tearing,
                   connVars>>

\* RemoveRule's critical section takes the rule out of the table.
RemoveRule(id) ==
    /\ activeRules' = [activeRules EXCEPT ![id] = NoRule]
    /\ remover' = [n \in RuleNo |-> IF n = activeRules[id] THEN "cancel" ELSE remover[n]]
    /\ UNCHANGED <<ingress, port, boundVars, bound, ruleCancelled, ruleLoop, tearing, connVars>>

RemoverStep(n, from, to) == remover[n] = from /\ remover' = [remover EXCEPT ![n] = to]

CancelRule(n) ==
    /\ RemoverStep(n, "cancel", "close")
    /\ ruleCancelled' = ruleCancelled \union {n}
    /\ UNCHANGED <<ingress, activeRules, port, boundVars, bound, ruleLoop, tearing, connVars,
                   ruleCycle>>

CloseListener(n) ==
    /\ RemoverStep(n, "close", "wait")
    /\ bound' = bound \ {n}
    /\ UNCHANGED <<ingress, activeRules, port, boundVars, ruleCancelled, ruleLoop, tearing,
                   connVars, ruleCycle>>

RemoveRuleReturns(n) ==
    /\ RemoverStep(n, "wait", "back") /\ ruleLoop[n] = "done"
    /\ UNCHANGED <<ingress, activeRules, port, boundVars, bound, ruleCancelled, ruleLoop,
                   tearing, connVars, ruleCycle>>

\* Teardown cancels and closes every rule under the lock, then waits.
IngressTeardown ==
    /\ ingress /\ ingress' = FALSE /\ tearing' = "wait"
    /\ ruleCancelled' = ruleCancelled \union Held
    /\ bound' = bound \ Held
    /\ activeRules' = [id \in RuleID |-> NoRule]
    /\ Interfere
    /\ UNCHANGED <<port, boundVars, ruleLoop, remover, connVars>>

\* It waits for the loops of the rules it closed: those not left to a remover.
TeardownReturns ==
    /\ tearing = "wait" /\ tearing' = "back"
    /\ \A n \in RuleNo : ruleLoop[n] = "accept" => remover[n] # "none"
    /\ UNCHANGED <<ingress, activeRules, port, boundVars, bound, ruleCancelled, ruleLoop,
                   remover, connVars, ruleCycle>>

----------------------------------------------------------------------------
(* Accept loops and proxied connections *)

AcceptConn(n, c) ==
    /\ ruleLoop[n] = "accept" /\ n \in bound
    /\ proxied[c].at = "none"
    /\ connCount' = connCount + 1
    /\ proxied' = [proxied EXCEPT ![c] = [rule |-> n, at |-> "dial"]]
    /\ UNCHANGED <<ingress, activeRules, port, boundVars, bound, ruleCancelled, ruleLoop,
                   remover, tearing, ruleCycle>>

\* Accept fails once the listener is closed, and may fail before: the loop ends
\* in both cases.
AcceptLoopReturns(n) ==
    /\ ruleLoop[n] = "accept" /\ ruleLoop' = [ruleLoop EXCEPT ![n] = "done"]
    /\ n \in bound => listenFails < MaxListenFails
    /\ listenFails' = listenFails + IF n \in bound THEN 1 ELSE 0
    /\ UNCHANGED <<ingress, activeRules, port, rulesAdded, bound, ruleCancelled, remover,
                   tearing, connVars, ruleCycle>>

ProxyStep(c, from, to) ==
    /\ proxied[c].at = from /\ proxied' = [proxied EXCEPT ![c].at = to]
    /\ UNCHANGED <<ingress, activeRules, port, boundVars, bound, ruleCancelled, ruleLoop,
                   remover, tearing, ruleCycle>>

\* DialContext ends with the target connected, or with an error, at the latest
\* when the dial timeout passes or the context is cancelled.
DialTarget(c) == ProxyStep(c, "dial", "copy") /\ proxied[c].rule \notin ruleCancelled /\ UNCHANGED connCount
DialTargetFails(c) == ProxyStep(c, "dial", "close") /\ UNCHANGED connCount

\* Mutant: the proxy waits for the copies only, not for the context.
CopyDoneOnly(c) == FALSE

\* The select that ends a proxied connection from this side.
ContextDone(c) == proxied[c].rule \in ruleCancelled

EndOfContext(c) == ContextDone(c) /\ ProxyStep(c, "copy", "close") /\ UNCHANGED connCount
CopyDone(c) == ProxyStep(c, "copy", "close") /\ UNCHANGED connCount

\* The deferred close and decrement.
ProxyReturns(c) == ProxyStep(c, "close", "gone") /\ connCount' = connCount - 1

----------------------------------------------------------------------------
(* Callers *)

\* HandleIngressRuleAssigned and HandleIngressRuleRevoked.
RuleEvent ==
    /\ \E id \in RuleID : \/ \E p \in Port : AddRule(id, p)
                          \/ ingress /\ activeRules[id] # NoRule /\ RemoveRule(id)
    /\ Interfere

Wanted == {w \in [RuleID -> Port \union {NoPort}] :
              /\ \A i, j \in RuleID : i # j /\ w[i] = w[j] => w[i] = NoPort
              /\ Cardinality({id \in RuleID : w[id] # NoPort}) <= MaxIngressRules}

\* IngressReconcileHandler lists the active rules once, visits each of them, and
\* then adds the rules that are missing or were removed to be restarted.
PlanRules ==
    \E w \in Wanted :
        LET current == {id \in RuleID : activeRules[id] # NoRule}
        IN  /\ ~ruleCycle.on /\ ruleCycle.n < MaxIngressCycles
            /\ ruleCycle' = [n |-> ruleCycle.n + 1, on |-> TRUE, want |-> w, visit |-> current,
                             add |-> {id \in RuleID : w[id] # NoPort} \ current,
                             waiting |-> NoRule, clean |-> Closing = {}]
            /\ UNCHANGED <<ingress, activeRules, port, boundVars, bound, ruleCancelled, ruleLoop,
                           remover, tearing, connVars>>

\* Mutant: RemoveRule returns without waiting for the listener and the loop.
NoWait(id) == NoRule

\* The rule whose removal keeps the handler waiting.
WaitsFor(id) == activeRules[id]

VisitRule ==
    /\ ruleCycle.on /\ ruleCycle.waiting = NoRule
    /\ \E id \in ruleCycle.visit :
         IF ingress /\ activeRules[id] # NoRule /\ port[activeRules[id]] # ruleCycle.want[id]
         THEN /\ RemoveRule(id)
              /\ ruleCycle' = Onward(ruleCycle.visit \ {id},
                                     IF ruleCycle.want[id] = NoPort THEN ruleCycle.add
                                     ELSE ruleCycle.add \union {id}, WaitsFor(id), TRUE)
         ELSE /\ ruleCycle' = Onward(ruleCycle.visit \ {id}, ruleCycle.add, NoRule, TRUE)
              /\ UNCHANGED <<ingress, activeRules, port, boundVars, bound, ruleCancelled, ruleLoop,
                             remover, tearing, connVars>>

RemovalReturns ==
    /\ ruleCycle.on /\ ruleCycle.waiting # NoRule
    /\ remover[ruleCycle.waiting] = "back"
    /\ ruleCycle' = Onward(ruleCycle.visit, ruleCycle.add, NoRule, TRUE)
    /\ UNCHANGED <<ingress, activeRules, port, boundVars, bound, ruleCancelled, ruleLoop,
                   remover, tearing, connVars>>

AddMissing ==
    /\ ruleCycle.on /\ ruleCycle.waiting = NoRule /\ ruleCycle.visit = {}
    /\ \E id \in ruleCycle.add :
         LET p == ruleCycle.want[id]
             fault == ~Refused(id) /\ ~InUse(p)
         IN  \/ AddRule(id, p) /\ ruleCycle' = Onward({}, ruleCycle.add \ {id}, NoRule, TRUE)
             \/ /\ fault => listenFails < MaxListenFails
                /\ listenFails' = listenFails + IF fault THEN 1 ELSE 0
                /\ ruleCycle' = Onward({}, ruleCycle.add \ {id}, NoRule, ~fault)
                /\ UNCHANGED <<ingress, activeRules, port, rulesAdded, bound, ruleCancelled,
                               ruleLoop, remover, tearing, connVars>>

CycleOver == ruleCycle.on /\ ruleCycle.visit = {} /\ ruleCycle.add = {} /\ ruleCycle.waiting = NoRule

RuleCycleReturns ==
    /\ CycleOver
    /\ ruleCycle' = NoRuleCycle(ruleCycle.n)
    /\ UNCHANGED <<ingress, activeRules, port, boundVars, bound, ruleCancelled, ruleLoop,
                   remover, tearing, connVars>>

IngressNext ==
    \/ IngressSetup \/ IngressTeardown \/ TeardownReturns
    \/ RuleEvent \/ PlanRules \/ VisitRule \/ RemovalReturns \/ AddMissing \/ RuleCycleReturns
    \/ \E n \in RuleNo :
         \/ CancelRule(n) \/ CloseListener(n) \/ RemoveRuleReturns(n) \/ AcceptLoopReturns(n)
         \/ \E c \in Conn : AcceptConn(n, c)
    \/ \E c \in Conn : DialTarget(c) \/ DialTargetFails(c) \/ EndOfContext(c) \/ CopyDone(c)
                         \/ ProxyReturns(c)

\* Goroutines that can go on do; a dial ends.  Clients and targets owe nothing.
IngressFairness ==
    /\ \A n \in RuleNo :
         /\ WF_ingressVars(CancelRule(n) \/ CloseListener(n) \/ RemoveRuleReturns(n))
         /\ WF_ingressVars(AcceptLoopReturns(n) /\ n \notin bound)
    /\ \A c \in Conn :
         WF_ingressVars(DialTarget(c) \/ DialTargetFails(c) \/ EndOfContext(c) \/ ProxyReturns(c))
    /\ WF_ingressVars(TeardownReturns)

IngressSpec == IngressInit /\ [][IngressNext]_ingressVars /\ IngressFairness

----------------------------------------------------------------------------
(* Properties *)

\* No listener is orphaned: an open one belongs to a rule in the table or to a
\* RemoveRule that will close it.  And the connection count the heartbeat
\* reports is the number of proxied connections.
IngressHeld ==
    /\ bound \subseteq Held \union Closing
    /\ connCount = Cardinality({c \in Conn : proxied[c].at \in {"dial", "copy", "close"}})

\* A handler cycle that no event, teardown or failing call disturbs leaves
\* exactly the desired rules, each on its desired port: a port that a rule of
\* the same cycle gives up is free by the time another rule takes it.
IngressCycleExact ==
    CycleOver /\ ruleCycle.clean /\ ingress =>
        \A id \in RuleID :
            IF ruleCycle.want[id] = NoPort THEN activeRules[id] = NoRule
            ELSE activeRules[id] # NoRule /\ port[activeRules[id]] = ruleCycle.want[id]

\* Once a rule is removed or the manager torn down, its listener, accept loop
\* and all of its proxied connections end, those accepted or dialled while the
\* removal was under way included, and RemoveRule and Teardown return.  (Rule
\* numbers are not used twice, so a rule that left the table stays out of it.)
IngressDrains ==
    <>[](/\ \A n \in RuleNo : ruleLoop[n] # "none" /\ n \notin Held =>
              /\ n \notin bound /\ ruleLoop[n] = "done" /\ remover[n] \in {"none", "back"}
              /\ \A c \in Conn : proxied[c].rule = n => proxied[c].at = "gone"
         /\ tearing # "wait")
=============================================================================
