---------------------------- MODULE LossyQueue ----------------------------
(***************************************************************************)
(* What a telemetry forwarder promises: a first-in first-out queue of      *)
(* bounded capacity that gives up only its oldest entries, and only when   *)
(* newer ones need the room.  An entry may be delivered and kept, when the *)
(* sender does not learn that it arrived.  The n-th entry offered is n.    *)
(***************************************************************************)
EXTENDS Naturals, Sequences

CONSTANTS
    Capacity,  \* most entries the queue holds
    MaxArrival \* most entries that arrive at once

VARIABLES offered, held, delivered

queueVars == <<offered, held, delivered>>

KeepNewest(s, n) ==
    IF Len(s) > n THEN SubSeq(s, Len(s) - n + 1, Len(s)) ELSE s

QueueInit == offered = 0 /\ held = <<>> /\ delivered = <<>>

Enqueue(n) ==
    /\ offered' = offered + n
    /\ held' = KeepNewest(held \o [i \in 1 .. n |-> offered + i], Capacity)
    /\ delivered' = delivered

Deliver(n) ==
    /\ delivered' = delivered \o SubSeq(held, 1, n)
    /\ held' \in {held, SubSeq(held, n + 1, Len(held))}
    /\ offered' = offered

QueueNext ==
    \/ \E n \in 0 .. MaxArrival : Enqueue(n)
    \/ \E n \in 1 .. Len(held) : Deliver(n)

QueueSpec == QueueInit /\ [][QueueNext]_queueVars

=============================================================================
