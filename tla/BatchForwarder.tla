-------------------------- MODULE BatchForwarder --------------------------
(***************************************************************************)
(* The collect-and-report loop shared by the log forwarder, the audit      *)
(* forwarder and the metrics manager (internal/logfwd/forwarder.go,        *)
(* internal/auditfwd/forwarder.go, internal/metrics/manager.go): the same  *)
(* code over three entry types.                                            *)
(*                                                                         *)
(* One goroutine collects and flushes, so the mutex never has a second     *)
(* holder.  The n-th entry collected is the number n.                      *)
(***************************************************************************)
EXTENDS Integers, Sequences, Functions

CONSTANTS
    Sources,       \* number of sources (collectors)
    BatchSize,     \* Config.BatchSize, at least 1
    MaxPerCollect, \* bound: entries one source returns at a time
    MaxEntries,    \* bound: entries collected in all
    MaxFaults      \* bound: failed sources and failed reports

ASSUME SizesAssumption ==
    /\ Sources \in Nat
    /\ BatchSize \in Nat \ {0}
    /\ MaxPerCollect \in Nat /\ MaxEntries \in Nat /\ MaxFaults \in Nat

VARIABLES
    stage,     \* "collect", "select", "flush", "final" or "stopped"
    collector, \* local of collect: the next source
    buffer,    \* the buffer field
    batch,     \* local of flush: what has not been sent yet
    cancelled, \* ctx is done
    collected, \* number of entries collected so far
    faults,
    received,  \* the entries the control plane got, in order
    unanswered \* reports that arrived although the call returned an error

forwarderVars == <<stage, collector, buffer, batch, cancelled, collected, faults, received, unanswered>>

\* collect returns after the last source.
AfterSource(i) == IF i <= Sources THEN "collect" ELSE "select"

ForwarderInit ==
    /\ stage = AfterSource(1)    \* "First cycle runs immediately."
    /\ collector = 1
    /\ buffer = <<>> /\ batch = <<>>
    /\ cancelled = FALSE
    /\ collected = 0 /\ faults = 0
    /\ received = <<>> /\ unanswered = 0

Cancel ==
    /\ ~ cancelled
    /\ cancelled' = TRUE
    /\ UNCHANGED <<stage, collector, buffer, batch, collected, faults, received, unanswered>>

----------------------------------------------------------------------------
(* collect *)

\* Mutant: the newest entries are dropped.
DropNewest(s) ==
    LET limit == 2 * BatchSize IN
    IF Len(s) > limit THEN SubSeq(s, 1, limit) ELSE s

\* enforceCapacity drops the oldest entries beyond 2 * BatchSize.
EnforceCapacity(s) ==
    LET limit == 2 * BatchSize IN
    IF Len(s) > limit THEN SubSeq(s, Len(s) - limit + 1, Len(s)) ELSE s

NewEntries(n) == [i \in 1 .. n |-> collected + i]

\* A source returns n entries.
CollectFrom(n) ==
    /\ stage = "collect" /\ collector <= Sources
    /\ collected + n <= MaxEntries
    /\ buffer' = EnforceCapacity(buffer \o NewEntries(n))
    /\ collected' = collected + n
    /\ collector' = collector + 1
    /\ stage' = AfterSource(collector + 1)
    /\ UNCHANGED <<batch, cancelled, faults, received, unanswered>>

\* A source returns an error or panics (safeCollect): it is skipped.
SourceFails ==
    /\ stage = "collect" /\ collector <= Sources
    /\ faults < MaxFaults
    /\ faults' = faults + 1
    /\ collector' = collector + 1
    /\ stage' = AfterSource(collector + 1)
    /\ UNCHANGED <<buffer, batch, cancelled, collected, received, unanswered>>

----------------------------------------------------------------------------
(* Run: the select statement. *)

CollectTick ==
    /\ stage = "select"
    /\ collector' = 1
    /\ stage' = AfterSource(1)
    /\ UNCHANGED <<buffer, batch, cancelled, collected, faults, received, unanswered>>

\* Mutant: less than a full batch is not sent.
SwapFullBuffer(flushing, done) ==
    /\ IF Len(buffer) < BatchSize
       THEN UNCHANGED <<batch, buffer>> /\ stage' = done
       ELSE batch' = buffer /\ buffer' = <<>> /\ stage' = flushing
    /\ UNCHANGED <<collector, cancelled, collected, faults, received, unanswered>>

\* The first part of flush: take the buffer; there may be nothing to send.
SwapBuffer(flushing, done) ==
    /\ batch' = buffer
    /\ buffer' = <<>>
    /\ stage' = IF buffer = <<>> THEN done ELSE flushing
    /\ UNCHANGED <<collector, cancelled, collected, faults, received, unanswered>>

ReportTick ==
    /\ stage = "select"
    /\ SwapBuffer("flush", "select")

\* ctx.Done: a last flush with a context that is never done.
Done ==
    /\ stage = "select"
    /\ cancelled
    /\ SwapBuffer("final", "stopped")

----------------------------------------------------------------------------
(* flush: one chunk *)

ChunkSize == IF Len(batch) < BatchSize THEN Len(batch) ELSE BatchSize
Chunk == SubSeq(batch, 1, ChunkSize)
AfterFlush == IF stage = "final" THEN "stopped" ELSE "select"

\* Mutant: the next chunk starts with the last entry of this one.
UnsentOverlaps == SubSeq(batch, ChunkSize, Len(batch))

Unsent == SubSeq(batch, ChunkSize + 1, Len(batch))

Report ==
    /\ stage = "final" \/ (stage = "flush" /\ ~ cancelled)
    /\ received' = received \o Chunk
    /\ batch' = Unsent
    /\ stage' = IF batch' = <<>> THEN AfterFlush ELSE stage
    /\ UNCHANGED <<collector, buffer, cancelled, collected, faults, unanswered>>

\* "Retain unsent data: put remaining batch back into buffer."
Retain(s) == EnforceCapacity(batch \o s)

\* The call returns an error; the report may have arrived all the same. With
\* a done context the call fails at once.
ReportFails(arrived) ==
    /\ stage \in {"flush", "final"}
    /\ IF stage = "flush" /\ cancelled /\ ~ arrived
       THEN UNCHANGED faults
       ELSE faults < MaxFaults /\ faults' = faults + 1
    /\ received' = IF arrived THEN received \o Chunk ELSE received
    /\ unanswered' = IF arrived THEN unanswered + 1 ELSE unanswered
    /\ buffer' = Retain(buffer)
    /\ batch' = <<>>
    /\ stage' = AfterFlush
    /\ UNCHANGED <<collector, cancelled, collected>>

----------------------------------------------------------------------------
ForwarderNext ==
    \/ Cancel
    \/ \E n \in 0 .. MaxPerCollect : CollectFrom(n)
    \/ SourceFails
    \/ CollectTick
    \/ ReportTick
    \/ Done
    \/ Report
    \/ \E arrived \in BOOLEAN : ReportFails(arrived)

ForwarderSpec == ForwarderInit /\ [][ForwarderNext]_forwarderVars

\* The goroutine is scheduled and calls return. Strong fairness for the cases
\* of the select: a ready case is not passed over for ever, and the tickers'
\* channels keep a tick until it is taken.
ForwarderFairness ==
    /\ WF_forwarderVars(\E n \in 0 .. MaxPerCollect : CollectFrom(n))
    /\ SF_forwarderVars(ReportTick)
    /\ SF_forwarderVars(Done)
    /\ WF_forwarderVars(Report \/ \E arrived \in BOOLEAN : ReportFails(arrived))

ForwarderFairSpec == ForwarderSpec /\ ForwarderFairness

----------------------------------------------------------------------------
\* Everything the forwarder still holds, oldest first.
Held == batch \o buffer

\* Buffers and counters are in range, and collect never asks for a source
\* that is not there.
ForwarderTypeOK ==
    /\ stage \in {"collect", "select", "flush", "final", "stopped"}
    /\ collector \in 1 .. (Sources + 1)
    /\ buffer \in Seq(Nat) /\ batch \in Seq(Nat)
    /\ cancelled \in BOOLEAN
    /\ collected \in 0 .. MaxEntries
    /\ faults \in 0 .. MaxFaults
    /\ received \in Seq(Nat)
    /\ unanswered \in Nat
    /\ stage = "collect" => collector <= Sources

\* Memory is bounded: with every report failing, at most 2 * BatchSize entries
\* are held, the ones being sent included.
BufferBounded == Len(Held) <= 2 * BatchSize

\* What is held is always the newest run of entries without a gap: overflow
\* drops the oldest, and a failed flush puts its entries back in their place.
NewestHeld == \A i \in 1 .. Len(Held) : Held[i] = collected - Len(Held) + i

\* A flush has something to send and nothing is collected meanwhile; outside
\* a flush everything held is in the buffer.
OneGoroutine ==
    IF stage \in {"flush", "final"} THEN buffer = <<>> /\ batch # <<>> ELSE batch = <<>>

HeldInv == ForwarderTypeOK /\ BufferBounded /\ NewestHeld /\ OneGoroutine

\* No entry is lost but by overflow: an entry that did not arrive is still
\* held, or 2 * BatchSize newer entries have been collected since.
OnlyOverflowLoses ==
    \A e \in 1 .. collected :
        e \in Range(received) \/ e \in Range(Held) \/ e <= collected - 2 * BatchSize

\* Entries arrive in order and once each, unless a report arrived whose call
\* returned an error.
InOrderOnce ==
    unanswered = 0 =>
        \A i, j \in 1 .. Len(received) : i < j => received[i] < received[j]

\* What is collected is accounted for over failed and unanswered reports, put-back
\* batches and overflows: held within the bound, lost by overflow alone, and
\* received in order and once.
Accounted == BufferBounded /\ OnlyOverflowLoses /\ InOrderOnce

\* The forwarder implements the lossy queue, with its batch and its buffer as
\* the queue.
Queue == INSTANCE LossyQueue WITH
             offered <- collected, held <- Held, delivered <- received,
             Capacity <- 2 * BatchSize, MaxArrival <- MaxPerCollect
ImplementsQueue == Queue!QueueSpec

\* When sources fall silent and reports stop failing, everything held is
\* delivered.
Drains == <>[](Held = <<>> \/ stage = "stopped")

\* A cancelled context ends Run, whatever the reporter does.
CancelStops == cancelled ~> stage = "stopped"

\* Run delivers what it holds once reports succeed again, and returns from a
\* done context.
ForwarderLive == Drains /\ CancelStops

=============================================================================
