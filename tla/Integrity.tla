----------------------------- MODULE Integrity -----------------------------
(***************************************************************************)
(* Verification of the agent's binary (internal/integrity/verifier.go) and *)
(* the store of its baseline checksum (internal/integrity/store.go), which *)
(* is kept in memory and written to a file.  A checksum is the version of  *)
(* the binary; reading it, persisting the baseline and reporting may fail. *)
(***************************************************************************)
EXTENDS Naturals

CONSTANTS
    MaxReplaced,        \* bound: replacements of the binary
    MaxIntegrityFails,  \* bound: calls that fail
    MaxAgentRestarts    \* bound: restarts of the agent

ASSUME IntegrityAssumption ==
    MaxReplaced \in Nat /\ MaxIntegrityFails \in Nat /\ MaxAgentRestarts \in Nat

NoBaseline == 0

VARIABLES
    binary,     \* the binary on disk
    checksums,  \* Store.checksums: the baseline, or NoBaseline
    saved,      \* the checksum file
    verifying,  \* VerifyBinary: where it is, and the hash it computed
    reported,   \* reports the control plane has: baseline and checksum
    integrityFails, agentRestarts

integrityVars == <<binary, checksums, saved, verifying, reported, integrityFails, agentRestarts>>

Waiting == [at |-> "wait"]

IntegrityInit ==
    /\ binary = 1 /\ checksums = NoBaseline /\ saved = NoBaseline
    /\ verifying = Waiting /\ reported = {}
    /\ integrityFails = 0 /\ agentRestarts = 0

Failing == integrityFails < MaxIntegrityFails /\ integrityFails' = integrityFails + 1

\* Run's ticker: VerifyBinary hashes the binary, or returns the error.
HashBinary ==
    /\ verifying = Waiting
    /\ \/ verifying' = [at |-> "compare", actual |-> binary] /\ UNCHANGED integrityFails
       \/ Failing /\ UNCHANGED verifying
    /\ UNCHANGED <<binary, checksums, saved, reported, agentRestarts>>

\* Mutant: what is on disk by now becomes the baseline after a mismatch.
Rebase(actual) == IF checksums # actual THEN actual ELSE checksums

\* The baseline after a comparison: the checksum when there was none.
Baseline(actual) == IF checksums = NoBaseline THEN actual ELSE checksums

\* The comparison.  Set keeps the baseline in memory when persisting it fails.
CompareBinary ==
    /\ verifying.at = "compare"
    /\ checksums' = Baseline(verifying.actual)
    /\ \/ /\ saved' = IF checksums' = checksums THEN saved ELSE checksums'
          /\ UNCHANGED integrityFails
       \/ checksums' # checksums /\ Failing /\ UNCHANGED saved
    /\ verifying' = IF verifying.actual = checksums' THEN Waiting
                    ELSE [verifying EXCEPT !.at = "report"]
    /\ UNCHANGED <<binary, reported, agentRestarts>>

\* ReportViolation; an error is logged.
ReportViolation ==
    /\ verifying.at = "report" /\ verifying' = Waiting
    /\ \/ reported' = reported \union {<<checksums, verifying.actual>>} /\ UNCHANGED integrityFails
       \/ Failing /\ UNCHANGED reported
    /\ UNCHANGED <<binary, checksums, saved, agentRestarts>>

ReplaceBinary ==
    /\ binary <= MaxReplaced /\ binary' = binary + 1
    /\ UNCHANGED <<checksums, saved, verifying, reported, integrityFails, agentRestarts>>

\* NewStore reads the file, when there is one.
RestartAgent ==
    /\ agentRestarts < MaxAgentRestarts /\ agentRestarts' = agentRestarts + 1
    /\ checksums' = saved /\ verifying' = Waiting
    /\ UNCHANGED <<binary, saved, reported, integrityFails>>

VerifyStep == HashBinary \/ CompareBinary \/ ReportViolation

IntegrityNext == VerifyStep \/ ReplaceBinary \/ RestartAgent

\* The ticker ticks and VerifyBinary goes on.
IntegrityFairness == WF_integrityVars(VerifyStep)

IntegritySpec == IntegrityInit /\ [][IntegrityNext]_integrityVars /\ IntegrityFairness

----------------------------------------------------------------------------
\* A baseline that reached the disk stays the baseline, over restarts and over
\* any number of mismatches.
BaselineKept == [][saved # NoBaseline => saved' = saved]_integrityVars

\* A binary that differs for good from the baseline on disk is reported as such,
\* however often hashing, persisting or reporting failed.
MismatchReported == <>[](saved \notin {NoBaseline, binary} => <<saved, binary>> \in reported)
=============================================================================
