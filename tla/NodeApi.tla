------------------------------ MODULE NodeApi ------------------------------
(***************************************************************************)
(* Reports of the node API (internal/nodeapi/cache.go, handler.go,         *)
(* server.go, sync.go).  Local clients put and delete reports in the state *)
(* cache, which writes each one to a file of its own; after a change the   *)
(* middleware hands the entry to the report syncer, which sends what it    *)
(* has collected to the control plane and keeps it when that fails.        *)
(*                                                                         *)
(* A report's payload is abstracted to the number of the change that wrote *)
(* it (its UpdatedAt), which also names a deletion.  Requests run          *)
(* concurrently: the cache's lock is held for one step of a request only.  *)
(* The node may crash and restart at any moment; files are written         *)
(* atomically (fsutil.WriteFileAtomic), and a write may fail, which the    *)
(* cache only logs.                                                        *)
(***************************************************************************)
EXTENDS Integers, Sequences

CONSTANTS
    ReportKey,
    Caller,        \* concurrent requests of local clients
    MaxChanges,    \* bound: changes that are accepted
    MaxWriteFails, \* bound: writes that fail
    MaxCrashes     \* bound: crashes of the node

ASSUME NodeApiAssumption ==
    ReportKey # {} /\ MaxChanges \in Nat /\ MaxWriteFails \in Nat /\ MaxCrashes \in Nat

Change == 1 .. MaxChanges
NoChange == 0
Absent == [version |-> 0, change |-> NoChange]
Entry == [version : 0 .. MaxChanges, change : Change \union {NoChange}]
Anything == -1 \* no If-Match header

VARIABLES
    reports,    \* StateCache.reports: key -> entry or Absent
    files,      \* the files under state/report
    badFiles,   \* keys whose last write or removal failed
    changes,    \* number of accepted changes
    last,       \* key -> its last change since the node started, or NoChange
    request,    \* caller -> its request
    entries,    \* ReportSyncer.entries
    deleted,    \* ReportSyncer.deleted
    notifyCh,   \* a token is in the channel
    syncer,     \* where the Run loop is
    batch,      \* the entries and deletions of the flush under way
    received,   \* the changes the control plane has been sent
    writeFails, crashes

cacheVars == <<reports, files, badFiles, changes, last, writeFails>>
syncVars == <<entries, deleted, notifyCh>>
nodeApiVars == <<cacheVars, request, syncVars, syncer, batch, received, crashes>>

NoRequest == [step |-> "idle", key |-> CHOOSE k \in ReportKey : TRUE, seen |-> Absent,
              fresh |-> TRUE]
NoBatch == [entries |-> <<>>, deleted |-> <<>>]

NodeApiInit ==
    /\ reports = [k \in ReportKey |-> Absent]
    /\ files = reports
    /\ badFiles = {}
    /\ changes = 0
    /\ last = [k \in ReportKey |-> NoChange]
    /\ request = [c \in Caller |-> NoRequest]
    /\ entries = <<>> /\ deleted = <<>> /\ notifyCh = FALSE
    /\ syncer = "wait" /\ batch = NoBatch
    /\ received = {}
    /\ writeFails = 0 /\ crashes = 0

----------------------------------------------------------------------------
(* Requests *)

\* Mutant: the file of a deleted report stays.
PersistPutsOnly(k, e) ==
    /\ files' = IF e = Absent THEN files ELSE [files EXCEPT ![k] = e]
    /\ badFiles' = badFiles \ {k}
    /\ UNCHANGED writeFails

\* persistJSON or os.Remove: the file follows the cache, or the write fails.
Persist(k, e) ==
    \/ /\ files' = [files EXCEPT ![k] = e]
       /\ badFiles' = badFiles \ {k}
       /\ UNCHANGED writeFails
    \/ /\ writeFails < MaxWriteFails
       /\ writeFails' = writeFails + 1
       /\ badFiles' = badFiles \union {k}
       /\ UNCHANGED files

\* The cache's critical section of a change: entry e for key k.
Apply(k, e) ==
    /\ changes < MaxChanges
    /\ changes' = changes + 1
    /\ reports' = [reports EXCEPT ![k] = e]
    /\ last' = [last EXCEPT ![k] = changes + 1]
    /\ Persist(k, e)

\* handleGetReport: a caller remembers the version for a later If-Match.
GetReport(c, k) ==
    /\ request[c].step = "idle"
    /\ request' = [request EXCEPT ![c] =
           [step |-> "seen", key |-> k, seen |-> reports[k], fresh |-> TRUE]]
    /\ UNCHANGED <<cacheVars, syncVars, syncer, batch, received, crashes>>

\* Mutant: an older version is accepted.
MatchesOlder(k, ifMatch) == ifMatch = Anything \/ ifMatch <= reports[k].version

\* PutReport: refused when If-Match names another version, 0 standing for "none yet".
Matches(k, ifMatch) == ifMatch \in {Anything, reports[k].version}

PutReport(c, k, ifMatch) ==
    /\ request[c].step \in {"idle", "seen"}
    /\ request[c].step = "seen" => k = request[c].key /\ ifMatch = request[c].seen.version
    /\ request[c].step = "idle" => ifMatch = Anything
    /\ IF Matches(k, ifMatch)
       THEN /\ Apply(k, [version |-> reports[k].version + 1, change |-> changes + 1])
            /\ request' = [request EXCEPT ![c].step = "put", ![c].key = k]
       ELSE /\ request' = [request EXCEPT ![c] = NoRequest]
            /\ UNCHANGED cacheVars
    /\ UNCHANGED <<syncVars, syncer, batch, received, crashes>>

\* A deletion ends the freshness of what the other callers have seen of the key,
\* because the version starts again at 1.
Outdate(k) == [c \in Caller |-> IF request[c].key = k THEN [request[c] EXCEPT !.fresh = FALSE]
                                                      ELSE request[c]]

\* DeleteReport of a report that exists.
DeleteReport(c, k) ==
    /\ request[c].step = "idle"
    /\ reports[k] # Absent
    /\ Apply(k, Absent)
    /\ request' = [Outdate(k) EXCEPT ![c] =
           [step |-> "notify", key |-> k, fresh |-> TRUE,
            seen |-> [version |-> 0, change |-> changes + 1]]]
    /\ UNCHANGED <<syncVars, syncer, batch, received, crashes>>

\* reportNotifyMiddleware reads the entry again, which may be a later one or gone.
ReadBack(c) ==
    /\ request[c].step = "put"
    /\ request' = [request EXCEPT ![c] =
           IF reports[request[c].key] = Absent THEN NoRequest
           ELSE [request[c] EXCEPT !.step = "notify", !.seen = reports[request[c].key]]]
    /\ UNCHANGED <<cacheVars, syncVars, syncer, batch, received, crashes>>

\* NotifyChange: the buffer grows and the loop is signalled.
NotifyChange(c) ==
    LET r == request[c]
        item == [key |-> r.key, change |-> r.seen.change]
    IN /\ r.step = "notify"
       /\ IF r.seen.version = 0
          THEN deleted' = Append(deleted, item) /\ UNCHANGED entries
          ELSE entries' = Append(entries, item) /\ UNCHANGED deleted
       /\ notifyCh' = TRUE
       /\ request' = [request EXCEPT ![c] = NoRequest]
       /\ UNCHANGED <<cacheVars, syncer, batch, received, crashes>>

----------------------------------------------------------------------------
(* ReportSyncer.Run and flush *)

Debounce ==
    /\ syncer = "wait" /\ notifyCh
    /\ notifyCh' = FALSE
    /\ syncer' = "debounce"
    /\ UNCHANGED <<cacheVars, request, entries, deleted, batch, received, crashes>>

\* flush takes the buffers; with nothing in them it returns at once.
Flush ==
    /\ syncer = "debounce"
    /\ batch' = [entries |-> entries, deleted |-> deleted]
    /\ entries' = <<>> /\ deleted' = <<>>
    /\ syncer' = IF entries = <<>> /\ deleted = <<>> THEN "wait" ELSE "send"
    /\ UNCHANGED <<cacheVars, request, notifyCh, received, crashes>>

ChangesOf(b) == {b.entries[n].change : n \in DOMAIN b.entries}
                    \union {b.deleted[n].change : n \in DOMAIN b.deleted}

SyncSucceeds ==
    /\ syncer = "send"
    /\ received' = received \union ChangesOf(batch)
    /\ batch' = NoBatch
    /\ syncer' = "wait"
    /\ UNCHANGED <<cacheVars, request, syncVars, crashes>>

\* Mutant: the batch goes back but nothing tells the loop.
SyncFailsSilently ==
    /\ syncer = "send"
    /\ received' \in {received, received \union ChangesOf(batch)}
    /\ entries' = batch.entries \o entries
    /\ deleted' = batch.deleted \o deleted
    /\ batch' = NoBatch
    /\ syncer' = "wait"
    /\ UNCHANGED <<cacheVars, request, notifyCh, crashes>>

\* The request or only its answer is lost: the batch goes back in front of what
\* has been buffered since, and the loop is signalled to try again.
SyncFails ==
    /\ syncer = "send"
    /\ received' \in {received, received \union ChangesOf(batch)}
    /\ entries' = batch.entries \o entries
    /\ deleted' = batch.deleted \o deleted
    /\ notifyCh' = TRUE
    /\ batch' = NoBatch
    /\ syncer' = "wait"
    /\ UNCHANGED <<cacheVars, request, crashes>>

----------------------------------------------------------------------------
\* A crash and the next Start: Load reads the files, and the syncer starts empty.
\* Callers keep the versions they have seen, which an older file makes outdated.
Restart ==
    /\ crashes < MaxCrashes
    /\ crashes' = crashes + 1
    /\ reports' = files
    /\ badFiles' = {}
    /\ last' = [k \in ReportKey |-> NoChange]
    /\ request' = [c \in Caller |->
           IF request[c].step = "seen"
           THEN [request[c] EXCEPT !.fresh = @ /\ request[c].key \notin badFiles]
           ELSE NoRequest]
    /\ entries' = <<>> /\ deleted' = <<>> /\ notifyCh' = FALSE
    /\ syncer' = "wait" /\ batch' = NoBatch
    /\ UNCHANGED <<files, changes, received, writeFails>>

RequestStep(c) ==
    \/ \E k \in ReportKey : GetReport(c, k) \/ DeleteReport(c, k)
    \/ \E k \in ReportKey, m \in Anything .. MaxChanges : PutReport(c, k, m)
    \/ ReadBack(c) \/ NotifyChange(c)

NodeApiNext ==
    \/ \E c \in Caller : RequestStep(c)
    \/ Debounce \/ Flush \/ SyncSucceeds \/ SyncFails
    \/ Restart

\* The runtime runs the requests that have changed something and the loop; the
\* control plane answers again after every outage.
NodeApiFairness ==
    /\ \A c \in Caller : WF_nodeApiVars(ReadBack(c) \/ NotifyChange(c))
    /\ WF_nodeApiVars(Debounce) /\ WF_nodeApiVars(Flush)
    /\ WF_nodeApiVars(SyncSucceeds \/ SyncFails) /\ SF_nodeApiVars(SyncSucceeds)

NodeApiSpec == NodeApiInit /\ [][NodeApiNext]_nodeApiVars /\ NodeApiFairness

----------------------------------------------------------------------------
NodeApiTypeOK ==
    /\ reports \in [ReportKey -> Entry] /\ files \in [ReportKey -> Entry]
    /\ badFiles \subseteq ReportKey
    /\ changes \in 0 .. MaxChanges
    /\ last \in [ReportKey -> 0 .. changes]
    /\ request \in [Caller -> [step : {"idle", "seen", "put", "notify"}, key : ReportKey,
                               seen : Entry, fresh : BOOLEAN]]
    /\ entries \in Seq([key : ReportKey, change : Change])
    /\ deleted \in Seq([key : ReportKey, change : Change])
    /\ notifyCh \in BOOLEAN
    /\ syncer \in {"wait", "debounce", "send"}
    /\ received \subseteq 1 .. changes

\* The changes on their way to the control plane.
UnderWay == ChangesOf([entries |-> entries, deleted |-> deleted]) \union ChangesOf(batch)
                \union {request[c].seen.change : c \in {d \in Caller : request[d].step = "notify"}}

\* The last change of a report since the node started is never forgotten: it has
\* been sent, is under way, or the request that made it has still to read it back.
\* And what is buffered is never left without a signal for the loop.
ReportsAccounted ==
    /\ \A k \in ReportKey : last[k] # NoChange =>
          \/ last[k] \in received \union UnderWay
          \/ reports[k] # Absent /\ \E c \in Caller : request[c].step = "put" /\ request[c].key = k
    /\ entries # <<>> \/ deleted # <<>> => notifyCh \/ syncer = "debounce"

\* Every change a report keeps is sent in the end, whatever fails on the way,
\* unless the node is restarted first.
ReportsReach ==
    \A k \in ReportKey : \A n \in Change :
        last[k] = n ~> n \in received \/ last[k] # n

\* If-Match prevents lost updates: a put that was accepted for the version its
\* caller saw replaces that very entry, unless the report was deleted since or a
\* restart brought back an older one.
NoLostUpdate ==
    [][\A c \in Caller :
          request[c].step = "seen" /\ request[c].fresh /\ request'[c].step = "put" =>
              reports[request[c].key] = request[c].seen]_nodeApiVars

\* The files are the cache, except where a write failed: a restart brings back
\* exactly the reports the clients had been told of.
FilesFollow == \A k \in ReportKey \ badFiles : files[k] = reports[k]
=============================================================================
