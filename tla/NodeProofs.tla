---------------------------- MODULE NodeProofs ----------------------------
(***************************************************************************)
(* What the node keeps in files: the reports of local clients with their   *)
(* If-Match check and the syncer's account of every change, and the baseline *)
(* of the binary's checksum; for any keys and callers, and any number of   *)
(* changes, failing calls, crashes and restarts.                           *)
(***************************************************************************)
EXTENDS NodeApi, Integrity, TLAPS

----------------------------------------------------------------------------
(* The report cache *)

Stored == [version : Nat, change : Nat]
Steps == {"idle", "seen", "put", "notify"}

CacheType ==
    /\ changes \in Nat
    /\ reports \in [ReportKey -> Stored]
    /\ files \in [ReportKey -> Stored]
    /\ request \in [Caller -> [step : Steps, key : ReportKey, seen : Stored, fresh : BOOLEAN]]

\* What a caller saw and nothing outdated is the entry of now or has a lower
\* version: the version of a report only grows until the report is deleted.
FreshIsCurrentOrOlder(c) ==
    LET e == reports[request[c].key]
        seen == request[c].seen
    IN  request[c].step = "seen" /\ request[c].fresh =>
            seen.version <= e.version /\ (seen.version = e.version => seen = e)

CacheInv ==
    /\ CacheType /\ FilesFollow
    /\ \A c \in Caller : FreshIsCurrentOrOlder(c)

----------------------------------------------------------------------------
LEMMA Constants ==
    /\ Absent \in Stored
    /\ NoRequest \in [step : Steps, key : ReportKey, seen : Stored, fresh : BOOLEAN]
    /\ NoRequest.step = "idle"
<1>1. (CHOOSE k \in ReportKey : TRUE) \in ReportKey
  BY Zenon, NodeApiAssumption
<1>2. Absent \in Stored
  BY Zenon DEF Absent, Stored, NoChange
<1> QED BY Zenon, <1>1, <1>2 DEF NoRequest, Steps

LEMMA CacheInitially == NodeApiInit => CacheInv
<1> SUFFICES ASSUME NodeApiInit PROVE CacheInv
  BY Zenon
<1>1. CacheType
  BY Zenon, Constants DEF NodeApiInit, CacheType
<1>2. FilesFollow
  BY Zenon DEF NodeApiInit, FilesFollow
<1>3. \A c \in Caller : FreshIsCurrentOrOlder(c)
  BY Zenon, Constants DEF NodeApiInit, FreshIsCurrentOrOlder
<1> QED BY Zenon, <1>1, <1>2, <1>3 DEF CacheInv

\* The file of a changed report follows it, or the report is marked.
LEMMA ApplyKeepsFiles ==
    ASSUME CacheInv, NEW k \in ReportKey, NEW e \in Stored, Apply(k, e)
    PROVE  /\ FilesFollow'
           /\ changes' \in Nat
           /\ reports' \in [ReportKey -> Stored]
           /\ files' \in [ReportKey -> Stored]
           /\ reports' = [reports EXCEPT ![k] = e]
<1>1. /\ changes' \in Nat
      /\ reports' = [reports EXCEPT ![k] = e]
      /\ reports' \in [ReportKey -> Stored]
  BY DEF CacheInv, CacheType, Apply
<1>2. CASE files' = [files EXCEPT ![k] = e] /\ badFiles' = badFiles \ {k}
  BY Zenon, <1>1, <1>2 DEF CacheInv, CacheType, FilesFollow
<1>3. CASE badFiles' = badFiles \union {k} /\ UNCHANGED files
  BY Zenon, <1>1, <1>3 DEF CacheInv, CacheType, FilesFollow
<1> QED BY Zenon, <1>1, <1>2, <1>3 DEF Apply, Persist

\* Steps that change neither the cache nor what a caller has seen.
LEMMA QuietStep ==
    ASSUME CacheInv, UNCHANGED <<changes, reports, files, badFiles>>,
           request' \in [Caller -> [step : Steps, key : ReportKey, seen : Stored, fresh : BOOLEAN]],
           \A c \in Caller : request'[c].step = "seen" => request'[c] = request[c]
    PROVE  CacheInv'
<1>1. CacheType' /\ FilesFollow'
  BY Zenon DEF CacheInv, CacheType, FilesFollow
<1>2. \A c \in Caller : FreshIsCurrentOrOlder(c)'
  BY ZenonT(30) DEF CacheInv, FreshIsCurrentOrOlder
<1> QED BY Zenon, <1>1, <1>2 DEF CacheInv

LEMMA GetStep ==
    ASSUME CacheInv, NEW c \in Caller, NEW k \in ReportKey, GetReport(c, k)
    PROVE  CacheInv'
<1> DEFINE r == [step |-> "seen", key |-> k, seen |-> reports[k], fresh |-> TRUE]
<1>1. /\ UNCHANGED <<changes, reports, files, badFiles>>
      /\ request' = [request EXCEPT ![c] = r]
  BY Zenon DEF GetReport, cacheVars
<1>2. r \in [step : Steps, key : ReportKey, seen : Stored, fresh : BOOLEAN]
  BY Zenon DEF CacheInv, CacheType, Steps
<1>3. CacheType' /\ FilesFollow'
  BY Zenon, <1>1, <1>2 DEF CacheInv, CacheType, FilesFollow
<1>4. ASSUME NEW d \in Caller PROVE FreshIsCurrentOrOlder(d)'
  <2>1. CASE d = c
    <3>1. request'[d] = r
      BY Zenon, <1>1, <2>1 DEF CacheInv, CacheType
    <3>2. reports[k].version \in Nat
      BY Zenon DEF CacheInv, CacheType, Stored
    <3> QED BY <1>1, <3>1, <3>2 DEF FreshIsCurrentOrOlder
  <2>2. CASE d # c
    BY Zenon, <1>1, <2>2 DEF CacheInv, CacheType, FreshIsCurrentOrOlder
  <2> QED BY Zenon, <2>1, <2>2
<1> QED BY Zenon, <1>3, <1>4 DEF CacheInv

LEMMA PutStep ==
    ASSUME CacheInv, NEW c \in Caller, NEW k \in ReportKey, NEW m, PutReport(c, k, m)
    PROVE  CacheInv'
<1>1. CASE Matches(k, m)
  <2> DEFINE e == [version |-> reports[k].version + 1, change |-> changes + 1]
  <2>1. e \in Stored /\ e.version = reports[k].version + 1 /\ reports[k].version \in Nat
    BY DEF CacheInv, CacheType, Stored
  <2>2. Apply(k, e) /\ request' = [request EXCEPT ![c].step = "put", ![c].key = k]
    BY Zenon, <1>1 DEF PutReport
  <2> HIDE DEF e
  <2>3. /\ FilesFollow' /\ changes' \in Nat
        /\ reports' \in [ReportKey -> Stored] /\ files' \in [ReportKey -> Stored]
        /\ reports' = [reports EXCEPT ![k] = e]
    BY Zenon, <2>1, <2>2, ApplyKeepsFiles
  <2>4. /\ request' \in [Caller -> [step : Steps, key : ReportKey, seen : Stored, fresh : BOOLEAN]]
        /\ request'[c].step = "put"
        /\ \A d \in Caller \ {c} : request'[d] = request[d]
    BY Zenon, <2>2 DEF CacheInv, CacheType, Steps
  <2>5. ASSUME NEW d \in Caller PROVE FreshIsCurrentOrOlder(d)'
    <3>1. CASE d = c
      BY Zenon, <3>1, <2>4 DEF FreshIsCurrentOrOlder
    <3>2. CASE d # c /\ request[d].key # k
      <4>1. request'[d] = request[d] /\ reports'[request[d].key] = reports[request[d].key]
        BY Zenon, <3>2, <2>3, <2>4 DEF CacheInv, CacheType
      <4> QED BY ZenonT(30), <4>1 DEF CacheInv, FreshIsCurrentOrOlder
    <3>3. CASE d # c /\ request[d].key = k
      <4>1. request'[d] = request[d] /\ reports'[k] = e
        BY Zenon, <3>3, <2>3, <2>4 DEF CacheInv, CacheType
      <4>2. request[d].seen.version \in Nat
        BY Zenon DEF CacheInv, CacheType, Stored
      <4> QED BY <4>1, <4>2, <3>3, <2>1 DEF CacheInv, FreshIsCurrentOrOlder
    <3> QED BY Zenon, <3>1, <3>2, <3>3
  <2> QED BY Zenon, <2>3, <2>4, <2>5 DEF CacheInv, CacheType
<1>2. CASE ~Matches(k, m)
  <2>1. /\ UNCHANGED <<changes, reports, files, badFiles>>
        /\ request' = [request EXCEPT ![c] = NoRequest]
    BY Zenon, <1>2 DEF PutReport, cacheVars
  <2> QED BY Zenon, <2>1, QuietStep, Constants DEF CacheInv, CacheType
<1> QED BY Zenon, <1>1, <1>2

\* A deletion outdates what callers have seen of the key.
LEMMA DeleteStep ==
    ASSUME CacheInv, NEW c \in Caller, NEW k \in ReportKey, DeleteReport(c, k)
    PROVE  CacheInv'
<1> DEFINE r == [step |-> "notify", key |-> k, fresh |-> TRUE,
                 seen |-> [version |-> 0, change |-> changes + 1]]
<1>1. Apply(k, Absent) /\ request' = [Outdate(k) EXCEPT ![c] = r]
  BY Zenon DEF DeleteReport
<1>2. /\ FilesFollow' /\ changes' \in Nat
      /\ reports' \in [ReportKey -> Stored] /\ files' \in [ReportKey -> Stored]
      /\ reports' = [reports EXCEPT ![k] = Absent]
  BY Zenon, <1>1, ApplyKeepsFiles, Constants
<1>3. Outdate(k) \in [Caller -> [step : Steps, key : ReportKey, seen : Stored, fresh : BOOLEAN]]
  BY Zenon DEF CacheInv, CacheType, Outdate
<1>4. r \in [step : Steps, key : ReportKey, seen : Stored, fresh : BOOLEAN] /\ r.step # "seen"
  BY DEF CacheInv, CacheType, Steps, Stored
<1> HIDE DEF r
<1>5. /\ request' \in [Caller -> [step : Steps, key : ReportKey, seen : Stored, fresh : BOOLEAN]]
      /\ request'[c] = r
      /\ \A d \in Caller \ {c} : request'[d] = Outdate(k)[d]
  BY Zenon, <1>1, <1>3, <1>4
<1>6. ASSUME NEW d \in Caller PROVE FreshIsCurrentOrOlder(d)'
  <2>1. CASE d = c
    BY Zenon, <2>1, <1>4, <1>5 DEF FreshIsCurrentOrOlder
  <2>2. CASE d # c /\ request[d].key = k
    <3>1. request'[d] = Outdate(k)[d]
      BY Zenon, <2>2, <1>5
    <3>2. Outdate(k)[d].fresh = FALSE
      BY Zenon, <2>2 DEF Outdate, CacheInv, CacheType
    <3> QED BY Zenon, <3>1, <3>2 DEF FreshIsCurrentOrOlder
  <2>3. CASE d # c /\ request[d].key # k
    <3>1. request'[d] = Outdate(k)[d]
      BY Zenon, <2>3, <1>5
    <3>2. Outdate(k)[d] = request[d]
      BY Zenon, <2>3 DEF Outdate
    <3>3. reports'[request[d].key] = reports[request[d].key]
      BY Zenon, <2>3, <1>2 DEF CacheInv, CacheType
    <3> QED BY ZenonT(30), <3>1, <3>2, <3>3 DEF CacheInv, FreshIsCurrentOrOlder
  <2> QED BY Zenon, <2>1, <2>2, <2>3
<1> QED BY Zenon, <1>2, <1>5, <1>6 DEF CacheInv, CacheType

\* A restart brings back the files, which are the reports where no write failed.
LEMMA RestartStep == ASSUME CacheInv, Restart PROVE CacheInv'
<1>1. /\ reports' = files /\ files' = files /\ changes' = changes
  BY Zenon DEF Restart
<1>2. FilesFollow'
  BY Zenon, <1>1 DEF FilesFollow
<1>3. ASSUME NEW c \in Caller
      PROVE  /\ request'[c] \in [step : Steps, key : ReportKey, seen : Stored, fresh : BOOLEAN]
             /\ request'[c].step = "seen" /\ request'[c].fresh =>
                  /\ request[c].step = "seen" /\ request[c].fresh
                  /\ request[c].key \notin badFiles
                  /\ request'[c].key = request[c].key /\ request'[c].seen = request[c].seen
  <2>1. CASE request[c].step = "seen"
    <3>1. request'[c] = [request[c] EXCEPT !.fresh = @ /\ request[c].key \notin badFiles]
      BY Zenon, <2>1 DEF Restart
    <3>2. request[c] \in [step : Steps, key : ReportKey, seen : Stored, fresh : BOOLEAN]
      BY Zenon DEF CacheInv, CacheType
    <3>3. CASE request[c].key \in badFiles
      BY Zenon, <3>1, <3>2, <3>3
    <3>4. CASE request[c].key \notin badFiles
      BY Zenon, <3>1, <3>2, <3>4, <2>1
    <3> QED BY Zenon, <3>3, <3>4
  <2>2. CASE request[c].step # "seen"
    BY Zenon, <2>2, Constants DEF Restart
  <2> QED BY Zenon, <2>1, <2>2
<1>4. CacheType'
  <2>1. request' = [c \in Caller |-> request'[c]]
    BY Zenon DEF Restart
  <2> QED BY Zenon, <1>1, <1>3, <2>1 DEF CacheInv, CacheType
<1>5. ASSUME NEW c \in Caller PROVE FreshIsCurrentOrOlder(c)'
  <2> SUFFICES ASSUME request'[c].step = "seen" /\ request'[c].fresh
               PROVE  FreshIsCurrentOrOlder(c)'
    BY Zenon DEF FreshIsCurrentOrOlder
  <2>1. files[request[c].key] = reports[request[c].key]
    BY Zenon, <1>3 DEF CacheInv, CacheType, FilesFollow
  <2> QED BY ZenonT(30), <1>1, <1>3, <2>1 DEF CacheInv, FreshIsCurrentOrOlder
<1> QED BY Zenon, <1>2, <1>4, <1>5 DEF CacheInv

LEMMA CachePreserved == CacheInv /\ [NodeApiNext]_nodeApiVars => CacheInv'
<1> SUFFICES ASSUME CacheInv, [NodeApiNext]_nodeApiVars PROVE CacheInv'
  BY Zenon
<1>1. ASSUME NEW c \in Caller, RequestStep(c) PROVE CacheInv'
  <2>1. CASE ReadBack(c)
    <3> DEFINE e == reports[request[c].key]
               r == IF e = Absent THEN NoRequest
                    ELSE [request[c] EXCEPT !.step = "notify", !.seen = e]
    <3>1. /\ UNCHANGED <<changes, reports, files, badFiles>>
          /\ request' = [request EXCEPT ![c] = r]
      BY Zenon, <2>1 DEF ReadBack, cacheVars
    <3>2. e \in Stored
      BY Zenon DEF CacheInv, CacheType
    <3>3. r \in [step : Steps, key : ReportKey, seen : Stored, fresh : BOOLEAN] /\ r.step # "seen"
      BY Zenon, <3>2, Constants DEF CacheInv, CacheType, Steps
    <3> HIDE DEF r
    <3> QED BY Zenon, <3>1, <3>3, QuietStep DEF CacheInv, CacheType
  <2>2. CASE NotifyChange(c)
    <3>1. /\ UNCHANGED <<changes, reports, files, badFiles>>
          /\ request' = [request EXCEPT ![c] = NoRequest]
      BY Zenon, <2>2 DEF NotifyChange, cacheVars
    <3> QED BY Zenon, <3>1, QuietStep, Constants DEF CacheInv, CacheType
  <2> QED BY Zenon, <1>1, <2>1, <2>2, GetStep, DeleteStep, PutStep DEF RequestStep
<1>2. CASE Debounce \/ Flush \/ SyncSucceeds \/ SyncFails \/ UNCHANGED nodeApiVars
  <2>1. UNCHANGED <<changes, reports, files, badFiles, request>>
    BY Zenon, <1>2 DEF Debounce, Flush, SyncSucceeds, SyncFails, nodeApiVars, cacheVars
  <2> QED BY Zenon, <2>1, QuietStep DEF CacheInv, CacheType
<1> QED BY Zenon, <1>1, <1>2, RestartStep DEF NodeApiNext

----------------------------------------------------------------------------
LEMMA CacheAlways == NodeApiSpec => []CacheInv
BY CacheInitially, CachePreserved, PTL DEF NodeApiSpec

\* Whatever puts, deletions, failing writes and crashes come in any order, a
\* report's file is the report wherever its last write succeeded (cache.go).
THEOREM FilesAlwaysFollow == NodeApiSpec => []FilesFollow
<1>1. CacheInv => FilesFollow
  BY Zenon DEF CacheInv
<1> QED BY <1>1, CacheAlways, PTL

\* A put accepted for the version its caller saw replaces that very entry: the
\* version alone, compared under the lock, tells entries apart (PutReport).
THEOREM NoUpdateIsLost == NodeApiSpec => NoLostUpdate
<1> DEFINE Kept == \A c \in Caller :
                      request[c].step = "seen" /\ request[c].fresh /\ request'[c].step = "put" =>
                          reports[request[c].key] = request[c].seen
<1>1. CacheInv /\ [NodeApiNext]_nodeApiVars => [Kept]_nodeApiVars
  <2> SUFFICES ASSUME CacheInv, NodeApiNext, NEW c \in Caller,
                      request[c].step = "seen", request[c].fresh, request'[c].step = "put"
               PROVE  reports[request[c].key] = request[c].seen
    BY Zenon
  <2>1. request[c] \in [step : Steps, key : ReportKey, seen : Stored, fresh : BOOLEAN]
        /\ reports[request[c].key].version \in Nat /\ request[c].seen.version \in Nat
    BY Zenon DEF CacheInv, CacheType, Stored
  <2>2. ASSUME NEW d \in Caller, d # c, RequestStep(d) PROVE FALSE
    <3>1. CASE \E k \in ReportKey : DeleteReport(d, k)
      <4> PICK k \in ReportKey : DeleteReport(d, k)
        BY Zenon, <3>1
      <4>1. request'[c] = Outdate(k)[c]
        BY Zenon, <2>2 DEF DeleteReport, Outdate
      <4>2. Outdate(k)[c].step = request[c].step
        BY Zenon, <2>1 DEF Outdate
      <4> QED BY Zenon, <4>1, <4>2
    <3>2. CASE ~\E k \in ReportKey : DeleteReport(d, k)
      <4>1. request'[c] = request[c]
        BY Zenon, <2>2, <3>2 DEF RequestStep, GetReport, PutReport, ReadBack, NotifyChange,
             CacheInv, CacheType
      <4> QED BY Zenon, <4>1
    <3> QED BY Zenon, <3>1, <3>2
  <2>3. CASE RequestStep(c)
    <3>1. PICK k \in ReportKey, m \in Anything .. MaxChanges : PutReport(c, k, m)
      BY Zenon, <2>3 DEF RequestStep, GetReport, DeleteReport, ReadBack, NotifyChange
    <3>2. k = request[c].key /\ m = request[c].seen.version
      BY Zenon, <3>1 DEF PutReport
    <3>3. Matches(k, m)
      <4> SUFFICES ASSUME ~Matches(k, m) PROVE FALSE
        BY Zenon
      <4>1. request'[c] = NoRequest
        BY Zenon, <3>1 DEF PutReport, CacheInv, CacheType
      <4> QED BY Zenon, <4>1, Constants
    <3>4. reports[k].version = request[c].seen.version
      BY <2>1, <3>2, <3>3 DEF Matches, Anything
    <3> QED BY Zenon, <3>2, <3>4 DEF CacheInv, FreshIsCurrentOrOlder
  <2>4. CASE Debounce \/ Flush \/ SyncSucceeds \/ SyncFails
    <3>1. request' = request
      BY Zenon, <2>4 DEF Debounce, Flush, SyncSucceeds, SyncFails
    <3> QED BY Zenon, <3>1
  <2>5. CASE Restart
    <3>1. request'[c] = [request[c] EXCEPT !.fresh = @ /\ request[c].key \notin badFiles]
      BY Zenon, <2>5 DEF Restart
    <3>2. request'[c].step = request[c].step
      BY Zenon, <2>1, <3>1
    <3> QED BY Zenon, <3>2
  <2> QED BY Zenon, <2>2, <2>3, <2>4, <2>5 DEF NodeApiNext
<1> QED BY <1>1, CacheAlways, PTL DEF NodeApiSpec, NoLostUpdate

----------------------------------------------------------------------------
(* The report syncer *)

Item == [key : ReportKey, change : Nat]
ChangesIn(s) == {s[n].change : n \in DOMAIN s}

\* The last change of key k is known to the syncer or the control plane, or
\* its request still has to read it back.
ChangeAccounted(k) ==
    last[k] # NoChange =>
        \/ last[k] \in received \union UnderWay
        \/ reports[k] # Absent /\ \E c \in Caller : request[c].step = "put" /\ request[c].key = k

BuffersOK ==
    /\ entries \in Seq(Item) /\ deleted \in Seq(Item)
    /\ batch \in [entries : Seq(Item), deleted : Seq(Item)]
    /\ syncer # "send" => batch = NoBatch
    /\ entries # <<>> \/ deleted # <<>> => notifyCh \/ syncer = "debounce"

\* What makes the account inductive: a read-back finds the last change, since
\* the entry of a report carries the number of the change that wrote it.
LastIsStored ==
    /\ last \in [ReportKey -> Nat]
    /\ \A k \in ReportKey : last[k] # NoChange /\ reports[k] # Absent => reports[k].change = last[k]

SyncInv ==
    /\ CacheInv /\ BuffersOK /\ LastIsStored
    /\ \A k \in ReportKey : ChangeAccounted(k)

\* The changes of a buffer that is empty, grows by one, or is put back in front.
LEMMA BufferChanges ==
    /\ ChangesIn(<<>>) = {}
    /\ \A s \in Seq(Item), i \in Item :
          Append(s, i) \in Seq(Item) /\ ChangesIn(Append(s, i)) = ChangesIn(s) \union {i.change}
    /\ \A s, t \in Seq(Item) : s \o t \in Seq(Item) /\ ChangesIn(s \o t) = ChangesIn(s) \union ChangesIn(t)
<1>1. ChangesIn(<<>>) = {}
  BY DEF ChangesIn
<1>2. ASSUME NEW s \in Seq(Item), NEW i \in Item
      PROVE  Append(s, i) \in Seq(Item) /\ ChangesIn(Append(s, i)) = ChangesIn(s) \union {i.change}
  <2>1. /\ Append(s, i) \in Seq(Item) /\ DOMAIN Append(s, i) = DOMAIN s \union {Len(s) + 1}
        /\ \A n \in DOMAIN s : Append(s, i)[n] = s[n]
        /\ Append(s, i)[Len(s) + 1] = i
    OBVIOUS
  <2> QED BY Zenon, <2>1 DEF ChangesIn
<1>3. ASSUME NEW s \in Seq(Item), NEW t \in Seq(Item)
      PROVE  s \o t \in Seq(Item) /\ ChangesIn(s \o t) = ChangesIn(s) \union ChangesIn(t)
  <2>1. /\ s \o t \in Seq(Item)
        /\ \A n \in DOMAIN s : n \in DOMAIN (s \o t) /\ (s \o t)[n] = s[n]
        /\ \A n \in DOMAIN t : Len(s) + n \in DOMAIN (s \o t) /\ (s \o t)[Len(s) + n] = t[n]
    OBVIOUS
  <2>2. ASSUME NEW n \in DOMAIN (s \o t)
        PROVE  (s \o t)[n].change \in ChangesIn(s) \union ChangesIn(t)
    <3>1. CASE n <= Len(s)
      <4>1. n \in DOMAIN s /\ (s \o t)[n] = s[n]
        BY <3>1
      <4> QED BY Zenon, <4>1 DEF ChangesIn
    <3>2. CASE n > Len(s)
      <4>1. n - Len(s) \in DOMAIN t /\ (s \o t)[n] = t[n - Len(s)]
        BY <3>2
      <4> QED BY Zenon, <4>1 DEF ChangesIn
    <3> QED BY <3>1, <3>2
  <2>3. ChangesIn(s) \subseteq ChangesIn(s \o t) /\ ChangesIn(t) \subseteq ChangesIn(s \o t)
    BY Zenon, <2>1 DEF ChangesIn
  <2> QED BY Zenon, <2>1, <2>2, <2>3 DEF ChangesIn
<1> QED BY Zenon, <1>1, <1>2, <1>3

Telling == {request[c].seen.change : c \in {d \in Caller : request[d].step = "notify"}}

LEMMA UnderWayParts ==
    /\ UnderWay = ChangesIn(entries) \union ChangesIn(deleted)
                      \union ChangesIn(batch.entries) \union ChangesIn(batch.deleted) \union Telling
    /\ UnderWay' = ChangesIn(entries') \union ChangesIn(deleted')
                       \union ChangesIn(batch'.entries) \union ChangesIn(batch'.deleted) \union Telling'
BY Zenon DEF UnderWay, ChangesOf, ChangesIn, Telling

\* A step that forgets neither the changes that are known nor a request that
\* has still to read the key back.
LEMMA NothingForgotten ==
    ASSUME NEW k \in ReportKey, ChangeAccounted(k),
           last'[k] = last[k], reports'[k] = reports[k],
           received \union UnderWay \subseteq received' \union UnderWay',
           \A c \in Caller : request[c].step = "put" /\ request[c].key = k =>
               request'[c].step = "put" /\ request'[c].key = k
    PROVE  ChangeAccounted(k)'
BY Zenon DEF ChangeAccounted

\* A step of the requests alone, in which all that was read back stays.
LEMMA RequestsKeep ==
    ASSUME UNCHANGED <<entries, deleted, batch, received>>,
           \A d \in Caller : request[d].step = "notify" =>
               request'[d].step = "notify" /\ request'[d].seen = request[d].seen
    PROVE  received \union UnderWay \subseteq received' \union UnderWay'
<1>1. Telling \subseteq Telling'
  BY Zenon DEF Telling
<1> QED BY Zenon, <1>1, UnderWayParts

LEMMA SyncInitially == NodeApiInit => SyncInv
<1> SUFFICES ASSUME NodeApiInit PROVE SyncInv
  BY Zenon
<1>1. BuffersOK
  BY DEF NodeApiInit, BuffersOK, NoBatch
<1>2. LastIsStored /\ \A k \in ReportKey : ChangeAccounted(k)
  BY Zenon DEF NodeApiInit, LastIsStored, ChangeAccounted, NoChange
<1> QED BY Zenon, <1>1, <1>2, CacheInitially DEF SyncInv

LEMMA SyncerSteps ==
    ASSUME SyncInv, CacheInv', Debounce \/ Flush \/ SyncSucceeds \/ SyncFails
    PROVE  SyncInv'
<1>1. UNCHANGED <<request, last, reports>>
  BY Zenon DEF Debounce, Flush, SyncSucceeds, SyncFails, cacheVars
<1>2. LastIsStored'
  BY Zenon, <1>1 DEF SyncInv, LastIsStored
<1>3. Telling' = Telling
  BY Zenon, <1>1 DEF Telling
<1>4. <<>> \in Seq(Item) /\ NoBatch \in [entries : Seq(Item), deleted : Seq(Item)]
      /\ NoBatch.entries = <<>> /\ NoBatch.deleted = <<>>
  BY DEF NoBatch
<1>5. BuffersOK' /\ received \union UnderWay \subseteq received' \union UnderWay'
  <2>1. CASE Debounce
    <3>1. UNCHANGED <<entries, deleted, batch, received>> /\ syncer = "wait" /\ syncer' = "debounce"
      BY Zenon, <2>1 DEF Debounce
    <3> QED BY Zenon, <1>3, <3>1, UnderWayParts DEF SyncInv, BuffersOK
  <2>2. CASE Flush
    <3>1. /\ syncer = "debounce" /\ batch' = [entries |-> entries, deleted |-> deleted]
          /\ entries' = <<>> /\ deleted' = <<>> /\ received' = received
          /\ syncer' = IF entries = <<>> /\ deleted = <<>> THEN "wait" ELSE "send"
      BY Zenon, <2>2 DEF Flush
    <3>2. batch = NoBatch
      BY Zenon, <3>1 DEF SyncInv, BuffersOK
    <3>3. batch'.entries = entries /\ batch'.deleted = deleted
      BY Zenon, <3>1
    <3>4. received \union UnderWay \subseteq received' \union UnderWay'
      BY Zenon, <1>3, <1>4, <3>1, <3>2, <3>3, UnderWayParts, BufferChanges
    <3>5. BuffersOK'
      BY Zenon, <1>4, <3>1 DEF SyncInv, BuffersOK, NoBatch
    <3> QED BY Zenon, <3>4, <3>5
  <2>3. CASE SyncSucceeds
    <3>1. /\ syncer = "send" /\ received' = received \union ChangesOf(batch)
          /\ batch' = NoBatch /\ UNCHANGED <<entries, deleted, notifyCh>>
      BY Zenon, <2>3 DEF SyncSucceeds, syncVars
    <3>2. ChangesOf(batch) = ChangesIn(batch.entries) \union ChangesIn(batch.deleted)
      BY Zenon DEF ChangesOf, ChangesIn
    <3>3. received \union UnderWay \subseteq received' \union UnderWay'
      BY Zenon, <1>3, <3>1, <3>2, UnderWayParts
    <3>4. BuffersOK'
      BY Zenon, <1>4, <3>1 DEF SyncInv, BuffersOK
    <3> QED BY Zenon, <3>3, <3>4
  <2>4. CASE SyncFails
    <3>1. /\ received \subseteq received' /\ batch' = NoBatch /\ notifyCh' = TRUE
          /\ entries' = batch.entries \o entries /\ deleted' = batch.deleted \o deleted
      BY Zenon, <2>4 DEF SyncFails
    <3>2. /\ entries \in Seq(Item) /\ deleted \in Seq(Item)
          /\ batch.entries \in Seq(Item) /\ batch.deleted \in Seq(Item)
      BY Zenon DEF SyncInv, BuffersOK
    <3>3. /\ entries' \in Seq(Item) /\ ChangesIn(entries') = ChangesIn(batch.entries) \union ChangesIn(entries)
          /\ deleted' \in Seq(Item) /\ ChangesIn(deleted') = ChangesIn(batch.deleted) \union ChangesIn(deleted)
      BY Zenon, <3>1, <3>2, BufferChanges
    <3>4. received \union UnderWay \subseteq received' \union UnderWay'
      BY Zenon, <1>3, <3>1, <3>3, UnderWayParts
    <3>5. BuffersOK'
      BY Zenon, <1>4, <3>1, <3>3 DEF BuffersOK
    <3> QED BY Zenon, <3>4, <3>5
  <2> QED BY Zenon, <2>1, <2>2, <2>3, <2>4
<1>6. \A k \in ReportKey : ChangeAccounted(k)'
  BY Zenon, <1>1, <1>5, NothingForgotten DEF SyncInv
<1> QED BY Zenon, <1>2, <1>5, <1>6 DEF SyncInv

\* A change of report k: its request has still to read it back (a put), or is
\* about to tell the syncer (a deletion).
LEMMA ChangeStep ==
    ASSUME SyncInv, NEW c \in Caller, NEW k \in ReportKey, NEW e \in Stored, Apply(k, e),
           UNCHANGED <<syncVars, syncer, batch, received>>,
           e # Absent => e.change = changes + 1 /\ request'[c].step = "put" /\ request'[c].key = k,
           e = Absent => request'[c].step = "notify" /\ request'[c].seen.change = changes + 1,
           request[c].step \in {"idle", "seen"},
           \A d \in Caller \ {c} : /\ request'[d].step = request[d].step
                                   /\ request'[d].key = request[d].key
                                   /\ request'[d].seen = request[d].seen
    PROVE  BuffersOK' /\ LastIsStored' /\ \A j \in ReportKey : ChangeAccounted(j)'
<1>1. /\ reports' = [reports EXCEPT ![k] = e] /\ last' = [last EXCEPT ![k] = changes + 1]
      /\ changes \in Nat /\ reports \in [ReportKey -> Stored] /\ last \in [ReportKey -> Nat]
  BY Zenon DEF Apply, SyncInv, CacheInv, CacheType, LastIsStored
<1>2. BuffersOK'
  BY Zenon DEF SyncInv, BuffersOK, syncVars
<1>3. last'[k] = changes + 1 /\ reports'[k] = e
      /\ \A j \in ReportKey \ {k} : last'[j] = last[j] /\ reports'[j] = reports[j]
  BY Zenon, <1>1
<1>4. LastIsStored'
  <2>1. last' \in [ReportKey -> Nat]
    BY <1>1
  <2> QED BY Zenon, <1>3, <2>1 DEF SyncInv, LastIsStored
<1>5. received \union UnderWay \subseteq received' \union UnderWay'
  BY Zenon, RequestsKeep DEF syncVars
<1>6. ASSUME NEW j \in ReportKey PROVE ChangeAccounted(j)'
  <2>1. CASE j # k
    <3>1. \A d \in Caller : request[d].step = "put" /\ request[d].key = j =>
              request'[d].step = "put" /\ request'[d].key = j
      BY Zenon
    <3> QED BY Zenon, <1>3, <1>5, <2>1, <3>1, NothingForgotten DEF SyncInv
  <2>2. CASE j = k /\ e # Absent
    BY Zenon, <1>3, <2>2 DEF ChangeAccounted
  <2>3. CASE j = k /\ e = Absent
    <3>1. last'[k] \in Telling'
      BY Zenon, <1>3, <2>3 DEF Telling
    <3> QED BY Zenon, <2>3, <3>1, UnderWayParts DEF ChangeAccounted
  <2> QED BY Zenon, <2>1, <2>2, <2>3
<1> QED BY Zenon, <1>2, <1>4, <1>6

LEMMA RequestSteps ==
    ASSUME SyncInv, CacheInv', NEW c \in Caller, RequestStep(c)
    PROVE  SyncInv'
<1>0. request \in [Caller -> [step : Steps, key : ReportKey, seen : Stored, fresh : BOOLEAN]]
      /\ reports \in [ReportKey -> Stored] /\ changes \in Nat
  BY Zenon DEF SyncInv, CacheInv, CacheType
<1>1. CASE ReadBack(c)
  <2> DEFINE k == request[c].key
             r == IF reports[k] = Absent THEN NoRequest
                  ELSE [request[c] EXCEPT !.step = "notify", !.seen = reports[k]]
  <2>1. /\ request[c].step = "put" /\ request' = [request EXCEPT ![c] = r]
        /\ UNCHANGED <<cacheVars, syncVars, syncer, batch, received>>
    BY Zenon, <1>1 DEF ReadBack
  <2>2. BuffersOK' /\ LastIsStored'
    BY Zenon, <2>1 DEF SyncInv, BuffersOK, LastIsStored, cacheVars, syncVars
  <2>3. request'[c] = r /\ \A d \in Caller \ {c} : request'[d] = request[d]
    BY Zenon, <1>0, <2>1
  <2>4. received \union UnderWay \subseteq received' \union UnderWay'
    BY Zenon, <2>1, <2>3, RequestsKeep DEF syncVars
  <2>5. ASSUME NEW j \in ReportKey PROVE ChangeAccounted(j)'
    <3>1. CASE j # k
      BY Zenon, <2>1, <2>3, <2>4, <3>1, NothingForgotten DEF SyncInv, cacheVars
    <3>2. CASE j = k /\ reports[k] = Absent
      <4>1. last'[j] = last[j] /\ (last[j] # NoChange => last[j] \in received \union UnderWay)
        BY Zenon, <2>1, <3>2 DEF SyncInv, ChangeAccounted, cacheVars
      <4> QED BY Zenon, <2>4, <4>1 DEF ChangeAccounted
    <3>3. CASE j = k /\ reports[k] # Absent
      <4>1. request'[c].step = "notify" /\ request'[c].seen = reports[k]
        BY Zenon, <1>0, <2>3, <3>3
      <4>2. last'[j] = last[j] /\ (last[j] # NoChange => reports[k].change = last[j])
        BY Zenon, <2>1, <3>3 DEF SyncInv, LastIsStored, cacheVars
      <4>3. last'[j] # NoChange => last'[j] \in Telling'
        BY Zenon, <4>1, <4>2 DEF Telling
      <4> QED BY Zenon, <4>3, UnderWayParts DEF ChangeAccounted
    <3> QED BY Zenon, <3>1, <3>2, <3>3
  <2> QED BY Zenon, <2>2, <2>5 DEF SyncInv
<1>2. CASE NotifyChange(c)
  <2> DEFINE item == [key |-> request[c].key, change |-> request[c].seen.change]
  <2>1. /\ request[c].step = "notify" /\ notifyCh' = TRUE
        /\ \/ deleted' = Append(deleted, item) /\ UNCHANGED entries
           \/ entries' = Append(entries, item) /\ UNCHANGED deleted
        /\ request' = [request EXCEPT ![c] = NoRequest]
        /\ UNCHANGED <<cacheVars, syncer, batch, received>>
    BY Zenon, <1>2 DEF NotifyChange
  <2>2. item \in Item /\ item.change = request[c].seen.change
    BY Zenon, <1>0 DEF Item, Stored
  <2> HIDE DEF item
  <2>3. /\ entries' \in Seq(Item) /\ deleted' \in Seq(Item)
        /\ ChangesIn(entries') \union ChangesIn(deleted')
             = ChangesIn(entries) \union ChangesIn(deleted) \union {request[c].seen.change}
    <3>1. entries \in Seq(Item) /\ deleted \in Seq(Item)
      BY Zenon DEF SyncInv, BuffersOK
    <3>2. /\ Append(entries, item) \in Seq(Item) /\ Append(deleted, item) \in Seq(Item)
          /\ ChangesIn(Append(entries, item)) = ChangesIn(entries) \union {item.change}
          /\ ChangesIn(Append(deleted, item)) = ChangesIn(deleted) \union {item.change}
      BY Zenon, <2>2, <3>1, BufferChanges
    <3>3. CASE deleted' = Append(deleted, item) /\ UNCHANGED entries
      BY Zenon, <2>2, <3>1, <3>2, <3>3
    <3>4. CASE entries' = Append(entries, item) /\ UNCHANGED deleted
      BY Zenon, <2>2, <3>1, <3>2, <3>4
    <3> QED BY Zenon, <2>1, <3>3, <3>4
  <2>4. BuffersOK' /\ LastIsStored'
    BY Zenon, <2>1, <2>3 DEF SyncInv, BuffersOK, LastIsStored, cacheVars
  <2>5. request'[c] = NoRequest /\ \A d \in Caller \ {c} : request'[d] = request[d]
    BY Zenon, <1>0, <2>1
  <2>6. Telling \subseteq Telling' \union {request[c].seen.change}
    BY Zenon, <2>5 DEF Telling
  <2>7. received \union UnderWay \subseteq received' \union UnderWay'
    BY Zenon, <2>1, <2>3, <2>6, UnderWayParts
  <2>8. ASSUME NEW j \in ReportKey PROVE ChangeAccounted(j)'
    BY Zenon, <2>1, <2>5, <2>7, NothingForgotten DEF SyncInv, cacheVars
  <2> QED BY Zenon, <2>4, <2>8 DEF SyncInv
<1>3. ASSUME NEW k \in ReportKey, DeleteReport(c, k) PROVE SyncInv'
  <2>1. /\ Apply(k, Absent) /\ request[c].step = "idle"
        /\ UNCHANGED <<syncVars, syncer, batch, received>>
    BY Zenon, <1>3 DEF DeleteReport
  <2>2. request'[c].step = "notify" /\ request'[c].seen.change = changes + 1
    BY Zenon, <1>3 DEF DeleteReport, Outdate
  <2>3. ASSUME NEW d \in Caller \ {c}
        PROVE  /\ request'[d].step = request[d].step /\ request'[d].key = request[d].key
               /\ request'[d].seen = request[d].seen
    <3>1. request'[d] = Outdate(k)[d]
      BY Zenon, <1>3 DEF DeleteReport, Outdate
    <3> QED BY Zenon, <1>0, <3>1 DEF Outdate
  <2> QED BY Zenon, <2>1, <2>2, <2>3, Constants, ChangeStep DEF SyncInv
<1>4. ASSUME NEW k \in ReportKey, NEW m, PutReport(c, k, m), Matches(k, m) PROVE SyncInv'
  <2> DEFINE e == [version |-> reports[k].version + 1, change |-> changes + 1]
  <2>1. /\ Apply(k, e) /\ request' = [request EXCEPT ![c].step = "put", ![c].key = k]
        /\ request[c].step \in {"idle", "seen"} /\ UNCHANGED <<syncVars, syncer, batch, received>>
    BY Zenon, <1>4 DEF PutReport
  <2>2. e \in Stored /\ e # Absent /\ e.change = changes + 1
    BY <1>0 DEF Stored, Absent
  <2> HIDE DEF e
  <2>3. /\ request'[c].step = "put" /\ request'[c].key = k
        /\ \A d \in Caller \ {c} : request'[d] = request[d]
    BY Zenon, <1>0, <2>1
  <2> QED BY Zenon, <2>1, <2>2, <2>3, ChangeStep DEF SyncInv
<1>5. CASE \/ \E k \in ReportKey : GetReport(c, k)
           \/ \E k \in ReportKey, m \in Anything .. MaxChanges : PutReport(c, k, m) /\ ~Matches(k, m)
  <2>1. /\ request[c].step \in {"idle", "seen"} /\ \A d \in Caller \ {c} : request'[d] = request[d]
        /\ UNCHANGED <<cacheVars, syncVars, syncer, batch, received>>
    BY Zenon, <1>0, <1>5 DEF GetReport, PutReport
  <2>2. BuffersOK' /\ LastIsStored'
    BY Zenon, <2>1 DEF SyncInv, BuffersOK, LastIsStored, cacheVars, syncVars
  <2>3. received \union UnderWay \subseteq received' \union UnderWay'
    BY Zenon, <2>1, RequestsKeep DEF syncVars
  <2>4. ASSUME NEW j \in ReportKey PROVE ChangeAccounted(j)'
    BY Zenon, <2>1, <2>3, NothingForgotten DEF SyncInv, cacheVars
  <2> QED BY Zenon, <2>2, <2>4 DEF SyncInv
<1> QED BY Zenon, <1>1, <1>2, <1>3, <1>4, <1>5 DEF RequestStep

LEMMA SyncPreserved == SyncInv /\ [NodeApiNext]_nodeApiVars => SyncInv'
<1> SUFFICES ASSUME SyncInv, [NodeApiNext]_nodeApiVars PROVE SyncInv'
  BY Zenon
<1>1. CacheInv'
  BY Zenon, CachePreserved DEF SyncInv
<1>2. CASE Restart
  <2>1. BuffersOK'
    BY <1>2 DEF Restart, BuffersOK, NoBatch
  <2>2. LastIsStored' /\ \A k \in ReportKey : ChangeAccounted(k)'
    BY Zenon, <1>2 DEF Restart, LastIsStored, ChangeAccounted, NoChange
  <2> QED BY Zenon, <1>1, <2>1, <2>2 DEF SyncInv
<1>3. CASE UNCHANGED nodeApiVars
  <2>1. BuffersOK' /\ LastIsStored'
    BY Zenon, <1>3 DEF nodeApiVars, cacheVars, syncVars, SyncInv, BuffersOK, LastIsStored
  <2>2. received \union UnderWay \subseteq received' \union UnderWay'
    BY Zenon, <1>3, RequestsKeep DEF nodeApiVars, syncVars
  <2>3. ASSUME NEW k \in ReportKey PROVE ChangeAccounted(k)'
    BY Zenon, <1>3, <2>2, NothingForgotten DEF nodeApiVars, cacheVars, SyncInv
  <2> QED BY Zenon, <1>1, <2>1, <2>3 DEF SyncInv
<1> QED BY Zenon, <1>1, <1>2, <1>3, RequestSteps, SyncerSteps DEF NodeApiNext

\* The last change of every report has been sent, is buffered or in a batch, or
\* its request has still to hand it over, and no buffer is left without a signal
\* for the loop: over puts and deletions of one key that interleave with the
\* middleware's read-back, with flushes and with syncs that fail (server.go, sync.go).
THEOREM NoReportForgotten == NodeApiSpec => []ReportsAccounted
<1>1. SyncInv => ReportsAccounted
  BY Zenon DEF SyncInv, ChangeAccounted, BuffersOK, ReportsAccounted
<1> QED BY <1>1, SyncInitially, SyncPreserved, PTL DEF NodeApiSpec

----------------------------------------------------------------------------
(* The baseline of the binary's checksum *)

\* The baseline in memory is the one on disk, once there is one there.
BaselineInv ==
    /\ binary \in Nat \ {NoBaseline}
    /\ saved # NoBaseline => checksums = saved
    /\ verifying.at = "compare" => verifying.actual # NoBaseline

LEMMA BaselineStep ==
    BaselineInv /\ [IntegrityNext]_integrityVars =>
        BaselineInv' /\ (saved # NoBaseline => saved' = saved)
<1> SUFFICES ASSUME BaselineInv, [IntegrityNext]_integrityVars
             PROVE  BaselineInv' /\ (saved # NoBaseline => saved' = saved)
  BY Zenon
<1>1. CASE HashBinary
  BY <1>1 DEF HashBinary, BaselineInv
<1>2. CASE CompareBinary
  <2>1. verifying'.at = "compare" => FALSE
    BY <1>2 DEF CompareBinary, Waiting
  <2> QED BY Zenon, <1>2, <2>1 DEF CompareBinary, Baseline, BaselineInv
<1>3. CASE ReportViolation \/ RestartAgent
  BY <1>3 DEF ReportViolation, RestartAgent, Waiting, BaselineInv
<1>4. CASE ReplaceBinary \/ UNCHANGED integrityVars
  BY <1>4 DEF ReplaceBinary, integrityVars, BaselineInv, NoBaseline
<1> QED BY Zenon, <1>1, <1>2, <1>3, <1>4 DEF IntegrityNext, VerifyStep

\* The checksum on disk never changes once it is there: a mismatch, a failing
\* write and a restart leave it alone (verifier.go, store.go).
THEOREM BaselineNeverMoves == IntegritySpec => BaselineKept
<1>1. IntegrityInit => BaselineInv
  BY DEF IntegrityInit, BaselineInv, NoBaseline, Waiting
<1> QED BY <1>1, BaselineStep, PTL DEF IntegritySpec, BaselineKept
=============================================================================
