--------------------------- MODULE Registration ---------------------------
(***************************************************************************)
(* A node's identity: Register (internal/registration) as `plexd up`,      *)
(* `plexd join` and the heartbeat's 401 callback call it, the four files   *)
(* it keeps, and `plexd deregister`.  One plexd process at a time, beside  *)
(* the deregister command.                                                 *)
(*                                                                         *)
(* The control plane numbers the identities it issues; the n-th key pair   *)
(* generated is n.  A file holds the number of the identity, or of the key *)
(* pair, that it was written for, and 0 when it is not there.              *)
(***************************************************************************)
EXTENDS Naturals, Sequences

CONSTANTS
    MaxKeys,    \* bound: key pairs generated
    MaxIssued,  \* bound: identities issued
    MaxCrashes, \* bound: crashes and failed writes
    MaxRetries  \* retries that fit into Config.MaxRetryDuration

ASSUME BoundsAssumption ==
    MaxKeys \in Nat /\ MaxIssued \in Nat /\ MaxCrashes \in Nat /\ MaxRetries \in Nat

File == {"identity.json", "private_key", "node_secret_key", "signing_public_key"}

VARIABLES
    files,     \* the data directory
    tokenFile, \* the bootstrap token file is there
    other,     \* another source with a token: "value", "env" or "none"
    phase,     \* "down", "running", or where Register is
    caller,    \* who called Register: "up", "join" or "heartbeat"
    source,    \* local of Register: where the token came from
    keyPairs,  \* key pairs generated; the last one is Register's local
    resp,      \* local of Register: the identity in the response
    retries,   \* local of registerWithRetry
    auth,      \* the client's token: an identity's secret, or 0
    issued,    \* sequence of the key pairs that identities were issued for
    revoked,   \* identities the control plane no longer accepts
    cli,       \* the deregister command: "idle" or "purge"
    purged,    \* a purge has been started
    crashes

procVars == <<phase, caller, source, keyPairs, resp, retries, auth>>
issuedVars == <<issued, revoked>>
registrationVars == <<files, tokenFile, other, procVars, issuedVars, cli, purged, crashes>>

RegistrationInit ==
    /\ files = [f \in File |-> 0]
    /\ tokenFile \in BOOLEAN
    /\ other \in {"value", "env", "none"}
    /\ phase = "down" /\ caller = "up" /\ source = "none"
    /\ keyPairs = 0 /\ resp = 0 /\ retries = 0 /\ auth = 0
    /\ issued = <<>> /\ revoked = {}
    /\ cli = "idle" /\ purged = FALSE
    /\ crashes = 0

\* LoadIdentity succeeds when all four files are there.
Loads == \A f \in File : files[f] # 0

\* A fault: something fails that need not.
Fault == crashes < MaxCrashes /\ crashes' = crashes + 1

----------------------------------------------------------------------------
(* Register *)

\* plexd up or plexd join is started.
Start(c) ==
    /\ phase = "down"
    /\ phase' = "load" /\ caller' = c /\ auth' = 0
    /\ UNCHANGED <<files, tokenFile, other, source, keyPairs, resp, retries, issuedVars,
                   cli, purged, crashes>>

AfterSuccess == IF caller = "join" THEN "down" ELSE "running"
AfterFailure == IF caller = "heartbeat" THEN "running" ELSE "down"

\* Step 1: an identity that loads is used; otherwise a new one is asked for.
LoadIdentity ==
    /\ phase = "load"
    /\ IF Loads
       THEN auth' = files["node_secret_key"] /\ phase' = AfterSuccess
       ELSE auth' = auth /\ phase' = "resolve"
    /\ UNCHANGED <<files, tokenFile, other, caller, source, keyPairs, resp, retries,
                   issuedVars, cli, purged, crashes>>

\* Direct value, file, environment, in this order. The metadata service comes
\* last, but no command installs a provider for it.
Resolve ==
    IF other = "value" THEN "value" ELSE IF tokenFile THEN "file" ELSE other

\* Steps 2 to 6.
ResolveToken ==
    /\ phase = "resolve"
    /\ Resolve # "none"
    /\ keyPairs < MaxKeys
    /\ source' = Resolve
    /\ phase' = "send" /\ keyPairs' = keyPairs + 1 /\ retries' = 0 /\ auth' = 0
    /\ UNCHANGED <<files, tokenFile, other, caller, resp, issuedVars, cli, purged, crashes>>

\* There is no token, it is not valid, or the keys or the host name cannot be
\* had.
ResolveFails ==
    /\ phase = "resolve"
    /\ phase' = AfterFailure
    /\ UNCHANGED <<files, tokenFile, other, caller, source, keyPairs, resp, retries, auth,
                   issuedVars, cli, purged, crashes>>

\* The control plane issues an identity for the request's public key.
Issue == Len(issued) < MaxIssued /\ issued' = Append(issued, keyPairs)

\* Step 7: the request is answered.
RegisterAccepted ==
    /\ phase = "send"
    /\ Issue
    /\ resp' = Len(issued')
    /\ phase' = "identity.json"
    /\ UNCHANGED <<files, tokenFile, other, caller, source, keyPairs, retries, auth,
                   revoked, cli, purged, crashes>>

\* A network error, a 5xx or a 429; the request may have arrived.
RegisterTransient(arrived) ==
    /\ phase = "send"
    /\ IF arrived THEN Issue ELSE UNCHANGED issued
    /\ phase' = "retry"
    /\ UNCHANGED <<files, tokenFile, other, caller, source, keyPairs, resp, retries, auth,
                   revoked, cli, purged, crashes>>

\* 400, 401, 403 or 409.
RegisterRefused ==
    /\ phase = "send"
    /\ phase' = AfterFailure
    /\ UNCHANGED <<files, tokenFile, other, caller, source, keyPairs, resp, retries, auth,
                   issuedVars, cli, purged, crashes>>

\* Mutant: the time spent is not looked at.
RetryForEver ==
    /\ phase = "retry"
    /\ phase' = "send"
    /\ UNCHANGED <<files, tokenFile, other, caller, source, keyPairs, resp, retries, auth,
                   issuedVars, cli, purged, crashes>>

\* Back off and try again, until MaxRetryDuration has passed.
Retry ==
    /\ phase = "retry"
    /\ IF retries >= MaxRetries
       THEN phase' = AfterFailure /\ UNCHANGED retries
       ELSE phase' = "send" /\ retries' = retries + 1
    /\ UNCHANGED <<files, tokenFile, other, caller, source, keyPairs, resp, auth,
                   issuedVars, cli, purged, crashes>>

\* Mutant: the token file is removed before the last file is written.
NextFileTokenEarly(f) ==
    CASE f = "identity.json"      -> "private_key"
      [] f = "private_key"        -> "node_secret_key"
      [] f = "node_secret_key"    -> "token"
      [] f = "signing_public_key" -> "token"

\* SaveIdentity's order.
NextFile(f) ==
    CASE f = "identity.json"      -> "private_key"
      [] f = "private_key"        -> "node_secret_key"
      [] f = "node_secret_key"    -> "signing_public_key"
      [] f = "signing_public_key" -> "token"

\* Mutant: a file that is there is kept.
SaveFileKeepsOld ==
    /\ phase \in File
    /\ files' = [files EXCEPT ![phase] = IF @ # 0 THEN @
                                      ELSE IF phase = "private_key" THEN keyPairs ELSE resp]
    /\ phase' = NextFile(phase)
    /\ UNCHANGED <<tokenFile, other, caller, source, keyPairs, resp, retries, auth,
                   issuedVars, cli, purged, crashes>>

\* Step 9: WriteFileAtomic of one file.
SaveFile ==
    /\ phase \in File
    /\ files' = [files EXCEPT ![phase] = IF phase = "private_key" THEN keyPairs ELSE resp]
    /\ phase' = NextFile(phase)
    /\ UNCHANGED <<tokenFile, other, caller, source, keyPairs, resp, retries, auth,
                   issuedVars, cli, purged, crashes>>

\* A write fails: Register returns the error, with the files before it written.
SaveFails ==
    /\ phase \in File
    /\ Fault
    /\ phase' = AfterFailure
    /\ UNCHANGED <<files, tokenFile, other, caller, source, keyPairs, resp, retries, auth,
                   issuedVars, cli, purged>>

\* Steps 10 and 11; a token file that cannot be removed stays.
RemoveToken(removed) ==
    /\ phase = "token"
    /\ removed => source = "file"
    /\ tokenFile' = (tokenFile /\ ~ removed)
    /\ auth' = resp
    /\ phase' = AfterSuccess
    /\ UNCHANGED <<files, other, caller, source, keyPairs, resp, retries, issuedVars, cli,
                   purged, crashes>>

\* The process is killed or stopped.
Crash ==
    /\ phase # "down"
    /\ Fault
    /\ phase' = "down"
    /\ UNCHANGED <<files, tokenFile, other, caller, source, keyPairs, resp, retries, auth,
                   issuedVars, cli, purged>>

----------------------------------------------------------------------------
(* The heartbeat, the deregister command and the operator. *)

\* A heartbeat is answered 401; the callback calls Register.
HeartbeatUnauthorized ==
    /\ phase = "running"
    /\ auth \in revoked \cup {0}
    /\ phase' = "load" /\ caller' = "heartbeat"
    /\ UNCHANGED <<files, tokenFile, other, source, keyPairs, resp, retries, auth, issuedVars,
                   cli, purged, crashes>>

\* plexd deregister: the control plane knows the secret and forgets the node.
Deregister(purge) ==
    /\ cli = "idle"
    /\ Loads
    /\ files["node_secret_key"] \notin revoked
    /\ revoked' = revoked \cup {files["identity.json"]}
    /\ cli' = IF purge THEN "purge" ELSE "idle"
    /\ purged' = (purged \/ purge)
    /\ UNCHANGED <<files, tokenFile, other, procVars, issued, crashes>>

\* os.RemoveAll takes the files in the order of the directory.
PurgeFile(f) ==
    /\ cli = "purge"
    /\ files[f] # 0
    /\ files' = [files EXCEPT ![f] = 0]
    /\ UNCHANGED <<tokenFile, other, procVars, issuedVars, cli, purged, crashes>>

\* The directory is removed, or an entry cannot be: RemoveAll's error is only
\* logged. Then the token file.
PurgeEnds ==
    /\ cli = "purge"
    /\ IF \A f \in File : files[f] = 0 THEN UNCHANGED crashes ELSE Fault
    /\ cli' = "idle"
    /\ tokenFile' = FALSE
    /\ UNCHANGED <<files, other, procVars, issuedVars, purged>>

\* The operator provides a new token file.
Provision ==
    /\ ~ tokenFile
    /\ tokenFile' = TRUE
    /\ UNCHANGED <<files, other, procVars, issuedVars, cli, purged, crashes>>

----------------------------------------------------------------------------
\* The steps of a Register call.
Register ==
    \/ LoadIdentity \/ ResolveToken \/ ResolveFails
    \/ RegisterAccepted \/ RegisterRefused \/ Retry
    \/ \E arrived \in BOOLEAN : RegisterTransient(arrived)
    \/ SaveFile \/ SaveFails
    \/ \E removed \in BOOLEAN : RemoveToken(removed)

RegistrationNext ==
    \/ \E c \in {"up", "join"} : Start(c)
    \/ Register
    \/ Crash
    \/ HeartbeatUnauthorized
    \/ \E purge \in BOOLEAN : Deregister(purge)
    \/ \E f \in File : PurgeFile(f)
    \/ PurgeEnds
    \/ Provision

RegistrationSpec == RegistrationInit /\ [][RegistrationNext]_registrationVars

\* The process is scheduled and requests end, if only by their timeout.
RegistrationFairSpec ==
    /\ RegistrationSpec
    /\ WF_registrationVars(Register) /\ WF_registrationVars(HeartbeatUnauthorized)
----------------------------------------------------------------------------
Step == {"down", "running", "load", "resolve", "send", "retry", "token"} \cup File

\* Contents and locals are numbers of identities and key pairs that exist.
RegistrationTypeOK ==
    /\ files \in [File -> Nat]
    /\ \A f \in File : files[f] <= IF f = "private_key" THEN keyPairs ELSE Len(issued)
    /\ tokenFile \in BOOLEAN
    /\ other \in {"value", "env", "none"}
    /\ phase \in Step
    /\ caller \in {"up", "join", "heartbeat"}
    /\ source \in {"value", "file", "env", "none"}
    /\ keyPairs \in 0 .. MaxKeys
    /\ resp \in 0 .. Len(issued)
    /\ retries \in 0 .. MaxRetries
    /\ auth \in 0 .. Len(issued)
    /\ issued \in Seq(1 .. keyPairs)
    /\ revoked \subseteq 1 .. Len(issued)
    /\ cli \in {"idle", "purge"}
    /\ purged \in BOOLEAN
    /\ crashes \in 0 .. MaxCrashes

\* The files describe one identity that the control plane issued, with the
\* private key of the public key it was issued for.
Whole ==
    LET n == files["identity.json"] IN
    /\ n \in 1 .. Len(issued)
    /\ files["node_secret_key"] = n /\ files["signing_public_key"] = n
    /\ files["private_key"] = issued[n]

\* Wherever a process was killed or a write failed, and however often the
\* node registered again, LoadIdentity never puts together parts of two
\* registrations, as long as no purge has been started.
IdentityWhole == ~ purged /\ Loads => Whole

\* The token file is only removed when the identity is safe: a crash leaves a
\* node with its token or with its identity (a purge takes both).
TokenOrIdentity ==
    [][tokenFile /\ ~ tokenFile' /\ ~ purged => Whole']_registrationVars

\* A Register call ends, with an identity or an error, even when the control
\* plane is never reached.
RegisterReturns == (phase = "load") ~> (phase \in {"down", "running"})

\* heartbeat-service.md: on a 401 the callback "triggers re-registration". An
\* agent whose identity was revoked goes past loading it, or ends.
ReRegisters ==
    (phase = "running" /\ auth \in revoked) ~> (phase \in {"resolve", "down"})

=============================================================================
