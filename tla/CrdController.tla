--------------------------- MODULE CrdController ---------------------------
(***************************************************************************)
(* The controller that mirrors a node's state into a PlexdNodeState object *)
(* and Kubernetes Secrets (internal/kubernetes/crdcontroller.go).          *)
(*                                                                         *)
(* The API server is external: KubeClient has no implementation in the     *)
(* repository.  It is taken to do what its documentation of resource       *)
(* versions says: an update of an object that changed since it was read    *)
(* fails.  Any call may fail.  UpdateSecretIndex reads the object before   *)
(* it takes the controller's lock, so two updates may hold the same        *)
(* version; its calls for the Secrets are made one by one under the lock.  *)
(***************************************************************************)
EXTENDS Naturals, FiniteSets

CONSTANTS
    SecretKey,
    Updater,         \* goroutines that call the controller
    MaxUpdates,      \* bound: updates
    MaxKubeFails,    \* bound: API calls that fail
    MaxKubeRestarts  \* bound: restarts of the agent

Unlocked == "nobody"

ASSUME CrdAssumption ==
    /\ MaxUpdates \in Nat /\ MaxKubeFails \in Nat /\ MaxKubeRestarts \in Nat
    /\ Unlocked \notin Updater

VARIABLES
    crdStarted,     \* Start found or made the object
    object,         \* PlexdNodeState: exists, version and secretRefs
    kubeSecrets,    \* keys of the Secrets that exist
    abandoned,      \* Secrets of keys the controller stopped tracking with the Secret in place
    currentSecrets, \* CRDController.currentSecrets
    call,           \* updater -> the update it is in
    crdLock,        \* the updater that holds mu
    refsFailed,     \* the last secret index update to end returned an error
    updates, kubeFails, kubeRestarts

crdVars == <<crdStarted, object, kubeSecrets, abandoned, currentSecrets, call, crdLock, refsFailed,
             updates, kubeFails, kubeRestarts>>

NoCall == [at |-> "idle"]

CrdInit ==
    /\ crdStarted = FALSE
    /\ object = [exists |-> FALSE, version |-> 0, refs |-> {}]
    /\ kubeSecrets = {} /\ abandoned = {} /\ currentSecrets = {}
    /\ call = [u \in Updater |-> NoCall] /\ crdLock = Unlocked
    /\ refsFailed = FALSE
    /\ updates = 0 /\ kubeFails = 0 /\ kubeRestarts = 0

\* An API call fails for a reason of the API server's.
KubeFails == kubeFails < MaxKubeFails /\ kubeFails' = kubeFails + 1

Goto(u, c) == call' = [call EXCEPT ![u] = c]

----------------------------------------------------------------------------
\* ensureResource, when the controller starts: the object is created, with no
\* references, or exists and keeps them.  (When somebody else creates it between
\* the two calls it is overwritten, with the same result.)
ensureResource ==
    /\ ~crdStarted
    /\ \/ /\ crdStarted' = TRUE /\ UNCHANGED kubeFails
          /\ object' = [exists |-> TRUE, version |-> object.version + 1, refs |-> object.refs]
       \/ KubeFails /\ UNCHANGED <<object, crdStarted>>
    /\ UNCHANGED <<kubeSecrets, abandoned, currentSecrets, call, crdLock, refsFailed,
                   updates, kubeRestarts>>

\* UpdateMetadata and UpdateData: get the object, then update it.
GetForUpdate(u, kind, refs) ==
    /\ call[u] = NoCall /\ object.exists /\ updates < MaxUpdates
    /\ updates' = updates + 1
    /\ Goto(u, [at |-> kind, version |-> object.version, refs |-> refs, todo |-> refs])
    /\ UNCHANGED <<crdStarted, object, kubeSecrets, abandoned, currentSecrets, crdLock, refsFailed,
                   kubeFails, kubeRestarts>>

UpdateSpec(u) ==
    /\ call[u].at = "spec" /\ Goto(u, NoCall)
    /\ \/ /\ object' = IF object.version = call[u].version
                       THEN [object EXCEPT !.version = @ + 1] ELSE object
          /\ UNCHANGED kubeFails
       \/ KubeFails /\ UNCHANGED object
    /\ UNCHANGED <<crdStarted, kubeSecrets, abandoned, currentSecrets, crdLock, refsFailed,
                   updates, kubeRestarts>>

----------------------------------------------------------------------------
(* UpdateSecretIndex, from the lock on *)

LockSecrets(u) ==
    /\ call[u].at = "index" /\ crdLock = Unlocked /\ crdLock' = u
    /\ Goto(u, [call[u] EXCEPT !.at = "delete"])
    /\ UNCHANGED <<crdStarted, object, kubeSecrets, abandoned, currentSecrets, refsFailed, updates,
                   kubeFails, kubeRestarts>>

Stale(u) == currentSecrets \ call[u].refs

\* A Secret whose reference is gone is deleted; it is no longer tracked even
\* when that fails.
DeleteSecret(u) ==
    /\ call[u].at = "delete"
    /\ \E key \in Stale(u) :
         /\ currentSecrets' = currentSecrets \ {key}
         /\ \/ /\ kubeSecrets' = kubeSecrets \ {key} /\ abandoned' = abandoned \ {key}
               /\ UNCHANGED kubeFails
            \/ /\ KubeFails
               /\ abandoned' = abandoned \union {key}
               /\ UNCHANGED kubeSecrets
    /\ UNCHANGED <<crdStarted, object, call, crdLock, refsFailed, updates, kubeRestarts>>

Return(u, failed) ==
    /\ Goto(u, NoCall) /\ crdLock' = Unlocked /\ refsFailed' = failed

\* Mutant: an error of CreateSecret is only logged.
TolerateMissing(u, key) ==
    /\ KubeFails
    /\ Goto(u, [call[u] EXCEPT !.todo = @ \ {key}])
    /\ UNCHANGED <<kubeSecrets, abandoned, currentSecrets, crdLock, refsFailed>>

\* An error of CreateSecret or UpdateSecret ends the update.
SecretFails(u, key) ==
    /\ KubeFails
    /\ Return(u, TRUE)
    /\ UNCHANGED <<kubeSecrets, abandoned, currentSecrets>>

\* Create, or update when it is tracked or exists already.
PutSecret(u) ==
    /\ call[u].at = "delete" /\ Stale(u) = {}
    /\ \E key \in call[u].todo :
         \/ /\ kubeSecrets' = kubeSecrets \union {key} /\ abandoned' = abandoned \ {key}
            /\ currentSecrets' = currentSecrets \union {key}
            /\ Goto(u, [call[u] EXCEPT !.todo = @ \ {key}])
            /\ UNCHANGED <<crdLock, refsFailed, kubeFails>>
         \/ SecretFails(u, key)
    /\ UNCHANGED <<crdStarted, object, updates, kubeRestarts>>

\* The references are written last, to the version read before the lock.
UpdateRefs(u) ==
    /\ call[u].at = "delete" /\ Stale(u) = {} /\ call[u].todo = {}
    /\ \/ /\ object.version = call[u].version
          /\ object' = [exists |-> TRUE, version |-> object.version + 1, refs |-> call[u].refs]
          /\ Return(u, FALSE) /\ UNCHANGED kubeFails
       \/ object.version # call[u].version /\ Return(u, TRUE) /\ UNCHANGED <<object, kubeFails>>
       \/ KubeFails /\ Return(u, TRUE) /\ UNCHANGED object
    /\ UNCHANGED <<crdStarted, kubeSecrets, abandoned, currentSecrets, updates, kubeRestarts>>

\* The agent restarts: what it tracked is forgotten, the cluster's state is not.
KubeRestart ==
    /\ kubeRestarts < MaxKubeRestarts /\ kubeRestarts' = kubeRestarts + 1
    /\ crdStarted' = FALSE
    /\ abandoned' = abandoned \union (kubeSecrets \intersect currentSecrets)
    /\ currentSecrets' = {}
    /\ refsFailed' = (refsFailed \/ crdLock # Unlocked)
    /\ call' = [u \in Updater |-> NoCall] /\ crdLock' = Unlocked
    /\ UNCHANGED <<object, kubeSecrets, updates, kubeFails>>

CrdNext ==
    \/ ensureResource \/ KubeRestart
    \/ \E u \in Updater :
         \/ GetForUpdate(u, "spec", {})
         \/ \E refs \in SUBSET SecretKey : GetForUpdate(u, "index", refs)
         \/ UpdateSpec(u) \/ LockSecrets(u) \/ DeleteSecret(u) \/ PutSecret(u) \/ UpdateRefs(u)

CrdSpec == CrdInit /\ [][CrdNext]_crdVars

----------------------------------------------------------------------------
\* Between updates, unless the last one returned an error, every reference in
\* the object has its Secret; and a Secret exists only for a key the controller
\* tracks, or one it lost sight of because deleting it failed or the agent
\* restarted.  Updates may overlap and restarts may hit them anywhere.
RefsBacked ==
    /\ crdLock = Unlocked /\ ~refsFailed => object.refs \subseteq kubeSecrets
    /\ kubeSecrets \subseteq currentSecrets \union abandoned
=============================================================================
