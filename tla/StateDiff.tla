----------------------------- MODULE StateDiff -----------------------------
(***************************************************************************)
(* The desired state a node fetches from the control plane, and the pure   *)
(* comparison of two such states that drives the reconcile loop            *)
(* (internal/reconcile/diff.go, drift.go; api.StateResponse).              *)
(*                                                                         *)
(* A list of entries keyed by an ID is a partial function from the ID to   *)
(* the rest of the entry; AllowedIPs is compared as a set by the code, so  *)
(* a peer's configuration is one value.                                    *)
(***************************************************************************)
EXTENDS Naturals

CONSTANTS
    PeerID, PeerCfg,      \* Peer.ID; the other fields of a Peer
    PolicyID, Rules,      \* Policy.ID; its rules
    KeyPair, Expiry,      \* SigningKeys.Current/Previous; TransitionExpires
    NoKeys,               \* SigningKeys is nil
    Metadata, NoMetadata, \* the metadata map; the nil or empty map
    DataKey, Payload,     \* DataEntry.Key; DataEntry.Payload
    SecretKey,            \* SecretRef.Key
    Version,              \* DataEntry.Version and SecretRef.Version
    Config, NoConfig      \* bridge, relay, user access, ingress and
                          \* site-to-site configuration; all of them nil

\* A nil pointer is neither a key pair nor a SigningKeys value.
ASSUME NoKeysAssumption == NoKeys \notin KeyPair \cup [keys : KeyPair, expires : Expiry]

Partial(K, V) == UNION {[D -> V] : D \in SUBSET K}

NoEntries == [k \in {} |-> k]

SigningKeys == [keys : KeyPair, expires : Expiry] \cup {NoKeys}
DataEntries == Partial(DataKey, [version : Version, payload : Payload])

StateResponse ==
    [peers        : Partial(PeerID, PeerCfg),
     policies     : Partial(PolicyID, Rules),
     signing_keys : SigningKeys,
     metadata     : Metadata \cup {NoMetadata},
     data         : DataEntries,
     secret_refs  : Partial(SecretKey, Version),
     config       : Config \cup {NoConfig}]

\* A StateResponse with every field at its zero value.
EmptyState ==
    [peers        |-> NoEntries,
     policies     |-> NoEntries,
     signing_keys |-> NoKeys,
     metadata     |-> NoMetadata,
     data         |-> NoEntries,
     secret_refs  |-> NoEntries,
     config       |-> NoConfig]

\* The states that differ from s in at most one field: what one change by an
\* operator of the control plane makes of it.
Edits(s) ==
    {[s EXCEPT !.peers = v]        : v \in Partial(PeerID, PeerCfg)}
    \cup {[s EXCEPT !.policies = v]     : v \in Partial(PolicyID, Rules)}
    \cup {[s EXCEPT !.signing_keys = v] : v \in SigningKeys}
    \cup {[s EXCEPT !.metadata = v]     : v \in Metadata \cup {NoMetadata}}
    \cup {[s EXCEPT !.data = v]         : v \in DataEntries}
    \cup {[s EXCEPT !.secret_refs = v]  : v \in Partial(SecretKey, Version)}
    \cup {[s EXCEPT !.config = v]       : v \in Config \cup {NoConfig}}

----------------------------------------------------------------------------
(* diff.go *)

Added(des, cur)   == [k \in DOMAIN des \ DOMAIN cur |-> des[k]]

\* Mutant: entries that are gone from the desired state are not found.
NothingRemoved(des, cur) == {}

Removed(des, cur) == DOMAIN cur \ DOMAIN des

\* diffPeers with peerChanged: any field of a peer counts.
PeersToUpdate(des, cur) ==
    [k \in {j \in DOMAIN des \cap DOMAIN cur : des[j] # cur[j]} |-> des[k]]

\* diffSigningKeys: Current and Previous are compared, TransitionExpires is not.
SigningKeysChanged(des, cur) ==
    IF des = NoKeys \/ cur = NoKeys
    THEN des # cur
    ELSE des.keys # cur.keys

\* diffMetadata: maps.Equal does not tell a nil map from an empty one.
MetadataChanged(des, cur) == des # cur

\* diffData: the keys and the version of each key, not the payload.
DataChanged(des, cur) ==
    \/ \E k \in DOMAIN des : k \notin DOMAIN cur \/ des[k].version # cur[k].version
    \/ \E k \in DOMAIN cur : k \notin DOMAIN des

SecretRefsChanged(des, cur) ==
    \/ \E k \in DOMAIN des : k \notin DOMAIN cur \/ des[k] # cur[k]
    \/ \E k \in DOMAIN cur : k \notin DOMAIN des

ComputeDiff(des, cur) ==
    [peersToAdd         |-> Added(des.peers, cur.peers),
     peersToRemove      |-> Removed(des.peers, cur.peers),
     peersToUpdate      |-> PeersToUpdate(des.peers, cur.peers),
     policiesToAdd      |-> Added(des.policies, cur.policies),
     policiesToRemove   |-> Removed(des.policies, cur.policies),
     signingKeysChanged |-> SigningKeysChanged(des.signing_keys, cur.signing_keys),
     metadataChanged    |-> MetadataChanged(des.metadata, cur.metadata),
     dataChanged        |-> DataChanged(des.data, cur.data),
     secretRefsChanged  |-> SecretRefsChanged(des.secret_refs, cur.secret_refs)]

IsEmpty(diff) ==
    /\ DOMAIN diff.peersToAdd = {}
    /\ diff.peersToRemove = {}
    /\ DOMAIN diff.peersToUpdate = {}
    /\ DOMAIN diff.policiesToAdd = {}
    /\ diff.policiesToRemove = {}
    /\ ~ diff.signingKeysChanged
    /\ ~ diff.metadataChanged
    /\ ~ diff.dataChanged
    /\ ~ diff.secretRefsChanged

\* drift.go: one correction per drift item.
BuildDriftReport(diff) ==
    {<<"peer_added", p>>     : p \in DOMAIN diff.peersToAdd}
    \cup {<<"peer_removed", p>>   : p \in diff.peersToRemove}
    \cup {<<"peer_updated", p>>   : p \in DOMAIN diff.peersToUpdate}
    \cup {<<"policy_added", q>>   : q \in DOMAIN diff.policiesToAdd}
    \cup {<<"policy_removed", q>> : q \in diff.policiesToRemove}
    \cup {<<t>> : t \in {u \in {"signing_keys_updated"} : diff.signingKeysChanged}}
    \cup {<<t>> : t \in {u \in {"metadata_updated"} : diff.metadataChanged}}
    \cup {<<t>> : t \in {u \in {"data_updated"} : diff.dataChanged}}
    \cup {<<t>> : t \in {u \in {"secret_refs_updated"} : diff.secretRefsChanged}}

----------------------------------------------------------------------------
(* What the comparison is for, stated without it. *)

\* The part of a state the loop keeps the node aligned with.
Tracked(s) ==
    [peers        |-> s.peers,
     policies     |-> DOMAIN s.policies,
     signing_keys |-> IF s.signing_keys = NoKeys THEN NoKeys ELSE s.signing_keys.keys,
     metadata     |-> s.metadata,
     data         |-> [k \in DOMAIN s.data |-> s.data[k].version],
     secret_refs  |-> s.secret_refs]

\* Applying the peer part of a diff to a table of peers.
PatchPeers(table, diff) ==
    [k \in (DOMAIN table \ diff.peersToRemove)
           \cup DOMAIN diff.peersToAdd \cup DOMAIN diff.peersToUpdate |->
        IF k \in DOMAIN diff.peersToAdd THEN diff.peersToAdd[k]
        ELSE IF k \in DOMAIN diff.peersToUpdate THEN diff.peersToUpdate[k]
        ELSE table[k]]

=============================================================================
