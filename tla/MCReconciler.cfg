SPECIFICATION FairSpec
CONSTANTS
    PeerID = {p1}
    PeerCfg = {a, b}
    PolicyID = {q1}
    Rules = {r1, r2}
    KeyPair = {k1, k2}
    Expiry = {e1, e2}
    NoKeys = NoKeys
    Metadata = {m1}
    NoMetadata = NoMetadata
    DataKey = {d1}
    Payload = {x, y}
    SecretKey = {s1}
    Version = {1, 2}
    Config = {c1}
    NoConfig = NoConfig
    Handlers <- TwoHandlers
    MaxChanges = 2
    MaxFaults = 1
INVARIANTS NoLostTrigger SnapshotAccepted DiffFaithful
PROPERTY LoopLive
