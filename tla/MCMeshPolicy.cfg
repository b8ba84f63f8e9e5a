SPECIFICATION MeshSpec
CONSTANTS
    PeerID = {p1, p2}
    Handlers <- PolicyOnly
    PeerCfg <- Fixed
    PolicyID = {q1, q2}
    Rules <- TwoRuleSets
    RulesOf <- FixedRules
    Environments <- Changes
    MaxChanges = 4
    MaxFaults = 1
    KeyPair = {}
    Expiry = {}
    NoKeys = NoKeys
    Metadata = {m1}
    NoMetadata = NoMetadata
    DataKey = {}
    Payload = {}
    SecretKey = {}
    Version = {}
    Config = {}
    NoConfig = NoConfig
    Local = Local
    AnyNode = AnyNode
    p1 = p1
    p2 = p2
INVARIANTS  IndexOnDevice
