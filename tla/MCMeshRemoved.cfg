SPECIFICATION MeshFairSpec
CONSTANTS
    PeerID = {p1, p2}
    Handlers <- WireGuardOnly
    PeerCfg <- Fixed
    PolicyID = {}
    Rules <- NoRules
    RulesOf <- FixedRules
    Environments <- EventsAndLeaving
    MaxChanges = 2
    MaxFaults = 0
    KeyPair = {}
    Expiry = {}
    NoKeys = NoKeys
    Metadata = {}
    NoMetadata = NoMetadata
    DataKey = {}
    Payload = {}
    SecretKey = {}
    Version = {}
    Config = {}
    NoConfig = NoConfig
    Local = Local
    AnyNode = AnyNode
    p1 = p1
    p2 = p2
PROPERTY CyclesSucceed
