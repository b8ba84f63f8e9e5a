SPECIFICATION MeshFairSpec
CONSTANTS
    PeerID = {p1, p2}
    Handlers <- WireGuardOnly
    PeerCfg <- Moving
    PolicyID = {}
    Rules <- NoRules
    RulesOf <- FixedRules
    Environments <- Surroundings
    MaxChanges = 4
    MaxFaults = 1
    KeyPair = {}
    Expiry = {}
    NoKeys = NoKeys
    Metadata = {}
    NoMetadata = NoMetadata
    DataKey = {}
    Payload = {}
    SecretKey = {}
    Version = {}
    Config = {}
    NoConfig = NoConfig
    Local = Local
    AnyNode = AnyNode
    p1 = p1
    p2 = p2
INVARIANT PeersMatchSnapshot
 
