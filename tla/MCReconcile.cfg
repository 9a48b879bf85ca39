SPECIFICATION FairSpec
CONSTANTS
    None = None
    alice = alice  bob = bob
    a1 = a1  a2 = a2  a3 = a3  b1 = b1
    p1 = p1  p2 = p2  p3 = p3
    srv = srv  cli = cli
    Server = srv
    PubkeyOf <- MCPubkeyOf
    CreatedAt <- MCCreatedAt
    Authors = {alice}
    Torrents = {a1, a2, a3}
    Metas = {}
    RelayURLs = {r1}
    Workers = {srv, cli}
    Slots = {}
    Forged = {}
    Garbled = {}
    Env = {"busy", "crash"}
    MaxMishaps = 1
    MaxCmds = 3
CHECK_DEADLOCK FALSE
INVARIANTS NoGap WatermarkWitnessed
PROPERTIES CatchesUp WatermarkMonotone
