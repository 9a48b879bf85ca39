SPECIFICATION Spec
CONSTANTS
    None = None
    alice = alice  bob = bob
    a1 = a1  a2 = a2  a3 = a3  b1 = b1
    p1 = p1  p2 = p2  p3 = p3
    srv = srv  cli = cli
    Server = srv
    PubkeyOf <- MCPubkeyOf
    CreatedAt <- MCCreatedAt
    Authors = {alice, bob}
    Torrents = {a1, a3, b1}
    Metas = {}
    RelayURLs = {r1}
    Workers = {srv}
    Slots = {g1}
    Forged = {b1}
    Garbled = {}
    Env = {"push", "partial", "disorder", "busy", "crash", "forget"}
    MaxMishaps = 1
    MaxCmds = 4
CHECK_DEADLOCK FALSE
INVARIANTS TypeOK WatermarkWitnessed
PROPERTIES CatalogueSpec WatermarkMonotone OldEditsLeftAlone
