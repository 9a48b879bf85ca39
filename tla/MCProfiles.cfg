SPECIFICATION FairSpec
CONSTANTS
    None = None
    alice = alice  bob = bob
    a1 = a1  a2 = a2  a3 = a3  b1 = b1
    p1 = p1  p2 = p2  p3 = p3
    srv = srv  cli = cli
    Server = srv
    PubkeyOf <- MCPubkeyOf
    CreatedAt <- MCCreatedAt
    Authors = {alice}
    Torrents = {}
    Metas = {p1, p2, p3}
    RelayURLs = {r1}
    Workers = {srv, cli}
    Slots = {g1, g2}
    Forged = {}
    Garbled = {p3}
    Env = {"push", "disorder", "partial", "crash", "busy"}
    MaxMishaps = 1
    MaxCmds = 4
CHECK_DEADLOCK FALSE
INVARIANTS OneSubscription
PROPERTIES ProfileMonotone ProfileSettles LiveSettles
