SPECIFICATION FairSpec
CONSTANTS
    None = None
    alice = alice  bob = bob
    a1 = a1  a2 = a2  a3 = a3  b1 = b1
    p1 = p1  p2 = p2  p3 = p3
    srv = srv  cli = cli
    Server = srv
    PubkeyOf <- MCPubkeyOf
    CreatedAt <- MCCreatedAt
    Authors = {alice}
    Torrents = {a1, a3}
    Metas = {}
    RelayURLs = {r1}
    Workers = {srv}
    Slots = {g1}
    Forged = {}
    Garbled = {}
    Env = {"push"}
    MaxMishaps = 0
    MaxCmds = 2
CHECK_DEADLOCK FALSE
PROPERTIES CatchesUp
