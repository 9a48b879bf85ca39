SPECIFICATION FairSpec
CONSTANTS
    None = None  NoTracker = NoTracker
    a = a  b = b  c = c  d = d  h1 = h1  h2 = h2  live = live  dead = dead
    Torrents = {a, b, c, d}
    HashOf <- Hashes
    TrackerOf <- ThreeAndDead
    Answering = {live}
    MaxBatch = 2
    Interval = 2
    LocalTime = 0
    ResolveTime = 0
    CallTime = 1
    WriteTime = 1
    AgeCap = 9
    MaxFaults = 1
INVARIANTS TypeOK CyclesEnd
PROPERTIES Spaced KeepsFresh
