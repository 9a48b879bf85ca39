SPECIFICATION FairSpec
CONSTANTS
    None = None  NoTracker = NoTracker
    a = a  b = b  c = c  d = d  h1 = h1  h2 = h2  live = live  dead = dead
    Torrents = {a, b, c, d}
    HashOf <- Hashes
    TrackerOf <- OneDead
    Answering = {live}
    MaxBatch = 2
    Interval = 3
    LocalTime = 1
    ResolveTime = 0
    CallTime = 2
    WriteTime = 0
    AgeCap = 9
    MaxFaults = 0
PROPERTY TurnComes
