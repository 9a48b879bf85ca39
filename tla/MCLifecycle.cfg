SPECIFICATION FairSpec
CONSTANTS
    None = None  Empty = Empty  Foreign = Foreign
    c1 = c1  c2 = c2  p1 = p1  p2 = p2
    Cmds = {c1, c2}
    Pids = {p1, p2}
    Env = {"refused", "killed", "foreground", "crash", "stranger", "foreign"}
INVARIANTS TypeOK OneServer Named
PROPERTIES OneRemains StopServes
