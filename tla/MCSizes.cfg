SPECIFICATION Spec
CONSTANTS
    None = None  Blank = blank  blank = blank
    t1 = t1  t2 = t2  t3 = t3  t4 = t4  t5 = t5  c1 = c1  c2 = c2
    film = film  song = song  gone = gone  tag = tag  hash = hash
    HashRe = {hash}
    IntMax = 15
    Torrents = {t1, t2, t3, t4, t5}
    Texts = {blank, film, song, gone, tag}
    EventOf <- Evts
    PublishedAt <- Dates
    Moderated = {t2}
    Cmds = {c1, c2}
    Options <- Opts
    Matching = {film}
    PageSize = 2
    Unit = 2
    Units = 2
INVARIANT SizesReadable
