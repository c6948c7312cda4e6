SPECIFICATION MCSpec
CONSTANTS
    c1 = c1
    c2 = c2
    g1 = g1
    g2 = g2
    n1 = n1
    n2 = n2
    old = old
    l1 = l1
    l2 = l2
    l3 = l3
    l4 = l4
    Clients <- MCClients
    Graphs <- MCGraphIds
    First <- MCFirst
    Names <- MCNames
    Contents <- MCContents
    Legacy <- MCLegacy
    SeedNames <- MCSeedNames
    Locks <- MCLocks
    None = None
    Damaged = Damaged
    Threads = {t1, t2}
    Assets = {a1}
    CacheMax = 1
    MaxVersion = 2
    MaxRestart = 1
    CookThreads = {t1, t2, t3}
    CookKeys = {k1, k2}
    MaxEntries = 1
    MaxBytes = 3
    Ttl = 1
    MaxAge = 1
    Sizes = {1, 4}
    MaxTime = 2
    MaxAsk = 1
    EarlyUse = FALSE
    MaxRev = 2
    MaxFault = 1
INVARIANTS NamesUnique HeadsInStep DeletedIsGone SingleFlight WaitsForACook
PROPERTIES Linearizable 
SYMMETRY Alike
