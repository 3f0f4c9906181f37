\* Two callers that fetch again and again, a sweep and contending patches, one
\* watch to share.
CONSTANTS
    lists = lists  audit = audit
    k1 = k1  k2 = k2
    w1 = w1  w2 = w2
    f1 = f1  f2 = f2
    c1 = c1  c2 = c2
    Kinds = {lists, audit}
    Keys = {k1, k2}
    KindOf <- MCKindOf
    Writes = {w1, w2}
    Fetches = {f1, f2}
    FetchKeys <- MCFetchKeys
    Calls = {c1, c2}
    CallWrite <- MCCallWrite
    Sweeps <- MCSweeps
    Patches <- MCPatches
    MaxWatches = 1
    PatchAttempts = 2
    WatchUnavailable = WatchUnavailable
    NoEntry = NoEntry
SPECIFICATION FairSpec
CHECK_DEADLOCK FALSE
INVARIANTS NoStaleEntryAtRest WatchRefsExact
PROPERTIES RollbackSparesOthers PatchLosesNothing ImplementsCurrency EveryCallEnds StaleEntriesGo
