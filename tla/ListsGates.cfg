\* Readers of every list on a cold tenant, with a scan that may fail.
CONSTANTS
    r1 = r1  r2 = r2  w1 = w1
    Readers = {r1, r2}
    Requests <- Everything
    Mutations = {}
    Tiers = {"lists"}
    Base = Base
    MaxFailures = 1
    NoEntry = NoEntry
    Free = Free
SPECIFICATION FairSpec
INVARIANTS ColdReadersShareOneScan NoPartialEntry
PROPERTIES EveryReadReturns
