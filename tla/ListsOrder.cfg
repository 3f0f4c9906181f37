\* The lists tier drops Enterprise Applications before the index it is built from.
CONSTANTS
    r1 = r1  r2 = r2  w1 = w1
    Readers = {r1, r2}
    Requests <- JoinAndScan
    Mutations = {w1}
    Tiers = {"lists"}
    Base = Base
    MaxFailures = 0
    NoEntry = NoEntry
    Free = Free
SPECIFICATION Spec
INVARIANTS EnterpriseIsFresh
