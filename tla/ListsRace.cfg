\* A mutation that drops or patches, against readers of what it changes.
CONSTANTS
    r1 = r1  r2 = r2  w1 = w1
    Readers = {r1, r2}
    Requests <- JoinAndScan
    Mutations = {w1}
    Tiers = {"lists", "credentials", "created", "deleted", "renamed"}
    Base = Base
    MaxFailures = 0
    NoEntry = NoEntry
    Free = Free
SPECIFICATION Spec
INVARIANTS IndexesAreFresh OnlyInheritedStaleness
