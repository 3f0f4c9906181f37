\* Every long-running command alone, under throttling, and beside another.
CONSTANTS
    r1 = r1  r2 = r2  p1 = p1  p2 = p2
    Runs = {r1, r2}
    Presses = {p1, p2}
    Plans <- MCPlans
    Nobody = Nobody
SPECIFICATION FairSpec
CHECK_DEADLOCK FALSE
INVARIANTS CancelIsExact LandedIsAccountedFor StopsAreExplained CompleteIsComplete ObserverIsLive
PROPERTIES EveryRunEnds
