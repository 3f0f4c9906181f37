\* One thread of one instance deletes a token of five chunks, and deletes again
\* after a failure.
CONSTANTS
    p1 = p1  p2 = p2  t1 = t1  t2 = t2  t3 = t3
    small = small  long = long
    Procs = {p1}
    Threads = {t1}
    Home <- TwoProcesses
    Calls <- TwoProcessCalls
    Tokens = {small, long}
    Parts <- PartsOf
    MaxChunks = 5
    MaxWrites = 1
    Upgrades = {"azapp1", "legacy"}
    OldTokens = {small}
    Free = Free
    NoTok = NoTok
SPECIFICATION Spec
INVARIANT DeleteLeavesNothing
