\* Two instances, one of them with two threads; crashes and failing calls.
CONSTANTS
    p1 = p1  p2 = p2  t1 = t1  t2 = t2  t3 = t3
    small = small  long = long
    Procs = {p1, p2}
    Threads = {t1, t2, t3}
    Home <- TwoProcesses
    Calls <- TwoProcessCalls
    Tokens = {small, long}
    Parts <- PartsOf
    MaxChunks = 5
    MaxWrites = 2
    Upgrades = {"azapp1", "legacy"}
    OldTokens = {small}
    Free = Free
    NoTok = NoTok
SYMMETRY ThreadSymmetry
SPECIFICATION Spec
INVARIANTS LoadIsExact NoSplice SaveReportIsTrue DeletedIsGone CrashIsClean
