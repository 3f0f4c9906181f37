\* Two sign-ins, a sign-out and a client that spans them.
CONSTANTS
    read = read  write = write
    si1 = si1  si2 = si2  so1 = so1  re1 = re1  ra1 = ra1
    ia1 = ia1  b1 = b1  b2 = b2  rf1 = rf1  fg1 = fg1
    anna = anna  ben = ben
    Accounts = {anna, ben}
    Slots = {read, write}
    ReadSlot = read
    Ops = {si1, si2, so1, b2, fg1}
    Kind <- MCKind
    SlotOf <- MCSlotOf
    Boot = Boot
    NoToken = NoToken
    Nobody = Nobody
SPECIFICATION Spec
CHECK_DEADLOCK FALSE
INVARIANTS NoLateSave SlotsAreCurrent NoNewerSessionServed
PROPERTIES SweepSparesNewer
