\* A sign-out that read the registry before a sign-in registered.
CONSTANTS
    read = read  write = write
    si1 = si1  si2 = si2  so1 = so1  re1 = re1  ra1 = ra1
    ia1 = ia1  b1 = b1  b2 = b2  rf1 = rf1  fg1 = fg1
    anna = anna  ben = ben
    Accounts = {anna, ben}
    Slots = {read, write}
    ReadSlot = read
    Ops = {si1, si2, so1}
    Kind <- MCKind
    SlotOf <- MCSlotOf
    Boot = Boot
    NoToken = NoToken
    Nobody = Nobody
SPECIFICATION Spec
CHECK_DEADLOCK FALSE
PROPERTIES SignOutTakesTheToken
