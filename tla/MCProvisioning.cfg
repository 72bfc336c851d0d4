CONSTANTS
    ana = ana
    ANA = ANA
    bob = bob
    Address = {ana, ANA, bob}
    Low <- MCLow
    NoAddress = NoAddress
    Sent = {bob}
    Signing = {ana}
    Written = {ANA}
    Files <- MCFiles
    Disabled = {bob}
    Request = {r1, r2}
    MaxCards = 2
SPECIFICATION Spec
INVARIANTS TypeOK NoOldOwner RefusalIsRace InStep FinishedImportIsComplete
SYMMETRY MCSymmetry
CHECK_DEADLOCK FALSE
