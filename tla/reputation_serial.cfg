SPECIFICATION Spec

CONSTANTS
    None = None
    Addresses = {a1, a2}
    Jobs <- AllJobs
    LowDelay = {a2}
    Proc = {p1}
    Faults = {"crash", "write"}
    Denominator = 2
    ThrottlingSlack = 0
    BanSlack = 1
    DecayHours = 2
    TicksPerHour = 1
    MaxCount = 4
    MaxCopies = 1

INVARIANTS
    TypeOK
    EntriesListed

PROPERTIES
    ClearLeavesNothing
    ImplementsLedger
    RefusedIsBanned
    BanSticks
    TimeNeverBans
