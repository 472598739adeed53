SPECIFICATION Spec

CONSTANTS
    None = None
    Addresses = {a1, a2}
    Jobs <- OwnJobs
    LowDelay = {}
    Proc = {p1}
    Faults = {}
    Denominator = 10
    ThrottlingSlack = 10
    BanSlack = 10
    DecayHours = 24
    TicksPerHour = 1
    MaxCount = 3
    MaxCopies = 1

INVARIANTS
    DumpAnswers
