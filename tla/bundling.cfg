SPECIFICATION Spec

CONSTANTS
    None = None
    s1 = s1
    s2 = s2
    s3 = s3
    n1 = n1
    n2 = n2
    pm = pm
    fac = fac
    MaxPerSender = 2
    MaxCopies = 2
    Senders = {s1, s2, s3}
    Nonces = {n1, n2}
    UserOps <- FourOps
    Staked = {}
    Proc = {p1, b1}
    Faults = {}
    Callers = {b1}
    Cron = cron
    Entities = {pm, fac}
    Paymaster <- PaymasterOf
    Factory <- FactoryOf
    Prefund <- PrefundOf
    Statuses = {"OK", "THROTTLED", "BANNED"}
    Deposits = {2, 4}
    Events = {"call", "mode", "interval", "tick"}

INVARIANTS
    TypeOK
    OnePerSender
    TwoPerEntity
    DepositCovers
    DearestFirst
    TimerMatchesMode
