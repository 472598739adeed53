SPECIFICATION FairSpec

CONSTANTS
    None = None
    s1 = s1
    s2 = s2
    s3 = s3
    n1 = n1
    n2 = n2
    pm = pm
    fac = fac
    MaxPerSender = 2
    MaxCopies = 2
    Senders = {s1, s2, s3}
    Nonces = {n1, n2}
    UserOps <- TwoOps
    Staked = {}
    Proc = {p1, b1, b2}
    Faults = {"write"}
    Callers = {b1, b2}
    Cron = cron
    Entities = {pm, fac}
    Paymaster <- PaymasterOf
    Factory <- FactoryOf
    Prefund <- PrefundOf
    Statuses = {"OK", "THROTTLED", "BANNED"}
    Deposits = {4}
    Events = {"call"}

INVARIANTS
    OnlyHolderWorks
    SentLeavesPool

PROPERTIES
    NeverSentTwice
    CallsEnd
    ImplementsBundler
