SPECIFICATION FairSpec

CONSTANTS
    None = None
    MaxPerSender = 2
    MaxCopies = 2
    Senders = {s1, s2}
    Nonces = {n1, n2, n3}
    UserOps <- SomeFees
    Staked = {s2}
    Proc = {p1}
    Calls = {"add", "remove", "clear", "dump", "check"}
    Faults = {}

INVARIANTS
    TypeOK
    DumpAtRest
    SenderLimit

PROPERTIES
    FeesNeverFall
    ImplementsPool
    CallsReturn
