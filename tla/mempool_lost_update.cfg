SPECIFICATION Spec

CONSTANTS
    None = None
    MaxPerSender = 2
    MaxCopies = 2
    Senders = {s1}
    Nonces = {n1, n2}
    UserOps <- SomeFees
    Staked = {}
    Proc = {p1, p2}
    Calls = {"add", "dump"}
    Faults = {}

INVARIANTS
    DumpAtRest
