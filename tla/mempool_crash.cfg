SPECIFICATION Spec

CONSTANTS
    None = None
    MaxPerSender = 2
    MaxCopies = 2
    Senders = {s1, s2}
    Nonces = {n1, n2}
    UserOps <- SomeFees
    Staked = {}
    Proc = {p1}
    Calls = {"add", "remove", "clear", "dump", "check"}
    Faults = {"crash", "write"}

INVARIANTS
    NoOrphan
