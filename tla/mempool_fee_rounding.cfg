SPECIFICATION Spec

CONSTANTS
    None = None
    MaxPerSender = 2
    MaxCopies = 2
    Senders = {s1}
    Nonces = {n1}
    UserOps <- OddFees
    Staked = {}
    Proc = {p1}
    Calls = {"add"}
    Faults = {}

PROPERTIES
    TenPercentHigher
