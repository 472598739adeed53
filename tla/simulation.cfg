SPECIFICATION Spec

CONSTANTS
    EntryPoint = EntryPoint
    Account = Account
    Factory = Factory
    Paymaster = Paymaster
    Others = {Token}
    None = None
    UserOps <- SomeOps
    Plain = Plain
    Inputs <- SomeInputs
    Opcodes = {"SLOAD", "KECCAK256", "GAS", "NUMBER"}
    Exhausting = {"KECCAK256", "GAS"}
    Callees <- SomeCallees
    Kinds = {"CALL", "DELEGATECALL", "CREATE2"}
    MaxOps <- SomeBounds
    MaxDepth = 4
    Words = {0, 1, 2}
    AddrOrder <- SortedAddrs
    Versions = {1, 2}
    MaxRounds = 1
    AgainOps = 1

INVARIANTS
    TypeOK
    TraceTells
    HashesOwn
    CallsPaired
    AcceptedIsClean
    AcceptedIsStaked
    AcceptedCanBeSent
    RanPinnedCode

CHECK_DEADLOCK FALSE
