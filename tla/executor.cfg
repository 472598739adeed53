SPECIFICATION ExecutorSpec

CONSTANTS
    None = None
    s1 = s1
    pm = pm
    Senders = {s1}
    Nonces = {1, 2}
    UserOps <- SomeUserOps
    Staked = {}
    Proc = {p1}
    Calls = {"add", "remove", "clear", "dump", "check"}
    Faults = {"crash", "write"}
    MaxPerSender = 1
    MaxCopies = 2
    Addresses = {s1, pm}
    PaymasterOf <- SomePaymasters
    EntitiesOf <- SomeEntities
    Methods = {"send", "validate", "estimate", "clear", "set", "dumpMempool", "dumpReputation", "bundle"}
    Batches <- SomeBatches
    MaxCount = 2
    MaxListed = 2
    Denominator = 1
    ThrottlingSlack = 0
    BanSlack = 0
    DecayHours = 1
    TicksPerHour = 1
    Hashes <- SomeHashes
    Other = Other
    HashKey <- SomeHashKeys
    EntryPoints <- SomeEntryPoints

INVARIANTS
    ClearInOrder
    PooledAreFound

PROPERTIES
    AnswersHold
    BannedSenderLimited
    RefusedOnlyLists
