--------------------------- MODULE Executor_proofs ---------------------------
(***************************************************************************)
(* Theorems about the executor, for any senders, operations, batches of    *)
(* reputations, parameters and bounds, with one call in flight at a time   *)
(* that any write and the process may break off; and about the lookups by  *)
(* hash, for any chain.  What is proved of the mempool and the reputation  *)
(* service is used of this composition of them.                            *)
(***************************************************************************)
EXTENDS MCExecutor, MempoolService_proofs, WellFoundedInduction

R == INSTANCE ReputationService_proofs
       WITH pc <- rpc, out <- rout, MaxCopies <- MaxListed, LowDelay <- {}

OneCall == \A p, q \in Proc : p = q

LEMMA PoolAtATime == ASSUME OneCall PROVE OneAtATime
BY PoolAssumption DEF OneCall, OneAtATime

LEMMA ReputationAtATime == ASSUME OneCall PROVE R!OneAtATime
BY PoolAssumption DEF OneCall, R!OneAtATime

-----------------------------------------------------------------------------
(***************************************************************************)
(* The reputation service's theorems hold of the executor's: its constants *)
(* are what that module assumes, and its steps are the same.               *)
(***************************************************************************)
SetJobs == UNION {{b[i] : i \in DOMAIN b} : b \in Batches}

LEMMA SeenJobIs ==
    ASSUME NEW a \in Addresses
    PROVE  /\ SeenJob(a) \in Jobs
           /\ SeenJob(a).call = "seen" /\ SeenJob(a).addr = a
           /\ SeenJob(a).seen = 1 /\ SeenJob(a).included = 0
BY DEF SeenJob, Jobs

LEMMA StakeJobIs ==
    ASSUME NEW a \in Addresses
    PROVE  /\ StakeJob(a) \in Jobs
           /\ StakeJob(a).call = "stake" /\ StakeJob(a).addr = a
BY DEF StakeJob, SeenJob, Jobs

LEMMA GlobalJobIs ==
    ASSUME NEW c \in {"clear", "dump"}
    PROVE  /\ GlobalJob(c) \in Jobs
           /\ GlobalJob(c).call = c
<1>1. GlobalJob(c) \in Jobs
  BY DEF Jobs
<1>2. GlobalJob(c).call = c
  BY DEF GlobalJob, SeenJob
<1> QED
  BY <1>1, <1>2

SettingJobs == [call : {"set"}, addr : Addresses, seen : Nat, included : Nat,
            list : {"WL"}]

LEMMA BatchesOf ==
    ASSUME NEW b \in Batches, NEW i \in DOMAIN b PROVE b[i] \in SettingJobs
<1>1. b \in Seq(SettingJobs)
  BY ExecutorAssumption DEF SettingJobs
<1> QED
  BY <1>1

LEMMA SetJobIs ==
    ASSUME NEW j \in SetJobs
    PROVE  /\ j \in Jobs
           /\ j.call = "set" /\ j.addr \in Addresses
<1>1. PICK b \in Batches : \E i \in DOMAIN b : j = b[i]
  BY DEF SetJobs
<1>2. j \in SettingJobs
  BY <1>1, BatchesOf
<1>3. j \in Jobs
  BY DEF SetJobs, Jobs
<1> QED
  BY <1>2, <1>3 DEF SettingJobs

LEMMA SameEntries == R!Entry = Rep!Entry
BY DEF R!Entry, Rep!Entry, R!MaxAge, Rep!MaxAge

LEMMA AssumedOfService == R!ServiceAssumption
BY ExecutorAssumption, PoolAssumption, LimitsAssumption

LEMMA AssumedOfJobs == R!JobsAssumption
<1> DEFINE J == [call : R!CallNames, addr : Addresses,
                 seen : Nat, included : Nat, list : R!Lists]
<1>1. ASSUME NEW a \in Addresses PROVE SeenJob(a) \in J
  BY DEF SeenJob, R!CallNames, R!Lists
<1>2. ASSUME NEW a \in Addresses PROVE StakeJob(a) \in J
  BY DEF SeenJob, StakeJob, R!CallNames, R!Lists
<1>3. ASSUME NEW c \in {"clear", "dump"} PROVE GlobalJob(c) \in J
  BY ExecutorAssumption DEF SeenJob, GlobalJob, R!CallNames, R!Lists
<1>4. ASSUME NEW b \in Batches, NEW i \in DOMAIN b PROVE b[i] \in J
  <2>1. b[i] \in SettingJobs
    BY BatchesOf
  <2> QED
    BY <2>1 DEF SettingJobs, R!CallNames, R!Lists
<1>5. Jobs \subseteq J
  <2> HIDE DEF J
  <2> SUFFICES ASSUME NEW j \in Jobs PROVE j \in J
    OBVIOUS
  <2>1. \/ \E a \in Addresses : j = SeenJob(a)
        \/ \E a \in Addresses : j = StakeJob(a)
        \/ \E c \in {"clear", "dump"} : j = GlobalJob(c)
        \/ j \in SetJobs
    BY DEF Jobs, SetJobs
  <2>2. j \in SetJobs => j \in J
    BY <1>4 DEF SetJobs
  <2> QED
    BY <1>1, <1>2, <1>3, <2>1, <2>2
<1>6. None \notin R!Entry
  BY ExecutorAssumption, SameEntries
<1> QED
  BY <1>5, <1>6

LEMMA SameInvariants ==
    /\ R!TypeOK <=> Rep!TypeOK
    /\ R!SerialInv <=> Rep!SerialInv
    /\ R!vars = reputationVars /\ Rep!vars = reputationVars
<1>1. R!TypeOK <=> Rep!TypeOK
  BY SameEntries
     DEF R!TypeOK, Rep!TypeOK, R!Lists, Rep!Lists, R!PCs, Rep!PCs,
         R!Answers, Rep!Answers
<1>2. R!SerialInv <=> Rep!SerialInv
  BY DEF R!SerialInv, Rep!SerialInv, R!EntriesListed, Rep!EntriesListed,
         R!Saved, Rep!Saved
<1> QED
  BY <1>1, <1>2 DEF R!vars, Rep!vars, reputationVars

LEMMA SameRequest ==
    ASSUME NEW p, NEW j, Rep!Request(p, j) PROVE R!Request(p, j)
BY DEF R!Request, Rep!Request, R!WithinBounds, Rep!WithinBounds, R!Start,
       Rep!Start, R!Database, Rep!Database, R!ReadFails, Rep!ReadFails

LEMMA SameFaults ==
    /\ \A p : Rep!WriteFails(p) => R!WriteFails(p)
    /\ Rep!Crash => R!Crash
BY DEF R!WriteFails, Rep!WriteFails, R!Crash, Rep!Crash, R!Return, Rep!Return,
       R!Database, Rep!Database, R!NoAddresses, Rep!NoAddresses

LEMMA SameStep == ASSUME NEW p, Rep!Step(p) PROVE R!Step(p)
<1> USE DEF R!Goto, Rep!Goto, R!Return, Rep!Return, R!Database, Rep!Database,
            R!NoAddresses, Rep!NoAddresses, R!Loaded, Rep!Loaded,
            R!Updated, Rep!Updated, R!SetReputation, Rep!SetReputation,
            R!AddToReputation, Rep!AddToReputation, R!Status, Rep!Status,
            R!StakeAnswer, Rep!StakeAnswer, R!IsBanned, Rep!IsBanned,
            R!IsThrottled, Rep!IsThrottled, R!MinExpectedIncluded,
            Rep!MinExpectedIncluded, R!OpsIncluded, Rep!OpsIncluded,
            R!OpsSeen, Rep!OpsSeen, R!Decayed, Rep!Decayed,
            R!EnlapsedHours, Rep!EnlapsedHours, R!Fresh, Rep!Fresh,
            R!Read, Rep!Read, R!ReadFails, Rep!ReadFails
<1>1. Rep!EntryStep(p) => R!EntryStep(p)
  BY DEF R!EntryStep, Rep!EntryStep, R!FetchFound, Rep!FetchFound,
         R!FetchMissing, Rep!FetchMissing, R!CollGet, Rep!CollGet,
         R!CollPut, Rep!CollPut, R!Save, Rep!Save
<1>2. Rep!CollectionStep(p) => R!CollectionStep(p)
  <2>1. Rep!DumpKeys(p) => R!DumpKeys(p)
    BY DEF R!DumpKeys, Rep!DumpKeys
  <2>2. Rep!DumpMany(p) => R!DumpMany(p)
    BY Zenon DEF R!DumpMany, Rep!DumpMany, R!DumpThrows, Rep!DumpThrows, R!Saved, Rep!Saved
  <2>3. Rep!ClearKeys(p) => R!ClearKeys(p)
    BY DEF R!ClearKeys, Rep!ClearKeys
  <2>4. \A a : Rep!ClearDel(p, a) => R!ClearDel(p, a)
    BY DEF R!ClearDel, Rep!ClearDel
  <2>5. Rep!ClearDrop(p) => R!ClearDrop(p)
    BY DEF R!ClearDrop, Rep!ClearDrop
  <2> QED
    BY <2>1, <2>2, <2>3, <2>4, <2>5 DEF R!CollectionStep, Rep!CollectionStep
<1>3. Rep!ListStep(p) => R!ListStep(p)
  BY DEF R!ListStep, Rep!ListStep, R!ListGet, Rep!ListGet,
         R!ListAnswer, Rep!ListAnswer, R!ListPut, Rep!ListPut
<1>4. Rep!StakeWhitelisted(p) => R!StakeWhitelisted(p)
  BY DEF R!StakeWhitelisted, Rep!StakeWhitelisted
<1>5. Rep!StakeFetch(p) => R!StakeFetch(p)
  BY DEF R!StakeFetch, Rep!StakeFetch
<1> QED
  BY <1>1, <1>2, <1>3, <1>4, <1>5 DEF R!Step, Rep!Step

\* What the reputation service keeps, it keeps when the executor asks it.
LEMMA ReputationKeeps ==
    ASSUME OneCall, Rep!TypeOK, Rep!SerialInv,
           \/ \E p \in Proc, j \in Jobs : Rep!Request(p, j)
           \/ \E p \in Proc : Rep!Step(p) \/ Rep!WriteFails(p)
           \/ Rep!Crash
           \/ UNCHANGED reputationVars
    PROVE  Rep!TypeOK' /\ Rep!SerialInv'
<1>1. [R!Next]_(R!vars)
  <2>1. ASSUME NEW p \in Proc, NEW j \in Jobs, Rep!Request(p, j) PROVE R!Next
    BY <2>1, SameRequest DEF R!Next
  <2>2. ASSUME NEW p \in Proc, Rep!Step(p) \/ Rep!WriteFails(p) PROVE R!Next
    BY <2>2, SameStep, SameFaults DEF R!Next
  <2>3. Rep!Crash => R!Next
    BY SameFaults DEF R!Next
  <2>4. CASE UNCHANGED reputationVars
    BY <2>4 DEF reputationVars, R!vars
  <2> QED
    BY <2>1, <2>2, <2>3, <2>4
<1>2. R!TypeOK /\ R!SerialInv
  BY SameInvariants
<1>3. R!TypeOK' /\ R!SerialInv'
  BY <1>1, <1>2, ReputationAtATime, R!TypeStep, R!SerialStep,
     AssumedOfService, AssumedOfJobs
<1>4. (R!TypeOK <=> Rep!TypeOK)' /\ (R!SerialInv <=> Rep!SerialInv)'
  <2>1. R!TypeOK' <=> Rep!TypeOK'
    BY SameEntries
       DEF R!TypeOK, Rep!TypeOK, R!Lists, Rep!Lists, R!PCs, Rep!PCs,
           R!Answers, Rep!Answers
  <2>2. R!SerialInv' <=> Rep!SerialInv'
    BY DEF R!SerialInv, Rep!SerialInv, R!EntriesListed, Rep!EntriesListed,
           R!Saved, Rep!Saved
  <2> QED
    BY <2>1, <2>2
<1> QED
  BY <1>3, <1>4

-----------------------------------------------------------------------------
(***************************************************************************)
(* The invariant.  First: where the services are while a call waits for    *)
(* them, and what it has asked them for.                                   *)
(***************************************************************************)
\* The calls that are about one operation.
AboutOne == {"validate", "judge", "add", "stake", "countPaymaster", "countSender",
             "hash", "fees", "validateOnly", "judgeOnly", "simulate", "estimateGas",
             "clean"}

\* Those that wait for checkStake.
Staking == {"stake", "judge", "judgeOnly"}

Kept == [index : [Keys -> Nat], store : [Keys -> UserOps \cup {None}],
         coll : [Addresses -> Nat], entry : [Addresses -> Rep!Entry \cup {None}]]

Flows == AboutOne \cup {"idle", "set", "setting", "clearPool", "clearReputation",
                       "dumpPool", "dumpRep"}

Replies == {"none", "invalid", "hash", "error", "valid", "feeTooLow",
            "senderFull", "estimated", "reverted", "cleared", "ok", "dumped",
            "threw", "removed"}

CallTypes ==
    /\ flow \in [Proc -> Flows] /\ reply \in [Proc -> Replies]
    /\ about \in [Proc -> UserOps \cup Seq(SetJobs) \cup {None}]
    /\ before \in [Proc -> Kept \cup {None}]

AboutAt(p) ==
    /\ flow[p] \in AboutOne => about[p] \in UserOps
    /\ flow[p] \in {"set", "setting"} => about[p] \in Seq(SetJobs)
    /\ flow[p] = "countPaymaster" => PaymasterOf[about[p]] # None

PoolAt(p) ==
    /\ pc[p] # "idle" =>
          flow[p] \in {"add", "stake", "countPaymaster", "countSender", "fees",
                       "clearPool", "dumpPool", "clean"}
    /\ pc[p] \in AboutOp => arg[p] = about[p]
    /\ flow[p] = "add" =>
          pc[p] \in {"idle", "find", "replace", "countKeys", "countMany",
                     "fetchKeys", "putIndex", "putEntry", "seen"}
    /\ flow[p] = "stake" => pc[p] = "countMany"
    /\ flow[p] \in {"countPaymaster", "countSender"} => pc[p] = "seen"
    /\ flow[p] = "fees" => pc[p] \in {"idle", "ckFind"}
    /\ flow[p] = "clearPool" => pc[p] \in {"idle", "clKeys", "clDel"}
    /\ flow[p] = "dumpPool" => pc[p] \in {"idle", "dpKeys", "dpMany"}
    /\ flow[p] = "clean" => pc[p] \in {"idle", "rmKeys", "rmDel", "rmPut"}

RepAt(p) ==
    rpc[p] # "idle" =>
        \/ /\ flow[p] = "stake" /\ job[p] = StakeJob(about[p].sender)
           /\ rpc[p] \in {"whitelist", "fetch", "collGet", "collPut"}
        \/ /\ flow[p] \in {"judge", "judgeOnly"}
           /\ \E a \in EntitiesOf[about[p]] : job[p] = StakeJob(a)
           /\ rpc[p] \in {"whitelist", "fetch", "collGet", "collPut"}
        \/ /\ flow[p] = "countPaymaster"
           /\ job[p] = SeenJob(PaymasterOf[about[p]])
           /\ rpc[p] \in {"fetch", "collGet", "collPut", "save"}
        \/ /\ flow[p] = "countSender" /\ job[p] = SeenJob(about[p].sender)
           /\ rpc[p] \in {"fetch", "collGet", "collPut", "save"}
        \/ /\ flow[p] = "setting" /\ job[p] \in SetJobs
           /\ rpc[p] \in {"fetch", "collGet", "collPut", "save"}
        \/ /\ flow[p] = "clearReputation" /\ job[p] = GlobalJob("clear")
           /\ rpc[p] \in {"clKeys", "clDel"}
        \/ /\ flow[p] = "dumpRep" /\ job[p] = GlobalJob("dump")
           /\ rpc[p] \in {"dpKeys", "dpMany"}

(***************************************************************************)
(* Then: what a call that waits knows of the records.                      *)
(***************************************************************************)
IsCounted(a) == entry[a] # None /\ entry[a].seen > 0

BannedNow(a) == entry[a] # None /\ Rep!IsBanned(entry[a])

\* The mempool, once it is cleared, stays so until the reputation is, and the
\* reputation is cleared when its service says so.
ClearAt(p) ==
    /\ flow[p] = "clearReputation" => Stored = {}
    /\ flow[p] = "clearPool" /\ pc[p] = "idle" /\ out[p] = "cleared"
          => Stored = {}
    /\ flow[p] = "clearReputation" /\ rpc[p] = "idle" /\ rout[p] = "cleared"
          => Rep!Saved = {}

\* An operation whose paymaster and sender are being counted is in the pool,
\* and what was counted first stays so.
CountAt(p) ==
    LET op == about[p] IN
    /\ pc[p] = "seen" => store[KeyOf(op)] = op
    /\ rpc[p] = "save" /\ job[p].call = "seen" => held[p].seen > 0
    /\ flow[p] = "countPaymaster" /\ rpc[p] = "idle" /\ rout[p] = "done"
          => IsCounted(PaymasterOf[op])
    /\ flow[p] \in {"countSender", "hash"} /\ PaymasterOf[op] # None
          => IsCounted(PaymasterOf[op])
    /\ flow[p] = "countSender" /\ rpc[p] = "idle" /\ rout[p] = "done"
          => IsCounted(op.sender)
    /\ flow[p] = "hash" => IsCounted(op.sender) /\ store[KeyOf(op)] = op

\* The collection would name every saved entry once if the key k, which it
\* names once, had one.
SoundBut(k) ==
    \A j \in Keys : index[j] = IF j = k \/ store[j] # None THEN 1 ELSE 0

\* A sender who is banned was admitted because there was room, as long as its
\* operations were counted rightly.
HasRoom(s) == Cardinality(PooledOf(s)) < MaxPerSender

AdmitAt(p) ==
    LET s == about[p].sender
        k == KeyOf(about[p])
    IN  /\ lists["WL"] = {}
        /\ rpc[p] \in {"collGet", "collPut"} => entry[job[p].addr] = None
        /\ rpc[p] = "collPut" => copy[p] = [coll EXCEPT ![job[p].addr] = @ + 1]
        /\ flow[p] = "stake" /\ rpc[p] = "idle" /\ rout[p] = "noError"
              => ~BannedNow(s)
        /\ pc[p] = "countMany" => keys[p] = index
        /\ pc[p] = "putIndex" => keys[p] = [index EXCEPT ![k] = @ + 1]
        /\ pc[p] \in {"fetchKeys", "putIndex"} /\ BannedNow(s) /\ PoolSound
              => HasRoom(s)
        /\ pc[p] = "putEntry" /\ BannedNow(s) /\ SoundBut(k) => HasRoom(s)

\* A call that may still be refused has listed addresses at most, and one that
\* has not been validated has changed nothing.
Noted(was, now, op) == was \in Kept /\ OnlyLists(was, now, op)

TraceAt(p) ==
    /\ flow[p] \in {"fees", "simulate", "estimateGas"} => Records = before[p]
    /\ \/ flow[p] \in {"validate", "validateOnly", "stake", "judge", "judgeOnly"}
       \/ /\ flow[p] = "add"
          /\ \/ pc[p] \in {"find", "replace", "countKeys", "countMany",
                           "fetchKeys", "putIndex"}
             \/ pc[p] = "idle" /\ out[p] \in {"feeTooLow", "senderFull"}
       => Noted(before[p], Records, about[p])

CallAt(p) ==
    /\ AboutAt(p) /\ PoolAt(p) /\ RepAt(p)
    /\ ClearAt(p) /\ CountAt(p) /\ AdmitAt(p) /\ TraceAt(p)

ExecutorInv ==
    /\ TypeOK /\ SerialInv /\ Rep!TypeOK /\ Rep!SerialInv /\ CallTypes
    /\ \A p \in Proc : CallAt(p)

-----------------------------------------------------------------------------
\* What an operation is, field by field.
LEMMA OpIs ==
    ASSUME NEW op \in UserOps
    PROVE  /\ op # None /\ op.sender \in Senders /\ op.sender \in Addresses
           /\ KeyOf(op) \in Keys
           /\ KeyOf(op)[1] = op.sender
           /\ PaymasterOf[op] \in Addresses \cup {None}
BY ExecutorAssumption, UserOpsAssumption, KeyOfType DEF KeyOf

\* What depends on the records alone stays when they do.
LEMMA SameStore ==
    ASSUME UNCHANGED store
    PROVE  /\ Stored' = Stored
           /\ \A s : PooledOf(s)' = PooledOf(s) /\ (HasRoom(s)' <=> HasRoom(s))
BY DEF Stored, PooledOf, HasRoom

LEMMA SameEntry ==
    ASSUME UNCHANGED entry
    PROVE  /\ Rep!Saved' = Rep!Saved
           /\ \A a : /\ IsCounted(a)' <=> IsCounted(a)
                     /\ BannedNow(a)' <=> BannedNow(a)
BY DEF Rep!Saved, IsCounted, BannedNow

\* What a call finds, it has changed nothing of; one more address that is
\* listed without entry does not count as a change.
LEMMA FindsRecords ==
    ASSUME TypeOK, Rep!TypeOK, NEW op
    PROVE  Records \in Kept /\ Noted(Records, Records, op)
<1>1. Records \in Kept
  BY DEF TypeOK, Rep!TypeOK, Records, Kept
<1>2. OnlyLists(Records, Records, op)
  BY DEF OnlyLists
<1> QED
  BY <1>1, <1>2 DEF Noted

LEMMA ListsOneMore ==
    ASSUME Rep!TypeOK, NEW was, NEW op, Noted(was, Records, op),
           NEW a \in Addresses, a \in EntitiesOf[op] \cup {op.sender},
           entry[a] = None, coll' = [coll EXCEPT ![a] = @ + 1],
           UNCHANGED <<index, store, entry>>
    PROVE  Noted(was, Records', op)
<1>1. coll \in [Addresses -> Nat] /\ was.coll \in [Addresses -> Nat] /\ was \in Kept
  BY DEF Rep!TypeOK, Noted, Kept
<1>2. /\ Records'.index = Records.index /\ Records'.store = Records.store
      /\ Records'.entry = Records.entry /\ Records'.coll = coll'
      /\ Records.coll = coll /\ Records.entry = entry
  BY DEF Records
<1>3. /\ was.index = Records.index /\ was.store = Records.store
      /\ was.entry = Records.entry
      /\ \A b \in Addresses :
            \/ coll[b] = was.coll[b]
            \/ /\ coll[b] > was.coll[b] /\ entry[b] = None
               /\ b \in EntitiesOf[op] \cup {op.sender}
  BY <1>2 DEF Noted, OnlyLists
<1>4. \A b \in Addresses :
            \/ coll'[b] = was.coll[b]
            \/ /\ coll'[b] > was.coll[b] /\ entry[b] = None
               /\ b \in EntitiesOf[op] \cup {op.sender}
  BY <1>1, <1>3
<1>5. OnlyLists(was, Records', op)
  BY <1>2, <1>3, <1>4 DEF OnlyLists
<1> QED
  BY <1>1, <1>5 DEF Noted

\* A call arrives, goes on, and ends.
LEMMA Arrives ==
    ASSUME CallTypes, TypeOK, Rep!TypeOK, NEW p \in Proc, NEW m, NEW at \in Flows,
           NEW what \in UserOps \cup Seq(SetJobs) \cup {None},
           Arrive(p, m, at, what)
    PROVE  /\ CallTypes'
           /\ flow[p] = "idle" /\ flow'[p] = at /\ about'[p] = what
           /\ before'[p] = Records
<1>1. Records \in Kept
  BY FindsRecords
<1>2. flow' \in [Proc -> Flows] /\ reply' \in [Proc -> Replies]
  BY DEF Arrive, CallTypes, Replies
<1>3. about' \in [Proc -> UserOps \cup Seq(SetJobs) \cup {None}]
  BY DEF Arrive, CallTypes
<1>4. before' \in [Proc -> Kept \cup {None}]
  BY <1>1 DEF Arrive, CallTypes
<1>5. /\ flow[p] = "idle" /\ flow'[p] = at /\ about'[p] = what
      /\ before'[p] = Records
  BY DEF Arrive, CallTypes
<1> QED
  BY <1>2, <1>3, <1>4, <1>5 DEF CallTypes

LEMMA Resumes ==
    ASSUME CallTypes, NEW p \in Proc, NEW from, NEW to \in Flows,
           Resume(p, from, to)
    PROVE  /\ CallTypes'
           /\ flow[p] = from /\ flow'[p] = to /\ about' = about
           /\ before' = before
BY DEF Resume, CallTypes

LEMMA AnswersCall ==
    ASSUME CallTypes, NEW p \in Proc, NEW from, NEW answer \in Replies,
           Answer(p, from, answer)
    PROVE  CallTypes' /\ flow[p] = from /\ flow'[p] = "idle" /\ reply'[p] = answer
<1>1. flow' \in [Proc -> Flows] /\ reply' \in [Proc -> Replies]
  BY DEF Answer, CallTypes, Flows
<1>2. about' \in [Proc -> UserOps \cup Seq(SetJobs) \cup {None}]
  BY DEF Answer, CallTypes
<1>3. before' \in [Proc -> Kept \cup {None}]
  BY DEF Answer, CallTypes
<1>4. flow[p] = from /\ flow'[p] = "idle" /\ reply'[p] = answer
  BY DEF Answer, CallTypes
<1> QED
  BY <1>1, <1>2, <1>3, <1>4 DEF CallTypes

\* A request enters a service, goes on in it, and leaves it.
LEMMA Begins ==
    ASSUME TypeOK, NEW p \in Proc, NEW at, NEW op, Begin(p, at, op)
    PROVE  /\ pc[p] = "idle" /\ pc'[p] = at /\ arg'[p] = op /\ out'[p] = "none"
           /\ keys' = keys /\ index' = index /\ store' = store
BY DEF Begin, TypeOK, Database

LEMMA Goes ==
    ASSUME TypeOK, NEW p \in Proc, NEW from, NEW to, NEW ks, Goto(p, from, to, ks)
    PROVE  /\ pc[p] = from /\ pc'[p] = to /\ keys'[p] = ks
           /\ arg' = arg /\ out' = out
BY DEF Goto, TypeOK

LEMMA Returns ==
    ASSUME TypeOK, NEW p \in Proc, NEW from, NEW answer, Return(p, from, answer)
    PROVE  pc[p] = from /\ pc'[p] = "idle" /\ out'[p] = answer
BY DEF Return, TypeOK

LEMMA Requests ==
    ASSUME Rep!TypeOK, NEW p \in Proc, NEW j, Rep!Request(p, j)
    PROVE  /\ rpc[p] = "idle" /\ rpc'[p] = Rep!Start(j.call) /\ job'[p] = j
           /\ rout'[p] = "none"
           /\ UNCHANGED <<held, copy, coll, entry, lists>>
BY DEF Rep!Request, Rep!TypeOK, Rep!Database

LEMMA RepGoes ==
    ASSUME Rep!TypeOK, NEW p \in Proc, NEW from, NEW to, Rep!Goto(p, from, to)
    PROVE  rpc[p] = from /\ rpc'[p] = to /\ job' = job /\ rout' = rout
BY DEF Rep!Goto, Rep!TypeOK

LEMMA RepReturns ==
    ASSUME Rep!TypeOK, NEW p \in Proc, NEW from, NEW answer,
           Rep!Return(p, from, answer)
    PROVE  rpc[p] = from /\ rpc'[p] = "idle" /\ rout'[p] = answer
BY DEF Rep!Return, Rep!TypeOK

\* A call that is over is owed nothing.
LEMMA OverHolds ==
    ASSUME NEW p, flow'[p] = "idle", pc'[p] = "idle", rpc'[p] = "idle",
           lists'["WL"] = {}
    PROVE  CallAt(p)'
BY DEF CallAt, AboutAt, PoolAt, RepAt, ClearAt, CountAt, AdmitAt, TraceAt,
       AboutOne, AboutOp

\* Nor is one that only waits for the node.
LEMMA AsksNode ==
    ASSUME NEW p, pc'[p] = "idle", rpc'[p] = "idle", lists'["WL"] = {},
           flow'[p] \in {"validate", "validateOnly", "simulate", "estimateGas"},
           about'[p] \in UserOps,
           flow'[p] \in {"simulate", "estimateGas"} => Records' = before'[p],
           Noted(before'[p], Records', about'[p])
    PROVE  CallAt(p)'
BY DEF CallAt, AboutAt, PoolAt, RepAt, ClearAt, CountAt, AdmitAt, TraceAt,
       AboutOne, AboutOp, Staking

-----------------------------------------------------------------------------
(***************************************************************************)
(* The steps of the calls keep what is known of a call.                    *)
(***************************************************************************)
\* What the invariant says of a call in short.
LEMMA CallFacts ==
    ASSUME ExecutorInv, NEW p \in Proc
    PROVE  /\ TypeOK /\ SerialInv /\ Rep!TypeOK /\ Rep!SerialInv /\ CallTypes
           /\ AboutAt(p) /\ PoolAt(p) /\ RepAt(p)
           /\ ClearAt(p) /\ CountAt(p) /\ AdmitAt(p) /\ TraceAt(p)
           /\ lists["WL"] = {}
           /\ pc[p] \in PCs /\ rpc[p] \in Rep!PCs /\ flow[p] \in Flows
BY DEF ExecutorInv, CallAt, AdmitAt, TypeOK, Rep!TypeOK, CallTypes

\* Neither service is asked anything while a call waits for the node, or has
\* not arrived.
LEMMA ServicesIdle ==
    ASSUME ExecutorInv, NEW p \in Proc,
           flow[p] \in {"idle", "validate", "hash", "validateOnly", "simulate",
                        "estimateGas", "set"}
    PROVE  pc[p] = "idle" /\ rpc[p] = "idle"
BY CallFacts DEF PoolAt, RepAt

\* Only one of the two is, while a call waits for one of them.
LEMMA RepIdle ==
    ASSUME ExecutorInv, NEW p \in Proc,
           flow[p] \in {"add", "fees", "clearPool", "dumpPool", "clean"}
    PROVE  rpc[p] = "idle"
BY CallFacts DEF RepAt

LEMMA PoolIdle ==
    ASSUME ExecutorInv, NEW p \in Proc,
           flow[p] \in {"setting", "clearReputation", "dumpRep"}
    PROVE  pc[p] = "idle"
BY CallFacts DEF PoolAt

LEMMA NothingAsked ==
    ASSUME NoService
    PROVE  /\ UNCHANGED <<index, store, pc, arg, keys, out, shown>>
           /\ UNCHANGED <<coll, entry, lists, rpc, job, held, copy, listed, rout>>
           /\ Records' = Records
BY DEF NoService, vars, reputationVars, Records

\* Every way a call arrives.
LEMMA CallArrives ==
    ASSUME ExecutorInv, NEW p \in Proc, ApiCall(p)
    PROVE  CallTypes' /\ CallAt(p)'
<1> USE CallFacts
<1>w. lists["WL"] = {}
  OBVIOUS
<1>1. ASSUME NEW op \in UserOps, Send(p, op) \/ Estimate(p, op)
      PROVE  CallTypes' /\ CallAt(p)'
  <2>1. PICK at \in {"validate", "simulate"} :
           NoService /\ \E m : Arrive(p, m, at, op)
    BY <1>1 DEF Send, Estimate
  <2>2. /\ CallTypes' /\ flow[p] = "idle" /\ flow'[p] = at /\ about'[p] = op
        /\ before'[p] = Records
    BY <2>1, Arrives DEF Flows, AboutOne
  <2>3. pc'[p] = "idle" /\ rpc'[p] = "idle" /\ lists' = lists /\ Records' = Records
    BY <2>1, <2>2, NothingAsked, ServicesIdle
  <2>4. Noted(before'[p], Records', about'[p])
    BY <2>2, <2>3, FindsRecords
  <2> QED
    BY <2>2, <2>3, <2>4, <1>w, AsksNode
<1>2. ASSUME NEW op \in UserOps, ValidateUserOp(p, op)
      PROVE  CallTypes' /\ CallAt(p)'
  <2>1. /\ CallTypes' /\ flow[p] = "idle" /\ flow'[p] = "fees" /\ about'[p] = op
        /\ before'[p] = Records
    BY <1>2, Arrives DEF ValidateUserOp, Flows, AboutOne
  <2>2. /\ pc'[p] = "ckFind" /\ arg'[p] = op /\ index' = index /\ store' = store
        /\ UNCHANGED reputationVars
    BY <1>2, Begins DEF ValidateUserOp, OnMempool, BeginCheck
  <2>3. rpc'[p] = "idle" /\ lists' = lists /\ Records' = Records
    BY <2>1, <2>2, ServicesIdle DEF reputationVars, Records
  <2> QED
    BY <2>1, <2>2, <2>3, <1>w
       DEF CallAt, AboutAt, PoolAt, RepAt, ClearAt, CountAt, AdmitAt, TraceAt,
           AboutOne
<1>3. ASSUME NEW op \in UserOps, Clean(p, op)
      PROVE  CallTypes' /\ CallAt(p)'
  <2>1. /\ CallTypes' /\ flow[p] = "idle" /\ flow'[p] = "clean" /\ about'[p] = op
    BY <1>3, Arrives DEF Clean, Flows, AboutOne
  <2>2. /\ pc'[p] = "rmKeys" /\ arg'[p] = op
        /\ UNCHANGED reputationVars
    BY <1>3, Begins DEF Clean, OnMempool, BeginRemove
  <2>3. rpc'[p] = "idle" /\ lists' = lists
    BY <2>1, <2>2, ServicesIdle DEF reputationVars
  <2> QED
    BY <2>1, <2>2, <2>3, <1>w
       DEF CallAt, AboutAt, PoolAt, RepAt, ClearAt, CountAt, AdmitAt, TraceAt,
           AboutOne
<1>4. ASSUME ClearState(p) \/ DumpMempool(p)
      PROVE  CallTypes' /\ CallAt(p)'
  <2>1. PICK c \in {<<"clearPool", "clKeys">>, <<"dumpPool", "dpKeys">>} :
           /\ \E m : Arrive(p, m, c[1], None)
           /\ Begin(p, c[2], None) /\ UNCHANGED reputationVars
    BY <1>4 DEF ClearState, DumpMempool, OnMempool, BeginClear, BeginDump
  <2>2. CallTypes' /\ flow[p] = "idle" /\ flow'[p] = c[1]
    BY <2>1, Arrives DEF Flows
  <2>3. pc'[p] = c[2] /\ out'[p] = "none"
    BY <2>1, Begins
  <2>4. rpc'[p] = "idle" /\ lists' = lists
    BY <2>1, <2>2, ServicesIdle DEF reputationVars
  <2> QED
    BY <2>1, <2>2, <2>3, <2>4, <1>w
       DEF CallAt, AboutAt, PoolAt, RepAt, ClearAt, CountAt, AdmitAt, TraceAt,
           AboutOne, AboutOp
<1>5. ASSUME NEW b \in Batches, SetReputation(p, b)
      PROVE  CallTypes' /\ CallAt(p)'
  <2>1. b \in Seq(SetJobs)
    <3>1. b \in Seq(SettingJobs)
      BY ExecutorAssumption DEF SettingJobs
    <3>2. \A i \in DOMAIN b : b[i] \in SetJobs
      BY DEF SetJobs
    <3> QED
      BY <3>1, <3>2
  <2>2. CallTypes' /\ flow[p] = "idle" /\ flow'[p] = "set" /\ about'[p] = b
    BY <1>5, <2>1, Arrives DEF SetReputation, Flows
  <2>3. pc'[p] = "idle" /\ rpc'[p] = "idle" /\ lists' = lists
    BY <1>5, <2>2, ServicesIdle, NothingAsked DEF SetReputation
  <2> QED
    BY <2>1, <2>2, <2>3, <1>w
       DEF CallAt, AboutAt, PoolAt, RepAt, ClearAt, CountAt, AdmitAt, TraceAt,
           AboutOne, AboutOp
<1>6. ASSUME DumpReputation(p)
      PROVE  CallTypes' /\ CallAt(p)'
  <2>1. CallTypes' /\ flow[p] = "idle" /\ flow'[p] = "dumpRep"
    BY <1>6, Arrives DEF DumpReputation, Flows
  <2>2. /\ rpc'[p] = "dpKeys" /\ job'[p] = GlobalJob("dump") /\ lists' = lists
        /\ UNCHANGED vars
    BY <1>6, Requests, GlobalJobIs DEF DumpReputation, OnReputation, Rep!Start
  <2>3. pc'[p] = "idle"
    BY <2>1, <2>2, ServicesIdle DEF vars
  <2> QED
    BY <2>1, <2>2, <2>3, <1>w
       DEF CallAt, AboutAt, PoolAt, RepAt, ClearAt, CountAt, AdmitAt, TraceAt,
           AboutOne, AboutOp
<1> QED
  BY <1>1, <1>2, <1>3, <1>4, <1>5, <1>6 DEF ApiCall

\* A sender's saved operations are among those the collection counts, when it
\* names every one of them.
LEMMA PooledAreCounted ==
    ASSUME TypeOK, NEW s \in Senders, PoolSound
    PROVE  /\ IsFiniteSet(PooledOf(s)) /\ Cardinality(PooledOf(s)) \in Nat
           /\ CountOf(index, s) \in Nat
           /\ Cardinality(PooledOf(s)) <= CountOf(index, s)
<1> DEFINE P == Pool!Pending(s)
           second == [k \in PooledOf(s) |-> k[2]]
<1>1. index \in [Keys -> Nat]
  BY DEF TypeOK
<1>2. \A n \in Nonces : store[<<s, n>>] # None => index[<<s, n>>] > 0
  BY DEF PoolSound, Keys
<1>3. /\ IsFiniteSet(P) /\ Cardinality(P) \in Nat /\ CountOf(index, s) \in Nat
      /\ Cardinality(P) <= CountOf(index, s)
  BY <1>1, <1>2, CountCoversPending
<1>4. second \in Injection(PooledOf(s), P)
  <2>1. ASSUME NEW k \in PooledOf(s)
        PROVE  k = <<s, k[2]>> /\ k[2] \in P
    BY DEF PooledOf, Stored, Keys, Pool!Pending
  <2>2. second \in [PooledOf(s) -> P]
    BY <2>1
  <2>3. ASSUME NEW k \in PooledOf(s), NEW j \in PooledOf(s), second[k] = second[j]
        PROVE  k = j
    BY <2>1, <2>3
  <2> HIDE DEF second, P
  <2> QED
    BY <2>2, <2>3 DEF Injection, IsInjective
<1> HIDE DEF P, second
<1>5. IsFiniteSet(PooledOf(s)) /\ Cardinality(PooledOf(s)) <= Cardinality(P)
  BY <1>3, <1>4, FS_Injection
<1>6. Cardinality(PooledOf(s)) \in Nat
  BY <1>5, FS_CardinalityType
<1> QED
  BY <1>3, <1>5, <1>6

\* Who is not over the limit has room, if the collection can be trusted.
LEMMA RoomWhenCounted ==
    ASSUME TypeOK, NEW p \in Proc, arg[p] \in UserOps, NEW found \in FetchAll(index),
           ~SenderFull(p, found), PoolSound
    PROVE  HasRoom(arg[p].sender)
<1> DEFINE s == arg[p].sender
<1>1. s \in Senders
  BY OpIs
<1>2. ~GetManyFails(index)
  BY DEF GetManyFails, PoolSound
<1>3. found = index
  BY <1>2, PoolAssumption DEF FetchAll, ReadFails
<1>4. ~(CountOf(index, s) >= MaxPerSender)
  BY <1>3, PoolAssumption DEF SenderFull
<1> QED
  BY <1>1, <1>4, PooledAreCounted, LimitsAssumption DEF HasRoom

-----------------------------------------------------------------------------
LEMMA SendGoesOn ==
    ASSUME ExecutorInv, NEW p \in Proc, SendStep(p)
    PROVE  CallTypes' /\ CallAt(p)'
<1> USE CallFacts
<1>w. lists["WL"] = {}
  OBVIOUS
<1>1. ASSUME Validated(p) PROVE CallTypes' /\ CallAt(p)'
  <2>1. /\ CallTypes' /\ flow[p] = "validate" /\ flow'[p] = "add"
        /\ about' = about /\ before' = before
    BY <1>1, Resumes DEF Validated, Flows, AboutOne
  <2>2. /\ pc'[p] = "find" /\ arg'[p] = about[p] /\ index' = index /\ store' = store
        /\ UNCHANGED reputationVars
    BY <1>1, Begins DEF Validated, OnMempool, BeginAdd
  <2>3. rpc'[p] = "idle" /\ lists' = lists /\ Records' = Records
    BY <2>1, <2>2, ServicesIdle DEF reputationVars, Records
  <2> QED
    BY <2>1, <2>2, <2>3, <1>w
       DEF CallAt, AboutAt, PoolAt, RepAt, ClearAt, CountAt, AdmitAt, TraceAt,
           AboutOne
<1>2. ASSUME Invalid(p) \/ Hash(p) \/ NotAdded(p) PROVE CallTypes' /\ CallAt(p)'
  <2>1. PICK from \in {"validate", "hash", "add"}, answer \in Replies :
           Answer(p, from, answer) /\ NoService /\ (from = "add" => pc[p] = "idle")
    BY <1>2 DEF Invalid, Hash, NotAdded, PoolSays, Replies
  <2>2. CallTypes' /\ flow[p] = from /\ flow'[p] = "idle"
    BY <2>1, AnswersCall
  <2>3. pc'[p] = "idle" /\ rpc'[p] = "idle" /\ lists' = lists
    BY <2>1, <2>2, ServicesIdle, RepIdle, NothingAsked
  <2> QED
    BY <2>2, <2>3, <1>w, OverHolds
<1>3. ASSUME RoomLeft(p) PROVE CallTypes' /\ CallAt(p)'
  <2>1. /\ flow[p] = "add" /\ flow' = flow /\ about' = about /\ before' = before
        /\ CallTypes'
    BY <1>3 DEF RoomLeft, calls, CallTypes
  <2>2. /\ Goto(p, "countMany", "fetchKeys", NoKeys)
        /\ index' = index /\ store' = store /\ UNCHANGED reputationVars
    BY <1>3 DEF RoomLeft, OnMempool, CountAdmits, Database
  <2>3. pc[p] = "countMany" /\ pc'[p] = "fetchKeys" /\ arg' = arg
    BY <2>2, Goes
  <2>4. /\ rpc[p] = "idle" /\ rpc' = rpc /\ lists' = lists /\ entry' = entry
        /\ Records' = Records
    BY <2>1, <2>2, RepIdle DEF reputationVars, Records
  <2>5. arg[p] = about[p] /\ about[p] \in UserOps /\ keys[p] = index
    BY <2>1, <2>3 DEF PoolAt, AboutAt, AdmitAt, AboutOp, PCs, AboutOne
  <2>6. PoolSound => HasRoom(about[p].sender)
    BY <1>3, <2>5, RoomWhenCounted DEF RoomLeft, OnMempool, CountAdmits
  <2>7. AdmitAt(p)'
    BY <2>1, <2>2, <2>3, <2>4, <2>6, <1>w, SameStore DEF AdmitAt, PoolSound
  <2> QED
    BY <2>1, <2>2, <2>3, <2>4, <2>5, <2>7
       DEF CallAt, AboutAt, PoolAt, RepAt, ClearAt, CountAt, TraceAt,
           AboutOne
<1>4. ASSUME AskStake(p) PROVE CallTypes' /\ CallAt(p)'
  <2>1. /\ CallTypes' /\ flow[p] = "add" /\ flow'[p] = "stake"
        /\ about' = about /\ before' = before
    BY <1>4, Resumes DEF AskStake, Flows, AboutOne
  <2>2. about[p] \in UserOps /\ about[p].sender \in Addresses /\ pc[p] = "countMany"
    BY <1>4, <2>1, OpIs DEF AboutAt, AboutOne, AskStake
  <2>3. /\ rpc'[p] = "whitelist" /\ job'[p] = StakeJob(about[p].sender)
        /\ rout'[p] = "none"
        /\ lists' = lists /\ entry' = entry /\ coll' = coll /\ UNCHANGED vars
    BY <1>4, <2>2, Requests, StakeJobIs DEF AskStake, OnReputation, Rep!Start
  <2>4. Records' = Records
    BY <2>3 DEF Records, vars
  <2> QED
    BY <2>1, <2>2, <2>3, <2>4, <1>w
       DEF CallAt, AboutAt, PoolAt, RepAt, ClearAt, CountAt, AdmitAt, TraceAt,
           AboutOne, vars
<1>5. ASSUME StakeAllows(p) PROVE CallTypes' /\ CallAt(p)'
  <2>1. /\ CallTypes' /\ flow[p] = "stake" /\ flow'[p] = "add"
        /\ about' = about /\ before' = before
    BY <1>5, Resumes DEF StakeAllows, Flows, AboutOne
  <2>2. /\ Goto(p, "countMany", "fetchKeys", NoKeys)
        /\ index' = index /\ store' = store /\ UNCHANGED reputationVars
        /\ rpc[p] = "idle" /\ rout[p] = "noError"
    BY <1>5 DEF StakeAllows, OnMempool, Database, RepSays
  <2>3. pc[p] = "countMany" /\ pc'[p] = "fetchKeys" /\ arg' = arg
    BY <2>2, Goes
  <2>4. rpc' = rpc /\ lists' = lists /\ entry' = entry /\ Records' = Records
    BY <2>2 DEF reputationVars, Records
  <2>5. arg[p] = about[p] /\ about[p] \in UserOps /\ ~BannedNow(about[p].sender)
    BY <2>1, <2>2, <2>3 DEF PoolAt, AboutAt, AdmitAt, AboutOp, PCs, AboutOne
  <2>6. ~BannedNow(about[p].sender)'
    BY <2>1, <2>4, <2>5, SameEntry
  <2> QED
    BY <2>1, <2>2, <2>3, <2>4, <2>5, <2>6, <1>w
       DEF CallAt, AboutAt, PoolAt, RepAt, ClearAt, CountAt, AdmitAt, TraceAt,
           AboutOne
<1>6. ASSUME StakeRefuses(p) PROVE CallTypes' /\ CallAt(p)'
  <2>1. CallTypes' /\ flow'[p] = "idle"
    BY <1>6, AnswersCall DEF StakeRefuses, RepSays, Replies
  <2>2. pc'[p] = "idle" /\ rpc'[p] = "idle" /\ lists' = lists
    BY <1>6, Returns DEF StakeRefuses, OnMempool, RepSays, reputationVars
  <2> QED
    BY <2>1, <2>2, <1>w, OverHolds
<1>7. ASSUME CountPaymaster(p) PROVE CallTypes' /\ CallAt(p)'
  <2> DEFINE a == PaymasterOf[about[p]]
  <2>1. /\ CallTypes' /\ flow[p] = "add" /\ flow'[p] = "countPaymaster"
        /\ about' = about /\ a # None /\ pc[p] = "seen"
    BY <1>7, Resumes DEF CountPaymaster, Flows, AboutOne
  <2>2. about[p] \in UserOps /\ a \in Addresses
    BY <2>1, OpIs DEF AboutAt, AboutOne
  <2>3. /\ rpc'[p] = "fetch" /\ job'[p] = SeenJob(a) /\ rout'[p] = "none"
        /\ lists' = lists /\ entry' = entry /\ UNCHANGED vars
    BY <1>7, <2>2, Requests, SeenJobIs DEF CountPaymaster, OnReputation, Rep!Start
  <2> QED
    BY <2>1, <2>2, <2>3, <1>w
       DEF CallAt, AboutAt, PoolAt, RepAt, ClearAt, CountAt, AdmitAt, TraceAt,
           AboutOne, vars
<1>8. ASSUME CountSender(p) PROVE CallTypes' /\ CallAt(p)'
  <2> DEFINE a == PaymasterOf[about[p]]
             s == about[p].sender
  <2>1. /\ CallTypes' /\ flow[p] \in {"add", "countPaymaster"}
        /\ flow'[p] = "countSender" /\ about' = about
        /\ pc[p] = "seen"
        /\ a # None => IsCounted(a)
    BY <1>8, Resumes DEF CountSender, Flows, AboutOne, PoolAt, CountAt, RepSays
  <2>2. about[p] \in UserOps /\ s \in Addresses
    BY <2>1, OpIs DEF AboutAt, AboutOne
  <2>3. /\ rpc'[p] = "fetch" /\ job'[p] = SeenJob(s) /\ rout'[p] = "none"
        /\ lists' = lists /\ entry' = entry /\ UNCHANGED vars
    BY <1>8, <2>2, Requests, SeenJobIs DEF CountSender, OnReputation, Rep!Start
  <2>4. a # None => IsCounted(a)'
    BY <2>1, <2>3, SameEntry
  <2> QED
    BY <2>1, <2>2, <2>3, <2>4, <1>w
       DEF CallAt, AboutAt, PoolAt, RepAt, ClearAt, CountAt, AdmitAt, TraceAt,
           AboutOne, vars
<1>9. ASSUME Counted(p) PROVE CallTypes' /\ CallAt(p)'
  <2> DEFINE a == PaymasterOf[about[p]]
             s == about[p].sender
  <2>1. /\ CallTypes' /\ flow[p] = "countSender"
        /\ flow'[p] = "hash" /\ about' = about
        /\ rpc[p] = "idle" /\ rout[p] = "done"
    BY <1>9, Resumes DEF Counted, Flows, AboutOne, RepSays
  <2>2. /\ pc[p] = "seen" /\ about[p] \in UserOps
        /\ IsCounted(s) /\ (a # None => IsCounted(a))
        /\ store[KeyOf(about[p])] = about[p]
    BY <2>1 DEF AboutAt, AboutOne, CountAt, PoolAt
  <2>3. /\ pc'[p] = "idle" /\ store' = store /\ UNCHANGED reputationVars
    BY <1>9, Returns DEF Counted, OnMempool, UpdateSeen, Database
  <2>4. rpc'[p] = "idle" /\ entry' = entry /\ lists' = lists
    BY <2>1, <2>3 DEF reputationVars
  <2>5. IsCounted(s)' /\ (a # None => IsCounted(a)')
    BY <2>1, <2>2, <2>4, SameEntry
  <2> QED
    BY <2>1, <2>2, <2>3, <2>4, <2>5, <1>w
       DEF CallAt, AboutAt, PoolAt, RepAt, ClearAt, CountAt, AdmitAt, TraceAt,
           AboutOne, AboutOp
<1>10. ASSUME NotCounted(p) PROVE CallTypes' /\ CallAt(p)'
  <2>1. CallTypes' /\ flow'[p] = "idle"
    BY <1>10, AnswersCall DEF NotCounted, Replies
  <2>2. pc'[p] = "idle" /\ rpc'[p] = "idle" /\ lists' = lists
    BY <1>10, Returns DEF NotCounted, OnMempool, RepSays, reputationVars, WriteFails
  <2> QED
    BY <2>1, <2>2, <1>w, OverHolds
<1> QED
  BY <1>1, <1>2, <1>3, <1>4, <1>5, <1>6, <1>7, <1>8, <1>9, <1>10 DEF SendStep

\* The steps of the other calls.
LEMMA OtherGoesOn ==
    ASSUME ExecutorInv, NEW p \in Proc, ApiStep(p), ~SendStep(p)
    PROVE  CallTypes' /\ CallAt(p)'
<1> USE CallFacts
<1>w. lists["WL"] = {}
  OBVIOUS
<1>1. ASSUME FeesAllow(p) \/ EstimateGas(p) PROVE CallTypes' /\ CallAt(p)'
  <2>1. PICK from \in {"fees", "simulate"}, to \in {"validateOnly", "estimateGas"} :
           Resume(p, from, to) /\ NoService /\ (from = "fees" => pc[p] = "idle")
    BY <1>1 DEF FeesAllow, EstimateGas, PoolSays
  <2>2. /\ CallTypes' /\ flow[p] = from /\ flow'[p] = to /\ about' = about
        /\ before' = before
    BY <2>1, Resumes DEF Flows, AboutOne
  <2>3. pc'[p] = "idle" /\ rpc'[p] = "idle" /\ lists' = lists /\ Records' = Records
    BY <2>1, <2>2, NothingAsked, ServicesIdle, RepIdle
  <2>4. about[p] \in UserOps /\ Records = before[p]
    BY <2>2 DEF AboutAt, AboutOne, TraceAt
  <2>5. Noted(before'[p], Records', about'[p])
    BY <2>2, <2>3, <2>4, FindsRecords
  <2> QED
    BY <2>2, <2>3, <2>4, <2>5, <1>w, AsksNode
<1>2. ASSUME FeesForbid(p) \/ Simulated(p) \/ Estimated(p) \/ ClearEnds(p)
             \/ DumpEnds(p) \/ CleanEnds(p)
      PROVE  CallTypes' /\ CallAt(p)'
  <2>1. PICK from \in {"fees", "validateOnly", "simulate", "estimateGas", "clearPool",
                       "clearReputation", "dumpPool", "dumpRep", "clean"},
             answer \in Replies :
           /\ Answer(p, from, answer) /\ NoService
           /\ from \in {"fees", "clearPool", "dumpPool", "clean"} => pc[p] = "idle"
           /\ from \in {"clearReputation", "dumpRep"} => rpc[p] = "idle"
    BY <1>2 DEF FeesForbid, Simulated, Estimated, ClearEnds, DumpEnds, CleanEnds,
       PoolSays, RepSays, Replies
  <2>2. CallTypes' /\ flow[p] = from /\ flow'[p] = "idle"
    BY <2>1, AnswersCall
  <2>3. pc'[p] = "idle" /\ rpc'[p] = "idle" /\ lists' = lists
    BY <2>1, <2>2, ServicesIdle, RepIdle, PoolIdle, NothingAsked
  <2> QED
    BY <2>2, <2>3, <1>w, OverHolds
<1>3. ASSUME ClearReputation(p) PROVE CallTypes' /\ CallAt(p)'
  <2>1. /\ CallTypes' /\ flow[p] = "clearPool" /\ flow'[p] = "clearReputation"
        /\ about' = about /\ pc[p] = "idle" /\ Stored = {}
    BY <1>3, Resumes DEF ClearReputation, Flows, PoolSays, ClearAt
  <2>2. /\ rpc'[p] = "clKeys" /\ job'[p] = GlobalJob("clear") /\ rout'[p] = "none"
        /\ lists' = lists /\ UNCHANGED vars
    BY <1>3, Requests, GlobalJobIs DEF ClearReputation, OnReputation, Rep!Start
  <2>3. pc'[p] = "idle" /\ Stored' = {}
    BY <2>1, <2>2, SameStore DEF vars
  <2> QED
    BY <2>1, <2>2, <2>3, <1>w
       DEF CallAt, AboutAt, PoolAt, RepAt, ClearAt, CountAt, AdmitAt, TraceAt,
           AboutOne, AboutOp
<1>4. ASSUME SetNext(p) PROVE CallTypes' /\ CallAt(p)'
  <2>1. /\ flow[p] = "set" /\ about[p] # <<>> /\ about[p] \in Seq(SetJobs)
        /\ Tail(about[p]) \in Seq(SetJobs) /\ Head(about[p]) \in SetJobs
    BY <1>4 DEF SetNext, AboutAt
  <2>2. CallTypes' /\ flow'[p] = "setting" /\ about'[p] = Tail(about[p])
    <3>1. flow' \in [Proc -> Flows]
      BY <1>4 DEF SetNext, CallTypes, Flows
    <3>2. about' \in [Proc -> UserOps \cup Seq(SetJobs) \cup {None}]
      BY <1>4, <2>1 DEF SetNext, CallTypes
    <3>3. flow'[p] = "setting" /\ about'[p] = Tail(about[p])
      BY <1>4 DEF SetNext, CallTypes
    <3> QED
      BY <1>4, <3>1, <3>2, <3>3 DEF SetNext, CallTypes
  <2>3. /\ rpc'[p] = "fetch" /\ job'[p] = Head(about[p])
        /\ lists' = lists /\ UNCHANGED vars
    BY <1>4, <2>1, Requests, SetJobIs DEF SetNext, OnReputation, Rep!Start
  <2>4. pc'[p] = "idle"
    BY <2>1, <2>3, ServicesIdle DEF vars
  <2> QED
    BY <2>1, <2>2, <2>3, <2>4, <1>w
       DEF CallAt, AboutAt, PoolAt, RepAt, ClearAt, CountAt, AdmitAt, TraceAt,
           AboutOne, AboutOp
<1>5. ASSUME SetEnds(p) PROVE CallTypes' /\ CallAt(p)'
  <2>1. CASE rpc[p] = "idle" /\ Resume(p, "setting", "set")
    <3>1. /\ CallTypes' /\ flow[p] = "setting" /\ flow'[p] = "set" /\ about' = about
      BY <2>1, Resumes DEF Flows
    <3>2. /\ pc'[p] = "idle" /\ rpc'[p] = "idle" /\ lists' = lists
      BY <1>5, <2>1, <3>1, NothingAsked, PoolIdle DEF SetEnds
    <3>3. about[p] \in Seq(SetJobs)
      BY <3>1 DEF AboutAt
    <3> QED
      BY <3>1, <3>2, <3>3, <1>w
         DEF CallAt, AboutAt, PoolAt, RepAt, ClearAt, CountAt, AdmitAt, TraceAt,
             AboutOne, AboutOp
  <2>2. CASE \/ rpc[p] = "idle" /\ Answer(p, "setting", "error")
             \/ Answer(p, "set", "ok")
    <3>1. PICK from \in {"set", "setting"} :
            /\ \E answer \in Replies : Answer(p, from, answer)
            /\ from = "setting" => rpc[p] = "idle"
      BY <2>2 DEF Replies
    <3>2. CallTypes' /\ flow[p] = from /\ flow'[p] = "idle"
      BY <3>1, AnswersCall
    <3>3. pc'[p] = "idle" /\ rpc'[p] = "idle" /\ lists' = lists
      BY <1>5, <3>1, <3>2, ServicesIdle, PoolIdle, NothingAsked DEF SetEnds
    <3> QED
      BY <3>2, <3>3, <1>w, OverHolds
  <2> QED
    BY <1>5, <2>1, <2>2 DEF SetEnds, RepSays
<1>6. ASSUME NEW a \in Addresses, AskEntity(p, a) PROVE CallTypes' /\ CallAt(p)'
  <2>1. PICK from \in {"validate", "validateOnly"}, to \in {"judge", "judgeOnly"} :
           Resume(p, from, to)
    BY <1>6 DEF AskEntity, Judging
  <2>2. /\ CallTypes' /\ flow[p] = from /\ flow'[p] = to /\ about' = about
        /\ before' = before
    BY <2>1, Resumes DEF Flows, AboutOne
  <2>3. /\ rpc'[p] = "whitelist" /\ job'[p] = StakeJob(a) /\ rout'[p] = "none"
        /\ UNCHANGED <<coll, entry, lists>> /\ UNCHANGED vars
    BY <1>6, Requests, StakeJobIs DEF AskEntity, OnReputation, Rep!Start
  <2>4. /\ about[p] \in UserOps /\ a \in EntitiesOf[about[p]] /\ pc'[p] = "idle"
        /\ Noted(before[p], Records, about[p])
    BY <1>6, <2>2, <2>3, ServicesIdle DEF AskEntity, AboutAt, AboutOne, TraceAt, vars
  <2>5. Noted(before[p], Records', about[p])
    BY <2>3, <2>4 DEF Records, vars
  <2> QED
    BY <2>2, <2>3, <2>4, <2>5, <1>w
       DEF CallAt, AboutAt, PoolAt, RepAt, ClearAt, CountAt, AdmitAt, TraceAt,
           AboutOne, AboutOp
<1>7. ASSUME Judged(p) PROVE CallTypes' /\ CallAt(p)'
  <2>1. PICK from \in {"judge", "judgeOnly"}, to \in {"validate", "validateOnly"} :
           Resume(p, from, to)
    BY <1>7 DEF Judged, Judging
  <2>2. /\ CallTypes' /\ flow[p] = from /\ flow'[p] = to /\ about' = about
        /\ before' = before
    BY <2>1, Resumes DEF Flows, AboutOne
  <2>3. /\ pc'[p] = "idle" /\ rpc'[p] = "idle" /\ lists' = lists /\ Records' = Records
    BY <1>7, <2>2, NothingAsked DEF Judged, RepSays, PoolAt
  <2>4. about[p] \in UserOps /\ Noted(before'[p], Records', about'[p])
    BY <2>2, <2>3 DEF AboutAt, AboutOne, TraceAt, Staking
  <2> QED
    BY <2>2, <2>3, <2>4, <1>w, AsksNode
<1>8. ASSUME JudgedAgainst(p) PROVE CallTypes' /\ CallAt(p)'
  <2>1. PICK from \in {"judge", "judgeOnly"}, answer \in Replies :
           Answer(p, from, answer) /\ rpc[p] = "idle"
    BY <1>8 DEF JudgedAgainst, Judging, RepSays, Replies
  <2>2. CallTypes' /\ flow[p] = from /\ flow'[p] = "idle"
    BY <2>1, AnswersCall
  <2>3. pc'[p] = "idle" /\ rpc'[p] = "idle" /\ lists' = lists
    BY <1>8, <2>1, <2>2, NothingAsked DEF JudgedAgainst, PoolAt
  <2> QED
    BY <2>2, <2>3, <1>w, OverHolds
<1> QED
  BY <1>1, <1>2, <1>3, <1>4, <1>5, <1>6, <1>7, <1>8 DEF ApiStep, Validation

-----------------------------------------------------------------------------
(***************************************************************************)
(* The steps of the services, likewise.                                    *)
(***************************************************************************)
\* Where a request is in the mempool tells which call it is of.
LEMMA CallOfPlace ==
    ASSUME ExecutorInv, NEW p \in Proc, pc[p] \notin {"idle", "countMany", "seen"}
    PROVE  /\ rpc[p] = "idle"
           /\ flow[p] \in {"add", "fees", "clearPool", "dumpPool", "clean"}
           /\ pc[p] \in {"find", "replace", "countKeys", "fetchKeys", "putIndex",
                         "putEntry"} => flow[p] = "add"
           /\ pc[p] = "ckFind" => flow[p] = "fees"
           /\ pc[p] \in {"clKeys", "clDel"} => flow[p] = "clearPool"
           /\ pc[p] \in {"dpKeys", "dpMany"} => flow[p] = "dumpPool"
           /\ pc[p] \in {"rmKeys", "rmDel", "rmPut"} => flow[p] = "clean"
           /\ pc[p] \in AboutOp =>
                 arg[p] = about[p] /\ about[p] \in UserOps /\ KeyOf(about[p]) \in Keys
<1>1. flow[p] \in {"add", "fees", "clearPool", "dumpPool", "clean"}
  BY CallFacts DEF PoolAt
<1>2. rpc[p] = "idle"
  BY <1>1, RepIdle
<1>3. PoolAt(p) /\ TypeOK /\ pc[p] \in PCs
  BY CallFacts
<1>4. pc[p] \in AboutOp =>
         arg[p] = about[p] /\ about[p] \in UserOps /\ KeyOf(about[p]) \in Keys
  BY <1>3, KeyOfType DEF PoolAt, TypeOK
<1>5. /\ pc[p] \in {"find", "replace", "countKeys", "fetchKeys", "putIndex",
                    "putEntry"} => flow[p] = "add"
      /\ pc[p] = "ckFind" => flow[p] = "fees"
      /\ pc[p] \in {"clKeys", "clDel"} => flow[p] = "clearPool"
      /\ pc[p] \in {"dpKeys", "dpMany"} => flow[p] = "dumpPool"
      /\ pc[p] \in {"rmKeys", "rmDel", "rmPut"} => flow[p] = "clean"
  BY <1>1, <1>3 DEF PoolAt
<1> QED
  BY <1>1, <1>2, <1>4, <1>5

\* The key that is appended is the only one that changes the collection: it
\* was sound before, if it will be when the entry is saved.
LEMMA SoundBefore ==
    ASSUME TypeOK, NEW k \in Keys, store[k] = None, UNCHANGED store,
           index' = [index EXCEPT ![k] = @ + 1], SoundBut(k)'
    PROVE  PoolSound
<1> SUFFICES ASSUME NEW j \in Keys
             PROVE  index[j] = IF store[j] = None THEN 0 ELSE 1
  BY DEF PoolSound
<1>1. index \in [Keys -> Nat]
  BY DEF TypeOK
<1>2. index'[j] = IF j = k \/ store[j] # None THEN 1 ELSE 0
  BY DEF SoundBut
<1> QED
  BY <1>1, <1>2

LEMMA AddGoesOn ==
    ASSUME ExecutorInv, NEW p \in Proc, AddStep(p), pc[p] \notin {"countMany", "seen"},
           UNCHANGED reputationVars, UNCHANGED calls
    PROVE  CallAt(p)'
<1> DEFINE op == about[p]
           k == KeyOf(op)
<1>1. pc[p] \in {"find", "replace", "countKeys", "fetchKeys", "putIndex", "putEntry"}
  BY DEF AddStep, FindReplace, FindTooLow, FindNew, Replace, CountKeys, CountAdmits,
     CountRefuses, FetchAndPush, PutIndex, PutEntry, UpdateSeen, Goto, Return
<1>2. /\ rpc[p] = "idle" /\ flow[p] = "add" /\ arg[p] = op
      /\ op \in UserOps /\ k \in Keys
  BY <1>1, CallOfPlace DEF AboutOp, PCs
<1>3. /\ flow' = flow /\ about' = about /\ before' = before
      /\ rpc' = rpc /\ lists' = lists /\ coll' = coll /\ entry' = entry
  BY DEF calls, reputationVars
<1>4. TypeOK /\ SerialInv /\ AdmitAt(p) /\ TraceAt(p) /\ lists["WL"] = {}
  BY CallFacts
<1>5. FetchKeys = {index}
  BY PoolAssumption DEF FetchKeys, ReadFails
\* What is left to show for a step to another place of the call, and for one
\* out of the service.
<1>a. ASSUME NEW to \in {"replace", "countKeys", "countMany", "fetchKeys", "putIndex",
                         "putEntry", "seen"},
             pc'[p] = to, arg' = arg,
             to = "seen" => store'[k] = op,
             to \notin {"putEntry", "seen"} => Noted(before[p], Records', op),
             AdmitAt(p)'
      PROVE  CallAt(p)'
  BY <1>2, <1>3, <1>a
     DEF CallAt, AboutAt, PoolAt, RepAt, ClearAt, CountAt, TraceAt, AboutOne
<1>b. ASSUME NEW to \in {"replace", "countKeys", "seen"}, pc'[p] = to PROVE AdmitAt(p)'
  BY <1>2, <1>3, <1>4, <1>b DEF AdmitAt
<1>6. CASE FindReplace(p) \/ FindNew(p)
  <2>1. PICK to \in {"replace", "countKeys"} :
           Goto(p, "find", to, keys[p]) /\ index' = index /\ store' = store
    BY <1>6 DEF FindReplace, FindNew, Database
  <2>2. pc[p] = "find" /\ pc'[p] = to /\ arg' = arg
    BY <1>4, <2>1, Goes
  <2>3. Noted(before[p], Records', op)
    BY <1>2, <1>3, <1>4, <2>1, <2>2 DEF TraceAt, Records
  <2> QED
    BY <2>2, <2>3, <1>a, <1>b
<1>7. CASE FindTooLow(p)
  <2>1. /\ pc[p] = "find" /\ pc'[p] = "idle" /\ out'[p] = "feeTooLow"
        /\ index' = index /\ store' = store
    BY <1>4, <1>7, Returns DEF FindTooLow, Database
  <2>2. Noted(before[p], Records', op)
    BY <1>2, <1>3, <1>4, <2>1 DEF TraceAt, Records
  <2> QED
    BY <1>2, <1>3, <1>4, <2>1, <2>2
       DEF CallAt, AboutAt, PoolAt, RepAt, ClearAt, CountAt, AdmitAt, TraceAt,
           AboutOne, AboutOp
<1>8. CASE Replace(p)
  <2>1. pc[p] = "replace" /\ pc'[p] = "seen" /\ arg' = arg
    BY <1>4, <1>8, Goes DEF Replace
  <2>2. store'[k] = op
    BY <1>2, <1>4, <1>8 DEF Replace, TypeOK
  <2> QED
    BY <2>1, <2>2, <1>a, <1>b
<1>9. CASE CountKeys(p)
  <2>1. Goto(p, "countKeys", "countMany", index) /\ index' = index /\ store' = store
    BY <1>5, <1>9 DEF CountKeys, Database
  <2>2. pc[p] = "countKeys" /\ pc'[p] = "countMany" /\ arg' = arg /\ keys'[p] = index
    BY <1>4, <2>1, Goes
  <2>3. Noted(before[p], Records', op)
    BY <1>2, <1>3, <1>4, <2>1, <2>2 DEF TraceAt, Records
  <2>4. AdmitAt(p)'
    BY <1>2, <1>3, <1>4, <2>1, <2>2 DEF AdmitAt
  <2> QED
    BY <2>2, <2>3, <2>4, <1>a
<1>10. CASE FetchAndPush(p)
  <2>1. /\ Goto(p, "fetchKeys", "putIndex", [index EXCEPT ![k] = @ + 1])
        /\ index' = index /\ store' = store
    BY <1>2, <1>5, <1>10 DEF FetchAndPush, Database
  <2>2. /\ pc[p] = "fetchKeys" /\ pc'[p] = "putIndex" /\ arg' = arg
        /\ keys'[p] = [index EXCEPT ![k] = @ + 1]
    BY <1>4, <2>1, Goes
  <2>3. Noted(before[p], Records', op)
    BY <1>2, <1>3, <1>4, <2>1, <2>2 DEF TraceAt, Records
  <2>4. BannedNow(op.sender) /\ PoolSound => HasRoom(op.sender)
    BY <1>4, <2>2 DEF AdmitAt
  <2>5. AdmitAt(p)'
    <3>1. (BannedNow(op.sender) /\ PoolSound => HasRoom(op.sender))'
      BY <1>3, <2>1, <2>4, SameStore, SameEntry DEF PoolSound
    <3> QED
      BY <1>2, <1>3, <1>4, <2>1, <2>2, <3>1 DEF AdmitAt
  <2> QED
    BY <2>2, <2>3, <2>5, <1>a
<1>11. CASE PutIndex(p)
  <2>1. /\ pc[p] = "putIndex" /\ pc'[p] = "putEntry" /\ arg' = arg
        /\ index' = keys[p] /\ store' = store
    BY <1>4, <1>11, Goes DEF PutIndex
  <2>2. index' = [index EXCEPT ![k] = @ + 1] /\ store[k] = None
    BY <1>2, <1>4, <2>1 DEF AdmitAt, SerialInv
  <2>3. BannedNow(op.sender) /\ PoolSound => HasRoom(op.sender)
    BY <1>4, <2>1 DEF AdmitAt
  <2>4. SoundBut(k)' => PoolSound
    <3>1. PICK j \in Keys : j = k
      BY <1>2
    <3>2. SoundBut(k)' => SoundBut(j)'
      BY <1>3, <3>1 DEF SoundBut, KeyOf
    <3>3. index' = [index EXCEPT ![j] = @ + 1] /\ store[j] = None
      BY <2>2, <3>1
    <3>4. SoundBut(j)' => PoolSound
      BY <1>4, <2>1, <3>3, SoundBefore
    <3> QED
      BY <3>2, <3>4
  <2>5. (BannedNow(op.sender) /\ SoundBut(k) => HasRoom(op.sender))'
    BY <1>3, <2>1, <2>3, <2>4, SameStore, SameEntry
  <2>6. AdmitAt(p)'
    BY <1>2, <1>3, <1>4, <2>1, <2>5 DEF AdmitAt
  <2> QED
    BY <2>1, <2>6, <1>a
<1>12. CASE PutEntry(p)
  <2>1. pc[p] = "putEntry" /\ pc'[p] = "seen" /\ arg' = arg
    BY <1>4, <1>12, Goes DEF PutEntry
  <2>2. store'[k] = op
    BY <1>2, <1>4, <1>12 DEF PutEntry, TypeOK
  <2> QED
    BY <2>1, <2>2, <1>a, <1>b
<1> QED
  BY <1>1, <1>6, <1>7, <1>8, <1>9, <1>10, <1>11, <1>12
     DEF AddStep, CountAdmits, CountRefuses, UpdateSeen, Goto, Return

LEMMA PoolGoesOn ==
    ASSUME ExecutorInv, NEW p \in Proc, pc[p] \notin {"countMany", "seen"},
           Step(p) \/ WriteFails(p), UNCHANGED reputationVars, UNCHANGED calls
    PROVE  CallTypes' /\ CallAt(p)'
<1>1. CallTypes'
  BY CallFacts DEF calls, CallTypes
<1>2. TypeOK /\ SerialInv /\ lists["WL"] = {} /\ TraceAt(p)
  BY CallFacts
<1>3. /\ flow' = flow /\ about' = about /\ before' = before
      /\ rpc' = rpc /\ rout' = rout /\ lists' = lists /\ coll' = coll
      /\ entry' = entry
  BY DEF calls, reputationVars
<1>a. ASSUME NEW to, NEW at \in {"clearPool", "dumpPool", "clean"},
             flow[p] = at, rpc[p] = "idle", pc'[p] = to,
             at = "clearPool" => to \in {"idle", "clDel"},
             at = "dumpPool" => to \in {"idle", "dpMany"},
             at = "clean" => about[p] \in UserOps /\ to \in {"idle", "rmDel", "rmPut"},
             to \in {"rmDel", "rmPut"} => arg' = arg /\ arg[p] = about[p],
             at = "clearPool" /\ to = "idle" /\ out'[p] = "cleared" => Stored' = {}
      PROVE  CallAt(p)'
  BY <1>2, <1>3, <1>a
     DEF CallAt, AboutAt, PoolAt, RepAt, ClearAt, CountAt, AdmitAt, TraceAt, AboutOne,
         AboutOp, PCs
<1>4. CASE AddStep(p)
  BY <1>1, <1>4, AddGoesOn
<1>5. CASE RemoveStep(p)
  <2>1. PICK to \in {"idle", "rmDel", "rmPut"} :
           /\ pc[p] \in {"rmKeys", "rmDel", "rmPut"} /\ pc'[p] = to
           /\ to \in {"rmDel", "rmPut"} => arg' = arg
    <3>1. CASE RemoveKeys(p) \/ RemoveDel(p)
      BY <1>2, <3>1, Goes DEF RemoveKeys, RemoveDel
    <3>2. CASE RemovePut(p)
      BY <1>2, <3>2, Returns DEF RemovePut
    <3> QED
      BY <1>5, <3>1, <3>2 DEF RemoveStep
  <2>2. /\ flow[p] = "clean" /\ rpc[p] = "idle" /\ about[p] \in UserOps
        /\ arg[p] = about[p]
    BY <2>1, CallOfPlace DEF AboutOp, PCs
  <2> QED
    BY <1>1, <2>1, <2>2, <1>a
<1>6. CASE ClearStep(p)
  <2>1. CASE ClearKeys(p) \/ \E k \in Keys : ClearDel(p, k)
    <3>1. pc[p] \in {"clKeys", "clDel"} /\ pc'[p] = "clDel"
      BY <1>2, <2>1, Goes DEF ClearKeys, ClearDel
    <3>2. flow[p] = "clearPool" /\ rpc[p] = "idle"
      BY <3>1, CallOfPlace
    <3> QED
      BY <1>1, <3>1, <3>2, <1>a
  <2>2. CASE ClearDrop(p)
    <3>1. pc[p] = "clDel" /\ pc'[p] = "idle" /\ keys[p] = NoKeys /\ store' = store
      BY <1>2, <2>2, Returns DEF ClearDrop
    <3>2. flow[p] = "clearPool" /\ rpc[p] = "idle"
      BY <3>1, CallOfPlace
    <3>3. Stored = {}
      BY <1>2, <3>1 DEF SerialInv, Stored, NoKeys
    <3>4. Stored' = {}
      BY <3>1, <3>3, SameStore
    <3> QED
      BY <1>1, <3>1, <3>2, <3>4, <1>a
  <2> QED
    BY <1>6, <2>1, <2>2 DEF ClearStep
<1>7. CASE DumpKeys(p) \/ DumpMany(p)
  <2>1. pc[p] \in {"dpKeys", "dpMany"} /\ pc'[p] \in {"dpMany", "idle"}
    BY <1>2, <1>7, Goes, Returns DEF DumpKeys, DumpMany
  <2>2. flow[p] = "dumpPool" /\ rpc[p] = "idle"
    BY <2>1, CallOfPlace
  <2> QED
    BY <1>1, <2>1, <2>2, <1>a
<1>8. CASE CheckFind(p)
  <2>1. pc[p] = "ckFind" /\ pc'[p] = "idle" /\ index' = index /\ store' = store
    BY <1>2, <1>8, Returns DEF CheckFind, Database
  <2>2. flow[p] = "fees" /\ rpc[p] = "idle" /\ about[p] \in UserOps
    BY <2>1, CallOfPlace DEF AboutOp, PCs
  <2>3. Records' = before[p]
    BY <1>2, <1>3, <2>1, <2>2 DEF TraceAt, Records
  <2> QED
    BY <1>1, <1>2, <1>3, <2>1, <2>2, <2>3
       DEF CallAt, AboutAt, PoolAt, RepAt, ClearAt, CountAt, AdmitAt, TraceAt,
           AboutOne, AboutOp
<1>9. CASE WriteFails(p)
  <2>1. /\ pc[p] \in Writing /\ pc'[p] = "idle" /\ out'[p] = "error"
    BY <1>2, <1>9, Returns DEF WriteFails, CountWrites
  <2>2. /\ flow[p] \in {"add", "clearPool", "clean"} /\ rpc[p] = "idle"
        /\ pc[p] \in AboutOp => about[p] \in UserOps
    BY <2>1, CallOfPlace DEF Writing
  <2>3. AboutAt(p)
    BY CallFacts
  <2> QED
    BY <1>1, <1>2, <1>3, <2>1, <2>2, <2>3
       DEF CallAt, AboutAt, PoolAt, RepAt, ClearAt, CountAt, AdmitAt, TraceAt,
           AboutOne, AboutOp
<1> QED
  BY <1>4, <1>5, <1>6, <1>7, <1>8, <1>9 DEF Step, ReadStep

\* What the entry that was found or made is used for.
LEMMA LoadedIs ==
    ASSUME Rep!TypeOK, NEW p \in Proc, NEW from, NEW e, e.seen \in Nat,
           Rep!Loaded(p, from, e)
    PROVE  \/ /\ job[p].call \in {"seen", "included", "set"}
              /\ rpc'[p] = "save" /\ job' = job /\ rout' = rout
              /\ job[p].call = "seen" /\ job[p].seen = 1 => held'[p].seen > 0
           \/ /\ job[p].call = "status" /\ rpc'[p] = "idle"
           \/ /\ job[p].call = "stake" /\ rpc'[p] = "idle"
              /\ rout'[p] = "noError" => ~Rep!IsBanned(e)
<1>1. CASE /\ job[p].call \in {"seen", "included", "set"}
           /\ Rep!Goto(p, from, "save")
           /\ held' = [held EXCEPT ![p] = Rep!Updated(job[p], e)]
  <2>1. rpc'[p] = "save" /\ job' = job /\ rout' = rout
    BY <1>1, RepGoes
  <2>2. ASSUME job[p].call = "seen", job[p].seen = 1 PROVE held'[p].seen > 0
    <3>1. held'[p] = Rep!AddToReputation(e, 1, job[p].included)
      BY <1>1, <2>2 DEF Rep!TypeOK, Rep!Updated
    <3> QED
      BY <3>1 DEF Rep!AddToReputation
  <2> QED
    BY <1>1, <2>1, <2>2
<1>2. CASE job[p].call = "status" /\ Rep!Return(p, from, Rep!Status(e))
  BY <1>2, RepReturns
<1>3. CASE /\ job[p].call = "stake"
           /\ Rep!Return(p, from, Rep!StakeAnswer(job[p].addr, e))
  <2>1. rpc'[p] = "idle" /\ rout'[p] = Rep!StakeAnswer(job[p].addr, e)
    BY <1>3, RepReturns
  <2>2. Rep!StakeAnswer(job[p].addr, e) = "noError" => ~Rep!IsBanned(e)
    BY DEF Rep!StakeAnswer, Rep!Status
  <2> QED
    BY <1>3, <2>1, <2>2
<1> QED
  BY <1>1, <1>2, <1>3 DEF Rep!Loaded

\* The steps that find or make an entry.
LEMMA EntrySteps ==
    ASSUME Rep!TypeOK, NEW p \in Proc, Rep!EntryStep(p), rpc[p] # "save",
           rpc[p] \in {"collGet", "collPut"} => entry[job[p].addr] = None,
           rpc[p] = "collPut" => copy[p] = [coll EXCEPT ![job[p].addr] = @ + 1]
    PROVE  /\ entry' = entry /\ lists' = lists
           /\ rpc[p] \in {"fetch", "collGet", "collPut"}
           /\ \/ coll' = coll
              \/ /\ entry[job[p].addr] = None
                 /\ coll' = [coll EXCEPT ![job[p].addr] = @ + 1]
           /\ \/ /\ rpc'[p] \in {"collGet", "collPut"} /\ job' = job
                 /\ entry[job[p].addr] = None /\ coll' = coll
                 /\ rpc'[p] = "collPut" =>
                       copy'[p] = [coll EXCEPT ![job[p].addr] = @ + 1]
              \/ /\ job[p].call \in {"seen", "included", "set"}
                 /\ rpc'[p] = "save" /\ job' = job
                 /\ job[p].call = "seen" /\ job[p].seen = 1 => held'[p].seen > 0
              \/ /\ job[p].call = "status" /\ rpc'[p] = "idle"
              \/ /\ job[p].call = "stake" /\ rpc'[p] = "idle"
                 /\ rout'[p] = "noError" => ~BannedNow(job[p].addr)
<1> DEFINE a == job[p].addr
<1>1. CASE Rep!FetchFound(p)
  <2>1. a \in Addresses /\ entry[a] \in Rep!Entry
    BY <1>1, AssumedOfJobs DEF Rep!FetchFound, Rep!TypeOK
  <2>2. entry[a].seen \in Nat
    BY <2>1 DEF Rep!Entry
  <2>3. Rep!Loaded(p, "fetch", entry[a]) /\ entry' = entry /\ lists' = lists
        /\ rpc[p] = "fetch" /\ coll' = coll
    BY <1>1 DEF Rep!FetchFound, Rep!Database
  <2> QED
    BY <2>2, <2>3, LoadedIs DEF BannedNow
<1>2. CASE Rep!FetchMissing(p)
  <2>1. None \in Rep!Read(entry[a], None) => entry[a] = None
    BY PoolAssumption DEF Rep!Read, Rep!ReadFails
  <2> QED
    BY <1>2, <2>1, RepGoes DEF Rep!FetchMissing, Rep!Database
<1>4. CASE Rep!CollGet(p)
  <2>1. Rep!Read(coll, Rep!NoAddresses) = {coll}
    BY PoolAssumption DEF Rep!Read, Rep!ReadFails
  <2>2. copy' = [copy EXCEPT ![p] = [coll EXCEPT ![a] = @ + 1]]
    BY <1>4, <2>1 DEF Rep!CollGet
  <2>3. copy'[p] = [coll EXCEPT ![a] = @ + 1]
    BY <2>2 DEF Rep!TypeOK
  <2> QED
    BY <1>4, <2>3, RepGoes DEF Rep!CollGet, Rep!Database
<1>3. CASE Rep!CollPut(p)
  <2>1. Rep!Loaded(p, "collPut", Rep!Fresh) /\ entry' = entry /\ lists' = lists
        /\ rpc[p] = "collPut" /\ coll' = copy[p]
    BY <1>3 DEF Rep!CollPut
  <2>2. Rep!Fresh.seen \in Nat
    BY DEF Rep!Fresh
  <2> QED
    BY <2>1, <2>2, LoadedIs DEF BannedNow
<1> QED
  BY <1>1, <1>2, <1>3, <1>4 DEF Rep!EntryStep, Rep!Save, Rep!Return

LEMMA ReputationGoesOn ==
    ASSUME ExecutorInv, NEW p \in Proc, Rep!Step(p) \/ Rep!WriteFails(p),
           UNCHANGED vars, UNCHANGED calls
    PROVE  CallTypes' /\ CallAt(p)'
<1> DEFINE op == about[p]
           a == job[p].addr
<1>1. CallTypes'
  BY CallFacts DEF calls, CallTypes
<1>2. /\ Rep!TypeOK /\ Rep!SerialInv /\ lists["WL"] = {} /\ rpc[p] \in Rep!PCs
      /\ AboutAt(p) /\ PoolAt(p) /\ RepAt(p) /\ ClearAt(p) /\ CountAt(p)
      /\ AdmitAt(p) /\ TraceAt(p)
  BY CallFacts
<1>3. /\ flow' = flow /\ about' = about /\ before' = before
      /\ pc' = pc /\ arg' = arg /\ out' = out /\ keys' = keys
      /\ index' = index /\ store' = store
  BY DEF calls, vars
<1>4. rpc[p] # "idle"
  BY DEF Rep!Step, Rep!EntryStep, Rep!FetchFound, Rep!FetchMissing, Rep!CollGet,
     Rep!CollPut, Rep!Save, Rep!StakeWhitelisted, Rep!StakeFetch, Rep!CollectionStep,
     Rep!DumpKeys, Rep!DumpMany, Rep!ClearKeys, Rep!ClearDel, Rep!ClearDrop,
     Rep!ListStep, Rep!ListGet, Rep!ListAnswer, Rep!ListPut, Rep!WriteFails,
     Rep!Goto, Rep!Return
<1>5. flow[p] \in {"stake", "judge", "judgeOnly", "countPaymaster", "countSender", "setting",
                   "clearReputation", "dumpRep"}
  BY <1>2, <1>4 DEF RepAt
<1>6. /\ flow[p] \in Staking \cup {"countPaymaster", "countSender"} =>
            /\ op \in UserOps /\ op.sender \in Senders /\ op.sender \in Addresses
            /\ EntitiesOf[op] \subseteq Addresses
      /\ flow[p] = "countPaymaster" => PaymasterOf[op] \in Addresses
  BY <1>2, OpIs, ExecutorAssumption DEF AboutAt, AboutOne, Staking
<1>7. a \in Addresses
  BY <1>2, <1>4, AssumedOfJobs DEF Rep!TypeOK
\* The request is over, and has failed or was only to set or to dump.
<1>a. ASSUME rpc'[p] = "idle", lists' = lists,
             flow[p] \in Staking \cup {"countPaymaster", "countSender"} => entry' = entry,
             flow[p] \in Staking => coll' = coll,
             \/ flow[p] \in {"setting", "dumpRep"}
             \/ rout'[p] \notin {"noError", "done", "cleared"}
      PROVE  CallAt(p)'
  <2>1. \A b : entry' = entry => (IsCounted(b)' <=> IsCounted(b))
    BY SameEntry
  <2> QED
    BY <1>2, <1>3, <1>5, <1>a, <2>1, SameStore
       DEF CallAt, AboutAt, PoolAt, RepAt, ClearAt, CountAt, AdmitAt, TraceAt,
           AboutOne, AboutOp, PCs, Records, Staking
<1>8. CASE Rep!WriteFails(p)
  <2>1. /\ rpc'[p] = "idle" /\ rout'[p] = "error" /\ lists' = lists /\ entry' = entry
        /\ coll' = coll
    BY <1>2, <1>8, RepReturns DEF Rep!WriteFails, Rep!Database
  <2> QED
    BY <1>1, <2>1, <1>a
<1>9. CASE Rep!EntryStep(p) /\ rpc[p] # "save"
  <2>1. /\ entry' = entry /\ lists' = lists
        /\ rpc[p] \in {"fetch", "collGet", "collPut"}
        /\ \/ coll' = coll
           \/ entry[a] = None /\ coll' = [coll EXCEPT ![a] = @ + 1]
        /\ \/ /\ rpc'[p] \in {"collGet", "collPut"} /\ job' = job
              /\ entry[a] = None /\ coll' = coll
              /\ rpc'[p] = "collPut" => copy'[p] = [coll EXCEPT ![a] = @ + 1]
           \/ /\ job[p].call \in {"seen", "included", "set"}
              /\ rpc'[p] = "save" /\ job' = job
              /\ job[p].call = "seen" /\ job[p].seen = 1 => held'[p].seen > 0
           \/ /\ job[p].call = "status" /\ rpc'[p] = "idle"
           \/ /\ job[p].call = "stake" /\ rpc'[p] = "idle"
              /\ rout'[p] = "noError" => ~BannedNow(a)
    BY <1>2, <1>9, EntrySteps DEF AdmitAt
  <2>2. \/ /\ flow[p] = "stake" /\ job[p] = StakeJob(op.sender)
           /\ job[p].call = "stake" /\ a = op.sender
        \/ /\ flow[p] \in {"judge", "judgeOnly"}
           /\ \E b \in EntitiesOf[op] : job[p] = StakeJob(b)
           /\ job[p].call = "stake" /\ a \in EntitiesOf[op]
        \/ /\ flow[p] = "countPaymaster" /\ job[p] = SeenJob(PaymasterOf[op])
           /\ job[p].call = "seen" /\ job[p].seen = 1
        \/ /\ flow[p] = "countSender" /\ job[p] = SeenJob(op.sender)
           /\ job[p].call = "seen" /\ job[p].seen = 1
        \/ flow[p] = "setting" /\ job[p] \in SetJobs /\ job[p].call = "set"
    BY <1>2, <1>4, <1>6, <2>1, StakeJobIs, SeenJobIs, SetJobIs
       DEF RepAt, Staking
  <2>3. /\ \A b : (BannedNow(b)' <=> BannedNow(b)) /\ (IsCounted(b)' <=> IsCounted(b))
    BY <2>1, SameEntry
  <2>t. TraceAt(p)'
    <3>1. CASE coll' = coll
      <4>1. Records' = Records
        BY <1>3, <2>1, <3>1 DEF Records
      <4> QED
        BY <1>2, <1>3, <1>5, <4>1 DEF TraceAt
    <3>2. CASE entry[a] = None /\ coll' = [coll EXCEPT ![a] = @ + 1]
      <4>1. ASSUME flow[p] \in Staking PROVE Noted(before[p], Records', op)
        <5>1. a \in EntitiesOf[op] \cup {op.sender}
          BY <2>2, <4>1 DEF Staking
        <5>2. Noted(before[p], Records, op)
          BY <1>2, <4>1 DEF TraceAt, Staking
        <5> QED
          BY <1>2, <1>3, <1>7, <2>1, <3>2, <5>1, <5>2, ListsOneMore
      <4> QED
        BY <1>3, <1>5, <4>1 DEF TraceAt, Staking
    <3> QED
      BY <2>1, <3>1, <3>2
  <2>4. CASE /\ rpc'[p] \in {"collGet", "collPut"} /\ job' = job /\ entry[a] = None
             /\ coll' = coll
             /\ rpc'[p] = "collPut" => copy'[p] = [coll EXCEPT ![a] = @ + 1]
    BY <1>1, <1>2, <1>3, <2>1, <2>2, <2>3, <2>4, <2>t
       DEF CallAt, AboutAt, PoolAt, RepAt, ClearAt, CountAt, AdmitAt,
           AboutOne, AboutOp, PCs, Staking
  <2>5. CASE /\ job[p].call \in {"seen", "included", "set"}
             /\ rpc'[p] = "save" /\ job' = job
             /\ job[p].call = "seen" /\ job[p].seen = 1 => held'[p].seen > 0
    BY <1>1, <1>2, <1>3, <2>1, <2>2, <2>3, <2>5, <2>t
       DEF CallAt, AboutAt, PoolAt, RepAt, ClearAt, CountAt, AdmitAt,
           AboutOne, AboutOp, PCs, Staking
  <2>6. CASE /\ job[p].call = "stake" /\ rpc'[p] = "idle"
             /\ rout'[p] = "noError" => ~BannedNow(a)
    BY <1>1, <1>2, <1>3, <2>1, <2>2, <2>3, <2>6, <2>t
       DEF CallAt, AboutAt, PoolAt, RepAt, ClearAt, CountAt, AdmitAt,
           AboutOne, AboutOp, PCs, Staking
  <2> QED
    BY <2>1, <2>2, <2>4, <2>5, <2>6
<1>10. CASE Rep!Save(p)
  <2>1. /\ rpc[p] = "save" /\ rpc'[p] = "idle" /\ rout'[p] = "done"
        /\ entry' = [entry EXCEPT ![a] = held[p]] /\ lists' = lists
    BY <1>2, <1>10, RepReturns DEF Rep!Save
  <2>2. /\ held[p] # None /\ entry \in [Addresses -> Rep!Entry \cup {None}]
        /\ held[p] \in Rep!Entry
    BY <1>2, <2>1, AssumedOfJobs, SameEntries DEF Rep!TypeOK
  <2>3. CASE flow[p] = "setting"
    BY <1>1, <2>1, <2>3, <1>a DEF Staking
  <2>4. CASE flow[p] \in {"countPaymaster", "countSender"}
    <3>1. /\ job[p].call = "seen"
          /\ a = IF flow[p] = "countPaymaster" THEN PaymasterOf[op] ELSE op.sender
      BY <1>2, <1>4, <1>6, <2>4, SeenJobIs DEF RepAt
    <3>2. held[p].seen > 0
      BY <1>2, <2>1, <3>1 DEF CountAt
    <3>3. /\ entry'[a] # None /\ entry'[a].seen > 0
          /\ \A b \in Addresses : b # a => entry'[b] = entry[b]
      BY <1>7, <2>1, <2>2, <3>2
    <3>4. ASSUME flow[p] = "countPaymaster" PROVE IsCounted(PaymasterOf[op])'
      BY <1>3, <3>1, <3>3, <3>4 DEF IsCounted
    <3>5. ASSUME flow[p] = "countSender"
          PROVE  /\ IsCounted(op.sender)'
                 /\ PaymasterOf[op] # None => IsCounted(PaymasterOf[op])'
      <4>1. entry'[op.sender] # None /\ entry'[op.sender].seen > 0
        BY <3>1, <3>3, <3>5
      <4>2. ASSUME PaymasterOf[op] # None
            PROVE  entry'[PaymasterOf[op]] # None /\ entry'[PaymasterOf[op]].seen > 0
        <5>1. PaymasterOf[op] \in Addresses
          BY <1>6, <2>4, <4>2, OpIs
        <5>2. IsCounted(PaymasterOf[op])
          BY <1>2, <3>5, <4>2 DEF CountAt
        <5> QED
          BY <3>3, <5>1, <5>2 DEF IsCounted
      <4> QED
        BY <1>3, <4>1, <4>2 DEF IsCounted
    <3>6. CountAt(p)'
      BY <1>2, <1>3, <2>1, <2>4, <3>4, <3>5 DEF CountAt, PoolAt
    <3> QED
      BY <1>1, <1>2, <1>3, <2>1, <2>4, <3>6
         DEF CallAt, AboutAt, PoolAt, RepAt, ClearAt, AdmitAt, TraceAt, AboutOne,
             AboutOp, PCs, Staking
  <2> QED
    BY <1>2, <1>4, <2>1, <2>3, <2>4, GlobalJobIs DEF RepAt
<1>11. CASE Rep!StakeWhitelisted(p)
  BY <1>2, <1>11 DEF Rep!StakeWhitelisted
<1>12. CASE Rep!StakeFetch(p)
  <2>1. /\ rpc[p] = "whitelist" /\ rpc'[p] = "fetch" /\ job' = job /\ rout' = rout
        /\ coll' = coll /\ entry' = entry /\ lists' = lists
    BY <1>2, <1>12, RepGoes DEF Rep!StakeFetch, Rep!Database
  <2>2. flow[p] \in Staking
    BY <1>2, <2>1 DEF RepAt, Staking
  <2> QED
    BY <1>1, <1>2, <1>3, <2>1, <2>2
       DEF CallAt, AboutAt, PoolAt, RepAt, ClearAt, CountAt, AdmitAt, TraceAt,
           AboutOne, AboutOp, PCs, Records, Staking
<1>13. CASE Rep!DumpKeys(p) \/ Rep!DumpMany(p)
  <2>1. /\ rpc[p] \in {"dpKeys", "dpMany"} /\ lists' = lists
        /\ \/ rpc'[p] = "dpMany" /\ job' = job
           \/ rpc'[p] = "idle"
    BY <1>2, <1>13, RepGoes, RepReturns DEF Rep!DumpKeys, Rep!DumpMany, Rep!Database
  <2>2. flow[p] = "dumpRep" /\ pc[p] = "idle" /\ job[p] = GlobalJob("dump")
    BY <1>2, <2>1 DEF RepAt, PoolAt
  <2> QED
    BY <1>1, <1>2, <1>3, <2>1, <2>2
       DEF CallAt, AboutAt, PoolAt, RepAt, ClearAt, CountAt, AdmitAt, TraceAt,
           AboutOne, AboutOp, Staking
<1>14. CASE Rep!ClearKeys(p) \/ (\E b \in Addresses : Rep!ClearDel(p, b))
  <2>1. /\ rpc[p] \in {"clKeys", "clDel"} /\ lists' = lists
        /\ rpc'[p] = "clDel" /\ job' = job
    BY <1>2, <1>14, RepGoes DEF Rep!ClearKeys, Rep!ClearDel, Rep!Database
  <2>2. flow[p] = "clearReputation" /\ pc[p] = "idle" /\ job[p] = GlobalJob("clear")
    BY <1>2, <2>1 DEF RepAt, PoolAt
  <2> QED
    BY <1>1, <1>2, <1>3, <2>1, <2>2, SameStore
       DEF CallAt, AboutAt, PoolAt, RepAt, ClearAt, CountAt, AdmitAt, TraceAt,
           AboutOne, AboutOp, Staking
<1>15. CASE Rep!ClearDrop(p)
  <2>1. /\ rpc[p] = "clDel" /\ lists' = lists /\ rpc'[p] = "idle"
        /\ entry' = entry /\ copy[p] = Rep!NoAddresses
    BY <1>2, <1>15, RepReturns DEF Rep!ClearDrop
  <2>2. flow[p] = "clearReputation" /\ pc[p] = "idle"
    BY <1>2, <2>1 DEF RepAt, PoolAt
  <2>3. Rep!Saved = {}
    BY <1>2, <2>1 DEF Rep!SerialInv, Rep!Saved, Rep!NoAddresses
  <2>4. Rep!Saved' = {}
    BY <2>1, <2>3, SameEntry
  <2> QED
    BY <1>1, <1>2, <1>3, <2>1, <2>2, <2>4, SameStore
       DEF CallAt, AboutAt, PoolAt, RepAt, ClearAt, CountAt, AdmitAt, TraceAt,
           AboutOne, AboutOp, Staking
<1>16. CASE Rep!ListStep(p)
  BY <1>2, <1>16
     DEF RepAt, Rep!ListStep, Rep!ListGet, Rep!ListAnswer, Rep!ListPut, Rep!Goto,
         Rep!Return
<1> QED
  BY <1>8, <1>9, <1>10, <1>11, <1>12, <1>13, <1>14, <1>15, <1>16
     DEF Rep!Step, Rep!EntryStep, Rep!CollectionStep, Rep!FetchFound, Rep!FetchMissing,
         Rep!CollGet, Rep!CollPut, Rep!Goto

-----------------------------------------------------------------------------
(***************************************************************************)
(* Each call takes steps of the services and no others, so that they keep  *)
(* what they keep by themselves.                                           *)
(***************************************************************************)
\* The answer of the reputation service that the mempool waits for, as its own
\* steps are not.
StakeSettled(p) ==
    \/ Goto(p, "countMany", "fetchKeys", NoKeys) /\ UNCHANGED Database
    \/ Return(p, "countMany", "error") /\ UNCHANGED <<shown, Database>>

LEMMA PoolSteps ==
    ASSUME NEW p \in Proc, ExecutorInv, ApiCall(p) \/ ApiStep(p) \/ ServiceStep(p)
    PROVE  \/ UNCHANGED vars
           \/ Request(p) \/ Step(p) \/ WriteFails(p)
           \/ StakeSettled(p)
<1> USE DEF OnMempool, OnReputation, NoService
<1>1. CASE ApiCall(p)
  <2>1. ASSUME NEW op \in UserOps,
               Send(p, op) \/ ValidateUserOp(p, op) \/ Estimate(p, op) \/ Clean(p, op)
        PROVE  UNCHANGED vars \/ Request(p)
    BY <2>1, PoolAssumption DEF Send, ValidateUserOp, Estimate, Clean, Request
  <2>2. ASSUME \/ ClearState(p) \/ DumpMempool(p) \/ DumpReputation(p)
               \/ \E b \in Batches : SetReputation(p, b)
        PROVE  UNCHANGED vars \/ Request(p)
    BY <2>2, PoolAssumption
       DEF ClearState, DumpMempool, DumpReputation, SetReputation, Request
  <2> QED
    BY <1>1, <2>1, <2>2 DEF ApiCall
<1>2. CASE SendStep(p)
  <2>1. ASSUME Validated(p) PROVE Request(p)
    <3>1. about[p] \in UserOps
      BY <2>1, CallFacts DEF Validated, Resume, AboutAt, AboutOne
    <3> QED
      BY <2>1, <3>1, PoolAssumption DEF Validated, Request
  <2>2. ASSUME RoomLeft(p) \/ Counted(p) PROVE Step(p)
    BY <2>2 DEF RoomLeft, Counted, Step, AddStep
  <2>3. ASSUME StakeAllows(p) \/ StakeRefuses(p) PROVE StakeSettled(p)
    BY <2>3 DEF StakeAllows, StakeRefuses, StakeSettled
  <2>4. ASSUME Invalid(p) \/ NotAdded(p) \/ AskStake(p) \/ CountPaymaster(p)
               \/ CountSender(p) \/ Hash(p)
        PROVE  UNCHANGED vars
    BY <2>4 DEF Invalid, NotAdded, AskStake, CountPaymaster, CountSender, Hash
  <2>5. ASSUME NotCounted(p) PROVE WriteFails(p)
    BY <2>5 DEF NotCounted
  <2> QED
    BY <1>2, <2>1, <2>2, <2>3, <2>4, <2>5 DEF SendStep
<1>3. CASE ApiStep(p) /\ ~SendStep(p)
  BY <1>3
     DEF ApiStep, FeesAllow, FeesForbid, Simulated, EstimateGas, Estimated,
         ClearReputation, ClearEnds, SetNext, SetEnds, DumpEnds, CleanEnds,
         Validation, AskEntity, Judged, JudgedAgainst
<1>4. CASE ServiceStep(p)
  BY <1>4 DEF ServiceStep
<1> QED
  BY <1>1, <1>2, <1>3, <1>4

LEMMA ReputationSteps ==
    ASSUME NEW p \in Proc, ExecutorInv, ApiCall(p) \/ ApiStep(p) \/ ServiceStep(p)
    PROVE  \/ UNCHANGED reputationVars
           \/ \E j \in Jobs : Rep!Request(p, j)
           \/ Rep!Step(p) \/ Rep!WriteFails(p)
<1> USE DEF OnMempool, OnReputation, NoService
<1>1. CASE ApiCall(p)
  BY <1>1, GlobalJobIs
     DEF ApiCall, Send, ValidateUserOp, Estimate, Clean, ClearState, DumpMempool,
         DumpReputation, SetReputation
<1>2. CASE SendStep(p)
  <2>1. ASSUME AskStake(p) \/ CountPaymaster(p) \/ CountSender(p)
        PROVE  \E j \in Jobs : Rep!Request(p, j)
    <3>1. flow[p] \in {"add", "countPaymaster"}
      BY <2>1 DEF AskStake, CountPaymaster, CountSender, Resume
    <3>2. about[p] \in UserOps
      BY <3>1, CallFacts DEF AboutAt, AboutOne
    <3>3. /\ SeenJob(about[p].sender) \in Jobs /\ StakeJob(about[p].sender) \in Jobs
          /\ PaymasterOf[about[p]] # None => SeenJob(PaymasterOf[about[p]]) \in Jobs
      BY <3>2, OpIs, SeenJobIs, StakeJobIs
    <3> QED
      BY <2>1, <3>3 DEF AskStake, CountPaymaster, CountSender
  <2>2. ASSUME \/ Validated(p) \/ RoomLeft(p) \/ Counted(p) \/ StakeAllows(p)
               \/ StakeRefuses(p) \/ Invalid(p) \/ NotAdded(p) \/ Hash(p)
               \/ NotCounted(p)
        PROVE  UNCHANGED reputationVars
    BY <2>2 DEF Validated, RoomLeft, Counted, StakeAllows, StakeRefuses, Invalid,
       NotAdded, Hash, NotCounted
  <2> QED
    BY <1>2, <2>1, <2>2 DEF SendStep
<1>3. CASE ApiStep(p) /\ ~SendStep(p)
  <2>1. ASSUME SetNext(p) PROVE \E j \in Jobs : Rep!Request(p, j)
    <3>1. Head(about[p]) \in SetJobs
      BY <2>1, CallFacts DEF SetNext, AboutAt
    <3> QED
      BY <2>1, <3>1, SetJobIs DEF SetNext
  <2>2. ASSUME NEW a \in Addresses, AskEntity(p, a)
        PROVE  \E j \in Jobs : Rep!Request(p, j)
    BY <2>2, StakeJobIs DEF AskEntity
  <2> QED
    BY <1>3, <2>1, <2>2, GlobalJobIs
       DEF ApiStep, FeesAllow, FeesForbid, Simulated, EstimateGas, Estimated,
           ClearReputation, ClearEnds, SetEnds, DumpEnds, CleanEnds,
           Validation, Judged, JudgedAgainst
<1>4. CASE ServiceStep(p)
  BY <1>4 DEF ServiceStep
<1> QED
  BY <1>1, <1>2, <1>3, <1>4

\* The mempool's part of the invariant.
LEMMA PoolKeeps ==
    ASSUME OneCall, ExecutorInv, [ExecutorNext]_executorVars
    PROVE  TypeOK' /\ SerialInv'
<1>1. TypeOK /\ SerialInv
  BY DEF ExecutorInv
<1>2. CASE UNCHANGED executorVars
  BY <1>1, <1>2, TypeStep, SerialStep, PoolAtATime DEF executorVars
<1>3. ASSUME NEW p \in Proc, ApiCall(p) \/ ApiStep(p) \/ ServiceStep(p)
      PROVE  TypeOK' /\ SerialInv'
  <2>1. CASE \/ UNCHANGED vars
             \/ Request(p) \/ Step(p) \/ WriteFails(p)
    <3>1. [Next]_vars
      BY <2>1 DEF Next
    <3> QED
      BY <1>1, <3>1, TypeStep, SerialStep, PoolAtATime
  <2>2. CASE Goto(p, "countMany", "fetchKeys", NoKeys) /\ UNCHANGED Database
    <3>1. TypeOK'
      BY <1>1, <2>2, ReadTypes DEF TypeOK, Goto, Database, PCs, AboutOp
    <3>2. SerialInv'
      BY <1>1, <2>2 DEF SerialInv, NoOrphan, Stored, OneCall, Goto, Database, TypeOK
    <3> QED
      BY <3>1, <3>2
  <2>3. CASE Return(p, "countMany", "error") /\ UNCHANGED <<shown, Database>>
    <3>1. TypeOK'
      BY <1>1, <2>3, ReadTypes
         DEF TypeOK, Return, Database, PCs, AboutOp, Answers
    <3>2. SerialInv'
      BY <1>1, <2>3 DEF SerialInv, NoOrphan, Stored, OneCall, Return, Database, TypeOK
    <3> QED
      BY <3>1, <3>2
  <2> QED
    BY <1>3, <2>1, <2>2, <2>3, PoolSteps DEF StakeSettled
<1>4. CASE Restart
  <2>1. [Next]_vars
    BY <1>4 DEF Restart, Next
  <2> QED
    BY <1>1, <2>1, TypeStep, SerialStep, PoolAtATime
<1> QED
  BY <1>2, <1>3, <1>4 DEF ExecutorNext

LEMMA LedgerKeeps ==
    ASSUME OneCall, ExecutorInv, [ExecutorNext]_executorVars
    PROVE  Rep!TypeOK' /\ Rep!SerialInv'
<1>1. Rep!TypeOK /\ Rep!SerialInv
  BY DEF ExecutorInv
<1>2. \/ \E p \in Proc, j \in Jobs : Rep!Request(p, j)
      \/ \E p \in Proc : Rep!Step(p) \/ Rep!WriteFails(p)
      \/ Rep!Crash
      \/ UNCHANGED reputationVars
  <2>1. CASE UNCHANGED executorVars
    BY <2>1 DEF executorVars
  <2>2. ASSUME NEW p \in Proc, ApiCall(p) \/ ApiStep(p) \/ ServiceStep(p)
        PROVE  \/ UNCHANGED reputationVars
               \/ \E j \in Jobs : Rep!Request(p, j)
               \/ Rep!Step(p) \/ Rep!WriteFails(p)
    BY <2>2, ReputationSteps
  <2>3. CASE Restart
    BY <2>3 DEF Restart
  <2> QED
    BY <2>1, <2>2, <2>3 DEF ExecutorNext
<1> QED
  BY <1>1, <1>2, ReputationKeeps

-----------------------------------------------------------------------------
\* The process is started again: no call is left.
LEMMA RestartHolds ==
    ASSUME ExecutorInv, Restart
    PROVE  CallTypes' /\ \A p \in Proc : CallAt(p)'
<1>1. CallTypes'
  BY DEF Restart, CallTypes, Flows, Replies
<1>2. ASSUME NEW p \in Proc PROVE CallAt(p)'
  <2>1. lists["WL"] = {}
    BY CallFacts
  <2>2. flow'[p] = "idle" /\ pc'[p] = "idle" /\ rpc'[p] = "idle" /\ lists' = lists
    BY DEF Restart, Crash, Rep!Crash, Rep!Database, vars, reputationVars
  <2> QED
    BY <2>1, <2>2, OverHolds
<1> QED
  BY <1>1, <1>2

LEMMA StepKeeps == OneCall /\ ExecutorInv /\ [ExecutorNext]_executorVars => ExecutorInv'
<1> SUFFICES ASSUME OneCall, ExecutorInv, [ExecutorNext]_executorVars
             PROVE  ExecutorInv'
  OBVIOUS
<1>1. TypeOK' /\ SerialInv' /\ Rep!TypeOK' /\ Rep!SerialInv'
  BY PoolKeeps, LedgerKeeps
<1>2. CallTypes' /\ \A p \in Proc : CallAt(p)'
  <2>1. CASE UNCHANGED executorVars
    <3>1. CallTypes'
      BY <2>1, CallFacts DEF executorVars, calls, CallTypes, ExecutorInv
    <3>2. ASSUME NEW p \in Proc PROVE CallAt(p)'
      <4>1. CallAt(p)
        BY DEF ExecutorInv
      <4>2. /\ UNCHANGED <<index, store, pc, arg, keys, out, shown>>
            /\ UNCHANGED <<coll, entry, lists, rpc, job, held, copy, listed, rout>>
            /\ UNCHANGED <<flow, about, reply, before>>
        BY <2>1 DEF executorVars, vars, reputationVars, calls
      <4> QED
        BY <4>1, <4>2, SameStore, SameEntry
           DEF CallAt, AboutAt, PoolAt, RepAt, ClearAt, CountAt, AdmitAt, TraceAt,
               PoolSound, SoundBut, Records
    <3> QED
      BY <3>1, <3>2
  <2>2. ASSUME NEW p \in Proc, ApiCall(p) \/ ApiStep(p) \/ ServiceStep(p)
        PROVE  CallTypes' /\ \A q \in Proc : CallAt(q)'
    <3>1. CallTypes' /\ CallAt(p)'
      BY <2>2, CallArrives, SendGoesOn, OtherGoesOn, PoolGoesOn, ReputationGoesOn
         DEF ServiceStep, OnMempool, OnReputation
    <3>2. \A q \in Proc : q = p
      BY DEF OneCall
    <3> QED
      BY <3>1, <3>2
  <2>3. CASE Restart
    BY <2>3, RestartHolds
  <2> QED
    BY <2>1, <2>2, <2>3 DEF ExecutorNext
<1> QED
  BY <1>1, <1>2 DEF ExecutorInv

LEMMA InitHolds == ExecutorInit => ExecutorInv
<1> SUFFICES ASSUME ExecutorInit PROVE ExecutorInv
  OBVIOUS
<1>1. TypeOK /\ SerialInv
  BY DEF ExecutorInit, Init, TypeOK, SerialInv, NoOrphan, Stored, NoKeys, PCs,
     Answers, AboutOp
<1>2. Rep!TypeOK /\ Rep!SerialInv
  BY DEF ExecutorInit, Rep!Init, Rep!TypeOK, Rep!SerialInv, Rep!EntriesListed,
     Rep!Saved, Rep!NoAddresses, Rep!PCs, Rep!Answers, Rep!Lists
<1>3. CallTypes
  BY DEF ExecutorInit, CallTypes, Flows, Replies
<1>4. ASSUME NEW p \in Proc PROVE CallAt(p)
  BY DEF ExecutorInit, Init, Rep!Init, Rep!Lists, CallAt, AboutAt, PoolAt, RepAt,
     ClearAt, CountAt, AdmitAt, TraceAt, AboutOne, AboutOp
<1> QED
  BY <1>1, <1>2, <1>3, <1>4 DEF ExecutorInv

\* What is known of the calls and of both services holds throughout: so do
\* what the services keep when they are asked one request at a time.
LEMMA InvHolds == ASSUME OneCall PROVE ExecutorSpec => []ExecutorInv
<1>1. ExecutorInv /\ [ExecutorNext]_executorVars => ExecutorInv'
  BY StepKeeps
<1> QED
  BY <1>1, InitHolds, PTL DEF ExecutorSpec

-----------------------------------------------------------------------------
(***************************************************************************)
(* What the calls promise.                                                 *)
(***************************************************************************)
\* In both services every entry is reachable through its collection, whatever
\* breaks off the calls that write to both (MempoolService.ts:73-77, 87-89;
\* ReputationService.ts:36, 56): clearState and the dumps of the Debug module
\* reach all of them.
THEOREM CallsReachEntries ==
    ASSUME OneCall PROVE ExecutorSpec => [](NoOrphan /\ Rep!EntriesListed)
<1>1. ExecutorInv => NoOrphan /\ Rep!EntriesListed
  BY DEF ExecutorInv, SerialInv, Rep!SerialInv
<1> QED
  BY <1>1, InvHolds, PTL

\* ClearInOrder for one call at a time: clearState comes to the reputations
\* with an empty mempool only, wherever a write fails or the process stops
\* (debug.ts:29-33).
THEOREM CallsClearInOrder == ASSUME OneCall PROVE ExecutorSpec => []ClearInOrder
<1>1. ExecutorInv => ClearInOrder
  BY DEF ExecutorInv, CallAt, ClearAt, ClearInOrder
<1> QED
  BY <1>1, InvHolds, PTL

\* The steps that end a call.
LEMMA EndsBy ==
    ASSUME OneCall, ExecutorInv, [ExecutorNext]_executorVars, NEW p \in Proc,
           flow[p] # "idle", flow'[p] = "idle"
    PROVE  \/ reply'[p] \in {"none", "error", "ok"}
           \/ Invalid(p) \/ NotAdded(p) \/ StakeRefuses(p) \/ Hash(p)
           \/ JudgedAgainst(p)
           \/ FeesForbid(p) \/ Simulated(p) \/ Estimated(p)
           \/ ClearEnds(p) \/ DumpEnds(p) \/ CleanEnds(p)
<1>1. TypeOK /\ Rep!TypeOK /\ CallTypes
  BY DEF ExecutorInv
<1>2. ~ UNCHANGED flow
  OBVIOUS
<1>3. ASSUME Restart PROVE reply'[p] = "none"
  BY <1>3 DEF Restart
<1>4. ASSUME NEW q \in Proc, ApiCall(q) PROVE FALSE
  <2>1. q = p
    BY DEF OneCall
  <2> QED
    BY <1>4, <2>1
       DEF ApiCall, Send, ValidateUserOp, Estimate, Clean, ClearState, DumpMempool,
           DumpReputation, SetReputation, Arrive
<1>5. \A q \in Proc : ~ ServiceStep(q)
  BY <1>2 DEF ServiceStep, calls
<1>6. ASSUME NEW from, NEW to \in Flows \ {"idle"}, Resume(p, from, to) PROVE FALSE
  BY <1>1, <1>6 DEF Resume, CallTypes
<1>7. ASSUME NEW from, Answer(p, from, "error") \/ Answer(p, from, "ok")
      PROVE  reply'[p] \in {"error", "ok"}
  BY <1>1, <1>7 DEF Answer, CallTypes
<1>8. CASE SendStep(p)
  <2>1. ~ Validated(p) /\ ~ AskStake(p) /\ ~ StakeAllows(p) /\ ~ CountPaymaster(p)
        /\ ~ CountSender(p) /\ ~ Counted(p)
    BY <1>6 DEF Validated, AskStake, StakeAllows, CountPaymaster, CountSender,
       Counted, Flows, AboutOne
  <2>2. ~ RoomLeft(p)
    BY <1>2 DEF RoomLeft, calls
  <2>3. NotCounted(p) => reply'[p] \in {"error", "ok"}
    BY <1>7 DEF NotCounted
  <2> QED
    BY <1>8, <2>1, <2>2, <2>3 DEF SendStep
<1>9. CASE ApiStep(p) /\ ~ SendStep(p)
  <2>1. ~ FeesAllow(p) /\ ~ EstimateGas(p) /\ ~ ClearReputation(p)
    BY <1>6 DEF FeesAllow, EstimateGas, ClearReputation, Flows, AboutOne
  <2>2. ~ SetNext(p)
    BY <1>1 DEF SetNext, CallTypes
  <2>3. SetEnds(p) => reply'[p] \in {"error", "ok"}
    BY <1>6, <1>7 DEF SetEnds, Flows
  <2>4. ~ Judged(p) /\ \A a \in Addresses : ~ AskEntity(p, a)
    BY <1>6 DEF Judged, AskEntity, Judging, Flows, AboutOne
  <2> QED
    BY <1>9, <2>1, <2>2, <2>3, <2>4 DEF ApiStep, Validation
<1>10. (\E q \in Proc : ApiStep(q)) => ApiStep(p)
  BY DEF OneCall
<1>11. ExecutorNext
  BY <1>2 DEF executorVars, calls
<1> QED
  BY <1>3, <1>4, <1>5, <1>8, <1>9, <1>10, <1>11 DEF ExecutorNext

\* AnswersHold for one call at a time: whose hash is returned is pooled and
\* listed, and its paymaster and its sender are counted; when clearState says
\* so, nothing is left in either service (eth.ts:58-75, debug.ts:29-33).
THEOREM CallsAnswerTruly == ASSUME OneCall PROVE ExecutorSpec => AnswersHold
<1> DEFINE Holds(p) ==
      flow[p] # "idle" /\ flow'[p] = "idle" =>
          /\ reply'[p] = "hash" =>
                /\ store'[KeyOf(about[p])] = about[p]
                /\ index'[KeyOf(about[p])] > 0
                /\ \A a \in {about[p].sender, PaymasterOf[about[p]]} \ {None} :
                      entry'[a] # None /\ entry'[a].seen > 0
          /\ reply'[p] = "cleared" =>
                Stored' = {} /\ \A a \in Addresses : entry'[a] = None
<1>1. ExecutorInv /\ [ExecutorNext]_executorVars => \A p \in Proc : Holds(p)
  <2> SUFFICES ASSUME ExecutorInv, [ExecutorNext]_executorVars, NEW p \in Proc,
                      flow[p] # "idle", flow'[p] = "idle",
                      reply'[p] \in {"hash", "cleared"}
               PROVE  Holds(p)
    BY Zenon
  <2>1. /\ TypeOK /\ SerialInv /\ CallTypes /\ AboutAt(p) /\ ClearAt(p) /\ CountAt(p)
    BY CallFacts
  <2>2. Hash(p) \/ ClearEnds(p)
    <3>1. ASSUME NEW from, NEW answer \in Replies, Answer(p, from, answer)
          PROVE  answer \in {"hash", "cleared"}
      BY <3>1, AnswersCall, <2>1
    <3> QED
      BY <3>1, EndsBy
         DEF Invalid, NotAdded, StakeRefuses, FeesForbid, Simulated, Estimated,
             JudgedAgainst, Judging, DumpEnds, CleanEnds, PoolSays, RepSays, Replies
  <2>3. CASE Hash(p)
    <3>1. /\ flow[p] = "hash" /\ reply'[p] # "cleared"
          /\ index' = index /\ store' = store /\ entry' = entry
      BY <2>1, <2>3, AnswersCall, NothingAsked DEF Hash, Replies
    <3>2. /\ about[p] \in UserOps /\ KeyOf(about[p]) \in Keys
          /\ about[p] # None /\ store[KeyOf(about[p])] = about[p]
          /\ IsCounted(about[p].sender)
          /\ PaymasterOf[about[p]] # None => IsCounted(PaymasterOf[about[p]])
      BY <2>1, <3>1, OpIs DEF AboutAt, AboutOne, CountAt
    <3>3. index[KeyOf(about[p])] > 0
      BY <2>1, <3>2 DEF SerialInv, NoOrphan, Stored
    <3> QED
      BY <3>1, <3>2, <3>3 DEF IsCounted
  <2>4. CASE ClearEnds(p)
    <3>1. /\ index' = index /\ store' = store /\ entry' = entry
          /\ \/ Answer(p, "clearPool", "error")
             \/ rpc[p] = "idle" /\ Answer(p, "clearReputation", rout[p])
                  /\ rout[p] \in {"cleared", "error"}
      BY <2>4, NothingAsked DEF ClearEnds, RepSays
    <3>2. flow[p] = "clearReputation" /\ rpc[p] = "idle" /\ rout[p] = "cleared"
          /\ reply'[p] = "cleared"
      BY <2>1, <3>1, AnswersCall DEF Replies
    <3>3. Stored = {} /\ Rep!Saved = {}
      BY <2>1, <3>2 DEF ClearAt
    <3>4. Stored' = {} /\ Rep!Saved' = {}
      BY <3>1, <3>3, SameStore, SameEntry
    <3> QED
      BY <3>2, <3>4 DEF Rep!Saved
  <2> QED
    BY <2>2, <2>3, <2>4
<1> QED
  BY <1>1, InvHolds, PTL DEF ExecutorSpec, AnswersHold

\* RefusedOnlyLists for one call at a time: what is refused, or only asked
\* about, finds the pool and the reputations as it left them, and the collection
\* but for its own entities without entry (eth.ts:40-95, MempoolService.ts:46-80,
\* UserOpValidation.ts:190-245, ReputationService.ts:31-37).
THEOREM CallsOnlyList == ASSUME OneCall PROVE ExecutorSpec => RefusedOnlyLists
<1> DEFINE Refused == {"invalid", "feeTooLow", "senderFull", "valid"}
           Estimates == {"estimated", "reverted"}
           Holds(p) ==
              flow[p] # "idle" /\ flow'[p] = "idle" =>
              /\ reply'[p] \in Refused => OnlyLists(before[p], Records', about[p])
              /\ reply'[p] \in Estimates => Records' = before[p]
<1>1. ExecutorInv /\ [ExecutorNext]_executorVars => \A p \in Proc : Holds(p)
  <2> SUFFICES ASSUME ExecutorInv, [ExecutorNext]_executorVars, NEW p \in Proc,
                      flow[p] # "idle", flow'[p] = "idle",
                      reply'[p] \in Refused \cup Estimates
               PROVE  Holds(p)
    OBVIOUS
  <2>1. TypeOK /\ Rep!TypeOK /\ CallTypes /\ TraceAt(p)
    BY CallFacts
  <2>2. \/ Invalid(p) \/ NotAdded(p) \/ StakeRefuses(p) \/ JudgedAgainst(p)
        \/ FeesForbid(p) \/ Simulated(p) \/ Estimated(p)
    <3>1. ASSUME NEW from, NEW answer \in Replies, Answer(p, from, answer)
          PROVE  answer \in Refused \cup Estimates
      BY <3>1, AnswersCall, <2>1
    <3> QED
      BY <3>1, EndsBy
         DEF Hash, ClearEnds, DumpEnds, CleanEnds, PoolSays, RepSays, Replies
  <2>3. Records' = Records
    BY <2>2, NothingAsked
       DEF Invalid, NotAdded, StakeRefuses, JudgedAgainst, FeesForbid, Simulated,
           Estimated, OnMempool, Database, reputationVars, Records
  <2>4. ASSUME ~ Estimated(p), ~ FeesForbid(p)
        PROVE  Noted(before[p], Records, about[p]) /\ reply'[p] \notin Estimates
    <3>1. CASE NotAdded(p)
      <4>1. /\ flow[p] = "add" /\ reply'[p] = out[p] /\ pc[p] = "idle"
        BY <2>1, <3>1, AnswersCall DEF NotAdded, PoolSays, Replies
      <4>2. out[p] \in {"feeTooLow", "senderFull"}
        BY <3>1, <4>1 DEF NotAdded, PoolSays
      <4> QED
        BY <2>1, <4>1, <4>2 DEF TraceAt
    <3>2. CASE ~ NotAdded(p)
      <4>1. PICK from \in {"validate", "validateOnly"} \cup Staking,
                 answer \in {"valid", "invalid", "senderFull", "error"} :
               Answer(p, from, answer)
        BY <2>2, <2>4, <3>2
           DEF Invalid, StakeRefuses, JudgedAgainst, Judging, Simulated, Staking
      <4>2. flow[p] = from /\ reply'[p] = answer
        BY <2>1, <4>1, AnswersCall DEF Replies
      <4> QED
        BY <2>1, <4>2 DEF TraceAt, Staking
    <3> QED
      BY <3>1, <3>2
  <2>5. ASSUME Estimated(p) \/ FeesForbid(p)
        PROVE  Noted(before[p], Records, about[p]) /\ Records = before[p]
    <3>1. flow[p] \in {"fees", "simulate", "estimateGas"}
      BY <2>5 DEF Estimated, FeesForbid, Answer
    <3>2. Records = before[p]
      BY <2>1, <3>1 DEF TraceAt
    <3> QED
      BY <2>1, <3>2, FindsRecords
  <2> QED
    BY <2>3, <2>4, <2>5 DEF Noted
<1> QED
  BY <1>1, InvHolds, PTL DEF ExecutorSpec, RefusedOnlyLists

\* BannedSenderLimited for one call at a time: the answer of checkStake still
\* holds when the operation is saved, for senders any number of whose
\* operations are pooled (MempoolService.ts:66-77, 185-187).
THEOREM CallsLimitTheBanned == ASSUME OneCall PROVE ExecutorSpec => BannedSenderLimited
<1> DEFINE Holds(k) ==
      /\ entry[k[1]] # None /\ Rep!IsBanned(entry[k[1]])
      /\ PoolSound'
      => Cardinality(PooledOf(k[1])') <= MaxPerSender
<1>1. ExecutorInv /\ [ExecutorNext]_executorVars
         => \A k \in Stored' \ Stored : Holds(k)
  <2> SUFFICES ASSUME ExecutorInv, [ExecutorNext]_executorVars,
                      NEW k \in Stored', k \notin Stored,
                      entry[k[1]] # None, Rep!IsBanned(entry[k[1]]), PoolSound'
               PROVE  Cardinality(PooledOf(k[1])') <= MaxPerSender
    OBVIOUS
  <2>1. TypeOK /\ SerialInv
    BY DEF ExecutorInv
  <2>2. k \in Keys /\ store[k] = None /\ store'[k] # None
    BY DEF Stored
  <2>3. PICK p \in Proc : Step(p) /\ pc[p] \notin {"countMany", "seen"}
    <3>1. ~ UNCHANGED store
      BY <2>2
    <3>2. ~ Restart /\ ExecutorNext
      BY <3>1 DEF Restart, Crash, Database, vars, executorVars
    <3>3. PICK p \in Proc : ApiCall(p) \/ ApiStep(p) \/ ServiceStep(p)
      BY <3>2 DEF ExecutorNext
    <3>4. Request(p) => UNCHANGED store
      BY DEF Request, BeginAdd, BeginRemove, BeginClear, BeginDump, BeginCheck, Begin,
         Database
    <3>5. Step(p)
      BY <3>1, <3>3, <3>4, PoolSteps DEF StakeSettled, WriteFails, Database, vars
    <3>6. pc[p] \notin {"countMany", "seen"}
      BY <3>1, <3>5
         DEF Step, AddStep, FindReplace, FindTooLow, FindNew, Replace, CountKeys,
             CountAdmits, CountRefuses, FetchAndPush, PutIndex, PutEntry, UpdateSeen,
             RemoveStep, RemoveKeys, RemoveDel, RemovePut, ClearStep, ClearKeys,
             ClearDel, ClearDrop, ReadStep, DumpKeys, DumpMany, CheckFind, Goto,
             Return, Database
    <3> QED
      BY <3>5, <3>6
  <2>4. pc[p] # "idle"
    BY <2>3
       DEF Step, AddStep, FindReplace, FindTooLow, FindNew, Replace, CountKeys,
           CountAdmits, CountRefuses, FetchAndPush, PutIndex, PutEntry, UpdateSeen,
           RemoveStep, RemoveKeys, RemoveDel, RemovePut, ClearStep, ClearKeys,
           ClearDel, ClearDrop, ReadStep, DumpKeys, DumpMany, CheckFind, Goto, Return
  <2> DEFINE op == about[p]
  <2>5. pc[p] \in AboutOp => arg[p] = op /\ op \in UserOps /\ KeyOf(op) \in Keys
    BY <2>3, <2>4, CallOfPlace
  <2>6. PutEntry(p)
    <3>1. ~ Replace(p)
      BY <2>1, <2>2, <2>5 DEF Replace, Goto, SerialInv, TypeOK, AboutOp, PCs
    <3>2. ~ RemoveDel(p) /\ \A j \in Keys : ~ ClearDel(p, j)
      BY <2>1, <2>2 DEF RemoveDel, ClearDel, TypeOK
    <3> QED
      BY <2>2, <2>3, <3>1, <3>2
         DEF Step, AddStep, FindReplace, FindTooLow, FindNew, CountKeys,
             CountAdmits, CountRefuses, FetchAndPush, PutIndex, UpdateSeen,
             RemoveStep, RemoveKeys, RemovePut, ClearStep, ClearKeys,
             ClearDrop, ReadStep, DumpKeys, DumpMany, CheckFind, Database
  <2>7. /\ pc[p] = "putEntry" /\ index' = index
        /\ store' = [store EXCEPT ![KeyOf(op)] = op]
        /\ arg[p] = op /\ op \in UserOps /\ op # None
    BY <2>5, <2>6, OpIs DEF PutEntry, Goto, AboutOp, PCs
  <2>8. k = KeyOf(op) /\ k[1] = op.sender
    BY <2>1, <2>2, <2>7, OpIs DEF TypeOK
  <2>9. SoundBut(k)
    <3> SUFFICES ASSUME NEW j \in Keys
                 PROVE  index[j] = IF j = k \/ store[j] # None THEN 1 ELSE 0
      BY DEF SoundBut
    <3>1. index'[j] = IF store'[j] = None THEN 0 ELSE 1
      BY DEF PoolSound
    <3>2. store'[j] = IF j = k THEN op ELSE store[j]
      BY <2>1, <2>7, <2>8 DEF TypeOK
    <3> QED
      BY <2>7, <3>1, <3>2
  <2>10. HasRoom(op.sender)
    <3>1. AdmitAt(p)
      BY CallFacts
    <3> QED
      BY <2>7, <2>8, <2>9, <3>1 DEF AdmitAt, BannedNow
  <2>11. PooledOf(k[1])' = PooledOf(k[1]) \cup {k}
    <3>1. \A j \in Keys : store'[j] # None <=> j = k \/ store[j] # None
      BY <2>1, <2>7, <2>8 DEF TypeOK
    <3> QED
      BY <2>2, <3>1 DEF PooledOf, Stored
  <2>12. k \notin PooledOf(k[1])
    BY DEF PooledOf
  <2>13. IsFiniteSet(PooledOf(k[1]))
    <3>1. PooledOf(k[1]) \subseteq Keys
      BY DEF PooledOf, Stored
    <3> QED
      BY <3>1, FS_Subset, UserOpsAssumption
  <2>14. /\ Cardinality(PooledOf(k[1]) \cup {k}) = Cardinality(PooledOf(k[1])) + 1
         /\ Cardinality(PooledOf(k[1])) \in Nat
    BY <2>12, <2>13, FS_AddElement, FS_CardinalityType
  <2> QED
    BY <2>8, <2>10, <2>11, <2>14, LimitsAssumption DEF HasRoom
<1> QED
  BY <1>1, InvHolds, PTL DEF ExecutorSpec, BannedSenderLimited

-----------------------------------------------------------------------------
(***************************************************************************)
(* The receipts of a bundle share out the logs of its transaction, however *)
(* many operations and logs there are, and what the lookups by hash answer *)
(* is true of every chain.                                                 *)
(***************************************************************************)
\* A set of numbers up to n has a greatest member: the distances to n have a
\* least one.
LEMMA GreatestExists ==
    ASSUME NEW n \in Nat, NEW S \in SUBSET (0 .. n), S # {}
    PROVE  \E m \in S : \A k \in S : k <= m
<1> DEFINE T == {n - k : k \in S}
<1>1. T \subseteq Nat /\ T # {}
  <2>1. PICK k \in S : TRUE
    OBVIOUS
  <2>2. n - k \in T
    BY <2>1
  <2>3. \A i \in S : n - i \in Nat
    OBVIOUS
  <2> QED
    BY <2>2, <2>3
<1>2. PICK d \in T : \A e \in T : <<e, d>> \notin OpToRel(<, Nat)
  <2> HIDE DEF T
  <2> QED
    BY <1>1, NatLessThanWellFounded, WFMin
<1>3. \A e \in T : ~ (e < d)
  <2> HIDE DEF T
  <2> QED
    BY <1>1, <1>2 DEF OpToRel
<1>4. PICK m \in S : d = n - m
  OBVIOUS
<1>5. \A k \in S : k <= m
  <2> SUFFICES ASSUME NEW k \in S PROVE k <= m
    OBVIOUS
  <2>1. n - k \in T
    OBVIOUS
  <2> QED
    BY <2>1, <1>3, <1>4
<1> QED
  BY <1>5

\* An operation with an event has one, and that is where its logs end.
LEMMA OneEnd ==
    ASSUME NEW logs \in Logs, OneEventEach(logs), NEW h \in Hashes,
           EventsOf(h, logs) # {}
    PROVE  /\ EndIndex(h, logs) \in DOMAIN logs
           /\ \A i \in DOMAIN logs : logs[i] = h <=> i = EndIndex(h, logs)
<1>1. PICK e \in DOMAIN logs : logs[e] = h
  BY DEF EventsOf
<1>2. \A i \in DOMAIN logs : logs[i] = h <=> i = e
  BY <1>1, LookupAssumption DEF OneEventEach
<1>3. EventsOf(h, logs) = {e}
  BY <1>1, <1>2 DEF EventsOf
<1>4. e \in Nat
  BY <1>1 DEF Logs
<1>5. EndIndex(h, logs) = e
  BY <1>3, <1>4 DEF EndIndex
<1> QED
  BY <1>1, <1>2, <1>5

\* They begin after the last event of another operation before, if any.
LEMMA StartAfterOthers ==
    ASSUME NEW logs \in Logs, NEW h \in Hashes
    PROVE  /\ StartIndex(h, logs) \in EventsBefore(h, logs) \cup {0}
           /\ \A j \in EventsBefore(h, logs) : j <= StartIndex(h, logs)
<1> DEFINE B == EventsBefore(h, logs)
<1>1. Len(logs) \in Nat /\ DOMAIN logs = 1 .. Len(logs)
  BY DEF Logs
<1>2. B \cup {0} \in SUBSET (0 .. Len(logs))
  BY <1>1 DEF EventsBefore
<1>3. PICK m \in B \cup {0} : \A k \in B \cup {0} : k <= m
  <2> HIDE DEF B
  <2> QED
    BY <1>1, <1>2, GreatestExists
<1> QED
  BY <1>3 DEF StartIndex

-----------------------------------------------------------------------------
\* SharesOut of every transaction in which an operation has one event: each
\* log that is no event goes to the operation of the next event, and to no
\* other (filterLogs, eth.ts:236-254).
THEOREM AllShareOut ==
    \A logs \in Logs : OneEventEach(logs) => SharesOut(logs)
<1> SUFFICES ASSUME NEW logs \in Logs, OneEventEach(logs),
                    NEW h \in Hashes, EventsOf(h, logs) # {}
             PROVE  filterLogs(h, logs)
                        = {i \in DOMAIN logs : ClosedBy(i, h, logs)}
  BY DEF SharesOut
<1> DEFINE e == EndIndex(h, logs)
           s == StartIndex(h, logs)
           B == EventsBefore(h, logs)
<1>1. Len(logs) \in Nat /\ DOMAIN logs = 1 .. Len(logs)
      /\ \A i \in DOMAIN logs : logs[i] \in Hashes \cup {Other}
  BY DEF Logs
<1>2. e \in DOMAIN logs /\ \A i \in DOMAIN logs : logs[i] = h <=> i = e
  BY OneEnd
<1>3. B = {i \in DOMAIN logs : logs[i] \in Hashes \ {h} /\ i < e}
  BY <1>2 DEF EventsBefore, EventsOf
<1>4. s \in B \cup {0} /\ \A j \in B : j <= s
  BY StartAfterOthers
<1> HIDE DEF e, s, B
<1>5. e \in Nat /\ s \in Nat
  BY <1>1, <1>2, <1>3, <1>4
<1>6. ASSUME NEW i \in s + 1 .. e - 1
      PROVE  i \in DOMAIN logs /\ ClosedBy(i, h, logs)
  <2>1. i \in Nat /\ i < e /\ s < i /\ i \in DOMAIN logs
    BY <1>1, <1>2, <1>5, <1>6
  <2>2. ASSUME NEW k \in i .. e - 1 PROVE logs[k] = Other
    <3>1. k \in DOMAIN logs /\ k < e /\ s < k
      BY <1>1, <1>2, <1>5, <2>1, <2>2
    <3>2. k \notin B
      BY <1>4, <1>5, <3>1
    <3> QED
      BY <1>1, <1>2, <1>3, <3>1, <3>2
  <2> QED
    BY <1>2, <2>1, <2>2 DEF ClosedBy
<1>7. ASSUME NEW i \in DOMAIN logs, ClosedBy(i, h, logs)
      PROVE  i \in s + 1 .. e - 1
  <2>1. i \in Nat \ {0} /\ i < e /\ \A k \in i .. e - 1 : logs[k] = Other
    BY <1>1, <1>2, <1>7 DEF ClosedBy
  <2>2. ~ (i <= s)
    <3> SUFFICES ASSUME i <= s PROVE FALSE
      OBVIOUS
    <3>1. s \in B
      BY <1>4, <1>5, <2>1
    <3>2. s < e /\ logs[s] \in Hashes
      BY <1>3, <3>1
    <3>3. s \in i .. e - 1
      BY <1>5, <2>1, <3>2
    <3> QED
      BY <2>1, <3>2, <3>3, LookupAssumption
  <2> QED
    BY <1>5, <2>1, <2>2
<1> QED
  BY <1>6, <1>7 DEF filterLogs, e, s
-----------------------------------------------------------------------------
LEMMA LeastExists ==
    ASSUME NEW S \in SUBSET Nat, S # {}
    PROVE  Min(S) \in S
<1>1. PICK m \in S : \A k \in S : <<k, m>> \notin OpToRel(<, Nat)
  BY NatLessThanWellFounded, WFMin
<1>2. \A k \in S : m <= k
  <2> SUFFICES ASSUME NEW k \in S PROVE m <= k
    OBVIOUS
  <2>1. ~ (k < m)
    BY <1>1 DEF OpToRel
  <2> QED
    BY <2>1
<1> QED
  BY <1>1, <1>2 DEF Min

\* The search over the entry points ends at one of them that fails or has the
\* event, or there is none.
LEMMA SearchEnds ==
    ASSUME NEW h \in Hashes, NEW chain, NEW failing,
           NEW i, i = getUserOperationEvent(h, chain, failing)
    PROVE  /\ i # 0 => EntryPoints[i] \in failing
                         \/ Emitted(h, chain, EntryPoints[i]) # {}
           /\ i = 0 => \A ep \in ToSet(EntryPoints) : Emitted(h, chain, ep) = {}
<1> DEFINE I == {j \in 1 .. Len(EntryPoints) :
                    EntryPoints[j] \in failing
                        \/ Emitted(h, chain, EntryPoints[j]) # {}}
<1>1. Len(EntryPoints) \in Nat
      /\ ToSet(EntryPoints) = {EntryPoints[j] : j \in 1 .. Len(EntryPoints)}
  BY LookupAssumption DEF ToSet
<1>2. i = IF I # {} THEN Min(I) ELSE 0
  BY DEF getUserOperationEvent, SelectInSeq
<1>3. I \in SUBSET Nat /\ 0 \notin I
  BY <1>1
<1>4. CASE I # {}
  <2>1. i \in I
    <3> HIDE DEF I
    <3> QED
      BY <1>2, <1>3, <1>4, LeastExists
  <2> QED
    BY <1>3, <2>1
<1>5. CASE I = {}
  <2>1. i = 0
    <3> HIDE DEF I
    <3> QED
      BY <1>2, <1>5
  <2> QED
    BY <1>1, <1>5, <2>1
<1> QED
  BY <1>4, <1>5

\* The first operation with the sender and nonce of the event is the one.
LEMMA RightOperation ==
    ASSUME NEW chain, Legal(chain), NEW tx \in chain, tx.ops \in Seq(Hashes),
           NEW h \in Hashes, Included(h, tx),
           NEW o, o = SelectInSeq(tx.ops, LAMBDA g : HashKey[g] = HashKey[h])
    PROVE  o # 0 /\ tx.ops[o] = h
<1> DEFINE I == {j \in 1 .. Len(tx.ops) : HashKey[tx.ops[j]] = HashKey[h]}
<1>5. PICK j \in DOMAIN tx.ops : tx.ops[j] = h
  <2>1. Contains(tx.ops, h)
    BY DEF Legal
  <2> QED
    BY <2>1 DEF Contains
<1>6. j \in I
  BY <1>5
<1>1. I # {} /\ o = Min(I)
  <2>1. o = IF I # {} THEN Min(I) ELSE 0
    BY DEF SelectInSeq
  <2> QED
    BY <2>1, <1>6
<1>2. I \in SUBSET Nat
  OBVIOUS
<1>3. o \in I
  <2> HIDE DEF I
  <2> QED
    BY <1>1, <1>2, LeastExists
<1>4. o \in DOMAIN tx.ops /\ HashKey[tx.ops[o]] = HashKey[h]
  BY <1>3
<1> QED
  BY <1>3, <1>4, <1>5 DEF Legal

\* LookupsTell of every chain on which each operation has its event: without a
\* failing query what an entry point has handled is found, whatever queries
\* fail null means that none has handled the operation, and what is found is
\* the operation itself, with its own share of the logs
\* (getUserOperationByHash, getUserOperationReceipt, eth.ts:97-180, 236-277).
THEOREM AllLookupsTell ==
    ASSUME NEW chain, NEW failing, Legal(chain),
           \A tx \in chain : tx.logs \in Logs /\ tx.ops \in Seq(Hashes)
    PROVE  LookupsTell(chain, failing)
<1> SUFFICES ASSUME NEW h \in Hashes
             PROVE
        LET op      == getUserOperationByHash(h, chain, failing)
            receipt == getUserOperationReceipt(h, chain, failing)
        IN  /\ "null" \in {op.answer, receipt.answer} =>
                  \A tx \in chain : tx.at \in ToSet(EntryPoints) => ~Included(h, tx)
            /\ op.answer = "found" => op.op = h
            /\ receipt.answer = "found" =>
                  \E tx \in chain :
                      /\ Included(h, tx)
                      /\ receipt.logs = {i \in DOMAIN tx.logs :
                                            ClosedBy(i, h, tx.logs)}
            /\ failing = {} /\ (\E ep \in ToSet(EntryPoints) : Emitted(h, chain, ep) # {})
                  => /\ receipt.answer = "found"
                     /\ (\A tx \in chain : Included(h, tx) => Plainly(tx))
                           => op.answer = "found"
  BY DEF LookupsTell
<1> DEFINE op      == getUserOperationByHash(h, chain, failing)
           receipt == getUserOperationReceipt(h, chain, failing)
           i       == getUserOperationEvent(h, chain, failing)
           tx      == EventTransaction(h, chain, i)
           o       == SelectInSeq(tx.ops, LAMBDA g : HashKey[g] = HashKey[h])
<1>1. /\ i # 0 => EntryPoints[i] \in failing
                     \/ Emitted(h, chain, EntryPoints[i]) # {}
      /\ i = 0 => \A ep \in ToSet(EntryPoints) : Emitted(h, chain, ep) = {}
  BY SearchEnds
<1>2. op = IF i = 0 THEN [answer |-> "null"]
           ELSE IF \/ EntryPoints[i] \in failing
                   \/ tx.to # EntryPoints[i] \/ tx.aggregated \/ o = 0
           THEN [answer |-> "error"]
           ELSE [answer |-> "found", op |-> tx.ops[o]]
  BY DEF getUserOperationByHash
<1>3. receipt = IF i = 0 THEN [answer |-> "null"]
                ELSE IF EntryPoints[i] \in failing THEN [answer |-> "error"]
                ELSE [answer |-> "found", logs |-> filterLogs(h, tx.logs)]
  BY DEF getUserOperationReceipt
<1>4. ASSUME i # 0, EntryPoints[i] \notin failing
      PROVE  tx \in chain /\ Included(h, tx) /\ tx.at = EntryPoints[i]
  BY <1>1, <1>4 DEF EventTransaction, Emitted
<1>5. ASSUME tx \in chain, Included(h, tx)
      PROVE  o # 0 /\ tx.ops[o] = h
  <2> HIDE DEF tx
  <2> QED
    BY <1>5, RightOperation
<1>6. ASSUME tx \in chain, Included(h, tx)
      PROVE  filterLogs(h, tx.logs)
                 = {k \in DOMAIN tx.logs : ClosedBy(k, h, tx.logs)}
  <2> HIDE DEF tx
  <2>1. tx.logs \in Logs /\ OneEventEach(tx.logs) /\ EventsOf(h, tx.logs) # {}
    BY <1>6 DEF Legal, Included
  <2> QED
    BY <2>1, AllShareOut DEF SharesOut
<1> HIDE DEF op, receipt, i, tx, o
<1>7. "null" \in {op.answer, receipt.answer} => i = 0
  BY <1>2, <1>3
<1>8. i = 0 => \A u \in chain : u.at \in ToSet(EntryPoints) => ~Included(h, u)
  BY <1>1 DEF Emitted
<1>9. op.answer = "found" => op.op = h
  BY <1>2, <1>4, <1>5
<1>10. receipt.answer = "found" =>
          /\ tx \in chain /\ Included(h, tx)
          /\ receipt.logs = {k \in DOMAIN tx.logs : ClosedBy(k, h, tx.logs)}
  BY <1>3, <1>4, <1>6
<1>12. failing = {} /\ (\E ep \in ToSet(EntryPoints) : Emitted(h, chain, ep) # {})
          => /\ receipt.answer = "found"
             /\ (\A t \in chain : Included(h, t) => Plainly(t)) => op.answer = "found"
  <2> SUFFICES ASSUME failing = {}, i # 0
               PROVE  /\ receipt.answer = "found"
                      /\ (\A t \in chain : Included(h, t) => Plainly(t))
                            => op.answer = "found"
    BY <1>1
  <2>1. tx \in chain /\ Included(h, tx) /\ tx.at = EntryPoints[i] /\ o # 0
    BY <1>4, <1>5
  <2> QED
    BY <1>2, <1>3, <2>1 DEF Plainly
<1> QED
  BY <1>7, <1>8, <1>9, <1>10, <1>12 DEF op, receipt

-----------------------------------------------------------------------------
(***************************************************************************)
(* What is pooled between two calls can be bundled, and is then found.     *)
(***************************************************************************)
\* An entry is saved under its own key, so that no two pooled operations have
\* the same sender and nonce.
UnderOwnKey == \A k \in Stored : KeyOf(store[k]) = k

LEMMA OwnKeyStep == TypeOK /\ UnderOwnKey /\ [Next]_vars => UnderOwnKey'
<1> SUFFICES ASSUME TypeOK, UnderOwnKey, [Next]_vars PROVE UnderOwnKey'
  OBVIOUS
<1>1. \/ store' = store
      \/ \E k \in Keys : store' = [store EXCEPT ![k] = None]
      \/ \E op \in UserOps : store' = [store EXCEPT ![KeyOf(op)] = op]
  <2>1. ASSUME NEW p \in Proc, Request(p) \/ WriteFails(p) PROVE store' = store
    BY <2>1 DEF Request, BeginAdd, BeginRemove, BeginClear, BeginDump, BeginCheck,
       Begin, WriteFails, Database
  <2>2. ASSUME NEW p \in Proc, Replace(p) \/ PutEntry(p) \/ RemoveDel(p)
        PROVE  arg[p] \in UserOps /\ KeyOf(arg[p]) \in Keys
    BY <2>2, KeyOfType DEF Replace, PutEntry, RemoveDel, Goto, TypeOK, AboutOp, PCs
  <2>3. ASSUME NEW p \in Proc, Step(p)
        PROVE  \/ store' = store
               \/ \E k \in Keys : store' = [store EXCEPT ![k] = None]
               \/ \E op \in UserOps : store' = [store EXCEPT ![KeyOf(op)] = op]
    <3>1. CASE Replace(p) \/ PutEntry(p)
      BY <2>2, <3>1 DEF Replace, PutEntry
    <3>2. CASE RemoveDel(p) \/ \E k \in Keys : ClearDel(p, k)
      BY <2>2, <3>2 DEF RemoveDel, ClearDel
    <3> QED
      BY <2>3, <3>1, <3>2
         DEF Step, AddStep, FindReplace, FindTooLow, FindNew, CountKeys, CountAdmits,
             CountRefuses, FetchAndPush, PutIndex, UpdateSeen, RemoveStep, RemoveKeys,
             RemovePut, ClearStep, ClearKeys, ClearDrop, ReadStep, DumpKeys, DumpMany,
             CheckFind, Database
  <2> QED
    BY <2>1, <2>3 DEF Next, Crash, Database, vars
<1>2. store \in [Keys -> UserOps \cup {None}]
  BY DEF TypeOK
<1>3. ASSUME NEW k \in Keys, store' = [store EXCEPT ![k] = None] PROVE UnderOwnKey'
  BY <1>2, <1>3 DEF UnderOwnKey, Stored, KeyOf
<1>4. ASSUME NEW op \in UserOps, store' = [store EXCEPT ![KeyOf(op)] = op]
      PROVE  UnderOwnKey'
  <2>1. KeyOf(op) \in Keys
    BY OpIs
  <2> QED
    BY <1>2, <1>4, <2>1 DEF UnderOwnKey, Stored, KeyOf
<1> QED
  BY <1>1, <1>3, <1>4 DEF UnderOwnKey, Stored, KeyOf

LEMMA OwnKeyHolds == ASSUME OneCall PROVE ExecutorSpec => []UnderOwnKey
<1>1. ExecutorInit => UnderOwnKey
  BY DEF ExecutorInit, Init, UnderOwnKey, Stored
<1>2. ExecutorInv /\ UnderOwnKey /\ [ExecutorNext]_executorVars => UnderOwnKey'
  <2> SUFFICES ASSUME ExecutorInv, UnderOwnKey, [ExecutorNext]_executorVars
               PROVE  UnderOwnKey'
    OBVIOUS
  <2>1. TypeOK
    BY DEF ExecutorInv
  <2>2. ASSUME store' = store PROVE UnderOwnKey'
    BY <2>2 DEF UnderOwnKey, Stored, KeyOf
  <2>3. [Next]_vars \/ store' = store
    <3>1. ASSUME NEW p \in Proc, ApiCall(p) \/ ApiStep(p) \/ ServiceStep(p)
          PROVE  [Next]_vars \/ store' = store
      BY <3>1, PoolSteps DEF StakeSettled, Database, Next
    <3> QED
      BY <3>1 DEF ExecutorNext, Restart, Next, executorVars
  <2> QED
    BY <2>1, <2>2, <2>3, OwnKeyStep
<1> QED
  BY <1>1, <1>2, InvHolds, PTL DEF ExecutorSpec

\* Every chain on which a set of operations is bundled is one of operations
\* and logs.
LEMMA ChainsTell ==
    ASSUME NEW bundle \in SUBSET Hashes, IsFiniteSet(bundle)
    PROVE  FoundIn(bundle)
<1>1. ASSUME NEW b \in SUBSET bundle, NEW tx \in Transactions(b)
      PROVE  tx.logs \in Logs /\ tx.ops \in Seq(Hashes)
  <2>1. IsFiniteSet(b) /\ Cardinality(b) \in Nat
    BY FS_Subset, FS_CardinalityType
  <2>2. tx.ops \in SetToSeqs(b)
    BY DEF Transactions
  <2>3. tx.ops \in [1 .. Cardinality(b) -> b]
    BY <2>2 DEF SetToSeqs
  <2>4. tx.ops \in Seq(Hashes)
    BY <2>1, <2>3
  <2>5. PICK n \in 0 .. 4 : tx.logs \in [1 .. n -> b \cup {Other}]
    BY DEF Transactions
  <2>6. tx.logs \in Seq(Hashes \cup {Other})
    BY <2>5
  <2> QED
    BY <2>4, <2>6 DEF Logs
<1>2. ASSUME NEW chain \in Chains(bundle), NEW tx \in chain
      PROVE  tx.logs \in Logs /\ tx.ops \in Seq(Hashes)
  <2>1. CASE \E t \in Transactions(bundle) : chain = {t}
    BY <1>1, <1>2, <2>1
  <2>2. CASE \E b \in SUBSET bundle :
                \E t \in Transactions(b), u \in Transactions(bundle \ b) :
                   chain = {t, u}
    BY <1>1, <1>2, <2>2
  <2>3. \/ chain = {}
        \/ \E t \in Transactions(bundle) : chain = {t}
        \/ \E b \in SUBSET bundle :
              \E t \in Transactions(b), u \in Transactions(bundle \ b) :
                 chain = {t, u}
    <3> DEFINE Rest(b) == {v \in Transactions(bundle \ b) : Plainly(v)}
               Both(b) == {{t, u} : t \in Transactions(b), u \in Rest(b)}
    <3>1. \/ chain = {} \/ chain \in {{t} : t \in Transactions(bundle)}
          \/ chain \in UNION {Both(b) : b \in (SUBSET bundle) \ {{}, bundle}}
      BY <1>2 DEF Chains
    <3>2. ASSUME NEW b \in SUBSET bundle, chain \in Both(b)
          PROVE  \E t \in Transactions(b), u \in Transactions(bundle \ b) :
                    chain = {t, u}
      BY <3>2
    <3>3. \A b : chain \in Both(b) /\ b \in SUBSET bundle =>
             \E t \in Transactions(b), u \in Transactions(bundle \ b) :
                chain = {t, u}
      BY <3>2
    <3>4. ASSUME chain \in UNION {Both(b) : b \in (SUBSET bundle) \ {{}, bundle}}
          PROVE  \E b \in SUBSET bundle : chain \in Both(b)
      <4> HIDE DEF Both
      <4> QED
        BY <3>4
    <3> HIDE DEF Both
    <3>5. chain \in {{t} : t \in Transactions(bundle)}
            => \E t \in Transactions(bundle) : chain = {t}
      OBVIOUS
    <3> QED
      BY <3>1, <3>3, <3>4, <3>5
  <2> QED
    BY <1>2, <2>1, <2>2, <2>3
<1> QED
  BY <1>2, AllLookupsTell DEF FoundIn

\* PooledAreFound for any operations and senders, one call at a time: what is
\* pooled between two calls is a bundle the entry points take, and however it
\* comes to the chain, while the entry points answer, the receipt of each of its
\* operations is found by its hash, with its own logs, and each operation that
\* came in a plain handleOps, too; no lookup ever answers with another
\* operation, or null for one that was handled (eth.ts:97-180).
THEOREM CallsFindPooled ==
    ASSUME OneCall, Hashes = UserOps
    PROVE  ExecutorSpec => []PooledAreFound
<1>1. ExecutorInv /\ UnderOwnKey => PooledAreFound
  <2> SUFFICES ASSUME ExecutorInv, UnderOwnKey PROVE PooledAreFound
    OBVIOUS
  <2> DEFINE S == {store[k] : k \in Stored}
  <2>1. \A k \in Stored : k \in Keys /\ store[k] \in UserOps
    BY DEF ExecutorInv, TypeOK, Stored
  <2>2. S \in SUBSET Hashes
    BY <2>1
  <2>3. \A o, q \in S : KeyOf(o) = KeyOf(q) => o = q
    BY DEF UnderOwnKey
  <2>4. IsFiniteSet(S)
    <3>1. IsFiniteSet(Stored)
      BY FS_Subset, UserOpsAssumption DEF Stored
    <3>2. [k \in Stored |-> store[k]] \in Surjection(Stored, S)
      BY DEF Surjection
    <3> QED
      BY <3>1, <3>2, FS_Surjection
  <2> HIDE DEF S
  <2>5. FoundIn(S) = TRUE
    BY <2>2, <2>4, ChainsTell DEF FoundIn
  <2>6. S \in Bundles
    BY <2>2, <2>3 DEF Bundles
  <2>7. <<S, TRUE>> \in Lookups
    BY <2>5, <2>6 DEF Lookups
  <2> QED
    BY <2>7 DEF PooledAreFound, S
<1> QED
  BY <1>1, InvHolds, OwnKeyHolds, PTL
=============================================================================
