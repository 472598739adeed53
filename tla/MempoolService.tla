--------------------------- MODULE MempoolService ---------------------------
(***************************************************************************)
(* The user operation mempool (src/src/services/MempoolService.ts).        *)
(*                                                                         *)
(* The pool lives in a key-value database as two kinds of record: the      *)
(* collection of keys (`index`) and one entry per key (`store`).  Every    *)
(* operation of the service is a sequence of awaited database calls; what  *)
(* runs between two awaits is atomic, and the calls of several requests    *)
(* interleave at the awaits.  Each action below is one awaited call with   *)
(* the synchronous code that follows it.                                   *)
(*                                                                         *)
(* The collection is kept as a multiplicity (how often a key occurs in the *)
(* array), not as a sequence: the service filters it, appends to it and    *)
(* measures it, and never looks at the order.                              *)
(***************************************************************************)
EXTENDS Naturals, FiniteSets

CONSTANTS
    Senders,        \* accounts that send operations
    Nonces,         \* their nonces
    UserOps,        \* operations: sender, nonce and the two fees
    Staked,         \* senders whose stake check passes (ReputationService)
    Proc,           \* requests that may be in flight at one time
    Calls,          \* operations of the service the requests ask for
    Faults,         \* what may go wrong: "crash", "write", "read"
    MaxPerSender,   \* MAX_MEMPOOL_USEROPS_PER_SENDER
    MaxCopies,      \* bound: no add starts for a key some copy of the
                    \* collection holds this often
    None            \* no entry

Keys == Senders \X Nonces

ASSUME UserOpsAssumption ==
    /\ IsFiniteSet(Keys)
    /\ UserOps \subseteq [sender : Senders, nonce : Nonces,
                          prio : Nat, maxFee : Nat]
    /\ None \notin UserOps

ASSUME LimitsAssumption ==
    /\ MaxPerSender \in Nat
    /\ MaxCopies \in Nat
    /\ Staked \subseteq Senders
    /\ Calls \subseteq {"add", "remove", "clear", "dump", "check"}
    /\ Faults \subseteq {"crash", "write", "read"}

VARIABLES
    index,      \* the collection of keys in the database
    store,      \* the entry under each key in the database
    pc,         \* where each request is
    arg,        \* the operation each request is about
    keys,       \* the copy of the collection each request holds
    out,        \* how each request's last call ended
    shown       \* the operations each request's last dump returned

vars == <<index, store, pc, arg, keys, out, shown>>

KeyOf(op) == <<op.sender, op.nonce>>

NoKeys == [k \in Keys |-> 0]

Stored == {k \in Keys : store[k] # None}

(***************************************************************************)
(* Reads.  fetchKeys answers the empty collection when the read fails, and *)
(* find answers "no entry"; getMany is all or nothing, because one missing *)
(* entry makes the whole call fail, and fetchAll then answers no entry.    *)
(***************************************************************************)
ReadFails == "read" \in Faults

FetchKeys == {index} \cup (IF ReadFails THEN {NoKeys} ELSE {})

Find(k) == {store[k]} \cup (IF ReadFails THEN {None} ELSE {})

GetManyFails(ks) == \E k \in Keys : ks[k] > 0 /\ store[k] = None

\* The keys whose entries fetchAll returns when it holds the collection ks,
\* with the multiplicity of each.
FetchAll(ks) ==
    {IF GetManyFails(ks) THEN NoKeys ELSE ks}
        \cup (IF ReadFails THEN {NoKeys} ELSE {})

\* The entries found that are of the sender s, each with its place among
\* those of its key.
FoundOf(found, s) == UNION {{n} \X (1 .. found[<<s, n>>]) : n \in Nonces}

\* How many of the entries found are of the sender s.
CountOf(found, s) == Cardinality(FoundOf(found, s))

(***************************************************************************)
(* MempoolEntry.canReplace: integer arithmetic, the division rounds down.  *)
(***************************************************************************)
\* Defect: either fee is enough.
CanReplaceEither(new, old) ==
    \/ new.prio   >= (old.prio * 11) \div 10
    \/ new.maxFee >= (old.maxFee * 11) \div 10

CanReplace(new, old) ==
    /\ new.prio   >= (old.prio * 11) \div 10
    /\ new.maxFee >= (old.maxFee * 11) \div 10

-----------------------------------------------------------------------------

Init ==
    /\ index = NoKeys
    /\ store = [k \in Keys |-> None]
    /\ pc = [p \in Proc |-> "idle"]
    /\ arg = [p \in Proc |-> None]
    /\ keys = [p \in Proc |-> NoKeys]
    /\ out = [p \in Proc |-> "none"]
    /\ shown = [p \in Proc |-> {}]

Database == <<index, store>>

\* A request enters the service.
Begin(p, at, op) ==
    /\ pc[p] = "idle"
    /\ pc' = [pc EXCEPT ![p] = at]
    /\ arg' = [arg EXCEPT ![p] = op]
    /\ out' = [out EXCEPT ![p] = "none"]
    /\ shown' = [shown EXCEPT ![p] = {}]
    /\ UNCHANGED <<keys, Database>>

\* Request p is at one place and goes on to another, with the copy ks.
Goto(p, from, to, ks) ==
    /\ pc[p] = from
    /\ pc' = [pc EXCEPT ![p] = to]
    /\ keys' = [keys EXCEPT ![p] = ks]
    /\ UNCHANGED <<arg, out, shown>>

\* Request p leaves the service with an answer, and its locals are gone.
Return(p, from, answer) ==
    /\ pc[p] = from
    /\ pc' = [pc EXCEPT ![p] = "idle"]
    /\ arg' = [arg EXCEPT ![p] = None]
    /\ keys' = [keys EXCEPT ![p] = NoKeys]
    /\ out' = [out EXCEPT ![p] = answer]

(***************************************************************************)
(* addUserOp: find the entry under the key; replace it if the fees allow,  *)
(* or check the sender's count, append the key to the collection, save the *)
(* collection and then the entry.  updateSeenStatus closes the call.       *)
(***************************************************************************)
BeginAdd(p, op) ==
    /\ index[KeyOf(op)] < MaxCopies
    /\ \A q \in Proc : keys[q][KeyOf(op)] < MaxCopies
    /\ Begin(p, "find", op)

\* Defect: replaces without looking at the fees.
FindReplaceUnchecked(p) ==
    /\ Goto(p, "find", "replace", keys[p])
    /\ \E old \in Find(KeyOf(arg[p])) : old # None
    /\ UNCHANGED Database

FindReplace(p) ==
    /\ Goto(p, "find", "replace", keys[p])
    /\ \E old \in Find(KeyOf(arg[p])) :
          old # None /\ CanReplace(arg[p], old)
    /\ UNCHANGED Database

FindTooLow(p) ==
    /\ Return(p, "find", "feeTooLow")
    /\ \E old \in Find(KeyOf(arg[p])) :
          old # None /\ ~CanReplace(arg[p], old)
    /\ UNCHANGED <<shown, Database>>

FindNew(p) ==
    /\ Goto(p, "find", "countKeys", keys[p])
    /\ None \in Find(KeyOf(arg[p]))
    /\ UNCHANGED Database

Replace(p) ==
    /\ Goto(p, "replace", "seen", keys[p])
    /\ store' = [store EXCEPT ![KeyOf(arg[p])] = arg[p]]
    /\ UNCHANGED index

\* Defect: the key is listed before the sender's count is checked.
CountKeysListed(p) ==
    /\ \E ks \in FetchKeys : Goto(p, "countKeys", "countMany", ks)
    /\ index' = [index EXCEPT ![KeyOf(arg[p])] = @ + 1]
    /\ UNCHANGED store

\* checkSenderCountInMempool: the collection, then the entries.
CountKeys(p) ==
    /\ \E ks \in FetchKeys : Goto(p, "countKeys", "countMany", ks)
    /\ UNCHANGED Database

\* Defect: one operation too many.
SenderFullLate(p, found) ==
    /\ CountOf(found, arg[p].sender) > MaxPerSender
    /\ arg[p].sender \notin Staked

SenderFull(p, found) ==
    /\ CountOf(found, arg[p].sender) >= MaxPerSender
    /\ arg[p].sender \notin Staked

CountAdmits(p) ==
    /\ Goto(p, "countMany", "fetchKeys", NoKeys)
    /\ \E found \in FetchAll(keys[p]) : ~SenderFull(p, found)
    /\ UNCHANGED Database

CountRefuses(p) ==
    /\ Return(p, "countMany", "senderFull")
    /\ \E found \in FetchAll(keys[p]) : SenderFull(p, found)
    /\ UNCHANGED <<shown, Database>>

FetchAndPush(p) ==
    /\ \E ks \in FetchKeys :
          Goto(p, "fetchKeys", "putIndex",
               [ks EXCEPT ![KeyOf(arg[p])] = @ + 1])
    /\ UNCHANGED Database

\* Defect: the call ends with the collection saved and not the entry.
PutIndexOnly(p) ==
    /\ Goto(p, "putIndex", "seen", NoKeys)
    /\ index' = keys[p]
    /\ UNCHANGED store

PutIndex(p) ==
    /\ Goto(p, "putIndex", "putEntry", NoKeys)
    /\ index' = keys[p]
    /\ UNCHANGED store

PutEntry(p) ==
    /\ Goto(p, "putEntry", "seen", keys[p])
    /\ store' = [store EXCEPT ![KeyOf(arg[p])] = arg[p]]
    /\ UNCHANGED index

\* updateSeenStatus writes reputation records only.
UpdateSeen(p) ==
    /\ Return(p, "seen", "accepted")
    /\ UNCHANGED <<shown, Database>>

AddStep(p) ==
    \/ FindReplace(p) \/ FindTooLow(p) \/ FindNew(p) \/ Replace(p)
    \/ CountKeys(p) \/ CountAdmits(p) \/ CountRefuses(p)
    \/ FetchAndPush(p) \/ PutIndex(p) \/ PutEntry(p) \/ UpdateSeen(p)

(***************************************************************************)
(* remove: read the collection and drop the key from the copy, delete the  *)
(* entry, save the copy.                                                   *)
(***************************************************************************)
BeginRemove(p, op) == Begin(p, "rmKeys", op)

\* Defect: the filtered copy is thrown away.
RemoveKeysUnfiltered(p) ==
    /\ \E ks \in FetchKeys : Goto(p, "rmKeys", "rmDel", ks)
    /\ UNCHANGED Database

RemoveKeys(p) ==
    /\ \E ks \in FetchKeys :
          Goto(p, "rmKeys", "rmDel", [ks EXCEPT ![KeyOf(arg[p])] = 0])
    /\ UNCHANGED Database

RemoveDel(p) ==
    /\ Goto(p, "rmDel", "rmPut", keys[p])
    /\ store' = [store EXCEPT ![KeyOf(arg[p])] = None]
    /\ UNCHANGED index

RemovePut(p) ==
    /\ Return(p, "rmPut", "removed")
    /\ index' = keys[p]
    /\ UNCHANGED <<store, shown>>

\* Defect: the collection is saved before the entry is deleted.
RemoveStepIndexFirst(p) ==
    \/ RemoveKeys(p)
    \/ /\ Goto(p, "rmDel", "rmPut", keys[p])
       /\ index' = keys[p]
       /\ UNCHANGED store
    \/ /\ Return(p, "rmPut", "removed")
       /\ store' = [store EXCEPT ![KeyOf(arg[p])] = None]
       /\ UNCHANGED <<index, shown>>

RemoveStep(p) == RemoveKeys(p) \/ RemoveDel(p) \/ RemovePut(p)

(***************************************************************************)
(* clearState: read the collection, delete its entries one after another   *)
(* (the model leaves the order of the array open), drop the collection.    *)
(***************************************************************************)
BeginClear(p) == Begin(p, "clKeys", None)

ClearKeys(p) ==
    /\ \E ks \in FetchKeys : Goto(p, "clKeys", "clDel", ks)
    /\ UNCHANGED Database

\* Defect: deletes keys that are not in the copy.
ClearDelAny(p, k) ==
    /\ Goto(p, "clDel", "clDel", [keys[p] EXCEPT ![k] = @ - 1])
    /\ store' = [store EXCEPT ![k] = None]
    /\ UNCHANGED index

\* Defect: the loop does not advance.
ClearDelForever(p, k) ==
    /\ Goto(p, "clDel", "clDel", keys[p])
    /\ keys[p][k] > 0
    /\ store' = [store EXCEPT ![k] = None]
    /\ UNCHANGED index

ClearDel(p, k) ==
    /\ Goto(p, "clDel", "clDel", [keys[p] EXCEPT ![k] = @ - 1])
    /\ keys[p][k] > 0
    /\ store' = [store EXCEPT ![k] = None]
    /\ UNCHANGED index

ClearDrop(p) ==
    /\ keys[p] = NoKeys
    /\ Return(p, "clDel", "cleared")
    /\ index' = NoKeys
    /\ UNCHANGED <<store, shown>>

ClearStep(p) == ClearKeys(p) \/ (\E k \in Keys : ClearDel(p, k)) \/ ClearDrop(p)

(***************************************************************************)
(* dump and getSortedOps (fetchAll), and isNewOrReplacing.                 *)
(***************************************************************************)
BeginDump(p) == Begin(p, "dpKeys", None)

DumpKeys(p) ==
    /\ \E ks \in FetchKeys : Goto(p, "dpKeys", "dpMany", ks)
    /\ UNCHANGED Database

DumpMany(p) ==
    /\ Return(p, "dpMany", "dumped")
    /\ \E found \in FetchAll(keys[p]) :
          shown' = [shown EXCEPT
                      ![p] = {store[k] : k \in {j \in Keys : found[j] > 0}}]
    /\ UNCHANGED Database

BeginCheck(p, op) == Begin(p, "ckFind", op)

CheckFind(p) ==
    /\ pc[p] = "ckFind"
    /\ \E old \in Find(KeyOf(arg[p])) :
          Return(p, "ckFind", IF old = None \/ CanReplace(arg[p], old)
                              THEN "valid" ELSE "feeTooLow")
    /\ UNCHANGED <<shown, Database>>

ReadStep(p) == DumpKeys(p) \/ DumpMany(p) \/ CheckFind(p)

-----------------------------------------------------------------------------
(***************************************************************************)
(* Faults.  A failed write rejects the awaited call and the request ends   *)
(* with an error, what it wrote before staying written.  A crash ends      *)
(* every request; the database keeps its records.                          *)
(***************************************************************************)
Writing ==
    {"replace", "putIndex", "putEntry", "seen", "rmDel", "rmPut", "clDel"}

\* checkStake, asked for a sender with its full number of operations, may save
\* the collection of addresses.
CountWrites(p) ==
    /\ pc[p] = "countMany"
    /\ \E found \in FetchAll(keys[p]) : CountOf(found, arg[p].sender) >= MaxPerSender

WriteFails(p) ==
    /\ "write" \in Faults
    /\ pc[p] \in Writing \/ CountWrites(p)
    /\ Return(p, pc[p], "error")
    /\ UNCHANGED <<shown, Database>>

Crash ==
    /\ "crash" \in Faults
    /\ \E p \in Proc : pc[p] # "idle"
    /\ pc' = [p \in Proc |-> "idle"]
    /\ arg' = [p \in Proc |-> None]
    /\ keys' = [p \in Proc |-> NoKeys]
    /\ out' = [p \in Proc |-> "none"]
    /\ shown' = [p \in Proc |-> {}]
    /\ UNCHANGED Database

\* The requests that arrive.
Request(p) ==
    \/ "add"    \in Calls /\ \E op \in UserOps : BeginAdd(p, op)
    \/ "remove" \in Calls /\ \E op \in UserOps : BeginRemove(p, op)
    \/ "clear"  \in Calls /\ BeginClear(p)
    \/ "dump"   \in Calls /\ BeginDump(p)
    \/ "check"  \in Calls /\ \E op \in UserOps : BeginCheck(p, op)

\* The database answers the call request p awaits.
Step(p) == AddStep(p) \/ RemoveStep(p) \/ ClearStep(p) \/ ReadStep(p)

Next ==
    \/ \E p \in Proc : Request(p) \/ Step(p) \/ WriteFails(p)
    \/ Crash

Spec == Init /\ [][Next]_vars

\* The database answers every call sooner or later.
Fairness == \A p \in Proc : WF_vars(Step(p))

FairSpec == Spec /\ Fairness
-----------------------------------------------------------------------------
(***************************************************************************)
(* What the pool promises.                                                 *)
(***************************************************************************)
PCs == {"idle", "find", "replace", "countKeys", "countMany", "fetchKeys",
        "putIndex", "putEntry", "seen", "rmKeys", "rmDel", "rmPut",
        "clKeys", "clDel", "dpKeys", "dpMany", "ckFind"}

Answers == {"none", "accepted", "feeTooLow", "senderFull", "removed",
            "cleared", "dumped", "valid", "error"}

\* The places where a request is about one operation.
AboutOp == PCs \ {"idle", "clKeys", "clDel", "dpKeys", "dpMany"}

\* Type invariant: the records of the database and of the requests in flight
\* have their shapes, and a request that is about an operation holds one.
TypeOK ==
    /\ index \in [Keys -> Nat]
    /\ store \in [Keys -> UserOps \cup {None}]
    /\ pc \in [Proc -> PCs]
    /\ arg \in [Proc -> UserOps \cup {None}]
    /\ keys \in [Proc -> [Keys -> Nat]]
    /\ out \in [Proc -> Answers]
    /\ shown \in [Proc -> SUBSET (UserOps \cup {None})]
    /\ \A p \in Proc : pc[p] \in AboutOp => arg[p] \in UserOps

\* An entry saved in the database is always reachable through the collection:
\* addUserOp saves the collection before the entry and remove deletes the
\* entry before it saves the collection (MempoolService.ts:73-77, 87-89), so
\* that neither a crash nor a failed write between the two loses an accepted
\* operation.
NoOrphan == \A k \in Stored : index[k] > 0

AtRest == \A p \in Proc : pc[p] = "idle"

\* What fetchAll would answer now, the read itself succeeding.
Listed == IF GetManyFails(index) THEN {} ELSE {k \in Keys : index[k] > 0}

\* With no request in flight a dump returns the entries of the database, all
\* of them and nothing else: the bundler builds from fetchAll, so an entry it
\* misses is never bundled (MempoolService.ts:102-105, 138-144).
DumpAtRest == AtRest => Listed = Stored

\* With adds alone, any number at a time, a listed key whose entry is missing
\* is one whose add is about to save the entry: an add never leaves a key
\* behind that would make every fetchAll answer nothing.  Reads may fail, and
\* a failed read of the collection is taken for an empty one.
NoDangling ==
    \A k \in Keys :
        index[k] > 0 =>
            \/ store[k] # None
            \/ \E p \in Proc : pc[p] = "putEntry" /\ KeyOf(arg[p]) = k

\* The strengthening of NoDangling that every add preserves: the copy of the
\* collection an add is about to save names no key but its own that is not
\* already saved or about to be.
AddsInv ==
    /\ NoDangling
    /\ \A p \in Proc :
          /\ pc[p] \notin {"rmKeys", "rmDel", "rmPut", "clKeys", "clDel"}
          /\ pc[p] = "putIndex" =>
                \A k \in Keys :
                    keys[p][k] > 0 =>
                        \/ k = KeyOf(arg[p])
                        \/ store[k] # None
                        \/ \E q \in Proc :
                              pc[q] = "putEntry" /\ KeyOf(arg[q]) = k

\* The strengthening of NoOrphan and FeesNeverFall that the steps of a single
\* request preserve: what it has read still holds when it writes, and the
\* copy of the collection it will save covers every entry that will be there.
SerialInv ==
    /\ NoOrphan
    /\ \A p \in Proc :
          LET k == KeyOf(arg[p]) IN
          /\ pc[p] = "replace" =>
                store[k] # None /\ CanReplace(arg[p], store[k])
          /\ pc[p] \in {"countKeys", "countMany", "fetchKeys", "putIndex",
                        "putEntry"} => store[k] = None
          /\ pc[p] = "putIndex" =>
                keys[p][k] > 0 /\ \A j \in Stored : keys[p][j] > 0
          /\ pc[p] = "putEntry" => index[k] > 0
          /\ pc[p] = "rmDel" => \A j \in Stored \ {k} : keys[p][j] > 0
          /\ pc[p] \in {"rmPut", "clDel"} => \A j \in Stored : keys[p][j] > 0

\* A sender whose stake check fails never has more than MaxPerSender
\* operations in the pool (checkSenderCountInMempool).
SenderLimit ==
    \A s \in Senders \ Staked :
        Cardinality({n \in Nonces : store[<<s, n>>] # None}) <= MaxPerSender

FeesKept ==
    \A k \in Keys :
        store[k] # None /\ store'[k] # None =>
            /\ store'[k].prio >= store[k].prio
            /\ store'[k].maxFee >= store[k].maxFee

\* The fees under a key never fall while the key stays in the pool: canReplace
\* is decided on an entry read before an await, and the entry is written after
\* it (MempoolService.ts:53-64).
FeesNeverFall == [][FeesKept]_vars

\* "To replace an entry, a new entry must have at least 10% higher
\* maxPriorityFeePerGas and 10% higher maxFeePerGas than the existing Entry"
\* (MempoolEntry.ts:46).
TenPercentHigher ==
    [][\A k \in Keys :
          store[k] # None /\ store'[k] # None /\ store'[k] # store[k] =>
              /\ 10 * store'[k].prio >= 11 * store[k].prio
              /\ 10 * store'[k].maxFee >= 11 * store[k].maxFee]_vars

\* Every request is answered as long as the database answers, and clearState
\* gets to the end of its loop.
CallsReturn == \A p \in Proc : pc[p] # "idle" ~> pc[p] = "idle"

(***************************************************************************)
(* The service implements the abstract pool when requests come one at a    *)
(* time: the entries are the pool, whatever the collection says, and what  *)
(* a request was shown by a dump is a view of it.                          *)
(***************************************************************************)
Views == {shown[p] : p \in {q \in Proc : out[q] = "dumped"}}

Pool == INSTANCE AbstractMempool WITH pool <- store, views <- Views

\* Every step of the service is one of the pool's, or changes nothing of it:
\* the limit per sender holds at the moment an operation enters, an entry is
\* replaced by higher fees only, and a dump shows all the pool.
ImplementsPool == Pool!Spec
=============================================================================
