-------------------------- MODULE ReputationService --------------------------
(***************************************************************************)
(* The reputation of addresses (src/src/services/ReputationService.ts,     *)
(* src/src/models/ReputationEntry.ts).                                     *)
(*                                                                         *)
(* As in the mempool, the data are a collection of addresses and one entry *)
(* per address, in a key-value database, and a request interleaves with    *)
(* others at each awaited database call.  Beside them are the white and    *)
(* the black list.                                                         *)
(*                                                                         *)
(* The code stamps an entry with the time of its last update and computes  *)
(* its decay from the time elapsed; the model keeps the age instead, which *)
(* every tick of the clock raises, up to the age at which the entry has    *)
(* decayed to nothing.                                                     *)
(***************************************************************************)
EXTENDS Integers, FiniteSets

CONSTANTS
    Addresses,      \* paymasters, factories, accounts, aggregators
    Jobs,           \* what requests ask for: records of a call and its data
    LowDelay,       \* addresses whose unstake delay is below minUnstakeDelay
    Proc,           \* requests that may be in flight at one time
    Faults,         \* what may go wrong: "crash", "write", "read"
    Denominator,    \* minInclusionDenominator
    ThrottlingSlack,
    BanSlack,
    DecayHours,     \* an entry has decayed to nothing after so many hours (24)
    TicksPerHour,   \* ticks of the clock in one unit of decay
    MaxCount,       \* bound: no count of an address is raised beyond this
    MaxCopies,      \* bound: no address is asked about that occurs in the
                    \* collection more often than this
    None            \* no entry

Lists == {"WL", "BL"}

CallNames == {"seen", "included", "set", "status", "stake", "dump", "clear",
          "listAdd", "listRemove", "isListed"}

ASSUME ServiceAssumption ==
    /\ Denominator \in Nat \ {0}
    /\ ThrottlingSlack \in Nat /\ BanSlack \in Nat
    /\ DecayHours \in Nat \ {0} /\ TicksPerHour \in Nat \ {0}
    /\ MaxCount \in Nat /\ MaxCopies \in Nat
    /\ Faults \subseteq {"crash", "write", "read"}

MaxAge == DecayHours * TicksPerHour

Entry == [seen : Nat, included : Nat, age : 0 .. MaxAge]

ASSUME JobsAssumption ==
    /\ Jobs \subseteq [call : CallNames, addr : Addresses,
                       seen : Nat, included : Nat, list : Lists]
    /\ None \notin Entry

VARIABLES
    coll,       \* how often each address occurs in the saved collection
    entry,      \* the saved entry of each address
    lists,      \* the saved white and black list
    pc,         \* where each request is
    job,        \* what each request was asked for
    held,       \* the entry each request has in hand
    copy,       \* the copy of the collection each request holds
    listed,     \* the copy of a list each request holds
    out         \* how each request's last call ended

vars == <<coll, entry, lists, pc, job, held, copy, listed, out>>

Database == <<coll, entry, lists>>

NoAddresses == [a \in Addresses |-> 0]

Saved == {a \in Addresses : entry[a] # None}

(***************************************************************************)
(* Reads.  What is saved comes back; but a read that fails is caught where *)
(* it is made, and taken for a record that is absent: no entry, an empty   *)
(* collection, an empty list.                                              *)
(***************************************************************************)
ReadFails == "read" \in Faults

Read(saved, absent) == {saved} \cup (IF ReadFails THEN {absent} ELSE {})

(***************************************************************************)
(* ReputationEntry.  The getters take 1/DecayHours off the raw count for   *)
(* every hour of age and round down; addToReputation adds to the raw count *)
(* and starts the age anew.                                                *)
(***************************************************************************)
Fresh == [seen |-> 0, included |-> 0, age |-> 0]

EnlapsedHours(e) == e.age \div TicksPerHour

\* Defect: the decay has the wrong sign.
DecayedUp(raw, e) ==
    (raw * (DecayHours + EnlapsedHours(e))) \div DecayHours

Decayed(raw, e) == (raw * (DecayHours - EnlapsedHours(e))) \div DecayHours

OpsSeen(e) == Decayed(e.seen, e)
OpsIncluded(e) == Decayed(e.included, e)

MinExpectedIncluded(e) == (OpsSeen(e) + Denominator - 1) \div Denominator

IsBanned(e) == MinExpectedIncluded(e) > OpsIncluded(e) + BanSlack

IsThrottled(e) == MinExpectedIncluded(e) > OpsIncluded(e) + ThrottlingSlack

Status(e) ==
    IF IsBanned(e) THEN "BANNED" ELSE IF IsThrottled(e) THEN "THROTTLED" ELSE "OK"

\* Defect: the amounts replace the counts.
AddAnew(e, seen, included) ==
    [seen |-> seen, included |-> included, age |-> 0]

AddToReputation(e, seen, included) ==
    [seen |-> e.seen + seen, included |-> e.included + included, age |-> 0]

SetReputation(seen, included) ==
    [seen |-> seen, included |-> included, age |-> 0]

Older(e) ==
    IF e = None \/ e.age = MaxAge THEN e ELSE [e EXCEPT !.age = @ + 1]

-----------------------------------------------------------------------------

Init ==
    /\ coll = NoAddresses
    /\ entry = [a \in Addresses |-> None]
    /\ lists = [l \in Lists |-> {}]
    /\ pc = [p \in Proc |-> "idle"]
    /\ job = [p \in Proc |-> None]
    /\ held = [p \in Proc |-> None]
    /\ copy = [p \in Proc |-> NoAddresses]
    /\ listed = [p \in Proc |-> {}]
    /\ out = [p \in Proc |-> "none"]

\* Where a call starts.
Start(call) ==
    CASE call \in {"seen", "included", "set", "status"} -> "fetch"
      [] call = "stake" -> "whitelist"
      [] call = "dump" -> "dpKeys"
      [] call = "clear" -> "clKeys"
      [] OTHER -> "listGet"

\* The bounds of the model, on what is saved and what requests hold.
WithinBounds(j) ==
    /\ \A e \in {entry[j.addr]} \cup {held[q] : q \in Proc} : e # None =>
          /\ j.call = "seen" => e.seen < MaxCount
          /\ j.call = "included" => e.included < MaxCount
    /\ Start(j.call) \in {"fetch", "whitelist"} =>
          /\ coll[j.addr] < MaxCopies \/ (entry[j.addr] # None /\ ~ReadFails)
          /\ coll[j.addr] <= MaxCopies
          /\ \A q \in Proc : copy[q][j.addr] <= MaxCopies

Request(p, j) ==
    /\ pc[p] = "idle"
    /\ WithinBounds(j)
    /\ pc' = [pc EXCEPT ![p] = Start(j.call)]
    /\ job' = [job EXCEPT ![p] = j]
    /\ out' = [out EXCEPT ![p] = "none"]
    /\ UNCHANGED <<held, copy, listed, Database>>

Goto(p, from, to) ==
    /\ pc[p] = from
    /\ pc' = [pc EXCEPT ![p] = to]
    /\ UNCHANGED <<job, out>>

\* The request ends, and its locals are gone.
Return(p, from, answer) ==
    /\ pc[p] = from
    /\ pc' = [pc EXCEPT ![p] = "idle"]
    /\ job' = [job EXCEPT ![p] = None]
    /\ held' = [held EXCEPT ![p] = None]
    /\ copy' = [copy EXCEPT ![p] = NoAddresses]
    /\ listed' = [listed EXCEPT ![p] = {}]
    /\ out' = [out EXCEPT ![p] = answer]

(***************************************************************************)
(* fetchOne, and what runs at once when it returns an entry: the entry is  *)
(* changed and will be saved, or its status is the answer.                 *)
(***************************************************************************)
\* Defect: setting a reputation adds to it.
UpdatedByAdding(j, e) == AddToReputation(e, j.seen, j.included)

Updated(j, e) ==
    IF j.call = "set" THEN SetReputation(j.seen, j.included)
    ELSE AddToReputation(e, j.seen, j.included)

StakeAnswer(a, e) ==
    IF Status(e) = "BANNED" THEN "banned"
    ELSE IF a \in LowDelay THEN "delayTooLow" ELSE "noError"

Loaded(p, from, e) ==
    \/ /\ job[p].call \in {"seen", "included", "set"}
       /\ Goto(p, from, "save")
       /\ held' = [held EXCEPT ![p] = Updated(job[p], e)]
       /\ copy' = [copy EXCEPT ![p] = NoAddresses]
       /\ UNCHANGED listed
    \/ /\ job[p].call = "status"
       /\ Return(p, from, Status(e))
    \/ /\ job[p].call = "stake"
       /\ Return(p, from, StakeAnswer(job[p].addr, e))

FetchFound(p) ==
    /\ pc[p] = "fetch"
    /\ entry[job[p].addr] # None
    /\ Loaded(p, "fetch", entry[job[p].addr])
    /\ UNCHANGED Database

FetchMissing(p) ==
    /\ Goto(p, "fetch", "collGet")
    /\ None \in Read(entry[job[p].addr], None)
    /\ UNCHANGED <<held, copy, listed, Database>>

\* addToCollection: read, append, save; then a new entry, which is not saved.
CollGet(p) ==
    /\ Goto(p, "collGet", "collPut")
    /\ \E got \in Read(coll, NoAddresses) :
          copy' = [copy EXCEPT ![p] = [got EXCEPT ![job[p].addr] = @ + 1]]
    /\ UNCHANGED <<held, listed, Database>>

\* Defect: the collection is not saved.
CollPutForgotten(p) ==
    /\ pc[p] = "collPut"
    /\ Loaded(p, "collPut", Fresh)
    /\ UNCHANGED Database

CollPut(p) ==
    /\ pc[p] = "collPut"
    /\ Loaded(p, "collPut", Fresh)
    /\ coll' = copy[p]
    /\ UNCHANGED <<entry, lists>>

Save(p) ==
    /\ Return(p, "save", "done")
    /\ entry' = [entry EXCEPT ![job[p].addr] = held[p]]
    /\ UNCHANGED <<coll, lists>>

EntryStep(p) ==
    FetchFound(p) \/ FetchMissing(p) \/ CollGet(p) \/ CollPut(p) \/ Save(p)

(***************************************************************************)
(* checkStake asks the whitelist first.                                    *)
(***************************************************************************)
StakeWhitelisted(p) ==
    /\ pc[p] = "whitelist"
    /\ job[p].addr \in lists["WL"]
    /\ Return(p, "whitelist", "noError")
    /\ UNCHANGED Database

\* Defect: the whitelist does not count.
StakeFetchAlways(p) ==
    /\ Goto(p, "whitelist", "fetch")
    /\ UNCHANGED <<held, copy, listed, Database>>

StakeFetch(p) ==
    /\ Goto(p, "whitelist", "fetch")
    /\ \E wl \in Read(lists["WL"], {}) : job[p].addr \notin wl
    /\ UNCHANGED <<held, copy, listed, Database>>

(***************************************************************************)
(* dump: the collection, then all its entries or none.  The answer has one *)
(* element per address of the collection, and reading the element of an    *)
(* address throws when no entry came back.                                 *)
(***************************************************************************)
DumpKeys(p) ==
    /\ Goto(p, "dpKeys", "dpMany")
    /\ \E got \in Read(coll, NoAddresses) : copy' = [copy EXCEPT ![p] = got]
    /\ UNCHANGED <<held, listed, Database>>

DumpThrows(p, found) == \E a \in Addresses : copy[p][a] > 0 /\ a \notin found

DumpMany(p) ==
    /\ \E found \in Read(Saved, {}) :
          Return(p, "dpMany", IF DumpThrows(p, found) THEN "threw" ELSE "dumped")
    /\ UNCHANGED Database

(***************************************************************************)
(* clearState deletes the entries in the collection and then the latter.   *)
(***************************************************************************)
ClearKeys(p) ==
    /\ Goto(p, "clKeys", "clDel")
    /\ \E got \in Read(coll, NoAddresses) : copy' = [copy EXCEPT ![p] = got]
    /\ UNCHANGED <<held, listed, Database>>

\* Defect: deletes addresses that are not in the copy.
ClearDelAny(p, a) ==
    /\ Goto(p, "clDel", "clDel")
    /\ copy' = [copy EXCEPT ![p][a] = @ - 1]
    /\ entry' = [entry EXCEPT ![a] = None]
    /\ UNCHANGED <<held, listed, coll, lists>>

ClearDel(p, a) ==
    /\ Goto(p, "clDel", "clDel")
    /\ copy[p][a] > 0
    /\ copy' = [copy EXCEPT ![p][a] = @ - 1]
    /\ entry' = [entry EXCEPT ![a] = None]
    /\ UNCHANGED <<held, listed, coll, lists>>

\* Defect: does not wait for the loop to end.
ClearDropEarly(p) ==
    /\ Return(p, "clDel", "cleared")
    /\ coll' = NoAddresses
    /\ UNCHANGED <<entry, lists>>

ClearDrop(p) ==
    /\ copy[p] = NoAddresses
    /\ Return(p, "clDel", "cleared")
    /\ coll' = NoAddresses
    /\ UNCHANGED <<entry, lists>>

CollectionStep(p) ==
    \/ DumpKeys(p) \/ DumpMany(p)
    \/ ClearKeys(p) \/ (\E a \in Addresses : ClearDel(p, a)) \/ ClearDrop(p)

(***************************************************************************)
(* The white and the black list: read the list, save it with one address   *)
(* more.  A removal saves what it read: the result of the filter is        *)
(* dropped (lines 197 and 205).                                            *)
(***************************************************************************)
ListGet(p) ==
    /\ Goto(p, "listGet", "listPut")
    /\ job[p].call \in {"listAdd", "listRemove"}
    /\ \E got \in Read(lists[job[p].list], {}) :
          listed' = [listed EXCEPT ![p] =
              got \cup (IF job[p].call = "listAdd" THEN {job[p].addr} ELSE {})]
    /\ UNCHANGED <<held, copy, Database>>

ListAnswer(p) ==
    /\ pc[p] = "listGet" /\ job[p].call = "isListed"
    /\ \E got \in Read(lists[job[p].list], {}) :
          Return(p, "listGet", IF job[p].addr \in got THEN "yes" ELSE "no")
    /\ UNCHANGED Database

ListPut(p) ==
    /\ Return(p, "listPut", "done")
    /\ lists' = [lists EXCEPT ![job[p].list] = listed[p]]
    /\ UNCHANGED <<coll, entry>>

ListStep(p) == ListGet(p) \/ ListAnswer(p) \/ ListPut(p)

-----------------------------------------------------------------------------
\* Time passes.
Tick ==
    /\ entry' = [a \in Addresses |-> Older(entry[a])]
    /\ held' = [p \in Proc |-> Older(held[p])]
    /\ <<entry, held>>' # <<entry, held>>
    /\ UNCHANGED <<coll, lists, pc, job, copy, listed, out>>

WriteFails(p) ==
    /\ "write" \in Faults
    /\ pc[p] \in {"collPut", "save", "clDel", "listPut"}
    /\ Return(p, pc[p], "error")
    /\ UNCHANGED Database

Crash ==
    /\ "crash" \in Faults
    /\ \E p \in Proc : pc[p] # "idle"
    /\ pc' = [p \in Proc |-> "idle"]
    /\ job' = [p \in Proc |-> None]
    /\ held' = [p \in Proc |-> None]
    /\ copy' = [p \in Proc |-> NoAddresses]
    /\ listed' = [p \in Proc |-> {}]
    /\ out' = [p \in Proc |-> "none"]
    /\ UNCHANGED Database

Step(p) ==
    \/ EntryStep(p) \/ StakeWhitelisted(p) \/ StakeFetch(p)
    \/ CollectionStep(p) \/ ListStep(p)

Next ==
    \/ \E p \in Proc :
          \/ \E j \in Jobs : Request(p, j)
          \/ Step(p)
          \/ WriteFails(p)
    \/ Tick
    \/ Crash

Spec == Init /\ [][Next]_vars
-----------------------------------------------------------------------------
(***************************************************************************)
(* What the service promises.                                              *)
(***************************************************************************)
PCs == {"idle", "fetch", "collGet", "collPut", "save", "whitelist", "dpKeys",
        "dpMany", "clKeys", "clDel", "listGet", "listPut"}

Answers == {"none", "OK", "THROTTLED", "BANNED", "banned", "delayTooLow",
            "noError", "done", "dumped", "threw", "cleared", "yes", "no",
            "error"}

\* Type invariant: what is saved and what requests hold have their shapes, a
\* request in flight has a job, and one about to save an entry holds it.
TypeOK ==
    /\ coll \in [Addresses -> Nat]
    /\ entry \in [Addresses -> Entry \cup {None}]
    /\ lists \in [Lists -> SUBSET Addresses]
    /\ pc \in [Proc -> PCs]
    /\ job \in [Proc -> Jobs \cup {None}]
    /\ held \in [Proc -> Entry \cup {None}]
    /\ copy \in [Proc -> [Addresses -> Nat]]
    /\ listed \in [Proc -> SUBSET Addresses]
    /\ out \in [Proc -> Answers]
    /\ \A p \in Proc :
          /\ pc[p] # "idle" => job[p] \in Jobs
          /\ pc[p] = "save" => held[p] \in Entry

\* Every saved entry is in the collection, so that dump and clearState reach
\* it: fetchOne saves the collection before anything saves the entry
\* (ReputationService.ts:36, 56), and a crash or a failed write may fall
\* between the two.
EntriesListed == \A a \in Saved : coll[a] > 0

\* The strengthening of EntriesListed that the steps of a single request keep:
\* the copy of the collection it will save, or has still to delete, covers
\* every entry, and the entry it will save is listed.
SerialInv ==
    /\ EntriesListed
    /\ \A p \in Proc :
          /\ pc[p] = "save" => coll[job[p].addr] > 0
          /\ pc[p] = "collPut" => copy[p][job[p].addr] > 0
          /\ pc[p] \in {"collPut", "clDel"} => \A a \in Saved : copy[p][a] > 0

\* clearState leaves no entry: "Clears the bundler mempool and reputation
\* data" (README.md:24).  It deletes what the collection names.
ClearLeavesNothing ==
    [][\A p \in Proc :
          pc[p] = "clDel" /\ out'[p] = "cleared" => Saved' = {}]_vars

\* With no inclusion counted, an address that is banned stays so until time
\* passes, somebody sets or clears its reputation: seeing more of its
\* operations never helps it (addToReputation, ReputationEntry.ts:83-87).
BanSticks ==
    [][\A a \in Saved :
          entry[a].included = 0 /\ IsBanned(entry[a])
              /\ entry'[a] # None /\ ~IsBanned(entry'[a]) =>
                 \/ entry'[a].age > entry[a].age
                 \/ \E p \in Proc : /\ pc[p] = "save"
                                    /\ job[p].call \in {"set", "included"}
                                    /\ job[p].addr = a]_vars

\* With no inclusion counted, time alone never bans an address.
TimeNeverBans ==
    [][\A a \in Saved :
          entry[a].included = 0 /\ ~IsBanned(entry[a])
              /\ entry'[a] # None /\ IsBanned(entry'[a]) =>
                 \E p \in Proc : pc[p] = "save" /\ job[p].addr = a]_vars

\* checkStake refuses for its reputation only an address that is banned and
\* not whitelisted when it answers (ReputationService.ts:145-149).
RefusedIsBanned ==
    [][\A p \in Proc :
          out'[p] = "banned" /\ out[p] # "banned" =>
              LET a == job[p].addr IN
              a \notin lists["WL"] /\ entry[a] # None /\ IsBanned(entry[a])]_vars

\* "Returns the reputation data of all observed addresses" (README.md:34): a
\* dump answers.
DumpAnswers == \A p \in Proc : out[p] # "threw"

(***************************************************************************)
(* With one request at a time the service implements the abstract ledger:  *)
(* an address without entry has a zero entry, and the collection is no     *)
(* part of it.                                                             *)
(***************************************************************************)
Ledger == [a \in Addresses |-> IF entry[a] = None THEN Fresh ELSE entry[a]]

Told == {out[p] : p \in Proc} \cap {"OK", "THROTTLED", "BANNED"}

Abstract == INSTANCE AbstractReputation
              WITH Amounts <- {j \in Jobs : j.call = "set"},
                   ledger <- Ledger, answers <- Told

\* Each call changes the counts by exactly what it says, in one step, though
\* writes fail and the process crashes; a status is the ledger's.
ImplementsLedger == Abstract!Spec
=============================================================================
