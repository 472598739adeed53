----------------------- MODULE ReputationService_proofs -----------------------
(***************************************************************************)
(* Theorems about the reputation service, for any addresses, jobs, number  *)
(* of requests, parameters of the ban rule and bounds.                     *)
(***************************************************************************)
EXTENDS ReputationService, TLAPS

\* What a job is, field by field.
LEMMA JobType ==
    ASSUME NEW j \in Jobs
    PROVE  /\ j.call \in CallNames /\ j.addr \in Addresses
           /\ j.seen \in Nat /\ j.included \in Nat /\ j.list \in Lists
BY JobsAssumption

\* The ages of entries start at zero.
LEMMA AgesStart == MaxAge \in Nat /\ 0 \in 0 .. MaxAge /\ Fresh \in Entry
<1>1. \A x, y \in Nat : x * y \in Nat
  OBVIOUS
<1>2. MaxAge \in Nat
  BY <1>1, ServiceAssumption DEF MaxAge
<1> QED
  BY <1>2 DEF Fresh, Entry

\* The entry is of a type with the missing one, whatever a call does to it.
LEMMA EntryOps ==
    ASSUME NEW e \in Entry, NEW j \in Jobs
    PROVE  Updated(j, e) \in Entry
BY JobType, AgesStart DEF Updated, SetReputation, AddToReputation, Entry

\* Getting older keeps an entry an entry and a missing one missing.
LEMMA OlderType ==
    ASSUME NEW e \in Entry \cup {None}
    PROVE  /\ Older(e) \in Entry \cup {None}
           /\ Older(e) = None <=> e = None
           /\ e \in Entry => Older(e) \in Entry
<1>1. CASE e = None
  BY <1>1, JobsAssumption DEF Older
<1>2. CASE e \in Entry
  <2>1. e # None /\ Older(e) \in Entry
    BY <1>2, JobsAssumption, AgesStart DEF Older, Entry
  <2> QED
    BY <2>1, <1>2, JobsAssumption
<1> QED
  BY <1>1, <1>2

-----------------------------------------------------------------------------
\* A status is one of the three.
LEMMA StatusType == \A e : Status(e) \in {"OK", "THROTTLED", "BANNED"}
BY DEF Status

\* Every step leads from well shaped records to well shaped records.
LEMMA TypeStep == TypeOK /\ [Next]_vars => TypeOK'
<1> SUFFICES ASSUME TypeOK, [Next]_vars PROVE TypeOK'
  OBVIOUS
<1> USE DEF TypeOK, Database
<1>0. CASE UNCHANGED vars
  BY <1>0 DEF vars
<1>z. NoAddresses \in [Addresses -> Nat]
  BY DEF NoAddresses
<1>1. ASSUME NEW p \in Proc, NEW j \in Jobs, Request(p, j) PROVE TypeOK'
  <2>1. Start(j.call) \in PCs \ {"idle", "save"}
    BY DEF Start, PCs
  <2> QED
    BY <1>1, <2>1 DEF Request, Answers
<1>2. ASSUME NEW p \in Proc, Step(p) PROVE TypeOK'
  \* A request that goes on, with what it holds well shaped.
  <2>a. ASSUME NEW from \in PCs \ {"idle"}, NEW to \in PCs,
               Goto(p, from, to), to = "save" => held'[p] \in Entry,
               coll' \in [Addresses -> Nat],
               entry' \in [Addresses -> Entry \cup {None}],
               lists' \in [Lists -> SUBSET Addresses],
               copy' \in [Proc -> [Addresses -> Nat]],
               listed' \in [Proc -> SUBSET Addresses],
               held' = held \/ \E e \in Entry : held' = [held EXCEPT ![p] = e]
        PROVE  TypeOK'
    BY <2>a DEF Goto
  \* A request that ends.
  <2>b. ASSUME NEW from \in PCs, NEW answer \in Answers,
               Return(p, from, answer),
               coll' \in [Addresses -> Nat],
               entry' \in [Addresses -> Entry \cup {None}],
               lists' \in [Lists -> SUBSET Addresses]
        PROVE  TypeOK'
    BY <2>b, <1>z DEF Return, PCs
  <2>j. pc[p] # "idle" =>
           job[p] \in Jobs /\ job[p].addr \in Addresses /\ job[p].list \in Lists
    BY JobType
  <2>c. ASSUME NEW from \in PCs \ {"idle"}, pc[p] = from, NEW e \in Entry,
               Loaded(p, from, e), coll' \in [Addresses -> Nat],
               UNCHANGED <<entry, lists>>
        PROVE  TypeOK'
    <3>1. CASE job[p].call \in {"seen", "included", "set"}
      <4>1. Updated(job[p], e) \in Entry
        BY <2>c, <2>j, EntryOps
      <4>2. /\ Goto(p, from, "save")
            /\ held' = [held EXCEPT ![p] = Updated(job[p], e)]
            /\ copy' = [copy EXCEPT ![p] = NoAddresses]
            /\ UNCHANGED listed
        BY <2>c, <3>1 DEF Loaded
      <4> QED
        BY <2>a, <2>c, <4>1, <4>2, <1>z DEF PCs
    <3>2. CASE job[p].call \notin {"seen", "included", "set"}
      <4>1. StakeAnswer(job[p].addr, e) \in Answers /\ Status(e) \in Answers
        BY StatusType DEF StakeAnswer, Answers
      <4> QED
        BY <2>b, <2>c, <3>2, <4>1 DEF Loaded
    <3> QED
      BY <3>1, <3>2
  <2>1. CASE FetchFound(p)
    BY <2>1, <2>c, <2>j DEF FetchFound, PCs
  <2>2. CASE FetchMissing(p) \/ StakeFetch(p)
    BY <2>2, <2>a DEF FetchMissing, StakeFetch, PCs
  <2>3. CASE CollGet(p)
    <3>1. PICK got \in [Addresses -> Nat] :
             copy' = [copy EXCEPT ![p] = [got EXCEPT ![job[p].addr] = @ + 1]]
      BY <2>3, <1>z DEF CollGet, Read
    <3>2. copy' \in [Proc -> [Addresses -> Nat]]
      BY <3>1, <2>3, <2>j DEF CollGet, Goto
    <3> QED
      BY <2>3, <3>2, <2>a DEF CollGet, PCs
  <2>4. CASE CollPut(p)
    BY <2>4, <2>c, AgesStart DEF CollPut, PCs
  <2>5. CASE Save(p)
    BY <2>5, <2>b, <2>j DEF Save, PCs, Answers, Return
  <2>6. CASE StakeWhitelisted(p) \/ DumpMany(p)
    BY <2>6, <2>b DEF StakeWhitelisted, DumpMany, PCs, Answers
  <2>7. CASE DumpKeys(p) \/ ClearKeys(p)
    <3>1. copy' \in [Proc -> [Addresses -> Nat]]
      <4>1. PICK got \in [Addresses -> Nat] : copy' = [copy EXCEPT ![p] = got]
        BY <2>7, <1>z DEF DumpKeys, ClearKeys, Read
      <4> QED
        BY <4>1
    <3>2. CASE DumpKeys(p)
      BY <3>1, <3>2, <2>a DEF DumpKeys, PCs
    <3>3. CASE ClearKeys(p)
      BY <3>1, <3>3, <2>a DEF ClearKeys, PCs
    <3> QED
      BY <2>7, <3>2, <3>3
  <2>8. ASSUME NEW a \in Addresses, ClearDel(p, a) PROVE TypeOK'
    <3>1. copy' \in [Proc -> [Addresses -> Nat]]
      BY <2>8 DEF ClearDel
    <3> QED
      BY <2>8, <3>1, <2>a DEF ClearDel, PCs
  <2>9. CASE ClearDrop(p)
    BY <2>9, <2>b, <1>z DEF ClearDrop, PCs, Answers
  <2>10. CASE ListGet(p)
    <3>1. listed' \in [Proc -> SUBSET Addresses]
      <4>1. PICK got \in SUBSET Addresses :
               listed' = [listed EXCEPT ![p] =
                  got \cup (IF job[p].call = "listAdd" THEN {job[p].addr} ELSE {})]
        BY <2>10, <2>j DEF ListGet, Goto, Read
      <4> QED
        BY <4>1, <2>10, <2>j DEF ListGet, Goto
    <3> QED
      BY <2>10, <3>1, <2>a DEF ListGet, PCs
  <2>11. CASE ListAnswer(p)
    BY <2>11, <2>b DEF ListAnswer, PCs, Answers
  <2>12. CASE ListPut(p)
    BY <2>12, <2>b, <2>j DEF ListPut, PCs, Answers, Return
  <2> QED
    BY <1>2, <2>1, <2>2, <2>3, <2>4, <2>5, <2>6, <2>7, <2>8, <2>9, <2>10,
       <2>11, <2>12 DEF Step, EntryStep, CollectionStep, ListStep
<1>3. CASE Tick
  <2>1. entry' \in [Addresses -> Entry \cup {None}]
        /\ held' \in [Proc -> Entry \cup {None}]
    BY <1>3, OlderType DEF Tick
  <2>2. \A p \in Proc : pc'[p] = "save" => held'[p] \in Entry
    BY <1>3, OlderType DEF Tick
  <2> QED
    BY <1>3, <2>1, <2>2 DEF Tick
<1>4. ASSUME NEW p \in Proc, WriteFails(p) PROVE TypeOK'
  BY <1>4, <1>z DEF WriteFails, Return, PCs, Answers
<1>5. CASE Crash
  BY <1>5, <1>z DEF Crash, PCs, Answers
<1> QED
  BY <1>0, <1>1, <1>2, <1>3, <1>4, <1>5 DEF Next

\* What is saved and what requests hold keep their shapes, however many
\* requests run and whatever fails.
THEOREM TypeCorrect == Spec => []TypeOK
<1>1. Init => TypeOK
  BY DEF Init, TypeOK, NoAddresses, PCs, Answers
<1> QED
  BY <1>1, TypeStep, PTL DEF Spec

-----------------------------------------------------------------------------
(***************************************************************************)
(* One request at a time; any write and the process may fail, but no read. *)
(***************************************************************************)
OneAtATime == "read" \notin Faults /\ \A p, q \in Proc : p = q

\* Where no read fails, each returns what is saved.
LEMMA ReadSaved == ASSUME OneAtATime PROVE \A x, y : Read(x, y) = {x}
BY DEF OneAtATime, Read, ReadFails

\* Every step of a single request keeps SerialInv, one that a write or the
\* process breaks off included.
LEMMA SerialStep ==
    OneAtATime /\ TypeOK /\ SerialInv /\ [Next]_vars => SerialInv'
<1> SUFFICES ASSUME OneAtATime, TypeOK, SerialInv, [Next]_vars PROVE SerialInv'
  OBVIOUS
<1> USE DEF Database
<1>0. CASE UNCHANGED vars
  BY <1>0 DEF vars, SerialInv, EntriesListed, Saved
\* After a step the one request is at a place that holds nothing.
<1>a. ASSUME NEW p \in Proc, EntriesListed',
             pc'[p] \notin {"save", "collPut", "clDel"}
      PROVE  SerialInv'
  BY <1>a DEF SerialInv, OneAtATime
<1>b. ASSUME UNCHANGED <<coll, entry>> PROVE EntriesListed'
  BY <1>b DEF SerialInv, EntriesListed, Saved
<1>1. ASSUME NEW p \in Proc, NEW j \in Jobs, Request(p, j) PROVE SerialInv'
  <2>1. pc'[p] \notin {"save", "collPut", "clDel"}
    BY <1>1 DEF Request, Start, TypeOK
  <2> QED
    BY <1>1, <2>1, <1>a, <1>b DEF Request
<1>2. ASSUME NEW p \in Proc, Step(p) PROVE SerialInv'
  <2>q. \A q \in Proc : q = p
    BY DEF OneAtATime
  <2>j. pc[p] # "idle" => job[p] \in Jobs /\ job[p].addr \in Addresses
    BY JobType DEF TypeOK
  \* An entry returned by fetchOne is listed, and is saved or answered.
  <2>r. Read(coll, NoAddresses) = {coll}
    BY ReadSaved
  <2>l. ASSUME NEW from, NEW e, Loaded(p, from, e),
               EntriesListed', coll'[job[p].addr] > 0
        PROVE  SerialInv'
    <3>1. CASE Goto(p, from, "save")
      BY <2>l, <3>1, <2>q DEF Goto, SerialInv, TypeOK
    <3>2. CASE ~Goto(p, from, "save")
      <4>1. PICK answer : Return(p, from, answer)
        BY <2>l, <3>2 DEF Loaded
      <4> QED
        BY <4>1, <2>l, <1>a DEF Return, TypeOK
    <3> QED
      BY <3>1, <3>2
  <2>1. CASE FetchFound(p)
    <3>1. job[p].addr \in Saved /\ UNCHANGED <<coll, entry>>
      BY <2>1, <2>j DEF FetchFound, Saved
    <3> QED
      BY <2>1, <3>1, <2>l, <1>b DEF FetchFound, SerialInv, EntriesListed
  <2>2. CASE FetchMissing(p) \/ StakeFetch(p) \/ DumpKeys(p) \/ ListGet(p)
    BY <2>2, <1>a, <1>b DEF FetchMissing, StakeFetch, DumpKeys, ListGet, Goto,
       TypeOK
  <2>3. CASE CollGet(p)
    <3> DEFINE a == job[p].addr
    <3>1. /\ pc[p] = "collGet" /\ pc' = [pc EXCEPT ![p] = "collPut"]
          /\ copy' = [copy EXCEPT ![p] = [coll EXCEPT ![a] = @ + 1]]
          /\ UNCHANGED <<job, coll, entry>>
      BY <2>3, <2>r DEF CollGet, Goto
    <3>2. a \in Addresses
      BY <3>1, <2>j
    <3>3. copy'[p][a] > 0
      BY <3>1, <3>2 DEF TypeOK
    <3>4. \A b \in Saved : copy'[p][b] > 0
      <4> SUFFICES ASSUME NEW b \in Saved PROVE copy'[p][b] > 0
        OBVIOUS
      <4>1. CASE b = a
        BY <4>1, <3>3
      <4>2. CASE b # a
        BY <4>2, <3>1, <3>2 DEF TypeOK, SerialInv, EntriesListed, Saved
      <4> QED
        BY <4>1, <4>2
    <3> QED
      BY <3>1, <3>3, <3>4, <1>b, <2>q DEF SerialInv, TypeOK, Saved
  <2>4. CASE CollPut(p)
    <3>1. coll' = copy[p] /\ entry' = entry /\ pc[p] = "collPut"
      BY <2>4 DEF CollPut
    <3>2. EntriesListed' /\ coll'[job[p].addr] > 0
      BY <3>1 DEF SerialInv, EntriesListed, Saved
    <3> QED
      BY <2>4, <3>2, <2>l DEF CollPut
  <2>5. CASE Save(p)
    <3>1. pc[p] = "save" /\ pc'[p] = "idle" /\ coll' = coll
          /\ entry' = [entry EXCEPT ![job[p].addr] = held[p]]
      BY <2>5 DEF Save, Return, TypeOK
    <3>2. EntriesListed'
      BY <3>1, <2>j DEF SerialInv, EntriesListed, Saved, TypeOK
    <3> QED
      BY <3>1, <3>2, <1>a
  <2>6. CASE StakeWhitelisted(p) \/ DumpMany(p) \/ ListAnswer(p) \/ ListPut(p)
    BY <2>6, <1>a, <1>b DEF StakeWhitelisted, DumpMany, ListAnswer, ListPut,
       Return, TypeOK
  <2>7. CASE ClearKeys(p)
    <3>1. pc' = [pc EXCEPT ![p] = "clDel"] /\ pc[p] = "clKeys"
          /\ copy' = [copy EXCEPT ![p] = coll] /\ UNCHANGED <<coll, entry>>
      BY <2>7, <2>r DEF ClearKeys, Goto
    <3> QED
      BY <3>1, <1>b, <2>q DEF SerialInv, EntriesListed, Saved, TypeOK
  <2>8. ASSUME NEW a \in Addresses, ClearDel(p, a) PROVE SerialInv'
    <3>1. /\ pc[p] = "clDel" /\ pc'[p] = "clDel" /\ coll' = coll
          /\ copy' = [copy EXCEPT ![p][a] = @ - 1]
          /\ entry' = [entry EXCEPT ![a] = None]
      BY <2>8 DEF ClearDel, Goto, TypeOK
    <3>2. Saved' = Saved \ {a}
      BY <3>1 DEF Saved, TypeOK
    <3>3. \A b \in Saved' : copy'[p][b] > 0
      BY <3>1, <3>2 DEF SerialInv, Saved, TypeOK
    <3> QED
      BY <3>1, <3>2, <3>3, <2>q DEF SerialInv, EntriesListed
  <2>9. CASE ClearDrop(p)
    <3>1. Saved = {}
      BY <2>9 DEF ClearDrop, Return, NoAddresses, SerialInv, Saved
    <3> QED
      BY <2>9, <3>1, <1>a DEF ClearDrop, Return, EntriesListed, Saved, TypeOK
  <2> QED
    BY <1>2, <2>1, <2>2, <2>3, <2>4, <2>5, <2>6, <2>7, <2>8, <2>9
    DEF Step, EntryStep, CollectionStep, ListStep
<1>3. CASE Tick
  <2>1. Saved' = Saved
    BY <1>3, OlderType DEF Tick, Saved, TypeOK
  <2> QED
    BY <1>3, <2>1 DEF Tick, SerialInv, EntriesListed
<1>4. ASSUME NEW p \in Proc, WriteFails(p) PROVE SerialInv'
  BY <1>4, <1>a, <1>b DEF WriteFails, Return, TypeOK
<1>5. CASE Crash
  BY <1>5, <1>b DEF Crash, SerialInv
<1> QED
  BY <1>0, <1>1, <1>2, <1>3, <1>4, <1>5 DEF Next

\* Requests that come one at a time never save an entry that dump and
\* clearState do not reach, though any write may fail and the process may
\* crash at any await.
THEOREM SerialEntriesListed == ASSUME OneAtATime PROVE Spec => []EntriesListed
<1>1. Init => SerialInv
  BY DEF Init, SerialInv, EntriesListed, Saved
<1>2. SerialInv => EntriesListed
  BY DEF SerialInv
<1>3. TypeOK /\ SerialInv /\ [Next]_vars => SerialInv'
  BY SerialStep
<1>4. Spec => []TypeOK
  BY TypeCorrect
<1> QED
  BY <1>1, <1>2, <1>3, <1>4, PTL DEF Spec

\* What the one request in flight relies on, besides SerialInv: it has no
\* answer yet, and an address whose stake is looked at is not whitelisted.
AnswerInv ==
    \A p \in Proc :
        /\ pc[p] # "idle" => out[p] = "none"
        /\ pc[p] \in {"fetch", "collGet", "collPut"}
              /\ job[p].call = "stake" => job[p].addr \notin lists["WL"]

\* Every step of a single request keeps AnswerInv.
LEMMA AnswerStep ==
    OneAtATime /\ TypeOK /\ AnswerInv /\ [Next]_vars => AnswerInv'
<1> SUFFICES ASSUME OneAtATime, TypeOK, AnswerInv, [Next]_vars
             PROVE  AnswerInv'
  OBVIOUS
<1> USE DEF Database
<1>0. CASE UNCHANGED vars
  BY <1>0 DEF vars, AnswerInv
\* The one request is over, or goes on with the lists as they are.
<1>a. ASSUME NEW p \in Proc, pc'[p] = "idle" PROVE AnswerInv'
  BY <1>a DEF AnswerInv, OneAtATime
<1>b. ASSUME NEW p \in Proc, NEW from \in PCs \ {"idle"}, NEW to \in PCs,
             Goto(p, from, to), lists' = lists,
             from \notin {"fetch", "collGet"} /\ job[p].call = "stake"
                /\ to \in {"fetch", "collGet", "collPut"} =>
                      job[p].addr \notin lists["WL"]
      PROVE  AnswerInv'
  BY <1>b DEF Goto, AnswerInv, OneAtATime, TypeOK
<1>1. ASSUME NEW p \in Proc, NEW j \in Jobs, Request(p, j) PROVE AnswerInv'
  <2>1. /\ pc'[p] = Start(j.call) /\ out'[p] = "none" /\ job'[p] = j
        /\ \A q \in Proc : q = p
    BY <1>1 DEF Request, TypeOK, OneAtATime
  <2>2. Start(j.call) \in {"fetch", "collGet", "collPut"} => j.call # "stake"
    BY DEF Start
  <2> QED
    BY <2>1, <2>2 DEF AnswerInv
<1>2. ASSUME NEW p \in Proc, Step(p) PROVE AnswerInv'
  <2>r. ASSUME NEW from, NEW answer, Return(p, from, answer) PROVE AnswerInv'
    BY <2>r, <1>a DEF Return, TypeOK
  <2>l. ASSUME NEW from \in PCs \ {"idle"}, NEW e, Loaded(p, from, e),
               lists' = lists
        PROVE  AnswerInv'
    <3>1. CASE Goto(p, from, "save")
      BY <2>l, <3>1, <1>b DEF PCs
    <3>2. CASE ~Goto(p, from, "save")
      BY <2>l, <3>2, <2>r DEF Loaded
    <3> QED
      BY <3>1, <3>2
  <2>1. CASE FetchFound(p) \/ CollPut(p)
    BY <2>1, <2>l DEF FetchFound, CollPut, PCs
  <2>2. CASE FetchMissing(p) \/ CollGet(p)
    BY <2>2, <1>b DEF FetchMissing, CollGet, PCs
  <2>3. CASE StakeFetch(p)
    <3>1. job[p].addr \notin lists["WL"]
      BY <2>3, ReadSaved DEF StakeFetch
    <3> QED
      BY <2>3, <3>1, <1>b DEF StakeFetch, PCs
  <2>4. CASE DumpKeys(p) \/ ClearKeys(p)
    BY <2>4, <1>b DEF DumpKeys, ClearKeys, PCs
  <2>5. ASSUME NEW a \in Addresses, ClearDel(p, a) PROVE AnswerInv'
    BY <2>5, <1>b DEF ClearDel, PCs
  <2>6. CASE ListGet(p)
    BY <2>6, <1>b DEF ListGet, PCs
  <2>7. CASE Save(p) \/ StakeWhitelisted(p) \/ DumpMany(p) \/ ClearDrop(p)
             \/ ListAnswer(p) \/ ListPut(p)
    BY <2>7, <2>r DEF Save, StakeWhitelisted, DumpMany, ClearDrop, ListAnswer,
       ListPut
  <2> QED
    BY <1>2, <2>1, <2>2, <2>3, <2>4, <2>5, <2>6, <2>7
    DEF Step, EntryStep, CollectionStep, ListStep
<1>3. CASE Tick
  BY <1>3 DEF Tick, AnswerInv
<1>4. ASSUME NEW p \in Proc, WriteFails(p) PROVE AnswerInv'
  BY <1>4, <1>a DEF WriteFails, Return, TypeOK
<1>5. CASE Crash
  BY <1>5 DEF Crash, AnswerInv
<1> QED
  BY <1>0, <1>1, <1>2, <1>3, <1>4, <1>5 DEF Next

\* AnswerInv holds of every run with one request at a time.
LEMMA AnswerHolds == ASSUME OneAtATime PROVE Spec => []AnswerInv
<1>1. Init => AnswerInv
  BY DEF Init, AnswerInv
<1>2. TypeOK /\ AnswerInv /\ [Next]_vars => AnswerInv'
  BY AnswerStep
<1> QED
  BY <1>1, <1>2, TypeCorrect, PTL DEF Spec

\* SerialInv holds of every run with one request at a time.
LEMMA SerialHolds == ASSUME OneAtATime PROVE Spec => []SerialInv
<1>1. Init => SerialInv
  BY DEF Init, SerialInv, EntriesListed, Saved
<1>2. TypeOK /\ SerialInv /\ [Next]_vars => SerialInv'
  BY SerialStep
<1> QED
  BY <1>1, <1>2, TypeCorrect, PTL DEF Spec

-----------------------------------------------------------------------------
\* clearState of a single request deletes every entry before it says so.
THEOREM SerialClears == ASSUME OneAtATime PROVE Spec => ClearLeavesNothing
<1> DEFINE Emptied == \A p \in Proc :
                pc[p] = "clDel" /\ out'[p] = "cleared" => Saved' = {}
<1>1. TypeOK /\ SerialInv /\ AnswerInv /\ [Next]_vars => Emptied
  <2> SUFFICES ASSUME TypeOK, SerialInv, AnswerInv, [Next]_vars,
                      NEW p \in Proc, pc[p] = "clDel", out'[p] = "cleared"
               PROVE  Saved' = {}
    OBVIOUS
  <2>1. out[p] = "none" /\ \A q \in Proc : q = p
    BY DEF AnswerInv, OneAtATime
  <2>2. CASE ClearDrop(p)
    BY <2>2 DEF ClearDrop, Return, NoAddresses, SerialInv, Saved
  <2>3. ~ClearDrop(p) => out'[p] # "cleared"
    <3> SUFFICES ASSUME ~ClearDrop(p) PROVE out'[p] # "cleared"
      OBVIOUS
    <3>1. CASE UNCHANGED vars \/ Tick
      BY <3>1, <2>1 DEF vars, Tick
    <3>2. ASSUME NEW j \in Jobs, Request(p, j) PROVE FALSE
      BY <3>2 DEF Request
    <3>3. CASE WriteFails(p) \/ Crash
      BY <3>3 DEF WriteFails, Return, Crash, TypeOK
    <3>4. CASE Step(p)
      <4>1. PICK a \in Addresses : ClearDel(p, a)
        BY <3>4 DEF Step, EntryStep, CollectionStep, ListStep, FetchFound,
           FetchMissing, CollGet, CollPut, Save, StakeWhitelisted, StakeFetch,
           DumpKeys, DumpMany, ClearKeys, ListGet, ListAnswer, ListPut, Goto,
           Return
      <4> QED
        BY <4>1, <2>1 DEF ClearDel, Goto
    <3> QED
      BY <3>1, <3>2, <3>3, <3>4, <2>1 DEF Next
  <2> QED
    BY <2>2, <2>3
<1>2. TypeOK /\ SerialInv /\ AnswerInv /\ [Next]_vars => [Emptied]_vars
  BY <1>1
<1>3. Spec => []TypeOK /\ []SerialInv /\ []AnswerInv
  BY TypeCorrect, SerialHolds, AnswerHolds
<1> QED
  BY <1>2, <1>3, PTL DEF Spec, ClearLeavesNothing

-----------------------------------------------------------------------------
(***************************************************************************)
(* The decay of the counts, for any parameters of the ban rule.            *)
(***************************************************************************)

\* Rounded quotients grow with what is divided.
LEMMA DivMonotone ==
    ASSUME NEW x \in Int, NEW y \in Int, NEW d \in Nat \ {0}, x <= y
    PROVE  x \div d \in Int /\ y \div d \in Int /\ x \div d <= y \div d
OBVIOUS

\* The hours of an entry and what they leave of a count are integers.
LEMMA DecayedType ==
    ASSUME NEW e \in Entry, NEW raw \in Nat
    PROVE  EnlapsedHours(e) \in Int /\ Decayed(raw, e) \in Int
BY ServiceAssumption, AgesStart DEF Decayed, EnlapsedHours, Entry

\* What was never counted does not decay.
LEMMA NothingDecays ==
    ASSUME NEW e \in Entry PROVE Decayed(0, e) = 0
<1>1. EnlapsedHours(e) \in Int /\ DecayHours \in Nat \ {0}
  BY DecayedType, ServiceAssumption
<1>2. 0 * (DecayHours - EnlapsedHours(e)) = 0
  BY <1>1
<1>3. \A d \in Nat \ {0} : 0 \div d = 0
  OBVIOUS
<1> QED
  BY <1>1, <1>2, <1>3 DEF Decayed

\* With nothing counted nobody is banned.
LEMMA FreshIsNotBanned == ~IsBanned(Fresh)
<1>1. Fresh.seen = 0 /\ Fresh.included = 0 /\ Fresh \in Entry
  BY AgesStart DEF Fresh
<1>2. OpsSeen(Fresh) = 0 /\ OpsIncluded(Fresh) = 0
  BY <1>1, NothingDecays DEF OpsSeen, OpsIncluded
<1>3. \A d \in Nat \ {0} : (0 + d - 1) \div d = 0
  OBVIOUS
<1> QED
  BY <1>2, <1>3, ServiceAssumption DEF IsBanned, MinExpectedIncluded

\* An entry that gets older has seen no more.
LEMMA OlderSeesNoMore ==
    ASSUME NEW e \in Entry
    PROVE  /\ Older(e).included = e.included
           /\ OpsSeen(Older(e)) <= OpsSeen(e)
<1>1. Older(e) \in Entry /\ e # None
  BY OlderType, JobsAssumption
<1>2. /\ Older(e).seen = e.seen /\ Older(e).included = e.included
      /\ e.age <= Older(e).age
  BY <1>1, AgesStart DEF Older, Entry
<1>3. EnlapsedHours(e) <= EnlapsedHours(Older(e))
  BY <1>1, <1>2, DivMonotone, ServiceAssumption, AgesStart
  DEF EnlapsedHours, Entry
<1>4. \A raw \in Nat, a, b \in Int : a <= b => raw * a <= raw * b
  OBVIOUS
<1> DEFINE hours(x) == DecayHours - EnlapsedHours(x)
<1>5. hours(e) \in Int /\ hours(Older(e)) \in Int
      /\ hours(Older(e)) <= hours(e) /\ e.seen \in Nat
  BY <1>1, <1>3, DecayedType, ServiceAssumption DEF Entry
<1>6. e.seen * hours(Older(e)) \in Int /\ e.seen * hours(e) \in Int
      /\ e.seen * hours(Older(e)) <= e.seen * hours(e)
  <2> HIDE DEF hours
  <2> QED
    BY <1>4, <1>5
<1>7. (e.seen * hours(Older(e))) \div DecayHours
          <= (e.seen * hours(e)) \div DecayHours
  <2> HIDE DEF hours
  <2> QED
    BY <1>6, DivMonotone, ServiceAssumption
<1> QED
  BY <1>2, <1>7 DEF OpsSeen, Decayed

\* An entry without inclusions that is not banned is not when it is older.
LEMMA OlderIsNotBanned ==
    ASSUME NEW e \in Entry, e.included = 0, ~IsBanned(e)
    PROVE  ~IsBanned(Older(e))
<1>1. Older(e) \in Entry /\ Older(e).included = 0
      /\ OpsSeen(Older(e)) <= OpsSeen(e)
  BY OlderType, OlderSeesNoMore, JobsAssumption
<1>2. OpsIncluded(e) = 0 /\ OpsIncluded(Older(e)) = 0
  BY <1>1, NothingDecays DEF OpsIncluded
<1>3. OpsSeen(e) \in Int /\ OpsSeen(Older(e)) \in Int
  BY <1>1, DecayedType DEF OpsSeen, Entry
<1>4. MinExpectedIncluded(Older(e)) \in Int /\ MinExpectedIncluded(e) \in Int
      /\ MinExpectedIncluded(Older(e)) <= MinExpectedIncluded(e)
  BY <1>1, <1>3, DivMonotone, ServiceAssumption DEF MinExpectedIncluded
<1> QED
  BY <1>2, <1>4, ServiceAssumption DEF IsBanned

-----------------------------------------------------------------------------
\* However many requests run, only the saving of an entry turns an address
\* without inclusions into a banned one; the clock never does.
THEOREM ClockNeverBans == Spec => TimeNeverBans
<1> DEFINE Kept == \A a \in Saved :
          entry[a].included = 0 /\ ~IsBanned(entry[a])
              /\ entry'[a] # None /\ IsBanned(entry'[a]) =>
                 \E p \in Proc : pc[p] = "save" /\ job[p].addr = a
<1>1. TypeOK /\ [Next]_vars => Kept
  <2> SUFFICES ASSUME TypeOK, [Next]_vars, NEW a \in Saved,
                      entry[a].included = 0, ~IsBanned(entry[a]),
                      entry'[a] # None, IsBanned(entry'[a])
               PROVE  \E p \in Proc : pc[p] = "save" /\ job[p].addr = a
    OBVIOUS
  <2>0. a \in Addresses /\ entry[a] \in Entry
    BY DEF Saved, TypeOK
  <2>1. CASE Tick
    BY <2>0, <2>1, OlderIsNotBanned DEF Tick
  <2>2. ASSUME NEW p \in Proc, Save(p)
        PROVE  pc[p] = "save" /\ (job[p].addr = a \/ entry'[a] = entry[a])
    BY <2>0, <2>2 DEF Save, Return, TypeOK
  <2>3. ASSUME NEW p \in Proc, NEW b \in Addresses, ClearDel(p, b)
        PROVE  entry'[a] = entry[a]
    BY <2>0, <2>3 DEF ClearDel, TypeOK
  <2>4. ASSUME NEW p \in Proc, Step(p), ~Save(p),
               \A b \in Addresses : ~ClearDel(p, b)
        PROVE  entry' = entry
    BY <2>4 DEF Step, EntryStep, CollectionStep, ListStep, FetchFound,
       FetchMissing, CollGet, CollPut, StakeWhitelisted, StakeFetch,
       DumpKeys, DumpMany, ClearKeys, ClearDrop, ListGet, ListAnswer, ListPut,
       Database
  <2>5. ASSUME ~Tick, ~\E p \in Proc : Step(p) PROVE entry' = entry
    BY <2>5 DEF Next, vars, Request, WriteFails, Crash, Database
  <2> QED
    BY <2>1, <2>2, <2>3, <2>4, <2>5
<1>2. TypeOK /\ [Next]_vars => [Kept]_vars
  BY <1>1
<1> QED
  BY <1>2, TypeCorrect, PTL DEF Spec, TimeNeverBans

-----------------------------------------------------------------------------
\* With one request at a time checkStake refuses for its reputation only an
\* address that is banned and not whitelisted at that moment.
THEOREM SerialRefusals == ASSUME OneAtATime PROVE Spec => RefusedIsBanned
<1> DEFINE Just == \A p \in Proc :
          out'[p] = "banned" /\ out[p] # "banned" =>
              LET a == job[p].addr IN
              a \notin lists["WL"] /\ entry[a] # None /\ IsBanned(entry[a])
<1>1. TypeOK /\ AnswerInv /\ [Next]_vars => Just
  <2> SUFFICES ASSUME TypeOK, AnswerInv, [Next]_vars, NEW p \in Proc,
                      out'[p] = "banned", out[p] # "banned"
               PROVE  LET a == job[p].addr IN
                      a \notin lists["WL"] /\ entry[a] # None
                          /\ IsBanned(entry[a])
    OBVIOUS
  <2>q. \A q \in Proc : q = p
    BY DEF OneAtATime
  <2>1. Step(p)
    BY <2>q DEF Next, vars, Request, WriteFails, Return, Tick, Crash, TypeOK
  \* Only the answer of checkStake is such a refusal.
  <2>r. ASSUME NEW from, NEW answer, Return(p, from, answer)
        PROVE  answer = "banned"
    BY <2>r DEF Return, TypeOK
  <2>l. ASSUME NEW from, NEW e, Loaded(p, from, e)
        PROVE  job[p].call = "stake" /\ IsBanned(e)
    <3>1. ~(\E to : Goto(p, from, to))
      BY DEF Goto
    <3>2. \/ job[p].call = "status" /\ Return(p, from, Status(e))
          \/ job[p].call = "stake"
                /\ Return(p, from, StakeAnswer(job[p].addr, e))
      BY <2>l, <3>1 DEF Loaded
    <3>3. Status(e) # "banned"
      BY StatusType
    <3>4. StakeAnswer(job[p].addr, e) = "banned" => IsBanned(e)
      BY DEF StakeAnswer, Status
    <3> QED
      BY <3>2, <3>3, <3>4, <2>r
  <2>2. CASE FetchFound(p)
    <3>1. pc[p] = "fetch" /\ entry[job[p].addr] # None
          /\ Loaded(p, "fetch", entry[job[p].addr])
      BY <2>2 DEF FetchFound
    <3> QED
      BY <3>1, <2>l DEF AnswerInv
  <2>3. ~CollPut(p)
    BY <2>l, FreshIsNotBanned DEF CollPut
  <2>4. ~Save(p) /\ ~StakeWhitelisted(p) /\ ~DumpMany(p) /\ ~ClearDrop(p)
        /\ ~ListAnswer(p) /\ ~ListPut(p)
    BY <2>r DEF Save, StakeWhitelisted, DumpMany, ClearDrop, ListAnswer,
       ListPut
  <2>5. ~FetchMissing(p) /\ ~CollGet(p) /\ ~StakeFetch(p) /\ ~DumpKeys(p)
        /\ ~ClearKeys(p) /\ ~ListGet(p)
        /\ ~\E a \in Addresses : ClearDel(p, a)
    BY DEF FetchMissing, CollGet, StakeFetch, DumpKeys, ClearKeys, ListGet,
       ClearDel, Goto
  <2> QED
    BY <2>1, <2>2, <2>3, <2>4, <2>5
    DEF Step, EntryStep, CollectionStep, ListStep
<1>2. TypeOK /\ AnswerInv /\ [Next]_vars => [Just]_vars
  BY <1>1
<1>3. Spec => []TypeOK /\ []AnswerInv
  BY TypeCorrect, AnswerHolds
<1> QED
  BY <1>2, <1>3, PTL DEF Spec, RefusedIsBanned

-----------------------------------------------------------------------------
(***************************************************************************)
(* The service implements the ledger.  A call that counts operations seen  *)
(* or included counts one, as updateSeenStatus and updateIncludedStatus    *)
(* do.                                                                     *)
(***************************************************************************)
CountsOne ==
    \A j \in Jobs :
        /\ j.call = "seen" => j.seen = 1 /\ j.included = 0
        /\ j.call = "included" => j.seen = 0 /\ j.included = 1

\* What the one request in flight knows of the ledger: an address it found
\* without entry has none yet, and the entry it will save is the ledger's,
\* changed as it was asked to.
LedgerInv ==
    \A p \in Proc :
        LET j == job[p]
            a == job[p].addr
        IN  /\ pc[p] \in {"collGet", "collPut"} => entry[a] = None
            /\ pc[p] = "save" =>
                  \/ /\ j.call = "set"
                     /\ held[p].seen = j.seen
                     /\ held[p].included = j.included
                  \/ /\ j.call \in {"seen", "included"}
                     /\ held[p].seen = Ledger[a].seen + j.seen
                     /\ held[p].included = Ledger[a].included + j.included

\* The ledger holds entries, and a missing entry counts as nothing.
LEMMA LedgerType ==
    ASSUME TypeOK PROVE Ledger \in [Addresses -> Entry]
BY AgesStart DEF TypeOK, Ledger

\* Time changes the counts of no entry.
LEMMA OlderCounts ==
    ASSUME NEW e \in Entry
    PROVE  /\ Older(e).seen = e.seen /\ Older(e).included = e.included
           /\ \/ Older(e) = e
              \/ Older(e) = [e EXCEPT !.age = @ + 1]
BY JobsAssumption DEF Older, Entry

\* What a call makes of an entry it found.
LEMMA UpdatedCounts ==
    ASSUME NEW j \in Jobs, NEW e \in Entry,
           j.call \in {"seen", "included", "set"}
    PROVE  LET u == Updated(j, e) IN
           \/ j.call = "set" /\ u.seen = j.seen /\ u.included = j.included
           \/ /\ j.call \in {"seen", "included"}
              /\ u.seen = e.seen + j.seen
              /\ u.included = e.included + j.included
BY DEF Updated, SetReputation, AddToReputation

\* Every step of a single request keeps LedgerInv.
LEMMA LedgerStep ==
    OneAtATime /\ TypeOK /\ LedgerInv /\ [Next]_vars => LedgerInv'
<1> SUFFICES ASSUME OneAtATime, TypeOK, LedgerInv, [Next]_vars
             PROVE  LedgerInv'
  OBVIOUS
<1> USE DEF Database
<1>0. CASE UNCHANGED vars
  BY <1>0 DEF vars, LedgerInv, Ledger
<1>a. ASSUME NEW p \in Proc, pc'[p] \notin {"collGet", "collPut", "save"}
      PROVE  LedgerInv'
  BY <1>a DEF LedgerInv, OneAtATime
<1>1. ASSUME NEW p \in Proc, NEW j \in Jobs, Request(p, j) PROVE LedgerInv'
  <2>1. pc'[p] \notin {"collGet", "collPut", "save"}
    BY <1>1 DEF Request, Start, TypeOK
  <2> QED
    BY <2>1, <1>a
<1>2. ASSUME NEW p \in Proc, Step(p) PROVE LedgerInv'
  <2>q. \A q \in Proc : q = p
    BY DEF OneAtATime
  <2>j. pc[p] # "idle" => job[p] \in Jobs /\ job[p].addr \in Addresses
    BY JobType DEF TypeOK
  <2>r. ASSUME NEW from, NEW answer, Return(p, from, answer) PROVE LedgerInv'
    BY <2>r, <1>a DEF Return, TypeOK
  <2>l. ASSUME NEW from \in PCs \ {"idle"}, pc[p] = from,
               Loaded(p, from, Ledger[job[p].addr]), entry' = entry
        PROVE  LedgerInv'
    <3> DEFINE e == Ledger[job[p].addr]
    <3>1. CASE job[p].call \in {"seen", "included", "set"}
      <4>1. /\ Goto(p, from, "save")
            /\ held'[p] = Updated(job[p], e)
        BY <2>l, <3>1 DEF Loaded, TypeOK
      <4>2. e \in Entry /\ job[p] \in Jobs
        BY <2>l, <2>j, LedgerType
      <4>3. Ledger' = Ledger
        BY <2>l DEF Ledger
      <4> QED
        BY <4>1, <4>2, <4>3, <3>1, <2>q, UpdatedCounts
        DEF LedgerInv, Goto, TypeOK
    <3>2. CASE job[p].call \notin {"seen", "included", "set"}
      BY <2>l, <3>2, <2>r DEF Loaded
    <3> QED
      BY <3>1, <3>2
  <2>1. CASE FetchFound(p)
    <3>1. entry[job[p].addr] = Ledger[job[p].addr]
      BY <2>1, <2>j DEF FetchFound, Ledger
    <3> QED
      BY <2>1, <3>1, <2>l DEF FetchFound, PCs
  <2>2. CASE FetchMissing(p)
    <3>1. entry[job[p].addr] = None
      BY <2>2, ReadSaved DEF FetchMissing
    <3> QED
      BY <2>2, <2>q, <3>1 DEF FetchMissing, Goto, LedgerInv, TypeOK
  <2>3. CASE CollGet(p)
    BY <2>3, <2>q DEF CollGet, Goto, LedgerInv, TypeOK
  <2>4. CASE CollPut(p)
    <3>1. Fresh = Ledger[job[p].addr]
      BY <2>4, <2>j DEF CollPut, Ledger, LedgerInv
    <3> QED
      BY <2>4, <3>1, <2>l DEF CollPut, PCs
  <2>5. CASE StakeFetch(p) \/ DumpKeys(p) \/ ClearKeys(p) \/ ListGet(p)
             \/ \E a \in Addresses : ClearDel(p, a)
    BY <2>5, <1>a DEF StakeFetch, DumpKeys, ClearKeys, ListGet, ClearDel, Goto,
       TypeOK
  <2>6. CASE Save(p) \/ StakeWhitelisted(p) \/ DumpMany(p) \/ ClearDrop(p)
             \/ ListAnswer(p) \/ ListPut(p)
    BY <2>6, <2>r DEF Save, StakeWhitelisted, DumpMany, ClearDrop, ListAnswer,
       ListPut
  <2> QED
    BY <1>2, <2>1, <2>2, <2>3, <2>4, <2>5, <2>6
    DEF Step, EntryStep, CollectionStep, ListStep
<1>3. CASE Tick
  <2>1. /\ UNCHANGED <<pc, job>>
        /\ \A a \in Addresses : entry'[a] = Older(entry[a])
        /\ \A p \in Proc : held'[p] = Older(held[p])
    BY <1>3 DEF Tick
  <2>2. \A a \in Addresses : /\ entry[a] = None => entry'[a] = None
                             /\ Ledger'[a].seen = Ledger[a].seen
                             /\ Ledger'[a].included = Ledger[a].included
    BY <2>1, OlderType, OlderCounts, JobsAssumption DEF TypeOK, Ledger
  <2>3. \A p \in Proc : pc[p] = "save" =>
                           /\ held'[p].seen = held[p].seen
                           /\ held'[p].included = held[p].included
    BY <2>1, OlderCounts DEF TypeOK
  <2>4. \A p \in Proc : pc[p] # "idle" => job[p].addr \in Addresses
    BY JobType DEF TypeOK
  <2> QED
    BY <2>1, <2>2, <2>3, <2>4 DEF LedgerInv
<1>4. ASSUME NEW p \in Proc, WriteFails(p) PROVE LedgerInv'
  BY <1>4, <1>a DEF WriteFails, Return, TypeOK
<1>5. CASE Crash
  BY <1>5 DEF Crash, LedgerInv
<1> QED
  BY <1>0, <1>1, <1>2, <1>3, <1>4, <1>5 DEF Next

\* A step that leaves the entries alone and tells no status is no step of the
\* ledger, or lets go of a status told before.
LEMMA SilentStep ==
    ASSUME entry' = entry, Told' \subseteq Told
    PROVE  [Abstract!Next]_(Abstract!vars)
<1>1. Ledger' = Ledger
  BY DEF Ledger
<1>2. Abstract!Forget
  BY <1>1 DEF Abstract!Forget
<1> QED
  BY <1>2 DEF Abstract!Next

\* Every step of a single request is a step of the ledger, or none.
LEMMA StepImplements ==
    ASSUME OneAtATime, CountsOne
    PROVE  TypeOK /\ AnswerInv /\ LedgerInv /\ [Next]_vars
               => [Abstract!Next]_(Abstract!vars)
<1> SUFFICES ASSUME TypeOK, AnswerInv, LedgerInv, [Next]_vars
             PROVE  [Abstract!Next]_(Abstract!vars)
  OBVIOUS
<1> USE DEF Database
<1>0. CASE UNCHANGED vars
  BY <1>0, SilentStep DEF vars, Told
<1>1. ASSUME NEW p \in Proc, NEW j \in Jobs, Request(p, j)
      PROVE  [Abstract!Next]_(Abstract!vars)
  <2>1. Told' \subseteq Told
    BY <1>1 DEF Request, Told, TypeOK
  <2> QED
    BY <1>1, <2>1, SilentStep DEF Request
<1>2. ASSUME NEW p \in Proc, Step(p) PROVE [Abstract!Next]_(Abstract!vars)
  <2>q. \A q \in Proc : q = p
    BY DEF OneAtATime
  <2>j. pc[p] # "idle" => job[p] \in Jobs /\ job[p].addr \in Addresses
    BY JobType DEF TypeOK
  <2>n. pc[p] # "idle" => Told = {}
    BY <2>q DEF Told, AnswerInv
  <2>g. ASSUME NEW from, NEW to, Goto(p, from, to) PROVE Told' = Told
    BY <2>g DEF Goto, Told
  <2>r. ASSUME NEW from, NEW answer, Return(p, from, answer), pc[p] # "idle"
        PROVE  Told' = {answer} \cap {"OK", "THROTTLED", "BANNED"}
    BY <2>r, <2>q DEF Return, Told, TypeOK
  \* fetchOne answers the entry of the ledger, and its status is told.
  <2>l. ASSUME NEW from, pc[p] = from, from # "idle", entry' = entry,
               Loaded(p, from, Ledger[job[p].addr])
        PROVE  [Abstract!Next]_(Abstract!vars)
    <3> DEFINE a == job[p].addr
    <3>1. CASE \E to : Goto(p, from, to)
      BY <3>1, <2>l, <2>g, SilentStep
    <3>2. CASE Return(p, from, Status(Ledger[a]))
      <4>1. Told' = {Status(Ledger[a])}
        BY <3>2, <2>l, <2>r, StatusType
      <4>2. Ledger' = Ledger
        BY <2>l DEF Ledger
      <4>3. Abstract!Tell(a)
        BY <4>1, <4>2, <2>l, <2>n DEF Abstract!Tell
      <4> QED
        BY <4>3, <2>l, <2>j DEF Abstract!Next
    <3>3. CASE Return(p, from, StakeAnswer(a, Ledger[a]))
      <4>1. Told' = {}
        BY <3>3, <2>l, <2>r DEF StakeAnswer
      <4> QED
        BY <4>1, <2>l, SilentStep
    <3> QED
      BY <2>l, <3>1, <3>2, <3>3 DEF Loaded
  <2>1. CASE FetchFound(p)
    <3>1. entry[job[p].addr] = Ledger[job[p].addr]
      BY <2>1, <2>j DEF FetchFound, Ledger
    <3> QED
      BY <2>1, <3>1, <2>l DEF FetchFound
  <2>2. CASE FetchMissing(p) \/ CollGet(p) \/ StakeFetch(p) \/ DumpKeys(p)
             \/ ClearKeys(p) \/ ListGet(p)
    <3>1. entry' = entry /\ \E from, to : Goto(p, from, to)
      BY <2>2 DEF FetchMissing, CollGet, StakeFetch, DumpKeys, ClearKeys,
         ListGet
    <3> QED
      BY <3>1, <2>g, SilentStep
  <2>3. CASE CollPut(p)
    <3>1. Fresh = Ledger[job[p].addr]
      BY <2>3, <2>j DEF CollPut, Ledger, LedgerInv
    <3> QED
      BY <2>3, <3>1, <2>l DEF CollPut
  <2>4. CASE Save(p)
    <3> DEFINE a == job[p].addr
               h == held[p]
    <3>1. pc[p] = "save" /\ a \in Addresses /\ job[p] \in Jobs
          /\ h \in Entry /\ h # None
      BY <2>4, <2>j, JobsAssumption DEF Save, Return, TypeOK
    <3>2. Told' = Told
      BY <2>4, <3>1, <2>r, <2>n DEF Save
    <3>3. entry' = [entry EXCEPT ![a] = h]
      BY <2>4 DEF Save
    <3>4. Ledger' = [Ledger EXCEPT ![a] = h]
      BY <3>1, <3>3 DEF Ledger, TypeOK
    <3>5. h = [seen |-> h.seen, included |-> h.included, age |-> h.age]
          /\ h.age \in 0 .. MaxAge
      BY <3>1 DEF Entry
    <3>6. Abstract!Enter(a, h.seen, h.included)
      BY <3>2, <3>4, <3>5 DEF Abstract!Enter
    <3>7. Ledger[a].seen \in Nat /\ Ledger[a].included \in Nat
      BY <3>1, LedgerType DEF Entry
    <3>8. Abstract!Set(a) \/ Abstract!See(a) \/ Abstract!Include(a)
      <4>1. CASE job[p].call = "set"
        BY <3>1, <3>6, <4>1 DEF LedgerInv, Abstract!Set
      <4>2. CASE job[p].call = "seen"
        <5>1. h.seen = Ledger[a].seen + 1 /\ h.included = Ledger[a].included
          BY <3>1, <3>7, <4>2 DEF LedgerInv, CountsOne
        <5> QED
          BY <3>6, <5>1 DEF Abstract!See
      <4>3. CASE job[p].call = "included"
        <5>1. h.seen = Ledger[a].seen /\ h.included = Ledger[a].included + 1
          BY <3>1, <3>7, <4>3 DEF LedgerInv, CountsOne
        <5> QED
          BY <3>6, <5>1 DEF Abstract!Include
      <4> QED
        BY <3>1, <4>1, <4>2, <4>3 DEF LedgerInv
    <3> QED
      BY <3>1, <3>8 DEF Abstract!Next
  <2>5. CASE StakeWhitelisted(p) \/ DumpMany(p) \/ ClearDrop(p)
             \/ ListAnswer(p) \/ ListPut(p)
    <3>1. /\ entry' = entry /\ pc[p] # "idle"
          /\ \E from : \E answer \in {"noError", "threw", "dumped", "cleared",
                                     "yes", "no", "done"} :
                Return(p, from, answer)
      BY <2>5 DEF StakeWhitelisted, DumpMany, ClearDrop, ListAnswer, ListPut,
         Return
    <3>2. Told' = {}
      BY <3>1, <2>r
    <3> QED
      BY <3>1, <3>2, SilentStep
  <2>6. ASSUME NEW a \in Addresses, ClearDel(p, a)
        PROVE  [Abstract!Next]_(Abstract!vars)
    <3>1. Told' = Told /\ entry' = [entry EXCEPT ![a] = None]
      BY <2>6, <2>g DEF ClearDel
    <3>2. Ledger' = [Ledger EXCEPT ![a] = Abstract!Zero]
      BY <3>1 DEF Ledger, Abstract!Zero, Fresh, TypeOK
    <3>3. Abstract!Forgive(a)
      BY <3>1, <3>2 DEF Abstract!Forgive
    <3> QED
      BY <3>3 DEF Abstract!Next
  <2> QED
    BY <1>2, <2>1, <2>2, <2>3, <2>4, <2>5, <2>6
    DEF Step, EntryStep, CollectionStep, ListStep
<1>3. CASE Tick
  <2>1. Told' = Told
    BY <1>3 DEF Tick, Told
  <2>2. \A a \in Addresses : \/ Ledger'[a] = Ledger[a]
                             \/ Ledger'[a] = [Ledger[a] EXCEPT !.age = @ + 1]
    BY <1>3, OlderType, OlderCounts, JobsAssumption
    DEF Tick, Ledger, TypeOK
  <2>3. Abstract!Tick
    BY <2>1, <2>2 DEF Abstract!Tick
  <2> QED
    BY <2>3 DEF Abstract!Next
<1>4. ASSUME NEW p \in Proc, WriteFails(p)
      PROVE  [Abstract!Next]_(Abstract!vars)
  <2>1. Told' \subseteq Told
    BY <1>4 DEF WriteFails, Return, Told, TypeOK
  <2> QED
    BY <1>4, <2>1, SilentStep DEF WriteFails
<1>5. CASE Crash
  BY <1>5, SilentStep DEF Crash, Told
<1> QED
  BY <1>0, <1>1, <1>2, <1>3, <1>4, <1>5 DEF Next

\* With one request at a time the service implements the ledger, though any
\* write may fail and the process may crash: each call changes the counts of
\* its address by what it says, in one step, and a status told is the
\* ledger's.
THEOREM SerialImplementsLedger ==
    ASSUME OneAtATime, CountsOne PROVE Spec => ImplementsLedger
<1>1. Init => Abstract!Init
  BY DEF Init, Abstract!Init, Ledger, Told, Abstract!Zero, Fresh
<1>2. Init => LedgerInv
  BY DEF Init, LedgerInv
<1>3. TypeOK /\ LedgerInv /\ [Next]_vars => LedgerInv'
  BY LedgerStep
<1>4. TypeOK /\ AnswerInv /\ LedgerInv /\ [Next]_vars
          => [Abstract!Next]_(Abstract!vars)
  BY StepImplements
<1> QED
  BY <1>1, <1>2, <1>3, <1>4, TypeCorrect, AnswerHolds, PTL
  DEF Spec, ImplementsLedger, Abstract!Spec

-----------------------------------------------------------------------------
(***************************************************************************)
(* Seeing more operations of a banned address does not help it.            *)
(***************************************************************************)

\* The entry a request will save is no older than the one it replaces.
AgeInv ==
    \A p \in Proc :
        LET a == job[p].addr IN
        pc[p] = "save" /\ entry[a] # None => held[p].age <= entry[a].age

\* Of two entries the older one stays the older, as long as both get older.
LEMMA OlderKeepsOrder ==
    ASSUME NEW d \in Entry, NEW e \in Entry, d.age <= e.age
    PROVE  Older(d).age <= Older(e).age
BY JobsAssumption, AgesStart DEF Older, Entry

\* Every step of a single request keeps AgeInv.
LEMMA AgeStep == OneAtATime /\ TypeOK /\ AgeInv /\ [Next]_vars => AgeInv'
<1> SUFFICES ASSUME OneAtATime, TypeOK, AgeInv, [Next]_vars PROVE AgeInv'
  OBVIOUS
<1> USE DEF Database
<1>0. CASE UNCHANGED vars
  BY <1>0 DEF vars, AgeInv
<1>a. ASSUME NEW p \in Proc, pc'[p] # "save" PROVE AgeInv'
  BY <1>a DEF AgeInv, OneAtATime
<1>1. ASSUME NEW p \in Proc, NEW j \in Jobs, Request(p, j) PROVE AgeInv'
  <2>1. pc'[p] # "save"
    BY <1>1 DEF Request, Start, TypeOK
  <2> QED
    BY <2>1, <1>a
<1>2. ASSUME NEW p \in Proc, Step(p) PROVE AgeInv'
  <2>q. \A q \in Proc : q = p
    BY DEF OneAtATime
  <2>j. pc[p] # "idle" => job[p] \in Jobs /\ job[p].addr \in Addresses
    BY JobType DEF TypeOK
  <2>l. ASSUME NEW from \in PCs \ {"idle"}, pc[p] = from, NEW e \in Entry,
               Loaded(p, from, e), entry' = entry
        PROVE  AgeInv'
    <3>1. CASE job[p].call \in {"seen", "included", "set"}
      <4>1. held'[p] = Updated(job[p], e) /\ job' = job
        BY <2>l, <3>1 DEF Loaded, Goto, TypeOK
      <4>2. held'[p].age = 0
        BY <4>1 DEF Updated, SetReputation, AddToReputation
      <4>3. \A a \in Addresses : entry[a] # None => 0 <= entry[a].age
        BY AgesStart DEF TypeOK, Entry
      <4> QED
        BY <4>1, <4>2, <4>3, <2>l, <2>j, <2>q DEF AgeInv
    <3>2. CASE job[p].call \notin {"seen", "included", "set"}
      <4>1. pc'[p] = "idle"
        BY <2>l, <3>2 DEF Loaded, Return, TypeOK
      <4> QED
        BY <4>1, <1>a
    <3> QED
      BY <3>1, <3>2
  <2>1. CASE FetchFound(p)
    BY <2>1, <2>l, <2>j DEF FetchFound, PCs, TypeOK
  <2>2. CASE CollPut(p)
    BY <2>2, <2>l, AgesStart DEF CollPut, PCs
  <2>3. CASE FetchMissing(p) \/ CollGet(p) \/ StakeFetch(p) \/ DumpKeys(p)
             \/ ClearKeys(p) \/ ListGet(p)
             \/ \E a \in Addresses : ClearDel(p, a)
    BY <2>3, <1>a DEF FetchMissing, CollGet, StakeFetch, DumpKeys, ClearKeys,
       ListGet, ClearDel, Goto, TypeOK
  <2>4. CASE Save(p) \/ StakeWhitelisted(p) \/ DumpMany(p) \/ ClearDrop(p)
             \/ ListAnswer(p) \/ ListPut(p)
    BY <2>4, <1>a DEF Save, StakeWhitelisted, DumpMany, ClearDrop, ListAnswer,
       ListPut, Return, TypeOK
  <2> QED
    BY <1>2, <2>1, <2>2, <2>3, <2>4
    DEF Step, EntryStep, CollectionStep, ListStep
<1>3. CASE Tick
  <2> SUFFICES ASSUME NEW p \in Proc, pc'[p] = "save",
                      entry'[job'[p].addr] # None
               PROVE  held'[p].age <= entry'[job'[p].addr].age
    BY DEF AgeInv
  <2> DEFINE a == job[p].addr
  <2>1. a \in Addresses /\ pc[p] = "save" /\ job' = job
    BY <1>3, JobType DEF Tick, TypeOK
  <2>2. entry'[a] = Older(entry[a]) /\ held'[p] = Older(held[p])
    BY <1>3, <2>1 DEF Tick
  <2>3. entry[a] \in Entry /\ held[p] \in Entry
    BY <2>1, <2>2, OlderType DEF TypeOK
  <2>4. entry[a] # None
    BY <2>3, JobsAssumption
  <2> QED
    BY <2>1, <2>2, <2>3, <2>4, OlderKeepsOrder DEF AgeInv
<1>4. ASSUME NEW p \in Proc, WriteFails(p) PROVE AgeInv'
  BY <1>4, <1>a DEF WriteFails, Return, TypeOK
<1>5. CASE Crash
  BY <1>5 DEF Crash, AgeInv
<1> QED
  BY <1>0, <1>1, <1>2, <1>3, <1>4, <1>5 DEF Next

\* An entry has decayed to nothing at its greatest age, and never to less.
LEMMA HoursWithinDecay ==
    ASSUME NEW e \in Entry
    PROVE  EnlapsedHours(e) \in Int /\ EnlapsedHours(e) <= DecayHours
<1>1. \A d \in Nat, t \in Nat \ {0} : d * t \in Nat /\ (d * t) \div t = d
  OBVIOUS
<1>2. MaxAge \div TicksPerHour = DecayHours
  BY <1>1, ServiceAssumption DEF MaxAge
<1>3. e.age \in Int /\ e.age <= MaxAge
  BY AgesStart DEF Entry
<1> QED
  BY <1>2, <1>3, AgesStart, DivMonotone, ServiceAssumption DEF EnlapsedHours

\* An entry that is no older and counts no fewer operations, and still no
\* inclusions, is banned as well.
LEMMA BannedStaysBanned ==
    ASSUME NEW d \in Entry, NEW e \in Entry,
           d.seen >= e.seen, d.age <= e.age,
           d.included = 0, e.included = 0, IsBanned(e)
    PROVE  IsBanned(d)
<1> DEFINE hours(x) == DecayHours - EnlapsedHours(x)
<1>1. EnlapsedHours(d) <= EnlapsedHours(e)
  BY DivMonotone, ServiceAssumption, AgesStart DEF EnlapsedHours, Entry
<1>2. hours(d) \in Nat /\ hours(e) \in Nat /\ hours(e) <= hours(d)
  BY <1>1, HoursWithinDecay, ServiceAssumption
<1>3. d.seen \in Nat /\ e.seen \in Nat
  BY DEF Entry
<1>4. \A x, y, u, v \in Nat : x <= y /\ u <= v => x * u <= y * v
  <2>1. \A x, y, u \in Nat : x <= y => x * u <= y * u
    OBVIOUS
  <2>2. \A y, u, v \in Nat : u <= v => y * u <= y * v
    OBVIOUS
  <2>3. \A x, u \in Nat : x * u \in Nat
    OBVIOUS
  <2> SUFFICES ASSUME NEW x \in Nat, NEW y \in Nat, NEW u \in Nat,
                      NEW v \in Nat, x <= y, u <= v
               PROVE  x * u <= y * v
    OBVIOUS
  <2>4. x * u <= y * u /\ y * u <= y * v
    BY <2>1, <2>2
  <2>5. x * u \in Nat /\ y * u \in Nat /\ y * v \in Nat
    BY <2>3
  <2> QED
    BY <2>4, <2>5
<1>5. e.seen * hours(e) \in Int /\ d.seen * hours(d) \in Int
      /\ e.seen * hours(e) <= d.seen * hours(d)
  <2> HIDE DEF hours
  <2>1. \A x, u \in Nat : x * u \in Int
    OBVIOUS
  <2> QED
    BY <1>2, <1>3, <1>4, <2>1
<1>6. OpsSeen(e) \in Int /\ OpsSeen(d) \in Int /\ OpsSeen(e) <= OpsSeen(d)
  <2>1. (e.seen * hours(e)) \div DecayHours
            <= (d.seen * hours(d)) \div DecayHours
    <3> HIDE DEF hours
    <3> QED
      BY <1>5, DivMonotone, ServiceAssumption
  <2> QED
    BY <2>1, <1>3, DecayedType DEF OpsSeen, Decayed
<1>7. MinExpectedIncluded(e) \in Int /\ MinExpectedIncluded(d) \in Int
      /\ MinExpectedIncluded(e) <= MinExpectedIncluded(d)
  BY <1>6, DivMonotone, ServiceAssumption DEF MinExpectedIncluded
<1>8. OpsIncluded(d) = 0 /\ OpsIncluded(e) = 0
  BY NothingDecays DEF OpsIncluded
<1> QED
  BY <1>7, <1>8, ServiceAssumption DEF IsBanned

\* With one request at a time, whatever fails, an address without inclusions
\* that is banned stays so until time passes, an inclusion is counted, or its
\* reputation is set or cleared: seeing more of its operations never helps it.
THEOREM SerialBansStick ==
    ASSUME OneAtATime, CountsOne PROVE Spec => BanSticks
<1> DEFINE Stuck == \A a \in Saved :
          entry[a].included = 0 /\ IsBanned(entry[a])
              /\ entry'[a] # None /\ ~IsBanned(entry'[a]) =>
                 \/ entry'[a].age > entry[a].age
                 \/ \E p \in Proc : /\ pc[p] = "save"
                                    /\ job[p].call \in {"set", "included"}
                                    /\ job[p].addr = a
<1>1. TypeOK /\ LedgerInv /\ AgeInv /\ [Next]_vars => Stuck
  <2> SUFFICES ASSUME TypeOK, LedgerInv, AgeInv, [Next]_vars, NEW a \in Saved,
                      entry[a].included = 0, IsBanned(entry[a]),
                      entry'[a] # None, ~IsBanned(entry'[a])
               PROVE  \/ entry'[a].age > entry[a].age
                      \/ \E p \in Proc : /\ pc[p] = "save"
                                         /\ job[p].call \in {"set", "included"}
                                         /\ job[p].addr = a
    OBVIOUS
  <2>0. a \in Addresses /\ entry[a] \in Entry
    BY DEF Saved, TypeOK
  <2>1. CASE Tick
    <3>1. entry'[a] = Older(entry[a]) /\ entry'[a] # entry[a]
      BY <2>0, <2>1 DEF Tick
    <3>2. Older(entry[a]).age > entry[a].age
      BY <2>0, <3>1, AgesStart, JobsAssumption DEF Older, Entry
    <3> QED
      BY <3>1, <3>2
  <2>2. ASSUME NEW p \in Proc, Save(p), job[p].addr = a
        PROVE  job[p].call \in {"set", "included"}
    <3>1. pc[p] = "save" /\ entry'[a] = held[p] /\ held[p] \in Entry
      BY <2>0, <2>2 DEF Save, Return, TypeOK
    <3>2. held[p].age <= entry[a].age
      BY <3>1, <2>2 DEF AgeInv, Saved
    <3>3. CASE job[p].call = "seen"
      <4>1. job[p] \in Jobs /\ Ledger[a] = entry[a]
        BY <3>1, <2>0 DEF TypeOK, Ledger, Saved
      <4>2. job[p].seen = 1 /\ job[p].included = 0
        BY <4>1, <3>3 DEF CountsOne
      <4>3. held[p].seen = entry[a].seen + 1 /\ held[p].included = 0
        BY <3>1, <3>3, <4>1, <4>2, <2>2 DEF LedgerInv
      <4>4. held[p].seen >= entry[a].seen
        BY <4>3, <2>0 DEF Entry
      <4> QED
        BY <3>1, <3>2, <4>3, <4>4, <2>0, BannedStaysBanned
    <3> QED
      BY <3>1, <3>3 DEF LedgerInv
  <2>3. ASSUME NEW p \in Proc, Save(p)
        PROVE  pc[p] = "save" /\ (job[p].addr = a \/ entry'[a] = entry[a])
    BY <2>0, <2>3 DEF Save, Return, TypeOK
  <2>4. ASSUME NEW p \in Proc, NEW b \in Addresses, ClearDel(p, b)
        PROVE  entry'[a] = entry[a]
    BY <2>0, <2>4 DEF ClearDel, TypeOK
  <2>5. ASSUME NEW p \in Proc, Step(p), ~Save(p),
               \A b \in Addresses : ~ClearDel(p, b)
        PROVE  entry' = entry
    BY <2>5 DEF Step, EntryStep, CollectionStep, ListStep, FetchFound,
       FetchMissing, CollGet, CollPut, StakeWhitelisted, StakeFetch,
       DumpKeys, DumpMany, ClearKeys, ClearDrop, ListGet, ListAnswer, ListPut,
       Database
  <2>6. ASSUME ~Tick, ~\E p \in Proc : Step(p) PROVE entry' = entry
    BY <2>6 DEF Next, vars, Request, WriteFails, Crash, Database
  <2> QED
    BY <2>1, <2>2, <2>3, <2>4, <2>5, <2>6
<1>2. TypeOK /\ LedgerInv /\ AgeInv /\ [Next]_vars => [Stuck]_vars
  BY <1>1
<1>3. Init => LedgerInv /\ AgeInv
  BY DEF Init, LedgerInv, AgeInv
<1>4. TypeOK /\ LedgerInv /\ [Next]_vars => LedgerInv'
  BY LedgerStep
<1>5. TypeOK /\ AgeInv /\ [Next]_vars => AgeInv'
  BY AgeStep
<1> QED
  BY <1>2, <1>3, <1>4, <1>5, TypeCorrect, PTL DEF Spec, BanSticks

=============================================================================
