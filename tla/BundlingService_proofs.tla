----------------------- MODULE BundlingService_proofs -----------------------
(***************************************************************************)
(* Theorems about the bundler: its types, the mutex, the pool it works on, *)
(* what a bundle holds, and the timer.                                     *)
(***************************************************************************)
EXTENDS BundlingService, Induction_proofs, FunctionTheorems, SequenceTheorems

-----------------------------------------------------------------------------
(***************************************************************************)
(* What the bundler needs to know of the pool: the entries are operations, *)
(* and a request that is about an operation holds one.  It is the part of  *)
(* the pool's type invariant that the sorted dump rests on, and every step *)
(* of the pool keeps it.                                                   *)
(***************************************************************************)
StoreTypes == [Mempool!Keys -> UserOps \cup {None}]

PoolHolds ==
    /\ store \in StoreTypes
    /\ pc \in [Proc -> Mempool!PCs]
    /\ arg \in [Proc -> UserOps \cup {None}]
    /\ DOMAIN shown = Proc
    /\ \A p \in Proc : pc[p] \in Mempool!AboutOp => arg[p] \in UserOps

\* A request that begins at a place about an operation brings one.
LEMMA BeginHolds ==
    ASSUME PoolHolds, NEW p \in Proc, NEW op \in UserOps \cup {None},
           NEW place \in Mempool!PCs,
           place \in Mempool!AboutOp => op \in UserOps,
           Mempool!Begin(p, place, op)
    PROVE  PoolHolds'
BY DEF PoolHolds, Mempool!Begin, Mempool!Database

\* A request that goes on keeps the operation it is about.
LEMMA GotoHolds ==
    ASSUME PoolHolds, NEW p \in Proc, NEW from, NEW to \in Mempool!PCs, NEW ks,
           to \in Mempool!AboutOp => from \in Mempool!AboutOp,
           Mempool!Goto(p, from, to, ks), store' \in StoreTypes
    PROVE  PoolHolds'
BY DEF PoolHolds, Mempool!Goto

\* A request that ends is about nothing.
LEMMA ReturnHolds ==
    ASSUME PoolHolds, NEW p \in Proc, NEW from, NEW answer,
           Mempool!Return(p, from, answer), store' \in StoreTypes,
           DOMAIN shown' = Proc
    PROVE  PoolHolds'
BY DEF PoolHolds, Mempool!Return, Mempool!PCs, Mempool!AboutOp

\* Writing an entry or deleting one keeps the entries operations.
LEMMA StoreHolds ==
    ASSUME PoolHolds, NEW p \in Proc, pc[p] \in Mempool!AboutOp
    PROVE  /\ [store EXCEPT ![Mempool!KeyOf(arg[p])] = arg[p]] \in StoreTypes
           /\ [store EXCEPT ![Mempool!KeyOf(arg[p])] = None] \in StoreTypes
BY DEF PoolHolds, StoreTypes

LEMMA AddHolds ==
    ASSUME PoolHolds, NEW p \in Proc, Mempool!AddStep(p)
    PROVE  PoolHolds'
<1> USE DEF Mempool!PCs, Mempool!AboutOp
<1>0. store \in StoreTypes /\ DOMAIN shown = Proc
  BY DEF PoolHolds
<1>1. CASE Mempool!FindReplace(p)
  BY <1>0, <1>1, GotoHolds DEF Mempool!FindReplace, Mempool!Database
<1>2. CASE Mempool!FindTooLow(p)
  BY <1>0, <1>2, ReturnHolds DEF Mempool!FindTooLow, Mempool!Database
<1>3. CASE Mempool!FindNew(p)
  BY <1>0, <1>3, GotoHolds DEF Mempool!FindNew, Mempool!Database
<1>4. CASE Mempool!Replace(p)
  <2>1. store' \in StoreTypes
    BY <1>4, StoreHolds DEF Mempool!Replace, Mempool!Goto
  <2> QED
    BY <1>4, <2>1, GotoHolds DEF Mempool!Replace
<1>5. CASE Mempool!CountKeys(p)
  BY <1>0, <1>5, GotoHolds DEF Mempool!CountKeys, Mempool!Database
<1>6. CASE Mempool!CountAdmits(p)
  BY <1>0, <1>6, GotoHolds DEF Mempool!CountAdmits, Mempool!Database
<1>7. CASE Mempool!CountRefuses(p)
  BY <1>0, <1>7, ReturnHolds DEF Mempool!CountRefuses, Mempool!Database
<1>8. CASE Mempool!FetchAndPush(p)
  BY <1>0, <1>8, GotoHolds DEF Mempool!FetchAndPush, Mempool!Database
<1>9. CASE Mempool!PutIndex(p)
  BY <1>0, <1>9, GotoHolds DEF Mempool!PutIndex
<1>10. CASE Mempool!PutEntry(p)
  <2>1. store' \in StoreTypes
    BY <1>10, StoreHolds DEF Mempool!PutEntry, Mempool!Goto
  <2> QED
    BY <1>10, <2>1, GotoHolds DEF Mempool!PutEntry
<1>11. CASE Mempool!UpdateSeen(p)
  BY <1>0, <1>11, ReturnHolds DEF Mempool!UpdateSeen, Mempool!Database
<1> QED
  BY <1>1, <1>2, <1>3, <1>4, <1>5, <1>6, <1>7, <1>8, <1>9, <1>10, <1>11
  DEF Mempool!AddStep

LEMMA OtherHolds ==
    ASSUME PoolHolds, NEW p \in Proc,
           Mempool!RemoveStep(p) \/ Mempool!ClearStep(p)
               \/ Mempool!ReadStep(p) \/ Mempool!WriteFails(p)
    PROVE  PoolHolds'
<1> USE DEF Mempool!PCs, Mempool!AboutOp
<1>0. store \in StoreTypes /\ DOMAIN shown = Proc
  BY DEF PoolHolds
<1>1. CASE Mempool!RemoveKeys(p)
  BY <1>0, <1>1, GotoHolds DEF Mempool!RemoveKeys, Mempool!Database
<1>2. CASE Mempool!RemoveDel(p)
  <2>1. store' \in StoreTypes
    BY <1>2, StoreHolds DEF Mempool!RemoveDel, Mempool!Goto
  <2> QED
    BY <1>2, <2>1, GotoHolds DEF Mempool!RemoveDel
<1>3. CASE Mempool!RemovePut(p)
  BY <1>0, <1>3, ReturnHolds DEF Mempool!RemovePut
<1>4. CASE Mempool!ClearKeys(p)
  BY <1>0, <1>4, GotoHolds DEF Mempool!ClearKeys, Mempool!Database
<1>5. ASSUME NEW k \in Mempool!Keys, Mempool!ClearDel(p, k)
      PROVE  PoolHolds'
  <2>1. store' \in StoreTypes
    BY <1>0, <1>5 DEF Mempool!ClearDel, StoreTypes
  <2> QED
    BY <1>5, <2>1, GotoHolds DEF Mempool!ClearDel
<1>6. CASE Mempool!ClearDrop(p)
  BY <1>0, <1>6, ReturnHolds DEF Mempool!ClearDrop
<1>7. CASE Mempool!DumpKeys(p)
  BY <1>0, <1>7, GotoHolds DEF Mempool!DumpKeys, Mempool!Database
<1>8. CASE Mempool!DumpMany(p)
  BY <1>0, <1>8, ReturnHolds DEF Mempool!DumpMany, Mempool!Database
<1>9. CASE Mempool!CheckFind(p)
  BY <1>0, <1>9, ReturnHolds DEF Mempool!CheckFind, Mempool!Database
<1>10. CASE Mempool!WriteFails(p)
  BY <1>0, <1>10, ReturnHolds DEF Mempool!WriteFails, Mempool!Database
<1> QED
  BY <1>1, <1>2, <1>3, <1>4, <1>5, <1>6, <1>7, <1>8, <1>9, <1>10
  DEF Mempool!RemoveStep, Mempool!ClearStep, Mempool!ReadStep

\* Every step of the pool keeps what the bundler needs to know of it.
LEMMA PoolHoldsStep == PoolHolds /\ [Mempool!Next]_pool => PoolHolds'
<1> SUFFICES ASSUME PoolHolds, [Mempool!Next]_pool PROVE PoolHolds'
  OBVIOUS
<1>1. CASE UNCHANGED pool
  BY <1>1 DEF PoolHolds, pool
<1>2. ASSUME NEW p \in Proc, Mempool!Request(p)
      PROVE  PoolHolds'
  BY <1>2, BeginHolds
  DEF Mempool!Request, Mempool!BeginAdd, Mempool!BeginRemove,
      Mempool!BeginClear, Mempool!BeginDump, Mempool!BeginCheck, Mempool!PCs,
      Mempool!AboutOp
<1>3. ASSUME NEW p \in Proc, Mempool!Step(p) \/ Mempool!WriteFails(p)
      PROVE  PoolHolds'
  BY <1>3, AddHolds, OtherHolds DEF Mempool!Step
<1>4. CASE Mempool!Crash
  BY <1>4 DEF Mempool!Crash, Mempool!Database, PoolHolds, Mempool!PCs,
              Mempool!AboutOp
<1> QED
  BY <1>1, <1>2, <1>3, <1>4 DEF Mempool!Next

LEMMA PoolHoldsInit == Mempool!Init => PoolHolds
BY DEF Mempool!Init, PoolHolds, StoreTypes, Mempool!PCs, Mempool!AboutOp

-----------------------------------------------------------------------------
(***************************************************************************)
(* Lemmas about the locals of a call.                                      *)
(***************************************************************************)
\* What is left of the entries are entries, and the first of them is an
\* operation.
LEMMA TaskRest ==
    ASSUME NEW t \in Task, t.todo # <<>>
    PROVE  /\ Head(t.todo) \in UserOps
           /\ RestOf(t) \in Task
<1>1. t.todo \in Seq(UserOps)
  BY DEF Task
<1>2. Head(t.todo) \in UserOps /\ Tail(t.todo) \in Seq(UserOps)
  BY <1>1
<1> QED
  BY <1>2 DEF Task, RestOf

\* Including the first entry leaves a task, if the paymaster can pay for it.
LEMMA TaskIncluded ==
    ASSUME NEW t \in Task, t.todo # <<>>,
           NEW op \in UserOps, op.sender \in Senders,
           Paymaster[op] # None =>
               /\ t.left[Paymaster[op]] \in Nat
               /\ t.left[Paymaster[op]] >= Prefund[op]
    PROVE  Included(t, op) \in Task
<1> DEFINE uses(e) == (IF Paymaster[op] = e THEN 1 ELSE 0)
                          + (IF Factory[op] = e THEN 1 ELSE 0)
           count == [e \in Entities |-> t.count[e] + uses(e)]
           left == [e \in Entities |->
                       IF e = Paymaster[op] THEN t.left[e] - Prefund[op]
                       ELSE t.left[e]]
<1>1. Tail(t.todo) \in Seq(UserOps) /\ Append(t.bundle, op) \in Seq(UserOps)
  BY DEF Task
<1>2. count \in [Entities -> Nat]
  <2>1. \A e \in Entities : t.count[e] \in Nat /\ uses(e) \in Nat
    BY DEF Task
  <2> QED
    BY <2>1
<1>3. left \in [Entities -> Nat \cup {None}]
  <2>1. ASSUME NEW e \in Entities, e = Paymaster[op]
        PROVE  t.left[e] - Prefund[op] \in Nat
    BY <2>1, BundlerAssumption
  <2>2. \A e \in Entities : t.left[e] \in Nat \cup {None}
    BY DEF Task
  <2> QED
    BY <2>1, <2>2
<1>4. t.senders \cup {op.sender} \in SUBSET Senders
  BY DEF Task
<1>5. Included(t, op) =
         [t EXCEPT !.todo = Tail(t.todo), !.bundle = Append(t.bundle, op),
                   !.senders = t.senders \cup {op.sender},
                   !.count = count, !.left = left]
  BY DEF Included
<1> HIDE DEF count, left
<1> QED
  BY <1>1, <1>2, <1>3, <1>4, <1>5 DEF Task

\* A dump is a finite set of operations, and the sort makes it a sequence.
LEMMA DumpSorted ==
    ASSUME PoolHolds, NEW c \in Callers, Mempool!DumpMany(c),
           NEW s \in Sorted(shown'[c])
    PROVE  s \in Seq(UserOps)
<1> DEFINE ops == shown'[c]
<1>1. PICK found \in Mempool!FetchAll(keys[c]) :
        ops = {store[k] : k \in {j \in Mempool!Keys : found[j] > 0}}
  BY BundlerAssumption DEF Mempool!DumpMany, PoolHolds
<1> DEFINE listed == {j \in Mempool!Keys : found[j] > 0}
<1>2. \A k \in listed : store[k] \in UserOps
  <2>1. CASE found = Mempool!NoKeys
    BY <2>1 DEF Mempool!NoKeys
  <2>2. CASE found = keys[c] /\ ~Mempool!GetManyFails(keys[c])
    BY <2>2 DEF Mempool!GetManyFails, PoolHolds, StoreTypes
  <2> QED
    BY <1>1, <2>1, <2>2 DEF Mempool!FetchAll
<1>3. ops \subseteq UserOps
  BY <1>1, <1>2
<1>4. IsFiniteSet(ops)
  <2>1. IsFiniteSet(listed)
    BY FS_Subset, PoolAssumption DEF Mempool!Keys
  <2>2. [k \in listed |-> store[k]] \in Surjection(listed, ops)
    BY <1>1 DEF Surjection
  <2> QED
    BY <2>1, <2>2, FS_Surjection
<1>5. Cardinality(ops) \in Nat
  BY <1>4, FS_CardinalityType
<1>6. s \in [1 .. Cardinality(ops) -> ops]
  BY DEF Sorted, SetToSeqs
<1> HIDE DEF ops
<1> QED
  BY <1>3, <1>5, <1>6

-----------------------------------------------------------------------------
(***************************************************************************)
(* Every step of the bundler is a step of the pool, or leaves it alone.    *)
(***************************************************************************)
\* A step of a client is a request that arrives, or goes on, or fails.
LEMMA ClientsUsePool ==
    ASSUME NEW p \in Clients, NEW op \in UserOps,
           Submit(p, op) \/ ClientStep(p) \/ ClientFails(p)
    PROVE  Mempool!Next
<1>1. p \in Proc
  BY DEF Clients
<1>2. CASE Submit(p, op)
  BY <1>1, <1>2 DEF Submit, Mempool!Next, Mempool!Request
<1>3. CASE ClientStep(p)
  BY <1>1, <1>3 DEF ClientStep, Mempool!Next
<1>4. CASE ClientFails(p)
  BY <1>1, <1>4 DEF ClientFails, Mempool!Next
<1> QED
  BY <1>2, <1>3, <1>4

\* What the bundler does with an entry either leaves the pool alone or is the
\* beginning of a removal.
LEMMA EntryUsesPool ==
    ASSUME TypeOK, NEW c \in Callers, task[c].todo # <<>>,
           Skip(c) \/ Drop(c)
    PROVE  [Mempool!Next]_pool
<1>1. c \in Proc /\ Entry(c) \in UserOps
  <2>1. task[c].todo \in Seq(UserOps)
    BY DEF TypeOK, Task
  <2> QED
    BY <2>1, BundlerAssumption DEF Entry
<1>2. CASE Skip(c)
  BY <1>2 DEF Skip
<1>3. CASE Drop(c)
  BY <1>1, <1>3 DEF Drop, Mempool!Next, Mempool!Request
<1> QED
  BY <1>2, <1>3

\* The same for a step of a call of sendNextBundle.
LEMMA CallersUsePool ==
    ASSUME TypeOK, NEW c \in Callers,
           Call(c) \/ BundlerStep(c) \/ RemoveFails(c)
    PROVE  [Mempool!Next]_pool
<1>1. c \in Proc
  BY BundlerAssumption
<1>2. task[c].todo \in Seq(UserOps)
  BY DEF TypeOK, Task
<1>3. CASE Call(c)
  BY <1>3 DEF Call
<1>4. CASE Enter(c)
  BY <1>1, <1>4 DEF Enter, Mempool!Next, Mempool!Request
<1>5. CASE Dumped(c)
  BY <1>1, <1>5 DEF Dumped, Mempool!Next, Mempool!Step, Mempool!ReadStep
<1>6. CASE PaymasterStatus(c)
  <2>1. task[c].todo # <<>>
    BY <1>6 DEF PaymasterStatus, TypeOK
  <2> QED
    BY <1>6, <2>1, EntryUsesPool DEF PaymasterStatus, EntityStops
<1>7. CASE FactoryStatus(c)
  <2>1. task[c].todo # <<>>
    BY <1>7 DEF FactoryStatus, TypeOK
  <2> QED
    BY <1>7, <2>1, EntryUsesPool DEF FactoryStatus, EntityStops
<1>8. CASE Validate(c)
  <2>1. task[c].todo # <<>>
    BY <1>8 DEF Validate, TypeOK
  <2> QED
    BY <1>8, <2>1, EntryUsesPool DEF Validate
<1>9. CASE Deposit(c)
  BY <1>9 DEF Deposit
<1>10. CASE Dropped(c)
  BY <1>1, <1>10 DEF Dropped, Mempool!Next, Mempool!Step, Mempool!RemoveStep
<1>11. CASE Send(c) \/ SendFails(c) \/ AskFails(c) \/ Hashes(c)
  BY <1>11 DEF Send, SendFails, AskFails, Hashes
<1>12. CASE Clean(c)
  <2>1. Entry(c) \in UserOps
    BY <1>2, <1>12 DEF Clean, Entry
  <2> QED
    BY <1>1, <1>12, <2>1 DEF Clean, Mempool!Next, Mempool!Request
<1>13. CASE Cleaned(c)
  BY <1>1, <1>13 DEF Cleaned, Mempool!Next, Mempool!Step, Mempool!RemoveStep
<1>14. CASE PoolStep(c)
  BY <1>1, <1>14 DEF PoolStep, Mempool!Next, Mempool!Step, Mempool!RemoveStep,
                     Mempool!ReadStep
<1>15. CASE RemoveFails(c)
  BY <1>1, <1>15 DEF RemoveFails, Mempool!Next
<1> QED
  BY <1>3, <1>4, <1>5, <1>6, <1>7, <1>8, <1>9, <1>10, <1>11, <1>12, <1>13,
     <1>14, <1>15 DEF BundlerStep

-----------------------------------------------------------------------------
(***************************************************************************)
(* The type invariant and the mutex.                                       *)
(***************************************************************************)
\* Where a call has an entry before it.
AtEntry == {"paymaster", "factory", "validate", "deposit", "drop", "cleaning"}

\* A call that works goes on to a place whose needs its locals meet.
LEMMA GotoKeeps ==
    ASSUME TypeOK, OnlyHolderWorks, NEW c \in Callers, NEW to \in Places,
           NEW t \in Task, queue # <<>>, Head(queue) = c,
           to \in AtEntry => t.todo # <<>>,
           to = "deposit" => Paymaster[Head(t.todo)] # None,
           Goto(c, to, t), UNCHANGED cron,
           asked' \subseteq UserOps, sent' \subseteq UserOps,
           stuck' \subseteq UserOps
    PROVE  TypeOK' /\ OnlyHolderWorks'
<1>1. OnlyHolderWorks'
  BY DEF Goto, OnlyHolderWorks, TypeOK
<1>2. at' \in [Callers \cup {Cron} -> Places \cup {"try"}]
  BY DEF Goto, TypeOK
<1>3. task' \in [Callers -> Task]
  BY DEF Goto, TypeOK
<1>4. /\ at'[c] = to /\ task'[c] = t
      /\ \A d \in Callers \ {c} : at'[d] = at[d] /\ task'[d] = task[d]
  BY DEF Goto, TypeOK
<1>5. \A d \in Callers :
        /\ at[d] \in AtEntry => task[d].todo # <<>>
        /\ at[d] = "deposit" => Paymaster[Head(task[d].todo)] # None
  BY DEF TypeOK, AtEntry, Entry
<1>6. \A d \in Callers :
        /\ at'[d] \in AtEntry => task'[d].todo # <<>>
        /\ at'[d] = "deposit" => Paymaster[Head(task'[d].todo)] # None
  BY <1>4, <1>5
<1> QED
  BY <1>1, <1>2, <1>3, <1>6 DEF Goto, TypeOK, cron, AtEntry, Entry

\* A call that works is the only one, and when it ends none does.
LEMMA LeaveKeeps ==
    ASSUME TypeOK, OnlyHolderWorks, NEW c \in Callers, queue # <<>>,
           Head(queue) = c, Leave(c), UNCHANGED cron,
           asked' \subseteq UserOps, sent' \subseteq UserOps,
           stuck' \subseteq UserOps
    PROVE  TypeOK' /\ OnlyHolderWorks'
<1>1. \A d \in Callers : at'[d] \in {"idle", "lock"}
  BY DEF Leave, OnlyHolderWorks, TypeOK
<1>2. NoTask \in Task
  BY DEF NoTask, Nothing, Task
<1>3. queue' \in Seq(Callers)
  BY DEF Leave, TypeOK
<1>4. at' \in [Callers \cup {Cron} -> Places \cup {"try"}]
  BY DEF Leave, TypeOK, Places
<1>5. task' \in [Callers -> Task]
  BY <1>2 DEF Leave, TypeOK
<1> QED
  BY <1>1, <1>3, <1>4, <1>5 DEF Leave, TypeOK, OnlyHolderWorks, cron

\* The call goes on to its next entry, to the chain, or to its end.
LEMMA AdvanceKeeps ==
    ASSUME TypeOK, OnlyHolderWorks, NEW c \in Callers, NEW t \in Task,
           at[c] \notin {"idle", "lock"}, Advance(c, t), UNCHANGED cron,
           UNCHANGED history
    PROVE  TypeOK' /\ OnlyHolderWorks'
<1>1. queue # <<>> /\ Head(queue) = c
  BY DEF OnlyHolderWorks
<1>2. /\ asked' \subseteq UserOps /\ sent' \subseteq UserOps
      /\ stuck' \subseteq UserOps
  BY DEF history, TypeOK
<1>3. CASE t.todo # <<>> /\ Goto(c, "paymaster", t)
  BY <1>1, <1>2, <1>3, GotoKeeps DEF Places
<1>4. CASE t.todo = <<>> /\ t.bundle # <<>> /\ Goto(c, "send", t)
  BY <1>1, <1>2, <1>4, GotoKeeps DEF Places, AtEntry
<1>5. CASE t.todo = <<>> /\ t.bundle = <<>> /\ Leave(c)
  BY <1>1, <1>2, <1>5, LeaveKeeps
<1> QED
  BY <1>3, <1>4, <1>5 DEF Advance

\* A step that leaves the bundler's state alone.
LEMMA StillKeeps ==
    ASSUME TypeOK, OnlyHolderWorks, UNCHANGED <<queue, at, task, cron>>,
           asked' \subseteq UserOps, UNCHANGED <<sent, stuck>>
    PROVE  TypeOK' /\ OnlyHolderWorks'
BY DEF TypeOK, OnlyHolderWorks, cron, Entry

\* Skipping an entry or beginning its removal.
LEMMA EntryKeeps ==
    ASSUME TypeOK, OnlyHolderWorks, NEW c \in Callers, at[c] \in AtEntry,
           Skip(c) \/ Drop(c)
    PROVE  TypeOK' /\ OnlyHolderWorks'
<1>1. task[c] \in Task /\ task[c].todo # <<>>
  BY DEF TypeOK, AtEntry
<1>2. at[c] \notin {"idle", "lock"}
  BY DEF AtEntry
<1>3. CASE Skip(c)
  BY <1>1, <1>2, <1>3, TaskRest, AdvanceKeeps DEF Skip
<1>4. CASE Drop(c)
  <2>1. queue # <<>> /\ Head(queue) = c
    BY <1>2 DEF OnlyHolderWorks
  <2> QED
    BY <1>1, <1>4, <2>1, GotoKeeps DEF Drop, Places, TypeOK, history
<1> QED
  BY <1>3, <1>4

\* The bundle is built: the calls that judge an entry.
LEMMA JudgeKeeps ==
    ASSUME PoolHolds, TypeOK, OnlyHolderWorks, NEW c \in Callers,
           PaymasterStatus(c) \/ FactoryStatus(c) \/ Validate(c) \/ Deposit(c)
    PROVE  TypeOK' /\ OnlyHolderWorks'
<1>1. at[c] \in AtEntry
  BY DEF PaymasterStatus, FactoryStatus, Validate, Deposit, AtEntry
<1>2. task[c] \in Task /\ task[c].todo # <<>> /\ at[c] \notin {"idle", "lock"}
  BY <1>1 DEF TypeOK, AtEntry
<1>3. Entry(c) \in UserOps /\ Entry(c).sender \in Senders
  BY <1>2, TaskRest, PoolAssumption DEF Entry
<1>4. queue # <<>> /\ Head(queue) = c
  BY <1>2 DEF OnlyHolderWorks
<1>5. sent \subseteq UserOps /\ stuck \subseteq UserOps /\ asked \subseteq UserOps
  BY DEF TypeOK
<1>6. ASSUME NEW to \in {"factory", "validate", "deposit"},
             to = "deposit" => Paymaster[Entry(c)] # None,
             Goto(c, to, task[c]), UNCHANGED cron, UNCHANGED history
      PROVE  TypeOK' /\ OnlyHolderWorks'
  BY <1>2, <1>4, <1>5, <1>6, GotoKeeps DEF Places, history, Entry
<1>7. CASE PaymasterStatus(c)
  BY <1>1, <1>6, <1>7, EntryKeeps DEF PaymasterStatus, EntityStops
<1>8. CASE FactoryStatus(c)
  BY <1>1, <1>6, <1>8, EntryKeeps DEF FactoryStatus, EntityStops
<1>9. CASE Validate(c)
  <2>1. CASE Drop(c)
    BY <1>1, <2>1, EntryKeeps
  <2>2. CASE /\ Paymaster[Entry(c)] = None
             /\ Advance(c, Included(task[c], Entry(c)))
             /\ UNCHANGED <<pool, cron, history>>
    <3>1. Included(task[c], Entry(c)) \in Task
      BY <1>2, <1>3, <2>2, TaskIncluded
    <3> QED
      BY <1>2, <2>2, <3>1, AdvanceKeeps
  <2> QED
    BY <1>6, <1>9, <2>1, <2>2 DEF Validate
<1>10. CASE Deposit(c)
  <2> DEFINE e == Paymaster[Entry(c)]
             t == task[c]
             known(d) == IF t.left[e] = None
                         THEN [t EXCEPT !.read[e] = d, !.left[e] = d]
                         ELSE t
  <2>1. e \in Entities
    BY <1>3, <1>10, BundlerAssumption DEF Deposit, TypeOK
  <2>2. PICK d \in IF t.left[e] = None THEN Deposits ELSE {t.left[e]} :
          \/ d < Prefund[Entry(c)] /\ Advance(c, RestOf(known(d)))
          \/ /\ d >= Prefund[Entry(c)]
             /\ Advance(c, Included(known(d), Entry(c)))
    BY <1>10 DEF Deposit
  <2>3. t.left[e] \in Nat \cup {None} /\ d \in Nat
    BY <1>2, <2>1, <2>2, BundlerAssumption DEF Task
  <2>4. known(d) \in Task /\ known(d).todo = t.todo /\ known(d).left[e] = d
    BY <1>2, <2>1, <2>2, <2>3 DEF Task
  <2>5. UNCHANGED cron /\ UNCHANGED history
    BY <1>10 DEF Deposit
  <2> HIDE DEF known
  <2>6. CASE Advance(c, RestOf(known(d)))
    BY <1>2, <2>4, <2>5, <2>6, TaskRest, AdvanceKeeps
  <2>7. CASE /\ d >= Prefund[Entry(c)]
             /\ Advance(c, Included(known(d), Entry(c)))
    <3>1. Included(known(d), Entry(c)) \in Task
      BY <1>2, <1>3, <2>3, <2>4, <2>7, TaskIncluded
    <3> QED
      BY <1>2, <2>5, <2>7, <3>1, AdvanceKeeps
  <2> QED
    BY <2>2, <2>6, <2>7
<1> QED
  BY <1>7, <1>8, <1>9, <1>10

\* A call of sendNextBundle takes any of its steps.
LEMMA CallersKeep ==
    ASSUME PoolHolds, TypeOK, OnlyHolderWorks, NEW c \in Callers,
           Call(c) \/ BundlerStep(c) \/ RemoveFails(c)
    PROVE  TypeOK' /\ OnlyHolderWorks'
<1>1. /\ task[c] \in Task
      /\ sent \subseteq UserOps /\ stuck \subseteq UserOps /\ asked \subseteq UserOps
  BY DEF TypeOK
<1>2. at[c] \notin {"idle", "lock"} => queue # <<>> /\ Head(queue) = c
  BY DEF OnlyHolderWorks
<1>3. CASE Call(c)
  <2>1. /\ at' \in [Callers \cup {Cron} -> Places \cup {"try"}]
        /\ queue' \in Seq(Callers)
        /\ queue # <<>> => queue' # <<>> /\ Head(queue') = Head(queue)
    BY <1>3 DEF Call, TypeOK, Places
  <2>2. /\ at'[c] = "lock"
        /\ \A d \in Callers \ {c} : at'[d] = at[d]
    BY <1>3 DEF Call, TypeOK
  <2>3. OnlyHolderWorks'
    BY <2>1, <2>2 DEF OnlyHolderWorks
  <2> QED
    BY <1>3, <2>1, <2>2, <2>3 DEF Call, TypeOK, cron, history, Entry
<1>4. CASE Enter(c)
  <2>1. queue # <<>> /\ Head(queue) = c
    BY <1>4 DEF Enter
  <2>2. NoTask \in Task
    BY DEF NoTask, Nothing, Task
  <2> QED
    BY <1>1, <1>4, <2>1, <2>2, GotoKeeps DEF Enter, Places, AtEntry, history
<1>5. CASE Dumped(c)
  <2>1. PICK s \in Sorted(shown'[c]) : Advance(c, [task[c] EXCEPT !.todo = s])
    BY <1>5 DEF Dumped
  <2>2. s \in Seq(UserOps)
    BY <1>5, DumpSorted DEF Dumped
  <2>3. [task[c] EXCEPT !.todo = s] \in Task
    BY <1>1, <2>2 DEF Task
  <2> QED
    BY <1>5, <2>1, <2>3, AdvanceKeeps DEF Dumped
<1>6. CASE PaymasterStatus(c) \/ FactoryStatus(c) \/ Validate(c) \/ Deposit(c)
  BY <1>6, JudgeKeeps
<1>7. CASE Dropped(c)
  <2>1. task[c].todo # <<>>
    BY <1>7 DEF Dropped, TypeOK
  <2> QED
    BY <1>1, <1>7, <2>1, TaskRest, AdvanceKeeps DEF Dropped
<1>8. CASE Send(c)
  <2>1. [task[c] EXCEPT !.todo = task[c].bundle] \in Task
    BY <1>1 DEF Task
  <2>2. ToSet(task[c].bundle) \subseteq UserOps
    BY <1>1 DEF Task, ToSet
  <2>3. sent' \subseteq UserOps /\ stuck' \subseteq UserOps /\ asked' \subseteq UserOps
    BY <1>1, <1>8, <2>2 DEF Send
  <2> QED
    BY <1>2, <1>8, <2>1, <2>3, GotoKeeps DEF Send, Places, AtEntry
<1>9. CASE SendFails(c) \/ AskFails(c)
  BY <1>1, <1>2, <1>9, LeaveKeeps DEF SendFails, AskFails, history
<1>10. CASE Clean(c)
  BY <1>1, <1>2, <1>10, GotoKeeps DEF Clean, Places, history
<1>11. CASE Cleaned(c)
  <2>1. RestOf(task[c]) \in Task
    BY <1>1, <1>11, TaskRest DEF Cleaned, TypeOK
  <2> QED
    BY <1>1, <1>2, <1>11, <2>1, GotoKeeps DEF Cleaned, Places, AtEntry, history
<1>12. CASE Hashes(c)
  BY <1>1, <1>2, <1>12, LeaveKeeps DEF Hashes, history
<1>13. CASE PoolStep(c)
  BY <1>1, <1>13, StillKeeps DEF PoolStep, history
<1>14. CASE RemoveFails(c)
  <2>1. CASE at[c] = "drop"
    BY <1>1, <1>2, <1>14, <2>1, LeaveKeeps DEF RemoveFails
  <2>2. CASE at[c] = "cleaning"
    <3>1. ToSet(task[c].todo) \subseteq UserOps
      BY <1>1 DEF Task, ToSet
    <3> QED
      BY <1>1, <1>2, <1>14, <2>2, <3>1, LeaveKeeps DEF RemoveFails
  <2> QED
    BY <1>14, <2>1, <2>2 DEF RemoveFails
<1> QED
  BY <1>3, <1>4, <1>5, <1>6, <1>7, <1>8, <1>9, <1>10, <1>11, <1>12, <1>13,
     <1>14 DEF BundlerStep

\* The modes and the timer, and the clients.
LEMMA OthersKeep ==
    ASSUME TypeOK, OnlyHolderWorks,
           \/ \E p \in Clients :
                 (\E op \in UserOps : Submit(p, op)) \/ ClientStep(p)
                     \/ ClientFails(p)
           \/ \E m \in {"auto", "manual"} : SetBundlingMode(m)
           \/ SetBundlingInterval \/ Tick \/ TryBundle
    PROVE  TypeOK' /\ OnlyHolderWorks'
<1>0. asked \subseteq UserOps
  BY DEF TypeOK
<1>1. ASSUME NEW p \in Clients, NEW op \in UserOps, Submit(p, op)
      PROVE  TypeOK' /\ OnlyHolderWorks'
  BY <1>0, <1>1, StillKeeps DEF Submit
<1>2. ASSUME NEW p \in Clients, ClientStep(p) \/ ClientFails(p)
      PROVE  TypeOK' /\ OnlyHolderWorks'
  BY <1>0, <1>2, StillKeeps DEF ClientStep, ClientFails, history
<1>3. CASE (\E m \in {"auto", "manual"} : SetBundlingMode(m)) \/ SetBundlingInterval
  <2>1. mode' \in {"auto", "manual"} /\ timers' \in Nat
    BY <1>3 DEF SetBundlingMode, SetBundlingInterval, RestartCron, TypeOK
  <2> QED
    BY <1>3, <2>1 DEF SetBundlingMode, SetBundlingInterval, TypeOK,
                      OnlyHolderWorks, history, Entry
<1>4. CASE Tick \/ TryBundle
  <2>1. /\ at' \in [Callers \cup {Cron} -> Places \cup {"try"}]
        /\ \A c \in Callers : at'[c] = at[c]
    BY <1>4, BundlerAssumption DEF Tick, TryBundle, TypeOK, Places
  <2> QED
    BY <1>4, <2>1 DEF Tick, TryBundle, TypeOK, OnlyHolderWorks, cron, history,
                      Entry
<1> QED
  BY <1>1, <1>2, <1>3, <1>4

-----------------------------------------------------------------------------
(***************************************************************************)
(* The theorems.                                                           *)
(***************************************************************************)
BundlerInv == PoolHolds /\ TypeOK /\ OnlyHolderWorks

LEMMA StepUsesPool == TypeOK /\ [Next]_vars => [Mempool!Next]_pool
<1> SUFFICES ASSUME TypeOK, [Next]_vars PROVE [Mempool!Next]_pool
  OBVIOUS
<1>1. CASE UNCHANGED vars
  BY <1>1 DEF vars
<1>2. ASSUME NEW c \in Callers, Call(c) \/ BundlerStep(c) \/ RemoveFails(c)
      PROVE  [Mempool!Next]_pool
  BY <1>2, CallersUsePool
<1>3. ASSUME NEW p \in Clients,
             (\E op \in UserOps : Submit(p, op)) \/ ClientStep(p) \/ ClientFails(p)
      PROVE  [Mempool!Next]_pool
  <2>1. p \in Proc
    BY DEF Clients
  <2> QED
    BY <1>3, <2>1, ClientsUsePool
    DEF ClientStep, ClientFails, Mempool!Next
<1>4. CASE \/ \E m \in {"auto", "manual"} : SetBundlingMode(m)
           \/ SetBundlingInterval \/ Tick \/ TryBundle
  BY <1>4 DEF SetBundlingMode, SetBundlingInterval, Tick, TryBundle
<1> QED
  BY <1>1, <1>2, <1>3, <1>4 DEF Next

LEMMA BundlerInit == Init => BundlerInv
<1> SUFFICES ASSUME Init PROVE BundlerInv
  OBVIOUS
<1>1. PoolHolds
  BY PoolHoldsInit DEF Init
<1>2. NoTask \in Task
  BY DEF NoTask, Nothing, Task
<1>3. TypeOK
  BY <1>2, BundlerAssumption DEF Init, TypeOK, Places, Entry
<1>4. OnlyHolderWorks
  BY DEF Init, OnlyHolderWorks
<1> QED
  BY <1>1, <1>3, <1>4 DEF BundlerInv

LEMMA BundlerInvStep == BundlerInv /\ [Next]_vars => BundlerInv'
<1> SUFFICES ASSUME BundlerInv, [Next]_vars PROVE BundlerInv'
  OBVIOUS
<1>0. PoolHolds /\ TypeOK /\ OnlyHolderWorks
  BY DEF BundlerInv
<1>1. PoolHolds'
  BY <1>0, StepUsesPool, PoolHoldsStep
<1>2. CASE UNCHANGED vars
  BY <1>0, <1>1, <1>2, StillKeeps DEF vars, history, TypeOK, BundlerInv
<1>3. ASSUME NEW c \in Callers, Call(c) \/ BundlerStep(c) \/ RemoveFails(c)
      PROVE  TypeOK' /\ OnlyHolderWorks'
  BY <1>0, <1>3, CallersKeep
<1>4. CASE \/ \E p \in Clients :
                 (\E op \in UserOps : Submit(p, op)) \/ ClientStep(p)
                     \/ ClientFails(p)
           \/ \E m \in {"auto", "manual"} : SetBundlingMode(m)
           \/ SetBundlingInterval \/ Tick \/ TryBundle
  BY <1>0, <1>1, <1>4, OthersKeep DEF BundlerInv
<1> QED
  BY <1>1, <1>2, <1>3, <1>4 DEF BundlerInv, Next

\* The state of the bundler, whatever interleaves with it, has its types: no
\* deposit is overdrawn in the count of a bundle, and every entry it sorts,
\* judges and removes is an operation.
THEOREM TypeCorrect == Spec => []TypeOK
<1>1. BundlerInv => TypeOK
  BY DEF BundlerInv
<1> QED
  BY <1>1, BundlerInit, BundlerInvStep, PTL DEF Spec

\* The mutex works: whatever fails in a call of sendNextBundle, only the call
\* at the head of the queue builds, sends and removes.
THEOREM MutexHolds == Spec => []OnlyHolderWorks
<1>1. BundlerInv => OnlyHolderWorks
  BY DEF BundlerInv
<1> QED
  BY <1>1, BundlerInit, BundlerInvStep, PTL DEF Spec

\* The bundler implements the pool's specification: every run of bundler,
\* clients and timer is a run of the pool's requests.
THEOREM BundlerUsesPool == Spec => UsesPool
<1>1. Init => Mempool!Init
  BY DEF Init
<1>2. BundlerInv /\ [Next]_vars => [Mempool!Next]_pool
  BY StepUsesPool DEF BundlerInv
<1>3. UsesPool <=> Mempool!Init /\ [][Mempool!Next]_pool
  BY DEF UsesPool, Mempool!Spec, Mempool!vars, pool
<1> QED
  BY <1>1, <1>2, <1>3, BundlerInit, BundlerInvStep, PTL DEF Spec

-----------------------------------------------------------------------------
(***************************************************************************)
(* What a bundle holds, however calls of sendNextBundle, clients and       *)
(* settings interleave.  First, what it costs a paymaster: a fold, which   *)
(* is shown to count the sum of the costs.                                 *)
(***************************************************************************)
Cost(b, e) ==
    [i \in DOMAIN b |-> IF Paymaster[b[i]] = e THEN Prefund[b[i]] ELSE 0]

\* A fold that adds what each operation costs is the sum of the costs.
LEMMA ChargedCounts ==
    ASSUME NEW b \in Seq(UserOps), NEW e \in Entities
    PROVE  Charged(b, e) = Cardinality(Units(Cost(b, e), DOMAIN b))
<1> DEFINE D == DOMAIN b
           f == Cost(b, e)
           W(s) == Cardinality(Units(f, s))
           one(s) == CHOOSE x \in s : TRUE
           Sums(g) == g = [s \in SUBSET D |->
                IF s = {} THEN 0
                ELSE IF Paymaster[b[one(s)]] = e
                     THEN g[s \ {one(s)}] + Prefund[b[one(s)]]
                     ELSE g[s \ {one(s)}]]
           iter == CHOOSE g : Sums(g)
<1>1. IsFiniteSet(D) /\ f \in [D -> Nat]
  <2>1. D = 1 .. Len(b) /\ Len(b) \in Nat /\ \A i \in D : b[i] \in UserOps
    OBVIOUS
  <2>2. IsFiniteSet(D)
    BY <2>1, FS_Interval
  <2> QED
    BY <2>1, <2>2, BundlerAssumption DEF Cost
<1>2. Charged(b, e) = iter[D]
  BY DEF Charged, FoldSeq, FoldFunction, FoldFunctionOnSet, MapThenFoldSet
<1>3. /\ W({}) = 0
      /\ \A s \in SUBSET D : W(s) \in Nat
      /\ \A s \in SUBSET D : \A x \in s : W(s) = f[x] + W(s \ {x})
  BY <1>1, UnitsAdd
<1>4. \A s \in SUBSET D : s # {} =>
         /\ one(s) \in s
         /\ f[one(s)] = IF Paymaster[b[one(s)]] = e THEN Prefund[b[one(s)]] ELSE 0
  BY DEF Cost
<1>5. \A x \in D : f[x] \in Nat
  BY <1>1
<1> HIDE DEF f, W, one
<1>6. Sums([s \in SUBSET D |-> W(s)])
  <2>1. ASSUME NEW s \in SUBSET D, s # {}
        PROVE  W(s) = IF Paymaster[b[one(s)]] = e
                      THEN W(s \ {one(s)}) + Prefund[b[one(s)]]
                      ELSE W(s \ {one(s)})
    <3>1. /\ W(s) = f[one(s)] + W(s \ {one(s)})
          /\ W(s \ {one(s)}) \in Nat /\ f[one(s)] \in Nat
      BY <1>3, <1>4, <1>5, <2>1
    <3> QED
      BY <1>4, <2>1, <3>1
  <2>2. \A s \in SUBSET D : s # {} => s \ {one(s)} \in SUBSET D
    OBVIOUS
  <2> QED
    BY <1>3, <2>1, <2>2
<1>7. Sums(iter)
  BY <1>6
<1> HIDE DEF iter
<1>8. \A s \in SUBSET D : iter[s] = W(s)
  <2> DEFINE S == {s \in SUBSET D : iter[s] = W(s)}
  <2>1. ASSUME NEW s \in SUBSET D, \A x \in s : s \ {x} \in S
        PROVE  s \in S
    <3>1. CASE s = {}
      BY <1>3, <1>7, <3>1
    <3>2. CASE s # {}
      <4>1. one(s) \in s /\ iter[s \ {one(s)}] = W(s \ {one(s)})
        BY <1>4, <2>1, <3>2
      <4>2. iter[s] = IF Paymaster[b[one(s)]] = e
                      THEN iter[s \ {one(s)}] + Prefund[b[one(s)]]
                      ELSE iter[s \ {one(s)}]
        BY <1>7, <3>2
      <4>3. /\ W(s) = f[one(s)] + W(s \ {one(s)})
            /\ W(s \ {one(s)}) \in Nat /\ f[one(s)] \in Nat
        BY <1>3, <1>5, <4>1
      <4> QED
        BY <1>4, <3>2, <4>1, <4>2, <4>3
    <3> QED
      BY <3>1, <3>2
  <2> HIDE DEF S
  <2>2. \A s \in SUBSET D : s \in S
    BY <1>1, <2>1, EverySubset
  <2> QED
    BY <2>2 DEF S
<1> QED
  BY <1>2, <1>8 DEF W, f
LEMMA ChargedIsNumber ==
    ASSUME NEW b \in Seq(UserOps), NEW e \in Entities
    PROVE  Charged(b, e) \in Nat
<1>1. DOMAIN b = 1 .. Len(b) /\ Len(b) \in Nat /\ \A i \in DOMAIN b : b[i] \in UserOps
  OBVIOUS
<1>2. IsFiniteSet(DOMAIN b)
  BY <1>1, FS_Interval
<1>3. Cost(b, e) \in [DOMAIN b -> Nat]
  BY <1>1, BundlerAssumption DEF Cost
<1> QED
  BY <1>2, <1>3, UnitsAdd, ChargedCounts

\* A bundle of nothing costs nothing, and an operation adds what it may cost.
LEMMA ChargedAppend ==
    ASSUME NEW b \in Seq(UserOps), NEW e \in Entities, NEW op \in UserOps
    PROVE  /\ Charged(b, e) \in Nat
           /\ Charged(Append(b, op), e)
                  = Charged(b, e) + (IF Paymaster[op] = e THEN Prefund[op] ELSE 0)
<1> DEFINE n == Len(b)
           u == Append(b, op)
           f == Cost(b, e)
           g == Cost(u, e)
<1>1. /\ n \in Nat /\ u \in Seq(UserOps) /\ DOMAIN b = 1 .. n
      /\ DOMAIN u = 1 .. n + 1 /\ u[n + 1] = op
      /\ \A i \in 1 .. n : u[i] = b[i] /\ u[i] \in UserOps
  OBVIOUS
<1>2. IsFiniteSet(1 .. n) /\ IsFiniteSet(1 .. n + 1)
  BY <1>1, FS_Interval
<1>3. f \in [1 .. n -> Nat] /\ g \in [1 .. n + 1 -> Nat]
  <2>1. \A i \in DOMAIN b : b[i] \in UserOps
    OBVIOUS
  <2>2. \A i \in DOMAIN u : u[i] \in UserOps
    BY <1>1
  <2> QED
    BY <1>1, <2>1, <2>2, BundlerAssumption DEF Cost
<1>4. /\ \A i \in 1 .. n : g[i] = f[i]
      /\ g[n + 1] = IF Paymaster[op] = e THEN Prefund[op] ELSE 0
  BY <1>1 DEF Cost
<1>5. Charged(b, e) = Cardinality(Units(f, 1 .. n))
  BY <1>1, ChargedCounts
<1>6. Charged(u, e) = Cardinality(Units(g, 1 .. n + 1))
  BY <1>1, ChargedCounts
<1> HIDE DEF f, g, u, n
<1>7. Units(g, 1 .. n) = Units(f, 1 .. n)
  BY <1>4 DEF Units
<1>8. Cardinality(Units(f, 1 .. n)) \in Nat
  BY <1>2, <1>3, UnitsAdd
<1>9. Cardinality(Units(g, 1 .. n + 1)) = g[n + 1] + Cardinality(Units(g, 1 .. n))
  <2>1. n + 1 \in 1 .. n + 1 /\ (1 .. n + 1) \ {n + 1} = 1 .. n
    BY <1>1
  <2> DEFINE D == 1 .. n + 1
  <2>2. IsFiniteSet(D) /\ g \in [D -> Nat] /\ D \in SUBSET D /\ n + 1 \in D
    BY <1>2, <1>3, <2>1
  <2> HIDE DEF D
  <2>3. Cardinality(Units(g, D)) = g[n + 1] + Cardinality(Units(g, D \ {n + 1}))
    BY <2>2, UnitsAdd
  <2> QED
    BY <2>1, <2>3 DEF D
<1>10. g[n + 1] \in Nat
  BY <1>1, <1>3
<1> QED
  BY <1>4, <1>5, <1>6, <1>7, <1>8, <1>9, <1>10 DEF u

LEMMA ChargedNothing ==
    ASSUME NEW e \in Entities
    PROVE  Charged(<<>>, e) = 0
<1>1. DOMAIN <<>> = {}
  OBVIOUS
<1>2. Cardinality(Units(Cost(<<>>, e), {})) = 0
  BY FS_EmptySet DEF Units
<1>3. Charged(<<>>, e) = Cardinality(Units(Cost(<<>>, e), DOMAIN <<>>))
  <2>1. <<>> \in Seq(UserOps)
    OBVIOUS
  <2> QED
    BY ONLY <2>1, ChargedCounts, e \in Entities
<1> QED
  BY <1>1, <1>2, <1>3

-----------------------------------------------------------------------------
(***************************************************************************)
(* The locals of a call.  The senders of the bundle are among task.senders *)
(* and no two are alike; the bundle and, after it, the entries still to be *)
(* judged are sorted by fee.  The counts are at least the operations of an *)
(* entity in the bundle, and what is left of a deposit and what the bundle *)
(* costs are together what was read.                                       *)
(***************************************************************************)
Single(t) ==
    /\ \A i \in DOMAIN t.bundle : t.bundle[i].sender \in t.senders
    /\ \A i, j \in DOMAIN t.bundle :
          i # j => t.bundle[i].sender # t.bundle[j].sender

Falling(s) == \A i, j \in DOMAIN s : i < j => s[i].prio >= s[j].prio

Ahead(t) ==
    /\ Falling(t.todo)
    /\ \A i \in DOMAIN t.bundle, j \in DOMAIN t.todo :
          t.bundle[i].prio >= t.todo[j].prio

UsersOf(b, e) == {i \in DOMAIN b : Uses(b[i], e)}

Counted(t) ==
    \A e \in Entities :
        /\ Cardinality(UsersOf(t.bundle, e)) <= 2
        /\ Cardinality(UsersOf(t.bundle, e)) <= t.count[e]

Funded(t) ==
    \A e \in Entities :
        IF t.read[e] = None
        THEN t.left[e] = None /\ Charged(t.bundle, e) = 0
        ELSE t.left[e] # None
                 /\ Charged(t.bundle, e) + t.left[e] = t.read[e]

BundleHolds(t) == Single(t) /\ Falling(t.bundle) /\ Counted(t) /\ Funded(t)

Room(t, e) == e # None => t.count[e] <= 1

\* A call that does not clean up has its entries in order, one that has not
\* begun has no locals, and one that validates an entry has none of its sender
\* in the bundle.
LocalsHold(place, t) ==
    /\ place \in {"idle", "lock", "dump"} => t = NoTask
    /\ BundleHolds(t)
    /\ place \notin {"clean", "cleaning"} => Ahead(t)
    /\ place \in {"factory", "validate", "deposit"} =>
          Room(t, Paymaster[Head(t.todo)])
    /\ place \in {"validate", "deposit"} =>
          Room(t, Factory[Head(t.todo)]) /\ Head(t.todo).sender \notin t.senders

BundleInv == \A c \in Callers : LocalsHold(at[c], task[c])

LEMMA NoTaskHolds ==
    /\ NoTask \in Task
    /\ BundleHolds(NoTask) /\ Ahead(NoTask)
<1>1. NoTask \in Task /\ Single(NoTask) /\ Falling(NoTask.bundle) /\ Ahead(NoTask)
  BY DEF NoTask, Nothing, Task, Single, Falling, Ahead
<1>2. Counted(NoTask)
  <2>1. \A e \in Entities : UsersOf(NoTask.bundle, e) = {}
    BY DEF NoTask, UsersOf
  <2> QED
    BY <2>1, FS_EmptySet DEF Counted, NoTask
<1>3. Funded(NoTask)
  BY ChargedNothing DEF Funded, NoTask, Nothing
<1> QED
  BY <1>1, <1>2, <1>3 DEF BundleHolds

\* The entries after the first are in order.
LEMMA RestHolds ==
    ASSUME NEW t \in Task, t.todo # <<>>, Ahead(t)
    PROVE  /\ Ahead(RestOf(t))
           /\ BundleHolds(t) => BundleHolds(RestOf(t))
<1>1. t.todo \in Seq(UserOps) /\ t.bundle \in Seq(UserOps)
  BY DEF Task
<1>2. /\ RestOf(t).todo = Tail(t.todo) /\ RestOf(t).bundle = t.bundle
      /\ RestOf(t).senders = t.senders /\ RestOf(t).count = t.count
      /\ RestOf(t).read = t.read /\ RestOf(t).left = t.left
  BY DEF RestOf, Task
<1>3. /\ Tail(t.todo) \in Seq(UserOps)
      /\ \A i \in DOMAIN Tail(t.todo) :
            i \in Nat /\ i + 1 \in DOMAIN t.todo /\ Tail(t.todo)[i] = t.todo[i + 1]
  BY <1>1
<1>4. Falling(Tail(t.todo))
  <2> SUFFICES ASSUME NEW i \in DOMAIN Tail(t.todo), NEW j \in DOMAIN Tail(t.todo),
                      i < j
               PROVE  Tail(t.todo)[i].prio >= Tail(t.todo)[j].prio
    BY DEF Falling
  <2>1. i + 1 < j + 1
    BY <1>3
  <2> QED
    BY <1>3, <2>1 DEF Ahead, Falling
<1>5. BundleHolds(t) => BundleHolds(RestOf(t))
  BY <1>2 DEF BundleHolds, Single, Counted, Funded
<1> QED
  BY <1>2, <1>3, <1>4, <1>5 DEF Ahead

\* An operation joins a bundle that has room for its entities, and a deposit
\* that covers it.
LEMMA IncludedShares ==
    ASSUME NEW t \in Task, NEW op \in UserOps, Counted(t), Funded(t),
           Room(t, Paymaster[op]), Room(t, Factory[op]),
           Paymaster[op] # None =>
               /\ t.left[Paymaster[op]] # None
               /\ t.left[Paymaster[op]] >= Prefund[op]
    PROVE  Counted(Included(t, op)) /\ Funded(Included(t, op))
<1> DEFINE u == Included(t, op)
           n == Len(t.bundle)
           uses(e) == (IF Paymaster[op] = e THEN 1 ELSE 0)
                          + (IF Factory[op] = e THEN 1 ELSE 0)
<1>1. /\ t.bundle \in Seq(UserOps) /\ t.count \in [Entities -> Nat]
      /\ t.read \in [Entities -> Nat \cup {None}]
      /\ t.left \in [Entities -> Nat \cup {None}]
  BY DEF Task
<1>2. /\ u.bundle = Append(t.bundle, op) /\ u.read = t.read
      /\ \A e \in Entities : u.count[e] = t.count[e] + uses(e)
      /\ \A e \in Entities : u.left[e] = IF e = Paymaster[op]
                                        THEN t.left[e] - Prefund[op]
                                        ELSE t.left[e]
  BY <1>1 DEF Included, Task
<1>3. /\ n \in Nat /\ DOMAIN u.bundle = 1 .. n + 1 /\ DOMAIN t.bundle = 1 .. n
      /\ u.bundle[n + 1] = op /\ \A i \in 1 .. n : u.bundle[i] = t.bundle[i]
  BY <1>1, <1>2
<1>4. Prefund[op] \in Nat /\ None \notin Nat
  BY BundlerAssumption
<1> HIDE DEF u, n
<1>5. ASSUME NEW e \in Entities
      PROVE  /\ Cardinality(UsersOf(u.bundle, e)) <= 2
             /\ Cardinality(UsersOf(u.bundle, e)) <= u.count[e]
  <2> DEFINE old == UsersOf(t.bundle, e)
             new == UsersOf(u.bundle, e)
  <2>1. Cardinality(old) <= 2 /\ Cardinality(old) <= t.count[e]
    BY DEF Counted
  <2>2. IsFiniteSet(old) /\ Cardinality(old) \in Nat
    <3>1. IsFiniteSet(1 .. n) /\ old \in SUBSET (1 .. n)
      BY <1>3, FS_Interval DEF UsersOf
    <3> QED
      BY <3>1, FS_Subset, FS_CardinalityType
  <2>3. new = IF Uses(op, e) THEN old \cup {n + 1} ELSE old
    <3>1. \A i \in 1 .. n + 1 : i \in 1 .. n \/ i = n + 1
      BY <1>3
    <3>2. \A i : i \in new <=> i \in old \/ (i = n + 1 /\ Uses(op, e))
      BY <1>3, <3>1 DEF UsersOf
    <3> QED
      BY <3>2
  <2>4. n + 1 \notin old
    BY <1>3 DEF UsersOf
  <2>5. u.count[e] = t.count[e] + uses(e) /\ t.count[e] \in Nat
    BY <1>1, <1>2
  <2> HIDE DEF old, new
  <2>6. CASE Uses(op, e)
    <3>1. Cardinality(new) = Cardinality(old) + 1
      BY <2>2, <2>3, <2>4, <2>6, FS_AddElement
    <3>2. uses(e) >= 1 /\ uses(e) \in Nat
      BY <2>6 DEF Uses
    <3>3. t.count[e] <= 1
      BY <2>6, BundlerAssumption DEF Uses, Room
    <3> QED
      BY <2>1, <2>2, <2>5, <3>1, <3>2, <3>3 DEF new
  <2>7. CASE ~Uses(op, e)
    <3>1. uses(e) \in Nat
      OBVIOUS
    <3> QED
      BY <2>1, <2>2, <2>3, <2>5, <2>7, <3>1 DEF new
  <2> QED
    BY <2>6, <2>7
<1>6. ASSUME NEW e \in Entities
      PROVE  IF u.read[e] = None
             THEN u.left[e] = None /\ Charged(u.bundle, e) = 0
             ELSE u.left[e] # None /\ Charged(u.bundle, e) + u.left[e] = u.read[e]
  <2>1. /\ Charged(t.bundle, e) \in Nat
        /\ Charged(u.bundle, e) = Charged(t.bundle, e)
               + (IF Paymaster[op] = e THEN Prefund[op] ELSE 0)
    BY <1>1, <1>2, ChargedAppend
  <2>2. t.read[e] \in Nat \cup {None} /\ t.left[e] \in Nat \cup {None}
    BY <1>1
  <2>3. /\ t.read[e] = None => t.left[e] = None /\ Charged(t.bundle, e) = 0
        /\ t.read[e] # None =>
              /\ t.left[e] # None
              /\ Charged(t.bundle, e) + t.left[e] = t.read[e]
    BY DEF Funded
  <2>4. CASE Paymaster[op] = e
    <3>1. /\ e # None /\ t.left[e] \in Nat /\ t.left[e] >= Prefund[op]
          /\ t.read[e] \in Nat
      BY <2>2, <2>3, <2>4, BundlerAssumption
    <3>2. u.left[e] = t.left[e] - Prefund[op] /\ u.left[e] \in Nat
      BY <1>2, <1>4, <2>4, <3>1
    <3>3. Charged(u.bundle, e) = Charged(t.bundle, e) + Prefund[op]
      BY <2>1, <2>4
    <3>4. Charged(t.bundle, e) + t.left[e] = t.read[e]
      BY <1>4, <2>3, <3>1
    <3>5. Charged(u.bundle, e) + u.left[e] = u.read[e]
      BY <1>2, <1>4, <2>1, <3>1, <3>2, <3>3, <3>4
    <3> QED
      BY <1>2, <1>4, <3>1, <3>2, <3>5
  <2>5. CASE Paymaster[op] # e
    <3>1. u.left[e] = t.left[e] /\ Charged(u.bundle, e) = Charged(t.bundle, e)
      BY <1>2, <2>1, <2>5
    <3> QED
      BY <1>2, <2>3, <3>1
  <2> QED
    BY <2>4, <2>5
<1>7. Counted(u) /\ Funded(u)
  BY <1>5, <1>6 DEF Counted, Funded
<1> QED
  BY <1>7 DEF u

\* The first entry can be put behind the bundle.
LEMMA IncludedHolds ==
    ASSUME NEW t \in Task, NEW op, op = Head(t.todo), t.todo # <<>>,
           BundleHolds(t), Ahead(t), op.sender \notin t.senders,
           Room(t, Paymaster[op]), Room(t, Factory[op]),
           Paymaster[op] # None =>
               /\ t.left[Paymaster[op]] # None
               /\ t.left[Paymaster[op]] >= Prefund[op]
    PROVE  BundleHolds(Included(t, op)) /\ Ahead(Included(t, op))
<1> USE DEF BundleHolds
<1> DEFINE u == Included(t, op)
           n == Len(t.bundle)
<1>1. t.todo \in Seq(UserOps) /\ t.bundle \in Seq(UserOps)
  BY DEF Task
<1>2. op \in UserOps /\ 1 \in DOMAIN t.todo /\ op = t.todo[1]
  BY <1>1
<1>3. /\ u.todo = Tail(t.todo) /\ u.bundle = Append(t.bundle, op)
      /\ u.senders = t.senders \cup {op.sender}
  BY DEF Included, Task
<1>4. /\ n \in Nat /\ DOMAIN u.bundle = 1 .. n + 1 /\ DOMAIN t.bundle = 1 .. n
      /\ u.bundle[n + 1] = op /\ \A i \in 1 .. n : u.bundle[i] = t.bundle[i]
  BY <1>1, <1>2, <1>3
<1>5. \A i \in DOMAIN u.todo :
        i \in Nat \ {0} /\ i + 1 \in DOMAIN t.todo /\ u.todo[i] = t.todo[i + 1]
  <2>1. \A i \in DOMAIN Tail(t.todo) :
          /\ i \in Nat \ {0} /\ i + 1 \in DOMAIN t.todo
          /\ Tail(t.todo)[i] = t.todo[i + 1]
    BY <1>1
  <2> HIDE DEF u
  <2> QED
    BY <1>3, <2>1
<1>6. \A o \in UserOps : o.prio \in Nat
  BY PoolAssumption
<1>7. \A i \in 1 .. n : t.bundle[i].prio >= op.prio
  BY <1>2, <1>4 DEF Ahead
<1>8. \A j \in DOMAIN u.todo : op.prio >= u.todo[j].prio
  <2> SUFFICES ASSUME NEW j \in DOMAIN u.todo PROVE t.todo[1].prio >= t.todo[j + 1].prio
    BY <1>2, <1>5
  <2>1. j + 1 \in DOMAIN t.todo /\ 1 < j + 1
    BY <1>5
  <2> QED
    BY <1>2, <2>1 DEF Ahead, Falling
<1>9. \A i \in DOMAIN u.bundle : i \in 1 .. n \/ i = n + 1
  BY <1>4
<1> HIDE DEF u, n
<1>10. Single(u)
  BY <1>3, <1>4, <1>9 DEF Single
<1>11. Falling(u.bundle)
  <2> SUFFICES ASSUME NEW i \in DOMAIN u.bundle, NEW j \in DOMAIN u.bundle, i < j
               PROVE  u.bundle[i].prio >= u.bundle[j].prio
    BY DEF Falling
  <2>1. i \in 1 .. n
    BY <1>4
  <2>2. CASE j \in 1 .. n
    BY <1>4, <2>1, <2>2 DEF Falling
  <2>3. CASE j = n + 1
    BY <1>4, <1>7, <2>1, <2>3
  <2> QED
    BY <1>9, <2>2, <2>3
<1>12. Falling(u.todo)
  <2> SUFFICES ASSUME NEW i \in DOMAIN u.todo, NEW j \in DOMAIN u.todo, i < j
               PROVE  t.todo[i + 1].prio >= t.todo[j + 1].prio
    BY <1>5 DEF Falling
  <2>1. i + 1 < j + 1 /\ i + 1 \in DOMAIN t.todo /\ j + 1 \in DOMAIN t.todo
    BY <1>5
  <2> QED
    BY <2>1 DEF Ahead, Falling
<1>13. \A i \in DOMAIN u.bundle, j \in DOMAIN u.todo :
          u.bundle[i].prio >= u.todo[j].prio
  <2> SUFFICES ASSUME NEW i \in DOMAIN u.bundle, NEW j \in DOMAIN u.todo
               PROVE  u.bundle[i].prio >= u.todo[j].prio
    OBVIOUS
  <2>1. CASE i \in 1 .. n
    BY <1>4, <1>5, <2>1 DEF Ahead
  <2>2. CASE i = n + 1
    BY <1>4, <1>8, <2>2
  <2> QED
    BY <1>9, <2>1, <2>2
<1>14. Counted(u) /\ Funded(u)
  BY <1>2, IncludedShares DEF u
<1>15. BundleHolds(u) /\ Ahead(u)
  BY <1>10, <1>11, <1>12, <1>13, <1>14 DEF Ahead
<1> QED
  BY <1>15 DEF u

-----------------------------------------------------------------------------
(***************************************************************************)
(* The steps.                                                              *)
(***************************************************************************)
LEMMA GotoBundle ==
    ASSUME TypeOK, BundleInv, NEW c \in Callers, NEW to, NEW t, Goto(c, to, t),
           LocalsHold(to, t)
    PROVE  BundleInv'
BY DEF TypeOK, BundleInv, Goto

LEMMA LeaveBundle ==
    ASSUME TypeOK, BundleInv, NEW c \in Callers, Leave(c)
    PROVE  BundleInv'
<1>1. LocalsHold("idle", NoTask)
  BY NoTaskHolds DEF LocalsHold
<1> QED
  BY <1>1 DEF TypeOK, BundleInv, Leave

LEMMA AdvanceBundle ==
    ASSUME TypeOK, BundleInv, NEW c \in Callers, NEW t, Advance(c, t),
           BundleHolds(t), Ahead(t)
    PROVE  BundleInv'
<1>1. LocalsHold("paymaster", t) /\ LocalsHold("send", t)
  BY DEF LocalsHold
<1> QED
  BY <1>1, GotoBundle, LeaveBundle DEF Advance

\* A call passes an entry by, or begins to remove it.
LEMMA EntryBundle ==
    ASSUME TypeOK, BundleInv, NEW c \in Callers, Skip(c) \/ Drop(c),
           at[c] \in {"paymaster", "factory", "validate", "deposit"}
    PROVE  BundleInv'
<1>1. task[c] \in Task /\ task[c].todo # <<>>
  BY DEF TypeOK
<1>2. BundleHolds(task[c]) /\ Ahead(task[c])
  BY DEF BundleInv, LocalsHold
<1>3. CASE Skip(c)
  <2>1. Ahead(RestOf(task[c])) /\ BundleHolds(RestOf(task[c]))
    BY <1>1, <1>2, RestHolds
  <2> QED
    BY <1>3, <2>1, AdvanceBundle DEF Skip
<1>4. CASE Drop(c)
  <2>1. LocalsHold("drop", task[c])
    BY <1>2 DEF LocalsHold
  <2> QED
    BY <1>4, <2>1, GotoBundle DEF Drop
<1> QED
  BY <1>3, <1>4

\* An entry is judged, and joins the bundle or does not.
LEMMA JudgeBundle ==
    ASSUME TypeOK, BundleInv, NEW c \in Callers,
           PaymasterStatus(c) \/ FactoryStatus(c) \/ Validate(c) \/ Deposit(c)
    PROVE  BundleInv'
<1>1. at[c] \in {"paymaster", "factory", "validate", "deposit"}
  BY DEF PaymasterStatus, FactoryStatus, Validate, Deposit
<1>2. task[c] \in Task /\ task[c].todo # <<>>
  BY <1>1 DEF TypeOK
<1>3. BundleHolds(task[c]) /\ Ahead(task[c])
  BY <1>1 DEF BundleInv, LocalsHold
<1>4. \A e \in Entities : task[c].count[e] \in Nat
  BY <1>2 DEF Task
<1>5. /\ Entry(c) \in UserOps /\ Entry(c) = Head(task[c].todo)
      /\ Paymaster[Entry(c)] \in Entities \cup {None}
      /\ Factory[Entry(c)] \in Entities \cup {None}
  <2>1. task[c].todo \in Seq(UserOps)
    BY <1>2 DEF Task
  <2>2. Entry(c) \in UserOps
    BY <1>2, <2>1 DEF Entry
  <2> QED
    BY <2>2, BundlerAssumption DEF Entry
<1>6. \A e \in Entities \cup {None} : EntityPasses(c, e) => Room(task[c], e)
  BY <1>4 DEF EntityPasses, EntityFull, Room
<1>7. CASE PaymasterStatus(c)
  <2>1. EntityPasses(c, Paymaster[Entry(c)]) => LocalsHold("factory", task[c])
    BY <1>3, <1>5, <1>6 DEF LocalsHold
  <2> QED
    BY <1>1, <1>7, <2>1, GotoBundle, EntryBundle DEF PaymasterStatus, EntityStops
<1>8. CASE FactoryStatus(c)
  <2>1. Room(task[c], Paymaster[Entry(c)])
    BY <1>8 DEF FactoryStatus, BundleInv, LocalsHold, Entry
  <2>2. SenderFree(c) /\ EntityPasses(c, Factory[Entry(c)]) =>
            LocalsHold("validate", task[c])
    BY <1>3, <1>5, <1>6, <2>1 DEF LocalsHold, SenderFree
  <2> QED
    BY <1>1, <1>8, <2>2, GotoBundle, EntryBundle DEF FactoryStatus, EntityStops
<1>9. at[c] \in {"validate", "deposit"} =>
          /\ Entry(c).sender \notin task[c].senders
          /\ Room(task[c], Paymaster[Entry(c)]) /\ Room(task[c], Factory[Entry(c)])
  BY DEF BundleInv, LocalsHold, Entry
<1>10. CASE Validate(c)
  <2>1. LocalsHold("deposit", task[c])
    BY <1>3, <1>5, <1>9, <1>10 DEF LocalsHold, Validate
  <2>2. ASSUME Paymaster[Entry(c)] = None, Advance(c, Included(task[c], Entry(c)))
        PROVE  BundleInv'
    <3>1. BundleHolds(Included(task[c], Entry(c))) /\ Ahead(Included(task[c], Entry(c)))
      BY <1>2, <1>3, <1>5, <1>9, <1>10, <2>2, IncludedHolds DEF Validate
    <3> QED
      BY <2>2, <3>1, AdvanceBundle
  <2> QED
    BY <1>1, <1>10, <2>1, <2>2, GotoBundle, EntryBundle DEF Validate
<1>11. CASE Deposit(c)
  <2> DEFINE e == Paymaster[Entry(c)]
             t == task[c]
             known(d) == IF t.left[e] = None
                         THEN [t EXCEPT !.read[e] = d, !.left[e] = d]
                         ELSE t
  <2>1. PICK d \in IF t.left[e] = None THEN Deposits ELSE {t.left[e]} :
          \/ d < Prefund[Entry(c)] /\ Advance(c, RestOf(known(d)))
          \/ /\ d >= Prefund[Entry(c)]
             /\ Advance(c, Included(known(d), Entry(c)))
    BY <1>11 DEF Deposit
  <2>2. e \in Entities
    BY <1>5, <1>11 DEF Deposit, TypeOK
  <2>3. /\ t.left \in [Entities -> Nat \cup {None}]
        /\ t.read \in [Entities -> Nat \cup {None}]
    BY <1>2 DEF Task
  <2>4. d \in Nat
    BY <2>1, <2>2, <2>3, BundlerAssumption
  <2>5. known(d) \in Task
    BY <1>2, <2>2, <2>4 DEF Task
  <2>6. /\ known(d).todo = t.todo /\ known(d).bundle = t.bundle
        /\ known(d).senders = t.senders /\ known(d).count = t.count
        /\ known(d).left[e] = d
        /\ \A a \in Entities :
              \/ known(d).read[a] = t.read[a] /\ known(d).left[a] = t.left[a]
              \/ t.left[a] = None /\ known(d).read[a] = d /\ known(d).left[a] = d
    <3>1. CASE t.left[e] = None
      BY <1>2, <2>2, <2>3, <3>1 DEF Task
    <3>2. CASE t.left[e] # None
      BY <2>1, <3>2
    <3> QED
      BY <3>1, <3>2
  <2> HIDE DEF known
  <2>7. Funded(known(d))
    <3> SUFFICES ASSUME NEW a \in Entities
                 PROVE  IF known(d).read[a] = None
                        THEN /\ known(d).left[a] = None
                             /\ Charged(known(d).bundle, a) = 0
                        ELSE /\ known(d).left[a] # None
                             /\ Charged(known(d).bundle, a) + known(d).left[a]
                                    = known(d).read[a]
      BY DEF Funded
    <3>1. IF t.read[a] = None
          THEN t.left[a] = None /\ Charged(t.bundle, a) = 0
          ELSE t.left[a] # None /\ Charged(t.bundle, a) + t.left[a] = t.read[a]
      BY <1>3 DEF BundleHolds, Funded
    <3>2. CASE t.left[a] = None /\ known(d).read[a] = d /\ known(d).left[a] = d
      BY <2>4, <2>6, <3>1, <3>2, BundlerAssumption
    <3>3. CASE known(d).read[a] = t.read[a] /\ known(d).left[a] = t.left[a]
      BY <2>6, <3>1, <3>3
    <3> QED
      BY <2>6, <3>2, <3>3
  <2>8. BundleHolds(known(d)) /\ Ahead(known(d))
    BY <1>3, <2>6, <2>7 DEF BundleHolds, Single, Counted, Ahead
  <2>9. CASE Advance(c, RestOf(known(d)))
    <3>1. Ahead(RestOf(known(d))) /\ BundleHolds(RestOf(known(d)))
      BY <1>2, <2>5, <2>6, <2>8, RestHolds
    <3> QED
      BY <2>9, <3>1, AdvanceBundle
  <2>10. ASSUME d >= Prefund[Entry(c)], Advance(c, Included(known(d), Entry(c)))
         PROVE  BundleInv'
    <3>1. /\ Entry(c) = Head(known(d).todo) /\ known(d).todo # <<>>
          /\ Entry(c).sender \notin known(d).senders
          /\ Room(known(d), Paymaster[Entry(c)]) /\ Room(known(d), Factory[Entry(c)])
      BY <1>2, <1>5, <1>9, <1>11, <2>6 DEF Deposit, Room
    <3>2. known(d).left[e] # None /\ known(d).left[e] >= Prefund[Entry(c)]
      BY <2>4, <2>6, <2>10, BundlerAssumption
    <3>3. /\ BundleHolds(Included(known(d), Entry(c)))
          /\ Ahead(Included(known(d), Entry(c)))
      BY <2>5, <2>8, <3>1, <3>2, IncludedHolds
    <3> QED
      BY <2>10, <3>3, AdvanceBundle
  <2> QED
    BY <2>1, <2>9, <2>10
<1> QED
  BY <1>7, <1>8, <1>10, <1>11

\* A call of sendNextBundle takes any of its steps.
LEMMA CallersBundle ==
    ASSUME TypeOK, BundleInv, NEW c \in Callers,
           Call(c) \/ BundlerStep(c) \/ RemoveFails(c)
    PROVE  BundleInv'
<1>0. task[c] \in Task /\ LocalsHold(at[c], task[c])
  BY DEF TypeOK, BundleInv
<1>1. BundleHolds(task[c])
  BY <1>0 DEF LocalsHold
<1>2. CASE Call(c)
  <2>1. task' = task /\ at' = [at EXCEPT ![c] = "lock"] /\ at[c] = "idle"
    BY <1>2 DEF Call
  <2>2. LocalsHold("lock", task[c])
    BY <1>0, <2>1 DEF LocalsHold
  <2> QED
    BY <2>1, <2>2 DEF BundleInv, TypeOK
<1>3. CASE Enter(c)
  <2>1. LocalsHold("dump", NoTask)
    BY NoTaskHolds DEF LocalsHold
  <2> QED
    BY <1>3, <2>1, GotoBundle DEF Enter
<1>4. CASE Dumped(c)
  <2>1. PICK s \in Sorted(shown'[c]) : Advance(c, [task[c] EXCEPT !.todo = s])
    BY <1>4 DEF Dumped
  <2>2. task[c] = NoTask
    BY <1>0, <1>4 DEF Dumped, LocalsHold
  <2> DEFINE t == [task[c] EXCEPT !.todo = s]
  <2>3. /\ t.todo = s /\ t.bundle = <<>> /\ t.senders = NoTask.senders
        /\ t.count = NoTask.count /\ t.read = NoTask.read /\ t.left = NoTask.left
        /\ NoTask.bundle = <<>>
    BY <2>2 DEF NoTask
  <2>4. Falling(s)
    BY <2>1 DEF Sorted, Falling
  <2> HIDE DEF t
  <2>5. BundleHolds(t) /\ Ahead(t)
    BY <2>3, <2>4, NoTaskHolds
    DEF BundleHolds, Single, Counted, Funded, Falling, Ahead
  <2> QED
    BY <2>1, <2>5, AdvanceBundle DEF t
<1>5. CASE PaymasterStatus(c) \/ FactoryStatus(c) \/ Validate(c) \/ Deposit(c)
  BY <1>5, JudgeBundle
<1>6. CASE Dropped(c)
  <2>1. task[c].todo # <<>> /\ Ahead(task[c])
    BY <1>0, <1>6 DEF Dropped, TypeOK, LocalsHold
  <2>2. Ahead(RestOf(task[c])) /\ BundleHolds(RestOf(task[c]))
    BY <1>0, <1>1, <2>1, RestHolds
  <2> QED
    BY <1>6, <2>2, AdvanceBundle DEF Dropped
<1>7. CASE Send(c)
  <2> DEFINE t == [task[c] EXCEPT !.todo = task[c].bundle]
  <2>1. /\ t.bundle = task[c].bundle /\ t.senders = task[c].senders
        /\ t.count = task[c].count /\ t.read = task[c].read
        /\ t.left = task[c].left
    BY <1>0 DEF Task
  <2> HIDE DEF t
  <2>2. LocalsHold("clean", t)
    BY <1>1, <2>1 DEF LocalsHold, BundleHolds, Single, Counted, Funded
  <2> QED
    BY <1>7, <2>2, GotoBundle DEF Send, t
<1>8. CASE Clean(c)
  <2>1. LocalsHold("cleaning", task[c])
    BY <1>1 DEF LocalsHold
  <2> QED
    BY <1>8, <2>1, GotoBundle DEF Clean
<1>9. CASE Cleaned(c)
  <2> DEFINE t == RestOf(task[c])
  <2>1. /\ t.bundle = task[c].bundle /\ t.senders = task[c].senders
        /\ t.count = task[c].count /\ t.read = task[c].read
        /\ t.left = task[c].left
    BY <1>0 DEF Task, RestOf
  <2> HIDE DEF t
  <2>2. LocalsHold("clean", t)
    BY <1>1, <2>1 DEF LocalsHold, BundleHolds, Single, Counted, Funded
  <2> QED
    BY <1>9, <2>2, GotoBundle DEF Cleaned, t
<1>10. CASE SendFails(c) \/ AskFails(c) \/ Hashes(c) \/ RemoveFails(c)
  BY <1>10, LeaveBundle DEF SendFails, AskFails, Hashes, RemoveFails
<1>11. CASE PoolStep(c)
  BY <1>11 DEF PoolStep, BundleInv
<1> QED
  BY <1>2, <1>3, <1>4, <1>5, <1>6, <1>7, <1>8, <1>9, <1>10, <1>11
  DEF BundlerStep

\* Whatever else happens leaves the locals of the calls alone.
LEMMA OthersBundle ==
    ASSUME TypeOK, BundleInv,
           \/ UNCHANGED vars
           \/ \E p \in Clients :
                 (\E op \in UserOps : Submit(p, op)) \/ ClientStep(p)
                     \/ ClientFails(p)
           \/ \E m \in {"auto", "manual"} : SetBundlingMode(m)
           \/ SetBundlingInterval \/ Tick \/ TryBundle
    PROVE  BundleInv'
<1>1. task' = task
  BY DEF vars, Submit, ClientStep, ClientFails, SetBundlingMode,
         SetBundlingInterval, Tick, TryBundle
<1>2. \A c \in Callers : at'[c] = at[c]
  BY BundlerAssumption DEF vars, Submit, ClientStep, ClientFails,
         SetBundlingMode, SetBundlingInterval, Tick, TryBundle, TypeOK
<1> QED
  BY <1>1, <1>2 DEF BundleInv

LEMMA BundleInit == Init => BundleInv
<1> SUFFICES ASSUME Init PROVE BundleInv
  OBVIOUS
<1>1. \A c \in Callers : at[c] = "idle" /\ task[c] = NoTask
  BY DEF Init
<1> QED
  BY <1>1, NoTaskHolds DEF BundleInv, LocalsHold

LEMMA BundleStep == TypeOK /\ BundleInv /\ [Next]_vars => BundleInv'
BY CallersBundle, OthersBundle DEF Next

LEMMA BundleInvariant == Spec => [](TypeOK /\ BundleInv)
<1>1. BundlerInv => TypeOK
  BY DEF BundlerInv
<1> QED
  BY <1>1, BundlerInit, BundlerInvStep, BundleInit, BundleStep, PTL DEF Spec

-----------------------------------------------------------------------------
(***************************************************************************)
(* The theorems about bundles and the timer.                               *)
(***************************************************************************)
\* A bundle holds at most one operation of a sender, however many calls build
\* bundles and whatever the other services answer: the second of two
\* operations of one account is never validated against a state the first one
\* changes (OnePerSender, BundlingService.ts:168-176).
THEOREM SendersDiffer == Spec => []OnePerSender
<1>1. BundleInv => OnePerSender
  BY DEF BundleInv, LocalsHold, BundleHolds, Single, OnePerSender
<1> QED
  BY <1>1, BundleInvariant, PTL

\* A bundle is sorted, the dearest operation first, whatever was skipped,
\* dropped or refused on the way (DearestFirst, MempoolEntry.compareByCost).
THEOREM DearestComeFirst == Spec => []DearestFirst
<1>1. BundleInv => DearestFirst
  BY DEF BundleInv, LocalsHold, BundleHolds, Falling, DearestFirst
<1> QED
  BY <1>1, BundleInvariant, PTL

\* A bundle holds at most two operations that share a paymaster or factory,
\* whichever role it plays in each: what was counted when the entity was judged
\* still is when the operation joins, two awaits later (TwoPerEntity,
\* BundlingService.ts:135, 155).
THEOREM EntitiesShared == Spec => []TwoPerEntity
<1>1. BundleInv => TwoPerEntity
  BY DEF BundleInv, LocalsHold, BundleHolds, Counted, UsersOf, TwoPerEntity
<1> QED
  BY <1>1, BundleInvariant, PTL

\* The deposit read once for a paymaster covers whatever the bundle has it pay,
\* for any prefunds and any number of operations (DepositCovers,
\* BundlingService.ts:197-211).
THEOREM DepositsSuffice == Spec => []DepositCovers
<1>1. TypeOK /\ BundleInv => DepositCovers
  <2> SUFFICES ASSUME TypeOK, BundleInv, NEW c \in Callers, NEW e \in Entities,
                      task[c].read[e] # None
               PROVE  Charged(task[c].bundle, e) <= task[c].read[e]
    BY DEF DepositCovers
  <2>1. /\ task[c].left[e] # None
        /\ Charged(task[c].bundle, e) + task[c].left[e] = task[c].read[e]
    BY DEF BundleInv, LocalsHold, BundleHolds, Funded
  <2>2. /\ task[c].bundle \in Seq(UserOps) /\ task[c].left[e] \in Nat \cup {None}
        /\ task[c].read[e] \in Nat \cup {None}
    BY DEF TypeOK, Task
  <2>3. Charged(task[c].bundle, e) \in Nat
    BY <2>2, ChargedIsNumber
  <2> QED
    BY <2>1, <2>2, <2>3
<1> QED
  BY <1>1, BundleInvariant, PTL

\* Whatever modes and intervals are set in which order, one timer runs in auto
\* mode and none in manual mode (TimerMatchesMode, BundlingService.ts:221-260).
THEOREM TimerRuns == Spec => []TimerMatchesMode
<1>1. Init => TimerMatchesMode
  BY DEF Init, TimerMatchesMode
<1>2. TypeOK /\ TimerMatchesMode /\ [Next]_vars => TimerMatchesMode'
  <2> SUFFICES ASSUME TypeOK, TimerMatchesMode, [Next]_vars
               PROVE  TimerMatchesMode'
    OBVIOUS
  <2>1. CASE UNCHANGED cron
    BY <2>1 DEF cron, TimerMatchesMode
  <2>2. ASSUME RestartCron PROVE TimerMatchesMode'
    BY <2>2 DEF RestartCron, TimerMatchesMode
  <2>3. ASSUME NEW c \in Callers, Call(c) \/ BundlerStep(c) \/ RemoveFails(c)
        PROVE  UNCHANGED cron
    BY <2>3 DEF Call, BundlerStep, RemoveFails, Enter, Dumped, PaymasterStatus,
                FactoryStatus, EntityStops, Skip, Drop, Validate, Deposit,
                Dropped, Send, SendFails, AskFails, Clean, Cleaned, Hashes, PoolStep
  <2>4. ASSUME NEW p \in Clients,
               (\E op \in UserOps : Submit(p, op)) \/ ClientStep(p) \/ ClientFails(p)
        PROVE  UNCHANGED cron
    BY <2>4 DEF Submit, ClientStep, ClientFails
  <2>5. CASE \/ \E m \in {"auto", "manual"} : SetBundlingMode(m)
             \/ SetBundlingInterval \/ Tick \/ TryBundle
    BY <2>1, <2>2, <2>5 DEF SetBundlingMode, SetBundlingInterval, Tick, TryBundle
  <2>6. CASE UNCHANGED vars
    BY <2>1, <2>6 DEF vars, cron
  <2> QED
    BY <2>1, <2>3, <2>4, <2>5, <2>6 DEF Next
<1> QED
  BY <1>1, <1>2, TypeCorrect, PTL DEF Spec
=============================================================================
