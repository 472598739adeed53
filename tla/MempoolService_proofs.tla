------------------------ MODULE MempoolService_proofs ------------------------
(***************************************************************************)
(* Theorems about the mempool, for any senders, nonces, operations, number *)
(* of requests and bounds.                                                 *)
(***************************************************************************)
EXTENDS MempoolService, FiniteSetTheorems, TLAPS

\* The key of an operation is one of the keys.
LEMMA KeyOfType ==
    ASSUME NEW op \in UserOps
    PROVE  KeyOf(op) \in Keys
BY UserOpsAssumption DEF KeyOf, Keys

\* An operation is not the missing entry.
LEMMA OpIsEntry == \A op \in UserOps : op # None
BY UserOpsAssumption

\* A read of the collection answers a collection, and a read of an entry an
\* entry or none.
LEMMA ReadTypes ==
    ASSUME TypeOK
    PROVE  /\ NoKeys \in [Keys -> Nat]
           /\ FetchKeys \subseteq [Keys -> Nat]
           /\ \A k \in Keys : Find(k) \subseteq UserOps \cup {None}
BY DEF TypeOK, NoKeys, FetchKeys, Find

\* The entries a dump can show: those the collection names.
LEMMA FetchAllTypes ==
    ASSUME TypeOK, NEW ks \in [Keys -> Nat], NEW found \in FetchAll(ks)
    PROVE  found \in [Keys -> Nat]
BY DEF FetchAll, NoKeys

-----------------------------------------------------------------------------
\* Every step leads from well typed records to well typed records.
LEMMA TypeStep == TypeOK /\ [Next]_vars => TypeOK'
<1> SUFFICES ASSUME TypeOK, [Next]_vars PROVE TypeOK'
  OBVIOUS
<1> USE DEF TypeOK
<1>0. CASE UNCHANGED vars
  BY <1>0 DEF vars
<1>1. ASSUME NEW p \in Proc, Request(p) PROVE TypeOK'
  <2>1. ASSUME NEW at \in PCs, NEW op \in UserOps \cup {None},
               at \in AboutOp => op \in UserOps, Begin(p, at, op)
        PROVE  TypeOK'
    BY <2>1 DEF Begin, Database, PCs, Answers, AboutOp
  <2> QED
    BY <1>1, <2>1 DEF Request, BeginAdd, BeginRemove, BeginClear, BeginDump,
       BeginCheck, PCs, AboutOp
<1>2. ASSUME NEW p \in Proc, Step(p) PROVE TypeOK'
  <2>a. ASSUME NEW from, NEW to \in PCs, NEW ks \in [Keys -> Nat],
               to \in AboutOp => from \in AboutOp,
               Goto(p, from, to, ks), 
               index' \in [Keys -> Nat], store' \in [Keys -> UserOps \cup {None}]
        PROVE  TypeOK'
    BY <2>a DEF Goto
  <2>b. ASSUME NEW from, NEW answer \in Answers,
               Return(p, from, answer),
               index' \in [Keys -> Nat], store' \in [Keys -> UserOps \cup {None}],
               shown' \in [Proc -> SUBSET (UserOps \cup {None})]
        PROVE  TypeOK'
    BY <2>b, ReadTypes DEF Return, PCs, AboutOp
  <2>c. pc[p] \in AboutOp => arg[p] \in UserOps /\ KeyOf(arg[p]) \in Keys
    BY KeyOfType
  <2> USE DEF Database
  <2>1. CASE FindReplace(p) \/ FindNew(p) \/ FindTooLow(p)
    BY <2>1, <2>a, <2>b DEF FindReplace, FindNew, FindTooLow, PCs, AboutOp,
       Answers
  <2>2. CASE Replace(p) \/ PutEntry(p)
    BY <2>2, <2>a, <2>c DEF Replace, PutEntry, PCs, AboutOp, Goto
  <2>3. CASE CountKeys(p) \/ FetchAndPush(p)
    BY <2>3, <2>a, <2>c, ReadTypes DEF CountKeys, FetchAndPush, PCs, AboutOp,
       Goto
  <2>4. CASE CountAdmits(p) \/ CountRefuses(p)
    BY <2>4, <2>a, <2>b, ReadTypes DEF CountAdmits, CountRefuses, PCs, AboutOp,
       Answers
  <2>5. CASE PutIndex(p)
    BY <2>5, <2>a, ReadTypes DEF PutIndex, PCs, AboutOp
  <2>6. CASE UpdateSeen(p)
    BY <2>6, <2>b DEF UpdateSeen, Answers
  <2>7. CASE RemoveStep(p)
    <3>1. CASE RemoveKeys(p)
      BY <3>1, <2>a, <2>c, ReadTypes DEF RemoveKeys, PCs, AboutOp, Goto
    <3>2. CASE RemoveDel(p)
      BY <3>2, <2>a DEF RemoveDel, PCs, AboutOp
    <3>3. CASE RemovePut(p)
      BY <3>3, <2>b DEF RemovePut, Answers
    <3> QED
      BY <2>7, <3>1, <3>2, <3>3 DEF RemoveStep
  <2>8. CASE ClearStep(p)
    <3>1. CASE ClearKeys(p)
      BY <3>1, <2>a, ReadTypes DEF ClearKeys, PCs, AboutOp
    <3>2. ASSUME NEW k \in Keys, ClearDel(p, k) PROVE TypeOK'
      <4>1. [keys[p] EXCEPT ![k] = @ - 1] \in [Keys -> Nat]
        BY <3>2 DEF ClearDel
      <4> QED
        BY <3>2, <4>1, <2>a DEF ClearDel, PCs, AboutOp
    <3>3. CASE ClearDrop(p)
      BY <3>3, <2>b, ReadTypes DEF ClearDrop, Answers
    <3> QED
      BY <2>8, <3>1, <3>2, <3>3 DEF ClearStep
  <2>9. CASE ReadStep(p)
    <3>1. CASE DumpKeys(p)
      BY <3>1, <2>a, ReadTypes DEF DumpKeys, PCs, AboutOp
    <3>2. CASE DumpMany(p)
      BY <3>2, <2>b, ReadTypes DEF DumpMany, Answers
    <3>3. CASE CheckFind(p)
      BY <3>3, <2>b DEF CheckFind, Answers
    <3> QED
      BY <2>9, <3>1, <3>2, <3>3 DEF ReadStep
  <2> QED
    BY <1>2, <2>1, <2>2, <2>3, <2>4, <2>5, <2>6, <2>7, <2>8, <2>9
    DEF Step, AddStep
<1>3. ASSUME NEW p \in Proc, WriteFails(p) PROVE TypeOK'
  BY <1>3, ReadTypes DEF WriteFails, Return, Database, PCs, Answers, AboutOp
<1>4. CASE Crash
  BY <1>4, ReadTypes DEF Crash, Database, PCs, Answers, AboutOp
<1> QED
  BY <1>0, <1>1, <1>2, <1>3, <1>4 DEF Next

\* The records of the database and of the requests keep their shapes, however
\* many requests run and whatever fails.
THEOREM TypeCorrect == Spec => []TypeOK
<1>1. Init => TypeOK
  BY DEF Init, TypeOK, NoKeys, PCs, Answers, AboutOp
<1> QED
  BY <1>1, TypeStep, PTL DEF Spec

-----------------------------------------------------------------------------
(***************************************************************************)
(* Adds alone, any number at a time.  Reads may fail, writes and the       *)
(* process may not.                                                        *)
(***************************************************************************)
OnlyAdds ==
    /\ Calls \subseteq {"add", "dump", "check"}
    /\ Faults \subseteq {"read"}

\* The requests that save or remove nothing keep AddsInv: a stutter, a
\* request that arrives or that fails before its write.
LEMMA AddsStep == OnlyAdds /\ TypeOK /\ AddsInv /\ [Next]_vars => AddsInv'
<1> SUFFICES ASSUME OnlyAdds, TypeOK, AddsInv, [Next]_vars PROVE AddsInv'
  OBVIOUS
<1> DEFINE Soon(k) == \E q \in Proc : pc[q] = "putEntry" /\ KeyOf(arg[q]) = k
<1>0. CASE UNCHANGED vars
  BY <1>0 DEF vars, AddsInv, NoDangling
\* A step that writes nothing, of a request that is not at putEntry and does
\* not come to putIndex or to a removal.
<1>a. ASSUME NEW p \in Proc, UNCHANGED <<index, store>>,
             pc[p] # "putEntry",
             \A q \in Proc \ {p} :
                pc'[q] = pc[q] /\ arg'[q] = arg[q] /\ keys'[q] = keys[q],
             pc'[p] \notin {"putIndex", "rmKeys", "rmDel", "rmPut", "clKeys",
                            "clDel"}
      PROVE  AddsInv'
  <2>1. \A k \in Keys : Soon(k) => Soon(k)'
    BY <1>a
  <2> QED
    BY <1>a, <2>1 DEF AddsInv, NoDangling
<1>1. ASSUME NEW p \in Proc, Request(p) PROVE AddsInv'
  <2>1. \E at \in {"find", "dpKeys", "ckFind"}, op \in UserOps \cup {None} :
            Begin(p, at, op)
    BY <1>1 DEF OnlyAdds, Request, BeginAdd, BeginDump, BeginCheck
  <2> QED
    BY <2>1, <1>a DEF Begin, Database, TypeOK
<1>2. ASSUME NEW p \in Proc, Step(p) PROVE AddsInv'
  <2>0. pc[p] \notin {"rmKeys", "rmDel", "rmPut", "clKeys", "clDel"}
    BY DEF AddsInv
  <2>1. CASE FindReplace(p) \/ FindNew(p) \/ CountKeys(p) \/ CountAdmits(p)
             \/ DumpKeys(p)
    BY <2>1, <1>a DEF FindReplace, FindNew, CountKeys, CountAdmits, DumpKeys,
       Goto, Database, TypeOK
  <2>2. CASE FindTooLow(p) \/ CountRefuses(p) \/ UpdateSeen(p) \/ DumpMany(p)
             \/ CheckFind(p)
    BY <2>2, <1>a DEF FindTooLow, CountRefuses, UpdateSeen, DumpMany, CheckFind,
       Return, Database, TypeOK
  <2>3. CASE FetchAndPush(p)
    <3> DEFINE key == KeyOf(arg[p])
    <3>1. key \in Keys
      BY <2>3, KeyOfType DEF FetchAndPush, Goto, TypeOK, AboutOp, PCs
    <3>2. PICK ks \in FetchKeys :
             Goto(p, "fetchKeys", "putIndex", [ks EXCEPT ![key] = @ + 1])
      BY <2>3 DEF FetchAndPush
    <3>3. \A k \in Keys : ks[k] > 0 => index[k] > 0
      BY <3>2 DEF FetchKeys, NoKeys
    <3>4. keys' = [keys EXCEPT ![p] = [ks EXCEPT ![key] = @ + 1]]
          /\ pc' = [pc EXCEPT ![p] = "putIndex"] /\ UNCHANGED <<arg, index, store>>
          /\ pc[p] = "fetchKeys"
      BY <2>3, <3>2 DEF FetchAndPush, Goto, Database
    <3>5. \A k \in Keys : Soon(k) => Soon(k)'
      BY <3>4 DEF TypeOK
    <3>6. NoDangling'
      BY <3>4, <3>5 DEF AddsInv, NoDangling
    <3>7. \A k \in Keys : keys'[p][k] > 0 =>
             k = KeyOf(arg'[p]) \/ store'[k] # None \/ Soon(k)'
      <4> SUFFICES ASSUME NEW k \in Keys, keys'[p][k] > 0, k # key
                   PROVE  store'[k] # None \/ Soon(k)'
        BY <3>4
      <4>1. ks \in [Keys -> Nat]
        BY <3>2, ReadTypes
      <4>2. keys'[p][k] = ks[k]
        BY <4>1, <3>4 DEF TypeOK
      <4> QED
        BY <4>2, <3>3, <3>4, <3>5 DEF AddsInv, NoDangling
    <3> QED
      BY <3>4, <3>5, <3>6, <3>7 DEF AddsInv, TypeOK
  <2>4. CASE PutIndex(p)
    <3>1. pc[p] = "putIndex" /\ pc' = [pc EXCEPT ![p] = "putEntry"]
          /\ index' = keys[p] /\ keys' = [keys EXCEPT ![p] = NoKeys]
          /\ UNCHANGED <<arg, store>>
      BY <2>4 DEF PutIndex, Goto
    <3>2. Soon(KeyOf(arg[p]))'
      BY <3>1 DEF TypeOK
    <3>3. \A k \in Keys : Soon(k) => Soon(k)'
      BY <3>1 DEF TypeOK
    <3> QED
      BY <3>1, <3>2, <3>3 DEF AddsInv, NoDangling, TypeOK
  <2>5. CASE Replace(p) \/ PutEntry(p)
    <3> DEFINE key == KeyOf(arg[p])
    <3>1. /\ pc[p] \in {"replace", "putEntry"}
          /\ pc' = [pc EXCEPT ![p] = "seen"]
          /\ store' = [store EXCEPT ![key] = arg[p]]
          /\ UNCHANGED <<arg, index>> /\ keys' = [keys EXCEPT ![p] = keys[p]]
      BY <2>5 DEF Replace, PutEntry, Goto
    <3>2. arg[p] # None /\ key \in Keys
      BY <3>1, KeyOfType, OpIsEntry DEF TypeOK, AboutOp, PCs
    <3>3. \A k \in Keys : store[k] # None => store'[k] # None
      BY <3>1, <3>2 DEF TypeOK
    <3>4. \A k \in Keys : Soon(k) => Soon(k)' \/ store'[k] # None
      BY <3>1, <3>2 DEF TypeOK
    <3> QED
      BY <3>1, <3>3, <3>4 DEF AddsInv, NoDangling, TypeOK
  <2>6. ~RemoveStep(p) /\ ~ClearStep(p)
    BY <2>0 DEF RemoveStep, ClearStep, RemoveKeys, RemoveDel, RemovePut,
       ClearKeys, ClearDel, ClearDrop, Goto, Return
  <2> QED
    BY <1>2, <2>1, <2>2, <2>3, <2>4, <2>5, <2>6 DEF Step, AddStep, ReadStep
<1>3. ~Crash /\ \A p \in Proc : ~WriteFails(p)
  BY DEF OnlyAdds, Crash, WriteFails
<1> QED
  BY <1>0, <1>1, <1>2, <1>3 DEF Next

\* However many operations are added at a time, and whatever reads fail, a
\* listed key without an entry is one whose entry an add is about to save.
THEOREM AddsNeverDangle == ASSUME OnlyAdds PROVE Spec => []NoDangling
<1>1. Init => AddsInv
  BY DEF Init, AddsInv, NoDangling, NoKeys
<1>2. AddsInv => NoDangling
  BY DEF AddsInv
<1>3. TypeOK /\ AddsInv /\ [Next]_vars => AddsInv'
  BY AddsStep
<1>4. Spec => []TypeOK
  BY TypeCorrect
<1> QED
  BY <1>1, <1>2, <1>3, <1>4, PTL DEF Spec

-----------------------------------------------------------------------------
(***************************************************************************)
(* One request at a time.  Writes and the process may fail, reads may not. *)
(***************************************************************************)
OneAtATime ==
    /\ \A p, q \in Proc : p = q
    /\ "read" \notin Faults

\* Fees that replace others are no lower: rounding ten percent down takes
\* away less than was added.
LEMMA ReplaceRaises ==
    ASSUME NEW new \in UserOps, NEW old \in UserOps, CanReplace(new, old)
    PROVE  new.prio >= old.prio /\ new.maxFee >= old.maxFee
<1>1. \A x \in Nat : (x * 11) \div 10 >= x
  OBVIOUS
<1>2. new.prio \in Nat /\ new.maxFee \in Nat /\ old.prio \in Nat
      /\ old.maxFee \in Nat
  BY UserOpsAssumption
<1>3. \A a \in Nat, x \in Nat : a >= (x * 11) \div 10 => a >= x
  <2> SUFFICES ASSUME NEW a \in Nat, NEW x \in Nat, a >= (x * 11) \div 10
               PROVE  a >= x
    OBVIOUS
  <2>1. (x * 11) \div 10 \in Nat
    OBVIOUS
  <2> QED
    BY <1>1, <2>1
<1> QED
  BY <1>2, <1>3 DEF CanReplace

\* Every step of a single request keeps SerialInv, one that a write or the
\* process breaks off included.
LEMMA SerialStep == OneAtATime /\ TypeOK /\ SerialInv /\ [Next]_vars => SerialInv'
<1> SUFFICES ASSUME OneAtATime, TypeOK, SerialInv, [Next]_vars PROVE SerialInv'
  OBVIOUS
<1> USE DEF Database
<1>0. CASE UNCHANGED vars
  BY <1>0 DEF vars, SerialInv, NoOrphan, Stored, CanReplace
<1>a. \A k \in Keys : Find(k) = {store[k]}
  BY DEF Find, OneAtATime, ReadFails
<1>b. FetchKeys = {index}
  BY DEF FetchKeys, OneAtATime, ReadFails
\* After a step the one request is at a place that holds nothing.
<1>c. ASSUME NEW p \in Proc, NoOrphan',
             pc'[p] \notin {"replace", "countKeys", "countMany", "fetchKeys",
                            "putIndex", "putEntry", "rmDel", "rmPut", "clDel"}
      PROVE  SerialInv'
  BY <1>c DEF SerialInv, OneAtATime
<1>1. ASSUME NEW p \in Proc, Request(p) PROVE SerialInv'
  <2>1. \E at \in {"find", "dpKeys", "ckFind", "rmKeys", "clKeys"},
           op \in UserOps \cup {None} : Begin(p, at, op)
    BY <1>1 DEF Request, BeginAdd, BeginDump, BeginCheck, BeginRemove,
       BeginClear
  <2> QED
    BY <2>1, <1>c DEF Begin, TypeOK, SerialInv, NoOrphan, Stored
<1>2. ASSUME NEW p \in Proc, Step(p) PROVE SerialInv'
  <2> DEFINE key == KeyOf(arg[p])
  <2>k. pc[p] \in AboutOp => arg[p] \in UserOps /\ arg[p] # None /\ key \in Keys
    BY KeyOfType, OpIsEntry DEF TypeOK
  <2>q. \A q \in Proc : q = p
    BY DEF OneAtATime
  <2>1. CASE FindReplace(p)
    BY <2>1, <2>k, <2>q, <1>a DEF FindReplace, Goto, SerialInv, NoOrphan,
       Stored, TypeOK, AboutOp, PCs, CanReplace
  <2>2. CASE FindNew(p)
    BY <2>2, <2>k, <2>q, <1>a DEF FindNew, Goto, SerialInv, NoOrphan, Stored,
       TypeOK, AboutOp, PCs
  <2>3. CASE CountKeys(p) \/ CountAdmits(p)
    BY <2>3, <2>q DEF CountKeys, CountAdmits, Goto, SerialInv, NoOrphan,
       Stored, TypeOK
  <2>4. CASE FetchAndPush(p)
    <3>1. pc' = [pc EXCEPT ![p] = "putIndex"] /\ pc[p] = "fetchKeys"
          /\ keys' = [keys EXCEPT ![p] = [index EXCEPT ![key] = @ + 1]]
          /\ UNCHANGED <<arg, index, store>>
      BY <2>4, <1>b DEF FetchAndPush, Goto
    <3>2. key \in Keys
      BY <3>1, <2>k DEF AboutOp, PCs
    <3>3. \A j \in Keys : keys'[p][j] >= index[j]
      BY <3>1, <3>2 DEF TypeOK
    <3>4. keys'[p][key] > 0
      BY <3>1, <3>2 DEF TypeOK
    <3>5. NoOrphan' /\ \A j \in Stored : keys'[p][j] > 0
      <4>1. \A j \in Keys : index[j] \in Nat /\ keys'[p][j] \in Nat
        BY <3>1, <3>2 DEF TypeOK
      <4> QED
        BY <3>1, <3>3, <4>1 DEF SerialInv, NoOrphan, Stored
    <3> QED
      BY <3>1, <3>4, <3>5, <2>q DEF SerialInv, TypeOK, Stored
  <2>5. CASE PutIndex(p)
    BY <2>5, <2>q DEF PutIndex, Goto, SerialInv, NoOrphan, Stored, TypeOK
  <2>6. CASE Replace(p) \/ PutEntry(p)
    <3>1. /\ pc[p] \in {"replace", "putEntry"} /\ pc'[p] = "seen"
          /\ store' = [store EXCEPT ![key] = arg[p]] /\ index' = index
      BY <2>6 DEF Replace, PutEntry, Goto, TypeOK
    <3>2. index[key] > 0 /\ key \in Keys
      BY <3>1, <2>k DEF SerialInv, NoOrphan, Stored, AboutOp, PCs
    <3> QED
      BY <3>1, <3>2, <1>c DEF SerialInv, NoOrphan, Stored, TypeOK
  <2>7. CASE FindTooLow(p) \/ CountRefuses(p) \/ UpdateSeen(p) \/ DumpKeys(p)
             \/ DumpMany(p) \/ CheckFind(p)
    BY <2>7, <1>c DEF FindTooLow, CountRefuses, UpdateSeen, DumpKeys, DumpMany,
       CheckFind, Goto, Return, TypeOK, SerialInv, NoOrphan, Stored
  <2>8. CASE RemoveKeys(p)
    <3>1. pc'[p] = "rmDel" /\ pc[p] = "rmKeys"
          /\ keys'[p] = [index EXCEPT ![key] = 0]
          /\ UNCHANGED <<arg, index, store>>
      BY <2>8, <1>b DEF RemoveKeys, Goto, TypeOK
    <3>2. \A j \in Keys \ {key} : keys'[p][j] = index[j]
      BY <3>1 DEF TypeOK
    <3> QED
      BY <3>1, <3>2, <2>q DEF SerialInv, NoOrphan, Stored
  <2>9. CASE RemoveDel(p)
    <3>1. pc'[p] = "rmPut" /\ pc[p] = "rmDel" /\ keys'[p] = keys[p]
          /\ store' = [store EXCEPT ![key] = None] /\ UNCHANGED <<arg, index>>
      BY <2>9 DEF RemoveDel, Goto, TypeOK
    <3>2. Stored' = Stored \ {key}
      BY <3>1 DEF Stored, TypeOK
    <3> QED
      BY <3>1, <3>2, <2>q DEF SerialInv, NoOrphan
  <2>10. CASE RemovePut(p)
    BY <2>10, <1>c DEF RemovePut, Return, SerialInv, NoOrphan, Stored, TypeOK
  <2>11. CASE ClearKeys(p)
    BY <2>11, <1>b, <2>q DEF ClearKeys, Goto, SerialInv, NoOrphan, Stored,
       TypeOK
  <2>12. ASSUME NEW k \in Keys, ClearDel(p, k) PROVE SerialInv'
    <3>1. pc'[p] = "clDel" /\ pc[p] = "clDel"
          /\ keys'[p] = [keys[p] EXCEPT ![k] = @ - 1]
          /\ store' = [store EXCEPT ![k] = None] /\ UNCHANGED <<arg, index>>
      BY <2>12 DEF ClearDel, Goto, TypeOK
    <3>2. Stored' = Stored \ {k}
      BY <3>1 DEF Stored, TypeOK
    <3>3. \A j \in Keys \ {k} : keys'[p][j] = keys[p][j]
      BY <3>1 DEF TypeOK
    <3>4. \A j \in Stored' : keys'[p][j] > 0
      BY <3>1, <3>2, <3>3 DEF SerialInv, Stored
    <3> QED
      BY <3>1, <3>2, <3>4, <2>q DEF SerialInv, NoOrphan
  <2>13. CASE ClearDrop(p)
    <3>1. Stored = {}
      BY <2>13 DEF ClearDrop, Return, NoKeys, SerialInv, Stored
    <3> QED
      BY <2>13, <3>1, <1>c DEF ClearDrop, Return, NoOrphan, Stored, TypeOK
  <2> QED
    BY <1>2, <2>1, <2>2, <2>3, <2>4, <2>5, <2>6, <2>7, <2>8, <2>9, <2>10,
       <2>11, <2>12, <2>13
    DEF Step, AddStep, RemoveStep, ClearStep, ReadStep
<1>3. ASSUME NEW p \in Proc, WriteFails(p) PROVE SerialInv'
  BY <1>3, <1>c DEF WriteFails, Return, SerialInv, NoOrphan, Stored, TypeOK
<1>4. CASE Crash
  BY <1>4 DEF Crash, SerialInv, NoOrphan, Stored
<1> QED
  BY <1>0, <1>1, <1>2, <1>3, <1>4 DEF Next

\* Requests that come one at a time never lose an accepted operation, though
\* any write may fail and the process may crash at any await.
THEOREM SerialNeverOrphans == ASSUME OneAtATime PROVE Spec => []NoOrphan
<1>1. Init => SerialInv
  BY DEF Init, SerialInv, NoOrphan, Stored
<1>2. SerialInv => NoOrphan
  BY DEF SerialInv
<1>3. TypeOK /\ SerialInv /\ [Next]_vars => SerialInv'
  BY SerialStep
<1>4. Spec => []TypeOK
  BY TypeCorrect
<1> QED
  BY <1>1, <1>2, <1>3, <1>4, PTL DEF Spec

\* A step writes an entry over another only where canReplace allowed it, and
\* with one request at a time nothing came between the check and the write.
LEMMA FeesStep == OneAtATime /\ TypeOK /\ SerialInv /\ [Next]_vars => FeesKept
<1> SUFFICES ASSUME TypeOK, SerialInv, [Next]_vars PROVE FeesKept
  OBVIOUS
<1> USE DEF Database
\* A step that leaves every entry alone or deletes it.
<1>a. ASSUME \A k \in Keys : store'[k] \in {store[k], None} PROVE FeesKept
  <2>1. \A k \in Keys : store'[k] # None => store'[k] = store[k]
    BY <1>a
  <2>2. \A k \in Keys : store[k] # None =>
           store[k].prio \in Nat /\ store[k].maxFee \in Nat
    BY UserOpsAssumption DEF TypeOK
  <2> QED
    BY <2>1, <2>2 DEF FeesKept
<1>b. ASSUME UNCHANGED store PROVE FeesKept
  BY <1>a, <1>b
<1>1. ASSUME NEW p \in Proc, Replace(p) PROVE FeesKept
  <2> DEFINE key == KeyOf(arg[p])
  <2>1. pc[p] = "replace" /\ store' = [store EXCEPT ![key] = arg[p]]
    BY <1>1 DEF Replace, Goto
  <2>2. arg[p] \in UserOps /\ key \in Keys
    BY <2>1, KeyOfType DEF TypeOK, AboutOp, PCs
  <2>3. store[key] \in UserOps /\ CanReplace(arg[p], store[key])
    BY <2>1, <2>2 DEF SerialInv, TypeOK
  <2>4. arg[p].prio >= store[key].prio /\ arg[p].maxFee >= store[key].maxFee
    BY <2>2, <2>3, ReplaceRaises
  <2>5. ASSUME NEW k \in Keys, store[k] # None, store'[k] # None
        PROVE  store'[k].prio >= store[k].prio /\ store'[k].maxFee >= store[k].maxFee
    <3>1. CASE k = key
      BY <3>1, <2>1, <2>2, <2>4 DEF TypeOK
    <3>2. CASE k # key
      <4>1. store'[k] = store[k] /\ store[k] \in UserOps
        BY <3>2, <2>1, <2>5 DEF TypeOK
      <4>2. store[k].prio \in Nat /\ store[k].maxFee \in Nat
        BY <4>1, UserOpsAssumption
      <4> QED
        BY <4>1, <4>2
    <3> QED
      BY <3>1, <3>2
  <2> QED
    BY <2>5 DEF FeesKept
<1>2. ASSUME NEW p \in Proc, PutEntry(p) PROVE FeesKept
  <2> DEFINE key == KeyOf(arg[p])
  <2>1. store' = [store EXCEPT ![key] = arg[p]] /\ store[key] = None
    BY <1>2 DEF PutEntry, Goto, SerialInv
  <2>2. \A k \in Keys : store[k] # None =>
           store'[k] = store[k] /\ store[k].prio \in Nat /\ store[k].maxFee \in Nat
    BY <2>1, UserOpsAssumption DEF TypeOK
  <2> QED
    BY <2>2 DEF FeesKept
<1>3. ASSUME NEW p \in Proc, RemoveStep(p) \/ ClearStep(p) PROVE FeesKept
  BY <1>3, <1>a DEF RemoveStep, ClearStep, RemoveKeys, RemoveDel, RemovePut,
     ClearKeys, ClearDel, ClearDrop, TypeOK
<1>4. ASSUME NEW p \in Proc, Request(p) PROVE FeesKept
  BY <1>4, <1>b DEF Request, BeginAdd, BeginRemove, BeginClear, BeginDump,
     BeginCheck, Begin
<1>5. ASSUME NEW p \in Proc, AddStep(p), ~Replace(p), ~PutEntry(p)
      PROVE  FeesKept
  BY <1>5, <1>b DEF AddStep, FindReplace, FindTooLow, FindNew, CountKeys,
     CountAdmits, CountRefuses, FetchAndPush, PutIndex, UpdateSeen
<1>6. ASSUME NEW p \in Proc, ReadStep(p) PROVE FeesKept
  BY <1>6, <1>b DEF ReadStep, DumpKeys, DumpMany, CheckFind
<1>7. CASE Crash \/ UNCHANGED vars \/ \E p \in Proc : WriteFails(p)
  BY <1>7, <1>b DEF Crash, WriteFails, vars
<1> QED
  BY <1>1, <1>2, <1>3, <1>4, <1>5, <1>6, <1>7 DEF Next, Step

\* Requests that come one at a time only ever replace an operation by one
\* with fees no lower.
THEOREM SerialFeesNeverFall == ASSUME OneAtATime PROVE Spec => FeesNeverFall
<1>1. Init => SerialInv
  BY DEF Init, SerialInv, NoOrphan, Stored
<1>2. TypeOK /\ SerialInv /\ [Next]_vars => SerialInv'
  BY SerialStep
<1>3. TypeOK /\ SerialInv /\ [Next]_vars => [FeesKept]_vars
  BY FeesStep
<1>4. Spec => []TypeOK
  BY TypeCorrect
<1> QED
  BY <1>1, <1>2, <1>3, <1>4, PTL DEF Spec, FeesNeverFall

-----------------------------------------------------------------------------
(***************************************************************************)
(* One request at a time and no fault: what a dump shows.                  *)
(***************************************************************************)
NoFaultAtATime ==
    /\ \A p, q \in Proc : p = q
    /\ Faults = {}

\* The collection names the keys of the entries and no others.
Exact == \A k \in Keys : index[k] > 0 <=> store[k] # None

\* The strengthening of DumpAtRest: the two records agree except between the
\* two writes of one call, and there the request holds what makes them agree
\* again: the entry it is about to save, or a copy of the collection that
\* names what is left.
RestInv ==
    /\ (\A p \in Proc : pc[p] \notin {"putEntry", "rmPut", "clDel"}) => Exact
    /\ \A p \in Proc :
          LET key == KeyOf(arg[p]) IN
          /\ pc[p] = "replace" => store[key] # None
          /\ pc[p] = "putIndex" =>
                \A k \in Keys :
                    keys[p][k] > 0 <=> k = key \/ store[k] # None
          /\ pc[p] = "putEntry" =>
                \A k \in Keys : index[k] > 0 <=> k = key \/ store[k] # None
          /\ pc[p] = "rmDel" =>
                \A k \in Keys :
                    keys[p][k] > 0 <=> k # key /\ store[k] # None
          /\ pc[p] = "rmPut" =>
                \A k \in Keys : keys[p][k] > 0 <=> store[k] # None
          /\ pc[p] = "clDel" =>
                \A k \in Keys : store[k] # None => keys[p][k] > 0

\* The places where the two records may differ or a copy is held.
Between == {"replace", "putIndex", "putEntry", "rmDel", "rmPut", "clDel"}

\* Every step of a single request that nothing breaks off keeps RestInv.
LEMMA RestStep ==
    NoFaultAtATime /\ TypeOK /\ RestInv /\ [Next]_vars => RestInv'
<1> SUFFICES ASSUME NoFaultAtATime, TypeOK, RestInv, [Next]_vars
             PROVE  RestInv'
  OBVIOUS
<1> USE DEF Database
<1>0. CASE UNCHANGED vars
  BY <1>0 DEF vars, RestInv, Exact
<1>a. \A k \in Keys : Find(k) = {store[k]}
  BY DEF Find, NoFaultAtATime, ReadFails
<1>b. FetchKeys = {index}
  BY DEF FetchKeys, NoFaultAtATime, ReadFails
\* After a step the records agree and the one request holds nothing.
<1>c. ASSUME NEW p \in Proc, Exact', pc'[p] \notin Between
      PROVE  RestInv'
  BY <1>c DEF RestInv, NoFaultAtATime, Between
\* Before a step that is not the second write of a call they agree.
<1>d. ASSUME NEW p \in Proc, pc[p] \notin {"putEntry", "rmPut", "clDel"}
      PROVE  Exact
  BY <1>d DEF RestInv, NoFaultAtATime
<1>1. ASSUME NEW p \in Proc, Request(p) PROVE RestInv'
  <2>1. \E at \in {"find", "dpKeys", "ckFind", "rmKeys", "clKeys"},
           op \in UserOps \cup {None} : Begin(p, at, op)
    BY <1>1 DEF Request, BeginAdd, BeginDump, BeginCheck, BeginRemove,
       BeginClear
  <2> QED
    BY <2>1, <1>c, <1>d DEF Begin, TypeOK, Exact, Between
<1>2. ASSUME NEW p \in Proc, Step(p) PROVE RestInv'
  <2> DEFINE key == KeyOf(arg[p])
  <2>k. pc[p] \in AboutOp => arg[p] \in UserOps /\ arg[p] # None /\ key \in Keys
    BY KeyOfType, OpIsEntry DEF TypeOK
  <2>q. \A q \in Proc : q = p
    BY DEF NoFaultAtATime
  <2>1. CASE FindReplace(p)
    BY <2>1, <2>k, <2>q, <1>a, <1>d DEF FindReplace, Goto, RestInv, Exact,
       TypeOK, AboutOp, PCs
  <2>2. CASE FindNew(p) \/ CountKeys(p) \/ CountAdmits(p) \/ DumpKeys(p)
    BY <2>2, <1>c, <1>d DEF FindNew, CountKeys, CountAdmits, DumpKeys, Goto,
       Exact, TypeOK, Between
  <2>3. CASE FindTooLow(p) \/ CountRefuses(p) \/ UpdateSeen(p)
             \/ DumpMany(p) \/ CheckFind(p)
    BY <2>3, <1>c, <1>d DEF FindTooLow, CountRefuses, UpdateSeen, DumpMany,
       CheckFind, Return, Exact, TypeOK, Between
  <2>4. CASE FetchAndPush(p)
    <3>1. pc' = [pc EXCEPT ![p] = "putIndex"] /\ pc[p] = "fetchKeys"
          /\ keys' = [keys EXCEPT ![p] = [index EXCEPT ![key] = @ + 1]]
          /\ UNCHANGED <<arg, index, store>>
      BY <2>4, <1>b DEF FetchAndPush, Goto
    <3>2. key \in Keys /\ Exact
      BY <3>1, <2>k, <1>d DEF AboutOp, PCs
    <3>3. \A k \in Keys : keys'[p][k] > 0 <=> k = key \/ index[k] > 0
      BY <3>1, <3>2 DEF TypeOK
    <3> QED
      BY <3>1, <3>2, <3>3, <2>q DEF RestInv, Exact, TypeOK
  <2>5. CASE PutIndex(p)
    BY <2>5, <2>q DEF PutIndex, Goto, RestInv, TypeOK
  <2>6. CASE Replace(p) \/ PutEntry(p)
    <3>1. /\ pc[p] \in {"replace", "putEntry"} /\ pc'[p] = "seen"
          /\ store' = [store EXCEPT ![key] = arg[p]] /\ index' = index
      BY <2>6 DEF Replace, PutEntry, Goto, TypeOK
    <3>2. key \in Keys /\ arg[p] # None
      BY <3>1, <2>k DEF AboutOp, PCs
    <3>3. \A k \in Keys : index[k] > 0 <=> k = key \/ store[k] # None
      BY <3>1, <3>2, <1>d DEF RestInv, Exact
    <3> QED
      BY <3>1, <3>2, <3>3, <1>c DEF Exact, TypeOK, Between
  <2>7. CASE RemoveKeys(p)
    <3>1. pc'[p] = "rmDel" /\ pc[p] = "rmKeys"
          /\ keys'[p] = [index EXCEPT ![key] = 0]
          /\ UNCHANGED <<arg, index, store>>
      BY <2>7, <1>b DEF RemoveKeys, Goto, TypeOK
    <3>2. key \in Keys /\ Exact
      BY <3>1, <2>k, <1>d DEF AboutOp, PCs
    <3>3. \A k \in Keys : keys'[p][k] > 0 <=> k # key /\ index[k] > 0
      BY <3>1, <3>2 DEF TypeOK
    <3> QED
      BY <3>1, <3>2, <3>3, <2>q DEF RestInv, Exact
  <2>8. CASE RemoveDel(p)
    <3>1. pc'[p] = "rmPut" /\ pc[p] = "rmDel" /\ keys'[p] = keys[p]
          /\ store' = [store EXCEPT ![key] = None] /\ UNCHANGED <<arg, index>>
      BY <2>8 DEF RemoveDel, Goto, TypeOK
    <3>2. \A k \in Keys : store'[k] # None <=> k # key /\ store[k] # None
      BY <3>1 DEF TypeOK
    <3> QED
      BY <3>1, <3>2, <2>q DEF RestInv
  <2>9. CASE RemovePut(p)
    BY <2>9, <1>c DEF RemovePut, Return, RestInv, Exact, TypeOK, Between
  <2>10. CASE ClearKeys(p)
    <3>1. pc'[p] = "clDel" /\ pc[p] = "clKeys" /\ keys'[p] = index
          /\ UNCHANGED <<arg, index, store>>
      BY <2>10, <1>b DEF ClearKeys, Goto, TypeOK
    <3> QED
      BY <3>1, <1>d, <2>q DEF RestInv, Exact
  <2>11. ASSUME NEW k \in Keys, ClearDel(p, k) PROVE RestInv'
    <3>1. pc'[p] = "clDel" /\ pc[p] = "clDel"
          /\ keys'[p] = [keys[p] EXCEPT ![k] = @ - 1]
          /\ store' = [store EXCEPT ![k] = None] /\ UNCHANGED <<arg, index>>
      BY <2>11 DEF ClearDel, Goto, TypeOK
    <3>2. \A j \in Keys : store'[j] # None =>
                             store[j] # None /\ keys'[p][j] = keys[p][j]
      BY <3>1 DEF TypeOK
    <3> QED
      BY <3>1, <3>2, <2>q DEF RestInv
  <2>12. CASE ClearDrop(p)
    <3>1. pc[p] = "clDel" /\ pc'[p] = "idle" /\ keys[p] = NoKeys
          /\ index' = NoKeys /\ store' = store
      BY <2>12 DEF ClearDrop, Return, TypeOK
    <3>2. \A k \in Keys : store[k] = None
      BY <3>1 DEF RestInv, NoKeys
    <3> QED
      BY <3>1, <3>2, <1>c DEF Exact, NoKeys, Between
  <2> QED
    BY <1>2, <2>1, <2>2, <2>3, <2>4, <2>5, <2>6, <2>7, <2>8, <2>9, <2>10,
       <2>11, <2>12
    DEF Step, AddStep, RemoveStep, ClearStep, ReadStep
<1>3. ~Crash /\ \A p \in Proc : ~WriteFails(p)
  BY DEF NoFaultAtATime, Crash, WriteFails
<1> QED
  BY <1>0, <1>1, <1>2, <1>3 DEF Next

\* Where the two records agree no read of the collection meets a missing
\* entry, and what a dump answers is what is stored.
LEMMA ExactShowsAll == Exact => Listed = Stored
BY DEF Exact, Listed, Stored, GetManyFails

\* With one request at a time and no fault, a dump between two requests shows
\* every entry of the database and nothing else, after any sequence of adds,
\* replacements, removals and clears.
THEOREM SerialDumpsAll == ASSUME NoFaultAtATime PROVE Spec => []DumpAtRest
<1>1. Init => RestInv
  BY DEF Init, RestInv, Exact, NoKeys
<1>2. RestInv => DumpAtRest
  BY ExactShowsAll DEF RestInv, DumpAtRest, AtRest
<1>3. TypeOK /\ RestInv /\ [Next]_vars => RestInv'
  BY RestStep
<1>4. Spec => []TypeOK
  BY TypeCorrect
<1> QED
  BY <1>1, <1>2, <1>3, <1>4, PTL DEF Spec

-----------------------------------------------------------------------------
(***************************************************************************)
(* The limit per sender, and the pool the service implements.              *)
(***************************************************************************)

\* The cardinality the abstract pool speaks of is the one of this module.
LEMMA SameCount == \A S : Pool!Cardinality(S) = Cardinality(S)
BY DEF Pool!Cardinality, Cardinality

\* A sender's operations in the pool are among those counted, if those found
\* are all there are.
LEMMA CountCoversPending ==
    ASSUME NEW s \in Senders, NEW found \in [Keys -> Nat],
           \A n \in Nonces : store[<<s, n>>] # None => found[<<s, n>>] > 0
    PROVE  /\ IsFiniteSet(Pool!Pending(s))
           /\ Cardinality(Pool!Pending(s)) \in Nat
           /\ CountOf(found, s) \in Nat
           /\ Cardinality(Pool!Pending(s)) <= CountOf(found, s)
<1> DEFINE key == [n \in Nonces |-> <<s, n>>]
           first == [n \in Pool!Pending(s) |-> <<n, 1>>]
<1>1. IsFiniteSet(Nonces)
  <2>1. key \in Injection(Nonces, Keys)
    BY DEF Injection, IsInjective, Keys
  <2> QED
    BY <2>1, FS_Injection, UserOpsAssumption
<1>2. \A n \in Nonces : found[<<s, n>>] \in Nat
  BY DEF Keys
<1>3. IsFiniteSet(FoundOf(found, s))
  <2> DEFINE of(n) == {n} \X (1 .. found[<<s, n>>])
             parts == {of(n) : n \in Nonces}
  <2>1. \A n \in Nonces : IsFiniteSet(of(n))
    <3> SUFFICES ASSUME NEW n \in Nonces PROVE IsFiniteSet(of(n))
      OBVIOUS
    <3>1. IsFiniteSet(1 .. found[<<s, n>>])
      BY <1>2, FS_Interval
    <3> QED
      BY <3>1, FS_Product, FS_Singleton
  <2>2. IsFiniteSet(parts)
    <3>1. [n \in Nonces |-> of(n)] \in Surjection(Nonces, parts)
      BY DEF Surjection
    <3> QED
      BY <3>1, <1>1, FS_Surjection
  <2>3. IsFiniteSet(UNION parts)
    BY <2>1, <2>2, FS_UNION
  <2> QED
    BY <2>3 DEF FoundOf
<1>4. first \in Injection(Pool!Pending(s), FoundOf(found, s))
  <2>1. \A n \in Pool!Pending(s) : <<n, 1>> \in FoundOf(found, s)
    BY <1>2 DEF FoundOf, Pool!Pending
  <2> QED
    BY <2>1 DEF Injection, IsInjective
<1> QED
  BY <1>3, <1>4, FS_Injection, FS_CardinalityType DEF CountOf

\* What the one request in flight knows of the pool: it has no answer yet, the
\* collection it has read is the one saved, and the sender of an operation it
\* is to add has room or stake.
RoomInv ==
    \A p \in Proc :
        LET s == arg[p].sender IN
        /\ pc[p] # "idle" => out[p] = "none"
        /\ pc[p] \in {"countMany", "dpMany"} => keys[p] = index
        /\ pc[p] \in {"fetchKeys", "putIndex", "putEntry"} =>
              \/ s \in Staked
              \/ Cardinality(Pool!Pending(s)) < MaxPerSender

\* Every step of a single request that nothing breaks off keeps RoomInv.
LEMMA RoomStep ==
    NoFaultAtATime /\ TypeOK /\ RestInv /\ RoomInv /\ [Next]_vars => RoomInv'
<1> SUFFICES ASSUME NoFaultAtATime, TypeOK, RestInv, RoomInv, [Next]_vars
             PROVE  RoomInv'
  OBVIOUS
<1> USE DEF Database
<1>0. CASE UNCHANGED vars
  BY <1>0 DEF vars, RoomInv, Pool!Pending
<1>b. FetchKeys = {index}
  BY DEF FetchKeys, NoFaultAtATime, ReadFails
<1>1. ASSUME NEW p \in Proc, Request(p) PROVE RoomInv'
  <2>1. \E at \in {"find", "dpKeys", "ckFind", "rmKeys", "clKeys"},
           op \in UserOps \cup {None} : Begin(p, at, op)
    BY <1>1 DEF Request, BeginAdd, BeginDump, BeginCheck, BeginRemove,
       BeginClear
  <2> QED
    BY <2>1 DEF Begin, TypeOK, RoomInv, NoFaultAtATime
<1>2. ASSUME NEW p \in Proc, Step(p) PROVE RoomInv'
  <2>q. \A q \in Proc : q = p
    BY DEF NoFaultAtATime
  <2>r. ASSUME NEW from, NEW answer, Return(p, from, answer) PROVE RoomInv'
    BY <2>r, <2>q DEF Return, TypeOK, RoomInv
  <2>g. ASSUME NEW from \in PCs \ {"idle"},
               NEW to \in PCs \ {"countMany", "dpMany", "fetchKeys",
                                 "putIndex", "putEntry"},
               NEW ks, Goto(p, from, to, ks)
        PROVE  RoomInv'
    BY <2>g, <2>q DEF Goto, TypeOK, RoomInv
  <2>1. CASE FindReplace(p) \/ FindNew(p) \/ Replace(p) \/ PutEntry(p)
             \/ RemoveKeys(p) \/ RemoveDel(p) \/ ClearKeys(p)
             \/ \E k \in Keys : ClearDel(p, k)
    BY <2>1, <2>g DEF FindReplace, FindNew, Replace, PutEntry, RemoveKeys,
       RemoveDel, ClearKeys, ClearDel, PCs
  <2>2. CASE FindTooLow(p) \/ CountRefuses(p) \/ UpdateSeen(p) \/ RemovePut(p)
             \/ ClearDrop(p) \/ DumpMany(p) \/ CheckFind(p)
    BY <2>2, <2>r DEF FindTooLow, CountRefuses, UpdateSeen, RemovePut,
       ClearDrop, DumpMany, CheckFind
  <2>3. CASE CountKeys(p) \/ DumpKeys(p)
    BY <2>3, <2>q, <1>b DEF CountKeys, DumpKeys, Goto, TypeOK, RoomInv
  <2>4. CASE CountAdmits(p)
    <3> DEFINE s == arg[p].sender
    <3>1. pc[p] = "countMany" /\ pc'[p] = "fetchKeys" /\ out' = out
          /\ UNCHANGED <<arg, store>>
      BY <2>4 DEF CountAdmits, Goto, TypeOK
    <3>2. arg[p] \in UserOps /\ s \in Senders
      BY <3>1, UserOpsAssumption DEF TypeOK, AboutOp, PCs
    <3>3. keys[p] = index /\ index \in [Keys -> Nat] /\ Exact
      BY <3>1, <2>q DEF RoomInv, RestInv, TypeOK
    <3>4. FetchAll(keys[p]) = {index}
      BY <3>3 DEF FetchAll, GetManyFails, Exact, NoFaultAtATime, ReadFails
    <3>5. ~SenderFull(p, index)
      BY <2>4, <3>4 DEF CountAdmits
    <3>6. \A n \in Nonces : store[<<s, n>>] # None => index[<<s, n>>] > 0
      BY <3>2, <3>3 DEF Exact, Keys
    <3>7. s \in Staked \/ Cardinality(Pool!Pending(s)) < MaxPerSender
      BY <3>2, <3>3, <3>5, <3>6, CountCoversPending, LimitsAssumption
      DEF SenderFull
    <3> QED
      BY <3>1, <3>7, <2>q DEF RoomInv, Pool!Pending
  <2>5. CASE FetchAndPush(p) \/ PutIndex(p)
    <3>1. /\ pc[p] \in {"fetchKeys", "putIndex"}
          /\ pc'[p] \in {"putIndex", "putEntry"}
          /\ UNCHANGED <<arg, out, store>>
      BY <2>5 DEF FetchAndPush, PutIndex, Goto, TypeOK
    <3> QED
      BY <3>1, <2>q DEF RoomInv, Pool!Pending
  <2> QED
    BY <1>2, <2>1, <2>2, <2>3, <2>4, <2>5
    DEF Step, AddStep, RemoveStep, ClearStep, ReadStep
<1>3. ~Crash /\ \A p \in Proc : ~WriteFails(p)
  BY DEF NoFaultAtATime, Crash, WriteFails
<1> QED
  BY <1>0, <1>1, <1>2, <1>3 DEF Next

\* With one request at a time and no fault all three invariants hold.
LEMMA QuietHolds ==
    ASSUME NoFaultAtATime
    PROVE  Spec => []TypeOK /\ []SerialInv /\ []RestInv /\ []RoomInv
<1>1. Init => SerialInv /\ RestInv /\ RoomInv
  BY DEF Init, SerialInv, NoOrphan, Stored, RestInv, Exact, NoKeys, RoomInv
<1>2. OneAtATime
  BY DEF NoFaultAtATime, OneAtATime
<1>3. TypeOK /\ SerialInv /\ [Next]_vars => SerialInv'
  BY <1>2, SerialStep
<1>4. TypeOK /\ RestInv /\ [Next]_vars => RestInv'
  BY RestStep
<1>5. TypeOK /\ RestInv /\ RoomInv /\ [Next]_vars => RoomInv'
  BY RoomStep
<1> QED
  BY <1>1, <1>3, <1>4, <1>5, TypeCorrect, PTL DEF Spec

\* A step that leaves the entries alone and shows nothing new is no step of
\* the pool, or lets go of what a dump showed.
LEMMA SilentStep ==
    ASSUME store' = store, Views' \subseteq Views
    PROVE  [Pool!Next]_(Pool!vars)
BY DEF Pool!Next, Pool!Forget

\* Every step of a single request is a step of the pool, or none.
LEMMA StepImplements ==
    NoFaultAtATime /\ TypeOK /\ SerialInv /\ RestInv /\ RoomInv /\ [Next]_vars
        => [Pool!Next]_(Pool!vars)
<1> SUFFICES ASSUME NoFaultAtATime, TypeOK, SerialInv, RestInv, RoomInv,
                    [Next]_vars
             PROVE  [Pool!Next]_(Pool!vars)
  OBVIOUS
<1> USE DEF Database
<1>0. CASE UNCHANGED vars
  BY <1>0, SilentStep DEF vars, Views
<1>1. ASSUME NEW p \in Proc, Request(p) PROVE [Pool!Next]_(Pool!vars)
  <2>1. \E at, op : Begin(p, at, op)
    BY <1>1 DEF Request, BeginAdd, BeginDump, BeginCheck, BeginRemove,
       BeginClear
  <2>2. store' = store /\ out'[p] # "dumped" /\ \A q \in Proc : q = p
    BY <2>1 DEF Begin, TypeOK, NoFaultAtATime
  <2>3. Views' = {}
    BY <2>2 DEF Views
  <2> QED
    BY <2>2, <2>3, SilentStep
<1>2. ASSUME NEW p \in Proc, Step(p) PROVE [Pool!Next]_(Pool!vars)
  <2> DEFINE op == arg[p]
             key == KeyOf(arg[p])
  <2>k. pc[p] \in AboutOp => op \in UserOps /\ key \in Keys /\ op # None
    BY KeyOfType, OpIsEntry DEF TypeOK
  <2>q. \A q \in Proc : q = p
    BY DEF NoFaultAtATime
  <2>v. pc[p] # "idle" => Views = {}
    BY <2>q DEF Views, RoomInv
  <2>g. ASSUME NEW from, NEW to, NEW ks, Goto(p, from, to, ks)
        PROVE  Views' = Views
    BY <2>g DEF Goto, Views
  <2>r. ASSUME NEW from, NEW answer, Return(p, from, answer),
               answer # "dumped"
        PROVE  Views' = {}
    BY <2>r, <2>q DEF Return, Views, TypeOK
  <2>1. CASE FindReplace(p) \/ FindNew(p) \/ CountKeys(p) \/ CountAdmits(p)
             \/ FetchAndPush(p) \/ PutIndex(p) \/ RemoveKeys(p)
             \/ ClearKeys(p) \/ DumpKeys(p)
    <3>1. store' = store /\ \E from, to, ks : Goto(p, from, to, ks)
      BY <2>1 DEF FindReplace, FindNew, CountKeys, CountAdmits, FetchAndPush,
         PutIndex, RemoveKeys, ClearKeys, DumpKeys
    <3> QED
      BY <3>1, <2>g, SilentStep
  <2>2. CASE FindTooLow(p) \/ CountRefuses(p) \/ UpdateSeen(p) \/ RemovePut(p)
             \/ ClearDrop(p) \/ CheckFind(p)
    <3>1. store' = store
          /\ \E from, answer : Return(p, from, answer) /\ answer # "dumped"
      BY <2>2 DEF FindTooLow, CountRefuses, UpdateSeen, RemovePut, ClearDrop,
         CheckFind
    <3> QED
      BY <3>1, <2>r, SilentStep
  <2>3. CASE Replace(p)
    <3>1. pc[p] = "replace" /\ store' = [store EXCEPT ![key] = op]
          /\ Views' = Views
      BY <2>3, <2>g DEF Replace, Goto
    <3>2. op \in UserOps /\ key \in Keys /\ store[key] # None
          /\ CanReplace(op, store[key])
      BY <3>1, <2>k DEF SerialInv, AboutOp, PCs
    <3>3. op.prio >= store[key].prio /\ op.maxFee >= store[key].maxFee
      BY <3>2, ReplaceRaises DEF TypeOK
    <3>4. Pool!Supersede(op)
      BY <3>1, <3>2, <3>3 DEF Pool!Supersede, KeyOf
    <3> QED
      BY <3>2, <3>4 DEF Pool!Next
  <2>4. CASE PutEntry(p)
    <3>1. pc[p] = "putEntry" /\ store' = [store EXCEPT ![key] = op]
          /\ Views' = Views
      BY <2>4, <2>g DEF PutEntry, Goto
    <3>2. op \in UserOps /\ store[key] = None
          /\ (op.sender \in Staked
              \/ Cardinality(Pool!Pending(op.sender)) < MaxPerSender)
      BY <3>1, <2>k DEF SerialInv, RoomInv, AboutOp, PCs
    <3>3. Pool!Accept(op)
      BY <3>1, <3>2, SameCount DEF Pool!Accept, KeyOf
    <3> QED
      BY <3>2, <3>3 DEF Pool!Next
  <2>5. ASSUME NEW k \in Keys, store' = [store EXCEPT ![k] = None],
               Views' = Views
        PROVE  [Pool!Next]_(Pool!vars)
    <3>1. Pool!Remove(k)
      BY <2>5 DEF Pool!Remove
    <3> QED
      BY <3>1 DEF Pool!Next, Pool!Keys, Keys
  <2>6. CASE RemoveDel(p)
    <3>1. key \in Keys
      BY <2>6, <2>k DEF RemoveDel, Goto, AboutOp, PCs
    <3> QED
      BY <2>6, <3>1, <2>5, <2>g DEF RemoveDel
  <2>7. ASSUME NEW k \in Keys, ClearDel(p, k) PROVE [Pool!Next]_(Pool!vars)
    BY <2>7, <2>5, <2>g DEF ClearDel
  <2>8. CASE DumpMany(p)
    <3>1. pc[p] = "dpMany" /\ store' = store /\ out'[p] = "dumped"
      BY <2>8 DEF DumpMany, Return, TypeOK
    <3>2. keys[p] = index /\ Exact
      BY <3>1, <2>q DEF RoomInv, RestInv
    <3>3. FetchAll(keys[p]) = {index}
      BY <3>2 DEF FetchAll, GetManyFails, Exact, NoFaultAtATime, ReadFails
    <3>4. shown'[p] = {store[k] : k \in {j \in Keys : index[j] > 0}}
      BY <2>8, <3>3 DEF DumpMany, TypeOK
    <3>5. shown'[p] = Pool!Contents
      BY <3>2, <3>4 DEF Exact, Pool!Contents, Pool!Keys, Keys
    <3>6. Views' = {Pool!Contents}
      BY <3>1, <3>5, <2>q DEF Views
    <3>7. Pool!Dump
      BY <3>1, <3>6, <2>v DEF Pool!Dump
    <3> QED
      BY <3>7 DEF Pool!Next
  <2> QED
    BY <1>2, <2>1, <2>2, <2>3, <2>4, <2>6, <2>7, <2>8
    DEF Step, AddStep, RemoveStep, ClearStep, ReadStep
<1>3. ~Crash /\ \A p \in Proc : ~WriteFails(p)
  BY DEF NoFaultAtATime, Crash, WriteFails
<1> QED
  BY <1>0, <1>1, <1>2, <1>3 DEF Next

\* With one request at a time and no fault the two records of the database
\* are the abstract pool: an operation enters in one step and within its
\* sender's limit, is replaced by higher fees only, and a dump is the pool.
THEOREM SerialImplementsPool ==
    ASSUME NoFaultAtATime PROVE Spec => ImplementsPool
<1>1. Init => Pool!Init
  BY DEF Init, Pool!Init, Pool!Keys, Keys, Views
<1>2. TypeOK /\ SerialInv /\ RestInv /\ RoomInv /\ [Next]_vars
          => [Pool!Next]_(Pool!vars)
  BY StepImplements
<1> QED
  BY <1>1, <1>2, QuietHolds, PTL DEF Spec, ImplementsPool, Pool!Spec

-----------------------------------------------------------------------------
\* The limit per sender is kept by every step of the abstract pool.
LEMMA PoolKeepsLimit ==
    TypeOK /\ SenderLimit /\ [Pool!Next]_(Pool!vars) => SenderLimit'
<1> SUFFICES ASSUME TypeOK, [Pool!Next]_(Pool!vars),
                    NEW s \in Senders \ Staked,
                    Cardinality(Pool!Pending(s)) <= MaxPerSender
             PROVE  Cardinality(Pool!Pending(s)') <= MaxPerSender
  BY DEF SenderLimit, Pool!Pending
<1> DEFINE before == Pool!Pending(s)
           after == Pool!Pending(s)'
<1>1. IsFiniteSet(before) /\ Cardinality(before) \in Nat
  <2>1. [k \in Keys |-> 1] \in [Keys -> Nat]
    OBVIOUS
  <2>2. \A n \in Nonces : [k \in Keys |-> 1][<<s, n>>] > 0
    BY DEF Keys
  <2> QED
    BY <2>1, <2>2, CountCoversPending
<1>2. CASE after \subseteq before
  <2>1. Cardinality(after) \in Nat /\ Cardinality(after) <= Cardinality(before)
    BY <1>1, <1>2, FS_Subset, FS_CardinalityType
  <2> QED
    BY <1>1, <2>1, LimitsAssumption
<1>3. ASSUME NEW op \in UserOps, Pool!Accept(op)
      PROVE  Cardinality(after) <= MaxPerSender
  <2>1. CASE op.sender # s
    <3>1. after \subseteq before
      BY <1>3, <2>1 DEF Pool!Accept, Pool!Pending, TypeOK, Keys
    <3> QED
      BY <3>1, <1>2
  <2>2. CASE op.sender = s
    <3>1. after \subseteq before \cup {op.nonce}
      BY <1>3, <2>2 DEF Pool!Accept, Pool!Pending, TypeOK, Keys
    <3>2. IsFiniteSet(before \cup {op.nonce})
          /\ Cardinality(before \cup {op.nonce}) <= Cardinality(before) + 1
      BY <1>1, FS_AddElement
    <3>3. Cardinality(after) <= Cardinality(before \cup {op.nonce})
          /\ Cardinality(after) \in Nat
          /\ Cardinality(before \cup {op.nonce}) \in Nat
      BY <3>1, <3>2, FS_Subset, FS_CardinalityType
    <3>4. Cardinality(before) < MaxPerSender
      BY <1>3, <2>2, SameCount DEF Pool!Accept
    <3> QED
      BY <1>1, <3>2, <3>3, <3>4, LimitsAssumption
  <2> QED
    BY <2>1, <2>2
<1>4. ASSUME NEW op \in UserOps, Pool!Supersede(op) PROVE after \subseteq before
  BY <1>4 DEF Pool!Supersede, Pool!Pending, TypeOK, Keys
<1>5. ASSUME NEW k \in Keys, Pool!Remove(k) PROVE after \subseteq before
  BY <1>5 DEF Pool!Remove, Pool!Pending, TypeOK, Keys
<1>6. CASE Pool!Dump \/ Pool!Forget \/ UNCHANGED Pool!vars
  <2>1. store' = store
    BY <1>6 DEF Pool!Dump, Pool!Forget, Pool!vars
  <2>2. after \subseteq before
    BY <2>1 DEF Pool!Pending
  <2> QED
    BY <2>2, <1>2
<1> QED
  BY <1>2, <1>3, <1>4, <1>5, <1>6 DEF Pool!Next, Pool!Keys, Keys

\* With one request at a time and no fault a sender without stake never has
\* more operations in the pool than the limit, as it never has in the
\* abstract pool.
THEOREM SerialWithinLimit ==
    ASSUME NoFaultAtATime PROVE Spec => []SenderLimit
<1>1. Init => SenderLimit
  <2> SUFFICES ASSUME Init, NEW s \in Senders
               PROVE  Cardinality({n \in Nonces : store[<<s, n>>] # None})
                          <= MaxPerSender
    BY DEF SenderLimit
  <2> DEFINE pending == {n \in Nonces : store[<<s, n>>] # None}
  <2>1. pending = {}
    BY DEF Init, Keys
  <2> HIDE DEF pending
  <2>2. Cardinality(pending) = 0
    BY <2>1, FS_EmptySet
  <2>3. Cardinality(pending) <= MaxPerSender
    BY <2>2, LimitsAssumption
  <2> QED
    BY <2>3 DEF pending
<1>2. TypeOK /\ SenderLimit /\ [Pool!Next]_(Pool!vars) => SenderLimit'
  BY PoolKeepsLimit
<1>3. TypeOK /\ SerialInv /\ RestInv /\ RoomInv /\ [Next]_vars
          => [Pool!Next]_(Pool!vars)
  BY StepImplements
<1> QED
  BY <1>1, <1>2, <1>3, QuietHolds, PTL DEF Spec

=============================================================================
