------------------------ MODULE BundlingOnce_proofs ------------------------
(***************************************************************************)
(* That an operation is handed to the chain once: the inductive invariant  *)
(* OnceInv of the bundler and what follows from it.                        *)
(***************************************************************************)
EXTENDS BundlingService_proofs

-----------------------------------------------------------------------------
(***************************************************************************)
(* Lemmas about sequences and about what a call holds.                     *)
(***************************************************************************)
\* The elements of a sequence are its head and those of its tail.
LEMMA ToSetTail ==
    ASSUME NEW S, NEW s \in Seq(S), s # <<>>
    PROVE  /\ Head(s) \in ToSet(s)
           /\ ToSet(Tail(s)) \subseteq ToSet(s)
           /\ ToSet(s) \subseteq ToSet(Tail(s)) \cup {Head(s)}
<1>1. Len(s) \in Nat /\ Len(s) > 0 /\ DOMAIN s = 1 .. Len(s) /\ Head(s) = s[1]
  BY EmptySeq, LenProperties
<1>2. /\ DOMAIN Tail(s) = 1 .. (Len(s) - 1)
      /\ \A i \in 1 .. (Len(s) - 1) : Tail(s)[i] = s[i + 1]
  BY <1>1, HeadTailProperties, LenProperties
<1>3. ASSUME NEW i \in DOMAIN s PROVE s[i] = Head(s) \/ s[i] \in ToSet(Tail(s))
  <2>1. CASE i = 1
    BY <1>1, <2>1
  <2>2. CASE i # 1
    <3>1. i - 1 \in DOMAIN Tail(s) /\ Tail(s)[i - 1] = s[i]
      BY <1>1, <1>2, <2>2
    <3> QED
      BY <3>1 DEF ToSet
  <2> QED
    BY <2>1, <2>2
<1>4. ASSUME NEW i \in DOMAIN Tail(s) PROVE Tail(s)[i] \in ToSet(s)
  <2>1. i + 1 \in DOMAIN s /\ s[i + 1] = Tail(s)[i]
    BY <1>1, <1>2
  <2> QED
    BY <2>1 DEF ToSet
<1> QED
  BY <1>1, <1>3, <1>4 DEF ToSet

LEMMA ToSetAppend ==
    ASSUME NEW S, NEW s \in Seq(S), NEW x \in S
    PROVE  ToSet(Append(s, x)) = ToSet(s) \cup {x}
<1>1. /\ DOMAIN Append(s, x) = 1 .. (Len(s) + 1)
      /\ \A i \in 1 .. Len(s) : Append(s, x)[i] = s[i]
      /\ Append(s, x)[Len(s) + 1] = x
      /\ DOMAIN s = 1 .. Len(s) /\ Len(s) \in Nat
  BY AppendProperties, LenProperties
<1> QED
  BY <1>1 DEF ToSet

LEMMA ToSetEmpty == ToSet(<<>>) = {}
BY DEF ToSet

\* The operations of a call's locals.
HeldIn(t) == ToSet(t.todo) \cup ToSet(t.bundle)

\* Going on to the next entry, with or without this one in the bundle, the
\* call holds nothing new.
LEMMA HeldShrinks ==
    ASSUME NEW t \in Task, t.todo # <<>>
    PROVE  /\ HeldIn(RestOf(t)) \subseteq HeldIn(t)
           /\ HeldIn(Included(t, Head(t.todo))) \subseteq HeldIn(t)
<1>1. t.todo \in Seq(UserOps) /\ t.bundle \in Seq(UserOps)
  BY DEF Task
<1>2. Head(t.todo) \in UserOps
  BY <1>1
<1>3. /\ RestOf(t).todo = Tail(t.todo) /\ RestOf(t).bundle = t.bundle
      /\ Included(t, Head(t.todo)).todo = Tail(t.todo)
      /\ Included(t, Head(t.todo)).bundle = Append(t.bundle, Head(t.todo))
  BY DEF RestOf, Included, Task
<1>4. /\ ToSet(Tail(t.todo)) \subseteq ToSet(t.todo)
      /\ Head(t.todo) \in ToSet(t.todo)
  BY <1>1, ToSetTail
<1>5. ToSet(Append(t.bundle, Head(t.todo))) = ToSet(t.bundle) \cup {Head(t.todo)}
  BY <1>1, <1>2, ToSetAppend
<1>6. HeldIn(RestOf(t)) = ToSet(Tail(t.todo)) \cup ToSet(t.bundle)
  BY <1>3 DEF HeldIn
<1>7. HeldIn(Included(t, Head(t.todo)))
         = ToSet(Tail(t.todo)) \cup (ToSet(t.bundle) \cup {Head(t.todo)})
  BY <1>3, <1>5 DEF HeldIn
<1>8. HeldIn(t) = ToSet(t.todo) \cup ToSet(t.bundle)
  BY DEF HeldIn
<1> QED
  BY <1>4, <1>6, <1>7, <1>8

\* What a call holds, by its locals.
LEMMA HeldByTask ==
    ASSUME NEW c \in Callers
    PROVE  Held(c) = HeldIn(task[c]) /\ Held(c)' = HeldIn(task'[c])
BY DEF Held, HeldIn

LEMMA NothingHeld == HeldIn(NoTask) = {}
BY ToSetEmpty DEF HeldIn, NoTask

-----------------------------------------------------------------------------
(***************************************************************************)
(* What a step of the pool does to what OnceInv says of the pool.          *)
(***************************************************************************)
Keyed == \A k \in Mempool!Keys : store[k] # None => Mempool!KeyOf(store[k]) = k

\* The other requests stay where they are.
OthersStay(p) ==
    \A q \in Proc \ {p} : pc'[q] = pc[q] /\ arg'[q] = arg[q]

AddingPlaces == {"find", "replace", "countKeys", "countMany", "fetchKeys",
                 "putIndex", "putEntry"}

\* Deleting an entry, or writing none, pools nothing.
LEMMA DeletePools ==
    ASSUME PoolHolds, Keyed, NEW k,
           store' = [store EXCEPT ![k] = None] \/ UNCHANGED store
    PROVE  Keyed' /\ Pooled' \subseteq Pooled
<1>1. \A j \in Mempool!Keys : store'[j] = store[j] \/ store'[j] = None
  BY DEF PoolHolds, StoreTypes
<1> QED
  BY <1>1 DEF Keyed, Pooled

\* Saving the entry of an operation pools that operation.
LEMMA SavePools ==
    ASSUME PoolHolds, Keyed, NEW op \in UserOps,
           store' = [store EXCEPT ![Mempool!KeyOf(op)] = op]
    PROVE  Keyed' /\ Pooled' \subseteq Pooled \cup {op}
<1>1. \A j \in Mempool!Keys :
        store'[j] = store[j] \/ (j = Mempool!KeyOf(op) /\ store'[j] = op)
  BY DEF PoolHolds, StoreTypes
<1> QED
  BY <1>1 DEF Keyed, Pooled

\* An addition that goes on is still about its operation, and nothing becomes
\* one.
LEMMA GotoAdding ==
    ASSUME PoolHolds, NEW p \in Proc, NEW from, NEW to, NEW ks,
           Mempool!Goto(p, from, to, ks),
           to \in AddingPlaces => from \in AddingPlaces
    PROVE  /\ OthersStay(p)
           /\ Adding(p)' => Adding(p) /\ arg'[p] = arg[p]
           /\ pc[p] = from /\ pc'[p] = to /\ arg'[p] = arg[p]
BY DEF PoolHolds, Mempool!Goto, OthersStay, Adding, AddingPlaces

\* A request that ends is no addition.
LEMMA ReturnAdding ==
    ASSUME PoolHolds, NEW p \in Proc, NEW from, NEW answer,
           Mempool!Return(p, from, answer)
    PROVE  OthersStay(p) /\ ~Adding(p)' /\ pc[p] = from /\ pc'[p] = "idle"
BY DEF PoolHolds, Mempool!Return, OthersStay, Adding

\* A request that begins.
LEMMA BeginAdding ==
    ASSUME PoolHolds, NEW p \in Proc, NEW place, NEW op,
           Mempool!Begin(p, place, op)
    PROVE  /\ OthersStay(p)
           /\ pc[p] = "idle" /\ pc'[p] = place /\ arg'[p] = op
           /\ UNCHANGED store
BY DEF PoolHolds, Mempool!Begin, Mempool!Database, OthersStay

\* What a step of request p may do: what it pools is the operation its
\* addition is about, and the addition ends with it.
Works(p) ==
    /\ OthersStay(p)
    /\ Adding(p)' => Adding(p) /\ arg'[p] = arg[p]
    /\ Keyed'
    /\ \/ Pooled' \subseteq Pooled
       \/ Adding(p) /\ ~Adding(p)' /\ Pooled' \subseteq Pooled \cup {arg[p]}

\* A step of an addition.
LEMMA AddWorks ==
    ASSUME PoolHolds, Keyed, NEW p \in Proc, Mempool!AddStep(p)
    PROVE  Works(p)
<1> USE DEF AddingPlaces
<1>1. CASE Mempool!FindReplace(p)
  BY <1>1, GotoAdding, DeletePools DEF Mempool!FindReplace, Mempool!Database, Works
<1>2. CASE Mempool!FindTooLow(p)
  BY <1>2, ReturnAdding, DeletePools DEF Mempool!FindTooLow, Mempool!Database, Works
<1>3. CASE Mempool!FindNew(p)
  BY <1>3, GotoAdding, DeletePools DEF Mempool!FindNew, Mempool!Database, Works
<1>4. CASE Mempool!Replace(p)
  <2>1. Mempool!Goto(p, "replace", "seen", keys[p])
    BY <1>4 DEF Mempool!Replace
  <2>2. OthersStay(p) /\ pc[p] = "replace" /\ pc'[p] = "seen"
    BY <2>1, GotoAdding
  <2>3. arg[p] \in UserOps
    BY <2>2 DEF PoolHolds, Mempool!AboutOp, Mempool!PCs
  <2>4. Keyed' /\ Pooled' \subseteq Pooled \cup {arg[p]}
    BY <1>4, <2>3, SavePools DEF Mempool!Replace
  <2> QED
    BY <2>2, <2>4 DEF Works, Adding
<1>5. CASE Mempool!CountKeys(p)
  BY <1>5, GotoAdding, DeletePools DEF Mempool!CountKeys, Mempool!Database, Works
<1>6. CASE Mempool!CountAdmits(p)
  BY <1>6, GotoAdding, DeletePools DEF Mempool!CountAdmits, Mempool!Database, Works
<1>7. CASE Mempool!CountRefuses(p)
  BY <1>7, ReturnAdding, DeletePools DEF Mempool!CountRefuses, Mempool!Database, Works
<1>8. CASE Mempool!FetchAndPush(p)
  BY <1>8, GotoAdding, DeletePools DEF Mempool!FetchAndPush, Mempool!Database, Works
<1>9. CASE Mempool!PutIndex(p)
  BY <1>9, GotoAdding, DeletePools DEF Mempool!PutIndex, Works
<1>10. CASE Mempool!PutEntry(p)
  <2>1. Mempool!Goto(p, "putEntry", "seen", keys[p])
    BY <1>10 DEF Mempool!PutEntry
  <2>2. OthersStay(p) /\ pc[p] = "putEntry" /\ pc'[p] = "seen"
    BY <2>1, GotoAdding
  <2>3. arg[p] \in UserOps
    BY <2>2 DEF PoolHolds, Mempool!AboutOp, Mempool!PCs
  <2>4. Keyed' /\ Pooled' \subseteq Pooled \cup {arg[p]}
    BY <1>10, <2>3, SavePools DEF Mempool!PutEntry
  <2> QED
    BY <2>2, <2>4 DEF Works, Adding
<1>11. CASE Mempool!UpdateSeen(p)
  BY <1>11, ReturnAdding, DeletePools DEF Mempool!UpdateSeen, Mempool!Database, Works
<1> QED
  BY <1>1, <1>2, <1>3, <1>4, <1>5, <1>6, <1>7, <1>8, <1>9, <1>10, <1>11
  DEF Mempool!AddStep

\* Any other step of a request pools nothing.
LEMMA OtherWorks ==
    ASSUME PoolHolds, Keyed, NEW p \in Proc,
           Mempool!RemoveStep(p) \/ Mempool!ClearStep(p)
               \/ Mempool!ReadStep(p) \/ Mempool!WriteFails(p)
    PROVE  Works(p)
<1> USE DEF AddingPlaces
<1>1. CASE Mempool!RemoveKeys(p)
  BY <1>1, GotoAdding, DeletePools DEF Mempool!RemoveKeys, Mempool!Database, Works
<1>2. CASE Mempool!RemoveDel(p)
  BY <1>2, GotoAdding, DeletePools DEF Mempool!RemoveDel, Works
<1>3. CASE Mempool!RemovePut(p)
  BY <1>3, ReturnAdding, DeletePools DEF Mempool!RemovePut, Works
<1>4. CASE Mempool!ClearKeys(p)
  BY <1>4, GotoAdding, DeletePools DEF Mempool!ClearKeys, Mempool!Database, Works
<1>5. ASSUME NEW k \in Mempool!Keys, Mempool!ClearDel(p, k)
      PROVE  Works(p)
  BY <1>5, GotoAdding, DeletePools DEF Mempool!ClearDel, Works
<1>6. CASE Mempool!ClearDrop(p)
  BY <1>6, ReturnAdding, DeletePools DEF Mempool!ClearDrop, Works
<1>7. CASE Mempool!DumpKeys(p)
  BY <1>7, GotoAdding, DeletePools DEF Mempool!DumpKeys, Mempool!Database, Works
<1>8. CASE Mempool!DumpMany(p)
  BY <1>8, ReturnAdding, DeletePools DEF Mempool!DumpMany, Mempool!Database, Works
<1>9. CASE Mempool!CheckFind(p)
  BY <1>9, ReturnAdding, DeletePools DEF Mempool!CheckFind, Mempool!Database, Works
<1>10. CASE Mempool!WriteFails(p)
  BY <1>10, ReturnAdding, DeletePools DEF Mempool!WriteFails, Mempool!Database, Works
<1> QED
  BY <1>1, <1>2, <1>3, <1>4, <1>5, <1>6, <1>7, <1>8, <1>9, <1>10
  DEF Mempool!RemoveStep, Mempool!ClearStep, Mempool!ReadStep

-----------------------------------------------------------------------------
(***************************************************************************)
(* Steps of clients, of the modes and of the timer.                        *)
(***************************************************************************)
\* What is saved and what is held is among what clients asked for, by name.
LEMMA OnceParts ==
    ASSUME OnceInv
    PROVE  /\ SentLeavesPool /\ Keyed
           /\ Pooled \subseteq asked /\ sent \subseteq asked
           /\ \A c \in Callers : HeldIn(task[c]) \subseteq asked
           /\ \A p \in Proc : Adding(p) =>
                 /\ arg[p] \in asked /\ arg[p] \notin Pooled /\ arg[p] \notin sent
                 /\ \A c \in Callers : arg[p] \notin HeldIn(task[c])
                 /\ \A q \in Proc \ {p} : Adding(q) => arg[q] # arg[p]
BY HeldByTask DEF OnceInv, Keyed

\* What OnceInv says of a call.
CallInv(c) ==
    /\ pc[c] \in PoolPlaces(c)
    /\ at[c] \in {"idle", "lock", "dump"} => task[c] = NoTask
    /\ ~Cleaning(c) => HeldIn(task[c]) \cap sent \subseteq stuck
    /\ at[c] = "cleaning" => arg[c] = Entry(c)
    /\ at[c] = "cleaning" /\ pc[c] = "rmPut" => Entry(c) \notin Pooled

LEMMA OnceCalls == OnceInv => \A c \in Callers : CallInv(c)
BY HeldByTask DEF OnceInv, CallInv

\* The parts make the whole, in the state after a step.
LEMMA OnceWhole ==
    ASSUME SentLeavesPool', Keyed',
           Pooled' \subseteq asked', sent' \subseteq asked',
           \A c \in Callers : HeldIn(task'[c]) \subseteq asked',
           \A p \in Proc : Adding(p)' =>
              /\ arg'[p] \in asked' /\ arg'[p] \notin Pooled' /\ arg'[p] \notin sent'
              /\ \A c \in Callers : arg'[p] \notin HeldIn(task'[c])
              /\ \A q \in Proc \ {p} : Adding(q)' => arg'[q] # arg'[p],
           \A c \in Callers : CallInv(c)'
    PROVE  OnceInv'
<1>1. \A c \in Callers : Held(c)' = HeldIn(task'[c])
  BY HeldByTask
<1> QED
  BY <1>1 DEF OnceInv, Keyed, CallInv, HeldIn

\* A call that stays where it is keeps its part, if the pool gets nothing it
\* holds.
LEMMA CallStays ==
    ASSUME NEW c \in Callers, CallInv(c), TypeOK,
           at'[c] = at[c], task'[c] = task[c], pc'[c] = pc[c], arg'[c] = arg[c],
           HeldIn(task[c]) \cap Pooled' \subseteq Pooled,
           HeldIn(task[c]) \cap sent' \subseteq sent, stuck \subseteq stuck'
    PROVE  CallInv(c)'
<1>1. PoolPlaces(c)' = PoolPlaces(c)
  BY DEF PoolPlaces
<1>2. Cleaning(c)' = Cleaning(c)
  BY DEF Cleaning
<1>3. Entry(c)' = Entry(c)
  BY DEF Entry
<1>4. at[c] = "cleaning" => Entry(c) \in HeldIn(task[c])
  <2>1. CASE at[c] = "cleaning"
    <3>1. task[c].todo \in Seq(UserOps) /\ task[c].todo # <<>>
      BY <2>1 DEF TypeOK, Task
    <3> QED
      BY <3>1, ToSetTail DEF Entry, HeldIn
  <2> QED
    BY <2>1
<1> QED
  BY <1>1, <1>2, <1>3, <1>4 DEF CallInv

\* A request of a client that goes on or fails.
LEMMA ClientOnce ==
    ASSUME BundlerInv, OnceInv, NEW p \in Clients,
           ClientStep(p) \/ ClientFails(p)
    PROVE  OnceInv'
<1>1. p \in Proc /\ p \notin Callers /\ Callers \subseteq Proc
  BY BundlerAssumption DEF Clients
<1>2. PoolHolds /\ TypeOK /\ Keyed
  BY OnceParts DEF BundlerInv
<1>3. Works(p)
  BY <1>1, <1>2, AddWorks, OtherWorks DEF ClientStep, ClientFails, Mempool!Step
<1>4. /\ at' = at /\ task' = task
      /\ asked' = asked /\ sent' = sent /\ stuck' = stuck
  BY DEF ClientStep, ClientFails, history
<1>5. ASSUME NEW x \in Pooled', x \notin Pooled
      PROVE  /\ Adding(p) /\ ~Adding(p)' /\ x = arg[p]
             /\ x \in asked /\ x \notin sent
             /\ \A c \in Callers : x \notin HeldIn(task[c])
  BY <1>1, <1>3, <1>5, OnceParts DEF Works
<1>6. SentLeavesPool'
  <2>1. SentLeavesPool
    BY OnceParts
  <2>2. \A c \in Callers : Cleaning(c)' = Cleaning(c)
    BY <1>4 DEF Cleaning
  <2> QED
    BY <1>4, <1>5, <2>1, <2>2 DEF SentLeavesPool
<1>7. ASSUME NEW q \in Proc, Adding(q)'
      PROVE  /\ Adding(q) /\ arg'[q] = arg[q]
             /\ arg[q] \notin Pooled'
  <2>1. Adding(q) /\ arg'[q] = arg[q]
    BY <1>3, <1>7 DEF Works, OthersStay, Adding
  <2> QED
    BY <1>1, <1>5, <1>7, <2>1, OnceParts
<1>8. ASSUME NEW c \in Callers
      PROVE  CallInv(c)'
  <2>1. pc'[c] = pc[c] /\ arg'[c] = arg[c]
    BY <1>1, <1>3 DEF Works, OthersStay
  <2>2. CallInv(c)
    BY OnceCalls
  <2> QED
    BY <1>2, <1>4, <1>5, <2>1, <2>2, CallStays
<1>9. Pooled' \subseteq asked
  BY <1>5, OnceParts
<1>10. Keyed'
  BY <1>3 DEF Works
<1> QED
  BY <1>4, <1>6, <1>7, <1>8, <1>9, <1>10, OnceParts, OnceWhole

\* A client asks for an operation nobody asked for before.
LEMMA SubmitOnce ==
    ASSUME BundlerInv, OnceInv, NEW p \in Clients, NEW op \in UserOps,
           Submit(p, op)
    PROVE  OnceInv'
<1>1. p \in Proc /\ p \notin Callers /\ Callers \subseteq Proc
  BY BundlerAssumption DEF Clients
<1>2. PoolHolds /\ TypeOK /\ Keyed
  BY OnceParts DEF BundlerInv
<1>3. /\ OthersStay(p) /\ pc'[p] = "find" /\ arg'[p] = op /\ UNCHANGED store
  BY <1>1, <1>2, BeginAdding DEF Submit, Mempool!BeginAdd
<1>4. /\ at' = at /\ task' = task /\ sent' = sent /\ stuck' = stuck
      /\ op \notin asked /\ asked' = asked \cup {op}
  BY DEF Submit
<1>5. Keyed' /\ Pooled' = Pooled
  BY <1>2, <1>3 DEF Keyed, Pooled
<1>6. SentLeavesPool'
  <2>1. \A c \in Callers : Cleaning(c)' = Cleaning(c)
    BY <1>4 DEF Cleaning
  <2> QED
    BY <1>4, <1>5, <2>1, OnceParts DEF SentLeavesPool
<1>7. ASSUME NEW q \in Proc, Adding(q)'
      PROVE  \/ q = p /\ arg'[q] = op
             \/ q # p /\ Adding(q) /\ arg'[q] = arg[q] /\ arg[q] # op
  <2>1. q # p => Adding(q) /\ arg'[q] = arg[q]
    BY <1>3, <1>7 DEF OthersStay, Adding
  <2> QED
    BY <1>3, <1>4, <2>1, OnceParts
<1>8. ASSUME NEW c \in Callers
      PROVE  CallInv(c)'
  <2>1. pc'[c] = pc[c] /\ arg'[c] = arg[c]
    BY <1>1, <1>3 DEF OthersStay
  <2> QED
    BY <1>2, <1>4, <1>5, <2>1, OnceCalls, CallStays
<1>9. ASSUME NEW q \in Proc, Adding(q)'
      PROVE  /\ arg'[q] \in asked' /\ arg'[q] \notin Pooled' /\ arg'[q] \notin sent'
             /\ \A c \in Callers : arg'[q] \notin HeldIn(task'[c])
             /\ \A r \in Proc \ {q} : Adding(r)' => arg'[r] # arg'[q]
  <2>1. \A r \in Proc : Adding(r)' =>
           \/ r = p /\ arg'[r] = op
           \/ r # p /\ Adding(r) /\ arg'[r] = arg[r] /\ arg[r] # op
    BY <1>7
  <2> QED
    BY <1>4, <1>5, <1>9, <2>1, OnceParts
<1> QED
  BY <1>4, <1>5, <1>6, <1>8, <1>9, OnceParts, OnceWhole

\* Steps that change neither the pool nor what a call of sendNextBundle is at.
LEMMA StillOnce ==
    ASSUME OnceInv, TypeOK, UNCHANGED <<store, pc, arg, task, asked, sent, stuck>>,
           \A c \in Callers : at'[c] = at[c]
    PROVE  OnceInv'
<1>1. Keyed' /\ Pooled' = Pooled
  BY OnceParts DEF Keyed, Pooled
<1>2. \A c \in Callers : Cleaning(c)' = Cleaning(c)
  BY DEF Cleaning
<1>3. SentLeavesPool'
  BY <1>1, <1>2, OnceParts DEF SentLeavesPool
<1>4. \A p \in Proc : Adding(p)' = Adding(p)
  BY DEF Adding
<1>5. \A c \in Callers : CallInv(c)'
  BY <1>1, OnceCalls, CallStays
<1> QED
  BY <1>1, <1>3, <1>4, <1>5, OnceParts, OnceWhole

-----------------------------------------------------------------------------
(***************************************************************************)
(* Steps of a call of sendNextBundle.                                      *)
(***************************************************************************)
\* A step of the call c pools nothing.
Quiet(c) == OthersStay(c) /\ Keyed' /\ Pooled' \subseteq Pooled

\* The other calls of sendNextBundle, and what clients asked for, stay.
OnlyCall(c) ==
    /\ \A d \in Callers \ {c} : at'[d] = at[d] /\ task'[d] = task[d]
    /\ asked' = asked /\ stuck \subseteq stuck'

\* Only the call that works holds operations or removes them.
LEMMA OthersHoldNothing ==
    ASSUME BundlerInv, OnceInv, NEW c \in Callers, at[c] \notin {"idle", "lock"},
           NEW d \in Callers \ {c}
    PROVE  HeldIn(task[d]) = {} /\ ~Cleaning(d)
<1>1. at[d] \in {"idle", "lock"}
  BY DEF BundlerInv, OnlyHolderWorks
<1> QED
  BY <1>1, OnceCalls, NothingHeld DEF CallInv, Cleaning

\* A step of a call that takes up only what is pooled and sends only what it
\* holds keeps the invariant, if it keeps it for itself.
LEMMA CallerOnce ==
    ASSUME BundlerInv, OnceInv, NEW c \in Callers, Quiet(c), OnlyCall(c),
           \/ sent' = sent
           \/ at[c] = "send" /\ sent' \subseteq sent \cup HeldIn(task[c]),
           HeldIn(task'[c]) \subseteq HeldIn(task[c]) \cup Pooled,
           SentLeavesPool', CallInv(c)'
    PROVE  OnceInv'
<1>1. c \in Proc /\ Callers \subseteq Proc /\ TypeOK
  BY BundlerAssumption DEF BundlerInv
<1>2. sent' \subseteq sent \cup HeldIn(task[c])
  OBVIOUS
<1>3. ~Adding(c)'
  <2>1. pc'[c] \in PoolPlaces(c)'
    BY DEF CallInv
  <2> QED
    BY <2>1 DEF PoolPlaces, Adding
<1>4. ASSUME NEW q \in Proc, Adding(q)'
      PROVE  q # c /\ Adding(q) /\ arg'[q] = arg[q]
  BY <1>3, <1>4 DEF Quiet, OthersStay, Adding
<1>5. ASSUME NEW d \in Callers
      PROVE  HeldIn(task'[d]) \subseteq HeldIn(task[d]) \cup Pooled
  BY DEF OnlyCall
<1>6. ASSUME NEW q \in Proc, Adding(q)'
      PROVE  /\ arg'[q] \in asked' /\ arg'[q] \notin Pooled' /\ arg'[q] \notin sent'
             /\ \A d \in Callers : arg'[q] \notin HeldIn(task'[d])
             /\ \A r \in Proc \ {q} : Adding(r)' => arg'[r] # arg'[q]
  BY <1>2, <1>4, <1>5, <1>6, OnceParts DEF Quiet, OnlyCall
<1>7. ASSUME NEW d \in Callers
      PROVE  CallInv(d)'
  <2>1. CASE d = c
    BY <2>1
  <2>2. CASE d # c
    <3>1. /\ at'[d] = at[d] /\ task'[d] = task[d]
          /\ pc'[d] = pc[d] /\ arg'[d] = arg[d]
      BY <1>1, <2>2 DEF OnlyCall, Quiet, OthersStay
    <3>2. HeldIn(task[d]) \cap sent' \subseteq sent
      <4>1. CASE at[c] = "send"
        BY <2>2, <4>1, OthersHoldNothing
      <4> QED
        BY <4>1
    <3> QED
      BY <1>1, <3>1, <3>2, OnceCalls, CallStays DEF Quiet, OnlyCall
  <2> QED
    BY <2>1, <2>2
<1>8. Pooled' \subseteq asked' /\ sent' \subseteq asked' /\ Keyed'
  BY <1>2, OnceParts DEF Quiet, OnlyCall
<1>9. \A d \in Callers : HeldIn(task'[d]) \subseteq asked'
  BY <1>5, OnceParts DEF OnlyCall
<1> QED
  BY <1>6, <1>7, <1>8, <1>9, OnceWhole

\* What was sent has still left the pool after a step of the call c, unless c
\* was removing.
LEMMA SentStays ==
    ASSUME OnceInv, NEW c \in Callers, Quiet(c), OnlyCall(c),
           ~Cleaning(c), sent' = sent
    PROVE  SentLeavesPool'
<1>1. \A d \in Callers \ {c} : Cleaning(d)' = Cleaning(d)
  BY DEF OnlyCall, Cleaning
<1> QED
  BY <1>1, OnceParts DEF SentLeavesPool, Quiet, OnlyCall

\* On to the next entry, to the bundle's end, or out of the mutex.
LEMMA AdvanceOnce ==
    ASSUME BundlerInv, OnceInv, NEW c \in Callers, NEW t \in Task, Quiet(c),
           pc'[c] = "idle", Advance(c, t), UNCHANGED history,
           at[c] \notin {"idle", "lock", "send"}, ~Cleaning(c),
           HeldIn(t) \subseteq HeldIn(task[c]) \cup Pooled
    PROVE  OnceInv'
<1>1. TypeOK
  BY DEF BundlerInv
<1>2. OnlyCall(c) /\ sent' = sent /\ stuck' = stuck
  BY <1>1 DEF Advance, Goto, Leave, TypeOK, history, OnlyCall
<1>3. SentLeavesPool'
  BY <1>2, SentStays
<1>4. HeldIn(t) \cap sent \subseteq stuck
  <2>1. ASSUME NEW op \in Pooled, op \in sent, op \notin stuck
        PROVE  FALSE
    BY <2>1, OthersHoldNothing, OnceParts DEF SentLeavesPool
  <2> QED
    BY <2>1, OnceCalls DEF CallInv
<1>5. \/ at'[c] \in {"paymaster", "send"} /\ task'[c] = t
      \/ at'[c] = "idle" /\ task'[c] = NoTask
  BY <1>1 DEF Advance, Goto, Leave, TypeOK
<1>6. HeldIn(task'[c]) \subseteq HeldIn(t)
  BY <1>5, NothingHeld
<1>7. CallInv(c)'
  <2>1. pc'[c] \in PoolPlaces(c)'
    BY <1>5 DEF PoolPlaces
  <2>2. ~Cleaning(c)'
    BY <1>5 DEF Cleaning
  <2> QED
    BY <1>2, <1>4, <1>5, <1>6, <2>1, <2>2 DEF CallInv
<1> QED
  BY <1>2, <1>3, <1>6, <1>7, CallerOnce

\* What the steps of the pool that a call asks for do to the pool.
LEMMA CallerPool ==
    ASSUME PoolHolds, Keyed, NEW c \in Proc
    PROVE  /\ pool' = pool => Quiet(c) /\ pc'[c] = pc[c] /\ arg'[c] = arg[c]
           /\ Mempool!BeginDump(c) => Quiet(c) /\ pc'[c] = "dpKeys"
           /\ Mempool!DumpKeys(c) =>
                 Quiet(c) /\ pc[c] = "dpKeys" /\ pc'[c] = "dpMany"
           /\ Mempool!DumpMany(c) => Quiet(c) /\ pc'[c] = "idle"
           /\ \A op : Mempool!BeginRemove(c, op) =>
                 Quiet(c) /\ pc'[c] = "rmKeys" /\ arg'[c] = op
           /\ Mempool!RemoveKeys(c) =>
                 /\ Quiet(c) /\ pc[c] = "rmKeys" /\ pc'[c] = "rmDel"
                 /\ arg'[c] = arg[c]
           /\ Mempool!RemoveDel(c) =>
                 /\ Quiet(c) /\ pc[c] = "rmDel" /\ pc'[c] = "rmPut"
                 /\ arg'[c] = arg[c] /\ arg[c] \notin Pooled'
           /\ Mempool!RemovePut(c) =>
                 Quiet(c) /\ pc[c] = "rmPut" /\ pc'[c] = "idle"
           /\ Mempool!WriteFails(c) => Quiet(c) /\ pc'[c] = "idle"
<1> USE DEF AddingPlaces, Quiet
<1>1. UNCHANGED store => Keyed' /\ Pooled' \subseteq Pooled
  BY DeletePools
<1>2. pool' = pool => Quiet(c) /\ pc'[c] = pc[c] /\ arg'[c] = arg[c]
  BY <1>1 DEF pool, OthersStay
<1>3. Mempool!BeginDump(c) => Quiet(c) /\ pc'[c] = "dpKeys"
  BY <1>1, BeginAdding DEF Mempool!BeginDump
<1>4. Mempool!DumpKeys(c) =>
        Quiet(c) /\ pc[c] = "dpKeys" /\ pc'[c] = "dpMany"
  BY <1>1, GotoAdding DEF Mempool!DumpKeys, Mempool!Database
<1>5. Mempool!DumpMany(c) => Quiet(c) /\ pc'[c] = "idle"
  BY <1>1, ReturnAdding DEF Mempool!DumpMany, Mempool!Database
<1>6. \A op : Mempool!BeginRemove(c, op) =>
        Quiet(c) /\ pc'[c] = "rmKeys" /\ arg'[c] = op
  BY <1>1, BeginAdding DEF Mempool!BeginRemove
<1>7. Mempool!RemoveKeys(c) =>
        /\ Quiet(c) /\ pc[c] = "rmKeys" /\ pc'[c] = "rmDel"
        /\ arg'[c] = arg[c]
  BY <1>1, GotoAdding DEF Mempool!RemoveKeys, Mempool!Database
<1>8. Mempool!RemoveDel(c) =>
        /\ Quiet(c) /\ pc[c] = "rmDel" /\ pc'[c] = "rmPut"
        /\ arg'[c] = arg[c] /\ arg[c] \notin Pooled'
  <2> SUFFICES ASSUME Mempool!RemoveDel(c)
               PROVE  /\ Quiet(c) /\ pc[c] = "rmDel" /\ pc'[c] = "rmPut"
                      /\ arg'[c] = arg[c] /\ arg[c] \notin Pooled'
    OBVIOUS
  <2>1. store' = [store EXCEPT ![Mempool!KeyOf(arg[c])] = None]
    BY DEF Mempool!RemoveDel
  <2>2. Quiet(c) /\ pc[c] = "rmDel" /\ pc'[c] = "rmPut" /\ arg'[c] = arg[c]
    BY <2>1, GotoAdding, DeletePools DEF Mempool!RemoveDel
  <2>3. ASSUME NEW k \in Mempool!Keys, store'[k] # None
        PROVE  store'[k] # arg[c]
    <3>1. store'[k] = store[k] /\ k # Mempool!KeyOf(arg[c])
      BY <2>1, <2>3 DEF PoolHolds, StoreTypes
    <3> QED
      BY <2>3, <3>1 DEF Keyed
  <2> QED
    BY <2>2, <2>3 DEF Pooled
<1>9. Mempool!RemovePut(c) =>
        Quiet(c) /\ pc[c] = "rmPut" /\ pc'[c] = "idle"
  BY <1>1, ReturnAdding DEF Mempool!RemovePut
<1>10. Mempool!WriteFails(c) => Quiet(c) /\ pc'[c] = "idle"
  BY <1>1, ReturnAdding DEF Mempool!WriteFails, Mempool!Database
<1> QED
  BY <1>2, <1>3, <1>4, <1>5, <1>6, <1>7, <1>8, <1>9, <1>10

\* A dump shows operations of the pool.
LEMMA DumpShows ==
    ASSUME PoolHolds, NEW c \in Callers, Mempool!DumpMany(c),
           NEW s \in Sorted(shown'[c])
    PROVE  ToSet(s) \subseteq Pooled
<1>1. PICK found \in Mempool!FetchAll(keys[c]) :
        shown'[c] = {store[k] : k \in {j \in Mempool!Keys : found[j] > 0}}
  BY BundlerAssumption DEF Mempool!DumpMany, PoolHolds
<1>2. \A k \in Mempool!Keys : found[k] > 0 => store[k] # None
  <2>1. CASE found = Mempool!NoKeys
    BY <2>1 DEF Mempool!NoKeys
  <2>2. CASE found = keys[c] /\ ~Mempool!GetManyFails(keys[c])
    BY <2>2 DEF Mempool!GetManyFails
  <2> QED
    BY <1>1, <2>1, <2>2 DEF Mempool!FetchAll
<1>3. shown'[c] \subseteq Pooled
  BY <1>1, <1>2 DEF Pooled
<1>4. s \in [1 .. Cardinality(shown'[c]) -> shown'[c]]
  BY DEF Sorted, SetToSeqs
<1> QED
  BY <1>3, <1>4 DEF ToSet

\* A call that goes on with the same locals, or none, to a place that is no
\* removal, holds nothing new.
LEMMA GotoOnce ==
    ASSUME BundlerInv, OnceInv, NEW c \in Callers, NEW to, NEW t, Quiet(c),
           Goto(c, to, t), UNCHANGED history, ~Cleaning(c),
           to \notin {"clean", "cleaning"},
           pc'[c] \in PoolPlaces(c)',
           HeldIn(t) \subseteq HeldIn(task[c]),
           to \in {"idle", "lock", "dump"} => t = NoTask
    PROVE  OnceInv'
<1>1. /\ OnlyCall(c) /\ sent' = sent /\ stuck' = stuck
      /\ at'[c] = to /\ task'[c] = t
  BY DEF BundlerInv, TypeOK, Goto, history, OnlyCall
<1>2. SentLeavesPool'
  BY <1>1, SentStays
<1>3. CallInv(c)'
  <2>1. ~Cleaning(c)'
    BY <1>1 DEF Cleaning
  <2> QED
    BY <1>1, <2>1, OnceCalls DEF CallInv
<1> QED
  BY <1>1, <1>2, <1>3, CallerOnce

\* A call that ends holds nothing.
LEMMA LeaveOnce ==
    ASSUME BundlerInv, OnceInv, NEW c \in Callers, Quiet(c), pc'[c] = "idle",
           Leave(c), asked' = asked, sent' = sent, stuck \subseteq stuck',
           SentLeavesPool'
    PROVE  OnceInv'
<1>1. OnlyCall(c) /\ at'[c] = "idle" /\ task'[c] = NoTask
  BY DEF BundlerInv, TypeOK, Leave, OnlyCall
<1>2. CallInv(c)'
  BY <1>1, NothingHeld DEF CallInv, PoolPlaces, Cleaning
<1> QED
  BY <1>1, <1>2, NothingHeld, CallerOnce

\* A call judges an entry: it skips it, drops it, includes it, or goes on to
\* the next question.
LEMMA JudgeOnce ==
    ASSUME BundlerInv, OnceInv, NEW c \in Callers,
           PaymasterStatus(c) \/ FactoryStatus(c) \/ Validate(c) \/ Deposit(c)
    PROVE  OnceInv'
<1> DEFINE t == task[c]
<1>1. c \in Proc /\ PoolHolds /\ TypeOK /\ Keyed
  BY BundlerAssumption, OnceParts DEF BundlerInv
<1>2. at[c] \in {"paymaster", "factory", "validate", "deposit"}
  BY DEF PaymasterStatus, FactoryStatus, Validate, Deposit
<1>3. /\ t \in Task /\ t.todo # <<>> /\ ~Cleaning(c) /\ pc[c] = "idle"
      /\ Entry(c) = Head(t.todo)
  BY <1>1, <1>2, OnceCalls DEF TypeOK, Cleaning, CallInv, PoolPlaces, Entry
<1>4. pool' = pool => Quiet(c) /\ pc'[c] = "idle"
  BY <1>1, <1>3, CallerPool
<1>5. RestOf(t) \in Task /\ HeldIn(RestOf(t)) \subseteq HeldIn(t)
  BY <1>3, TaskRest, HeldShrinks
<1>6. CASE Skip(c)
  <2>1. pool' = pool /\ Advance(c, RestOf(t)) /\ UNCHANGED history
    BY <1>6 DEF Skip, pool
  <2> QED
    BY <1>2, <1>3, <1>4, <1>5, <2>1, AdvanceOnce
<1>7. CASE Drop(c)
  <2>1. Quiet(c) /\ pc'[c] = "rmKeys"
    BY <1>1, <1>7, CallerPool DEF Drop
  <2>2. Goto(c, "drop", t) /\ UNCHANGED history
    BY <1>7 DEF Drop
  <2>3. at'[c] = "drop"
    BY <1>1, <2>2 DEF Goto, TypeOK
  <2>4. pc'[c] \in PoolPlaces(c)'
    BY <2>1, <2>3 DEF PoolPlaces
  <2> QED
    BY <1>3, <2>1, <2>2, <2>4, GotoOnce
<1>8. ASSUME NEW to \in {"factory", "validate", "deposit"},
             Goto(c, to, t), UNCHANGED <<pool, history>>
      PROVE  OnceInv'
  <2>1. at'[c] = to
    BY <1>1, <1>8 DEF Goto, TypeOK
  <2>2. pc'[c] \in PoolPlaces(c)'
    BY <1>4, <1>8, <2>1 DEF PoolPlaces
  <2> QED
    BY <1>3, <1>4, <1>8, <2>2, GotoOnce
<1>9. ASSUME NEW u \in Task, Advance(c, u), UNCHANGED <<pool, history>>,
             HeldIn(u) \subseteq HeldIn(t)
      PROVE  OnceInv'
  BY <1>2, <1>3, <1>4, <1>9, AdvanceOnce
<1>10. Entry(c) \in UserOps /\ Entry(c).sender \in Senders
  BY <1>3, TaskRest, PoolAssumption
<1>11. CASE PaymasterStatus(c)
  BY <1>6, <1>7, <1>8, <1>11 DEF PaymasterStatus, EntityStops
<1>12. CASE FactoryStatus(c)
  BY <1>6, <1>7, <1>8, <1>12 DEF FactoryStatus, EntityStops
<1>13. CASE Validate(c)
  <2>1. CASE Paymaster[Entry(c)] = None /\ Advance(c, Included(t, Entry(c)))
               /\ UNCHANGED <<pool, history>>
    <3>1. Included(t, Entry(c)) \in Task
      BY <1>3, <1>10, <2>1, TaskIncluded
    <3> QED
      BY <1>3, <1>9, <2>1, <3>1, HeldShrinks
  <2> QED
    BY <1>7, <1>8, <1>13, <2>1 DEF Validate
<1>14. CASE Deposit(c)
  <2> DEFINE e == Paymaster[Entry(c)]
             known(d) == IF t.left[e] = None
                         THEN [t EXCEPT !.read[e] = d, !.left[e] = d]
                         ELSE t
  <2>1. e \in Entities
    <3>1. e # None
      BY <1>1, <1>14 DEF Deposit, TypeOK
    <3> QED
      BY <1>10, <3>1, BundlerAssumption
  <2>2. PICK d \in IF t.left[e] = None THEN Deposits ELSE {t.left[e]} :
          \/ d < Prefund[Entry(c)] /\ Advance(c, RestOf(known(d)))
          \/ /\ d >= Prefund[Entry(c)]
             /\ Advance(c, Included(known(d), Entry(c)))
    BY <1>14 DEF Deposit
  <2>3. d \in Nat
    BY <1>3, <2>1, <2>2, BundlerAssumption DEF Task
  <2>4. /\ known(d) \in Task
        /\ known(d).todo = t.todo /\ known(d).bundle = t.bundle
        /\ known(d).left[e] = d
    <3>1. CASE t.left[e] = None
      <4>1. /\ [t.read EXCEPT ![e] = d] \in [Entities -> Nat \cup {None}]
            /\ [t.left EXCEPT ![e] = d] \in [Entities -> Nat \cup {None}]
            /\ [t.left EXCEPT ![e] = d][e] = d
        BY <1>3, <2>1, <2>3 DEF Task
      <4>2. known(d) = [t EXCEPT !.read = [t.read EXCEPT ![e] = d],
                                 !.left = [t.left EXCEPT ![e] = d]]
        BY <1>3, <3>1 DEF Task
      <4> HIDE DEF known
      <4> QED
        BY <1>3, <4>1, <4>2 DEF Task
    <3>2. CASE t.left[e] # None
      BY <1>3, <2>2, <3>2
    <3> QED
      BY <3>1, <3>2
  <2> HIDE DEF known
  <2>5. HeldIn(known(d)) = HeldIn(t) /\ Head(known(d).todo) = Entry(c)
    BY <1>3, <2>4 DEF HeldIn
  <2>6. UNCHANGED <<pool, history>>
    BY <1>14 DEF Deposit
  <2>7. CASE Advance(c, RestOf(known(d)))
    <3>1. /\ RestOf(known(d)) \in Task
          /\ HeldIn(RestOf(known(d))) \subseteq HeldIn(known(d))
      BY <1>3, <2>4, TaskRest, HeldShrinks
    <3> QED
      BY <1>9, <2>5, <2>6, <2>7, <3>1
  <2>8. CASE /\ d >= Prefund[Entry(c)]
             /\ Advance(c, Included(known(d), Entry(c)))
    <3>1. Included(known(d), Entry(c)) \in Task
      BY <1>3, <1>10, <2>3, <2>4, <2>8, TaskIncluded
    <3>2. HeldIn(Included(known(d), Entry(c))) \subseteq HeldIn(known(d))
      BY <1>3, <2>4, <2>5, HeldShrinks
    <3> QED
      BY <1>9, <2>5, <2>6, <2>8, <3>1, <3>2
  <2> QED
    BY <2>2, <2>7, <2>8
<1> QED
  BY <1>11, <1>12, <1>13, <1>14

\* A call takes up the dump, and ends or goes on after a removal while it
\* builds.
LEMMA DumpedOnce ==
    ASSUME BundlerInv, OnceInv, NEW c \in Callers, Dumped(c) \/ Dropped(c)
    PROVE  OnceInv'
<1>1. c \in Proc /\ PoolHolds /\ TypeOK /\ Keyed /\ task[c] \in Task
  BY BundlerAssumption, OnceParts DEF BundlerInv, TypeOK
<1>2. CASE Dumped(c)
  <2>1. PICK s \in Sorted(shown'[c]) : Advance(c, [task[c] EXCEPT !.todo = s])
    BY <1>2 DEF Dumped
  <2>2. s \in Seq(UserOps) /\ ToSet(s) \subseteq Pooled
    BY <1>1, <1>2, DumpSorted, DumpShows DEF Dumped
  <2> DEFINE t == [task[c] EXCEPT !.todo = s]
  <2>3. t \in Task /\ t.todo = s /\ t.bundle = <<>>
    <3>1. task[c].bundle = <<>>
      BY <1>2, OnceCalls DEF CallInv, Dumped, NoTask
    <3> QED
      BY <1>1, <2>2, <3>1 DEF Task
  <2>4. HeldIn(t) \subseteq Pooled
    BY <2>2, <2>3, ToSetEmpty DEF HeldIn
  <2>5. Quiet(c) /\ pc'[c] = "idle" /\ UNCHANGED history
    BY <1>1, <1>2, CallerPool DEF Dumped
  <2>6. at[c] = "dump" /\ ~Cleaning(c)
    BY <1>2 DEF Dumped, Cleaning
  <2> HIDE DEF t
  <2>7. Advance(c, t)
    BY <2>1 DEF t
  <2> QED
    BY <2>3, <2>4, <2>5, <2>6, <2>7, AdvanceOnce
<1>3. CASE Dropped(c)
  <2>1. task[c].todo # <<>> /\ at[c] = "drop" /\ ~Cleaning(c)
    BY <1>1, <1>3 DEF Dropped, TypeOK, Cleaning
  <2>2. RestOf(task[c]) \in Task /\ HeldIn(RestOf(task[c])) \subseteq HeldIn(task[c])
    BY <1>1, <2>1, TaskRest, HeldShrinks
  <2>3. Quiet(c) /\ pc'[c] = "idle" /\ UNCHANGED history
    BY <1>1, <1>3, CallerPool DEF Dropped
  <2> QED
    BY <1>3, <2>1, <2>2, <2>3, AdvanceOnce DEF Dropped
<1> QED
  BY <1>2, <1>3

\* A call sends its bundle and removes the operations of it.
LEMMA SendOnce ==
    ASSUME BundlerInv, OnceInv, NEW c \in Callers,
           \/ Send(c) \/ SendFails(c) \/ AskFails(c) \/ Clean(c) \/ Cleaned(c)
           \/ Hashes(c)
           \/ RemoveFails(c)
    PROVE  OnceInv'
<1>1. c \in Proc /\ PoolHolds /\ TypeOK /\ Keyed /\ task[c] \in Task /\ CallInv(c)
  BY BundlerAssumption, OnceParts, OnceCalls DEF BundlerInv, TypeOK
<1>2. SentLeavesPool
  BY OnceParts
<1>3. OnlyCall(c) => \A d \in Callers \ {c} : Cleaning(d)' = Cleaning(d)
  BY DEF OnlyCall, Cleaning
<1>4. CASE Send(c)
  <2> DEFINE t == [task[c] EXCEPT !.todo = task[c].bundle]
  <2>1. Quiet(c) /\ pc'[c] = "idle"
    BY <1>1, <1>4, CallerPool DEF Send, pool, CallInv, PoolPlaces
  <2>2. /\ OnlyCall(c) /\ sent' = sent \cup ToSet(task[c].bundle)
        /\ at[c] = "send" /\ at'[c] = "clean" /\ task'[c] = t
    BY <1>1, <1>4 DEF Send, Goto, TypeOK, OnlyCall
  <2>3. /\ t.todo = task[c].bundle /\ HeldIn(t) = ToSet(task[c].bundle)
        /\ HeldIn(t) \subseteq HeldIn(task[c])
    BY <1>1 DEF Task, HeldIn
  <2>4. SentLeavesPool'
    <3>1. Cleaning(c)' /\ ~Cleaning(c)
      BY <2>2 DEF Cleaning
    <3> QED
      BY <1>2, <1>3, <2>1, <2>2, <2>3, <3>1
      DEF SentLeavesPool, Quiet, OnlyCall
  <2>5. CallInv(c)'
    BY <2>1, <2>2 DEF CallInv, PoolPlaces, Cleaning
  <2> QED
    BY <2>1, <2>2, <2>3, <2>4, <2>5, CallerOnce
<1>5. CASE SendFails(c) \/ AskFails(c)
  <2>1. Quiet(c) /\ pc'[c] = "idle" /\ ~Cleaning(c)
    BY <1>1, <1>5, CallerPool DEF SendFails, AskFails, pool, CallInv, PoolPlaces, Cleaning
  <2>2. Leave(c) /\ UNCHANGED history /\ OnlyCall(c)
    BY <1>1, <1>5 DEF SendFails, AskFails, Leave, TypeOK, OnlyCall, history
  <2> QED
    BY <2>1, <2>2, SentStays, LeaveOnce DEF history
<1>6. CASE Clean(c)
  <2>1. Quiet(c) /\ pc'[c] = "rmKeys" /\ arg'[c] = Entry(c)
    BY <1>1, <1>6, CallerPool DEF Clean
  <2>2. /\ OnlyCall(c) /\ sent' = sent
        /\ at[c] = "clean" /\ at'[c] = "cleaning" /\ task'[c] = task[c]
    BY <1>1, <1>6 DEF Clean, Goto, TypeOK, OnlyCall, history
  <2>3. SentLeavesPool'
    <3>1. Cleaning(c)'
      BY <2>2 DEF Cleaning
    <3> QED
      BY <1>2, <1>3, <2>1, <2>2, <3>1 DEF SentLeavesPool, Quiet, OnlyCall
  <2>4. CallInv(c)'
    BY <2>1, <2>2 DEF CallInv, PoolPlaces, Cleaning, Entry
  <2> QED
    BY <2>1, <2>2, <2>3, <2>4, CallerOnce
<1>7. CASE Cleaned(c)
  <2>1. Quiet(c) /\ pc[c] = "rmPut" /\ pc'[c] = "idle"
    BY <1>1, <1>7, CallerPool DEF Cleaned
  <2>2. /\ OnlyCall(c) /\ sent' = sent
        /\ at[c] = "cleaning" /\ at'[c] = "clean" /\ task'[c] = RestOf(task[c])
    BY <1>1, <1>7 DEF Cleaned, Goto, TypeOK, OnlyCall, history
  <2>3. task[c].todo # <<>> /\ task[c].todo \in Seq(UserOps)
    BY <1>1, <2>2 DEF TypeOK, Task
  <2>4. HeldIn(task'[c]) \subseteq HeldIn(task[c])
    BY <1>1, <2>2, <2>3, HeldShrinks
  <2>5. ToSet(task[c].todo) \subseteq ToSet(task'[c].todo) \cup {Entry(c)}
    <3>1. task'[c].todo = Tail(task[c].todo)
      BY <1>1, <2>2 DEF RestOf, Task
    <3> QED
      BY <2>3, <3>1, ToSetTail DEF Entry
  <2>6. Entry(c) \notin Pooled
    BY <1>1, <2>1, <2>2 DEF CallInv
  <2>7. SentLeavesPool'
    <3>1. Cleaning(c)'
      BY <2>2 DEF Cleaning
    <3> QED
      BY <1>2, <1>3, <2>1, <2>2, <2>5, <2>6, <3>1
      DEF SentLeavesPool, Quiet, OnlyCall
  <2>8. CallInv(c)'
    BY <2>1, <2>2 DEF CallInv, PoolPlaces, Cleaning
  <2> QED
    BY <2>1, <2>2, <2>4, <2>7, <2>8, CallerOnce
<1>8. CASE Hashes(c)
  <2>1. Quiet(c) /\ pc'[c] = "idle"
    BY <1>1, <1>8, CallerPool DEF Hashes, pool, CallInv, PoolPlaces
  <2>2. Leave(c) /\ UNCHANGED history /\ OnlyCall(c) /\ ToSet(task[c].todo) = {}
    BY <1>1, <1>8, ToSetEmpty DEF Hashes, Leave, TypeOK, OnlyCall, history
  <2>3. SentLeavesPool'
    BY <1>2, <1>3, <2>1, <2>2 DEF SentLeavesPool, Quiet, OnlyCall, history
  <2> QED
    BY <2>1, <2>2, <2>3, LeaveOnce DEF history
<1>9. CASE RemoveFails(c)
  <2>1. Quiet(c) /\ pc'[c] = "idle"
    BY <1>1, <1>9, CallerPool DEF RemoveFails
  <2>2. /\ Leave(c) /\ asked' = asked /\ sent' = sent /\ OnlyCall(c)
        /\ Cleaning(c) => stuck' = stuck \cup ToSet(task[c].todo)
    BY <1>1, <1>9 DEF RemoveFails, Leave, TypeOK, OnlyCall, Cleaning
  <2>3. SentLeavesPool'
    BY <1>2, <1>3, <2>1, <2>2 DEF SentLeavesPool, Quiet, OnlyCall
  <2> QED
    BY <2>1, <2>2, <2>3, LeaveOnce DEF OnlyCall
<1> QED
  BY <1>4, <1>5, <1>6, <1>7, <1>8, <1>9

\* A call takes any of its steps.
LEMMA CallOnce ==
    ASSUME BundlerInv, OnceInv, NEW c \in Callers,
           Call(c) \/ BundlerStep(c) \/ RemoveFails(c)
    PROVE  OnceInv'
<1>1. c \in Proc /\ PoolHolds /\ TypeOK /\ Keyed /\ CallInv(c)
  BY BundlerAssumption, OnceParts, OnceCalls DEF BundlerInv
<1>2. CASE Call(c)
  <2>1. Quiet(c) /\ pc'[c] = "idle"
    BY <1>1, <1>2, CallerPool DEF Call, pool, CallInv, PoolPlaces
  <2>2. /\ OnlyCall(c) /\ sent' = sent /\ at[c] = "idle" /\ at'[c] = "lock"
        /\ task'[c] = NoTask
    BY <1>1, <1>2 DEF Call, TypeOK, OnlyCall, history, CallInv
  <2>3. SentLeavesPool' /\ CallInv(c)'
    BY <2>1, <2>2, SentStays, NothingHeld
    DEF CallInv, PoolPlaces, Cleaning
  <2> QED
    BY <2>1, <2>2, <2>3, NothingHeld, CallerOnce
<1>3. CASE Enter(c)
  <2>1. Quiet(c) /\ pc'[c] = "dpKeys" /\ ~Cleaning(c)
    BY <1>1, <1>3, CallerPool DEF Enter, Cleaning
  <2>2. Goto(c, "dump", NoTask) /\ UNCHANGED history /\ at'[c] = "dump"
    BY <1>1, <1>3 DEF Enter, Goto, TypeOK
  <2>3. pc'[c] \in PoolPlaces(c)'
    BY <2>1, <2>2 DEF PoolPlaces
  <2> QED
    BY <2>1, <2>2, <2>3, NothingHeld, GotoOnce
<1>4. CASE PoolStep(c)
  <2>1. /\ OnlyCall(c) /\ sent' = sent /\ at' = at /\ task' = task
        /\ stuck' = stuck
    BY <1>4 DEF PoolStep, OnlyCall, history
  <2>2. Quiet(c)
    BY <1>1, <1>4, CallerPool DEF PoolStep
  <2>3. SentLeavesPool'
    <3>1. \A d \in Callers : Cleaning(d)' = Cleaning(d)
      BY <2>1 DEF Cleaning
    <3> QED
      BY <2>1, <2>2, <3>1, OnceParts DEF SentLeavesPool, Quiet
  <2>4. PoolPlaces(c)' = PoolPlaces(c) /\ Entry(c)' = Entry(c)
        /\ Cleaning(c)' = Cleaning(c)
    BY <2>1 DEF PoolPlaces, Entry, Cleaning
  <2>5. CASE Mempool!DumpKeys(c)
    <3>1. pc[c] = "dpKeys" /\ pc'[c] = "dpMany" /\ at[c] = "dump"
      BY <1>1, <2>5, CallerPool DEF CallInv, PoolPlaces
    <3>2. CallInv(c)'
      BY <1>1, <2>1, <2>4, <3>1 DEF CallInv, PoolPlaces
    <3> QED
      BY <2>1, <2>2, <2>3, <3>2, CallerOnce
  <2>6. CASE Mempool!RemoveKeys(c) \/ Mempool!RemoveDel(c)
    <3>1. /\ pc[c] \in {"rmKeys", "rmDel"} /\ pc'[c] \in {"rmDel", "rmPut"}
          /\ arg'[c] = arg[c]
          /\ pc'[c] = "rmPut" => arg[c] \notin Pooled'
      BY <1>1, <2>6, CallerPool
    <3>2. at[c] \in {"drop", "cleaning"}
      BY <1>1, <3>1 DEF CallInv, PoolPlaces
    <3>3. CallInv(c)'
      BY <1>1, <2>1, <2>4, <3>1, <3>2 DEF CallInv, PoolPlaces
    <3> QED
      BY <2>1, <2>2, <2>3, <3>3, CallerOnce
  <2> QED
    BY <1>4, <2>5, <2>6 DEF PoolStep
<1> QED
  BY <1>2, <1>3, <1>4, JudgeOnce, DumpedOnce, SendOnce DEF BundlerStep

-----------------------------------------------------------------------------
(***************************************************************************)
(* The theorems.                                                           *)
(***************************************************************************)
LEMMA OnceInit == Init => OnceInv
<1> SUFFICES ASSUME Init PROVE OnceInv
  OBVIOUS
<1>1. /\ Pooled = {} /\ Keyed /\ sent = {}
  BY DEF Init, Mempool!Init, Pooled, Keyed
<1>2. \A p \in Proc : pc[p] = "idle"
  BY DEF Init, Mempool!Init
<1>3. \A c \in Callers : at[c] = "idle" /\ task[c] = NoTask
  BY DEF Init
<1>4. \A c \in Callers : Held(c) = {}
  BY <1>3, HeldByTask, NothingHeld
<1> QED
  BY <1>1, <1>2, <1>3, <1>4, BundlerAssumption
  DEF OnceInv, SentLeavesPool, Keyed, Adding, PoolPlaces, Cleaning

LEMMA OnceStep == BundlerInv /\ OnceInv /\ [Next]_vars => OnceInv'
<1> SUFFICES ASSUME BundlerInv, OnceInv, [Next]_vars PROVE OnceInv'
  OBVIOUS
<1>0. TypeOK
  BY DEF BundlerInv
<1>1. CASE UNCHANGED vars
  BY <1>0, <1>1, StillOnce DEF vars, pool, history
<1>2. ASSUME NEW c \in Callers, Call(c) \/ BundlerStep(c) \/ RemoveFails(c)
      PROVE  OnceInv'
  BY <1>2, CallOnce
<1>3. ASSUME NEW p \in Clients,
             (\E op \in UserOps : Submit(p, op)) \/ ClientStep(p) \/ ClientFails(p)
      PROVE  OnceInv'
  BY <1>3, ClientOnce, SubmitOnce
<1>4. CASE (\E m \in {"auto", "manual"} : SetBundlingMode(m)) \/ SetBundlingInterval
  BY <1>0, <1>4, StillOnce
  DEF SetBundlingMode, SetBundlingInterval, pool, history
<1>5. CASE Tick \/ TryBundle
  <2>1. \A c \in Callers : at'[c] = at[c]
    BY <1>0, <1>5, BundlerAssumption DEF Tick, TryBundle, TypeOK
  <2> QED
    BY <1>0, <1>5, <2>1, StillOnce DEF Tick, TryBundle, pool, history
<1> QED
  BY <1>1, <1>2, <1>3, <1>4, <1>5 DEF Next

\* OnceInv is an invariant of the bundler with any number of calls, clients
\* and operations, whatever the other services answer and whichever writes
\* fail.
THEOREM OnceHolds == Spec => []OnceInv
BY OnceInit, OnceStep, BundlerInit, BundlerInvStep, PTL DEF Spec

\* An operation that was sent is out of the pool once no call removes it, and
\* no addition in flight brings it back.
THEOREM SentOnesLeave == Spec => []SentLeavesPool
<1>1. OnceInv => SentLeavesPool
  BY DEF OnceInv
<1> QED
  BY <1>1, OnceHolds, PTL

\* A bundle that is sent holds no operation that was sent before, unless the
\* write of its removal failed: at the place where a bundle is sent no call is
\* removing, and what the call holds has not been sent.
THEOREM SentOnce == Spec => NeverSentTwice
<1>1. BundlerInv /\ OnceInv /\ [Next]_vars =>
        [\A c \in Callers :
            at[c] = "send" /\ at'[c] = "clean" =>
                ToSet(task[c].bundle) \cap sent \subseteq stuck]_vars
  <2> SUFFICES ASSUME OnceInv, NEW c \in Callers, at[c] = "send"
               PROVE  ToSet(task[c].bundle) \cap sent \subseteq stuck
    OBVIOUS
  <2>1. HeldIn(task[c]) \cap sent \subseteq stuck
    BY OnceCalls DEF CallInv, Cleaning
  <2> QED
    BY <2>1 DEF HeldIn
<1> QED
  BY <1>1, OnceInit, OnceStep, BundlerInit, BundlerInvStep, PTL
  DEF Spec, NeverSentTwice

-----------------------------------------------------------------------------
(***************************************************************************)
(* The bundler implements the abstract one.  First, what is known where a  *)
(* bundle is sent and removed.                                             *)
(***************************************************************************)
\* A call that sends has judged all its entries and has a bundle; one that
\* removes has sent what it removes; what it read are deposits.
Ready(c) ==
    LET t == task[c] IN
    /\ at[c] = "send" => t.todo = <<>> /\ t.bundle # <<>>
    /\ Cleaning(c) => /\ ToSet(t.todo) \subseteq ToSet(t.bundle)
                      /\ ToSet(t.bundle) \subseteq sent
    /\ \A e \in Entities : t.read[e] \in Deposits \cup {None}

SendInv == \A c \in Callers : Ready(c)

\* The kinds of steps of a call: it is before its bundle is sent,
Builds(c) ==
    /\ ~Cleaning(c) /\ ~Cleaning(c)' /\ UNCHANGED <<sent, stuck>>
    /\ HeldIn(task'[c]) \subseteq HeldIn(task[c]) \cup Pooled
    /\ Ready(c)'

\* sends it,
Sends(c) ==
    /\ at[c] = "send" /\ at'[c] = "clean" /\ UNCHANGED <<pool, stuck>>
    /\ task'[c] = [task[c] EXCEPT !.todo = task[c].bundle]
    /\ sent' = sent \cup ToSet(task[c].bundle)

\* removes one operation after the other,
Rids(c) ==
    /\ Cleaning(c) /\ Cleaning(c)' /\ UNCHANGED <<sent, stuck>>
    /\ \/ task'[c] = task[c]
       \/ task[c].todo # <<>> /\ task'[c] = RestOf(task[c])

\* and ends with the last, or with one whose removal failed.
Ends(c) ==
    /\ Cleaning(c) /\ at'[c] = "idle" /\ task'[c] = NoTask
    /\ UNCHANGED <<store, sent>>
    /\ stuck \subseteq stuck' /\ stuck' \subseteq stuck \cup ToSet(task[c].todo)

\* On to the next entry, to the bundle's end, or out of the mutex.
LEMMA AdvanceBuilds ==
    ASSUME TypeOK, NEW c \in Callers, NEW t \in Task, Advance(c, t), ~Cleaning(c),
           UNCHANGED history,
           HeldIn(t) \subseteq HeldIn(task[c]) \cup Pooled,
           \A e \in Entities : t.read[e] \in Deposits \cup {None}
    PROVE  Builds(c)
<1>1. \/ at'[c] = "paymaster" /\ task'[c] = t
      \/ at'[c] = "send" /\ task'[c] = t /\ t.todo = <<>> /\ t.bundle # <<>>
      \/ at'[c] = "idle" /\ task'[c] = NoTask
  BY DEF Advance, Goto, Leave, TypeOK
<1>2. \A e \in Entities : NoTask.read[e] \in Deposits \cup {None}
  BY DEF NoTask, Nothing
<1>3. ~Cleaning(c)' /\ HeldIn(task'[c]) \subseteq HeldIn(task[c]) \cup Pooled
  BY <1>1, NothingHeld DEF Cleaning
<1>4. Ready(c)'
  BY <1>1, <1>2, <1>3 DEF Ready
<1> QED
  BY <1>3, <1>4 DEF Builds, history

\* To a place where the bundle is neither sent nor removed, with the same
\* locals or none.
LEMMA GotoBuilds ==
    ASSUME TypeOK, SendInv, NEW c \in Callers, NEW to, NEW t \in {task[c], NoTask},
           ~Cleaning(c), to \notin {"send", "clean", "cleaning"},
           at'[c] = to, task'[c] = t, UNCHANGED history
    PROVE  Builds(c)
<1>1. \A e \in Entities : NoTask.read[e] \in Deposits \cup {None}
  BY DEF NoTask, Nothing
<1>2. \A e \in Entities : t.read[e] \in Deposits \cup {None}
  BY <1>1 DEF SendInv, Ready
<1>3. HeldIn(t) \subseteq HeldIn(task[c])
  BY NothingHeld
<1>4. ~Cleaning(c)'
  BY DEF Cleaning
<1>5. Ready(c)'
  BY <1>2, <1>4 DEF Ready
<1> QED
  BY <1>3, <1>4, <1>5 DEF Builds, history

\* An entry is judged.
LEMMA JudgeBuilds ==
    ASSUME BundlerInv, OnceInv, SendInv, NEW c \in Callers,
           PaymasterStatus(c) \/ FactoryStatus(c) \/ Validate(c) \/ Deposit(c)
    PROVE  Builds(c)
<1> DEFINE t == task[c]
<1>1. TypeOK /\ at[c] \in {"paymaster", "factory", "validate", "deposit"}
  BY DEF BundlerInv, PaymasterStatus, FactoryStatus, Validate, Deposit
<1>2. t \in Task /\ t.todo # <<>> /\ ~Cleaning(c) /\ Entry(c) = Head(t.todo)
  BY <1>1 DEF TypeOK, Cleaning, Entry
<1>3. \A e \in Entities : t.read[e] \in Deposits \cup {None}
  BY DEF SendInv, Ready
<1>4. Entry(c) \in UserOps /\ Entry(c).sender \in Senders
  BY <1>2, TaskRest, PoolAssumption
<1>5. CASE Skip(c)
  <2>1. RestOf(t) \in Task /\ HeldIn(RestOf(t)) \subseteq HeldIn(t)
    BY <1>2, TaskRest, HeldShrinks
  <2>2. RestOf(t).read = t.read
    BY <1>2 DEF RestOf, Task
  <2> QED
    BY <1>1, <1>2, <1>3, <1>5, <2>1, <2>2, AdvanceBuilds DEF Skip
<1>6. ASSUME NEW to \in {"drop", "factory", "validate", "deposit"},
             Goto(c, to, t), UNCHANGED history
      PROVE  Builds(c)
  <2>1. at'[c] = to /\ task'[c] = t
    BY <1>1, <1>6 DEF Goto, TypeOK
  <2> QED
    BY <1>1, <1>2, <1>6, <2>1, GotoBuilds
<1>7. CASE Drop(c)
  BY <1>6, <1>7 DEF Drop
<1>8. ASSUME NEW u \in Task, Advance(c, Included(u, Entry(c))), UNCHANGED history,
             u.todo = t.todo, u.bundle = t.bundle,
             \A e \in Entities : u.read[e] \in Deposits \cup {None},
             Paymaster[Entry(c)] # None =>
                 /\ u.left[Paymaster[Entry(c)]] \in Nat
                 /\ u.left[Paymaster[Entry(c)]] >= Prefund[Entry(c)]
      PROVE  Builds(c)
  <2>1. Included(u, Entry(c)) \in Task
    BY <1>2, <1>4, <1>8, TaskIncluded
  <2>2. HeldIn(Included(u, Entry(c))) \subseteq HeldIn(u) /\ HeldIn(u) = HeldIn(t)
    BY <1>2, <1>8, HeldShrinks DEF HeldIn
  <2>3. Included(u, Entry(c)).read = u.read
    BY <1>8 DEF Included, Task
  <2> QED
    BY <1>1, <1>2, <1>8, <2>1, <2>2, <2>3, AdvanceBuilds
<1>9. CASE PaymasterStatus(c)
  BY <1>5, <1>6, <1>7, <1>9 DEF PaymasterStatus, EntityStops
<1>10. CASE FactoryStatus(c)
  BY <1>5, <1>6, <1>7, <1>10 DEF FactoryStatus, EntityStops
<1>11. CASE Validate(c)
  BY <1>2, <1>3, <1>6, <1>7, <1>8, <1>11 DEF Validate
<1>12. CASE Deposit(c)
  <2> DEFINE e == Paymaster[Entry(c)]
             known(d) == IF t.left[e] = None
                         THEN [t EXCEPT !.read[e] = d, !.left[e] = d]
                         ELSE t
  <2>1. e \in Entities
    <3>1. e # None
      BY <1>1, <1>12 DEF Deposit, TypeOK
    <3> QED
      BY <1>4, <3>1, BundlerAssumption
  <2>2. PICK d \in IF t.left[e] = None THEN Deposits ELSE {t.left[e]} :
          \/ d < Prefund[Entry(c)] /\ Advance(c, RestOf(known(d)))
          \/ /\ d >= Prefund[Entry(c)]
             /\ Advance(c, Included(known(d), Entry(c)))
    BY <1>12 DEF Deposit
  <2>3. d \in Nat
    BY <1>2, <2>1, <2>2, BundlerAssumption DEF Task
  <2>4. /\ known(d) \in Task
        /\ known(d).todo = t.todo /\ known(d).bundle = t.bundle
        /\ known(d).left[e] = d
        /\ \A f \in Entities : known(d).read[f] \in Deposits \cup {None}
    <3>1. CASE t.left[e] = None
      <4>1. /\ [t.read EXCEPT ![e] = d] \in [Entities -> Nat \cup {None}]
            /\ [t.left EXCEPT ![e] = d] \in [Entities -> Nat \cup {None}]
            /\ [t.left EXCEPT ![e] = d][e] = d
            /\ \A f \in Entities : [t.read EXCEPT ![e] = d][f] \in Deposits \cup {None}
        BY <1>2, <1>3, <2>1, <2>2, <2>3, <3>1 DEF Task
      <4>2. known(d) = [t EXCEPT !.read = [t.read EXCEPT ![e] = d],
                                 !.left = [t.left EXCEPT ![e] = d]]
        BY <1>2, <3>1 DEF Task
      <4> HIDE DEF known
      <4> QED
        BY <1>2, <4>1, <4>2 DEF Task
    <3>2. CASE t.left[e] # None
      BY <1>2, <1>3, <2>2, <3>2
    <3> QED
      BY <3>1, <3>2
  <2> HIDE DEF known
  <2>5. UNCHANGED history
    BY <1>12 DEF Deposit
  <2>6. CASE Advance(c, RestOf(known(d)))
    <3>1. /\ RestOf(known(d)) \in Task
          /\ HeldIn(RestOf(known(d))) \subseteq HeldIn(known(d))
          /\ HeldIn(known(d)) = HeldIn(t)
      BY <1>2, <2>4, TaskRest, HeldShrinks DEF HeldIn
    <3>2. RestOf(known(d)).read = known(d).read
      BY <2>4 DEF RestOf, Task
    <3> QED
      BY <1>1, <1>2, <2>4, <2>5, <2>6, <3>1, <3>2, AdvanceBuilds
  <2>7. CASE /\ d >= Prefund[Entry(c)]
             /\ Advance(c, Included(known(d), Entry(c)))
    BY <1>8, <2>3, <2>4, <2>5, <2>7
  <2> QED
    BY <2>2, <2>6, <2>7
<1> QED
  BY <1>9, <1>10, <1>11, <1>12

\* Every step of a call is of one of the kinds, and pools nothing.
LEMMA CallSteps ==
    ASSUME BundlerInv, OnceInv, SendInv, NEW c \in Callers,
           Call(c) \/ BundlerStep(c) \/ RemoveFails(c)
    PROVE  /\ Quiet(c) /\ OnlyCall(c)
           /\ Builds(c) \/ Sends(c) \/ Rids(c) \/ Ends(c)
<1>1. /\ c \in Proc /\ PoolHolds /\ TypeOK /\ Keyed /\ task[c] \in Task
      /\ CallInv(c)
  BY BundlerAssumption, OnceParts, OnceCalls DEF BundlerInv, TypeOK
<1>2. Quiet(c)
  <2>1. pool' = pool => Quiet(c)
    BY <1>1, CallerPool
  <2> QED
    BY <1>1, <2>1, CallerPool
    DEF Call, BundlerStep, RemoveFails, Enter, Dumped, PaymasterStatus,
        FactoryStatus, Validate, Deposit, Dropped, Send, SendFails, AskFails, Clean,
        Cleaned, Hashes, PoolStep, EntityStops, Skip, Drop, pool
<1>3. OnlyCall(c)
  BY <1>1
  DEF Call, BundlerStep, RemoveFails, Enter, Dumped, PaymasterStatus,
      FactoryStatus, Validate, Deposit, Dropped, Send, SendFails, AskFails, Clean,
      Cleaned, Hashes, PoolStep, EntityStops, Skip, Drop, Advance, Goto, Leave,
      TypeOK, OnlyCall, history
<1>4. CASE Call(c)
  <2>1. at'[c] = "lock" /\ task'[c] = task[c] /\ ~Cleaning(c) /\ UNCHANGED history
    BY <1>1, <1>4 DEF Call, TypeOK, Cleaning
  <2> QED
    BY <1>1, <1>2, <1>3, <2>1, GotoBuilds
<1>5. CASE Enter(c)
  <2>1. at'[c] = "dump" /\ task'[c] = NoTask /\ ~Cleaning(c) /\ UNCHANGED history
    BY <1>1, <1>5 DEF Enter, Goto, TypeOK, Cleaning
  <2> QED
    BY <1>1, <1>2, <1>3, <2>1, GotoBuilds
<1>6. CASE Dumped(c)
  <2>1. PICK s \in Sorted(shown'[c]) : Advance(c, [task[c] EXCEPT !.todo = s])
    BY <1>6 DEF Dumped
  <2>2. s \in Seq(UserOps) /\ ToSet(s) \subseteq Pooled
    BY <1>1, <1>6, DumpSorted, DumpShows DEF Dumped
  <2> DEFINE t == [task[c] EXCEPT !.todo = s]
  <2>3. t \in Task /\ t.todo = s /\ t.bundle = <<>> /\ t.read = task[c].read
    <3>1. task[c].bundle = <<>>
      BY <1>1, <1>6 DEF CallInv, Dumped, NoTask
    <3> QED
      BY <1>1, <2>2, <3>1 DEF Task
  <2>4. HeldIn(t) \subseteq Pooled
    BY <2>2, <2>3, ToSetEmpty DEF HeldIn
  <2>5. UNCHANGED history /\ ~Cleaning(c)
    BY <1>6 DEF Dumped, Cleaning
  <2>6. \A e \in Entities : task[c].read[e] \in Deposits \cup {None}
    BY DEF SendInv, Ready
  <2> HIDE DEF t
  <2>7. Advance(c, t)
    BY <2>1 DEF t
  <2> QED
    BY <1>1, <1>2, <1>3, <2>3, <2>4, <2>5, <2>6, <2>7, AdvanceBuilds
<1>7. CASE Dropped(c)
  <2>1. task[c].todo # <<>> /\ ~Cleaning(c) /\ UNCHANGED history
    BY <1>1, <1>7 DEF Dropped, TypeOK, Cleaning
  <2>2. RestOf(task[c]) \in Task /\ HeldIn(RestOf(task[c])) \subseteq HeldIn(task[c])
    BY <1>1, <2>1, TaskRest, HeldShrinks
  <2>3. \A e \in Entities : RestOf(task[c]).read[e] \in Deposits \cup {None}
    BY <1>1 DEF SendInv, Ready, RestOf, Task
  <2> QED
    BY <1>1, <1>2, <1>3, <1>7, <2>1, <2>2, <2>3, AdvanceBuilds DEF Dropped
<1>8. CASE PaymasterStatus(c) \/ FactoryStatus(c) \/ Validate(c) \/ Deposit(c)
  BY <1>2, <1>3, <1>8, JudgeBuilds
<1>9. CASE Send(c)
  <2>1. Sends(c)
    BY <1>1, <1>9 DEF Send, Goto, TypeOK, Sends
  <2> QED
    BY <1>2, <1>3, <2>1
<1>10. CASE SendFails(c) \/ AskFails(c)
  <2>1. at'[c] = "idle" /\ task'[c] = NoTask /\ ~Cleaning(c) /\ UNCHANGED history
    BY <1>1, <1>10 DEF SendFails, AskFails, Leave, TypeOK, Cleaning
  <2> QED
    BY <1>1, <1>2, <1>3, <2>1, GotoBuilds
<1>11. CASE Clean(c)
  <2>1. Rids(c)
    BY <1>1, <1>11 DEF Clean, Goto, TypeOK, Cleaning, Rids, history
  <2> QED
    BY <1>2, <1>3, <2>1
<1>12. CASE Cleaned(c)
  <2>1. task[c].todo # <<>>
    BY <1>1, <1>12 DEF Cleaned, TypeOK
  <2>2. Rids(c)
    BY <1>1, <1>12, <2>1 DEF Cleaned, Goto, TypeOK, Cleaning, Rids, history
  <2> QED
    BY <1>2, <1>3, <2>2
<1>13. CASE Hashes(c)
  <2>1. Ends(c)
    BY <1>1, <1>13 DEF Hashes, Leave, TypeOK, Cleaning, Ends, history, pool
  <2> QED
    BY <1>2, <1>3, <2>1
<1>14. CASE RemoveFails(c)
  <2>1. Leave(c) /\ UNCHANGED <<asked, sent, store>>
    BY <1>14 DEF RemoveFails, Mempool!WriteFails, Mempool!Database
  <2>2. at'[c] = "idle" /\ task'[c] = NoTask
    BY <1>1, <2>1 DEF Leave, TypeOK
  <2>3. CASE at[c] = "drop"
    <3>1. UNCHANGED history /\ ~Cleaning(c)
      BY <1>14, <2>1, <2>3 DEF RemoveFails, Cleaning, history
    <3> QED
      BY <1>1, <1>2, <1>3, <2>2, <3>1, GotoBuilds
  <2>4. CASE at[c] = "cleaning"
    <3>1. Ends(c)
      BY <1>14, <2>1, <2>2, <2>4 DEF RemoveFails, Cleaning, Ends
    <3> QED
      BY <1>2, <1>3, <3>1
  <2> QED
    BY <1>14, <2>3, <2>4 DEF RemoveFails
<1>15. CASE PoolStep(c)
  <2>1. at' = at /\ task' = task /\ UNCHANGED history
    BY <1>15 DEF PoolStep
  <2>2. CASE Cleaning(c)
    BY <1>2, <1>3, <2>1, <2>2 DEF Rids, Cleaning, history
  <2>3. CASE ~Cleaning(c)
    <3>1. Builds(c)
      BY <2>1, <2>3 DEF Builds, Cleaning, SendInv, Ready, history
    <3> QED
      BY <1>2, <1>3, <3>1
  <2> QED
    BY <2>2, <2>3
<1> QED
  BY <1>4, <1>5, <1>6, <1>7, <1>8, <1>9, <1>10, <1>11, <1>12, <1>13, <1>14, <1>15
  DEF BundlerStep

LEMMA SendInvInit == Init => SendInv
BY DEF Init, SendInv, Ready, Cleaning, NoTask, Nothing

\* What Ready says of the call that takes a step, after it.
LEMMA ReadyKept ==
    ASSUME TypeOK, SendInv, NEW c \in Callers,
           Builds(c) \/ Sends(c) \/ Rids(c) \/ Ends(c)
    PROVE  Ready(c)' /\ sent \subseteq sent'
<1>1. Ready(c) /\ task[c] \in Task
  BY DEF SendInv, TypeOK
<1>2. CASE Builds(c)
  BY <1>2 DEF Builds
<1>3. CASE Sends(c)
  <2>1. /\ task'[c].todo = task[c].bundle /\ task'[c].bundle = task[c].bundle
        /\ task'[c].read = task[c].read
    BY <1>1, <1>3 DEF Sends, Task
  <2> QED
    BY <1>1, <1>3, <2>1 DEF Sends, Ready, Cleaning
<1>4. CASE Rids(c)
  <2>1. /\ task'[c].bundle = task[c].bundle /\ task'[c].read = task[c].read
        /\ ToSet(task'[c].todo) \subseteq ToSet(task[c].todo)
    BY <1>1, <1>4, ToSetTail DEF Rids, RestOf, Task
  <2> QED
    BY <1>1, <1>4, <2>1 DEF Rids, Ready, Cleaning
<1>5. CASE Ends(c)
  BY <1>1, <1>5 DEF Ends, Ready, Cleaning, NoTask, Nothing
<1> QED
  BY <1>2, <1>3, <1>4, <1>5

\* A step that leaves the calls of sendNextBundle alone.
LEMMA ReadyStays ==
    ASSUME SendInv, NEW c \in Callers, at'[c] = at[c], task'[c] = task[c],
           sent \subseteq sent'
    PROVE  Ready(c)'
BY DEF SendInv, Ready, Cleaning

\* The other kinds of steps leave the calls alone.
LEMMA OtherSteps ==
    ASSUME TypeOK, [Next]_vars
    PROVE  \/ \E c \in Callers : Call(c) \/ BundlerStep(c) \/ RemoveFails(c)
           \/ /\ UNCHANGED <<sent, stuck>>
              /\ \A c \in Callers : at'[c] = at[c] /\ task'[c] = task[c]
              /\ \/ \E p \in Clients :
                       \/ \E op \in UserOps : Submit(p, op)
                       \/ ClientStep(p) \/ ClientFails(p)
                 \/ UNCHANGED <<pool, asked>>
<1>1. ASSUME NEW p \in Clients,
             (\E op \in UserOps : Submit(p, op)) \/ ClientStep(p) \/ ClientFails(p)
      PROVE  UNCHANGED <<sent, stuck, at, task>>
  BY <1>1 DEF Submit, ClientStep, ClientFails, history
<1>2. CASE (\E m \in {"auto", "manual"} : SetBundlingMode(m)) \/ SetBundlingInterval
  BY <1>2 DEF SetBundlingMode, SetBundlingInterval, pool, history
<1>3. CASE Tick \/ TryBundle
  BY <1>3, BundlerAssumption DEF Tick, TryBundle, TypeOK, pool, history
<1>4. CASE UNCHANGED vars
  BY <1>4 DEF vars, pool, history
<1> QED
  BY <1>1, <1>2, <1>3, <1>4 DEF Next

LEMMA SendInvStep ==
    BundlerInv /\ OnceInv /\ SendInv /\ [Next]_vars => SendInv'
<1> SUFFICES ASSUME BundlerInv, OnceInv, SendInv, [Next]_vars,
                    NEW d \in Callers
             PROVE  Ready(d)'
  BY DEF SendInv
<1>1. TypeOK
  BY DEF BundlerInv
<1>2. ASSUME NEW c \in Callers, Call(c) \/ BundlerStep(c) \/ RemoveFails(c)
      PROVE  Ready(d)'
  <2>1. /\ OnlyCall(c)
        /\ Builds(c) \/ Sends(c) \/ Rids(c) \/ Ends(c)
    BY <1>2, CallSteps
  <2>2. Ready(c)' /\ sent \subseteq sent'
    BY <1>1, <2>1, ReadyKept
  <2>3. CASE d # c
    BY <2>1, <2>2, <2>3, ReadyStays DEF OnlyCall
  <2> QED
    BY <2>2, <2>3
<1> QED
  BY <1>1, <1>2, OtherSteps, ReadyStays

-----------------------------------------------------------------------------
(***************************************************************************)
(* A bundle that is sent is legal.                                         *)
(***************************************************************************)
\* A sequence without repetitions is one of its set.
LEMMA SeqOfSet ==
    ASSUME NEW S, NEW s \in Seq(S),
           \A i, j \in DOMAIN s : i # j => s[i] # s[j]
    PROVE  s \in SetToSeqs(ToSet(s))
<1> DEFINE n == Len(s)
<1>1. n \in Nat /\ DOMAIN s = 1 .. n /\ s \in [1 .. n -> S]
  BY LenProperties
<1>2. s \in [1 .. n -> ToSet(s)]
  BY <1>1 DEF ToSet
<1>3. s \in Bijection(1 .. n, ToSet(s))
  <2>1. s \in Injection(1 .. n, ToSet(s))
    BY <1>1, <1>2 DEF Injection, IsInjective
  <2>2. s \in Surjection(1 .. n, ToSet(s))
    BY <1>1, <1>2 DEF Surjection, ToSet
  <2> QED
    BY <2>1, <2>2 DEF Bijection
<1>4. IsFiniteSet(1 .. n) /\ Cardinality(1 .. n) = n
  BY <1>1, FS_Interval
<1>5. Cardinality(ToSet(s)) = n
  BY <1>3, <1>4, FS_Bijection DEF ExistsBijection
<1> QED
  BY <1>1, <1>2, <1>5 DEF SetToSeqs

LEMMA SentIsLegal ==
    ASSUME TypeOK, BundleInv, SendInv, NEW c \in Callers, at[c] = "send"
    PROVE  Legal(ToSet(task[c].bundle))
<1> DEFINE b == task[c].bundle
<1>1. b \in Seq(UserOps) /\ task[c] \in Task
  BY DEF TypeOK, Task
<1>2. BundleHolds(task[c]) /\ Ready(c)
  BY DEF BundleInv, LocalsHold, SendInv
<1>3. \A i, j \in DOMAIN b : i # j => b[i].sender # b[j].sender
  BY <1>2 DEF BundleHolds, Single
<1>4. \A o, p \in ToSet(b) : o # p => o.sender # p.sender
  BY <1>3 DEF ToSet
<1>5. ASSUME NEW e \in Entities
      PROVE  /\ Cardinality({i \in DOMAIN b : Uses(b[i], e)}) <= 2
             /\ Charged(b, e) = 0 \/ \E d \in Deposits : Charged(b, e) <= d
  <2>1. Cardinality({i \in DOMAIN b : Uses(b[i], e)}) <= 2
    BY <1>2 DEF BundleHolds, Counted, UsersOf
  <2>2. CASE task[c].read[e] = None
    BY <1>2, <2>1, <2>2 DEF BundleHolds, Funded
  <2>3. CASE task[c].read[e] # None
    <3>1. task[c].read[e] \in Deposits
      BY <1>2, <2>3 DEF Ready
    <3>2. /\ task[c].left[e] \in Nat \cup {None} /\ task[c].left[e] # None
          /\ Charged(b, e) + task[c].left[e] = task[c].read[e]
      BY <1>1, <1>2, <2>3 DEF BundleHolds, Funded, Task
    <3>3. Charged(b, e) \in Nat
      BY <1>1, ChargedIsNumber
    <3>4. Charged(b, e) <= task[c].read[e]
      BY <3>2, <3>3
    <3> QED
      BY <2>1, <3>1, <3>4
  <2> QED
    BY <2>2, <2>3
<1>6. ToSet(b) # {}
  <2>1. b # <<>>
    BY <1>2 DEF Ready
  <2> QED
    BY <1>1, <2>1, ToSetTail
<1>7. b \in Sorted(ToSet(b))
  <2>1. b \in SetToSeqs(ToSet(b))
    BY <1>1, <1>3, SeqOfSet
  <2>2. \A i, j \in DOMAIN b : i < j => b[i].prio >= b[j].prio
    BY <1>2 DEF BundleHolds, Falling
  <2> QED
    BY <2>1, <2>2 DEF Sorted
<1> QED
  BY <1>4, <1>5, <1>6, <1>7 DEF Legal

-----------------------------------------------------------------------------
(***************************************************************************)
(* Every step is a step of the abstract bundler, or changes nothing of it. *)
(***************************************************************************)
\* What waits, by the operations of the requests.
LEMMA WhoWaits ==
    ASSUME NEW x
    PROVE  /\ x \in Waiting <=>
                 /\ x \notin sent
                 /\ \/ x \in Pooled
                    \/ \E p \in Proc : Adding(p) /\ x = arg[p]
                    \/ \E c \in Callers : x \in HeldIn(task[c])
           /\ x \in Waiting' <=>
                 /\ x \notin sent'
                 /\ \/ x \in Pooled'
                    \/ \E p \in Proc : Adding(p)' /\ x = arg'[p]
                    \/ \E c \in Callers : x \in HeldIn(task'[c])
BY HeldByTask DEF Waiting

LEMMA WhoseBatch ==
    ASSUME NEW x
    PROVE  /\ x \in Batch <=>
                 \E c \in Callers : Cleaning(c) /\ x \in ToSet(task[c].bundle)
           /\ x \in Batch' <=>
                 \E c \in Callers : Cleaning(c)' /\ x \in ToSet(task'[c].bundle)
BY DEF Batch

\* A request of a client goes on, fails, or begins.
LEMMA ClientSimulates ==
    ASSUME BundlerInv, OnceInv, NEW p \in Clients,
           \A c \in Callers : at'[c] = at[c] /\ task'[c] = task[c],
           (\E op \in UserOps : Submit(p, op)) \/ ClientStep(p) \/ ClientFails(p)
    PROVE  Abstract!Next
<1>1. p \in Proc /\ PoolHolds /\ Keyed
  BY OnceParts DEF Clients, BundlerInv
<1>2. Batch' = Batch
  BY WhoseBatch DEF Cleaning
<1>3. CASE ClientStep(p) \/ ClientFails(p)
  <2>1. Works(p)
    BY <1>1, <1>3, AddWorks, OtherWorks DEF ClientStep, ClientFails, Mempool!Step
  <2>2. UNCHANGED <<asked, sent, stuck>>
    BY <1>3 DEF ClientStep, ClientFails, history
  <2>3. Waiting' \subseteq Waiting
    <3> SUFFICES ASSUME NEW x \in Waiting' PROVE x \in Waiting
      OBVIOUS
    <3>1. x \in Pooled' => x \in Pooled \/ (Adding(p) /\ x = arg[p])
      BY <2>1 DEF Works
    <3>2. ASSUME NEW q \in Proc, Adding(q)' PROVE Adding(q) /\ arg'[q] = arg[q]
      BY <2>1, <3>2 DEF Works, OthersStay, Adding
    <3> QED
      BY <1>1, <2>2, <3>1, <3>2, WhoWaits
  <2> QED
    BY <1>2, <2>2, <2>3 DEF Abstract!Next, Abstract!Forget
<1>4. ASSUME NEW op \in UserOps, Submit(p, op) PROVE Abstract!Next
  <2>1. /\ OthersStay(p) /\ pc[p] = "idle" /\ pc'[p] = "find" /\ arg'[p] = op
        /\ UNCHANGED store
    BY <1>1, <1>4, BeginAdding DEF Submit, Mempool!BeginAdd
  <2>2. /\ op \notin asked /\ asked' = asked \cup {op} /\ UNCHANGED <<sent, stuck>>
    BY <1>4 DEF Submit
  <2>3. Pooled' = Pooled
    BY <2>1 DEF Pooled
  <2>4. \A q \in Proc : Adding(q)' <=> q = p \/ Adding(q)
    BY <2>1 DEF OthersStay, Adding
  <2>5. ~Adding(p) /\ op \notin sent
    BY <2>1, <2>2, OnceParts DEF Adding
  <2>6. \A q \in Proc : Adding(q) => arg'[q] = arg[q]
    BY <2>1, <2>5 DEF OthersStay
  <2>7. Waiting' = Waiting \cup {op}
    <3>1. ASSUME NEW x PROVE x \in Waiting' <=> x \in Waiting \/ x = op
      BY <1>1, <2>1, <2>2, <2>3, <2>4, <2>5, <2>6, WhoWaits
    <3> QED
      BY <3>1
  <2> QED
    BY <1>2, <2>2, <2>7 DEF Abstract!Next, Abstract!Submit
<1> QED
  BY <1>3, <1>4

\* A step of a call of sendNextBundle.
LEMMA CallSimulates ==
    ASSUME BundlerInv, BundleInv, OnceInv, SendInv, OnceInv', NEW c \in Callers,
           Call(c) \/ BundlerStep(c) \/ RemoveFails(c)
    PROVE  Abstract!Next
<1> DEFINE b == task[c].bundle
<1>1. /\ c \in Proc /\ TypeOK /\ Quiet(c) /\ OnlyCall(c)
      /\ Builds(c) \/ Sends(c) \/ Rids(c) \/ Ends(c)
  BY CallSteps, BundlerAssumption DEF BundlerInv
<1>2. ~Adding(c) /\ ~Adding(c)'
  <2>1. pc[c] \in PoolPlaces(c) /\ pc'[c] \in PoolPlaces(c)'
    BY DEF OnceInv
  <2> QED
    BY <2>1 DEF PoolPlaces, Adding
<1>3. \A p \in Proc : (Adding(p)' <=> Adding(p)) /\ (Adding(p) => arg'[p] = arg[p])
  BY <1>1, <1>2 DEF Quiet, OthersStay, Adding
<1>4. /\ \A d \in Callers \ {c} : at'[d] = at[d] /\ task'[d] = task[d]
      /\ \A d \in Callers \ {c} : Cleaning(d)' <=> Cleaning(d)
      /\ asked' = asked /\ Pooled' \subseteq Pooled
  BY <1>1 DEF OnlyCall, Cleaning, Quiet
<1>5. CASE Builds(c)
  <2>1. Waiting' \subseteq Waiting
    <3> SUFFICES ASSUME NEW x \in Waiting' PROVE x \in Waiting
      OBVIOUS
    <3>1. ASSUME NEW d \in Callers, x \in HeldIn(task'[d])
          PROVE  x \in HeldIn(task[d]) \/ x \in Pooled
      BY <1>4, <1>5, <3>1 DEF Builds
    <3> QED
      BY <1>3, <1>4, <1>5, <3>1, WhoWaits DEF Builds
  <2>2. Batch' = Batch
    <3>1. ASSUME NEW x PROVE x \in Batch' <=> x \in Batch
      BY <1>4, <1>5, WhoseBatch DEF Builds
    <3> QED
      BY <3>1
  <2> QED
    BY <1>4, <1>5, <2>1, <2>2 DEF Builds, Abstract!Next, Abstract!Forget
<1>6. CASE Sends(c)
  <2>1. /\ task[c] \in Task /\ b \in Seq(UserOps) /\ at[c] = "send" /\ ~Cleaning(c)
        /\ Cleaning(c)'
    BY <1>1, <1>6 DEF TypeOK, Task, Sends, Cleaning
  <2>2. task[c].todo = <<>> /\ HeldIn(task[c]) = ToSet(b)
    <3>1. task[c].todo = <<>>
      BY <2>1 DEF SendInv, Ready
    <3> QED
      BY <3>1, ToSetEmpty DEF HeldIn
  <2>3. task'[c].bundle = b /\ HeldIn(task'[c]) = ToSet(b)
    BY <1>6, <2>1 DEF Sends, HeldIn, Task
  <2>4. Pooled' = Pooled
    BY <1>6 DEF Sends, Pooled, pool
  <2>5. sent' = sent \cup ToSet(b) /\ stuck' = stuck
    BY <1>6 DEF Sends
  <2>6. Waiting' = Waiting \ ToSet(b)
    <3>1. ASSUME NEW x PROVE x \in Waiting' <=> x \in Waiting /\ x \notin ToSet(b)
      <4>1. \A d \in Callers : HeldIn(task'[d]) = HeldIn(task[d])
        BY <1>4, <2>2, <2>3
      <4> QED
        BY <1>3, <2>4, <2>5, <4>1, WhoWaits
    <3> QED
      BY <3>1
  <2>7. \A d \in Callers \ {c} : ~Cleaning(d)
    BY <2>1, OthersHoldNothing
  <2>8. Batch = {} /\ Batch' = ToSet(b)
    <3>1. ASSUME NEW x PROVE x \notin Batch /\ (x \in Batch' <=> x \in ToSet(b))
      BY <1>4, <2>1, <2>3, <2>7, WhoseBatch
    <3> QED
      BY <3>1
  <2>9. ToSet(b) \subseteq Waiting \cup stuck
    <3> SUFFICES ASSUME NEW x \in ToSet(b), x \notin stuck PROVE x \in Waiting
      OBVIOUS
    <3>1. x \in HeldIn(task[c]) /\ x \notin sent
      BY <2>1, <2>2, OnceCalls DEF CallInv
    <3> QED
      BY <3>1, WhoWaits
  <2>10. Legal(ToSet(b))
    BY <1>1, <2>1, SentIsLegal
  <2>11. Abstract!Bundle(ToSet(b))
    BY <1>4, <2>5, <2>6, <2>8, <2>10 DEF Abstract!Bundle
  <2> QED
    BY <2>9, <2>11 DEF Abstract!Next
<1>7. CASE Rids(c)
  <2>1. /\ task'[c].bundle = b /\ HeldIn(task'[c]) \subseteq HeldIn(task[c])
    BY <1>1, <1>7, HeldShrinks DEF Rids, RestOf, TypeOK, Task
  <2>2. Waiting' \subseteq Waiting
    <3> SUFFICES ASSUME NEW x \in Waiting' PROVE x \in Waiting
      OBVIOUS
    <3>1. \A d \in Callers : HeldIn(task'[d]) \subseteq HeldIn(task[d])
      BY <1>4, <2>1
    <3> QED
      BY <1>3, <1>4, <1>7, <3>1, WhoWaits DEF Rids
  <2>3. Batch' = Batch
    <3>1. ASSUME NEW x PROVE x \in Batch' <=> x \in Batch
      BY <1>4, <1>7, <2>1, WhoseBatch DEF Rids
    <3> QED
      BY <3>1
  <2> QED
    BY <1>4, <1>7, <2>2, <2>3 DEF Rids, Abstract!Next, Abstract!Forget
<1>8. CASE Ends(c)
  <2>1. /\ Cleaning(c) /\ ~Cleaning(c)' /\ HeldIn(task'[c]) = {}
        /\ at[c] \notin {"idle", "lock"}
    BY <1>8, NothingHeld DEF Ends, Cleaning
  <2>2. HeldIn(task[c]) \subseteq sent /\ ToSet(task[c].todo) \subseteq ToSet(b)
    BY <2>1 DEF SendInv, Ready, HeldIn
  <2>3. Pooled' = Pooled /\ sent' = sent
    BY <1>8 DEF Ends, Pooled
  <2>4. Waiting' = Waiting
    <3>1. ASSUME NEW x PROVE x \in Waiting' <=> x \in Waiting
      <4>1. \A d \in Callers :
              x \notin sent => (x \in HeldIn(task'[d]) <=> x \in HeldIn(task[d]))
        BY <1>4, <2>1, <2>2
      <4> QED
        BY <1>3, <2>3, <4>1, WhoWaits
    <3> QED
      BY <3>1
  <2>5. \A d \in Callers \ {c} : ~Cleaning(d)
    BY <2>1, OthersHoldNothing
  <2>6. Batch' = {} /\ Batch = ToSet(b)
    <3>1. ASSUME NEW x PROVE x \notin Batch' /\ (x \in Batch <=> x \in ToSet(b))
      BY <1>4, <2>1, <2>5, WhoseBatch
    <3> QED
      BY <3>1
  <2>7. stuck \subseteq stuck' /\ stuck' \subseteq stuck \cup Batch
    BY <1>8, <2>2, <2>6 DEF Ends
  <2> QED
    BY <1>4, <2>3, <2>4, <2>6, <2>7 DEF Abstract!Next, Abstract!Done
<1> QED
  BY <1>1, <1>5, <1>6, <1>7, <1>8

\* All of the invariants together.
WholeInv == BundlerInv /\ BundleInv /\ OnceInv /\ SendInv

LEMMA WholeInit == Init => WholeInv
BY BundlerInit, BundleInit, OnceInit, SendInvInit DEF WholeInv

LEMMA WholeStep == WholeInv /\ [Next]_vars => WholeInv'
<1>1. BundlerInv => TypeOK
  BY DEF BundlerInv
<1> QED
  BY <1>1, BundlerInvStep, BundleStep, OnceStep, SendInvStep DEF WholeInv

LEMMA StepSimulates ==
    WholeInv /\ [Next]_vars => [Abstract!Next]_(Abstract!vars)
<1> SUFFICES ASSUME WholeInv, [Next]_vars PROVE [Abstract!Next]_(Abstract!vars)
  OBVIOUS
<1>1. /\ BundlerInv /\ BundleInv /\ OnceInv /\ SendInv /\ TypeOK /\ OnceInv'
  BY OnceStep DEF WholeInv, BundlerInv
<1>2. CASE \E c \in Callers : Call(c) \/ BundlerStep(c) \/ RemoveFails(c)
  BY <1>1, <1>2, CallSimulates
<1>3. ASSUME UNCHANGED <<pool, asked, sent, stuck>>,
             \A c \in Callers : at'[c] = at[c] /\ task'[c] = task[c]
      PROVE  UNCHANGED Abstract!vars
  <2>1. Batch' = Batch
    BY <1>3, WhoseBatch DEF Cleaning
  <2>2. Waiting' = Waiting
    <3>1. ASSUME NEW x PROVE x \in Waiting' <=> x \in Waiting
      BY <1>3, WhoWaits DEF pool, Pooled, Adding
    <3> QED
      BY <3>1
  <2> QED
    BY <1>3, <2>1, <2>2 DEF Abstract!vars
<1> QED
  BY <1>1, <1>2, <1>3, OtherSteps, ClientSimulates

\* The bundler implements the abstract one, with any number of calls, clients
\* and operations, whatever the other services answer and whichever writes
\* fail: a bundle is handed over in one step, it is legal, and one at a time
\* (BundlingService.ts:45-235).
THEOREM BundlesImplement == Spec => ImplementsBundler
<1>1. Init => Abstract!Init
  <2> SUFFICES ASSUME Init PROVE Abstract!Init
    OBVIOUS
  <2>1. asked = {} /\ sent = {} /\ stuck = {}
    BY DEF Init
  <2>2. Pooled = {} /\ \A p \in Proc : ~Adding(p)
    BY DEF Init, Mempool!Init, Pooled, Adding
  <2>3. \A c \in Callers : HeldIn(task[c]) = {} /\ ~Cleaning(c)
    BY NothingHeld, BundlerAssumption DEF Init, Cleaning
  <2>4. Waiting = {}
    BY <2>2, <2>3, WhoWaits
  <2>5. Batch = {}
    BY <2>3, WhoseBatch
  <2> QED
    BY <2>1, <2>4, <2>5 DEF Abstract!Init
<1> QED
  BY <1>1, WholeInit, WholeStep, StepSimulates, PTL
  DEF Spec, ImplementsBundler, Abstract!Spec

-----------------------------------------------------------------------------
(***************************************************************************)
(* What the abstract bundler keeps, and the bundler with it.               *)
(***************************************************************************)
LEMMA AbstractSettles ==
    /\ Abstract!Init => Abstract!Settled
    /\ Abstract!Settled /\ [Abstract!Next]_(Abstract!vars) => Abstract!Settled'
<1>1. Abstract!Init => Abstract!Settled
  BY DEF Abstract!Init, Abstract!Settled
<1>2. ASSUME Abstract!Settled, [Abstract!Next]_(Abstract!vars)
      PROVE  Abstract!Settled'
  BY <1>2
  DEF Abstract!Settled, Abstract!Next, Abstract!vars, Abstract!Forget,
      Abstract!Done, Abstract!Submit, Abstract!Bundle
<1> QED
  BY <1>1, <1>2

\* An operation that was refused, dropped, replaced or lost, and is in the
\* hands of no call any more, is never sent, and what is sent waits no more.
THEOREM ForgottenStayOut == Spec => Abstract!ForgottenForGood
<1>1. Abstract!Settled /\ [Abstract!Next]_(Abstract!vars) =>
        [\A op \in asked \ (Waiting \cup sent) :
            op \notin Waiting' \cup sent']_(Abstract!vars)
  BY DEF Abstract!Settled, Abstract!Next, Abstract!vars, Abstract!Forget,
         Abstract!Done, Abstract!Submit, Abstract!Bundle
<1> QED
  BY <1>1, AbstractSettles, BundlesImplement, PTL
  DEF ImplementsBundler, Abstract!Spec, Abstract!ForgottenForGood

=============================================================================
