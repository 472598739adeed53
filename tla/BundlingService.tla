-------------------------- MODULE BundlingService --------------------------
(***************************************************************************)
(* The bundler (src/src/services/BundlingService.ts) at work on the pool.  *)
(*                                                                         *)
(* Calls of sendNextBundle queue for a mutex; the one that holds it builds *)
(* a bundle from a sorted dump of the pool, hands it to the chain, and     *)
(* removes its operations from the pool.  Every call of the pool is a run  *)
(* of the steps of MempoolService, and the requests of clients interleave  *)
(* with them: the bundler is one more request to the pool.                 *)
(*                                                                         *)
(* What other services and the chain answer is left open: any status for   *)
(* an entity, any outcome of the second validation, any deposit, any       *)
(* outcome of sendTransaction, or an error in place of an answer.          *)
(*                                                                         *)
(* One entry point is configured.  With several, the code would hand all   *)
(* of a bundle to that of its first operation, and charge a paymaster's    *)
(* operations of all of them to the deposit it read from one.              *)
(***************************************************************************)
EXTENDS Integers, Sequences, FiniteSets, SequencesExt

CONSTANTS
    Senders, Nonces, UserOps, Staked, Proc, Faults,
    MaxPerSender, MaxCopies, None,      \* as in MempoolService
    Callers,        \* calls of sendNextBundle that may be in flight
    Cron,           \* the callback of the interval timer
    Entities,       \* paymasters and factories
    Paymaster,      \* the paymaster of an operation, or None
    Factory,        \* the factory of an operation, or None
    Prefund,        \* what an operation may cost its paymaster
    Statuses,       \* what getStatus may answer
    Deposits,       \* what balanceOf may answer
    Events          \* what happens to the bundler: "call", "mode",
                    \* "interval", "tick"

ASSUME PoolAssumption ==
    /\ IsFiniteSet(Senders \X Nonces)
    /\ UserOps \subseteq [sender : Senders, nonce : Nonces,
                          prio : Nat, maxFee : Nat]
    /\ None \notin UserOps
    /\ MaxPerSender \in Nat
    /\ MaxCopies \in Nat
    /\ Staked \subseteq Senders
    /\ Faults \subseteq {"crash", "write", "read"}

ASSUME BundlerAssumption ==
    /\ Callers \subseteq Proc
    /\ Cron \notin Proc
    /\ Paymaster \in [UserOps -> Entities \cup {None}]
    /\ Factory \in [UserOps -> Entities \cup {None}]
    /\ Prefund \in [UserOps -> Nat]
    /\ Statuses \subseteq {"OK", "THROTTLED", "BANNED"}
    /\ Deposits \subseteq Nat
    /\ Events \subseteq {"call", "mode", "interval", "tick"}
    /\ None \notin Entities \cup Nat

VARIABLES index, store, pc, arg, keys, out, shown   \* of MempoolService

VARIABLES
    queue,      \* the mutex: its holder and the calls that wait, in order
    at,         \* where each call, and the timer's callback, is
    task,       \* the locals of each call
    mode,       \* bundlingMode
    timers,     \* interval timers that are running
    asked,      \* the operations clients have submitted
    sent,       \* the operations handed to the chain
    stuck       \* the operations sent whose removal from the pool failed

\* What clients and the bundler ask of the pool.
Mempool == INSTANCE MempoolService WITH Calls <- {"add", "dump", "remove"}

pool == <<index, store, pc, arg, keys, out, shown>>
cron == <<mode, timers>>
history == <<asked, sent, stuck>>
vars == <<pool, queue, at, task, cron, history>>

Clients == Proc \ Callers

Nothing == [e \in Entities |-> None]

\* The locals of createBundle and sendBundle.  `todo` is what the current
\* loop has left; `read` is what balanceOf answered, `left` what the bundle
\* leaves of it (paymasterDeposit); `count` is stakedEntityCount.
NoTask == [todo |-> <<>>, bundle |-> <<>>, senders |-> {},
           count |-> [e \in Entities |-> 0],
           read |-> Nothing, left |-> Nothing]

Init ==
    /\ Mempool!Init
    /\ queue = <<>>
    /\ at = [c \in Callers \cup {Cron} |-> "idle"]
    /\ task = [c \in Callers |-> NoTask]
    /\ mode = "auto"
    /\ timers = 1
    /\ asked = {}
    /\ sent = {}
    /\ stuck = {}

Goto(c, to, t) ==
    /\ at' = [at EXCEPT ![c] = to]
    /\ task' = [task EXCEPT ![c] = t]
    /\ UNCHANGED queue

\* Defect: the newest call in the queue is taken out, not the one that ends.
LeaveFront(c) ==
    /\ at' = [at EXCEPT ![c] = "idle"]
    /\ task' = [task EXCEPT ![c] = NoTask]
    /\ queue' = Front(queue)

\* The call ends, and runExclusive releases the mutex however it ends.
Leave(c) ==
    /\ at' = [at EXCEPT ![c] = "idle"]
    /\ task' = [task EXCEPT ![c] = NoTask]
    /\ queue' = Tail(queue)

(***************************************************************************)
(* sendNextBundle waits for the mutex and asks the pool for its entries.   *)
(***************************************************************************)
Call(c) ==
    /\ "call" \in Events
    /\ at[c] = "idle"
    /\ at' = [at EXCEPT ![c] = "lock"]
    /\ queue' = Append(queue, c)
    /\ UNCHANGED <<task, pool, cron, history>>

\* Defect: the call does not wait for the mutex.
EnterAtOnce(c) ==
    /\ at[c] = "lock"
    /\ Mempool!BeginDump(c)
    /\ Goto(c, "dump", NoTask)
    /\ UNCHANGED <<cron, history>>

Enter(c) ==
    /\ at[c] = "lock"
    /\ queue # <<>> /\ Head(queue) = c
    /\ Mempool!BeginDump(c)
    /\ Goto(c, "dump", NoTask)
    /\ UNCHANGED <<cron, history>>

(***************************************************************************)
(* createBundle: one entry after the other, the highest priority fee       *)
(* first.  The sort is stable on an array whose order the pool leaves      *)
(* open, so that entries of one fee come in any order.  (An entry the      *)
(* array holds twice is taken once: its second copy would be skipped as a  *)
(* sender already included, or be judged a second time.)                   *)
(***************************************************************************)
\* Defect: the sort compares the wrong way round.
SortedCheapFirst(ops) ==
    {s \in SetToSeqs(ops) :
        \A i, j \in DOMAIN s : i < j => s[i].prio <= s[j].prio}

Sorted(ops) ==
    {s \in SetToSeqs(ops) :
        \A i, j \in DOMAIN s : i < j => s[i].prio >= s[j].prio}

\* Defect: does not see that the last entry was handled.
AdvanceForever(c, t) == Goto(c, "paymaster", t)

\* On to the next entry; after the last one, to sendBundle if there is one.
Advance(c, t) ==
    \/ t.todo # <<>> /\ Goto(c, "paymaster", t)
    \/ t.todo = <<>> /\ t.bundle # <<>> /\ Goto(c, "send", t)
    \/ t.todo = <<>> /\ t.bundle = <<>> /\ Leave(c)

Dumped(c) ==
    /\ at[c] = "dump"
    /\ Mempool!DumpMany(c)
    /\ \E s \in Sorted(shown'[c]) : Advance(c, [task[c] EXCEPT !.todo = s])
    /\ UNCHANGED <<cron, history>>

Entry(c) == Head(task[c].todo)

RestOf(t) == [t EXCEPT !.todo = Tail(@)]

Skip(c) ==
    /\ Advance(c, RestOf(task[c]))
    /\ UNCHANGED <<pool, cron, history>>

\* The entry is removed from the pool; Dropped ends the removal.
Drop(c) ==
    /\ Mempool!BeginRemove(c, Entry(c))
    /\ Goto(c, "drop", task[c])
    /\ UNCHANGED <<cron, history>>

Dropped(c) ==
    /\ at[c] = "drop"
    /\ Mempool!RemovePut(c)
    /\ Advance(c, RestOf(task[c]))
    /\ UNCHANGED <<cron, history>>

EntityFull(c, e) == task[c].count[e] > 1

\* getStatus of an entity e, and what is decided on its answer.  Without an
\* entity nothing is asked.
EntityStops(c, e) ==
    /\ e # None
    /\ \/ "BANNED" \in Statuses /\ Drop(c)
       \/ ("THROTTLED" \in Statuses \/ EntityFull(c, e)) /\ Skip(c)

EntityPasses(c, e) == e # None => "OK" \in Statuses /\ ~EntityFull(c, e)

PaymasterStatus(c) ==
    /\ at[c] = "paymaster"
    /\ \/ EntityStops(c, Paymaster[Entry(c)])
       \/ /\ EntityPasses(c, Paymaster[Entry(c)])
          /\ Goto(c, "factory", task[c])
          /\ UNCHANGED <<pool, cron, history>>

\* Defect: does not look whether the sender is in the bundle.
SenderFreeUnchecked(c) == TRUE

SenderFree(c) == Entry(c).sender \notin task[c].senders

FactoryStatus(c) ==
    /\ at[c] = "factory"
    /\ \/ EntityStops(c, Factory[Entry(c)])
       \/ EntityPasses(c, Factory[Entry(c)]) /\ ~SenderFree(c) /\ Skip(c)
       \/ /\ EntityPasses(c, Factory[Entry(c)])
          /\ SenderFree(c)
          /\ Goto(c, "validate", task[c])
          /\ UNCHANGED <<pool, cron, history>>

\* Defect: the deposit is not charged.
IncludedFree(t, op) ==
    LET uses(e) == (IF Paymaster[op] = e THEN 1 ELSE 0)
                       + (IF Factory[op] = e THEN 1 ELSE 0)
    IN  [t EXCEPT !.todo = Tail(@), !.bundle = Append(@, op),
                  !.senders = @ \cup {op.sender},
                  !.count = [e \in Entities |-> @[e] + uses(e)]]

\* Defect: the factory's operations are not counted with the paymaster's.
IncludedOneRole(t, op) ==
    [t EXCEPT !.todo = Tail(@), !.bundle = Append(@, op),
              !.senders = @ \cup {op.sender},
              !.count = [e \in Entities |->
                            IF e = Paymaster[op] THEN @[e] + 1 ELSE @[e]],
              !.left = [e \in Entities |->
                           IF e = Paymaster[op] THEN @[e] - Prefund[op] ELSE @[e]]]

\* The entry joins the bundle: its entities are counted, its paymaster's
\* deposit is charged.
Included(t, op) ==
    LET uses(e) == (IF Paymaster[op] = e THEN 1 ELSE 0)
                       + (IF Factory[op] = e THEN 1 ELSE 0)
    IN  [t EXCEPT !.todo = Tail(@), !.bundle = Append(@, op),
                  !.senders = @ \cup {op.sender},
                  !.count = [e \in Entities |-> @[e] + uses(e)],
                  !.left = [e \in Entities |->
                               IF e = Paymaster[op] THEN @[e] - Prefund[op]
                               ELSE @[e]]]

\* simulateCompleteValidation, the second validation.
Validate(c) ==
    /\ at[c] = "validate"
    /\ \/ Drop(c)
       \/ /\ Paymaster[Entry(c)] # None
          /\ Goto(c, "deposit", task[c])
          /\ UNCHANGED <<pool, cron, history>>
       \/ /\ Paymaster[Entry(c)] = None
          /\ Advance(c, Included(task[c], Entry(c)))
          /\ UNCHANGED <<pool, cron, history>>

\* The deposit of the paymaster, read once for a bundle.
Deposit(c) ==
    LET e == Paymaster[Entry(c)]
        t == task[c]
    IN  /\ at[c] = "deposit"
        /\ \E d \in IF t.left[e] = None THEN Deposits ELSE {t.left[e]} :
              LET known == IF t.left[e] = None
                           THEN [t EXCEPT !.read[e] = d, !.left[e] = d]
                           ELSE t
              IN  \/ d < Prefund[Entry(c)] /\ Advance(c, RestOf(known))
                  \/ d >= Prefund[Entry(c)]
                        /\ Advance(c, Included(known, Entry(c)))
        /\ UNCHANGED <<pool, cron, history>>

\* getStatus or balanceOf is rejected.  createBundle catches no error but the
\* second validation's, and the call ends with it.
AskFails(c) ==
    /\ \/ at[c] = "paymaster" /\ Paymaster[Entry(c)] # None
       \/ at[c] = "factory" /\ Factory[Entry(c)] # None
       \/ at[c] = "deposit" /\ task[c].left[Paymaster[Entry(c)]] = None
    /\ Leave(c)
    /\ UNCHANGED <<pool, cron, history>>

(***************************************************************************)
(* sendBundle: selectBeneficiary and sendTransaction, then the removals    *)
(* one after another.  A rejected transaction leaves pool and reputation   *)
(* alone: an error of the wallet's sendTransaction is no FailedOp, and of  *)
(* a FailedOp(opIndex, reason) the code would take an index and a          *)
(* paymaster that are undefined, which crashedHandleOps ignores.           *)
(***************************************************************************)
\* Defect: the removals begin with the second operation.
SendKeepsFirst(c) ==
    /\ at[c] = "send"
    /\ Goto(c, "clean", RestOf([task[c] EXCEPT !.todo = task[c].bundle]))
    /\ sent' = sent \cup ToSet(task[c].bundle)
    /\ UNCHANGED <<pool, cron, asked, stuck>>

Send(c) ==
    /\ at[c] = "send"
    /\ Goto(c, "clean", [task[c] EXCEPT !.todo = task[c].bundle])
    /\ sent' = sent \cup ToSet(task[c].bundle)
    /\ UNCHANGED <<pool, cron, asked, stuck>>

\* Defect: the operations of a bundle that was rejected are removed like those
\* of one that was sent.
SendFailsCleans(c) ==
    /\ at[c] = "send"
    /\ Goto(c, "clean", [task[c] EXCEPT !.todo = task[c].bundle])
    /\ UNCHANGED <<pool, cron, history>>

SendFails(c) ==
    /\ at[c] = "send"
    /\ Leave(c)
    /\ UNCHANGED <<pool, cron, history>>

Clean(c) ==
    /\ at[c] = "clean"
    /\ task[c].todo # <<>>
    /\ Mempool!BeginRemove(c, Entry(c))
    /\ Goto(c, "cleaning", task[c])
    /\ UNCHANGED <<cron, history>>

Cleaned(c) ==
    /\ at[c] = "cleaning"
    /\ Mempool!RemovePut(c)
    /\ Goto(c, "clean", RestOf(task[c]))
    /\ UNCHANGED <<cron, history>>

\* getUserOpHashes swallows its errors, and the call ends.
Hashes(c) ==
    /\ at[c] = "clean"
    /\ task[c].todo = <<>>
    /\ Leave(c)
    /\ UNCHANGED <<pool, cron, history>>

\* A removal whose write fails ends the call: createBundle rejects, and
\* sendBundle's catch takes it for a failed handleOps.
RemoveFails(c) ==
    /\ at[c] \in {"drop", "cleaning"}
    /\ Mempool!WriteFails(c)
    /\ Leave(c)
    /\ stuck' = IF at[c] = "cleaning" THEN stuck \cup ToSet(task[c].todo)
                ELSE stuck
    /\ UNCHANGED <<cron, asked, sent>>

\* The pool's steps of a call that change nothing of the bundler's.
PoolStep(c) ==
    /\ Mempool!DumpKeys(c) \/ Mempool!RemoveKeys(c) \/ Mempool!RemoveDel(c)
    /\ UNCHANGED <<queue, at, task, cron, history>>

-----------------------------------------------------------------------------
(***************************************************************************)
(* Modes and the timer.  restartCron clears the timer it knows of, which   *)
(* is the one that runs, and sets one in auto mode.                        *)
(***************************************************************************)
\* Defect: manual mode returns before the timer is cleared.
RestartCronLate ==
    timers' = IF mode' = "auto" THEN 1 ELSE timers

RestartCron ==
    LET cleared == IF timers > 0 THEN timers - 1 ELSE 0
    IN  timers' = cleared + (IF mode' = "auto" THEN 1 ELSE 0)

SetBundlingMode(m) ==
    /\ "mode" \in Events
    /\ mode' = m
    /\ RestartCron
    /\ UNCHANGED <<pool, queue, at, task, history>>

\* setBundlingInterval; setMempoolMaxSize, which restarts the timer as well,
\* has no caller.
SetBundlingInterval ==
    /\ "interval" \in Events
    /\ UNCHANGED mode
    /\ RestartCron
    /\ UNCHANGED <<pool, queue, at, task, history>>

Tick ==
    /\ "tick" \in Events
    /\ timers > 0
    /\ at[Cron] = "idle"
    /\ at' = [at EXCEPT ![Cron] = "try"]
    /\ UNCHANGED <<pool, queue, task, cron, history>>

\* tryBundle(force = true): all it does is under `if (!force)`, and its only
\* caller passes no argument.
TryBundle ==
    /\ at[Cron] = "try"
    /\ at' = [at EXCEPT ![Cron] = "idle"]
    /\ UNCHANGED <<pool, queue, task, cron, history>>

-----------------------------------------------------------------------------
(***************************************************************************)
(* Clients submit every operation once.                                    *)
(***************************************************************************)
Submit(p, op) ==
    /\ op \notin asked
    /\ Mempool!BeginAdd(p, op)
    /\ asked' = asked \cup {op}
    /\ UNCHANGED <<queue, at, task, cron, sent, stuck>>

ClientStep(p) ==
    /\ Mempool!Step(p)
    /\ UNCHANGED <<queue, at, task, cron, history>>

ClientFails(p) ==
    /\ Mempool!WriteFails(p)
    /\ UNCHANGED <<queue, at, task, cron, history>>

BundlerStep(c) ==
    \/ Enter(c) \/ Dumped(c) \/ PaymasterStatus(c) \/ FactoryStatus(c)
    \/ Validate(c) \/ Deposit(c) \/ AskFails(c) \/ Dropped(c)
    \/ Send(c) \/ SendFails(c) \/ Clean(c) \/ Cleaned(c) \/ Hashes(c)
    \/ PoolStep(c)

Next ==
    \/ \E c \in Callers : Call(c) \/ BundlerStep(c) \/ RemoveFails(c)
    \/ \E p \in Clients :
          (\E op \in UserOps : Submit(p, op)) \/ ClientStep(p) \/ ClientFails(p)
    \/ \E m \in {"auto", "manual"} : SetBundlingMode(m)
    \/ SetBundlingInterval \/ Tick \/ TryBundle

Spec == Init /\ [][Next]_vars

\* The database, the chain and the other services answer every call, the
\* event loop runs the timer's callback.
Fairness ==
    /\ \A c \in Callers : WF_vars(BundlerStep(c))
    /\ \A p \in Clients : WF_vars(ClientStep(p))
    /\ WF_vars(Tick)
    /\ WF_vars(TryBundle)

FairSpec == Spec /\ Fairness

-----------------------------------------------------------------------------
(***************************************************************************)
(* What the bundler promises.                                              *)
(***************************************************************************)
Places == {"idle", "lock", "dump", "paymaster", "factory", "validate",
           "deposit", "drop", "send", "clean", "cleaning"}

Task == [todo : Seq(UserOps), bundle : Seq(UserOps), senders : SUBSET Senders,
         count : [Entities -> Nat],
         read : [Entities -> Nat \cup {None}],
         left : [Entities -> Nat \cup {None}]]

\* Type invariant: the locals of each call have their shapes, what is left of
\* a deposit is never below zero, and a call that judges or removes an entry
\* has one.
TypeOK ==
    /\ queue \in Seq(Callers)
    /\ at \in [Callers \cup {Cron} -> Places \cup {"try"}]
    /\ task \in [Callers -> Task]
    /\ mode \in {"auto", "manual"}
    /\ timers \in Nat
    /\ asked \subseteq UserOps
    /\ sent \subseteq UserOps
    /\ stuck \subseteq UserOps
    /\ \A c \in Callers :
          at[c] \in {"paymaster", "factory", "validate", "deposit", "drop",
                    "cleaning"} => task[c].todo # <<>>
    /\ \A c \in Callers :
          at[c] = "deposit" => Paymaster[Entry(c)] # None

\* Only the call at the head of the mutex's queue is past its beginning, and
\* it stays there until it ends, whichever way it does: a status or a deposit
\* that is not answered, a failed removal and a rejected transaction all
\* release the mutex, once
\* (BundlingService.ts:45).
OnlyHolderWorks ==
    \A c \in Callers :
        at[c] \notin {"idle", "lock"} => queue # <<>> /\ Head(queue) = c

\* A bundle holds at most one operation of a sender (BundlingService.ts:168):
\* the second of two operations of one account would be validated against a
\* state the first one changes.
OnePerSender ==
    \A c \in Callers : \A i, j \in DOMAIN task[c].bundle :
        i # j => task[c].bundle[i].sender # task[c].bundle[j].sender

Uses(op, e) == Paymaster[op] = e \/ Factory[op] = e

\* A bundle holds at most two operations that share a paymaster or factory,
\* whichever of the two roles it plays in each (BundlingService.ts:135, 155).
TwoPerEntity ==
    \A c \in Callers, e \in Entities :
        Cardinality({i \in DOMAIN task[c].bundle : Uses(task[c].bundle[i], e)})
            <= 2

Charged(b, e) ==
    FoldSeq(LAMBDA op, sum : IF Paymaster[op] = e THEN sum + Prefund[op]
                             ELSE sum, 0, b)

\* The deposit read for a paymaster covers all the operations of the bundle
\* that it pays for together, not only each of them (BundlingService.ts:201).
DepositCovers ==
    \A c \in Callers, e \in Entities :
        task[c].read[e] # None => Charged(task[c].bundle, e) <= task[c].read[e]

\* The bundle offers the chain the operations with the highest priority fee
\* first (MempoolEntry.compareByCost), whatever was skipped on the way.
DearestFirst ==
    \A c \in Callers : \A i, j \in DOMAIN task[c].bundle :
        i < j => task[c].bundle[i].prio >= task[c].bundle[j].prio

Pooled == {store[k] : k \in {j \in Mempool!Keys : store[j] # None}}

Held(c) == ToSet(task[c].todo) \cup ToSet(task[c].bundle)

Cleaning(c) == at[c] \in {"clean", "cleaning"}

\* Once no call is removing it, an operation that was sent is out of the pool
\* and cannot come back: no addition that is still in flight, and that has
\* read the collection before the removal, saves it again.
SentLeavesPool ==
    \A op \in sent \ stuck :
        op \in Pooled => \E c \in Callers : Cleaning(c) /\ op \in ToSet(task[c].todo)

\* An operation that clients submit once is handed to the chain once, however
\* calls of sendNextBundle and additions interleave, unless the write of its
\* removal failed: the next bundle is built after the pool is rid of the last
\* one (BundlingService.ts:45, 78-80).
NeverSentTwice ==
    [][\A c \in Callers :
          at[c] = "send" /\ at'[c] = "clean" =>
              ToSet(task[c].bundle) \cap sent \subseteq stuck]_vars

\* An addition that has not saved its entry yet.
Adding(p) == pc[p] \in {"find", "replace", "countKeys", "countMany", "fetchKeys",
                       "putIndex", "putEntry"}

\* Where the pool is with a call of the bundler.
PoolPlaces(c) ==
    CASE at[c] = "dump" -> {"dpKeys", "dpMany"}
      [] at[c] \in {"drop", "cleaning"} -> {"rmKeys", "rmDel", "rmPut"}
      [] OTHER -> {"idle"}

\* The strengthening of SentLeavesPool and NeverSentTwice that every step
\* preserves: what an addition in flight is about is new to the pool and to
\* the bundler, the bundle that is built holds nothing that was sent, and the
\* removal that is about to end has deleted its entry.
OnceInv ==
    /\ SentLeavesPool
    /\ \A k \in Mempool!Keys : store[k] # None => Mempool!KeyOf(store[k]) = k
    /\ Pooled \cup sent \cup UNION {Held(c) : c \in Callers} \subseteq asked
    /\ \A p \in Proc : Adding(p) =>
          /\ arg[p] \in asked \ (Pooled \cup sent)
          /\ \A c \in Callers : arg[p] \notin Held(c)
          /\ \A q \in Proc \ {p} : Adding(q) => arg[q] # arg[p]
    /\ \A c \in Callers :
          /\ pc[c] \in PoolPlaces(c)
          /\ at[c] \in {"idle", "lock", "dump"} => task[c] = NoTask
          /\ ~Cleaning(c) => Held(c) \cap sent \subseteq stuck
          /\ at[c] = "cleaning" => arg[c] = Entry(c)
          /\ at[c] = "cleaning" /\ pc[c] = "rmPut" => Entry(c) \notin Pooled

\* What may be handed to the chain as a bundle: one operation of a sender, two of
\* a paymaster or factory, no more than some deposit pays for, the dearest first.
Legal(ops) ==
    /\ ops # {}
    /\ \A o, p \in ops : o # p => o.sender # p.sender
    /\ \E b \in Sorted(ops) : \A e \in Entities :
          /\ Cardinality({i \in DOMAIN b : Uses(b[i], e)}) <= 2
          /\ Charged(b, e) = 0 \/ \E d \in Deposits : Charged(b, e) <= d

\* What may still be sent for the first time: what is pooled, is being added,
\* or is in the hands of a call, though it was replaced in the pool meanwhile.
Waiting ==
    (Pooled \cup {arg[p] : p \in {q \in Proc : Adding(q)}}
            \cup UNION {Held(c) : c \in Callers}) \ sent

\* The bundle that is being removed from the pool.
Batch == UNION {ToSet(task[c].bundle) : c \in {d \in Callers : Cleaning(d)}}

Abstract == INSTANCE AbstractBundler WITH waiting <- Waiting, batch <- Batch

\* To those who submit operations a bundle is one step, whatever interleaves
\* while it is built and removed: operations that wait, or that the bundler is
\* stuck with, are handed to the chain as one legal bundle, one bundle at a
\* time, and an operation that was refused, skipped or replaced either still
\* waits or is never sent (BundlingService.ts:44-212).
ImplementsBundler == Abstract!Spec

\* Every call of sendNextBundle ends and hands the mutex on, whatever fails
\* in it: a status, a deposit, a validation, a removal or the transaction.
CallsEnd == \A c \in Callers : at[c] # "idle" ~> at[c] = "idle"

\* The bundler touches the pool through the pool's own operations only, each
\* to its end before it asks for the next: what is proved of every run of the
\* pool's requests holds while the bundler works on it.
UsesPool == Mempool!Spec

\* Manual mode leaves no timer running and auto mode exactly one, whatever
\* order modes and intervals are set in: "After setting mode to "manual", an
\* explicit call to debug_bundler_sendBundleNow is required" (README.md:30).
TimerMatchesMode == timers = IF mode = "auto" THEN 1 ELSE 0

\* In auto mode, by the same line, no explicit call is required: an operation
\* in the pool is taken out of it sooner or later, or the mode is changed.
AutoModeBundles ==
    \A op \in UserOps :
        op \in Pooled /\ mode = "auto" ~> op \notin Pooled \/ mode # "auto"
=============================================================================
