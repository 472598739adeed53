------------------------------ MODULE Executor ------------------------------
(***************************************************************************)
(* The executor of one network (src/src/executor.ts): the calls of the Eth *)
(* and the Debug module (src/src/modules/eth.ts, debug.ts) that reach the  *)
(* mempool and the reputation service, composed with both.  The steps of   *)
(* the services are those of their modules; this one adds where a call     *)
(* goes from one service to the other and what it answers.                 *)
(*                                                                         *)
(* What the validation finds is open here, but not what it does to the     *)
(* records: it may ask for the stake of the operation's entities.  So are  *)
(* the node's answer to getUserOpHash and what the bundler removes.  Time, *)
(* which only ages reputations, stands still.                              *)
(***************************************************************************)
EXTENDS MempoolService, Sequences

CONSTANTS
    Addresses,      \* the senders and the paymasters
    PaymasterOf,    \* the paymaster of each operation, or None
    EntitiesOf,     \* those whose stake its validation may ask for
    Methods,        \* methods clients call
    Batches,        \* reputations set together: sequences of jobs
    MaxCount,       \* bound: no count is raised beyond this
    MaxListed,      \* bound: how often an address is in the collection
    Denominator, ThrottlingSlack, BanSlack, DecayHours, TicksPerHour

VARIABLES
    coll, entry, lists, rpc, job, held, copy, listed, rout,
                    \* those of the reputation service; rpc and rout are its
                    \* pc and out
    flow,           \* where each call is between the services
    about,          \* the operation, or the reputations still to be set
    reply,          \* what each last call answered
    before          \* the records as the call found them

SeenJob(a) ==
    [call |-> "seen", addr |-> a, seen |-> 1, included |-> 0, list |-> "WL"]
StakeJob(a) == [SeenJob(a) EXCEPT !.call = "stake", !.seen = 0]
GlobalJob(c) == [SeenJob(CHOOSE a \in Addresses : TRUE) EXCEPT !.call = c]

Jobs == (UNION {{b[i] : i \in DOMAIN b} : b \in Batches})
            \cup {SeenJob(a) : a \in Addresses} \cup {StakeJob(a) : a \in Addresses}
            \cup {GlobalJob("clear"), GlobalJob("dump")}

Rep == INSTANCE ReputationService
         WITH pc <- rpc, out <- rout, MaxCopies <- MaxListed, LowDelay <- {}

ASSUME ExecutorAssumption ==
    /\ Senders \subseteq Addresses /\ MaxListed \in Nat /\ MaxCount \in Nat
    /\ Addresses # {} /\ None \notin Addresses \cup Rep!Entry
    /\ PaymasterOf \in [UserOps -> Addresses \cup {None}]
    /\ EntitiesOf \in [UserOps -> SUBSET Addresses]
    /\ Methods \subseteq {"send", "validate", "estimate", "clear", "set",
                          "dumpMempool", "dumpReputation", "bundle"}
    /\ Batches \subseteq
          Seq([call : {"set"}, addr : Addresses, seen : Nat, included : Nat,
               list : {"WL"}])
    /\ Denominator \in Nat \ {0} /\ ThrottlingSlack \in Nat /\ BanSlack \in Nat
    /\ DecayHours \in Nat \ {0} /\ TicksPerHour \in Nat \ {0}

\* The calls reach every operation of the mempool, nobody's stake is settled
\* beforehand, and reads do not fail.
ASSUME PoolAssumption ==
    /\ Calls = {"add", "remove", "clear", "dump", "check"}
    /\ Staked = {}
    /\ "read" \notin Faults

reputationVars ==
    <<coll, entry, lists, rpc, job, held, copy, listed, rout>>
calls == <<flow, about, reply, before>>
executorVars == <<vars, reputationVars, calls>>

ExecutorInit ==
    /\ Init
    /\ Rep!Init
    /\ flow = [p \in Proc |-> "idle"]
    /\ about = [p \in Proc |-> None]
    /\ reply = [p \in Proc |-> "none"]
    /\ before = [p \in Proc |-> None]

-----------------------------------------------------------------------------
Records == [index |-> index, store |-> store, coll |-> coll, entry |-> entry]

OnMempool(A) == A /\ UNCHANGED reputationVars
OnReputation(A) == A /\ UNCHANGED vars
NoService == UNCHANGED <<vars, reputationVars>>

\* A client's call arrives.
Arrive(p, m, at, what) ==
    /\ m \in Methods
    /\ flow[p] = "idle"
    /\ flow' = [flow EXCEPT ![p] = at]
    /\ about' = [about EXCEPT ![p] = what]
    /\ reply' = [reply EXCEPT ![p] = "none"]
    /\ before' = [before EXCEPT ![p] = Records]

\* A call goes on; it ends with an answer.
Resume(p, from, to) ==
    /\ flow[p] = from
    /\ flow' = [flow EXCEPT ![p] = to]
    /\ UNCHANGED <<about, reply, before>>

Answer(p, from, answer) ==
    /\ flow[p] = from
    /\ flow' = [flow EXCEPT ![p] = "idle"]
    /\ reply' = [reply EXCEPT ![p] = answer]
    /\ about' = [about EXCEPT ![p] = None]
    /\ before' = [before EXCEPT ![p] = None]

\* The services have returned what request p asked for.
PoolSays(p, answers) == pc[p] = "idle" /\ out[p] \in answers
RepSays(p, answers) == rpc[p] = "idle" /\ rout[p] \in answers

\* Bound: addUserOp lists the sender twice at most, its paymaster once.
RoomToList(op, a, more) ==
    entry[a] # None
        \/ coll[a] + more + (IF a = op.sender THEN 2 ELSE 1) <= MaxListed

(***************************************************************************)
(* eth_sendUserOperation: validation, addUserOp, and its updateSeenStatus, *)
(* which counts the paymaster and then the sender; the hash is asked of    *)
(* the entry point last.  When the sender has its full number of           *)
(* operations in the pool, addUserOp asks for its stake.                   *)
(***************************************************************************)
Send(p, op) ==
    /\ index[KeyOf(op)] < MaxCopies
    /\ \A a \in {op.sender, PaymasterOf[op]} \ {None} :
          Rep!WithinBounds(SeenJob(a)) /\ RoomToList(op, a, 0)
    /\ Arrive(p, "send", "validate", op)
    /\ NoService

Validated(p) ==
    /\ Resume(p, "validate", "add")
    /\ OnMempool(BeginAdd(p, about[p]))

Invalid(p) == Answer(p, "validate", "invalid") /\ NoService

\* On the way the validation asks whether an entity is staked that has read a
\* slot, returned a context or aggregates; that question lists an address
\* without entry.
Judging == [validate |-> "judge", validateOnly |-> "judgeOnly"]

AskEntity(p, a) ==
    /\ flow[p] \in DOMAIN Judging
    /\ a \in EntitiesOf[about[p]]
    /\ RoomToList(about[p], a, 1)
    /\ Resume(p, flow[p], Judging[flow[p]])
    /\ OnReputation(Rep!Request(p, StakeJob(a)))

Judged(p) ==
    /\ RepSays(p, {"noError"})
    /\ \E from \in DOMAIN Judging : Resume(p, Judging[from], from)
    /\ NoService

JudgedAgainst(p) ==
    /\ RepSays(p, {"banned", "error"})
    /\ \E from \in DOMAIN Judging :
          Answer(p, Judging[from], IF rout[p] = "banned" THEN "invalid" ELSE "error")
    /\ NoService

Validation(p) ==
    (\E a \in Addresses : AskEntity(p, a)) \/ Judged(p) \/ JudgedAgainst(p)

NotAdded(p) ==
    /\ PoolSays(p, {"feeTooLow", "senderFull", "error"})
    /\ Answer(p, "add", out[p])
    /\ NoService

\* Nobody's stake is settled beforehand here (Staked is empty): SenderFull
\* is the comparison alone.
RoomLeft(p) ==
    /\ flow[p] = "add" /\ UNCHANGED calls
    /\ OnMempool(CountAdmits(p))

AskStake(p) ==
    /\ pc[p] = "countMany"
    /\ \E found \in FetchAll(keys[p]) : SenderFull(p, found)
    /\ Resume(p, "add", "stake")
    /\ OnReputation(Rep!Request(p, StakeJob(about[p].sender)))

\* Defect: an answer is taken for a good one.
StakeAllowsAll(p) ==
    /\ RepSays(p, {"noError", "banned"})
    /\ Resume(p, "stake", "add")
    /\ OnMempool(Goto(p, "countMany", "fetchKeys", NoKeys) /\ UNCHANGED Database)

StakeAllows(p) ==
    /\ RepSays(p, {"noError"})
    /\ Resume(p, "stake", "add")
    /\ OnMempool(Goto(p, "countMany", "fetchKeys", NoKeys) /\ UNCHANGED Database)

StakeRefuses(p) ==
    /\ RepSays(p, {"banned", "error"})
    /\ Answer(p, "stake", IF rout[p] = "banned" THEN "senderFull" ELSE "error")
    /\ OnMempool(Return(p, "countMany", "error") /\ UNCHANGED <<shown, Database>>)

CountPaymaster(p) ==
    /\ pc[p] = "seen" /\ PaymasterOf[about[p]] # None
    /\ Resume(p, "add", "countPaymaster")
    /\ OnReputation(Rep!Request(p, SeenJob(PaymasterOf[about[p]])))

\* Defect: a failure of the first count goes unnoticed.
CountSenderAnyway(p) ==
    /\ \/ pc[p] = "seen" /\ PaymasterOf[about[p]] = None
             /\ Resume(p, "add", "countSender")
       \/ RepSays(p, {"done", "error"})
             /\ Resume(p, "countPaymaster", "countSender")
    /\ OnReputation(Rep!Request(p, SeenJob(about[p].sender)))

CountSender(p) ==
    /\ \/ pc[p] = "seen" /\ PaymasterOf[about[p]] = None
             /\ Resume(p, "add", "countSender")
       \/ RepSays(p, {"done"}) /\ Resume(p, "countPaymaster", "countSender")
    /\ OnReputation(Rep!Request(p, SeenJob(about[p].sender)))

Counted(p) ==
    /\ RepSays(p, {"done"})
    /\ Resume(p, "countSender", "hash")
    /\ OnMempool(UpdateSeen(p))

\* A count that fails ends the call; the operation stays in the pool.
NotCounted(p) ==
    /\ RepSays(p, {"error"})
    /\ \E at \in {"countPaymaster", "countSender"} : Answer(p, at, "error")
    /\ pc[p] = "seen" /\ OnMempool(WriteFails(p))

Hash(p) ==
    /\ \E answer \in {"hash", "error"} : Answer(p, "hash", answer)
    /\ NoService

SendStep(p) ==
    \/ Validated(p) \/ Invalid(p) \/ NotAdded(p)
    \/ RoomLeft(p) \/ AskStake(p) \/ StakeAllows(p) \/ StakeRefuses(p)
    \/ CountPaymaster(p) \/ CountSender(p) \/ Counted(p) \/ NotCounted(p)
    \/ Hash(p)

(***************************************************************************)
(* eth_validateUserOperation: the fees, then the validation.               *)
(***************************************************************************)
ValidateUserOp(p, op) ==
    /\ Arrive(p, "validate", "fees", op)
    /\ OnMempool(BeginCheck(p, op))

FeesAllow(p) ==
    /\ PoolSays(p, {"valid"})
    /\ Resume(p, "fees", "validateOnly")
    /\ NoService

FeesForbid(p) ==
    /\ PoolSays(p, {"feeTooLow"})
    /\ Answer(p, "fees", "feeTooLow")
    /\ NoService

Simulated(p) ==
    /\ \E answer \in {"valid", "invalid"} : Answer(p, "validateOnly", answer)
    /\ NoService

(***************************************************************************)
(* eth_estimateUserOperationGas: the operation, its fees and its paymaster *)
(* left out, is simulated without the rules, and then its call; no service *)
(* is asked.                                                               *)
(***************************************************************************)
Estimate(p, op) ==
    /\ Arrive(p, "estimate", "simulate", op)
    /\ NoService

EstimateGas(p) == Resume(p, "simulate", "estimateGas") /\ NoService

Estimated(p) ==
    /\ \/ Answer(p, "simulate", "invalid")
       \/ \E answer \in {"estimated", "reverted"} : Answer(p, "estimateGas", answer)
    /\ NoService

(***************************************************************************)
(* The Debug module: clearState clears the mempool and then the            *)
(* reputation; setReputation sets one after another.                       *)
(***************************************************************************)
ClearState(p) ==
    /\ Arrive(p, "clear", "clearPool", None)
    /\ OnMempool(BeginClear(p))

\* Defect: the reputation is cleared though the mempool was not.
ClearReputationAnyway(p) ==
    /\ PoolSays(p, {"cleared", "error"})
    /\ Resume(p, "clearPool", "clearReputation")
    /\ OnReputation(Rep!Request(p, GlobalJob("clear")))

ClearReputation(p) ==
    /\ PoolSays(p, {"cleared"})
    /\ Resume(p, "clearPool", "clearReputation")
    /\ OnReputation(Rep!Request(p, GlobalJob("clear")))

ClearEnds(p) ==
    /\ \/ PoolSays(p, {"error"}) /\ Answer(p, "clearPool", "error")
       \/ RepSays(p, {"cleared", "error"})
             /\ Answer(p, "clearReputation", rout[p])
    /\ NoService

\* The reputations of a batch that are still to be set are what the call is
\* about.
SetReputation(p, batch) ==
    /\ \A i \in DOMAIN batch : Rep!WithinBounds(batch[i])
    /\ Arrive(p, "set", "set", batch)
    /\ NoService

SetNext(p) ==
    /\ flow[p] = "set" /\ about[p] # <<>>
    /\ flow' = [flow EXCEPT ![p] = "setting"]
    /\ about' = [about EXCEPT ![p] = Tail(@)]
    /\ UNCHANGED <<reply, before>>
    /\ OnReputation(Rep!Request(p, Head(about[p])))

SetEnds(p) ==
    /\ \/ RepSays(p, {"done"}) /\ Resume(p, "setting", "set")
       \/ RepSays(p, {"error"}) /\ Answer(p, "setting", "error")
       \/ about[p] = <<>> /\ Answer(p, "set", "ok")
    /\ NoService

DumpMempool(p) ==
    /\ Arrive(p, "dumpMempool", "dumpPool", None)
    /\ OnMempool(BeginDump(p))

DumpReputation(p) ==
    /\ Arrive(p, "dumpReputation", "dumpRep", None)
    /\ OnReputation(Rep!Request(p, GlobalJob("dump")))

DumpEnds(p) ==
    /\ \/ PoolSays(p, {"dumped"}) /\ Answer(p, "dumpPool", "dumped")
       \/ RepSays(p, {"dumped", "threw"}) /\ Answer(p, "dumpRep", rout[p])
    /\ NoService

\* The bundler removes an operation it has found in the pool.
Clean(p, op) ==
    /\ store[KeyOf(op)] = op
    /\ Arrive(p, "bundle", "clean", op)
    /\ OnMempool(BeginRemove(p, op))

CleanEnds(p) ==
    /\ PoolSays(p, {"removed", "error"}) /\ Answer(p, "clean", out[p])
    /\ NoService

-----------------------------------------------------------------------------
ApiCall(p) ==
    \/ \E op \in UserOps :
          Send(p, op) \/ ValidateUserOp(p, op) \/ Estimate(p, op) \/ Clean(p, op)
    \/ ClearState(p) \/ DumpMempool(p) \/ DumpReputation(p)
    \/ \E b \in Batches : SetReputation(p, b)

ApiStep(p) ==
    \/ SendStep(p) \/ Validation(p)
    \/ FeesAllow(p) \/ FeesForbid(p) \/ Simulated(p)
    \/ EstimateGas(p) \/ Estimated(p)
    \/ ClearReputation(p) \/ ClearEnds(p)
    \/ SetNext(p) \/ SetEnds(p)
    \/ DumpEnds(p) \/ CleanEnds(p)

\* The database answers a call one of the services awaits, or fails to write.
\* Where the mempool waits for the reputation service it takes no step of its
\* own here.
ServiceStep(p) ==
    /\ \/ OnMempool(pc[p] \notin {"countMany", "seen"}
                        /\ (Step(p) \/ WriteFails(p)))
       \/ OnReputation(Rep!Step(p) \/ Rep!WriteFails(p))
    /\ UNCHANGED calls

\* The process crashes and starts again: the calls are gone.
Restart ==
    /\ "crash" \in Faults
    /\ \E p \in Proc : flow[p] # "idle"
    /\ flow' = [p \in Proc |-> "idle"]
    /\ reply' = [p \in Proc |-> "none"]
    /\ about' = [p \in Proc |-> None]
    /\ before' = [p \in Proc |-> None]
    /\ Crash \/ ((\A p \in Proc : pc[p] = "idle") /\ UNCHANGED vars)
    /\ Rep!Crash \/ ((\A p \in Proc : rpc[p] = "idle") /\ UNCHANGED reputationVars)

ExecutorNext ==
    \/ \E p \in Proc : ApiCall(p) \/ ApiStep(p) \/ ServiceStep(p)
    \/ Restart

ExecutorSpec == ExecutorInit /\ [][ExecutorNext]_executorVars
-----------------------------------------------------------------------------
(***************************************************************************)
(* What the calls promise, one at a time, wherever the process crashes and *)
(* whichever writes fail.                                                  *)
(***************************************************************************)
\* clearState deletes reputations only when the mempool is empty, and neither
\* when clearing the mempool failed: an operation of a banned address that is
\* still pooled is not freed of the ban (debug.ts:29-33).
ClearInOrder ==
    \A p \in Proc : flow[p] = "clearReputation" => Stored = {}

\* What a call answers is true of both services when it answers: an operation
\* whose hash is returned is in the pool, and its paymaster and its sender
\* have been counted; after clearState nothing is left in either.
AnswersHold ==
    [][\A p \in Proc : flow[p] # "idle" /\ flow'[p] = "idle" =>
          /\ reply'[p] = "hash" =>
                /\ store'[KeyOf(about[p])] = about[p]
                /\ index'[KeyOf(about[p])] > 0
                /\ \A a \in {about[p].sender, PaymasterOf[about[p]]} \ {None} :
                      entry'[a] # None /\ entry'[a].seen > 0
          /\ reply'[p] = "cleared" =>
                Stored' = {} /\ \A a \in Addresses : entry'[a] = None
       ]_executorVars

PooledOf(s) == {k \in Stored : k[1] = s}

\* The collection names every saved entry once, and nothing else.
PoolSound ==
    \A k \in Keys : index[k] = IF store[k] = None THEN 0 ELSE 1

\* A sender whose reputation bans it gets no operation into the pool beyond its
\* number: what checkStake said still holds when the operation is saved
\* (MempoolService.ts:66-77, 185-187).  A key without entry, which a failed
\* write leaves behind, makes fetchAll answer nothing: then nobody's
\* operations are counted, and nobody is limited.
BannedSenderLimited ==
    [][\A k \in Stored' \ Stored :
          /\ entry[k[1]] # None /\ Rep!IsBanned(entry[k[1]])
          /\ PoolSound'
          => Cardinality(PooledOf(k[1])') <= MaxPerSender
       ]_executorVars

\* Between two records nothing has changed but that addresses are listed, of
\* the operation's sender and entities, for which nothing is saved.
OnlyLists(was, now, op) ==
    /\ now.index = was.index /\ now.store = was.store /\ now.entry = was.entry
    /\ \A a \in Addresses :
          \/ now.coll[a] = was.coll[a]
          \/ /\ now.coll[a] > was.coll[a] /\ now.entry[a] = None
             /\ a \in EntitiesOf[op] \cup {op.sender}

\* An operation that is refused leaves the mempool and the reputations as it
\* found them: what is refused by the validation, by the fees or by the limit
\* of its sender is neither pooled nor counted against anybody, and asking
\* whether an operation is valid or what gas it takes changes nothing either.
\* All it may leave is what checkStake does: an entity of the operation in the
\* collection without entry (ReputationService.ts:36), whose next dump throws.
\* An estimate does not leave even that.
RefusedOnlyLists ==
    [][\A p \in Proc :
          flow[p] # "idle" /\ flow'[p] = "idle" =>
          /\ reply'[p] \in {"invalid", "feeTooLow", "senderFull", "valid"}
                => OnlyLists(before[p], Records', about[p])
          /\ reply'[p] \in {"estimated", "reverted"} => Records' = before[p]
       ]_executorVars
=============================================================================
