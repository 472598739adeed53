-------------------------- MODULE UserOpValidation --------------------------
(***************************************************************************)
(* The validation of an operation (src/src/services/UserOpValidation.ts):  *)
(* simulateCompleteValidation traces the entry point's simulateValidation  *)
(* with the tracer of CustomTracer and applies its rules to the trace.     *)
(* An operation is validated when it is sent and, with the hash of the     *)
(* code it used then, once more before it is bundled.                      *)
(*                                                                         *)
(* One action is what the service does from one awaited answer to the      *)
(* next; the answers of the reputation service are left open, and so is    *)
(* what happens on the chain in between.                                   *)
(***************************************************************************)
EXTENDS CustomTracer

CONSTANTS
    AddrOrder,      \* the addresses, sorted as strings
    Versions,       \* codes a contract may have
    MaxRounds,      \* bound: validations after the first
    AgainOps        \* bound: opcodes inside the frames of those

ASSUME ValidationAssumption ==
    /\ AddrOrder \in Seq(Addrs) /\ ToSet(AddrOrder) = Addrs /\ Versions # {}
    /\ MaxRounds \in Nat /\ AgainOps \in Nat
    /\ None \notin [addresses : Seq(Addrs), codes : Seq(Versions)]

VARIABLES
    pc,         \* where the validation is
    next,       \* the first contract the storage rules have not passed
    staked,     \* entities found staked by this validation
    hash,       \* the code the previous validation saw, by address
    round,      \* how many validations there were before
    code,       \* the code of each contract on the chain
    ran,        \* the code each validation's trace ran, for the properties
    replaced    \* the validations between the two traces of which code changed

validation == <<pc, next, staked, hash, round>>
chain == <<code, ran, replaced>>
vars == <<evm, tracer, validation, chain>>

-----------------------------------------------------------------------------
(***************************************************************************)
(* parseCalls: every end of a call is paired with the last one opened.     *)
(***************************************************************************)
TopCall == [type |-> "top", method |-> "validateUserOp", to |-> None]

\* Methods of the interfaces calls are parsed by.
KnownMethods == {"validateUserOp", "validatePaymasterUserOp"}

\* Of a creation, neither how it ended nor its data is kept; of a method that
\* is not known, a failure leaves nothing.
Parsed(call, end) ==
    IF call.type = "CREATE2"
    THEN [to |-> call.to, type |-> call.type, end |-> "RETURN",
          method |-> "", data |-> None]
    ELSE [to |-> call.to, type |-> call.type, end |-> end.type,
          method |-> IF end.type = "REVERT" /\ call.method \notin KnownMethods
                     THEN None ELSE call.method,
          data |-> end.data]

\* Defect: an end is paired with the first call that is open.
ParseCallFirst(acc, c) ==
    IF c.type \notin {"REVERT", "RETURN"}
    THEN [acc EXCEPT !.stack = Append(@, c)]
    ELSE IF acc.stack = <<>>
    THEN [acc EXCEPT !.out = Append(@, Parsed(TopCall, c))]
    ELSE [stack |-> Tail(acc.stack),
          out |-> Append(acc.out, Parsed(Head(acc.stack), c))]

ParseCall(acc, c) ==
    IF c.type \notin {"REVERT", "RETURN"}
    THEN [acc EXCEPT !.stack = Append(@, c)]
    ELSE IF acc.stack = <<>>
    THEN [acc EXCEPT !.out = Append(@, Parsed(TopCall, c))]
    ELSE [stack |-> Front(acc.stack),
          out |-> Append(acc.out, Parsed(Last(acc.stack), c))]

parseCalls(cs) == FoldLeft(ParseCall, [stack |-> <<>>, out |-> <<>>], cs)

(***************************************************************************)
(* The result: parseError reads the data of the last call, parseErrorResult*)
(* takes a failure for a refusal.                                          *)
(***************************************************************************)
LastCall == Last(calls)

\* The results the last call may parse as: when the first frame ran out of gas
\* the last call is one inside, which may revert with anything.
Results ==
    {name \in DOMAIN ResultWords :
        /\ calls # <<>> /\ LastCall.type = "REVERT"
        /\ LastCall.data[1] \in {name, "context"}}

Validated == Results # {}

\* The entry point's returnInfo has validAfter and validUntil, no deadline;
\* and the sum with nothing, which is no number, is not later than now.
ExpiresTooSoon == "deadline" \in ReturnInfo

(***************************************************************************)
(* The rules on what the trace says of one contract.                       *)
(***************************************************************************)
\* numberToEntityTitle: any other number means the factory.
Title(a) == CASE output[a].number = 1 -> "account"
              [] output[a].number = 2 -> "paymaster"
              [] OTHER -> "factory"

\* stakeInfoEntities: no factory without initCode, no paymaster without data.
EntityOf(a) ==
    CASE Title(a) = "account" -> Account
      [] Title(a) = "factory" -> IF userOp.initCode THEN Factory ELSE None
      [] Title(a) = "paymaster" -> IF userOp.paymaster THEN Paymaster ELSE None

\* Defect: only the entities themselves are looked at.
UsesBannedOpcodeItself(a) ==
    /\ a \in {Account, Factory, Paymaster}
    /\ \E o \in DOMAIN output[a].violation :
          /\ output[a].violation[o] > 0
          /\ ~(o = "CREATE2" /\ output[a].violation[o] < 2
                              /\ Title(a) = "factory")

UsesBannedOpcode(a) ==
    \E o \in DOMAIN output[a].violation :
        /\ output[a].violation[o] > 0
        /\ ~(o = "CREATE2" /\ output[a].violation[o] < 2 /\ Title(a) = "factory")

\* isSlotAssociatedWith: only the first hash that starts with the address.
IsSlotAssociatedWith(a, slot, addr) ==
    LET i == SelectInSeq(output[a].keccak, LAMBDA k : k.input[1] = addr)
    IN  i > 0 /\ output[a].keccak[i].hash = slot

\* Defect: the account's slots are free even when it is being created.
SlotCallsCreated(a, slot) ==
    LET entity == EntityOf(a) IN
    IF IsSlotAssociatedWith(a, slot, Account) THEN "nothing"
    ELSE IF entity # None /\ (IsSlotAssociatedWith(a, slot, entity) \/ a = entity)
    THEN "stake" ELSE "refusal"

\* What one slot of contract a calls for: nothing, stake, or a refusal.
SlotCalls(a, slot) ==
    LET entity == EntityOf(a) IN
    IF IsSlotAssociatedWith(a, slot, Account)
    THEN IF userOp.initCode THEN "stake" ELSE "nothing"
    ELSE IF entity # None /\ (IsSlotAssociatedWith(a, slot, entity) \/ a = entity)
    THEN "stake" ELSE "refusal"

\* validationFailed is overwritten by every slot: the last one decides, but
\* for the paymaster, for which any slot will do.
Verdict(a) ==
    LET storage == output[a].storage IN
    IF a \in {EntryPoint, Account} \/ storage = <<>> THEN "nothing"
    ELSE IF a = Paymaster /\ userOp.paymaster THEN "stake"
    ELSE IF \E i \in DOMAIN storage : SlotCalls(a, storage[i]) = "refusal"
    THEN "refusal"
    ELSE SlotCalls(a, Last(storage))

\* The next contract that is not passed in silence.
Asked == SelectInSubSeq(order, next, Len(order),
                        LAMBDA a : Verdict(a) # "nothing")

\* A call of the paymaster to validate the operation that did not return an
\* empty context: one that failed has none, which is not the empty one.
ContextReturned ==
    userOp.paymaster /\
    \E i \in DOMAIN parseCalls(calls).out :
        LET c == parseCalls(calls).out[i] IN
        /\ c.to = Paymaster /\ c.method = "validatePaymasterUserOp"
        /\ ~(c.end = "RETURN" /\ c.data[2] = 0)

\* The code of the contracts the trace names, in the order of the addresses;
\* what is hashed does not name them.
Refer(as, a) == IF Contains(order, a) THEN Append(as, a) ELSE as

Referenced == FoldLeft(Refer, <<>>, AddrOrder)
CodeOf(as) == [i \in DOMAIN as |-> code[as[i]]]
-----------------------------------------------------------------------------
(***************************************************************************)
(* The validation, from one awaited answer to the next.                    *)
(***************************************************************************)
ValidationInit ==
    /\ Init
    /\ pc = "trace"
    /\ next = 1
    /\ staked = {}
    /\ hash = None
    /\ round = 0
    /\ code = [a \in Addrs |-> CHOOSE v \in Versions : TRUE]
    /\ ran = <<>>
    /\ replaced = {}

Simulation == UNCHANGED <<evm, tracer>>

Goto(from, to) ==
    /\ pc = from
    /\ pc' = to
    /\ UNCHANGED <<hash, round, chain>>
    /\ Simulation

\* The node executes the traced call.
Trace ==
    /\ pc = "trace" /\ frames # <<>>
    /\ Machine
    /\ UNCHANGED <<validation, chain>>

\* The trace arrives: its result is parsed, then every contract's opcodes.
\* No frame carries a value: the trace records none.
TraceArrives ==
    /\ pc = "trace" /\ frames = <<>>
    /\ LET clean == \A a \in ToSet(order) : ~UsesBannedOpcode(a) IN
       \/ Validated /\ clean /\ pc' = "contracts"
       \/ (Cardinality(Results) # 1 \/ ~clean) /\ pc' = "refused"
    /\ ran' = Append(ran, CodeOf(Referenced))
    /\ UNCHANGED <<next, staked, hash, round, code, replaced>>
    /\ Simulation

\* A contract touched slots it may not touch, or has no entity to ask for.
RefuseContract ==
    /\ pc = "contracts" /\ Asked # 0
    /\ LET a == order[Asked] IN Verdict(a) = "refusal" \/ EntityOf(a) = None
    /\ Goto("contracts", "refused")
    /\ UNCHANGED <<next, staked>>

\* checkStake finds the entity of a contract staked, or not.
EntityStaked ==
    /\ pc = "contracts" /\ Asked # 0
    /\ LET a == order[Asked] IN
          /\ Verdict(a) = "stake" /\ EntityOf(a) # None
          /\ staked' = staked \cup {EntityOf(a)}
    /\ next' = Asked + 1
    /\ Goto("contracts", "contracts")

EntityUnstaked ==
    /\ pc = "contracts" /\ Asked # 0
    /\ LET a == order[Asked] IN Verdict(a) = "stake" /\ EntityOf(a) # None
    /\ Goto("contracts", "refused")
    /\ UNCHANGED <<next, staked>>

\* The rules after the calls: the deadline, and the stake of an aggregator.
AfterCalls ==
    IF ExpiresTooSoon THEN {"refused"}
    ELSE IF "ValidationResultWithAggregation" \in Results
    THEN {"prestate", "refused"} ELSE {"prestate"}

ContractsPass ==
    /\ pc = "contracts" /\ Asked = 0
    /\ \E to \in IF ContextReturned THEN {"context"} ELSE AfterCalls :
          Goto("contracts", to)
    /\ UNCHANGED <<next, staked>>

PaymasterStaked ==
    /\ pc = "context"
    /\ \E to \in AfterCalls : Goto("context", to)
    /\ staked' = staked \cup {Paymaster}
    /\ UNCHANGED next

PaymasterUnstaked ==
    /\ Goto("context", "refused")
    /\ UNCHANGED <<next, staked>>

\* Defect: the hash of the first validation is not looked at.
PrestateUnchecked ==
    /\ pc = "prestate"
    /\ pc' = "accepted"
    /\ hash' = [addresses |-> Referenced, codes |-> CodeOf(Referenced)]
    /\ UNCHANGED <<next, staked, round, chain>>
    /\ Simulation

\* The second trace arrives, with the code of the contracts: it must be the
\* code the first validation saw, when there was one.
Prestate ==
    /\ pc = "prestate"
    /\ IF hash # None /\ hash.codes # CodeOf(Referenced)
       THEN pc' = "refused" /\ UNCHANGED hash
       ELSE /\ pc' = "accepted"
            /\ hash' = [addresses |-> Referenced, codes |-> CodeOf(Referenced)]
    /\ UNCHANGED <<next, staked, round, chain>>
    /\ Simulation

\* The operation is validated again before it is bundled.
Revalidate ==
    /\ pc = "accepted" /\ round < MaxRounds
    /\ pc' = "trace"
    /\ round' = round + 1
    /\ next' = 1
    /\ staked' = {}
    /\ ops' = AgainOps
    /\ UNCHANGED <<userOp, hash, chain>>
    /\ frames' = <<[code |-> EntryPoint, ctx |-> EntryPoint,
                    type |-> "top", method |-> "validateUserOp"]>>
    /\ phase' = 0 /\ due' = userOp.initCode /\ top' = None /\ context' = 0
    /\ did' = {} /\ ended' = <<>>
    /\ first' = [a \in Addrs |-> IF a = EntryPoint THEN 0 ELSE None]
    /\ addrs' = <<EntryPoint>> /\ order' = <<EntryPoint>>
    /\ output' = [a \in Addrs |-> Fresh(0)]
    /\ prevOp' = [op |-> "", data |-> None]
    /\ calls' = <<>> /\ numberCounter' = 0

\* Somebody replaces the code of a contract: between two validations, or
\* between the two traces of one.
ReplaceCode ==
    /\ pc \in {"prestate", "accepted"}
    /\ \E a \in Others : \E v \in Versions \ {code[a]} :
          code' = [code EXCEPT ![a] = v]
    /\ replaced' = IF pc = "prestate" THEN replaced \cup {Len(ran)} ELSE replaced
    /\ UNCHANGED <<validation, ran>>
    /\ Simulation

Validate ==
    \/ TraceArrives
    \/ RefuseContract \/ EntityStaked \/ EntityUnstaked \/ ContractsPass
    \/ PaymasterStaked \/ PaymasterUnstaked
    \/ Prestate

Next == Trace \/ Validate \/ Revalidate \/ ReplaceCode

Spec == ValidationInit /\ [][Next]_vars

-----------------------------------------------------------------------------
(***************************************************************************)
(* What an accepted operation is.                                          *)
(***************************************************************************)
Accepted == pc = "accepted"

PCs == {"trace", "contracts", "context", "prestate", "accepted", "refused"}

\* Type invariant of the validation and the trace it judges.
TypeOK ==
    /\ pc \in PCs /\ next \in Nat /\ round \in Nat
    /\ staked \subseteq Addrs
    /\ code \in [Addrs -> Versions]
    /\ ToSet(order) \subseteq Addrs /\ ToSet(addrs) \subseteq Addrs
    /\ \A a \in Addrs : /\ output[a].number \in Nat
                        /\ ToSet(output[a].storage) \subseteq Slots
    /\ hash # None => hash.codes \in Seq(Versions)
    /\ \A i \in DOMAIN ran : ran[i] \in Seq(Versions)
    /\ replaced \subseteq DOMAIN ran

\* What parseCalls makes of the calls of a trace is what happened, at every
\* moment of it: each frame that has ended, in the order they ended, with its
\* own address and, but for a creation, its end and data, and its method where
\* it is known or the frame returned; and on the stack the frames still open.
\* What the first frame ends with comes after them
\* (UserOpValidation.ts:350-414, customTracer.js:63-76, 140-161).
CallsPaired ==
    LET parsed == parseCalls(calls)
        opened == Tail(frames)
    IN  /\ frames # <<>> =>
              /\ Len(parsed.stack) = Len(opened)
              /\ \A i \in DOMAIN opened : parsed.stack[i].to = opened[i].code
              /\ Len(parsed.out) = Len(ended)
        /\ Len(parsed.out) \in Len(ended) .. Len(ended) + 1
        /\ \A i \in DOMAIN ended :
              /\ parsed.out[i].to = ended[i].to
              /\ ended[i].type # "CREATE2" =>
                    /\ parsed.out[i].end = ended[i].end
                    /\ parsed.out[i].data[2] = ended[i].words
                    /\ ended[i].end = "RETURN" \/ ended[i].method \in KnownMethods
                          => parsed.out[i].method = ended[i].method

\* The entity on whose behalf a contract was first entered.
OnBehalf(a) == IF first[a] = None THEN None
               ELSE IF Called(first[a]) THEN Entity(first[a]) ELSE None

\* An accepted operation executed no banned opcode, wherever in the call tree
\* and under whichever delegation, but for one CREATE2 of a contract that the
\* factory's phase entered (UserOpValidation.ts:109-123).
AcceptedIsClean ==
    Accepted =>
        \A d \in did :
            /\ d[2] # "TIMESTAMP"
            /\ d[2] = "NUMBER" => d[1] = EntryPoint
            /\ d[2] = "CREATE2" => first[d[1]] = 0

\* The slots of contract a that count as the account's: those of a mapping by
\* it, and the plain ones when a frame that a had called ran out of gas while
\* it computed the hash of such a mapping.
CountsAsAccounts(a, slot) ==
    IF slot = Plain
    THEN \E d \in did : d[1] = a /\ d[2] = "LOST" /\ d[3][1] = Account
    ELSE slot[1] = Account

\* Of an accepted operation, every contract but the entry point and the
\* account itself that touched storage, none of it counting as the account's
\* (or any at all when the operation also creates the account), was entered on
\* behalf of an entity that this validation asked for and found staked
\* (UserOpValidation.ts:133-205).
AcceptedIsStaked ==
    Accepted =>
        \A a \in Addrs \ {EntryPoint, Account} :
            LET slots == {d[3] : d \in {e \in did : e[1] = a /\ e[2] = "SLOAD"}}
            IN  /\ slots # {}
                /\ userOp.initCode \/ \A s \in slots : ~CountsAsAccounts(a, s)
                => OnBehalf(a) \in staked

\* A paymaster that returned a context is staked, however its frame was
\* nested among others; and when the entry point had the last word, no
\* operation with an aggregator is accepted, which the bundler could not send:
\* its result, and one with a long context, is longer than what the tracer
\* keeps (UserOpValidation.ts:208-230, 324-327; customTracer.js:68).
AcceptedCanBeSent ==
    Accepted =>
        /\ context > 0 => Paymaster \in staked
        /\ addrs = <<>> => context < 2 /\ LastCall.data[1] = "ValidationResult"

\* Of an operation accepted any number of times, with the code replaced at any
\* moment: every validation ran the code of the one hash it is accepted by,
\* unless the code was replaced between the two traces of that very validation
\* (UserOpValidation.ts:91, 247-260).
RanPinnedCode ==
    Accepted => \A i \in DOMAIN ran : i \in replaced \/ ran[i] = hash.codes
=============================================================================
