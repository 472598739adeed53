---------------------------- MODULE CustomTracer ----------------------------
(***************************************************************************)
(* The tracer of a simulated validation (src/src/customTracer.js, sent by  *)
(* GethTracer.ts) and the virtual machine that calls it.                   *)
(*                                                                         *)
(* The machine is the node's, outside this repository: its frames, and the *)
(* entry point's simulateValidation, which calls the factory, the account  *)
(* and the paymaster in turn, executes NUMBER in between, and reverts with *)
(* its result.  It calls step before every opcode, the one that runs out   *)
(* of gas included, and enter and exit around every frame but the first.   *)
(* What the machine really did is kept in `did` and `ended`, for the       *)
(* properties alone.                                                       *)
(***************************************************************************)
EXTENDS Naturals, Sequences, FiniteSets, SequencesExt

CONSTANTS
    EntryPoint, Account, Factory, Paymaster,    \* addresses
    Others,         \* further contracts, called by those
    None,           \* no address, no data
    UserOps,        \* which of initCode and paymasterAndData they have
    Plain,          \* a slot that is no hash: a variable's number below 128
    Inputs,         \* what is hashed: an address and a mapping's position
    Opcodes,        \* opcodes executed inside the entities' frames
    Exhausting,     \* and those of them on which a frame may run out of gas
    Kinds,          \* and how frames are opened: "CALL", "DELEGATECALL",
                    \* "CREATE2"
    Callees,        \* which contracts each of them calls
    MaxOps,         \* bound: opcodes executed inside the entities' frames of
                    \* each operation
    MaxDepth,       \* bound: open frames
    Words           \* words of context a paymaster may return

Addrs == {EntryPoint, Account, Factory, Paymaster} \cup Others

\* A slot within 128 of the hash of an input is written as the input; a number
\* taken for a hash is 0, and every Plain slot is within 128 of it.
Slots == Inputs \cup {Plain}

\* Opcodes counted as violations in every frame, "TIMESTAMP" for all those
\* that only read something of the block or the machine.
Banned == {"TIMESTAMP", "CREATE2"}

\* Opcodes of the model whose name holds the word CALL.
NamesCall == {"CALL", "DELEGATECALL", "CALLER"}

ASSUME TracerAssumption ==
    /\ MaxOps \in [UserOps -> Nat] /\ MaxDepth \in Nat /\ Words \subseteq Nat
    /\ Opcodes \subseteq {"SLOAD", "KECCAK256", "GAS", "NUMBER", "TIMESTAMP",
                          "CALLER"}
    /\ Kinds \subseteq {"CALL", "DELEGATECALL", "CREATE2"}
    /\ UserOps \subseteq [initCode : BOOLEAN, paymaster : BOOLEAN]
    /\ Exhausting \subseteq Opcodes /\ Inputs \subseteq Addrs \X Nat
    /\ Callees \in [Addrs -> SUBSET Addrs]
    /\ Plain \notin Inputs /\ None \notin Addrs \cup Slots \cup Nat

VARIABLES
    userOp,         \* the operation
    frames,         \* the open frames: code, storage context, type, method
    phase,          \* how many NUMBERs the entry point has executed
    due,            \* the entity of this phase has still to be called
    top,            \* the top of the stack, after a KECCAK256
    context,        \* words of context the paymaster returned
    ops,            \* opcodes that may still be executed inside those frames
    did,            \* what was really executed: address, opcode, data
    first,          \* the phase in which each address was first entered
    ended,          \* the frames that ended, in order
    addrs,          \* this.addrs
    order,          \* the addresses of this.output, in order of insertion
    output,         \* this.output: what is recorded for each address
    prevOp,         \* this.prevOp, with the data of a KECCAK256
    calls,          \* this.calls
    numberCounter   \* this.numberCounter

evm == <<userOp, frames, phase, due, top, context, ops, did, first, ended>>
tracer == <<addrs, order, output, prevOp, calls, numberCounter>>

Depth == Len(frames)
Running == frames[Depth]

-----------------------------------------------------------------------------
(***************************************************************************)
(* The tracer.                                                             *)
(***************************************************************************)
Fresh(number) ==
    [number |-> number, storage |-> <<>>, keccak |-> <<>>,
     violation |-> [o \in Banned \cup {"GAS", "NUMBER"} |-> 0]]

\* An object lists small integers before its other keys.
AddSlot(storage, slot) ==
    IF Contains(storage, slot) THEN storage
    ELSE IF slot = Plain THEN <<slot>> \o storage
    ELSE Append(storage, slot)

\* A key assigned again keeps its place.
AddHash(keccak, input, hash) ==
    IF \E i \in DOMAIN keccak : keccak[i].input = input
    THEN [i \in DOMAIN keccak |-> IF keccak[i].input = input
                                  THEN [input |-> input, hash |-> hash]
                                  ELSE keccak[i]]
    ELSE Append(keccak, [input |-> input, hash |-> hash])

\* Defect: the hash is recorded for the storage in use.
HashedByContext(out, to) ==
    IF prevOp.op = "KECCAK256"
    THEN [out EXCEPT ![Running.ctx].keccak = AddHash(@, prevOp.data, top)]
    ELSE out

\* pKeccakAfter: the opcode after a KECCAK256 finds the hash on the stack.
Hashed(out, to) ==
    IF prevOp.op = "KECCAK256"
    THEN [out EXCEPT ![to].keccak = AddHash(@, prevOp.data, top)]
    ELSE out

\* Defect: a slot is recorded for the contract whose code runs.
SloadByCode(out, slot) ==
    [out EXCEPT ![Running.code].storage = AddSlot(@, slot)]

pSloadStore(out, slot) ==
    [out EXCEPT ![Running.ctx].storage = AddSlot(@, slot)]

\* step, as far as it changes this.output.
Stepped(opcode, data) ==
    LET to    == addrs[Depth]
        hash  == Hashed(output, to)
        gas   == IF Depth > 1 /\ prevOp.op = "GAS" /\ opcode \notin NamesCall
                 THEN [hash EXCEPT ![to].violation["GAS"] = 1]
                 ELSE hash
        bad   == opcode \in Banned \/ (opcode = "NUMBER" /\ Depth > 1)
    IN  IF opcode = "SLOAD" THEN pSloadStore(gas, data)
        ELSE IF bad THEN [gas EXCEPT ![to].violation[opcode] = @ + 1]
        ELSE gas

\* The other things step assigns, but for the end of the first frame.
StepRest(opcode, data) ==
    /\ prevOp' = [op |-> opcode,
                  data |-> IF opcode = "KECCAK256" THEN data ELSE None]
    /\ numberCounter' = IF opcode = "NUMBER" /\ Depth = 1
                        THEN numberCounter + 1 ELSE numberCounter

\* Defect: the number is forgotten.
initStorageUnnumbered(out, to) ==
    IF Contains(order, to) THEN out ELSE [out EXCEPT ![to] = Fresh(None)]

initStorage(out, to) ==
    IF Contains(order, to) THEN out
    ELSE [out EXCEPT ![to] = Fresh(numberCounter)]

step(opcode, data) ==
    /\ output' = Stepped(opcode, data)
    /\ StepRest(opcode, data)
    /\ UNCHANGED <<addrs, order, calls>>

\* An opcode that opens a frame: step, then enter.
enter(opcode, to, method) ==
    /\ output' = initStorage(Stepped(opcode, None), to)
    /\ order' = IF Contains(order, to) THEN order ELSE Append(order, to)
    /\ calls' = Append(calls, [type |-> opcode, to |-> to, method |-> method])
    /\ addrs' = Append(addrs, to)
    /\ StepRest(opcode, None)

\* The last opcode of a frame: step, then exit.
exit(opcode, data, type, words) ==
    /\ output' = Stepped(opcode, data)
    /\ calls' = Append(calls, [type |-> type, data |-> <<"context", words>>])
    /\ addrs' = Front(addrs)
    /\ StepRest(opcode, data)
    /\ UNCHANGED order

\* Defect: ten times as many.
KeptLong == 4990

\* Only the first 1000 characters of the data a call ends with are kept, 499
\* bytes; a result of the entry point is a selector and some words.
Kept == 499

Cut(name, words) ==
    <<IF 4 + 32 * words <= Kept THEN name ELSE "cut", words>>

\* The last opcode of the first frame.
stepEnd(opcode, name, words) ==
    /\ output' = Stepped(opcode, None)
    /\ calls' = Append(calls, [type |-> opcode, data |-> Cut(name, words)])
    /\ addrs' = Front(addrs)
    /\ StepRest(opcode, None)
    /\ UNCHANGED order

-----------------------------------------------------------------------------
(***************************************************************************)
(* The machine.                                                            *)
(***************************************************************************)
Entity(n) == CASE n = 0 -> Factory [] n = 1 -> Account [] n = 2 -> Paymaster

Method(n) == CASE n = 0 -> "create" [] n = 1 -> "validateUserOp"
               [] n = 2 -> "validatePaymasterUserOp"

Called(n) == n = 1 \/ (n = 0 /\ userOp.initCode) \/ (n = 2 /\ userOp.paymaster)

\* The tracer's first address is the entry point's (GethTracer).
Init ==
    /\ userOp \in UserOps
    /\ frames = <<[code |-> EntryPoint, ctx |-> EntryPoint,
                   type |-> "top", method |-> "validateUserOp"]>>
    /\ phase = 0
    /\ due = userOp.initCode
    /\ top = None
    /\ context = 0
    /\ ops = MaxOps[userOp]
    /\ did = {}
    /\ first = [a \in Addrs |-> IF a = EntryPoint THEN 0 ELSE None]
    /\ ended = <<>>
    /\ addrs = <<EntryPoint>>
    /\ order = <<EntryPoint>>
    /\ output = [a \in Addrs |-> Fresh(0)]
    /\ prevOp = [op |-> "", data |-> None]
    /\ calls = <<>>
    /\ numberCounter = 0

\* An opcode executed by the running frame.  A KECCAK256 leaves a hash on the
\* stack; one that runs out of gas is lost, and its caller goes on with a zero
\* there, which says that the call has failed.
Execute(opcode, data, completes) ==
    /\ top' = IF opcode # "KECCAK256" THEN None
              ELSE IF completes THEN data ELSE Plain
    /\ did' = did \cup
                {<<IF opcode = "SLOAD" THEN Running.ctx ELSE Running.code,
                   opcode, data>>} \cup
                (IF completes \/ opcode # "KECCAK256" THEN {}
                 ELSE {<<frames[Depth - 1].code, "LOST", data>>})
    /\ IF Depth > 1 THEN ops > 0 /\ ops' = ops - 1 ELSE UNCHANGED ops

DataOf(opcode) ==
    CASE opcode = "SLOAD" -> Slots
      [] opcode = "KECCAK256" -> Inputs
      [] OTHER -> {None}

\* An opcode inside an entity's frame that neither opens nor closes a frame.
Run(opcode, data) ==
    /\ Depth > 1
    /\ Execute(opcode, data, TRUE)
    /\ step(opcode, data)
    /\ UNCHANGED <<userOp, frames, phase, due, context, first, ended>>

\* A frame is opened.
Open(opcode, to, method) ==
    /\ Execute(opcode, None, TRUE)
    /\ frames' = Append(frames,
                    [code |-> to, type |-> opcode, method |-> method,
                     ctx |-> IF opcode = "DELEGATECALL" THEN Running.ctx
                             ELSE to])
    /\ first' = IF first[to] = None THEN [first EXCEPT ![to] = phase]
                ELSE first
    /\ enter(opcode, to, method)
    /\ UNCHANGED <<userOp, phase, context, ended>>

\* The entry point calls the entity of the phase.
CallEntity ==
    /\ Depth = 1 /\ due
    /\ due' = FALSE
    /\ Open("CALL", Entity(phase), Method(phase))

\* A contract calls another or itself, or the factory creates the account.
Call(opcode, to) ==
    /\ Depth > 1 /\ Depth < MaxDepth
    /\ IF opcode = "CREATE2"
       THEN /\ to = Account /\ first[Account] = None
            /\ Running.code = Factory /\ phase = 0
       ELSE /\ to \in Callees[Running.code]
            /\ to = Account /\ userOp.initCode => first[Account] # None
    /\ UNCHANGED due
    /\ Open(opcode, to, "other")

\* The entity the entry point called last has failed.
Failed == ended # <<>> /\ Last(ended).end = "REVERT"

\* The entry point goes on to the next phase.
Number ==
    /\ Depth = 1 /\ ~due /\ phase < 2 /\ ~Failed
    /\ phase' = phase + 1
    /\ due' = Called(phase + 1)
    /\ Execute("NUMBER", None, TRUE)
    /\ step("NUMBER", None)
    /\ UNCHANGED <<userOp, frames, context, first, ended>>

\* The results of simulateValidation are errors of the entry point's
\* interface (EntryPoint__factory.ts): a word for where returnInfo is, two for
\* every stake and one for the aggregator, then returnInfo itself, the length
\* of its context, and the context.
ReturnInfo == {"preOpGas", "prefund", "sigFailed", "validAfter", "validUntil",
               "paymasterContext"}

Stakes == {"senderInfo", "factoryInfo", "paymasterInfo"}

ResultWords ==
    [ValidationResult |->
        1 + 2 * Cardinality(Stakes) + Cardinality(ReturnInfo) + 1,
     ValidationResultWithAggregation |->
        1 + 2 * Cardinality(Stakes) + 3 + Cardinality(ReturnInfo) + 1]

\* What is known of a frame when it ends.
Ending(type, words) ==
    [to |-> Running.code, type |-> Running.type, method |-> Running.method,
     end |-> type, words |-> words]

Close(opcode, data, type, words) ==
    /\ Depth > 1
    /\ frames' = Front(frames)
    /\ ended' = Append(ended, Ending(type, words))
    /\ context' = IF Depth = 2 /\ phase = 2 THEN words ELSE context
    /\ exit(opcode, data, type, words)
    /\ UNCHANGED <<userOp, phase, due, first>>

\* A frame returns; only the paymaster's has something to say.
Return ==
    /\ \E words \in IF Running.method = "validatePaymasterUserOp"
                    THEN Words ELSE {0} :
          Close("RETURN", None, "RETURN", words)
    /\ top' = None
    /\ UNCHANGED <<ops, did>>

\* A frame ends with an error: it reverts, or an opcode runs out of gas.
Revert ==
    /\ Close("REVERT", None, "REVERT", 0)
    /\ top' = None
    /\ UNCHANGED <<ops, did>>

Exhaust(opcode, data) ==
    /\ Depth > 1
    /\ Execute(opcode, data, FALSE)
    /\ Close(opcode, data, "REVERT", 0)

\* The entry point's own end: a result when every phase is over, a failure
\* when a call or one of its own checks fails.
Result(name, words) ==
    /\ Depth = 1
    /\ stepEnd("REVERT", name, words)
    /\ frames' = <<>>
    /\ top' = None
    /\ UNCHANGED <<userOp, phase, due, context, ops, did, first, ended>>

Succeed ==
    /\ phase = 2 /\ ~due /\ ~Failed
    /\ \E name \in DOMAIN ResultWords :
          Result(name, ResultWords[name] + context)

FailOp == Result("FailedOp", 4)

\* The call runs out of the gas it was given: the first frame has no exit.
OutOfGas ==
    /\ Depth = 1
    /\ frames' = <<>>
    /\ UNCHANGED <<userOp, phase, due, top, context, ops, did, first, ended>>
    /\ UNCHANGED tracer

Machine ==
    \/ \E opcode \in Opcodes : \E data \in DataOf(opcode) : Run(opcode, data)
    \/ \E opcode \in Exhausting : \E data \in DataOf(opcode) :
          Exhaust(opcode, data)
    \/ CallEntity \/ Number
    \/ \E opcode \in Kinds, to \in Addrs : Call(opcode, to)
    \/ Return \/ Revert
    \/ Succeed \/ FailOp \/ OutOfGas

TracerSpec == Init /\ [][Machine]_<<evm, tracer>>
-----------------------------------------------------------------------------
(***************************************************************************)
(* What the trace must tell the validation.                                *)
(***************************************************************************)
\* The rules are applied to what the trace says of an address: its violations
\* are opcodes its own code executed, every one of them, whatever frames were
\* open and failed in between; its slots are those of its own storage, by
\* whichever code they were accessed; and its number is the phase in which it
\* was first entered (customTracer.js:47-55, 80-107, 113-121, 163-171).
TraceTells ==
    \A a \in Addrs :
        /\ \A o \in Banned :
              output[a].violation[o] > 0 <=> <<a, o, None>> \in did
        /\ a # EntryPoint =>
              (output[a].violation["NUMBER"] > 0
                  <=> <<a, "NUMBER", None>> \in did)
        /\ \A s \in Slots :
              Contains(output[a].storage, s) <=> <<a, "SLOAD", s>> \in did
        /\ Contains(order, a) <=> first[a] # None
        /\ Contains(order, a) => output[a].number = first[a]

\* A hash is written down one opcode later, when the frame that computed it
\* may be gone: what is recorded for a contract is a hash this contract has
\* computed itself, or a zero in place of one that was lost in a frame it had
\* called (customTracer.js:30-32, 123-138).
HashesOwn ==
    \A a \in Addrs : \A i \in DOMAIN output[a].keccak :
        LET k == output[a].keccak[i] IN
        \/ k.hash = k.input /\ <<a, "KECCAK256", k.input>> \in did
        \/ k.hash = Plain /\ <<a, "LOST", k.input>> \in did
=============================================================================
