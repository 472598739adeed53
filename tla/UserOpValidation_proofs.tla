----------------------- MODULE UserOpValidation_proofs -----------------------
(***************************************************************************)
(* What an accepted operation is, for any contracts, operations, hashes    *)
(* and traces of any length, and any number of validations.                *)
(***************************************************************************)
EXTENDS UserOpValidation, CustomTracer_proofs, Induction_proofs,
        WellFoundedInduction

\* The trace of this validation has passed the rules on opcodes.
Passed == {"contracts", "context", "prestate", "accepted"}

\* A contract the storage rules have nothing to say of, or the entity of
\* which was found staked.
Settled(a) == Verdict(a) = "nothing" \/ EntityOf(a) \in staked

ValidationInv ==
    /\ TracerInv
    /\ next \in Nat /\ next >= 1
    /\ pc = "trace" => next = 1
    /\ pc \in Passed => \A a \in ToSet(order) : ~UsesBannedOpcode(a)
    /\ pc \in Passed => \A i \in 1 .. Len(order) :
                           i < next \/ pc # "contracts" => Settled(order[i])

-----------------------------------------------------------------------------
(***************************************************************************)
(* The first of some positions, as SelectInSeq and SelectInSubSeq find it. *)
(***************************************************************************)
LEMMA LeastExists ==
    ASSUME NEW S \in SUBSET Nat, S # {}
    PROVE  /\ Min(S) \in S
           /\ \A k \in S : Min(S) <= k
<1>1. PICK m \in S : \A k \in S : <<k, m>> \notin OpToRel(<, Nat)
  BY NatLessThanWellFounded, WFMin
<1>2. \A k \in S : ~ (k < m)
  BY <1>1 DEF OpToRel
<1>3. \A k \in S : m <= k
  BY <1>2
<1> QED
  BY <1>3 DEF Min

\* isSlotAssociatedWith looks at a hash of an input that starts with the
\* address, if there is one.
LEMMA AssociatedHash ==
    ASSUME NEW a, NEW slot, NEW addr, IsSlotAssociatedWith(a, slot, addr),
           Len(output[a].keccak) \in Nat
    PROVE  \E i \in 1 .. Len(output[a].keccak) :
              /\ output[a].keccak[i].input[1] = addr
              /\ output[a].keccak[i].hash = slot
<1> DEFINE I == {i \in 1 .. Len(output[a].keccak) :
                    output[a].keccak[i].input[1] = addr}
           i0 == IF I # {} THEN Min(I) ELSE 0
<1>1. i0 > 0 /\ output[a].keccak[i0].hash = slot
  BY DEF IsSlotAssociatedWith, SelectInSeq
<1>2. I # {} /\ i0 = Min(I)
  BY <1>1
<1>3. Min(I) \in I
  <2>1. I \in SUBSET Nat
    OBVIOUS
  <2> HIDE DEF I
  <2> QED
    BY <1>2, <2>1, LeastExists
<1> QED
  BY <1>1, <1>2, <1>3

\* Asked is the first contract from next on that is not passed in silence.
LEMMA AskedIs ==
    ASSUME next \in Nat, next >= 1, Len(order) \in Nat
    PROVE  /\ Asked = 0 => \A i \in next .. Len(order) : Verdict(order[i]) = "nothing"
           /\ Asked # 0 => /\ Asked \in next .. Len(order)
                           /\ \A i \in next .. Asked - 1 :
                                 Verdict(order[i]) = "nothing"
<1> DEFINE I == {i \in next .. Len(order) : Verdict(order[i]) # "nothing"}
<1>1. Asked = IF I # {} THEN Min(I) ELSE 0
  BY DEF Asked, SelectInSubSeq
<1>2. I \in SUBSET Nat
  OBVIOUS
<1>3. CASE I = {}
  BY <1>1, <1>3
<1>4. CASE I # {}
  <2>1. Min(I) \in I /\ \A k \in I : Min(I) <= k
    BY <1>2, <1>4, LeastExists
  <2>2. Asked = Min(I)
    BY <1>1, <1>4
  <2>3. Asked \in next .. Len(order) /\ Asked # 0
    BY <2>1, <2>2
  <2>4. ASSUME NEW i \in next .. Asked - 1 PROVE Verdict(order[i]) = "nothing"
    <3>1. i \notin I
      BY <2>1, <2>2, <2>3
    <3>2. i \in next .. Len(order)
      BY <2>3
    <3> QED
      BY <3>1, <3>2
  <2> QED
    BY <2>3, <2>4
<1> QED
  BY <1>3, <1>4

-----------------------------------------------------------------------------
(***************************************************************************)
(* The steps.                                                              *)
(***************************************************************************)
\* What the rules look at does not change when the trace and staked do not.
LEMMA RulesKeep ==
    ASSUME Simulation
    PROVE  /\ UNCHANGED <<order, output>>
           /\ \A a : UsesBannedOpcode(a)' = UsesBannedOpcode(a)
           /\ \A a : EntityOf(a)' = EntityOf(a)
           /\ \A a : Verdict(a)' = Verdict(a)
<1>1. UNCHANGED <<order, output, userOp>>
  BY DEF Simulation, evm, tracer
<1>2. \A a : Title(a)' = Title(a) /\ EntityOf(a)' = EntityOf(a)
  BY <1>1 DEF Title, EntityOf
<1>3. \A a : UsesBannedOpcode(a)' = UsesBannedOpcode(a)
  BY <1>1, <1>2 DEF UsesBannedOpcode
<1>4. \A a, s, b : IsSlotAssociatedWith(a, s, b)' = IsSlotAssociatedWith(a, s, b)
  BY <1>1 DEF IsSlotAssociatedWith, SelectInSeq
<1>5. \A a, s : SlotCalls(a, s)' = SlotCalls(a, s)
  BY <1>1, <1>2, <1>4 DEF SlotCalls
<1>6. \A a : Verdict(a)' = Verdict(a)
  BY <1>1, <1>5 DEF Verdict
<1> QED
  BY <1>1, <1>2, <1>3, <1>6

LEMMA StaysSettled ==
    ASSUME Simulation, staked \subseteq staked'
    PROVE  \A a : Settled(a) => Settled(a)'
BY RulesKeep DEF Settled

LEMMA ValidationStep ==
    ASSUME ValidationInv, Next
    PROVE  ValidationInv'
<1>1. TracerInv /\ next \in Nat /\ next >= 1
  BY DEF ValidationInv
<1>2. order \in Seq(Addrs) /\ Len(order) \in Nat
  BY <1>1 DEF TracerInv, TracerType
<1>3. ASSUME Simulation PROVE TracerInv' /\ UNCHANGED order
  BY <1>1, <1>3, TracerStutter DEF Simulation, tracer
<1>4. CASE Trace
  <2>1. TracerInv' /\ pc' \notin Passed /\ UNCHANGED next
    BY <1>1, <1>4, TracerStep DEF Trace, validation, Passed
  <2> QED
    BY <2>1, <1>1, <1>4 DEF ValidationInv, Trace
<1>5. CASE TraceArrives
  <2>1. Simulation /\ UNCHANGED <<next, staked>>
    BY <1>5 DEF TraceArrives
  <2>2. pc' \in Passed => /\ pc' = "contracts"
                          /\ \A a \in ToSet(order) : ~UsesBannedOpcode(a)
    BY <1>5 DEF TraceArrives, Passed
  <2>3. next = 1 /\ pc' # "trace"
    BY <1>5 DEF TraceArrives, ValidationInv
  <2> QED
    BY <2>1, <2>2, <2>3, <1>1, <1>3, RulesKeep DEF ValidationInv
<1>6. CASE RefuseContract \/ EntityUnstaked \/ PaymasterUnstaked
  <2>1. Simulation /\ pc' = "refused" /\ UNCHANGED next
    BY <1>6 DEF RefuseContract, EntityUnstaked, PaymasterUnstaked, Goto
  <2> QED
    BY <2>1, <1>1, <1>3 DEF ValidationInv, Passed
<1>7. CASE EntityStaked
  <2> USE DEF EntityStaked, Goto
  <2>1. /\ Simulation /\ pc = "contracts" /\ pc' = "contracts"
        /\ Asked # 0 /\ next' = Asked + 1
        /\ EntityOf(order[Asked]) \in staked' /\ staked \subseteq staked'
    BY <1>7
  <2>2. /\ Asked \in next .. Len(order)
        /\ \A i \in next .. Asked - 1 : Verdict(order[i]) = "nothing"
    BY <2>1, <1>1, <1>2, AskedIs
  <2>3. next' \in Nat /\ next' >= 1
    BY <2>1, <2>2, <1>1
  <2>4. ASSUME NEW i \in 1 .. Len(order), i < next'
        PROVE  Settled(order[i])'
    <3>1. i < next \/ i \in next .. Asked - 1 \/ i = Asked
      BY <2>1, <2>2, <2>4, <1>1
    <3>2. CASE i < next
      BY <3>2, <2>1, <1>3, StaysSettled DEF ValidationInv, Passed
    <3>3. CASE i \in next .. Asked - 1
      <4>1. Settled(order[i])
        BY <3>3, <2>2 DEF Settled
      <4> QED
        BY <4>1, <2>1, <1>3, StaysSettled
    <3>4. CASE i = Asked
      BY <3>4, <2>1, RulesKeep DEF Settled
    <3> QED
      BY <3>1, <3>2, <3>3, <3>4
  <2> QED
    BY <2>1, <2>3, <2>4, <1>1, <1>3, RulesKeep DEF ValidationInv, Passed
<1>8. CASE ContractsPass
  <2>1. /\ Simulation /\ pc = "contracts" /\ Asked = 0
        /\ UNCHANGED <<next, staked>> /\ pc' # "trace"
    BY <1>8 DEF ContractsPass, Goto, AfterCalls
  <2>2. \A i \in next .. Len(order) : Verdict(order[i]) = "nothing"
    BY <2>1, <1>1, <1>2, AskedIs
  <2>3. ASSUME NEW i \in 1 .. Len(order) PROVE Settled(order[i])'
    <3>1. Settled(order[i])
      BY <2>1, <2>2, <1>1 DEF ValidationInv, Passed, Settled
    <3> QED
      BY <3>1, <2>1, <1>3, StaysSettled
  <2> QED
    BY <2>1, <2>3, <1>1, <1>3, RulesKeep DEF ValidationInv, Passed
<1>9. CASE PaymasterStaked \/ Prestate
  <2>1. /\ Simulation /\ pc \in {"context", "prestate"}
        /\ staked \subseteq staked' /\ UNCHANGED next /\ pc' # "trace"
    BY <1>9 DEF PaymasterStaked, Prestate, Goto, AfterCalls
  <2>2. ASSUME NEW i \in 1 .. Len(order) PROVE Settled(order[i])'
    BY <2>1, <1>3, StaysSettled DEF ValidationInv, Passed
  <2> QED
    BY <2>1, <2>2, <1>1, <1>3, RulesKeep DEF ValidationInv, Passed
<1>10. CASE Revalidate
  <2>1. TracerReady' /\ pc' = "trace" /\ next' = 1
    BY <1>10 DEF Revalidate, TracerReady
  <2>2. TracerReady' => TracerInv'
    BY ReadyTracerInv, PTL
  <2> QED
    BY <2>1, <2>2 DEF ValidationInv, Passed
<1>11. CASE ReplaceCode
  <2>1. Simulation /\ UNCHANGED <<pc, next, staked>>
    BY <1>11 DEF ReplaceCode, validation
  <2> QED
    BY <2>1, <1>1, <1>3, RulesKeep, StaysSettled DEF ValidationInv
<1> QED
  BY <1>4, <1>5, <1>6, <1>7, <1>8, <1>9, <1>10, <1>11 DEF Next, Validate

\* The invariant of the validation and of the trace it judges.
THEOREM ValidationHolds == Spec => []ValidationInv
<1>1. ValidationInit => ValidationInv
  BY InitReady, ReadyTracerInv DEF ValidationInit, ValidationInv, Passed
<1>2. ValidationInv /\ UNCHANGED vars => ValidationInv'
  <2> SUFFICES ASSUME ValidationInv, UNCHANGED vars PROVE ValidationInv'
    OBVIOUS
  <2>1. Simulation /\ UNCHANGED <<pc, next, staked>>
    BY DEF vars, Simulation, validation, evm, tracer
  <2>2. TracerInv' /\ UNCHANGED order
    BY <2>1, TracerStutter DEF ValidationInv, Simulation, tracer
  <2> QED
    BY <2>1, <2>2, RulesKeep, StaysSettled DEF ValidationInv
<1>3. ValidationInv /\ [Next]_vars => ValidationInv'
  BY <1>2, ValidationStep
<1> QED
  BY <1>1, <1>3, PTL DEF Spec

\* In every validation, and in each after the first, the trace tells what
\* the contracts did.
THEOREM EveryTraceIsTrue == Spec => [](TraceTells /\ HashesOwn)
<1>1. ValidationInv => TraceTells /\ HashesOwn
  BY TellsAll DEF ValidationInv, TracerInv
<1> QED
  BY <1>1, ValidationHolds, PTL

\* However deep in the call tree it stands, and whatever code was delegated to:
\* an opcode that is banned keeps the operation from being accepted.
THEOREM AcceptedStaysClean == Spec => []AcceptedIsClean
<1>1. ASSUME ValidationInv PROVE AcceptedIsClean
  <2> SUFFICES ASSUME Accepted, NEW d \in did
               PROVE  /\ d[2] # "TIMESTAMP"
                      /\ d[2] = "NUMBER" => d[1] = EntryPoint
                      /\ d[2] = "CREATE2" => first[d[1]] = 0
    BY DEF AcceptedIsClean
  <2> DEFINE a == d[1]
  <2>1. /\ TracerType /\ DidInv /\ Tells(output, did)
        /\ Numbered(output, first, order)
    BY <1>1 DEF ValidationInv, TracerInv
  <2>2. /\ d = <<a, d[2], d[3]>> /\ a \in Addrs /\ Contains(order, a)
        /\ d[2] \notin {"SLOAD", "KECCAK256", "LOST"} => d[3] = None
    BY <2>1 DEF DidInv
  <2>3. ~UsesBannedOpcode(a)
    <3>1. a \in ToSet(order)
      BY <2>1, <2>2 DEF Contains, ToSet, TracerType
    <3> QED
      BY <1>1, <3>1 DEF ValidationInv, Accepted, Passed
  <2>4. output[a] \in Recorded
    BY <2>1, <2>2 DEF TracerType, Outputs
  <2>5. DOMAIN output[a].violation = Banned \cup {"GAS", "NUMBER"}
    BY <2>4 DEF Recorded
  <2>6. d[2] # "TIMESTAMP"
    <3> SUFFICES ASSUME d[2] = "TIMESTAMP" PROVE FALSE
      OBVIOUS
    <3>1. <<a, "TIMESTAMP", None>> \in did
      BY <2>2
    <3>2. output[a].violation["TIMESTAMP"] > 0
      BY <3>1, <2>1, <2>2 DEF Tells, Banned
    <3> QED
      BY <3>2, <2>3, <2>5 DEF UsesBannedOpcode, Banned
  <2>7. ASSUME d[2] = "NUMBER" PROVE a = EntryPoint
    <3> SUFFICES ASSUME a # EntryPoint PROVE FALSE
      OBVIOUS
    <3>1. <<a, "NUMBER", None>> \in did
      BY <2>2, <2>7
    <3>2. output[a].violation["NUMBER"] > 0
      BY <3>1, <2>1, <2>2 DEF Tells
    <3> QED
      BY <3>2, <2>3, <2>5 DEF UsesBannedOpcode
  <2>8. ASSUME d[2] = "CREATE2" PROVE first[a] = 0
    <3>1. <<a, "CREATE2", None>> \in did
      BY <2>2, <2>8
    <3>2. output[a].violation["CREATE2"] > 0
      BY <3>1, <2>1, <2>2 DEF Tells, Banned
    <3>3. Title(a) = "factory"
      BY <3>2, <2>3, <2>5 DEF UsesBannedOpcode, Banned
    <3>4. output[a].number \notin {1, 2}
      BY <3>3 DEF Title
    <3>5. first[a] # None /\ output[a].number = first[a]
      BY <2>1, <2>2 DEF Numbered
    <3>6. first[a] \in 0 .. 2
      BY <3>5, <2>1, <2>2 DEF TracerType
    <3> QED
      BY <3>4, <3>5, <3>6
  <2> QED
    BY <2>6, <2>7, <2>8
<1> QED
  BY <1>1, ValidationHolds, PTL

\* The entity the storage rules ask for is the one on whose behalf the
\* contract was entered.
LEMMA EntityIsOnBehalf ==
    ASSUME TracerInv, NEW a \in Addrs, Contains(order, a)
    PROVE  EntityOf(a) = OnBehalf(a)
<1>1. first[a] # None /\ output[a].number = first[a]
  BY DEF TracerInv, Numbered
<1>2. first[a] \in 0 .. 2
  BY <1>1 DEF TracerInv, TracerType
<1>3. CASE first[a] = 0
  BY <1>1, <1>3 DEF EntityOf, Title, OnBehalf, Called, Entity
<1>4. CASE first[a] = 1
  BY <1>1, <1>4 DEF EntityOf, Title, OnBehalf, Called, Entity
<1>5. CASE first[a] = 2
  BY <1>1, <1>5 DEF EntityOf, Title, OnBehalf, Called, Entity
<1> QED
  BY <1>2, <1>3, <1>4, <1>5

\* Only a slot that counts as the account's passes in silence.
LEMMA SilentSlot ==
    ASSUME TracerInv, NEW a \in Addrs, NEW s \in Slots,
           SlotCalls(a, s) = "nothing"
    PROVE  ~userOp.initCode /\ CountsAsAccounts(a, s)
<1>1. IsSlotAssociatedWith(a, s, Account) /\ ~userOp.initCode
  BY DEF SlotCalls
<1>2. output[a].keccak \in Seq(Hash)
  BY DEF TracerInv, TracerType, Outputs, Recorded
<1>3. PICK i \in 1 .. Len(output[a].keccak) :
         /\ output[a].keccak[i].input[1] = Account
         /\ output[a].keccak[i].hash = s
  BY <1>1, <1>2, AssociatedHash
<1>4. output[a].keccak[i] \in Hash /\ i \in DOMAIN output[a].keccak
  BY <1>2
<1> DEFINE input == output[a].keccak[i].input
<1>5. input \in Inputs /\ input # Plain /\ input[1] = Account
  BY <1>3, <1>4, TracerAssumption DEF Hash
<1>6. \/ s = input
      \/ s = Plain /\ <<a, "LOST", input>> \in did
  BY <1>3, <1>4 DEF TracerInv, Own
<1> HIDE DEF input
<1>7. CASE s = input
  BY <1>1, <1>5, <1>7 DEF CountsAsAccounts
<1>8. CASE s = Plain /\ <<a, "LOST", input>> \in did
  <2> DEFINE d == <<a, "LOST", input>>
  <2>1. d[1] = a /\ d[2] = "LOST" /\ d[3] = input /\ d \in did
    BY <1>8
  <2> HIDE DEF d
  <2> QED
    BY <2>1, <1>1, <1>5, <1>8 DEF CountsAsAccounts
<1> QED
  BY <1>6, <1>7, <1>8

\* No slot order, delegation or second access lets a contract with storage, none
\* of which counts as the account's, pass without its entity's stake.
THEOREM AcceptedHasStake == Spec => []AcceptedIsStaked
<1>1. ASSUME ValidationInv PROVE AcceptedIsStaked
  <2> SUFFICES ASSUME Accepted, NEW a \in Addrs \ {EntryPoint, Account},
                      NEW slots,
                      slots = {d[3] : d \in {e \in did : e[1] = a /\ e[2] = "SLOAD"}},
                      slots # {},
                      userOp.initCode \/ \A s \in slots : ~CountsAsAccounts(a, s)
               PROVE  OnBehalf(a) \in staked
    BY DEF AcceptedIsStaked
  <2>1. TracerInv /\ TracerType /\ DidInv /\ Tells(output, did)
    BY <1>1 DEF ValidationInv, TracerInv
  <2>2. \A s \in slots : s \in Slots /\ <<a, "SLOAD", s>> \in did
    <3> SUFFICES ASSUME NEW d \in did, d[1] = a, d[2] = "SLOAD"
                 PROVE  d[3] \in Slots /\ <<a, "SLOAD", d[3]>> \in did
      OBVIOUS
    <3>1. d = <<d[1], d[2], d[3]>> /\ d[3] \in Slots
      BY <2>1 DEF DidInv
    <3> QED
      BY <3>1
  <2>3. PICK s0 \in slots : TRUE
    OBVIOUS
  <2>4. Contains(order, a)
    <3>1. <<a, "SLOAD", s0>> \in did
      BY <2>2, <2>3
    <3>2. Contains(order, <<a, "SLOAD", s0>>[1])
      BY <3>1, <2>1 DEF DidInv
    <3> QED
      BY <3>2
  <2> DEFINE storage == output[a].storage
  <2>5. /\ storage \in Seq(Slots)
        /\ \A s \in Slots : Contains(storage, s) <=> <<a, "SLOAD", s>> \in did
    BY <2>1 DEF TracerType, Outputs, Recorded, Tells
  <2>6. storage # <<>>
    <3>1. Contains(storage, s0)
      BY <2>2, <2>3, <2>5
    <3> HIDE DEF storage
    <3> QED
      BY <3>1, <2>5 DEF Contains
  <2>7. Last(storage) \in Slots /\ <<a, "SLOAD", Last(storage)>> \in did
    <3> HIDE DEF storage
    <3>1. Len(storage) \in 1 .. Len(storage) /\ storage[Len(storage)] \in Slots
      BY <2>5, <2>6
    <3>2. Contains(storage, Last(storage)) /\ Last(storage) \in Slots
      BY <3>1 DEF Contains, Last
    <3> QED
      BY <3>2, <2>5
  <2>8. Last(storage) \in slots
    <3> DEFINE d == <<a, "SLOAD", Last(storage)>>
    <3>1. d[1] = a /\ d[2] = "SLOAD" /\ d[3] = Last(storage) /\ d \in did
      BY <2>7
    <3> HIDE DEF d, storage
    <3> QED
      BY <3>1
  <2>9. SlotCalls(a, Last(storage)) # "nothing"
    BY <2>1, <2>7, <2>8, SilentSlot
  <2>10. Verdict(a) # "nothing"
    BY <2>6, <2>9 DEF Verdict
  <2>11. Settled(a)
    BY <1>1, <2>4 DEF ValidationInv, Accepted, Passed, Contains
  <2>12. EntityOf(a) \in staked
    BY <2>10, <2>11 DEF Settled
  <2> QED
    BY <2>1, <2>4, <2>12, EntityIsOnBehalf
<1> QED
  BY <1>1, ValidationHolds, PTL

-----------------------------------------------------------------------------
(***************************************************************************)
(* The calls of a trace, parsed one after the other.                       *)
(***************************************************************************)
Ends == {"REVERT", "RETURN"}

Data == {"context", "ValidationResult", "ValidationResultWithAggregation",
         "FailedOp", "cut"} \X Nat

Opened == [type : {"CALL"} \cup Kinds, to : Addrs, method : Methods]
Closed == [type : Ends, data : Data]

Pairs == [to : Addrs \cup {None}, type : {"top", "CALL"} \cup Kinds,
          end : Ends, method : Methods \cup {"", None}, data : Data \cup {None}]

ParsedSoFar == [stack : Seq(Opened), out : Seq(Pairs)]

Nothing == [stack |-> <<>>, out |-> <<>>]

LEMMA ParsedPair ==
    ASSUME NEW o \in Opened \cup {TopCall}, NEW c \in Closed
    PROVE  Parsed(o, c) \in Pairs
<1>1. o.type \in {"top", "CALL"} \cup Kinds /\ o.to \in Addrs \cup {None}
      /\ o.method \in Methods
  BY DEF Opened, TopCall, Methods
<1>2. c.type \in Ends /\ c.data \in Data
  BY DEF Closed
<1> QED
  BY <1>1, <1>2 DEF Parsed, Pairs, Ends

\* A call that is opened goes on the stack, one that ends leaves it, and the
\* end of the first frame finds it empty.
LEMMA ParseCallIs ==
    ASSUME NEW acc \in ParsedSoFar
    PROVE  /\ \A c \in Opened : ParseCall(acc, c) =
                 [stack |-> Append(acc.stack, c), out |-> acc.out]
           /\ \A c \in Closed : ParseCall(acc, c) =
                 IF acc.stack = <<>>
                 THEN [stack |-> <<>>, out |-> Append(acc.out, Parsed(TopCall, c))]
                 ELSE [stack |-> Front(acc.stack),
                       out |-> Append(acc.out, Parsed(Last(acc.stack), c))]
<1>1. acc = [stack |-> acc.stack, out |-> acc.out]
  BY DEF ParsedSoFar
<1>2. \A c \in Opened : c.type \notin {"REVERT", "RETURN"}
  BY TracerAssumption DEF Opened
<1>3. \A c \in Closed : c.type \in {"REVERT", "RETURN"}
  BY DEF Closed, Ends
<1>4. ASSUME NEW c \in Opened
      PROVE  ParseCall(acc, c) =
                 [stack |-> Append(acc.stack, c), out |-> acc.out]
  <2>1. ParseCall(acc, c) = [acc EXCEPT !.stack = Append(@, c)]
    BY <1>2 DEF ParseCall
  <2> HIDE DEF Opened
  <2> DEFINE st == acc.stack
             o == acc.out
  <2>2. acc = [stack |-> st, out |-> o]
    BY <1>1
  <2> HIDE DEF st, o
  <2>3. [acc EXCEPT !.stack = Append(@, c)] = [stack |-> Append(st, c), out |-> o]
    BY <2>2
  <2> QED
    BY <2>1, <2>3 DEF st, o
<1>5. ASSUME NEW c \in Closed, acc.stack = <<>>
      PROVE  ParseCall(acc, c) =
                 [stack |-> <<>>, out |-> Append(acc.out, Parsed(TopCall, c))]
  <2>1. ParseCall(acc, c) = [acc EXCEPT !.out = Append(@, Parsed(TopCall, c))]
    BY <1>3, <1>5 DEF ParseCall
  <2> DEFINE t == Parsed(TopCall, c)
             o == acc.out
  <2>2. acc = [stack |-> <<>>, out |-> o]
    BY <1>1, <1>5
  <2> HIDE DEF t, o
  <2>3. [acc EXCEPT !.out = Append(@, t)] = [stack |-> <<>>, out |-> Append(o, t)]
    BY <2>2
  <2> QED
    BY <2>1, <2>3 DEF t, o
<1>6. ASSUME NEW c \in Closed, acc.stack # <<>>
      PROVE  ParseCall(acc, c) =
                 [stack |-> Front(acc.stack),
                  out |-> Append(acc.out, Parsed(Last(acc.stack), c))]
  BY <1>3, <1>6 DEF ParseCall
<1> QED
  BY <1>4, <1>5, <1>6

LEMMA ParseCallType ==
    ASSUME NEW acc \in ParsedSoFar, NEW c \in Opened \cup Closed
    PROVE  ParseCall(acc, c) \in ParsedSoFar
<1>1. acc.stack \in Seq(Opened) /\ acc.out \in Seq(Pairs)
  BY DEF ParsedSoFar
<1>2. CASE c \in Opened
  <2>1. Append(acc.stack, c) \in Seq(Opened)
    BY <1>1, <1>2
  <2> QED
    BY <2>1, <1>1, <1>2, ParseCallIs DEF ParsedSoFar
<1>3. ASSUME c \in Closed, acc.stack = <<>> PROVE ParseCall(acc, c) \in ParsedSoFar
  <2>1. Parsed(TopCall, c) \in Pairs
    BY <1>3, ParsedPair
  <2>2. Append(acc.out, Parsed(TopCall, c)) \in Seq(Pairs) /\ <<>> \in Seq(Opened)
    BY <2>1, <1>1
  <2>3. ParseCall(acc, c)
           = [stack |-> <<>>, out |-> Append(acc.out, Parsed(TopCall, c))]
    BY <1>3, ParseCallIs
  <2> QED
    BY <2>2, <2>3 DEF ParsedSoFar
<1>4. ASSUME c \in Closed, acc.stack # <<>> PROVE ParseCall(acc, c) \in ParsedSoFar
  <2>1. Last(acc.stack) \in Opened
    BY <1>1, <1>4 DEF Last
  <2>2. Parsed(Last(acc.stack), c) \in Pairs
    BY <2>1, <1>4, ParsedPair
  <2>3. Append(acc.out, Parsed(Last(acc.stack), c)) \in Seq(Pairs)
    BY <2>2, <1>1
  <2>4. Front(acc.stack) \in Seq(Opened)
    BY <1>1, <1>4, FrontIs
  <2>5. ParseCall(acc, c)
           = [stack |-> Front(acc.stack),
              out |-> Append(acc.out, Parsed(Last(acc.stack), c))]
    BY <1>4, ParseCallIs
  <2> QED
    BY <2>3, <2>4, <2>5 DEF ParsedSoFar
<1> QED
  BY <1>2, <1>3, <1>4

\* f is what the calls at the places in D, in order, are parsed as.
Parses(f, cs, D) ==
    f = [s \in SUBSET D |->
            IF s = {} THEN Nothing
            ELSE ParseCall(f[s \ {Max(s)}], cs[Max(s)])]

LEMMA ParsesExist ==
    ASSUME NEW cs \in Seq(Opened \cup Closed)
    PROVE  \E f : Parses(f, cs, 1 .. Len(cs))
<1> DEFINE C == Opened \cup Closed
           m == Len(cs)
           h == [p \in ParsedSoFar \X C |-> ParseCall(p[1], p[2])]
<1>1. h \in [ParsedSoFar \X C -> ParsedSoFar]
  <2> SUFFICES ASSUME NEW p \in ParsedSoFar \X C
               PROVE  ParseCall(p[1], p[2]) \in ParsedSoFar
    OBVIOUS
  <2>1. p[1] \in ParsedSoFar /\ p[2] \in C
    OBVIOUS
  <2> QED
    BY <2>1, ParseCallType
<1>2. Nothing \in ParsedSoFar
  BY DEF Nothing, ParsedSoFar
<1>3. m \in Nat /\ \A i \in 1 .. m : cs[i] \in C
  OBVIOUS
<1>4. \A acc \in ParsedSoFar, c \in C : h[<<acc, c>>] = ParseCall(acc, c)
  OBVIOUS
<1> HIDE DEF h, C, m
<1>5. PICK f : Folds(f, ParsedSoFar, h, Nothing, cs, 1 .. m)
  BY <1>1, <1>2, <1>3, FoldExists
<1>6. f \in [SUBSET (1 .. m) -> ParsedSoFar]
  BY <1>5 DEF Folds
<1>7. ASSUME NEW s \in SUBSET (1 .. m), s # {}
      PROVE  h[<<f[s \ {Max(s)}], cs[Max(s)]>>]
                = ParseCall(f[s \ {Max(s)}], cs[Max(s)])
  <2>1. Max(s) \in 1 .. m
    BY <1>3, <1>7, GreatestExists
  <2>2. f[s \ {Max(s)}] \in ParsedSoFar /\ cs[Max(s)] \in C
    BY <1>3, <1>6, <2>1
  <2> QED
    BY <1>4, <2>2
<1>8. f = [s \in SUBSET (1 .. m) |->
              IF s = {} THEN Nothing
              ELSE h[<<f[s \ {Max(s)}], cs[Max(s)]>>]]
  BY <1>5 DEF Folds
<1>9. Parses(f, cs, 1 .. m)
  BY <1>7, <1>8 DEF Parses
<1> QED
  BY <1>9 DEF m

\* What is made of the first calls depends on no others.
LEMMA ParsesAgree ==
    ASSUME NEW cs, NEW ds, NEW m \in Nat, NEW k \in Nat, m <= k,
           NEW f, Parses(f, cs, 1 .. m), NEW g, Parses(g, ds, 1 .. k),
           \A i \in 1 .. m : cs[i] = ds[i]
    PROVE  f[1 .. m] = g[1 .. m]
<1> DEFINE S == {n \in Nat : n <= m => f[1 .. n] = g[1 .. n]}
<1>1. 0 \in S
  BY DEF Parses
<1>2. ASSUME NEW n \in Nat, n \in S PROVE n + 1 \in S
  <2> SUFFICES ASSUME n + 1 <= m PROVE f[1 .. n + 1] = g[1 .. n + 1]
    OBVIOUS
  <2> DEFINE s == 1 .. n + 1
  <2>1. /\ n + 1 \in Nat /\ n + 1 \in s /\ s \ {n + 1} = 1 .. n
        /\ s \subseteq 1 .. n + 1 /\ s \subseteq 1 .. m /\ s \subseteq 1 .. k
    OBVIOUS
  <2>2. f[1 .. n] = g[1 .. n] /\ cs[n + 1] = ds[n + 1]
    BY <1>2
  <2> HIDE DEF s
  <2>3. Max(s) = n + 1 /\ s # {}
    BY <2>1, GreatestIs
  <2>4. /\ f[s] = ParseCall(f[s \ {Max(s)}], cs[Max(s)])
        /\ g[s] = ParseCall(g[s \ {Max(s)}], ds[Max(s)])
    BY <2>1, <2>3 DEF Parses
  <2>5. f[s] = g[s]
    BY <2>1, <2>2, <2>3, <2>4
  <2> QED
    BY <2>5 DEF s
<1> HIDE DEF S
<1>3. m \in S
  BY <1>1, <1>2, EveryNumber
<1> QED
  BY <1>3 DEF S

LEMMA ParsedBy ==
    ASSUME NEW cs \in Seq(Opened \cup Closed)
    PROVE  \E f : /\ Parses(f, cs, 1 .. Len(cs))
                  /\ parseCalls(cs) = f[1 .. Len(cs)]
<1> DEFINE f == CHOOSE f : Parses(f, cs, DOMAIN cs)
<1>1. parseCalls(cs) = f[DOMAIN cs]
  BY DEF parseCalls, FoldLeft, MapThenFoldSet, Parses, Nothing
<1>2. DOMAIN cs = 1 .. Len(cs)
  OBVIOUS
<1>3. Parses(f, cs, 1 .. Len(cs))
  BY <1>2, ParsesExist
<1> QED
  BY <1>1, <1>2, <1>3

\* No calls are parsed as nothing, and one more call after those before it.
LEMMA ParsedNothing == parseCalls(<<>>) = Nothing
<1> DEFINE cs == <<>>
<1>1. cs \in Seq(Opened \cup Closed) /\ Len(cs) = 0 /\ 1 .. 0 = {}
  OBVIOUS
<1> HIDE DEF cs
<1>2. PICK f : Parses(f, cs, 1 .. Len(cs)) /\ parseCalls(cs) = f[1 .. Len(cs)]
  BY <1>1, ParsedBy
<1>3. {} \in SUBSET (1 .. Len(cs))
  OBVIOUS
<1>4. f[{}] = Nothing
  BY <1>2, <1>3 DEF Parses
<1> QED
  BY <1>1, <1>2, <1>4 DEF cs

LEMMA ParsedNext ==
    ASSUME NEW cs \in Seq(Opened \cup Closed), NEW c \in Opened \cup Closed
    PROVE  parseCalls(Append(cs, c)) = ParseCall(parseCalls(cs), c)
<1> DEFINE ds == Append(cs, c)
           n == Len(cs)
           s == 1 .. n + 1
<1>1. /\ n \in Nat /\ ds \in Seq(Opened \cup Closed) /\ Len(ds) = n + 1
      /\ \A i \in 1 .. n : cs[i] = ds[i]
      /\ ds[n + 1] = c
  OBVIOUS
<1>2. PICK f : Parses(f, cs, 1 .. n) /\ parseCalls(cs) = f[1 .. n]
  BY ParsedBy
<1> HIDE DEF n, ds
<1>3. PICK g : Parses(g, ds, 1 .. n + 1) /\ parseCalls(ds) = g[1 .. n + 1]
  BY <1>1, ParsedBy
<1>4. n + 1 \in Nat /\ n <= n + 1
  BY <1>1
<1>5. f[1 .. n] = g[1 .. n]
  BY <1>1, <1>2, <1>3, <1>4, ParsesAgree
<1>6. n + 1 \in s /\ s \subseteq 1 .. n + 1 /\ s \ {n + 1} = 1 .. n
  BY <1>1
<1> HIDE DEF s
<1>7. Max(s) = n + 1 /\ s # {}
  BY <1>4, <1>6, GreatestIs
<1>8. g[s] = ParseCall(g[s \ {Max(s)}], ds[Max(s)])
  BY <1>3, <1>6, <1>7 DEF Parses
<1>9. g[s] = ParseCall(f[1 .. n], c)
  BY <1>1, <1>5, <1>6, <1>7, <1>8
<1> QED
  BY <1>2, <1>3, <1>9 DEF ds, s
-----------------------------------------------------------------------------
(***************************************************************************)
(* The parsed calls are what the machine did.                              *)
(***************************************************************************)
EndedFrame == [to : Addrs, type : {"CALL"} \cup Kinds, method : Methods,
               end : Ends, words : Nat]

\* What a call is recorded as when the frame is opened.
Opening(frame) ==
    [type |-> frame.type, to |-> frame.code, method |-> frame.method]

\* A pair tells of a frame that ended.
PairTells(pair, e) ==
    /\ pair.to = e.to
    /\ e.type # "CREATE2" =>
          /\ pair.end = e.end /\ pair.data[2] = e.words
          /\ e.end = "RETURN" \/ e.method \in KnownMethods
                => pair.method = e.method

CallsInv ==
    LET parsed == parseCalls(calls) IN
    /\ calls \in Seq(Opened \cup Closed)
    /\ parsed \in ParsedSoFar
    /\ ended \in Seq(EndedFrame)
    /\ frames # <<>> =>
          /\ Len(parsed.stack) = Len(frames) - 1
          /\ \A i \in 1 .. Len(frames) - 1 :
                parsed.stack[i] = Opening(frames[i + 1])
          /\ Len(parsed.out) = Len(ended)
    /\ Len(parsed.out) \in Len(ended) .. Len(ended) + 1
    /\ \A i \in 1 .. Len(ended) : PairTells(parsed.out[i], ended[i])

Paid == [to |-> Paymaster, type |-> "CALL", method |-> "validatePaymasterUserOp",
         end |-> "RETURN", words |-> context]

\* A context was returned by the paymaster the entry point called.
ContextInv ==
    /\ context \in Nat
    /\ due => Called(phase)
    /\ \A i \in 1 .. Len(frames) :
          frames[i].method = "validatePaymasterUserOp" =>
              /\ userOp.paymaster
              /\ frames[i].code = Paymaster /\ frames[i].type = "CALL"
    /\ context > 0 =>
          /\ userOp.paymaster
          /\ \E i \in 1 .. Len(ended) : ended[i] = Paid

\* When the tracer saw the end of the first frame it is the last call; and what
\* of it parses as a result is short enough.
ResultInv ==
    addrs = <<>> =>
        /\ LastCall.data[1] # "context"
        /\ LastCall.data[1] \in DOMAIN ResultWords =>
              context < 2 /\ LastCall.data[1] = "ValidationResult"

LEMMA CallsOpen ==
    ASSUME TracerType, CallsInv, frames # <<>>,
           NEW opcode \in {"CALL"} \cup Kinds, NEW to \in Addrs,
           NEW method \in Methods, Open(opcode, to, method)
    PROVE  CallsInv'
<1> DEFINE c == [type |-> opcode, to |-> to, method |-> method]
           P == parseCalls(calls)
           Q == parseCalls(calls')
           F == [code |-> to, type |-> opcode, method |-> method,
                 ctx |-> IF opcode = "DELEGATECALL" THEN Running.ctx ELSE to]
<1>1. calls' = Append(calls, c) /\ frames' = Append(frames, F) /\ ended' = ended
  BY DEF Open, enter
<1>2. c \in Opened /\ Opening(F) = c
  BY DEF Opened, Opening
<1>3. P \in ParsedSoFar /\ calls \in Seq(Opened \cup Closed)
  BY DEF CallsInv
<1>4. calls' \in Seq(Opened \cup Closed)
  BY <1>1, <1>2, <1>3
<1>5. Q = ParseCall(P, c)
  BY <1>1, <1>2, <1>3, ParsedNext
<1>6. Q \in ParsedSoFar
  BY <1>2, <1>3, <1>5, ParseCallType
<1>7. Q = [stack |-> Append(P.stack, c), out |-> P.out]
  BY <1>2, <1>3, <1>5, ParseCallIs
<1>8. Q.stack = Append(P.stack, c) /\ Q.out = P.out
  BY <1>7
<1>9. P.stack \in Seq(Opened) /\ frames \in Seq(Frame)
  BY <1>3 DEF ParsedSoFar, TracerType
<1>10. /\ Len(P.stack) = Len(frames) - 1
       /\ \A i \in 1 .. Len(frames) - 1 : P.stack[i] = Opening(frames[i + 1])
       /\ Len(P.out) = Len(ended)
       /\ ended \in Seq(EndedFrame)
       /\ Len(P.out) \in Len(ended) .. Len(ended) + 1
       /\ \A i \in 1 .. Len(ended) : PairTells(P.out[i], ended[i])
  BY DEF CallsInv
<1> HIDE DEF c, P, Q, F
<1>11. Len(Q.stack) = Len(frames') - 1
  BY <1>1, <1>8, <1>9, <1>10
<1>12. ASSUME NEW i \in 1 .. Len(frames') - 1
       PROVE  Q.stack[i] = Opening(frames'[i + 1])
  <2>1. i \in 1 .. Len(frames)
    BY <1>1, <1>9
  <2>2. CASE i = Len(frames)
    BY <2>1, <2>2, <1>1, <1>2, <1>8, <1>9, <1>10
  <2>3. CASE i # Len(frames)
    <3>1. i \in 1 .. Len(frames) - 1 /\ i + 1 \in 1 .. Len(frames)
      BY <2>1, <2>3, <1>9
    <3>2. Q.stack[i] = P.stack[i] /\ frames'[i + 1] = frames[i + 1]
      BY <3>1, <1>1, <1>8, <1>9, <1>10
    <3> QED
      BY <3>1, <3>2, <1>10
  <2> QED
    BY <2>2, <2>3
<1> QED
  BY <1>1, <1>4, <1>6, <1>8, <1>10, <1>11, <1>12 DEF CallsInv, Q

LEMMA CallsClose ==
    ASSUME TracerType, CallsInv, NEW opcode, NEW data, NEW type \in Ends,
           NEW words \in Nat, Close(opcode, data, type, words)
    PROVE  CallsInv'
<1> DEFINE c == [type |-> type, data |-> <<"context", words>>]
           P == parseCalls(calls)
           Q == parseCalls(calls')
           o == Last(P.stack)
           e == Ending(type, words)
           n == Len(frames)
<1>1. /\ calls' = Append(calls, c) /\ frames' = Front(frames)
      /\ ended' = Append(ended, e) /\ n > 1
  BY DEF Close, exit, Depth
<1>2. c \in Closed
  <2>1. <<"context", words>> \in Data
    BY DEF Data
  <2> QED
    BY <2>1 DEF Closed
<1>3. P \in ParsedSoFar /\ calls \in Seq(Opened \cup Closed)
  BY DEF CallsInv
<1>4. calls' \in Seq(Opened \cup Closed)
  BY <1>1, <1>2, <1>3
<1>5. Q = ParseCall(P, c)
  BY <1>1, <1>2, <1>3, ParsedNext
<1>6. Q \in ParsedSoFar
  BY <1>2, <1>3, <1>5, ParseCallType
<1>7. P.stack \in Seq(Opened) /\ P.out \in Seq(Pairs) /\ frames \in Seq(Frame)
  BY <1>3 DEF ParsedSoFar, TracerType
<1>8. frames # <<>> /\ n \in Nat
  BY <1>1, <1>7
<1>9. /\ Len(P.stack) = n - 1
      /\ \A i \in 1 .. n - 1 : P.stack[i] = Opening(frames[i + 1])
      /\ Len(P.out) = Len(ended)
      /\ ended \in Seq(EndedFrame)
      /\ \A i \in 1 .. Len(ended) : PairTells(P.out[i], ended[i])
  BY <1>8 DEF CallsInv
<1>10. P.stack # <<>>
  BY <1>1, <1>7, <1>8, <1>9
<1>11. Q.stack = Front(P.stack) /\ Q.out = Append(P.out, Parsed(o, c))
  <2>1. Q = [stack |-> Front(P.stack), out |-> Append(P.out, Parsed(o, c))]
    BY <1>2, <1>3, <1>5, <1>10, ParseCallIs
  <2> QED
    BY <2>1
<1>12. o = Opening(Running) /\ o \in Opened
  <2>1. o = P.stack[n - 1] /\ n - 1 \in 1 .. n - 1
    BY <1>1, <1>8, <1>9 DEF Last
  <2>2. o = Opening(frames[n])
    BY <2>1, <1>8, <1>9
  <2>3. P.stack[n - 1] \in Opened
    BY <2>1, <1>7, <1>9
  <2> QED
    BY <2>1, <2>2, <2>3 DEF Running, Depth
<1>13. e \in EndedFrame /\ PairTells(Parsed(o, c), e)
  <2>1. Running.type = o.type /\ Running.code = o.to /\ Running.method = o.method
    BY <1>12 DEF Opening
  <2>2. o.type \in {"CALL"} \cup Kinds /\ o.to \in Addrs /\ o.method \in Methods
    BY <1>12 DEF Opened
  <2>3. e \in EndedFrame
    BY <2>1, <2>2 DEF Ending, EndedFrame
  <2>4. /\ e.to = o.to /\ e.type = o.type /\ e.method = o.method
        /\ e.end = c.type /\ e.words = c.data[2]
    BY <2>1 DEF Ending
  <2>5. PairTells(Parsed(o, c), e)
    <3> HIDE DEF o, c, e
    <3>1. CASE o.type = "CREATE2"
      BY <2>4, <3>1 DEF Parsed, PairTells
    <3>2. CASE o.type # "CREATE2"
      <4>1. /\ Parsed(o, c).to = o.to /\ Parsed(o, c).end = c.type
            /\ Parsed(o, c).data = c.data
            /\ Parsed(o, c).method = IF c.type = "REVERT"
                                        /\ o.method \notin KnownMethods
                                     THEN None ELSE o.method
        BY <3>2 DEF Parsed
      <4> QED
        BY <2>4, <4>1 DEF PairTells
    <3> QED
      BY <3>1, <3>2
  <2> QED
    BY <2>3, <2>5
<1> HIDE DEF c, P, Q, o, e, n
<1>14. ended' \in Seq(EndedFrame) /\ Len(ended') = Len(ended) + 1
  BY <1>1, <1>9, <1>13
<1>15. Len(Q.out) = Len(ended')
  BY <1>7, <1>9, <1>11, <1>14
<1>16. ASSUME NEW i \in 1 .. Len(ended') PROVE PairTells(Q.out[i], ended'[i])
  <2>1. CASE i = Len(ended) + 1
    BY <2>1, <1>1, <1>7, <1>9, <1>11, <1>13
  <2>2. CASE i \in 1 .. Len(ended)
    <3>1. Q.out[i] = P.out[i] /\ ended'[i] = ended[i]
      BY <2>2, <1>1, <1>7, <1>9, <1>11
    <3> QED
      BY <2>2, <3>1, <1>9
  <2> QED
    BY <2>1, <2>2, <1>9, <1>14
<1>17. Len(frames') = n - 1 /\ \A i \in 1 .. n - 1 : frames'[i] = frames[i]
  BY <1>1, <1>7, <1>8, FrontIs DEF n
<1>18. /\ Len(Q.stack) = n - 2
       /\ \A i \in 1 .. n - 2 : Q.stack[i] = P.stack[i]
  <2>1. /\ Len(Front(P.stack)) = Len(P.stack) - 1
        /\ \A i \in 1 .. Len(P.stack) - 1 : Front(P.stack)[i] = P.stack[i]
    BY <1>7, <1>10, FrontIs
  <2> QED
    BY <2>1, <1>8, <1>9, <1>11
<1>19. ASSUME NEW i \in 1 .. Len(frames') - 1
       PROVE  Q.stack[i] = Opening(frames'[i + 1])
  <2>1. i \in 1 .. n - 2 /\ i \in 1 .. n - 1 /\ i + 1 \in 1 .. n - 1
    BY <1>8, <1>17
  <2> QED
    BY <2>1, <1>9, <1>17, <1>18
<1>20. Len(Q.stack) = Len(frames') - 1
  BY <1>8, <1>17, <1>18
<1>21. Len(Q.out) \in Len(ended') .. Len(ended') + 1
  BY <1>14, <1>15
<1> QED
  BY <1>4, <1>6, <1>14, <1>15, <1>16, <1>19, <1>20, <1>21 DEF CallsInv, Q

LEMMA CallsEnd ==
    ASSUME TracerType, CallsInv,
           NEW name \in (DOMAIN ResultWords) \cup {"FailedOp"},
           NEW words \in Nat, Result(name, words)
    PROVE  CallsInv'
<1> DEFINE c == [type |-> "REVERT", data |-> Cut(name, words)]
           P == parseCalls(calls)
           Q == parseCalls(calls')
<1>1. /\ calls' = Append(calls, c) /\ frames' = <<>> /\ ended' = ended
      /\ Len(frames) = 1
  BY DEF Result, stepEnd, Depth
<1>2. c \in Closed
  <2>1. DOMAIN ResultWords = {"ValidationResult", "ValidationResultWithAggregation"}
    BY DEF ResultWords
  <2>2. Cut(name, words) \in Data
    BY <2>1 DEF Data, Cut
  <2> QED
    BY <2>2 DEF Closed, Ends
<1>3. P \in ParsedSoFar /\ calls \in Seq(Opened \cup Closed)
  BY DEF CallsInv
<1>4. calls' \in Seq(Opened \cup Closed)
  BY <1>1, <1>2, <1>3
<1>5. Q = ParseCall(P, c)
  BY <1>1, <1>2, <1>3, ParsedNext
<1>6. Q \in ParsedSoFar
  BY <1>2, <1>3, <1>5, ParseCallType
<1>7. P.stack \in Seq(Opened) /\ P.out \in Seq(Pairs)
  BY <1>3 DEF ParsedSoFar
<1>8. frames # <<>>
  <2>1. Len(frames) = 1
    BY <1>1
  <2> QED
    BY <2>1
<1>9. /\ Len(P.stack) = 0
      /\ Len(P.out) = Len(ended)
      /\ ended \in Seq(EndedFrame)
      /\ \A i \in 1 .. Len(ended) : PairTells(P.out[i], ended[i])
  BY <1>1, <1>8 DEF CallsInv
<1>10. Q.out = Append(P.out, Parsed(TopCall, c))
  <2>1. P.stack = <<>>
    BY <1>7, <1>9
  <2>2. Q = [stack |-> <<>>, out |-> Append(P.out, Parsed(TopCall, c))]
    BY <2>1, <1>2, <1>3, <1>5, ParseCallIs
  <2> QED
    BY <2>2
<1> HIDE DEF c, P, Q
<1>11. /\ Len(Q.out) = Len(ended) + 1
       /\ \A i \in 1 .. Len(ended) : Q.out[i] = P.out[i]
  BY <1>7, <1>9, <1>10
<1>12. Len(ended) \in Nat
  BY <1>9
<1>13. Len(Q.out) \in Len(ended) .. Len(ended) + 1
  BY <1>11, <1>12
<1> QED
  BY <1>1, <1>4, <1>6, <1>9, <1>11, <1>13 DEF CallsInv, Q

-----------------------------------------------------------------------------
(***************************************************************************)
(* How long the results of the entry point are.                            *)
(***************************************************************************)
LEMMA CountAdd ==
    ASSUME NEW S, IsFiniteSet(S), NEW n \in Nat, Cardinality(S) = n,
           NEW x, x \notin S
    PROVE  IsFiniteSet(S \cup {x}) /\ Cardinality(S \cup {x}) = n + 1
BY FS_AddElement

LEMMA ResultLengths ==
    /\ DOMAIN ResultWords = {"ValidationResult", "ValidationResultWithAggregation"}
    /\ ResultWords["ValidationResult"] = 14
    /\ ResultWords["ValidationResultWithAggregation"] = 17
<1> DEFINE A1 == {"senderInfo"}
           A2 == A1 \cup {"factoryInfo"}
           A3 == A2 \cup {"paymasterInfo"}
           B1 == {"preOpGas"}
           B2 == B1 \cup {"prefund"}
           B3 == B2 \cup {"sigFailed"}
           B4 == B3 \cup {"validAfter"}
           B5 == B4 \cup {"validUntil"}
           B6 == B5 \cup {"paymasterContext"}
<1>1. IsFiniteSet(A1) /\ Cardinality(A1) = 1 /\ IsFiniteSet(B1) /\ Cardinality(B1) = 1
  BY FS_Singleton
<1>2. "factoryInfo" \notin A1 /\ "paymasterInfo" \notin A2
  OBVIOUS
<1>3. /\ "prefund" \notin B1 /\ "sigFailed" \notin B2 /\ "validAfter" \notin B3
      /\ "validUntil" \notin B4 /\ "paymasterContext" \notin B5
  OBVIOUS
<1>4. A3 = Stakes /\ B6 = ReturnInfo
  BY DEF Stakes, ReturnInfo
<1> HIDE DEF A1, B1
<1>5. IsFiniteSet(A2) /\ Cardinality(A2) = 2
  BY <1>1, <1>2, CountAdd
<1>6. IsFiniteSet(B2) /\ Cardinality(B2) = 2
  BY <1>1, <1>3, CountAdd
<1> HIDE DEF A2, B2
<1>7. IsFiniteSet(A3) /\ Cardinality(A3) = 3
  BY <1>2, <1>5, CountAdd
<1>8. IsFiniteSet(B3) /\ Cardinality(B3) = 3
  BY <1>3, <1>6, CountAdd
<1> HIDE DEF A3, B3
<1>9. IsFiniteSet(B4) /\ Cardinality(B4) = 4
  BY <1>3, <1>8, CountAdd
<1> HIDE DEF B4
<1>10. IsFiniteSet(B5) /\ Cardinality(B5) = 5
  BY <1>3, <1>9, CountAdd
<1> HIDE DEF B5
<1>11. IsFiniteSet(B6) /\ Cardinality(B6) = 6
  BY <1>3, <1>10, CountAdd
<1> HIDE DEF B6
<1>12. Cardinality(Stakes) = 3 /\ Cardinality(ReturnInfo) = 6
  BY <1>4, <1>7, <1>11
<1> QED
  BY <1>12 DEF ResultWords

\* The result with an aggregator is cut short, and one with a long context.
LEMMA KeptResult ==
    ASSUME NEW name \in (DOMAIN ResultWords) \cup {"FailedOp"}, NEW words \in Nat,
           name \in DOMAIN ResultWords =>
               context \in Nat /\ words = ResultWords[name] + context,
           Cut(name, words)[1] \in DOMAIN ResultWords
    PROVE  Cut(name, words)[1] = "ValidationResult" /\ context < 2
<1>1. Cut(name, words)[1] = IF 4 + 32 * words <= 499 THEN name ELSE "cut"
  BY DEF Cut, Kept
<1>2. name \in DOMAIN ResultWords /\ 4 + 32 * words <= 499
  BY <1>1, ResultLengths
<1>3. CASE name = "ValidationResultWithAggregation"
  <2>1. words = 17 + context /\ context \in Nat
    BY <1>2, <1>3, ResultLengths
  <2> QED
    BY <2>1, <1>2
<1>4. CASE name = "ValidationResult"
  <2>1. words = 14 + context /\ context \in Nat
    BY <1>2, <1>4, ResultLengths
  <2>2. context < 2
    BY <2>1, <1>2
  <2> QED
    BY <2>2, <1>1, <1>2, <1>4
<1> QED
  BY <1>2, <1>3, <1>4, ResultLengths

-----------------------------------------------------------------------------
(***************************************************************************)
(* The steps of the machine.                                               *)
(***************************************************************************)
MachineInv == CallsInv /\ ContextInv /\ ResultInv

\* A result with the first frame's end recorded is the entry point's.
LEMMA ResultIsSent ==
    ASSUME ResultInv, Validated, addrs = <<>>
    PROVE  context < 2 /\ LastCall.data[1] = "ValidationResult"
<1>1. PICK name \in DOMAIN ResultWords : LastCall.data[1] \in {name, "context"}
  BY DEF Validated, Results
<1> QED
  BY <1>1 DEF ResultInv

LEMMA OpenSent ==
    ASSUME TracerType, MachineInv, frames # <<>>,
           NEW opcode \in {"CALL"} \cup Kinds, NEW to \in Addrs,
           NEW method \in Methods, Open(opcode, to, method),
           due' => due,
           method = "validatePaymasterUserOp" =>
               userOp.paymaster /\ to = Paymaster /\ opcode = "CALL"
    PROVE  MachineInv'
<1>1. CallsInv'
  BY CallsOpen DEF MachineInv
<1> DEFINE F == [code |-> to, type |-> opcode, method |-> method,
                 ctx |-> IF opcode = "DELEGATECALL" THEN Running.ctx ELSE to]
<1>2. /\ frames' = Append(frames, F) /\ UNCHANGED <<userOp, phase, context, ended>>
      /\ calls' = Append(calls, [type |-> opcode, to |-> to, method |-> method])
  BY DEF Open, enter
<1>3. ResultInv'
  <2>1. addrs' = Append(addrs, to) /\ addrs \in Seq(Addrs)
    BY DEF Open, enter, TracerType
  <2>2. addrs' # <<>>
    BY <2>1
  <2> QED
    BY <2>2 DEF ResultInv
<1>4. ASSUME NEW i \in 1 .. Len(frames'),
             frames'[i].method = "validatePaymasterUserOp"
      PROVE  /\ userOp.paymaster
             /\ frames'[i].code = Paymaster /\ frames'[i].type = "CALL"
  <2>1. frames \in Seq(Frame)
    BY DEF TracerType
  <2>2. F.method = method /\ F.code = to /\ F.type = opcode
    OBVIOUS
  <2> HIDE DEF F
  <2>3. CASE i = Len(frames) + 1
    <3>1. frames'[i] = F
      BY <1>2, <2>1, <2>3
    <3> QED
      BY <1>4, <2>2, <3>1
  <2>4. CASE i \in 1 .. Len(frames)
    <3>1. frames'[i] = frames[i]
      BY <1>2, <2>1, <2>4
    <3> QED
      BY <1>4, <2>4, <3>1 DEF MachineInv, ContextInv
  <2> QED
    BY <1>2, <2>1, <2>3, <2>4
<1>5. ContextInv'
  BY <1>2, <1>4 DEF MachineInv, ContextInv, Called, Paid
<1> QED
  BY <1>1, <1>3, <1>5 DEF MachineInv

LEMMA CloseSent ==
    ASSUME TracerType, FramesInv, MachineInv,
           NEW opcode, NEW data, NEW type \in Ends,
           NEW words \in Nat, Close(opcode, data, type, words),
           words > 0 => /\ type = "RETURN"
                        /\ Running.method = "validatePaymasterUserOp"
    PROVE  MachineInv'
<1> DEFINE e == Ending(type, words)
<1>1. CallsInv'
  BY CallsClose DEF MachineInv
<1>2. /\ frames' = Front(frames) /\ ended' = Append(ended, e) /\ Len(frames) > 1
      /\ calls' = Append(calls, [type |-> type, data |-> <<"context", words>>])
      /\ UNCHANGED <<userOp, phase, due>>
      /\ context' = IF Depth = 2 /\ phase = 2 THEN words ELSE context
  BY DEF Close, exit, Depth
<1>3. frames \in Seq(Frame) /\ frames # <<>> /\ Len(frames) \in Nat
  BY <1>2 DEF TracerType
<1>4. ResultInv'
  <2>1. addrs' = Front(addrs) /\ addrs \in Seq(Addrs) /\ Len(addrs) = Len(frames)
    BY <1>3 DEF Close, exit, TracerType, FramesInv
  <2>2. addrs # <<>>
    BY <2>1, <1>2
  <2>3. Len(Front(addrs)) = Len(addrs) - 1
    BY <2>1, <2>2, FrontIs
  <2>4. Len(addrs') # 0
    <3>1. Len(addrs') = Len(frames) - 1
      BY <2>1, <2>3
    <3>2. Len(frames) \in Nat /\ Len(frames) > 1
      BY <1>2, <1>3
    <3> QED
      BY <3>1, <3>2
  <2>5. addrs' # <<>>
    BY <2>4
  <2> QED
    BY <2>5 DEF ResultInv
<1>5. /\ Len(frames') = Len(frames) - 1
      /\ \A i \in 1 .. Len(frames) - 1 : frames'[i] = frames[i]
  BY <1>2, <1>3, FrontIs
<1>6. ASSUME NEW i \in 1 .. Len(frames'),
             frames'[i].method = "validatePaymasterUserOp"
      PROVE  /\ userOp.paymaster
             /\ frames'[i].code = Paymaster /\ frames'[i].type = "CALL"
  <2>1. i \in 1 .. Len(frames) /\ frames'[i] = frames[i]
    BY <1>3, <1>5
  <2> QED
    BY <2>1, <1>6 DEF MachineInv, ContextInv
<1>7. context' \in Nat
  BY <1>2 DEF MachineInv, ContextInv
<1>8. ended \in Seq(EndedFrame)
  BY DEF MachineInv, CallsInv
<1>9. ASSUME context' > 0
      PROVE  userOp.paymaster /\ \E i \in 1 .. Len(ended') : ended'[i] = Paid'
  <2>1. CASE Depth = 2 /\ phase = 2
    <3>1. context' = words /\ type = "RETURN" /\ Running.method = "validatePaymasterUserOp"
      BY <2>1, <1>2, <1>9
    <3>2. Len(frames) \in 1 .. Len(frames) /\ Running = frames[Len(frames)]
      BY <1>2, <1>3 DEF Running, Depth
    <3>3. userOp.paymaster /\ Running.code = Paymaster /\ Running.type = "CALL"
      BY <3>1, <3>2 DEF MachineInv, ContextInv
    <3>4. e = Paid'
      BY <3>1, <3>3 DEF Ending, Paid
    <3> HIDE DEF e
    <3>5. /\ Len(ended) + 1 \in 1 .. Len(ended')
          /\ ended'[Len(ended) + 1] = Paid'
      BY <3>4, <1>2, <1>8
    <3> QED
      BY <3>3, <3>5
  <2>2. CASE ~(Depth = 2 /\ phase = 2)
    <3>1. context' = context
      BY <2>2, <1>2
    <3>2. PICK i \in 1 .. Len(ended) : ended[i] = Paid
      BY <3>1, <1>9 DEF MachineInv, ContextInv
    <3>3. Paid' = Paid /\ userOp.paymaster
      BY <3>1, <1>9 DEF MachineInv, ContextInv, Paid
    <3> HIDE DEF e
    <3>4. i \in 1 .. Len(ended') /\ ended'[i] = ended[i]
      BY <1>2, <1>8
    <3> QED
      BY <3>2, <3>3, <3>4
  <2> QED
    BY <2>1, <2>2
<1>10. ContextInv'
  BY <1>2, <1>6, <1>7, <1>9 DEF MachineInv, ContextInv, Called
<1> QED
  BY <1>1, <1>4, <1>10 DEF MachineInv

LEMMA EndSent ==
    ASSUME TracerType, MachineInv,
           NEW name \in (DOMAIN ResultWords) \cup {"FailedOp"}, NEW words \in Nat,
           name \in DOMAIN ResultWords => words = ResultWords[name] + context,
           Result(name, words)
    PROVE  MachineInv'
<1>1. CallsInv'
  BY CallsEnd DEF MachineInv
<1> DEFINE c == [type |-> "REVERT", data |-> Cut(name, words)]
<1>2. /\ frames' = <<>> /\ UNCHANGED <<userOp, phase, due, context, ended>>
      /\ calls' = Append(calls, c)
  BY DEF Result, stepEnd
<1>3. ResultInv'
  <2>1. calls \in Seq(Opened \cup Closed) /\ context \in Nat
    BY DEF MachineInv, CallsInv, ContextInv
  <2>2. c.data = Cut(name, words)
    OBVIOUS
  <2> HIDE DEF c
  <2>3. Last(calls') = c
    BY <1>2, <2>1 DEF Last
  <2>4. LastCall'.data[1] = Cut(name, words)[1] /\ context' = context
    BY <1>2, <2>2, <2>3 DEF LastCall
  <2>5. Cut(name, words)[1] # "context"
    BY ResultLengths DEF Cut
  <2>6. ASSUME Cut(name, words)[1] \in DOMAIN ResultWords
        PROVE  context < 2 /\ Cut(name, words)[1] = "ValidationResult"
    BY <2>1, <2>6, KeptResult
  <2>7. (DOMAIN ResultWords)' = DOMAIN ResultWords
    BY DEF ResultWords, Stakes, ReturnInfo
  <2> QED
    BY <2>4, <2>5, <2>6, <2>7 DEF ResultInv
<1>4. ContextInv'
  BY <1>2 DEF MachineInv, ContextInv, Called, Paid
<1> QED
  BY <1>1, <1>3, <1>4 DEF MachineInv

LEMMA MachineSent ==
    ASSUME TracerType, FramesInv, MachineInv, Machine
    PROVE  MachineInv'
<1>1. Depth = Len(frames) /\ Depth \in Nat /\ (Depth >= 1 => frames # <<>>)
  BY DEF TracerType, Depth
<1>2. ASSUME frames # <<>>, due' => Called(phase'),
             UNCHANGED <<frames, calls, ended, context, userOp, addrs>>
      PROVE  MachineInv'
  <2>1. addrs' # <<>>
    <3>1. addrs \in Seq(Addrs) /\ Len(addrs) = Len(frames) /\ frames \in Seq(Frame)
      BY <1>2 DEF TracerType, FramesInv
    <3> QED
      BY <3>1, <1>2
  <2>2. CallsInv'
    BY <1>2 DEF MachineInv, CallsInv
  <2>3. ContextInv'
    BY <1>2 DEF MachineInv, ContextInv, Called, Paid
  <2> QED
    BY <2>1, <2>2, <2>3 DEF MachineInv, ResultInv
<1>3. ASSUME NEW opcode, NEW data, Run(opcode, data) PROVE MachineInv'
  <2>1. /\ frames # <<>> /\ UNCHANGED <<due, phase>>
        /\ UNCHANGED <<frames, calls, ended, context, userOp, addrs>>
    BY <1>1, <1>3 DEF Run, step
  <2> QED
    BY <2>1, <1>2 DEF MachineInv, ContextInv
<1>4. CASE CallEntity
  <2>1. due /\ ~due' /\ frames # <<>> /\ Open("CALL", Entity(phase), Method(phase))
    BY <1>1, <1>4 DEF CallEntity
  <2>2. phase \in 0 .. 2 /\ Called(phase)
    BY <2>1 DEF TracerType, MachineInv, ContextInv
  <2>3. Entity(phase) \in Addrs /\ Method(phase) \in Methods
    BY <2>2 DEF Entity, Method, Addrs, Methods
  <2>4. Method(phase) = "validatePaymasterUserOp" =>
            userOp.paymaster /\ Entity(phase) = Paymaster
    BY <2>2 DEF Method, Entity, Called
  <2> QED
    BY <2>1, <2>3, <2>4, OpenSent
<1>5. ASSUME NEW opcode \in Kinds, NEW to \in Addrs, Call(opcode, to)
      PROVE  MachineInv'
  <2>1. frames # <<>> /\ due' = due /\ Open(opcode, to, "other")
    BY <1>1, <1>5 DEF Call
  <2>2. "other" \in Methods /\ "other" # "validatePaymasterUserOp"
    BY DEF Methods
  <2> QED
    BY <2>1, <2>2, OpenSent
<1>6. CASE Number
  <2>1. /\ frames # <<>>
        /\ UNCHANGED <<frames, calls, ended, context, userOp, addrs>>
        /\ phase' = phase + 1 /\ due' = Called(phase + 1)
    BY <1>1, <1>6 DEF Number, step
  <2> QED
    BY <2>1, <1>2
<1>7. ASSUME NEW opcode, NEW data, NEW type \in Ends,
             Close(opcode, data, type, 0)
      PROVE  MachineInv'
  BY <1>7, CloseSent
<1>8. CASE Return
  <2>1. PICK words \in IF Running.method = "validatePaymasterUserOp"
                       THEN Words ELSE {0} :
           Close("RETURN", None, "RETURN", words)
    BY <1>8 DEF Return
  <2>2. words \in Nat /\ "RETURN" \in Ends
    BY <2>1, TracerAssumption DEF Ends
  <2>3. words > 0 => Running.method = "validatePaymasterUserOp"
    BY <2>1
  <2> QED
    BY <2>1, <2>2, <2>3, CloseSent
<1>9. CASE Revert
  BY <1>7, <1>9 DEF Revert, Ends
<1>10. ASSUME NEW opcode, NEW data, Exhaust(opcode, data) PROVE MachineInv'
  BY <1>7, <1>10 DEF Exhaust, Ends
<1>11. CASE Succeed
  <2>1. PICK name \in DOMAIN ResultWords : Result(name, ResultWords[name] + context)
    BY <1>11 DEF Succeed
  <2>2. context \in Nat
    BY DEF MachineInv, ContextInv
  <2>3. ResultWords[name] + context \in Nat
    BY <2>2, ResultLengths
  <2> QED
    BY <2>1, <2>3, EndSent
<1>12. CASE FailOp
  <2>1. Result("FailedOp", 4) /\ "FailedOp" \notin DOMAIN ResultWords
    BY <1>12, ResultLengths DEF FailOp
  <2> QED
    BY <2>1, EndSent
<1>13. CASE OutOfGas
  <2>1. /\ frames # <<>> /\ frames' = <<>>
        /\ UNCHANGED <<calls, ended, context, userOp, due, phase, addrs>>
    BY <1>1, <1>13 DEF OutOfGas, tracer
  <2>2. addrs' # <<>>
    <3>1. addrs \in Seq(Addrs) /\ Len(addrs) = Len(frames) /\ frames \in Seq(Frame)
      BY <2>1 DEF TracerType, FramesInv
    <3> QED
      BY <3>1, <2>1
  <2>3. CallsInv'
    BY <2>1 DEF MachineInv, CallsInv
  <2>4. ContextInv'
    BY <2>1 DEF MachineInv, ContextInv, Called, Paid
  <2> QED
    BY <2>2, <2>3, <2>4 DEF MachineInv, ResultInv
<1> QED
  BY <1>3, <1>4, <1>5, <1>6, <1>8, <1>9, <1>10, <1>11, <1>12, <1>13 DEF Machine

-----------------------------------------------------------------------------
(***************************************************************************)
(* The code of the contracts an operation refers to.                       *)
(***************************************************************************)
\* f is what the addresses at the places in D leave of the order.
Refers(f, D) ==
    f = [s \in SUBSET D |->
            IF s = {} THEN <<>>
            ELSE Refer(f[s \ {Max(s)}], AddrOrder[Max(s)])]

LEMMA RefersExist ==
    \E f : /\ f \in [SUBSET (1 .. Len(AddrOrder)) -> Seq(Addrs)]
           /\ Refers(f, 1 .. Len(AddrOrder))
<1> DEFINE A == Seq(Addrs)
           m == Len(AddrOrder)
           h == [p \in A \X Addrs |-> Refer(p[1], p[2])]
<1>1. ASSUME NEW r \in A, NEW a \in Addrs PROVE Refer(r, a) \in A
  <2>1. Append(r, a) \in A
    <3>1. \A S : \A q \in Seq(S), e \in S : Append(q, e) \in Seq(S)
      OBVIOUS
    <3> QED
      BY <3>1
  <2> HIDE DEF A
  <2> QED
    BY <2>1 DEF Refer
<1>2. h \in [A \X Addrs -> A]
  <2> SUFFICES ASSUME NEW p \in A \X Addrs PROVE Refer(p[1], p[2]) \in A
    OBVIOUS
  <2>1. p[1] \in A /\ p[2] \in Addrs
    OBVIOUS
  <2> HIDE DEF A
  <2> QED
    BY <1>1, <2>1
<1>3. <<>> \in A /\ m \in Nat /\ \A i \in 1 .. m : AddrOrder[i] \in Addrs
  BY ValidationAssumption
<1>4. \A r \in A, a \in Addrs : h[<<r, a>>] = Refer(r, a)
  OBVIOUS
<1> HIDE DEF h, A, m
<1>5. PICK f : Folds(f, A, h, <<>>, AddrOrder, 1 .. m)
  BY <1>2, <1>3, FoldExists
<1>6. f \in [SUBSET (1 .. m) -> A]
  BY <1>5 DEF Folds
<1>7. ASSUME NEW s \in SUBSET (1 .. m), s # {}
      PROVE  h[<<f[s \ {Max(s)}], AddrOrder[Max(s)]>>]
                = Refer(f[s \ {Max(s)}], AddrOrder[Max(s)])
  <2>1. Max(s) \in 1 .. m
    BY <1>3, <1>7, GreatestExists
  <2>2. f[s \ {Max(s)}] \in A /\ AddrOrder[Max(s)] \in Addrs
    BY <1>3, <1>6, <2>1
  <2> QED
    BY <1>4, <2>2
<1>8. f = [s \in SUBSET (1 .. m) |->
              IF s = {} THEN <<>>
              ELSE h[<<f[s \ {Max(s)}], AddrOrder[Max(s)]>>]]
  BY <1>5 DEF Folds
<1>9. Refers(f, 1 .. m)
  BY <1>7, <1>8 DEF Refers
<1> QED
  BY <1>6, <1>9 DEF m, A

LEMMA ReferencedType == Referenced \in Seq(Addrs)
<1> DEFINE m == Len(AddrOrder)
           f == CHOOSE f : Refers(f, DOMAIN AddrOrder)
           S == {n \in Nat : n <= m => f[1 .. n] \in Seq(Addrs)}
<1>1. Referenced = f[DOMAIN AddrOrder]
  BY DEF Referenced, FoldLeft, MapThenFoldSet, Refers
<1>2. /\ m \in Nat /\ DOMAIN AddrOrder = 1 .. m
      /\ \A i \in 1 .. m : AddrOrder[i] \in Addrs
  BY ValidationAssumption
<1>3. Refers(f, 1 .. m)
  BY <1>2, RefersExist
<1> HIDE DEF f, m
<1>4. 0 \in S
  <2>1. 1 .. 0 = {} /\ {} \in SUBSET (1 .. m)
    OBVIOUS
  <2>2. f[1 .. 0] = <<>>
    BY <1>3, <2>1 DEF Refers
  <2>3. f[1 .. 0] \in Seq(Addrs)
    BY <2>2
  <2> QED
    BY <2>3
<1>5. ASSUME NEW n \in Nat, n \in S PROVE n + 1 \in S
  <2> SUFFICES ASSUME n + 1 <= m PROVE f[1 .. n + 1] \in Seq(Addrs)
    OBVIOUS
  <2> DEFINE s == 1 .. n + 1
  <2>1. /\ n + 1 \in Nat /\ n + 1 \in s /\ s \ {n + 1} = 1 .. n
        /\ s \subseteq 1 .. n + 1 /\ s \subseteq 1 .. m
    BY <1>2
  <2>2. f[1 .. n] \in Seq(Addrs) /\ AddrOrder[n + 1] \in Addrs
    BY <1>2, <1>5
  <2> HIDE DEF s
  <2>3. Max(s) = n + 1 /\ s # {}
    BY <2>1, GreatestIs
  <2>4. f[s] = Refer(f[s \ {Max(s)}], AddrOrder[Max(s)])
    BY <1>3, <2>1, <2>3 DEF Refers
  <2>5. f[s] = Refer(f[1 .. n], AddrOrder[n + 1])
    BY <2>1, <2>3, <2>4
  <2>6. f[s] \in Seq(Addrs)
    BY <2>2, <2>5 DEF Refer
  <2> QED
    BY <2>6 DEF s
<1> HIDE DEF S
<1>6. m \in S
  BY <1>2, <1>4, <1>5, EveryNumber
<1> QED
  BY <1>1, <1>2, <1>6 DEF S

\* The codes of those contracts.
LEMMA CodeIs ==
    ASSUME code \in [Addrs -> Versions]
    PROVE  CodeOf(Referenced) \in Seq(Versions)
<1> DEFINE r == Referenced
<1>1. r \in Seq(Addrs)
  BY ReferencedType
<1> HIDE DEF r
<1>2. CodeOf(r) \in Seq(Versions)
  BY <1>1 DEF CodeOf
<1> QED
  BY <1>2 DEF r

LEMMA EntityType ==
    ASSUME NEW a, EntityOf(a) # None
    PROVE  EntityOf(a) \in Addrs
BY DEF EntityOf, Title, Addrs

-----------------------------------------------------------------------------
(***************************************************************************)
(* The steps of the validation.                                            *)
(***************************************************************************)
Sent == {"prestate", "accepted"}

SentInv ==
    /\ MachineInv
    /\ pc \in Passed => Validated
    /\ pc \in Sent /\ context > 0 => Paymaster \in staked
    /\ pc \in PCs /\ round \in Nat /\ staked \subseteq Addrs
    /\ code \in [Addrs -> Versions]
    /\ hash # None => hash.codes \in Seq(Versions)

MachineReady ==
    /\ frames = <<[code |-> EntryPoint, ctx |-> EntryPoint,
                   type |-> "top", method |-> "validateUserOp"]>>
    /\ calls = <<>> /\ ended = <<>> /\ context = 0 /\ addrs = <<EntryPoint>>
    /\ phase = 0 /\ due = userOp.initCode

LEMMA ReadyMachine == MachineReady => MachineInv
<1> SUFFICES ASSUME MachineReady PROVE MachineInv
  OBVIOUS
<1>1. Len(frames) = 1 /\ frames[1].method = "validateUserOp"
  BY DEF MachineReady
<1>2. parseCalls(calls) = Nothing
  BY ParsedNothing DEF MachineReady
<1>3. CallsInv
  <2>1. /\ Nothing.stack = <<>> /\ Nothing.out = <<>> /\ Nothing \in ParsedSoFar
        /\ Len(Nothing.stack) = 0 /\ Len(Nothing.out) = 0
    BY DEF Nothing, ParsedSoFar
  <2>2. /\ calls \in Seq(Opened \cup Closed) /\ ended \in Seq(EndedFrame)
        /\ Len(ended) = 0
    BY DEF MachineReady
  <2> QED
    BY <1>1, <1>2, <2>1, <2>2 DEF CallsInv
<1>4. ContextInv
  BY <1>1 DEF MachineReady, ContextInv, Called
<1>5. ResultInv
  BY DEF MachineReady, ResultInv
<1> QED
  BY <1>3, <1>4, <1>5 DEF MachineInv

\* A context that was returned is found among the parsed calls.
LEMMA ContextIsSeen ==
    ASSUME MachineInv, context > 0
    PROVE  ContextReturned
<1> DEFINE P == parseCalls(calls)
<1>1. userOp.paymaster /\ context # 0
  BY DEF MachineInv, ContextInv
<1>2. PICK i \in 1 .. Len(ended) : ended[i] = Paid
  BY DEF MachineInv, ContextInv
<1>3. P.out \in Seq(Pairs) /\ ended \in Seq(EndedFrame)
      /\ Len(P.out) \in Len(ended) .. Len(ended) + 1
      /\ PairTells(P.out[i], ended[i])
  BY DEF MachineInv, CallsInv, ParsedSoFar
<1>4. /\ P.out[i].to = Paymaster /\ P.out[i].end = "RETURN"
      /\ P.out[i].method = "validatePaymasterUserOp" /\ P.out[i].data[2] = context
  BY <1>2, <1>3 DEF PairTells, Paid
<1>5. i \in DOMAIN P.out
  BY <1>3
<1> QED
  BY <1>1, <1>4, <1>5 DEF ContextReturned

LEMMA SentStutter ==
    ASSUME MachineInv, Simulation
    PROVE  MachineInv' /\ Validated' = Validated /\ context' = context
<1>1. UNCHANGED <<frames, calls, ended, context, phase, due, userOp, addrs>>
  BY DEF Simulation, evm, tracer
<1>2. ResultInv' /\ Validated' = Validated
  BY <1>1 DEF MachineInv, ResultInv, Validated, Results, LastCall
<1>3. CallsInv' /\ ContextInv'
  BY <1>1 DEF MachineInv, CallsInv, ContextInv, Called, Paid
<1> QED
  BY <1>1, <1>2, <1>3 DEF MachineInv

LEMMA SentStep ==
    ASSUME TracerType, FramesInv, SentInv, Next
    PROVE  SentInv'
<1>1. MachineInv
  BY DEF SentInv
<1>2. CASE Trace
  <2>1. MachineInv' /\ pc' = "trace" /\ UNCHANGED <<validation, code>>
    BY <1>1, <1>2, MachineSent DEF Trace, validation, chain
  <2> QED
    BY <2>1 DEF SentInv, Passed, Sent, PCs, validation
<1>3. ASSUME Simulation, UNCHANGED <<hash, round, code>>, pc' \in PCs,
             pc' \in Passed => Validated,
             pc' \in Sent /\ context > 0 => Paymaster \in staked',
             staked' \subseteq Addrs
      PROVE  SentInv'
  BY <1>1, <1>3, SentStutter DEF SentInv
<1>4. CASE TraceArrives
  <2>1. /\ pc' \in {"contracts", "refused"} /\ UNCHANGED <<hash, round, code, staked>>
        /\ Simulation /\ (pc' = "contracts" => Validated)
    BY <1>4 DEF TraceArrives
  <2> QED
    BY <2>1, <1>3 DEF SentInv, Passed, Sent, PCs
<1>5. CASE RefuseContract \/ EntityUnstaked \/ PaymasterUnstaked
  <2>1. /\ pc' = "refused" /\ UNCHANGED <<hash, round, code, staked>> /\ Simulation
    BY <1>5 DEF RefuseContract, EntityUnstaked, PaymasterUnstaked, Goto, chain
  <2> QED
    BY <2>1, <1>3 DEF SentInv, Passed, Sent, PCs
<1>6. CASE EntityStaked
  <2>1. /\ pc = "contracts" /\ pc' = "contracts" /\ UNCHANGED <<hash, round, code>>
        /\ Simulation
        /\ EntityOf(order[Asked]) # None
        /\ staked' = staked \cup {EntityOf(order[Asked])}
    BY <1>6 DEF EntityStaked, Goto, chain
  <2>2. staked' \subseteq Addrs
    BY <2>1, EntityType DEF SentInv
  <2> QED
    BY <2>1, <2>2, <1>3 DEF SentInv, Passed, Sent, PCs
<1>7. CASE ContractsPass
  <2>1. /\ pc = "contracts" /\ UNCHANGED <<hash, round, code, staked>> /\ Simulation
        /\ pc' \in {"context", "prestate", "refused"}
        /\ ContextReturned => pc' = "context"
    BY <1>7 DEF ContractsPass, Goto, AfterCalls, chain
  <2>2. pc' \in Sent => ~(context > 0)
    BY <2>1, <1>1, ContextIsSeen DEF Sent
  <2> QED
    BY <2>1, <2>2, <1>3 DEF SentInv, Passed, PCs
<1>8. CASE PaymasterStaked
  <2>1. /\ pc = "context" /\ pc' \in {"prestate", "refused"}
        /\ UNCHANGED <<hash, round, code>> /\ Simulation
        /\ staked' = staked \cup {Paymaster}
    BY <1>8 DEF PaymasterStaked, Goto, AfterCalls, chain
  <2>2. Paymaster \in Addrs
    BY DEF Addrs
  <2> QED
    BY <2>1, <2>2, <1>3 DEF SentInv, Passed, PCs
<1>9. CASE Prestate
  <2>1. /\ pc = "prestate" /\ pc' \in {"accepted", "refused"}
        /\ UNCHANGED <<staked, round, code>> /\ Simulation
        /\ \/ hash' = hash
           \/ hash' = [addresses |-> Referenced, codes |-> CodeOf(Referenced)]
    BY <1>9 DEF Prestate, chain
  <2>2. CodeOf(Referenced) \in Seq(Versions)
    BY CodeIs DEF SentInv
  <2>3. hash' # None => hash'.codes \in Seq(Versions)
    BY <2>1, <2>2 DEF SentInv
  <2>4. MachineInv' /\ Validated' = Validated /\ context' = context
    BY <1>1, <2>1, SentStutter
  <2> QED
    BY <2>1, <2>3, <2>4 DEF SentInv, Passed, Sent, PCs
<1>10. CASE Revalidate
  <2>1. MachineReady' /\ pc' = "trace" /\ staked' = {} /\ round' = round + 1
        /\ UNCHANGED <<hash, code>>
    BY <1>10 DEF Revalidate, MachineReady, chain
  <2>2. MachineReady' => MachineInv'
    BY ReadyMachine, PTL
  <2> QED
    BY <2>1, <2>2 DEF SentInv, Passed, Sent, PCs
<1>11. CASE ReplaceCode
  <2>1. Simulation /\ UNCHANGED <<pc, staked, hash, round>>
    BY <1>11 DEF ReplaceCode, validation
  <2>2. code' \in [Addrs -> Versions]
    BY <1>11 DEF ReplaceCode, SentInv, Addrs
  <2>3. MachineInv' /\ Validated' = Validated /\ context' = context
    BY <1>1, <2>1, SentStutter
  <2> QED
    BY <2>1, <2>2, <2>3 DEF SentInv
<1> QED
  BY <1>2, <1>4, <1>5, <1>6, <1>7, <1>8, <1>9, <1>10, <1>11 DEF Next, Validate

\* The parsed calls, the context and the result are what the machine left.
THEOREM SentHolds == Spec => []SentInv
<1>1. ValidationInit => SentInv
  <2> SUFFICES ASSUME ValidationInit PROVE SentInv
    OBVIOUS
  <2>1. MachineReady
    BY DEF ValidationInit, Init, MachineReady
  <2>2. (CHOOSE v \in Versions : TRUE) \in Versions
    BY ValidationAssumption
  <2> QED
    BY <2>1, <2>2, ReadyMachine DEF ValidationInit, SentInv, Passed, Sent, PCs
<1>2. ValidationInv /\ SentInv /\ [Next]_vars => SentInv'
  <2> SUFFICES ASSUME ValidationInv, SentInv, [Next]_vars PROVE SentInv'
    OBVIOUS
  <2>1. TracerType /\ FramesInv /\ MachineInv
    BY DEF ValidationInv, TracerInv, SentInv
  <2>2. CASE Next
    BY <2>1, <2>2, SentStep
  <2>3. CASE UNCHANGED vars
    <3>1. Simulation /\ UNCHANGED <<pc, staked, hash, round, code>>
      BY <2>3 DEF vars, Simulation, validation, chain, evm, tracer
    <3>2. MachineInv' /\ Validated' = Validated /\ context' = context
      BY <2>1, <3>1, SentStutter
    <3> QED
      BY <3>1, <3>2 DEF SentInv
  <2> QED
    BY <2>2, <2>3
<1> QED
  BY <1>1, <1>2, ValidationHolds, PTL DEF Spec

-----------------------------------------------------------------------------
(***************************************************************************)
(* The code each validation ran.                                           *)
(***************************************************************************)
\* The code of validation i's trace is the code of the hash, but for a change
\* before its second trace.
Pinned(i) == i \in replaced \/ ran[i] = hash.codes

\* The validation that is under way is the last of those that ran, once its
\* trace has arrived; the ones before it are pinned.
PinInv ==
    /\ ran \in Seq(Seq(Versions)) /\ replaced \subseteq 1 .. Len(ran)
    /\ pc \in Passed => Len(ran) > 0
    /\ hash = None => Len(ran) = IF pc = "trace" THEN 0 ELSE 1
    /\ pc = "accepted" => hash # None
    /\ pc \in {"trace", "accepted"} => \A i \in 1 .. Len(ran) : Pinned(i)
    /\ pc \in Passed \ {"accepted"} =>
          /\ \A i \in 1 .. Len(ran) - 1 : Pinned(i)
          /\ Len(ran) \in replaced \/ ran[Len(ran)] = CodeOf(Referenced)

\* The addresses a trace refers to stay while it does.
LEMMA ReferencedKeeps == UNCHANGED order => Referenced' = Referenced
BY DEF Referenced, FoldLeft, MapThenFoldSet, Refer, Contains

LEMMA PinStep ==
    ASSUME PinInv, code \in [Addrs -> Versions], Next
    PROVE  PinInv'
<1> USE DEF Pinned
<1>1. CASE Trace
  <2>1. pc = "trace" /\ UNCHANGED <<pc, hash, ran, replaced>>
    BY <1>1 DEF Trace, validation, chain
  <2> QED
    BY <2>1 DEF PinInv, Passed
<1>2. ASSUME Simulation
      PROVE  /\ Referenced' = Referenced
             /\ code' = code => CodeOf(Referenced)' = CodeOf(Referenced)
  <2>1. Referenced' = Referenced
    BY <1>2, ReferencedKeeps DEF Simulation, tracer
  <2> QED
    BY <2>1 DEF CodeOf
<1>3. CASE TraceArrives
  <2> DEFINE c == CodeOf(Referenced)
             n == Len(ran)
  <2>1. /\ pc = "trace" /\ pc' \in {"contracts", "refused"} /\ ran' = Append(ran, c)
        /\ UNCHANGED <<hash, code, replaced>> /\ Simulation
    BY <1>3 DEF TraceArrives
  <2>2. c \in Seq(Versions) /\ CodeOf(Referenced)' = c
    BY <2>1, <1>2, CodeIs
  <2> HIDE DEF c
  <2>3. /\ n \in Nat /\ Len(ran') = n + 1 /\ ran'[n + 1] = c
        /\ ran' \in Seq(Seq(Versions)) /\ \A i \in 1 .. n : ran'[i] = ran[i]
    BY <2>1, <2>2 DEF PinInv
  <2>4. /\ replaced \subseteq 1 .. n /\ \A i \in 1 .. n : Pinned(i)
        /\ hash = None => n = 0
    BY <2>1 DEF PinInv
  <2>5. replaced' \subseteq 1 .. Len(ran')
    BY <2>1, <2>3, <2>4
  <2>6. \A i \in 1 .. Len(ran') - 1 : Pinned(i)'
    BY <2>1, <2>3, <2>4
  <2> HIDE DEF n
  <2> QED
    BY <2>1, <2>2, <2>3, <2>4, <2>5, <2>6 DEF PinInv, Passed
<1>4. CASE \/ RefuseContract \/ EntityStaked \/ EntityUnstaked \/ ContractsPass
           \/ PaymasterStaked \/ PaymasterUnstaked
  <2>1. /\ pc \in Passed \ {"accepted"} /\ pc' \in PCs \ {"trace", "accepted"}
        /\ UNCHANGED <<hash, code, ran, replaced>> /\ Simulation
    BY <1>4 DEF RefuseContract, EntityStaked, EntityUnstaked, ContractsPass,
       PaymasterStaked, PaymasterUnstaked, Goto, AfterCalls, Passed, PCs, chain
  <2>2. CodeOf(Referenced)' = CodeOf(Referenced)
    BY <2>1, <1>2
  <2> QED
    BY <2>1, <2>2 DEF PinInv, Passed
<1>5. CASE Prestate
  <2> DEFINE c == CodeOf(Referenced)
  <2>1. /\ pc = "prestate" /\ pc' \in {"accepted", "refused"}
        /\ UNCHANGED <<code, ran, replaced>> /\ Simulation
    BY <1>5 DEF Prestate, chain
  <2>2. CASE pc' = "refused"
    <3>1. hash' = hash
      BY <1>5, <2>2 DEF Prestate
    <3> QED
      BY <2>1, <2>2, <3>1 DEF PinInv, Passed
  <2>3. CASE pc' = "accepted"
    <3>1. hash' = [addresses |-> Referenced, codes |-> c]
          /\ (hash = None \/ hash.codes = c)
      BY <1>5, <2>3 DEF Prestate
    <3>2. c \in Seq(Versions) /\ Referenced \in Seq(Addrs)
      BY CodeIs, ReferencedType
    <3> HIDE DEF c
    <3>3. hash' # None /\ hash'.codes = c
      BY <3>1, <3>2, ValidationAssumption
    <3>4. /\ Len(ran) \in Nat /\ Len(ran) > 0
          /\ \A i \in 1 .. Len(ran) - 1 : Pinned(i)
          /\ Len(ran) \in replaced \/ ran[Len(ran)] = c
          /\ hash = None => Len(ran) = 1
      BY <2>1 DEF PinInv, Passed, c
    <3>5. ASSUME NEW i \in 1 .. Len(ran) PROVE Pinned(i)'
      <4>1. CASE i = Len(ran)
        BY <4>1, <2>1, <3>3, <3>4
      <4>2. CASE i \in 1 .. Len(ran) - 1
        <5>1. hash # None
          BY <4>2, <3>4
        <5>2. hash.codes = c
          BY <5>1, <3>1
        <5>3. i \in replaced \/ ran[i] = c
          BY <4>2, <5>2, <3>4
        <5> QED
          BY <5>3, <2>1, <3>3
      <4> QED
        BY <4>1, <4>2, <3>4
    <3> QED
      BY <2>1, <2>3, <3>3, <3>4, <3>5 DEF PinInv
  <2> QED
    BY <2>1, <2>2, <2>3
<1>6. CASE Revalidate
  <2>1. pc = "accepted" /\ pc' = "trace" /\ UNCHANGED <<hash, ran, replaced>>
    BY <1>6 DEF Revalidate, chain
  <2>2. hash # None
    BY <2>1 DEF PinInv
  <2> QED
    BY <2>1, <2>2 DEF PinInv, Passed
<1>7. CASE ReplaceCode
  <2>1. /\ pc \in {"prestate", "accepted"} /\ Simulation
        /\ UNCHANGED <<pc, hash, ran>>
        /\ replaced' = IF pc = "prestate" THEN replaced \cup {Len(ran)}
                       ELSE replaced
    BY <1>7 DEF ReplaceCode, validation
  <2>2. Len(ran) \in 1 .. Len(ran)
    BY <2>1 DEF PinInv, Passed
  <2> QED
    BY <2>1, <2>2 DEF PinInv, Passed
<1> QED
  BY <1>1, <1>3, <1>4, <1>5, <1>6, <1>7 DEF Next, Validate

LEMMA PinHolds == Spec => []PinInv
<1>1. ValidationInit => PinInv
  BY DEF ValidationInit, PinInv, Passed
<1>2. SentInv /\ PinInv /\ [Next]_vars => PinInv'
  <2> SUFFICES ASSUME SentInv, PinInv, [Next]_vars PROVE PinInv'
    OBVIOUS
  <2>1. CASE Next
    BY <2>1, PinStep DEF SentInv
  <2>2. CASE UNCHANGED vars
    <3>1. UNCHANGED <<pc, hash, ran, replaced, code, order>>
      BY <2>2 DEF vars, validation, chain, tracer
    <3>2. CodeOf(Referenced)' = CodeOf(Referenced)
      BY <3>1, ReferencedKeeps DEF CodeOf
    <3> QED
      BY <3>1, <3>2 DEF PinInv, Pinned
  <2> QED
    BY <2>1, <2>2
<1> QED
  BY <1>1, <1>2, SentHolds, PTL DEF Spec

\* Validated any number of times, with code replaced at any moment: what is
\* accepted ran, each time, the code of the one hash, or code that was replaced
\* between the two traces of that very validation.
THEOREM CodeIsPinned == Spec => []RanPinnedCode
<1>1. ASSUME PinInv PROVE RanPinnedCode
  <2> SUFFICES ASSUME Accepted, NEW i \in DOMAIN ran
               PROVE  i \in replaced \/ ran[i] = hash.codes
    BY DEF RanPinnedCode
  <2>1. i \in 1 .. Len(ran)
    BY <1>1 DEF PinInv
  <2> QED
    BY <1>1, <2>1 DEF PinInv, Pinned, Accepted
<1> QED
  BY <1>1, PinHolds, PTL

\* Type correctness, of the records of the trace and the hash of the code too.
THEOREM ValidationTypes == Spec => []TypeOK
<1>1. ASSUME ValidationInv, SentInv, PinInv PROVE TypeOK
  <2>1. /\ order \in Seq(Addrs) /\ addrs \in Seq(Addrs) /\ output \in Outputs
        /\ next \in Nat
    BY <1>1 DEF ValidationInv, TracerInv, TracerType
  <2>2. ToSet(order) \subseteq Addrs /\ ToSet(addrs) \subseteq Addrs
    BY <2>1 DEF ToSet
  <2>3. ASSUME NEW a \in Addrs
        PROVE  output[a].number \in Nat /\ ToSet(output[a].storage) \subseteq Slots
    <3>1. output[a].number \in Nat /\ output[a].storage \in Seq(Slots)
      BY <2>1 DEF Outputs, Recorded
    <3> QED
      BY <3>1 DEF ToSet
  <2>4. DOMAIN ran = 1 .. Len(ran) /\ \A i \in DOMAIN ran : ran[i] \in Seq(Versions)
    BY <1>1 DEF PinInv
  <2> QED
    BY <1>1, <2>1, <2>2, <2>3, <2>4 DEF TypeOK, SentInv, PinInv
<1> QED
  BY <1>1, ValidationHolds, SentHolds, PinHolds, PTL

\* For any nesting, failures and exhausted frames, each end of a call is paired
\* with the call it ends.
THEOREM CallsArePaired == Spec => []CallsPaired
<1>1. ASSUME ValidationInv, SentInv PROVE CallsPaired
  <2>1. frames \in Seq(Frame) /\ CallsInv
    BY <1>1 DEF ValidationInv, TracerInv, TracerType, SentInv, MachineInv
  <2> DEFINE P == parseCalls(calls)
  <2>2. ASSUME frames # <<>>
        PROVE  /\ Len(P.stack) = Len(Tail(frames))
               /\ \A i \in DOMAIN Tail(frames) :
                     P.stack[i].to = Tail(frames)[i].code
               /\ Len(P.out) = Len(ended)
    <3>1. /\ Len(Tail(frames)) = Len(frames) - 1
          /\ DOMAIN Tail(frames) = 1 .. Len(frames) - 1
          /\ \A i \in 1 .. Len(frames) - 1 : Tail(frames)[i] = frames[i + 1]
      BY <2>1, <2>2
    <3>2. /\ Len(P.stack) = Len(frames) - 1 /\ Len(P.out) = Len(ended)
          /\ \A i \in 1 .. Len(frames) - 1 :
                P.stack[i] = Opening(frames[i + 1])
      BY <2>1, <2>2 DEF CallsInv
    <3>3. ASSUME NEW i \in 1 .. Len(frames) - 1
          PROVE  P.stack[i].to = frames[i + 1].code
      <4>1. P.stack[i] = Opening(frames[i + 1])
        BY <3>2
      <4> HIDE DEF P
      <4> QED
        BY <4>1 DEF Opening
    <3> HIDE DEF P
    <3> QED
      BY <3>1, <3>2, <3>3
  <2>3. DOMAIN ended = 1 .. Len(ended)
    BY <2>1 DEF CallsInv
  <2> QED
    BY <2>1, <2>2, <2>3 DEF CallsInv, CallsPaired, PairTells
<1> QED
  BY <1>1, ValidationHolds, SentHolds, PTL

\* Whatever is nested, and however long the context: a paymaster that returned a
\* context is staked, and what is accepted on the entry point's last word has no
\* aggregator.
THEOREM AcceptedIsSendable == Spec => []AcceptedCanBeSent
<1>1. ASSUME SentInv PROVE AcceptedCanBeSent
  <2>1. ResultInv /\ (Accepted => Validated)
    BY <1>1 DEF SentInv, MachineInv, Accepted, Passed
  <2> QED
    BY <1>1, <2>1, ResultIsSent DEF SentInv, AcceptedCanBeSent, Accepted, Sent
<1> QED
  BY <1>1, SentHolds, PTL
=============================================================================
