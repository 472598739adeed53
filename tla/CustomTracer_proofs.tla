------------------------- MODULE CustomTracer_proofs -------------------------
(***************************************************************************)
(* What the tracer tells of a run is what the machine did, for any         *)
(* operations, any contracts and runs of any length.                       *)
(***************************************************************************)
EXTENDS CustomTracer, TLAPS

Methods == {"create", "validateUserOp", "validatePaymasterUserOp", "other"}

Frame == [code : Addrs, ctx : Addrs,
          type : {"top", "CALL"} \cup Kinds, method : Methods]

Hash == [input : Inputs, hash : Slots]

Recorded == [number : Nat, storage : Seq(Slots), keccak : Seq(Hash),
             violation : [Banned \cup {"GAS", "NUMBER"} -> Nat]]

Outputs == [Addrs -> Recorded]

\* The shapes of the variables, and the number of the phase, which the tracer
\* counts on its own.
TracerType ==
    /\ frames \in Seq(Frame)
    /\ phase \in 0 .. 2
    /\ top \in Slots \cup {None}
    /\ first \in [Addrs -> 0 .. 2 \cup {None}]
    /\ addrs \in Seq(Addrs)
    /\ order \in Seq(Addrs)
    /\ output \in Outputs
    /\ prevOp.op = "KECCAK256" => prevOp.data \in Inputs /\ top \in Slots
    /\ numberCounter = phase

\* The tracer's stack of addresses is the machine's stack of frames, and every
\* open frame runs a known address on the storage of a known address.
FramesInv ==
    frames # <<>> =>
        /\ Len(addrs) = Len(frames)
        /\ frames[1].code = EntryPoint
        /\ \A i \in 1 .. Len(frames) : /\ addrs[i] = frames[i].code
                                       /\ Contains(order, frames[i].code)
                                       /\ Contains(order, frames[i].ctx)

\* An address that was never entered did nothing, and only accesses and hashes,
\* lost ones too, come with data.
DidInv ==
    \A d \in did :
        /\ d = <<d[1], d[2], d[3]>>
        /\ d[1] \in Addrs /\ Contains(order, d[1])
        /\ d[2] = "SLOAD" => d[3] \in Slots
        /\ d[2] \notin {"SLOAD", "KECCAK256", "LOST"} => d[3] = None

\* What is on the stack when a hash is about to be written down: the hash the
\* running frame has computed, or the zero of a call in which it was lost.
HashInv ==
    prevOp.op = "KECCAK256" /\ frames # <<>> =>
        \/ top = prevOp.data /\ <<Running.code, "KECCAK256", prevOp.data>> \in did
        \/ top = Plain /\ <<Running.code, "LOST", prevOp.data>> \in did

\* What a record tells of the opcodes in D, of which Tells is about the
\* violations and the storage, and Own about the hashes.
Tells(out, D) ==
    \A a \in Addrs :
        /\ \A o \in Banned : out[a].violation[o] > 0 <=> <<a, o, None>> \in D
        /\ a # EntryPoint => (out[a].violation["NUMBER"] > 0
                                 <=> <<a, "NUMBER", None>> \in D)
        /\ \A s \in Slots :
              Contains(out[a].storage, s) <=> <<a, "SLOAD", s>> \in D

Own(out, D) ==
    \A a \in Addrs : \A i \in DOMAIN out[a].keccak :
        \/ /\ out[a].keccak[i].hash = out[a].keccak[i].input
           /\ <<a, "KECCAK256", out[a].keccak[i].input>> \in D
        \/ /\ out[a].keccak[i].hash = Plain
           /\ <<a, "LOST", out[a].keccak[i].input>> \in D

Numbered(out, f, ord) ==
    \A a \in Addrs : /\ Contains(ord, a) <=> f[a] # None
                     /\ Contains(ord, a) => out[a].number = f[a]

TracerInv == /\ TracerType /\ FramesInv /\ DidInv /\ HashInv
             /\ Tells(output, did) /\ Own(output, did)
             /\ Numbered(output, first, order)

LEMMA TellsAll ==
    /\ TraceTells <=> Tells(output, did) /\ Numbered(output, first, order)
    /\ HashesOwn <=> Own(output, did)
BY DEF TraceTells, HashesOwn, Tells, Own, Numbered

LEMMA ContainsAppend ==
    ASSUME NEW S, NEW s \in Seq(S), NEW x \in S, NEW e
    PROVE  /\ Append(s, x) \in Seq(S)
           /\ Contains(Append(s, x), e) <=> Contains(s, e) \/ e = x
BY DEF Contains

\* A slot is added at the front or at the back.
LEMMA AddSlotAdds ==
    ASSUME NEW s \in Seq(Slots), NEW x \in Slots
    PROVE  /\ AddSlot(s, x) \in Seq(Slots)
           /\ \A e : Contains(AddSlot(s, x), e) <=> Contains(s, e) \/ e = x
<1>1. CASE Contains(s, x)
  BY <1>1 DEF AddSlot, Contains
<1>2. CASE ~Contains(s, x) /\ x = Plain
  <2>1. AddSlot(s, x) = <<x>> \o s
    BY <1>2 DEF AddSlot
  <2>2. <<x>> \o s \in Seq(Slots) /\ Len(<<x>> \o s) = Len(s) + 1
    OBVIOUS
  <2>3. /\ (<<x>> \o s)[1] = x
        /\ \A i \in 1 .. Len(s) : (<<x>> \o s)[i + 1] = s[i]
    OBVIOUS
  <2>4. ASSUME NEW e PROVE Contains(<<x>> \o s, e) <=> Contains(s, e) \/ e = x
    <3>1. ASSUME NEW i \in 1 .. Len(s) + 1, (<<x>> \o s)[i] = e
          PROVE  Contains(s, e) \/ e = x
      <4>1. CASE i = 1
        BY <3>1, <4>1, <2>3
      <4>2. CASE i # 1
        <5>1. i - 1 \in 1 .. Len(s) /\ (i - 1) + 1 = i
          BY <4>2
        <5>2. s[i - 1] = e
          BY <5>1, <2>3, <3>1
        <5> QED
          BY <5>1, <5>2 DEF Contains
      <4> QED
        BY <4>1, <4>2
    <3>2. ASSUME NEW i \in 1 .. Len(s), s[i] = e
          PROVE  Contains(<<x>> \o s, e)
      <4>1. i + 1 \in 1 .. Len(<<x>> \o s) /\ (<<x>> \o s)[i + 1] = e
        BY <3>2, <2>2, <2>3
      <4> QED
        BY <4>1 DEF Contains
    <3>3. e = x => Contains(<<x>> \o s, e)
      BY <2>2, <2>3 DEF Contains
    <3> QED
      BY <3>1, <3>2, <3>3, <2>2 DEF Contains
  <2> QED
    BY <2>1, <2>2, <2>4
<1>3. CASE ~Contains(s, x) /\ x # Plain
  BY <1>3, ContainsAppend DEF AddSlot
<1> QED
  BY <1>1, <1>2, <1>3

\* A hash is added, or takes the place of one of the same input.
LEMMA AddHashAdds ==
    ASSUME NEW s \in Seq(Hash), NEW x \in Inputs, NEW h \in Slots
    PROVE  /\ AddHash(s, x, h) \in Seq(Hash)
           /\ \A i \in DOMAIN AddHash(s, x, h) :
                 \/ AddHash(s, x, h)[i] = [input |-> x, hash |-> h]
                 \/ i \in DOMAIN s /\ AddHash(s, x, h)[i] = s[i]
<1> DEFINE k == [input |-> x, hash |-> h]
<1>1. k \in Hash
  BY DEF Hash
<1>2. CASE \E i \in DOMAIN s : s[i].input = x
  <2>1. AddHash(s, x, h) = [i \in DOMAIN s |-> IF s[i].input = x THEN k ELSE s[i]]
    BY <1>2 DEF AddHash
  <2>2. \A i \in DOMAIN s : s[i] \in Hash
    OBVIOUS
  <2>3. [i \in DOMAIN s |-> IF s[i].input = x THEN k ELSE s[i]] \in Seq(Hash)
    <3> HIDE DEF k
    <3> QED
      BY <1>1, <2>2
  <2> QED
    BY <2>1, <2>3
<1>3. CASE ~ \E i \in DOMAIN s : s[i].input = x
  <2>1. AddHash(s, x, h) = Append(s, k)
    BY <1>3 DEF AddHash
  <2> HIDE DEF k
  <2>2. Append(s, k) \in Seq(Hash) /\ Len(Append(s, k)) = Len(s) + 1
        /\ Append(s, k)[Len(s) + 1] = k
        /\ \A i \in 1 .. Len(s) : Append(s, k)[i] = s[i]
    BY <1>1
  <2>3. \A i \in DOMAIN Append(s, k) : i \in 1 .. Len(s) \/ i = Len(s) + 1
    BY <2>2
  <2>4. DOMAIN s = 1 .. Len(s)
    OBVIOUS
  <2> QED
    BY <2>1, <2>2, <2>3, <2>4 DEF k
<1> QED
  BY <1>2, <1>3

\* pKeccakAfter writes down one hash of the running code, and nothing else.
LEMMA HashedAdds ==
    ASSUME TracerType, NEW to \in Addrs
    PROVE  /\ Hashed(output, to) \in Outputs
           /\ \A a \in Addrs :
                 /\ Hashed(output, to)[a].number = output[a].number
                 /\ Hashed(output, to)[a].storage = output[a].storage
                 /\ Hashed(output, to)[a].violation = output[a].violation
                 /\ \A i \in DOMAIN Hashed(output, to)[a].keccak :
                       \/ /\ prevOp.op = "KECCAK256" /\ a = to
                          /\ Hashed(output, to)[a].keccak[i] =
                                [input |-> prevOp.data, hash |-> top]
                       \/ /\ i \in DOMAIN output[a].keccak
                          /\ Hashed(output, to)[a].keccak[i]
                                = output[a].keccak[i]
<1>1. CASE prevOp.op = "KECCAK256"
  <2> DEFINE k == AddHash(output[to].keccak, prevOp.data, top)
  <2>1. output[to] \in Recorded /\ output[to].keccak \in Seq(Hash)
    BY DEF TracerType, Outputs, Recorded
  <2>2. /\ k \in Seq(Hash)
        /\ \A i \in DOMAIN k : \/ k[i] = [input |-> prevOp.data, hash |-> top]
                               \/ /\ i \in DOMAIN output[to].keccak
                                  /\ k[i] = output[to].keccak[i]
    <3>1. prevOp.data \in Inputs /\ top \in Slots
      BY <1>1 DEF TracerType
    <3> QED
      BY <2>1, <3>1, AddHashAdds
  <2>3. Hashed(output, to) = [output EXCEPT ![to].keccak = k]
    BY <1>1 DEF Hashed
  <2> HIDE DEF k
  <2>4. [output[to] EXCEPT !.keccak = k] \in Recorded
    BY <2>1, <2>2 DEF Recorded
  <2>5. Hashed(output, to) \in Outputs
    BY <2>3, <2>4 DEF TracerType, Outputs
  <2>6. \A a \in Addrs : a # to => Hashed(output, to)[a] = output[a]
    BY <2>3 DEF TracerType, Outputs
  <2>7. Hashed(output, to)[to] = [output[to] EXCEPT !.keccak = k]
    BY <2>3 DEF TracerType, Outputs
  <2>8. /\ Hashed(output, to)[to].keccak = k
        /\ Hashed(output, to)[to].number = output[to].number
        /\ Hashed(output, to)[to].storage = output[to].storage
        /\ Hashed(output, to)[to].violation = output[to].violation
    BY <2>7, <2>1 DEF Recorded
  <2> QED
    BY <1>1, <2>2, <2>5, <2>6, <2>8
<1>2. CASE prevOp.op # "KECCAK256"
  BY <1>2 DEF Hashed, TracerType
<1> QED
  BY <1>1, <1>2

\* The opcodes a frame may execute, and what they come with.
Legal(opcode, data) ==
    /\ opcode = "SLOAD" => data \in Slots
    /\ opcode = "KECCAK256" => data \in Inputs
    /\ opcode \notin {"SLOAD", "KECCAK256"} => data = None

\* The address, and the entry of did, of an opcode.
By(opcode) == IF opcode = "SLOAD" THEN Running.ctx ELSE Running.code

Doing(opcode, data) == did \cup {<<By(opcode), opcode, data>>}

\* The running frame is on top of the tracer's stack.
LEMMA RunningKnown ==
    ASSUME TracerType, FramesInv, frames # <<>>
    PROVE  /\ Depth \in Nat /\ Depth >= 1 /\ Depth = Len(frames)
           /\ Running \in Frame /\ Running.code \in Addrs /\ Running.ctx \in Addrs
           /\ addrs[Depth] = Running.code
           /\ Contains(order, Running.code) /\ Contains(order, Running.ctx)
           /\ Depth = 1 => Running.code = EntryPoint
<1>1. Len(frames) \in Nat /\ Len(frames) >= 1 /\ frames[Len(frames)] \in Frame
  BY DEF TracerType
<1> QED
  BY <1>1 DEF Depth, Running, FramesInv, Frame

\* step writes down the opcode before as a use of GAS or as a hash, and this
\* one as an access or a violation.
LEMMA SteppedIs ==
    ASSUME TracerInv, frames # <<>>, NEW opcode, NEW data, Legal(opcode, data)
    PROVE  /\ Stepped(opcode, data) \in Outputs
           /\ \A a \in Addrs :
                 /\ Stepped(opcode, data)[a].number = output[a].number
                 /\ \A s : Contains(Stepped(opcode, data)[a].storage, s)
                       <=> \/ Contains(output[a].storage, s)
                           \/ opcode = "SLOAD" /\ a = Running.ctx /\ s = data
                 /\ \A o \in Banned :
                       Stepped(opcode, data)[a].violation[o] > 0
                       <=> \/ output[a].violation[o] > 0
                           \/ opcode = o /\ a = Running.code
                 /\ Stepped(opcode, data)[a].violation["NUMBER"] > 0
                    <=> \/ output[a].violation["NUMBER"] > 0
                        \/ opcode = "NUMBER" /\ Depth > 1 /\ a = Running.code
                 /\ Stepped(opcode, data)[a].keccak
                       = Hashed(output, Running.code)[a].keccak
<1> DEFINE to   == Running.code
           hash == Hashed(output, to)
           gas  == IF Depth > 1 /\ prevOp.op = "GAS" /\ opcode \notin NamesCall
                   THEN [hash EXCEPT ![to].violation["GAS"] = 1]
                   ELSE hash
           bad  == opcode \in Banned \/ (opcode = "NUMBER" /\ Depth > 1)
           end  == IF opcode = "SLOAD" THEN pSloadStore(gas, data)
                   ELSE IF bad THEN [gas EXCEPT ![to].violation[opcode] = @ + 1]
                   ELSE gas
<1>0. TracerType /\ FramesInv
  BY DEF TracerInv
<1>1. to \in Addrs /\ Running.ctx \in Addrs /\ addrs[Depth] = to
  BY <1>0, RunningKnown
<1>2. Stepped(opcode, data) = end
  BY <1>1 DEF Stepped
<1>3. /\ hash \in Outputs
      /\ \A a \in Addrs : /\ hash[a].number = output[a].number
                          /\ hash[a].storage = output[a].storage
                          /\ hash[a].violation = output[a].violation
  BY <1>0, <1>1, HashedAdds
<1> HIDE DEF hash
<1>4. /\ gas \in Outputs
      /\ \A a \in Addrs :
            /\ gas[a].number = output[a].number
            /\ gas[a].storage = output[a].storage
            /\ gas[a].keccak = hash[a].keccak
            /\ \A o \in Banned \cup {"NUMBER"} :
                  gas[a].violation[o] = output[a].violation[o]
  <2>1. CASE gas = hash
    BY <2>1, <1>3
  <2>2. CASE gas = [hash EXCEPT ![to].violation["GAS"] = 1]
    <3>1. hash[to] \in Recorded
      BY <1>1, <1>3 DEF Outputs
    <3> DEFINE r == [hash[to] EXCEPT !.violation["GAS"] = 1]
    <3>2. /\ r \in Recorded /\ r.number = hash[to].number
          /\ r.storage = hash[to].storage /\ r.keccak = hash[to].keccak
          /\ \A o \in Banned \cup {"NUMBER"} :
                r.violation[o] = hash[to].violation[o]
      BY <3>1 DEF Recorded, Banned
    <3>3. gas = [hash EXCEPT ![to] = r]
      BY <2>2
    <3> HIDE DEF r
    <3>4. /\ gas \in Outputs /\ gas[to] = r
          /\ \A a \in Addrs : a # to => gas[a] = hash[a]
      BY <3>2, <3>3, <1>1, <1>3 DEF Outputs
    <3>5. ASSUME NEW a \in Addrs
          PROVE  /\ gas[a].number = output[a].number
                 /\ gas[a].storage = output[a].storage
                 /\ gas[a].keccak = hash[a].keccak
                 /\ \A o \in Banned \cup {"NUMBER"} :
                       gas[a].violation[o] = output[a].violation[o]
      <4> HIDE DEF gas, end, bad
      <4>1. CASE a = to
        BY <4>1, <3>2, <3>4, <1>3
      <4>2. CASE a # to
        BY <4>2, <3>4, <1>3
      <4> QED
        BY <4>1, <4>2
    <3> HIDE DEF gas
    <3> QED
      BY <3>4, <3>5
  <2> QED
    BY <2>1, <2>2
<1> HIDE DEF gas
<1>5. /\ end \in Outputs
      /\ \A a \in Addrs :
            /\ end[a].number = gas[a].number
            /\ end[a].keccak = gas[a].keccak
            /\ \A s : Contains(end[a].storage, s)
                  <=> \/ Contains(gas[a].storage, s)
                      \/ opcode = "SLOAD" /\ a = Running.ctx /\ s = data
            /\ \A o \in Banned \cup {"NUMBER"} :
                  end[a].violation[o] > 0
                  <=> \/ gas[a].violation[o] > 0
                      \/ bad /\ opcode = o /\ a = to
  <2>1. CASE opcode = "SLOAD"
    <3> DEFINE c == Running.ctx
               r == [gas[c] EXCEPT !.storage = AddSlot(@, data)]
    <3>1. gas[c] \in Recorded /\ gas[c].storage \in Seq(Slots) /\ data \in Slots
      BY <1>1, <1>4, <2>1 DEF Outputs, Recorded, Legal
    <3>2. /\ AddSlot(gas[c].storage, data) \in Seq(Slots)
          /\ \A e : Contains(AddSlot(gas[c].storage, data), e)
                       <=> Contains(gas[c].storage, e) \/ e = data
      BY <3>1, AddSlotAdds
    <3>3. /\ r \in Recorded /\ r.number = gas[c].number
          /\ r.storage = AddSlot(gas[c].storage, data)
          /\ r.keccak = gas[c].keccak /\ r.violation = gas[c].violation
      BY <3>1, <3>2 DEF Recorded
    <3>4. end = [gas EXCEPT ![c] = r]
      BY <2>1 DEF pSloadStore
    <3> HIDE DEF r
    <3>5. /\ end \in Outputs /\ end[c] = r
          /\ \A a \in Addrs : a # c => end[a] = gas[a]
      BY <3>3, <3>4, <1>1, <1>4 DEF Outputs
    <3>6. ~bad
      BY <2>1 DEF Banned
    <3> HIDE DEF end, bad
    <3> QED
      BY <2>1, <3>2, <3>3, <3>5, <3>6
  <2>2. CASE opcode # "SLOAD" /\ bad
    <3> DEFINE r == [gas[to] EXCEPT !.violation[opcode] = @ + 1]
    <3>1. gas[to] \in Recorded /\ opcode \in Banned \cup {"NUMBER"}
      BY <1>1, <1>4, <2>2 DEF Outputs
    <3> DEFINE v == [gas[to].violation EXCEPT ![opcode] = @ + 1]
    <3>a. /\ v \in [Banned \cup {"GAS", "NUMBER"} -> Nat] /\ v[opcode] > 0
          /\ \A o \in Banned \cup {"NUMBER"} :
                o # opcode => v[o] = gas[to].violation[o]
      <4>1. gas[to].violation \in [Banned \cup {"GAS", "NUMBER"} -> Nat]
        BY <3>1 DEF Recorded
      <4>2. opcode \in Banned \cup {"GAS", "NUMBER"}
        BY <3>1
      <4>3. gas[to].violation[opcode] \in Nat
        BY <4>1, <4>2
      <4> QED
        BY <4>1, <4>2, <4>3
    <3>b. r = [gas[to] EXCEPT !.violation = v]
      OBVIOUS
    <3> HIDE DEF v
    <3>2. /\ r \in Recorded /\ r.number = gas[to].number
          /\ r.storage = gas[to].storage /\ r.keccak = gas[to].keccak
          /\ r.violation[opcode] > 0
          /\ \A o \in Banned \cup {"NUMBER"} :
                o # opcode => r.violation[o] = gas[to].violation[o]
      BY <3>1, <3>a, <3>b DEF Recorded
    <3>3. end = [gas EXCEPT ![to] = r]
      BY <2>2
    <3> HIDE DEF r
    <3>4. /\ end \in Outputs /\ end[to] = r
          /\ \A a \in Addrs : a # to => end[a] = gas[a]
      BY <3>2, <3>3, <1>1, <1>4 DEF Outputs
    <3> HIDE DEF end, bad
    <3> QED
      BY <2>2, <3>2, <3>4
  <2>3. CASE opcode # "SLOAD" /\ ~bad
    <3>1. end = gas
      BY <2>3
    <3> HIDE DEF end, bad
    <3> QED
      BY <2>3, <3>1, <1>4
  <2> QED
    BY <2>1, <2>2, <2>3
<1>6. "NUMBER" \notin Banned
  BY DEF Banned
<1>7. /\ \A o \in Banned : bad /\ opcode = o <=> opcode = o
      /\ bad /\ opcode = "NUMBER" <=> opcode = "NUMBER" /\ Depth > 1
  BY <1>6
<1> HIDE DEF end, bad
<1>8. ASSUME NEW a \in Addrs
      PROVE  /\ end[a].number = output[a].number
             /\ \A s : Contains(end[a].storage, s)
                   <=> \/ Contains(output[a].storage, s)
                       \/ opcode = "SLOAD" /\ a = Running.ctx /\ s = data
             /\ \A o \in Banned : end[a].violation[o] > 0
                   <=> output[a].violation[o] > 0 \/ (opcode = o /\ a = to)
             /\ end[a].violation["NUMBER"] > 0
                   <=> \/ output[a].violation["NUMBER"] > 0
                       \/ opcode = "NUMBER" /\ Depth > 1 /\ a = to
             /\ end[a].keccak = hash[a].keccak
  <2>1. end[a].number = output[a].number /\ end[a].keccak = hash[a].keccak
    BY <1>4, <1>5
  <2>2. \A s : Contains(end[a].storage, s)
           <=> \/ Contains(output[a].storage, s)
               \/ opcode = "SLOAD" /\ a = Running.ctx /\ s = data
    BY <1>4, <1>5
  <2>3. \A o \in Banned \cup {"NUMBER"} :
           end[a].violation[o] > 0
           <=> output[a].violation[o] > 0 \/ (bad /\ opcode = o /\ a = to)
    BY <1>4, <1>5
  <2> QED
    BY <2>1, <2>2, <2>3, <1>7
<1> QED
  BY <1>2, <1>5, <1>8 DEF hash

\* What was told stays true, and the new opcode is told.
LEMMA SteppedTells ==
    ASSUME TracerInv, frames # <<>>, NEW opcode, NEW data, Legal(opcode, data)
    PROVE  Tells(Stepped(opcode, data), Doing(opcode, data))
<1> DEFINE out == Stepped(opcode, data)
<1>1. TracerType /\ FramesInv /\ DidInv /\ Tells(output, did)
  BY DEF TracerInv
<1>2. SUFFICES ASSUME NEW a \in Addrs
      PROVE  /\ \A o \in Banned : out[a].violation[o] > 0
                                    <=> <<a, o, None>> \in Doing(opcode, data)
             /\ a # EntryPoint =>
                   (out[a].violation["NUMBER"] > 0
                       <=> <<a, "NUMBER", None>> \in Doing(opcode, data))
             /\ \A s \in Slots : Contains(out[a].storage, s)
                                    <=> <<a, "SLOAD", s>> \in Doing(opcode, data)
  BY DEF Tells
<1>3. ASSUME NEW o \in Banned
      PROVE  out[a].violation[o] > 0 <=> <<a, o, None>> \in Doing(opcode, data)
  <2>1. out[a].violation[o] > 0
           <=> output[a].violation[o] > 0 \/ (opcode = o /\ a = Running.code)
    BY SteppedIs
  <2>2. output[a].violation[o] > 0 <=> <<a, o, None>> \in did
    BY <1>1 DEF Tells
  <2>3. <<a, o, None>> = <<By(opcode), opcode, data>>
           <=> opcode = o /\ a = Running.code
    <3>1. opcode = o => By(opcode) = Running.code /\ data = None
      BY DEF Legal, By, Banned
    <3> QED
      BY <3>1
  <2> QED
    BY <2>1, <2>2, <2>3 DEF Doing
<1>4. ASSUME a # EntryPoint
      PROVE  out[a].violation["NUMBER"] > 0
                <=> <<a, "NUMBER", None>> \in Doing(opcode, data)
  <2>1. out[a].violation["NUMBER"] > 0
           <=> \/ output[a].violation["NUMBER"] > 0
               \/ opcode = "NUMBER" /\ Depth > 1 /\ a = Running.code
    BY SteppedIs
  <2>2. output[a].violation["NUMBER"] > 0 <=> <<a, "NUMBER", None>> \in did
    BY <1>1, <1>4 DEF Tells
  <2>3. <<a, "NUMBER", None>> = <<By(opcode), opcode, data>>
           <=> opcode = "NUMBER" /\ a = Running.code
    <3>1. opcode = "NUMBER" => By(opcode) = Running.code /\ data = None
      BY DEF Legal, By
    <3> QED
      BY <3>1
  <2>4. a = Running.code => Depth > 1
    BY <1>1, <1>4, RunningKnown
  <2> QED
    BY <2>1, <2>2, <2>3, <2>4 DEF Doing
<1>5. ASSUME NEW s \in Slots
      PROVE  Contains(out[a].storage, s)
                <=> <<a, "SLOAD", s>> \in Doing(opcode, data)
  <2>1. Contains(out[a].storage, s)
           <=> \/ Contains(output[a].storage, s)
               \/ opcode = "SLOAD" /\ a = Running.ctx /\ s = data
    BY SteppedIs
  <2>2. Contains(output[a].storage, s) <=> <<a, "SLOAD", s>> \in did
    BY <1>1 DEF Tells
  <2>3. <<a, "SLOAD", s>> = <<By(opcode), opcode, data>>
           <=> opcode = "SLOAD" /\ a = Running.ctx /\ s = data
    BY DEF By
  <2> QED
    BY <2>1, <2>2, <2>3 DEF Doing
<1> QED
  BY <1>3, <1>4, <1>5

\* The end of a frame by itself is no opcode that is told.
LEMMA EndingTells ==
    ASSUME TracerInv, frames # <<>>, NEW opcode \in {"RETURN", "REVERT"}
    PROVE  Tells(Stepped(opcode, None), did)
<1>1. Legal(opcode, None)
  <2>1. CASE opcode = "RETURN"
    BY <2>1 DEF Legal
  <2>2. CASE opcode = "REVERT"
    BY <2>2 DEF Legal
  <2> QED
    BY <2>1, <2>2
<1>2. Tells(Stepped(opcode, None), Doing(opcode, None))
  BY <1>1, SteppedTells
<1>3. \A a, o, d : o \in Banned \cup {"NUMBER", "SLOAD"} =>
         (<<a, o, d>> \in Doing(opcode, None) <=> <<a, o, d>> \in did)
  BY DEF Doing, Banned
<1> QED
  BY <1>2, <1>3 DEF Tells

\* A hash that is written down is the running frame's.
LEMMA SteppedOwn ==
    ASSUME TracerInv, frames # <<>>, NEW opcode, NEW data, Legal(opcode, data),
           NEW D, did \subseteq D
    PROVE  Own(Stepped(opcode, data), D)
<1> DEFINE h == Hashed(output, Running.code)
<1>1. TracerType /\ FramesInv /\ HashInv /\ Own(output, did)
  BY DEF TracerInv
<1>2. Running.code \in Addrs
  BY <1>1, RunningKnown
<1>3. \A a \in Addrs : Stepped(opcode, data)[a].keccak = h[a].keccak
  BY SteppedIs
<1>4. ASSUME NEW a \in Addrs, NEW i \in DOMAIN h[a].keccak
      PROVE  \/ /\ h[a].keccak[i].hash = h[a].keccak[i].input
                /\ <<a, "KECCAK256", h[a].keccak[i].input>> \in D
             \/ /\ h[a].keccak[i].hash = Plain
                /\ <<a, "LOST", h[a].keccak[i].input>> \in D
  <2>1. CASE i \in DOMAIN output[a].keccak /\ h[a].keccak[i] = output[a].keccak[i]
    BY <2>1, <1>1, <1>4 DEF Own
  <2>2. CASE /\ prevOp.op = "KECCAK256" /\ a = Running.code
             /\ h[a].keccak[i] = [input |-> prevOp.data, hash |-> top]
    BY <2>2, <1>1, <1>4 DEF HashInv
  <2> QED
    BY <2>1, <2>2, <1>1, <1>2, HashedAdds
<1> HIDE DEF h
<1> QED
  BY <1>3, <1>4 DEF Own

-----------------------------------------------------------------------------
(***************************************************************************)
(* The steps.                                                              *)
(***************************************************************************)
LEMMA Singleton ==
    ASSUME NEW S, NEW x \in S
    PROVE  /\ <<x>> \in Seq(S) /\ Len(<<x>>) = 1 /\ <<x>>[1] = x
           /\ \A e : Contains(<<x>>, e) <=> e = x
<1>1. <<x>> \in Seq(S) /\ Len(<<x>>) = 1 /\ <<x>>[1] = x
  OBVIOUS
<1>2. 1 .. 1 = {1}
  OBVIOUS
<1> QED
  BY <1>1, <1>2 DEF Contains

\* The tracer as a simulation finds it.
TracerReady ==
    /\ frames = <<[code |-> EntryPoint, ctx |-> EntryPoint,
                   type |-> "top", method |-> "validateUserOp"]>>
    /\ phase = 0 /\ top = None /\ did = {}
    /\ first = [a \in Addrs |-> IF a = EntryPoint THEN 0 ELSE None]
    /\ addrs = <<EntryPoint>> /\ order = <<EntryPoint>>
    /\ output = [a \in Addrs |-> Fresh(0)]
    /\ prevOp = [op |-> "", data |-> None]
    /\ numberCounter = 0

LEMMA ReadyTracerInv == TracerReady => TracerInv
<1> SUFFICES ASSUME TracerReady PROVE TracerInv
  OBVIOUS
<1> DEFINE f == [code |-> EntryPoint, ctx |-> EntryPoint,
                 type |-> "top", method |-> "validateUserOp"]
<1>1. EntryPoint \in Addrs
  BY DEF Addrs
<1>2. f \in Frame /\ f.code = EntryPoint /\ f.ctx = EntryPoint
  BY <1>1 DEF Frame, Methods
<1>3. frames = <<f>> /\ addrs = <<EntryPoint>> /\ order = <<EntryPoint>>
  BY DEF TracerReady
<1>4. prevOp.op # "KECCAK256" /\ did = {}
  BY DEF TracerReady
<1> HIDE DEF f
<1>5. /\ Fresh(0) \in Recorded /\ Fresh(0).number = 0
      /\ Fresh(0).storage = <<>> /\ Fresh(0).keccak = <<>>
      /\ \A o \in Banned \cup {"NUMBER"} : Fresh(0).violation[o] = 0
  <2>1. Fresh(0).violation \in [Banned \cup {"GAS", "NUMBER"} -> Nat]
    BY DEF Fresh
  <2> QED
    BY <2>1 DEF Fresh, Recorded
<1>6. \A a \in Addrs : output[a] = Fresh(0)
  BY DEF TracerReady
<1>7. frames \in Seq(Frame) /\ Len(frames) = 1 /\ frames[1] = f
  BY <1>2, <1>3, Singleton
<1>8. /\ addrs \in Seq(Addrs) /\ Len(addrs) = 1 /\ addrs[1] = EntryPoint
      /\ order \in Seq(Addrs) /\ \A e : Contains(order, e) <=> e = EntryPoint
  BY <1>1, <1>3, Singleton
<1>9. TracerType
  <2>1. output \in Outputs
    BY <1>5 DEF TracerReady, Outputs
  <2>2. first \in [Addrs -> 0 .. 2 \cup {None}]
    <3>1. first = [b \in Addrs |-> IF b = EntryPoint THEN 0 ELSE None]
      BY DEF TracerReady
    <3>2. \A b \in Addrs : (IF b = EntryPoint THEN 0 ELSE None) \in 0 .. 2 \cup {None}
      OBVIOUS
    <3> QED
      BY <3>1, <3>2
  <2>a. phase = 0 /\ top = None /\ numberCounter = 0
    BY DEF TracerReady
  <2>3. phase \in 0 .. 2 /\ top \in Slots \cup {None} /\ numberCounter = phase
    BY <2>a
  <2> QED
    BY <1>4, <1>7, <1>8, <2>1, <2>2, <2>3 DEF TracerType
<1>10. FramesInv
  BY <1>2, <1>7, <1>8 DEF FramesInv
<1>11. DidInv /\ HashInv
  BY <1>4 DEF DidInv, HashInv
<1>12. Tells(output, did)
  <2>1. \A s : ~Contains(<<>>, s)
    BY DEF Contains
  <2>2. ASSUME NEW a \in Addrs
        PROVE  /\ \A o \in Banned \cup {"NUMBER"} : ~(output[a].violation[o] > 0)
               /\ \A s : ~Contains(output[a].storage, s)
    BY <1>5, <1>6, <2>1
  <2> QED
    BY <1>4, <2>2 DEF Tells
<1>13. Own(output, did)
  <2>1. \A a \in Addrs : DOMAIN output[a].keccak = {}
    BY <1>5, <1>6
  <2> QED
    BY <2>1 DEF Own
<1>14. Numbered(output, first, order)
  <2>1. first = [a \in Addrs |-> IF a = EntryPoint THEN 0 ELSE None]
    BY DEF TracerReady
  <2>2. None # 0
    BY TracerAssumption
  <2> QED
    BY <1>5, <1>6, <1>8, <2>1, <2>2 DEF Numbered
<1> QED
  BY <1>9, <1>10, <1>11, <1>12, <1>13, <1>14 DEF TracerInv

LEMMA InitReady == Init => TracerReady
BY DEF Init, TracerReady

\* What step leaves behind for the next opcode.
LEMMA StepRestType ==
    ASSUME NEW opcode, NEW data, Legal(opcode, data), StepRest(opcode, data)
    PROVE  /\ prevOp'.op = opcode
           /\ opcode = "KECCAK256" => prevOp'.data = data /\ prevOp'.data \in Inputs
           /\ opcode # "NUMBER" \/ Depth # 1 => numberCounter' = numberCounter
BY DEF StepRest, Legal

LEMMA ExecuteDid ==
    ASSUME NEW opcode, NEW data, NEW completes \in BOOLEAN,
           Execute(opcode, data, completes)
    PROVE  IF completes \/ opcode # "KECCAK256"
           THEN did' = Doing(opcode, data)
           ELSE did' = Doing(opcode, data) \cup
                          {<<frames[Depth - 1].code, "LOST", data>>}
BY DEF Execute, Doing, By

\* An executed opcode was executed by a known address.
LEMMA DoingKnown ==
    ASSUME TracerInv, frames # <<>>, NEW opcode, NEW data, Legal(opcode, data)
    PROVE  /\ \A d \in Doing(opcode, data) :
                 /\ d = <<d[1], d[2], d[3]>>
                 /\ d[1] \in Addrs /\ Contains(order, d[1])
                 /\ d[2] = "SLOAD" => d[3] \in Slots
                 /\ d[2] \notin {"SLOAD", "KECCAK256", "LOST"} => d[3] = None
           /\ did \subseteq Doing(opcode, data)
<1>1. Contains(order, By(opcode)) /\ By(opcode) \in Addrs
  BY RunningKnown DEF TracerInv, By
<1> QED
  BY <1>1 DEF TracerInv, DidInv, Doing, Legal

\* step inside a frame, or the entry point's NUMBER.
LEMMA RunStep ==
    ASSUME TracerInv, frames # <<>>, NEW opcode, NEW data, Legal(opcode, data),
           Execute(opcode, data, TRUE), step(opcode, data),
           UNCHANGED <<frames, first>>,
           phase' \in 0 .. 2, phase' = numberCounter'
    PROVE  TracerInv'
<1>1. did' = Doing(opcode, data) /\ output' = Stepped(opcode, data)
  <2>1. did' = Doing(opcode, data)
    <3>1. IF TRUE \/ opcode # "KECCAK256"
          THEN did' = Doing(opcode, data)
          ELSE did' = Doing(opcode, data) \cup
                         {<<frames[Depth - 1].code, "LOST", data>>}
      BY ExecuteDid
    <3> QED
      BY <3>1
  <2> QED
    BY <2>1 DEF step
<1>2. UNCHANGED <<addrs, order>> /\ StepRest(opcode, data)
  BY DEF step
<1>3. /\ prevOp'.op = opcode
      /\ opcode = "KECCAK256" => prevOp'.data = data /\ data \in Inputs
  BY <1>2, StepRestType
<1>4. top' = IF opcode = "KECCAK256" THEN data ELSE None
  BY DEF Execute
<1>5. TracerType'
  <2>1. output' \in Outputs
    BY <1>1, SteppedIs
  <2>2. top' \in Slots \cup {None}
    BY <1>3, <1>4 DEF Slots
  <2>3. (prevOp.op = "KECCAK256" => prevOp.data \in Inputs /\ top \in Slots)'
    BY <1>3, <1>4 DEF Slots
  <2> QED
    BY <1>2, <2>1, <2>2, <2>3 DEF TracerInv, TracerType
<1>6. FramesInv'
  BY <1>2 DEF TracerInv, FramesInv
<1>7. DidInv'
  BY <1>1, <1>2, DoingKnown DEF DidInv
<1>8. HashInv'
  <2>1. Running' = Running
    BY DEF Running, Depth
  <2>2. opcode = "KECCAK256" => <<Running.code, opcode, data>> \in did'
    BY <1>1 DEF Doing, By
  <2> QED
    BY <1>3, <1>4, <2>1, <2>2 DEF HashInv
<1>9. Tells(output', did')
  BY <1>1, SteppedTells
<1>10. Own(output', did')
  BY <1>1, SteppedOwn, DoingKnown
<1>11. Numbered(output', first', order')
  BY <1>1, <1>2, SteppedIs DEF TracerInv, Numbered
<1> QED
  BY <1>5, <1>6, <1>7, <1>8, <1>9, <1>10, <1>11
     DEF TracerInv, Tells, Own, Numbered

LEMMA FrontIs ==
    ASSUME NEW S, NEW s \in Seq(S), s # <<>>
    PROVE  /\ Front(s) \in Seq(S) /\ Len(Front(s)) = Len(s) - 1
           /\ \A i \in 1 .. Len(s) - 1 : Front(s)[i] = s[i]
<1>1. Len(s) \in Nat /\ Len(s) >= 1
  OBVIOUS
<1>2. ASSUME NEW n \in Nat, n <= Len(s)
      PROVE  /\ SubSeq(s, 1, n) \in Seq(S) /\ Len(SubSeq(s, 1, n)) = n
             /\ \A i \in 1 .. n : SubSeq(s, 1, n)[i] = s[i]
  BY <1>2
<1>3. Len(s) - 1 \in Nat /\ Len(s) - 1 <= Len(s)
  BY <1>1
<1> QED
  BY <1>2, <1>3 DEF Front

\* A frame is opened: an address that was not known has done nothing yet, and
\* is given the number of the phase.
LEMMA OpenStep ==
    ASSUME TracerInv, frames # <<>>, NEW opcode \in {"CALL"} \cup Kinds,
           NEW to \in Addrs, NEW method \in Methods, Open(opcode, to, method)
    PROVE  TracerInv'
<1> DEFINE st == Stepped(opcode, None)
<1>1. opcode \notin {"SLOAD", "KECCAK256", "NUMBER"}
  BY TracerAssumption
<1>2. Legal(opcode, None)
  BY <1>1 DEF Legal
<1>3. TracerType /\ FramesInv /\ DidInv /\ Numbered(output, first, order)
  BY DEF TracerInv
<1>4. did' = Doing(opcode, None) /\ top' = None
  BY <1>1, ExecuteDid DEF Open, Execute
<1>5. /\ output' = initStorage(st, to)
      /\ order' = IF Contains(order, to) THEN order ELSE Append(order, to)
      /\ addrs' = Append(addrs, to)
      /\ StepRest(opcode, None)
      /\ UNCHANGED phase
      /\ first' = IF first[to] = None THEN [first EXCEPT ![to] = phase]
                  ELSE first
  BY DEF Open, enter
<1>6. prevOp'.op = opcode /\ numberCounter' = numberCounter
  BY <1>1, <1>2, <1>5, StepRestType
<1>7. /\ order' \in Seq(Addrs)
      /\ \A e : Contains(order', e) <=> Contains(order, e) \/ e = to
  BY <1>3, <1>5, ContainsAppend DEF TracerType
<1>8. st \in Outputs /\ \A a \in Addrs : st[a].number = output[a].number
  BY <1>2, SteppedIs
<1>9. Contains(order, to) <=> first[to] # None
  BY <1>3 DEF Numbered
<1>10. phase \in Nat /\ phase # None /\ numberCounter = phase
  BY <1>3, TracerAssumption DEF TracerType
<1>11. /\ Fresh(phase) \in Recorded /\ Fresh(phase).number = phase
       /\ Fresh(phase).storage = <<>> /\ Fresh(phase).keccak = <<>>
       /\ \A o \in Banned \cup {"NUMBER"} : Fresh(phase).violation[o] = 0
  <2>1. Fresh(phase).violation \in [Banned \cup {"GAS", "NUMBER"} -> Nat]
    BY DEF Fresh
  <2> QED
    BY <2>1, <1>10 DEF Fresh, Recorded
<1> HIDE DEF st
<1>12. /\ output' \in Outputs
       /\ \A a \in Addrs : output'[a] = IF a = to /\ ~Contains(order, to)
                                        THEN Fresh(phase) ELSE st[a]
  BY <1>5, <1>8, <1>10, <1>11 DEF initStorage, Outputs
<1>13. PICK f \in Frame : /\ frames' = Append(frames, f) /\ f.code = to
                          /\ f.ctx = to \/ f.ctx = Running.ctx
  <2> DEFINE f == [code |-> to, type |-> opcode, method |-> method,
                   ctx |-> IF opcode = "DELEGATECALL" THEN Running.ctx ELSE to]
  <2>1. Running.ctx \in Addrs
    BY <1>3, RunningKnown
  <2>2. f \in Frame
    BY <2>1 DEF Frame
  <2>3. frames' = Append(frames, f)
    BY DEF Open
  <2>4. f.code = to /\ (f.ctx = to \/ f.ctx = Running.ctx)
    OBVIOUS
  <2> HIDE DEF f
  <2> QED
    BY <2>2, <2>3, <2>4
<1>14. TracerType'
  <2>1. frames' \in Seq(Frame) /\ addrs' \in Seq(Addrs)
    BY <1>3, <1>5, <1>13 DEF TracerType
  <2>2. first' \in [Addrs -> 0 .. 2 \cup {None}]
    BY <1>3, <1>5, <1>10 DEF TracerType
  <2> QED
    BY <1>1, <1>3, <1>4, <1>5, <1>6, <1>7, <1>12, <2>1, <2>2 DEF TracerType
<1>15. FramesInv'
  <2>1. /\ Len(frames) \in Nat /\ Len(frames) >= 1 /\ Len(addrs) = Len(frames)
        /\ frames \in Seq(Frame) /\ addrs \in Seq(Addrs)
    BY <1>3 DEF TracerType, FramesInv
  <2>2. /\ Len(frames') = Len(frames) + 1 /\ Len(addrs') = Len(frames) + 1
        /\ frames'[Len(frames) + 1] = f /\ addrs'[Len(frames) + 1] = to
        /\ \A i \in 1 .. Len(frames) : /\ frames'[i] = frames[i]
                                       /\ addrs'[i] = addrs[i]
    BY <2>1, <1>5, <1>13
  <2>3. Contains(order, Running.ctx)
    BY <1>3, RunningKnown
  <2>4. frames'[1].code = EntryPoint
    BY <2>1, <2>2, <1>3 DEF FramesInv
  <2>5. ASSUME NEW i \in 1 .. Len(frames')
        PROVE  /\ addrs'[i] = frames'[i].code
               /\ Contains(order', frames'[i].code)
               /\ Contains(order', frames'[i].ctx)
    <3>1. CASE i \in 1 .. Len(frames)
      BY <3>1, <2>2, <1>3, <1>7 DEF FramesInv
    <3>2. CASE i = Len(frames) + 1
      BY <3>2, <2>2, <2>3, <1>7, <1>13
    <3> QED
      BY <3>1, <3>2, <2>1, <2>2
  <2> QED
    BY <2>2, <2>4, <2>5 DEF FramesInv
<1>16. DidInv'
  BY <1>2, <1>4, <1>7, DoingKnown DEF DidInv
<1>17. HashInv'
  BY <1>1, <1>6 DEF HashInv
<1>18. to # Running.code \/ Contains(order, to)
  BY <1>3, RunningKnown
<1>19. ~Contains(order, to) => \A o, d : <<to, o, d>> \notin did'
  <2>1. \A o, d : <<to, o, d>> \in did' => Contains(order, to)
    <3>1. \A o, d : <<to, o, d>> \in did' => Contains(order, <<to, o, d>>[1])
      BY <1>2, <1>4, DoingKnown
    <3> QED
      BY <3>1
  <2> QED
    BY <2>1
<1>20. Tells(output', did')
  <2>1. Tells(st, did')
    BY <1>2, <1>4, SteppedTells DEF st
  <2>2. \A s : ~Contains(<<>>, s)
    BY DEF Contains
  <2>3. ASSUME NEW a \in Addrs, a = to /\ ~Contains(order, to)
        PROVE  /\ \A o \in Banned \cup {"NUMBER"} :
                     ~(output'[a].violation[o] > 0) /\ <<a, o, None>> \notin did'
               /\ \A s : /\ ~Contains(output'[a].storage, s)
                         /\ <<a, "SLOAD", s>> \notin did'
    BY <2>2, <2>3, <1>11, <1>12, <1>19
  <2>4. \A a \in Addrs : ~(a = to /\ ~Contains(order, to)) => output'[a] = st[a]
    BY <1>12
  <2> QED
    BY <2>1, <2>3, <2>4 DEF Tells
<1>21. Own(output', did')
  <2>1. Own(st, did')
    BY <1>2, <1>4, SteppedOwn, DoingKnown DEF st
  <2>2. \A a \in Addrs : a = to /\ ~Contains(order, to)
           => DOMAIN output'[a].keccak = {}
    BY <1>11, <1>12
  <2>3. \A a \in Addrs : ~(a = to /\ ~Contains(order, to)) => output'[a] = st[a]
    BY <1>12
  <2> QED
    BY <2>1, <2>2, <2>3 DEF Own
<1>22. Numbered(output', first', order')
  <2> SUFFICES ASSUME NEW a \in Addrs
               PROVE  /\ Contains(order', a) <=> first'[a] # None
                      /\ Contains(order', a) => output'[a].number = first'[a]
    BY DEF Numbered
  <2>1. /\ Contains(order, a) <=> first[a] # None
        /\ Contains(order, a) => output[a].number = first[a]
    BY <1>3 DEF Numbered
  <2>2. first'[a] = IF a = to /\ first[to] = None THEN phase ELSE first[a]
    BY <1>3, <1>5 DEF TracerType
  <2> QED
    BY <2>1, <2>2, <1>7, <1>8, <1>9, <1>10, <1>11, <1>12
<1> QED
  BY <1>14, <1>15, <1>16, <1>17, <1>20, <1>21, <1>22
     DEF TracerInv, Tells, Own, Numbered

\* A frame ends, by its last opcode or by one that ran out of gas, or the first
\* frame does.
LEMMA EndStep ==
    ASSUME TracerInv, frames # <<>>, NEW opcode, NEW data, Legal(opcode, data),
           \/ did' = Doing(opcode, data) /\ opcode # "KECCAK256" /\ top' = None
           \/ /\ did' = Doing(opcode, data) \cup
                         {<<frames[Depth - 1].code, "LOST", data>>}
              /\ opcode = "KECCAK256" /\ Depth > 1 /\ top' = Plain
           \/ /\ did' = did /\ opcode \in {"RETURN", "REVERT"} /\ data = None
              /\ top' = None,
           output' = Stepped(opcode, data), StepRest(opcode, data),
           opcode # "NUMBER" \/ Depth # 1,
           addrs' = Front(addrs),
           frames' = <<>> \/ frames' = Front(frames),
           UNCHANGED <<order, phase, first>>
    PROVE  TracerInv'
<1>1. TracerType /\ FramesInv /\ Numbered(output, first, order)
  BY DEF TracerInv
<1>2. /\ frames \in Seq(Frame) /\ addrs \in Seq(Addrs) /\ addrs # <<>>
      /\ Len(addrs) = Len(frames) /\ Len(frames) \in Nat /\ Len(frames) >= 1
  BY <1>1 DEF TracerType, FramesInv
<1>3. /\ prevOp'.op = opcode /\ numberCounter' = numberCounter
      /\ opcode = "KECCAK256" => prevOp'.data \in Inputs
  BY StepRestType
<1>4. /\ addrs' \in Seq(Addrs) /\ Len(addrs') = Len(frames) - 1
      /\ \A i \in 1 .. Len(frames) - 1 : addrs'[i] = addrs[i]
  BY <1>2, FrontIs
<1>5. frames' # <<>> => /\ frames' \in Seq(Frame)
                        /\ Len(frames') = Len(frames) - 1
                        /\ \A i \in 1 .. Len(frames) - 1 : frames'[i] = frames[i]
  BY <1>2, FrontIs
<1>6. TracerType'
  <2>1. frames' \in Seq(Frame)
    <3>1. <<>> \in Seq(Frame)
      OBVIOUS
    <3> QED
      BY <3>1, <1>5
  <2>2. output' \in Outputs
    BY SteppedIs
  <2>3. /\ top' \in Slots \cup {None}
        /\ (prevOp.op = "KECCAK256" => prevOp.data \in Inputs /\ top \in Slots)'
    BY <1>3 DEF Slots
  <2> QED
    BY <2>1, <2>2, <2>3, <1>1, <1>3, <1>4 DEF TracerType
<1>7. FramesInv'
  <2> SUFFICES ASSUME frames' # <<>>
               PROVE  /\ Len(addrs') = Len(frames')
                      /\ frames'[1].code = EntryPoint
                      /\ \A i \in 1 .. Len(frames') :
                            /\ addrs'[i] = frames'[i].code
                            /\ Contains(order', frames'[i].code)
                            /\ Contains(order', frames'[i].ctx)
    BY DEF FramesInv
  <2>1. Len(frames') >= 1
    BY <1>5
  <2>2. \A i \in 1 .. Len(frames') : frames'[i] = frames[i] /\ addrs'[i] = addrs[i]
                                     /\ i \in 1 .. Len(frames)
    BY <1>2, <1>4, <1>5
  <2>3. 1 \in 1 .. Len(frames')
    BY <2>1, <1>2, <1>5
  <2> QED
    BY <2>2, <2>3, <1>1, <1>4, <1>5 DEF FramesInv
<1> DEFINE lost == <<frames[Depth - 1].code, "LOST", data>>
<1>a. Depth > 1 => /\ lost[1] \in Addrs /\ Contains(order, lost[1])
                   /\ lost = <<lost[1], lost[2], lost[3]>> /\ lost[2] = "LOST"
  <2>1. Depth = Len(frames)
    BY DEF Depth
  <2>2. Depth > 1 => Depth - 1 \in 1 .. Len(frames) /\ frames[Depth - 1] \in Frame
    BY <2>1, <1>2
  <2>3. Depth > 1 => /\ frames[Depth - 1].code \in Addrs
                     /\ Contains(order, frames[Depth - 1].code)
    BY <2>2, <1>1 DEF FramesInv, Frame
  <2> QED
    BY <2>3
<1>8. /\ did \subseteq did'
      /\ \A d \in did' : /\ d = <<d[1], d[2], d[3]>>
                         /\ d[1] \in Addrs /\ Contains(order, d[1])
                         /\ d[2] = "SLOAD" => d[3] \in Slots
                         /\ d[2] \notin {"SLOAD", "KECCAK256", "LOST"}
                               => d[3] = None
  <2> HIDE DEF lost
  <2>1. /\ did' \subseteq Doing(opcode, data) \cup {lost}
        /\ lost \in did' => lost \in Doing(opcode, data) \/ Depth > 1
        /\ did \subseteq did'
    BY DoingKnown DEF lost, Doing
  <2> QED
    BY <2>1, <1>a, DoingKnown
<1>9. DidInv' /\ HashInv'
  <2>1. DidInv'
    BY <1>8 DEF DidInv
  <2>2. ASSUME opcode = "KECCAK256", frames' # <<>>
        PROVE  top' = Plain /\ <<Running.code, "LOST", prevOp.data>>' \in did'
    <3>1. Depth = Len(frames) /\ Depth > 1 /\ top' = Plain /\ lost \in did'
      BY <2>2 DEF Depth
    <3>2. Running' = frames[Depth - 1]
      BY <3>1, <2>2, <1>2, <1>5 DEF Running, Depth
    <3>3. prevOp'.data = data
      BY <2>2 DEF StepRest
    <3> QED
      BY <3>1, <3>2, <3>3
  <2> QED
    BY <2>1, <2>2, <1>3 DEF HashInv
<1>10. Tells(output', did')
  <2>1. \A D : Tells(output', D) => Tells(output', D \cup {lost})
    BY DEF Tells, Banned
  <2> HIDE DEF lost
  <2>2. \/ did' = Doing(opcode, data) \/ did' = Doing(opcode, data) \cup {lost}
        \/ did' = did /\ opcode \in {"RETURN", "REVERT"} /\ data = None
    BY DEF lost
  <2>3. Tells(output', Doing(opcode, data))
    BY SteppedTells
  <2>4. opcode \in {"RETURN", "REVERT"} /\ data = None => Tells(output', did)
    BY EndingTells
  <2> QED
    BY <2>1, <2>2, <2>3, <2>4
<1>11. Own(output', did')
  BY <1>8, SteppedOwn
<1>12. Numbered(output', first', order')
  BY <1>1, SteppedIs DEF Numbered
<1> QED
  BY <1>6, <1>7, <1>9, <1>10, <1>11, <1>12 DEF TracerInv, Tells, Own, Numbered

LEMMA TracerStep ==
    ASSUME TracerInv, Machine
    PROVE  TracerInv'
<1>1. TracerType /\ FramesInv /\ Depth = Len(frames) /\ Depth \in Nat
  BY DEF TracerInv, TracerType, Depth
<1>2. frames # <<>> => Depth >= 1
  BY <1>1 DEF TracerType
<1>3. Depth >= 1 => frames # <<>>
  BY <1>1 DEF TracerType
<1>4. \A opcode \in Opcodes : \A data \in DataOf(opcode) : Legal(opcode, data)
  BY TracerAssumption DEF DataOf, Legal
<1>5. ASSUME NEW opcode \in Opcodes, NEW data \in DataOf(opcode),
             Run(opcode, data)
      PROVE  TracerInv'
  <2>1. Depth > 1 /\ Legal(opcode, data) /\ step(opcode, data)
    BY <1>4, <1>5 DEF Run
  <2>2. numberCounter' = numberCounter
    BY <2>1, StepRestType DEF step
  <2>3. phase' \in 0 .. 2 /\ phase' = numberCounter'
    BY <2>2, <1>1, <1>5 DEF Run, TracerType
  <2>4. frames # <<>>
    BY <2>1, <1>1, <1>3
  <2> QED
    BY <2>1, <2>3, <2>4, <1>5, RunStep DEF Run
<1>6. ASSUME NEW opcode \in Exhausting, NEW data \in DataOf(opcode),
             Exhaust(opcode, data)
      PROVE  TracerInv'
  <2>1. opcode \in Opcodes /\ Legal(opcode, data)
    BY <1>4, TracerAssumption
  <2>2. /\ Depth > 1 /\ Execute(opcode, data, FALSE)
        /\ frames' = Front(frames) /\ UNCHANGED <<phase, first>>
        /\ exit(opcode, data, "REVERT", 0)
    BY <1>6 DEF Exhaust, Close
  <2>4. \/ did' = Doing(opcode, data) /\ opcode # "KECCAK256" /\ top' = None
        \/ /\ did' = Doing(opcode, data) \cup
                      {<<frames[Depth - 1].code, "LOST", data>>}
           /\ opcode = "KECCAK256" /\ top' = Plain
    BY <2>2, ExecuteDid DEF Execute
  <2>3. frames # <<>> /\ Depth # 1
    BY <2>2, <1>1, <1>3
  <2> QED
    BY <2>1, <2>2, <2>3, <2>4, EndStep DEF exit
<1>7. CASE CallEntity
  <2>1. /\ Entity(phase) \in Addrs /\ Method(phase) \in Methods
    BY <1>1 DEF TracerType, Entity, Method, Addrs, Methods
  <2>2. frames # <<>> /\ Open("CALL", Entity(phase), Method(phase))
    BY <1>1, <1>3, <1>7 DEF CallEntity
  <2> QED
    BY <2>1, <2>2, OpenStep
<1>8. CASE Number
  <2>1. /\ Depth = 1 /\ phase < 2 /\ phase' = phase + 1
        /\ Execute("NUMBER", None, TRUE) /\ step("NUMBER", None)
        /\ UNCHANGED <<frames, first>>
    BY <1>8 DEF Number
  <2>2. Legal("NUMBER", None)
    BY DEF Legal
  <2>3. numberCounter' = numberCounter + 1
    BY <2>1 DEF step, StepRest
  <2>4. phase' \in 0 .. 2 /\ phase' = numberCounter'
    BY <2>1, <2>3, <1>1 DEF TracerType
  <2>5. frames # <<>>
    BY <2>1, <1>3
  <2> QED
    BY <2>1, <2>2, <2>4, <2>5, RunStep
<1>9. ASSUME NEW opcode \in Kinds, NEW to \in Addrs, Call(opcode, to)
      PROVE  TracerInv'
  <2>1. Depth > 1 /\ Open(opcode, to, "other") /\ "other" \in Methods
    BY <1>9 DEF Call, Methods
  <2>2. frames # <<>>
    BY <2>1, <1>1, <1>3
  <2> QED
    BY <2>1, <2>2, OpenStep
<1>10. ASSUME NEW opcode \in {"RETURN", "REVERT"}, NEW words,
              Close(opcode, None, opcode, words), top' = None, UNCHANGED did
       PROVE  TracerInv'
  <2>1. Legal(opcode, None) /\ opcode # "NUMBER"
    <3>1. CASE opcode = "RETURN"
      BY <3>1 DEF Legal
    <3>2. CASE opcode = "REVERT"
      BY <3>2 DEF Legal
    <3> QED
      BY <3>1, <3>2
  <2>2. /\ Depth > 1 /\ frames' = Front(frames) /\ UNCHANGED <<phase, first>>
        /\ exit(opcode, None, opcode, words)
    BY <1>10 DEF Close
  <2>3. frames # <<>>
    BY <2>2, <1>1, <1>3
  <2> QED
    BY <2>1, <2>2, <2>3, <1>10, EndStep DEF exit
<1>11. CASE Return
  BY <1>10, <1>11 DEF Return
<1>12. CASE Revert
  BY <1>10, <1>12 DEF Revert
<1>13. ASSUME NEW name, NEW words, Result(name, words)
       PROVE  TracerInv'
  <2>1. Legal("REVERT", None)
    BY DEF Legal
  <2>2. /\ frames' = <<>> /\ top' = None /\ UNCHANGED <<did, phase, first>>
        /\ Depth = 1 /\ stepEnd("REVERT", name, words)
    BY <1>13 DEF Result
  <2>3. frames # <<>>
    BY <2>2, <1>3
  <2> QED
    BY <2>1, <2>2, <2>3, EndStep DEF stepEnd
<1>14. CASE Succeed
  BY <1>13, <1>14 DEF Succeed
<1>15. CASE FailOp
  BY <1>13, <1>15 DEF FailOp
<1>16. CASE OutOfGas
  <2>1. /\ frames' = <<>>
        /\ UNCHANGED <<phase, top, did, first, addrs, order, output, prevOp,
                       numberCounter>>
    BY <1>16 DEF OutOfGas, tracer
  <2>2. <<>> \in Seq(Frame)
    OBVIOUS
  <2> QED
    BY <2>1, <2>2
       DEF TracerInv, TracerType, FramesInv, DidInv, HashInv, Tells, Own, Numbered
<1> QED
  BY <1>5, <1>6, <1>7, <1>8, <1>9, <1>11, <1>12, <1>14, <1>15, <1>16
     DEF Machine

LEMMA TracerStutter ==
    ASSUME TracerInv, UNCHANGED <<evm, tracer>>
    PROVE  TracerInv'
BY DEF evm, tracer, TracerInv, TracerType, FramesInv, DidInv, HashInv, Running,
       Depth, Tells, Own, Numbered

\* The tracer's stack, phase and records are right in every run.
THEOREM TracerHolds == TracerSpec => []TracerInv
<1>1. Init => TracerInv
  BY InitReady, ReadyTracerInv
<1>2. TracerInv /\ [Machine]_<<evm, tracer>> => TracerInv'
  BY TracerStep, TracerStutter
<1> QED
  BY <1>1, <1>2, PTL DEF TracerSpec

\* Whatever the contracts do, in frames nested to any depth, the violations,
\* slots and numbers the trace gives are those of the run.
THEOREM TraceIsTrue == TracerSpec => []TraceTells
<1>1. TracerInv => TraceTells
  BY TellsAll DEF TracerInv
<1> QED
  BY <1>1, TracerHolds, PTL

\* Nor does an address get a hash that another one computed: in its place
\* stands a zero.
THEOREM HashesAreOwn == TracerSpec => []HashesOwn
<1>1. TracerInv => HashesOwn
  BY TellsAll DEF TracerInv
<1> QED
  BY <1>1, TracerHolds, PTL
=============================================================================
