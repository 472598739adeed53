------------------------------ MODULE EthLookup ------------------------------
(***************************************************************************)
(* How the Eth module finds an operation and its receipt by its hash       *)
(* (src/src/modules/eth.ts): it asks the entry points for the operation's  *)
(* UserOperationEvent, looks the operation up in the transaction of the    *)
(* event, and cuts the operation's logs out of the transaction's.          *)
(*                                                                         *)
(* A transaction's logs are a sequence; a UserOperationEvent is written as *)
(* the hash of its operation, any other log as Other.                      *)
(***************************************************************************)
EXTENDS Naturals, Sequences, SequencesExt

CONSTANTS
    Hashes,         \* operations that may be in a bundle
    Other,          \* a log that is no UserOperationEvent
    HashKey,        \* the sender and nonce of each operation
    EntryPoints     \* the entry points that are configured, in order

ASSUME LookupAssumption ==
    /\ Other \notin Hashes
    /\ EntryPoints \in Seq(ToSet(EntryPoints))

Logs == Seq(Hashes \cup {Other})

\* Every operation emits its event once.
OneEventEach(logs) ==
    \A i, j \in DOMAIN logs : logs[i] = logs[j] /\ logs[i] # Other => i = j

EventsOf(h, logs) == {i \in DOMAIN logs : logs[i] = h}

\* endIndex: the last event of the operation.
EndIndex(h, logs) ==
    CHOOSE i \in EventsOf(h, logs) : \A j \in EventsOf(h, logs) : j <= i

\* The events of other operations that come before any of its own.
EventsBefore(h, logs) ==
    {i \in DOMAIN logs : /\ logs[i] \in Hashes \ {h}
                         /\ \A j \in EventsOf(h, logs) : i < j}

\* startIndex: the last of them, or none.
StartIndex(h, logs) ==
    CHOOSE i \in EventsBefore(h, logs) \cup {0} :
        \A j \in EventsBefore(h, logs) : j <= i

\* Defect: the slice begins with the event of the operation before.
filterLogsFrom(h, logs) == StartIndex(h, logs) .. EndIndex(h, logs) - 1

\* filterLogs: where the operation's logs are, none when it has no event.
filterLogs(h, logs) == StartIndex(h, logs) + 1 .. EndIndex(h, logs) - 1

\* The event that closes the part of the transaction a log is in.
ClosedBy(i, h, logs) ==
    \E e \in DOMAIN logs :
        /\ i < e /\ logs[e] = h
        /\ \A k \in i .. e - 1 : logs[k] = Other

\* The receipts of a bundle's operations share its logs out among them: each
\* log that is no event and has an event after it goes to the operation of
\* the next event, and to no other (eth.ts:236-254).  The first operation is
\* given what the validation of the whole bundle logged, too.
SharesOut(logs) ==
    \A h \in Hashes :
        EventsOf(h, logs) # {} =>
            filterLogs(h, logs) = {i \in DOMAIN logs : ClosedBy(i, h, logs)}

-----------------------------------------------------------------------------
(***************************************************************************)
(* The chain is a set of transactions: the contract each was sent to, the  *)
(* entry point that handled its operations and emitted their events,       *)
(* whether it was by handleAggregatedOps, the operations, and the logs.    *)
(***************************************************************************)
Included(h, tx) == EventsOf(h, tx.logs) # {}

\* No entry point handles two operations of one sender and nonce.
Legal(chain) ==
    /\ \A tx \in chain :
          /\ OneEventEach(tx.logs)
          /\ \A h \in Hashes : Included(h, tx) <=> Contains(tx.ops, h)
    /\ \A t, u \in chain : \A i \in DOMAIN t.ops, j \in DOMAIN u.ops :
          t.at = u.at /\ HashKey[t.ops[i]] = HashKey[u.ops[j]] => t = u /\ i = j

Emitted(h, chain, ep) == {tx \in chain : tx.at = ep /\ Included(h, tx)}

\* Defect: an entry point whose query fails is passed over.
EventSkippingFailures(h, chain, failing) ==
    SelectInSeq(EntryPoints,
                LAMBDA ep : ep \notin failing /\ Emitted(h, chain, ep) # {})

\* getUserOperationEvent: the first entry point whose query fails or finds an
\* event, if any; one that fails ends the search with an error.
getUserOperationEvent(h, chain, failing) ==
    SelectInSeq(EntryPoints,
                LAMBDA ep : ep \in failing \/ Emitted(h, chain, ep) # {})

\* The transaction of the event, given the place of its entry point.
EventTransaction(h, chain, i) ==
    CHOOSE tx \in Emitted(h, chain, EntryPoints[i]) : TRUE

\* The operation of the transaction with the sender and nonce of the event.
\* The arguments of handleAggregatedOps have no ops, and those of another
\* contract are not looked at.
getUserOperationByHash(h, chain, failing) ==
    LET i  == getUserOperationEvent(h, chain, failing)
        tx == EventTransaction(h, chain, i)
        o  == SelectInSeq(tx.ops, LAMBDA g : HashKey[g] = HashKey[h])
    IN  IF i = 0 THEN [answer |-> "null"]
        ELSE IF \/ EntryPoints[i] \in failing
                \/ tx.to # EntryPoints[i] \/ tx.aggregated \/ o = 0
        THEN [answer |-> "error"]
        ELSE [answer |-> "found", op |-> tx.ops[o]]

getUserOperationReceipt(h, chain, failing) ==
    LET i == getUserOperationEvent(h, chain, failing)
    IN  IF i = 0 THEN [answer |-> "null"]
        ELSE IF EntryPoints[i] \in failing THEN [answer |-> "error"]
        ELSE [answer |-> "found",
              logs |-> filterLogs(h, EventTransaction(h, chain, i).logs)]

\* A transaction of the bundler's own kind: handleOps of the entry point.
Plainly(tx) == tx.to = tx.at /\ ~tx.aggregated

\* When every entry point answers, the receipt of an operation one of them has
\* handled is found, and so is the operation, unless it came with a relay's
\* transaction or in an aggregated bundle, which the code does not look into.
\* What is found is the operation with this hash, and its own share of the
\* logs.  Null says that no entry point has handled the operation, and is not
\* what a failing query looks like (eth.ts:97-180, 236-277).
LookupsTell(chain, failing) ==
    \A h \in Hashes :
        LET op      == getUserOperationByHash(h, chain, failing)
            receipt == getUserOperationReceipt(h, chain, failing)
        IN  /\ "null" \in {op.answer, receipt.answer} =>
                  \A tx \in chain : tx.at \in ToSet(EntryPoints) => ~Included(h, tx)
            /\ op.answer = "found" => op.op = h
            /\ receipt.answer = "found" =>
                  \E tx \in chain :
                      /\ Included(h, tx)
                      /\ receipt.logs = {i \in DOMAIN tx.logs :
                                            ClosedBy(i, h, tx.logs)}
            /\ failing = {} /\ (\E ep \in ToSet(EntryPoints) : Emitted(h, chain, ep) # {})
                  => /\ receipt.answer = "found"
                     /\ (\A tx \in chain : Included(h, tx) => Plainly(tx))
                           => op.answer = "found"
=============================================================================
