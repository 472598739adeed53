----------------------------- MODULE MCExecutor -----------------------------
(***************************************************************************)
(* An instance of the executor for TLC.                                    *)
(***************************************************************************)
EXTENDS Executor, EthLookup

CONSTANTS s1, pm

Op(s, n, fee) == [sender |-> s, nonce |-> n, prio |-> fee, maxFee |-> fee]

\* The first operation can be replaced, the other has a paymaster.
SomeUserOps == {Op(s1, n, 10) : n \in Nonces} \cup {Op(s1, 1, 11)}

SomePaymasters == [op \in SomeUserOps |-> IF op.nonce = 2 THEN pm ELSE None]

SomeEntities == [op \in SomeUserOps |-> {op.sender, SomePaymasters[op]} \ {None}]

SetJob(a, seen) == [SeenJob(a) EXCEPT !.call = "set", !.seen = seen]

SomeHashes == UserOps
SomeHashKeys == [op \in UserOps |-> KeyOf(op)]
SomeEntryPoints == <<"v1", "v2">>

\* Small transactions with the operations of a bundle, sent to their entry
\* point or through another contract.
Transactions(bundle) ==
    LET logsOf == {logs \in UNION {[1 .. n -> bundle \cup {Other}] : n \in 0 .. 4} :
                      OneEventEach(logs) /\ bundle \subseteq ToSet(logs)}
    IN  {tx \in [to : {"v1", "v2", "relay"}, at : {"v1", "v2"},
                  aggregated : BOOLEAN, ops : SetToSeqs(bundle), logs : logsOf] :
            tx.to \in {tx.at, "relay"}}

\* Chains on which a set of operations is bundled: in one transaction, or the
\* rest of them in a second one.
Chains(bundle) ==
    {{}} \cup {{t} : t \in Transactions(bundle)}
         \cup UNION {{{t, u} : t \in Transactions(b),
                            u \in {v \in Transactions(bundle \ b) : Plainly(v)}} :
                       b \in (SUBSET bundle) \ {{}, bundle}}

FoundIn(bundle) ==
    \A chain \in Chains(bundle), failing \in SUBSET ToSet(EntryPoints) :
        Legal(chain) => LookupsTell(chain, failing)

Bundles == {b \in SUBSET Hashes : \A o, q \in b : KeyOf(o) = KeyOf(q) => o = q}

\* Pairs, so that TLC judges every bundle once.
Lookups == {<<bundle, FoundIn(bundle)>> : bundle \in Bundles}

\* However the operations that are pooled between two calls are bundled: as long
\* as the entry points answer, the receipt of each is found by its hash, with
\* its own logs, and each operation that came in a plain handleOps is, too; and
\* no lookup ever answers with another one, or null for one that was handled
\* (eth.ts:97-180).
PooledAreFound ==
    (\A p \in Proc : flow[p] = "idle") =>
        <<{store[k] : k \in Stored}, TRUE>> \in Lookups

SomeBatches == {<<SetJob(pm, 1), SetJob(s1, 0)>>}
=============================================================================
