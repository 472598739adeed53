-------------------------- MODULE AbstractMempool --------------------------
(***************************************************************************)
(* What the mempool promises to the rest of the bundler: one table from    *)
(* (sender, nonce) to an operation, changed and read in single steps.  It  *)
(* has no collection of keys and no requests in flight.                    *)
(***************************************************************************)
EXTENDS Naturals, FiniteSets

CONSTANTS Senders, Nonces, UserOps, Staked, MaxPerSender, None

VARIABLES
    pool,       \* the operation pooled under each key
    views       \* the answers of dump that requests hold

vars == <<pool, views>>

Keys == Senders \X Nonces

Contents == {pool[k] : k \in Keys} \ {None}

Pending(s) == {n \in Nonces : pool[<<s, n>>] # None}

Init ==
    /\ pool = [k \in Keys |-> None]
    /\ views = {}

\* A new operation, if its sender has room or stake.
Accept(op) ==
    LET k == <<op.sender, op.nonce>> IN
    /\ pool[k] = None
    /\ \/ op.sender \in Staked
       \/ Cardinality(Pending(op.sender)) < MaxPerSender
    /\ pool' = [pool EXCEPT ![k] = op]
    /\ UNCHANGED views

\* An operation in place of one with the same key and lower fees.
Supersede(op) ==
    LET k == <<op.sender, op.nonce>> IN
    /\ pool[k] # None
    /\ op.prio >= pool[k].prio
    /\ op.maxFee >= pool[k].maxFee
    /\ pool' = [pool EXCEPT ![k] = op]
    /\ UNCHANGED views

Remove(k) ==
    /\ pool' = [pool EXCEPT ![k] = None]
    /\ UNCHANGED views

\* A dump is exactly the pool, every operation of it.
Dump ==
    /\ views' = views \cup {Contents}
    /\ UNCHANGED pool

\* A request lets go of the answer it held.
Forget ==
    /\ views' \subseteq views
    /\ UNCHANGED pool

Next ==
    \/ \E op \in UserOps : Accept(op) \/ Supersede(op)
    \/ \E k \in Keys : Remove(k)
    \/ Dump \/ Forget

Spec == Init /\ [][Next]_vars
=============================================================================
