-------------------------- MODULE MCMempoolService --------------------------
(***************************************************************************)
(* Instances of the mempool for TLC: the operations the requests bring.    *)
(* Fees are in tenths, so that ten percent of 10 is exactly 1.             *)
(***************************************************************************)
EXTENDS MempoolService

Op(s, n, prio, maxFee) ==
    [sender |-> s, nonce |-> n, prio |-> prio, maxFee |-> maxFee]

\* One key comes with three pairs of fees: the second replaces the first, the
\* third raises only one of them.  The other keys have one operation each.
SomeFees ==
    LET s0 == CHOOSE s \in Senders : s \notin Staked
        n0 == CHOOSE n \in Nonces : TRUE
    IN  {Op(s, n, 10, 10) : s \in Senders, n \in Nonces}
            \cup {Op(s0, n0, 11, 11), Op(s0, n0, 12, 10)}

\* Fees that are no multiple of ten: the division rounds the ten percent down.
OddFees == {Op(s, n, f, f) : s \in Senders, n \in Nonces, f \in 14 .. 18}

=============================================================================
