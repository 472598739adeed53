------------------------- MODULE MCBundlingService -------------------------
(***************************************************************************)
(* Instances of the bundler for TLC.  Three operations share a paymaster:  *)
(* the third is one too many, and a small deposit does not pay for the     *)
(* second.  The fourth has a sender that the first has too, and its        *)
(* factory is the paymaster of the others.                                 *)
(***************************************************************************)
EXTENDS BundlingService

CONSTANTS s1, s2, s3, n1, n2, pm, fac

Op(s, n, prio) == [sender |-> s, nonce |-> n, prio |-> prio, maxFee |-> prio]

A == Op(s1, n1, 12)
B == Op(s2, n1, 11)
C == Op(s3, n1, 10)
D == Op(s1, n2, 10)

FourOps == {A, B, C, D}

TwoOps == {A, B}

PaymasterOf == [op \in UserOps |-> IF op = D THEN None ELSE pm]

FactoryOf == [op \in UserOps |-> CASE op = B -> fac [] op = D -> pm [] OTHER -> None]

PrefundOf == [op \in UserOps |-> IF op = B THEN 2 ELSE 1]

=============================================================================
