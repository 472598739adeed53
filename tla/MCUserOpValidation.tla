------------------------- MODULE MCUserOpValidation -------------------------
(***************************************************************************)
(* Instances of the validation for TLC.                                    *)
(***************************************************************************)
EXTENDS UserOpValidation

SortedAddrs ==
    <<EntryPoint, Factory, CHOOSE a \in Others : TRUE, Account, Paymaster>>

\* One operation creates its account, one has a paymaster, one has neither and
\* is followed one opcode further.
SomeOps == {[initCode |-> TRUE, paymaster |-> FALSE],
            [initCode |-> FALSE, paymaster |-> TRUE],
            [initCode |-> FALSE, paymaster |-> FALSE]}

SomeBounds == [op \in SomeOps |-> IF op.initCode \/ op.paymaster THEN 3 ELSE 4]

\* The entities call a token, and the paymaster the entry point, too; the token
\* calls the account back.
SomeCallees ==
    [a \in Addrs |-> CASE a = EntryPoint -> {}
                       [] a = Paymaster -> Others \cup {EntryPoint}
                       [] a \in {Account, Factory} -> Others
                       [] a \in Others -> {Account}]

\* Mappings by account and by paymaster.
SomeInputs == {<<Account, 1>>, <<Paymaster, 1>>}
=============================================================================
