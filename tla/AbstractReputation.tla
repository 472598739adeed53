------------------------- MODULE AbstractReputation -------------------------
(***************************************************************************)
(* What the reputation service promises to the rest of the bundler: a      *)
(* ledger of the operations seen and included for every address, changed   *)
(* in single steps.  An address nobody has seen has a zero entry; there is *)
(* no collection of addresses and no request in flight.                    *)
(***************************************************************************)
EXTENDS Naturals

CONSTANTS Addresses, Amounts, MaxAge, Status(_)

VARIABLES
    ledger,     \* the counts of each address and their age
    answers     \* the statuses that requests were told and still hold

vars == <<ledger, answers>>

Zero == [seen |-> 0, included |-> 0, age |-> 0]

Statuses == {"OK", "THROTTLED", "BANNED"}

Init ==
    /\ ledger = [a \in Addresses |-> Zero]
    /\ answers = {}

\* The counts of one address change; the change is as old as the request
\* that decided it.
Enter(a, seen, included) ==
    /\ \E age \in 0 .. MaxAge :
          ledger' = [ledger EXCEPT ![a] =
                        [seen |-> seen, included |-> included, age |-> age]]
    /\ UNCHANGED answers

See(a) == Enter(a, ledger[a].seen + 1, ledger[a].included)

Include(a) == Enter(a, ledger[a].seen, ledger[a].included + 1)

Set(a) == \E amount \in Amounts : Enter(a, amount.seen, amount.included)

Forgive(a) ==
    /\ ledger' = [ledger EXCEPT ![a] = Zero]
    /\ UNCHANGED answers

\* A status told is the status of some address at that moment.
Tell(a) ==
    /\ answers' = answers \cup {Status(ledger[a])}
    /\ UNCHANGED ledger

Forget ==
    /\ answers' \subseteq answers
    /\ UNCHANGED ledger

Tick ==
    /\ \A a \in Addresses :
          \/ ledger'[a] = ledger[a]
          \/ ledger'[a] = [ledger[a] EXCEPT !.age = @ + 1]
    /\ UNCHANGED answers

Next ==
    \/ \E a \in Addresses :
          See(a) \/ Include(a) \/ Set(a) \/ Forgive(a) \/ Tell(a)
    \/ Forget \/ Tick

Spec == Init /\ [][Next]_vars
=============================================================================
