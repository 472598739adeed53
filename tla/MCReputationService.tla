------------------------ MODULE MCReputationService ------------------------
(***************************************************************************)
(* Instances of the reputation service for TLC: the jobs requests bring.   *)
(***************************************************************************)
EXTENDS ReputationService

Job(call, a, seen, included) ==
    [call |-> call, addr |-> a, seen |-> seen, included |-> included,
     list |-> "WL"]

ListJob(call, a, l) ==
    [call |-> call, addr |-> a, seen |-> 0, included |-> 0, list |-> l]

\* Jobs that are about no address name one all the same.
Global(call) == Job(call, CHOOSE a \in Addresses : TRUE, 0, 0)

SeenJobs == {Job("seen", a, 1, 0) : a \in Addresses}
StatusJobs == {Job("status", a, 0, 0) : a \in Addresses}

\* Every call, with few amounts; the operations of one address only are ever
\* included.
AllJobs ==
    SeenJobs \cup StatusJobs
        \cup {Job("included", a, 0, 1) : a \in Addresses \ LowDelay}
        \cup {Job("stake", a, 0, 0) : a \in Addresses}
        \cup {Job("set", a, 3, 0) : a \in Addresses}
        \cup {Global("dump"), Global("clear")}
        \cup {ListJob(call, a, "WL") :
                 call \in {"listAdd", "listRemove", "isListed"}, a \in Addresses}

\* What the bundler does on its own: it counts and it asks.
OwnJobs == SeenJobs \cup StatusJobs \cup {Global("dump")}
=============================================================================
