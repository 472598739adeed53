-------------------------- MODULE AbstractBundler --------------------------
(***************************************************************************)
(* What the bundler promises to those who submit operations.  An operation *)
(* waits from the moment it is submitted.  It is handed to the chain with  *)
(* the whole of a bundle in one step, or it stops waiting: it is refused,  *)
(* dropped or replaced, and then nothing brings it back.  There is one     *)
(* bundle at a time.  What was handed over is not handed over again,       *)
(* unless the bundler got stuck when it was to be rid of it.               *)
(***************************************************************************)
CONSTANTS
    UserOps,
    Legal(_)    \* whether a set of operations may be a bundle

VARIABLES
    asked,      \* the operations that were submitted
    waiting,    \* those that may still be handed to the chain
    batch,      \* the bundle that was handed over and is not done with
    sent,       \* the operations handed over
    stuck       \* those of them that were not got rid of

vars == <<asked, waiting, batch, sent, stuck>>

Init == asked = {} /\ waiting = {} /\ batch = {} /\ sent = {} /\ stuck = {}

Submit(op) ==
    /\ op \notin asked
    /\ asked' = asked \cup {op}
    /\ waiting' = waiting \cup {op}
    /\ UNCHANGED <<batch, sent, stuck>>

Forget ==
    /\ waiting' \subseteq waiting
    /\ UNCHANGED <<asked, batch, sent, stuck>>

\* A bundle of the operations S.
Bundle(S) ==
    /\ batch = {} /\ batch' = S
    /\ Legal(S)
    /\ sent' = sent \cup S
    /\ waiting' = waiting \ S
    /\ UNCHANGED <<asked, stuck>>

Done ==
    /\ batch' = {}
    /\ stuck \subseteq stuck' /\ stuck' \subseteq stuck \cup batch
    /\ UNCHANGED <<asked, waiting, sent>>

Next ==
    \/ Forget
    \/ Done
    \/ \E op \in UserOps : Submit(op)
    \/ \E S \in SUBSET (waiting \cup stuck) : Bundle(S)

Spec == Init /\ [][Next]_vars

-----------------------------------------------------------------------------
\* What waits was not handed over, and what got stuck was.
Settled ==
    /\ waiting \cup sent \subseteq asked
    /\ waiting \cap sent = {}
    /\ batch \subseteq sent /\ stuck \subseteq sent

\* An operation that stopped waiting without being handed over never is.
ForgottenForGood ==
    [][\A op \in asked \ (waiting \cup sent) : op \notin waiting' \cup sent']_vars

=============================================================================
