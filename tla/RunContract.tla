----------------------------- MODULE RunContract -----------------------------
(***************************************************************************)
(* What one ddgl attach run promises its caller, with no polling in it: it *)
(* watches one pipeline, moves only to a newer one, spends at most its     *)
(* retry budget, and ends once.  A verdict reports the pipeline watched    *)
(* and, when answers can be believed, exactly the retries spent.           *)
(* Attach.tla implements it.                                               *)
(***************************************************************************)
EXTENDS Integers

CONSTANT Limits  \* the retry budgets a run may have, 0 = unlimited

VARIABLES
    limit,    \* the budget of every run of this behaviour
    exact,    \* whether an error answer always means that nothing was spent
    phase,    \* starting, watching or ended
    watched,  \* the pipeline being watched, 0 before there is one
    spent,    \* the retries GitLab accepted from this run
    verdict   \* the pipeline and the retries a finished run reported

contractVars == <<limit, exact, phase, watched, spent, verdict>>

NoVerdict == [pipe |-> 0, retries |-> 0]

ContractInit ==
    /\ limit \in Limits
    /\ exact \in BOOLEAN
    /\ phase = "starting"
    /\ watched = 0
    /\ spent = 0
    /\ verdict = NoVerdict

Watch ==
    /\ phase = "starting"
    /\ phase' = "watching"
    /\ watched' \in Nat \ {0}
    /\ UNCHANGED <<limit, exact, spent, verdict>>

Move ==
    /\ phase = "watching"
    /\ watched' \in Nat
    /\ watched' > watched
    /\ UNCHANGED <<limit, exact, phase, spent, verdict>>

\* Also after the end: a request that was on its way may still be served.
Spend ==
    /\ phase # "starting"
    /\ exact /\ limit # 0 => spent < limit
    /\ spent' = spent + 1
    /\ UNCHANGED <<limit, exact, phase, watched, verdict>>

Conclude ==
    /\ phase = "watching"
    /\ phase' = "ended"
    /\ \E told \in 0 .. spent :
          /\ exact => told = spent
          /\ verdict' = [pipe |-> watched, retries |-> told]
    /\ UNCHANGED <<limit, exact, watched, spent>>

\* Timeout or error: no verdict on the pipeline.
Abort ==
    /\ phase # "ended"
    /\ phase' = "ended"
    /\ UNCHANGED <<limit, exact, watched, spent, verdict>>

Restart ==
    /\ phase' = "starting"
    /\ watched' = 0
    /\ spent' = 0
    /\ verdict' = NoVerdict
    /\ UNCHANGED <<limit, exact>>

ContractNext == Watch \/ Move \/ Spend \/ Conclude \/ Abort \/ Restart

ContractSpec == ContractInit /\ [][ContractNext]_contractVars
=============================================================================
