----------------------------- MODULE MCTodoist -----------------------------
(* Instances of GoalPages and of Idempotency for TLC, each on its own.       *)
EXTENDS GoalPages, Idempotency, TLC

VARIABLE part

\* The payloads are only looked at by the retries.
PartsInit ==
    /\ part \in {"goals", "retry"}
    /\ PagesInit /\ RetryInit
    /\ part = "goals" => \A a \in Attempts : payload[a] = CHOOSE p \in Payloads : TRUE

GoalsPart == part = "goals" /\ PagesNext /\ UNCHANGED <<part, retryVars>>
RetryPart == part = "retry" /\ RetryNext /\ UNCHANGED <<part, vars>>

PartsSpec ==
    /\ PartsInit
    /\ [][GoalsPart \/ RetryPart]_<<part, vars, retryVars>>
    /\ RetryFairness

\* Bound: a client reads while there are at most three goals, and only those
\* with the three lowest ids, of a state that is listed and one that is not.
FewWhileRead ==
    reader # NotReading =>
        Live \subseteq 0..2 /\ \A g \in Live : goals[g].state \in {"active", "completed"}
=============================================================================
