----------------------------- MODULE MCOperations -----------------------------
(* Instances of Terminal and Deployment for TLC: what the administrator does. *)
(* Each runs on its own.                                                      *)
EXTENDS Terminal, Deployment, TLC

\* Bound: only one shell has anything to say.
OneTalks == Cardinality({a \in Sids : terminal[a].written > 0}) =< 1

\* Bound: more than one byte comes from a shell that is the only one started.
LongAlone ==
    \A a, o \in Sids :
        terminal[a].written > 1 /\ o # a => terminal[o].shell = "none"

Symmetry == Permutations(Threads) \cup Permutations(Sids)

\* Bound: the last release is pushed while no deployment has been left half done.
LastWhenWhole == cut => origin < LastRelease

\* The second release retires the timer of the first and renames the unit of its
\* jobs; the third has both timers.
MCTimers(r) ==
    (IF r # 2 THEN {"backup.timer"} ELSE {}) \cup (IF r # 1 THEN {"keepalive.timer"} ELSE {})
MCService(r) == IF r = 1 THEN "job@.service" ELSE "scheduled-job@.service"

VARIABLE part

PartsInit ==
    /\ part \in {"terminals", "deployment"}
    /\ TerminalInit /\ DeploymentInit
    /\ part = "terminals" => enabled = {}

PartsNext ==
    /\ UNCHANGED part
    /\ \/ /\ part = "terminals"
          /\ TerminalNext
          /\ UNCHANGED deploymentVars
       \/ /\ part = "deployment"
          /\ DeploymentNext
          /\ UNCHANGED terminalVars

PartsSpec == PartsInit /\ [][PartsNext]_<<part, terminalVars, deploymentVars>>
=============================================================================
