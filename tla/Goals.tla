-------------------------------- MODULE Goals --------------------------------
(***************************************************************************)
(* One user's goals (web_app/todoist/goals.py and, for the actions API,     *)
(* web_app/todoist/api.py).  The tree is stored twice: a goal names its     *)
(* parent, and lists its children.  Every operation is one transaction      *)
(* under the edit lock; one that raises changes nothing and is not a step.  *)
(* A goal's texts and dates are left out, but for whether it has a          *)
(* completion date; GoalPages adds when it was modified.                    *)
(***************************************************************************)
EXTENDS Integers, FiniteSets, Sequences, SequencesExt

CONSTANT MaxId      \* bound: the largest id the model hands out

ASSUME GoalsAssumption == MaxId \in Nat

Ids == 0..MaxId
NoParent == -1
States == {"active", "completed", "failed", "backlogged"}

VARIABLE goals      \* id -> goal

Goal == [state : States, dated : BOOLEAN, parent : Ids \cup {NoParent},
         children : Seq(Ids)]

Live == DOMAIN goals
Children(g) == ToSet(goals[g].children)

Init == goals = [g \in {} |-> TRUE]

\* The goals below g, and g: what a walk down the children lists meets.
WithChildren(met) == met \cup UNION {Children(d) : d \in met \cap Live}

Subtree(g) ==
    LET Met[n \in Nat] == IF n = 0 THEN {g} ELSE WithChildren(Met[n - 1])
    IN  Met[MaxId + 1]

\* A children list without g.
Without(list, g) ==
    LET Kept[n \in 0..Len(list)] ==
          IF n = 0 THEN <<>>
          ELSE IF list[n] # g THEN Append(Kept[n - 1], list[n]) ELSE Kept[n - 1]
    IN  Kept[Len(list)]

-----------------------------------------------------------------------------
\* The id of the next goal: an id that was deleted last is handed out again.
NextId == IF Live = {} THEN 0 ELSE Max(Live) + 1

\* new_goal and create_goal; a parent that does not exist is refused.
NewGoal(parent) ==
    LET id == NextId
        goal == [state |-> "active", dated |-> FALSE, parent |-> parent,
                 children |-> <<>>]
    IN  /\ id =< MaxId
        /\ parent \in Live \cup {NoParent}
        /\ goals' = [g \in Live \cup {id} |->
                       IF g = id THEN goal
                       ELSE IF g = parent
                         THEN [goals[g] EXCEPT !.children = Append(@, id)]
                         ELSE goals[g]]

SetState(g, state, dated) ==
    goals' = [goals EXCEPT ![g].state = state, ![g].dated = dated]

\* fail_goal leaves the completion date alone.
FailGoal(g) == SetState(g, "failed", goals[g].dated)

\* toggle_goal_state
ToggleGoalState(g) ==
    \/ goals[g].state = "active" /\ SetState(g, "completed", TRUE)
    \/ goals[g].state = "completed" /\ SetState(g, "active", FALSE)

\* update_goal of the actions API, with a state.
UpdateGoal(g, state) == SetState(g, state, state = "completed")

\* complete_goal of the actions API.
CompleteGoal(g) ==
    /\ goals[g].state # "completed"
    /\ SetState(g, "completed", TRUE)

\* Faulty variant: a goal may move below one of its descendants.
ReparentGoalAnywhere(g, parent) ==
    /\ parent \in Live \cup {NoParent}
    /\ parent # g
    /\ goals' =
         [h \in Live |->
            [goals[h] EXCEPT
               !.parent = IF h = g THEN parent ELSE @,
               !.children =
                 IF h # parent THEN Without(@, g)
                 ELSE IF Contains(@, g) THEN @ ELSE Append(@, g)]]

\* reparent_goal_in_tree: g leaves every other children list and joins its new
\* parent's.
ReparentGoal(g, parent) ==
    /\ parent \in Live \cup {NoParent}
    /\ parent # g
    /\ parent \notin Subtree(g)
    /\ goals' =
         [h \in Live |->
            [goals[h] EXCEPT
               !.parent = IF h = g THEN parent ELSE @,
               !.children =
                 IF h # parent THEN Without(@, g)
                 ELSE IF Contains(@, g) THEN @ ELSE Append(@, g)]]

\* Faulty variant: the parent keeps the id in its list.
DeleteGoalOnly(g) == goals' = [h \in Live \ Subtree(g) |-> goals[h]]

\* delete_goal: out of the parent's list, then the whole subtree.
DeleteGoal(g) ==
    goals' = [h \in Live \ Subtree(g) |->
                IF h = goals[g].parent
                  THEN [goals[h] EXCEPT !.children = RemoveFirst(@, g)]
                  ELSE goals[h]]

-----------------------------------------------------------------------------
Next ==
    \/ \E p \in Ids \cup {NoParent} : NewGoal(p)
    \/ \E g \in Live :
          \/ FailGoal(g) \/ ToggleGoalState(g) \/ CompleteGoal(g)
          \/ \E s \in States : UpdateGoal(g, s)
          \/ \E p \in Ids \cup {NoParent} : ReparentGoal(g, p)
          \/ DeleteGoal(g)

Spec == Init /\ [][Next]_goals

-----------------------------------------------------------------------------
\* The completed goals are sorted by their completion date without a check
\* that they have one (todoist/__init__.py:89 and visualiser.py:72).
TypeOK ==
    /\ Live \subseteq Ids
    /\ \A g \in Live : /\ goals[g] \in Goal
                       /\ goals[g].state = "completed" => goals[g].dated

\* The two records of the tree agree: a goal is in exactly one children list,
\* its parent's, exactly once, and in none if it has no parent; no list or
\* parent field names a goal that is gone, which an id handed out again would
\* turn into a link to a stranger (goals.py:82, "max(tld.goals.keys()) + 1").
LinksAgree ==
    /\ \A g \in Live : goals[g].parent \in Live \cup {NoParent}
    /\ \A h \in Live : /\ Children(h) = {g \in Live : goals[g].parent = h}
                       /\ IsInjective(goals[h].children)

\* What the listings and the charts of a user's goals are drawn from.
GoalsSound == TypeOK /\ LinksAgree

\* No goal is below itself, so the walks that recurse down the children lists
\* end (delete_goal, goals.py:227, and _serialize_goal, api.py:31).
NoCycle == \A g \in Live : \A c \in Children(g) : g \notin Subtree(c)

\* list_goals: the goals of a state whose parent is not in that state, each
\* with everything below it.
ListedRoots(state) ==
    {g \in Live : /\ goals[g].state = state
                  /\ \/ goals[g].parent \notin Live
                     \/ goals[goals[g].parent].state # state}
=============================================================================
