------------------------------ MODULE GoalPages ------------------------------
(***************************************************************************)
(* A client of the actions API reads the goals of a state page by page      *)
(* (list_goals, web_app/todoist/api.py) while they are being edited.        *)
(* Nothing is kept between two pages: each one sorts the goals anew, the    *)
(* one modified last first, and cuts at the offset the client sends.  The   *)
(* client starts at 0, asks for the same number of goals every time and     *)
(* goes on while it is told that there are more.                            *)
(***************************************************************************)
EXTENDS Goals

CONSTANTS
    PageSizes,      \* how many goals a client may ask for at a time
    StatesRead,     \* the states it asks for
    MaxGoals,       \* bound: the goals when a client begins to read
    MaxWrites       \* bound: the writes during one reading

ASSUME PagesAssumption ==
    PageSizes \subseteq Nat \ {0} /\ StatesRead \subseteq States
    /\ MaxGoals \in Nat /\ MaxWrites \in Nat

VARIABLE reader

vars == <<goals, reader>>

NotReading == [phase |-> "idle"]
Reading == reader.phase = "reading"

PagesInit == Init /\ reader = NotReading

\* The orders in which goals may have been modified: which of two is the newer.
Orders(live) ==
    {newer \in SUBSET (live \X live) :
       /\ \A g \in live : <<g, g>> \notin newer
       /\ \A g, h \in live : g # h => (<<g, h>> \in newer <=> <<h, g>> \notin newer)
       /\ \A g, h, k \in live :
            <<g, h>> \in newer /\ <<h, k>> \in newer => <<g, k>> \in newer}

\* The goals listed for a state, sorted by `last_modified`: how many are listed
\* before g, and how many there are.
Position(newer, state, g) ==
    Cardinality({h \in ListedRoots(state) : <<h, g>> \in newer})
Total(state) == Cardinality(ListedRoots(state))

\* Faulty variant: a single goal is not worth another page.
HasMoreThanOne(total, offset, limit) == offset + limit + 1 < total

HasMore(total, offset, limit) == offset + limit < total

\* The first page is asked for.  The goals may have been modified in any order.
Ask(state, limit) ==
    /\ reader = NotReading
    /\ Cardinality(Live) \in 1..MaxGoals
    /\ \E newer \in Orders(Live) :
           reader' = [phase |-> "reading", state |-> state, limit |-> limit,
                      newer |-> newer, offset |-> 0, shown |-> {},
                      excused |-> {}, left |-> FALSE, writes |-> 0]
    /\ UNCHANGED goals

\* _serialize_goal: a goal is shown with everything below it.
Serialized(g) == Subtree(g)

\* list_goals: a page.
ReadPage ==
    LET Here(g) == Position(reader.newer, reader.state, g)
        page == {g \in ListedRoots(reader.state) :
                   reader.offset =< Here(g) /\ Here(g) < reader.offset + reader.limit}
        more == HasMore(Total(reader.state), reader.offset, reader.limit)
    IN  /\ Reading
        /\ reader' = [reader EXCEPT
                        !.phase = IF more THEN "reading" ELSE "read",
                        !.offset = @ + reader.limit,
                        !.shown = @ \cup UNION {Serialized(g) : g \in page}]
        /\ UNCHANGED goals

\* What the client has read is judged at its last page.
Stop ==
    /\ reader.phase = "read"
    /\ reader' = NotReading
    /\ UNCHANGED goals

-----------------------------------------------------------------------------
(* The writes, as the client's reading meets them: `touched` is the goal    *)
(* whose last_modified a write sets, if it sets one.                        *)

Meets(touched) ==
    \/ ~Reading /\ UNCHANGED reader
    \/ /\ Reading /\ reader.writes < MaxWrites
       /\ \E state \in {reader.state} :
            LET before == ListedRoots(state)
                after == ListedRoots(state)'
            IN  reader' = [reader EXCEPT
                  !.newer = (@ \cap (Live' \X (Live' \ touched)))
                              \cup (touched \X (Live' \ touched)),
                  !.excused = @ \cup touched \cup (after \ before),
                  !.left = @ \/ ~(before \subseteq after),
                  !.writes = @ + 1]

\* edit_goal, and update_goal without a state: another name, text or date.
EditGoal(g) == Reading /\ UNCHANGED goals /\ Meets({g})

\* log_goal, of the web and of the actions API: a note is added to the text.
LogGoal(g) == Reading /\ UNCHANGED goals /\ Meets({g})

\* reparent_goal: the date is set if anything changed.
MoveGoal(g, parent) ==
    ReparentGoal(g, parent) /\ Meets(IF goals' = goals THEN {} ELSE {g})

Write ==
    \/ \E p \in Ids \cup {NoParent} : NewGoal(p) /\ Meets({NextId})
    \/ \E g \in Live :
         \/ (FailGoal(g) \/ ToggleGoalState(g) \/ DeleteGoal(g)) /\ Meets({})
         \/ EditGoal(g) \/ LogGoal(g)
         \/ CompleteGoal(g) /\ Meets({g})
         \/ \E s \in States : UpdateGoal(g, s) /\ Meets({g})
         \/ \E p \in Ids \cup {NoParent} : MoveGoal(g, p)

PagesNext ==
    \/ reader.phase # "read" /\ Write
    \/ \E state \in StatesRead, limit \in PageSizes : Ask(state, limit)
    \/ ReadPage
    \/ Stop

PagesSpec == PagesInit /\ [][PagesNext]_vars

-----------------------------------------------------------------------------
\* A client that follows has_more to the end has been shown every goal of the
\* state, when nobody wrote meanwhile.  When somebody did, it has still been
\* shown every goal in the listing but those that were modified or joined the
\* listing after its first page, unless a goal left the listing, which moves
\* the ones behind it to a page that was already read (api.py:159, the goals
\* are sorted and cut anew for each page).
NothingMissed ==
    reader.phase = "read" =>
        /\ reader.writes = 0 => \A g \in Live :
             goals[g].state = reader.state => g \in reader.shown
        /\ reader.left \/
             ListedRoots(reader.state) \subseteq reader.shown \cup reader.excused
=============================================================================
