------------------------------ MODULE Accounts ------------------------------
(***************************************************************************)
(* Accounts: users.json, the data every application keeps for a user, and   *)
(* the requests that register, use and delete an account                    *)
(* (web_app/account_api.py).                                                *)
(*                                                                          *)
(* users.json is edited under its lock, so an edit is one step.  A deletion *)
(* is not: it checks under the lock, then lets each application delete its  *)
(* data, then takes the lock again to remove the user.  Other requests run  *)
(* with the user record they loaded when they began.  An application files  *)
(* data under the user's folder or under the user's name; a name can be     *)
(* registered again, and `born` tells one account from the next.  Tokens    *)
(* (OAuth) are deleted like the data of an application that uses the name.  *)
(* Some applications ignore what they cannot remove, and the deletion goes  *)
(* on; in the others a failing removal ends it.                             *)
(***************************************************************************)
EXTENDS Naturals, Sequences, FiniteSets

CONSTANTS
    Slots,          \* request threads
    Names,          \* user names
    Folders,        \* folder names generate_random_string may return
    ByFolder, ByName,   \* applications, by what they file data under
    Lenient,        \* those that ignore what they fail to remove
    Purges,         \* the applications in the order they are told to delete
    MaxAccounts     \* bound: accounts ever registered

Apps == ByFolder \cup ByName

ASSUME AccountsAssumption ==
    /\ MaxAccounts \in Nat /\ MaxAccounts >= 2    \* Init has two
    /\ Purges \in Seq(Apps) /\ {Purges[i] : i \in DOMAIN Purges} = Apps
    /\ ByFolder \cap ByName = {}
    /\ Lenient \subseteq Apps

Births == 1..MaxAccounts
Account == [name : Names, folder : Folders, admin : BOOLEAN, born : Births]
Nobody == [none |-> TRUE]

VARIABLES
    users,      \* the records in users.json
    data,       \* what each application stores: its key, and who wrote it
    nextBorn,   \* accounts registered so far
    \* each request
    pc,
    me,         \* the user record it works with
    step,       \* the next application a deletion turns to
    \* bookkeeping
    asked,      \* accounts whose deletion has been confirmed
    raced,      \* accounts that were written to during or after a deletion,
                \* or that fell to the deletion of an earlier one
    spared      \* <<application, account>>: its own deletion failed to remove
                \* data there, the error was ignored and the deletion went on

slotVars == <<pc, me, step>>
vars == <<users, data, nextBorn, slotVars, asked, raced, spared>>

Key(app, account) == IF app \in ByFolder THEN account.folder ELSE account.name

Init ==
    /\ \E m, n \in Names, f, g \in Folders :
          /\ m # n /\ f # g
          /\ users = {[name |-> m, folder |-> f, admin |-> TRUE, born |-> 1],
                      [name |-> n, folder |-> g, admin |-> TRUE, born |-> 2]}
    /\ data = [app \in Apps |-> {}]
    /\ nextBorn = 3
    /\ pc = [s \in Slots |-> "idle"]
    /\ me = [s \in Slots |-> Nobody]
    /\ step = [s \in Slots |-> 0]
    /\ asked = {} /\ raced = {} /\ spared = {}

Named(n) == {a \in users : a.name = n}
Deleting(s) == pc[s] = "purging"

Begin(s, what, account) ==
    /\ pc' = [pc EXCEPT ![s] = what]
    /\ me' = [me EXCEPT ![s] = account]

Done(s) ==
    /\ pc' = [pc EXCEPT ![s] = "idle"]
    /\ me' = [me EXCEPT ![s] = Nobody]
    /\ step' = [step EXCEPT ![s] = 0]

-----------------------------------------------------------------------------
\* generate_new_user: a folder no user has.
FreeFolders == Folders \ {a.folder : a \in users}

\* register
Register(n) ==
    /\ nextBorn =< MaxAccounts
    /\ Named(n) = {}
    /\ \E f \in FreeFolders :
          users' = users \cup {[name |-> n, folder |-> f, admin |-> FALSE,
                                born |-> nextBorn]}
    /\ nextBorn' = nextBorn + 1
    /\ UNCHANGED <<data, slotVars, asked, raced, spared>>

\* A request of a logged-in user begins: user_loader finds the record.
BeginWrite(s, a) ==
    /\ pc[s] = "idle"
    /\ Begin(s, "writing", a)
    /\ UNCHANGED <<users, data, nextBorn, step, asked, raced, spared>>

\* It stores something in an application, which does not ask again whether the
\* account still exists.
Write(s, app) ==
    LET a == me[s]
    IN  /\ pc[s] = "writing"
        /\ data' = [data EXCEPT ![app] =
                      @ \cup {[key |-> Key(app, a), born |-> a.born]}]
        /\ raced' = IF a \notin users
                       \/ \E t \in Slots : Deleting(t) /\ me[t].born = a.born
                      THEN raced \cup {a.born} ELSE raced
        /\ Done(s)
        /\ UNCHANGED <<users, nextBorn, asked, spared>>

-----------------------------------------------------------------------------
(* delete_account                                                          *)

Admins == {a \in users : a.admin}

\* Whether removing the account would leave no administrator.
LastAdmin(a) == a.admin /\ Cardinality(Admins) =< 1

\* The password is right and the account is not the last administrator.
BeginDelete(s, a) ==
    /\ pc[s] = "idle"
    /\ ~LastAdmin(a)
    /\ Begin(s, "purging", a)
    /\ step' = [step EXCEPT ![s] = 1]
    /\ asked' = asked \cup {a.born}
    /\ UNCHANGED <<users, data, nextBorn, raced, spared>>

\* The application the deletion of s turns to, and what it is to remove there.
App(s) == Purges[step[s]]
Doomed(s) == {d \in data[App(s)] : d.key = Key(App(s), me[s])}

Purging(s) == Deleting(s) /\ step[s] =< Len(Purges)
Removed(s, gone) == data' = [data EXCEPT ![App(s)] = @ \ gone]

\* Faulty variant: the record is looked up again, by name.
PurgeByName(s) ==
    /\ Purging(s)
    /\ LET keys == {Key(App(s), a) : a \in Named(me[s].name)}
       IN  Removed(s, {d \in data[App(s)] : d.key \in keys})
    /\ step' = [step EXCEPT ![s] = @ + 1]
    /\ UNCHANGED <<users, nextBorn, pc, me, asked, raced, spared>>

\* delete_user_data of the next application.
Purge(s) ==
    /\ Purging(s)
    /\ Removed(s, Doomed(s))
    /\ step' = [step EXCEPT ![s] = @ + 1]
    /\ UNCHANGED <<users, nextBorn, pc, me, asked, raced, spared>>

\* It removes a part at most and ignores that: the deletion goes on
\* (shutil.rmtree with ignore_errors).
PurgeLeaves(s) ==
    /\ Purging(s) /\ App(s) \in Lenient
    /\ \E kept \in SUBSET Doomed(s) \ {{}} :
          /\ Removed(s, Doomed(s) \ kept)
          /\ spared' = spared \cup
                       {<<App(s), d.born>> : d \in {k \in kept : k.born = me[s].born}}
    /\ step' = [step EXCEPT ![s] = @ + 1]
    /\ UNCHANGED <<users, nextBorn, pc, me, asked, raced>>

\* It removes a part at most and raises, which ends the deletion: the user
\* stays.
PurgeFails(s) ==
    /\ Purging(s)
    /\ \E gone \in SUBSET Doomed(s) : Removed(s, gone)
    /\ Done(s)
    /\ UNCHANGED <<users, nextBorn, asked, raced, spared>>

\* The record that now has the name the deletion began with.
Active(s) == Named(me[s].name)

RemoveAll(s, gone) ==
    /\ users' = users \ gone
    /\ raced' = raced \cup {a.born : a \in gone \ {me[s]}}
    /\ Done(s)
    /\ UNCHANGED <<data, nextBorn, asked, spared>>

\* Faulty variants: what was checked at the start is not checked again, and
\* the user is removed although an application has not been told.
RemoveUserUnchecked(s) ==
    /\ Deleting(s) /\ step[s] > Len(Purges)
    /\ RemoveAll(s, Active(s))

RemoveUserEarly(s) ==
    /\ Deleting(s) /\ step[s] >= Len(Purges)
    /\ RemoveAll(s, {a \in Active(s) : a.folder = me[s].folder
                                       /\ ~LastAdmin(a)})

\* The user is removed, unless he has gone already, or the name has passed to
\* an account with another folder, or the account is the last administrator
\* by now.
RemoveUser(s) ==
    /\ Deleting(s) /\ step[s] > Len(Purges)
    /\ RemoveAll(s, {a \in Active(s) : a.folder = me[s].folder
                                       /\ ~LastAdmin(a)})

\* A request is refused or fails, or its worker dies: what was deleted stays
\* deleted and the user stays.
Fail(s) ==
    /\ pc[s] # "idle"
    /\ Done(s)
    /\ UNCHANGED <<users, data, nextBorn, asked, raced, spared>>

Next ==
    \/ \E n \in Names : Register(n)
    \/ \E s \in Slots :
        \/ \E a \in users : BeginWrite(s, a) \/ BeginDelete(s, a)
        \/ \E app \in Apps : Write(s, app)
        \/ Purge(s) \/ PurgeLeaves(s) \/ PurgeFails(s)
        \/ RemoveUser(s) \/ Fail(s)

Spec == Init /\ [][Next]_vars

-----------------------------------------------------------------------------
TypeOK ==
    /\ users \subseteq Account
    /\ data \in [Apps -> SUBSET [key : Names \cup Folders, born : Births]]
    /\ nextBorn \in 1..(MaxAccounts + 1)
    /\ pc \in [Slots -> {"idle", "writing", "purging"}]
    /\ me \in [Slots -> Account \cup {Nobody}]
    /\ step \in [Slots -> 0..(Len(Purges) + 1)]
    /\ \A s \in Slots : step[s] = 0 <=> ~Deleting(s)
    /\ asked \subseteq Births /\ raced \subseteq Births
    /\ spared \subseteq Apps \X Births

\* There is always an administrator, although two may delete their accounts
\* at the same time and both pass the first check ("Cannot delete the last
\* admin account", account_api.py:130).
AdminRemains == Admins # {}

\* A name and a folder belong to one account, so the data filed under either
\* does (register and generate_new_user, account_api.py:209).
AccountsDistinct ==
    \A a, b \in users : a # b => a.name # b.name /\ a.folder # b.folder

\* A deleted account leaves no data behind, and the next holder of its name
\* or folder finds none of it, unless another request of the account wrote it
\* when the deletion had begun (account_api.py:133), or the account fell to the
\* deletion of an earlier one with the same name and folder, or an application
\* that ignores its errors did not remove it (todoist/data_interface.py:59).
NothingLeftBehind ==
    \A app \in Apps : \A d \in data[app] :
        \/ d.born \in {a.born : a \in users} \cup raced
        \/ <<app, d.born>> \in spared

\* Data disappears only with an account whose deletion was confirmed, or when
\* it was left behind before, or it falls to a deletion, still under way, of an
\* earlier account whose name or folder has been handed out again ("account
\* identity changed during deletion", account_api.py:142).
OnlyConfirmedDataDeleted ==
    [][\A app \in Apps : \A d \in data[app] \ data'[app] :
          \/ d.born \in asked \cup raced
          \/ \E s \in Slots : Deleting(s) /\ me[s] \notin users
                              /\ Key(app, me[s]) = d.key]_vars
=============================================================================
