--------------------------- MODULE AccountsProofs ---------------------------
(***************************************************************************)
(* Proofs about Accounts for every set of request threads, names, folders   *)
(* and applications, and any order of deletion.                             *)
(*                                                                          *)
(* The inductive invariant adds three facts.  Known: the record a request   *)
(* works with is the only one of its birth, so a user of that birth is that *)
(* record.  Owned: data is its account's, under its account's key, or is    *)
(* excused: written beside a deletion, or left by one that ignored its      *)
(* error.  Cleared: what a deletion has been through holds none of its      *)
(* account's data but excused data.                                         *)
(***************************************************************************)
EXTENDS Accounts, FiniteSetTheorems, TLAPS

Known ==
    /\ \A a \in users : a.born < nextBorn
    /\ \A a, b \in users : a.born = b.born => a = b
    /\ \A s \in Slots : pc[s] # "idle" =>
          /\ me[s] \in Account
          /\ me[s].born < nextBorn
          /\ \A a \in users : a.born = me[s].born => a = me[s]
    /\ \A s \in Slots : Deleting(s) => me[s].born \in asked
    /\ \A app \in Apps, b \in Births : <<app, b>> \in spared => b \in asked

\* Data that may outlive its account.
Excused(app, d) == d.born \in raced \/ <<app, d.born>> \in spared

Owned ==
    \A app \in Apps : \A d \in data[app] :
        \/ Excused(app, d)
        \/ \E a \in users : a.born = d.born /\ d.key = Key(app, a)

Cleared ==
    \A s \in Slots : Deleting(s) =>
        \A i \in DOMAIN Purges : i < step[s] =>
            \A d \in data[Purges[i]] : d.born = me[s].born => Excused(Purges[i], d)

IInv == TypeOK /\ AccountsDistinct /\ AdminRemains /\ Known /\ Owned /\ Cleared
-----------------------------------------------------------------------------
\* The invariant holds at the start.
LEMMA InitInv == Init => IInv
  <1> SUFFICES ASSUME Init PROVE IInv
    OBVIOUS
  <1> DEFINE account(n, f, i) ==
               [name |-> n, folder |-> f, admin |-> TRUE, born |-> i]
  <1>1. PICK m, n \in Names, f, g \in Folders :
          m # n /\ f # g /\ users = {account(m, f, 1), account(n, g, 2)}
    BY DEF Init
  <1> DEFINE first == account(m, f, 1)
             second == account(n, g, 2)
  <1>2. /\ first \in Account /\ second \in Account
        /\ first.name # second.name /\ first.folder # second.folder
        /\ first.admin /\ first.born = 1 /\ second.born = 2
    BY <1>1, AccountsAssumption DEF Account, Births
  <1>3. users = {first, second}
    BY <1>1
  <1> HIDE DEF account, first, second
  <1>4. TypeOK
    <2>1. users \subseteq Account
      BY <1>2, <1>3
    <2>2. data \in [Apps -> SUBSET [key : Names \cup Folders, born : Births]]
      BY DEF Init
    <2>3. nextBorn \in 1..(MaxAccounts + 1)
      BY AccountsAssumption DEF Init
    <2>4. pc \in [Slots -> {"idle", "writing", "purging"}]
      BY DEF Init
    <2>5. me \in [Slots -> Account \cup {Nobody}]
      BY DEF Init
    <2>6. step \in [Slots -> 0..(Len(Purges) + 1)]
      BY AccountsAssumption DEF Init
    <2>7. \A s \in Slots : step[s] = 0 <=> ~Deleting(s)
      BY DEF Init, Deleting
    <2>8. asked \subseteq Births /\ raced \subseteq Births /\ spared \subseteq Apps \X Births
      BY DEF Init
    <2> QED
      BY <2>1, <2>2, <2>3, <2>4, <2>5, <2>6, <2>7, <2>8 DEF TypeOK
  <1>5. AccountsDistinct
    BY <1>2, <1>3 DEF AccountsDistinct
  <1>6. AdminRemains
    BY <1>2, <1>3 DEF AdminRemains, Admins
  <1>7. Known
    BY <1>2, <1>3 DEF Known, Init, Deleting
  <1>8. Owned /\ Cleared
    BY DEF Owned, Cleared, Init, Deleting
  <1> QED
    BY <1>4, <1>5, <1>6, <1>7, <1>8 DEF IInv

-----------------------------------------------------------------------------
\* How users.json changes: an account is added under a new name and with a new
\* folder, or the accounts that have one name and are not the last
\* administrator go.
LEMMA UsersChange ==
    ASSUME [Next]_vars
    PROVE  \/ users' = users
           \/ \E n \in Names : Register(n)
           \/ \E s \in Slots : RemoveUser(s)
  BY DEF Next, vars, slotVars, BeginWrite, Write, BeginDelete, Purge, PurgeLeaves,
         PurgeFails, Fail

\* An account that is not the last administrator leaves one behind.
LEMMA AnotherAdmin ==
    ASSUME NEW a \in Admins, ~LastAdmin(a)
    PROVE  \E b \in Admins : b # a
  <1> SUFFICES ASSUME \A b \in Admins : b = a
               PROVE  FALSE
    OBVIOUS
  <1>1. Admins = {a}
    OBVIOUS
  <1>2. Cardinality({a}) = 1
    BY FS_Singleton
  <1>3. a.admin
    BY DEF Admins
  <1> QED
    BY <1>1, <1>2, <1>3 DEF LastAdmin

\* Registering adds one account, born next, under a name and with a folder that
\* no account has.
LEMMA NewAccount ==
    ASSUME TypeOK, NEW n \in Names, Register(n)
    PROVE  \E new \in Account :
              /\ users' = users \cup {new}
              /\ new.born = nextBorn /\ nextBorn' = nextBorn + 1
              /\ \A a \in users : a.name # new.name /\ a.folder # new.folder
  <1>1. PICK f \in FreeFolders :
          users' = users \cup {[name |-> n, folder |-> f, admin |-> FALSE,
                                born |-> nextBorn]}
    BY DEF Register
  <1> DEFINE new == [name |-> n, folder |-> f, admin |-> FALSE, born |-> nextBorn]
  <1>2. new \in Account
    BY AccountsAssumption DEF TypeOK, Register, Account, Births, FreeFolders
  <1>3. \A a \in users : a.name # n /\ a.folder # f
    BY <1>1 DEF Register, Named, FreeFolders
  <1>4. nextBorn' = nextBorn + 1
    BY DEF Register
  <1>5. new.name = n /\ new.folder = f /\ new.born = nextBorn
    OBVIOUS
  <1>6. users' = users \cup {new}
    BY <1>1
  <1> HIDE DEF new
  <1> QED
    BY <1>2, <1>3, <1>4, <1>5, <1>6

\* Names and folders stay distinct.
LEMMA DistinctStep == TypeOK /\ AccountsDistinct /\ [Next]_vars => AccountsDistinct'
  <1> SUFFICES ASSUME TypeOK, AccountsDistinct, [Next]_vars
               PROVE  AccountsDistinct'
    OBVIOUS
  <1>1. CASE users' = users
    BY <1>1 DEF AccountsDistinct
  <1>2. ASSUME NEW n \in Names, Register(n) PROVE AccountsDistinct'
    <2>1. PICK new \in Account :
            /\ users' = users \cup {new}
            /\ \A a \in users : a.name # new.name /\ a.folder # new.folder
      BY <1>2, NewAccount
    <2> QED
      BY <2>1 DEF AccountsDistinct
  <1>3. ASSUME NEW s \in Slots, RemoveUser(s) PROVE AccountsDistinct'
    BY <1>3 DEF RemoveUser, RemoveAll, AccountsDistinct
  <1> QED
    BY <1>1, <1>2, <1>3, UsersChange

\* An administrator stays.
LEMMA AdminStep == AccountsDistinct /\ AdminRemains /\ [Next]_vars => AdminRemains'
  <1> SUFFICES ASSUME AccountsDistinct, AdminRemains, [Next]_vars
               PROVE  AdminRemains'
    OBVIOUS
  <1>1. CASE users' = users
    BY <1>1 DEF AdminRemains, Admins
  <1>2. ASSUME NEW n \in Names, Register(n) PROVE AdminRemains'
    BY <1>2 DEF Register, AdminRemains, Admins
  <1>3. ASSUME NEW s \in Slots, RemoveUser(s) PROVE AdminRemains'
    <2> DEFINE gone == {a \in Active(s) : a.folder = me[s].folder /\ ~LastAdmin(a)}
    <2>1. users' = users \ gone
      BY <1>3 DEF RemoveUser, RemoveAll
    <2>2. CASE gone \cap Admins = {}
      BY <2>1, <2>2 DEF AdminRemains, Admins
    <2>3. ASSUME NEW a \in gone \cap Admins PROVE AdminRemains'
      <3>1. PICK b \in Admins : b # a
        BY <2>3, AnotherAdmin
      <3>2. b \notin gone
        BY <2>3, <3>1 DEF Active, Named, Admins, AccountsDistinct
      <3> QED
        BY <2>1, <3>1, <3>2 DEF AdminRemains, Admins
    <2> QED
      BY <2>2, <2>3
  <1> QED
    BY <1>1, <1>2, <1>3, UsersChange
-----------------------------------------------------------------------------
\* Every step keeps the types.  What a request writes has the type of the
\* record the request works with.
LEMMA TypeStep == TypeOK /\ Known /\ [Next]_vars => TypeOK'
  <1> SUFFICES ASSUME TypeOK, Known, [Next]_vars PROVE TypeOK'
    OBVIOUS
  <1>0. Len(Purges) \in Nat
    BY AccountsAssumption
  <1>1. ASSUME NEW n \in Names, Register(n) PROVE TypeOK'
    <2>1. users' \subseteq Account
      BY <1>1, NewAccount DEF TypeOK
    <2>2. nextBorn' \in 1..(MaxAccounts + 1)
      BY <1>1, AccountsAssumption DEF TypeOK, Register
    <2> QED
      BY <1>1, <2>1, <2>2 DEF TypeOK, Register, slotVars, Deleting
  <1>2. ASSUME NEW s \in Slots, NEW a \in users, BeginWrite(s, a) PROVE TypeOK'
    BY <1>2 DEF TypeOK, BeginWrite, Begin, Deleting
  <1>3. ASSUME NEW s \in Slots, NEW a \in users, BeginDelete(s, a) PROVE TypeOK'
    <2>1. step' = [step EXCEPT ![s] = 1] /\ step' \in [Slots -> 0..(Len(Purges) + 1)]
      BY <1>0, <1>3 DEF TypeOK, BeginDelete
    <2>2. a.born \in Births /\ a \in Account
      BY DEF TypeOK, Account
    <2> QED
      BY <1>3, <2>1, <2>2 DEF TypeOK, BeginDelete, Begin, Deleting
  <1>4. ASSUME NEW s \in Slots, NEW app \in Apps, Write(s, app) PROVE TypeOK'
    <2>1. me[s] \in Account
      BY <1>4 DEF Write, Known
    <2>2. me[s].born \in Births /\ Key(app, me[s]) \in Names \cup Folders
      BY <2>1 DEF Account, Key
    <2>3. data' \in [Apps -> SUBSET [key : Names \cup Folders, born : Births]]
      BY <1>4, <2>2 DEF TypeOK, Write
    <2>4. raced' \subseteq Births
      BY <1>4, <2>2 DEF TypeOK, Write
    <2>5. /\ step' \in [Slots -> 0..(Len(Purges) + 1)]
          /\ pc' \in [Slots -> {"idle", "writing", "purging"}]
          /\ me' \in [Slots -> Account \cup {Nobody}]
          /\ \A t \in Slots : step'[t] = 0 <=> ~(pc'[t] = "purging")
      BY <1>0, <1>4 DEF TypeOK, Write, Done, Deleting
    <2> QED
      BY <1>4, <2>3, <2>4, <2>5 DEF TypeOK, Write, Deleting
  <1>5. ASSUME NEW s \in Slots, Purge(s) PROVE TypeOK'
    <2>1. data' \in [Apps -> SUBSET [key : Names \cup Folders, born : Births]]
      BY <1>5 DEF TypeOK, Purge, Removed
    <2>2. /\ step' \in [Slots -> 0..(Len(Purges) + 1)]
          /\ \A t \in Slots : step'[t] = 0 <=> ~(pc'[t] = "purging")
      BY <1>0, <1>5 DEF TypeOK, Purge, Purging, Deleting
    <2> QED
      BY <1>5, <2>1, <2>2 DEF TypeOK, Purge, Deleting
  <1>9. ASSUME NEW s \in Slots, PurgeLeaves(s) PROVE TypeOK'
    <2>1. App(s) \in Apps
      BY <1>9, AccountsAssumption DEF PurgeLeaves, Purging, App, Deleting, TypeOK
    <2>2. PICK kept \in SUBSET Doomed(s) :
             /\ data' = [data EXCEPT ![App(s)] = @ \ (Doomed(s) \ kept)]
             /\ spared' = spared \cup
                   {<<App(s), d.born>> : d \in {k \in kept : k.born = me[s].born}}
      BY <1>9 DEF PurgeLeaves, Removed
    <2>3. data' \in [Apps -> SUBSET [key : Names \cup Folders, born : Births]]
      BY <2>2 DEF TypeOK
    <2>4. \A d \in kept : d.born \in Births
      BY <2>1 DEF Doomed, TypeOK
    <2>5. spared' \subseteq Apps \X Births
      BY <2>1, <2>2, <2>4 DEF TypeOK
    <2>6. /\ step' \in [Slots -> 0..(Len(Purges) + 1)]
          /\ \A t \in Slots : step'[t] = 0 <=> ~(pc'[t] = "purging")
      BY <1>0, <1>9 DEF TypeOK, PurgeLeaves, Purging, Deleting
    <2> QED
      BY <1>9, <2>3, <2>5, <2>6 DEF TypeOK, PurgeLeaves, Deleting
  <1>10. ASSUME NEW s \in Slots, PurgeFails(s) PROVE TypeOK'
    <2>1. data' \in [Apps -> SUBSET [key : Names \cup Folders, born : Births]]
      BY ZenonT(40), <1>10 DEF TypeOK, PurgeFails, Removed
    <2>2. /\ step' \in [Slots -> 0..(Len(Purges) + 1)]
          /\ pc' \in [Slots -> {"idle", "writing", "purging"}]
          /\ me' \in [Slots -> Account \cup {Nobody}]
          /\ \A t \in Slots : step'[t] = 0 <=> ~(pc'[t] = "purging")
      BY <1>0, <1>10 DEF TypeOK, PurgeFails, Done, Deleting
    <2> QED
      BY <1>10, <2>1, <2>2 DEF TypeOK, PurgeFails, Deleting
  <1>6. ASSUME NEW s \in Slots, RemoveUser(s) PROVE TypeOK'
    <2>1. /\ step' \in [Slots -> 0..(Len(Purges) + 1)]
          /\ pc' \in [Slots -> {"idle", "writing", "purging"}]
          /\ me' \in [Slots -> Account \cup {Nobody}]
          /\ \A t \in Slots : step'[t] = 0 <=> ~(pc'[t] = "purging")
      BY <1>0, <1>6 DEF TypeOK, RemoveUser, RemoveAll, Done, Deleting
    <2>2. users' \subseteq Account /\ raced' \subseteq Births
      BY <1>6 DEF TypeOK, RemoveUser, RemoveAll, Active, Named, Account
    <2> QED
      BY <1>6, <2>1, <2>2 DEF TypeOK, RemoveUser, RemoveAll, Deleting
  <1>7. ASSUME NEW s \in Slots, Fail(s) PROVE TypeOK'
    BY <1>0, <1>7 DEF TypeOK, Fail, Done, Deleting
  <1>8. CASE UNCHANGED vars
    BY <1>8 DEF TypeOK, vars, slotVars, Deleting
  <1> QED
    BY <1>1, <1>2, <1>3, <1>4, <1>5, <1>6, <1>7, <1>8, <1>9, <1>10 DEF Next

\* A birth is given once, so the record a request works with stays the only one
\* of its birth.
LEMMA KnownStep == TypeOK /\ Known /\ [Next]_vars => Known'
  <1> SUFFICES ASSUME TypeOK, Known, [Next]_vars PROVE Known'
    OBVIOUS
  <1>0. nextBorn \in Nat /\ \A a \in Account : a.born \in Nat
    BY AccountsAssumption DEF TypeOK, Account, Births
  <1>1. ASSUME NEW n \in Names, Register(n) PROVE Known'
    <2>1. PICK new \in Account :
            /\ users' = users \cup {new}
            /\ new.born = nextBorn /\ nextBorn' = nextBorn + 1
      BY <1>1, NewAccount
    <2>2. \A a \in users : a.born < new.born
      BY <2>1 DEF Known
    <2>3. \A a \in users' : a.born < nextBorn'
      BY <1>0, <2>1, <2>2 DEF TypeOK
    <2>4. \A a, b \in users' : a.born = b.born => a = b
      BY <1>0, <2>1, <2>2 DEF Known, TypeOK
    <2>5. ASSUME NEW s \in Slots, pc[s] # "idle"
          PROVE  /\ me[s] \in Account
                 /\ me[s].born < nextBorn'
                 /\ \A a \in users' : a.born = me[s].born => a = me[s]
      BY <1>0, <2>1, <2>5 DEF Known
    <2>6. UNCHANGED <<pc, me, asked, spared>>
      BY <1>1 DEF Register, slotVars
    <2> QED
      BY <2>3, <2>4, <2>5, <2>6 DEF Known, Deleting
  <1>2. ASSUME NEW s \in Slots, NEW a \in users, BeginWrite(s, a) PROVE Known'
    BY <1>2 DEF Known, TypeOK, BeginWrite, Begin, Deleting
  <1>3. ASSUME NEW s \in Slots, NEW a \in users, BeginDelete(s, a) PROVE Known'
    BY <1>3 DEF Known, TypeOK, BeginDelete, Begin, Deleting
  <1>4. ASSUME NEW s \in Slots, NEW app \in Apps, Write(s, app) PROVE Known'
    BY <1>4 DEF Known, TypeOK, Write, Done, Deleting
  <1>5. ASSUME NEW s \in Slots, Purge(s) PROVE Known'
    BY <1>5 DEF Known, TypeOK, Purge, Deleting
  <1>9. ASSUME NEW s \in Slots, PurgeLeaves(s) PROVE Known'
    <2>1. me[s].born \in asked /\ UNCHANGED <<users, nextBorn, pc, me, asked>>
      BY <1>9 DEF Known, PurgeLeaves, Purging
    <2>2. \A x \in spared' : x \in spared \/ x[2] = me[s].born
      BY <1>9 DEF PurgeLeaves
    <2>3. \A app \in Apps, b \in Births : <<app, b>> \in spared' => b \in asked
      BY <2>1, <2>2 DEF Known
    <2> QED
      BY <2>1, <2>3 DEF Known, Deleting
  <1>10. ASSUME NEW s \in Slots, PurgeFails(s) PROVE Known'
    BY <1>10 DEF Known, TypeOK, PurgeFails, Done, Deleting
  <1>6. ASSUME NEW s \in Slots, RemoveUser(s) PROVE Known'
    BY <1>6 DEF Known, TypeOK, RemoveUser, RemoveAll, Done, Deleting
  <1>7. ASSUME NEW s \in Slots, Fail(s) PROVE Known'
    BY <1>7 DEF Known, TypeOK, Fail, Done, Deleting
  <1>8. CASE UNCHANGED vars
    BY <1>8 DEF Known, vars, slotVars, Deleting
  <1> QED
    BY <1>1, <1>2, <1>3, <1>4, <1>5, <1>6, <1>7, <1>8, <1>9, <1>10 DEF Next
-----------------------------------------------------------------------------
\* What is excused stays so.
LEMMA RacedGrows == [Next]_vars => raced \subseteq raced' /\ spared \subseteq spared'
  BY DEF Next, vars, slotVars, Register, BeginWrite, BeginDelete, Write, Purge,
         PurgeLeaves, PurgeFails, RemoveUser, RemoveAll, Fail

\* Data stays its account's until its account goes; then the deletion has
\* cleared it from every application.
LEMMA OwnedStep == IInv /\ [Next]_vars => Owned'
  <1> SUFFICES ASSUME IInv, [Next]_vars PROVE Owned'
    OBVIOUS
  <1> USE DEF IInv
  <1>1. CASE users \subseteq users' /\ \A app \in Apps : data'[app] \subseteq data[app]
    BY <1>1, RacedGrows DEF Owned, Key, Excused
  <1>2. ASSUME NEW s \in Slots, NEW app \in Apps, Write(s, app) PROVE Owned'
    <2> DEFINE new == [key |-> Key(app, me[s]), born |-> me[s].born]
    <2>1. /\ data' = [data EXCEPT ![app] = @ \cup {new}]
          /\ me[s] \notin users => me[s].born \in raced'
          /\ users' = users
      BY <1>2 DEF Write
    <2>2. new.key = Key(app, me[s]) /\ new.born = me[s].born
      OBVIOUS
    <2> HIDE DEF new
    <2>3. ASSUME NEW b \in Apps, NEW d \in data'[b]
          PROVE  \/ Excused(b, d)'
                 \/ \E a \in users' : a.born = d.born /\ d.key = Key(b, a)
      <3>1. CASE d \in data[b]
        BY <2>1, <3>1, RacedGrows DEF Owned, Excused
      <3>2. CASE d \notin data[b]
        <4>1. b = app /\ d = new
          BY <2>1, <3>2 DEF TypeOK
        <4> QED
          BY <2>1, <2>2, <4>1 DEF Excused
      <3> QED
        BY <3>1, <3>2
    <2> QED
      BY <2>1, <2>3 DEF Owned, Key
  <1>3. ASSUME NEW s \in Slots, RemoveUser(s) PROVE Owned'
    <2> DEFINE gone == {a \in Active(s) : a.folder = me[s].folder /\ ~LastAdmin(a)}
    <2>1. /\ Deleting(s) /\ step[s] > Len(Purges) /\ data' = data
          /\ users' = users \ gone
          /\ \A a \in gone : a # me[s] => a.born \in raced'
      BY <1>3 DEF RemoveUser, RemoveAll
    <2> HIDE DEF gone
    <2>2. ASSUME NEW app \in Apps, NEW d \in data[app], d.born = me[s].born
          PROVE  Excused(app, d)
      <3>1. PICK i \in DOMAIN Purges : Purges[i] = app
        BY AccountsAssumption
      <3>2. i < step[s]
        BY <2>1, AccountsAssumption DEF TypeOK
      <3> QED
        BY <2>1, <2>2, <3>1, <3>2 DEF Cleared
    <2>3. ASSUME NEW app \in Apps, NEW d \in data'[app]
          PROVE  \/ Excused(app, d)'
                 \/ \E a \in users' : a.born = d.born /\ d.key = Key(app, a)
      <3>1. CASE Excused(app, d)
        BY <3>1, RacedGrows DEF Excused
      <3>2. CASE ~Excused(app, d)
        <4>1. PICK a \in users : a.born = d.born /\ d.key = Key(app, a)
          BY <2>1, <3>2 DEF Owned
        <4>2. CASE a \in gone
          BY <2>1, <2>2, <4>1, <4>2, RacedGrows DEF Excused
        <4>3. CASE a \notin gone
          BY <2>1, <4>1, <4>3
        <4> QED
          BY <4>2, <4>3
      <3> QED
        BY <3>1, <3>2
    <2> QED
      BY <2>3 DEF Owned, Key
  <1>4. ASSUME NEW s \in Slots, Purge(s) \/ PurgeLeaves(s) \/ PurgeFails(s) PROVE Owned'
    <2>1. users' = users /\ \A app \in Apps : data'[app] \subseteq data[app]
      BY ZenonT(40), <1>4 DEF Purge, PurgeLeaves, PurgeFails, Removed, TypeOK
    <2> QED
      BY <1>1, <2>1
  <1>5. CASE UNCHANGED <<users, data>>
    BY <1>1, <1>5
  <1>6. ASSUME NEW n \in Names, Register(n) PROVE Owned'
    BY <1>1, <1>6 DEF Register
  <1> QED
    BY <1>2, <1>3, <1>4, <1>5, <1>6
       DEF Next, vars, slotVars, BeginWrite, BeginDelete, Fail

\* The application a deletion has just been through holds none of its
\* account's data but excused data: that data is under the key the deletion was
\* told.
LEMMA PurgeClears ==
    ASSUME IInv, NEW s \in Slots, Purge(s) \/ PurgeLeaves(s),
           NEW app, app = App(s), NEW d \in data'[app], d.born = me[s].born
    PROVE  Excused(app, d)'
  <1> USE DEF IInv
  <1>1. app \in Apps
    BY AccountsAssumption DEF Purge, PurgeLeaves, Purging, App, TypeOK, Deleting
  <1>2. /\ d \in data[app] /\ d \in [key : Names \cup Folders, born : Births]
        /\ raced \subseteq raced' /\ spared \subseteq spared'
    BY <1>1 DEF Purge, PurgeLeaves, Removed, TypeOK
  <1>3. \A a \in users : a.born = d.born => a = me[s]
    BY DEF Known, Purge, PurgeLeaves, Purging, Deleting
  <1>4. CASE d \notin Doomed(s)
    BY <1>1, <1>2, <1>3, <1>4 DEF Owned, Excused, Doomed
  <1>5. CASE d \in Doomed(s)
    <2>1. PurgeLeaves(s)
      BY <1>1, <1>2, <1>5 DEF Purge, Removed, TypeOK
    <2>2. PICK kept \in SUBSET Doomed(s) :
             /\ data' = [data EXCEPT ![App(s)] = @ \ (Doomed(s) \ kept)]
             /\ spared' = spared \cup
                   {<<App(s), k.born>> : k \in {k \in kept : k.born = me[s].born}}
      BY <2>1 DEF PurgeLeaves, Removed
    <2>3. d \in kept
      BY <1>1, <1>5, <2>2 DEF TypeOK
    <2>4. <<app, d.born>> \in spared'
      BY <2>2, <2>3
    <2> QED
      BY <2>4 DEF Excused
  <1> QED
    BY <1>4, <1>5

\* What a deletion has cleared stays clear: a request that writes for the same
\* account beside it is counted as raced.
LEMMA ClearedStep == IInv /\ [Next]_vars => Cleared'
  <1> SUFFICES ASSUME IInv, [Next]_vars,
                      NEW s \in Slots, Deleting(s)',
                      NEW i \in DOMAIN Purges, i < step'[s],
                      NEW d \in data'[Purges[i]], d.born = me'[s].born
               PROVE  Excused(Purges[i], d)'
    BY DEF Cleared
  <1> USE DEF IInv
  <1>0. Purges[i] \in Apps /\ i \in 1..Len(Purges)
    BY AccountsAssumption
  <1>1. CASE /\ Deleting(s) /\ step'[s] = step[s] /\ me'[s] = me[s]
             /\ d \in data[Purges[i]]
    BY <1>1, RacedGrows DEF Cleared, Excused
  <1>2. ASSUME NEW t \in Slots, NEW a \in users, BeginDelete(t, a)
        PROVE  Excused(Purges[i], d)'
    <2>1. CASE s = t
      BY <1>0, <1>2, <2>1 DEF BeginDelete, TypeOK
    <2>2. CASE s # t
      BY <1>1, <1>2, <2>2 DEF BeginDelete, Begin, TypeOK, Deleting
    <2> QED
      BY <2>1, <2>2
  <1>3. ASSUME NEW t \in Slots, NEW a \in users, BeginWrite(t, a)
        PROVE  Excused(Purges[i], d)'
    <2>1. s # t
      BY <1>3 DEF BeginWrite, Begin, TypeOK, Deleting
    <2> QED
      BY <1>1, <1>3, <2>1 DEF BeginWrite, Begin, TypeOK, Deleting
  <1>4. ASSUME NEW t \in Slots, NEW app \in Apps, Write(t, app)
        PROVE  Excused(Purges[i], d)'
    <2>1. s # t
      BY <1>4 DEF Write, Done, TypeOK, Deleting
    <2>2. Deleting(s) /\ step'[s] = step[s] /\ me'[s] = me[s]
      BY <1>4, <2>1 DEF Write, Done, TypeOK, Deleting
    <2>3. CASE me[t].born = me[s].born
      BY <1>4, <2>2, <2>3 DEF Write, Excused
    <2>4. CASE me[t].born # me[s].born
      <3> DEFINE new == [key |-> Key(app, me[t]), born |-> me[t].born]
      <3>1. data' = [data EXCEPT ![app] = @ \cup {new}] /\ new.born = me[t].born
        BY <1>4 DEF Write
      <3> HIDE DEF new
      <3>2. d # new
        BY <2>2, <2>4, <3>1
      <3>3. d \in data[Purges[i]]
        BY <1>0, <3>1, <3>2 DEF TypeOK
      <3> QED
        BY <1>1, <2>2, <3>3
    <2> QED
      BY <2>3, <2>4
  <1>5. ASSUME NEW t \in Slots, Purge(t) \/ PurgeLeaves(t)
        PROVE  Excused(Purges[i], d)'
    <2>1. /\ Deleting(s) /\ me' = me
          /\ Purging(t) /\ step' = [step EXCEPT ![t] = @ + 1]
      BY <1>5 DEF Purge, PurgeLeaves, Deleting
    <2>4. \E gone : data' = [data EXCEPT ![App(t)] = @ \ gone]
      BY <1>5 DEF Purge, PurgeLeaves, Removed
    <2>5. d \in data[Purges[i]]
      BY <1>0, <2>4 DEF TypeOK
    <2>2. CASE i < step[s]
      BY <2>1, <2>2, <2>5, RacedGrows DEF Cleared, Excused
    <2>3. CASE ~(i < step[s])
      <3>1. s = t /\ i = step[s]
        BY <1>0, <2>1, <2>3 DEF TypeOK
      <3>2. Purges[i] = App(t)
        BY <3>1 DEF App
      <3> QED
        BY <1>5, <2>1, <3>1, <3>2, PurgeClears
    <2> QED
      BY <2>2, <2>3
  <1>6. ASSUME NEW t \in Slots, RemoveUser(t) \/ Fail(t) \/ PurgeFails(t)
        PROVE  Excused(Purges[i], d)'
    <2>1. s # t /\ d \in data[Purges[i]]
      BY SMTT(30), <1>0, <1>6 DEF RemoveUser, RemoveAll, Fail, PurgeFails, Removed, Done, TypeOK,
                        Deleting
    <2> QED
      BY <1>1, <1>6, <2>1
         DEF RemoveUser, RemoveAll, Fail, PurgeFails, Done, TypeOK, Deleting
  <1>7. CASE UNCHANGED <<data, slotVars>>
    BY <1>1, <1>7 DEF slotVars, Deleting
  <1>8. ASSUME NEW n \in Names, Register(n) PROVE Excused(Purges[i], d)'
    BY <1>7, <1>8 DEF Register
  <1> QED
    BY <1>2, <1>3, <1>4, <1>5, <1>6, <1>7, <1>8 DEF Next, vars

-----------------------------------------------------------------------------
\* The invariant holds in every reachable state.
LEMMA Invariance == Spec => []IInv
  <1>1. IInv /\ [Next]_vars => IInv'
    BY TypeStep, DistinctStep, AdminStep, KnownStep, OwnedStep, ClearedStep DEF IInv
  <1> QED
    BY InitInv, <1>1, PTL DEF Spec

\* Every variable keeps its type: what a request writes has the key and the
\* birth of an account, and a deletion never turns to more applications than
\* there are (account_api.py:133).
THEOREM TypeCorrect == Spec => []TypeOK
  BY Invariance, PTL DEF IInv

\* Any number of administrators may delete their accounts at the same time and
\* pass the first check: the second leaves one (account_api.py:130).
THEOREM AdministratorRemains == Spec => []AdminRemains
  BY Invariance, PTL DEF IInv

\* No two accounts ever share a name or a folder, whatever is registered and
\* deleted in between (account_api.py:209).
THEOREM DistinctAccounts == Spec => []AccountsDistinct
  BY Invariance, PTL DEF IInv

\* A deleted account leaves only data that was written beside its deletion, or
\* that an application failed to remove and kept quiet about, in whatever order
\* and of however many applications the deletion purges (account_api.py:133).
THEOREM NothingLeft == Spec => []NothingLeftBehind
  <1>1. IInv => NothingLeftBehind
    BY DEF IInv, Owned, Excused, NothingLeftBehind
  <1> QED
    BY Invariance, <1>1, PTL

\* Data disappears only in a deletion, and only data of an account whose
\* deletion was confirmed, or that was left behind before, or the data of a
\* later account in the place of one whose deletion is under way
\* (account_api.py:142).
THEOREM ConfirmedOnly == Spec => OnlyConfirmedDataDeleted
  <1>1. ASSUME IInv, Next, NEW app \in Apps, NEW d \in data[app] \ data'[app]
        PROVE  \/ d.born \in asked \cup raced
               \/ \E s \in Slots : Deleting(s) /\ me[s] \notin users
                                   /\ Key(app, me[s]) = d.key
    <2> USE DEF IInv
    <2>1. PICK s \in Slots : Purge(s) \/ PurgeLeaves(s) \/ PurgeFails(s)
      BY ZenonT(40), <1>1 DEF Next, TypeOK, Register, BeginWrite, BeginDelete, Write,
                  RemoveUser, RemoveAll, Fail
    <2>5. Deleting(s) /\ \E gone \in SUBSET Doomed(s) :
             data' = [data EXCEPT ![App(s)] = @ \ gone]
      BY <2>1 DEF Purge, PurgeLeaves, PurgeFails, Purging, Removed
    <2>2. Deleting(s) /\ d.key = Key(app, me[s])
      BY <1>1, <2>5 DEF Doomed, TypeOK
    <2>3. CASE me[s] \notin users
      BY <2>2, <2>3
    <2>4. CASE me[s] \in users
      <3>1. CASE Excused(app, d)
        <4>1. d.born \in Births
          BY <1>1 DEF TypeOK
        <4> QED
          BY <1>1, <3>1, <4>1 DEF Known, Excused
      <3>2. CASE ~Excused(app, d)
        <4>1. PICK a \in users : a.born = d.born /\ d.key = Key(app, a)
          BY <1>1, <3>2 DEF Owned
        <4>2. a = me[s]
          BY <1>1, <2>2, <2>4, <4>1 DEF Key, AccountsDistinct
        <4> QED
          BY <1>1, <2>2, <4>1, <4>2 DEF Known
      <3> QED
        BY <3>1, <3>2
    <2> QED
      BY <2>3, <2>4
  <1>2. IInv /\ [Next]_vars =>
          [\A app \in Apps : \A d \in data[app] \ data'[app] :
              \/ d.born \in asked \cup raced
              \/ \E s \in Slots : Deleting(s) /\ me[s] \notin users
                                  /\ Key(app, me[s]) = d.key]_vars
    BY <1>1
  <1> QED
    BY Invariance, <1>2, PTL DEF Spec, OnlyConfirmedDataDeleted
=============================================================================
