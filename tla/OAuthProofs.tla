----------------------------- MODULE OAuthProofs -----------------------------
(***************************************************************************)
(* Proofs about OAuth for every set of request threads and users and any    *)
(* number of codes and issuances.                                           *)
(*                                                                          *)
(* The inductive invariant adds four facts.  Numbered: what is named by a   *)
(* number has been created, and a request works for the user that its       *)
(* number belongs to.  Apart: two requests never store tokens of one        *)
(* issuance.  Spent: a consumed grant is gone and will not be stored again; *)
(* a token that is still to be stored is not there yet.  Overlapped: an     *)
(* issuance beside a revocation of its user is void, and the live tokens of *)
(* other issuances are those the revocation listed and is to delete.        *)
(***************************************************************************)
EXTENDS OAuth, SequenceTheorems, TLAPS

\* The tokens that s has yet to store.
Ahead(s) == {t \in Token : t.issue = issue[s] /\
                (\/ pc[s] = "set access"
                 \/ pc[s] \in {"index access", "set refresh"} /\ t.kind = "refresh")}

Numbered ==
    /\ Len(grantOf) = Len(issueUser)
    /\ Len(issueUser) =< MaxIssues
    /\ Len(codeUser) =< MaxCodes
    /\ \A c \in codes : c.code =< Len(codeUser)
    /\ \A t \in tokens : t.issue =< Len(issueUser)
    /\ \A s \in Slots :
          /\ pc[s] # "idle" => user[s] \in Users
          /\ pc[s] = "checked" => grant[s] \in Code
          /\ Issuing(s) => /\ issue[s] \in 1..Len(issueUser)
                           /\ user[s] = issueUser[issue[s]]

Apart == \A s, t \in Slots : Issuing(s) /\ Issuing(t) /\ issue[s] = issue[t] => s = t

Spent ==
    /\ \A i \in DOMAIN grantOf :
          /\ grantOf[i] \notin codes \cup tokens
          /\ grantOf[i] \in Code => grantOf[i].code =< Len(codeUser)
          /\ grantOf[i] \in Token => grantOf[i].issue =< Len(issueUser)
    /\ \A s \in Slots : \A t \in Ahead(s) :
          t \notin tokens /\ \A i \in DOMAIN grantOf : grantOf[i] # t

Overlapped ==
    /\ \A s, t \in Slots :
          Issuing(s) /\ Revoking(t) /\ user[s] = user[t] => issue[s] \in void
    /\ \A s \in Slots : Revoking(s) =>
          \A t \in LiveTokens(user[s]) :
              t.issue \in void \/ (pc[s] = "listed" /\ t \in listed[s])

IInv == TokensSound /\ Numbered /\ Apart /\ Spent /\ Overlapped
-----------------------------------------------------------------------------
\* The invariant holds at the start.
LEMMA InitInv == Init => IInv
  <1> SUFFICES ASSUME Init PROVE IInv
    OBVIOUS
  <1>1. TypeOK
    BY OAuthAssumption DEF Init, TypeOK
  <1>2. GrantsUsedOnce /\ IndexCoversTokens
    BY DEF Init, GrantsUsedOnce, IndexCoversTokens
  <1>3. Numbered /\ Apart /\ Overlapped
    BY OAuthAssumption DEF Init, Numbered, Apart, Overlapped, Issuing, Revoking
  <1>4. Spent
    BY DEF Init, Spent, Ahead
  <1> QED
    BY <1>1, <1>2, <1>3, <1>4 DEF IInv, TokensSound

-----------------------------------------------------------------------------
\* What is named by a number has been created.
LEMMA Named ==
    ASSUME TypeOK, Numbered
    PROVE  /\ Len(codeUser) \in Nat /\ Len(issueUser) \in Nat
           /\ DOMAIN grantOf = 1..Len(issueUser)
           /\ \A c \in codes : c.code \in 1..Len(codeUser) /\ codeUser[c.code] \in Users
           /\ \A t \in tokens : t.issue \in 1..Len(issueUser) /\ issueUser[t.issue] \in Users
           /\ \A s \in Slots : Issuing(s) =>
                 issue[s] \in Issues /\ \A kind \in Kinds : Of(s, kind) \in Token
  <1>0. Len(codeUser) \in Nat /\ Len(issueUser) \in Nat
    BY LenProperties DEF TypeOK
  <1>5. DOMAIN grantOf = 1..Len(issueUser)
    BY LenProperties DEF TypeOK, Numbered
  <1>1. ASSUME NEW c \in codes
        PROVE  c.code \in 1..Len(codeUser) /\ codeUser[c.code] \in Users
    <2>1. c.code \in 1..MaxCodes
      BY DEF TypeOK, Code
    <2>2. c.code =< Len(codeUser)
      BY DEF Numbered
    <2>3. c.code \in 1..Len(codeUser)
      BY <1>0, <2>1, <2>2, OAuthAssumption
    <2> QED
      BY <2>3, ElementOfSeq, Zenon DEF TypeOK
  <1>2. ASSUME NEW t \in tokens
        PROVE  t.issue \in 1..Len(issueUser) /\ issueUser[t.issue] \in Users
    <2>1. t.issue \in 1..MaxIssues
      BY DEF TypeOK, Token, Issues
    <2>2. t.issue =< Len(issueUser)
      BY DEF Numbered
    <2>3. t.issue \in 1..Len(issueUser)
      BY <1>0, <2>1, <2>2, OAuthAssumption
    <2> QED
      BY <2>3, ElementOfSeq, Zenon DEF TypeOK
  <1>3. ASSUME NEW s \in Slots, Issuing(s) PROVE issue[s] \in Issues
    <2>1. issue[s] \in 1..Len(issueUser) /\ Len(issueUser) =< MaxIssues
      BY <1>3 DEF Numbered
    <2> QED
      BY <1>0, <2>1, OAuthAssumption DEF Issues
  <1>4. ASSUME NEW s \in Slots, Issuing(s), NEW kind \in Kinds
        PROVE  Of(s, kind) \in Token
    BY <1>3, <1>4 DEF Of, Token
  <1> QED
    BY <1>0, <1>5, <1>1, <1>2, <1>3, <1>4

\* One more element at the end of a sequence.
LEMMA Appended ==
    ASSUME NEW S, NEW seq \in Seq(S), NEW e \in S
    PROVE  /\ Append(seq, e) \in Seq(S)
           /\ Len(Append(seq, e)) = Len(seq) + 1
           /\ \A i \in 1..Len(seq) : Append(seq, e)[i] = seq[i]
           /\ Append(seq, e)[Len(seq) + 1] = e
           /\ DOMAIN seq = 1..Len(seq)
           /\ DOMAIN Append(seq, e) = 1..(Len(seq) + 1)
           /\ Len(seq) \in Nat
  OBVIOUS

\* The types after an issuance has begun.
LEMMA BeginTypes ==
    ASSUME TypeOK, Numbered, NEW s \in Slots, NEW u \in Users,
           NEW g \in Code \cup Token, BeginIssue(s, u, g)
    PROVE  /\ issueUser' \in Seq(Users)
           /\ Len(issueUser') = Len(issueUser) + 1
           /\ grantOf' \in Seq(Code \cup Token)
           /\ issue' \in [Slots -> 0..MaxIssues]
           /\ void' \subseteq Issues
           /\ user' \in [Slots -> Users \cup {NoUser}]
           /\ pc' = [pc EXCEPT ![s] = "set access"]
           /\ \A t \in Slots : t # s => issue'[t] = issue[t]
  <1>1. issueUser' \in Seq(Users) /\ Len(issueUser') = Len(issueUser) + 1
    BY Appended DEF BeginIssue, TypeOK
  <1>2. grantOf' \in Seq(Code \cup Token)
    BY Appended DEF BeginIssue, TypeOK
  <1>3. Len(issueUser) + 1 \in Issues
    <2>1. Len(issueUser) \in Nat
      BY LenProperties DEF TypeOK
    <2>2. Len(issueUser) + 1 =< MaxIssues
      BY DEF BeginIssue
    <2> QED
      BY <2>1, <2>2, OAuthAssumption DEF Issues
  <1>4. void' \subseteq Issues
    BY <1>3, Zenon DEF BeginIssue, TypeOK
  <1>5. issue' \in [Slots -> 0..MaxIssues]
    <2>1. Issues \subseteq 0..MaxIssues
      BY OAuthAssumption DEF Issues
    <2>2. issue' = [issue EXCEPT ![s] = Len(issueUser) + 1]
      BY DEF BeginIssue
    <2> QED
      BY <1>3, <2>1, <2>2 DEF TypeOK
  <1>6. user' \in [Slots -> Users \cup {NoUser}]
    BY DEF BeginIssue, TypeOK
  <1> QED
    BY <1>1, <1>2, <1>4, <1>5, <1>6 DEF BeginIssue, Go, TypeOK

\* The types after a request is over.
LEMMA DoneTypes ==
    ASSUME TypeOK, NEW s \in Slots, Done(s)
    PROVE  /\ pc' = [pc EXCEPT ![s] = "idle"]
           /\ user' \in [Slots -> Users \cup {NoUser}]
           /\ grant' \in [Slots -> Code \cup Token \cup {NoGrant}]
           /\ issue' \in [Slots -> 0..MaxIssues]
           /\ listed' \in [Slots -> SUBSET Token]
           /\ issue'[s] = 0 /\ grant'[s] = NoGrant
           /\ \A t \in Slots : t # s => issue'[t] = issue[t] /\ grant'[t] = grant[t]
  <1>1. 0 \in 0..MaxIssues
    BY OAuthAssumption
  <1> QED
    BY <1>1, Zenon DEF TypeOK, Done, Go

\* Every action keeps the types.
LEMMA TypeStep == TypeOK /\ Numbered /\ [Next]_vars => TypeOK'
  <1> SUFFICES ASSUME TypeOK, Numbered, [Next]_vars PROVE TypeOK'
    OBVIOUS
  <1> USE DEF redisVars, slotVars
  <1>1. CASE UNCHANGED vars
    BY <1>1 DEF vars, TypeOK
  <1>2. CASE Expire
    BY <1>2 DEF Expire, TypeOK
  <1>3. ASSUME NEW s \in Slots, NEW u \in Users, Approve(s, u) PROVE TypeOK'
    BY <1>3 DEF Approve, Go, TypeOK
  <1>4. ASSUME NEW s \in Slots, NEW u \in Users, FindConsent(s, u) PROVE TypeOK'
    BY <1>4 DEF FindConsent, Go, TypeOK
  <1>5. ASSUME NEW s \in Slots, NEW u \in Users, ListTokens(s, u) PROVE TypeOK'
    <2>1. void' \subseteq Issues
      BY <1>5, Named DEF ListTokens, TypeOK
    <2> QED
      BY <1>5, <2>1 DEF ListTokens, Go, TypeOK
  <1>6. ASSUME NEW s \in Slots, CreateCode(s) PROVE TypeOK'
    <2>1. codeUser' \in Seq(Users)
      BY <1>6, Appended DEF CreateCode, TypeOK, Numbered
    <2>2. codes' \subseteq Code
      <3>1. Len(codeUser) \in Nat /\ Len(codeUser) + 1 =< MaxCodes
        BY <1>6, LenProperties DEF CreateCode, TypeOK
      <3>2. [code |-> Len(codeUser) + 1] \in Code
        BY <3>1, OAuthAssumption DEF Code
      <3> QED
        BY <1>6, <3>2 DEF CreateCode, TypeOK
    <2> QED
      BY <1>6, <2>1, <2>2, DoneTypes DEF CreateCode, TypeOK
  <1>7. ASSUME NEW s \in Slots, NEW c \in codes, ReadCode(s, c) PROVE TypeOK'
    <2>1. codeUser[c.code] \in Users
      BY Named
    <2> QED
      BY <1>7, <2>1 DEF ReadCode, Go, TypeOK
  <1>8. ASSUME NEW s \in Slots, ConsumeCode(s) PROVE TypeOK'
    <2>1. CASE BeginIssue(s, user[s], grant[s]) /\ codes' = codes \ {grant[s]}
      <3>1. pc[s] = "checked" /\ user[s] \in Users /\ grant[s] \in Code
        BY <1>8 DEF ConsumeCode, Numbered
      <3>2. UNCHANGED <<consent, tokens, index, codeUser, grant, listed>>
        BY <1>8, <2>1, <3>1 DEF ConsumeCode, BeginIssue, Done, Go, TypeOK
      <3>3. codes' \subseteq Code
        BY <2>1 DEF TypeOK
      <3>4. \A t \in Slots : pc'[t] = "idle" => issue'[t] = 0 /\ grant'[t] = NoGrant
        BY <2>1, <3>1, <3>2, BeginTypes DEF TypeOK
      <3> QED
        BY <2>1, <3>1, <3>2, <3>3, <3>4, BeginTypes DEF TypeOK
    <2>2. CASE Done(s) /\ UNCHANGED <<redisVars, grantOf, void>>
      BY <2>2, DoneTypes DEF TypeOK
    <2> QED
      BY <1>8, <2>1, <2>2 DEF ConsumeCode
  <1>9. ASSUME NEW s \in Slots, NEW t \in tokens, ConsumeRefresh(s, t) PROVE TypeOK'
    <2>1. issueUser[t.issue] \in Users /\ t \in Token
      BY Named DEF TypeOK
    <2>2. BeginIssue(s, issueUser[t.issue], t)
      BY <1>9 DEF ConsumeRefresh
    <2>3. tokens' \subseteq Token /\ grant' = [grant EXCEPT ![s] = t]
      BY <1>9 DEF ConsumeRefresh, TypeOK
    <2>4. \A r \in Slots : pc'[r] = "idle" => issue'[r] = 0 /\ grant'[r] = NoGrant
      BY <2>1, <2>2, <2>3, BeginTypes DEF TypeOK
    <2>5. grant' \in [Slots -> Code \cup Token \cup {NoGrant}]
      BY <2>1, <2>3 DEF TypeOK
    <2>6. pc' \in [Slots -> {"idle", "approved", "checked", "set access",
                         "index access", "set refresh", "index refresh",
                         "listed", "deleted"}]
      BY <2>1, <2>2, BeginTypes DEF TypeOK
    <2>7. UNCHANGED <<consent, codes, index, codeUser, listed>>
      BY <1>9 DEF ConsumeRefresh
    <2> QED
      BY <2>1, <2>2, <2>3, <2>4, <2>5, <2>6, <2>7, BeginTypes DEF TypeOK
  <1>10. ASSUME NEW s \in Slots, NEW t \in tokens, RevokeOne(s, t) PROVE TypeOK'
    BY <1>10 DEF RevokeOne, TypeOK
  <1>11. ASSUME NEW s \in Slots, SetAccess(s) \/ SetRefresh(s) PROVE TypeOK'
    <2>1. \A kind \in Kinds : Of(s, kind) \in Token
      BY <1>11, Named DEF SetAccess, SetRefresh, Issuing
    <2> QED
      BY <1>11, <2>1 DEF SetAccess, SetRefresh, SetToken, Go, Kinds, TypeOK
  <1>12. ASSUME NEW s \in Slots, IndexAccess(s) \/ IndexRefresh(s) PROVE TypeOK'
    <2>1. \A kind \in Kinds : Of(s, kind) \in Token
      BY <1>12, Named DEF IndexAccess, IndexRefresh, Issuing
    <2>2. index' \in [Users -> SUBSET Token]
      <3>1. PICK kind \in Kinds : AddToIndex(s, kind)
        BY <1>12 DEF IndexAccess, IndexRefresh, Kinds
      <3>2. Of(s, kind) \in Token
        BY <2>1
      <3> QED
        BY <3>1, <3>2 DEF AddToIndex, TypeOK
    <2>3. CASE IndexAccess(s)
      BY <2>2, <2>3 DEF IndexAccess, Go, TypeOK
    <2>4. CASE IndexRefresh(s)
      BY <2>2, <2>4, DoneTypes DEF IndexRefresh, TypeOK
    <2> QED
      BY <1>12, <2>3, <2>4
  <1>13. ASSUME NEW s \in Slots, DeleteTokens(s) PROVE TypeOK'
    BY <1>13 DEF DeleteTokens, Go, TypeOK
  <1>14. ASSUME NEW s \in Slots, DeleteIndex(s) PROVE TypeOK'
    BY <1>14, DoneTypes DEF DeleteIndex, TypeOK
  <1>15. ASSUME NEW s \in Slots, Crash(s) PROVE TypeOK'
    <2>1. void' \subseteq Issues
      BY <1>15, Named DEF Crash, TypeOK
    <2> QED
      BY <1>15, <2>1, DoneTypes DEF Crash, TypeOK
  <1> QED
    BY <1>1, <1>2, <1>3, <1>4, <1>5, <1>6, <1>7, <1>8, <1>9, <1>10, <1>11,
       <1>12, <1>13, <1>14, <1>15 DEF Next

-----------------------------------------------------------------------------
\* The lengths, and the codes and tokens, as an issuance begins.
LEMMA BeginNumbers ==
    ASSUME TypeOK, Numbered, NEW s \in Slots, NEW u \in Users,
           NEW g \in Code \cup Token, BeginIssue(s, u, g)
    PROVE  /\ Len(issueUser) \in Nat
           /\ DOMAIN grantOf = 1..Len(issueUser)
           /\ DOMAIN grantOf' = 1..(Len(issueUser) + 1)
           /\ Len(issueUser') = Len(issueUser) + 1
           /\ Len(issueUser) + 1 =< MaxIssues
           /\ Len(grantOf') = Len(issueUser')
           /\ \A i \in 1..Len(issueUser) : issueUser'[i] = issueUser[i]
           /\ \A i \in 1..Len(issueUser) : grantOf'[i] = grantOf[i]
           /\ issueUser'[Len(issueUser) + 1] = u
           /\ grantOf'[Len(issueUser) + 1] = g
           /\ pc' = [pc EXCEPT ![s] = "set access"]
           /\ issue' = [issue EXCEPT ![s] = Len(issueUser) + 1]
           /\ user' = [user EXCEPT ![s] = u]
  <1>1. /\ issueUser' = Append(issueUser, u)
        /\ grantOf' = Append(grantOf, g)
        /\ Len(issueUser) + 1 =< MaxIssues
        /\ pc' = [pc EXCEPT ![s] = "set access"]
        /\ issue' = [issue EXCEPT ![s] = Len(issueUser) + 1]
        /\ user' = [user EXCEPT ![s] = u]
    BY DEF BeginIssue, Go
  <1>2. issueUser \in Seq(Users) /\ grantOf \in Seq(Code \cup Token)
    BY DEF TypeOK
  <1>3. Len(grantOf) = Len(issueUser)
    BY DEF Numbered
  <1>4. Append(issueUser, u)[Len(issueUser) + 1] = u
    BY <1>2, Appended
  <1>5. /\ Append(grantOf, g)[Len(grantOf) + 1] = g
        /\ Len(Append(grantOf, g)) = Len(grantOf) + 1
        /\ \A i \in 1..Len(grantOf) : Append(grantOf, g)[i] = grantOf[i]
        /\ DOMAIN grantOf = 1..Len(grantOf)
        /\ DOMAIN Append(grantOf, g) = 1..(Len(grantOf) + 1)
    BY <1>2, Appended
  <1>6. /\ Len(issueUser) \in Nat
        /\ Len(Append(issueUser, u)) = Len(issueUser) + 1
        /\ \A i \in 1..Len(issueUser) : Append(issueUser, u)[i] = issueUser[i]
    BY <1>2, Appended
  <1> QED
    BY <1>1, <1>3, <1>4, <1>5, <1>6

\* The numbers stay right.
LEMMA NumberedStep == TypeOK /\ Numbered /\ [Next]_vars => Numbered'
  <1> SUFFICES ASSUME TypeOK, Numbered, [Next]_vars PROVE Numbered'
    OBVIOUS
  <1> USE DEF redisVars, slotVars
  <1>0. /\ DOMAIN pc = Slots /\ DOMAIN user = Slots /\ DOMAIN issue = Slots
        /\ DOMAIN grant = Slots
    BY DEF TypeOK
  <1>1. CASE UNCHANGED vars
    BY <1>1 DEF vars, Numbered, Issuing
  <1>2. CASE Expire
    BY <1>2 DEF Expire, Numbered, Issuing
  <1>3. ASSUME NEW s \in Slots, NEW u \in Users, Approve(s, u) PROVE Numbered'
    BY <1>3 DEF Approve, Go, Numbered, Issuing, TypeOK
  <1>4. ASSUME NEW s \in Slots, NEW u \in Users, FindConsent(s, u) PROVE Numbered'
    BY <1>4 DEF FindConsent, Go, Numbered, Issuing, TypeOK
  <1>5. ASSUME NEW s \in Slots, NEW u \in Users, ListTokens(s, u) PROVE Numbered'
    BY <1>5 DEF ListTokens, Go, Numbered, Issuing, TypeOK
  <1>6. ASSUME NEW s \in Slots, CreateCode(s) PROVE Numbered'
    <2>1. /\ Len(codeUser) \in Nat /\ Len(codeUser') = Len(codeUser) + 1
          /\ Len(codeUser') =< MaxCodes
      <3>1. /\ codeUser \in Seq(Users) /\ user[s] \in Users
            /\ codeUser' = Append(codeUser, user[s]) /\ Len(codeUser) + 1 =< MaxCodes
        BY <1>6 DEF CreateCode, TypeOK, Numbered
      <3> QED
        BY <3>1, Appended
    <2>2. \A c \in codes' : c.code =< Len(codeUser')
      <3>1. codes' = codes \cup {[code |-> Len(codeUser) + 1]}
        BY <1>6 DEF CreateCode
      <3>2. \A c \in codes : c.code \in Nat /\ c.code =< Len(codeUser)
        BY Named
      <3> QED
        BY <2>1, <3>1, <3>2
    <2>3. UNCHANGED <<tokens, issueUser, grantOf>> /\ Done(s)
      BY <1>6 DEF CreateCode
    <2> QED
      BY <2>1, <2>2, <2>3 DEF Done, Go, Numbered, Issuing, TypeOK
  <1>7. ASSUME NEW s \in Slots, NEW c \in codes, ReadCode(s, c) PROVE Numbered'
    <2>1. codeUser[c.code] \in Users /\ c \in Code
      BY Named DEF TypeOK
    <2> QED
      BY <1>7, <2>1 DEF ReadCode, Go, Numbered, Issuing, TypeOK
  <1>8. ASSUME NEW s \in Slots, NEW u \in Users, NEW g \in Code \cup Token,
               BeginIssue(s, u, g), codes' \subseteq codes, tokens' \subseteq tokens,
               codeUser' = codeUser, \A r \in Slots : r # s => grant'[r] = grant[r]
        PROVE  Numbered'
    <2>1. /\ Len(issueUser) \in Nat /\ Len(issueUser') = Len(issueUser) + 1
          /\ Len(issueUser') =< MaxIssues /\ Len(grantOf') = Len(issueUser')
      BY <1>8, BeginNumbers
    <2>2. \A t \in tokens' : t.issue =< Len(issueUser')
      <3>1. \A t \in tokens : t.issue \in Nat /\ t.issue =< Len(issueUser)
        BY Named
      <3> QED
        BY <1>8, <2>1, <3>1
    <2>3. \A r \in Slots : Issuing(r)' => /\ issue'[r] \in 1..Len(issueUser')
                                          /\ user'[r] = issueUser'[issue'[r]]
      <3>0. /\ issueUser'[Len(issueUser) + 1] = u
            /\ \A i \in 1..Len(issueUser) : issueUser'[i] = issueUser[i]
            /\ pc' = [pc EXCEPT ![s] = "set access"]
            /\ issue' = [issue EXCEPT ![s] = Len(issueUser) + 1]
            /\ user' = [user EXCEPT ![s] = u]
        BY <1>8, BeginNumbers
      <3>1. issue'[s] = Len(issueUser) + 1 /\ user'[s] = u
        BY <1>0, <3>0
      <3>2. ASSUME NEW r \in Slots, r # s, Issuing(r)'
            PROVE  /\ issue'[r] \in 1..Len(issueUser)
                   /\ user'[r] = issueUser'[issue'[r]]
        <4>1. Issuing(r) /\ issue'[r] = issue[r] /\ user'[r] = user[r]
          BY <1>0, <3>0, <3>2 DEF Issuing
        <4>2. issue[r] \in 1..Len(issueUser) /\ user[r] = issueUser[issue[r]]
          BY <4>1 DEF Numbered
        <4> QED
          BY <3>0, <4>1, <4>2
      <3>3. \A i \in 1..Len(issueUser) : i \in 1..Len(issueUser')
        BY <2>1
      <3>4. Len(issueUser) + 1 \in 1..Len(issueUser')
        BY <2>1
      <3> QED
        BY <3>0, <3>1, <3>2, <3>3, <3>4
    <2>4. \A r \in Slots : /\ pc'[r] # "idle" => user'[r] \in Users
                           /\ pc'[r] = "checked" => grant'[r] \in Code
      <3>1. pc' = [pc EXCEPT ![s] = "set access"] /\ user' = [user EXCEPT ![s] = u]
        BY <1>8, BeginNumbers
      <3> QED
        BY <1>0, <1>8, <3>1 DEF Numbered
    <2> QED
      BY <1>8, <2>1, <2>2, <2>3, <2>4 DEF Numbered
  <1>9. ASSUME NEW s \in Slots, ConsumeCode(s) PROVE Numbered'
    <2>1. CASE grant[s] \in codes
      <3>1. user[s] \in Users /\ grant[s] \in Code
        BY <1>9 DEF ConsumeCode, Numbered
      <3> QED
        BY <1>8, <1>9, <2>1, <3>1 DEF ConsumeCode
    <2>2. CASE Done(s) /\ UNCHANGED <<redisVars, grantOf, void>>
      BY <2>2 DEF Done, Go, Numbered, Issuing, TypeOK
    <2> QED
      BY <1>9, <2>1, <2>2 DEF ConsumeCode
  <1>10. ASSUME NEW s \in Slots, NEW t \in tokens, ConsumeRefresh(s, t) PROVE Numbered'
    <2>1. issueUser[t.issue] \in Users /\ t \in Code \cup Token
      BY Named DEF TypeOK
    <2>2. /\ BeginIssue(s, issueUser[t.issue], t) /\ tokens' \subseteq tokens
          /\ UNCHANGED <<codes, codeUser>>
          /\ grant' = [grant EXCEPT ![s] = t]
      BY <1>10 DEF ConsumeRefresh
    <2>3. \A r \in Slots : r # s => grant'[r] = grant[r]
      BY <2>2 DEF TypeOK
    <2> QED
      BY <1>8, <2>1, <2>2, <2>3
  <1>11. ASSUME NEW s \in Slots, NEW t \in tokens, RevokeOne(s, t) PROVE Numbered'
    BY <1>11 DEF RevokeOne, Numbered, Issuing
  <1>12. ASSUME NEW s \in Slots, SetAccess(s) \/ SetRefresh(s) PROVE Numbered'
    <2>1. PICK kind, next : SetToken(s, kind, next) /\ next # "idle" /\ next # "checked"
      BY <1>12 DEF SetAccess, SetRefresh
    <2>2. Issuing(s)
      BY <1>12 DEF SetAccess, SetRefresh, Issuing
    <2>3. issue[s] =< Len(issueUser)
      <3>1. issue[s] \in 1..Len(issueUser) /\ Len(issueUser) \in Nat
        BY <2>2, Named DEF Numbered
      <3> QED
        BY <3>1
    <2>4. \A r \in Slots : Issuing(r)' => Issuing(r)
      BY <2>1, <2>2 DEF SetToken, Go, Issuing, TypeOK
    <2>5. \A t \in tokens' : t.issue =< Len(issueUser)
      BY <2>1, <2>3 DEF SetToken, Of, Numbered
    <2>6. \A r \in Slots : pc'[r] # "idle" => pc[r] # "idle"
      BY <2>1, <2>2 DEF SetToken, Go, Issuing, TypeOK
    <2>7. \A r \in Slots : pc'[r] = "checked" => pc[r] = "checked"
      BY <2>1 DEF SetToken, Go, TypeOK
    <2> QED
      BY <2>1, <2>4, <2>5, <2>6, <2>7 DEF SetToken, Numbered
  <1>13. ASSUME NEW s \in Slots, IndexAccess(s) PROVE Numbered'
    BY <1>13 DEF IndexAccess, Go, Numbered, Issuing, TypeOK
  <1>14. ASSUME NEW s \in Slots, IndexRefresh(s) PROVE Numbered'
    BY <1>14 DEF IndexRefresh, Done, Go, Numbered, Issuing, TypeOK
  <1>15. ASSUME NEW s \in Slots, DeleteTokens(s) PROVE Numbered'
    BY <1>15 DEF DeleteTokens, Go, Numbered, Issuing, TypeOK
  <1>16. ASSUME NEW s \in Slots, DeleteIndex(s) PROVE Numbered'
    BY <1>16 DEF DeleteIndex, Done, Go, Numbered, Issuing, TypeOK
  <1>17. ASSUME NEW s \in Slots, Crash(s) PROVE Numbered'
    BY <1>17 DEF Crash, Done, Go, Numbered, Issuing, TypeOK
  <1> QED
    BY <1>1, <1>2, <1>3, <1>4, <1>5, <1>6, <1>7, <1>9, <1>10, <1>11, <1>12,
       <1>13, <1>14, <1>15, <1>16, <1>17 DEF Next

-----------------------------------------------------------------------------
\* A step that is neither an issuance's nor a revocation's.
Aside ==
    /\ UNCHANGED <<index, issueUser, grantOf, void>>
    /\ tokens' \subseteq tokens
    /\ \A c \in codes' : c \in codes \/ c.code > Len(codeUser)
    /\ Len(codeUser') >= Len(codeUser)
    /\ \A r \in Slots :
          \/ pc'[r] = pc[r] /\ user'[r] = user[r] /\ issue'[r] = issue[r] /\ listed'[r] = listed[r]
          \/ ~Issuing(r) /\ ~Issuing(r)' /\ ~Revoking(r) /\ ~Revoking(r)'

\* A grant becomes an issuance.
Consume(s, u, g) ==
    /\ BeginIssue(s, u, g)
    /\ ~Issuing(s) /\ ~Revoking(s)
    /\ g \in codes \cup tokens
    /\ codes' = codes \ {g} /\ tokens' = tokens \ {g}
    /\ UNCHANGED <<index, codeUser, listed>>

\* A code is not a token.
LEMMA CodeOrToken == \A c \in Code, t \in Token : c # t
  <1> SUFFICES ASSUME NEW c \in Code, NEW t \in Token, c = t PROVE FALSE
    OBVIOUS
  <1>1. DOMAIN c = {"code"}
    BY DEF Code
  <1>2. DOMAIN t = {"issue", "kind"}
    BY DEF Token
  <1> QED
    BY <1>1, <1>2

\* A step of one request that neither issues nor revokes.
LEMMA OneAside ==
    ASSUME TypeOK, Numbered, NEW s \in Slots,
           UNCHANGED <<index, issueUser, grantOf, void>>,
           tokens' \subseteq tokens, codes' \subseteq codes, codeUser' = codeUser,
           ~Issuing(s), ~Revoking(s), ~Issuing(s)', ~Revoking(s)',
           \A r \in Slots : r # s =>
              pc'[r] = pc[r] /\ user'[r] = user[r] /\ issue'[r] = issue[r] /\ listed'[r] = listed[r]
    PROVE  Aside
  <1>1. Len(codeUser) \in Nat
    BY Named
  <1> QED
    BY <1>1 DEF Aside

\* What a step may be, for the issuances and the revocations.
LEMMA StepCases ==
    ASSUME TypeOK, Numbered, [Next]_vars
    PROVE  \/ Aside
           \/ \E s \in Slots, u \in Users, g \in Code \cup Token : Consume(s, u, g)
           \/ \E s \in Slots :
                 \/ SetAccess(s) \/ IndexAccess(s) \/ SetRefresh(s) \/ IndexRefresh(s)
                 \/ \E u \in Users : ListTokens(s, u)
                 \/ DeleteTokens(s) \/ DeleteIndex(s) \/ Crash(s)
  <1> USE DEF redisVars, slotVars
  <1>0. /\ DOMAIN pc = Slots /\ DOMAIN user = Slots /\ DOMAIN issue = Slots
        /\ DOMAIN listed = Slots /\ Len(codeUser) \in Nat
    BY Named DEF TypeOK
  <1>1. CASE UNCHANGED vars
    BY <1>0, <1>1 DEF vars, Aside
  <1>2. CASE Expire
    BY <1>0, <1>2 DEF Expire, Aside
  <1>3. ASSUME NEW s \in Slots, NEW u \in Users, Approve(s, u) \/ FindConsent(s, u)
        PROVE  Aside
    <2>1. /\ pc[s] = "idle" /\ pc' = [pc EXCEPT ![s] = "approved"]
          /\ user' = [user EXCEPT ![s] = u]
          /\ UNCHANGED <<codes, tokens, index, codeUser, issueUser, issue, listed, grantOf, void>>
      BY <1>3 DEF Approve, FindConsent, Go
    <2>2. ~Issuing(s) /\ ~Revoking(s) /\ ~Issuing(s)' /\ ~Revoking(s)'
      BY <1>0, <2>1 DEF Issuing, Revoking
    <2> QED
      BY <1>0, <2>1, <2>2, OneAside
  <1>4. ASSUME NEW s \in Slots, CreateCode(s) PROVE Aside
    <2>1. /\ codes' = codes \cup {[code |-> Len(codeUser) + 1]}
          /\ codeUser' = Append(codeUser, user[s]) /\ user[s] \in Users
          /\ UNCHANGED <<index, issueUser, grantOf, void, tokens>>
          /\ pc[s] = "approved" /\ Done(s)
      BY <1>4 DEF CreateCode, Numbered
    <2>2. Len(codeUser') = Len(codeUser) + 1
      BY <2>1, Appended DEF TypeOK
    <2>3. \A c \in codes' : c \in codes \/ c.code > Len(codeUser)
      BY <1>0, <2>1
    <2>4. \A r \in Slots :
            \/ pc'[r] = pc[r] /\ user'[r] = user[r] /\ issue'[r] = issue[r] /\ listed'[r] = listed[r]
            \/ ~Issuing(r) /\ ~Issuing(r)' /\ ~Revoking(r) /\ ~Revoking(r)'
      BY <1>0, <2>1 DEF Done, Go, Issuing, Revoking
    <2> QED
      BY <1>0, <2>1, <2>2, <2>3, <2>4 DEF Aside
  <1>5. ASSUME NEW s \in Slots, NEW c \in codes, ReadCode(s, c) PROVE Aside
    <2>1. /\ pc[s] = "idle" /\ pc' = [pc EXCEPT ![s] = "checked"]
          /\ \A r \in Slots : r # s => user'[r] = user[r]
          /\ UNCHANGED <<codes, tokens, index, codeUser, issueUser, issue, listed, grantOf, void>>
      BY <1>0, <1>5 DEF ReadCode, Go
    <2>2. ~Issuing(s) /\ ~Revoking(s) /\ ~Issuing(s)' /\ ~Revoking(s)'
      BY <1>0, <2>1 DEF Issuing, Revoking
    <2> QED
      BY <1>0, <2>1, <2>2, OneAside
  <1>6. ASSUME NEW s \in Slots, ConsumeCode(s)
        PROVE  Aside \/ \E u \in Users, g \in Code \cup Token : Consume(s, u, g)
    <2>1. CASE grant[s] \in codes
      <3>1. /\ BeginIssue(s, user[s], grant[s]) /\ codes' = codes \ {grant[s]}
            /\ UNCHANGED <<tokens, index, codeUser, listed>>
        BY <1>6, <2>1 DEF ConsumeCode
      <3>2. grant[s] \in Code /\ user[s] \in Users /\ ~Issuing(s) /\ ~Revoking(s)
        BY <1>6 DEF ConsumeCode, Numbered, Issuing, Revoking
      <3>3. tokens \ {grant[s]} = tokens
        BY <3>2, CodeOrToken DEF TypeOK
      <3>4. Consume(s, user[s], grant[s])
        BY <2>1, <3>1, <3>2, <3>3 DEF Consume
      <3> QED
        BY <3>2, <3>4
    <2>2. CASE grant[s] \notin codes
      <3>1. /\ pc[s] = "checked" /\ Done(s)
            /\ UNCHANGED <<codes, tokens, index, codeUser, issueUser, grantOf, void>>
        BY <1>6, <2>2 DEF ConsumeCode
      <3>2. ~Issuing(s) /\ ~Revoking(s) /\ ~Issuing(s)' /\ ~Revoking(s)'
        BY <1>0, <3>1 DEF Done, Go, Issuing, Revoking
      <3>3. \A r \in Slots : r # s =>
              pc'[r] = pc[r] /\ user'[r] = user[r] /\ issue'[r] = issue[r] /\ listed'[r] = listed[r]
        BY <1>0, <3>1 DEF Done, Go
      <3> QED
        BY <3>1, <3>2, <3>3, OneAside
    <2> QED
      BY <1>6, <2>1, <2>2 DEF ConsumeCode
  <1>7. ASSUME NEW s \in Slots, NEW t \in tokens, ConsumeRefresh(s, t)
        PROVE  \E u \in Users, g \in Code \cup Token : Consume(s, u, g)
    <2>1. issueUser[t.issue] \in Users /\ t \in Token
      BY Named DEF TypeOK
    <2>2. codes \ {t} = codes
      BY <2>1, CodeOrToken DEF TypeOK
    <2>3. Consume(s, issueUser[t.issue], t)
      BY <1>7, <2>2 DEF ConsumeRefresh, Consume, Issuing, Revoking
    <2> QED
      BY <2>1, <2>3
  <1>8. ASSUME NEW s \in Slots, NEW t \in tokens, RevokeOne(s, t) PROVE Aside
    BY <1>0, <1>8 DEF RevokeOne, Aside
  <1> QED
    BY <1>1, <1>2, <1>3, <1>4, <1>5, <1>6, <1>7, <1>8 DEF Next

\* A step that consumes no grant begins no issuance, and one that is not
\* ListTokens begins no revocation.
LEMMA SlotsKept ==
    ASSUME TypeOK, Numbered,
           \/ Aside
           \/ \E s \in Slots :
                 \/ SetAccess(s) \/ IndexAccess(s) \/ SetRefresh(s) \/ IndexRefresh(s)
                 \/ DeleteTokens(s) \/ DeleteIndex(s) \/ Crash(s)
    PROVE  \A r \in Slots :
              /\ Issuing(r)' => Issuing(r) /\ user'[r] = user[r] /\ issue'[r] = issue[r]
              /\ Revoking(r)' => /\ Revoking(r) /\ user'[r] = user[r]
                                 /\ listed'[r] = listed[r]
  <1> USE DEF Issuing, Revoking, Go
  <1>0. /\ DOMAIN pc = Slots /\ DOMAIN user = Slots /\ DOMAIN issue = Slots
        /\ DOMAIN listed = Slots
    BY DEF TypeOK
  <1>1. CASE Aside
    BY <1>1 DEF Aside
  <1>2. ASSUME NEW s \in Slots, SetAccess(s) \/ SetRefresh(s) \/ IndexAccess(s)
        PROVE  \A r \in Slots :
              /\ Issuing(r)' => Issuing(r) /\ user'[r] = user[r] /\ issue'[r] = issue[r]
              /\ Revoking(r)' => /\ Revoking(r) /\ user'[r] = user[r]
                                 /\ listed'[r] = listed[r]
    BY <1>0, <1>2 DEF SetAccess, SetRefresh, SetToken, IndexAccess
  <1>3. ASSUME NEW s \in Slots, DeleteTokens(s)
        PROVE  \A r \in Slots :
              /\ Issuing(r)' => Issuing(r) /\ user'[r] = user[r] /\ issue'[r] = issue[r]
              /\ Revoking(r)' => /\ Revoking(r) /\ user'[r] = user[r]
                                 /\ listed'[r] = listed[r]
    BY <1>0, <1>3 DEF DeleteTokens
  <1>4. ASSUME NEW s \in Slots, Done(s)
        PROVE  \A r \in Slots :
              /\ Issuing(r)' => Issuing(r) /\ user'[r] = user[r] /\ issue'[r] = issue[r]
              /\ Revoking(r)' => /\ Revoking(r) /\ user'[r] = user[r]
                                 /\ listed'[r] = listed[r]
    BY <1>0, <1>4 DEF Done
  <1> QED
    BY <1>1, <1>2, <1>3, <1>4 DEF IndexRefresh, DeleteIndex, Crash

\* The other requests, as one lists a user's tokens.
LEMMA ListSlots ==
    ASSUME TypeOK, NEW s \in Slots, NEW u \in Users, ListTokens(s, u)
    PROVE  /\ ~Issuing(s) /\ ~Issuing(s)' /\ pc'[s] = "listed" /\ user'[s] = u
           /\ listed'[s] = index[u]
           /\ \A r \in Slots : issue'[r] = issue[r]
           /\ \A r \in Slots : r # s =>
                 pc'[r] = pc[r] /\ user'[r] = user[r] /\ listed'[r] = listed[r]
  <1>1. /\ DOMAIN pc = Slots /\ DOMAIN user = Slots /\ DOMAIN listed = Slots
    BY DEF TypeOK
  <1>2. /\ pc[s] = "idle" /\ pc' = [pc EXCEPT ![s] = "listed"]
        /\ user' = [user EXCEPT ![s] = u] /\ listed' = [listed EXCEPT ![s] = index[u]]
        /\ issue' = issue
    BY DEF ListTokens, Go
  <1> QED
    BY <1>1, <1>2 DEF Issuing

\* The requests, as one consumes a grant: its issuance has the next number.
LEMMA ConsumeSlots ==
    ASSUME TypeOK, Numbered, NEW s \in Slots, NEW u \in Users,
           NEW g \in Code \cup Token, Consume(s, u, g)
    PROVE  /\ pc'[s] = "set access" /\ issue'[s] = Len(issueUser) + 1 /\ user'[s] = u
           /\ listed' = listed
           /\ \A r \in Slots : r # s =>
                 pc'[r] = pc[r] /\ user'[r] = user[r] /\ issue'[r] = issue[r]
           /\ \A r \in Slots : Issuing(r) => issue[r] # Len(issueUser) + 1
           /\ \A t \in tokens : t.issue # Len(issueUser) + 1
                                 /\ issueUser'[t.issue] = issueUser[t.issue]
  <1>1. /\ DOMAIN pc = Slots /\ DOMAIN user = Slots /\ DOMAIN issue = Slots
    BY DEF TypeOK
  <1>2. /\ pc' = [pc EXCEPT ![s] = "set access"]
        /\ issue' = [issue EXCEPT ![s] = Len(issueUser) + 1]
        /\ user' = [user EXCEPT ![s] = u]
    BY BeginNumbers DEF Consume
  <1>9. /\ Len(issueUser) \in Nat
        /\ \A i \in 1..Len(issueUser) : issueUser'[i] = issueUser[i]
    BY BeginNumbers DEF Consume
  <1>3. \A r \in Slots : Issuing(r) => issue[r] \in 1..Len(issueUser)
    BY DEF Numbered
  <1>4. \A t \in tokens : t.issue \in 1..Len(issueUser)
    BY Named
  <1>5. Len(issueUser) + 1 \notin 1..Len(issueUser)
    BY <1>9
  <1>6. /\ pc'[s] = "set access" /\ issue'[s] = Len(issueUser) + 1 /\ user'[s] = u
        /\ \A r \in Slots : r # s =>
              pc'[r] = pc[r] /\ user'[r] = user[r] /\ issue'[r] = issue[r]
    BY <1>1, <1>2
  <1>7. \A r \in Slots : Issuing(r) => issue[r] # Len(issueUser) + 1
    BY <1>3, <1>5
  <1>8. \A t \in tokens : t.issue # Len(issueUser) + 1
                          /\ issueUser'[t.issue] = issueUser[t.issue]
    BY <1>4, <1>5, <1>9
  <1> QED
    BY <1>6, <1>7, <1>8 DEF Consume

-----------------------------------------------------------------------------
\* Issuances stay apart.
LEMMA ApartStep == TypeOK /\ Numbered /\ Apart /\ [Next]_vars => Apart'
  <1> SUFFICES ASSUME TypeOK, Numbered, Apart, [Next]_vars PROVE Apart'
    OBVIOUS
  <1>1. CASE Aside
    BY <1>1, SlotsKept DEF Apart
  <1>2. ASSUME NEW s \in Slots,
               \/ SetAccess(s) \/ IndexAccess(s) \/ SetRefresh(s) \/ IndexRefresh(s)
               \/ DeleteTokens(s) \/ DeleteIndex(s) \/ Crash(s)
        PROVE  Apart'
    BY <1>2, SlotsKept DEF Apart
  <1>3. ASSUME NEW s \in Slots, NEW u \in Users, ListTokens(s, u) PROVE Apart'
    <2>1. \A r \in Slots : issue'[r] = issue[r] /\ (Issuing(r)' => Issuing(r))
      BY <1>3, ListSlots DEF Issuing
    <2> QED
      BY <2>1 DEF Apart
  <1>4. ASSUME NEW s \in Slots, NEW u \in Users, NEW g \in Code \cup Token,
               Consume(s, u, g)
        PROVE  Apart'
    <2>1. /\ issue'[s] = Len(issueUser) + 1
          /\ \A r \in Slots : r # s => pc'[r] = pc[r] /\ issue'[r] = issue[r]
          /\ \A r \in Slots : Issuing(r) => issue[r] # Len(issueUser) + 1
      BY <1>4, ConsumeSlots
    <2> QED
      BY ZenonT(40), <2>1 DEF Apart, Issuing
  <1> QED
    BY <1>1, <1>2, <1>3, <1>4, StepCases

\* Only a consumption lengthens grantOf, by a grant that was still there.
LEMMA UsedOnceStep ==
    TypeOK /\ Numbered /\ Spent /\ GrantsUsedOnce /\ [Next]_vars => GrantsUsedOnce'
  <1> SUFFICES ASSUME TypeOK, Numbered, Spent, GrantsUsedOnce, [Next]_vars
               PROVE  GrantsUsedOnce'
    OBVIOUS
  <1>1. CASE UNCHANGED grantOf
    BY <1>1 DEF GrantsUsedOnce
  <1>2. ASSUME NEW s \in Slots, NEW u \in Users, NEW g \in Code \cup Token,
               Consume(s, u, g)
        PROVE  GrantsUsedOnce'
    <2>1. /\ DOMAIN grantOf' = 1..(Len(issueUser) + 1)
          /\ DOMAIN grantOf = 1..Len(issueUser)
          /\ Len(issueUser) \in Nat
          /\ \A i \in 1..Len(issueUser) : grantOf'[i] = grantOf[i]
          /\ grantOf'[Len(issueUser) + 1] = g
      BY <1>2, BeginNumbers DEF Consume
    <2>2. \A i \in DOMAIN grantOf : grantOf[i] # g
      BY <1>2 DEF Consume, Spent
    <2>3. \A i \in DOMAIN grantOf' : i \in DOMAIN grantOf \/ i = Len(issueUser) + 1
      BY <2>1
    <2>4. \A i \in DOMAIN grantOf : grantOf'[i] = grantOf[i]
      BY <2>1
    <2> QED
      BY <2>1, <2>2, <2>3, <2>4 DEF GrantsUsedOnce
  <1>3. ASSUME NEW s \in Slots,
               \/ SetAccess(s) \/ IndexAccess(s) \/ SetRefresh(s) \/ IndexRefresh(s)
               \/ \E u \in Users : ListTokens(s, u)
               \/ DeleteTokens(s) \/ DeleteIndex(s) \/ Crash(s)
        PROVE  UNCHANGED grantOf
    BY <1>3 DEF SetAccess, IndexAccess, SetRefresh, IndexRefresh, SetToken, ListTokens,
                DeleteTokens, DeleteIndex, Crash
  <1> QED
    BY <1>1, <1>2, <1>3, StepCases DEF Aside

\* What leaves the tokens and codes alone, or takes some, and stores none,
\* keeps spent grants spent.
LEMMA SpentKept ==
    ASSUME Spent, tokens' \subseteq tokens, UNCHANGED <<codes, codeUser, issueUser, grantOf>>,
           \A r \in Slots : Ahead(r)' \subseteq Ahead(r)
    PROVE  Spent'
  BY DEF Spent

\* A token that a request stores was ahead of it.
LEMMA SetAhead ==
    ASSUME TypeOK, Numbered, NEW s \in Slots, SetAccess(s) \/ SetRefresh(s)
    PROVE  \E t \in Ahead(s) :
              /\ t.issue = issue[s]
              /\ tokens' = tokens \cup {t} /\ t \notin Ahead(s)'
              /\ UNCHANGED <<codes, codeUser, index, issueUser, user, issue, listed, grantOf, void>>
              /\ \A r \in Slots : Ahead(r)' \subseteq Ahead(r)
  <1>0. DOMAIN pc = Slots
    BY DEF TypeOK
  <1>1. CASE SetAccess(s)
    <2>1. /\ pc[s] = "set access" /\ pc' = [pc EXCEPT ![s] = "index access"]
          /\ tokens' = tokens \cup {Of(s, "access")} /\ issue' = issue
          /\ UNCHANGED <<codes, codeUser, index, issueUser, user, listed, grantOf, void>>
      BY <1>1 DEF SetAccess, SetToken, Go
    <2>2. Of(s, "access") \in Token
      BY <2>1, Named DEF Issuing, Kinds
    <2>3. Of(s, "access").issue = issue[s] /\ Of(s, "access").kind = "access"
      BY DEF Of
    <2>4. Of(s, "access") \in Ahead(s) /\ Of(s, "access") \notin Ahead(s)'
      BY <1>0, <2>1, <2>2, <2>3 DEF Ahead
    <2>5. \A r \in Slots : Ahead(r)' \subseteq Ahead(r)
      BY <1>0, <2>1 DEF Ahead
    <2> QED
      BY <2>1, <2>3, <2>4, <2>5
  <1>2. CASE SetRefresh(s)
    <2>1. /\ pc[s] = "set refresh" /\ pc' = [pc EXCEPT ![s] = "index refresh"]
          /\ tokens' = tokens \cup {Of(s, "refresh")} /\ issue' = issue
          /\ UNCHANGED <<codes, codeUser, index, issueUser, user, listed, grantOf, void>>
      BY <1>2 DEF SetRefresh, SetToken, Go
    <2>2. Of(s, "refresh") \in Token
      BY <2>1, Named DEF Issuing, Kinds
    <2>3. Of(s, "refresh").issue = issue[s] /\ Of(s, "refresh").kind = "refresh"
      BY DEF Of
    <2>4. Of(s, "refresh") \in Ahead(s) /\ Of(s, "refresh") \notin Ahead(s)'
      BY <1>0, <2>1, <2>2, <2>3 DEF Ahead
    <2>5. \A r \in Slots : Ahead(r)' \subseteq Ahead(r)
      BY <1>0, <2>1 DEF Ahead
    <2> QED
      BY <2>1, <2>3, <2>4, <2>5
  <1> QED
    BY <1>1, <1>2

\* Spent grants stay spent.
LEMMA SpentStep == TypeOK /\ Numbered /\ Apart /\ Spent /\ [Next]_vars => Spent'
  <1> SUFFICES ASSUME TypeOK, Numbered, Apart, Spent, [Next]_vars PROVE Spent'
    OBVIOUS
  <1> USE DEF redisVars, slotVars
  <1>0. /\ DOMAIN pc = Slots /\ DOMAIN issue = Slots
        /\ codes \subseteq Code /\ tokens \subseteq Token
    BY DEF TypeOK
  <1>1. CASE Aside
    <2>1. \A r \in Slots : Ahead(r)' \subseteq Ahead(r)
      BY <1>1 DEF Aside, Ahead, Issuing
    <2>2. codes' \subseteq Code
      BY TypeStep DEF TypeOK
    <2>3. \A i \in DOMAIN grantOf : grantOf[i] \in Code => grantOf[i].code \in Nat
      BY DEF Code
    <2>4. ASSUME NEW i \in DOMAIN grantOf PROVE grantOf[i] \notin codes'
      <3> SUFFICES ASSUME grantOf[i] \in codes' PROVE FALSE
        OBVIOUS
      <3>1. grantOf[i] \notin codes /\ grantOf[i].code =< Len(codeUser)
        BY <2>2 DEF Spent
      <3>2. grantOf[i].code > Len(codeUser)
        BY <1>1, <3>1 DEF Aside
      <3> QED
        BY <2>2, <2>3, <3>1, <3>2, Named
    <2>5. ASSUME NEW i \in DOMAIN grantOf, grantOf[i] \in Code
          PROVE  grantOf[i].code =< Len(codeUser')
      <3>1. grantOf[i].code =< Len(codeUser) /\ Len(codeUser') >= Len(codeUser)
        BY <1>1, <2>5 DEF Spent, Aside
      <3>2. codeUser' \in Seq(Users)
        BY TypeStep DEF TypeOK
      <3>3. Len(codeUser') \in Nat
        BY <3>2, LenProperties
      <3> QED
        BY <2>3, <2>5, <3>1, <3>3, Named
    <2> QED
      BY <1>1, <2>1, <2>4, <2>5 DEF Aside, Spent
  <1>2. ASSUME NEW s \in Slots, NEW u \in Users, NEW g \in Code \cup Token,
               Consume(s, u, g)
        PROVE  Spent'
    <2>1. /\ DOMAIN grantOf' = 1..(Len(issueUser) + 1)
          /\ DOMAIN grantOf = 1..Len(issueUser)
          /\ Len(issueUser) \in Nat
          /\ \A i \in 1..Len(issueUser) : grantOf'[i] = grantOf[i]
          /\ grantOf'[Len(issueUser) + 1] = g
          /\ Len(issueUser') = Len(issueUser) + 1
      BY <1>2, BeginNumbers DEF Consume
    <2>2. \A i \in DOMAIN grantOf' : \/ i \in DOMAIN grantOf /\ grantOf'[i] = grantOf[i]
                                     \/ grantOf'[i] = g
      BY <2>1
    <2>3. /\ g \in codes \cup tokens /\ codes' = codes \ {g} /\ tokens' = tokens \ {g}
          /\ codeUser' = codeUser
      BY <1>2 DEF Consume
    <2>4. \A i \in DOMAIN grantOf' : grantOf'[i] \notin codes' \cup tokens'
      BY <2>2, <2>3 DEF Spent
    <2>5. g \in Code => g \in codes /\ g.code =< Len(codeUser)
      BY <1>0, <2>3, CodeOrToken DEF Numbered
    <2>6. g \in Token => g \in tokens /\ g.issue \in 1..Len(issueUser)
      BY <1>0, <2>3, CodeOrToken, Named
    <2>7. \A i \in DOMAIN grantOf' : grantOf'[i] \in Code => grantOf'[i].code =< Len(codeUser')
      BY <2>2, <2>3, <2>5 DEF Spent
    <2>8. \A i \in DOMAIN grantOf' : grantOf'[i] \in Token =>
              grantOf'[i].issue \in Nat /\ grantOf'[i].issue =< Len(issueUser)
      <3>1. \A t \in Token : t.issue \in Nat
        BY DEF Token, Issues
      <3>2. g \in Token => g.issue =< Len(issueUser)
        BY <2>1, <2>6
      <3> QED
        BY <2>2, <3>1, <3>2 DEF Spent
    <2>9. \A i \in DOMAIN grantOf' : grantOf'[i] \in Token =>
              grantOf'[i].issue =< Len(issueUser') /\ grantOf'[i].issue # Len(issueUser) + 1
      BY <2>1, <2>8
    <2>10. ASSUME NEW r \in Slots, NEW t \in Ahead(r)'
           PROVE  t \notin tokens' /\ \A i \in DOMAIN grantOf' : grantOf'[i] # t
      <3>1. CASE r = s
        <4>1. t \in Token /\ t.issue = Len(issueUser) + 1
          BY <1>2, <3>1, ConsumeSlots DEF Ahead
        <4>2. \A d \in tokens : d.issue # Len(issueUser) + 1
          BY <1>2, ConsumeSlots
        <4> QED
          BY <2>3, <2>9, <4>1, <4>2
      <3>2. CASE r # s
        <4>1. t \in Ahead(r) /\ t \in Token
          BY <1>2, <3>2, ConsumeSlots DEF Ahead
        <4>2. t \notin tokens /\ \A i \in DOMAIN grantOf : grantOf[i] # t
          BY <4>1 DEF Spent
        <4>3. t # g
          BY <2>6, <4>1, <4>2
        <4> QED
          BY <2>2, <2>3, <4>2, <4>3
      <3> QED
        BY <3>1, <3>2
    <2> QED
      BY <2>4, <2>7, <2>9, <2>10 DEF Spent
  <1>3. ASSUME NEW s \in Slots, SetAccess(s) \/ SetRefresh(s) PROVE Spent'
    <2>1. PICK t \in Ahead(s) :
              /\ t.issue = issue[s]
              /\ tokens' = tokens \cup {t} /\ t \notin Ahead(s)'
              /\ UNCHANGED <<codes, codeUser, issueUser, grantOf>>
              /\ \A r \in Slots : Ahead(r)' \subseteq Ahead(r)
      BY <1>3, SetAhead
    <2>2. \A r \in Slots : r # s => t \notin Ahead(r)
      BY ZenonT(40), <1>3, <2>1 DEF Ahead, Apart, SetAccess, SetRefresh, Issuing
    <2>3. \A r \in Slots : t \notin Ahead(r)'
      BY <2>1, <2>2
    <2> QED
      BY <2>1, <2>3 DEF Spent
  <1>4. ASSUME NEW s \in Slots, IndexAccess(s) PROVE Spent'
    <2>1. \A r \in Slots : Ahead(r)' \subseteq Ahead(r)
      BY <1>0, <1>4 DEF IndexAccess, Go, Ahead
    <2> QED
      BY <1>4, <2>1, SpentKept DEF IndexAccess
  <1>5. ASSUME NEW s \in Slots, Done(s) PROVE \A r \in Slots : Ahead(r)' \subseteq Ahead(r)
    BY <1>0, <1>5 DEF Done, Go, Ahead
  <1>6. ASSUME NEW s \in Slots, IndexRefresh(s) \/ DeleteIndex(s) \/ Crash(s) PROVE Spent'
    BY <1>5, <1>6, SpentKept DEF IndexRefresh, DeleteIndex, Crash
  <1>7. ASSUME NEW s \in Slots, NEW u \in Users, ListTokens(s, u) PROVE Spent'
    <2>1. \A r \in Slots : Ahead(r)' \subseteq Ahead(r)
      BY <1>7, ListSlots DEF Ahead
    <2> QED
      BY <1>7, <2>1, SpentKept DEF ListTokens
  <1>8. ASSUME NEW s \in Slots, DeleteTokens(s) PROVE Spent'
    <2>1. \A r \in Slots : Ahead(r)' \subseteq Ahead(r)
      BY <1>0, <1>8 DEF DeleteTokens, Go, Ahead
    <2> QED
      BY <1>8, <2>1, SpentKept DEF DeleteTokens
  <1> QED
    BY <1>1, <1>2, <1>3, <1>4, <1>6, <1>7, <1>8, StepCases

-----------------------------------------------------------------------------
\* The token of a request is of its issuance.
LEMMA OfIssue == \A s, t : Of(s, t.kind) = t => t.issue = issue[s]
  BY DEF Of

\* A request about to index a token is issuing it.
LEMMA Indexing ==
    ASSUME NEW t
    PROVE  BeingIndexed(t) <=>
              \E s \in Slots :
                 /\ Issuing(s) /\ Of(s, t.kind) = t
                 /\ pc[s] = (IF t.kind = "access" THEN "index access" ELSE "index refresh")
  BY DEF BeingIndexed, Issuing

\* A token that is covered stays so while its index grows and the request about
\* to index it waits.
LEMMA CoversKept ==
    ASSUME IndexCoversTokens, tokens' \subseteq tokens, void \subseteq void',
           \A t \in tokens' : issueUser'[t.issue] = issueUser[t.issue],
           \A t \in tokens' : t \in index[issueUser[t.issue]]
                                 => t \in index'[issueUser[t.issue]] \/ t.issue \in void',
           \A s \in Slots : Issuing(s) =>
              \/ pc'[s] = pc[s] /\ issue'[s] = issue[s]
              \/ \A t \in tokens' : BeingIndexed(t) /\ Of(s, t.kind) = t =>
                    t \in index'[issueUser[t.issue]] \/ t.issue \in void'
    PROVE  IndexCoversTokens'
  <1> SUFFICES ASSUME NEW t \in tokens', t.issue \notin void'
               PROVE  t \in index'[issueUser[t.issue]] \/ BeingIndexed(t)'
    BY DEF IndexCoversTokens
  <1>1. CASE t \in index[issueUser[t.issue]]
    BY <1>1
  <1>2. CASE BeingIndexed(t)
    <2>1. PICK s \in Slots :
            /\ Issuing(s) /\ Of(s, t.kind) = t
            /\ pc[s] = (IF t.kind = "access" THEN "index access" ELSE "index refresh")
      BY <1>2, Indexing
    <2>2. CASE pc'[s] = pc[s] /\ issue'[s] = issue[s]
      BY <2>1, <2>2 DEF BeingIndexed, Of
    <2> QED
      BY <1>2, <2>1, <2>2
  <1> QED
    BY <1>1, <1>2 DEF IndexCoversTokens

\* Every live token stays covered.
LEMMA CoversStep ==
    TypeOK /\ Numbered /\ Overlapped /\ IndexCoversTokens /\ [Next]_vars
        => IndexCoversTokens'
  <1> SUFFICES ASSUME TypeOK, Numbered, Overlapped, IndexCoversTokens, [Next]_vars
               PROVE  IndexCoversTokens'
    OBVIOUS
  <1> USE DEF redisVars, slotVars
  <1>0. /\ DOMAIN pc = Slots /\ DOMAIN issue = Slots /\ DOMAIN index = Users
        /\ \A t \in tokens : issueUser[t.issue] \in Users
    BY Named DEF TypeOK
  <1>1. CASE Aside
    BY <1>1, CoversKept DEF Aside
  <1>2. ASSUME NEW s \in Slots, NEW u \in Users, NEW g \in Code \cup Token,
               Consume(s, u, g)
        PROVE  IndexCoversTokens'
    <2>1. /\ tokens' \subseteq tokens /\ index' = index /\ ~Issuing(s)
          /\ void \subseteq void'
      BY <1>2 DEF Consume, BeginIssue
    <2>2. \A t \in tokens' : issueUser'[t.issue] = issueUser[t.issue]
      BY <1>2, <2>1, ConsumeSlots DEF Consume
    <2>3. \A r \in Slots : Issuing(r) => pc'[r] = pc[r] /\ issue'[r] = issue[r]
      BY ZenonT(40), <1>2, <2>1, ConsumeSlots
    <2> QED
      BY <2>1, <2>2, <2>3, CoversKept
  <1>3. ASSUME NEW s \in Slots, SetAccess(s) \/ SetRefresh(s) PROVE IndexCoversTokens'
    <2>1. PICK new :
            /\ tokens' = tokens \cup {new} /\ BeingIndexed(new)'
            /\ pc[s] # "index access" /\ pc[s] # "index refresh"
            /\ \A r \in Slots : r # s => pc'[r] = pc[r]
            /\ UNCHANGED <<index, issueUser, issue, void>>
      <3>1. CASE SetAccess(s)
        <4>1. PICK new : new = Of(s, "access")
          OBVIOUS
        <4>2. /\ tokens' = tokens \cup {new} /\ pc[s] = "set access"
              /\ pc' = [pc EXCEPT ![s] = "index access"]
              /\ UNCHANGED <<index, issueUser, issue, void>>
          BY <3>1, <4>1 DEF SetAccess, SetToken, Go
        <4>3. BeingIndexed(new)'
          BY <1>0, <4>1, <4>2 DEF BeingIndexed, Of
        <4> QED
          BY <1>0, <4>2, <4>3
      <3>2. CASE SetRefresh(s)
        <4>1. PICK new : new = Of(s, "refresh")
          OBVIOUS
        <4>2. /\ tokens' = tokens \cup {new} /\ pc[s] = "set refresh"
              /\ pc' = [pc EXCEPT ![s] = "index refresh"]
              /\ UNCHANGED <<index, issueUser, issue, void>>
          BY <3>2, <4>1 DEF SetRefresh, SetToken, Go
        <4>3. BeingIndexed(new)'
          BY <1>0, <4>1, <4>2 DEF BeingIndexed, Of
        <4> QED
          BY <1>0, <4>2, <4>3
      <3> QED
        BY <1>3, <3>1, <3>2
    <2>3. ASSUME NEW t \in tokens, BeingIndexed(t) PROVE BeingIndexed(t)'
      <3>1. PICK r \in Slots :
              /\ pc[r] = (IF t.kind = "access" THEN "index access" ELSE "index refresh")
              /\ Of(r, t.kind) = t
        BY <2>3 DEF BeingIndexed
      <3>2. pc'[r] = pc[r]
        BY <1>0, <2>1, <3>1
      <3> QED
        BY <2>1, <3>1, <3>2 DEF BeingIndexed, Of
    <2> QED
      BY <2>1, <2>3 DEF IndexCoversTokens
  <1>4. ASSUME NEW s \in Slots, NEW kind, Issuing(s),
               \A t \in tokens :
                  pc[s] = (IF t.kind = "access" THEN "index access" ELSE "index refresh")
                     => t.kind = kind,
               AddToIndex(s, kind), UNCHANGED <<tokens, issueUser, void>>,
               \A r \in Slots : r # s => pc'[r] = pc[r] /\ issue'[r] = issue[r]
        PROVE  IndexCoversTokens'
    <2>1. Issuing(s) /\ user[s] = issueUser[issue[s]] /\ user[s] \in Users
      BY <1>4 DEF Numbered, Issuing
    <2>0. PICK new : new = Of(s, kind)
      OBVIOUS
    <2>2. index' = [index EXCEPT ![user[s]] = index[user[s]] \cup {new}]
      BY <1>4, <2>0 DEF AddToIndex
    <2>3. new \in index'[user[s]] /\ \A u \in Users : index[u] \subseteq index'[u]
      BY <1>0, <2>1, <2>2
    <2>4. ASSUME NEW t \in tokens, t.issue \notin void
          PROVE  t \in index'[issueUser[t.issue]] \/ BeingIndexed(t)'
      <3>1. CASE t \in index[issueUser[t.issue]]
        BY <1>0, <2>3, <3>1
      <3>2. CASE BeingIndexed(t)
        <4>1. PICK r \in Slots :
                /\ pc[r] = (IF t.kind = "access" THEN "index access" ELSE "index refresh")
                /\ Of(r, t.kind) = t /\ t.issue = issue[r]
          BY <3>2, OfIssue, Zenon DEF BeingIndexed
        <4>2. CASE r = s
          <5>1. t.kind = kind
            BY <1>4, <4>1, <4>2
          <5>2. t = new
            BY <2>0, <4>1, <4>2, <5>1, Zenon
          <5> QED
            BY <2>1, <2>3, <4>1, <4>2, <5>2, Zenon
        <4>3. CASE r # s
          BY <1>4, <4>1, <4>3 DEF BeingIndexed, Of
        <4> QED
          BY <4>2, <4>3
      <3> QED
        BY <2>4, <3>1, <3>2 DEF IndexCoversTokens
    <2> QED
      BY <1>4, <2>4 DEF IndexCoversTokens
  <1>5. ASSUME NEW s \in Slots, IndexAccess(s) PROVE IndexCoversTokens'
    <2>1. /\ pc[s] = "index access" /\ AddToIndex(s, "access")
          /\ UNCHANGED <<tokens, issueUser, void>>
          /\ \A r \in Slots : r # s => pc'[r] = pc[r] /\ issue'[r] = issue[r]
      BY <1>0, <1>5 DEF IndexAccess, Go
    <2>3. \A t \in tokens :
            pc[s] = (IF t.kind = "access" THEN "index access" ELSE "index refresh")
               => t.kind = "access"
      BY <2>1
    <2>4. Issuing(s)
      BY <2>1 DEF Issuing
    <2> QED
      BY <1>4, <2>1, <2>3, <2>4
  <1>6. ASSUME NEW s \in Slots, IndexRefresh(s) PROVE IndexCoversTokens'
    <2>1. /\ pc[s] = "index refresh" /\ AddToIndex(s, "refresh")
          /\ UNCHANGED <<tokens, issueUser, void>>
          /\ \A r \in Slots : r # s => pc'[r] = pc[r] /\ issue'[r] = issue[r]
      BY <1>0, <1>6 DEF IndexRefresh, Done, Go
    <2>2. \A t \in tokens : t.kind = "access" \/ t.kind = "refresh"
      BY DEF TypeOK, Token, Kinds
    <2>3. \A t \in tokens :
            pc[s] = (IF t.kind = "access" THEN "index access" ELSE "index refresh")
               => t.kind = "refresh"
      BY <2>1, <2>2
    <2>4. Issuing(s)
      BY <2>1 DEF Issuing
    <2> QED
      BY <1>4, <2>1, <2>3, <2>4
  <1>7. ASSUME NEW s \in Slots, NEW u \in Users, ListTokens(s, u)
        PROVE  IndexCoversTokens'
    <2>1. UNCHANGED <<tokens, index, issueUser>> /\ void \subseteq void'
      BY <1>7 DEF ListTokens
    <2>2. \A r \in Slots : Issuing(r) => pc'[r] = pc[r] /\ issue'[r] = issue[r]
      BY <1>7, ListSlots
    <2> QED
      BY <2>1, <2>2, CoversKept
  <1>8. ASSUME NEW s \in Slots, DeleteTokens(s) PROVE IndexCoversTokens'
    <2>1. /\ tokens' \subseteq tokens /\ UNCHANGED <<index, issueUser, void, issue>>
          /\ pc[s] = "listed" /\ pc' = [pc EXCEPT ![s] = "deleted"]
      BY <1>8 DEF DeleteTokens, Go
    <2>2. \A r \in Slots : Issuing(r) => pc'[r] = pc[r] /\ issue'[r] = issue[r]
      BY <1>0, <2>1 DEF Issuing
    <2> QED
      BY <2>1, <2>2, CoversKept
  <1>9. ASSUME NEW s \in Slots, DeleteIndex(s) PROVE IndexCoversTokens'
    <2>1. /\ index' = [index EXCEPT ![user[s]] = {}] /\ pc[s] = "deleted"
          /\ UNCHANGED <<tokens, issueUser, void>>
          /\ \A r \in Slots : r # s => pc'[r] = pc[r] /\ issue'[r] = issue[r]
      BY <1>0, <1>9 DEF DeleteIndex, Done, Go
    <2>2. \A t \in tokens : issueUser[t.issue] = user[s] => t.issue \in void
      BY <2>1 DEF Overlapped, Revoking, LiveTokens
    <2>3. \A t \in tokens' : t \in index[issueUser[t.issue]]
                             => t \in index'[issueUser[t.issue]] \/ t.issue \in void'
      BY <1>0, <2>1, <2>2
    <2>4. \A r \in Slots : Issuing(r) => pc'[r] = pc[r] /\ issue'[r] = issue[r]
      BY <2>1 DEF Issuing
    <2> QED
      BY <2>1, <2>3, <2>4, CoversKept
  <1>10. ASSUME NEW s \in Slots, Crash(s) PROVE IndexCoversTokens'
    <2>1. /\ UNCHANGED <<tokens, index, issueUser>> /\ void \subseteq void'
          /\ Issuing(s) => issue[s] \in void'
          /\ \A r \in Slots : r # s => pc'[r] = pc[r] /\ issue'[r] = issue[r]
      BY <1>0, <1>10 DEF Crash, Done, Go
    <2>2. \A t \in tokens' : Issuing(s) /\ Of(s, t.kind) = t => t.issue \in void'
      BY <2>1 DEF Of
    <2> QED
      BY <2>1, <2>2, CoversKept
  <1> QED
    BY <1>1, <1>2, <1>3, <1>5, <1>6, <1>7, <1>8, <1>9, <1>10, StepCases

-----------------------------------------------------------------------------
\* An issuance beside a revocation is void.
LEMMA BesideStep ==
    ASSUME TypeOK, Numbered, Overlapped, [Next]_vars
    PROVE  \A r, q \in Slots :
              Issuing(r)' /\ Revoking(q)' /\ user'[r] = user'[q] => issue'[r] \in void'
  <1> USE DEF redisVars, slotVars
  <1>1. ASSUME void \subseteq void',
               \A r \in Slots :
                  /\ Issuing(r)' => Issuing(r) /\ user'[r] = user[r] /\ issue'[r] = issue[r]
                  /\ Revoking(r)' => Revoking(r) /\ user'[r] = user[r]
        PROVE  \A r, q \in Slots :
                  Issuing(r)' /\ Revoking(q)' /\ user'[r] = user'[q] => issue'[r] \in void'
    BY <1>1 DEF Overlapped
  <1>2. ASSUME NEW s \in Slots, NEW u \in Users, NEW g \in Code \cup Token,
               Consume(s, u, g), NEW r \in Slots, NEW q \in Slots,
               Issuing(r)', Revoking(q)', user'[r] = user'[q]
        PROVE  issue'[r] \in void'
    <2>0. /\ pc'[s] = "set access" /\ issue'[s] = Len(issueUser) + 1 /\ user'[s] = u
          /\ \A p \in Slots : p # s =>
                pc'[p] = pc[p] /\ user'[p] = user[p] /\ issue'[p] = issue[p]
      BY <1>2, ConsumeSlots
    <2>1. q # s
      BY <1>2, <2>0 DEF Revoking
    <2>2. Revoking(q) /\ user'[q] = user[q]
      BY <1>2, <2>0, <2>1 DEF Revoking
    <2>3. CASE r = s
      <3>1. void' = void \cup {Len(issueUser) + 1}
        BY <1>2, <2>0, <2>2, <2>3 DEF Consume, BeginIssue
      <3> QED
        BY <2>0, <2>3, <3>1
    <2>4. CASE r # s
      <3>1. Issuing(r) /\ user'[r] = user[r] /\ issue'[r] = issue[r]
        BY <1>2, <2>0, <2>4 DEF Issuing
      <3>2. void \subseteq void'
        BY <1>2 DEF Consume, BeginIssue
      <3> QED
        BY <1>2, <2>2, <3>1, <3>2 DEF Overlapped
    <2> QED
      BY <2>3, <2>4
  <1>3. ASSUME NEW s \in Slots, NEW u \in Users, ListTokens(s, u),
               NEW r \in Slots, NEW q \in Slots,
               Issuing(r)', Revoking(q)', user'[r] = user'[q]
        PROVE  issue'[r] \in void'
    <2>1. r # s /\ Issuing(r) /\ user'[r] = user[r] /\ issue'[r] = issue[r]
      BY <1>3, ListSlots DEF Issuing
    <2>2. void' = void \cup {issue[t] : t \in {t \in Slots : Issuing(t) /\ user[t] = u}}
      BY <1>3 DEF ListTokens
    <2>3. CASE q = s
      BY <1>3, <2>1, <2>2, <2>3, ListSlots
    <2>4. CASE q # s
      <3>1. Revoking(q) /\ user'[q] = user[q]
        BY <1>3, <2>4, ListSlots DEF Revoking
      <3> QED
        BY <1>3, <2>1, <2>2, <3>1 DEF Overlapped
    <2> QED
      BY <2>3, <2>4
  <1>4. CASE Aside
    <2>1. void \subseteq void'
      BY <1>4 DEF Aside
    <2> QED
      BY <1>1, <1>4, <2>1, SlotsKept
  <1>5. ASSUME NEW s \in Slots,
               \/ SetAccess(s) \/ IndexAccess(s) \/ SetRefresh(s) \/ IndexRefresh(s)
               \/ DeleteTokens(s) \/ DeleteIndex(s) \/ Crash(s)
        PROVE  void \subseteq void' /\ issueUser' = issueUser
    BY <1>5 DEF SetAccess, SetRefresh, SetToken, IndexAccess, IndexRefresh,
                DeleteTokens, DeleteIndex, Crash
  <1>6. ASSUME NEW s \in Slots,
               \/ SetAccess(s) \/ IndexAccess(s) \/ SetRefresh(s) \/ IndexRefresh(s)
               \/ DeleteTokens(s) \/ DeleteIndex(s) \/ Crash(s)
        PROVE  \A r, q \in Slots :
                  Issuing(r)' /\ Revoking(q)' /\ user'[r] = user'[q] => issue'[r] \in void'
    BY <1>1, <1>5, <1>6, SlotsKept
  <1> QED
    BY <1>2, <1>3, <1>4, <1>6, StepCases

\* A revocation still has before it the tokens it is to delete.
LEMMA OverlappedStep ==
    TypeOK /\ Numbered /\ Overlapped /\ IndexCoversTokens /\ [Next]_vars => Overlapped'
  <1> SUFFICES ASSUME TypeOK, Numbered, Overlapped, IndexCoversTokens, [Next]_vars
               PROVE  Overlapped'
    OBVIOUS
  <1> USE DEF redisVars, slotVars
  <1> SUFFICES ASSUME NEW q \in Slots, Revoking(q)', NEW t \in tokens',
                      issueUser'[t.issue] = user'[q], t.issue \notin void'
               PROVE  pc'[q] = "listed" /\ t \in listed'[q]
    BY BesideStep DEF Overlapped, LiveTokens
  <1>0. DOMAIN pc = Slots
    BY DEF TypeOK
  <1>1. ASSUME Revoking(q), user'[q] = user[q], listed'[q] = listed[q], pc'[q] = pc[q],
               t \in tokens, issueUser'[t.issue] = issueUser[t.issue], void \subseteq void'
        PROVE  pc'[q] = "listed" /\ t \in listed'[q]
    BY <1>1 DEF Overlapped, LiveTokens
  <1>2. CASE Aside
    <2>1. pc'[q] = pc[q]
      BY <1>2 DEF Aside
    <2> QED
      BY <1>1, <1>2, <2>1, SlotsKept DEF Aside
  <1>3. ASSUME NEW s \in Slots, NEW u \in Users, NEW g \in Code \cup Token,
               Consume(s, u, g)
        PROVE  pc'[q] = "listed" /\ t \in listed'[q]
    <2>1. q # s
      BY <1>3, ConsumeSlots DEF Revoking
    <2>2. /\ Revoking(q) /\ user'[q] = user[q] /\ listed'[q] = listed[q] /\ pc'[q] = pc[q]
      BY <1>3, <2>1, ConsumeSlots DEF Revoking
    <2>3. t \in tokens /\ void \subseteq void'
      BY <1>3 DEF Consume, BeginIssue
    <2>4. issueUser'[t.issue] = issueUser[t.issue]
      BY <1>3, <2>3, ConsumeSlots
    <2> QED
      BY <1>1, <2>2, <2>3, <2>4
  <1>4. ASSUME NEW s \in Slots, SetAccess(s) \/ SetRefresh(s)
        PROVE  pc'[q] = "listed" /\ t \in listed'[q]
    <2>1. PICK new \in Ahead(s) :
              /\ new.issue = issue[s] /\ tokens' = tokens \cup {new}
              /\ UNCHANGED <<issueUser, void>>
      BY <1>4, SetAhead
    <2>2. Revoking(q) /\ user'[q] = user[q] /\ listed'[q] = listed[q]
      BY <1>4, SlotsKept
    <2>3. pc'[q] = pc[q]
      BY <1>0, <1>4, <2>2 DEF SetAccess, SetRefresh, SetToken, Go, Revoking
    <2>4. t # new
      <3> SUFFICES ASSUME t = new PROVE FALSE
        OBVIOUS
      <3>1. Issuing(s) /\ user[s] = issueUser[issue[s]]
        BY <1>4 DEF SetAccess, SetRefresh, Issuing, Numbered
      <3>2. user[s] = user[q]
        BY <2>1, <2>2, <3>1
      <3>3. issue[s] \in void
        BY <2>2, <3>1, <3>2 DEF Overlapped
      <3> QED
        BY <2>1, <3>3
    <2> QED
      BY <1>1, <2>1, <2>2, <2>3, <2>4
  <1>5. ASSUME NEW s \in Slots, IndexAccess(s) \/ IndexRefresh(s) \/ DeleteIndex(s) \/ Crash(s)
        PROVE  pc'[q] = "listed" /\ t \in listed'[q]
    <2>1. Revoking(q) /\ user'[q] = user[q] /\ listed'[q] = listed[q]
      BY <1>5, SlotsKept
    <2>2. UNCHANGED <<tokens, issueUser>> /\ void \subseteq void'
      BY <1>5 DEF IndexAccess, IndexRefresh, DeleteIndex, Crash
    <2>3. q # s => pc'[q] = pc[q]
      BY <1>0, <1>5 DEF IndexAccess, IndexRefresh, DeleteIndex, Crash, Done, Go
    <2>4. q # s
      BY <1>0, <1>5, <2>1 DEF IndexAccess, IndexRefresh, DeleteIndex, Crash, Done, Go, Revoking
    <2> QED
      BY <1>1, <2>1, <2>2, <2>3, <2>4
  <1>6. ASSUME NEW s \in Slots, DeleteTokens(s)
        PROVE  pc'[q] = "listed" /\ t \in listed'[q]
    <2>1. Revoking(q) /\ user'[q] = user[q] /\ listed'[q] = listed[q]
      BY <1>6, SlotsKept
    <2>2. /\ tokens' = tokens \ listed[s] /\ pc' = [pc EXCEPT ![s] = "deleted"]
          /\ UNCHANGED <<issueUser, void>>
      BY <1>6 DEF DeleteTokens, Go
    <2>3. q # s
      <3> SUFFICES ASSUME q = s PROVE FALSE
        OBVIOUS
      <3>1. t \in LiveTokens(user[q]) /\ t \notin listed[q] /\ t.issue \notin void
        BY <2>1, <2>2 DEF LiveTokens
      <3> QED
        BY <2>1, <3>1 DEF Overlapped
    <2>4. pc'[q] = pc[q]
      BY <1>0, <2>2, <2>3
    <2> QED
      BY <1>1, <2>1, <2>2, <2>4
  <1>7. ASSUME NEW s \in Slots, NEW u \in Users, ListTokens(s, u)
        PROVE  pc'[q] = "listed" /\ t \in listed'[q]
    <2>1. /\ UNCHANGED <<tokens, issueUser>>
          /\ void' = void \cup {issue[r] : r \in {r \in Slots : Issuing(r) /\ user[r] = u}}
      BY <1>7 DEF ListTokens
    <2>2. CASE q = s
      <3>1. /\ pc'[q] = "listed" /\ listed'[q] = index[u] /\ issueUser[t.issue] = u
            /\ t.issue \notin void
        BY <1>7, <2>1, <2>2, ListSlots
      <3>2. ~BeingIndexed(t)
        <4> SUFFICES ASSUME BeingIndexed(t) PROVE FALSE
          OBVIOUS
        <4>1. PICK r \in Slots : Issuing(r) /\ Of(r, t.kind) = t
          BY Indexing
        <4>2. t.issue = issue[r] /\ user[r] = issueUser[issue[r]]
          BY <4>1 DEF Of, Numbered
        <4> QED
          BY <2>1, <3>1, <4>1, <4>2
      <3> QED
        BY <2>1, <3>1, <3>2 DEF IndexCoversTokens
    <2>3. CASE q # s
      <3>1. pc'[q] = pc[q] /\ user'[q] = user[q] /\ listed'[q] = listed[q]
        BY <1>7, <2>3, ListSlots
      <3>2. Revoking(q)
        BY <3>1 DEF Revoking
      <3> QED
        BY <1>1, <2>1, <3>1, <3>2
    <2> QED
      BY <2>2, <2>3
  <1> QED
    BY <1>2, <1>3, <1>4, <1>5, <1>6, <1>7, StepCases

-----------------------------------------------------------------------------
\* The invariant is inductive.
LEMMA StepInv == IInv /\ [Next]_vars => IInv'
  BY TypeStep, NumberedStep, ApartStep, UsedOnceStep, SpentStep, CoversStep,
     OverlappedStep DEF IInv, TokensSound

\* The invariant of every behaviour of the server.
LEMMA Invariant == Spec => []IInv
  BY InitInv, StepInv, PTL DEF Spec

\* However exchanges, revocations, expiries and deaths overlap, a code or a
\* refresh token is turned into tokens at most once, and revoke_user_tokens can
\* find every live token but those of an issuance that a revocation ran beside
\* or that was cut short (oauth.py:176, 183).
THEOREM TokensAreSound == Spec => []TokensSound
  <1>1. IInv => TokensSound
    BY DEF IInv
  <1> QED
    BY <1>1, Invariant, PTL

\* A revocation that has run to its end leaves the user no token but those of
\* such issuances (oauth.py:183).
THEOREM RevocationIsComplete == Spec => RevocationComplete
  <1>1. IInv /\ [Next]_vars =>
          [\A s \in Slots :
              pc[s] = "deleted" /\ pc'[s] = "idle" =>
                  \A t \in LiveTokens(user[s]) : t.issue \in void]_vars
    BY DEF IInv, Overlapped, Revoking
  <1> QED
    BY <1>1, Invariant, PTL DEF Spec, RevocationComplete
=============================================================================
