-------------------------------- MODULE OAuth --------------------------------
(***************************************************************************)
(* The OAuth server of the actions API (web_app/oauth.py): authorization    *)
(* codes, access and refresh tokens and the standing consent are Redis keys *)
(* with a lifetime, and a set per user, the index, lists the keys of the    *)
(* user's tokens so that revoke_user_tokens can find them.                  *)
(*                                                                          *)
(* There is no lock: a request is a sequence of Redis commands, and another *)
(* may run between any two of them.  A code or a refresh token is a grant;  *)
(* an issuance consumes one and stores an access and a refresh token.       *)
(* Requests that are rejected without changing Redis are left out.          *)
(***************************************************************************)
EXTENDS Naturals, Sequences

CONSTANTS
    Slots,      \* request threads
    Users,
    MaxCodes,   \* bound: authorization codes created
    MaxIssues,  \* bound: pairs of tokens issued
    WorkersDie  \* whether a worker may die in the middle of a request

ASSUME OAuthAssumption ==
    MaxCodes \in Nat /\ MaxIssues \in Nat /\ WorkersDie \in BOOLEAN

Kinds == {"access", "refresh"}
Issues == 1..MaxIssues
Token == [issue : Issues, kind : Kinds]
Code == [code : 1..MaxCodes]
NoUser == "none"
NoGrant == [none |-> TRUE]

VARIABLES
    \* Redis
    consent,    \* users with a standing consent
    codes,      \* authorization codes
    tokens,     \* access and refresh tokens
    index,      \* the tokens that each user's set names
    \* the user written in a code or in the tokens of an issuance
    codeUser, issueUser,
    \* each request
    pc, user, grant, issue, listed,
    \* bookkeeping
    grantOf,    \* the grant each issuance consumed
    void        \* issuances that a revocation overlapped or that were cut short

redisVars == <<consent, codes, tokens, index, codeUser, issueUser>>
slotVars == <<pc, user, grant, issue, listed>>
vars == <<redisVars, slotVars, grantOf, void>>

Init ==
    /\ consent = {} /\ codes = {} /\ tokens = {}
    /\ index = [u \in Users |-> {}]
    /\ codeUser = <<>> /\ issueUser = <<>>
    /\ pc = [s \in Slots |-> "idle"]
    /\ user = [s \in Slots |-> NoUser]
    /\ grant = [s \in Slots |-> NoGrant]
    /\ issue = [s \in Slots |-> 0]
    /\ listed = [s \in Slots |-> {}]
    /\ grantOf = <<>>
    /\ void = {}

Of(s, kind) == [issue |-> issue[s], kind |-> kind]

Issuing(s) == pc[s] \in {"set access", "index access", "set refresh",
                         "index refresh"}
Revoking(s) == pc[s] \in {"listed", "deleted"}

Go(s, next) == pc' = [pc EXCEPT ![s] = next]

\* The request is over.
Done(s) ==
    /\ Go(s, "idle")
    /\ user' = [user EXCEPT ![s] = NoUser]
    /\ grant' = [grant EXCEPT ![s] = NoGrant]
    /\ issue' = [issue EXCEPT ![s] = 0]
    /\ listed' = [listed EXCEPT ![s] = {}]

-----------------------------------------------------------------------------
(* authorize                                                               *)

\* The user approves: the consent is stored.
Approve(s, u) ==
    /\ pc[s] = "idle"
    /\ consent' = consent \cup {u}
    /\ Go(s, "approved")
    /\ user' = [user EXCEPT ![s] = u]
    /\ UNCHANGED <<codes, tokens, index, codeUser, issueUser, grant, issue,
                   listed, grantOf, void>>

\* A later visit finds the consent and asks nothing.
FindConsent(s, u) ==
    /\ pc[s] = "idle"
    /\ u \in consent
    /\ Go(s, "approved")
    /\ user' = [user EXCEPT ![s] = u]
    /\ UNCHANGED <<redisVars, grant, issue, listed, grantOf, void>>

\* _create_authorization_redirect
CreateCode(s) ==
    LET c == Len(codeUser) + 1
    IN  /\ pc[s] = "approved"
        /\ c =< MaxCodes
        /\ codes' = codes \cup {[code |-> c]}
        /\ codeUser' = Append(codeUser, user[s])
        /\ Done(s)
        /\ UNCHANGED <<consent, tokens, index, issueUser, grantOf, void>>

-----------------------------------------------------------------------------
(* token: the grant is consumed.                                           *)

\* The code is read and its binding to the client is checked.
ReadCode(s, c) ==
    /\ pc[s] = "idle"
    /\ c \in codes
    /\ Go(s, "checked")
    /\ grant' = [grant EXCEPT ![s] = c]
    /\ user' = [user EXCEPT ![s] = codeUser[c.code]]
    /\ UNCHANGED <<redisVars, issue, listed, grantOf, void>>

\* The tokens of this issuance are now to be stored.
BeginIssue(s, u, g) ==
    LET i == Len(issueUser) + 1
    IN  /\ i =< MaxIssues
        /\ issueUser' = Append(issueUser, u)
        /\ grantOf' = Append(grantOf, g)
        /\ issue' = [issue EXCEPT ![s] = i]
        /\ void' = IF \E t \in Slots : Revoking(t) /\ user[t] = u
                     THEN void \cup {i} ELSE void
        /\ user' = [user EXCEPT ![s] = u]
        /\ Go(s, "set access")

\* Faulty variant: the code was read, so it is good.
ConsumeCodeUnchecked(s) ==
    /\ pc[s] = "checked"
    /\ codes' = codes \ {grant[s]}
    /\ BeginIssue(s, user[s], grant[s])
    /\ UNCHANGED <<consent, tokens, index, codeUser, grant, listed>>

\* GETDEL of the code.  When another exchange, or its expiry, was faster, the
\* request fails on the missing metadata.
ConsumeCode(s) ==
    /\ pc[s] = "checked"
    /\ \/ /\ grant[s] \in codes
          /\ codes' = codes \ {grant[s]}
          /\ BeginIssue(s, user[s], grant[s])
          /\ UNCHANGED <<consent, tokens, index, codeUser, grant, listed>>
       \/ /\ grant[s] \notin codes
          /\ Done(s)
          /\ UNCHANGED <<redisVars, grantOf, void>>

\* GETDEL of a refresh token.
ConsumeRefresh(s, t) ==
    /\ pc[s] = "idle"
    /\ t \in tokens /\ t.kind = "refresh"
    /\ tokens' = tokens \ {t}
    /\ grant' = [grant EXCEPT ![s] = t]
    /\ BeginIssue(s, issueUser[t.issue], t)
    /\ UNCHANGED <<consent, codes, index, codeUser, listed>>

-----------------------------------------------------------------------------
(* _issue_tokens: each token is stored and then indexed.                   *)

SetToken(s, kind, next) ==
    /\ tokens' = tokens \cup {Of(s, kind)}
    /\ Go(s, next)
    /\ UNCHANGED <<consent, codes, index, codeUser, issueUser, user, grant,
                   issue, listed, grantOf, void>>

SetAccess(s) == pc[s] = "set access" /\ SetToken(s, "access", "index access")

SetRefresh(s) == pc[s] = "set refresh" /\ SetToken(s, "refresh", "index refresh")

AddToIndex(s, kind) ==
    index' = [index EXCEPT ![user[s]] = @ \cup {Of(s, kind)}]

IndexAccess(s) ==
    /\ pc[s] = "index access"
    /\ AddToIndex(s, "access")
    /\ Go(s, "set refresh")
    /\ UNCHANGED <<consent, codes, tokens, codeUser, issueUser, user, grant,
                   issue, listed, grantOf, void>>

IndexRefresh(s) ==
    /\ pc[s] = "index refresh"
    /\ AddToIndex(s, "refresh")
    /\ Done(s)
    /\ UNCHANGED <<consent, codes, tokens, codeUser, issueUser, grantOf, void>>

-----------------------------------------------------------------------------
(* revoke_user_tokens, and revoke of one token.                            *)

\* SMEMBERS
ListTokens(s, u) ==
    LET beside == {t \in Slots : Issuing(t) /\ user[t] = u}
    IN  /\ pc[s] = "idle"
        /\ Go(s, "listed")
        /\ user' = [user EXCEPT ![s] = u]
        /\ listed' = [listed EXCEPT ![s] = index[u]]
        /\ void' = void \cup {issue[t] : t \in beside}
        /\ UNCHANGED <<redisVars, grant, issue, grantOf>>

\* Faulty variant: the refresh tokens are forgotten.
DeleteAccessTokens(s) ==
    /\ pc[s] = "listed"
    /\ tokens' = tokens \ {t \in listed[s] : t.kind = "access"}
    /\ Go(s, "deleted")
    /\ UNCHANGED <<consent, codes, index, codeUser, issueUser, user, grant,
                   issue, listed, grantOf, void>>

\* DEL of what was listed.
DeleteTokens(s) ==
    /\ pc[s] = "listed"
    /\ tokens' = tokens \ listed[s]
    /\ Go(s, "deleted")
    /\ UNCHANGED <<consent, codes, index, codeUser, issueUser, user, grant,
                   issue, listed, grantOf, void>>

\* DEL of the index and the consent.
DeleteIndex(s) ==
    /\ pc[s] = "deleted"
    /\ index' = [index EXCEPT ![user[s]] = {}]
    /\ consent' = consent \ {user[s]}
    /\ Done(s)
    /\ UNCHANGED <<codes, tokens, codeUser, issueUser, grantOf, void>>

\* revoke: the client gives one token back; the index keeps its key.
RevokeOne(s, t) ==
    /\ pc[s] = "idle"
    /\ t \in tokens
    /\ tokens' = tokens \ {t}
    /\ UNCHANGED <<consent, codes, index, codeUser, issueUser, slotVars,
                   grantOf, void>>

-----------------------------------------------------------------------------
\* A key's lifetime is over.
Expire ==
    /\ \/ \E c \in codes : codes' = codes \ {c} /\ UNCHANGED <<tokens, consent>>
       \/ \E t \in tokens : tokens' = tokens \ {t} /\ UNCHANGED <<codes, consent>>
       \/ \E u \in consent : consent' = consent \ {u} /\ UNCHANGED <<codes, tokens>>
    /\ UNCHANGED <<index, codeUser, issueUser, slotVars, grantOf, void>>

\* The worker dies between two commands.
Crash(s) ==
    /\ WorkersDie
    /\ pc[s] # "idle"
    /\ void' = void \cup (IF Issuing(s) THEN {issue[s]} ELSE {})
    /\ Done(s)
    /\ UNCHANGED <<redisVars, grantOf>>

Next ==
    \/ Expire
    \/ \E s \in Slots :
        \/ \E u \in Users : Approve(s, u) \/ FindConsent(s, u) \/ ListTokens(s, u)
        \/ CreateCode(s)
        \/ \E c \in codes : ReadCode(s, c)
        \/ ConsumeCode(s)
        \/ \E t \in tokens : ConsumeRefresh(s, t) \/ RevokeOne(s, t)
        \/ SetAccess(s) \/ IndexAccess(s) \/ SetRefresh(s) \/ IndexRefresh(s)
        \/ DeleteTokens(s) \/ DeleteIndex(s)
        \/ Crash(s)

Spec == Init /\ [][Next]_vars

-----------------------------------------------------------------------------
TypeOK ==
    /\ consent \subseteq Users
    /\ codes \subseteq Code
    /\ tokens \subseteq Token
    /\ index \in [Users -> SUBSET Token]
    /\ codeUser \in Seq(Users) /\ issueUser \in Seq(Users)
    /\ pc \in [Slots -> {"idle", "approved", "checked", "set access",
                         "index access", "set refresh", "index refresh",
                         "listed", "deleted"}]
    /\ user \in [Slots -> Users \cup {NoUser}]
    /\ grant \in [Slots -> Code \cup Token \cup {NoGrant}]
    /\ issue \in [Slots -> 0..MaxIssues]
    /\ listed \in [Slots -> SUBSET Token]
    /\ \A s \in Slots : pc[s] = "idle" => issue[s] = 0 /\ grant[s] = NoGrant
    /\ grantOf \in Seq(Code \cup Token)
    /\ void \subseteq Issues

\* However exchanges overlap, a code or a refresh token is turned into tokens
\* at most once (GETDEL in _consume, oauth.py:176).
GrantsUsedOnce ==
    \A i, j \in DOMAIN grantOf : grantOf[i] = grantOf[j] => i = j

\* The request about to index the token it has just stored.
BeingIndexed(t) ==
    \E s \in Slots : pc[s] = (IF t.kind = "access" THEN "index access"
                             ELSE "index refresh") /\ Of(s, t.kind) = t

\* revoke_user_tokens can find every live token (oauth.py:183): it is in its
\* user's index, unless its issuance was cut short or a revocation of that
\* user ran beside it.
IndexCoversTokens ==
    \A t \in tokens : t.issue \notin void =>
        t \in index[issueUser[t.issue]] \/ BeingIndexed(t)

\* Every token is of a grant of its own, and can be revoked.
TokensSound == TypeOK /\ GrantsUsedOnce /\ IndexCoversTokens

LiveTokens(u) == {t \in tokens : issueUser[t.issue] = u}

\* A revocation that has run to its end (oauth.py:183) leaves the user no token
\* but those of an issuance that it, or an earlier one, ran beside, or that was
\* cut short.
RevocationComplete ==
    [][\A s \in Slots :
          pc[s] = "deleted" /\ pc'[s] = "idle" =>
              \A t \in LiveTokens(user[s]) : t.issue \in void]_vars
=============================================================================
