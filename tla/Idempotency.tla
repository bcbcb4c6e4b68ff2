----------------------------- MODULE Idempotency -----------------------------
(***************************************************************************)
(* The idempotency record of the actions API's write requests               *)
(* (web_app/todoist/api.py, _idempotent) for one client key.  A client      *)
(* sends a write, and sends it again when it hears nothing or an error;     *)
(* attempts overlap, their workers talk to Redis and to the goals file one  *)
(* step at a time, and any of them may die.  The record has a lifetime:     *)
(* short while the request is pending, long once it is complete.            *)
(*                                                                          *)
(* The mutation runs under the edit lock, so it is one atomic change of the *)
(* file; it may raise before it (a timeout on the lock) or after it (the    *)
(* lock turns out to be lost when it is released, see RmwLock).             *)
(***************************************************************************)
EXTENDS Naturals, FiniteSets

CONSTANTS
    Attempts,       \* requests of the client that carry the key
    Payloads,       \* what they ask for, by fingerprint
    PendingTTL,     \* lifetime of a pending record, in ticks
    CompleteTTL,    \* lifetime of a complete one
    Faults          \* what may go wrong: a subset of FaultKinds

FaultKinds == {"refuse", "late refusal", "crash", "slow"}

ASSUME IdempotencyAssumption ==
    /\ PendingTTL \in Nat \ {0} /\ CompleteTTL \in Nat \ {0}
    /\ Faults \subseteq FaultKinds

\* No record, and no attempt.
Nothing == [status |-> "none"]
NoAttempt == "none"

VARIABLES
    record,     \* the Redis key
    ttl,        \* ticks it has left
    pc,         \* where each attempt is
    payload,    \* its fingerprint
    answer,     \* how it ended, and the attempt whose mutation it reports
    applied,    \* attempts whose mutation is in the goals file
    void        \* why the single application is no longer promised

retryVars == <<record, ttl, pc, payload, answer, applied, void>>

\* How a mutation that did not raise ends.
Outcomes == {"done", "not found"}

Pending(p) == [status |-> "pending", payload |-> p]
Complete(p, kind, a) ==
    [status |-> "complete", payload |-> p, kind |-> kind, body |-> a]
Records == {Nothing} \cup {Pending(p) : p \in Payloads}
             \cup {Complete(p, kind, a) : p \in Payloads, a \in Attempts,
                                      kind \in Outcomes}

NoAnswer == [kind |-> "none", body |-> NoAttempt]
Answers == [kind : Outcomes \cup {"none", "conflict", "in progress", "error"},
            body : Attempts \cup {NoAttempt}]

RetryInit ==
    /\ record = Nothing
    /\ ttl = 0
    /\ pc = [a \in Attempts |-> "unsent"]
    /\ payload \in [Attempts -> Payloads]
    /\ answer = [a \in Attempts |-> NoAnswer]
    /\ applied = {}
    /\ void = {}

Reply(a, kind, body) ==
    /\ pc' = [pc EXCEPT ![a] = "answered"]
    /\ answer' = [answer EXCEPT ![a] = [kind |-> kind, body |-> body]]

-----------------------------------------------------------------------------
\* SET EX of a pending record, and the others find the key taken.
SetPending(a, life) ==
    /\ record' = Pending(payload[a])
    /\ ttl' = life
    /\ pc' = [pc EXCEPT ![a] = "claimed"]

FindTaken(a) ==
    /\ record # Nothing
    /\ pc' = [pc EXCEPT ![a] = "refused"]
    /\ UNCHANGED <<record, ttl>>

\* Faulty variants: SET without NX, and without EX.
ClaimWithoutNX(a) ==
    /\ pc[a] = "unsent"
    /\ SetPending(a, PendingTTL)
    /\ UNCHANGED <<payload, answer, applied, void>>

ClaimWithoutEX(a) ==
    /\ pc[a] = "unsent"
    /\ (record = Nothing /\ SetPending(a, 0)) \/ FindTaken(a)
    /\ UNCHANGED <<payload, answer, applied, void>>

\* SET NX EX: the first attempt claims the key.
Claim(a) ==
    /\ pc[a] = "unsent"
    /\ (record = Nothing /\ SetPending(a, PendingTTL)) \/ FindTaken(a)
    /\ UNCHANGED <<payload, answer, applied, void>>

\* GET by an attempt that found the key taken.  The record may be gone by now:
\* json.loads(None) raises.
Lookup(a) ==
    /\ pc[a] = "refused"
    /\ CASE record = Nothing -> Reply(a, "error", NoAttempt)
         [] record # Nothing /\ record.payload # payload[a] ->
              Reply(a, "conflict", NoAttempt)
         [] record = Pending(payload[a]) -> Reply(a, "in progress", NoAttempt)
         [] OTHER -> Reply(a, record.kind, record.body)
    /\ UNCHANGED <<record, ttl, payload, applied, void>>

\* The mutation changes the file.
Mutate(a) ==
    /\ pc[a] = "claimed"
    /\ applied' = applied \cup {a}
    /\ pc' = [pc EXCEPT ![a] = "mutated"]
    /\ UNCHANGED <<record, ttl, payload, answer, void>>

\* The goal or the parent does not exist: an answer like any other.
MutateNothing(a) ==
    /\ pc[a] = "claimed"
    /\ pc' = [pc EXCEPT ![a] = "missed"]
    /\ UNCHANGED <<record, ttl, payload, answer, applied, void>>

\* It raises, having changed nothing.
Refuse(a) ==
    /\ "refuse" \in Faults
    /\ pc[a] = "claimed"
    /\ pc' = [pc EXCEPT ![a] = "raised"]
    /\ UNCHANGED <<record, ttl, payload, answer, applied, void>>

\* It raises although it has done its work.
RefuseLate(a) ==
    /\ "late refusal" \in Faults
    /\ pc[a] \in {"mutated", "missed"}
    /\ pc' = [pc EXCEPT ![a] = "raised"]
    /\ void' = void \cup {"late refusal"}
    /\ UNCHANGED <<record, ttl, payload, answer, applied>>

\* DEL, and the exception goes on to the client.
Withdraw(a) ==
    /\ pc[a] = "raised"
    /\ record' = Nothing
    /\ ttl' = 0
    /\ Reply(a, "error", NoAttempt)
    /\ UNCHANGED <<payload, applied, void>>

\* SET EX of the answer, which is then sent.
Record(a) ==
    /\ pc[a] \in {"mutated", "missed"}
    /\ LET kind == IF pc[a] = "mutated" THEN "done" ELSE "not found"
       IN  /\ record' = Complete(payload[a], kind, a)
           /\ Reply(a, kind, a)
    /\ ttl' = CompleteTTL
    /\ UNCHANGED <<payload, applied, void>>

-----------------------------------------------------------------------------
\* The worker dies; the client hears nothing.
Crash(a) ==
    /\ "crash" \in Faults
    /\ pc[a] \in {"claimed", "mutated", "missed", "raised", "refused"}
    /\ pc' = [pc EXCEPT ![a] = "dead"]
    /\ void' = IF pc[a] = "refused" THEN void ELSE void \cup {"crash"}
    /\ UNCHANGED <<record, ttl, payload, answer, applied>>

\* A claim that is still being worked on.
Busy == \E a \in Attempts : pc[a] \in {"claimed", "mutated", "missed", "raised"}

\* Time passes and Redis drops a record whose time is up.  That a pending
\* record outlives its request is an assumption: `slow` is its failure.
Tick ==
    /\ ttl > 0
    /\ Busy /\ ttl = 1 => "slow" \in Faults
    /\ ttl' = ttl - 1
    /\ record' = IF ttl = 1 THEN Nothing ELSE record
    /\ void' = IF ttl > 1 THEN void
               ELSE void \cup (IF Busy THEN {"slow"} ELSE {})
                      \cup (IF record.status = "complete" THEN {"expired"}
                            ELSE {})
    /\ UNCHANGED <<pc, payload, answer, applied>>

Work(a) ==
    Lookup(a) \/ Mutate(a) \/ MutateNothing(a) \/ Withdraw(a) \/ Record(a)

RetryNext ==
    \/ Tick
    \/ \E a \in Attempts :
          \/ Claim(a) \/ Lookup(a) \/ Mutate(a) \/ MutateNothing(a)
          \/ Refuse(a) \/ RefuseLate(a)
          \/ Withdraw(a) \/ Record(a) \/ Crash(a)

RetrySpec == RetryInit /\ [][RetryNext]_retryVars

\* A worker that is alive goes on, and time does.
RetryFairness == WF_retryVars(Tick) /\ \A a \in Attempts : WF_retryVars(Work(a))

RetryFairSpec == RetrySpec /\ RetryFairness

-----------------------------------------------------------------------------
RetryTypeOK ==
    /\ record \in Records
    /\ ttl \in 0..(PendingTTL + CompleteTTL)
    /\ record = Nothing <=> ttl = 0
    /\ pc \in [Attempts -> {"unsent", "claimed", "refused", "mutated",
                            "missed", "raised", "answered", "dead"}]
    /\ payload \in [Attempts -> Payloads]
    /\ answer \in [Attempts -> Answers]
    /\ applied \subseteq Attempts
    /\ void \subseteq {"late refusal", "crash", "slow", "expired"}

\* As long as no worker dies or stalls between claim and answer and no lock is
\* lost, however attempts overlap and fail, the write takes effect at most
\* once in the lifetime of the record ("Unique key used to safely retry this
\* write request.", api.py:406).
AppliedOnce == void = {} => Cardinality(applied) =< 1

\* A client that is told its write is done, or found nothing to change, is
\* told so of a write that is, or is not, in the file and that asked for the
\* same thing, even when attempts overtook each other or workers died.
DoneIsTrue ==
    \A a \in Attempts : answer[a].kind \in Outcomes =>
        /\ answer[a].kind = "done" <=> answer[a].body \in applied
        /\ payload[answer[a].body] = payload[a]

\* What a client may rely on, whatever it has sent so far.
RetrySound == RetryTypeOK /\ AppliedOnce /\ DoneIsTrue

\* A key whose worker died is not refused for ever: its pending record goes
\* and a retry can claim it (idempotency_pending_ttl_s, api.py:104).
ClaimsEnd == record.status = "pending" ~> record.status # "pending"
=============================================================================
