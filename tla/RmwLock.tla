------------------------------- MODULE RmwLock -------------------------------
(***************************************************************************)
(* The cross-worker read-modify-write lock of web_app/redis_client.py       *)
(* (rmw_lock) and the transaction the data interfaces run under it          *)
(* (edit_model: lock, load, change, save, release) for one lock name, which *)
(* is one JSON file.                                                        *)
(*                                                                          *)
(* A worker is a request thread of a gunicorn process.  It takes the lock   *)
(* with SET NX PX, a second thread renews the lease while the block runs,   *)
(* and both talk to Redis one command at a time, so every other worker may  *)
(* act between two of their commands.  Time is a tick that shortens the     *)
(* lease.  Nothing bounds how late a thread may run: `late` records that a  *)
(* lease was left to age by more than Slack beyond its renewal interval,    *)
(* and the guarantees that need punctual renewals are stated under ~late.   *)
(***************************************************************************)
EXTENDS Integers, FiniteSets

CONSTANTS
    Workers,    \* request threads
    MaxEdits,   \* bound: edit_model calls the model follows
    TTL,        \* lease length in ticks (rmw_lock_timeout_s)
    Interval,   \* ticks between renewals (min(renewal interval, TTL / 3))
    Slack,      \* how late a renewal or a release may run and still be punctual
    Block,      \* ticks an acquisition may wait (rmw_lock_blocking_timeout_s)
    MaxDepth    \* bound: nesting of blocks on one lock in one thread

ASSUME NumbersAssumption ==
    /\ MaxEdits \in Nat /\ TTL \in Nat /\ Interval \in Nat
    /\ Slack \in Nat /\ Block \in Nat /\ MaxDepth \in Nat

\* Renewals are spaced so that a punctual one finds the lease alive.
ASSUME LeaseAssumption == Interval + Slack < TTL

Edits == 1..MaxEdits
NoToken == 0
Tokens == Edits \cup {NoToken}

VARIABLES
    \* Redis
    owner,      \* value of the lock key, NoToken when there is none
    ttl,        \* ticks the key still has to live
    \* each worker
    pc,         \* where its thread is
    token,      \* the token of its current acquisition
    waited,     \* ticks it has waited for the lock
    depth,      \* _lock_depth: blocks it has open on this name
    renewer,    \* its renewal thread
    lost,       \* the ownership_lost event
    snap,       \* what it loaded
    outcome,    \* how its block ended
    \* the file and what callers were told
    file,       \* edits the JSON file contains
    acked,      \* edits whose block ended without an exception
    \* bookkeeping of the model
    nextEdit,   \* tokens handed out so far (uuid4: never repeated)
    breached,   \* edits during whose span another worker took the lock
    late        \* a lease was not renewed or released on time

redisVars == <<owner, ttl>>
fileVars == <<file, acked>>
vars == <<owner, ttl, pc, token, waited, depth, renewer, lost, snap, outcome,
          file, acked, nextEdit, breached, late>>

Pcs == {"idle", "trying", "held", "body", "leaving", "deleting"}

TypeOK ==
    /\ owner \in Tokens
    /\ ttl \in 0..TTL
    /\ pc \in [Workers -> Pcs]
    /\ token \in [Workers -> Tokens]
    /\ waited \in [Workers -> 0..Block]
    /\ depth \in [Workers -> Nat]
    /\ renewer \in [Workers -> {"off", "waiting", "watched"}]
    /\ lost \in [Workers -> BOOLEAN]
    /\ snap \in [Workers -> SUBSET Edits]
    /\ outcome \in [Workers -> {"none", "wrote", "same", "raised"}]
    /\ file \in SUBSET Edits
    /\ acked \in SUBSET Edits
    /\ nextEdit \in 0..MaxEdits
    /\ breached \in SUBSET Edits
    /\ late \in BOOLEAN

Init ==
    /\ owner = NoToken
    /\ ttl = 0
    /\ pc = [w \in Workers |-> "idle"]
    /\ token = [w \in Workers |-> NoToken]
    /\ waited = [w \in Workers |-> 0]
    /\ depth = [w \in Workers |-> 0]
    /\ renewer = [w \in Workers |-> "off"]
    /\ lost = [w \in Workers |-> FALSE]
    /\ snap = [w \in Workers |-> {}]
    /\ outcome = [w \in Workers |-> "none"]
    /\ file = {}
    /\ acked = {}
    /\ nextEdit = 0
    /\ breached = {}
    /\ late = FALSE

\* A worker between the SET that gave it the lock and the end of the release.
InSpan(w) == pc[w] \in {"held", "body", "leaving", "deleting"}

OwnsKey(w) == owner = token[w]

-----------------------------------------------------------------------------
(* Entering the block.                                                     *)

\* edit_model is called: a token is drawn and the acquisition loop starts its
\* clock.
Start(w) ==
    /\ pc[w] = "idle"
    /\ nextEdit < MaxEdits
    /\ nextEdit' = nextEdit + 1
    /\ token' = [token EXCEPT ![w] = nextEdit + 1]
    /\ pc' = [pc EXCEPT ![w] = "trying"]
    /\ waited' = [waited EXCEPT ![w] = 0]
    /\ UNCHANGED <<owner, ttl, depth, renewer, lost, snap, outcome, file,
                   acked, breached, late>>

\* The lock key is set with a lease, and the renewal thread started.
SetKey(w, lease) ==
    /\ owner' = token[w]
    /\ ttl' = lease
    /\ pc' = [pc EXCEPT ![w] = "held"]
    /\ depth' = [depth EXCEPT ![w] = 1]
    /\ renewer' = [renewer EXCEPT ![w] = "waiting"]
    /\ lost' = [lost EXCEPT ![w] = FALSE]
    /\ outcome' = [outcome EXCEPT ![w] = "none"]
    /\ breached' = breached \cup
         {e \in Edits : \E v \in Workers : InSpan(v) /\ token[v] = e}
    /\ UNCHANGED <<token, waited, snap, file, acked, nextEdit, late>>

\* Faulty variant: SET without NX.
AcquireWithoutNX(w) == pc[w] = "trying" /\ SetKey(w, TTL)

\* SET key token NX PX succeeds.
Acquire(w) == pc[w] = "trying" /\ owner = NoToken /\ SetKey(w, TTL)

\* Faulty variant: the deadline never passes.
GiveUpNever(w) ==
    /\ pc[w] = "trying"
    /\ owner # NoToken
    /\ waited[w] > Block
    /\ pc' = [pc EXCEPT ![w] = "idle"]
    /\ token' = [token EXCEPT ![w] = NoToken]
    /\ UNCHANGED <<owner, ttl, waited, depth, renewer, lost, snap,
                   outcome, file, acked, nextEdit, breached, late>>

\* SET NX fails once more and the deadline has passed: TimeoutError.
GiveUp(w) ==
    /\ pc[w] = "trying"
    /\ owner # NoToken
    /\ waited[w] = Block
    /\ pc' = [pc EXCEPT ![w] = "idle"]
    /\ token' = [token EXCEPT ![w] = NoToken]
    /\ UNCHANGED <<owner, ttl, waited, depth, renewer, lost, snap,
                   outcome, file, acked, nextEdit, breached, late>>

-----------------------------------------------------------------------------
(* The block: load, change, save.                                          *)

\* Faulty variant: the block starts from what the worker had in memory.
LoadCached(w) ==
    /\ pc[w] = "held"
    /\ pc' = [pc EXCEPT ![w] = "body"]
    /\ UNCHANGED <<owner, ttl, token, waited, depth, renewer, lost, snap,
                   outcome, file, acked, nextEdit, breached, late>>

\* edit_model reads the file afresh, inside the lock.
Load(w) ==
    /\ pc[w] = "held"
    /\ snap' = [snap EXCEPT ![w] = file]
    /\ pc' = [pc EXCEPT ![w] = "body"]
    /\ UNCHANGED <<owner, ttl, token, waited, depth, renewer, lost, outcome,
                   file, acked, nextEdit, breached, late>>

\* The block enters rmw_lock on the same name again, without touching Redis.
Reenter(w) ==
    /\ pc[w] = "body"
    /\ depth[w] < MaxDepth
    /\ depth' = [depth EXCEPT ![w] = @ + 1]
    /\ UNCHANGED <<owner, ttl, pc, token, waited, renewer, lost, snap, outcome,
                   file, acked, nextEdit, breached, late>>

\* The inner block ends and leaves the lock to the outer one.
ExitNested(w) ==
    /\ pc[w] = "body"
    /\ depth[w] > 1
    /\ depth' = [depth EXCEPT ![w] = @ - 1]
    /\ UNCHANGED <<owner, ttl, pc, token, waited, renewer, lost, snap, outcome,
                   file, acked, nextEdit, breached, late>>

\* The outer block ends: save the changed model (one atomic replacement of
\* the file), skip the write when nothing changed, or discard on an exception.
EndBody(w) ==
    /\ pc[w] = "body"
    /\ depth[w] = 1
    /\ \/ /\ file' = snap[w] \cup {token[w]}
          /\ outcome' = [outcome EXCEPT ![w] = "wrote"]
       \/ /\ outcome' \in {[outcome EXCEPT ![w] = "same"],
                           [outcome EXCEPT ![w] = "raised"]}
          /\ UNCHANGED file
    /\ pc' = [pc EXCEPT ![w] = "leaving"]
    /\ depth' = [depth EXCEPT ![w] = 0]
    /\ UNCHANGED <<owner, ttl, token, waited, renewer, lost, snap, acked,
                   nextEdit, breached, late>>

-----------------------------------------------------------------------------
(* The renewal thread.                                                     *)

\* The interval has passed: WATCH and GET the key.
RenewRead(w) ==
    /\ renewer[w] = "waiting"
    /\ OwnsKey(w) => ttl =< TTL - Interval
    /\ IF OwnsKey(w)
         THEN /\ renewer' = [renewer EXCEPT ![w] = "watched"]
              /\ UNCHANGED lost
         ELSE /\ renewer' = [renewer EXCEPT ![w] = "off"]
              /\ lost' = [lost EXCEPT ![w] = TRUE]
    /\ UNCHANGED <<owner, ttl, pc, token, waited, depth, snap, outcome, file,
                   acked, nextEdit, breached, late>>

\* EXEC of PEXPIRE.  The watched key was written since exactly when it is no
\* longer ours; EXEC then aborts (or finds no key) and the next read gives up.
RenewWrite(w) ==
    /\ renewer[w] = "watched"
    /\ IF OwnsKey(w)
         THEN /\ ttl' = TTL
              /\ renewer' = [renewer EXCEPT ![w] = "waiting"]
              /\ UNCHANGED lost
         ELSE /\ renewer' = [renewer EXCEPT ![w] = "off"]
              /\ lost' = [lost EXCEPT ![w] = TRUE]
              /\ UNCHANGED ttl
    /\ UNCHANGED <<owner, pc, token, waited, depth, snap, outcome, file, acked,
                   nextEdit, breached, late>>

\* Redis does not answer: the thread notes the loss and ends.
RenewFails(w) ==
    /\ renewer[w] # "off"
    /\ renewer' = [renewer EXCEPT ![w] = "off"]
    /\ lost' = [lost EXCEPT ![w] = TRUE]
    /\ UNCHANGED <<owner, ttl, pc, token, waited, depth, snap, outcome, file,
                   acked, nextEdit, breached, late>>

-----------------------------------------------------------------------------
(* Leaving the block.                                                      *)

\* The with statement is over.  A lost lease turns a clean exit into a
\* RuntimeError; otherwise the caller is told that the edit is done.
Finish(w, isLost) ==
    /\ pc' = [pc EXCEPT ![w] = "idle"]
    /\ token' = [token EXCEPT ![w] = NoToken]
    /\ lost' = [lost EXCEPT ![w] = FALSE]
    /\ snap' = [snap EXCEPT ![w] = {}]
    /\ outcome' = [outcome EXCEPT ![w] = "none"]
    /\ acked' = IF outcome[w] = "wrote" /\ ~isLost
                  THEN acked \cup {token[w]} ELSE acked

\* Stop and join the renewal thread, then WATCH and GET the key.
ReleaseRead(w) ==
    /\ pc[w] = "leaving"
    /\ renewer[w] # "watched"
    /\ renewer' = [renewer EXCEPT ![w] = "off"]
    /\ IF OwnsKey(w)
         THEN /\ pc' = [pc EXCEPT ![w] = "deleting"]
              /\ UNCHANGED <<token, lost, snap, outcome, acked>>
         ELSE Finish(w, TRUE)
    /\ UNCHANGED <<owner, ttl, waited, depth, file, nextEdit, breached, late>>

\* Faulty variant: DEL without comparing the token.
ReleaseDeleteAny(w) ==
    /\ pc[w] = "deleting"
    /\ owner' = NoToken
    /\ ttl' = 0
    /\ Finish(w, lost[w])
    /\ UNCHANGED <<waited, depth, renewer, file, nextEdit, breached, late>>

\* EXEC of DEL: the key goes only if it still carries our token.
ReleaseDelete(w) ==
    /\ pc[w] = "deleting"
    /\ IF OwnsKey(w)
         THEN /\ owner' = NoToken
              /\ ttl' = 0
              /\ Finish(w, lost[w])
         ELSE /\ Finish(w, TRUE)
              /\ UNCHANGED redisVars
    /\ UNCHANGED <<waited, depth, renewer, file, nextEdit, breached, late>>

\* Redis does not answer the release: the key stays until it expires.
ReleaseFails(w) ==
    /\ pc[w] \in {"leaving", "deleting"}
    /\ renewer[w] # "watched"
    /\ renewer' = [renewer EXCEPT ![w] = "off"]
    /\ Finish(w, TRUE)
    /\ UNCHANGED <<owner, ttl, waited, depth, file, nextEdit, breached, late>>

-----------------------------------------------------------------------------
(* The environment.                                                        *)

\* The worker process dies, with its threads, and gunicorn starts another.
Crash(w) ==
    /\ pc[w] # "idle"
    /\ pc' = [pc EXCEPT ![w] = "idle"]
    /\ token' = [token EXCEPT ![w] = NoToken]
    /\ waited' = [waited EXCEPT ![w] = 0]
    /\ depth' = [depth EXCEPT ![w] = 0]
    /\ renewer' = [renewer EXCEPT ![w] = "off"]
    /\ lost' = [lost EXCEPT ![w] = FALSE]
    /\ snap' = [snap EXCEPT ![w] = {}]
    /\ outcome' = [outcome EXCEPT ![w] = "none"]
    /\ UNCHANGED <<owner, ttl, file, acked, nextEdit, breached, late>>

\* A lease some live worker relies on has aged past its renewal and the slack.
Overdue == \E w \in Workers : /\ InSpan(w)
                              /\ OwnsKey(w)
                              /\ ttl =< TTL - Interval - Slack

\* A unit of time passes; Redis drops the key when its time is up.
Tick ==
    /\ ttl' = IF ttl = 0 THEN 0 ELSE ttl - 1
    /\ owner' = IF ttl = 1 THEN NoToken ELSE owner
    /\ waited' = [w \in Workers |->
                    IF pc[w] = "trying" /\ waited[w] < Block
                      THEN waited[w] + 1 ELSE waited[w]]
    /\ late' = (late \/ Overdue)
    /\ UNCHANGED <<pc, token, depth, renewer, lost, snap, outcome, file, acked,
                   nextEdit, breached>>

-----------------------------------------------------------------------------
Step(w) ==
    \/ Acquire(w) \/ GiveUp(w) \/ Load(w) \/ ExitNested(w) \/ EndBody(w)
    \/ ReleaseRead(w) \/ ReleaseDelete(w) \/ ReleaseFails(w)

Renewal(w) == RenewRead(w) \/ RenewWrite(w) \/ RenewFails(w)

Next ==
    \/ Tick
    \/ \E w \in Workers :
          \/ Start(w) \/ Acquire(w) \/ GiveUp(w)
          \/ Load(w) \/ Reenter(w) \/ ExitNested(w) \/ EndBody(w)
          \/ RenewRead(w) \/ RenewWrite(w) \/ RenewFails(w)
          \/ ReleaseRead(w) \/ ReleaseDelete(w) \/ ReleaseFails(w)
          \/ Crash(w)

\* Clocks advance, and threads that have something to do run eventually.
\* Nothing is assumed about when: that is what `late` is for.
Fairness ==
    /\ WF_vars(Tick)
    /\ \A w \in Workers : WF_vars(Step(w)) /\ WF_vars(Renewal(w))

Spec == Init /\ [][Next]_vars

FairSpec == Spec /\ Fairness

-----------------------------------------------------------------------------
(* Properties.                                                             *)

\* As long as every lease has been renewed and released on time, a worker
\* between taking and releasing the lock is the one the lock key names: no
\* two workers are ever inside the load-change-save span together
\* (rmw_lock's renewal thread, redis_client.py:191).
LeaseCoversSpan == ~late => \A w \in Workers : InSpan(w) => OwnsKey(w)

\* However late any thread runs, an edit reported as done ran with the lock
\* to itself: a span that another worker's acquisition fell into always ends
\* in an exception ("Losing ownership is surfaced to the caller",
\* redis_client.py:157).
AckMeansExclusive == acked \cap breached = {}

\* No edit reported as done is missing from the file ("without this two
\* gunicorn workers can interleave and lose one update", redis_client.py:150).
NoLostUpdate == acked \subseteq file

\* While renewals are punctual, lock, load, save and release together behave
\* as one atomic edit of the file that loses none of the earlier ones.
Serial == INSTANCE SerialEdits WITH void <- late
ImplementsSerialEdits == Serial!Spec

\* A worker waiting for the lock gets it or a TimeoutError: a lock nobody
\* releases cannot hang it (blocking_timeout_s, redis_client.py:183).
AcquisitionEnds ==
    \A w \in Workers : pc[w] = "trying" ~> pc[w] # "trying"

\* The lock of a worker that died, or could not reach Redis to release it,
\* does not stay taken: its lease runs out (SET ... PX, redis_client.py:185).
AbandonedLockFreed ==
    \A e \in Edits :
        (owner = e /\ \A w \in Workers : token[w] # e) ~> (owner # e)

\* Neither of the two lasts for ever.
LocksEnd == AcquisitionEnds /\ AbandonedLockFreed
=============================================================================
