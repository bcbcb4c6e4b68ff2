--------------------------- MODULE OperationsProofs ---------------------------
(***************************************************************************)
(* Proofs about the terminals, about deployments, and about the lock that   *)
(* every document of the server is edited under.                            *)
(*                                                                          *)
(* Terminals: a number of a descriptor is held by one terminal from Create  *)
(* to Close (NumbersHeld), and whoever may still use it after that is among *)
(* the reused as soon as somebody else gets it (Alone).  So what a reader   *)
(* or a request reaches through the number of any other terminal is that    *)
(* terminal, and its bytes are counted from the shell to the page           *)
(* (BufferSound, PageSound); a character that the page gets by halves was   *)
(* cut by an answer (Legible).                                              *)
(*                                                                          *)
(* Deployments: at each step of the script the invariant accounts for each  *)
(* unit file, each timer and each release: what is as it was found, what is *)
(* the candidate's, and what is backed up.                                  *)
(*                                                                          *)
(* The lock: for every set of workers, every number of edits and every      *)
(* lease length, renewal interval and slack with Interval + Slack < TTL.    *)
(* Identity: a token belongs to one acquisition of one worker, for ever.    *)
(* Exclusion: the lock key never names a breached acquisition, so an        *)
(* acquisition that still finds its token at release time was never         *)
(* overlapped.  Punctual: until a lease is overdue, a worker in its span is *)
(* named by a live key, holds the current file as its snapshot, and its     *)
(* saved edit is in the file.                                               *)
(***************************************************************************)
EXTENDS Terminal, Deployment, RmwLock, FiniteSetTheorems, SequenceTheorems,
        WellFoundedInduction, TLAPS

-----------------------------------------------------------------------------
(* The terminals.                                                          *)

\* The steps of a reader that may still use its number.
Awake == {"check", "select", "poll", "read"}
TerminalRecords ==
    [alive : BOOLEAN, fd : Numbers \cup {0}, shell : {"none", "running", "gone"},
     written : Nat, inner : SUBSET Nat, taken : Nat, buffer : Seq(Sids \X Nat),
     dropped : Nat, reader : Awake \cup {"none", "told", "error", "exited", "end"},
     strangers : SUBSET Sids]
ThreadRecords ==
    [does : {"nothing", "start", "hang up", "close", "use"}, sid : Sids \cup {NoSid},
     stale : SUBSET Sids]

\* What is known of a page.
Pages == [since : Nat, got : Seq(Sids \X Nat), torn : SUBSET (Sids \X Nat), cuts : SUBSET Nat]

\* Types. What a buffer and a page hold are bytes: whose, and the how manieth.
TerminalTyped ==
    /\ sessions \in SUBSET Sids
    /\ terminal \in [Sids -> TerminalRecords]
    /\ fds \in [Numbers -> Sids \cup {NoSid}]
    /\ thread \in [Threads -> ThreadRecords]
    /\ client \in [Sids -> Pages]
    /\ reused \in SUBSET Sids

\* Who starts a terminal, or still has sessions to reap, has the lock.
Locked ==
    \A t \in Threads :
        /\ thread[t].does = "start" => lock = t
        /\ thread[t].stale # {} => lock = t
        /\ thread[t].stale \subseteq sessions

\* A thread closes session a; its number is still held; or somebody may use it.
Closing(t, a) == thread[t].sid = a /\ thread[t].does \in {"hang up", "close"}
Held(a) == a \in sessions \/ \E t \in Threads : Closing(t, a)
Using(a) == \/ terminal[a].reader \in Awake
            \/ \E t \in Threads : thread[t].sid = a /\ thread[t].does = "use"

\* A session that somebody closes is not in the table, and nobody else closes it.
OneCloser ==
    \A t \in Threads :
        /\ thread[t].does \in {"hang up", "close", "use"} => thread[t].sid \in Sids
        /\ \A a \in Sids : Closing(t, a) =>
             /\ a \notin sessions
             /\ \A s \in Threads : Closing(s, a) => s = t

\* Numbers are held by the terminals that they stand for, and by no others.
NumbersHeld ==
    /\ \A a \in Sids : Held(a) => terminal[a].fd \in Numbers /\ fds[terminal[a].fd] = a
    /\ \A n \in Numbers : fds[n] # NoSid => terminal[fds[n]].fd = n /\ Held(fds[n])
    /\ \A a \in Sids : Using(a) => terminal[a].fd \in Numbers

\* Nobody else uses the number of a terminal that is not among the reused.
Alone ==
    \A a \in Sids \ reused, o \in Sids :
        Held(a) /\ o # a /\ terminal[o].fd = terminal[a].fd => ~Using(o)

\* The page of a terminal that was closed has gone.
Forgotten == \A a \in Sids : ~Held(a) => client[a] = NewClient

\* `got` is what one gets of terminal a's bytes up to `since`, if those up to
\* `dropped` may be missing.
Gapless(a, got, dropped, since) ==
    /\ \A i \in DOMAIN got : got[i][1] = a /\ got[i][2] =< since
    /\ Ordered(got)
    /\ \A n \in 1..since : n > dropped => \E i \in DOMAIN got : got[i][2] = n

\* What the page of terminal a has got.
PageSound(a) == Gapless(a, client[a].got, terminal[a].dropped, client[a].since)

\* The characters that it got by halves were cut by answers.
Legible(a) ==
    \A byte \in client[a].torn : Split(a, byte[2])

\* What its buffer holds: its own bytes, those that are taken and not dropped.
BufferSound(a) ==
    LET it == terminal[a]
    IN  /\ it.dropped =< it.taken /\ client[a].since =< it.taken
        /\ Len(it.buffer) = it.taken - it.dropped
        /\ \A i \in DOMAIN it.buffer : it.buffer[i] = <<a, it.dropped + i>>

\* What its reader knows.
ReaderSound(a) ==
    /\ terminal[a].reader # "error"
    /\ terminal[a].reader = "read" => Pending(a) \/ HungUp(a)
    /\ terminal[a].reader = "end" => HungUp(a) /\ ~Pending(a)

\* All that is promised of a terminal whose number nobody else used.
OwnSound ==
    \A a \in Sids \ reused :
        /\ terminal[a].strangers \subseteq {a}
        /\ PageSound(a) /\ Legible(a)
        /\ a \in sessions => BufferSound(a) /\ ReaderSound(a)

\* The inductive invariant of the terminals.
TermInv ==
    /\ TerminalTyped /\ Locked /\ OneCloser /\ NumbersHeld /\ Alone /\ Forgotten
    /\ OwnSound

\* Of a set of numbers `Min` is one of them: the least one, which is there
\* because the order of the numbers is well-founded.
LEMMA LeastOf ==
    ASSUME NEW S, S \subseteq Nat, S # {}
    PROVE  Min(S) \in S
  <1>1. PICK R : R = {ss \in Nat \X Nat : ss[1] < ss[2]}
    OBVIOUS
  <1>2. IsWellFoundedOn(R, Nat)
    BY <1>1, NatLessThanWellFounded DEF OpToRel
  <1>3. PICK n \in S : \A m \in S : <<m, n>> \notin R
    BY <1>2, WFMin
  <1>4. \A m \in S : ~(m < n)
    BY <1>1, <1>3
  <1>5. \A m \in S : n =< m
    BY <1>4
  <1> QED  BY <1>3, <1>5 DEF Min

\* `Max` of two numbers is the one that is not below the other.
LEMMA GreaterOfTwo ==
    ASSUME NEW i \in Nat, NEW j \in Nat
    PROVE  /\ Max({i, j}) \in {i, j}
           /\ Max({i, j}) >= i /\ Max({i, j}) >= j
  <1>1. \E x \in {i, j} : \A y \in {i, j} : x >= y
    OBVIOUS
  <1> QED  BY <1>1 DEF Max

\* The pigeonhole: there is one number more than there are terminals, so a free
\* one is there, and the lowest of them is a number.
LEMMA FreeNumber ==
    ASSUME TerminalTyped, NumbersHeld
    PROVE  LET n == Min({m \in Numbers : fds[m] = NoSid})
           IN  n \in Numbers /\ fds[n] = NoSid
  <1> DEFINE free == {m \in Numbers : fds[m] = NoSid}
  <1>1. IsFiniteSet(Sids) /\ Cardinality(Sids) \in Nat
    BY TerminalAssumption, FS_CardinalityType
  <1>2. free # {}
    <2> SUFFICES ASSUME free = {} PROVE FALSE
      OBVIOUS
    <2>1. fds \in Injection(Numbers, Sids)
      <3>1. \A m \in Numbers : fds[m] # NoSid /\ fds[m] \in Sids
        BY DEF TerminalTyped
      <3>2. \A m \in Numbers : terminal[fds[m]].fd = m
        BY <3>1 DEF NumbersHeld
      <3>3. fds \in [Numbers -> Sids]
        BY <3>1 DEF TerminalTyped
      <3> QED  BY <3>2, <3>3 DEF Injection, IsInjective
    <2>2. Cardinality(Numbers) =< Cardinality(Sids)
      BY <1>1, <2>1, FS_Injection
    <2>3. Cardinality(Numbers) = Cardinality(Sids) + 1
      <3> DEFINE k == Cardinality(Sids) + 1
      <3>1. k \in Nat \ {0}
        BY <1>1
      <3> HIDE DEF k
      <3>2. Cardinality(1..k) = k
        BY <3>1, FS_Interval
      <3> QED  BY <3>2 DEF Numbers, k
    <2> QED  BY <1>1, <2>2, <2>3
  <1>3. Min(free) \in free
    <2>1. free \subseteq Nat
      BY DEF Numbers
    <2> QED  BY <1>2, <2>1, LeastOf
  <1> QED  BY <1>3

\* What a request thread does.
Deeds == {"nothing", "start", "hang up", "close", "use"}

\* What a request thread does next changes its own record and keeps what it
\* still has to reap.
LEMMA TurnOf ==
    ASSUME TerminalTyped, NEW t \in Threads, NEW what \in Deeds, NEW a \in Sids \cup {NoSid},
           Turn(t, what, a)
    PROVE  /\ thread' \in [Threads -> ThreadRecords]
           /\ thread'[t].does = what /\ thread'[t].sid = a
           /\ thread'[t].stale = thread[t].stale
           /\ \A s \in Threads \ {t} : thread'[s] = thread[s]
  <1>1. thread' = [thread EXCEPT ![t] = [thread[t] EXCEPT !.does = what, !.sid = a]]
    BY DEF Turn
  <1>2. thread[t] \in ThreadRecords /\ thread \in [Threads -> ThreadRecords]
    BY DEF TerminalTyped
  <1> QED  BY <1>1, <1>2 DEF ThreadRecords, Deeds

\* A request thread that is done is idle, and the others go on.
LEMMA RestOf ==
    ASSUME TerminalTyped, NEW t \in Threads, Rest(t)
    PROVE  /\ thread' \in [Threads -> ThreadRecords]
           /\ thread'[t] = IdleThread
           /\ thread'[t].does = "nothing" /\ thread'[t].sid = NoSid
           /\ thread'[t].stale = {}
           /\ \A s \in Threads \ {t} : thread'[s] = thread[s]
  BY DEF Rest, TerminalTyped, ThreadRecords, IdleThread

\* What was cut stays cut, while a shell writes and while answers come.
LEMMA StaysSplit ==
    ASSUME NEW a \in Sids, NEW n, Split(a, n), terminal[a].inner \subseteq terminal'[a].inner,
           client[a].cuts \subseteq client'[a].cuts
    PROVE  Split(a, n)'
  <1>1. PICK c \in client[a].cuts : c + 1 \in terminal[a].inner /\ SameChar(a, c + 1, n)
    BY DEF Split
  <1>2. SameChar(a, c + 1, n)'
    BY <1>1 DEF SameChar
  <1> QED  BY <1>1, <1>2 DEF Split

LEMMA StaysLegible ==
    ASSUME NEW a \in Sids, Legible(a), terminal[a].inner \subseteq terminal'[a].inner,
           client'[a] = client[a]
    PROVE  Legible(a)'
  BY StaysSplit DEF Legible

\* The invariant survives a step that keeps the numbers with their terminals,
\* the pages and who uses which number, if it keeps the promises about each
\* terminal that never got a number somebody else used.
LEMMA Quiet ==
    ASSUME TermInv, TerminalTyped', Locked', OneCloser',
           UNCHANGED <<fds, client, reused>>,
           \A a \in Sids : /\ Held(a)' <=> Held(a)
                           /\ Using(a)' => Using(a) \/ Held(a)
                           /\ terminal'[a].fd = terminal[a].fd
                           /\ terminal'[a].dropped >= terminal[a].dropped
                           /\ terminal[a].inner \subseteq terminal'[a].inner,
           \A a \in Sids \ reused :
               /\ terminal'[a].strangers \subseteq {a}
               /\ a \in sessions' => BufferSound(a)' /\ ReaderSound(a)'
    PROVE  TermInv'
  <1> USE DEF TermInv
  <1>1. NumbersHeld'
    <2>1. \A a \in Sids : Held(a)' => terminal'[a].fd \in Numbers /\ fds'[terminal'[a].fd] = a
      BY DEF NumbersHeld
    <2>2. ASSUME NEW n \in Numbers, fds'[n] # NoSid
          PROVE  terminal'[fds'[n]].fd = n /\ Held(fds[n])'
      <3>1. PICK a \in Sids : fds[n] = a /\ fds'[n] = a
        BY <2>2 DEF TerminalTyped
      <3>2. terminal[a].fd = n /\ Held(a)
        BY <3>1, <2>2 DEF NumbersHeld
      <3>3. terminal'[a].fd = n /\ Held(a)'
        BY <3>2
      <3> QED  BY <3>1, <3>3 DEF Held, Closing
    <2>3. \A a \in Sids : Using(a)' => terminal'[a].fd \in Numbers
      BY DEF NumbersHeld
    <2> QED  BY <2>1, <2>2, <2>3 DEF NumbersHeld
  <1>2. Alone'
    <2>1. SUFFICES ASSUME NEW a \in Sids \ reused, NEW o \in Sids,
                          Held(a), o # a, terminal[o].fd = terminal[a].fd, Using(o)'
                   PROVE  FALSE
      BY DEF Alone
    <2>2. ~Using(o)
      BY <2>1 DEF Alone
    <2>3. ~Held(o)
      BY <2>1 DEF NumbersHeld
    <2> QED  BY <2>1, <2>2, <2>3
  <1>3. Forgotten'
    BY DEF Forgotten
  <1>4. OwnSound'
    <2>1. SUFFICES ASSUME NEW a \in Sids \ reused
                   PROVE  PageSound(a)' /\ Legible(a)'
      BY DEF OwnSound
    <2>2. PageSound(a) /\ Legible(a)
      BY DEF OwnSound
    <2>3. \A n \in 1..client'[a].since : n > terminal'[a].dropped => n > terminal[a].dropped
      BY SMTT(30) DEF TerminalTyped, TerminalRecords
    <2>4. PageSound(a)'
      BY <2>2, <2>3 DEF PageSound, Gapless
    <2>5. Legible(a)'
      BY <2>2, StaysLegible
    <2> QED  BY <2>4, <2>5
  <1> QED  BY <1>1, <1>2, <1>3, <1>4

\* The invariant survives a step that changes only how far the reader of one
\* terminal is, and whether that terminal is alive, as Check, Select, PollShell
\* and the last step of Read do.
LEMMA ReaderOnly ==
    ASSUME TermInv, NEW a \in Sids, NEW it \in TerminalRecords,
           terminal' = [terminal EXCEPT ![a] = it], ShellOnly,
           it.fd = terminal[a].fd, it.dropped = terminal[a].dropped,
           it.taken = terminal[a].taken, it.buffer = terminal[a].buffer,
           it.strangers = terminal[a].strangers, terminal[a].inner \subseteq it.inner,
           it.reader \in Awake => terminal[a].reader \in Awake,
           a \in sessions \ reused => ReaderSound(a)'
    PROVE  TermInv'
  <1> USE DEF TermInv, ShellOnly
  <1>1. /\ terminal \in [Sids -> TerminalRecords] /\ terminal'[a] = it
        /\ \A b \in Sids \ {a} : terminal'[b] = terminal[b]
        /\ \A b \in Sids : terminal[b].dropped \in Nat
    BY SMTT(30) DEF TerminalTyped, TerminalRecords
  <1>2. TerminalTyped'
    BY <1>1 DEF TerminalTyped
  <1>3. Locked' /\ OneCloser'
    BY ZenonT(40) DEF Locked, OneCloser, Closing
  <1>4. \A b \in Sids : /\ Held(b)' <=> Held(b)
                        /\ Using(b)' => Using(b)
    BY <1>1 DEF Held, Closing, Using
  <1>5. \A b \in Sids : /\ terminal'[b].fd = terminal[b].fd
                        /\ terminal'[b].dropped >= terminal[b].dropped
                        /\ terminal[b].inner \subseteq terminal'[b].inner
    BY <1>1
  <1>6. ASSUME NEW b \in Sids \ reused
        PROVE  /\ terminal'[b].strangers \subseteq {b}
               /\ b \in sessions' => BufferSound(b)' /\ ReaderSound(b)'
    <2>1. /\ terminal[b].strangers \subseteq {b}
          /\ b \in sessions => BufferSound(b) /\ ReaderSound(b)
      BY DEF OwnSound
    <2>2. CASE b = a
      BY <1>1, <2>1, <2>2 DEF BufferSound
    <2>3. CASE b # a
      <3>1. terminal'[b] = terminal[b]
        BY <1>1, <2>3
      <3> QED  BY <2>1, <3>1 DEF BufferSound, ReaderSound, Pending, HungUp
    <2> QED  BY <2>2, <2>3
  <1> QED  BY <1>2, <1>3, <1>4, <1>5, <1>6, Quiet

\* A reader that leaves its loop changes the record of its terminal only.
LEMMA QuitIs ==
    ASSUME TerminalTyped, NEW a \in Sids, NEW why \in {"told", "error", "exited", "end"},
           Quit(a, why)
    PROVE  \E it \in TerminalRecords :
             /\ terminal' = [terminal EXCEPT ![a] = it]
             /\ it = [terminal[a] EXCEPT !.reader = IF a \in sessions THEN why ELSE "none",
                                         !.alive = FALSE]
  <1> DEFINE it == [terminal[a] EXCEPT !.reader = IF a \in sessions THEN why ELSE "none",
                                       !.alive = FALSE]
  <1>1. terminal[a] \in TerminalRecords
    BY DEF TerminalTyped
  <1>2. it \in TerminalRecords
    BY ZenonT(40), <1>1 DEF TerminalRecords
  <1>3. terminal' = [terminal EXCEPT ![a] = it]
    BY <1>1 DEF Quit, TerminalRecords
  <1> QED  BY <1>2, <1>3

\* Leaving the loop keeps the invariant, if the reason it gives is true.
LEMMA QuitStep ==
    ASSUME TermInv, NEW a \in Sids, NEW why \in {"told", "error", "exited", "end"},
           Quit(a, why), ShellOnly,
           a \in sessions \ reused =>
             why # "error" /\ (why = "end" => HungUp(a) /\ ~Pending(a))
    PROVE  TermInv'
  <1>1. PICK it \in TerminalRecords :
          /\ terminal' = [terminal EXCEPT ![a] = it]
          /\ it = [terminal[a] EXCEPT !.reader = IF a \in sessions THEN why ELSE "none",
                                      !.alive = FALSE]
    BY QuitIs DEF TermInv
  <1>2. terminal \in [Sids -> TerminalRecords] /\ terminal[a] \in TerminalRecords
    BY DEF TermInv, TerminalTyped
  <1>3. /\ it.fd = terminal[a].fd /\ it.dropped = terminal[a].dropped
        /\ it.taken = terminal[a].taken /\ it.buffer = terminal[a].buffer
        /\ it.written = terminal[a].written /\ it.shell = terminal[a].shell
        /\ it.strangers = terminal[a].strangers /\ it.inner = terminal[a].inner
        /\ it.reader = IF a \in sessions THEN why ELSE "none"
    BY <1>1, <1>2 DEF TerminalRecords
  <1>4. terminal'[a] = it
    BY <1>1, <1>2
  <1>5. a \in sessions \ reused => ReaderSound(a)'
    BY <1>3, <1>4 DEF ReaderSound, HungUp, Pending
  <1>6. it.reader \notin Awake
    BY <1>3 DEF Awake
  <1> QED  BY <1>1, <1>3, <1>5, <1>6, ReaderOnly

\* A reader that goes on changes the record of its terminal only.
LEMMA ReaderIs ==
    ASSUME TerminalTyped, NEW a \in Sids, NEW at \in Awake, Reader(a, at)
    PROVE  \E it \in TerminalRecords :
             /\ terminal' = [terminal EXCEPT ![a] = it]
             /\ it = [terminal[a] EXCEPT !.reader = at]
  <1> DEFINE it == [terminal[a] EXCEPT !.reader = at]
  <1>1. terminal[a] \in TerminalRecords
    BY DEF TerminalTyped
  <1>2. it \in TerminalRecords
    BY <1>1 DEF TerminalRecords
  <1>3. terminal' = [terminal EXCEPT ![a] = it]
    BY <1>1 DEF Reader, TerminalRecords
  <1> QED  BY <1>2, <1>3

\* Going on keeps the invariant, if what select promised the read is true.
LEMMA ReaderStep ==
    ASSUME TermInv, NEW a \in Sids, NEW at \in Awake, Reader(a, at), ShellOnly,
           terminal[a].reader \in Awake,
           a \in sessions \ reused => (at = "read" => Pending(a) \/ HungUp(a))
    PROVE  TermInv'
  <1>1. PICK it \in TerminalRecords : /\ terminal' = [terminal EXCEPT ![a] = it]
                                      /\ it = [terminal[a] EXCEPT !.reader = at]
    BY ReaderIs DEF TermInv
  <1>2. terminal \in [Sids -> TerminalRecords] /\ terminal[a] \in TerminalRecords
    BY DEF TermInv, TerminalTyped
  <1>3. /\ it.fd = terminal[a].fd /\ it.dropped = terminal[a].dropped
        /\ it.taken = terminal[a].taken /\ it.buffer = terminal[a].buffer
        /\ it.written = terminal[a].written /\ it.shell = terminal[a].shell
        /\ it.strangers = terminal[a].strangers /\ it.reader = at
        /\ it.inner = terminal[a].inner
    BY <1>1, <1>2 DEF TerminalRecords
  <1>4. terminal'[a] = it
    BY <1>1, <1>2
  <1>5. a \in sessions \ reused => ReaderSound(a)'
    BY <1>3, <1>4 DEF ReaderSound, HungUp, Pending, Awake
  <1> QED  BY <1>1, <1>3, <1>5, ReaderOnly

\* What a shell writes, and that it exits, disturbs nobody.
LEMMA WritesStep ==
    ASSUME TermInv, NEW a \in Sids, ShellWrites(a) \/ ShellExits(a)
    PROVE  TermInv'
  <1>1. terminal \in [Sids -> TerminalRecords] /\ terminal[a] \in TerminalRecords
    BY DEF TermInv, TerminalTyped
  <1>2. terminal[a].written + 1 \in Nat /\ terminal[a].written + 1 >= terminal[a].written
    BY <1>1 DEF TerminalRecords
  <1>3. \E it \in TerminalRecords :
          /\ terminal' = [terminal EXCEPT ![a] = it]
          /\ \/ \E more \in SUBSET {terminal[a].written + 2} :
                  it = [terminal[a] EXCEPT !.written = @ + 1, !.inner = @ \cup more]
             \/ it = [terminal[a] EXCEPT !.shell = "gone"]
    <2>1. CASE ShellWrites(a)
      <3>1. PICK more \in SUBSET {terminal[a].written + 2} :
              terminal' = [terminal EXCEPT ![a].written = @ + 1, ![a].inner = @ \cup more]
        BY <2>1 DEF ShellWrites
      <3>2. terminal[a].inner \cup more \in SUBSET Nat
        <4>1. terminal[a].inner \subseteq Nat /\ terminal[a].written + 2 \in Nat
          BY <1>1 DEF TerminalRecords
        <4> QED  BY <4>1
      <3>3. [terminal[a] EXCEPT !.written = @ + 1, !.inner = @ \cup more] \in TerminalRecords
        BY <1>1, <1>2, <3>2 DEF TerminalRecords
      <3> QED  BY <3>1, <3>3
    <2>2. CASE ShellExits(a)
      <3>1. [terminal[a] EXCEPT !.shell = "gone"] \in TerminalRecords
        BY <1>1 DEF TerminalRecords
      <3> QED  BY <2>2, <3>1 DEF ShellExits
    <2> QED  BY <2>1, <2>2
  <1>4. PICK it \in TerminalRecords :
          /\ terminal' = [terminal EXCEPT ![a] = it]
          /\ \/ \E more \in SUBSET {terminal[a].written + 2} :
                  it = [terminal[a] EXCEPT !.written = @ + 1, !.inner = @ \cup more]
             \/ it = [terminal[a] EXCEPT !.shell = "gone"]
    BY <1>3
  <1>5. /\ it.fd = terminal[a].fd /\ it.dropped = terminal[a].dropped
        /\ it.taken = terminal[a].taken /\ it.buffer = terminal[a].buffer
        /\ it.strangers = terminal[a].strangers /\ it.reader = terminal[a].reader
        /\ terminal[a].inner \subseteq it.inner
        /\ it.written >= terminal[a].written
        /\ it.shell = "gone" \/ it.shell = terminal[a].shell
        /\ it.shell = "gone" => it.written = terminal[a].written
    <2>1. terminal[a].shell = "running"
      BY DEF ShellWrites, ShellExits
    <2>2. CASE it = [terminal[a] EXCEPT !.shell = "gone"]
      BY SMTT(30), <1>1, <1>2, <2>1, <2>2 DEF TerminalRecords
    <2>3. CASE it # [terminal[a] EXCEPT !.shell = "gone"]
      <3>1. PICK more : it = [terminal[a] EXCEPT !.written = @ + 1, !.inner = @ \cup more]
        BY <1>4, <2>3
      <3> QED  BY SMTT(30), <1>1, <1>2, <2>1, <3>1 DEF TerminalRecords
    <2> QED  BY <2>2, <2>3
  <1>6. it.taken \in Nat /\ it.written \in Nat /\ terminal[a].written \in Nat
    BY <1>1 DEF TerminalRecords
  <1>7. terminal'[a] = it
    BY <1>1, <1>4
  <1>8. a \in sessions \ reused => ReaderSound(a)'
    <2>1. a \in sessions \ reused => ReaderSound(a)
      BY DEF TermInv, OwnSound
    <2>2. terminal[a].shell = "running"
      BY DEF ShellWrites, ShellExits
    <2> QED  BY <1>5, <1>6, <1>7, <2>1, <2>2 DEF ReaderSound, HungUp, Pending
  <1> QED  BY <1>4, <1>5, <1>8, ReaderOnly DEF ShellWrites, ShellExits

\* The number of a session that is in the table, or is being closed, stands for
\* that session.
LEMMA OwnNumber ==
    ASSUME TermInv, NEW a \in Sids, Held(a) \/ a \in sessions
    PROVE  Behind(a) = a
  BY DEF TermInv, NumbersHeld, Held, Behind

\* The steps in which a reader only looks keep the invariant.
LEMMA LooksStep ==
    ASSUME TermInv, NEW a \in Sids, Check(a) \/ Select(a) \/ PollShell(a)
    PROVE  TermInv'
  <1>1. ShellOnly /\ terminal[a].reader \in Awake
    BY DEF Check, Select, PollShell, Reads, Awake
  <1>2. CASE Check(a)
    <2>1. Reader(a, "select") \/ Quit(a, "told")
      BY <1>2 DEF Check
    <2> QED  BY <1>1, <2>1, ReaderStep, QuitStep DEF Awake
  <1>3. CASE Select(a)
    <2>1. CASE Behind(a) = NoSid
      <3>1. Quit(a, "error")
        BY <1>3, <2>1 DEF Select
      <3>2. a \notin sessions
        BY <2>1, OwnNumber, TerminalAssumption
      <3> QED  BY <1>1, <3>1, <3>2, QuitStep
    <2>2. CASE Behind(a) # NoSid
      <3>1. PICK at \in {"read", "poll"} :
              /\ Reader(a, at)
              /\ at = "read" => Pending(Behind(a)) \/ HungUp(Behind(a))
        BY <1>3, <2>2 DEF Select
      <3>2. a \in sessions => Behind(a) = a
        BY OwnNumber
      <3> QED  BY <1>1, <3>1, <3>2, ReaderStep DEF Awake
    <2> QED  BY <2>1, <2>2
  <1>4. CASE PollShell(a)
    <2>1. Reader(a, "check") \/ Quit(a, "exited")
      BY <1>4 DEF PollShell
    <2> QED  BY <1>1, <2>1, ReaderStep, QuitStep DEF Awake
  <1> QED  BY <1>2, <1>3, <1>4

\* What is left of a sequence that one byte is appended to and whose first
\* bytes fall out, as `TerminalSession._append_output` leaves its buffer.
LEMMA WithoutFirst ==
    ASSUME NEW S, NEW old \in Seq(S), NEW byte \in S, NEW excess \in 0..Len(old) + 1
    PROVE  LET rest == SubSeq(Append(old, byte), excess + 1, Len(old) + 1)
           IN  /\ rest \in Seq(S)
               /\ Len(rest) = Len(old) + 1 - excess
               /\ \A i \in 1..Len(rest) :
                    rest[i] = IF i + excess =< Len(old) THEN old[i + excess] ELSE byte
  <1>1. PICK n \in Nat : n = Len(old)
    OBVIOUS
  <1>2. PICK all : all = Append(old, byte)
    OBVIOUS
  <1>3. /\ all \in Seq(S) /\ Len(all) = n + 1
        /\ \A i \in 1..n : all[i] = old[i]
        /\ all[n + 1] = byte
    BY <1>1, <1>2, AppendProperties
  <1>4. PICK rest : rest = SubSeq(all, excess + 1, n + 1)
    OBVIOUS
  <1>5. excess \in 0..n + 1
    BY <1>1
  <1>6. /\ rest \in Seq(S)
        /\ Len(rest) = IF excess + 1 =< n + 1 THEN (n + 1) - (excess + 1) + 1 ELSE 0
        /\ \A i \in 1..(n + 1) - (excess + 1) + 1 : rest[i] = all[(excess + 1) + i - 1]
    <2>1. \A i \in excess + 1..n + 1 : all[i] \in S
      BY <1>3, <1>5
    <2>2. excess + 1 \in Int /\ n + 1 \in Int
      BY <1>5
    <2> QED  BY <1>4, <2>1, <2>2, SubSeqProperties
  <1>7. Len(rest) = n + 1 - excess
    BY <1>5, <1>6
  <1>8. ASSUME NEW i \in 1..Len(rest)
        PROVE  rest[i] = IF i + excess =< n THEN old[i + excess] ELSE byte
    <2>1. /\ i \in 1..(n + 1) - (excess + 1) + 1
          /\ (excess + 1) + i - 1 = i + excess
          /\ i + excess \in 1..n + 1
      BY <1>5, <1>7
    <2>2. rest[i] = all[i + excess]
      BY <1>6, <2>1
    <2> QED  BY SMTT(30), <1>3, <2>1, <2>2
  <1> QED  BY <1>1, <1>2, <1>4, <1>6, <1>7, <1>8

\* What buffering one more byte does to its terminal: nothing once that is
\* closed, and otherwise what falls out is counted as dropped.
LEMMA BufferedIs ==
    ASSUME TerminalTyped, NEW a \in Sids, NEW byte \in Sids \X Nat
    PROVE  \E kept \in TerminalRecords :
             /\ Buffered(a, byte) = [terminal EXCEPT ![a] = kept]
             /\ kept = [terminal[a] EXCEPT !.buffer = kept.buffer, !.dropped = kept.dropped]
             /\ a \notin sessions => kept = terminal[a]
             /\ a \in sessions =>
                  LET old == terminal[a].buffer
                      excess == kept.dropped - terminal[a].dropped
                  IN  /\ excess \in 0..Len(old) + 1
                      /\ Len(kept.buffer) = Len(old) + 1 - excess
                      /\ \A i \in 1..Len(kept.buffer) :
                           kept.buffer[i] = IF i + excess =< Len(old)
                                              THEN old[i + excess] ELSE byte
  <1>1. terminal \in [Sids -> TerminalRecords] /\ terminal[a] \in TerminalRecords
    BY DEF TerminalTyped
  <1>2. CASE a \notin sessions
    <2>1. Buffered(a, byte) = [terminal EXCEPT ![a] = terminal[a]]
      BY <1>1, <1>2 DEF Buffered
    <2>2. terminal[a] = [terminal[a] EXCEPT !.buffer = terminal[a].buffer,
                                            !.dropped = terminal[a].dropped]
      BY <1>1 DEF TerminalRecords
    <2> QED  BY <1>1, <1>2, <2>1, <2>2
  <1>3. CASE a \in sessions
    <2>1. PICK old \in Seq(Sids \X Nat) : old = terminal[a].buffer
      BY <1>1 DEF TerminalRecords
    <2>2. Len(Append(old, byte)) = Len(old) + 1
      BY AppendProperties
    <2>3. PICK excess \in 0..Len(old) + 1 :
            excess = Max({Len(Append(old, byte)), BufferCap}) - BufferCap
      <3>1. BufferCap \in Nat /\ Len(old) + 1 \in Nat
        BY TerminalAssumption
      <3>2. /\ Max({Len(old) + 1, BufferCap}) \in {Len(old) + 1, BufferCap}
            /\ Max({Len(old) + 1, BufferCap}) >= BufferCap
        BY <3>1, GreaterOfTwo
      <3> QED  BY <2>2, <3>1, <3>2
    <2>4. PICK rest : rest = SubSeq(Append(old, byte), excess + 1, Len(old) + 1)
      OBVIOUS
    <2>5. /\ rest \in Seq(Sids \X Nat)
          /\ Len(rest) = Len(old) + 1 - excess
          /\ \A i \in 1..Len(rest) :
               rest[i] = IF i + excess =< Len(old) THEN old[i + excess] ELSE byte
      BY <2>4, WithoutFirst, SMTT(30)
    <2>6. terminal[a].dropped + excess \in Nat
      <3>1. terminal[a].dropped \in Nat
        BY <1>1 DEF TerminalRecords
      <3> QED  BY <3>1
    <2>7. PICK left : left = [terminal[a] EXCEPT !.buffer = rest, !.dropped = @ + excess]
      OBVIOUS
    <2>8. /\ left \in TerminalRecords
          /\ left.buffer = rest /\ left.dropped = terminal[a].dropped + excess
      BY <1>1, <2>5, <2>6, <2>7 DEF TerminalRecords
    <2>9. Buffered(a, byte) = [terminal EXCEPT ![a] = left]
      <3>1. Buffered(a, byte) = [terminal EXCEPT ![a].buffer = rest, ![a].dropped = @ + excess]
        BY <1>3, <2>1, <2>2, <2>3, <2>4 DEF Buffered
      <3> QED  BY <1>1, <2>7, <3>1 DEF TerminalRecords
    <2>10. left = [terminal[a] EXCEPT !.buffer = left.buffer, !.dropped = left.dropped]
      BY <1>1, <2>7, <2>8 DEF TerminalRecords
    <2>11. left.dropped - terminal[a].dropped = excess
      BY SMTT(30), <1>1, <2>8 DEF TerminalRecords
    <2> QED  BY <1>3, <2>1, <2>5, <2>8, <2>9, <2>10, <2>11
  <1> QED  BY <1>2, <1>3

\* The arithmetic of a buffer that one byte came into and some fell out of.
LEMMA OneMore ==
    ASSUME NEW d \in Nat, NEW k \in Nat, NEW p \in Nat, NEW n \in Nat, NEW e \in 0..n + 1,
           d =< k, p =< k, n = k - d
    PROVE  /\ d + e =< k + 1 /\ p =< k + 1
           /\ n + 1 - e = (k + 1) - (d + e)
  OBVIOUS

\* A terminal that never got a number in use is read and fed by its own session
\* only.
LEMMA ReadsOwn ==
    ASSUME TermInv, NEW o \in Sids, Using(o), Behind(o) # NoSid, Behind(o) \notin reused
    PROVE  Behind(o) = o
  <1>1. terminal[o].fd \in Numbers
    BY DEF TermInv, NumbersHeld
  <1>2. PICK b \in Sids : b = Behind(o)
    BY <1>1 DEF TermInv, TerminalTyped, Behind
  <1>3. Held(b) /\ terminal[b].fd = terminal[o].fd
    BY <1>1, <1>2 DEF TermInv, NumbersHeld, Behind
  <1> QED  BY <1>2, <1>3 DEF TermInv, Alone

\* A read keeps the invariant: with its own terminal behind the number, the
\* buffer grows by the next byte; with another one behind it, both of them are
\* among those that had their number reused.
LEMMA ReadStep ==
    ASSUME TermInv, NEW a \in Sids, Read(a)
    PROVE  TermInv'
  <1> USE DEF TermInv
  <1>1. ShellOnly /\ terminal[a].reader = "read" /\ Using(a)
    BY DEF Read, Reads, Using, Awake
  <1>2. CASE Behind(a) = NoSid
    <2>1. Quit(a, "error")
      BY <1>2 DEF Read
    <2>2. a \notin sessions
      BY <1>2, OwnNumber, TerminalAssumption
    <2> QED  BY <1>1, <2>1, <2>2, QuitStep
  <1>3. CASE Behind(a) # NoSid /\ ~Pending(Behind(a))
    <2>1. PICK why \in {"end", "error"} :
            Quit(a, why) /\ (why = "end" <=> HungUp(Behind(a)))
      BY <1>3 DEF Read
    <2>2. a \in sessions \ reused => Behind(a) = a /\ (Pending(a) \/ HungUp(a))
      BY <1>1, OwnNumber DEF OwnSound, ReaderSound
    <2> QED  BY <1>1, <1>3, <2>1, <2>2, QuitStep
  <1>4. CASE Behind(a) # NoSid /\ Pending(Behind(a))
    <2>1. PICK b \in Sids : b = Behind(a)
      <3>1. terminal[a].fd \in Numbers
        BY <1>1 DEF NumbersHeld
      <3> QED  BY <1>4, <3>1 DEF TerminalTyped, Behind
    <2>2. /\ terminal \in [Sids -> TerminalRecords]
          /\ terminal[a] \in TerminalRecords /\ terminal[b] \in TerminalRecords
          /\ terminal[b].taken + 1 \in Nat
      <3>1. /\ terminal \in [Sids -> TerminalRecords]
            /\ terminal[a] \in TerminalRecords /\ terminal[b] \in TerminalRecords
        BY DEF TerminalTyped
      <3> QED  BY SMTT(30), <3>1 DEF TerminalRecords
    <2>3. PICK byte \in Sids \X Nat : byte = <<b, terminal[b].taken + 1>>
      BY <2>2
    <2>4. PICK kept \in TerminalRecords :
             /\ Buffered(a, byte) = [terminal EXCEPT ![a] = kept]
             /\ kept = [terminal[a] EXCEPT !.buffer = kept.buffer, !.dropped = kept.dropped]
             /\ a \notin sessions => kept = terminal[a]
             /\ a \in sessions =>
                  LET old == terminal[a].buffer
                      excess == kept.dropped - terminal[a].dropped
                  IN  /\ excess \in 0..Len(old) + 1
                      /\ Len(kept.buffer) = Len(old) + 1 - excess
                      /\ \A i \in 1..Len(kept.buffer) :
                           kept.buffer[i] = IF i + excess =< Len(old)
                                              THEN old[i + excess] ELSE byte
      BY ZenonT(40), BufferedIs
    <2>5. /\ kept.fd = terminal[a].fd /\ kept.strangers = terminal[a].strangers
          /\ kept.taken = terminal[a].taken /\ kept.reader = "read"
          /\ kept.dropped >= terminal[a].dropped /\ kept.inner = terminal[a].inner
      <3>1. terminal[a] \in TerminalRecords
        BY <2>2
      <3>2. CASE a \notin sessions
        BY <1>1, <2>4, <3>1, <3>2 DEF TerminalRecords
      <3>3. CASE a \in sessions
        <4>1. kept.dropped >= terminal[a].dropped
          BY SMTT(30), <2>4, <3>1, <3>3 DEF TerminalRecords
        <4> QED  BY <1>1, <2>4, <3>1, <4>1 DEF TerminalRecords
      <3> QED  BY <3>2, <3>3
    <2>6. terminal' = [[terminal EXCEPT ![a] = kept]
                         EXCEPT ![b].taken = @ + 1, ![a].reader = "check"]
      BY <1>4, <2>1, <2>3, <2>4 DEF Read
    <2>7. /\ terminal' \in [Sids -> TerminalRecords]
          /\ \A c \in Sids \ {a, b} : terminal'[c] = terminal[c]
          /\ terminal'[a].reader = "check"
          /\ terminal'[a].fd = terminal[a].fd /\ terminal'[b].fd = terminal[b].fd
          /\ terminal'[a].strangers = terminal[a].strangers
          /\ terminal'[b].strangers = terminal[b].strangers
          /\ terminal'[a].dropped = kept.dropped /\ terminal'[a].buffer = kept.buffer
          /\ a # b => /\ terminal'[b].dropped = terminal[b].dropped
                      /\ terminal'[b].reader = terminal[b].reader
          /\ terminal'[b].taken = terminal[b].taken + 1
          /\ terminal'[a].inner = terminal[a].inner /\ terminal'[b].inner = terminal[b].inner
      <3>1. CASE a = b
        <4>1. terminal' = [terminal EXCEPT ![a] = [kept EXCEPT !.taken = @ + 1,
                                                               !.reader = "check"]]
          BY ZenonT(40), <2>2, <2>6, <3>1 DEF TerminalRecords
        <4>2. [kept EXCEPT !.taken = @ + 1, !.reader = "check"] \in TerminalRecords
          <5>1. kept.taken + 1 \in Nat
            BY DEF TerminalRecords
          <5> QED  BY <5>1 DEF TerminalRecords, Awake
        <4> QED  BY <2>2, <2>5, <3>1, <4>1, <4>2 DEF TerminalRecords
      <3>2. CASE a # b
        <4>1. PICK f : f = [terminal EXCEPT ![a] = kept]
          OBVIOUS
        <4>2. f \in [Sids -> TerminalRecords] /\ f[a] = kept /\ f[b] = terminal[b]
          BY <2>2, <3>2, <4>1
        <4>3. terminal' = [f EXCEPT ![b] = [f[b] EXCEPT !.taken = @ + 1],
                                    ![a] = [f[a] EXCEPT !.reader = "check"]]
          BY <2>6, <3>2, <4>1, <4>2
        <4>4. /\ [kept EXCEPT !.reader = "check"] \in TerminalRecords
              /\ [terminal[b] EXCEPT !.taken = @ + 1] \in TerminalRecords
          BY ZenonT(40), <2>2 DEF TerminalRecords, Awake
        <4> QED  BY SMTT(30), <2>2, <2>5, <3>2, <4>1, <4>4, <4>2, <4>3 DEF TerminalRecords
      <3> QED  BY <3>1, <3>2
    <2>8. TerminalTyped' /\ Locked' /\ OneCloser'
      <3>1. TerminalTyped'
        BY <1>1, <2>7 DEF TerminalTyped, ShellOnly
      <3>2. Locked' /\ OneCloser'
        BY ZenonT(40), <1>1 DEF Locked, OneCloser, Closing, ShellOnly
      <3> QED  BY <3>1, <3>2
    <2>9. \A c \in Sids : /\ Held(c)' <=> Held(c)
                          /\ Using(c)' => Using(c)
      BY <1>1, <2>7 DEF Held, Closing, Using, ShellOnly
    <2>10. \A c \in Sids : /\ terminal'[c].fd = terminal[c].fd
                           /\ terminal'[c].dropped >= terminal[c].dropped
                           /\ terminal[c].inner \subseteq terminal'[c].inner
      <3>1. \A c \in Sids : terminal[c].dropped \in Nat
        BY <2>2 DEF TerminalRecords
      <3> QED  BY <2>5, <2>7, <3>1
    <2>11. ASSUME NEW c \in Sids \ reused
           PROVE  /\ terminal'[c].strangers \subseteq {c}
                  /\ c \in sessions' => BufferSound(c)' /\ ReaderSound(c)'
      <3>1. /\ terminal[c].strangers \subseteq {c}
            /\ c \in sessions => BufferSound(c) /\ ReaderSound(c)
        BY DEF OwnSound
      <3>2. CASE c = a
        <4>1. SUFFICES ASSUME a \in sessions
                       PROVE  BufferSound(a)' /\ ReaderSound(a)'
          BY <1>1, <2>7, <3>1, <3>2 DEF ShellOnly
        <4>2. b = a
          BY <2>1, <4>1, OwnNumber
        <4>3. PICK old, excess : /\ old = terminal[a].buffer
                                 /\ excess = kept.dropped - terminal[a].dropped
          OBVIOUS
        <4>4. /\ old \in Seq(Sids \X Nat) /\ terminal[a].dropped \in Nat
              /\ terminal[a].taken \in Nat /\ client[a].since \in Nat
          BY <2>2, <4>3 DEF TerminalRecords, TerminalTyped, Pages
        <4>5. /\ excess \in 0..Len(old) + 1
              /\ Len(kept.buffer) = Len(old) + 1 - excess
              /\ \A i \in 1..Len(kept.buffer) :
                   kept.buffer[i] = IF i + excess =< Len(old) THEN old[i + excess] ELSE byte
          BY <2>4, <4>1, <4>3
        <4>6. /\ terminal[a].dropped =< terminal[a].taken
              /\ client[a].since =< terminal[a].taken
              /\ Len(old) = terminal[a].taken - terminal[a].dropped
              /\ \A i \in 1..Len(old) : old[i] = <<a, terminal[a].dropped + i>>
          BY SMTT(30), <3>1, <3>2, <4>1, <4>3, <4>4 DEF BufferSound
        <4>7. /\ terminal[a].dropped \in Nat /\ terminal[a].taken \in Nat
              /\ Len(old) \in Nat
          BY <4>4
        <4>8. kept.dropped = terminal[a].dropped + excess
          <5>1. kept.dropped \in Nat
            BY DEF TerminalRecords
          <5> QED  BY <4>3, <4>7, <5>1
        <4>9. ASSUME NEW i \in 1..Len(kept.buffer)
              PROVE  kept.buffer[i] = <<a, kept.dropped + i>>
          <5>1. /\ i + excess \in 1..Len(old) \/ i + excess = Len(old) + 1
                /\ kept.dropped + i = terminal[a].dropped + (i + excess)
            BY SMTT(30), <4>4, <4>5, <4>8
          <5>2. CASE i + excess \in 1..Len(old)
            <6>1. kept.buffer[i] = old[i + excess]
              <7>1. i + excess =< Len(old)
                BY <4>4, <5>2
              <7> QED  BY <4>5, <7>1
            <6> QED  BY <4>6, <5>1, <5>2, <6>1
          <5>3. CASE i + excess = Len(old) + 1
            <6>1. kept.buffer[i] = byte
              BY SMTT(30), <4>4, <4>5, <5>3
            <6>2. kept.dropped + i = terminal[a].taken + 1
              <7>1. Len(old) = terminal[a].taken - terminal[a].dropped
                BY <4>6
              <7> QED  BY SMTT(30), <4>7, <5>1, <5>3, <7>1
            <6> QED  BY <2>3, <4>2, <6>1, <6>2
          <5> QED  BY <5>1, <5>2, <5>3
        <4>10. DOMAIN kept.buffer = 1..Len(kept.buffer)
          BY DEF TerminalRecords
        <4>11. /\ kept.dropped =< terminal[a].taken + 1
               /\ client[a].since =< terminal[a].taken + 1
               /\ Len(kept.buffer) = (terminal[a].taken + 1) - kept.dropped
          <5>1. PICK n \in Nat : n = Len(old)
            BY <4>4
          <5>2. /\ excess \in 0..n + 1
                /\ n = terminal[a].taken - terminal[a].dropped
                /\ Len(kept.buffer) = n + 1 - excess
            BY <4>5, <4>6, <5>1
          <5>3. /\ terminal[a].dropped + excess =< terminal[a].taken + 1
                /\ client[a].since =< terminal[a].taken + 1
                /\ n + 1 - excess = (terminal[a].taken + 1) - (terminal[a].dropped + excess)
            <6>1. PICK d \in Nat, k \in Nat, p \in Nat :
                    /\ d = terminal[a].dropped /\ k = terminal[a].taken
                    /\ p = client[a].since
              BY <4>4
            <6>2. d =< k /\ p =< k /\ n = k - d /\ excess \in 0..n + 1
              BY <4>6, <5>2, <6>1
            <6>3. /\ d + excess =< k + 1 /\ p =< k + 1
                  /\ n + 1 - excess = (k + 1) - (d + excess)
              BY <6>2, OneMore
            <6> QED  BY <6>1, <6>3
          <5> QED  BY <4>8, <5>2, <5>3
        <4>12. BufferSound(a)'
          BY <1>1, <2>7, <4>2, <4>9, <4>10, <4>11 DEF BufferSound, ShellOnly
        <4> QED  BY <2>7, <4>12 DEF ReaderSound
      <3>3. CASE c # a /\ c = b
        <4>1. Behind(a) # NoSid /\ Behind(a) \notin reused
          BY <1>4, <2>1, <3>3
        <4>2. Behind(a) = a
          BY <1>1, <4>1, ReadsOwn
        <4> QED  BY <2>1, <3>3, <4>2
      <3>4. CASE c # a /\ c # b
        <4>1. terminal'[c] = terminal[c]
          BY <2>7, <3>4
        <4> QED  BY <1>1, <3>1, <4>1 DEF BufferSound, ReaderSound, Pending, HungUp,
              ShellOnly
      <3> QED  BY <3>2, <3>3, <3>4
    <2> QED  BY <1>1, <2>8, <2>9, <2>10, <2>11, Quiet DEF ShellOnly
  <1> QED  BY <1>2, <1>3, <1>4

\* The invariant survives a step that only moves request threads and forgets
\* sessions that are being closed.
LEMMA ThreadsOnly ==
    ASSUME TermInv, TerminalTyped', Locked', OneCloser', sessions' \subseteq sessions,
           UNCHANGED <<terminal, fds, client, reused>>,
           \A a \in Sids : /\ Held(a)' <=> Held(a)
                           /\ Using(a)' => Using(a) \/ Held(a)
    PROVE  TermInv'
  <1> USE DEF TermInv
  <1>1. \A a \in Sids : /\ terminal'[a].fd = terminal[a].fd
                        /\ terminal'[a].dropped >= terminal[a].dropped
                        /\ terminal[a].inner \subseteq terminal'[a].inner
    BY DEF TerminalTyped, TerminalRecords
  <1>2. ASSUME NEW a \in Sids \ reused
        PROVE  /\ terminal'[a].strangers \subseteq {a}
               /\ a \in sessions' => BufferSound(a)' /\ ReaderSound(a)'
    BY DEF OwnSound, BufferSound, ReaderSound, Pending, HungUp
  <1> QED  BY <1>1, <1>2, Quiet

\* Taking the lock keeps the invariant.
LEMMA BeginStartStep ==
    ASSUME TermInv, NEW t \in Threads, NEW idle \in SUBSET sessions, BeginStart(t, idle)
    PROVE  TermInv'
  <1> USE DEF TermInv
  <1>1. /\ thread[t].does = "nothing" /\ lock = Nobody /\ lock' = t
        /\ UNCHANGED <<sessions, terminal, fds, client, reused>>
    BY DEF BeginStart, Does
  <1>2. PICK stale \in SUBSET sessions :
          thread' = [thread EXCEPT ![t] = [does |-> "start", sid |-> NoSid, stale |-> stale]]
    BY DEF BeginStart
  <1>3. /\ thread' \in [Threads -> ThreadRecords]
        /\ thread'[t].does = "start" /\ thread'[t].sid = NoSid
        /\ thread'[t].stale \subseteq sessions
        /\ \A s \in Threads \ {t} : thread'[s] = thread[s]
    BY <1>2 DEF TerminalTyped, ThreadRecords
  <1>4. TerminalTyped'
    BY <1>1, <1>3 DEF TerminalTyped
  <1>5. Locked'
    BY <1>1, <1>3, TerminalAssumption DEF Locked
  <1>6. \A s \in Threads, a \in Sids : Closing(s, a)' <=> Closing(s, a)
    BY <1>1, <1>3 DEF Closing
  <1>7. OneCloser'
    BY <1>1, <1>3, <1>6 DEF OneCloser
  <1>8. \A a \in Sids : /\ Held(a)' <=> Held(a)
                        /\ Using(a)' => Using(a)
    BY <1>1, <1>3, <1>6 DEF Held, Using
  <1> QED  BY <1>1, <1>4, <1>5, <1>7, <1>8, ThreadsOnly

\* Refusing one terminal too many keeps the invariant.
LEMMA RefuseStep ==
    ASSUME TermInv, NEW t \in Threads, Refuse(t)
    PROVE  TermInv'
  <1> USE DEF TermInv
  <1>1. /\ thread[t].does = "start" /\ lock = t /\ lock' = Nobody
        /\ UNCHANGED <<sessions, terminal, fds, client, reused>>
    BY DEF Refuse, Does, Locked
  <1>2. /\ thread' \in [Threads -> ThreadRecords]
        /\ thread'[t].does = "nothing" /\ thread'[t].stale = {}
        /\ \A s \in Threads \ {t} : thread'[s] = thread[s]
    BY RestOf DEF Refuse
  <1>3. TerminalTyped' /\ Locked'
    BY <1>1, <1>2 DEF TerminalTyped, Locked
  <1>4. \A s \in Threads, a \in Sids : Closing(s, a)' <=> Closing(s, a)
    BY <1>1, <1>2 DEF Closing
  <1>5. OneCloser'
    BY <1>1, <1>2, <1>4 DEF OneCloser
  <1>6. \A a \in Sids : /\ Held(a)' <=> Held(a)
                        /\ Using(a)' => Using(a)
    BY <1>1, <1>2, <1>4 DEF Held, Using
  <1> QED  BY <1>1, <1>3, <1>5, <1>6, ThreadsOnly

\* Forgetting a session, to close it after that, keeps the invariant: by then
\* nobody else closes it.
LEMMA ForgetStep ==
    ASSUME TermInv, NEW t \in Threads, NEW a \in Sids, Reap(t, a) \/ BeginClose(t, a)
    PROVE  TermInv'
  <1> USE DEF TermInv
  <1>1. /\ a \in sessions /\ sessions' = sessions \ {a}
        /\ thread[t].does \in {"nothing", "start"}
        /\ UNCHANGED <<terminal, fds, lock, client, reused>>
    BY DEF Reap, BeginClose, Does, Locked
  <1>2. /\ thread' \in [Threads -> ThreadRecords]
        /\ thread'[t].does = "hang up" /\ thread'[t].sid = a
        /\ thread'[t].stale \subseteq thread[t].stale
        /\ thread'[t].stale \subseteq sessions \ {a}
        /\ \A s \in Threads \ {t} : thread'[s] = thread[s]
    <2>1. CASE Reap(t, a)
      <3>1. thread' = [thread EXCEPT ![t] = [thread[t] EXCEPT !.does = "hang up", !.sid = a,
                                                              !.stale = @ \ {a}]]
        BY <2>1 DEF Reap
      <3>2. thread \in [Threads -> ThreadRecords] /\ thread[t] \in ThreadRecords
        BY DEF TerminalTyped
      <3> QED  BY <3>1, <3>2 DEF ThreadRecords, Locked
    <2>2. CASE BeginClose(t, a)
      <3>1. thread[t].stale = {}
        BY <2>2, TerminalAssumption DEF BeginClose, Locked
      <3> QED  BY <2>2, <3>1, TurnOf DEF BeginClose, Deeds
    <2> QED  BY <2>1, <2>2
  <1>3. \A s \in Threads \ {t} : thread[s].stale = {}
    BY TerminalAssumption DEF Reap, BeginClose, Does, Locked
  <1>4. TerminalTyped' /\ Locked'
    BY ZenonT(40), <1>1, <1>2, <1>3 DEF TerminalTyped, Locked
  <1>5. /\ Closing(t, a)' /\ \A s \in Threads : ~Closing(s, a)
        /\ \A s \in Threads, c \in Sids :
             s # t \/ c # a => (Closing(s, c)' <=> Closing(s, c))
    BY <1>1, <1>2 DEF Closing, OneCloser
  <1>6. OneCloser'
    <2>1. \A s \in Threads :
             thread'[s].does \in {"hang up", "close", "use"} => thread'[s].sid \in Sids
      BY <1>2 DEF OneCloser
    <2>2. ASSUME NEW s \in Threads, NEW c \in Sids, Closing(s, c)'
          PROVE  c \notin sessions' /\ \A o \in Threads : Closing(o, c)' => o = s
      <3>1. CASE c = a
        BY <1>1, <1>5, <2>2, <3>1
      <3>2. CASE c # a
        BY <1>1, <1>5, <2>2, <3>2 DEF OneCloser
      <3> QED  BY <3>1, <3>2
    <2> QED  BY <2>1, <2>2 DEF OneCloser
  <1>7. \A c \in Sids : /\ Held(c)' <=> Held(c)
                        /\ Using(c)' => Using(c)
    BY ZenonT(40), <1>1, <1>2, <1>5 DEF Held, Using
  <1> QED  BY <1>1, <1>4, <1>6, <1>7, ThreadsOnly

\* Looking a session up keeps the invariant.
LEMMA BeginUseStep ==
    ASSUME TermInv, NEW t \in Threads, NEW a \in Sids, BeginUse(t, a)
    PROVE  TermInv'
  <1> USE DEF TermInv
  <1>1. /\ a \in sessions /\ thread[t].does = "nothing"
        /\ UNCHANGED <<sessions, terminal, fds, lock, client, reused>>
    BY DEF BeginUse, Does
  <1>2. /\ thread' \in [Threads -> ThreadRecords]
        /\ thread'[t].does = "use" /\ thread'[t].sid = a
        /\ thread'[t].stale = thread[t].stale
        /\ \A s \in Threads \ {t} : thread'[s] = thread[s]
    BY TurnOf DEF BeginUse, Deeds
  <1>3. TerminalTyped' /\ Locked'
    BY <1>1, <1>2 DEF TerminalTyped, Locked
  <1>4. \A s \in Threads, c \in Sids : Closing(s, c)' <=> Closing(s, c)
    BY <1>1, <1>2 DEF Closing
  <1>5. OneCloser'
    BY <1>1, <1>2, <1>4 DEF OneCloser
  <1>6. \A c \in Sids : /\ Held(c)' <=> Held(c)
                        /\ Using(c)' => Using(c) \/ Held(c)
    BY <1>1, <1>2, <1>4 DEF Held, Using
  <1> QED  BY <1>1, <1>3, <1>5, <1>6, ThreadsOnly

\* Hanging up keeps the invariant: the number is still the terminal's own.
LEMMA HangUpStep ==
    ASSUME TermInv, NEW t \in Threads, HangUp(t)
    PROVE  TermInv'
  <1> USE DEF TermInv
  <1>1. PICK a \in Sids : a = thread[t].sid /\ Closing(t, a) /\ a \notin sessions
    BY DEF HangUp, Does, Closing, OneCloser
  <1>2. /\ terminal' = [terminal EXCEPT ![a].alive = FALSE, ![a].shell = "gone"]
        /\ UNCHANGED <<sessions, fds, lock, client, reused>>
        /\ thread[t].does = "hang up" /\ Turn(t, "close", a)
    BY <1>1 DEF HangUp, Does
  <1>3. /\ thread' \in [Threads -> ThreadRecords]
        /\ thread'[t].does = "close" /\ thread'[t].sid = a
        /\ thread'[t].stale = thread[t].stale
        /\ \A s \in Threads \ {t} : thread'[s] = thread[s]
    BY <1>2, TurnOf DEF Deeds
  <1>4. /\ terminal' \in [Sids -> TerminalRecords]
        /\ terminal'[a].fd = terminal[a].fd /\ terminal'[a].dropped = terminal[a].dropped
        /\ terminal'[a].reader = terminal[a].reader
        /\ terminal'[a].strangers = terminal[a].strangers
        /\ terminal'[a].inner = terminal[a].inner
        /\ \A b \in Sids \ {a} : terminal'[b] = terminal[b]
        /\ \A b \in Sids : terminal[b].dropped \in Nat
    <2>1. \A b \in Sids : terminal[b] \in TerminalRecords /\ terminal[b].dropped \in Nat
      BY DEF TerminalTyped, TerminalRecords
    <2>2. PICK it : it = [terminal[a] EXCEPT !.alive = FALSE, !.shell = "gone"]
      OBVIOUS
    <2>3. terminal' = [terminal EXCEPT ![a] = it]
      BY <1>2, <2>2
    <2>4. /\ it \in TerminalRecords
          /\ it.fd = terminal[a].fd /\ it.dropped = terminal[a].dropped
          /\ it.reader = terminal[a].reader /\ it.strangers = terminal[a].strangers
          /\ it.inner = terminal[a].inner
      <3>1. terminal[a] \in TerminalRecords
        BY <2>1
      <3> QED  BY <2>2, <3>1 DEF TerminalRecords
    <2> QED  BY <2>1, <2>3, <2>4 DEF TerminalTyped
  <1>5. TerminalTyped'
    BY <1>2, <1>3, <1>4 DEF TerminalTyped
  <1>6. Locked'
    BY <1>2, <1>3 DEF Locked
  <1>7. \A s \in Threads, c \in Sids : Closing(s, c)' <=> Closing(s, c)
    BY <1>1, <1>2, <1>3 DEF Closing
  <1>8. OneCloser'
    <2>1. \A s \in Threads :
             thread'[s].does \in {"hang up", "close", "use"} => thread'[s].sid \in Sids
      BY <1>2, <1>3 DEF OneCloser
    <2>2. ASSUME NEW s \in Threads, NEW c \in Sids, Closing(s, c)'
          PROVE  c \notin sessions' /\ \A o \in Threads : Closing(o, c)' => o = s
      BY <1>2, <1>7, <2>2 DEF OneCloser
    <2> QED  BY <2>1, <2>2 DEF OneCloser
  <1>9. \A c \in Sids : /\ Held(c)' <=> Held(c)
                        /\ Using(c)' => Using(c)
    <2>1. \A c \in Sids : Held(c)' <=> Held(c)
      BY <1>2, <1>7 DEF Held
    <2>2. ASSUME NEW c \in Sids, Using(c)' PROVE Using(c)
      <3>1. terminal'[c].reader = terminal[c].reader
        BY <1>4
      <3>2. \A s \in Threads : thread'[s].sid = c /\ thread'[s].does = "use" =>
                                thread[s].sid = c /\ thread[s].does = "use"
        BY <1>3
      <3> QED  BY <2>2, <3>1, <3>2 DEF Using
    <2> QED  BY <2>1, <2>2
  <1>10. \A c \in Sids : /\ terminal'[c].fd = terminal[c].fd
                         /\ terminal'[c].dropped >= terminal[c].dropped
                         /\ terminal[c].inner \subseteq terminal'[c].inner
    BY <1>4
  <1>11. ASSUME NEW c \in Sids \ reused
         PROVE  /\ terminal'[c].strangers \subseteq {c}
                /\ c \in sessions' => BufferSound(c)' /\ ReaderSound(c)'
    <2>1. /\ terminal[c].strangers \subseteq {c}
          /\ c \in sessions => BufferSound(c) /\ ReaderSound(c)
      BY DEF OwnSound
    <2>2. CASE c = a
      BY <1>1, <1>2, <1>4, <2>1, <2>2
    <2>3. CASE c # a
      BY <1>2, <1>4, <2>1, <2>3 DEF BufferSound, ReaderSound, Pending, HungUp
    <2> QED  BY <2>2, <2>3
  <1> QED  BY <1>2, <1>5, <1>6, <1>8, <1>9, <1>10, <1>11, Quiet

\* Typing keeps the invariant: whoever is behind the number.
LEMMA UseStep ==
    ASSUME TermInv, NEW t \in Threads, Use(t) \/ UseFails(t)
    PROVE  TermInv'
  <1> USE DEF TermInv
  <1>1. PICK a \in Sids : /\ a = thread[t].sid /\ Using(a) /\ thread[t].does = "use"
                          /\ UNCHANGED <<sessions, fds, lock, client, reused>>
    BY DEF Use, UseFails, Does, Using, OneCloser
  <1>2. /\ thread' \in [Threads -> ThreadRecords]
        /\ thread'[t].does = "nothing" /\ thread'[t].stale = {}
        /\ \A s \in Threads \ {t} : thread'[s] = thread[s]
    BY RestOf DEF Use, UseFails
  <1>3. PICK b \in Sids : b = Behind(a) \/ UseFails(t)
    <2>1. CASE Use(t)
      <3>1. Behind(a) # NoSid /\ terminal[a].fd \in Numbers
        BY <1>1, <2>1 DEF Use, NumbersHeld
      <3> QED  BY <3>1 DEF Behind, TerminalTyped
    <2> QED  BY <1>1, <2>1
  <1>4. \A c \in Sids : terminal[c] \in TerminalRecords
    BY DEF TerminalTyped
  <1>5. /\ terminal' \in [Sids -> TerminalRecords]
        /\ \A c \in Sids :
             /\ terminal'[c].fd = terminal[c].fd /\ terminal'[c].dropped = terminal[c].dropped
             /\ terminal'[c].reader = terminal[c].reader
             /\ terminal'[c].inner = terminal[c].inner
             /\ terminal'[c].shell = terminal[c].shell
             /\ terminal'[c].written = terminal[c].written
             /\ terminal'[c].taken = terminal[c].taken
             /\ terminal'[c].buffer = terminal[c].buffer
        /\ \A c \in Sids \ reused : terminal'[c].strangers = terminal[c].strangers
    <2>1. CASE Use(t)
      <3>1. /\ b = Behind(a) \/ UseFails(t)
            /\ terminal' = [terminal EXCEPT ![Behind(a)].strangers = @ \cup ({a} \ {Behind(a)})]
            /\ Behind(a) # NoSid
        BY <1>1, <1>3, <2>1 DEF Use
      <3>2. PICK bb \in Sids : bb = Behind(a)
        <4>1. terminal[a].fd \in Numbers
          BY <1>1 DEF NumbersHeld
        <4> QED  BY <3>1, <4>1 DEF Behind, TerminalTyped
      <3>3. bb \notin reused => bb = a
        BY <1>1, <3>1, <3>2, ReadsOwn
      <3>4. terminal' = [terminal EXCEPT ![bb] = [terminal[bb] EXCEPT
                                            !.strangers = @ \cup ({a} \ {bb})]]
        BY <3>1, <3>2
      <3>5. [terminal[bb] EXCEPT !.strangers = @ \cup ({a} \ {bb})] \in TerminalRecords
        BY ZenonT(40), <1>4 DEF TerminalRecords
      <3>6. bb \notin reused => terminal[bb].strangers \cup ({a} \ {bb}) = terminal[bb].strangers
        BY <3>3
      <3> QED  BY ZenonT(40), <1>4, <3>4, <3>5, <3>6 DEF TerminalTyped, TerminalRecords
    <2>2. CASE UseFails(t)
      <3>1. PICK dead \in BOOLEAN : terminal' = [terminal EXCEPT ![a].alive = @ /\ ~dead]
        BY ZenonT(40), <1>1, <2>2 DEF UseFails
      <3>2. PICK live \in BOOLEAN : live = (terminal[a].alive /\ ~dead)
        OBVIOUS
      <3>3. terminal' = [terminal EXCEPT ![a] = [terminal[a] EXCEPT !.alive = live]]
        BY <3>1, <3>2
      <3>4. [terminal[a] EXCEPT !.alive = live] \in TerminalRecords
        <4>1. terminal[a] \in TerminalRecords
          BY <1>4
        <4>2. CASE live = TRUE
          BY <4>1, <4>2 DEF TerminalRecords
        <4>3. CASE live = FALSE
          BY <4>1, <4>3 DEF TerminalRecords
        <4> QED  BY <4>2, <4>3
      <3> QED  BY ZenonT(40), <1>4, <3>3, <3>4 DEF TerminalTyped, TerminalRecords
    <2> QED  BY <2>1, <2>2
  <1>6. TerminalTyped' /\ Locked'
    <2>1. TerminalTyped'
      BY <1>1, <1>2, <1>5 DEF TerminalTyped
    <2>2. Locked'
      BY <1>1, <1>2 DEF Locked
    <2> QED  BY <2>1, <2>2
  <1>7. \A s \in Threads, c \in Sids : Closing(s, c)' <=> Closing(s, c)
    BY <1>1, <1>2 DEF Closing
  <1>8. OneCloser'
    BY <1>1, <1>2, <1>7 DEF OneCloser
  <1>9. \A c \in Sids : /\ Held(c)' <=> Held(c)
                        /\ Using(c)' => Using(c)
    BY <1>1, <1>2, <1>5, <1>7 DEF Held, Using
  <1>10. \A c \in Sids : /\ terminal'[c].dropped >= terminal[c].dropped
                         /\ terminal[c].inner \subseteq terminal'[c].inner
    BY SMTT(30), <1>4, <1>5 DEF TerminalRecords
  <1>11. ASSUME NEW c \in Sids \ reused
         PROVE  /\ terminal'[c].strangers \subseteq {c}
                /\ c \in sessions' => BufferSound(c)' /\ ReaderSound(c)'
    BY <1>1, <1>5 DEF OwnSound, BufferSound, ReaderSound, Pending, HungUp
  <1> QED  BY <1>1, <1>5, <1>6, <1>8, <1>9, <1>10, <1>11, Quiet

\* Closing the descriptor keeps the invariant: the number has been the
\* terminal's until now, and is free after that.
LEMMA CloseStep ==
    ASSUME TermInv, NEW t \in Threads, Close(t)
    PROVE  TermInv'
  <1> USE DEF TermInv
  <1>1. PICK a \in Sids : a = thread[t].sid /\ Closing(t, a) /\ a \notin sessions
    BY DEF Close, Does, Closing, OneCloser
  <1>2. PICK n \in Numbers : n = terminal[a].fd /\ fds[n] = a
    BY <1>1 DEF NumbersHeld, Held
  <1>3. /\ fds' = [fds EXCEPT ![n] = NoSid]
        /\ terminal' = [terminal EXCEPT ![a].buffer = <<>>, ![a].dropped = 0,
                                         ![a].written = 0, ![a].inner = {},
                                         ![a].taken = 0]
        /\ client' = [client EXCEPT ![a] = NewClient]
        /\ IF lock = t THEN Turn(t, "start", NoSid) ELSE Rest(t)
        /\ UNCHANGED <<sessions, lock, reused>>
    <2>1. /\ fds' = [fds EXCEPT ![terminal[a].fd] = NoSid]
          /\ terminal' = [terminal EXCEPT ![a].buffer = <<>>, ![a].dropped = 0,
                                           ![a].written = 0, ![a].inner = {},
                                           ![a].taken = 0]
          /\ client' = [client EXCEPT ![a] = NewClient]
          /\ IF lock = t THEN Turn(t, "start", NoSid) ELSE Rest(t)
          /\ UNCHANGED <<sessions, lock, reused>>
      BY SMTT(30), <1>1 DEF Close
    <2> QED  BY <1>2, <2>1
  <1>4. /\ thread' \in [Threads -> ThreadRecords]
        /\ thread'[t].does = "start" => lock = t
        /\ thread'[t].does \in {"start", "nothing"}
        /\ thread'[t].stale = {} \/ (thread'[t].stale = thread[t].stale /\ lock = t)
        /\ \A s \in Threads \ {t} : thread'[s] = thread[s]
    <2>1. CASE lock = t
      BY <1>3, <2>1, TurnOf DEF Deeds
    <2>2. CASE lock # t
      BY <1>3, <2>2, RestOf
    <2> QED  BY <2>1, <2>2
  <1>5. /\ terminal' \in [Sids -> TerminalRecords]
        /\ \A b \in Sids \ {a} : terminal'[b] = terminal[b]
        /\ terminal'[a].fd = n /\ terminal'[a].reader = terminal[a].reader
        /\ terminal'[a].strangers = terminal[a].strangers
    <2>1. terminal[a] \in TerminalRecords /\ terminal \in [Sids -> TerminalRecords]
      BY DEF TerminalTyped
    <2>2. PICK it : it = [terminal[a] EXCEPT !.buffer = <<>>, !.dropped = 0, !.written = 0,
                                             !.inner = {}, !.taken = 0]
      OBVIOUS
    <2>3. terminal' = [terminal EXCEPT ![a] = it]
      BY <1>3, <2>1, <2>2
    <2>4. /\ it \in TerminalRecords /\ it.fd = n /\ it.reader = terminal[a].reader
          /\ it.strangers = terminal[a].strangers
      <3>1. <<>> \in Seq(Sids \X Nat)
        OBVIOUS
      <3> QED  BY <1>2, <2>1, <2>2, <3>1 DEF TerminalRecords
    <2> QED  BY <2>1, <2>3, <2>4
  <1>6. /\ client' \in [Sids -> Pages]
        /\ client'[a] = NewClient
        /\ \A b \in Sids \ {a} : client'[b] = client[b]
    <2>1. <<>> \in Seq(Sids \X Nat)
      OBVIOUS
    <2>2. NewClient \in Pages
      BY <2>1 DEF NewClient, Pages
    <2> QED  BY <1>3, <2>2 DEF TerminalTyped
  <1>7. /\ fds' \in [Numbers -> Sids \cup {NoSid}] /\ fds'[n] = NoSid
        /\ \A m \in Numbers \ {n} : fds'[m] = fds[m]
    BY <1>3 DEF TerminalTyped
  <1>8. TerminalTyped'
    BY <1>3, <1>4, <1>5, <1>6, <1>7 DEF TerminalTyped
  <1>9. Locked'
    BY <1>3, <1>4 DEF Locked
  <1>10. \A s \in Threads, c \in Sids :
           Closing(s, c)' <=> s # t /\ Closing(s, c)
    BY <1>4 DEF Closing
  <1>11. OneCloser'
    BY <1>3, <1>4, <1>10 DEF OneCloser
  <1>12. /\ \A c \in Sids \ {a} : Held(c)' <=> Held(c)
         /\ ~Held(a)'
         /\ \A c \in Sids : Using(c)' => Using(c)
    <2>1. \A c \in Sids \ {a} : ~Closing(t, c)
      BY <1>1 DEF Closing
    <2>2. \A s \in Threads \ {t} : ~Closing(s, a)
      BY <1>1 DEF OneCloser
    <2>3. /\ \A c \in Sids \ {a} : Held(c)' <=> Held(c)
          /\ ~Held(a)'
      BY SMTT(30), <1>1, <1>3, <1>10, <2>1, <2>2 DEF Held
    <2>4. \A c \in Sids : Using(c)' => Using(c)
      BY <1>4, <1>5 DEF Using
    <2> QED  BY <2>3, <2>4
  <1>13. \A c \in Sids : terminal'[c].fd = terminal[c].fd
    BY <1>2, <1>5
  <1>14. NumbersHeld'
    <2>1. ASSUME NEW c \in Sids, Held(c)'
          PROVE  terminal'[c].fd \in Numbers /\ fds'[terminal'[c].fd] = c
      <3>1. c # a /\ Held(c)
        BY <1>12, <2>1
      <3>2. terminal[c].fd \in Numbers /\ fds[terminal[c].fd] = c
        BY <3>1 DEF NumbersHeld
      <3> QED  BY <1>2, <1>7, <1>13, <3>1, <3>2
    <2>2. ASSUME NEW m \in Numbers, fds'[m] # NoSid
          PROVE  terminal'[fds'[m]].fd = m /\ Held(fds[m])'
      <3>1. m # n /\ fds'[m] = fds[m]
        BY <1>7, <2>2
      <3>2. PICK c \in Sids : c = fds[m] /\ c = fds'[m]
        BY <2>2, <3>1 DEF TerminalTyped
      <3>3. terminal[c].fd = m /\ Held(c)
        BY <2>2, <3>2 DEF NumbersHeld
      <3>4. Held(c)'
        BY <1>2, <1>12, <3>1, <3>3
      <3>5. terminal'[c].fd = m
        BY <1>13, <3>3
      <3> QED  BY <3>2, <3>4, <3>5 DEF Held, Closing
    <2>3. \A c \in Sids : Using(c)' => terminal'[c].fd \in Numbers
      BY <1>12, <1>13 DEF NumbersHeld
    <2> QED  BY <2>1, <2>2, <2>3 DEF NumbersHeld
  <1>15. Alone'
    BY <1>3, <1>12, <1>13 DEF Alone
  <1>16. Forgotten'
    BY <1>6, <1>12 DEF Forgotten
  <1>17. OwnSound'
    <2> SUFFICES ASSUME NEW c \in Sids \ reused
                 PROVE  /\ terminal'[c].strangers \subseteq {c}
                        /\ PageSound(c)' /\ Legible(c)'
                        /\ c \in sessions' => BufferSound(c)' /\ ReaderSound(c)'
      BY <1>3 DEF OwnSound
    <2>1. /\ terminal[c].strangers \subseteq {c} /\ PageSound(c) /\ Legible(c)
          /\ c \in sessions => BufferSound(c) /\ ReaderSound(c)
      BY DEF OwnSound
    <2>2. CASE c = a
      <3>1. PageSound(a)' /\ Legible(a)'
        <4>1. client'[a].got = <<>> /\ client'[a].since = 0 /\ client'[a].torn = {}
          BY <1>6 DEF NewClient
        <4> QED  BY <4>1 DEF PageSound, Gapless, Ordered, Legible
      <3> QED  BY <1>1, <1>3, <1>5, <2>1, <2>2, <3>1
    <2>3. CASE c # a
      <3>1. terminal'[c] = terminal[c] /\ client'[c] = client[c] /\ sessions' = sessions
        BY <1>3, <1>5, <1>6, <2>3
      <3>2. PageSound(c)' /\ Legible(c)'
        BY <2>1, <3>1, StaysLegible DEF PageSound
      <3>3. c \in sessions' => BufferSound(c)' /\ ReaderSound(c)'
        BY <2>1, <3>1 DEF BufferSound, ReaderSound, Pending, HungUp
      <3> QED  BY <2>1, <3>1, <3>2, <3>3
    <2> QED  BY <2>2, <2>3
  <1> QED  BY <1>8, <1>9, <1>11, <1>14, <1>15, <1>16, <1>17

\* The rest of a buffer from an offset on, which read_since returns.
LEMMA RestOfBuffer ==
    ASSUME NEW S, NEW s \in Seq(S), NEW off \in Nat
    PROVE  LET rest == SubSeq(s, off + 1, Len(s))
           IN  /\ rest \in Seq(S)
               /\ off =< Len(s) => Len(rest) = Len(s) - off
               /\ \A i \in 1..Len(s) - off : rest[i] = s[off + i]
  <1>1. PICK n \in Nat : n = Len(s)
    OBVIOUS
  <1>2. PICK rest : rest = SubSeq(s, off + 1, n)
    OBVIOUS
  <1>3. \A i \in off + 1..n : s[i] \in S
    BY <1>1
  <1>4. /\ rest \in Seq(S)
        /\ Len(rest) = IF off + 1 =< n THEN n - (off + 1) + 1 ELSE 0
        /\ \A i \in 1..n - (off + 1) + 1 : rest[i] = s[(off + 1) + i - 1]
    <2>1. off + 1 \in Int /\ n \in Int
      OBVIOUS
    <2> QED  BY <1>2, <1>3, <2>1, SubSeqProperties
  <1>5. off =< n => Len(rest) = n - off
    BY <1>4
  <1>6. ASSUME NEW i \in 1..n - off
        PROVE  rest[i] = s[off + i]
    <2>1. i \in 1..n - (off + 1) + 1 /\ (off + 1) + i - 1 = off + i
      OBVIOUS
    <2> QED  BY <1>4, <2>1
  <1> QED  BY <1>1, <1>2, <1>4, <1>5, <1>6

\* What a page has got, and the bytes that follow.
Follow(a, got, part, all, s, d, k, m) ==
    /\ all = got \o part
    /\ got \in Seq(Sids \X Nat) /\ part \in Seq(Sids \X Nat)
    /\ s \in Nat /\ d \in Nat /\ k \in Nat /\ m \in Nat
    /\ \A i \in 1..Len(got) : got[i][1] = a /\ got[i][2] =< s
    /\ Ordered(got)
    /\ \A n \in 1..s : n > d => \E i \in 1..Len(got) : got[i][2] = n
    /\ m \in {s, d} /\ m >= s /\ m >= d /\ s =< k /\ d =< k
    /\ Len(part) = k - m
    /\ \A i \in 1..k - m : part[i] = <<a, m + i>>

\* A page that has got everything up to `s`, except what had been dropped, and
\* gets the part of the buffer behind it, has got everything up to the end.
LEMMA PageGrows ==
    ASSUME NEW a, NEW got, NEW part, NEW s, NEW d, NEW k, NEW m,
           NEW all, Follow(a, got, part, all, s, d, k, m)
    PROVE  Gapless(a, all, d, k)
  <1>1. /\ all = got \o part
        /\ got \in Seq(Sids \X Nat) /\ part \in Seq(Sids \X Nat)
        /\ s \in Nat /\ d \in Nat /\ k \in Nat /\ m \in Nat
        /\ m \in {s, d} /\ m >= s /\ m >= d /\ s =< k /\ d =< k
        /\ Len(part) = k - m
    BY DEF Follow
  <1>2. /\ s \in Nat /\ d \in Nat /\ k \in Nat /\ m \in Nat
        /\ m \in {s, d} /\ m >= s /\ m >= d /\ s =< k /\ d =< k
    BY <1>1
  <1>3. /\ \A i \in 1..Len(got) : got[i][1] = a /\ got[i][2] =< s
        /\ Ordered(got)
        /\ \A n \in 1..s : n > d => \E i \in 1..Len(got) : got[i][2] = n
    BY DEF Follow
  <1>4. \A i \in 1..k - m : part[i] = <<a, m + i>>
    BY DEF Follow
  <1>5. PICK l \in Nat : l = Len(got)
    BY <1>1
  <1>6. k - m \in Nat /\ \A i \in 1..k - m : i \in Nat /\ i > 0 /\ m + i =< k
    BY <1>2
  <1>7. \A i \in 1..l : /\ got[i][1] = a /\ got[i][2] =< s
                        /\ got[i][2] \in Nat
    <2>1. DOMAIN got = 1..l
      BY <1>5, <1>1
    <2>2. \A i \in 1..l : got[i] \in Sids \X Nat
      BY <1>5, <1>1
    <2> QED  BY <1>5, <1>3, <2>2
  <1>8. /\ all \in Seq(Sids \X Nat) /\ Len(all) = l + (k - m)
        /\ \A i \in 1..l + (k - m) : all[i] = IF i =< l THEN got[i] ELSE part[i - l]
    <2>1. /\ got \o part \in Seq(Sids \X Nat)
          /\ Len(got \o part) = Len(got) + Len(part)
          /\ \A i \in 1..Len(got) + Len(part) :
               (got \o part)[i] = IF i =< Len(got) THEN got[i] ELSE part[i - Len(got)]
      BY <1>1, ConcatProperties
    <2> QED  BY <1>5, <1>1, <2>1
  <1>9. DOMAIN all = 1..l + (k - m)
    BY <1>6, <1>8
  <1>10. \A i \in 1..l : all[i] = got[i]
    BY <1>6, <1>8
  <1>11. \A i \in 1..k - m : all[l + i] = <<a, m + i>>
    <2> SUFFICES ASSUME NEW i \in 1..k - m
                 PROVE  all[l + i] = <<a, m + i>>
      OBVIOUS
    <2>1. l + i \in 1..l + (k - m) /\ ~(l + i =< l) /\ (l + i) - l = i
      BY <1>6
    <2> QED  BY <1>8, <1>4, <2>1
  <1>12. \A i \in 1..l + (k - m) : i \in 1..l \/ \E j \in 1..k - m : i = l + j
    <2> SUFFICES ASSUME NEW i \in 1..l + (k - m), i \notin 1..l
                 PROVE  \E j \in 1..k - m : i = l + j
      OBVIOUS
    <2>1. i - l \in 1..k - m /\ i = l + (i - l)
      BY <1>6
    <2> QED  BY <2>1
  <1>13. ASSUME NEW i \in DOMAIN all
         PROVE  all[i][1] = a /\ all[i][2] =< k
    <2>1. CASE i \in 1..l
      <3>1. all[i] = got[i] /\ got[i][1] = a /\ got[i][2] =< s /\ got[i][2] \in Nat
        BY <1>10, <1>7, <2>1
      <3>2. PICK x \in Nat : x = got[i][2] /\ x =< s
        BY <3>1
      <3>3. x =< k
        BY <1>2, <3>2
      <3> QED  BY <3>1, <3>2, <3>3
    <2>2. CASE i \notin 1..l
      <3>1. PICK j \in 1..k - m : i = l + j
        BY <1>9, <1>12, <2>2
      <3>2. all[i] = <<a, m + j>>
        BY <1>11, <3>1
      <3>3. m + j =< k
        BY <1>6
      <3>4. all[i][1] = a /\ all[i][2] = m + j
        BY <3>2
      <3> QED  BY <3>3, <3>4
    <2> QED  BY <2>1, <2>2
  <1>14. ASSUME NEW i \in DOMAIN all, NEW j \in DOMAIN all, i < j
         PROVE  all[i][2] < all[j][2]
    <2>1. CASE j \in 1..l
      <3>1. i \in 1..l
        BY <1>9, <1>14, <2>1, <1>6
      <3>2. got[i][2] < got[j][2]
        <4>1. DOMAIN got = 1..l
          BY <1>5, <1>1
        <4> QED  BY <1>14, <1>3, <2>1, <3>1, <4>1 DEF Ordered
      <3> QED  BY <1>10, <2>1, <3>1, <3>2
    <2>2. CASE j \notin 1..l
      <3>1. PICK y \in 1..k - m : j = l + y /\ all[j] = <<a, m + y>>
        <4>1. PICK y \in 1..k - m : j = l + y
          BY <1>9, <1>12, <2>2
        <4> QED  BY <1>11, <4>1
      <3>2. CASE i \in 1..l
        <4>1. all[i] = got[i] /\ got[i][2] =< s /\ got[i][2] \in Nat
          BY <1>10, <1>7, <3>2
        <4>2. PICK x \in Nat : x = got[i][2] /\ x =< s
          BY <4>1
        <4>3. x < m + y
          <5>1. x =< m /\ y \in Nat /\ y > 0 /\ m \in Nat
            BY <1>2, <1>6, <4>2
          <5> QED  BY <5>1
        <4>4. all[i][2] = x /\ all[j][2] = m + y
          BY <3>1, <4>1, <4>2
        <4> QED  BY <4>3, <4>4
      <3>3. CASE i \notin 1..l
        <4>1. PICK x \in 1..k - m : i = l + x /\ all[i] = <<a, m + x>>
          <5>1. PICK x \in 1..k - m : i = l + x
            BY <1>9, <1>12, <3>3
          <5> QED  BY <1>11, <5>1
        <4>2. m + x < m + y
          <5>1. x < y /\ x \in Nat /\ y \in Nat /\ m \in Nat
            BY <1>5, <1>2, <1>6, <1>14, <3>1, <4>1
          <5> QED  BY <5>1
        <4>3. all[i][2] = m + x /\ all[j][2] = m + y
          BY <3>1, <4>1
        <4> QED  BY <4>2, <4>3
      <3> QED  BY <3>2, <3>3
    <2> QED  BY <2>1, <2>2
  <1>15. ASSUME NEW n \in 1..k, n > d
         PROVE  \E i \in DOMAIN all : all[i][2] = n
    <2>1. CASE n =< s
      <3>1. PICK i \in 1..l : got[i][2] = n
        <4>1. n \in 1..s
          BY <1>2, <2>1
        <4> QED  BY <1>5, <1>15, <1>3, <4>1
      <3>2. i \in DOMAIN all /\ all[i] = got[i]
        BY <1>6, <1>9, <1>10
      <3> QED  BY <3>1, <3>2
    <2>2. CASE n > s
      <3>1. PICK x \in 1..k - m : m + x = n
        <4>1. n - m \in 1..k - m /\ m + (n - m) = n
          BY <1>2, <1>15, <2>2
        <4> QED  BY <4>1
      <3>2. PICK i \in 1..l + (k - m) : i = l + x
        BY <1>6
      <3>3. all[i] = <<a, n>>
        BY <1>11, <3>1, <3>2
      <3>4. i \in DOMAIN all /\ all[i][2] = n
        BY <1>9, <3>3
      <3> QED  BY <3>4
    <2> QED  BY <1>2, <2>1, <2>2
  <1> QED  BY <1>13, <1>14, <1>15 DEF Gapless, Ordered

\* An answer with the bytes after m, to the last one k, cuts the characters that
\* it has by halves.
LEMMA CutInside ==
    ASSUME NEW a \in Sids, NEW m \in Nat, NEW k \in Nat, NEW bytes \in Seq(Sids \X Nat),
           Len(bytes) = k - m, \A i \in 1..k - m : bytes[i] = <<a, m + i>>,
           NEW i \in 1..k - m, <<a, m + i>> \in Torn(bytes)
    PROVE  \E c \in {m, k} : c + 1 \in terminal[a].inner /\ SameChar(a, c + 1, m + i)
  <1>1. DOMAIN bytes = 1..k - m
    OBVIOUS
  <1>2. PICK x \in 1..(MaxOutput + 1) :
          SameChar(a, x, m + i) /\ <<a, x>> \notin Range(bytes)
    BY DEF Torn
  <1>3. \A j \in 1..k - m : bytes[j] # <<a, x>>
    BY <1>1, <1>2 DEF Range
  <1>4. x \in Nat
    OBVIOUS
  <1>5. x =< m \/ x > k
    <2> SUFFICES ASSUME ~(x =< m), ~(x > k) PROVE FALSE
      OBVIOUS
    <2>1. x - m \in 1..k - m /\ m + (x - m) = x
      BY <1>4
    <2> QED  BY <1>3, <2>1
  <1>6. \A y \in (x + 1)..(m + i) \cup ((m + i) + 1)..x : y \in terminal[a].inner
    BY <1>2 DEF SameChar
  <1>7. i \in Nat /\ i >= 1 /\ m + i =< k
    OBVIOUS
  <1>8. CASE x =< m
    <2>1. m + 1 \in terminal[a].inner
      <3>1. m + 1 \in (x + 1)..(m + i)
        BY <1>4, <1>7, <1>8
      <3> QED  BY <1>6, <3>1
    <2>2. SameChar(a, m + 1, m + i)
      <3> SUFFICES ASSUME NEW y \in ((m + 1) + 1)..(m + i) \cup ((m + i) + 1)..(m + 1)
                   PROVE  y \in terminal[a].inner
        BY DEF SameChar
      <3>1. y \in (x + 1)..(m + i)
        BY <1>4, <1>7, <1>8
      <3> QED  BY <1>6, <3>1
    <2> QED  BY <2>1, <2>2
  <1>9. CASE x > k
    <2>1. k + 1 \in terminal[a].inner
      <3>1. k + 1 \in ((m + i) + 1)..x
        BY <1>4, <1>7, <1>9
      <3> QED  BY <1>6, <3>1
    <2>2. SameChar(a, k + 1, m + i)
      <3> SUFFICES ASSUME NEW y \in ((k + 1) + 1)..(m + i) \cup ((m + i) + 1)..(k + 1)
                   PROVE  y \in terminal[a].inner
        BY DEF SameChar
      <3>1. y \in ((m + i) + 1)..x
        BY <1>4, <1>7, <1>9
      <3> QED  BY <1>6, <3>1
    <2> QED  BY <2>1, <2>2
  <1> QED  BY <1>5, <1>8, <1>9

\* Reading the output keeps the invariant.
LEMMA OutputStep ==
    ASSUME TermInv, NEW a \in Sids, Output(a)
    PROVE  TermInv'
  <1> USE DEF TermInv
  <1>1. /\ a \in sessions
        /\ client' = [client EXCEPT ![a] =
                        [since |-> terminal[a].dropped + Len(terminal[a].buffer),
                         got |-> client[a].got \o From(a, client[a].since),
                         torn |-> client[a].torn \cup Torn(From(a, client[a].since)),
                         cuts |-> client[a].cuts \cup
                           {c \in {Max({client[a].since, terminal[a].dropped}),
                                  terminal[a].dropped + Len(terminal[a].buffer)} :
                              Max({client[a].since, terminal[a].dropped})
                                < terminal[a].dropped + Len(terminal[a].buffer)}]]
        /\ UNCHANGED <<sessions, terminal, fds, lock, thread, reused>>
    BY DEF Output
  <1>2. PICK d \in Nat, k \in Nat, s \in Nat, got \in Seq(Sids \X Nat),
             buffer \in Seq(Sids \X Nat) :
          /\ d = terminal[a].dropped /\ k = terminal[a].taken /\ s = client[a].since
          /\ got = client[a].got /\ buffer = terminal[a].buffer
    BY DEF TerminalTyped, TerminalRecords, Pages
  <1>3. PICK m \in Nat : m = Max({s, d}) /\ m \in {s, d} /\ m >= s /\ m >= d
    <2>1. Max({s, d}) \in {s, d} /\ Max({s, d}) >= s /\ Max({s, d}) >= d
      BY GreaterOfTwo
    <2> QED  BY <2>1
  <1>4. PICK off \in Nat : off = m - d
    BY <1>3
  <1>5. PICK part : part = SubSeq(buffer, off + 1, Len(buffer))
    OBVIOUS
  <1>6. From(a, client[a].since) = part
    BY <1>2, <1>3, <1>4, <1>5 DEF From
  <1>7. /\ part \in Seq(Sids \X Nat)
        /\ off =< Len(buffer) => Len(part) = Len(buffer) - off
        /\ \A i \in 1..Len(buffer) - off : part[i] = buffer[off + i]
    BY SMTT(30), <1>5, RestOfBuffer
  <1>13. PICK torn \in SUBSET (Sids \X Nat) : torn = client[a].torn \cup Torn(part)
    <2>1. \A i \in DOMAIN part : part[i] \in Sids \X Nat
      BY <1>7
    <2>2. Torn(part) \subseteq Sids \X Nat
      BY <2>1 DEF Torn, Range
    <2> QED  BY <2>2 DEF TerminalTyped, Pages
  <1>14. PICK cuts \in SUBSET Nat :
           cuts = client[a].cuts \cup {c \in {m, d + Len(buffer)} : m < d + Len(buffer)}
    <2>1. client[a].cuts \subseteq Nat /\ d + Len(buffer) \in Nat
      BY DEF TerminalTyped, Pages
    <2> QED  BY <2>1
  <1>8. /\ client'[a].since = d + Len(buffer) /\ client'[a].got = got \o part
        /\ client'[a].cuts = cuts /\ client'[a].torn = torn
        /\ client' \in [Sids -> Pages]
        /\ \A b \in Sids \ {a} : client'[b] = client[b]
    <2>1. got \o part \in Seq(Sids \X Nat) /\ d + Len(buffer) \in Nat
      BY <1>7, ConcatProperties
    <2>2. client' = [client EXCEPT ![a] = [since |-> d + Len(buffer), got |-> got \o part,
                                           torn |-> torn, cuts |-> cuts]]
      BY <1>1, <1>2, <1>3, <1>6, <1>13, <1>14
    <2>3. [since |-> d + Len(buffer), got |-> got \o part, torn |-> torn,
           cuts |-> cuts] \in Pages
      BY <2>1 DEF Pages
    <2> QED  BY <2>2, <2>3 DEF TerminalTyped
  <1>9. TerminalTyped'
    BY <1>1, <1>8 DEF TerminalTyped
  <1>10. Locked' /\ OneCloser' /\ NumbersHeld' /\ Alone'
    <2>1. Locked' /\ OneCloser'
      BY ZenonT(40), <1>1 DEF Locked, OneCloser, Closing
    <2>2. NumbersHeld'
      BY ZenonT(40), <1>1 DEF NumbersHeld, Held, Closing, Using
    <2>3. Alone'
      <3>1. \A c \in Sids : /\ Held(c)' <=> Held(c)
                            /\ Using(c)' <=> Using(c)
        BY <1>1 DEF Held, Closing, Using
      <3> QED  BY <1>1, <3>1 DEF Alone
    <2> QED  BY <2>1, <2>2, <2>3
  <1>11. Forgotten'
    BY <1>1, <1>8 DEF Forgotten, Held, Closing
  <1>12. OwnSound'
    <2> SUFFICES ASSUME NEW c \in Sids \ reused
                 PROVE  /\ terminal'[c].strangers \subseteq {c}
                        /\ PageSound(c)' /\ Legible(c)'
                        /\ c \in sessions' => BufferSound(c)' /\ ReaderSound(c)'
      BY <1>1 DEF OwnSound
    <2>1. /\ terminal[c].strangers \subseteq {c} /\ PageSound(c) /\ Legible(c)
          /\ c \in sessions => BufferSound(c) /\ ReaderSound(c)
      BY DEF OwnSound
    <2>2. CASE c = a
      <3>1. /\ d =< k /\ s =< k /\ Len(buffer) = k - d
            /\ \A i \in 1..Len(buffer) : buffer[i] = <<a, d + i>>
        BY SMTT(30), <1>1, <1>2, <2>1, <2>2 DEF BufferSound
      <3>2. /\ \A i \in 1..Len(got) : got[i][1] = a /\ got[i][2] =< s
            /\ Ordered(got)
            /\ \A n \in 1..s : n > d => \E i \in 1..Len(got) : got[i][2] = n
        <4>1. DOMAIN got = 1..Len(got)
          OBVIOUS
        <4>2. PageSound(a)
          BY <2>1, <2>2
        <4> QED  BY <1>2, <4>1, <4>2 DEF PageSound, Gapless
      <3>3. /\ Len(part) = k - m
            /\ \A i \in 1..k - m : part[i] = <<a, m + i>>
        <4>1. off =< Len(buffer) /\ Len(buffer) - off = k - m
          BY SMTT(30), <1>3, <1>4, <3>1
        <4>2. ASSUME NEW i \in 1..k - m
              PROVE  part[i] = <<a, m + i>>
          <5>1. /\ part[i] = buffer[off + i]
                /\ off + i \in 1..Len(buffer) /\ d + (off + i) = m + i
            <6>1. i \in 1..Len(buffer) - off
              BY <4>1
            <6>2. off + i \in 1..Len(buffer) /\ d + (off + i) = m + i
              BY <1>4, <3>1, <4>1
            <6> QED  BY <1>7, <6>1, <6>2
          <5> QED  BY <3>1, <5>1
        <4> QED  BY <1>7, <4>1, <4>2
      <3>4. d + Len(buffer) = k
        BY <3>1
      <3>5. PICK all : all = got \o part
        OBVIOUS
      <3>6. Gapless(a, all, d, k)
        <4>1. Follow(a, got, part, all, s, d, k, m)
          BY <1>3, <1>7, <3>1, <3>2, <3>3, <3>5 DEF Follow
        <4> QED  BY <4>1, PageGrows
      <3>7. PageSound(a)'
        <4>1. /\ client'[a].got = all /\ client'[a].since = k
              /\ terminal'[a].dropped = d
          BY ZenonT(40), <1>1, <1>2, <1>8, <3>4, <3>5
        <4> QED  BY <3>6, <4>1 DEF PageSound
      <3>8. BufferSound(a)' /\ ReaderSound(a)'
        BY <1>1, <1>2, <1>8, <2>1, <2>2, <3>4 DEF BufferSound, ReaderSound, Pending,
            HungUp
      <3>9. Legible(a)'
        <4>1. terminal'[a].inner = terminal[a].inner /\ client[a].cuts \subseteq client'[a].cuts
          BY SMTT(30), <1>1, <1>8, <1>14
        <4> SUFFICES ASSUME NEW byte \in torn
                     PROVE  Split(a, byte[2])'
          BY <1>8 DEF Legible
        <4>2. CASE byte \in client[a].torn
          <5>1. Split(a, byte[2])
            BY <2>1, <2>2, <4>2 DEF Legible
          <5> QED  BY <4>1, <5>1, StaysSplit
        <4>3. CASE byte \in Torn(part)
          <5>1. PICK i \in 1..k - m :
                  byte = <<a, m + i>> /\ <<a, m + i>> \in Torn(part)
            <6>1. DOMAIN part = 1..k - m
              BY <1>7, <3>3
            <6>2. PICK i \in 1..k - m : byte = part[i]
              BY <4>3, <6>1 DEF Torn, Range
            <6>3. byte = <<a, m + i>>
              BY <3>3, <6>2
            <6> QED  BY <4>3, <6>3
          <5>2. PICK edge \in {m, k} : edge + 1 \in terminal[a].inner /\ SameChar(a, edge + 1, m + i)
            BY <1>7, <3>3, <5>1, CutInside
          <5>3. edge \in client'[a].cuts
            <6>1. m < k
              OBVIOUS
            <6> QED  BY <1>8, <1>14, <3>4, <5>2, <6>1
          <5>4. SameChar(a, edge + 1, m + i)'
            BY <4>1, <5>2 DEF SameChar
          <5>5. edge + 1 \in terminal'[a].inner /\ byte[2] = m + i
            BY <4>1, <5>1, <5>2
          <5> QED  BY <5>3, <5>4, <5>5 DEF Split
        <4> QED  BY <1>13, <4>2, <4>3
      <3> QED  BY <1>1, <2>1, <2>2, <3>7, <3>8, <3>9
    <2>3. CASE c # a
      <3>1. terminal' = terminal /\ client'[c] = client[c] /\ sessions' = sessions
        BY <1>1, <1>8, <2>3
      <3>2. PageSound(c)' /\ Legible(c)'
        BY <2>1, <3>1, StaysLegible DEF PageSound
      <3>3. c \in sessions' => BufferSound(c)' /\ ReaderSound(c)'
        BY <2>1, <3>1 DEF BufferSound, ReaderSound, Pending, HungUp
      <3> QED  BY <2>1, <3>1, <3>2, <3>3
    <2> QED  BY <2>2, <2>3
  <1> QED  BY <1>9, <1>10, <1>11, <1>12

\* Starting a terminal keeps the invariant: a free number is there, and whoever
\* still uses it is counted as disturbed, with the new terminal.
LEMMA CreateStep ==
    ASSUME TermInv, NEW t \in Threads, NEW a \in Sids, Create(t, a)
    PROVE  TermInv'
  <1> USE DEF TermInv
  <1>1. PICK n \in Numbers : n = Min({m \in Numbers : fds[m] = NoSid}) /\ fds[n] = NoSid
    BY FreeNumber
  <1>2. /\ thread[t].does = "start" /\ lock = t /\ lock' = Nobody
        /\ Fresh(a)
        /\ sessions' = sessions \cup {a}
        /\ fds' = [fds EXCEPT ![n] = a]
        /\ reused' = (reused \ {a}) \cup
                       (IF StillUsing(n) = {} THEN {} ELSE StillUsing(n) \cup {a})
        /\ Rest(t)
        /\ UNCHANGED client
    BY <1>1 DEF Create, Does, Locked
  <1>3. PICK it : /\ it = [NotStarted EXCEPT !.alive = TRUE, !.fd = n, !.shell = "running",
                                             !.reader = "check"]
                  /\ terminal' = [terminal EXCEPT ![a] = it]
    BY <1>1 DEF Create
  <1>4. /\ it \in TerminalRecords
        /\ it.fd = n /\ it.reader = "check" /\ it.strangers = {} /\ it.dropped = 0
        /\ it.taken = 0 /\ it.buffer = <<>>
    <2>1. <<>> \in Seq(Sids \X Nat)
      OBVIOUS
    <2> QED  BY <1>3, <2>1 DEF NotStarted, TerminalRecords, Awake
  <1>5. /\ terminal' \in [Sids -> TerminalRecords] /\ terminal'[a] = it
        /\ \A b \in Sids \ {a} : terminal'[b] = terminal[b]
    BY <1>3, <1>4 DEF TerminalTyped
  <1>6. /\ thread' \in [Threads -> ThreadRecords]
        /\ thread'[t].does = "nothing" /\ thread'[t].stale = {}
        /\ \A s \in Threads \ {t} : thread'[s] = thread[s]
    BY <1>2, RestOf
  <1>7. /\ fds' \in [Numbers -> Sids \cup {NoSid}] /\ fds'[n] = a
        /\ \A m \in Numbers \ {n} : fds'[m] = fds[m]
    BY <1>2 DEF TerminalTyped
  <1>8. reused' \in SUBSET Sids /\ reused \ {a} \subseteq reused'
    BY <1>2 DEF TerminalTyped, StillUsing
  <1>9. TerminalTyped'
    BY <1>2, <1>5, <1>6, <1>7, <1>8 DEF TerminalTyped
  <1>10. \A s \in Threads \ {t} : thread[s].does # "start" /\ thread[s].stale = {}
    BY <1>2 DEF Locked
  <1>11. Locked'
    BY <1>2, <1>6, <1>10 DEF Locked
  <1>12. /\ a \notin sessions /\ ~Held(a) /\ terminal[a].reader \notin Awake
         /\ \A s \in Threads : thread[s].sid # a
    BY <1>2 DEF Fresh, Held, Closing, Awake
  <1>13. \A s \in Threads, c \in Sids : Closing(s, c)' <=> Closing(s, c)
    BY <1>2, <1>6 DEF Closing
  <1>14. OneCloser'
    <2>1. \A s \in Threads : ~Closing(s, a)
      BY <1>12 DEF Closing
    <2>2. \A s \in Threads :
             thread'[s].does \in {"hang up", "close", "use"} => thread'[s].sid \in Sids
      BY <1>6 DEF OneCloser
    <2>3. ASSUME NEW s \in Threads, NEW c \in Sids, Closing(s, c)'
          PROVE  c \notin sessions' /\ \A o \in Threads : Closing(o, c)' => o = s
      <3>1. Closing(s, c) /\ c # a
        BY <1>13, <2>1, <2>3
      <3> QED  BY <1>2, <1>13, <3>1 DEF OneCloser
    <2> QED  BY <2>2, <2>3 DEF OneCloser
  <1>15. /\ \A c \in Sids \ {a} : (Held(c)' <=> Held(c)) /\ (Using(c)' => Using(c))
         /\ Held(a)'
    BY <1>2, <1>5, <1>6, <1>13 DEF Held, Using
  <1>16. /\ terminal'[a].fd = n
         /\ \A c \in Sids \ {a} : terminal'[c].fd = terminal[c].fd
    BY <1>4, <1>5
  <1>17. \A c \in Sids \ {a} : Held(c) => terminal[c].fd \in Numbers \ {n}
    BY <1>1, TerminalAssumption DEF NumbersHeld
  <1>18. NumbersHeld'
    <2>1. ASSUME NEW c \in Sids, Held(c)'
          PROVE  terminal'[c].fd \in Numbers /\ fds'[terminal'[c].fd] = c
      <3>1. CASE c = a
        BY <1>7, <1>16, <3>1
      <3>2. CASE c # a
        BY <1>7, <1>15, <1>16, <1>17, <2>1, <3>2 DEF NumbersHeld
      <3> QED  BY <3>1, <3>2
    <2>2. ASSUME NEW m \in Numbers, fds'[m] # NoSid
          PROVE  terminal'[fds'[m]].fd = m /\ Held(fds[m])'
      <3>1. CASE m = n
        <4>1. Held(fds[m])'
          BY <1>2, <1>7, <3>1 DEF Held, Closing
        <4> QED  BY <1>7, <1>16, <3>1, <4>1
      <3>2. CASE m # n
        <4>1. PICK c \in Sids : c = fds[m] /\ c = fds'[m]
          BY <1>7, <2>2, <3>2 DEF TerminalTyped
        <4>2. terminal[c].fd = m /\ Held(c)
          BY <1>7, <2>2, <3>2, <4>1 DEF NumbersHeld
        <4>3. c # a
          BY <1>12, <4>2
        <4>4. terminal'[c].fd = m /\ Held(c)'
          BY <1>15, <1>16, <4>2, <4>3
        <4> QED  BY <4>1, <4>4 DEF Held, Closing
      <3> QED  BY <3>1, <3>2
    <2>3. \A c \in Sids : Using(c)' => terminal'[c].fd \in Numbers
      BY <1>15, <1>16 DEF NumbersHeld
    <2> QED  BY <2>1, <2>2, <2>3 DEF NumbersHeld
  <1>19. a \notin reused' => \A o \in Sids \ {a} : terminal[o].fd = n => ~Using(o)
    <2> SUFFICES ASSUME a \notin reused', NEW o \in Sids \ {a}, terminal[o].fd = n, Using(o)
                 PROVE  FALSE
      OBVIOUS
    <2>1. o \notin StillUsing(n)
      BY <1>2
    <2>2. o \notin sessions
      BY <1>17 DEF Held
    <2> QED  BY <2>1, <2>2 DEF StillUsing, Using, Awake
  <1>20. Alone'
    <2> SUFFICES ASSUME NEW c \in Sids \ reused', NEW o \in Sids, Held(c)', o # c,
                        terminal'[o].fd = terminal'[c].fd, Using(o)'
                 PROVE  FALSE
      BY DEF Alone
    <2>1. CASE c = a
      BY <1>15, <1>16, <1>19, <2>1
    <2>2. CASE c # a /\ o = a
      BY <1>15, <1>16, <1>17, <2>2
    <2>3. CASE c # a /\ o # a
      BY <1>8, <1>15, <1>16, <2>3 DEF Alone
    <2> QED  BY <2>1, <2>2, <2>3
  <1>21. Forgotten'
    BY <1>2, <1>15 DEF Forgotten
  <1>22. OwnSound'
    <2> SUFFICES ASSUME NEW c \in Sids \ reused'
                 PROVE  /\ terminal'[c].strangers \subseteq {c}
                        /\ PageSound(c)' /\ Legible(c)'
                        /\ c \in sessions' => BufferSound(c)' /\ ReaderSound(c)'
      BY DEF OwnSound
    <2>1. CASE c = a
      <3>1. client'[a].got = <<>> /\ client'[a].since = 0 /\ client'[a].torn = {}
        BY <1>2, <1>12 DEF Forgotten, NewClient
      <3>2. PageSound(a)' /\ Legible(a)'
        BY <3>1 DEF PageSound, Gapless, Ordered, Legible
      <3>3. BufferSound(a)'
        BY <1>4, <1>5, <3>1 DEF BufferSound
      <3>4. ReaderSound(a)'
        BY <1>4, <1>5 DEF ReaderSound
      <3> QED  BY <1>4, <1>5, <2>1, <3>2, <3>3, <3>4
    <2>2. CASE c # a
      <3>1. /\ c \notin reused /\ terminal'[c] = terminal[c] /\ client' = client
            /\ c \in sessions' => c \in sessions
        BY <1>2, <1>5, <1>8, <2>2
      <3>2. /\ terminal[c].strangers \subseteq {c} /\ PageSound(c) /\ Legible(c)
            /\ c \in sessions => BufferSound(c) /\ ReaderSound(c)
        BY <3>1 DEF OwnSound
      <3>3. Legible(c)'
        BY <3>1, <3>2, StaysLegible
      <3> QED  BY <3>1, <3>2, <3>3 DEF PageSound, BufferSound, ReaderSound, Pending, HungUp
    <2> QED  BY <2>1, <2>2
  <1> QED  BY <1>9, <1>11, <1>14, <1>18, <1>20, <1>21, <1>22

\* The invariant holds before the first terminal is started.
LEMMA TerminalStart ==
    ASSUME TerminalInit
    PROVE  TermInv
  <1>1. /\ sessions = {} /\ reused = {}
        /\ \A a \in Sids : terminal[a] = NotStarted /\ client[a] = NewClient
        /\ \A t \in Threads : thread[t] = IdleThread
        /\ \A n \in Numbers : fds[n] = NoSid
    BY DEF TerminalInit
  <1>2. TerminalTyped
    <2>1. <<>> \in Seq(Sids \X Nat)
      OBVIOUS
    <2>2. NotStarted \in TerminalRecords
      BY <2>1 DEF NotStarted, TerminalRecords
    <2>3. NewClient \in Pages
      <3>1. <<>> \in Seq(Sids \X Nat)
        OBVIOUS
      <3> QED  BY <3>1 DEF NewClient, Pages
    <2>4. IdleThread \in ThreadRecords
      BY DEF IdleThread, ThreadRecords
    <2> QED  BY <2>2, <2>3, <2>4 DEF TerminalInit, TerminalTyped
  <1>3. \A t \in Threads :
           /\ thread[t].does = "nothing" /\ thread[t].sid = NoSid
           /\ thread[t].stale = {}
    BY <1>1 DEF IdleThread
  <1>4. \A a \in Sids, t \in Threads : ~Closing(t, a)
    BY <1>3 DEF Closing
  <1>5. \A a \in Sids : ~Held(a) /\ ~Using(a)
    BY <1>1, <1>3, <1>4 DEF Held, Using, Awake, NotStarted
  <1>6. Locked /\ OneCloser
    <2>1. Locked
      BY <1>3 DEF Locked
    <2>2. OneCloser
      BY <1>3, <1>4 DEF OneCloser
    <2> QED  BY <2>1, <2>2
  <1>7. NumbersHeld /\ Alone /\ Forgotten
    BY <1>1, <1>5 DEF NumbersHeld, Alone, Forgotten
  <1>8. \A a \in Sids : terminal[a].strangers \subseteq {a} /\ PageSound(a) /\ Legible(a)
    BY <1>1 DEF NotStarted, NewClient, PageSound, Gapless, Ordered, Legible
  <1> QED  BY <1>1, <1>2, <1>6, <1>7, <1>8 DEF TermInv, OwnSound

\* The invariant of the terminals, by the steps above.
LEMMA TerminalInvariant == TerminalSpec => []TermInv
  <1>1. ASSUME TermInv, TerminalNext PROVE TermInv'
    <2>1. CASE \E t \in Threads : \/ Refuse(t) \/ HangUp(t) \/ Close(t) \/ Use(t)
                                  \/ UseFails(t)
      BY <1>1, <2>1, RefuseStep, HangUpStep, CloseStep, UseStep
    <2>2. CASE \E t \in Threads : \E idle \in SUBSET sessions : BeginStart(t, idle)
      BY <1>1, <2>2, BeginStartStep
    <2>3. CASE \E t \in Threads, a \in Sids : \/ Reap(t, a) \/ Create(t, a)
                                              \/ BeginClose(t, a) \/ BeginUse(t, a)
      BY <1>1, <2>3, ForgetStep, CreateStep, BeginUseStep
    <2>4. CASE \E a \in Sids : \/ Output(a) \/ ShellWrites(a) \/ ShellExits(a)
                               \/ Check(a) \/ Select(a) \/ PollShell(a) \/ Read(a)
      BY <1>1, <2>4, OutputStep, WritesStep, LooksStep, ReadStep
    <2> QED  BY <1>1, <2>1, <2>2, <2>3, <2>4 DEF TerminalNext
  <1>2. ASSUME TermInv, UNCHANGED terminalVars PROVE TermInv'
    <2>1. UNCHANGED <<sessions, terminal, fds, lock, thread, client, reused>>
      BY <1>2 DEF terminalVars
    <2> USE <1>2 DEF TermInv
    <2>2. TerminalTyped' /\ Locked' /\ OneCloser'
      BY <2>1 DEF TerminalTyped, Locked, OneCloser, Closing
    <2>3. \A a \in Sids : /\ Held(a)' <=> Held(a)
                          /\ Using(a)' => Using(a)
      BY <2>1 DEF Held, Closing, Using
    <2> QED  BY <1>2, <2>1, <2>2, <2>3, ThreadsOnly
  <1> QED  BY <1>1, <1>2, TerminalStart, PTL DEF TerminalSpec

\* For every number of terminals, request threads and bytes: a terminal is typed
\* at by its own page only, and its page gets what its shell wrote, each byte
\* once and in order, unless the number of its descriptor was in use when it got
\* it or after that (terminal.py:94); and what it gets as U+FFFD was cut by the
\* beginning or the end of an answer (terminal.py:169).
THEOREM TerminalsAreOwn == TerminalSpec => []OwnTerminal
  <1>1. ASSUME TermInv PROVE OwnTerminal
    BY <1>1 DEF OwnTerminal, TermInv, OwnSound, PageSound, Gapless, Own, Legible
  <1> QED  BY <1>1, TerminalInvariant, PTL

\* For every number of terminals, request threads and bytes: the reader of a
\* session goes on to the last byte that its shell wrote (terminal.py:73).
THEOREM OutputIsKept == TerminalSpec => []OutputKept
  <1>1. ASSUME TermInv PROVE OutputKept
    BY <1>1 DEF OutputKept, TermInv, TerminalTyped, OwnSound, ReaderSound
  <1> QED  BY <1>1, TerminalInvariant, PTL

-----------------------------------------------------------------------------
(* Deployments.                                                            *)

\* The steps of update_server.sh, and of its rollback.
Unread == {"save", "stop", "check out", "configure"}
Checking == {"save more", "require", "canary", "install", "restart", "check", "enable"}
Undoing == {"stop again", "reset", "require again", "restore"}
Undone == {"restart again", "check again", "rolled back"}
DeploymentSteps == Unread \cup Checking \cup {"deployed"} \cup Undoing \cup Undone

\* The script is at one of these steps; what it notes down at the start; and all
\* that it knows.
InStep(steps) == script.at \in steps
Backup == [files : [Units -> Releases \cup {None}], enabled : SUBSET Units,
           active : SUBSET Units]

Scripts ==
    [at : DeploymentSteps, previous : Releases, candidate : Releases, names : Releases,
     saved : SUBSET Units, before : Backup, failed : BOOLEAN]

\* What an active timer has: it is enabled and has a file.
SystemTyped ==
    /\ origin \in Releases /\ head \in Releases
    /\ env \in Releases \cup {None} /\ running \in Releases \cup {None}
    /\ files \in [Units -> Releases \cup {None}]
    /\ enabled \in SUBSET Units
    /\ active \subseteq enabled
    /\ \A t \in enabled : files[t] # None
    /\ cut \in BOOLEAN

\* It is idle, or its names are those of one of its two releases.
ScriptTyped ==
    \/ script = NoScript
    \/ script \in Scripts /\ script.names \in {script.previous, script.candidate}

\* What the script found, some of which stays.
Found ==
    LET before == script.before
    IN  ~At("idle") =>
          /\ \A t \in before.enabled : before.files[t] # None
          /\ \A u \in Units : before.files[u] # None => files[u] # None
          /\ before.enabled \subseteq enabled
          /\ ~cut => script.previous \in passed

\* Whose units the script deals with, and which are backed up.
Covered ==
    /\ InStep(Unread) => script.names = script.previous
    /\ InStep(Checking \cup {"deployed"}) => script.names = script.candidate
    /\ ~InStep({"idle", "save"}) => Fixed \cup JobUnits(script.previous) \subseteq script.saved
    /\ InStep({"require", "canary", "install", "restart", "check", "enable", "deployed"}) =>
         JobUnits(script.candidate) \subseteq script.saved

\* No unit file and no link of a timer has changed.
Untouched == files = script.before.files /\ enabled = script.before.enabled

\* Only units that have been backed up may have changed.
ChangedWhatIsSaved ==
    /\ script.names = script.candidate
    /\ JobUnits(script.candidate) \subseteq script.saved
    /\ \A u \in Units \ (Fixed \cup JobUnits(script.candidate)) :
         files[u] = script.before.files[u]
    /\ enabled \subseteq script.before.enabled \cup Timers(script.candidate)

\* What has become of the unit files, step by step.
FilesAccounted ==
    LET before == script.before
        kept(r) == {t \in Timers(r) : before.files[t] # None}
    IN  /\ InStep(Unread) => Untouched
        /\ InStep(Checking \cup {"deployed"} \cup Undoing) => Untouched \/ ChangedWhatIsSaved
        /\ InStep({"restart", "check", "enable", "deployed"}) =>
             \A u \in Fixed \cup JobUnits(script.candidate) : files[u] = script.candidate
        /\ InStep(Undone) /\ ~script.failed =>
             /\ script.names = script.previous
             /\ files = before.files
             /\ enabled \subseteq before.enabled \cup kept(script.candidate)
                                   \cup kept(script.previous)
             /\ At("rolled back") => kept(script.previous) \subseteq enabled

\* No timer runs that did not when it was found, and none of the previous release.
OnlyFoundActive ==
    /\ active \subseteq script.before.active
    /\ active \cap Timers(script.previous) = {}

\* Which timers run, step by step.
TimersAccounted ==
    LET kept == {t \in Timers(script.previous) : script.before.files[t] # None}
    IN  /\ InStep({"save", "stop"}) => active \subseteq script.before.active
        /\ InStep({"check out", "configure"} \cup Checking) => OnlyFoundActive
        /\ At("stop again") =>
             \/ active \subseteq script.before.active /\ script.names = script.previous
             \/ /\ script.names = script.candidate
                /\ active \subseteq script.before.active \cup Timers(script.candidate)
                /\ active \cap Timers(script.previous) \subseteq Timers(script.candidate)
        /\ InStep({"reset", "require again", "restore", "restart again", "check again"})
             /\ ~script.failed => OnlyFoundActive
        /\ At("deployed") =>
             /\ Timers(script.candidate) \subseteq active
             /\ active \cap Timers(script.previous) \subseteq Timers(script.candidate)
        /\ At("rolled back") /\ ~script.failed =>
             /\ active \cap Timers(script.previous) = kept
             /\ active \subseteq script.before.active \cup kept

\* Which release is checked out, installed, serving and known to be healthy.
ReleaseAccounted ==
    LET c == script.candidate
        p == script.previous
    IN  /\ InStep({"configure", "deployed"} \cup Checking) => head = c
        /\ InStep({"canary", "install", "restart", "check", "enable", "deployed"}) => env = c
        /\ InStep({"check", "enable", "deployed"}) => running = c
        /\ InStep({"enable", "deployed"}) => c \in passed
        /\ ~script.failed =>
             /\ InStep({"require again", "restore"} \cup Undone) => head = p
             /\ InStep({"restore"} \cup Undone) => env = p
             /\ InStep({"check again", "rolled back"}) => running = p
        /\ InStep({"idle", "save"}) /\ ~cut => head \in passed /\ running = head /\ env = head

\* The inductive invariant of deployments.
DInv ==
    /\ SystemTyped /\ ScriptTyped /\ Found /\ Covered
    /\ FilesAccounted /\ TimersAccounted /\ ReleaseAccounted

\* What a release declares are units, and its timers are among its job units.
LEMMA UnitsOfReleases ==
    ASSUME NEW r \in Releases
    PROVE  /\ Fixed \subseteq Units /\ JobUnits(r) \subseteq Units
           /\ Timers(r) \subseteq Units /\ Timers(r) \subseteq JobUnits(r)
           /\ r # None
  BY DEF Units, JobUnits, Releases, None

\* All that the script knows except where it is.
Fields ==
    /\ script'.previous = script.previous /\ script'.candidate = script.candidate
    /\ script'.names = script.names /\ script'.saved = script.saved
    /\ script'.before = script.before /\ script'.failed = script.failed

\* It goes from one step to the next, with what it knows.
Goes(from, to) ==
    /\ script.at = from /\ script'.at = to
    /\ script \in Scripts /\ script' \in Scripts
    /\ script.names \in {script.previous, script.candidate}
    /\ script.before.files \in [Units -> Releases \cup {None}]
    /\ script.before.enabled \in SUBSET Units
    /\ Fields

\* A script that is at work has a record of what it found.
LEMMA Working ==
    ASSUME ScriptTyped, ~At("idle")
    PROVE  /\ script \in Scripts
           /\ script.names \in {script.previous, script.candidate}
           /\ script.before.files \in [Units -> Releases \cup {None}]
           /\ script.before.enabled \in SUBSET Units
  <1>1. script # NoScript
    BY DEF At, NoScript
  <1>2. script \in Scripts /\ script.names \in {script.previous, script.candidate}
    BY <1>1 DEF ScriptTyped
  <1>3. script.before \in Backup
    BY <1>2 DEF Scripts
  <1> QED  BY <1>2, <1>3 DEF Backup

\* A step that only goes on to the next one leaves what the script knows.
LEMMA Going ==
    ASSUME ScriptTyped, NEW from, NEW to \in DeploymentSteps, from # "idle",
           At(from), Go(to)
    PROVE  Goes(from, to) /\ ScriptTyped'
  <1>1. script \in Scripts /\ script.names \in {script.previous, script.candidate}
    BY DEF ScriptTyped, At, NoScript
  <1>2. script.before \in Backup
    BY <1>1 DEF Scripts
  <1>3. script' = [script EXCEPT !.at = to] /\ script.at = from
    BY DEF Go, At
  <1>4. script' \in Scripts /\ script'.at = to /\ Fields
    BY <1>1, <1>3 DEF Scripts, Fields
  <1> QED  BY <1>1, <1>2, <1>3, <1>4 DEF Goes, Fields, ScriptTyped, Backup

\* The names it deals with are those of units.
UnitsNamed ==
    /\ JobUnits(script.previous) \subseteq Units /\ JobUnits(script.candidate) \subseteq Units
    /\ Timers(script.previous) \subseteq JobUnits(script.previous)
    /\ Timers(script.candidate) \subseteq JobUnits(script.candidate)
    /\ Fixed \subseteq Units
    /\ head # None /\ script.candidate # None /\ script.previous # None

\* The names that a script deals with are those of units.
LEMMA NamesAreUnits ==
    ASSUME SystemTyped, script \in Scripts
    PROVE  UnitsNamed
  BY UnitsOfReleases DEF UnitsNamed, Scripts, SystemTyped

\* Every step of a deployment, of its rollback and of the machine keeps the
\* invariant.
LEMMA DeploymentStep ==
    ASSUME DInv, DeploymentNext
    PROVE  DInv'
  <1> USE DEF DInv, InStep, At, Unread, Checking, Undoing, Undone, system, UnitsNamed,
         Goes, Fields, Scripts, Installed
  <1>1. CASE BeginDeployment
    <2>1. ScriptTyped'
      BY <1>1 DEF BeginDeployment, NoScript, ScriptTyped, Scripts, SystemTyped,
          Backup, DeploymentSteps
    <2>2. /\ script'.at = "save" /\ script'.previous = head /\ script'.candidate = origin
          /\ script'.names = head /\ script'.saved = {} /\ ~script'.failed
      BY <1>1 DEF BeginDeployment, NoScript
    <2>3. script'.before = [files |-> files, enabled |-> enabled, active |-> active]
      BY <1>1 DEF BeginDeployment, NoScript
    <2>4. /\ script'.before.files = files /\ script'.before.enabled = enabled
          /\ script'.before.active = active
      BY <2>3
    <2>5. SystemTyped'
      BY <1>1, <2>2, <2>4 DEF BeginDeployment, Untouched, SystemTyped, Found,
          Covered, FilesAccounted, ChangedWhatIsSaved
    <2>6. Found' /\ Covered'
      BY <1>1, <2>2, <2>4 DEF BeginDeployment, Untouched, SystemTyped, Found,
          Covered, ReleaseAccounted
    <2>7. FilesAccounted'
      BY <1>1, <2>2, <2>4 DEF BeginDeployment, Untouched, SystemTyped, Found,
          Covered, FilesAccounted, ChangedWhatIsSaved
    <2>8. TimersAccounted'
      BY <1>1, <2>2, <2>4 DEF BeginDeployment, Untouched, SystemTyped, Found,
          Covered, TimersAccounted, OnlyFoundActive
    <2>9. ReleaseAccounted'
      BY <1>1, <2>2, <2>4 DEF BeginDeployment, Untouched, SystemTyped, Covered,
          ReleaseAccounted
    <2> QED  BY <2>1, <2>2, <2>3, <2>4, <2>5, <2>6, <2>7, <2>8, <2>9
  <1>2. CASE Save
    <2>1. /\ script \in Scripts /\ script.names \in {script.previous, script.candidate}
          /\ script.before.files \in [Units -> Releases \cup {None}]
          /\ script.before.enabled \in SUBSET Units /\ script.at = "save"
      BY <1>2, Working DEF Save
    <2>2. UnitsNamed
      BY <2>1, NamesAreUnits
    <2>3. head' \in Releases
      BY <1>2, <2>1 DEF Save, Scripts, SystemTyped
    <2>4. script' \in Scripts
      BY <1>2, <2>1, <2>2, <2>3 DEF Save, Scripts, DeploymentSteps, SystemTyped,
          Covered, JobUnits
    <2>5. /\ script'.at = "stop"
          /\ script'.previous = script.previous
          /\ script'.candidate = script.candidate
          /\ script'.names = script.names
          /\ script'.saved = Fixed \cup JobUnits(script.names)
          /\ script'.before = script.before
          /\ script'.failed = script.failed
      BY <1>2, <2>1, <2>3 DEF Save, Scripts
    <2>6. script'.names \in {script'.previous, script'.candidate}
      BY <1>2, <2>1, <2>5 DEF Save, Covered
    <2>7. SystemTyped' /\ Found' /\ Covered'
      BY <1>2, <2>1, <2>2, <2>5, <2>6 DEF Save, ScriptTyped, SystemTyped, Found,
          Covered
    <2>8. FilesAccounted' /\ TimersAccounted'
      BY <1>2, <2>1, <2>2, <2>5, <2>6 DEF Save, ScriptTyped, SystemTyped, Found,
          Covered, FilesAccounted, Untouched, ChangedWhatIsSaved, TimersAccounted,
          OnlyFoundActive
    <2>9. ReleaseAccounted'
      BY <1>2, <2>1, <2>2, <2>5, <2>6 DEF Save, ScriptTyped, SystemTyped, Covered,
          ReleaseAccounted
    <2> QED  BY <2>1, <2>2, <2>3, <2>4, <2>5, <2>6, <2>7, <2>8, <2>9 DEF ScriptTyped
  <1>3. CASE Stop
    <2>1. Goes("stop", "check out") /\ ScriptTyped'
      BY ZenonT(40), <1>3, Going DEF Stop, StopApplication, DeploymentSteps
    <2>2. UnitsNamed
      BY <2>1, NamesAreUnits
    <2>3. SystemTyped'
      BY <1>3, <2>1, <2>2 DEF Stop, StopApplication, SystemTyped, Found, Covered,
          FilesAccounted, Untouched, ChangedWhatIsSaved
    <2>4. Found' /\ Covered'
      BY <1>3, <2>1, <2>2 DEF Stop, StopApplication, SystemTyped, Found, Covered
    <2>5. FilesAccounted'
      BY <1>3, <2>1, <2>2 DEF Stop, StopApplication, SystemTyped, Found, Covered,
          FilesAccounted, Untouched, ChangedWhatIsSaved
    <2>6. TimersAccounted'
      BY ZenonT(40), <1>3, <2>1, <2>2 DEF Stop, StopApplication, SystemTyped, Found, Covered,
          TimersAccounted, OnlyFoundActive
    <2>7. ReleaseAccounted'
      BY <1>3, <2>1, <2>2 DEF Stop, StopApplication, SystemTyped, Covered,
          ReleaseAccounted
    <2> QED  BY <2>1, <2>2, <2>3, <2>4, <2>5, <2>6, <2>7
  <1>4. CASE CheckOut
    <2>1. /\ script \in Scripts /\ script.names \in {script.previous, script.candidate}
          /\ script.before.files \in [Units -> Releases \cup {None}]
          /\ script.before.enabled \in SUBSET Units /\ script.at = "check out"
      BY <1>4, Working DEF CheckOut
    <2>2. UnitsNamed
      BY <2>1, NamesAreUnits
    <2>3. head' \in Releases
      BY <1>4, <2>1 DEF CheckOut, Scripts, SystemTyped
    <2>4. script' \in Scripts
      BY ZenonT(40), <1>4, <2>1, <2>2, <2>3 DEF CheckOut, Scripts, DeploymentSteps, SystemTyped,
          Covered, JobUnits
    <2>5. /\ script'.at = "configure"
          /\ script'.previous = script.previous
          /\ script'.candidate = head'
          /\ script'.names = script.names
          /\ script'.saved = script.saved
          /\ script'.before = script.before
          /\ script'.failed = script.failed
      BY <1>4, <2>1, <2>3 DEF CheckOut, Scripts
    <2>6. script'.names \in {script'.previous, script'.candidate}
      BY <1>4, <2>1, <2>5 DEF CheckOut, Covered
    <2>7. SystemTyped' /\ Found' /\ Covered'
      <3>1. origin' \in Releases /\ UNCHANGED <<env, running, files, enabled, active, passed, cut>>
        BY <1>4 DEF CheckOut, SystemTyped
      <3>2. SystemTyped'
        BY <2>3, <3>1 DEF SystemTyped
      <3>3. Found'
        BY <2>1, <2>5, <3>1 DEF Found
      <3>4. Covered'
        BY <2>1, <2>5 DEF Covered
      <3> QED  BY <3>2, <3>3, <3>4
    <2>8. FilesAccounted' /\ TimersAccounted'
      BY <1>4, <2>1, <2>2, <2>5, <2>6 DEF CheckOut, ScriptTyped, SystemTyped, Found,
          Covered, FilesAccounted, Untouched, ChangedWhatIsSaved, TimersAccounted,
          OnlyFoundActive
    <2>9. ReleaseAccounted'
      BY <1>4, <2>1, <2>2, <2>5, <2>6 DEF CheckOut, ScriptTyped, SystemTyped,
          Covered, ReleaseAccounted
    <2> QED  BY <2>1, <2>2, <2>3, <2>4, <2>5, <2>6, <2>7, <2>8, <2>9 DEF ScriptTyped
  <1>5. CASE Configure
    <2>1. /\ script \in Scripts /\ script.names \in {script.previous, script.candidate}
          /\ script.before.files \in [Units -> Releases \cup {None}]
          /\ script.before.enabled \in SUBSET Units /\ script.at = "configure"
      BY <1>5, Working DEF Configure
    <2>2. UnitsNamed
      BY <2>1, NamesAreUnits
    <2>3. head' \in Releases
      BY <1>5, <2>1 DEF Configure, Scripts, SystemTyped
    <2>4. script' \in Scripts
      BY <1>5, <2>1, <2>2, <2>3 DEF Configure, Scripts, DeploymentSteps,
          SystemTyped, Covered, JobUnits
    <2>5. /\ script'.at = "save more"
          /\ script'.previous = script.previous
          /\ script'.candidate = script.candidate
          /\ script'.names = script.candidate
          /\ script'.saved = script.saved
          /\ script'.before = script.before
          /\ script'.failed = script.failed
      BY <1>5, <2>1, <2>3 DEF Configure, Scripts
    <2>6. script'.names \in {script'.previous, script'.candidate}
      BY <1>5, <2>1, <2>5 DEF Configure, Covered
    <2>7. SystemTyped' /\ Found' /\ Covered'
      BY <1>5, <2>1, <2>2, <2>5, <2>6 DEF Configure, ScriptTyped, SystemTyped,
          Found, Covered
    <2>8. FilesAccounted' /\ TimersAccounted'
      BY <1>5, <2>1, <2>2, <2>5, <2>6 DEF Configure, ScriptTyped, SystemTyped,
          Found, Covered, FilesAccounted, Untouched, ChangedWhatIsSaved,
          TimersAccounted, OnlyFoundActive
    <2>9. ReleaseAccounted'
      BY <1>5, <2>1, <2>2, <2>5, <2>6 DEF Configure, ScriptTyped, SystemTyped,
          Covered, ReleaseAccounted
    <2> QED  BY <2>1, <2>2, <2>3, <2>4, <2>5, <2>6, <2>7, <2>8, <2>9 DEF ScriptTyped
  <1>6. CASE SaveMore
    <2>1. /\ script \in Scripts /\ script.names \in {script.previous, script.candidate}
          /\ script.before.files \in [Units -> Releases \cup {None}]
          /\ script.before.enabled \in SUBSET Units /\ script.at = "save more"
      BY <1>6, Working DEF SaveMore
    <2>2. UnitsNamed
      BY <2>1, NamesAreUnits
    <2>3. head' \in Releases
      BY <1>6, <2>1 DEF SaveMore, Scripts, SystemTyped
    <2>4. script' \in Scripts
      BY <1>6, <2>1, <2>2, <2>3 DEF SaveMore, Scripts, DeploymentSteps, SystemTyped,
          Covered, JobUnits
    <2>5. /\ script'.at = "require"
          /\ script'.previous = script.previous
          /\ script'.candidate = script.candidate
          /\ script'.names = script.names
          /\ script'.saved = script.saved \cup JobUnits(script.names)
          /\ script'.before = script.before
          /\ script'.failed = script.failed
      BY <1>6, <2>1, <2>3 DEF SaveMore, Scripts
    <2>6. script'.names \in {script'.previous, script'.candidate}
      BY <1>6, <2>1, <2>5 DEF SaveMore, Covered
    <2>7. SystemTyped' /\ Found' /\ Covered'
      BY <1>6, <2>1, <2>2, <2>5, <2>6 DEF SaveMore, ScriptTyped, SystemTyped, Found,
          Covered
    <2>8. FilesAccounted' /\ TimersAccounted'
      BY ZenonT(40), <1>6, <2>1, <2>2, <2>5, <2>6 DEF SaveMore, ScriptTyped, SystemTyped, Found,
          Covered, FilesAccounted, Untouched, ChangedWhatIsSaved, TimersAccounted,
          OnlyFoundActive
    <2>9. ReleaseAccounted'
      BY <1>6, <2>1, <2>2, <2>5, <2>6 DEF SaveMore, ScriptTyped, SystemTyped,
          Covered, ReleaseAccounted
    <2> QED  BY <2>1, <2>2, <2>3, <2>4, <2>5, <2>6, <2>7, <2>8, <2>9 DEF ScriptTyped
  <1>7. CASE Require
    <2>1. Goes("require", "canary") /\ ScriptTyped'
      BY ZenonT(40), <1>7, Going DEF Require, InstallRequirements, DeploymentSteps
    <2>2. SystemTyped' /\ Found' /\ Covered'
      BY <1>7, <2>1 DEF Require, InstallRequirements, SystemTyped, Found, Covered
    <2>3. FilesAccounted' /\ TimersAccounted'
      BY <1>7, <2>1 DEF Require, InstallRequirements, SystemTyped, Found, Covered,
          FilesAccounted, Untouched, ChangedWhatIsSaved, TimersAccounted,
          OnlyFoundActive
    <2>4. ReleaseAccounted'
      BY <1>7, <2>1 DEF Require, InstallRequirements, SystemTyped, Covered,
          ReleaseAccounted
    <2> QED  BY <2>1, <2>2, <2>3, <2>4
  <1>8. CASE Canary
    <2>1. Goes("canary", "install") /\ ScriptTyped'
      BY ZenonT(40), <1>8, Going DEF Canary, DeploymentSteps
    <2>2. SystemTyped' /\ Found' /\ Covered'
      BY <1>8, <2>1 DEF Canary, SystemTyped, Found, Covered
    <2>3. FilesAccounted' /\ TimersAccounted'
      BY <1>8, <2>1 DEF Canary, SystemTyped, Found, Covered, FilesAccounted,
          Untouched, ChangedWhatIsSaved, TimersAccounted, OnlyFoundActive
    <2>4. ReleaseAccounted'
      BY <1>8, <2>1 DEF Canary, SystemTyped, Covered, ReleaseAccounted
    <2> QED  BY <2>1, <2>2, <2>3, <2>4
  <1>9. CASE Install
    <2>1. Goes("install", "restart") /\ ScriptTyped'
      BY ZenonT(40), <1>9, Going DEF Install, Place, DeploymentSteps
    <2>2. UnitsNamed
      BY <2>1, NamesAreUnits
    <2>3. SystemTyped'
      BY <1>9, <2>1, <2>2 DEF Install, Place, SystemTyped, Found, Covered,
          FilesAccounted, Untouched, ChangedWhatIsSaved
    <2>4. Found' /\ Covered'
      BY <1>9, <2>1, <2>2 DEF Install, Place, SystemTyped, Found, Covered
    <2>5. FilesAccounted'
      BY <1>9, <2>1, <2>2 DEF Install, Place, SystemTyped, Found, Covered,
          FilesAccounted, Untouched, ChangedWhatIsSaved, ReleaseAccounted
    <2>6. TimersAccounted'
      BY <1>9, <2>1, <2>2 DEF Install, Place, SystemTyped, Found, Covered,
          TimersAccounted, OnlyFoundActive
    <2>7. ReleaseAccounted'
      BY <1>9, <2>1, <2>2 DEF Install, Place, SystemTyped, Covered, ReleaseAccounted
    <2> QED  BY <2>1, <2>2, <2>3, <2>4, <2>5, <2>6, <2>7
  <1>10. CASE RestartCandidate
    <2>1. Goes("restart", "check") /\ ScriptTyped'
      BY ZenonT(40), <1>10, Going DEF RestartCandidate, Restart, DeploymentSteps
    <2>2. SystemTyped' /\ Found' /\ Covered'
      BY <1>10, <2>1 DEF RestartCandidate, Restart, SystemTyped, Found, Covered
    <2>3. FilesAccounted' /\ TimersAccounted'
      BY <1>10, <2>1 DEF RestartCandidate, Restart, SystemTyped, Found, Covered,
          FilesAccounted, Untouched, ChangedWhatIsSaved, TimersAccounted,
          OnlyFoundActive
    <2>4. ReleaseAccounted'
      BY <1>10, <2>1 DEF RestartCandidate, Restart, SystemTyped, Covered,
          ReleaseAccounted
    <2> QED  BY <2>1, <2>2, <2>3, <2>4
  <1>11. CASE CheckHealth
    <2>1. Goes("check", "enable") /\ ScriptTyped'
      BY ZenonT(40), <1>11, Going DEF CheckHealth, DeploymentSteps
    <2>2. SystemTyped' /\ Found' /\ Covered'
      BY <1>11, <2>1 DEF CheckHealth, SystemTyped, Found, Covered
    <2>3. FilesAccounted' /\ TimersAccounted'
      BY <1>11, <2>1 DEF CheckHealth, SystemTyped, Found, Covered, FilesAccounted,
          Untouched, ChangedWhatIsSaved, TimersAccounted, OnlyFoundActive
    <2>4. ReleaseAccounted'
      BY <1>11, <2>1 DEF CheckHealth, SystemTyped, Covered, ReleaseAccounted
    <2> QED  BY <2>1, <2>2, <2>3, <2>4
  <1>12. CASE EnableTimers
    <2>1. Goes("enable", "deployed") /\ ScriptTyped'
      BY ZenonT(40), <1>12, Going DEF EnableTimers, Enable, DeploymentSteps
    <2>2. UnitsNamed
      BY <2>1, NamesAreUnits
    <2>3. SystemTyped'
      BY <1>12, <2>1, <2>2 DEF EnableTimers, Enable, SystemTyped, Found, Covered,
          FilesAccounted, Untouched, ChangedWhatIsSaved
    <2>4. Found' /\ Covered'
      BY <1>12, <2>1, <2>2 DEF EnableTimers, Enable, SystemTyped, Found, Covered
    <2>5. FilesAccounted'
      BY <1>12, <2>1, <2>2 DEF EnableTimers, Enable, SystemTyped, Found, Covered,
          FilesAccounted, Untouched, ChangedWhatIsSaved
    <2>6. TimersAccounted'
      BY <1>12, <2>1, <2>2 DEF EnableTimers, Enable, SystemTyped, Found, Covered,
          TimersAccounted, OnlyFoundActive
    <2>7. ReleaseAccounted'
      BY <1>12, <2>1, <2>2 DEF EnableTimers, Enable, SystemTyped, Covered,
          ReleaseAccounted
    <2> QED  BY <2>1, <2>2, <2>3, <2>4, <2>5, <2>6, <2>7
  <1>13. CASE EndDeployment
    BY ZenonT(40), <1>13 DEF EndDeployment, NoScript, ScriptTyped, SystemTyped, Found, Covered,
        FilesAccounted, TimersAccounted, ReleaseAccounted, Installed
  <1>14. CASE SaveFails
    <2>1. script.previous = script.names
      BY <1>14 DEF SaveFails, Covered
    <2>2. cut \/ (head \in passed /\ running = head /\ env = head)
      BY <1>14 DEF SaveFails, ReleaseAccounted
    <2> QED  BY <1>14, <2>2 DEF SaveFails, NoScript, ScriptTyped, SystemTyped,
          Found, Covered, FilesAccounted, TimersAccounted, ReleaseAccounted
  <1>15. CASE StopFails
    <2>1. Goes("stop", "stop again") /\ ScriptTyped'
      BY ZenonT(40), <1>15, Going DEF StopFails, Trap, DeploymentSteps
    <2>2. SystemTyped' /\ Found' /\ Covered'
      BY <1>15, <2>1 DEF StopFails, Trap, SystemTyped, Found, Covered
    <2>3. FilesAccounted' /\ TimersAccounted'
      BY <1>15, <2>1 DEF StopFails, Trap, SystemTyped, Found, Covered,
          FilesAccounted, Untouched, ChangedWhatIsSaved, TimersAccounted,
          OnlyFoundActive
    <2>4. ReleaseAccounted'
      BY <1>15, <2>1 DEF StopFails, Trap, SystemTyped, Covered, ReleaseAccounted
    <2> QED  BY <2>1, <2>2, <2>3, <2>4
  <1>16. CASE CheckOutFails
    <2>1. Goes("check out", "stop again") /\ ScriptTyped'
      BY ZenonT(40), <1>16, Going DEF CheckOutFails, Trap, DeploymentSteps
    <2>2. SystemTyped' /\ Found' /\ Covered'
      BY <1>16, <2>1 DEF CheckOutFails, Trap, SystemTyped, Found, Covered
    <2>3. FilesAccounted' /\ TimersAccounted'
      BY <1>16, <2>1 DEF CheckOutFails, Trap, SystemTyped, Found, Covered,
          FilesAccounted, Untouched, ChangedWhatIsSaved, TimersAccounted,
          OnlyFoundActive
    <2>4. ReleaseAccounted'
      BY <1>16, <2>1 DEF CheckOutFails, Trap, SystemTyped, Covered, ReleaseAccounted
    <2> QED  BY <2>1, <2>2, <2>3, <2>4
  <1>17. CASE SaveMoreFails
    <2>1. /\ script \in Scripts /\ script.names \in {script.previous, script.candidate}
          /\ script.before.files \in [Units -> Releases \cup {None}]
          /\ script.before.enabled \in SUBSET Units /\ script.at = "save more"
      BY <1>17, Working DEF SaveMoreFails
    <2>2. UnitsNamed
      BY <2>1, NamesAreUnits
    <2>3. PICK more \in SUBSET Units :
            script' = [script EXCEPT !.at = "stop again", !.saved = @ \cup more]
      <3>1. PICK some \in 0..1, timers \in SUBSET Timers(script.names) :
              script' = [script EXCEPT
                           !.at = "stop again",
                           !.saved = @ \cup timers
                                       \cup {u \in {Service(script.names)} : some = 1}]
        BY <1>17 DEF SaveMoreFails
      <3> DEFINE more == timers \cup {u \in {Service(script.names)} : some = 1}
      <3>2. more \in SUBSET Units
        BY <1>17, <2>1, <2>2 DEF JobUnits
      <3>3. script' = [script EXCEPT !.at = "stop again", !.saved = @ \cup more]
        BY <3>1
      <3> QED  BY <3>2, <3>3
    <2>4. script' \in Scripts
      BY <1>17, <2>1, <2>2, <2>3 DEF SaveMoreFails, Scripts, DeploymentSteps,
          SystemTyped, Covered, JobUnits
    <2>5. /\ script'.at = "stop again"
          /\ script'.previous = script.previous
          /\ script'.candidate = script.candidate
          /\ script'.names = script.names
          /\ script.saved \subseteq script'.saved
          /\ script'.before = script.before
          /\ script'.failed = script.failed
      BY <1>17, <2>1, <2>3 DEF SaveMoreFails, Scripts
    <2>6. script'.names \in {script'.previous, script'.candidate}
      BY <1>17, <2>1, <2>5 DEF SaveMoreFails, Covered
    <2>7. SystemTyped'
      BY <1>17 DEF SaveMoreFails, SystemTyped
    <2>8. Found' /\ Covered'
      <3>1. Found'
        BY ZenonT(40), <1>17, <2>1, <2>5 DEF SaveMoreFails, Found
      <3>2. Covered'
        BY <2>1, <2>5 DEF Covered
      <3> QED  BY <3>1, <3>2
    <2>9. FilesAccounted'
      BY ZenonT(40), <1>17, <2>1, <2>2, <2>5 DEF SaveMoreFails, FilesAccounted, Untouched,
          ChangedWhatIsSaved
    <2>10. TimersAccounted'
      BY <1>17, <2>1, <2>2, <2>5, <2>6 DEF SaveMoreFails, JobUnits, ScriptTyped,
          SystemTyped, Found, Covered, TimersAccounted, OnlyFoundActive
    <2>11. ReleaseAccounted'
      BY <1>17, <2>1, <2>2, <2>5, <2>6 DEF SaveMoreFails, JobUnits, ScriptTyped,
          SystemTyped, Covered, ReleaseAccounted
    <2> QED  BY <2>1, <2>2, <2>3, <2>4, <2>5, <2>6, <2>7, <2>8, <2>9, <2>10,
          <2>11 DEF ScriptTyped
  <1>18. CASE RequireFails
    <2>1. Goes("require", "stop again") /\ ScriptTyped'
      BY ZenonT(40), <1>18, Going DEF RequireFails, Trap, DeploymentSteps
    <2>2. SystemTyped' /\ Found' /\ Covered'
      BY <1>18, <2>1 DEF RequireFails, Trap, SystemTyped, Found, Covered
    <2>3. FilesAccounted' /\ TimersAccounted'
      BY <1>18, <2>1 DEF RequireFails, Trap, SystemTyped, Found, Covered,
          FilesAccounted, Untouched, ChangedWhatIsSaved, TimersAccounted,
          OnlyFoundActive
    <2>4. ReleaseAccounted'
      BY <1>18, <2>1 DEF RequireFails, Trap, SystemTyped, Covered, ReleaseAccounted
    <2> QED  BY <2>1, <2>2, <2>3, <2>4
  <1>19. CASE InstallFails
    <2>1. Goes("install", "stop again") /\ ScriptTyped'
      BY ZenonT(40), <1>19, Going DEF InstallFails, Place, Copied, JobUnits, Trap, DeploymentSteps
    <2>2. UnitsNamed
      BY <2>1, NamesAreUnits
    <2>3. PICK placed \in SUBSET (Fixed \cup JobUnits(script.names)) : Place(placed, head)
      <3>1. PICK some \in 0..4, timers \in SUBSET Timers(script.names) :
              Place({Copied[i] : i \in 1..some} \cup timers, head)
        BY <1>19 DEF InstallFails
      <3>2. \A i \in 1..some : Copied[i] \in Fixed \cup {Service(script.names)}
        BY DEF Copied, Fixed
      <3> QED  BY <3>1, <3>2 DEF JobUnits
    <2>4. SystemTyped'
      BY <1>19, <2>1, <2>2, <2>3 DEF InstallFails, Place, Trap, SystemTyped, Found,
          Covered, FilesAccounted, Untouched, ChangedWhatIsSaved
    <2>5. Found' /\ Covered'
      BY <1>19, <2>1, <2>2, <2>3 DEF InstallFails, Place, Trap, SystemTyped, Found,
          Covered
    <2>6. FilesAccounted'
      BY ZenonT(40), <1>19, <2>1, <2>2, <2>3 DEF InstallFails, Place, Trap, SystemTyped, Found,
          Covered, FilesAccounted, Untouched, ChangedWhatIsSaved
    <2>7. TimersAccounted'
      BY <1>19, <2>1, <2>2, <2>3 DEF InstallFails, Place, Trap, SystemTyped, Found,
          Covered, TimersAccounted, OnlyFoundActive
    <2>8. ReleaseAccounted'
      BY <1>19, <2>1, <2>2, <2>3 DEF InstallFails, Place, Trap, SystemTyped,
          Covered, ReleaseAccounted
    <2> QED  BY <2>1, <2>2, <2>3, <2>4, <2>5, <2>6, <2>7, <2>8
  <1>20. CASE RestartFails
    <2>1. Goes("restart", "stop again") /\ ScriptTyped'
      BY <1>20, Going DEF RestartFails, Trap, DeploymentSteps
    <2>2. SystemTyped' /\ Found' /\ Covered'
      BY <1>20, <2>1 DEF RestartFails, Trap, SystemTyped, Found, Covered
    <2>3. FilesAccounted' /\ TimersAccounted'
      BY <1>20, <2>1 DEF RestartFails, Trap, SystemTyped, Found, Covered,
          FilesAccounted, Untouched, ChangedWhatIsSaved, TimersAccounted,
          OnlyFoundActive
    <2>4. ReleaseAccounted'
      BY <1>20, <2>1 DEF RestartFails, Trap, SystemTyped, Covered, ReleaseAccounted
    <2> QED  BY <2>1, <2>2, <2>3, <2>4
  <1>21. CASE EnableFails
    <2>1. Goes("enable", "stop again") /\ ScriptTyped'
      BY ZenonT(40), <1>21, Going DEF EnableFails, Enable, Trap, DeploymentSteps
    <2>2. UnitsNamed
      BY <2>1, NamesAreUnits
    <2>3. SystemTyped'
      BY <1>21, <2>1, <2>2 DEF EnableFails, Enable, Trap, SystemTyped, Found,
          Covered, FilesAccounted, Untouched, ChangedWhatIsSaved
    <2>4. Found' /\ Covered'
      BY <1>21, <2>1, <2>2 DEF EnableFails, Enable, Trap, SystemTyped, Found, Covered
    <2>5. FilesAccounted'
      BY <1>21, <2>1, <2>2 DEF EnableFails, Enable, Trap, SystemTyped, Found,
          Covered, FilesAccounted, Untouched, ChangedWhatIsSaved
    <2>6. TimersAccounted'
      BY <1>21, <2>1, <2>2 DEF EnableFails, Enable, Trap, SystemTyped, Found,
          Covered, TimersAccounted, OnlyFoundActive
    <2>7. ReleaseAccounted'
      BY <1>21, <2>1, <2>2 DEF EnableFails, Enable, Trap, SystemTyped, Covered,
          ReleaseAccounted
    <2> QED  BY <2>1, <2>2, <2>3, <2>4, <2>5, <2>6, <2>7
  <1>22. CASE OtherFails
    <2>1. PICK from \in {"configure", "canary", "check"} :
            Goes(from, "stop again") /\ ScriptTyped'
      BY ZenonT(40), <1>22, Going DEF OtherFails, Trap, DeploymentSteps
    <2>2. SystemTyped' /\ Found' /\ Covered'
      BY <1>22, <2>1 DEF OtherFails, Trap, SystemTyped, Found, Covered
    <2>3. FilesAccounted' /\ TimersAccounted'
      BY <1>22, <2>1 DEF OtherFails, Trap, SystemTyped, Found, Covered,
          FilesAccounted, Untouched, ChangedWhatIsSaved, TimersAccounted,
          OnlyFoundActive
    <2>4. ReleaseAccounted'
      BY <1>22, <2>1 DEF OtherFails, Trap, SystemTyped, Covered, ReleaseAccounted
    <2> QED  BY <2>1, <2>2, <2>3, <2>4
  <1>23. CASE StopAgain
    <2>1. Goes("stop again", "reset") /\ ScriptTyped'
      BY ZenonT(40), <1>23, Going DEF StopAgain, StopApplication, DeploymentSteps
    <2>2. UnitsNamed
      BY <2>1, NamesAreUnits
    <2>3. SystemTyped'
      BY <1>23, <2>1, <2>2 DEF StopAgain, StopApplication, SystemTyped, Found,
          Covered, FilesAccounted, Untouched, ChangedWhatIsSaved
    <2>4. Found' /\ Covered'
      BY <1>23, <2>1, <2>2 DEF StopAgain, StopApplication, SystemTyped, Found, Covered
    <2>5. FilesAccounted'
      BY <1>23, <2>1, <2>2 DEF StopAgain, StopApplication, SystemTyped, Found,
          Covered, FilesAccounted, Untouched, ChangedWhatIsSaved
    <2>6. TimersAccounted'
      BY ZenonT(40), <1>23, <2>1, <2>2 DEF StopAgain, StopApplication, SystemTyped, Found,
          Covered, TimersAccounted, OnlyFoundActive
    <2>7. ReleaseAccounted'
      BY <1>23, <2>1, <2>2 DEF StopAgain, StopApplication, SystemTyped, Covered,
          ReleaseAccounted
    <2> QED  BY <2>1, <2>2, <2>3, <2>4, <2>5, <2>6, <2>7
  <1>24. CASE Reset
    <2>1. Goes("reset", "require again") /\ ScriptTyped'
      BY ZenonT(40), <1>24, Going DEF Reset, DeploymentSteps
    <2>2. SystemTyped' /\ Found' /\ Covered'
      BY <1>24, <2>1 DEF Reset, SystemTyped, Found, Covered
    <2>3. FilesAccounted' /\ TimersAccounted'
      BY <1>24, <2>1 DEF Reset, SystemTyped, Found, Covered, FilesAccounted,
          Untouched, ChangedWhatIsSaved, TimersAccounted, OnlyFoundActive
    <2>4. ReleaseAccounted'
      BY <1>24, <2>1 DEF Reset, SystemTyped, Covered, ReleaseAccounted
    <2> QED  BY <2>1, <2>2, <2>3, <2>4
  <1>25. CASE RequireAgain
    <2>1. Goes("require again", "restore") /\ ScriptTyped'
      BY ZenonT(40), <1>25, Going DEF RequireAgain, InstallRequirements, DeploymentSteps
    <2>2. SystemTyped' /\ Found' /\ Covered'
      BY <1>25, <2>1 DEF RequireAgain, InstallRequirements, SystemTyped, Found,
          Covered
    <2>3. FilesAccounted' /\ TimersAccounted'
      BY <1>25, <2>1 DEF RequireAgain, InstallRequirements, SystemTyped, Found,
          Covered, FilesAccounted, Untouched, ChangedWhatIsSaved, TimersAccounted,
          OnlyFoundActive
    <2>4. ReleaseAccounted'
      BY <1>25, <2>1 DEF RequireAgain, InstallRequirements, SystemTyped, Covered,
          ReleaseAccounted
    <2> QED  BY <2>1, <2>2, <2>3, <2>4
  <1>26. CASE RequireAgainFails
    BY <1>26 DEF RequireAgainFails, NoScript, ScriptTyped, SystemTyped, Found,
        Covered, FilesAccounted, TimersAccounted, ReleaseAccounted, Installed
  <1>27. CASE Restore
    <2>1. /\ script \in Scripts /\ script.names \in {script.previous, script.candidate}
          /\ script.before.files \in [Units -> Releases \cup {None}]
          /\ script.before.enabled \in SUBSET Units /\ script.at = "restore"
      BY <1>27, Working DEF Restore
    <2>2. UnitsNamed
      BY <2>1, NamesAreUnits
    <2>3. head' \in Releases
      BY <1>27, <2>1 DEF Restore, Scripts, SystemTyped
    <2>4. script' \in Scripts
      BY <1>27, <2>1, <2>2, <2>3 DEF Restore, Scripts, DeploymentSteps, SystemTyped,
          Covered, JobUnits, Restored
    <2>5. /\ script'.at = "restart again"
          /\ script'.previous = script.previous
          /\ script'.candidate = script.candidate
          /\ script'.names = script.previous
          /\ script'.saved = script.saved
          /\ script'.before = script.before
          /\ script'.failed = script.failed
      BY <1>27, <2>1, <2>3 DEF Restore, Scripts
    <2>6. script'.names \in {script'.previous, script'.candidate}
      BY <1>27, <2>1, <2>5 DEF Restore, Covered
    <2>7. SystemTyped'
      BY <1>27, <2>1, <2>2, <2>5, <2>6 DEF Restore, Restored, ScriptTyped,
          SystemTyped, Found, Covered, FilesAccounted, Untouched, ChangedWhatIsSaved
    <2>8. Found' /\ Covered'
      BY <1>27, <2>1, <2>2, <2>5, <2>6 DEF Restore, Restored, ScriptTyped,
          SystemTyped, Found, Covered
    <2>9. FilesAccounted'
      BY <1>27, <2>1, <2>2, <2>5, <2>6 DEF Restore, Restored, ScriptTyped,
          SystemTyped, Found, Covered, FilesAccounted, Untouched, ChangedWhatIsSaved
    <2>10. TimersAccounted'
      BY <1>27, <2>1, <2>2, <2>5, <2>6 DEF Restore, Restored, ScriptTyped,
          SystemTyped, Found, Covered, TimersAccounted, OnlyFoundActive
    <2>11. ReleaseAccounted'
      BY <1>27, <2>1, <2>2, <2>5, <2>6 DEF Restore, Restored, ScriptTyped,
          SystemTyped, Covered, ReleaseAccounted
    <2> QED  BY <2>1, <2>2, <2>3, <2>4, <2>5, <2>6, <2>7, <2>8, <2>9, <2>10,
          <2>11 DEF ScriptTyped
  <1>28. CASE RestartPrevious
    <2>1. Goes("restart again", "check again") /\ ScriptTyped'
      BY ZenonT(40), <1>28, Going DEF RestartPrevious, Restart, DeploymentSteps
    <2>2. SystemTyped' /\ Found' /\ Covered'
      BY <1>28, <2>1 DEF RestartPrevious, Restart, SystemTyped, Found, Covered
    <2>3. FilesAccounted' /\ TimersAccounted'
      BY <1>28, <2>1 DEF RestartPrevious, Restart, SystemTyped, Found, Covered,
          FilesAccounted, Untouched, ChangedWhatIsSaved, TimersAccounted,
          OnlyFoundActive
    <2>4. ReleaseAccounted'
      BY <1>28, <2>1 DEF RestartPrevious, Restart, SystemTyped, Covered,
          ReleaseAccounted
    <2> QED  BY <2>1, <2>2, <2>3, <2>4
  <1>29. CASE CheckPrevious
    <2>1. Goes("check again", "rolled back") /\ ScriptTyped'
      BY ZenonT(40), <1>29, Going DEF CheckPrevious, Enable, DeploymentSteps
    <2>2. UnitsNamed
      BY <2>1, NamesAreUnits
    <2>3. SystemTyped'
      BY ZenonT(40), <1>29, <2>1, <2>2 DEF CheckPrevious, Enable, SystemTyped, Found, Covered,
          FilesAccounted, Untouched, ChangedWhatIsSaved
    <2>4. Found' /\ Covered'
      BY <1>29, <2>1, <2>2 DEF CheckPrevious, Enable, SystemTyped, Found, Covered
    <2>5. FilesAccounted'
      BY <1>29, <2>1, <2>2 DEF CheckPrevious, Enable, SystemTyped, Found, Covered,
          FilesAccounted, Untouched, ChangedWhatIsSaved
    <2>6. TimersAccounted'
      BY ZenonT(40), <1>29, <2>1, <2>2 DEF CheckPrevious, Enable, SystemTyped, Found, Covered,
          TimersAccounted, OnlyFoundActive, FilesAccounted
    <2>7. ReleaseAccounted'
      BY <1>29, <2>1, <2>2 DEF CheckPrevious, Enable, SystemTyped, Covered,
          ReleaseAccounted
    <2> QED  BY <2>1, <2>2, <2>3, <2>4, <2>5, <2>6, <2>7
  <1>30. CASE RollbackStepFails
    <2>1. PICK from, to :
            /\ \/ from = "stop again" /\ to = "reset"
               \/ from = "reset" /\ to = "require again"
               \/ from = "restore" /\ to = "restart again"
               \/ from = "restart again" /\ to = "check again"
               \/ from = "check again" /\ to = "rolled back"
            /\ Skip(from, to)
      BY <1>30 DEF RollbackStepFails
    <2>2. /\ script \in Scripts /\ script.names \in {script.previous, script.candidate}
          /\ script.at = from
      BY <2>1, Working DEF Skip
    <2>3. to \in DeploymentSteps
      BY <2>1 DEF DeploymentSteps
    <2>4. script' \in Scripts /\ script'.at = to /\ script'.failed
          /\ script'.previous = script.previous /\ script'.candidate = script.candidate
          /\ script'.names = script.names /\ script'.saved = script.saved /\ script'.before = script.before
      BY <2>1, <2>2, <2>3 DEF Skip, Scripts
    <2>5. ScriptTyped'
      BY <2>2, <2>4 DEF ScriptTyped
    <2>6. UNCHANGED <<origin, head, env, running, files, enabled, active, passed, cut>>
      BY <2>1 DEF Skip
    <2>7. SystemTyped' /\ Found' /\ Covered'
      BY ZenonT(40), <2>1, <2>2, <2>4, <2>6 DEF SystemTyped, Found, Covered
    <2>8. FilesAccounted'
      BY <2>1, <2>2, <2>4 DEF Skip, FilesAccounted, Untouched, ChangedWhatIsSaved
    <2>9. TimersAccounted'
      BY <2>1, <2>2, <2>4 DEF Skip, TimersAccounted
    <2>10. ReleaseAccounted'
      BY <2>1, <2>2, <2>4 DEF Skip, ReleaseAccounted
    <2> QED  BY <2>5, <2>8, <2>9, <2>10, <2>7
  <1>31. CASE Push
    <2>1. origin' \in Releases
      BY <1>31, DeploymentAssumption DEF Push, SystemTyped, Releases
    <2>2. UNCHANGED <<head, env, running, files, enabled, active, script, passed, cut>>
      BY <1>31 DEF Push
    <2>3. SystemTyped' /\ ScriptTyped'
      BY <2>1, <2>2 DEF SystemTyped, ScriptTyped
    <2>4. Found' /\ Covered'
      BY <2>2 DEF Found, Covered
    <2>5. FilesAccounted'
      BY <2>2 DEF FilesAccounted, Untouched, ChangedWhatIsSaved
    <2>6. TimersAccounted'
      BY <2>2 DEF TimersAccounted, OnlyFoundActive
    <2>7. ReleaseAccounted'
      BY <2>2 DEF ReleaseAccounted
    <2> QED  BY <2>3, <2>4, <2>5, <2>6, <2>7
  <1>32. CASE Killed
    BY <1>32 DEF Killed, NoScript, ScriptTyped, SystemTyped, Found, Covered,
        FilesAccounted, TimersAccounted, ReleaseAccounted, Installed
  <1>33. CASE Reboot
    BY <1>33 DEF Reboot, NoScript, ScriptTyped, SystemTyped, Found, Covered,
        FilesAccounted, TimersAccounted, ReleaseAccounted, Installed
  <1> QED  BY <1>1, <1>2, <1>3, <1>4, <1>5, <1>6, <1>7, <1>8, <1>9, <1>10, <1>11,
        <1>12, <1>13, <1>14, <1>15, <1>16, <1>17, <1>18, <1>19, <1>20, <1>21, <1>22,
        <1>23, <1>24, <1>25, <1>26, <1>27, <1>28, <1>29, <1>30, <1>31, <1>32,
        <1>33 DEF DeploymentNext

\* The invariant holds of the first installation.
LEMMA DeploymentStart ==
    ASSUME DeploymentInit
    PROVE  DInv
  <1>1. 1 \in Releases
    BY DeploymentAssumption DEF Releases
  <1>2. PICK installed \in {{}, JobUnits(1)} :
          /\ files = [u \in Units |-> IF u \in Fixed \cup installed THEN 1 ELSE None]
          /\ enabled = installed \cap Timers(1)
    BY DEF DeploymentInit
  <1>3. script = NoScript /\ script.at = "idle"
    BY DEF DeploymentInit, NoScript
  <1>4. SystemTyped
    BY <1>1, <1>2, UnitsOfReleases DEF DeploymentInit, SystemTyped, None, Releases
  <1> QED
    BY <1>1, <1>3, <1>4 DEF DInv, DeploymentInit, ScriptTyped, Found, Covered,
        FilesAccounted, TimersAccounted, ReleaseAccounted, InStep, At, Unread,
        Checking, Undoing, Undone

\* The invariant of deployments, by the lemmas above.
LEMMA DeploymentInvariant == DeploymentSpec => []DInv
  <1>1. ASSUME DInv, UNCHANGED deploymentVars PROVE DInv'
    <2>1. UNCHANGED <<origin, head, env, running, files, enabled, active, script, passed, cut>>
      BY <1>1 DEF deploymentVars, system
    <2> USE <1>1 DEF DInv, InStep, At
    <2>2. SystemTyped' /\ ScriptTyped' /\ Found' /\ Covered'
      BY <2>1 DEF SystemTyped, ScriptTyped, Found, Covered
    <2>3. FilesAccounted'
      BY <2>1 DEF FilesAccounted, Untouched, ChangedWhatIsSaved
    <2>4. TimersAccounted'
      BY <2>1 DEF TimersAccounted, OnlyFoundActive
    <2>5. ReleaseAccounted'
      BY <2>1 DEF ReleaseAccounted
    <2> QED  BY <2>2, <2>3, <2>4, <2>5
  <1> QED  BY <1>1, DeploymentStart, DeploymentStep, PTL DEF DeploymentSpec

\* For every number of releases, whatever timers and job units each declares, and
\* whichever steps fail or are cut short: a deployment that succeeded has replaced
\* all that its release declares, and one that was rolled back has left no trace
\* (update_server.sh:87 and :180).
THEOREM DeploymentsAreWhole == DeploymentSpec => []DeploymentsWhole
  <1>1. ASSUME DInv PROVE DeploymentsWhole
    <2> USE <1>1 DEF DInv, InStep, At, Unread, Checking, Undoing, Undone
    <2>1. DeployedWhole
      BY DEF DeployedWhole, ReleaseAccounted, FilesAccounted, TimersAccounted,
          SystemTyped
    <2>2. RolledBackWhole
      BY DEF RolledBackWhole, ReleaseAccounted, FilesAccounted, TimersAccounted, Found
    <2> QED  BY <2>1, <2>2 DEF DeploymentsWhole, ReleaseAccounted
  <1> QED  BY <1>1, DeploymentInvariant, PTL

-----------------------------------------------------------------------------
(* The lock.                                                               *)

Identity ==
    /\ \A w \in Workers : token[w] = NoToken <=> pc[w] = "idle"
    /\ \A v, w \in Workers :
          v # w /\ token[v] # NoToken => token[v] # token[w]
    /\ \A w \in Workers : token[w] =< nextEdit
    /\ owner =< nextEdit
    /\ \A e \in acked \cup breached : e =< nextEdit
    /\ \A w \in Workers : pc[w] = "trying" => owner # token[w]

Exclusion ==
    /\ owner \notin breached
    /\ acked \cap breached = {}
    /\ \A w \in Workers : token[w] \notin acked
    /\ \A w \in Workers : pc[w] = "trying" => token[w] \notin breached

Punctual ==
    ~late =>
      /\ \A w \in Workers : InSpan(w) => owner = token[w] /\ ttl >= 1
      /\ \A w \in Workers : pc[w] = "body" => snap[w] = file
      /\ \A w \in Workers : outcome[w] = "wrote" => token[w] \in file
      /\ acked \subseteq file

Outcomes ==
    \A w \in Workers : outcome[w] = "wrote" => pc[w] \in {"leaving", "deleting"}

IInv == TypeOK /\ Identity /\ Exclusion /\ Outcomes /\ Punctual
-----------------------------------------------------------------------------
\* The initial state satisfies every part of the invariant.
LEMMA InitInv == Init => IInv
  <1> SUFFICES ASSUME Init PROVE IInv
    OBVIOUS
  <1> USE NumbersAssumption DEF Init, Edits, Tokens, NoToken, Pcs
  <1>1. TypeOK
    <2>1. late \in BOOLEAN
      OBVIOUS
    <2>2. /\ owner \in Tokens /\ ttl \in 0..TTL /\ nextEdit \in 0..MaxEdits
          /\ file \in SUBSET Edits /\ acked \in SUBSET Edits
          /\ breached \in SUBSET Edits
      OBVIOUS
    <2>3. QED
      BY <2>1, <2>2 DEF TypeOK
  <1>2. Identity /\ Exclusion /\ Outcomes
    BY DEF Identity, Exclusion, Outcomes
  <1>3. Punctual
    BY DEF Punctual, InSpan
  <1>4. QED
    BY <1>1, <1>2, <1>3 DEF IInv

\* What any of the three ways out of the with statement does to the state.
Exited(w) ==
    /\ pc[w] \in {"leaving", "deleting"}
    /\ pc' = [pc EXCEPT ![w] = "idle"]
    /\ token' = [token EXCEPT ![w] = NoToken]
    /\ lost' = [lost EXCEPT ![w] = FALSE]
    /\ snap' = [snap EXCEPT ![w] = {}]
    /\ outcome' = [outcome EXCEPT ![w] = "none"]
    /\ renewer' \in {renewer, [renewer EXCEPT ![w] = "off"]}
    /\ \/ acked' = acked
       \/ /\ acked' = acked \cup {token[w]}
          /\ owner = token[w]
          /\ outcome[w] = "wrote"
    /\ \/ UNCHANGED <<owner, ttl>>
       \/ owner = token[w] /\ owner' = NoToken /\ ttl' = 0
    /\ UNCHANGED <<waited, depth, file, nextEdit, breached, late>>

\* ReleaseRead that finds its token only moves on to the delete.
Confirmed(w) ==
    /\ pc[w] = "leaving"
    /\ pc' = [pc EXCEPT ![w] = "deleting"]
    /\ renewer' = [renewer EXCEPT ![w] = "off"]
    /\ UNCHANGED <<owner, ttl, token, waited, depth, lost, snap, outcome, file,
                   acked, nextEdit, breached, late>>

\* The steps of a release do one of the two.
LEMMA ReleaseEffect ==
    ASSUME NEW w \in Workers,
           ReleaseRead(w) \/ ReleaseDelete(w) \/ ReleaseFails(w)
    PROVE  Exited(w) \/ Confirmed(w)
  <1>1. CASE ReleaseRead(w) /\ OwnsKey(w)
    BY <1>1 DEF ReleaseRead, Confirmed
  <1>2. CASE ReleaseRead(w) /\ ~OwnsKey(w)
    <2>1. Finish(w, TRUE)
      BY <1>2 DEF ReleaseRead
    <2>2. QED
      BY <1>2, <2>1 DEF ReleaseRead, Finish, Exited
  <1>3. CASE ReleaseDelete(w) /\ OwnsKey(w)
    <2>1. Finish(w, lost[w])
      BY <1>3 DEF ReleaseDelete
    <2>2. \/ acked' = acked
          \/ acked' = acked \cup {token[w]} /\ outcome[w] = "wrote"
      BY <2>1 DEF Finish
    <2>3. QED
      BY <1>3, <2>1, <2>2 DEF ReleaseDelete, Finish, Exited, OwnsKey
  <1>4. CASE ReleaseDelete(w) /\ ~OwnsKey(w)
    <2>1. Finish(w, TRUE)
      BY <1>4 DEF ReleaseDelete
    <2>2. QED
      BY <1>4, <2>1 DEF ReleaseDelete, Finish, Exited, redisVars
  <1>5. CASE ReleaseFails(w)
    BY <1>5 DEF ReleaseFails, Finish, Exited
  <1>6. QED
    BY <1>1, <1>2, <1>3, <1>4, <1>5

\* Types: every variable keeps its range (tokens stay among the edits that
\* Start has counted, the lease within its length).
LEMMA TypeStep ==
    TypeOK /\ Identity /\ [Next]_vars => TypeOK'
  <1> SUFFICES ASSUME TypeOK, Identity, [Next]_vars
               PROVE  TypeOK'
    OBVIOUS
  <1> USE NumbersAssumption, LeaseAssumption DEF TypeOK, Edits, Tokens, NoToken, Pcs
  <1>1. ASSUME NEW w \in Workers, Start(w) PROVE TypeOK'
    BY <1>1 DEF Start
  <1>2. ASSUME NEW w \in Workers, Acquire(w) PROVE TypeOK'
    <2>1. breached' \in SUBSET Edits
      BY <1>2 DEF Acquire, SetKey
    <2>2. QED
      BY <1>2, <2>1 DEF Acquire, SetKey
  <1>3. ASSUME NEW w \in Workers, GiveUp(w) PROVE TypeOK'
    BY <1>3 DEF GiveUp
  <1>4. ASSUME NEW w \in Workers, Load(w) PROVE TypeOK'
    BY <1>4 DEF Load
  <1>5. ASSUME NEW w \in Workers, Reenter(w) PROVE TypeOK'
    BY <1>5 DEF Reenter
  <1>6. ASSUME NEW w \in Workers, ExitNested(w) PROVE TypeOK'
    BY <1>6 DEF ExitNested
  <1>7. ASSUME NEW w \in Workers, EndBody(w) PROVE TypeOK'
    BY ZenonT(40), <1>7 DEF EndBody, Identity
  <1>8. ASSUME NEW w \in Workers, RenewRead(w) PROVE TypeOK'
    BY <1>8 DEF RenewRead
  <1>9. ASSUME NEW w \in Workers, RenewWrite(w) PROVE TypeOK'
    <2>1. CASE OwnsKey(w)
      BY <1>9, <2>1 DEF RenewWrite
    <2>2. CASE ~OwnsKey(w)
      BY <1>9, <2>2 DEF RenewWrite
    <2>3. QED
      BY <2>1, <2>2
  <1>10. ASSUME NEW w \in Workers, RenewFails(w) PROVE TypeOK'
    BY <1>10 DEF RenewFails
  <1>11. ASSUME NEW w \in Workers, Exited(w) PROVE TypeOK'
    <2>1. CASE acked' = acked
      BY <1>11, <2>1 DEF Exited
    <2>2. CASE acked' = acked \cup {token[w]} /\ owner = token[w] /\ outcome[w] = "wrote"
      <3>1. token[w] \in Edits
        BY <1>11 DEF Exited, Identity
      <3>2. acked' \in SUBSET Edits
        BY <2>2, <3>1
      <3>3. QED
        BY <1>11, <3>2 DEF Exited
    <2>3. QED
      BY <1>11, <2>1, <2>2 DEF Exited
  <1>12. ASSUME NEW w \in Workers, Confirmed(w) PROVE TypeOK'
    BY <1>12 DEF Confirmed
  <1>13. ASSUME NEW w \in Workers,
                ReleaseRead(w) \/ ReleaseDelete(w) \/ ReleaseFails(w)
         PROVE  TypeOK'
    BY <1>11, <1>12, <1>13, ReleaseEffect
  <1>14. ASSUME NEW w \in Workers, Crash(w) PROVE TypeOK'
    BY <1>14 DEF Crash
  <1>15. CASE Tick
    BY <1>15 DEF Tick
  <1>16. CASE UNCHANGED vars
    BY <1>16 DEF vars
  <1>17. QED
    BY <1>1, <1>2, <1>3, <1>4, <1>5, <1>6, <1>7, <1>8,
       <1>9, <1>10, <1>11, <1>12, <1>13, <1>14, <1>15, <1>16 DEF Next

\* Tokens: Start draws a fresh one, and no other step hands one out.
LEMMA IdentityStep ==
    TypeOK /\ Identity /\ [Next]_vars => Identity'
  <1> SUFFICES ASSUME TypeOK /\ Identity, [Next]_vars
               PROVE  Identity'
    OBVIOUS
  <1> USE NumbersAssumption, LeaseAssumption DEF TypeOK, Identity, Edits, Tokens, NoToken, Pcs
  <1>1. ASSUME NEW w \in Workers, Start(w) PROVE Identity'
    BY <1>1 DEF Start
  <1>2. ASSUME NEW w \in Workers, Acquire(w) PROVE Identity'
    BY <1>2 DEF Acquire, SetKey, InSpan
  <1>3. ASSUME NEW w \in Workers, GiveUp(w) PROVE Identity'
    BY <1>3 DEF GiveUp
  <1>4. ASSUME NEW w \in Workers, Load(w) PROVE Identity'
    BY <1>4 DEF Load
  <1>5. ASSUME NEW w \in Workers, Reenter(w) PROVE Identity'
    BY <1>5 DEF Reenter
  <1>6. ASSUME NEW w \in Workers, ExitNested(w) PROVE Identity'
    BY <1>6 DEF ExitNested
  <1>7. ASSUME NEW w \in Workers, EndBody(w) PROVE Identity'
    BY <1>7 DEF EndBody
  <1>8. ASSUME NEW w \in Workers, RenewRead(w) PROVE Identity'
    BY <1>8 DEF RenewRead
  <1>9. ASSUME NEW w \in Workers, RenewWrite(w) PROVE Identity'
    BY <1>9 DEF RenewWrite
  <1>10. ASSUME NEW w \in Workers, RenewFails(w) PROVE Identity'
    BY <1>10 DEF RenewFails
  <1>11. ASSUME NEW w \in Workers, Exited(w) PROVE Identity'
    <2>1. CASE acked' = acked
      BY <1>11, <2>1 DEF Exited
    <2>2. CASE acked' = acked \cup {token[w]} /\ owner = token[w] /\ outcome[w] = "wrote"
      BY <1>11, <2>2 DEF Exited
    <2>3. QED
      BY <1>11, <2>1, <2>2 DEF Exited
  <1>12. ASSUME NEW w \in Workers, Confirmed(w) PROVE Identity'
    BY <1>12 DEF Confirmed
  <1>13. ASSUME NEW w \in Workers,
                ReleaseRead(w) \/ ReleaseDelete(w) \/ ReleaseFails(w)
         PROVE  Identity'
    BY <1>11, <1>12, <1>13, ReleaseEffect
  <1>14. ASSUME NEW w \in Workers, Crash(w) PROVE Identity'
    BY <1>14 DEF Crash
  <1>15. CASE Tick
    BY <1>15 DEF Tick
  <1>16. CASE UNCHANGED vars
    BY <1>16 DEF vars
  <1>17. QED
    BY <1>1, <1>2, <1>3, <1>4, <1>5, <1>6, <1>7, <1>8,
       <1>9, <1>10, <1>11, <1>12, <1>13, <1>14, <1>15, <1>16 DEF Next

\* Exclusion: a step that makes an acquisition breached also makes another
\* token the owner, and a breached token never becomes the owner again.
LEMMA ExclusionStep ==
    TypeOK /\ Identity /\ Exclusion /\ [Next]_vars => Exclusion'
  <1> SUFFICES ASSUME TypeOK /\ Identity /\ Exclusion, [Next]_vars
               PROVE  Exclusion'
    OBVIOUS
  <1> USE NumbersAssumption, LeaseAssumption DEF TypeOK, Identity, Exclusion, Edits, Tokens, NoToken, Pcs, OwnsKey
  <1>1. ASSUME NEW w \in Workers, Start(w) PROVE Exclusion'
    BY <1>1 DEF Start
  <1>2. ASSUME NEW w \in Workers, Acquire(w) PROVE Exclusion'
    <2>1. \A e \in breached' :
             e \in breached \/ \E v \in Workers : pc[v] # "trying" /\ token[v] = e
      BY <1>2 DEF Acquire, SetKey, InSpan
    <2>2. token[w] \notin breached'
      BY <1>2, <2>1 DEF Acquire, SetKey
    <2>3. acked \cap breached' = {}
      <3>1. ASSUME NEW e \in acked, e \in breached' PROVE FALSE
        BY <2>1, <3>1
      <3>2. QED
        BY <3>1
    <2>4. QED
      BY SMTT(30), <1>2, <2>1, <2>2, <2>3 DEF Acquire, SetKey
  <1>3. ASSUME NEW w \in Workers, GiveUp(w) PROVE Exclusion'
    BY <1>3 DEF GiveUp
  <1>4. ASSUME NEW w \in Workers, Load(w) PROVE Exclusion'
    BY <1>4 DEF Load
  <1>5. ASSUME NEW w \in Workers, Reenter(w) PROVE Exclusion'
    BY <1>5 DEF Reenter
  <1>6. ASSUME NEW w \in Workers, ExitNested(w) PROVE Exclusion'
    BY <1>6 DEF ExitNested
  <1>7. ASSUME NEW w \in Workers, EndBody(w) PROVE Exclusion'
    BY <1>7 DEF EndBody
  <1>8. ASSUME NEW w \in Workers, RenewRead(w) PROVE Exclusion'
    BY <1>8 DEF RenewRead
  <1>9. ASSUME NEW w \in Workers, RenewWrite(w) PROVE Exclusion'
    BY <1>9 DEF RenewWrite
  <1>10. ASSUME NEW w \in Workers, RenewFails(w) PROVE Exclusion'
    BY <1>10 DEF RenewFails
  <1>11. ASSUME NEW w \in Workers, Exited(w) PROVE Exclusion'
    <2>1. CASE acked' = acked
      BY <1>11, <2>1 DEF Exited
    <2>2. CASE acked' = acked \cup {token[w]} /\ owner = token[w] /\ outcome[w] = "wrote"
      <3>1. token[w] \notin breached /\ token[w] # NoToken
        BY <1>11, <2>2 DEF Exited
      <3>2. acked' \cap breached' = {}
        BY <1>11, <2>2, <3>1 DEF Exited
      <3>3. \A v \in Workers : token'[v] \notin acked'
        BY <1>11, <2>2, <3>1 DEF Exited
      <3>4. QED
        BY <1>11, <3>2, <3>3 DEF Exited
    <2>3. QED
      BY <1>11, <2>1, <2>2 DEF Exited
  <1>12. ASSUME NEW w \in Workers, Confirmed(w) PROVE Exclusion'
    BY <1>12 DEF Confirmed
  <1>13. ASSUME NEW w \in Workers,
                ReleaseRead(w) \/ ReleaseDelete(w) \/ ReleaseFails(w)
         PROVE  Exclusion'
    BY <1>11, <1>12, <1>13, ReleaseEffect
  <1>14. ASSUME NEW w \in Workers, Crash(w) PROVE Exclusion'
    BY <1>14 DEF Crash
  <1>15. CASE Tick
    BY <1>15 DEF Tick
  <1>16. CASE UNCHANGED vars
    BY <1>16 DEF vars
  <1>17. QED
    BY <1>1, <1>2, <1>3, <1>4, <1>5, <1>6, <1>7, <1>8,
       <1>9, <1>10, <1>11, <1>12, <1>13, <1>14, <1>15, <1>16 DEF Next

\* Only a block that has ended has an outcome.
LEMMA OutcomesStep ==
    TypeOK /\ Outcomes /\ [Next]_vars => Outcomes'
  <1> SUFFICES ASSUME TypeOK /\ Outcomes, [Next]_vars
               PROVE  Outcomes'
    OBVIOUS
  <1> USE NumbersAssumption, LeaseAssumption DEF TypeOK, Outcomes, Pcs
  <1>1. ASSUME NEW w \in Workers, Start(w) PROVE Outcomes'
    BY <1>1 DEF Start
  <1>2. ASSUME NEW w \in Workers, Acquire(w) PROVE Outcomes'
    BY <1>2 DEF Acquire, SetKey, InSpan
  <1>3. ASSUME NEW w \in Workers, GiveUp(w) PROVE Outcomes'
    BY <1>3 DEF GiveUp
  <1>4. ASSUME NEW w \in Workers, Load(w) PROVE Outcomes'
    BY <1>4 DEF Load
  <1>5. ASSUME NEW w \in Workers, Reenter(w) PROVE Outcomes'
    BY <1>5 DEF Reenter
  <1>6. ASSUME NEW w \in Workers, ExitNested(w) PROVE Outcomes'
    BY <1>6 DEF ExitNested
  <1>7. ASSUME NEW w \in Workers, EndBody(w) PROVE Outcomes'
    BY <1>7 DEF EndBody
  <1>8. ASSUME NEW w \in Workers, RenewRead(w) PROVE Outcomes'
    BY <1>8 DEF RenewRead
  <1>9. ASSUME NEW w \in Workers, RenewWrite(w) PROVE Outcomes'
    BY <1>9 DEF RenewWrite
  <1>10. ASSUME NEW w \in Workers, RenewFails(w) PROVE Outcomes'
    BY <1>10 DEF RenewFails
  <1>11. ASSUME NEW w \in Workers, Exited(w) PROVE Outcomes'
    BY <1>11 DEF Exited
  <1>12. ASSUME NEW w \in Workers, Confirmed(w) PROVE Outcomes'
    BY <1>12 DEF Confirmed
  <1>13. ASSUME NEW w \in Workers,
                ReleaseRead(w) \/ ReleaseDelete(w) \/ ReleaseFails(w)
         PROVE  Outcomes'
    BY <1>11, <1>12, <1>13, ReleaseEffect
  <1>14. ASSUME NEW w \in Workers, Crash(w) PROVE Outcomes'
    BY <1>14 DEF Crash
  <1>15. CASE Tick
    BY <1>15 DEF Tick
  <1>16. CASE UNCHANGED vars
    BY <1>16 DEF vars
  <1>17. QED
    BY <1>1, <1>2, <1>3, <1>4, <1>5, <1>6, <1>7, <1>8,
       <1>9, <1>10, <1>11, <1>12, <1>13, <1>14, <1>15, <1>16 DEF Next

\* Punctual: while no lease is overdue, the worker in its span is alone, so
\* nobody else replaces the file under its snapshot.
LEMMA PunctualStep ==
    IInv /\ [Next]_vars => Punctual'
  <1> SUFFICES ASSUME IInv, [Next]_vars
               PROVE  Punctual'
    OBVIOUS
  <1> USE NumbersAssumption, LeaseAssumption DEF IInv, TypeOK, Identity, Exclusion, Outcomes, Punctual, Edits, Tokens, NoToken, Pcs, InSpan, OwnsKey
  <1>1. ASSUME NEW w \in Workers, Start(w) PROVE Punctual'
    BY <1>1 DEF Start
  <1>2. ASSUME NEW w \in Workers, Acquire(w) PROVE Punctual'
    BY <1>2 DEF Acquire, SetKey, InSpan
  <1>3. ASSUME NEW w \in Workers, GiveUp(w) PROVE Punctual'
    BY <1>3 DEF GiveUp
  <1>4. ASSUME NEW w \in Workers, Load(w) PROVE Punctual'
    BY <1>4 DEF Load
  <1>5. ASSUME NEW w \in Workers, Reenter(w) PROVE Punctual'
    BY <1>5 DEF Reenter
  <1>6. ASSUME NEW w \in Workers, ExitNested(w) PROVE Punctual'
    BY <1>6 DEF ExitNested
  <1>7. ASSUME NEW w \in Workers, EndBody(w) PROVE Punctual'
    BY <1>7 DEF EndBody
  <1>8. ASSUME NEW w \in Workers, RenewRead(w) PROVE Punctual'
    BY <1>8 DEF RenewRead
  <1>9. ASSUME NEW w \in Workers, RenewWrite(w) PROVE Punctual'
    BY <1>9 DEF RenewWrite
  <1>10. ASSUME NEW w \in Workers, RenewFails(w) PROVE Punctual'
    BY <1>10 DEF RenewFails
  <1>11. ASSUME NEW w \in Workers, Exited(w) PROVE Punctual'
    <2>1. CASE acked' = acked
      BY <1>11, <2>1 DEF Exited
    <2>2. CASE acked' = acked \cup {token[w]} /\ owner = token[w] /\ outcome[w] = "wrote"
      BY ZenonT(40), <1>11, <2>2 DEF Exited
    <2>3. QED
      BY <1>11, <2>1, <2>2 DEF Exited
  <1>12. ASSUME NEW w \in Workers, Confirmed(w) PROVE Punctual'
    BY <1>12 DEF Confirmed
  <1>13. ASSUME NEW w \in Workers,
                ReleaseRead(w) \/ ReleaseDelete(w) \/ ReleaseFails(w)
         PROVE  Punctual'
    BY <1>11, <1>12, <1>13, ReleaseEffect
  <1>14. ASSUME NEW w \in Workers, Crash(w) PROVE Punctual'
    BY <1>14 DEF Crash
  <1>15. CASE Tick
    <2>1. SUFFICES ASSUME ~late, ~Overdue PROVE Punctual'
      BY <1>15 DEF Tick
    <2>2. ASSUME NEW w \in Workers, InSpan(w)
          PROVE  owner' = token[w] /\ ttl' >= 1
      <3>1. owner = token[w] /\ ttl > TTL - Interval - Slack
        BY <2>1, <2>2 DEF Overdue
      <3>2. ttl >= 2
        BY <3>1
      <3>3. QED
        BY <1>15, <3>1, <3>2 DEF Tick
    <2>3. QED
      BY <1>15, <2>1, <2>2 DEF Tick
  <1>16. CASE UNCHANGED vars
    BY <1>16 DEF vars
  <1>17. QED
    BY <1>1, <1>2, <1>3, <1>4, <1>5, <1>6, <1>7, <1>8,
       <1>9, <1>10, <1>11, <1>12, <1>13, <1>14, <1>15, <1>16 DEF Next

\* The invariant holds in every reachable state.
THEOREM Invariance == Spec => []IInv
  <1>1. IInv /\ [Next]_vars => IInv'
    BY TypeStep, IdentityStep, ExclusionStep, OutcomesStep, PunctualStep DEF IInv
  <1>2. QED
    BY InitInv, <1>1, PTL DEF Spec

\* TypeOK, for every value of the constants.
THEOREM TypeCorrect == Spec => []TypeOK
  BY Invariance, PTL DEF IInv

\* Until a lease is overdue, whoever is between taking and releasing the lock
\* is the one the lock key names.
THEOREM LockCoversSpan == Spec => []LeaseCoversSpan
  <1>1. IInv => LeaseCoversSpan
    BY DEF IInv, Punctual, LeaseCoversSpan, OwnsKey
  <1>2. QED
    BY Invariance, <1>1, PTL

\* An edit reported as done was never overlapped, whatever ran late.
THEOREM AcknowledgedAlone == Spec => []AckMeansExclusive
  <1>1. IInv => AckMeansExclusive
    BY DEF IInv, Exclusion, AckMeansExclusive
  <1>2. QED
    BY Invariance, <1>1, PTL

\* Until a lease is overdue, no edit reported as done is lost.
THEOREM PunctualUpdatesKept == Spec => [](~late => NoLostUpdate)
  <1>1. IInv => (~late => NoLostUpdate)
    BY DEF IInv, Punctual, NoLostUpdate
  <1>2. QED
    BY Invariance, <1>1, PTL

\* A step of a worker or of time is, to a user of the files, the atomic edit
\* or the acknowledgement of one, or nothing.
LEMMA SerialStep == IInv /\ [Next]_vars => [Serial!Next]_(Serial!serialVars)
  <1> SUFFICES ASSUME IInv, [Next]_vars
               PROVE  [Serial!Next]_(Serial!serialVars)
    OBVIOUS
  <1> USE DEF Serial!Next, Serial!serialVars, Serial!Void
  <1>1. CASE late'
    BY <1>1
  <1>2. ASSUME NEW w \in Workers, EndBody(w), ~late'
        PROVE  [Serial!Next]_(Serial!serialVars)
    <2>1. token[w] \in Edits /\ token[w] \notin acked
      BY <1>2 DEF EndBody, IInv, TypeOK, Identity, Exclusion, Tokens, NoToken
    <2>2. snap[w] = file
      BY <1>2 DEF EndBody, IInv, Punctual
    <2>3. CASE file' = snap[w] \cup {token[w]}
      <3>1. Serial!Commit(token[w])
        BY <1>2, <2>1, <2>2, <2>3 DEF EndBody, Serial!Commit
      <3>2. QED
        BY <2>1, <3>1
    <2>4. CASE UNCHANGED file
      BY <1>2, <2>4 DEF EndBody
    <2>5. QED
      BY <1>2, <2>3, <2>4 DEF EndBody
  <1>3. ASSUME NEW w \in Workers, Exited(w), ~late'
        PROVE  [Serial!Next]_(Serial!serialVars)
    <2>1. CASE acked' = acked
      BY <1>3, <2>1 DEF Exited
    <2>2. CASE acked' = acked \cup {token[w]} /\ outcome[w] = "wrote"
      <3>1. token[w] \in Edits
        BY <1>3 DEF Exited, IInv, TypeOK, Identity, Tokens, NoToken
      <3>2. token[w] \in file
        BY <1>3, <2>2 DEF Exited, IInv, Punctual
      <3>3. Serial!Acknowledge(token[w])
        BY <1>3, <2>2, <3>2 DEF Exited, Serial!Acknowledge
      <3>4. QED
        BY <3>1, <3>3
    <2>3. QED
      BY <1>3, <2>1, <2>2 DEF Exited
  <1>4. ASSUME NEW w \in Workers, ~late',
               ReleaseRead(w) \/ ReleaseDelete(w) \/ ReleaseFails(w)
        PROVE  [Serial!Next]_(Serial!serialVars)
    BY <1>3, <1>4, ReleaseEffect DEF Confirmed
  <1>5. ASSUME NEW w \in Workers, ~late',
               \/ Start(w) \/ Acquire(w) \/ GiveUp(w) \/ Load(w) \/ Reenter(w)
               \/ ExitNested(w) \/ RenewRead(w) \/ RenewWrite(w)
               \/ RenewFails(w) \/ Crash(w)
        PROVE  UNCHANGED Serial!serialVars
    BY <1>5
    DEF Start, Acquire, SetKey, GiveUp, Load, Reenter, ExitNested, RenewRead,
        RenewWrite, RenewFails, Crash
  <1>6. ASSUME Tick, ~late'
        PROVE  UNCHANGED Serial!serialVars
    BY <1>6 DEF Tick, IInv, TypeOK
  <1>7. CASE UNCHANGED vars
    BY <1>7 DEF vars
  <1>8. QED
    BY <1>1, <1>2, <1>4, <1>5, <1>6, <1>7 DEF Next

\* Lock, load, save and release implement atomic edits that are never lost,
\* until a lease is overdue.
THEOREM Refinement == Spec => ImplementsSerialEdits
  <1>1. Init => Serial!Init
    BY DEF Init, Serial!Init
  <1>2. QED
    BY Invariance, <1>1, SerialStep, PTL
    DEF Spec, ImplementsSerialEdits, Serial!Spec
=============================================================================
