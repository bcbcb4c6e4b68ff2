------------------------------ MODULE Terminal ------------------------------
(***************************************************************************)
(* The terminals of the developer tools (web_app/dev/terminal.py): shells   *)
(* behind pseudo-terminals, one reader thread for each, and the requests    *)
(* that start, read, feed and close them.                                   *)
(*                                                                          *)
(* A terminal is used through the number of its file descriptor.  A request *)
(* looks the session up and uses the number without a lock, and so does the *)
(* reader; close frees the number, and the next terminal gets the lowest    *)
(* free one.  What a shell writes is a sequence of numbered bytes, read one *)
(* at a time; some of them go on with the character of the byte before.     *)
(* Each answer to the page is decoded by itself.  The sessions' lock guards *)
(* starting and forgetting.                                                 *)
(***************************************************************************)
EXTENDS Naturals, FiniteSets, Sequences, FiniteSetsExt, SequencesExt

CONSTANTS
    Sids,           \* terminals that may be started
    Threads,        \* request threads
    MaxSessions,    \* terminal_max_sessions
    BufferCap,      \* terminal_buffer_bytes
    MaxOutput       \* bound: bytes that a shell writes

Nobody == "nobody"
NoSid == "no session"

ASSUME TerminalAssumption ==
    /\ MaxSessions \in Nat \ {0} /\ BufferCap \in Nat
    /\ IsFiniteSet(Sids) /\ NoSid \notin Sids
    /\ Nobody \notin Threads

Numbers == 1..(Cardinality(Sids) + 1)

VARIABLES
    sessions,   \* ids in the table
    terminal,   \* of each id: the session object, its shell and its reader
    fds,        \* open descriptors -> the terminal they are of
    lock,       \* the holder of _sessions_lock
    thread,     \* of each request thread: what it does, to which session
    client,     \* of each id: how far its page has read, the bytes it has got,
                \* those that came as U+FFFD, and where answers began and ended
    reused      \* terminals that got a number somebody still used, and the
                \* former owners of the number

terminalVars == <<sessions, terminal, fds, lock, thread, client, reused>>

NotStarted == [alive |-> FALSE, fd |-> 0, shell |-> "none",
               written |-> 0, inner |-> {}, taken |-> 0, buffer |-> <<>>,
               dropped |-> 0, reader |-> "none", strangers |-> {}]
NewClient == [since |-> 0, got |-> <<>>, torn |-> {}, cuts |-> {}]
IdleThread == [does |-> "nothing", sid |-> NoSid, stale |-> {}]

TerminalInit ==
    /\ sessions = {}
    /\ terminal = [a \in Sids |-> NotStarted]
    /\ fds = [n \in Numbers |-> NoSid]
    /\ lock = Nobody
    /\ thread = [t \in Threads |-> IdleThread]
    /\ client = [a \in Sids |-> NewClient]
    /\ reused = {}

Does(t, what) == thread[t].does = what
Turn(t, what, a) == thread' = [thread EXCEPT ![t].does = what, ![t].sid = a]
Rest(t) == thread' = [thread EXCEPT ![t] = IdleThread]

\* The terminal that the number of session a stands for now.
Behind(a) == fds[terminal[a].fd]
Pending(a) == terminal[a].written > terminal[a].taken
HungUp(a) == terminal[a].shell = "gone"

-----------------------------------------------------------------------------
(* Starting.                                                               *)

\* terminal_start takes the lock; _reap_idle_sessions lists what is stale: the
\* dead, and those at which nobody has typed for terminal_idle_timeout_s.
BeginStart(t, idle) ==
    /\ Does(t, "nothing") /\ lock = Nobody
    /\ lock' = t
    /\ thread' = [thread EXCEPT ![t] =
                    [does |-> "start", sid |-> NoSid,
                     stale |-> idle \cup {a \in sessions : ~terminal[a].alive}]]
    /\ UNCHANGED <<sessions, terminal, fds, client, reused>>

Reap(t, a) ==
    /\ Does(t, "start") /\ a \in thread[t].stale
    /\ sessions' = sessions \ {a}
    /\ thread' = [thread EXCEPT ![t].does = "hang up", ![t].sid = a,
                                ![t].stale = @ \ {a}]
    /\ UNCHANGED <<terminal, fds, lock, client, reused>>

Refuse(t) ==
    /\ Does(t, "start") /\ thread[t].stale = {}
    /\ Cardinality(sessions) >= MaxSessions
    /\ Rest(t)
    /\ lock' = Nobody
    /\ UNCHANGED <<sessions, terminal, fds, client, reused>>

\* Those who still use the number n, whose terminal they have closed.
StillUsing(n) ==
    {o \in Sids : /\ terminal[o].fd = n
                  /\ o \notin sessions
                  /\ \/ terminal[o].reader \in {"check", "select", "poll", "read"}
                     \/ \E t \in Threads : /\ thread[t].sid = o
                                           /\ thread[t].does = "use"}

\* The id is new: what had it before has gone altogether.
Fresh(a) ==
    /\ a \notin sessions
    /\ terminal[a].reader \notin {"check", "select", "poll", "read"}
    /\ \A t \in Threads : thread[t].sid # a

\* TerminalSession: pty, shell and reader.
Create(t, a) ==
    LET n == Min({m \in Numbers : fds[m] = NoSid})
    IN  /\ Does(t, "start") /\ thread[t].stale = {}
        /\ Cardinality(sessions) < MaxSessions
        /\ Fresh(a)
        /\ sessions' = sessions \cup {a}
        /\ terminal' = [terminal EXCEPT ![a] =
                          [NotStarted EXCEPT !.alive = TRUE, !.fd = n,
                                             !.shell = "running", !.reader = "check"]]
        /\ fds' = [fds EXCEPT ![n] = a]
        /\ reused' = (reused \ {a}) \cup
                       (IF StillUsing(n) = {} THEN {} ELSE StillUsing(n) \cup {a})
        /\ Rest(t)
        /\ lock' = Nobody
        /\ UNCHANGED client

-----------------------------------------------------------------------------
(* Closing.                                                                *)

\* Faulty variant: the session stays in the table until it is reaped.
BeginCloseFound(t, a) ==
    /\ Does(t, "nothing") /\ lock = Nobody
    /\ a \in sessions
    /\ Turn(t, "hang up", a)
    /\ UNCHANGED <<sessions, terminal, fds, lock, client, reused>>

\* terminal_close forgets the session under the lock and closes it after that.
BeginClose(t, a) ==
    /\ Does(t, "nothing") /\ lock = Nobody
    /\ a \in sessions
    /\ sessions' = sessions \ {a}
    /\ Turn(t, "hang up", a)
    /\ UNCHANGED <<terminal, fds, lock, client, reused>>

\* TerminalSession.close
HangUp(t) ==
    LET a == thread[t].sid
    IN  /\ Does(t, "hang up")
        /\ terminal' = [terminal EXCEPT ![a].alive = FALSE, ![a].shell = "gone"]
        /\ Turn(t, "close", a)
        /\ UNCHANGED <<sessions, fds, lock, client, reused>>

\* Its page has gone, so what is in its buffer is forgotten here, and so is
\* what its shell wrote.
Close(t) ==
    LET a == thread[t].sid
    IN  /\ Does(t, "close")
        /\ fds' = [fds EXCEPT ![terminal[a].fd] = NoSid]
        /\ terminal' = [terminal EXCEPT ![a].buffer = <<>>, ![a].dropped = 0,
                                         ![a].written = 0, ![a].inner = {},
                                         ![a].taken = 0]
        /\ client' = [client EXCEPT ![a] = NewClient]
        /\ IF lock = t THEN Turn(t, "start", NoSid) ELSE Rest(t)
        /\ UNCHANGED <<sessions, lock, reused>>

-----------------------------------------------------------------------------
(* Input and output.                                                       *)

\* terminal_input and terminal_resize, up to the check.
BeginUse(t, a) ==
    /\ Does(t, "nothing")
    /\ a \in sessions /\ terminal[a].alive
    /\ Turn(t, "use", a)
    /\ UNCHANGED <<sessions, terminal, fds, lock, client, reused>>

\* They reach the terminal that the number stands for by then.
Use(t) ==
    LET a == thread[t].sid
    IN  /\ Does(t, "use")
        /\ Behind(a) # NoSid
        /\ terminal' = [terminal EXCEPT
                          ![Behind(a)].strangers = @ \cup ({a} \ {Behind(a)})]
        /\ Rest(t)
        /\ UNCHANGED <<sessions, fds, lock, client, reused>>

\* Or nothing: the number is free, the shell gone, or its input full.  The
\* session counts as dead if it was input that failed.
UseFails(t) ==
    /\ Does(t, "use")
    /\ \E dead \in BOOLEAN :
         terminal' = [terminal EXCEPT ![thread[t].sid].alive = @ /\ ~dead]
    /\ Rest(t)
    /\ UNCHANGED <<sessions, fds, lock, client, reused>>

\* Faulty variant: what has been dropped is not deducted.
FromIgnoringDropped(a, since) == SubSeq(terminal[a].buffer, since + 1,
                                        Len(terminal[a].buffer))

\* read_since: the part of the buffer that the page has not got.
From(a, since) ==
    LET offset == Max({since, terminal[a].dropped}) - terminal[a].dropped
    IN  SubSeq(terminal[a].buffer, offset + 1, Len(terminal[a].buffer))

\* The bytes m and n of terminal b are of one character.
SameChar(b, m, n) == \A k \in (m + 1)..n \cup (n + 1)..m : k \in terminal[b].inner

\* The bytes of an answer whose character is not in it whole: decode with
\* errors='replace' makes U+FFFD of them.
Torn(bytes) ==
    {byte \in Range(bytes) :
       \E m \in 1..(MaxOutput + 1) : /\ SameChar(byte[1], m, byte[2])
                                    /\ <<byte[1], m>> \notin Range(bytes)}

\* terminal_output
Output(a) ==
    LET begin == Max({client[a].since, terminal[a].dropped})
        end == terminal[a].dropped + Len(terminal[a].buffer)
    IN  /\ a \in sessions
        /\ client' = [client EXCEPT ![a] =
                        [since |-> end,
                         got |-> @.got \o From(a, @.since),
                         torn |-> @.torn \cup Torn(From(a, @.since)),
                         cuts |-> @.cuts \cup {c \in {begin, end} : begin < end}]]
        /\ UNCHANGED <<sessions, terminal, fds, lock, thread, reused>>

-----------------------------------------------------------------------------
(* Shell and reader.                                                       *)

ShellOnly == UNCHANGED <<sessions, fds, lock, thread, client, reused>>

\* One more byte, after which its character ends or goes on.
ShellWrites(a) ==
    /\ terminal[a].shell = "running" /\ terminal[a].written < MaxOutput
    /\ \E more \in SUBSET {terminal[a].written + 2} :
         terminal' = [terminal EXCEPT ![a].written = @ + 1, ![a].inner = @ \cup more]
    /\ ShellOnly

ShellExits(a) ==
    /\ terminal[a].shell = "running"
    /\ terminal' = [terminal EXCEPT ![a].shell = "gone"]
    /\ ShellOnly

Reads(a, at) == terminal[a].reader = at
Reader(a, at) == terminal' = [terminal EXCEPT ![a].reader = at]
\* The loop is left for the reason `why`, which nobody asks of a closed session.
Quit(a, why) ==
    terminal' = [terminal EXCEPT ![a].reader = IF a \in sessions THEN why ELSE "none",
                                 ![a].alive = FALSE]

Check(a) ==
    /\ Reads(a, "check")
    /\ IF terminal[a].alive THEN Reader(a, "select") ELSE Quit(a, "told")
    /\ ShellOnly

\* select: something to read or a hang-up, nothing for half a second, or no
\* such descriptor.
Select(a) ==
    /\ Reads(a, "select")
    /\ IF Behind(a) = NoSid THEN Quit(a, "error")
       ELSE Reader(a, IF Pending(Behind(a)) \/ HungUp(Behind(a)) THEN "read"
                      ELSE "poll")
    /\ ShellOnly

\* After half a second without output: whether its own shell is still there.
PollShell(a) ==
    /\ Reads(a, "poll")
    /\ IF HungUp(a) THEN Quit(a, "exited") ELSE Reader(a, "check")
    /\ ShellOnly

\* Session a with one more byte in its buffer, and without what falls out.
Buffered(a, byte) ==
    LET all == Append(terminal[a].buffer, byte)
        excess == Max({Len(all), BufferCap}) - BufferCap
    IN  IF a \in sessions
          THEN [terminal EXCEPT ![a].buffer = SubSeq(all, excess + 1, Len(all)),
                                ![a].dropped = @ + excess]
          ELSE terminal

Read(a) ==
    /\ Reads(a, "read")
    /\ LET b == Behind(a)
       IN  IF b = NoSid THEN Quit(a, "error")
           ELSE IF Pending(b)
             THEN terminal' = [Buffered(a, <<b, terminal[b].taken + 1>>)
                                 EXCEPT ![b].taken = @ + 1, ![a].reader = "check"]
             ELSE Quit(a, IF HungUp(b) THEN "end" ELSE "error")
    /\ ShellOnly

-----------------------------------------------------------------------------
TerminalNext ==
    \/ \E t \in Threads :
        \/ Refuse(t) \/ HangUp(t) \/ Close(t) \/ Use(t) \/ UseFails(t)
        \/ \E idle \in SUBSET sessions : BeginStart(t, idle)
        \/ \E a \in Sids : \/ Reap(t, a) \/ Create(t, a) \/ BeginClose(t, a)
                           \/ BeginUse(t, a)
    \/ \E a \in Sids : \/ Output(a) \/ ShellWrites(a) \/ ShellExits(a)
                       \/ Check(a) \/ Select(a) \/ PollShell(a) \/ Read(a)

TerminalSpec == TerminalInit /\ [][TerminalNext]_terminalVars

-----------------------------------------------------------------------------
Own(a, bytes) == \A i \in DOMAIN bytes : bytes[i][1] = a
Ordered(bytes) ==
    \A i, j \in DOMAIN bytes : i < j => bytes[i][2] < bytes[j][2]

\* An answer to the page of terminal a began or ended within the character of n.
Split(a, n) ==
    \E c \in client[a].cuts : c + 1 \in terminal[a].inner /\ SameChar(a, c + 1, n)

\* Unless it got the number of a terminal that was closed while a request or
\* the reader still used it (terminal.py:86, :63 and :116), a terminal is
\* typed at by its own page only, and that page gets what its own shell wrote,
\* each byte once and in order, whatever fell out of the buffer excepted
\* (terminal.py:94).  It can read every character of which it gets a byte, but
\* for those that the beginning or the end of an answer fell within: each
\* answer is decoded by itself (terminal.py:169).
OwnTerminal ==
    \A a \in Sids \ reused :
        LET got == client[a].got
        IN  /\ terminal[a].strangers \subseteq {a}
            /\ Own(a, got) /\ Ordered(got)
            /\ \A byte \in client[a].torn : Split(a, byte[2])
            /\ \A n \in 1..client[a].since :
                 n > terminal[a].dropped => \E i \in DOMAIN got : got[i][2] = n

\* Until a session is closed its reader goes on to the last byte that the
\* shell wrote, and so its page gets it all (terminal.py:73): unless input
\* failed, or the shell wrote and exited between a select that timed out and
\* the poll that follows it, or, again, the number was still in use.
OutputKept ==
    \A a \in sessions \ reused :
        /\ terminal[a].reader # "error"
        /\ terminal[a].reader = "end" => HungUp(a) /\ ~Pending(a)
=============================================================================
