------------------------------ MODULE Deployment ------------------------------
(***************************************************************************)
(* Deploying a release: update_server.sh, step by step, and its rollback    *)
(* (an ERR trap) when a step fails.                                         *)
(*                                                                          *)
(* Releases are numbered in the order in which they are pushed.  Each       *)
(* declares the timers of its scheduled jobs and the name of the unit that  *)
(* they start, so a deployment deals with the names of two releases.  A     *)
(* unit file on the system is of some release, or absent.  The deployment   *)
(* lock makes deployments follow one another.                               *)
(***************************************************************************)
EXTENDS Naturals, FiniteSets

CONSTANTS
    LastRelease,    \* releases are 1..LastRelease
    Timers(_),      \* scheduled_job_timers of a release
    Service(_)      \* scheduled_job_service_unit_name of a release

ASSUME DeploymentAssumption == LastRelease \in Nat \ {0}

Releases == 1..LastRelease
None == 0                   \* no release, or half of one
Fixed == {"nabicat.conf", "nabicat.service", "meridian.service"}
JobUnits(r) == Timers(r) \cup {Service(r)}
TimerNames == UNION {Timers(r) : r \in Releases}
Units == Fixed \cup UNION {JobUnits(r) : r \in Releases}

VARIABLES
    origin,     \* the release that origin/main is at
    head,       \* the release that is checked out
    env,        \* the release whose requirements are installed
    running,    \* the release that serves
    files,      \* of each unit file: the release it is of
    enabled,    \* timers that are started at boot
    active,     \* timers that run
    script,     \* what update_server.sh is about to do, and what it knows
    passed,     \* releases that passed the health check in production
    cut         \* whether the last deployment was cut short, or its rollback
                \* failed

system == <<head, env, running, files, enabled, active>>
deploymentVars == <<origin, system, script, passed, cut>>

\* `names` is the release whose units the script's variables name; `saved` the
\* units that have been backed up; `before` the system as it was found.
NoScript == [at |-> "idle", previous |-> None, candidate |-> None, names |-> None,
             saved |-> {}, before |-> [files |-> <<>>, enabled |-> {}, active |-> {}],
             failed |-> FALSE]

\* The first release is installed, with its timers or from before it had any.
DeploymentInit ==
    /\ origin = 1 /\ head = 1 /\ env = 1 /\ running = 1
    /\ \E installed \in {{}, JobUnits(1)} :
         /\ files = [u \in Units |-> IF u \in Fixed \cup installed THEN 1 ELSE None]
         /\ enabled = installed \cap Timers(1)
    /\ active = enabled
    /\ script = NoScript
    /\ passed = {1} /\ cut = FALSE

At(step) == script.at = step
Go(step) == script' = [script EXCEPT !.at = step]
Installed(names) == {u \in names : files[u] # None}

-----------------------------------------------------------------------------
(* The deployment.                                                         *)

\* The lock is taken, origin fetched and the installed release's configuration
\* read.
BeginDeployment ==
    /\ At("idle")
    /\ script' = [NoScript EXCEPT
                    !.at = "save", !.previous = head, !.candidate = origin,
                    !.names = head, !.before = [files |-> files, enabled |-> enabled,
                                                active |-> active]]
    /\ UNCHANGED <<origin, system, passed, cut>>

\* backup_system_file, of files that are there and of those that are missing.
Save ==
    /\ At("save")
    /\ script' = [script EXCEPT !.at = "stop", !.saved = Fixed \cup JobUnits(script.names)]
    /\ UNCHANGED <<origin, system, passed, cut>>

\* stop_application: the timers and jobs that have a file, and the server.
StopApplication(next) ==
    /\ active' = active \ Installed(Timers(script.names))
    /\ running' = None
    /\ Go(next)
    /\ UNCHANGED <<origin, head, env, files, enabled, passed, cut>>

Stop == At("stop") /\ StopApplication("check out")

\* The fetched release, or one with a patch on top of it, pushed before it is
\* checked out.
CheckOut ==
    /\ At("check out")
    /\ \E r \in {script.candidate, script.candidate + 1} \cap Releases :
         /\ r # script.candidate => origin = script.candidate
         /\ origin' = IF r = script.candidate THEN origin ELSE r
         /\ head' = r
         /\ script' = [script EXCEPT !.at = "configure", !.candidate = r]
    /\ UNCHANGED <<env, running, files, enabled, active, passed, cut>>

\* The candidate's configuration: from here on the units are its.
Configure ==
    /\ At("configure")
    /\ script' = [script EXCEPT !.at = "save more", !.names = script.candidate]
    /\ UNCHANGED <<origin, system, passed, cut>>

\* Faulty variant: the candidate's units count as backed up.
SaveNothingMore ==
    /\ At("save more")
    /\ Go("require")
    /\ UNCHANGED <<origin, system, passed, cut>>

SaveMore ==
    /\ At("save more")
    /\ script' = [script EXCEPT !.at = "require",
                                !.saved = @ \cup JobUnits(script.names)]
    /\ UNCHANGED <<origin, system, passed, cut>>

InstallRequirements(release, next) ==
    /\ env' = release
    /\ Go(next)
    /\ UNCHANGED <<origin, head, running, files, enabled, active, passed, cut>>

Require == At("require") /\ InstallRequirements(head, "canary")

\* The candidate is healthy on another port.
Canary ==
    /\ At("canary")
    /\ Go("install")
    /\ UNCHANGED <<origin, system, passed, cut>>

Place(units, release) ==
    files' = [u \in Units |-> IF u \in units THEN release ELSE files[u]]

Install ==
    /\ At("install")
    /\ Place(Fixed \cup JobUnits(script.names), head)
    /\ Go("restart")
    /\ UNCHANGED <<origin, head, env, running, enabled, active, passed, cut>>

Restart(next) ==
    /\ running' = head
    /\ Go(next)
    /\ UNCHANGED <<origin, head, env, files, enabled, active, passed, cut>>

RestartCandidate == At("restart") /\ Restart("check")

\* The candidate is healthy in production.
CheckHealth ==
    /\ At("check")
    /\ passed' = passed \cup {head}
    /\ Go("enable")
    /\ UNCHANGED <<origin, system, cut>>

Enable(timers) ==
    /\ enabled' = enabled \cup timers
    /\ active' = active \cup timers

EnableTimers ==
    /\ At("enable")
    /\ Enable(Timers(script.names))
    /\ Go("deployed")
    /\ UNCHANGED <<origin, head, env, running, files, passed, cut>>

-----------------------------------------------------------------------------
(* Failures of its steps, which may have done part of their work.          *)

\* Nothing has changed yet: the trap only says so.
SaveFails ==
    /\ At("save")
    /\ script' = NoScript
    /\ UNCHANGED <<origin, system, passed, cut>>

\* The rollback begins.
Trap == Go("stop again")

StopFails ==
    /\ At("stop") /\ Trap
    /\ \E stopped \in SUBSET Installed(Timers(script.names)) : active' = active \ stopped
    /\ UNCHANGED <<origin, head, env, running, files, enabled, passed, cut>>

\* A patch does not apply, or cannot be pushed.
CheckOutFails ==
    /\ At("check out") /\ Trap
    /\ head' \in {head, script.candidate}
    /\ UNCHANGED <<origin, env, running, files, enabled, active, passed, cut>>

SaveMoreFails ==
    /\ At("save more")
    /\ \E n \in 0..1, timers \in SUBSET Timers(script.names) :
         /\ n = 0 => timers = {}
         /\ script' = [script EXCEPT
                         !.at = "stop again",
                         !.saved = @ \cup timers \cup {u \in {Service(script.names)} : n = 1}]
    /\ UNCHANGED <<origin, system, passed, cut>>

RequireFails ==
    /\ At("require") /\ Trap
    /\ env' = None
    /\ UNCHANGED <<origin, head, running, files, enabled, active, passed, cut>>

\* The order in which unit files are copied, before the timers.
Copied ==
    <<"nabicat.conf", "nabicat.service", "meridian.service", Service(script.names)>>

InstallFails ==
    /\ At("install") /\ Trap
    /\ \E n \in 0..4, timers \in SUBSET Timers(script.names) :
         /\ n < 4 => timers = {}
         /\ Place({Copied[i] : i \in 1..n} \cup timers, head)
    /\ UNCHANGED <<origin, head, env, running, enabled, active, passed, cut>>

RestartFails ==
    /\ At("restart") /\ Trap
    /\ running' \in {None, head}
    /\ UNCHANGED <<origin, head, env, files, enabled, active, passed, cut>>

EnableFails ==
    /\ At("enable") /\ Trap
    /\ \E some \in SUBSET Timers(script.names) : Enable(some)
    /\ UNCHANGED <<origin, head, env, running, files, passed, cut>>

\* The configuration cannot be read or is incomplete, or a health check fails.
OtherFails ==
    /\ At("configure") \/ At("canary") \/ At("check")
    /\ Trap
    /\ UNCHANGED <<origin, system, passed, cut>>

-----------------------------------------------------------------------------
(* rollback.                                                               *)

StopAgain == At("stop again") /\ StopApplication("reset")

Reset ==
    /\ At("reset")
    /\ head' = script.previous
    /\ Go("require again")
    /\ UNCHANGED <<origin, env, running, files, enabled, active, passed, cut>>

RequireAgain == At("require again") /\ InstallRequirements(head, "restore")

\* Without its requirements nothing is started.
RequireAgainFails ==
    /\ At("require again")
    /\ script' = NoScript
    /\ cut' = TRUE
    /\ UNCHANGED <<origin, system, passed>>

\* Faulty variant: only the units that the previous release names.
RestoredOfPrevious == Fixed \cup JobUnits(script.previous)

\* The units of the candidate, if its configuration was read, and then those of
\* the previous release.
Restored == Fixed \cup JobUnits(script.names) \cup JobUnits(script.previous)

\* restore_system_file and restore_scheduled_job_units: what was not backed up
\* was not changed.
Restore ==
    LET missing == {t \in Timers(script.names) \cap script.saved :
                      script.before.files[t] = None}
    IN  /\ At("restore")
        /\ files' = [u \in Units |-> IF u \in Restored \cap script.saved
                                       THEN script.before.files[u] ELSE files[u]]
        /\ active' = active \ Timers(script.names)
        /\ enabled' = enabled \ missing
        /\ script' = [script EXCEPT !.at = "restart again", !.names = script.previous]
        /\ UNCHANGED <<origin, head, env, running, passed, cut>>

RestartPrevious == At("restart again") /\ Restart("check again")

\* The timers are started if the previous release is healthy.
CheckPrevious ==
    /\ At("check again")
    /\ Enable({t \in Timers(script.names) : script.before.files[t] # None})
    /\ Go("rolled back")
    /\ UNCHANGED <<origin, head, env, running, files, passed, cut>>

\* A command fails before it has done anything, and with `set +e` the next one is
\* tried.
Skip(step, next) ==
    /\ At(step)
    /\ script' = [script EXCEPT !.at = next, !.failed = TRUE]
    /\ UNCHANGED <<origin, system, passed, cut>>

RollbackStepFails ==
    \/ Skip("stop again", "reset") \/ Skip("reset", "require again")
    \/ Skip("restore", "restart again") \/ Skip("restart again", "check again")
    \/ Skip("check again", "rolled back")

\* The script ends, and with it the lock.
EndDeployment ==
    /\ At("deployed") \/ At("rolled back")
    /\ cut' = (At("rolled back") /\ (cut \/ script.failed))
    /\ script' = NoScript
    /\ UNCHANGED <<origin, system, passed>>

-----------------------------------------------------------------------------
\* Somebody pushes a release.
Push ==
    /\ origin < LastRelease
    /\ origin' = origin + 1
    /\ UNCHANGED <<system, script, passed, cut>>

\* The script is killed.
Killed ==
    /\ ~At("idle")
    /\ script' = NoScript
    /\ cut' = TRUE
    /\ UNCHANGED <<origin, system, passed>>

\* The machine restarts, and systemd starts what is enabled.
Reboot ==
    /\ running' \in {head} \cup (IF env = head THEN {} ELSE {None})
    /\ active' = Installed(enabled)
    /\ script' = NoScript
    /\ cut' = (cut \/ ~At("idle"))
    /\ UNCHANGED <<origin, head, env, files, enabled, passed>>

DeploymentNext ==
    \/ BeginDeployment \/ Save \/ Stop \/ CheckOut \/ Configure \/ SaveMore \/ Require
    \/ Canary \/ Install \/ RestartCandidate \/ CheckHealth \/ EnableTimers \/ EndDeployment
    \/ SaveFails \/ StopFails \/ CheckOutFails \/ SaveMoreFails \/ RequireFails
    \/ InstallFails \/ RestartFails \/ EnableFails \/ OtherFails
    \/ StopAgain \/ Reset \/ RequireAgain \/ RequireAgainFails \/ Restore
    \/ RestartPrevious \/ CheckPrevious \/ RollbackStepFails
    \/ Push \/ Killed \/ Reboot

DeploymentSpec == DeploymentInit /\ [][DeploymentNext]_deploymentVars

-----------------------------------------------------------------------------
\* A deployment that succeeded has replaced everything that its release
\* declares, whatever earlier ones left half done.
DeployedWhole ==
    LET r == script.candidate
    IN  At("deployed") =>
          /\ <<head, env, running>> = <<r, r, r>>
          /\ \A u \in Fixed \cup JobUnits(r) : files[u] = r
          /\ Timers(r) \subseteq active \cap enabled
          /\ active \cap Timers(script.previous) \subseteq Timers(r)

\* And one that was rolled back has left no trace: every unit file is as it was
\* found, of whichever release (update_server.sh:87), the previous release runs
\* with its requirements and its timers, and no timer that it does not know runs or
\* has been added: but the candidate may have enabled one whose file had been there
\* already, left by a deployment that was cut short.
RolledBackWhole ==
    LET r == script.previous
        before == script.before
        its == {t \in Timers(r) : before.files[t] # None}
    IN  At("rolled back") /\ ~script.failed =>
          /\ <<head, env, running>> = <<r, r, r>>
          /\ files = before.files
          /\ before.enabled \cup its \subseteq enabled
          /\ enabled \subseteq before.enabled \cup its
                           \cup {t \in Timers(script.candidate) : before.files[t] # None}
          /\ active \cap Timers(r) = its
          /\ active \subseteq before.active \cup its

\* Each step of a deployment, and each of its rollback, may fail, and both may
\* be cut short: the release that is checked out then serves, and has passed the
\* health check, unless that has happened to the rollback or to the script
\* since the last deployment that succeeded (update_server.sh:180).
DeploymentsWhole ==
    /\ DeployedWhole /\ RolledBackWhole
    /\ At("idle") /\ ~cut => head \in passed /\ running = head /\ env = head
=============================================================================
