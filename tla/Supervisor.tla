----------------------------- MODULE Supervisor -----------------------------
(***************************************************************************)
(* The supervising part of pia-gluetun/pia-entrypoint.sh (lines 124-176):  *)
(* the shell starts gluetun, waits for it, starts it anew when the         *)
(* recovery loop asks for that (SIGUSR1) and ends with it on SIGTERM.      *)
(*                                                                         *)
(* A shell runs a trap between two commands, and a signal ends the `wait`  *)
(* it is in.  The model has one step per command that matters, and the     *)
(* traps OnTerm and OnUsr1 may run at every one of them.                   *)
(***************************************************************************)
EXTENDS Naturals

CONSTANT MaxRegistrations   \* bound on the recovery loop's registrations

ASSUME SupervisorAssumption == MaxRegistrations \in Nat

VARIABLES
    pc,          \* the command that is next
    gluetunPid,  \* $gluetun_pid: 0 when empty, else which gluetun it names
    shutdown,
    restart,
    rc,          \* what wait returned
    settings,    \* the registration that the exported WIREGUARD_* variables hold
    gluetun,     \* the last gluetun started: its number, status and settings
    registered,  \* register.env: the number of the last registration
    recover      \* the recovery loop: "idle", "applying" a registration, or "dead"

shell == <<pc, gluetunPid, shutdown, restart, rc, settings>>
vars  == <<pc, gluetunPid, shutdown, restart, rc, settings, gluetun, registered, recover>>

\* fork, assign: start_gluetun's two commands; alive: kill -0; decide: the two tests.
PC == {"fork", "assign", "wait", "alive", "decide", "reset", "source", "reap", "exited"}

\* A gluetun that was told to terminate is stopping; a zombie until it is waited for.
Status == {"none", "running", "stopping", "zombie", "reaped"}

\* wait's status when a trap ended it: 128 and the signal's number.
Interrupted == 143

Init ==
    /\ pc = "fork"
    /\ gluetunPid = 0 /\ shutdown = FALSE /\ restart = FALSE /\ rc = 0
    /\ settings = 0 /\ registered = 0
    /\ gluetun = [number |-> 0, status |-> "none", settings |-> 0, exit |-> 0]
    /\ recover = "idle"

-----------------------------------------------------------------------------
\* The shell

\* kill -TERM "$gluetun_pid" reaches the running gluetun if the variable names it.
Terminated ==
    IF gluetunPid = gluetun.number /\ gluetun.status = "running"
    THEN [gluetun EXCEPT !.status = "stopping"]
    ELSE gluetun

\* A trap also ends the wait.
Trap ==
    /\ pc # "exited"
    /\ gluetun' = Terminated
    /\ IF pc = "wait" THEN pc' = "alive" /\ rc' = Interrupted ELSE UNCHANGED <<pc, rc>>
    /\ UNCHANGED <<gluetunPid, settings, registered>>

\* The container runtime sends one SIGTERM.
OnTerm ==
    /\ ~shutdown
    /\ Trap
    /\ shutdown' = TRUE
    /\ UNCHANGED <<restart, recover>>

\* The recovery loop asks for the restart.
OnUsr1 ==
    /\ recover = "applying"
    /\ Trap
    /\ recover' = "idle"
    /\ restart' = TRUE
    /\ UNCHANGED shutdown

\* Mutant: the flag is cleared once gluetun is started.
ForkForgets ==
    /\ pc = "fork"
    /\ gluetun' = [number |-> gluetun.number + 1, status |-> "running",
                   settings |-> settings, exit |-> 0]
    /\ pc' = "assign"
    /\ restart' = FALSE
    /\ UNCHANGED <<gluetunPid, shutdown, rc, settings, registered, recover>>

Fork ==
    /\ pc = "fork"
    /\ gluetun' = [number |-> gluetun.number + 1, status |-> "running",
                   settings |-> settings, exit |-> 0]
    /\ pc' = "assign"
    /\ UNCHANGED <<gluetunPid, shutdown, restart, rc, settings, registered, recover>>

Assign ==
    /\ pc = "assign"
    /\ gluetunPid' = gluetun.number
    /\ pc' = "wait"
    /\ UNCHANGED <<shutdown, restart, rc, settings, gluetun, registered, recover>>

\* wait returns: gluetun is reaped, its exit status known.
Wait ==
    /\ pc = "wait"
    /\ gluetun.status = "zombie"
    /\ gluetun' = [gluetun EXCEPT !.status = "reaped"]
    /\ rc' = gluetun.exit
    /\ pc' = "alive"
    /\ UNCHANGED <<gluetunPid, shutdown, restart, settings, registered, recover>>

\* Mutant: whatever ended the wait, gluetun is taken for dead.
AliveUnasked ==
    /\ pc = "alive"
    /\ pc' = "decide"
    /\ UNCHANGED <<gluetunPid, shutdown, restart, rc, settings, gluetun, registered, recover>>

\* Mutant: a gluetun that has exited counts as waited for.
AliveUnlessExited ==
    /\ pc = "alive"
    /\ pc' = IF gluetun.status \in {"zombie", "reaped"} THEN "decide" ELSE "wait"
    /\ UNCHANGED <<gluetunPid, shutdown, restart, rc, settings, gluetun, registered, recover>>

\* kill -0 also succeeds for a zombie.
Alive ==
    /\ pc = "alive"
    /\ pc' = IF gluetun.status = "reaped" THEN "decide" ELSE "wait"
    /\ UNCHANGED <<gluetunPid, shutdown, restart, rc, settings, gluetun, registered, recover>>

\* Mutant: the restart goes first.
DecideRestartFirst ==
    /\ pc = "decide"
    /\ pc' = IF restart THEN "reset" ELSE "reap"
    /\ UNCHANGED <<gluetunPid, shutdown, restart, rc, settings, gluetun, registered, recover>>

Decide ==
    /\ pc = "decide"
    /\ pc' = IF ~shutdown /\ restart THEN "reset" ELSE "reap"
    /\ UNCHANGED <<gluetunPid, shutdown, restart, rc, settings, gluetun, registered, recover>>

Reset ==
    /\ pc = "reset"
    /\ restart' = FALSE
    /\ pc' = "source"
    /\ UNCHANGED <<gluetunPid, shutdown, rc, settings, gluetun, registered, recover>>

\* Mutant: start_gluetun keeps the settings of the boot.
SourceNothing ==
    /\ pc = "source"
    /\ pc' = "fork"
    /\ UNCHANGED <<gluetunPid, shutdown, restart, rc, settings, gluetun, registered, recover>>

\* . register.env; pia_export_gluetun_env
Source ==
    /\ pc = "source"
    /\ settings' = registered
    /\ pc' = "fork"
    /\ UNCHANGED <<gluetunPid, shutdown, restart, rc, gluetun, registered, recover>>

\* Stop the recovery loop, wait for it, exit $rc.
Reap ==
    /\ pc = "reap"
    /\ pc' = "exited"
    /\ UNCHANGED <<gluetunPid, shutdown, restart, rc, settings, gluetun, registered, recover>>

-----------------------------------------------------------------------------
\* Its children and its container

\* gluetun ends, told to or on its own, with any status.
GluetunExits(status) ==
    /\ gluetun.status \in {"running", "stopping"}
    /\ gluetun' = [gluetun EXCEPT !.status = "zombie", !.exit = status]
    /\ UNCHANGED <<shell, registered, recover>>

\* The recovery loop activates a registration ...
Activate ==
    /\ recover = "idle" /\ pc # "exited"
    /\ registered < MaxRegistrations
    /\ recover' = "applying"
    /\ registered' = registered + 1
    /\ UNCHANGED <<shell, gluetun>>

\* ... and gluetun takes it; if it does not, OnUsr1 is next.
Apply ==
    /\ recover = "applying"
    /\ gluetun.status = "running"
    /\ gluetun' = [gluetun EXCEPT !.settings = registered]
    /\ recover' = "idle"
    /\ UNCHANGED <<shell, registered>>

\* set -e, or set -u: a probe.env that cannot be read, or lacks what is used.
LoopDies ==
    /\ recover = "idle" /\ pc # "exited"
    /\ recover' = "dead"
    /\ UNCHANGED <<shell, gluetun, registered>>

-----------------------------------------------------------------------------

Shell ==
    \/ Fork
    \/ Assign
    \/ Wait
    \/ Alive
    \/ Decide
    \/ Reset
    \/ Source
    \/ Reap

Next ==
    \/ Shell
    \/ OnTerm
    \/ OnUsr1
    \/ \E status \in {0, 1} : GluetunExits(status)
    \/ Activate
    \/ Apply
    \/ LoopDies

Spec == Init /\ [][Next]_vars

\* The shell runs on, and a gluetun that was told to terminate does.
Fairness ==
    /\ WF_vars(Shell)
    /\ WF_vars(gluetun.status = "stopping" /\ \E status \in {0, 1} : GluetunExits(status))

FairSpec == Spec /\ Fairness

-----------------------------------------------------------------------------

TypeOK ==
    /\ pc \in PC
    /\ {shutdown, restart} \subseteq BOOLEAN
    /\ rc \in {0, 1, Interrupted}
    /\ {settings, gluetun.settings, registered} \subseteq 0..MaxRegistrations
    /\ gluetun.number \in Nat /\ gluetunPid \in 0..gluetun.number
    /\ gluetun.status \in Status
    /\ gluetun.exit \in {0, 1}
    /\ recover \in {"idle", "applying", "dead"}

(***************************************************************************)
(* No gluetun is started while another one lives: two would fight over the *)
(* container's one network namespace.  A trap that ends the wait early     *)
(* must not be taken for the end of gluetun (pia-entrypoint.sh:154-157).   *)
(***************************************************************************)
OneGluetun ==
    [][gluetun'.number # gluetun.number => gluetun.status \in {"none", "reaped"}]_vars

(***************************************************************************)
(* The container ends after gluetun and with its exit status, never with   *)
(* that of an interrupted wait.                                            *)
(***************************************************************************)
StatusIsGluetuns ==
    pc = "exited" => gluetun.status = "reaped" /\ rc = gluetun.exit

(***************************************************************************)
(* With no restart and no registration under way, the running gluetun has  *)
(* the newest registration, also when the loop has died: no request is     *)
(* dropped because another one was being served, or a shell command was    *)
(* between two others.                                                     *)
(***************************************************************************)
RunsNewest ==
    pc = "wait" /\ gluetun.status = "running" /\ ~restart /\ recover # "applying"
        => gluetun.settings = registered

(***************************************************************************)
(* Once a SIGTERM has reached gluetun, the container ends, although a      *)
(* restart was asked for before or is asked for now.                       *)
(***************************************************************************)
StopsOnceHeard ==
    shutdown /\ gluetun.status \in {"stopping", "zombie"} ~> pc = "exited"

(***************************************************************************)
(* "forward TERM/INT" (design document), "supervisor exits 0 on TERM" and  *)
(* "gluetun stopped after TERM" (tests/sh/test_supervisor.sh): a SIGTERM   *)
(* ends the container whenever it comes.                                   *)
(***************************************************************************)
TermEnds == shutdown ~> pc = "exited"

-----------------------------------------------------------------------------

\* The refinement mapping: a restart takes place when the newest settings are read,
\* the container's end when it is decided.  From the decision to restart until
\* then the restart is owed, and what is signalled is not heard yet.
Restarting == pc \in {"reset", "source"}
Ending == pc \in {"reap", "exited"}

AbstractGluetun ==
    IF pc = "fork"
    THEN [status |-> "running", settings |-> settings, exit |-> 0]
    ELSE [status   |-> IF gluetun.status \in {"running", "stopping"} THEN "running" ELSE "ended",
          settings |-> gluetun.settings,
          exit     |-> gluetun.exit]

Atomic == INSTANCE AtomicSupervisor WITH
    gluetun   <- AbstractGluetun,
    asked     <- restart \/ Restarting,
    told      <- shutdown /\ ~Restarting,
    container <- [up |-> ~Ending, status |-> IF Ending THEN rc ELSE 0]

(***************************************************************************)
(* To the recovery loop and to the container runtime the shell, with its   *)
(* traps between any two commands, is AtomicSupervisor: a restart cannot   *)
(* be lost, be given old settings, overtake the end of gluetun or follow a *)
(* SIGTERM that was heard (pia-entrypoint.sh:128-176).                     *)
(***************************************************************************)
AtomicSpec == Atomic!Spec

=============================================================================
