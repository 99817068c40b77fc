-------------------------- MODULE AtomicSupervisor --------------------------
(***************************************************************************)
(* What the supervising shell of pia-entrypoint.sh promises, to the        *)
(* recovery loop and to the container runtime: there is one gluetun at a   *)
(* time; a restart that was asked for is one step, which follows the end   *)
(* of gluetun and gives the next one the newest registration; and the      *)
(* container ends after gluetun, with its status, unless a restart is      *)
(* owed - and none is served any more once a SIGTERM was heard.  This is   *)
(* the GluetunRestarts that PiaRecovery takes for an atomic step.          *)
(***************************************************************************)
EXTENDS Naturals

CONSTANT MaxRegistrations

VARIABLES
    gluetun,     \* its status, its settings, and how it ended
    registered,  \* the number of the last registration
    recover,     \* the recovery loop: "idle", "applying" a registration, or "dead"
    asked,       \* a restart is owed
    told,        \* a SIGTERM was heard
    container    \* whether it is up, and the status it ended with

vars == <<gluetun, registered, recover, asked, told, container>>

Running(settings) == [status |-> "running", settings |-> settings, exit |-> 0]
Up == [up |-> TRUE, status |-> 0]

Init ==
    /\ gluetun = Running(0) /\ registered = 0 /\ recover = "idle"
    /\ asked = FALSE /\ told = FALSE
    /\ container = Up

\* The recovery loop has a new registration ...
Activate ==
    /\ recover = "idle" /\ registered < MaxRegistrations
    /\ recover' = "applying" /\ registered' = registered + 1
    /\ UNCHANGED <<gluetun, asked, told, container>>

\* ... which the running gluetun takes ...
Apply ==
    /\ recover = "applying" /\ gluetun.status = "running"
    /\ gluetun' = [gluetun EXCEPT !.settings = registered]
    /\ recover' = "idle"
    /\ UNCHANGED <<registered, asked, told, container>>

\* ... or a restart has to see to.
Ask ==
    /\ recover = "applying"
    /\ recover' = "idle" /\ asked' = TRUE
    /\ UNCHANGED <<gluetun, registered, told, container>>

LoopDies ==
    /\ recover = "idle"
    /\ recover' = "dead"
    /\ UNCHANGED <<gluetun, registered, asked, told, container>>

Tell ==
    /\ told' = TRUE
    /\ UNCHANGED <<gluetun, registered, recover, asked, container>>

\* Told to, asked to, or on its own.
GluetunEnds(status) ==
    /\ gluetun.status = "running"
    /\ gluetun' = [status |-> "ended", settings |-> gluetun.settings, exit |-> status]
    /\ UNCHANGED <<registered, recover, asked, told, container>>

\* What is asked for or told while a restart is under way is heard after it.
Restart ==
    /\ container.up /\ gluetun.status = "ended"
    /\ asked /\ ~told
    /\ gluetun' = Running(registered)
    /\ {asked', told'} \subseteq BOOLEAN
    /\ UNCHANGED <<registered, recover, container>>

Exit ==
    /\ container.up /\ gluetun.status = "ended"
    /\ told \/ ~asked
    /\ container' = [up |-> FALSE, status |-> gluetun.exit]
    /\ UNCHANGED <<gluetun, registered, recover, asked, told>>

Next ==
    \/ Activate \/ Apply \/ Ask \/ LoopDies \/ Tell \/ Restart \/ Exit
    \/ \E status \in {0, 1} : GluetunEnds(status)

Spec == Init /\ [][Next]_vars

=============================================================================
