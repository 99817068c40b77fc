-------------------------- MODULE SupervisorProofs --------------------------
(***************************************************************************)
(* Proofs about Supervisor for any number of registrations and of restarts,*)
(* with the traps between any two commands of the shell.                   *)
(***************************************************************************)
EXTENDS Supervisor, TLAPS

USE SupervisorAssumption

GluetunIsRecord ==
    gluetun \in [number : Nat, status : Status, settings : 0..MaxRegistrations, exit : {0, 1}]

\* The shell gets past the wait, and past `alive`, only by a gluetun it has reaped.
ReapedAfterWait ==
    /\ pc = "fork" => gluetun.status \in {"none", "reaped"}
    /\ pc \in {"assign", "wait"} => gluetun.status \in {"running", "stopping", "zombie"}
    /\ pc = "alive" => gluetun.status # "none" /\ (gluetun.status = "reaped" => rc = gluetun.exit)
    /\ pc \in {"decide", "reset", "source", "reap", "exited"} =>
          gluetun.status = "reaped" /\ rc = gluetun.exit

\* A registration that is newer than the one gluetun has, or is about to get, is
\* still being applied or has a restart that is still to come.
NewestOrPending ==
    \/ restart
    \/ recover = "applying"
    \/ /\ pc = "fork" => settings = registered
       /\ pc \in {"assign", "wait", "alive"} /\ gluetun.status = "running"
             => gluetun.settings = registered
    \* . register.env is next, and reads the newest.
    \/ pc = "source"

Inv == TypeOK /\ GluetunIsRecord /\ ReapedAfterWait /\ NewestOrPending

\* A shell about to start gluetun satisfies the invariant.
LEMMA Initially == Init => Inv
<1> SUFFICES ASSUME Init PROVE Inv
  OBVIOUS
<1>1. GluetunIsRecord
  BY DEF Init, GluetunIsRecord, Status
<1>2. {shutdown, restart} \subseteq BOOLEAN
  BY Zenon DEF Init
<1>3. {settings, gluetun.settings, registered} \subseteq 0..MaxRegistrations
  BY DEF Init
<1>4. TypeOK
  BY <1>2, <1>3, SMT DEF Init, TypeOK, PC, Status
<1>5. ReapedAfterWait /\ NewestOrPending
  BY DEF Init, ReapedAfterWait, NewestOrPending
<1> QED
  BY <1>1, <1>4, <1>5 DEF Inv

(***************************************************************************)
(* A kill -TERM leaves everything of gluetun but its status, and takes a   *)
(* running one to stopping.                                                *)
(***************************************************************************)
LEMMA TerminatedLemma ==
    ASSUME GluetunIsRecord
    PROVE  /\ Terminated \in [number : Nat, status : Status, settings : 0..MaxRegistrations,
                              exit : {0, 1}]
           /\ Terminated.number = gluetun.number
           /\ Terminated.settings = gluetun.settings
           /\ Terminated.exit = gluetun.exit
           /\ \/ Terminated.status = gluetun.status
              \/ gluetun.status = "running" /\ Terminated.status = "stopping"
  BY DEF Terminated, GluetunIsRecord, Status

(***************************************************************************)
(* A trap, at whatever command the shell is, keeps what the shell knows of *)
(* gluetun: the wait it ends early is not taken for gluetun's end.         *)
(***************************************************************************)
LEMMA TrapLemma ==
    ASSUME Inv, Trap, {shutdown', restart'} \subseteq BOOLEAN, recover' \in {"idle", "applying", "dead"},
           restart' \/ (restart' = restart /\ recover' = recover)
    PROVE  Inv'
<1>1. Terminated = gluetun'
  BY DEF Trap
<1>2. GluetunIsRecord'
  BY <1>1, TerminatedLemma DEF Inv, GluetunIsRecord
<1>3. TypeOK'
  BY <1>1, TerminatedLemma DEF Inv, TypeOK, Trap, PC, Status, Interrupted, GluetunIsRecord
<1>4. ReapedAfterWait'
  BY <1>1, TerminatedLemma DEF Inv, ReapedAfterWait, Trap, TypeOK, PC
<1>5. NewestOrPending'
  BY <1>1, TerminatedLemma DEF Inv, NewestOrPending, Trap, TypeOK, PC
<1> QED
  BY <1>2, <1>3, <1>4, <1>5 DEF Inv

\* Every step keeps the invariant: one case per command.
LEMMA Inductive == Inv /\ [Next]_vars => Inv'
<1> SUFFICES ASSUME Inv, [Next]_vars PROVE Inv'
  OBVIOUS
<1> USE DEF Inv, TypeOK, PC, Status, Interrupted, GluetunIsRecord, ReapedAfterWait,
            NewestOrPending
<1>1. CASE Fork
  BY <1>1 DEF Fork
<1>2. CASE Assign
  BY <1>2 DEF Assign
<1>3. CASE Wait
  BY <1>3 DEF Wait
<1>4. CASE Alive
  BY <1>4 DEF Alive
<1>5. CASE Decide
  BY <1>5 DEF Decide
<1>6. CASE Reset
  BY <1>6 DEF Reset
<1>7. CASE Source
  BY <1>7 DEF Source
<1>8. CASE Reap
  BY <1>8 DEF Reap
<1>9. CASE OnTerm
  BY <1>9, TrapLemma DEF OnTerm
<1>10. CASE OnUsr1
  BY <1>10, TrapLemma DEF OnUsr1
<1>11. CASE \E status \in {0, 1} : GluetunExits(status)
  <2>1. PICK status \in {0, 1} : GluetunExits(status)
    BY <1>11
  <2>2. gluetun' = [gluetun EXCEPT !.status = "zombie", !.exit = status]
    BY <2>1 DEF GluetunExits
  <2>3. /\ gluetun'.number = gluetun.number /\ gluetun'.settings = gluetun.settings
        /\ gluetun'.status = "zombie" /\ gluetun'.exit = status
        /\ GluetunIsRecord'
    BY <2>2
  <2>4. UNCHANGED <<pc, gluetunPid, shutdown, restart, rc, settings, registered, recover>>
    BY <2>1 DEF GluetunExits, shell
  <2>5. gluetun.status \in {"running", "stopping"}
    BY <2>1 DEF GluetunExits
  <2>6. TypeOK'
    BY <2>3, <2>4
  <2>7. ReapedAfterWait' /\ NewestOrPending'
    BY <2>3, <2>4, <2>5
  <2> QED
    BY <2>3, <2>6, <2>7
<1>12. CASE Activate
  BY <1>12 DEF Activate, shell
<1>13. CASE Apply
  BY <1>13 DEF Apply, shell
<1>14. CASE LoopDies
  BY <1>14 DEF LoopDies, shell
<1>15. CASE UNCHANGED vars
  BY <1>15 DEF vars
<1> QED
  BY <1>1, <1>2, <1>3, <1>4, <1>5, <1>6, <1>7, <1>8, <1>9, <1>10, <1>11, <1>12, <1>13,
     <1>14, <1>15 DEF Next, Shell

\* The invariant holds in every reachable state.
LEMMA Invariance == Spec => []Inv
  BY Initially, Inductive, PTL DEF Spec

(***************************************************************************)
(* Every variable of the supervisor stays in its type.                     *)
(***************************************************************************)
THEOREM SupervisorTypeOK == Spec => []TypeOK
<1>1. Inv => TypeOK
  BY DEF Inv
<1> QED
  BY <1>1, Invariance, PTL

(***************************************************************************)
(* The container ends after gluetun and with its exit status, however many *)
(* signals ended the wait before (pia-entrypoint.sh:154-176).              *)
(***************************************************************************)
THEOREM ExitStatusIsGluetuns == Spec => []StatusIsGluetuns
<1>1. Inv => StatusIsGluetuns
  BY DEF Inv, ReapedAfterWait, StatusIsGluetuns
<1> QED
  BY <1>1, Invariance, PTL

(***************************************************************************)
(* No registration is lost between an apply that failed and a restart that *)
(* was under way (pia-recover.sh:61-75, pia-entrypoint.sh:158-170).        *)
(***************************************************************************)
THEOREM NewestIsRun == Spec => []RunsNewest
<1>1. Inv => RunsNewest
  BY DEF Inv, NewestOrPending, RunsNewest
<1> QED
  BY <1>1, Invariance, PTL

\* Between the decision to start a gluetun and the assignment of its pid.
Starting == pc \in {"reset", "source", "fork", "assign"}

\* The SIGTERM comes at another time.
NotMidStart == shutdown' = shutdown \/ ~ Starting
TermBetweenStarts == [][NotMidStart]_vars

\* A shell that waits knows gluetun's pid.
PidIsKnown == pc \in {"wait", "alive"} => gluetunPid = gluetun.number

TermHeard == shutdown => gluetun.status # "running" /\ ~ Starting

\* A step under the hypothesis keeps what the theorem below says.
LEMMA TermHeardStep ==
    ASSUME Inv, PidIsKnown, TermHeard, [Next]_vars, NotMidStart
    PROVE  PidIsKnown' /\ TermHeard'
<1> USE DEF PidIsKnown, TermHeard, Starting, NotMidStart
<1>1. CASE Shell
  BY <1>1 DEF Shell, Fork, Assign, Wait, Alive, Decide, Reset, Source, Reap, Inv, GluetunIsRecord,
     Status
<1>2. CASE OnTerm \/ OnUsr1
  <2>1. /\ Trap
        /\ gluetun' = Terminated /\ UNCHANGED gluetunPid
        /\ pc' = IF pc = "wait" THEN "alive" ELSE pc
    BY <1>2 DEF OnTerm, OnUsr1, Trap
  <2>2. gluetun'.number = gluetun.number
        /\ (gluetun.status # "running" => gluetun'.status = gluetun.status)
    BY <2>1, TerminatedLemma DEF Inv
  <2>3. PidIsKnown'
    BY <2>1, <2>2
  <2>4. CASE OnUsr1
    BY <2>1, <2>2, <2>4 DEF OnUsr1
  <2>5. CASE OnTerm
    <3>1. ~ shutdown /\ shutdown' /\ ~ Starting
      BY <2>5 DEF OnTerm, Inv, TypeOK
    <3>2. pc \in {"wait", "alive"} => gluetun'.status # "running"
      BY <2>1 DEF Terminated, Inv, GluetunIsRecord, Status
    <3>3. pc \in {"decide", "reap"} => gluetun.status = "reaped"
      BY DEF Inv, ReapedAfterWait
    <3>4. pc \in {"wait", "alive", "decide", "reap"}
      BY <2>1, <3>1 DEF Trap, Inv, TypeOK, PC
    <3> QED
      BY <2>1, <2>2, <2>3, <3>1, <3>2, <3>3, <3>4
  <2> QED
    BY <1>2, <2>3, <2>4, <2>5
<1>3. CASE \E status \in {0, 1} : GluetunExits(status)
  BY <1>3 DEF GluetunExits, shell, Inv, GluetunIsRecord, Status
<1>4. CASE Activate \/ Apply \/ LoopDies \/ UNCHANGED vars
  BY <1>4 DEF Activate, Apply, LoopDies, shell, vars, Inv, GluetunIsRecord
<1> QED
  BY <1>1, <1>2, <1>3, <1>4 DEF Next

(***************************************************************************)
(* A SIGTERM that comes at any other time than between the decision to     *)
(* start a gluetun and the assignment of its pid leaves no gluetun that    *)
(* runs on, and none is started after it: those commands are all of the    *)
(* window in which the run supervisor_term loses one                       *)
(* (pia-entrypoint.sh:128-142, 158-170).                                   *)
(***************************************************************************)
THEOREM TermIsHeardBetweenStarts ==
    Spec /\ TermBetweenStarts => [](shutdown => gluetun.status # "running")
<1>1. Init => PidIsKnown /\ TermHeard
  BY DEF Init, PidIsKnown, TermHeard
<1>2. Inv /\ PidIsKnown /\ TermHeard /\ [Next]_vars /\ [NotMidStart]_vars
        => PidIsKnown' /\ TermHeard'
  <2>1. UNCHANGED vars => NotMidStart
    BY Zenon DEF vars, NotMidStart
  <2> QED
    BY <2>1, TermHeardStep
<1>3. TermHeard => (shutdown => gluetun.status # "running")
  BY DEF TermHeard
<1> QED
  BY <1>1, <1>2, <1>3, Invariance, PTL DEF Spec, TermBetweenStarts

(***************************************************************************)
(* A gluetun is only forked once the one before it has been waited for     *)
(* (pia-entrypoint.sh:154-157).                                            *)
(***************************************************************************)
THEOREM NeverTwoGluetuns == Spec => OneGluetun
<1> DEFINE Step == gluetun'.number # gluetun.number => gluetun.status \in {"none", "reaped"}
<1>1. OneGluetun <=> [][Step]_vars
  BY PTL DEF OneGluetun
<1>2. Inv /\ [Next]_vars => [Step]_vars
  <2> SUFFICES ASSUME Inv, Next PROVE Step
    OBVIOUS
  <2>1. CASE Fork
    BY <2>1 DEF Fork, Inv, ReapedAfterWait
  <2>2. CASE gluetun' = gluetun
    BY <2>2
  <2>3. CASE OnTerm \/ OnUsr1
    BY <2>3, TerminatedLemma DEF OnTerm, OnUsr1, Trap, Inv
  <2>4. CASE Wait \/ Apply \/ \E status \in {0, 1} : GluetunExits(status)
    BY <2>4 DEF Wait, Apply, GluetunExits, Inv, GluetunIsRecord
  <2> QED
    BY <2>1, <2>2, <2>3, <2>4
    DEF Next, Shell, Assign, Alive, Decide, Reset, Source, Reap, Activate, LoopDies
<1> HIDE DEF Step
<1> QED
  BY <1>1, <1>2, Invariance, PTL DEF Spec

-----------------------------------------------------------------------------
\* The refinement of AtomicSupervisor

\* An initial state maps to an initial state.
LEMMA RefineInit == Init => Atomic!Init
  BY DEF Init, Atomic!Init, Atomic!Running, Atomic!Up, AbstractGluetun, Restarting, Ending

(***************************************************************************)
(* A trap shows in what it sets alone: the gluetun it tells to terminate   *)
(* still runs, and the wait it ends is inside the shell.                   *)
(***************************************************************************)
LEMMA TrapIsHidden ==
    ASSUME Inv, Trap
    PROVE  /\ AbstractGluetun' = AbstractGluetun
           /\ Restarting' = Restarting /\ Ending' = Ending
           /\ Ending => rc' = rc
           /\ registered' = registered
<1>1. Terminated = gluetun' /\ UNCHANGED <<settings, registered>>
  BY DEF Trap
<1>2. \/ pc' = pc /\ rc' = rc
      \/ pc = "wait" /\ pc' = "alive"
  BY DEF Trap
<1>3. /\ Terminated.settings = gluetun.settings /\ Terminated.exit = gluetun.exit
      /\ \/ Terminated.status = gluetun.status
         \/ gluetun.status = "running" /\ Terminated.status = "stopping"
  BY TerminatedLemma DEF Inv
<1>4. AbstractGluetun' = AbstractGluetun
  BY <1>1, <1>2, <1>3 DEF AbstractGluetun
<1> QED
  BY <1>1, <1>2, <1>4 DEF Restarting, Ending

(***************************************************************************)
(* Every command of the shell, every trap and every step of its children   *)
(* is a step of AtomicSupervisor or hidden in it: sourcing register.env is *)
(* the restart, deciding against one the container's end.                  *)
(***************************************************************************)
LEMMA RefineNext == Inv /\ [Next]_vars => [Atomic!Next]_Atomic!vars
<1> SUFFICES ASSUME Inv, [Next]_vars PROVE [Atomic!Next]_Atomic!vars
  OBVIOUS
<1> USE DEF AbstractGluetun, Restarting, Ending
<1>1. CASE Fork
  <2>1. UNCHANGED Atomic!vars
    BY <1>1 DEF Fork, Atomic!vars
  <2> QED
    BY <2>1
<1>2. CASE Assign \/ Alive \/ Reset \/ Reap
  <2>1. UNCHANGED Atomic!vars
    BY <1>2 DEF Assign, Alive, Reset, Reap, Atomic!vars
  <2> QED
    BY <2>1
<1>3. CASE Wait
  <2>1. UNCHANGED Atomic!vars
    BY <1>3 DEF Wait, Atomic!vars, Inv, GluetunIsRecord
  <2> QED
    BY <2>1
<1>4. CASE Decide
  <2>1. gluetun.status = "reaped" /\ rc = gluetun.exit
    BY <1>4 DEF Decide, Inv, ReapedAfterWait
  <2>2. CASE ~shutdown /\ restart
    <3>1. UNCHANGED Atomic!vars
      BY <1>4, <2>2 DEF Decide, Atomic!vars
    <3> QED
      BY <3>1
  <2>3. CASE shutdown \/ ~restart
    <3>1. Atomic!Exit
      BY <1>4, <2>1, <2>3 DEF Decide, Atomic!Exit
    <3> QED
      BY <3>1 DEF Atomic!Next
  <2> QED
    BY <2>2, <2>3
<1>5. CASE Source
  <2>1. gluetun.status = "reaped"
    BY <1>5 DEF Source, Inv, ReapedAfterWait
  <2>2. {restart \/ Restarting, shutdown /\ ~Restarting}' \subseteq BOOLEAN
    BY Zenon
  <2>3. Atomic!Restart
    BY <1>5, <2>1, <2>2 DEF Source, Atomic!Restart, Atomic!Running
  <2> QED
    BY <2>3 DEF Atomic!Next
<1>6. CASE OnTerm
  <2>1. CASE Restarting
    <3>1. UNCHANGED Atomic!vars
      BY <1>6, <2>1, TrapIsHidden DEF OnTerm, Atomic!vars
    <3> QED
      BY <3>1
  <2>2. CASE ~Restarting
    <3>1. Atomic!Tell
      BY <1>6, <2>2, TrapIsHidden DEF OnTerm, Atomic!Tell
    <3> QED
      BY <3>1 DEF Atomic!Next
  <2> QED
    BY <2>1, <2>2
<1>7. CASE OnUsr1
  <2>1. Atomic!Ask
    BY <1>7, TrapIsHidden DEF OnUsr1, Atomic!Ask
  <2> QED
    BY <2>1 DEF Atomic!Next
<1>8. CASE \E status \in {0, 1} : GluetunExits(status)
  <2>1. PICK status \in {0, 1} : GluetunExits(status)
    BY <1>8
  <2>2. pc # "fork"
    BY <2>1 DEF GluetunExits, Inv, ReapedAfterWait
  <2>3. /\ gluetun' = [gluetun EXCEPT !.status = "zombie", !.exit = status]
        /\ gluetun.status \in {"running", "stopping"}
        /\ UNCHANGED <<pc, shutdown, restart, rc, settings, registered, recover>>
    BY <2>1 DEF GluetunExits, shell
  <2>4. /\ gluetun'.status = "zombie" /\ gluetun'.exit = status
        /\ gluetun'.settings = gluetun.settings
    BY <2>3 DEF Inv, GluetunIsRecord
  <2>5. /\ AbstractGluetun.status = "running"
        /\ AbstractGluetun.settings = gluetun.settings
        /\ AbstractGluetun' = [status |-> "ended", settings |-> gluetun.settings,
                               exit |-> status]
    BY <2>2, <2>3, <2>4
  <2>6. Atomic!GluetunEnds(status)
    BY <2>3, <2>5 DEF Atomic!GluetunEnds
  <2> QED
    BY <2>6 DEF Atomic!Next
<1>9. CASE Activate
  <2>1. Atomic!Activate
    BY <1>9 DEF Activate, shell, Atomic!Activate
  <2> QED
    BY <2>1 DEF Atomic!Next
<1>10. CASE Apply
  <2>1. pc # "fork"
    BY <1>10 DEF Apply, Inv, ReapedAfterWait
  <2>2. Atomic!Apply
    BY <1>10, <2>1 DEF Apply, shell, Atomic!Apply, Inv, GluetunIsRecord
  <2> QED
    BY <2>2 DEF Atomic!Next
<1>11. CASE LoopDies
  <2>1. Atomic!LoopDies
    BY <1>11 DEF LoopDies, shell, Atomic!LoopDies
  <2> QED
    BY <2>1 DEF Atomic!Next
<1>12. CASE UNCHANGED vars
  <2>1. UNCHANGED Atomic!vars
    BY <1>12 DEF vars, Atomic!vars
  <2> QED
    BY <2>1
<1> QED
  BY <1>1, <1>2, <1>3, <1>4, <1>5, <1>6, <1>7, <1>8, <1>9, <1>10, <1>11, <1>12
  DEF Next, Shell

(***************************************************************************)
(* The supervising shell implements AtomicSupervisor, for any number of    *)
(* registrations, restarts and signals: PiaRecovery may take a restart for *)
(* one step (pia-entrypoint.sh:128-176).                                   *)
(***************************************************************************)
THEOREM Refinement == Spec => AtomicSpec
<1>1. Spec => [][Atomic!Next]_Atomic!vars
  BY Invariance, RefineNext, PTL DEF Spec
<1> QED
  BY <1>1, RefineInit, PTL DEF Spec, AtomicSpec, Atomic!Spec

=============================================================================
