------------------------- MODULE PiaRecoveryProofs -------------------------
(***************************************************************************)
(* Proofs about PiaRecovery for any regions, thresholds and attempts, with *)
(* kills in the middle of a step and edits between two boots.              *)
(***************************************************************************)
EXTENDS PiaRecovery, TLAPS

USE PiaAssumption

\* The recovery loop runs inside a container that is up, and gluetun too.
Phases ==
    /\ loop # "off" <=> container = "up"
    /\ restart => loop = "probe"
    /\ container # "up" => gluetun.cn = NoServer

\* Which of the copies of the registration agree, at every point of a boot or a
\* round; where gluetun's may differ, the signature is gone, or came late.
Copies ==
    /\ container = "registered" \/ loop = "activate" => new = saved
    /\ loop \notin {"off", "activate"} => cut \/ env.cn = saved
    /\ loop = "apply" => env.cn = saved
    /\ container \in {"registered", "up"} => saved # NoServer
    /\ container = "up" => env.cn # NoServer
    /\ loop \notin {"off", "apply"} /\ ~restart => gluetun.cn = env.cn
    /\ loop = "apply" \/ restart => pf = NoServer \/ gluetun.cn = env.cn \/ late

\* What a branch has established of the two counters and of the interval.
Rounds ==
    /\ loop = "probe" => fails < FailThreshold
    /\ loop = "same" => sameFail < SameServerAttempts
    /\ loop \in {"gone", "roll"} => sameFail = SameServerAttempts
    /\ loop = "roll" => known >= MinServerChange

\* How old the last change is: by state.json, by register.env and in truth.
Ages ==
    /\ since = age
    /\ loop \notin {"off", "activate"} => cut \/ known = age

Inv == TypeOK /\ Phases /\ Copies /\ Rounds /\ Ages

\* The world before the first boot satisfies the invariant.
LEMMA Initially == Init => Inv
<1> SUFFICES ASSUME Init PROVE Inv
  OBVIOUS
<1>1. Unregistered \in Registration
  BY DEF Unregistered, Registration, CN
<1>2. boot \in [old : CN, pin : CN, attempt : 1..RegisterAttempts]
  BY DEF Init, CN
<1>3. {restart, cut, late} \subseteq BOOLEAN
  BY Zenon DEF Init
<1>4. TypeOK
  BY <1>1, <1>2, <1>3 DEF Init, TypeOK, CN, OK
<1>5. Phases /\ Copies /\ Rounds /\ Ages
  BY DEF Init, Phases, Copies, Rounds, Ages, Unregistered
<1> QED
  BY <1>4, <1>5 DEF Inv

-----------------------------------------------------------------------------
\* The operators of the steps

(***************************************************************************)
(* Forgetting a key leaves a registration with the server it was with.     *)
(***************************************************************************)
LEMMA OutdatedLemma ==
    ASSUME NEW r \in Registration, NEW s
    PROVE  Outdated(r, s) \in Registration /\ Outdated(r, s).cn = r.cn
  BY DEF Outdated, Registration

\* A fresh registration names the server it was made with.
LEMMA RegisteredLemma ==
    ASSUME NEW s \in CN
    PROVE  Registered(s) \in Registration /\ Registered(s).cn = s
  BY DEF Registered, Registration

(***************************************************************************)
(* A registration, granted or not, changes the server of neither gluetun   *)
(* nor register.env.                                                       *)
(***************************************************************************)
LEMMA RegisterLemma ==
    ASSUME Inv, NEW s, Register(s)
    PROVE  /\ s \in Server /\ saved' = s /\ new' = s
           /\ age' \in 0..MinServerChange /\ since' = age' /\ UNCHANGED <<known, cut>>
           /\ gluetun' \in Registration /\ gluetun'.cn = gluetun.cn
           /\ env' \in Registration /\ env'.cn = env.cn
           /\ tunnel' \in {"down", "up"} /\ late' = late
  BY OutdatedLemma DEF Register, Save, Since, AddKey, Inv, TypeOK, Ages

\* What a failed registration may touch, the replaced key included.
LEMMA RegisterFailsLemma ==
    ASSUME Inv, NEW candidates, RegisterFails(candidates)
    PROVE  /\ new' = NoServer /\ UNCHANGED <<saved, clocks, cut, pf>>
           /\ gluetun' \in Registration /\ gluetun'.cn = gluetun.cn
           /\ env' \in Registration /\ env'.cn = env.cn
           /\ tunnel' \in {"down", "up"} /\ late' = late
  BY OutdatedLemma DEF RegisterFails, AddKey, vpn, Inv, TypeOK

(***************************************************************************)
(* What a register that errs may touch: only one that was killed after its *)
(* save changes state.json, and in a container that is up it is known as   *)
(* cut then, or has saved register.env's server.                           *)
(***************************************************************************)
LEMMA RegisterErrsLemma ==
    ASSUME Inv, NEW candidates, RegisterErrs(candidates)
    PROVE  /\ new' = NoServer /\ UNCHANGED <<known, pf>>
           /\ saved' \in CN /\ saved' \in {saved} \cup (candidates \cap Server)
           /\ age' \in 0..MinServerChange /\ since' = age'
           /\ cut' \in BOOLEAN
           /\ container = "up" /\ ~cut' =>
                 /\ ~cut
                 /\ saved' \in {saved, env.cn}
                 /\ saved' = saved => age' = age
           /\ gluetun' \in Registration /\ gluetun'.cn = gluetun.cn
           /\ env' \in Registration /\ env'.cn = env.cn
           /\ tunnel' \in {"down", "up"} /\ late' = late
<1>1. CASE RegisterFails(candidates)
  <2>1. cut' \in BOOLEAN /\ (~cut' => ~cut)
    BY <1>1, RegisterFailsLemma, Zenon DEF Inv, TypeOK
  <2> QED
    BY <1>1, <2>1, RegisterFailsLemma DEF clocks, Inv, TypeOK, Ages
<1>2. CASE RegisterCut(candidates)
  <2>1. PICK s \in candidates \cap alive :
           /\ AddKey(s) /\ Save(s) /\ env' = Outdated(env, s)
           /\ cut' = (container = "up" /\ (cut \/ s # env.cn))
    BY <1>2 DEF RegisterCut
  <2>2. new' = NoServer /\ UNCHANGED <<known, pf>>
    BY <1>2 DEF RegisterCut
  <2>3. saved' = s /\ age' \in 0..MinServerChange /\ since' = age' /\ (s = saved => age' = age)
    BY <2>1 DEF Save, Since, Inv, TypeOK, Ages
  <2>4. /\ gluetun' \in Registration /\ gluetun'.cn = gluetun.cn
        /\ env' \in Registration /\ env'.cn = env.cn
        /\ tunnel' \in {"down", "up"} /\ late' = late
    BY <2>1, OutdatedLemma DEF AddKey, Inv, TypeOK
  <2>5. s \in CN /\ s \in candidates \cap Server
    BY DEF Inv, TypeOK, CN
  <2>6. container = "up" /\ ~cut' => ~cut /\ s = env.cn
    BY <2>1, Zenon
  <2>7. cut' \in BOOLEAN
    BY <2>1, Zenon
  <2> QED
    BY <2>2, <2>3, <2>4, <2>5, <2>6, <2>7
<1> QED
  BY <1>1, <1>2 DEF RegisterErrs

\* Where nothing is killed inside a step, state.json is left alone.
LEMMA UncutLemma ==
    ASSUME Inv, NEW candidates, RegisterErrs(candidates), ~KilledAnywhere
    PROVE  RegisterFails(candidates)
  BY Zenon DEF RegisterErrs, RegisterCut

\* A round that ends with a register that errs keeps the invariant.
LEMMA RoundErrsLemma ==
    ASSUME Inv, NEW candidates, RegisterErrs(candidates), EndRound,
           loop \in {"same", "gone", "roll", "hold"},
           sameFail' \in 0..SameServerAttempts, rc' \in {OK, Failed, Gone},
           UNCHANGED <<alive, region, container, boot, restart>>
    PROVE  Inv'
<1> USE DEF EndRound
<1>1. TypeOK'
  BY RegisterErrsLemma DEF Inv, TypeOK, CN
<1>2. Phases' /\ Rounds'
  BY RegisterErrsLemma DEF Inv, TypeOK, Phases, Rounds
<1>3. container = "up" /\ ~restart
  BY DEF Inv, Phases
<1>4. Copies' /\ Ages'
  BY <1>3, RegisterErrsLemma DEF Inv, Copies, Ages
<1> QED
  BY <1>1, <1>2, <1>4 DEF Inv

-----------------------------------------------------------------------------
\* The three processes

\* The boot keeps the invariant.
LEMMA EntrypointLemma == Inv /\ Entrypoint => Inv'
<1> SUFFICES ASSUME Inv, Entrypoint PROVE Inv'
  OBVIOUS
<1> USE DEF Inv, TypeOK, Phases, Copies, Rounds, Ages, CN, clocks, files, recovery, vpn
<1>1. CASE Start
  <2>1. boot' \in [old : CN, pin : CN, attempt : 1..RegisterAttempts]
    BY <1>1 DEF Start
  <2> QED
    BY <1>1, <2>1 DEF Start
<1>2. ASSUME NEW s \in Server, BootRegisters(s) PROVE Inv'
  BY <1>2, RegisterLemma DEF BootRegisters
<1>3. ASSUME NEW status \in {Failed, Gone}, BootFails(status) PROVE Inv'
  <2>1. boot' \in [old : CN, pin : CN, attempt : 1..RegisterAttempts]
    BY <1>3 DEF BootFails
  <2>2. container' \in {"registering", "off"} /\ container = "registering"
    BY <1>3 DEF BootFails
  <2>3. /\ RegisterErrs(Candidates(boot.pin))
        /\ UNCHANGED <<alive, region, loop, fails, sameFail, rc, restart>>
    <3>1. RegisterErrs(Candidates(boot.pin))
      BY <1>3, Zenon DEF BootFails, RegisterErrs
    <3> QED
      BY <1>3, <3>1 DEF BootFails
  <2>4. TypeOK'
    BY <2>1, <2>2, <2>3, RegisterErrsLemma
  <2>5. Phases' /\ Copies' /\ Rounds' /\ Ages'
    BY <2>2, <2>3, RegisterErrsLemma
  <2> QED
    BY <2>4, <2>5
<1>4. CASE BootFinishes
  <2>1. Registered(new) \in Registration /\ Registered(new).cn = new
    BY RegisteredLemma
  <2>2. /\ container = "registered" /\ container' = "up" /\ loop' = "probe"
        /\ env' = Registered(new) /\ gluetun' = Registered(new)
        /\ fails' = 0 /\ sameFail' = 0 /\ restart' = FALSE
        /\ known' = age
        /\ UNCHANGED <<alive, region, saved, age, since, boot>>
    BY <1>4 DEF BootFinishes, ExportGluetunEnv
  <2>3. {restart', cut', late'} \subseteq BOOLEAN
    BY <1>4, Zenon DEF BootFinishes, ExportGluetunEnv
  <2>4. TypeOK'
    BY <1>4, <2>1, <2>2, <2>3 DEF BootFinishes, ExportGluetunEnv, OK
  <2>5. Phases' /\ Copies' /\ Rounds' /\ Ages'
    BY <2>1, <2>2
  <2> QED
    BY <2>4, <2>5
<1>5. CASE GluetunRestarts
  BY <1>5 DEF GluetunRestarts, ExportGluetunEnv
<1> QED
  BY <1>1, <1>2, <1>3, <1>4, <1>5 DEF Entrypoint

\* The branches of the recovery loop keep it.
LEMMA RecoverLemma == Inv /\ Recover => Inv'
<1> SUFFICES ASSUME Inv, Recover PROVE Inv'
  OBVIOUS
<1> USE DEF Inv, TypeOK, Phases, Copies, Rounds, Ages, CN, clocks, files, vpn, OK, Failed, Gone, EndRound
<1>1. CASE ProbeHealthy
  BY <1>1 DEF ProbeHealthy
<1>2. CASE ProbeUnhealthy
  BY <1>2 DEF ProbeUnhealthy, Branch
<1>3. CASE SameRegisters
  BY <1>3, RegisterLemma DEF SameRegisters
<1>4. CASE SameFails
  BY <1>4, RoundErrsLemma DEF SameFails
<1>5. CASE SameGone
  BY <1>5, RegisterFailsLemma DEF SameGone
<1>6. ASSUME NEW s \in Server, RollsTo(s) PROVE Inv'
  BY <1>6, RegisterLemma DEF RollsTo
<1>7. CASE RollFails
  BY <1>7, RoundErrsLemma DEF RollFails
<1>8. CASE HoldRegisters
  BY <1>8, RegisterLemma DEF HoldRegisters
<1>9. ASSUME NEW status \in {Failed, Gone}, HoldFails(status) PROVE Inv'
  <2>1. RegisterErrs(Candidates(env.cn))
    BY <1>9, Zenon DEF HoldFails, RegisterErrs
  <2> QED
    BY <1>9, <2>1, RoundErrsLemma DEF HoldFails
<1>10. CASE Activate
  <2>1. Registered(new) \in Registration /\ Registered(new).cn = new
    BY RegisteredLemma
  <2>2. cut' \in BOOLEAN
    BY <1>10, Zenon DEF Activate
  <2>3. saved # NoServer /\ container = "up"
    BY <1>10 DEF Activate
  <2> QED
    BY <1>10, <2>1, <2>2, <2>3 DEF Activate
<1>11. CASE ApplySucceeds
  <2>1. Registered(saved) \in Registration /\ Registered(saved).cn = saved
    BY RegisteredLemma
  <2>2. late' \in BOOLEAN
    BY <1>11, Zenon DEF ApplySucceeds
  <2> QED
    BY <1>11, <2>1, <2>2 DEF ApplySucceeds
<1>12. CASE ApplyFails
  <2>1. Registered(saved) \in Registration /\ Registered(saved).cn = saved
    BY RegisteredLemma
  <2>2. late' \in BOOLEAN /\ restart' \in BOOLEAN
    <3>1. late' = late \/ late' = FALSE
      BY <1>12, Zenon DEF ApplyFails
    <3>2. restart' = TRUE
      BY <1>12 DEF ApplyFails
    <3>3. late \in BOOLEAN
      OBVIOUS
    <3> QED
      BY <3>1, <3>2, <3>3, Zenon
  <2> QED
    BY <1>12, <2>1, <2>2 DEF ApplyFails
<1> QED
  BY <1>1, <1>2, <1>3, <1>4, <1>5, <1>6, <1>7, <1>8, <1>9, <1>10, <1>11, <1>12 DEF Recover

\* gluetun, PIA and the operator keep it.
LEMMA WorldLemma == Inv /\ World => Inv'
<1> SUFFICES ASSUME Inv, World PROVE Inv'
  OBVIOUS
<1> USE DEF Inv, TypeOK, Phases, Copies, Rounds, Ages, CN, clocks, files, recovery, vpn
<1>1. CASE Connect
  BY <1>1 DEF Connect, Registration
<1>2. CASE Disconnect
  BY <1>2 DEF Disconnect
<1>3. ASSUME NEW s \in Server, ServerDies(s) PROVE Inv'
  BY <1>3 DEF ServerDies
<1>4. CASE Killed
  <2>1. Unregistered \in Registration /\ Unregistered.cn = NoServer
    BY DEF Unregistered, Registration
  <2> QED
    BY <1>4, <2>1 DEF Killed
<1>5. CASE OperatorEdit
  BY <1>5 DEF OperatorEdit
<1>6. CASE Tick
  BY <1>6 DEF Tick, Ticked
<1> QED
  BY <1>1, <1>2, <1>3, <1>4, <1>5, <1>6 DEF World

\* A step that changes nothing keeps it.
LEMMA Stutter == Inv /\ UNCHANGED vars => Inv'
  BY DEF vars, recovery, files, vpn, Inv, TypeOK, Phases, Copies, Rounds, Ages

\* The invariant holds in every reachable state.
LEMMA Invariance == Spec => []Inv
<1>1. Inv /\ [Next]_vars => Inv'
  BY EntrypointLemma, RecoverLemma, WorldLemma, Stutter DEF Next
<1> QED
  BY <1>1, Initially, PTL DEF Spec

-----------------------------------------------------------------------------

(***************************************************************************)
(* Every variable of the side-car stays in its type: the counters of the   *)
(* recovery loop stay within their thresholds, whatever is killed.         *)
(***************************************************************************)
THEOREM PiaRecoveryTypeOK == Spec => []TypeOK
<1>1. Inv => TypeOK
  BY DEF Inv
<1> QED
  BY <1>1, Invariance, PTL

(***************************************************************************)
(* Between two rounds state.json, register.env and gluetun name one server *)
(* (pia-recover.sh:53-75, pia-entrypoint.sh:100-109).                      *)
(***************************************************************************)
THEOREM CopiesOfTheRegistrationAgree == Spec => []CopiesAgree
<1>1. Inv => CopiesAgree
  BY DEF Inv, Phases, Copies, CopiesAgree, BetweenRounds
<1> QED
  BY <1>1, Invariance, PTL

(***************************************************************************)
(* No round, and no boot that knows its server, leaves a signature of      *)
(* another server (pia-recover.sh:58-60, pia-entrypoint.sh:104-107).       *)
(***************************************************************************)
THEOREM SignatureIsDropped == Spec => ChangeDropsSignature
<1> DEFINE Step == (\/ container = "up" /\ SignatureFollowsServer
                    \/ container = "registered" /\ pf \in {NoServer, boot.old})
                   => SignatureFollowsServer' \/ late
<1>1. ChangeDropsSignature <=> [][Step]_vars
  BY PTL DEF ChangeDropsSignature
<1>2. Inv /\ [Next]_vars => [Step]_vars
  <2> SUFFICES ASSUME Inv, Next,
                      \/ container = "up" /\ SignatureFollowsServer
                      \/ container = "registered" /\ pf \in {NoServer, boot.old}
               PROVE  SignatureFollowsServer' \/ late
    OBVIOUS
  <2> USE DEF SignatureFollowsServer, files, recovery, vpn
  <2>1. container # "up" => gluetun.cn = NoServer
    BY DEF Inv, Phases
  <2>2. CASE UNCHANGED <<gluetun, pf>>
    BY <2>1, <2>2
  <2>3. CASE gluetun'.cn = gluetun.cn /\ pf' = pf
    BY <2>1, <2>3
  <2>4. CASE BootFinishes
    BY <2>4, RegisteredLemma DEF BootFinishes, ExportGluetunEnv, Inv, TypeOK, Phases, CN
  <2>5. CASE GluetunRestarts
    BY <2>5 DEF GluetunRestarts, ExportGluetunEnv, Inv, Phases, Copies
  <2>6. CASE Activate
    BY <2>6 DEF Activate, Inv, Phases
  <2>7. CASE ApplySucceeds \/ ApplyFails
    BY <2>7, RegisteredLemma DEF ApplySucceeds, ApplyFails, Inv, TypeOK, Phases, Copies
  <2>8. CASE Connect
    BY <2>1, <2>8 DEF Connect
  <2>9. CASE Killed
    BY <2>9 DEF Killed, Unregistered
  <2>10. CASE \E s \in Server : BootRegisters(s) \/ RollsTo(s)
    BY <2>3, <2>10, RegisterLemma DEF BootRegisters, RollsTo
  <2>11. CASE SameRegisters \/ HoldRegisters
    BY <2>3, <2>11, RegisterLemma DEF SameRegisters, HoldRegisters
  <2>12. CASE \E status \in {Failed, Gone} : BootFails(status) \/ HoldFails(status)
    BY <2>3, <2>12, RegisterErrsLemma DEF BootFails, HoldFails, RegisterErrs
  <2>13. CASE SameFails \/ SameGone \/ RollFails
    BY <2>3, <2>13, RegisterErrsLemma DEF SameFails, SameGone, RollFails, RegisterErrs
  <2> QED
    BY <2>2, <2>4, <2>5, <2>6, <2>7, <2>8, <2>9, <2>10, <2>11, <2>12, <2>13
    DEF Next, Entrypoint, Recover, World, Start, ProbeHealthy, ProbeUnhealthy,
        Disconnect, ServerDies, OperatorEdit, Tick
<1> HIDE DEF Step
<1> QED
  BY <1>1, <1>2, Invariance, PTL DEF Spec

(***************************************************************************)
(* While the container runs, the server changes only when the rounds on it *)
(* are used up, and after the interval or because it is gone               *)
(* (pia-recover.sh:104-139, main.go:219).                                  *)
(***************************************************************************)
THEOREM ChangesAreSpaced == Spec => ServerChangesAreSpaced
<1> DEFINE Step == container = "up" /\ ~cut /\ saved' # saved =>
                       /\ sameFail = SameServerAttempts
                       /\ loop = "gone" \/ since >= MinServerChange
<1>1. ServerChangesAreSpaced <=> [][Step]_vars
  BY PTL DEF ServerChangesAreSpaced
<1>2. Inv /\ [Next]_vars => [Step]_vars
  <2> SUFFICES ASSUME Inv, Next, container = "up", ~cut, saved' # saved
               PROVE  /\ sameFail = SameServerAttempts
                      /\ loop = "gone" \/ since >= MinServerChange
    OBVIOUS
  <2> USE DEF files, recovery, vpn
  <2>1. CASE (\E s \in Server : RollsTo(s)) \/ RollFails
    <3>1. loop \in {"gone", "roll"}
      BY <2>1 DEF RollsTo, RollFails
    <3>2. since = known
      BY <3>1 DEF Inv, Ages
    <3> QED
      BY <3>1, <3>2 DEF Inv, Rounds
  <2>2. CASE SameRegisters \/ HoldRegisters
    BY <2>2, RegisterLemma DEF SameRegisters, HoldRegisters, Inv, Copies
  <2>3. CASE \E s \in Server : BootRegisters(s)
    BY <2>3 DEF BootRegisters
  <2>4. CASE \E status \in {Failed, Gone} : BootFails(status)
    BY <2>4 DEF BootFails
  <2>5. CASE SameFails \/ SameGone \/ \E status \in {Failed, Gone} : HoldFails(status)
    <3>1. RegisterErrs(Candidates(env.cn)) /\ loop \in {"same", "hold"}
      BY <2>5, Zenon DEF SameFails, SameGone, HoldFails, RegisterErrs
    <3>2. Candidates(env.cn) = {env.cn} /\ env.cn = saved
      BY <3>1 DEF Candidates, Inv, Copies
    <3> QED
      BY <3>1, <3>2, RegisterErrsLemma
  <2>6. CASE OperatorEdit
    BY <2>6 DEF OperatorEdit
  <2> QED
    BY <2>1, <2>2, <2>3, <2>4, <2>5, <2>6
    DEF Next, Entrypoint, Recover, World, Start, BootFinishes, GluetunRestarts, ProbeHealthy,
        ProbeUnhealthy, Activate, ApplySucceeds, ApplyFails, Connect, Disconnect,
        ServerDies, Killed, Tick
<1> HIDE DEF Step
<1> QED
  BY <1>1, <1>2, Invariance, PTL DEF Spec

-----------------------------------------------------------------------------
\* What the two violated properties of this module hold under

(***************************************************************************)
(* That a server is gone is passed over in the hold branch alone: a loop   *)
(* that never holds leaves a server in the round that learns it is gone,   *)
(* whatever fails, restarts or is killed (pia-recover.sh:113-119, 134).    *)
(***************************************************************************)
THEOREM GoneIsLeftUnlessHeld == Spec /\ [](loop # "hold") => []GoneIsLeft
<1> USE DEF GoneIsLeft, OK, Failed, Gone
<1>1. Init => GoneIsLeft
  BY DEF Init
<1>2. Inv /\ loop # "hold" /\ GoneIsLeft /\ [Next]_vars => GoneIsLeft'
  <2> SUFFICES ASSUME Inv, loop # "hold", GoneIsLeft, [Next]_vars PROVE GoneIsLeft'
    OBVIOUS
  <2> USE DEF recovery, files, vpn
  <2>1. CASE UNCHANGED <<rc, loop>>
    BY <2>1
  <2>2. CASE SameGone \/ Killed
    BY <2>2 DEF SameGone, Killed
  <2>3. CASE rc' # Gone
    BY <2>3
  <2>4. CASE ProbeUnhealthy \/ Activate \/ ApplySucceeds \/ ApplyFails
    BY <2>4 DEF ProbeUnhealthy, Activate, ApplySucceeds, ApplyFails, EndRound
  <2>5. CASE UNCHANGED vars
    BY <2>5 DEF vars
  <2> QED
    BY <2>1, <2>2, <2>3, <2>4, <2>5
    DEF Next, Entrypoint, Recover, World, Start, BootRegisters, BootFails, BootFinishes,
        GluetunRestarts, ProbeHealthy, SameRegisters, SameFails, RollsTo, RollFails,
        HoldRegisters, HoldFails, Connect, Disconnect, ServerDies, OperatorEdit, Tick
<1> QED
  BY <1>1, <1>2, Invariance, PTL DEF Spec

(***************************************************************************)
(* Without a minimum interval (PIA_MIN_SERVER_CHANGE_INTERVAL=0) no server *)
(* is held, so a server that is gone is always left in that round.         *)
(***************************************************************************)
COROLLARY GoneIsLeftWithoutInterval ==
    ASSUME MinServerChange = 0
    PROVE  Spec => []GoneIsLeft
<1>1. Init => loop # "hold"
  BY DEF Init
<1>2. Inv /\ loop # "hold" /\ [Next]_vars => (loop # "hold")'
  <2> SUFFICES ASSUME Inv, loop # "hold", [Next]_vars PROVE (loop # "hold")'
    OBVIOUS
  <2> USE DEF recovery, files, vpn
  <2>1. CASE ProbeUnhealthy
    <3>1. known >= MinServerChange
      BY DEF Inv, TypeOK
    <3> QED
      BY <2>1, <3>1 DEF ProbeUnhealthy, Branch
  <2>2. CASE loop' \in {"off", "probe", "gone", "activate", "apply"}
    BY <2>2
  <2>3. CASE loop' = loop
    BY <2>3
  <2>4. CASE UNCHANGED vars
    BY <2>4 DEF vars
  <2> QED
    BY <2>1, <2>2, <2>3, <2>4
    DEF Next, Entrypoint, Recover, World, Start, BootRegisters, BootFails, BootFinishes,
        GluetunRestarts, ProbeHealthy, SameRegisters, SameFails, SameGone, RollsTo,
        RollFails, HoldRegisters, HoldFails, Activate, ApplySucceeds, ApplyFails, EndRound,
        Connect, Disconnect, ServerDies, Killed, OperatorEdit, Tick
<1>3. Spec => [](loop # "hold")
  BY <1>1, <1>2, Invariance, PTL DEF Spec
<1> QED
  BY <1>3, GoneIsLeftUnlessHeld, PTL

\* How far the signature on file may lag behind: with the server that the boot, or
\* gluetun, is still to leave.
SignatureKnown ==
    /\ ~cut
    /\ saved \in region \cup {NoServer}
    /\ boot.pin \in {NoServer, boot.old}
    /\ container \in {"off", "registering"} => pf \in {NoServer, saved}
    /\ container = "registering" => boot.old = saved
    /\ container = "registered" => pf \in {NoServer, boot.old}
    /\ container = "up" => pf \in {NoServer, gluetun.cn}

\* A round, or a step of the container, keeps to that.
LEMMA SignatureStaysKnown ==
    ASSUME ~KilledAnywhere, ~OperatorEdits, Inv, SignatureKnown, ~late, ~late', [Next]_vars
    PROVE  SignatureKnown'
<1> USE DEF SignatureKnown, files, recovery, vpn
<1>1. CASE UNCHANGED vars
  BY <1>1 DEF vars
<1>2. CASE Start
  BY <1>2 DEF Start
<1>3. CASE \E s \in Server : BootRegisters(s)
  BY <1>3, RegisterLemma DEF BootRegisters, Candidates
<1>4. CASE \E status \in {Failed, Gone} : BootFails(status)
  <2>1. PICK status \in {Failed, Gone} : BootFails(status)
    BY <1>4
  <2>2. RegisterFails(Candidates(boot.pin))
    <3>1. RegisterErrs(Candidates(boot.pin))
      BY <2>1, Zenon DEF BootFails, RegisterErrs
    <3> QED
      BY <3>1, UncutLemma
  <2>3. boot'.old = boot.old /\ boot'.pin \in {NoServer, boot.pin}
    BY <2>1 DEF BootFails, Inv, TypeOK
  <2>4. /\ container = "registering" /\ container' \in {"registering", "off"}
        /\ UNCHANGED region
    BY <2>1 DEF BootFails
  <2> QED
    BY <2>2, <2>3, <2>4, RegisterFailsLemma DEF clocks
<1>5. CASE BootFinishes
  BY <1>5, RegisteredLemma
  DEF BootFinishes, ExportGluetunEnv, Inv, TypeOK, Phases, Copies, CN
<1>6. CASE GluetunRestarts
  BY <1>6 DEF GluetunRestarts, ExportGluetunEnv, Inv, Phases, Copies
<1>7. CASE ProbeHealthy \/ ProbeUnhealthy
  BY <1>7 DEF ProbeHealthy, ProbeUnhealthy
<1>8. CASE SameRegisters \/ HoldRegisters
  BY <1>8, RegisterLemma DEF SameRegisters, HoldRegisters, Inv, Phases, Copies
<1>9. CASE \E s \in Server : RollsTo(s)
  BY <1>9, RegisterLemma DEF RollsTo, Candidates, Inv, Phases
<1>10. CASE SameFails \/ SameGone \/ RollFails
  <2>1. \E c : RegisterFails(c)
    BY <1>10, UncutLemma DEF SameFails, SameGone, RollFails
  <2> QED
    BY <1>10, <2>1, RegisterFailsLemma DEF SameFails, SameGone, RollFails, Inv, Phases
<1>11. CASE \E status \in {Failed, Gone} : HoldFails(status)
  <2>1. RegisterErrs(Candidates(env.cn))
    BY <1>11, Zenon DEF HoldFails, RegisterErrs
  <2>2. RegisterFails(Candidates(env.cn))
    BY <2>1, UncutLemma
  <2> QED
    BY <1>11, <2>2, RegisterFailsLemma DEF HoldFails, Inv, Phases
<1>12. CASE Activate
  BY <1>12 DEF Activate, Inv, Phases, Copies
<1>13. CASE ApplySucceeds \/ ApplyFails
  BY <1>13, RegisteredLemma DEF ApplySucceeds, ApplyFails, Inv, TypeOK, Phases, Copies
<1>14. CASE Connect
  BY <1>14 DEF Connect, Inv, Phases
<1>15. CASE Killed
  BY <1>15 DEF Killed, BetweenRounds, Inv, Copies
<1>16. CASE Disconnect \/ (\E s \in Server : ServerDies(s)) \/ OperatorEdit \/ Tick
  BY <1>16 DEF Disconnect, ServerDies, OperatorEdit, Tick
<1> QED
  BY <1>1, <1>2, <1>3, <1>4, <1>5, <1>6, <1>7, <1>8, <1>9, <1>10, <1>11, <1>12, <1>13,
     <1>14, <1>15, <1>16 DEF Next, Entrypoint, Recover, World

(***************************************************************************)
(* Where nothing is edited between two boots and nothing killed in the     *)
(* middle of a boot or a round, and no old gluetun comes up in the middle  *)
(* of one, gluetun never runs with a signature of another server: these    *)
(* are the only ways to one (pia-entrypoint.sh:59-67, 104-107,             *)
(* pia-recover.sh:58-60).                                                  *)
(***************************************************************************)
THEOREM SignatureIsRight ==
    ASSUME ~KilledAnywhere, ~OperatorEdits
    PROVE  Spec /\ []~late => []SignatureFollowsServer
<1>1. Init => SignatureKnown
  BY DEF Init, SignatureKnown
<1>2. Inv /\ SignatureKnown /\ ~late /\ ~late' /\ [Next]_vars => SignatureKnown'
  BY SignatureStaysKnown
<1>3. Inv /\ SignatureKnown => SignatureFollowsServer
  BY DEF Inv, Phases, SignatureKnown, SignatureFollowsServer
<1> QED
  BY <1>1, <1>2, <1>3, Invariance, PTL DEF Spec

=============================================================================
