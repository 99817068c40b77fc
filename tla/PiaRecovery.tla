---------------------------- MODULE PiaRecovery -----------------------------
(***************************************************************************)
(* The PIA WireGuard side-car (pia-gluetun/): the entrypoint registers a   *)
(* key with a PIA server and starts gluetun; the recovery loop probes the  *)
(* tunnel and, after enough unhealthy probes, registers again - with the   *)
(* same server first, with another one later - and makes gluetun use it.   *)
(*                                                                         *)
(* PIA keeps one key per account and server, so a registration with a      *)
(* server makes every earlier one with that server worthless.  A           *)
(* registration is therefore a record [cn, valid] here: the server it is   *)
(* with, and whether PIA still holds its key.                              *)
(*                                                                         *)
(* External: PIA's servers (`alive`, ServerDies), gluetun (`tunnel`,       *)
(* Connect, Disconnect, the signature it writes to piaportforward.json),   *)
(* the container's kills, and the operator's edits between two boots.      *)
(* Time is abstracted once: gluetun restarts within the grace period.      *)
(***************************************************************************)
EXTENDS Naturals, FiniteSets

CONSTANTS
    NoServer,            \* an empty CN
    Regions,             \* each PIA region is the set of its servers
    FailThreshold,       \* PIA_FAIL_THRESHOLD: unhealthy probes before a round
    SameServerAttempts,  \* PIA_SAME_SERVER_ATTEMPTS
    MinServerChange,     \* PIA_MIN_SERVER_CHANGE_INTERVAL, in ticks
    RegisterAttempts,    \* PIA_REGISTER_ATTEMPTS
    \* What else may happen around the scripts:
    LiveServers,         \* how many servers of a region are still alive in the end
    KilledAnywhere,      \* the container dies in the middle of a step, not only between rounds
    OperatorEdits        \* PIA_REGION is changed, or state.json deleted, between two boots

Server == UNION Regions

ASSUME PiaAssumption ==
    /\ NoServer \notin Server
    /\ \A r, q \in Regions : r # q => r \cap q = {}
    /\ FailThreshold \in Nat \ {0}
    /\ SameServerAttempts \in Nat
    /\ MinServerChange \in Nat
    /\ RegisterAttempts \in Nat \ {0}
    /\ LiveServers \in Nat
    /\ {KilledAnywhere, OperatorEdits} \subseteq BOOLEAN

VARIABLES
    alive,      \* the servers that answer addKey and carry traffic
    region,     \* PIA_REGION
    saved,      \* state.json: the CN of the last registration
    age,        \* ticks since state.json's server_changed_at, up to MinServerChange
    since,      \* history: ticks since another server was saved, up to MinServerChange
    cut,        \* history: a round's pia-wg died after its save, and none was activated since
    new,        \* register.env.new: the CN just registered with
    env,        \* register.env
    known,      \* register.env: the age, from its PIA_WG_SERVER_CHANGED_EPOCH
    pf,         \* the server that piaportforward.json's signature is bound to
    container,  \* "off", "registering", "registered", "up" (entrypoint's progress)
    boot,       \* the entrypoint's old_cn, pin_cn and attempt
    loop,       \* where the recovery loop is; its branches are named after it
    fails,      \* recover: consecutive unhealthy probes
    sameFail,   \* recover: rounds spent on the same server
    rc,         \* recover: exit status of the last pia-wg register
    restart,    \* a SIGUSR1 the supervisor has yet to act on
    gluetun,    \* the registration that the running gluetun was given
    tunnel,     \* gluetun's WireGuard tunnel: "down" or "up"
    late        \* history: it came up when register.env named another server already

clocks    == <<age, since, known>>
files     == <<saved, clocks, cut, new, env, pf>>
recovery  == <<loop, fails, sameFail, rc, restart>>
vpn       == <<gluetun, tunnel, late>>
vars      == <<alive, region, saved, age, since, known, cut, new, env, pf, container,
               boot, loop, fails, sameFail, rc, restart, gluetun, tunnel, late>>

CN == Server \cup {NoServer}

Registration == [cn : CN, valid : BOOLEAN]
Unregistered == [cn |-> NoServer, valid |-> FALSE]
Registered(s) == [cn |-> s, valid |-> TRUE]

\* pia-wg's exit statuses: done, failed, the pinned server is gone.
OK == 0
Failed == 1
Gone == 3

\* The container is up and no recovery round is under way.
BetweenRounds == container = "up" /\ loop = "probe" /\ ~restart

\* cmdProbe with PIA_REQUIRE_PORT_FORWARD on: a foreign signature forwards no port.
Healthy == tunnel = "up" /\ pf = gluetun.cn

Init ==
    /\ alive = Server
    /\ region \in Regions
    /\ saved = NoServer /\ new = NoServer
    /\ age = 0 /\ since = 0 /\ known = 0 /\ cut = FALSE
    /\ env = Unregistered /\ pf = NoServer
    /\ container = "off"
    /\ boot = [old |-> NoServer, pin |-> NoServer, attempt |-> 1]
    /\ loop = "off" /\ fails = 0 /\ sameFail = 0 /\ rc = OK /\ restart = FALSE
    /\ gluetun = Unregistered /\ tunnel = "down" /\ late = FALSE

-----------------------------------------------------------------------------
\* pia-wg register

\* addKey: PIA forgets the key of every earlier registration with s.
Outdated(registration, s) ==
    IF registration.cn = s THEN [registration EXCEPT !.valid = FALSE] ELSE registration

AddKey(s) ==
    /\ gluetun' = Outdated(gluetun, s)
    /\ tunnel' = IF gluetun.cn = s THEN "down" ELSE tunnel
    /\ UNCHANGED late

\* A change of the exit server, as it really happens.
Since(s) == since' = IF s = saved THEN since ELSE 0

\* Mutant: every registration counts as a server change.
SaveAnew(s) ==
    /\ saved' = s
    /\ age' = 0
    /\ Since(s)

\* Mutant: the time of the last change is taken over whatever was saved before.
SaveKeepsAge(s) ==
    /\ saved' = s
    /\ UNCHANGED age
    /\ Since(s)

\* state.json takes over the time of the last change if it is the same server's.
Save(s) ==
    /\ saved' = s
    /\ age' = IF s = saved THEN age ELSE 0
    /\ Since(s)

\* A successful register: addKey, state.json, register.env.new.
Register(s) ==
    /\ s \in alive
    /\ AddKey(s)
    /\ Save(s)
    /\ new' = s
    /\ env' = Outdated(env, s)
    /\ UNCHANGED <<known, cut>>

\* A failed register with one of the candidates.  PIA may have replaced the key
\* all the same: addKey's answer is lost, or state.json cannot be written.
RegisterFails(candidates) ==
    /\ \/ UNCHANGED <<vpn, env>>
       \/ \E s \in candidates \cap alive : AddKey(s) /\ env' = Outdated(env, s)
    /\ new' = NoServer
    /\ UNCHANGED <<saved, clocks, cut, pf>>

\* pia-wg is killed once it has saved: its caller hears of a failure.
RegisterCut(candidates) ==
    /\ KilledAnywhere
    /\ \E s \in candidates \cap alive :
         /\ AddKey(s)
         /\ Save(s)
         /\ env' = Outdated(env, s)
         /\ cut' = (container = "up" /\ (cut \/ s # env.cn))
    /\ new' = NoServer
    /\ UNCHANGED <<known, pf>>

\* Any failure but exit status 3.
RegisterErrs(candidates) == RegisterFails(candidates) \/ RegisterCut(candidates)

\* PickServer.  Without a pin any server of the region may come out, also the one
\* to exclude: PIA lists a random sample, which may name nobody else.
Candidates(pin) == IF pin = NoServer THEN region ELSE {pin}

-----------------------------------------------------------------------------
\* pia-entrypoint.sh

\* Choose the pin: the previous server, if it is in this region.
Start ==
    /\ container = "off"
    /\ container' = "registering"
    /\ LET old == IF saved \in region THEN saved ELSE NoServer IN
       boot' = [old |-> old, pin |-> old, attempt |-> 1]
    /\ UNCHANGED <<alive, region, files, recovery, vpn>>

BootRegisters(s) ==
    /\ container = "registering"
    /\ s \in Candidates(boot.pin)
    /\ Register(s)
    /\ container' = "registered"
    /\ UNCHANGED <<alive, region, pf, boot, recovery>>

\* Drop the pin, without counting the attempt; or give up; or try again.
BootFails(status) ==
    /\ container = "registering"
    /\ IF status = Gone
       THEN boot.pin # NoServer /\ RegisterFails(Candidates(boot.pin))
       ELSE RegisterErrs(Candidates(boot.pin))
    /\ IF boot.pin # NoServer /\ (status = Gone \/ boot.attempt >= 2)
       THEN /\ boot' = [boot EXCEPT !.pin = NoServer]
            /\ UNCHANGED container
       ELSE IF boot.attempt >= RegisterAttempts
       THEN /\ container' = "off"
            /\ UNCHANGED boot
       ELSE /\ boot' = [boot EXCEPT !.attempt = @ + 1]
            /\ UNCHANGED container
    /\ UNCHANGED <<alive, region, recovery>>

\* A new gluetun, with the WireGuard settings exported from a registration.
ExportGluetunEnv(registration) ==
    /\ gluetun' = registration
    /\ tunnel' = "down" /\ late' = FALSE

\* register.env, the old signature, then gluetun and the recovery loop.
BootFinishes ==
    /\ container = "registered"
    /\ container' = "up"
    /\ env' = Registered(new) /\ known' = age /\ new' = NoServer
    /\ cut' = FALSE
    /\ pf' = IF boot.old \notin {NoServer, new} THEN NoServer ELSE pf
    /\ ExportGluetunEnv(Registered(new))
    /\ loop' = "probe" /\ fails' = 0 /\ sameFail' = 0 /\ rc' = OK /\ restart' = FALSE
    /\ UNCHANGED <<alive, region, saved, age, since, boot>>

\* on_usr1 and the supervisor: a new gluetun with register.env's settings.
GluetunRestarts ==
    /\ restart
    /\ restart' = FALSE
    /\ ExportGluetunEnv(env)
    /\ UNCHANGED <<alive, region, files, container, boot, loop, fails, sameFail, rc>>

-----------------------------------------------------------------------------
\* pia-recover.sh

EndRound == loop' = "probe" /\ fails' = 0

ProbeHealthy ==
    /\ loop = "probe"
    /\ Healthy
    /\ fails' = 0 /\ sameFail' = 0
    /\ UNCHANGED <<alive, region, files, container, boot, loop, rc, restart, vpn>>

\* Mutant: the minimum interval is not looked at.
BranchImpatient ==
    IF sameFail < SameServerAttempts THEN "same" ELSE "roll"

\* Which branch a round takes.
Branch ==
    IF sameFail < SameServerAttempts THEN "same"
    ELSE IF known >= MinServerChange THEN "roll" ELSE "hold"

\* Also when the control server does not answer for a sound tunnel.  The grace
\* period after a round is taken to be longer than a restart of gluetun.
ProbeUnhealthy ==
    /\ loop = "probe"
    /\ ~restart
    /\ fails' = fails + 1
    /\ loop' = IF fails' >= FailThreshold THEN Branch ELSE "probe"
    /\ UNCHANGED <<alive, region, files, container, boot, sameFail, rc, restart, vpn>>

SameRegisters ==
    /\ loop = "same"
    /\ Register(env.cn)
    /\ sameFail' = sameFail + 1
    /\ loop' = "activate" /\ rc' = OK
    /\ UNCHANGED <<alive, region, pf, container, boot, fails, restart>>

SameFails ==
    /\ loop = "same"
    /\ RegisterErrs(Candidates(env.cn))
    /\ sameFail' = sameFail + 1
    /\ rc' = Failed
    /\ EndRound
    /\ UNCHANGED <<alive, region, container, boot, restart>>

\* Exit status 3: on to another server in this very round.
SameGone ==
    /\ loop = "same"
    /\ sameFail' = SameServerAttempts
    /\ loop' = "gone" /\ rc' = Gone
    /\ RegisterFails(Candidates(env.cn))
    /\ UNCHANGED <<alive, region, container, boot, fails, restart>>

RollsTo(s) ==
    /\ loop \in {"gone", "roll"}
    /\ s \in Candidates(NoServer)
    /\ Register(s)
    /\ sameFail' = 0
    /\ loop' = "activate" /\ rc' = OK
    /\ UNCHANGED <<alive, region, pf, container, boot, fails, restart>>

RollFails ==
    /\ loop \in {"gone", "roll"}
    /\ RegisterErrs(Candidates(NoServer))
    /\ rc' = Failed
    /\ EndRound
    /\ UNCHANGED <<alive, region, container, boot, sameFail, restart>>

HoldRegisters ==
    /\ loop = "hold"
    /\ Register(env.cn)
    /\ loop' = "activate" /\ rc' = OK
    /\ UNCHANGED <<alive, region, pf, container, boot, fails, sameFail, restart>>

\* The hold branch does not tell the exit statuses apart.
HoldFails(status) ==
    /\ loop = "hold"
    /\ IF status = Gone
       THEN RegisterFails(Candidates(env.cn)) ELSE RegisterErrs(Candidates(env.cn))
    /\ rc' = status
    /\ EndRound
    /\ UNCHANGED <<alive, region, container, boot, sameFail, restart>>

\* Mutant: the old signature stays.
ActivateKeepsSignature ==
    /\ loop = "activate"
    /\ env' = Registered(new) /\ known' = age /\ new' = NoServer
    /\ cut' = FALSE
    /\ UNCHANGED pf
    /\ loop' = "apply"
    /\ UNCHANGED <<alive, region, saved, age, since, container, boot, fails, sameFail, rc,
                   restart, vpn>>

\* Mutant: register.env is not replaced.
ActivateKeepsFile ==
    /\ loop = "activate"
    /\ pf' = IF new # env.cn THEN NoServer ELSE pf
    /\ new' = NoServer
    /\ cut' = FALSE
    /\ UNCHANGED <<env, known>>
    /\ loop' = "apply"
    /\ UNCHANGED <<alive, region, saved, age, since, container, boot, fails, sameFail, rc,
                   restart, vpn>>

\* apply_new: drop a foreign signature, then register.env.new becomes register.env.
Activate ==
    /\ loop = "activate"
    /\ pf' = IF new # env.cn THEN NoServer ELSE pf
    /\ env' = Registered(new) /\ known' = age /\ new' = NoServer
    /\ cut' = FALSE
    /\ loop' = "apply"
    /\ UNCHANGED <<alive, region, saved, age, since, container, boot, fails, sameFail, rc,
                   restart, vpn>>

\* PUT /v1/vpn/settings with state.json.
ApplySucceeds ==
    /\ loop = "apply"
    /\ gluetun' = Registered(saved)
    /\ tunnel' = "down" /\ late' = FALSE
    /\ EndRound
    /\ UNCHANGED <<alive, region, files, container, boot, sameFail, rc, restart>>

\* It fails, perhaps after gluetun took it, or the mode is "restart": SIGUSR1.
ApplyFails ==
    /\ loop = "apply"
    /\ \/ UNCHANGED vpn
       \/ gluetun' = Registered(saved) /\ tunnel' = "down" /\ late' = FALSE
    /\ restart' = TRUE
    /\ EndRound
    /\ UNCHANGED <<alive, region, files, container, boot, sameFail, rc>>

-----------------------------------------------------------------------------
\* The world around the scripts

\* gluetun's tunnel comes up; without a signature on file it asks PIA for one.  In
\* the middle of a round this is still the old gluetun.
Connect ==
    /\ tunnel = "down"
    /\ gluetun.valid /\ gluetun.cn \in alive
    /\ tunnel' = "up" /\ late' = (late \/ env.cn # gluetun.cn)
    /\ pf' = IF pf = NoServer THEN gluetun.cn ELSE pf
    /\ UNCHANGED <<alive, region, saved, clocks, cut, new, env, container, boot,
                   recovery, gluetun>>

Disconnect ==
    /\ tunnel = "up"
    /\ tunnel' = "down"
    /\ UNCHANGED <<alive, region, files, container, boot, recovery, gluetun, late>>

\* A server goes for good.
ServerDies(s) ==
    /\ s \in alive
    /\ \A r \in Regions : s \in r => Cardinality(r \cap alive) > LiveServers
    /\ alive' = alive \ {s}
    /\ tunnel' = IF gluetun.cn = s THEN "down" ELSE tunnel
    /\ UNCHANGED <<region, files, container, boot, recovery, gluetun, late>>

\* The container stops: docker stop, gluetun's own exit, a crash of the host.
Killed ==
    /\ container # "off"
    /\ KilledAnywhere \/ BetweenRounds
    /\ container' = "off"
    /\ loop' = "off" /\ restart' = FALSE
    /\ gluetun' = Unregistered /\ tunnel' = "down" /\ late' = FALSE /\ cut' = FALSE
    /\ UNCHANGED <<alive, region, saved, clocks, new, env, pf, boot, fails, sameFail, rc>>

OperatorEdit ==
    /\ OperatorEdits
    /\ container = "off"
    /\ \/ region' \in Regions /\ UNCHANGED saved
       \/ saved' = NoServer /\ UNCHANGED region
    /\ UNCHANGED <<alive, clocks, cut, new, env, pf, container, boot, recovery, vpn>>

Ticked(ticks) == IF ticks < MinServerChange THEN ticks + 1 ELSE ticks

Tick ==
    /\ age' = Ticked(age) /\ since' = Ticked(since) /\ known' = Ticked(known)
    /\ clocks' # clocks
    /\ UNCHANGED <<alive, region, saved, cut, new, env, pf, container, boot, recovery, vpn>>

-----------------------------------------------------------------------------

Entrypoint ==
    \/ Start
    \/ \E s \in Server : BootRegisters(s)
    \/ \E status \in {Failed, Gone} : BootFails(status)
    \/ BootFinishes
    \/ GluetunRestarts

Recover ==
    \/ ProbeHealthy
    \/ ProbeUnhealthy
    \/ SameRegisters
    \/ SameFails
    \/ SameGone
    \/ \E s \in Server : RollsTo(s)
    \/ RollFails
    \/ HoldRegisters
    \/ \E status \in {Failed, Gone} : HoldFails(status)
    \/ Activate
    \/ ApplySucceeds
    \/ ApplyFails

World ==
    \/ Connect
    \/ Disconnect
    \/ \E s \in Server : ServerDies(s)
    \/ Killed
    \/ OperatorEdit
    \/ Tick

Next == Entrypoint \/ Recover \/ World

Spec == Init /\ [][Next]_vars

(***************************************************************************)
(* The scripts run on and time passes.  Of PIA it is only assumed that a   *)
(* registration with a live server, tried again and again, is granted some *)
(* day; of gluetun, that a sound registration, given again and again,      *)
(* comes up some day within its grace period.                              *)
(***************************************************************************)
Fairness ==
    /\ WF_vars(Recover)
    /\ WF_vars(GluetunRestarts)
    /\ WF_vars(Tick)
    /\ SF_vars(SameRegisters)
    /\ SF_vars(\E s \in Server : RollsTo(s))
    /\ SF_vars(\E s \in Server : s # env.cn /\ RollsTo(s))
    /\ SF_vars(BetweenRounds /\ Connect)

FairSpec == Spec /\ Fairness

-----------------------------------------------------------------------------

TypeOK ==
    /\ alive \subseteq Server
    /\ region \in Regions
    /\ {saved, new, pf} \subseteq CN
    /\ {age, since, known} \subseteq 0..MinServerChange
    /\ {env, gluetun} \subseteq Registration
    /\ container \in {"off", "registering", "registered", "up"}
    /\ boot \in [old : CN, pin : CN, attempt : 1..RegisterAttempts]
    /\ loop \in {"off", "probe", "same", "gone", "roll", "hold", "activate", "apply"}
    /\ fails \in 0..FailThreshold
    /\ sameFail \in 0..SameServerAttempts
    /\ rc \in {OK, Failed, Gone}
    /\ restart \in BOOLEAN
    /\ tunnel \in {"down", "up"}
    /\ cut \in BOOLEAN
    /\ late \in BOOLEAN

(***************************************************************************)
(* Between two rounds the three copies of the registration name one        *)
(* server: state.json, register.env (what a restart would use) and what    *)
(* gluetun runs with - whether it was applied, restarted or both.  Only a  *)
(* pia-wg killed after its save leaves state.json ahead of the other two.  *)
(***************************************************************************)
CopiesAgree ==
    BetweenRounds => gluetun.cn = env.cn /\ (env.cn = saved \/ cut)

(***************************************************************************)
(* "Deleted automatically on server change" (pia-gluetun/README.md:129):   *)
(* gluetun never runs with a port-forward signature that is bound to       *)
(* another server.                                                         *)
(***************************************************************************)
SignatureFollowsServer ==
    gluetun.cn # NoServer => pf \in {NoServer, gluetun.cn}

(***************************************************************************)
(* What the scripts do see to (pia-recover.sh:58-60, pia-entrypoint.sh:    *)
(* 104-107): no round makes the signature a foreign one, however its       *)
(* apply, restart and retries fall, and neither does a boot that finds the *)
(* signature of the server it remembers - unless the old gluetun's tunnel  *)
(* comes up, and it writes one, between the rm and the end of that gluetun.*)
(***************************************************************************)
ChangeDropsSignature ==
    [][(\/ container = "up" /\ SignatureFollowsServer
        \/ container = "registered" /\ pf \in {NoServer, boot.old})
       => SignatureFollowsServer' \/ late]_vars

(***************************************************************************)
(* While the container runs, the exit server changes only after the rounds *)
(* on the same server are used up, and once the minimum interval since it  *)
(* last really changed is over or PIA's server is gone - whatever was      *)
(* registered, failed or restarted in between (pia-recover.sh:104-127,     *)
(* main.go:219), and unless a killed pia-wg left its own change behind.    *)
(***************************************************************************)
ServerChangesAreSpaced ==
    [][container = "up" /\ ~cut /\ saved' # saved =>
          /\ sameFail = SameServerAttempts
          /\ loop = "gone" \/ since >= MinServerChange]_vars

(***************************************************************************)
(* "... or immediately if PIA no longer lists the server"                  *)
(* (pia-gluetun/README.md:64-65): a round that learns that the server is   *)
(* gone goes on to another one.                                            *)
(***************************************************************************)
GoneIsLeft == rc = Gone => loop \in {"gone", "off"}

(***************************************************************************)
(* A container that stays up is healthy again and again: a dead server, a  *)
(* lost session, a failed apply and a foreign signature are all left       *)
(* behind in the end, if the old gluetun does not for ever come up in the  *)
(* middle of a server change.                                              *)
(***************************************************************************)
Recovers == <>[](container = "up" /\ ~late) => []<>(BetweenRounds /\ Healthy)

=============================================================================
