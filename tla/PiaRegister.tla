---------------------------- MODULE PiaRegister -----------------------------
(***************************************************************************)
(* One `pia-wg register` after another (pia-gluetun/pia-wg/main.go,        *)
(* internal/pia, internal/state), step by step: what PiaRecovery takes for *)
(* one atomic step, with the token cache that it leaves out.               *)
(*                                                                         *)
(* PIA keeps one key per account and server, and replaces it as soon as it *)
(* gets the request: before the answer is read, and before anything is     *)
(* saved.  A register may fail or be killed in between.                    *)
(*                                                                         *)
(* Time is counted in ticks of hours.  A register takes three timeouts at  *)
(* most, a minute or two, so that no tick passes while it runs; the clock  *)
(* it reads may be set at any time.                                        *)
(***************************************************************************)
EXTENDS Naturals, FiniteSets

CONSTANTS
    Server,      \* the CNs of the region
    Key,         \* public keys; one is drawn that nobody remembers
    NoServer, NoKey,
    Lifetime,    \* tokenLifetime, in ticks
    Safety,      \* tokenSafetyLimit, in ticks
    MaxUpsets    \* bound: how often something is killed, revoked or set

ASSUME RegisterAssumption ==
    /\ NoServer \notin Server /\ NoKey \notin Key
    /\ IsFiniteSet(Server) /\ IsFiniteSet(Key) /\ Cardinality(Key) > Cardinality(Server) + 1
    /\ Lifetime \in Nat /\ Safety \in Nat /\ Safety < Lifetime
    /\ MaxUpsets \in Nat

VARIABLES
    alive,    \* the servers that answer addKey
    held,     \* the key PIA holds for each server
    saved,    \* state.json: the server and the key of a registration
    cache,    \* token.json: ticks to its expires_at, and what is left of the token
    pc,       \* where the register is
    job,      \* its arguments, then its server, whether its token is good, its key
    exit,     \* the exit status of the last register
    upsets    \* how often something went wrong around it

files == <<saved, cache>>
vars  == <<alive, held, saved, cache, pc, job, exit, upsets>>

Registration   == [cn : Server, key : Key]
Unregistered   == [cn |-> NoServer, key |-> NoKey]
CachedToken    == [readable : BOOLEAN, expires : 0..(Lifetime + 1), life : 0..Lifetime]
\* No token.json, a torn one, an empty one: it does not parse.
Unreadable     == [readable |-> FALSE, expires |-> 0, life |-> 0]

\* --pin-cn, whether --pin-ip comes with it, and --exclude-cn: each is looked at
\* only with or without a pin.
Arguments == {a \in [pin : Server \cup {NoServer}, pinIP : BOOLEAN, exclude : SUBSET Server] :
                IF a.pin = NoServer THEN ~a.pinIP ELSE a.exclude = {}}
Job == [args : Arguments, server : Server \cup {NoServer}, unlisted : BOOLEAN,
        token : BOOLEAN, key : Key \cup {NoKey}]
NoJob == [args |-> [pin |-> NoServer, pinIP |-> FALSE, exclude |-> {}], server |-> NoServer,
          unlisted |-> FALSE, token |-> FALSE, key |-> NoKey]

\* The exit statuses that the callers tell apart.  Error stands for exitUsage and
\* for a killed process too.
Ok == 0
Error == 1
PinnedGone == 3

Init ==
    /\ alive = Server
    /\ held = [s \in Server |-> NoKey]
    /\ saved = Unregistered
    /\ cache = Unreadable
    /\ pc = "idle" /\ job = NoJob
    /\ exit = Error /\ upsets = 0

\* The process ends with a status.
Exits(status) == pc' = "idle" /\ job' = NoJob /\ exit' = status

-----------------------------------------------------------------------------
\* cmdRegister

\* A missing --region, PIA_USER or PIA_PASS, or flags that do not parse.
Refuse ==
    /\ pc = "idle"
    /\ Exits(Error)
    /\ UNCHANGED <<alive, held, files, upsets>>

Begin(args) ==
    /\ pc = "idle"
    /\ pc' = "list"
    /\ job' = [NoJob EXCEPT !.args = args]
    /\ UNCHANGED <<alive, held, files, exit, upsets>>

\* FetchServerList fails, or PickServer finds no such region, no port forwarding
\* or no server in it.
ListFails ==
    /\ pc = "list"
    /\ Exits(Error)
    /\ UNCHANGED <<alive, held, files, upsets>>

\* PickServer: the servers it may answer with, for a sample of the region.
Pick(args, sample) ==
    IF args.pin # NoServer
    THEN IF args.pin \in sample \/ args.pinIP THEN {args.pin} ELSE {}
    ELSE IF sample \ args.exclude # {} THEN sample \ args.exclude ELSE sample

\* The list is a sample of the region's servers.
Choose(sample, s) ==
    /\ pc = "list"
    /\ s \in Pick(job.args, sample)
    /\ pc' = "token"
    /\ job' = [NoJob EXCEPT !.server = s, !.unlisted = s \notin sample]
    /\ UNCHANGED <<alive, held, files, exit, upsets>>

\* ErrPinnedServerGone
PinIsGone(sample) ==
    /\ pc = "list"
    /\ job.args.pin # NoServer /\ Pick(job.args, sample) = {}
    /\ Exits(PinnedGone)
    /\ UNCHANGED <<alive, held, files, upsets>>

\* Mutant: the token's expiry is not looked at.
UsableForEver == cache.readable
\* CachedToken: more than the safety margin is left, by the clock of the host.
Usable == cache.readable /\ cache.expires > Safety

TakeCachedToken ==
    /\ pc = "token" /\ Usable
    /\ pc' = "key"
    /\ job' = [job EXCEPT !.token = cache.life > 0]
    /\ UNCHANGED <<alive, held, files, exit, upsets>>

\* A token is fetched and cached.
GetToken ==
    /\ pc = "token" /\ ~Usable
    /\ cache' = [readable |-> TRUE, expires |-> Lifetime, life |-> Lifetime]
    /\ pc' = "key" /\ job' = [job EXCEPT !.token = TRUE]
    /\ UNCHANGED <<alive, held, saved, exit, upsets>>

\* os.WriteFile truncates token.json before it writes.
Torn == {cache, Unreadable}

\* No token, or none that can be cached.
GetTokenFails ==
    /\ pc = "token" /\ ~Usable
    /\ cache' \in Torn
    /\ Exits(Error)
    /\ UNCHANGED <<alive, held, saved, upsets>>

Remembered == {held[s] : s \in Server} \cup {saved.key}

\* GenerateKeypair: a key that nobody remembers, and any one is as good as another.
FreshKey == CHOOSE k \in Key : k \notin Remembered

GenerateFails ==
    /\ pc = "key"
    /\ Exits(Error)
    /\ UNCHANGED <<alive, held, files, upsets>>

\* PIA takes the key of a valid token, on a server that answers.
Granted == job.server \in alive /\ job.token

\* Mutant: the status of the answer is not looked at.
AddKeyUnchecked ==
    /\ pc = "key" /\ job.server \in alive
    /\ held' = IF job.token THEN [held EXCEPT ![job.server] = FreshKey] ELSE held
    /\ pc' = "save" /\ job' = [job EXCEPT !.token = FALSE, !.key = FreshKey]
    /\ UNCHANGED <<alive, files, exit, upsets>>

AddKey ==
    /\ pc = "key" /\ Granted
    /\ held' = [held EXCEPT ![job.server] = FreshKey]
    /\ pc' = "save" /\ job' = [job EXCEPT !.token = FALSE, !.key = FreshKey]
    /\ UNCHANGED <<alive, files, exit, upsets>>

\* No answer, one that is cut off, or a status other than OK.  An unlisted pin is
\* then taken for gone, whatever the reason.
AddKeyFails ==
    /\ pc = "key"
    /\ \/ UNCHANGED held
       \/ Granted /\ held' = [held EXCEPT ![job.server] = FreshKey]
    /\ Exits(IF job.unlisted THEN PinnedGone ELSE Error)
    /\ UNCHANGED <<alive, files, upsets>>

\* Save: to state.json.tmp, which nobody reads, then over state.json.
Save ==
    /\ pc = "save"
    /\ saved' = [cn |-> job.server, key |-> job.key]
    /\ pc' = "print" /\ job' = NoJob
    /\ UNCHANGED <<alive, held, cache, exit, upsets>>

\* Mutant: state.json is written in place.
SaveFailsInPlace ==
    /\ pc = "save"
    /\ saved' \in {saved, Unregistered}
    /\ Exits(Error)
    /\ UNCHANGED <<alive, held, cache, upsets>>

\* A field does not validate, or the disk is in the way, of either file.
SaveFails ==
    /\ pc = "save"
    /\ Exits(Error)
    /\ UNCHANGED <<alive, held, files, upsets>>

\* What was saved is printed, for the caller to keep.
PrintEnv ==
    /\ pc = "print"
    /\ Exits(Ok)
    /\ UNCHANGED <<alive, held, files, upsets>>

-----------------------------------------------------------------------------
\* The world around it

Upset == upsets < MaxUpsets /\ upsets' = upsets + 1

\* The container dies, in the middle of a write perhaps.
Kill ==
    /\ pc # "idle" /\ Upset
    /\ Exits(Error)
    /\ cache' \in IF pc = "token" /\ ~Usable THEN Torn ELSE {cache}
    /\ UNCHANGED <<alive, held, saved>>

\* PIA takes no token any more that it has issued.
Revoke ==
    /\ Upset
    /\ cache' = [cache EXCEPT !.life = 0]
    /\ job' = [job EXCEPT !.token = FALSE]
    /\ UNCHANGED <<alive, held, saved, pc, exit>>

\* The host's clock is set, forward or back.
SetClock ==
    /\ Upset
    /\ cache.readable
    /\ \E left \in 0..(Lifetime + 1) : cache' = [cache EXCEPT !.expires = left]
    /\ UNCHANGED <<alive, held, saved, pc, job, exit>>

Less(n) == IF n = 0 THEN 0 ELSE n - 1
Tick ==
    /\ pc = "idle"
    /\ cache' = [cache EXCEPT !.expires = Less(@), !.life = Less(@)]
    /\ UNCHANGED <<alive, held, saved, pc, job, exit, upsets>>

\* Not the last one of the region.
ServerDies(s) ==
    /\ s \in alive /\ alive # {s}
    /\ alive' = alive \ {s}
    /\ UNCHANGED <<held, files, pc, job, exit, upsets>>

-----------------------------------------------------------------------------

Chosen == \E sample \in SUBSET Server, s \in Server : Choose(sample, s)

Register ==
    \/ \E args \in Arguments : Begin(args)
    \/ Chosen
    \/ TakeCachedToken \/ GetToken \/ AddKey \/ Save \/ PrintEnv

Fail ==
    \/ Refuse \/ ListFails
    \/ \E sample \in SUBSET Server : PinIsGone(sample)
    \/ GetTokenFails \/ GenerateFails \/ AddKeyFails \/ SaveFails

World ==
    \/ Kill \/ Revoke \/ SetClock \/ Tick
    \/ \E s \in Server : ServerDies(s)

Next == Register \/ Fail \/ World

Spec == Init /\ [][Next]_vars

(***************************************************************************)
(* The scripts call again and again, without a pin too, and time passes.   *)
(* Nothing fails for ever by itself: the lists that are fetched name every *)
(* server some day, and requests to a server that answers, and writes, get *)
(* through some day if they are tried again and again.                     *)
(***************************************************************************)
Fairness ==
    /\ WF_vars(Register \/ Fail)
    /\ SF_vars(Tick)
    /\ SF_vars(\E args \in Arguments : args.pin = NoServer /\ Begin(args))
    /\ SF_vars(job.args.pin = NoServer
                 /\ \E sample \in SUBSET Server, s \in alive : Choose(sample, s))
    /\ SF_vars(job.server \in alive /\ GetToken)
    /\ SF_vars(AddKey) /\ SF_vars(Save)

FairSpec == Spec /\ Fairness

-----------------------------------------------------------------------------
\* Properties

TypeOK ==
    /\ alive \subseteq Server
    /\ held \in [Server -> Key \cup {NoKey}]
    /\ saved \in Registration \cup {Unregistered}
    /\ cache \in CachedToken
    /\ pc \in {"idle", "list", "token", "key", "save", "print"}
    /\ job \in Job
    /\ exit \in {Ok, Error, PinnedGone}
    /\ upsets \in 0..MaxUpsets

(***************************************************************************)
(* A register that exits with 0 leaves a registration that works in        *)
(* state.json: its key is the one PIA holds.  That stays so until a later  *)
(* register asks the same server for another key - and then that one       *)
(* either succeeds or says that it did not.                                *)
(***************************************************************************)
SavedKeyIsHeld ==
    exit = Ok =>
        \/ held[saved.cn] = saved.key
        \/ pc = "save" /\ job.server = saved.cn

\* What AtomicRegister sees: PIA still holds the saved key, or not.
AbstractSaved ==
    [cn    |-> saved.cn,
     valid |-> saved.cn # NoServer /\ held[saved.cn] = saved.key]
AbstractCall ==
    CASE pc = "idle"  -> IF exit = Ok THEN "ok" ELSE "failed"
      [] pc = "print" -> "committed"
      [] OTHER        -> "pending"

Atomic == INSTANCE AtomicRegister WITH saved <- AbstractSaved, call <- AbstractCall

(***************************************************************************)
(* To its callers a register is atomic (main.go:102-240): over any failure *)
(* or kill it either puts a registration in place whose key PIA holds, or  *)
(* leaves the one that was there, whose key is lost only if the new one    *)
(* was asked of the same server.                                           *)
(***************************************************************************)
AtomicSpec == Atomic!Spec

(***************************************************************************)
(* Registers succeed again and again, whatever server died, whatever token *)
(* was left in the cache - revoked, torn, kept too long by a clock that    *)
(* was set back - and whatever was killed.                                 *)
(***************************************************************************)
Resumes == []<>(pc = "print")

=============================================================================
