------------------------- MODULE PiaRegisterProofs --------------------------
(***************************************************************************)
(* PiaRegister's invariants, for any region, keys and token lifetime.      *)
(***************************************************************************)
EXTENDS PiaRegister, FiniteSetTheorems, TLAPS

\* A register that has chosen a server knows it, and one that saves has a key.
JobIsSound ==
    /\ pc \in {"token", "key", "save"} => job.server \in Server
    /\ pc = "save" => job.key \in Key

\* PIA still holds what is about to be saved, or what just was.
GrantIsHeld ==
    /\ pc = "save"  => held[job.server] = job.key
    /\ pc = "print" => saved \in Registration /\ held[saved.cn] = saved.key

\* What was reported as saved names a server.
ReportIsSound == exit = Ok => saved \in Registration

Inv == TypeOK /\ JobIsSound /\ GrantIsHeld /\ ReportIsSound /\ SavedKeyIsHeld

\* More keys than PIA and state.json can remember: one is always fresh.
LEMMA FreshKeyExists ==
    ASSUME TypeOK
    PROVE  FreshKey \in Key /\ FreshKey \notin Remembered
<1> DEFINE T == {held[s] : s \in Server}
<1>1. IsFiniteSet(T) /\ Cardinality(T) <= Cardinality(Server)
  <2>1. held \in Surjection(Server, T)
    BY DEF TypeOK, Surjection
  <2> QED
    BY <2>1, FS_Surjection, RegisterAssumption
<1>2. /\ IsFiniteSet(Remembered)
      /\ Cardinality(Remembered) <= Cardinality(T) + 1
      /\ Cardinality(T) \in Nat /\ Cardinality(Server) \in Nat
      /\ Cardinality(Remembered) \in Nat /\ Cardinality(Key) \in Nat
  <2>1. Remembered = T \cup {saved.key}
    BY DEF Remembered
  <2>2. IsFiniteSet(Remembered)
    BY <1>1, <2>1, FS_AddElement
  <2>3. /\ Cardinality(T) \in Nat /\ Cardinality(Server) \in Nat
        /\ Cardinality(Remembered) \in Nat /\ Cardinality(Key) \in Nat
    BY <1>1, <2>2, FS_CardinalityType, RegisterAssumption
  <2>4. Cardinality(Remembered) = IF saved.key \in T THEN Cardinality(T) ELSE Cardinality(T) + 1
    BY <1>1, <2>1, FS_AddElement
  <2> QED
    BY <2>2, <2>3, <2>4
<1>3. \E k \in Key : k \notin Remembered
  <2>1. SUFFICES ASSUME Key \subseteq Remembered PROVE FALSE
    OBVIOUS
  <2>2. Cardinality(Key) <= Cardinality(Remembered)
    BY <1>2, <2>1, FS_Subset
  <2>3. Cardinality(Key) > Cardinality(Server) + 1
    BY RegisterAssumption
  <2> QED
    BY <1>1, <1>2, <2>2, <2>3
<1> QED
  BY <1>3 DEF FreshKey

\* A register that has not begun is a job too.
LEMMA NoJobIsAJob == NoJob \in Job
BY DEF NoJob, Job, Arguments

\* The steps that change neither what PIA holds nor state.json, and after which
\* the register is neither about to save nor to print.
LEMMA QuietStep ==
    ASSUME Inv, TypeOK', UNCHANGED <<held, saved>>,
           pc' \in {"idle", "list", "token", "key"},
           pc' \in {"token", "key"} => job'.server \in Server,
           exit' = exit \/ exit' # Ok,
           pc = "save" => exit' # Ok
    PROVE  Inv'
BY DEF Inv, TypeOK, JobIsSound, GrantIsHeld, ReportIsSound, SavedKeyIsHeld

\* Nothing is held, saved or reported at first.
LEMMA Initially == Init => Inv
BY NoJobIsAJob, RegisterAssumption
   DEF Init, Inv, TypeOK, JobIsSound, GrantIsHeld, ReportIsSound, SavedKeyIsHeld,
       Unregistered, Unreadable, CachedToken, Ok, Error

\* The steps around a register that leave it where it is.
LEMMA WorldStep ==
    ASSUME Inv, TypeOK', UNCHANGED <<held, saved, pc, exit>>,
           job'.server = job.server, job'.key = job.key
    PROVE  Inv'
BY DEF Inv, TypeOK, JobIsSound, GrantIsHeld, ReportIsSound, SavedKeyIsHeld

\* Every step keeps the types.
LEMMA TypesAreKept ==
    ASSUME Inv, [Next]_vars
    PROVE  TypeOK'
<1> USE RegisterAssumption, NoJobIsAJob DEF Inv, TypeOK, files
<1>1. CASE Refuse
  BY <1>1 DEF Refuse, Exits, Error
<1>2. CASE \E args \in Arguments : Begin(args)
  <2>1. PICK args \in Arguments : Begin(args)
    BY <1>2
  <2>2. job' \in Job
    BY <2>1 DEF Begin, Job, NoJob
  <2> QED
    BY <2>1, <2>2 DEF Begin
<1>3. CASE ListFails
  BY <1>3 DEF ListFails, Exits, Error
<1>4. CASE Chosen
  <2>1. PICK sample \in SUBSET Server, s \in Server : Choose(sample, s)
    BY <1>4 DEF Chosen
  <2>2. job' \in Job
    BY <2>1 DEF Choose, Job, NoJob
  <2> QED
    BY <2>1, <2>2 DEF Choose
<1>5. CASE \E sample \in SUBSET Server : PinIsGone(sample)
  BY <1>5 DEF PinIsGone, Exits, PinnedGone
<1>6. CASE TakeCachedToken
  <2>1. \A b \in BOOLEAN : [job EXCEPT !.token = b] \in Job
    <3>1. [job EXCEPT !.token = TRUE] \in Job /\ [job EXCEPT !.token = FALSE] \in Job
      BY DEF Job
    <3> QED
      BY <3>1, Zenon
  <2>2. (cache.life > 0) \in BOOLEAN
    BY SMT
  <2>3. job' \in Job
    BY <1>6, <2>1, <2>2, Zenon DEF TakeCachedToken
  <2> QED
    BY <1>6, <2>3 DEF TakeCachedToken
<1>7. CASE GetToken
  <2>1. job' \in Job
    BY <1>7 DEF GetToken, Job
  <2>2. cache' \in CachedToken
    BY <1>7 DEF GetToken, CachedToken
  <2> QED
    BY <1>7, <2>1, <2>2 DEF GetToken
<1>a. Unreadable \in CachedToken
  BY DEF Unreadable, CachedToken
<1>8. CASE GetTokenFails
  <2>1. cache' \in CachedToken
    BY <1>8, <1>a DEF GetTokenFails, Torn
  <2> QED
    BY <1>8, <2>1 DEF GetTokenFails, Exits, Error
<1>9. CASE GenerateFails
  BY <1>9 DEF GenerateFails, Exits, Error
<1>10. FreshKey \in Key
  BY FreshKeyExists
<1>11. CASE AddKey
  <2>1. job' \in Job
    BY <1>11, <1>10 DEF AddKey, Job
  <2> QED
    BY <1>11, <1>10, <2>1 DEF AddKey
<1>12. CASE AddKeyFails
  <2>1. held' \in [Server -> Key \cup {NoKey}]
    BY <1>12, <1>10 DEF AddKeyFails
  <2> QED
    BY <1>12, <2>1 DEF AddKeyFails, Exits, Error, PinnedGone
<1>13. CASE Save
  BY <1>13 DEF Save, JobIsSound, Registration
<1>14. CASE SaveFails
  BY <1>14 DEF SaveFails, Exits, Error
<1>15. CASE PrintEnv
  BY <1>15 DEF PrintEnv, Exits, Ok
<1>16. CASE Kill
  <2>1. cache' \in CachedToken
    BY <1>16, <1>a DEF Kill, Torn
  <2> QED
    BY <1>16, <2>1 DEF Kill, Exits, Error, Upset
<1>17. CASE Revoke
  <2>1. job' \in Job
    BY <1>17 DEF Revoke, Job
  <2>2. cache' \in CachedToken
    BY <1>17 DEF Revoke, CachedToken
  <2> QED
    BY <1>17, <2>1, <2>2 DEF Revoke, Upset
<1>18. CASE SetClock
  <2>1. cache' \in CachedToken
    BY <1>18 DEF SetClock, CachedToken
  <2> QED
    BY <1>18, <2>1 DEF SetClock, Upset
<1>19. CASE Tick
  <2>1. /\ \A n \in 0..(Lifetime + 1) : Less(n) \in 0..(Lifetime + 1)
        /\ \A n \in 0..Lifetime : Less(n) \in 0..Lifetime
    BY DEF Less
  <2>2. cache' \in CachedToken
    BY <1>19, <2>1 DEF Tick, CachedToken
  <2> QED
    BY <1>19, <2>2 DEF Tick
<1>20. CASE \E s \in Server : ServerDies(s)
  BY <1>20 DEF ServerDies
<1>21. CASE UNCHANGED vars
  BY <1>21 DEF vars
<1> QED
  BY <1>1, <1>2, <1>3, <1>4, <1>5, <1>6, <1>7, <1>8, <1>9, <1>11, <1>12, <1>13, <1>14, <1>15,
     <1>16, <1>17, <1>18, <1>19, <1>20, <1>21 DEF Next, Register, Fail, World

\* Inv is inductive.
LEMMA Inductive ==
    ASSUME Inv, [Next]_vars
    PROVE  Inv'
<1>0. TypeOK'
  BY TypesAreKept
<1> USE DEF files, Ok, Error, PinnedGone
<1>1. CASE Refuse \/ ListFails \/ GenerateFails \/ SaveFails \/ GetTokenFails
           \/ (\E sample \in SUBSET Server : PinIsGone(sample))
  BY <1>0, <1>1, QuietStep
     DEF Refuse, ListFails, GenerateFails, SaveFails, GetTokenFails, PinIsGone, Exits
<1>2. CASE \E args \in Arguments : Begin(args)
  BY <1>0, <1>2, QuietStep DEF Begin
<1>3. CASE Chosen
  <2>1. PICK sample \in SUBSET Server, s \in Server : Choose(sample, s)
    BY <1>3 DEF Chosen
  <2>2. job'.server \in Server
    BY <2>1 DEF Choose, NoJob
  <2> QED
    BY <1>0, <2>1, <2>2, QuietStep DEF Choose
<1>4. CASE TakeCachedToken \/ GetToken
  <2>1. job'.server = job.server
    BY <1>4 DEF TakeCachedToken, GetToken, Inv, TypeOK, Job
  <2>2. job'.server \in Server
    BY <1>4, <2>1 DEF TakeCachedToken, GetToken, Inv, JobIsSound
  <2> QED
    BY <1>0, <1>4, <2>2, QuietStep DEF TakeCachedToken, GetToken
<1>5. CASE AddKey
  <2>1. /\ job'.server = job.server /\ job'.key = FreshKey /\ FreshKey \in Key
        /\ job.server \in Server
    BY <1>5, FreshKeyExists DEF AddKey, Inv, TypeOK, Job, JobIsSound
  <2>2. /\ held'[job.server] = FreshKey
        /\ \A s \in Server \ {job.server} : held'[s] = held[s]
    BY <1>5, <2>1 DEF AddKey, Inv, TypeOK
  <2>3. JobIsSound' /\ GrantIsHeld' /\ ReportIsSound'
    BY <1>5, <2>1, <2>2 DEF AddKey, Inv, JobIsSound, GrantIsHeld, ReportIsSound
  <2>4. SavedKeyIsHeld'
    BY <1>5, <2>1, <2>2 DEF AddKey, Inv, ReportIsSound, Registration, SavedKeyIsHeld
  <2> QED
    BY <1>0, <2>3, <2>4 DEF Inv
<1>6. CASE AddKeyFails
  BY <1>0, <1>6 DEF AddKeyFails, Exits, Inv, JobIsSound, GrantIsHeld, ReportIsSound, SavedKeyIsHeld
<1>7. CASE Save
  <2>1. saved' \in Registration /\ saved'.cn = job.server /\ saved'.key = job.key
    BY <1>7 DEF Save, Inv, JobIsSound, Registration
  <2>2. held'[saved'.cn] = saved'.key
    BY <1>7, <2>1 DEF Save, Inv, GrantIsHeld
  <2> QED
    BY <1>0, <1>7, <2>1, <2>2
       DEF Save, Inv, JobIsSound, GrantIsHeld, ReportIsSound, SavedKeyIsHeld
<1>8. CASE PrintEnv
  BY <1>0, <1>8 DEF PrintEnv, Exits, Inv, JobIsSound, GrantIsHeld, ReportIsSound, SavedKeyIsHeld
<1>9. CASE Kill
  BY <1>0, <1>9, QuietStep DEF Kill, Exits
<1>10. CASE Revoke
  <2>1. job'.server = job.server /\ job'.key = job.key
    BY <1>10 DEF Revoke, Inv, TypeOK, Job
  <2> QED
    BY <1>0, <1>10, <2>1, WorldStep DEF Revoke
<1>11. CASE SetClock \/ Tick \/ (\E s \in Server : ServerDies(s))
  BY <1>0, <1>11, WorldStep DEF SetClock, Tick, ServerDies
<1>12. CASE UNCHANGED vars
  BY <1>0, <1>12, WorldStep DEF vars
<1> QED
  BY <1>1, <1>2, <1>3, <1>4, <1>5, <1>6, <1>7, <1>8, <1>9, <1>10, <1>11, <1>12
     DEF Next, Register, Fail, World

(***************************************************************************)
(* What a register reported as saved is the key that PIA holds, for any    *)
(* region and any token lifetime, through every failure, kill, revoked     *)
(* token and set clock; and every variable keeps its type.                 *)
(***************************************************************************)
THEOREM RegisterIsSafe == Spec => [](TypeOK /\ SavedKeyIsHeld)
<1>1. Inv => TypeOK /\ SavedKeyIsHeld
  BY DEF Inv
<1> QED
  BY Initially, Inductive, <1>1, PTL DEF Spec

-----------------------------------------------------------------------------
\* The refinement

\* A step after which PIA holds the same keys, and state.json is the same, is one
\* that AtomicRegister sees nothing of, or sees only in `call`.
LEMMA SavedIsKept ==
    ASSUME UNCHANGED <<held, saved>>
    PROVE  AbstractSaved' = AbstractSaved
BY DEF AbstractSaved

\* PIA's new key for a server outdates what is saved for that server, no other.
LEMMA ReplacedKey ==
    ASSUME Inv, job.server \in Server, UNCHANGED saved,
           held' = [held EXCEPT ![job.server] = FreshKey]
    PROVE  AbstractSaved' = Atomic!Outdated(AbstractSaved, job.server)
<1>1. FreshKey # saved.key
  BY FreshKeyExists DEF Inv, Remembered
<1>2. CASE saved.cn = job.server
  <2>1. held'[saved.cn] # saved.key
    BY <1>1, <1>2 DEF Inv, TypeOK
  <2> QED
    BY <1>2, <2>1 DEF AbstractSaved, Atomic!Outdated
<1>3. CASE saved.cn # job.server
  <2>1. saved.cn # NoServer => held'[saved.cn] = held[saved.cn]
    BY <1>3 DEF Inv, TypeOK, Registration, Unregistered
  <2> QED
    BY <1>3, <2>1 DEF AbstractSaved, Atomic!Outdated
<1> QED
  BY <1>2, <1>3

\* An initial state maps to an initial state.
LEMMA RefineInit == Init => Atomic!Init
<1> SUFFICES ASSUME Init PROVE Atomic!Init
  OBVIOUS
<1>1. saved.cn = NoServer
  BY DEF Init, Unregistered
<1>2. AbstractSaved = [cn |-> NoServer, valid |-> FALSE]
  BY <1>1, Zenon DEF AbstractSaved
<1>3. AbstractCall = "failed"
  BY DEF Init, AbstractCall, Ok, Error
<1> QED
  BY <1>2, <1>3 DEF Atomic!Init, Atomic!Unregistered

\* Every step maps to a step of AtomicRegister or to a stutter.
LEMMA RefineNext == Inv /\ [Next]_vars => [Atomic!Next]_(Atomic!vars)
<1> SUFFICES ASSUME Inv, [Next]_vars PROVE [Atomic!Next]_(Atomic!vars)
  OBVIOUS
<1> USE DEF files, Ok, Error, PinnedGone
<1>1. CASE Refuse \/ ListFails \/ GenerateFails \/ SaveFails \/ GetTokenFails \/ Kill
           \/ (\E sample \in SUBSET Server : PinIsGone(sample))
  <2>1. UNCHANGED <<held, saved>> /\ pc' = "idle" /\ exit' # Ok
    BY <1>1 DEF Refuse, ListFails, GenerateFails, SaveFails, GetTokenFails, Kill, PinIsGone, Exits
  <2>2. Atomic!Fail
    BY <2>1, SavedIsKept DEF Atomic!Fail, AbstractCall
  <2> QED
    BY <2>2 DEF Atomic!Next
<1>2. CASE \E args \in Arguments : Begin(args)
  <2>1. pc = "idle" /\ pc' = "list" /\ UNCHANGED <<held, saved>>
    BY <1>2 DEF Begin
  <2>2. Atomic!Begin
    BY <2>1, SavedIsKept DEF Atomic!Begin, Atomic!Ended, AbstractCall
  <2> QED
    BY <2>2 DEF Atomic!Next
<1>3. CASE Chosen \/ TakeCachedToken \/ GetToken
  <2>1. pc \in {"list", "token"} /\ pc' \in {"token", "key"} /\ UNCHANGED <<held, saved>>
    BY <1>3 DEF Chosen, Choose, TakeCachedToken, GetToken
  <2>2. AbstractCall' = AbstractCall
    BY <2>1 DEF AbstractCall
  <2> QED
    BY <2>1, <2>2, SavedIsKept DEF Atomic!vars
<1>4. CASE AddKey
  <2>1. job.server \in Server
    BY <1>4 DEF AddKey, Inv, JobIsSound
  <2>2. AbstractSaved' = Atomic!Outdated(AbstractSaved, job.server)
    BY <1>4, <2>1, ReplacedKey DEF AddKey
  <2>3. AbstractCall = "pending" /\ AbstractCall' = "pending"
    BY <1>4 DEF AddKey, AbstractCall
  <2>4. Atomic!Replace(job.server)
    BY <2>2, <2>3 DEF Atomic!Replace
  <2> QED
    BY <2>1, <2>4 DEF Atomic!Next
<1>5. CASE AddKeyFails
  <2>1. job.server \in Server
    BY <1>5 DEF AddKeyFails, Inv, JobIsSound
  <2>2. \/ AbstractSaved' = AbstractSaved
        \/ AbstractSaved' = Atomic!Outdated(AbstractSaved, job.server)
    BY <1>5, <2>1, ReplacedKey, SavedIsKept DEF AddKeyFails
  <2>3. AbstractCall = "pending" /\ AbstractCall' = "failed"
    BY <1>5 DEF AddKeyFails, Exits, AbstractCall
  <2>4. Atomic!Fail
    BY <2>1, <2>2, <2>3 DEF Atomic!Fail
  <2> QED
    BY <2>4 DEF Atomic!Next
<1>6. CASE Save
  <2>1. job.server \in Server /\ held[job.server] = job.key
    BY <1>6 DEF Save, Inv, JobIsSound, GrantIsHeld
  <2>2. saved'.cn = job.server /\ saved'.key = job.key /\ held' = held
    BY <1>6 DEF Save
  <2>3. AbstractSaved' = Atomic!Registered(job.server)
    BY <2>1, <2>2, RegisterAssumption DEF AbstractSaved, Atomic!Registered
  <2>4. AbstractCall = "pending" /\ AbstractCall' = "committed"
    BY <1>6 DEF Save, AbstractCall
  <2>5. Atomic!Commit(job.server)
    BY <2>3, <2>4 DEF Atomic!Commit
  <2> QED
    BY <2>1, <2>5 DEF Atomic!Next
<1>7. CASE PrintEnv
  <2>1. pc = "print" /\ pc' = "idle" /\ exit' = Ok /\ UNCHANGED <<held, saved>>
    BY <1>7 DEF PrintEnv, Exits
  <2>2. Atomic!Reply
    BY <2>1, SavedIsKept DEF Atomic!Reply, AbstractCall
  <2> QED
    BY <2>2 DEF Atomic!Next
<1>8. CASE Revoke \/ SetClock \/ Tick \/ (\E s \in Server : ServerDies(s)) \/ UNCHANGED vars
  <2>1. UNCHANGED <<held, saved, pc, exit>>
    BY <1>8 DEF Revoke, SetClock, Tick, ServerDies, vars
  <2>2. AbstractCall' = AbstractCall
    BY <2>1 DEF AbstractCall
  <2> QED
    BY <2>1, <2>2, SavedIsKept DEF Atomic!vars
<1> QED
  BY <1>1, <1>2, <1>3, <1>4, <1>5, <1>6, <1>7, <1>8 DEF Next, Register, Fail, World

(***************************************************************************)
(* pia-wg register, step by step, implements the atomic register that the  *)
(* recovery loop counts on (main.go:102-240).                              *)
(***************************************************************************)
THEOREM Refinement == Spec => AtomicSpec
<1>1. Spec => []Inv
  BY Initially, Inductive, PTL DEF Spec
<1> QED
  BY <1>1, RefineInit, RefineNext, PTL DEF Spec, AtomicSpec, Atomic!Spec

=============================================================================
