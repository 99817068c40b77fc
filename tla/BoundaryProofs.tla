--------------------------- MODULE BoundaryProofs ---------------------------
(***************************************************************************)
(* Boundary's invariants, what exactly its checks let through, and where   *)
(* its sessions come from, for every set of texts, hosts and sessions.     *)
(***************************************************************************)
EXTENDS Boundary, SequenceTheorems, TLAPS

\* The code units of a string, one by one.
LEMMA UnitOfText ==
    ASSUME NEW s \in Seq(CodeUnit)
    PROVE  /\ Len(s) \in Nat /\ DOMAIN s = 1..Len(s)
           /\ \A i \in 1..Len(s) : s[i] \in CodeUnit
BY LenProperties, ElementOfSeq

\* A code unit is a number of at most 16 bits.
LEMMA UnitBounds ==
    ASSUME NEW u \in CodeUnit
    PROVE  u \in Int /\ 0 <= u /\ u <= 65535
BY DEF CodeUnit

\* A surrogate pair is told by its code point, and no other unit has that.
LEMMA PairTellsHigh ==
    ASSUME NEW a \in CodeUnit, NEW b \in CodeUnit, NEW c \in CodeUnit, NEW d \in CodeUnit,
           High(a), Low(b)
    PROVE  /\ 65536 + (a - 55296) * 1024 + (b - 56320) # c
           /\ High(c) /\ Low(d) /\ 65536 + (a - 55296) * 1024 + (b - 56320)
                                     = 65536 + (c - 55296) * 1024 + (d - 56320)
                => a = c
<1>1. /\ a \in Int /\ b \in Int /\ c \in Int /\ d \in Int
      /\ c <= 65535
  BY UnitBounds
<1>4. 55296 <= a /\ 56320 <= b /\ b <= 57343
  BY DEF High, Low
<1>2. 65536 + (a - 55296) * 1024 + (b - 56320) # c
  BY <1>1, <1>4
<1>3. ASSUME High(c), Low(d),
             65536 + (a - 55296) * 1024 + (b - 56320) = 65536 + (c - 55296) * 1024 + (d - 56320)
      PROVE  a = c
  <2>1. 56320 <= d /\ d <= 57343
    BY <1>3 DEF Low
  <2> QED
    BY <1>1, <1>4, <1>3, <2>1
<1> QED
  BY <1>2, <1>3

\* Comparing code points compares the strings: a code point above the basic
\* plane tells the two units of its pair, any other is its unit.
LEMMA CodePointTellsUnit ==
    ASSUME NEW s \in Seq(CodeUnit), NEW t \in Seq(CodeUnit), Len(s) = Len(t),
           NEW i \in 1..Len(s), CodePointAt(s, i) = CodePointAt(t, i)
    PROVE  s[i] = t[i]
<1>1. s[i] \in CodeUnit /\ t[i] \in CodeUnit
  BY UnitOfText
<1>2. ASSUME i < Len(s) PROVE s[i + 1] \in CodeUnit /\ t[i + 1] \in CodeUnit
  <2>1. Len(s) \in Nat
    BY UnitOfText
  <2>2. i + 1 \in 1..Len(s)
    BY <1>2, <2>1
  <2> QED
    BY <2>2, UnitOfText
<1>3. CASE i < Len(s) /\ High(s[i]) /\ Low(s[i + 1])
  <2>1. CASE High(t[i]) /\ Low(t[i + 1])
    <3>1. 65536 + (s[i] - 55296) * 1024 + (s[i + 1] - 56320)
             = 65536 + (t[i] - 55296) * 1024 + (t[i + 1] - 56320)
      BY <1>3, <2>1 DEF CodePointAt
    <3> QED
      BY <1>1, <1>2, <1>3, <2>1, <3>1, PairTellsHigh
  <2>2. CASE ~ (High(t[i]) /\ Low(t[i + 1]))
    <3>1. 65536 + (s[i] - 55296) * 1024 + (s[i + 1] - 56320) = t[i]
      BY <1>3, <2>2 DEF CodePointAt
    <3> QED
      BY <1>1, <1>2, <1>3, <3>1, PairTellsHigh
  <2> QED
    BY <2>1, <2>2
<1>4. CASE ~ (i < Len(s) /\ High(s[i]) /\ Low(s[i + 1]))
  <2>1. CASE i < Len(s) /\ High(t[i]) /\ Low(t[i + 1])
    <3>1. 65536 + (t[i] - 55296) * 1024 + (t[i + 1] - 56320) = s[i]
      BY <1>4, <2>1 DEF CodePointAt
    <3> QED
      BY <1>1, <1>2, <2>1, <3>1, PairTellsHigh
  <2>2. CASE ~ (i < Len(s) /\ High(t[i]) /\ Low(t[i + 1]))
    BY <1>4, <2>2 DEF CodePointAt
  <2> QED
    BY <2>1, <2>2
<1> QED
  BY <1>3, <1>4

\* safeEqual, which ORs the differences of the code points at every index, is
\* equality: for any two strings, lone surrogates included.
THEOREM SafeEqualIsEquality ==
    ASSUME NEW left \in Seq(CodeUnit), NEW right \in Seq(CodeUnit)
    PROVE  SafeEqual(left, right) <=> left = right
<1>1. DOMAIN left = 1..Len(left)
  BY UnitOfText
<1>2. ASSUME SafeEqual(left, right) PROVE left = right
  <2>1. Len(left) = Len(right)
    BY <1>2 DEF SafeEqual
  <2>2. ASSUME NEW i \in 1..Len(left) PROVE left[i] = right[i]
    <3>1. i \in DOMAIN left
      BY <1>1
    <3>2. CodePointAt(left, i) = CodePointAt(right, i)
      BY <1>2, <3>1 DEF SafeEqual
    <3> QED
      BY <2>1, <3>2, CodePointTellsUnit
  <2> QED
    BY <2>1, <2>2, SeqEqual
<1>3. ASSUME left = right PROVE SafeEqual(left, right)
  BY <1>3 DEF SafeEqual
<1> QED
  BY <1>2, <1>3

-----------------------------------------------------------------------------
(***************************************************************************)
(* The invariants.  What is inductive adds how the process holds together: *)
(* only one that runs has sessions or a request at hand, its configuration *)
(* passed both checks of startServer, and sessions take a password.        *)
(***************************************************************************)
Held ==
    /\ status = "running" => Secured(config) /\ ~ (config.optOut /\ HasCredential(config))
    /\ exchange # Idle => status = "running"
    /\ sessions # {} => status = "running" /\ config.password # NoText
    /\ exchange.phase = "acting" /\ exchange.request.route = "login"
         => config.password # NoText

Inv == TypeOK /\ Held /\ NeverNotConfigured /\ Entitled /\ CrossSite

\* A secret that is compared with safeEqual is the one configured.
LEMMA SameText ==
    ASSUME NEW left \in Text, NEW right \in Text
    PROVE  SafeEqual(left, right) <=> left = right
BY SafeEqualIsEquality, BoundaryAssumption

\* A configuration that is not refused has the shape the checks rely on.
LEMMA ConfigType ==
    ASSUME NEW env \in Env, ~ Invalid(env)
    PROVE  BuildConfig(env) \in Config
<1>1. ASSUME NEW source \in Source, source.file # Unreadable
      PROVE  ResolveSecret(source) \in Text \cup {NoText}
  BY <1>1 DEF ResolveSecret, Source
<1>2. /\ env.password \in Source /\ env.token \in Source
      /\ env.password.file # Unreadable /\ env.token.file # Unreadable
  BY DEF Env, Invalid
<1>3. ResolveAllowedHosts(env.hosts) \in AllowedHosts
  <2>1. env.hosts \in Listed(HostLists) /\ ~ EmptyList(env.hosts)
    BY DEF Env, Invalid
  <2>2. CASE env.hosts.type = "unset"
    BY <2>2, BoundaryAssumption
       DEF ResolveAllowedHosts, DefaultAllowedHosts, AllowedHosts
  <2>3. CASE env.hosts.type # "unset"
    <3>1. env.hosts \in [type : {"all"}] \/ env.hosts \in [type : {"allowlist"}, list : HostLists]
      BY <2>1, <2>3 DEF Listed
    <3> QED
      BY <2>1, <2>3, <3>1, BoundaryAssumption
         DEF ResolveAllowedHosts, AllowedHosts, EmptyList
  <2> QED
    BY <2>2, <2>3
<1>4. ResolveAllowedOrigins(env.origins) \in AllowedOrigins
  <2>1. env.origins \in Listed(OriginLists) /\ ~ EmptyList(env.origins)
    BY DEF Env, Invalid
  <2>2. CASE env.origins.type = "unset"
    BY <2>2 DEF ResolveAllowedOrigins, DefaultAllowedOrigins, AllowedOrigins
  <2>3. CASE env.origins.type # "unset"
    <3>1. env.origins \in [type : {"all"}]
            \/ env.origins \in [type : {"allowlist"}, list : OriginLists]
      BY <2>1, <2>3 DEF Listed
    <3> QED
      BY <2>1, <2>3, <3>1, BoundaryAssumption
         DEF ResolveAllowedOrigins, AllowedOrigins, EmptyList
  <2> QED
    BY <2>2, <2>3
<1> QED
  BY <1>1, <1>2, <1>3, <1>4 DEF BuildConfig, Config

\* A request is turned down with one of its own failures.
LEMMA FirstIsOne ==
    ASSUME NEW F, F # {}, F \subseteq {Precedence[i] : i \in DOMAIN Precedence}
    PROVE  FirstOf(F) \in F /\ FirstOf(F) \in Answer
<1> DEFINE First(i) == /\ Precedence[i] \in F
                       /\ \A j \in 1..(i - 1) : Precedence[j] \notin F
<1>1. DOMAIN Precedence = 1..6
  BY DEF Precedence
<1>2. \E i \in 1..6 : First(i)
  <2>1. PICK n \in 1..6 : Precedence[n] \in F
    BY <1>1
  <2>2. 1..5 = {1, 2, 3, 4, 5} /\ 1..4 = {1, 2, 3, 4} /\ 1..3 = {1, 2, 3}
        /\ 1..2 = {1, 2} /\ 1..1 = {1} /\ 1..0 = {} /\ 1..6 = {1, 2, 3, 4, 5, 6}
    OBVIOUS
  <2>3. First(1) \/ Precedence[1] \notin F
    BY <2>2
  <2>4. First(1) \/ First(2) \/ (Precedence[1] \notin F /\ Precedence[2] \notin F)
    BY <2>2, <2>3
  <2>5. First(1) \/ First(2) \/ First(3) \/ (\A j \in 1..3 : Precedence[j] \notin F)
    BY <2>2, <2>4
  <2>6. First(1) \/ First(2) \/ First(3) \/ First(4) \/ (\A j \in 1..4 : Precedence[j] \notin F)
    BY <2>2, <2>5
  <2>7. First(1) \/ First(2) \/ First(3) \/ First(4) \/ First(5)
          \/ (\A j \in 1..5 : Precedence[j] \notin F)
    BY <2>2, <2>6
  <2> QED
    BY <2>1, <2>2, <2>7
<1>3. PICK i \in DOMAIN Precedence :
        i = (CHOOSE k \in DOMAIN Precedence : First(k)) /\ First(i)
  BY <1>1, <1>2
<1> QED
  BY <1>3 DEF FirstOf, Answer

\* The server that has not started satisfies the invariant.
LEMMA InitInv ==
    Init => Inv
<1> SUFFICES ASSUME Init PROVE Inv
  OBVIOUS
<1>1. NoConfig \in Config
  BY BoundaryAssumption DEF NoConfig, Config, DefaultAllowedHosts, DefaultAllowedOrigins,
     AllowedHosts, AllowedOrigins
<1> QED
  BY <1>1 DEF Init, Inv, TypeOK, Held, NeverNotConfigured, Entitled, CrossSite, Reached,
          Idle, Exchange

\* The kinds of exchange are told apart by their phase.
LEMMA PhaseOf ==
    /\ Idle.phase = "idle" /\ Idle \in Exchange
    /\ \A a \in Answer : /\ Answered(a) \in Exchange /\ Answered(a).phase = "answered"
                          /\ Answered(a).answer = a
    /\ \A r : Acting(r).phase = "acting" /\ Acting(r).request = r
    /\ \A r \in Request, a \in Answer :
          /\ Handled(r, a) \in Exchange /\ Handled(r, a).phase = "handled"
          /\ Handled(r, a).request = r /\ Handled(r, a).live = HasSession(r)
<1>1. \A r : HasSession(r) \in BOOLEAN
  BY DEF HasSession
<1> QED
  BY <1>1 DEF Idle, Answered, Acting, Handled, Exchange

\* An exchange that was just answered, or is not under way, entitles nobody.
LEMMA NothingActs ==
    ASSUME exchange'.phase \notin {"acting", "handled"}
    PROVE  Entitled' /\ CrossSite'
BY DEF Entitled, CrossSite, Reached

\* A start resets the sessions and the exchange, so nothing of the old
\* configuration is left to violate it.
LEMMA StartInv ==
    ASSUME Inv, status = "off", NEW env \in Env, Start(env)
    PROVE  Inv'
<1>1. exchange = Idle /\ exchange' = Idle /\ sessions = {} /\ sessions' = {}
  BY DEF Inv, Held, Start
<1>2. TypeOK'
  BY ConfigType DEF Start, Inv, TypeOK
<1>3. status' = "running" => ~ Invalid(env) /\ Secured(BuildConfig(env)) /\ config' = BuildConfig(env)
  BY DEF Start
<1>4. Held'
  <2>1. ~ Invalid(env) => ~ (BuildConfig(env).optOut /\ HasCredential(BuildConfig(env)))
    BY DEF Invalid, BuildConfig
  <2> QED
    BY <1>1, <1>3, <2>1, PhaseOf DEF Held
<1> QED
  BY <1>1, <1>2, <1>4, PhaseOf, NothingActs DEF Inv, NeverNotConfigured

\* A stop keeps it: a server that is down holds no session.
LEMMA StopInv ==
    ASSUME Inv, Stop
    PROVE  Inv'
<1>1. NoConfig \in Config
  BY BoundaryAssumption DEF NoConfig, Config, DefaultAllowedHosts, DefaultAllowedOrigins,
     AllowedHosts, AllowedOrigins
<1>2. TypeOK'
  BY <1>1, PhaseOf DEF Stop, Inv, TypeOK
<1>3. Held' /\ NeverNotConfigured'
  BY PhaseOf DEF Stop, Held, NeverNotConfigured
<1>4. exchange'.phase \notin {"acting", "handled"}
  BY PhaseOf DEF Stop
<1> QED
  BY <1>2, <1>3, <1>4, NothingActs DEF Inv

\* Where a credential or the opt-out is configured, the failure is another one.
LEMMA RejectInv ==
    ASSUME Inv, status = "running", NEW r \in Request, Reject(r)
    PROVE  Inv'
<1> DEFINE f == FirstOf(Failures(r))
<1>1. Failures(r) \subseteq {Precedence[i] : i \in DOMAIN Precedence}
  BY DEF Failures, Precedence
<1>2. f \in Failures(r) /\ f \in Answer
  BY <1>1, FirstIsOne DEF Reject
<1>3. f # "not-configured"
  <2>1. AuthMethod(r) # "not-configured"
    BY DEF Inv, Held, Secured, AuthMethod, Authenticate
  <2> QED
    BY <1>2, <2>1 DEF Failures
<1> HIDE DEF f
<1>4. /\ exchange' = Answered(f)
      /\ UNCHANGED <<status, config, sessions, used>>
  BY DEF Reject, f
<1>5. TypeOK'
  BY <1>2, <1>4, PhaseOf DEF Inv, TypeOK
<1>6. Held'
  BY <1>2, <1>4, PhaseOf DEF Inv, Held, Secured, HasCredential
<1> QED
  BY <1>2, <1>3, <1>4, <1>5, <1>6, PhaseOf, NothingActs DEF Inv, NeverNotConfigured

\* An answer that is given without a handler that waits, or at its end.
LEMMA AnsweredInv ==
    ASSUME Inv, status = "running", NEW a \in Answer, a # "not-configured",
           exchange' = Answered(a), UNCHANGED <<status, config>>,
           sessions' \subseteq used', used' \subseteq SessionId,
           sessions' # {} => config.password # NoText
    PROVE  Inv'
<1>1. TypeOK'
  BY PhaseOf DEF Inv, TypeOK
<1>2. Held'
  BY PhaseOf DEF Inv, Held, Secured, HasCredential
<1> QED
  BY <1>1, <1>2, PhaseOf, NothingActs DEF Inv, NeverNotConfigured

\* The routes' checks, spelled out.
LEMMA StackLemma ==
    ASSUME NEW r \in Request
    PROVE  /\ Checked(r, "host") <=> r.route # "health"
           /\ Checked(r, "auth") <=> r.route \in {"updates", "state", "cookie", "events"}
           /\ Checked(r, "origin") <=> r.route \notin {"state", "health"}
           /\ Checked(r, "json") <=> r.route \in {"login", "cookie"}
<1>1. r.route \in {"login", "logout", "updates", "state", "cookie", "health", "events"}
  BY DEF Request
<1> QED
  BY <1>1 DEF Checked, Stack

\* What the checks let through is entitled to it, and not by a page that the
\* configuration does not allow.
LEMMA PassedLemma ==
    ASSUME Inv, status = "running", NEW r \in Request, Failures(r) = {}
    PROVE  /\ AuthMethod(r) \in {"unset", "none", "session", "token"}
           /\ r.route \in {"updates", "state", "cookie", "events"} =>
                 \/ config.optOut /\ ~ HasCredential(config)
                 \/ config.token # NoText /\ r.bearer = config.token
                 \/ config.password # NoText /\ HasSession(r)
           /\ r.route \in {"login", "logout", "updates", "cookie", "events"} /\ ~ CheckOrigin(r) =>
                 /\ r.route \notin {"login", "logout"}
                 /\ config.token # NoText /\ r.bearer = config.token
                 /\ ~ HasSession(r)
<1>1. AuthMethod(r) \notin {"required", "not-configured"}
  BY DEF Failures
<1>2. AuthMethod(r) \in {"unset", "none", "session", "token"}
  BY <1>1 DEF AuthMethod, Authenticate
<1>3. HasToken(r) => config.token # NoText /\ r.bearer = config.token
  BY SameText DEF Inv, TypeOK, Config, HasToken, Request
<1>4. HasSession(r) => config.password # NoText
  BY DEF HasSession, Inv, Held
<1>5. ASSUME r.route \in {"updates", "state", "cookie", "events"}
      PROVE  \/ config.optOut /\ ~ HasCredential(config)
             \/ config.token # NoText /\ r.bearer = config.token
             \/ config.password # NoText /\ HasSession(r)
  <2>1. Checked(r, "auth")
    BY <1>5, StackLemma
  <2> QED
    BY <1>1, <1>3, <1>4, <2>1 DEF AuthMethod, Authenticate
<1>6. ASSUME r.route \in {"login", "logout", "updates", "cookie", "events"}, ~ CheckOrigin(r)
      PROVE  /\ r.route \notin {"login", "logout"}
             /\ config.token # NoText /\ r.bearer = config.token
             /\ ~ HasSession(r)
  <2>1. Checked(r, "origin")
    BY <1>6, StackLemma
  <2>2. AuthMethod(r) = "token"
    BY <1>6, <2>1 DEF Failures
  <2>3. Checked(r, "auth") /\ HasToken(r) /\ ~ HasSession(r)
    BY <2>2 DEF AuthMethod, Authenticate
  <2>4. r.route \notin {"login", "logout"}
    BY <2>3, StackLemma
  <2> QED
    BY <1>3, <2>3, <2>4
<1> QED
  BY <1>2, <1>5, <1>6

\* A request that is let through to a handler, to wait there or to be answered
\* at once, keeps what the checks established.
LEMMA ReachedInv ==
    ASSUME Inv, status = "running", NEW r \in Request, Failures(r) = {},
           exchange'.request = r, exchange'.live = HasSession(r), UNCHANGED config
    PROVE  Entitled' /\ CrossSite'
<1>1. Entitled'
  BY PassedLemma DEF Entitled, HasCredential
<1>2. CheckOrigin(r)' = CheckOrigin(r)
  BY DEF CheckOrigin
<1>3. CrossSite'
  BY <1>2, PassedLemma DEF CrossSite
<1> QED
  BY <1>1, <1>3

\* The step that matters: what is let through to a handler that waits.
LEMMA AcceptInv ==
    ASSUME Inv, status = "running", NEW r \in Request, Accept(r)
    PROVE  Inv'
<1>1. /\ exchange' = Acting(r) /\ Failures(r) = {}
      /\ UNCHANGED <<status, config, sessions, used>>
      /\ ~ (r.route = "login" /\ config.password = NoText)
  BY DEF Accept
<1>2. TypeOK'
  <2>1. AuthMethod(r) \in {"unset", "none", "session", "token"}
    BY <1>1, PassedLemma
  <2>2. HasSession(r) \in BOOLEAN
    BY DEF HasSession
  <2>3. Acting(r) \in Exchange
    BY <2>1, <2>2 DEF Acting, Exchange
  <2> QED
    BY <1>1, <2>3 DEF Inv, TypeOK
<1>3. Held'
  BY <1>1, PhaseOf DEF Inv, Held, Secured, HasCredential
<1>4. Acting(r).live = HasSession(r)
  BY DEF Acting
<1>5. Entitled' /\ CrossSite'
  BY <1>1, <1>4, PhaseOf, ReachedInv
<1> QED
  BY <1>1, <1>2, <1>3, <1>5, PhaseOf DEF Inv, NeverNotConfigured

\* And to one that answers at once: POST /logout, or POST /login where there is
\* no password.
LEMMA HandledInv ==
    ASSUME Inv, status = "running", NEW r \in Request, Failures(r) = {},
           NEW a \in Answer, exchange' = Handled(r, a),
           sessions' \subseteq sessions, UNCHANGED <<status, config, used>>
    PROVE  Inv'
<1>1. /\ exchange' \in Exchange /\ exchange'.phase = "handled"
      /\ exchange'.request = r /\ exchange'.live = HasSession(r)
  BY PhaseOf
<1>2. TypeOK'
  BY <1>1 DEF Inv, TypeOK
<1>3. Held'
  BY <1>1 DEF Inv, Held, Secured, HasCredential
<1>4. Entitled' /\ CrossSite'
  BY <1>1, ReachedInv
<1> QED
  BY <1>1, <1>2, <1>3, <1>4 DEF Inv, NeverNotConfigured

\* Nothing but sessions changes, and they only become fewer.
LEMMA ExpireInv ==
    ASSUME Inv, NEW id \in SessionId, Expire(id)
    PROVE  Inv'
<1>1. TypeOK' /\ Held'
  BY DEF Inv, TypeOK, Held, Expire, Secured, HasCredential
<1>2. Entitled' /\ NeverNotConfigured'
  BY DEF Inv, Entitled, Reached, NeverNotConfigured, Expire, HasCredential
<1>3. CrossSite'
  <2>1. CheckOrigin(exchange.request)' = CheckOrigin(exchange.request)
    BY DEF Expire, CheckOrigin
  <2> QED
    BY <2>1 DEF Inv, CrossSite, Reached, Expire
<1> QED
  BY <1>1, <1>2, <1>3 DEF Inv

\* The end of a handler keeps it.
LEMMA RespondInv ==
    ASSUME Inv, Respond
    PROVE  Inv'
<1>1. TypeOK' /\ Held'
  BY PhaseOf DEF Inv, TypeOK, Held, Respond, Secured, HasCredential
<1>2. exchange'.phase \notin {"acting", "handled"} /\ NeverNotConfigured'
  BY PhaseOf DEF Respond, NeverNotConfigured
<1> QED
  BY <1>1, <1>2, NothingActs DEF Inv

\* Every step keeps the invariant: one case per action.
LEMMA NextInv ==
    Inv /\ [Next]_vars => Inv'
<1> SUFFICES ASSUME Inv, [Next]_vars PROVE Inv'
  OBVIOUS
<1>1. ASSUME status = "off", NEW env \in Env, Start(env) PROVE Inv'
  BY <1>1, StartInv
<1>2. CASE Stop
  BY <1>2, StopInv
<1>3. ASSUME status = "running", NEW r \in Request,
             Reject(r) \/ Logout(r) \/ RefuseLogin(r) \/ Accept(r)
      PROVE  Inv'
  <2>1. CASE Logout(r)
    BY <1>3, <2>1, HandledInv DEF Logout, Answer
  <2>2. CASE RefuseLogin(r)
    BY <1>3, <2>2, HandledInv DEF RefuseLogin, Answer
  <2> QED
    BY <1>3, <2>1, <2>2, RejectInv, AcceptInv
<1>4. ASSUME NEW id \in SessionId, Login(id) PROVE Inv'
  <2>1. exchange # Idle /\ status = "running" /\ config.password # NoText
    BY <1>4, PhaseOf DEF Login, Inv, Held
  <2> QED
    BY <1>4, <2>1, AnsweredInv DEF Login, Answer, Inv, TypeOK, Held
<1>5. ASSUME NEW id \in SessionId, Expire(id) PROVE Inv'
  BY <1>5, ExpireInv
<1>6. CASE FailLogin
  <2>1. exchange # Idle /\ status = "running"
    BY <1>6, PhaseOf DEF FailLogin, Inv, Held
  <2> QED
    BY <1>6, <2>1, AnsweredInv DEF FailLogin, Answer, Inv, TypeOK, Held
<1>7. CASE Finish
  <2>1. exchange # Idle /\ status = "running"
    BY <1>7, PhaseOf DEF Finish, Inv, Held
  <2>2. exchange' = Answered("ok") \/ exchange' = Answered("bad-request")
    BY <1>7 DEF Finish
  <2> QED
    BY <1>7, <2>1, <2>2, AnsweredInv DEF Finish, Answer, Inv, TypeOK, Held
<1>8. CASE Respond
  BY <1>8, RespondInv
<1>9. CASE UNCHANGED vars
  <2>1. CheckOrigin(exchange.request)' = CheckOrigin(exchange.request)
    BY <1>9 DEF vars, CheckOrigin
  <2> QED
    BY <1>9, <2>1 DEF vars, Inv, TypeOK, Held, NeverNotConfigured, Entitled, CrossSite,
       Reached, Secured, HasCredential
<1> QED
  BY <1>1, <1>2, <1>3, <1>4, <1>5, <1>6, <1>7, <1>8, <1>9 DEF Next

\* Whatever is configured, restarted and presented, all of it holds.
THEOREM BoundarySafe == Spec => []Inv
BY InitInv, NextInv, PTL DEF Spec

\* A running server's configuration is usable, and its types are right.
THEOREM BoundaryTypeOK == Spec => []TypeOK
<1>1. Inv => TypeOK
  BY DEF Inv
<1> QED
  BY <1>1, BoundarySafe, PTL

\* "auth-not-configured" is a failure nobody is ever sent.
THEOREM BoundaryNeverNotConfigured == Spec => []NeverNotConfigured
<1>1. Inv => NeverNotConfigured
  BY DEF Inv
<1> QED
  BY <1>1, BoundarySafe, PTL

\* A protected handler runs only for the opt-out, the token or a live session.
THEOREM BoundaryEntitled == Spec => []Entitled
<1>1. Inv => Entitled
  BY DEF Inv
<1> QED
  BY <1>1, BoundarySafe, PTL

\* A page that is not allowed neither logs in nor out, and reaches the routes that
\* contact MAM, replace the cookie or open a stream only with the token itself.
THEOREM BoundaryCrossSite == Spec => []CrossSite
<1>1. Inv => CrossSite
  BY DEF Inv
<1> QED
  BY <1>1, BoundarySafe, PTL

-----------------------------------------------------------------------------
\* The checks as one rule

\* The requests that are to reach their handler, as one rule that knows nothing of
\* the order in which the middleware looks at them.
Permitted(r) ==
    /\ ~ r.large
    /\ r.route = "health" \/ CheckHost(r)
    /\ r.route \in {"updates", "state", "cookie", "events"} =>
          \/ config.optOut
          \/ r.cookie \in sessions
          \/ config.token # NoText /\ r.bearer = config.token
    /\ r.route \notin {"state", "health"} =>
          \/ CheckOrigin(r)
          \/ /\ r.route \notin {"login", "logout"}
             /\ config.token # NoText /\ r.bearer = config.token
             /\ r.cookie \notin sessions
    /\ r.route \in {"login", "cookie"} => r.json

\* A request has no failure when each check lets it pass.
LEMMA NoFailure ==
    ASSUME NEW r \in Request
    PROVE  Failures(r) = {} <=>
             /\ ~ r.large
             /\ Checked(r, "host") => CheckHost(r)
             /\ AuthMethod(r) \notin {"not-configured", "required"}
             /\ Checked(r, "origin") => AuthMethod(r) = "token" \/ CheckOrigin(r)
             /\ Checked(r, "json") => r.json
BY DEF Failures

(***************************************************************************)
(* A request reaches its handler exactly if Permitted says so: no check    *)
(* turns away what another was to let through, and no order of the checks  *)
(* opens a gap between them.  In particular the token alone opens every    *)
(* protected route to scripts, whatever Origin they send, but a live       *)
(* session that comes with it brings the check of the origin back          *)
(* (http-boundary.ts:67-164, app.ts:45-119).                               *)
(***************************************************************************)
THEOREM AccessIsExact ==
    Spec => [](status = "running" => \A r \in Request : Failures(r) = {} <=> Permitted(r))
<1>1. ASSUME Inv, status = "running", NEW r \in Request
      PROVE  Failures(r) = {} <=> Permitted(r)
  <2>1. HasToken(r) <=> config.token # NoText /\ r.bearer = config.token
    BY <1>1, SameText DEF Inv, TypeOK, Config, HasToken, Request
  <2>2. /\ HasSession(r) <=> r.cookie \in sessions
        /\ HasSession(r) => config.password # NoText
    BY <1>1 DEF HasSession, Inv, Held
  <2>3. config.optOut <=> ~ HasCredential(config)
    BY <1>1 DEF Inv, Held, Secured
  <2>4. Checked(r, "auth") =>
          /\ AuthMethod(r) \notin {"not-configured", "required"}
               <=> config.optOut \/ HasSession(r) \/ HasToken(r)
          /\ AuthMethod(r) = "token" <=> HasToken(r) /\ ~ HasSession(r)
    BY <2>1, <2>2, <2>3 DEF AuthMethod, Authenticate, HasCredential
  <2>5. ~ Checked(r, "auth") => AuthMethod(r) = "unset"
    BY DEF AuthMethod
  <2>6. Failures(r) = {} <=>
          /\ ~ r.large
          /\ Checked(r, "host") => CheckHost(r)
          /\ Checked(r, "auth") => config.optOut \/ HasSession(r) \/ HasToken(r)
          /\ Checked(r, "origin") =>
                CheckOrigin(r) \/ (Checked(r, "auth") /\ HasToken(r) /\ ~ HasSession(r))
          /\ Checked(r, "json") => r.json
    BY <2>4, <2>5, NoFailure
  <2>7. r.route \notin {"state", "health"} =>
          (r.route \in {"updates", "state", "cookie", "events"} <=> r.route \notin {"login", "logout"})
    BY DEF Request
  <2> QED
    BY <2>1, <2>2, <2>6, <2>7, StackLemma DEF Permitted
<1>2. Inv => (status = "running" => \A r \in Request : Failures(r) = {} <=> Permitted(r))
  BY <1>1
<1> QED
  BY <1>2, BoundarySafe, PTL

-----------------------------------------------------------------------------
\* Where sessions come from

(***************************************************************************)
(* A session is opened only by a login that presented the password, code   *)
(* unit for code unit, that the running process is configured with, and    *)
(* under an id that was never drawn before (handlers/login.ts:52-56).      *)
(***************************************************************************)
OnlyThePassword ==
    [][ \A id \in sessions' \ sessions :
          /\ id \notin used
          /\ exchange.phase = "acting" /\ exchange.request.route = "login"
          /\ config.password # NoText /\ exchange.request.body = config.password ]_vars

\* No session comes into being but by a login with the password of the
\* configuration that is then running (the handler of POST /login).
THEOREM SessionsTakeThePassword == Spec => OnlyThePassword
<1> DEFINE Step == \A id \in sessions' \ sessions :
                     /\ id \notin used
                     /\ exchange.phase = "acting" /\ exchange.request.route = "login"
                     /\ config.password # NoText /\ exchange.request.body = config.password
<1>1. OnlyThePassword <=> [][Step]_vars
  BY PTL DEF OnlyThePassword
<1>2. Inv /\ [Next]_vars => [Step]_vars
  <2> SUFFICES ASSUME Inv, Next PROVE Step
    OBVIOUS
  <2>1. ASSUME NEW id \in SessionId, Login(id) PROVE Step
    <3>1. /\ exchange.phase = "acting" /\ exchange.request.route = "login"
          /\ exchange.request.body # Malformed
          /\ SafeEqual(exchange.request.body, config.password)
          /\ id \notin used /\ sessions' = sessions \cup {id}
      BY <2>1 DEF Login
    <3>2. exchange # Idle /\ exchange.phase # "answered"
      BY <3>1, PhaseOf
    <3>3. exchange.request \in Request
      BY <3>1, <3>2 DEF Inv, TypeOK, Exchange
    <3>4. exchange.request.body \in Text /\ config.password \in Text
      BY <3>1, <3>3 DEF Inv, TypeOK, Held, Request, Config
    <3> QED
      BY <3>1, <3>4, SameText, BoundaryAssumption DEF Inv, Held
  <2>2. ASSUME sessions' \subseteq sessions PROVE Step
    BY <2>2
  <2> QED
    BY <2>1, <2>2
    DEF Next, Start, Stop, Reject, Logout, RefuseLogin, Accept, Expire, FailLogin, Finish, Respond
<1> HIDE DEF Step
<1> QED
  BY <1>1, <1>2, BoundarySafe, PTL DEF Spec

\* The session store as a request sees it: ids that were drawn, those of them that
\* are live, and - streams being left out here - nothing open.
Store == INSTANCE AtomicSessions WITH
    Session   <- SessionId,
    Presented <- SessionId \cup {NoSession},
    Stream    <- {},
    live      <- sessions,
    used      <- used,
    open      <- {}

\* Each step of the server creates a session, ends one, restarts, or leaves
\* the abstract store as it is.
LEMMA StoreStep ==
    Inv /\ [Next]_vars => [Store!Next]_Store!vars
<1> SUFFICES ASSUME Inv, Next PROVE Store!Next \/ UNCHANGED Store!vars
  BY DEF vars, Store!vars
<1>1. ASSUME NEW id \in SessionId, Login(id) PROVE Store!Next
  BY <1>1 DEF Login, Store!Login, Store!Next
<1>2. ASSUME sessions' \subseteq sessions, UNCHANGED used PROVE Store!Next
  <2>1. sessions \ sessions' \in SUBSET sessions /\ sessions' = sessions \ (sessions \ sessions')
    BY <1>2
  <2>2. Store!End(sessions \ sessions')
    BY <1>2, <2>1 DEF Store!End, Store!Without
  <2> QED
    BY <2>1, <2>2 DEF Store!Next
<1> QED
  BY <1>1, <1>2
  DEF Next, Start, Stop, Reject, Logout, RefuseLogin, Accept, Expire, FailLogin, Finish, Respond

(***************************************************************************)
(* What Boundary takes for granted of sessions is what Sessions keeps: its *)
(* logins, logouts, expiries and restarts are those of AtomicSessions, the *)
(* abstraction that the session store implements (session.ts:44-69).       *)
(***************************************************************************)
THEOREM SessionsAsPromised == Spec => Store!Spec
<1>1. Init => Store!Init
  BY DEF Init, Store!Init
<1>2. Spec => [][Store!Next]_Store!vars
  BY BoundarySafe, StoreStep, PTL DEF Spec
<1> QED
  BY <1>1, <1>2, PTL DEF Spec, Store!Spec

=============================================================================
