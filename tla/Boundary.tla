------------------------------ MODULE Boundary ------------------------------
(***************************************************************************)
(* Who may ask the server for what: the configuration it starts with       *)
(* (src/backend/config.ts, server.ts), the checks in front of every route  *)
(* (http-boundary.ts, app.ts) and the login (handlers/login.ts).           *)
(*                                                                         *)
(* The checks of a request and the synchronous head of its handler are one *)
(* step, there being nothing to wait for in between.  A handler that waits *)
(* (for the request's body, the state file or MAM) ends in a later step;   *)
(* sessions may end, and the process may be restarted under another        *)
(* configuration, before it does.  How sessions end is Sessions' subject;  *)
(* what the handlers do once they act is ContactState's and Contact's.     *)
(***************************************************************************)
EXTENDS Integers, Sequences

CONSTANTS
    Text,          \* the passwords and tokens, each a sequence of UTF-16 code units
    NoText,        \* none configured, none presented
    Unset,         \* a variable that is not set
    Unreadable,    \* a file that cannot be read
    Malformed,     \* a request body that is not what the route expects
    SessionId,     \* the ids the session store may draw
    NoSession,     \* a request without a session cookie
    Name,          \* host names
    Port,          \* explicit ports
    NoPort,        \* a host without a port, or with its scheme's own
    BadHost,       \* a Host header, or a rule, that is not a host
    NoOrigin,      \* no Origin header
    OpaqueOrigin,  \* an Origin that is not a URL, such as "null"
    DefaultHosts,  \* DEFAULT_ALLOWED_HOSTS
    HostLists,     \* the allowlists MOUSEHOLE_ALLOWED_HOSTS may name
    OriginLists    \* the allowlists MOUSEHOLE_ALLOWED_ORIGINS may name

CodeUnit == 0..65535

\* The ports that `new URL` leaves out.
DefaultPort == [http |-> 80, https |-> 443]

Host   == [name : Name, port : Port \cup {NoPort}] \cup {BadHost}
Origin == [scheme : {"http", "https"}, name : Name, port : Port \cup {NoPort}]
              \cup {NoOrigin, OpaqueOrigin}

ASSUME BoundaryAssumption ==
    /\ Text \subseteq Seq(CodeUnit) \ {<<>>}
    /\ {NoText, Malformed, Unset, Unreadable} \cap Text = {}
    /\ Unset # NoText /\ Unreadable \notin {NoText, Unset}
    /\ NoSession \notin SessionId
    /\ Port \subseteq Nat /\ NoPort \notin Nat
    /\ BadHost \notin [name : Name, port : Port \cup {NoPort}]
    /\ {NoOrigin, OpaqueOrigin} \cap
          [scheme : {"http", "https"}, name : Name, port : Port \cup {NoPort}] = {}
    /\ NoOrigin # OpaqueOrigin
    /\ HostLists \subseteq SUBSET Host /\ DefaultHosts \in (SUBSET Host) \ {{}}
    /\ OriginLists \subseteq SUBSET (Origin \ {NoOrigin})

VARIABLES
    status,    \* the process: "off", "running", "refused" (it would not start)
    config,    \* the configuration it resolved
    sessions,  \* the ids of the live sessions, kept in memory only
    used,      \* the ids ever drawn
    exchange   \* the request at hand: see Exchange

vars == <<status, config, sessions, used, exchange>>

-----------------------------------------------------------------------------
\* config.ts: the environment and what is made of it

\* NAME and NAME_FILE of a secret.
Source == [plain : Text \cup {NoText},
           file  : Text \cup {NoText, Unset, Unreadable}]

\* A variable that holds a list: not set, the wildcard "*", or what it names.
Listed(lists) == [type : {"unset", "all"}] \cup [type : {"allowlist"}, list : lists]

Env == [password : Source, token : Source, flag : {"unset", "true", "false", "other"},
        hosts : Listed(HostLists), origins : Listed(OriginLists)]

AllowedHosts   == [type : {"all"}] \cup [type : {"allowlist"}, list : (SUBSET Host) \ {{}}]
AllowedOrigins == [type : {"same-origin", "all"}]
                      \cup [type : {"allowlist"}, list : (SUBSET Origin) \ {{}}]

Config == [password : Text \cup {NoText}, token : Text \cup {NoText}, optOut : BOOLEAN,
           hosts : AllowedHosts, origins : AllowedOrigins]

DefaultAllowedHosts   == [type |-> "allowlist", list |-> DefaultHosts]
DefaultAllowedOrigins == [type |-> "same-origin"]

NoConfig == [password |-> NoText, token |-> NoText, optOut |-> FALSE,
             hosts |-> DefaultAllowedHosts, origins |-> DefaultAllowedOrigins]

\* resolveSecret: the file wins over the plain variable, even when it is empty.
ResolveSecret(source) == IF source.file = Unset THEN source.plain ELSE source.file

ResolveAllowedHosts(hosts) == IF hosts.type = "unset" THEN DefaultAllowedHosts ELSE hosts
ResolveAllowedOrigins(origins) ==
    IF origins.type = "unset" THEN DefaultAllowedOrigins ELSE origins
EmptyList(value) == value.type = "allowlist" /\ value.list = {}

BuildConfig(env) ==
    [password |-> ResolveSecret(env.password), token |-> ResolveSecret(env.token),
     optOut |-> env.flag = "true",
     hosts |-> ResolveAllowedHosts(env.hosts), origins |-> ResolveAllowedOrigins(env.origins)]

HasCredential(c) == c.password # NoText \/ c.token # NoText

\* buildConfig throws.
Invalid(env) ==
    \/ Unreadable \in {env.password.file, env.token.file}
    \/ env.flag = "other"
    \/ env.flag = "true" /\ HasCredential(BuildConfig(env))
    \/ EmptyList(env.hosts) \/ EmptyList(env.origins)

\* Mutant: the server runs without credentials.
AnyConfig(c) == TRUE

\* validateRuntimeSecurityConfig
Secured(c) == HasCredential(c) \/ c.optOut

-----------------------------------------------------------------------------
\* http-boundary.ts: the checks

Request == [route  : {"login", "logout", "updates", "state", "cookie", "health", "events"},
            large  : BOOLEAN, json : BOOLEAN,
            host   : Host, origin : Origin,
            cookie : SessionId \cup {NoSession}, bearer : Text \cup {NoText},
            body   : Text \cup {Malformed}]

\* new URL(...), where the port of the scheme disappears.
DropPort(port, scheme) == IF port = DefaultPort[scheme] THEN NoPort ELSE port

ParseHostAndPort(host) == [host EXCEPT !.port = DropPort(@, "http")]
NormalizeOrigin(origin) ==
    IF origin \in {NoOrigin, OpaqueOrigin} THEN origin
    ELSE [origin EXCEPT !.port = DropPort(@, origin.scheme)]

\* A rule without a port takes any port.
HostMatchesRule(host, rule) ==
    host.name = rule.name /\ rule.port \in {NoPort, host.port}

CheckHost(r) ==
    \/ config.hosts.type = "all"
    \/ /\ r.host # BadHost
       /\ \E rule \in config.hosts.list \ {BadHost} :
             HostMatchesRule(ParseHostAndPort(r.host), ParseHostAndPort(rule))

\* The origin of request.url, which is made of the Host header.
UrlOrigin(host) == [scheme |-> "http", name |-> host.name, port |-> ParseHostAndPort(host).port]

CheckOrigin(r) ==
    \/ config.origins.type = "all"
    \/ r.origin = NoOrigin
    \/ /\ config.origins.type = "same-origin" /\ r.host # BadHost
       /\ NormalizeOrigin(r.origin) = UrlOrigin(r.host)
    \/ /\ config.origins.type = "allowlist"
       /\ NormalizeOrigin(r.origin) \in {NormalizeOrigin(o) : o \in config.origins.list}

\* String.prototype.codePointAt: a surrogate pair counts as one code point.
High(unit) == 55296 <= unit /\ unit <= 56319
Low(unit)  == 56320 <= unit /\ unit <= 57343
CodePointAt(s, i) ==
    IF High(s[i]) /\ i < Len(s) /\ Low(s[i + 1])
    THEN 65536 + (s[i] - 55296) * 1024 + (s[i + 1] - 56320)
    ELSE s[i]

\* Mutant: the lengths are not compared.
SafeEqualPrefix(left, right) ==
    \A i \in DOMAIN left : i \in DOMAIN right /\ left[i] = right[i]

\* The or of the xors is 0 when every pair of code points is equal.
SafeEqual(left, right) ==
    /\ Len(left) = Len(right)
    /\ \A i \in DOMAIN left : CodePointAt(left, i) = CodePointAt(right, i)

HasSession(r) == r.cookie \in sessions
HasToken(r) ==
    config.token # NoText /\ r.bearer # NoText /\ SafeEqual(r.bearer, config.token)

\* Mutant: the token is looked at before the session.
AuthenticateTokenFirst(r) ==
    IF ~HasCredential(config) THEN (IF config.optOut THEN "none" ELSE "not-configured")
    ELSE IF HasToken(r) THEN "token"
    ELSE IF HasSession(r) THEN "session"
    ELSE "required"

\* checkAuthentication: the method, or the failure.
Authenticate(r) ==
    IF ~HasCredential(config) THEN (IF config.optOut THEN "none" ELSE "not-configured")
    ELSE IF HasSession(r) THEN "session"
    ELSE IF HasToken(r) THEN "token"
    ELSE "required"

-----------------------------------------------------------------------------
\* app.ts: the routes

\* Mutant: POST /logout is not checked for its origin.
StackLogoutOpen ==
         [login |-> {"host", "origin", "json"}, logout |-> {"host"},
          updates |-> {"host", "auth", "origin"}, state |-> {"host", "auth"},
          cookie |-> {"host", "auth", "origin", "json"},
          events |-> {"host", "auth", "origin"}, health |-> {}]

\* The checks of each route; a request's answer is that of the first to fail.
Stack == [login |-> {"host", "origin", "json"}, logout |-> {"host", "origin"},
          updates |-> {"host", "auth", "origin"}, state |-> {"host", "auth"},
          cookie |-> {"host", "auth", "origin", "json"},
          events |-> {"host", "auth", "origin"}, health |-> {}]

Checked(r, check) == check \in Stack[r.route]

\* c.get("authMethod"), which only requireAuth sets.
AuthMethod(r) == IF Checked(r, "auth") THEN Authenticate(r) ELSE "unset"

Failures(r) ==
    {f \in {"payload-too-large"} : r.large}
    \cup {f \in {"host-not-allowed"} : Checked(r, "host") /\ ~CheckHost(r)}
    \cup {f \in {"not-configured", "required"} : AuthMethod(r) = f}
    \cup {f \in {"origin-not-allowed"} :
             Checked(r, "origin") /\ AuthMethod(r) # "token" /\ ~CheckOrigin(r)}
    \cup {f \in {"unsupported-media-type"} : Checked(r, "json") /\ ~r.json}

Precedence == <<"payload-too-large", "host-not-allowed", "not-configured", "required",
                "origin-not-allowed", "unsupported-media-type">>
FirstOf(failures) ==
    Precedence[CHOOSE i \in DOMAIN Precedence :
                  Precedence[i] \in failures
                  /\ \A j \in 1..(i - 1) : Precedence[j] \notin failures]

Answer == {Precedence[i] : i \in DOMAIN Precedence}
              \cup {"ok", "bad-request", "wrong-password", "login-unavailable"}

Idle == [phase |-> "idle"]
Answered(answer) == [phase |-> "answered", answer |-> answer]
Acting(r) == [phase |-> "acting", request |-> r, method |-> AuthMethod(r),
              live |-> HasSession(r)]
Handled(r, answer) == [phase |-> "handled", answer |-> answer, request |-> r,
                       live |-> HasSession(r)]

\* Between requests; answered; let through to a handler that waits: how it was
\* authenticated, and (history) whether its cookie was that of a live session
\* then; or let through to one that answered at once (history: to which request).
Exchange ==
    {Idle} \cup [phase : {"answered"}, answer : Answer]
    \cup [phase : {"acting"}, request : Request,
          method : {"unset", "none", "session", "token"}, live : BOOLEAN]
    \cup [phase : {"handled"}, answer : Answer, request : Request, live : BOOLEAN]

Init ==
    /\ status = "off" /\ config = NoConfig
    /\ sessions = {} /\ used = {} /\ exchange = Idle

\* startServer, by a process that has just begun.
Start(env) ==
    /\ IF Invalid(env) \/ ~Secured(BuildConfig(env))
       THEN status' = "refused" /\ UNCHANGED config
       ELSE status' = "running" /\ config' = BuildConfig(env)
    /\ UNCHANGED <<sessions, used, exchange>>

\* The process ends, and with it all that it kept in memory.
Stop ==
    /\ status # "off" /\ status' = "off"
    /\ config' = NoConfig /\ sessions' = {} /\ exchange' = Idle
    /\ UNCHANGED used

\* A request comes in when the one before it is answered.  It is answered by
\* one of the checks...
Reject(r) ==
    /\ Failures(r) # {}
    /\ exchange' = Answered(FirstOf(Failures(r)))
    /\ UNCHANGED <<status, config, sessions, used>>

\* ... by POST /logout, which asks for no authentication ...
Logout(r) ==
    /\ Failures(r) = {}
    /\ r.route = "logout"
    /\ sessions' = sessions \ {r.cookie}
    /\ exchange' = Handled(r, "ok")
    /\ UNCHANGED <<status, config, used>>

\* ... by POST /login where there is no password ...
RefuseLogin(r) ==
    /\ Failures(r) = {}
    /\ r.route = "login" /\ config.password = NoText
    /\ exchange' = Handled(r, "login-unavailable")
    /\ UNCHANGED <<status, config, sessions, used>>

\* ... or let through to a handler that waits.
Accept(r) ==
    /\ Failures(r) = {}
    /\ r.route # "logout"
    /\ ~(r.route = "login" /\ config.password = NoText)
    /\ exchange' = Acting(r)
    /\ UNCHANGED <<status, config, sessions, used>>

\* handlePostLogin has the body.
Login(id) ==
    /\ exchange.phase = "acting" /\ exchange.request.route = "login"
    /\ exchange.request.body # Malformed
    /\ SafeEqual(exchange.request.body, config.password)
    /\ id \notin used /\ used' = used \cup {id}
    /\ sessions' = sessions \cup {id}
    /\ exchange' = Answered("ok")
    /\ UNCHANGED <<status, config>>

FailLogin ==
    /\ exchange.phase = "acting" /\ exchange.request.route = "login"
    /\ \/ /\ exchange.request.body = Malformed
          /\ exchange' = Answered("bad-request")
       \/ /\ exchange.request.body # Malformed
          /\ ~SafeEqual(exchange.request.body, config.password)
          /\ exchange' = Answered("wrong-password")
    /\ UNCHANGED <<status, config, sessions, used>>

\* Any other handler is done.
Finish ==
    /\ exchange.phase = "acting" /\ exchange.request.route # "login"
    /\ exchange' =
         IF exchange.request.route = "cookie" /\ exchange.request.body = Malformed
         THEN Answered("bad-request") ELSE Answered("ok")
    /\ UNCHANGED <<status, config, sessions, used>>

\* The answer is sent, and the next request may come in.
Respond ==
    /\ exchange.phase \in {"answered", "handled"}
    /\ exchange' = Idle
    /\ UNCHANGED <<status, config, sessions, used>>

\* A session ends on its own (see Sessions).
Expire(id) ==
    /\ id \in sessions
    /\ sessions' = sessions \ {id}
    /\ UNCHANGED <<status, config, used, exchange>>

Next ==
    \/ status = "off" /\ \E env \in Env : Start(env)
    \/ Stop
    \/ status = "running" /\ exchange = Idle
       /\ \E r \in Request : Reject(r) \/ Logout(r) \/ RefuseLogin(r) \/ Accept(r)
    \/ \E id \in SessionId : Login(id) \/ Expire(id)
    \/ FailLogin \/ Finish \/ Respond

Spec == Init /\ [][Next]_vars

-----------------------------------------------------------------------------
\* Properties

\* A server that runs always has a usable configuration: in particular no
\* allowlist is empty, which would turn every request away.
TypeOK ==
    /\ status \in {"off", "running", "refused"}
    /\ config \in Config
    /\ used \subseteq SessionId /\ sessions \subseteq used
    /\ exchange \in Exchange

\* The failure that checkAuthentication keeps for a server without credentials
\* or opt-out is never sent: such a server does not stay up.
NeverNotConfigured ==
    exchange.phase = "answered" => exchange.answer # "not-configured"

\* A handler has the request at hand, or has just answered it.
Reached == exchange.phase \in {"acting", "handled"}

\* A protected handler only runs for the opt-out of a server that has no
\* credentials, for exactly the configured token, or for a session that was
\* live when the request came in, which takes a login with the password of
\* this very process, whatever was configured before it was restarted.
Entitled ==
    Reached /\ exchange.request.route \in {"updates", "state", "cookie", "events"} =>
        \/ config.optOut /\ ~HasCredential(config)
        \/ config.token # NoText /\ exchange.request.bearer = config.token
        \/ config.password # NoText /\ exchange.live

\* A request of a page the configuration does not allow never gets to a handler
\* that opens or ends a session, contacts MAM, replaces the cookie or opens a
\* stream, unless it carries the token itself and the browser's session played
\* no part in letting it through - and for the session's own two routes, login
\* and logout, not even then.
CrossSite ==
    Reached /\ exchange.request.route \in {"login", "logout", "updates", "cookie", "events"}
        /\ ~CheckOrigin(exchange.request) =>
            /\ exchange.request.route \notin {"login", "logout"}
            /\ config.token # NoText /\ exchange.request.bearer = config.token
            /\ ~exchange.live

=============================================================================
