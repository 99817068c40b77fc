------------------------------ MODULE Dashboard ------------------------------
(***************************************************************************)
(* What one page of the web UI shows (src/frontend): a query cache for     *)
(* GET /state, from which App chooses between a spinner, the login form,   *)
(* an error and the dashboard.  Every event of the SSE stream - its        *)
(* opening, and each contentless "changed" - makes the dashboard pull      *)
(* again; so do a login and a logout.  The answers of POST /updates and    *)
(* PUT /cookie are written into the cache directly.                        *)
(*                                                                         *)
(* The server is reduced to what the page can tell of it: how many         *)
(* contacts were committed, how many times the next one was scheduled, and *)
(* the sessions it knows.  A request is admitted by the session cookie it  *)
(* was sent with.  How sessions end, and that their streams end with them, *)
(* is Sessions' subject.                                                   *)
(*                                                                         *)
(* External, as these hooks use them: TanStack Query, whose invalidation   *)
(* cancels the fetch in flight if there are data and joins it if there are *)
(* none, and whose setQueryData cancels nothing; EventSource, which        *)
(* reconnects after a loss and gives up on an answer other than 200.       *)
(***************************************************************************)
EXTENDS Naturals

CONSTANTS
    Mutation,      \* the presses of "Update Now" and "Set"
    NoData,        \* an empty query cache
    Unauthorized,  \* a 401 of GET /state
    MaxVersion,    \* bound on the contacts that are committed
    MaxFailed,     \* bound on the contacts that fail
    MaxSession     \* bound on the sessions that are granted

PublicState == [version : Nat, next : Nat]

ASSUME DashboardAssumption ==
    /\ {MaxVersion, MaxFailed, MaxSession} \subseteq Nat
    /\ NoData # Unauthorized /\ {NoData, Unauthorized} \cap PublicState = {}

VARIABLES
    state,     \* the server's: contacts committed, and times it was scheduled
    failed,    \* history: the last contact failed
    live,      \* the sessions the server knows
    granted,   \* the last session it granted
    cookie,    \* the browser's session cookie; 0 is none
    stream,    \* the dashboard's EventSource: [status, session]
    signals,   \* events sent on the stream and not yet handled
    fetch,     \* the query's fetch: [phase, cookie, answer]
    failures,  \* its fetchFailureCount
    joined,    \* history: the fetch was joined by an invalidation
    shown,     \* the query's data
    error,     \* the query's error: "none", "unauthenticated", "rejected", "transient"
    from,      \* history: what wrote the data, "query" or "mutation"
    mutation,  \* each mutation: [status, cookie, answer]
    login,     \* the login: [status, session]
    logout     \* the logout: [status, cookie]

server  == <<state, failed, live, granted>>
query   == <<fetch, failures, joined>>
cache   == <<shown, error, from>>
presses == <<mutation, login, logout>>
vars    == <<server, cookie, stream, signals, query, cache, presses>>

Session == 0..MaxSession

NoFetch  == [phase |-> "idle", cookie |-> 0, answer |-> NoData]
NoStream == [status |-> "none", session |-> 0]
Sent(c)  == [phase |-> "sent", cookie |-> c, answer |-> NoData]
Unsent(status) == [status |-> status, cookie |-> 0, answer |-> NoData]

\* App's content: isPending, isError with isAuthError or not, or data.
View ==
    CASE error = "unauthenticated"           -> "login"
      [] error \in {"rejected", "transient"} -> IF fetch.phase = "idle" THEN "error" ELSE "retrying"
      [] error = "none" /\ shown = NoData    -> "loading"
      [] OTHER                               -> "dashboard"

\* The page is opened, with a session from earlier or none.
Init ==
    /\ state = [version |-> 0, next |-> 0] /\ failed = FALSE
    /\ granted \in {0, 1} /\ granted <= MaxSession
    /\ live = 1..granted /\ cookie = granted
    /\ stream = NoStream /\ signals = 0
    /\ fetch = Sent(cookie) /\ failures = 0 /\ joined = FALSE
    /\ shown = NoData /\ error = "none" /\ from = "query"
    /\ mutation = [m \in Mutation |-> Unsent("idle")]
    /\ login = [status |-> "idle", session |-> 0]
    /\ logout = [status |-> "idle", cookie |-> 0]

-----------------------------------------------------------------------------
\* The query cache

\* fetch(): without data the query is pending again.
Fetch(c) ==
    /\ fetch' = Sent(c) /\ failures' = 0 /\ joined' = FALSE
    /\ error' = IF shown = NoData THEN "none" ELSE error
    /\ UNCHANGED <<shown, from>>

\* Mutant: the fetch in flight is never cancelled.
InvalidateJoining(c) ==
    IF fetch.phase # "idle"
    THEN joined' = TRUE /\ UNCHANGED <<fetch, failures, cache>>
    ELSE Fetch(c)

\* invalidate(), by a page whose cookie is c.
Invalidate(c) ==
    IF shown = NoData /\ fetch.phase # "idle"
    THEN joined' = TRUE /\ UNCHANGED <<fetch, failures, cache>>
    ELSE Fetch(c)

\* The dashboard is mounted or unmounted, and its EventSource opened or closed.
Render ==
    IF View' # "dashboard"
    THEN stream' = NoStream /\ signals' = 0
    ELSE /\ stream' = IF stream.status = "none"
                      THEN [status |-> "connecting", session |-> 0] ELSE stream
         /\ UNCHANGED signals

\* Mutant: everything is retried, for ever.
RetryAlways(count, e) == TRUE

\* Neither a 401 nor another rejection is retried, anything else twice.
Retry(count, e) == e = "transient" /\ count < 2

\* The window gets the focus, the network comes back, or "Retry" is pressed.
Refetch ==
    /\ fetch.phase = "idle"
    /\ Fetch(cookie)
    /\ UNCHANGED <<server, cookie, stream, signals, presses>>

FetchSucceeds ==
    /\ fetch.phase = "answered" /\ fetch.answer # Unauthorized
    /\ fetch' = NoFetch /\ failures' = 0
    /\ shown' = fetch.answer /\ error' = "none" /\ from' = "query"
    /\ Render
    /\ UNCHANGED <<server, cookie, joined, presses>>

\* It fails with the answer it has, with an unreachable server or a 5xx, or with
\* a 4xx.  It is sent again, or it leaves the query in error.
FetchFails(e) ==
    /\ fetch.phase # "idle"
    /\ e = "unauthenticated" <=> fetch.phase = "answered" /\ fetch.answer = Unauthorized
    /\ IF Retry(failures, e)
       THEN /\ fetch' = Sent(cookie) /\ failures' = IF failures < 2 THEN failures + 1 ELSE 2
            /\ UNCHANGED <<stream, signals, error>>
       ELSE /\ fetch' = NoFetch /\ failures' = 0
            /\ error' = e
            /\ Render
    /\ UNCHANGED <<server, cookie, joined, shown, from, presses>>

-----------------------------------------------------------------------------
\* The server

\* requireAuth's session check.
SessionValid(c) == c \in live

\* A contact ends: it is persisted and notified, and the next one is scheduled.
Commit ==
    /\ state.version < MaxVersion
    /\ state' = [version |-> state.version + 1, next |-> state.next + 1] /\ failed' = FALSE
    /\ signals' = IF stream.status = "open" THEN signals + 1 ELSE signals
    /\ UNCHANGED <<live, granted>>

\* One of the timer, or of somebody else.
ContactSucceeds ==
    /\ Commit
    /\ UNCHANGED <<cookie, stream, query, cache, presses>>

\* One that throws only schedules the next.
ContactFails ==
    /\ state.next < state.version + MaxFailed
    /\ state' = [state EXCEPT !.next = @ + 1] /\ failed' = TRUE
    /\ UNCHANGED <<live, granted, cookie, stream, signals, query, cache, presses>>

\* GET /state: admitted or not, then the file is read ...
ServerReads ==
    /\ fetch.phase = "sent"
    /\ fetch' = IF SessionValid(fetch.cookie)
                THEN [phase |-> "read", cookie |-> 0, answer |-> state]
                ELSE [phase |-> "answered", cookie |-> 0, answer |-> Unauthorized]
    /\ UNCHANGED <<server, cookie, stream, signals, failures, joined, cache, presses>>

\* ... and then the time of the next contact is looked up.
ServerAnswers ==
    /\ fetch.phase = "read"
    /\ fetch' = [fetch EXCEPT !.phase = "answered", !.answer.next = state.next]
    /\ UNCHANGED <<server, cookie, stream, signals, failures, joined, cache, presses>>

\* The session is removed, and its stream closed: the EventSource will reconnect.
DeleteSession(s) ==
    /\ live' = live \ {s}
    /\ IF stream = [status |-> "open", session |-> s]
       THEN stream' = [status |-> "connecting", session |-> 0] /\ signals' = 0
       ELSE UNCHANGED <<stream, signals>>

\* By expiry, by another page, or by a restart of the process.
SessionEnds(s) ==
    /\ s \in live
    /\ DeleteSession(s)
    /\ UNCHANGED <<state, failed, granted, cookie, query, cache, presses>>

-----------------------------------------------------------------------------
\* The stream

\* Mutant: the opening of the stream is not listened to.
ConnectUnheard ==
    /\ stream.status = "connecting" /\ SessionValid(cookie)
    /\ stream' = [status |-> "open", session |-> cookie] /\ signals' = 0
    /\ UNCHANGED <<server, cookie, query, cache, presses>>

\* The stream opens, also again after a loss; its "open" event is the first signal.
Connect ==
    /\ stream.status = "connecting" /\ SessionValid(cookie)
    /\ stream' = [status |-> "open", session |-> cookie] /\ signals' = 1
    /\ UNCHANGED <<server, cookie, query, cache, presses>>

\* A 401: the EventSource gives up.
ConnectRefused ==
    /\ stream.status = "connecting" /\ ~SessionValid(cookie)
    /\ stream' = [status |-> "failed", session |-> 0]
    /\ UNCHANGED <<server, cookie, signals, query, cache, presses>>

\* The connection is lost.
Disconnect ==
    /\ stream.status = "open"
    /\ stream' = [status |-> "connecting", session |-> 0] /\ signals' = 0
    /\ UNCHANGED <<server, cookie, query, cache, presses>>

HandleEvent ==
    /\ signals > 0
    /\ signals' = signals - 1
    /\ Invalidate(cookie)
    /\ UNCHANGED <<server, cookie, stream, presses>>

-----------------------------------------------------------------------------
\* The buttons: "Update Now" and "Set"

Mutate(m) ==
    /\ View = "dashboard" /\ mutation[m].status = "idle"
    /\ mutation' = [mutation EXCEPT ![m].status = "sent", ![m].cookie = cookie]
    /\ UNCHANGED <<server, cookie, stream, signals, query, cache, login, logout>>

\* Once admitted, the request waits for its body and for the mutex.
ServerAdmits(m) ==
    /\ mutation[m].status = "sent"
    /\ mutation' = [mutation EXCEPT
          ![m].status = IF SessionValid(mutation[m].cookie) THEN "admitted" ELSE "refused",
          ![m].cookie = 0]
    /\ UNCHANGED <<server, cookie, stream, signals, query, cache, login, logout>>

MutationCommits(m) ==
    /\ mutation[m].status = "admitted"
    /\ Commit
    /\ mutation' = [mutation EXCEPT ![m].status = "committed", ![m].answer = state']
    /\ UNCHANGED <<cookie, stream, query, cache, login, logout>>

\* setQueryData of the "state" query.
SetData(data) == shown' = data /\ error' = "none" /\ from' = "mutation"

\* onSuccess: setState(newState), on whatever page is there by then.
MutationSucceeds(m) ==
    /\ mutation[m].status = "committed"
    /\ mutation' = [mutation EXCEPT ![m] = Unsent("done")]
    /\ SetData(mutation[m].answer)
    /\ Render
    /\ UNCHANGED <<server, cookie, query, login, logout>>

\* onError, also when the contact was committed and its answer is lost.
MutationFails(m) ==
    /\ mutation[m].status \notin {"idle", "done"}
    /\ mutation' = [mutation EXCEPT ![m] = Unsent("done")]
    /\ UNCHANGED <<server, cookie, stream, signals, query, cache, login, logout>>

-----------------------------------------------------------------------------
\* The login form and the "Log out" button

Login ==
    /\ View = "login" /\ login.status = "idle"
    /\ login' = [login EXCEPT !.status = "sent"]
    /\ UNCHANGED <<server, cookie, stream, signals, query, cache, mutation, logout>>

ServerGrants ==
    /\ login.status = "sent" /\ granted < MaxSession
    /\ granted' = granted + 1 /\ live' = live \cup {granted'}
    /\ login' = [status |-> "granted", session |-> granted']
    /\ UNCHANGED <<state, failed, cookie, stream, signals, query, cache, mutation, logout>>

\* Set-Cookie: the new session's id, or its removal.
ApplyCookie(s) == cookie' = s
ClearCookie == cookie' = 0

\* Mutant: the page does not pull again.
LoginSucceedsQuietly ==
    /\ login.status = "granted"
    /\ login' = [status |-> "idle", session |-> 0]
    /\ ApplyCookie(login.session)
    /\ UNCHANGED <<server, stream, signals, query, cache, mutation, logout>>

\* The answer sets the cookie; onSuccess: invalidateState().
LoginSucceeds ==
    /\ login.status = "granted"
    /\ login' = [status |-> "idle", session |-> 0]
    /\ ApplyCookie(login.session)
    /\ Invalidate(login.session)
    /\ UNCHANGED <<server, stream, signals, mutation, logout>>

\* A wrong password, or no answer.
LoginFails ==
    /\ login.status # "idle"
    /\ login' = [status |-> "idle", session |-> 0]
    /\ UNCHANGED <<server, cookie, stream, signals, query, cache, mutation, logout>>

Logout ==
    /\ View = "dashboard" /\ logout.status = "idle"
    /\ logout' = [status |-> "sent", cookie |-> cookie]
    /\ UNCHANGED <<server, cookie, stream, signals, query, cache, mutation, login>>

ServerLogsOut ==
    /\ logout.status = "sent"
    /\ logout' = [status |-> "served", cookie |-> 0]
    /\ DeleteSession(logout.cookie)
    /\ UNCHANGED <<state, failed, granted, cookie, query, cache, mutation, login>>

\* Mutant: the page does not pull again.
LogoutSucceedsQuietly ==
    /\ logout.status = "served"
    /\ logout' = [status |-> "idle", cookie |-> 0]
    /\ ClearCookie
    /\ UNCHANGED <<server, stream, signals, query, cache, mutation, login>>

\* The answer clears the cookie; onSuccess: invalidateState().
LogoutSucceeds ==
    /\ logout.status = "served"
    /\ logout' = [status |-> "idle", cookie |-> 0]
    /\ ClearCookie
    /\ Invalidate(0)
    /\ UNCHANGED <<server, stream, signals, mutation, login>>

LogoutFails ==
    /\ logout.status # "idle"
    /\ logout' = [status |-> "idle", cookie |-> 0]
    /\ UNCHANGED <<server, cookie, stream, signals, query, cache, mutation, login>>

-----------------------------------------------------------------------------

Fails == \E e \in {"unauthenticated", "rejected", "transient"} : FetchFails(e)

Next ==
    \/ Refetch \/ FetchSucceeds \/ Fails
    \/ ContactSucceeds \/ ContactFails \/ ServerReads \/ ServerAnswers
    \/ \E s \in Session : SessionEnds(s)
    \/ Connect \/ ConnectRefused \/ Disconnect \/ HandleEvent
    \/ \E m \in Mutation :
          \/ Mutate(m) \/ ServerAdmits(m) \/ MutationCommits(m)
          \/ MutationSucceeds(m) \/ MutationFails(m)
    \/ Login \/ ServerGrants \/ LoginSucceeds \/ LoginFails
    \/ Logout \/ ServerLogsOut \/ LogoutSucceeds \/ LogoutFails

Spec == Init /\ [][Next]_vars

\* The browser reconnects and delivers its events, and every request ends.  Nobody
\* is obliged to press a button, to look at the page or to end a session.
Fairness ==
    /\ WF_vars(Connect \/ ConnectRefused) /\ WF_vars(HandleEvent)
    /\ WF_vars(ServerReads) /\ WF_vars(ServerAnswers) /\ WF_vars(FetchSucceeds \/ Fails)

FairSpec == Spec /\ Fairness

-----------------------------------------------------------------------------
\* Properties

TypeOK ==
    /\ state \in PublicState
    /\ state.version <= MaxVersion /\ state.version <= state.next
    /\ state.next <= state.version + MaxFailed
    /\ {failed, joined} \subseteq BOOLEAN
    /\ granted \in Session /\ live \subseteq 1..granted /\ cookie \in 0..granted
    /\ stream \in [status : {"none", "connecting", "open", "failed"}, session : 0..granted]
    /\ signals \in Nat
    /\ stream.status # "open" => signals = 0
    /\ View = "dashboard" <=> stream.status # "none"
    /\ fetch \in [phase : {"idle", "sent", "read", "answered"}, cookie : 0..granted,
                  answer : PublicState \cup {NoData, Unauthorized}]
    /\ failures \in 0..2
    /\ shown \in PublicState \cup {NoData}
    /\ error \in {"none", "unauthenticated", "rejected", "transient"}
    /\ from \in {"query", "mutation"}
    /\ mutation \in [Mutation -> [status : {"idle", "sent", "admitted", "refused", "committed", "done"},
                                  cookie : 0..granted, answer : PublicState \cup {NoData}]]
    /\ login \in [status : {"idle", "sent", "granted"}, session : 0..granted]
    /\ logout \in [status : {"idle", "sent", "served"}, cookie : 0..granted]

\* The stream is open, every event handled and no fetch under way.
Quiet == stream.status = "open" /\ signals = 0 /\ fetch.phase = "idle"

(***************************************************************************)
(* A quiet dashboard whose data came from GET /state shows the newest      *)
(* state: no commit is missed between a read and its answer, in a          *)
(* cancelled fetch, or while the stream was lost.  Its countdown is the    *)
(* server's too, unless the last contact failed, which nobody is told.     *)
(***************************************************************************)
NothingIsMissed ==
    Quiet /\ from = "query" =>
        /\ shown.version = state.version
        /\ shown.next = state.next \/ failed

(***************************************************************************)
(* Once a logout is answered the page shows no dashboard any more, whatever*)
(* was being fetched - unless an update that was admitted before it brings *)
(* the dashboard back with its late answer.                                *)
(***************************************************************************)
LogoutCloses ==
    cookie = 0 /\ fetch.phase = "idle" /\ View = "dashboard" => from = "mutation"

(***************************************************************************)
(* A page whose session is live does not stay on the login form, whatever  *)
(* 401 was under way when it logged in - unless it never had data and the  *)
(* invalidation joined that very fetch.                                    *)
(***************************************************************************)
LoginOpens ==
    View = "login" /\ fetch.phase = "idle" /\ cookie \in live => joined

(***************************************************************************)
(* A dashboard whose stream stays open in the end, and whose user stops    *)
(* logging out, shows the newest state in the end, whatever was committed  *)
(* while the stream was lost and however many fetches failed or were       *)
(* cancelled - unless a mutation's answer was written last.                *)
(***************************************************************************)
CatchesUp ==
    <>[](stream.status = "open" /\ logout.status = "idle") =>
        <>[](from = "query" => shown # NoData /\ shown.version = state.version)

(***************************************************************************)
(* The spinner ends in something else, however the server rejects or loses *)
(* the requests: "endless retries used to trap the UI on the loading       *)
(* spinner forever, hiding the error screen" (state.ts:51-52).             *)
(***************************************************************************)
SpinnerEnds == View \in {"loading", "retrying"} ~> View \notin {"loading", "retrying"}

(***************************************************************************)
(* "Closing a deleted session's streams makes the client re-pull GET       *)
(* /state, get a 401, and land on the login screen" (context.ts:39-40): a  *)
(* dashboard that had its stream gives way once its session has ended,     *)
(* though its own user never logs out.                                     *)
(***************************************************************************)
LandsOnLogin ==
    <>(stream.status = "open") /\ [](logout.status = "idle") =>
        (View = "dashboard" /\ cookie \notin live ~> View # "dashboard")

=============================================================================
