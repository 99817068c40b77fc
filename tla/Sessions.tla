------------------------------ MODULE Sessions ------------------------------
(***************************************************************************)
(* Browser sessions and the SSE streams opened under them                  *)
(* (src/backend/session.ts, sse.ts, and the routes of app.ts that use      *)
(* them).  A session ends by a logout, by its timer, or when a request     *)
(* finds it expired; its streams are closed with it.  What the dashboard   *)
(* behind them makes of that is Dashboard's subject.                       *)
(*                                                                         *)
(* Two clocks are at work: a session's `expiry` is a time of the wall      *)
(* clock (Date.now()), which the host may set back or forth; its timer     *)
(* (setTimeout) counts the ticks that really pass and may fire late.       *)
(*                                                                         *)
(* One handler runs at a time up to its first real wait; the check of the  *)
(* session and the registration of the stream are one step, there being    *)
(* nothing to wait for in between.                                         *)
(***************************************************************************)
EXTENDS Naturals, Functions

CONSTANTS
    Session,     \* the session ids the store may draw
    NoSession,   \* a request without a session cookie
    Stream,      \* the SSE streams
    Duration,    \* MOUSEHOLE_SESSION_DURATION_SECONDS, in ticks
    MaxDelay,    \* the longest delay setTimeout takes (2^31 - 1 ms), in ticks
    EndOfTime    \* bound on the wall clock

ASSUME SessionsAssumption ==
    /\ NoSession \notin Session
    /\ Duration \in Nat \ {0}
    /\ MaxDelay \in Nat \ {0}
    /\ EndOfTime \in Nat

VARIABLES
    wall,       \* the wall clock
    sessions,   \* the Map of the store: session id -> expiry
    timers,     \* the pending timers: session id -> [ran, delay]
    used,       \* every session id drawn so far
    stream,     \* each stream: [status, session, method]
    clients,    \* the Set of the registry
    loggedOut   \* history: the sessions that a logout ended

store == <<sessions, timers, used, loggedOut>>
vars  == <<wall, sessions, timers, used, stream, clients, loggedOut>>

Live == DOMAIN sessions

\* A client's stream: not used yet, open, closed by the server, its client gone
\* (and cancel() not run yet), cancelled.
Status == {"unused", "open", "closed", "left", "cancelled"}
StreamRecord ==
    [status : Status, session : Session \cup {NoSession}, method : {"none", "session", "token"}]

Init ==
    /\ wall \in 0..EndOfTime
    /\ sessions = <<>> /\ timers = <<>> /\ used = {}
    /\ stream = [st \in Stream |->
                   [status |-> "unused", session |-> NoSession, method |-> "none"]]
    /\ clients = {} /\ loggedOut = {}

-----------------------------------------------------------------------------
\* session.ts and sse.ts

\* A delay that does not fit in 32 bits is taken for 1 ms: less than a tick.
Delay(duration) == IF duration <= MaxDelay THEN duration ELSE 0

\* Map.set and Map.delete.
With(map, key, value) == [k \in DOMAIN map \cup {key} |-> IF k = key THEN value ELSE map[k]]
Without(map, keys) == Restrict(map, DOMAIN map \ keys)

\* closeSessionStreams: what it leaves of the streams and of the registry.
Closed(ids) ==
    [st \in Stream |->
        IF st \in clients /\ stream[st].session \in ids /\ stream[st].status = "open"
        THEN [stream[st] EXCEPT !.status = "closed"]
        ELSE stream[st]]
Remaining(ids) == {st \in clients : stream[st].session \notin ids}

\* Mutant: the timer of a deleted session is not cleared.
DeleteSessionsUncleared(ids) ==
    /\ sessions' = Without(sessions, ids)
    /\ stream' = Closed(ids \cap Live)
    /\ clients' = Remaining(ids \cap Live)
    /\ UNCHANGED timers

\* Mutant: nobody is told that a session is gone.
DeleteSessionsSilently(ids) ==
    /\ sessions' = Without(sessions, ids)
    /\ timers' = Without(timers, ids \cap Live)
    /\ UNCHANGED <<stream, clients>>

\* deleteSession, which does nothing for an unknown id.
DeleteSessions(ids) ==
    /\ sessions' = Without(sessions, ids)
    /\ timers' = Without(timers, ids \cap Live)
    /\ stream' = Closed(ids \cap Live)
    /\ clients' = Remaining(ids \cap Live)

\* Mutant: off by one.
ExpiredTooEarly == {id \in Live : sessions[id] <= wall + 1}

\* isSessionValid removes whatever has expired before it looks.
Expired == {id \in Live : sessions[id] <= wall}

\* Mutant: the Map is looked at without pruning it.
ValidUnpruned(id) == id \in Live
Valid(id) == id \in Live \ Expired

-----------------------------------------------------------------------------
\* Routes

\* Mutant: no timer is set.
LoginUntimed(id) ==
    /\ id \notin used
    /\ used' = used \cup {id}
    /\ sessions' = With(sessions, id, wall + Duration)
    /\ UNCHANGED <<wall, timers, stream, clients, loggedOut>>

\* POST /login with the right password.
Login(id) ==
    /\ id \notin used
    /\ used' = used \cup {id}
    /\ sessions' = With(sessions, id, wall + Duration)
    /\ timers' = With(timers, id, [ran |-> 0, delay |-> Delay(Duration)])
    /\ UNCHANGED <<wall, stream, clients, loggedOut>>

\* POST /logout asks for no authentication, and any id may be presented.
Logout(id) ==
    /\ DeleteSessions({id})
    /\ loggedOut' = loggedOut \cup ({id} \cap Live)
    /\ UNCHANGED <<wall, used>>

\* Any other request that is checked: only the removal of expired sessions shows.
Request ==
    /\ DeleteSessions(Expired)
    /\ UNCHANGED <<wall, used, loggedOut>>

\* Mutant: the stream is not registered.
EventsUnregistered(st, id, token) ==
    /\ stream[st].status = "unused"
    /\ Valid(id) \/ token
    /\ sessions' = Without(sessions, Expired)
    /\ timers' = Without(timers, Expired)
    /\ stream' = [Closed(Expired) EXCEPT ![st] =
                    [status |-> "open", session |-> id,
                     method |-> IF Valid(id) THEN "session" ELSE "token"]]
    /\ clients' = Remaining(Expired)
    /\ UNCHANGED <<wall, used, loggedOut>>

\* GET /events: a stream under the session presented, or - with a Bearer token -
\* under whatever session cookie comes along with it.
Events(st, id, token) ==
    /\ stream[st].status = "unused"
    /\ Valid(id) \/ token
    /\ sessions' = Without(sessions, Expired)
    /\ timers' = Without(timers, Expired)
    /\ stream' = [Closed(Expired) EXCEPT ![st] =
                    [status |-> "open", session |-> id,
                     method |-> IF Valid(id) THEN "session" ELSE "token"]]
    /\ clients' = Remaining(Expired) \cup {st}
    /\ UNCHANGED <<wall, used, loggedOut>>

-----------------------------------------------------------------------------
\* Timers, clients and clocks

TimerFires(id) ==
    /\ id \in DOMAIN timers
    /\ timers[id].ran >= timers[id].delay
    /\ DeleteSessions({id})
    /\ UNCHANGED <<wall, used, loggedOut>>

\* The client goes away; its stream's controller no longer takes a frame.
Leave(st) ==
    /\ stream[st].status = "open"
    /\ stream' = [stream EXCEPT ![st].status = "left"]
    /\ UNCHANGED <<wall, store, clients>>

\* Mutant: cancel() does not unregister.
CancelUnheard(st) ==
    /\ stream[st].status = "left"
    /\ stream' = [stream EXCEPT ![st].status = "cancelled"]
    /\ UNCHANGED <<wall, store, clients>>

\* The runtime calls the stream's cancel(), which unregisters it.
Cancel(st) ==
    /\ stream[st].status = "left"
    /\ stream' = [stream EXCEPT ![st].status = "cancelled"]
    /\ clients' = clients \ {st}
    /\ UNCHANGED <<wall, store>>

\* notify: a client whose controller throws is dropped, the others get the frame.
Notify ==
    /\ clients' = {st \in clients : stream[st].status = "open"}
    /\ UNCHANGED <<wall, store, stream>>

\* A tick passes on both clocks, the wall clock stopping at its bound.
Tick ==
    /\ wall < EndOfTime \/ \E id \in DOMAIN timers : timers[id].ran < Duration
    /\ wall' = IF wall < EndOfTime THEN wall + 1 ELSE wall
    /\ timers' = [id \in DOMAIN timers |->
                    IF timers[id].ran < Duration
                    THEN [timers[id] EXCEPT !.ran = @ + 1] ELSE timers[id]]
    /\ UNCHANGED <<sessions, used, stream, clients, loggedOut>>

\* The host sets its clock.
SetClock ==
    /\ wall' \in 0..EndOfTime
    /\ UNCHANGED <<store, stream, clients>>

-----------------------------------------------------------------------------

Next ==
    \/ \E id \in Session : Login(id)
    \/ \E id \in Session : Logout(id)
    \/ Request
    \/ \E st \in Stream, id \in Session \cup {NoSession}, token \in BOOLEAN :
           Events(st, id, token)
    \/ \E id \in Session : TimerFires(id)
    \/ \E st \in Stream : Leave(st)
    \/ \E st \in Stream : Cancel(st)
    \/ Notify
    \/ Tick
    \/ SetClock

Spec == Init /\ [][Next]_vars

\* Time passes and the event loop runs due timers; no request need ever come.
Fairness ==
    /\ WF_vars(Tick)
    /\ \A id \in Session : WF_vars(TimerFires(id))

FairSpec == Spec /\ Fairness

-----------------------------------------------------------------------------

TypeOK ==
    /\ wall \in 0..EndOfTime
    /\ used \subseteq Session
    /\ Live \subseteq used
    /\ \A id \in Live : sessions[id] \in 0..(EndOfTime + Duration)
    /\ \A id \in DOMAIN timers : timers[id] \in [ran : 0..Duration, delay : 0..MaxDelay]
    /\ stream \in [Stream -> StreamRecord]
    /\ clients \subseteq Stream
    /\ loggedOut \subseteq used

(***************************************************************************)
(* A timer is pending exactly for the sessions in the Map: no session      *)
(* without a timer lingers for want of requests, and no timer outlives its *)
(* session (deleteSession clears it).                                      *)
(***************************************************************************)
TimersMatchSessions == DOMAIN timers = Live

(***************************************************************************)
(* A stream that was opened with a session is open only while the session  *)
(* is in the Map: however the session ended - logout, timer, or pruned by  *)
(* somebody else's request - its streams were closed with it.              *)
(***************************************************************************)
StreamsEndWithSession ==
    \A st \in Stream :
        stream[st].status = "open" /\ stream[st].method = "session"
            => stream[st].session \in Live

(***************************************************************************)
(* Every stream that is open is registered - a client with a working       *)
(* stream never misses a notify, whoever else left or was closed - and the *)
(* registry keeps no stream that was closed or cancelled.                  *)
(***************************************************************************)
RegistryIsExact ==
    /\ {st \in Stream : stream[st].status = "open"} \subseteq clients
    /\ \A st \in clients : stream[st].status \in {"open", "left"}

(***************************************************************************)
(* No session opens a stream once the wall clock has passed its expiry,    *)
(* even while its timer is late (session.ts:60-64).                        *)
(***************************************************************************)
ExpiredIsRejected ==
    [][\A st \in Stream :
          stream'[st].method = "session" /\ stream[st].method = "none"
              => /\ stream[st].status = "unused"
                 /\ stream'[st].session \in Live
                 /\ wall < sessions[stream'[st].session]]_vars

(***************************************************************************)
(* "The number of seconds after which a browser session expires"           *)
(* (config.ts:236): without a logout no session ends before its duration   *)
(* has passed on one of the two clocks.                                    *)
(***************************************************************************)
SessionLastsItsDuration ==
    [][\A id \in Live :
          id \in Live' \/ sessions[id] <= wall \/ timers[id].ran >= Duration
          \/ id \in loggedOut']_vars

OpenStreams ==
    {[stream |-> st, session |-> stream[st].session, method |-> stream[st].method] :
        st \in {s \in Stream : stream[s].status = "open"}}

Atomic == INSTANCE AtomicSessions WITH
    Presented <- Session \cup {NoSession}, live <- Live, open <- OpenStreams

(***************************************************************************)
(* To the routes and the pages the store is AtomicSessions: whatever ends  *)
(* a session, and however timers, pruning, cancelled streams and the       *)
(* registry interleave, its streams end with it in one step, and it does   *)
(* not come back (context.ts:36-45).                                       *)
(***************************************************************************)
AtomicSpec == Atomic!Spec

(***************************************************************************)
(* Every session ends, and every stream opened with it, with no request to *)
(* prune it and although the clock may be set back again and again.        *)
(***************************************************************************)
SessionsEnd ==
    \A st \in Stream :
        stream[st].status = "open" /\ stream[st].method = "session"
            ~> stream[st].status # "open"

=============================================================================
