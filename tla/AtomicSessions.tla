--------------------------- MODULE AtomicSessions ---------------------------
(***************************************************************************)
(* What the session store and the stream registry promise to the routes    *)
(* and to the pages behind them: a session is live from its login until it *)
(* ends, once and for all, for whatever reason; a stream is opened under a *)
(* session only while that is live; and a session's streams are closed in  *)
(* the very step that ends it.  Clocks, timers, pruning and the registry   *)
(* are not seen from outside.  It is what Boundary (Login, Logout, Expire) *)
(* and Dashboard (DeleteSession) take for granted of sessions.             *)
(***************************************************************************)
CONSTANTS
    Session,   \* the ids the store may draw
    Presented, \* what a request may present for one
    Stream

VARIABLES
    live,      \* the sessions that are live
    used,      \* every id drawn so far
    open       \* the streams that are open: [stream, session, method]

vars == <<live, used, open>>

\* Watched from some moment on, at which no stream is open.
Init ==
    /\ used \subseteq Session /\ live \subseteq used
    /\ open = {}

Login(id) ==
    /\ id \notin used
    /\ used' = used \cup {id} /\ live' = live \cup {id}
    /\ UNCHANGED open

\* A stream that was opened with a token follows the session cookie that came along.
Without(ids) == {o \in open : o.session \notin ids}

\* By a logout, a timer, or because somebody's request found them expired.
End(ids) ==
    /\ live' = live \ ids
    /\ open' = Without(ids)
    /\ UNCHANGED used

\* The request may find other sessions expired first.
Open(st, id, method, ids) ==
    /\ \A o \in open : o.stream # st
    /\ method = "session" => id \in live \ ids
    /\ live' = live \ ids
    /\ open' = Without(ids) \cup {[stream |-> st, session |-> id, method |-> method]}
    /\ UNCHANGED used

\* The client goes away.
Leave(o) ==
    /\ open' = open \ {o}
    /\ UNCHANGED <<live, used>>

Next ==
    \/ \E id \in Session : Login(id)
    \/ \E ids \in SUBSET live : End(ids)
    \/ \E st \in Stream, id \in Presented, method \in {"session", "token"}, ids \in SUBSET live :
          Open(st, id, method, ids)
    \/ \E o \in open : Leave(o)

Spec == Init /\ [][Next]_vars

=============================================================================
