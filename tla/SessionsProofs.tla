--------------------------- MODULE SessionsProofs ---------------------------
(***************************************************************************)
(* Proofs about Sessions for any number of sessions and streams, any       *)
(* duration, and clocks that are set and timers that are late as they like.*)
(***************************************************************************)
EXTENDS Sessions, TLAPS

USE SessionsAssumption

\* Every timer was armed with the delay that setTimeout makes of the duration.
DelaysAreExact == \A id \in DOMAIN timers : timers[id].delay = Delay(Duration)

Inv ==
    /\ TypeOK
    /\ DelaysAreExact
    /\ TimersMatchSessions
    /\ StreamsEndWithSession
    /\ RegistryIsExact

(***************************************************************************)
(* Map.delete takes the keys, and nothing else, out of a map.              *)
(***************************************************************************)
LEMMA WithoutLemma ==
    ASSUME NEW map, NEW keys
    PROVE  /\ DOMAIN Without(map, keys) = DOMAIN map \ keys
           /\ \A k \in DOMAIN map \ keys : Without(map, keys)[k] = map[k]
  BY DEF Without, Restrict

\* A timer's delay is one that setTimeout can represent.
LEMMA DelayType == Delay(Duration) \in 0..MaxDelay
  BY DEF Delay

\* A process without sessions satisfies the invariant.
LEMMA Initially == Init => Inv
<1> SUFFICES ASSUME Init PROVE Inv
  OBVIOUS
<1>1. DOMAIN sessions = {} /\ DOMAIN timers = {}
  BY DEF Init
<1>2. TypeOK
  BY <1>1 DEF Init, TypeOK, Live, StreamRecord, Status
<1> QED
  BY <1>1, <1>2 DEF Init, Inv, DelaysAreExact, TimersMatchSessions, Live,
                    StreamsEndWithSession, RegistryIsExact

(***************************************************************************)
(* closeSessionStreams: a stream of a session that is gone is not open any *)
(* more if it was registered, and nothing else changes.                    *)
(***************************************************************************)
LEMMA ClosedLemma ==
    ASSUME Inv, NEW ids
    PROVE  /\ Closed(ids) \in [Stream -> StreamRecord]
           /\ Remaining(ids) \subseteq clients
           /\ \A st \in Stream :
                /\ Closed(ids)[st].session = stream[st].session
                /\ Closed(ids)[st].method = stream[st].method
                /\ Closed(ids)[st].status = "open" =>
                      /\ stream[st].status = "open" /\ stream[st].session \notin ids
                      /\ st \in Remaining(ids)
                /\ st \in Remaining(ids) => Closed(ids)[st].status = stream[st].status
<1> SUFFICES ASSUME NEW st \in Stream
             PROVE  /\ Closed(ids)[st] \in StreamRecord
                    /\ Closed(ids)[st].session = stream[st].session
                    /\ Closed(ids)[st].method = stream[st].method
                    /\ Closed(ids)[st].status = "open" =>
                          /\ stream[st].status = "open" /\ stream[st].session \notin ids
                          /\ st \in Remaining(ids)
                    /\ st \in Remaining(ids) => Closed(ids)[st].status = stream[st].status
  BY DEF Closed, Remaining
<1>1. stream[st] \in StreamRecord /\ (stream[st].status = "open" => st \in clients)
  BY DEF Inv, TypeOK, RegistryIsExact
<1>2. CASE st \in clients /\ stream[st].session \in ids /\ stream[st].status = "open"
  <2>1. Closed(ids)[st] = [stream[st] EXCEPT !.status = "closed"]
    BY <1>2 DEF Closed
  <2> QED
    BY <1>1, <1>2, <2>1 DEF StreamRecord, Status, Remaining
<1>3. CASE ~(st \in clients /\ stream[st].session \in ids /\ stream[st].status = "open")
  <2>1. Closed(ids)[st] = stream[st]
    BY <1>3 DEF Closed
  <2> QED
    BY <1>1, <1>3, <2>1 DEF Remaining
<1> QED
  BY <1>2, <1>3

(***************************************************************************)
(* However sessions are deleted, their timers and streams go with them.    *)
(***************************************************************************)
LEMMA DeleteInv ==
    ASSUME Inv, NEW ids, DeleteSessions(ids), UNCHANGED <<wall, used>>,
           loggedOut' \subseteq used
    PROVE  Inv'
<1> DEFINE gone == ids \cap Live
<1>1. /\ Live' = Live \ ids
      /\ \A id \in Live' : sessions'[id] = sessions[id]
  <2>1. sessions' = Without(sessions, ids)
    BY DEF DeleteSessions
  <2>2. DOMAIN sessions' = DOMAIN sessions \ ids
    BY <2>1, WithoutLemma
  <2>3. \A id \in DOMAIN sessions \ ids : sessions'[id] = sessions[id]
    BY <2>1, WithoutLemma
  <2> QED
    BY <2>2, <2>3 DEF Live
<1>2. /\ DOMAIN timers' = Live'
      /\ \A id \in Live' : timers'[id] = timers[id]
  <2>1. DOMAIN timers = Live
    BY DEF Inv, TimersMatchSessions
  <2>2. timers' = Without(timers, gone)
    BY DEF DeleteSessions
  <2>3. DOMAIN timers' = DOMAIN timers \ gone
    BY <2>2, WithoutLemma
  <2>4. \A id \in DOMAIN timers \ gone : timers'[id] = timers[id]
    BY <2>2, WithoutLemma
  <2> QED
    BY <1>1, <2>1, <2>3, <2>4
<1>3. stream' = Closed(gone) /\ clients' = Remaining(gone)
  BY DEF DeleteSessions
<1> HIDE DEF gone
<1>4. TypeOK'
  <2>1. /\ \A id \in Live' : sessions'[id] \in 0..(EndOfTime + Duration)
        /\ \A id \in DOMAIN timers' : timers'[id] \in [ran : 0..Duration, delay : 0..MaxDelay]
    BY <1>1, <1>2 DEF Inv, TypeOK, TimersMatchSessions
  <2>2. stream' \in [Stream -> StreamRecord] /\ clients' \subseteq Stream
    BY <1>3, ClosedLemma DEF Inv, TypeOK
  <2> QED
    BY <1>1, <2>1, <2>2 DEF Inv, TypeOK
<1>5. DelaysAreExact' /\ TimersMatchSessions'
  BY <1>1, <1>2 DEF Inv, DelaysAreExact, TimersMatchSessions
<1>6. StreamsEndWithSession'
  <2> SUFFICES ASSUME NEW st \in Stream, stream'[st].status = "open",
                      stream'[st].method = "session"
               PROVE  stream'[st].session \in Live'
    BY DEF StreamsEndWithSession
  <2>1. /\ stream[st].status = "open" /\ stream[st].method = "session"
        /\ stream'[st].session = stream[st].session /\ stream[st].session \notin gone
    BY <1>3, ClosedLemma
  <2> QED
    BY <1>1, <2>1 DEF Inv, StreamsEndWithSession, gone
<1>7. RegistryIsExact'
  BY <1>3, ClosedLemma DEF Inv, RegistryIsExact, TypeOK, Remaining
<1> QED
  BY <1>4, <1>5, <1>6, <1>7 DEF Inv

(***************************************************************************)
(* GET /events prunes, and its stream is one of a live session or of a     *)
(* token.                                                                  *)
(***************************************************************************)
LEMMA EventsInv ==
    ASSUME Inv, NEW st \in Stream, NEW id \in Session \cup {NoSession},
           NEW token \in BOOLEAN, Events(st, id, token)
    PROVE  Inv'
<1> DEFINE method == IF Valid(id) THEN "session" ELSE "token"
           opened == [status |-> "open", session |-> id, method |-> method]
<1>1. /\ Live' = Live \ Expired
      /\ \A i \in Live' : sessions'[i] = sessions[i]
  <2>1. sessions' = Without(sessions, Expired)
    BY DEF Events
  <2>2. DOMAIN sessions' = DOMAIN sessions \ Expired
    BY <2>1, WithoutLemma
  <2>3. \A i \in DOMAIN sessions \ Expired : sessions'[i] = sessions[i]
    BY <2>1, WithoutLemma
  <2> QED
    BY <2>2, <2>3 DEF Live
<1>2. /\ DOMAIN timers' = Live'
      /\ \A i \in Live' : timers'[i] = timers[i]
  <2>1. DOMAIN timers = Live
    BY DEF Inv, TimersMatchSessions
  <2>2. timers' = Without(timers, Expired)
    BY DEF Events
  <2>3. DOMAIN timers' = DOMAIN timers \ Expired
    BY <2>2, WithoutLemma
  <2>4. \A i \in DOMAIN timers \ Expired : timers'[i] = timers[i]
    BY <2>2, WithoutLemma
  <2> QED
    BY <1>1, <2>1, <2>3, <2>4
<1>3. /\ opened \in StreamRecord
      /\ stream' = [Closed(Expired) EXCEPT ![st] = opened]
      /\ clients' = Remaining(Expired) \cup {st}
      /\ UNCHANGED <<wall, used, loggedOut>>
  BY DEF Events, StreamRecord, Status
<1>4. /\ opened.status = "open" /\ opened.session = id
      /\ opened.method = "session" => id \in Live'
  BY <1>1 DEF Valid
<1> HIDE DEF opened
<1>5. /\ stream' \in [Stream -> StreamRecord]
      /\ stream'[st] = opened
      /\ \A s \in Stream \ {st} : stream'[s] = Closed(Expired)[s]
  BY <1>3, ClosedLemma
<1>6. TypeOK'
  <2>1. /\ \A i \in Live' : sessions'[i] \in 0..(EndOfTime + Duration)
        /\ \A i \in DOMAIN timers' : timers'[i] \in [ran : 0..Duration, delay : 0..MaxDelay]
    BY <1>1, <1>2 DEF Inv, TypeOK, TimersMatchSessions
  <2>2. clients' \subseteq Stream
    BY <1>3, ClosedLemma DEF Inv, TypeOK
  <2> QED
    BY <1>1, <1>3, <1>5, <2>1, <2>2 DEF Inv, TypeOK
<1>7. DelaysAreExact' /\ TimersMatchSessions'
  BY <1>1, <1>2 DEF Inv, DelaysAreExact, TimersMatchSessions
<1>8. StreamsEndWithSession'
  <2> SUFFICES ASSUME NEW s \in Stream, stream'[s].status = "open",
                      stream'[s].method = "session"
               PROVE  stream'[s].session \in Live'
    BY DEF StreamsEndWithSession
  <2>1. CASE s = st
    BY <1>4, <1>5, <2>1
  <2>2. CASE s # st
    BY <1>1, <1>5, <2>2, ClosedLemma DEF Inv, StreamsEndWithSession
  <2> QED
    BY <2>1, <2>2
<1>9. RegistryIsExact'
  <2>1. ASSUME NEW s \in Stream, stream'[s].status = "open" PROVE s \in clients'
    BY <1>3, <1>5, <2>1, ClosedLemma
  <2>2. ASSUME NEW s \in clients' PROVE stream'[s].status \in {"open", "left"}
    <3>1. CASE s = st
      BY <1>4, <1>5, <3>1
    <3>2. CASE s # st
      <4>1. s \in Remaining(Expired) /\ s \in clients /\ s \in Stream
        BY <1>3, <2>2, <3>2, ClosedLemma DEF Inv, TypeOK
      <4> QED
        BY <1>5, <3>2, <4>1, ClosedLemma DEF Inv, RegistryIsExact
    <3> QED
      BY <3>1, <3>2
  <2> QED
    BY <2>1, <2>2 DEF RegistryIsExact
<1> QED
  BY <1>6, <1>7, <1>8, <1>9 DEF Inv

\* POST /login keeps it.
LEMMA LoginInv ==
    ASSUME Inv, NEW id \in Session, Login(id)
    PROVE  Inv'
<1> DEFINE timer == [ran |-> 0, delay |-> Delay(Duration)]
<1>1. /\ DOMAIN sessions' = DOMAIN sessions \cup {id}
      /\ sessions'[id] = wall + Duration
      /\ \A i \in DOMAIN sessions \ {id} : sessions'[i] = sessions[i]
  <2>1. sessions' = With(sessions, id, wall + Duration)
    BY DEF Login
  <2>2. DOMAIN sessions' = DOMAIN sessions \cup {id}
    BY <2>1 DEF With
  <2>3. sessions'[id] = wall + Duration
    BY <2>1 DEF With
  <2>4. \A i \in DOMAIN sessions \ {id} : sessions'[i] = sessions[i]
    BY <2>1 DEF With
  <2> QED
    BY <2>2, <2>3, <2>4
<1>2. /\ DOMAIN timers' = DOMAIN timers \cup {id}
      /\ timers'[id] = timer
      /\ \A i \in DOMAIN timers \ {id} : timers'[i] = timers[i]
  <2>1. timers' = With(timers, id, timer)
    BY DEF Login
  <2>2. DOMAIN timers' = DOMAIN timers \cup {id}
    BY <2>1 DEF With
  <2>3. timers'[id] = timer
    BY <2>1 DEF With
  <2>4. \A i \in DOMAIN timers \ {id} : timers'[i] = timers[i]
    BY <2>1 DEF With
  <2> QED
    BY <2>2, <2>3, <2>4
<1>3. timer \in [ran : 0..Duration, delay : 0..MaxDelay] /\ timer.delay = Delay(Duration)
  BY DelayType
<1> HIDE DEF timer
<1>4. /\ used' = used \cup {id} /\ id \notin used
      /\ UNCHANGED <<wall, stream, clients, loggedOut>>
  BY DEF Login
<1>5. TypeOK'
  <2>1. wall + Duration \in 0..(EndOfTime + Duration)
    BY DEF Inv, TypeOK
  <2>2. \A i \in Live' : sessions'[i] \in 0..(EndOfTime + Duration)
    BY <1>1, <2>1 DEF Inv, TypeOK, Live
  <2>3. \A i \in DOMAIN timers' : timers'[i] \in [ran : 0..Duration, delay : 0..MaxDelay]
    BY <1>2, <1>3 DEF Inv, TypeOK
  <2> QED
    BY <1>1, <1>4, <2>2, <2>3 DEF Inv, TypeOK, Live
<1>6. DelaysAreExact' /\ TimersMatchSessions'
  BY <1>1, <1>2, <1>3 DEF Inv, DelaysAreExact, TimersMatchSessions, Live
<1>7. StreamsEndWithSession' /\ RegistryIsExact'
  BY <1>1, <1>4 DEF Inv, StreamsEndWithSession, RegistryIsExact, Live
<1> QED
  BY <1>5, <1>6, <1>7 DEF Inv

\* Leave and Cancel change one stream's status, and keep its registration exact.
LEMMA ClientInv ==
    ASSUME Inv, NEW st \in Stream, Leave(st) \/ Cancel(st)
    PROVE  Inv'
<1>1. UNCHANGED <<wall, sessions, timers, used, loggedOut>>
  BY DEF Leave, Cancel, store
<1>2. PICK status \in {"left", "cancelled"} :
         /\ stream' = [stream EXCEPT ![st].status = status]
         /\ status = "left" => UNCHANGED clients
         /\ status = "cancelled" => clients' = clients \ {st}
  BY DEF Leave, Cancel
<1>3. /\ stream' \in [Stream -> StreamRecord]
      /\ stream'[st].status = status
      /\ \A s \in Stream \ {st} : stream'[s] = stream[s]
  BY <1>2 DEF Inv, TypeOK, StreamRecord, Status
<1>4. TypeOK'
  BY <1>1, <1>2, <1>3 DEF Inv, TypeOK, Live
<1>5. DelaysAreExact' /\ TimersMatchSessions' /\ StreamsEndWithSession'
  BY <1>1, <1>2, <1>3
     DEF Inv, DelaysAreExact, TimersMatchSessions, StreamsEndWithSession, Live
<1>6. RegistryIsExact'
  BY <1>2, <1>3 DEF Inv, RegistryIsExact, TypeOK
<1> QED
  BY <1>4, <1>5, <1>6 DEF Inv

\* Both clocks keep it, whatever the wall clock is set to.
LEMMA ClockInv ==
    ASSUME Inv, Tick \/ SetClock
    PROVE  Inv'
<1>1. UNCHANGED <<sessions, used, stream, clients, loggedOut>> /\ wall' \in 0..EndOfTime
  BY DEF Tick, SetClock, store, Inv, TypeOK
<1>2. /\ DOMAIN timers' = DOMAIN timers
      /\ \A id \in DOMAIN timers :
            /\ timers'[id] \in [ran : 0..Duration, delay : 0..MaxDelay]
            /\ timers'[id].delay = timers[id].delay
  <2>1. CASE Tick
    <3>1. timers' = [id \in DOMAIN timers |->
                       IF timers[id].ran < Duration
                       THEN [timers[id] EXCEPT !.ran = @ + 1] ELSE timers[id]]
      BY <2>1 DEF Tick
    <3>2. ASSUME NEW id \in DOMAIN timers
          PROVE  /\ timers'[id] \in [ran : 0..Duration, delay : 0..MaxDelay]
                 /\ timers'[id].delay = timers[id].delay
      BY <3>1 DEF Inv, TypeOK
    <3> QED
      BY <3>1, <3>2
  <2>2. CASE SetClock
    BY <2>2 DEF SetClock, store, Inv, TypeOK
  <2> QED
    BY <2>1, <2>2
<1>3. TypeOK'
  BY <1>1, <1>2 DEF Inv, TypeOK, Live
<1> QED
  BY <1>1, <1>2, <1>3 DEF Inv, DelaysAreExact, TimersMatchSessions,
                          StreamsEndWithSession, RegistryIsExact, Live

\* Every step keeps the invariant: one case per action.
LEMMA NextInv == Inv /\ [Next]_vars => Inv'
<1> SUFFICES ASSUME Inv, [Next]_vars PROVE Inv'
  OBVIOUS
<1>1. CASE UNCHANGED vars
  BY <1>1 DEF vars, Inv, TypeOK, Live, DelaysAreExact, TimersMatchSessions,
              StreamsEndWithSession, RegistryIsExact
<1>2. ASSUME NEW id \in Session, Logout(id) PROVE Inv'
  BY <1>2, DeleteInv DEF Logout, Inv, TypeOK
<1>3. ASSUME Request PROVE Inv'
  BY <1>3, DeleteInv DEF Request, Inv, TypeOK
<1>4. ASSUME NEW id \in Session, TimerFires(id) PROVE Inv'
  BY <1>4, DeleteInv DEF TimerFires, Inv, TypeOK
<1>5. CASE Notify
  <2>1. /\ UNCHANGED <<wall, sessions, timers, used, loggedOut, stream>>
        /\ clients' = {st \in clients : stream[st].status = "open"}
    BY <1>5 DEF Notify, store
  <2> QED
    BY <2>1 DEF Inv, TypeOK, Live, DelaysAreExact, TimersMatchSessions,
                StreamsEndWithSession, RegistryIsExact
<1> QED
  BY <1>1, <1>2, <1>3, <1>4, <1>5, LoginInv, EventsInv, ClientInv, ClockInv DEF Next

\* The invariant holds in every reachable state.
LEMMA Invariant == Spec => []Inv
  BY Initially, NextInv, PTL DEF Spec

(***************************************************************************)
(* The state has its type, and every timer the delay it was armed with,    *)
(* for any sessions and streams.                                           *)
(***************************************************************************)
THEOREM SessionsTypeOK == Spec => [](TypeOK /\ DelaysAreExact)
<1>1. Inv => TypeOK /\ DelaysAreExact
  BY DEF Inv
<1> QED
  BY <1>1, Invariant, PTL

(***************************************************************************)
(* A timer is pending exactly for the sessions in the Map, however they    *)
(* end and in whatever order.                                              *)
(***************************************************************************)
THEOREM TimersAreTheSessions == Spec => []TimersMatchSessions
<1>1. Inv => TimersMatchSessions
  BY DEF Inv
<1> QED
  BY <1>1, Invariant, PTL

(***************************************************************************)
(* No stream opened with a session outlives it, for any number of streams. *)
(***************************************************************************)
THEOREM StreamsAreClosed == Spec => []StreamsEndWithSession
<1>1. Inv => StreamsEndWithSession
  BY DEF Inv
<1> QED
  BY <1>1, Invariant, PTL

(***************************************************************************)
(* The registry forgets no open stream and keeps none that was closed.     *)
(***************************************************************************)
THEOREM RegistryIsTheOpenStreams == Spec => []RegistryIsExact
<1>1. Inv => RegistryIsExact
  BY DEF Inv
<1> QED
  BY <1>1, Invariant, PTL

(***************************************************************************)
(* No expired session opens a stream, however late its timer is and        *)
(* wherever the clock is set.                                              *)
(***************************************************************************)
THEOREM NoneExpiredIsAdmitted == Spec => ExpiredIsRejected
<1> DEFINE Step == \A st \in Stream :
              stream'[st].method = "session" /\ stream[st].method = "none"
                  => /\ stream[st].status = "unused"
                     /\ stream'[st].session \in Live
                     /\ wall < sessions[stream'[st].session]
<1>1. ASSUME Inv, [Next]_vars PROVE [Step]_vars
  <2> SUFFICES ASSUME Next, NEW st \in Stream,
                      stream'[st].method = "session", stream[st].method = "none"
               PROVE  /\ stream[st].status = "unused"
                      /\ stream'[st].session \in Live
                      /\ wall < sessions[stream'[st].session]
    BY <1>1
  <2>1. ASSUME NEW ids, DeleteSessions(ids) PROVE FALSE
    BY <1>1, <2>1, ClosedLemma DEF DeleteSessions
  <2>2. ~ UNCHANGED stream
    OBVIOUS
  <2>3. ASSUME NEW s \in Stream, Leave(s) \/ Cancel(s) PROVE FALSE
    <3>1. PICK status : stream' = [stream EXCEPT ![s].status = status]
      BY <2>3 DEF Leave, Cancel
    <3>2. stream'[st].method = stream[st].method
      BY <1>1, <3>1 DEF Inv, TypeOK, StreamRecord
    <3> QED
      BY <3>2
  <2>4. PICK s \in Stream, id \in Session \cup {NoSession}, token \in BOOLEAN :
              Events(s, id, token)
    BY <2>1, <2>2, <2>3
       DEF Next, Login, Logout, Request, TimerFires, Notify, Tick, SetClock, store
  <2>5. stream' = [Closed(Expired) EXCEPT ![s] =
                     [status |-> "open", session |-> id,
                      method |-> IF Valid(id) THEN "session" ELSE "token"]]
    BY <2>4 DEF Events
  <2>6. s = st
    BY <1>1, <2>5, ClosedLemma
  <2>7. /\ stream'[st] = [status |-> "open", session |-> id,
                          method |-> IF Valid(id) THEN "session" ELSE "token"]
        /\ stream[st].status = "unused"
    BY <1>1, <2>4, <2>5, <2>6, ClosedLemma DEF Events
  <2>8. Valid(id) /\ stream'[st].session = id
    BY <2>7
  <2>9. sessions[id] \in Nat /\ wall \in Nat
    BY <1>1, <2>8 DEF Valid, Inv, TypeOK
  <2> QED
    BY <2>7, <2>8, <2>9 DEF Valid, Expired
<1>2. ExpiredIsRejected <=> [][Step]_vars
  BY PTL DEF ExpiredIsRejected
<1> HIDE DEF Step
<1> QED
  BY <1>1, <1>2, Invariant, PTL DEF Spec

(***************************************************************************)
(* With a duration that setTimeout can take, no session ends before its    *)
(* duration has passed on one of the two clocks, but by a logout.          *)
(***************************************************************************)
THEOREM SessionsLast ==
    ASSUME Duration <= MaxDelay
    PROVE  Spec => SessionLastsItsDuration
<1> DEFINE Step == \A id \in Live :
              id \in Live' \/ sessions[id] <= wall \/ timers[id].ran >= Duration
              \/ id \in loggedOut'
<1>1. ASSUME Inv, [Next]_vars PROVE [Step]_vars
  <2> SUFFICES ASSUME Next, NEW id \in Live, id \notin Live',
                      ~(sessions[id] <= wall), id \notin loggedOut'
               PROVE  timers[id].ran >= Duration
    BY <1>1
  <2>1. ASSUME NEW ids, DeleteSessions(ids) PROVE id \in ids
    <3>1. sessions' = Without(sessions, ids)
      BY <2>1 DEF DeleteSessions
    <3>2. DOMAIN sessions' = DOMAIN sessions \ ids
      BY <3>1, WithoutLemma
    <3> QED
      BY <3>2 DEF Live
  <2>2. id \notin Expired
    BY DEF Expired
  <2>3. ASSUME NEW i \in Session, Login(i) PROVE FALSE
    <3>1. sessions' = With(sessions, i, wall + Duration)
      BY <2>3 DEF Login
    <3>2. DOMAIN sessions' = DOMAIN sessions \cup {i}
      BY <3>1 DEF With
    <3> QED
      BY <3>2 DEF Live
  <2>4. ASSUME NEW i \in Session, Logout(i) PROVE FALSE
    BY <2>1, <2>4 DEF Logout
  <2>5. ~ Request
    BY <2>1, <2>2 DEF Request
  <2>6. ASSUME NEW s \in Stream, NEW i \in Session \cup {NoSession},
               NEW token \in BOOLEAN, Events(s, i, token) PROVE FALSE
    <3>1. sessions' = Without(sessions, Expired)
      BY <2>6 DEF Events
    <3>2. DOMAIN sessions' = DOMAIN sessions \ Expired
      BY <3>1, WithoutLemma
    <3> QED
      BY <2>2, <3>2 DEF Live
  <2>7. sessions' # sessions
    BY DEF Live
  <2>8. PICK i \in Session : TimerFires(i)
    BY <2>3, <2>4, <2>5, <2>6, <2>7
       DEF Next, Leave, Cancel, Notify, Tick, SetClock, store
  <2>9. i = id
    BY <2>1, <2>8 DEF TimerFires
  <2>10. timers[id].delay = Duration /\ timers[id].ran >= timers[id].delay
    BY <1>1, <2>8, <2>9 DEF TimerFires, Inv, DelaysAreExact, Delay
  <2> QED
    BY <2>10
<1>2. SessionLastsItsDuration <=> [][Step]_vars
  BY PTL DEF SessionLastsItsDuration
<1> HIDE DEF Step
<1> QED
  BY <1>1, <1>2, Invariant, PTL DEF Spec

-----------------------------------------------------------------------------
\* The refinement of AtomicSessions

Entry(st) == [stream |-> st, session |-> stream[st].session, method |-> stream[st].method]

\* Which streams the abstract store sees open.
LEMMA OpenStreamsLemma ==
    /\ OpenStreams = {Entry(st) : st \in {s \in Stream : stream[s].status = "open"}}
    /\ \A st : Entry(st).stream = st /\ Entry(st).session = stream[st].session
  BY DEF OpenStreams, Entry

\* An initial state maps to an initial state.
LEMMA RefineInit == Init => Atomic!Init
  BY DEF Init, Atomic!Init, Live, OpenStreams

(***************************************************************************)
(* closeSessionStreams takes the streams of the sessions, and no other,    *)
(* from those that are open: every one of them is registered.              *)
(***************************************************************************)
LEMMA ClosedIsAtomic ==
    ASSUME Inv, NEW ids
    PROVE  {Entry(st) : st \in {s \in Stream : Closed(ids)[s].status = "open"}}
              = Atomic!Without(ids)
<1>1. ASSUME NEW st \in Stream
      PROVE  Closed(ids)[st].status = "open"
                <=> stream[st].status = "open" /\ stream[st].session \notin ids
  <2>1. stream[st] \in StreamRecord /\ (stream[st].status = "open" => st \in clients)
    BY DEF Inv, TypeOK, RegistryIsExact
  <2> QED
    BY <2>1 DEF Closed, StreamRecord
<1> QED
  BY <1>1, OpenStreamsLemma DEF Atomic!Without

\* Sessions that onSessionDeleted ends take their streams with them.
LEMMA DeletesAreEnds ==
    ASSUME Inv, NEW ids, DeleteSessions(ids), UNCHANGED used
    PROVE  Atomic!Next
<1>1. Live' = Live \ ids
  BY WithoutLemma DEF DeleteSessions, Live
<1>2. OpenStreams' = Atomic!Without(ids \cap Live)
  <2>1. stream' = Closed(ids \cap Live)
    BY DEF DeleteSessions
  <2>2. \A st \in Stream : Entry(st)' = Entry(st)
    BY <2>1, ClosedLemma DEF Entry
  <2>3. OpenStreams' = {Entry(st) : st \in {s \in Stream : stream'[s].status = "open"}}
    BY <2>2 DEF OpenStreams, Entry
  <2> QED
    BY <2>1, <2>3, ClosedIsAtomic
<1>3. Atomic!End(ids \cap Live)
  BY <1>1, <1>2 DEF Atomic!End
<1> QED
  BY <1>3 DEF Atomic!Next

\* GET /events opens one stream, of the session that it was admitted with.
LEMMA EventsOpens ==
    ASSUME Inv, NEW st \in Stream, NEW id \in Session \cup {NoSession},
           NEW token \in BOOLEAN, Events(st, id, token)
    PROVE  Atomic!Next
<1> DEFINE method == IF Valid(id) THEN "session" ELSE "token"
           entry == [stream |-> st, session |-> id, method |-> method]
<1>1. Live' = Live \ Expired /\ Expired \in SUBSET Live
  BY WithoutLemma DEF Events, Live, Expired
<1>2. /\ stream' = [Closed(Expired) EXCEPT ![st] =
                       [status |-> "open", session |-> id, method |-> method]]
      /\ stream[st].status = "unused" /\ used' = used
  BY DEF Events
<1>3. method \in {"session", "token"} /\ (method = "session" => id \in Live \ Expired)
  BY DEF Valid
<1> HIDE DEF method
<1>4. OpenStreams' = Atomic!Without(Expired) \cup {entry}
  <2>1. Entry(st)' = entry /\ stream'[st].status = "open"
    BY <1>2, ClosedLemma DEF Entry
  <2>2. ASSUME NEW s \in Stream \ {st}
        PROVE  Entry(s)' = Entry(s) /\ stream'[s].status = Closed(Expired)[s].status
    BY <1>2, ClosedLemma DEF Entry
  <2>3. Closed(Expired)[st].status # "open"
    BY <1>2, ClosedLemma
  <2>4. {s \in Stream : stream'[s].status = "open"}
           = {s \in Stream : Closed(Expired)[s].status = "open"} \cup {st}
    BY <2>1, <2>2
  <2>5. OpenStreams' = {Entry(s)' : s \in {i \in Stream : stream'[i].status = "open"}}
    BY DEF OpenStreams, Entry
  <2>6. OpenStreams' = {Entry(s) : s \in {i \in Stream : Closed(Expired)[i].status = "open"}}
                          \cup {entry}
    BY <2>1, <2>2, <2>3, <2>4, <2>5
  <2> QED
    BY <2>6, ClosedIsAtomic
<1>5. \A o \in OpenStreams : o.stream # st
  BY <1>2, OpenStreamsLemma
<1>6. Atomic!Open(st, id, method, Expired)
  BY <1>1, <1>2, <1>3, <1>4, <1>5 DEF Atomic!Open
<1> QED
  BY <1>1, <1>3, <1>6 DEF Atomic!Next

\* A client that leaves, at first or for the runtime, is one open stream less.
LEMMA ClientsLeave ==
    ASSUME Inv, NEW st \in Stream, Leave(st) \/ Cancel(st)
    PROVE  [Atomic!Next]_Atomic!vars
<1>1. UNCHANGED <<Live, used>>
  BY DEF Leave, Cancel, store, Live
<1>2. PICK status \in {"left", "cancelled"} : stream' = [stream EXCEPT ![st].status = status]
  BY DEF Leave, Cancel
<1>3. stream \in [Stream -> StreamRecord]
  BY DEF Inv, TypeOK
<1>4. /\ \A s \in Stream : Entry(s)' = Entry(s)
      /\ \A s \in Stream \ {st} : stream'[s] = stream[s]
      /\ stream'[st].status # "open"
  BY <1>2, <1>3 DEF Entry, StreamRecord
<1>5. OpenStreams' = {Entry(s) : s \in {i \in Stream : stream'[i].status = "open"}}
  BY <1>4 DEF OpenStreams, Entry
<1>6. OpenStreams' = OpenStreams \ {Entry(st)}
  BY <1>4, <1>5, OpenStreamsLemma
<1>7. CASE Entry(st) \in OpenStreams
  <2>1. Atomic!Leave(Entry(st))
    BY <1>1, <1>6 DEF Atomic!Leave
  <2> QED
    BY <1>7, <2>1 DEF Atomic!Next
<1>8. CASE Entry(st) \notin OpenStreams
  BY <1>1, <1>6, <1>8 DEF Atomic!vars
<1> QED
  BY <1>7, <1>8

(***************************************************************************)
(* Every route, timer, client and clock makes a step of AtomicSessions or  *)
(* one that it does not see.                                               *)
(***************************************************************************)
LEMMA RefineNext == Inv /\ [Next]_vars => [Atomic!Next]_Atomic!vars
<1> SUFFICES ASSUME Inv, [Next]_vars PROVE [Atomic!Next]_Atomic!vars
  OBVIOUS
<1>1. ASSUME UNCHANGED <<sessions, used, stream>> PROVE UNCHANGED Atomic!vars
  BY <1>1 DEF Atomic!vars, Live, OpenStreams
<1>2. ASSUME NEW id \in Session, Login(id) PROVE Atomic!Next
  <2>1. Live' = Live \cup {id}
    BY <1>2 DEF Login, With, Live
  <2>2. OpenStreams' = OpenStreams
    BY <1>2 DEF Login, OpenStreams
  <2>3. Atomic!Login(id)
    BY <1>2, <2>1, <2>2 DEF Login, Atomic!Login
  <2> QED
    BY <2>3 DEF Atomic!Next
<1>3. ASSUME NEW id \in Session, Logout(id) \/ TimerFires(id) PROVE Atomic!Next
  BY <1>3, DeletesAreEnds DEF Logout, TimerFires
<1>4. ASSUME Request PROVE Atomic!Next
  BY <1>4, DeletesAreEnds DEF Request
<1> QED
  BY <1>1, <1>2, <1>3, <1>4, EventsOpens, ClientsLeave
  DEF Next, vars, Notify, Tick, SetClock, store

(***************************************************************************)
(* The session store with its timers, its clock and its stream registry    *)
(* implements AtomicSessions, for any number of sessions and streams: what *)
(* Boundary and Dashboard suppose of sessions (session.ts:24-77,           *)
(* sse.ts:12-60, context.ts:36-45).                                        *)
(***************************************************************************)
THEOREM Refinement == Spec => AtomicSpec
<1>1. Spec => [][Atomic!Next]_Atomic!vars
  BY Invariant, RefineNext, PTL DEF Spec
<1> QED
  BY <1>1, RefineInit, PTL DEF Spec, AtomicSpec, Atomic!Spec

=============================================================================
