-------------------------- MODULE DashboardProofs ---------------------------
(***************************************************************************)
(* Proofs about Dashboard for any number of mutations, contacts, failed    *)
(* contacts and sessions.                                                  *)
(***************************************************************************)
EXTENDS Dashboard, TLAPS

USE DashboardAssumption

-----------------------------------------------------------------------------
\* The inductive invariant

Errors == {"none", "unauthenticated", "rejected", "transient"}
Statuses == {"idle", "sent", "admitted", "refused", "committed", "done"}
MutationRecord == [status : Statuses, cookie : 0..granted, answer : PublicState \cup {NoData}]

\* TypeOK, one group of variables at a time.
ServerOK ==
    /\ state \in PublicState
    /\ state.version <= MaxVersion /\ state.version <= state.next
    /\ state.next <= state.version + MaxFailed
    /\ failed \in BOOLEAN
    /\ granted \in Session /\ live \subseteq 1..granted /\ cookie \in 0..granted

StreamOK ==
    /\ stream \in [status : {"none", "connecting", "open", "failed"}, session : 0..granted]
    /\ signals \in Nat
    /\ stream.status # "open" => signals = 0
    /\ stream.status # "none" <=> error = "none" /\ shown # NoData

QueryOK ==
    /\ fetch \in [phase : {"idle", "sent", "read", "answered"}, cookie : 0..granted,
                  answer : PublicState \cup {NoData, Unauthorized}]
    /\ failures \in 0..2 /\ joined \in BOOLEAN

CacheOK ==
    /\ shown \in PublicState \cup {NoData}
    /\ error \in Errors /\ from \in {"query", "mutation"}

PressesOK ==
    /\ mutation \in [Mutation -> MutationRecord]
    /\ login \in [status : {"idle", "sent", "granted"}, session : 0..granted]
    /\ logout \in [status : {"idle", "sent", "served"}, cookie : 0..granted]

\* An answer that is used is there, and a page that logs out has had data.
Answers ==
    /\ fetch.phase = "read" => fetch.answer \in PublicState
    /\ fetch.phase = "answered" => fetch.answer # NoData
    /\ \A m \in Mutation : mutation[m].status = "committed" => mutation[m].answer \in PublicState
    /\ logout.status # "idle" => shown # NoData
    /\ login.status = "granted" => login.session # 0

\* With the stream open and no event left, a read still holds: whatever was
\* committed after it would be an event.
ReadIsCurrent ==
    stream.status = "open" /\ signals = 0 =>
        /\ fetch.phase \in {"read", "answered"} /\ fetch.answer # Unauthorized
              => fetch.answer.version = state.version
        /\ fetch.phase = "answered" /\ fetch.answer # Unauthorized
              => fetch.answer.next = state.next \/ failed
        /\ fetch.phase = "idle" /\ from = "query"
              => shown.version = state.version /\ (shown.next = state.next \/ failed)

\* A page without a session has no fetch under way that could succeed.
LoggedOut ==
    cookie = 0 =>
        /\ fetch.phase = "sent" => fetch.cookie = 0
        /\ fetch.phase # "read"
        /\ fetch.phase = "answered" => fetch.answer = Unauthorized
        /\ fetch.phase = "idle" /\ error = "none" /\ shown # NoData => from = "mutation"

\* A page with a live session has no fetch under way that could fail for want of
\* one, except a fetch it joined.
LoggedIn ==
    cookie \in live /\ ~joined =>
        /\ fetch.phase = "sent" => fetch.cookie = cookie
        /\ fetch.phase = "answered" => fetch.answer # Unauthorized
        /\ fetch.phase = "idle" => error # "unauthenticated"

Types == ServerOK /\ StreamOK /\ QueryOK /\ CacheOK /\ PressesOK
Inv == Types /\ Answers /\ ReadIsCurrent /\ LoggedOut /\ LoggedIn

(***************************************************************************)
(* What App shows, by the query's error and data.                          *)
(***************************************************************************)
LEMMA ViewLemma ==
    /\ error \in Errors => /\ View = "dashboard" <=> error = "none" /\ shown # NoData
                           /\ View = "login" <=> error = "unauthenticated"
    /\ error' \in Errors => (View' = "dashboard" <=> error' = "none" /\ shown' # NoData)
  BY DEF View, Errors

\* A page that has just been loaded satisfies the invariant.
LEMMA Initially == Init => Inv
<1> SUFFICES ASSUME Init PROVE Inv
  OBVIOUS
<1>1. failed \in BOOLEAN /\ joined \in BOOLEAN
  BY Zenon DEF Init
<1>2. ServerOK
  BY <1>1 DEF Init, ServerOK, PublicState, Session
<1>3. StreamOK
  BY <1>2 DEF Init, StreamOK, NoStream, ServerOK, Session
<1>4. QueryOK
  BY <1>1, <1>2 DEF Init, QueryOK, Sent, ServerOK, Session
<1>5. CacheOK
  BY DEF Init, CacheOK, Errors
<1>6. PressesOK
  BY <1>2 DEF Init, PressesOK, Unsent, MutationRecord, Statuses, ServerOK, Session
<1>7. Answers /\ ReadIsCurrent /\ LoggedOut /\ LoggedIn
  BY DEF Init, Answers, ReadIsCurrent, LoggedOut, LoggedIn, Sent, Unsent, NoStream
<1> QED
  BY <1>2, <1>3, <1>4, <1>5, <1>6, <1>7 DEF Inv, Types

-----------------------------------------------------------------------------
\* The operators of the steps

(***************************************************************************)
(* A fetch that is started is sent with the cookie of now.                 *)
(***************************************************************************)
LEMMA FetchLemma ==
    ASSUME Inv, NEW c \in Nat, Fetch(c)
    PROVE  /\ fetch'.phase = "sent" /\ fetch'.cookie = c /\ joined' = FALSE
           /\ UNCHANGED <<shown, from>>
           /\ error' \in Errors
           /\ error' = "none" /\ shown' # NoData <=> error = "none" /\ shown # NoData
           /\ c \in 0..granted' => QueryOK'
<1>1. /\ fetch' = Sent(c) /\ failures' = 0 /\ joined' = FALSE /\ UNCHANGED <<shown, from>>
      /\ error' = IF shown = NoData THEN "none" ELSE error
  BY DEF Fetch
<1>2. joined' \in BOOLEAN
  BY Zenon, <1>1
<1>3. c \in 0..granted' => QueryOK'
  BY <1>1, <1>2 DEF QueryOK, Sent
<1> QED
  BY <1>1, <1>3 DEF Sent, Inv, Types, CacheOK, Errors

(***************************************************************************)
(* An invalidation starts a fetch, or joins one of a page without data.    *)
(***************************************************************************)
LEMMA InvalidateLemma ==
    ASSUME Inv, NEW c, Invalidate(c)
    PROVE  \/ shown = NoData /\ fetch.phase # "idle" /\ joined' = TRUE
              /\ UNCHANGED <<fetch, failures, cache>>
           \/ Fetch(c)
  BY DEF Invalidate

(***************************************************************************)
(* The dashboard has a stream, and nothing else has one.                   *)
(***************************************************************************)
LEMMA RenderLemma ==
    ASSUME Inv, error' \in Errors, granted' = granted, Render
    PROVE  /\ StreamOK'
           /\ stream'.status = "open" => UNCHANGED <<stream, signals>>
<1>1. View' = "dashboard" <=> error' = "none" /\ shown' # NoData
  BY ViewLemma
<1>2. CASE View' # "dashboard"
  BY <1>1, <1>2 DEF Render, StreamOK, NoStream, Inv, Types, ServerOK, Session
<1>3. CASE View' = "dashboard" /\ stream.status = "none"
  BY <1>1, <1>3 DEF Render, StreamOK, Inv, Types, ServerOK, Session
<1>4. CASE View' = "dashboard" /\ stream.status # "none"
  BY <1>1, <1>4 DEF Render, StreamOK, Inv, Types
<1> QED
  BY <1>2, <1>3, <1>4

(***************************************************************************)
(* A commit is an event of the open stream.                                *)
(***************************************************************************)
LEMMA CommitLemma ==
    ASSUME Inv, Commit, UNCHANGED cookie
    PROVE  /\ ServerOK' /\ state' \in PublicState
           /\ signals' \in Nat
           /\ stream.status = "open" => signals' # 0
           /\ stream.status # "open" => signals' = signals
           /\ UNCHANGED <<live, granted>>
<1>1. /\ state.version < MaxVersion
      /\ state' = [version |-> state.version + 1, next |-> state.next + 1] /\ failed' = FALSE
      /\ signals' = IF stream.status = "open" THEN signals + 1 ELSE signals
      /\ UNCHANGED <<live, granted>>
  BY DEF Commit
<1>2. failed' \in BOOLEAN
  BY Zenon, <1>1
<1>3. state' \in PublicState
  BY <1>1 DEF Inv, Types, ServerOK, PublicState
<1>4. ServerOK'
  BY <1>1, <1>2, <1>3 DEF Inv, Types, ServerOK, PublicState
<1> QED
  BY <1>1, <1>3, <1>4 DEF Inv, Types, StreamOK

(***************************************************************************)
(* A mutation's new record takes the place of its old one only.            *)
(***************************************************************************)
LEMMA MutationLemma ==
    ASSUME Inv, NEW m \in Mutation, NEW r,
           mutation' = [mutation EXCEPT ![m] = r], r \in MutationRecord',
           r.status = "committed" => r.answer \in PublicState,
           UNCHANGED <<granted, login, logout, shown, fetch>>
    PROVE  PressesOK' /\ Answers'
<1>1. MutationRecord' = MutationRecord
  BY DEF MutationRecord
<1>2. mutation' \in [Mutation -> MutationRecord']
  BY <1>1 DEF Inv, Types, PressesOK
<1>3. \A n \in Mutation : mutation'[n].status = "committed" => mutation'[n].answer \in PublicState
  BY DEF Inv, Types, PressesOK, Answers
<1> QED
  BY <1>2, <1>3 DEF Inv, Types, PressesOK, Answers

-----------------------------------------------------------------------------
\* One lemma per group of actions

\* The query's own steps keep it.
LEMMA QueryStep == Inv /\ (Refetch \/ FetchSucceeds \/ Fails) => Inv'
<1> SUFFICES ASSUME Inv, Refetch \/ FetchSucceeds \/ Fails PROVE Inv'
  OBVIOUS
<1> USE DEF server, presses
<1>1. CASE Refetch
  <2>1. Fetch(cookie) /\ UNCHANGED <<server, cookie, stream, signals, presses>>
    BY <1>1 DEF Refetch
  <2>2. cookie \in 0..granted' /\ cookie \in Nat
    BY <2>1 DEF Inv, Types, ServerOK, Session
  <2>3. Types'
    BY <2>1, <2>2, FetchLemma
    DEF Inv, Types, ServerOK, StreamOK, CacheOK, PressesOK, MutationRecord
  <2>4. Answers' /\ ReadIsCurrent' /\ LoggedOut' /\ LoggedIn'
    BY <2>1, <2>2, FetchLemma DEF Inv, Answers, ReadIsCurrent, LoggedOut, LoggedIn
  <2> QED
    BY <2>3, <2>4 DEF Inv
<1>2. CASE FetchSucceeds
  <2>1. /\ fetch.phase = "answered" /\ fetch.answer # Unauthorized
        /\ fetch' = NoFetch /\ failures' = 0
        /\ shown' = fetch.answer /\ error' = "none" /\ from' = "query"
        /\ Render
        /\ UNCHANGED <<server, cookie, joined, presses>>
    BY <1>2 DEF FetchSucceeds
  <2>2. shown' \in PublicState /\ shown' # NoData
    BY <2>1 DEF Inv, Types, QueryOK, Answers
  <2>3. CacheOK' /\ QueryOK'
    BY <2>1, <2>2 DEF CacheOK, QueryOK, Errors, NoFetch, Inv, Types, ServerOK, Session
  <2>4. StreamOK' /\ (stream'.status = "open" => UNCHANGED <<stream, signals>>)
    BY <2>1, <2>3, RenderLemma DEF CacheOK
  <2>5. Types'
    BY <2>1, <2>3, <2>4 DEF Inv, Types, ServerOK, PressesOK, MutationRecord
  <2>6. Answers' /\ LoggedOut' /\ LoggedIn'
    BY <2>1, <2>2 DEF Inv, Answers, LoggedOut, LoggedIn, NoFetch
  <2>7. ReadIsCurrent'
    BY <2>1, <2>4 DEF Inv, ReadIsCurrent, NoFetch
  <2> QED
    BY <2>5, <2>6, <2>7 DEF Inv
<1>3. ASSUME NEW e \in {"unauthenticated", "rejected", "transient"}, FetchFails(e) PROVE Inv'
  <2>1. /\ fetch.phase # "idle"
        /\ e = "unauthenticated" <=> fetch.phase = "answered" /\ fetch.answer = Unauthorized
        /\ UNCHANGED <<server, cookie, joined, shown, from, presses>>
    BY <1>3 DEF FetchFails
  <2>2. cookie \in 0..granted /\ granted \in Nat
    BY DEF Inv, Types, ServerOK, Session
  <2>3. CASE Retry(failures, e)
    <3>1. /\ fetch' = Sent(cookie) /\ failures' = IF failures < 2 THEN failures + 1 ELSE 2
          /\ UNCHANGED <<stream, signals, error>>
      BY <1>3, <2>3 DEF FetchFails
    <3>2. Types'
      BY <2>1, <2>2, <3>1 DEF Inv, Types, ServerOK, StreamOK, QueryOK, CacheOK, PressesOK,
                              MutationRecord, Sent
    <3>3. Answers' /\ ReadIsCurrent' /\ LoggedOut' /\ LoggedIn'
      BY <2>1, <3>1 DEF Inv, Answers, ReadIsCurrent, LoggedOut, LoggedIn, Sent
    <3> QED
      BY <3>2, <3>3 DEF Inv
  <2>4. CASE ~Retry(failures, e)
    <3>1. fetch' = NoFetch /\ failures' = 0 /\ error' = e /\ Render
      BY <1>3, <2>4 DEF FetchFails
    <3>2. CacheOK' /\ QueryOK'
      BY <2>1, <2>2, <3>1 DEF CacheOK, QueryOK, Errors, NoFetch, Inv, Types
    <3>3. StreamOK' /\ (stream'.status = "open" => UNCHANGED <<stream, signals>>)
      BY <2>1, <3>1, <3>2, RenderLemma DEF CacheOK
    <3>4. Types'
      BY <2>1, <3>2, <3>3 DEF Inv, Types, ServerOK, PressesOK, MutationRecord
    <3>5. Answers' /\ LoggedOut' /\ LoggedIn'
      BY <2>1, <3>1 DEF Inv, Answers, LoggedOut, LoggedIn, NoFetch
    <3>6. stream'.status # "open"
      BY <3>1, <3>3 DEF StreamOK
    <3>7. ReadIsCurrent'
      BY <3>6 DEF ReadIsCurrent
    <3> QED
      BY <3>4, <3>5, <3>7 DEF Inv
  <2> QED
    BY <2>3, <2>4
<1> QED
  BY <1>1, <1>2, <1>3 DEF Fails

\* What happens on the server keeps it: commits, reads, ended sessions.
LEMMA ServerStep ==
    Inv /\ (\/ ContactSucceeds \/ ContactFails \/ ServerReads \/ ServerAnswers
            \/ \E s \in Session : SessionEnds(s)) => Inv'
<1> USE DEF server, query, cache, presses
<1>1. ASSUME Inv, ContactSucceeds PROVE Inv'
  <2>1. Commit /\ UNCHANGED <<cookie, stream, query, cache, presses>>
    BY <1>1 DEF ContactSucceeds
  <2>2. ServerOK' /\ UNCHANGED <<live, granted>> /\ signals' \in Nat
        /\ (stream.status = "open" => signals' # 0)
        /\ (stream.status # "open" => signals' = signals)
    BY <1>1, <2>1, CommitLemma
  <2>3. Types'
    BY <1>1, <2>1, <2>2 DEF Inv, Types, StreamOK, QueryOK, CacheOK, PressesOK, MutationRecord
  <2>4. Answers' /\ ReadIsCurrent' /\ LoggedOut' /\ LoggedIn'
    BY <1>1, <2>1, <2>2 DEF Inv, Answers, ReadIsCurrent, LoggedOut, LoggedIn
  <2> QED
    BY <2>3, <2>4 DEF Inv
<1>2. ASSUME Inv, ContactFails PROVE Inv'
  <2>1. /\ state.next < state.version + MaxFailed
        /\ state' = [state EXCEPT !.next = @ + 1] /\ failed' = TRUE
        /\ UNCHANGED <<live, granted, cookie, stream, signals, query, cache, presses>>
    BY <1>2 DEF ContactFails
  <2>2. failed' \in BOOLEAN
    BY Zenon, <2>1
  <2>3. state' \in PublicState /\ state'.version = state.version /\ state'.next = state.next + 1
    BY <1>2, <2>1 DEF Inv, Types, ServerOK, PublicState
  <2>4. ServerOK'
    BY <1>2, <2>1, <2>2, <2>3 DEF Inv, Types, ServerOK, PublicState
  <2>5. Types'
    BY <1>2, <2>1, <2>4 DEF Inv, Types, StreamOK, QueryOK, CacheOK, PressesOK, MutationRecord
  <2>6. Answers' /\ LoggedOut' /\ LoggedIn'
    BY <1>2, <2>1 DEF Inv, Answers, LoggedOut, LoggedIn
  <2>7. ReadIsCurrent'
    BY <1>2, <2>1, <2>3 DEF Inv, ReadIsCurrent
  <2> QED
    BY <2>5, <2>6, <2>7 DEF Inv
<1>3. ASSUME Inv, ServerReads PROVE Inv'
  <2>1. /\ fetch.phase = "sent"
        /\ UNCHANGED <<server, cookie, stream, signals, failures, joined, cache, presses>>
    BY <1>3 DEF ServerReads
  <2>2. state \in PublicState /\ state # Unauthorized /\ state # NoData /\ 0 \in 0..granted
    BY <1>3 DEF Inv, Types, ServerOK, Session
  <2>3. CASE fetch.cookie \in live
    <3>1. fetch' = [phase |-> "read", cookie |-> 0, answer |-> state]
      BY <1>3, <2>3 DEF ServerReads, SessionValid
    <3>2. Types'
      BY <1>3, <2>1, <2>2, <3>1 DEF Inv, Types, ServerOK, StreamOK, QueryOK, CacheOK, PressesOK,
                                    MutationRecord
    <3>3. cookie # 0
      BY <1>3, <2>1, <2>3 DEF Inv, Types, ServerOK, Session, LoggedOut
    <3>4. Answers' /\ ReadIsCurrent' /\ LoggedOut' /\ LoggedIn'
      BY <1>3, <2>1, <2>2, <3>1, <3>3 DEF Inv, Answers, ReadIsCurrent, LoggedOut, LoggedIn
    <3> QED
      BY <3>2, <3>4 DEF Inv
  <2>4. CASE fetch.cookie \notin live
    <3>1. fetch' = [phase |-> "answered", cookie |-> 0, answer |-> Unauthorized]
      BY <1>3, <2>4 DEF ServerReads, SessionValid
    <3>2. Types'
      BY <1>3, <2>1, <2>2, <3>1 DEF Inv, Types, ServerOK, StreamOK, QueryOK, CacheOK, PressesOK,
                                    MutationRecord
    <3>3. Answers' /\ ReadIsCurrent' /\ LoggedOut' /\ LoggedIn'
      BY <1>3, <2>1, <2>4, <3>1 DEF Inv, Answers, ReadIsCurrent, LoggedOut, LoggedIn
    <3> QED
      BY <3>2, <3>3 DEF Inv
  <2> QED
    BY <2>3, <2>4
<1>4. ASSUME Inv, ServerAnswers PROVE Inv'
  <2>1. /\ fetch.phase = "read"
        /\ fetch' = [fetch EXCEPT !.phase = "answered", !.answer.next = state.next]
        /\ UNCHANGED <<server, cookie, stream, signals, failures, joined, cache, presses>>
    BY <1>4 DEF ServerAnswers
  <2>2. state.next \in Nat /\ fetch.answer \in PublicState
    BY <1>4, <2>1 DEF Inv, Types, ServerOK, PublicState, Answers
  <2>3. /\ fetch'.phase = "answered" /\ fetch'.cookie = fetch.cookie
        /\ fetch'.answer = [fetch.answer EXCEPT !.next = state.next]
        /\ fetch' = [phase |-> "answered", cookie |-> fetch.cookie,
                     answer |-> [fetch.answer EXCEPT !.next = state.next]]
    BY <1>4, <2>1 DEF Inv, Types, QueryOK
  <2>4. /\ fetch'.answer \in PublicState /\ fetch'.answer.next = state.next
        /\ fetch'.answer.version = fetch.answer.version
        /\ fetch'.answer \notin {NoData, Unauthorized}
    BY <2>2, <2>3 DEF PublicState
  <2>5. QueryOK'
    BY <1>4, <2>1, <2>3, <2>4 DEF Inv, Types, QueryOK
  <2>6. Types'
    BY <1>4, <2>1, <2>5 DEF Inv, Types, ServerOK, StreamOK, CacheOK, PressesOK, MutationRecord
  <2>7. Answers' /\ ReadIsCurrent' /\ LoggedOut' /\ LoggedIn'
    BY <1>4, <2>1, <2>2, <2>3, <2>4 DEF Inv, Answers, ReadIsCurrent, LoggedOut, LoggedIn
  <2> QED
    BY <2>6, <2>7 DEF Inv
<1>5. ASSUME Inv, NEW s \in Session, SessionEnds(s) PROVE Inv'
  <2>1. DeleteSession(s) /\ UNCHANGED <<state, failed, granted, cookie, query, cache, presses>>
    BY <1>5 DEF SessionEnds
  <2>2. Types'
    BY <1>5, <2>1 DEF DeleteSession, Inv, Types, ServerOK, StreamOK, QueryOK, CacheOK, PressesOK,
                      MutationRecord, Session
  <2>3. Answers' /\ ReadIsCurrent' /\ LoggedOut' /\ LoggedIn'
    BY <1>5, <2>1 DEF DeleteSession, Inv, Answers, ReadIsCurrent, LoggedOut, LoggedIn
  <2> QED
    BY <2>2, <2>3 DEF Inv
<1> QED
  BY <1>1, <1>2, <1>3, <1>4, <1>5

\* The event source keeps it.
LEMMA StreamStep == Inv /\ (Connect \/ ConnectRefused \/ Disconnect \/ HandleEvent) => Inv'
<1> USE DEF server, query, cache, presses
<1>1. ASSUME Inv, Connect \/ ConnectRefused \/ Disconnect PROVE Inv'
  <2>1. /\ stream.status \in {"connecting", "open"}
        /\ stream' \in [status : {"connecting", "open", "failed"}, session : 0..granted]
        /\ signals' \in Nat /\ (stream'.status = "open" => signals' = 1)
        /\ (stream'.status # "open" => signals' = 0)
        /\ UNCHANGED <<server, cookie, query, cache, presses>>
    BY <1>1 DEF Connect, ConnectRefused, Disconnect, Inv, Types, ServerOK, StreamOK, Session
  <2>2. Types'
    BY <1>1, <2>1 DEF Inv, Types, ServerOK, StreamOK, QueryOK, CacheOK, PressesOK, MutationRecord
  <2>3. Answers' /\ ReadIsCurrent' /\ LoggedOut' /\ LoggedIn'
    BY <1>1, <2>1 DEF Inv, Answers, ReadIsCurrent, LoggedOut, LoggedIn
  <2> QED
    BY <2>2, <2>3 DEF Inv
<1>2. ASSUME Inv, HandleEvent PROVE Inv'
  <2>1. /\ signals > 0 /\ signals' = signals - 1
        /\ Invalidate(cookie)
        /\ UNCHANGED <<server, cookie, stream, presses>>
    BY <1>2 DEF HandleEvent
  <2>2. stream.status = "open" /\ shown # NoData
    BY <1>2, <2>1 DEF Inv, Types, StreamOK
  <2>3. cookie \in Nat /\ cookie \in 0..granted'
    BY <1>2, <2>1 DEF Inv, Types, ServerOK, Session
  <2>4. Fetch(cookie)
    BY <1>2, <2>1, <2>2, InvalidateLemma
  <2> DEFINE dashboard == error = "none" /\ shown # NoData
  <2>5. /\ QueryOK' /\ error' \in Errors /\ UNCHANGED <<shown, from>>
        /\ dashboard' <=> dashboard
    BY <1>2, <2>3, <2>4, FetchLemma
  <2>6. StreamOK'
    BY <1>2, <2>1, <2>2, <2>5 DEF Inv, Types, StreamOK
  <2>7. Types'
    BY <1>2, <2>1, <2>5, <2>6
    DEF Inv, Types, ServerOK, CacheOK, PressesOK, MutationRecord
  <2>8. Answers' /\ ReadIsCurrent' /\ LoggedOut' /\ LoggedIn'
    BY <1>2, <2>1, <2>3, <2>4, FetchLemma DEF Inv, Answers, ReadIsCurrent, LoggedOut, LoggedIn
  <2> QED
    BY <2>7, <2>8 DEF Inv
<1> QED
  BY <1>1, <1>2

\* The mutations keep it.
LEMMA MutationStep ==
    ASSUME Inv, NEW m \in Mutation,
           \/ Mutate(m) \/ ServerAdmits(m) \/ MutationCommits(m)
           \/ MutationSucceeds(m) \/ MutationFails(m)
    PROVE  Inv'
<1> USE DEF server, query, cache, presses
<1>1. mutation \in [Mutation -> MutationRecord] /\ mutation[m] \in MutationRecord
  BY DEF Inv, Types, PressesOK
<1>2. cookie \in 0..granted /\ 0 \in 0..granted
  BY DEF Inv, Types, ServerOK, Session
<1>3. CASE Mutate(m) \/ ServerAdmits(m) \/ MutationFails(m)
  <2>1. UNCHANGED <<server, cookie, stream, signals, query, cache, login, logout>>
    BY <1>3 DEF Mutate, ServerAdmits, MutationFails
  <2>2. PICK r \in MutationRecord :
           mutation' = [mutation EXCEPT ![m] = r] /\ r.status # "committed"
    <3>1. CASE Mutate(m)
      <4> DEFINE r == [mutation[m] EXCEPT !.status = "sent", !.cookie = cookie]
      <4>1. mutation' = [mutation EXCEPT ![m] = r]
        BY <1>1, <3>1 DEF Mutate, MutationRecord
      <4>2. r \in MutationRecord /\ r.status = "sent"
        BY <1>1, <1>2 DEF MutationRecord, Statuses
      <4> QED
        BY <4>1, <4>2
    <3>2. CASE ServerAdmits(m)
      <4> DEFINE status == IF SessionValid(mutation[m].cookie) THEN "admitted" ELSE "refused"
                 r      == [mutation[m] EXCEPT !.status = status, !.cookie = 0]
      <4>1. mutation' = [mutation EXCEPT ![m] = r]
        BY <1>1, <3>2 DEF ServerAdmits, MutationRecord
      <4>2. status \in {"admitted", "refused"}
        OBVIOUS
      <4> HIDE DEF status
      <4>3. r \in MutationRecord /\ r.status # "committed"
        BY <1>1, <1>2, <4>2 DEF MutationRecord, Statuses
      <4> HIDE DEF r
      <4> QED
        BY <4>1, <4>3
    <3>3. CASE MutationFails(m)
      <4>1. Unsent("done") \in MutationRecord /\ Unsent("done").status = "done"
        BY <1>2 DEF Unsent, MutationRecord, Statuses
      <4> QED
        BY <3>3, <4>1 DEF MutationFails
    <3> QED
      BY <1>3, <3>1, <3>2, <3>3
  <2>3. MutationRecord' = MutationRecord
    BY <2>1 DEF MutationRecord
  <2>4. PressesOK' /\ Answers'
    BY <2>1, <2>2, <2>3, MutationLemma
  <2>5. Types'
    BY <2>1, <2>4 DEF Inv, Types, ServerOK, StreamOK, QueryOK, CacheOK
  <2>6. ReadIsCurrent' /\ LoggedOut' /\ LoggedIn'
    BY <2>1 DEF Inv, ReadIsCurrent, LoggedOut, LoggedIn
  <2> QED
    BY <2>4, <2>5, <2>6 DEF Inv
<1>4. CASE MutationCommits(m)
  <2>1. /\ Commit
        /\ mutation' = [mutation EXCEPT ![m].status = "committed", ![m].answer = state']
        /\ UNCHANGED <<cookie, stream, query, cache, login, logout>>
    BY <1>4 DEF MutationCommits
  <2>2. /\ ServerOK' /\ state' \in PublicState /\ UNCHANGED <<live, granted>> /\ signals' \in Nat
        /\ (stream.status = "open" => signals' # 0)
        /\ (stream.status # "open" => signals' = signals)
    BY <2>1, CommitLemma
  <2> DEFINE r == [mutation[m] EXCEPT !.status = "committed", !.answer = state']
  <2>3. mutation' = [mutation EXCEPT ![m] = r]
    BY <1>1, <2>1 DEF MutationRecord
  <2>4. r \in MutationRecord /\ r.answer \in PublicState /\ MutationRecord' = MutationRecord
    BY <1>1, <2>2 DEF MutationRecord, Statuses
  <2>5. PressesOK' /\ Answers'
    <3> HIDE DEF r
    <3> QED
      BY <2>1, <2>2, <2>3, <2>4, MutationLemma
  <2>6. Types'
    BY <2>1, <2>2, <2>5 DEF Inv, Types, StreamOK, QueryOK, CacheOK
  <2>7. ReadIsCurrent' /\ LoggedOut' /\ LoggedIn'
    BY <2>1, <2>2 DEF Inv, ReadIsCurrent, LoggedOut, LoggedIn
  <2> QED
    BY <2>5, <2>6, <2>7 DEF Inv
<1>5. CASE MutationSucceeds(m)
  <2>1. /\ mutation[m].status = "committed"
        /\ mutation' = [mutation EXCEPT ![m] = Unsent("done")]
        /\ shown' = mutation[m].answer /\ error' = "none" /\ from' = "mutation"
        /\ Render
        /\ UNCHANGED <<server, cookie, query, login, logout>>
    BY <1>5 DEF MutationSucceeds, SetData
  <2>2. shown' \in PublicState /\ shown' # NoData
    BY <2>1 DEF Inv, Answers
  <2>3. CacheOK'
    BY <2>1, <2>2 DEF CacheOK, Errors
  <2>4. StreamOK' /\ (stream'.status = "open" => UNCHANGED <<stream, signals>>)
    BY <2>1, <2>3, RenderLemma DEF CacheOK
  <2>5. Unsent("done") \in MutationRecord /\ Unsent("done").status = "done"
    BY <1>2 DEF Unsent, MutationRecord, Statuses
  <2>6. PressesOK'
    BY <1>1, <2>1, <2>5 DEF Inv, Types, PressesOK, MutationRecord
  <2>7. \A n \in Mutation : mutation'[n].status = "committed" => mutation'[n].answer \in PublicState
    BY <1>1, <2>1, <2>5 DEF Inv, Answers
  <2>8. Answers' /\ LoggedOut' /\ LoggedIn'
    BY <2>1, <2>2, <2>7 DEF Inv, Answers, LoggedOut, LoggedIn
  <2>9. ReadIsCurrent'
    BY <2>1, <2>4 DEF Inv, ReadIsCurrent
  <2>10. Types'
    BY <2>1, <2>3, <2>4, <2>6 DEF Inv, Types, ServerOK, QueryOK
  <2> QED
    BY <2>8, <2>9, <2>10 DEF Inv
<1> QED
  BY <1>3, <1>4, <1>5

\* The login form keeps it.
LEMMA LoginStep == Inv /\ (Login \/ ServerGrants \/ LoginSucceeds \/ LoginFails) => Inv'
<1> USE DEF server, query, cache
<1>1. ASSUME Inv, Login \/ LoginFails PROVE Inv'
  <2>1. /\ login' \in [status : {"idle", "sent"}, session : 0..granted]
        /\ UNCHANGED <<server, cookie, stream, signals, query, cache, mutation, logout>>
    BY <1>1 DEF Login, LoginFails, Inv, Types, ServerOK, PressesOK, Session
  <2>2. Types'
    BY <1>1, <2>1 DEF Inv, Types, ServerOK, StreamOK, QueryOK, CacheOK, PressesOK, MutationRecord
  <2>3. Answers' /\ ReadIsCurrent' /\ LoggedOut' /\ LoggedIn'
    BY <1>1, <2>1 DEF Inv, Answers, ReadIsCurrent, LoggedOut, LoggedIn
  <2> QED
    BY <2>2, <2>3 DEF Inv
<1>2. ASSUME Inv, ServerGrants PROVE Inv'
  <2>1. /\ granted < MaxSession
        /\ granted' = granted + 1 /\ live' = live \cup {granted'}
        /\ login' = [status |-> "granted", session |-> granted']
        /\ UNCHANGED <<state, failed, cookie, stream, signals, query, cache, mutation, logout>>
    BY <1>2 DEF ServerGrants
  <2>2. granted \in Nat /\ granted' \in Session /\ granted' # 0 /\ 0..granted \subseteq 0..granted'
    BY <1>2, <2>1 DEF Inv, Types, ServerOK, Session
  <2>3. ServerOK' /\ StreamOK' /\ QueryOK' /\ CacheOK'
    BY <1>2, <2>1, <2>2 DEF Inv, Types, ServerOK, StreamOK, QueryOK, CacheOK
  <2>4. \A r \in MutationRecord : r \in MutationRecord'
    BY <2>2 DEF MutationRecord
  <2>5. PressesOK'
    BY <1>2, <2>1, <2>2, <2>4 DEF Inv, Types, PressesOK
  <2>6. cookie \in live' => cookie \in live
    BY <1>2, <2>1 DEF Inv, Types, ServerOK, Session
  <2>7. Answers' /\ ReadIsCurrent' /\ LoggedOut' /\ LoggedIn'
    BY <1>2, <2>1, <2>2, <2>6 DEF Inv, Answers, ReadIsCurrent, LoggedOut, LoggedIn
  <2> QED
    BY <2>3, <2>5, <2>7 DEF Inv, Types
<1>3. ASSUME Inv, LoginSucceeds PROVE Inv'
  <2>1. /\ login.status = "granted"
        /\ login' = [status |-> "idle", session |-> 0]
        /\ cookie' = login.session
        /\ Invalidate(login.session)
        /\ UNCHANGED <<server, stream, signals, mutation, logout>>
    BY <1>3 DEF LoginSucceeds, ApplyCookie
  <2>2. login.session \in 0..granted' /\ login.session \in Nat /\ login.session # 0
    BY <1>3, <2>1 DEF Inv, Types, ServerOK, PressesOK, Answers, Session
  <2>3. ServerOK' /\ PressesOK'
    BY <1>3, <2>1, <2>2 DEF Inv, Types, ServerOK, PressesOK, MutationRecord, Session
  <2>4. CASE shown = NoData /\ joined' = TRUE /\ UNCHANGED <<fetch, failures, cache>>
    <3>1. joined' \in BOOLEAN
      BY Zenon, <2>4
    <3>2. Types'
      BY <1>3, <2>1, <2>3, <2>4, <3>1 DEF Inv, Types, StreamOK, QueryOK, CacheOK
    <3>3. Answers' /\ ReadIsCurrent' /\ LoggedOut' /\ LoggedIn'
      BY <1>3, <2>1, <2>2, <2>4 DEF Inv, Answers, ReadIsCurrent, LoggedOut, LoggedIn
    <3> QED
      BY <3>2, <3>3 DEF Inv
  <2>5. CASE Fetch(login.session)
    <3>1. Types'
      BY <1>3, <2>1, <2>2, <2>3, <2>5, FetchLemma DEF Inv, Types, StreamOK, CacheOK
    <3>2. Answers' /\ ReadIsCurrent' /\ LoggedOut' /\ LoggedIn'
      BY <1>3, <2>1, <2>2, <2>5, FetchLemma DEF Inv, Answers, ReadIsCurrent, LoggedOut, LoggedIn
    <3> QED
      BY <3>1, <3>2 DEF Inv
  <2> QED
    BY <1>3, <2>1, <2>4, <2>5, InvalidateLemma
<1> QED
  BY <1>1, <1>2, <1>3

\* The logout button keeps it.
LEMMA LogoutStep == Inv /\ (Logout \/ ServerLogsOut \/ LogoutSucceeds \/ LogoutFails) => Inv'
<1> USE DEF server, query, cache
<1>1. ASSUME Inv, Logout PROVE Inv'
  <2>1. /\ View = "dashboard" /\ logout' = [status |-> "sent", cookie |-> cookie]
        /\ UNCHANGED <<server, cookie, stream, signals, query, cache, mutation, login>>
    BY <1>1 DEF Logout
  <2>2. shown # NoData
    BY <1>1, <2>1, ViewLemma DEF Inv, Types, CacheOK
  <2>3. Types'
    BY <1>1, <2>1 DEF Inv, Types, ServerOK, StreamOK, QueryOK, CacheOK, PressesOK, MutationRecord
  <2>4. Answers' /\ ReadIsCurrent' /\ LoggedOut' /\ LoggedIn'
    BY <1>1, <2>1, <2>2 DEF Inv, Answers, ReadIsCurrent, LoggedOut, LoggedIn
  <2> QED
    BY <2>3, <2>4 DEF Inv
<1>2. ASSUME Inv, ServerLogsOut PROVE Inv'
  <2>1. /\ logout.status = "sent"
        /\ logout' = [status |-> "served", cookie |-> 0]
        /\ DeleteSession(logout.cookie)
        /\ UNCHANGED <<state, failed, granted, cookie, query, cache, mutation, login>>
    BY <1>2 DEF ServerLogsOut
  <2>2. ServerOK'
    BY <1>2, <2>1 DEF DeleteSession, Inv, Types, ServerOK
  <2>3. StreamOK'
    <3>1. CASE UNCHANGED <<stream, signals>>
      BY <1>2, <2>1, <3>1 DEF Inv, Types, StreamOK
    <3>2. CASE /\ stream = [status |-> "open", session |-> logout.cookie]
               /\ stream' = [status |-> "connecting", session |-> 0] /\ signals' = 0
      BY <1>2, <2>1, <3>2 DEF Inv, Types, ServerOK, StreamOK, Session
    <3> QED
      BY <2>1, <3>1, <3>2 DEF DeleteSession
  <2>4. QueryOK' /\ CacheOK' /\ PressesOK'
    BY <1>2, <2>1 DEF Inv, Types, ServerOK, QueryOK, CacheOK, PressesOK, MutationRecord, Session
  <2>5. Answers' /\ ReadIsCurrent' /\ LoggedOut' /\ LoggedIn'
    BY <1>2, <2>1 DEF DeleteSession, Inv, Answers, ReadIsCurrent, LoggedOut, LoggedIn
  <2> QED
    BY <2>2, <2>3, <2>4, <2>5 DEF Inv, Types
<1>3. ASSUME Inv, LogoutSucceeds PROVE Inv'
  <2>1. /\ logout.status = "served"
        /\ logout' = [status |-> "idle", cookie |-> 0]
        /\ cookie' = 0
        /\ Invalidate(0)
        /\ UNCHANGED <<server, stream, signals, mutation, login>>
    BY <1>3 DEF LogoutSucceeds, ClearCookie
  <2>2. 0 \in 0..granted' /\ 0 \in Nat /\ 0 \notin live'
    BY <1>3, <2>1 DEF Inv, Types, ServerOK, Session
  <2>3. Fetch(0)
    BY <1>3, <2>1, InvalidateLemma DEF Inv, Answers
  <2>4. Types'
    BY <1>3, <2>1, <2>2, <2>3, FetchLemma
    DEF Inv, Types, ServerOK, StreamOK, CacheOK, PressesOK, MutationRecord
  <2>5. Answers' /\ ReadIsCurrent' /\ LoggedOut' /\ LoggedIn'
    BY <1>3, <2>1, <2>2, <2>3, FetchLemma DEF Inv, Answers, ReadIsCurrent, LoggedOut, LoggedIn
  <2> QED
    BY <2>4, <2>5 DEF Inv
<1>4. ASSUME Inv, LogoutFails PROVE Inv'
  <2>1. /\ logout' = [status |-> "idle", cookie |-> 0]
        /\ UNCHANGED <<server, cookie, stream, signals, query, cache, mutation, login>>
    BY <1>4 DEF LogoutFails
  <2>2. Types'
    BY <1>4, <2>1 DEF Inv, Types, ServerOK, StreamOK, QueryOK, CacheOK, PressesOK, MutationRecord,
                      Session
  <2>3. Answers' /\ ReadIsCurrent' /\ LoggedOut' /\ LoggedIn'
    BY <1>4, <2>1 DEF Inv, Answers, ReadIsCurrent, LoggedOut, LoggedIn
  <2> QED
    BY <2>2, <2>3 DEF Inv
<1> QED
  BY <1>1, <1>2, <1>3, <1>4

\* A step that changes nothing keeps it.
LEMMA Stutter == Inv /\ UNCHANGED vars => Inv'
<1> SUFFICES ASSUME Inv, UNCHANGED vars PROVE Inv'
  OBVIOUS
<1> USE DEF vars, server, query, cache, presses
<1>1. Types'
  BY DEF Inv, Types, ServerOK, StreamOK, QueryOK, CacheOK, PressesOK, MutationRecord
<1>2. Answers' /\ ReadIsCurrent' /\ LoggedOut' /\ LoggedIn'
  BY DEF Inv, Answers, ReadIsCurrent, LoggedOut, LoggedIn
<1> QED
  BY <1>1, <1>2 DEF Inv

\* The invariant holds in every reachable state.
LEMMA Invariance == Spec => []Inv
<1>1. Inv /\ [Next]_vars => Inv'
  BY QueryStep, ServerStep, StreamStep, MutationStep, LoginStep, LogoutStep, Stutter DEF Next
<1> QED
  BY <1>1, Initially, PTL DEF Spec

-----------------------------------------------------------------------------

(***************************************************************************)
(* Every variable of the page stays in its type, and the page has an       *)
(* EventSource exactly while it shows the dashboard (app.tsx, stream.ts).  *)
(***************************************************************************)
THEOREM DashboardTypeOK == Spec => []TypeOK
<1>1. Inv => TypeOK
  <2> SUFFICES ASSUME Inv PROVE TypeOK
    OBVIOUS
  <2>1. View = "dashboard" <=> stream.status # "none"
    BY ViewLemma DEF Inv, Types, CacheOK, StreamOK
  <2>2. mutation \in [Mutation -> [status : {"idle", "sent", "admitted", "refused", "committed", "done"},
                                   cookie : 0..granted, answer : PublicState \cup {NoData}]]
    BY DEF Inv, Types, PressesOK, MutationRecord, Statuses
  <2> QED
    BY <2>1, <2>2
    DEF Inv, Types, ServerOK, StreamOK, QueryOK, CacheOK, PressesOK, Errors, TypeOK
<1> QED
  BY <1>1, Invariance, PTL

(***************************************************************************)
(* A quiet dashboard shows the newest state, whatever was committed while  *)
(* the stream was lost or between a read and its answer (stream.ts,        *)
(* state.ts).                                                              *)
(***************************************************************************)
THEOREM QuietIsNewest == Spec => []NothingIsMissed
<1>1. Inv => NothingIsMissed
  BY DEF Inv, ReadIsCurrent, NothingIsMissed, Quiet
<1> QED
  BY <1>1, Invariance, PTL

(***************************************************************************)
(* No fetch that was under way brings the dashboard back after a logout.   *)
(***************************************************************************)
THEOREM LogoutClosesTheDashboard == Spec => []LogoutCloses
<1>1. Inv => LogoutCloses
  BY ViewLemma DEF Inv, Types, CacheOK, LoggedOut, LogoutCloses
<1> QED
  BY <1>1, Invariance, PTL

(***************************************************************************)
(* No 401 that was under way keeps a page that logged in on the form.      *)
(***************************************************************************)
THEOREM LoginOpensTheDashboard == Spec => []LoginOpens
<1>1. Inv => LoginOpens
  BY ViewLemma DEF Inv, Types, CacheOK, LoggedIn, LoginOpens
<1> QED
  BY <1>1, Invariance, PTL

-----------------------------------------------------------------------------
\* The data never go back

\* What the query holds is no newer than the server, and an answer under way no
\* older than what the query holds.
Forward ==
    from = "query" /\ shown # NoData =>
        /\ shown.version <= state.version /\ shown.next <= state.next
        /\ fetch.phase \in {"read", "answered"} /\ fetch.answer # Unauthorized =>
              shown.version <= fetch.answer.version /\ shown.next <= fetch.answer.next

\* An answer under way was read from the server, now or before.
AnswerIsOld ==
    fetch.phase \in {"read", "answered"} /\ fetch.answer # Unauthorized =>
        fetch.answer.version <= state.version /\ fetch.answer.next <= state.next

\* The server's numbers only grow.
Grows == state' \in PublicState /\ state.version <= state'.version /\ state.next <= state'.next

\* The server's state never goes back: contacts commit and schedules advance.
LEMMA StateGrows == Inv /\ [Next]_vars => Grows
<1> SUFFICES ASSUME Inv, [Next]_vars PROVE Grows
  OBVIOUS
<1>1. state \in PublicState
  BY DEF Inv, Types, ServerOK
<1>2. CASE UNCHANGED state
  BY <1>1, <1>2 DEF Grows, PublicState
<1>3. CASE Commit
  BY <1>1, <1>3 DEF Commit, Grows, PublicState
<1>4. CASE ContactFails
  BY <1>1, <1>4 DEF ContactFails, Grows, PublicState
<1>5. UNCHANGED state \/ Commit \/ ContactFails
  BY DEF Next, vars, server, Refetch, FetchSucceeds, Fails, FetchFails, ContactSucceeds, ServerReads,
     ServerAnswers, SessionEnds, Connect, ConnectRefused, Disconnect, HandleEvent, Mutate, ServerAdmits,
     MutationCommits, MutationSucceeds, MutationFails, Login, ServerGrants, LoginSucceeds, LoginFails,
     Logout, ServerLogsOut, LogoutSucceeds, LogoutFails
<1> QED
  BY <1>2, <1>3, <1>4, <1>5

(***************************************************************************)
(* What a step can do to the query: nothing; begin a fetch, or end one     *)
(* without data; write a mutation's answer; or one of the three steps that *)
(* carry data from the server to the page.                                 *)
(***************************************************************************)
LEMMA QueryMoves ==
    ASSUME Inv, [Next]_vars
    PROVE  \/ UNCHANGED <<fetch, shown, from>>
           \/ fetch'.phase \in {"idle", "sent"} /\ UNCHANGED <<shown, from>>
           \/ from' = "mutation" /\ UNCHANGED fetch
           \/ FetchSucceeds \/ ServerReads \/ ServerAnswers
<1> USE DEF query, cache
<1>1. ASSUME NEW c, Fetch(c) PROVE fetch'.phase = "sent" /\ UNCHANGED <<shown, from>>
  BY <1>1 DEF Fetch, Sent
<1>2. ASSUME NEW c, Invalidate(c)
      PROVE  UNCHANGED <<fetch, shown, from>> \/ (fetch'.phase = "sent" /\ UNCHANGED <<shown, from>>)
  BY <1>1, <1>2 DEF Invalidate
<1>3. CASE Refetch \/ HandleEvent \/ LoginSucceeds \/ LogoutSucceeds
  BY <1>1, <1>2, <1>3 DEF Refetch, HandleEvent, LoginSucceeds, LogoutSucceeds
<1>4. CASE Fails
  BY <1>4 DEF Fails, FetchFails, Sent, NoFetch
<1>5. CASE \E m \in Mutation : MutationSucceeds(m)
  BY <1>5 DEF MutationSucceeds, SetData
<1>6. CASE \/ ContactSucceeds \/ ContactFails \/ \E s \in Session : SessionEnds(s)
           \/ Connect \/ ConnectRefused \/ Disconnect
           \/ \E m \in Mutation :
                 Mutate(m) \/ ServerAdmits(m) \/ MutationCommits(m) \/ MutationFails(m)
           \/ Login \/ ServerGrants \/ LoginFails \/ Logout \/ ServerLogsOut \/ LogoutFails
  BY <1>6 DEF ContactSucceeds, ContactFails, SessionEnds, Connect, ConnectRefused, Disconnect, Mutate,
     ServerAdmits, MutationCommits, MutationFails, Login, ServerGrants, LoginFails, Logout,
     ServerLogsOut, LogoutFails
<1>7. CASE UNCHANGED vars
  BY <1>7 DEF vars
<1> QED
  BY <1>3, <1>4, <1>5, <1>6, <1>7 DEF Next

\* No step shows older data, but the answer of a mutation that comes late.
LEMMA ForwardStep ==
    ASSUME Inv, Inv', AnswerIsOld, Forward, [Next]_vars
    PROVE  /\ AnswerIsOld' /\ Forward'
           /\ shown # NoData /\ from = "query" /\ from' = "query" =>
                 /\ shown' # NoData
                 /\ shown'.version >= shown.version /\ shown'.next >= shown.next
<1>1. Grows
  BY StateGrows
<1>2. /\ state \in PublicState /\ state' \in PublicState
      /\ shown \in PublicState \cup {NoData} /\ shown' \in PublicState \cup {NoData}
      /\ fetch.answer \in PublicState \cup {NoData, Unauthorized}
      /\ fetch'.answer \in PublicState \cup {NoData, Unauthorized}
  BY DEF Inv, Types, ServerOK, CacheOK, QueryOK
<1>3. /\ fetch.phase \in {"read", "answered"} /\ fetch.answer # Unauthorized
            => fetch.answer \in PublicState
      /\ fetch'.phase \in {"read", "answered"} /\ fetch'.answer # Unauthorized
            => fetch'.answer \in PublicState
  BY <1>2 DEF Inv, Answers
<1>4. CASE UNCHANGED <<fetch, shown, from>>
  BY <1>1, <1>2, <1>3, <1>4 DEF Grows, AnswerIsOld, Forward, PublicState
<1>5. CASE fetch'.phase \in {"idle", "sent"} /\ UNCHANGED <<shown, from>>
  BY <1>1, <1>2, <1>5 DEF Grows, AnswerIsOld, Forward, PublicState
<1>6. CASE from' = "mutation" /\ UNCHANGED fetch
  BY <1>1, <1>2, <1>3, <1>6 DEF Grows, AnswerIsOld, Forward, PublicState
<1>7. CASE FetchSucceeds
  <2>1. /\ fetch.phase = "answered" /\ fetch.answer # Unauthorized
        /\ shown' = fetch.answer /\ fetch'.phase = "idle" /\ from' = "query" /\ UNCHANGED state
    BY <1>7 DEF FetchSucceeds, NoFetch, server
  <2> QED
    BY <1>2, <1>3, <2>1 DEF AnswerIsOld, Forward, PublicState
<1>8. CASE ServerReads
  <2>1. UNCHANGED <<state, shown, from>>
    BY <1>8 DEF ServerReads, server, cache
  <2>2. fetch'.answer # Unauthorized => fetch'.answer = state
    BY <1>8 DEF ServerReads
  <2> QED
    BY <1>2, <2>1, <2>2 DEF AnswerIsOld, Forward, PublicState
<1>9. CASE ServerAnswers
  <2>1. UNCHANGED <<state, shown, from>> /\ fetch.phase = "read" /\ fetch.answer \in PublicState
    BY <1>9 DEF ServerAnswers, server, cache, Inv, Answers
  <2>2. fetch'.answer = [fetch.answer EXCEPT !.next = state.next]
    BY <1>9 DEF ServerAnswers, Inv, Types, QueryOK
  <2>3. fetch'.answer.version = fetch.answer.version /\ fetch'.answer.next = state.next
    BY <2>1, <2>2 DEF PublicState
  <2>4. fetch.answer # Unauthorized
    BY <2>1
  <2> QED
    BY <1>2, <2>1, <2>3, <2>4 DEF AnswerIsOld, Forward, PublicState
<1> QED
  BY <1>4, <1>5, <1>6, <1>7, <1>8, <1>9, QueryMoves

(***************************************************************************)
(* From one answer of GET /state to the next, the data of a page never go  *)
(* back: however fetches are cancelled, joined, retried and answered late, *)
(* no older state takes the place of a newer one, and no error empties the *)
(* page (hooks/state.ts, server-events.ts).  Only around a mutation's      *)
(* answer, which is written whenever it arrives, can they.                 *)
(***************************************************************************)
NeverBackwards ==
    [][ shown # NoData /\ from = "query" /\ from' = "query" =>
          /\ shown' # NoData
          /\ shown'.version >= shown.version /\ shown'.next >= shown.next ]_vars

\* The data that the page shows never move backwards, but for the one
\* exception that setQueryData makes.
THEOREM DataMoveForward == Spec => NeverBackwards
<1> DEFINE Step == shown # NoData /\ from = "query" /\ from' = "query" =>
                     /\ shown' # NoData
                     /\ shown'.version >= shown.version /\ shown'.next >= shown.next
<1>1. NeverBackwards <=> [][Step]_vars
  BY PTL DEF NeverBackwards
<1>2. Init => AnswerIsOld /\ Forward
  BY DEF Init, AnswerIsOld, Forward, Sent
<1>3. Inv /\ Inv' /\ AnswerIsOld /\ Forward /\ [Next]_vars
        => AnswerIsOld' /\ Forward' /\ [Step]_vars
  BY ForwardStep
<1> HIDE DEF Step
<1> QED
  BY <1>1, <1>2, <1>3, Invariance, PTL DEF Spec

-----------------------------------------------------------------------------
\* The server's sessions and the page's stream

\* The page's stream, as the server has it.
PageStreams ==
    IF stream.status = "open"
    THEN {[stream |-> "page", session |-> stream.session, method |-> "session"]}
    ELSE {}

Store == INSTANCE AtomicSessions WITH
    Session   <- 1..MaxSession,
    Presented <- 0..MaxSession,
    Stream    <- {"page"},
    live      <- live,
    used      <- 1..granted,
    open      <- PageStreams

\* An open stream is that of a live session.
StreamIsLive == stream.status = "open" => stream.session \in live

\* A session that ends takes its stream with it: the End of AtomicSessions.
LEMMA DeleteIsEnd ==
    ASSUME Inv, StreamIsLive, NEW s, DeleteSession(s), UNCHANGED granted
    PROVE  StreamIsLive' /\ Store!Next
<1>1. live' = live \ {s} /\ live \cap {s} \in SUBSET live /\ live' = live \ (live \cap {s})
  BY DEF DeleteSession
<1>2. CASE stream = [status |-> "open", session |-> s]
  <2>1. stream.status = "open" /\ stream.session = s /\ s \in live
    BY <1>2 DEF StreamIsLive
  <2>2. stream'.status # "open"
    BY <1>2 DEF DeleteSession
  <2>3. Store!End(live \cap {s})
    BY <1>1, <2>1, <2>2 DEF Store!End, Store!Without, PageStreams
  <2> QED
    BY <1>1, <2>2, <2>3 DEF StreamIsLive, Store!Next
<1>3. CASE stream # [status |-> "open", session |-> s]
  <2>1. UNCHANGED stream
    BY <1>3 DEF DeleteSession
  <2>2. stream.status = "open" => stream.session # s
    BY <1>3 DEF Inv, Types, StreamOK
  <2>3. PageStreams' = PageStreams /\ Store!Without(live \cap {s}) = PageStreams
    BY <2>1, <2>2 DEF PageStreams, Store!Without
  <2>4. Store!End(live \cap {s})
    BY <1>1, <2>3 DEF Store!End
  <2> QED
    BY <1>1, <2>1, <2>2, <2>4 DEF StreamIsLive, Store!Next
<1> QED
  BY <1>2, <1>3

\* What the page does to its stream by showing something else.
LEMMA RenderLeaves ==
    ASSUME Inv, StreamIsLive, error' \in Errors, Render, UNCHANGED <<live, granted>>
    PROVE  StreamIsLive' /\ (Store!Next \/ UNCHANGED Store!vars)
<1>1. StreamOK' /\ (stream'.status = "open" => UNCHANGED stream)
  BY RenderLemma
<1>2. CASE stream'.status = "open"
  BY <1>1, <1>2 DEF StreamIsLive, PageStreams, Store!vars
<1>3. CASE stream'.status # "open" /\ stream.status = "open"
  <2> DEFINE o == [stream |-> "page", session |-> stream.session, method |-> "session"]
  <2>1. PageStreams = {o} /\ PageStreams' = {}
    BY <1>3 DEF PageStreams
  <2>2. Store!Leave(o) /\ o \in PageStreams
    BY <2>1 DEF Store!Leave
  <2> QED
    BY <1>3, <2>2 DEF StreamIsLive, Store!Next
<1>4. CASE stream'.status # "open" /\ stream.status # "open"
  BY <1>4 DEF StreamIsLive, PageStreams, Store!vars
<1> QED
  BY <1>2, <1>3, <1>4

\* Each step of the page and its server creates or ends a session, opens or
\* closes a stream, or leaves the abstract store as it is.
LEMMA StoreStep ==
    ASSUME Inv, Inv', StreamIsLive, [Next]_vars
    PROVE  StreamIsLive' /\ [Store!Next]_Store!vars
<1> USE DEF server, query, cache, presses
<1>1. CASE UNCHANGED <<live, granted, stream>>
  BY <1>1 DEF StreamIsLive, PageStreams, Store!vars
<1>2. CASE FetchSucceeds \/ Fails \/ \E m \in Mutation : MutationSucceeds(m)
  <2>1. error' \in Errors /\ UNCHANGED <<live, granted>> /\ (Render \/ UNCHANGED stream)
    BY <1>2 DEF FetchSucceeds, Fails, FetchFails, MutationSucceeds, Inv, Types, CacheOK
  <2> QED
    BY <1>1, <2>1, RenderLeaves
<1>3. CASE \E s \in Session : SessionEnds(s)
  BY <1>3, DeleteIsEnd DEF SessionEnds
<1>4. CASE ServerLogsOut
  BY <1>4, DeleteIsEnd DEF ServerLogsOut
<1>5. CASE Connect
  <2>1. /\ stream.status = "connecting" /\ cookie \in live /\ live' = live /\ granted' = granted
        /\ stream' = [status |-> "open", session |-> cookie]
    BY <1>5 DEF Connect, SessionValid
  <2>2. PageStreams = {} /\ PageStreams' = {[stream |-> "page", session |-> cookie, method |-> "session"]}
    BY <2>1 DEF PageStreams
  <2>3. cookie \in 0..MaxSession /\ {} \in SUBSET live
    BY <2>1 DEF Inv, Types, ServerOK, Session
  <2>4. Store!Open("page", cookie, "session", {})
    BY <2>1, <2>2 DEF Store!Open, Store!Without
  <2> QED
    BY <2>1, <2>3, <2>4 DEF StreamIsLive, Store!Next
<1>6. CASE Disconnect
  <2>1. /\ stream.status = "open" /\ live' = live /\ granted' = granted
        /\ stream'.status = "connecting"
    BY <1>6 DEF Disconnect
  <2> DEFINE o == [stream |-> "page", session |-> stream.session, method |-> "session"]
  <2>2. PageStreams = {o} /\ PageStreams' = {}
    BY <2>1 DEF PageStreams
  <2>3. Store!Leave(o) /\ o \in PageStreams
    BY <2>1, <2>2 DEF Store!Leave
  <2> QED
    BY <2>1, <2>3 DEF StreamIsLive, Store!Next
<1>7. CASE ConnectRefused
  BY <1>7 DEF ConnectRefused, StreamIsLive, PageStreams, Store!vars
<1>8. CASE ServerGrants
  <2>1. /\ granted < MaxSession /\ granted' = granted + 1 /\ live' = live \cup {granted + 1}
        /\ UNCHANGED stream
    BY <1>8 DEF ServerGrants
  <2>2. granted \in Nat /\ granted + 1 \in 1..MaxSession
    BY <2>1 DEF Inv, Types, ServerOK, Session
  <2>3. granted + 1 \notin 1..granted /\ 1..granted' = (1..granted) \cup {granted + 1}
    BY <2>1, <2>2
  <2>4. Store!Login(granted + 1)
    BY <2>1, <2>3 DEF Store!Login, PageStreams
  <2> QED
    BY <2>1, <2>2, <2>4 DEF StreamIsLive, Store!Next
<1>9. CASE Refetch \/ HandleEvent \/ LoginSucceeds \/ LogoutSucceeds
  BY <1>1, <1>9 DEF Refetch, HandleEvent, LoginSucceeds, LogoutSucceeds
<1>10. CASE \/ ContactSucceeds \/ ContactFails \/ ServerReads \/ ServerAnswers
            \/ \E m \in Mutation :
                  Mutate(m) \/ ServerAdmits(m) \/ MutationCommits(m) \/ MutationFails(m)
            \/ Login \/ LoginFails \/ Logout \/ LogoutFails \/ UNCHANGED vars
  BY <1>1, <1>10 DEF ContactSucceeds, ContactFails, Commit, ServerReads, ServerAnswers, Mutate,
     ServerAdmits, MutationCommits, MutationFails, Login, LoginFails, Logout, LogoutFails, vars
<1> QED
  BY <1>2, <1>3, <1>4, <1>5, <1>6, <1>7, <1>8, <1>9, <1>10 DEF Next

(***************************************************************************)
(* What Dashboard takes for granted of the server is what the server       *)
(* keeps: the sessions it grants and ends, and the page's stream, opened   *)
(* under a live session, lost, given up, or closed by the very step that   *)
(* ends that session, are AtomicSessions' - which the session store and    *)
(* the stream registry implement (session.ts, sse.ts, context.ts:35-41).   *)
(***************************************************************************)
THEOREM ServerAsPromised == Spec => Store!Spec
<1>1. Init => Store!Init /\ StreamIsLive
  BY DEF Init, Store!Init, NoStream, PageStreams, StreamIsLive, Session
<1>2. Inv /\ Inv' /\ StreamIsLive /\ [Next]_vars => StreamIsLive' /\ [Store!Next]_Store!vars
  BY StoreStep
<1>3. Spec => [][Store!Next]_Store!vars
  BY <1>1, <1>2, Invariance, PTL DEF Spec
<1> QED
  BY <1>1, <1>3, PTL DEF Spec, Store!Spec

=============================================================================
