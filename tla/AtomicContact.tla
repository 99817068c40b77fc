--------------------------- MODULE AtomicContact ----------------------------
(***************************************************************************)
(* What the contact scheduler promises its callers: every contact is one   *)
(* atomic read-modify-write of the persisted state.  Between being called  *)
(* and replying, a contact takes effect at one instant (Commit) or, when   *)
(* it fails, never; what it replies is the state it committed.  A restart  *)
(* forgets the calls and keeps the store.                                  *)
(***************************************************************************)
EXTENDS ContactState

CONSTANT Caller

VARIABLES
    store,   \* what a reader of the persisted state sees
    call     \* call[c]: the contact that c asked for

vars == <<store, call>>

Store == [readable : BOOLEAN, state : State]

Entry(status, newCookie, state, answer) ==
    [status |-> status, newCookie |-> newCookie, state |-> state, answer |-> answer]

Idle == Entry("idle", NoCookie, NoState, NoAnswer)
Pending(k) == Entry("pending", k, NoState, NoAnswer)

Init ==
    /\ store \in Store
    /\ call = [c \in Caller |-> Idle]

Request(c, k) ==
    /\ call[c] = Idle
    /\ call' = [call EXCEPT ![c] = Pending(k)]
    /\ UNCHANGED store

Commit(c) ==
    /\ call[c].status = "pending"
    /\ store.readable
    /\ LET base == Base(store.state, call[c].newCookie) IN
       \E answer \in AnswersTo(base) :
          LET result == ContactResult(base, answer) IN
          /\ store' = [readable |-> TRUE, state |-> result]
          /\ call' = [call EXCEPT ![c] =
                        Entry("committed", call[c].newCookie, result, answer)]

\* The reply carries call[c].state, the state this very call committed.
Reply(c) ==
    /\ call[c].status = "committed"
    /\ call' = [call EXCEPT ![c] = Idle]
    /\ UNCHANGED store

Fail(c) ==
    /\ call[c].status = "pending"
    /\ call' = [call EXCEPT ![c] = Idle]
    /\ UNCHANGED store

\* A new process starts with its start-up contact.
Restart(c) ==
    /\ call' = [d \in Caller |-> IF d = c THEN Pending(NoCookie) ELSE Idle]
    /\ UNCHANGED store

Next ==
    \E c \in Caller :
       \/ \E k \in CookieOrNone : Request(c, k)
       \/ Commit(c)
       \/ Reply(c)
       \/ Fail(c)
       \/ Restart(c)

Spec == Init /\ [][Next]_vars

=============================================================================
