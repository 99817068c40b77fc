--------------------------- MODULE AtomicRegister ---------------------------
(***************************************************************************)
(* What `pia-wg register` promises its callers: the registration in        *)
(* state.json changes to another one at one instant (Commit), and then PIA *)
(* holds its key; a register that fails leaves state.json alone, though    *)
(* PIA may have replaced the key it names - unless it dies after Commit.   *)
(* These are the Register, RegisterFails and RegisterCut that PiaRecovery  *)
(* takes for atomic steps, and its registrations: the server, and whether  *)
(* PIA still holds the key.                                                *)
(***************************************************************************)
CONSTANTS Server, NoServer

VARIABLES
    saved,   \* state.json
    call     \* the register: "pending", "committed", or how the last one ended

vars == <<saved, call>>

Unregistered == [cn |-> NoServer, valid |-> FALSE]
Registered(s) == [cn |-> s, valid |-> TRUE]
Outdated(registration, s) ==
    IF registration.cn = s THEN [registration EXCEPT !.valid = FALSE] ELSE registration

Ended == {"ok", "failed"}

Init == saved = Unregistered /\ call = "failed"

Begin ==
    /\ call \in Ended
    /\ call' = "pending"
    /\ UNCHANGED saved

\* PIA forgets the key of an earlier registration with s, long before ...
Replace(s) ==
    /\ call = "pending"
    /\ saved' = Outdated(saved, s)
    /\ UNCHANGED call

\* ... the new one is saved.
Commit(s) ==
    /\ call = "pending"
    /\ saved' = Registered(s)
    /\ call' = "committed"

Reply ==
    /\ call = "committed"
    /\ call' = "ok"
    /\ UNCHANGED saved

\* Also before it begins (bad arguments), or once it is saved (the process dies).
Fail ==
    /\ call' = "failed"
    /\ \/ UNCHANGED saved
       \/ call = "pending" /\ \E s \in Server : saved' = Outdated(saved, s)

Next ==
    \/ Begin \/ Reply \/ Fail
    \/ \E s \in Server : Replace(s) \/ Commit(s)

Spec == Init /\ [][Next]_vars

=============================================================================
