------------------------------ MODULE Contact -------------------------------
(***************************************************************************)
(* Mousehole's contact scheduler (src/backend/contact.ts) with its mutex,  *)
(* its interval timer, the state file it writes, and the process around it *)
(* that is started, asked to stop, or killed at any instant.               *)
(*                                                                         *)
(* A contact is a call of commitContact: the start-up contact, a firing of *)
(* the timer, POST /updates or PUT /cookie.  Each of its awaits is a point *)
(* where the event loop runs something else, so each stretch between two   *)
(* awaits is one action here.  The mutex is a FIFO chain of promises:      *)
(* acquire() appends to it synchronously and the head holds the lock.      *)
(***************************************************************************)
EXTENDS ContactState, Naturals, Sequences

CONSTANTS
    Caller,    \* slots for calls of commitContact: bounds the calls pending at once
    Stopper    \* slots for calls of stop(): bounds the SIGINT/SIGTERM handled

ASSUME SlotAssumption == Caller \cap Stopper = {}

VARIABLES
    disk,      \* state.json
    tmp,       \* state.json.tmp
    phase,     \* "running", or how the last process ended: "exited", "crashed"
    stopped,   \* contact.ts `stopped`
    task,      \* currentBackgroundTask: "none", "armed", or "fired" (timer spent)
    chain,     \* mutex.ts: who called acquire() and did not release, in order
    call       \* call[c]: the locals of the commitContact that c runs

vars == <<disk, tmp, phase, stopped, task, chain, call>>

\* Where a call of commitContact is suspended.
PC == {"idle", "waiting", "contacting", "writing", "renaming", "persisted"}

Call == [pc : PC, newCookie : CookieOrNone, state : State, answer : Answer]

Idle == [pc |-> "idle", newCookie |-> NoCookie, state |-> NoState, answer |-> NoAnswer]

Called(k) == [Idle EXCEPT !.pc = "waiting", !.newCookie = k]

\* The stretch from the read of state.json to the release of the mutex.
Critical == {"contacting", "writing", "renaming", "persisted"}

\* seq[i] = w for some i, and for no two of them.
Queued(seq, w) == \E i \in 1..Len(seq) : seq[i] = w
Distinct(seq) == \A i, j \in 1..Len(seq) : seq[i] = seq[j] => i = j

-----------------------------------------------------------------------------

\* The files a process can find: none yet, another version's, its own, or a
\* damaged one.
InitialFile ==
    {Absent, Corrupt}
    \cup {[format |-> f, state |-> [cookie |-> k, contact |-> "updated"]] :
              f \in {"legacy", "foreign"}, k \in CookieValue}
    \cup {Serialized([cookie |-> NoCookie, contact |-> r]) : r \in {"lookup", "unreachable"}}
    \cup {Serialized([cookie |-> k, contact |-> r]) :
              k \in Cookie \cup {EmptyCookie}, r \in {"updated", "unreachable"}}

Init ==
    /\ disk \in InitialFile
    /\ tmp = Absent
    /\ phase = "exited"
    /\ stopped = FALSE
    /\ task = "none"
    /\ chain = << >>
    /\ call = [c \in Caller |-> Idle]

\* Mutant: a new call goes in front of those already waiting.
EnqueueFirst(c, k) ==
    /\ phase = "running"
    /\ call[c].pc = "idle"
    /\ call' = [call EXCEPT ![c] = Called(k)]
    /\ chain' = <<c>> \o chain

\* commitContact up to `await mutex.acquire()`.
Enqueue(c, k) ==
    /\ phase = "running"
    /\ call[c].pc = "idle"
    /\ call' = [call EXCEPT ![c] = Called(k)]
    /\ chain' = Append(chain, c)

\* Mutant: commitContact does not wait for the mutex.
HasMutexUnawaited(c) == call[c].pc = "waiting"

\* await mutex.acquire() returns to c.
HasMutex(c) == /\ call[c].pc = "waiting"
               /\ chain # << >>
               /\ Head(chain) = c

\* Mutants: a stopped scheduler re-arms its timer; a spent timer passes for armed.
ScheduleNextStopped == task' = "armed"
ScheduleNextOnce ==
    task' = IF stopped THEN "none" ELSE IF task = "none" THEN "armed" ELSE task

\* Clear the timer, whether spent or pending; re-arm it unless stopped.
ScheduleNext == task' = IF stopped THEN "none" ELSE "armed"

\* Mutant: the mutex is not released.
SettleUnreleased(c) ==
    /\ ScheduleNext
    /\ call' = [call EXCEPT ![c] = Idle]
    /\ UNCHANGED chain

\* The finally block, which also ends c's call.
Settle(c) ==
    /\ ScheduleNext
    /\ chain' = Tail(chain)
    /\ call' = [call EXCEPT ![c] = Idle]

-----------------------------------------------------------------------------

\* A new process: startServer calls contacts.start(), the first contact.
Boot(c) ==
    /\ phase # "running"
    /\ phase' = "running"
    /\ stopped' = FALSE
    /\ task' = "none"
    /\ chain' = <<c>>
    /\ call' = [d \in Caller |-> IF d = c THEN Called(NoCookie) ELSE Idle]
    /\ UNCHANGED <<disk, tmp>>

TimerFires(c) ==
    /\ task = "armed"
    /\ task' = "fired"
    /\ Enqueue(c, NoCookie)
    /\ UNCHANGED <<disk, tmp, phase, stopped>>

PostUpdates(c) ==
    /\ Enqueue(c, NoCookie)
    /\ UNCHANGED <<disk, tmp, phase, stopped, task>>

PutCookie(c, k) ==
    /\ Enqueue(c, k)
    /\ UNCHANGED <<disk, tmp, phase, stopped, task>>

\* await stateFile.readIfExists(); the request to MAM leaves with the base cookie.
ReadState(c) ==
    /\ phase = "running"
    /\ HasMutex(c)
    /\ Readable(disk)
    /\ call' = [call EXCEPT ![c].pc = "contacting",
                            ![c].state = Base(Parse(disk), call[c].newCookie)]
    /\ UNCHANGED <<disk, tmp, phase, stopped, task, chain>>

\* Mutants: without the finally a failed read skips scheduleNext(), or release().
ReadFailsUnscheduled(c) ==
    /\ phase = "running"
    /\ HasMutex(c)
    /\ chain' = Tail(chain)
    /\ call' = [call EXCEPT ![c] = Idle]
    /\ UNCHANGED <<disk, tmp, phase, stopped, task>>

ReadFailsUnreleased(c) ==
    /\ phase = "running"
    /\ HasMutex(c)
    /\ ScheduleNext
    /\ call' = [call EXCEPT ![c] = Idle]
    /\ UNCHANGED <<disk, tmp, phase, stopped, chain>>

\* A corrupt file, or an error of the file system on a sound one.
ReadFails(c) ==
    /\ phase = "running"
    /\ HasMutex(c)
    /\ Settle(c)
    /\ UNCHANGED <<disk, tmp, phase, stopped>>

\* Mutant: the cookie MAM rotates to is not taken over.
MamAnswersUnrotated(c, answer) ==
    /\ phase = "running"
    /\ call[c].pc = "contacting"
    /\ answer \in AnswersTo(call[c].state)
    /\ call' = [call EXCEPT ![c].pc = "writing",
                            ![c].state = [@ EXCEPT !.contact = answer.kind],
                            ![c].answer = answer]
    /\ UNCHANGED <<disk, tmp, phase, stopped, task, chain>>

\* await contactMam(base): it never throws, and the time-out bounds its wait.
MamAnswers(c, answer) ==
    /\ phase = "running"
    /\ call[c].pc = "contacting"
    /\ answer \in AnswersTo(call[c].state)
    /\ call' = [call EXCEPT ![c].pc = "writing",
                            ![c].state = ContactResult(call[c].state, answer),
                            ![c].answer = answer]
    /\ UNCHANGED <<disk, tmp, phase, stopped, task, chain>>

\* await fs.mkdir, await fs.writeFile(temporaryPath).
WriteTemporary(c) ==
    /\ phase = "running"
    /\ call[c].pc = "writing"
    /\ tmp' = Serialized(call[c].state)
    /\ call' = [call EXCEPT ![c].pc = "renaming"]
    /\ UNCHANGED <<disk, phase, stopped, task, chain>>

\* Mutant: state.json is written in place.
WriteFailsInPlace(c) ==
    /\ phase = "running"
    /\ call[c].pc = "writing"
    /\ disk' \in {disk, Corrupt}
    /\ Settle(c)
    /\ UNCHANGED <<tmp, phase, stopped>>

\* mkdir fails, or writeFile does before or after it has written something.
WriteFails(c) ==
    /\ phase = "running"
    /\ call[c].pc = "writing"
    /\ tmp' \in {tmp, Corrupt}
    /\ Settle(c)
    /\ UNCHANGED <<disk, phase, stopped>>

\* fs.rename takes effect; its promise resolves in a later turn.
Rename(c) ==
    /\ phase = "running"
    /\ call[c].pc = "renaming"
    /\ disk' = tmp
    /\ tmp' = Absent
    /\ call' = [call EXCEPT ![c].pc = "persisted"]
    /\ UNCHANGED <<phase, stopped, task, chain>>

RenameFails(c) ==
    /\ phase = "running"
    /\ call[c].pc = "renaming"
    /\ Settle(c)
    /\ UNCHANGED <<disk, tmp, phase, stopped>>

\* notifyClients(), and the caller gets call[c].state.
Finish(c) ==
    /\ phase = "running"
    /\ call[c].pc = "persisted"
    /\ Settle(c)
    /\ UNCHANGED <<disk, tmp, phase, stopped>>

\* stop() up to `await mutex.acquire()`, once per signal.
Stop(s) ==
    /\ phase = "running"
    /\ ~ Queued(chain, s)
    /\ stopped' = TRUE
    /\ task' = "none"
    /\ chain' = Append(chain, s)
    /\ UNCHANGED <<disk, tmp, phase, call>>

\* Mutant: the process exits without draining the contact in flight.
ExitUndrained ==
    /\ phase = "running"
    /\ stopped
    /\ phase' = "exited"
    /\ UNCHANGED <<disk, tmp, stopped, task, chain, call>>

\* stop() holds the mutex for good: server.stop(true), process.exit(0).
Exit ==
    /\ phase = "running"
    /\ chain # << >>
    /\ Head(chain) \in Stopper
    /\ phase' = "exited"
    /\ UNCHANGED <<disk, tmp, stopped, task, chain, call>>

\* The process is killed.  A file being written is left as it was, torn, or whole.
Crash ==
    /\ phase = "running"
    /\ phase' = "crashed"
    /\ \/ tmp' = tmp
       \/ \E c \in Caller : call[c].pc = "writing" /\ tmp' = Corrupt
    /\ UNCHANGED <<disk, stopped, task, chain, call>>

-----------------------------------------------------------------------------

\* What a call does once it holds the mutex.
Progress(c) ==
    \/ ReadState(c)
    \/ ReadFails(c)
    \/ \E answer \in Answer : MamAnswers(c, answer)
    \/ WriteTemporary(c)
    \/ WriteFails(c)
    \/ Rename(c)
    \/ RenameFails(c)
    \/ Finish(c)

Next ==
    \/ \E c \in Caller :
          \/ Boot(c)
          \/ TimerFires(c)
          \/ PostUpdates(c)
          \/ \E k \in Cookie : PutCookie(c, k)
          \/ Progress(c)
    \/ \E s \in Stopper : Stop(s)
    \/ Exit
    \/ Crash

Spec == Init /\ [][Next]_vars

(***************************************************************************)
(* The event loop resumes every call whose await is over: file operations  *)
(* end, the MAM request ends by its time-out at the latest, and a timer    *)
(* that is armed fires.  Nothing obliges anyone to send a request, to stop *)
(* the process, to kill it or to boot it again.                            *)
(***************************************************************************)
Fairness ==
    /\ \A c \in Caller : WF_vars(Progress(c))
    /\ WF_vars(\E c \in Caller : TimerFires(c))
    /\ WF_vars(Exit)

FairSpec == Spec /\ Fairness

-----------------------------------------------------------------------------

TypeOK ==
    /\ disk \in File
    /\ tmp \in File
    /\ phase \in {"running", "exited", "crashed"}
    /\ stopped \in BOOLEAN
    /\ task \in {"none", "armed", "fired"}
    /\ chain \in Seq(Caller \cup Stopper)
    /\ call \in [Caller -> Call]

(***************************************************************************)
(* Mutual exclusion: only the call at the head of the mutex's chain is     *)
(* between the read of state.json and the release, whatever was queued     *)
(* meanwhile (contact.ts:173-176).                                         *)
(***************************************************************************)
MutualExclusion ==
    \A c \in Caller : call[c].pc \in Critical => chain # << >> /\ Head(chain) = c

(***************************************************************************)
(* No lost update: what a call holds across its awaits was computed from   *)
(* the state that is still on disk, so its rename overwrites nothing it    *)
(* has not seen - a PUT that arrives during a contact is not undone, nor   *)
(* is a rotated cookie (contact.ts:190-196).                               *)
(***************************************************************************)
NoLostUpdate ==
    \A c \in Caller :
       LET base == Base(Parse(disk), call[c].newCookie) IN
       /\ call[c].pc = "contacting" => call[c].state = base
       /\ call[c].pc \in {"writing", "renaming"} =>
             call[c].state = ContactResult(base, call[c].answer)
       /\ call[c].pc = "renaming" =>
             tmp = Serialized(call[c].state)

(***************************************************************************)
(* The loop never dies: in a running process that was not told to stop,    *)
(* the timer is armed or some contact is on its way to arming it, however  *)
(* contacts fail (the finally of contact.ts:199-202).                      *)
(***************************************************************************)
LoopAlive ==
    phase = "running" /\ ~stopped =>
       task = "armed" \/ \E c \in Caller : call[c].pc # "idle"

(***************************************************************************)
(* Stopping is final: once stop() ran no timer is armed, though contacts   *)
(* in flight still run scheduleNext (contact.ts:147-150, 220-227).         *)
(***************************************************************************)
StopIsFinal == stopped => task = "none"

(***************************************************************************)
(* A graceful exit drains: when the process exits on its own no contact is *)
(* cut between its read and its write (contact.ts:216-219).                *)
(***************************************************************************)
ExitIsClean ==
    phase = "exited" => \A c \in Caller : call[c].pc \notin Critical

(***************************************************************************)
(* Everyone who called acquire() and was not answered is in the chain,     *)
(* once, and nobody else is: no call waits on a lock that nobody holds.    *)
(***************************************************************************)
QueueIsExact ==
    /\ Distinct(chain)
    /\ \A c \in Caller : call[c].pc # "idle" <=> Queued(chain, c)

(***************************************************************************)
(* state.json is never torn, by a crash or a failed write at any point:    *)
(* a readable file stays readable (store.ts:71-73).                        *)
(***************************************************************************)
DiskStaysReadable == [][disk.format # "corrupt" => disk'.format # "corrupt"]_vars

(***************************************************************************)
(* An unreadable file is left alone: it may hold the real cookie, and no   *)
(* contact writes over it (store.ts:33-38).                                *)
(***************************************************************************)
UnreadableIsKept == [][disk.format = "corrupt" => disk' = disk]_vars

(***************************************************************************)
(* A usable cookie, once stored, is only ever replaced by another: no      *)
(* failure, restart or overlap of contacts and no migration of a version 1 *)
(* file leaves a state without one (store.ts:33-38, cookie.ts:9-10).  The  *)
(* code drops one in two cases only: a file whose cookie is not under      *)
(* currentCookie reads as a state without (migrate.ts:19-27), and MAM's    *)
(* rotation of it to the empty string is stored as it is (contact.ts:126), *)
(* which the contacts after take for no cookie at all (contact.ts:89).     *)
(***************************************************************************)
CookieIsKept ==
    [][disk.state.cookie \in Cookie =>
          \/ disk'.state.cookie \in Cookie
          \/ disk.format = "foreign"
          \/ \E c \in Caller : /\ call[c].pc = "renaming"
                              /\ call[c].answer.rotated = EmptyCookie]_vars

(***************************************************************************)
(* What the invariants above rest on, and the proofs need: a slot that is  *)
(* idle holds nothing; a missing or corrupt file holds no state; a call    *)
(* past its read saw a readable file, and past MAM's answer it holds one   *)
(* that MAM can give to its base.                                          *)
(***************************************************************************)
CallsAreSound ==
    \A c \in Caller :
       /\ call[c].pc = "idle" => call[c] = Idle
       /\ call[c].pc \in {"waiting", "contacting"} => call[c].answer = NoAnswer
       /\ call[c].pc \in {"contacting", "writing", "renaming"} => Readable(disk)
       /\ call[c].pc \in {"writing", "renaming"} =>
             call[c].answer \in AnswersTo(Base(Parse(disk), call[c].newCookie))

DiskIsSound == disk.format \in {"absent", "corrupt"} => disk.state = NoState

IInv ==
    /\ TypeOK
    /\ QueueIsExact
    /\ MutualExclusion
    /\ NoLostUpdate
    /\ CallsAreSound
    /\ DiskIsSound
    /\ LoopAlive
    /\ StopIsFinal
    /\ ExitIsClean

-----------------------------------------------------------------------------

\* The refinement mapping: a contact takes effect at its rename.
AbstractCall(c) ==
    [status    |-> CASE call[c].pc = "idle"      -> "idle"
                     [] call[c].pc = "persisted" -> "committed"
                     [] OTHER                    -> "pending",
     newCookie |-> call[c].newCookie,
     state     |-> IF call[c].pc = "persisted" THEN call[c].state ELSE NoState,
     answer    |-> IF call[c].pc = "persisted" THEN call[c].answer ELSE NoAnswer]

Atomic == INSTANCE AtomicContact WITH
    store <- [readable |-> Readable(disk), state |-> Parse(disk)],
    call  <- [c \in Caller |-> AbstractCall(c)]

(***************************************************************************)
(* "The whole read-modify-write is atomic against the background loop or   *)
(* any other requests" (contact.ts:174-176): to its callers and to every   *)
(* reader of state.json the scheduler is AtomicContact, whatever           *)
(* interleaves, fails or is killed.                                        *)
(***************************************************************************)
AtomicSpec == Atomic!Spec

(***************************************************************************)
(* Every call that the event loop accepted is answered, or the process     *)
(* ends: no failure leaves the mutex held (contact.ts:199-202).            *)
(***************************************************************************)
CallsAreAnswered ==
    \A c \in Caller :
       call[c].pc = "waiting" ~> call[c].pc = "idle" \/ phase # "running"

(***************************************************************************)
(* A process that was told to stop ends: the contacts queued before the    *)
(* stop drain, and none queued after it holds it up (contact.ts:216-219).  *)
(***************************************************************************)
StopTerminates == stopped /\ phase = "running" ~> phase # "running"

(***************************************************************************)
(* A process that is neither stopped nor killed contacts MAM for ever:     *)
(* every failure is followed by another attempt (contact.ts:173, 208).     *)
(***************************************************************************)
ContactsRecur ==
    <>[](phase = "running" /\ ~stopped) => []<>(\E c \in Caller : HasMutex(c))

=============================================================================
