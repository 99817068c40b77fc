--------------------------- MODULE ContactProofs ----------------------------
(***************************************************************************)
(* Proofs about Contact for any number of calls, stops and cookies.        *)
(***************************************************************************)
EXTENDS Contact, SequenceTheorems, TLAPS

USE CookieAssumption, SlotAssumption

Waiter == Caller \cup Stopper

(***************************************************************************)
(* acquire(): a newcomer goes to the end of the chain of the mutex, where  *)
(* it becomes the head only of an empty chain.                             *)
(***************************************************************************)
LEMMA AcquireLemma ==
    ASSUME NEW s \in Seq(Waiter), NEW e \in Waiter, Distinct(s), ~ Queued(s, e)
    PROVE  /\ Append(s, e) \in Seq(Waiter)
           /\ Distinct(Append(s, e))
           /\ \A w : Queued(Append(s, e), w) <=> Queued(s, w) \/ w = e
           /\ Append(s, e) # << >>
           /\ s # << >> => Head(Append(s, e)) = Head(s)
<1> DEFINE a == Append(s, e)
<1>1. /\ a \in Seq(Waiter)
      /\ a # << >>
      /\ Len(a) = Len(s) + 1
      /\ \A i \in 1..Len(s) : a[i] = s[i]
      /\ a[Len(s) + 1] = e
  BY AppendProperties
<1>2. Len(s) \in Nat
  BY LenProperties
<1> HIDE DEF a
<1>3. Distinct(a)
  BY <1>1, <1>2 DEF Distinct, Queued
<1>4. ASSUME NEW w PROVE Queued(a, w) <=> Queued(s, w) \/ w = e
  BY <1>1, <1>2 DEF Queued
<1>5. s # << >> => Head(a) = Head(s)
  <2> SUFFICES ASSUME s # << >> PROVE Head(a) = Head(s)
    OBVIOUS
  <2>1. Len(s) >= 1
    BY EmptySeq, <1>2
  <2>2. Head(a) = a[1] /\ Head(s) = s[1]
    BY <1>1
  <2> QED
    BY <1>1, <1>2, <2>1, <2>2
<1> QED
  BY <1>1, <1>3, <1>4, <1>5 DEF a

(***************************************************************************)
(* release(): it takes the head, and nothing else, off the chain.          *)
(***************************************************************************)
LEMMA ReleaseLemma ==
    ASSUME NEW s \in Seq(Waiter), s # << >>, Distinct(s)
    PROVE  /\ Tail(s) \in Seq(Waiter)
           /\ Distinct(Tail(s))
           /\ \A w : Queued(Tail(s), w) <=> Queued(s, w) /\ w # Head(s)
           /\ Queued(s, Head(s))
<1> DEFINE t == Tail(s)
<1>1. /\ t \in Seq(Waiter)
      /\ Len(t) = Len(s) - 1
      /\ \A i \in 1..Len(t) : t[i] = s[i + 1]
  BY HeadTailProperties
<1>2. Len(s) \in Nat /\ Len(s) >= 1
  BY LenProperties, EmptySeq
<1>3. Head(s) = s[1]
  OBVIOUS
<1> HIDE DEF t
<1>4. Distinct(t)
  BY <1>1, <1>2 DEF Distinct
<1>5. ASSUME NEW w PROVE Queued(t, w) <=> Queued(s, w) /\ w # Head(s)
  <2>1. Queued(t, w) => Queued(s, w) /\ w # Head(s)
    BY <1>1, <1>2, <1>3 DEF Queued, Distinct
  <2>2. ASSUME NEW i \in 1..Len(s), s[i] = w, w # Head(s) PROVE Queued(t, w)
    <3>1. i - 1 \in 1..Len(t)
      BY <1>1, <1>2, <1>3, <2>2
    <3>2. t[i - 1] = w
      BY <1>1, <1>2, <2>2, <3>1
    <3> QED
      BY <3>1, <3>2 DEF Queued
  <2> QED
    BY <2>1, <2>2 DEF Queued
<1>6. Queued(s, Head(s))
  BY <1>2, <1>3 DEF Queued
<1> QED
  BY <1>1, <1>4, <1>5, <1>6 DEF t

-----------------------------------------------------------------------------

(***************************************************************************)
(* The helpers on states, files and answers stay within their types, and   *)
(* what is written is what is read back.                                   *)
(***************************************************************************)
LEMMA DataLemma ==
    /\ NoState \in State /\ Absent \in File /\ Corrupt \in File /\ NoAnswer \in Answer
    /\ \A f \in File : Parse(f) \in State
    /\ \A s \in State, k \in CookieOrNone : Base(s, k) \in State
    /\ \A s \in State : AnswersTo(s) \subseteq Answer
    /\ \A s \in State, a \in Answer : ContactResult(s, a) \in State
    /\ \A s \in State : /\ Serialized(s) \in File
                       /\ Readable(Serialized(s))
                       /\ Parse(Serialized(s)) = s
<1>1. NoState \in State /\ Absent \in File /\ Corrupt \in File /\ NoAnswer \in Answer
  BY DEF NoState, State, CookieOrNone, CookieValue, Absent, Corrupt, File, NoAnswer, Answer
<1>2. ASSUME NEW f \in File PROVE Parse(f) \in State
  BY <1>1 DEF File, Parse, FindCookie, State, NoState, CookieOrNone, CookieValue
<1>3. ASSUME NEW s \in State, NEW k \in CookieOrNone PROVE Base(s, k) \in State
  BY DEF Base, State, CookieValue
<1>4. ASSUME NEW s \in State PROVE AnswersTo(s) \subseteq Answer
  BY <1>1 DEF AnswersTo, GetHostInfo, UpdateMamIp, Answer, CookieOrNone, CookieValue
<1>5. ASSUME NEW s \in State, NEW a \in Answer PROVE ContactResult(s, a) \in State
  BY DEF ContactResult, State, Answer, CookieOrNone, CookieValue
<1>6. ASSUME NEW s \in State
      PROVE  Serialized(s) \in File /\ Readable(Serialized(s)) /\ Parse(Serialized(s)) = s
  BY DEF Serialized, File, Readable, Parse
<1> QED
  BY <1>1, <1>2, <1>3, <1>4, <1>5, <1>6

\* The values that a call takes are well typed.
LEMMA CallLemma ==
    /\ Idle \in Call
    /\ \A k \in CookieOrNone :
          /\ Called(k) \in Call
          /\ Called(k).pc = "waiting"
          /\ Called(k).answer = NoAnswer
          /\ Called(k).newCookie = k
  BY DataLemma DEF Idle, Called, Call, PC, CookieOrNone

-----------------------------------------------------------------------------

\* Before the first boot nothing runs, and whatever file was left parses to a
\* sound state or to none.
THEOREM InitIsInductive == Init => IInv
<1> SUFFICES ASSUME Init PROVE IInv
  OBVIOUS
<1>1. disk \in File /\ DiskIsSound
  BY DataLemma DEF Init, InitialFile, DiskIsSound, Absent, Corrupt, Serialized,
                   File, State, CookieOrNone, CookieValue, NoState
<1>2. TypeOK
  BY <1>1, DataLemma, CallLemma, EmptySeq DEF Init, TypeOK
<1>3. QueueIsExact
  BY EmptySeq DEF Init, QueueIsExact, Distinct, Queued, Idle
<1> QED
  BY <1>1, <1>2, <1>3 DEF Init, IInv, MutualExclusion, NoLostUpdate, CallsAreSound,
        LoopAlive, StopIsFinal, ExitIsClean, Critical, Idle

(***************************************************************************)
(* The finally block keeps the invariant, whichever way the call ended.    *)
(***************************************************************************)
LEMMA SettleLemma ==
    ASSUME IInv, phase = "running", NEW c \in Caller,
           HasMutex(c) \/ call[c].pc \in Critical,
           Settle(c), tmp' \in File, UNCHANGED <<disk, phase, stopped>>
    PROVE  IInv'
<1>1. chain # << >> /\ Head(chain) = c /\ chain \in Seq(Waiter) /\ Distinct(chain)
  BY DEF IInv, MutualExclusion, HasMutex, TypeOK, QueueIsExact, Waiter
<1>2. /\ chain' \in Seq(Waiter)
      /\ Distinct(chain')
      /\ \A w : Queued(chain', w) <=> Queued(chain, w) /\ w # c
  BY <1>1, ReleaseLemma DEF Settle
<1>3. /\ call' \in [Caller -> Call]
      /\ call'[c] = Idle
      /\ \A d \in Caller : d # c => call'[d] = call[d]
  BY CallLemma DEF IInv, TypeOK, Settle
<1>4. \A d \in Caller : d # c => call[d].pc \notin Critical
  BY <1>1 DEF IInv, MutualExclusion
<1>5. TypeOK'
  BY <1>2, <1>3 DEF IInv, TypeOK, Settle, ScheduleNext, Waiter
<1>6. QueueIsExact'
  BY <1>2, <1>3 DEF IInv, QueueIsExact, Idle
<1>7. MutualExclusion'
  BY <1>3, <1>4 DEF MutualExclusion, Idle, Critical
<1>8. NoLostUpdate'
  BY <1>3, <1>4 DEF NoLostUpdate, Idle, Critical
<1>9. CallsAreSound'
  BY <1>3, <1>4 DEF IInv, CallsAreSound, Idle, Critical
<1>10. DiskIsSound'
  BY DEF IInv, DiskIsSound
<1>11. LoopAlive' /\ StopIsFinal' /\ ExitIsClean'
  BY <1>3 DEF LoopAlive, StopIsFinal, ExitIsClean, Settle, ScheduleNext
<1> QED
  BY <1>5, <1>6, <1>7, <1>8, <1>9, <1>10, <1>11 DEF IInv

(***************************************************************************)
(* So does a new call, which waits behind every earlier one.               *)
(***************************************************************************)
LEMMA EnqueueLemma ==
    ASSUME IInv, NEW c \in Caller, NEW k \in CookieOrNone, Enqueue(c, k),
           task' = task \/ (task = "armed" /\ task' = "fired"),
           UNCHANGED <<disk, tmp, phase, stopped>>
    PROVE  IInv'
<1>1. /\ chain \in Seq(Waiter) /\ c \in Waiter
      /\ Distinct(chain) /\ ~ Queued(chain, c)
  BY DEF IInv, TypeOK, QueueIsExact, Waiter, Enqueue
<1>2. /\ chain' \in Seq(Waiter)
      /\ Distinct(chain')
      /\ \A w : Queued(chain', w) <=> Queued(chain, w) \/ w = c
      /\ chain' # << >>
      /\ chain # << >> => Head(chain') = Head(chain)
  BY <1>1, AcquireLemma DEF Enqueue
<1>3. /\ call' \in [Caller -> Call]
      /\ call'[c] = Called(k)
      /\ \A d \in Caller : d # c => call'[d] = call[d]
  BY CallLemma DEF IInv, TypeOK, Enqueue
<1>4. Called(k).pc = "waiting" /\ Called(k).answer = NoAnswer
  BY CallLemma
<1>5. TypeOK'
  BY <1>2, <1>3 DEF IInv, TypeOK, Waiter
<1>6. QueueIsExact'
  BY <1>2, <1>3, <1>4 DEF IInv, QueueIsExact
<1>7. MutualExclusion'
  BY <1>2, <1>3, <1>4 DEF IInv, MutualExclusion, Critical
<1>8. NoLostUpdate'
  BY <1>3, <1>4 DEF IInv, NoLostUpdate
<1>9. CallsAreSound'
  BY <1>3, <1>4 DEF IInv, CallsAreSound
<1>10. DiskIsSound' /\ LoopAlive' /\ StopIsFinal' /\ ExitIsClean'
  BY <1>3, <1>4 DEF IInv, DiskIsSound, LoopAlive, StopIsFinal, ExitIsClean, Enqueue
<1> QED
  BY <1>5, <1>6, <1>7, <1>8, <1>9, <1>10 DEF IInv

(***************************************************************************)
(* A step of the holder that neither takes nor releases the mutex keeps    *)
(* the parts of the invariant that are about the chain and the timer.      *)
(***************************************************************************)
LEMMA HolderLemma ==
    ASSUME IInv, phase = "running", NEW c \in Caller, chain # << >>, Head(chain) = c,
           call[c].pc # "idle",
           NEW r \in Call, r.pc # "idle", call' = [call EXCEPT ![c] = r],
           disk' \in File, tmp' \in File, UNCHANGED <<phase, stopped, task, chain>>
    PROVE  /\ TypeOK'
           /\ QueueIsExact'
           /\ MutualExclusion'
           /\ LoopAlive'
           /\ StopIsFinal'
           /\ ExitIsClean'
           /\ call'[c] = r
           /\ \A d \in Caller : d # c => call'[d] = call[d] /\ call[d].pc \notin Critical
<1>1. /\ call' \in [Caller -> Call]
      /\ call'[c] = r
      /\ \A d \in Caller : d # c => call'[d] = call[d]
  BY DEF IInv, TypeOK
<1>2. \A d \in Caller : d # c => call[d].pc \notin Critical
  BY DEF IInv, MutualExclusion
<1>3. TypeOK'
  BY <1>1 DEF IInv, TypeOK
<1>4. QueueIsExact'
  BY <1>1 DEF IInv, QueueIsExact
<1>5. MutualExclusion'
  BY <1>1, <1>2 DEF MutualExclusion
<1>6. LoopAlive' /\ StopIsFinal' /\ ExitIsClean'
  BY <1>1 DEF IInv, LoopAlive, StopIsFinal, ExitIsClean
<1> QED
  BY <1>1, <1>2, <1>3, <1>4, <1>5, <1>6

\* readIfExists by the holder of the mutex: it reads what is on disk now, or
\* fails on an unreadable file.
LEMMA ReadStateLemma ==
    ASSUME IInv, NEW c \in Caller, ReadState(c)
    PROVE  IInv'
<1> DEFINE r == [call[c] EXCEPT !.pc = "contacting", !.state = Base(Parse(disk), call[c].newCookie)]
<1>1. call[c] \in Call /\ disk \in File /\ tmp \in File
  BY DEF IInv, TypeOK
<1>2. Base(Parse(disk), call[c].newCookie) \in State
  BY <1>1, DataLemma DEF Call
<1>3. /\ r \in Call
      /\ r.pc = "contacting"
      /\ r.state = Base(Parse(disk), r.newCookie)
      /\ r.answer = NoAnswer
  BY <1>1, <1>2 DEF Call, PC, IInv, CallsAreSound, ReadState, HasMutex
<1>4. call' = [call EXCEPT ![c] = r]
  BY DEF ReadState, IInv, TypeOK
<1> HIDE DEF r
<1>5. /\ TypeOK' /\ QueueIsExact' /\ MutualExclusion' /\ LoopAlive' /\ StopIsFinal' /\ ExitIsClean'
      /\ call'[c] = r
      /\ \A d \in Caller : d # c => call'[d] = call[d] /\ call[d].pc \notin Critical
  <2>1. phase = "running" /\ chain # << >> /\ Head(chain) = c /\ call[c].pc # "idle"
    BY DEF ReadState, HasMutex
  <2>2. disk' \in File /\ tmp' \in File /\ UNCHANGED <<phase, stopped, task, chain>>
    BY <1>1 DEF ReadState
  <2> QED
    BY <1>3, <1>4, <2>1, <2>2, HolderLemma
<1>6. disk' = disk /\ tmp' = tmp /\ Readable(disk)
  BY DEF ReadState
<1>7. NoLostUpdate'
  BY <1>3, <1>5, <1>6 DEF NoLostUpdate, Critical
<1>8. CallsAreSound'
  BY <1>3, <1>5, <1>6 DEF IInv, CallsAreSound, Critical
<1> QED
  BY <1>5, <1>6, <1>7, <1>8 DEF IInv, DiskIsSound

\* MAM's answer gives the holder the result of a contact with the present
\* state.
LEMMA MamAnswersLemma ==
    ASSUME IInv, NEW c \in Caller, NEW a \in Answer, MamAnswers(c, a)
    PROVE  IInv'
<1> DEFINE r == [call[c] EXCEPT !.pc = "writing", !.state = ContactResult(call[c].state, a), !.answer = a]
<1>1. call[c] \in Call /\ disk \in File /\ tmp \in File
  BY DEF IInv, TypeOK
<1>2. ContactResult(call[c].state, a) \in State
  BY <1>1, DataLemma DEF Call
<1>3. call[c].state = Base(Parse(disk), call[c].newCookie) /\ Readable(disk)
  BY DEF IInv, NoLostUpdate, CallsAreSound, MamAnswers
<1>4. /\ r \in Call
      /\ r.pc = "writing"
      /\ r.answer = a
      /\ a \in AnswersTo(Base(Parse(disk), r.newCookie))
      /\ r.state = ContactResult(Base(Parse(disk), r.newCookie), a)
  BY <1>1, <1>2, <1>3 DEF Call, PC, MamAnswers
<1>5. call' = [call EXCEPT ![c] = r]
  BY DEF MamAnswers, IInv, TypeOK
<1> HIDE DEF r
<1>6. /\ TypeOK' /\ QueueIsExact' /\ MutualExclusion' /\ LoopAlive' /\ StopIsFinal' /\ ExitIsClean'
      /\ call'[c] = r
      /\ \A d \in Caller : d # c => call'[d] = call[d] /\ call[d].pc \notin Critical
  <2>1. phase = "running" /\ chain # << >> /\ Head(chain) = c /\ call[c].pc # "idle"
    BY DEF MamAnswers, IInv, MutualExclusion, Critical
  <2>2. disk' \in File /\ tmp' \in File /\ UNCHANGED <<phase, stopped, task, chain>>
    BY <1>1 DEF MamAnswers
  <2> QED
    BY <1>4, <1>5, <2>1, <2>2, HolderLemma
<1>7. disk' = disk /\ tmp' = tmp
  BY DEF MamAnswers
<1>8. NoLostUpdate'
  BY <1>4, <1>6, <1>7 DEF NoLostUpdate, Critical
<1>9. CallsAreSound'
  BY <1>3, <1>4, <1>6, <1>7 DEF IInv, CallsAreSound, Critical
<1> QED
  BY <1>6, <1>7, <1>8, <1>9 DEF IInv, DiskIsSound

\* The write of the temporary file leaves state.json alone, however it ends.
LEMMA WriteTemporaryLemma ==
    ASSUME IInv, NEW c \in Caller, WriteTemporary(c)
    PROVE  IInv'
<1> DEFINE r == [call[c] EXCEPT !.pc = "renaming"]
<1>1. call[c] \in Call /\ disk \in File
  BY DEF IInv, TypeOK
<1>2. tmp' = Serialized(call[c].state) /\ tmp' \in File
  BY <1>1, DataLemma DEF Call, WriteTemporary
<1>3. /\ r \in Call /\ r.pc = "renaming"
      /\ r.state = call[c].state /\ r.answer = call[c].answer /\ r.newCookie = call[c].newCookie
  BY <1>1 DEF Call, PC
<1>4. call' = [call EXCEPT ![c] = r]
  BY DEF WriteTemporary, IInv, TypeOK
<1> HIDE DEF r
<1>5. /\ TypeOK' /\ QueueIsExact' /\ MutualExclusion' /\ LoopAlive' /\ StopIsFinal' /\ ExitIsClean'
      /\ call'[c] = r
      /\ \A d \in Caller : d # c => call'[d] = call[d] /\ call[d].pc \notin Critical
  <2>1. phase = "running" /\ chain # << >> /\ Head(chain) = c /\ call[c].pc # "idle"
    BY DEF WriteTemporary, IInv, MutualExclusion, Critical
  <2>2. disk' \in File /\ UNCHANGED <<phase, stopped, task, chain>>
    BY <1>1 DEF WriteTemporary
  <2> QED
    BY <1>2, <1>3, <1>4, <2>1, <2>2, HolderLemma
<1>6. disk' = disk /\ call[c].pc = "writing"
  BY DEF WriteTemporary
<1>7. NoLostUpdate'
  BY <1>2, <1>3, <1>5, <1>6 DEF IInv, NoLostUpdate, Critical
<1>8. CallsAreSound'
  BY <1>3, <1>5, <1>6 DEF IInv, CallsAreSound, Critical
<1> QED
  BY <1>5, <1>6, <1>7, <1>8 DEF IInv, DiskIsSound

\* The rename puts the holder's result in place of the state it was computed
\* from.
LEMMA RenameLemma ==
    ASSUME IInv, NEW c \in Caller, Rename(c)
    PROVE  IInv'
<1> DEFINE r == [call[c] EXCEPT !.pc = "persisted"]
<1>1. call[c] \in Call /\ disk' \in File /\ tmp' \in File
  BY DataLemma DEF IInv, TypeOK, Rename
<1>2. r \in Call /\ r.pc = "persisted"
  BY <1>1 DEF Call, PC
<1>3. call' = [call EXCEPT ![c] = r]
  BY DEF Rename, IInv, TypeOK
<1> HIDE DEF r
<1>4. /\ TypeOK' /\ QueueIsExact' /\ MutualExclusion' /\ LoopAlive' /\ StopIsFinal' /\ ExitIsClean'
      /\ call'[c] = r
      /\ \A d \in Caller : d # c => call'[d] = call[d] /\ call[d].pc \notin Critical
  <2>1. phase = "running" /\ chain # << >> /\ Head(chain) = c /\ call[c].pc # "idle"
    BY DEF Rename, IInv, MutualExclusion, Critical
  <2>2. UNCHANGED <<phase, stopped, task, chain>>
    BY DEF Rename
  <2> QED
    BY <1>1, <1>2, <1>3, <2>1, <2>2, HolderLemma
<1>5. disk' = Serialized(call[c].state)
  BY DEF Rename, IInv, NoLostUpdate
<1>6. NoLostUpdate'
  BY <1>2, <1>4 DEF NoLostUpdate, Critical
<1>7. CallsAreSound'
  BY <1>2, <1>4 DEF IInv, CallsAreSound, Critical
<1>8. DiskIsSound'
  BY <1>5 DEF DiskIsSound, Serialized
<1> QED
  BY <1>4, <1>6, <1>7, <1>8 DEF IInv

\* stop(): it clears the timer and queues for the mutex.
LEMMA StopLemma ==
    ASSUME IInv, NEW s \in Stopper, Stop(s)
    PROVE  IInv'
<1>1. /\ chain' \in Seq(Waiter)
      /\ Distinct(chain')
      /\ \A w : Queued(chain', w) <=> Queued(chain, w) \/ w = s
      /\ chain # << >> => chain' # << >> /\ Head(chain') = Head(chain)
  BY AcquireLemma DEF Stop, IInv, TypeOK, QueueIsExact, Waiter
<1>2. \A c \in Caller : c # s
  OBVIOUS
<1>3. TypeOK' /\ QueueIsExact'
  BY <1>1, <1>2 DEF Stop, IInv, TypeOK, QueueIsExact, Waiter
<1>4. MutualExclusion'
  BY <1>1 DEF Stop, IInv, MutualExclusion
<1>5. NoLostUpdate' /\ CallsAreSound'
  BY DEF Stop, IInv, NoLostUpdate, CallsAreSound
<1>6. DiskIsSound' /\ LoopAlive' /\ StopIsFinal' /\ ExitIsClean'
  BY DEF Stop, IInv, DiskIsSound, LoopAlive, StopIsFinal, ExitIsClean
<1> QED
  BY <1>3, <1>4, <1>5, <1>6 DEF IInv

(***************************************************************************)
(* The stop whose turn it is finds no contact in flight: the head of the   *)
(* chain is not a caller, so no caller is in the critical section.         *)
(***************************************************************************)
LEMMA ExitLemma ==
    ASSUME IInv, Exit
    PROVE  IInv'
<1>1. \A c \in Caller : call[c].pc \notin Critical
  BY DEF Exit, IInv, MutualExclusion
<1>2. TypeOK' /\ QueueIsExact' /\ MutualExclusion' /\ NoLostUpdate' /\ CallsAreSound'
  BY DEF Exit, IInv, TypeOK, QueueIsExact, MutualExclusion, NoLostUpdate, CallsAreSound
<1>3. DiskIsSound' /\ LoopAlive' /\ StopIsFinal'
  BY DEF Exit, IInv, DiskIsSound, LoopAlive, StopIsFinal
<1>4. ExitIsClean'
  BY <1>1 DEF Exit, ExitIsClean
<1> QED
  BY <1>2, <1>3, <1>4 DEF IInv

\* A crash leaves no call and no queue, and the files as they lie.
LEMMA CrashLemma ==
    ASSUME IInv, Crash
    PROVE  IInv'
<1>1. tmp' \in File
  BY DataLemma DEF Crash, IInv, TypeOK
<1>2. ASSUME NEW c \in Caller, call[c].pc = "renaming" PROVE tmp' = tmp
  BY <1>2 DEF Crash, IInv, MutualExclusion, Critical
<1>3. TypeOK' /\ QueueIsExact' /\ MutualExclusion' /\ CallsAreSound'
  BY <1>1 DEF Crash, IInv, TypeOK, QueueIsExact, MutualExclusion, CallsAreSound
<1>4. NoLostUpdate'
  BY <1>2 DEF Crash, IInv, NoLostUpdate
<1>5. DiskIsSound' /\ LoopAlive' /\ StopIsFinal' /\ ExitIsClean'
  BY DEF Crash, IInv, DiskIsSound, LoopAlive, StopIsFinal, ExitIsClean
<1> QED
  BY <1>3, <1>4, <1>5 DEF IInv

\* A boot: the one call that start() makes is alone in the queue.
LEMMA BootLemma ==
    ASSUME IInv, NEW c \in Caller, Boot(c)
    PROVE  IInv'
<1>1. /\ Called(NoCookie) \in Call
      /\ Called(NoCookie).pc = "waiting"
      /\ Called(NoCookie).answer = NoAnswer
  BY CallLemma DEF CookieOrNone
<1>2. /\ call' \in [Caller -> Call]
      /\ call'[c] = Called(NoCookie)
      /\ \A d \in Caller : d # c => call'[d] = Idle
  BY <1>1, CallLemma DEF Boot
<1>3. /\ chain' \in Seq(Waiter)
      /\ Len(chain') = 1
      /\ chain'[1] = c
  BY DEF Boot, Waiter
<1>4. TypeOK'
  BY <1>2, <1>3 DEF Boot, IInv, TypeOK, Waiter
<1>5. QueueIsExact'
  BY <1>1, <1>2, <1>3 DEF QueueIsExact, Distinct, Queued, Idle
<1>6. MutualExclusion' /\ NoLostUpdate' /\ CallsAreSound'
  BY <1>1, <1>2 DEF MutualExclusion, NoLostUpdate, CallsAreSound, Critical, Idle
<1>7. DiskIsSound' /\ LoopAlive' /\ StopIsFinal' /\ ExitIsClean'
  BY <1>1, <1>2 DEF Boot, IInv, DiskIsSound, LoopAlive, StopIsFinal, ExitIsClean
<1> QED
  BY <1>4, <1>5, <1>6, <1>7 DEF IInv

(***************************************************************************)
(* Every step of Contact keeps the invariant.                              *)
(***************************************************************************)
THEOREM NextIsInductive == IInv /\ [Next]_vars => IInv'
<1> SUFFICES ASSUME IInv, [Next]_vars PROVE IInv'
  OBVIOUS
<1>1. ASSUME NEW c \in Caller, Boot(c) PROVE IInv'
  BY <1>1, BootLemma
<1>2. ASSUME NEW c \in Caller, NEW k \in CookieOrNone, Enqueue(c, k),
             TimerFires(c) \/ PostUpdates(c) \/ PutCookie(c, k)
      PROVE  IInv'
  BY <1>2, EnqueueLemma DEF TimerFires, PostUpdates, PutCookie
<1>3. ASSUME NEW c \in Caller, ReadFails(c) \/ RenameFails(c) \/ Finish(c) PROVE IInv'
  <2>1. /\ phase = "running" /\ Settle(c) /\ tmp' = tmp /\ UNCHANGED <<disk, phase, stopped>>
        /\ HasMutex(c) \/ call[c].pc \in Critical
    BY <1>3 DEF ReadFails, RenameFails, Finish, Critical
  <2> QED
    BY <2>1, SettleLemma DEF IInv, TypeOK
<1>4. ASSUME NEW c \in Caller, WriteFails(c) PROVE IInv'
  <2>1. tmp' \in File
    BY <1>4, DataLemma DEF WriteFails, IInv, TypeOK
  <2> QED
    BY <1>4, <2>1, SettleLemma DEF WriteFails, Critical
<1>5. ASSUME NEW c \in Caller, Progress(c) PROVE IInv'
  BY <1>3, <1>4, <1>5, ReadStateLemma, MamAnswersLemma, WriteTemporaryLemma, RenameLemma
     DEF Progress
<1>6. ASSUME NEW s \in Stopper, Stop(s) PROVE IInv'
  BY <1>6, StopLemma
<1>7. CASE Exit
  BY <1>7, ExitLemma
<1>8. CASE Crash
  BY <1>8, CrashLemma
<1>9. CASE UNCHANGED vars
  BY <1>9 DEF vars, IInv, TypeOK, QueueIsExact, MutualExclusion, NoLostUpdate, CallsAreSound,
              DiskIsSound, LoopAlive, StopIsFinal, ExitIsClean
<1>10. ASSUME NEW c \in Caller, TimerFires(c) \/ PostUpdates(c) PROVE IInv'
  BY <1>2, <1>10 DEF TimerFires, PostUpdates, CookieOrNone
<1>11. ASSUME NEW c \in Caller, NEW k \in Cookie, PutCookie(c, k) PROVE IInv'
  BY <1>2, <1>11 DEF PutCookie, CookieOrNone
<1> QED
  BY <1>1, <1>5, <1>6, <1>7, <1>8, <1>9, <1>10, <1>11 DEF Next

\* The inductive invariant holds in every reachable state.
THEOREM Inductive == Spec => []IInv
  BY InitIsInductive, NextIsInductive, PTL DEF Spec

-----------------------------------------------------------------------------

(***************************************************************************)
(* The state always has its type, for any number of calls and cookies.     *)
(***************************************************************************)
THEOREM TypeCorrect == Spec => []TypeOK
<1>1. IInv => TypeOK
  BY DEF IInv
<1> QED
  BY <1>1, Inductive, PTL

(***************************************************************************)
(* However many contacts overlap, one at a time is between its read of     *)
(* state.json and its release of the mutex.                                *)
(***************************************************************************)
THEOREM Serialised == Spec => []MutualExclusion
<1>1. IInv => MutualExclusion
  BY DEF IInv
<1> QED
  BY <1>1, Inductive, PTL

(***************************************************************************)
(* What a contact writes was computed from the state it overwrites.        *)
(***************************************************************************)
THEOREM NothingIsLost == Spec => []NoLostUpdate
<1>1. IInv => NoLostUpdate
  BY DEF IInv
<1> QED
  BY <1>1, Inductive, PTL

(***************************************************************************)
(* The chain of the mutex is the calls that wait for it or hold it.        *)
(***************************************************************************)
THEOREM QueueIsTheCalls == Spec => []QueueIsExact
<1>1. IInv => QueueIsExact
  BY DEF IInv
<1> QED
  BY <1>1, Inductive, PTL

(***************************************************************************)
(* Until it is stopped, the loop has a timer armed or a contact under way. *)
(***************************************************************************)
THEOREM LoopStaysAlive == Spec => []LoopAlive
<1>1. IInv => LoopAlive
  BY DEF IInv
<1> QED
  BY <1>1, Inductive, PTL

(***************************************************************************)
(* No contact that is still in flight re-arms the timer after a stop.      *)
(***************************************************************************)
THEOREM StopHolds == Spec => []StopIsFinal
<1>1. IInv => StopIsFinal
  BY DEF IInv
<1> QED
  BY <1>1, Inductive, PTL

(***************************************************************************)
(* A process that exits on its own has cut no contact.                     *)
(***************************************************************************)
THEOREM ExitDrains == Spec => []ExitIsClean
<1>1. IInv => ExitIsClean
  BY DEF IInv
<1> QED
  BY <1>1, Inductive, PTL

-----------------------------------------------------------------------------

(***************************************************************************)
(* Only a rename changes state.json, and what it leaves there is the       *)
(* result of a contact that read a sound file.                             *)
(***************************************************************************)
LEMMA DiskStep ==
    ASSUME IInv, [Next]_vars
    PROVE  \/ disk' = disk
           \/ \E c \in Caller :
                 LET base == Base(Parse(disk), call[c].newCookie) IN
                 /\ call[c].pc = "renaming"
                 /\ Readable(disk)
                 /\ call[c].answer \in AnswersTo(base)
                 /\ disk' = Serialized(ContactResult(base, call[c].answer))
<1>1. ASSUME NEW c \in Caller, Rename(c)
      PROVE  LET base == Base(Parse(disk), call[c].newCookie) IN
             /\ call[c].pc = "renaming"
             /\ Readable(disk)
             /\ call[c].answer \in AnswersTo(base)
             /\ disk' = Serialized(ContactResult(base, call[c].answer))
  BY <1>1 DEF Rename, IInv, CallsAreSound, NoLostUpdate
<1>2. ASSUME NEW c \in Caller, Progress(c), ~ Rename(c) PROVE disk' = disk
  BY <1>2 DEF Progress, ReadState, ReadFails, MamAnswers, WriteTemporary, WriteFails,
              RenameFails, Finish
<1>3. ASSUME NEW c \in Caller,
             Boot(c) \/ TimerFires(c) \/ PostUpdates(c) \/ \E k \in Cookie : PutCookie(c, k)
      PROVE  disk' = disk
  BY <1>3 DEF Boot, TimerFires, PostUpdates, PutCookie
<1>4. ASSUME (\E s \in Stopper : Stop(s)) \/ Exit \/ Crash \/ UNCHANGED vars PROVE disk' = disk
  BY <1>4 DEF Stop, Exit, Crash, vars
<1> QED
  BY <1>1, <1>2, <1>3, <1>4 DEF Next

(***************************************************************************)
(* A contact keeps a cookie that it was given, or takes the one that MAM   *)
(* rotated it to, which is a usable one unless it is empty.                *)
(***************************************************************************)
LEMMA ResultKeepsCookie ==
    ASSUME NEW base \in State, base.cookie \in Cookie, NEW a \in AnswersTo(base),
           a.rotated # EmptyCookie
    PROVE  ContactResult(base, a).cookie \in Cookie
  BY DEF ContactResult, AnswersTo, UpdateMamIp, NoAnswer, CookieOrNone, CookieValue

(***************************************************************************)
(* What a step does to state.json: it stays readable, it is left alone if  *)
(* it is unreadable, and it keeps a cookie, but for the two exceptions.    *)
(***************************************************************************)
LEMMA StoreStep ==
    ASSUME IInv, [Next]_vars
    PROVE  /\ [disk.format # "corrupt" => disk'.format # "corrupt"]_vars
           /\ [disk.format = "corrupt" => disk' = disk]_vars
           /\ [disk.state.cookie \in Cookie =>
                  \/ disk'.state.cookie \in Cookie
                  \/ disk.format = "foreign"
                  \/ \E c \in Caller : /\ call[c].pc = "renaming"
                                      /\ call[c].answer.rotated = EmptyCookie]_vars
<1>1. CASE disk' = disk
  BY <1>1
<1>2. ASSUME NEW c \in Caller,
             call[c].pc = "renaming",
             Readable(disk),
             call[c].answer \in AnswersTo(Base(Parse(disk), call[c].newCookie)),
             disk' = Serialized(ContactResult(Base(Parse(disk), call[c].newCookie),
                                              call[c].answer))
      PROVE  /\ disk.format # "corrupt" /\ disk'.format # "corrupt"
             /\ disk.state.cookie \in Cookie =>
                   \/ disk'.state.cookie \in Cookie
                   \/ disk.format = "foreign"
                   \/ call[c].answer.rotated = EmptyCookie
  <2> DEFINE base == Base(Parse(disk), call[c].newCookie)
  <2>1. disk \in File /\ call[c].newCookie \in CookieOrNone /\ DiskIsSound
    BY DEF IInv, TypeOK, Call
  <2>2. Parse(disk) \in State /\ base \in State
    BY <2>1, DataLemma
  <2>3. disk.state.cookie \in Cookie /\ disk.format # "foreign" => Parse(disk).cookie \in Cookie
    BY <1>2, <2>1 DEF Parse, FindCookie, DiskIsSound, NoState, File, State, Readable
  <2>4. Parse(disk).cookie \in Cookie => base.cookie \in Cookie
    BY <2>1, <2>2 DEF Base, CookieOrNone, State
  <2> HIDE DEF base
  <2>5. base.cookie \in Cookie /\ call[c].answer.rotated # EmptyCookie =>
           ContactResult(base, call[c].answer).cookie \in Cookie
    BY <1>2, <2>2, ResultKeepsCookie DEF base
  <2>6. disk' = Serialized(ContactResult(base, call[c].answer))
    BY <1>2 DEF base
  <2> QED
    BY <1>2, <2>3, <2>4, <2>5, <2>6 DEF Readable, Serialized
<1> QED
  BY <1>1, <1>2, DiskStep

(***************************************************************************)
(* The state file on disk is never torn (store.ts:60-74).                  *)
(***************************************************************************)
THEOREM NeverTorn == Spec => DiskStaysReadable
  BY StoreStep, Inductive, PTL DEF Spec, DiskStaysReadable

(***************************************************************************)
(* No contact writes over a state file it could not read (store.ts:33-38). *)
(***************************************************************************)
THEOREM NeverOverwritten == Spec => UnreadableIsKept
  BY StoreStep, Inductive, PTL DEF Spec, UnreadableIsKept

(***************************************************************************)
(* A stored cookie is dropped by a rotation to the empty string or with a  *)
(* file of another version than 1, and in no other case (store.ts:33-38,   *)
(* migrate.ts:19-27, contact.ts:126).                                      *)
(***************************************************************************)
THEOREM NeverDropped == Spec => CookieIsKept
  BY StoreStep, Inductive, PTL DEF Spec, CookieIsKept

-----------------------------------------------------------------------------
\* What a caller is told

(***************************************************************************)
(* What PUT /cookie and POST /updates answer with is what state.json holds *)
(* at that moment, whatever else is queued; and a cookie that was put is   *)
(* there, unless MAM has rotated it to another or to the empty one         *)
(* (contact.ts:190-198).                                                   *)
(***************************************************************************)
AnswersAreStored ==
    \A c \in Caller : call[c].pc = "persisted" =>
       /\ disk = Serialized(call[c].state)
       /\ call[c].newCookie # NoCookie =>
             disk.state.cookie \in {call[c].newCookie, call[c].answer.rotated} \ {NoCookie}

\* A call gets to its answer by a rename only.
LEMMA OnlyRenamesPersist ==
    ASSUME IInv, [Next]_vars, ~ \E c \in Caller : Rename(c)
    PROVE  /\ disk' = disk
           /\ \A d \in Caller : call'[d].pc = "persisted" => call'[d] = call[d]
<1>1. call \in [Caller -> Call]
  BY DEF IInv, TypeOK
<1>2. Idle.pc = "idle" /\ \A k : Called(k).pc = "waiting"
  BY DEF Idle, Called
<1>3. ASSUME NEW c \in Caller, Progress(c)
      PROVE  /\ disk' = disk
             /\ \A d \in Caller : call'[d].pc = "persisted" => call'[d] = call[d]
  BY <1>1, <1>2, <1>3 DEF Progress, ReadState, ReadFails, MamAnswers, WriteTemporary, WriteFails,
     RenameFails, Finish, Settle, Call
<1>4. ASSUME NEW c \in Caller,
             Boot(c) \/ TimerFires(c) \/ PostUpdates(c) \/ \E k \in Cookie : PutCookie(c, k)
      PROVE  /\ disk' = disk
             /\ \A d \in Caller : call'[d].pc = "persisted" => call'[d] = call[d]
  BY <1>1, <1>2, <1>4 DEF Boot, TimerFires, PostUpdates, PutCookie, Enqueue
<1>5. CASE (\E s \in Stopper : Stop(s)) \/ Exit \/ Crash \/ UNCHANGED vars
  BY <1>5 DEF Stop, Exit, Crash, vars
<1> QED
  BY <1>3, <1>4, <1>5 DEF Next

\* No step breaks AnswersAreStored: only the holder of the mutex renames, and
\* only its answer changes.
LEMMA StoredStep ==
    ASSUME IInv, AnswersAreStored, [Next]_vars
    PROVE  AnswersAreStored'
<1>1. CASE \E c \in Caller : Rename(c)
  <2>1. PICK c \in Caller : Rename(c)
    BY <1>1
  <2> DEFINE base == Base(Parse(disk), call[c].newCookie)
  <2>2. /\ call \in [Caller -> Call] /\ call[c] \in Call
        /\ call[c].pc = "renaming"
        /\ call' = [call EXCEPT ![c].pc = "persisted"]
        /\ disk' = Serialized(call[c].state)
        /\ call[c].state = ContactResult(base, call[c].answer)
        /\ call[c].answer \in AnswersTo(base)
    BY <2>1 DEF Rename, IInv, TypeOK, NoLostUpdate, CallsAreSound
  <2>3. /\ call'[c].state = call[c].state /\ call'[c].newCookie = call[c].newCookie
        /\ call'[c].answer = call[c].answer
    BY <2>2 DEF Call
  <2>4. ASSUME NEW d \in Caller, d # c PROVE call'[d].pc # "persisted"
    BY <2>2, <2>4 DEF IInv, MutualExclusion, Critical
  <2>5. call[c].newCookie # NoCookie => base.cookie = call[c].newCookie
    <3>1. Parse(disk) \in State /\ call[c].newCookie \in CookieOrNone
      BY <2>2, DataLemma DEF IInv, TypeOK, Call
    <3> QED
      BY <3>1 DEF Base, State
  <2> HIDE DEF base
  <2>6. call[c].newCookie # NoCookie => call[c].answer.kind # "lookup"
    BY <2>2, <2>5 DEF AnswersTo, UpdateMamIp, NoAnswer, Call, CookieOrNone
  <2>7. call[c].newCookie # NoCookie =>
          disk'.state.cookie \in {call[c].newCookie, call[c].answer.rotated} \ {NoCookie}
    BY <2>2, <2>5, <2>6 DEF Serialized, ContactResult
  <2> QED
    BY <2>2, <2>3, <2>4, <2>7 DEF AnswersAreStored
<1>2. CASE ~ \E c \in Caller : Rename(c)
  BY <1>2, OnlyRenamesPersist DEF AnswersAreStored
<1> QED
  BY <1>1, <1>2

\* What PUT /cookie and POST /updates are about to be answered with is what
\* state.json holds.
THEOREM ToldIsStored == Spec => []AnswersAreStored
<1>1. Init => AnswersAreStored
  BY DEF Init, AnswersAreStored, Idle
<1>2. IInv /\ AnswersAreStored /\ [Next]_vars => AnswersAreStored'
  BY StoredStep
<1> QED
  BY <1>1, <1>2, Inductive, PTL DEF Spec

-----------------------------------------------------------------------------
\* The two halves of "every call is answered" that are about safety

(***************************************************************************)
(* The mutex serves in the order of arrival: nobody who waits for it, to   *)
(* contact MAM or to stop the process, ever falls back behind another      *)
(* (mutex.ts:4-13).                                                        *)
(***************************************************************************)
NobodyOvertakes ==
    [][ \A i \in 1..Len(chain), j \in 1..Len(chain') : chain'[j] = chain[i] => j <= i ]_vars

(***************************************************************************)
(* A running process that anybody waits in has a head of the queue that    *)
(* can go on: a stop, whose turn it is to exit, or a call that is still to *)
(* settle, and will then let the next one in (contact.ts:187-203, 220-227).*)
(***************************************************************************)
SomebodyHasIt ==
    phase = "running" /\ chain # << >> =>
        \/ Head(chain) \in Stopper
        \/ Head(chain) \in Caller /\ call[Head(chain)].pc # "idle"

\* The mutex serves the calls in the order of their requests (Mutex.run chains
\* each call to the one before it).
THEOREM FirstComeFirstServed == Spec => NobodyOvertakes
<1> DEFINE Step == \A i \in 1..Len(chain), j \in 1..Len(chain') : chain'[j] = chain[i] => j <= i
<1>1. NobodyOvertakes <=> [][Step]_vars
  BY PTL DEF NobodyOvertakes
<1>2. IInv /\ [Next]_vars => [Step]_vars
  <2> SUFFICES ASSUME IInv, Next PROVE Step
    OBVIOUS
  <2>1. chain \in Seq(Waiter) /\ Distinct(chain) /\ Len(chain) \in Nat
    BY LenProperties DEF IInv, TypeOK, QueueIsExact, Waiter
  <2>2. ASSUME UNCHANGED chain PROVE Step
    BY <2>1, <2>2 DEF Distinct
  <2>3. ASSUME NEW w \in Waiter, ~ Queued(chain, w), chain' = Append(chain, w) PROVE Step
    <3>1. /\ Len(chain') = Len(chain) + 1
          /\ \A i \in 1..Len(chain) : chain'[i] = chain[i]
          /\ chain'[Len(chain) + 1] = w
      BY <2>1, <2>3, AppendProperties
    <3> QED
      BY <2>1, <2>3, <3>1 DEF Distinct, Queued
  <2>4. ASSUME chain # << >>, chain' = Tail(chain) PROVE Step
    <3>1. Len(chain') = Len(chain) - 1 /\ \A i \in 1..Len(chain') : chain'[i] = chain[i + 1]
      BY <2>1, <2>4, HeadTailProperties
    <3>2. ASSUME NEW i \in 1..Len(chain), NEW j \in 1..Len(chain'), chain'[j] = chain[i]
          PROVE  j <= i
      <4>1. j + 1 \in 1..Len(chain) /\ chain[j + 1] = chain[i]
        BY <2>1, <3>1, <3>2
      <4>2. j + 1 = i
        BY <2>1, <4>1 DEF Distinct
      <4> QED
        BY <4>2
    <3> QED
      BY <3>2
  <2>5. ASSUME NEW c \in Caller, chain' = <<c>> PROVE Step
    BY <2>1, <2>5
  <2>6. ASSUME NEW c \in Caller, Settle(c), call[c].pc # "idle", HasMutex(c) \/ call[c].pc \in Critical
        PROVE  Step
    <3>1. chain # << >>
      BY <2>6 DEF HasMutex, IInv, MutualExclusion
    <3> QED
      BY <2>4, <2>6, <3>1 DEF Settle
  <2>7. ASSUME NEW c \in Caller, Progress(c) PROVE Step
    BY <2>2, <2>6, <2>7 DEF Progress, ReadState, ReadFails, MamAnswers, WriteTemporary, WriteFails,
       Rename, RenameFails, Finish, HasMutex, Critical
  <2>8. ASSUME NEW c \in Caller, NEW k, Enqueue(c, k) PROVE Step
    BY <2>3, <2>8 DEF Enqueue, IInv, QueueIsExact, Waiter
  <2>9. ASSUME NEW s \in Stopper, Stop(s) PROVE Step
    BY <2>3, <2>9 DEF Stop, Waiter
  <2> QED
    BY <2>2, <2>5, <2>7, <2>8, <2>9
    DEF Next, Boot, TimerFires, PostUpdates, PutCookie, Exit, Crash
<1> HIDE DEF Step
<1> QED
  BY <1>1, <1>2, Inductive, PTL DEF Spec

\* While anybody waits for the mutex, the head of the queue can go on, however
\* the calls before it ended.
THEOREM NobodyWaitsForNobody == Spec => []SomebodyHasIt
<1>1. IInv => SomebodyHasIt
  <2> SUFFICES ASSUME IInv, chain # << >>
               PROVE  Head(chain) \in Stopper
                        \/ (Head(chain) \in Caller /\ call[Head(chain)].pc # "idle")
    BY DEF SomebodyHasIt
  <2>1. Head(chain) \in Waiter /\ Queued(chain, Head(chain))
    BY ReleaseLemma, HeadTailProperties DEF IInv, TypeOK, QueueIsExact, Waiter
  <2> QED
    BY <2>1 DEF Waiter, IInv, QueueIsExact
<1> QED
  BY <1>1, Inductive, PTL

-----------------------------------------------------------------------------

(***************************************************************************)
(* The refinement mapping, by names: what AtomicContact sees of Contact.   *)
(***************************************************************************)
AbstractStore == [readable |-> Readable(disk), state |-> Parse(disk)]
AbstractCalls == [c \in Caller |-> AbstractCall(c)]

\* AtomicContact's copies of the operators on data are the operators themselves.
LEMMA SameOperators ==
    /\ Atomic!NoState = NoState /\ Atomic!NoAnswer = NoAnswer
    /\ Atomic!State = State /\ Atomic!CookieOrNone = CookieOrNone
    /\ Atomic!CookieValue = CookieValue
    /\ \A s, k : Atomic!Base(s, k) = Base(s, k)
    /\ \A s : Atomic!AnswersTo(s) = AnswersTo(s)
    /\ \A s, a : Atomic!ContactResult(s, a) = ContactResult(s, a)
<1>1. Atomic!NoState = NoState /\ Atomic!NoAnswer = NoAnswer
  BY DEF NoState, Atomic!NoState, NoAnswer, Atomic!NoAnswer
<1>2. Atomic!CookieOrNone = CookieOrNone /\ Atomic!CookieValue = CookieValue
  BY DEF CookieOrNone, Atomic!CookieOrNone, CookieValue, Atomic!CookieValue
<1>3. Atomic!State = State
  BY <1>2 DEF State, Atomic!State
<1>4. ASSUME NEW s, NEW k PROVE Atomic!Base(s, k) = Base(s, k)
  BY DEF Base, Atomic!Base
<1>5. ASSUME NEW s PROVE Atomic!AnswersTo(s) = AnswersTo(s)
  BY <1>1, <1>2 DEF AnswersTo, GetHostInfo, UpdateMamIp,
                     Atomic!AnswersTo, Atomic!GetHostInfo, Atomic!UpdateMamIp
<1>6. ASSUME NEW s, NEW a PROVE Atomic!ContactResult(s, a) = ContactResult(s, a)
  BY DEF ContactResult, Atomic!ContactResult
<1> QED
  BY <1>1, <1>2, <1>3, <1>4, <1>5, <1>6

\* What each phase of a call is in the abstract specification.
LEMMA AbstractCallsAre ==
    IInv =>
      /\ \A c \in Caller :
            /\ call[c].pc = "idle" => AbstractCall(c) = Atomic!Idle
            /\ call[c].pc \notin {"idle", "persisted"} =>
                  AbstractCall(c) = Atomic!Pending(call[c].newCookie)
<1> SUFFICES ASSUME IInv, NEW c \in Caller
             PROVE  /\ call[c].pc = "idle" => AbstractCall(c) = Atomic!Idle
                    /\ call[c].pc \notin {"idle", "persisted"} =>
                          AbstractCall(c) = Atomic!Pending(call[c].newCookie)
  OBVIOUS
<1>1. call[c].pc = "idle" => call[c].newCookie = NoCookie
  BY DEF IInv, CallsAreSound, Idle
<1> QED
  BY <1>1, SameOperators DEF AbstractCall, Atomic!Idle, Atomic!Pending, Atomic!Entry

\* A step that moves one call moves one abstract call.
LEMMA AbstractUpdate ==
    ASSUME IInv, NEW c \in Caller, NEW r,
           \A d \in Caller : d # c => call'[d] = call[d],
           AbstractCall(c)' = r
    PROVE  AbstractCalls' = [AbstractCalls EXCEPT ![c] = r]
  BY DEF AbstractCalls, AbstractCall

\* An initial state maps to an initial state.
LEMMA RefineInit == IInv /\ Init => Atomic!Init
<1> SUFFICES ASSUME IInv, Init PROVE Atomic!Init
  OBVIOUS
<1>1. AbstractStore \in Atomic!Store
  BY DataLemma, SameOperators DEF IInv, TypeOK, AbstractStore, Readable, Atomic!Store
<1>2. AbstractCalls = [c \in Caller |-> Atomic!Idle]
  BY AbstractCallsAre DEF Init, Idle, AbstractCalls
<1> QED
  BY <1>1, <1>2 DEF Atomic!Init, AbstractStore, AbstractCalls

\* The finally block after a failure is Fail, after a persisted contact Reply.
LEMMA RefineSettle ==
    ASSUME IInv, NEW c \in Caller, Settle(c), call[c].pc # "idle", disk' = disk
    PROVE  Atomic!Fail(c) \/ Atomic!Reply(c)
<1>1. call'[c] = Idle /\ \A d \in Caller : d # c => call'[d] = call[d]
  BY DEF Settle, IInv, TypeOK
<1>2. AbstractCall(c)' = Atomic!Idle
  BY <1>1, SameOperators DEF AbstractCall, Idle, Atomic!Idle, Atomic!Entry
<1>3. AbstractCalls' = [AbstractCalls EXCEPT ![c] = Atomic!Idle]
  BY <1>1, <1>2, AbstractUpdate
<1>4. AbstractStore' = AbstractStore
  BY DEF AbstractStore
<1>5. AbstractCalls[c].status \in {"pending", "committed"}
  BY DEF AbstractCalls, AbstractCall
<1> QED
  BY <1>3, <1>4, <1>5 DEF Atomic!Fail, Atomic!Reply, AbstractStore, AbstractCalls

\* A request, by whichever way it comes, is a request of AtomicContact.
LEMMA RefineEnqueue ==
    ASSUME IInv, NEW c \in Caller, NEW k \in CookieOrNone, Enqueue(c, k), disk' = disk
    PROVE  Atomic!Request(c, k)
<1>1. call'[c] = Called(k) /\ \A d \in Caller : d # c => call'[d] = call[d]
  BY DEF Enqueue, IInv, TypeOK
<1>2. AbstractCall(c)' = Atomic!Pending(k)
  BY <1>1, CallLemma, SameOperators DEF AbstractCall, Called, Idle, Atomic!Pending, Atomic!Idle, Atomic!Entry
<1>3. AbstractCalls' = [AbstractCalls EXCEPT ![c] = Atomic!Pending(k)]
  BY <1>1, <1>2, AbstractUpdate
<1>4. AbstractStore' = AbstractStore /\ AbstractCalls[c] = Atomic!Idle
  BY AbstractCallsAre DEF AbstractStore, AbstractCalls, Enqueue
<1> QED
  BY <1>3, <1>4 DEF Atomic!Request, AbstractStore, AbstractCalls

\* A contact takes effect at its rename.
LEMMA RefineRename ==
    ASSUME IInv, NEW c \in Caller, Rename(c)
    PROVE  Atomic!Commit(c)
<1> DEFINE base == Base(Parse(disk), call[c].newCookie)
           result == ContactResult(base, call[c].answer)
<1>1. /\ Readable(disk)
      /\ call[c].answer \in AnswersTo(base)
      /\ call[c].state = result
      /\ disk' = Serialized(result)
  BY DEF Rename, IInv, CallsAreSound, NoLostUpdate
<1>2. base \in State /\ result \in State
  <2>1. disk \in File /\ call[c].newCookie \in CookieOrNone /\ call[c].answer \in Answer
    BY DEF IInv, TypeOK, Call
  <2> QED
    BY <2>1, DataLemma
<1>3. AbstractStore' = [readable |-> TRUE, state |-> result]
  <2>1. Parse(disk') = result /\ Readable(disk') = TRUE
    BY <1>1, <1>2, DataLemma DEF Readable, Serialized
  <2> HIDE DEF result
  <2> QED
    BY <2>1 DEF AbstractStore
<1>4. AbstractCalls[c] = Atomic!Pending(call[c].newCookie)
  BY AbstractCallsAre DEF AbstractCalls, Rename
<1>5. /\ call'[c].pc = "persisted"
      /\ call'[c].newCookie = call[c].newCookie
      /\ call'[c].state = result
      /\ call'[c].answer = call[c].answer
      /\ \A d \in Caller : d # c => call'[d] = call[d]
  BY <1>1 DEF Rename, IInv, TypeOK, Call
<1> DEFINE entry == Atomic!Entry("committed", call[c].newCookie, result, call[c].answer)
<1> HIDE DEF base, result
<1>6. AbstractCall(c)' = entry
  BY <1>5 DEF AbstractCall, Atomic!Entry
<1>7. AbstractCalls' = [AbstractCalls EXCEPT ![c] = entry]
  BY <1>5, <1>6, AbstractUpdate
<1>8. AbstractCalls[c].status = "pending" /\ AbstractCalls[c].newCookie = call[c].newCookie
  BY <1>4 DEF Atomic!Pending, Atomic!Idle, Atomic!Entry
<1>9. AbstractStore.readable /\ AbstractStore.state = Parse(disk)
  BY <1>1 DEF AbstractStore
<1> QED
  BY <1>1, <1>3, <1>7, <1>8, <1>9, SameOperators
     DEF Atomic!Commit, AbstractStore, AbstractCalls, base, result

\* The steps in between change nothing that AtomicContact sees.
LEMMA RefineStutter ==
    ASSUME IInv, disk' = disk,
           \A c \in Caller : AbstractCall(c)' = AbstractCall(c)
    PROVE  UNCHANGED Atomic!vars
  BY DEF Atomic!vars, AbstractCalls

\* The steps of the holder that leave state.json alone stutter or fail.
LEMMA RefineInside ==
    ASSUME IInv, NEW c \in Caller, disk' = disk,
           call[c].pc \notin {"idle", "persisted"}, call'[c].pc \notin {"idle", "persisted"},
           call'[c].newCookie = call[c].newCookie,
           \A d \in Caller : d # c => call'[d] = call[d]
    PROVE  UNCHANGED Atomic!vars
<1>1. \A d \in Caller : AbstractCall(d)' = AbstractCall(d)
  BY DEF AbstractCall
<1> QED
  BY <1>1, RefineStutter

\* A boot is a Restart of AtomicContact.
LEMMA RefineBoot ==
    ASSUME IInv, NEW c \in Caller, Boot(c)
    PROVE  Atomic!Restart(c)
<1>1. \A d \in Caller : call'[d] = IF d = c THEN Called(NoCookie) ELSE Idle
  BY DEF Boot
<1>2. ASSUME NEW d \in Caller
      PROVE  AbstractCall(d)' = IF d = c THEN Atomic!Pending(NoCookie) ELSE Atomic!Idle
  BY <1>1, CallLemma, SameOperators
     DEF AbstractCall, Idle, CookieOrNone, Atomic!Pending, Atomic!Idle, Atomic!Entry
<1>3. disk' = disk
  BY DEF Boot
<1> QED
  BY <1>2, <1>3 DEF Atomic!Restart

\* Every step maps to a step of AtomicContact or to a stutter.
LEMMA RefineNext == IInv /\ [Next]_vars => [Atomic!Next]_(Atomic!vars)
<1> SUFFICES ASSUME IInv, [Next]_vars PROVE Atomic!Next \/ UNCHANGED Atomic!vars
  OBVIOUS
<1>1. ASSUME NEW c \in Caller, Boot(c) PROVE Atomic!Next
  BY <1>1, RefineBoot DEF Atomic!Next
<1>2. ASSUME NEW c \in Caller, TimerFires(c) \/ PostUpdates(c) PROVE Atomic!Next
  <2>1. Enqueue(c, NoCookie) /\ disk' = disk /\ NoCookie \in CookieOrNone
    BY <1>2 DEF TimerFires, PostUpdates, CookieOrNone
  <2> QED
    BY <2>1, RefineEnqueue, SameOperators DEF Atomic!Next
<1>3. ASSUME NEW c \in Caller, NEW k \in Cookie, PutCookie(c, k) PROVE Atomic!Next
  <2>1. Enqueue(c, k) /\ disk' = disk /\ k \in CookieOrNone
    BY <1>3 DEF PutCookie, CookieOrNone
  <2> QED
    BY <2>1, RefineEnqueue, SameOperators DEF Atomic!Next
<1>4. ASSUME NEW c \in Caller, ReadFails(c) \/ WriteFails(c) \/ RenameFails(c) \/ Finish(c)
      PROVE  Atomic!Next
  <2>1. Settle(c) /\ call[c].pc # "idle" /\ disk' = disk
    BY <1>4 DEF ReadFails, WriteFails, RenameFails, Finish, HasMutex
  <2> QED
    BY <2>1, RefineSettle DEF Atomic!Next
<1>5. ASSUME NEW c \in Caller,
             ReadState(c) \/ (\E a \in Answer : MamAnswers(c, a)) \/ WriteTemporary(c)
      PROVE  UNCHANGED Atomic!vars
  <2>1. /\ disk' = disk
        /\ call[c].pc \notin {"idle", "persisted"} /\ call'[c].pc \notin {"idle", "persisted"}
        /\ call'[c].newCookie = call[c].newCookie
        /\ \A d \in Caller : d # c => call'[d] = call[d]
    <3>1. call \in [Caller -> Call]
      BY DEF IInv, TypeOK
    <3>2. CASE ReadState(c)
      BY <3>1, <3>2 DEF ReadState, HasMutex, Call
    <3>3. CASE \E a \in Answer : MamAnswers(c, a)
      BY <3>1, <3>3 DEF MamAnswers, Call
    <3>4. CASE WriteTemporary(c)
      BY <3>1, <3>4 DEF WriteTemporary, Call
    <3> QED
      BY <1>5, <3>2, <3>3, <3>4
  <2> QED
    BY <2>1, RefineInside
<1>6. ASSUME NEW c \in Caller, Rename(c) PROVE Atomic!Next
  BY <1>6, RefineRename DEF Atomic!Next
<1>7. ASSUME (\E s \in Stopper : Stop(s)) \/ Exit \/ Crash \/ UNCHANGED vars
      PROVE  UNCHANGED Atomic!vars
  <2>1. disk' = disk /\ call' = call
    BY <1>7 DEF Stop, Exit, Crash, vars
  <2> QED
    BY <2>1, RefineStutter DEF AbstractCall
<1> QED
  BY <1>1, <1>2, <1>3, <1>4, <1>5, <1>6, <1>7 DEF Next, Progress

(***************************************************************************)
(* Contact implements AtomicContact: seen from its callers and from every  *)
(* reader of state.json, each contact is one atomic read-modify-write.     *)
(***************************************************************************)
THEOREM Refinement == Spec => AtomicSpec
  BY InitIsInductive, Inductive, RefineInit, RefineNext, PTL
     DEF Spec, AtomicSpec, Atomic!Spec

=============================================================================
