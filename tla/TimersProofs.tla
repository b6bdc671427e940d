---------------------------- MODULE TimersProofs ----------------------------
(***************************************************************************)
(* For any threads, waitable timers, queue timers and pipe size: the count *)
(* of a timer's handle is the number of those who rely on it, and a timer  *)
(* whose cancellation has returned stays silent.                           *)
(*                                                                         *)
(* Both need to know what the scheduler holds between its steps: inside a  *)
(* scan, what it is going to fire is still armed, and what it has fired is *)
(* not armed again before the mutex is released.                           *)
(***************************************************************************)
EXTENDS Timers, FiniteSetTheorems, TLAPS

\* What the scheduler's local variables are at its statements.
Scanned ==
  /\ batch \subseteq expired
  /\ sched # "scan" => batch = {}
  /\ sched = "scan" => firedOnce \cap entries = {}
  /\ sched \notin {"scan", "drop", "exit"} => firedOnce = {}

\* What a thread in a call has: a canceller the scheduler's reference between
\* erase and drop, a deleter the queue's mutex and a timer not closed yet.
InCalls ==
  \A c \in Callers :
    /\ call[c] = "none" <=> arg[c] = None
    /\ held[c] => call[c] = "drop"
    /\ arg[c] \in Queued => queueMutex = c /\ arg[c] \in owned

Counted == \A t \in Timers : nRef[t] = Users(t)

IInv ==
  /\ TypeOK
  /\ Scanned
  /\ InCalls
  /\ Counted
  /\ SilentAfterCancel

-----------------------------------------------------------------------------
LEMMA CancellingFinite ==
  ASSUME NEW t
  PROVE  IsFiniteSet(Cancelling(t)) /\ Cardinality(Cancelling(t)) \in Nat
<1>1. Cancelling(t) \in SUBSET Callers
  BY DEF Cancelling
<1>2. IsFiniteSet(Cancelling(t))
  BY <1>1, FS_Subset, TimersFinite
<1> QED
  BY <1>2, FS_CardinalityType

\* A step that leaves the handle of t and its users alone.
LEMMA SameUsers ==
  ASSUME NEW t \in Timers,
         (t \in owned') = (t \in owned), (t \in entries') = (t \in entries),
         (t \in firedOnce') = (t \in firedOnce), Cancelling(t)' = Cancelling(t)
  PROVE  Users(t)' = Users(t)
  BY DEF Users, One

LEMMA SameCancelling ==
  ASSUME NEW t, UNCHANGED <<held, arg>>
  PROVE  Cancelling(t)' = Cancelling(t)
  BY DEF Cancelling

LEMMA UsersType ==
  ASSUME NEW t \in Timers
  PROVE  /\ Users(t) \in Nat
         /\ t \in owned => Users(t) > 0
         /\ t \in firedOnce => Users(t) > 0
         /\ Cancelling(t) # {} => Users(t) > 0
<1>1. Cancelling(t) # {} => Cardinality(Cancelling(t)) > 0
  BY CancellingFinite, FS_EmptySet
<1> QED
  BY <1>1, CancellingFinite DEF Users, One

LEMMA InitIInv == Init => IInv
<1> SUFFICES ASSUME Init PROVE IInv
  OBVIOUS
<1>1. TypeOK
  <2>1. pipe \in [Timers -> 0..PipeSize]
    BY PipeAssumption DEF Init
  <2>2. nRef \in [Timers -> Nat] /\ worker \in [Queued -> {"wait", "call", "callonce", "end"}]
    BY DEF Init
  <2>3. /\ call \in [Callers -> {"none", "erase", "drop", "drain"}]
        /\ arg \in [Callers -> Timers \cup {None}]
        /\ held \in [Callers -> BOOLEAN]
    BY DEF Init
  <2> QED
    BY <2>1, <2>2, <2>3 DEF Init, TypeOK
<1>2. Scanned /\ SilentAfterCancel
  BY DEF Init, Scanned, SilentAfterCancel
<1>3. InCalls
  BY NoneAssumption DEF Init, InCalls, Callers, Timers
<1>4. Counted
  <2> SUFFICES ASSUME NEW t \in Timers PROVE nRef[t] = Users(t)
    BY DEF Counted
  <2>1. Cancelling(t) = {}
    BY DEF Init, Cancelling
  <2>2. Cardinality(Cancelling(t)) = 0
    BY <2>1, FS_EmptySet
  <2> QED
    BY <2>2 DEF Init, Users, One
<1> QED
  BY <1>1, <1>2, <1>3, <1>4 DEF IInv

-----------------------------------------------------------------------------
(***************************************************************************)
(* The scheduler.                                                          *)
(***************************************************************************)
LEMMA SameCounted ==
  ASSUME IInv, UNCHANGED <<nRef, owned, entries, firedOnce, held, arg>>
  PROVE  Counted'
<1> SUFFICES ASSUME NEW t \in Timers PROVE nRef'[t] = Users(t)'
  BY DEF Counted
<1>1. Cancelling(t)' = Cancelling(t)
  BY SameCancelling
<1> QED
  BY <1>1, SameUsers DEF IInv, Counted

LEMMA ExpireStep == ASSUME IInv, NEW t \in Timers, Expire(t) PROVE IInv'
<1> USE DEF IInv, Expire, callVars
<1>1. TypeOK' /\ Scanned' /\ InCalls' /\ SilentAfterCancel'
  BY DEF TypeOK, Scanned, InCalls, SilentAfterCancel
<1>2. Counted'
  BY SameCounted
<1> QED
  BY <1>1, <1>2

LEMMA SchedWakeStep == ASSUME IInv, SchedWake PROVE IInv'
<1> USE DEF IInv, SchedWake, callVars
<1>1. TypeOK' /\ Scanned' /\ InCalls' /\ SilentAfterCancel'
  BY DEF TypeOK, Scanned, InCalls, SilentAfterCancel
<1>2. Counted'
  BY SameCounted
<1> QED
  BY <1>1, <1>2

LEMMA SchedFireStep == ASSUME IInv, NEW t \in Timers, SchedFire(t) PROVE IInv'
<1> USE DEF IInv, SchedFire, callVars
<1>1. t \in entries /\ t \notin firedOnce /\ t \notin quiet
  BY DEF TypeOK, Scanned, SilentAfterCancel
<1>2. TypeOK' /\ Scanned' /\ InCalls'
  BY PipeAssumption, <1>1 DEF TypeOK, Scanned, InCalls
<1>3. SilentAfterCancel'
  BY <1>1 DEF TypeOK, SilentAfterCancel
<1>4. Counted'
  <2> SUFFICES ASSUME NEW s \in Timers PROVE nRef'[s] = Users(s)'
    BY DEF Counted
  <2>1. Cancelling(s)' = Cancelling(s)
    BY SameCancelling
  <2>2. Users(s)' = Users(s)
    BY <1>1, <2>1, CancellingFinite DEF Users, One
  <2> QED
    BY <2>2 DEF Counted
<1> QED
  BY <1>2, <1>3, <1>4

LEMMA SchedReleaseStep == ASSUME IInv, SchedRelease PROVE IInv'
<1> USE DEF IInv, SchedRelease, callVars
<1>1. TypeOK' /\ Scanned' /\ InCalls' /\ SilentAfterCancel'
  BY DEF TypeOK, Scanned, InCalls, SilentAfterCancel
<1>2. Counted'
  <2> SUFFICES ASSUME NEW s \in Timers PROVE nRef'[s] = Users(s)'
    BY DEF Counted
  <2>1. Cancelling(s)' = Cancelling(s)
    BY SameCancelling
  <2>2. Users(s)' = Users(s)
    BY <2>1, CancellingFinite DEF Users, One, Scanned
  <2> QED
    BY <2>2 DEF Counted
<1> QED
  BY <1>1, <1>2

LEMMA SchedDropStep == ASSUME IInv, NEW t \in Timers, SchedDrop(t) PROVE IInv'
<1> USE DEF IInv, SchedDrop, callVars
<1>1. nRef[t] > 0
  BY UsersType DEF Counted
<1>2. TypeOK' /\ Scanned' /\ InCalls' /\ SilentAfterCancel'
  BY <1>1 DEF TypeOK, Scanned, InCalls, SilentAfterCancel
<1>3. Counted'
  <2> SUFFICES ASSUME NEW s \in Timers PROVE nRef'[s] = Users(s)'
    BY DEF Counted
  <2>1. Cancelling(s)' = Cancelling(s)
    BY SameCancelling
  <2>2. Users(s)' = IF s = t THEN Users(s) - 1 ELSE Users(s)
    BY <2>1, CancellingFinite DEF Users, One
  <2> QED
    BY <2>2 DEF Counted, TypeOK
<1> QED
  BY <1>2, <1>3

LEMMA SchedLoopStep == ASSUME IInv, SchedLoop PROVE IInv'
<1> USE DEF IInv, SchedLoop, callVars
<1>1. TypeOK' /\ Scanned' /\ InCalls' /\ SilentAfterCancel'
  BY DEF TypeOK, Scanned, InCalls, SilentAfterCancel
<1>2. Counted'
  BY SameCounted
<1> QED
  BY <1>1, <1>2

LEMMA StopSchedulerStep == ASSUME IInv, StopScheduler PROVE IInv'
<1> USE DEF IInv, StopScheduler, callVars
<1>1. TypeOK' /\ Scanned' /\ InCalls' /\ SilentAfterCancel'
  BY DEF TypeOK, Scanned, InCalls, SilentAfterCancel
<1>2. Counted'
  BY SameCounted
<1> QED
  BY <1>1, <1>2

-----------------------------------------------------------------------------
(***************************************************************************)
(* The application.                                                        *)
(***************************************************************************)
LEMMA CreateWaitableTimerStep ==
  ASSUME IInv, NEW t \in Timers, CreateWaitableTimer(t) PROVE IInv'
<1> USE DEF IInv, CreateWaitableTimer, callVars, schedVars
<1>1. TypeOK' /\ Scanned' /\ InCalls' /\ SilentAfterCancel'
  BY PipeAssumption DEF TypeOK, Scanned, InCalls, SilentAfterCancel
<1>2. Counted'
  <2> SUFFICES ASSUME NEW s \in Timers PROVE nRef'[s] = Users(s)'
    BY DEF Counted
  <2>1. Cancelling(s)' = Cancelling(s)
    BY SameCancelling
  <2>2. t \notin owned
    BY UsersType DEF Counted
  <2>3. Users(s)' = IF s = t THEN Users(s) + 1 ELSE Users(s)
    BY <2>1, <2>2, CancellingFinite DEF Users, One
  <2> QED
    BY <2>3 DEF Counted, TypeOK
<1> QED
  BY <1>1, <1>2

\* Arming keeps the reference of an entry and adds one where there was none.
LEMMA ArmStep ==
  ASSUME IInv, NEW t \in Timers, NEW periodic \in BOOLEAN, Arm(t, periodic)
  PROVE  /\ entries' \subseteq Timers /\ period' \subseteq Timers /\ expired' \subseteq entries'
         /\ sched' \in {"none", "wait", "scan", "drop", "exit", "ended"}
         /\ batch' \subseteq Timers /\ firedOnce' \subseteq Timers
         /\ stop' \in BOOLEAN /\ quiet' \subseteq Timers
         /\ Scanned'
  BY DEF IInv, TypeOK, Scanned, Arm, SchedMutexFree

LEMMA SetWaitableTimerStep ==
  ASSUME IInv, NEW t \in Timers, NEW periodic \in BOOLEAN, SetWaitableTimer(t, periodic)
  PROVE  IInv'
<1> USE DEF IInv, SetWaitableTimer, callVars
<1>1. TypeOK'
  BY ArmStep DEF TypeOK
<1>2. Scanned'
  BY ArmStep
<1>3. InCalls'
  BY DEF InCalls
<1>4. SilentAfterCancel'
  BY DEF TypeOK, SilentAfterCancel, Arm
<1>5. Counted'
  <2> SUFFICES ASSUME NEW s \in Timers PROVE nRef'[s] = Users(s)'
    BY DEF Counted
  <2>1. Cancelling(s)' = Cancelling(s)
    BY SameCancelling
  <2>2. Users(s)' = IF s = t /\ t \notin entries THEN Users(s) + 1 ELSE Users(s)
    BY <2>1, CancellingFinite DEF Users, One, Arm
  <2> QED
    BY <2>2 DEF Counted, TypeOK
<1> QED
  BY <1>1, <1>2, <1>3, <1>4, <1>5

LEMMA CloseTimerStep == ASSUME IInv, NEW t \in Timers, CloseTimer(t) PROVE IInv'
<1> USE DEF IInv, CloseTimer, callVars, schedVars
<1>1. nRef[t] > 0
  BY UsersType DEF Counted
<1>2. TypeOK' /\ Scanned' /\ SilentAfterCancel'
  BY <1>1 DEF TypeOK, Scanned, SilentAfterCancel
<1>3. InCalls'
  BY KindsAssumption DEF InCalls
<1>4. Counted'
  <2> SUFFICES ASSUME NEW s \in Timers PROVE nRef'[s] = Users(s)'
    BY DEF Counted
  <2>1. Cancelling(s)' = Cancelling(s)
    BY SameCancelling
  <2>2. Users(s)' = IF s = t THEN Users(s) - 1 ELSE Users(s)
    BY <2>1, CancellingFinite DEF Users, One
  <2> QED
    BY <2>2 DEF Counted, TypeOK
<1> QED
  BY <1>2, <1>3, <1>4

LEMMA WaitTimerStep == ASSUME IInv, NEW t \in Timers, WaitTimer(t) PROVE IInv'
<1> USE DEF IInv, WaitTimer, callVars, schedVars
<1>1. TypeOK' /\ Scanned' /\ InCalls' /\ SilentAfterCancel'
  BY PipeAssumption DEF TypeOK, Scanned, InCalls, SilentAfterCancel
<1>2. Counted'
  BY SameCounted
<1> QED
  BY <1>1, <1>2

\* A call begins: its thread is none of the cancellers of a timer yet.
LEMMA BeginCall ==
  ASSUME IInv, NEW c \in Callers, NEW t \in Timers, Ready(c),
         arg' = [arg EXCEPT ![c] = t], UNCHANGED <<nRef, owned, entries, firedOnce, held>>
  PROVE  Counted'
<1> SUFFICES ASSUME NEW s \in Timers PROVE nRef'[s] = Users(s)'
  BY DEF Counted
<1>1. ~held[c]
  BY DEF IInv, InCalls, Ready
<1>2. Cancelling(s)' = Cancelling(s)
  BY <1>1 DEF Cancelling, IInv, TypeOK
<1> QED
  BY <1>2, SameUsers DEF IInv, Counted

LEMMA CancelStep == ASSUME IInv, NEW c \in Callers, NEW t \in Timers, Cancel(c, t) PROVE IInv'
<1> USE DEF IInv, Cancel, schedVars
<1>1. TypeOK' /\ Scanned'
  BY DEF TypeOK, Scanned
<1>2. InCalls'
  BY KindsAssumption, NoneAssumption DEF InCalls, Ready, TypeOK
<1>3. SilentAfterCancel'
  BY NoneAssumption DEF TypeOK, SilentAfterCancel, InCalls, Ready
<1>4. Counted'
  BY BeginCall
<1> QED
  BY <1>1, <1>2, <1>3, <1>4

LEMMA CancelEraseStep ==
  ASSUME IInv, NEW c \in Callers, NEW t \in Timers, CancelErase(c, t) PROVE IInv'
<1> USE DEF IInv, CancelErase
<1>1. TypeOK' /\ Scanned'
  BY DEF TypeOK, Scanned, SchedMutexFree
<1>2. InCalls'
  BY DEF InCalls, TypeOK
<1>3. SilentAfterCancel'
  BY DEF TypeOK, SilentAfterCancel
<1>4. Counted'
  <2> SUFFICES ASSUME NEW s \in Timers PROVE nRef'[s] = Users(s)'
    BY DEF Counted
  <2>1. ~held[c]
    BY DEF InCalls
  <2>2. CASE s = t /\ t \in entries
    <3>1. Cancelling(s)' = Cancelling(s) \cup {c} /\ c \notin Cancelling(s)
      BY <2>1, <2>2 DEF Cancelling, TypeOK
    <3>2. Cardinality(Cancelling(s)') = Cardinality(Cancelling(s)) + 1
      BY <3>1, CancellingFinite, FS_AddElement
    <3>3. Users(s)' = Users(s)
      BY <2>2, <3>2, CancellingFinite DEF Users, One
    <3> QED
      BY <3>3 DEF Counted
  <2>3. CASE ~(s = t /\ t \in entries)
    <3>1. Cancelling(s)' = Cancelling(s)
      BY <2>1, <2>3 DEF Cancelling, TypeOK
    <3>2. Users(s)' = Users(s)
      BY <2>3, <3>1 DEF Users, One
    <3> QED
      BY <3>2 DEF Counted
  <2> QED
    BY <2>2, <2>3
<1> QED
  BY <1>1, <1>2, <1>3, <1>4

LEMMA CancelDropStep ==
  ASSUME IInv, NEW c \in Callers, NEW t \in Timers, CancelDrop(c, t) PROVE IInv'
<1> USE DEF IInv, CancelDrop, schedVars
<1>1. held[c] => c \in Cancelling(t)
  BY DEF Cancelling
<1>2. held[c] => nRef[t] > 0
  BY <1>1, UsersType DEF Counted
<1>3. TypeOK' /\ Scanned'
  BY <1>2 DEF TypeOK, Scanned
<1>4. InCalls' /\ SilentAfterCancel'
  BY DEF InCalls, TypeOK, SilentAfterCancel
<1>5. Counted'
  <2> SUFFICES ASSUME NEW s \in Timers PROVE nRef'[s] = Users(s)'
    BY DEF Counted
  <2>1. CASE s = t /\ held[c]
    <3>1. Cancelling(s)' = Cancelling(s) \ {c} /\ c \in Cancelling(s)
      BY <2>1, <1>1 DEF Cancelling, TypeOK
    <3>2. Cardinality(Cancelling(s)') = Cardinality(Cancelling(s)) - 1
      BY <3>1, CancellingFinite, FS_RemoveElement
    <3>3. Users(s)' = Users(s) - 1
      BY <2>1, <3>2, CancellingFinite DEF Users, One
    <3> QED
      BY <2>1, <3>3 DEF Counted, TypeOK
  <2>2. CASE ~(s = t /\ held[c])
    <3>1. Cancelling(s)' = Cancelling(s)
      BY <2>2 DEF Cancelling, TypeOK
    <3>2. Users(s)' = Users(s)
      BY <3>1 DEF Users, One
    <3> QED
      BY <2>2, <3>2 DEF Counted, TypeOK
  <2> QED
    BY <2>1, <2>2
<1> QED
  BY <1>3, <1>4, <1>5

\* A call ends: its thread had given the scheduler's reference back.
LEMMA EndCall ==
  ASSUME IInv, NEW c \in Callers, call[c] = "drain",
         arg' = [arg EXCEPT ![c] = None], UNCHANGED held, NEW s \in Timers
  PROVE  Cancelling(s)' = Cancelling(s)
<1>1. ~held[c]
  BY DEF IInv, InCalls
<1> QED
  BY <1>1, NoneAssumption DEF Cancelling, IInv, TypeOK

LEMMA CancelDrainStep ==
  ASSUME IInv, NEW c \in Callers, NEW t \in Timers, CancelDrain(c, t) PROVE IInv'
<1> USE DEF IInv, CancelDrain, schedVars
<1>1. TypeOK' /\ Scanned'
  BY PipeAssumption DEF TypeOK, Scanned
<1>2. InCalls'
  BY NoneAssumption DEF InCalls, TypeOK, Timers
<1>3. SilentAfterCancel'
  BY DEF TypeOK, SilentAfterCancel
<1>4. Counted'
  <2> SUFFICES ASSUME NEW s \in Timers PROVE nRef'[s] = Users(s)'
    BY DEF Counted
  <2>1. Cancelling(s)' = Cancelling(s)
    BY EndCall
  <2> QED
    BY <2>1, SameUsers DEF Counted
<1> QED
  BY <1>1, <1>2, <1>3, <1>4

-----------------------------------------------------------------------------
(***************************************************************************)
(* Timer queues.                                                           *)
(***************************************************************************)
LEMMA CreateTimerStep ==
  ASSUME IInv, NEW c \in Callers, NEW t \in Timers, NEW periodic \in BOOLEAN,
         CreateTimer(c, t, periodic)
  PROVE  IInv'
<1> USE DEF IInv, CreateTimer, callVars
<1>1. TypeOK'
  BY ArmStep, PipeAssumption DEF TypeOK
<1>2. Scanned'
  BY ArmStep
<1>3. InCalls'
  BY DEF InCalls
<1>4. SilentAfterCancel'
  BY DEF TypeOK, SilentAfterCancel, Arm
<1>5. Counted'
  <2> SUFFICES ASSUME NEW s \in Timers PROVE nRef'[s] = Users(s)'
    BY DEF Counted
  <2>1. Cancelling(s)' = Cancelling(s)
    BY SameCancelling
  <2>2. CASE s = t
    <3>1. Users(t) = 0
      BY DEF Counted
    <3>2. t \notin owned /\ t \notin entries
      BY <3>1, CancellingFinite DEF Users, One
    <3>3. Users(t)' = 2
      BY <2>1, <2>2, <3>1, <3>2, CancellingFinite DEF Users, One, Arm
    <3> QED
      BY <2>2, <3>3 DEF TypeOK
  <2>3. CASE s # t
    <3>1. Users(s)' = Users(s)
      BY <2>1, <2>3, SameUsers DEF Arm
    <3> QED
      BY <2>3, <3>1 DEF Counted, TypeOK
  <2> QED
    BY <2>2, <2>3
<1> QED
  BY <1>1, <1>2, <1>3, <1>4, <1>5

LEMMA DeleteTimerStep ==
  ASSUME IInv, NEW c \in Callers, NEW t \in Timers, DeleteTimer(c, t) PROVE IInv'
<1> USE DEF IInv, DeleteTimer, schedVars
<1>1. TypeOK' /\ Scanned'
  BY DEF TypeOK, Scanned
<1>2. InCalls'
  BY NoneAssumption DEF InCalls, Ready, TypeOK
<1>3. SilentAfterCancel'
  BY NoneAssumption DEF TypeOK, SilentAfterCancel, InCalls, Ready
<1>4. Counted'
  BY BeginCall
<1> QED
  BY <1>1, <1>2, <1>3, <1>4

LEMMA DeleteCloseStep ==
  ASSUME IInv, NEW c \in Callers, NEW t \in Timers, DeleteClose(c, t) PROVE IInv'
<1> USE DEF IInv, DeleteClose, schedVars
<1>1. t \in owned /\ queueMutex = c
  BY DEF InCalls
<1>2. nRef[t] > 0
  BY <1>1, UsersType DEF Counted
<1>3. TypeOK' /\ Scanned'
  BY <1>2, PipeAssumption DEF TypeOK, Scanned
<1>4. InCalls'
  BY <1>1, NoneAssumption DEF InCalls, TypeOK, Timers
<1>5. SilentAfterCancel'
  BY DEF TypeOK, SilentAfterCancel
<1>6. Counted'
  <2> SUFFICES ASSUME NEW s \in Timers PROVE nRef'[s] = Users(s)'
    BY DEF Counted
  <2>1. Cancelling(s)' = Cancelling(s)
    BY EndCall
  <2>2. Users(s)' = IF s = t THEN Users(s) - 1 ELSE Users(s)
    BY <1>1, <2>1, CancellingFinite DEF Users, One
  <2> QED
    BY <2>2 DEF Counted, TypeOK
<1> QED
  BY <1>3, <1>4, <1>5, <1>6

LEMMA QueueWorkerStep == ASSUME IInv, NEW t \in Queued, QueueWorker(t) PROVE IInv'
<1> USE DEF IInv, QueueWorker, WorkerDeadline, WorkerCancelled, WorkerReturn, callVars, schedVars
<1>1. TypeOK' /\ Scanned' /\ InCalls' /\ SilentAfterCancel'
  BY DEF TypeOK, Scanned, InCalls, SilentAfterCancel
<1>2. Counted'
  BY SameCounted
<1> QED
  BY <1>1, <1>2

LEMMA StutterStep == ASSUME IInv, UNCHANGED vars PROVE IInv'
<1> USE DEF IInv, vars, callVars, schedVars
<1>1. TypeOK' /\ Scanned' /\ InCalls' /\ SilentAfterCancel'
  BY DEF TypeOK, Scanned, InCalls, SilentAfterCancel
<1>2. Counted'
  BY SameCounted
<1> QED
  BY <1>1, <1>2

-----------------------------------------------------------------------------
LEMMA RequestStep == ASSUME IInv, Request PROVE IInv'
<1>1. ASSUME NEW t \in Timers, CreateWaitableTimer(t) \/ CloseTimer(t) \/ WaitTimer(t)
      PROVE  IInv'
  BY <1>1, CreateWaitableTimerStep, CloseTimerStep, WaitTimerStep
<1>2. ASSUME NEW t \in Plain, NEW periodic \in BOOLEAN, SetWaitableTimer(t, periodic)
      PROVE  IInv'
  BY <1>2, SetWaitableTimerStep DEF Timers
<1>3. ASSUME NEW c \in Callers, NEW t \in Timers, Cancel(c, t) \/ DeleteTimer(c, t)
      PROVE  IInv'
  BY <1>3, CancelStep, DeleteTimerStep
<1>4. ASSUME NEW c \in Callers, NEW t \in Timers, NEW periodic \in BOOLEAN,
             CreateTimer(c, t, periodic) \/ ChangeTimer(c, t, periodic)
      PROVE  IInv'
  BY <1>4, CreateTimerStep, SetWaitableTimerStep DEF ChangeTimer
<1> QED
  BY <1>1, <1>2, <1>3, <1>4 DEF Request

LEMMA NextIInv == IInv /\ [Next]_vars => IInv'
<1> SUFFICES ASSUME IInv, [Next]_vars PROVE IInv'
  OBVIOUS
<1>1. CASE Request
  BY <1>1, RequestStep
<1>2. CASE Scheduler
  BY <1>2, SchedWakeStep, SchedReleaseStep, SchedLoopStep, SchedFireStep, SchedDropStep
     DEF Scheduler
<1>3. CASE StopScheduler
  BY <1>3, StopSchedulerStep
<1>4. ASSUME NEW t \in Timers, Expire(t) PROVE IInv'
  BY <1>4, ExpireStep
<1>5. ASSUME NEW c \in Callers, CallStep(c) PROVE IInv'
  BY <1>5, CancelEraseStep, CancelDropStep, CancelDrainStep, DeleteCloseStep DEF CallStep
<1>6. ASSUME NEW t \in Queued, QueueWorker(t) PROVE IInv'
  BY <1>6, QueueWorkerStep
<1>7. CASE UNCHANGED vars
  BY <1>7, StutterStep
<1> QED
  BY <1>1, <1>2, <1>3, <1>4, <1>5, <1>6, <1>7 DEF Next

LEMMA SpecIInv == Spec => []IInv
  BY InitIInv, NextIInv, PTL DEF Spec

(***************************************************************************)
(* The reference count of every timer's handle, of any number of timers    *)
(* and threads, is the number of its users: owner, schedule entry, fired   *)
(* entry to be dropped, canceller that took the entry over.  No use after  *)
(* the last release and no leak in SetWaitableTimer, CancelWaitableTimer,  *)
(* CloseHandle, the timer queue and timer_sched_loop.                      *)
(***************************************************************************)
THEOREM HandlesCounted == Spec => []HandleCounted
<1>1. IInv => HandleCounted
  BY DEF IInv, Counted, HandleCounted
<1> QED
  BY <1>1, SpecIInv, PTL

(***************************************************************************)
(* After CancelWaitableTimer has returned the timer is neither armed nor   *)
(* signalled until it is armed again, although the scheduler may have      *)
(* found it due before.                                                    *)
(***************************************************************************)
THEOREM CancelSilences == Spec => []SilentAfterCancel
<1>1. IInv => SilentAfterCancel
  BY DEF IInv
<1> QED
  BY <1>1, SpecIInv, PTL
=============================================================================
