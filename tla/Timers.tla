------------------------------- MODULE Timers -------------------------------
(***************************************************************************)
(* Waitable timers and timer queues (src/src/platform/posix/sysobjs.cpp).  *)
(*                                                                         *)
(* One scheduler thread signals every armed waitable timer by a byte in    *)
(* its pipe.  A timer of a timer queue is an armed waitable timer plus a   *)
(* worker thread that runs the callback by its own clock.  Time is         *)
(* abstracted to the moment a deadline passes.                             *)
(***************************************************************************)
EXTENDS Naturals, FiniteSets

CONSTANTS
  Apps,       \* threads of the application
  Plain,      \* waitable timers of the application
  Queued,     \* timers of the timer queue
  PipeSize,   \* bytes a pipe takes before write blocks
  None

Timers == Plain \cup Queued

\* Threads that call the API; a callback runs on the worker of its timer, which
\* is named like it.
Callers == Apps \cup Queued

ASSUME KindsAssumption ==
  Apps \cap Timers = {} /\ Plain \cap Queued = {}
ASSUME PipeAssumption == PipeSize \in Nat \ {0}
ASSUME NoneAssumption == None \notin Callers \cup Timers
ASSUME TimersFinite == IsFiniteSet(Timers) /\ IsFiniteSet(Callers)

VARIABLES
  nRef,       \* references of a timer's handle, 0 when it is freed
  owned,      \* its creator has not closed it yet
  pipe,       \* bytes in its pipe
  entries,    \* s_timerSched
  period,     \* the timers whose period is not 0
  expired,    \* the armed timers whose deadline has passed
  sched,      \* the scheduler thread
  batch,      \* armed timers it found expired and has not looked at yet
  firedOnce,  \* timers whose reference it is about to drop
  stop,       \* s_timerSchedStop
  call,       \* step of the call a thread is in
  arg,        \* the timer it is cancelling
  held,       \* wasScheduled: the call has the scheduler's reference
  queueMutex, \* owner of s_timerQueueMutex
  cancelled,  \* TimerInfo::cancelled
  worker,     \* the worker of a queue timer
  quiet       \* history: cancelled, and not armed since

schedVars == <<entries, period, expired, sched, batch, firedOnce, stop>>
callVars == <<call, arg, held, queueMutex>>
vars == <<nRef, owned, pipe, schedVars, callVars, cancelled, worker, quiet>>

Init ==
  /\ nRef = [t \in Timers |-> 0]
  /\ owned = {}
  /\ pipe = [t \in Timers |-> 0]
  /\ entries = {} /\ period = {} /\ expired = {}
  /\ sched = "none" /\ batch = {} /\ firedOnce = {}
  /\ stop = FALSE
  /\ call = [c \in Callers |-> "none"]
  /\ arg = [c \in Callers |-> None]
  /\ held = [c \in Callers |-> FALSE]
  /\ queueMutex = None
  /\ cancelled = {}
  /\ worker = [t \in Queued |-> "end"]
  /\ quiet = {}

-----------------------------------------------------------------------------
(***************************************************************************)
(* The scheduler thread: timer_sched_loop.  s_timerSchedMutex is held      *)
(* across steps only by its scan.                                          *)
(***************************************************************************)
SchedMutexFree == sched # "scan"

\* The deadline of an armed timer passes.
Expire(t) ==
  /\ t \in entries \ expired
  /\ expired' = expired \cup {t}
  /\ UNCHANGED <<nRef, owned, pipe, entries, period, sched, batch, firedOnce, stop,
                 callVars, cancelled, worker, quiet>>

SchedWake ==
  /\ sched = "wait" /\ ~stop /\ expired # {}
  /\ sched' = "scan"
  /\ batch' = expired
  /\ UNCHANGED <<nRef, owned, pipe, entries, period, expired, firedOnce, stop,
                 callVars, cancelled, worker, quiet>>

\* writeSignal is a blocking write, done with the mutex held.
SchedFire(t) ==
  /\ sched = "scan" /\ t \in batch
  /\ pipe[t] < PipeSize
  /\ pipe' = [pipe EXCEPT ![t] = @ + 1]
  /\ batch' = batch \ {t}
  /\ expired' = expired \ {t}
  /\ entries' = entries \ ({t} \ period)
  /\ firedOnce' = firedOnce \cup ({t} \ period)
  /\ UNCHANGED <<nRef, owned, period, sched, stop, callVars, cancelled, worker,
                 quiet>>

\* Mutant: the scheduler waits for the next deadline with the mutex held.
SchedReleaseLate ==
  /\ sched = "scan" /\ batch = {} /\ expired # {} /\ sched' = "drop"
  /\ UNCHANGED <<nRef, owned, pipe, entries, period, expired, firedOnce, batch, stop,
                 callVars, cancelled, worker, quiet>>

\* The end of the scan, or of the process: the references are dropped after
\* the mutex is released.
SchedRelease ==
  /\ \/ /\ sched = "scan" /\ batch = {} /\ sched' = "drop"
        /\ UNCHANGED <<entries, expired, firedOnce>>
     \/ /\ sched = "wait" /\ stop /\ sched' = "exit"
        /\ firedOnce' = entries
        /\ entries' = {} /\ expired' = {}
  /\ UNCHANGED <<nRef, owned, pipe, period, batch, stop, callVars, cancelled, worker,
                 quiet>>

SchedDrop(t) ==
  /\ sched \in {"drop", "exit"} /\ t \in firedOnce
  /\ nRef' = [nRef EXCEPT ![t] = @ - 1]
  /\ firedOnce' = firedOnce \ {t}
  /\ UNCHANGED <<owned, pipe, entries, period, expired, sched, batch, stop, callVars,
                 cancelled, worker, quiet>>

\* Mutant: the thread returns after its first scan.
SchedLoopOnce ==
  /\ sched \in {"drop", "exit"} /\ firedOnce = {}
  /\ sched' = "ended"
  /\ UNCHANGED <<nRef, owned, pipe, entries, period, expired, batch, firedOnce, stop,
                 callVars, cancelled, worker, quiet>>

SchedLoop ==
  /\ sched \in {"drop", "exit"} /\ firedOnce = {}
  /\ sched' = IF sched = "drop" THEN "wait" ELSE "ended"
  /\ UNCHANGED <<nRef, owned, pipe, entries, period, expired, batch, firedOnce, stop,
                 callVars, cancelled, worker, quiet>>

\* ~TimerSchedGuard sets the flag and joins the thread.
StopScheduler ==
  /\ ~stop /\ SchedMutexFree
  /\ stop' = TRUE
  /\ UNCHANGED <<nRef, owned, pipe, entries, period, expired, sched, batch, firedOnce,
                 callVars, cancelled, worker, quiet>>

Scheduler ==
  SchedWake \/ SchedRelease \/ SchedLoop \/ \E t \in Timers : SchedFire(t) \/ SchedDrop(t)

-----------------------------------------------------------------------------
(***************************************************************************)
(* Waitable timers.                                                        *)
(***************************************************************************)
\* A thread between calls; a worker calls the API from its callback.
Ready(c) == call[c] = "none" /\ (c \notin Apps => worker[c] \in {"call", "callonce"})

\* Nobody else is using t: what an application owes a handle it closes.
Idle(t) == \A c \in Callers : arg[c] # t

CreateWaitableTimer(t) ==
  /\ t \in Plain /\ nRef[t] = 0
  /\ nRef' = [nRef EXCEPT ![t] = 1]
  /\ owned' = owned \cup {t}
  /\ pipe' = [pipe EXCEPT ![t] = 0]
  /\ quiet' = quiet \ {t}
  /\ UNCHANGED <<schedVars, callVars, cancelled, worker>>

\* SetWaitableTimer under the mutex: the scheduler, started if need be, has
\* one reference for the entry.
Arm(t, periodic) ==
  /\ SchedMutexFree /\ ~stop
  /\ sched' = IF sched = "none" THEN "wait" ELSE sched
  /\ entries' = entries \cup {t}
  /\ expired' = expired \ {t}
  /\ period' = IF periodic THEN period \cup {t} ELSE period \ {t}
  /\ quiet' = quiet \ {t}
  /\ UNCHANGED <<batch, firedOnce, stop>>

\* Mutant: re-arming an armed timer takes another reference.
SetWaitableTimerRefs(t, periodic) ==
  /\ t \in owned
  /\ Arm(t, periodic)
  /\ nRef' = [nRef EXCEPT ![t] = @ + 1]
  /\ UNCHANGED <<owned, pipe, callVars, cancelled, worker>>

SetWaitableTimer(t, periodic) ==
  /\ t \in owned
  /\ Arm(t, periodic)
  /\ nRef' = IF t \in entries THEN nRef ELSE [nRef EXCEPT ![t] = @ + 1]
  /\ UNCHANGED <<owned, pipe, callVars, cancelled, worker>>

CloseTimer(t) ==
  /\ t \in owned \cap Plain /\ Idle(t)
  /\ owned' = owned \ {t}
  /\ nRef' = [nRef EXCEPT ![t] = @ - 1]
  /\ quiet' = quiet \ {t}
  /\ UNCHANGED <<pipe, schedVars, callVars, cancelled, worker>>

\* A wait takes every byte: TimerOp::onWaitDone of an auto-reset timer.
WaitTimer(t) ==
  /\ t \in owned \cap Plain /\ pipe[t] > 0
  /\ pipe' = [pipe EXCEPT ![t] = 0]
  /\ UNCHANGED <<nRef, owned, schedVars, callVars, cancelled, worker, quiet>>

\* CancelWaitableTimer called by the application.
Cancel(c, t) ==
  /\ Ready(c) /\ t \in owned \cap Plain
  /\ call' = [call EXCEPT ![c] = "erase"]
  /\ arg' = [arg EXCEPT ![c] = t]
  /\ UNCHANGED <<nRef, owned, pipe, schedVars, held, queueMutex, cancelled, worker,
                 quiet>>

\* The entry goes, under the mutex.
CancelErase(c, t) ==
  /\ call[c] = "erase" /\ arg[c] = t
  /\ SchedMutexFree
  /\ entries' = entries \ {t}
  /\ expired' = expired \ {t}
  /\ held' = [held EXCEPT ![c] = t \in entries]
  /\ call' = [call EXCEPT ![c] = "drop"]
  /\ period' = period \ {t}
  /\ quiet' = quiet \cup {t}
  /\ UNCHANGED <<nRef, owned, pipe, sched, batch, firedOnce, stop, arg,
                 queueMutex, cancelled, worker>>

CancelDrop(c, t) ==
  /\ call[c] = "drop" /\ arg[c] = t
  /\ nRef' = IF held[c] THEN [nRef EXCEPT ![t] = @ - 1] ELSE nRef
  /\ held' = [held EXCEPT ![c] = FALSE]
  /\ call' = [call EXCEPT ![c] = "drain"]
  /\ UNCHANGED <<owned, pipe, schedVars, arg, queueMutex, cancelled, worker,
                 quiet>>

\* Mutant: the byte of a timer that has just fired is left behind.
CancelDrainNot(c, t) ==
  /\ call[c] = "drain" /\ arg[c] = t /\ t \in Plain
  /\ call' = [call EXCEPT ![c] = "none"]
  /\ arg' = [arg EXCEPT ![c] = None]
  /\ UNCHANGED <<nRef, owned, pipe, schedVars, held, queueMutex, cancelled, worker, quiet>>

\* The pipe is emptied; the call is over.
CancelDrain(c, t) ==
  /\ call[c] = "drain" /\ arg[c] = t /\ t \in Plain
  /\ pipe' = [pipe EXCEPT ![t] = 0]
  /\ call' = [call EXCEPT ![c] = "none"]
  /\ arg' = [arg EXCEPT ![c] = None]
  /\ UNCHANGED <<nRef, owned, schedVars, held, queueMutex, cancelled, worker,
                 quiet>>

-----------------------------------------------------------------------------
(***************************************************************************)
(* Timer queues: the calls hold s_timerQueueMutex throughout, and wait for *)
(* the scheduler's mutex with it.                                          *)
(***************************************************************************)
\* CreateTimer: a handle, a first arming, a worker.
CreateTimer(c, t, periodic) ==
  /\ c \in Apps /\ Ready(c) /\ queueMutex = None
  /\ t \in Queued /\ nRef[t] = 0 /\ worker[t] = "end"
  /\ Arm(t, periodic)
  /\ nRef' = [nRef EXCEPT ![t] = 2]
  /\ owned' = owned \cup {t}
  /\ pipe' = [pipe EXCEPT ![t] = 0]
  /\ worker' = [worker EXCEPT ![t] = "wait"]
  /\ cancelled' = cancelled \ {t}
  /\ UNCHANGED <<callVars>>

\* ChangeTimer arms the waitable timer anew; the worker keeps its deadline.
ChangeTimer(c, t, periodic) ==
  /\ c \in Apps /\ Ready(c) /\ queueMutex = None
  /\ t \in Queued
  /\ SetWaitableTimer(t, periodic)

\* DeleteTimerQueueTimer, also from a callback: cancel() sets the flag.
DeleteTimer(c, t) ==
  /\ Ready(c) /\ queueMutex = None
  /\ t \in owned \cap Queued
  /\ cancelled' = cancelled \cup {t}
  /\ arg' = [arg EXCEPT ![c] = t]
  /\ call' = [call EXCEPT ![c] = "erase"]
  /\ queueMutex' = c
  /\ UNCHANGED <<nRef, owned, pipe, schedVars, held, worker, quiet>>

\* The timer is cancelled: its handle is closed, the completion event is set,
\* whether or not the callback is running.
DeleteClose(c, t) ==
  /\ call[c] = "drain" /\ arg[c] = t /\ t \in Queued
  /\ pipe' = [pipe EXCEPT ![t] = 0]
  /\ nRef' = [nRef EXCEPT ![t] = @ - 1]
  /\ owned' = owned \ {t}
  /\ call' = [call EXCEPT ![c] = "none"]
  /\ arg' = [arg EXCEPT ![c] = None]
  /\ queueMutex' = None
  /\ quiet' = quiet \ {t}
  /\ UNCHANGED <<schedVars, held, cancelled, worker>>

\* The worker's own deadline passes and it is not cancelled: run the callback,
\* outside the timer's mutex, with the period as it is now.
WorkerDeadline(t) ==
  /\ worker[t] = "wait" /\ t \notin cancelled
  /\ worker' = [worker EXCEPT ![t] = IF t \in period THEN "call" ELSE "callonce"]
  /\ UNCHANGED <<nRef, owned, pipe, schedVars, callVars, cancelled, quiet>>

\* Mutant: the worker waits for its timer instead of its flag.
WorkerCancelledBySignal(t) ==
  /\ worker[t] = "wait" /\ t \in cancelled /\ pipe[t] > 0
  /\ worker' = [worker EXCEPT ![t] = "end"]
  /\ UNCHANGED <<nRef, owned, pipe, schedVars, callVars, cancelled, quiet>>

WorkerCancelled(t) ==
  /\ worker[t] = "wait" /\ t \in cancelled
  /\ worker' = [worker EXCEPT ![t] = "end"]
  /\ UNCHANGED <<nRef, owned, pipe, schedVars, callVars, cancelled, quiet>>

\* The callback returns.
WorkerReturn(t) ==
  /\ worker[t] \in {"call", "callonce"} /\ call[t] = "none"
  /\ worker' = [worker EXCEPT ![t] =
                  IF worker[t] = "call" /\ t \notin cancelled THEN "wait" ELSE "end"]
  /\ UNCHANGED <<nRef, owned, pipe, schedVars, callVars, cancelled, quiet>>

-----------------------------------------------------------------------------
\* A call a thread is in goes on; a thread blocked in it has no such step.
CallStep(c) ==
  \E t \in Timers :
    CancelErase(c, t) \/ CancelDrop(c, t) \/ CancelDrain(c, t) \/ DeleteClose(c, t)

QueueWorker(t) == WorkerDeadline(t) \/ WorkerCancelled(t) \/ WorkerReturn(t)

\* What the application and its callbacks may ask for.
Request ==
  \/ \E t \in Timers :
       CreateWaitableTimer(t) \/ CloseTimer(t) \/ WaitTimer(t)
  \/ \E t \in Plain, periodic \in BOOLEAN : SetWaitableTimer(t, periodic)
  \/ \E c \in Callers, t \in Timers :
       \/ Cancel(c, t) \/ DeleteTimer(c, t)
       \/ \E periodic \in BOOLEAN : CreateTimer(c, t, periodic) \/ ChangeTimer(c, t, periodic)

Next ==
  \/ Request
  \/ Scheduler \/ StopScheduler
  \/ \E t \in Timers : Expire(t)
  \/ \E c \in Callers : CallStep(c)
  \/ \E t \in Queued : QueueWorker(t)

\* Threads run and callbacks return after finitely many calls; a mutex that is
\* free again and again is taken in the end.  Nothing makes the application
\* wait for a timer or call anything.
Fairness ==
  /\ WF_vars(Scheduler)
  /\ \A c \in Callers : SF_vars(CallStep(c))
  /\ \A t \in Queued : SF_vars(QueueWorker(t))

Spec == Init /\ [][Next]_vars /\ Fairness

-----------------------------------------------------------------------------
TypeOK ==
  /\ nRef \in [Timers -> Nat]
  /\ owned \subseteq Timers
  /\ pipe \in [Timers -> 0..PipeSize]
  /\ entries \subseteq Timers /\ period \subseteq Timers /\ expired \subseteq entries
  /\ sched \in {"none", "wait", "scan", "drop", "exit", "ended"}
  /\ batch \subseteq Timers /\ firedOnce \subseteq Timers
  /\ stop \in BOOLEAN
  /\ call \in [Callers -> {"none", "erase", "drop", "drain"}]
  /\ arg \in [Callers -> Timers \cup {None}]
  /\ held \in [Callers -> BOOLEAN]
  /\ queueMutex \in Callers \cup {None}
  /\ cancelled \subseteq Queued
  /\ worker \in [Queued -> {"wait", "call", "callonce", "end"}]
  /\ quiet \subseteq Timers

\* Those who count on the handle of t: its owner, the scheduler's entry, the
\* scheduler about to drop a fired one, a canceller that took the entry's.
One(b) == IF b THEN 1 ELSE 0
Cancelling(t) == {c \in Callers : held[c] /\ arg[c] = t}
Users(t) ==
  One(t \in owned) + One(t \in entries) + One(t \in firedOnce) + Cardinality(Cancelling(t))

(***************************************************************************)
(* The scheduler never signals or closes a freed handle, and no handle is  *)
(* leaked: whatever arming, firing, cancelling and closing overlap, the    *)
(* count of a timer's handle is the number of those that rely on it.  The  *)
(* types hold: what is due has an entry, and no pipe is overfull.          *)
(***************************************************************************)
HandleCounted == TypeOK /\ \A t \in Timers : nRef[t] = Users(t)

(***************************************************************************)
(* When CancelWaitableTimer has returned, the timer stays unsignalled      *)
(* until it is armed again, although the scheduler may have been about to  *)
(* fire it.                                                                *)
(***************************************************************************)
SilentAfterCancel ==
  \A t \in quiet :
    t \notin entries /\ ((\A c \in Callers : arg[c] # t) => pipe[t] = 0)

\* The scheduler is blocked in write with its mutex held.
SchedulerStuck == sched = "scan" /\ \E t \in batch : pipe[t] = PipeSize

(***************************************************************************)
(* Every timer whose deadline has passed is signalled or cancelled, unless *)
(* the scheduler hangs on a pipe that nobody reads, such as that of a      *)
(* periodic timer of a timer queue.                                        *)
(***************************************************************************)
ArmedFires == \A t \in Timers : t \in expired ~> t \notin expired \/ SchedulerStuck

(***************************************************************************)
(* Every cancel and delete returns and gives the queue's mutex back, with  *)
(* the same exception.                                                     *)
(***************************************************************************)
CallsReturn ==
  \A c \in Callers :
    call[c] # "none" ~> call[c] = "none" \/ SchedulerStuck

(***************************************************************************)
(* The worker of a deleted queue timer ends: it sees the flag after the    *)
(* callback that was running when the timer was deleted, if not before.    *)
(***************************************************************************)
DeletedWorkerEnds ==
  \A t \in Queued : t \in cancelled ~> worker[t] = "end" \/ SchedulerStuck
=============================================================================
