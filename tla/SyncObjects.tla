---------------------------- MODULE SyncObjects ----------------------------
(***************************************************************************)
(* The unnamed kernel objects of the POSIX platforms and the waits on them *)
(* (src/src/platform/posix/sysobjs.cpp, src/src/synhandle.h).  An object   *)
(* is a pipe and is signalled while the pipe holds bytes: SetEvent,        *)
(* ReleaseSemaphore and ReleaseMutex write them, a wait selects on the     *)
(* pipes and then calls onWaitDone on the ready objects, which reads them. *)
(* Between the select and the read other threads may take the byte, in     *)
(* which case onWaitDone fails and the wait selects again.                 *)
(***************************************************************************)
EXTENDS Naturals, Sequences

CONSTANTS
  Threads,      \* threads of the process
  Kind,         \* the kind of an object: "manual", "auto", "sem" or "mutex"
  Initial,      \* the bytes Create* writes to the pipe of an event or semaphore
  MaxSignal,    \* lMaximumCount of a semaphore
  Waits,        \* the arrays given to WaitForMultipleObjects
  None,         \* no thread
  Invalid,      \* INVALID_HANDLE_VALUE in such an array
  MaxTokens     \* bound: bytes in the pipe of an event

Objects == DOMAIN Kind
OfKind(k) == {o \in Objects : Kind[o] = k}
Events == OfKind("manual") \cup OfKind("auto")
Semaphores == OfKind("sem")
Mutexes == OfKind("mutex")

ASSUME KindAssumption == Kind \in [Objects -> {"manual", "auto", "sem", "mutex"}]
ASSUME CountAssumption ==
  /\ Initial \in [Objects -> Nat]
  /\ MaxSignal \in [Objects -> Nat]
  /\ \A s \in Semaphores : Initial[s] <= MaxSignal[s]
  /\ MaxTokens \in Nat
ASSUME WaitsAssumption == Waits \subseteq Seq(Objects \cup {Invalid})
ASSUME NoneAssumption == None \notin Threads /\ Invalid \notin Objects

VARIABLES
  tokens,     \* bytes in the pipe of an object
  sigCount,   \* SemaphoreData::sigCount
  owner,      \* MutexData::tid_owner
  pc,         \* where a thread is
  call,       \* its wait: the handles, bWaitAll and whether it has a timeout
  ready,      \* the indexes whose entry of states[] is true
  ix,         \* the index the loop over onWaitDone has reached
  took,       \* the indexes whose byte was read since the last select
  result,     \* the indexes nRet reports as signalled, {} for WAIT_TIMEOUT
  holds       \* history: the threads that took a mutex and did not release it

vars == <<tokens, sigCount, owner, pc, call, ready, ix, took, result, holds>>
object == <<tokens, sigCount, owner, holds>>
wait == <<pc, call, ready, ix, took, result>>

NoCall == [hs |-> <<>>, all |-> FALSE, timed |-> FALSE]
Call(hs, all, timed) == [hs |-> hs, all |-> all, timed |-> timed]

\* CreateEvent, CreateSemaphore and CreateMutex: a mutex is created released,
\* with one byte in its pipe, or owned by its creator.
Init ==
  /\ owner \in [Objects -> Threads \cup {None}]
  /\ \A o \in Objects \ Mutexes : owner[o] = None
  /\ tokens = [o \in Objects |-> IF o \notin Mutexes THEN Initial[o]
                                 ELSE IF owner[o] = None THEN 1 ELSE 0]
  /\ sigCount = [o \in Objects |-> IF o \in Semaphores THEN Initial[o] ELSE 0]
  /\ holds = [o \in Objects |-> {owner[o]} \ {None}]
  /\ pc = [t \in Threads |-> "run"]
  /\ call = [t \in Threads |-> NoCall]
  /\ ready = [t \in Threads |-> {}]
  /\ ix = [t \in Threads |-> 1]
  /\ took = [t \in Threads |-> {}]
  /\ result = [t \in Threads |-> {}]

-----------------------------------------------------------------------------
(***************************************************************************)
(* Signalling.                                                             *)
(***************************************************************************)
SetEvent(t, e) ==
  /\ pc[t] = "run" /\ e \in Events /\ tokens[e] < MaxTokens
  /\ tokens' = [tokens EXCEPT ![e] = @ + 1]
  /\ UNCHANGED <<sigCount, owner, holds, wait>>

\* ResetEvent reads one byte at a time until the pipe is empty.
ResetEvent(t, e) ==
  /\ pc[t] = "run" /\ e \in Events
  /\ pc' = [pc EXCEPT ![t] = "reset"]
  /\ call' = [call EXCEPT ![t] = Call(<<e>>, FALSE, FALSE)]
  /\ UNCHANGED <<object, ready, ix, took, result>>

ResetRead(t) ==
  /\ pc[t] = "reset"
  /\ LET e == call[t].hs[1] IN
       IF tokens[e] > 0
       THEN /\ tokens' = [tokens EXCEPT ![e] = @ - 1]
            /\ UNCHANGED <<pc, call>>
       ELSE /\ pc' = [pc EXCEPT ![t] = "run"]
            /\ call' = [call EXCEPT ![t] = NoCall]
            /\ UNCHANGED tokens
  /\ UNCHANGED <<sigCount, owner, holds, ready, ix, took, result>>

\* Mutant: the bytes are written before the room is checked.
ReleaseSemaphoreUnchecked(t, s, n) ==
  /\ pc[t] = "run" /\ s \in Semaphores /\ n > 0 /\ tokens[s] < 2 * MaxSignal[s]
  /\ tokens' = [tokens EXCEPT ![s] = @ + n]
  /\ sigCount' = [sigCount EXCEPT ![s] =
       IF n <= MaxSignal[s] - @ THEN @ + n ELSE @]
  /\ UNCHANGED <<owner, holds, wait>>

ReleaseSemaphore(t, s, n) ==
  /\ pc[t] = "run" /\ s \in Semaphores
  /\ n > 0 /\ n <= MaxSignal[s] - sigCount[s]
  /\ tokens' = [tokens EXCEPT ![s] = @ + n]
  /\ sigCount' = [sigCount EXCEPT ![s] = @ + n]
  /\ UNCHANGED <<owner, holds, wait>>

\* Mutant: any thread may release the mutex.
ReleaseMutexAnyone(t, m) ==
  /\ pc[t] = "run" /\ m \in Mutexes /\ owner[m] # None
  /\ tokens' = [tokens EXCEPT ![m] = @ + 1]
  /\ holds' = [holds EXCEPT ![m] = @ \ {t}]
  /\ pc' = [pc EXCEPT ![t] = "clear"]
  /\ call' = [call EXCEPT ![t] = Call(<<m>>, FALSE, FALSE)]
  /\ UNCHANGED <<sigCount, owner, ready, ix, took, result>>

\* ReleaseMutex writes the byte first and clears tid_owner afterwards: the
\* next thread may have stored its own id in between.
ReleaseMutex(t, m) ==
  /\ pc[t] = "run" /\ m \in Mutexes /\ owner[m] = t
  /\ tokens' = [tokens EXCEPT ![m] = @ + 1]
  /\ holds' = [holds EXCEPT ![m] = @ \ {t}]
  /\ pc' = [pc EXCEPT ![t] = "clear"]
  /\ call' = [call EXCEPT ![t] = Call(<<m>>, FALSE, FALSE)]
  /\ UNCHANGED <<sigCount, owner, ready, ix, took, result>>

ReleaseMutexClear(t) ==
  /\ pc[t] = "clear"
  /\ owner' = [owner EXCEPT ![call[t].hs[1]] = None]
  /\ pc' = [pc EXCEPT ![t] = "run"]
  /\ call' = [call EXCEPT ![t] = NoCall]
  /\ UNCHANGED <<tokens, sigCount, holds, ready, ix, took, result>>

-----------------------------------------------------------------------------
(***************************************************************************)
(* Waiting.  WaitForSingleObject is the loop of WaitForMultipleObjects for *)
(* one handle: its states[] has one entry, which is true exactly between   *)
(* the select and a failing onWaitDone.                                    *)
(***************************************************************************)
Handle(t, i) == call[t].hs[i]
Indexes(t) == 1 .. Len(call[t].hs)
IsObject(t, i) == Handle(t, i) # Invalid
First(S, i) == i \in S /\ \A j \in S : i <= j

BeginWait(t, hs, all, timed) ==
  /\ pc[t] = "run"
  /\ pc' = [pc EXCEPT ![t] = "select"]
  /\ call' = [call EXCEPT ![t] = Call(hs, all, timed)]
  /\ ready' = [ready EXCEPT ![t] = {i \in 1 .. Len(hs) : hs[i] = Invalid}]
  /\ UNCHANGED <<object, ix, took, result>>

WaitForSingleObject(t, o, timed) == BeginWait(t, <<o>>, FALSE, timed)

WaitForMultipleObjects(t, hs, all, timed) == BeginWait(t, hs, all, timed)

\* select watches the pipes of the entries that are not ready yet.
Selected(t) ==
  {i \in Indexes(t) \ ready[t] : IsObject(t, i) /\ tokens[Handle(t, i)] > 0}

ToWaitDone(t, res) ==
  /\ pc' = [pc EXCEPT ![t] = "done"]
  /\ result' = [result EXCEPT ![t] = res]
  /\ UNCHANGED <<object, call, ix, took>>

\* select returns: wait-any goes on with the first ready index, wait-all when
\* every entry is ready, or gives up when its time is over.
Select(t) ==
  /\ pc[t] = "select" /\ Selected(t) # {}
  /\ LET now == ready[t] \cup Selected(t) IN
       /\ ready' = [ready EXCEPT ![t] = now]
       /\ \/ ~call[t].all /\ \E i \in now : First(now, i) /\ ToWaitDone(t, {i})
          \/ call[t].all /\ now = Indexes(t) /\ ToWaitDone(t, now)
          \/ /\ call[t].all /\ now # Indexes(t)
             /\ UNCHANGED <<object, pc, call, ix, took, result>>
          \/ /\ call[t].all /\ now # Indexes(t) /\ call[t].timed
             /\ ToWaitDone(t, {})

\* WAIT_TIMEOUT is not below WAIT_OBJECT_0 either: the loop over onWaitDone
\* runs for the entries that became ready earlier.
SelectTimeout(t) ==
  /\ pc[t] = "select" /\ Selected(t) = {} /\ call[t].timed
  /\ ToWaitDone(t, {})
  /\ UNCHANGED ready

-----------------------------------------------------------------------------
(***************************************************************************)
(* The loop over onWaitDone of the ready objects.                          *)
(***************************************************************************)
Pending(t) == {i \in ready[t] : i >= ix[t] /\ IsObject(t, i)}

\* The loop is at onWaitDone of an object o of kind k, with index i.
At(t, i, o, k) ==
  /\ pc[t] = "done" /\ First(Pending(t), i)
  /\ o = Handle(t, i) /\ Kind[o] = k

Read(t, i, o) ==
  /\ tokens' = [tokens EXCEPT ![o] = @ - 1]
  /\ took' = [took EXCEPT ![t] = @ \cup {i}]

Succeeds(t, i) == ix' = [ix EXCEPT ![t] = i + 1]

\* Mutant: states[] is not fresh in the next call.
ReturnedStale(t) ==
  /\ pc' = [pc EXCEPT ![t] = "run"]
  /\ call' = [call EXCEPT ![t] = NoCall]
  /\ ix' = [ix EXCEPT ![t] = 1]
  /\ took' = [took EXCEPT ![t] = {}]
  /\ result' = [result EXCEPT ![t] = {}]
  /\ UNCHANGED ready

\* The call returns nRet; its local variables end.
Returned(t) ==
  /\ pc' = [pc EXCEPT ![t] = "run"]
  /\ call' = [call EXCEPT ![t] = NoCall]
  /\ ready' = [ready EXCEPT ![t] = {}]
  /\ ix' = [ix EXCEPT ![t] = 1]
  /\ took' = [took EXCEPT ![t] = {}]
  /\ result' = [result EXCEPT ![t] = {}]

\* onWaitDone failed: select again, keeping the other entries of states[] even
\* where their byte has been read, unless the time is over.
Fails(t, i) ==
  \/ /\ result[t] # {}
     /\ pc' = [pc EXCEPT ![t] = "select"]
     /\ ready' = [ready EXCEPT ![t] = @ \ {i}]
     /\ ix' = [ix EXCEPT ![t] = 1]
     /\ took' = [took EXCEPT ![t] = {}]
     /\ result' = [result EXCEPT ![t] = {}]
     /\ UNCHANGED call
  \/ (result[t] = {} \/ call[t].timed) /\ Returned(t)

ManualDone(t) ==
  \E i \in ready[t], o \in Objects :
    /\ At(t, i, o, "manual")
    /\ Succeeds(t, i)
    /\ UNCHANGED <<object, pc, call, ready, took, result>>

\* EventOp reads until the pipe is empty and fails if it read nothing.
DrainEvent(t) ==
  \E i \in ready[t], o \in Objects :
    /\ At(t, i, o, "auto") /\ tokens[o] > 0
    /\ Read(t, i, o)
    /\ UNCHANGED <<sigCount, owner, holds, pc, call, ready, ix, result>>

\* Mutant: an auto-reset event whose byte another thread read is a success.
EventDoneAlways(t) ==
  \E i \in ready[t], o \in Objects :
    /\ At(t, i, o, "auto") /\ tokens[o] = 0
    /\ Succeeds(t, i)
    /\ UNCHANGED <<object, pc, call, ready, took, result>>

EventDone(t) ==
  \E i \in ready[t], o \in Objects :
    /\ At(t, i, o, "auto") /\ tokens[o] = 0
    /\ \/ i \in took[t] /\ Succeeds(t, i) /\ UNCHANGED <<pc, call, ready, took, result>>
       \/ i \notin took[t] /\ Fails(t, i)
    /\ UNCHANGED object

\* Mutant: the last permit is never handed out.
SemaphoreDoneOffByOne(t) ==
  \E i \in ready[t], o \in Objects :
    /\ At(t, i, o, "sem")
    /\ \/ /\ sigCount[o] > 1 /\ tokens[o] > 0
          /\ Read(t, i, o) /\ Succeeds(t, i)
          /\ sigCount' = [sigCount EXCEPT ![o] = @ - 1]
          /\ UNCHANGED <<pc, call, ready, result>>
       \/ ~(sigCount[o] > 1 /\ tokens[o] > 0) /\ Fails(t, i) /\ UNCHANGED <<tokens, sigCount>>
    /\ UNCHANGED <<owner, holds>>

SemaphoreDone(t) ==
  \E i \in ready[t], o \in Objects :
    /\ At(t, i, o, "sem")
    /\ \/ /\ sigCount[o] > 0 /\ tokens[o] > 0
          /\ Read(t, i, o) /\ Succeeds(t, i)
          /\ sigCount' = [sigCount EXCEPT ![o] = @ - 1]
          /\ UNCHANGED <<pc, call, ready, result>>
       \/ ~(sigCount[o] > 0 /\ tokens[o] > 0) /\ Fails(t, i) /\ UNCHANGED <<tokens, sigCount>>
    /\ UNCHANGED <<owner, holds>>

\* MutexOp reads the byte and then stores its thread id, without the lock.
MutexDone(t) ==
  \E i \in ready[t], o \in Objects :
    /\ At(t, i, o, "mutex")
    /\ \/ /\ tokens[o] > 0
          /\ Read(t, i, o)
          /\ holds' = [holds EXCEPT ![o] = @ \cup {t}]
          /\ pc' = [pc EXCEPT ![t] = "owner"]
          /\ UNCHANGED <<call, ready, ix, result>>
       \/ tokens[o] = 0 /\ Fails(t, i) /\ UNCHANGED <<tokens, holds>>
    /\ UNCHANGED <<sigCount, owner>>

MutexOwner(t) ==
  /\ pc[t] = "owner"
  /\ \E i \in ready[t] :
       /\ First(Pending(t), i)
       /\ owner' = [owner EXCEPT ![Handle(t, i)] = t]
       /\ Succeeds(t, i)
  /\ pc' = [pc EXCEPT ![t] = "done"]
  /\ UNCHANGED <<tokens, sigCount, holds, call, ready, took, result>>

WaitReturn(t) ==
  /\ pc[t] = "done" /\ Pending(t) = {}
  /\ Returned(t)
  /\ UNCHANGED object

-----------------------------------------------------------------------------
\* A thread inside a call goes on.
Step(t) ==
  \/ ResetRead(t) \/ ReleaseMutexClear(t)
  \/ Select(t) \/ SelectTimeout(t)
  \/ ManualDone(t) \/ DrainEvent(t) \/ EventDone(t)
  \/ SemaphoreDone(t) \/ MutexDone(t) \/ MutexOwner(t)
  \/ WaitReturn(t)

\* A thread makes a call.
Begin(t) ==
  \/ \E o \in Objects :
       \/ SetEvent(t, o) \/ ResetEvent(t, o) \/ ReleaseMutex(t, o)
       \/ \E n \in 1 .. MaxSignal[o] : ReleaseSemaphore(t, o, n)
       \/ \E timed \in BOOLEAN : WaitForSingleObject(t, o, timed)
  \/ \E hs \in Waits, all, timed \in BOOLEAN : WaitForMultipleObjects(t, hs, all, timed)

Next == \E t \in Threads : Begin(t) \/ Step(t)

Spec == Init /\ [][Next]_vars /\ \A t \in Threads : WF_vars(Step(t))

-----------------------------------------------------------------------------
(***************************************************************************)
(* Properties.                                                             *)
(***************************************************************************)
\* Every variable has its type: the pipes hold a number of bytes, tid_owner is
\* a thread or 0, and a thread's wait is one of the calls above.
TypeOK ==
  /\ tokens \in [Objects -> Nat]
  /\ sigCount \in [Objects -> Nat]
  /\ owner \in [Objects -> Threads \cup {None}]
  /\ holds \in [Objects -> SUBSET Threads]
  /\ pc \in [Threads -> {"run", "reset", "clear", "select", "done", "owner"}]
  /\ call \in [Threads -> [hs : Seq(Objects \cup {Invalid}), all : BOOLEAN, timed : BOOLEAN]]
  /\ ix \in [Threads -> Nat]
  /\ ready \in [Threads -> SUBSET Nat]
  /\ took \in [Threads -> SUBSET Nat]
  /\ result \in [Threads -> SUBSET Nat]
  /\ \A t \in Threads : ready[t] \cup took[t] \cup result[t] \subseteq Indexes(t)

\* A mutex is either signalled, with one byte in its pipe, or held by one
\* thread: whatever waits time out, retry or read its byte among others, no two
\* threads are inside and no second byte appears (ReleaseMutex, MutexOp).
MutexExclusion ==
  \A m \in Mutexes :
    \/ tokens[m] = 1 /\ holds[m] = {}
    \/ tokens[m] = 0 /\ \E t \in Threads : holds[m] = {t}

\* SemaphoreData::sigCount is the number of bytes in the pipe and stays within
\* lMaximumCount, so a waiter that select wakes finds a permit to take
\* (ReleaseSemaphore, SemaphoreOp::onWaitDone).
SemaphoreCounts ==
  \A s \in Semaphores : sigCount[s] = tokens[s] /\ tokens[s] <= MaxSignal[s]

\* A wait that is about to report objects as signalled has itself read a byte
\* of each of them since its last select, manual-reset events apart: one
\* SetEvent or permit never satisfies two waits (onWaitDone, the retry of
\* WaitForSingleObject and WaitForMultipleObjects).
GrantPaid ==
  \A t \in Threads : pc[t] = "done" /\ Pending(t) = {} =>
    \A i \in result[t] :
      IsObject(t, i) /\ Kind[Handle(t, i)] # "manual" => i \in took[t]

\* A signal that a thread in WaitForSingleObject could take does not lie idle:
\* the thread returns or reads the byte, or the object stops being signalled
\* first.  The loop of select and onWaitDone cannot spin on an object whose
\* onWaitDone refuses its own signal.  (That the thread returns is more than the
\* code gives: SetEvent may feed the read loop of EventOp for ever.)
SignalIgnored(t) ==
  /\ pc[t] \in {"select", "done"} /\ Len(call[t].hs) = 1 /\ took[t] = {}
  /\ tokens[Handle(t, 1)] > 0

SignalIsTaken == \A t \in Threads : []<>~SignalIgnored(t)
=============================================================================
