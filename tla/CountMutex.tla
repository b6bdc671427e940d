----------------------------- MODULE CountMutex -----------------------------
(***************************************************************************)
(* CountMutex (src/src/countmutex.h): a std::recursive_mutex that counts   *)
(* its depth in cLock so that the dispatch of a window message or a timer  *)
(* callback can drop the lock completely (FreeLock) and take it back to    *)
(* the same depth when the callback returns (RestoreLock).                 *)
(*                                                                         *)
(* Every access to cLock and every call of the recursive mutex is a step   *)
(* of its own: FreeLock decrements cLock after the mutex was released, and *)
(* RestoreLock reads it before the mutex is taken.                         *)
(***************************************************************************)
EXTENDS Integers, Sequences

CONSTANTS
  Threads,      \* the threads that use one CountMutex
  NoThread,     \* the owner of a free mutex
  MaxDepth,     \* bound: recursive acquisitions of one thread between callbacks
  MaxFrames,    \* bound: callbacks a thread is nested in
  Contended     \* TRUE: other threads may take the lock during a callback

ASSUME ThreadsAssumption == NoThread \notin Threads
ASSUME DepthAssumption == MaxDepth \in Nat \ {0}
ASSUME FramesAssumption == MaxFrames \in Nat
ASSUME ContendedAssumption == Contended \in BOOLEAN

VARIABLES
  owner,    \* the thread that owns the recursive_mutex, or NoThread
  count,    \* how often the owner has locked it
  cLock,    \* CountMutex::cLock
  pc,       \* the statement a thread is about to execute
  held,     \* locks taken by the thread and not given back, as its code sees it
  frames    \* the callbacks a thread is in: what FreeLock saved, innermost first

vars == <<owner, count, cLock, pc, held, frames>>

Statements == {"idle", "inc", "release", "freeTest", "freeUnlock", "freeDec",
               "restTest", "restLock", "restInc"}

\* preLock: FreeLock's return value; held: what the caller held at that time.
Frame == [preLock : Int, held : Nat]

Init ==
  /\ owner = NoThread
  /\ count = 0
  /\ cLock = 0
  /\ pc = [t \in Threads |-> "idle"]
  /\ held = [t \in Threads |-> 0]
  /\ frames = [t \in Threads |-> << >>]

-----------------------------------------------------------------------------
(***************************************************************************)
(* std::recursive_mutex.  lock() waits until the mutex is free or already  *)
(* the caller's.  unlock() by a thread that does not own it is undefined;  *)
(* the pthread mutex below it answers EPERM, which libstdc++ drops, so     *)
(* nothing changes.                                                        *)
(***************************************************************************)
MutexLock(t) ==
  /\ owner \in {NoThread, t}
  /\ owner' = t
  /\ count' = count + 1

MutexUnlock(t) ==
  IF owner = t
    THEN /\ count' = count - 1
         /\ owner' = IF count = 1 THEN NoThread ELSE t
    ELSE UNCHANGED <<owner, count>>

-----------------------------------------------------------------------------
\* lock(): without contention no thread enters while another is in a callback.
Lock(t) ==
  /\ pc[t] = "idle"
  /\ held[t] < MaxDepth
  /\ Contended \/ \A u \in Threads \ {t} : frames[u] = << >>
  /\ MutexLock(t)
  /\ pc' = [pc EXCEPT ![t] = "inc"]
  /\ UNCHANGED <<cLock, held, frames>>

LockInc(t) ==
  /\ pc[t] = "inc"
  /\ cLock' = cLock + 1
  /\ held' = [held EXCEPT ![t] = held[t] + 1]
  /\ pc' = [pc EXCEPT ![t] = "idle"]
  /\ UNCHANGED <<owner, count, frames>>

\* Mutant: unlock() does not count down.
UnlockNoDecrement(t) ==
  /\ pc[t] = "idle"
  /\ held[t] > 0
  /\ pc' = [pc EXCEPT ![t] = "release"]
  /\ UNCHANGED <<owner, count, cLock, held, frames>>

Unlock(t) ==
  /\ pc[t] = "idle"
  /\ held[t] > 0
  /\ cLock' = cLock - 1
  /\ pc' = [pc EXCEPT ![t] = "release"]
  /\ UNCHANGED <<owner, count, held, frames>>

UnlockRelease(t) ==
  /\ pc[t] = "release"
  /\ MutexUnlock(t)
  /\ held' = [held EXCEPT ![t] = held[t] - 1]
  /\ pc' = [pc EXCEPT ![t] = "idle"]
  /\ UNCHANGED <<cLock, frames>>

-----------------------------------------------------------------------------
(***************************************************************************)
(* FreeLock: called by a thread that holds the lock, before a callback.    *)
(***************************************************************************)
FreeLock(t) ==
  /\ pc[t] = "idle"
  /\ held[t] > 0
  /\ Len(frames[t]) < MaxFrames
  /\ frames' = [frames EXCEPT ![t] =
                  <<[preLock |-> cLock, held |-> held[t]]>> \o frames[t]]
  /\ held' = [held EXCEPT ![t] = 0]
  /\ pc' = [pc EXCEPT ![t] = "freeTest"]
  /\ UNCHANGED <<owner, count, cLock>>

\* Mutant: the loop runs once more.
FreeTestOffByOne(t) ==
  /\ pc[t] = "freeTest"
  /\ pc' = [pc EXCEPT ![t] = IF cLock >= 0 THEN "freeUnlock" ELSE "idle"]
  /\ UNCHANGED <<owner, count, cLock, held, frames>>

FreeTest(t) ==
  /\ pc[t] = "freeTest"
  /\ pc' = [pc EXCEPT ![t] = IF cLock > 0 THEN "freeUnlock" ELSE "idle"]
  /\ UNCHANGED <<owner, count, cLock, held, frames>>

FreeUnlock(t) ==
  /\ pc[t] = "freeUnlock"
  /\ MutexUnlock(t)
  /\ pc' = [pc EXCEPT ![t] = "freeDec"]
  /\ UNCHANGED <<cLock, held, frames>>

FreeDec(t) ==
  /\ pc[t] = "freeDec"
  /\ cLock' = cLock - 1
  /\ pc' = [pc EXCEPT ![t] = "freeTest"]
  /\ UNCHANGED <<owner, count, held, frames>>

-----------------------------------------------------------------------------
(***************************************************************************)
(* RestoreLock: called when the callback, which balances its own locks,    *)
(* has returned.                                                           *)
(***************************************************************************)
RestoreLock(t) ==
  /\ pc[t] = "idle"
  /\ held[t] = 0
  /\ frames[t] # << >>
  /\ pc' = [pc EXCEPT ![t] = "restTest"]
  /\ UNCHANGED <<owner, count, cLock, held, frames>>

\* Mutant: the loop stops one short of the saved depth.
RestoreTestOffByOne(t) ==
  /\ pc[t] = "restTest"
  /\ IF cLock < Head(frames[t]).preLock - 1
       THEN /\ pc' = [pc EXCEPT ![t] = "restLock"]
            /\ UNCHANGED <<held, frames>>
       ELSE /\ pc' = [pc EXCEPT ![t] = "idle"]
            /\ held' = [held EXCEPT ![t] = Head(frames[t]).held]
            /\ frames' = [frames EXCEPT ![t] = Tail(frames[t])]
  /\ UNCHANGED <<owner, count, cLock>>

RestoreTest(t) ==
  /\ pc[t] = "restTest"
  /\ IF cLock < Head(frames[t]).preLock
       THEN /\ pc' = [pc EXCEPT ![t] = "restLock"]
            /\ UNCHANGED <<held, frames>>
       ELSE /\ pc' = [pc EXCEPT ![t] = "idle"]
            /\ held' = [held EXCEPT ![t] = Head(frames[t]).held]
            /\ frames' = [frames EXCEPT ![t] = Tail(frames[t])]
  /\ UNCHANGED <<owner, count, cLock>>

RestoreMutexLock(t) ==
  /\ pc[t] = "restLock"
  /\ MutexLock(t)
  /\ pc' = [pc EXCEPT ![t] = "restInc"]
  /\ UNCHANGED <<cLock, held, frames>>

RestoreInc(t) ==
  /\ pc[t] = "restInc"
  /\ cLock' = cLock + 1
  /\ pc' = [pc EXCEPT ![t] = "restTest"]
  /\ UNCHANGED <<owner, count, held, frames>>

-----------------------------------------------------------------------------
\* The steps of a call already begun.
Continue(t) ==
  \/ LockInc(t) \/ UnlockRelease(t)
  \/ FreeTest(t) \/ FreeUnlock(t) \/ FreeDec(t)
  \/ RestoreTest(t) \/ RestoreMutexLock(t) \/ RestoreInc(t)

Next ==
  \E t \in Threads :
    \/ Lock(t) \/ Unlock(t) \/ FreeLock(t) \/ RestoreLock(t)
    \/ Continue(t)

Spec == Init /\ [][Next]_vars

-----------------------------------------------------------------------------
TypeOK ==
  /\ owner \in Threads \cup {NoThread}
  /\ count \in Nat
  /\ cLock \in Int
  /\ ~Contended => cLock \in Nat
  /\ pc \in [Threads -> Statements]
  /\ held \in [Threads -> Nat]
  /\ frames \in [Threads -> Seq(Frame)]

(***************************************************************************)
(* A thread that returned from lock() or RestoreLock() and has not given   *)
(* the lock back owns the mutex, as deep as its code believes.  This is    *)
(* what every access to a window or queue after a callback relies on.      *)
(***************************************************************************)
HeldMeansOwned ==
  \A t \in Threads :
    pc[t] = "idle" /\ held[t] > 0 => owner = t /\ count = held[t]

(***************************************************************************)
(* When no call is in progress cLock is the depth of the mutex, and a      *)
(* mutex every thread has given back is free: no depth is lost or invented *)
(* by any sequence of nested callbacks.                                    *)
(***************************************************************************)
QuiescentDepth ==
  (\A t \in Threads : pc[t] = "idle") =>
    /\ cLock = count
    /\ (\A t \in Threads : held[t] = 0) => owner = NoThread /\ count = 0
=============================================================================
