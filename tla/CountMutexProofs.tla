--------------------------- MODULE CountMutexProofs ---------------------------
(***************************************************************************)
(* For any set of threads and any bounds: as long as no other thread takes *)
(* the lock while a callback is open (~Contended), nested FreeLock and     *)
(* RestoreLock keep cLock equal to the depth of the mutex.                 *)
(*                                                                         *)
(* The invariant says that at most one thread is using the mutex: one that *)
(* is inside a call, holds the lock, or is in a callback.  What cLock and  *)
(* the depth are is then a function of that thread's statement.            *)
(***************************************************************************)
EXTENDS CountMutex, TLAPS

Active(t) == pc[t] # "idle" \/ held[t] > 0 \/ frames[t] # << >>

\* The depth of the mutex and cLock while thread t uses it.
Depth(t) ==
  /\ pc[t] = "idle" => count = held[t] /\ cLock = held[t]
  /\ pc[t] = "inc" => count = held[t] + 1 /\ cLock = held[t]
  /\ pc[t] = "release" => count = held[t] /\ cLock = held[t] - 1 /\ held[t] > 0
  /\ pc[t] = "freeTest" => cLock = count /\ held[t] = 0
  /\ pc[t] = "freeUnlock" => cLock = count /\ cLock > 0 /\ held[t] = 0
  /\ pc[t] = "freeDec" => cLock = count + 1 /\ held[t] = 0
  /\ pc[t] = "restTest" => cLock = count /\ held[t] = 0
  /\ pc[t] = "restLock" => cLock = count /\ held[t] = 0
  /\ pc[t] = "restInc" => count = cLock + 1 /\ held[t] = 0

\* A thread inside FreeLock or RestoreLock has a frame; RestoreLock never
\* passes the depth the frame saved.
InFrame(t) ==
  /\ pc[t] \in {"freeTest", "freeUnlock", "freeDec",
                "restTest", "restLock", "restInc"} => frames[t] # << >>
  /\ pc[t] = "restTest" => count <= frames[t][1].preLock
  /\ pc[t] = "restLock" => count < frames[t][1].preLock
  /\ pc[t] = "restInc" => count <= frames[t][1].preLock

\* What FreeLock saved is what its caller held.
SavedDepth ==
  \A t \in Threads : \A i \in 1..Len(frames[t]) :
    frames[t][i].preLock = frames[t][i].held

Exclusive ==
  \A t, u \in Threads : Active(t) /\ Active(u) => t = u

OwnerDepth ==
  /\ owner = NoThread <=> count = 0
  /\ owner # NoThread => Active(owner)
  /\ (\A t \in Threads : ~Active(t)) => count = 0 /\ cLock = 0

IInv ==
  /\ TypeOK
  /\ Exclusive
  /\ OwnerDepth
  /\ SavedDepth
  /\ \A t \in Threads : Active(t) => Depth(t) /\ InFrame(t)

-----------------------------------------------------------------------------
LEMMA InitIInv == Init => IInv
  BY ThreadsAssumption DEF Init, IInv, TypeOK, Exclusive, OwnerDepth, SavedDepth,
     Active, Statements

\* The thread that owns the mutex is the one that uses it.
LEMMA OneUser ==
  ASSUME IInv, NEW t \in Threads, Active(t)
  PROVE  /\ owner \in {NoThread, t}
         /\ \A u \in Threads \ {t} : pc[u] = "idle" /\ held[u] = 0 /\ frames[u] = << >>
  BY DEF IInv, Exclusive, OwnerDepth, Active, TypeOK

\* lock() is entered only by the user of the mutex or when there is none.
LEMMA LockerIsUser ==
  ASSUME IInv, ~Contended, NEW t \in Threads, Lock(t), NEW u \in Threads, Active(u)
  PROVE  u = t
<1> SUFFICES ASSUME u # t PROVE FALSE
  OBVIOUS
<1>1. frames[u] = << >>
  BY DEF Lock
<1>2. count > 0
  BY <1>1 DEF IInv, TypeOK, Statements, Active, Depth, InFrame
<1>3. owner = u
  BY <1>2, OneUser DEF IInv, OwnerDepth
<1> QED
  BY <1>3, ThreadsAssumption DEF Lock, MutexLock

-----------------------------------------------------------------------------
\* The state in which t, and nobody else, may be using the mutex.
OnlyUser(t) ==
  /\ \A u \in Threads \ {t} : pc[u] = "idle" /\ held[u] = 0 /\ frames[u] = << >>
  /\ owner \in {NoThread, t}
  /\ owner = NoThread <=> count = 0
  /\ Depth(t)
  /\ InFrame(t)
  /\ SavedDepth

LEMMA OnlyUserIInv ==
  ASSUME TypeOK, NEW t \in Threads, OnlyUser(t)
  PROVE  IInv
  BY ThreadsAssumption
  DEF IInv, OnlyUser, Exclusive, OwnerDepth, Active, TypeOK, Depth, Statements

\* A step by t is a step by the only user.
LEMMA UserSteps ==
  ASSUME IInv, ~Contended, NEW t \in Threads,
         \/ Lock(t) \/ Unlock(t) \/ FreeLock(t) \/ RestoreLock(t)
         \/ Continue(t)
  PROVE  OnlyUser(t)
<1>1. CASE Lock(t)
  <2>1. \A u \in Threads \ {t} : ~Active(u)
    BY <1>1, LockerIsUser
  <2>2. CASE Active(t)
    BY <2>1, <2>2, OneUser DEF OnlyUser, IInv, OwnerDepth, Active
  <2>3. CASE ~Active(t)
    BY <2>1, <2>3, ThreadsAssumption
    DEF OnlyUser, IInv, OwnerDepth, Active, TypeOK, Depth, InFrame
  <2> QED
    BY <2>2, <2>3
<1>2. CASE ~Lock(t)
  <2>1. Active(t)
    BY <1>2 DEF Active, Unlock, FreeLock, RestoreLock, Continue, LockInc, UnlockRelease,
       FreeTest, FreeUnlock, FreeDec, RestoreTest, RestoreMutexLock, RestoreInc
  <2> QED
    BY <2>1, OneUser DEF OnlyUser, IInv, OwnerDepth
<1> QED
  BY <1>1, <1>2

\* The innermost frame, and what is left when it is popped.
LEMMA TopFrame ==
  ASSUME TypeOK, SavedDepth, NEW t \in Threads, frames[t] # << >>
  PROVE  /\ Head(frames[t]) = frames[t][1]
         /\ frames[t][1].preLock = frames[t][1].held
         /\ frames[t][1].held \in Nat
         /\ Tail(frames[t]) \in Seq(Frame)
         /\ \A i \in 1..Len(Tail(frames[t])) :
              Tail(frames[t])[i].preLock = Tail(frames[t])[i].held
<1> DEFINE s == frames[t]
<1>1. s \in Seq(Frame) /\ s # << >>
  BY DEF TypeOK
<1>2. Len(s) \in Nat /\ Len(s) >= 1 /\ Head(s) = s[1] /\ s[1] \in Frame
  BY <1>1
<1>3. Tail(s) \in Seq(Frame) /\ Len(Tail(s)) = Len(s) - 1
  BY <1>1
<1>4. \A i \in 1..Len(Tail(s)) : Tail(s)[i] = s[i + 1] /\ i + 1 \in 1..Len(s)
  BY <1>1, <1>2, <1>3
<1>5. \A i \in 1..Len(s) : s[i].preLock = s[i].held
  BY DEF SavedDepth
<1>6. s[1].preLock = s[1].held /\ s[1].held \in Nat
  <2>1. 1 \in 1..Len(s)
    BY <1>2
  <2> QED
    BY <1>2, <1>5, <2>1 DEF Frame
<1>7. \A i \in 1..Len(Tail(s)) : Tail(s)[i].preLock = Tail(s)[i].held
  BY <1>4, <1>5, Zenon
<1> QED
  BY <1>2, <1>3, <1>6, <1>7

LEMMA NextIInv ==
  ASSUME IInv, ~Contended, [Next]_vars
  PROVE  IInv'
<1> USE ThreadsAssumption
<1>1. CASE UNCHANGED vars
  BY <1>1 DEF vars, IInv, TypeOK, Exclusive, OwnerDepth, SavedDepth, Active, Depth, InFrame
<1>2. CASE Next
  <2>1. PICK t \in Threads :
          \/ Lock(t) \/ Unlock(t) \/ FreeLock(t) \/ RestoreLock(t)
          \/ Continue(t)
    BY <1>2 DEF Next
  <2>2. OnlyUser(t) /\ TypeOK
    BY <2>1, UserSteps DEF IInv
  <2>3. SUFFICES TypeOK' /\ OnlyUser(t)'
    BY OnlyUserIInv, PTL
  <2>4. CASE Lock(t)
    BY <2>2, <2>4 DEF OnlyUser, TypeOK, Lock, MutexLock, Depth, InFrame, SavedDepth, Statements
  <2>5. CASE Unlock(t)
    BY <2>2, <2>5 DEF OnlyUser, TypeOK, Unlock, Depth, InFrame, SavedDepth, Statements
  <2>6. CASE FreeLock(t)
    BY <2>2, <2>6 DEF OnlyUser, TypeOK, FreeLock, Depth, InFrame, SavedDepth, Statements, Frame
  <2>7. CASE RestoreLock(t)
    <3>1. frames[t][1].preLock >= 0 /\ frames[t][1].preLock \in Nat
      BY <2>2, <2>7, TopFrame DEF OnlyUser, RestoreLock
    <3> QED
      BY <2>2, <2>7, <3>1 DEF OnlyUser, TypeOK, RestoreLock, Depth, InFrame, SavedDepth, Statements
  <2>8. CASE LockInc(t)
    BY <2>2, <2>8 DEF OnlyUser, TypeOK, LockInc, Depth, InFrame, SavedDepth, Statements
  <2>9. CASE UnlockRelease(t)
    BY <2>2, <2>9 DEF OnlyUser, TypeOK, UnlockRelease, MutexUnlock, Depth, InFrame, SavedDepth, Statements
  <2>10. CASE FreeTest(t)
    BY <2>2, <2>10 DEF OnlyUser, TypeOK, FreeTest, Depth, InFrame, SavedDepth, Statements
  <2>11. CASE FreeUnlock(t)
    BY <2>2, <2>11 DEF OnlyUser, TypeOK, FreeUnlock, MutexUnlock, Depth, InFrame, SavedDepth, Statements
  <2>12. CASE FreeDec(t)
    BY <2>2, <2>12 DEF OnlyUser, TypeOK, FreeDec, Depth, InFrame, SavedDepth, Statements
  <2>13. CASE RestoreTest(t)
    <3> DEFINE f == frames[t][1]
    <3>1. frames[t] # << >> /\ cLock = count /\ held[t] = 0 /\ count <= f.preLock
      BY <2>2, <2>13 DEF OnlyUser, RestoreTest, Depth, InFrame
    <3>2. /\ Head(frames[t]) = f /\ f.preLock = f.held /\ f.held \in Nat
          /\ Tail(frames[t]) \in Seq(Frame)
          /\ \A i \in 1..Len(Tail(frames[t])) :
               Tail(frames[t])[i].preLock = Tail(frames[t])[i].held
      BY <2>2, <3>1, TopFrame DEF OnlyUser
    <3>3. CASE cLock < f.preLock
      <4>1. /\ pc' = [pc EXCEPT ![t] = "restLock"]
            /\ UNCHANGED <<owner, count, cLock, held, frames>>
        BY <2>13, <3>2, <3>3 DEF RestoreTest
      <4> QED
        BY <2>2, <3>1, <3>3, <4>1
        DEF OnlyUser, TypeOK, Depth, InFrame, SavedDepth, Statements
    <3>4. CASE ~(cLock < f.preLock)
      <4>1. count = f.held
        BY <2>2, <3>1, <3>2, <3>4 DEF TypeOK
      <4>2. /\ pc' = [pc EXCEPT ![t] = "idle"]
            /\ held' = [held EXCEPT ![t] = f.held]
            /\ frames' = [frames EXCEPT ![t] = Tail(frames[t])]
            /\ UNCHANGED <<owner, count, cLock>>
        BY <2>13, <3>2, <3>4 DEF RestoreTest
      <4>3. TypeOK'
        BY <2>2, <3>2, <4>2 DEF TypeOK, Statements
      <4>4. SavedDepth'
        BY <2>2, <3>2, <4>2 DEF OnlyUser, SavedDepth, TypeOK
      <4> QED
        BY <2>2, <3>1, <4>1, <4>2, <4>3, <4>4 DEF OnlyUser, TypeOK, Depth, InFrame
    <3> QED
      BY <3>3, <3>4
  <2>14. CASE RestoreMutexLock(t)
    <3>1. frames[t] # << >> /\ frames[t][1].preLock \in Nat
      BY <2>2, <2>14, TopFrame DEF OnlyUser, RestoreMutexLock, InFrame
    <3> QED
      BY <2>2, <2>14, <3>1
      DEF OnlyUser, TypeOK, RestoreMutexLock, MutexLock, Depth, InFrame, SavedDepth, Statements
  <2>15. CASE RestoreInc(t)
    BY <2>2, <2>15 DEF OnlyUser, TypeOK, RestoreInc, Depth, InFrame, SavedDepth, Statements
  <2> QED
    BY <2>1, <2>4, <2>5, <2>6, <2>7, <2>8, <2>9, <2>10, <2>11, <2>12, <2>13, <2>14, <2>15
    DEF Continue
<1> QED
  BY <1>1, <1>2

-----------------------------------------------------------------------------
LEMMA IInvImplies ==
  ASSUME IInv
  PROVE  TypeOK /\ HeldMeansOwned /\ QuiescentDepth
<1>1. TypeOK
  BY DEF IInv
<1>2. HeldMeansOwned
  BY ThreadsAssumption, OneUser DEF IInv, HeldMeansOwned, Active, Depth, OwnerDepth, TypeOK
<1>3. ASSUME \A t \in Threads : pc[t] = "idle"
      PROVE  cLock = count /\ ((\A t \in Threads : held[t] = 0) => count = 0)
  <2>1. CASE \A t \in Threads : ~Active(t)
    BY <2>1 DEF IInv, OwnerDepth
  <2>2. CASE \E t \in Threads : Active(t)
    BY <1>3, <2>2 DEF IInv, Depth, TypeOK
  <2> QED
    BY <2>1, <2>2
<1> QED
  BY <1>1, <1>2, <1>3 DEF QuiescentDepth, IInv, OwnerDepth

LEMMA Invariance ==
  ASSUME ~Contended
  PROVE  Spec => []IInv
<1>1. Init => IInv
  BY InitIInv
<1>2. IInv /\ [Next]_vars => IInv'
  BY NextIInv
<1> QED
  BY <1>1, <1>2, PTL DEF Spec

(***************************************************************************)
(* The state of a CountMutex nobody else takes during a callback has its   *)
(* type; in particular FreeLock never counts cLock below zero.             *)
(***************************************************************************)
THEOREM TypeCorrect ==
  ASSUME ~Contended
  PROVE  Spec => []TypeOK
<1>1. IInv => TypeOK
  BY IInvImplies
<1> QED
  BY <1>1, Invariance, PTL

(***************************************************************************)
(* Without contention during callbacks a thread that returned from lock()  *)
(* or RestoreLock() owns the mutex at the depth it counts on, for any      *)
(* number of threads, recursions and nested callbacks.                     *)
(***************************************************************************)
THEOREM LockRestored ==
  ASSUME ~Contended
  PROVE  Spec => []HeldMeansOwned
<1>1. IInv => HeldMeansOwned
  BY IInvImplies
<1> QED
  BY <1>1, Invariance, PTL

(***************************************************************************)
(* Without contention during callbacks cLock is the mutex's depth whenever *)
(* no call is in progress, and a lock everyone gave back is free.          *)
(***************************************************************************)
THEOREM DepthKept ==
  ASSUME ~Contended
  PROVE  Spec => []QuiescentDepth
<1>1. IInv => QuiescentDepth
  BY IInvImplies
<1> QED
  BY <1>1, Invariance, PTL
===============================================================================
