------------------------- MODULE SyncObjectsProofs -------------------------
(***************************************************************************)
(* For any threads, objects and arrays of handles: a mutex has one holder  *)
(* or one byte, a semaphore's count is the number of its bytes, and a wait *)
(* that reports an object has read a byte of it.                           *)
(*                                                                         *)
(* The code decides who may release a mutex by tid_owner, which is written *)
(* outside of every lock, before and after the byte moves.  The invariant  *)
(* therefore says what tid_owner can be: the holder, or a thread that has  *)
(* written the byte and has not cleared its id yet.                        *)
(***************************************************************************)
EXTENDS SyncObjects, TLAPS

\* What a thread outside of the waits works on.
Targets ==
  \A t \in Threads :
    /\ pc[t] = "clear" => \E m \in Mutexes : call[t].hs = <<m>>
    /\ pc[t] = "reset" => \E e \in Events : call[t].hs = <<e>>

Clearing(t, m) == pc[t] = "clear" /\ call[t].hs[1] = m

OwnerHolds ==
  \A m \in Mutexes, t \in Threads :
    owner[m] = t => t \in holds[m] \/ Clearing(t, m)

\* Between the read of the byte and the store of the id.
Acquiring ==
  \A t \in Threads : pc[t] = "owner" =>
    \A i \in Nat : First(Pending(t), i) =>
      Handle(t, i) \in Mutexes /\ t \in holds[Handle(t, i)] /\ i \in took[t]

\* The loop over onWaitDone has read a byte of every object it has passed.
Passed(t) ==
  /\ result[t] \subseteq ready[t]
  /\ \A j \in ready[t] :
       j < ix[t] /\ IsObject(t, j) /\ Kind[Handle(t, j)] # "manual" => j \in took[t]

InLoop(t) == pc[t] \in {"done", "owner"}

\* Outside of the loop its variables have their initial values.
Fresh(t) ==
  /\ ix[t] = 1 /\ took[t] = {} /\ result[t] = {}
  /\ pc[t] # "select" => ready[t] = {}

LoopPaid ==
  \A t \in Threads : IF InLoop(t) THEN Passed(t) ELSE Fresh(t)

MutexInv == MutexExclusion /\ Targets /\ OwnerHolds /\ Acquiring

IInv == TypeOK /\ MutexInv /\ SemaphoreCounts /\ LoopPaid

-----------------------------------------------------------------------------
LEMMA InitIInv == Init => IInv
<1> SUFFICES ASSUME Init PROVE IInv
  OBVIOUS
<1>1. TypeOK
  BY KindAssumption, CountAssumption, NoneAssumption
     DEF Init, TypeOK, NoCall, Indexes, Objects, Mutexes, Semaphores, OfKind
<1>2. MutexExclusion
  BY KindAssumption, NoneAssumption DEF Init, MutexExclusion, Mutexes, OfKind, Objects
<1>3. Targets /\ OwnerHolds /\ Acquiring
  BY NoneAssumption DEF Init, Targets, OwnerHolds, Acquiring, Mutexes, OfKind
<1>4. SemaphoreCounts
  BY KindAssumption, CountAssumption DEF Init, SemaphoreCounts, Semaphores, Mutexes, OfKind
<1>5. LoopPaid
  BY DEF Init, LoopPaid, InLoop, Fresh
<1> QED
  BY <1>1, <1>2, <1>3, <1>4, <1>5 DEF IInv, MutexInv

-----------------------------------------------------------------------------
(***************************************************************************)
(* Types.                                                                  *)
(***************************************************************************)
\* The two halves of TypeOK: the objects and the threads' waits.
ObjectType ==
  /\ tokens \in [Objects -> Nat]
  /\ sigCount \in [Objects -> Nat]
  /\ owner \in [Objects -> Threads \cup {None}]
  /\ holds \in [Objects -> SUBSET Threads]

WaitType ==
  /\ pc \in [Threads -> {"run", "reset", "clear", "select", "done", "owner"}]
  /\ call \in [Threads -> [hs : Seq(Objects \cup {Invalid}), all : BOOLEAN, timed : BOOLEAN]]
  /\ ix \in [Threads -> Nat]
  /\ ready \in [Threads -> SUBSET Nat]
  /\ took \in [Threads -> SUBSET Nat]
  /\ result \in [Threads -> SUBSET Nat]
  /\ \A t \in Threads : ready[t] \cup took[t] \cup result[t] \subseteq Indexes(t)

LEMMA TypeHalves == TypeOK <=> ObjectType /\ WaitType
  BY DEF TypeOK, ObjectType, WaitType

\* An index of a wait that is not INVALID_HANDLE_VALUE names an object.
LEMMA HandleType ==
  ASSUME TypeOK, NEW t \in Threads, NEW i \in Indexes(t)
  PROVE  Handle(t, i) \in Objects \cup {Invalid}
  BY DEF TypeOK, Indexes, Handle

LEMMA NoCallType ==
  /\ NoCall \in [hs : Seq(Objects \cup {Invalid}), all : BOOLEAN, timed : BOOLEAN]
  /\ Len(NoCall.hs) = 0
  BY DEF NoCall

LEMMA ObjectTypeStep ==
  ASSUME TypeOK, Targets, NEW t \in Threads, Begin(t) \/ Step(t)
  PROVE  ObjectType'
<1> USE DEF ObjectType
<1>t. ObjectType
  BY TypeHalves
<1>1. ASSUME NEW e \in Objects, SetEvent(t, e) PROVE ObjectType'
  BY <1>t, <1>1 DEF SetEvent
<1>2. ASSUME NEW e \in Objects, ResetEvent(t, e) PROVE ObjectType'
  BY <1>t, <1>2 DEF ResetEvent, object
<1>3. CASE ResetRead(t)
  <2> PICK e \in Events : call[t].hs = <<e>>
    BY <1>3 DEF ResetRead, Targets
  <2> call[t].hs[1] = e /\ e \in Objects
    BY DEF Events, OfKind
  <2> QED
    BY <1>t, <1>3 DEF ResetRead
<1>4. ASSUME NEW s \in Objects, NEW n \in 1 .. MaxSignal[s], ReleaseSemaphore(t, s, n)
      PROVE  ObjectType'
  <2> n \in Nat
    BY <1>4, CountAssumption
  <2> QED
    BY <1>t, <1>4 DEF ReleaseSemaphore
<1>5. ASSUME NEW m \in Objects, ReleaseMutex(t, m) PROVE ObjectType'
  BY <1>t, <1>5 DEF ReleaseMutex
<1>6. CASE ReleaseMutexClear(t)
  BY <1>t, <1>6 DEF ReleaseMutexClear
<1>7. CASE UNCHANGED object
  BY <1>t, <1>7 DEF object
<1>8. CASE DrainEvent(t)
  BY <1>t, <1>8 DEF DrainEvent, Read
<1>9. CASE SemaphoreDone(t)
  BY <1>t, <1>9 DEF SemaphoreDone, Read
<1>10. CASE MutexDone(t)
  BY <1>t, <1>10 DEF MutexDone, Read
<1>11. CASE MutexOwner(t)
  BY <1>t, <1>11 DEF MutexOwner
<1>12. CASE Begin(t)
  BY <1>12, <1>1, <1>2, <1>4, <1>5, <1>7
     DEF Begin, WaitForSingleObject, WaitForMultipleObjects, BeginWait
<1> QED
  BY <1>3, <1>6, <1>7, <1>8, <1>9, <1>10, <1>11, <1>12
     DEF Step, Select, SelectTimeout, ToWaitDone, ManualDone, EventDone, WaitReturn

LEMMA WaitTypeStep ==
  ASSUME TypeOK, LoopPaid, NEW t \in Threads, Begin(t) \/ Step(t)
  PROVE  WaitType'
<1> USE DEF WaitType, Indexes
<1>t. WaitType
  BY TypeHalves
<1>f. pc[t] \in {"run", "reset", "clear"} => ready[t] = {} /\ took[t] = {} /\ result[t] = {}
  BY DEF LoopPaid, Fresh, InLoop
<1>a. ASSUME NEW o \in Objects, NEW all \in BOOLEAN, NEW timed \in BOOLEAN
      PROVE  /\ Call(<<o>>, all, timed) \in
                  [hs : Seq(Objects \cup {Invalid}), all : BOOLEAN, timed : BOOLEAN]
             /\ <<o>> \in Seq(Objects \cup {Invalid})
  BY DEF Call
<1>b. ASSUME Returned(t) PROVE WaitType'
  BY <1>t, <1>b, NoCallType DEF Returned
<1>c. ASSUME NEW i \in ready[t], Fails(t, i) PROVE WaitType'
  <2>1. CASE Returned(t)
    BY <1>b, <2>1
  <2>2. CASE /\ pc' = [pc EXCEPT ![t] = "select"]
             /\ ready' = [ready EXCEPT ![t] = @ \ {i}]
             /\ ix' = [ix EXCEPT ![t] = 1]
             /\ took' = [took EXCEPT ![t] = {}]
             /\ result' = [result EXCEPT ![t] = {}]
             /\ UNCHANGED call
    BY <1>t, <2>2
  <2> QED
    BY <1>c, <2>1, <2>2 DEF Fails
<1>d. CASE UNCHANGED wait
  BY <1>t, <1>d DEF wait
<1>s. ASSUME NEW i \in ready[t], Succeeds(t, i), UNCHANGED <<call, ready, result>>,
             \/ UNCHANGED took
             \/ took' = [took EXCEPT ![t] = @ \cup {i}],
             \/ UNCHANGED pc
             \/ pc' = [pc EXCEPT ![t] = "done"]
      PROVE  WaitType'
  <2>1. i \in Nat /\ i + 1 \in Nat /\ i \in 1 .. Len(call[t].hs)
    BY <1>t, <1>s
  <2>2. ix' \in [Threads -> Nat]
    BY <1>t, <1>s, <2>1 DEF Succeeds
  <2>3. pc' \in [Threads -> {"run", "reset", "clear", "select", "done", "owner"}]
    BY <1>t, <1>s
  <2>4. /\ took' \in [Threads -> SUBSET Nat]
        /\ \A u \in Threads : took'[u] \subseteq took[u] \cup (IF u = t THEN {i} ELSE {})
    <3>1. CASE UNCHANGED took
      BY <1>t, <3>1
    <3>2. CASE took' = [took EXCEPT ![t] = took[t] \cup {i}]
      <4>1. took[t] \cup {i} \in SUBSET Nat
        BY <1>t, <2>1
      <4> QED
        BY <1>t, <3>2, <4>1
    <3> QED
      BY <1>s, <3>1, <3>2
  <2> QED
    BY <1>t, <1>s, <2>1, <2>2, <2>3, <2>4
<1>1. ASSUME NEW e \in Objects, ResetEvent(t, e) PROVE WaitType'
  BY <1>t, <1>1, <1>a, <1>f DEF ResetEvent, Call
<1>2. CASE ResetRead(t)
  <2>1. CASE UNCHANGED <<pc, call>>
    BY <1>t, <1>2, <2>1 DEF ResetRead
  <2>2. CASE pc' = [pc EXCEPT ![t] = "run"] /\ call' = [call EXCEPT ![t] = NoCall]
    BY <1>t, <1>2, <1>f, <2>2, NoCallType DEF ResetRead
  <2> QED
    BY <1>2, <2>1, <2>2 DEF ResetRead
<1>3. ASSUME NEW m \in Objects, ReleaseMutex(t, m) PROVE WaitType'
  BY <1>t, <1>3, <1>a, <1>f DEF ReleaseMutex, Call
<1>4. CASE ReleaseMutexClear(t)
  BY <1>t, <1>4, <1>f, NoCallType DEF ReleaseMutexClear
<1>5. ASSUME NEW hs \in Seq(Objects \cup {Invalid}), NEW all \in BOOLEAN,
             NEW timed \in BOOLEAN, BeginWait(t, hs, all, timed)
      PROVE  WaitType'
  BY <1>t, <1>5, <1>f DEF BeginWait, Call
<1>6. CASE Select(t)
  <2> DEFINE now == ready[t] \cup Selected(t)
  <2>1. now \subseteq 1 .. Len(call[t].hs) /\ now \subseteq Nat
    BY <1>t DEF Selected
  <2>2. /\ ready' = [ready EXCEPT ![t] = now]
        /\ \/ UNCHANGED <<pc, call, ix, took, result>>
           \/ \E res \in SUBSET now :
                /\ pc' = [pc EXCEPT ![t] = "done"]
                /\ result' = [result EXCEPT ![t] = res]
                /\ UNCHANGED <<call, ix, took>>
    BY <1>6 DEF Select, ToWaitDone
  <2> HIDE DEF now
  <2>3. CASE UNCHANGED <<pc, call, ix, took, result>>
    BY <1>t, <2>1, <2>2, <2>3
  <2>4. ASSUME NEW res \in SUBSET now,
               pc' = [pc EXCEPT ![t] = "done"],
               result' = [result EXCEPT ![t] = res],
               UNCHANGED <<call, ix, took>>
        PROVE  WaitType'
    BY <1>t, <2>1, <2>2, <2>4
  <2> QED
    BY <2>2, <2>3, <2>4
<1>7. CASE SelectTimeout(t)
  BY <1>t, <1>7 DEF SelectTimeout, ToWaitDone
<1>8. CASE ManualDone(t)
  BY <1>8, <1>s DEF ManualDone
<1>9. CASE DrainEvent(t)
  BY <1>t, <1>9 DEF DrainEvent, Read
<1>10. CASE EventDone(t)
  BY <1>10, <1>s, <1>c DEF EventDone
<1>11. CASE SemaphoreDone(t)
  BY <1>11, <1>s, <1>c DEF SemaphoreDone, Read
<1>12. CASE MutexDone(t)
  <2> PICK i \in ready[t], o \in Objects :
        \/ /\ took' = [took EXCEPT ![t] = @ \cup {i}]
           /\ pc' = [pc EXCEPT ![t] = "owner"]
           /\ UNCHANGED <<call, ready, ix, result>>
        \/ Fails(t, i)
    BY <1>12 DEF MutexDone, Read
  <2>1. CASE Fails(t, i)
    BY <1>c, <2>1
  <2>2. CASE /\ took' = [took EXCEPT ![t] = @ \cup {i}]
             /\ pc' = [pc EXCEPT ![t] = "owner"]
             /\ UNCHANGED <<call, ready, ix, result>>
    <3>1. took[t] \cup {i} \in SUBSET Nat /\ i \in 1 .. Len(call[t].hs)
      BY <1>t
    <3> QED
      BY <1>t, <2>2, <3>1
  <2> QED
    BY <2>1, <2>2
<1>13. CASE MutexOwner(t)
  BY <1>13, <1>s DEF MutexOwner
<1>14. CASE WaitReturn(t)
  BY <1>14, <1>b DEF WaitReturn
<1>15. CASE Begin(t)
  <2>1. ASSUME NEW o \in Objects, NEW timed \in BOOLEAN, WaitForSingleObject(t, o, timed)
        PROVE  WaitType'
    BY <2>1, <1>5, <1>a DEF WaitForSingleObject
  <2>2. ASSUME NEW hs \in Waits, NEW all \in BOOLEAN, NEW timed \in BOOLEAN,
               WaitForMultipleObjects(t, hs, all, timed)
        PROVE  WaitType'
    BY <2>2, <1>5, WaitsAssumption DEF WaitForMultipleObjects
  <2> QED
    BY <1>15, <1>1, <1>3, <1>d, <2>1, <2>2 DEF Begin, SetEvent, ReleaseSemaphore
<1> QED
  BY <1>2, <1>4, <1>6, <1>7, <1>8, <1>9, <1>10, <1>11, <1>12, <1>13, <1>14, <1>15
     DEF Step

-----------------------------------------------------------------------------
(***************************************************************************)
(* What a step of one thread leaves alone.                                 *)
(***************************************************************************)
LEMMA Others ==
  ASSUME TypeOK, NEW t \in Threads, Begin(t) \/ Step(t), NEW u \in Threads, u # t
  PROVE  /\ pc'[u] = pc[u] /\ call'[u] = call[u] /\ ready'[u] = ready[u]
         /\ ix'[u] = ix[u] /\ took'[u] = took[u] /\ result'[u] = result[u]
<1> USE DEF TypeOK
<1>b. ASSUME Returned(t)
      PROVE  /\ pc'[u] = pc[u] /\ call'[u] = call[u] /\ ready'[u] = ready[u]
             /\ ix'[u] = ix[u] /\ took'[u] = took[u] /\ result'[u] = result[u]
  BY <1>b DEF Returned
<1>c. ASSUME NEW i, Fails(t, i)
      PROVE  /\ pc'[u] = pc[u] /\ call'[u] = call[u] /\ ready'[u] = ready[u]
             /\ ix'[u] = ix[u] /\ took'[u] = took[u] /\ result'[u] = result[u]
  BY <1>b, <1>c DEF Fails
<1>1. CASE Begin(t)
  BY <1>1 DEF Begin, SetEvent, ResetEvent, ReleaseSemaphore, ReleaseMutex, BeginWait,
     WaitForSingleObject, WaitForMultipleObjects, wait
<1>2. CASE ResetRead(t) \/ ReleaseMutexClear(t)
  BY <1>2 DEF ResetRead, ReleaseMutexClear
<1>3. CASE Select(t) \/ SelectTimeout(t)
  BY <1>3 DEF Select, SelectTimeout, ToWaitDone
<1>4. CASE ManualDone(t) \/ DrainEvent(t)
  BY <1>4 DEF ManualDone, DrainEvent, Succeeds, Read
<1>5. CASE EventDone(t)
  BY <1>5, <1>c DEF EventDone, Succeeds
<1>6. CASE SemaphoreDone(t)
  BY <1>6, <1>c DEF SemaphoreDone, Succeeds, Read
<1>7. CASE MutexDone(t)
  BY <1>7, <1>c DEF MutexDone, Read
<1>8. CASE MutexOwner(t) \/ WaitReturn(t)
  BY <1>8, <1>b DEF MutexOwner, Succeeds, WaitReturn
<1> QED
  BY <1>1, <1>2, <1>3, <1>4, <1>5, <1>6, <1>7, <1>8 DEF Step

(***************************************************************************)
(* The loop over onWaitDone.                                               *)
(***************************************************************************)
LEMMA LoopStep ==
  ASSUME TypeOK, LoopPaid, Acquiring, NEW t \in Threads, Begin(t) \/ Step(t)
  PROVE  LoopPaid'
<1> SUFFICES (IF InLoop(t) THEN Passed(t) ELSE Fresh(t))'
  BY Others DEF LoopPaid, InLoop, Passed, Fresh, IsObject, Handle
<1> USE DEF TypeOK
<1>f. IF InLoop(t) THEN Passed(t) ELSE Fresh(t)
  BY DEF LoopPaid
<1>b. ASSUME Returned(t) PROVE Fresh(t)' /\ ~InLoop(t)'
  BY <1>b DEF Returned, Fresh, InLoop
<1>c. ASSUME NEW i, Fails(t, i) PROVE Fresh(t)' /\ ~InLoop(t)'
  BY <1>b, <1>c DEF Fails, Fresh, InLoop
<1>s. ASSUME NEW i \in ready[t], First(Pending(t), i), InLoop(t), Succeeds(t, i),
             UNCHANGED <<call, ready, result>>,
             Kind[Handle(t, i)] = "manual" \/ i \in took'[t],
             took[t] \subseteq took'[t]
      PROVE  Passed(t)'
  <2>1. Passed(t)
    BY <1>f, <1>s
  <2>2. ASSUME NEW j \in ready[t], j < i + 1, IsObject(t, j),
               Kind[Handle(t, j)] # "manual"
        PROVE  j \in took'[t]
    <3>1. j \in Nat /\ i \in Nat /\ ix[t] \in Nat
      BY DEF TypeOK
    <3>2. CASE j < ix[t]
      BY <1>s, <2>1, <2>2, <3>2 DEF Passed
    <3>3. CASE j >= ix[t]
      <4>1. j \in Pending(t)
        BY <2>2, <3>3 DEF Pending
      <4>2. j = i
        BY <1>s, <2>2, <3>1, <4>1 DEF First
      <4> QED
        BY <1>s, <2>2, <4>2
    <3> QED
      BY <3>1, <3>2, <3>3
  <2>3. ix'[t] = i + 1
    BY <1>s DEF Succeeds
  <2> QED
    BY <1>s, <2>1, <2>2, <2>3 DEF Passed, IsObject, Handle
<1>1. CASE Begin(t)
  BY <1>1, <1>f DEF Begin, SetEvent, ResetEvent, ReleaseSemaphore, ReleaseMutex, BeginWait,
     WaitForSingleObject, WaitForMultipleObjects, wait, Fresh, InLoop
<1>2. CASE ResetRead(t) \/ ReleaseMutexClear(t)
  BY <1>2, <1>f DEF ResetRead, ReleaseMutexClear, Fresh, InLoop
<1>3. CASE Select(t) \/ SelectTimeout(t)
  <2>1. Fresh(t) /\ pc[t] = "select"
    BY <1>3, <1>f DEF Select, SelectTimeout, InLoop
  <2>2. \/ Fresh(t)' /\ pc'[t] = "select"
        \/ /\ pc'[t] = "done" /\ ix'[t] = 1
           /\ result'[t] \subseteq ready'[t]
           /\ \A j \in ready'[t] : j \in Indexes(t)
    <3>1. CASE SelectTimeout(t)
      BY <2>1, <3>1 DEF SelectTimeout, ToWaitDone, Fresh
    <3>2. CASE Select(t)
      <4> DEFINE now == ready[t] \cup Selected(t)
      <4>1. now \subseteq Indexes(t)
        BY DEF Selected
      <4>2. /\ ready'[t] = now
            /\ \/ pc' = pc /\ UNCHANGED <<ix, took, result>>
               \/ \E res \in SUBSET now :
                    pc'[t] = "done" /\ result'[t] = res /\ UNCHANGED ix
        BY <3>2 DEF Select, ToWaitDone
      <4> HIDE DEF now
      <4> QED
        BY <2>1, <4>1, <4>2 DEF Fresh
    <3> QED
      BY <1>3, <3>1, <3>2
  <2> QED
    BY <2>2 DEF Passed, InLoop, Indexes
<1>4. CASE ManualDone(t)
  BY <1>4, <1>s DEF ManualDone, At, InLoop
<1>5. CASE DrainEvent(t)
  BY <1>5, <1>f DEF DrainEvent, Read, At, Passed, InLoop, IsObject, Handle
<1>6. CASE EventDone(t)
  BY <1>6, <1>s, <1>c DEF EventDone, At, InLoop
<1>7. CASE SemaphoreDone(t)
  <2> PICK i \in ready[t], o \in Objects :
        /\ At(t, i, o, "sem")
        /\ \/ /\ Read(t, i, o) /\ Succeeds(t, i)
              /\ UNCHANGED <<pc, call, ready, result>>
           \/ Fails(t, i)
    BY <1>7 DEF SemaphoreDone
  <2>1. CASE Fails(t, i)
    BY <1>c, <2>1
  <2>2. CASE Read(t, i, o) /\ Succeeds(t, i) /\ UNCHANGED <<pc, call, ready, result>>
    <3>1. took'[t] = took[t] \cup {i}
      BY <2>2 DEF Read
    <3> QED
      BY <1>s, <2>2, <3>1 DEF At, InLoop
  <2> QED
    BY <2>1, <2>2
<1>8. CASE MutexDone(t)
  <2> PICK i \in ready[t], o \in Objects :
        /\ At(t, i, o, "mutex")
        /\ \/ /\ Read(t, i, o)
              /\ pc' = [pc EXCEPT ![t] = "owner"]
              /\ UNCHANGED <<call, ready, ix, result>>
           \/ Fails(t, i)
    BY <1>8 DEF MutexDone
  <2> QED
    BY <1>c, <1>f DEF Read, At, Passed, InLoop, IsObject, Handle
<1>9. CASE MutexOwner(t)
  <2> PICK i \in ready[t] : First(Pending(t), i) /\ Succeeds(t, i)
    BY <1>9 DEF MutexOwner
  <2> i \in took[t]
    BY <1>9 DEF MutexOwner, Acquiring
  <2> QED
    BY <1>9, <1>s DEF MutexOwner, InLoop
<1>10. CASE WaitReturn(t)
  BY <1>10, <1>b DEF WaitReturn
<1> QED
  BY <1>1, <1>2, <1>3, <1>4, <1>5, <1>6, <1>7, <1>8, <1>9, <1>10 DEF Step

(***************************************************************************)
(* Mutexes.                                                                *)
(***************************************************************************)
\* Steps that move no byte of a mutex and leave tid_owner alone.
LEMMA Quiet ==
  ASSUME TypeOK, MutexInv, NEW t \in Threads, Begin(t) \/ Step(t),
         UNCHANGED <<owner, holds>>,
         \A m \in Mutexes : tokens'[m] = tokens[m],
         pc[t] # "clear", pc'[t] \notin {"clear", "owner"},
         pc'[t] = "reset" => \E e \in Events : call'[t].hs = <<e>>
  PROVE  MutexInv'
<1>1. MutexExclusion'
  BY DEF MutexInv, MutexExclusion
<1>2. Targets'
  BY Others DEF MutexInv, Targets
<1>3. OwnerHolds'
  BY Others DEF MutexInv, OwnerHolds, Clearing
<1>4. Acquiring'
  BY Others DEF MutexInv, Acquiring, Pending, IsObject, Handle
<1> QED
  BY <1>1, <1>2, <1>3, <1>4 DEF MutexInv

LEMMA KindsDisjoint ==
  /\ Events \cap Mutexes = {} /\ Events \cap Semaphores = {}
  /\ Semaphores \cap Mutexes = {}
  /\ Mutexes \subseteq Objects /\ Events \subseteq Objects /\ Semaphores \subseteq Objects
  BY DEF Events, Semaphores, Mutexes, OfKind

LEMMA MutexStep ==
  ASSUME TypeOK, MutexInv, NEW t \in Threads, Begin(t) \/ Step(t)
  PROVE  MutexInv'
<1> USE KindsDisjoint
<1>b. ASSUME Returned(t) PROVE pc'[t] = "run"
  BY <1>b DEF Returned, TypeOK
<1>c. ASSUME NEW i, Fails(t, i) PROVE pc'[t] \in {"run", "select"}
  BY <1>b, <1>c DEF Fails, TypeOK
<1>1. ASSUME NEW m \in Objects, ReleaseMutex(t, m) PROVE MutexInv'
  <2>1. m \in Mutexes /\ pc[t] = "run" /\ owner[m] = t
    BY <1>1 DEF ReleaseMutex
  <2>2. holds[m] = {t} /\ tokens[m] = 0
    BY <2>1 DEF MutexInv, OwnerHolds, MutexExclusion, Clearing
  <2>3. /\ tokens'[m] = 1 /\ holds'[m] = {}
        /\ \A n \in Mutexes \ {m} : tokens'[n] = tokens[n] /\ holds'[n] = holds[n]
        /\ pc'[t] = "clear" /\ call'[t].hs = <<m>> /\ owner' = owner
    BY <1>1, <2>1, <2>2 DEF ReleaseMutex, TypeOK, Call
  <2>4. MutexExclusion'
    BY <2>3 DEF MutexInv, MutexExclusion
  <2>5. Targets'
    BY <2>1, <2>3, Others DEF MutexInv, Targets
  <2>6. OwnerHolds'
    BY <2>1, <2>2, <2>3, Others DEF MutexInv, OwnerHolds, Clearing
  <2>7. Acquiring'
    <3> SUFFICES ASSUME NEW u \in Threads, pc'[u] = "owner", NEW i \in Nat,
                        First(Pending(u), i)'
                 PROVE  /\ Handle(u, i)' \in Mutexes /\ u \in holds'[Handle(u, i)']
                        /\ i \in took'[u]
      BY DEF Acquiring
    <3>1. u # t
      BY <2>3
    <3>2. First(Pending(u), i) /\ Handle(u, i)' = Handle(u, i) /\ took'[u] = took[u] /\ pc[u] = "owner"
      BY <3>1, Others DEF First, Pending, IsObject, Handle
    <3>3. Handle(u, i) \in Mutexes /\ u \in holds[Handle(u, i)] /\ i \in took[u]
      BY <3>2 DEF MutexInv, Acquiring
    <3> QED
      BY <2>2, <2>3, <3>1, <3>2, <3>3
  <2> QED
    BY <2>4, <2>5, <2>6, <2>7 DEF MutexInv
<1>2. CASE ReleaseMutexClear(t)
  <2> PICK m \in Mutexes : call[t].hs = <<m>>
    BY <1>2 DEF ReleaseMutexClear, MutexInv, Targets
  <2>1. /\ owner'[m] = None /\ \A n \in Mutexes \ {m} : owner'[n] = owner[n]
        /\ tokens' = tokens /\ holds' = holds /\ pc'[t] = "run"
    BY <1>2 DEF ReleaseMutexClear, TypeOK
  <2>2. MutexExclusion'
    BY <2>1 DEF MutexInv, MutexExclusion
  <2>3. Targets'
    BY <2>1, Others DEF MutexInv, Targets
  <2>4. OwnerHolds'
    BY <2>1, Others, NoneAssumption DEF MutexInv, OwnerHolds, Clearing
  <2>5. Acquiring'
    BY <2>1, Others DEF MutexInv, Acquiring, Pending, IsObject, Handle
  <2> QED
    BY <2>2, <2>3, <2>4, <2>5 DEF MutexInv
<1>3. CASE MutexDone(t)
  <2> PICK i \in ready[t], o \in Objects :
        /\ At(t, i, o, "mutex")
        /\ \/ /\ tokens[o] > 0
              /\ Read(t, i, o)
              /\ holds' = [holds EXCEPT ![o] = @ \cup {t}]
              /\ pc' = [pc EXCEPT ![t] = "owner"]
              /\ UNCHANGED <<call, ready, ix, result>>
           \/ Fails(t, i) /\ UNCHANGED <<tokens, holds>>
        /\ UNCHANGED <<sigCount, owner>>
    BY <1>3 DEF MutexDone
  <2>1. CASE Fails(t, i) /\ UNCHANGED <<tokens, holds>>
    BY <1>c, <2>1, Quiet DEF At
  <2>2. CASE /\ tokens[o] > 0
             /\ Read(t, i, o)
             /\ holds' = [holds EXCEPT ![o] = @ \cup {t}]
             /\ pc' = [pc EXCEPT ![t] = "owner"]
             /\ UNCHANGED <<call, ready, ix, result>>
    <3>1. o \in Mutexes /\ pc[t] = "done" /\ First(Pending(t), i) /\ o = Handle(t, i)
      BY DEF At, Mutexes, OfKind
    <3>2. tokens[o] = 1 /\ holds[o] = {}
      BY <2>2, <3>1 DEF MutexInv, MutexExclusion
    <3>3. /\ tokens'[o] = 0 /\ holds'[o] = {t}
          /\ \A n \in Mutexes \ {o} : tokens'[n] = tokens[n] /\ holds'[n] = holds[n]
          /\ pc'[t] = "owner" /\ took'[t] = took[t] \cup {i} /\ owner' = owner
      BY <2>2, <3>1, <3>2 DEF Read, TypeOK
    <3>4. MutexExclusion'
      BY <3>3 DEF MutexInv, MutexExclusion
    <3>5. Targets'
      BY <3>3, Others DEF MutexInv, Targets
    <3>6. OwnerHolds'
      BY <3>1, <3>2, <3>3, Others DEF MutexInv, OwnerHolds, Clearing
    <3>7. Acquiring'
      <4> SUFFICES ASSUME NEW u \in Threads, pc'[u] = "owner", NEW j \in Nat,
                          First(Pending(u), j)'
                   PROVE  /\ Handle(u, j)' \in Mutexes /\ u \in holds'[Handle(u, j)']
                          /\ j \in took'[u]
        BY DEF Acquiring
      <4>1. First(Pending(u), j) /\ Handle(u, j)' = Handle(u, j)
        BY <2>2, Others DEF First, Pending, IsObject, Handle
      <4>2. CASE u = t
        <5>1. j = i
          BY <3>1, <4>1, <4>2 DEF First, TypeOK
        <5> QED
          BY <3>1, <3>3, <4>1, <4>2, <5>1
      <4>3. CASE u # t
        <5>1. pc[u] = "owner" /\ took'[u] = took[u]
          BY <4>3, Others
        <5>2. Handle(u, j) \in Mutexes /\ u \in holds[Handle(u, j)] /\ j \in took[u]
          BY <4>1, <5>1 DEF MutexInv, Acquiring
        <5> QED
          BY <3>2, <3>3, <4>1, <5>1, <5>2
      <4> QED
        BY <4>2, <4>3
    <3> QED
      BY <3>4, <3>5, <3>6, <3>7 DEF MutexInv
  <2> QED
    BY <2>1, <2>2
<1>4. CASE MutexOwner(t)
  <2> PICK i \in ready[t] : First(Pending(t), i) /\ owner' = [owner EXCEPT ![Handle(t, i)] = t]
    BY <1>4 DEF MutexOwner
  <2>1. Handle(t, i) \in Mutexes /\ t \in holds[Handle(t, i)]
    BY <1>4 DEF MutexOwner, MutexInv, Acquiring, TypeOK
  <2>2. /\ tokens' = tokens /\ holds' = holds /\ pc'[t] = "done" /\ pc[t] = "owner"
        /\ owner'[Handle(t, i)] = t
        /\ \A n \in Mutexes \ {Handle(t, i)} : owner'[n] = owner[n]
    BY <1>4, <2>1 DEF MutexOwner, TypeOK
  <2>3. MutexExclusion'
    BY <2>2 DEF MutexInv, MutexExclusion
  <2>4. Targets'
    BY <2>2, Others DEF MutexInv, Targets
  <2>5. OwnerHolds'
    BY <2>1, <2>2, Others DEF MutexInv, OwnerHolds, Clearing
  <2>6. Acquiring'
    BY <2>2, Others DEF MutexInv, Acquiring, Pending, IsObject, Handle
  <2> QED
    BY <2>3, <2>4, <2>5, <2>6 DEF MutexInv
<1>5. CASE ResetRead(t)
  <2> PICK e \in Events : call[t].hs = <<e>>
    BY <1>5 DEF ResetRead, MutexInv, Targets
  <2>1. call[t].hs[1] = e
    OBVIOUS
  <2>2. \A m \in Mutexes : tokens'[m] = tokens[m]
    BY <1>5, <2>1 DEF ResetRead, TypeOK
  <2>3. pc'[t] = "run" \/ (pc'[t] = "reset" /\ call' = call)
    BY <1>5, <2>1 DEF ResetRead, TypeOK
  <2> QED
    BY <1>5, <2>2, <2>3, Quiet DEF ResetRead
<1>6. ASSUME NEW e \in Objects, SetEvent(t, e) PROVE MutexInv'
  BY <1>6, Quiet DEF SetEvent, TypeOK, wait
<1>7. ASSUME NEW e \in Objects, ResetEvent(t, e) PROVE MutexInv'
  <2>1. e \in Events /\ pc'[t] = "reset" /\ call'[t].hs = <<e>>
    BY <1>7 DEF ResetEvent, TypeOK, Call
  <2> QED
    BY <1>7, <2>1, Quiet DEF ResetEvent, object
<1>8. ASSUME NEW s \in Objects, NEW n, ReleaseSemaphore(t, s, n) PROVE MutexInv'
  BY <1>8, Quiet DEF ReleaseSemaphore, TypeOK, wait
<1>9. ASSUME NEW hs, NEW all, NEW timed, BeginWait(t, hs, all, timed) PROVE MutexInv'
  <2>1. pc[t] = "run" /\ pc'[t] = "select"
    BY <1>9 DEF BeginWait, TypeOK
  <2> QED
    BY <1>9, <2>1, Quiet DEF BeginWait, object
<1>10. CASE Begin(t)
  BY <1>10, <1>1, <1>6, <1>7, <1>8, <1>9
     DEF Begin, WaitForSingleObject, WaitForMultipleObjects
<1>11. CASE Select(t) \/ SelectTimeout(t)
  <2>1. pc[t] = "select" /\ pc'[t] \in {"select", "done"} /\ UNCHANGED object
    BY <1>11 DEF Select, SelectTimeout, ToWaitDone, TypeOK
  <2> QED
    BY <2>1, Quiet DEF object
<1>12. CASE ManualDone(t)
  BY <1>12, Quiet DEF ManualDone, At, object
<1>13. CASE DrainEvent(t)
  <2> PICK i \in ready[t], o \in Objects : At(t, i, o, "auto") /\ Read(t, i, o)
    BY <1>13 DEF DrainEvent
  <2>1. \A m \in Mutexes : tokens'[m] = tokens[m]
    BY DEF At, Read, Mutexes, OfKind, TypeOK
  <2> QED
    BY <1>13, <2>1, Quiet DEF DrainEvent, At
<1>14. CASE EventDone(t)
  BY <1>14, <1>c, Quiet DEF EventDone, At, object
<1>15. CASE SemaphoreDone(t)
  <2> PICK i \in ready[t], o \in Objects :
        /\ At(t, i, o, "sem")
        /\ \/ Read(t, i, o) /\ UNCHANGED pc
           \/ Fails(t, i) /\ UNCHANGED tokens
        /\ UNCHANGED <<owner, holds>>
    BY <1>15 DEF SemaphoreDone
  <2>1. \A m \in Mutexes : tokens'[m] = tokens[m]
    BY DEF At, Read, Mutexes, OfKind, TypeOK
  <2> QED
    BY <2>1, <1>c, Quiet DEF At
<1>16. CASE WaitReturn(t)
  BY <1>16, <1>b, Quiet DEF WaitReturn, object
<1> QED
  BY <1>2, <1>3, <1>4, <1>5, <1>10, <1>11, <1>12, <1>13, <1>14, <1>15, <1>16 DEF Step

(***************************************************************************)
(* Semaphores.                                                             *)
(***************************************************************************)
LEMMA SemaphoreStep ==
  ASSUME TypeOK, Targets, SemaphoreCounts, NEW t \in Threads, Begin(t) \/ Step(t)
  PROVE  SemaphoreCounts'
<1> USE KindsDisjoint DEF TypeOK
<1>q. ASSUME UNCHANGED sigCount, \A s \in Semaphores : tokens'[s] = tokens[s]
      PROVE  SemaphoreCounts'
  BY <1>q DEF SemaphoreCounts
<1>1. ASSUME NEW s \in Objects, NEW n \in 1 .. MaxSignal[s], ReleaseSemaphore(t, s, n)
      PROVE  SemaphoreCounts'
  <2>1. MaxSignal[s] \in Nat
    BY CountAssumption
  <2>2. n \in Nat
    BY <2>1
  <2>3. s \in Semaphores
    BY <1>1 DEF ReleaseSemaphore
  <2> QED
    BY <1>1, <2>1, <2>2, <2>3 DEF ReleaseSemaphore, SemaphoreCounts
<1>2. CASE SemaphoreDone(t)
  <2> PICK i \in ready[t], o \in Objects :
        /\ At(t, i, o, "sem")
        /\ \/ /\ sigCount[o] > 0 /\ tokens[o] > 0
              /\ Read(t, i, o)
              /\ sigCount' = [sigCount EXCEPT ![o] = @ - 1]
           \/ UNCHANGED <<tokens, sigCount>>
    BY <1>2 DEF SemaphoreDone
  <2> o \in Semaphores
    BY DEF At, Semaphores, OfKind
  <2>1. CASE UNCHANGED <<tokens, sigCount>>
    BY <1>q, <2>1
  <2>2. CASE /\ sigCount[o] > 0 /\ tokens[o] > 0
             /\ Read(t, i, o)
             /\ sigCount' = [sigCount EXCEPT ![o] = @ - 1]
    <3> SUFFICES ASSUME NEW s \in Semaphores
                 PROVE  sigCount'[s] = tokens'[s] /\ tokens'[s] <= MaxSignal[s]
      BY DEF SemaphoreCounts
    <3> /\ sigCount[s] = tokens[s] /\ tokens[s] <= MaxSignal[s]
        /\ tokens[s] \in Nat /\ MaxSignal[s] \in Nat
      BY CountAssumption DEF SemaphoreCounts
    <3> QED
      BY <2>2 DEF Read
  <2> QED
    BY <2>1, <2>2
<1>3. CASE ResetRead(t)
  <2> PICK e \in Events : call[t].hs = <<e>>
    BY <1>3 DEF ResetRead, Targets
  <2> call[t].hs[1] = e
    OBVIOUS
  <2> QED
    BY <1>3, <1>q DEF ResetRead
<1>4. CASE DrainEvent(t)
  BY <1>4, <1>q DEF DrainEvent, At, Read, Semaphores, OfKind
<1>5. CASE MutexDone(t)
  BY <1>5, <1>q DEF MutexDone, At, Read, Semaphores, OfKind
<1>6. ASSUME NEW o \in Objects, SetEvent(t, o) \/ ResetEvent(t, o) \/ ReleaseMutex(t, o)
      PROVE  SemaphoreCounts'
  <2>1. CASE SetEvent(t, o)
    BY <2>1, <1>q DEF SetEvent
  <2>2. CASE ResetEvent(t, o)
    BY <2>2, <1>q DEF ResetEvent, object
  <2>3. CASE ReleaseMutex(t, o)
    BY <2>3, <1>q DEF ReleaseMutex
  <2> QED
    BY <1>6, <2>1, <2>2, <2>3
<1>7. CASE Begin(t)
  BY <1>7, <1>1, <1>6, <1>q
     DEF Begin, WaitForSingleObject, WaitForMultipleObjects, BeginWait, object
<1> QED
  BY <1>2, <1>3, <1>4, <1>5, <1>7, <1>q
     DEF Step, ReleaseMutexClear, Select, SelectTimeout, ToWaitDone, ManualDone, EventDone,
         MutexOwner, WaitReturn, object

-----------------------------------------------------------------------------
LEMMA NextIInv == IInv /\ [Next]_vars => IInv'
<1> SUFFICES ASSUME IInv, [Next]_vars PROVE IInv'
  OBVIOUS
<1>1. ASSUME NEW t \in Threads, Begin(t) \/ Step(t) PROVE IInv'
  <2>1. TypeOK'
    <3>1. ObjectType' /\ WaitType'
      BY <1>1, ObjectTypeStep, WaitTypeStep DEF IInv, MutexInv
    <3> QED
      BY <3>1 DEF TypeOK, ObjectType, WaitType
  <2>2. MutexInv' /\ SemaphoreCounts' /\ LoopPaid'
    BY <1>1, MutexStep, SemaphoreStep, LoopStep DEF IInv, MutexInv
  <2> QED
    BY <2>1, <2>2 DEF IInv
<1>2. CASE UNCHANGED vars
  BY <1>2 DEF vars, IInv, TypeOK, MutexInv, MutexExclusion, Targets, OwnerHolds, Clearing,
     Acquiring, First, SemaphoreCounts, LoopPaid, InLoop, Passed, Fresh, Pending, IsObject,
     Handle, Indexes
<1> QED
  BY <1>1, <1>2 DEF Next

LEMMA Invariance == Spec => []IInv
  BY InitIInv, NextIInv, PTL DEF Spec

\* A returning wait has passed every ready object, the reported ones included.
LEMMA PassedIsPaid == IInv => GrantPaid
<1> SUFFICES ASSUME IInv, NEW t \in Threads, pc[t] = "done", Pending(t) = {},
                    NEW i \in result[t], IsObject(t, i), Kind[Handle(t, i)] # "manual"
             PROVE  i \in took[t]
  BY DEF GrantPaid
<1>1. Passed(t)
  BY DEF IInv, LoopPaid, InLoop
<1>2. i \in ready[t] /\ i \in Nat /\ ix[t] \in Nat
  BY <1>1 DEF Passed, IInv, TypeOK
<1>3. i < ix[t]
  BY <1>2 DEF Pending
<1> QED
  BY <1>1, <1>2, <1>3 DEF Passed

\* Every state of the objects and of the waits on them is well typed: no pipe
\* is read when it is empty (readSignal) and states[] stays within the handles.
THEOREM TypeCorrect == Spec => []TypeOK
  BY Invariance, PTL DEF IInv

\* However waits retry, time out and take several objects, a mutex has one
\* holder or one byte in its pipe (ReleaseMutex, MutexOp::onWaitDone).
THEOREM MutualExclusion == Spec => []MutexExclusion
  BY Invariance, PTL DEF IInv, MutexInv

\* The count of a semaphore is the number of bytes in its pipe and at most
\* lMaximumCount (ReleaseSemaphore, SemaphoreOp::onWaitDone).
THEOREM SemaphoresCount == Spec => []SemaphoreCounts
  BY Invariance, PTL DEF IInv

\* A wait that reports an object has read a byte of it since its last select
\* (WaitForSingleObject, WaitForMultipleObjects).
THEOREM GrantsArePaid == Spec => []GrantPaid
<1>1. IInv => GrantPaid
  BY PassedIsPaid
<1> QED
  BY Invariance, <1>1, PTL
=============================================================================
