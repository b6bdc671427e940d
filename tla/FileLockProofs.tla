---------------------------- MODULE FileLockProofs ----------------------------
(***************************************************************************)
(* For any processes, threads, lock objects and lock files, with any       *)
(* number of crashes, closes and refused waits: the types, the exclusion   *)
(* the gate and the record lock guarantee together, the absence of stray   *)
(* record locks and the lifetime of the gates.                             *)
(*                                                                         *)
(* The invariant ties the three layers to each other: the owner of a gate  *)
(* is the only thread of its process between lock and unlock of that file, *)
(* the holder count is a function of that thread's statement, and a record *)
(* lock belongs to a gate whose owner is inside in the same mode.          *)
(***************************************************************************)
EXTENDS FileLock, FiniteSetTheorems, TLAPS

Ready(g) == {o \in Objects : obj[o] = "ready" /\ GateOf(o) = g}

\* A thread past its gate uses a live object of its process, and owns the gate.
Entered ==
  \A t \in Threads : pc[t] # "out" =>
    /\ using[t] \in Objects
    /\ Holder[using[t]] = ProcOf[t]
    /\ obj[using[t]] = "ready"
    /\ gate[GateAt(t)] = t

Owned ==
  \A g \in Gates : gate[g] # None =>
    /\ pc[gate[g]] # "out"
    /\ GateAt(gate[g]) = g

Counted ==
  /\ \A g \in Gates : gate[g] = None => holders[g] = 0
  /\ \A t \in Threads : pc[t] \in {"gated", "leaving"} => holders[GateAt(t)] = 0
  /\ \A t \in Threads : pc[t] \in {"fcntl", "inside"} => holders[GateAt(t)] = 1

Locked ==
  \A g \in Gates : record[g] # "unlocked" =>
    /\ gate[g] # None
    /\ pc[gate[g]] = "inside"
    /\ mode[gate[g]] = record[g]

Compatible ==
  \A p, q \in Procs, f \in Paths :
    p # q /\ record[<<p, f>>] = "exclusive" => record[<<q, f>>] = "unlocked"

Referenced == \A g \in Gates : refs[g] = Cardinality(Ready(g))

IInv ==
  /\ TypeOK
  /\ Entered
  /\ Owned
  /\ Counted
  /\ Locked
  /\ Compatible
  /\ Referenced

-----------------------------------------------------------------------------
\* The gate of an object is one of the gates of its process.
LEMMA GateOfType ==
  ASSUME NEW o \in Objects
  PROVE  /\ GateOf(o) \in Gates
         /\ GateOf(o)[1] = Holder[o]
         /\ GateOf(o)[2] = PathOf[o]
  BY HolderAssumption, PathOfAssumption DEF GateOf, Gates

LEMMA GateParts ==
  ASSUME NEW g \in Gates
  PROVE  g[1] \in Procs /\ g[2] \in Paths /\ g = <<g[1], g[2]>>
  BY DEF Gates

\* Two threads past their gates are at different gates.
LEMMA Alone ==
  ASSUME IInv, NEW t \in Threads, NEW u \in Threads, t # u,
         pc[t] # "out", pc[u] # "out"
  PROVE  GateAt(t) # GateAt(u)
  BY DEF IInv, Entered

LEMMA ReadyFinite ==
  ASSUME NEW g
  PROVE  IsFiniteSet(Ready(g)) /\ Cardinality(Ready(g)) \in Nat
<1>1. Ready(g) \in SUBSET Objects
  BY DEF Ready
<1>2. IsFiniteSet(Ready(g))
  BY <1>1, FS_Subset, ObjectsAssumption
<1> QED
  BY <1>2, FS_CardinalityType

LEMMA InitIInv == Init => IInv
<1> SUFFICES ASSUME Init PROVE IInv
  OBVIOUS
<1>1. TypeOK
  BY CrashAssumption DEF Init, TypeOK
<1>2. Entered /\ Owned /\ Counted /\ Locked
  BY <1>1 DEF Init, Entered, Owned, Counted, Locked, TypeOK
<1>3. Compatible
  BY DEF Init, Compatible, Gates
<1>4. Referenced
  <2> SUFFICES ASSUME NEW g \in Gates PROVE refs[g] = Cardinality(Ready(g))
    BY DEF Referenced
  <2>1. Ready(g) = {}
    BY DEF Init, Ready
  <2>2. refs[g] = 0
    BY DEF Init
  <2> QED
    BY <2>1, <2>2, FS_EmptySet
<1> QED
  BY <1>1, <1>2, <1>3, <1>4 DEF IInv

-----------------------------------------------------------------------------
\* Steps of lock objects leave the threads alone.
LEMMA OpenStep == ASSUME IInv, NEW o \in Objects, Open(o) PROVE IInv'
<1> USE DEF IInv, Open
<1>1. TypeOK'
  BY DEF TypeOK
<1>2. Entered'
  BY DEF Entered, TypeOK, GateAt
<1>3. Owned' /\ Counted' /\ Locked' /\ Compatible'
  BY DEF Owned, Counted, Locked, Compatible, GateAt
<1>4. Referenced'
  <2> SUFFICES ASSUME NEW g \in Gates PROVE refs[g] = Cardinality(Ready(g)')
    BY DEF Referenced
  <2>1. Ready(g)' = Ready(g)
    BY DEF Ready, TypeOK
  <2> QED
    BY <2>1 DEF Referenced
<1> QED
  BY <1>1, <1>2, <1>3, <1>4

LEMMA GateAcquireStep == ASSUME IInv, NEW o \in Objects, GateAcquire(o) PROVE IInv'
<1> USE DEF IInv, GateAcquire
<1>1. TypeOK'
  BY GateOfType DEF TypeOK
<1>2. Entered'
  BY DEF Entered, TypeOK, GateAt
<1>3. Owned' /\ Counted' /\ Locked' /\ Compatible'
  BY DEF Owned, Counted, Locked, Compatible, GateAt
<1>4. Referenced'
  <2> SUFFICES ASSUME NEW g \in Gates PROVE refs'[g] = Cardinality(Ready(g)')
    BY DEF Referenced
  <2>1. CASE g = GateOf(o)
    <3>1. Ready(g)' = Ready(g) \cup {o} /\ o \notin Ready(g)
      BY <2>1 DEF Ready, TypeOK
    <3>2. Cardinality(Ready(g) \cup {o}) = Cardinality(Ready(g)) + 1
      BY <3>1, FS_AddElement, ReadyFinite
    <3> QED
      BY <2>1, <3>1, <3>2 DEF Referenced, TypeOK
  <2>2. CASE g # GateOf(o)
    <3>1. Ready(g)' = Ready(g)
      BY <2>2 DEF Ready, TypeOK
    <3> QED
      BY <2>2, <3>1 DEF Referenced, TypeOK
  <2> QED
    BY <2>1, <2>2
<1> QED
  BY <1>1, <1>2, <1>3, <1>4

LEMMA GateReleaseStep == ASSUME IInv, NEW o \in Objects, GateRelease(o) PROVE IInv'
<1> USE DEF IInv, GateRelease
<1>1. refs[GateOf(o)] > 0 /\ refs[GateOf(o)] \in Nat
  <2>1. o \in Ready(GateOf(o))
    BY DEF Ready
  <2>2. Cardinality(Ready(GateOf(o))) # 0
    BY <2>1, ReadyFinite, FS_EmptySet
  <2> QED
    BY <2>2, ReadyFinite, GateOfType DEF Referenced
<1>2. TypeOK'
  BY <1>1, GateOfType DEF TypeOK
<1>3. Entered'
  BY DEF Entered, TypeOK, GateAt
<1>4. Owned' /\ Counted' /\ Locked' /\ Compatible'
  BY DEF Owned, Counted, Locked, Compatible, GateAt
<1>5. Referenced'
  <2> SUFFICES ASSUME NEW g \in Gates PROVE refs'[g] = Cardinality(Ready(g)')
    BY DEF Referenced
  <2>1. CASE g = GateOf(o)
    <3>1. Ready(g)' = Ready(g) \ {o} /\ o \in Ready(g)
      BY <2>1 DEF Ready, TypeOK
    <3>2. Cardinality(Ready(g) \ {o}) = Cardinality(Ready(g)) - 1
      BY <3>1, FS_RemoveElement, ReadyFinite
    <3> QED
      BY <2>1, <3>1, <3>2 DEF Referenced, TypeOK
  <2>2. CASE g # GateOf(o)
    <3>1. Ready(g)' = Ready(g)
      BY <2>2 DEF Ready, TypeOK
    <3> QED
      BY <2>2, <3>1 DEF Referenced, TypeOK
  <2> QED
    BY <2>1, <2>2
<1> QED
  BY <1>2, <1>3, <1>4, <1>5

LEMMA CloseStep == ASSUME IInv, NEW o \in Objects, Close(o) PROVE IInv'
<1> USE DEF IInv, Close
<1>1. TypeOK'
  BY GateOfType DEF TypeOK
<1>2. Entered'
  BY DEF Entered, TypeOK, GateAt
<1>3. Owned' /\ Counted'
  BY DEF Owned, Counted, GateAt
<1>4. Locked'
  BY GateOfType DEF Locked, TypeOK
<1>5. Compatible'
  BY GateOfType DEF Compatible, TypeOK, Gates
<1>6. Referenced'
  <2> SUFFICES ASSUME NEW g \in Gates PROVE refs[g] = Cardinality(Ready(g)')
    BY DEF Referenced
  <2>1. Ready(g)' = Ready(g)
    BY DEF Ready, TypeOK
  <2> QED
    BY <2>1 DEF Referenced
<1> QED
  BY <1>1, <1>2, <1>3, <1>4, <1>5, <1>6

-----------------------------------------------------------------------------
\* Steps of threads leave the objects and their references alone.
LEMMA ReferencedKept ==
  ASSUME Referenced, UNCHANGED <<obj, refs>> PROVE Referenced'
  BY DEF Referenced, Ready

LEMMA LockGateStep ==
  ASSUME IInv, NEW t \in Threads, NEW o \in Objects,
         NEW m \in {"shared", "exclusive"}, LockGate(t, o, m)
  PROVE  IInv'
<1> DEFINE g0 == GateOf(o)
<1> USE DEF IInv, LockGate
<1>1. g0 \in Gates /\ t # None
  BY GateOfType, NoneAssumption
<1>2. TypeOK'
  BY <1>1 DEF TypeOK
<1>3. /\ pc'[t] = "gated" /\ using'[t] = o /\ gate'[g0] = t
      /\ GateAt(t)' = g0
      /\ \A u \in Threads : u # t =>
           pc'[u] = pc[u] /\ using'[u] = using[u] /\ mode'[u] = mode[u] /\ GateAt(u)' = GateAt(u)
      /\ \A g \in Gates : g # g0 => gate'[g] = gate[g]
  BY <1>1 DEF TypeOK, GateAt
<1>4. \A u \in Threads : u # t /\ pc[u] # "out" => GateAt(u) # g0 /\ GateAt(u) \in Gates
  BY GateOfType, NoneAssumption DEF Entered, GateAt
<1>5. \A g \in Gates : gate[g] # t
  BY NoneAssumption DEF Owned
<1>6. Entered'
  BY <1>3, <1>4 DEF Entered
<1>7. Owned'
  BY <1>3, <1>5 DEF Owned, TypeOK
<1>8. Counted'
  BY <1>1, <1>3 DEF Counted
<1>9. Locked'
  BY <1>1, <1>3, <1>5 DEF Locked, TypeOK
<1>10. Compatible'
  BY DEF Compatible
<1> QED
  BY <1>2, <1>6, <1>7, <1>8, <1>9, <1>10, ReferencedKept

\* A step of the thread that owns gate g0, by which it stays past the gate.
LEMMA OwnerStep ==
  ASSUME IInv, TypeOK', NEW t \in Threads, pc[t] # "out", pc'[t] # "out",
         UNCHANGED <<obj, refs, gate, using, mode>>,
         \A u \in Threads : u # t => pc'[u] = pc[u],
         \A g \in Gates : g # GateAt(t) => holders'[g] = holders[g],
         pc'[t] \in {"gated", "leaving"} => holders'[GateAt(t)] = 0,
         pc'[t] \in {"fcntl", "inside"} => holders'[GateAt(t)] = 1
  PROVE  Entered' /\ Owned' /\ Counted' /\ Referenced'
<1> USE DEF IInv
<1>1. \A u \in Threads : GateAt(u)' = GateAt(u)
  BY DEF GateAt
<1>2. Entered'
  BY <1>1 DEF Entered
<1>3. Owned'
  BY <1>1 DEF Owned, TypeOK
<1>4. \A u \in Threads : pc[u] # "out" => GateAt(u) \in Gates
  BY GateOfType DEF Entered, GateAt
<1>5. \A u \in Threads : u # t /\ pc[u] # "out" => holders'[GateAt(u)] = holders[GateAt(u)]
  BY <1>4, Alone
<1>6. gate[GateAt(t)] # None
  BY NoneAssumption DEF Entered
<1>7. Counted'
  <2>1. \A g \in Gates : gate'[g] = None => holders'[g] = 0
    BY <1>6 DEF Counted
  <2>2. \A u \in Threads : pc'[u] \in {"gated", "leaving"} => holders'[GateAt(u)'] = 0
    BY <1>1, <1>5 DEF Counted
  <2>3. \A u \in Threads : pc'[u] \in {"fcntl", "inside"} => holders'[GateAt(u)'] = 1
    BY <1>1, <1>5 DEF Counted
  <2> QED
    BY <2>1, <2>2, <2>3 DEF Counted
<1> QED
  BY <1>2, <1>3, <1>7, ReferencedKept

LEMMA CountInStep == ASSUME IInv, NEW t \in Threads, CountIn(t) PROVE IInv'
<1> USE DEF IInv, CountIn
<1>1. GateAt(t) \in Gates
  BY GateOfType DEF Entered, GateAt
<1>2. holders[GateAt(t)] = 0
  BY DEF Counted
<1>3. TypeOK'
  BY <1>1 DEF TypeOK
<1>4. pc'[t] = "fcntl" /\ holders'[GateAt(t)] = 1
  BY <1>1, <1>2 DEF TypeOK
<1>5. /\ \A u \in Threads : u # t => pc'[u] = pc[u]
      /\ \A g \in Gates : g # GateAt(t) => holders'[g] = holders[g]
  BY <1>1 DEF TypeOK
<1>6. Entered' /\ Owned' /\ Counted' /\ Referenced'
  BY <1>3, <1>4, <1>5, OwnerStep
<1>7. Locked'
  <2>1. pc[t] # "inside"
    OBVIOUS
  <2> QED
    BY <1>5, <2>1 DEF Locked, TypeOK
<1>8. Compatible'
  BY DEF Compatible
<1> QED
  BY <1>3, <1>6, <1>7, <1>8

LEMMA SetFileLockStep == ASSUME IInv, NEW t \in Threads, SetFileLock(t) PROVE IInv'
<1> USE DEF IInv, SetFileLock
<1>1. GateAt(t) \in Gates /\ gate[GateAt(t)] = t /\ using[t] \in Objects
      /\ GateAt(t) = <<ProcOf[t], PathOf[using[t]]>>
  BY GateOfType DEF Entered, GateAt, GateOf
<1>2. holders[GateAt(t)] = 1
  BY DEF Counted
<1>3. TypeOK'
  BY <1>1 DEF TypeOK
<1>4. /\ pc'[t] = "inside" /\ record'[GateAt(t)] = mode[t]
      /\ \A u \in Threads : u # t => pc'[u] = pc[u]
      /\ \A g \in Gates : g # GateAt(t) => record'[g] = record[g]
  BY <1>1 DEF TypeOK
<1>5. Entered' /\ Owned' /\ Counted' /\ Referenced'
  BY <1>2, <1>3, <1>4, OwnerStep
<1>6. Locked'
  BY <1>1, <1>4, NoneAssumption DEF Locked, TypeOK
<1>7. Compatible'
  <2> SUFFICES ASSUME NEW p \in Procs, NEW q \in Procs, NEW f \in Paths,
                      p # q, record'[<<p, f>>] = "exclusive"
               PROVE  record'[<<q, f>>] = "unlocked"
    BY DEF Compatible
  <2>1. <<p, f>> \in Gates /\ <<q, f>> \in Gates
    BY DEF Gates
  <2>2. CASE <<p, f>> = GateAt(t)
    <3>1. ProcOf[t] = p /\ PathOf[using[t]] = f /\ mode[t] = "exclusive"
      BY <1>1, <1>4, <2>2
    <3>2. record[<<q, f>>] = "unlocked"
      BY <3>1 DEF Grantable, Blocks
    <3> QED
      BY <1>4, <2>1, <2>2, <3>2
  <2>3. CASE <<q, f>> = GateAt(t)
    <3>1. ProcOf[t] = q /\ PathOf[using[t]] = f /\ record[<<p, f>>] = "exclusive"
      BY <1>1, <1>4, <2>1, <2>3
    <3>2. Blocks(p, q, f, mode[t])
      BY <3>1 DEF Blocks, TypeOK
    <3> QED
      BY <3>1, <3>2 DEF Grantable
  <2>4. CASE <<p, f>> # GateAt(t) /\ <<q, f>> # GateAt(t)
    BY <1>4, <2>1, <2>4 DEF Compatible
  <2> QED
    BY <2>2, <2>3, <2>4
<1> QED
  BY <1>3, <1>5, <1>6, <1>7

LEMMA SetFileLockFailsStep ==
  ASSUME IInv, NEW t \in Threads, SetFileLockFails(t) PROVE IInv'
<1> USE DEF IInv, SetFileLockFails
<1>1. holders[GateAt(t)] = 1
  BY DEF Counted
<1>2. TypeOK'
  BY DEF TypeOK
<1>3. pc'[t] = "inside" /\ \A u \in Threads : u # t => pc'[u] = pc[u]
  BY DEF TypeOK
<1>4. Entered' /\ Owned' /\ Counted' /\ Referenced'
  BY <1>1, <1>2, <1>3, OwnerStep
<1>5. Locked'
  BY <1>3 DEF Locked, TypeOK
<1>6. Compatible'
  BY DEF Compatible
<1> QED
  BY <1>2, <1>4, <1>5, <1>6

LEMMA CountOutStep == ASSUME IInv, NEW t \in Threads, CountOut(t) PROVE IInv'
<1> USE DEF IInv, CountOut
<1>1. GateAt(t) \in Gates /\ gate[GateAt(t)] = t
  BY GateOfType DEF Entered, GateAt
<1>2. holders[GateAt(t)] = 1
  BY DEF Counted
<1>3. TypeOK'
  BY <1>1, <1>2 DEF TypeOK
<1>4. /\ pc'[t] = "leaving" /\ holders'[GateAt(t)] = 0 /\ record'[GateAt(t)] = "unlocked"
      /\ \A u \in Threads : u # t => pc'[u] = pc[u]
      /\ \A g \in Gates : g # GateAt(t) => holders'[g] = holders[g] /\ record'[g] = record[g]
  BY <1>1, <1>2 DEF TypeOK
<1>5. Entered' /\ Owned' /\ Counted' /\ Referenced'
  BY <1>3, <1>4, OwnerStep
<1>6. \A g \in Gates : g # GateAt(t) => gate[g] # t
  BY NoneAssumption DEF Owned
<1>7. Locked'
  BY <1>1, <1>4, <1>6 DEF Locked, TypeOK
<1>8. Compatible'
  <2>1. \A p \in Procs, f \in Paths : <<p, f>> \in Gates
    BY DEF Gates
  <2> QED
    BY <1>4, <2>1 DEF Compatible
<1> QED
  BY <1>3, <1>5, <1>7, <1>8

LEMMA UnlockGateStep == ASSUME IInv, NEW t \in Threads, UnlockGate(t) PROVE IInv'
<1> USE DEF IInv, UnlockGate
<1>1. GateAt(t) \in Gates /\ gate[GateAt(t)] = t
  BY GateOfType DEF Entered, GateAt
<1>2. TypeOK'
  BY <1>1 DEF TypeOK
<1>3. /\ pc'[t] = "out" /\ gate'[GateAt(t)] = None
      /\ \A u \in Threads : u # t =>
           pc'[u] = pc[u] /\ using'[u] = using[u] /\ GateAt(u)' = GateAt(u)
      /\ \A g \in Gates : g # GateAt(t) => gate'[g] = gate[g] /\ gate[g] # t
  BY <1>1, NoneAssumption DEF TypeOK, GateAt, Owned
<1>4. \A u \in Threads : u # t /\ pc[u] # "out" => GateAt(u) # GateAt(t) /\ GateAt(u) \in Gates
  BY GateOfType DEF Entered, GateAt
<1>5. Entered'
  BY <1>3, <1>4 DEF Entered
<1>6. Owned'
  BY <1>3 DEF Owned, TypeOK
<1>7. Counted'
  BY <1>3 DEF Counted
<1>8. Locked'
  BY <1>1, <1>3 DEF Locked, TypeOK
<1>9. Compatible'
  BY DEF Compatible
<1> QED
  BY <1>2, <1>5, <1>6, <1>7, <1>8, <1>9, ReferencedKept

\* A crash takes everything of its process, and nothing of the others.
LEMMA CrashStep == ASSUME IInv, NEW p \in Procs, Crash(p) PROVE IInv'
<1> USE DEF IInv, Crash
<1>1. TypeOK'
  BY DEF TypeOK
<1>2. \A t \in Threads :
        /\ ProcOf[t] = p => pc'[t] = "out"
        /\ ProcOf[t] # p => pc'[t] = pc[t] /\ using'[t] = using[t] /\ GateAt(t)' = GateAt(t)
  BY DEF TypeOK, GateAt
<1>3. \A g \in Gates :
        /\ g[1] = p => gate'[g] = None /\ holders'[g] = 0 /\ record'[g] = "unlocked"
        /\ g[1] # p => gate'[g] = gate[g] /\ holders'[g] = holders[g] /\ record'[g] = record[g]
  OBVIOUS
<1>4. \A t \in Threads : pc[t] # "out" =>
        GateAt(t) \in Gates /\ GateAt(t)[1] = ProcOf[t]
  BY GateOfType DEF Entered, GateAt
<1>5. \A g \in Gates : gate[g] # None => gate[g] \in Threads /\ ProcOf[gate[g]] = g[1]
  BY <1>4 DEF Owned, TypeOK
<1>6. Entered'
  BY <1>2, <1>3, <1>4 DEF Entered
<1>7. Owned'
  BY <1>2, <1>3, <1>5 DEF Owned
<1>8. Counted'
  BY <1>2, <1>3, <1>4 DEF Counted
<1>9. Locked'
  BY <1>2, <1>3, <1>5 DEF Locked
<1>10. Compatible'
  <2>1. \A q \in Procs, f \in Paths : <<q, f>> \in Gates /\ <<q, f>>[1] = q
    BY DEF Gates
  <2> QED
    BY <1>3, <2>1 DEF Compatible
<1>11. Referenced'
  <2> SUFFICES ASSUME NEW g \in Gates PROVE refs'[g] = Cardinality(Ready(g)')
    BY DEF Referenced
  <2>1. CASE g[1] = p
    <3>1. Ready(g)' = {}
      BY <2>1, GateOfType DEF Ready
    <3> QED
      BY <2>1, <3>1, FS_EmptySet
  <2>2. CASE g[1] # p
    <3>1. Ready(g)' = Ready(g)
      BY <2>2, GateOfType DEF Ready
    <3> QED
      BY <2>2, <3>1 DEF Referenced
  <2> QED
    BY <2>1, <2>2
<1> QED
  BY <1>1, <1>6, <1>7, <1>8, <1>9, <1>10, <1>11

LEMMA NextIInv == IInv /\ [Next]_vars => IInv'
<1> SUFFICES ASSUME IInv, [Next]_vars PROVE IInv'
  OBVIOUS
<1>1. CASE UNCHANGED vars
  <2>1. TypeOK' /\ Entered' /\ Owned' /\ Counted' /\ Locked' /\ Compatible'
    BY <1>1 DEF vars, IInv, TypeOK, Entered, Owned, Counted, Locked, Compatible, GateAt
  <2>2. Referenced'
    BY <1>1, ReferencedKept DEF vars, IInv
  <2> QED
    BY <2>1, <2>2 DEF IInv
<1>2. ASSUME NEW o \in Objects, ObjectStep(o) PROVE IInv'
  BY <1>2, OpenStep, GateAcquireStep, GateReleaseStep, CloseStep DEF ObjectStep
<1>3. ASSUME NEW t \in Threads, ThreadStep(t) PROVE IInv'
  BY <1>3, LockGateStep, CountInStep, SetFileLockStep, SetFileLockFailsStep,
     CountOutStep, UnlockGateStep DEF ThreadStep, Proceed
<1>4. ASSUME NEW p \in Procs, Crash(p) PROVE IInv'
  BY <1>4, CrashStep
<1> QED
  BY <1>1, <1>2, <1>3, <1>4 DEF Next

LEMMA Invariant == Spec => []IInv
  BY InitIInv, NextIInv, PTL DEF Spec

-----------------------------------------------------------------------------
(***************************************************************************)
(* The counts and states of FileLock keep their types: holders and refs    *)
(* never go below zero.                                                    *)
(***************************************************************************)
THEOREM TypeCorrect == Spec => []TypeOK
<1>1. IInv => TypeOK
  BY DEF IInv
<1> QED
  BY <1>1, Invariant, PTL

(***************************************************************************)
(* lockShared/lockExclusive: threads of a process always exclude each      *)
(* other, and threads of two processes do unless one of them lost its      *)
(* record lock, to a close or to a refused wait.                           *)
(***************************************************************************)
THEOREM Exclusion == Spec => []GuardedExclusion
<1>1. IInv => GuardedExclusion
  <2> SUFFICES ASSUME IInv, NEW t \in Threads, NEW u \in Threads, NEW f \in Paths,
                      Conflict(t, u, f),
                      ~ (/\ ProcOf[t] # ProcOf[u]
                         /\ record[<<ProcOf[t], f>>] = "unlocked"
                              \/ record[<<ProcOf[u], f>>] = "unlocked")
               PROVE  FALSE
    BY DEF GuardedExclusion
  <2>1. /\ GateAt(t) = <<ProcOf[t], f>> /\ gate[GateAt(t)] = t /\ GateAt(t) \in Gates
        /\ GateAt(u) = <<ProcOf[u], f>> /\ gate[GateAt(u)] = u /\ GateAt(u) \in Gates
    BY GateOfType DEF Conflict, Inside, IInv, Entered, GateAt, GateOf
  <2>2. t # u /\ ProcOf[t] # ProcOf[u]
    BY <2>1 DEF Conflict
  <2>3. record[GateAt(t)] = mode[t] /\ record[GateAt(u)] = mode[u]
    BY <2>1, <2>2 DEF IInv, Locked
  <2>4. ProcOf[t] \in Procs /\ ProcOf[u] \in Procs
    BY ProcOfAssumption
  <2>5. mode[t] = "exclusive" \/ mode[u] = "exclusive"
    BY <2>2 DEF Conflict
  <2> QED
    BY <2>1, <2>2, <2>3, <2>4, <2>5 DEF IInv, Compatible
<1> QED
  BY <1>1, Invariant, PTL

(***************************************************************************)
(* A record lock is held only while a thread of its process is inside:     *)
(* neither unlock, destructor nor crash leaves one behind.                 *)
(***************************************************************************)
THEOREM StrayFree == Spec => []NoStrayLock
<1>1. IInv => NoStrayLock
  BY DEF IInv, NoStrayLock, Locked, Owned, TypeOK
<1> QED
  BY <1>1, Invariant, PTL

(***************************************************************************)
(* FlockGateTable::release never deletes the gate of a thread that is      *)
(* between lock and unlock: its reference count is the number of live      *)
(* objects of the file, the thread's among them.                           *)
(***************************************************************************)
THEOREM GatesLive == Spec => []GateAlive
<1>1. IInv => GateAlive
  <2> SUFFICES ASSUME IInv, NEW t \in Threads, pc[t] # "out"
               PROVE  refs[GateAt(t)] > 0
    BY DEF GateAlive
  <2>1. using[t] \in Ready(GateAt(t)) /\ GateAt(t) \in Gates
    BY GateOfType DEF IInv, Entered, Ready, GateAt
  <2>2. Cardinality(Ready(GateAt(t))) # 0
    BY <2>1, ReadyFinite, FS_EmptySet
  <2> QED
    BY <2>1, <2>2, ReadyFinite DEF IInv, Referenced
<1> QED
  BY <1>1, Invariant, PTL

-----------------------------------------------------------------------------
(***************************************************************************)
(* The refinement of RwLock, for processes with one lock object each: the  *)
(* setting ImplementsRwLock is checked in.  A second object would let a    *)
(* close drop the record lock, and a second file would let the kernel      *)
(* refuse a wait between processes that do not wait for each other.        *)
(***************************************************************************)
OneHandle == \A o, r \in Objects : Holder[o] = Holder[r] => o = r

\* Nobody inside has lost the record lock.
Kept == \A t \in Threads : pc[t] = "inside" => record[GateAt(t)] = mode[t]

\* A process whose lock blocks another one waits for nobody, so no wait
\* closes a cycle.
LEMMA NoRefusal ==
  ASSUME OneHandle, IInv, NEW t \in Threads
  PROVE  ~SetFileLockFails(t)
<1> SUFFICES ASSUME SetFileLockFails(t) PROVE FALSE
  OBVIOUS
<1> DEFINE p == ProcOf[t]
           f == PathOf[using[t]]
<1>1. PICK q \in Procs :
        /\ Blocks(q, p, f, mode[t])
        /\ \A S \in SUBSET Procs :
             q \in S /\ (\A a \in S, b \in Procs : WaitsFor(a, b) => b \in S) => p \in S
  BY DEF SetFileLockFails, ClosesCycle
<1>2. q # p /\ record[<<q, f>>] # "unlocked"
  BY <1>1 DEF Blocks
<1>3. using[t] \in Objects /\ f \in Paths /\ <<q, f>> \in Gates
  BY PathOfAssumption DEF SetFileLockFails, IInv, Entered, Gates
<1>4. PICK u \in Threads : gate[<<q, f>>] = u /\ pc[u] = "inside" /\ GateAt(u) = <<q, f>>
  BY <1>2, <1>3 DEF IInv, Locked, Owned, TypeOK
<1>5. using[u] \in Objects /\ Holder[using[u]] = q
  BY <1>4 DEF IInv, Entered, GateAt, GateOf
<1>6. \A b \in Procs : ~WaitsFor(q, b)
  <2> SUFFICES ASSUME NEW v \in Threads, pc[v] = "fcntl", ProcOf[v] = q PROVE FALSE
    BY DEF WaitsFor
  <2>1. using[v] \in Objects /\ Holder[using[v]] = q
    BY DEF IInv, Entered
  <2>2. GateAt(v) = GateAt(u)
    BY <1>5, <2>1 DEF OneHandle, GateAt
  <2> QED
    BY <1>4, <2>2, Alone
<1>7. {q} \in SUBSET Procs
  OBVIOUS
<1> QED
  BY <1>1, <1>2, <1>6, <1>7

LEMMA KeptInit == Init => Kept
  BY DEF Init, Kept

LEMMA KeptNext ==
  ASSUME OneHandle, IInv, Kept, [Next]_vars
  PROVE  Kept'
<1> USE DEF IInv
<1>1. \A u \in Threads : pc[u] # "out" =>
        GateAt(u) \in Gates /\ GateAt(u)[1] = ProcOf[u] /\ using[u] \in Objects
  BY GateOfType DEF Entered, GateAt
<1>2. ASSUME UNCHANGED <<record, pc, using, mode>> PROVE Kept'
  BY <1>2 DEF Kept, GateAt
<1>3. ASSUME NEW o \in Objects, Close(o) PROVE Kept'
  <2>1. \A u \in Threads : pc[u] = "inside" => GateAt(u) # GateOf(o)
    <3> SUFFICES ASSUME NEW u \in Threads, pc[u] = "inside", GateAt(u) = GateOf(o)
                 PROVE  FALSE
      OBVIOUS
    <3>1. using[u] = o
      BY <1>1, GateOfType DEF OneHandle, GateAt
    <3> QED
      BY <1>3, <3>1 DEF Entered, Close
  <2> QED
    BY <1>1, <1>3, <2>1 DEF Kept, Close, GateAt, TypeOK
<1>4. ASSUME NEW t \in Threads, NEW o \in Objects, NEW m \in {"shared", "exclusive"},
             LockGate(t, o, m)
      PROVE  Kept'
  BY <1>4 DEF Kept, LockGate, GateAt, TypeOK
<1>5. ASSUME NEW t \in Threads, CountIn(t) PROVE Kept'
  <2>1. holders[GateAt(t)] = 0
    BY <1>5 DEF CountIn, Counted
  <2> QED
    BY <1>5, <2>1 DEF Kept, CountIn, GateAt, TypeOK
<1>6. ASSUME NEW t \in Threads, SetFileLock(t) PROVE Kept'
  <2>1. \A u \in Threads : u # t /\ pc[u] = "inside" => GateAt(u) # GateAt(t)
    BY <1>6, Alone DEF SetFileLock
  <2>2. GateAt(t) \in Gates
    BY <1>1, <1>6 DEF SetFileLock
  <2> QED
    BY <1>1, <1>6, <2>1, <2>2 DEF Kept, SetFileLock, GateAt, TypeOK
<1>7. ASSUME NEW t \in Threads, CountOut(t) PROVE Kept'
  <2>1. \A u \in Threads : u # t /\ pc[u] = "inside" => GateAt(u) # GateAt(t)
    BY <1>7, Alone DEF CountOut
  <2>2. GateAt(t) \in Gates
    BY <1>1, <1>7 DEF CountOut
  <2> QED
    BY <1>1, <1>7, <2>1, <2>2 DEF Kept, CountOut, GateAt, TypeOK
<1>8. ASSUME NEW t \in Threads, UnlockGate(t) PROVE Kept'
  BY <1>8 DEF Kept, UnlockGate, GateAt, TypeOK
<1>9. ASSUME NEW p \in Procs, Crash(p) PROVE Kept'
  BY <1>1, <1>9 DEF Kept, Crash, GateAt, TypeOK
<1>10. ASSUME NEW o \in Objects, ObjectStep(o) PROVE Kept'
  BY <1>2, <1>3, <1>10 DEF ObjectStep, Open, GateAcquire, GateRelease
<1>11. ASSUME NEW t \in Threads, ThreadStep(t) PROVE Kept'
  BY <1>4, <1>5, <1>6, <1>7, <1>8, <1>11, NoRefusal DEF ThreadStep, Proceed
<1> QED
  BY <1>2, <1>9, <1>10, <1>11 DEF Next, vars

\* Held of a thread depends on its own state only.
LEMMA HeldValue ==
  ASSUME NEW t \in Threads, NEW f \in Paths
  PROVE  /\ Held[t][f] = IF Inside(t, f) THEN mode[t] ELSE "none"
         /\ Held'[t][f] = IF Inside(t, f)' THEN mode'[t] ELSE "none"
  BY DEF Held

LEMMA InitRefines == Init => Promise!Init
  BY DEF Init, Promise!Init, Held, Inside

\* Steps that neither enter nor leave a critical section.
LEMMA HeldKept ==
  ASSUME \A t \in Threads, f \in Paths :
           /\ Inside(t, f)' <=> Inside(t, f)
           /\ Inside(t, f) => mode'[t] = mode[t]
  PROVE  UNCHANGED Held
  BY DEF Held

LEMMA SetFileLockRefines ==
  ASSUME IInv, Kept, NEW t \in Threads, SetFileLock(t)
  PROVE  Promise!Next
<1> USE DEF IInv
<1> DEFINE f0 == PathOf[using[t]]
<1>1. using[t] \in Objects /\ f0 \in Paths /\ Holder[using[t]] = ProcOf[t]
  BY PathOfAssumption DEF SetFileLock, Entered
<1>2. /\ \A f \in Paths : Inside(t, f)' <=> f = f0
      /\ \A f \in Paths : ~Inside(t, f)
      /\ \A u \in Threads, f \in Paths : u # t => (Inside(u, f)' <=> Inside(u, f))
      /\ mode' = mode
  BY DEF SetFileLock, Inside, TypeOK
<1>3. mode[t] \in {"shared", "exclusive"}
  BY DEF TypeOK
<1>4. Held[t][f0] = "none"
  BY <1>1, <1>2 DEF Held
<1>5. ASSUME NEW u \in Threads \ {t} PROVE Promise!Compatible(t, f0, mode[t], u)
  <2>1. CASE ~Inside(u, f0)
    BY <1>1, <2>1, HeldValue DEF Promise!Compatible
  <2>2. CASE Inside(u, f0)
    <3>1. using[u] \in Objects /\ GateAt(u) = <<ProcOf[u], f0>> /\ GateAt(u) # GateAt(t)
      BY <2>2, Alone DEF Inside, Entered, GateAt, GateOf, SetFileLock
    <3>2. GateAt(t) = <<ProcOf[t], f0>>
      BY <1>1 DEF GateAt, GateOf
    <3>3. ProcOf[u] # ProcOf[t] /\ ProcOf[u] \in Procs
      BY <3>1, <3>2, ProcOfAssumption
    <3>4. record[<<ProcOf[u], f0>>] = mode[u]
      BY <2>2, <3>1 DEF Kept, Inside
    <3>5. ~Blocks(ProcOf[u], ProcOf[t], f0, mode[t])
      BY <3>3 DEF SetFileLock, Grantable
    <3>6. mode[t] = "shared" /\ mode[u] = "shared"
      BY <1>3, <3>3, <3>4, <3>5 DEF Blocks, TypeOK
    <3> QED
      BY <1>1, <2>2, <3>3, <3>6, HeldValue DEF Promise!Compatible
  <2> QED
    BY <2>1, <2>2
<1>6. Held' = [Held EXCEPT ![t][f0] = mode[t]]
  BY <1>1, <1>2 DEF Held
<1>7. Promise!Acquire(t, f0, mode[t])
  BY <1>4, <1>5, <1>6 DEF Promise!Acquire
<1> QED
  BY <1>1, <1>3, <1>7 DEF Promise!Next

LEMMA CountOutRefines ==
  ASSUME IInv, NEW t \in Threads, CountOut(t)
  PROVE  Promise!Next
<1> USE DEF IInv
<1> DEFINE f0 == PathOf[using[t]]
<1>1. using[t] \in Objects /\ f0 \in Paths
  BY PathOfAssumption DEF CountOut, Entered
<1>2. /\ \A f \in Paths : ~Inside(t, f)'
      /\ \A f \in Paths : Inside(t, f) <=> f = f0
      /\ \A u \in Threads, f \in Paths : u # t => (Inside(u, f)' <=> Inside(u, f))
      /\ mode' = mode
  BY DEF CountOut, Inside, TypeOK
<1>3. Held[t][f0] # "none"
  BY <1>1, <1>2, HeldValue DEF TypeOK
<1>4. Held' = [Held EXCEPT ![t][f0] = "none"]
  BY <1>1, <1>2 DEF Held
<1>5. Promise!Release(t, f0)
  BY <1>3, <1>4 DEF Promise!Release
<1> QED
  BY <1>1, <1>5 DEF Promise!Next

LEMMA CrashRefines ==
  ASSUME IInv, NEW p \in Procs, Crash(p)
  PROVE  Promise!Next
<1>1. \A t \in Threads, f \in Paths :
        Inside(t, f)' <=> Inside(t, f) /\ ProcOf[t] # p
  BY DEF IInv, TypeOK, Crash, Inside
<1>2. Held' = [t \in Threads |-> IF ProcOf[t] = p THEN [f \in Paths |-> "none"] ELSE Held[t]]
  BY <1>1 DEF Held, Crash
<1> QED
  BY <1>2 DEF Promise!Next, Promise!Die

LEMMA NextRefines ==
  ASSUME OneHandle, IInv, Kept, [Next]_vars
  PROVE  [Promise!Next]_Held
<1> USE DEF IInv
<1>1. ASSUME UNCHANGED <<pc, using, mode>> PROVE UNCHANGED Held
  BY <1>1, HeldKept DEF Inside
<1>2. ASSUME NEW o \in Objects, ObjectStep(o) PROVE UNCHANGED Held
  BY <1>1, <1>2 DEF ObjectStep, Open, GateAcquire, GateRelease, Close
<1>3. ASSUME NEW t \in Threads, NEW o \in Objects, NEW m \in {"shared", "exclusive"},
             LockGate(t, o, m)
      PROVE  UNCHANGED Held
  <2>1. \A u \in Threads, f \in Paths : Inside(u, f)' <=> Inside(u, f)
    BY <1>3 DEF LockGate, Inside, TypeOK
  <2>2. \A u \in Threads, f \in Paths : Inside(u, f) => mode'[u] = mode[u]
    BY <1>3 DEF LockGate, Inside, TypeOK
  <2> QED
    BY <2>1, <2>2, HeldKept
<1>4. ASSUME NEW t \in Threads, CountIn(t) PROVE UNCHANGED Held
  <2>1. holders[GateAt(t)] = 0
    BY <1>4 DEF CountIn, Counted
  <2> QED
    BY <1>4, <2>1, HeldKept DEF CountIn, Inside, TypeOK
<1>5. ASSUME NEW t \in Threads, UnlockGate(t) PROVE UNCHANGED Held
  BY <1>5, HeldKept DEF UnlockGate, Inside, TypeOK
<1>6. ASSUME NEW t \in Threads, ThreadStep(t) PROVE [Promise!Next]_Held
  BY <1>3, <1>4, <1>5, <1>6, SetFileLockRefines, CountOutRefines, NoRefusal
     DEF ThreadStep, Proceed
<1> QED
  BY <1>1, <1>2, <1>6, CrashRefines DEF Next, vars

(***************************************************************************)
(* TSemRwLock is the lock its users rely on: where every process has one   *)
(* lock object, every step of a lock, an unlock, a destructor or a crash   *)
(* is a step of RwLock or changes nothing of it.  This is the safety part  *)
(* of ImplementsRwLock, for any number of processes, threads and crashes.  *)
(***************************************************************************)
THEOREM Refinement ==
  ASSUME OneHandle
  PROVE  Spec => Promise!Init /\ [][Promise!Next]_Held
<1>1. IInv /\ Kept /\ [Next]_vars => Kept'
  BY KeptNext
<1>2. IInv /\ Kept /\ [Next]_vars => [Promise!Next]_Held
  BY NextRefines
<1> QED
  BY <1>1, <1>2, KeptInit, InitRefines, Invariant, PTL DEF Spec
=============================================================================
