------------------------------ MODULE FileLock ------------------------------
(***************************************************************************)
(* TSemRwLock of the desktop platforms (src/src/sharedmem.h): the lock     *)
(* between processes that protects the global handle table, the shared     *)
(* memory segments and every named kernel object.  Inside a process the    *)
(* threads are serialised by a FlockGateState per lock file, shared by all *)
(* lock objects of that file; between processes a POSIX record lock        *)
(* (fcntl F_SETLKW) on the whole lock file is held while a thread of the   *)
(* process is inside.                                                      *)
(*                                                                         *)
(* A record lock belongs to the process, not to the descriptor: closing    *)
(* any descriptor of the file drops it, a dying process loses it, and the  *)
(* kernel refuses a wait that would close a cycle of waiting processes.    *)
(***************************************************************************)
EXTENDS Naturals, FiniteSets

CONSTANTS
  Procs,        \* processes
  Threads,      \* threads of all processes
  Objects,      \* TSemRwLock objects of all processes
  Paths,        \* lock files
  ProcOf,       \* the process of a thread
  Holder,       \* the process an object lives in
  PathOf,       \* the lock file of an object
  None,         \* no thread, no object
  MaxCrashes    \* bound: crashes in a behaviour

ASSUME ProcOfAssumption == ProcOf \in [Threads -> Procs]
ASSUME HolderAssumption == Holder \in [Objects -> Procs]
ASSUME PathOfAssumption == PathOf \in [Objects -> Paths]
ASSUME NoneAssumption == None \notin Threads /\ None \notin Objects
ASSUME CrashAssumption == MaxCrashes \in Nat
ASSUME ObjectsAssumption == IsFiniteSet(Objects)

VARIABLES
  obj,       \* lifetime of a lock object
  refs,      \* FlockGateState::refs, 0 when FlockGateTable has no entry
  gate,      \* the thread that owns FlockGateState::gate
  holders,   \* FlockGateState::holders
  record,    \* the record lock a process has on a file, as the kernel sees it
  pc,        \* what a thread is doing
  using,     \* the lock object a thread is inside of
  mode,      \* the kind of lock it asked for
  crashes

vars == <<obj, refs, gate, holders, record, pc, using, mode, crashes>>

\* There is one gate per process and lock file.
Gates == Procs \X Paths
GateOf(o) == <<Holder[o], PathOf[o]>>
GateAt(t) == GateOf(using[t])

Init ==
  /\ obj = [o \in Objects |-> "none"]
  /\ refs = [g \in Gates |-> 0]
  /\ gate = [g \in Gates |-> None]
  /\ holders = [g \in Gates |-> 0]
  /\ record = [g \in Gates |-> "unlocked"]
  /\ pc = [t \in Threads |-> "out"]
  /\ using = [t \in Threads |-> None]
  /\ mode = [t \in Threads |-> "shared"]
  /\ crashes = 0

-----------------------------------------------------------------------------
(***************************************************************************)
(* The kernel's record locks.                                              *)
(***************************************************************************)
\* Process q's lock on file f keeps p from a lock of kind m.
Blocks(q, p, f, m) ==
  /\ q # p
  /\ IF m = "shared" THEN record[<<q, f>>] = "exclusive"
                     ELSE record[<<q, f>>] # "unlocked"

Grantable(p, f, m) == \A q \in Procs : ~Blocks(q, p, f, m)

\* Some thread of p waits in F_SETLKW for a lock of q.
WaitsFor(p, q) ==
  \E t \in Threads :
    /\ pc[t] = "fcntl" /\ ProcOf[t] = p
    /\ Blocks(q, p, PathOf[using[t]], mode[t])

\* Waiting for f would close a cycle of waiting processes: EDEADLK.
ClosesCycle(p, f, m) ==
  \E q \in Procs :
    /\ Blocks(q, p, f, m)
    /\ \A S \in SUBSET Procs :
         q \in S /\ (\A a \in S, b \in Procs : WaitsFor(a, b) => b \in S) => p \in S

-----------------------------------------------------------------------------
(***************************************************************************)
(* Life of a lock object.                                                  *)
(***************************************************************************)
\* init: open the lock file, then take a reference on its gate.
Open(o) ==
  /\ obj[o] = "none"
  /\ obj' = [obj EXCEPT ![o] = "opened"]
  /\ UNCHANGED <<refs, gate, holders, record, pc, using, mode, crashes>>

\* Mutant: an entry already in the table is handed out without a reference.
GateAcquireNoRef(o) ==
  /\ obj[o] = "opened"
  /\ obj' = [obj EXCEPT ![o] = "ready"]
  /\ refs' = [refs EXCEPT ![GateOf(o)] = 1]
  /\ UNCHANGED <<gate, holders, record, pc, using, mode, crashes>>

GateAcquire(o) ==
  /\ obj[o] = "opened"
  /\ obj' = [obj EXCEPT ![o] = "ready"]
  /\ refs' = [refs EXCEPT ![GateOf(o)] = refs[GateOf(o)] + 1]
  /\ UNCHANGED <<gate, holders, record, pc, using, mode, crashes>>

\* Mutant: the gate is released by the destructor and by an earlier call.
GateReleaseTwice(o) ==
  /\ obj[o] = "ready"
  /\ \A t \in Threads : using[t] # o
  /\ obj' = [obj EXCEPT ![o] = "released"]
  /\ refs' = [refs EXCEPT ![GateOf(o)] = refs[GateOf(o)] - 2]
  /\ UNCHANGED <<gate, holders, record, pc, using, mode, crashes>>

\* The destructor: callers destroy an object no thread is inside of.
GateRelease(o) ==
  /\ obj[o] = "ready"
  /\ \A t \in Threads : using[t] # o
  /\ obj' = [obj EXCEPT ![o] = "released"]
  /\ refs' = [refs EXCEPT ![GateOf(o)] = refs[GateOf(o)] - 1]
  /\ UNCHANGED <<gate, holders, record, pc, using, mode, crashes>>

Close(o) ==
  /\ obj[o] = "released"
  /\ obj' = [obj EXCEPT ![o] = "none"]
  /\ record' = [record EXCEPT ![GateOf(o)] = "unlocked"]
  /\ UNCHANGED <<refs, gate, holders, pc, using, mode, crashes>>

-----------------------------------------------------------------------------
(***************************************************************************)
(* lockShared, lockExclusive and their unlocks.  opMutex is held by the    *)
(* thread whose pc is "fcntl"; the other uses of it are single steps.      *)
(***************************************************************************)
OpMutexFree(g) == \A t \in Threads : pc[t] = "fcntl" => GateAt(t) # g

\* Mutant: the threads of a process are not serialised.
LockGateOpen(t, o, m) ==
  /\ pc[t] = "out"
  /\ obj[o] = "ready" /\ Holder[o] = ProcOf[t]
  /\ gate' = [gate EXCEPT ![GateOf(o)] = t]
  /\ pc' = [pc EXCEPT ![t] = "gated"]
  /\ using' = [using EXCEPT ![t] = o]
  /\ mode' = [mode EXCEPT ![t] = m]
  /\ UNCHANGED <<obj, refs, holders, record, crashes>>

LockGate(t, o, m) ==
  /\ pc[t] = "out"
  /\ obj[o] = "ready" /\ Holder[o] = ProcOf[t]
  /\ gate[GateOf(o)] = None
  /\ gate' = [gate EXCEPT ![GateOf(o)] = t]
  /\ pc' = [pc EXCEPT ![t] = "gated"]
  /\ using' = [using EXCEPT ![t] = o]
  /\ mode' = [mode EXCEPT ![t] = m]
  /\ UNCHANGED <<obj, refs, holders, record, crashes>>

\* The first holder goes on to lock the file.
CountIn(t) ==
  /\ pc[t] = "gated"
  /\ OpMutexFree(GateAt(t))
  /\ holders' = [holders EXCEPT ![GateAt(t)] = holders[GateAt(t)] + 1]
  /\ pc' = [pc EXCEPT ![t] = IF holders[GateAt(t)] = 0 THEN "fcntl" ELSE "inside"]
  /\ UNCHANGED <<obj, refs, gate, record, using, mode, crashes>>

\* Mutant: every lock is taken as a read lock.
SetFileLockShared(t) ==
  /\ pc[t] = "fcntl"
  /\ Grantable(ProcOf[t], PathOf[using[t]], "shared")
  /\ record' = [record EXCEPT ![GateAt(t)] = "shared"]
  /\ pc' = [pc EXCEPT ![t] = "inside"]
  /\ UNCHANGED <<obj, refs, gate, holders, using, mode, crashes>>

SetFileLock(t) ==
  /\ pc[t] = "fcntl"
  /\ Grantable(ProcOf[t], PathOf[using[t]], mode[t])
  /\ record' = [record EXCEPT ![GateAt(t)] = mode[t]]
  /\ pc' = [pc EXCEPT ![t] = "inside"]
  /\ UNCHANGED <<obj, refs, gate, holders, using, mode, crashes>>

\* F_SETLKW fails with EDEADLK: perror, and the caller goes on.
SetFileLockFails(t) ==
  /\ pc[t] = "fcntl"
  /\ ClosesCycle(ProcOf[t], PathOf[using[t]], mode[t])
  /\ pc' = [pc EXCEPT ![t] = "inside"]
  /\ UNCHANGED <<obj, refs, gate, holders, record, using, mode, crashes>>

\* Mutant: the last holder forgets F_UNLCK.
CountOutKeepsLock(t) ==
  /\ pc[t] = "inside"
  /\ OpMutexFree(GateAt(t))
  /\ holders' = [holders EXCEPT ![GateAt(t)] = holders[GateAt(t)] - 1]
  /\ pc' = [pc EXCEPT ![t] = "leaving"]
  /\ UNCHANGED <<obj, refs, gate, record, using, mode, crashes>>

\* The last holder unlocks the file.
CountOut(t) ==
  /\ pc[t] = "inside"
  /\ OpMutexFree(GateAt(t))
  /\ holders' = [holders EXCEPT ![GateAt(t)] = holders[GateAt(t)] - 1]
  /\ record' = [record EXCEPT ![GateAt(t)] =
                  IF holders[GateAt(t)] = 1 THEN "unlocked" ELSE @]
  /\ pc' = [pc EXCEPT ![t] = "leaving"]
  /\ UNCHANGED <<obj, refs, gate, using, mode, crashes>>

UnlockGate(t) ==
  /\ pc[t] = "leaving"
  /\ gate' = [gate EXCEPT ![GateAt(t)] = None]
  /\ pc' = [pc EXCEPT ![t] = "out"]
  /\ using' = [using EXCEPT ![t] = None]
  /\ UNCHANGED <<obj, refs, holders, record, mode, crashes>>

-----------------------------------------------------------------------------
\* Mutant: the lock of a dead process stays, as a System V semaphore's would.
CrashKeepsLock(p) ==
  /\ crashes < MaxCrashes
  /\ crashes' = crashes + 1
  /\ obj' = [o \in Objects |-> IF Holder[o] = p THEN "none" ELSE obj[o]]
  /\ refs' = [g \in Gates |-> IF g[1] = p THEN 0 ELSE refs[g]]
  /\ gate' = [g \in Gates |-> IF g[1] = p THEN None ELSE gate[g]]
  /\ holders' = [g \in Gates |-> IF g[1] = p THEN 0 ELSE holders[g]]
  /\ pc' = [t \in Threads |-> IF ProcOf[t] = p THEN "out" ELSE pc[t]]
  /\ using' = [t \in Threads |-> IF ProcOf[t] = p THEN None ELSE using[t]]
  /\ UNCHANGED <<record, mode>>

\* The process dies anywhere and is started again: its memory is gone, and
\* the kernel has dropped its record locks.
Crash(p) ==
  /\ crashes < MaxCrashes
  /\ crashes' = crashes + 1
  /\ obj' = [o \in Objects |-> IF Holder[o] = p THEN "none" ELSE obj[o]]
  /\ refs' = [g \in Gates |-> IF g[1] = p THEN 0 ELSE refs[g]]
  /\ gate' = [g \in Gates |-> IF g[1] = p THEN None ELSE gate[g]]
  /\ holders' = [g \in Gates |-> IF g[1] = p THEN 0 ELSE holders[g]]
  /\ record' = [g \in Gates |-> IF g[1] = p THEN "unlocked" ELSE record[g]]
  /\ pc' = [t \in Threads |-> IF ProcOf[t] = p THEN "out" ELSE pc[t]]
  /\ using' = [t \in Threads |-> IF ProcOf[t] = p THEN None ELSE using[t]]
  /\ UNCHANGED mode

ObjectStep(o) == Open(o) \/ GateAcquire(o) \/ GateRelease(o) \/ Close(o)

\* A thread inside a lock or unlock call, or inside the critical section.
Proceed(t) ==
  \/ CountIn(t) \/ SetFileLock(t) \/ SetFileLockFails(t)
  \/ CountOut(t) \/ UnlockGate(t)

ThreadStep(t) ==
  \/ \E o \in Objects, m \in {"shared", "exclusive"} : LockGate(t, o, m)
  \/ Proceed(t)

Next ==
  \/ \E o \in Objects : ObjectStep(o)
  \/ \E t \in Threads : ThreadStep(t)
  \/ \E p \in Procs : Crash(p)

\* Threads keep running, critical sections end; locking is up to the callers.
Fairness == \A t \in Threads : WF_vars(Proceed(t))

Spec == Init /\ [][Next]_vars /\ Fairness

-----------------------------------------------------------------------------
TypeOK ==
  /\ obj \in [Objects -> {"none", "opened", "ready", "released"}]
  /\ refs \in [Gates -> Nat]
  /\ gate \in [Gates -> Threads \cup {None}]
  /\ holders \in [Gates -> Nat]
  /\ record \in [Gates -> {"unlocked", "shared", "exclusive"}]
  /\ pc \in [Threads -> {"out", "gated", "fcntl", "inside", "leaving"}]
  /\ using \in [Threads -> Objects \cup {None}]
  /\ mode \in [Threads -> {"shared", "exclusive"}]
  /\ crashes \in Nat

Inside(t, f) == pc[t] = "inside" /\ PathOf[using[t]] = f

\* Two threads inside the lock of one file that should not be there together.
Conflict(t, u, f) ==
  /\ t # u
  /\ Inside(t, f) /\ Inside(u, f)
  /\ \/ ProcOf[t] = ProcOf[u]
     \/ mode[t] = "exclusive"
     \/ mode[u] = "exclusive"

(***************************************************************************)
(* The part of mutual exclusion that survives a closed descriptor and a    *)
(* refused wait: threads of one process always exclude each other, and     *)
(* threads of two processes do unless the record lock of one of them was   *)
(* lost while it was inside.                                               *)
(***************************************************************************)
GuardedExclusion ==
  \A t, u \in Threads, f \in Paths :
    Conflict(t, u, f) =>
      /\ ProcOf[t] # ProcOf[u]
      /\ record[<<ProcOf[t], f>>] = "unlocked" \/ record[<<ProcOf[u], f>>] = "unlocked"

(***************************************************************************)
(* A record lock is held only while a thread of the process is inside: no  *)
(* order of unlocks, closes and crashes leaves a lock behind that would    *)
(* block the other processes.                                              *)
(***************************************************************************)
NoStrayLock ==
  \A g \in Gates :
    record[g] # "unlocked" => \E t \in Threads : pc[t] = "inside" /\ GateAt(t) = g

(***************************************************************************)
(* FlockGateTable deletes a gate only when no thread is using it, whatever *)
(* lock objects of the same file come and go.                              *)
(***************************************************************************)
GateAlive ==
  \A t \in Threads : pc[t] # "out" => refs[GateAt(t)] > 0

Held == [t \in Threads |-> [f \in Paths |-> IF Inside(t, f) THEN mode[t] ELSE "none"]]
Promise == INSTANCE RwLock WITH held <- Held

(***************************************************************************)
(* The lock of a file implements the lock its users rely on, readers and   *)
(* writers, dying processes and the end of every critical section          *)
(* included: where a process has one lock object of the file and the       *)
(* kernel refuses no wait.                                                 *)
(***************************************************************************)
ImplementsRwLock == Promise!Spec

(***************************************************************************)
(* A thread waiting for the file lock does not wait for nobody: it gets    *)
(* in, or somebody else does, even when the holder dies.                   *)
(***************************************************************************)
Progress ==
  \A f \in Paths :
    (\E t \in Threads : pc[t] = "fcntl" /\ PathOf[using[t]] = f)
      ~> (\E t \in Threads : Inside(t, f))
         \/ ~ \E t \in Threads : pc[t] = "fcntl" /\ PathOf[using[t]] = f
=============================================================================
