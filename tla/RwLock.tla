------------------------------- MODULE RwLock -------------------------------
(***************************************************************************)
(* What TSemRwLock promises its users: locks between processes, one per    *)
(* lock file, that are shared by readers of different processes, exclusive *)
(* otherwise, given back by everyone who gets them, and by a process that  *)
(* dies.                                                                   *)
(***************************************************************************)
CONSTANTS Procs, Threads, Paths, ProcOf

VARIABLE held   \* how a thread holds the lock of a file

Init == held = [t \in Threads |-> [f \in Paths |-> "none"]]

Compatible(t, f, m, u) ==
  \/ held[u][f] = "none"
  \/ ProcOf[t] # ProcOf[u] /\ m = "shared" /\ held[u][f] = "shared"

Acquire(t, f, m) ==
  /\ held[t][f] = "none"
  /\ \A u \in Threads \ {t} : Compatible(t, f, m, u)
  /\ held' = [held EXCEPT ![t][f] = m]

Release(t, f) ==
  /\ held[t][f] # "none"
  /\ held' = [held EXCEPT ![t][f] = "none"]

Die(p) ==
  held' = [t \in Threads |-> IF ProcOf[t] = p THEN [f \in Paths |-> "none"] ELSE held[t]]

Next ==
  \/ \E t \in Threads, f \in Paths :
       Release(t, f) \/ \E m \in {"shared", "exclusive"} : Acquire(t, f, m)
  \/ \E p \in Procs : Die(p)

Spec == Init /\ [][Next]_held /\ \A t \in Threads, f \in Paths : WF_held(Release(t, f))
=============================================================================
