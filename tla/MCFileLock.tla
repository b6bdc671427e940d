----------------------------- MODULE MCFileLock -----------------------------
(***************************************************************************)
(* Instances of FileLock.  p1 and p2 are processes, a* threads of p1, b*   *)
(* threads of p2, f and g lock files.                                      *)
(***************************************************************************)
EXTENDS FileLock, TLC

CONSTANTS p1, p2, a1, a2, b1, b2, x1, y1, f1, f2

\* Every process has two threads.
TwoThreads == a1 :> p1 @@ a2 :> p1 @@ b1 :> p2 @@ b2 :> p2

\* One lock file, and one object of it in every process.
OneHandleHolder == x1 :> p1 @@ y1 :> p2
OneHandlePathOf == x1 :> f1 @@ y1 :> f1

\* Two lock files, an object for each in both processes, and a second one of
\* the first file in p1.
TwoFilesObjects == {"p1f1", "p1f1b", "p1f2", "p2f1", "p2f2"}
TwoFilesHolder == [o \in TwoFilesObjects |-> IF o \in {"p2f1", "p2f2"} THEN p2 ELSE p1]
TwoFilesPathOf == [o \in TwoFilesObjects |-> IF o \in {"p1f2", "p2f2"} THEN f2 ELSE f1]

\* The two threads of a process are interchangeable.
ThreadSymmetry == Permutations({a1, a2}) \cup Permutations({b1, b2})
=============================================================================
