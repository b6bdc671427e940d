--------------------------- MODULE MCSyncObjects ---------------------------
(***************************************************************************)
(* An instance of SyncObjects with one object of each kind: a manual-reset *)
(* event, an auto-reset event, a semaphore and a mutex.                    *)
(***************************************************************************)
EXTENDS SyncObjects, TLC

CONSTANTS t1, t2, evt, auto, sem, mtx

MCKind == evt :> "manual" @@ auto :> "auto" @@ sem :> "sem" @@ mtx :> "mutex"
MCInitial == [o \in {evt, auto, sem, mtx} |-> IF o = sem THEN 1 ELSE 0]
MCMaxSignal == [o \in {evt, auto, sem, mtx} |-> IF o = sem THEN 2 ELSE 0]
MCWaits == {<<mtx, Invalid, auto>>}
=============================================================================
