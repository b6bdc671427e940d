-------------------------- MODULE RegisteredWaits ---------------------------
(***************************************************************************)
(* RegisterWaitForSingleObject and UnregisterWait                          *)
(* (src/src/platform/posix/sysobjs.cpp): a thread per registered wait that *)
(* waits for the object and calls back, and a WaitItem that UnregisterWait *)
(* deletes, from the application or from any callback.  The names of the   *)
(* specification start with Waits, so that CallbackProofs can extend it    *)
(* together with Hooks.                                                    *)
(***************************************************************************)
EXTENDS Naturals, FiniteSets

CONSTANTS
  Apps,       \* threads of the application
  Waits,      \* registered waits; the worker of a wait is named like it
  Objects,    \* auto-reset events
  ObjectOf,   \* the object of a wait
  NoWait      \* the argument of no call

Callers == Apps \cup Waits

ASSUME WaitsAssumption == Apps \cap Waits = {} /\ NoWait \notin Waits
ASSUME ObjectAssumption == ObjectOf \in [Waits -> Objects]

VARIABLES
  signal,   \* the signalled objects
  item,     \* a WaitItem: "none", "live", "joined" while it is being destroyed by
            \* a thread that joins the worker, "freed", "torn" when its own
            \* callback has deleted it
  flags,    \* "once", and "timed" when the wait is not INFINITE
  assigned, \* the items whose field worker holds the thread
  worker,   \* RunWaitItem
  call,     \* the call a thread is in
  arg       \* and its wait

waitsVars == <<signal, item, flags, assigned, worker, call, arg>>

WaitsInit ==
  /\ signal = {}
  /\ item = [w \in Waits |-> "none"]
  /\ flags = [w \in Waits |-> {}]
  /\ assigned = {}
  /\ worker = [w \in Waits |-> "end"]
  /\ call = [c \in Callers |-> "none"]
  /\ arg = [c \in Callers |-> NoWait]

\* A worker calls the API from its callback.
Ready(c) == call[c] = "none" /\ (c \in Waits => worker[c] = "call")

SetEvent(o) ==
  /\ signal' = signal \cup {o}
  /\ UNCHANGED <<item, flags, assigned, worker, call, arg>>

-----------------------------------------------------------------------------
\* The handle is published and the thread runs before item->worker has it.
Register(c, w, f) ==
  /\ c \in Apps /\ Ready(c)
  /\ item[w] \in {"none", "freed", "torn"} /\ worker[w] = "end"
  /\ \A d \in Callers : arg[d] # w
  /\ item' = [item EXCEPT ![w] = "live"]
  /\ flags' = [flags EXCEPT ![w] = f]
  /\ worker' = [worker EXCEPT ![w] = "top"]
  /\ call' = [call EXCEPT ![c] = "assign"]
  /\ arg' = [arg EXCEPT ![c] = w]
  /\ UNCHANGED <<signal, assigned>>

Return(c) == call' = [call EXCEPT ![c] = "none"] /\ arg' = [arg EXCEPT ![c] = NoWait]

Assign(c) ==
  /\ call[c] = "assign"
  /\ assigned' = IF item[arg[c]] = "live" THEN assigned \cup {arg[c]} ELSE assigned
  /\ Return(c)
  /\ UNCHANGED <<signal, item, flags, worker>>

-----------------------------------------------------------------------------
(***************************************************************************)
(* RunWaitItem.  What it reads from an item its callback has deleted is    *)
(* anything.                                                               *)
(***************************************************************************)
Move(w, l) == worker' = [worker EXCEPT ![w] = l]
Garbage(w) == item[w] = "torn"

\* Mutant: stop is not looked at.
TestStopNever(w) ==
  /\ worker[w] = "top"
  /\ Move(w, "wait")
  /\ UNCHANGED <<signal, item, flags, assigned, call, arg>>

\* Is stop set?
TestStop(w) ==
  /\ worker[w] = "top"
  /\ \/ (item[w] = "joined" \/ Garbage(w)) /\ Move(w, "end")
     \/ (item[w] = "live" \/ Garbage(w)) /\ Move(w, "wait")
  /\ UNCHANGED <<signal, item, flags, assigned, call, arg>>

\* The object is signalled, or the wait times out: call back.
WaitReturns(w) ==
  /\ worker[w] = "wait"
  /\ \/ ObjectOf[w] \in signal /\ signal' = signal \ {ObjectOf[w]}
     \/ ("timed" \in flags[w] \/ Garbage(w)) /\ UNCHANGED signal
  /\ Move(w, "call")
  /\ UNCHANGED <<item, flags, assigned, call, arg>>

\* WAIT_ABANDONED, or the object's handle has become invalid: no callback.
WaitFails(w) ==
  /\ worker[w] = "wait"
  /\ Move(w, "end")
  /\ UNCHANGED <<signal, item, flags, assigned, call, arg>>

CallbackReturns(w) ==
  /\ worker[w] = "call" /\ call[w] = "none"
  /\ \/ ("once" \in flags[w] \/ Garbage(w)) /\ Move(w, "end")
     \/ ("once" \notin flags[w] \/ Garbage(w)) /\ Move(w, "top")
  /\ UNCHANGED <<signal, item, flags, assigned, call, arg>>

RunWaitItem(w) ==
  TestStop(w) \/ WaitReturns(w) \/ WaitFails(w) \/ CallbackReturns(w)

-----------------------------------------------------------------------------
(***************************************************************************)
(* UnregisterWaitEx: CloseHandle and DestroyWaitItem.                      *)
(***************************************************************************)
\* A thread other than the worker sets stop and joins it.  The application
\* knows the handle when RegisterWaitForSingleObject has returned.
Unregister(c, w) ==
  /\ Ready(c) /\ c # w
  /\ item[w] = "live" /\ w \in assigned
  /\ item' = [item EXCEPT ![w] = "joined"]
  /\ call' = [call EXCEPT ![c] = "join"]
  /\ arg' = [arg EXCEPT ![c] = w]
  /\ UNCHANGED <<signal, flags, assigned, worker>>

Delete(w, l) ==
  /\ item' = [item EXCEPT ![w] = l]
  /\ flags' = [flags EXCEPT ![w] = {}]
  /\ assigned' = assigned \ {w}

\* The callback of w unregisters w: it cannot join itself and deletes the item
\* it is running on.
UnregisterSelf(w) ==
  /\ Ready(w) /\ item[w] = "live"
  /\ Delete(w, "torn")
  /\ UNCHANGED <<signal, worker, call, arg>>

\* Mutant: the item is deleted without waiting for the worker.
JoinNever(c) ==
  /\ call[c] = "join"
  /\ Delete(arg[c], "freed")
  /\ Return(c)
  /\ UNCHANGED <<signal, worker>>

\* The worker has ended: the item is deleted and the completion event set.
Join(c) ==
  /\ call[c] = "join" /\ worker[arg[c]] = "end"
  /\ Delete(arg[c], "freed")
  /\ Return(c)
  /\ UNCHANGED <<signal, worker>>

-----------------------------------------------------------------------------
CallStep(c) == Assign(c) \/ Join(c)

WaitsNext ==
  \/ \E o \in Objects : SetEvent(o)
  \/ \E c \in Callers, w \in Waits :
       \/ \E f \in SUBSET {"once", "timed"} : Register(c, w, f)
       \/ Unregister(c, w)
  \/ \E c \in Callers : CallStep(c)
  \/ \E w \in Waits : RunWaitItem(w) \/ UnregisterSelf(w)

\* Threads run, and a callback returns however many calls it makes: between two
\* of them it can, hence SF.  Nothing makes the application signal an object or
\* a wait fail, and a wait that shares its object may see every signal taken.
WaitsFairness ==
  /\ \A c \in Callers : WF_waitsVars(CallStep(c))
  /\ \A w \in Waits : /\ WF_waitsVars(TestStop(w) \/ WaitReturns(w))
                      /\ SF_waitsVars(CallbackReturns(w))

WaitsSpec == WaitsInit /\ [][WaitsNext]_waitsVars /\ WaitsFairness

-----------------------------------------------------------------------------
WaitsTypeOK ==
  /\ signal \subseteq Objects
  /\ item \in [Waits -> {"none", "live", "joined", "freed", "torn"}]
  /\ flags \in [Waits -> SUBSET {"once", "timed"}]
  /\ assigned \subseteq Waits
  /\ worker \in [Waits -> {"top", "wait", "call", "end"}]
  /\ call \in [Callers -> {"none", "assign", "join"}]
  /\ arg \in [Callers -> Waits \cup {NoWait}]
  /\ \A c \in Callers : (call[c] = "none") <=> (arg[c] = NoWait)
  /\ \A w \in Waits :
       item[w] = "joined" => \E c \in Callers : call[c] = "join" /\ arg[c] = w

(***************************************************************************)
(* A WaitItem is deleted, and the completion event set, after the last use *)
(* of it: no callback runs and no thread reads the item any more, unless   *)
(* the wait was unregistered by its own callback.  The types hold.         *)
(***************************************************************************)
ItemOutlivesWorker ==
  /\ WaitsTypeOK
  /\ \A w \in Waits :
       item[w] = "freed" => /\ worker[w] = "end"
                            /\ \A c \in Callers : arg[c] # w

\* WaitForSingleObject with INFINITE.
EndlessWait(w) == worker[w] = "wait" /\ "timed" \notin flags[w]

\* The worker's callback waits in a call of its own.
CallbackJoins(w) == worker[w] = "call" /\ call[w] = "join"

(***************************************************************************)
(* UnregisterWait returns: a call that never does is joining a worker      *)
(* that stays in an endless wait, or one whose callback stays in an        *)
(* UnregisterWait of another wait, which may be the caller's.              *)
(***************************************************************************)
UnregisterReturns ==
  \A w \in Waits :
    <>[](item[w] = "joined") => <>[](EndlessWait(w) \/ CallbackJoins(w))
=============================================================================
