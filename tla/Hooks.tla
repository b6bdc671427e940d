-------------------------------- MODULE Hooks --------------------------------
(***************************************************************************)
(* Hook chains (src/src/hook.cpp): SetWindowsHookEx, UnhookWindowsHookEx,  *)
(* CallHook and CallNextHookEx, of one kind of hook.                       *)
(*                                                                         *)
(* The chain owns a reference of each of its hooks and a call of a hook    *)
(* another; s_mutex guards the chain and is never held while application   *)
(* code runs.  A hook of another thread is called by a message to the      *)
(* clipboard owner's window.  The sender keeps that window locked while it *)
(* waits (SendMessage), so the message is dispatched after the sender has  *)
(* given up: the callback of another thread has no reference.              *)
(***************************************************************************)
EXTENDS Naturals, Sequences, FiniteSets, SequencesExt

CONSTANTS
  Threads,
  Handles,     \* HHOOKs
  None,
  MaxDepth,    \* bound: hook calls a thread nests
  MaxPosted    \* bound: UM_CALLHOOK messages in a queue

ASSUME NoneAssumption == None \notin Threads \cup Handles
ASSUME BoundsAssumption == MaxDepth \in Nat /\ MaxPosted \in Nat

VARIABLES
  chain,    \* s_hooks[id]
  refs,     \* hook::refs, 0 when it is deleted
  tid,      \* hook::tid
  conns,    \* threads with a connection
  posted,   \* UM_CALLHOOK messages in a thread's queue
  stack,    \* the hook calls a thread is nested in
  older     \* history: the pairs of a hook and one that existed when it was set

vars == <<chain, refs, tid, conns, posted, stack, older>>

Init ==
  /\ chain = << >>
  /\ refs = [h \in Handles |-> 0]
  /\ tid = [h \in Handles |-> None]
  /\ conns = Threads
  /\ posted = [t \in Threads |-> << >>]
  /\ stack = [t \in Threads |-> << >>]
  /\ older = {}

-----------------------------------------------------------------------------
(***************************************************************************)
(* A frame is a call_hook ("enter", then "proc" when it runs the procedure *)
(* or "sent" when it waits for another thread) or the callback of another  *)
(* thread's message ("remote").                                            *)
(***************************************************************************)
Frame(h, at, via) == [hook |-> h, at |-> at, via |-> via, to |-> None]
Busy(t) == stack[t] # << >>
Top(t) == Last(stack[t])
TopIs(t, at) == Busy(t) /\ Top(t).at \in at
Push(t, f) == Len(stack[t]) < MaxDepth /\ stack' = [stack EXCEPT ![t] = Append(@, f)]
Pop(t) == stack' = [stack EXCEPT ![t] = Front(@)]
SetTop(t, f) == stack' = [stack EXCEPT ![t] = Append(Front(@), f)]

\* The thread runs application code: its own, or a hook procedure.
Code(t) == Busy(t) => Top(t).at \in {"proc", "remote"}

Frames == UNION {{<<t, i>> : i \in DOMAIN stack[t]} : t \in Threads}
At(p) == stack[p[1]][p[2]]

\* hook_release and hook_acquire of some hooks.
Release(h) == refs' = [refs EXCEPT ![h] = @ - 1]
Acquire(h) == refs' = [refs EXCEPT ![h] = @ + 1]

-----------------------------------------------------------------------------
Mentioned(h) ==
  \/ \E p \in Frames : At(p).hook = h
  \/ \E t \in Threads : Contains(posted[t], h)

\* The history when h is set: every hook that exists is older.
SetNow(h) ==
  {p \in older : h \notin {p[1], p[2]}} \cup {<<h, g>> : g \in {k \in Handles : refs[k] > 0}}

\* Mutant: a new hook is put at the end of its chain.
SetWindowsHookLast(t, h, d) ==
  /\ Code(t) /\ refs[h] = 0 /\ ~Mentioned(h)
  /\ chain' = Append(chain, h)
  /\ older' = SetNow(h)
  /\ refs' = [refs EXCEPT ![h] = 1]
  /\ tid' = [tid EXCEPT ![h] = d]
  /\ UNCHANGED <<conns, posted, stack>>

\* A handle value is used again when nothing mentions it any more.
SetWindowsHook(t, h, d) ==
  /\ Code(t) /\ refs[h] = 0 /\ ~Mentioned(h)
  /\ chain' = <<h>> \o chain
  /\ older' = SetNow(h)
  /\ refs' = [refs EXCEPT ![h] = 1]
  /\ tid' = [tid EXCEPT ![h] = d]
  /\ UNCHANGED <<conns, posted, stack>>

\* A handle that is not in a chain is refused without looking into it.
Unhook(t, h) ==
  /\ Code(t)
  /\ \E i \in DOMAIN chain : chain[i] = h /\ chain' = RemoveAt(chain, i)
  /\ Release(h)
  /\ UNCHANGED <<older, tid, conns, posted, stack>>

-----------------------------------------------------------------------------
(***************************************************************************)
(* get_first_hook, get_next_hook and call_hook.                            *)
(***************************************************************************)
\* From the message functions, which have a connection.
CallHook(t) ==
  /\ Code(t) /\ t \in conns /\ chain # << >>
  /\ Acquire(Head(chain))
  /\ Push(t, Frame(Head(chain), "enter", "first"))
  /\ UNCHANGED <<chain, older, tid, conns, posted>>

\* The hook after h in the chain; none when h was unhooked.
Follows(h, g) == \E i \in 1..(Len(chain) - 1) : chain[i] = h /\ chain[i + 1] = g
HasNext(h) == \E g \in Handles : Follows(h, g)

\* Mutant: the next hook is returned without a reference.
CallNextHookUnreferenced(t) ==
  /\ TopIs(t, {"proc", "remote"})
  /\ \E g \in Handles : Follows(Top(t).hook, g) /\ Push(t, Frame(g, "enter", "next"))
  /\ UNCHANGED <<chain, refs, older, tid, conns, posted>>

\* A procedure passes the event on with its own handle.
CallNextHook(t) ==
  /\ TopIs(t, {"proc", "remote"})
  /\ \E g \in Handles : /\ Follows(Top(t).hook, g)
                        /\ Acquire(g)
                        /\ Push(t, Frame(g, "enter", "next"))
  /\ UNCHANGED <<chain, older, tid, conns, posted>>

\* The hook's thread calls the procedure itself.
CallProc(t) ==
  /\ TopIs(t, {"enter"}) /\ tid[Top(t).hook] = t
  /\ SetTop(t, [Top(t) EXCEPT !.at = "proc"])
  /\ UNCHANGED <<chain, refs, older, tid, conns, posted>>

\* Mutant: it is the same hook again.
CallSkipRetries(t) ==
  /\ TopIs(t, {"enter"}) /\ tid[Top(t).hook] \notin conns \cup {t}
  /\ UNCHANGED vars

\* The hook's thread is gone: on to the next hook.
CallSkip(t) ==
  LET h == Top(t).hook IN
  /\ TopIs(t, {"enter"}) /\ tid[h] \notin conns \cup {t}
  /\ IF HasNext(h)
     THEN \E g \in Handles : /\ Follows(h, g)
                             /\ SetTop(t, [Top(t) EXCEPT !.hook = g])
                             /\ refs' = [refs EXCEPT ![g] = @ + 1, ![h] = @ - 1]
     ELSE Pop(t) /\ refs' = [refs EXCEPT ![h] = @ - 1]
  /\ UNCHANGED <<chain, older, tid, conns, posted>>

\* Threads that wait with the clipboard window of d locked.
Held(d) == \E p \in Frames : At(p).at = "sent" /\ At(p).to = d

\* SendMessageTimeout to the window of the clipboard's owner, whatever thread d
\* it belongs to; nobody here answers when it is not a window of this process.
CallSend(t, d) ==
  /\ TopIs(t, {"enter"}) /\ tid[Top(t).hook] \in conns \ {t}
  /\ d # t
  /\ IF d = None THEN UNCHANGED posted
     ELSE /\ d \in conns /\ ~Held(d) /\ Len(posted[d]) < MaxPosted
          /\ posted' = [posted EXCEPT ![d] = Append(@, Top(t).hook)]
  /\ SetTop(t, [Top(t) EXCEPT !.at = "sent", !.to = d])
  /\ UNCHANGED <<chain, refs, older, tid, conns>>

\* The wait of 2 s is over, or WM_QUIT ended it.
SendEnd(t) ==
  /\ TopIs(t, {"sent"})
  /\ Release(Top(t).hook)
  /\ Pop(t)
  /\ UNCHANGED <<chain, older, tid, conns, posted>>

\* DispatchMessage of UM_CALLHOOK, from a message loop or a sender's wait.
Dispatch(t) ==
  /\ Code(t) \/ TopIs(t, {"sent"})
  /\ posted[t] # << >> /\ ~Held(t)
  /\ Push(t, Frame(Head(posted[t]), "remote", "first"))
  /\ posted' = [posted EXCEPT ![t] = Tail(@)]
  /\ UNCHANGED <<chain, refs, older, tid, conns>>

\* The procedure returns, to call_hook or to DispatchMessage.
ProcReturn(t) ==
  /\ TopIs(t, {"proc", "remote"})
  /\ IF Top(t).at = "proc" THEN Release(Top(t).hook) ELSE UNCHANGED refs
  /\ Pop(t)
  /\ UNCHANGED <<chain, older, tid, conns, posted>>

\* A thread ends, and its connection with it; its hooks stay.
ThreadEnd(t) ==
  /\ ~Busy(t) /\ t \in conns
  /\ conns' = conns \ {t}
  /\ posted' = [posted EXCEPT ![t] = << >>]
  /\ UNCHANGED <<chain, refs, older, tid, stack>>

\* It comes back, or another one with its id.
ThreadStart(t) ==
  /\ ~Busy(t) /\ t \notin conns
  /\ conns' = conns \cup {t}
  /\ UNCHANGED <<chain, refs, older, tid, posted, stack>>

Enter(t) == CallProc(t) \/ CallSkip(t) \/ \E d \in Threads \cup {None} : CallSend(t, d)

Next == \E t \in Threads :
  \/ \E h \in Handles : Unhook(t, h) \/ \E d \in Threads : SetWindowsHook(t, h, d)
  \/ CallHook(t) \/ CallNextHook(t) \/ Enter(t)
  \/ SendEnd(t) \/ Dispatch(t) \/ ProcReturn(t)
  \/ ThreadEnd(t) \/ ThreadStart(t)

\* Threads run, procedures return and waits end, at every depth of the stack,
\* whatever they call or dispatch before: SF.
Fairness ==
  \A t \in Threads : \A n \in 1..MaxDepth :
    /\ WF_vars(Len(stack[t]) = n /\ Enter(t))
    /\ SF_vars(Len(stack[t]) = n /\ (SendEnd(t) \/ ProcReturn(t)))

Spec == Init /\ [][Next]_vars /\ Fairness

-----------------------------------------------------------------------------
FrameSet == [hook : Handles, at : {"enter", "proc", "sent", "remote"},
             via : {"first", "next"}, to : Threads \cup {None}]

TypeOK ==
  /\ chain \in Seq(Handles)
  /\ refs \in [Handles -> Nat]
  /\ tid \in [Handles -> Threads \cup {None}]
  /\ conns \subseteq Threads
  /\ posted \in [Threads -> Seq(Handles)]
  /\ stack \in [Threads -> Seq(FrameSet)]
  /\ older \subseteq Handles \X Handles

(***************************************************************************)
(* A hook has one reference for its place in the chain and one for every   *)
(* call_hook of it, on every path through call_hook: it is deleted by the  *)
(* last of them, and neither before nor never.  The types hold.            *)
(***************************************************************************)
RefsExact ==
  /\ TypeOK
  /\ \A h \in Handles :
       refs[h] = (IF Contains(chain, h) THEN 1 ELSE 0)
                 + Cardinality({p \in Frames : At(p).hook = h /\ At(p).at # "remote"})

\* g is older than h: it existed when h was set.
Older(h, g) == <<h, g>> \in older

\* The call j of a thread has its event from the call i, by CallNextHookEx.
Passed(t, i, j) == i < j /\ \A k \in (i + 1)..j : stack[t][k].via = "next"

(***************************************************************************)
(* CallNextHookEx passes an event only to hooks older than all it came     *)
(* through, whatever is set, unhooked or skipped while the event is on its *)
(* way: no event comes to a hook twice in the calls of a thread.           *)
(***************************************************************************)
EventGoesDown ==
  \A t \in Threads : \A i, j \in DOMAIN stack[t] :
    Passed(t, i, j) => /\ Older(stack[t][i].hook, stack[t][j].hook)
                       /\ stack[t][i].hook # stack[t][j].hook

(***************************************************************************)
(* A hook that is unhooked while it is called is deleted in the end, when  *)
(* the callbacks in flight return or their callers give up.                *)
(***************************************************************************)
UnhookedIsFreed ==
  \A h \in Handles : ~Contains(chain, h) /\ refs[h] > 0 ~> refs[h] = 0
=============================================================================
