----------------------------- MODULE SendMessage -----------------------------
(***************************************************************************)
(* PostMessage, SendMessage and the message pump of several UI threads     *)
(* (src/src/wnd.cpp, src/src/uimsg.h, src/src/platform/linux/              *)
(* SConnection.cpp), at the grain of the locks they take: the lock of a    *)
(* window (_Window is a CountMutex that WndMgr::fromHwnd locks) and        *)
(* m_mutex4Msg, the lock of a thread's queue.                              *)
(*                                                                         *)
(* A thread runs application code ("app") at the bottom of its stack or in *)
(* a window procedure, and the code nests: a procedure sends, the wait for *)
(* the reply pumps the thread's own queue, the pump calls procedures.      *)
(*                                                                         *)
(* The window lock is taken here for the recursive mutex it means to be,   *)
(* and every message that is peeked is dispatched; what CountMutex adds    *)
(* and a message that is peeked and thrown away are the subject of         *)
(* CountMutex and MsgQueue.                                                *)
(***************************************************************************)
EXTENDS Naturals, Sequences, FiniteSets, SequencesExt

CONSTANTS
  Threads,        \* UI threads, each with its SConnection
  Windows,
  OwnerOf,        \* the thread that created a window
  None,           \* no owner of a lock
  MaxMsgs,        \* bound: messages in a behaviour
  MaxDirect,      \* bound: sends of threads to their own windows
  MaxSendStack    \* kMaxSendMsgStack: sends a thread may nest

ASSUME OwnerOfAssumption == OwnerOf \in [Windows -> Threads]
ASSUME NoneAssumption == None \notin Threads
ASSUME FiniteAssumption == IsFiniteSet(Threads)
ASSUME BoundsAssumption == {MaxMsgs, MaxDirect, MaxSendStack} \subseteq Nat

VARIABLES
  life,      \* a window is alive, destroyed (bDestroyed) or freed (not in WndMap)
  cRef,      \* references of its _Window: of WndMap, of lookups, of WndObjs
  owner,     \* the thread that owns a window's lock
  depth,     \* how often it locked it
  qowner,    \* the thread that owns a queue's m_mutex4Msg
  queue,     \* m_msgQueue of a thread
  msgs,      \* all messages: window, whether sent, how far they came
  refs,      \* MsgReply::nRef of a message
  replied,   \* SendReply: hasResult, and its event hEvt
  stack,     \* what a thread is nested in: procedures and waits for replies
  pc,        \* what it is doing at the top of that stack
  arg,       \* the window it is about to post or send to
  touched,   \* a freed reply was accessed
  directs    \* sends of threads to their own windows

vars == <<life, cRef, owner, depth, qowner, queue, msgs, refs, replied, stack,
          pc, arg, touched, directs>>
locks == <<owner, depth, qowner>>
replies == <<refs, replied, touched>>

Ids == 1..MaxMsgs
Posted == Len(msgs)

\* The bound leaves room for the calls already under way.
Calling == {t \in Threads : pc[t] \in {"findPost", "findSend", "post", "send"}}
RoomForOne == Posted + Cardinality(Calling) < MaxMsgs

Init ==
  /\ life = [w \in Windows |-> "alive"]
  /\ cRef = [w \in Windows |-> 1]
  /\ owner = [w \in Windows |-> None]
  /\ depth = [w \in Windows |-> 0]
  /\ qowner = [t \in Threads |-> None]
  /\ queue = [t \in Threads |-> << >>]
  /\ msgs = << >>
  /\ refs = [m \in Ids |-> 0]
  /\ replied = [m \in Ids |-> [hasResult |-> FALSE, event |-> FALSE]]
  /\ stack = [t \in Threads |-> << >>]
  /\ pc = [t \in Threads |-> "app"]
  /\ arg = [t \in Threads |-> None]
  /\ touched = FALSE
  /\ directs = 0

-----------------------------------------------------------------------------
Top(t) == Last(stack[t])
Push(t, f) == stack' = [stack EXCEPT ![t] = Append(@, f)]
Pop(t) == stack' = [stack EXCEPT ![t] = Front(@)]
Waits(frames) == frames # << >> /\ Last(frames).kind = "send"

\* Where a thread is after a peek: back in the wait for a reply, or in code.
Resumed(frames) == IF Waits(frames) THEN "wait" ELSE "app"

\* msgRecusiveCount: procedures of w among the frames of its thread.
Running(w, frames) ==
  \E i \in DOMAIN frames : frames[i].kind = "proc" /\ frames[i].window = w

\* CallStackCount: the sends a thread is nested in.
SendDepth(t) == Len(SelectSeq(stack[t], LAMBDA f : f.sent))

\* The lock of a window is a recursive mutex.
CanLock(t, w) == owner[w] \in {None, t}
LockWindow(t, w) ==
  /\ CanLock(t, w)
  /\ owner' = [owner EXCEPT ![w] = t]
  /\ depth' = [depth EXCEPT ![w] = @ + 1]
UnlockWindow(w) ==
  /\ depth' = [depth EXCEPT ![w] = @ - 1]
  /\ owner' = [owner EXCEPT ![w] = IF depth[w] = 1 THEN None ELSE @]

AddRef(w) == cRef' = [cRef EXCEPT ![w] = @ + 1]
Release(w) == cRef' = [cRef EXCEPT ![w] = @ - 1]

\* MsgReply::Release; the destructor sets the event of a reply without result.
Released(m) ==
  /\ refs' = [refs EXCEPT ![m] = IF @ > 0 THEN @ - 1 ELSE @]
  /\ replied' = [replied EXCEPT ![m].event =
                   @ \/ (refs[m] = 1 /\ msgs[m].sent /\ ~replied[m].hasResult)]
  /\ touched' = (touched \/ refs[m] = 0)

\* postMsg: the queue is locked with the window's lock still held.
Enqueue(t, w, sent) ==
  /\ qowner[OwnerOf[w]] = None
  /\ msgs' = Append(msgs, [window |-> w, sent |-> sent, at |-> "queued"])
  /\ queue' = [queue EXCEPT ![OwnerOf[w]] = Append(@, Posted + 1)]
  /\ refs' = [refs EXCEPT ![Posted + 1] = 1]

-----------------------------------------------------------------------------
(***************************************************************************)
(* get_win_ptr_and_lock: the window is found and referenced under the      *)
(* map's lock, then locked; a WndObj has a reference for its lock.         *)
(***************************************************************************)
\* Mutant: the window is not referenced while its lock is waited for.
LookupUnreferenced(t, w, l) ==
  /\ life[w] # "freed"
  /\ pc' = [pc EXCEPT ![t] = l]
  /\ arg' = [arg EXCEPT ![t] = w]
  /\ UNCHANGED <<life, cRef, locks, queue, msgs, stack, replies, directs>>

Lookup(t, w, l) ==
  /\ life[w] # "freed"
  /\ AddRef(w)
  /\ pc' = [pc EXCEPT ![t] = l]
  /\ arg' = [arg EXCEPT ![t] = w]
  /\ UNCHANGED <<life, locks, queue, msgs, stack, replies, directs>>

\* The lookup's reference becomes the WndObj's.
FoundPost(t) ==
  /\ pc[t] = "findPost"
  /\ LockWindow(t, arg[t])
  /\ pc' = [pc EXCEPT ![t] = "post"]
  /\ UNCHANGED <<life, cRef, qowner, queue, msgs, stack, arg, replies, directs>>

\* A send to a window that was destroyed meanwhile returns.
FoundSend(t) ==
  /\ pc[t] = "findSend" /\ CanLock(t, arg[t])
  /\ IF life[arg[t]] = "alive"
     THEN /\ LockWindow(t, arg[t])
          /\ pc' = [pc EXCEPT ![t] = "send"]
          /\ UNCHANGED <<cRef, qowner, arg>>
     ELSE /\ Release(arg[t])
          /\ pc' = [pc EXCEPT ![t] = "app"]
          /\ arg' = [arg EXCEPT ![t] = None]
          /\ UNCHANGED locks
  /\ UNCHANGED <<life, queue, msgs, stack, replies, directs>>

(***************************************************************************)
(* PostMessageA.                                                           *)
(***************************************************************************)
PostBegin(t, w) ==
  /\ pc[t] = "app" /\ RoomForOne
  /\ Lookup(t, w, "findPost")

\* Mutant: an early return between postMsg and the destructor of pWnd.
PostEnqueueKeepsLock(t) ==
  /\ pc[t] = "post"
  /\ Enqueue(t, arg[t], FALSE)
  /\ pc' = [pc EXCEPT ![t] = "app"]
  /\ arg' = [arg EXCEPT ![t] = None]
  /\ UNCHANGED <<cRef, locks, life, replied, touched, stack, directs>>

PostEnqueue(t) ==
  /\ pc[t] = "post"
  /\ Enqueue(t, arg[t], FALSE)
  /\ UnlockWindow(arg[t]) /\ Release(arg[t])
  /\ pc' = [pc EXCEPT ![t] = "app"]
  /\ arg' = [arg EXCEPT ![t] = None]
  /\ UNCHANGED <<life, qowner, replied, touched, stack, directs>>

(***************************************************************************)
(* _SendMessageTimeout.                                                    *)
(***************************************************************************)
\* To a window of another thread: its lock is kept until the call returns.
SendBegin(t, w) ==
  /\ pc[t] = "app" /\ RoomForOne
  /\ OwnerOf[w] # t /\ SendDepth(t) < MaxSendStack
  /\ Lookup(t, w, "findSend")

SendEnqueue(t) ==
  /\ pc[t] = "send"
  /\ Enqueue(t, arg[t], TRUE)
  /\ Push(t, [kind |-> "send", window |-> arg[t], msg |-> Posted + 1, sent |-> TRUE,
             destroy |-> FALSE])
  /\ pc' = [pc EXCEPT ![t] = "wait"]
  /\ arg' = [arg EXCEPT ![t] = None]
  /\ UNCHANGED <<cRef, locks, life, replied, touched, directs>>

\* To a window of its own the procedure is called with the lock freed;
\* DestroyWindow sends WM_DESTROY this way.
SendDirect(t, w, destroy) ==
  /\ pc[t] = "app" /\ life[w] = "alive"
  /\ OwnerOf[w] = t /\ SendDepth(t) < MaxSendStack
  /\ CanLock(t, w)
  /\ AddRef(w)
  /\ directs < MaxDirect /\ directs' = directs + 1
  /\ Push(t, [kind |-> "proc", window |-> w, msg |-> 0, sent |-> TRUE, destroy |-> destroy])
  /\ UNCHANGED <<locks, life, queue, msgs, replies, pc, arg>>

\* The wait ends: by the reply's event, by timeout (at any time) or by WM_QUIT
\* in the pump.  The result is read, the reply and the window are released.
SendEnd(t) ==
  LET m == Top(t).msg IN
  /\ pc[t] = "wait"
  /\ Released(m)
  /\ UnlockWindow(Top(t).window) /\ Release(Top(t).window)
  /\ Pop(t)
  /\ pc' = [pc EXCEPT ![t] = "app"]
  /\ UNCHANGED <<life, qowner, queue, msgs, arg, directs>>

(***************************************************************************)
(* peekMsg, from the main loop, from a nested loop of a window procedure   *)
(* or from the wait for a reply.                                           *)
(***************************************************************************)
PeekLock(t) ==
  /\ pc[t] \in {"app", "wait"}
  /\ qowner[t] = None /\ queue[t] # << >>
  /\ qowner' = [qowner EXCEPT ![t] = t]
  /\ pc' = [pc EXCEPT ![t] = "peek"]
  /\ UNCHANGED <<cRef, life, owner, depth, queue, msgs, replies, stack, arg, directs>>

\* Mutant: the iteration does not get past such a message.
PeekDropNever(t) ==
  /\ pc[t] = "peek" /\ queue[t] # << >>
  /\ life[msgs[Head(queue[t])].window] # "alive"
  /\ UNCHANGED vars

\* A message of a destroyed window is deleted, and its reply with it.
PeekDrop(t) ==
  LET m == Head(queue[t]) IN
  /\ pc[t] = "peek" /\ queue[t] # << >>
  /\ \/ life[msgs[m].window] = "freed"
     \/ life[msgs[m].window] = "destroyed" /\ CanLock(t, msgs[m].window)
  /\ queue' = [queue EXCEPT ![t] = Tail(@)]
  /\ msgs' = [msgs EXCEPT ![m].at = "dropped"]
  /\ Released(m)
  /\ UNCHANGED <<cRef, locks, life, stack, pc, arg, directs>>

PeekNone(t) ==
  /\ pc[t] = "peek" /\ queue[t] = << >>
  /\ qowner' = [qowner EXCEPT ![t] = None]
  /\ pc' = [pc EXCEPT ![t] = Resumed(stack[t])]
  /\ UNCHANGED <<cRef, life, owner, depth, queue, msgs, replies, stack, arg, directs>>

\* The first message: its window is locked to look at it.
PeekTake(t) ==
  LET m == Head(queue[t]) IN
  /\ pc[t] = "peek" /\ queue[t] # << >>
  /\ life[msgs[m].window] = "alive" /\ CanLock(t, msgs[m].window)
  /\ queue' = [queue EXCEPT ![t] = Tail(@)]
  /\ msgs' = [msgs EXCEPT ![m].at = "peeked"]
  /\ qowner' = [qowner EXCEPT ![t] = None]
  /\ pc' = [pc EXCEPT ![t] = "dispatch"]
  /\ Push(t, [kind |-> "proc", window |-> msgs[m].window, msg |-> m, sent |-> FALSE,
             destroy |-> FALSE])
  /\ UNCHANGED <<cRef, life, owner, depth, replies, arg, directs>>

(***************************************************************************)
(* DispatchMessage and CallWindowProcPriv.  Only t destroys its windows,   *)
(* so the window of a message it just peeked is still there.               *)
(***************************************************************************)
\* Lock the window, BeforeProcMsg, FreeLock, call the procedure.
Dispatch(t) ==
  /\ pc[t] = "dispatch"
  /\ CanLock(t, Top(t).window)
  /\ AddRef(Top(t).window)
  /\ pc' = [pc EXCEPT ![t] = "app"]
  /\ UNCHANGED <<locks, life, queue, msgs, replies, stack, arg, directs>>

\* The procedure returns: RestoreLock, AfterProcMsg sets the result, and
\* after WM_DESTROY the window is marked bDestroyed.
ProcReturn(t) ==
  LET m == Top(t).msg IN
  /\ pc[t] = "app" /\ stack[t] # << >> /\ Top(t).kind = "proc"
  /\ LockWindow(t, Top(t).window)
  /\ IF m = 0 THEN UNCHANGED <<msgs, replied, touched>>
     ELSE /\ msgs' = [msgs EXCEPT ![m].at = "done"]
          /\ replied' = [replied EXCEPT ![m] = IF msgs[m].sent
                           THEN [hasResult |-> TRUE, event |-> TRUE] ELSE @]
          /\ touched' = (touched \/ refs[m] = 0)
  /\ life' = [life EXCEPT ![Top(t).window] = IF Top(t).destroy THEN "destroyed" ELSE @]
  /\ pc' = [pc EXCEPT ![t] = "after"]
  /\ UNCHANGED <<cRef, qowner, queue, refs, stack, arg, directs>>

\* Mutant: msgRecusiveCount is not looked at.
ProcEndFreesAtOnce(t) ==
  LET w == Top(t).window
      m == Top(t).msg IN
  /\ pc[t] = "after"
  /\ IF m = 0 THEN UNCHANGED <<refs, replied, touched>> ELSE Released(m)
  /\ life' = [life EXCEPT ![w] =
                IF @ = "destroyed" THEN "freed" ELSE @]
  /\ UnlockWindow(w)
  /\ cRef' = [cRef EXCEPT ![w] = @ - (IF life'[w] = "freed" THEN 2 ELSE 1)]
  /\ Pop(t)
  /\ pc' = [pc EXCEPT ![t] = Resumed(Front(stack[t]))]
  /\ UNCHANGED <<qowner, queue, msgs, arg, directs>>

\* AfterProcMsg deletes the message; the last procedure frees the window.
ProcEnd(t) ==
  LET w == Top(t).window
      m == Top(t).msg IN
  /\ pc[t] = "after"
  /\ IF m = 0 THEN UNCHANGED <<refs, replied, touched>> ELSE Released(m)
  /\ life' = [life EXCEPT ![w] =
                IF @ = "destroyed" /\ ~ Running(w, Front(stack[t]))
                THEN "freed" ELSE @]
  /\ UnlockWindow(w)
  /\ cRef' = [cRef EXCEPT ![w] = @ - (IF life'[w] = "freed" THEN 2 ELSE 1)]
  /\ Pop(t)
  /\ pc' = [pc EXCEPT ![t] = Resumed(Front(stack[t]))]
  /\ UNCHANGED <<qowner, queue, msgs, arg, directs>>

Step(t) ==
  \/ \E w \in Windows : PostBegin(t, w) \/ SendBegin(t, w)
  \/ \E w \in Windows, d \in BOOLEAN : SendDirect(t, w, d)
  \/ FoundPost(t) \/ FoundSend(t) \/ PostEnqueue(t) \/ SendEnqueue(t)
  \/ SendEnd(t)
  \/ PeekLock(t) \/ PeekDrop(t) \/ PeekNone(t) \/ PeekTake(t)
  \/ Dispatch(t) \/ ProcReturn(t) \/ ProcEnd(t)

Next == \E t \in Threads : Step(t)

\* Threads run, a procedure returns and a wait ends.  The bounds end every
\* behaviour, so that WF also gives a mutex to those who keep asking for it.
LockStep(t) ==
  \/ FoundPost(t) \/ FoundSend(t) \/ PostEnqueue(t) \/ SendEnqueue(t)
  \/ PeekDrop(t) \/ PeekNone(t) \/ PeekTake(t)
  \/ Dispatch(t) \/ ProcEnd(t)

Fairness ==
  \A t \in Threads : WF_vars(LockStep(t)) /\ WF_vars(ProcReturn(t) \/ SendEnd(t))

Spec == Init /\ [][Next]_vars /\ Fairness

-----------------------------------------------------------------------------
Frames == [kind : {"proc", "send"}, window : Windows, msg : 0..MaxMsgs, sent : BOOLEAN,
           destroy : BOOLEAN]

TypeOK ==
  /\ life \in [Windows -> {"alive", "destroyed", "freed"}]
  /\ cRef \in [Windows -> Nat]
  /\ owner \in [Windows -> Threads \cup {None}]
  /\ depth \in [Windows -> Nat]
  /\ qowner \in [Threads -> Threads \cup {None}]
  /\ queue \in [Threads -> Seq(Ids)]
  /\ msgs \in Seq([window : Windows, sent : BOOLEAN,
                   at : {"queued", "peeked", "done", "dropped"}])
  /\ refs \in [Ids -> 0..1]
  /\ replied \in [Ids -> [hasResult : BOOLEAN, event : BOOLEAN]]
  /\ stack \in [Threads -> Seq(Frames)]
  /\ pc \in [Threads -> {"app", "findPost", "findSend", "post", "send", "wait", "peek", "dispatch", "after"}]
  /\ arg \in [Threads -> Windows \cup {None}]
  /\ touched \in BOOLEAN
  /\ directs \in 0..MaxDirect

(***************************************************************************)
(* Application code runs without the locks of its own windows, whatever it *)
(* is nested in: the code of a window procedure may block on anything.     *)
(* The only lock it can hold is the one of a window it is sending to.      *)
(***************************************************************************)
CodeRunsUnlocked ==
  \A t \in Threads : pc[t] \in {"app", "wait"} =>
    /\ \A u \in Threads : qowner[u] # t
    /\ \A w \in Windows : owner[w] = t =>
         \E i \in DOMAIN stack[t] : stack[t][i].kind = "send" /\ stack[t][i].window = w

(***************************************************************************)
(* A window stays in WndMap while one of its procedures is running, also   *)
(* when a procedure destroys it: msgRecusiveCount.                         *)
(***************************************************************************)
RunningIsMapped ==
  \A t \in Threads : \A i \in DOMAIN stack[t] :
    stack[t][i].kind = "proc" => life[stack[t][i].window] # "freed"

Uses(t, w) ==
  \/ t \in Calling /\ arg[t] = w
  \/ owner[w] = t
  \/ \E i \in DOMAIN stack[t] : stack[t][i].window = w

(***************************************************************************)
(* A _Window is not deleted while a thread waits for its lock, holds it or *)
(* runs one of its procedures, whenever the window is destroyed; and when  *)
(* nobody does, a window that left the map is deleted.  With the types:    *)
(* the count of a reply is 0 or 1.                                         *)
(***************************************************************************)
WindowAlive ==
  /\ TypeOK
  /\ \A w \in Windows :
       (cRef[w] > 0) <=> (life[w] # "freed" \/ \E t \in Threads : Uses(t, w))

-----------------------------------------------------------------------------
(***************************************************************************)
(* Who waits for whose lock: in a peek, in DispatchMessage, and in the     *)
(* RestoreLock after the procedure a thread is in.                         *)
(***************************************************************************)
NeedsWindow(t, w) ==
  \/ pc[t] \in {"findPost", "findSend"} /\ w = arg[t]
  \/ pc[t] = "app" /\ stack[t] # << >> /\ w = Top(t).window
  \/ pc[t] = "dispatch" /\ w = Top(t).window
  \/ pc[t] = "peek" /\ queue[t] # << >> /\ w = msgs[Head(queue[t])].window /\ life[w] # "freed"

BlockedBy(t, u) ==
  /\ t # u
  /\ \/ pc[t] \in {"post", "send"} /\ qowner[OwnerOf[arg[t]]] = u
     \/ \E w \in Windows : NeedsWindow(t, w) /\ owner[w] = u

(***************************************************************************)
(* A thread that is never let on in PostMessage, SendMessage, PeekMessage  *)
(* or DispatchMessage is one of two that wait for each other's lock: a     *)
(* poster holds the window while it waits for the queue, a sender while it *)
(* pumps, and the window's thread needs it in peekMsg, which holds the     *)
(* queue, and after a procedure.  Nothing else stops a thread for good.    *)
(***************************************************************************)
OnlyInversionsHang ==
  \A t \in Threads : \A l \in {"findPost", "findSend", "post", "send", "peek", "dispatch"} :
    <>[](pc[t] = l) => <>[](\E u \in Threads : BlockedBy(t, u) /\ BlockedBy(u, t))

(***************************************************************************)
(* The reply of a message is used by its owners only while it exists.      *)
(***************************************************************************)
ReplyAlive == ~touched
=============================================================================
