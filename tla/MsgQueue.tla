------------------------------- MODULE MsgQueue -------------------------------
(***************************************************************************)
(* The message queue of one UI thread: SConnection::peekMsg, getMsg,       *)
(* waitMsg, event2Msg's timers, postMsg, SetTimer, KillTimer, callback     *)
(* tasks, BeforeProcMsg and AfterProcMsg (src/src/platform/linux/          *)
(* SConnection.cpp), and who owns a Msg on its way from the queue to the   *)
(* end of the window procedure.                                            *)
(*                                                                         *)
(* Other threads post at any time; every section under m_mutex4Msg is one  *)
(* step.  The UI thread runs its main loop, GetMessage and DispatchMessage *)
(* without filter, and below it window procedures, which may peek with any *)
(* filter, throw away what they peeked, send to their own windows, and set *)
(* and kill timers.                                                        *)
(***************************************************************************)
EXTENDS Naturals, Sequences, FiniteSets, SequencesExt

CONSTANTS
  Windows,
  Posts,       \* what other threads post: hwnd, message, wParam and lParam
  Timers,      \* WM_TIMER messages without TIMERPROC
  ProcTimers,  \* WM_TIMER messages with a TIMERPROC
  WindowOf,    \* hwnd of a message
  Tasks,       \* callback tasks of SendMessageCallback
  AnyWindow,         \* no filter
  MaxMsgs,     \* bound: messages in a behaviour
  MaxDepth,    \* bound: nested procedures
  MaxCalls     \* bound: calls window procedures make

Contents == Posts \cup Timers \cup ProcTimers

ASSUME WindowOfAssumption == WindowOf \in [Contents -> Windows]
ASSUME AnyAssumption == AnyWindow \notin Windows
ASSUME TimersAssumption == Posts \cap (Timers \cup ProcTimers) = {} /\ Timers \cap ProcTimers = {}
ASSUME BoundsAssumption == MaxMsgs \in Nat /\ MaxDepth \in Nat /\ MaxCalls \in Nat

VARIABLES
  msgs,       \* every Msg created: content, whether a SendReply is attached
  queue,      \* m_msgQueue
  evt,        \* m_evtSync is signalled
  msgPeek,    \* m_msgPeek, 0 for nullptr
  needFree,   \* m_bMsgNeedFree
  msgStack,   \* m_msgStack
  freed,      \* deleted messages
  answered,   \* messages whose reply got a result
  timers,     \* m_lstTimer
  dead,       \* destroyed windows
  tasks,      \* m_lstCallbackTask
  frames,     \* what the thread is nested in, bottom first
  pc,         \* what it is doing on top of that
  want,       \* filter, PM_REMOVE and blocking of the peek it is in
  got,        \* the message its last peek removed
  calls,      \* calls its procedures made
  misled      \* history: a removed message was not dispatched, or one being handled
              \* was sent again inside its procedure

vars == <<msgs, queue, evt, msgPeek, needFree, msgStack, freed, answered,
          timers, dead, tasks, frames, pc, want, got, calls, misled>>
owned == <<msgPeek, needFree, msgStack, freed, answered>>
thread == <<frames, pc, want, got, misled>>

NoWant == [filter |-> AnyWindow, remove |-> TRUE, block |-> TRUE]

Init ==
  /\ msgs = << >> /\ queue = << >> /\ evt = FALSE
  /\ msgPeek = 0 /\ needFree = FALSE /\ msgStack = << >>
  /\ freed = {} /\ answered = {}
  /\ timers = {} /\ dead = {}
  /\ tasks = [k \in Tasks |-> "none"]
  /\ frames = << >> /\ pc = "app" /\ want = NoWant /\ got = 0
  /\ calls = 0 /\ misled = FALSE

Elems(s) == {s[i] : i \in DOMAIN s}
Created == DOMAIN msgs

\* What s has at the positions in K, in the order of s.
Rank(K, i) == Cardinality({j \in K : j <= i})
Picked(s, K) == [n \in 1..Cardinality(K) |-> s[CHOOSE i \in K : Rank(K, i) = n]]

-----------------------------------------------------------------------------
(***************************************************************************)
(* Other threads: postMsg, postMsg2, and the answer of a callback task.    *)
(***************************************************************************)
\* Mutant: the queue is filled without waking the thread.
PostMsgSilent(c, sent) ==
  /\ Len(msgs) < MaxMsgs
  /\ msgs' = Append(msgs, [content |-> c, sent |-> sent])
  /\ queue' = Append(queue, Len(msgs) + 1)
  /\ UNCHANGED <<evt, owned, timers, dead, tasks, thread, calls>>

PostMsg(c, sent) ==
  /\ Len(msgs) < MaxMsgs
  /\ msgs' = Append(msgs, [content |-> c, sent |-> sent])
  /\ queue' = Append(queue, Len(msgs) + 1)
  /\ evt' = TRUE
  /\ UNCHANGED <<owned, timers, dead, tasks, thread, calls>>

\* CallbackReply::SetResult or its destructor: only the task's event is set.
AnswerTask(k) ==
  /\ tasks[k] = "listed"
  /\ tasks' = [tasks EXCEPT ![k] = "signalled"]
  /\ UNCHANGED <<msgs, queue, evt, owned, timers, dead, thread, calls>>

-----------------------------------------------------------------------------
(***************************************************************************)
(* event2Msg: the timers that are due, in any number, become messages.     *)
(***************************************************************************)
FireTimers(due) ==
  /\ due \subseteq timers
  /\ Len(msgs) + Cardinality(due) <= MaxMsgs
  /\ LET fired == SetToSeq(due) IN
     /\ msgs' = msgs \o [i \in DOMAIN fired |-> [content |-> fired[i], sent |-> FALSE]]
     /\ queue' = queue \o [i \in DOMAIN fired |-> Len(msgs) + i]

\* peekMsg up to the lock: the event is consumed, the timers are looked at.
PeekStart ==
  /\ pc = "peek"
  /\ evt' = FALSE
  /\ \E due \in SUBSET timers : FireTimers(due)
  /\ pc' = "scan"
  /\ UNCHANGED <<owned, timers, dead, tasks, frames, want, got, calls, misled>>

\* A plain WM_TIMER passes every filter.
Matches(m) ==
  LET c == msgs[m].content IN
  c \in Timers \/ want.filter \in {AnyWindow, WindowOf[c]}

Destroyed(m) == WindowOf[msgs[m].content] \in dead

\* The scan stops at the first message that matches and has a window; the
\* messages of destroyed windows before it are deleted.
Found == {i \in DOMAIN queue : Matches(queue[i]) /\ ~Destroyed(queue[i])}
FirstFound == CHOOSE i \in Found : \A j \in Found : i <= j
Passed == IF Found = {} THEN DOMAIN queue ELSE 1..FirstFound
Dropped == {queue[i] : i \in {j \in Passed : Destroyed(queue[j])}}
Kept(gone) == Picked(queue, {i \in DOMAIN queue : queue[i] \notin Dropped \cup gone})

\* Mutant: the events of the tasks are not tested.
RunTasksNever == UNCHANGED tasks

\* The tasks whose event is signalled are called back, with the queue locked,
\* and leave the list.
RunTasks == tasks' = [k \in Tasks |-> IF tasks[k] = "signalled" THEN "run" ELSE tasks[k]]

\* The message peeked before and never dispatched is deleted.
Stale == IF msgPeek # 0 /\ needFree THEN {msgPeek} ELSE {}

\* Nothing matches: PeekMessage fails, GetMessage waits.
ScanNone ==
  /\ pc = "scan" /\ Found = {}
  /\ RunTasks
  /\ queue' = Kept({})
  /\ freed' = freed \cup Dropped
  /\ pc' = IF want.block THEN "wait" ELSE "app"
  /\ UNCHANGED <<msgs, evt, msgPeek, needFree, msgStack, answered, timers, dead,
                 frames, want, got, calls, misled>>

\* A timer with TIMERPROC is called with the queue unlocked, then the peek
\* starts again.
ScanTimer ==
  LET m == queue[FirstFound] IN
  /\ pc = "scan" /\ Found # {} /\ msgs[m].content \in ProcTimers
  /\ RunTasks
  /\ queue' = Kept({m})
  /\ freed' = freed \cup Dropped \cup Stale
  /\ msgPeek' = IF Stale # {} THEN 0 ELSE msgPeek
  /\ needFree' = (needFree /\ Stale = {})
  /\ frames' = Append(frames, [msg |-> m, content |-> msgs[m].content, peek |-> want, got |-> got])
  /\ pc' = "app"
  /\ UNCHANGED <<msgs, evt, msgStack, answered, timers, dead, want, got, calls, misled>>

\* Mutant: the message that was peeked before is forgotten.
ScanTakeForgets ==
  LET m == queue[FirstFound] IN
  /\ pc = "scan" /\ Found # {} /\ msgs[m].content \notin ProcTimers
  /\ RunTasks
  /\ queue' = Kept(IF want.remove THEN {m} ELSE {})
  /\ freed' = freed \cup Dropped
  /\ msgPeek' = m
  /\ needFree' = want.remove
  /\ evt' = (evt \/ queue' # << >>)
  /\ got' = IF want.remove THEN m ELSE 0
  /\ pc' = IF want.remove THEN "got" ELSE "app"
  /\ UNCHANGED <<msgs, msgStack, answered, timers, dead, frames, want, calls, misled>>

ScanTake ==
  LET m == queue[FirstFound] IN
  /\ pc = "scan" /\ Found # {} /\ msgs[m].content \notin ProcTimers
  /\ RunTasks
  /\ queue' = Kept(IF want.remove THEN {m} ELSE {})
  /\ freed' = freed \cup Dropped \cup Stale
  /\ msgPeek' = m
  /\ needFree' = want.remove
  /\ evt' = (evt \/ queue' # << >>)
  /\ got' = IF want.remove THEN m ELSE 0
  /\ pc' = IF want.remove THEN "got" ELSE "app"
  /\ UNCHANGED <<msgs, msgStack, answered, timers, dead, frames, want, calls, misled>>

\* waitMsg: until m_evtSync, or until a timer is due.
WaitMsg ==
  /\ pc = "wait"
  /\ \E due \in SUBSET timers : (evt \/ due # {}) /\ FireTimers(due)
  /\ evt' = FALSE
  /\ pc' = "peek"
  /\ UNCHANGED <<owned, timers, dead, tasks, frames, want, got, calls, misled>>

-----------------------------------------------------------------------------
(***************************************************************************)
(* The application on the UI thread.                                       *)
(***************************************************************************)
GetMessage ==
  /\ pc = "app" /\ frames = << >>
  /\ want' = NoWant
  /\ pc' = "peek"
  /\ UNCHANGED <<msgs, queue, evt, owned, timers, dead, tasks, frames, got, calls, misled>>

\* A call from a window procedure or a TIMERPROC.
Call ==
  /\ pc = "app" /\ frames # << >> /\ calls < MaxCalls
  /\ calls' = calls + 1

PeekMessage(filter, remove) ==
  /\ Call /\ Len(frames) < MaxDepth
  /\ want' = [filter |-> filter, remove |-> remove, block |-> FALSE]
  /\ pc' = "peek"
  /\ UNCHANGED <<msgs, queue, evt, owned, timers, dead, tasks, frames, got, misled>>

\* What a nested peek removed need not be dispatched.
Discard ==
  /\ pc = "got" /\ frames # << >>
  /\ pc' = "app" /\ got' = 0 /\ misled' = TRUE
  /\ UNCHANGED <<msgs, queue, evt, owned, timers, dead, tasks, frames, want, calls>>

\* Mutant: m_bMsgNeedFree is not reset.
BeforeProcMsgKeepsFlag(c) ==
  IF msgPeek # 0 /\ needFree /\ msgs[msgPeek].content = c
  THEN /\ msgStack' = Append(msgStack, msgPeek)
       /\ msgPeek' = 0
       /\ UNCHANGED needFree
  ELSE UNCHANGED <<msgStack, msgPeek, needFree>>

\* BeforeProcMsg: the peeked message becomes one that is being handled.
BeforeProcMsg(c) ==
  IF msgPeek # 0 /\ needFree /\ msgs[msgPeek].content = c
  THEN /\ msgStack' = Append(msgStack, msgPeek)
       /\ msgPeek' = 0
       /\ needFree' = FALSE
  ELSE UNCHANGED <<msgStack, msgPeek, needFree>>

Enter(m, c) == frames' = Append(frames, [msg |-> m, content |-> c, peek |-> NoWant, got |-> 0])

\* DispatchMessage does nothing for a window that is gone.
Dispatch ==
  LET c == msgs[got].content IN
  /\ pc = "got"
  /\ IF Destroyed(got) THEN UNCHANGED <<msgStack, msgPeek, needFree, frames>>
     ELSE BeforeProcMsg(c) /\ Enter(got, c)
  /\ pc' = "app" /\ got' = 0
  /\ UNCHANGED <<msgs, queue, evt, freed, answered, timers, dead, tasks, want, calls, misled>>

\* SendMessage to a window of its own.
SendDirect(c) ==
  /\ Call /\ Len(frames) < MaxDepth
  /\ WindowOf[c] \notin dead
  /\ misled' = (misled \/ \E i \in DOMAIN frames : frames[i].msg # 0 /\ frames[i].content = c)
  /\ BeforeProcMsg(c) /\ Enter(0, c)
  /\ UNCHANGED <<msgs, queue, evt, freed, answered, timers, dead, tasks, pc, want, got>>

\* AfterProcMsg: the message on top of the stack is answered and deleted.
AfterProcMsg(c) ==
  IF msgStack # << >> /\ ~needFree /\ msgs[Last(msgStack)].content = c
  THEN /\ answered' = answered \cup {Last(msgStack)}
       /\ freed' = freed \cup {Last(msgStack)}
       /\ msgStack' = Front(msgStack)
  ELSE UNCHANGED <<answered, freed, msgStack>>

ProcReturn ==
  /\ pc = "app" /\ frames # << >> /\ Last(frames).content \notin ProcTimers
  /\ AfterProcMsg(Last(frames).content)
  /\ frames' = Front(frames)
  /\ UNCHANGED <<msgs, queue, evt, msgPeek, needFree, timers, dead, tasks, pc, want, got, calls, misled>>

TimerReturn ==
  /\ pc = "app" /\ frames # << >> /\ Last(frames).content \in ProcTimers
  /\ freed' = freed \cup {Last(frames).msg}
  /\ want' = Last(frames).peek /\ got' = Last(frames).got
  /\ frames' = Front(frames)
  /\ pc' = "peek"
  /\ UNCHANGED <<msgs, queue, evt, msgPeek, needFree, msgStack, answered, timers, dead, tasks, calls, misled>>

SetTimer(c) ==
  /\ Call /\ c \notin timers /\ WindowOf[c] \notin dead
  /\ timers' = timers \cup {c}
  /\ evt' = TRUE
  /\ UNCHANGED <<msgs, queue, owned, dead, tasks, thread>>

\* Mutant: the messages of the timer stay in the queue.
KillTimerKeeps(c) ==
  /\ Call /\ c \in timers
  /\ timers' = timers \ {c}
  /\ UNCHANGED <<msgs, queue, evt, owned, dead, tasks, thread>>

\* KillTimer: the messages of the timer leave the queue with it.
KillTimer(c) ==
  /\ Call /\ c \in timers
  /\ timers' = timers \ {c}
  /\ queue' = Picked(queue, {i \in DOMAIN queue : msgs[queue[i]].content # c})
  /\ freed' = freed \cup {m \in Elems(queue) : msgs[m].content = c}
  /\ UNCHANGED <<msgs, evt, msgPeek, needFree, msgStack, answered, dead, tasks, thread>>

\* OnWindowDestroy ends with KillWindowTimer; the messages are left to peekMsg.
DestroyWindow(w) ==
  /\ Call /\ w \notin dead
  /\ dead' = dead \cup {w}
  /\ timers' = {c \in timers : WindowOf[c] # w}
  /\ UNCHANGED <<msgs, queue, evt, owned, tasks, thread>>

\* SendMessageCallback: postCallbackTask.
SendMessageCallback(k) ==
  /\ Call /\ tasks[k] = "none"
  /\ tasks' = [tasks EXCEPT ![k] = "listed"]
  /\ UNCHANGED <<msgs, queue, evt, owned, timers, dead, thread>>

-----------------------------------------------------------------------------
UI ==
  \/ GetMessage
  \/ \E f \in Windows \cup {AnyWindow}, r \in BOOLEAN : PeekMessage(f, r)
  \/ PeekStart \/ ScanNone \/ ScanTimer \/ ScanTake \/ WaitMsg
  \/ Discard \/ Dispatch
  \/ \E c \in Posts : SendDirect(c)
  \/ ProcReturn \/ TimerReturn
  \/ \E c \in Timers \cup ProcTimers : SetTimer(c) \/ KillTimer(c)
  \/ \E w \in Windows : DestroyWindow(w)
  \/ \E k \in Tasks : SendMessageCallback(k)

Others ==
  \/ \E c \in Posts, sent \in BOOLEAN : PostMsg(c, sent)
  \/ \E k \in Tasks : AnswerTask(k)

Next == UI \/ Others

\* The UI thread keeps running; the others post when they like.
Spec == Init /\ [][Next]_vars /\ WF_vars(UI)

-----------------------------------------------------------------------------
Wants == [filter : Windows \cup {AnyWindow}, remove : BOOLEAN, block : BOOLEAN]

TypeOK ==
  /\ msgs \in Seq([content : Contents, sent : BOOLEAN])
  /\ queue \in Seq(Created)
  /\ evt \in BOOLEAN
  /\ msgPeek \in Created \cup {0}
  /\ needFree \in BOOLEAN
  /\ msgStack \in Seq(Created)
  /\ freed \subseteq Created /\ answered \subseteq Created
  /\ timers \subseteq Timers \cup ProcTimers
  /\ dead \subseteq Windows
  /\ tasks \in [Tasks -> {"none", "listed", "signalled", "run"}]
  /\ frames \in Seq([msg : Created \cup {0}, content : Contents, peek : Wants,
                     got : Created \cup {0}])
  /\ pc \in {"app", "peek", "scan", "wait", "got"}
  /\ want \in Wants
  /\ got \in Created \cup {0}
  /\ calls \in 0..MaxCalls
  /\ misled \in BOOLEAN

\* The messages a running TIMERPROC will delete.
InTimer == {frames[i].msg : i \in {j \in DOMAIN frames : frames[j].content \in ProcTimers}}

(***************************************************************************)
(* Every Msg has exactly one owner: the queue, m_msgPeek with              *)
(* m_bMsgNeedFree, m_msgStack or a running TIMERPROC; a deleted one has    *)
(* none.  No message leaks, none is deleted twice, and the types hold.     *)
(***************************************************************************)
OneOwner ==
  /\ TypeOK
  /\ \A m \in Created :
       Cardinality({s \in {"queue", "peek", "stack", "timer", "freed"} :
         \/ s = "queue" /\ m \in Elems(queue)
         \/ s = "peek" /\ needFree /\ m = msgPeek
         \/ s = "stack" /\ m \in Elems(msgStack)
         \/ s = "timer" /\ m \in InTimer
         \/ s = "freed" /\ m \in freed}) = 1
  /\ Cardinality(Elems(queue)) = Len(queue)
  /\ Cardinality(Elems(msgStack)) = Len(msgStack)

(***************************************************************************)
(* GetMessage does not sleep on a message: when it waits and the queue has *)
(* one it could return, m_evtSync is signalled.                            *)
(***************************************************************************)
NoLostWakeup ==
  pc = "wait" => (evt \/ Found = {})

(***************************************************************************)
(* A WM_TIMER in the queue belongs to a timer that is set, or to a window  *)
(* whose messages are dropped: a killed timer does not tick.               *)
(***************************************************************************)
QueuedTimerIsSet ==
  \A m \in Elems(queue) :
    msgs[m].content \notin Posts => msgs[m].content \in timers \/ Destroyed(m)

(***************************************************************************)
(* A posted message leaves the queue: it is handed out or its window is    *)
(* gone.                                                                   *)
(***************************************************************************)
Delivered ==
  \A m \in 1..MaxMsgs : (m \in Elems(queue)) ~> (m \notin Elems(queue))

Dispatched ==
  Picked(frames, {i \in DOMAIN frames : frames[i].msg # 0 /\ frames[i].content \notin ProcTimers})

(***************************************************************************)
(* m_msgStack is the stack of the messages being handled, through nested   *)
(* peeks, sends, TIMERPROCs and destroyed windows: each is answered when   *)
(* its own procedure returns.  Two things break this: a nested PeekMessage *)
(* that removes a message and does not dispatch it, as m_bMsgNeedFree then *)
(* makes the enclosing AfterProcMsg return without an answer; and a        *)
(* procedure that sends itself what it is handling, as the inner return    *)
(* answers and deletes the outer message.                                  *)
(***************************************************************************)
StackIsHandled ==
  misled \/ msgStack = [i \in DOMAIN Dispatched |-> Dispatched[i].msg]

(***************************************************************************)
(* The callback of SendMessageCallback is called once the answer is there  *)
(* and anything wakes the thread: the answer alone does not.               *)
(***************************************************************************)
CallbackRuns ==
  \A k \in Tasks : (tasks[k] = "signalled" /\ evt) ~> (tasks[k] = "run")
===============================================================================
