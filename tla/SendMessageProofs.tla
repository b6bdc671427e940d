-------------------------- MODULE SendMessageProofs --------------------------
(***************************************************************************)
(* For any UI threads, windows, messages and depth of nesting: application *)
(* code runs without the locks of its own windows, a window stays in the   *)
(* map while one of its procedures runs, and its object exists exactly as  *)
(* long as the map or a thread uses it.                                    *)
(*                                                                         *)
(* Both counters of a window are accounted for.  Its lock is held once for *)
(* every wait for a reply on its owner's stack and once by what the owner  *)
(* is doing; its references are the map's, one for every call on its way   *)
(* to the queue, and one for every frame, a message that is peeked and not *)
(* dispatched yet excepted.                                                *)
(***************************************************************************)
EXTENDS SendMessage, FiniteSetTheorems, TLAPS

\* The bound leaves room for the calls under way.
Room == Posted + Cardinality(Calling) <= MaxMsgs

\* What a thread's position says about its stack and its argument.
PlacedAt(t) ==
  /\ pc[t] = "wait" => Waits(stack[t])
  /\ pc[t] \in {"dispatch", "after"} => stack[t] # << >> /\ Top(t).kind = "proc"
  /\ t \in Calling => arg[t] \in Windows

Placed == \A t \in Threads : PlacedAt(t)

\* A peek holds its own queue, and nobody else holds one.
Peeking ==
  /\ \A t \in Threads : pc[t] = "peek" => qowner[t] = t
  /\ \A t, u \in Threads : qowner[u] = t => u = t /\ pc[t] = "peek"

\* A thread gets the messages of its own windows.
Queues ==
  \A t \in Threads : \A i \in DOMAIN queue[t] :
    queue[t][i] \in 1..Posted /\ OwnerOf[msgs[queue[t][i]].window] = t

\* Procedures run on the thread of their window; a wait is for a message.
Stacks ==
  \A t \in Threads : \A i \in DOMAIN stack[t] :
    LET f == stack[t][i] IN
    /\ f.msg <= Posted
    /\ f.kind = "proc" => OwnerOf[f.window] = t
    /\ f.kind = "send" => f.msg # 0

\* The locks of w that the stack of t keeps, and the one of what t is doing.
SendFrames(t, w) ==
  {i \in DOMAIN stack[t] : stack[t][i].kind = "send" /\ stack[t][i].window = w}
LocksNow(t, w) ==
  \/ pc[t] \in {"post", "send"} /\ arg[t] = w
  \/ pc[t] = "after" /\ Top(t).window = w
Holds(t, w) == Cardinality(SendFrames(t, w)) + (IF LocksNow(t, w) THEN 1 ELSE 0)

LocksCounted ==
  \A w \in Windows :
    /\ \A t \in Threads : Holds(t, w) = IF owner[w] = t THEN depth[w] ELSE 0
    /\ owner[w] = None <=> depth[w] = 0

\* The references of w: of calls, of frames and of the map.
Callers(w) == {t \in Calling : arg[t] = w}
InFrame(t, w) ==
  {i \in DOMAIN stack[t] :
     stack[t][i].window = w /\ ~ (pc[t] = "dispatch" /\ i = Len(stack[t]))}
FrameRefs(w) == UNION {{<<t, i>> : i \in InFrame(t, w)} : t \in Threads}
MapRef(w) == IF life[w] = "freed" THEN 0 ELSE 1

Counted(w) ==
  /\ IsFiniteSet(FrameRefs(w))
  /\ cRef[w] = Cardinality(Callers(w)) + Cardinality(FrameRefs(w)) + MapRef(w)

RefsCounted == \A w \in Windows : Counted(w)

IInv ==
  /\ TypeOK
  /\ Room
  /\ Placed
  /\ Peeking
  /\ Queues
  /\ Stacks
  /\ LocksCounted
  /\ RefsCounted
  /\ RunningIsMapped

-----------------------------------------------------------------------------
(***************************************************************************)
(* Lemmas about the operators of the model.                                *)
(***************************************************************************)
\* Only what t is doing changes.
Alone(t) ==
  \A u \in Threads \ {t} : pc'[u] = pc[u] /\ stack'[u] = stack[u] /\ arg'[u] = arg[u]

LEMMA StackPush ==
  ASSUME TypeOK, NEW t \in Threads, NEW f \in Frames, Push(t, f)
  PROVE  /\ stack' \in [Threads -> Seq(Frames)]
         /\ \A u \in Threads \ {t} : stack'[u] = stack[u]
         /\ Len(stack[t]) \in Nat /\ Len(stack'[t]) = Len(stack[t]) + 1
         /\ DOMAIN stack[t] = 1..Len(stack[t])
         /\ DOMAIN stack'[t] = 1..(Len(stack[t]) + 1)
         /\ \A i \in 1..Len(stack[t]) : stack'[t][i] = stack[t][i]
         /\ stack'[t][Len(stack[t]) + 1] = f
<1>1. stack \in [Threads -> Seq(Frames)] /\ stack' = [stack EXCEPT ![t] = Append(stack[t], f)]
  BY DEF TypeOK, Push
<1>2. PICK s \in Seq(Frames) : s = stack[t]
  BY <1>1
<1>3. /\ Append(s, f) \in Seq(Frames) /\ Len(s) \in Nat /\ Len(Append(s, f)) = Len(s) + 1
      /\ DOMAIN s = 1..Len(s) /\ DOMAIN Append(s, f) = 1..(Len(s) + 1)
      /\ \A i \in 1..Len(s) : Append(s, f)[i] = s[i]
      /\ Append(s, f)[Len(s) + 1] = f
  OBVIOUS
<1>4. stack'[t] = Append(s, f) /\ \A u \in Threads \ {t} : stack'[u] = stack[u]
  BY <1>1, <1>2
<1>5. stack' \in [Threads -> Seq(Frames)]
  BY <1>1, <1>2, <1>3
<1> QED
  BY <1>2, <1>3, <1>4, <1>5

LEMMA StackPop ==
  ASSUME TypeOK, NEW t \in Threads, stack[t] # << >>, Pop(t)
  PROVE  /\ stack' \in [Threads -> Seq(Frames)]
         /\ \A u \in Threads \ {t} : stack'[u] = stack[u]
         /\ Len(stack[t]) \in Nat \ {0} /\ Len(stack'[t]) = Len(stack[t]) - 1
         /\ DOMAIN stack[t] = 1..Len(stack[t])
         /\ DOMAIN stack'[t] = 1..(Len(stack[t]) - 1)
         /\ \A i \in 1..(Len(stack[t]) - 1) : stack'[t][i] = stack[t][i]
         /\ stack'[t] = Front(stack[t])
<1>1. stack \in [Threads -> Seq(Frames)] /\ stack' = [stack EXCEPT ![t] = Front(stack[t])]
  BY DEF TypeOK, Pop
<1>2. PICK s \in Seq(Frames) : s = stack[t] /\ s # << >>
  BY <1>1
<1>3. /\ Len(s) \in Nat \ {0} /\ DOMAIN s = 1..Len(s)
      /\ Front(s) \in Seq(Frames) /\ Len(Front(s)) = Len(s) - 1
      /\ DOMAIN Front(s) = 1..(Len(s) - 1)
      /\ \A i \in 1..(Len(s) - 1) : Front(s)[i] = s[i]
  <2>1. Len(s) \in Nat /\ Len(s) # 0 /\ DOMAIN s = 1..Len(s)
    BY <1>2
  <2> QED
    BY <2>1 DEF Front
<1>4. stack'[t] = Front(s) /\ \A u \in Threads \ {t} : stack'[u] = stack[u]
  BY <1>1, <1>2
<1>5. stack' \in [Threads -> Seq(Frames)]
  BY <1>1, <1>2, <1>3
<1> QED
  BY <1>2, <1>3, <1>4, <1>5

\* The top of a stack.
LEMMA TopIs ==
  ASSUME TypeOK, NEW t \in Threads, stack[t] # << >>
  PROVE  /\ Len(stack[t]) \in Nat \ {0} /\ Len(stack[t]) \in DOMAIN stack[t]
         /\ DOMAIN stack[t] = 1..Len(stack[t])
         /\ Top(t) = stack[t][Len(stack[t])] /\ Top(t) \in Frames
<1>1. PICK s \in Seq(Frames) : s = stack[t] /\ s # << >>
  BY DEF TypeOK
<1>2. Len(s) \in Nat /\ Len(s) # 0 /\ DOMAIN s = 1..Len(s) /\ \A i \in 1..Len(s) : s[i] \in Frames
  BY <1>1
<1> QED
  BY <1>1, <1>2 DEF Top, Last

LEMMA FrameIs ==
  ASSUME TypeOK, NEW t \in Threads, NEW i \in DOMAIN stack[t]
  PROVE  /\ stack[t][i] \in Frames /\ DOMAIN stack[t] = 1..Len(stack[t]) /\ Len(stack[t]) \in Nat
         /\ stack[t][i].window \in Windows /\ stack[t][i].msg \in 0..MaxMsgs
         /\ stack[t][i].kind \in {"proc", "send"}
<1>1. PICK s \in Seq(Frames) : s = stack[t]
  BY DEF TypeOK
<1>2. Len(s) \in Nat /\ DOMAIN s = 1..Len(s) /\ s[i] \in Frames
  BY <1>1
<1> QED
  BY <1>1, <1>2 DEF Frames

LEMMA SendFramesFinite ==
  ASSUME TypeOK, NEW t \in Threads, NEW w
  PROVE  IsFiniteSet(SendFrames(t, w)) /\ Cardinality(SendFrames(t, w)) \in Nat
         /\ Holds(t, w) \in Nat
<1>1. DOMAIN stack[t] = 1..Len(stack[t]) /\ Len(stack[t]) \in Nat
  <2>1. stack[t] \in Seq(Frames)
    BY DEF TypeOK
  <2> QED
    BY <2>1
<1>2. IsFiniteSet(1..Len(stack[t])) /\ SendFrames(t, w) \in SUBSET (1..Len(stack[t]))
  BY <1>1, FS_Interval DEF SendFrames
<1>3. IsFiniteSet(SendFrames(t, w)) /\ Cardinality(SendFrames(t, w)) \in Nat
  BY <1>2, FS_Subset, FS_CardinalityType
<1> QED
  BY <1>3 DEF Holds

LEMMA CallersFinite ==
  ASSUME NEW w
  PROVE  /\ IsFiniteSet(Callers(w)) /\ Cardinality(Callers(w)) \in Nat
         /\ IsFiniteSet(Calling) /\ Cardinality(Calling) \in Nat
<1>1. Callers(w) \in SUBSET Threads /\ Calling \in SUBSET Threads
  BY DEF Callers, Calling
<1> QED
  BY <1>1, FiniteAssumption, FS_Subset, FS_CardinalityType

LEMMA FrameRefsIs ==
  ASSUME NEW w
  PROVE  /\ \A x \in FrameRefs(w) : \E t \in Threads : \E i \in InFrame(t, w) : x = <<t, i>>
         /\ \A t \in Threads : \A i : <<t, i>> \in FrameRefs(w) <=> i \in InFrame(t, w)
         /\ \A x \in FrameRefs(w)' : \E t \in Threads : \E i \in InFrame(t, w)' : x = <<t, i>>
         /\ \A t \in Threads : \A i : <<t, i>> \in FrameRefs(w)' <=> i \in InFrame(t, w)'
  BY DEF FrameRefs

\* The frames of w change by those of one thread.
LEMMA FramesSame ==
  ASSUME NEW w, \A t \in Threads : InFrame(t, w)' = InFrame(t, w)
  PROVE  FrameRefs(w)' = FrameRefs(w)
  BY FrameRefsIs

LEMMA FrameAdded ==
  ASSUME NEW w, NEW t \in Threads, NEW n, n \notin InFrame(t, w),
         IsFiniteSet(FrameRefs(w)),
         \A u \in Threads \ {t} : InFrame(u, w)' = InFrame(u, w),
         InFrame(t, w)' = InFrame(t, w) \cup {n}
  PROVE  /\ IsFiniteSet(FrameRefs(w)')
         /\ Cardinality(FrameRefs(w)') = Cardinality(FrameRefs(w)) + 1
<1>1. <<t, n>> \notin FrameRefs(w)
  BY FrameRefsIs
<1>2. FrameRefs(w)' = FrameRefs(w) \cup {<<t, n>>}
  <2>1. \A x \in FrameRefs(w)' : x \in FrameRefs(w) \cup {<<t, n>>}
    BY FrameRefsIs
  <2>2. \A x \in FrameRefs(w) : x \in FrameRefs(w)'
    BY FrameRefsIs
  <2>3. <<t, n>> \in FrameRefs(w)'
    BY FrameRefsIs
  <2> QED
    BY <2>1, <2>2, <2>3
<1> QED
  BY <1>1, <1>2, FS_AddElement

LEMMA FrameRemoved ==
  ASSUME NEW w, NEW t \in Threads, NEW n \in InFrame(t, w),
         IsFiniteSet(FrameRefs(w)),
         \A u \in Threads \ {t} : InFrame(u, w)' = InFrame(u, w),
         InFrame(t, w)' = InFrame(t, w) \ {n}
  PROVE  /\ IsFiniteSet(FrameRefs(w)')
         /\ Cardinality(FrameRefs(w)') = Cardinality(FrameRefs(w)) - 1
<1>1. <<t, n>> \in FrameRefs(w)
  BY FrameRefsIs
<1>2. FrameRefs(w)' = FrameRefs(w) \ {<<t, n>>}
  <2>1. \A x \in FrameRefs(w)' : x \in FrameRefs(w) /\ x # <<t, n>>
    BY FrameRefsIs
  <2>2. \A x \in FrameRefs(w) : x # <<t, n>> => x \in FrameRefs(w)'
    BY FrameRefsIs
  <2> QED
    BY <2>1, <2>2
<1> QED
  BY <1>1, <1>2, FS_RemoveElement

-----------------------------------------------------------------------------
(***************************************************************************)
(* What a step of one thread does to the two counters of a window.         *)
(***************************************************************************)
LEMMA OthersKept ==
  ASSUME NEW t \in Threads, Alone(t), NEW u \in Threads \ {t}, NEW w
  PROVE  /\ Holds(u, w)' = Holds(u, w) /\ InFrame(u, w)' = InFrame(u, w)
         /\ u \in Callers(w)' <=> u \in Callers(w)
         /\ u \in Calling' <=> u \in Calling
<1>1. pc'[u] = pc[u] /\ stack'[u] = stack[u] /\ arg'[u] = arg[u]
  BY DEF Alone
<1>2. SendFrames(u, w)' = SendFrames(u, w) /\ (LocksNow(u, w)' <=> LocksNow(u, w))
  BY <1>1 DEF SendFrames, LocksNow, Top
<1>3. Holds(u, w)' = Holds(u, w)
  BY <1>2 DEF Holds
<1> QED
  BY <1>1, <1>3 DEF InFrame, Callers, Calling

\* The locks are left alone.
LEMMA LocksKept ==
  ASSUME IInv, NEW t \in Threads, Alone(t), UNCHANGED <<owner, depth>>,
         \A w \in Windows : Holds(t, w)' = Holds(t, w)
  PROVE  LocksCounted'
<1>1. \A u \in Threads, w \in Windows : Holds(u, w)' = Holds(u, w)
  BY OthersKept
<1> QED
  BY <1>1 DEF IInv, LocksCounted

LEMMA LockTaken ==
  ASSUME IInv, NEW t \in Threads, Alone(t), NEW v \in Windows, LockWindow(t, v),
         Holds(t, v)' = Holds(t, v) + 1,
         \A w \in Windows : w # v => Holds(t, w)' = Holds(t, w)
  PROVE  /\ LocksCounted'
         /\ owner' \in [Windows -> Threads \cup {None}] /\ depth' \in [Windows -> Nat]
<1> USE DEF IInv
<1>1. owner \in [Windows -> Threads \cup {None}] /\ depth \in [Windows -> Nat]
  BY DEF TypeOK
<1>2. /\ owner[v] \in {None, t} /\ depth[v] \in Nat
      /\ owner'[v] = t /\ depth'[v] = depth[v] + 1
      /\ \A w \in Windows : w # v => owner'[w] = owner[w] /\ depth'[w] = depth[w]
  BY <1>1 DEF LockWindow, CanLock
<1>3. owner' \in [Windows -> Threads \cup {None}] /\ depth' \in [Windows -> Nat]
  BY <1>1 DEF LockWindow
<1>4. \A u \in Threads \ {t}, w \in Windows : Holds(u, w)' = Holds(u, w)
  BY OthersKept
<1>5. ASSUME NEW w \in Windows, w # v
      PROVE  /\ \A u \in Threads : Holds(u, w)' = IF owner'[w] = u THEN depth'[w] ELSE 0
             /\ owner'[w] = None <=> depth'[w] = 0
  BY <1>2, <1>4, <1>5 DEF LocksCounted
<1>6. /\ \A u \in Threads : Holds(u, v)' = IF owner'[v] = u THEN depth'[v] ELSE 0
      /\ owner'[v] = None <=> depth'[v] = 0
  <2>1. Holds(t, v) = depth[v]
    BY <1>2, NoneAssumption DEF LocksCounted
  <2>2. \A u \in Threads \ {t} : Holds(u, v)' = 0
    BY <1>2, <1>4, NoneAssumption DEF LocksCounted
  <2>3. owner'[v] # None /\ depth'[v] # 0
    BY <1>2, NoneAssumption
  <2> QED
    BY <1>2, <2>1, <2>2, <2>3
<1>7. LocksCounted'
  BY <1>5, <1>6 DEF LocksCounted
<1> QED
  BY <1>3, <1>7

LEMMA LockFreed ==
  ASSUME IInv, NEW t \in Threads, Alone(t), NEW v \in Windows, UnlockWindow(v),
         Holds(t, v) > 0, Holds(t, v)' = Holds(t, v) - 1,
         \A w \in Windows : w # v => Holds(t, w)' = Holds(t, w)
  PROVE  /\ LocksCounted'
         /\ owner' \in [Windows -> Threads \cup {None}] /\ depth' \in [Windows -> Nat]
<1> USE DEF IInv
<1>1. owner \in [Windows -> Threads \cup {None}] /\ depth \in [Windows -> Nat]
  BY DEF TypeOK
<1>2. owner[v] = t /\ Holds(t, v) = depth[v] /\ depth[v] \in Nat \ {0}
  BY <1>1 DEF LocksCounted
<1>3. /\ owner'[v] = (IF depth[v] = 1 THEN None ELSE t) /\ depth'[v] = depth[v] - 1
      /\ \A w \in Windows : w # v => owner'[w] = owner[w] /\ depth'[w] = depth[w]
  BY <1>1, <1>2 DEF UnlockWindow
<1>4. owner' \in [Windows -> Threads \cup {None}] /\ depth' \in [Windows -> Nat]
  BY <1>1, <1>2 DEF UnlockWindow
<1>5. \A u \in Threads \ {t}, w \in Windows : Holds(u, w)' = Holds(u, w)
  BY OthersKept
<1>6. ASSUME NEW w \in Windows, w # v
      PROVE  /\ \A u \in Threads : Holds(u, w)' = IF owner'[w] = u THEN depth'[w] ELSE 0
             /\ owner'[w] = None <=> depth'[w] = 0
  BY <1>3, <1>5, <1>6 DEF LocksCounted
<1>7. /\ \A u \in Threads : Holds(u, v)' = IF owner'[v] = u THEN depth'[v] ELSE 0
      /\ owner'[v] = None <=> depth'[v] = 0
  <2>1. \A u \in Threads \ {t} : Holds(u, v)' = 0
    BY <1>2, <1>5 DEF LocksCounted
  <2>2. Holds(t, v)' = depth'[v]
    BY <1>2, <1>3
  <2>3. CASE depth[v] = 1
    BY <1>3, <2>1, <2>2, <2>3, NoneAssumption
  <2>4. CASE depth[v] # 1
    BY <1>2, <1>3, <2>1, <2>2, <2>4, NoneAssumption
  <2> QED
    BY <2>3, <2>4
<1>8. LocksCounted'
  BY <1>6, <1>7 DEF LocksCounted
<1> QED
  BY <1>4, <1>8

\* The threads that call change by one.
LEMMA CallersSame ==
  ASSUME NEW t \in Threads, Alone(t), NEW w, t \in Callers(w)' <=> t \in Callers(w)
  PROVE  Callers(w)' = Callers(w)
<1>1. Callers(w) \subseteq Threads /\ Callers(w)' \subseteq Threads
  BY DEF Callers, Calling
<1> QED
  BY <1>1, OthersKept

LEMMA CallerAdded ==
  ASSUME NEW t \in Threads, Alone(t), NEW w, t \notin Callers(w), t \in Callers(w)'
  PROVE  Cardinality(Callers(w)') = Cardinality(Callers(w)) + 1
<1>1. Callers(w) \subseteq Threads /\ Callers(w)' \subseteq Threads
  BY DEF Callers, Calling
<1>2. Callers(w)' = Callers(w) \cup {t}
  BY <1>1, OthersKept
<1> QED
  BY <1>2, CallersFinite, FS_AddElement

LEMMA CallerRemoved ==
  ASSUME NEW t \in Threads, Alone(t), NEW w, t \in Callers(w), t \notin Callers(w)'
  PROVE  Cardinality(Callers(w)') = Cardinality(Callers(w)) - 1
<1>1. Callers(w) \subseteq Threads /\ Callers(w)' \subseteq Threads
  BY DEF Callers, Calling
<1>2. Callers(w)' = Callers(w) \ {t}
  BY <1>1, OthersKept
<1> QED
  BY <1>2, CallersFinite, FS_RemoveElement

LEMMA CallingSame ==
  ASSUME NEW t \in Threads, Alone(t), t \in Calling' <=> t \in Calling
  PROVE  Calling' = Calling
<1>1. Calling \subseteq Threads /\ Calling' \subseteq Threads
  BY DEF Calling
<1> QED
  BY <1>1, OthersKept

LEMMA CallingAdded ==
  ASSUME NEW t \in Threads, Alone(t), t \notin Calling, t \in Calling'
  PROVE  Cardinality(Calling') = Cardinality(Calling) + 1
<1>1. Calling \subseteq Threads /\ Calling' \subseteq Threads
  BY DEF Calling
<1>2. Calling' = Calling \cup {t}
  BY <1>1, OthersKept
<1> QED
  BY <1>2, CallersFinite, FS_AddElement

LEMMA CallingRemoved ==
  ASSUME NEW t \in Threads, Alone(t), t \in Calling, t \notin Calling'
  PROVE  /\ Cardinality(Calling') = Cardinality(Calling) - 1
         /\ Cardinality(Calling) >= 1
<1>1. Calling \subseteq Threads /\ Calling' \subseteq Threads
  BY DEF Calling
<1>2. Calling' = Calling \ {t}
  BY <1>1, OthersKept
<1>3. Cardinality(Calling') = Cardinality(Calling) - 1 /\ IsFiniteSet(Calling')
  BY <1>2, CallersFinite, FS_RemoveElement
<1>4. Cardinality(Calling') \in Nat /\ Cardinality(Calling) \in Nat
  BY <1>3, CallersFinite, FS_CardinalityType
<1> QED
  BY <1>3, <1>4

\* The references of a window the step does not concern.
LEMMA CountedSame ==
  ASSUME IInv, NEW t \in Threads, Alone(t), NEW w \in Windows,
         cRef'[w] = cRef[w], MapRef(w)' = MapRef(w),
         t \in Callers(w)' <=> t \in Callers(w), InFrame(t, w)' = InFrame(t, w)
  PROVE  Counted(w)'
<1>1. Callers(w)' = Callers(w)
  BY CallersSame
<1>2. FrameRefs(w)' = FrameRefs(w)
  BY OthersKept, FramesSame
<1> QED
  BY <1>1, <1>2 DEF IInv, RefsCounted, Counted

LEMMA CountedNat ==
  ASSUME NEW w, Counted(w)'
  PROVE  cRef'[w] \in Nat
<1>1. Callers(w)' \in SUBSET Threads
  BY DEF Callers, Calling
<1>2. Cardinality(Callers(w)') \in Nat /\ Cardinality(FrameRefs(w)') \in Nat
  BY <1>1, FiniteAssumption, FS_Subset, FS_CardinalityType DEF Counted
<1> QED
  BY <1>2 DEF Counted, MapRef

LEMMA CountsAreNat ==
  ASSUME IInv, NEW w \in Windows
  PROVE  /\ Cardinality(Callers(w)) \in Nat /\ Cardinality(FrameRefs(w)) \in Nat
         /\ cRef[w] \in Nat /\ MapRef(w) \in {0, 1}
         /\ IsFiniteSet(FrameRefs(w))
         /\ cRef[w] = Cardinality(Callers(w)) + Cardinality(FrameRefs(w)) + MapRef(w)
  BY CallersFinite, FS_CardinalityType DEF IInv, RefsCounted, Counted, TypeOK, MapRef

\* The frames of t after a push or a pop.
LEMMA PushedFrames ==
  ASSUME TypeOK, NEW t \in Threads, NEW f \in Frames, Push(t, f), NEW w,
         pc[t] # "dispatch"
  PROVE  /\ SendFrames(t, w)' = SendFrames(t, w)
              \cup (IF f.kind = "send" /\ f.window = w THEN {Len(stack[t]) + 1} ELSE {})
         /\ Len(stack[t]) + 1 \notin SendFrames(t, w)
         /\ InFrame(t, w)' = InFrame(t, w)
              \cup (IF f.window = w /\ pc'[t] # "dispatch" THEN {Len(stack[t]) + 1} ELSE {})
         /\ Len(stack[t]) + 1 \notin InFrame(t, w)
<1>1. PICK n \in Nat : n = Len(stack[t])
  BY StackPush
<1>2. /\ DOMAIN stack[t] = 1..n /\ DOMAIN stack'[t] = 1..(n + 1) /\ Len(stack'[t]) = n + 1
      /\ \A i \in 1..n : stack'[t][i] = stack[t][i]
      /\ stack'[t][n + 1] = f
  BY <1>1, StackPush
<1>3. n + 1 \notin 1..n /\ \A i \in 1..(n + 1) : i = n + 1 \/ i \in 1..n
  BY <1>1
<1>4. n + 1 \notin SendFrames(t, w) /\ n + 1 \notin InFrame(t, w)
  BY <1>2, <1>3 DEF SendFrames, InFrame
<1>5. SendFrames(t, w)' = SendFrames(t, w)
        \cup (IF f.kind = "send" /\ f.window = w THEN {n + 1} ELSE {})
  BY <1>2, <1>3 DEF SendFrames
<1>6. InFrame(t, w)' = InFrame(t, w)
        \cup (IF f.window = w /\ pc'[t] # "dispatch" THEN {n + 1} ELSE {})
  BY <1>2, <1>3 DEF InFrame
<1> QED
  BY <1>1, <1>4, <1>5, <1>6

LEMMA PoppedFrames ==
  ASSUME TypeOK, NEW t \in Threads, stack[t] # << >>, Pop(t), NEW w,
         pc[t] # "dispatch", pc'[t] # "dispatch"
  PROVE  /\ SendFrames(t, w)' = SendFrames(t, w) \ {Len(stack[t])}
         /\ Len(stack[t]) \in SendFrames(t, w) <=> Top(t).kind = "send" /\ Top(t).window = w
         /\ InFrame(t, w)' = InFrame(t, w) \ {Len(stack[t])}
         /\ Len(stack[t]) \in InFrame(t, w) <=> Top(t).window = w
<1>1. PICK n \in Nat \ {0} : n = Len(stack[t])
  BY StackPop
<1>2. /\ DOMAIN stack[t] = 1..n /\ DOMAIN stack'[t] = 1..(n - 1)
      /\ \A i \in 1..(n - 1) : stack'[t][i] = stack[t][i]
      /\ Top(t) = stack[t][n]
  BY <1>1, StackPop, TopIs
<1>3. /\ n \notin 1..(n - 1) /\ n \in 1..n /\ 1..(n - 1) \subseteq 1..n
      /\ \A i \in 1..n : i = n \/ i \in 1..(n - 1)
  BY <1>1
<1>4. SendFrames(t, w)' = SendFrames(t, w) \ {n}
  BY <1>2, <1>3 DEF SendFrames
<1>5. n \in SendFrames(t, w) <=> Top(t).kind = "send" /\ Top(t).window = w
  BY <1>2, <1>3 DEF SendFrames
<1>6. InFrame(t, w)' = InFrame(t, w) \ {n} /\ (n \in InFrame(t, w) <=> Top(t).window = w)
  BY <1>2, <1>3 DEF InFrame
<1> QED
  BY <1>1, <1>4, <1>5, <1>6

-----------------------------------------------------------------------------
(***************************************************************************)
(* Messages, queues and replies.                                           *)
(***************************************************************************)
MsgType == [window : Windows, sent : BOOLEAN, at : {"queued", "peeked", "done", "dropped"}]

MsgsKept ==
  /\ Posted' \in Nat /\ Posted <= Posted'
  /\ \A m \in 1..Posted : msgs'[m].window = msgs[m].window

LEMMA PostedNat == ASSUME TypeOK PROVE Posted \in Nat /\ msgs \in Seq(MsgType)
<1>1. msgs \in Seq(MsgType)
  BY DEF TypeOK, MsgType
<1> QED
  BY <1>1 DEF Posted

LEMMA MsgsUnchanged == ASSUME TypeOK, UNCHANGED msgs PROVE MsgsKept /\ Posted' = Posted
  BY PostedNat DEF MsgsKept, Posted

LEMMA MsgAppended ==
  ASSUME TypeOK, NEW r \in MsgType, msgs' = Append(msgs, r)
  PROVE  /\ msgs' \in Seq(MsgType) /\ MsgsKept /\ Posted' = Posted + 1
         /\ msgs'[Posted + 1] = r
<1>1. msgs \in Seq(MsgType)
  BY PostedNat
<1> QED
  BY <1>1 DEF MsgsKept, Posted

LEMMA MsgMarked ==
  ASSUME TypeOK, NEW m \in 1..Posted, NEW l \in {"queued", "peeked", "done", "dropped"},
         msgs' = [msgs EXCEPT ![m].at = l]
  PROVE  msgs' \in Seq(MsgType) /\ MsgsKept /\ Posted' = Posted
<1>1. msgs \in Seq(MsgType) /\ Posted \in Nat
  BY PostedNat
<1>2. PICK r \in MsgType : r = msgs[m]
  BY <1>1 DEF Posted
<1>3. [r EXCEPT !.at = l] \in MsgType /\ [r EXCEPT !.at = l].window = r.window
  BY DEF MsgType
<1>4. PICK q \in MsgType : q = [r EXCEPT !.at = l] /\ q.window = r.window
  BY <1>3
<1>5. msgs' = [msgs EXCEPT ![m] = q]
  BY <1>2, <1>4
<1>6. /\ msgs' \in Seq(MsgType) /\ Len(msgs') = Len(msgs)
      /\ msgs'[m] = q /\ \A k \in 1..Len(msgs) : k # m => msgs'[k] = msgs[k]
  BY <1>1, <1>5 DEF Posted
<1> QED
  BY <1>1, <1>2, <1>4, <1>6 DEF MsgsKept, Posted

LEMMA RoomIsForIds ==
  ASSUME IInv
  PROVE  Posted \in Nat /\ Posted <= MaxMsgs /\ MaxMsgs \in Nat
         /\ \A m \in 1..Posted : m \in Ids /\ msgs[m] \in MsgType
<1>1. Posted \in Nat /\ msgs \in Seq(MsgType) /\ MaxMsgs \in Nat
  BY PostedNat, BoundsAssumption DEF IInv
<1>2. Cardinality(Calling) \in Nat
  BY CallersFinite
<1>3. Posted <= MaxMsgs
  BY <1>1, <1>2 DEF IInv, Room
<1> QED
  BY <1>1, <1>3 DEF Ids, Posted

LEMMA QueuesKept ==
  ASSUME IInv, MsgsKept, UNCHANGED queue
  PROVE  Queues'
<1>1. Posted \in Nat
  BY PostedNat DEF IInv
<1> QED
  BY <1>1 DEF IInv, Queues, MsgsKept

LEMMA HeadIs ==
  ASSUME IInv, NEW t \in Threads, queue[t] # << >>
  PROVE  /\ Head(queue[t]) \in 1..Posted /\ Head(queue[t]) \in Ids
         /\ msgs[Head(queue[t])].window \in Windows
         /\ OwnerOf[msgs[Head(queue[t])].window] = t
<1>1. PICK s \in Seq(Ids) : s = queue[t]
  BY DEF IInv, TypeOK
<1>2. 1 \in DOMAIN s /\ Head(s) = s[1]
  BY <1>1
<1>3. s[1] \in 1..Posted /\ OwnerOf[msgs[s[1]].window] = t
  BY <1>1, <1>2 DEF IInv, Queues
<1>4. msgs[s[1]].window \in Windows /\ s[1] \in Ids
  BY <1>3, RoomIsForIds DEF MsgType
<1> QED
  BY <1>1, <1>2, <1>3, <1>4

LEMMA QueueTail ==
  ASSUME IInv, NEW t \in Threads, queue[t] # << >>, MsgsKept,
         queue' = [queue EXCEPT ![t] = Tail(@)]
  PROVE  queue' \in [Threads -> Seq(Ids)] /\ Queues'
<1>1. queue \in [Threads -> Seq(Ids)] /\ queue[t] \in Seq(Ids)
  BY DEF IInv, TypeOK
<1>2. PICK s \in Seq(Ids) : s = queue[t] /\ s # << >>
  BY <1>1
<1>3. /\ Tail(s) \in Seq(Ids) /\ Len(s) \in Nat /\ DOMAIN s = 1..Len(s)
      /\ \A i \in DOMAIN Tail(s) : i + 1 \in DOMAIN s /\ Tail(s)[i] = s[i + 1]
  BY <1>2
<1>4. queue'[t] = Tail(s) /\ \A u \in Threads \ {t} : queue'[u] = queue[u]
  BY <1>1, <1>2
<1>5. \A u \in Threads : \A i \in DOMAIN queue'[u] : \E j \in DOMAIN queue[u] : queue'[u][i] = queue[u][j]
  BY <1>2, <1>3, <1>4
<1>6. Posted \in Nat
  BY PostedNat DEF IInv
<1>7. Queues'
  <2> SUFFICES ASSUME NEW u \in Threads, NEW i \in DOMAIN queue'[u]
               PROVE  queue'[u][i] \in 1..Posted' /\ OwnerOf[msgs'[queue'[u][i]].window] = u
    BY DEF Queues
  <2>1. PICK j \in DOMAIN queue[u] : queue'[u][i] = queue[u][j]
    BY <1>5
  <2> QED
    BY <1>6, <2>1 DEF IInv, Queues, MsgsKept
<1>8. queue' \in [Threads -> Seq(Ids)]
  BY <1>1, <1>2, <1>3
<1> QED
  BY <1>7, <1>8

LEMMA EnqueueStep ==
  ASSUME IInv, NEW t \in Threads, NEW w \in Windows, NEW sent \in BOOLEAN,
         Posted < MaxMsgs, Enqueue(t, w, sent)
  PROVE  /\ msgs' \in Seq(MsgType) /\ MsgsKept /\ Posted' = Posted + 1
         /\ Posted + 1 \in Ids
         /\ queue' \in [Threads -> Seq(Ids)] /\ Queues'
         /\ refs' \in [Ids -> 0..1]
<1>1. Posted \in Nat /\ MaxMsgs \in Nat
  BY RoomIsForIds
<1>2. PICK r \in MsgType : r = [window |-> w, sent |-> sent, at |-> "queued"]
  BY DEF MsgType
<1>3. /\ msgs' = Append(msgs, r)
      /\ queue' = [queue EXCEPT ![OwnerOf[w]] = Append(@, Posted + 1)]
      /\ refs' = [refs EXCEPT ![Posted + 1] = 1]
  BY <1>2 DEF Enqueue
<1>4. /\ msgs' \in Seq(MsgType) /\ MsgsKept /\ Posted' = Posted + 1 /\ msgs'[Posted + 1] = r
  BY <1>3, MsgAppended DEF IInv
<1>5. Posted + 1 \in Ids
  BY <1>1 DEF Ids
<1>6. PICK o \in Threads : o = OwnerOf[w]
  BY OwnerOfAssumption
<1>7. queue \in [Threads -> Seq(Ids)]
  BY DEF IInv, TypeOK
<1>8. PICK s \in Seq(Ids) : s = queue[o]
  BY <1>7
<1>9. /\ Append(s, Posted + 1) \in Seq(Ids) /\ DOMAIN s = 1..Len(s) /\ Len(s) \in Nat
      /\ \A i \in DOMAIN Append(s, Posted + 1) :
           \/ i \in DOMAIN s /\ Append(s, Posted + 1)[i] = s[i]
           \/ Append(s, Posted + 1)[i] = Posted + 1
  BY <1>5
<1>10. queue'[o] = Append(s, Posted + 1) /\ \A u \in Threads \ {o} : queue'[u] = queue[u]
  BY <1>3, <1>6, <1>7, <1>8
<1>11. queue' \in [Threads -> Seq(Ids)]
  BY <1>3, <1>6, <1>7, <1>8, <1>9
<1>12. Queues'
  <2> SUFFICES ASSUME NEW u \in Threads, NEW i \in DOMAIN queue'[u]
               PROVE  queue'[u][i] \in 1..Posted' /\ OwnerOf[msgs'[queue'[u][i]].window] = u
    BY DEF Queues
  <2>1. \/ i \in DOMAIN queue[u] /\ queue'[u][i] = queue[u][i]
        \/ u = o /\ queue'[u][i] = Posted + 1
    BY <1>8, <1>9, <1>10
  <2>2. CASE i \in DOMAIN queue[u] /\ queue'[u][i] = queue[u][i]
    BY <1>1, <1>4, <2>2 DEF IInv, Queues, MsgsKept
  <2>3. CASE u = o /\ queue'[u][i] = Posted + 1
    <3>1. msgs'[Posted + 1].window = w
      BY <1>2, <1>4
    <3> QED
      BY <1>1, <1>4, <1>6, <2>3, <3>1
  <2> QED
    BY <2>1, <2>2, <2>3
<1>13. refs' \in [Ids -> 0..1]
  <2>1. refs \in [Ids -> 0..1]
    BY DEF IInv, TypeOK
  <2>2. 1 \in 0..1
    OBVIOUS
  <2> QED
    BY <1>3, <2>1, <2>2
<1> QED
  BY <1>4, <1>5, <1>11, <1>12, <1>13

LEMMA ReleasedType ==
  ASSUME TypeOK, NEW m \in Ids, Released(m)
  PROVE  /\ refs' \in [Ids -> 0..1]
         /\ replied' \in [Ids -> [hasResult : BOOLEAN, event : BOOLEAN]]
         /\ touched' \in BOOLEAN
<1>1. refs' \in [Ids -> 0..1]
  <2>1. refs \in [Ids -> 0..1] /\ refs[m] \in 0..1
    BY DEF TypeOK
  <2>2. (IF refs[m] > 0 THEN refs[m] - 1 ELSE refs[m]) \in 0..1
    BY <2>1
  <2> QED
    BY <2>1, <2>2 DEF Released
<1>2. replied' \in [Ids -> [hasResult : BOOLEAN, event : BOOLEAN]]
  <2> DEFINE R == [hasResult : BOOLEAN, event : BOOLEAN]
  <2>1. PICK r \in R : r = replied[m]
    BY DEF TypeOK
  <2>2. PICK e \in BOOLEAN : replied' = [replied EXCEPT ![m] = [r EXCEPT !.event = e]]
    <3>1. PICK e : e = (r.event \/ (refs[m] = 1 /\ msgs[m].sent /\ ~replied[m].hasResult))
      OBVIOUS
    <3>2. e \in BOOLEAN
      BY <3>1
    <3> QED
      BY <2>1, <3>1, <3>2 DEF Released
  <2>3. [r EXCEPT !.event = e] \in R
    OBVIOUS
  <2> QED
    BY <2>2, <2>3 DEF TypeOK
<1>3. touched' \in BOOLEAN
  BY DEF Released
<1> QED
  BY <1>1, <1>2, <1>3

-----------------------------------------------------------------------------
(***************************************************************************)
(* What a step of one thread does to the rest of the invariant.            *)
(***************************************************************************)
LEMMA PlacedKept ==
  ASSUME IInv, NEW t \in Threads, Alone(t), PlacedAt(t)'
  PROVE  Placed'
<1> SUFFICES ASSUME NEW u \in Threads \ {t} PROVE PlacedAt(u)'
  BY DEF Placed
<1>1. PlacedAt(u)
  BY DEF IInv, Placed
<1> QED
  BY <1>1 DEF PlacedAt, Alone, Top, Calling

LEMMA PeekingKept ==
  ASSUME IInv, NEW t \in Threads, Alone(t), UNCHANGED qowner,
         pc[t] # "peek", pc'[t] # "peek"
  PROVE  Peeking'
  BY DEF IInv, Peeking, Alone

LEMMA StacksKept ==
  ASSUME IInv, MsgsKept, UNCHANGED stack
  PROVE  Stacks'
<1> SUFFICES ASSUME NEW u \in Threads, NEW i \in DOMAIN stack[u]
             PROVE  /\ stack[u][i].msg <= Posted'
                    /\ stack[u][i].kind = "proc" => OwnerOf[stack[u][i].window] = u
                    /\ stack[u][i].kind = "send" => stack[u][i].msg # 0
  BY DEF Stacks
<1>1. stack[u][i].msg \in 0..MaxMsgs /\ stack[u][i].msg <= Posted /\ Posted \in Nat
  BY FrameIs, PostedNat DEF IInv, Stacks
<1> QED
  BY <1>1, BoundsAssumption DEF IInv, Stacks, MsgsKept

LEMMA StacksPopped ==
  ASSUME IInv, NEW t \in Threads, stack[t] # << >>, Pop(t), UNCHANGED msgs
  PROVE  Stacks'
<1>1. /\ \A u \in Threads \ {t} : stack'[u] = stack[u]
      /\ \A i \in DOMAIN stack'[t] : i \in DOMAIN stack[t] /\ stack'[t][i] = stack[t][i]
  BY StackPop DEF IInv
<1>2. Posted' = Posted
  BY DEF Posted
<1> QED
  BY <1>1, <1>2 DEF IInv, Stacks

LEMMA StacksPushed ==
  ASSUME IInv, NEW t \in Threads, NEW f \in Frames, Push(t, f), MsgsKept,
         f.msg <= Posted', f.kind = "proc" => OwnerOf[f.window] = t,
         f.kind = "send" => f.msg # 0
  PROVE  Stacks'
<1> SUFFICES ASSUME NEW u \in Threads, NEW i \in DOMAIN stack'[u]
             PROVE  /\ stack'[u][i].msg <= Posted'
                    /\ stack'[u][i].kind = "proc" => OwnerOf[stack'[u][i].window] = u
                    /\ stack'[u][i].kind = "send" => stack'[u][i].msg # 0
  BY DEF Stacks
<1>1. \/ u = t /\ stack'[u][i] = f
      \/ i \in DOMAIN stack[u] /\ stack'[u][i] = stack[u][i]
  <2>1. CASE u = t
    BY <2>1, StackPush DEF IInv
  <2>2. CASE u # t
    BY <2>2, StackPush DEF IInv
  <2> QED
    BY <2>1, <2>2
<1>2. CASE u = t /\ stack'[u][i] = f
  BY <1>2
<1>3. CASE i \in DOMAIN stack[u] /\ stack'[u][i] = stack[u][i]
  <2>1. stack[u][i].msg \in 0..MaxMsgs /\ stack[u][i].msg <= Posted /\ Posted \in Nat
    BY <1>3, FrameIs, PostedNat DEF IInv, Stacks
  <2>2. stack'[u][i].msg <= Posted'
    BY <1>3, <2>1, BoundsAssumption DEF MsgsKept
  <2> QED
    BY <1>3, <2>2 DEF IInv, Stacks
<1> QED
  BY <1>1, <1>2, <1>3

LEMMA RunningKept ==
  ASSUME IInv, UNCHANGED stack,
         \A w \in Windows : life'[w] = "freed" => life[w] = "freed"
  PROVE  RunningIsMapped'
<1> SUFFICES ASSUME NEW u \in Threads, NEW i \in DOMAIN stack[u], stack[u][i].kind = "proc"
             PROVE  life'[stack[u][i].window] # "freed"
  BY DEF RunningIsMapped
<1>1. stack[u][i].window \in Windows
  BY FrameIs DEF IInv
<1> QED
  BY <1>1 DEF IInv, RunningIsMapped

LEMMA RunningPushed ==
  ASSUME IInv, NEW t \in Threads, NEW f \in Frames, Push(t, f), UNCHANGED life,
         f.kind = "proc" => life[f.window] # "freed"
  PROVE  RunningIsMapped'
<1> SUFFICES ASSUME NEW u \in Threads, NEW i \in DOMAIN stack'[u], stack'[u][i].kind = "proc"
             PROVE  life[stack'[u][i].window] # "freed"
  BY DEF RunningIsMapped
<1>1. \/ u = t /\ stack'[u][i] = f
      \/ i \in DOMAIN stack[u] /\ stack'[u][i] = stack[u][i]
  <2>1. CASE u = t
    BY <2>1, StackPush DEF IInv
  <2>2. CASE u # t
    BY <2>2, StackPush DEF IInv
  <2> QED
    BY <2>1, <2>2
<1> QED
  BY <1>1 DEF IInv, RunningIsMapped

LEMMA RunningPopped ==
  ASSUME IInv, NEW t \in Threads, stack[t] # << >>, Pop(t), UNCHANGED life
  PROVE  RunningIsMapped'
<1>1. /\ \A u \in Threads \ {t} : stack'[u] = stack[u]
      /\ \A i \in DOMAIN stack'[t] : i \in DOMAIN stack[t] /\ stack'[t][i] = stack[t][i]
  BY StackPop DEF IInv
<1> QED
  BY <1>1 DEF IInv, RunningIsMapped

\* What t holds when its stack stays as it is.
LEMMA HoldsBy ==
  ASSUME TypeOK, NEW t \in Threads, UNCHANGED stack, NEW w
  PROVE  /\ (LocksNow(t, w)' <=> LocksNow(t, w)) => Holds(t, w)' = Holds(t, w)
         /\ ~LocksNow(t, w) /\ LocksNow(t, w)' => Holds(t, w)' = Holds(t, w) + 1
         /\ LocksNow(t, w) /\ ~LocksNow(t, w)' => Holds(t, w)' = Holds(t, w) - 1
         /\ LocksNow(t, w) => Holds(t, w) > 0
<1>1. SendFrames(t, w)' = SendFrames(t, w)
  BY DEF SendFrames
<1>2. PICK n \in Nat : n = Cardinality(SendFrames(t, w))
  BY SendFramesFinite
<1>3. /\ Holds(t, w) = n + (IF LocksNow(t, w) THEN 1 ELSE 0)
      /\ Holds(t, w)' = n + (IF LocksNow(t, w)' THEN 1 ELSE 0)
  BY <1>1, <1>2 DEF Holds
<1> QED
  BY <1>3

-----------------------------------------------------------------------------
LEMMA LookupStep ==
  ASSUME IInv, NEW t \in Threads, NEW w \in Windows, NEW l \in {"findPost", "findSend"},
         pc[t] = "app", RoomForOne, Lookup(t, w, l)
  PROVE  IInv'
<1> USE DEF IInv
<1>1. /\ cRef' = [cRef EXCEPT ![w] = @ + 1] /\ pc' = [pc EXCEPT ![t] = l]
      /\ arg' = [arg EXCEPT ![t] = w]
      /\ UNCHANGED <<life, owner, depth, qowner, queue, msgs, stack, refs, replied, touched, directs>>
  BY DEF Lookup, AddRef, locks, replies
<1>2. TypeOK'
  <2>0. cRef \in [Windows -> Nat] /\ arg \in [Threads -> Windows \cup {None}]
    BY DEF TypeOK
  <2>1. cRef' \in [Windows -> Nat] /\ arg' \in [Threads -> Windows \cup {None}]
    BY <1>1, <2>0
  <2>2. pc' \in [Threads -> {"app", "findPost", "findSend", "post", "send", "wait", "peek", "dispatch", "after"}]
    BY <1>1 DEF TypeOK
  <2> QED
    BY <1>1, <2>1, <2>2 DEF TypeOK
<1>3. Alone(t) /\ pc'[t] = l /\ arg'[t] = w
  BY <1>1 DEF Alone, TypeOK
<1>4. t \notin Calling /\ t \in Calling'
  BY <1>3 DEF Calling
<1>5. MsgsKept /\ Posted' = Posted
  BY <1>1, MsgsUnchanged
<1>6. Room'
  <2>1. Cardinality(Calling') = Cardinality(Calling) + 1
    BY <1>3, <1>4, CallingAdded
  <2>2. Cardinality(Calling) \in Nat /\ Posted \in Nat /\ MaxMsgs \in Nat
    BY CallersFinite, RoomIsForIds
  <2>3. Posted + Cardinality(Calling) < MaxMsgs
    BY DEF RoomForOne
  <2>4. Posted' + Cardinality(Calling') <= MaxMsgs
    BY <1>5, <2>1, <2>2, <2>3
  <2> QED
    BY <2>4 DEF Room
<1>7. Placed'
  BY <1>3, PlacedKept DEF PlacedAt
<1>8. Peeking'
  BY <1>1, <1>3, PeekingKept
<1>9. Queues' /\ Stacks' /\ RunningIsMapped'
  BY <1>1, <1>5, QueuesKept, StacksKept, RunningKept
<1>10. LocksCounted'
  <2>1. \A v \in Windows : ~LocksNow(t, v) /\ ~LocksNow(t, v)'
    BY <1>3 DEF LocksNow
  <2>2. \A v \in Windows : Holds(t, v)' = Holds(t, v)
    BY <1>1, <2>1, HoldsBy
  <2> QED
    BY <1>1, <1>3, <2>2, LocksKept
<1>11. RefsCounted'
  <2> SUFFICES ASSUME NEW v \in Windows PROVE Counted(v)'
    BY DEF RefsCounted
  <2>1. MapRef(v)' = MapRef(v) /\ InFrame(t, v)' = InFrame(t, v)
    BY <1>1, <1>3 DEF MapRef, InFrame
  <2>2. CASE v # w
    <3>1. t \notin Callers(v) /\ t \notin Callers(v)' /\ cRef'[v] = cRef[v]
      BY <1>1, <1>3, <1>4, <2>2 DEF Callers, TypeOK
    <3> QED
      BY <1>3, <2>1, <3>1, CountedSame
  <2>3. CASE v = w
    <3>1. t \notin Callers(v) /\ t \in Callers(v)'
      BY <1>3, <1>4, <2>3 DEF Callers
    <3>2. Cardinality(Callers(v)') = Cardinality(Callers(v)) + 1
      BY <1>3, <3>1, CallerAdded
    <3>3. FrameRefs(v)' = FrameRefs(v)
      BY <1>3, <2>1, OthersKept, FramesSame
    <3>4. cRef'[v] = cRef[v] + 1
      BY <1>1, <2>3 DEF TypeOK
    <3> QED
      BY <2>1, <3>2, <3>3, <3>4, CountsAreNat DEF Counted
  <2> QED
    BY <2>2, <2>3
<1> QED
  BY <1>2, <1>6, <1>7, <1>8, <1>9, <1>10, <1>11

LEMMA FoundPostStep == ASSUME IInv, NEW t \in Threads, FoundPost(t) PROVE IInv'
<1> USE DEF IInv
<1>0. PICK v : v = arg[t]
  OBVIOUS
<1>1. /\ pc[t] = "findPost" /\ LockWindow(t, v) /\ pc' = [pc EXCEPT ![t] = "post"]
      /\ UNCHANGED <<life, cRef, qowner, queue, msgs, stack, arg, refs, replied, touched, directs>>
  BY <1>0 DEF FoundPost, replies
<1>2. Alone(t) /\ pc'[t] = "post"
  BY <1>1 DEF Alone, TypeOK
<1>3. t \in Calling /\ t \in Calling'
  BY <1>1, <1>2 DEF Calling
<1>4. v \in Windows
  BY <1>0, <1>3 DEF Placed, PlacedAt
<1>5. MsgsKept /\ Posted' = Posted
  BY <1>1, MsgsUnchanged
<1>6. Room'
  BY <1>2, <1>3, <1>5, CallingSame DEF Room
<1>7. Placed'
  BY <1>0, <1>1, <1>2, <1>4, PlacedKept DEF PlacedAt
<1>8. Peeking'
  BY <1>1, <1>2, PeekingKept
<1>9. Queues' /\ Stacks' /\ RunningIsMapped'
  BY <1>1, <1>5, QueuesKept, StacksKept, RunningKept
<1>10. \A w \in Windows : ~LocksNow(t, w) /\ (LocksNow(t, w)' <=> w = v)
  BY <1>0, <1>1, <1>2 DEF LocksNow
<1>11. /\ LocksCounted' /\ owner' \in [Windows -> Threads \cup {None}]
       /\ depth' \in [Windows -> Nat]
  <2>1. Holds(t, v)' = Holds(t, v) + 1
    BY <1>1, <1>4, <1>10, HoldsBy
  <2>2. \A w \in Windows : w # v => Holds(t, w)' = Holds(t, w)
    BY <1>1, <1>10, HoldsBy
  <2> QED
    BY <1>1, <1>2, <1>4, <2>1, <2>2, LockTaken
<1>12. TypeOK'
  <2>1. pc' \in [Threads -> {"app", "findPost", "findSend", "post", "send", "wait", "peek", "dispatch", "after"}]
    BY <1>1 DEF TypeOK
  <2> QED
    BY <1>1, <1>11, <2>1 DEF TypeOK
<1>13. RefsCounted'
  <2> SUFFICES ASSUME NEW w \in Windows PROVE Counted(w)'
    BY DEF RefsCounted
  <2>1. MapRef(w)' = MapRef(w) /\ InFrame(t, w)' = InFrame(t, w)
    BY <1>1, <1>2 DEF MapRef, InFrame
  <2>2. t \in Callers(w)' <=> t \in Callers(w)
    BY <1>1, <1>3 DEF Callers
  <2> QED
    BY <1>1, <1>2, <2>1, <2>2, CountedSame
<1> QED
  BY <1>6, <1>7, <1>8, <1>9, <1>11, <1>12, <1>13

LEMMA FoundSendStep == ASSUME IInv, NEW t \in Threads, FoundSend(t) PROVE IInv'
<1> USE DEF IInv
<1>0. PICK v : v = arg[t]
  OBVIOUS
<1>1. /\ pc[t] = "findSend"
      /\ UNCHANGED <<life, qowner, queue, msgs, stack, refs, replied, touched, directs>>
  BY DEF FoundSend, replies, locks
<1>2. \/ /\ LockWindow(t, v) /\ pc' = [pc EXCEPT ![t] = "send"] /\ UNCHANGED <<cRef, arg>>
      \/ /\ cRef' = [cRef EXCEPT ![v] = @ - 1] /\ pc' = [pc EXCEPT ![t] = "app"]
         /\ arg' = [arg EXCEPT ![t] = None] /\ UNCHANGED <<owner, depth>>
  BY <1>0 DEF FoundSend, Release, locks
<1>3. Alone(t) /\ pc'[t] \in {"send", "app"} /\ pc' \in [Threads -> {"app", "findPost", "findSend", "post", "send", "wait", "peek", "dispatch", "after"}]
  <2>1. PICK l \in {"send", "app"} : pc' = [pc EXCEPT ![t] = l]
    BY <1>2
  <2>2. \A u \in Threads \ {t} : arg'[u] = arg[u]
    BY <1>2 DEF TypeOK
  <2> QED
    BY <1>1, <2>1, <2>2 DEF Alone, TypeOK
<1>4. t \in Calling
  BY <1>1 DEF Calling
<1>5. v \in Windows
  BY <1>0, <1>4 DEF Placed, PlacedAt
<1>6. MsgsKept /\ Posted' = Posted
  BY <1>1, MsgsUnchanged
<1>7. Peeking'
  BY <1>1, <1>3, PeekingKept
<1>8. Queues' /\ Stacks' /\ RunningIsMapped'
  BY <1>1, <1>6, QueuesKept, StacksKept, RunningKept
<1>9. \A w \in Windows : MapRef(w)' = MapRef(w) /\ InFrame(t, w)' = InFrame(t, w)
  BY <1>1, <1>3 DEF MapRef, InFrame
<1>10. CASE LockWindow(t, v) /\ pc' = [pc EXCEPT ![t] = "send"] /\ UNCHANGED <<cRef, arg>>
  <2>1. pc'[t] = "send" /\ t \in Calling'
    BY <1>10 DEF TypeOK, Calling
  <2>2. Room'
    BY <1>3, <1>4, <1>6, <2>1, CallingSame DEF Room
  <2>3. Placed'
    BY <1>0, <1>3, <1>5, <1>10, <2>1, PlacedKept DEF PlacedAt
  <2>4. \A w \in Windows : ~LocksNow(t, w) /\ (LocksNow(t, w)' <=> w = v)
    BY <1>0, <1>1, <1>10, <2>1 DEF LocksNow
  <2>5. /\ LocksCounted' /\ owner' \in [Windows -> Threads \cup {None}]
        /\ depth' \in [Windows -> Nat]
    <3>1. Holds(t, v)' = Holds(t, v) + 1
      BY <1>1, <1>5, <2>4, HoldsBy
    <3>2. \A w \in Windows : w # v => Holds(t, w)' = Holds(t, w)
      BY <1>1, <2>4, HoldsBy
    <3> QED
      BY <1>3, <1>5, <1>10, <3>1, <3>2, LockTaken
  <2>6. TypeOK'
    BY <1>1, <1>3, <1>10, <2>5 DEF TypeOK
  <2>7. RefsCounted'
    <3> SUFFICES ASSUME NEW w \in Windows PROVE Counted(w)'
      BY DEF RefsCounted
    <3>1. t \in Callers(w)' <=> t \in Callers(w)
      BY <1>4, <1>10, <2>1 DEF Callers
    <3> QED
      BY <1>3, <1>9, <1>10, <3>1, CountedSame
  <2> QED
    BY <1>7, <1>8, <2>2, <2>3, <2>5, <2>6, <2>7
<1>11. CASE /\ cRef' = [cRef EXCEPT ![v] = @ - 1] /\ pc' = [pc EXCEPT ![t] = "app"]
            /\ arg' = [arg EXCEPT ![t] = None] /\ UNCHANGED <<owner, depth>>
  <2>1. pc'[t] = "app" /\ t \notin Calling' /\ \A w : t \notin Callers(w)'
    BY <1>11 DEF TypeOK, Calling, Callers
  <2>2. Room'
    <3>1. Cardinality(Calling') = Cardinality(Calling) - 1
      BY <1>3, <1>4, <2>1, CallingRemoved
    <3>2. Cardinality(Calling) \in Nat /\ Posted \in Nat /\ MaxMsgs \in Nat
      BY CallersFinite, RoomIsForIds
    <3> QED
      BY <1>6, <3>1, <3>2 DEF Room
  <2>3. Placed'
    BY <1>3, <2>1, PlacedKept DEF PlacedAt
  <2>4. \A w \in Windows : ~LocksNow(t, w) /\ ~LocksNow(t, w)'
    BY <1>1, <2>1 DEF LocksNow
  <2>5. LocksCounted'
    BY <1>1, <1>3, <1>11, <2>4, HoldsBy, LocksKept
  <2>6. RefsCounted'
    <3> SUFFICES ASSUME NEW w \in Windows PROVE Counted(w)'
      BY DEF RefsCounted
    <3>1. CASE w # v
      <4>1. t \notin Callers(w) /\ cRef'[w] = cRef[w]
        BY <1>0, <1>11, <3>1 DEF Callers, TypeOK
      <4> QED
        BY <1>3, <1>9, <2>1, <4>1, CountedSame
    <3>2. CASE w = v
      <4>1. t \in Callers(w)
        BY <1>0, <1>4, <3>2 DEF Callers
      <4>2. Cardinality(Callers(w)') = Cardinality(Callers(w)) - 1
        BY <1>3, <2>1, <4>1, CallerRemoved
      <4>3. FrameRefs(w)' = FrameRefs(w)
        BY <1>3, <1>9, OthersKept, FramesSame
      <4>4. cRef'[w] = cRef[w] - 1
        BY <1>11, <3>2 DEF TypeOK
      <4> QED
        BY <1>9, <4>2, <4>3, <4>4, CountsAreNat DEF Counted
    <3> QED
      BY <3>1, <3>2
  <2>7. TypeOK'
    <3>1. cRef' \in [Windows -> Nat]
      <4>1. \A w \in Windows : cRef'[w] \in Nat
        BY <2>6, CountedNat DEF RefsCounted
      <4>2. cRef' = [w \in Windows |-> cRef'[w]]
        BY <1>11 DEF TypeOK
      <4> QED
        BY <4>1, <4>2
    <3>2. arg' \in [Threads -> Windows \cup {None}]
      BY <1>11 DEF TypeOK
    <3> QED
      BY <1>1, <1>3, <1>11, <3>1, <3>2 DEF TypeOK
  <2> QED
    BY <1>7, <1>8, <2>2, <2>3, <2>5, <2>6, <2>7
<1> QED
  BY <1>2, <1>10, <1>11

LEMMA PostEnqueueStep == ASSUME IInv, NEW t \in Threads, PostEnqueue(t) PROVE IInv'
<1> USE DEF IInv
<1>0. PICK v : v = arg[t]
  OBVIOUS
<1>1. /\ pc[t] = "post" /\ Enqueue(t, v, FALSE) /\ UnlockWindow(v)
      /\ cRef' = [cRef EXCEPT ![v] = @ - 1]
      /\ pc' = [pc EXCEPT ![t] = "app"] /\ arg' = [arg EXCEPT ![t] = None]
      /\ UNCHANGED <<life, qowner, replied, touched, stack, directs>>
  BY <1>0 DEF PostEnqueue, Release
<1>2. Alone(t) /\ pc'[t] = "app" /\ pc' \in [Threads -> {"app", "findPost", "findSend", "post", "send", "wait", "peek", "dispatch", "after"}]
  BY <1>1 DEF Alone, TypeOK
<1>3. t \in Calling /\ t \notin Calling' /\ \A w : t \notin Callers(w)'
  BY <1>1, <1>2 DEF Calling, Callers
<1>4. v \in Windows
  BY <1>0, <1>3 DEF Placed, PlacedAt
<1>5. /\ Cardinality(Calling') = Cardinality(Calling) - 1 /\ Cardinality(Calling) >= 1
      /\ Cardinality(Calling) \in Nat /\ Posted \in Nat /\ MaxMsgs \in Nat
  BY <1>2, <1>3, CallingRemoved, CallersFinite, RoomIsForIds
<1>6. Posted < MaxMsgs
  BY <1>5 DEF Room
<1>7. /\ msgs' \in Seq(MsgType) /\ MsgsKept /\ Posted' = Posted + 1
      /\ queue' \in [Threads -> Seq(Ids)] /\ Queues' /\ refs' \in [Ids -> 0..1]
  BY <1>1, <1>4, <1>6, EnqueueStep
<1>8. Room'
  BY <1>5, <1>7 DEF Room
<1>9. Placed'
  BY <1>2, <1>3, PlacedKept DEF PlacedAt
<1>10. Peeking'
  BY <1>1, <1>2, PeekingKept
<1>11. Stacks' /\ RunningIsMapped'
  BY <1>1, <1>7, StacksKept, RunningKept
<1>12. \A w \in Windows : ~LocksNow(t, w)' /\ (LocksNow(t, w) <=> w = v)
  BY <1>0, <1>1, <1>2 DEF LocksNow
<1>13. /\ LocksCounted' /\ owner' \in [Windows -> Threads \cup {None}]
       /\ depth' \in [Windows -> Nat]
  <2>1. Holds(t, v)' = Holds(t, v) - 1 /\ Holds(t, v) > 0
    BY <1>1, <1>4, <1>12, HoldsBy
  <2>2. \A w \in Windows : w # v => Holds(t, w)' = Holds(t, w)
    BY <1>1, <1>12, HoldsBy
  <2> QED
    BY <1>1, <1>2, <1>4, <2>1, <2>2, LockFreed
<1>14. \A w \in Windows : MapRef(w)' = MapRef(w) /\ InFrame(t, w)' = InFrame(t, w)
  BY <1>1, <1>2 DEF MapRef, InFrame
<1>15. RefsCounted'
  <2> SUFFICES ASSUME NEW w \in Windows PROVE Counted(w)'
    BY DEF RefsCounted
  <2>1. CASE w # v
    <3>1. t \notin Callers(w) /\ cRef'[w] = cRef[w]
      BY <1>0, <1>1, <2>1 DEF Callers, TypeOK
    <3> QED
      BY <1>2, <1>3, <1>14, <3>1, CountedSame
  <2>2. CASE w = v
    <3>1. t \in Callers(w)
      BY <1>0, <1>3, <2>2 DEF Callers
    <3>2. Cardinality(Callers(w)') = Cardinality(Callers(w)) - 1
      BY <1>2, <1>3, <3>1, CallerRemoved
    <3>3. FrameRefs(w)' = FrameRefs(w)
      BY <1>2, <1>14, OthersKept, FramesSame
    <3>4. cRef'[w] = cRef[w] - 1
      BY <1>1, <2>2 DEF TypeOK
    <3> QED
      BY <1>14, <3>2, <3>3, <3>4, CountsAreNat DEF Counted
  <2> QED
    BY <2>1, <2>2
<1>16. TypeOK'
  <2>1. cRef' \in [Windows -> Nat]
    <3>1. \A w \in Windows : cRef'[w] \in Nat
      BY <1>15, CountedNat DEF RefsCounted
    <3>2. cRef' = [w \in Windows |-> cRef'[w]]
      BY <1>1 DEF TypeOK
    <3> QED
      BY <3>1, <3>2
  <2>2. arg' \in [Threads -> Windows \cup {None}]
    BY <1>1 DEF TypeOK
  <2> QED
    BY <1>1, <1>2, <1>7, <1>13, <2>1, <2>2 DEF TypeOK, MsgType
<1> QED
  BY <1>7, <1>8, <1>9, <1>10, <1>11, <1>13, <1>15, <1>16

LEMMA SendEnqueueStep == ASSUME IInv, NEW t \in Threads, SendEnqueue(t) PROVE IInv'
<1> USE DEF IInv
<1>0. PICK v, f : /\ v = arg[t]
                  /\ f = [kind |-> "send", window |-> v, msg |-> Posted + 1, sent |-> TRUE,
                          destroy |-> FALSE]
  OBVIOUS
<1>1. /\ pc[t] = "send" /\ Enqueue(t, v, TRUE) /\ Push(t, f)
      /\ pc' = [pc EXCEPT ![t] = "wait"] /\ arg' = [arg EXCEPT ![t] = None]
      /\ UNCHANGED <<cRef, owner, depth, qowner, life, replied, touched, directs>>
  BY <1>0 DEF SendEnqueue, locks
<1>2. t \in Calling /\ v \in Windows
  BY <1>0, <1>1 DEF Calling, Placed, PlacedAt
<1>3. /\ pc'[t] = "wait" /\ t \notin Calling' /\ \A w : t \notin Callers(w)'
      /\ pc' \in [Threads -> {"app", "findPost", "findSend", "post", "send", "wait", "peek", "dispatch", "after"}]
  BY <1>1 DEF Calling, Callers, TypeOK
<1>4. Posted \in Nat /\ MaxMsgs \in Nat /\ Cardinality(Calling) \in Nat
  BY RoomIsForIds, CallersFinite
<1>5. Cardinality(Calling) >= 1
  BY <1>2, <1>4, CallersFinite, FS_EmptySet
<1>6. Posted < MaxMsgs
  BY <1>4, <1>5 DEF Room
<1>7. /\ msgs' \in Seq(MsgType) /\ MsgsKept /\ Posted' = Posted + 1 /\ Posted + 1 \in Ids
      /\ queue' \in [Threads -> Seq(Ids)] /\ Queues' /\ refs' \in [Ids -> 0..1]
  BY <1>1, <1>2, <1>6, EnqueueStep
<1>8. f \in Frames /\ f.kind = "send" /\ f.window = v /\ f.msg = Posted + 1
  BY <1>0, <1>2, <1>4, <1>6 DEF Frames
<1>9. /\ stack' \in [Threads -> Seq(Frames)] /\ Alone(t)
      /\ stack'[t] # << >> /\ Last(stack'[t]) = f
  <2>1. /\ stack' \in [Threads -> Seq(Frames)]
        /\ \A u \in Threads \ {t} : stack'[u] = stack[u]
        /\ Len(stack'[t]) = Len(stack[t]) + 1 /\ Len(stack[t]) \in Nat
        /\ stack'[t][Len(stack[t]) + 1] = f
    BY <1>1, <1>8, StackPush
  <2>2. Alone(t)
    BY <1>1, <2>1 DEF Alone, TypeOK
  <2>3. PICK n \in Nat : n = Len(stack[t])
    BY <2>1
  <2>4. stack'[t] # << >> /\ Last(stack'[t]) = f
    <3>1. PICK s \in Seq(Frames) : s = stack'[t]
      BY <2>1
    <3>2. Len(s) = n + 1 /\ s[n + 1] = f /\ s # << >>
      BY <2>1, <2>3, <3>1
    <3> QED
      BY <3>1, <3>2 DEF Last
  <2> QED
    BY <2>1, <2>2, <2>4
<1>10. Room'
  <2>1. Cardinality(Calling') = Cardinality(Calling) - 1
    BY <1>2, <1>3, <1>9, CallingRemoved
  <2> QED
    BY <1>4, <1>7, <2>1 DEF Room
<1>11. Placed'
  BY <1>3, <1>8, <1>9, PlacedKept DEF PlacedAt, Waits
<1>12. Peeking'
  BY <1>1, <1>3, <1>9, PeekingKept
<1>13. Stacks'
  <2>1. f.msg <= Posted' /\ f.msg # 0
    BY <1>4, <1>7, <1>8
  <2> QED
    BY <1>1, <1>7, <1>8, <2>1, StacksPushed
<1>14. RunningIsMapped'
  BY <1>1, <1>8, RunningPushed
<1>15. \A w \in Windows : /\ ~LocksNow(t, w)' /\ (LocksNow(t, w) <=> w = v)
                          /\ SendFrames(t, w)' = SendFrames(t, w)
                               \cup (IF w = v THEN {Len(stack[t]) + 1} ELSE {})
                          /\ Len(stack[t]) + 1 \notin SendFrames(t, w)
                          /\ InFrame(t, w)' = InFrame(t, w)
                               \cup (IF w = v THEN {Len(stack[t]) + 1} ELSE {})
                          /\ Len(stack[t]) + 1 \notin InFrame(t, w)
  <2>1. \A w \in Windows : ~LocksNow(t, w)' /\ (LocksNow(t, w) <=> w = v)
    BY <1>0, <1>1, <1>3 DEF LocksNow
  <2> QED
    BY <1>1, <1>3, <1>8, <2>1, PushedFrames
<1>16. LocksCounted'
  <2>1. ASSUME NEW w \in Windows PROVE Holds(t, w)' = Holds(t, w)
    <3>1. PICK n \in Nat : n = Cardinality(SendFrames(t, w)) /\ IsFiniteSet(SendFrames(t, w))
      BY SendFramesFinite
    <3>2. CASE w = v
      <4>1. SendFrames(t, w)' = SendFrames(t, w) \cup {Len(stack[t]) + 1}
        BY <1>15, <3>2
      <4>2. Cardinality(SendFrames(t, w)') = n + 1
        BY <1>15, <3>1, <4>1, FS_AddElement
      <4> QED
        BY <1>15, <3>1, <3>2, <4>2 DEF Holds
    <3>3. CASE w # v
      <4>1. SendFrames(t, w)' = SendFrames(t, w) \cup {}
        BY <1>15, <3>3
      <4>2. SendFrames(t, w)' = SendFrames(t, w)
        BY <4>1
      <4> QED
        BY <1>15, <3>3, <4>2 DEF Holds
    <3> QED
      BY <3>2, <3>3
  <2> QED
    BY <1>1, <1>9, <2>1, LocksKept
<1>17. \A w \in Windows : MapRef(w)' = MapRef(w)
  BY <1>1 DEF MapRef
<1>18. RefsCounted'
  <2> SUFFICES ASSUME NEW w \in Windows PROVE Counted(w)'
    BY DEF RefsCounted
  <2>1. CASE w # v
    <3>1. t \notin Callers(w) /\ cRef'[w] = cRef[w]
      BY <1>0, <1>1, <2>1 DEF Callers
    <3>2. InFrame(t, w)' = InFrame(t, w) \cup {}
      BY <1>15, <2>1
    <3>3. InFrame(t, w)' = InFrame(t, w)
      BY <3>2
    <3> QED
      BY <1>3, <1>9, <1>17, <3>1, <3>3, CountedSame
  <2>2. CASE w = v
    <3>1. t \in Callers(w)
      BY <1>0, <1>2, <2>2 DEF Callers
    <3>2. Cardinality(Callers(w)') = Cardinality(Callers(w)) - 1
      BY <1>3, <1>9, <3>1, CallerRemoved
    <3>3. InFrame(t, w)' = InFrame(t, w) \cup {Len(stack[t]) + 1}
      BY <1>15, <2>2
    <3>4. IsFiniteSet(FrameRefs(w)') /\ Cardinality(FrameRefs(w)') = Cardinality(FrameRefs(w)) + 1
      BY <1>9, <1>15, <3>3, OthersKept, CountsAreNat, FrameAdded
    <3>5. cRef'[w] = cRef[w]
      BY <1>1
    <3> QED
      BY <1>17, <3>2, <3>4, <3>5, CountsAreNat DEF Counted
  <2> QED
    BY <2>1, <2>2
<1>19. TypeOK'
  <2>1. arg' \in [Threads -> Windows \cup {None}]
    BY <1>1 DEF TypeOK
  <2> QED
    BY <1>1, <1>3, <1>7, <1>9, <2>1 DEF TypeOK, MsgType
<1> QED
  BY <1>7, <1>10, <1>11, <1>12, <1>13, <1>14, <1>16, <1>18, <1>19

LEMMA SendDirectStep ==
  ASSUME IInv, NEW t \in Threads, NEW v \in Windows, NEW d \in BOOLEAN, SendDirect(t, v, d)
  PROVE  IInv'
<1> USE DEF IInv
<1>0. PICK f : f = [kind |-> "proc", window |-> v, msg |-> 0, sent |-> TRUE, destroy |-> d]
  OBVIOUS
<1>1. /\ pc[t] = "app" /\ life[v] = "alive" /\ OwnerOf[v] = t
      /\ cRef' = [cRef EXCEPT ![v] = @ + 1] /\ Push(t, f)
      /\ directs < MaxDirect /\ directs' = directs + 1
      /\ UNCHANGED <<owner, depth, qowner, life, queue, msgs, refs, replied, touched, pc, arg>>
  BY <1>0 DEF SendDirect, AddRef, locks, replies
<1>2. f \in Frames /\ f.kind = "proc" /\ f.window = v /\ f.msg = 0
  BY <1>0, BoundsAssumption DEF Frames
<1>3. stack' \in [Threads -> Seq(Frames)] /\ Alone(t)
  BY <1>1, <1>2, StackPush DEF Alone
<1>4. MsgsKept /\ Posted' = Posted /\ Posted \in Nat
  BY <1>1, MsgsUnchanged, PostedNat
<1>5. t \notin Calling /\ t \notin Calling'
  BY <1>1 DEF Calling
<1>6. Room'
  BY <1>3, <1>4, <1>5, CallingSame DEF Room
<1>7. Placed'
  BY <1>1, <1>3, <1>5, PlacedKept DEF PlacedAt
<1>8. Peeking'
  BY <1>1, <1>3, PeekingKept
<1>9. Queues' /\ RunningIsMapped'
  BY <1>1, <1>2, <1>4, QueuesKept, RunningPushed
<1>10. Stacks'
  <2>1. f.msg <= Posted'
    BY <1>2, <1>4
  <2> QED
    BY <1>1, <1>2, <1>4, <2>1, StacksPushed
<1>11. ASSUME NEW w \in Windows
       PROVE  /\ SendFrames(t, w)' = SendFrames(t, w)
              /\ InFrame(t, w)' = InFrame(t, w)
                   \cup (IF w = v THEN {Len(stack[t]) + 1} ELSE {})
              /\ Len(stack[t]) + 1 \notin InFrame(t, w)
  <2>1. pc[t] # "dispatch" /\ pc'[t] # "dispatch" /\ f.kind # "send"
    BY <1>1, <1>2
  <2>2. /\ SendFrames(t, w)' = SendFrames(t, w)
             \cup (IF f.kind = "send" /\ f.window = w THEN {Len(stack[t]) + 1} ELSE {})
        /\ InFrame(t, w)' = InFrame(t, w)
             \cup (IF f.window = w /\ pc'[t] # "dispatch" THEN {Len(stack[t]) + 1} ELSE {})
        /\ Len(stack[t]) + 1 \notin InFrame(t, w)
    <3>1. TypeOK /\ Push(t, f) /\ f \in Frames
      BY <1>1, <1>2
    <3> HIDE DEF IInv
    <3> QED
      BY <2>1, <3>1, PushedFrames
  <2>3. SendFrames(t, w)' = SendFrames(t, w)
    BY <2>1, <2>2
  <2> QED
    BY <1>2, <2>1, <2>2, <2>3
<1>12. LocksCounted'
  <2>1. \A w \in Windows : ~LocksNow(t, w) /\ ~LocksNow(t, w)'
    BY <1>1 DEF LocksNow
  <2>2. \A w \in Windows : Holds(t, w)' = Holds(t, w)
    BY <1>11, <2>1 DEF Holds
  <2> QED
    BY <1>1, <1>3, <2>2, LocksKept
<1>13. RefsCounted'
  <2> SUFFICES ASSUME NEW w \in Windows PROVE Counted(w)'
    BY DEF RefsCounted
  <2>1. MapRef(w)' = MapRef(w) /\ t \notin Callers(w) /\ t \notin Callers(w)'
    BY <1>1, <1>5 DEF MapRef, Callers
  <2>2. CASE w # v
    <3>1. InFrame(t, w)' = InFrame(t, w) \cup {}
      BY <1>11, <2>2
    <3>2. InFrame(t, w)' = InFrame(t, w) /\ cRef'[w] = cRef[w]
      BY <1>1, <2>2, <3>1 DEF TypeOK
    <3> QED
      BY <1>3, <2>1, <3>2, CountedSame
  <2>3. CASE w = v
    <3>1. InFrame(t, w)' = InFrame(t, w) \cup {Len(stack[t]) + 1}
      BY <1>11, <2>3
    <3>2. IsFiniteSet(FrameRefs(w)') /\ Cardinality(FrameRefs(w)') = Cardinality(FrameRefs(w)) + 1
      BY <1>3, <1>11, <3>1, OthersKept, CountsAreNat, FrameAdded
    <3>3. Callers(w)' = Callers(w)
      BY <1>3, <2>1, CallersSame
    <3>4. cRef'[w] = cRef[w] + 1
      BY <1>1, <2>3 DEF TypeOK
    <3> QED
      BY <2>1, <3>2, <3>3, <3>4, CountsAreNat DEF Counted
  <2> QED
    BY <2>2, <2>3
<1>14. TypeOK'
  <2>1. cRef' \in [Windows -> Nat]
    <3>1. \A w \in Windows : cRef'[w] \in Nat
      BY <1>13, CountedNat DEF RefsCounted
    <3>2. cRef' = [w \in Windows |-> cRef'[w]]
      BY <1>1 DEF TypeOK
    <3> QED
      BY <3>1, <3>2
  <2>2. directs' \in 0..MaxDirect
    <3>1. directs \in 0..MaxDirect /\ MaxDirect \in Nat
      BY BoundsAssumption DEF TypeOK
    <3> QED
      BY <1>1, <3>1
  <2> QED
    BY <1>1, <1>3, <2>1, <2>2 DEF TypeOK
<1> QED
  BY <1>6, <1>7, <1>8, <1>9, <1>10, <1>12, <1>13, <1>14

LEMMA SendEndStep == ASSUME IInv, NEW t \in Threads, SendEnd(t) PROVE IInv'
<1> USE DEF IInv
<1>0. PICK v, m, n : v = Top(t).window /\ m = Top(t).msg /\ n = Len(stack[t])
  OBVIOUS
<1>1. /\ pc[t] = "wait" /\ Released(m) /\ UnlockWindow(v)
      /\ cRef' = [cRef EXCEPT ![v] = @ - 1] /\ Pop(t) /\ pc' = [pc EXCEPT ![t] = "app"]
      /\ UNCHANGED <<life, qowner, queue, msgs, arg, directs>>
  BY <1>0 DEF SendEnd, Release
<1>2. stack[t] # << >> /\ Top(t).kind = "send"
  BY <1>1 DEF Placed, PlacedAt, Waits, Top
<1>3. v \in Windows /\ m \in Ids
  <2>1. Top(t) = stack[t][n] /\ n \in DOMAIN stack[t]
    BY <1>0, <1>2, TopIs
  <2>2. stack[t][n].window \in Windows /\ stack[t][n].msg \in 0..MaxMsgs /\ stack[t][n].msg # 0
    BY <1>2, <2>1, FrameIs DEF Stacks
  <2> QED
    BY <1>0, <2>1, <2>2, BoundsAssumption DEF Ids
<1>4. stack' \in [Threads -> Seq(Frames)] /\ Alone(t) /\ pc'[t] = "app"
      /\ pc' \in [Threads -> {"app", "findPost", "findSend", "post", "send", "wait", "peek", "dispatch", "after"}]
  BY <1>1, <1>2, StackPop DEF Alone, TypeOK
<1>5. MsgsKept /\ Posted' = Posted
  BY <1>1, MsgsUnchanged
<1>6. t \notin Calling /\ t \notin Calling'
  BY <1>1, <1>4 DEF Calling
<1>7. Room'
  BY <1>4, <1>5, <1>6, CallingSame DEF Room
<1>8. Placed'
  BY <1>4, <1>6, PlacedKept DEF PlacedAt
<1>9. Peeking'
  BY <1>1, <1>4, PeekingKept
<1>10. Queues' /\ Stacks'
  BY <1>1, <1>2, <1>5, QueuesKept, StacksPopped
<1>11. RunningIsMapped'
  BY <1>1, <1>2, RunningPopped
<1>12. ASSUME NEW w \in Windows
       PROVE  /\ SendFrames(t, w)' = SendFrames(t, w) \ {n}
              /\ n \in SendFrames(t, w) <=> w = v
              /\ InFrame(t, w)' = InFrame(t, w) \ {n}
              /\ n \in InFrame(t, w) <=> w = v
              /\ ~LocksNow(t, w) /\ ~LocksNow(t, w)'
  <2>1. ~LocksNow(t, w) /\ ~LocksNow(t, w)'
    BY <1>1, <1>4 DEF LocksNow
  <2> QED
    BY <1>0, <1>1, <1>2, <1>4, <2>1, PoppedFrames
<1>13. /\ LocksCounted' /\ owner' \in [Windows -> Threads \cup {None}]
       /\ depth' \in [Windows -> Nat]
  <2>1. Holds(t, v)' = Holds(t, v) - 1 /\ Holds(t, v) > 0
    <3>1. /\ n \in SendFrames(t, v) /\ SendFrames(t, v)' = SendFrames(t, v) \ {n}
          /\ ~LocksNow(t, v) /\ ~LocksNow(t, v)'
      BY <1>3, <1>12
    <3>2. IsFiniteSet(SendFrames(t, v)) /\ Cardinality(SendFrames(t, v)) \in Nat
      BY SendFramesFinite
    <3>3. IsFiniteSet(SendFrames(t, v)') /\ Cardinality(SendFrames(t, v)') = Cardinality(SendFrames(t, v)) - 1
      BY <3>1, <3>2, FS_RemoveElement
    <3>4. Cardinality(SendFrames(t, v)') \in Nat
      BY <3>3, FS_CardinalityType
    <3> QED
      BY <3>1, <3>2, <3>3, <3>4 DEF Holds
  <2>2. \A w \in Windows : w # v => Holds(t, w)' = Holds(t, w)
    <3> SUFFICES ASSUME NEW w \in Windows, w # v PROVE Holds(t, w)' = Holds(t, w)
      OBVIOUS
    <3>1. SendFrames(t, w)' = SendFrames(t, w)
      BY <1>12
    <3> QED
      BY <1>12, <3>1 DEF Holds
  <2> QED
    BY <1>1, <1>3, <1>4, <2>1, <2>2, LockFreed
<1>14. RefsCounted'
  <2> SUFFICES ASSUME NEW w \in Windows PROVE Counted(w)'
    BY DEF RefsCounted
  <2>1. MapRef(w)' = MapRef(w) /\ t \notin Callers(w) /\ t \notin Callers(w)'
    BY <1>1, <1>6 DEF MapRef, Callers
  <2>2. CASE w # v
    <3>1. InFrame(t, w)' = InFrame(t, w)
      BY <1>12, <2>2
    <3>2. cRef'[w] = cRef[w]
      BY <1>1, <2>2 DEF TypeOK
    <3> QED
      BY <1>4, <2>1, <3>1, <3>2, CountedSame
  <2>3. CASE w = v
    <3>1. n \in InFrame(t, w) /\ InFrame(t, w)' = InFrame(t, w) \ {n}
      BY <1>12, <2>3
    <3>2. IsFiniteSet(FrameRefs(w)') /\ Cardinality(FrameRefs(w)') = Cardinality(FrameRefs(w)) - 1
      BY <1>4, <3>1, OthersKept, CountsAreNat, FrameRemoved
    <3>3. Callers(w)' = Callers(w)
      BY <1>4, <2>1, CallersSame
    <3>4. cRef'[w] = cRef[w] - 1
      BY <1>1, <2>3 DEF TypeOK
    <3> QED
      BY <2>1, <3>2, <3>3, <3>4, CountsAreNat DEF Counted
  <2> QED
    BY <2>2, <2>3
<1>15. TypeOK'
  <2>1. cRef' \in [Windows -> Nat]
    <3>1. \A w \in Windows : cRef'[w] \in Nat
      BY <1>14, CountedNat DEF RefsCounted
    <3>2. cRef' = [w \in Windows |-> cRef'[w]]
      BY <1>1 DEF TypeOK
    <3> QED
      BY <3>1, <3>2
  <2>2. /\ refs' \in [Ids -> 0..1] /\ touched' \in BOOLEAN
        /\ replied' \in [Ids -> [hasResult : BOOLEAN, event : BOOLEAN]]
    BY <1>1, <1>3, ReleasedType
  <2> QED
    BY <1>1, <1>4, <1>13, <2>1, <2>2 DEF TypeOK
<1> QED
  BY <1>7, <1>8, <1>9, <1>10, <1>11, <1>13, <1>14, <1>15

\* A lookup in the queue: neither frames, calls nor windows change.
LEMMA CountersKept ==
  ASSUME IInv, NEW t \in Threads, Alone(t), UNCHANGED <<life, cRef, owner, depth, stack>>,
         \A w \in Windows : ~LocksNow(t, w) /\ ~LocksNow(t, w)',
         t \notin Calling, t \notin Calling', pc[t] # "dispatch", pc'[t] # "dispatch"
  PROVE  LocksCounted' /\ RefsCounted'
<1>1. LocksCounted'
  BY HoldsBy, LocksKept DEF IInv
<1>2. RefsCounted'
  <2> SUFFICES ASSUME NEW w \in Windows PROVE Counted(w)'
    BY DEF RefsCounted
  <2>1. MapRef(w)' = MapRef(w) /\ InFrame(t, w)' = InFrame(t, w)
    BY DEF MapRef, InFrame
  <2>2. t \notin Callers(w) /\ t \notin Callers(w)'
    BY DEF Callers
  <2> QED
    BY <2>1, <2>2, CountedSame
<1> QED
  BY <1>1, <1>2

LEMMA PeekLockStep == ASSUME IInv, NEW t \in Threads, PeekLock(t) PROVE IInv'
<1> USE DEF IInv
<1>1. /\ pc[t] \in {"app", "wait"} /\ qowner[t] = None
      /\ qowner' = [qowner EXCEPT ![t] = t] /\ pc' = [pc EXCEPT ![t] = "peek"]
      /\ UNCHANGED <<cRef, life, owner, depth, queue, msgs, refs, replied, touched, stack, arg, directs>>
  BY DEF PeekLock, replies
<1>2. /\ Alone(t) /\ pc'[t] = "peek"
      /\ pc' \in [Threads -> {"app", "findPost", "findSend", "post", "send", "wait", "peek", "dispatch", "after"}]
  BY <1>1 DEF Alone, TypeOK
<1>3. /\ t \notin Calling /\ t \notin Calling' /\ pc[t] # "dispatch" /\ pc'[t] # "dispatch"
      /\ \A w \in Windows : ~LocksNow(t, w) /\ ~LocksNow(t, w)'
  BY <1>1, <1>2 DEF Calling, LocksNow
<1>4. MsgsKept /\ Posted' = Posted
  BY <1>1, MsgsUnchanged
<1>5. Room'
  BY <1>2, <1>3, <1>4, CallingSame DEF Room
<1>6. Placed'
  BY <1>2, <1>3, PlacedKept DEF PlacedAt
<1>7. Peeking' /\ qowner' \in [Threads -> Threads \cup {None}]
  <2>1. qowner \in [Threads -> Threads \cup {None}]
    BY DEF TypeOK
  <2>2. qowner'[t] = t /\ \A u \in Threads \ {t} : qowner'[u] = qowner[u] /\ pc'[u] = pc[u]
    BY <1>1, <1>2, <2>1 DEF Alone
  <2>3. Peeking'
    BY <1>1, <1>2, <2>2, NoneAssumption DEF Peeking
  <2> QED
    BY <1>1, <2>1, <2>3
<1>8. Queues' /\ Stacks' /\ RunningIsMapped'
  BY <1>1, <1>4, QueuesKept, StacksKept, RunningKept
<1>9. LocksCounted' /\ RefsCounted'
  BY <1>1, <1>2, <1>3, CountersKept
<1>10. TypeOK'
  BY <1>1, <1>2, <1>7 DEF TypeOK
<1> QED
  BY <1>5, <1>6, <1>7, <1>8, <1>9, <1>10

\* The queue is let go of.
LEMMA PeekingEnds ==
  ASSUME IInv, NEW t \in Threads, Alone(t), pc[t] = "peek", pc'[t] # "peek",
         qowner' = [qowner EXCEPT ![t] = None]
  PROVE  Peeking' /\ qowner' \in [Threads -> Threads \cup {None}]
<1>1. qowner \in [Threads -> Threads \cup {None}]
  BY DEF IInv, TypeOK
<1>2. qowner'[t] = None /\ \A u \in Threads \ {t} : qowner'[u] = qowner[u] /\ pc'[u] = pc[u]
  BY <1>1 DEF Alone
<1>3. qowner' \in [Threads -> Threads \cup {None}]
  BY <1>1
<1>4. Peeking'
  BY <1>2, NoneAssumption DEF IInv, Peeking
<1> QED
  BY <1>3, <1>4

LEMMA PeekNoneStep == ASSUME IInv, NEW t \in Threads, PeekNone(t) PROVE IInv'
<1> USE DEF IInv
<1>0. PICK l : l = Resumed(stack[t])
  OBVIOUS
<1>1. /\ pc[t] = "peek" /\ qowner' = [qowner EXCEPT ![t] = None] /\ pc' = [pc EXCEPT ![t] = l]
      /\ UNCHANGED <<cRef, life, owner, depth, queue, msgs, refs, replied, touched, stack, arg, directs>>
  BY <1>0 DEF PeekNone, replies
<1>2. l \in {"app", "wait"} /\ (l = "wait" => Waits(stack[t]))
  BY <1>0 DEF Resumed
<1>3. /\ Alone(t) /\ pc'[t] = l
      /\ pc' \in [Threads -> {"app", "findPost", "findSend", "post", "send", "wait", "peek", "dispatch", "after"}]
  BY <1>1, <1>2 DEF Alone, TypeOK
<1>4. /\ t \notin Calling /\ t \notin Calling' /\ pc[t] # "dispatch" /\ pc'[t] # "dispatch"
      /\ \A w \in Windows : ~LocksNow(t, w) /\ ~LocksNow(t, w)'
  BY <1>1, <1>2, <1>3 DEF Calling, LocksNow
<1>5. MsgsKept /\ Posted' = Posted
  BY <1>1, MsgsUnchanged
<1>6. Room'
  BY <1>3, <1>4, <1>5, CallingSame DEF Room
<1>7. Placed'
  BY <1>1, <1>2, <1>3, <1>4, PlacedKept DEF PlacedAt
<1>8. Peeking' /\ qowner' \in [Threads -> Threads \cup {None}]
  BY <1>1, <1>2, <1>3, PeekingEnds
<1>9. Queues' /\ Stacks' /\ RunningIsMapped'
  BY <1>1, <1>5, QueuesKept, StacksKept, RunningKept
<1>10. LocksCounted' /\ RefsCounted'
  BY <1>1, <1>3, <1>4, CountersKept
<1>11. TypeOK'
  BY <1>1, <1>3, <1>8 DEF TypeOK
<1> QED
  BY <1>6, <1>7, <1>8, <1>9, <1>10, <1>11

LEMMA PeekDropStep == ASSUME IInv, NEW t \in Threads, PeekDrop(t) PROVE IInv'
<1> USE DEF IInv
<1>0. PICK m : m = Head(queue[t])
  OBVIOUS
<1>1. /\ pc[t] = "peek" /\ queue[t] # << >> /\ queue' = [queue EXCEPT ![t] = Tail(@)]
      /\ msgs' = [msgs EXCEPT ![m].at = "dropped"] /\ Released(m)
      /\ UNCHANGED <<cRef, owner, depth, qowner, life, stack, pc, arg, directs>>
  BY <1>0 DEF PeekDrop, locks
<1>2. m \in 1..Posted /\ m \in Ids
  BY <1>0, <1>1, HeadIs
<1>3. msgs' \in Seq(MsgType) /\ MsgsKept /\ Posted' = Posted
  BY <1>1, <1>2, MsgMarked
<1>4. Alone(t)
  BY <1>1 DEF Alone
<1>5. /\ t \notin Calling /\ t \notin Calling' /\ pc[t] # "dispatch" /\ pc'[t] # "dispatch"
      /\ \A w \in Windows : ~LocksNow(t, w) /\ ~LocksNow(t, w)'
  BY <1>1 DEF Calling, LocksNow
<1>6. Room'
  BY <1>3, <1>4, <1>5, CallingSame DEF Room
<1>7. Placed'
  BY <1>1, <1>4, <1>5, PlacedKept DEF PlacedAt
<1>8. Peeking'
  BY <1>1 DEF Peeking
<1>9. queue' \in [Threads -> Seq(Ids)] /\ Queues'
  BY <1>1, <1>3, QueueTail
<1>10. Stacks' /\ RunningIsMapped'
  BY <1>1, <1>3, StacksKept, RunningKept
<1>11. LocksCounted' /\ RefsCounted'
  BY <1>1, <1>4, <1>5, CountersKept
<1>12. TypeOK'
  <2>1. /\ refs' \in [Ids -> 0..1] /\ touched' \in BOOLEAN
        /\ replied' \in [Ids -> [hasResult : BOOLEAN, event : BOOLEAN]]
    BY <1>1, <1>2, ReleasedType
  <2> QED
    BY <1>1, <1>3, <1>9, <2>1 DEF TypeOK, MsgType
<1> QED
  BY <1>6, <1>7, <1>8, <1>9, <1>10, <1>11, <1>12

LEMMA PeekTakeStep == ASSUME IInv, NEW t \in Threads, PeekTake(t) PROVE IInv'
<1> USE DEF IInv
<1>0. PICK m, v, f : /\ m = Head(queue[t]) /\ v = msgs[m].window
                     /\ f = [kind |-> "proc", window |-> v, msg |-> m, sent |-> FALSE,
                             destroy |-> FALSE]
  OBVIOUS
<1>1. /\ pc[t] = "peek" /\ queue[t] # << >> /\ queue' = [queue EXCEPT ![t] = Tail(@)]
      /\ life[v] = "alive" /\ msgs' = [msgs EXCEPT ![m].at = "peeked"]
      /\ qowner' = [qowner EXCEPT ![t] = None] /\ pc' = [pc EXCEPT ![t] = "dispatch"]
      /\ Push(t, f)
      /\ UNCHANGED <<cRef, life, owner, depth, refs, replied, touched, arg, directs>>
  BY <1>0 DEF PeekTake, replies
<1>2. m \in 1..Posted /\ m \in Ids /\ v \in Windows /\ OwnerOf[v] = t
  BY <1>0, <1>1, HeadIs
<1>3. msgs' \in Seq(MsgType) /\ MsgsKept /\ Posted' = Posted /\ Posted \in Nat
  BY <1>1, <1>2, MsgMarked, PostedNat
<1>4. f \in Frames /\ f.kind = "proc" /\ f.window = v /\ f.msg = m
  BY <1>0, <1>2, BoundsAssumption DEF Frames, Ids
<1>5. /\ stack' \in [Threads -> Seq(Frames)] /\ Alone(t) /\ pc'[t] = "dispatch"
      /\ pc' \in [Threads -> {"app", "findPost", "findSend", "post", "send", "wait", "peek", "dispatch", "after"}]
  BY <1>1, <1>4, StackPush DEF Alone, TypeOK
<1>6. stack'[t] # << >> /\ Last(stack'[t]) = f
  <2>1. /\ Len(stack'[t]) = Len(stack[t]) + 1 /\ Len(stack[t]) \in Nat
        /\ stack'[t][Len(stack[t]) + 1] = f
    BY <1>1, <1>4, StackPush
  <2>2. PICK n \in Nat, s \in Seq(Frames) : n = Len(stack[t]) /\ s = stack'[t]
    BY <1>5, <2>1
  <2>3. Len(s) = n + 1 /\ s[n + 1] = f /\ s # << >>
    BY <2>1, <2>2
  <2> QED
    BY <2>2, <2>3 DEF Last
<1>7. /\ t \notin Calling /\ t \notin Calling' /\ pc[t] # "dispatch"
      /\ \A w \in Windows : ~LocksNow(t, w) /\ ~LocksNow(t, w)'
  BY <1>1, <1>5 DEF Calling, LocksNow
<1>8. Room'
  BY <1>3, <1>5, <1>7, CallingSame DEF Room
<1>9. Placed'
  BY <1>4, <1>5, <1>6, <1>7, PlacedKept DEF PlacedAt, Top
<1>10. Peeking' /\ qowner' \in [Threads -> Threads \cup {None}]
  BY <1>1, <1>5, PeekingEnds
<1>11. queue' \in [Threads -> Seq(Ids)] /\ Queues'
  BY <1>1, <1>3, QueueTail
<1>12. Stacks'
  <2>1. f.msg <= Posted'
    BY <1>2, <1>3, <1>4
  <2> QED
    BY <1>1, <1>2, <1>3, <1>4, <2>1, StacksPushed
<1>13. RunningIsMapped'
  BY <1>1, <1>4, RunningPushed
<1>14. ASSUME NEW w \in Windows
       PROVE  SendFrames(t, w)' = SendFrames(t, w) /\ InFrame(t, w)' = InFrame(t, w)
  <2>1. TypeOK /\ Push(t, f) /\ f \in Frames /\ f.kind # "send"
    BY <1>1, <1>4
  <2>2. /\ SendFrames(t, w)' = SendFrames(t, w)
             \cup (IF f.kind = "send" /\ f.window = w THEN {Len(stack[t]) + 1} ELSE {})
        /\ InFrame(t, w)' = InFrame(t, w)
             \cup (IF f.window = w /\ pc'[t] # "dispatch" THEN {Len(stack[t]) + 1} ELSE {})
    <3> HIDE DEF IInv
    <3> QED
      BY <1>7, <2>1, PushedFrames
  <2> QED
    BY <1>5, <2>1, <2>2
<1>15. LocksCounted'
  <2>1. \A w \in Windows : Holds(t, w)' = Holds(t, w)
    BY <1>7, <1>14 DEF Holds
  <2> QED
    BY <1>1, <1>5, <2>1, LocksKept
<1>16. RefsCounted'
  <2> SUFFICES ASSUME NEW w \in Windows PROVE Counted(w)'
    BY DEF RefsCounted
  <2>1. MapRef(w)' = MapRef(w) /\ t \notin Callers(w) /\ t \notin Callers(w)'
    BY <1>1, <1>7 DEF MapRef, Callers
  <2> QED
    BY <1>1, <1>5, <1>14, <2>1, CountedSame
<1>17. TypeOK'
  BY <1>1, <1>3, <1>5, <1>10, <1>11 DEF TypeOK, MsgType
<1> QED
  BY <1>8, <1>9, <1>10, <1>11, <1>12, <1>13, <1>15, <1>16, <1>17

LEMMA DispatchStep == ASSUME IInv, NEW t \in Threads, Dispatch(t) PROVE IInv'
<1> USE DEF IInv
<1>0. PICK v, n : v = Top(t).window /\ n = Len(stack[t])
  OBVIOUS
<1>1. /\ pc[t] = "dispatch" /\ cRef' = [cRef EXCEPT ![v] = @ + 1] /\ pc' = [pc EXCEPT ![t] = "app"]
      /\ UNCHANGED <<owner, depth, qowner, life, queue, msgs, refs, replied, touched, stack, arg, directs>>
  BY <1>0 DEF Dispatch, AddRef, locks, replies
<1>2. stack[t] # << >>
  BY <1>1 DEF Placed, PlacedAt
<1>3. n \in DOMAIN stack[t] /\ Top(t) = stack[t][n] /\ v \in Windows
  BY <1>0, <1>2, TopIs DEF Frames
<1>4. /\ Alone(t) /\ pc'[t] = "app"
      /\ pc' \in [Threads -> {"app", "findPost", "findSend", "post", "send", "wait", "peek", "dispatch", "after"}]
  BY <1>1 DEF Alone, TypeOK
<1>5. MsgsKept /\ Posted' = Posted
  BY <1>1, MsgsUnchanged
<1>6. /\ t \notin Calling /\ t \notin Calling'
      /\ \A w \in Windows : ~LocksNow(t, w) /\ ~LocksNow(t, w)'
  BY <1>1, <1>4 DEF Calling, LocksNow
<1>7. Room'
  BY <1>4, <1>5, <1>6, CallingSame DEF Room
<1>8. Placed'
  BY <1>4, <1>6, PlacedKept DEF PlacedAt
<1>9. Peeking'
  BY <1>1, <1>4, PeekingKept
<1>10. Queues' /\ Stacks' /\ RunningIsMapped'
  BY <1>1, <1>5, QueuesKept, StacksKept, RunningKept
<1>11. LocksCounted'
  BY <1>1, <1>4, <1>6, HoldsBy, LocksKept
<1>12. ASSUME NEW w \in Windows
       PROVE  /\ w # v => InFrame(t, w)' = InFrame(t, w)
              /\ w = v => InFrame(t, w)' = InFrame(t, w) \cup {n}
              /\ n \notin InFrame(t, w)
  <2>1. InFrame(t, w) = {i \in DOMAIN stack[t] : stack[t][i].window = w /\ i # n}
    BY <1>0, <1>1 DEF InFrame
  <2>2. InFrame(t, w)' = {i \in DOMAIN stack[t] : stack[t][i].window = w}
    BY <1>1, <1>4 DEF InFrame
  <2>3. stack[t][n].window = v
    BY <1>0, <1>3
  <2> QED
    BY <1>3, <2>1, <2>2, <2>3
<1>13. RefsCounted'
  <2> SUFFICES ASSUME NEW w \in Windows PROVE Counted(w)'
    BY DEF RefsCounted
  <2>1. MapRef(w)' = MapRef(w) /\ t \notin Callers(w) /\ t \notin Callers(w)'
    BY <1>1, <1>6 DEF MapRef, Callers
  <2>2. CASE w # v
    <3>1. cRef'[w] = cRef[w]
      BY <1>1, <2>2 DEF TypeOK
    <3> QED
      BY <1>4, <1>12, <2>1, <2>2, <3>1, CountedSame
  <2>3. CASE w = v
    <3>1. InFrame(t, w)' = InFrame(t, w) \cup {n} /\ n \notin InFrame(t, w)
      BY <1>12, <2>3
    <3>2. IsFiniteSet(FrameRefs(w)') /\ Cardinality(FrameRefs(w)') = Cardinality(FrameRefs(w)) + 1
      BY <1>4, <3>1, OthersKept, CountsAreNat, FrameAdded
    <3>3. Callers(w)' = Callers(w)
      BY <1>4, <2>1, CallersSame
    <3>4. cRef'[w] = cRef[w] + 1
      BY <1>1, <2>3 DEF TypeOK
    <3> QED
      BY <2>1, <3>2, <3>3, <3>4, CountsAreNat DEF Counted
  <2> QED
    BY <2>2, <2>3
<1>14. TypeOK'
  <2>1. cRef' \in [Windows -> Nat]
    <3>1. \A w \in Windows : cRef'[w] \in Nat
      BY <1>13, CountedNat DEF RefsCounted
    <3>2. cRef' = [w \in Windows |-> cRef'[w]]
      BY <1>1 DEF TypeOK
    <3> QED
      BY <3>1, <3>2
  <2> QED
    BY <1>1, <1>4, <2>1 DEF TypeOK
<1> QED
  BY <1>7, <1>8, <1>9, <1>10, <1>11, <1>13, <1>14

LEMMA ProcReturnStep == ASSUME IInv, NEW t \in Threads, ProcReturn(t) PROVE IInv'
<1> USE DEF IInv
<1>0. PICK m, v, n, d : /\ m = Top(t).msg /\ v = Top(t).window /\ n = Len(stack[t])
                        /\ d = Top(t).destroy
  OBVIOUS
<1>1. /\ pc[t] = "app" /\ stack[t] # << >> /\ Top(t).kind = "proc" /\ LockWindow(t, v)
      /\ life' = [life EXCEPT ![v] = IF d THEN "destroyed" ELSE @]
      /\ pc' = [pc EXCEPT ![t] = "after"]
      /\ UNCHANGED <<cRef, qowner, queue, refs, stack, arg, directs>>
  BY <1>0 DEF ProcReturn
<1>2. \/ m = 0 /\ UNCHANGED <<msgs, replied, touched>>
      \/ /\ m # 0 /\ msgs' = [msgs EXCEPT ![m].at = "done"]
         /\ replied' = [replied EXCEPT ![m] = IF msgs[m].sent
                          THEN [hasResult |-> TRUE, event |-> TRUE] ELSE @]
         /\ touched' = (touched \/ refs[m] = 0)
  BY <1>0 DEF ProcReturn
<1>3. /\ n \in DOMAIN stack[t] /\ Top(t) = stack[t][n] /\ v \in Windows /\ m \in 0..MaxMsgs
      /\ m <= Posted /\ life[v] # "freed"
  <2>1. n \in DOMAIN stack[t] /\ Top(t) = stack[t][n]
    BY <1>0, <1>1, TopIs
  <2> QED
    BY <1>0, <1>1, <2>1, FrameIs DEF Stacks, RunningIsMapped
<1>4. /\ msgs' \in Seq(MsgType) /\ MsgsKept /\ Posted' = Posted
      /\ replied' \in [Ids -> [hasResult : BOOLEAN, event : BOOLEAN]] /\ touched' \in BOOLEAN
  <2>1. CASE m = 0 /\ UNCHANGED <<msgs, replied, touched>>
    BY <2>1, PostedNat, MsgsUnchanged DEF TypeOK
  <2>2. CASE /\ m # 0 /\ msgs' = [msgs EXCEPT ![m].at = "done"]
             /\ replied' = [replied EXCEPT ![m] = IF msgs[m].sent
                              THEN [hasResult |-> TRUE, event |-> TRUE] ELSE @]
             /\ touched' = (touched \/ refs[m] = 0)
    <3>1. Posted \in Nat /\ m \in 1..Posted /\ m \in Ids
      BY <1>3, <2>2, PostedNat, BoundsAssumption DEF Ids
    <3>2. msgs' \in Seq(MsgType) /\ MsgsKept /\ Posted' = Posted
      BY <2>2, <3>1, MsgMarked
    <3>3. PICK r : r = IF msgs[m].sent THEN [hasResult |-> TRUE, event |-> TRUE] ELSE replied[m]
      OBVIOUS
    <3>4. r \in [hasResult : BOOLEAN, event : BOOLEAN]
      BY <3>1, <3>3 DEF TypeOK
    <3>5. replied' = [replied EXCEPT ![m] = r]
      BY <2>2, <3>3
    <3>6. replied' \in [Ids -> [hasResult : BOOLEAN, event : BOOLEAN]]
      BY <3>4, <3>5 DEF TypeOK
    <3> QED
      BY <2>2, <3>2, <3>6
  <2> QED
    BY <1>2, <2>1, <2>2
<1>5. /\ Alone(t) /\ pc'[t] = "after"
      /\ pc' \in [Threads -> {"app", "findPost", "findSend", "post", "send", "wait", "peek", "dispatch", "after"}]
  BY <1>1 DEF Alone, TypeOK
<1>6. t \notin Calling /\ t \notin Calling'
  BY <1>1, <1>5 DEF Calling
<1>7. \A w \in Windows : ~LocksNow(t, w) /\ (LocksNow(t, w)' <=> w = v)
  BY <1>0, <1>1, <1>5 DEF LocksNow, Top
<1>8. Room'
  BY <1>4, <1>5, <1>6, CallingSame DEF Room
<1>9. Placed'
  BY <1>1, <1>5, <1>6, PlacedKept DEF PlacedAt, Top
<1>10. Peeking'
  BY <1>1, <1>5, PeekingKept
<1>11. /\ life' \in [Windows -> {"alive", "destroyed", "freed"}]
       /\ \A w \in Windows : life'[w] = "freed" <=> life[w] = "freed"
  <2>1. life \in [Windows -> {"alive", "destroyed", "freed"}]
    BY DEF TypeOK
  <2>2. PICK l \in {"alive", "destroyed"} : life' = [life EXCEPT ![v] = l]
    BY <1>1, <1>3, <2>1
  <2> QED
    BY <1>3, <2>1, <2>2
<1>12. Queues' /\ Stacks' /\ RunningIsMapped'
  BY <1>1, <1>4, <1>11, QueuesKept, StacksKept, RunningKept
<1>13. /\ LocksCounted' /\ owner' \in [Windows -> Threads \cup {None}]
       /\ depth' \in [Windows -> Nat]
  <2>1. Holds(t, v)' = Holds(t, v) + 1
    BY <1>1, <1>3, <1>7, HoldsBy
  <2>2. \A w \in Windows : w # v => Holds(t, w)' = Holds(t, w)
    BY <1>1, <1>7, HoldsBy
  <2> QED
    BY <1>1, <1>3, <1>5, <2>1, <2>2, LockTaken
<1>14. RefsCounted'
  <2> SUFFICES ASSUME NEW w \in Windows PROVE Counted(w)'
    BY DEF RefsCounted
  <2>1. MapRef(w)' = MapRef(w) /\ InFrame(t, w)' = InFrame(t, w)
    BY <1>1, <1>5, <1>11 DEF MapRef, InFrame
  <2>2. t \notin Callers(w) /\ t \notin Callers(w)'
    BY <1>6 DEF Callers
  <2> QED
    BY <1>1, <1>5, <2>1, <2>2, CountedSame
<1>15. TypeOK'
  BY <1>1, <1>4, <1>5, <1>11, <1>13 DEF TypeOK, MsgType
<1> QED
  BY <1>8, <1>9, <1>10, <1>12, <1>13, <1>14, <1>15

LEMMA ProcEndStep == ASSUME IInv, NEW t \in Threads, ProcEnd(t) PROVE IInv'
<1> USE DEF IInv
<1>0. PICK m, v, n, l, k : /\ m = Top(t).msg /\ v = Top(t).window /\ n = Len(stack[t])
                           /\ l = Resumed(Front(stack[t]))
                           /\ k = IF life'[v] = "freed" THEN 2 ELSE 1
  OBVIOUS
<1>1. /\ pc[t] = "after" /\ UnlockWindow(v) /\ Pop(t) /\ pc' = [pc EXCEPT ![t] = l]
      /\ life' = [life EXCEPT ![v] = IF @ = "destroyed" /\ ~ Running(v, Front(stack[t]))
                                     THEN "freed" ELSE @]
      /\ cRef' = [cRef EXCEPT ![v] = @ - k]
      /\ IF m = 0 THEN UNCHANGED <<refs, replied, touched>> ELSE Released(m)
      /\ UNCHANGED <<qowner, queue, msgs, arg, directs>>
  BY <1>0 DEF ProcEnd
<1>2. stack[t] # << >> /\ Top(t).kind = "proc"
  BY <1>1 DEF Placed, PlacedAt
<1>3. /\ n \in DOMAIN stack[t] /\ Top(t) = stack[t][n] /\ v \in Windows /\ m \in 0..MaxMsgs
      /\ OwnerOf[v] = t /\ life[v] # "freed"
  <2>1. n \in DOMAIN stack[t] /\ Top(t) = stack[t][n]
    BY <1>0, <1>2, TopIs
  <2> QED
    BY <1>0, <1>2, <2>1, FrameIs DEF Stacks, RunningIsMapped
<1>4. /\ stack' \in [Threads -> Seq(Frames)] /\ stack'[t] = Front(stack[t])
      /\ \A u \in Threads \ {t} : stack'[u] = stack[u]
      /\ \A i \in DOMAIN stack'[t] : i \in DOMAIN stack[t] /\ stack'[t][i] = stack[t][i]
  <2>1. /\ stack' \in [Threads -> Seq(Frames)] /\ stack'[t] = Front(stack[t])
        /\ \A u \in Threads \ {t} : stack'[u] = stack[u]
        /\ n \in Nat \ {0} /\ DOMAIN stack[t] = 1..n /\ DOMAIN stack'[t] = 1..(n - 1)
        /\ \A i \in 1..(n - 1) : stack'[t][i] = stack[t][i]
    <3>1. TypeOK /\ Pop(t)
      BY <1>1
    <3> HIDE DEF IInv
    <3> QED
      BY <1>0, <1>2, <3>1, StackPop
  <2>2. 1..(n - 1) \subseteq 1..n
    BY <2>1
  <2> QED
    BY <2>1, <2>2
<1>5. l \in {"app", "wait"} /\ (l = "wait" => Waits(stack'[t]))
  BY <1>0, <1>4 DEF Resumed
<1>6. /\ Alone(t) /\ pc'[t] = l
      /\ pc' \in [Threads -> {"app", "findPost", "findSend", "post", "send", "wait", "peek", "dispatch", "after"}]
  BY <1>1, <1>4, <1>5 DEF Alone, TypeOK
<1>7. MsgsKept /\ Posted' = Posted
  BY <1>1, MsgsUnchanged
<1>8. t \notin Calling /\ t \notin Calling' /\ pc[t] # "dispatch" /\ pc'[t] # "dispatch"
  BY <1>1, <1>5, <1>6 DEF Calling
<1>9. Room'
  BY <1>6, <1>7, <1>8, CallingSame DEF Room
<1>10. Placed'
  BY <1>5, <1>6, <1>8, PlacedKept DEF PlacedAt
<1>11. Peeking'
  BY <1>1, <1>5, <1>6, PeekingKept
<1>12. Queues' /\ Stacks'
  BY <1>1, <1>2, <1>7, QueuesKept, StacksPopped
<1>13. /\ life' \in [Windows -> {"alive", "destroyed", "freed"}]
       /\ \A w \in Windows : w # v => life'[w] = life[w]
       /\ life'[v] = "freed" => ~ Running(v, Front(stack[t]))
  <2>1. life \in [Windows -> {"alive", "destroyed", "freed"}]
    BY DEF TypeOK
  <2>2. PICK x : x = IF life[v] = "destroyed" /\ ~ Running(v, Front(stack[t])) THEN "freed" ELSE life[v]
    OBVIOUS
  <2>3. x \in {"alive", "destroyed", "freed"} /\ (x = "freed" => ~ Running(v, Front(stack[t])))
    BY <1>3, <2>1, <2>2
  <2>4. life' = [life EXCEPT ![v] = x]
    BY <1>1, <2>2
  <2> QED
    BY <1>3, <2>1, <2>3, <2>4
<1>14. RunningIsMapped'
  <2> SUFFICES ASSUME NEW u \in Threads, NEW i \in DOMAIN stack'[u], stack'[u][i].kind = "proc"
               PROVE  life'[stack'[u][i].window] # "freed"
    BY DEF RunningIsMapped
  <2>1. i \in DOMAIN stack[u] /\ stack'[u][i] = stack[u][i]
    BY <1>4
  <2>2. /\ stack[u][i].window \in Windows /\ OwnerOf[stack[u][i].window] = u
        /\ life[stack[u][i].window] # "freed"
    BY <2>1, FrameIs DEF Stacks, RunningIsMapped
  <2>3. CASE stack[u][i].window # v
    BY <1>13, <2>1, <2>2, <2>3
  <2>4. CASE stack[u][i].window = v
    <3>1. u = t
      BY <1>3, <2>2, <2>4
    <3>2. Running(v, Front(stack[t]))
      BY <1>4, <2>1, <2>4, <3>1 DEF Running
    <3> QED
      BY <1>13, <2>1, <2>4, <3>2
  <2> QED
    BY <2>3, <2>4
<1>15. ASSUME NEW w \in Windows
       PROVE  /\ SendFrames(t, w)' = SendFrames(t, w)
              /\ InFrame(t, w)' = InFrame(t, w) \ {n}
              /\ n \in InFrame(t, w) <=> w = v
              /\ ~LocksNow(t, w)' /\ (LocksNow(t, w) <=> w = v)
  <2>1. ~LocksNow(t, w)' /\ (LocksNow(t, w) <=> w = v)
    BY <1>0, <1>1, <1>5, <1>6 DEF LocksNow
  <2>2. TypeOK /\ Pop(t)
    BY <1>1
  <2>3. /\ SendFrames(t, w)' = SendFrames(t, w) \ {n}
        /\ n \in SendFrames(t, w) <=> Top(t).kind = "send" /\ Top(t).window = w
        /\ InFrame(t, w)' = InFrame(t, w) \ {n}
        /\ n \in InFrame(t, w) <=> Top(t).window = w
    <3> HIDE DEF IInv
    <3> QED
      BY <1>0, <1>2, <1>8, <2>2, PoppedFrames
  <2>4. n \notin SendFrames(t, w)
    BY <1>2, <2>3
  <2>5. SendFrames(t, w)' = SendFrames(t, w)
    BY <2>3, <2>4
  <2> QED
    BY <1>0, <2>1, <2>3, <2>5
<1>16. /\ LocksCounted' /\ owner' \in [Windows -> Threads \cup {None}]
       /\ depth' \in [Windows -> Nat]
  <2>1. Holds(t, v)' = Holds(t, v) - 1 /\ Holds(t, v) > 0
    <3>1. SendFrames(t, v)' = SendFrames(t, v) /\ LocksNow(t, v) /\ ~LocksNow(t, v)'
      BY <1>3, <1>15
    <3>2. PICK c \in Nat : c = Cardinality(SendFrames(t, v))
      BY SendFramesFinite
    <3>3. Holds(t, v) = c + 1 /\ Holds(t, v)' = c + 0
      BY <3>1, <3>2 DEF Holds
    <3> QED
      BY <3>2, <3>3
  <2>2. \A w \in Windows : w # v => Holds(t, w)' = Holds(t, w)
    BY <1>15 DEF Holds
  <2> QED
    BY <1>1, <1>3, <1>6, <2>1, <2>2, LockFreed
<1>17. RefsCounted'
  <2> SUFFICES ASSUME NEW w \in Windows PROVE Counted(w)'
    BY DEF RefsCounted
  <2>1. t \notin Callers(w) /\ t \notin Callers(w)'
    BY <1>8 DEF Callers
  <2>2. CASE w # v
    <3>1. InFrame(t, w)' = InFrame(t, w)
      BY <1>15, <2>2
    <3>2. cRef'[w] = cRef[w]
      BY <1>1, <2>2 DEF TypeOK
    <3>3. MapRef(w)' = MapRef(w)
      BY <1>13, <2>2 DEF MapRef
    <3> QED
      BY <1>6, <2>1, <3>1, <3>2, <3>3, CountedSame
  <2>3. CASE w = v
    <3>1. n \in InFrame(t, w) /\ InFrame(t, w)' = InFrame(t, w) \ {n}
      BY <1>15, <2>3
    <3>2. IsFiniteSet(FrameRefs(w)') /\ Cardinality(FrameRefs(w)') = Cardinality(FrameRefs(w)) - 1
      BY <1>6, <3>1, OthersKept, CountsAreNat, FrameRemoved
    <3>3. Callers(w)' = Callers(w)
      BY <1>6, <2>1, CallersSame
    <3>4. cRef'[w] = cRef[w] - k
      BY <1>1, <2>3 DEF TypeOK
    <3>5. MapRef(w) = 1 /\ MapRef(w)' = 2 - k /\ k \in {1, 2}
      BY <1>0, <1>3, <2>3 DEF MapRef
    <3> QED
      BY <3>2, <3>3, <3>4, <3>5, CountsAreNat DEF Counted
  <2> QED
    BY <2>2, <2>3
<1>18. TypeOK'
  <2>1. cRef' \in [Windows -> Nat]
    <3>1. \A w \in Windows : cRef'[w] \in Nat
      BY <1>17, CountedNat DEF RefsCounted
    <3>2. cRef' = [w \in Windows |-> cRef'[w]]
      BY <1>1 DEF TypeOK
    <3> QED
      BY <3>1, <3>2
  <2>2. /\ refs' \in [Ids -> 0..1] /\ touched' \in BOOLEAN
        /\ replied' \in [Ids -> [hasResult : BOOLEAN, event : BOOLEAN]]
    <3>1. CASE m = 0
      BY <1>1, <3>1 DEF TypeOK
    <3>2. CASE m # 0
      <4>1. m \in Ids /\ Released(m)
        BY <1>1, <1>3, <3>2, BoundsAssumption DEF Ids
      <4> QED
        BY <4>1, ReleasedType
    <3> QED
      BY <3>1, <3>2
  <2> QED
    BY <1>1, <1>4, <1>6, <1>13, <1>16, <2>1, <2>2 DEF TypeOK
<1> QED
  BY <1>9, <1>10, <1>11, <1>12, <1>14, <1>16, <1>17, <1>18

-----------------------------------------------------------------------------
LEMMA InitIInv == Init => IInv
<1> SUFFICES ASSUME Init PROVE IInv
  OBVIOUS
<1> USE DEF Init
<1>1. Posted = 0 /\ Calling = {} /\ Cardinality(Calling) = 0 /\ MaxMsgs \in Nat /\ MaxDirect \in Nat
  BY FS_EmptySet, BoundsAssumption DEF Posted, Calling
<1>2. \A t \in Threads : stack[t] = << >> /\ DOMAIN stack[t] = {} /\ queue[t] = << >> /\ DOMAIN queue[t] = {}
  OBVIOUS
<1>3. TypeOK
  <2>1. << >> \in Seq(Ids) /\ << >> \in Seq(Frames)
        /\ << >> \in Seq([window : Windows, sent : BOOLEAN, at : {"queued", "peeked", "done", "dropped"}])
    OBVIOUS
  <2>2. refs \in [Ids -> 0..1] /\ replied \in [Ids -> [hasResult : BOOLEAN, event : BOOLEAN]]
    OBVIOUS
  <2>3. stack \in [Threads -> Seq(Frames)] /\ queue \in [Threads -> Seq(Ids)]
    BY <2>1
  <2>4. life \in [Windows -> {"alive", "destroyed", "freed"}] /\ cRef \in [Windows -> Nat]
        /\ depth \in [Windows -> Nat] /\ directs \in 0..MaxDirect
    BY <1>1
  <2> QED
    BY <2>1, <2>2, <2>3, <2>4 DEF TypeOK
<1>4. Room
  BY <1>1 DEF Room
<1>5. Placed /\ Peeking
  BY NoneAssumption DEF Placed, PlacedAt, Peeking, Calling
<1>6. Queues /\ Stacks /\ RunningIsMapped
  BY <1>2 DEF Queues, Stacks, RunningIsMapped
<1>7. LocksCounted
  <2>1. \A t \in Threads, w \in Windows : SendFrames(t, w) = {} /\ ~LocksNow(t, w)
    BY <1>2 DEF SendFrames, LocksNow
  <2>2. ASSUME NEW t \in Threads, NEW w \in Windows PROVE Holds(t, w) = 0
    <3>1. Cardinality(SendFrames(t, w)) = 0
      BY <2>1, FS_EmptySet
    <3> QED
      BY <2>1, <3>1 DEF Holds
  <2> QED
    BY <2>2, NoneAssumption DEF LocksCounted
<1>8. RefsCounted
  <2> SUFFICES ASSUME NEW w \in Windows PROVE Counted(w)
    BY DEF RefsCounted
  <2>1. Callers(w) = {} /\ \A t \in Threads : InFrame(t, w) = {}
    BY <1>1, <1>2 DEF Callers, InFrame
  <2>2. FrameRefs(w) = {}
    BY <2>1, FrameRefsIs
  <2>3. MapRef(w) = 1 /\ cRef[w] = 1
    BY DEF MapRef
  <2> QED
    BY <2>1, <2>2, <2>3, FS_EmptySet DEF Counted
<1> QED
  BY <1>3, <1>4, <1>5, <1>6, <1>7, <1>8 DEF IInv

LEMMA StutterStep == ASSUME IInv, UNCHANGED vars PROVE IInv'
<1>1. UNCHANGED <<life, cRef, owner, depth, qowner, queue, msgs, refs, replied, stack, pc,
                  arg, touched, directs>>
  BY DEF vars
<1>2. TypeOK' /\ Room' /\ Placed' /\ Peeking' /\ Queues' /\ Stacks' /\ RunningIsMapped'
  BY <1>1 DEF IInv, TypeOK, Room, Posted, Calling, Placed, PlacedAt, Top, Peeking, Queues, Stacks,
              RunningIsMapped
<1>3. LocksCounted'
  BY <1>1 DEF IInv, LocksCounted, Holds, SendFrames, LocksNow, Top
<1>4. RefsCounted'
  BY <1>1 DEF IInv, RefsCounted, Counted, Callers, Calling, FrameRefs, InFrame, MapRef
<1> QED
  BY <1>2, <1>3, <1>4 DEF IInv

LEMMA NextIInv == IInv /\ [Next]_vars => IInv'
<1> SUFFICES ASSUME IInv, [Next]_vars PROVE IInv'
  OBVIOUS
<1>1. ASSUME NEW t \in Threads, Step(t) PROVE IInv'
  <2>1. ASSUME NEW w \in Windows, PostBegin(t, w) \/ SendBegin(t, w) PROVE IInv'
    <3>1. PICK l \in {"findPost", "findSend"} : pc[t] = "app" /\ RoomForOne /\ Lookup(t, w, l)
      BY <2>1 DEF PostBegin, SendBegin
    <3> QED
      BY <3>1, LookupStep
  <2>2. ASSUME NEW w \in Windows, NEW d \in BOOLEAN, SendDirect(t, w, d) PROVE IInv'
    BY <2>2, SendDirectStep
  <2>3. CASE FoundPost(t) \/ FoundSend(t) \/ PostEnqueue(t) \/ SendEnqueue(t) \/ SendEnd(t)
    BY <2>3, FoundPostStep, FoundSendStep, PostEnqueueStep, SendEnqueueStep, SendEndStep
  <2>4. CASE PeekLock(t) \/ PeekDrop(t) \/ PeekNone(t) \/ PeekTake(t)
    BY <2>4, PeekLockStep, PeekDropStep, PeekNoneStep, PeekTakeStep
  <2>5. CASE Dispatch(t) \/ ProcReturn(t) \/ ProcEnd(t)
    BY <2>5, DispatchStep, ProcReturnStep, ProcEndStep
  <2> QED
    BY <1>1, <2>1, <2>2, <2>3, <2>4, <2>5 DEF Step
<1>2. CASE UNCHANGED vars
  BY <1>2, StutterStep
<1> QED
  BY <1>1, <1>2 DEF Next

LEMMA SpecIInv == Spec => []IInv
  BY InitIInv, NextIInv, PTL DEF Spec

-----------------------------------------------------------------------------
\* A lock is held for a frame of a send or by what its owner is doing.
LEMMA OwnerHolds ==
  ASSUME IInv, NEW t \in Threads, NEW w \in Windows, owner[w] = t
  PROVE  LocksNow(t, w) \/ SendFrames(t, w) # {}
<1>1. Holds(t, w) = depth[w] /\ depth[w] # 0
  BY NoneAssumption DEF IInv, LocksCounted
<1>2. CASE ~LocksNow(t, w) /\ SendFrames(t, w) = {}
  BY <1>1, <1>2, FS_EmptySet DEF Holds
<1> QED
  BY <1>2

(***************************************************************************)
(* With any number of threads, windows and nested sends, the code of an    *)
(* application and the wait for a reply run without the lock of any queue  *)
(* and of any window but those being sent to: FreeLock before and          *)
(* RestoreLock after a window procedure are balanced on every path through *)
(* PostMessage, SendMessage, PeekMessage and DispatchMessage.              *)
(***************************************************************************)
THEOREM CodeIsUnlocked == Spec => []CodeRunsUnlocked
<1>1. IInv => CodeRunsUnlocked
  <2> SUFFICES ASSUME IInv, NEW t \in Threads, pc[t] \in {"app", "wait"}
               PROVE  /\ \A u \in Threads : qowner[u] # t
                      /\ \A w \in Windows : owner[w] = t =>
                           \E i \in DOMAIN stack[t] : stack[t][i].kind = "send" /\ stack[t][i].window = w
    BY DEF CodeRunsUnlocked
  <2>1. \A u \in Threads : qowner[u] # t
    BY DEF IInv, Peeking
  <2>2. ASSUME NEW w \in Windows, owner[w] = t
        PROVE  \E i \in DOMAIN stack[t] : stack[t][i].kind = "send" /\ stack[t][i].window = w
    <3>1. ~LocksNow(t, w)
      BY DEF LocksNow
    <3>2. SendFrames(t, w) # {}
      BY <2>2, <3>1, OwnerHolds
    <3> QED
      BY <3>2 DEF SendFrames
  <2> QED
    BY <2>1, <2>2
<1> QED
  BY <1>1, SpecIInv, PTL

(***************************************************************************)
(* A window whose procedure runs, at any depth of nesting, is still in     *)
(* WndMap: CallWindowProcPriv frees it only when msgRecusiveCount is 0.    *)
(***************************************************************************)
THEOREM RunningStaysMapped == Spec => []RunningIsMapped
<1>1. IInv => RunningIsMapped
  BY DEF IInv
<1> QED
  BY <1>1, SpecIInv, PTL

(***************************************************************************)
(* The count of references to a _Window is above 0 exactly as long as the  *)
(* window is in WndMap or a thread looks it up, holds its lock or is       *)
(* nested in one of its procedures or sends: no thread uses a deleted      *)
(* window, and none is left over.                                          *)
(***************************************************************************)
THEOREM WindowsOutliveUsers == Spec => []WindowAlive
<1>1. IInv => WindowAlive
  <2> SUFFICES ASSUME IInv, NEW w \in Windows
               PROVE  (cRef[w] > 0) <=> (life[w] # "freed" \/ \E t \in Threads : Uses(t, w))
    BY DEF WindowAlive, IInv
  <2>1. /\ Cardinality(Callers(w)) \in Nat /\ Cardinality(FrameRefs(w)) \in Nat
        /\ MapRef(w) \in {0, 1} /\ IsFiniteSet(FrameRefs(w)) /\ IsFiniteSet(Callers(w))
        /\ cRef[w] = Cardinality(Callers(w)) + Cardinality(FrameRefs(w)) + MapRef(w)
    BY CountsAreNat, CallersFinite
  <2>2. /\ Cardinality(Callers(w)) = 0 <=> Callers(w) = {}
        /\ Cardinality(FrameRefs(w)) = 0 <=> FrameRefs(w) = {}
        /\ MapRef(w) = 0 <=> life[w] = "freed"
    BY <2>1, FS_EmptySet DEF MapRef
  <2>3. (cRef[w] > 0) <=> (Callers(w) # {} \/ FrameRefs(w) # {} \/ life[w] # "freed")
    BY <2>1, <2>2
  <2>4. Callers(w) # {} => \E t \in Threads : Uses(t, w)
    BY DEF Callers, Calling, Uses
  <2>5. FrameRefs(w) # {} => \E t \in Threads : Uses(t, w)
    <3> SUFFICES ASSUME NEW x \in FrameRefs(w) PROVE \E t \in Threads : Uses(t, w)
      OBVIOUS
    <3>1. PICK t \in Threads : \E i \in InFrame(t, w) : x = <<t, i>>
      BY FrameRefsIs
    <3> QED
      BY <3>1 DEF InFrame, Uses
  <2>6. ASSUME NEW t \in Threads, Uses(t, w)
        PROVE  Callers(w) # {} \/ FrameRefs(w) # {} \/ life[w] # "freed"
    <3>1. ASSUME NEW i \in DOMAIN stack[t], stack[t][i].window = w
          PROVE  FrameRefs(w) # {} \/ life[w] # "freed"
      <4>1. CASE pc[t] = "dispatch" /\ i = Len(stack[t])
        <5>1. stack[t] # << >> /\ Top(t).kind = "proc" /\ TypeOK
          BY <4>1 DEF IInv, Placed, PlacedAt
        <5>2. stack[t][i].kind = "proc"
          BY <4>1, <5>1, TopIs
        <5> QED
          BY <3>1, <5>2 DEF IInv, RunningIsMapped
      <4>2. CASE ~ (pc[t] = "dispatch" /\ i = Len(stack[t]))
        <5>1. i \in InFrame(t, w)
          BY <3>1, <4>2 DEF InFrame
        <5> QED
          BY <5>1, FrameRefsIs
      <4> QED
        BY <4>1, <4>2
    <3>2. ASSUME t \in Calling, arg[t] = w PROVE Callers(w) # {}
      BY <3>2 DEF Callers
    <3>3. CASE owner[w] = t
      <4>1. CASE SendFrames(t, w) # {}
        BY <3>1, <4>1 DEF SendFrames
      <4>2. CASE LocksNow(t, w)
        <5>1. CASE pc[t] \in {"post", "send"} /\ arg[t] = w
          BY <3>2, <5>1 DEF Calling
        <5>2. CASE pc[t] = "after" /\ Top(t).window = w
          <6>1. stack[t] # << >> /\ TypeOK
            BY <5>2 DEF IInv, Placed, PlacedAt
          <6>2. Len(stack[t]) \in DOMAIN stack[t] /\ stack[t][Len(stack[t])].window = w
            BY <5>2, <6>1, TopIs
          <6> QED
            BY <3>1, <6>2
        <5> QED
          BY <4>2, <5>1, <5>2 DEF LocksNow
      <4> QED
        BY <3>3, <4>1, <4>2, OwnerHolds
    <3> QED
      BY <2>6, <3>1, <3>2, <3>3 DEF Uses
  <2> QED
    BY <2>3, <2>4, <2>5, <2>6
<1> QED
  BY <1>1, SpecIInv, PTL
==============================================================================
