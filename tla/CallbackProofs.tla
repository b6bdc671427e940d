--------------------------- MODULE CallbackProofs ----------------------------
(***************************************************************************)
(* The two places that keep an object while application code runs in a     *)
(* callback of it: hooks (hook.cpp), which are counted, and registered     *)
(* waits (sysobjs.cpp), whose worker is joined.                            *)
(*                                                                         *)
(* Hooks, for any threads, handles and depth of calls: the count is exact, *)
(* and an event only goes down the chain.  The invariant adds that the     *)
(* chain is ordered by age, which every set and unhook keeps, and that age *)
(* is transitive, which takes an event that went through several hooks, or *)
(* skipped some, on to the next.                                           *)
(*                                                                         *)
(* Registered waits, for any threads, waits and objects: a WaitItem is     *)
(* deleted after the last use of it, unless its own callback unregisters   *)
(* it.  The invariant says whose turn it is with an item: at most one call *)
(* has it, the registration until the thread is stored, then the one       *)
(* UnregisterWait that joins the worker.                                   *)
(***************************************************************************)
EXTENDS Hooks, RegisteredWaits, FiniteSetTheorems, SequenceTheorems, TLAPS

-----------------------------------------------------------------------------
(***************************************************************************)
(* Hooks.                                                                  *)
(***************************************************************************)
\* The calls that have a reference of a hook.
Counted(f, h) == f.hook = h /\ f.at # "remote"
Calls(h) == {p \in Frames : Counted(At(p), h)}

\* A hook is in the chain once, and the chain is ordered by age.
Distinct == \A i, j \in DOMAIN chain : chain[i] = chain[j] => i = j
Sorted == \A i, j \in DOMAIN chain : i < j => Older(chain[i], chain[j])

\* Age is an order as long as the oldest exists.
OlderTransitive ==
  \A h, g, k \in Handles : Older(h, g) /\ Older(g, k) /\ refs[k] > 0 => Older(h, k)

OlderIrreflexive == \A h \in Handles : ~Older(h, h)

\* An event went through younger hooks only.
Descends ==
  \A t \in Threads : \A i, j \in DOMAIN stack[t] :
    Passed(t, i, j) => Older(stack[t][i].hook, stack[t][j].hook)

HInv ==
  /\ IsFiniteSet(Frames)
  /\ Distinct
  /\ Sorted
  /\ OlderTransitive
  /\ OlderIrreflexive
  /\ RefsExact
  /\ Descends

-----------------------------------------------------------------------------
LEMMA InitHInv == Init => HInv
<1> SUFFICES ASSUME Init PROVE HInv
  OBVIOUS
<1>1. \A t \in Threads : stack[t] = << >>
  BY DEF Init
<1>2. Frames = {}
  BY <1>1 DEF Frames
<1>3. IsFiniteSet(Frames)
  BY <1>2, FS_EmptySet
<1>4. TypeOK
  BY DEF Init, TypeOK
<1>5. \A h \in Handles : {p \in Frames : At(p).hook = h /\ At(p).at # "remote"} = {}
  BY <1>2
<1>6. \A h \in Handles : ~Contains(chain, h)
  BY DEF Init, Contains
<1>7. RefsExact
  <2>1. \A h \in Handles : refs[h] = 0
    BY DEF Init
  <2>2. \A h \in Handles :
          Cardinality({p \in Frames : At(p).hook = h /\ At(p).at # "remote"}) = 0
    BY <1>5, FS_EmptySet
  <2> QED
    BY <1>4, <1>6, <2>1, <2>2 DEF RefsExact
<1>8. Distinct /\ Sorted /\ OlderTransitive /\ OlderIrreflexive
  BY DEF Init, Distinct, Sorted, OlderTransitive, OlderIrreflexive, Older
<1>9. Descends
  BY <1>1 DEF Descends
<1> QED
  BY <1>3, <1>7, <1>8, <1>9 DEF HInv

-----------------------------------------------------------------------------
\* What a step does to the frames, and so to the calls of each hook.
IsPush(t, f) ==
  /\ stack' \in [Threads -> Seq(FrameSet)]
  /\ Len(stack'[t]) = Len(stack[t]) + 1
  /\ stack'[t][Len(stack[t]) + 1] = f
  /\ \A i \in DOMAIN stack[t] : stack'[t][i] = stack[t][i]
  /\ \A u \in Threads \ {t} : stack'[u] = stack[u]

IsPop(t) ==
  /\ stack' \in [Threads -> Seq(FrameSet)]
  /\ Len(stack[t]) > 0
  /\ Len(stack'[t]) = Len(stack[t]) - 1
  /\ \A i \in 1..(Len(stack[t]) - 1) : stack'[t][i] = stack[t][i]
  /\ \A u \in Threads \ {t} : stack'[u] = stack[u]

IsSetTop(t, f) ==
  /\ stack' \in [Threads -> Seq(FrameSet)]
  /\ Len(stack[t]) > 0
  /\ Len(stack'[t]) = Len(stack[t])
  /\ stack'[t][Len(stack[t])] = f
  /\ \A i \in 1..(Len(stack[t]) - 1) : stack'[t][i] = stack[t][i]
  /\ \A u \in Threads \ {t} : stack'[u] = stack[u]

LEMMA PushIsPush == ASSUME TypeOK, NEW t \in Threads, NEW f \in FrameSet, Push(t, f) PROVE IsPush(t, f)
<1>1. /\ stack \in [Threads -> Seq(FrameSet)]
      /\ stack' = [stack EXCEPT ![t] = Append(stack[t], f)]
  BY DEF TypeOK, Push
<1> HIDE DEF FrameSet
<1> QED
  BY <1>1 DEF IsPush

LEMMA FrontOfSeq ==
  ASSUME NEW S, NEW s \in Seq(S), s # << >>
  PROVE  /\ Front(s) \in Seq(S)
         /\ Len(s) > 0
         /\ Len(Front(s)) = Len(s) - 1
         /\ \A i \in 1..(Len(s) - 1) : Front(s)[i] = s[i]
<1>1. Len(s) \in Nat /\ Len(s) > 0 /\ \A i \in 1..(Len(s) - 1) : s[i] \in S
  OBVIOUS
<1>2. PICK n \in Int : n = Len(s) - 1
  BY <1>1
<1>3. \A i \in 1..n : s[i] \in S
  BY <1>1, <1>2
<1>4. /\ SubSeq(s, 1, n) \in Seq(S)
      /\ Len(SubSeq(s, 1, n)) = IF 1 <= n THEN n - 1 + 1 ELSE 0
      /\ \A i \in 1..(n - 1 + 1) : SubSeq(s, 1, n)[i] = s[1 + i - 1]
  BY <1>3, SubSeqProperties
<1>5. Front(s) = SubSeq(s, 1, n)
  BY <1>2 DEF Front
<1> QED
  BY <1>1, <1>2, <1>4, <1>5

LEMMA PopIsPop == ASSUME TypeOK, NEW t \in Threads, Busy(t), Pop(t) PROVE IsPop(t)
<1>1. /\ stack \in [Threads -> Seq(FrameSet)]
      /\ stack' = [stack EXCEPT ![t] = Front(stack[t])]
      /\ stack[t] # << >>
  BY DEF TypeOK, Pop, Busy
<1>2. /\ Front(stack[t]) \in Seq(FrameSet)
      /\ Len(stack[t]) > 0
      /\ Len(Front(stack[t])) = Len(stack[t]) - 1
      /\ \A i \in 1..(Len(stack[t]) - 1) : Front(stack[t])[i] = stack[t][i]
  BY <1>1, FrontOfSeq
<1>3. /\ stack'[t] = Front(stack[t])
      /\ \A u \in Threads \ {t} : stack'[u] = stack[u]
      /\ stack' \in [Threads -> Seq(FrameSet)]
  BY <1>1, <1>2
<1> QED
  BY <1>2, <1>3 DEF IsPop

LEMMA SetTopIsSetTop ==
  ASSUME TypeOK, NEW t \in Threads, Busy(t), NEW f \in FrameSet, SetTop(t, f) PROVE IsSetTop(t, f)
<1>1. /\ stack \in [Threads -> Seq(FrameSet)]
      /\ stack' = [stack EXCEPT ![t] = Append(Front(stack[t]), f)]
      /\ stack[t] # << >>
  BY DEF TypeOK, SetTop, Busy
<1>2. PICK s : s = Front(stack[t])
  OBVIOUS
<1>3. /\ s \in Seq(FrameSet)
      /\ Len(stack[t]) > 0
      /\ Len(s) = Len(stack[t]) - 1
      /\ \A i \in 1..(Len(stack[t]) - 1) : s[i] = stack[t][i]
  BY <1>1, <1>2, FrontOfSeq
<1>4. /\ Append(s, f) \in Seq(FrameSet)
      /\ Len(Append(s, f)) = Len(s) + 1
      /\ \A i \in 1..Len(s) : Append(s, f)[i] = s[i]
      /\ Append(s, f)[Len(s) + 1] = f
  BY <1>3, AppendProperties
<1>5. PICK w : w = Append(s, f)
  OBVIOUS
<1>6. /\ stack'[t] = w
      /\ \A u \in Threads \ {t} : stack'[u] = stack[u]
      /\ stack' \in [Threads -> Seq(FrameSet)]
  BY <1>1, <1>2, <1>4, <1>5
<1>7. /\ Len(w) = Len(stack[t])
      /\ \A i \in 1..(Len(stack[t]) - 1) : w[i] = stack[t][i]
      /\ w[Len(stack[t])] = f
  <2>1. Len(stack[t]) \in Nat
    BY <1>1
  <2> QED
    BY <1>3, <1>4, <1>5, <2>1
<1> QED
  BY <1>3, <1>6, <1>7 DEF IsSetTop

LEMMA FrameMember ==
  \A p : p \in Frames <=> \E u \in Threads : \E i \in DOMAIN stack[u] : p = <<u, i>>
  BY DEF Frames

LEMMA PushFrames ==
  ASSUME TypeOK, NEW t \in Threads, NEW f, IsPush(t, f), NEW q, q = <<t, Len(stack[t]) + 1>>
  PROVE  /\ Frames' = Frames \cup {q}
         /\ q \notin Frames
         /\ \A p \in Frames : At(p)' = At(p)
         /\ At(q)' = f
<1>1. PICK n : n = Len(stack[t])
  OBVIOUS
<1>2. /\ n \in Nat
      /\ DOMAIN stack[t] = 1..n
      /\ DOMAIN stack'[t] = 1..(n + 1)
      /\ stack'[t][n + 1] = f
      /\ \A i \in 1..n : stack'[t][i] = stack[t][i]
      /\ \A u \in Threads \ {t} : stack'[u] = stack[u]
      /\ q = <<t, n + 1>>
  BY <1>1 DEF TypeOK, IsPush
<1>3. \A p : p \in Frames' <=> \E u \in Threads : \E i \in DOMAIN stack'[u] : p = <<u, i>>
  BY DEF Frames
<1>4. \A u \in Threads : DOMAIN stack'[u] = IF u = t THEN DOMAIN stack[u] \cup {n + 1} ELSE DOMAIN stack[u]
  <2>1. 1..(n + 1) = 1..n \cup {n + 1}
    BY <1>2
  <2> QED
    BY <1>2, <2>1
<1>5. n + 1 \notin 1..n
  BY <1>2
<1>6. q \notin Frames
  BY <1>2, <1>5, FrameMember
<1>7. Frames' = Frames \cup {q}
  <2>1. \A p : p \in Frames' <=> p \in Frames \cup {q}
    BY <1>2, <1>3, <1>4, FrameMember
  <2> QED
    BY <2>1
<1>8. ASSUME NEW p \in Frames PROVE At(p)' = At(p)
  <2>1. PICK u \in Threads : \E i \in DOMAIN stack[u] : p = <<u, i>>
    BY FrameMember
  <2>2. PICK i \in DOMAIN stack[u] : p = <<u, i>>
    BY <2>1
  <2>3. stack'[u][i] = stack[u][i]
    BY <1>2
  <2> QED
    BY <2>2, <2>3 DEF At
<1>9. At(q)' = f
  BY <1>2 DEF At
<1> QED
  BY <1>6, <1>7, <1>8, <1>9

LEMMA PopFrames ==
  ASSUME TypeOK, NEW t \in Threads, IsPop(t), NEW q, q = <<t, Len(stack[t])>>
  PROVE  /\ Frames' = Frames \ {q}
         /\ q \in Frames
         /\ \A p \in Frames \ {q} : At(p)' = At(p)
<1>1. PICK n : n = Len(stack[t])
  OBVIOUS
<1>2. /\ n \in Nat /\ n > 0
      /\ DOMAIN stack[t] = 1..n
      /\ DOMAIN stack'[t] = 1..(n - 1)
      /\ \A i \in 1..(n - 1) : stack'[t][i] = stack[t][i]
      /\ \A u \in Threads \ {t} : stack'[u] = stack[u]
      /\ q = <<t, n>>
  <2>1. stack[t] \in Seq(FrameSet) /\ stack'[t] \in Seq(FrameSet)
    BY DEF TypeOK, IsPop
  <2>2. n \in Nat /\ DOMAIN stack[t] = 1..n /\ DOMAIN stack'[t] = 1..Len(stack'[t])
    BY <1>1, <2>1
  <2> QED
    BY <1>1, <2>2 DEF IsPop
<1>3. \A p : p \in Frames' <=> \E u \in Threads : \E i \in DOMAIN stack'[u] : p = <<u, i>>
  BY DEF Frames
<1>4. \A u \in Threads : DOMAIN stack'[u] = IF u = t THEN DOMAIN stack[u] \ {n} ELSE DOMAIN stack[u]
  <2>1. 1..(n - 1) = 1..n \ {n}
    BY <1>2
  <2> QED
    BY <1>2, <2>1
<1>5. n \in 1..n /\ \A i \in 1..n : i # n => i \in 1..(n - 1)
  BY <1>2
<1>6. q \in Frames
  BY <1>2, <1>5, FrameMember
<1>7. Frames' = Frames \ {q}
  <2>1. \A p : p \in Frames' <=> p \in Frames \ {q}
    BY <1>2, <1>3, <1>4, FrameMember
  <2> QED
    BY <2>1
<1>8. ASSUME NEW p \in Frames \ {q} PROVE At(p)' = At(p)
  <2>1. PICK u \in Threads : \E i \in DOMAIN stack[u] : p = <<u, i>>
    BY FrameMember
  <2>2. PICK i \in DOMAIN stack[u] : p = <<u, i>>
    BY <2>1
  <2>3. stack'[u][i] = stack[u][i]
    BY <1>2, <1>5, <2>2
  <2> QED
    BY <2>2, <2>3 DEF At
<1> QED
  BY <1>6, <1>7, <1>8

LEMMA SetTopFrames ==
  ASSUME TypeOK, NEW t \in Threads, NEW f, IsSetTop(t, f), NEW q, q = <<t, Len(stack[t])>>
  PROVE  /\ Frames' = Frames
         /\ q \in Frames
         /\ \A p \in Frames \ {q} : At(p)' = At(p)
         /\ At(q)' = f
<1>1. PICK n : n = Len(stack[t])
  OBVIOUS
<1>2. /\ n \in Nat /\ n > 0
      /\ DOMAIN stack[t] = 1..n
      /\ DOMAIN stack'[t] = 1..n
      /\ stack'[t][n] = f
      /\ \A i \in 1..(n - 1) : stack'[t][i] = stack[t][i]
      /\ \A u \in Threads \ {t} : stack'[u] = stack[u]
      /\ q = <<t, n>>
  BY <1>1 DEF TypeOK, IsSetTop
<1>3. \A p : p \in Frames' <=> \E u \in Threads : \E i \in DOMAIN stack'[u] : p = <<u, i>>
  BY DEF Frames
<1>4. \A u \in Threads : DOMAIN stack'[u] = DOMAIN stack[u]
  BY <1>2
<1>5. n \in 1..n /\ \A i \in 1..n : i # n => i \in 1..(n - 1)
  BY <1>2
<1>6. q \in Frames
  BY <1>2, <1>5, FrameMember
<1>7. Frames' = Frames
  <2>1. \A p : p \in Frames' <=> p \in Frames
    BY <1>3, <1>4, FrameMember
  <2> QED
    BY <2>1
<1>8. ASSUME NEW p \in Frames \ {q} PROVE At(p)' = At(p)
  <2>1. PICK u \in Threads : \E i \in DOMAIN stack[u] : p = <<u, i>>
    BY FrameMember
  <2>2. PICK i \in DOMAIN stack[u] : p = <<u, i>>
    BY <2>1
  <2>3. stack'[u][i] = stack[u][i]
    BY <1>2, <1>5, <2>2
  <2> QED
    BY <2>2, <2>3 DEF At
<1>9. At(q)' = f
  BY <1>2 DEF At
<1> QED
  BY <1>6, <1>7, <1>8, <1>9

-----------------------------------------------------------------------------
(***************************************************************************)
(* The calls that count for a hook, after a step on the stack of a thread. *)
(***************************************************************************)
One(f, h) == IF Counted(f, h) THEN 1 ELSE 0

LEMMA CallsFinite ==
  ASSUME IsFiniteSet(Frames), NEW h
  PROVE  IsFiniteSet(Calls(h)) /\ Cardinality(Calls(h)) \in Nat
<1>1. Calls(h) \in SUBSET Frames
  BY DEF Calls
<1> QED
  BY <1>1, FS_Subset, FS_CardinalityType

LEMMA PushCalls ==
  ASSUME TypeOK, IsFiniteSet(Frames), NEW t \in Threads, NEW f, IsPush(t, f)
  PROVE  /\ IsFiniteSet(Frames')
         /\ \A h \in Handles : Cardinality(Calls(h)') = Cardinality(Calls(h)) + One(f, h)
<1>1. PICK q : q = <<t, Len(stack[t]) + 1>>
  OBVIOUS
<1>2. /\ Frames' = Frames \cup {q}
      /\ q \notin Frames
      /\ \A p \in Frames : At(p)' = At(p)
      /\ At(q)' = f
  BY <1>1, PushFrames
<1>3. IsFiniteSet(Frames')
  BY <1>2, FS_AddElement
<1>4. ASSUME NEW h \in Handles PROVE Cardinality(Calls(h)') = Cardinality(Calls(h)) + One(f, h)
  <2>1. IsFiniteSet(Calls(h)) /\ Cardinality(Calls(h)) \in Nat /\ q \notin Calls(h)
    BY <1>2, CallsFinite DEF Calls
  <2>2. CASE Counted(f, h)
    <3>1. Calls(h)' = Calls(h) \cup {q}
      BY <1>2, <2>2 DEF Calls, Counted
    <3> QED
      BY <2>1, <2>2, <3>1, FS_AddElement DEF One
  <2>3. CASE ~Counted(f, h)
    <3>1. Calls(h)' = Calls(h)
      BY <1>2, <2>3 DEF Calls, Counted
    <3> QED
      BY <2>1, <2>3, <3>1 DEF One
  <2> QED
    BY <2>2, <2>3
<1> QED
  BY <1>3, <1>4

LEMMA PopCalls ==
  ASSUME TypeOK, IsFiniteSet(Frames), NEW t \in Threads, IsPop(t), NEW f, f = stack[t][Len(stack[t])]
  PROVE  /\ IsFiniteSet(Frames')
         /\ \A h \in Handles : /\ Cardinality(Calls(h)) >= One(f, h)
                               /\ Cardinality(Calls(h)') = Cardinality(Calls(h)) - One(f, h)
<1>1. PICK q : q = <<t, Len(stack[t])>>
  OBVIOUS
<1>2. /\ Frames' = Frames \ {q}
      /\ q \in Frames
      /\ \A p \in Frames \ {q} : At(p)' = At(p)
  BY <1>1, PopFrames
<1>3. At(q) = f
  BY <1>1 DEF At
<1>4. IsFiniteSet(Frames')
  BY <1>2, FS_RemoveElement
<1>5. ASSUME NEW h \in Handles
      PROVE  /\ Cardinality(Calls(h)) >= One(f, h)
             /\ Cardinality(Calls(h)') = Cardinality(Calls(h)) - One(f, h)
  <2>1. IsFiniteSet(Calls(h)) /\ Cardinality(Calls(h)) \in Nat
    BY CallsFinite
  <2>2. CASE Counted(f, h)
    <3>1. Calls(h)' = Calls(h) \ {q} /\ q \in Calls(h)
      BY <1>2, <1>3, <2>2 DEF Calls, Counted
    <3>2. Cardinality(Calls(h)') = Cardinality(Calls(h)) - 1
      BY <2>1, <3>1, FS_RemoveElement
    <3>3. Cardinality(Calls(h)) # 0
      BY <2>1, <3>1, FS_EmptySet
    <3> QED
      BY <2>1, <2>2, <3>2, <3>3 DEF One
  <2>3. CASE ~Counted(f, h)
    <3>1. Calls(h)' = Calls(h)
      BY <1>2, <1>3, <2>3 DEF Calls, Counted
    <3> QED
      BY <2>1, <2>3, <3>1 DEF One
  <2> QED
    BY <2>2, <2>3
<1> QED
  BY <1>4, <1>5

LEMMA SetTopCalls ==
  ASSUME TypeOK, IsFiniteSet(Frames), NEW t \in Threads, NEW f, NEW g, IsSetTop(t, g),
         f = stack[t][Len(stack[t])]
  PROVE  /\ IsFiniteSet(Frames')
         /\ \A h \in Handles : /\ Cardinality(Calls(h)) >= One(f, h)
                               /\ Cardinality(Calls(h)') = Cardinality(Calls(h)) - One(f, h) + One(g, h)
<1>1. PICK q : q = <<t, Len(stack[t])>>
  OBVIOUS
<1>2. /\ Frames' = Frames
      /\ q \in Frames
      /\ \A p \in Frames \ {q} : At(p)' = At(p)
      /\ At(q)' = g
  BY <1>1, SetTopFrames
<1>3. At(q) = f
  BY <1>1 DEF At
<1>4. IsFiniteSet(Frames')
  BY <1>2
<1>5. ASSUME NEW h \in Handles
      PROVE  /\ Cardinality(Calls(h)) >= One(f, h)
             /\ Cardinality(Calls(h)') = Cardinality(Calls(h)) - One(f, h) + One(g, h)
  <2>1. IsFiniteSet(Calls(h)) /\ Cardinality(Calls(h)) \in Nat
    BY CallsFinite
  <2>2. Counted(f, h) => Cardinality(Calls(h)) # 0
    BY <1>2, <1>3, <2>1, FS_EmptySet DEF Calls
  <2>3. CASE Counted(f, h) /\ Counted(g, h)
    <3>1. Calls(h)' = Calls(h)
      BY <1>2, <1>3, <2>3 DEF Calls, Counted
    <3> QED
      BY <2>1, <2>2, <2>3, <3>1 DEF One
  <2>4. CASE Counted(f, h) /\ ~Counted(g, h)
    <3>1. Calls(h)' = Calls(h) \ {q} /\ q \in Calls(h)
      BY <1>2, <1>3, <2>4 DEF Calls, Counted
    <3>2. Cardinality(Calls(h)') = Cardinality(Calls(h)) - 1
      BY <2>1, <3>1, FS_RemoveElement
    <3> QED
      BY <2>1, <2>2, <2>4, <3>2 DEF One
  <2>5. CASE ~Counted(f, h) /\ Counted(g, h)
    <3>1. Calls(h)' = Calls(h) \cup {q} /\ q \notin Calls(h)
      BY <1>2, <1>3, <2>5 DEF Calls, Counted
    <3>2. Cardinality(Calls(h)') = Cardinality(Calls(h)) + 1
      BY <2>1, <3>1, FS_AddElement
    <3> QED
      BY <2>1, <2>5, <3>2 DEF One
  <2>6. CASE ~Counted(f, h) /\ ~Counted(g, h)
    <3>1. Calls(h)' = Calls(h)
      BY <1>2, <1>3, <2>6 DEF Calls, Counted
    <3> QED
      BY <2>1, <2>6, <3>1 DEF One
  <2> QED
    BY <2>3, <2>4, <2>5, <2>6
<1> QED
  BY <1>4, <1>5

-----------------------------------------------------------------------------
(***************************************************************************)
(* What erase leaves of the chain, and what push_front makes of it.        *)
(***************************************************************************)
InChain(h) == IF Contains(chain, h) THEN 1 ELSE 0

\* d is c without its element i.
IsErased(c, i, d) ==
  /\ d \in Seq(Handles)
  /\ Len(d) = Len(c) - 1
  /\ \A j \in 1..(i - 1) : d[j] = c[j]
  /\ \A j \in i..(Len(c) - 1) : d[j] = c[j + 1]

LEMMA RemoveAtErases ==
  ASSUME NEW c \in Seq(Handles), NEW i \in DOMAIN c
  PROVE  IsErased(c, i, RemoveAt(c, i))
<1>1. PICK n : n = Len(c)
  OBVIOUS
<1>2. n \in Nat /\ i \in 1..n /\ \A j \in 1..n : c[j] \in Handles
  BY <1>1
<1>3. PICK k \in Int : k = i - 1
  BY <1>2
<1>4. PICK m \in Int : m = i + 1
  BY <1>2
<1>5. \A j \in 1..k : c[j] \in Handles
  BY <1>2, <1>3
<1>6. \A j \in m..n : c[j] \in Handles
  BY <1>2, <1>4
<1>7. PICK a : a = SubSeq(c, 1, k)
  OBVIOUS
<1>8. PICK b : b = SubSeq(c, m, n)
  OBVIOUS
<1>9. /\ a \in Seq(Handles)
      /\ Len(a) = IF 1 <= k THEN k - 1 + 1 ELSE 0
      /\ \A j \in 1..(k - 1 + 1) : a[j] = c[1 + j - 1]
  BY <1>5, <1>7, SubSeqProperties
<1>10. /\ b \in Seq(Handles)
       /\ Len(b) = IF m <= n THEN n - m + 1 ELSE 0
       /\ \A j \in 1..(n - m + 1) : b[j] = c[m + j - 1]
  BY <1>2, <1>6, <1>8, SubSeqProperties
<1>11. Len(a) = i - 1 /\ \A j \in 1..(i - 1) : a[j] = c[j]
  BY <1>2, <1>3, <1>9
<1>12. Len(b) = n - i /\ \A j \in 1..(n - i) : b[j] = c[i + j]
  <2>1. i \in Int /\ n \in Int /\ 1 <= i /\ i <= n
    BY <1>2
  <2>2. Len(b) = n - i /\ n - m + 1 = n - i
    BY <1>4, <1>10, <2>1
  <2>3. ASSUME NEW j \in 1..(n - i) PROVE b[j] = c[i + j]
    <3>1. j \in Int /\ m + j - 1 = i + j
      BY <1>4, <2>1
    <3>2. j \in 1..(n - m + 1)
      BY <2>2
    <3> QED
      BY <1>10, <3>1, <3>2
  <2> QED
    BY <2>2, <2>3
<1>13. PICK d : d = a \o b
  OBVIOUS
<1>14. /\ d \in Seq(Handles)
       /\ Len(d) = Len(a) + Len(b)
       /\ \A j \in 1..(Len(a) + Len(b)) : d[j] = IF j <= Len(a) THEN a[j] ELSE b[j - Len(a)]
  BY <1>9, <1>10, <1>13, ConcatProperties
<1>15. Len(d) = n - 1 /\ \A j \in 1..(i - 1) : d[j] = c[j]
  BY <1>2, <1>11, <1>12, <1>14
<1>16. \A j \in i..(n - 1) : d[j] = c[j + 1]
  <2> SUFFICES ASSUME NEW j \in i..(n - 1) PROVE d[j] = c[j + 1]
    OBVIOUS
  <2>1. PICK l : l = j - (i - 1)
    OBVIOUS
  <2>2. /\ i \in Int /\ n \in Int /\ j \in Int
        /\ 1 <= i /\ i <= j /\ j <= n - 1
    BY <1>2
  <2>3. l \in 1..(n - i) /\ i + l = j + 1
    BY <2>1, <2>2
  <2>4. /\ j \in 1..(Len(a) + Len(b))
        /\ ~(j <= Len(a))
        /\ j - Len(a) = l
    BY <1>11, <1>12, <2>1, <2>2
  <2>5. d[j] = b[l]
    BY <1>14, <2>4
  <2> QED
    BY <1>12, <2>3, <2>5
<1>17. RemoveAt(c, i) = d
  BY <1>1, <1>3, <1>4, <1>7, <1>8, <1>13 DEF RemoveAt
<1> QED
  BY <1>1, <1>14, <1>15, <1>16, <1>17 DEF IsErased

\* The place in c of an element of d.
LEMMA ErasedFrom ==
  ASSUME NEW c \in Seq(Handles), NEW i \in DOMAIN c, NEW d, IsErased(c, i, d)
  PROVE  /\ \A j \in DOMAIN d : d[j] = c[IF j < i THEN j ELSE j + 1]
         /\ \A j \in DOMAIN d : (IF j < i THEN j ELSE j + 1) \in DOMAIN c \ {i}
         /\ \A j \in DOMAIN c \ {i} : (IF j < i THEN j ELSE j - 1) \in DOMAIN d
         /\ \A j \in DOMAIN c \ {i} : c[j] = d[IF j < i THEN j ELSE j - 1]
<1>1. PICK n : n = Len(c)
  OBVIOUS
<1>2. n \in Nat /\ DOMAIN c = 1..n /\ i \in 1..n /\ DOMAIN d = 1..(n - 1)
  BY <1>1 DEF IsErased
<1>3. /\ \A j \in 1..(i - 1) : d[j] = c[j]
      /\ \A j \in i..(n - 1) : d[j] = c[j + 1]
  BY <1>1 DEF IsErased
<1> QED
  BY <1>2, <1>3

LEMMA ErasedChain ==
  ASSUME chain \in Seq(Handles), Distinct, Sorted, NEW i \in DOMAIN chain, NEW h, h = chain[i],
         chain' = RemoveAt(chain, i), older' = older
  PROVE  /\ chain' \in Seq(Handles)
         /\ Distinct' /\ Sorted'
         /\ \A g : InChain(g)' = IF g = h THEN 0 ELSE InChain(g)
         /\ InChain(h) = 1
<1>1. PICK c : c = chain
  OBVIOUS
<1>2. PICK d : d = RemoveAt(c, i)
  OBVIOUS
<1>3. chain' = d /\ IsErased(c, i, d)
  BY <1>1, <1>2, RemoveAtErases
<1>4. PICK n : n = Len(c)
  OBVIOUS
<1>5. /\ n \in Nat /\ n - 1 \in Nat
      /\ DOMAIN c = 1..n /\ i \in 1..n
      /\ d \in Seq(Handles) /\ Len(d) = n - 1 /\ DOMAIN d = 1..(n - 1)
  BY <1>1, <1>3, <1>4 DEF IsErased
<1>6. /\ \A j \in DOMAIN d : d[j] = c[IF j < i THEN j ELSE j + 1]
      /\ \A j \in DOMAIN d : (IF j < i THEN j ELSE j + 1) \in DOMAIN c \ {i}
      /\ \A j \in DOMAIN c \ {i} : (IF j < i THEN j ELSE j - 1) \in DOMAIN d
      /\ \A j \in DOMAIN c \ {i} : c[j] = d[IF j < i THEN j ELSE j - 1]
  BY <1>1, <1>3, ErasedFrom
<1>7. /\ \A j, k \in 1..n : c[j] = c[k] => j = k
      /\ \A j, k \in 1..n : j < k => <<c[j], c[k]>> \in older
  BY <1>1, <1>5 DEF Distinct, Sorted, Older
<1>8. Distinct'
  <2>1. \A j, k \in 1..(n - 1) : d[j] = d[k] => j = k
    <3> SUFFICES ASSUME NEW j \in 1..(n - 1), NEW k \in 1..(n - 1), d[j] = d[k] PROVE j = k
      OBVIOUS
    <3>1. PICK x : x = IF j < i THEN j ELSE j + 1
      OBVIOUS
    <3>2. PICK y : y = IF k < i THEN k ELSE k + 1
      OBVIOUS
    <3>3. c[x] = c[y] /\ x \in 1..n /\ y \in 1..n
      BY <1>5, <1>6, <3>1, <3>2
    <3>4. x = y
      BY <1>7, <3>3
    <3> QED
      BY <1>5, <3>1, <3>2, <3>4
  <2> QED
    BY <1>3, <1>5, <2>1 DEF Distinct
<1>9. Sorted'
  <2>1. \A j, k \in 1..(n - 1) : j < k => <<d[j], d[k]>> \in older
    <3> SUFFICES ASSUME NEW j \in 1..(n - 1), NEW k \in 1..(n - 1), j < k PROVE <<d[j], d[k]>> \in older
      OBVIOUS
    <3>1. PICK x : x = IF j < i THEN j ELSE j + 1
      OBVIOUS
    <3>2. PICK y : y = IF k < i THEN k ELSE k + 1
      OBVIOUS
    <3>3. c[x] = d[j] /\ c[y] = d[k] /\ x \in 1..n /\ y \in 1..n
      BY <1>5, <1>6, <3>1, <3>2
    <3>4. x < y
      BY <1>5, <3>1, <3>2
    <3> QED
      BY <1>7, <3>3, <3>4
  <2> QED
    BY <1>3, <1>5, <2>1 DEF Sorted, Older
<1>10. InChain(h) = 1
  BY <1>1, <1>5 DEF InChain, Contains
<1>11. ASSUME NEW g PROVE InChain(g)' = IF g = h THEN 0 ELSE InChain(g)
  <2>1. Contains(chain, g) <=> \E j \in 1..n : c[j] = g
    BY <1>1, <1>4 DEF Contains
  <2>2. Contains(chain, g)' <=> \E j \in 1..(n - 1) : d[j] = g
    BY <1>3, <1>5 DEF Contains
  <2>3. (\E j \in 1..(n - 1) : d[j] = g) <=> \E j \in 1..n \ {i} : c[j] = g
    BY <1>5, <1>6
  <2>4. (\E j \in 1..n \ {i} : c[j] = g) <=> (g # h /\ \E j \in 1..n : c[j] = g)
    BY <1>1, <1>5, <1>7
  <2> QED
    BY <2>1, <2>2, <2>3, <2>4 DEF InChain
<1> QED
  BY <1>3, <1>5, <1>8, <1>9, <1>10, <1>11

\* d is c with h before it.
IsPushed(h, c, d) ==
  /\ d \in Seq(Handles)
  /\ Len(d) = Len(c) + 1
  /\ d[1] = h
  /\ \A j \in 1..Len(c) : d[j + 1] = c[j]

LEMMA ConcatPushes == ASSUME NEW h \in Handles, NEW c \in Seq(Handles) PROVE IsPushed(h, c, <<h>> \o c)
<1>1. PICK d : d = <<h>> \o c
  OBVIOUS
<1>2. PICK n : n = Len(c)
  OBVIOUS
<1>3. /\ n \in Nat
      /\ <<h>> \in Seq(Handles) /\ Len(<<h>>) = 1 /\ <<h>>[1] = h
  BY <1>2
<1>4. /\ d \in Seq(Handles)
      /\ Len(d) = 1 + n
      /\ \A j \in 1..(1 + n) : d[j] = IF j <= 1 THEN <<h>>[j] ELSE c[j - 1]
  BY <1>1, <1>2, <1>3, ConcatProperties
<1>5. d[1] = h /\ \A j \in 1..n : d[j + 1] = c[j]
  BY <1>3, <1>4
<1> QED
  BY <1>1, <1>2, <1>3, <1>4, <1>5 DEF IsPushed

LEMMA PushedChain ==
  ASSUME chain \in Seq(Handles), Distinct, Sorted, NEW h \in Handles, InChain(h) = 0,
         IsPushed(h, chain, chain'),
         \A i \in DOMAIN chain : <<h, chain[i]>> \in older',
         \A i, j \in DOMAIN chain : i < j => <<chain[i], chain[j]>> \in older'
  PROVE  /\ chain' \in Seq(Handles)
         /\ Distinct' /\ Sorted'
         /\ \A g : InChain(g)' = IF g = h THEN 1 ELSE InChain(g)
<1>1. PICK c : c = chain
  OBVIOUS
<1>2. PICK d : d = chain'
  OBVIOUS
<1>3. PICK n : n = Len(c)
  OBVIOUS
<1>4. c \in Seq(Handles) /\ n \in Nat /\ DOMAIN c = 1..n
  BY <1>1, <1>3
<1>5. /\ d \in Seq(Handles)
      /\ Len(d) = n + 1
      /\ d[1] = h
      /\ \A j \in 1..n : d[j + 1] = c[j]
  BY <1>1, <1>2, <1>3 DEF IsPushed
<1>6. /\ DOMAIN d = 1..(n + 1)
      /\ d[1] = h
      /\ \A j \in 1..(n + 1) : j # 1 => j - 1 \in 1..n /\ d[j] = c[j - 1]
      /\ \A j \in 1..n : j + 1 \in 1..(n + 1) /\ d[j + 1] = c[j]
  <2>1. \A j \in 1..(n + 1) : j # 1 => j - 1 \in 1..n /\ (j - 1) + 1 = j
    BY <1>4
  <2>2. \A j \in 1..n : j + 1 \in 1..(n + 1)
    BY <1>4
  <2> QED
    BY <1>5, <2>1, <2>2
<1>7. chain' = d
  BY <1>2
<1>8. \A j \in 1..n : c[j] # h
  BY <1>1, <1>3 DEF InChain, Contains
<1>9. /\ \A j, k \in 1..n : c[j] = c[k] => j = k
      /\ \A j, k \in 1..n : j < k => <<c[j], c[k]>> \in older'
      /\ \A j \in 1..n : <<h, c[j]>> \in older'
  BY <1>1, <1>4 DEF Distinct
<1>10. Distinct'
  <2>1. \A j, k \in 1..(n + 1) : d[j] = d[k] => j = k
    <3> SUFFICES ASSUME NEW j \in 1..(n + 1), NEW k \in 1..(n + 1), d[j] = d[k] PROVE j = k
      OBVIOUS
    <3>1. CASE j = 1 \/ k = 1
      BY <1>6, <1>8, <3>1
    <3>2. CASE j # 1 /\ k # 1
      <4>1. j - 1 = k - 1
        BY <1>6, <1>9, <3>2
      <4> QED
        BY <1>4, <4>1
    <3> QED
      BY <3>1, <3>2
  <2> QED
    BY <1>6, <1>7, <2>1 DEF Distinct
<1>11. Sorted'
  <2>1. \A j, k \in 1..(n + 1) : j < k => <<d[j], d[k]>> \in older'
    <3> SUFFICES ASSUME NEW j \in 1..(n + 1), NEW k \in 1..(n + 1), j < k
                 PROVE  <<d[j], d[k]>> \in older'
      OBVIOUS
    <3>1. k # 1
      OBVIOUS
    <3>2. CASE j = 1
      BY <1>6, <1>9, <3>1, <3>2
    <3>3. CASE j # 1
      <4>1. j - 1 < k - 1
        BY <1>4
      <4> QED
        BY <1>6, <1>9, <3>1, <3>3, <4>1
    <3> QED
      BY <3>2, <3>3
  <2> QED
    BY <1>6, <1>7, <2>1 DEF Sorted, Older
<1>12. ASSUME NEW g PROVE InChain(g)' = IF g = h THEN 1 ELSE InChain(g)
  <2>1. Contains(chain, g) <=> \E j \in 1..n : c[j] = g
    BY <1>1, <1>3 DEF Contains
  <2>2. Contains(chain, g)' <=> \E j \in 1..(n + 1) : d[j] = g
    BY <1>4, <1>5, <1>7 DEF Contains
  <2>3. (\E j \in 1..(n + 1) : d[j] = g) <=> (g = h \/ \E j \in 1..n : c[j] = g)
    <3>1. 1 \in 1..(n + 1)
      BY <1>4
    <3> QED
      BY <1>6, <3>1
  <2> QED
    BY <2>1, <2>2, <2>3 DEF InChain
<1> QED
  BY <1>5, <1>7, <1>10, <1>11, <1>12

-----------------------------------------------------------------------------
(***************************************************************************)
(* The events go down, after a step on the stack of a thread.              *)
(***************************************************************************)
LEMMA PushDown ==
  ASSUME TypeOK, Descends, OlderTransitive, older' = older,
         NEW t \in Threads, NEW f \in FrameSet, IsPush(t, f),
         f.via = "next" => refs[f.hook] > 0 /\ Older(stack[t][Len(stack[t])].hook, f.hook)
  PROVE  Descends'
<1> SUFFICES ASSUME NEW u \in Threads, NEW i \in DOMAIN stack'[u], NEW j \in DOMAIN stack'[u],
                    i < j, \A k \in (i + 1)..j : stack'[u][k].via = "next"
             PROVE  <<stack'[u][i].hook, stack'[u][j].hook>> \in older
  BY DEF Descends, Older, Passed
<1>1. CASE u # t
  BY <1>1 DEF IsPush, Descends, Older, Passed
<1>2. CASE u = t
  <2>1. PICK n : n = Len(stack[t])
    OBVIOUS
  <2>2. n \in Nat /\ DOMAIN stack[t] = 1..n /\ i \in 1..(n + 1) /\ j \in 1..(n + 1)
    BY <1>2, <2>1 DEF IsPush, TypeOK
  <2>3. /\ \A k \in 1..n : stack'[t][k] = stack[t][k]
        /\ stack'[t][n + 1] = f
    BY <2>1, <2>2 DEF IsPush
  <2>4. /\ i \in 1..n
        /\ j = n + 1 => /\ j \in (i + 1)..j
                        /\ i # n => i < n /\ n \in 1..n /\ \A k \in (i + 1)..n : k \in (i + 1)..j /\ k \in 1..n
        /\ j # n + 1 => j \in 1..n /\ \A k \in (i + 1)..j : k \in 1..n
    BY <2>2
  <2>5. CASE j = n + 1
    <3>1. f.via = "next"
      BY <1>2, <2>3, <2>4, <2>5
    <3>2. refs[f.hook] > 0 /\ Older(stack[t][n].hook, f.hook)
      BY <2>1, <3>1
    <3>3. CASE i = n
      BY <1>2, <2>3, <2>4, <2>5, <3>2, <3>3 DEF Older
    <3>4. CASE i # n
      <4>1. Older(stack[t][i].hook, stack[t][n].hook)
        <5>1. Passed(t, i, n)
          BY <1>2, <2>3, <2>4, <2>5, <3>4 DEF Passed
        <5> QED
          BY <2>2, <2>4, <2>5, <3>4, <5>1 DEF Descends
      <4>2. f.hook \in Handles /\ stack[t][i].hook \in Handles /\ stack[t][n].hook \in Handles
        <5>1. stack[t] \in Seq(FrameSet)
          BY DEF TypeOK
        <5>2. stack[t][i] \in FrameSet /\ stack[t][n] \in FrameSet
          BY <2>1, <2>4, <2>5, <3>4, <5>1
        <5> QED
          BY <5>2 DEF FrameSet
      <4>3. Older(stack[t][i].hook, f.hook)
        BY <3>2, <4>1, <4>2 DEF OlderTransitive
      <4> QED
        BY <1>2, <2>3, <2>4, <2>5, <4>3 DEF Older
    <3> QED
      BY <3>3, <3>4
  <2>6. CASE j # n + 1
    <3>1. Passed(t, i, j)
      BY <1>2, <2>3, <2>4, <2>6 DEF Passed
    <3> QED
      BY <1>2, <2>2, <2>3, <2>4, <2>6, <3>1 DEF Descends, Older
  <2> QED
    BY <2>5, <2>6
<1> QED
  BY <1>1, <1>2

LEMMA PopDown ==
  ASSUME TypeOK, Descends, older' = older, NEW t \in Threads, IsPop(t)
  PROVE  Descends'
<1> SUFFICES ASSUME NEW u \in Threads, NEW i \in DOMAIN stack'[u], NEW j \in DOMAIN stack'[u],
                    i < j, \A k \in (i + 1)..j : stack'[u][k].via = "next"
             PROVE  <<stack'[u][i].hook, stack'[u][j].hook>> \in older
  BY DEF Descends, Older, Passed
<1>1. CASE u # t
  BY <1>1 DEF IsPop, Descends, Older, Passed
<1>2. CASE u = t
  <2>1. PICK n : n = Len(stack[t])
    OBVIOUS
  <2>2. stack[t] \in Seq(FrameSet) /\ stack'[t] \in Seq(FrameSet) /\ Len(stack'[t]) = n - 1
    BY <2>1 DEF IsPop, TypeOK
  <2>3. n \in Nat /\ DOMAIN stack[t] = 1..n /\ i \in 1..(n - 1) /\ j \in 1..(n - 1)
    BY <1>2, <2>1, <2>2
  <2>4. \A k \in 1..(n - 1) : stack'[t][k] = stack[t][k]
    BY <2>1, <2>3 DEF IsPop
  <2>5. i \in 1..n /\ j \in 1..n /\ \A k \in (i + 1)..j : k \in 1..(n - 1)
    BY <2>3
  <2>6. Passed(t, i, j)
    BY <1>2, <2>4, <2>5 DEF Passed
  <2> QED
    BY <1>2, <2>3, <2>4, <2>5, <2>6 DEF Descends, Older
<1> QED
  BY <1>1, <1>2

LEMMA SetTopDown ==
  ASSUME TypeOK, Descends, older' = older, NEW t \in Threads, NEW f, IsSetTop(t, f),
         NEW n, n = Len(stack[t]), f.via = stack[t][n].via,
         \A i \in 1..(n - 1) : Passed(t, i, n) => Older(stack[t][i].hook, f.hook)
  PROVE  Descends'
<1> SUFFICES ASSUME NEW u \in Threads, NEW i \in DOMAIN stack'[u], NEW j \in DOMAIN stack'[u],
                    i < j, \A k \in (i + 1)..j : stack'[u][k].via = "next"
             PROVE  <<stack'[u][i].hook, stack'[u][j].hook>> \in older
  BY DEF Descends, Older, Passed
<1>1. CASE u # t
  BY <1>1 DEF IsSetTop, Descends, Older, Passed
<1>2. CASE u = t
  <2>1. stack[t] \in Seq(FrameSet) /\ stack'[t] \in Seq(FrameSet) /\ Len(stack'[t]) = n
    BY DEF IsSetTop, TypeOK
  <2>2. n \in Nat /\ DOMAIN stack[t] = 1..n /\ i \in 1..n /\ j \in 1..n
    BY <1>2, <2>1
  <2>3. /\ \A k \in 1..(n - 1) : stack'[t][k] = stack[t][k]
        /\ stack'[t][n] = f
    BY <2>2 DEF IsSetTop
  <2>4. /\ i \in 1..(n - 1)
        /\ j # n => j \in 1..(n - 1)
        /\ \A k \in (i + 1)..j : k \in 1..(n - 1) \/ k = n
    BY <2>2
  <2>5. \A k \in (i + 1)..j : stack[t][k].via = "next"
    BY <1>2, <2>3, <2>4
  <2>6. Passed(t, i, j)
    BY <2>5 DEF Passed
  <2>7. CASE j = n
    BY <1>2, <2>3, <2>4, <2>6, <2>7 DEF Older
  <2>8. CASE j # n
    BY <1>2, <2>2, <2>3, <2>4, <2>6, <2>8 DEF Descends, Older
  <2> QED
    BY <2>7, <2>8
<1> QED
  BY <1>1, <1>2

-----------------------------------------------------------------------------
LEMMA RefsAre ==
  ASSUME RefsExact
  PROVE  TypeOK /\ \A h \in Handles : refs[h] = InChain(h) + Cardinality(Calls(h))
  BY DEF RefsExact, InChain, Calls, Counted

LEMMA RefsBecome ==
  ASSUME TypeOK', \A h \in Handles : refs'[h] = InChain(h)' + Cardinality(Calls(h)')
  PROVE  RefsExact'
  BY DEF RefsExact, InChain, Calls, Counted

\* A step that leaves the chain alone keeps the invariant when references and
\* calls change alike.
LEMMA StackStep ==
  ASSUME HInv, chain' = chain, older' = older, TypeOK', IsFiniteSet(Frames'),
         \A h \in Handles : refs'[h] - refs[h] = Cardinality(Calls(h)') - Cardinality(Calls(h)),
         \A h \in Handles : refs'[h] > 0 => refs[h] > 0,
         Descends'
  PROVE  HInv'
<1>1. /\ TypeOK /\ IsFiniteSet(Frames)
      /\ \A h \in Handles : refs[h] = InChain(h) + Cardinality(Calls(h))
  BY RefsAre DEF HInv
<1>2. ASSUME NEW h \in Handles PROVE refs'[h] = InChain(h)' + Cardinality(Calls(h)')
  <2>1. InChain(h)' = InChain(h) /\ InChain(h) \in Nat
    BY DEF InChain, Contains
  <2>2. Cardinality(Calls(h)) \in Nat
    BY <1>1, CallsFinite
  <2>3. IsFiniteSet(Calls(h)')
    <3>1. Calls(h)' \in SUBSET Frames'
      BY DEF Calls
    <3> QED
      BY <3>1, FS_Subset
  <2>4. Cardinality(Calls(h)') \in Nat
    BY <2>3, FS_CardinalityType
  <2>5. refs[h] \in Nat /\ refs'[h] \in Nat
    BY <1>1 DEF TypeOK
  <2> QED
    BY <1>1, <2>1, <2>2, <2>4, <2>5
<1>3. RefsExact'
  BY <1>2, RefsBecome
<1>4. Distinct' /\ Sorted'
  BY DEF HInv, Distinct, Sorted, Older
<1>5. OlderTransitive' /\ OlderIrreflexive'
  BY DEF HInv, OlderTransitive, OlderIrreflexive, Older
<1> QED
  BY <1>3, <1>4, <1>5 DEF HInv

\* The frame on top of a stack is typed and, if it counts, its hook exists.
LEMMA TopFacts ==
  ASSUME HInv, NEW t \in Threads, Busy(t), NEW f, f = Top(t)
  PROVE  /\ f = stack[t][Len(stack[t])]
         /\ f \in FrameSet
         /\ Len(stack[t]) \in Nat /\ Len(stack[t]) > 0
         /\ f.at # "remote" => refs[f.hook] > 0
<1>1. /\ TypeOK /\ IsFiniteSet(Frames)
      /\ \A h \in Handles : refs[h] = InChain(h) + Cardinality(Calls(h))
  BY RefsAre DEF HInv
<1>2. /\ f = stack[t][Len(stack[t])]
      /\ Len(stack[t]) \in Nat /\ Len(stack[t]) > 0
      /\ Len(stack[t]) \in DOMAIN stack[t]
  BY <1>1 DEF TypeOK, Busy, Top, Last
<1>3. f \in FrameSet
  BY <1>1, <1>2 DEF TypeOK
<1>4. ASSUME f.at # "remote" PROVE refs[f.hook] > 0
  <2>1. PICK q : q = <<t, Len(stack[t])>>
    OBVIOUS
  <2>2. q \in Frames /\ At(q) = f
    BY <1>2, <2>1, FrameMember DEF At
  <2>3. PICK h \in Handles : h = f.hook
    BY <1>3 DEF FrameSet
  <2>4. q \in Calls(h)
    BY <1>4, <2>2, <2>3 DEF Calls, Counted
  <2>5. IsFiniteSet(Calls(h)) /\ Cardinality(Calls(h)) \in Nat
    BY <1>1, CallsFinite
  <2>6. Cardinality(Calls(h)) # 0
    BY <2>4, <2>5, FS_EmptySet
  <2>7. InChain(h) \in Nat
    BY DEF InChain
  <2> QED
    BY <1>1, <2>3, <2>5, <2>6, <2>7
<1> QED
  BY <1>2, <1>3, <1>4

\* A hook in the chain exists.
LEMMA ChainExists == ASSUME HInv, NEW h \in Handles, Contains(chain, h) PROVE refs[h] > 0
<1>1. IsFiniteSet(Frames) /\ refs[h] = InChain(h) + Cardinality(Calls(h))
  BY RefsAre DEF HInv
<1>2. InChain(h) = 1
  BY DEF InChain
<1>3. Cardinality(Calls(h)) \in Nat
  BY <1>1, CallsFinite
<1> QED
  BY <1>1, <1>2, <1>3

\* A hook that follows another one in the chain is older.
LEMMA FollowsOlder ==
  ASSUME HInv, NEW h, NEW g, Follows(h, g)
  PROVE  Contains(chain, g) /\ Older(h, g) /\ h # g
<1>1. chain \in Seq(Handles) /\ Distinct /\ Sorted
  BY RefsAre DEF HInv, TypeOK
<1>2. PICK i \in 1..(Len(chain) - 1) : chain[i] = h /\ chain[i + 1] = g
  BY DEF Follows
<1>3. /\ Len(chain) \in Nat /\ DOMAIN chain = 1..Len(chain)
      /\ i \in 1..Len(chain) /\ i + 1 \in 1..Len(chain) /\ i < i + 1 /\ i # i + 1
  BY <1>1, <1>2
<1> QED
  BY <1>1, <1>2, <1>3 DEF Distinct, Sorted, Contains

\* A call of a hook g of the chain, with a new reference.
LEMMA ReferencedCallStep ==
  ASSUME HInv, NEW t \in Threads, NEW g \in Handles, Contains(chain, g), NEW via \in {"first", "next"},
         Acquire(g), Push(t, Frame(g, "enter", via)), UNCHANGED <<chain, older, tid, conns, posted>>,
         via = "next" => Older(stack[t][Len(stack[t])].hook, g)
  PROVE  HInv'
<1>1. TypeOK /\ IsFiniteSet(Frames) /\ Descends /\ OlderTransitive
  BY RefsAre DEF HInv
<1>2. PICK f : f = Frame(g, "enter", via)
  OBVIOUS
<1>3. f \in FrameSet /\ f.via = via /\ f.hook = g /\ f.at = "enter"
  BY <1>2 DEF Frame, FrameSet
<1>4. IsPush(t, f)
  BY <1>1, <1>2, <1>3, PushIsPush
<1>5. /\ IsFiniteSet(Frames')
      /\ \A h \in Handles : Cardinality(Calls(h)') = Cardinality(Calls(h)) + One(f, h)
  BY <1>1, <1>4, PushCalls
<1>6. Descends'
  <2>1. refs[g] > 0
    BY ChainExists
  <2> QED
    BY <1>1, <1>3, <1>4, <2>1, PushDown
<1>7. /\ refs \in [Handles -> Nat] /\ refs' \in [Handles -> Nat]
      /\ \A h \in Handles : refs'[h] = IF h = g THEN refs[h] + 1 ELSE refs[h]
  BY <1>1 DEF TypeOK, Acquire
<1>8. TypeOK'
  BY <1>1, <1>4, <1>7 DEF TypeOK, IsPush
<1>9. \A h \in Handles : refs'[h] > 0 => refs[h] > 0
  BY <1>7, ChainExists
<1>10. \A h \in Handles : refs'[h] - refs[h] = Cardinality(Calls(h)') - Cardinality(Calls(h))
  <2> SUFFICES ASSUME NEW h \in Handles
               PROVE  refs'[h] - refs[h] = Cardinality(Calls(h)') - Cardinality(Calls(h))
    OBVIOUS
  <2>1. Cardinality(Calls(h)) \in Nat
    BY <1>1, CallsFinite
  <2>2. One(f, h) = IF h = g THEN 1 ELSE 0
    BY <1>3 DEF One, Counted
  <2> QED
    BY <1>5, <1>7, <2>1, <2>2
<1> QED
  BY <1>5, <1>6, <1>8, <1>9, <1>10, StackStep

LEMMA CallHookStep == ASSUME HInv, NEW t \in Threads, CallHook(t) PROVE HInv'
<1>1. PICK g : g = Head(chain)
  OBVIOUS
<1>2. chain \in Seq(Handles) /\ chain # << >>
  BY RefsAre DEF HInv, TypeOK, CallHook
<1>3. g \in Handles /\ Contains(chain, g)
  BY <1>1, <1>2 DEF Contains
<1>4. /\ Acquire(g) /\ Push(t, Frame(g, "enter", "first"))
      /\ UNCHANGED <<chain, older, tid, conns, posted>>
  BY <1>1 DEF CallHook
<1> QED
  BY <1>3, <1>4, ReferencedCallStep

LEMMA CallNextHookStep == ASSUME HInv, NEW t \in Threads, CallNextHook(t) PROVE HInv'
<1>1. PICK f : f = Top(t)
  OBVIOUS
<1>2. Busy(t)
  BY DEF CallNextHook, TopIs
<1>3. f = stack[t][Len(stack[t])]
  BY <1>1, <1>2, TopFacts
<1>4. PICK g \in Handles : /\ Follows(f.hook, g)
                           /\ Acquire(g)
                           /\ Push(t, Frame(g, "enter", "next"))
  BY <1>1 DEF CallNextHook
<1>5. UNCHANGED <<chain, older, tid, conns, posted>>
  BY DEF CallNextHook
<1>6. Contains(chain, g) /\ Older(f.hook, g)
  BY <1>4, FollowsOlder
<1> QED
  BY <1>3, <1>4, <1>5, <1>6, ReferencedCallStep

\* The top frame moves on in its call: the hook and its reference stay.
LEMMA MoveStep ==
  ASSUME HInv, NEW t \in Threads, Busy(t), NEW f, f = Top(t), f.at # "remote", NEW g \in FrameSet,
         g.hook = f.hook, g.via = f.via, g.at # "remote",
         SetTop(t, g), posted' \in [Threads -> Seq(Handles)], UNCHANGED <<chain, older, refs, tid, conns>>
  PROVE  HInv'
<1>1. TypeOK /\ IsFiniteSet(Frames) /\ Descends
  BY RefsAre DEF HInv
<1>2. PICK n : n = Len(stack[t])
  OBVIOUS
<1>3. f = stack[t][n] /\ f \in FrameSet /\ n \in Nat /\ n > 0
  BY <1>2, TopFacts
<1>4. IsSetTop(t, g)
  BY <1>1, SetTopIsSetTop
<1>5. /\ IsFiniteSet(Frames')
      /\ \A h \in Handles : Cardinality(Calls(h)') = Cardinality(Calls(h)) - One(f, h) + One(g, h)
  BY <1>1, <1>2, <1>3, <1>4, SetTopCalls
<1>6. \A i \in 1..(n - 1) : Passed(t, i, n) => Older(stack[t][i].hook, g.hook)
  <2>1. DOMAIN stack[t] = 1..n /\ n \in 1..n /\ \A i \in 1..(n - 1) : i \in 1..n
    BY <1>1, <1>2, <1>3 DEF TypeOK
  <2> QED
    BY <1>1, <1>3, <2>1 DEF Descends
<1>7. Descends'
  BY <1>1, <1>2, <1>3, <1>4, <1>6, SetTopDown
<1>8. TypeOK'
  BY <1>1, <1>4 DEF TypeOK, IsSetTop
<1>9. \A h \in Handles : refs'[h] - refs[h] = Cardinality(Calls(h)') - Cardinality(Calls(h))
  <2> SUFFICES ASSUME NEW h \in Handles
               PROVE  refs'[h] - refs[h] = Cardinality(Calls(h)') - Cardinality(Calls(h))
    OBVIOUS
  <2>1. Cardinality(Calls(h)) \in Nat /\ refs[h] \in Nat
    BY <1>1, CallsFinite DEF TypeOK
  <2>2. One(f, h) = One(g, h) /\ One(f, h) \in Nat
    BY DEF One, Counted
  <2> QED
    BY <1>5, <2>1, <2>2
<1> QED
  BY <1>5, <1>7, <1>8, <1>9, StackStep

LEMMA CallProcStep == ASSUME HInv, NEW t \in Threads, CallProc(t) PROVE HInv'
<1>1. PICK f : f = Top(t)
  OBVIOUS
<1>2. Busy(t) /\ f.at = "enter"
  BY <1>1 DEF CallProc, TopIs
<1>3. f \in FrameSet
  BY <1>1, <1>2, TopFacts
<1>4. PICK g : g = [f EXCEPT !.at = "proc"]
  OBVIOUS
<1>5. g \in FrameSet /\ g.hook = f.hook /\ g.via = f.via /\ g.at # "remote"
  BY <1>3, <1>4 DEF FrameSet
<1>6. SetTop(t, g) /\ posted' = posted /\ UNCHANGED <<chain, older, refs, tid, conns>>
  BY <1>1, <1>4 DEF CallProc
<1>7. posted' \in [Threads -> Seq(Handles)]
  BY <1>6, RefsAre DEF HInv, TypeOK
<1> QED
  BY <1>1, <1>2, <1>5, <1>6, <1>7, MoveStep

LEMMA CallSendStep ==
  ASSUME HInv, NEW t \in Threads, NEW d \in Threads \cup {None}, CallSend(t, d) PROVE HInv'
<1>1. PICK f : f = Top(t)
  OBVIOUS
<1>2. Busy(t) /\ f.at = "enter"
  BY <1>1 DEF CallSend, TopIs
<1>3. f \in FrameSet
  BY <1>1, <1>2, TopFacts
<1>4. PICK g : g = [f EXCEPT !.at = "sent", !.to = d]
  OBVIOUS
<1>5. g \in FrameSet /\ g.hook = f.hook /\ g.via = f.via /\ g.at # "remote"
  BY <1>3, <1>4 DEF FrameSet
<1>6. SetTop(t, g) /\ UNCHANGED <<chain, older, refs, tid, conns>>
  BY <1>1, <1>4 DEF CallSend
<1>7. posted' \in [Threads -> Seq(Handles)]
  <2>1. posted \in [Threads -> Seq(Handles)] /\ conns \subseteq Threads
    BY RefsAre DEF HInv, TypeOK
  <2>2. f.hook \in Handles
    BY <1>3 DEF FrameSet
  <2>3. \/ posted' = posted
        \/ d \in conns /\ posted' = [posted EXCEPT ![d] = Append(posted[d], f.hook)]
    BY <1>1 DEF CallSend
  <2>4. d \in Threads => Append(posted[d], f.hook) \in Seq(Handles)
    BY <2>1, <2>2
  <2> QED
    BY <2>1, <2>3, <2>4
<1> QED
  BY <1>1, <1>2, <1>5, <1>6, <1>7, MoveStep

\* The end of a call that has a reference.
LEMMA EndStep ==
  ASSUME HInv, NEW t \in Threads, Busy(t), NEW f, f = Top(t), f.at # "remote",
         refs' = [refs EXCEPT ![f.hook] = @ - 1], Pop(t), UNCHANGED <<chain, older, tid, conns, posted>>
  PROVE  HInv'
<1>1. TypeOK /\ IsFiniteSet(Frames) /\ Descends
  BY RefsAre DEF HInv
<1>2. f = stack[t][Len(stack[t])] /\ f \in FrameSet /\ refs[f.hook] > 0
  BY TopFacts
<1>3. IsPop(t)
  BY <1>1, PopIsPop
<1>4. /\ IsFiniteSet(Frames')
      /\ \A h \in Handles : Cardinality(Calls(h)') = Cardinality(Calls(h)) - One(f, h)
  BY <1>1, <1>2, <1>3, PopCalls
<1>5. Descends'
  BY <1>1, <1>3, PopDown
<1>6. PICK k \in Handles : k = f.hook
  BY <1>2 DEF FrameSet
<1>7. /\ refs \in [Handles -> Nat] /\ refs' \in [Handles -> Nat]
      /\ \A h \in Handles : refs'[h] = IF h = k THEN refs[h] - 1 ELSE refs[h]
  BY <1>1, <1>2, <1>6 DEF TypeOK
<1>8. TypeOK'
  BY <1>1, <1>3, <1>7 DEF TypeOK, IsPop
<1>9. \A h \in Handles : refs'[h] > 0 => refs[h] > 0
  BY <1>7
<1>10. \A h \in Handles : refs'[h] - refs[h] = Cardinality(Calls(h)') - Cardinality(Calls(h))
  <2> SUFFICES ASSUME NEW h \in Handles
               PROVE  refs'[h] - refs[h] = Cardinality(Calls(h)') - Cardinality(Calls(h))
    OBVIOUS
  <2>1. Cardinality(Calls(h)) \in Nat
    BY <1>1, CallsFinite
  <2>2. One(f, h) = IF h = k THEN 1 ELSE 0
    BY <1>6 DEF One, Counted
  <2> QED
    BY <1>4, <1>7, <2>1, <2>2
<1> QED
  BY <1>4, <1>5, <1>8, <1>9, <1>10, StackStep

LEMMA SendEndStep == ASSUME HInv, NEW t \in Threads, SendEnd(t) PROVE HInv'
<1>1. PICK f : f = Top(t)
  OBVIOUS
<1>2. /\ Busy(t) /\ f.at = "sent" /\ Pop(t)
      /\ refs' = [refs EXCEPT ![f.hook] = @ - 1]
      /\ UNCHANGED <<chain, older, tid, conns, posted>>
  BY <1>1 DEF SendEnd, TopIs, Release
<1> QED
  BY <1>1, <1>2, EndStep

\* The callback of another thread's message has no reference.
LEMMA RemoteEndStep ==
  ASSUME HInv, NEW t \in Threads, Busy(t), NEW f, f = Top(t), f.at = "remote",
         Pop(t), UNCHANGED <<chain, older, refs, tid, conns, posted>>
  PROVE  HInv'
<1>1. TypeOK /\ IsFiniteSet(Frames) /\ Descends
  BY RefsAre DEF HInv
<1>2. f = stack[t][Len(stack[t])]
  BY TopFacts
<1>3. IsPop(t)
  BY <1>1, PopIsPop
<1>4. /\ IsFiniteSet(Frames')
      /\ \A h \in Handles : Cardinality(Calls(h)') = Cardinality(Calls(h)) - One(f, h)
  BY <1>1, <1>2, <1>3, PopCalls
<1>5. Descends'
  BY <1>1, <1>3, PopDown
<1>6. TypeOK'
  BY <1>1, <1>3 DEF TypeOK, IsPop
<1>7. \A h \in Handles : refs'[h] - refs[h] = Cardinality(Calls(h)') - Cardinality(Calls(h))
  <2> SUFFICES ASSUME NEW h \in Handles
               PROVE  refs'[h] - refs[h] = Cardinality(Calls(h)') - Cardinality(Calls(h))
    OBVIOUS
  <2>1. Cardinality(Calls(h)) \in Nat /\ refs[h] \in Nat
    BY <1>1, CallsFinite DEF TypeOK
  <2>2. One(f, h) = 0
    BY DEF One, Counted
  <2> QED
    BY <1>4, <2>1, <2>2
<1> QED
  BY <1>4, <1>5, <1>6, <1>7, StackStep

LEMMA ProcReturnStep == ASSUME HInv, NEW t \in Threads, ProcReturn(t) PROVE HInv'
<1>1. PICK f : f = Top(t)
  OBVIOUS
<1>2. /\ Busy(t) /\ f.at \in {"proc", "remote"} /\ Pop(t)
      /\ UNCHANGED <<chain, older, tid, conns, posted>>
  BY <1>1 DEF ProcReturn, TopIs
<1>3. CASE f.at = "proc"
  <2>1. refs' = [refs EXCEPT ![f.hook] = @ - 1]
    BY <1>1, <1>3 DEF ProcReturn, Release
  <2> QED
    BY <1>1, <1>2, <1>3, <2>1, EndStep
<1>4. CASE f.at = "remote"
  <2>1. refs' = refs
    BY <1>1, <1>4 DEF ProcReturn
  <2> QED
    BY <1>1, <1>2, <1>4, <2>1, RemoteEndStep
<1> QED
  BY <1>2, <1>3, <1>4

LEMMA DispatchStep == ASSUME HInv, NEW t \in Threads, Dispatch(t) PROVE HInv'
<1>1. TypeOK /\ IsFiniteSet(Frames) /\ Descends /\ OlderTransitive
  BY RefsAre DEF HInv
<1>2. PICK g : g = Head(posted[t])
  OBVIOUS
<1>3. posted[t] \in Seq(Handles) /\ posted[t] # << >>
  BY <1>1 DEF TypeOK, Dispatch
<1>4. g \in Handles /\ Tail(posted[t]) \in Seq(Handles)
  BY <1>2, <1>3
<1>5. PICK f : f = Frame(g, "remote", "first")
  OBVIOUS
<1>6. f \in FrameSet /\ f.via = "first" /\ f.at = "remote"
  BY <1>4, <1>5 DEF Frame, FrameSet
<1>7. /\ Push(t, f) /\ posted' = [posted EXCEPT ![t] = Tail(posted[t])]
      /\ UNCHANGED <<chain, refs, older, tid, conns>>
  BY <1>2, <1>5 DEF Dispatch
<1>8. IsPush(t, f)
  BY <1>1, <1>6, <1>7, PushIsPush
<1>9. /\ IsFiniteSet(Frames')
      /\ \A h \in Handles : Cardinality(Calls(h)') = Cardinality(Calls(h)) + One(f, h)
  BY <1>1, <1>8, PushCalls
<1>10. Descends'
  BY <1>1, <1>6, <1>7, <1>8, PushDown
<1>11. posted' \in [Threads -> Seq(Handles)]
  BY <1>1, <1>4, <1>7 DEF TypeOK
<1>12. TypeOK'
  BY <1>1, <1>7, <1>8, <1>11 DEF TypeOK, IsPush
<1>13. \A h \in Handles : refs'[h] - refs[h] = Cardinality(Calls(h)') - Cardinality(Calls(h))
  <2> SUFFICES ASSUME NEW h \in Handles
               PROVE  refs'[h] - refs[h] = Cardinality(Calls(h)') - Cardinality(Calls(h))
    OBVIOUS
  <2>1. Cardinality(Calls(h)) \in Nat /\ refs[h] \in Nat
    BY <1>1, CallsFinite DEF TypeOK
  <2>2. One(f, h) = 0
    BY <1>6 DEF One, Counted
  <2> QED
    BY <1>7, <1>9, <2>1, <2>2
<1> QED
  BY <1>7, <1>9, <1>10, <1>12, <1>13, StackStep

\* The call goes on with the next hook, which is older than all that passed the
\* event on, or ends.
LEMMA CallSkipStep == ASSUME HInv, NEW t \in Threads, CallSkip(t) PROVE HInv'
<1>1. TypeOK /\ IsFiniteSet(Frames) /\ Descends /\ OlderTransitive
  BY RefsAre DEF HInv
<1>2. PICK f : f = Top(t)
  OBVIOUS
<1>3. /\ Busy(t) /\ f.at = "enter"
      /\ UNCHANGED <<chain, older, tid, conns, posted>>
  BY <1>2 DEF CallSkip, TopIs
<1>4. PICK n : n = Len(stack[t])
  OBVIOUS
<1>5. f = stack[t][n] /\ f \in FrameSet /\ n \in Nat /\ n > 0 /\ refs[f.hook] > 0
  BY <1>2, <1>3, <1>4, TopFacts
<1>6. PICK k \in Handles : k = f.hook
  BY <1>5 DEF FrameSet
<1>7. CASE ~HasNext(k)
  <2>1. Pop(t) /\ refs' = [refs EXCEPT ![f.hook] = @ - 1]
    BY <1>2, <1>6, <1>7 DEF CallSkip
  <2> QED
    BY <1>2, <1>3, <2>1, EndStep
<1>8. CASE HasNext(k)
  <2>1. PICK g \in Handles : /\ Follows(k, g)
                             /\ SetTop(t, [f EXCEPT !.hook = g])
                             /\ refs' = [refs EXCEPT ![g] = @ + 1, ![k] = @ - 1]
    BY <1>2, <1>6, <1>8 DEF CallSkip
  <2>2. Contains(chain, g) /\ Older(k, g) /\ k # g
    BY <2>1, FollowsOlder
  <2>3. refs[g] > 0
    BY <2>2, ChainExists
  <2>4. PICK e : e = [f EXCEPT !.hook = g]
    OBVIOUS
  <2>5. e \in FrameSet /\ e.hook = g /\ e.via = f.via /\ e.at = f.at
    BY <1>5, <2>4 DEF FrameSet
  <2>6. IsSetTop(t, e)
    BY <1>1, <1>3, <2>1, <2>4, <2>5, SetTopIsSetTop
  <2>7. /\ IsFiniteSet(Frames')
        /\ \A h \in Handles : Cardinality(Calls(h)') = Cardinality(Calls(h)) - One(f, h) + One(e, h)
    BY <1>1, <1>4, <1>5, <2>6, SetTopCalls
  <2>8. ASSUME NEW i \in 1..(n - 1), Passed(t, i, n) PROVE Older(stack[t][i].hook, e.hook)
    <3>1. DOMAIN stack[t] = 1..n /\ n \in 1..n /\ i \in 1..n
      BY <1>1, <1>4, <1>5 DEF TypeOK
    <3>2. Older(stack[t][i].hook, k)
      BY <1>1, <1>5, <1>6, <2>8, <3>1 DEF Descends
    <3>3. PICK p \in Handles : p = stack[t][i].hook
      <4>1. stack[t] \in Seq(FrameSet)
        BY <1>1 DEF TypeOK
      <4>2. stack[t][i] \in FrameSet
        BY <1>4, <3>1, <4>1
      <4> QED
        BY <4>2 DEF FrameSet
    <3> QED
      BY <1>1, <2>2, <2>3, <2>5, <3>2, <3>3 DEF OlderTransitive
  <2>9. Descends'
    BY <1>1, <1>3, <1>4, <1>5, <2>5, <2>6, <2>8, SetTopDown
  <2>10. /\ refs \in [Handles -> Nat] /\ refs' \in [Handles -> Nat]
         /\ \A h \in Handles : refs'[h] = IF h = g THEN refs[h] + 1
                                          ELSE IF h = k THEN refs[h] - 1 ELSE refs[h]
    <3>1. refs \in [Handles -> Nat] /\ refs[k] \in Nat /\ refs[k] > 0
      BY <1>1, <1>5, <1>6 DEF TypeOK
    <3>2. refs[k] - 1 \in Nat /\ refs[g] + 1 \in Nat
      BY <3>1
    <3>3. \A h \in Handles : refs'[h] = IF h = g THEN refs[h] + 1
                                        ELSE IF h = k THEN refs[h] - 1 ELSE refs[h]
      BY <2>1, <2>2, <3>1
    <3>4. refs' = [h \in Handles |-> refs'[h]]
      BY <2>1, <3>1
    <3> QED
      BY <3>1, <3>2, <3>3, <3>4
  <2>11. TypeOK'
    BY <1>1, <1>3, <2>6, <2>10 DEF TypeOK, IsSetTop
  <2>12. \A h \in Handles : refs'[h] > 0 => refs[h] > 0
    BY <2>3, <2>10
  <2>13. \A h \in Handles : refs'[h] - refs[h] = Cardinality(Calls(h)') - Cardinality(Calls(h))
    <3> SUFFICES ASSUME NEW h \in Handles
                 PROVE  refs'[h] - refs[h] = Cardinality(Calls(h)') - Cardinality(Calls(h))
      OBVIOUS
    <3>1. Cardinality(Calls(h)) \in Nat
      BY <1>1, CallsFinite
    <3>2. One(f, h) = (IF h = k THEN 1 ELSE 0) /\ One(e, h) = (IF h = g THEN 1 ELSE 0)
      BY <1>3, <1>6, <2>5 DEF One, Counted
    <3> QED
      BY <2>2, <2>7, <2>10, <3>1, <3>2
  <2> QED
    BY <1>3, <2>7, <2>9, <2>11, <2>12, <2>13, StackStep
<1> QED
  BY <1>7, <1>8

LEMMA ThreadStep == ASSUME HInv, NEW t \in Threads, ThreadEnd(t) \/ ThreadStart(t) PROVE HInv'
<1>1. TypeOK /\ IsFiniteSet(Frames) /\ Descends
  BY RefsAre DEF HInv
<1>2. UNCHANGED <<chain, refs, older, tid, stack>>
  BY DEF ThreadEnd, ThreadStart
<1>3. posted' \in [Threads -> Seq(Handles)] /\ conns' \subseteq Threads
  <2>1. posted \in [Threads -> Seq(Handles)] /\ conns \subseteq Threads
    BY <1>1 DEF TypeOK
  <2>2. << >> \in Seq(Handles)
    OBVIOUS
  <2>3. /\ posted' = posted \/ posted' = [posted EXCEPT ![t] = << >>]
        /\ conns' = conns \ {t} \/ conns' = conns \cup {t}
    BY DEF ThreadEnd, ThreadStart
  <2> QED
    BY <2>1, <2>2, <2>3
<1>4. TypeOK'
  BY <1>1, <1>2, <1>3 DEF TypeOK
<1>5. Frames' = Frames /\ \A h \in Handles : Calls(h)' = Calls(h)
  BY <1>2 DEF Frames, Calls, At
<1>6. Descends'
  BY <1>1, <1>2 DEF Descends, Older, Passed
<1>7. \A h \in Handles : refs'[h] - refs[h] = Cardinality(Calls(h)') - Cardinality(Calls(h))
  <2> SUFFICES ASSUME NEW h \in Handles
               PROVE  refs'[h] - refs[h] = Cardinality(Calls(h)') - Cardinality(Calls(h))
    OBVIOUS
  <2>1. Cardinality(Calls(h)) \in Nat /\ refs[h] \in Nat
    BY <1>1, CallsFinite DEF TypeOK
  <2> QED
    BY <1>2, <1>5, <2>1
<1> QED
  BY <1>1, <1>2, <1>4, <1>5, <1>6, <1>7, StackStep

LEMMA UnhookStep == ASSUME HInv, NEW t \in Threads, NEW h \in Handles, Unhook(t, h) PROVE HInv'
<1>1. /\ TypeOK /\ IsFiniteSet(Frames) /\ Descends /\ OlderTransitive /\ OlderIrreflexive /\ Distinct /\ Sorted
      /\ \A g \in Handles : refs[g] = InChain(g) + Cardinality(Calls(g))
  BY RefsAre DEF HInv
<1>2. UNCHANGED <<older, tid, conns, posted, stack>>
  BY DEF Unhook
<1>3. PICK i \in DOMAIN chain : chain[i] = h /\ chain' = RemoveAt(chain, i)
  BY DEF Unhook
<1>4. chain \in Seq(Handles)
  BY <1>1 DEF TypeOK
<1>5. /\ chain' \in Seq(Handles)
      /\ Distinct' /\ Sorted'
      /\ \A g : InChain(g)' = IF g = h THEN 0 ELSE InChain(g)
      /\ InChain(h) = 1
  BY <1>1, <1>2, <1>3, <1>4, ErasedChain
<1>6. Frames' = Frames /\ \A g : Calls(g)' = Calls(g)
  BY <1>2 DEF Frames, Calls, At
<1>7. \A g \in Handles : Cardinality(Calls(g)) \in Nat
  BY <1>1, CallsFinite
<1>8. refs[h] >= 1 /\ refs \in [Handles -> Nat]
  BY <1>1, <1>5, <1>7 DEF TypeOK
<1>9. /\ refs' \in [Handles -> Nat]
      /\ \A g \in Handles : refs'[g] = IF g = h THEN refs[g] - 1 ELSE refs[g]
  BY <1>8 DEF Unhook, Release
<1>10. TypeOK'
  BY <1>1, <1>2, <1>5, <1>9 DEF TypeOK
<1>11. \A g \in Handles : refs'[g] = InChain(g)' + Cardinality(Calls(g)')
  BY <1>1, <1>5, <1>6, <1>7, <1>9
<1>12. RefsExact'
  BY <1>10, <1>11, RefsBecome
<1>13. OlderTransitive' /\ OlderIrreflexive'
  <2>1. \A g \in Handles : refs'[g] > 0 => refs[g] > 0
    BY <1>8, <1>9
  <2> QED
    BY <1>1, <1>2, <2>1 DEF OlderTransitive, OlderIrreflexive, Older
<1>14. Descends'
  BY <1>1, <1>2 DEF Descends, Older, Passed
<1> QED
  BY <1>1, <1>5, <1>6, <1>12, <1>13, <1>14 DEF HInv

\* A new hook: nothing mentions its handle, and every hook that exists is older.
LEMMA SetWindowsHookStep ==
  ASSUME HInv, NEW t \in Threads, NEW h \in Handles, NEW d \in Threads, SetWindowsHook(t, h, d)
  PROVE  HInv'
<1>1. /\ TypeOK /\ IsFiniteSet(Frames) /\ Descends /\ OlderTransitive /\ OlderIrreflexive /\ Distinct /\ Sorted
      /\ \A g \in Handles : refs[g] = InChain(g) + Cardinality(Calls(g))
  BY RefsAre DEF HInv
<1>2. UNCHANGED <<conns, posted, stack>>
  BY DEF SetWindowsHook
<1>3. refs[h] = 0 /\ \A p \in Frames : At(p).hook # h
  BY DEF SetWindowsHook, Mentioned
<1>4. Frames' = Frames /\ \A g : Calls(g)' = Calls(g)
  BY <1>2 DEF Frames, Calls, At
<1>5. \A g \in Handles : Cardinality(Calls(g)) \in Nat /\ InChain(g) \in {0, 1}
  BY <1>1, CallsFinite DEF InChain
<1>6. InChain(h) = 0 /\ Cardinality(Calls(h)) = 0
  BY <1>1, <1>3, <1>5
<1>7. chain \in Seq(Handles) /\ \A i \in DOMAIN chain : chain[i] \in Handles
  BY <1>1 DEF TypeOK
<1>8. \A i \in DOMAIN chain : chain[i] # h /\ refs[chain[i]] > 0
  <2> SUFFICES ASSUME NEW i \in DOMAIN chain PROVE chain[i] # h /\ refs[chain[i]] > 0
    OBVIOUS
  <2>1. Contains(chain, chain[i])
    BY <1>7 DEF Contains
  <2> QED
    BY <1>3, <1>7, <2>1, ChainExists
<1>9. older \subseteq Handles \X Handles
  BY <1>1 DEF TypeOK
<1>10. older' = {p \in older : h \notin {p[1], p[2]}} \cup {<<h, g>> : g \in {k \in Handles : refs[k] > 0}}
  BY DEF SetWindowsHook, SetNow
<1>11. \A a, b \in Handles : <<a, b>> \in older' <=> \/ a # h /\ b # h /\ <<a, b>> \in older
                                                     \/ a = h /\ refs[b] > 0
  <2> SUFFICES ASSUME NEW a \in Handles, NEW b \in Handles
               PROVE  <<a, b>> \in older' <=> \/ a # h /\ b # h /\ <<a, b>> \in older
                                              \/ a = h /\ refs[b] > 0
    OBVIOUS
  <2>1. <<a, b>> \in {p \in older : h \notin {p[1], p[2]}} <=> a # h /\ b # h /\ <<a, b>> \in older
    OBVIOUS
  <2>2. <<a, b>> \in {<<h, g>> : g \in {k \in Handles : refs[k] > 0}} <=> a = h /\ refs[b] > 0
    OBVIOUS
  <2> QED
    BY <1>10, <2>1, <2>2
<1>12. older' \subseteq Handles \X Handles
  BY <1>9, <1>10
<1>13. IsPushed(h, chain, chain')
  BY <1>7, ConcatPushes DEF SetWindowsHook
<1>14. \A i \in DOMAIN chain : <<h, chain[i]>> \in older'
  BY <1>7, <1>8, <1>11
<1>15. \A i, j \in DOMAIN chain : i < j => <<chain[i], chain[j]>> \in older'
  BY <1>1, <1>7, <1>8, <1>11 DEF Sorted, Older
<1>16. /\ chain' \in Seq(Handles)
       /\ Distinct' /\ Sorted'
       /\ \A g : InChain(g)' = IF g = h THEN 1 ELSE InChain(g)
  BY <1>1, <1>6, <1>7, <1>13, <1>14, <1>15, PushedChain
<1>17. /\ refs \in [Handles -> Nat] /\ refs' \in [Handles -> Nat]
       /\ \A g \in Handles : refs'[g] = IF g = h THEN 1 ELSE refs[g]
  BY <1>1 DEF TypeOK, SetWindowsHook
<1>18. tid' \in [Handles -> Threads \cup {None}]
  BY <1>1 DEF TypeOK, SetWindowsHook
<1>19. TypeOK'
  BY <1>1, <1>2, <1>12, <1>16, <1>17, <1>18 DEF TypeOK
<1>20. \A g \in Handles : refs'[g] = InChain(g)' + Cardinality(Calls(g)')
  <2> SUFFICES ASSUME NEW g \in Handles PROVE refs'[g] = InChain(g)' + Cardinality(Calls(g)')
    OBVIOUS
  <2>1. Calls(g)' = Calls(g) /\ Cardinality(Calls(g)) \in Nat /\ InChain(g) \in {0, 1}
    BY <1>4, <1>5
  <2>2. CASE g = h
    BY <1>6, <1>16, <1>17, <2>1, <2>2
  <2>3. CASE g # h
    BY <1>1, <1>16, <1>17, <2>1, <2>3
  <2> QED
    BY <2>2, <2>3
<1>21. RefsExact'
  BY <1>19, <1>20, RefsBecome
<1>22. OlderTransitive'
  <2> SUFFICES ASSUME NEW a \in Handles, NEW b \in Handles, NEW c \in Handles,
                      <<a, b>> \in older', <<b, c>> \in older', refs'[c] > 0
               PROVE  <<a, c>> \in older'
    BY DEF OlderTransitive, Older
  <2>1. b # h
    BY <1>3, <1>11, <1>17
  <2>2. c # h /\ <<b, c>> \in older /\ refs[c] > 0
    BY <1>11, <1>17, <2>1
  <2> QED
    BY <1>1, <1>11, <2>1, <2>2 DEF OlderTransitive, Older
<1>23. OlderIrreflexive'
  <2>1. ASSUME NEW g \in Handles, <<g, g>> \in older' PROVE FALSE
    <3>1. ~(refs[h] > 0)
      BY <1>3
    <3>2. g # h /\ <<g, g>> \in older
      BY <1>11, <2>1, <3>1
    <3> QED
      BY <1>1, <3>2 DEF OlderIrreflexive, Older
  <2> QED
    BY <2>1 DEF OlderIrreflexive, Older
<1>24. Descends'
  <2> SUFFICES ASSUME NEW u \in Threads, NEW i \in DOMAIN stack[u], NEW j \in DOMAIN stack[u], Passed(u, i, j)
               PROVE  <<stack[u][i].hook, stack[u][j].hook>> \in older'
    BY <1>2 DEF Descends, Older, Passed
  <2>1. stack[u] \in Seq(FrameSet)
    BY <1>1 DEF TypeOK
  <2>2. stack[u][i] \in FrameSet /\ stack[u][j] \in FrameSet
    BY <2>1
  <2>3. stack[u][i].hook # h /\ stack[u][j].hook # h
    <3>1. <<u, i>> \in Frames /\ <<u, j>> \in Frames
      BY FrameMember
    <3>2. At(<<u, i>>) = stack[u][i] /\ At(<<u, j>>) = stack[u][j]
      BY DEF At
    <3> QED
      BY <1>3, <3>1, <3>2
  <2>4. stack[u][i].hook \in Handles /\ stack[u][j].hook \in Handles
    BY <2>2 DEF FrameSet
  <2>5. <<stack[u][i].hook, stack[u][j].hook>> \in older
    BY <1>1 DEF Descends, Older
  <2> QED
    BY <1>11, <2>3, <2>4, <2>5
<1> QED
  BY <1>1, <1>4, <1>16, <1>21, <1>22, <1>23, <1>24 DEF HInv

-----------------------------------------------------------------------------
LEMMA DescendsOnce == HInv => EventGoesDown
<1> SUFFICES ASSUME HInv, NEW t \in Threads, NEW i \in DOMAIN stack[t], NEW j \in DOMAIN stack[t],
                    Passed(t, i, j)
             PROVE  /\ Older(stack[t][i].hook, stack[t][j].hook)
                    /\ stack[t][i].hook # stack[t][j].hook
  BY DEF EventGoesDown
<1>1. Older(stack[t][i].hook, stack[t][j].hook)
  BY DEF HInv, Descends
<1>2. stack[t] \in Seq(FrameSet)
  BY RefsAre DEF HInv, TypeOK
<1>3. stack[t][i] \in FrameSet
  BY <1>2
<1>4. stack[t][i].hook \in Handles
  BY <1>3 DEF FrameSet
<1> QED
  BY <1>1, <1>4 DEF HInv, OlderIrreflexive

LEMMA NextHInv == HInv /\ [Next]_vars => HInv'
<1> SUFFICES ASSUME HInv, [Next]_vars PROVE HInv'
  OBVIOUS
<1>1. CASE Next
  <2>1. PICK t \in Threads :
          \/ \E h \in Handles : Unhook(t, h) \/ \E d \in Threads : SetWindowsHook(t, h, d)
          \/ CallHook(t) \/ CallNextHook(t) \/ Enter(t)
          \/ SendEnd(t) \/ Dispatch(t) \/ ProcReturn(t)
          \/ ThreadEnd(t) \/ ThreadStart(t)
    BY <1>1 DEF Next
  <2>2. CASE \E h \in Handles : Unhook(t, h)
    BY <2>2, UnhookStep
  <2>3. CASE \E h \in Handles : \E d \in Threads : SetWindowsHook(t, h, d)
    BY <2>3, SetWindowsHookStep
  <2>4. CASE CallHook(t)
    BY <2>4, CallHookStep
  <2>5. CASE CallNextHook(t)
    BY <2>5, CallNextHookStep
  <2>6. CASE Enter(t)
    BY <2>6, CallProcStep, CallSkipStep, CallSendStep DEF Enter
  <2>7. CASE SendEnd(t)
    BY <2>7, SendEndStep
  <2>8. CASE Dispatch(t)
    BY <2>8, DispatchStep
  <2>9. CASE ProcReturn(t)
    BY <2>9, ProcReturnStep
  <2>10. CASE ThreadEnd(t) \/ ThreadStart(t)
    BY <2>10, ThreadStep
  <2> QED
    BY <2>1, <2>2, <2>3, <2>4, <2>5, <2>6, <2>7, <2>8, <2>9, <2>10
<1>2. CASE UNCHANGED vars
  <2>1. /\ chain' = chain /\ refs' = refs /\ tid' = tid /\ conns' = conns
        /\ posted' = posted /\ stack' = stack /\ older' = older
    BY <1>2 DEF vars
  <2>2. TypeOK' /\ Frames' = Frames
    BY <2>1, RefsAre DEF HInv, TypeOK, Frames
  <2>3. RefsExact'
    BY <2>1, <2>2 DEF HInv, RefsExact, At
  <2>4. Distinct' /\ Sorted' /\ OlderTransitive' /\ OlderIrreflexive'
    BY <2>1 DEF HInv, Distinct, Sorted, OlderTransitive, OlderIrreflexive, Older
  <2>5. Descends'
    BY <2>1 DEF HInv, Descends, Older, Passed
  <2> QED
    BY <2>2, <2>3, <2>4, <2>5 DEF HInv
<1> QED
  BY <1>1, <1>2

(***************************************************************************)
(* A hook has a reference for its place in the chain and one for every     *)
(* call_hook of it, for any number of threads and hooks and any depth of   *)
(* nested calls: hook_release deletes it with the last one.  The types     *)
(* hold.                                                                   *)
(***************************************************************************)
THEOREM HooksReferenced == Spec => []RefsExact
<1>1. HInv => RefsExact
  BY DEF HInv
<1> QED
  BY InitHInv, NextHInv, <1>1, PTL DEF Spec

(***************************************************************************)
(* CallNextHookEx, and a call_hook that skips hooks of threads that are    *)
(* gone, pass an event only to hooks older than all it came through,       *)
(* whatever is set and unhooked meanwhile: it comes to no hook twice.      *)
(***************************************************************************)
THEOREM HooksGoDown == Spec => []EventGoesDown
<1>1. HInv => EventGoesDown
  BY DescendsOnce
<1> QED
  BY InitHInv, NextHInv, <1>1, PTL DEF Spec

-----------------------------------------------------------------------------
(***************************************************************************)
(* Registered waits.                                                       *)
(***************************************************************************)
\* What the calls in progress know of their items.
OneCall ==
  /\ \A c \in Callers : call[c] = "join" => item[arg[c]] = "joined"
  /\ \A c \in Callers : call[c] = "assign" => arg[c] \notin assigned
  /\ \A c, d \in Callers : c # d /\ arg[c] = arg[d] => arg[c] = NoWait

\* The thread is stored in an item that exists.
AssignedExists == \A w \in assigned : item[w] \in {"live", "joined"}

WInv ==
  /\ OneCall
  /\ AssignedExists
  /\ ItemOutlivesWorker

-----------------------------------------------------------------------------
LEMMA InitWInv == WaitsInit => WInv
<1> SUFFICES ASSUME WaitsInit PROVE WInv
  OBVIOUS
<1>1. WaitsTypeOK
  <2>1. item \in [Waits -> {"none", "live", "joined", "freed", "torn"}]
    BY DEF WaitsInit
  <2>2. flags \in [Waits -> SUBSET {"once", "timed"}]
    BY DEF WaitsInit
  <2>3. worker \in [Waits -> {"top", "wait", "call", "end"}]
    BY DEF WaitsInit
  <2>4. /\ call \in [Callers -> {"none", "assign", "join"}]
        /\ arg \in [Callers -> Waits \cup {NoWait}]
    BY DEF WaitsInit
  <2> QED
    BY <2>1, <2>2, <2>3, <2>4 DEF WaitsInit, WaitsTypeOK
<1>2. OneCall /\ AssignedExists /\ ItemOutlivesWorker
  BY <1>1 DEF WaitsInit, OneCall, AssignedExists, ItemOutlivesWorker
<1> QED
  BY <1>2 DEF WInv

LEMMA SetEventStep == ASSUME WInv, NEW o \in Objects, SetEvent(o) PROVE WInv'
  BY DEF WInv, SetEvent, WaitsTypeOK, OneCall, AssignedExists, ItemOutlivesWorker

\* Nobody else can be in a call on the wait that is registered again.
LEMMA RegisterStep ==
  ASSUME WInv, NEW c \in Callers, NEW w \in Waits, NEW f \in SUBSET {"once", "timed"},
         Register(c, w, f)
  PROVE  WInv'
<1> USE DEF WInv, Register, Ready
<1>1. WaitsTypeOK
  BY DEF ItemOutlivesWorker
<1>2. WaitsTypeOK'
  <2>1. \A v \in Waits : item'[v] = "joined" => v # w /\ item[v] = "joined"
    BY <1>1 DEF WaitsTypeOK
  <2>2. \A v \in Waits : item'[v] = "joined" => \E d \in Callers : call'[d] = "join" /\ arg'[d] = v
    BY <1>1, <2>1 DEF WaitsTypeOK
  <2>3. \A d \in Callers : (call'[d] = "none") <=> (arg'[d] = NoWait)
    BY <1>1, WaitsAssumption DEF WaitsTypeOK
  <2> QED
    BY <1>1, <2>2, <2>3 DEF WaitsTypeOK
<1>3. OneCall' /\ AssignedExists'
  BY <1>1, WaitsAssumption DEF WaitsTypeOK, OneCall, AssignedExists
<1>4. ItemOutlivesWorker'
  BY <1>1, <1>2 DEF WaitsTypeOK, ItemOutlivesWorker
<1> QED
  BY <1>3, <1>4

LEMMA AssignStep == ASSUME WInv, NEW c \in Callers, Assign(c) PROVE WInv'
<1> USE DEF WInv, Assign, Return
<1>1. WaitsTypeOK /\ arg[c] \in Waits
  BY DEF ItemOutlivesWorker, WaitsTypeOK
<1>2. WaitsTypeOK'
  <2>1. \A v \in Waits : item[v] = "joined" => \E d \in Callers : call'[d] = "join" /\ arg'[d] = v
    BY <1>1 DEF WaitsTypeOK
  <2> QED
    BY <1>1, <2>1 DEF WaitsTypeOK
<1>3. OneCall'
  BY <1>1 DEF WaitsTypeOK, OneCall
<1>4. AssignedExists' /\ ItemOutlivesWorker'
  BY <1>1, <1>2, WaitsAssumption DEF WaitsTypeOK, AssignedExists, ItemOutlivesWorker
<1> QED
  BY <1>3, <1>4

LEMMA RunWaitItemStep == ASSUME WInv, NEW w \in Waits, RunWaitItem(w) PROVE WInv'
<1> USE DEF WInv, RunWaitItem, TestStop, WaitReturns, WaitFails, CallbackReturns, Move
<1>1. worker[w] # "end"
  OBVIOUS
<1>2. WaitsTypeOK' /\ OneCall' /\ AssignedExists'
  BY DEF ItemOutlivesWorker, WaitsTypeOK, OneCall, AssignedExists
<1>3. ItemOutlivesWorker'
  BY <1>1, <1>2 DEF WaitsTypeOK, ItemOutlivesWorker
<1> QED
  BY <1>2, <1>3

LEMMA UnregisterStep == ASSUME WInv, NEW c \in Callers, NEW w \in Waits, Unregister(c, w) PROVE WInv'
<1> USE DEF WInv, Unregister, Ready
<1>1. WaitsTypeOK
  BY DEF ItemOutlivesWorker
<1>2. \A d \in Callers : arg[d] # w
  BY <1>1, WaitsAssumption DEF WaitsTypeOK, OneCall
<1>3. WaitsTypeOK'
  <2>1. \A v \in Waits : item'[v] = "joined" => \E d \in Callers : call'[d] = "join" /\ arg'[d] = v
    BY <1>1 DEF WaitsTypeOK
  <2>2. \A d \in Callers : (call'[d] = "none") <=> (arg'[d] = NoWait)
    BY <1>1, WaitsAssumption DEF WaitsTypeOK
  <2> QED
    BY <1>1, <2>1, <2>2 DEF WaitsTypeOK
<1>4. OneCall' /\ AssignedExists'
  BY <1>1, <1>2, WaitsAssumption DEF WaitsTypeOK, OneCall, AssignedExists
<1>5. ItemOutlivesWorker'
  BY <1>1, <1>3 DEF WaitsTypeOK, ItemOutlivesWorker
<1> QED
  BY <1>4, <1>5

LEMMA UnregisterSelfStep == ASSUME WInv, NEW w \in Waits, UnregisterSelf(w) PROVE WInv'
<1> USE DEF WInv, UnregisterSelf, Delete
<1>1. WaitsTypeOK
  BY DEF ItemOutlivesWorker
<1>2. WaitsTypeOK' /\ OneCall' /\ AssignedExists'
  BY <1>1 DEF WaitsTypeOK, OneCall, AssignedExists
<1>3. ItemOutlivesWorker'
  BY <1>1, <1>2 DEF WaitsTypeOK, ItemOutlivesWorker
<1> QED
  BY <1>2, <1>3

LEMMA JoinStep == ASSUME WInv, NEW c \in Callers, Join(c) PROVE WInv'
<1> USE DEF WInv, Join, Delete, Return
<1>1. WaitsTypeOK /\ arg[c] \in Waits
  BY DEF ItemOutlivesWorker, WaitsTypeOK
<1>2. \A d \in Callers \ {c} : arg[d] # arg[c]
  BY <1>1, WaitsAssumption DEF OneCall
<1>3. WaitsTypeOK'
  <2>1. \A v \in Waits : item'[v] = "joined" => v # arg[c] /\ item[v] = "joined"
    BY <1>1 DEF WaitsTypeOK
  <2>2. \A v \in Waits : item'[v] = "joined" => \E d \in Callers : call'[d] = "join" /\ arg'[d] = v
    BY <1>1, <2>1 DEF WaitsTypeOK
  <2> QED
    BY <1>1, <2>2 DEF WaitsTypeOK
<1>4. OneCall' /\ AssignedExists'
  BY <1>1, <1>2, WaitsAssumption DEF WaitsTypeOK, OneCall, AssignedExists
<1>5. ItemOutlivesWorker'
  BY <1>1, <1>2, <1>3, WaitsAssumption DEF WaitsTypeOK, ItemOutlivesWorker
<1> QED
  BY <1>4, <1>5

-----------------------------------------------------------------------------
LEMMA NextWInv == WInv /\ [WaitsNext]_waitsVars => WInv'
<1> SUFFICES ASSUME WInv, [WaitsNext]_waitsVars PROVE WInv'
  OBVIOUS
<1>1. ASSUME NEW o \in Objects, SetEvent(o) PROVE WInv'
  BY <1>1, SetEventStep
<1>2. ASSUME NEW c \in Callers, NEW w \in Waits, Unregister(c, w) PROVE WInv'
  BY <1>2, UnregisterStep
<1>3. ASSUME NEW c \in Callers, NEW w \in Waits, NEW f \in SUBSET {"once", "timed"}, Register(c, w, f)
      PROVE  WInv'
  BY <1>3, RegisterStep
<1>4. ASSUME NEW c \in Callers, CallStep(c) PROVE WInv'
  BY <1>4, AssignStep, JoinStep DEF CallStep
<1>5. ASSUME NEW w \in Waits, RunWaitItem(w) \/ UnregisterSelf(w) PROVE WInv'
  BY <1>5, RunWaitItemStep, UnregisterSelfStep
<1>6. CASE UNCHANGED waitsVars
  BY <1>6 DEF waitsVars, WInv, WaitsTypeOK, OneCall, AssignedExists, ItemOutlivesWorker
<1> QED
  BY <1>1, <1>2, <1>3, <1>4, <1>5, <1>6 DEF WaitsNext

(***************************************************************************)
(* When UnregisterWait has deleted a WaitItem and set the completion       *)
(* event, its worker has ended and no call on the wait is in progress, for *)
(* any number of waits and of threads and callbacks that register and      *)
(* unregister them.  The exception is a wait its own callback unregisters. *)
(***************************************************************************)
THEOREM ItemsOutliveWorkers == WaitsSpec => []ItemOutlivesWorker
<1>1. WInv => ItemOutlivesWorker
  BY DEF WInv
<1> QED
  BY <1>1, InitWInv, NextWInv, PTL DEF WaitsSpec
==============================================================================
