--------------------------- MODULE MsgQueueProofs ---------------------------
(***************************************************************************)
(* For any windows, messages, timers and depth of nesting: every Msg has   *)
(* one owner, a WM_TIMER in the queue belongs to a timer that is set,      *)
(* GetMessage does not sleep on a message, and m_msgStack is the stack of  *)
(* the messages being handled.                                             *)
(*                                                                         *)
(* Who owns a message is a partition of the messages created, and every    *)
(* step moves some of them from one part to another.  That a step moves    *)
(* what it takes needs the positions: no message is twice in the queue, on *)
(* the stack or with a TIMERPROC.                                          *)
(***************************************************************************)
EXTENDS MsgQueue, FiniteSetTheorems, SequenceTheorems, TLAPS

Distinct(s) == \A i, j \in DOMAIN s : s[i] = s[j] => i = j

TimerFrames == {i \in DOMAIN frames : frames[i].content \in ProcTimers}

TimerOnce == \A i, j \in TimerFrames : frames[i].msg = frames[j].msg => i = j

\* No message is in two places of its owner.
Once ==
  /\ Distinct(queue)
  /\ Distinct(msgStack)
  /\ TimerOnce

\* The sets make up C, and no two of them have a member in common.
Apart(Q, P, S, T, F, C) ==
  /\ Q \cup P \cup S \cup T \cup F = C
  /\ Q \cap (P \cup S \cup T \cup F) = {}
  /\ P \cap (S \cup T \cup F) = {}
  /\ S \cap (T \cup F) = {}
  /\ T \cap F = {}

Owned == Apart(Elems(queue), Stale, Elems(msgStack), InTimer, freed, Created)

\* A message that was peeked and not dispatched yet is m_msgPeek.
Got ==
  /\ needFree => msgPeek # 0
  /\ pc = "got" <=> got # 0
  /\ pc = "got" => /\ got = msgPeek /\ needFree /\ ~Destroyed(got)
                   /\ msgs[got].content \notin ProcTimers

\* A frame has the content of its message; a TIMERPROC always has one.
Framed ==
  \A i \in DOMAIN frames :
    /\ frames[i].msg # 0 => msgs[frames[i].msg].content = frames[i].content
    /\ frames[i].content \in ProcTimers => frames[i].msg # 0
    /\ frames[i].got = 0

\* The messages the procedures on the thread's stack handle.
Handling == [i \in DOMAIN Dispatched |-> Dispatched[i].msg]

\* No procedure was sent what an outer one handles.
NotNested ==
  \A i, j \in DOMAIN frames :
    j < i /\ frames[i].msg = 0 /\ frames[j].msg # 0 => frames[j].content # frames[i].content

\* AfterProcMsg finds the message of its own procedure, and only that.
Handled ==
  ~misled =>
    /\ needFree => pc = "got"
    /\ msgStack = Handling
    /\ NotNested

IInv ==
  /\ TypeOK
  /\ IsFiniteSet(timers)
  /\ Once
  /\ Owned
  /\ Got
  /\ Framed
  /\ Handled
  /\ NoLostWakeup
  /\ QueuedTimerIsSet

-----------------------------------------------------------------------------
(***************************************************************************)
(* Lemmas about picking positions of a sequence.                           *)
(***************************************************************************)
LEMMA Least ==
  ASSUME NEW S, S \subseteq Nat, S # {}
  PROVE  \E i \in S : \A j \in S : i <= j
<1>1. PICK i \in S : \A j \in S : ~ (<<j, i>> \in OpToRel(<, Nat))
  BY WFMin, NatLessThanWellFounded
<1>2. \A j \in S : ~ (j < i)
  BY <1>1 DEF OpToRel
<1> QED
  BY <1>2

LEMMA PositionsFinite ==
  ASSUME NEW n \in Nat, NEW K \in SUBSET (1..n)
  PROVE  /\ IsFiniteSet(K) /\ Cardinality(K) \in Nat
         /\ \A i : IsFiniteSet({j \in K : j <= i}) /\ Rank(K, i) \in Nat /\ Rank(K, i) <= Cardinality(K)
<1>1. IsFiniteSet(1..n)
  BY FS_Interval
<1>2. IsFiniteSet(K) /\ Cardinality(K) \in Nat
  BY <1>1, FS_Subset, FS_CardinalityType
<1>3. ASSUME NEW i
      PROVE  IsFiniteSet({j \in K : j <= i}) /\ Rank(K, i) \in Nat /\ Rank(K, i) <= Cardinality(K)
  <2>1. {j \in K : j <= i} \in SUBSET K
    OBVIOUS
  <2> QED
    BY <1>2, <2>1, FS_Subset, FS_CardinalityType DEF Rank
<1> QED
  BY <1>2, <1>3

\* A member of K has a higher rank than the position before it, by one.
LEMMA RankStep ==
  ASSUME NEW n \in Nat, NEW K \in SUBSET (1..n), NEW i \in 1..n
  PROVE  /\ i \in K => Rank(K, i) = Rank(K, i - 1) + 1
         /\ i \notin K => Rank(K, i) = Rank(K, i - 1)
<1> DEFINE A == {j \in K : j <= i - 1}
           B == {j \in K : j <= i}
<1>1. IsFiniteSet(A)
  BY PositionsFinite
<1>2. \A j \in K : j \in Nat /\ (j <= i <=> j <= i - 1 \/ j = i)
  OBVIOUS
<1>3. CASE i \in K
  <2>1. i \notin A
    OBVIOUS
  <2>2. \A j : j \in B <=> j \in A \cup {i}
    BY <1>2, <1>3
  <2>3. B = A \cup {i}
    BY <2>2
  <2>4. Cardinality(B) = Cardinality(A) + 1
    BY <1>1, <2>1, <2>3, FS_AddElement
  <2> QED
    BY <1>3, <2>4 DEF Rank
<1>4. CASE i \notin K
  <2>1. \A j : j \in B <=> j \in A
    BY <1>2, <1>4
  <2>2. B = A
    BY <2>1
  <2> QED
    BY <1>4, <2>2 DEF Rank
<1> QED
  BY <1>3, <1>4

LEMMA RankGrows ==
  ASSUME NEW n \in Nat, NEW K \in SUBSET (1..n), NEW i \in K, NEW k \in K, i < k
  PROVE  Rank(K, i) < Rank(K, k)
<1>1. k \in 1..n /\ Rank(K, k) = Rank(K, k - 1) + 1
  BY RankStep
<1>2. {j \in K : j <= i} \in SUBSET {j \in K : j <= k - 1}
  <2>1. \A j \in K : j <= i => j <= k - 1
    OBVIOUS
  <2> QED
    BY <2>1
<1>3. Rank(K, i) <= Rank(K, k - 1)
  BY <1>2, PositionsFinite, FS_Subset DEF Rank
<1>4. Rank(K, i) \in Nat /\ Rank(K, k - 1) \in Nat
  BY PositionsFinite
<1> QED
  BY <1>1, <1>3, <1>4

\* Every rank up to the size of K is that of a member.
LEMMA RankReached ==
  ASSUME NEW n \in Nat, NEW K \in SUBSET (1..n), NEW m \in 1..Cardinality(K)
  PROVE  \E i \in K : Rank(K, i) = m
<1> DEFINE S == {i \in 0..n : Rank(K, i) >= m}
<1>1. Cardinality(K) \in Nat /\ \A i : Rank(K, i) \in Nat
  BY PositionsFinite
<1>2. Rank(K, n) = Cardinality(K)
  <2>1. \A j \in K : j <= n
    OBVIOUS
  <2>2. {j \in K : j <= n} = K
    BY <2>1
  <2> QED
    BY <2>2 DEF Rank
<1>3. Rank(K, 0) = 0
  <2>1. \A j \in K : ~ (j <= 0)
    OBVIOUS
  <2>2. {j \in K : j <= 0} = {}
    BY <2>1
  <2> QED
    BY <2>2, FS_EmptySet DEF Rank
<1>4. n \in S
  BY <1>1, <1>2
<1>5. PICK i \in S : \A j \in S : i <= j
  <2>1. S \subseteq Nat /\ S # {}
    BY <1>4
  <2> HIDE DEF S
  <2> QED
    BY <2>1, Least
<1>6. i \in 1..n /\ Rank(K, i) >= m
  BY <1>1, <1>3, <1>5
<1>7. Rank(K, i - 1) < m
  <2>1. i - 1 \in 0..n /\ ~ (i <= i - 1)
    BY <1>6
  <2>2. i - 1 \notin S
    BY <1>5, <2>1
  <2>3. ~ (Rank(K, i - 1) >= m) /\ Rank(K, i - 1) \in Nat
    BY <1>1, <2>1, <2>2
  <2> QED
    BY <2>3
<1>8. i \in K => Rank(K, i) = Rank(K, i - 1) + 1
  BY <1>6, RankStep
<1>9. i \notin K => Rank(K, i) = Rank(K, i - 1)
  BY <1>6, RankStep
<1>10. Rank(K, i) \in Nat /\ Rank(K, i - 1) \in Nat
  BY <1>1
<1> QED
  BY <1>6, <1>7, <1>8, <1>9, <1>10

LEMMA RankOne ==
  ASSUME NEW n \in Nat, NEW K \in SUBSET (1..n), NEW i \in K
  PROVE  /\ Rank(K, i) \in 1..Cardinality(K)
         /\ \A k \in K : Rank(K, k) = Rank(K, i) => k = i
<1>1. i \in 1..n /\ Rank(K, i) = Rank(K, i - 1) + 1 /\ Rank(K, i - 1) \in Nat
      /\ Rank(K, i) <= Cardinality(K) /\ Cardinality(K) \in Nat
  BY RankStep, PositionsFinite
<1>2. ASSUME NEW k \in K, Rank(K, k) = Rank(K, i) PROVE k = i
  <2>1. k \in 1..n /\ i \in 1..n /\ Rank(K, i) \in Nat /\ Rank(K, k) \in Nat
    BY PositionsFinite
  <2>2. k < i => Rank(K, k) < Rank(K, i)
    BY RankGrows
  <2>3. i < k => Rank(K, i) < Rank(K, k)
    BY RankGrows
  <2> QED
    BY <1>2, <2>1, <2>2, <2>3
<1> QED
  BY <1>1, <1>2

LEMMA PickedIs ==
  ASSUME NEW T, NEW s \in Seq(T), NEW K \in SUBSET DOMAIN s
  PROVE  /\ Picked(s, K) \in Seq(T) /\ Cardinality(K) \in Nat
         /\ Len(Picked(s, K)) = Cardinality(K)
         /\ DOMAIN Picked(s, K) = 1..Cardinality(K)
         /\ \A i \in K : Rank(K, i) \in 1..Cardinality(K) /\ Picked(s, K)[Rank(K, i)] = s[i]
         /\ \A m \in 1..Cardinality(K) : \E i \in K : Rank(K, i) = m /\ Picked(s, K)[m] = s[i]
<1>1. PICK n \in Nat : n = Len(s) /\ DOMAIN s = 1..n
  OBVIOUS
<1>2. K \in SUBSET (1..n)
  BY <1>1
<1>3. ASSUME NEW m \in 1..Cardinality(K)
      PROVE  \E i \in K : Rank(K, i) = m /\ Picked(s, K)[m] = s[i]
  <2>1. PICK i : i = CHOOSE k \in K : Rank(K, k) = m
    OBVIOUS
  <2>2. i \in K /\ Rank(K, i) = m
    BY <1>2, <2>1, RankReached
  <2>3. Picked(s, K)[m] = s[i]
    BY <2>1 DEF Picked
  <2> QED
    BY <2>2, <2>3
<1>4. ASSUME NEW i \in K
      PROVE  Rank(K, i) \in 1..Cardinality(K) /\ Picked(s, K)[Rank(K, i)] = s[i]
  <2>1. Rank(K, i) \in 1..Cardinality(K)
    BY <1>2, RankOne
  <2>2. PICK k \in K : Rank(K, k) = Rank(K, i) /\ Picked(s, K)[Rank(K, i)] = s[k]
    BY <1>3, <2>1
  <2>3. k = i
    BY <1>2, <2>2, RankOne
  <2> QED
    BY <2>1, <2>2, <2>3
<1>5. PICK c \in Nat : c = Cardinality(K)
  BY <1>2, PositionsFinite
<1>6. DOMAIN Picked(s, K) = 1..c /\ Picked(s, K) = [m \in 1..c |-> Picked(s, K)[m]]
  BY <1>5 DEF Picked
<1>7. \A m \in 1..c : Picked(s, K)[m] \in T
  BY <1>3, <1>5
<1>8. Picked(s, K) \in Seq(T) /\ Len(Picked(s, K)) = c
  <2>1. PICK f : f = Picked(s, K)
    OBVIOUS
  <2>2. f \in [1..c -> T]
    BY <1>6, <1>7, <2>1
  <2>3. f \in Seq(T) /\ Len(f) = c
    BY <2>2
  <2> QED
    BY <2>1, <2>3
<1> QED
  BY <1>3, <1>4, <1>5, <1>6, <1>8

\* What is picked, and that it is picked once.
LEMMA PickedElems ==
  ASSUME NEW T, NEW s \in Seq(T), NEW K \in SUBSET DOMAIN s
  PROVE  /\ Picked(s, K) \in Seq(T)
         /\ Elems(Picked(s, K)) = {s[i] : i \in K}
         /\ Distinct(s) => Distinct(Picked(s, K))
<1> DEFINE p == Picked(s, K)
<1>1. /\ p \in Seq(T) /\ DOMAIN p = 1..Cardinality(K)
      /\ \A i \in K : Rank(K, i) \in 1..Cardinality(K) /\ p[Rank(K, i)] = s[i]
      /\ \A m \in 1..Cardinality(K) : \E i \in K : Rank(K, i) = m /\ p[m] = s[i]
  BY PickedIs
<1> HIDE DEF p
<1>2. Elems(p) = {s[i] : i \in K}
  <2>1. \A x \in Elems(p) : x \in {s[i] : i \in K}
    BY <1>1 DEF Elems
  <2>2. \A i \in K : s[i] \in Elems(p)
    BY <1>1 DEF Elems
  <2> QED
    BY <2>1, <2>2
<1>3. ASSUME Distinct(s), NEW a \in DOMAIN p, NEW b \in DOMAIN p, p[a] = p[b] PROVE a = b
  <2>1. PICK i \in K : Rank(K, i) = a /\ p[a] = s[i]
    BY <1>1
  <2>2. PICK j \in K : Rank(K, j) = b /\ p[b] = s[j]
    BY <1>1
  <2>3. i = j
    BY <1>3, <2>1, <2>2 DEF Distinct
  <2> QED
    BY <2>1, <2>2, <2>3
<1>4. Distinct(s) => Distinct(p)
  BY <1>3 DEF Distinct
<1> QED
  BY <1>1, <1>2, <1>4 DEF p

\* Positions are picked whatever else the sequence holds.
LEMMA PickedSame ==
  ASSUME NEW n \in Nat, NEW K \in SUBSET (1..n), NEW s, NEW r, \A i \in K : r[i] = s[i]
  PROVE  Picked(r, K) = Picked(s, K)
<1>1. \A m \in 1..Cardinality(K) :
        r[CHOOSE i \in K : Rank(K, i) = m] = s[CHOOSE i \in K : Rank(K, i) = m]
  <2> SUFFICES ASSUME NEW m \in 1..Cardinality(K)
               PROVE  (CHOOSE i \in K : Rank(K, i) = m) \in K
    OBVIOUS
  <2> QED
    BY RankReached
<1> QED
  BY <1>1 DEF Picked

LEMMA RankChoice ==
  ASSUME NEW n \in Nat, NEW K \in SUBSET (1..n), NEW i \in K
  PROVE  (CHOOSE k \in K : Rank(K, k) = Rank(K, i)) = i
<1>1. PICK k : k = CHOOSE x \in K : Rank(K, x) = Rank(K, i)
  OBVIOUS
<1>2. k \in K /\ Rank(K, k) = Rank(K, i)
  BY <1>1
<1>3. k = i
  BY <1>2, RankOne
<1> QED
  BY <1>1, <1>3

\* t is q with e behind it.
OneMore(q, t, e) ==
  \E c \in Nat :
    /\ DOMAIN q = 1..c
    /\ DOMAIN t = 1..(c + 1)
    /\ \A m \in 1..c : t[m] = q[m]
    /\ t[c + 1] = e

\* One position more, behind all the others.
LEMMA PickedMore ==
  ASSUME NEW n \in Nat, NEW K \in SUBSET (1..n), NEW L, L = K \cup {n + 1},
         NEW s, NEW r, \A i \in K : r[i] = s[i]
  PROVE  OneMore(Picked(s, K), Picked(r, L), r[n + 1])
<1>1. PICK c \in Nat : c = Cardinality(K) /\ IsFiniteSet(K)
  BY PositionsFinite
<1>2. n + 1 \notin K /\ Cardinality(L) = c + 1 /\ L \in SUBSET (1..(n + 1)) /\ n + 1 \in Nat
  <2>1. n + 1 \notin K /\ L \in SUBSET (1..(n + 1)) /\ n + 1 \in Nat
    OBVIOUS
  <2>2. PICK x : x = n + 1
    OBVIOUS
  <2>3. Cardinality(K \cup {x}) = Cardinality(K) + 1
    BY <1>1, <2>1, <2>2, FS_AddElement
  <2> QED
    BY <1>1, <2>1, <2>2, <2>3
<1>3. Rank(L, n + 1) = c + 1
  <2>1. \A j \in L : j <= n + 1
    BY <1>2
  <2>2. {j \in L : j <= n + 1} = L
    BY <2>1
  <2> QED
    BY <1>2, <2>2 DEF Rank
<1>4. \A i \in K : Rank(L, i) = Rank(K, i)
  <2> SUFFICES ASSUME NEW i \in K PROVE {j \in L : j <= i} = {j \in K : j <= i}
    BY DEF Rank
  <2>1. i \in 1..n /\ ~ (n + 1 <= i)
    OBVIOUS
  <2> QED
    BY <2>1
<1>5. ASSUME NEW m \in 1..(c + 1), NEW i \in L, Rank(L, i) = m
      PROVE  (CHOOSE k \in L : Rank(L, k) = m) = i
  <2>1. PICK l \in Nat : l = n + 1
    OBVIOUS
  <2>2. L \in SUBSET (1..l) /\ i \in L
    BY <1>2, <1>5, <2>1
  <2>3. (CHOOSE k \in L : Rank(L, k) = Rank(L, i)) = i
    BY <2>2, RankChoice
  <2> QED
    BY <1>5, <2>3
<1>6. ASSUME NEW m \in 1..c PROVE Picked(r, L)[m] = Picked(s, K)[m]
  <2>1. PICK i : i = CHOOSE k \in K : Rank(K, k) = m
    OBVIOUS
  <2>2. i \in K /\ Rank(K, i) = m
    BY <1>1, <2>1, RankReached
  <2>3. m \in 1..(c + 1) /\ i \in L /\ Rank(L, i) = m
    <3>1. m \in 1..(c + 1)
      OBVIOUS
    <3> QED
      BY <1>4, <2>2, <3>1
  <2>4. Picked(r, L)[m] = r[i]
    BY <1>2, <1>5, <2>3 DEF Picked
  <2>5. Picked(s, K)[m] = s[i]
    BY <1>1, <2>1 DEF Picked
  <2> QED
    BY <2>2, <2>4, <2>5
<1>7. Picked(r, L)[c + 1] = r[n + 1]
  <2>1. c + 1 \in 1..(c + 1) /\ n + 1 \in L
    BY <1>1
  <2>2. (CHOOSE k \in L : Rank(L, k) = c + 1) = n + 1
    BY <1>3, <1>5, <2>1
  <2> QED
    BY <1>2, <2>1, <2>2 DEF Picked
<1>8. DOMAIN Picked(s, K) = 1..c /\ DOMAIN Picked(r, L) = 1..(c + 1)
  BY <1>1, <1>2 DEF Picked
<1> QED
  BY <1>6, <1>7, <1>8 DEF OneMore

-----------------------------------------------------------------------------
(***************************************************************************)
(* Lemmas about messages that are created.                                 *)
(***************************************************************************)
LEMMA SeqMono ==
  ASSUME NEW A, NEW B, NEW s \in Seq(A), \A i \in DOMAIN s : s[i] \in B
  PROVE  s \in Seq(B)
<1>1. PICK n \in Nat : n = Len(s) /\ DOMAIN s = 1..n
  OBVIOUS
<1>2. s \in [1..n -> B]
  BY <1>1
<1> QED
  BY <1>2

Records == [content : Contents, sent : BOOLEAN]

\* The new messages follow the others, and each is once in the queue.
LEMMA Appended ==
  ASSUME msgs \in Seq(Records), queue \in Seq(DOMAIN msgs),
         NEW k \in Nat, NEW news \in [1..k -> Records],
         msgs' = msgs \o news,
         NEW at \in [1..k -> Nat], \A i \in 1..k : at[i] = Len(msgs) + i,
         queue' = queue \o at
  PROVE  /\ msgs' \in Seq(Records)
         /\ queue' \in Seq(DOMAIN msgs')
         /\ DOMAIN msgs \subseteq DOMAIN msgs'
         /\ \A m \in DOMAIN msgs : msgs'[m] = msgs[m]
         /\ \A m \in DOMAIN msgs' \ DOMAIN msgs : \E i \in 1..k : msgs'[m] = news[i]
         /\ Elems(queue') = Elems(queue) \cup (DOMAIN msgs' \ DOMAIN msgs)
         /\ Distinct(queue) => Distinct(queue')
<1>1. PICK n \in Nat : n = Len(msgs) /\ DOMAIN msgs = 1..n
  OBVIOUS
<1>2. PICK l \in Nat : l = Len(queue) /\ DOMAIN queue = 1..l
  OBVIOUS
<1>3. news \in Seq(Records) /\ Len(news) = k /\ DOMAIN news = 1..k
  OBVIOUS
<1>4. /\ msgs \o news \in Seq(Records) /\ DOMAIN (msgs \o news) = 1..(n + k)
      /\ \A m \in 1..n : (msgs \o news)[m] = msgs[m]
      /\ \A m \in (n + 1)..(n + k) : (msgs \o news)[m] = news[m - n]
  <2>1. msgs \o news \in Seq(Records) /\ Len(msgs \o news) = n + k
    BY <1>1, <1>3, ConcatProperties
  <2>2. DOMAIN (msgs \o news) = 1..(n + k)
    BY <2>1
  <2>3. \A m \in 1..(n + k) : (msgs \o news)[m] = IF m <= n THEN msgs[m] ELSE news[m - n]
    BY <1>1, <1>3
  <2>4. /\ \A m \in 1..n : m \in 1..(n + k) /\ m <= n
        /\ \A m \in (n + 1)..(n + k) : m \in 1..(n + k) /\ ~ (m <= n)
    OBVIOUS
  <2> QED
    BY <2>1, <2>2, <2>3, <2>4
<1>5. at \in [1..k -> (n + 1)..(n + k)] /\ \A i \in 1..k : at[i] = n + i
  BY <1>1
<1>6. at \in Seq(Nat) /\ Len(at) = k
  BY <1>5
<1>7. queue \in Seq(Nat) /\ \A i \in 1..l : queue[i] \in 1..n
  <2>1. \A i \in 1..l : queue[i] \in 1..n
    BY <1>1, <1>2
  <2>2. queue \in [1..l -> Nat]
    BY <1>2, <2>1
  <2> QED
    BY <2>1, <2>2
<1>8. /\ queue \o at \in Seq(Nat) /\ DOMAIN (queue \o at) = 1..(l + k)
      /\ \A i \in 1..l : (queue \o at)[i] = queue[i]
      /\ \A i \in (l + 1)..(l + k) : (queue \o at)[i] = n + (i - l)
  <2>1. /\ queue \o at \in Seq(Nat) /\ DOMAIN (queue \o at) = 1..(l + k)
        /\ \A i \in 1..l : (queue \o at)[i] = queue[i]
        /\ \A i \in (l + 1)..(l + k) : (queue \o at)[i] = at[i - l]
    <3>1. queue \o at \in Seq(Nat) /\ Len(queue \o at) = l + k
      BY <1>2, <1>6, <1>7, ConcatProperties
    <3>2. DOMAIN (queue \o at) = 1..(l + k)
      BY <3>1
    <3>3. \A i \in 1..(l + k) : (queue \o at)[i] = IF i <= l THEN queue[i] ELSE at[i - l]
      BY <1>2, <1>6, <1>7, ConcatProperties
    <3>4. /\ \A i \in 1..l : i \in 1..(l + k) /\ i <= l
          /\ \A i \in (l + 1)..(l + k) : i \in 1..(l + k) /\ ~ (i <= l)
      OBVIOUS
    <3> QED
      BY <3>1, <3>2, <3>3, <3>4
  <2>2. \A i \in (l + 1)..(l + k) : i - l \in 1..k
    OBVIOUS
  <2> QED
    BY <1>5, <2>1, <2>2
<1> DEFINE s == queue'
<1>s. s = queue \o at
  OBVIOUS
<1> HIDE DEF s
<1>9. /\ s \in Seq(Nat) /\ DOMAIN s = 1..(l + k)
      /\ \A i \in 1..l : s[i] = queue[i]
      /\ \A i \in (l + 1)..(l + k) : s[i] = n + (i - l)
  BY <1>8, <1>s
<1>10. s \in Seq(1..(n + k))
  <2>1. \A i \in 1..(l + k) : s[i] \in 1..(n + k)
    <3> TAKE i \in 1..(l + k)
    <3>1. CASE i \in 1..l
      <4>1. s[i] \in 1..n
        BY <1>7, <1>9, <3>1
      <4>2. \A x \in 1..n : x \in 1..(n + k)
        OBVIOUS
      <4> QED
        BY <4>1, <4>2
    <3>2. CASE i \in (l + 1)..(l + k)
      BY <1>9, <3>2
    <3> QED
      BY <3>1, <3>2
  <2> QED
    BY <1>9, <2>1, SeqMono
<1>11. Elems(s) = Elems(queue) \cup ((n + 1)..(n + k))
  <2>1. ASSUME NEW x \in Elems(s) PROVE x \in Elems(queue) \cup ((n + 1)..(n + k))
    <3>1. PICK i \in 1..(l + k) : x = s[i]
      BY <1>9 DEF Elems
    <3>2. CASE i \in 1..l
      BY <1>2, <1>9, <3>1, <3>2 DEF Elems
    <3>3. CASE i \in (l + 1)..(l + k)
      BY <1>9, <3>1, <3>3
    <3> QED
      BY <3>2, <3>3
  <2>2. ASSUME NEW x \in Elems(queue) PROVE x \in Elems(s)
    <3>1. PICK i \in 1..l : x = queue[i]
      BY <1>2 DEF Elems
    <3>2. i \in 1..(l + k)
      OBVIOUS
    <3> QED
      BY <1>9, <3>1, <3>2 DEF Elems
  <2>3. ASSUME NEW x \in (n + 1)..(n + k) PROVE x \in Elems(s)
    <3>1. PICK i : i = l + (x - n)
      OBVIOUS
    <3>2. i \in (l + 1)..(l + k) /\ n + (i - l) = x /\ i \in 1..(l + k)
      BY <3>1
    <3> QED
      BY <1>9, <3>2 DEF Elems
  <2> QED
    BY <2>1, <2>2, <2>3
<1>12. Distinct(queue) => Distinct(s)
  <2> SUFFICES ASSUME Distinct(queue), NEW i \in 1..(l + k), NEW j \in 1..(l + k), s[i] = s[j]
               PROVE  i = j
    BY <1>9 DEF Distinct
  <2>1. CASE i \in 1..l /\ j \in 1..l
    BY <1>2, <1>9, <2>1 DEF Distinct
  <2>2. CASE i \in 1..l /\ j \in (l + 1)..(l + k)
    <3>1. s[i] \in 1..n /\ s[j] = n + (j - l)
      BY <1>7, <1>9, <2>2
    <3> QED
      BY <2>2, <3>1
  <2>3. CASE j \in 1..l /\ i \in (l + 1)..(l + k)
    <3>1. s[j] \in 1..n /\ s[i] = n + (i - l)
      BY <1>7, <1>9, <2>3
    <3> QED
      BY <2>3, <3>1
  <2>4. CASE i \in (l + 1)..(l + k) /\ j \in (l + 1)..(l + k)
    <3>1. n + (i - l) = n + (j - l)
      BY <1>9, <2>4
    <3> QED
      BY <2>4, <3>1
  <2> QED
    BY <2>1, <2>2, <2>3, <2>4
<1>13. /\ 1..n \subseteq 1..(n + k)
       /\ (1..(n + k)) \ (1..n) = (n + 1)..(n + k)
       /\ \A m \in (n + 1)..(n + k) : m - n \in 1..k
  OBVIOUS
<1> QED
  BY <1>1, <1>4, <1>10, <1>11, <1>12, <1>13 DEF s

-----------------------------------------------------------------------------
(***************************************************************************)
(* What a step leaves alone.                                               *)
(***************************************************************************)
\* The messages there were keep their content.
Grown == Created \subseteq Created' /\ \A m \in Created : msgs'[m] = msgs[m]

FrameSet(C) == [msg : C \cup {0}, content : Contents, peek : Wants, got : C \cup {0}]

LEMMA FrameIs ==
  ASSUME NEW C, NEW r
  PROVE  /\ r \in FrameSet(C) => /\ r.msg \in C \cup {0} /\ r.content \in Contents
                                /\ r.peek \in Wants /\ r.got \in C \cup {0}
         /\ \A D : C \subseteq D /\ r \in FrameSet(C) => r \in FrameSet(D)
<1>1. ASSUME r \in FrameSet(C)
      PROVE  /\ r.msg \in C \cup {0} /\ r.content \in Contents /\ r.peek \in Wants /\ r.got \in C \cup {0}
             /\ r = [msg |-> r.msg, content |-> r.content, peek |-> r.peek, got |-> r.got]
  BY <1>1 DEF FrameSet
<1>2. ASSUME NEW D, C \subseteq D, r \in FrameSet(C) PROVE r \in FrameSet(D)
  <2>1. r.msg \in D \cup {0} /\ r.got \in D \cup {0}
    BY <1>1, <1>2
  <2> QED
    BY <1>1, <1>2, <2>1 DEF FrameSet
<1> QED
  BY <1>1, <1>2

LEMMA TypesGrow ==
  ASSUME NEW C, NEW D, C \subseteq D, NEW st \in Seq(C), NEW fr \in Seq(FrameSet(C))
  PROVE  st \in Seq(D) /\ fr \in Seq(FrameSet(D))
<1>1. st \in Seq(D)
  <2>1. \A i \in DOMAIN st : st[i] \in D
    OBVIOUS
  <2> QED
    BY <2>1, SeqMono
<1>2. \A i \in DOMAIN fr : fr[i] \in FrameSet(C)
  OBVIOUS
<1>3. \A i \in DOMAIN fr : fr[i] \in FrameSet(D)
  BY <1>2, FrameIs
<1>4. fr \in Seq(FrameSet(D))
  BY <1>3, SeqMono
<1> QED
  BY <1>1, <1>4

LEMMA FramesAre ==
  ASSUME TypeOK
  PROVE  /\ frames \in Seq(FrameSet(Created))
         /\ \A i \in DOMAIN frames :
              /\ frames[i].msg \in Created \cup {0} /\ frames[i].content \in Contents
              /\ frames[i].peek \in Wants /\ frames[i].got \in Created \cup {0}
<1>1. frames \in Seq(FrameSet(Created))
  BY DEF TypeOK, FrameSet
<1>2. \A i \in DOMAIN frames : frames[i] \in FrameSet(Created)
  BY <1>1
<1> QED
  BY <1>1, <1>2, FrameIs

LEMMA CreatedIs ==
  ASSUME msgs \in Seq(Records)
  PROVE  /\ 0 \notin Created
         /\ \A m \in Created : msgs[m] \in Records /\ msgs[m].content \in Contents
<1>1. PICK n \in Nat : n = Len(msgs) /\ DOMAIN msgs = 1..n
  OBVIOUS
<1>2. 0 \notin Created
  BY <1>1 DEF Created
<1>3. \A m \in Created : msgs[m] \in Records
  BY DEF Created
<1>4. \A r \in Records : r.content \in Contents
  BY DEF Records
<1> QED
  BY <1>2, <1>3, <1>4

\* Messages are created and queued: postMsg, and event2Msg's timers.
LEMMA NewMessages ==
  ASSUME IInv,
         NEW k \in Nat, NEW news \in [1..k -> Records],
         \A i \in 1..k : news[i].content \in Posts \cup timers,
         msgs' = msgs \o news,
         queue' = queue \o [i \in 1..k |-> Len(msgs) + i],
         \/ evt' = TRUE /\ pc' = pc
         \/ evt' = FALSE /\ pc = "peek" /\ pc' = "scan"
         \/ evt' = FALSE /\ pc = "wait" /\ pc' = "peek",
         UNCHANGED <<owned, timers, dead, tasks, frames, want, got, calls, misled>>
  PROVE  IInv'
<1> USE DEF IInv
<1>1. TypeOK /\ Owned /\ Once
  OBVIOUS
<1>2. msgs \in Seq(Records) /\ queue \in Seq(DOMAIN msgs)
  BY <1>1 DEF TypeOK, Records, Created
<1>3. /\ msgs' \in Seq(Records)
      /\ queue' \in Seq(DOMAIN msgs')
      /\ DOMAIN msgs \subseteq DOMAIN msgs'
      /\ \A m \in DOMAIN msgs : msgs'[m] = msgs[m]
      /\ \A m \in DOMAIN msgs' \ DOMAIN msgs : \E i \in 1..k : msgs'[m] = news[i]
      /\ Elems(queue') = Elems(queue) \cup (DOMAIN msgs' \ DOMAIN msgs)
      /\ Distinct(queue) => Distinct(queue')
  <2> HIDE DEF IInv
  <2>1. PICK at : at = [i \in 1..k |-> Len(msgs) + i]
    OBVIOUS
  <2>2. Len(msgs) \in Nat
    BY <1>2
  <2>3. at \in [1..k -> Nat] /\ \A i \in 1..k : at[i] = Len(msgs) + i
    BY <2>1, <2>2
  <2>4. queue' = queue \o at /\ msgs' = msgs \o news
    BY <2>1
  <2> QED
    BY <1>2, <2>3, <2>4, Appended
<1>4. /\ msgs' \in Seq(Records)
      /\ queue' \in Seq(Created')
      /\ Grown
      /\ \A m \in Created' \ Created : \E i \in 1..k : msgs'[m] = news[i]
      /\ Elems(queue') = Elems(queue) \cup (Created' \ Created)
      /\ Distinct(queue) => Distinct(queue')
  BY <1>3 DEF Grown, Created
<1>5. 0 \notin Created /\ \A m \in Created : msgs[m].content \in Contents
  BY <1>2, CreatedIs
<1>6. TypeOK'
  <2>1. /\ msgStack \in Seq(Created)
        /\ frames \in Seq(FrameSet(Created))
        /\ Created \subseteq Created'
    BY <1>1, <1>4, FramesAre DEF TypeOK, Grown
  <2>2. /\ msgStack \in Seq(Created')
        /\ frames \in Seq(FrameSet(Created'))
    BY <2>1, TypesGrow
  <2>3. /\ msgs' \in Seq([content : Contents, sent : BOOLEAN]) /\ queue' \in Seq(Created')
        /\ evt' \in BOOLEAN /\ pc' \in {"app", "peek", "scan", "wait", "got"}
    BY <1>1, <1>4 DEF TypeOK, Records
  <2>4. /\ msgPeek \in Created' \cup {0} /\ freed \subseteq Created' /\ answered \subseteq Created'
        /\ got \in Created' \cup {0}
    BY <1>1, <2>1 DEF TypeOK
  <2> QED
    BY <1>1, <2>2, <2>3, <2>4 DEF TypeOK, FrameSet, owned
<1>7. Once' /\ InTimer' = InTimer /\ Stale' = Stale /\ IsFiniteSet(timers')
  <2>1. InTimer' = InTimer /\ Stale' = Stale /\ TimerFrames' = TimerFrames
    BY DEF TimerFrames, InTimer, Stale, owned
  <2>2. Distinct(queue)' /\ Distinct(msgStack)'
    BY <1>1, <1>4 DEF Once, Distinct, owned
  <2>3. TimerOnce'
    BY <1>1, <2>1 DEF Once, TimerOnce
  <2>4. IsFiniteSet(timers')
    OBVIOUS
  <2> QED
    BY <2>1, <2>2, <2>3, <2>4 DEF Once
<1>8. Owned'
  <2>1. Elems(queue)' = Elems(queue) \cup (Created' \ Created) /\ Elems(msgStack)' = Elems(msgStack)
    BY <1>4 DEF owned
  <2>2. /\ Apart(Elems(queue), Stale, Elems(msgStack), InTimer, freed, Created)
        /\ Created \subseteq Created'
    BY <1>1, <1>4 DEF Owned, Grown
  <2>3. Apart(Elems(queue'), Stale, Elems(msgStack), InTimer, freed, Created')
    BY <1>4, <2>1, <2>2 DEF Apart
  <2> QED
    BY <1>7, <2>1, <2>3 DEF Owned, owned
<1>9. Got' /\ Framed'
  <2>1. msgPeek \in Created \cup {0} /\ got \in Created \cup {0} /\ \A i \in DOMAIN frames : frames[i].msg \in Created \cup {0}
    BY <1>1, FramesAre DEF TypeOK
  <2>2. \A m \in Created : msgs'[m] = msgs[m]
    BY <1>4 DEF Grown
  <2>3. Got'
    BY <2>1, <2>2 DEF Got, Destroyed, owned
  <2>4. Framed'
    BY <2>1, <2>2 DEF Framed
  <2> QED
    BY <2>3, <2>4
<1>10. Handled'
  <2>1. Handling' = Handling /\ (NotNested => NotNested')
    BY DEF Handling, Dispatched, NotNested
  <2> QED
    BY <2>1 DEF Handled, owned
<1>11. NoLostWakeup'
  BY DEF NoLostWakeup
<1>12. QueuedTimerIsSet'
  <2> SUFFICES ASSUME NEW m \in Elems(queue'), msgs'[m].content \notin Posts
               PROVE  msgs'[m].content \in timers \/ WindowOf[msgs'[m].content] \in dead
    BY DEF QueuedTimerIsSet, Destroyed
  <2>1. CASE m \in Elems(queue)
    <3>1. m \in Created
      BY <1>1, <2>1 DEF Owned, Apart
    <3>2. msgs'[m] = msgs[m]
      BY <1>4, <3>1 DEF Grown
    <3> QED
      BY <2>1, <3>2 DEF QueuedTimerIsSet, Destroyed
  <2>2. CASE m \in Created' \ Created
    BY <1>4, <2>2
  <2> QED
    BY <1>4, <2>1, <2>2
<1> QED
  BY <1>6, <1>7, <1>8, <1>9, <1>10, <1>11, <1>12

LEMMA PostMsgStep ==
  ASSUME IInv, NEW c \in Posts, NEW sent \in BOOLEAN, PostMsg(c, sent)
  PROVE  IInv'
<1>1. PICK r : r = [content |-> c, sent |-> sent]
  OBVIOUS
<1>2. r \in Records /\ r.content = c
  BY <1>1 DEF Records, Contents
<1>3. PICK news : news = [i \in 1..1 |-> r]
  OBVIOUS
<1>4. news \in [1..1 -> Records] /\ 1 \in Nat /\ \A i \in 1..1 : news[i].content \in Posts \cup timers
  BY <1>2, <1>3
<1>5. msgs \in Seq(Records) /\ queue \in Seq(Nat) /\ Len(msgs) + 1 \in Nat
  <2>1. msgs \in Seq(Records) /\ queue \in Seq(DOMAIN msgs)
    BY DEF IInv, TypeOK, Records, Created
  <2>2. \A i \in DOMAIN queue : queue[i] \in Nat
    BY <2>1
  <2> QED
    BY <2>1, <2>2, SeqMono
<1>6. msgs' = msgs \o news
  <2>1. Append(msgs, r) = msgs \o <<r>>
    BY <1>2, <1>5, AppendIsConcat
  <2>2. <<r>> = news
    BY <1>3
  <2> QED
    BY <1>1, <2>1, <2>2 DEF PostMsg
<1>7. queue' = queue \o [i \in 1..1 |-> Len(msgs) + i]
  <2>1. Append(queue, Len(msgs) + 1) = queue \o <<Len(msgs) + 1>>
    BY <1>5, AppendIsConcat
  <2>2. <<Len(msgs) + 1>> = [i \in 1..1 |-> Len(msgs) + i]
    BY <1>5
  <2> QED
    BY <2>1, <2>2 DEF PostMsg
<1>8. /\ evt' = TRUE /\ pc' = pc
      /\ UNCHANGED <<owned, timers, dead, tasks, frames, want, got, calls, misled>>
  BY DEF PostMsg, thread
<1> QED
  BY <1>4, <1>6, <1>7, <1>8, NewMessages

LEMMA FireTimersStep ==
  ASSUME IInv, NEW due \in SUBSET timers, FireTimers(due),
         \/ evt' = FALSE /\ pc = "peek" /\ pc' = "scan"
         \/ evt' = FALSE /\ pc = "wait" /\ pc' = "peek",
         UNCHANGED <<owned, timers, dead, tasks, frames, want, got, calls, misled>>
  PROVE  IInv'
<1>1. IsFiniteSet(due)
  <2>1. IsFiniteSet(timers)
    BY DEF IInv
  <2> QED
    BY <2>1, FS_Subset
<1>2. PICK k \in Nat : k = Cardinality(due) /\ ExistsBijection(1..k, due)
  BY <1>1, FS_CardinalityType
<1>3. PICK fired : fired = SetToSeq(due)
  OBVIOUS
<1>4. fired \in [1..k -> due]
  <2>1. \E f \in [1..k -> due] : IsInjective(f)
    BY <1>2 DEF ExistsBijection, Bijection, Injection
  <2> QED
    BY <1>2, <1>3, <2>1 DEF SetToSeq
<1>5. PICK news : news = [i \in 1..k |-> [content |-> fired[i], sent |-> FALSE]]
  OBVIOUS
<1>6. timers \subseteq Contents
  BY DEF IInv, TypeOK, Contents
<1>7. \A i \in 1..k : news[i] \in Records /\ news[i].content \in timers
  BY <1>4, <1>5, <1>6 DEF Records
<1>8. news \in [1..k -> Records]
  BY <1>5, <1>7
<1>9. msgs' = msgs \o news /\ queue' = queue \o [i \in 1..k |-> Len(msgs) + i]
  BY <1>3, <1>4, <1>5 DEF FireTimers
<1> QED
  BY <1>7, <1>8, <1>9, NewMessages

-----------------------------------------------------------------------------
(***************************************************************************)
(* Lemmas about pushing, popping and removing.                             *)
(***************************************************************************)
LEMMA Pushed ==
  ASSUME NEW T, NEW s \in Seq(T), NEW e \in T
  PROVE  /\ Append(s, e) \in Seq(T)
         /\ Len(s) \in Nat /\ DOMAIN s = 1..Len(s)
         /\ DOMAIN Append(s, e) = 1..(Len(s) + 1)
         /\ \A i \in 1..Len(s) : i # Len(s) + 1 /\ i < Len(s) + 1 /\ Append(s, e)[i] = s[i]
         /\ Append(s, e)[Len(s) + 1] = e
         /\ Elems(Append(s, e)) = Elems(s) \cup {e}
         /\ Distinct(s) /\ e \notin Elems(s) => Distinct(Append(s, e))
<1>1. PICK n \in Nat : n = Len(s) /\ DOMAIN s = 1..n
  OBVIOUS
<1>2. PICK a : a = Append(s, e)
  OBVIOUS
<1>3. /\ a \in Seq(T) /\ DOMAIN a = 1..(n + 1) /\ \A i \in 1..n : a[i] = s[i]
      /\ a[n + 1] = e
  <2>1. a \in Seq(T) /\ Len(a) = n + 1
    BY <1>1, <1>2, AppendProperties
  <2>2. DOMAIN a = 1..(n + 1)
    BY <2>1
  <2> QED
    BY <1>1, <1>2, <2>1, <2>2, AppendProperties
<1>4. (\A i \in 1..n : i # n + 1 /\ i < n + 1 /\ i \in 1..(n + 1)) /\ \A i \in 1..(n + 1) : i \in 1..n \/ i = n + 1
  OBVIOUS
<1>5. n + 1 \in 1..(n + 1)
  OBVIOUS
<1>6. Elems(a) = Elems(s) \cup {e}
  <2>1. \A x \in Elems(a) : x \in Elems(s) \cup {e}
    BY <1>1, <1>3, <1>4 DEF Elems
  <2>2. \A x \in Elems(s) : x \in Elems(a)
    BY <1>1, <1>3, <1>4 DEF Elems
  <2>3. e \in Elems(a)
    BY <1>3, <1>5 DEF Elems
  <2> QED
    BY <2>1, <2>2, <2>3
<1>7. ASSUME Distinct(s), e \notin Elems(s) PROVE Distinct(a)
  <2>1. \A i \in 1..n : s[i] # e
    BY <1>1, <1>7 DEF Elems
  <2> SUFFICES ASSUME NEW i \in 1..(n + 1), NEW j \in 1..(n + 1), a[i] = a[j] PROVE i = j
    BY <1>3 DEF Distinct
  <2>2. CASE i \in 1..n /\ j \in 1..n
    BY <1>1, <1>3, <1>7, <2>2 DEF Distinct
  <2>3. CASE i \in 1..n /\ j = n + 1
    BY <1>3, <2>1, <2>3
  <2>4. CASE i = n + 1 /\ j \in 1..n
    BY <1>3, <2>1, <2>4
  <2> QED
    BY <1>4, <2>2, <2>3, <2>4
<1> QED
  BY <1>1, <1>2, <1>3, <1>4, <1>6, <1>7

LEMMA Popped ==
  ASSUME NEW T, NEW s \in Seq(T), s # << >>
  PROVE  /\ Front(s) \in Seq(T) /\ Last(s) \in T
         /\ Len(s) \in Nat /\ Len(s) - 1 \in Nat /\ Len(s) \in DOMAIN s /\ Last(s) = s[Len(s)]
         /\ DOMAIN s = 1..((Len(s) - 1) + 1) /\ (Len(s) - 1) + 1 = Len(s)
         /\ DOMAIN Front(s) = 1..(Len(s) - 1)
         /\ \A i \in 1..(Len(s) - 1) : i \in DOMAIN s /\ i # Len(s) /\ i < Len(s) /\ Front(s)[i] = s[i]
         /\ \A i \in DOMAIN s : i \in 1..(Len(s) - 1) \/ i = Len(s)
         /\ Distinct(s) => Distinct(Front(s)) /\ Elems(Front(s)) = Elems(s) \ {Last(s)}
         /\ Last(s) \in Elems(s)
<1>1. PICK n \in Nat : n = Len(s) - 1 /\ Len(s) = n + 1 /\ DOMAIN s = 1..(n + 1)
  OBVIOUS
<1>2. PICK f : f = Front(s)
  OBVIOUS
<1>3. f \in Seq(T) /\ Len(f) = n /\ \A i \in 1..n : f[i] = s[i]
  BY <1>1, <1>2 DEF Front
<1>4. DOMAIN f = 1..n
  BY <1>3
<1>5. /\ \A i \in 1..n : i \in 1..(n + 1) /\ i # n + 1 /\ i < n + 1
      /\ \A i \in 1..(n + 1) : i \in 1..n \/ i = n + 1
      /\ n + 1 \in 1..(n + 1)
  OBVIOUS
<1>6. Last(s) = s[n + 1] /\ Last(s) \in T
  BY <1>1, <1>5 DEF Last
<1>7. ASSUME Distinct(s) PROVE Distinct(f) /\ Elems(f) = Elems(s) \ {Last(s)}
  <2>1. Distinct(f)
    BY <1>1, <1>3, <1>4, <1>5, <1>7 DEF Distinct
  <2>2. \A i \in 1..n : s[i] # s[n + 1]
    BY <1>1, <1>5, <1>7 DEF Distinct
  <2>3. \A x \in Elems(f) : x \in Elems(s) /\ x # Last(s)
    BY <1>1, <1>3, <1>4, <1>5, <1>6, <2>2 DEF Elems
  <2>4. \A x \in Elems(s) : x # Last(s) => x \in Elems(f)
    BY <1>1, <1>3, <1>4, <1>5, <1>6 DEF Elems
  <2> QED
    BY <2>1, <2>3, <2>4
<1>8. Last(s) \in Elems(s)
  BY <1>1, <1>5, <1>6 DEF Elems
<1>9. /\ Len(s) \in Nat /\ Len(s) - 1 \in Nat /\ Len(s) - 1 = n /\ Len(s) = n + 1
      /\ (Len(s) - 1) + 1 = Len(s)
  BY <1>1
<1>10. /\ DOMAIN s = 1..((Len(s) - 1) + 1) /\ Len(s) \in DOMAIN s /\ Last(s) = s[Len(s)]
       /\ DOMAIN f = 1..(Len(s) - 1)
       /\ \A i \in 1..(Len(s) - 1) : i \in DOMAIN s /\ i # Len(s) /\ i < Len(s) /\ f[i] = s[i]
       /\ \A i \in DOMAIN s : i \in 1..(Len(s) - 1) \/ i = Len(s)
  <2>1. /\ DOMAIN s = 1..(n + 1) /\ n + 1 \in DOMAIN s /\ Last(s) = s[n + 1]
        /\ DOMAIN f = 1..n
        /\ \A i \in 1..n : i \in DOMAIN s /\ i # n + 1 /\ i < n + 1 /\ f[i] = s[i]
        /\ \A i \in DOMAIN s : i \in 1..n \/ i = n + 1
    BY <1>1, <1>3, <1>4, <1>5, <1>6
  <2> QED
    BY <1>9, <2>1
<1> QED
  BY <1>2, <1>3, <1>6, <1>7, <1>8, <1>9, <1>10

\* What is not in G stays in the queue, in its order.
LEMMA Shrunk ==
  ASSUME queue \in Seq(Created), Distinct(queue), NEW G,
         queue' = Picked(queue, {i \in DOMAIN queue : queue[i] \notin G})
  PROVE  queue' \in Seq(Created) /\ Distinct(queue') /\ Elems(queue') = Elems(queue) \ G
<1>1. PICK K : K = {i \in DOMAIN queue : queue[i] \notin G}
  OBVIOUS
<1>2. K \in SUBSET DOMAIN queue /\ queue' = Picked(queue, K)
  BY <1>1
<1>3. queue' \in Seq(Created) /\ Distinct(queue') /\ Elems(queue') = {queue[i] : i \in K}
  <2>1. /\ Picked(queue, K) \in Seq(Created)
        /\ Elems(Picked(queue, K)) = {queue[i] : i \in K}
        /\ Distinct(queue) => Distinct(Picked(queue, K))
    BY <1>2, PickedElems
  <2> QED
    BY <1>2, <2>1
<1>4. {queue[i] : i \in K} = Elems(queue) \ G
  BY <1>1 DEF Elems
<1> QED
  BY <1>3, <1>4

-----------------------------------------------------------------------------
(***************************************************************************)
(* Lemmas about the frames of the thread.                                  *)
(***************************************************************************)
HandledFrames == {i \in DOMAIN frames : frames[i].msg # 0 /\ frames[i].content \notin ProcTimers}

MsgsOf(s, K) == [m \in DOMAIN Picked(s, K) |-> Picked(s, K)[m].msg]

LEMMA MsgsAre ==
  ASSUME NEW C, NEW fr \in Seq(FrameSet(C)), NEW K \in SUBSET DOMAIN fr, \A i \in K : fr[i].msg # 0
  PROVE  /\ MsgsOf(fr, K) \in Seq(C)
         /\ \A n \in DOMAIN MsgsOf(fr, K) : \E i \in K : MsgsOf(fr, K)[n] = fr[i].msg
<1>1. /\ Cardinality(K) \in Nat
      /\ DOMAIN Picked(fr, K) = 1..Cardinality(K)
      /\ \A m \in 1..Cardinality(K) : \E i \in K : Picked(fr, K)[m] = fr[i]
  BY PickedIs
<1>2. PICK c \in Nat : c = Cardinality(K)
  BY <1>1
<1>3. PICK h : h = MsgsOf(fr, K)
  OBVIOUS
<1>4. DOMAIN h = 1..c /\ h = [m \in 1..c |-> h[m]] /\ \A m \in 1..c : h[m] = Picked(fr, K)[m].msg
  BY <1>1, <1>2, <1>3 DEF MsgsOf
<1>5. \A m \in 1..c : \E i \in K : h[m] = fr[i].msg
  BY <1>1, <1>2, <1>4
<1>6. \A i \in K : fr[i].msg \in C
  <2>1. \A i \in DOMAIN fr : fr[i] \in FrameSet(C)
    OBVIOUS
  <2> QED
    BY <2>1, FrameIs
<1>7. h \in [1..c -> C]
  BY <1>4, <1>5, <1>6
<1>8. h \in Seq(C)
  BY <1>7
<1> QED
  BY <1>3, <1>4, <1>5, <1>8

LEMMA HandlingIs ==
  ASSUME frames \in Seq(FrameSet(Created))
  PROVE  /\ Handling \in Seq(Created)
         /\ \A n \in DOMAIN Handling : \E i \in HandledFrames : Handling[n] = frames[i].msg
<1>1. HandledFrames \in SUBSET DOMAIN frames /\ \A i \in HandledFrames : frames[i].msg # 0
  BY DEF HandledFrames
<1>2. Handling = MsgsOf(frames, HandledFrames)
  BY DEF Handling, MsgsOf, Dispatched, HandledFrames
<1> QED
  BY <1>1, <1>2, MsgsAre

\* The same after a step that creates no message.
LEMMA HandlingNext ==
  ASSUME frames' \in Seq(FrameSet(Created))
  PROVE  Handling' \in Seq(Created)
<1>1. HandledFrames' \in SUBSET DOMAIN frames' /\ \A i \in HandledFrames' : frames'[i].msg # 0
  BY DEF HandledFrames
<1>2. Handling' = MsgsOf(frames', HandledFrames')
  BY DEF Handling, MsgsOf, Dispatched, HandledFrames
<1> QED
  BY <1>1, <1>2, MsgsAre

\* The frames below do not change with the one on top.
LEMMA HandlingSame ==
  ASSUME NEW n \in Nat, NEW K \in SUBSET (1..n), NEW lo, NEW hi, \A i \in K : hi[i] = lo[i]
  PROVE  MsgsOf(hi, K) = MsgsOf(lo, K)
<1>1. Picked(hi, K) = Picked(lo, K)
  BY PickedSame
<1> QED
  BY <1>1 DEF MsgsOf

IsPush(a, b, e) == b = Append(a, e)

LEMMA HandlingMore ==
  ASSUME NEW n \in Nat, NEW K \in SUBSET (1..n), NEW L, L = K \cup {n + 1},
         NEW lo, NEW hi, \A i \in K : hi[i] = lo[i],
         NEW T, MsgsOf(lo, K) \in Seq(T), hi[n + 1].msg \in T
  PROVE  IsPush(MsgsOf(lo, K), MsgsOf(hi, L), hi[n + 1].msg)
<1>2. PICK c \in Nat :
        /\ DOMAIN Picked(lo, K) = 1..c
        /\ DOMAIN Picked(hi, L) = 1..(c + 1)
        /\ \A m \in 1..c : Picked(hi, L)[m] = Picked(lo, K)[m]
        /\ Picked(hi, L)[c + 1] = hi[n + 1]
  <2>1. OneMore(Picked(lo, K), Picked(hi, L), hi[n + 1])
    BY PickedMore
  <2> QED
    BY <2>1 DEF OneMore
<1>3. PICK a : a = MsgsOf(lo, K)
  OBVIOUS
<1>4. PICK b : b = MsgsOf(hi, L)
  OBVIOUS
<1>5. a \in Seq(T) /\ DOMAIN a = 1..c /\ Len(a) = c
  <2>1. a \in Seq(T) /\ DOMAIN a = 1..c
    BY <1>2, <1>3 DEF MsgsOf
  <2> QED
    BY <2>1
<1>6. DOMAIN b = 1..(c + 1) /\ (\A m \in 1..(c + 1) : b[m] = Picked(hi, L)[m].msg)
      /\ b = [m \in 1..(c + 1) |-> b[m]]
  BY <1>2, <1>4 DEF MsgsOf
<1>7. \A m \in 1..c : m \in 1..(c + 1) /\ a[m] = Picked(lo, K)[m].msg
  BY <1>2, <1>3 DEF MsgsOf
<1>8. \A m \in 1..c : b[m] = a[m]
  BY <1>2, <1>6, <1>7
<1>9. b[c + 1] = hi[n + 1].msg
  <2>1. c + 1 \in 1..(c + 1)
    OBVIOUS
  <2> QED
    BY <1>2, <1>6, <2>1
<1>10. PICK e \in T : e = hi[n + 1].msg
  OBVIOUS
<1>11. b = Append(a, e)
  <2>1. /\ Append(a, e) \in Seq(T) /\ DOMAIN Append(a, e) = 1..(c + 1)
        /\ \A m \in 1..c : Append(a, e)[m] = a[m]
        /\ Append(a, e)[c + 1] = e
    BY <1>5, Pushed
  <2>2. \A m \in 1..(c + 1) : m \in 1..c \/ m = c + 1
    OBVIOUS
  <2>3. \A m \in 1..(c + 1) : b[m] = Append(a, e)[m]
    BY <1>8, <1>9, <1>10, <2>1, <2>2
  <2>4. PICK g : g = Append(a, e)
    OBVIOUS
  <2>5. g \in Seq(T) /\ DOMAIN g = 1..(c + 1)
    BY <2>1, <2>4
  <2>6. g = [m \in 1..(c + 1) |-> g[m]]
    BY <2>5
  <2> QED
    BY <1>6, <2>3, <2>4, <2>6
<1> QED
  BY <1>3, <1>4, <1>10, <1>11 DEF IsPush

LEMMA PushFrame ==
  ASSUME TypeOK, msgs' = msgs, NEW r \in FrameSet(Created), frames' = Append(frames, r)
  PROVE  /\ frames' \in Seq(FrameSet(Created))
         /\ r.content \notin ProcTimers =>
              InTimer' = InTimer /\ (TimerOnce => TimerOnce')
         /\ r.content \in ProcTimers =>
              /\ InTimer' = InTimer \cup {r.msg}
              /\ TimerOnce /\ r.msg \notin InTimer => TimerOnce'
         /\ r.msg = 0 \/ r.content \in ProcTimers => Handling' = Handling
         /\ r.msg # 0 /\ r.content \notin ProcTimers => Handling' = Append(Handling, r.msg)
         /\ /\ Framed /\ r.got = 0
            /\ r.msg # 0 => msgs[r.msg].content = r.content
            /\ r.content \in ProcTimers => r.msg # 0
            => Framed'
         /\ /\ NotNested
            /\ r.msg = 0 =>
                 \A j \in DOMAIN frames : frames[j].msg # 0 => frames[j].content # r.content
            => NotNested'
<1>1. PICK n \in Nat : n = Len(frames) /\ DOMAIN frames = 1..n
  BY DEF TypeOK
<1>2. /\ frames' \in Seq(FrameSet(Created)) /\ DOMAIN frames' = 1..(n + 1)
      /\ \A i \in 1..n : i # n + 1 /\ i < n + 1 /\ frames'[i] = frames[i]
      /\ frames'[n + 1] = r
  BY <1>1, FramesAre, Pushed
<1>3. /\ \A i \in 1..n : i \in 1..(n + 1)
      /\ \A i \in 1..(n + 1) : i \in 1..n \/ i = n + 1
      /\ n + 1 \in 1..(n + 1)
      /\ \A i, j \in 1..(n + 1) : j < i => j \in 1..n
  OBVIOUS
<1>4. ASSUME r.content \notin ProcTimers
      PROVE  InTimer' = InTimer /\ (TimerOnce => TimerOnce')
  <2>1. TimerFrames' = TimerFrames
    BY <1>1, <1>2, <1>3, <1>4 DEF TimerFrames
  <2>2. \A i \in TimerFrames : frames'[i] = frames[i]
    BY <1>1, <1>2 DEF TimerFrames
  <2>3. InTimer = {frames[i].msg : i \in TimerFrames} /\ InTimer' = {frames'[i].msg : i \in TimerFrames'}
    BY DEF InTimer, TimerFrames
  <2>4. InTimer' = InTimer
    BY <2>1, <2>2, <2>3
  <2>5. ASSUME TimerOnce PROVE TimerOnce'
    <3>1. \A i, j \in TimerFrames : frames'[i].msg = frames'[j].msg => i = j
      BY <2>2, <2>5 DEF TimerOnce
    <3> QED
      BY <2>1, <3>1 DEF TimerOnce
  <2> QED
    BY <2>4, <2>5
<1>5. ASSUME r.content \in ProcTimers
      PROVE  /\ InTimer' = InTimer \cup {r.msg}
             /\ TimerOnce /\ r.msg \notin InTimer => TimerOnce'
  <2>1. TimerFrames' = TimerFrames \cup {n + 1}
    BY <1>1, <1>2, <1>3, <1>5 DEF TimerFrames
  <2>2. \A i \in TimerFrames : frames'[i] = frames[i] /\ i # n + 1
    BY <1>1, <1>2 DEF TimerFrames
  <2>3. InTimer = {frames[i].msg : i \in TimerFrames} /\ InTimer' = {frames'[i].msg : i \in TimerFrames'}
    BY DEF InTimer, TimerFrames
  <2>4. InTimer' = InTimer \cup {r.msg}
    BY <1>2, <2>1, <2>2, <2>3
  <2>5. ASSUME TimerOnce, r.msg \notin InTimer PROVE TimerOnce'
    <3>1. \A i \in TimerFrames : frames[i].msg # r.msg
      BY <2>3, <2>5
    <3>2. /\ \A i, j \in TimerFrames : frames'[i].msg = frames'[j].msg => i = j
          /\ \A i \in TimerFrames : frames'[i].msg # frames'[n + 1].msg
      BY <1>2, <2>2, <2>5, <3>1 DEF TimerOnce
    <3>3. \A i, j \in TimerFrames \cup {n + 1} : frames'[i].msg = frames'[j].msg => i = j
      BY <3>2
    <3> QED
      BY <2>1, <3>3 DEF TimerOnce
  <2> QED
    BY <2>4, <2>5
<1>6. HandledFrames \in SUBSET (1..n) /\ \A i \in HandledFrames : frames'[i] = frames[i]
  BY <1>1, <1>2 DEF HandledFrames
<1>7. Handling = MsgsOf(frames, HandledFrames) /\ Handling' = MsgsOf(frames', HandledFrames')
  BY DEF Handling, MsgsOf, Dispatched, HandledFrames
<1>8. ASSUME r.msg = 0 \/ r.content \in ProcTimers PROVE Handling' = Handling
  <2>1. HandledFrames' = HandledFrames
    BY <1>1, <1>2, <1>3, <1>8 DEF HandledFrames
  <2> QED
    BY <1>6, <1>7, <2>1, HandlingSame
<1>9. ASSUME r.msg # 0, r.content \notin ProcTimers PROVE Handling' = Append(Handling, r.msg)
  <2>1. HandledFrames' = HandledFrames \cup {n + 1}
    BY <1>1, <1>2, <1>3, <1>9 DEF HandledFrames
  <2>2. Handling \in Seq(Created) /\ frames'[n + 1].msg \in Created /\ frames'[n + 1].msg = r.msg
    BY <1>2, <1>9, FramesAre, HandlingIs, FrameIs
  <2>3. PICK K : K = HandledFrames
    OBVIOUS
  <2>4. PICK L : L = K \cup {n + 1}
    OBVIOUS
  <2>5. PICK lo : lo = frames
    OBVIOUS
  <2>6. PICK hi : hi = frames'
    OBVIOUS
  <2>7. /\ K \in SUBSET (1..n) /\ \A i \in K : hi[i] = lo[i]
        /\ MsgsOf(lo, K) \in Seq(Created) /\ hi[n + 1].msg \in Created
    BY <1>6, <1>7, <2>2, <2>3, <2>5, <2>6
  <2>8. IsPush(MsgsOf(lo, K), MsgsOf(hi, L), hi[n + 1].msg)
    BY <2>4, <2>7, HandlingMore
  <2> QED
    BY <1>7, <2>1, <2>2, <2>3, <2>4, <2>5, <2>6, <2>8 DEF IsPush
<1>10. ASSUME Framed, r.got = 0,
              r.msg # 0 => msgs[r.msg].content = r.content,
              r.content \in ProcTimers => r.msg # 0
       PROVE  Framed'
  BY <1>1, <1>2, <1>3, <1>10 DEF Framed
<1>11. ASSUME NotNested,
              r.msg = 0 =>
                \A j \in DOMAIN frames : frames[j].msg # 0 => frames[j].content # r.content
       PROVE  NotNested'
  BY <1>1, <1>2, <1>3, <1>11 DEF NotNested
<1> QED
  BY <1>2, <1>4, <1>5, <1>8, <1>9, <1>10, <1>11

LEMMA PopFrame ==
  ASSUME TypeOK, msgs' = msgs, frames # << >>, frames' = Front(frames), NEW r, r = Last(frames)
  PROVE  /\ frames' \in Seq(FrameSet(Created)) /\ r \in FrameSet(Created)
         /\ r.content \notin ProcTimers => InTimer' = InTimer
         /\ r.content \in ProcTimers /\ TimerOnce =>
              InTimer' = InTimer \ {r.msg} /\ r.msg \in InTimer
         /\ TimerOnce => TimerOnce'
         /\ r.msg = 0 \/ r.content \in ProcTimers => Handling' = Handling
         /\ r.msg # 0 /\ r.content \notin ProcTimers => Handling = Append(Handling', r.msg)
         /\ Framed => Framed'
         /\ NotNested => NotNested'
<1>1. PICK n \in Nat : n = Len(frames) - 1 /\ Len(frames) = n + 1 /\ DOMAIN frames = 1..(n + 1)
  <2>1. frames \in Seq(FrameSet(Created))
    BY FramesAre
  <2> QED
    BY <2>1
<1>2. /\ frames' \in Seq(FrameSet(Created)) /\ r \in FrameSet(Created) /\ DOMAIN frames' = 1..n
      /\ \A i \in 1..n : i # n + 1 /\ i < n + 1 /\ frames'[i] = frames[i]
      /\ r = frames[n + 1]
  BY <1>1, FramesAre, Popped
<1>3. /\ \A i \in 1..n : i \in 1..(n + 1)
      /\ \A i \in 1..(n + 1) : i \in 1..n \/ i = n + 1
      /\ n + 1 \in 1..(n + 1)
  OBVIOUS
<1>4. TimerFrames' \subseteq TimerFrames /\ \A i \in TimerFrames' : frames'[i] = frames[i]
  BY <1>1, <1>2, <1>3 DEF TimerFrames
<1>5. InTimer = {frames[i].msg : i \in TimerFrames} /\ InTimer' = {frames'[i].msg : i \in TimerFrames'}
  BY DEF InTimer, TimerFrames
<1>6. ASSUME r.content \notin ProcTimers PROVE InTimer' = InTimer
  <2>1. TimerFrames' = TimerFrames
    BY <1>1, <1>2, <1>3, <1>6 DEF TimerFrames
  <2> QED
    BY <1>4, <1>5, <2>1
<1>7. ASSUME r.content \in ProcTimers, TimerOnce
      PROVE  InTimer' = InTimer \ {r.msg} /\ r.msg \in InTimer
  <2>1. TimerFrames = TimerFrames' \cup {n + 1} /\ n + 1 \notin TimerFrames'
    BY <1>1, <1>2, <1>3, <1>7 DEF TimerFrames
  <2>2. \A i \in TimerFrames' : frames[i].msg # r.msg
    BY <1>2, <1>7, <2>1 DEF TimerOnce
  <2> QED
    BY <1>2, <1>4, <1>5, <2>1, <2>2
<1>8. TimerOnce => TimerOnce'
  BY <1>4 DEF TimerOnce
<1>9. HandledFrames' \in SUBSET (1..n) /\ \A i \in HandledFrames' : frames[i] = frames'[i]
  BY <1>1, <1>2 DEF HandledFrames
<1>10. Handling = MsgsOf(frames, HandledFrames) /\ Handling' = MsgsOf(frames', HandledFrames')
  BY DEF Handling, MsgsOf, Dispatched, HandledFrames
<1>11. ASSUME r.msg = 0 \/ r.content \in ProcTimers PROVE Handling' = Handling
  <2>1. HandledFrames' = HandledFrames
    BY <1>1, <1>2, <1>3, <1>11 DEF HandledFrames
  <2> QED
    BY <1>9, <1>10, <2>1, HandlingSame
<1>12. ASSUME r.msg # 0, r.content \notin ProcTimers PROVE Handling = Append(Handling', r.msg)
  <2>1. HandledFrames = HandledFrames' \cup {n + 1}
    BY <1>1, <1>2, <1>3, <1>12 DEF HandledFrames
  <2>2. Handling' \in Seq(Created) /\ frames[n + 1].msg \in Created /\ frames[n + 1].msg = r.msg
    BY <1>2, <1>12, FrameIs, HandlingNext
  <2>3. PICK K : K = HandledFrames'
    OBVIOUS
  <2>4. PICK L : L = K \cup {n + 1}
    OBVIOUS
  <2>5. PICK lo : lo = frames'
    OBVIOUS
  <2>6. PICK hi : hi = frames
    OBVIOUS
  <2>7. /\ K \in SUBSET (1..n) /\ \A i \in K : hi[i] = lo[i]
        /\ MsgsOf(lo, K) \in Seq(Created) /\ hi[n + 1].msg \in Created
    BY <1>9, <1>10, <2>2, <2>3, <2>5, <2>6
  <2>8. IsPush(MsgsOf(lo, K), MsgsOf(hi, L), hi[n + 1].msg)
    BY <2>4, <2>7, HandlingMore
  <2> QED
    BY <1>10, <2>1, <2>2, <2>3, <2>4, <2>5, <2>6, <2>8 DEF IsPush
<1>13. Framed => Framed'
  BY <1>1, <1>2, <1>3 DEF Framed
<1>14. ASSUME NotNested PROVE NotNested'
  <2> SUFFICES ASSUME NEW i \in 1..n, NEW j \in 1..n, j < i, frames'[i].msg = 0, frames'[j].msg # 0
               PROVE  frames'[j].content # frames'[i].content
    BY <1>2 DEF NotNested
  <2>1. i \in DOMAIN frames /\ j \in DOMAIN frames /\ frames'[i] = frames[i] /\ frames'[j] = frames[j]
    BY <1>1, <1>2, <1>3
  <2> QED
    BY <1>14, <2>1 DEF NotNested
<1> QED
  BY <1>2, <1>6, <1>7, <1>8, <1>11, <1>12, <1>13, <1>14

-----------------------------------------------------------------------------
(***************************************************************************)
(* The scan of the queue.                                                  *)
(***************************************************************************)
LEMMA ScanIs ==
  ASSUME IInv
  PROVE  /\ Dropped \subseteq Elems(queue)
         /\ \A m \in Dropped : Destroyed(m)
         /\ Found # {} => /\ FirstFound \in Found
                          /\ queue[FirstFound] \in Elems(queue)
                          /\ queue[FirstFound] \in Created
                          /\ ~Destroyed(queue[FirstFound])
<1>1. queue \in Seq(Created)
  BY DEF IInv, TypeOK
<1>2. PICK l \in Nat : DOMAIN queue = 1..l
  BY <1>1
<1>3. Found \subseteq DOMAIN queue /\ \A i \in Found : ~Destroyed(queue[i])
  BY DEF Found
<1>4. ASSUME Found # {} PROVE FirstFound \in Found
  <2>1. Found \subseteq Nat
    BY <1>2, <1>3
  <2>2. \E i \in Found : \A j \in Found : i <= j
    BY <1>4, <2>1, Least
  <2> QED
    BY <2>2 DEF FirstFound
<1>5. Passed \subseteq DOMAIN queue
  <2>1. CASE Found = {}
    BY <2>1 DEF Passed
  <2>2. CASE Found # {}
    <3>1. FirstFound \in 1..l
      BY <1>2, <1>3, <1>4, <2>2
    <3>2. 1..FirstFound \subseteq 1..l
      BY <3>1
    <3> QED
      BY <1>2, <2>2, <3>2 DEF Passed
  <2> QED
    BY <2>1, <2>2
<1>6. Dropped \subseteq Elems(queue) /\ \A m \in Dropped : Destroyed(m)
  BY <1>5 DEF Dropped, Elems
<1>7. \A i \in DOMAIN queue : queue[i] \in Created
  BY <1>1
<1> QED
  BY <1>3, <1>4, <1>6, <1>7 DEF Elems

\* Removing from the queue disturbs neither its types nor what is said of it.
LEMMA Scanned ==
  ASSUME IInv, NEW gone, queue' = Kept(gone), RunTasks, UNCHANGED <<msgs, timers, dead>>
  PROVE  /\ queue' \in Seq(Created) /\ Distinct(queue')
         /\ Elems(queue') = Elems(queue) \ (Dropped \cup gone)
         /\ QueuedTimerIsSet'
         /\ tasks' \in [Tasks -> {"none", "listed", "signalled", "run"}]
<1>1. queue \in Seq(Created) /\ Distinct(queue) /\ QueuedTimerIsSet
      /\ tasks \in [Tasks -> {"none", "listed", "signalled", "run"}]
  BY DEF IInv, TypeOK, Once
<1>2. PICK G : G = Dropped \cup gone
  OBVIOUS
<1>3. queue' = Picked(queue, {i \in DOMAIN queue : queue[i] \notin G})
  BY <1>2 DEF Kept
<1>4. queue' \in Seq(Created) /\ Distinct(queue') /\ Elems(queue') = Elems(queue) \ G
  BY <1>1, <1>3, Shrunk
<1>5. QueuedTimerIsSet'
  <2>1. \A m \in Elems(queue') : m \in Elems(queue) /\ msgs'[m] = msgs[m]
    BY <1>4
  <2> QED
    BY <1>1, <2>1 DEF QueuedTimerIsSet, Destroyed
<1>6. tasks' \in [Tasks -> {"none", "listed", "signalled", "run"}]
  BY <1>1 DEF RunTasks
<1> QED
  BY <1>2, <1>4, <1>5, <1>6

LEMMA ScanNoneStep ==
  ASSUME IInv, ScanNone
  PROVE  IInv'
<1> USE DEF IInv
<1>1. /\ TypeOK /\ IsFiniteSet(timers) /\ Once /\ Owned /\ Got /\ Framed /\ Handled
      /\ pc = "scan" /\ Found = {} /\ RunTasks /\ queue' = Kept({})
      /\ freed' = freed \cup Dropped /\ pc' = IF want.block THEN "wait" ELSE "app"
      /\ UNCHANGED <<msgs, evt, msgPeek, needFree, msgStack, answered, timers, dead,
                     frames, want, got, calls, misled>>
  BY DEF ScanNone
<1>2. /\ queue' \in Seq(Created) /\ Distinct(queue')
      /\ Elems(queue') = Elems(queue) \ Dropped
      /\ QueuedTimerIsSet'
      /\ tasks' \in [Tasks -> {"none", "listed", "signalled", "run"}]
  BY <1>1, Scanned
<1>3. Dropped \subseteq Elems(queue)
  BY ScanIs
<1> HIDE DEF IInv
<1>4. InTimer' = InTimer /\ Stale' = Stale /\ TimerFrames' = TimerFrames /\ Handling' = Handling
  BY <1>1 DEF InTimer, Stale, TimerFrames, Handling, Dispatched
<1>5. Owned'
  <2>1. Apart(Elems(queue), Stale, Elems(msgStack), InTimer, freed, Created)
    BY <1>1 DEF Owned
  <2>2. Apart(Elems(queue'), Stale, Elems(msgStack), InTimer, freed', Created)
    BY <1>1, <1>2, <1>3, <2>1 DEF Apart
  <2>3. Elems(msgStack)' = Elems(msgStack) /\ Created' = Created /\ Elems(queue)' = Elems(queue')
    BY <1>1 DEF Created, Elems
  <2> QED
    BY <1>4, <2>2, <2>3 DEF Owned
<1>6. TypeOK'
  <2>1. freed' \subseteq Created /\ Created' = Created /\ pc' \in {"wait", "app"}
    BY <1>1, <1>3 DEF TypeOK, Owned, Apart, Created
  <2> QED
    BY <1>1, <1>2, <2>1 DEF TypeOK
<1>7. Once' /\ Framed' /\ Handled' /\ Got'
  <2>1. Once'
    BY <1>1, <1>2, <1>4 DEF Once, TimerOnce, Distinct
  <2>2. Framed'
    BY <1>1 DEF Framed
  <2>3. Handled'
    BY <1>1, <1>4 DEF Handled, NotNested
  <2>4. Got'
    BY <1>1 DEF Got
  <2> QED
    BY <2>1, <2>2, <2>3, <2>4
<1>8. NoLostWakeup'
  <2>1. \A m \in Elems(queue) : ~(Matches(m) /\ ~Destroyed(m))
    BY <1>1 DEF Found, Elems
  <2>2. \A m \in Elems(queue) : (Matches(m) <=> Matches(m)') /\ (Destroyed(m) <=> Destroyed(m)')
    BY <1>1 DEF Matches, Destroyed
  <2>3. \A i \in DOMAIN queue' : queue'[i] \in Elems(queue)
    BY <1>2 DEF Elems
  <2>4. Found' = {}
    BY <2>1, <2>2, <2>3 DEF Found
  <2> QED
    BY <2>4 DEF NoLostWakeup
<1> QED
  BY <1>1, <1>2, <1>5, <1>6, <1>7, <1>8 DEF IInv

LEMMA ScanTimerStep ==
  ASSUME IInv, ScanTimer
  PROVE  IInv'
<1> USE DEF IInv
<1>0. PICK m : m = queue[FirstFound]
  OBVIOUS
<1>1. /\ TypeOK /\ IsFiniteSet(timers) /\ Once /\ Owned /\ Got /\ Framed /\ Handled
      /\ pc = "scan" /\ Found # {} /\ msgs[m].content \in ProcTimers
      /\ RunTasks /\ queue' = Kept({m})
      /\ freed' = freed \cup Dropped \cup Stale
      /\ msgPeek' = IF Stale # {} THEN 0 ELSE msgPeek
      /\ needFree' = (needFree /\ Stale = {})
      /\ frames' = Append(frames, [msg |-> m, content |-> msgs[m].content, peek |-> want, got |-> got])
      /\ pc' = "app"
      /\ UNCHANGED <<msgs, evt, msgStack, answered, timers, dead, want, got, calls, misled>>
  BY <1>0 DEF ScanTimer
<1>2. /\ queue' \in Seq(Created) /\ Distinct(queue')
      /\ Elems(queue') = Elems(queue) \ (Dropped \cup {m})
      /\ QueuedTimerIsSet'
      /\ tasks' \in [Tasks -> {"none", "listed", "signalled", "run"}]
  BY <1>1, Scanned
<1>3. Dropped \subseteq Elems(queue) /\ m \in Elems(queue) /\ m \in Created /\ m \notin Dropped
  BY <1>0, <1>1, ScanIs
<1> HIDE DEF IInv
<1>4. m # 0 /\ msgs[m].content \in Contents
  BY <1>1, <1>3, CreatedIs DEF TypeOK, Records
<1>5. PICK r : r = [msg |-> m, content |-> msgs[m].content, peek |-> want, got |-> got]
  OBVIOUS
<1>6. /\ r.msg = m /\ r.content = msgs[m].content /\ r.got = 0
      /\ r \in FrameSet(Created) /\ frames' = Append(frames, r)
  <2>1. got = 0 /\ want \in Wants
    BY <1>1 DEF Got, TypeOK
  <2> QED
    BY <1>1, <1>3, <1>4, <1>5, <2>1 DEF FrameSet
<1>7. m \notin InTimer
  BY <1>1, <1>3 DEF Owned, Apart
<1>8. /\ frames' \in Seq(FrameSet(Created))
      /\ InTimer' = InTimer \cup {m} /\ (TimerOnce => TimerOnce')
      /\ Handling' = Handling /\ (Framed => Framed') /\ (NotNested => NotNested')
  <2>1. TypeOK /\ msgs' = msgs /\ r.content \in ProcTimers /\ r.msg # 0 /\ r.msg \notin InTimer
    BY <1>1, <1>4, <1>6, <1>7
  <2> QED
    BY <1>6, <2>1, PushFrame
<1>9. Stale' = {} /\ needFree' = FALSE /\ msgPeek' \in Created \cup {0}
  BY <1>1 DEF Stale, Got, TypeOK
<1>10. Owned'
  <2>1. Apart(Elems(queue), Stale, Elems(msgStack), InTimer, freed, Created)
    BY <1>1 DEF Owned
  <2>2. Apart(Elems(queue'), {}, Elems(msgStack), InTimer \cup {m}, freed', Created)
    BY <1>1, <1>2, <1>3, <2>1 DEF Apart
  <2>3. Elems(msgStack)' = Elems(msgStack) /\ Created' = Created /\ Elems(queue)' = Elems(queue')
    BY <1>1 DEF Created, Elems
  <2> QED
    BY <1>8, <1>9, <2>2, <2>3 DEF Owned
<1>11. TypeOK'
  <2>1. freed' \subseteq Created /\ Created' = Created /\ needFree' \in BOOLEAN
    BY <1>1, <1>3, <1>9 DEF TypeOK, Owned, Apart, Created
  <2>2. frames' \in Seq([msg : Created \cup {0}, content : Contents, peek : Wants, got : Created \cup {0}])
    BY <1>8 DEF FrameSet
  <2> QED
    BY <1>1, <1>2, <1>9, <2>1, <2>2 DEF TypeOK
<1>12. Once' /\ Framed' /\ Handled' /\ Got'
  <2>1. Once'
    BY <1>1, <1>2, <1>8 DEF Once, Distinct
  <2>2. Framed'
    BY <1>1, <1>8
  <2>3. Handled'
    BY <1>1, <1>8, <1>9 DEF Handled
  <2>4. Got'
    BY <1>1, <1>9 DEF Got
  <2> QED
    BY <2>1, <2>2, <2>3, <2>4
<1>13. NoLostWakeup'
  BY <1>1 DEF NoLostWakeup
<1> QED
  BY <1>1, <1>2, <1>10, <1>11, <1>12, <1>13 DEF IInv

LEMMA ScanTakeStep ==
  ASSUME IInv, ScanTake
  PROVE  IInv'
<1> USE DEF IInv
<1>0. PICK m : m = queue[FirstFound]
  OBVIOUS
<1>00. PICK gone : gone = IF want.remove THEN {m} ELSE {}
  OBVIOUS
<1>1. /\ TypeOK /\ IsFiniteSet(timers) /\ Once /\ Owned /\ Got /\ Framed /\ Handled
      /\ pc = "scan" /\ Found # {} /\ msgs[m].content \notin ProcTimers
      /\ RunTasks /\ queue' = Kept(gone)
      /\ freed' = freed \cup Dropped \cup Stale
      /\ msgPeek' = m
      /\ needFree' = want.remove
      /\ evt' = (evt \/ queue' # << >>)
      /\ got' = IF want.remove THEN m ELSE 0
      /\ pc' = IF want.remove THEN "got" ELSE "app"
      /\ UNCHANGED <<msgs, msgStack, answered, timers, dead, frames, want, calls, misled>>
  BY <1>0, <1>00 DEF ScanTake
<1>2. /\ queue' \in Seq(Created) /\ Distinct(queue')
      /\ Elems(queue') = Elems(queue) \ (Dropped \cup gone)
      /\ QueuedTimerIsSet'
      /\ tasks' \in [Tasks -> {"none", "listed", "signalled", "run"}]
  BY <1>1, Scanned
<1>3. /\ Dropped \subseteq Elems(queue) /\ m \in Elems(queue) /\ m \in Created /\ m \notin Dropped
      /\ ~Destroyed(m)
  BY <1>0, <1>1, ScanIs
<1> HIDE DEF IInv
<1>4. m # 0
  BY <1>1, <1>3, CreatedIs DEF TypeOK, Records
<1>5. want.remove \in BOOLEAN
  BY <1>1 DEF TypeOK, Wants
<1>6. Stale' = gone
  BY <1>00, <1>1, <1>4, <1>5 DEF Stale
<1>7. InTimer' = InTimer /\ TimerFrames' = TimerFrames /\ Handling' = Handling
  BY <1>1 DEF InTimer, TimerFrames, Handling, Dispatched
<1>8. Owned'
  <2>1. Apart(Elems(queue), Stale, Elems(msgStack), InTimer, freed, Created)
    BY <1>1 DEF Owned
  <2>2. gone \subseteq Elems(queue) /\ gone \cap Dropped = {}
    BY <1>00, <1>3
  <2>3. Apart(Elems(queue'), gone, Elems(msgStack), InTimer, freed', Created)
    BY <1>1, <1>2, <1>3, <2>1, <2>2 DEF Apart
  <2>4. Elems(msgStack)' = Elems(msgStack) /\ Created' = Created /\ Elems(queue)' = Elems(queue')
    BY <1>1 DEF Created, Elems
  <2> QED
    BY <1>6, <1>7, <2>3, <2>4 DEF Owned
<1>9. TypeOK'
  <2>1. freed' \subseteq Created /\ Created' = Created
    BY <1>1, <1>3 DEF TypeOK, Owned, Apart, Created
  <2>2. /\ needFree' \in BOOLEAN /\ msgPeek' \in Created \cup {0} /\ got' \in Created \cup {0}
        /\ pc' \in {"got", "app"} /\ evt' \in BOOLEAN
    BY <1>1, <1>3, <1>5
  <2> QED
    BY <1>1, <1>2, <2>1, <2>2 DEF TypeOK
<1>10. Once' /\ Framed' /\ Handled' /\ Got'
  <2>1. Once'
    BY <1>1, <1>2, <1>7 DEF Once, TimerOnce, Distinct
  <2>2. Framed'
    BY <1>1 DEF Framed
  <2>3. Handled'
    BY <1>1, <1>7 DEF Handled, NotNested
  <2>4. Got'
    BY <1>1, <1>3, <1>4, <1>5 DEF Got, Destroyed
  <2> QED
    BY <2>1, <2>2, <2>3, <2>4
<1>11. NoLostWakeup'
  BY <1>1 DEF NoLostWakeup
<1> QED
  BY <1>1, <1>2, <1>8, <1>9, <1>10, <1>11 DEF IInv

-----------------------------------------------------------------------------
(***************************************************************************)
(* Entering and leaving a procedure.                                       *)
(***************************************************************************)
LEMMA BeforeProcMsgIs ==
  ASSUME TypeOK, Owned, Distinct(msgStack), needFree => msgPeek # 0, NEW c, BeforeProcMsg(c),
         InTimer' = InTimer, UNCHANGED <<msgs, queue, freed>>
  PROVE  /\ Owned' /\ Distinct(msgStack)' /\ msgStack' \in Seq(Created)
         /\ msgPeek' \in Created \cup {0} /\ needFree' \in BOOLEAN
         /\ needFree' => needFree /\ msgPeek' # 0
<1>1. msgPeek \in Created \cup {0} /\ needFree \in BOOLEAN /\ msgStack \in Seq(Created)
  BY DEF TypeOK
<1>2. Apart(Elems(queue), Stale, Elems(msgStack), InTimer, freed, Created)
  BY DEF Owned
<1>3. Elems(queue)' = Elems(queue) /\ Created' = Created
  BY DEF Elems, Created
<1>4. CASE msgPeek # 0 /\ needFree /\ msgs[msgPeek].content = c
  <2>1. msgStack' = Append(msgStack, msgPeek) /\ msgPeek' = 0 /\ needFree' = FALSE
    BY <1>4 DEF BeforeProcMsg
  <2>2. Stale = {msgPeek} /\ Stale' = {} /\ msgPeek \in Created
    BY <1>1, <1>4, <2>1 DEF Stale
  <2>3. msgPeek \notin Elems(msgStack)
    BY <1>2, <2>2 DEF Apart
  <2>4. msgStack' \in Seq(Created) /\ Elems(msgStack') = Elems(msgStack) \cup {msgPeek} /\ Distinct(msgStack')
    BY <1>1, <2>1, <2>2, <2>3, Pushed
  <2>5. Apart(Elems(queue), {}, Elems(msgStack'), InTimer, freed, Created)
    BY <1>2, <2>2, <2>4 DEF Apart
  <2>6. Owned'
    BY <1>3, <2>2, <2>5 DEF Owned
  <2> QED
    BY <2>1, <2>4, <2>6 DEF Distinct
<1>5. CASE ~(msgPeek # 0 /\ needFree /\ msgs[msgPeek].content = c)
  <2>1. UNCHANGED <<msgStack, msgPeek, needFree>>
    BY <1>5 DEF BeforeProcMsg
  <2>2. Stale' = Stale /\ Elems(msgStack)' = Elems(msgStack)
    BY <2>1 DEF Stale, Elems
  <2>3. Owned'
    BY <1>2, <1>3, <2>2 DEF Owned
  <2> QED
    BY <1>1, <2>1, <2>3 DEF Distinct
<1> QED
  BY <1>4, <1>5

LEMMA DispatchStep ==
  ASSUME IInv, Dispatch
  PROVE  IInv'
<1> USE DEF IInv
<1>0. PICK c : c = msgs[got].content
  OBVIOUS
<1>1. /\ TypeOK /\ IsFiniteSet(timers) /\ Once /\ Owned /\ Got /\ Framed /\ Handled /\ QueuedTimerIsSet
      /\ pc = "got" /\ pc' = "app" /\ got' = 0
      /\ UNCHANGED <<msgs, queue, evt, freed, answered, timers, dead, tasks, want, calls, misled>>
  BY DEF Dispatch
<1>2. /\ got \in Created /\ got # 0 /\ got = msgPeek /\ needFree /\ ~Destroyed(got)
      /\ c \notin ProcTimers
  BY <1>0, <1>1 DEF Got, TypeOK
<1>3. BeforeProcMsg(c) /\ frames' = Append(frames, [msg |-> got, content |-> c, peek |-> NoWant, got |-> 0])
  BY <1>0, <1>2 DEF Dispatch, Enter
<1> HIDE DEF IInv
<1>4. PICK g : g = got
  OBVIOUS
<1>5. PICK r : r = [msg |-> g, content |-> c, peek |-> NoWant, got |-> 0]
  OBVIOUS
<1>6. c \in Contents /\ NoWant \in Wants
  <2>1. c \in Contents
    BY <1>0, <1>1, <1>2, CreatedIs DEF TypeOK, Records
  <2>2. NoWant \in Wants
    BY DEF NoWant, Wants
  <2> QED
    BY <2>1, <2>2
<1>7. /\ r.msg = g /\ r.content = c /\ r.got = 0 /\ r.msg # 0 /\ r.content \notin ProcTimers
      /\ r \in FrameSet(Created) /\ frames' = Append(frames, r) /\ msgs[r.msg].content = r.content
  BY <1>0, <1>2, <1>3, <1>4, <1>5, <1>6 DEF FrameSet
<1>8. /\ frames' \in Seq(FrameSet(Created))
      /\ InTimer' = InTimer /\ (TimerOnce => TimerOnce')
      /\ Handling' = Append(Handling, g) /\ (Framed => Framed') /\ (NotNested => NotNested')
  <2>1. TypeOK /\ msgs' = msgs
    BY <1>1
  <2> QED
    BY <1>7, <2>1, PushFrame
<1>9. msgStack' = Append(msgStack, g) /\ msgPeek' = 0 /\ needFree' = FALSE
  BY <1>0, <1>2, <1>3, <1>4 DEF BeforeProcMsg
<1>10. Owned' /\ Distinct(msgStack)' /\ msgStack' \in Seq(Created)
  BY <1>1, <1>2, <1>3, <1>8, BeforeProcMsgIs DEF Once
<1>11. TypeOK'
  <2>1. Created' = Created /\ 0 \in Created \cup {0}
    BY <1>1 DEF Created
  <2>2. frames' \in Seq([msg : Created \cup {0}, content : Contents, peek : Wants, got : Created \cup {0}])
    BY <1>8 DEF FrameSet
  <2> QED
    BY <1>1, <1>9, <1>10, <2>1, <2>2 DEF TypeOK
<1>12. Once' /\ Framed' /\ Handled' /\ Got'
  <2>1. Once'
    BY <1>1, <1>8, <1>10 DEF Once, Distinct
  <2>2. Framed'
    BY <1>1, <1>8
  <2>3. Handled'
    BY <1>1, <1>8, <1>9 DEF Handled
  <2>4. Got'
    BY <1>1, <1>9 DEF Got
  <2> QED
    BY <2>1, <2>2, <2>3, <2>4
<1>13. NoLostWakeup' /\ QueuedTimerIsSet'
  BY <1>1 DEF NoLostWakeup, QueuedTimerIsSet, Destroyed, Elems
<1> QED
  BY <1>1, <1>10, <1>11, <1>12, <1>13 DEF IInv

LEMMA SendDirectStep ==
  ASSUME IInv, NEW c \in Posts, SendDirect(c)
  PROVE  IInv'
<1> USE DEF IInv
<1>1. /\ TypeOK /\ IsFiniteSet(timers) /\ Once /\ Owned /\ Got /\ Framed /\ Handled /\ QueuedTimerIsSet
      /\ pc = "app" /\ frames # << >> /\ calls < MaxCalls /\ calls' = calls + 1
      /\ misled' = (misled \/ \E i \in DOMAIN frames : frames[i].msg # 0 /\ frames[i].content = c)
      /\ BeforeProcMsg(c)
      /\ frames' = Append(frames, [msg |-> 0, content |-> c, peek |-> NoWant, got |-> 0])
      /\ UNCHANGED <<msgs, queue, evt, freed, answered, timers, dead, tasks, pc, want, got>>
  BY DEF SendDirect, Call, Enter
<1> HIDE DEF IInv
<1>2. PICK r : r = [msg |-> 0, content |-> c, peek |-> NoWant, got |-> 0]
  OBVIOUS
<1>3. c \in Contents /\ c \notin ProcTimers /\ NoWant \in Wants
  BY TimersAssumption DEF Contents, NoWant, Wants
<1>4. /\ r.msg = 0 /\ r.content = c /\ r.got = 0 /\ r.content \notin ProcTimers
      /\ r \in FrameSet(Created) /\ frames' = Append(frames, r)
  BY <1>1, <1>2, <1>3 DEF FrameSet
<1>5. /\ frames' \in Seq(FrameSet(Created))
      /\ InTimer' = InTimer /\ (TimerOnce => TimerOnce')
      /\ Handling' = Handling /\ (Framed => Framed')
      /\ NotNested /\ (\A j \in DOMAIN frames : frames[j].msg # 0 => frames[j].content # c) => NotNested'
  <2>1. TypeOK /\ msgs' = msgs
    BY <1>1
  <2> QED
    BY <1>4, <2>1, PushFrame
<1>6. /\ Owned' /\ Distinct(msgStack)' /\ msgStack' \in Seq(Created)
      /\ msgPeek' \in Created \cup {0} /\ needFree' \in BOOLEAN
      /\ needFree' => needFree /\ msgPeek' # 0
  BY <1>1, <1>5, BeforeProcMsgIs DEF Once, Got
<1>7. ~needFree => msgStack' = msgStack
  BY <1>1 DEF BeforeProcMsg
<1>8. TypeOK'
  <2>1. Created' = Created /\ misled' \in BOOLEAN /\ calls' \in 0..MaxCalls
    <3>1. calls \in 0..MaxCalls /\ calls < MaxCalls /\ calls' = calls + 1 /\ MaxCalls \in Nat
      BY <1>1, BoundsAssumption DEF TypeOK
    <3>2. calls' \in 0..MaxCalls
      BY <3>1
    <3>3. misled' \in BOOLEAN
      BY <1>1 DEF TypeOK
    <3> QED
      BY <1>1, <3>2, <3>3 DEF Created
  <2>2. frames' \in Seq([msg : Created \cup {0}, content : Contents, peek : Wants, got : Created \cup {0}])
    BY <1>5 DEF FrameSet
  <2> QED
    BY <1>1, <1>6, <2>1, <2>2 DEF TypeOK
<1>9. Once' /\ Framed' /\ Handled' /\ Got'
  <2>1. Once'
    BY <1>1, <1>5, <1>6 DEF Once, Distinct
  <2>2. Framed'
    BY <1>1, <1>5
  <2>3. ASSUME ~misled' PROVE (needFree' => pc' = "got") /\ msgStack' = Handling' /\ NotNested'
    <3>1. ~misled /\ \A j \in DOMAIN frames : frames[j].msg # 0 => frames[j].content # c
      BY <1>1, <2>3
    <3>2. ~needFree /\ msgStack = Handling /\ NotNested
      BY <1>1, <3>1 DEF Handled
    <3> QED
      BY <1>5, <1>6, <1>7, <3>1, <3>2
  <2>4. Got'
    BY <1>1, <1>6 DEF Got
  <2> QED
    BY <2>1, <2>2, <2>3, <2>4 DEF Handled
<1>10. NoLostWakeup' /\ QueuedTimerIsSet'
  BY <1>1 DEF NoLostWakeup, QueuedTimerIsSet, Destroyed, Elems
<1> QED
  BY <1>1, <1>6, <1>8, <1>9, <1>10 DEF IInv

LEMMA AfterProcMsgIs ==
  ASSUME TypeOK, Owned, Distinct(msgStack), NEW c, AfterProcMsg(c),
         InTimer' = InTimer, UNCHANGED <<msgs, queue, msgPeek, needFree>>
  PROVE  /\ Owned' /\ Distinct(msgStack)' /\ msgStack' \in Seq(Created)
         /\ freed' \subseteq Created /\ answered' \subseteq Created
<1>1. msgStack \in Seq(Created) /\ freed \subseteq Created /\ answered \subseteq Created
  BY DEF TypeOK
<1>2. Apart(Elems(queue), Stale, Elems(msgStack), InTimer, freed, Created)
  BY DEF Owned
<1>3. Elems(queue)' = Elems(queue) /\ Created' = Created /\ Stale' = Stale
  BY DEF Elems, Created, Stale
<1>4. CASE msgStack # << >> /\ ~needFree /\ msgs[Last(msgStack)].content = c
  <2>1. PICK e : e = Last(msgStack)
    OBVIOUS
  <2>2. msgStack' = Front(msgStack) /\ freed' = freed \cup {e} /\ answered' = answered \cup {e}
    BY <1>4, <2>1 DEF AfterProcMsg
  <2>3. /\ Front(msgStack) \in Seq(Created) /\ e \in Created /\ e \in Elems(msgStack)
        /\ Distinct(Front(msgStack)) /\ Elems(Front(msgStack)) = Elems(msgStack) \ {e}
    BY <1>1, <1>4, <2>1, Popped
  <2>4. Apart(Elems(queue), Stale, Elems(msgStack'), InTimer, freed', Created)
    BY <1>2, <2>2, <2>3 DEF Apart
  <2>5. Owned'
    BY <1>3, <2>4 DEF Owned
  <2>6. Distinct(msgStack)'
    BY <2>2, <2>3 DEF Distinct
  <2> QED
    BY <1>1, <2>2, <2>3, <2>5, <2>6
<1>5. CASE ~(msgStack # << >> /\ ~needFree /\ msgs[Last(msgStack)].content = c)
  <2>1. UNCHANGED <<msgStack, freed, answered>>
    BY <1>5 DEF AfterProcMsg
  <2>2. Elems(msgStack)' = Elems(msgStack)
    BY <2>1 DEF Elems
  <2>3. Owned'
    BY <1>2, <1>3, <2>1, <2>2 DEF Owned
  <2> QED
    BY <1>1, <2>1, <2>3 DEF Distinct
<1> QED
  BY <1>4, <1>5

\* The procedure that returns answers its own message, and no other.
LEMMA AnswersItsOwn ==
  ASSUME TypeOK, Framed, ~needFree, msgStack = Handling, NotNested,
         frames # << >>, NEW r, r = Last(frames), r.content \notin ProcTimers,
         frames' = Front(frames), AfterProcMsg(r.content),
         r.msg = 0 => Handling' = Handling,
         r.msg # 0 => Handling = Append(Handling', r.msg),
         UNCHANGED msgs
  PROVE  msgStack' = Handling'
<1>1. msgStack \in Seq(Created) /\ frames \in Seq(FrameSet(Created))
  BY FramesAre DEF TypeOK
<1>2. PICK n : n = Len(frames)
  OBVIOUS
<1>3. n \in DOMAIN frames /\ r = frames[n] /\ \A i \in DOMAIN frames : i = n \/ i < n
  <2>1. /\ Len(frames) \in DOMAIN frames /\ Last(frames) = frames[Len(frames)]
        /\ \A i \in 1..(Len(frames) - 1) : i < Len(frames)
        /\ \A i \in DOMAIN frames : i \in 1..(Len(frames) - 1) \/ i = Len(frames)
    BY <1>1, Popped
  <2> QED
    BY <1>2, <2>1
<1>4. CASE r.msg = 0
  <2>1. SUFFICES ASSUME msgStack # << >> PROVE msgs[Last(msgStack)].content # r.content
    BY <1>4 DEF AfterProcMsg
  <2>2. Len(msgStack) \in DOMAIN msgStack /\ Last(msgStack) = msgStack[Len(msgStack)]
    BY <1>1, <2>1, Popped
  <2>3. PICK i \in HandledFrames : Last(msgStack) = frames[i].msg
    BY <1>1, <2>2, HandlingIs
  <2>4. i \in DOMAIN frames /\ frames[i].msg # 0
    BY DEF HandledFrames
  <2>5. i < n
    BY <1>3, <1>4, <2>4
  <2>6. msgs[frames[i].msg].content = frames[i].content
    BY <2>4 DEF Framed
  <2>7. frames[i].content # frames[n].content
    BY <1>3, <1>4, <2>4, <2>5 DEF NotNested
  <2> QED
    BY <1>3, <2>3, <2>6, <2>7
<1>5. CASE r.msg # 0
  <2>1. msgStack = Append(Handling', r.msg)
    BY <1>5
  <2>2. Handling' \in Seq(Created) /\ r.msg \in Created
    <3>1. r.msg \in Created
      BY <1>3, <1>5, FramesAre
    <3>2. frames' \in Seq(FrameSet(Created))
      BY <1>1, Popped
    <3> QED
      BY <3>1, <3>2, HandlingNext
  <2>3. PICK h \in Seq(Created) : h = Handling'
    BY <2>2
  <2>4. msgStack # << >> /\ Last(msgStack) = r.msg /\ Front(msgStack) = h
    <3>1. msgStack = Append(h, r.msg) /\ r.msg \in Created
      BY <2>1, <2>2, <2>3
    <3> QED
      BY <3>1 DEF Last, Front
  <2>5. msgs[r.msg].content = r.content
    BY <1>3, <1>5 DEF Framed
  <2> QED
    BY <2>3, <2>4, <2>5 DEF AfterProcMsg
<1> QED
  BY <1>4, <1>5

LEMMA ProcReturnStep ==
  ASSUME IInv, ProcReturn
  PROVE  IInv'
<1> USE DEF IInv
<1>0. PICK r : r = Last(frames)
  OBVIOUS
<1>1. /\ TypeOK /\ IsFiniteSet(timers) /\ Once /\ Owned /\ Got /\ Framed /\ Handled /\ QueuedTimerIsSet
      /\ pc = "app" /\ frames # << >> /\ r.content \notin ProcTimers
      /\ AfterProcMsg(r.content) /\ frames' = Front(frames)
      /\ UNCHANGED <<msgs, queue, evt, msgPeek, needFree, timers, dead, tasks, pc, want, got, calls, misled>>
  BY <1>0 DEF ProcReturn
<1> HIDE DEF IInv
<1>2. /\ frames' \in Seq(FrameSet(Created))
      /\ InTimer' = InTimer /\ (TimerOnce => TimerOnce')
      /\ r.msg = 0 => Handling' = Handling
      /\ r.msg # 0 => Handling = Append(Handling', r.msg)
      /\ (Framed => Framed') /\ (NotNested => NotNested')
  <2>1. TypeOK /\ msgs' = msgs /\ frames # << >> /\ frames' = Front(frames) /\ r.content \notin ProcTimers
    BY <1>1
  <2> QED
    BY <1>0, <2>1, PopFrame
<1>3. /\ Owned' /\ Distinct(msgStack)' /\ msgStack' \in Seq(Created)
      /\ freed' \subseteq Created /\ answered' \subseteq Created
  BY <1>1, <1>2, AfterProcMsgIs DEF Once
<1>4. TypeOK'
  <2>1. Created' = Created
    BY <1>1 DEF Created
  <2>2. frames' \in Seq([msg : Created \cup {0}, content : Contents, peek : Wants, got : Created \cup {0}])
    BY <1>2 DEF FrameSet
  <2> QED
    BY <1>1, <1>3, <2>1, <2>2 DEF TypeOK
<1>5. Once' /\ Framed' /\ Handled' /\ Got'
  <2>1. Once'
    BY <1>1, <1>2, <1>3 DEF Once, Distinct
  <2>2. Framed'
    BY <1>1, <1>2
  <2>3. ASSUME ~misled' PROVE (needFree' => pc' = "got") /\ msgStack' = Handling' /\ NotNested'
    <3>1. ~needFree /\ msgStack = Handling /\ NotNested
      BY <1>1, <2>3 DEF Handled
    <3>2. TypeOK /\ Framed /\ frames # << >> /\ r.content \notin ProcTimers
          /\ frames' = Front(frames) /\ AfterProcMsg(r.content) /\ UNCHANGED msgs
      BY <1>1
    <3>3. msgStack' = Handling'
      BY <1>0, <1>2, <3>1, <3>2, AnswersItsOwn
    <3> QED
      BY <1>1, <1>2, <3>1, <3>3
  <2>4. Got'
    BY <1>1 DEF Got
  <2> QED
    BY <2>1, <2>2, <2>3, <2>4 DEF Handled
<1>6. NoLostWakeup' /\ QueuedTimerIsSet'
  BY <1>1 DEF NoLostWakeup, QueuedTimerIsSet, Destroyed, Elems
<1> QED
  BY <1>1, <1>3, <1>4, <1>5, <1>6 DEF IInv

LEMMA TimerReturnStep ==
  ASSUME IInv, TimerReturn
  PROVE  IInv'
<1> USE DEF IInv
<1>0. PICK r : r = Last(frames)
  OBVIOUS
<1>1. /\ TypeOK /\ IsFiniteSet(timers) /\ Once /\ Owned /\ Got /\ Framed /\ Handled /\ QueuedTimerIsSet
      /\ pc = "app" /\ frames # << >> /\ r.content \in ProcTimers
      /\ freed' = freed \cup {r.msg} /\ want' = r.peek /\ got' = r.got
      /\ frames' = Front(frames) /\ pc' = "peek"
      /\ UNCHANGED <<msgs, queue, evt, msgPeek, needFree, msgStack, answered, timers, dead, tasks, calls, misled>>
  BY <1>0 DEF TimerReturn
<1> HIDE DEF IInv
<1>2. /\ frames' \in Seq(FrameSet(Created)) /\ r \in FrameSet(Created)
      /\ InTimer' = InTimer \ {r.msg} /\ r.msg \in InTimer /\ TimerOnce'
      /\ Handling' = Handling
      /\ Framed' /\ (NotNested => NotNested')
  <2>1. /\ TypeOK /\ msgs' = msgs /\ frames # << >> /\ frames' = Front(frames) /\ r.content \in ProcTimers
        /\ TimerOnce /\ Framed
    BY <1>1 DEF Once
  <2> QED
    BY <1>0, <2>1, PopFrame
<1>3. r.got = 0
  <2>1. frames \in Seq(FrameSet(Created))
    BY <1>1, FramesAre
  <2>2. Len(frames) \in DOMAIN frames /\ r = frames[Len(frames)]
    BY <1>0, <1>1, <2>1, Popped
  <2> QED
    BY <1>1, <2>2 DEF Framed
<1>4. Owned'
  <2>1. Apart(Elems(queue), Stale, Elems(msgStack), InTimer, freed, Created)
    BY <1>1 DEF Owned
  <2>2. Apart(Elems(queue), Stale, Elems(msgStack), InTimer', freed', Created)
    BY <1>1, <1>2, <2>1 DEF Apart
  <2>3. /\ Elems(msgStack)' = Elems(msgStack) /\ Created' = Created /\ Elems(queue)' = Elems(queue)
        /\ Stale' = Stale
    BY <1>1 DEF Created, Elems, Stale
  <2> QED
    BY <2>2, <2>3 DEF Owned
<1>5. TypeOK'
  <2>1. Created' = Created /\ freed' \subseteq Created /\ want' \in Wants /\ got' \in Created \cup {0}
    <3>1. r.peek \in Wants
      BY <1>2, FrameIs
    <3>2. freed' \subseteq Created
      BY <1>1, <1>2 DEF Owned, Apart
    <3> QED
      BY <1>1, <1>3, <3>1, <3>2 DEF Created
  <2>2. frames' \in Seq([msg : Created \cup {0}, content : Contents, peek : Wants, got : Created \cup {0}])
    BY <1>2 DEF FrameSet
  <2> QED
    BY <1>1, <2>1, <2>2 DEF TypeOK
<1>6. Once' /\ Handled' /\ Got'
  <2>1. Once'
    BY <1>1, <1>2 DEF Once, Distinct
  <2>2. Handled'
    BY <1>1, <1>2 DEF Handled
  <2>3. Got'
    BY <1>1, <1>3 DEF Got
  <2> QED
    BY <2>1, <2>2, <2>3
<1>7. NoLostWakeup' /\ QueuedTimerIsSet'
  BY <1>1 DEF NoLostWakeup, QueuedTimerIsSet, Destroyed, Elems
<1> QED
  BY <1>1, <1>2, <1>4, <1>5, <1>6, <1>7 DEF IInv

-----------------------------------------------------------------------------
(***************************************************************************)
(* The other operations, which move no message but those of a killed timer.*)
(***************************************************************************)
LEMMA NothingMoves ==
  ASSUME IInv, UNCHANGED <<msgs, queue, msgPeek, needFree, msgStack, freed, frames>>
  PROVE  /\ Owned' /\ Once' /\ Framed' /\ Created' = Created
         /\ Handling' = Handling /\ (NotNested => NotNested')
<1>1. Owned /\ Once /\ Framed
  BY DEF IInv
<1>2. InTimer' = InTimer /\ Stale' = Stale /\ TimerFrames' = TimerFrames /\ Handling' = Handling
  BY DEF InTimer, Stale, TimerFrames, Handling, Dispatched
<1>3. Elems(msgStack)' = Elems(msgStack) /\ Created' = Created /\ Elems(queue)' = Elems(queue)
  BY DEF Created, Elems
<1>4. Owned'
  BY <1>1, <1>2, <1>3 DEF Owned
<1>5. Once'
  BY <1>1, <1>2 DEF Once, TimerOnce, Distinct
<1>6. Framed' /\ (NotNested => NotNested')
  BY <1>1 DEF Framed, NotNested
<1> QED
  BY <1>2, <1>3, <1>4, <1>5, <1>6

LEMMA CallIs ==
  ASSUME TypeOK, Call
  PROVE  pc = "app" /\ calls' \in 0..MaxCalls
<1>1. calls \in 0..MaxCalls /\ calls < MaxCalls /\ calls' = calls + 1 /\ MaxCalls \in Nat
  BY BoundsAssumption DEF TypeOK, Call
<1>2. calls' \in 0..MaxCalls
  BY <1>1
<1> QED
  BY <1>2 DEF Call

LEMMA PeeksStep ==
  ASSUME IInv, GetMessage \/ \E f \in Windows \cup {AnyWindow}, b \in BOOLEAN : PeekMessage(f, b)
  PROVE  IInv'
<1>1. /\ TypeOK /\ IsFiniteSet(timers) /\ Got /\ Handled /\ QueuedTimerIsSet
  BY DEF IInv
<1>2. /\ pc = "app" /\ pc' = "peek" /\ want' \in Wants /\ calls' \in 0..MaxCalls
      /\ UNCHANGED <<msgs, queue, evt, owned, timers, dead, tasks, frames, got, misled>>
  <2>1. CASE GetMessage
    BY <1>1, <2>1 DEF GetMessage, TypeOK, NoWant, Wants
  <2>2. ASSUME NEW f \in Windows \cup {AnyWindow}, NEW b \in BOOLEAN, PeekMessage(f, b)
        PROVE  /\ pc = "app" /\ pc' = "peek" /\ want' \in Wants /\ calls' \in 0..MaxCalls
               /\ UNCHANGED <<msgs, queue, evt, owned, timers, dead, tasks, frames, got, misled>>
    <3>1. pc = "app" /\ calls' \in 0..MaxCalls
      BY <1>1, <2>2, CallIs DEF PeekMessage
    <3>2. want' \in Wants
      BY <2>2 DEF PeekMessage, Wants
    <3> QED
      BY <2>2, <3>1, <3>2 DEF PeekMessage
  <2> QED
    BY <2>1, <2>2
<1>3. /\ Owned' /\ Once' /\ Framed' /\ Created' = Created
      /\ Handling' = Handling /\ (NotNested => NotNested')
  BY <1>2, NothingMoves DEF owned
<1>4. TypeOK'
  BY <1>1, <1>2, <1>3 DEF TypeOK, owned
<1>5. Got' /\ Handled'
  BY <1>1, <1>2, <1>3 DEF Got, Handled, owned
<1>6. NoLostWakeup' /\ QueuedTimerIsSet'
  BY <1>1, <1>2 DEF NoLostWakeup, QueuedTimerIsSet, Destroyed, Elems
<1> QED
  BY <1>1, <1>2, <1>3, <1>4, <1>5, <1>6 DEF IInv

LEMMA DiscardStep ==
  ASSUME IInv, Discard
  PROVE  IInv'
<1>1. /\ TypeOK /\ IsFiniteSet(timers) /\ Got /\ QueuedTimerIsSet
      /\ pc = "got" /\ pc' = "app" /\ got' = 0 /\ misled' = TRUE
      /\ UNCHANGED <<msgs, queue, evt, owned, timers, dead, tasks, frames, want, calls>>
  BY DEF IInv, Discard
<1>2. Owned' /\ Once' /\ Framed' /\ Created' = Created
  BY <1>1, NothingMoves DEF owned
<1>3. TypeOK'
  BY <1>1, <1>2 DEF TypeOK, owned
<1>4. Got' /\ Handled'
  BY <1>1 DEF Got, Handled, owned
<1>5. NoLostWakeup' /\ QueuedTimerIsSet'
  BY <1>1 DEF NoLostWakeup, QueuedTimerIsSet, Destroyed, Elems
<1> QED
  BY <1>1, <1>2, <1>3, <1>4, <1>5 DEF IInv

LEMMA SetTimerStep ==
  ASSUME IInv, NEW c \in Timers \cup ProcTimers, SetTimer(c)
  PROVE  IInv'
<1>1. /\ TypeOK /\ IsFiniteSet(timers) /\ Got /\ Handled /\ QueuedTimerIsSet
      /\ timers' = timers \cup {c} /\ evt' = TRUE
      /\ UNCHANGED <<msgs, queue, owned, dead, tasks, thread>>
  BY DEF IInv, SetTimer
<1>2. pc = "app" /\ calls' \in 0..MaxCalls
  BY <1>1, CallIs DEF SetTimer
<1>3. /\ Owned' /\ Once' /\ Framed' /\ Created' = Created
      /\ Handling' = Handling /\ (NotNested => NotNested')
  BY <1>1, NothingMoves DEF owned, thread
<1>4. IsFiniteSet(timers')
  BY <1>1, FS_AddElement
<1>5. TypeOK'
  BY <1>1, <1>2, <1>3 DEF TypeOK, owned, thread
<1>6. Got' /\ Handled'
  BY <1>1, <1>2, <1>3 DEF Got, Handled, owned, thread
<1>7. NoLostWakeup' /\ QueuedTimerIsSet'
  BY <1>1, <1>2 DEF NoLostWakeup, QueuedTimerIsSet, Destroyed, Elems, thread
<1> QED
  BY <1>3, <1>4, <1>5, <1>6, <1>7 DEF IInv

LEMMA KillTimerStep ==
  ASSUME IInv, NEW c \in Timers \cup ProcTimers, KillTimer(c)
  PROVE  IInv'
<1>0. PICK G : G = {m \in Elems(queue) : msgs[m].content = c}
  OBVIOUS
<1>1. /\ TypeOK /\ IsFiniteSet(timers) /\ Once /\ Owned /\ Got /\ Framed /\ Handled /\ QueuedTimerIsSet
      /\ timers' = timers \ {c} /\ freed' = freed \cup G
      /\ queue' = Picked(queue, {i \in DOMAIN queue : msgs[queue[i]].content # c})
      /\ UNCHANGED <<msgs, evt, msgPeek, needFree, msgStack, answered, dead, tasks, thread>>
  BY <1>0 DEF IInv, KillTimer
<1>2. pc = "app" /\ calls' \in 0..MaxCalls
  BY <1>1, CallIs DEF KillTimer
<1>3. queue' \in Seq(Created) /\ Distinct(queue') /\ Elems(queue') = Elems(queue) \ G
  <2>1. {i \in DOMAIN queue : msgs[queue[i]].content # c} = {i \in DOMAIN queue : queue[i] \notin G}
    BY <1>0 DEF Elems
  <2>2. queue' = Picked(queue, {i \in DOMAIN queue : queue[i] \notin G})
    BY <1>1, <2>1
  <2>3. queue \in Seq(Created) /\ Distinct(queue)
    BY <1>1 DEF TypeOK, Once
  <2> QED
    BY <2>2, <2>3, Shrunk
<1>4. InTimer' = InTimer /\ Stale' = Stale /\ TimerFrames' = TimerFrames /\ Handling' = Handling
  BY <1>1 DEF InTimer, Stale, TimerFrames, Handling, Dispatched, thread
<1>5. Owned'
  <2>1. Apart(Elems(queue), Stale, Elems(msgStack), InTimer, freed, Created) /\ G \subseteq Elems(queue)
    BY <1>0, <1>1 DEF Owned
  <2>2. Apart(Elems(queue'), Stale, Elems(msgStack), InTimer, freed', Created)
    BY <1>1, <1>3, <2>1 DEF Apart
  <2>3. Elems(msgStack)' = Elems(msgStack) /\ Created' = Created /\ Elems(queue)' = Elems(queue')
    BY <1>1 DEF Created, Elems
  <2> QED
    BY <1>4, <2>2, <2>3 DEF Owned
<1>6. IsFiniteSet(timers')
  BY <1>1, FS_RemoveElement
<1>7. TypeOK'
  <2>1. Created' = Created /\ freed' \subseteq Created
    BY <1>0, <1>1 DEF Created, Owned, Apart
  <2> QED
    BY <1>1, <1>2, <1>3, <2>1 DEF TypeOK, thread
<1>8. Once'
  BY <1>1, <1>3, <1>4 DEF Once, TimerOnce, Distinct, thread
<1>9. Framed' /\ Got'
  BY <1>1, <1>2 DEF Framed, Got, thread
<1>10. Handled'
  BY <1>1, <1>2, <1>4 DEF Handled, NotNested, thread
<1>11. NoLostWakeup'
  BY <1>1, <1>2 DEF NoLostWakeup, thread
<1>12. QueuedTimerIsSet'
  <2>1. \A m \in Elems(queue') : m \in Elems(queue) /\ msgs[m].content # c
    BY <1>0, <1>3
  <2> QED
    BY <1>1, <2>1 DEF QueuedTimerIsSet, Destroyed
<1> QED
  BY <1>5, <1>6, <1>7, <1>8, <1>9, <1>10, <1>11, <1>12 DEF IInv

LEMMA DestroyWindowStep ==
  ASSUME IInv, NEW w \in Windows, DestroyWindow(w)
  PROVE  IInv'
<1>1. /\ TypeOK /\ IsFiniteSet(timers) /\ Got /\ Handled /\ QueuedTimerIsSet
      /\ dead' = dead \cup {w} /\ timers' = {c \in timers : WindowOf[c] # w}
      /\ UNCHANGED <<msgs, queue, evt, owned, tasks, thread>>
  BY DEF IInv, DestroyWindow
<1>2. pc = "app" /\ calls' \in 0..MaxCalls
  BY <1>1, CallIs DEF DestroyWindow
<1>3. /\ Owned' /\ Once' /\ Framed' /\ Created' = Created
      /\ Handling' = Handling /\ (NotNested => NotNested')
  BY <1>1, NothingMoves DEF owned, thread
<1>4. IsFiniteSet(timers')
  <2>1. timers' \in SUBSET timers
    BY <1>1
  <2> QED
    BY <1>1, <2>1, FS_Subset
<1>5. TypeOK'
  BY <1>1, <1>2, <1>3 DEF TypeOK, owned, thread
<1>6. Got' /\ Handled'
  BY <1>1, <1>2, <1>3 DEF Got, Handled, owned, thread
<1>7. NoLostWakeup' /\ QueuedTimerIsSet'
  BY <1>1, <1>2 DEF NoLostWakeup, QueuedTimerIsSet, Destroyed, Elems, thread
<1> QED
  BY <1>3, <1>4, <1>5, <1>6, <1>7 DEF IInv

\* Callback tasks, and steps that change nothing.
LEMMA TasksStep ==
  ASSUME IInv,
         tasks' \in [Tasks -> {"none", "listed", "signalled", "run"}], calls' \in 0..MaxCalls,
         UNCHANGED <<msgs, queue, evt, owned, timers, dead, thread>>
  PROVE  IInv'
<1>1. TypeOK /\ IsFiniteSet(timers) /\ Got /\ Handled /\ QueuedTimerIsSet /\ NoLostWakeup
  BY DEF IInv
<1>2. /\ Owned' /\ Once' /\ Framed' /\ Created' = Created
      /\ Handling' = Handling /\ (NotNested => NotNested')
  BY NothingMoves DEF owned, thread
<1>3. TypeOK'
  BY <1>1, <1>2 DEF TypeOK, owned, thread
<1>4. Got' /\ Handled'
  BY <1>1, <1>2 DEF Got, Handled, Destroyed, owned, thread
<1>5. NoLostWakeup' /\ QueuedTimerIsSet'
  <2>1. Found' = Found
    BY DEF Found, Matches, Destroyed, thread
  <2> QED
    BY <1>1, <2>1 DEF NoLostWakeup, QueuedTimerIsSet, Destroyed, Elems, thread
<1> QED
  BY <1>1, <1>2, <1>3, <1>4, <1>5 DEF IInv

-----------------------------------------------------------------------------
LEMMA InitIInv ==
  ASSUME Init
  PROVE  IInv
<1> USE DEF Init
<1>1. /\ Created = {} /\ Elems(queue) = {} /\ Elems(msgStack) = {} /\ InTimer = {}
      /\ TimerFrames = {} /\ Stale = {} /\ Found = {}
  BY DEF Created, Elems, InTimer, TimerFrames, Stale, Found
<1>2. TypeOK
  <2>1. 0 \in 0..MaxCalls /\ NoWant \in Wants
    BY BoundsAssumption DEF NoWant, Wants
  <2>2. tasks \in [Tasks -> {"none", "listed", "signalled", "run"}]
    OBVIOUS
  <2>3. /\ msgs \in Seq([content : Contents, sent : BOOLEAN])
        /\ queue \in Seq(Created) /\ msgStack \in Seq(Created)
        /\ frames \in Seq([msg : Created \cup {0}, content : Contents, peek : Wants,
                           got : Created \cup {0}])
    OBVIOUS
  <2>4. /\ evt \in BOOLEAN /\ needFree \in BOOLEAN /\ misled \in BOOLEAN
        /\ freed \subseteq Created /\ answered \subseteq Created /\ dead \subseteq Windows
        /\ timers \subseteq Timers \cup ProcTimers /\ pc \in {"app", "peek", "scan", "wait", "got"}
        /\ msgPeek \in Created \cup {0} /\ got \in Created \cup {0}
        /\ want \in Wants /\ calls \in 0..MaxCalls
    BY <2>1
  <2> QED
    BY <2>2, <2>3, <2>4 DEF TypeOK
<1>3. IsFiniteSet(timers)
  BY FS_EmptySet
<1>4. Once /\ Owned /\ Got /\ Framed
  <2>1. Once
    BY <1>1 DEF Once, TimerOnce, Distinct
  <2>2. Owned
    BY <1>1 DEF Owned, Apart
  <2> QED
    BY <2>1, <2>2 DEF Got, Framed
<1>5. Handled
  <2>1. Handling \in Seq(Created) /\ HandledFrames = {}
    BY <1>2, FramesAre, HandlingIs DEF HandledFrames
  <2>2. DOMAIN Handling = {}
    BY <1>2, <2>1, FramesAre, HandlingIs
  <2>3. Handling = << >>
    BY <2>1, <2>2
  <2> QED
    BY <2>3 DEF Handled, NotNested
<1>6. NoLostWakeup /\ QueuedTimerIsSet
  BY <1>1 DEF NoLostWakeup, QueuedTimerIsSet
<1> QED
  BY <1>2, <1>3, <1>4, <1>5, <1>6 DEF IInv

LEMMA NextIInv ==
  ASSUME IInv, [Next]_vars
  PROVE  IInv'
<1>0. TypeOK
  BY DEF IInv
<1>1. CASE GetMessage \/ \E f \in Windows \cup {AnyWindow}, b \in BOOLEAN : PeekMessage(f, b)
  BY <1>1, PeeksStep
<1>2. CASE PeekStart
  <2>1. PICK due \in SUBSET timers : FireTimers(due)
    BY <1>2 DEF PeekStart
  <2>2. /\ evt' = FALSE /\ pc = "peek" /\ pc' = "scan"
        /\ UNCHANGED <<owned, timers, dead, tasks, frames, want, got, calls, misled>>
    BY <1>2 DEF PeekStart
  <2> QED
    BY <2>1, <2>2, FireTimersStep
<1>3. CASE ScanNone
  BY <1>3, ScanNoneStep
<1>4. CASE ScanTimer
  BY <1>4, ScanTimerStep
<1>5. CASE ScanTake
  BY <1>5, ScanTakeStep
<1>6. CASE WaitMsg
  <2>1. PICK due \in SUBSET timers : FireTimers(due)
    BY <1>6 DEF WaitMsg
  <2>2. /\ evt' = FALSE /\ pc = "wait" /\ pc' = "peek"
        /\ UNCHANGED <<owned, timers, dead, tasks, frames, want, got, calls, misled>>
    BY <1>6 DEF WaitMsg
  <2> QED
    BY <2>1, <2>2, FireTimersStep
<1>7. CASE Discard
  BY <1>7, DiscardStep
<1>8. CASE Dispatch
  BY <1>8, DispatchStep
<1>9. ASSUME NEW c \in Posts, SendDirect(c) PROVE IInv'
  BY <1>9, SendDirectStep
<1>10. CASE ProcReturn
  BY <1>10, ProcReturnStep
<1>11. CASE TimerReturn
  BY <1>11, TimerReturnStep
<1>12. ASSUME NEW c \in Timers \cup ProcTimers, SetTimer(c) \/ KillTimer(c) PROVE IInv'
  BY <1>12, SetTimerStep, KillTimerStep
<1>13. ASSUME NEW w \in Windows, DestroyWindow(w) PROVE IInv'
  BY <1>13, DestroyWindowStep
<1>14. ASSUME NEW k \in Tasks, SendMessageCallback(k) PROVE IInv'
  <2>1. calls' \in 0..MaxCalls
    BY <1>0, <1>14, CallIs DEF SendMessageCallback
  <2>2. tasks' \in [Tasks -> {"none", "listed", "signalled", "run"}]
    BY <1>0, <1>14 DEF SendMessageCallback, TypeOK
  <2>3. UNCHANGED <<msgs, queue, evt, owned, timers, dead, thread>>
    BY <1>14 DEF SendMessageCallback
  <2> QED
    BY <2>1, <2>2, <2>3, TasksStep
<1>15. ASSUME NEW c \in Posts, NEW sent \in BOOLEAN, PostMsg(c, sent) PROVE IInv'
  BY <1>15, PostMsgStep
<1>16. ASSUME NEW k \in Tasks, AnswerTask(k) PROVE IInv'
  <2>1. calls' \in 0..MaxCalls
    BY <1>0, <1>16 DEF AnswerTask, TypeOK
  <2>2. tasks' \in [Tasks -> {"none", "listed", "signalled", "run"}]
    BY <1>0, <1>16 DEF AnswerTask, TypeOK
  <2>3. UNCHANGED <<msgs, queue, evt, owned, timers, dead, thread>>
    BY <1>16 DEF AnswerTask
  <2> QED
    BY <2>1, <2>2, <2>3, TasksStep
<1>17. CASE UNCHANGED vars
  <2>1. calls' \in 0..MaxCalls /\ tasks' \in [Tasks -> {"none", "listed", "signalled", "run"}]
    BY <1>0, <1>17 DEF vars, TypeOK
  <2>2. UNCHANGED <<msgs, queue, evt, owned, timers, dead, thread>>
    BY <1>17 DEF vars, owned, thread
  <2> QED
    BY <2>1, <2>2, TasksStep
<1>18. CASE UI
  BY <1>1, <1>2, <1>3, <1>4, <1>5, <1>6, <1>7, <1>8, <1>9, <1>10, <1>11, <1>12, <1>13, <1>14,
     <1>18 DEF UI
<1>19. CASE Others
  BY <1>15, <1>16, <1>19 DEF Others
<1> QED
  BY <1>17, <1>18, <1>19 DEF Next

LEMMA Inductive == Spec => []IInv
<1>1. Init => IInv
  BY InitIInv
<1>2. IInv /\ [Next]_vars => IInv'
  BY NextIInv
<1> QED
  BY <1>1, <1>2, PTL DEF Spec

LEMMA DistinctCounts ==
  ASSUME NEW T, NEW s \in Seq(T), Distinct(s)
  PROVE  Cardinality(Elems(s)) = Len(s)
<1>1. PICK n \in Nat : n = Len(s) /\ DOMAIN s = 1..n
  OBVIOUS
<1>2. s \in [1..n -> Elems(s)]
  BY <1>1 DEF Elems
<1>3. IsInjective(s)
  BY DEF IsInjective, Distinct
<1>4. \A t \in Elems(s) : \E i \in 1..n : s[i] = t
  BY <1>1 DEF Elems
<1>5. ExistsBijection(1..n, Elems(s))
  <2>1. s \in Injection(1..n, Elems(s)) /\ s \in Surjection(1..n, Elems(s))
    BY <1>2, <1>3, <1>4 DEF Injection, Surjection
  <2> QED
    BY <2>1 DEF ExistsBijection, Bijection
<1> QED
  BY <1>1, <1>5, FS_CountingElements

LEMMA OwnersAreOne ==
  ASSUME IInv
  PROVE  OneOwner
<1>1. /\ TypeOK /\ Distinct(queue) /\ Distinct(msgStack)
      /\ Apart(Elems(queue), Stale, Elems(msgStack), InTimer, freed, Created)
  BY DEF IInv, Once, Owned
<1>2. ASSUME NEW m \in Created
      PROVE  Cardinality({s \in {"queue", "peek", "stack", "timer", "freed"} :
               \/ s = "queue" /\ m \in Elems(queue)
               \/ s = "peek" /\ needFree /\ m = msgPeek
               \/ s = "stack" /\ m \in Elems(msgStack)
               \/ s = "timer" /\ m \in InTimer
               \/ s = "freed" /\ m \in freed}) = 1
  <2> DEFINE O == {s \in {"queue", "peek", "stack", "timer", "freed"} :
                     \/ s = "queue" /\ m \in Elems(queue)
                     \/ s = "peek" /\ needFree /\ m = msgPeek
                     \/ s = "stack" /\ m \in Elems(msgStack)
                     \/ s = "timer" /\ m \in InTimer
                     \/ s = "freed" /\ m \in freed}
  <2>1. m # 0
    BY <1>1, CreatedIs DEF TypeOK, Records
  <2>2. needFree /\ m = msgPeek <=> m \in Stale
    BY <2>1 DEF Stale
  <2>3. \E s : O = {s}
    <3>1. CASE m \in Elems(queue)
      <4>1. O = {"queue"}
        BY <1>1, <2>2, <3>1 DEF Apart
      <4> QED
        BY <4>1
    <3>2. CASE m \in Stale
      <4>1. O = {"peek"}
        BY <1>1, <2>2, <3>2 DEF Apart
      <4> QED
        BY <4>1
    <3>3. CASE m \in Elems(msgStack)
      <4>1. O = {"stack"}
        BY <1>1, <2>2, <3>3 DEF Apart
      <4> QED
        BY <4>1
    <3>4. CASE m \in InTimer
      <4>1. O = {"timer"}
        BY <1>1, <2>2, <3>4 DEF Apart
      <4> QED
        BY <4>1
    <3>5. CASE m \in freed
      <4>1. O = {"freed"}
        BY <1>1, <2>2, <3>5 DEF Apart
      <4> QED
        BY <4>1
    <3> QED
      BY <1>1, <3>1, <3>2, <3>3, <3>4, <3>5 DEF Apart
  <2> HIDE DEF O
  <2>4. Cardinality(O) = 1
    BY <2>3, FS_Singleton
  <2> QED
    BY <2>4 DEF O
<1>3. Cardinality(Elems(queue)) = Len(queue) /\ Cardinality(Elems(msgStack)) = Len(msgStack)
  BY <1>1, DistinctCounts DEF TypeOK
<1> QED
  BY <1>1, <1>2, <1>3 DEF OneOwner

-----------------------------------------------------------------------------
(***************************************************************************)
(* Whatever is posted, peeked, nested, thrown away or destroyed, a Msg is  *)
(* in the queue, in m_msgPeek, on m_msgStack, with a running TIMERPROC or  *)
(* deleted, and in one of them only: peekMsg, BeforeProcMsg, AfterProcMsg  *)
(* and KillTimer leak none and delete none twice.                          *)
(***************************************************************************)
THEOREM MessagesOwned == Spec => []OneOwner
<1>1. IInv => OneOwner
  BY OwnersAreOne
<1> QED
  BY <1>1, Inductive, PTL

(***************************************************************************)
(* waitMsg is not entered, and not stayed in, with a message in the queue  *)
(* that GetMessage would return and m_evtSync not signalled.               *)
(***************************************************************************)
THEOREM MessagesWake == Spec => []NoLostWakeup
<1>1. IInv => NoLostWakeup
  BY DEF IInv
<1> QED
  BY <1>1, Inductive, PTL

(***************************************************************************)
(* KillTimer and the destruction of a window leave no WM_TIMER behind that *)
(* peekMsg would hand out.                                                 *)
(***************************************************************************)
THEOREM KilledTimersSilent == Spec => []QueuedTimerIsSet
<1>1. IInv => QueuedTimerIsSet
  BY DEF IInv
<1> QED
  BY <1>1, Inductive, PTL

(***************************************************************************)
(* Unless a nested peek throws a message away, or a procedure sends itself *)
(* what it handles, m_msgStack is the stack of the messages being handled: *)
(* AfterProcMsg answers the message of the procedure that returns.         *)
(***************************************************************************)
THEOREM AnswersMatch == Spec => []StackIsHandled
<1>1. IInv => StackIsHandled
  BY DEF IInv, Handled, Handling, StackIsHandled
<1> QED
  BY <1>1, Inductive, PTL
=============================================================================
