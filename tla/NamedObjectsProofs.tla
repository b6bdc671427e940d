------------------------- MODULE NamedObjectsProofs -------------------------
(***************************************************************************)
(* For any processes, names, handles and size of the table, and any number *)
(* of crashes and failing opens: the table of named objects keeps names    *)
(* unique, its two counts exact or on the safe side, the name of a slot as *)
(* long as a handle refers to it, one table and one token per mutex.       *)
(*                                                                         *)
(* The invariant says for every statement inside the lock by how much the  *)
(* counts are off, and what the process has found out that still holds     *)
(* because the lock has been held since.  Outside the lock, the order in   *)
(* which a segment is created, sized and given its header decides who can  *)
(* be using it, and which segments can still become somebody's table.      *)
(***************************************************************************)
EXTENDS NamedObjects, FiniteSetTheorems, TLAPS

\* A process that has its table, one that is on its way to a table, and the
\* statements between lock and unlock of init and of the destructor.
Running == {"idle", "create", "open", "init", "alloc", "init2", "token", "free", "dropused"}
Starting == {"truncate", "opened", "mapped"}
Locking == {"alloc", "init2", "free", "dropused"}

Locked == \A p \in Procs : pc[p] \in Locking <=> lock = p

Mapped == \A p \in Procs : table[p] = 0 <=> pc[p] \in {"off", "retry", "missed", "failed"}

\* p has created its segment and is still to write the header.
Author(p) == created[p] /\ pc[p] \in Starting

Headed ==
  /\ \A p \in Procs : pc[p] \in Running => Tab(p).ready
  /\ \A p \in Procs : Author(p) => ~Tab(p).ready
  /\ \A p, q \in Procs : Author(p) /\ Author(q) /\ table[p] = table[q] => p = q

Called ==
  \A p \in Procs :
    /\ pc[p] \in {"create", "open", "init", "alloc", "init2", "token"} =>
         job[p].name \in Names /\ job[p].h \in Handles
    /\ pc[p] \in {"create", "open", "init", "alloc", "init2"} =>
         handle[p][job[p].h].slot = 0
    /\ pc[p] \in {"init2", "token", "free"} => job[p].slot \in Slots
    /\ pc[p] = "token" => handle[p][job[p].h].slot = job[p].slot

Opened ==
  \A p \in Procs, h \in Handles :
    /\ handle[p][h].slot # 0 => pc[p] \in Running /\ handle[p][h].name \in Names
    /\ handle[p][h].linked \/ handle[p][h].owns => handle[p][h].slot # 0

\* What the holder of the lock has found out.
Found ==
  \A p \in Procs :
    /\ pc[p] = "alloc" => \A i \in Slots : Tab(p).name[i] # job[p].name
    /\ pc[p] = "init2" => Tab(p).name[job[p].slot] = job[p].name
    /\ pc[p] = "init2" /\ ~job[p].late => Tab(p).nRef[job[p].slot] = 0
    /\ pc[p] = "free" => /\ Tab(p).name[job[p].slot] # None
                         /\ Tab(p).nRef[job[p].slot] = 0

\* Only a named slot counts references, so the last reference is dropped in a
\* slot that is in use.
Unnamed == \A s \in Segs : \A i \in Slots : seg[s].name[i] = None => seg[s].nRef[i] <= 0

\* The holder of the lock has counted an object that is not in a slot.
Ahead(s) == lock # None /\ table[lock] = s /\ pc[lock] \in {"alloc", "dropused"}
Extra(s) == IF Ahead(s) THEN 1 ELSE 0

Used ==
  \A s \in Segs :
    /\ seg[s].used >= Cardinality(Live(s)) + Extra(s)
    /\ ~seg[s].torn => seg[s].used = Cardinality(Live(s)) + Extra(s)

\* The holder of the lock has a slot with a name and no reference.
Between(s, i) ==
  lock # None /\ table[lock] = s /\ pc[lock] \in {"init2", "free"} /\ job[lock].slot = i

Refs ==
  "wiped" \notin events =>
    \A s \in Segs : \A i \in Live(s) :
      /\ seg[s].nRef[i] >= Cardinality(OnSlot(s, i))
      /\ "died" \notin events =>
            /\ seg[s].nRef[i] = Cardinality(OnSlot(s, i))
            /\ seg[s].nRef[i] > 0 \/ Between(s, i)

NotFull == "overfull" \notin events => \A s \in Segs : seg[s].used <= MaxObjects

\* As long as no start has met another one, the only segment with a header,
\* or with somebody to write it, is the one that has the name.
Shared ==
  events \cap {"raced", "overfull"} = {} =>
    /\ \A p \in Procs : Author(p) => table[p] = shm
    /\ \A p \in Procs : table[p] # 0 /\ Tab(p).ready => table[p] = shm
    /\ \A p \in Procs : pc[p] = "discard" =>
         /\ ~Tab(p).ready
         /\ \A q \in Procs : Author(q) => table[q] # table[p]

\* Bytes are in a fifo only while somebody has it open.
Filled == \A i \in Slots : fifo[i] > 0 => Linked(i, {}) # {}

Owners(i) == {x \in OpenHandles : handle[x[1]][x[2]].slot = i /\ handle[x[1]][x[2]].owns}

\* The creators that are still to write the token of slot i.
Pending(i) ==
  {p \in Procs : pc[p] = "token" /\ ~job[p].own /\ ~job[p].late /\ job[p].slot = i}

Tokens ==
  events \cap {"doubled", "wiped", "raced", "overfull"} = {} =>
    \A i \in Slots :
      /\ fifo[i] <= 1
      /\ fifo[i] = 1 => Owners(i) = {} /\ Pending(i) = {}
      /\ Owners(i) = {} \/ Pending(i) = {}
      /\ \A x, y \in Owners(i) : x = y
      /\ \A p, q \in Pending(i) : p = q

IInv ==
  /\ TypeOK
  /\ Locked
  /\ Mapped
  /\ Headed
  /\ Called
  /\ Opened
  /\ Found
  /\ Unnamed
  /\ NameIsUnique
  /\ HandleKeepsName
  /\ Used
  /\ Refs
  /\ NotFull
  /\ Shared
  /\ Filled
  /\ Tokens

-----------------------------------------------------------------------------
(***************************************************************************)
(* Lemmas about the operators of the model.                                *)
(***************************************************************************)
SegsType == [Segs -> SegmentType]
JobType == [name : Names \cup {None}, h : Handles \cup {None},
            own : BOOLEAN, slot : Slots \cup {0}, late : BOOLEAN]
HandleType == [name : Names \cup {None}, slot : Slots \cup {0},
               linked : BOOLEAN, owns : BOOLEAN]

LEMMA Least ==
  ASSUME NEW S, S \subseteq Nat, S # {}
  PROVE  \E i \in S : \A j \in S : i <= j
<1>1. PICK i \in S : \A j \in S : ~ (<<j, i>> \in OpToRel(<, Nat))
  BY WFMin, NatLessThanWellFounded
<1>2. \A j \in S : ~ (j < i)
  BY <1>1 DEF OpToRel
<1> QED
  BY <1>2

LEMMA FirstIn == ASSUME NEW S \in SUBSET Slots, S # {} PROVE FirstOf(S) \in S
<1>1. S \subseteq Nat
  BY SizeAssumption DEF Slots
<1> QED
  BY <1>1, Least DEF FirstOf

\* Writing one field of a segment, a job or a handle.
LEMMA WriteSegment ==
  ASSUME NEW S \in SegsType, NEW s \in Segs, NEW r \in SegmentType
  PROVE  [S EXCEPT ![s] = r] \in SegsType
  BY DEF SegsType

LEMMA WriteName ==
  ASSUME NEW S \in SegsType, NEW s \in Segs, NEW i \in Slots, NEW n \in Names \cup {None}
  PROVE  [S EXCEPT ![s].name[i] = n] \in SegsType
<1> DEFINE r == S[s]
<1>1. r \in SegmentType
  BY DEF SegsType
<1> HIDE DEF r
<1>2. [r EXCEPT !.name[i] = n] \in SegmentType
  BY <1>1 DEF SegmentType
<1> QED
  BY <1>2, WriteSegment DEF r

LEMMA WriteRef ==
  ASSUME NEW S \in SegsType, NEW s \in Segs, NEW i \in Slots, NEW n \in Int
  PROVE  [S EXCEPT ![s].nRef[i] = n] \in SegsType
<1> DEFINE r == S[s]
<1>1. r \in SegmentType
  BY DEF SegsType
<1> HIDE DEF r
<1>2. [r EXCEPT !.nRef[i] = n] \in SegmentType
  BY <1>1 DEF SegmentType
<1> QED
  BY <1>2, WriteSegment DEF r

LEMMA WriteOwner ==
  ASSUME NEW S \in SegsType, NEW s \in Segs, NEW i \in Slots, NEW n \in Procs \cup {None}
  PROVE  [S EXCEPT ![s].owner[i] = n] \in SegsType
<1> DEFINE r == S[s]
<1>1. r \in SegmentType
  BY DEF SegsType
<1> HIDE DEF r
<1>2. [r EXCEPT !.owner[i] = n] \in SegmentType
  BY <1>1 DEF SegmentType
<1> QED
  BY <1>2, WriteSegment DEF r

LEMMA WriteUsed ==
  ASSUME NEW S \in SegsType, NEW s \in Segs, NEW n \in Nat
  PROVE  [S EXCEPT ![s].used = n] \in SegsType
<1> DEFINE r == S[s]
<1>1. r \in SegmentType
  BY DEF SegsType
<1> HIDE DEF r
<1>2. [r EXCEPT !.used = n] \in SegmentType
  BY <1>1 DEF SegmentType
<1> QED
  BY <1>2, WriteSegment DEF r

LEMMA WriteTorn ==
  ASSUME NEW S \in SegsType, NEW s \in Segs, NEW b \in BOOLEAN
  PROVE  [S EXCEPT ![s].torn = b] \in SegsType
<1> DEFINE r == S[s]
<1>1. r \in SegmentType
  BY DEF SegsType
<1> HIDE DEF r
<1>2. [r EXCEPT !.torn = b] \in SegmentType
  BY <1>1 DEF SegmentType
<1> QED
  BY <1>2, WriteSegment DEF r

LEMMA NewSegmentType ==
  /\ NewSegment \in SegmentType
  /\ [NewSegment EXCEPT !.sized = TRUE, !.ready = TRUE] \in SegmentType
<1>1. NewSegment \in SegmentType
  BY DEF NewSegment, SegmentType
<1> DEFINE r == NewSegment
<1> HIDE DEF r
<1>2. [r EXCEPT !.sized = TRUE, !.ready = TRUE] \in SegmentType
  BY <1>1 DEF SegmentType, r
<1> QED
  BY <1>1, <1>2 DEF r

LEMMA NoJobType == NoJob \in JobType
  BY DEF NoJob, JobType

LEMMA WriteSlot ==
  ASSUME TypeOK, NEW p \in Procs, NEW i \in Slots
  PROVE  /\ [job EXCEPT ![p].slot = i] \in [Procs -> JobType]
         /\ [job EXCEPT ![p].slot = i, ![p].late = TRUE] \in [Procs -> JobType]
<1> DEFINE j == job[p]
<1>1. j \in JobType
  BY DEF TypeOK, JobType
<1>2. job \in [Procs -> JobType]
  BY DEF TypeOK, JobType
<1> HIDE DEF j
<1>3. [j EXCEPT !.slot = i] \in JobType
  BY <1>1 DEF JobType
<1>4. [j EXCEPT !.slot = i, !.late = TRUE] \in JobType
  BY <1>1 DEF JobType
<1>5. \A r \in JobType : [job EXCEPT ![p] = r] \in [Procs -> JobType]
  BY <1>2
<1> QED
  BY <1>3, <1>4, <1>5 DEF j

LEMMA WriteHandle ==
  ASSUME TypeOK, NEW p \in Procs, NEW h \in Handles, NEW e \in HandleType
  PROVE  [handle EXCEPT ![p][h] = e] \in [Procs -> [Handles -> HandleType]]
  BY DEF TypeOK, HandleType

LEMMA LiveFinite ==
  ASSUME NEW s
  PROVE  /\ IsFiniteSet(Live(s)) /\ Cardinality(Live(s)) \in Nat
         /\ Cardinality(Live(s)) <= MaxObjects
         /\ IsFiniteSet(Live(s)') /\ Cardinality(Live(s)') \in Nat
         /\ Cardinality(Live(s)') <= MaxObjects
<1>1. IsFiniteSet(Slots) /\ Cardinality(Slots) = MaxObjects
  BY FS_Interval, SizeAssumption DEF Slots
<1>2. \A T \in SUBSET Slots :
        IsFiniteSet(T) /\ Cardinality(T) \in Nat /\ Cardinality(T) <= MaxObjects
  BY <1>1, FS_Subset, FS_CardinalityType
<1> QED
  BY <1>2 DEF Live

LEMMA OnSlotFinite ==
  ASSUME NEW s, NEW i
  PROVE  /\ IsFiniteSet(OnSlot(s, i)) /\ Cardinality(OnSlot(s, i)) \in Nat
         /\ IsFiniteSet(OnSlot(s, i)') /\ Cardinality(OnSlot(s, i)') \in Nat
<1>1. IsFiniteSet(Procs \X Handles)
  BY FS_Product, FiniteAssumption
<1>2. \A T \in SUBSET (Procs \X Handles) : IsFiniteSet(T) /\ Cardinality(T) \in Nat
  BY <1>1, FS_Subset, FS_CardinalityType
<1>3. OnSlot(s, i) \in SUBSET (Procs \X Handles) /\ OnSlot(s, i)' \in SUBSET (Procs \X Handles)
  BY DEF OnSlot, OpenHandles
<1> QED
  BY <1>2, <1>3

\* The handles of a slot of a table, one by one.
LEMMA OnSlotIs ==
  ASSUME NEW s, NEW i \in Slots, NEW q \in Procs, NEW h \in Handles
  PROVE  /\ <<q, h>> \in OnSlot(s, i) <=> table[q] = s /\ handle[q][h].slot = i
         /\ <<q, h>> \in OnSlot(s, i)' <=> table'[q] = s /\ handle'[q][h].slot = i
<1>1. i # 0
  BY SizeAssumption DEF Slots
<1> QED
  BY <1>1 DEF OnSlot, OpenHandles

\* A set of pairs is known by its pairs.
LEMMA SamePairs ==
  ASSUME NEW S \in SUBSET (Procs \X Handles), NEW T \in SUBSET (Procs \X Handles),
         \A q \in Procs, h \in Handles : <<q, h>> \in S <=> <<q, h>> \in T
  PROVE  S = T
  OBVIOUS

\* A process without a table leaves a segment for the one that creates.
LEMMA UnreachableIs ==
  ASSUME TypeOK, NEW p \in Procs, table[p] = 0
  PROVE  Unreachable \in Segs /\ \A q \in Procs : table[q] # Unreachable
<1> SUFFICES ASSUME \A s \in Segs : \E q \in Procs : table[q] = s PROVE FALSE
  BY DEF Unreachable
<1> DEFINE n == Cardinality(Procs)
           g == [s \in Segs |-> CHOOSE q \in Procs : table[q] = s]
<1>1. n \in Nat /\ IsFiniteSet(Segs) /\ Cardinality(Segs) = n
  BY FiniteAssumption, FS_CardinalityType, FS_Interval DEF Segs
<1>2. IsFiniteSet(Procs \ {p}) /\ Cardinality(Procs \ {p}) = n - 1
  BY FiniteAssumption, FS_RemoveElement
<1>3. \A s \in Segs : g[s] \in Procs /\ table[g[s]] = s /\ s # 0
  BY <1>1 DEF Segs
<1>4. g \in [Segs -> Procs \ {p}]
  BY <1>3
<1> HIDE DEF g, n
<1>5. \E x, y \in Segs : x # y /\ g[x] = g[y]
  BY <1>1, <1>2, <1>4, FS_PigeonHole
<1> QED
  BY <1>3, <1>5

-----------------------------------------------------------------------------
LEMMA InitIInv == Init => IInv
<1> SUFFICES ASSUME Init PROVE IInv
  OBVIOUS
<1> USE DEF Init
<1>1. seg \in [Segs -> SegmentType]
  BY NewSegmentType
<1>2. job \in [Procs -> JobType] /\ handle \in [Procs -> [Handles -> HandleType]]
  BY DEF NoJob, Closed, JobType, HandleType
<1>3. TypeOK
  BY <1>1, <1>2, BoundAssumption DEF TypeOK, JobType, HandleType
<1>4. Locked /\ Mapped /\ Headed /\ Called
  BY NoneAssumption DEF Locked, Locking, Mapped, Headed, Author, Running, Starting, Called
<1>5. Opened /\ Found
  BY DEF Opened, Found, Closed
<1>6. \A s \in Segs : /\ \A i \in Slots : seg[s].name[i] = None /\ seg[s].nRef[i] = 0
                      /\ seg[s].used = 0
  BY DEF NewSegment
<1>7. \A s \in Segs : Live(s) = {}
  BY <1>6 DEF Live
<1>8. Unnamed /\ NameIsUnique /\ Refs
  BY <1>6, <1>7 DEF Unnamed, NameIsUnique, Refs
<1>9. HandleKeepsName /\ Filled
  BY DEF HandleKeepsName, OpenHandles, Closed, Filled
<1>10. Used /\ NotFull
  <2>1. \A s \in Segs : Cardinality(Live(s)) = 0 /\ Extra(s) = 0
    BY <1>7, FS_EmptySet DEF Extra, Ahead
  <2> QED
    BY <1>6, <2>1, SizeAssumption DEF Used, NotFull
<1>11. Shared
  BY DEF Shared, Author
<1>12. Tokens
  BY DEF Tokens, Owners, Pending, OpenHandles, Closed
<1> QED
  BY <1>3, <1>4, <1>5, <1>8, <1>9, <1>10, <1>11, <1>12 DEF IInv

-----------------------------------------------------------------------------
(***************************************************************************)
(* A process starts.  To the processes that are running, the segments stay *)
(* as they are, except that a census repairs the count.                    *)
(***************************************************************************)
Same(s) ==
  /\ seg'[s].name = seg[s].name /\ seg'[s].nRef = seg[s].nRef
  /\ seg'[s].used = seg[s].used /\ seg'[s].torn = seg[s].torn

Blank(s) ==
  /\ \A i \in Slots : seg'[s].name[i] = None /\ seg'[s].nRef[i] = 0
  /\ seg'[s].used = 0
  /\ \A q \in Procs : pc[q] \in Running => table[q] # s

Recounted(s) ==
  /\ seg'[s].name = seg[s].name /\ seg'[s].nRef = seg[s].nRef
  /\ seg'[s].used = Cardinality(Live(s))
  /\ lock = None

StartFrame(p) ==
  /\ pc[p] \notin Running
  /\ pc'[p] \notin Running \ {"idle"}
  /\ \A q \in Procs \ {p} : pc'[q] = pc[q] /\ table'[q] = table[q]
  /\ UNCHANGED <<lock, job, handle, fifo>>
  /\ events \subseteq events'
  /\ \A s \in Segs : Same(s) \/ Blank(s) \/ Recounted(s)

LEMMA StartKeepsCalls ==
  ASSUME IInv, TypeOK', NEW p \in Procs, StartFrame(p)
  PROVE  Locked' /\ Called' /\ Opened' /\ Found' /\ HandleKeepsName' /\ Filled' /\ Tokens'
<1> USE DEF IInv, StartFrame
<1>1. pc[p] \notin Locking /\ pc'[p] \notin Locking
  BY DEF Locking, Running
<1>2. Locked'
  BY <1>1 DEF Locked
<1>3. Called'
  BY DEF Called, Running
<1>4. \A h \in Handles : handle[p][h].slot = 0
  BY DEF Opened
<1>5. Opened'
  BY <1>4 DEF Opened
<1>6. \A q \in Procs : pc[q] \in Running =>
        /\ q # p /\ table[q] \in Segs
        /\ seg'[table[q]].name = seg[table[q]].name
        /\ seg'[table[q]].nRef = seg[table[q]].nRef
  BY DEF Mapped, Running, TypeOK, Same, Blank, Recounted
<1>7. Found'
  BY <1>6 DEF Found, Running, Tab
<1>8. HandleKeepsName'
  BY <1>6 DEF HandleKeepsName, OpenHandles, Opened, Tab
<1>9. Filled'
  BY DEF Filled, Linked, OpenHandles
<1>10. \A i \in Slots : Owners(i)' = Owners(i) /\ Pending(i)' = Pending(i)
  BY DEF Owners, Pending, OpenHandles, Running
<1>11. Tokens'
  BY <1>10 DEF Tokens
<1> QED
  BY <1>2, <1>3, <1>5, <1>7, <1>8, <1>9, <1>11

LEMMA StartKeepsTable ==
  ASSUME IInv, TypeOK', NEW p \in Procs, StartFrame(p)
  PROVE  Unnamed' /\ NameIsUnique' /\ Refs' /\ Used' /\ NotFull'
<1> USE DEF IInv, StartFrame
<1>1. ASSUME NEW s \in Segs
      PROVE  \/ Blank(s) /\ Live(s)' = {}
             \/ seg'[s].name = seg[s].name /\ seg'[s].nRef = seg[s].nRef /\ Live(s)' = Live(s)
  BY DEF Same, Blank, Recounted, Live
<1>2. Unnamed'
  BY <1>1 DEF Unnamed, Blank
<1>3. NameIsUnique'
  BY <1>1 DEF NameIsUnique
<1>4. \A h \in Handles : handle[p][h].slot = 0
  BY DEF Opened
<1>5. lock # p /\ \A s, i : Between(s, i)' <=> Between(s, i)
  BY NoneAssumption DEF Between, Locked, Locking, Running, TypeOK
<1>6. ASSUME NEW s, NEW i \in Slots PROVE OnSlot(s, i)' = OnSlot(s, i)
  <2>1. i # 0
    BY SizeAssumption DEF Slots
  <2> QED
    BY <1>4, <2>1 DEF OnSlot, OpenHandles
<1>7. Refs'
  <2> SUFFICES ASSUME "wiped" \notin events', NEW s \in Segs, NEW i \in Live(s)'
               PROVE  /\ seg'[s].nRef[i] >= Cardinality(OnSlot(s, i)')
                      /\ "died" \notin events' =>
                            /\ seg'[s].nRef[i] = Cardinality(OnSlot(s, i)')
                            /\ seg'[s].nRef[i] > 0 \/ Between(s, i)'
    BY DEF Refs
  <2>1. i \in Slots /\ i \in Live(s) /\ seg'[s].nRef = seg[s].nRef
    BY <1>1 DEF Live
  <2> QED
    BY <1>5, <1>6, <2>1 DEF Refs
<1>8. \A s : Ahead(s)' <=> Ahead(s)
  BY <1>5, NoneAssumption DEF Ahead, TypeOK
<1>9. Used'
  <2> SUFFICES ASSUME NEW s \in Segs
               PROVE  /\ seg'[s].used >= Cardinality(Live(s)') + Extra(s)'
                      /\ ~seg'[s].torn => seg'[s].used = Cardinality(Live(s)') + Extra(s)'
    BY DEF Used
  <2>1. Extra(s)' = Extra(s)
    BY <1>8 DEF Extra
  <2>2. CASE Same(s)
    BY <1>1, <2>1, <2>2 DEF Used, Same, Live
  <2>3. CASE Blank(s)
    <3>1. ~Ahead(s)
      BY <2>3 DEF Ahead, Blank, Running, TypeOK
    <3>2. Cardinality(Live(s)') = 0
      BY <2>3, FS_EmptySet DEF Live, Blank
    <3> QED
      BY <2>1, <2>3, <3>1, <3>2 DEF Blank, Extra
  <2>4. CASE Recounted(s)
    <3>1. ~Ahead(s) /\ Live(s)' = Live(s)
      BY <2>4 DEF Ahead, Recounted, Live
    <3> QED
      BY <2>1, <2>4, <3>1, LiveFinite DEF Recounted, Extra
  <2> QED
    BY <2>2, <2>3, <2>4
<1>10. NotFull'
  BY LiveFinite, SizeAssumption DEF NotFull, Same, Blank, Recounted
<1> QED
  BY <1>2, <1>3, <1>7, <1>9, <1>10

LEMMA StartKeeps ==
  ASSUME IInv, TypeOK', NEW p \in Procs, StartFrame(p), Mapped', Headed', Shared'
  PROVE  IInv'
  BY StartKeepsCalls, StartKeepsTable DEF IInv

\* A step by which nobody creates or gives up a segment.
OrderFrame ==
  /\ shm' = shm /\ events \subseteq events'
  /\ \A q \in Procs :
       /\ Author(q)' => Author(q) /\ table'[q] = table[q]
       /\ pc'[q] \in Running => table'[q] = table[q] /\ (pc[q] \in Running \/ Tab(q).ready)
       /\ pc'[q] = "discard" => pc[q] = "discard" /\ table'[q] = table[q]
       /\ table'[q] \in {0, shm, table[q]}
  /\ \A s \in Segs : seg'[s].ready = seg[s].ready

LEMMA OrderKept == ASSUME IInv, TypeOK', Mapped', OrderFrame PROVE Headed' /\ Shared'
<1> USE DEF IInv, OrderFrame
<1>1. \A q \in Procs : Author(q) \/ pc[q] \in Running \/ pc[q] = "discard" => table[q] \in Segs
  BY DEF Mapped, Author, Starting, Running, TypeOK
<1>2. \A q \in Procs : table'[q] # 0 => table'[q] \in Segs
  BY DEF TypeOK
<1>3. Headed'
  <2>1. \A q \in Procs : pc'[q] \in Running => table[q] \in Segs
    BY DEF Mapped, Running, TypeOK
  <2> QED
    BY <1>1, <2>1 DEF Headed, Tab
<1>4. Shared'
  <2> SUFFICES ASSUME events' \cap {"raced", "overfull"} = {}
               PROVE  /\ \A q \in Procs : Author(q)' => table'[q] = shm'
                      /\ \A q \in Procs : table'[q] # 0 /\ Tab(q)'.ready => table'[q] = shm'
                      /\ \A q \in Procs : pc'[q] = "discard" =>
                           /\ ~Tab(q)'.ready
                           /\ \A r \in Procs : Author(r)' => table'[r] # table'[q]
    BY DEF Shared
  <2>1. events \cap {"raced", "overfull"} = {}
    OBVIOUS
  <2>2. \A q \in Procs : Author(q)' => table'[q] = shm'
    BY <2>1 DEF Shared
  <2>3. \A q \in Procs : table'[q] # 0 /\ Tab(q)'.ready => table'[q] = shm'
    BY <1>2, <2>1 DEF Shared, Tab
  <2>4. \A q \in Procs : pc'[q] = "discard" =>
          ~Tab(q)'.ready /\ \A r \in Procs : Author(r)' => table'[r] # table'[q]
    BY <1>1, <2>1 DEF Shared, Tab
  <2> QED
    BY <2>2, <2>3, <2>4
<1> QED
  BY <1>3, <1>4

LEMMA OpenSegmentStep == ASSUME IInv, NEW p \in Procs, OpenSegment(p) PROVE IInv'
<1> USE DEF IInv, OpenSegment, Startup, Goto
<1>1. TypeOK'
  BY DEF TypeOK
<1>2. StartFrame(p)
  BY DEF StartFrame, TypeOK, Running, Same
<1>3. \A q \in Procs : Author(q)' => Author(q) /\ table'[q] = table[q]
  BY DEF Author, TypeOK, Starting
<1>4. \A q \in Procs : pc'[q] \in Running \cup {"discard"} => pc'[q] = pc[q] /\ table'[q] = table[q]
  BY DEF Running, TypeOK
<1>5. Mapped' /\ \A q \in Procs : table'[q] \in {0, shm, table[q]}
  BY DEF Mapped, TypeOK
<1>6. OrderFrame
  BY <1>3, <1>4, <1>5 DEF OrderFrame
<1>7. Headed' /\ Shared'
  BY <1>1, <1>5, <1>6, OrderKept
<1> QED
  BY <1>1, <1>2, <1>5, <1>7, StartKeeps

LEMMA CreateSegmentStep == ASSUME IInv, NEW p \in Procs, CreateSegment(p) PROVE IInv'
<1> USE DEF IInv, CreateSegment, Startup, Goto
<1>1. table[p] = 0 /\ pc[p] = "missed"
  BY DEF Mapped
<1>2. CASE shm # 0
  <2>1. TypeOK'
    BY <1>2 DEF TypeOK
  <2>2. StartFrame(p)
    BY <1>2 DEF StartFrame, TypeOK, Running, Same
  <2>3. \A q \in Procs : Author(q)' => Author(q)
    BY <1>2 DEF Author, TypeOK, Starting
  <2>4. \A q \in Procs : pc'[q] \in Running \cup {"discard"} => pc'[q] = pc[q]
    BY <1>2 DEF Running, TypeOK
  <2>5. Mapped'
    BY <1>2 DEF Mapped, TypeOK
  <2>6. OrderFrame
    BY <1>2, <2>3, <2>4 DEF OrderFrame
  <2>7. Headed' /\ Shared'
    BY <2>1, <2>5, <2>6, OrderKept
  <2> QED
    BY <2>1, <2>2, <2>5, <2>7, StartKeeps
<1>3. CASE shm = 0
  <2> DEFINE u == Unreachable
  <2>1. u \in Segs /\ u # 0 /\ \A q \in Procs : table[q] # u
    BY <1>1, UnreachableIs DEF Segs, TypeOK
  <2>2. /\ shm' = u /\ seg' = [seg EXCEPT ![u] = NewSegment]
        /\ table' = [table EXCEPT ![p] = u]
        /\ created' = [created EXCEPT ![p] = TRUE]
        /\ pc' = [pc EXCEPT ![p] = "truncate"]
    BY <1>3
  <2> HIDE DEF u
  <2>3. seg' \in SegsType
    BY <2>1, <2>2, NewSegmentType, WriteSegment DEF TypeOK, SegsType
  <2>4. TypeOK'
    BY <2>1, <2>2, <2>3 DEF TypeOK, SegsType
  <2>5. \A s \in Segs : s # u => seg'[s] = seg[s]
    BY <2>2 DEF TypeOK
  <2>6. seg'[u] = NewSegment
    BY <2>1, <2>2 DEF TypeOK
  <2>7. Blank(u) /\ \A s \in Segs : s # u => Same(s)
    BY <2>1, <2>5, <2>6 DEF Blank, Same, NewSegment
  <2>8. StartFrame(p)
    BY <1>1, <2>2, <2>7 DEF StartFrame, TypeOK, Running
  <2>9. \A q \in Procs : q # p =>
          (Author(q)' <=> Author(q)) /\ table'[q] = table[q] /\ pc'[q] = pc[q]
          /\ table'[q] # u
          /\ (table[q] # 0 => table[q] \in Segs /\ seg'[table[q]] = seg[table[q]])
    BY <2>1, <2>2, <2>5 DEF Author, TypeOK
  <2>10. table'[p] = u /\ ~seg'[u].ready /\ pc'[p] = "truncate"
    BY <2>2, <2>6 DEF NewSegment, TypeOK
  <2>11. Mapped'
    BY <2>1, <2>2 DEF Mapped, TypeOK
  <2>12. \A q \in Procs : Author(q) \/ pc[q] \in Running \/ pc[q] = "discard" => table[q] # 0
    BY DEF Mapped, Author, Starting, Running
  <2>13. Headed'
    BY <2>9, <2>10, <2>12 DEF Headed, Running, Tab
  <2>14. Shared'
    <3> SUFFICES ASSUME events \cap {"raced", "overfull"} = {}
                 PROVE  /\ \A q \in Procs : Author(q)' => table'[q] = shm'
                        /\ \A q \in Procs : table'[q] # 0 /\ Tab(q)'.ready => table'[q] = shm'
                        /\ \A q \in Procs : pc'[q] = "discard" =>
                             /\ ~Tab(q)'.ready
                             /\ \A r \in Procs : Author(r)' => table'[r] # table'[q]
      BY DEF Shared
    <3>1. \A q \in Procs : ~Author(q)
      BY <1>3, <2>12 DEF Shared
    <3>2. \A q \in Procs : table[q] # 0 => ~Tab(q).ready
      BY <1>3 DEF Shared
    <3> QED
      BY <2>2, <2>9, <2>10, <2>12, <3>1, <3>2 DEF Tab
  <2> QED
    BY <2>4, <2>8, <2>11, <2>13, <2>14, StartKeeps
<1> QED
  BY <1>2, <1>3

LEMMA TruncateStep == ASSUME IInv, NEW p \in Procs, Truncate(p) PROVE IInv'
<1> USE DEF IInv, Truncate, Startup, Goto
<1>1. table[p] \in Segs
  BY DEF Mapped, TypeOK
<1>2. seg' \in SegsType
  <2> DEFINE r == seg[table[p]]
  <2>1. r \in SegmentType
    BY <1>1 DEF TypeOK
  <2> HIDE DEF r
  <2>2. [r EXCEPT !.sized = TRUE] \in SegmentType
    BY <2>1 DEF SegmentType
  <2>3. seg' = [seg EXCEPT ![table[p]] = [r EXCEPT !.sized = TRUE]]
    BY DEF r
  <2> QED
    BY <1>1, <2>2, <2>3, WriteSegment DEF TypeOK, SegsType
<1>3. TypeOK'
  BY <1>2 DEF TypeOK, SegsType
<1>4. \A s \in Segs : Same(s) /\ seg'[s].ready = seg[s].ready
  BY <1>1 DEF Same, TypeOK, SegmentType
<1>5. StartFrame(p)
  BY <1>4 DEF StartFrame, TypeOK, Running
<1>6. \A q \in Procs : Author(q)' <=> Author(q)
  BY DEF Author, Starting, TypeOK
<1>7. \A q \in Procs : pc'[q] \in Running \cup {"discard"} => pc'[q] = pc[q]
  BY DEF Running, TypeOK
<1>8. Mapped'
  BY DEF Mapped, TypeOK
<1>9. OrderFrame
  BY <1>4, <1>6, <1>7 DEF OrderFrame
<1>10. Headed' /\ Shared'
  BY <1>3, <1>8, <1>9, OrderKept
<1> QED
  BY <1>3, <1>5, <1>8, <1>10, StartKeeps

LEMMA MapSegmentStep == ASSUME IInv, NEW p \in Procs, MapSegment(p) PROVE IInv'
<1> USE DEF IInv, MapSegment, Startup, Goto
<1>1. TypeOK'
  BY DEF TypeOK
<1>2. StartFrame(p)
  BY DEF StartFrame, TypeOK, Running, Same
<1>3. \A q \in Procs : Author(q)' => Author(q) /\ table'[q] = table[q]
  BY DEF Author, TypeOK, Starting
<1>4. \A q \in Procs : pc'[q] \in Running \cup {"discard"} => pc'[q] = pc[q] /\ table'[q] = table[q]
  BY DEF Running, TypeOK
<1>5. Mapped' /\ \A q \in Procs : table'[q] \in {0, shm, table[q]}
  BY DEF Mapped, TypeOK
<1>6. OrderFrame
  BY <1>3, <1>4, <1>5 DEF OrderFrame
<1>7. Headed' /\ Shared'
  BY <1>1, <1>5, <1>6, OrderKept
<1> QED
  BY <1>1, <1>2, <1>5, <1>7, StartKeeps

LEMMA CensusStep == ASSUME IInv, NEW p \in Procs, Census(p) PROVE IInv'
<1> USE DEF IInv, Census, Startup, Goto
<1> DEFINE s0 == table[p]
           n == Cardinality(Live(s0))
<1>1. s0 \in Segs
  BY DEF Mapped, TypeOK
<1>2. n \in Nat
  BY LiveFinite
<1>3. seg' \in SegsType
  <2> DEFINE A == [seg EXCEPT ![s0].used = n]
  <2>1. seg' = [A EXCEPT ![s0].torn = FALSE]
    OBVIOUS
  <2> HIDE DEF s0, n
  <2>2. A \in SegsType
    BY <1>1, <1>2, WriteUsed DEF TypeOK, SegsType
  <2> HIDE DEF A
  <2> QED
    BY <1>1, <2>1, <2>2, WriteTorn
<1>4. TypeOK'
  BY <1>3 DEF TypeOK, SegsType
<1>5. /\ Recounted(s0) /\ seg'[s0].ready = seg[s0].ready
      /\ \A s \in Segs : s # s0 => Same(s) /\ seg'[s].ready = seg[s].ready
  BY <1>1 DEF Recounted, Same, TypeOK, SegmentType
<1>6. StartFrame(p)
  BY <1>5 DEF StartFrame, TypeOK, Running
<1>7. \A q \in Procs : Author(q)' => Author(q)
  BY DEF Author, Starting, TypeOK
<1>8. /\ \A q \in Procs : q # p => pc'[q] = pc[q]
      /\ pc'[p] = "idle" /\ Tab(p).ready
  BY DEF TypeOK, LayoutMismatch
<1>9. Mapped'
  BY DEF Mapped, TypeOK
<1>10. OrderFrame
  BY <1>1, <1>5, <1>7, <1>8 DEF OrderFrame
<1>11. Headed' /\ Shared'
  BY <1>4, <1>9, <1>10, OrderKept
<1> QED
  BY <1>4, <1>6, <1>9, <1>11, StartKeeps

LEMMA DiscardStep == ASSUME IInv, NEW p \in Procs, Discard(p) PROVE IInv'
<1> USE DEF IInv, Discard, Startup, Goto
<1>1. TypeOK'
  BY DEF TypeOK
<1>2. StartFrame(p)
  BY DEF StartFrame, TypeOK, Running, Same
<1>3. ~Author(p) /\ \A q \in Procs : Author(q)' => Author(q)
  BY DEF Author, Starting, TypeOK
<1>4. Mapped'
  BY DEF Mapped, TypeOK
<1>5. Headed'
  BY <1>2, <1>3 DEF Headed, StartFrame, Running, Tab
<1>6. Shared'
  <2> SUFFICES ASSUME events' \cap {"raced", "overfull"} = {}
               PROVE  /\ \A q \in Procs : Author(q)' => table[q] = shm
                      /\ \A q \in Procs : table[q] # 0 /\ Tab(q).ready => table[q] = shm
                      /\ \A q \in Procs : pc'[q] = "discard" =>
                           /\ ~Tab(q).ready
                           /\ \A r \in Procs : Author(r)' => table[r] # table[q]
    BY DEF Shared, Tab
  <2>1. events \cap {"raced", "overfull"} = {} /\ ~Unborn(p)
    OBVIOUS
  <2>2. ~Tab(p).ready
    <3>1. seg[table[p]].used \in Nat /\ seg[table[p]].used <= MaxObjects
      BY <2>1 DEF NotFull, Mapped, TypeOK, SegmentType
    <3> QED
      BY <3>1, SizeAssumption DEF LayoutMismatch, Tab
  <2>3. \A r \in Procs : Author(r) => table[r] # table[p]
    BY <1>3, <2>1 DEF Unborn, Author, Starting
  <2>4. \A q \in Procs : q # p => pc'[q] = pc[q]
    BY DEF TypeOK
  <2> QED
    BY <1>3, <2>1, <2>2, <2>3, <2>4 DEF Shared
<1> QED
  BY <1>1, <1>2, <1>4, <1>5, <1>6, StartKeeps

LEMMA UnlinkSegmentStep == ASSUME IInv, NEW p \in Procs, UnlinkSegment(p) PROVE IInv'
<1> USE DEF IInv, UnlinkSegment, Startup, Goto
<1>1. TypeOK'
  BY DEF TypeOK
<1>2. StartFrame(p)
  BY DEF StartFrame, TypeOK, Running, Same
<1>3. \A q \in Procs : q # p => pc'[q] = pc[q] /\ table'[q] = table[q] /\ (Author(q)' <=> Author(q))
  BY DEF Author, TypeOK
<1>4. ~Author(p)' /\ pc'[p] \in {"retry", "failed"} /\ table'[p] = 0
  BY DEF Author, Starting, TypeOK
<1>5. Mapped'
  BY <1>3, <1>4 DEF Mapped
<1>6. Headed'
  BY <1>3, <1>4 DEF Headed, Running, Tab
<1>7. Shared'
  <2> SUFFICES ASSUME events' \cap {"raced", "overfull"} = {}
               PROVE  /\ \A q \in Procs : Author(q)' => table'[q] = shm'
                      /\ \A q \in Procs : table'[q] # 0 /\ Tab(q)'.ready => table'[q] = shm'
                      /\ \A q \in Procs : pc'[q] = "discard" =>
                           /\ ~Tab(q)'.ready
                           /\ \A r \in Procs : Author(r)' => table'[r] # table'[q]
    BY DEF Shared
  <2>1. events \cap {"raced", "overfull"} = {} /\ shm = table[p]
    OBVIOUS
  <2>2. \A q \in Procs : ~Author(q)
    BY <2>1 DEF Shared
  <2>3. \A q \in Procs : table[q] # 0 => ~Tab(q).ready
    BY <2>1 DEF Shared, Tab
  <2>4. \A q \in Procs : pc[q] = "discard" => ~Tab(q).ready
    BY <2>1 DEF Shared
  <2> QED
    BY <1>3, <1>4, <2>2, <2>3, <2>4 DEF Tab
<1> QED
  BY <1>1, <1>2, <1>5, <1>6, <1>7, StartKeeps

LEMMA WriteHeaderStep == ASSUME IInv, NEW p \in Procs, WriteHeader(p) PROVE IInv'
<1> USE DEF IInv, WriteHeader, Startup, Goto
<1> DEFINE s0 == table[p]
           r0 == [NewSegment EXCEPT !.sized = TRUE, !.ready = TRUE]
<1>1. s0 \in Segs
  BY DEF Mapped, TypeOK
<1>2. Author(p) /\ ~Tab(p).ready
  BY DEF Author, Starting, Headed
<1>3. TypeOK'
  BY <1>1, NewSegmentType, WriteSegment DEF TypeOK, SegsType
<1>4. seg'[s0] = r0 /\ \A s \in Segs : s # s0 => seg'[s] = seg[s]
  BY <1>1 DEF TypeOK
<1>5. seg'[s0].ready /\ Blank(s0) /\ \A s \in Segs : s # s0 => Same(s)
  <2>1. r0.ready /\ r0.used = 0 /\ \A i \in Slots : r0.name[i] = None /\ r0.nRef[i] = 0
    BY DEF NewSegment
  <2>2. \A q \in Procs : pc[q] \in Running => table[q] # s0
    BY <1>2 DEF Headed, Tab
  <2> QED
    BY <1>4, <2>1, <2>2 DEF Blank, Same
<1>6. StartFrame(p)
  BY <1>5 DEF StartFrame, TypeOK, Running
<1>7. Mapped'
  BY DEF Mapped, TypeOK
<1>8. /\ ~Author(p)' /\ pc'[p] = "idle"
      /\ \A q \in Procs : q # p => pc'[q] = pc[q] /\ (Author(q)' <=> Author(q))
  BY DEF Author, Starting, TypeOK
<1>9. \A q \in Procs : q # p /\ Author(q) => table[q] # s0
  BY <1>2 DEF Headed
<1>10. \A q \in Procs : Author(q) \/ pc[q] \in Running \/ pc[q] = "discard" => table[q] \in Segs
  BY DEF Mapped, Author, Starting, Running, TypeOK
<1>11. Headed'
  BY <1>4, <1>5, <1>8, <1>9, <1>10 DEF Headed, Tab
<1>12. Shared'
  <2> SUFFICES ASSUME events \cap {"raced", "overfull"} = {}
               PROVE  /\ \A q \in Procs : Author(q)' => table[q] = shm
                      /\ \A q \in Procs : table[q] # 0 /\ seg'[table[q]].ready => table[q] = shm
                      /\ \A q \in Procs : pc'[q] = "discard" =>
                           /\ ~seg'[table[q]].ready
                           /\ \A r \in Procs : Author(r)' => table[r] # table[q]
    BY DEF Shared, Tab
  <2>1. s0 = shm /\ \A q \in Procs : pc[q] = "discard" => table[q] # s0
    BY <1>2 DEF Shared
  <2>2. \A q \in Procs : Author(q)' => table[q] = shm
    BY <1>8 DEF Shared
  <2>3. \A q \in Procs : table[q] # 0 /\ seg'[table[q]].ready => table[q] = shm
    BY <1>4, <2>1 DEF Shared, Tab, TypeOK
  <2>4. \A q \in Procs : pc'[q] = "discard" =>
          ~seg'[table[q]].ready /\ \A r \in Procs : Author(r)' => table[r] # table[q]
    BY <1>4, <1>8, <1>10, <2>1 DEF Shared, Tab
  <2> QED
    BY <2>2, <2>3, <2>4
<1> QED
  BY <1>3, <1>6, <1>7, <1>11, <1>12, StartKeeps

-----------------------------------------------------------------------------
(***************************************************************************)
(* A process that has its table.  The lemmas say what a step that leaves   *)
(* some of the state alone preserves.                                      *)
(***************************************************************************)
RunFrame(p) ==
  /\ pc[p] \in Running /\ pc'[p] \in Running
  /\ \A q \in Procs \ {p} : pc'[q] = pc[q] /\ job'[q] = job[q]
  /\ UNCHANGED Attached
  /\ events \subseteq events'
  /\ \A s \in Segs : seg'[s].ready = seg[s].ready

LEMMA RunKeeps ==
  ASSUME IInv, TypeOK', NEW p \in Procs, RunFrame(p)
  PROVE  Mapped' /\ Headed' /\ Shared'
<1> USE DEF IInv, RunFrame, Attached
<1>1. Mapped'
  BY DEF Mapped, Running
<1>2. \A q \in Procs : Author(q)' <=> Author(q)
  BY DEF Author, Starting, Running
<1>3. OrderFrame
  BY <1>2 DEF OrderFrame, Running
<1> QED
  BY <1>1, <1>3, OrderKept

LEMMA HasTable == ASSUME IInv, NEW q \in Procs, pc[q] \in Running PROVE table[q] \in Segs
  BY DEF IInv, Mapped, Running, TypeOK

LEMMA OpenHasTable ==
  ASSUME IInv, NEW x \in OpenHandles
  PROVE  /\ x[1] \in Procs /\ x[2] \in Handles /\ x = <<x[1], x[2]>>
         /\ pc[x[1]] \in Running /\ table[x[1]] \in Segs
         /\ handle[x[1]][x[2]].slot \in Slots
<1>1. x[1] \in Procs /\ x[2] \in Handles /\ pc[x[1]] \in Running /\ x = <<x[1], x[2]>>
  BY DEF IInv, OpenHandles, Opened
<1>2. handle[x[1]][x[2]].slot \in Slots
  BY <1>1 DEF IInv, TypeOK, OpenHandles
<1> QED
  BY <1>1, <1>2, HasTable

SlotsKept ==
  \A q \in Procs, h \in Handles :
    handle'[q][h].slot = handle[q][h].slot /\ handle'[q][h].name = handle[q][h].name

NamesKept == \A s \in Segs : seg'[s].name = seg[s].name
RefsKept == \A s \in Segs : seg'[s].nRef = seg[s].nRef

\* Neither names nor references nor handles change.
LEMMA TableKept ==
  ASSUME IInv, TypeOK', table' = table, events \subseteq events', SlotsKept, NamesKept, RefsKept,
         \A s \in Segs, i \in Slots : Between(s, i) => Between(s, i)'
  PROVE  Unnamed' /\ NameIsUnique' /\ HandleKeepsName' /\ Refs'
<1> USE DEF IInv, NamesKept, RefsKept
<1>1. \A s \in Segs : Live(s)' = Live(s) /\ Live(s) \subseteq Slots
  BY DEF Live
<1>2. Unnamed' /\ NameIsUnique'
  BY <1>1 DEF Unnamed, NameIsUnique
<1>3. OpenHandles' = OpenHandles /\ \A x \in OpenHandles : table[x[1]] \in Segs
  BY OpenHasTable DEF OpenHandles, SlotsKept
<1>4. HandleKeepsName'
  BY <1>3 DEF HandleKeepsName, SlotsKept, Tab, OpenHandles
<1>5. \A s, i : OnSlot(s, i)' = OnSlot(s, i)
  BY <1>3 DEF OnSlot, SlotsKept, OpenHandles
<1>6. Refs'
  BY <1>1, <1>5 DEF Refs
<1> QED
  BY <1>2, <1>4, <1>6

\* Neither names nor the count of objects change.
LEMMA UsedKept ==
  ASSUME IInv, TypeOK', events \subseteq events', NamesKept,
         \A s \in Segs : seg'[s].used = seg[s].used /\ seg'[s].torn = seg[s].torn,
         \A s \in Segs : Ahead(s)' <=> Ahead(s)
  PROVE  Used' /\ NotFull'
<1> USE DEF IInv, NamesKept
<1>1. \A s \in Segs : Live(s)' = Live(s) /\ Extra(s)' = Extra(s)
  BY DEF Live, Extra
<1> QED
  BY <1>1 DEF Used, NotFull

\* No fifo is touched, and nobody gets or is to write a token.
LEMMA TokensKept ==
  ASSUME IInv, TypeOK', events \subseteq events', UNCHANGED <<handle, fifo>>,
         \A i \in Slots : Pending(i)' \subseteq Pending(i)
  PROVE  Filled' /\ Tokens'
<1> USE DEF IInv
<1>1. Filled'
  BY DEF Filled, Linked, OpenHandles
<1>2. \A i \in Slots : Owners(i)' = Owners(i)
  BY DEF Owners, OpenHandles
<1>3. Tokens'
  BY <1>2 DEF Tokens
<1> QED
  BY <1>1, <1>3

\* A reference and a handle are added to slot i of the table of p.
AddsHandle(p, h, n, i) ==
  /\ handle[p][h].slot = 0
  /\ handle'[p][h].slot = i /\ handle'[p][h].name = n
  /\ \A q \in Procs, g \in Handles : q # p \/ g # h => handle'[q][g] = handle[q][g]
  /\ Tab(p).name[i] = n
  /\ seg'[table[p]].nRef[i] = Tab(p).nRef[i] + 1
  /\ \A s \in Segs : \A j \in Slots : s # table[p] \/ j # i => seg'[s].nRef[j] = seg[s].nRef[j]

LEMMA HandleAdded ==
  ASSUME IInv, TypeOK', table' = table, events \subseteq events', NamesKept,
         NEW p \in Procs, NEW h \in Handles, NEW n \in Names, NEW i \in Slots,
         pc[p] \in Running, AddsHandle(p, h, n, i),
         \A s \in Segs, j \in Slots : Between(s, j) => s = table[p] /\ j = i
  PROVE  Unnamed' /\ NameIsUnique' /\ HandleKeepsName' /\ Refs'
<1> USE DEF IInv, AddsHandle, NamesKept
<1>1. table[p] \in Segs
  BY HasTable
<1>2. \A s \in Segs : Live(s)' = Live(s) /\ Live(s) \subseteq Slots
  BY DEF Live
<1>3. Unnamed' /\ NameIsUnique'
  BY <1>1, <1>2, NoneAssumption DEF Unnamed, NameIsUnique, Tab
<1>4. \A x \in OpenHandles : table[x[1]] \in Segs
  BY OpenHasTable
<1>5. OpenHandles' = OpenHandles \cup {<<p, h>>}
  <2>1. i # 0
    BY SizeAssumption DEF Slots
  <2> QED
    BY <2>1 DEF OpenHandles
<1>6. HandleKeepsName'
  <2> SUFFICES ASSUME "wiped" \notin events', NEW x \in OpenHandles'
               PROVE  seg'[table[x[1]]].name[handle'[x[1]][x[2]].slot] = handle'[x[1]][x[2]].name
    BY DEF HandleKeepsName, Tab
  <2>1. CASE x = <<p, h>>
    BY <1>1, <2>1 DEF Tab
  <2>2. CASE x # <<p, h>>
    <3>1. x \in OpenHandles /\ handle'[x[1]][x[2]] = handle[x[1]][x[2]]
      BY <1>5, <2>2 DEF OpenHandles
    <3> QED
      BY <1>4, <3>1 DEF HandleKeepsName, Tab
  <2> QED
    BY <2>1, <2>2
<1>7. Refs'
  <2> SUFFICES ASSUME "wiped" \notin events', NEW s \in Segs, NEW j \in Live(s)'
               PROVE  /\ seg'[s].nRef[j] >= Cardinality(OnSlot(s, j)')
                      /\ "died" \notin events' =>
                            /\ seg'[s].nRef[j] = Cardinality(OnSlot(s, j)')
                            /\ seg'[s].nRef[j] > 0 \/ Between(s, j)'
    BY DEF Refs
  <2>1. j \in Slots /\ j \in Live(s)
    BY <1>2
  <2>2. CASE s = table[p] /\ j = i
    <3>1. OnSlot(s, j)' = OnSlot(s, j) \cup {<<p, h>>}
      <4>1. \A x \in OpenHandles : x # <<p, h>> /\ handle'[x[1]][x[2]] = handle[x[1]][x[2]]
        BY DEF OpenHandles
      <4> QED
        BY <1>5, <2>2, <4>1 DEF OnSlot
    <3>2. <<p, h>> \notin OnSlot(s, j)
      BY <2>1, OnSlotIs, SizeAssumption DEF Slots
    <3>3. Cardinality(OnSlot(s, j)') = Cardinality(OnSlot(s, j)) + 1
      BY <3>1, <3>2, FS_AddElement, OnSlotFinite
    <3>4. seg'[s].nRef[j] = seg[s].nRef[j] + 1 /\ seg[s].nRef[j] \in Int
      BY <2>1, <2>2 DEF Tab, TypeOK, SegmentType
    <3> QED
      BY <2>1, <3>3, <3>4, OnSlotFinite DEF Refs
  <2>3. CASE s # table[p] \/ j # i
    <3>1. OnSlot(s, j)' = OnSlot(s, j)
      BY <1>5, <2>1, <2>3, OnSlotIs DEF OnSlot, OpenHandles
    <3> QED
      BY <2>1, <2>3, <3>1 DEF Refs
  <2> QED
    BY <2>2, <2>3
<1> QED
  BY <1>3, <1>6, <1>7

\* What the holder of the lock relies on is its own business.
LEMMA LockKept ==
  ASSUME IInv, NEW p \in Procs, RunFrame(p), lock' = lock, lock # p
  PROVE  \A s, i : (Between(s, i)' <=> Between(s, i)) /\ (Ahead(s)' <=> Ahead(s))
<1>1. lock = None \/ lock \in Procs \ {p}
  BY DEF IInv, TypeOK
<1> QED
  BY <1>1 DEF RunFrame, Attached, Between, Ahead

LEMMA LockFree ==
  ASSUME IInv, lock = None
  PROVE  \A q \in Procs : pc[q] \notin Locking
  BY NoneAssumption DEF IInv, Locked

LEMMA LockMine ==
  ASSUME IInv, NEW p \in Procs, lock = p
  PROVE  \A q \in Procs \ {p} : pc[q] \notin Locking
  BY DEF IInv, Locked

FoundBy(p) ==
  /\ pc[p] = "alloc" => \A i \in Slots : Tab(p).name[i] # job[p].name
  /\ pc[p] = "init2" => Tab(p).name[job[p].slot] = job[p].name
  /\ pc[p] = "init2" /\ ~job[p].late => Tab(p).nRef[job[p].slot] = 0
  /\ pc[p] = "free" => /\ Tab(p).name[job[p].slot] # None
                       /\ Tab(p).nRef[job[p].slot] = 0

LEMMA FoundKept ==
  ASSUME IInv, NEW p \in Procs, RunFrame(p), NamesKept, RefsKept, FoundBy(p)'
  PROVE  Found'
<1> SUFFICES ASSUME NEW q \in Procs \ {p}, pc[q] \in Locking PROVE FoundBy(q)'
  BY DEF Found, FoundBy, RunFrame, Locking
<1>1. table[q] \in Segs
  BY HasTable DEF Locking, Running
<1> QED
  BY <1>1 DEF IInv, Found, FoundBy, RunFrame, Attached, NamesKept, RefsKept, Tab

LEMMA FoundOfHolder ==
  ASSUME IInv, NEW p \in Procs, RunFrame(p), lock \in {None, p}, FoundBy(p)'
  PROVE  Found'
<1>1. \A q \in Procs \ {p} : pc[q] \notin Locking
  BY LockFree, LockMine
<1> QED
  BY <1>1 DEF Found, FoundBy, RunFrame, Locking

\* The types after a step of a running process.
LEMMA TypeKept ==
  ASSUME TypeOK, NEW p \in Procs, NEW l \in Running, pc' = [pc EXCEPT ![p] = l],
         UNCHANGED Attached, seg' \in SegsType, job' \in [Procs -> JobType],
         handle' \in [Procs -> [Handles -> HandleType]], fifo' \in [Slots -> Nat],
         lock' \in {lock, p, None}, crashes' \in Nat, faults' \in Nat,
         events' \subseteq {"raced", "overfull", "wiped", "doubled", "died"}
  PROVE  TypeOK'
<1>1. pc' \in [Procs -> {"off", "retry", "missed", "truncate", "opened", "mapped",
                       "discard", "failed", "idle", "create", "open", "init", "alloc",
                       "init2", "token", "free", "dropused"}]
  BY DEF TypeOK, Running
<1> QED
  BY <1>1 DEF TypeOK, Attached, SegsType, JobType, HandleType

LEMMA TypeParts ==
  ASSUME TypeOK
  PROVE  /\ seg \in SegsType /\ job \in [Procs -> JobType]
         /\ handle \in [Procs -> [Handles -> HandleType]] /\ fifo \in [Slots -> Nat]
         /\ crashes \in Nat /\ faults \in Nat
         /\ events \subseteq {"raced", "overfull", "wiped", "doubled", "died"}
  BY DEF TypeOK, SegsType, JobType, HandleType

\* Steps outside the lock that touch neither the table nor a handle.
LEMMA QuietStep ==
  ASSUME IInv, TypeOK', NEW p \in Procs, RunFrame(p), UNCHANGED <<seg, lock, handle, fifo>>,
         pc[p] \notin Locking, pc'[p] \in {"idle", "create", "open", "init"}, Called'
  PROVE  IInv'
<1> USE DEF IInv
<1>1. Mapped' /\ Headed' /\ Shared'
  BY RunKeeps
<1>2. Locked' /\ lock # p
  BY DEF RunFrame, Locked, Locking
<1>3. Opened'
  BY DEF Opened, RunFrame
<1>4. NamesKept /\ RefsKept /\ SlotsKept
  BY DEF NamesKept, RefsKept, SlotsKept
<1>5. FoundBy(p)'
  BY DEF FoundBy
<1>6. Found'
  BY <1>4, <1>5, FoundKept
<1>7. Unnamed' /\ NameIsUnique' /\ HandleKeepsName' /\ Refs'
  BY <1>2, <1>4, LockKept, TableKept DEF RunFrame, Attached
<1>8. Used' /\ NotFull'
  BY <1>2, <1>4, LockKept, UsedKept DEF RunFrame
<1>9. Filled' /\ Tokens'
  <2>1. \A i \in Slots : Pending(i)' \subseteq Pending(i)
    BY DEF Pending, RunFrame
  <2> QED
    BY <2>1, TokensKept DEF RunFrame
<1> QED
  BY <1>1, <1>2, <1>3, <1>6, <1>7, <1>8, <1>9

LEMMA CallStep ==
  ASSUME IInv, NEW p \in Procs, NEW h \in Handles, NEW n \in Names, NEW own \in BOOLEAN,
         Call(p, h, n, own)
  PROVE  IInv'
<1> USE DEF IInv, Call, Goto
<1> DEFINE j == [NoJob EXCEPT !.name = n, !.h = h, !.own = own]
<1>1. j \in JobType /\ j.name = n /\ j.h = h
  BY DEF NoJob, JobType
<1>2. PICK l \in {"create", "open"} : pc' = [pc EXCEPT ![p] = l]
  OBVIOUS
<1>3. job' = [job EXCEPT ![p] = j]
  OBVIOUS
<1> HIDE DEF j
<1>4. TypeOK'
  <2>1. job' \in [Procs -> JobType]
    BY <1>1, <1>3, TypeParts
  <2> QED
    BY <1>2, <2>1, TypeParts, TypeKept DEF Running
<1>5. RunFrame(p) /\ pc'[p] = l /\ pc[p] = "idle" /\ job'[p] = j
  BY <1>2, <1>3 DEF RunFrame, TypeOK, Running
<1>6. Called'
  <2>1. handle[p][h].slot = 0
    BY DEF Closed
  <2> QED
    BY <1>1, <1>5, <2>1 DEF RunFrame, Called
<1> QED
  BY <1>4, <1>5, <1>6, QuietStep DEF Locking

LEMMA NotExistingStep == ASSUME IInv, NEW p \in Procs, NotExisting(p) PROVE IInv'
<1> USE DEF IInv, NotExisting, Goto, EndCall
<1>1. job' = job \/ job' = [job EXCEPT ![p] = NoJob]
  OBVIOUS
<1>2. PICK l \in {"init", "idle"} :
        pc' = [pc EXCEPT ![p] = l] /\ (l = "init" => pc[p] = "create" /\ job' = job)
  OBVIOUS
<1>3. TypeOK'
  <2>1. job' \in [Procs -> JobType]
    BY <1>1, TypeParts, NoJobType
  <2> QED
    BY <1>2, <2>1, TypeParts, TypeKept DEF Running
<1>4. RunFrame(p) /\ pc'[p] = l
  BY <1>1, <1>2 DEF RunFrame, TypeOK, Running
<1>5. Called'
  BY <1>2, <1>4 DEF RunFrame, Called
<1> QED
  BY <1>3, <1>4, <1>5, QuietStep DEF Locking

LEMMA FoundExisted ==
  ASSUME NEW p \in Procs, NEW n, FindExisted(p, n) # {}
  PROVE  /\ FirstOf(FindExisted(p, n)) \in Slots
         /\ Tab(p).name[FirstOf(FindExisted(p, n))] = n
<1>1. FirstOf(FindExisted(p, n)) \in FindExisted(p, n)
  BY FirstIn DEF FindExisted
<1> QED
  BY <1>1 DEF FindExisted

LEMMA OpenExistingStep == ASSUME IInv, NEW p \in Procs, OpenExisting(p) PROVE IInv'
<1> USE DEF IInv, Goto, EndCall
<1> DEFINE i0 == FirstOf(FindExisted(p, job[p].name))
           s0 == table[p]
           h0 == job[p].h
           n0 == job[p].name
           e0 == [name |-> n0, slot |-> i0, linked |-> TRUE, owns |-> FALSE]
<1>1. /\ pc[p] \in {"create", "open"} /\ lock = None
      /\ pc' = [pc EXCEPT ![p] = "idle"] /\ job' = [job EXCEPT ![p] = NoJob]
      /\ UNCHANGED <<lock, fifo, crashes, events, Attached>>
  BY DEF OpenExisting
<1>2. i0 \in Slots /\ Tab(p).name[i0] = n0
  BY FoundExisted DEF OpenExisting
<1>3. \/ /\ seg' = [seg EXCEPT ![s0].nRef[i0] = @ + 1]
         /\ handle' = [handle EXCEPT ![p][h0] = e0]
         /\ faults' = faults
      \/ UNCHANGED <<seg, handle>> /\ faults' \in Nat
  BY DEF OpenExisting, WithHandle, TypeOK
<1> HIDE DEF i0
<1>4. s0 \in Segs /\ h0 \in Handles /\ n0 \in Names /\ handle[p][h0].slot = 0
  BY <1>1, HasTable DEF Called, Running
<1>5. job' \in [Procs -> JobType]
  BY <1>1, TypeParts, NoJobType
<1>6. CASE UNCHANGED <<seg, handle>> /\ faults' \in Nat
  <2>1. TypeOK'
    BY <1>1, <1>5, <1>6, TypeParts, TypeKept DEF Running
  <2>2. RunFrame(p) /\ pc'[p] = "idle"
    BY <1>1, <1>6 DEF RunFrame, TypeOK, Running
  <2>3. Called'
    BY <1>6, <2>2 DEF RunFrame, Called
  <2> QED
    BY <1>1, <1>6, <2>1, <2>2, <2>3, QuietStep DEF Locking
<1>7. CASE /\ seg' = [seg EXCEPT ![s0].nRef[i0] = @ + 1]
           /\ handle' = [handle EXCEPT ![p][h0] = e0]
           /\ faults' = faults
  <2>1. Tab(p).nRef[i0] \in Int
    BY <1>2, <1>4 DEF Tab, TypeOK, SegmentType
  <2>2. seg' \in SegsType
    <3> DEFINE m == seg[s0].nRef[i0] + 1
    <3>1. m \in Int /\ seg' = [seg EXCEPT ![s0].nRef[i0] = m]
      BY <1>7, <2>1 DEF Tab
    <3> HIDE DEF m
    <3> QED
      BY <1>2, <1>4, <3>1, TypeParts, WriteRef
  <2>3. handle' \in [Procs -> [Handles -> HandleType]]
    BY <1>2, <1>4, <1>7, WriteHandle DEF HandleType
  <2>4. TypeOK'
    BY <1>1, <1>5, <1>7, <2>2, <2>3, TypeParts, TypeKept DEF Running
  <2>5. /\ NamesKept /\ \A s \in Segs : /\ seg'[s].used = seg[s].used
                                        /\ seg'[s].torn = seg[s].torn
                                        /\ seg'[s].ready = seg[s].ready
        /\ seg'[s0].nRef[i0] = seg[s0].nRef[i0] + 1
        /\ \A s \in Segs : \A j \in Slots : s # s0 \/ j # i0 => seg'[s].nRef[j] = seg[s].nRef[j]
    BY <1>2, <1>4, <1>7 DEF NamesKept, TypeOK, SegmentType
  <2>6. /\ handle'[p][h0] = e0
        /\ \A q \in Procs, g \in Handles : q # p \/ g # h0 => handle'[q][g] = handle[q][g]
    BY <1>4, <1>7 DEF TypeOK
  <2>7. RunFrame(p) /\ pc'[p] = "idle"
    BY <1>1, <2>5 DEF RunFrame, TypeOK, Running
  <2>8. Mapped' /\ Headed' /\ Shared'
    BY <2>4, <2>7, RunKeeps
  <2>9. Locked'
    BY <1>1, <2>7, LockFree, NoneAssumption DEF Locked, RunFrame, Locking
  <2>10. Called'
    BY <2>6, <2>7 DEF RunFrame, Called
  <2>11. Opened'
    BY <1>2, <1>4, <2>6, <2>7, SizeAssumption DEF RunFrame, Opened, Slots
  <2>12. Found'
    BY <1>1, <2>7, FoundOfHolder DEF FoundBy
  <2>13. AddsHandle(p, h0, n0, i0)
    BY <1>2, <1>4, <2>5, <2>6 DEF AddsHandle, Tab
  <2>14. ~ \E s \in Segs, j \in Slots : Between(s, j)
    BY <1>1 DEF Between
  <2>15. Unnamed' /\ NameIsUnique' /\ HandleKeepsName' /\ Refs'
    BY <1>1, <1>2, <1>4, <2>4, <2>5, <2>7, <2>13, <2>14, HandleAdded DEF RunFrame, Attached
  <2>16. Used' /\ NotFull'
    BY <1>1, <2>4, <2>5, <2>7, LockKept, NoneAssumption, UsedKept
  <2>17. Filled'
    <3>1. \A i \in Slots : Linked(i, {}) \subseteq Linked(i, {})'
      BY <1>4, <2>6 DEF Linked, OpenHandles
    <3> QED
      BY <1>1, <3>1 DEF Filled
  <2>18. Tokens'
    <3>1. \A i \in Slots : Owners(i)' = Owners(i)
      BY <1>4, <2>6 DEF Owners, OpenHandles, Opened
    <3>2. \A i \in Slots : Pending(i)' = Pending(i)
      BY <1>1, <2>7 DEF Pending, RunFrame
    <3> QED
      BY <1>1, <3>1, <3>2 DEF Tokens
  <2> QED
    BY <2>4, <2>8, <2>9, <2>10, <2>11, <2>12, <2>15, <2>16, <2>17, <2>18
<1> QED
  BY <1>3, <1>6, <1>7

\* A free slot, and one without references, is nobody's.
LEMMA NoHandle ==
  ASSUME IInv, "wiped" \notin events, NEW s \in Segs, NEW i \in Slots,
         seg[s].name[i] = None \/ seg[s].nRef[i] <= 0
  PROVE  /\ OnSlot(s, i) = {}
         /\ \A q \in Procs, h \in Handles : table[q] = s => handle[q][h].slot # i
<1> USE DEF IInv
<1>1. OnSlot(s, i) = {}
  <2>1. CASE seg[s].name[i] = None
    <3> SUFFICES ASSUME NEW x \in OnSlot(s, i) PROVE FALSE
      OBVIOUS
    <3>1. x \in OpenHandles /\ table[x[1]] = s /\ handle[x[1]][x[2]].slot = i
      BY DEF OnSlot
    <3>2. handle[x[1]][x[2]].name \in Names
      BY <3>1, OpenHasTable DEF OpenHandles, Opened
    <3> QED
      BY <2>1, <3>1, <3>2, NoneAssumption DEF HandleKeepsName, Tab
  <2>2. CASE seg[s].name[i] # None /\ seg[s].nRef[i] <= 0
    <3>1. i \in Live(s) /\ seg[s].nRef[i] \in Int
      BY <2>2 DEF Live, TypeOK, SegmentType
    <3>2. Cardinality(OnSlot(s, i)) = 0
      BY <2>2, <3>1, OnSlotFinite DEF Refs
    <3> QED
      BY <3>2, OnSlotFinite, FS_EmptySet
  <2> QED
    BY <2>1, <2>2
<1>2. ASSUME NEW q \in Procs, NEW h \in Handles, table[q] = s, handle[q][h].slot = i
      PROVE  FALSE
  <2>1. <<q, h>> \in OnSlot(s, i)
    BY <1>2, OnSlotIs
  <2> QED
    BY <1>1, <2>1
<1> QED
  BY <1>1, <1>2

LEMMA InitSearchStep == ASSUME IInv, NEW p \in Procs, InitSearch(p) PROVE IInv'
<1> USE DEF IInv, Goto
<1> DEFINE s0 == table[p]
           E == FindExisted(p, job[p].name)
           i0 == FirstOf(E)
<1>1. pc[p] = "init" /\ lock = None /\ lock' = p
      /\ UNCHANGED <<handle, fifo, crashes, faults, Attached>>
  BY DEF InitSearch
<1>2. s0 \in Segs
  BY <1>1, HasTable DEF Running
<1>3. \A s \in Segs : ~Ahead(s) /\ \A i \in Slots : ~Between(s, i)
  BY <1>1 DEF Between, Ahead
<1>4. CASE E # {}
  <2>1. i0 \in Slots /\ Tab(p).name[i0] = job[p].name
    BY <1>4, FoundExisted
  <2>2. /\ job' = [job EXCEPT ![p].slot = i0, ![p].late = TRUE]
        /\ pc' = [pc EXCEPT ![p] = "init2"]
        /\ UNCHANGED <<seg, events>>
    BY <1>4 DEF InitSearch
  <2> HIDE DEF i0
  <2>3. TypeOK'
    BY <1>1, <2>1, <2>2, WriteSlot, TypeParts, TypeKept DEF Running
  <2>4. RunFrame(p) /\ pc'[p] = "init2"
    BY <1>1, <2>2 DEF RunFrame, Running, TypeOK
  <2>5. /\ job'[p].name = job[p].name /\ job'[p].h = job[p].h
        /\ job'[p].slot = i0 /\ job'[p].late
    BY <2>2 DEF TypeOK
  <2>6. Mapped' /\ Headed' /\ Shared'
    BY <2>3, <2>4, RunKeeps
  <2>7. Locked'
    BY <1>1, <2>4, LockFree, NoneAssumption DEF Locked, RunFrame, Locking
  <2>8. Called'
    BY <1>1, <2>1, <2>4, <2>5 DEF RunFrame, Called
  <2>9. Opened'
    BY <1>1, <2>4 DEF RunFrame, Opened
  <2>10. FoundBy(p)'
    BY <1>1, <2>1, <2>2, <2>4, <2>5 DEF FoundBy, Tab, Attached
  <2>11. Found'
    BY <1>1, <2>4, <2>10, FoundOfHolder
  <2>12. NamesKept /\ RefsKept /\ SlotsKept
    BY <1>1, <2>2 DEF NamesKept, RefsKept, SlotsKept
  <2>13. Unnamed' /\ NameIsUnique' /\ HandleKeepsName' /\ Refs'
    BY <1>1, <1>3, <2>2, <2>3, <2>12, TableKept DEF Attached
  <2>14. \A s \in Segs : ~Ahead(s)'
    BY <1>1, <2>4 DEF Ahead
  <2>15. Used' /\ NotFull'
    BY <1>3, <2>2, <2>3, <2>12, <2>14, UsedKept
  <2>16. \A i \in Slots : Pending(i)' \subseteq Pending(i)
    BY <2>4 DEF Pending, RunFrame
  <2>17. Filled' /\ Tokens'
    BY <1>1, <2>2, <2>3, <2>16, TokensKept
  <2> QED
    BY <2>3, <2>6, <2>7, <2>8, <2>9, <2>11, <2>13, <2>15, <2>17
<1>5. CASE E = {}
  <2>1. /\ seg' = [seg EXCEPT ![s0].used = @ + 1]
        /\ pc' = [pc EXCEPT ![p] = "alloc"]
        /\ job' = job
        /\ events' = IF Tab(p).used = MaxObjects THEN events \cup {"overfull"} ELSE events
    BY <1>5 DEF InitSearch
  <2>2. seg[s0].used \in Nat
    BY <1>2 DEF TypeOK, SegmentType
  <2>3. TypeOK'
    <3> DEFINE m == seg[s0].used + 1
    <3>1. m \in Nat /\ seg' = [seg EXCEPT ![s0].used = m]
      BY <2>1, <2>2
    <3> HIDE DEF m
    <3>2. seg' \in SegsType
      BY <1>2, <3>1, TypeParts, WriteUsed
    <3> QED
      BY <1>1, <2>1, <3>2, TypeParts, TypeKept DEF Running
  <2>4. /\ NamesKept /\ RefsKept /\ seg'[s0].used = seg[s0].used + 1
        /\ \A s \in Segs : seg'[s].torn = seg[s].torn /\ seg'[s].ready = seg[s].ready
        /\ \A s \in Segs : s # s0 => seg'[s].used = seg[s].used
    BY <1>2, <2>1 DEF NamesKept, RefsKept, TypeOK, SegmentType
  <2>5. RunFrame(p) /\ pc'[p] = "alloc"
    BY <1>1, <2>1, <2>4 DEF RunFrame, Running, TypeOK
  <2>6. Mapped' /\ Headed' /\ Shared'
    BY <2>3, <2>5, RunKeeps
  <2>7. Locked'
    BY <1>1, <2>5, LockFree, NoneAssumption DEF Locked, RunFrame, Locking
  <2>8. Called'
    BY <1>1, <2>1, <2>5 DEF RunFrame, Called
  <2>9. Opened'
    BY <1>1, <2>5 DEF RunFrame, Opened
  <2>10. FoundBy(p)'
    BY <1>1, <1>2, <1>5, <2>1, <2>4, <2>5 DEF FoundBy, Tab, Attached, FindExisted, NamesKept
  <2>11. Found'
    BY <1>1, <2>5, <2>10, FoundOfHolder
  <2>12. SlotsKept
    BY <1>1 DEF SlotsKept
  <2>13. Unnamed' /\ NameIsUnique' /\ HandleKeepsName' /\ Refs'
    BY <1>1, <1>3, <2>3, <2>4, <2>5, <2>12, TableKept DEF Attached, RunFrame
  <2>14. \A s \in Segs : Live(s)' = Live(s) /\ Extra(s) = 0 /\ Extra(s)' = IF s = s0 THEN 1 ELSE 0
    BY <1>1, <1>3, <2>4, <2>5, NoneAssumption DEF Live, NamesKept, Extra, Ahead, Attached
  <2>15. Used'
    BY <2>2, <2>4, <2>14, LiveFinite DEF Used, TypeOK
  <2>16. NotFull'
    BY <1>2, <2>1, <2>2, <2>4, SizeAssumption DEF NotFull, Tab
  <2>17. \A i \in Slots : Pending(i)' \subseteq Pending(i)
    BY <2>5 DEF Pending, RunFrame
  <2>18. Filled' /\ Tokens'
    BY <1>1, <2>3, <2>5, <2>17, TokensKept DEF RunFrame
  <2> QED
    BY <2>3, <2>6, <2>7, <2>8, <2>9, <2>11, <2>13, <2>15, <2>16, <2>18
<1> QED
  BY <1>4, <1>5

\* An object moves between used and the slots.
LEMMA UsedMoves ==
  ASSUME IInv,
         \A s \in Segs : seg'[s].used = seg[s].used /\ seg'[s].torn = seg[s].torn,
         \A s \in Segs : Cardinality(Live(s)') + Extra(s)' = Cardinality(Live(s)) + Extra(s)
  PROVE  Used'
  BY DEF IInv, Used

LEMMA AllocSlotStep == ASSUME IInv, NEW p \in Procs, AllocSlot(p) PROVE IInv'
<1> USE DEF IInv, Goto
<1>0. PICK s0, i0, n0, o0 :
        /\ s0 = table[p] /\ i0 = FirstOf(FindExisted(p, None)) /\ n0 = job[p].name
        /\ o0 = IF job[p].own THEN p ELSE None
  OBVIOUS
<1>s. s0 = table[p] /\ n0 = job[p].name
  BY <1>0
<1> USE <1>s
<1>1. /\ pc[p] = "alloc" /\ pc' = [pc EXCEPT ![p] = "init2"]
      /\ job' = [job EXCEPT ![p].slot = i0]
      /\ UNCHANGED <<lock, handle, fifo, crashes, faults, events, Attached>>
  BY <1>0 DEF AllocSlot
<1>2. i0 \in Slots /\ Tab(p).name[i0] = None
  BY <1>0, FoundExisted DEF AllocSlot
<1>3. s0 \in Segs /\ n0 \in Names /\ n0 # None /\ lock = p /\ lock # None
  BY <1>1, HasTable, NoneAssumption DEF Running, Called, Locked, Locking
<1>4. seg' = [seg EXCEPT ![s0].name[i0] = n0, ![s0].nRef[i0] = 0, ![s0].owner[i0] = o0]
  BY <1>0 DEF AllocSlot
<1>5. seg' \in SegsType
  <2> DEFINE A == [seg EXCEPT ![s0].name[i0] = n0]
             B == [A EXCEPT ![s0].nRef[i0] = 0]
  <2>1. seg' = [B EXCEPT ![s0].owner[i0] = o0]
    BY <1>4
  <2>2. o0 \in Procs \cup {None} /\ 0 \in Int
    BY <1>0
  <2>3. A \in SegsType
    BY <1>2, <1>3, TypeParts, WriteName
  <2> HIDE DEF A
  <2>4. B \in SegsType
    BY <1>2, <1>3, <2>2, <2>3, WriteRef
  <2> HIDE DEF B
  <2> QED
    BY <1>2, <1>3, <2>1, <2>2, <2>4, WriteOwner
<1>6. /\ seg'[s0].name = [seg[s0].name EXCEPT ![i0] = n0]
      /\ seg'[s0].nRef = [seg[s0].nRef EXCEPT ![i0] = 0]
      /\ \A s \in Segs : s # s0 => seg'[s].name = seg[s].name /\ seg'[s].nRef = seg[s].nRef
      /\ \A s \in Segs : /\ seg'[s].used = seg[s].used
                         /\ seg'[s].torn = seg[s].torn
                         /\ seg'[s].ready = seg[s].ready
  BY <1>2, <1>3, <1>4 DEF TypeOK, SegmentType
<1>7. /\ seg'[s0].name[i0] = n0 /\ seg'[s0].nRef[i0] = 0
      /\ \A s \in Segs : \A i \in Slots : s # s0 \/ i # i0 =>
           seg'[s].name[i] = seg[s].name[i] /\ seg'[s].nRef[i] = seg[s].nRef[i]
  <2>1. seg[s0].name \in [Slots -> Names \cup {None}] /\ seg[s0].nRef \in [Slots -> Int]
    BY <1>3 DEF TypeOK, SegmentType
  <2> QED
    BY <1>2, <1>3, <1>6, <2>1
<1>8. TypeOK'
  BY <1>1, <1>2, <1>5, WriteSlot, TypeParts, TypeKept DEF Running
<1>9. RunFrame(p) /\ pc'[p] = "init2"
  BY <1>1, <1>6 DEF RunFrame, Running, TypeOK
<1>10. job'[p].name = n0 /\ job'[p].h = job[p].h /\ job'[p].slot = i0 /\ job'[p].late = job[p].late
  BY <1>1 DEF TypeOK
<1>11. Mapped' /\ Headed' /\ Shared'
  BY <1>8, <1>9, RunKeeps
<1>12. Locked'
  BY <1>1, <1>9 DEF Locked, RunFrame, Locking
<1>13. Called'
  BY <1>1, <1>2, <1>9, <1>10 DEF RunFrame, Called
<1>14. Opened'
  BY <1>1, <1>9 DEF RunFrame, Opened
<1>15. FoundBy(p)'
  BY <1>1, <1>7, <1>9, <1>10 DEF FoundBy, Tab, Attached
<1>16. Found'
  BY <1>3, <1>9, <1>15, FoundOfHolder
<1>17. Unnamed'
  BY <1>3, <1>7 DEF Unnamed
<1>18. \A i \in Slots : seg[s0].name[i] # n0
  BY <1>1 DEF Found, Tab
<1>19. /\ Live(s0)' = Live(s0) \cup {i0} /\ i0 \notin Live(s0)
       /\ \A s \in Segs : s # s0 => Live(s)' = Live(s)
  BY <1>2, <1>3, <1>7 DEF Live, Tab
<1>20. NameIsUnique'
  BY <1>7, <1>18, <1>19 DEF NameIsUnique, Live
<1>21. "wiped" \notin events => OnSlot(s0, i0) = {}
        /\ \A q \in Procs, h \in Handles : table[q] = s0 => handle[q][h].slot # i0
  BY <1>2, <1>3, NoHandle DEF Tab
<1>22. HandleKeepsName'
  <2> SUFFICES ASSUME "wiped" \notin events, NEW x \in OpenHandles
               PROVE  seg'[table[x[1]]].name[handle[x[1]][x[2]].slot] = handle[x[1]][x[2]].name
    BY <1>1 DEF HandleKeepsName, Tab, Attached, OpenHandles
  <2>1. x[1] \in Procs /\ x[2] \in Handles /\ table[x[1]] \in Segs
        /\ handle[x[1]][x[2]].slot \in Slots
    BY OpenHasTable
  <2>2. table[x[1]] # s0 \/ handle[x[1]][x[2]].slot # i0
    BY <1>21, <2>1
  <2>3. seg[table[x[1]]].name[handle[x[1]][x[2]].slot] = handle[x[1]][x[2]].name
    BY DEF HandleKeepsName, Tab
  <2> QED
    BY <1>7, <2>1, <2>2, <2>3
<1>23. \A s, i : OnSlot(s, i)' = OnSlot(s, i)
  BY <1>1 DEF OnSlot, OpenHandles, Attached
<1>24. \A s \in Segs, i \in Slots : ~Between(s, i)
  BY <1>1, <1>3 DEF Between
<1>25. Between(s0, i0)'
  BY <1>1, <1>3, <1>9, <1>10 DEF Between, Attached
<1>26. Refs'
  <2> SUFFICES ASSUME "wiped" \notin events, NEW s \in Segs, NEW i \in Live(s)'
               PROVE  /\ seg'[s].nRef[i] >= Cardinality(OnSlot(s, i)')
                      /\ "died" \notin events =>
                            /\ seg'[s].nRef[i] = Cardinality(OnSlot(s, i)')
                            /\ seg'[s].nRef[i] > 0 \/ Between(s, i)'
    BY <1>1 DEF Refs
  <2>1. CASE s = s0 /\ i = i0
    <3>1. Cardinality(OnSlot(s, i)') = 0 /\ seg'[s].nRef[i] = 0
      BY <1>7, <1>21, <1>23, <2>1, FS_EmptySet
    <3> QED
      BY <1>25, <2>1, <3>1
  <2>2. CASE s # s0 \/ i # i0
    <3>1. i \in Live(s) /\ i \in Slots
      BY <1>19, <2>2 DEF Live
    <3> QED
      BY <1>7, <1>23, <1>24, <2>2, <3>1 DEF Refs
  <2> QED
    BY <2>1, <2>2
<1>27. \A s \in Segs : Extra(s)' = 0 /\ Extra(s) = IF s = s0 THEN 1 ELSE 0
  BY <1>1, <1>3, <1>9 DEF Extra, Ahead
<1>28. Cardinality(Live(s0)') = Cardinality(Live(s0)) + 1
  BY <1>19, FS_AddElement, LiveFinite
<1>29. Used'
  <2>1. ASSUME NEW s \in Segs
        PROVE  Cardinality(Live(s)') + Extra(s)' = Cardinality(Live(s)) + Extra(s)
    BY <1>19, <1>27, <1>28, LiveFinite
  <2> QED
    BY <1>6, <2>1, UsedMoves
<1>30. NotFull'
  BY <1>1, <1>6 DEF NotFull
<1>31. \A i \in Slots : Pending(i)' \subseteq Pending(i)
  BY <1>9 DEF Pending, RunFrame
<1>32. Filled' /\ Tokens'
  BY <1>1, <1>8, <1>9, <1>31, TokensKept DEF RunFrame
<1> QED
  BY <1>8, <1>11, <1>12, <1>13, <1>14, <1>16, <1>17, <1>20, <1>22, <1>26, <1>29, <1>30, <1>32

LEMMA Init2FailsStep == ASSUME IInv, NEW p \in Procs, Init2Fails(p) PROVE IInv'
<1> USE DEF IInv, Goto
<1>0. PICK s0, i0 : s0 = table[p] /\ i0 = job[p].slot
  OBVIOUS
<1> USE <1>0
<1>1. /\ pc[p] = "init2" /\ pc' = [pc EXCEPT ![p] = "dropused"]
      /\ seg' = [seg EXCEPT ![s0].name[i0] = None, ![s0].nRef[i0] = 0]
      /\ faults' \in Nat
      /\ events' = IF job[p].late THEN events \cup {"wiped"} ELSE events
      /\ UNCHANGED <<lock, job, handle, fifo, crashes, Attached>>
  BY DEF Init2Fails, TypeOK
<1>2. i0 \in Slots /\ Tab(p).name[i0] = job[p].name /\ job[p].name \in Names
  BY <1>1 DEF Called, Found
<1>3. s0 \in Segs /\ lock = p /\ lock # None
  BY <1>1, HasTable, NoneAssumption DEF Running, Locked, Locking
<1>4. seg' \in SegsType
  <2> DEFINE A == [seg EXCEPT ![s0].name[i0] = None]
  <2>1. seg' = [A EXCEPT ![s0].nRef[i0] = 0]
    BY <1>1
  <2>2. None \in Names \cup {None} /\ 0 \in Int
    OBVIOUS
  <2>3. A \in SegsType
    BY <1>2, <1>3, <2>2, TypeParts, WriteName
  <2> HIDE DEF A
  <2> QED
    BY <1>2, <1>3, <2>1, <2>2, <2>3, WriteRef
<1>5. /\ seg'[s0].name = [seg[s0].name EXCEPT ![i0] = None]
      /\ seg'[s0].nRef = [seg[s0].nRef EXCEPT ![i0] = 0]
      /\ \A s \in Segs : s # s0 => seg'[s].name = seg[s].name /\ seg'[s].nRef = seg[s].nRef
      /\ \A s \in Segs : /\ seg'[s].used = seg[s].used
                         /\ seg'[s].torn = seg[s].torn
                         /\ seg'[s].ready = seg[s].ready
  BY <1>1, <1>2, <1>3 DEF TypeOK, SegmentType
<1>6. /\ seg'[s0].name[i0] = None /\ seg'[s0].nRef[i0] = 0
      /\ \A s \in Segs : \A i \in Slots : s # s0 \/ i # i0 =>
           seg'[s].name[i] = seg[s].name[i] /\ seg'[s].nRef[i] = seg[s].nRef[i]
  BY <1>2, <1>3, <1>5 DEF TypeOK, SegmentType
<1>7. TypeOK'
  BY <1>1, <1>4, TypeParts, TypeKept DEF Running
<1>8. RunFrame(p) /\ pc'[p] = "dropused"
  BY <1>1, <1>5 DEF RunFrame, Running, TypeOK
<1>9. Mapped' /\ Headed' /\ Shared'
  BY <1>7, <1>8, RunKeeps
<1>10. Locked'
  BY <1>1, <1>8 DEF Locked, RunFrame, Locking
<1>11. Called'
  BY <1>1, <1>8 DEF RunFrame, Called
<1>12. Opened'
  BY <1>1, <1>8 DEF RunFrame, Opened
<1>13. Found'
  BY <1>3, <1>8, FoundOfHolder DEF FoundBy
<1>14. Unnamed'
  BY <1>6 DEF Unnamed
<1>15. /\ Live(s0)' = Live(s0) \ {i0} /\ i0 \in Live(s0)
       /\ \A s \in Segs : s # s0 => Live(s)' = Live(s)
  BY <1>2, <1>3, <1>6, NoneAssumption DEF Live, Tab
<1>16. NameIsUnique'
  BY <1>6, <1>15 DEF NameIsUnique, Live
<1>17. "wiped" \notin events' => "wiped" \notin events /\ OnSlot(s0, i0) = {}
        /\ \A q \in Procs, h \in Handles : table[q] = s0 => handle[q][h].slot # i0
  <2> SUFFICES ASSUME "wiped" \notin events' PROVE "wiped" \notin events /\ ~job[p].late
    BY <1>1, <1>2, <1>3, NoHandle DEF Found, Tab
  <2> QED
    BY <1>1
<1>18. HandleKeepsName'
  <2> SUFFICES ASSUME "wiped" \notin events', NEW x \in OpenHandles
               PROVE  seg'[table[x[1]]].name[handle[x[1]][x[2]].slot] = handle[x[1]][x[2]].name
    BY <1>1 DEF HandleKeepsName, Tab, Attached, OpenHandles
  <2>1. x[1] \in Procs /\ x[2] \in Handles /\ table[x[1]] \in Segs
        /\ handle[x[1]][x[2]].slot \in Slots
    BY OpenHasTable
  <2>2. table[x[1]] # s0 \/ handle[x[1]][x[2]].slot # i0
    BY <1>17, <2>1
  <2>3. seg[table[x[1]]].name[handle[x[1]][x[2]].slot] = handle[x[1]][x[2]].name
    BY <1>17 DEF HandleKeepsName, Tab
  <2> QED
    BY <1>6, <2>1, <2>2, <2>3
<1>19. \A s, i : OnSlot(s, i)' = OnSlot(s, i)
  BY <1>1 DEF OnSlot, OpenHandles, Attached
<1>20. \A s \in Segs, i \in Slots : Between(s, i) => s = s0 /\ i = i0
  BY <1>1, <1>3 DEF Between
<1>21. Refs'
  <2> SUFFICES ASSUME "wiped" \notin events', NEW s \in Segs, NEW i \in Live(s)'
               PROVE  /\ seg'[s].nRef[i] >= Cardinality(OnSlot(s, i)')
                      /\ "died" \notin events' =>
                            /\ seg'[s].nRef[i] = Cardinality(OnSlot(s, i)')
                            /\ seg'[s].nRef[i] > 0 \/ Between(s, i)'
    BY DEF Refs
  <2>1. (s # s0 \/ i # i0) /\ i \in Live(s) /\ i \in Slots /\ "wiped" \notin events
    BY <1>15, <1>17 DEF Live
  <2>2. "died" \notin events' => "died" \notin events
    BY <1>1
  <2> QED
    BY <1>6, <1>19, <1>20, <2>1, <2>2 DEF Refs
<1>22. \A s \in Segs : Extra(s) = 0 /\ Extra(s)' = IF s = s0 THEN 1 ELSE 0
  BY <1>1, <1>3, <1>8 DEF Extra, Ahead, Attached
<1>23. Cardinality(Live(s0)') = Cardinality(Live(s0)) - 1
  <2>1. Cardinality(Live(s0) \ {i0}) = Cardinality(Live(s0)) - 1
    BY <1>15, FS_RemoveElement, LiveFinite
  <2> QED
    BY <1>15, <2>1
<1>24. Used'
  <2>1. ASSUME NEW s \in Segs
        PROVE  Cardinality(Live(s)') + Extra(s)' = Cardinality(Live(s)) + Extra(s)
    <3>1. Cardinality(Live(s)) \in Nat /\ Cardinality(Live(s)') \in Nat
      BY LiveFinite
    <3>2. CASE s = s0
      BY <1>22, <1>23, <3>1, <3>2
    <3>3. CASE s # s0
      BY <1>15, <1>22, <3>1, <3>3
    <3> QED
      BY <3>2, <3>3
  <2> QED
    BY <1>5, <2>1, UsedMoves
<1>25. NotFull'
  BY <1>1, <1>5 DEF NotFull
<1>26. \A i \in Slots : Pending(i)' \subseteq Pending(i)
  BY <1>8 DEF Pending, RunFrame
<1>27. Filled' /\ Tokens'
  BY <1>1, <1>7, <1>8, <1>26, TokensKept DEF RunFrame
<1> QED
  BY <1>7, <1>9, <1>10, <1>11, <1>12, <1>13, <1>14, <1>16, <1>18, <1>21, <1>24, <1>25, <1>27

\* The tables of all running processes are one, unless starts have met.
LEMMA OneSegment ==
  ASSUME IInv, events \cap {"raced", "overfull"} = {},
         NEW p \in Procs, NEW q \in Procs, pc[p] \in Running, pc[q] \in Running
  PROVE  table[p] = table[q]
<1>1. table[p] \in Segs /\ table[q] \in Segs /\ ~ 0 \in Segs
  BY HasTable DEF Segs
<1> QED
  BY <1>1 DEF IInv, Headed, Shared

LEMMA Init2Step == ASSUME IInv, NEW p \in Procs, Init2(p) PROVE IInv'
<1> USE DEF IInv, Goto
<1>0. PICK s0, i0, h0, n0, o0 :
        /\ s0 = table[p] /\ i0 = job[p].slot /\ h0 = job[p].h /\ n0 = job[p].name
        /\ o0 = (job[p].own /\ ~job[p].late)
  OBVIOUS
<1>1. /\ pc[p] = "init2" /\ pc' = [pc EXCEPT ![p] = "token"]
      /\ seg' = [seg EXCEPT ![s0].nRef[i0] = @ + 1]
      /\ handle' = [handle EXCEPT ![p][h0] =
                      [name |-> n0, slot |-> i0, linked |-> TRUE, owns |-> o0]]
      /\ lock' = None
      /\ UNCHANGED <<job, fifo, crashes, faults, events, Attached>>
  BY <1>0 DEF Init2, WithHandle
<1>2. /\ i0 \in Slots /\ n0 \in Names /\ h0 \in Handles /\ handle[p][h0].slot = 0
      /\ seg[s0].name[i0] = n0 /\ o0 \in BOOLEAN
      /\ ~job[p].late => seg[s0].nRef[i0] = 0
  BY <1>0, <1>1 DEF Called, Found, Tab, TypeOK
<1>3. s0 \in Segs /\ lock = p /\ lock # None
  BY <1>0, <1>1, HasTable, NoneAssumption DEF Running, Locked, Locking
<1>4. seg[s0].nRef[i0] \in Int
  BY <1>2, <1>3 DEF TypeOK, SegmentType
<1>5. TypeOK'
  <2>1. PICK m \in Int : seg' = [seg EXCEPT ![s0].nRef[i0] = m]
    <3>1. seg' = [seg EXCEPT ![s0].nRef[i0] = seg[s0].nRef[i0] + 1]
      BY <1>1
    <3>2. seg[s0].nRef[i0] + 1 \in Int
      BY <1>4
    <3> QED
      BY <3>1, <3>2
  <2>2. seg' \in SegsType
    BY <1>2, <1>3, <2>1, TypeParts, WriteRef
  <2>3. handle' \in [Procs -> [Handles -> HandleType]]
    <3>1. [name |-> n0, slot |-> i0, linked |-> TRUE, owns |-> o0] \in HandleType
      BY <1>2 DEF HandleType
    <3> QED
      BY <1>1, <1>2, <3>1, WriteHandle
  <2> QED
    BY <1>1, <2>2, <2>3, TypeParts, TypeKept DEF Running
<1>6. /\ NamesKept /\ \A s \in Segs : /\ seg'[s].used = seg[s].used
                                      /\ seg'[s].torn = seg[s].torn
                                      /\ seg'[s].ready = seg[s].ready
      /\ seg'[s0].nRef[i0] = seg[s0].nRef[i0] + 1
      /\ \A s \in Segs : \A j \in Slots : s # s0 \/ j # i0 => seg'[s].nRef[j] = seg[s].nRef[j]
  BY <1>1, <1>2, <1>3 DEF NamesKept, TypeOK, SegmentType
<1>7. /\ handle'[p][h0] = [name |-> n0, slot |-> i0, linked |-> TRUE, owns |-> o0]
      /\ \A q \in Procs, g \in Handles : q # p \/ g # h0 => handle'[q][g] = handle[q][g]
  BY <1>1, <1>2 DEF TypeOK
<1>8. RunFrame(p) /\ pc'[p] = "token"
  BY <1>1, <1>6 DEF RunFrame, Running, TypeOK
<1>9. Mapped' /\ Headed' /\ Shared'
  BY <1>5, <1>8, RunKeeps
<1>10. Locked'
  BY <1>1, <1>3, <1>8, LockMine, NoneAssumption DEF Locked, RunFrame, Locking
<1>11. Called'
  BY <1>0, <1>1, <1>2, <1>7, <1>8 DEF RunFrame, Called
<1>12. Opened'
  BY <1>2, <1>7, <1>8, SizeAssumption DEF RunFrame, Opened, Slots
<1>13. Found'
  BY <1>3, <1>8, FoundOfHolder DEF FoundBy
<1>14. AddsHandle(p, h0, n0, i0)
  BY <1>0, <1>2, <1>6, <1>7 DEF AddsHandle, Tab
<1>15. \A s \in Segs, j \in Slots : Between(s, j) => s = table[p] /\ j = i0
  BY <1>0, <1>3 DEF Between
<1>16. Unnamed' /\ NameIsUnique' /\ HandleKeepsName' /\ Refs'
  BY <1>1, <1>2, <1>5, <1>6, <1>8, <1>14, <1>15, HandleAdded DEF RunFrame, Attached
<1>17. \A s \in Segs : ~Ahead(s) /\ ~Ahead(s)'
  BY <1>1, <1>3 DEF Ahead
<1>18. Used' /\ NotFull'
  BY <1>5, <1>6, <1>8, <1>17, UsedKept DEF RunFrame
<1>19. Filled'
  <2>1. \A i \in Slots : Linked(i, {}) \subseteq Linked(i, {})'
    BY <1>2, <1>7 DEF Linked, OpenHandles
  <2> QED
    BY <1>1, <2>1 DEF Filled
<1>20. Tokens'
  <2> SUFFICES ASSUME events \cap {"doubled", "wiped", "raced", "overfull"} = {}, NEW i \in Slots
               PROVE  /\ fifo[i] <= 1
                      /\ fifo[i] = 1 => Owners(i)' = {} /\ Pending(i)' = {}
                      /\ Owners(i)' = {} \/ Pending(i)' = {}
                      /\ \A x, y \in Owners(i)' : x = y
                      /\ \A r, q \in Pending(i)' : r = q
    BY <1>1 DEF Tokens
  <2>1. Owners(i)' \subseteq Owners(i) \cup {<<p, h0>>} /\ (i # i0 \/ ~o0 => Owners(i)' \subseteq Owners(i))
    BY <1>2, <1>7 DEF Owners, OpenHandles
  <2>2. /\ Pending(i)' \subseteq Pending(i) \cup {p}
        /\ i # i0 \/ job[p].own \/ job[p].late => Pending(i)' \subseteq Pending(i)
    BY <1>0, <1>1, <1>8 DEF Pending, RunFrame
  <2>3. CASE i # i0 \/ job[p].late
    BY <1>0, <2>1, <2>2, <2>3 DEF Tokens
  <2>4. CASE i = i0 /\ ~job[p].late
    <3>1. seg[s0].nRef[i0] <= 0
      BY <1>2, <2>4
    <3>2. \A q \in Procs, h \in Handles : table[q] = s0 => handle[q][h].slot # i0
      BY <1>2, <1>3, <3>1, NoHandle
    <3>3. \A q \in Procs, h \in Handles : handle[q][h].slot # i0
      <4> SUFFICES ASSUME NEW q \in Procs, NEW h \in Handles, handle[q][h].slot = i0 PROVE FALSE
        OBVIOUS
      <4>1. pc[q] \in Running /\ pc[p] \in Running
        BY <1>1, <1>2, SizeAssumption DEF Opened, Slots, Running
      <4> QED
        BY <1>0, <3>2, <4>1, OneSegment
    <3>4. Owners(i) = {} /\ Linked(i, {}) = {}
      BY <2>4, <3>3 DEF Owners, Linked, OpenHandles
    <3>5. Pending(i) = {}
      BY <2>4, <3>3 DEF Pending, Called
    <3>6. fifo[i] = 0
      <4>1. fifo[i] \in Nat
        BY DEF TypeOK
      <4>2. ~ fifo[i] > 0
        BY <3>4 DEF Filled
      <4> QED
        BY <4>1, <4>2
    <3>7. o0 => Pending(i)' = {}
      BY <1>0, <2>2, <3>5
    <3> QED
      BY <2>1, <2>2, <3>4, <3>5, <3>6, <3>7
  <2> QED
    BY <2>3, <2>4
<1> QED
  BY <1>5, <1>9, <1>10, <1>11, <1>12, <1>13, <1>16, <1>18, <1>19, <1>20

LEMMA InitialTokenStep == ASSUME IInv, NEW p \in Procs, InitialToken(p) PROVE IInv'
<1> USE DEF IInv, Goto, EndCall
<1>0. PICK i0, h0 : i0 = job[p].slot /\ h0 = job[p].h
  OBVIOUS
<1>1. /\ pc[p] = "token" /\ pc' = [pc EXCEPT ![p] = "idle"] /\ job' = [job EXCEPT ![p] = NoJob]
      /\ UNCHANGED <<seg, lock, handle, crashes, faults, Attached>>
  BY DEF InitialToken
<1>2. \/ /\ ~job[p].own /\ handle[p][h0].linked
         /\ fifo' = [fifo EXCEPT ![i0] = @ + 1]
         /\ events' = IF job[p].late THEN events \cup {"doubled"} ELSE events
      \/ UNCHANGED <<fifo, events>>
  BY <1>0 DEF InitialToken
<1>3. i0 \in Slots /\ h0 \in Handles /\ handle[p][h0].slot = i0
  BY <1>0, <1>1 DEF Called
<1>4. TypeOK'
  <2>1. job' \in [Procs -> JobType]
    BY <1>1, TypeParts, NoJobType
  <2>2. fifo' \in [Slots -> Nat]
    BY <1>2, <1>3 DEF TypeOK
  <2>3. events' \subseteq {"raced", "overfull", "wiped", "doubled", "died"}
    BY <1>2 DEF TypeOK
  <2> QED
    BY <1>1, <2>1, <2>2, <2>3, TypeParts, TypeKept DEF Running
<1>5. RunFrame(p) /\ pc'[p] = "idle"
  BY <1>1, <1>2 DEF RunFrame, Running, TypeOK
<1>6. Mapped' /\ Headed' /\ Shared'
  BY <1>4, <1>5, RunKeeps
<1>7. Locked' /\ lock # p
  BY <1>1, <1>5 DEF Locked, RunFrame, Locking
<1>8. Called' /\ Opened'
  BY <1>1, <1>5 DEF RunFrame, Called, Opened
<1>9. NamesKept /\ RefsKept /\ SlotsKept
  BY <1>1 DEF NamesKept, RefsKept, SlotsKept
<1>10. Found'
  BY <1>5, <1>9, FoundKept DEF FoundBy
<1>11. Unnamed' /\ NameIsUnique' /\ HandleKeepsName' /\ Refs'
  BY <1>1, <1>4, <1>5, <1>7, <1>9, LockKept, TableKept DEF Attached, RunFrame
<1>12. Used' /\ NotFull'
  BY <1>1, <1>4, <1>5, <1>7, <1>9, LockKept, UsedKept DEF RunFrame
<1>13. \A i \in Slots : /\ Owners(i)' = Owners(i)
                        /\ Linked(i, {})' = Linked(i, {})
                        /\ Pending(i)' = Pending(i) \ {p}
  BY <1>1, <1>5 DEF Owners, Linked, OpenHandles, Pending, RunFrame
<1>14. Filled'
  <2>1. handle[p][h0].linked => Linked(i0, {}) # {}
    <3>1. i0 # 0
      BY <1>3, SizeAssumption DEF Slots
    <3>2. handle[p][h0].linked => <<p, h0>> \in Linked(i0, {})
      BY <1>3, <3>1 DEF Linked, OpenHandles
    <3> QED
      BY <3>2
  <2> QED
    BY <1>2, <1>3, <1>13, <2>1 DEF Filled, TypeOK
<1>15. Tokens'
  <2> SUFFICES ASSUME events' \cap {"doubled", "wiped", "raced", "overfull"} = {}, NEW i \in Slots
               PROVE  /\ fifo'[i] <= 1
                      /\ fifo'[i] = 1 => Owners(i)' = {} /\ Pending(i)' = {}
                      /\ Owners(i)' = {} \/ Pending(i)' = {}
                      /\ \A x, y \in Owners(i)' : x = y
                      /\ \A r, q \in Pending(i)' : r = q
    BY DEF Tokens
  <2>1. events \cap {"doubled", "wiped", "raced", "overfull"} = {}
    BY <1>5 DEF RunFrame
  <2>2. CASE fifo'[i] = fifo[i]
    BY <1>13, <2>1, <2>2 DEF Tokens
  <2>3. CASE fifo'[i] # fifo[i]
    <3>1. i = i0 /\ ~job[p].own /\ ~job[p].late /\ fifo'[i] = fifo[i] + 1 /\ fifo[i] \in Nat
      BY <1>2, <2>3 DEF TypeOK
    <3>2. p \in Pending(i)
      BY <1>0, <1>1, <3>1 DEF Pending
    <3>3. fifo[i] # 1 /\ fifo[i] <= 1 /\ Owners(i) = {} /\ \A q \in Pending(i) : q = p
      BY <2>1, <3>2 DEF Tokens
    <3>4. Pending(i)' = {} /\ Owners(i)' = {} /\ fifo'[i] = 1
      BY <1>13, <3>1, <3>3
    <3> QED
      BY <3>4
  <2> QED
    BY <2>2, <2>3
<1> QED
  BY <1>4, <1>6, <1>7, <1>8, <1>10, <1>11, <1>12, <1>14, <1>15

LEMMA DropUsedStep == ASSUME IInv, NEW p \in Procs, DropUsed(p) PROVE IInv'
<1> USE DEF IInv, Goto, EndCall
<1>0. PICK s0 : s0 = table[p]
  OBVIOUS
<1>1. /\ pc[p] = "dropused" /\ pc' = [pc EXCEPT ![p] = "idle"] /\ job' = [job EXCEPT ![p] = NoJob]
      /\ seg' = [seg EXCEPT ![s0].used = @ - 1] /\ lock' = None
      /\ UNCHANGED <<handle, fifo, crashes, faults, events, Attached>>
  BY <1>0 DEF DropUsed
<1>2. s0 \in Segs /\ lock = p /\ lock # None
  BY <1>0, <1>1, HasTable, NoneAssumption DEF Running, Locked, Locking
<1>3. Ahead(s0) /\ Extra(s0) = 1
  BY <1>0, <1>1, <1>2 DEF Ahead, Extra
<1>4. seg[s0].used \in Nat /\ seg[s0].used >= 1
  BY <1>2, <1>3, LiveFinite DEF Used, TypeOK, SegmentType
<1>5. TypeOK'
  <2>1. PICK m \in Nat : seg' = [seg EXCEPT ![s0].used = m]
    <3>1. seg' = [seg EXCEPT ![s0].used = seg[s0].used - 1]
      BY <1>1
    <3>2. seg[s0].used - 1 \in Nat
      BY <1>4
    <3> QED
      BY <3>1, <3>2
  <2>2. seg' \in SegsType
    BY <1>2, <2>1, TypeParts, WriteUsed
  <2>3. job' \in [Procs -> JobType]
    BY <1>1, TypeParts, NoJobType
  <2> QED
    BY <1>1, <2>2, <2>3, TypeParts, TypeKept DEF Running
<1>6. /\ NamesKept /\ RefsKept /\ seg'[s0].used = seg[s0].used - 1
      /\ \A s \in Segs : seg'[s].torn = seg[s].torn /\ seg'[s].ready = seg[s].ready
      /\ \A s \in Segs : s # s0 => seg'[s].used = seg[s].used
  BY <1>1, <1>2 DEF NamesKept, RefsKept, TypeOK, SegmentType
<1>7. RunFrame(p) /\ pc'[p] = "idle"
  BY <1>1, <1>6 DEF RunFrame, Running, TypeOK
<1>8. Mapped' /\ Headed' /\ Shared'
  BY <1>5, <1>7, RunKeeps
<1>9. Locked'
  BY <1>1, <1>2, <1>7, LockMine, NoneAssumption DEF Locked, RunFrame, Locking
<1>10. Called' /\ Opened'
  BY <1>1, <1>7 DEF RunFrame, Called, Opened
<1>11. Found'
  BY <1>2, <1>7, FoundOfHolder DEF FoundBy
<1>12. SlotsKept /\ \A s \in Segs, i \in Slots : ~Between(s, i)
  BY <1>1, <1>2 DEF SlotsKept, Between
<1>13. Unnamed' /\ NameIsUnique' /\ HandleKeepsName' /\ Refs'
  BY <1>1, <1>5, <1>6, <1>7, <1>12, TableKept DEF Attached, RunFrame
<1>14. \A s \in Segs : Live(s)' = Live(s) /\ Extra(s)' = 0 /\ (s # s0 => Extra(s) = 0)
  BY <1>0, <1>1, <1>2, <1>6 DEF Live, NamesKept, Extra, Ahead
<1>15. Used'
  <2> SUFFICES ASSUME NEW s \in Segs
               PROVE  /\ seg'[s].used >= Cardinality(Live(s)') + Extra(s)'
                      /\ ~seg'[s].torn => seg'[s].used = Cardinality(Live(s)') + Extra(s)'
    BY DEF Used
  <2>1. CASE s = s0
    BY <1>3, <1>4, <1>6, <1>14, <2>1, LiveFinite DEF Used
  <2>2. CASE s # s0
    BY <1>6, <1>14, <2>2 DEF Used
  <2> QED
    BY <2>1, <2>2
<1>16. NotFull'
  <2>1. "overfull" \notin events => seg'[s0].used <= MaxObjects
    BY <1>2, <1>4, <1>6, SizeAssumption DEF NotFull
  <2> QED
    BY <1>1, <1>6, <2>1 DEF NotFull
<1>17. \A i \in Slots : Pending(i)' \subseteq Pending(i)
  BY <1>7 DEF Pending, RunFrame
<1>18. Filled' /\ Tokens'
  BY <1>1, <1>5, <1>7, <1>17, TokensKept DEF RunFrame
<1> QED
  BY <1>5, <1>8, <1>9, <1>10, <1>11, <1>13, <1>15, <1>16, <1>18

\* Fifos are emptied, handles closed and calls ended.
LEMMA TokensShrink ==
  ASSUME IInv, events \subseteq events',
         \A i \in Slots : /\ fifo'[i] \in {0, fifo[i]}
                          /\ Owners(i)' \subseteq Owners(i)
                          /\ Pending(i)' \subseteq Pending(i)
  PROVE  Tokens'
<1> SUFFICES ASSUME events' \cap {"doubled", "wiped", "raced", "overfull"} = {}, NEW i \in Slots
             PROVE  /\ fifo'[i] <= 1
                    /\ fifo'[i] = 1 => Owners(i)' = {} /\ Pending(i)' = {}
                    /\ Owners(i)' = {} \/ Pending(i)' = {}
                    /\ \A x, y \in Owners(i)' : x = y
                    /\ \A r, q \in Pending(i)' : r = q
  BY DEF Tokens
<1>1. events \cap {"doubled", "wiped", "raced", "overfull"} = {}
  OBVIOUS
<1> QED
  BY <1>1 DEF IInv, Tokens

LEMMA CloseHandleStep ==
  ASSUME IInv, NEW p \in Procs, NEW h \in Handles, CloseHandle(p, h) PROVE IInv'
<1> USE DEF IInv
<1>0. PICK s0, i0, n0 :
        s0 = table[p] /\ i0 = handle[p][h].slot /\ n0 = seg[s0].nRef[i0] - 1
  OBVIOUS
<1>1. /\ pc[p] = "idle" /\ lock = None /\ i0 # 0
      /\ seg' = [seg EXCEPT ![s0].nRef[i0] = n0]
      /\ fifo' = FifoWithout({<<p, h>>})
      /\ handle' = [handle EXCEPT ![p][h] = Closed]
      /\ UNCHANGED <<crashes, faults, events, Attached>>
  BY <1>0 DEF CloseHandle, Tab
<1>2. \/ /\ n0 = 0 /\ pc' = [pc EXCEPT ![p] = "free"] /\ lock' = p
         /\ job' = [job EXCEPT ![p].slot = i0]
      \/ n0 # 0 /\ UNCHANGED <<pc, lock, job>>
  BY <1>0 DEF CloseHandle, Tab, Goto
<1>3. s0 \in Segs /\ i0 \in Slots
  BY <1>0, <1>1, HasTable DEF Running, TypeOK
<1>4. n0 \in Int /\ seg[s0].nRef[i0] = n0 + 1 /\ seg[s0].nRef[i0] \in Int
  <2>1. seg[s0].nRef[i0] \in Int
    BY <1>3 DEF TypeOK, SegmentType
  <2> QED
    BY <1>0, <2>1
<1>5. TypeOK'
  <2>1. seg' \in SegsType
    BY <1>1, <1>3, <1>4, TypeParts, WriteRef
  <2>2. handle' \in [Procs -> [Handles -> HandleType]]
    <3>1. Closed \in HandleType
      BY DEF Closed, HandleType
    <3> QED
      BY <1>1, <3>1, WriteHandle
  <2>3. fifo' \in [Slots -> Nat]
    BY <1>1 DEF FifoWithout, TypeOK
  <2>4. job' \in [Procs -> JobType]
    <3>1. [job EXCEPT ![p].slot = i0] \in [Procs -> JobType]
      BY <1>3, WriteSlot
    <3>2. job \in [Procs -> JobType]
      BY TypeParts
    <3> QED
      BY <1>2, <3>1, <3>2
  <2>5. PICK l \in Running : pc' = [pc EXCEPT ![p] = l]
    <3>1. pc = [pc EXCEPT ![p] = "idle"]
      BY <1>1 DEF TypeOK
    <3> QED
      BY <1>2, <3>1 DEF Running
  <2> QED
    BY <1>1, <1>2, <2>1, <2>2, <2>3, <2>4, <2>5, TypeParts, TypeKept
<1>6. /\ NamesKept /\ \A s \in Segs : /\ seg'[s].used = seg[s].used
                                      /\ seg'[s].torn = seg[s].torn
                                      /\ seg'[s].ready = seg[s].ready
      /\ seg'[s0].nRef[i0] = n0
      /\ \A s \in Segs : \A j \in Slots : s # s0 \/ j # i0 => seg'[s].nRef[j] = seg[s].nRef[j]
  BY <1>1, <1>3 DEF NamesKept, TypeOK, SegmentType
<1>7. /\ handle'[p][h] = Closed
      /\ \A q \in Procs, g \in Handles : q # p \/ g # h => handle'[q][g] = handle[q][g]
  BY <1>1 DEF TypeOK
<1>8. /\ pc'[p] \in {"free", "idle"}
      /\ pc'[p] = "free" => n0 = 0 /\ lock' = p /\ job'[p].slot = i0
      /\ pc'[p] = "idle" => n0 # 0 /\ lock' = None
  BY <1>1, <1>2 DEF TypeOK
<1>9. RunFrame(p)
  BY <1>1, <1>2, <1>6, <1>8 DEF RunFrame, Running, TypeOK
<1>10. Mapped' /\ Headed' /\ Shared'
  BY <1>5, <1>9, RunKeeps
<1>11. Locked'
  BY <1>1, <1>8, <1>9, LockFree, NoneAssumption DEF Locked, RunFrame, Locking
<1>12. Called'
  BY <1>3, <1>7, <1>8, <1>9 DEF RunFrame, Called
<1>13. Opened'
  BY <1>7, <1>8, <1>9 DEF RunFrame, Opened, Closed, Running
<1>14. FoundBy(p)'
  <2>1. n0 = 0 => seg[s0].name[i0] # None
    BY <1>3, <1>4 DEF Unnamed
  <2> QED
    BY <1>0, <1>3, <1>6, <1>8, <1>9, <2>1 DEF FoundBy, Tab, RunFrame, Attached, NamesKept
<1>15. Found'
  BY <1>1, <1>9, <1>14, FoundOfHolder
<1>16. \A s \in Segs : Live(s)' = Live(s) /\ Live(s) \subseteq Slots
  BY <1>6 DEF Live, NamesKept
<1>17. Unnamed'
  BY <1>3, <1>4, <1>6 DEF Unnamed, NamesKept
<1>18. NameIsUnique'
  BY <1>6, <1>16 DEF NameIsUnique, NamesKept
<1>19. OpenHandles' = OpenHandles \ {<<p, h>>}
       /\ \A x \in OpenHandles' : handle'[x[1]][x[2]] = handle[x[1]][x[2]]
  BY <1>7 DEF OpenHandles, Closed
<1>20. HandleKeepsName'
  <2> SUFFICES ASSUME "wiped" \notin events, NEW x \in OpenHandles'
               PROVE  seg'[table[x[1]]].name[handle'[x[1]][x[2]].slot] = handle'[x[1]][x[2]].name
    BY <1>1 DEF HandleKeepsName, Tab, Attached
  <2>1. x \in OpenHandles /\ handle'[x[1]][x[2]] = handle[x[1]][x[2]]
    BY <1>19
  <2>2. table[x[1]] \in Segs /\ seg'[table[x[1]]].name = seg[table[x[1]]].name
    BY <1>6, <2>1, OpenHasTable DEF NamesKept
  <2>3. seg[table[x[1]]].name[handle[x[1]][x[2]].slot] = handle[x[1]][x[2]].name
    BY <2>1 DEF HandleKeepsName, Tab
  <2> QED
    BY <2>1, <2>2, <2>3
<1>21. Refs'
  <2> SUFFICES ASSUME "wiped" \notin events, NEW s \in Segs, NEW j \in Live(s)
               PROVE  /\ seg'[s].nRef[j] >= Cardinality(OnSlot(s, j)')
                      /\ "died" \notin events =>
                            /\ seg'[s].nRef[j] = Cardinality(OnSlot(s, j)')
                            /\ seg'[s].nRef[j] > 0 \/ Between(s, j)'
    BY <1>1, <1>16 DEF Refs
  <2>1. j \in Slots /\ ~Between(s, j)
    BY <1>1, <1>16 DEF Between
  <2>2. CASE s = s0 /\ j = i0
    <3>1. OnSlot(s, j)' = OnSlot(s, j) \ {<<p, h>>}
      BY <1>1, <1>19 DEF OnSlot, Attached
    <3>2. <<p, h>> \in OnSlot(s, j)
      BY <1>0, <2>1, <2>2, OnSlotIs
    <3>3. Cardinality(OnSlot(s, j) \ {<<p, h>>}) = Cardinality(OnSlot(s, j)) - 1
      BY <3>2, FS_RemoveElement, OnSlotFinite
    <3>4. n0 = 0 => Between(s, j)'
      BY <1>0, <1>1, <1>8, <2>2, NoneAssumption DEF Between, Attached
    <3>5. Cardinality(OnSlot(s, j)') \in Nat /\ Cardinality(OnSlot(s, j)) \in Nat
      BY OnSlotFinite
    <3> QED
      BY <1>4, <1>6, <2>2, <3>1, <3>3, <3>4, <3>5 DEF Refs
  <2>3. CASE s # s0 \/ j # i0
    <3>1. OnSlot(s, j)' = OnSlot(s, j)
      <4>1. <<p, h>> \notin OnSlot(s, j)
        BY <1>0, <2>1, <2>3, OnSlotIs
      <4> QED
        BY <1>1, <1>19, <4>1 DEF OnSlot, Attached
    <3> QED
      BY <1>6, <2>1, <2>3, <3>1 DEF Refs
  <2> QED
    BY <2>2, <2>3
<1>22. \A s \in Segs : ~Ahead(s) /\ ~Ahead(s)'
  BY <1>1, <1>8 DEF Ahead
<1>23. Used' /\ NotFull'
  BY <1>5, <1>6, <1>9, <1>22, UsedKept DEF RunFrame
<1>24. Filled'
  <2> SUFFICES ASSUME NEW i \in Slots, fifo'[i] > 0 PROVE Linked(i, {})' # {}
    BY DEF Filled
  <2>1. Linked(i, {<<p, h>>}) # {}
    <3>1. fifo'[i] = IF Linked(i, {<<p, h>>}) = {} THEN 0 ELSE fifo[i]
      BY <1>1 DEF FifoWithout
    <3> QED
      BY <3>1
  <2>2. Linked(i, {<<p, h>>}) \subseteq Linked(i, {})'
    BY <1>19 DEF Linked
  <2> QED
    BY <2>1, <2>2
<1>25. Tokens'
  <2>1. \A i \in Slots : fifo'[i] \in {0, fifo[i]}
    BY <1>1 DEF FifoWithout
  <2>2. \A i \in Slots : Owners(i)' \subseteq Owners(i)
    BY <1>19 DEF Owners
  <2>3. \A i \in Slots : Pending(i)' \subseteq Pending(i)
    BY <1>8, <1>9 DEF Pending, RunFrame
  <2> QED
    BY <1>9, <2>1, <2>2, <2>3, TokensShrink DEF RunFrame
<1> QED
  BY <1>5, <1>10, <1>11, <1>12, <1>13, <1>15, <1>17, <1>18, <1>20, <1>21, <1>23, <1>24, <1>25

LEMMA FreeSlotStep == ASSUME IInv, NEW p \in Procs, FreeSlot(p) PROVE IInv'
<1> USE DEF IInv, Goto
<1>0. PICK s0, i0 : s0 = table[p] /\ i0 = job[p].slot
  OBVIOUS
<1>1. /\ pc[p] = "free" /\ pc' = [pc EXCEPT ![p] = "dropused"]
      /\ seg' = [seg EXCEPT ![s0].name[i0] = None]
      /\ fifo' = [fifo EXCEPT ![i0] = 0]
      /\ handle' = [q \in Procs |-> [h \in Handles |->
                      IF handle[q][h].slot = i0
                        THEN [handle[q][h] EXCEPT !.linked = FALSE] ELSE handle[q][h]]]
      /\ UNCHANGED <<lock, job, crashes, faults, events, Attached>>
  BY <1>0 DEF FreeSlot
<1>2. s0 \in Segs /\ lock = p /\ lock # None
  BY <1>0, <1>1, HasTable, NoneAssumption DEF Running, Locked, Locking
<1>3. i0 \in Slots /\ seg[s0].name[i0] # None /\ seg[s0].nRef[i0] = 0
  BY <1>0, <1>1 DEF Called, Found, Tab
<1>4. \A q \in Procs, h \in Handles :
        /\ handle'[q][h] \in HandleType
        /\ handle'[q][h].slot = handle[q][h].slot /\ handle'[q][h].name = handle[q][h].name
        /\ handle'[q][h].owns = handle[q][h].owns
        /\ handle[q][h].slot # i0 => handle'[q][h] = handle[q][h]
        /\ handle'[q][h].linked => handle[q][h].linked
  <2> SUFFICES ASSUME NEW q \in Procs, NEW h \in Handles, NEW e \in HandleType, e = handle[q][h]
               PROVE  /\ handle'[q][h] \in HandleType
                      /\ handle'[q][h].slot = e.slot /\ handle'[q][h].name = e.name
                      /\ handle'[q][h].owns = e.owns
                      /\ e.slot # i0 => handle'[q][h] = e
                      /\ handle'[q][h].linked => e.linked
    BY TypeParts
  <2>1. handle'[q][h] = e \/ (e.slot = i0 /\ handle'[q][h] = [e EXCEPT !.linked = FALSE])
    BY <1>1
  <2> QED
    BY <2>1 DEF HandleType
<1>5. TypeOK'
  <2>1. seg' \in SegsType
    BY <1>1, <1>2, <1>3, TypeParts, WriteName
  <2>2. handle' \in [Procs -> [Handles -> HandleType]]
    <3>1. \A q \in Procs : handle'[q] \in [Handles -> HandleType]
      BY <1>1, <1>4
    <3> QED
      BY <1>1, <3>1
  <2>3. fifo' \in [Slots -> Nat]
    BY <1>1 DEF TypeOK
  <2> QED
    BY <1>1, <2>1, <2>2, <2>3, TypeParts, TypeKept DEF Running
<1>6. /\ seg'[s0].name = [seg[s0].name EXCEPT ![i0] = None]
      /\ \A s \in Segs : s # s0 => seg'[s].name = seg[s].name
      /\ \A s \in Segs : /\ seg'[s].nRef = seg[s].nRef
                         /\ seg'[s].used = seg[s].used
                         /\ seg'[s].torn = seg[s].torn
                         /\ seg'[s].ready = seg[s].ready
  BY <1>1, <1>2, <1>3 DEF TypeOK, SegmentType
<1>7. /\ seg'[s0].name[i0] = None
      /\ \A s \in Segs : \A i \in Slots : s # s0 \/ i # i0 => seg'[s].name[i] = seg[s].name[i]
  BY <1>2, <1>3, <1>6 DEF TypeOK, SegmentType
<1>8. RunFrame(p) /\ pc'[p] = "dropused"
  BY <1>1, <1>6 DEF RunFrame, Running, TypeOK
<1>9. Mapped' /\ Headed' /\ Shared'
  BY <1>5, <1>8, RunKeeps
<1>10. Locked'
  BY <1>1, <1>8 DEF Locked, RunFrame, Locking
<1>11. Called'
  BY <1>1, <1>4, <1>8 DEF RunFrame, Called
<1>12. Opened'
  BY <1>4, <1>8 DEF RunFrame, Opened
<1>13. Found'
  BY <1>2, <1>8, FoundOfHolder DEF FoundBy
<1>14. Unnamed'
  BY <1>3, <1>6, <1>7 DEF Unnamed
<1>15. /\ Live(s0)' = Live(s0) \ {i0} /\ i0 \in Live(s0)
       /\ \A s \in Segs : s # s0 => Live(s)' = Live(s)
  BY <1>2, <1>3, <1>7 DEF Live
<1>16. NameIsUnique'
  BY <1>7, <1>15 DEF NameIsUnique, Live
<1>17. "wiped" \notin events =>
        \A q \in Procs, h \in Handles : table[q] = s0 => handle[q][h].slot # i0
  BY <1>2, <1>3, NoHandle
<1>18. OpenHandles' = OpenHandles
  BY <1>4 DEF OpenHandles
<1>19. HandleKeepsName'
  <2> SUFFICES ASSUME "wiped" \notin events, NEW x \in OpenHandles
               PROVE  seg'[table[x[1]]].name[handle'[x[1]][x[2]].slot] = handle'[x[1]][x[2]].name
    BY <1>1, <1>18 DEF HandleKeepsName, Tab, Attached
  <2>1. x[1] \in Procs /\ x[2] \in Handles /\ table[x[1]] \in Segs
        /\ handle[x[1]][x[2]].slot \in Slots
    BY OpenHasTable
  <2>2. table[x[1]] # s0 \/ handle[x[1]][x[2]].slot # i0
    BY <1>17, <2>1
  <2>3. seg[table[x[1]]].name[handle[x[1]][x[2]].slot] = handle[x[1]][x[2]].name
    BY DEF HandleKeepsName, Tab
  <2>4. seg'[table[x[1]]].name[handle[x[1]][x[2]].slot]
          = seg[table[x[1]]].name[handle[x[1]][x[2]].slot]
    BY <1>7, <2>1, <2>2
  <2>5. /\ handle'[x[1]][x[2]].slot = handle[x[1]][x[2]].slot
        /\ handle'[x[1]][x[2]].name = handle[x[1]][x[2]].name
    BY <1>4, <2>1
  <2> QED
    BY <2>3, <2>4, <2>5
<1>20. \A s, i : OnSlot(s, i)' = OnSlot(s, i)
  BY <1>1, <1>4, <1>18 DEF OnSlot, OpenHandles, Attached
<1>21. \A s \in Segs, i \in Slots : Between(s, i) => s = s0 /\ i = i0
  BY <1>0, <1>2 DEF Between
<1>22. Refs'
  <2> SUFFICES ASSUME "wiped" \notin events, NEW s \in Segs, NEW i \in Live(s)'
               PROVE  /\ seg'[s].nRef[i] >= Cardinality(OnSlot(s, i)')
                      /\ "died" \notin events =>
                            /\ seg'[s].nRef[i] = Cardinality(OnSlot(s, i)')
                            /\ seg'[s].nRef[i] > 0 \/ Between(s, i)'
    BY <1>1 DEF Refs
  <2>1. (s # s0 \/ i # i0) /\ i \in Live(s) /\ i \in Slots
    BY <1>15 DEF Live
  <2> QED
    BY <1>6, <1>20, <1>21, <2>1 DEF Refs
<1>23. \A s \in Segs : Extra(s) = 0 /\ Extra(s)' = IF s = s0 THEN 1 ELSE 0
  BY <1>0, <1>1, <1>2, <1>8 DEF Extra, Ahead, Attached
<1>24. Cardinality(Live(s0) \ {i0}) = Cardinality(Live(s0)) - 1
  BY <1>15, FS_RemoveElement, LiveFinite
<1>25. Used'
  <2>1. ASSUME NEW s \in Segs
        PROVE  Cardinality(Live(s)') + Extra(s)' = Cardinality(Live(s)) + Extra(s)
    <3>1. Cardinality(Live(s)) \in Nat /\ Cardinality(Live(s)') \in Nat
      BY LiveFinite
    <3>2. CASE s = s0
      BY <1>15, <1>23, <1>24, <3>1, <3>2
    <3>3. CASE s # s0
      BY <1>15, <1>23, <3>1, <3>3
    <3> QED
      BY <3>2, <3>3
  <2> QED
    BY <1>6, <2>1, UsedMoves
<1>26. NotFull'
  BY <1>1, <1>6 DEF NotFull
<1>27. Filled'
  <2> SUFFICES ASSUME NEW i \in Slots, fifo'[i] > 0 PROVE Linked(i, {})' # {}
    BY DEF Filled
  <2>1. i # i0 /\ fifo'[i] = fifo[i]
    BY <1>1 DEF TypeOK
  <2>2. Linked(i, {}) \subseteq Linked(i, {})'
    BY <1>4, <1>18, <2>1 DEF Linked, OpenHandles
  <2> QED
    BY <2>1, <2>2 DEF Filled
<1>28. Tokens'
  <2>1. \A i \in Slots : fifo'[i] \in {0, fifo[i]}
    BY <1>1 DEF TypeOK
  <2>2. \A i \in Slots : Owners(i)' \subseteq Owners(i)
    BY <1>4, <1>18 DEF Owners, OpenHandles
  <2>3. \A i \in Slots : Pending(i)' \subseteq Pending(i)
    BY <1>8 DEF Pending, RunFrame
  <2> QED
    BY <1>8, <2>1, <2>2, <2>3, TokensShrink DEF RunFrame
<1> QED
  BY <1>5, <1>9, <1>10, <1>11, <1>12, <1>13, <1>14, <1>16, <1>19, <1>22, <1>25, <1>26, <1>27, <1>28

-----------------------------------------------------------------------------
(***************************************************************************)
(* The mutex in use.  Taking and giving the token writes the owner of the  *)
(* slot and of one handle.                                                 *)
(***************************************************************************)
OwnerWritten(p, h, i, w, b) ==
  /\ pc[p] = "idle" /\ handle[p][h].slot = i
  /\ seg' = [seg EXCEPT ![table[p]].owner[i] = w]
  /\ handle' = [handle EXCEPT ![p][h].owns = b]
  /\ UNCHANGED <<lock, pc, job, crashes, faults, events, Attached>>

LEMMA OwnerFields ==
  ASSUME IInv, NEW p \in Procs, NEW h \in Handles, NEW i \in Slots,
         NEW w \in Procs \cup {None}, NEW b \in BOOLEAN, OwnerWritten(p, h, i, w, b)
  PROVE  /\ handle' \in [Procs -> [Handles -> HandleType]]
         /\ SlotsKept
         /\ \A q \in Procs, g \in Handles :
              /\ handle'[q][g].linked = handle[q][g].linked
              /\ handle'[q][g].owns = IF q = p /\ g = h THEN b ELSE handle[q][g].owns
         /\ OpenHandles' = OpenHandles
         /\ \A j \in Slots : Linked(j, {})' = Linked(j, {}) /\ Pending(j)' = Pending(j)
         /\ \A j \in Slots : j # i => Owners(j)' = Owners(j)
         /\ b = TRUE => Owners(i)' = Owners(i) \cup {<<p, h>>}
         /\ b = FALSE => Owners(i)' = Owners(i) \ {<<p, h>>}
<1> USE DEF IInv
<1>0. PICK e \in HandleType : e = handle[p][h]
  BY TypeParts
<1>1. handle' = [handle EXCEPT ![p][h] = [e EXCEPT !.owns = b]]
  BY <1>0 DEF OwnerWritten
<1>2. [e EXCEPT !.owns = b] \in HandleType
  BY DEF HandleType
<1>3. handle' \in [Procs -> [Handles -> HandleType]]
  BY <1>1, <1>2, WriteHandle
<1>4. /\ handle'[p][h] = [e EXCEPT !.owns = b]
      /\ \A q \in Procs, g \in Handles : q # p \/ g # h => handle'[q][g] = handle[q][g]
  BY <1>1 DEF TypeOK
<1>5. /\ handle'[p][h].slot = e.slot /\ handle'[p][h].name = e.name
      /\ handle'[p][h].linked = e.linked /\ handle'[p][h].owns = b
  BY <1>4 DEF HandleType
<1>6. \A q \in Procs, g \in Handles :
        /\ handle'[q][g].slot = handle[q][g].slot /\ handle'[q][g].name = handle[q][g].name
        /\ handle'[q][g].linked = handle[q][g].linked
        /\ handle'[q][g].owns = IF q = p /\ g = h THEN b ELSE handle[q][g].owns
  BY <1>0, <1>4, <1>5
<1>7. OpenHandles' = OpenHandles
  BY <1>6 DEF OpenHandles
<1>8. \A j \in Slots : Linked(j, {})' = Linked(j, {}) /\ Pending(j)' = Pending(j)
  BY <1>6, <1>7 DEF Linked, OpenHandles, Pending, OwnerWritten
<1>9. i # 0 /\ handle[p][h].slot = i
  BY SizeAssumption DEF Slots, OwnerWritten
<1>10. \A j \in Slots : j # i => Owners(j)' = Owners(j)
  BY <1>6, <1>7, <1>9 DEF Owners, OpenHandles
<1>11. \A q \in Procs, g \in Handles : <<q, g>> \in Owners(i)' <=>
         handle[q][g].slot = i /\ IF q = p /\ g = h THEN b ELSE handle[q][g].owns
  BY <1>6, <1>9 DEF Owners, OpenHandles
<1>12. \A q \in Procs, g \in Handles : <<q, g>> \in Owners(i) <=>
         handle[q][g].slot = i /\ handle[q][g].owns
  BY <1>9 DEF Owners, OpenHandles
<1>13. Owners(i) \in SUBSET (Procs \X Handles) /\ Owners(i)' \in SUBSET (Procs \X Handles)
  BY DEF Owners, OpenHandles
<1>14. CASE b
  <2>1. Owners(i)' = Owners(i) \cup {<<p, h>>}
    BY <1>9, <1>11, <1>12, <1>13, <1>14, SamePairs
  <2> QED
    BY <1>3, <1>6, <1>7, <1>8, <1>10, <1>14, <2>1 DEF SlotsKept
<1>15. CASE ~b
  <2>1. Owners(i)' = Owners(i) \ {<<p, h>>}
    BY <1>11, <1>12, <1>13, <1>15, SamePairs
  <2> QED
    BY <1>3, <1>6, <1>7, <1>8, <1>10, <1>15, <2>1 DEF SlotsKept
<1> QED
  BY <1>14, <1>15

LEMMA OwnerKeeps ==
  ASSUME IInv, NEW p \in Procs, NEW h \in Handles, NEW i \in Slots,
         NEW w \in Procs \cup {None}, NEW b \in BOOLEAN, OwnerWritten(p, h, i, w, b),
         fifo' \in [Slots -> Nat], Filled', Tokens'
  PROVE  IInv'
<1> USE DEF IInv
<1>0. PICK s0 : s0 = table[p]
  OBVIOUS
<1>1. /\ pc[p] = "idle" /\ pc' = [pc EXCEPT ![p] = "idle"]
      /\ seg' = [seg EXCEPT ![s0].owner[i] = w]
      /\ UNCHANGED <<lock, pc, job, crashes, faults, events, Attached>>
  BY <1>0 DEF OwnerWritten, TypeOK
<1>2. s0 \in Segs
  BY <1>0, <1>1, HasTable DEF Running
<1>3. TypeOK'
  <2>1. seg' \in SegsType
    BY <1>1, <1>2, TypeParts, WriteOwner
  <2>2. handle' \in [Procs -> [Handles -> HandleType]]
    BY OwnerFields
  <2> QED
    BY <1>1, <2>1, <2>2, TypeParts, TypeKept DEF Running
<1>4. /\ NamesKept /\ RefsKept
      /\ \A s \in Segs : /\ seg'[s].used = seg[s].used
                         /\ seg'[s].torn = seg[s].torn
                         /\ seg'[s].ready = seg[s].ready
  BY <1>1, <1>2 DEF NamesKept, RefsKept, TypeOK, SegmentType
<1>5. RunFrame(p)
  BY <1>1, <1>4 DEF RunFrame, Running, TypeOK
<1>6. Mapped' /\ Headed' /\ Shared'
  BY <1>3, <1>5, RunKeeps
<1>7. Locked' /\ lock # p
  BY <1>1 DEF Locked, Locking
<1>8. SlotsKept
  BY OwnerFields
<1>9. Called'
  BY <1>1, <1>8 DEF Called, SlotsKept
<1>10. Opened'
  <2>1. \A q \in Procs, g \in Handles :
          /\ handle'[q][g].slot = handle[q][g].slot /\ handle'[q][g].name = handle[q][g].name
          /\ handle'[q][g].linked = handle[q][g].linked
          /\ handle'[q][g].owns => handle[q][g].owns \/ handle[q][g].slot = i
    BY <1>8, OwnerFields DEF SlotsKept, OwnerWritten
  <2>2. i # 0
    BY SizeAssumption DEF Slots
  <2> QED
    BY <1>1, <2>1, <2>2 DEF Opened
<1>11. Found'
  BY <1>1, <1>4, <1>5, FoundKept DEF FoundBy
<1>12. Unnamed' /\ NameIsUnique' /\ HandleKeepsName' /\ Refs'
  BY <1>1, <1>3, <1>4, <1>5, <1>7, <1>8, LockKept, TableKept DEF Attached, RunFrame
<1>13. Used' /\ NotFull'
  BY <1>1, <1>3, <1>4, <1>5, <1>7, LockKept, UsedKept DEF RunFrame
<1> QED
  BY <1>3, <1>6, <1>7, <1>9, <1>10, <1>11, <1>12, <1>13

LEMMA WaitStep ==
  ASSUME IInv, NEW p \in Procs, NEW h \in Handles, Wait(p, h) PROVE IInv'
<1> USE DEF IInv
<1>0. PICK i0 : i0 = handle[p][h].slot
  OBVIOUS
<1>1. /\ handle[p][h].linked /\ fifo[i0] > 0
      /\ fifo' = [fifo EXCEPT ![i0] = @ - 1] /\ events' = events
      /\ OwnerWritten(p, h, i0, p, TRUE)
  BY <1>0 DEF Wait, OwnerWritten
<1>2. i0 \in Slots
  BY <1>0, <1>1 DEF Opened, TypeOK
<1>3. /\ fifo[i0] \in Nat /\ fifo' \in [Slots -> Nat]
      /\ fifo'[i0] = fifo[i0] - 1
      /\ \A j \in Slots : j # i0 => fifo'[j] = fifo[j]
  BY <1>1, <1>2 DEF TypeOK
<1>4. /\ \A j \in Slots : Linked(j, {})' = Linked(j, {}) /\ Pending(j)' = Pending(j)
      /\ \A j \in Slots : j # i0 => Owners(j)' = Owners(j)
      /\ Owners(i0)' = Owners(i0) \cup {<<p, h>>}
  <2>1. PICK w \in Procs \cup {None}, b \in BOOLEAN :
          w = p /\ b = TRUE /\ OwnerWritten(p, h, i0, w, b)
    BY <1>1
  <2> QED
    BY <1>2, <2>1, OwnerFields
<1>5. Filled'
  BY <1>1, <1>3, <1>4 DEF Filled
<1>6. Tokens'
  <2> SUFFICES ASSUME events \cap {"doubled", "wiped", "raced", "overfull"} = {}, NEW i \in Slots
               PROVE  /\ fifo'[i] <= 1
                      /\ fifo'[i] = 1 => Owners(i)' = {} /\ Pending(i)' = {}
                      /\ Owners(i)' = {} \/ Pending(i)' = {}
                      /\ \A x, y \in Owners(i)' : x = y
                      /\ \A r, q \in Pending(i)' : r = q
    BY <1>1 DEF Tokens
  <2>1. CASE i # i0
    BY <1>3, <1>4, <2>1 DEF Tokens
  <2>2. CASE i = i0
    <3>1. fifo[i] = 1
      BY <1>1, <1>3, <2>2 DEF Tokens
    <3>2. Owners(i) = {} /\ Pending(i) = {}
      BY <3>1 DEF Tokens
    <3>3. fifo'[i] = 0 /\ Owners(i)' = {<<p, h>>} /\ Pending(i)' = {}
      BY <1>3, <1>4, <2>2, <3>1, <3>2
    <3> QED
      BY <3>3
  <2> QED
    BY <2>1, <2>2
<1> QED
  BY <1>1, <1>2, <1>3, <1>5, <1>6, OwnerKeeps

LEMMA ReleaseMutexStep ==
  ASSUME IInv, NEW p \in Procs, NEW h \in Handles, ReleaseMutex(p, h) PROVE IInv'
<1> USE DEF IInv
<1>0. PICK i0 : i0 = handle[p][h].slot
  OBVIOUS
<1>1. /\ i0 # 0 /\ handle[p][h].owns
      /\ fifo' = IF handle[p][h].linked THEN [fifo EXCEPT ![i0] = @ + 1] ELSE fifo
      /\ events' = events
      /\ OwnerWritten(p, h, i0, None, FALSE)
  BY <1>0 DEF ReleaseMutex, OwnerWritten
<1>2. i0 \in Slots
  BY <1>0, <1>1 DEF TypeOK
<1>3. /\ fifo[i0] \in Nat /\ fifo' \in [Slots -> Nat]
      /\ fifo'[i0] \in {fifo[i0], fifo[i0] + 1}
      /\ ~handle[p][h].linked => fifo'[i0] = fifo[i0]
      /\ \A j \in Slots : j # i0 => fifo'[j] = fifo[j]
  BY <1>1, <1>2 DEF TypeOK
<1>4. /\ \A j \in Slots : Linked(j, {})' = Linked(j, {}) /\ Pending(j)' = Pending(j)
      /\ \A j \in Slots : j # i0 => Owners(j)' = Owners(j)
      /\ Owners(i0)' = Owners(i0) \ {<<p, h>>}
  <2>1. PICK w \in Procs \cup {None}, b \in BOOLEAN :
          w = None /\ b = FALSE /\ OwnerWritten(p, h, i0, w, b)
    BY <1>1
  <2> QED
    BY <1>2, <2>1, OwnerFields
<1>5. /\ handle[p][h].linked => <<p, h>> \in Linked(i0, {})
      /\ <<p, h>> \in Owners(i0)
  BY <1>0, <1>1 DEF Linked, Owners, OpenHandles
<1>6. Filled'
  <2> SUFFICES ASSUME NEW i \in Slots, fifo'[i] > 0 PROVE Linked(i, {}) # {}
    BY <1>4 DEF Filled
  <2>1. CASE fifo'[i] = fifo[i]
    BY <2>1 DEF Filled
  <2>2. CASE fifo'[i] # fifo[i]
    <3>1. i = i0 /\ handle[p][h].linked
      BY <1>3, <2>2
    <3> QED
      BY <1>5, <3>1
  <2> QED
    BY <2>1, <2>2
<1>7. Tokens'
  <2> SUFFICES ASSUME events \cap {"doubled", "wiped", "raced", "overfull"} = {}, NEW i \in Slots
               PROVE  /\ fifo'[i] <= 1
                      /\ fifo'[i] = 1 => Owners(i)' = {} /\ Pending(i)' = {}
                      /\ Owners(i)' = {} \/ Pending(i)' = {}
                      /\ \A x, y \in Owners(i)' : x = y
                      /\ \A r, q \in Pending(i)' : r = q
    BY <1>1 DEF Tokens
  <2>1. CASE i # i0
    BY <1>3, <1>4, <2>1 DEF Tokens
  <2>2. CASE i = i0
    <3>1. fifo[i] # 1 /\ fifo[i] <= 1 /\ Pending(i) = {} /\ \A x \in Owners(i) : x = <<p, h>>
      BY <1>5, <2>2 DEF Tokens
    <3>2. Owners(i)' = {} /\ Pending(i)' = {}
      BY <1>4, <2>2, <3>1
    <3>3. fifo'[i] <= 1
      BY <1>3, <2>2, <3>1
    <3> QED
      BY <3>2, <3>3
  <2> QED
    BY <2>1, <2>2
<1> QED
  BY <1>1, <1>2, <1>3, <1>6, <1>7, OwnerKeeps

-----------------------------------------------------------------------------
(***************************************************************************)
(* The death of a process.                                                 *)
(***************************************************************************)
LEMMA DiesStep ==
  ASSUME IInv, NEW p \in Procs, Dies(p), UNCHANGED <<shm, attempt>>,
         crashes' \in Nat, faults' \in Nat, events' \in {events, events \cup {"died"}},
         "died" \notin events' =>
           pc[p] = "alloc" /\ \A h \in Handles : handle[p][h].slot = 0
  PROVE  IInv'
<1> USE DEF IInv
<1>0. PICK s0 : s0 = table[p]
  OBVIOUS
<1>1. /\ lock' = IF lock = p THEN None ELSE lock
      /\ seg' = IF lock = p THEN [seg EXCEPT ![s0].torn = TRUE] ELSE seg
      /\ handle' = [handle EXCEPT ![p] = [h \in Handles |-> Closed]]
      /\ fifo' = FifoWithout({p} \X Handles)
      /\ table' = [table EXCEPT ![p] = 0]
      /\ created' = [created EXCEPT ![p] = FALSE]
      /\ pc' = [pc EXCEPT ![p] = "off"]
      /\ job' = [job EXCEPT ![p] = NoJob]
  BY <1>0 DEF Dies
<1>2. lock = p => s0 \in Segs
  BY <1>0, HasTable DEF Locked, Locking, Running
<1>3. Closed \in HandleType /\ Closed.slot = 0 /\ Closed.linked = FALSE /\ Closed.owns = FALSE
  BY DEF Closed, HandleType
<1>4. /\ pc'[p] = "off" /\ table'[p] = 0 /\ created'[p] = FALSE
      /\ \A h \in Handles : handle'[p][h] = Closed
      /\ \A q \in Procs \ {p} : /\ pc'[q] = pc[q] /\ table'[q] = table[q]
                                /\ created'[q] = created[q] /\ job'[q] = job[q]
                                /\ handle'[q] = handle[q]
  BY <1>1 DEF TypeOK
<1>5. TypeOK'
  <2>1. seg' \in SegsType
    BY <1>1, <1>2, TypeParts, WriteTorn
  <2>2. handle' \in [Procs -> [Handles -> HandleType]]
    BY <1>1, <1>3, TypeParts
  <2>3. job' \in [Procs -> JobType]
    BY <1>1, TypeParts, NoJobType
  <2>4. fifo' \in [Slots -> Nat]
    BY <1>1 DEF FifoWithout, TypeOK
  <2>5. lock' \in Procs \cup {None}
    BY <1>1 DEF TypeOK
  <2>6. pc' \in [Procs -> {"off", "retry", "missed", "truncate", "opened", "mapped",
                       "discard", "failed", "idle", "create", "open", "init", "alloc",
                       "init2", "token", "free", "dropused"}]
        /\ table' \in [Procs -> Segs \cup {0}]
        /\ created' \in [Procs -> BOOLEAN]
    BY <1>1 DEF TypeOK
  <2>7. events' \subseteq {"raced", "overfull", "wiped", "doubled", "died"}
    BY DEF TypeOK
  <2>8. shm' \in Segs \cup {0} /\ attempt' \in [Procs -> 1..2]
    BY DEF TypeOK
  <2> QED
    BY <2>1, <2>2, <2>3, <2>4, <2>5, <2>6, <2>7, <2>8 DEF TypeOK, SegsType, JobType, HandleType
<1>6. /\ NamesKept /\ RefsKept
      /\ \A s \in Segs : seg'[s].used = seg[s].used /\ seg'[s].ready = seg[s].ready
  BY <1>1, <1>2 DEF NamesKept, RefsKept, TypeOK, SegmentType
<1>7. /\ \A s \in Segs : lock # p \/ s # s0 => seg'[s].torn = seg[s].torn
      /\ lock = p => seg'[s0].torn = TRUE
  <2>1. CASE lock # p
    BY <1>1, <2>1
  <2>2. CASE lock = p
    <3>1. seg' = [seg EXCEPT ![s0] = [seg[s0] EXCEPT !.torn = TRUE]] /\ s0 \in Segs
      BY <1>1, <1>2, <2>2
    <3>2. seg'[s0] = [seg[s0] EXCEPT !.torn = TRUE] /\ \A s \in Segs : s # s0 => seg'[s] = seg[s]
      BY <3>1 DEF TypeOK
    <3>3. seg'[s0].torn = TRUE
      BY <3>1, <3>2 DEF TypeOK, SegmentType
    <3> QED
      BY <2>2, <3>2, <3>3
  <2> QED
    BY <2>1, <2>2
<1>8. Mapped'
  BY <1>4 DEF Mapped
<1>9. OrderFrame
  <2>1. \A q \in Procs : Author(q)' => Author(q) /\ table'[q] = table[q]
    BY <1>4 DEF Author
  <2>2. \A q \in Procs : pc'[q] \in Running \cup {"discard"} =>
          pc'[q] = pc[q] /\ table'[q] = table[q]
    BY <1>4 DEF Running
  <2>3. \A q \in Procs : table'[q] \in {0, shm, table[q]}
    BY <1>4
  <2> QED
    BY <1>6, <2>1, <2>2, <2>3 DEF OrderFrame
<1>10. Headed' /\ Shared'
  BY <1>5, <1>8, <1>9, OrderKept
<1>11. Locked'
  BY <1>1, <1>4, NoneAssumption DEF Locked, Locking
<1>12. Called'
  BY <1>4 DEF Called
<1>13. Opened'
  BY <1>3, <1>4 DEF Opened
<1>14. Found'
  <2> SUFFICES ASSUME NEW q \in Procs \ {p}, pc[q] \in Locking PROVE FoundBy(q)'
    BY <1>4 DEF Found, FoundBy, Locking
  <2>1. table[q] \in Segs
    BY HasTable DEF Locking, Running
  <2> QED
    BY <1>4, <1>6, <2>1 DEF Found, FoundBy, NamesKept, RefsKept, Tab
<1>15. \A s \in Segs : Live(s)' = Live(s) /\ Live(s) \subseteq Slots
  BY <1>6 DEF Live, NamesKept
<1>16. Unnamed' /\ NameIsUnique'
  BY <1>6, <1>15 DEF Unnamed, NameIsUnique, NamesKept, RefsKept
<1>17. /\ OpenHandles' = OpenHandles \ ({p} \X Handles)
       /\ \A x \in OpenHandles' : /\ x[1] # p /\ table'[x[1]] = table[x[1]]
                                  /\ handle'[x[1]][x[2]] = handle[x[1]][x[2]]
  BY <1>3, <1>4 DEF OpenHandles
<1>18. HandleKeepsName'
  <2> SUFFICES ASSUME "wiped" \notin events', NEW x \in OpenHandles'
               PROVE  seg'[table'[x[1]]].name[handle'[x[1]][x[2]].slot] = handle'[x[1]][x[2]].name
    BY DEF HandleKeepsName, Tab
  <2>1. /\ x \in OpenHandles /\ table'[x[1]] = table[x[1]]
        /\ handle'[x[1]][x[2]] = handle[x[1]][x[2]]
    BY <1>17
  <2>2. table[x[1]] \in Segs /\ seg'[table[x[1]]].name = seg[table[x[1]]].name
    BY <1>6, <2>1, OpenHasTable DEF NamesKept
  <2>3. seg[table[x[1]]].name[handle[x[1]][x[2]].slot] = handle[x[1]][x[2]].name
    BY <2>1 DEF HandleKeepsName, Tab
  <2> QED
    BY <2>1, <2>2, <2>3
<1>19. ASSUME NEW s \in Segs, NEW i
       PROVE  /\ OnSlot(s, i)' \subseteq OnSlot(s, i)
              /\ "died" \notin events' => OnSlot(s, i)' = OnSlot(s, i)
  <2>1. OnSlot(s, i)' = OnSlot(s, i) \ ({p} \X Handles)
    BY <1>4, <1>17 DEF OnSlot, OpenHandles
  <2>2. "died" \notin events' => OnSlot(s, i) \cap ({p} \X Handles) = {}
    BY DEF OnSlot, OpenHandles
  <2> QED
    BY <2>1, <2>2
<1>20. Refs'
  <2> SUFFICES ASSUME "wiped" \notin events', NEW s \in Segs, NEW i \in Live(s)
               PROVE  /\ seg'[s].nRef[i] >= Cardinality(OnSlot(s, i)')
                      /\ "died" \notin events' =>
                            /\ seg'[s].nRef[i] = Cardinality(OnSlot(s, i)')
                            /\ seg'[s].nRef[i] > 0 \/ Between(s, i)'
    BY <1>15 DEF Refs
  <2>1. seg'[s].nRef[i] = seg[s].nRef[i] /\ seg[s].nRef[i] \in Int /\ "wiped" \notin events
    BY <1>6, <1>15 DEF RefsKept, TypeOK, SegmentType
  <2>2. seg[s].nRef[i] >= Cardinality(OnSlot(s, i))
    BY <2>1 DEF Refs
  <2>3. CASE "died" \in events'
    <3>1. Cardinality(OnSlot(s, i)') <= Cardinality(OnSlot(s, i))
      BY <1>19, OnSlotFinite, FS_Subset
    <3>2. Cardinality(OnSlot(s, i)') \in Nat /\ Cardinality(OnSlot(s, i)) \in Nat
      BY OnSlotFinite
    <3> QED
      BY <2>1, <2>2, <2>3, <3>1, <3>2
  <2>4. CASE "died" \notin events'
    <3>1. "died" \notin events /\ pc[p] = "alloc" /\ lock = p
      BY <2>4 DEF Locked, Locking
    <3>2. ~Between(s, i)
      BY <3>1 DEF Between
    <3>3. OnSlot(s, i)' = OnSlot(s, i)
      BY <1>19, <2>4
    <3> QED
      BY <2>1, <2>2, <3>1, <3>2, <3>3 DEF Refs
  <2> QED
    BY <2>3, <2>4
<1>21. Used'
  <2> SUFFICES ASSUME NEW s \in Segs
               PROVE  /\ seg'[s].used >= Cardinality(Live(s)') + Extra(s)'
                      /\ ~seg'[s].torn => seg'[s].used = Cardinality(Live(s)') + Extra(s)'
    BY DEF Used
  <2>1. CASE lock # p
    <3>1. Extra(s)' = Extra(s)
      BY <1>1, <1>4, <2>1, NoneAssumption DEF Extra, Ahead, TypeOK
    <3> QED
      BY <1>6, <1>7, <1>15, <2>1, <3>1 DEF Used
  <2>2. CASE lock = p
    <3>1. Extra(s)' = 0 /\ Extra(s) \in {0, 1} /\ (s # s0 => Extra(s) = 0)
      BY <1>0, <1>1, <2>2 DEF Extra, Ahead
    <3>2. Cardinality(Live(s)) \in Nat /\ seg[s].used \in Nat
      BY LiveFinite DEF TypeOK, SegmentType
    <3>3. CASE s = s0
      BY <1>6, <1>7, <1>15, <2>2, <3>1, <3>2, <3>3 DEF Used
    <3>4. CASE s # s0
      BY <1>6, <1>7, <1>15, <3>1, <3>4 DEF Used
    <3> QED
      BY <3>3, <3>4
  <2> QED
    BY <2>1, <2>2
<1>22. NotFull'
  BY <1>6 DEF NotFull
<1>23. \A i \in Slots : fifo'[i] = IF Linked(i, {p} \X Handles) = {} THEN 0 ELSE fifo[i]
  BY <1>1 DEF FifoWithout
<1>24. Filled'
  <2> SUFFICES ASSUME NEW i \in Slots, fifo'[i] > 0 PROVE Linked(i, {})' # {}
    BY DEF Filled
  <2>1. Linked(i, {p} \X Handles) # {}
    <3>1. Linked(i, {p} \X Handles) = {} => fifo'[i] = 0
      BY <1>23
    <3>2. fifo'[i] # 0
      OBVIOUS
    <3> QED
      BY <3>1, <3>2
  <2>2. Linked(i, {p} \X Handles) \subseteq Linked(i, {})'
    BY <1>17 DEF Linked
  <2> QED
    BY <2>1, <2>2
<1>25. Tokens'
  <2>1. \A i \in Slots : fifo'[i] \in {0, fifo[i]}
    BY <1>23
  <2>2. \A i \in Slots : Owners(i)' \subseteq Owners(i)
    BY <1>17 DEF Owners
  <2>3. \A i \in Slots : Pending(i)' \subseteq Pending(i)
    BY <1>4 DEF Pending
  <2>4. events \subseteq events'
    OBVIOUS
  <2> QED
    BY <2>1, <2>2, <2>3, <2>4, TokensShrink
<1> QED
  BY <1>5, <1>8, <1>10, <1>11, <1>12, <1>13, <1>14, <1>16, <1>18, <1>20, <1>21, <1>22, <1>24,
     <1>25

LEMMA TableFullStep == ASSUME IInv, NEW p \in Procs, TableFull(p) PROVE IInv'
<1>1. events' \in {events, events \cup {"died"}} /\ crashes' \in Nat /\ faults' \in Nat
  BY DEF TableFull, IInv, TypeOK
<1>2. "died" \notin events' => \A h \in Handles : handle[p][h].slot = 0
  <2>1. "died" \notin events' => OpenHandles \cap ({p} \X Handles) = {}
    BY DEF TableFull
  <2>2. \A h \in Handles : handle[p][h].slot # 0 => <<p, h>> \in OpenHandles \cap ({p} \X Handles)
    BY DEF OpenHandles
  <2> QED
    BY <2>1, <2>2
<1> QED
  BY <1>1, <1>2, DiesStep DEF TableFull

LEMMA CrashStep == ASSUME IInv, NEW p \in Procs, Crash(p) PROVE IInv'
<1>1. events' = events \cup {"died"} /\ crashes' \in Nat /\ faults' \in Nat
  BY DEF Crash, IInv, TypeOK
<1> QED
  BY <1>1, DiesStep DEF Crash

-----------------------------------------------------------------------------
LEMMA NextIInv == IInv /\ [Next]_vars => IInv'
<1> SUFFICES ASSUME IInv, [Next]_vars PROVE IInv'
  OBVIOUS
<1>1. CASE UNCHANGED vars
  <2>1. TypeOK' /\ Locked' /\ Mapped' /\ Headed' /\ Called'
    BY <1>1 DEF IInv, vars, TypeOK, Locked, Mapped, Headed, Called, Author, Tab
  <2>2. Opened' /\ Found' /\ Unnamed' /\ NameIsUnique' /\ HandleKeepsName'
    BY <1>1 DEF IInv, vars, Opened, Found, Unnamed, NameIsUnique, HandleKeepsName, OpenHandles,
                Tab, Live
  <2>3. Used' /\ Refs' /\ NotFull' /\ Shared'
    BY <1>1 DEF IInv, vars, Used, Refs, NotFull, Shared, Live, Extra, Ahead, Between, OnSlot,
                OpenHandles, Author, Tab
  <2>4. Filled' /\ Tokens'
    BY <1>1 DEF IInv, vars, Filled, Linked, Tokens, Owners, Pending, OpenHandles
  <2> QED
    BY <2>1, <2>2, <2>3, <2>4 DEF IInv
<1>2. ASSUME NEW p \in Procs, Start(p) PROVE IInv'
  BY <1>2, OpenSegmentStep, CreateSegmentStep, TruncateStep, MapSegmentStep, CensusStep,
     DiscardStep, UnlinkSegmentStep, WriteHeaderStep DEF Start
<1>3. ASSUME NEW p \in Procs, UseHandle(p) PROVE IInv'
  BY <1>3, CallStep, CloseHandleStep, WaitStep, ReleaseMutexStep DEF UseHandle
<1>4. ASSUME NEW p \in Procs, Proceed(p) PROVE IInv'
  BY <1>4, OpenExistingStep, NotExistingStep, InitSearchStep, AllocSlotStep, Init2Step,
     Init2FailsStep, InitialTokenStep, FreeSlotStep, DropUsedStep, TableFullStep DEF Proceed
<1>5. ASSUME NEW p \in Procs, Crash(p) PROVE IInv'
  BY <1>5, CrashStep
<1> QED
  BY <1>1, <1>2, <1>3, <1>4, <1>5 DEF Next

LEMMA Invariant == Spec => []IInv
  BY InitIInv, NextIInv, PTL DEF Spec

(***************************************************************************)
(* A name denotes one object.  The race of two creators is decided by the  *)
(* second search, under the lock that is held until the slot has the name  *)
(* (InitSearch, AllocSlot), also for the processes that crash in between.  *)
(***************************************************************************)
THEOREM NamesAreUnique == Spec => []NameIsUnique
<1>1. IInv => NameIsUnique
  BY DEF IInv
<1> QED
  BY <1>1, Invariant, PTL

(***************************************************************************)
(* A slot keeps its name while a process has a handle to it: a slot is     *)
(* freed (FreeSlot) only by the close that takes nRef to zero, and nRef is *)
(* never below the number of handles, unless a failed init has reset a     *)
(* slot it had found (Init2Fails).                                         *)
(***************************************************************************)
THEOREM HandlesKeepNames == Spec => []HandleKeepsName
<1>1. IInv => HandleKeepsName
  BY DEF IInv
<1> QED
  BY <1>1, Invariant, PTL

(***************************************************************************)
(* The types hold, so used is never decremented below zero, and outside    *)
(* the lock nRef is at least the number of handles, exactly that and not   *)
(* zero as long as nobody has died with handles open.                      *)
(***************************************************************************)
THEOREM ReferencesCounted == Spec => []RefsCounted
<1>1. IInv => RefsCounted
  <2> SUFFICES ASSUME IInv, lock = None, "wiped" \notin events, NEW s \in Segs, NEW i \in Live(s)
               PROVE  /\ seg[s].nRef[i] >= Cardinality(OnSlot(s, i))
                      /\ "died" \notin events =>
                            seg[s].nRef[i] = Cardinality(OnSlot(s, i)) /\ seg[s].nRef[i] > 0
    BY DEF RefsCounted, IInv
  <2>1. ~Between(s, i)
    BY DEF Between
  <2> QED
    BY <2>1 DEF IInv, Refs
<1> QED
  BY <1>1, Invariant, PTL

(***************************************************************************)
(* Outside the lock, used is at least the number of slots in use, and that *)
(* number unless a process died inside the lock since the last census.     *)
(***************************************************************************)
THEOREM UsedIsCounted == Spec => []UsedCounts
<1>1. IInv => UsedCounts
  <2> SUFFICES ASSUME IInv, lock = None, NEW s \in Segs
               PROVE  /\ seg[s].used >= Cardinality(Live(s))
                      /\ ~seg[s].torn => seg[s].used = Cardinality(Live(s))
    BY DEF UsedCounts
  <2>1. Extra(s) = 0 /\ Cardinality(Live(s)) \in Nat
    BY LiveFinite DEF Extra, Ahead
  <2> QED
    BY <2>1 DEF IInv, Used
<1> QED
  BY <1>1, Invariant, PTL

(***************************************************************************)
(* Two processes with different tables are there only after a start met    *)
(* the segment of another start without a header, two starts discarded at  *)
(* the same time, or a table was more than full: a crash inside the lock   *)
(* never makes Census take the table for a stale one.                      *)
(***************************************************************************)
THEOREM TableIsShared == Spec => []OneTable
<1>1. IInv => OneTable
  <2> SUFFICES ASSUME IInv, NEW p \in Procs, NEW q \in Procs, Ready(p), Ready(q),
                      events \cap {"raced", "overfull"} = {}
               PROVE  table[p] = table[q]
    BY DEF OneTable
  <2>1. pc[p] \in Running /\ pc[q] \in Running
    BY DEF Ready, IInv, Mapped, TypeOK, Running
  <2> QED
    BY <2>1, OneSegment
<1> QED
  BY <1>1, Invariant, PTL

(***************************************************************************)
(* A named mutex has one token, in its fifo or with one owner, however     *)
(* often it is closed, created again, waited for, released and left behind *)
(* by processes that die, unless two creators overlapped, a failed init    *)
(* reset the slot or there are two tables.                                 *)
(***************************************************************************)
THEOREM TokenIsUnique == Spec => []OneToken
<1>1. IInv => OneToken
  <2> SUFFICES ASSUME IInv, events \cap {"doubled", "wiped", "raced", "overfull"} = {},
                      NEW i \in Slots
               PROVE  fifo[i] + Cardinality(Owners(i)) <= 1
    BY DEF OneToken, Owners
  <2>1. /\ fifo[i] \in Nat /\ fifo[i] <= 1
        /\ fifo[i] = 1 => Owners(i) = {}
        /\ \A x, y \in Owners(i) : x = y
    BY DEF IInv, Tokens, TypeOK
  <2>2. Cardinality(Owners(i)) \in {0, 1} /\ (Owners(i) = {} => Cardinality(Owners(i)) = 0)
    <3>1. CASE Owners(i) = {}
      BY <3>1, FS_EmptySet
    <3>2. CASE Owners(i) # {}
      <4>1. PICK x : Owners(i) = {x}
        BY <2>1, <3>2
      <4> QED
        BY <3>2, <4>1, FS_Singleton
    <3> QED
      BY <3>1, <3>2
  <2> QED
    BY <2>1, <2>2
<1> QED
  BY <1>1, Invariant, PTL
=============================================================================
