---------------------------- MODULE NamedObjects ----------------------------
(***************************************************************************)
(* Named kernel objects (src/src/platform/posix/sysobjs.cpp): processes    *)
(* share a table of slots in a POSIX shared memory segment, one slot per   *)
(* object, with a reference count and the name of the fifo that carries    *)
(* the object's signal bytes.  Named mutexes stand for all kinds here; a   *)
(* file mapping uses the same table in the same way.                       *)
(*                                                                         *)
(* The table's lock is TSemRwLock of module FileLock, whose exclusion is   *)
(* taken for granted (every process has one lock object of the table); it  *)
(* is free again when its holder dies.  A process calls with one thread at *)
(* a time: the threads of a process exclude each other as processes do.    *)
(***************************************************************************)
EXTENDS Integers, FiniteSets

CONSTANTS
  Procs,        \* processes
  Names,        \* names of objects (with their type)
  Handles,      \* handles a process may have open
  MaxObjects,   \* slots of the table (kGlobal_Handle_Size)
  MaxCrashes,   \* bound: processes that die for reasons outside this code
  MaxFaults,    \* bound: failing opens of a fifo
  None

ASSUME SizeAssumption == MaxObjects \in Nat \ {0}
ASSUME BoundAssumption == MaxCrashes \in Nat /\ MaxFaults \in Nat
ASSUME NoneAssumption == None \notin Names /\ None \notin Procs
ASSUME FiniteAssumption == IsFiniteSet(Procs) /\ IsFiniteSet(Handles)

Slots == 1..MaxObjects

\* Segments are told apart by a number; one nobody can reach is used again.
Segs == 1..Cardinality(Procs)

VARIABLES
  shm,      \* the segment the table's name refers to, 0 when there is none
  seg,      \* the segments: size given, header written, used, the slots, and
            \* whether a process died inside the lock since the last census
  lock,     \* the process that holds the table's lock
  pc,       \* what a process is doing
  table,    \* the segment a process has mapped, 0 when none
  created,  \* InitStat of the mapping: Created rather than Existed
  attempt,  \* attempt of the table's constructor
  job,      \* the call in progress
  handle,   \* the open handles of a process
  fifo,     \* bytes in the fifo at a slot's path
  crashes,
  faults,
  events    \* history: what has happened that the code does not repair

vars == <<shm, seg, lock, pc, table, created, attempt, job, handle, fifo,
          crashes, faults, events>>

NoJob == [name |-> None, h |-> None, own |-> FALSE, slot |-> 0, late |-> FALSE]
Closed == [name |-> None, slot |-> 0, linked |-> FALSE, owns |-> FALSE]

\* A segment as ftruncate leaves it: zeroes, HUnknown in every slot.
NewSegment ==
  [sized |-> FALSE, ready |-> FALSE, used |-> 0, torn |-> FALSE,
   name |-> [i \in Slots |-> None], nRef |-> [i \in Slots |-> 0],
   owner |-> [i \in Slots |-> None]]

Init ==
  /\ shm = 0
  /\ seg = [s \in Segs |-> NewSegment]
  /\ lock = None
  /\ pc = [p \in Procs |-> "off"]
  /\ table = [p \in Procs |-> 0]
  /\ created = [p \in Procs |-> FALSE]
  /\ attempt = [p \in Procs |-> 1]
  /\ job = [p \in Procs |-> NoJob]
  /\ handle = [p \in Procs |-> [h \in Handles |-> Closed]]
  /\ fifo = [i \in Slots |-> 0]
  /\ crashes = 0
  /\ faults = 0
  /\ events = {}

Tab(p) == seg[table[p]]
Live(s) == {i \in Slots : seg[s].name[i] # None}

\* Everything open: <<process, handle>> with an index into the table.
OpenHandles == {x \in Procs \X Handles : handle[x[1]][x[2]].slot # 0}
OnSlot(s, i) ==
  {x \in OpenHandles : table[x[1]] = s /\ handle[x[1]][x[2]].slot = i}

\* The processes and handles, other than those in X, that have the fifo at
\* the path of slot i open.
Linked(i, X) ==
  {x \in OpenHandles \ X : handle[x[1]][x[2]].slot = i /\ handle[x[1]][x[2]].linked}

\* The bytes of a fifo are gone when nobody has it open.
FifoWithout(X) == [i \in Slots |-> IF Linked(i, X) = {} THEN 0 ELSE fifo[i]]

Goto(p, l) == pc' = [pc EXCEPT ![p] = l]

-----------------------------------------------------------------------------
(***************************************************************************)
(* A process starts: the constructor of s_globalHandleTable and            *)
(* SharedMemory::init.  Nothing before LockTable is under the lock.        *)
(***************************************************************************)
Startup == <<lock, job, handle, fifo, crashes, faults>>

\* shm_open(name, O_RDWR).
OpenSegment(p) ==
  /\ pc[p] \in {"off", "retry"}
  /\ attempt' = [attempt EXCEPT ![p] = IF pc[p] = "off" THEN 1 ELSE 2]
  /\ table' = [table EXCEPT ![p] = shm]
  /\ created' = [created EXCEPT ![p] = FALSE]
  /\ Goto(p, IF shm # 0 THEN "opened" ELSE "missed")
  /\ UNCHANGED <<shm, seg, events, Startup>>

Unreachable == CHOOSE s \in Segs : \A q \in Procs : table[q] # s

\* shm_open(name, O_CREAT | O_EXCL): fails when another process was faster,
\* and the process stays without a table.
CreateSegment(p) ==
  /\ pc[p] = "missed"
  /\ \/ /\ shm = 0
        /\ shm' = Unreachable
        /\ seg' = [seg EXCEPT ![Unreachable] = NewSegment]
        /\ table' = [table EXCEPT ![p] = Unreachable]
        /\ created' = [created EXCEPT ![p] = TRUE]
        /\ Goto(p, "truncate")
     \/ /\ shm # 0
        /\ Goto(p, "failed")
        /\ UNCHANGED <<shm, seg, table, created>>
  /\ UNCHANGED <<attempt, events, Startup>>

Truncate(p) ==
  /\ pc[p] = "truncate"
  /\ seg' = [seg EXCEPT ![table[p]].sized = TRUE]
  /\ Goto(p, "opened")
  /\ UNCHANGED <<shm, table, created, attempt, events, Startup>>

\* mmap, and the read of the first word: SIGBUS when the segment has no size.
MapSegment(p) ==
  /\ pc[p] = "opened"
  /\ IF Tab(p).sized
       THEN Goto(p, "mapped") /\ UNCHANGED table
       ELSE Goto(p, "off") /\ table' = [table EXCEPT ![p] = 0]
  /\ UNCHANGED <<shm, seg, created, attempt, events, Startup>>

\* Another process has created the segment and is still to write its header.
Unborn(p) ==
  \E q \in Procs \ {p} :
    table[q] = table[p] /\ created[q] /\ pc[q] \in {"truncate", "opened", "mapped"}

\* Mutant: a wrong count is taken for a wrong layout.
LayoutMismatchCount(p) ==
  ~Tab(p).ready \/ Tab(p).used # Cardinality(Live(table[p]))

\* used > maxObjects, or key, size and magic were never written.
LayoutMismatch(p) == ~Tab(p).ready \/ Tab(p).used > MaxObjects

\* Mutant: the count is left as it was found.
CensusNoRepair(p) ==
  /\ pc[p] = "mapped" /\ lock = None
  /\ ~created[p] /\ ~LayoutMismatch(p)
  /\ seg' = [seg EXCEPT ![table[p]].torn = FALSE]
  /\ Goto(p, "idle")
  /\ UNCHANGED <<shm, table, created, attempt, events, Startup>>

\* The census repairs used.
Census(p) ==
  /\ pc[p] = "mapped" /\ lock = None
  /\ ~created[p] /\ ~LayoutMismatch(p)
  /\ seg' = [seg EXCEPT ![table[p]].used = Cardinality(Live(table[p])),
                        ![table[p]].torn = FALSE]
  /\ Goto(p, "idle")
  /\ UNCHANGED <<shm, table, created, attempt, events, Startup>>

\* A segment that looks stale is given up; the lock is released before the
\* name is unlinked.
Discard(p) ==
  /\ pc[p] = "mapped" /\ lock = None
  /\ ~created[p] /\ LayoutMismatch(p)
  /\ events' = IF Unborn(p) THEN events \cup {"raced"} ELSE events
  /\ Goto(p, "discard")
  /\ UNCHANGED <<shm, seg, table, created, attempt, Startup>>

\* shm_unlink takes whatever segment has the name by now.
UnlinkSegment(p) ==
  /\ pc[p] = "discard"
  /\ shm' = 0
  /\ events' = IF shm # table[p] THEN events \cup {"raced"} ELSE events
  /\ table' = [table EXCEPT ![p] = 0]
  /\ Goto(p, IF attempt[p] = 1 THEN "retry" ELSE "failed")
  /\ UNCHANGED <<seg, created, attempt, Startup>>

WriteHeader(p) ==
  /\ pc[p] = "mapped" /\ lock = None
  /\ created[p]
  /\ seg' = [seg EXCEPT ![table[p]] =
                [NewSegment EXCEPT !.sized = TRUE, !.ready = TRUE]]
  /\ Goto(p, "idle")
  /\ UNCHANGED <<shm, table, created, attempt, events, Startup>>

Start(p) ==
  \/ OpenSegment(p) \/ CreateSegment(p) \/ Truncate(p) \/ MapSegment(p)
  \/ Census(p) \/ Discard(p) \/ UnlinkSegment(p) \/ WriteHeader(p)

-----------------------------------------------------------------------------
(***************************************************************************)
(* Creating and opening.  CreateMutexA looks for the object first and      *)
(* calls init in a second critical section.                                *)
(***************************************************************************)
Attached == <<shm, table, created, attempt>>

\* findExistedHandleDataIndex scans every slot.
FindExisted(p, n) == {i \in Slots : Tab(p).name[i] = n}

FirstOf(S) == CHOOSE i \in S : \A j \in S : i <= j

\* A new object for handle h, its fifo opened.
WithHandle(p, h, n, i, owns) ==
  handle' = [handle EXCEPT ![p][h] =
               [name |-> n, slot |-> i, linked |-> TRUE, owns |-> owns]]

Call(p, h, n, own) ==
  /\ pc[p] = "idle"
  /\ handle[p][h] = Closed
  /\ \/ Goto(p, "create")
     \/ ~own /\ Goto(p, "open")
  /\ job' = [job EXCEPT ![p] = [NoJob EXCEPT !.name = n, !.h = h, !.own = own]]
  /\ UNCHANGED <<seg, lock, handle, fifo, crashes, faults, events, Attached>>

EndCall(p) == Goto(p, "idle") /\ job' = [job EXCEPT ![p] = NoJob]

\* Mutant: opening does not count a reference.
OpenExistingNoRef(p) ==
  /\ pc[p] \in {"create", "open"} /\ lock = None
  /\ FindExisted(p, job[p].name) # {}
  /\ WithHandle(p, job[p].h, job[p].name, FirstOf(FindExisted(p, job[p].name)), FALSE)
  /\ EndCall(p)
  /\ UNCHANGED <<seg, lock, fifo, crashes, faults, events, Attached>>

\* OpenExistObject finds the object: init2, whose result is not looked at.  A
\* handle without a fifo has no index, and is as good as none.
OpenExisting(p) ==
  /\ pc[p] \in {"create", "open"} /\ lock = None
  /\ FindExisted(p, job[p].name) # {}
  /\ LET i == FirstOf(FindExisted(p, job[p].name))
     IN \/ /\ seg' = [seg EXCEPT ![table[p]].nRef[i] = @ + 1]
           /\ WithHandle(p, job[p].h, job[p].name, i, FALSE)
           /\ UNCHANGED faults
        \/ /\ faults < MaxFaults
           /\ faults' = faults + 1
           /\ UNCHANGED <<seg, handle>>
  /\ EndCall(p)
  /\ UNCHANGED <<lock, fifo, crashes, events, Attached>>

NotExisting(p) ==
  /\ pc[p] \in {"create", "open"} /\ lock = None
  /\ FindExisted(p, job[p].name) = {}
  /\ IF pc[p] = "create" THEN Goto(p, "init") /\ UNCHANGED job ELSE EndCall(p)
  /\ UNCHANGED <<seg, lock, handle, fifo, crashes, faults, events, Attached>>

\* Mutant: init trusts the probe and does not search again.
InitSearchTrusting(p) ==
  /\ pc[p] = "init" /\ lock = None
  /\ lock' = p
  /\ seg' = [seg EXCEPT ![table[p]].used = @ + 1]
  /\ Goto(p, "alloc")
  /\ UNCHANGED <<job, handle, fifo, crashes, faults, events, Attached>>

\* NamedWaitbleObj::init up to the search: used is counted before a slot is
\* looked for.
InitSearch(p) ==
  /\ pc[p] = "init" /\ lock = None
  /\ lock' = p
  /\ LET E == FindExisted(p, job[p].name)
     IN IF E # {}
          THEN /\ job' = [job EXCEPT ![p].slot = FirstOf(E), ![p].late = TRUE]
               /\ Goto(p, "init2")
               /\ UNCHANGED <<seg, events>>
          ELSE /\ seg' = [seg EXCEPT ![table[p]].used = @ + 1]
               /\ events' = IF Tab(p).used = MaxObjects THEN events \cup {"overfull"}
                                                        ELSE events
               /\ Goto(p, "alloc")
               /\ UNCHANGED job
  /\ UNCHANGED <<handle, fifo, crashes, faults, Attached>>

AllocSlot(p) ==
  /\ pc[p] = "alloc"
  /\ FindExisted(p, None) # {}
  /\ LET i == FirstOf(FindExisted(p, None))
     IN /\ seg' = [seg EXCEPT ![table[p]].name[i] = job[p].name,
                              ![table[p]].nRef[i] = 0,
                              ![table[p]].owner[i] = IF job[p].own THEN p ELSE None]
        /\ job' = [job EXCEPT ![p].slot = i]
  /\ Goto(p, "init2")
  /\ UNCHANGED <<lock, handle, fifo, crashes, faults, events, Attached>>

\* init2 opens the fifo and counts the reference; the lock is released.
Init2(p) ==
  /\ pc[p] = "init2"
  /\ seg' = [seg EXCEPT ![table[p]].nRef[job[p].slot] = @ + 1]
  /\ WithHandle(p, job[p].h, job[p].name, job[p].slot, job[p].own /\ ~job[p].late)
  /\ lock' = None
  /\ Goto(p, "token")
  /\ UNCHANGED <<job, fifo, crashes, faults, events, Attached>>

\* The fifo cannot be opened: the slot is reset, also when it was found.
Init2Fails(p) ==
  /\ pc[p] = "init2"
  /\ faults < MaxFaults
  /\ faults' = faults + 1
  /\ seg' = [seg EXCEPT ![table[p]].name[job[p].slot] = None,
                        ![table[p]].nRef[job[p].slot] = 0]
  /\ events' = IF job[p].late THEN events \cup {"wiped"} ELSE events
  /\ Goto(p, "dropused")
  /\ UNCHANGED <<lock, job, handle, fifo, crashes, Attached>>

\* Mutant: the token is written for a mutex its creator owns, too.
InitialTokenAlways(p) ==
  /\ pc[p] = "token"
  /\ fifo' = [fifo EXCEPT ![job[p].slot] = @ + 1]
  /\ events' = IF job[p].late THEN events \cup {"doubled"} ELSE events
  /\ EndCall(p)
  /\ UNCHANGED <<seg, lock, handle, crashes, faults, Attached>>

\* A mutex nobody owns gets its token, outside the lock.
InitialToken(p) ==
  /\ pc[p] = "token"
  /\ LET i == job[p].slot
         writes == ~job[p].own /\ handle[p][job[p].h].linked
     IN /\ fifo' = IF writes THEN [fifo EXCEPT ![i] = @ + 1] ELSE fifo
        /\ events' = IF writes /\ job[p].late THEN events \cup {"doubled"} ELSE events
  /\ EndCall(p)
  /\ UNCHANGED <<seg, lock, handle, crashes, faults, Attached>>

-----------------------------------------------------------------------------
(***************************************************************************)
(* Closing a handle: ~NamedWaitbleObj.                                     *)
(***************************************************************************)
\* Mutant: the slot is freed with the first handle that is closed.
CloseHandleFrees(p, h) ==
  /\ pc[p] = "idle" /\ lock = None
  /\ handle[p][h].slot # 0
  /\ LET i == handle[p][h].slot
     IN /\ seg' = [seg EXCEPT ![table[p]].nRef[i] = @ - 1]
        /\ fifo' = FifoWithout({<<p, h>>})
        /\ job' = [job EXCEPT ![p].slot = i]
  /\ handle' = [handle EXCEPT ![p][h] = Closed]
  /\ Goto(p, "free") /\ lock' = p
  /\ UNCHANGED <<crashes, faults, events, Attached>>

CloseHandle(p, h) ==
  /\ pc[p] = "idle" /\ lock = None
  /\ handle[p][h].slot # 0
  /\ LET i == handle[p][h].slot
         n == Tab(p).nRef[i] - 1
     IN /\ seg' = [seg EXCEPT ![table[p]].nRef[i] = n]
        /\ fifo' = FifoWithout({<<p, h>>})
        /\ IF n = 0
             THEN Goto(p, "free") /\ lock' = p /\ job' = [job EXCEPT ![p].slot = i]
             ELSE UNCHANGED <<pc, lock, job>>
  /\ handle' = [handle EXCEPT ![p][h] = Closed]
  /\ UNCHANGED <<crashes, faults, events, Attached>>

\* unlink takes the fifo away from the path: who still has it open keeps a
\* fifo nobody else will ever open.
FreeSlot(p) ==
  /\ pc[p] = "free"
  /\ seg' = [seg EXCEPT ![table[p]].name[job[p].slot] = None]
  /\ fifo' = [fifo EXCEPT ![job[p].slot] = 0]
  /\ handle' = [q \in Procs |-> [h \in Handles |->
                  IF handle[q][h].slot = job[p].slot
                    THEN [handle[q][h] EXCEPT !.linked = FALSE] ELSE handle[q][h]]]
  /\ Goto(p, "dropused")
  /\ UNCHANGED <<lock, job, crashes, faults, events, Attached>>

\* --used, and the lock is released: the end of the destructor and of a
\* failed init.
DropUsed(p) ==
  /\ pc[p] = "dropused"
  /\ seg' = [seg EXCEPT ![table[p]].used = @ - 1]
  /\ lock' = None
  /\ EndCall(p)
  /\ UNCHANGED <<handle, fifo, crashes, faults, events, Attached>>

-----------------------------------------------------------------------------
(***************************************************************************)
(* The mutex in use, as far as its token goes; SyncObjects has the steps.  *)
(***************************************************************************)
\* WaitForSingleObject takes the byte and writes tid_owner.
Wait(p, h) ==
  /\ pc[p] = "idle"
  /\ LET e == handle[p][h]
     IN /\ e.linked /\ ~e.owns /\ fifo[e.slot] > 0
        /\ fifo' = [fifo EXCEPT ![e.slot] = @ - 1]
        /\ handle' = [handle EXCEPT ![p][h].owns = TRUE]
        /\ seg' = [seg EXCEPT ![table[p]].owner[e.slot] = p]
  /\ UNCHANGED <<lock, pc, job, crashes, faults, events, Attached>>

\* ReleaseMutex asks the slot who owns the mutex.
ReleaseMutex(p, h) ==
  /\ pc[p] = "idle"
  /\ LET e == handle[p][h]
     IN /\ e.slot # 0 /\ e.owns
        /\ Tab(p).owner[e.slot] = p
        /\ fifo' = IF e.linked THEN [fifo EXCEPT ![e.slot] = @ + 1] ELSE fifo
        /\ handle' = [handle EXCEPT ![p][h].owns = FALSE]
        /\ seg' = [seg EXCEPT ![table[p]].owner[e.slot] = None]
  /\ UNCHANGED <<lock, pc, job, crashes, faults, events, Attached>>

-----------------------------------------------------------------------------
(***************************************************************************)
(* Death of a process, by itself or by the assertion of a full table: the  *)
(* kernel closes its descriptors and drops its lock; what it wrote stays.  *)
(***************************************************************************)
Dies(p) ==
  /\ lock' = IF lock = p THEN None ELSE lock
  /\ seg' = IF lock = p THEN [seg EXCEPT ![table[p]].torn = TRUE] ELSE seg
  /\ handle' = [handle EXCEPT ![p] = [h \in Handles |-> Closed]]
  /\ fifo' = FifoWithout({p} \X Handles)
  /\ table' = [table EXCEPT ![p] = 0]
  /\ created' = [created EXCEPT ![p] = FALSE]
  /\ pc' = [pc EXCEPT ![p] = "off"]
  /\ job' = [job EXCEPT ![p] = NoJob]

TableFull(p) ==
  /\ pc[p] = "alloc"
  /\ FindExisted(p, None) = {}
  /\ Dies(p)
  /\ events' = IF OpenHandles \cap ({p} \X Handles) # {} THEN events \cup {"died"} ELSE events
  /\ UNCHANGED <<shm, attempt, crashes, faults>>

Crash(p) ==
  /\ pc[p] # "off" /\ crashes < MaxCrashes
  /\ crashes' = crashes + 1
  /\ Dies(p)
  /\ events' = events \cup {"died"}
  /\ UNCHANGED <<shm, attempt, faults>>

\* Inside a call.
Proceed(p) ==
  \/ OpenExisting(p) \/ NotExisting(p) \/ InitSearch(p) \/ AllocSlot(p)
  \/ Init2(p) \/ Init2Fails(p) \/ InitialToken(p) \/ FreeSlot(p) \/ DropUsed(p)
  \/ TableFull(p)

UseHandle(p) ==
  \E h \in Handles :
    \/ \E n \in Names, own \in BOOLEAN : Call(p, h, n, own)
    \/ CloseHandle(p, h) \/ Wait(p, h) \/ ReleaseMutex(p, h)

Next == \E p \in Procs : Start(p) \/ UseHandle(p) \/ Proceed(p) \/ Crash(p)

Spec == Init /\ [][Next]_vars

-----------------------------------------------------------------------------
SegmentType ==
  [sized : BOOLEAN, ready : BOOLEAN, torn : BOOLEAN, used : Nat,
   name : [Slots -> Names \cup {None}], nRef : [Slots -> Int],
   owner : [Slots -> Procs \cup {None}]]

\* used is unsigned in the header: that it is a natural number says that no
\* order of failures and closes takes it below zero.
TypeOK ==
  /\ shm \in Segs \cup {0}
  /\ seg \in [Segs -> SegmentType]
  /\ lock \in Procs \cup {None}
  /\ pc \in [Procs -> {"off", "retry", "missed", "truncate", "opened", "mapped",
                       "discard", "failed", "idle", "create", "open", "init", "alloc",
                       "init2", "token", "free", "dropused"}]
  /\ table \in [Procs -> Segs \cup {0}]
  /\ created \in [Procs -> BOOLEAN]
  /\ attempt \in [Procs -> 1..2]
  /\ job \in [Procs -> [name : Names \cup {None}, h : Handles \cup {None},
                        own : BOOLEAN, slot : Slots \cup {0}, late : BOOLEAN]]
  /\ handle \in [Procs -> [Handles -> [name : Names \cup {None}, slot : Slots \cup {0},
                                      linked : BOOLEAN, owns : BOOLEAN]]]
  /\ fifo \in [Slots -> Nat]
  /\ crashes \in Nat /\ faults \in Nat
  /\ events \subseteq {"raced", "overfull", "wiped", "doubled", "died"}

Ready(p) == table[p] # 0 /\ pc[p] \notin {"missed", "truncate", "opened", "mapped", "discard"}

(***************************************************************************)
(* The processes share one table, although a process that finds a          *)
(* damaged one may throw it away: two tables exist only if a start met the *)
(* segment of another start before its header was written, two starts      *)
(* discarded at the same time, or the table was more than full.  A crash   *)
(* inside the lock alone is repaired, as the comment of the census says.   *)
(***************************************************************************)
OneTable ==
  \A p, q \in Procs :
    Ready(p) /\ Ready(q) /\ table[p] # table[q] => events \cap {"raced", "overfull"} # {}

(***************************************************************************)
(* A slot keeps its name as long as some process has a handle to it,       *)
(* whatever the others close, fail to open or crash in the middle of,      *)
(* unless an init that lost the race with another creator failed to open   *)
(* the fifo and reset the slot.                                            *)
(***************************************************************************)
HandleKeepsName ==
  "wiped" \notin events =>
    \A x \in OpenHandles :
      LET e == handle[x[1]][x[2]] IN Tab(x[1]).name[e.slot] = e.name

(***************************************************************************)
(* A name denotes one object: no two slots of a table ever have the same   *)
(* name, also where a crash has left used out of step with the slots.      *)
(***************************************************************************)
NameIsUnique ==
  \A s \in Segs : \A i, j \in Live(s) : seg[s].name[i] = seg[s].name[j] => i = j

(***************************************************************************)
(* Outside the lock a slot counts at least its open handles; without a     *)
(* death it counts exactly them and is free when there are none, so the    *)
(* last close gives the name back.  The types hold.                        *)
(***************************************************************************)
RefsCounted ==
  /\ TypeOK
  /\ lock = None /\ "wiped" \notin events =>
       \A s \in Segs : \A i \in Live(s) :
         /\ seg[s].nRef[i] >= Cardinality(OnSlot(s, i))
         /\ "died" \notin events =>
               seg[s].nRef[i] = Cardinality(OnSlot(s, i)) /\ seg[s].nRef[i] > 0

(***************************************************************************)
(* Outside the lock used is never below the number of live slots, and is   *)
(* that number unless a process died inside the lock since the last start. *)
(***************************************************************************)
UsedCounts ==
  lock = None =>
    \A s \in Segs :
      /\ seg[s].used >= Cardinality(Live(s))
      /\ ~seg[s].torn => seg[s].used = Cardinality(Live(s))

(***************************************************************************)
(* A named mutex has one token, in its fifo or with one owner: two         *)
(* processes own it only if two creators overlapped (the second writes     *)
(* another token), a failed init reset its slot, or there are two tables.  *)
(***************************************************************************)
OneToken ==
  events \cap {"doubled", "wiped", "raced", "overfull"} = {} =>
    \A i \in Slots :
      fifo[i] + Cardinality({x \in OpenHandles : /\ handle[x[1]][x[2]].slot = i
                                                 /\ handle[x[1]][x[2]].owns}) <= 1
=============================================================================
