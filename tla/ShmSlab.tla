------------------------------ MODULE ShmSlab ------------------------------
(***************************************************************************)
(* core/shm/shm_slab: the allocator in shared memory from which every      *)
(* process of a host takes the blocks of its messages (GlobalSpace.h), and *)
(* its lock (shm_lock, shm_spinlock).  Both objects are made by the first  *)
(* processes that start, are never removed, and are used by the others as  *)
(* soon as they can be opened.  Blocks are numbered; a page is cut into    *)
(* PageBlocks of them, whatever its class.  A free block holds the number  *)
(* of the next one.  A process may die between any two steps.              *)
(*                                                                         *)
(* SharedMemory::Open (core/shm/shm) on POSIX comes first: an object       *)
(* outlives the processes that use it.  Its creator makes it with no size, *)
(* sets the size, and fills it in after Open; a process that comes         *)
(* meanwhile sees the size only.                                           *)
(***************************************************************************)
EXTENDS Integers, FiniteSets

CONSTANTS Procs, Objects,
          MaxClass,     \* MAX_CLASSES: the classes are 1 .. MaxClass
          PageBlocks, Pages,
          MaxHeld,      \* bounds: blocks that a process holds at once,
          MaxStarts,    \* and processes that are started
          Free, Dead    \* of the lock: nobody has it; its holder has died

Wild == -1    \* an offset that is none
Classes == 1 .. MaxClass
Blocks == 1 .. Pages * PageBlocks

VARIABLES
  shm,           \* each object: "none", "empty" (size 0) or "sized"
  pc,            \* each process: its step
  obj,           \* each process: the object that it opens
  lock,          \* the mutex: its holder, Free or Dead
  magic, ready,  \* the header: magic is set; bump and end are set
  sized,         \* the classes whose item_size is set
  bump,          \* how many pages have been cut
  class,         \* the class of each of them
  free_list,     \* each class: its first free block, or 0
  next,          \* each block: what its first bytes say while it is free
  cls, off,      \* locals of a process: class and block of its operation
  own,           \* the blocks a process holds
  lost,          \* history: the blocks that nobody will free or find again
  reset,         \* history: the mutex was initialised while somebody had it
  starts         \* how many processes have been started

header == <<magic, ready, sized>>
pages == <<bump, class, free_list, next>>
local == <<cls, off, own>>
vars == <<shm, pc, obj, lock, header, pages, local, lost, reset, starts>>

Init == /\ shm = [o \in Objects |-> "none"]
        /\ pc = [p \in Procs |-> "off"] /\ obj = [p \in Procs |-> "lock"]
        /\ lock = Free /\ magic = FALSE /\ ready = FALSE /\ sized = {}
        /\ bump = 0 /\ class = [g \in 1 .. Pages |-> 0]
        /\ free_list = [c \in Classes |-> 0] /\ next = [b \in Blocks |-> 0]
        /\ cls = [p \in Procs |-> 0] /\ off = [p \in Procs |-> 0]
        /\ own = [p \in Procs |-> {}]
        /\ lost = {} /\ reset = FALSE /\ starts = 0

-----------------------------------------------------------------------------
(* SharedMemory::Open.                                                      *)

At(p, step, o) == pc[p] = step /\ obj[p] = o
Goto(p, step, o) == pc' = [pc EXCEPT ![p] = step] /\ obj' = [obj EXCEPT ![p] = o]

\* shm_open of an object that may exist, and the check of its size.
Open(p, o) == /\ At(p, "open", o)
              /\ Goto(p, CASE shm[o] = "none"  -> "create"
                           [] shm[o] = "empty" -> "failed"
                           [] shm[o] = "sized" -> "attached", o)
              /\ UNCHANGED shm

\* shm_open with O_EXCL fails when another process has been faster.
Create(p, o) == /\ At(p, "create", o)
                /\ IF shm[o] = "none"
                   THEN shm' = [shm EXCEPT ![o] = "empty"] /\ Goto(p, "truncate", o)
                   ELSE Goto(p, "failed", o) /\ UNCHANGED shm

Truncate(p, o) == /\ At(p, "truncate", o)
                  /\ shm' = [shm EXCEPT ![o] = "sized"]
                  /\ Goto(p, "created", o)

\* ftruncate fails: the object is unlinked.
TruncateFails(p, o) == /\ At(p, "truncate", o)
                       /\ shm' = [shm EXCEPT ![o] = "none"]
                       /\ Goto(p, "failed", o)

OpenStep(p, o) == Open(p, o) \/ Create(p, o) \/ Truncate(p, o) \/ TruncateFails(p, o)

-----------------------------------------------------------------------------
(* The slab.                                                                *)

Page(b) == (b - 1) \div PageBlocks + 1
Class(b) == class[Page(b)]

\* The free list of a class, from its head on.
Walk(c) == LET walk[n \in 0 .. Cardinality(Blocks)] ==
                 IF n = 0 THEN free_list[c]
                 ELSE IF walk[n - 1] \in {0, Wild} THEN walk[n - 1] ELSE next[walk[n - 1]]
           IN  walk
Listed(c) == {Walk(c)[n] : n \in DOMAIN Walk(c)} \ {0, Wild}

----------------------------------------------------------------------------
(* A process comes and goes.                                               *)

Start(p) == /\ pc[p] = "off"
            /\ starts < MaxStarts /\ starts' = starts + 1
            /\ Goto(p, "open", "lock")
            /\ UNCHANGED <<shm, lock, header, pages, local, lost, reset>>

\* The process is gone with what it held: its blocks stay out of the lists, and a mutex
\* that it held is held for ever.
Ends(p) == /\ Goto(p, "off", "lock")
           /\ lock' = IF lock = p THEN Dead ELSE lock
           /\ lost' = lost \cup own[p] \cup
                        (IF pc[p] \in {"give", "link", "push"} THEN {off[p]} ELSE {})
           /\ own' = [own EXCEPT ![p] = {}]
           /\ cls' = [cls EXCEPT ![p] = 0] /\ off' = [off EXCEPT ![p] = 0]

Kill(p) == /\ pc[p] # "off"
           /\ Ends(p)
           /\ UNCHANGED <<shm, header, pages, reset, starts>>

\* ShmLock throws, the constructor of ShmSlab reads the header at address 0.
OpenFailed(p) == /\ \E o \in Objects : At(p, "failed", o)
                 /\ Ends(p)
                 /\ UNCHANGED <<shm, header, pages, reset, starts>>

----------------------------------------------------------------------------
(* The constructors.                                                       *)

OpenShared(p) == /\ \E o \in Objects : OpenStep(p, o)
                 /\ UNCHANGED <<lock, header, pages, local, lost, reset, starts>>

\* An opened mutex of zeros works like an initialised one.
LockAttached(p) == /\ At(p, "attached", "lock")
                   /\ Goto(p, "open", "slab")
                   /\ UNCHANGED <<shm, lock, header, pages, local, lost, reset, starts>>

InitMutex(p) == /\ At(p, "created", "lock")
                /\ lock' = Free
                /\ reset' = (reset \/ lock # Free)
                /\ Goto(p, "open", "slab")
                /\ UNCHANGED <<shm, header, pages, local, lost, starts>>

\* The magic number is the first thing the creator writes.
SlabAttached(p) == /\ At(p, "attached", "slab") /\ magic
                   /\ pc' = [pc EXCEPT ![p] = "run"]
                   /\ UNCHANGED <<shm, obj, lock, header, pages, local, lost, reset, starts>>

Incompatible(p) == /\ At(p, "attached", "slab") /\ ~magic
                   /\ Ends(p)
                   /\ UNCHANGED <<shm, header, pages, reset, starts>>

SetMagic(p) == /\ At(p, "created", "slab")
               /\ magic' = TRUE
               /\ pc' = [pc EXCEPT ![p] = "range"]
               /\ UNCHANGED <<shm, obj, lock, ready, sized, pages, local, lost, reset, starts>>

SetRange(p) == /\ pc[p] = "range"
               /\ ready' = TRUE /\ bump' = 0
               /\ pc' = [pc EXCEPT ![p] = "size"] /\ cls' = [cls EXCEPT ![p] = 1]
               /\ UNCHANGED <<shm, obj, lock, magic, sized, class, free_list, next, off, own,
                              lost, reset, starts>>

SetSize(p) == /\ pc[p] = "size"
              /\ sized' = sized \cup {cls[p]}
              /\ pc' = [pc EXCEPT ![p] = "clear"]
              /\ UNCHANGED <<shm, obj, lock, magic, ready, pages, local, lost, reset, starts>>

\* What an early process has put on the list is gone.
ClearList(p) ==
  /\ pc[p] = "clear"
  /\ free_list' = [free_list EXCEPT ![cls[p]] = 0]
  /\ lost' = lost \cup Listed(cls[p])
  /\ IF cls[p] = MaxClass
     THEN pc' = [pc EXCEPT ![p] = "run"] /\ cls' = [cls EXCEPT ![p] = 0]
     ELSE pc' = [pc EXCEPT ![p] = "size"] /\ cls' = [cls EXCEPT ![p] = @ + 1]
  /\ UNCHANGED <<shm, obj, lock, header, bump, class, next, off, own, reset, starts>>

----------------------------------------------------------------------------
(* Alloc.                                                                  *)

\* Helper::CreateSSPack, CreateCSPackage and ForwardRawAppMsg ask for a block.
Want(p, c) == /\ pc[p] = "run" /\ Cardinality(own[p]) < MaxHeld
              /\ pc' = [pc EXCEPT ![p] = "want"] /\ cls' = [cls EXCEPT ![p] = c]
              /\ UNCHANGED <<shm, obj, lock, header, pages, off, own, lost, reset, starts>>

\* No class holds more than 8192 bytes.
TooLarge(p) == /\ pc[p] = "run"
               /\ pc' = [pc EXCEPT ![p] = "refused"]
               /\ UNCHANGED <<shm, obj, lock, header, pages, local, lost, reset, starts>>

\* Mutant of the next: the lock is taken whoever has it.
LockHeld(p) == /\ pc[p] \in {"want", "give"}
               /\ lock' = p
               /\ pc' = [pc EXCEPT ![p] = IF @ = "want" THEN "alloc" ELSE "link"]
               /\ UNCHANGED <<shm, obj, header, pages, local, lost, reset, starts>>

Lock(p) == /\ pc[p] \in {"want", "give"} /\ lock = Free
           /\ lock' = p
           /\ pc' = [pc EXCEPT ![p] = IF @ = "want" THEN "alloc" ELSE "link"]
           /\ UNCHANGED <<shm, obj, header, pages, local, lost, reset, starts>>

Room == ready /\ bump < Pages

First(g) == (g - 1) * PageBlocks + 1

\* The blocks of the page, last one first, before what the list held.
Cut(p, c) ==
  /\ free_list' = [free_list EXCEPT ![c] = First(bump + 1) + PageBlocks - 1]
  /\ next' = [b \in Blocks |-> IF b \in First(bump + 1) + 1 .. First(bump + 1) + PageBlocks - 1
                               THEN b - 1
                               ELSE IF b = First(bump + 1) THEN free_list[c] ELSE next[b]]

NewPage(p) == /\ pc[p] = "alloc" /\ free_list[cls[p]] = 0
              /\ Room /\ cls[p] \in sized
              /\ Cut(p, cls[p])
              /\ bump' = bump + 1 /\ class' = [class EXCEPT ![bump + 1] = cls[p]]
              /\ pc' = [pc EXCEPT ![p] = "head"]
              /\ UNCHANGED <<shm, obj, lock, header, local, lost, reset, starts>>

\* item_size is still 0: the division ends the process, the lock held, the page taken.
PageOfNothing(p) == /\ pc[p] = "alloc" /\ free_list[cls[p]] = 0
                    /\ Room /\ cls[p] \notin sized
                    /\ bump' = bump + 1
                    /\ Ends(p)
                    /\ UNCHANGED <<shm, header, class, free_list, next, reset, starts>>

\* The mutex is neither robust (PTHREAD_MUTEX_ROBUST is no macro in glibc) nor checks who
\* unlocks it.
Unlock == lock' = Free

\* Alloc returns 0.  ForwardRawAppMsg returns no pack; CreateSSPack and CreateCSPackage
\* write to address 0.
Refuse(p) == /\ pc[p] = "alloc" /\ free_list[cls[p]] = 0 /\ ~Room
             /\ Unlock
             /\ pc' = [pc EXCEPT ![p] = "refused"] /\ cls' = [cls EXCEPT ![p] = 0]
             /\ UNCHANGED <<shm, obj, header, pages, off, own, lost, reset, starts>>

NoPack(p) == /\ pc[p] = "refused"
             /\ pc' = [pc EXCEPT ![p] = "run"]
             /\ UNCHANGED <<shm, obj, lock, header, pages, local, lost, reset, starts>>

NullWrite(p) == /\ pc[p] = "refused"
                /\ Ends(p)
                /\ UNCHANGED <<shm, header, pages, reset, starts>>

Found(p) == /\ pc[p] = "alloc" /\ free_list[cls[p]] # 0
            /\ pc' = [pc EXCEPT ![p] = "head"]
            /\ UNCHANGED <<shm, obj, lock, header, pages, local, lost, reset, starts>>

\* The head is read after the check, or after NewPage, and may have been cleared.
Head(p) == /\ pc[p] = "head" /\ free_list[cls[p]] # Wild
           /\ off' = [off EXCEPT ![p] = free_list[cls[p]]]
           /\ pc' = [pc EXCEPT ![p] = "pop"]
           /\ UNCHANGED <<shm, obj, lock, header, pages, cls, own, lost, reset, starts>>

HeadWild(p) == /\ pc[p] = "head" /\ free_list[cls[p]] = Wild
               /\ Ends(p)
               /\ UNCHANGED <<shm, header, pages, reset, starts>>

\* At offset 0, which stands for no block, is the magic number.  The message is written
\* over what the block said of the next.
Pop(p) == /\ pc[p] = "pop"
          /\ free_list' = [free_list EXCEPT ![cls[p]] = IF off[p] = 0 THEN Wild ELSE next[off[p]]]
          /\ Unlock
          /\ next' = [b \in Blocks |-> IF b = off[p] THEN Wild ELSE next[b]]
          /\ own' = [own EXCEPT ![p] = @ \cup ({off[p]} \ {0})]
          /\ pc' = [pc EXCEPT ![p] = IF off[p] = 0 THEN "refused" ELSE "run"]
          /\ cls' = [cls EXCEPT ![p] = 0] /\ off' = [off EXCEPT ![p] = 0]
          /\ UNCHANGED <<shm, obj, header, bump, class, lost, reset, starts>>

----------------------------------------------------------------------------
(* Free, which the deleter of a pack calls.                                *)

Release(p, b) == /\ pc[p] = "run" /\ b \in own[p]
                 /\ own' = [own EXCEPT ![p] = @ \ {b}]
                 /\ off' = [off EXCEPT ![p] = b] /\ cls' = [cls EXCEPT ![p] = Class(b)]
                 /\ pc' = [pc EXCEPT ![p] = "give"]
                 /\ UNCHANGED <<shm, obj, lock, header, pages, lost, reset, starts>>

Link(p) == /\ pc[p] = "link"
           /\ next' = [next EXCEPT ![off[p]] = free_list[cls[p]]]
           /\ pc' = [pc EXCEPT ![p] = "push"]
           /\ UNCHANGED <<shm, obj, lock, header, bump, class, free_list, local, lost, reset, starts>>

Push(p) == /\ pc[p] = "push"
           /\ free_list' = [free_list EXCEPT ![cls[p]] = off[p]]
           /\ Unlock
           /\ pc' = [pc EXCEPT ![p] = "run"]
           /\ cls' = [cls EXCEPT ![p] = 0] /\ off' = [off EXCEPT ![p] = 0]
           /\ UNCHANGED <<shm, obj, header, bump, class, next, own, lost, reset, starts>>

----------------------------------------------------------------------------
Construct(p) == \/ OpenShared(p) \/ OpenFailed(p) \/ LockAttached(p) \/ InitMutex(p)
                \/ SlabAttached(p) \/ Incompatible(p)
                \/ SetMagic(p) \/ SetRange(p) \/ SetSize(p) \/ ClearList(p)

Operate(p) == \/ TooLarge(p) \/ Lock(p) \/ NewPage(p) \/ PageOfNothing(p) \/ Refuse(p)
              \/ NoPack(p) \/ NullWrite(p) \/ Found(p) \/ Head(p) \/ HeadWild(p) \/ Pop(p)
              \/ Link(p) \/ Push(p)

Next == \E p \in Procs : \/ Start(p) \/ Kill(p) \/ Construct(p) \/ Operate(p)
                         \/ \E c \in Classes : Want(p, c)
                         \/ \E b \in Blocks : Release(p, b)

Spec == Init /\ [][Next]_vars

----------------------------------------------------------------------------
\* Types, and who holds the mutex.
TypeOK ==
  /\ shm \in [Objects -> {"none", "empty", "sized"}]
  /\ lock \in Procs \cup {Free, Dead}
  /\ {magic, ready, reset} \subseteq BOOLEAN /\ sized \subseteq Classes
  /\ bump \in 0 .. Pages /\ class \in [1 .. Pages -> {0} \cup Classes]
  /\ free_list \in [Classes -> {0, Wild} \cup Blocks]
  /\ next \in [Blocks -> {0, Wild} \cup Blocks]
  /\ off \in [Procs -> {0} \cup Blocks] /\ lost \subseteq Blocks
  /\ \A p \in Procs : lock = p => pc[p] \in {"alloc", "head", "pop", "link", "push"}

\* The block that a process is giving back.
Giving(p) == IF pc[p] \in {"give", "link", "push"} THEN {off[p]} ELSE {}

\* A block is with one process or on the list of its class, and the lists end: also for
\* a process that came before the header was complete, and after any death.  The one
\* exception is a mutex initialised under its holder (reset).
OneOwner ==
  reset \/ /\ \A p, q \in Procs : p # q => (own[p] \cup Giving(p)) \cap own[q] = {}
           /\ \A c \in Classes : /\ Walk(c)[Cardinality(Blocks)] \in {0, Wild}
                                 /\ \A b \in Listed(c) : Class(b) = c
                                 /\ \A p \in Procs : Listed(c) \cap own[p] = {}

\* A block is lost only with the process that held it, or when the creator clears a list
\* that an early process has filled.
NoneLost ==
  reset \/ \A b \in Blocks : Class(b) # 0 =>
             \/ b \in Listed(Class(b)) \cup lost
             \/ \E p \in Procs : b \in own[p] \cup Giving(p)
=============================================================================
