-------------------------------- MODULE Shm --------------------------------
(***************************************************************************)
(* The two structures in shared memory, each checked by itself: the ring   *)
(* of ShmRingBuffer and the allocator of ShmSlab.  side is the one that    *)
(* runs; the other stays in its initial state.                             *)
(***************************************************************************)
EXTENDS ShmRingBuffer

CONSTANTS Procs, Dead, MaxClass, PageBlocks, Pages, MaxHeld, MaxStarts  \* of ShmSlab

\* There is a class, and a page has a block (shm_slab.h); Free and Dead are no process.
ASSUME SlabAssumption == /\ MaxClass \in Nat \ {0} /\ PageBlocks \in Nat \ {0}
                         /\ Pages \in Nat
                         /\ Free \notin Procs /\ Dead \notin Procs /\ Free # Dead

VARIABLES side,
          slab_shm, slab_pc, slab_obj, slab_lock, slab_magic, slab_ready, slab_sized,
          slab_bump, slab_class, slab_free_list, slab_next, slab_cls, slab_off,
          slab_own, slab_lost, slab_reset, slab_starts

slab_vars == <<slab_shm, slab_pc, slab_obj, slab_lock, slab_magic, slab_ready,
               slab_sized, slab_bump, slab_class, slab_free_list, slab_next, slab_cls,
               slab_off, slab_own, slab_lost, slab_reset, slab_starts>>

Slab == INSTANCE ShmSlab
    WITH Objects <- {"lock", "slab"},
         shm <- slab_shm, pc <- slab_pc, obj <- slab_obj, lock <- slab_lock,
         magic <- slab_magic, ready <- slab_ready, sized <- slab_sized,
         bump <- slab_bump, class <- slab_class, free_list <- slab_free_list,
         next <- slab_next, cls <- slab_cls, off <- slab_off, own <- slab_own,
         lost <- slab_lost, reset <- slab_reset, starts <- slab_starts

ShmInit == side \in {"ring", "slab"} /\ Init /\ Slab!Init

ShmNext ==
    \/ side = "ring" /\ Next /\ UNCHANGED <<side, slab_vars>>
    \/ side = "slab" /\ Slab!Next /\ UNCHANGED <<side, vars>>

ShmSpec == ShmInit /\ [][ShmNext]_<<side, vars, slab_vars>>

-----------------------------------------------------------------------------
\* ShmSlab.tla: a block has one owner, the free lists end, and no block is lost but with
\* the process that held it, whenever a process starts or dies.
BlocksAccounted == Slab!TypeOK /\ Slab!OneOwner /\ Slab!NoneLost
=============================================================================
