-------------------------------- MODULE VecPool --------------------------------
(***************************************************************************)
(* The slab pool of the backends: VecPool, SharedVecPool and VecSlab of    *)
(* crates/mio/src/pool.rs (crates/tokio/src/pool.rs is the same file).     *)
(*                                                                         *)
(* Threads share the pool through clones of SharedVecPool, an Arc.  The    *)
(* free list is a Vec<u32> behind a Mutex.  Vec::pop and Vec::push are not *)
(* atomic: each is a read of the list followed by a write, so that the     *)
(* Mutex has something to protect.  The slabs themselves sit in UnsafeCell *)
(* and are read and written with no lock at all: the free list is what     *)
(* keeps two VecSlabs off the same slot.                                   *)
(*                                                                         *)
(* A VecSlab is a handle h: owner[h] is the thread that owns the value,    *)
(* index[h] and len[h] are its fields, wrote[h] is history (the bytes its  *)
(* owners wrote through it).                                               *)
(***************************************************************************)
EXTENDS Naturals, Sequences, FiniteSets

CONSTANTS
  Capacity,   \* number of slabs
  SlabSize,   \* bytes in a slab
  Threads,    \* threads that share the pool
  Handles,    \* identities for VecSlab values
  Bytes,      \* byte values a thread may write
  SetLens,    \* bound: lengths set_len is called with
  Zero,       \* the byte slabs are initialised to
  Nobody      \* "no thread"

\* The assertions of VecPool::build.  The third one, capacity <= u32::MAX,
\* makes the cast of an index to u32 exact, so indices are plain naturals.
ASSUME BuildAssumption ==
  /\ Capacity \in Nat \ {0}
  /\ SlabSize \in Nat \ {0}
  /\ SetLens \subseteq Nat

ASSUME NamesAssumption ==
  /\ Nobody \notin Threads
  /\ IsFiniteSet(Threads)
  /\ IsFiniteSet(Handles)

VARIABLES
  free,       \* VecPool.free: the free list, a stack of slot indices
  lock,       \* the thread inside free.lock(), or Nobody
  mem,        \* VecPool.slabs: the bytes of every slot
  refs,       \* strong count of the Arc<VecPool>; at 0 the pool is freed
  clone,      \* clone[t]: thread t owns a SharedVecPool
  pc,         \* pc[t]: where thread t is inside acquire or drop
  reg,        \* reg[t]: locals of that call: length read, slot index
  owner,      \* owner[h]: the thread that owns VecSlab h, or Nobody
  index,      \* VecSlab.index
  len,        \* VecSlab.len
  wrote,      \* history: bytes written through h since it was acquired
  reply       \* reply[t]: the answer to t's latest acquire

poolvars == <<free, lock, mem, refs>>
slabvars == <<owner, index, len, wrote>>
vars == <<free, lock, mem, refs, clone, pc, reg, owner, index, len, wrote, reply>>

Slots == 0 .. Capacity - 1
Live == {h \in Handles : owner[h] # Nobody}
NoReg == [n |-> 0, i |-> 0]

\* pop: has the lock, about to read the list; popped: about to write it back;
\* build: lock released, VecSlab not yet made; push, pushed: the same for the
\* push of drop; decref: lock released, Arc not yet dropped.
PCs == {"idle", "pop", "popped", "build", "push", "pushed", "decref"}

\* Threads that took a slot off the list, or have not put it back yet.
Carrying == {t \in Threads : pc[t] \in {"build", "push", "pushed"}}

\* The slots a thread or a live VecSlab accounts for.
InFlight == {reg[t].i : t \in Carrying}
Owned == {index[h] : h \in Live}
FreeSet == {free[k] : k \in 1 .. Len(free)}
--------------------------------------------------------------------------------
Init ==
  /\ free = [k \in 1 .. Capacity |-> Capacity - k]
  /\ lock = Nobody
  /\ mem = [s \in Slots |-> [j \in 1 .. SlabSize |-> Zero]]
  /\ \E t \in Threads : clone = [u \in Threads |-> u = t]
  /\ refs = 1
  /\ pc = [t \in Threads |-> "idle"]
  /\ reg = [t \in Threads |-> NoReg]
  /\ owner = [h \in Handles |-> Nobody]
  /\ index = [h \in Handles |-> 0]
  /\ len = [h \in Handles |-> 0]
  /\ wrote = [h \in Handles |-> <<>>]
  /\ reply = [t \in Threads |-> "no call"]

\* SharedVecPool::clone, the clone moved to thread u.
Clone(t, u) ==
  /\ pc[t] = "idle" /\ clone[t] /\ ~clone[u]
  /\ clone' = [clone EXCEPT ![u] = TRUE]
  /\ refs' = refs + 1
  /\ UNCHANGED <<free, lock, mem, pc, reg, slabvars, reply>>

\* Thread t drops its SharedVecPool.
DropClone(t) ==
  /\ pc[t] = "idle" /\ clone[t]
  /\ clone' = [clone EXCEPT ![t] = FALSE]
  /\ refs' = refs - 1
  /\ UNCHANGED <<free, lock, mem, pc, reg, slabvars, reply>>
--------------------------------------------------------------------------------
\* acquire(n) with n > slab_size: None before the lock is taken.
AcquireOversize(t, n) ==
  /\ pc[t] = "idle" /\ clone[t]
  /\ n > SlabSize
  /\ reply' = [reply EXCEPT ![t] = "oversize"]
  /\ UNCHANGED <<poolvars, clone, pc, reg, slabvars>>

\* Mutant of Lock: a list without a Mutex.
LockIgnored(t) == lock' = t

Lock(t) == lock = Nobody /\ lock' = t
Unlock(t) == lock' = Nobody

\* acquire(n): free.lock().
AcquireLock(t, n) ==
  /\ pc[t] = "idle" /\ clone[t]
  /\ n <= SlabSize
  /\ Lock(t)
  /\ pc' = [pc EXCEPT ![t] = "pop"]
  /\ UNCHANGED <<free, mem, refs, clone, reg, slabvars, reply>>

\* Mutant of PopRead: gives up with one slot still free.
PopReadEarly(t) ==
  /\ pc[t] = "pop"
  /\ IF Len(free) <= 1
     THEN /\ pc' = [pc EXCEPT ![t] = "idle"]
          /\ Unlock(t)
          /\ reply' = [reply EXCEPT ![t] = "saturated"]
          /\ UNCHANGED reg
     ELSE /\ pc' = [pc EXCEPT ![t] = "popped"]
          /\ reg' = [reg EXCEPT ![t] = [n |-> Len(free), i |-> free[Len(free)]]]
          /\ UNCHANGED <<lock, reply>>
  /\ UNCHANGED <<free, mem, refs, clone, slabvars>>

\* .pop(): read the last index; an empty list makes acquire return None.
PopRead(t) ==
  /\ pc[t] = "pop"
  /\ IF Len(free) = 0
     THEN /\ pc' = [pc EXCEPT ![t] = "idle"]
          /\ Unlock(t)
          /\ reply' = [reply EXCEPT ![t] = "saturated"]
          /\ UNCHANGED reg
     ELSE /\ pc' = [pc EXCEPT ![t] = "popped"]
          /\ reg' = [reg EXCEPT ![t] = [n |-> Len(free), i |-> free[Len(free)]]]
          /\ UNCHANGED <<lock, reply>>
  /\ UNCHANGED <<free, mem, refs, clone, slabvars>>

\* Mutant of PopWrite: last() in place of pop().
PopKeeps(t) ==
  /\ pc[t] = "popped"
  /\ Unlock(t)
  /\ pc' = [pc EXCEPT ![t] = "build"]
  /\ reply' = [reply EXCEPT ![t] = "slab"]
  /\ UNCHANGED <<free, mem, refs, clone, reg, slabvars>>

\* .pop(): write the shortened list; the guard drops at the end of the statement.
PopWrite(t) ==
  /\ pc[t] = "popped"
  /\ free' = SubSeq(free, 1, reg[t].n - 1)
  /\ Unlock(t)
  /\ pc' = [pc EXCEPT ![t] = "build"]
  /\ reply' = [reply EXCEPT ![t] = "slab"]
  /\ UNCHANGED <<mem, refs, clone, reg, slabvars>>

\* Mutant of NewSlab: the slab keeps no reference to the pool.
NewSlabUncounted(t, h) ==
  /\ pc[t] = "build"
  /\ owner[h] = Nobody
  /\ owner' = [owner EXCEPT ![h] = t]
  /\ index' = [index EXCEPT ![h] = reg[t].i]
  /\ pc' = [pc EXCEPT ![t] = "idle"]
  /\ reg' = [reg EXCEPT ![t] = NoReg]
  /\ UNCHANGED <<free, lock, mem, refs, clone, len, wrote, reply>>

\* Some(VecSlab { pool: Arc::clone(..), index, len: 0 }).
NewSlab(t, h) ==
  /\ pc[t] = "build"
  /\ owner[h] = Nobody
  /\ refs' = refs + 1
  /\ owner' = [owner EXCEPT ![h] = t]
  /\ index' = [index EXCEPT ![h] = reg[t].i]
  /\ len' = [len EXCEPT ![h] = 0]
  /\ wrote' = [wrote EXCEPT ![h] = <<>>]
  /\ pc' = [pc EXCEPT ![t] = "idle"]
  /\ reg' = [reg EXCEPT ![t] = NoReg]
  /\ UNCHANGED <<free, lock, mem, clone, reply>>
--------------------------------------------------------------------------------
\* buf_mut: the owner writes the byte b into the first n cells of its slot.
BufMut(t, h, b, n) ==
  /\ pc[t] = "idle" /\ owner[h] = t
  /\ mem' = [mem EXCEPT ![index[h]] =
               [j \in 1 .. SlabSize |-> IF j <= n THEN b ELSE @[j]]]
  /\ wrote' = [wrote EXCEPT ![h] =
                 [j \in 1 .. (IF n >= Len(@) THEN n ELSE Len(@)) |->
                    IF j <= n THEN b ELSE @[j]]]
  /\ UNCHANGED <<free, lock, refs, clone, pc, reg, owner, index, len, reply>>

\* set_len: the owner records how many bytes landed.  The method takes any
\* length, also one that is more than landed or more than the slab holds.
SetLen(t, h, n) ==
  /\ pc[t] = "idle" /\ owner[h] = t
  /\ len' = [len EXCEPT ![h] = n]
  /\ UNCHANGED <<poolvars, clone, pc, reg, owner, index, wrote, reply>>

\* as_ref: what a reader of h sees, the length clamped to the slab.
AsRef(h) ==
  SubSeq(mem[index[h]], 1, IF len[h] <= SlabSize THEN len[h] ELSE SlabSize)

\* A VecSlab is Send + 'static: thread t moves it to thread u.
Move(t, u, h) ==
  /\ pc[t] = "idle" /\ owner[h] = t /\ u # t
  /\ owner' = [owner EXCEPT ![h] = u]
  /\ UNCHANGED <<poolvars, clone, pc, reg, index, len, wrote, reply>>
--------------------------------------------------------------------------------
\* VecSlab::drop: the value leaves its owner, pool.free.lock().
DropLock(t, h) ==
  /\ pc[t] = "idle" /\ owner[h] = t
  /\ Lock(t)
  /\ pc' = [pc EXCEPT ![t] = "push"]
  /\ reg' = [reg EXCEPT ![t] = [n |-> 0, i |-> index[h]]]
  /\ owner' = [owner EXCEPT ![h] = Nobody]
  /\ index' = [index EXCEPT ![h] = 0]
  /\ len' = [len EXCEPT ![h] = 0]
  /\ wrote' = [wrote EXCEPT ![h] = <<>>]
  /\ UNCHANGED <<free, mem, refs, clone, reply>>

\* .push(self.index): read the length of the list ...
PushRead(t) ==
  /\ pc[t] = "push"
  /\ reg' = [reg EXCEPT ![t].n = Len(free)]
  /\ pc' = [pc EXCEPT ![t] = "pushed"]
  /\ UNCHANGED <<poolvars, clone, slabvars, reply>>

\* Mutant of PushWrite: the index is not returned.
PushForgotten(t) ==
  /\ pc[t] = "pushed"
  /\ Unlock(t)
  /\ pc' = [pc EXCEPT ![t] = "decref"]
  /\ reg' = [reg EXCEPT ![t] = NoReg]
  /\ UNCHANGED <<free, mem, refs, clone, slabvars, reply>>

\* ... and write the index behind it.
PushWrite(t) ==
  /\ pc[t] = "pushed"
  /\ free' = Append(SubSeq(free, 1, reg[t].n), reg[t].i)
  /\ Unlock(t)
  /\ pc' = [pc EXCEPT ![t] = "decref"]
  /\ reg' = [reg EXCEPT ![t] = NoReg]
  /\ UNCHANGED <<mem, refs, clone, slabvars, reply>>

\* Mutant of DecRef: drop releases the Arc by hand, the field releases it again.
DecRefTwice(t) ==
  /\ pc[t] = "decref"
  /\ refs' = refs - 2
  /\ pc' = [pc EXCEPT ![t] = "idle"]
  /\ UNCHANGED <<free, lock, mem, clone, reg, slabvars, reply>>

\* After drop returns, the field `pool: Arc<VecPool>` is dropped.
DecRef(t) ==
  /\ pc[t] = "decref"
  /\ refs' = refs - 1
  /\ pc' = [pc EXCEPT ![t] = "idle"]
  /\ UNCHANGED <<free, lock, mem, clone, reg, slabvars, reply>>
--------------------------------------------------------------------------------
\* in_use(): slabs.len() - free.lock().len().
in_use == Capacity - Len(free)

\* The pool is freed and every thread is done with it.
Terminated ==
  /\ refs = 0
  /\ \A t \in Threads : pc[t] = "idle"
  /\ UNCHANGED vars

Next ==
  \/ \E t \in Threads :
       \/ \E u \in Threads : Clone(t, u)
       \/ DropClone(t)
       \/ \E n \in 0 .. SlabSize + 1 : AcquireOversize(t, n) \/ AcquireLock(t, n)
       \/ PopRead(t) \/ PopWrite(t)
       \/ PushRead(t) \/ PushWrite(t) \/ DecRef(t)
       \/ \E h \in Handles :
            \/ NewSlab(t, h)
            \/ \E n \in 1 .. SlabSize : \E b \in Bytes : BufMut(t, h, b, n)
            \/ \E n \in SetLens : SetLen(t, h, n)
            \/ \E u \in Threads : Move(t, u, h)
            \/ DropLock(t, h)
  \/ Terminated

Spec == Init /\ [][Next]_vars
--------------------------------------------------------------------------------
TypeOK ==
  /\ free \in Seq(Slots)
  /\ lock \in Threads \cup {Nobody}
  /\ mem \in [Slots -> [1 .. SlabSize -> Bytes \cup {Zero}]]
  /\ refs \in Nat
  /\ clone \in [Threads -> BOOLEAN]
  /\ pc \in [Threads -> PCs]
  /\ reg \in [Threads -> [n : Nat, i : Slots]]
  /\ owner \in [Handles -> Threads \cup {Nobody}]
  /\ index \in [Handles -> Slots]
  /\ len \in [Handles -> Nat]
  /\ wrote \in [Handles -> Seq(Bytes)]
  /\ reply \in [Threads -> {"no call", "slab", "saturated", "oversize"}]

(***************************************************************************)
(* The Mutex: one thread at a time is between lock and unlock, and what it *)
(* read of the free list is still true when it writes the list.            *)
(***************************************************************************)
CriticalSection ==
  \A t \in Threads :
    /\ pc[t] \in {"pop", "popped", "push", "pushed"} <=> lock = t
    /\ pc[t] = "popped" => reg[t].n = Len(free) /\ Len(free) > 0
                             /\ reg[t].i = free[Len(free)]
    /\ pc[t] = "pushed" => reg[t].n = Len(free)

(***************************************************************************)
(* "No two VecSlabs ever hold the same index" (the SAFETY comment of the   *)
(* manual Sync impl), and neither does a thread that is about to build one *)
(* or is still returning one.                                              *)
(***************************************************************************)
SingleOwner ==
  /\ \A g, h \in Live : index[g] = index[h] => g = h
  /\ \A t, u \in Carrying : reg[t].i = reg[u].i => t = u
  /\ Owned \cap InFlight = {}

(***************************************************************************)
(* The free list and the slots in use partition the pool: a slot is never  *)
(* listed twice, never listed while in use, and never lost, whatever the   *)
(* interleaving of acquires and drops (tests/pool.rs, "full capacity       *)
(* re-acquirable post reclaim", "capacity exact, no phantom slot").        *)
(***************************************************************************)
Conservation ==
  /\ \A j, k \in 1 .. Len(free) : free[j] = free[k] => j = k
  /\ FreeSet \cap (Owned \cup InFlight) = {}
  /\ FreeSet \cup Owned \cup InFlight = Slots

(***************************************************************************)
(* What was written through a slab stays in its slot until it is dropped,  *)
(* whatever happens to the other slots.                                    *)
(***************************************************************************)
SlabBytes ==
  \A h \in Live :
    /\ Len(wrote[h]) <= SlabSize
    /\ \A j \in 1 .. Len(wrote[h]) : mem[index[h]][j] = wrote[h][j]

(***************************************************************************)
(* A reader of a slab whose recorded length did land sees only bytes       *)
(* written through that slab: never the bytes of the previous owner of the *)
(* slot, never those of another thread.  (Nothing in the pool checks that  *)
(* the length landed: that is up to the caller of set_len.)                *)
(***************************************************************************)
OwnBytesOnly ==
  \A h \in Live : len[h] <= Len(wrote[h]) => AsRef(h) = SubSeq(wrote[h], 1, len[h])

(***************************************************************************)
(* The strong count of the Arc: one for each SharedVecPool, one for each   *)
(* VecSlab, the ones being dropped included until their drop has finished. *)
(***************************************************************************)
Cloned == {t \in Threads : clone[t]}
Dropping == {t \in Threads : pc[t] \in {"push", "pushed", "decref"}}

RefsExact ==
  /\ refs = Cardinality(Cloned) + Cardinality(Live) + Cardinality(Dropping)
  /\ \A t \in Threads : pc[t] \in {"pop", "popped", "build"} => clone[t]

(***************************************************************************)
(* The allocation behind the Arc outlives every slab, every thread inside  *)
(* acquire and every drop that has not finished: none of them touches      *)
(* freed memory.                                                           *)
(***************************************************************************)
NoUseAfterFree ==
  (Live # {} \/ \E t \in Threads : clone[t] \/ pc[t] # "idle") => refs > 0

(***************************************************************************)
(* in_use() counts the slabs handed out: the live ones plus those a thread *)
(* is carrying between the list and a VecSlab.  It never underflows.       *)
(***************************************************************************)
InUseExact ==
  /\ Len(free) <= Capacity
  /\ in_use = Cardinality(Live) + Cardinality(Carrying)

(***************************************************************************)
(* The abstract pool: a slot is held by the thread that owns the VecSlab   *)
(* on it or carries it; the list is written inside the critical section,   *)
(* and that write is the step the users of the pool see.                   *)
(***************************************************************************)
HolderOf(s) ==
  IF s \in Owned
  THEN owner[CHOOSE h \in Live : index[h] = s]
  ELSE IF s \in InFlight
       THEN CHOOSE t \in Carrying : reg[t].i = s
       ELSE Nobody

Contract == INSTANCE BufferPool WITH holder <- [s \in Slots |-> HolderOf(s)]

(***************************************************************************)
(* VecPool keeps the BufferPool contract: a slot granted was free, None is *)
(* returned for saturation only when no slot was free at that moment, and  *)
(* only its holder gives a slot back or passes it on.                      *)
(***************************************************************************)
KeepsContract == Contract!BPSpec
================================================================================
