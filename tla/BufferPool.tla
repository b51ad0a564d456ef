------------------------------ MODULE BufferPool ------------------------------
(***************************************************************************)
(* What a buffer pool promises its users: the BufferPool contract of       *)
(* crates/core/src/pool.rs, stated on slot ownership alone.                *)
(*                                                                         *)
(* A slot is held by at most one thread.  An acquire hands out a slot that *)
(* nobody holds; it is refused only while every slot is held, or because   *)
(* the requested length does not fit a slab.  A holder may pass its slot   *)
(* to another thread (Slab is Send + 'static) and gives it back by         *)
(* dropping the handle.                                                    *)
(***************************************************************************)
CONSTANTS
  Slots,     \* the slots of the pool
  Threads,   \* the threads that share it
  Nobody     \* the holder of a free slot

VARIABLES
  holder,    \* holder[s]: the thread that owns slot s, or Nobody
  reply      \* reply[t]: the answer to t's latest acquire

bpvars == <<holder, reply>>

Replies == {"no call", "slab", "saturated", "oversize"}

BPInit ==
  /\ holder = [s \in Slots |-> Nobody]
  /\ reply = [t \in Threads |-> "no call"]

\* acquire returns Some(slab).
Grant(t) ==
  /\ \E s \in Slots :
       /\ holder[s] = Nobody
       /\ holder' = [holder EXCEPT ![s] = t]
  /\ reply' = [reply EXCEPT ![t] = "slab"]

\* acquire returns None: backpressure.
Saturated(t) ==
  /\ \A s \in Slots : holder[s] # Nobody
  /\ reply' = [reply EXCEPT ![t] = "saturated"]
  /\ UNCHANGED holder

\* acquire returns None: no slab is that long.
Oversize(t) ==
  /\ reply' = [reply EXCEPT ![t] = "oversize"]
  /\ UNCHANGED holder

\* The slab moves to another thread.
HandOver(t, u) ==
  /\ \E s \in Slots :
       /\ holder[s] = t
       /\ holder' = [holder EXCEPT ![s] = u]
  /\ UNCHANGED reply

\* The slab is dropped.
GiveBack(t) ==
  /\ \E s \in Slots :
       /\ holder[s] = t
       /\ holder' = [holder EXCEPT ![s] = Nobody]
  /\ UNCHANGED reply

BPNext ==
  \E t \in Threads :
    \/ Grant(t)
    \/ Saturated(t)
    \/ Oversize(t)
    \/ \E u \in Threads : HandOver(t, u)
    \/ GiveBack(t)

BPSpec == BPInit /\ [][BPNext]_bpvars
===============================================================================
