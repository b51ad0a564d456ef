------------------------------ MODULE VecPoolProofs ------------------------------
(***************************************************************************)
(* Proofs about VecPool, for every capacity, slab size and number of       *)
(* threads.                                                                *)
(***************************************************************************)
EXTENDS VecPool, SequenceTheorems, FiniteSetTheorems, TLAPS

\* pc[t] of a thread that carries a slot.
Carry == {"build", "push", "pushed"}

(***************************************************************************)
(* SingleOwner and Conservation without the sets of slots: the form in     *)
(* which single steps are checked.                                         *)
(***************************************************************************)
SlabsApart ==
  \A g, h \in Handles :
    owner[g] # Nobody /\ owner[h] # Nobody /\ index[g] = index[h] => g = h

CarriedApart ==
  \A t, u \in Threads :
    pc[t] \in Carry /\ pc[u] \in Carry /\ reg[t].i = reg[u].i => t = u

SlabsNotCarried ==
  \A h \in Handles, t \in Threads :
    owner[h] # Nobody /\ pc[t] \in Carry => index[h] # reg[t].i

FreeApart ==
  \A j, k \in 1 .. Len(free) : free[j] = free[k] => j = k

FreeNotUsed ==
  \A k \in 1 .. Len(free) :
    /\ \A h \in Handles : owner[h] # Nobody => free[k] # index[h]
    /\ \A t \in Threads : pc[t] \in Carry => free[k] # reg[t].i

NoneLost ==
  \A s \in Slots :
    \/ \E k \in 1 .. Len(free) : free[k] = s
    \/ \E h \in Handles : owner[h] # Nobody /\ index[h] = s
    \/ \E t \in Threads : pc[t] \in Carry /\ reg[t].i = s

Partition ==
  SlabsApart /\ CarriedApart /\ SlabsNotCarried /\ FreeApart /\ FreeNotUsed /\ NoneLost

(***************************************************************************)
(* Partition is SingleOwner and Conservation.                              *)
(***************************************************************************)
LEMMA PartitionMeans ==
  ASSUME TypeOK, Partition
  PROVE  SingleOwner /\ Conservation
<1>1. \A g, h \in Live : index[g] = index[h] => g = h
  BY DEF Partition, SlabsApart, Live
<1>2. \A t, u \in Carrying : reg[t].i = reg[u].i => t = u
  BY DEF Partition, CarriedApart, Carrying, Carry
<1>3. Owned \cap InFlight = {}
  BY DEF Partition, SlabsNotCarried, Owned, InFlight, Live, Carrying, Carry
<1>4. \A j, k \in 1 .. Len(free) : free[j] = free[k] => j = k
  BY DEF Partition, FreeApart
<1>5. FreeSet \cap Owned = {}
  BY DEF Partition, FreeNotUsed, FreeSet, Owned, Live
<1>6. FreeSet \cap InFlight = {}
  BY DEF Partition, FreeNotUsed, FreeSet, InFlight, Carrying, Carry
<1>7. FreeSet \cup Owned \cup InFlight \subseteq Slots
  <2>1. \A k \in 1 .. Len(free) : free[k] \in Slots BY ElementOfSeq DEF TypeOK
  <2>2. \A h \in Handles : index[h] \in Slots BY DEF TypeOK
  <2>3. \A t \in Threads : reg[t].i \in Slots BY DEF TypeOK
  <2>4. FreeSet \subseteq Slots BY <2>1 DEF FreeSet
  <2>5. Owned \subseteq Slots BY <2>2 DEF Owned, Live
  <2>6. InFlight \subseteq Slots BY <2>3 DEF InFlight, Carrying
  <2> QED BY <2>4, <2>5, <2>6
<1>8. Slots \subseteq FreeSet \cup Owned \cup InFlight
  BY DEF Partition, NoneLost, FreeSet, Owned, InFlight, Live, Carrying, Carry
<1> QED BY <1>1, <1>2, <1>3, <1>4, <1>5, <1>6, <1>7, <1>8
        DEF SingleOwner, Conservation
(***************************************************************************)
(* What pop and push write: the list without its last index, the list with *)
(* one more index.                                                         *)
(***************************************************************************)
LEMMA PopFacts ==
  ASSUME NEW S, NEW q \in Seq(S), Len(q) > 0
  PROVE  /\ SubSeq(q, 1, Len(q) - 1) \in Seq(S)
         /\ Len(SubSeq(q, 1, Len(q) - 1)) = Len(q) - 1
         /\ \A k \in 1 .. Len(q) - 1 : SubSeq(q, 1, Len(q) - 1)[k] = q[k]
<1>1. Len(q) \in Nat BY LenProperties
<1>2. \A k \in 1 .. Len(q) - 1 : q[k] \in S BY <1>1, ElementOfSeq
<1> DEFINE m == Len(q) - 1
<1>3. m \in Int /\ 1 \in Int /\ m - 1 + 1 = m /\ \A k \in 1 .. m : 1 + k - 1 = k
  BY <1>1
<1> HIDE DEF m
<1>4. /\ SubSeq(q, 1, m) \in Seq(S)
      /\ Len(SubSeq(q, 1, m)) = IF 1 <= m THEN m - 1 + 1 ELSE 0
      /\ \A k \in 1 .. m - 1 + 1 : SubSeq(q, 1, m)[k] = q[1 + k - 1]
  BY <1>2, <1>3, SubSeqProperties DEF m
<1> QED BY <1>1, <1>3, <1>4 DEF m

LEMMA PushFacts ==
  ASSUME NEW S, NEW q \in Seq(S), NEW x \in S
  PROVE  /\ Append(SubSeq(q, 1, Len(q)), x) \in Seq(S)
         /\ Len(Append(SubSeq(q, 1, Len(q)), x)) = Len(q) + 1
         /\ \A k \in 1 .. Len(q) : Append(SubSeq(q, 1, Len(q)), x)[k] = q[k]
         /\ Append(SubSeq(q, 1, Len(q)), x)[Len(q) + 1] = x
  OBVIOUS

----------------------------------------------------------------------------------
(***************************************************************************)
(* Type correctness is inductive together with the exact reference count,  *)
(* which keeps the decrements above zero, and the fresh view of the list,  *)
(* which keeps its writes in bounds.                                       *)
(***************************************************************************)
LEMMA RefsPositive ==
  ASSUME TypeOK, RefsExact, NEW t \in Threads,
         clone[t] \/ pc[t] \in {"push", "pushed", "decref"}
  PROVE  refs > 0
<1>1. /\ IsFiniteSet(Cloned) /\ IsFiniteSet(Live) /\ IsFiniteSet(Dropping)
  BY FS_Subset, NamesAssumption DEF Cloned, Live, Dropping
<1>2. /\ Cardinality(Cloned) \in Nat
      /\ Cardinality(Live) \in Nat
      /\ Cardinality(Dropping) \in Nat
  BY <1>1, FS_CardinalityType
<1>3. Cloned # {} \/ Dropping # {}
  BY DEF Cloned, Dropping
<1>4. Cardinality(Cloned) > 0 \/ Cardinality(Dropping) > 0
  BY <1>1, <1>2, <1>3, FS_EmptySet
<1> QED BY <1>2, <1>4 DEF RefsExact

LEMMA ZeroFacts ==
  0 \in Slots /\ 0 \in 0 .. SlabSize /\ NoReg \in [n : Nat, i : Slots]
<1>1. 0 \in Slots BY BuildAssumption DEF Slots
<1>2. 0 \in 0 .. SlabSize BY BuildAssumption
<1> QED BY <1>1, <1>2 DEF NoReg

LEMMA TypeInit == Init => TypeOK
<1> SUFFICES ASSUME Init PROVE TypeOK
  OBVIOUS
<1>1. free \in Seq(Slots)
  <2>1. \A k \in 1 .. Capacity : Capacity - k \in Slots
    BY BuildAssumption DEF Slots
  <2>2. free \in [1 .. Capacity -> Slots]
    BY <2>1 DEF Init
  <2> QED BY <2>2, BuildAssumption, SeqDef
<1>3. mem \in [Slots -> [1 .. SlabSize -> Bytes \cup {Zero}]]
  BY DEF Init
<1>4. clone \in [Threads -> BOOLEAN]
  BY DEF Init
<1>5. /\ lock \in Threads \cup {Nobody}
      /\ refs \in Nat
      /\ pc \in [Threads -> PCs]
      /\ owner \in [Handles -> Threads \cup {Nobody}]
      /\ reply \in [Threads -> {"no call", "slab", "saturated", "oversize"}]
  BY DEF Init, PCs
<1>6. index \in [Handles -> Slots]
  BY ZeroFacts DEF Init
<1>7. len \in [Handles -> Nat]
  BY ZeroFacts DEF Init
<1>8. reg \in [Threads -> [n : Nat, i : Slots]]
  BY ZeroFacts DEF Init
<1>9. wrote \in [Handles -> Seq(Bytes)]
  BY EmptySeq DEF Init
<1> QED BY <1>1, <1>3, <1>4, <1>5, <1>6, <1>7, <1>8, <1>9 DEF TypeOK

(***************************************************************************)
(* What buf_mut leaves in the history of a slab: the new bytes, then what  *)
(* was there behind them.                                                  *)
(***************************************************************************)
LEMMA WrittenType ==
  ASSUME NEW S, NEW w \in Seq(S), NEW b \in S, NEW n \in Nat
  PROVE  LET m == IF n >= Len(w) THEN n ELSE Len(w)
             v == [j \in 1 .. m |-> IF j <= n THEN b ELSE w[j]]
         IN  v \in Seq(S) /\ Len(v) = m
<1> DEFINE m == IF n >= Len(w) THEN n ELSE Len(w)
           v == [j \in 1 .. m |-> IF j <= n THEN b ELSE w[j]]
<1>1. Len(w) \in Nat /\ m \in Nat BY LenProperties
<1>2. \A j \in 1 .. m : (IF j <= n THEN b ELSE w[j]) \in S
  BY <1>1, ElementOfSeq
<1>3. v \in [1 .. m -> S] BY <1>2
<1>4. v \in Seq(S) BY <1>1, <1>3, SeqDef
<1>5. DOMAIN v = 1 .. Len(v) /\ Len(v) \in Nat BY <1>4, LenProperties
<1>6. DOMAIN v = 1 .. m OBVIOUS
<1>7. Len(v) = m BY <1>1, <1>5, <1>6
<1> QED BY <1>4, <1>7

(***************************************************************************)
(* Every step keeps the types.                                             *)
(***************************************************************************)
LEMMA TypeStep ==
  ASSUME TypeOK, CriticalSection, RefsExact, [Next]_vars
  PROVE  TypeOK'
<1>1. ASSUME NEW t \in Threads, NEW u \in Threads, Clone(t, u)
      PROVE  TypeOK'
  <2>1. clone' \in [Threads -> BOOLEAN] BY <1>1 DEF Clone, TypeOK
  <2>2. refs' \in Nat
    <3>1. refs' = refs + 1 /\ refs \in Nat BY <1>1 DEF Clone, TypeOK
    <3> QED BY <3>1
  <2> QED BY <1>1, <2>1, <2>2 DEF Clone, slabvars, TypeOK
<1>2. ASSUME NEW t \in Threads, DropClone(t)
      PROVE  TypeOK'
  <2>1. refs > 0 BY <1>2, RefsPositive DEF DropClone
  <2>2. refs' \in Nat
    <3>1. refs' = refs - 1 /\ refs \in Nat BY <1>2 DEF DropClone, TypeOK
    <3> QED BY <2>1, <3>1
  <2>3. clone' \in [Threads -> BOOLEAN] BY <1>2 DEF DropClone, TypeOK
  <2> QED BY <1>2, <2>2, <2>3 DEF DropClone, slabvars, TypeOK
<1>3. ASSUME NEW t \in Threads, NEW n \in 0 .. SlabSize + 1, AcquireOversize(t, n)
      PROVE  TypeOK'
  BY <1>3 DEF AcquireOversize, slabvars, poolvars, TypeOK
<1>4. ASSUME NEW t \in Threads, NEW n \in 0 .. SlabSize + 1, AcquireLock(t, n)
      PROVE  TypeOK'
  BY <1>4 DEF AcquireLock, Lock, slabvars, PCs, TypeOK
<1>5. ASSUME NEW t \in Threads, PopRead(t)
      PROVE  TypeOK'
  <2>1. free \in Seq(Slots) /\ Len(free) \in Nat BY LenProperties DEF TypeOK
  <2>2. Len(free) # 0 => Len(free) \in 1 .. Len(free) BY <2>1
  <2>3. Len(free) # 0 => free[Len(free)] \in Slots BY <2>1, <2>2, ElementOfSeq
  <2>4. Len(free) # 0 =>
          [n |-> Len(free), i |-> free[Len(free)]] \in [n : Nat, i : Slots]
    BY <2>1, <2>3
  <2>5. reg' \in [Threads -> [n : Nat, i : Slots]]
    BY <1>5, <2>4 DEF PopRead, TypeOK
  <2> QED BY <1>5, <2>5 DEF PopRead, Unlock, slabvars, PCs, TypeOK
<1>6. ASSUME NEW t \in Threads, PopWrite(t)
      PROVE  TypeOK'
  <2>1. Len(free) > 0 /\ free' = SubSeq(free, 1, Len(free) - 1)
    BY <1>6 DEF PopWrite, CriticalSection
  <2>2. free' \in Seq(Slots) BY <2>1, PopFacts DEF TypeOK
  <2> QED BY <1>6, <2>2 DEF PopWrite, Unlock, slabvars, PCs, TypeOK
<1>7. ASSUME NEW t \in Threads, NEW h \in Handles, NewSlab(t, h)
      PROVE  TypeOK'
  <2>1. reg[t].i \in Slots BY DEF TypeOK
  <2>2. index' \in [Handles -> Slots] BY <1>7, <2>1 DEF NewSlab, TypeOK
  <2>3. refs' \in Nat
    <3>1. refs' = refs + 1 /\ refs \in Nat BY <1>7 DEF NewSlab, TypeOK
    <3> QED BY <3>1
  <2>5. reg' \in [Threads -> [n : Nat, i : Slots]] BY <1>7, ZeroFacts DEF NewSlab, TypeOK
  <2>6. len' \in [Handles -> Nat] BY <1>7, ZeroFacts DEF NewSlab, TypeOK
  <2>7. wrote' \in [Handles -> Seq(Bytes)] BY <1>7, EmptySeq DEF NewSlab, TypeOK
  <2> QED BY <1>7, <2>2, <2>3, <2>5, <2>6, <2>7 DEF NewSlab, PCs, TypeOK
<1>8. ASSUME NEW t \in Threads, NEW h \in Handles, NEW n \in 1 .. SlabSize,
             NEW b \in Bytes, BufMut(t, h, b, n)
      PROVE  TypeOK'
  <2>1. mem' \in [Slots -> [1 .. SlabSize -> Bytes \cup {Zero}]]
    BY <1>8 DEF BufMut, TypeOK
  <2>2. wrote' \in [Handles -> Seq(Bytes)]
    <3>1. n \in Nat OBVIOUS
    <3>2. wrote[h] \in Seq(Bytes) BY DEF TypeOK
    <3> DEFINE m == IF n >= Len(wrote[h]) THEN n ELSE Len(wrote[h])
               v == [j \in 1 .. m |-> IF j <= n THEN b ELSE wrote[h][j]]
    <3>3. v \in Seq(Bytes) BY <3>1, <3>2, WrittenType
    <3>4. wrote' = [wrote EXCEPT ![h] = v] BY <1>8 DEF BufMut
    <3> HIDE DEF v
    <3> QED BY <3>3, <3>4 DEF TypeOK
  <2> QED BY <1>8, <2>1, <2>2 DEF BufMut, TypeOK
<1>9. ASSUME NEW t \in Threads, NEW h \in Handles, NEW n \in SetLens,
             SetLen(t, h, n)
      PROVE  TypeOK'
  BY <1>9, BuildAssumption DEF SetLen, poolvars, TypeOK
<1>10. ASSUME NEW t \in Threads, NEW u \in Threads, NEW h \in Handles, Move(t, u, h)
       PROVE  TypeOK'
  BY <1>10 DEF Move, poolvars, TypeOK
<1>11. ASSUME NEW t \in Threads, NEW h \in Handles, DropLock(t, h)
       PROVE  TypeOK'
  <2>2. reg' \in [Threads -> [n : Nat, i : Slots]] BY <1>11 DEF DropLock, TypeOK
  <2>3. index' \in [Handles -> Slots] BY <1>11, ZeroFacts DEF DropLock, TypeOK
  <2>4. len' \in [Handles -> Nat] BY <1>11, ZeroFacts DEF DropLock, TypeOK
  <2>5. wrote' \in [Handles -> Seq(Bytes)] BY <1>11, EmptySeq DEF DropLock, TypeOK
  <2> QED BY <1>11, <2>2, <2>3, <2>4, <2>5 DEF DropLock, Lock, PCs, TypeOK
<1>12. ASSUME NEW t \in Threads, PushRead(t)
       PROVE  TypeOK'
  <2>1. free \in Seq(Slots) /\ Len(free) \in Nat BY LenProperties DEF TypeOK
  <2>2. reg' \in [Threads -> [n : Nat, i : Slots]] BY <1>12, <2>1 DEF PushRead, TypeOK
  <2> QED BY <1>12, <2>2 DEF PushRead, PCs, poolvars, slabvars, TypeOK
<1>13. ASSUME NEW t \in Threads, PushWrite(t)
       PROVE  TypeOK'
  <2>1. free' = Append(SubSeq(free, 1, Len(free)), reg[t].i)
    BY <1>13 DEF PushWrite, CriticalSection
  <2>2. reg[t].i \in Slots BY DEF TypeOK
  <2>3. free' \in Seq(Slots) BY <2>1, <2>2, PushFacts DEF TypeOK
  <2>5. reg' \in [Threads -> [n : Nat, i : Slots]] BY <1>13, ZeroFacts DEF PushWrite, TypeOK
  <2> QED BY <1>13, <2>3, <2>5 DEF PushWrite, Unlock, slabvars, PCs, TypeOK
<1>14. ASSUME NEW t \in Threads, DecRef(t)
       PROVE  TypeOK'
  <2>1. refs > 0 BY <1>14, RefsPositive DEF DecRef
  <2>2. refs' \in Nat
    <3>1. refs' = refs - 1 /\ refs \in Nat BY <1>14 DEF DecRef, TypeOK
    <3> QED BY <2>1, <3>1
  <2> QED BY <1>14, <2>2 DEF DecRef, slabvars, PCs, TypeOK
<1>15. CASE UNCHANGED vars
  BY <1>15 DEF vars, TypeOK
<1>16. CASE Terminated
  BY <1>15, <1>16 DEF Terminated, TypeOK
<1> QED BY <1>1, <1>2, <1>3, <1>4, <1>5, <1>6, <1>7, <1>8, <1>9, <1>10, <1>11,
           <1>12, <1>13, <1>14, <1>15, <1>16 DEF Next

----------------------------------------------------------------------------------
(***************************************************************************)
(* The Mutex.  A thread that read the list writes what it read: only the   *)
(* lock holder writes the list.                                            *)
(***************************************************************************)
LEMMA CriticalSectionStep ==
  ASSUME TypeOK, CriticalSection, [Next]_vars
  PROVE  CriticalSection'
<1> DEFINE Keep == UNCHANGED <<free, lock, pc, reg>>
<1>0. ASSUME Keep PROVE CriticalSection'
  BY <1>0 DEF CriticalSection
<1>1. ASSUME NEW t \in Threads, NEW n \in 0 .. SlabSize + 1, AcquireLock(t, n)
      PROVE  CriticalSection'
  BY <1>1, NamesAssumption DEF AcquireLock, Lock, CriticalSection, TypeOK
<1>2. ASSUME NEW t \in Threads, PopRead(t)
      PROVE  CriticalSection'
  <2>1. Len(free) \in Nat BY LenProperties DEF TypeOK
  <2>2. CASE Len(free) = 0
    BY ZenonT(30), <1>2, <2>2, NamesAssumption DEF PopRead, Unlock, CriticalSection, TypeOK
  <2>3. CASE Len(free) # 0
    <3>1. /\ pc[t] = "pop" /\ UNCHANGED <<free, lock>>
          /\ pc' = [pc EXCEPT ![t] = "popped"]
          /\ reg' = [reg EXCEPT ![t] = [n |-> Len(free), i |-> free[Len(free)]]]
      BY <1>2, <2>3 DEF PopRead
    <3>2. pc'[t] = "popped" /\ \A u \in Threads \ {t} : pc'[u] = pc[u]
      BY <3>1 DEF TypeOK
    <3>3. /\ reg'[t].n = Len(free) /\ reg'[t].i = free[Len(free)]
          /\ \A u \in Threads \ {t} : reg'[u] = reg[u]
      BY <3>1 DEF TypeOK
    <3>4. Len(free) > 0 BY <2>1, <2>3
    <3> QED BY <3>1, <3>2, <3>3, <3>4 DEF CriticalSection
  <2> QED BY <2>2, <2>3
<1>3. ASSUME NEW t \in Threads, PopWrite(t)
      PROVE  CriticalSection'
  BY <1>3, NamesAssumption DEF PopWrite, Unlock, CriticalSection, TypeOK
<1>4. ASSUME NEW t \in Threads, NEW h \in Handles, NewSlab(t, h)
      PROVE  CriticalSection'
  BY <1>4 DEF NewSlab, CriticalSection, TypeOK
<1>5. ASSUME NEW t \in Threads, NEW h \in Handles, DropLock(t, h)
      PROVE  CriticalSection'
  BY <1>5, NamesAssumption DEF DropLock, Lock, CriticalSection, TypeOK
<1>6. ASSUME NEW t \in Threads, PushRead(t)
      PROVE  CriticalSection'
  BY ZenonT(30), <1>6 DEF PushRead, poolvars, CriticalSection, TypeOK
<1>7. ASSUME NEW t \in Threads, PushWrite(t)
      PROVE  CriticalSection'
  BY <1>7, NamesAssumption DEF PushWrite, Unlock, CriticalSection, TypeOK
<1>8. ASSUME NEW t \in Threads, DecRef(t)
      PROVE  CriticalSection'
  BY <1>8 DEF DecRef, CriticalSection, TypeOK
<1>9. ASSUME NEW t \in Threads, NEW u \in Threads, Clone(t, u) PROVE Keep
  BY <1>9 DEF Clone
<1>10. ASSUME NEW t \in Threads, DropClone(t) PROVE Keep
  BY <1>10 DEF DropClone
<1>11. ASSUME NEW t \in Threads, NEW n \in 0 .. SlabSize + 1, AcquireOversize(t, n)
       PROVE  Keep
  BY <1>11 DEF AcquireOversize, poolvars
<1>12. ASSUME NEW t \in Threads, NEW h \in Handles, NEW n \in 1 .. SlabSize,
              NEW b \in Bytes, BufMut(t, h, b, n)
       PROVE  Keep
  BY <1>12 DEF BufMut
<1>13. ASSUME NEW t \in Threads, NEW h \in Handles, NEW n \in SetLens,
              SetLen(t, h, n)
       PROVE  Keep
  BY <1>13 DEF SetLen, poolvars
<1>14. ASSUME NEW t \in Threads, NEW u \in Threads, NEW h \in Handles, Move(t, u, h)
       PROVE  Keep
  BY <1>14 DEF Move, poolvars
<1>15. ASSUME UNCHANGED vars \/ Terminated PROVE Keep
  BY <1>15 DEF Terminated, vars
<1> HIDE DEF Keep
<1> QED BY <1>0, <1>1, <1>2, <1>3, <1>4, <1>5, <1>6, <1>7, <1>8, <1>9, <1>10, <1>11,
           <1>12, <1>13, <1>14, <1>15 DEF Next

----------------------------------------------------------------------------------
(***************************************************************************)
(* The slots stay partitioned.  Five steps move a slot: from the list to a *)
(* thread and on to a slab, and back.                                      *)
(***************************************************************************)
LEMMA PartitionStep ==
  ASSUME TypeOK, CriticalSection, Partition, [Next]_vars
  PROVE  Partition'
<1> USE DEF SlabsApart, CarriedApart, SlabsNotCarried, FreeApart, FreeNotUsed, NoneLost
<1> DEFINE Keep == /\ UNCHANGED <<free, index>>
                   /\ \A h \in Handles : owner'[h] = Nobody <=> owner[h] = Nobody
                   /\ \A t \in Threads : pc'[t] \in Carry <=> pc[t] \in Carry
                   /\ \A t \in Threads : pc[t] \in Carry => reg'[t].i = reg[t].i
<1>0. ASSUME Keep PROVE Partition'
  <2>1. SlabsApart' BY <1>0 DEF Partition
  <2>2. CarriedApart' BY <1>0 DEF Partition
  <2>3. SlabsNotCarried' BY <1>0 DEF Partition
  <2>4. FreeApart' BY <1>0 DEF Partition
  <2>5. FreeNotUsed' BY <1>0 DEF Partition
  <2>6. NoneLost'
    <3>1. Slots' = Slots BY DEF Slots
    <3> QED BY <1>0, <3>1 DEF Partition
  <2> QED BY <2>1, <2>2, <2>3, <2>4, <2>5, <2>6 DEF Partition
<1>1. ASSUME NEW t \in Threads, NEW n \in 0 .. SlabSize + 1, AcquireLock(t, n)
      PROVE  Keep
  BY <1>1 DEF AcquireLock, slabvars, TypeOK, Carry
<1>2. ASSUME NEW t \in Threads, PopRead(t)
      PROVE  Keep
  BY <1>2 DEF PopRead, slabvars, TypeOK, Carry
<1>3. ASSUME NEW t \in Threads, PushRead(t)
      PROVE  Keep
  BY <1>3 DEF PushRead, poolvars, slabvars, TypeOK, Carry
<1>4. ASSUME NEW t \in Threads, DecRef(t)
      PROVE  Keep
  BY <1>4 DEF DecRef, slabvars, TypeOK, Carry
<1>5. ASSUME NEW t \in Threads, NEW u \in Threads, Clone(t, u) PROVE Keep
  BY <1>5 DEF Clone, slabvars
<1>6. ASSUME NEW t \in Threads, DropClone(t) PROVE Keep
  BY <1>6 DEF DropClone, slabvars
<1>7. ASSUME NEW t \in Threads, NEW n \in 0 .. SlabSize + 1, AcquireOversize(t, n)
      PROVE  Keep
  BY <1>7 DEF AcquireOversize, poolvars, slabvars
<1>8. ASSUME NEW t \in Threads, NEW h \in Handles, NEW n \in 1 .. SlabSize,
             NEW b \in Bytes, BufMut(t, h, b, n)
      PROVE  Keep
  BY <1>8 DEF BufMut
<1>9. ASSUME NEW t \in Threads, NEW h \in Handles, NEW n \in SetLens,
             SetLen(t, h, n)
      PROVE  Keep
  BY <1>9 DEF SetLen, poolvars
<1>10. ASSUME NEW t \in Threads, NEW u \in Threads, NEW h \in Handles, Move(t, u, h)
       PROVE  Keep
  BY <1>10, NamesAssumption DEF Move, poolvars, TypeOK
<1>11. ASSUME UNCHANGED vars \/ Terminated PROVE Keep
  BY <1>11 DEF Terminated, vars
<1>12. ASSUME NEW t \in Threads, PopWrite(t)
       PROVE  Partition'
  <2> DEFINE L == Len(free)
  <2>1. /\ L \in Nat /\ L > 0 /\ Len(free') = L - 1
        /\ \A k \in 1 .. L - 1 : free'[k] = free[k]
        /\ reg[t].i = free[L]
    <3>1. L > 0 /\ free' = SubSeq(free, 1, L - 1) /\ reg[t].i = free[L]
      BY <1>12 DEF PopWrite, CriticalSection
    <3> QED BY <3>1, PopFacts, LenProperties DEF TypeOK
  <2>2. /\ pc[t] \notin Carry /\ pc'[t] \in Carry
        /\ \A u \in Threads \ {t} : pc'[u] = pc[u]
        /\ UNCHANGED <<reg, owner, index>>
    BY <1>12 DEF PopWrite, slabvars, TypeOK, Carry
  <2> HIDE DEF L
  <2>3. SlabsApart' BY <2>2 DEF Partition
  <2>4. CarriedApart'
    BY <2>1, <2>2 DEF Partition, L
  <2>5. SlabsNotCarried' BY <2>1, <2>2 DEF Partition, L
  <2>6. FreeApart' BY <2>1 DEF Partition, L
  <2>7. FreeNotUsed' BY <2>1, <2>2 DEF Partition, L
  <2>8. NoneLost'
    <3> SUFFICES ASSUME NEW s \in Slots PROVE NoneLost!(s)'
      BY DEF Slots
    <3>1. CASE \E k \in 1 .. L : free[k] = s
      BY <2>1, <2>2, <3>1 DEF L
    <3>2. CASE ~(\E k \in 1 .. L : free[k] = s)
      BY <2>2, <3>2 DEF Partition, L
    <3> QED BY <3>1, <3>2
  <2> QED BY <2>3, <2>4, <2>5, <2>6, <2>7, <2>8 DEF Partition
<1>13. ASSUME NEW t \in Threads, NEW h \in Handles, NewSlab(t, h)
       PROVE  Partition'
  <2>1. /\ pc[t] \in Carry /\ pc'[t] \notin Carry
        /\ \A u \in Threads \ {t} : pc'[u] = pc[u] /\ reg'[u] = reg[u]
    BY <1>13 DEF NewSlab, TypeOK, Carry
  <2>2. /\ owner[h] = Nobody /\ owner'[h] # Nobody /\ index'[h] = reg[t].i
        /\ \A g \in Handles \ {h} : owner'[g] = owner[g] /\ index'[g] = index[g]
        /\ free' = free
    BY <1>13, NamesAssumption DEF NewSlab, TypeOK
  <2>3. SlabsApart' BY <2>1, <2>2 DEF Partition
  <2>4. CarriedApart' BY <2>1 DEF Partition
  <2>5. SlabsNotCarried' BY <2>1, <2>2 DEF Partition
  <2>6. FreeApart' BY <2>2 DEF Partition
  <2>7. FreeNotUsed' BY <2>1, <2>2 DEF Partition
  <2>8. NoneLost'
    <3>1. Slots' = Slots BY DEF Slots
    <3> QED BY <2>1, <2>2, <3>1 DEF Partition
  <2> QED BY <2>3, <2>4, <2>5, <2>6, <2>7, <2>8 DEF Partition
<1>14. ASSUME NEW t \in Threads, NEW h \in Handles, DropLock(t, h)
       PROVE  Partition'
  <2>1. /\ pc[t] \notin Carry /\ pc'[t] \in Carry /\ reg'[t].i = index[h]
        /\ \A u \in Threads \ {t} : pc'[u] = pc[u] /\ reg'[u] = reg[u]
    BY <1>14 DEF DropLock, TypeOK, Carry
  <2>2. /\ owner[h] # Nobody /\ owner'[h] = Nobody
        /\ \A g \in Handles \ {h} : owner'[g] = owner[g] /\ index'[g] = index[g]
        /\ free' = free
    BY <1>14, NamesAssumption DEF DropLock, TypeOK
  <2>3. SlabsApart' BY <2>2 DEF Partition
  <2>4. CarriedApart' BY <2>1, <2>2 DEF Partition
  <2>5. SlabsNotCarried' BY <2>1, <2>2 DEF Partition
  <2>6. FreeApart' BY <2>2 DEF Partition
  <2>7. FreeNotUsed' BY <2>1, <2>2 DEF Partition
  <2>8. NoneLost'
    <3>1. Slots' = Slots BY DEF Slots
    <3> QED BY <2>1, <2>2, <3>1 DEF Partition
  <2> QED BY <2>3, <2>4, <2>5, <2>6, <2>7, <2>8 DEF Partition
<1>15. ASSUME NEW t \in Threads, PushWrite(t)
       PROVE  Partition'
  <2> DEFINE L == Len(free)
  <2>1. /\ L \in Nat /\ Len(free') = L + 1
        /\ \A k \in 1 .. L : free'[k] = free[k]
        /\ free'[L + 1] = reg[t].i
    <3>1. free' = Append(SubSeq(free, 1, L), reg[t].i)
      BY <1>15 DEF PushWrite, CriticalSection
    <3>2. reg[t].i \in Slots /\ free \in Seq(Slots) BY DEF TypeOK
    <3> QED BY <3>1, <3>2, PushFacts, LenProperties
  <2>2. /\ pc[t] \in Carry /\ pc'[t] \notin Carry
        /\ \A u \in Threads \ {t} : pc'[u] = pc[u] /\ reg'[u] = reg[u]
        /\ UNCHANGED <<owner, index>>
    BY <1>15 DEF PushWrite, slabvars, TypeOK, Carry
  <2> HIDE DEF L
  <2>3. SlabsApart' BY <2>2 DEF Partition
  <2>4. CarriedApart' BY <2>2 DEF Partition
  <2>5. SlabsNotCarried' BY <2>2 DEF Partition
  <2>6. FreeApart' BY <2>1, <2>2 DEF Partition, L
  <2>7. FreeNotUsed' BY <2>1, <2>2 DEF Partition, L
  <2>8. NoneLost'
    <3> SUFFICES ASSUME NEW s \in Slots PROVE NoneLost!(s)'
      BY DEF Slots
    <3>1. CASE \E k \in 1 .. L : free[k] = s
      BY <2>1, <3>1
    <3>2. CASE reg[t].i = s
      BY <2>1, <3>2
    <3>3. CASE ~(\E k \in 1 .. L : free[k] = s) /\ reg[t].i # s
      BY <2>2, <3>3 DEF Partition, L
    <3> QED BY <3>1, <3>2, <3>3
  <2> QED BY <2>3, <2>4, <2>5, <2>6, <2>7, <2>8 DEF Partition
<1> HIDE DEF Keep
<1> QED BY <1>0, <1>1, <1>2, <1>3, <1>4, <1>5, <1>6, <1>7, <1>8, <1>9, <1>10, <1>11,
           <1>12, <1>13, <1>14, <1>15 DEF Next

----------------------------------------------------------------------------------
(***************************************************************************)
(* A slot is written only through the one slab that is on it.              *)
(***************************************************************************)
LEMMA SlabBytesStep ==
  ASSUME TypeOK, Partition, SlabBytes, [Next]_vars
  PROVE  SlabBytes'
<1> DEFINE Keep == /\ UNCHANGED <<mem, index, len, wrote>>
                   /\ \A h \in Handles : owner'[h] # Nobody => owner[h] # Nobody
<1>0. ASSUME Keep PROVE SlabBytes'
  BY <1>0 DEF SlabBytes, Live
<1>1. ASSUME NEW t \in Threads, NEW h \in Handles, NewSlab(t, h)
      PROVE  SlabBytes'
  <2>1. /\ mem' = mem
        /\ len'[h] = 0 /\ wrote'[h] = <<>>
        /\ \A g \in Handles \ {h} : /\ owner'[g] = owner[g] /\ index'[g] = index[g]
                                    /\ len'[g] = len[g] /\ wrote'[g] = wrote[g]
    BY <1>1 DEF NewSlab, TypeOK
  <2>2. Len(<<>>) = 0 BY EmptySeq
  <2> QED BY <2>1, <2>2, BuildAssumption DEF SlabBytes, Live
<1>2. ASSUME NEW t \in Threads, NEW h \in Handles, NEW n \in 1 .. SlabSize,
             NEW b \in Bytes, BufMut(t, h, b, n)
      PROVE  SlabBytes'
  <2> DEFINE m == IF n >= Len(wrote[h]) THEN n ELSE Len(wrote[h])
             v == [j \in 1 .. m |-> IF j <= n THEN b ELSE wrote[h][j]]
             w == [j \in 1 .. SlabSize |-> IF j <= n THEN b ELSE mem[index[h]][j]]
  <2>1. h \in Live
    BY <1>2, NamesAssumption DEF BufMut, Live
  <2>2. UNCHANGED <<owner, index, len>> /\ Live' = Live
    BY <1>2 DEF BufMut, Live
  <2>3. wrote'[h] = v /\ mem'[index[h]] = w
    BY <1>2 DEF BufMut, TypeOK
  <2>4. \A g \in Live \ {h} : wrote'[g] = wrote[g] /\ mem'[index[g]] = mem[index[g]]
    <3>1. \A g \in Live \ {h} : index[g] # index[h] /\ index[g] \in Slots
      BY <2>1 DEF Partition, SlabsApart, Live, TypeOK
    <3> QED BY <1>2, <3>1 DEF BufMut, TypeOK, Live
  <2>5. \A g \in Live \ {h} : SlabBytes!(g)'
    BY <2>2, <2>4 DEF SlabBytes
  <2>6. Len(v) = m
    <3>1. n \in Nat OBVIOUS
    <3>2. wrote[h] \in Seq(Bytes) BY DEF TypeOK
    <3> QED BY <3>1, <3>2, WrittenType
  <2>7. Len(wrote[h]) \in Nat
    BY LenProperties DEF TypeOK
  <2>8. m \in Nat /\ Len(wrote[h]) <= m /\ m <= SlabSize
    BY <2>1, <2>7, BuildAssumption DEF SlabBytes
  <2>9. Len(wrote'[h]) <= SlabSize
    BY <2>3, <2>6, <2>8
  <2>10. \A j \in 1 .. Len(wrote'[h]) : mem'[index'[h]][j] = wrote'[h][j]
    <3> SUFFICES \A j \in 1 .. m : w[j] = v[j]
      <4> HIDE DEF v, w, m
      <4> QED BY <2>2, <2>3, <2>6
    <3> TAKE j \in 1 .. m
    <3>1. j \in 1 .. SlabSize
      BY <2>8, BuildAssumption
    <3>2. CASE j <= n
      BY <3>1, <3>2
    <3>3. CASE ~(j <= n)
      <4>1. j \in 1 .. Len(wrote[h]) BY <2>7, <3>3
      <4> QED BY <2>1, <3>1, <3>3, <4>1 DEF SlabBytes
    <3> QED BY <3>2, <3>3
  <2> QED BY <2>2, <2>5, <2>9, <2>10 DEF SlabBytes
<1>3. ASSUME NEW t \in Threads, NEW h \in Handles, NEW n \in SetLens,
             SetLen(t, h, n)
      PROVE  SlabBytes'
  <2>1. UNCHANGED <<mem, index, wrote, owner>>
    BY <1>3 DEF SetLen, poolvars
  <2> QED BY <2>1 DEF SlabBytes, Live
<1>4. ASSUME NEW t \in Threads, NEW h \in Handles, DropLock(t, h)
      PROVE  SlabBytes'
  <2>1. /\ mem' = mem
        /\ owner'[h] = Nobody
        /\ \A g \in Handles \ {h} : /\ owner'[g] = owner[g] /\ index'[g] = index[g]
                                    /\ len'[g] = len[g] /\ wrote'[g] = wrote[g]
    BY <1>4 DEF DropLock, TypeOK
  <2> QED BY <2>1 DEF SlabBytes, Live
<1>5. ASSUME NEW t \in Threads, NEW u \in Threads, NEW h \in Handles, Move(t, u, h)
      PROVE  Keep
  BY <1>5, NamesAssumption DEF Move, poolvars, TypeOK
<1>6. ASSUME NEW t \in Threads, NEW n \in 0 .. SlabSize + 1,
             AcquireOversize(t, n) \/ AcquireLock(t, n)
      PROVE  Keep
  BY <1>6 DEF AcquireOversize, AcquireLock, poolvars, slabvars
<1>7. ASSUME NEW t \in Threads,
             PopRead(t) \/ PopWrite(t) \/ PushRead(t) \/ PushWrite(t)
      PROVE  Keep
  BY <1>7 DEF PopRead, PopWrite, PushRead, PushWrite, poolvars, slabvars
<1>8. ASSUME NEW t \in Threads, DecRef(t) \/ DropClone(t) PROVE Keep
  BY <1>8 DEF DecRef, DropClone, slabvars
<1>9. ASSUME NEW t \in Threads, NEW u \in Threads, Clone(t, u) PROVE Keep
  BY <1>9 DEF Clone, slabvars
<1>10. ASSUME UNCHANGED vars \/ Terminated PROVE Keep
  BY <1>10 DEF Terminated, vars
<1> HIDE DEF Keep
<1> QED BY <1>0, <1>1, <1>2, <1>3, <1>4, <1>5, <1>6, <1>7, <1>8, <1>9, <1>10 DEF Next

----------------------------------------------------------------------------------
(***************************************************************************)
(* The strong count.                                                       *)
(***************************************************************************)
LEMMA OneMore ==
  ASSUME NEW S, IsFiniteSet(S), NEW x, x \notin S
  PROVE  Cardinality(S \cup {x}) = Cardinality(S) + 1
  BY FS_AddElement

LEMMA OneLess ==
  ASSUME NEW S, IsFiniteSet(S), NEW x, x \in S
  PROVE  Cardinality(S \ {x}) = Cardinality(S) - 1
  BY FS_RemoveElement

LEMMA RefsExactStep ==
  ASSUME TypeOK, RefsExact, [Next]_vars
  PROVE  RefsExact'
<1> DEFINE Needs == \A t \in Threads : pc[t] \in {"pop", "popped", "build"} => clone[t]
           Keep == Cloned' = Cloned /\ Live' = Live /\ Dropping' = Dropping /\ refs' = refs
<1>0. /\ IsFiniteSet(Cloned) /\ Cardinality(Cloned) \in Nat
      /\ IsFiniteSet(Live) /\ Cardinality(Live) \in Nat
      /\ IsFiniteSet(Dropping) /\ Cardinality(Dropping) \in Nat
  <2>1. IsFiniteSet(Cloned) /\ IsFiniteSet(Live) /\ IsFiniteSet(Dropping)
    BY FS_Subset, NamesAssumption DEF Cloned, Live, Dropping
  <2> QED BY <2>1, FS_CardinalityType
<1>1. Needs'
  <2>0. Needs BY DEF RefsExact
  <2>1. ASSUME UNCHANGED <<pc, clone>> PROVE Needs'
    BY <2>0, <2>1
  <2>2. ASSUME NEW t \in Threads, NEW u \in Threads, Clone(t, u) PROVE Needs'
    BY <2>0, <2>2 DEF Clone, TypeOK
  <2>3. ASSUME NEW t \in Threads, DropClone(t) PROVE Needs'
    BY <2>0, <2>3 DEF DropClone, TypeOK
  <2>4. ASSUME NEW t \in Threads, NEW n \in 0 .. SlabSize + 1, AcquireLock(t, n)
        PROVE  Needs'
    BY <2>0, <2>4 DEF AcquireLock, TypeOK
  <2>5. ASSUME NEW t \in Threads,
               PopRead(t) \/ PopWrite(t) \/ PushRead(t) \/ PushWrite(t) \/ DecRef(t)
        PROVE  Needs'
    BY <2>0, <2>5 DEF PopRead, PopWrite, PushRead, PushWrite, DecRef, TypeOK
  <2>6. ASSUME NEW t \in Threads, NEW h \in Handles, NewSlab(t, h) \/ DropLock(t, h)
        PROVE  Needs'
    BY <2>0, <2>6 DEF NewSlab, DropLock, TypeOK
  <2>7. ASSUME NEW t \in Threads, NEW n \in 0 .. SlabSize + 1, AcquireOversize(t, n)
        PROVE  UNCHANGED <<pc, clone>>
    BY <2>7 DEF AcquireOversize
  <2>8. ASSUME NEW t \in Threads, NEW h \in Handles, NEW n \in 1 .. SlabSize,
               NEW b \in Bytes, BufMut(t, h, b, n)
        PROVE  UNCHANGED <<pc, clone>>
    BY <2>8 DEF BufMut
  <2>9. ASSUME NEW t \in Threads, NEW h \in Handles, NEW n \in SetLens,
               SetLen(t, h, n)
        PROVE  UNCHANGED <<pc, clone>>
    BY <2>9 DEF SetLen
  <2>10. ASSUME NEW t \in Threads, NEW u \in Threads, NEW h \in Handles, Move(t, u, h)
         PROVE  UNCHANGED <<pc, clone>>
    BY <2>10 DEF Move
  <2>11. ASSUME UNCHANGED vars \/ Terminated PROVE UNCHANGED <<pc, clone>>
    BY <2>11 DEF Terminated, vars
  <2> HIDE DEF Needs
  <2> QED BY <2>1, <2>2, <2>3, <2>4, <2>5, <2>6, <2>7, <2>8, <2>9, <2>10, <2>11 DEF Next
<1>2. ASSUME NEW t \in Threads, NEW u \in Threads, Clone(t, u)
      PROVE  RefsExact'
  <2>1. u \notin Cloned /\ Cloned' = Cloned \cup {u}
    BY <1>2 DEF Clone, Cloned, TypeOK
  <2>2. Live' = Live /\ Dropping' = Dropping /\ refs' = refs + 1
    BY <1>2 DEF Clone, slabvars, Live, Dropping
  <2> QED BY <1>0, <1>1, <2>1, <2>2, OneMore DEF RefsExact
<1>3. ASSUME NEW t \in Threads, DropClone(t)
      PROVE  RefsExact'
  <2>1. t \in Cloned /\ Cloned' = Cloned \ {t}
    BY <1>3 DEF DropClone, Cloned, TypeOK
  <2>2. Live' = Live /\ Dropping' = Dropping /\ refs' = refs - 1
    BY <1>3 DEF DropClone, slabvars, Live, Dropping
  <2> QED BY <1>0, <1>1, <2>1, <2>2, OneLess DEF RefsExact
<1>4. ASSUME NEW t \in Threads, NEW h \in Handles, NewSlab(t, h)
      PROVE  RefsExact'
  <2>1. h \notin Live /\ Live' = Live \cup {h}
    <3>1. /\ owner[h] = Nobody /\ owner'[h] # Nobody
          /\ \A g \in Handles \ {h} : owner'[g] = owner[g]
      BY <1>4, NamesAssumption DEF NewSlab, TypeOK
    <3> QED BY <3>1 DEF Live
  <2>2. Cloned' = Cloned /\ Dropping' = Dropping /\ refs' = refs + 1
    BY <1>4 DEF NewSlab, Cloned, Dropping, TypeOK
  <2> QED BY <1>0, <1>1, <2>1, <2>2, OneMore DEF RefsExact
<1>5. ASSUME NEW t \in Threads, NEW h \in Handles, DropLock(t, h)
      PROVE  RefsExact'
  <2>1. h \in Live /\ Live' = Live \ {h}
    BY <1>5, NamesAssumption DEF DropLock, Live, TypeOK
  <2>2. t \notin Dropping /\ Dropping' = Dropping \cup {t}
    BY <1>5 DEF DropLock, Dropping, TypeOK
  <2>3. Cloned' = Cloned /\ refs' = refs
    BY <1>5 DEF DropLock, Cloned
  <2>4. Cardinality(Live') = Cardinality(Live) - 1 BY <1>0, <2>1, OneLess
  <2>5. Cardinality(Dropping') = Cardinality(Dropping) + 1 BY <1>0, <2>2, OneMore
  <2> QED BY <1>0, <1>1, <2>3, <2>4, <2>5 DEF RefsExact
<1>6. ASSUME NEW t \in Threads, DecRef(t)
      PROVE  RefsExact'
  <2>1. t \in Dropping /\ Dropping' = Dropping \ {t}
    BY <1>6 DEF DecRef, Dropping, TypeOK
  <2>2. Cloned' = Cloned /\ Live' = Live /\ refs' = refs - 1
    BY <1>6 DEF DecRef, slabvars, Cloned, Live
  <2> QED BY <1>0, <1>1, <2>1, <2>2, OneLess DEF RefsExact
<1>7. ASSUME NEW t \in Threads, NEW n \in 0 .. SlabSize + 1,
             AcquireOversize(t, n) \/ AcquireLock(t, n)
      PROVE  Keep
  BY <1>7 DEF AcquireOversize, AcquireLock, poolvars, slabvars, Cloned, Live, Dropping,
              TypeOK
<1>8. ASSUME NEW t \in Threads, PopRead(t) \/ PopWrite(t)
      PROVE  Keep
  BY ZenonT(30), <1>8 DEF PopRead, PopWrite, slabvars, Cloned, Live, Dropping, TypeOK
<1>9. ASSUME NEW t \in Threads, PushRead(t) \/ PushWrite(t)
      PROVE  Keep
  BY <1>9 DEF PushRead, PushWrite, poolvars, slabvars, Cloned, Live, Dropping, TypeOK
<1>10. ASSUME NEW t \in Threads, NEW h \in Handles, NEW n \in 1 .. SlabSize,
              NEW b \in Bytes, BufMut(t, h, b, n)
       PROVE  Keep
  BY <1>10 DEF BufMut, Cloned, Live, Dropping
<1>11. ASSUME NEW t \in Threads, NEW h \in Handles, NEW n \in SetLens,
              SetLen(t, h, n)
       PROVE  Keep
  BY <1>11 DEF SetLen, poolvars, Cloned, Live, Dropping
<1>12. ASSUME NEW t \in Threads, NEW u \in Threads, NEW h \in Handles, Move(t, u, h)
       PROVE  Keep
  BY <1>12, NamesAssumption DEF Move, poolvars, Cloned, Live, Dropping, TypeOK
<1>13. ASSUME UNCHANGED vars \/ Terminated PROVE Keep
  BY <1>13 DEF Terminated, vars, Cloned, Live, Dropping
<1>14. ASSUME Keep PROVE RefsExact'
  BY <1>1, <1>14 DEF RefsExact
<1> HIDE DEF Keep
<1> QED BY <1>2, <1>3, <1>4, <1>5, <1>6, <1>7, <1>8, <1>9, <1>10, <1>11, <1>12,
           <1>13, <1>14 DEF Next

----------------------------------------------------------------------------------
(***************************************************************************)
(* The inductive invariant and what it implies.                            *)
(***************************************************************************)
IInv == TypeOK /\ CriticalSection /\ Partition /\ SlabBytes /\ RefsExact

LEMMA IInvInit == Init => IInv
<1> SUFFICES ASSUME Init PROVE IInv
  OBVIOUS
<1>1. TypeOK BY TypeInit
<1>2. CriticalSection
  BY NamesAssumption DEF Init, CriticalSection
<1>3. Live = {} /\ Dropping = {}
  BY DEF Init, Live, Dropping
<1>4. Partition
  <2>1. \A h \in Handles : owner[h] = Nobody BY DEF Init
  <2>2. \A t \in Threads : pc[t] \notin Carry BY DEF Init, Carry
  <2>3. Len(free) = Capacity /\ \A k \in 1 .. Capacity : free[k] = Capacity - k
    <3>1. free \in Seq(Slots) BY <1>1 DEF TypeOK
    <3>2. DOMAIN free = 1 .. Len(free) /\ Len(free) \in Nat BY <3>1, LenProperties
    <3>3. DOMAIN free = 1 .. Capacity /\ \A k \in 1 .. Capacity : free[k] = Capacity - k
      BY DEF Init
    <3>4. Len(free) \in Nat BY <3>1, LenProperties
    <3>5. Capacity \in 1 .. Len(free) BY <3>2, <3>3, BuildAssumption
    <3>6. Len(free) \in 1 .. Capacity BY <3>2, <3>3, <3>4, <3>5
    <3>7. Len(free) = Capacity BY <3>4, <3>5, <3>6, BuildAssumption
    <3> QED BY <3>3, <3>7
  <2>4. FreeApart BY <2>3, BuildAssumption DEF FreeApart
  <2>5. NoneLost
    <3> SUFFICES ASSUME NEW s \in Slots PROVE \E k \in 1 .. Len(free) : free[k] = s
      BY DEF NoneLost
    <3>1. Capacity - s \in 1 .. Capacity /\ Capacity - (Capacity - s) = s
      BY BuildAssumption DEF Slots
    <3> QED BY <2>3, <3>1
  <2> QED BY <2>1, <2>2, <2>4, <2>5
          DEF Partition, SlabsApart, CarriedApart, SlabsNotCarried, FreeNotUsed
<1>5. SlabBytes BY <1>3 DEF SlabBytes
<1>6. RefsExact
  <2>1. PICK t \in Threads : clone = [u \in Threads |-> u = t]
    BY DEF Init
  <2>2. Cloned = {t}
    BY <2>1 DEF Cloned
  <2>3. Cardinality(Cloned) = 1 BY <2>2, FS_Singleton
  <2>4. Cardinality(Live) = 0 /\ Cardinality(Dropping) = 0 BY <1>3, FS_EmptySet
  <2>5. refs = 1 /\ \A u \in Threads : pc[u] = "idle" BY DEF Init
  <2> QED BY <2>3, <2>4, <2>5 DEF RefsExact
<1> QED BY <1>1, <1>2, <1>4, <1>5, <1>6 DEF IInv

LEMMA IInvStep == IInv /\ [Next]_vars => IInv'
  BY TypeStep, CriticalSectionStep, PartitionStep, SlabBytesStep, RefsExactStep DEF IInv

LEMMA IInvAlways == Spec => []IInv
  BY IInvInit, IInvStep, PTL DEF Spec

(***************************************************************************)
(* The pool is type correct.                                               *)
(***************************************************************************)
THEOREM TypeCorrect == Spec => []TypeOK
<1>1. IInv => TypeOK BY DEF IInv
<1> QED BY <1>1, IInvAlways, PTL

(***************************************************************************)
(* No two slabs, and no slab and a thread between the list and a slab,     *)
(* share a slot: the argument of the SAFETY comments of pool.rs.           *)
(***************************************************************************)
THEOREM OwnersApart == Spec => []SingleOwner
<1>1. IInv => SingleOwner BY PartitionMeans DEF IInv
<1> QED BY <1>1, IInvAlways, PTL

(***************************************************************************)
(* No slot is lost or listed twice.                                        *)
(***************************************************************************)
THEOREM SlotsConserved == Spec => []Conservation
<1>1. IInv => Conservation BY PartitionMeans DEF IInv
<1> QED BY <1>1, IInvAlways, PTL

(***************************************************************************)
(* A slab whose recorded length landed reads as what was written through it.*)
(***************************************************************************)
THEOREM ReadsOwnBytes == Spec => []OwnBytesOnly
<1>1. ASSUME IInv PROVE OwnBytesOnly
  <2> SUFFICES ASSUME NEW h \in Live, len[h] <= Len(wrote[h])
               PROVE  AsRef(h) = SubSeq(wrote[h], 1, len[h])
    BY DEF OwnBytesOnly
  <2> DEFINE m == mem[index[h]]
             w == wrote[h]
             k == len[h]
  <2>1. /\ m \in [1 .. SlabSize -> Bytes \cup {Zero}] /\ w \in Seq(Bytes)
        /\ k \in Nat
    BY <1>1 DEF IInv, TypeOK, Live
  <2>2. k \in Nat /\ Len(w) \in Nat /\ k <= Len(w) /\ Len(w) <= SlabSize /\ k <= SlabSize
    <3>1. Len(w) \in Nat BY <2>1, LenProperties
    <3>2. k <= Len(w) /\ Len(w) <= SlabSize
      BY <1>1 DEF IInv, SlabBytes
    <3> QED BY <2>1, <3>1, <3>2, BuildAssumption
  <2>3. \A j \in 1 .. k : m[j] = w[j]
    BY <1>1, <2>2 DEF IInv, SlabBytes
  <2>4. AsRef(h) = SubSeq(m, 1, k)
    BY <2>2 DEF AsRef
  <2>5. /\ SubSeq(m, 1, k) = [j \in 1 .. k |-> m[j]]
        /\ SubSeq(w, 1, k) = [j \in 1 .. k |-> w[j]]
    BY <2>2
  <2> QED BY <2>3, <2>4, <2>5
<1> QED BY <1>1, IInvAlways, PTL

(***************************************************************************)
(* The memory of the pool is not freed while a slab or a call is left.     *)
(***************************************************************************)
THEOREM OutlivesSlabs == Spec => []NoUseAfterFree
<1>1. ASSUME IInv PROVE NoUseAfterFree
  <2>1. CASE Live # {}
    <3>1. IsFiniteSet(Cloned) /\ IsFiniteSet(Live) /\ IsFiniteSet(Dropping)
      BY FS_Subset, NamesAssumption DEF Cloned, Live, Dropping
    <3>2. /\ Cardinality(Cloned) \in Nat /\ Cardinality(Dropping) \in Nat
          /\ Cardinality(Live) \in Nat /\ Cardinality(Live) # 0
      BY <2>1, <3>1, FS_CardinalityType, FS_EmptySet
    <3> QED BY <1>1, <3>2 DEF IInv, RefsExact, NoUseAfterFree
  <2>2. ASSUME NEW t \in Threads, clone[t] \/ pc[t] # "idle"
        PROVE  refs > 0
    <3>1. pc[t] \in PCs BY <1>1 DEF IInv, TypeOK
    <3>2. clone[t] \/ pc[t] \in {"push", "pushed", "decref"}
      BY <1>1, <2>2, <3>1 DEF IInv, RefsExact, PCs
    <3> QED BY <1>1, <3>2, RefsPositive DEF IInv
  <2> QED BY <2>1, <2>2 DEF NoUseAfterFree
<1> QED BY <1>1, IInvAlways, PTL

----------------------------------------------------------------------------------
(***************************************************************************)
(* in_use.                                                                 *)
(***************************************************************************)
LEMMA SameSize ==
  ASSUME NEW S, IsFiniteSet(S), NEW T, NEW f \in [S -> T],
         \A x, y \in S : f[x] = f[y] => x = y,
         \A z \in T : \E x \in S : f[x] = z
  PROVE  IsFiniteSet(T) /\ Cardinality(T) = Cardinality(S)
<1>1. f \in Surjection(S, T) BY DEF Surjection
<1>2. f \in Injection(S, T) BY DEF Injection, IsInjective
<1> QED BY <1>1, <1>2, FS_Surjection

LEMMA FunctionInto ==
  ASSUME NEW D, NEW S, NEW f, f = [x \in D |-> f[x]], \A x \in D : f[x] \in S
  PROVE  f \in [D -> S]
  OBVIOUS

LEMMA DisjointSize ==
  ASSUME NEW S, IsFiniteSet(S), NEW T, IsFiniteSet(T), S \cap T = {}
  PROVE  IsFiniteSet(S \cup T) /\ Cardinality(S \cup T) = Cardinality(S) + Cardinality(T)
<1>1. Cardinality(S) \in Nat /\ Cardinality(T) \in Nat BY FS_CardinalityType
<1>2. Cardinality(S \cap T) = 0 BY FS_EmptySet
<1>3. /\ IsFiniteSet(S \cup T)
      /\ Cardinality(S \cup T) = Cardinality(S) + Cardinality(T) - Cardinality(S \cap T)
  BY FS_Union
<1> QED BY <1>1, <1>2, <1>3

(***************************************************************************)
(* in_use() counts the slabs handed out, whatever the threads are doing.   *)
(***************************************************************************)
THEOREM InUseCounts == Spec => []InUseExact
<1>1. ASSUME IInv PROVE InUseExact
  <2>1. SingleOwner /\ Conservation
    BY <1>1, PartitionMeans DEF IInv
  <2>2. IsFiniteSet(FreeSet) /\ Cardinality(FreeSet) = Len(free)
    <3>1. /\ free \in [1 .. Len(free) -> FreeSet] /\ Len(free) \in Nat
          /\ \A z \in FreeSet : \E x \in 1 .. Len(free) : free[x] = z
      <4>1. /\ Len(free) \in Nat /\ DOMAIN free = 1 .. Len(free)
            /\ free = [k \in 1 .. Len(free) |-> free[k]]
        BY <1>1, LenProperties DEF IInv, TypeOK
      <4>2. \A k \in 1 .. Len(free) : free[k] \in FreeSet
        BY DEF FreeSet
      <4>3. \A z \in FreeSet : \E x \in 1 .. Len(free) : free[x] = z
        BY DEF FreeSet
      <4>5. free \in [1 .. Len(free) -> FreeSet]
        BY <4>1, <4>2, FunctionInto
      <4> QED BY <4>1, <4>3, <4>5
    <3>2. \A x, y \in 1 .. Len(free) : free[x] = free[y] => x = y
      BY <2>1 DEF Conservation
    <3>3. IsFiniteSet(1 .. Len(free)) /\ Cardinality(1 .. Len(free)) = Len(free)
      <4>1. Len(free) \in Int /\ 1 \in Int BY <3>1
      <4>2. /\ IsFiniteSet(1 .. Len(free))
            /\ Cardinality(1 .. Len(free)) =
                 IF 1 > Len(free) THEN 0 ELSE Len(free) - 1 + 1
        BY <4>1, FS_Interval
      <4> QED BY <3>1, <4>2
    <3> QED BY <3>1, <3>2, <3>3, SameSize
  <2>3. IsFiniteSet(Live) /\ IsFiniteSet(Carrying)
    BY FS_Subset, NamesAssumption DEF Live, Carrying
  <2>4. IsFiniteSet(Owned) /\ Cardinality(Owned) = Cardinality(Live)
    <3> DEFINE f == [h \in Live |-> index[h]]
    <3>1. f \in [Live -> Owned] /\ \A z \in Owned : \E x \in Live : f[x] = z
      BY DEF Owned
    <3>2. \A x, y \in Live : f[x] = f[y] => x = y
      BY <2>1 DEF SingleOwner
    <3> HIDE DEF f
    <3> QED BY <2>3, <3>1, <3>2, SameSize
  <2>5. IsFiniteSet(InFlight) /\ Cardinality(InFlight) = Cardinality(Carrying)
    <3> DEFINE f == [t \in Carrying |-> reg[t].i]
    <3>1. f \in [Carrying -> InFlight] /\ \A z \in InFlight : \E x \in Carrying : f[x] = z
      BY DEF InFlight
    <3>2. \A x, y \in Carrying : f[x] = f[y] => x = y
      BY <2>1 DEF SingleOwner
    <3> HIDE DEF f
    <3> QED BY <2>3, <3>1, <3>2, SameSize
  <2>6. /\ IsFiniteSet(Owned \cup InFlight)
        /\ Cardinality(Owned \cup InFlight) = Cardinality(Live) + Cardinality(Carrying)
    BY <2>1, <2>4, <2>5, DisjointSize DEF SingleOwner
  <2>7. Cardinality(FreeSet \cup (Owned \cup InFlight)) =
          Len(free) + (Cardinality(Live) + Cardinality(Carrying))
    BY <2>1, <2>2, <2>6, DisjointSize DEF Conservation
  <2>8. FreeSet \cup (Owned \cup InFlight) = Slots
    BY <2>1 DEF Conservation
  <2>9. Cardinality(Slots) = Capacity
    <3>1. Capacity - 1 \in Int /\ 0 \in Int /\ ~(0 > Capacity - 1)
          /\ Capacity - 1 - 0 + 1 = Capacity
      BY BuildAssumption
    <3> QED BY <3>1, FS_Interval DEF Slots
  <2>10. /\ Len(free) \in Nat
         /\ Cardinality(Live) \in Nat /\ Cardinality(Carrying) \in Nat
    BY <1>1, <2>3, LenProperties, FS_CardinalityType DEF IInv, TypeOK
  <2>11. Capacity = Len(free) + (Cardinality(Live) + Cardinality(Carrying))
    BY <2>7, <2>8, <2>9
  <2> QED BY <2>10, <2>11 DEF InUseExact, in_use
<1> QED BY <1>1, IInvAlways, PTL

----------------------------------------------------------------------------------
(***************************************************************************)
(* The refinement.  HeldBy says who holds a slot without CHOOSE.           *)
(***************************************************************************)
HeldBy(s, t) ==
  \/ \E h \in Handles : owner[h] = t /\ index[h] = s
  \/ pc[t] \in Carry /\ reg[t].i = s

Free(s) == \E k \in 1 .. Len(free) : free[k] = s

HoldersAgree ==
  \A s \in Slots :
    /\ \A t \in Threads : HolderOf(s) = t <=> HeldBy(s, t)
    /\ HolderOf(s) = Nobody <=> Free(s)
    /\ HolderOf(s) \in Threads \cup {Nobody}

LEMMA HolderFacts == TypeOK /\ Partition => HoldersAgree
<1> SUFFICES ASSUME TypeOK, Partition, NEW s \in Slots
             PROVE  HoldersAgree!(s)
  BY DEF HoldersAgree
<1>1. CASE s \in Owned
  <2>1. \E h \in Live : index[h] = s BY <1>1 DEF Owned
  <2> DEFINE c == CHOOSE h \in Live : index[h] = s
  <2>2. c \in Live /\ index[c] = s BY <2>1
  <2>3. HolderOf(s) = owner[c] BY <1>1 DEF HolderOf
  <2> HIDE DEF c
  <2>4. owner[c] \in Threads /\ c \in Handles BY <2>2 DEF Live, TypeOK
  <2>5. \A h \in Handles : owner[h] # Nobody /\ index[h] = s => h = c
    BY <2>2 DEF Partition, SlabsApart, Live
  <2>6. \A t \in Threads : pc[t] \in Carry => reg[t].i # s
    BY <2>2, <2>4 DEF Partition, SlabsNotCarried, Live
  <2>7. \A k \in 1 .. Len(free) : free[k] # s
    BY <2>2, <2>4 DEF Partition, FreeNotUsed, Live
  <2> QED BY <2>2, <2>3, <2>4, <2>5, <2>6, <2>7, NamesAssumption DEF HeldBy, Free
<1>2. CASE s \notin Owned /\ s \in InFlight
  <2>1. \E t \in Carrying : reg[t].i = s BY <1>2 DEF InFlight
  <2> DEFINE c == CHOOSE t \in Carrying : reg[t].i = s
  <2>2. c \in Carrying /\ reg[c].i = s BY <2>1
  <2>3. HolderOf(s) = c BY <1>2 DEF HolderOf
  <2> HIDE DEF c
  <2>4. c \in Threads /\ pc[c] \in Carry BY <2>2 DEF Carrying, Carry
  <2>5. \A t \in Threads : pc[t] \in Carry /\ reg[t].i = s => t = c
    BY <2>2, <2>4 DEF Partition, CarriedApart
  <2>6. \A h \in Handles : owner[h] # Nobody => index[h] # s
    BY <1>2 DEF Owned, Live
  <2>7. \A k \in 1 .. Len(free) : free[k] # s
    BY <2>2, <2>4 DEF Partition, FreeNotUsed
  <2> QED BY <2>2, <2>3, <2>4, <2>5, <2>6, <2>7, NamesAssumption DEF HeldBy, Free
<1>3. CASE s \notin Owned /\ s \notin InFlight
  <2>1. HolderOf(s) = Nobody BY <1>3 DEF HolderOf
  <2>2. \A h \in Handles : owner[h] # Nobody => index[h] # s
    BY <1>3 DEF Owned, Live
  <2>3. \A t \in Threads : pc[t] \in Carry => reg[t].i # s
    BY <1>3 DEF InFlight, Carrying, Carry
  <2>4. \E k \in 1 .. Len(free) : free[k] = s
    BY <2>2, <2>3 DEF Partition, NoneLost
  <2> QED BY <2>1, <2>2, <2>3, <2>4, NamesAssumption DEF HeldBy, Free
<1> QED BY <1>1, <1>2, <1>3

(***************************************************************************)
(* Every step of the pool is a step of the contract, or one it cannot see. *)
(***************************************************************************)
ContractStep == [Contract!BPNext]_(Contract!bpvars)

LEMMA SameHolders ==
  ASSUME HoldersAgree, HoldersAgree', reply' = reply,
         \A s \in Slots, t \in Threads : HeldBy(s, t)' <=> HeldBy(s, t)
  PROVE  ContractStep
<1>1. Slots' = Slots BY DEF Slots
<1>2. ASSUME NEW s \in Slots PROVE HolderOf(s)' = HolderOf(s)
  BY <1>1, NamesAssumption DEF HoldersAgree
<1>3. [s \in Slots |-> HolderOf(s)]' = [s \in Slots |-> HolderOf(s)]
  BY <1>1, <1>2
<1> QED BY <1>3 DEF ContractStep, Contract!bpvars

LEMMA OneHolder ==
  ASSUME HoldersAgree, HoldersAgree', NEW s \in Slots, NEW x, HolderOf(s)' = x,
         \A r \in Slots, t \in Threads : r # s => (HeldBy(r, t)' <=> HeldBy(r, t))
  PROVE  [r \in Slots |-> HolderOf(r)]' = [[r \in Slots |-> HolderOf(r)] EXCEPT ![s] = x]
<1>1. Slots' = Slots BY DEF Slots
<1>2. ASSUME NEW r \in Slots, r # s PROVE HolderOf(r)' = HolderOf(r)
  BY <1>1, <1>2, NamesAssumption DEF HoldersAgree
<1> QED BY <1>1, <1>2

LEMMA RefinementStep ==
  ASSUME IInv, IInv', HoldersAgree, HoldersAgree', [Next]_vars
  PROVE  ContractStep
<1> DEFINE holder == [s \in Slots |-> HolderOf(s)]
<1>0. TypeOK /\ Partition /\ CriticalSection /\ Partition' /\ Slots' = Slots
  BY DEF IInv, Slots
<1>1. ASSUME NEW t \in Threads, PopWrite(t)
      PROVE  ContractStep
  <2>1. PICK s \in Slots : /\ Len(free) \in 1 .. Len(free)
                           /\ free[Len(free)] = s /\ reg[t].i = s
    <3>1. Len(free) > 0 /\ reg[t].i = free[Len(free)]
      BY <1>0, <1>1 DEF PopWrite, CriticalSection
    <3>2. Len(free) \in Nat /\ free \in Seq(Slots) BY <1>0, LenProperties DEF TypeOK
    <3>3. Len(free) \in 1 .. Len(free) BY <3>1, <3>2
    <3> QED BY <3>1, <3>2, <3>3, ElementOfSeq
  <2>2. HolderOf(s) = Nobody
    BY <2>1 DEF HoldersAgree, Free
  <2>3. /\ pc[t] \notin Carry /\ pc'[t] \in Carry
        /\ \A u \in Threads \ {t} : pc'[u] = pc[u]
        /\ UNCHANGED <<reg, owner, index>>
        /\ reply' = [reply EXCEPT ![t] = "slab"]
    BY <1>0, <1>1 DEF PopWrite, slabvars, TypeOK, Carry
  <2>4. HeldBy(s, t)'
    BY <2>1, <2>3 DEF HeldBy
  <2>5. HolderOf(s)' = t
    BY <1>0, <2>1, <2>4 DEF HoldersAgree
  <2>6. \A r \in Slots, u \in Threads : r # s => (HeldBy(r, u)' <=> HeldBy(r, u))
    BY <2>1, <2>3 DEF HeldBy
  <2>7. holder' = [holder EXCEPT ![s] = t]
    BY <2>1, <2>5, <2>6, OneHolder
  <2>8. holder[s] = Nobody BY <2>1, <2>2
  <2> HIDE DEF holder
  <2>9. Contract!Grant(t)
    BY <2>1, <2>3, <2>7, <2>8 DEF Contract!Grant, holder
  <2> QED BY <2>9 DEF ContractStep, Contract!BPNext
<1>2. ASSUME NEW t \in Threads, PushWrite(t)
      PROVE  ContractStep
  <2>1. PICK s \in Slots : reg[t].i = s
    BY <1>0 DEF TypeOK
  <2>2. /\ pc[t] \in Carry /\ pc'[t] \notin Carry
        /\ \A u \in Threads \ {t} : pc'[u] = pc[u] /\ reg'[u] = reg[u]
        /\ UNCHANGED <<owner, index, reply>>
    BY <1>0, <1>2 DEF PushWrite, slabvars, TypeOK, Carry
  <2>3. HolderOf(s) = t
    BY <2>1, <2>2 DEF HoldersAgree, HeldBy
  <2>4. Free(s)'
    <3>1. free' = Append(SubSeq(free, 1, Len(free)), s)
      BY <1>0, <1>2, <2>1 DEF PushWrite, CriticalSection
    <3>2. /\ Len(free) \in Nat /\ Len(free') = Len(free) + 1
          /\ free'[Len(free) + 1] = s
      <4>1. free \in Seq(Slots) /\ Len(free) \in Nat
        BY <1>0, LenProperties DEF TypeOK
      <4> QED BY <2>1, <3>1, <4>1, PushFacts
    <3> QED BY <3>2 DEF Free
  <2>5. HolderOf(s)' = Nobody
    BY <1>0, <2>1, <2>4 DEF HoldersAgree
  <2>6. \A r \in Slots, u \in Threads : r # s => (HeldBy(r, u)' <=> HeldBy(r, u))
    BY <2>1, <2>2 DEF HeldBy
  <2>7. holder' = [holder EXCEPT ![s] = Nobody]
    BY <2>1, <2>5, <2>6, OneHolder
  <2>8. holder[s] = t BY <2>1, <2>3
  <2> HIDE DEF holder
  <2>9. Contract!GiveBack(t)
    BY <2>1, <2>2, <2>7, <2>8 DEF Contract!GiveBack, holder
  <2> QED BY <2>9 DEF ContractStep, Contract!BPNext
<1>3. ASSUME NEW t \in Threads, NEW u \in Threads, NEW h \in Handles, Move(t, u, h)
      PROVE  ContractStep
  <2>1. PICK s \in Slots : index[h] = s
    BY <1>0 DEF TypeOK
  <2>2. /\ owner[h] = t /\ owner'[h] = u
        /\ \A g \in Handles \ {h} : owner'[g] = owner[g]
        /\ UNCHANGED <<pc, reg, index, reply>>
    BY <1>0, <1>3 DEF Move, TypeOK
  <2>3. HolderOf(s) = t /\ HolderOf(s)' = u
    BY <1>0, <2>1, <2>2 DEF HoldersAgree, HeldBy
  <2>4. \A r \in Slots, v \in Threads : r # s => (HeldBy(r, v)' <=> HeldBy(r, v))
    BY <2>1, <2>2 DEF HeldBy
  <2>5. holder' = [holder EXCEPT ![s] = u]
    BY <2>1, <2>3, <2>4, OneHolder
  <2>6. holder[s] = t BY <2>1, <2>3
  <2> HIDE DEF holder
  <2>7. Contract!HandOver(t, u)
    BY <2>1, <2>2, <2>5, <2>6 DEF Contract!HandOver, holder
  <2> QED BY <2>7 DEF ContractStep, Contract!BPNext
<1>4. ASSUME NEW t \in Threads, NEW n \in 0 .. SlabSize + 1, AcquireOversize(t, n)
      PROVE  ContractStep
  <2>1. UNCHANGED <<free, pc, reg, owner, index>>
        /\ reply' = [reply EXCEPT ![t] = "oversize"]
    BY <1>4 DEF AcquireOversize, poolvars, slabvars
  <2>2. \A s \in Slots : HolderOf(s)' = HolderOf(s)
    BY <2>1 DEF HolderOf, Owned, InFlight, Live, Carrying
  <2>3. holder' = holder BY <1>0, <2>2
  <2> HIDE DEF holder
  <2>4. Contract!Oversize(t)
    BY <2>1, <2>3 DEF Contract!Oversize, holder
  <2> QED BY <2>4 DEF ContractStep, Contract!BPNext
<1>5. ASSUME NEW t \in Threads, PopRead(t), Len(free) = 0
      PROVE  ContractStep
  <2>1. /\ \A u \in Threads : pc'[u] \in Carry <=> pc[u] \in Carry
        /\ UNCHANGED <<free, reg, owner, index>>
        /\ reply' = [reply EXCEPT ![t] = "saturated"]
    BY <1>0, <1>5 DEF PopRead, slabvars, TypeOK, Carry
  <2>2. \A s \in Slots : HolderOf(s)' = HolderOf(s)
    <3>1. \A s \in Slots, u \in Threads : HeldBy(s, u)' <=> HeldBy(s, u)
      BY <2>1 DEF HeldBy
    <3> QED BY <1>0, <3>1, NamesAssumption DEF HoldersAgree
  <2>3. holder' = holder BY <1>0, <2>2
  <2>4. \A s \in Slots : holder[s] # Nobody
    BY <1>5 DEF HoldersAgree, Free
  <2> HIDE DEF holder
  <2>5. Contract!Saturated(t)
    BY <2>1, <2>3, <2>4 DEF Contract!Saturated, holder
  <2> QED BY <2>5 DEF ContractStep, Contract!BPNext
<1>6. ASSUME NEW t \in Threads, NEW h \in Handles, NewSlab(t, h)
      PROVE  ContractStep
  <2>1. /\ pc[t] \in Carry /\ pc'[t] \notin Carry
        /\ \A u \in Threads \ {t} : pc'[u] = pc[u] /\ reg'[u] = reg[u]
        /\ owner[h] = Nobody /\ owner'[h] = t /\ index'[h] = reg[t].i
        /\ \A g \in Handles \ {h} : owner'[g] = owner[g] /\ index'[g] = index[g]
        /\ reply' = reply
    BY <1>0, <1>6 DEF NewSlab, TypeOK, Carry
  <2>2. \A s \in Slots, u \in Threads : HeldBy(s, u)' <=> HeldBy(s, u)
    BY <2>1, NamesAssumption DEF HeldBy
  <2> QED BY <2>1, <2>2, SameHolders
<1>7. ASSUME NEW t \in Threads, NEW h \in Handles, DropLock(t, h)
      PROVE  ContractStep
  <2>1. /\ pc[t] \notin Carry /\ pc'[t] \in Carry /\ reg'[t].i = index[h]
        /\ \A u \in Threads \ {t} : pc'[u] = pc[u] /\ reg'[u] = reg[u]
        /\ owner[h] = t /\ owner'[h] = Nobody
        /\ \A g \in Handles \ {h} : owner'[g] = owner[g] /\ index'[g] = index[g]
        /\ reply' = reply
    BY <1>0, <1>7 DEF DropLock, TypeOK, Carry
  <2>2. \A s \in Slots, u \in Threads : HeldBy(s, u)' <=> HeldBy(s, u)
    BY <2>1, NamesAssumption DEF HeldBy
  <2> QED BY <2>1, <2>2, SameHolders
<1> DEFINE Keep == /\ UNCHANGED <<owner, index, reply>>
                   /\ \A t \in Threads : pc'[t] \in Carry <=> pc[t] \in Carry
                   /\ \A t \in Threads : pc[t] \in Carry => reg'[t].i = reg[t].i
<1>8. ASSUME Keep PROVE ContractStep
  <2>1. \A s \in Slots, t \in Threads : HeldBy(s, t)' <=> HeldBy(s, t)
    BY <1>8 DEF HeldBy
  <2> QED BY <1>8, <2>1, SameHolders
<1>9. ASSUME NEW t \in Threads, PopRead(t), Len(free) # 0 PROVE Keep
  BY <1>0, <1>9 DEF PopRead, slabvars, TypeOK, Carry
<1>10. ASSUME NEW t \in Threads, NEW n \in 0 .. SlabSize + 1, AcquireLock(t, n)
       PROVE  Keep
  BY <1>0, <1>10 DEF AcquireLock, slabvars, TypeOK, Carry
<1>11. ASSUME NEW t \in Threads, PushRead(t) PROVE Keep
  BY <1>0, <1>11 DEF PushRead, slabvars, TypeOK, Carry
<1>12. ASSUME NEW t \in Threads, DecRef(t) PROVE Keep
  BY <1>0, <1>12 DEF DecRef, slabvars, TypeOK, Carry
<1>13. ASSUME NEW t \in Threads, NEW u \in Threads, Clone(t, u) PROVE Keep
  BY <1>13 DEF Clone, slabvars
<1>14. ASSUME NEW t \in Threads, DropClone(t) PROVE Keep
  BY <1>14 DEF DropClone, slabvars
<1>15. ASSUME NEW t \in Threads, NEW h \in Handles, NEW n \in 1 .. SlabSize,
              NEW b \in Bytes, BufMut(t, h, b, n)
       PROVE  Keep
  BY <1>15 DEF BufMut
<1>16. ASSUME NEW t \in Threads, NEW h \in Handles, NEW n \in SetLens,
              SetLen(t, h, n)
       PROVE  Keep
  BY <1>16 DEF SetLen
<1>17. ASSUME UNCHANGED vars \/ Terminated PROVE Keep
  BY <1>17 DEF Terminated, vars
<1> HIDE DEF Keep
<1> QED BY <1>1, <1>2, <1>3, <1>4, <1>5, <1>6, <1>7, <1>8, <1>9, <1>10, <1>11, <1>12,
           <1>13, <1>14, <1>15, <1>16, <1>17 DEF Next

(***************************************************************************)
(* VecPool implements BufferPool.                                          *)
(***************************************************************************)
THEOREM ImplementsContract == Spec => KeepsContract
<1>1. Init => Contract!BPInit
  <2> SUFFICES ASSUME Init PROVE Contract!BPInit
    OBVIOUS
  <2>1. Live = {} /\ Carrying = {}
    BY DEF Init, Live, Carrying
  <2>2. \A s \in Slots : HolderOf(s) = Nobody
    BY <2>1 DEF HolderOf, Owned, InFlight
  <2> QED BY <2>2 DEF Init, Contract!BPInit
<1>2. IInv => HoldersAgree
  BY HolderFacts DEF IInv
<1>3. IInv /\ IInv' /\ HoldersAgree /\ HoldersAgree' /\ [Next]_vars
        => [Contract!BPNext]_(Contract!bpvars)
  BY RefinementStep DEF ContractStep
<1> QED BY <1>1, <1>2, <1>3, IInvAlways, PTL DEF Spec, KeepsContract, Contract!BPSpec

==================================================================================
