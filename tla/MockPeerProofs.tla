----------------------------- MODULE MockPeerProofs -----------------------------
(***************************************************************************)
(* Proofs about the scripted peer, for any script, any client and any size *)
(* of socket buffer: its report, its frames and its verdicts are true.     *)
(*                                                                         *)
(* The first part says what the folds of the model compute: a sum over a   *)
(* finite set, and a concatenation, may be taken apart element by element. *)
(***************************************************************************)
EXTENDS MockPeer, SequenceTheorems, FiniteSetTheorems, WellFoundedInduction, TLAPS

(***************************************************************************)
(* Induction over the subsets of a finite set.                             *)
(***************************************************************************)
LEMMA SubsetInduction ==
  ASSUME NEW D, IsFiniteSet(D), NEW Good, {} \in Good,
         \A T \in SUBSET D : T # {} /\ (\A x \in T : T \ {x} \in Good) => T \in Good
  PROVE  \A T \in SUBSET D : T \in Good
<1> DEFINE Bad == {T \in SUBSET D : T \notin Good}
<1>1. IsWellFoundedOn(StrictSubsetOrdering(D), SUBSET D)
  BY FS_StrictSubsetOrderingWellFounded, FS_FiniteSubsetsOfFinite
<1>2. SUFFICES ASSUME Bad # {} PROVE FALSE
  OBVIOUS
<1>3. PICK T \in Bad : \A U \in Bad : <<U, T>> \notin StrictSubsetOrdering(D)
  <2>1. Bad \subseteq SUBSET D
    OBVIOUS
  <2> HIDE DEF Bad
  <2> QED BY <1>1, <1>2, <2>1, WFMin
<1>4. ASSUME NEW x \in T PROVE T \ {x} \in Good
  <2>1. <<T \ {x}, T>> \in StrictSubsetOrdering(D)
    BY DEF StrictSubsetOrdering
  <2> QED BY <1>3, <2>1
<1> QED BY <1>3, <1>4

(***************************************************************************)
(* sum[T] is the sum of g over T, for each subset T of D.                  *)
(***************************************************************************)
Adds(sum, g, D) ==
  /\ sum \in [SUBSET D -> Nat]
  /\ sum[{}] = 0
  /\ \A T \in SUBSET D, x \in D : x \notin T => sum[T \cup {x}] = sum[T] + g[x]

LEMMA SumExists ==
  ASSUME NEW D, IsFiniteSet(D), NEW g \in [D -> Nat]
  PROVE  \E sum : Adds(sum, g, D)
<1> DEFINE Good == {T \in SUBSET D : \E sum : Adds(sum, g, T)}
<1>1. {} \in Good
  <2>1. Adds([T \in SUBSET {} |-> 0], g, {})
    BY DEF Adds
  <2> QED BY <2>1
<1>2. ASSUME NEW U \in SUBSET D, NEW y \in U, U \ {y} \in Good
      PROVE  U \in Good
  <2>1. PICK sum : Adds(sum, g, U \ {y})
    BY <1>2
  <2> DEFINE more == [T \in SUBSET U |-> IF y \in T THEN sum[T \ {y}] + g[y] ELSE sum[T]]
  <2>2. \A T \in SUBSET U : T \ {y} \in SUBSET (U \ {y}) /\ (y \notin T => T \in SUBSET (U \ {y}))
    OBVIOUS
  <2>3. g[y] \in Nat /\ \A T \in SUBSET (U \ {y}) : sum[T] \in Nat
    BY <2>1 DEF Adds
  <2>4. more \in [SUBSET U -> Nat]
    BY <2>2, <2>3
  <2>5. more[{}] = 0
    BY <2>1 DEF Adds
  <2>6. ASSUME NEW T \in SUBSET U, NEW x \in U, x \notin T
        PROVE  more[T \cup {x}] = more[T] + g[x]
    <3>1. T \cup {x} \in SUBSET U
      OBVIOUS
    <3>2. CASE x = y
      <4>1. (T \cup {x}) \ {y} = T
        BY <2>6, <3>2
      <4> QED BY <2>6, <3>1, <3>2, <4>1
    <3>3. CASE x # y /\ y \notin T
      <4>1. sum[T \cup {x}] = sum[T] + g[x]
        BY <2>1, <2>6, <3>3 DEF Adds
      <4> QED BY <3>1, <3>3, <4>1
    <3>4. CASE x # y /\ y \in T
      <4>1. (T \cup {x}) \ {y} = (T \ {y}) \cup {x}
        BY <3>4
      <4>2. sum[(T \ {y}) \cup {x}] = sum[T \ {y}] + g[x]
        BY <2>1, <2>6, <3>4 DEF Adds
      <4>3. more[T \cup {x}] = (sum[T \ {y}] + g[x]) + g[y] /\ more[T] = sum[T \ {y}] + g[y]
        BY <3>1, <3>4, <4>1, <4>2
      <4>4. sum[T \ {y}] \in Nat /\ g[x] \in Nat /\ g[y] \in Nat
        BY <2>2, <2>3
      <4> HIDE DEF more
      <4> QED BY <4>3, <4>4
    <3> QED BY <3>2, <3>3, <3>4
  <2> HIDE DEF more
  <2>7. Adds(more, g, U)
    BY <2>4, <2>5, <2>6 DEF Adds
  <2> QED BY <2>7
<1> HIDE DEF Good
<1>4. \A T \in SUBSET D : T # {} /\ (\A x \in T : T \ {x} \in Good) => T \in Good
  BY <1>2
<1>3. \A T \in SUBSET D : T \in Good
  BY <1>1, <1>4, SubsetInduction
<1> QED BY <1>3 DEF Good

LEMMA SumsAgree ==
  ASSUME NEW D, IsFiniteSet(D), NEW E, D \subseteq E, NEW g, NEW h, NEW s, NEW t,
         Adds(s, g, D), Adds(t, h, E), \A x \in D : g[x] = h[x]
  PROVE  \A T \in SUBSET D : s[T] = t[T]
<1> DEFINE Good == {T \in SUBSET D : s[T] = t[T]}
<1>1. {} \in Good
  BY DEF Adds
<1>2. ASSUME NEW T \in SUBSET D, NEW x \in T, T \ {x} \in Good
      PROVE  T \in Good
  <2>1. (T \ {x}) \cup {x} = T
    OBVIOUS
  <2>2. s[T] = s[T \ {x}] + g[x] /\ t[T] = t[T \ {x}] + h[x]
    <3>1. T \ {x} \in SUBSET D /\ T \ {x} \in SUBSET E /\ x \in D /\ x \in E /\ x \notin T \ {x}
      OBVIOUS
    <3>2. /\ s[(T \ {x}) \cup {x}] = s[T \ {x}] + g[x]
          /\ t[(T \ {x}) \cup {x}] = t[T \ {x}] + h[x]
      BY <3>1 DEF Adds
    <3> QED BY <2>1, <3>2
  <2> QED BY <1>2, <2>2
<1> HIDE DEF Good
<1>4. \A T \in SUBSET D : T # {} /\ (\A x \in T : T \ {x} \in Good) => T \in Good
  BY <1>2
<1>3. \A T \in SUBSET D : T \in Good
  BY <1>1, <1>4, SubsetInduction
<1> QED BY <1>3 DEF Good

(***************************************************************************)
(* The library's sum picks elements with CHOOSE; what it picks does not    *)
(* matter.                                                                 *)
(***************************************************************************)
Total(g, D) == MapThenSumSet(LAMBDA i : g[i], D)

Unfolded(f, g, D) ==
  f = [T \in SUBSET D |-> IF T = {} THEN 0
                          ELSE g[CHOOSE x \in T : TRUE] + f[T \ {CHOOSE x \in T : TRUE}]]

LEMMA TotalIsSum ==
  ASSUME NEW D, IsFiniteSet(D), NEW g \in [D -> Nat], NEW sum, Adds(sum, g, D)
  PROVE  Total(g, D) = sum[D]
<1>1. Total(g, D) = (CHOOSE f : Unfolded(f, g, D))[D]
  BY DEF Total, MapThenSumSet, MapThenFoldSet, Unfolded
<1>2. Unfolded(sum, g, D)
  <2>1. ASSUME NEW T \in SUBSET D, T # {}
        PROVE  sum[T] = g[CHOOSE x \in T : TRUE] + sum[T \ {CHOOSE x \in T : TRUE}]
    <3> DEFINE c == CHOOSE x \in T : TRUE
    <3>1. c \in T
      BY <2>1
    <3> HIDE DEF c
    <3>2. (T \ {c}) \cup {c} = T /\ T \ {c} \in SUBSET D /\ c \notin T \ {c} /\ c \in D
      BY <3>1
    <3>3. sum[T] = sum[T \ {c}] + g[c]
      BY <3>2 DEF Adds
    <3>4. sum[T \ {c}] \in Nat /\ g[c] \in Nat
      BY <3>2 DEF Adds
    <3>5. sum[T] = g[c] + sum[T \ {c}]
      BY <3>3, <3>4
    <3> QED BY <3>5 DEF c
  <2>2. sum \in [SUBSET D -> Nat] /\ sum[{}] = 0
    BY DEF Adds
  <2> QED BY <2>1, <2>2 DEF Unfolded
<1> DEFINE f == CHOOSE f : Unfolded(f, g, D)
<1>3. Unfolded(f, g, D)
  BY <1>2
<1> HIDE DEF f
<1> DEFINE Good == {T \in SUBSET D : f[T] = sum[T]}
<1>4. {} \in Good
  BY <1>2, <1>3 DEF Unfolded
<1>5. ASSUME NEW T \in SUBSET D, T # {}, \A x \in T : T \ {x} \in Good
      PROVE  T \in Good
  <2> DEFINE c == CHOOSE x \in T : TRUE
  <2>1. c \in T
    BY <1>5
  <2>2. f[T] = g[c] + f[T \ {c}] /\ sum[T] = g[c] + sum[T \ {c}]
    BY <1>2, <1>3, <1>5 DEF Unfolded
  <2> HIDE DEF c
  <2>3. f[T \ {c}] = sum[T \ {c}]
    BY <1>5, <2>1
  <2> QED BY <2>2, <2>3
<1> HIDE DEF Good
<1>6. \A T \in SUBSET D : T \in Good
  BY <1>4, <1>5, SubsetInduction
<1>7. f[D] = sum[D]
  BY <1>6 DEF Good
<1> QED BY <1>1, <1>7 DEF f

(***************************************************************************)
(* A sum over one more element.                                            *)
(***************************************************************************)
LEMMA TotalAdd ==
  ASSUME NEW D, IsFiniteSet(D), NEW y, y \notin D,
         NEW g \in [D -> Nat], NEW h \in [D \cup {y} -> Nat], \A x \in D : g[x] = h[x]
  PROVE  /\ Total(g, D) \in Nat
         /\ Total(h, D \cup {y}) = Total(g, D) + h[y]
<1>1. IsFiniteSet(D \cup {y})
  BY FS_AddElement
<1>2. PICK s : Adds(s, g, D)
  BY SumExists
<1>3. PICK t : Adds(t, h, D \cup {y})
  BY <1>1, SumExists
<1>4. Total(g, D) = s[D] /\ Total(h, D \cup {y}) = t[D \cup {y}]
  BY <1>1, <1>2, <1>3, TotalIsSum
<1>5. s[D] = t[D] /\ s[D] \in Nat
  <2>1. D \subseteq D \cup {y} /\ D \in SUBSET D
    OBVIOUS
  <2>2. \A T \in SUBSET D : s[T] = t[T]
    BY <1>2, <1>3, <2>1, SumsAgree
  <2> QED BY <1>2, <2>1, <2>2 DEF Adds
<1>6. t[D \cup {y}] = t[D] + h[y]
  BY <1>3 DEF Adds
<1> QED BY <1>4, <1>5, <1>6

LEMMA TotalEmpty == \A g : Total(g, {}) = 0
<1> SUFFICES ASSUME NEW g PROVE Total(g, {}) = 0
  OBVIOUS
<1>1. Total(g, {}) = (CHOOSE f : Unfolded(f, g, {}))[{}]
  BY DEF Total, MapThenSumSet, MapThenFoldSet, Unfolded
<1>2. Unfolded([T \in SUBSET {} |-> 0], g, {})
  BY DEF Unfolded
<1>3. Unfolded(CHOOSE f : Unfolded(f, g, {}), g, {})
  BY <1>2
<1> QED BY <1>1, <1>3 DEF Unfolded

(***************************************************************************)
(* Induction up to a number.                                               *)
(***************************************************************************)
LEMMA UpTo ==
  ASSUME NEW n \in Nat, NEW Good, 0 \in Good,
         \A k \in 1 .. n : k - 1 \in Good => k \in Good
  PROVE  \A k \in 0 .. n : k \in Good
<1> DEFINE Spans == {T \in SUBSET (1 .. n) : \A k \in 0 .. n : T = 1 .. k => k \in Good}
<1>1. IsFiniteSet(1 .. n)
  BY FS_Interval
<1>2. {} \in Spans
  <2>1. ASSUME NEW k \in 0 .. n, {} = 1 .. k PROVE k = 0
    <3>1. k > 0 => k \in 1 .. k
      OBVIOUS
    <3> QED BY <2>1, <3>1
  <2> QED BY <2>1
<1>3. ASSUME NEW T \in SUBSET (1 .. n), T # {}, \A x \in T : T \ {x} \in Spans
      PROVE  T \in Spans
  <2> SUFFICES ASSUME NEW k \in 0 .. n, T = 1 .. k PROVE k \in Good
    OBVIOUS
  <2>1. k \in 1 .. n /\ k \in T /\ k - 1 \in 0 .. n
    BY <1>3
  <2>2. T \ {k} = 1 .. (k - 1)
    BY <2>1
  <2>3. k - 1 \in Good
    BY <1>3, <2>1, <2>2
  <2> QED BY <2>1, <2>3
<1> HIDE DEF Spans
<1>6. \A T \in SUBSET (1 .. n) : T # {} /\ (\A x \in T : T \ {x} \in Spans) => T \in Spans
  BY <1>3
<1>4. \A T \in SUBSET (1 .. n) : T \in Spans
  BY ZenonT(30), <1>1, <1>2, <1>6, SubsetInduction
<1>5. ASSUME NEW k \in 0 .. n PROVE k \in Good
  <2>1. 1 .. k \in SUBSET (1 .. n)
    OBVIOUS
  <2>2. 1 .. k \in Spans
    BY <1>4, <2>1
  <2> QED BY <2>2 DEF Spans
<1> QED BY <1>5

(***************************************************************************)
(* f[i] is the concatenation of the first i of the sequences s.            *)
(***************************************************************************)
Joins(f, s, k) ==
  /\ DOMAIN f = 1 .. k
  /\ \A i \in 1 .. k : f[i] = IF i = 1 THEN s[i] ELSE f[i - 1] \o s[i]

LEMMA JoinExists ==
  ASSUME NEW U, NEW s \in Seq(Seq(U))
  PROVE  \E f \in [1 .. Len(s) -> Seq(U)] : Joins(f, s, Len(s))
<1> DEFINE n == Len(s)
           Good == {k \in 0 .. n : \E f \in [1 .. k -> Seq(U)] : Joins(f, s, k)}
<1>1. n \in Nat /\ \A i \in 1 .. n : s[i] \in Seq(U)
  BY LenProperties, ElementOfSeq
<1>2. 0 \in Good
  <2> DEFINE none == [i \in 1 .. 0 |-> <<>>]
  <2>1. none \in [1 .. 0 -> Seq(U)]
    OBVIOUS
  <2>2. Joins(none, s, 0)
    BY DEF Joins
  <2>3. 0 \in 0 .. n
    BY <1>1
  <2> HIDE DEF none
  <2> QED BY <2>1, <2>2, <2>3
<1>3. ASSUME NEW k \in 1 .. n, k - 1 \in Good PROVE k \in Good
  <2>1. PICK f \in [1 .. (k - 1) -> Seq(U)] : Joins(f, s, k - 1)
    BY <1>3
  <2> DEFINE last == IF k = 1 THEN s[k] ELSE f[k - 1] \o s[k]
             g == [i \in 1 .. k |-> IF i = k THEN last ELSE f[i]]
  <2>2. k \in Nat \ {0}
    BY <1>1
  <2>3. last \in Seq(U)
    <3>1. k # 1 => f[k - 1] \in Seq(U)
      BY <2>1, <2>2
    <3>2. s[k] \in Seq(U)
      BY <1>1
    <3>3. CASE k = 1
      BY <3>2, <3>3
    <3>4. CASE k # 1
      BY <3>1, <3>2, <3>4, ConcatProperties
    <3> QED BY <3>3, <3>4
  <2>4. \A i \in 1 .. k : i # k => i \in 1 .. (k - 1)
    BY <2>2
  <2>5. g \in [1 .. k -> Seq(U)]
    BY <2>1, <2>3, <2>4
  <2>6. Joins(g, s, k)
    <3> SUFFICES ASSUME NEW i \in 1 .. k
                 PROVE  g[i] = IF i = 1 THEN s[i] ELSE g[i - 1] \o s[i]
      BY <2>5 DEF Joins
    <3>1. i # 1 => i - 1 \in 1 .. k /\ i - 1 # k
      BY <2>2
    <3>2. i # 1 => g[i - 1] = f[i - 1]
      BY <3>1
    <3>3. CASE i = k
      BY <3>2, <3>3
    <3>4. CASE i # k
      <4>1. f[i] = IF i = 1 THEN s[i] ELSE f[i - 1] \o s[i]
        BY <2>1, <2>4, <3>4 DEF Joins
      <4> QED BY <3>2, <3>4, <4>1
    <3> QED BY <3>3, <3>4
  <2> HIDE DEF g
  <2>7. k \in 0 .. n
    BY <1>1
  <2> QED BY <2>5, <2>6, <2>7
<1> HIDE DEF Good
<1>4. \A k \in 0 .. n : k \in Good
  BY <1>1, <1>2, <1>3, UpTo
<1>5. n \in Good
  BY <1>1, <1>4
<1> QED BY <1>5 DEF Good

Same(s, t, n) == \A i \in 1 .. n : s[i] = t[i]

LEMMA JoinsAgree ==
  ASSUME NEW n, n \in Nat, NEW j, j \in Nat, n <= j, NEW f, NEW g, NEW s, NEW t,
         Joins(f, s, n), Joins(g, t, j), Same(s, t, n)
  PROVE  Same(f, g, n)
<1> DEFINE Good == {k \in 0 .. n : k > 0 => f[k] = g[k]}
<1>1. 0 \in Good
  OBVIOUS
<1>2. ASSUME NEW k \in 1 .. n, k - 1 \in Good PROVE k \in Good
  <2>1. k \in 1 .. j /\ k \in 0 .. n
    OBVIOUS
  <2>2. f[k] = IF k = 1 THEN s[k] ELSE f[k - 1] \o s[k]
    BY DEF Joins
  <2>3. g[k] = IF k = 1 THEN t[k] ELSE g[k - 1] \o t[k]
    BY <2>1 DEF Joins
  <2>4. k # 1 => f[k - 1] = g[k - 1]
    BY <1>2
  <2>5. s[k] = t[k]
    BY DEF Same
  <2> QED BY <2>1, <2>2, <2>3, <2>4, <2>5
<1> HIDE DEF Good
<1>3. \A k \in 0 .. n : k \in Good
  BY <1>1, <1>2, UpTo
<1> QED BY <1>3 DEF Good, Same

LEMMA FlattenJoins ==
  ASSUME NEW U, NEW s \in Seq(Seq(U)), NEW f, Joins(f, s, Len(s)), s # <<>>
  PROVE  FlattenSeq(s) = f[Len(s)]
<1> DEFINE n == Len(s)
           Body(g) == [i \in 1 .. n |-> IF i = 1 THEN s[i] ELSE g[i - 1] \o s[i]]
           h == CHOOSE g : g = Body(g)
<1>1. n \in Nat \ {0}
  BY EmptySeq, LenProperties
<1>2. FlattenSeq(s) = h[n]
  BY <1>1 DEF FlattenSeq
<1>3. PICK e \in [1 .. n -> Seq(U)] : Joins(e, s, n)
  BY JoinExists
<1>4. e = Body(e)
  BY <1>3 DEF Joins
<1>5. h = Body(h)
  BY <1>4
<1> HIDE DEF h
<1>6. Joins(h, s, n)
  BY <1>5 DEF Joins
<1>7. h[n] = f[n]
  <2>1. Same(s, s, n) /\ n <= n /\ n \in 1 .. n
    BY <1>1 DEF Same
  <2>2. Same(h, f, n)
    BY <1>1, <1>6, <2>1, JoinsAgree
  <2> QED BY <2>1, <2>2 DEF Same
<1> QED BY <1>2, <1>7

(***************************************************************************)
(* One more sequence goes to the end of the flattened ones.                *)
(***************************************************************************)
LEMMA FlattenMore ==
  ASSUME NEW U, NEW s \in Seq(Seq(U)), NEW x \in Seq(U), NEW t \in Seq(Seq(U)),
         Len(t) = Len(s) + 1, Same(s, t, Len(s)), t[Len(t)] = x
  PROVE  FlattenSeq(s) \in Seq(U) /\ FlattenSeq(t) = FlattenSeq(s) \o x
<1> DEFINE n == Len(s)
<1>1. n \in Nat /\ Len(t) = n + 1 /\ t # <<>>
  BY LenProperties, EmptySeq
<1>2. PICK f \in [1 .. n -> Seq(U)] : Joins(f, s, n)
  BY JoinExists
<1>3. PICK g \in [1 .. Len(t) -> Seq(U)] : Joins(g, t, Len(t))
  BY JoinExists
<1>4. FlattenSeq(t) = g[n + 1]
  BY <1>1, <1>3, FlattenJoins
<1>5. g[n + 1] = IF n = 0 THEN x ELSE g[n] \o x
  <2>1. n + 1 \in 1 .. Len(t) /\ (n + 1) - 1 = n /\ (n + 1 = 1 <=> n = 0) /\ t[n + 1] = x
    BY <1>1
  <2>2. g[n + 1] = IF n + 1 = 1 THEN t[n + 1] ELSE g[(n + 1) - 1] \o t[n + 1]
    BY <1>3, <2>1 DEF Joins
  <2> HIDE DEF n
  <2> QED BY <2>1, <2>2
<1>6. CASE n = 0
  <2>1. s = <<>> /\ FlattenSeq(s) = s
    BY <1>6, EmptySeq DEF FlattenSeq
  <2>2. <<>> \o x = x
    BY ConcatEmptySeq
  <2>3. FlattenSeq(t) = x
    BY <1>4, <1>5, <1>6
  <2>4. <<>> \in Seq(U)
    BY EmptySeq
  <2> QED BY <2>1, <2>2, <2>3, <2>4
<1>7. CASE n # 0
  <2>1. s # <<>> /\ n \in 1 .. n
    BY <1>1, <1>7, EmptySeq
  <2>2. FlattenSeq(s) = f[n]
    BY <1>2, <2>1, FlattenJoins
  <2>3. f[n] = g[n]
    <3>1. n <= Len(t) /\ Len(t) \in Nat
      BY <1>1
    <3>2. f[n] = g[n]
      <4>1. n \in Nat
        BY <1>1
      <4>2. PICK j : j = Len(t)
        OBVIOUS
      <4>3. Joins(f, s, n) /\ Joins(g, t, j)
        BY <1>2, <1>3, <4>2
      <4>4. j \in Nat /\ n <= j /\ Same(s, t, n)
        BY <3>1, <4>2
      <4>5. n \in 1 .. n
        BY <2>1
      <4> HIDE DEF n
      <4>6. Same(f, g, n)
        BY <4>1, <4>3, <4>4, JoinsAgree
      <4> QED BY <4>5, <4>6 DEF Same
    <3> QED BY <3>2
  <2>4. f[n] \in Seq(U)
    BY <1>2, <2>1
  <2> QED BY <1>4, <1>5, <1>7, <2>2, <2>3, <2>4
<1> QED BY <1>6, <1>7

--------------------------------------------------------------------------------
(***************************************************************************)
(* The frames.  Every frame on the wire belongs to an action of the script *)
(* that sends, in script order, and is whole once the action is completed; *)
(* only the last one may be cut, inside write_all or after it failed.      *)
(***************************************************************************)
Cell == [act : Nat, bytes : Nat]

Shape ==
  /\ peer \in Peers /\ done \in 0 .. Len(peer.script)
  /\ sent \in Nat /\ dropped \in Nat /\ left \in Nat /\ unread \in Nat
  /\ wire \in Seq(Cell)

Entire(i) == wire[i].act <= done /\ wire[i].bytes = Size(peer.script[wire[i].act])

Torn(i) ==
  /\ i = Len(wire) /\ stage \in {"write", "Io"}
  /\ wire[i].act = done + 1 /\ wire[i].bytes < Size(peer.script[wire[i].act])

Framed ==
  /\ \A i \in 1 .. Len(wire) :
       /\ wire[i].act \in Frames
       /\ i > 1 => wire[i - 1].act < wire[i].act
       /\ Entire(i) \/ Torn(i)
  /\ stage = "write" =>
       /\ wire # <<>> /\ Torn(Len(wire))
       /\ left + wire[Len(wire)].bytes = Size(peer.script[done + 1])

(***************************************************************************)
(* The report, action by action.                                           *)
(***************************************************************************)
SizeOf(d) == [i \in Frames \cap (1 .. d) |-> Size(peer.script[i])]
DueTo(d) == Total(SizeOf(d), Frames \cap (1 .. d))
BytesOn(w) == [i \in 1 .. Len(w) |-> w[i].bytes]
WireTotal == Total(BytesOn(wire), 1 .. Len(wire))

Reported ==
  /\ stage \in {"start", "accept", "run", "write", "Ok"} => sent + dropped = DueTo(done)
  /\ stage \in {"start", "accept", "run", "Ok"} => sent = WireTotal
  /\ stage = "write" => sent + wire[Len(wire)].bytes = WireTotal
  /\ stage = "Ok" => AtEnd

FrameInv == Shape /\ Framed /\ Reported

LEMMA ScriptFacts ==
  ASSUME peer \in Peers
  PROVE  /\ peer.script \in Seq(MockAction) /\ Len(peer.script) \in Nat
         /\ DOMAIN peer.script = 1 .. Len(peer.script)
         /\ \A i \in Frames : /\ i \in 1 .. Len(peer.script) /\ i \in Nat
                              /\ peer.script[i].kind \in DOMAIN Header
                              /\ peer.script[i].len \in Nat
                              /\ Size(peer.script[i]) \in Nat \ {0}
<1>1. peer.script \in Seq(MockAction)
  BY MockAssumption
<1>2. Len(peer.script) \in Nat /\ DOMAIN peer.script = 1 .. Len(peer.script)
  BY <1>1, LenProperties
<1>3. ASSUME NEW i \in Frames
      PROVE  /\ i \in 1 .. Len(peer.script) /\ i \in Nat
             /\ peer.script[i].kind \in DOMAIN Header
             /\ peer.script[i].len \in Nat
             /\ Size(peer.script[i]) \in Nat \ {0}
  <2>1. i \in 1 .. Len(peer.script) /\ peer.script[i].kind \in DOMAIN Header
    BY <1>2 DEF Frames
  <2>2. peer.script[i] \in MockAction
    BY <1>1, <2>1, ElementOfSeq
  <2>3. peer.script[i].len \in Nat
    BY <2>1, <2>2 DEF MockAction, Header
  <2>4. Header[peer.script[i].kind] \in {22, 20, 3}
    BY <2>1 DEF Header
  <2>5. Size(peer.script[i]) \in Nat \ {0}
    BY <2>3, <2>4 DEF Size
  <2> QED BY <1>2, <2>1, <2>3, <2>5
<1> QED BY <1>1, <1>2, <1>3

Fold(g, D) ==
  CHOOSE f : f = [T \in SUBSET D |-> IF T = {} THEN 0
                                     ELSE g[CHOOSE x \in T : TRUE] + f[T \ {CHOOSE x \in T : TRUE}]]

LEMMA WiredFolds == Wired = Fold([i \in DOMAIN wire |-> wire[i].bytes], DOMAIN wire)[DOMAIN wire]
BY DEF Wired, Fold, MapThenSumSet, MapThenFoldSet

LEMMA DueFolds == Due = Fold([i \in Frames |-> Size(peer.script[i])], Frames)[Frames]
BY DEF Due, Fold, MapThenSumSet, MapThenFoldSet

LEMMA TotalFolds == \A g, D : Total(g, D) = Fold(g, D)[D]
BY DEF Total, Fold, MapThenSumSet, MapThenFoldSet

LEMMA FrameSums ==
  ASSUME Shape
  PROVE  /\ Wired = WireTotal /\ Due = DueTo(Len(peer.script))
         /\ IsFiniteSet(1 .. Len(wire)) /\ BytesOn(wire) \in [1 .. Len(wire) -> Nat]
         /\ Len(wire) \in Nat
         /\ \A d \in Nat : /\ IsFiniteSet(Frames \cap (1 .. d))
                           /\ SizeOf(d) \in [Frames \cap (1 .. d) -> Nat]
<1>1. wire \in Seq(Cell) /\ Len(wire) \in Nat /\ DOMAIN wire = 1 .. Len(wire)
  BY LenProperties DEF Shape
<1>2. \A i \in 1 .. Len(wire) : wire[i] \in Cell
  BY <1>1, ElementOfSeq
<1>3. Wired = Total(BytesOn(wire), 1 .. Len(wire))
  BY <1>1, WiredFolds, TotalFolds DEF BytesOn
<1>4. peer \in Peers
  BY DEF Shape
<1>5. Frames \cap (1 .. Len(peer.script)) = Frames
  BY <1>4, ScriptFacts
<1> DEFINE n == Len(peer.script)
<1>6. Due = Total([i \in Frames |-> Size(peer.script[i])], Frames)
  BY DueFolds, TotalFolds
<1>7. Due = DueTo(Len(peer.script))
  BY <1>5, <1>6 DEF DueTo, SizeOf
<1>8. ASSUME NEW d \in Nat
      PROVE  /\ IsFiniteSet(Frames \cap (1 .. d))
             /\ SizeOf(d) \in [Frames \cap (1 .. d) -> Nat]
  <2>1. IsFiniteSet(Frames \cap (1 .. d))
    <3>1. IsFiniteSet(1 .. d)
      BY FS_Interval
    <3>2. Frames \cap (1 .. d) \subseteq 1 .. d
      OBVIOUS
    <3> QED BY <3>1, <3>2, FS_Subset
  <2>2. \A i \in Frames : Size(peer.script[i]) \in Nat
    BY <1>4, ScriptFacts
  <2> QED BY <2>1, <2>2 DEF SizeOf
<1>9. IsFiniteSet(1 .. Len(wire))
  BY <1>1, FS_Interval
<1> QED BY <1>1, <1>2, <1>3, <1>7, <1>8, <1>9 DEF WireTotal, BytesOn, Cell

LEMMA DueAdds ==
  ASSUME Shape, NEW d \in Nat
  PROVE  /\ d + 1 \in Frames =>
              DueTo(d) \in Nat /\ DueTo(d + 1) = DueTo(d) + Size(peer.script[d + 1])
         /\ d + 1 \notin Frames => DueTo(d + 1) = DueTo(d)
<1> DEFINE D == Frames \cap (1 .. d)
<1>1. CASE d + 1 \in Frames
  <2>1. Frames \cap (1 .. (d + 1)) = D \cup {d + 1} /\ d + 1 \notin D
    BY <1>1
  <2>2. IsFiniteSet(D) /\ SizeOf(d) \in [D -> Nat] /\ SizeOf(d + 1) \in [D \cup {d + 1} -> Nat]
    <3>1. d + 1 \in Nat
      OBVIOUS
    <3>2. IsFiniteSet(D) /\ SizeOf(d) \in [D -> Nat]
      BY FrameSums
    <3>3. SizeOf(d + 1) \in [Frames \cap (1 .. (d + 1)) -> Nat]
      BY <3>1, FrameSums
    <3> QED BY <2>1, <3>2, <3>3
  <2>3. \A x \in D : SizeOf(d)[x] = SizeOf(d + 1)[x]
    BY <2>1 DEF SizeOf
  <2>4. SizeOf(d + 1)[d + 1] = Size(peer.script[d + 1])
    BY <2>1 DEF SizeOf
  <2> HIDE DEF D
  <2>5. Total(SizeOf(d), D) \in Nat
    BY <2>1, <2>2, <2>3, TotalAdd
  <2>6. Total(SizeOf(d + 1), D \cup {d + 1}) = Total(SizeOf(d), D) + SizeOf(d + 1)[d + 1]
    BY <2>1, <2>2, <2>3, TotalAdd
  <2> QED BY <1>1, <2>1, <2>4, <2>5, <2>6 DEF DueTo, D
<1>2. CASE d + 1 \notin Frames
  <2>1. Frames \cap (1 .. (d + 1)) = D
    BY <1>2
  <2> QED BY <1>2, <2>1 DEF DueTo, SizeOf
<1> QED BY <1>1, <1>2

LEMMA LastBytes ==
  ASSUME NEW w \in Seq(Cell), w # <<>>
  PROVE  LET rest == [i \in 1 .. (Len(w) - 1) |-> w[i].bytes] IN
           /\ Total(rest, 1 .. (Len(w) - 1)) \in Nat
           /\ Total(BytesOn(w), 1 .. Len(w))
                = Total(rest, 1 .. (Len(w) - 1)) + w[Len(w)].bytes
<1> DEFINE n == Len(w)
           D == 1 .. (n - 1)
           rest == [i \in D |-> w[i].bytes]
<1>1. n \in Nat \ {0}
  BY EmptySeq, LenProperties
<1>2. \A i \in 1 .. n : w[i] \in Cell
  BY ElementOfSeq
<1>3. D \cup {n} = 1 .. n /\ n \notin D
  BY <1>1
<1>4. IsFiniteSet(D)
  BY <1>1, FS_Interval
<1>5. rest \in [D -> Nat] /\ BytesOn(w) \in [D \cup {n} -> Nat]
  BY <1>1, <1>2, <1>3 DEF BytesOn, Cell
<1>6. \A x \in D : rest[x] = BytesOn(w)[x]
  BY <1>3 DEF BytesOn
<1>7. BytesOn(w)[n] = w[n].bytes
  BY <1>1 DEF BytesOn
<1> HIDE DEF D, rest
<1>8. Total(rest, D) \in Nat /\ Total(BytesOn(w), D \cup {n}) = Total(rest, D) + BytesOn(w)[n]
  BY <1>3, <1>4, <1>5, <1>6, TotalAdd
<1> QED BY <1>3, <1>7, <1>8 DEF D, rest

LEMMA WireGrows ==
  ASSUME Shape, NEW c \in Cell, NEW w, w = Append(wire, c)
  PROVE  /\ w \in Seq(Cell) /\ Len(w) = Len(wire) + 1 /\ w[Len(w)] = c
         /\ \A i \in 1 .. Len(wire) : w[i] = wire[i]
         /\ WireTotal \in Nat
         /\ Total(BytesOn(w), 1 .. Len(w)) = WireTotal + c.bytes
<1>1. wire \in Seq(Cell) /\ Len(wire) \in Nat
  BY LenProperties DEF Shape
<1>2. /\ w \in Seq(Cell) /\ Len(w) = Len(wire) + 1 /\ w[Len(w)] = c
      /\ \A i \in 1 .. Len(wire) : w[i] = wire[i]
  BY <1>1, AppendProperties
<1>3. w # <<>> /\ Len(w) - 1 = Len(wire)
  BY <1>1, <1>2, EmptySeq
<1>4. [i \in 1 .. (Len(w) - 1) |-> w[i].bytes] = BytesOn(wire)
  BY <1>1, <1>2, <1>3 DEF BytesOn
<1> QED BY <1>2, <1>3, <1>4, LastBytes DEF WireTotal

Filled(w, more) == [w EXCEPT ![Len(w)].bytes = @ + more]

LEMMA WireFills ==
  ASSUME Shape, wire # <<>>, NEW more, more \in Nat, NEW w, w = Filled(wire, more)
  PROVE  /\ w \in Seq(Cell) /\ Len(w) = Len(wire) /\ w # <<>>
         /\ w[Len(wire)].bytes = wire[Len(wire)].bytes + more
         /\ \A i \in 1 .. Len(wire) : w[i].act = wire[i].act
         /\ \A i \in 1 .. Len(wire) : i # Len(wire) => w[i] = wire[i]
         /\ WireTotal \in Nat /\ wire[Len(wire)].bytes \in Nat
         /\ Total(BytesOn(w), 1 .. Len(w)) = WireTotal + more
<1> DEFINE n == Len(wire)
           cell == [wire[n] EXCEPT !.bytes = @ + more]
<1>1. wire \in Seq(Cell) /\ n \in Nat \ {0} /\ DOMAIN wire = 1 .. n
  BY EmptySeq, LenProperties DEF Shape
<1>2. \A i \in 1 .. n : wire[i] \in Cell
  BY <1>1, ElementOfSeq
<1>3. w = [wire EXCEPT ![n] = cell]
  BY DEF Filled
<1>4. cell \in Cell /\ cell.act = wire[n].act /\ cell.bytes = wire[n].bytes + more
      /\ wire[n].bytes \in Nat
  <2>1. n \in 1 .. n
    BY <1>1
  <2>2. wire[n] \in Cell
    BY <1>2, <2>1
  <2>3. wire[n].bytes \in Nat /\ wire[n].act \in Nat
    BY <2>2 DEF Cell
  <2>4. cell = [act |-> wire[n].act, bytes |-> wire[n].bytes + more]
    BY <2>2 DEF Cell
  <2> QED BY <2>3, <2>4 DEF Cell
<1> HIDE DEF cell
<1>5. /\ w \in Seq(Cell) /\ Len(w) = n /\ w[n] = cell
      /\ \A i \in 1 .. n : i # n => w[i] = wire[i]
  <2>1. n \in 1 .. Len(wire)
    BY <1>1
  <2>2. wire \in Seq(Cell) /\ cell \in Cell
    BY <1>1, <1>4
  <2> DEFINE new == [wire EXCEPT ![n] = cell]
  <2>3. new \in Seq(Cell)
    BY <2>1, <2>2, ExceptSeq
  <2>4. Len(new) = Len(wire)
    BY <2>1, <2>2, ExceptSeq
  <2>5. \A j \in 1 .. Len(wire) : new[j] = IF j = n THEN cell ELSE wire[j]
    BY <2>1, <2>2, ExceptSeq
  <2>6. w = new
    BY <1>3
  <2> HIDE DEF new
  <2> QED BY <2>1, <2>3, <2>4, <2>5, <2>6
<1>6. w # <<>>
  BY <1>1, <1>5, EmptySeq
<1>7. [i \in 1 .. (n - 1) |-> w[i].bytes] = [i \in 1 .. (n - 1) |-> wire[i].bytes]
  <2>1. \A i \in 1 .. (n - 1) : i \in 1 .. n /\ i # n
    <3>1. n \in Nat
      BY <1>1
    <3> HIDE DEF n
    <3> QED BY <3>1
  <2>2. \A i \in 1 .. (n - 1) : w[i] = wire[i]
    BY <1>5, <2>1
  <2> QED BY <2>2
<1> DEFINE rest == Total([i \in 1 .. (n - 1) |-> wire[i].bytes], 1 .. (n - 1))
<1>8. rest \in Nat /\ WireTotal = rest + wire[n].bytes
  BY <1>1, LastBytes DEF WireTotal
<1>9. Total(BytesOn(w), 1 .. Len(w)) = rest + w[n].bytes
  BY <1>5, <1>6, <1>7, LastBytes
<1> HIDE DEF rest
<1> QED BY SMTT(30), <1>4, <1>5, <1>6, <1>8, <1>9

(***************************************************************************)
(* FrameInv holds at the start, and no action breaks it.                   *)
(***************************************************************************)
LEMMA FrameStart == Init => FrameInv
<1> SUFFICES ASSUME Init PROVE FrameInv
  OBVIOUS
<1>1. /\ peer \in Peers /\ stage = "start" /\ done = 0 /\ sent = 0 /\ dropped = 0
      /\ left = 0 /\ unread = 0 /\ wire = <<>>
  BY DEF Init
<1>2. Len(wire) = 0 /\ wire \in Seq(Cell)
  BY <1>1, EmptySeq
<1>3. Shape
  BY <1>1, <1>2, ScriptFacts DEF Shape
<1>4. Framed
  BY <1>1, <1>2 DEF Framed
<1>5. DueTo(0) = 0 /\ WireTotal = 0
  <2>1. Frames \cap (1 .. 0) = {} /\ 1 .. Len(wire) = {}
    BY <1>2
  <2> QED BY <2>1, TotalEmpty DEF DueTo, WireTotal
<1>6. Reported
  BY <1>1, <1>5 DEF Reported
<1> QED BY <1>3, <1>4, <1>6 DEF FrameInv

\* The script is fixed, and so is what it owes.
LEMMA SameScript ==
  ASSUME peer' = peer
  PROVE  /\ Frames' = Frames
         /\ \A a : Size(a)' = Size(a)
         /\ \A d : DueTo(d)' = DueTo(d)
<1>1. Frames' = Frames
  BY DEF Frames
<1>2. \A a : Size(a)' = Size(a)
  BY DEF Size
<1>3. \A d : SizeOf(d)' = SizeOf(d)
  BY <1>1 DEF SizeOf, Size
<1> QED BY <1>1, <1>2, <1>3 DEF DueTo

\* Steps that leave the wire and the report alone, and at most end the run.
LEMMA FramesKept ==
  ASSUME FrameInv, UNCHANGED <<peer, done, sent, dropped, left, wire>>, unread' \in Nat,
         \/ stage' = stage
         \/ /\ stage \in {"start", "accept", "run"} /\ stage' # "write"
            /\ stage' = "Ok" => AtEnd
         \/ stage = "write" /\ stage' = "Io"
  PROVE  FrameInv'
<1>1. Shape'
  BY DEF FrameInv, Shape
<1>2. WireTotal' = WireTotal /\ \A d : DueTo(d)' = DueTo(d)
  BY SameScript DEF WireTotal, BytesOn
<1>3. DueTo(done)' = DueTo(done)
  BY <1>2, SameScript DEF DueTo, SizeOf, Frames, Size
<1>4. Framed'
  <2>1. \A i : Entire(i)' <=> Entire(i)
    BY DEF Entire, Size
  <2>2. \A i \in 1 .. Len(wire) : Torn(i) => Torn(i)'
    BY DEF Torn, Size
  <2>3. Frames' = Frames
    BY SameScript
  <2> QED BY <2>1, <2>2, <2>3 DEF FrameInv, Framed, Size
<1>5. Reported'
  BY <1>2, <1>3 DEF FrameInv, Reported, AtEnd
<1> QED BY <1>1, <1>4, <1>5 DEF FrameInv

\* One more action completed, which was no frame.
LEMMA FramesPassed ==
  ASSUME FrameInv, UNCHANGED <<peer, stage, sent, dropped, left, wire, unread>>,
         stage = "run", ~AtEnd, done' = done + 1, done + 1 \notin Frames
  PROVE  FrameInv'
<1>1. done \in Nat /\ Len(peer.script) \in Nat /\ done < Len(peer.script)
  BY ScriptFacts DEF FrameInv, Shape, AtEnd
<1>2. Shape'
  BY <1>1 DEF FrameInv, Shape
<1>3. DueTo(done)' = DueTo(done)
  <2>1. DueTo(done + 1) = DueTo(done)
    BY <1>1, DueAdds DEF FrameInv
  <2>2. DueTo(done)' = DueTo(done + 1)
    BY SameScript DEF DueTo, SizeOf, Frames, Size
  <2> QED BY <2>1, <2>2
<1>4. WireTotal' = WireTotal
  BY DEF WireTotal, BytesOn
<1>5. Framed'
  <2>1. ASSUME NEW i \in 1 .. Len(wire) PROVE Entire(i)'
    <3>1. Entire(i)
      BY DEF FrameInv, Framed, Torn
    <3>2. wire[i] \in Cell
      BY ElementOfSeq DEF FrameInv, Shape
    <3>3. wire[i].act <= done + 1
      BY <1>1, <3>1, <3>2 DEF Entire, Cell
    <3> QED BY <3>1, <3>3 DEF Entire, Size
  <2>2. Frames' = Frames
    BY SameScript
  <2> QED BY <2>1, <2>2 DEF FrameInv, Framed
<1>6. Reported'
  BY <1>3, <1>4 DEF FrameInv, Reported
<1> QED BY <1>2, <1>5, <1>6 DEF FrameInv

\* What holds when an action that sends a frame is reached.
LEMMA AtFrame ==
  ASSUME FrameInv, stage \in {"run", "write"}, ~AtEnd, Current.kind \in DOMAIN Header
  PROVE  /\ done \in Nat /\ done + 1 \in 1 .. Len(peer.script) /\ done + 1 \in Frames
         /\ sent \in Nat /\ dropped \in Nat /\ wire \in Seq(Cell) /\ Len(wire) \in Nat
         /\ Size(Current) \in Nat \ {0}
         /\ DueTo(done) \in Nat /\ DueTo(done + 1) = DueTo(done) + Size(Current)
         /\ sent + dropped = DueTo(done)
<1>1. /\ done \in 0 .. Len(peer.script) /\ Len(peer.script) \in Nat
      /\ DOMAIN peer.script = 1 .. Len(peer.script)
  BY ScriptFacts DEF FrameInv, Shape
<1>2. done \in Nat /\ done + 1 \in 1 .. Len(peer.script)
  BY <1>1 DEF AtEnd
<1>3. done + 1 \in Frames
  BY <1>1, <1>2 DEF Frames, Current
<1>4. Size(Current) \in Nat \ {0}
  BY <1>3, ScriptFacts DEF FrameInv, Shape, Current
<1>5. DueTo(done) \in Nat /\ DueTo(done + 1) = DueTo(done) + Size(Current)
  BY <1>2, <1>3, DueAdds DEF FrameInv, Current
<1> QED BY <1>2, <1>3, <1>4, <1>5, LenProperties DEF FrameInv, Shape, Reported

LEMMA FrameDropped == FrameInv /\ DropPacket => FrameInv'
<1> SUFFICES ASSUME FrameInv, DropPacket PROVE FrameInv'
  OBVIOUS
<1>1. stage = "run" /\ ~AtEnd /\ Current.kind \in DOMAIN Header
  BY DEF DropPacket, Sending
<1>2. /\ dropped' = dropped + Size(Current) /\ done' = done + 1
      /\ UNCHANGED <<peer, stage, sent, left, wire, unread>>
  BY DEF DropPacket, Completed
<1>3. /\ done \in Nat /\ done + 1 \in 1 .. Len(peer.script)
      /\ sent \in Nat /\ dropped \in Nat /\ Size(Current) \in Nat
      /\ DueTo(done) \in Nat /\ DueTo(done + 1) = DueTo(done) + Size(Current)
      /\ sent + dropped = DueTo(done)
  BY <1>1, AtFrame
<1>4. Shape'
  BY <1>2, <1>3 DEF FrameInv, Shape
<1>5. Framed'
  <2>1. ASSUME NEW i \in 1 .. Len(wire) PROVE Entire(i)'
    <3>1. Entire(i)
      BY <1>1 DEF FrameInv, Framed, Torn
    <3>2. wire[i] \in Cell
      BY ElementOfSeq DEF FrameInv, Shape
    <3>3. wire[i].act <= done + 1
      BY <1>3, <3>1, <3>2 DEF Entire, Cell
    <3> QED BY <1>2, <3>1, <3>3 DEF Entire, Size
  <2>2. Frames' = Frames
    BY <1>2, SameScript
  <2> QED BY <1>1, <1>2, <2>1, <2>2 DEF FrameInv, Framed
<1>6. Reported'
  <2>1. DueTo(done)' = DueTo(done) + Size(Current)
    BY <1>2, <1>3, SameScript DEF DueTo, SizeOf, Frames, Size
  <2>2. sent' + dropped' = DueTo(done)'
    BY <1>2, <1>3, <2>1
  <2>3. WireTotal' = WireTotal
    BY <1>2 DEF WireTotal, BytesOn
  <2> QED BY <1>1, <1>2, <2>2, <2>3 DEF FrameInv, Reported
<1> QED BY <1>4, <1>5, <1>6 DEF FrameInv

LEMMA FrameSent == FrameInv /\ SendDatagram => FrameInv'
<1> SUFFICES ASSUME FrameInv, SendDatagram PROVE FrameInv'
  OBVIOUS
<1> DEFINE c == [act |-> done + 1, bytes |-> Size(Current)]
<1>1. stage = "run" /\ ~AtEnd /\ Current.kind \in DOMAIN Header
  BY DEF SendDatagram, Sending
<1>2. /\ wire' = Append(wire, c) /\ sent' = sent + Size(Current) /\ done' = done + 1
      /\ UNCHANGED <<peer, stage, dropped, left, unread>>
  BY DEF SendDatagram, Completed
<1>3. /\ done \in Nat /\ done + 1 \in 1 .. Len(peer.script) /\ done + 1 \in Frames
      /\ sent \in Nat /\ dropped \in Nat /\ Size(Current) \in Nat
      /\ DueTo(done) \in Nat /\ DueTo(done + 1) = DueTo(done) + Size(Current)
      /\ sent + dropped = DueTo(done) /\ Len(wire) \in Nat
  BY <1>1, AtFrame
<1>4. c \in Cell /\ c.act = done + 1 /\ c.bytes = Size(Current)
  BY <1>3 DEF Cell
<1> HIDE DEF c
<1>5. /\ wire' \in Seq(Cell) /\ Len(wire') = Len(wire) + 1 /\ wire'[Len(wire')] = c
      /\ \A i \in 1 .. Len(wire) : wire'[i] = wire[i]
      /\ WireTotal \in Nat
      /\ Total(BytesOn(wire'), 1 .. Len(wire')) = WireTotal + c.bytes
  <2> DEFINE w == Append(wire, c)
  <2>1. Shape
    BY DEF FrameInv
  <2>2. /\ w \in Seq(Cell) /\ Len(w) = Len(wire) + 1 /\ w[Len(w)] = c
        /\ \A i \in 1 .. Len(wire) : w[i] = wire[i]
        /\ WireTotal \in Nat
        /\ Total(BytesOn(w), 1 .. Len(w)) = WireTotal + c.bytes
    BY <1>4, <2>1, WireGrows
  <2>3. wire' = w
    BY <1>2
  <2> HIDE DEF w
  <2> QED BY <2>2, <2>3
<1>6. Shape'
  BY <1>2, <1>3, <1>5 DEF FrameInv, Shape
<1>7. Framed'
  <2>1. ASSUME NEW i \in 1 .. Len(wire)
        PROVE  /\ wire'[i].act \in Frames' /\ Entire(i)' /\ wire'[i].act < done + 1
               /\ i > 1 => wire'[i - 1].act < wire'[i].act
    <3>1. Entire(i) /\ wire[i].act \in Frames
      BY <1>1 DEF FrameInv, Framed, Torn
    <3>2. wire[i] \in Cell
      BY ElementOfSeq DEF FrameInv, Shape
    <3>3. wire[i].act \in Nat /\ wire[i].act <= done
      BY <3>1, <3>2 DEF Entire, Cell
    <3>4. wire'[i] = wire[i] /\ (i > 1 => wire'[i - 1] = wire[i - 1])
      BY SMTT(30), <1>3, <1>5
    <3>5. Entire(i)'
      BY SMTT(30), <1>2, <1>3, <3>1, <3>3, <3>4 DEF Entire, Size
    <3>6. Frames' = Frames
      BY <1>2, SameScript
    <3>7. i > 1 => wire[i - 1].act < wire[i].act
      BY DEF FrameInv, Framed
    <3> QED BY <1>3, <3>1, <3>3, <3>4, <3>5, <3>6, <3>7
  <2>2. ASSUME NEW i, i = Len(wire')
        PROVE  /\ wire'[i].act \in Frames' /\ Entire(i)'
               /\ i > 1 => wire'[i - 1].act < wire'[i].act
    <3>1. i = Len(wire) + 1 /\ wire'[i].act = done + 1 /\ wire'[i].bytes = Size(Current)
      BY <1>4, <1>5, <2>2
    <3>2. Frames' = Frames
      BY <1>2, SameScript
    <3>3. Entire(i)'
      BY <1>2, <1>3, <3>1 DEF Entire, Size, Current
    <3>4. i > 1 => i - 1 \in 1 .. Len(wire)
      BY <1>3, <3>1
    <3> QED BY <1>3, <2>1, <3>1, <3>2, <3>3, <3>4
  <2>3. \A i \in 1 .. Len(wire') : i \in 1 .. Len(wire) \/ i = Len(wire')
    BY <1>3, <1>5
  <2>4. stage' # "write"
    BY <1>1, <1>2
  <2> QED BY <2>1, <2>2, <2>3, <2>4 DEF Framed
<1>8. Reported'
  <2>1. DueTo(done)' = DueTo(done) + Size(Current)
    BY <1>2, <1>3, SameScript DEF DueTo, SizeOf, Frames, Size
  <2>2. sent' + dropped' = DueTo(done)'
    BY <1>2, <1>3, <2>1
  <2>3. WireTotal' = WireTotal + Size(Current)
    BY <1>4, <1>5 DEF WireTotal, BytesOn
  <2>4. sent = WireTotal
    BY <1>1 DEF FrameInv, Reported
  <2> QED BY <1>1, <1>2, <2>2, <2>3, <2>4 DEF Reported
<1> QED BY <1>6, <1>7, <1>8 DEF FrameInv

LEMMA FrameBegun == FrameInv /\ BeginWrite => FrameInv'
<1> SUFFICES ASSUME FrameInv, BeginWrite PROVE FrameInv'
  OBVIOUS
<1> DEFINE c == [act |-> done + 1, bytes |-> 0]
<1>1. stage = "run" /\ ~AtEnd /\ Current.kind \in DOMAIN Header
  BY DEF BeginWrite, Sending
<1>2. /\ wire' = Append(wire, c) /\ left' = Size(Current) /\ stage' = "write"
      /\ UNCHANGED <<peer, done, sent, dropped, unread>>
  BY DEF BeginWrite, GoTo, report
<1>3. /\ done \in Nat /\ done + 1 \in 1 .. Len(peer.script) /\ done + 1 \in Frames
      /\ sent \in Nat /\ dropped \in Nat /\ Size(Current) \in Nat \ {0}
      /\ sent + dropped = DueTo(done) /\ Len(wire) \in Nat
  BY <1>1, AtFrame
<1>4. c \in Cell /\ c.act = done + 1 /\ c.bytes = 0
  BY <1>3 DEF Cell
<1> HIDE DEF c
<1>5. /\ wire' \in Seq(Cell) /\ Len(wire') = Len(wire) + 1 /\ wire'[Len(wire')] = c
      /\ \A i \in 1 .. Len(wire) : wire'[i] = wire[i]
      /\ WireTotal \in Nat
      /\ Total(BytesOn(wire'), 1 .. Len(wire')) = WireTotal + c.bytes
  <2> DEFINE w == Append(wire, c)
  <2>1. Shape
    BY DEF FrameInv
  <2>2. /\ w \in Seq(Cell) /\ Len(w) = Len(wire) + 1 /\ w[Len(w)] = c
        /\ \A i \in 1 .. Len(wire) : w[i] = wire[i]
        /\ WireTotal \in Nat
        /\ Total(BytesOn(w), 1 .. Len(w)) = WireTotal + c.bytes
    BY <1>4, <2>1, WireGrows
  <2>3. wire' = w
    BY <1>2
  <2> HIDE DEF w
  <2> QED BY <2>2, <2>3
<1>6. Shape'
  BY <1>2, <1>3, <1>5 DEF FrameInv, Shape
<1>7. Frames' = Frames /\ Size(peer'.script[done' + 1]) = Size(Current)
  BY <1>2, SameScript DEF Current
<1>8. Torn(Len(wire))'
  BY SMTT(30), <1>2, <1>3, <1>4, <1>5, <1>7 DEF Torn, Size, Current
<1>9. Framed'
  <2>1. ASSUME NEW i \in 1 .. Len(wire)
        PROVE  /\ wire'[i].act \in Frames' /\ Entire(i)' /\ wire'[i].act < done + 1
               /\ i > 1 => wire'[i - 1].act < wire'[i].act
    <3>1. Entire(i) /\ wire[i].act \in Frames
      BY <1>1 DEF FrameInv, Framed, Torn
    <3>2. wire[i] \in Cell
      BY ElementOfSeq DEF FrameInv, Shape
    <3>3. wire[i].act \in Nat /\ wire[i].act <= done
      BY <3>1, <3>2 DEF Entire, Cell
    <3>4. wire'[i] = wire[i] /\ (i > 1 => wire'[i - 1] = wire[i - 1])
      BY SMTT(30), <1>3, <1>5
    <3>5. Entire(i)'
      BY <1>2, <1>3, <3>1, <3>3, <3>4 DEF Entire, Size
    <3>6. i > 1 => wire[i - 1].act < wire[i].act
      BY DEF FrameInv, Framed
    <3> QED BY <1>3, <1>7, <3>1, <3>3, <3>4, <3>5, <3>6
  <2>2. ASSUME NEW i, i = Len(wire')
        PROVE  /\ wire'[i].act \in Frames' /\ Torn(i)'
               /\ i > 1 => wire'[i - 1].act < wire'[i].act
    <3>1. i = Len(wire) + 1 /\ wire'[i].act = done + 1
      BY <1>4, <1>5, <2>2
    <3>2. i > 1 => i - 1 \in 1 .. Len(wire)
      BY <1>3, <3>1
    <3>3. Torn(i)'
      BY <1>8, <2>2 DEF Torn
    <3> QED BY <1>3, <1>7, <2>1, <3>1, <3>2, <3>3
  <2>3. \A i \in 1 .. Len(wire') : i \in 1 .. Len(wire) \/ i = Len(wire')
    BY <1>3, <1>5
  <2>4. wire' # <<>>
    BY <1>3, <1>5, EmptySeq
  <2>5. left' + wire'[Len(wire')].bytes = Size(peer.script[done + 1])'
    BY <1>2, <1>3, <1>4, <1>5 DEF Size, Current
  <2> QED BY <1>8, <2>1, <2>2, <2>3, <2>4, <2>5 DEF Framed
<1>10. Reported'
  <2>1. DueTo(done)' = DueTo(done)
    BY <1>2, <1>3, SameScript DEF DueTo, SizeOf, Frames, Size
  <2>2. WireTotal' = WireTotal
    BY <1>4, <1>5 DEF WireTotal, BytesOn
  <2>3. sent = WireTotal
    BY <1>1 DEF FrameInv, Reported
  <2>4. sent' + wire'[Len(wire')].bytes = WireTotal'
    BY <1>2, <1>3, <1>4, <1>5, <2>2, <2>3
  <2> QED BY <1>2, <1>3, <2>1, <2>4 DEF Reported
<1> QED BY <1>6, <1>9, <1>10 DEF FrameInv

LEMMA FrameWritten == FrameInv /\ WriteSome => FrameInv'
<1> SUFFICES ASSUME FrameInv, WriteSome PROVE FrameInv'
  OBVIOUS
<1>0. PICK n, m, w : n = Len(wire) /\ m = Fits /\ w = wire'
  OBVIOUS
<1>1. /\ stage = "write" /\ m > 0
      /\ unread' = unread + m /\ left' = left - m
      /\ peer' = peer /\ dropped' = dropped
      /\ \/ left' = 0 /\ stage' = "run" /\ sent' = sent + Size(Current) /\ done' = done + 1
         \/ left' # 0 /\ stage' = stage /\ sent' = sent /\ done' = done
  BY <1>0 DEF WriteSome, GoTo, Completed
<1>2. /\ wire # <<>> /\ Torn(n) /\ left + wire[n].bytes = Size(peer.script[done + 1])
      /\ \A i \in 1 .. n : /\ wire[i].act \in Frames
                           /\ i > 1 => wire[i - 1].act < wire[i].act
                           /\ Entire(i) \/ Torn(i)
  BY <1>0, <1>1 DEF FrameInv, Framed
<1>3. n \in Nat \ {0} /\ wire \in Seq(Cell) /\ \A i \in 1 .. n : wire[i] \in Cell
  BY <1>0, <1>2, EmptySeq, LenProperties, ElementOfSeq DEF FrameInv, Shape
<1>4. done + 1 \in Frames
  BY <1>0, <1>2, <1>3 DEF Torn
<1>5. ~AtEnd /\ Current.kind \in DOMAIN Header
  BY <1>4, ScriptFacts DEF FrameInv, Shape, AtEnd, Current
<1>6. /\ done \in Nat /\ done + 1 \in 1 .. Len(peer.script)
      /\ sent \in Nat /\ dropped \in Nat /\ Size(Current) \in Nat \ {0}
      /\ DueTo(done) \in Nat /\ DueTo(done + 1) = DueTo(done) + Size(Current)
      /\ sent + dropped = DueTo(done)
  BY <1>1, <1>5, AtFrame
<1>7. left \in Nat /\ unread \in Nat /\ m \in Nat /\ m <= left
  <2>1. left \in Nat /\ unread \in Nat /\ SockCap \in Nat
    BY MockAssumption DEF FrameInv, Shape
  <2> QED BY <1>0, <1>1, <2>1 DEF Fits
<1>8. /\ w \in Seq(Cell) /\ Len(w) = n /\ w # <<>>
      /\ w[n].bytes = wire[n].bytes + m
      /\ \A i \in 1 .. n : w[i].act = wire[i].act /\ (i # n => w[i] = wire[i])
      /\ WireTotal \in Nat /\ wire[n].bytes \in Nat
      /\ Total(BytesOn(w), 1 .. Len(w)) = WireTotal + m
  <2>1. w = Filled(wire, m)
    BY <1>0 DEF WriteSome, Filled
  <2>2. Shape
    BY DEF FrameInv
  <2>3. /\ w \in Seq(Cell) /\ Len(w) = Len(wire) /\ w # <<>>
        /\ w[Len(wire)].bytes = wire[Len(wire)].bytes + m
        /\ \A i \in 1 .. Len(wire) : w[i].act = wire[i].act
        /\ \A i \in 1 .. Len(wire) : i # Len(wire) => w[i] = wire[i]
        /\ WireTotal \in Nat /\ wire[Len(wire)].bytes \in Nat
        /\ Total(BytesOn(w), 1 .. Len(w)) = WireTotal + m
    <3>1. m \in Nat /\ wire # <<>>
      BY <1>2, <1>7
    <3> QED BY <2>1, <2>2, <3>1, WireFills
  <2> QED BY <1>0, <2>3
<1>19. WireTotal \in Nat /\ wire[n].bytes \in Nat /\ w[n].bytes = wire[n].bytes + m
  BY <1>8
<1>9. wire' = w
  BY <1>0
<1>10. Shape'
  <2>1. left' \in Nat /\ unread' \in Nat
    BY <1>1, <1>7
  <2>2. sent' \in Nat /\ done' \in 0 .. Len(peer.script)
    BY SMTT(30), <1>1, <1>6
  <2> QED BY <1>1, <1>8, <1>9, <2>1, <2>2 DEF FrameInv, Shape
<1>11. Frames' = Frames
  BY <1>1, SameScript
<1>12. WireTotal' = WireTotal + m
  BY <1>8, <1>9 DEF WireTotal, BytesOn
<1>13. sent + wire[n].bytes = WireTotal
  BY <1>0, <1>1 DEF FrameInv, Reported
<1>14. left + wire[n].bytes = Size(Current) /\ wire[n].act = done + 1
  BY <1>0, <1>2 DEF Current, Torn
<1>15. ASSUME NEW i \in 1 .. n, i # n
       PROVE  Entire(i)' /\ wire[i].act <= done
  <2>1. Entire(i) /\ w[i] = wire[i] /\ wire[i] \in Cell
    BY <1>2, <1>3, <1>8, <1>0, <1>15 DEF Torn
  <2>2. wire[i].act \in Nat /\ wire[i].act <= done /\ done <= done'
    BY SMTT(30), <1>1, <1>6, <2>1 DEF Entire, Cell
  <2>3. w[i].act <= done' /\ w[i].bytes = Size(peer.script[w[i].act])
    BY SMTT(30), <1>1, <1>6, <2>1, <2>2 DEF Entire
  <2> QED BY <1>1, <1>9, <2>2, <2>3 DEF Entire, Size
<1>16. ASSUME NEW i \in 1 .. n
       PROVE  wire'[i].act \in Frames' /\ (i > 1 => wire'[i - 1].act < wire'[i].act)
  <2>1. i > 1 => i - 1 \in 1 .. n
    BY <1>3
  <2> QED BY <1>2, <1>8, <1>9, <1>11, <2>1
<1>17. CASE left' = 0
  <2>1. stage' = "run" /\ sent' = sent + Size(Current) /\ done' = done + 1
    BY <1>1, <1>17
  <2>2. m = left
    BY <1>1, <1>7, <1>17
  <2>3. w[n].bytes = Size(Current)
    BY <1>7, <1>8, <1>14, <2>2
  <2>4. Entire(n)'
    <3>1. w[n].act <= done' /\ w[n].bytes = Size(peer.script[w[n].act])
      <4>1. w[n].act = done + 1
        BY <1>3, <1>8, <1>14
      <4>2. w[n].act <= done'
        BY <1>6, <2>1, <4>1
      <4> QED BY <2>3, <4>1, <4>2 DEF Current
    <3> QED BY <1>1, <1>9, <3>1 DEF Entire, Size
  <2>5. Framed'
    <3>1. stage' # "write" /\ Len(wire') = n
      BY <1>8, <1>9, <2>1
    <3>2. \A i \in 1 .. n : Entire(i)'
      BY <1>15, <2>4
    <3> QED BY <1>16, <3>1, <3>2 DEF Framed
  <2>6. Reported'
    <3>1. DueTo(done)' = DueTo(done) + Size(Current)
      BY <1>1, <1>6, <2>1, SameScript DEF DueTo, SizeOf, Frames, Size
    <3>2. sent' + dropped' = DueTo(done)'
      BY <1>1, <1>6, <2>1, <3>1
    <3>3. sent' = WireTotal'
      <4>1. wire[n].bytes + m = Size(Current) /\ sent + wire[n].bytes = WireTotal
        BY <1>7, <1>8, <1>13, <1>14, <2>2
      <4>2. sent \in Nat /\ Size(Current) \in Nat
        BY <1>6
      <4>3. sent' = sent + Size(Current) /\ m \in Nat
        BY <1>7, <2>1
      <4> QED BY <1>12, <1>19, <4>1, <4>2, <4>3
    <3> QED BY <2>1, <3>2, <3>3 DEF Reported
  <2> QED BY <1>10, <2>5, <2>6 DEF FrameInv
<1>18. CASE left' # 0
  <2>1. UNCHANGED <<stage, sent, done>>
    BY <1>1, <1>18
  <2>2. w[n].bytes < Size(Current) /\ left' + w[n].bytes = Size(Current)
    <3>1. left' = left - m /\ left' \in Nat \ {0}
      BY <1>1, <1>7, <1>18
    <3>2. Size(Current) \in Nat /\ m \in Nat /\ left \in Nat
      BY <1>6, <1>7
    <3>3. left + wire[n].bytes = Size(Current)
      BY <1>14
    <3> QED BY <1>19, <3>1, <3>2, <3>3
  <2>3. Torn(n)'
    <3>1. /\ n = Len(w) /\ stage' \in {"write", "Io"} /\ w[n].act = done' + 1
          /\ w[n].bytes < Size(peer.script[w[n].act])
      <4>1. w[n].act = done + 1
        BY <1>3, <1>8, <1>14
      <4>2. n = Len(w) /\ stage' = "write" /\ done' = done
        BY <1>1, <1>8, <2>1
      <4> QED BY <2>2, <4>1, <4>2 DEF Current
    <3> QED BY <1>1, <1>9, <3>1 DEF Torn, Size
  <2>4. Framed'
    <3>1. Len(wire') = n /\ wire' # <<>>
      BY <1>8, <1>9
    <3>2. \A i \in 1 .. n : Entire(i)' \/ Torn(i)'
      BY <1>15, <2>3
    <3>3. Torn(Len(wire))'
      BY <2>3, <3>1
    <3>4. left' + wire'[Len(wire')].bytes = Size(peer.script[done + 1])'
      BY <1>1, <1>9, <2>1, <2>2, <3>1 DEF Size, Current
    <3> QED BY <1>16, <3>1, <3>2, <3>3, <3>4 DEF Framed
  <2>5. Reported'
    <3>1. DueTo(done)' = DueTo(done)
      BY <1>1, <1>6, <2>1, SameScript DEF DueTo, SizeOf, Frames, Size
    <3>2. sent' + wire'[Len(wire')].bytes = WireTotal'
      <4>1. wire'[Len(wire')].bytes = wire[n].bytes + m
        BY <1>8, <1>9
      <4>2. sent \in Nat /\ m \in Nat
        BY <1>6, <1>7
      <4>3. sent + (wire[n].bytes + m) = WireTotal + m
        BY <1>13, <1>19, <4>2
      <4>4. wire'[Len(wire')].bytes = wire[n].bytes + m /\ sent' = sent
        BY <2>1, <4>1
      <4> QED BY <1>12, <4>3, <4>4
    <3> QED BY <1>1, <1>6, <2>1, <3>1, <3>2 DEF Reported
  <2> QED BY <1>10, <2>4, <2>5 DEF FrameInv
<1> QED BY <1>17, <1>18

LEMMA FrameStep == FrameInv /\ [Next]_vars => FrameInv'
<1> SUFFICES ASSUME FrameInv, [Next]_vars PROVE FrameInv'
  OBVIOUS
<1>1. unread \in Nat
  BY DEF FrameInv, Shape
<1>2. CASE DropPacket
  BY <1>2, FrameDropped
<1>3. CASE SendDatagram
  BY <1>3, FrameSent
<1>4. CASE BeginWrite
  BY <1>4, FrameBegun
<1>5. CASE WriteSome
  BY <1>5, FrameWritten
<1>6. CASE Sleep
  <2>1. /\ UNCHANGED <<peer, stage, sent, dropped, left, wire, unread>>
        /\ stage = "run" /\ ~AtEnd /\ done' = done + 1 /\ Current.kind = "sleep"
    BY <1>6 DEF Sleep, Completed
  <2>2. done + 1 \notin Frames
    BY <2>1 DEF Frames, Current, Header
  <2> QED BY <2>1, <2>2, FramesPassed
<1>7. CASE Judge
  <2>1. /\ UNCHANGED <<peer, sent, dropped, left, wire, unread>>
        /\ stage = "run" /\ ~AtEnd /\ Current.kind = "expect"
    BY <1>7 DEF Judge, Expecting
  <2>2. done + 1 \notin Frames
    BY <2>1 DEF Frames, Current, Header
  <2>3. \/ done' = done + 1 /\ stage' = stage
        \/ done' = done /\ stage' = "ExpectMismatch"
    BY <1>7 DEF Judge, Completed, GoTo
  <2>4. CASE done' = done + 1 /\ stage' = stage
    BY <2>1, <2>2, <2>4, FramesPassed
  <2>5. CASE done' = done /\ stage' = "ExpectMismatch"
    BY <1>1, <2>1, <2>5, FramesKept
  <2> QED BY <2>3, <2>4, <2>5
<1>8. CASE Open
  <2>1. /\ UNCHANGED <<peer, done, sent, dropped, left, wire, unread>>
        /\ stage = "start" /\ stage' \in {"Bind", "accept", "run"}
    BY <1>8 DEF Open, GoTo, report
  <2> QED BY <1>1, <2>1, FramesKept
<1>9. CASE Accept
  <2>1. /\ UNCHANGED <<peer, done, sent, dropped, left, wire, unread>>
        /\ stage = "accept" /\ stage' \in {"run", "Io"}
    BY <1>9 DEF Accept, GoTo, report
  <2> QED BY <1>1, <2>1, FramesKept
<1>10. CASE Finish
  <2>1. /\ UNCHANGED <<peer, done, sent, dropped, left, wire, unread>>
        /\ stage = "run" /\ stage' = "Ok" /\ AtEnd
    BY <1>10 DEF Finish, GoTo, report
  <2> QED BY <1>1, <2>1, FramesKept
<1>11. CASE DatagramRefused \/ DatagramFails
  <2>1. /\ UNCHANGED <<peer, done, sent, dropped, left, wire, unread>>
        /\ stage = "run" /\ stage' \in {"MissingUdpTarget", "Io"}
    BY <1>11 DEF DatagramRefused, DatagramFails, Sending, Expecting, GoTo, report
  <2> QED BY <1>1, <2>1, FramesKept
<1>12. CASE WriteFails
  <2>1. /\ UNCHANGED <<peer, done, sent, dropped, left, wire, unread>>
        /\ stage = "write" /\ stage' = "Io"
    BY <1>12 DEF WriteFails, GoTo, report
  <2> QED BY <1>1, <2>1, FramesKept
<1>13. CASE Short \/ ReadFails
  <2>1. /\ UNCHANGED <<peer, done, sent, dropped, left, wire, unread>>
        /\ stage = "run" /\ stage' = "TcpExpectShort"
    BY <1>13 DEF Short, ReadFails, Expecting, GoTo, report
  <2> QED BY <1>1, <2>1, FramesKept
<1>14. CASE Take
  BY <1>1, <1>14, FramesKept DEF Take, report
<1>15. CASE ClientSays
  BY <1>1, <1>15, FramesKept DEF ClientSays, report
<1>16. CASE LoseDatagram
  BY <1>1, <1>16, FramesKept DEF LoseDatagram, report
<1>17. CASE ClientReads
  BY <1>1, <1>17, FramesKept DEF ClientReads, report
<1>18. CASE ClientCloses
  BY <1>1, <1>18, FramesKept DEF ClientCloses, report
<1>19. CASE UNCHANGED vars
  BY <1>1, <1>19, FramesKept DEF vars, report
<1> QED BY <1>2, <1>3, <1>4, <1>5, <1>6, <1>7, <1>8, <1>9, <1>10, <1>11, <1>12, <1>13,
           <1>14, <1>15, <1>16, <1>17, <1>18, <1>19 DEF Next, PeerStep, PeerFault

LEMMA FrameAlways == Spec => []FrameInv
BY FrameStart, FrameStep, PTL DEF Spec

LEMMA LengthsFit ==
  ASSUME NEW i \in Frames, peer \in Peers
  PROVE  LET a == peer.script[i] IN
           (Announced(a) = Size(a)) <=> (a.len < (IF a.kind = "soup" THEN 65535 ELSE 65536))
<1> DEFINE a == peer.script[i]
<1>1. a.kind \in DOMAIN Header /\ a.len \in Nat
  BY ScriptFacts
<1>2. \A n \in Nat : /\ (1 + n) % 65536 = 1 + n <=> n < 65535
                     /\ n % 65536 = n <=> n < 65536
  OBVIOUS
<1> HIDE DEF a
<1>3. CASE a.kind = "soup"
  <2>1. Size(a) = 3 + a.len /\ Announced(a) = 2 + ((1 + a.len) % 65536)
    BY <1>3 DEF Size, Announced, U16, Header
  <2>2. (1 + a.len) % 65536 \in Nat
    BY <1>1
  <2>3. Announced(a) = Size(a) <=> (1 + a.len) % 65536 = 1 + a.len
    BY <1>1, <2>1, <2>2
  <2> QED BY <1>1, <1>2, <1>3, <2>3 DEF a
<1>4. CASE a.kind # "soup"
  <2>1. Size(a) = Header[a.kind] + a.len /\ Announced(a) = Header[a.kind] + (a.len % 65536)
    BY <1>4 DEF Size, Announced, U16
  <2>2. a.len % 65536 \in Nat
    BY <1>1
  <2>3. Header[a.kind] \in {22, 20, 3}
    BY <1>1 DEF Header
  <2>4. Announced(a) = Size(a) <=> a.len % 65536 = a.len
    BY <1>1, <2>1, <2>2, <2>3
  <2> QED BY <1>1, <1>2, <1>4, <2>4 DEF a
<1> QED BY <1>3, <1>4

(***************************************************************************)
(* Whatever the script, the drops and the client, a reader of the stream   *)
(* stays on frame boundaries: frames leave whole and in script order, and  *)
(* their length fields are right exactly when they can be (encode_*,       *)
(* send_tcp, should_drop).                                                 *)
(***************************************************************************)
THEOREM FramesParse == Spec => []StreamParses
<1>1. FrameInv => StreamParses
  <2> SUFFICES ASSUME FrameInv, NEW i \in DOMAIN wire
               PROVE  LET a == peer.script[wire[i].act] IN
                        /\ i > 1 => wire[i - 1].act < wire[i].act
                        /\ \/ /\ wire[i].bytes = Size(a)
                              /\ (Announced(a) = Size(a))
                                   <=> (a.len < (IF a.kind = "soup" THEN 65535 ELSE 65536))
                           \/ i = Len(wire) /\ stage \in {"write", "Io"} /\ wire[i].bytes < Size(a)
    BY DEF StreamParses
  <2>1. i \in 1 .. Len(wire)
    BY LenProperties DEF FrameInv, Shape
  <2>2. /\ wire[i].act \in Frames /\ (i > 1 => wire[i - 1].act < wire[i].act)
        /\ Entire(i) \/ Torn(i)
    BY <2>1 DEF FrameInv, Framed
  <2>3. peer \in Peers
    BY DEF FrameInv, Shape
  <2>4. CASE Entire(i)
    BY <2>2, <2>3, <2>4, LengthsFit DEF Entire
  <2>5. CASE Torn(i)
    BY <2>2, <2>5 DEF Torn
  <2> QED BY <2>2, <2>4, <2>5
<1> QED BY <1>1, FrameAlways, PTL

(***************************************************************************)
(* A run that returns Ok accounts for every byte its script owed: what it  *)
(* counted as sent is on the wire, and the rest it counted as dropped      *)
(* (MockRunReport, run_udp, run_tcp).                                      *)
(***************************************************************************)
THEOREM ReportAccountsForAll == Spec => []ReportTrue
<1>1. FrameInv => ReportTrue
  <2> SUFFICES ASSUME FrameInv, stage = "Ok"
               PROVE  AtEnd /\ sent = Wired /\ sent + dropped = Due
    BY DEF ReportTrue
  <2>1. AtEnd /\ sent = WireTotal /\ sent + dropped = DueTo(done)
    BY DEF FrameInv, Reported
  <2>2. Wired = WireTotal /\ Due = DueTo(Len(peer.script))
    BY FrameSums DEF FrameInv
  <2> QED BY <2>1, <2>2 DEF AtEnd
<1> QED BY <1>1, FrameAlways, PTL

--------------------------------------------------------------------------------
(***************************************************************************)
(* The client's bytes.  What reached the socket is what the completed      *)
(* expectations used up, then what was read for the current one, then what *)
(* the socket still holds, then, after a reset, what was lost with it (a   *)
(* failed read may have followed a reset).                                 *)
(***************************************************************************)
Unit == Nat \cup Seq(Nat)

Named(i) == IF peer.script[i].kind = "expect" THEN Units(peer.script[i].bytes) ELSE <<>>
MetTo(d) == [i \in 1 .. d |-> Named(i)]
WantTo(d) == FlattenSeq(MetTo(d))

ReadingExpect == ~AtEnd /\ Current.kind = "expect"

Typed ==
  /\ plan \in Seq(Seq(Nat))
  /\ got \in Seq(Unit) /\ inbox \in Seq(Unit) /\ heard \in Seq(Unit)
  /\ closed \in {"no", "fin", "reset", "failed"}

Flow ==
  \E lost \in Seq(Unit) :
    /\ heard = ((Want \o got) \o inbox) \o lost
    /\ closed \in {"no", "fin"} => lost = <<>>

Reading ==
  /\ stage \in {"start", "accept", "write"} => got = <<>>
  /\ stage = "run" /\ ~ReadingExpect => got = <<>>
  /\ stage \in {"run", "ExpectMismatch", "TcpExpectShort"} /\ ReadingExpect =>
       Len(got) <= Len(Units(Current.bytes))
  /\ stage = "ExpectMismatch" =>
       /\ ReadingExpect /\ Len(got) = Len(Units(Current.bytes))
       /\ got # Units(Current.bytes)
  /\ stage = "TcpExpectShort" =>
       /\ ReadingExpect /\ Len(got) < Len(Units(Current.bytes))
       /\ closed = "failed" \/ (inbox = <<>> /\ closed # "no")

HeardInv == Typed /\ Flow /\ Reading

LEMMA UnitsTyped ==
  ASSUME NEW b \in Seq(Nat)
  PROVE  Units(b) \in Seq(Unit) /\ Len(Units(b)) \in Nat
<1>1. b \in Seq(Unit)
  <2>1. Len(b) \in Nat /\ \A i \in 1 .. Len(b) : b[i] \in Unit
    BY LenProperties, ElementOfSeq DEF Unit
  <2> QED BY <2>1, SeqDef
<1>2. <<b>> \in Seq(Unit)
  BY DEF Unit
<1>3. Units(b) \in Seq(Unit)
  BY <1>1, <1>2 DEF Units
<1> QED BY <1>3, LenProperties

LEMMA NamedTyped ==
  ASSUME peer \in Peers, NEW i \in 1 .. Len(peer.script)
  PROVE  /\ Named(i) \in Seq(Unit)
         /\ peer.script[i].kind = "expect" => peer.script[i].bytes \in Seq(Nat)
<1>1. peer.script[i] \in MockAction
  BY ScriptFacts, ElementOfSeq
<1>2. peer.script[i].kind = "expect" => peer.script[i].bytes \in Seq(Nat)
  BY <1>1 DEF MockAction, Header
<1>3. <<>> \in Seq(Unit)
  BY EmptySeq
<1> QED BY <1>2, <1>3, UnitsTyped DEF Named

LEMMA WantGrows ==
  ASSUME peer \in Peers, NEW d \in 0 .. Len(peer.script)
  PROVE  /\ WantTo(d) \in Seq(Unit)
         /\ d < Len(peer.script) => WantTo(d + 1) = WantTo(d) \o Named(d + 1)
<1>1. Len(peer.script) \in Nat /\ d \in Nat /\ 0 \in Nat
  BY ScriptFacts
<1>2. ASSUME NEW e \in 0 .. Len(peer.script)
      PROVE  MetTo(e) \in Seq(Seq(Unit)) /\ Len(MetTo(e)) = e
  <2>1. \A i \in 1 .. e : Named(i) \in Seq(Unit)
    BY <1>1, NamedTyped
  <2>2. e \in Nat
    BY <1>1
  <2> QED BY <2>1, <2>2 DEF MetTo
<1>3. MetTo(d) \in Seq(Seq(Unit)) /\ Len(MetTo(d)) = d
  BY <1>2
<1>4. WantTo(d) \in Seq(Unit)
  <2> DEFINE t == Append(MetTo(d), <<>>)
  <2>1. <<>> \in Seq(Unit)
    BY EmptySeq
  <2>2. /\ t \in Seq(Seq(Unit)) /\ Len(t) = Len(MetTo(d)) + 1 /\ t[Len(t)] = <<>>
        /\ Same(MetTo(d), t, Len(MetTo(d)))
    BY <1>3, <2>1, AppendProperties DEF Same
  <2> HIDE DEF t
  <2> QED BY <1>3, <2>1, <2>2, FlattenMore DEF WantTo
<1>5. ASSUME d < Len(peer.script) PROVE WantTo(d + 1) = WantTo(d) \o Named(d + 1)
  <2>1. d + 1 \in 0 .. Len(peer.script) /\ d + 1 \in 1 .. Len(peer.script) /\ d + 1 \in 1 .. (d + 1)
    BY <1>1, <1>5
  <2>2. MetTo(d + 1) \in Seq(Seq(Unit)) /\ Len(MetTo(d + 1)) = d + 1
    BY <1>2, <2>1
  <2>3. MetTo(d + 1)[d + 1] = Named(d + 1)
    BY <2>1 DEF MetTo
  <2>4. \A i \in 1 .. d : MetTo(d + 1)[i] = MetTo(d)[i]
    BY <1>1 DEF MetTo
  <2>5. Named(d + 1) \in Seq(Unit)
    BY <2>1, NamedTyped
  <2>6. PICK s, t, x : s = MetTo(d) /\ t = MetTo(d + 1) /\ x = Named(d + 1)
    OBVIOUS
  <2>7. s \in Seq(Seq(Unit)) /\ t \in Seq(Seq(Unit)) /\ x \in Seq(Unit)
    BY <1>3, <2>2, <2>5, <2>6
  <2>8. Len(t) = Len(s) + 1 /\ t[Len(t)] = x /\ Same(s, t, Len(s))
    BY <1>3, <2>2, <2>3, <2>4, <2>6 DEF Same
  <2>9. FlattenSeq(t) = FlattenSeq(s) \o x
    BY SMTT(30), <2>7, <2>8, FlattenMore
  <2> QED BY <2>6, <2>9 DEF WantTo
<1> QED BY <1>4, <1>5

LEMMA WantIs == Want = WantTo(done)
BY DEF Want, Met, WantTo, MetTo, Named

LEMMA SameWant ==
  ASSUME peer' = peer
  PROVE  /\ \A d : WantTo(d)' = WantTo(d)
         /\ done' = done => Want' = Want
         /\ done' = done + 1 => Want' = WantTo(done + 1)
<1>1. \A d : MetTo(d)' = MetTo(d)
  BY DEF MetTo, Named, Units, Tcp
<1>2. \A d : WantTo(d)' = WantTo(d)
  BY <1>1 DEF WantTo
<1>3. Want' = WantTo(done)'
  BY DEF Want, Met, WantTo, MetTo, Named
<1>4. done' = done => WantTo(done)' = WantTo(done)
  BY DEF WantTo, MetTo, Named, Units, Tcp
<1>5. done' = done + 1 => WantTo(done)' = WantTo(done + 1)
  BY DEF WantTo, MetTo, Named, Units, Tcp
<1> QED BY <1>2, <1>3, <1>4, <1>5, WantIs

LEMMA HeardStart == Init => HeardInv
<1> SUFFICES ASSUME Init PROVE HeardInv
  OBVIOUS
<1>1. /\ peer \in Peers /\ plan \in Plans /\ stage = "start" /\ done = 0
      /\ got = <<>> /\ inbox = <<>> /\ heard = <<>> /\ closed = "no"
  BY DEF Init
<1>2. Typed
  <2>1. <<>> \in Seq(Unit)
    BY EmptySeq
  <2>2. plan \in Seq(Seq(Nat))
    BY <1>1, MockAssumption
  <2> QED BY <1>1, <2>1, <2>2 DEF Typed
<1>3. Want = <<>>
  <2>1. Len(Met) = 0 /\ Met = <<>>
    BY <1>1 DEF Met
  <2> QED BY <2>1 DEF Want, FlattenSeq
<1>4. Flow
  <2>1. <<>> \in Seq(Unit) /\ <<>> = ((<<>> \o <<>>) \o <<>>) \o <<>>
    BY EmptySeq, ConcatEmptySeq
  <2> QED BY <1>1, <1>3, <2>1 DEF Flow
<1>5. Reading
  BY <1>1 DEF Reading
<1> QED BY <1>2, <1>4, <1>5 DEF HeardInv

LEMMA WantTyped == ASSUME Shape PROVE Want \in Seq(Unit)
BY WantIs, WantGrows DEF Shape

\* The bytes stay where they are.
LEMMA FlowKept ==
  ASSUME Flow, UNCHANGED <<peer, done, got, inbox, heard, closed>>
  PROVE  Flow'
BY SameWant DEF Flow

\* Nothing read is left over when an action other than an expectation runs.
LEMMA ReadingFresh ==
  ASSUME got' = <<>>, stage' \in {"start", "accept", "run", "write"}, Shape'
  PROVE  Reading'
<1>1. ASSUME ReadingExpect' PROVE (Len(got) <= Len(Units(Current.bytes)))'
  <2>1. (done + 1)' \in 1 .. Len(peer.script)'
    <3>1. Len(peer.script)' \in Nat
      BY MockAssumption, LenProperties DEF Shape
    <3>2. done' \in 0 .. Len(peer.script)' /\ done' # Len(peer.script)'
      BY <1>1 DEF Shape, ReadingExpect, AtEnd
    <3>3. PICK n, d : n = Len(peer.script)' /\ d = done'
      OBVIOUS
    <3>4. n \in Nat /\ d \in 0 .. n /\ d # n
      BY <3>1, <3>2, <3>3
    <3>5. d + 1 \in 1 .. n
      BY <3>4
    <3> QED BY <3>3, <3>5
  <2>2. (peer.script)' \in Seq(MockAction)
    BY MockAssumption DEF Shape
  <2>3. Current' \in MockAction
    BY <2>1, <2>2, ElementOfSeq DEF Current
  <2>4. (Current.bytes)' \in Seq(Nat)
    BY <1>1, <2>3 DEF ReadingExpect, MockAction, Header
  <2>5. Len(Units(Current.bytes))' \in Nat
    BY <2>4, LenProperties DEF Units
  <2>6. Len(got)' = 0
    BY EmptySeq
  <2> QED BY <2>5, <2>6
<1> QED BY <1>1 DEF Reading

\* One more action completed, which was no expectation.
LEMMA FlowPassed ==
  ASSUME Shape, Flow, done + 1 \in 1 .. Len(peer.script), peer.script[done + 1].kind # "expect",
         done' = done + 1, UNCHANGED <<peer, got, inbox, heard, closed>>
  PROVE  Flow'
<1>1. peer \in Peers /\ done \in 0 .. Len(peer.script) /\ Len(peer.script) \in Nat
  BY ScriptFacts DEF Shape
<1>2. WantTo(done + 1) = WantTo(done) \o Named(done + 1) /\ WantTo(done) \in Seq(Unit)
  BY SMTT(30), <1>1, WantGrows
<1>3. Named(done + 1) = <<>>
  BY DEF Named
<1>4. Want' = Want
  BY <1>2, <1>3, WantIs, SameWant, ConcatEmptySeq
<1> QED BY <1>4 DEF Flow

Assoc(x, y, z) == (x \o y) \o z = x \o (y \o z)

LEMMA Associates == ASSUME NEW x \in Seq(Unit), NEW y \in Seq(Unit), NEW z \in Seq(Unit)
                    PROVE  Assoc(x, y, z)
BY ConcatAssociative DEF Assoc

Early(b, n) == SubSeq(b, 1, n)
Later(b, n) == SubSeq(b, n + 1, Len(b))

Moves(a, g, b, n) ==
  /\ Later(b, n) \in Seq(Unit)
  /\ g \o Early(b, n) \in Seq(Unit) /\ Len(g \o Early(b, n)) = Len(g) + n
  /\ (a \o g) \o b = (a \o (g \o Early(b, n))) \o Later(b, n)

\* Reading moves units from the socket to the expectation.
LEMMA Reads ==
  ASSUME NEW a \in Seq(Unit), NEW g \in Seq(Unit), NEW b \in Seq(Unit), NEW n \in 1 .. Len(b)
  PROVE  Moves(a, g, b, n)
<1> DEFINE h == SubSeq(b, 1, n)
           t == SubSeq(b, n + 1, Len(b))
<1>1. Len(b) \in Nat /\ \A i \in 1 .. Len(b) : b[i] \in Unit
  BY LenProperties, ElementOfSeq
<1>2. h \in Seq(Unit) /\ Len(h) = n
  BY <1>1, SubSeqProperties
<1>3. t \in Seq(Unit)
  BY <1>1, SubSeqProperties
<1>4. h \o t = b
  <2>1. 1 \in 1 .. Len(b) + 1 /\ n \in 1 - 1 .. Len(b) /\ Len(b) \in n .. Len(b)
    BY <1>1
  <2>2. h \o t = SubSeq(b, 1, Len(b))
    BY <2>1, ConcatAdjacentSubSeq
  <2> QED BY <2>2, SubSeqFull
<1> HIDE DEF h, t
<1>5. g \o h \in Seq(Unit) /\ Len(g \o h) = Len(g) + n
  BY <1>2, ConcatProperties
<1>6. a \o g \in Seq(Unit)
  BY ConcatProperties
<1>7. (a \o g) \o (h \o t) = ((a \o g) \o h) \o t
  <2>1. PICK x, p, q : x = a \o g /\ p = h /\ q = t
    OBVIOUS
  <2>2. x \in Seq(Unit) /\ p \in Seq(Unit) /\ q \in Seq(Unit)
    BY <1>2, <1>3, <1>6, <2>1
  <2>3. Assoc(x, p, q)
    BY <2>2, Associates
  <2> QED BY <2>1, <2>3 DEF Assoc
<1>8. (a \o g) \o h = a \o (g \o h)
  BY SMTT(30), <1>2, Associates DEF Assoc
<1>9. h = Early(b, n) /\ t = Later(b, n)
  BY DEF h, t, Early, Later
<1> QED BY <1>3, <1>4, <1>5, <1>7, <1>8, <1>9 DEF Moves

LEMMA MinIs ==
  ASSUME NEW a \in Nat, NEW b \in Nat
  PROVE  Min({a, b}) = IF a <= b THEN a ELSE b
<1> DEFINE m == IF a <= b THEN a ELSE b
<1>1. m \in {a, b} /\ \A y \in {a, b} : m <= y
  OBVIOUS
<1>2. \A x \in {a, b} : (\A y \in {a, b} : x <= y) => x = m
  OBVIOUS
<1> QED BY <1>1, <1>2 DEF Min

LEMMA HeardTaken == FrameInv /\ HeardInv /\ Take => HeardInv'
<1> SUFFICES ASSUME FrameInv, HeardInv, Take PROVE HeardInv'
  OBVIOUS
<1>1. /\ Expecting /\ Missing > 0 /\ inbox # <<>>
      /\ UNCHANGED <<peer, stage, done, plan, heard, closed>>
  BY DEF Take, report, client
<1>2. PICK n : /\ n = Min({Missing, Len(inbox)})
               /\ got' = got \o SubSeq(inbox, 1, n)
               /\ inbox' = SubSeq(inbox, n + 1, Len(inbox))
  BY DEF Take
<1>3. /\ Shape /\ Typed /\ got \in Seq(Unit) /\ inbox \in Seq(Unit) /\ Want \in Seq(Unit)
      /\ Len(got) \in Nat /\ Len(inbox) \in Nat \ {0}
  BY <1>1, WantTyped, LenProperties, EmptySeq DEF HeardInv, Typed, FrameInv
<1>4. ReadingExpect /\ stage = "run"
  BY <1>1 DEF Expecting, ReadingExpect
<1>5. Len(Units(Current.bytes)) \in Nat
  <2>1. done + 1 \in 1 .. Len(peer.script)
    BY <1>3, <1>4, ScriptFacts DEF Shape, ReadingExpect, AtEnd
  <2>2. Current.bytes \in Seq(Nat)
    BY <1>3, <1>4, <2>1, NamedTyped DEF Shape, ReadingExpect, Current
  <2> QED BY <2>2, UnitsTyped
<1>6. Missing \in Nat /\ n \in 1 .. Len(inbox) /\ Len(got) + n <= Len(Units(Current.bytes))
  <2>1. Missing \in Nat \ {0} /\ Missing + Len(got) = Len(Units(Current.bytes))
    BY <1>1, <1>3, <1>5 DEF Missing
  <2>2. n = IF Missing <= Len(inbox) THEN Missing ELSE Len(inbox)
    BY <1>2, <1>3, <2>1, MinIs
  <2> QED BY <1>3, <1>5, <2>1, <2>2
<1>7. /\ got' \in Seq(Unit) /\ Len(got') = Len(got) + n /\ inbox' \in Seq(Unit)
      /\ (Want \o got) \o inbox = (Want \o got') \o inbox'
  <2>1. PICK a, g, b : a = Want /\ g = got /\ b = inbox
    OBVIOUS
  <2>2. /\ a \in Seq(Unit) /\ g \in Seq(Unit) /\ b \in Seq(Unit) /\ n \in 1 .. Len(b)
    BY <1>3, <1>6, <2>1
  <2>3. Moves(a, g, b, n)
    BY <2>2, Reads
  <2>4. got' = g \o Early(b, n) /\ inbox' = Later(b, n)
    BY <1>2, <2>1 DEF Early, Later
  <2> QED BY <2>1, <2>3, <2>4 DEF Moves
<1>8. Want' = Want
  BY <1>1, SameWant
<1>9. Flow'
  BY <1>1, <1>7, <1>8 DEF HeardInv, Flow
<1>10. Typed'
  BY <1>1, <1>7 DEF HeardInv, Typed
<1>11. Reading'
  <2>1. ReadingExpect' /\ Len(Units(Current.bytes))' = Len(Units(Current.bytes))
    BY <1>1, <1>4 DEF ReadingExpect, AtEnd, Current, Units, Tcp
  <2>2. Len(got)' <= Len(Units(Current.bytes))'
    BY <1>6, <1>7, <2>1
  <2> QED BY <1>1, <1>4, <2>1, <2>2 DEF Reading
<1> QED BY <1>9, <1>10, <1>11 DEF HeardInv

\* What the peer is reading when an expectation is current.
LEMMA AtExpect ==
  ASSUME Shape, ReadingExpect
  PROVE  /\ done + 1 \in 1 .. Len(peer.script) /\ done < Len(peer.script)
         /\ Current.bytes \in Seq(Nat)
         /\ Units(Current.bytes) \in Seq(Unit) /\ Len(Units(Current.bytes)) \in Nat
         /\ Named(done + 1) = Units(Current.bytes)
<1>1. done + 1 \in 1 .. Len(peer.script) /\ done < Len(peer.script)
  BY ScriptFacts DEF Shape, ReadingExpect, AtEnd
<1>2. Current.bytes \in Seq(Nat)
  BY <1>1, NamedTyped DEF Shape, ReadingExpect, Current
<1>3. Named(done + 1) = Units(Current.bytes)
  BY DEF Named, ReadingExpect, Current
<1> QED BY <1>1, <1>2, <1>3, UnitsTyped

LEMMA HeardJudged == FrameInv /\ HeardInv /\ Judge /\ Shape' => HeardInv'
<1> SUFFICES ASSUME FrameInv, HeardInv, Judge, Shape' PROVE HeardInv'
  OBVIOUS
<1>1. /\ Expecting /\ Missing = 0
      /\ UNCHANGED <<peer, plan, heard, closed, inbox>>
  BY DEF Judge, client
<1>2. /\ Shape /\ Typed /\ got \in Seq(Unit) /\ inbox \in Seq(Unit) /\ Want \in Seq(Unit)
      /\ Len(got) \in Nat
  BY WantTyped, LenProperties DEF HeardInv, Typed, FrameInv
<1>3. ReadingExpect /\ stage = "run"
  BY <1>1 DEF Expecting, ReadingExpect
<1>4. Len(got) = Len(Units(Current.bytes))
  BY <1>1, <1>2, <1>3, AtExpect DEF Missing
<1>5. CASE got = Units(Current.bytes)
  <2>1. done' = done + 1 /\ got' = <<>> /\ stage' = stage
    BY <1>5 DEF Judge, Completed
  <2>2. Want' = Want \o got
    <3>1. WantTo(done + 1) = WantTo(done) \o Named(done + 1)
      BY <1>2, <1>3, AtExpect, WantGrows DEF Shape
    <3>2. Want' = WantTo(done + 1)
      BY <1>1, <2>1, SameWant
    <3> QED BY <1>2, <1>3, <1>5, <3>1, <3>2, AtExpect, WantIs
  <2>3. Want' \o got' = Want'
    <3>1. Want \o got \in Seq(Unit)
      BY <1>2, ConcatProperties
    <3> QED BY <2>1, <2>2, <3>1, ConcatEmptySeq
  <2>4. Flow'
    BY <1>1, <2>2, <2>3 DEF HeardInv, Flow
  <2>5. Typed'
    <3>1. got' \in Seq(Unit)
      BY <2>1, EmptySeq
    <3> QED BY <1>1, <3>1 DEF HeardInv, Typed
  <2>6. Reading'
    BY <1>3, <2>1, ReadingFresh
  <2> QED BY <2>4, <2>5, <2>6 DEF HeardInv
<1>6. CASE got # Units(Current.bytes)
  <2>1. UNCHANGED <<done, got>> /\ stage' = "ExpectMismatch"
    BY <1>6 DEF Judge, GoTo
  <2>2. Flow'
    BY <1>1, <2>1, FlowKept DEF HeardInv
  <2>3. Typed'
    BY <1>1, <2>1 DEF HeardInv, Typed
  <2>4. Reading'
    <3>1. ReadingExpect' /\ Units(Current.bytes)' = Units(Current.bytes)
      BY <1>1, <1>3, <2>1 DEF ReadingExpect, AtEnd, Current, Units, Tcp
    <3>2. Len(got)' = Len(Units(Current.bytes))' /\ got' # Units(Current.bytes)'
      BY <1>4, <1>6, <2>1, <3>1
    <3>3. Len(got)' <= Len(Units(Current.bytes))'
      BY <1>2, <2>1, <3>2
    <3> QED BY <2>1, <3>1, <3>2, <3>3 DEF Reading
  <2> QED BY <2>2, <2>3, <2>4 DEF HeardInv
<1> QED BY <1>5, <1>6

LEMMA HeardSaid == FrameInv /\ HeardInv /\ ClientSays => HeardInv'
<1> SUFFICES ASSUME FrameInv, HeardInv, ClientSays PROVE HeardInv'
  OBVIOUS
<1>1. /\ Joined /\ closed = "no" /\ plan # <<>>
      /\ inbox' = inbox \o Units(Head(plan)) /\ heard' = heard \o Units(Head(plan))
      /\ plan' = Tail(plan)
      /\ UNCHANGED <<peer, stage, done, got, closed>>
  BY DEF ClientSays, Connected, report
<1>2. /\ Shape /\ Typed /\ got \in Seq(Unit) /\ inbox \in Seq(Unit) /\ heard \in Seq(Unit)
      /\ Want \in Seq(Unit) /\ plan \in Seq(Seq(Nat))
  BY WantTyped DEF HeardInv, Typed, FrameInv
<1>3. PICK u : u = Units(Head(plan))
  OBVIOUS
<1>4. u \in Seq(Unit) /\ Tail(plan) \in Seq(Seq(Nat))
  BY <1>1, <1>2, <1>3, HeadTailProperties, UnitsTyped
<1>5. inbox \o u \in Seq(Unit) /\ heard \o u \in Seq(Unit)
  BY <1>2, <1>4, ConcatProperties
<1>6. Typed'
  BY <1>1, <1>2, <1>3, <1>4, <1>5 DEF Typed
<1>7. Flow'
  <2>1. PICK p : p = Want \o got
    OBVIOUS
  <2>2. p \in Seq(Unit)
    BY <1>2, <2>1, ConcatProperties
  <2>3. p \o inbox \in Seq(Unit) /\ p \o (inbox \o u) \in Seq(Unit)
    BY <1>2, <1>5, <2>2, ConcatProperties
  <2>4. heard = (p \o inbox) \o <<>>
    BY <1>1, <2>1 DEF HeardInv, Flow
  <2>5. heard = p \o inbox
    BY <2>3, <2>4, ConcatEmptySeq
  <2>6. (p \o inbox) \o u = p \o (inbox \o u)
    BY <1>2, <1>4, <2>2, Associates DEF Assoc
  <2>7. heard' = p \o inbox' /\ p \o inbox' \in Seq(Unit)
    BY <1>1, <1>3, <2>3, <2>5, <2>6
  <2>8. heard' = (p \o inbox') \o <<>> /\ <<>> \in Seq(Unit)
    BY <2>7, ConcatEmptySeq, EmptySeq
  <2>9. Want' \o got' = p
    BY <1>1, <2>1, SameWant
  <2> QED BY <2>8, <2>9 DEF Flow
<1>8. Reading'
  <2>1. ReadingExpect' <=> ReadingExpect
    BY <1>1 DEF ReadingExpect, AtEnd, Current
  <2>2. Units(Current.bytes)' = Units(Current.bytes)
    BY <1>1 DEF Current, Units, Tcp
  <2>3. stage \in {"run", "write"}
    BY <1>1 DEF Joined
  <2> QED BY <1>1, <2>1, <2>2, <2>3 DEF HeardInv, Reading
<1> QED BY <1>6, <1>7, <1>8 DEF HeardInv

LEMMA HeardClosed == FrameInv /\ HeardInv /\ ClientCloses => HeardInv'
<1> SUFFICES ASSUME FrameInv, HeardInv, ClientCloses PROVE HeardInv'
  OBVIOUS
<1>1. /\ Joined /\ closed \in {"no", "fin"}
      /\ \/ closed' = "fin" /\ inbox' = inbox
         \/ closed' = "reset" /\ inbox' \in {inbox, <<>>}
      /\ UNCHANGED <<peer, stage, done, got, plan, heard>>
  BY DEF ClientCloses, report
<1>2. /\ Shape /\ Typed /\ got \in Seq(Unit) /\ inbox \in Seq(Unit) /\ heard \in Seq(Unit)
      /\ Want \in Seq(Unit)
  BY WantTyped DEF HeardInv, Typed, FrameInv
<1>3. <<>> \in Seq(Unit)
  BY EmptySeq
<1>4. Typed'
  BY <1>1, <1>2, <1>3 DEF Typed
<1>5. heard = ((Want \o got) \o inbox) \o <<>>
  BY <1>1 DEF HeardInv, Flow
<1>6. Want' = Want
  BY <1>1, SameWant
<1>7. CASE inbox' = inbox
  <2>1. heard' = ((Want' \o got') \o inbox') \o <<>>
    BY <1>1, <1>5, <1>6, <1>7
  <2> QED
    <3>1. Flow'
      BY <1>3, <2>1 DEF Flow
    <3>2. Reading'
      <4>1. ReadingExpect' <=> ReadingExpect
        BY <1>1 DEF ReadingExpect, AtEnd, Current
      <4>2. Units(Current.bytes)' = Units(Current.bytes)
        BY <1>1 DEF Current, Units, Tcp
      <4>3. stage \in {"run", "write"}
        BY <1>1 DEF Joined
      <4> QED BY <1>1, <4>1, <4>2, <4>3 DEF HeardInv, Reading
    <3> QED BY <1>4, <3>1, <3>2 DEF HeardInv
<1>8. CASE inbox' = <<>> /\ closed' = "reset"
  <2>1. PICK p : p = Want \o got
    OBVIOUS
  <2>2. p \in Seq(Unit)
    BY <1>2, <2>1, ConcatProperties
  <2>3. p \o inbox \in Seq(Unit)
    BY <1>2, <2>2, ConcatProperties
  <2>4. heard = p \o inbox
    BY <1>5, <2>1, <2>3, ConcatEmptySeq
  <2>5. p \o <<>> = p
    BY <2>2, ConcatEmptySeq
  <2>6. heard' = ((Want' \o got') \o inbox') \o inbox
    BY <1>1, <1>6, <1>8, <2>1, <2>4, <2>5
  <2>7. Flow'
    BY <1>2, <1>8, <2>6 DEF Flow
  <2>8. Reading'
    <3>1. ReadingExpect' <=> ReadingExpect
      BY <1>1 DEF ReadingExpect, AtEnd, Current
    <3>2. Units(Current.bytes)' = Units(Current.bytes)
      BY <1>1 DEF Current, Units, Tcp
    <3>3. stage \in {"run", "write"}
      BY <1>1 DEF Joined
    <3> QED BY <1>1, <3>1, <3>2, <3>3 DEF HeardInv, Reading
  <2> QED BY <1>4, <2>7, <2>8 DEF HeardInv
<1> QED BY <1>1, <1>7, <1>8

\* Steps that move no byte: the run starts, ends, or leaves an expectation alone.
LEMMA HeardKept ==
  ASSUME HeardInv, UNCHANGED <<peer, done, got, inbox, heard, closed>>,
         plan' \in Seq(Seq(Nat)), Reading'
  PROVE  HeardInv'
<1>1. Flow'
  BY FlowKept DEF HeardInv
<1>2. Typed'
  BY DEF HeardInv, Typed
<1> QED BY <1>1, <1>2 DEF HeardInv

\* ... and steps that do not move the script either.
LEMMA ReadingKept ==
  ASSUME Reading, UNCHANGED <<peer, stage, done, got, inbox, closed>>
  PROVE  Reading'
<1>1. ReadingExpect' <=> ReadingExpect
  BY DEF ReadingExpect, AtEnd, Current
<1>2. Units(Current.bytes)' = Units(Current.bytes)
  BY DEF Current, Units, Tcp
<1> QED BY <1>1, <1>2 DEF Reading

\* An action completed without reading anything.
LEMMA HeardPassed ==
  ASSUME FrameInv, HeardInv, Shape', ~AtEnd, Current.kind # "expect",
         stage \in {"run", "write"}, stage' \in {"run", "write"},
         done' = done + 1, UNCHANGED <<peer, got, inbox, heard, closed, plan>>
  PROVE  HeardInv'
<1>1. Shape /\ done + 1 \in 1 .. Len(peer.script)
  BY ScriptFacts DEF FrameInv, Shape, AtEnd
<1>2. got' = <<>>
  BY DEF HeardInv, Reading, ReadingExpect
<1>3. Flow'
  BY <1>1, FlowPassed DEF HeardInv, Current
<1>4. Typed'
  BY DEF HeardInv, Typed
<1>5. Reading'
  BY <1>2, ReadingFresh
<1> QED BY <1>3, <1>4, <1>5 DEF HeardInv

LEMMA HeardStep == FrameInv /\ FrameInv' /\ HeardInv /\ [Next]_vars => HeardInv'
<1> SUFFICES ASSUME FrameInv, FrameInv', HeardInv, [Next]_vars PROVE HeardInv'
  OBVIOUS
<1>1. Shape /\ Shape' /\ plan \in Seq(Seq(Nat)) /\ Reading /\ Typed
  BY DEF FrameInv, HeardInv, Typed
<1>2. CASE Take
  BY <1>2, HeardTaken
<1>3. CASE Judge
  BY <1>1, <1>3, HeardJudged
<1>4. CASE ClientSays
  BY <1>4, HeardSaid
<1>5. CASE ClientCloses
  BY <1>5, HeardClosed
<1>6. CASE Sleep
  <2>1. /\ stage = "run" /\ ~AtEnd /\ Current.kind # "expect" /\ done' = done + 1
        /\ UNCHANGED <<peer, stage, got, inbox, heard, closed, plan>>
    BY <1>6 DEF Sleep, Completed, client
  <2> QED BY <1>1, <2>1, HeardPassed
<1>7. CASE DropPacket \/ SendDatagram
  <2>1. /\ stage = "run" /\ ~AtEnd /\ Current.kind # "expect" /\ done' = done + 1
        /\ UNCHANGED <<peer, stage, got, inbox, heard, closed, plan>>
    BY <1>7 DEF DropPacket, SendDatagram, Sending, Header, Completed, client
  <2> QED BY <1>1, <2>1, HeardPassed
<1>8. CASE WriteSome
  <2>1. stage = "write" /\ UNCHANGED <<peer, got, inbox, heard, closed, plan>>
    BY <1>8 DEF WriteSome, client
  <2>2. ~AtEnd /\ Current.kind # "expect"
    <3>1. done + 1 \in Frames
      <4>1. wire # <<>> /\ Torn(Len(wire)) /\ \A i \in 1 .. Len(wire) : wire[i].act \in Frames
        BY <2>1 DEF FrameInv, Framed
      <4>2. Len(wire) \in 1 .. Len(wire)
        BY <1>1, <4>1, EmptySeq, LenProperties DEF Shape
      <4> QED BY <4>1, <4>2 DEF Torn
    <3> QED BY SMTT(30), <1>1, <3>1, ScriptFacts DEF Shape, AtEnd, Current, Frames, Header
  <2>3. \/ stage' = "run" /\ done' = done + 1
        \/ stage' = stage /\ done' = done
    BY <1>8 DEF WriteSome, GoTo, Completed
  <2>4. CASE stage' = "run" /\ done' = done + 1
    BY <1>1, <2>1, <2>2, <2>4, HeardPassed
  <2>5. CASE stage' = stage /\ done' = done
    BY <1>1, <2>1, <2>5, ReadingKept, HeardKept
  <2> QED BY <2>3, <2>4, <2>5
<1>9. CASE Open
  <2>1. /\ stage = "start" /\ stage' \in {"Bind", "accept", "run"}
        /\ UNCHANGED <<peer, done, got, inbox, heard, closed, plan>>
    BY <1>9 DEF Open, GoTo, report, client
  <2>2. got' = <<>>
    BY <1>1, <2>1 DEF Reading
  <2>3. CASE stage' \in {"accept", "run"}
    BY <1>1, <2>1, <2>2, <2>3, ReadingFresh, HeardKept
  <2>4. CASE stage' = "Bind"
    <3>1. Reading'
      BY <2>4 DEF Reading
    <3> QED BY <1>1, <2>1, <3>1, HeardKept
  <2> QED BY <2>1, <2>3, <2>4
<1>10. CASE Accept
  <2>1. /\ stage = "accept" /\ stage' \in {"run", "Io"}
        /\ UNCHANGED <<peer, done, got, inbox, heard, closed, plan>>
    BY <1>10 DEF Accept, GoTo, report, client
  <2>2. got' = <<>>
    BY <1>1, <2>1 DEF Reading
  <2>3. CASE stage' = "run"
    BY <1>1, <2>1, <2>2, <2>3, ReadingFresh, HeardKept
  <2>4. CASE stage' = "Io"
    <3>1. Reading'
      BY <2>4 DEF Reading
    <3> QED BY <1>1, <2>1, <3>1, HeardKept
  <2> QED BY <2>1, <2>3, <2>4
<1>11. CASE Finish \/ DatagramRefused \/ DatagramFails \/ WriteFails
  <2>1. /\ stage' \in {"Ok", "MissingUdpTarget", "Io"}
        /\ UNCHANGED <<peer, done, got, inbox, heard, closed, plan>>
    BY <1>11 DEF Finish, DatagramRefused, DatagramFails, WriteFails, GoTo, report, client
  <2>2. Reading'
    BY <2>1 DEF Reading
  <2> QED BY <1>1, <2>1, <2>2, HeardKept
<1>12. CASE BeginWrite
  <2>1. /\ stage = "run" /\ stage' = "write" /\ Current.kind # "expect"
        /\ UNCHANGED <<peer, done, got, inbox, heard, closed, plan>>
    BY <1>12 DEF BeginWrite, Sending, Header, GoTo, report, client
  <2>2. got' = <<>>
    BY <1>1, <2>1 DEF Reading, ReadingExpect
  <2> QED BY <1>1, <2>1, <2>2, ReadingFresh, HeardKept
<1>13. CASE Short \/ ReadFails
  <2>1. /\ Expecting /\ Missing > 0 /\ stage' = "TcpExpectShort"
        /\ \/ closed' = "failed"
           \/ closed' = closed /\ inbox = <<>> /\ closed # "no"
        /\ UNCHANGED <<peer, done, got, inbox, heard, plan>>
    BY <1>13 DEF Short, ReadFails, GoTo, report, client
  <2>2. ReadingExpect
    BY <2>1 DEF Expecting, ReadingExpect
  <2>3. Len(got) \in Nat /\ Len(Units(Current.bytes)) \in Nat
    BY <1>1, <2>2, AtExpect, LenProperties DEF Typed
  <2>4. Len(got) < Len(Units(Current.bytes))
    BY <2>1, <2>3 DEF Missing
  <2>5. Reading'
    <3>1. ReadingExpect' /\ Len(Units(Current.bytes))' = Len(Units(Current.bytes))
      BY <2>1, <2>2 DEF ReadingExpect, AtEnd, Current, Units, Tcp
    <3>2. Len(got)' < Len(Units(Current.bytes))' /\ Len(got)' <= Len(Units(Current.bytes))'
      BY <2>1, <2>3, <2>4, <3>1
    <3> QED BY <2>1, <3>1, <3>2 DEF Reading
  <2>6. CASE closed' = closed
    BY <1>1, <2>1, <2>5, <2>6, HeardKept
  <2>7. CASE closed' = "failed"
    <3>1. Want' = Want
      BY <2>1, SameWant
    <3>2. Flow'
      BY <2>1, <2>7, <3>1 DEF HeardInv, Flow
    <3>3. Typed'
      BY <1>1, <2>1, <2>7 DEF Typed
    <3> QED BY <2>5, <3>2, <3>3 DEF HeardInv
  <2> QED BY <2>1, <2>6, <2>7
<1>14. CASE LoseDatagram
  <2>1. /\ plan # <<>> /\ plan' = Tail(plan)
        /\ UNCHANGED <<peer, stage, done, got, inbox, heard, closed>>
    BY <1>14 DEF LoseDatagram, report
  <2>2. plan' \in Seq(Seq(Nat))
    BY <1>1, <2>1, HeadTailProperties
  <2> QED BY <1>1, <2>1, <2>2, ReadingKept, HeardKept
<1>15. CASE ClientReads \/ UNCHANGED vars
  <2>1. UNCHANGED <<peer, stage, done, got, inbox, heard, closed, plan>>
    BY <1>15 DEF ClientReads, vars, report, client
  <2> QED BY <1>1, <2>1, ReadingKept, HeardKept
<1> QED BY <1>2, <1>3, <1>4, <1>5, <1>6, <1>7, <1>8, <1>9, <1>10, <1>11, <1>12, <1>13,
           <1>14, <1>15 DEF Next, PeerStep, PeerFault

(***************************************************************************)
(* The verdict on the client's bytes does not depend on how they came, for *)
(* any script and any client: completed expectations used up exactly what  *)
(* they name, a mismatch means that the next units differ, and a short     *)
(* read that the stream ended before them, was reset, or failed to be read *)
(* (ExpectClientBytes).                                                    *)
(***************************************************************************)
THEOREM VerdictsTrue == Spec => []VerdictTrue
<1>1. FrameInv /\ HeardInv => VerdictTrue
  <2> SUFFICES ASSUME FrameInv, HeardInv PROVE VerdictTrue
    OBVIOUS
  <2>1. /\ Shape /\ Reading /\ Want \in Seq(Unit) /\ got \in Seq(Unit) /\ inbox \in Seq(Unit)
        /\ heard \in Seq(Unit)
    BY WantTyped DEF FrameInv, HeardInv, Typed
  <2>2. PICK lost \in Seq(Unit) :
          heard = ((Want \o got) \o inbox) \o lost /\ (closed \in {"no", "fin"} => lost = <<>>)
    BY DEF HeardInv, Flow
  <2>3. PICK w, g, b : w = Want /\ g = got /\ b = inbox
    OBVIOUS
  <2>4. w \in Seq(Unit) /\ g \in Seq(Unit) /\ b \in Seq(Unit)
    BY <2>1, <2>3
  <2>5. Len(w) \in Nat /\ Len(g) \in Nat /\ Len(b) \in Nat /\ Len(lost) \in Nat
    BY <2>4, LenProperties
  <2>6. heard = ((w \o g) \o b) \o lost
    BY <2>2, <2>3
  <2>7. /\ Len(heard) = Len(w) + Len(g) + Len(b) + Len(lost)
        /\ \A i \in 1 .. Len(w) : heard[i] = w[i]
        /\ \A i \in 1 .. Len(g) : heard[Len(w) + i] = g[i]
    <3>1. /\ w \o g \in Seq(Unit) /\ Len(w \o g) = Len(w) + Len(g)
          /\ \A i \in 1 .. Len(w) + Len(g) :
               (w \o g)[i] = IF i <= Len(w) THEN w[i] ELSE g[i - Len(w)]
      BY <2>4, ConcatProperties
    <3>2. PICK p : p = w \o g
      OBVIOUS
    <3>3. /\ p \o b \in Seq(Unit) /\ Len(p \o b) = Len(p) + Len(b)
          /\ \A i \in 1 .. Len(p) + Len(b) :
               (p \o b)[i] = IF i <= Len(p) THEN p[i] ELSE b[i - Len(p)]
      BY <2>4, <3>1, <3>2, ConcatProperties
    <3>4. PICK q : q = p \o b
      OBVIOUS
    <3>5. /\ Len(q \o lost) = Len(q) + Len(lost)
          /\ \A i \in 1 .. Len(q) + Len(lost) :
               (q \o lost)[i] = IF i <= Len(q) THEN q[i] ELSE lost[i - Len(q)]
      BY <3>3, <3>4, ConcatProperties
    <3>6. heard = q \o lost
      BY <2>6, <3>2, <3>4
    <3>7. Len(p) = Len(w) + Len(g) /\ Len(q) = Len(w) + Len(g) + Len(b)
      BY <2>5, <3>1, <3>2, <3>3, <3>4
    <3>8. Len(heard) = Len(w) + Len(g) + Len(b) + Len(lost)
      BY <2>5, <3>5, <3>6, <3>7
    <3>9. ASSUME NEW i \in 1 .. Len(w) + Len(g) PROVE heard[i] = p[i]
      BY <2>5, <3>3, <3>4, <3>5, <3>6, <3>7, <3>9
    <3>10. \A i \in 1 .. Len(w) : heard[i] = w[i]
      BY <2>5, <3>1, <3>2, <3>9
    <3>11. \A i \in 1 .. Len(g) : heard[Len(w) + i] = g[i]
      <4> SUFFICES ASSUME NEW i \in 1 .. Len(g) PROVE heard[Len(w) + i] = g[i]
        OBVIOUS
      <4>1. Len(w) + i \in 1 .. Len(w) + Len(g) /\ ~(Len(w) + i <= Len(w))
            /\ (Len(w) + i) - Len(w) = i
        BY <2>5
      <4>2. p[Len(w) + i] = g[i]
        BY <3>1, <3>2, <4>1
      <4> QED BY <3>9, <4>1, <4>2
    <3> QED BY <3>8, <3>10, <3>11
  <2>8. SubSeq(heard, 1, Len(w)) = w
    <3>1. \A i \in 1 .. Len(w) : heard[i] \in Unit
      BY <2>4, <2>7, ElementOfSeq
    <3>2. PICK x : x = SubSeq(heard, 1, Len(w))
      OBVIOUS
    <3>3. x \in Seq(Unit) /\ Len(x) = Len(w) /\ \A i \in 1 .. Len(w) : x[i] = heard[i]
      BY <2>5, <3>1, <3>2, SubSeqProperties
    <3>4. \A i \in 1 .. Len(w) : x[i] = w[i]
      BY <2>7, <3>3
    <3>5. x = w
      BY <2>4, <3>3, <3>4, SeqEqual
    <3> QED BY <3>2, <3>5
  <2>9. ASSUME stage = "ExpectMismatch"
        PROVE  LET next == Units(Current.bytes)
                   upto == Len(Want) + Len(next)
               IN upto <= Len(heard) /\ SubSeq(heard, Len(Want) + 1, upto) # next
    <3>1. Len(g) = Len(Units(Current.bytes)) /\ g # Units(Current.bytes)
      BY <2>1, <2>3, <2>9 DEF Reading
    <3>2. Len(w) + Len(g) <= Len(heard)
      BY <2>5, <2>7
    <3>3. SubSeq(heard, Len(w) + 1, Len(w) + Len(g)) = g
      <4>1. PICK m, n, x : m = Len(w) + 1 /\ n = Len(w) + Len(g) /\ x = SubSeq(heard, m, n)
        OBVIOUS
      <4>2. m \in Nat /\ n \in Nat /\ n - m + 1 = Len(g)
        BY <2>5, <4>1
      <4>3. ASSUME NEW j \in m .. n
            PROVE  j - Len(w) \in 1 .. Len(g) /\ heard[j] = g[j - Len(w)]
        <5>1. j - Len(w) \in 1 .. Len(g) /\ Len(w) + (j - Len(w)) = j
          BY <2>5, <4>1
        <5> QED BY <2>7, <5>1
      <4>4. \A j \in m .. n : heard[j] \in Unit
        BY <2>4, <4>3, ElementOfSeq
      <4>5. /\ x \in Seq(Unit) /\ Len(x) = IF m <= n THEN n - m + 1 ELSE 0
            /\ \A i \in 1 .. n - m + 1 : x[i] = heard[m + i - 1]
        BY <4>1, <4>2, <4>4, SubSeqProperties
      <4>6. Len(x) = Len(g)
        BY <2>5, <4>2, <4>5
      <4>7. ASSUME NEW i \in 1 .. Len(g) PROVE x[i] = g[i]
        <5>1. m + i - 1 = Len(w) + i
          BY <2>5, <4>1
        <5>2. x[i] = heard[m + i - 1]
          BY <4>2, <4>5
        <5> QED BY <2>7, <5>1, <5>2
      <4>8. x = g
        BY <2>4, <4>5, <4>6, <4>7, SeqEqual
      <4> QED BY <4>1, <4>8
    <3> QED BY <2>3, <3>1, <3>2, <3>3
  <2>10. ASSUME stage = "TcpExpectShort"
         PROVE  LET next == Units(Current.bytes)
                    upto == Len(Want) + Len(next)
                IN \/ closed \in {"reset", "failed"}
                   \/ closed = "fin" /\ Len(heard) < upto
    <3>1. /\ ReadingExpect /\ Len(g) < Len(Units(Current.bytes))
          /\ closed = "failed" \/ (b = <<>> /\ closed # "no")
      BY <2>1, <2>3, <2>10 DEF Reading
    <3>2. Len(Units(Current.bytes)) \in Nat
      BY <2>1, <3>1, AtExpect
    <3>3. closed = "fin" => Len(b) = 0
      BY <3>1, EmptySeq
    <3>4. closed = "fin" => Len(lost) = 0
      BY <2>2, EmptySeq
    <3>5. Len(w) = Len(Want)
      BY <2>3
    <3>6. closed \in {"no", "fin", "reset", "failed"}
      BY DEF HeardInv, Typed
    <3>7. closed = "fin" => Len(heard) < Len(w) + Len(Units(Current.bytes))
      <4>1. Len(heard) = Len(w) + Len(g) + Len(b) + Len(lost)
        BY <2>7
      <4> QED BY <2>5, <3>1, <3>2, <3>3, <3>4, <4>1
    <3> QED BY <3>1, <3>5, <3>6, <3>7
  <2> QED BY <2>3, <2>8, <2>9, <2>10 DEF VerdictTrue
<1>2. Spec => []HeardInv
  BY FrameAlways, HeardStart, HeardStep, PTL DEF Spec
<1> QED BY <1>1, <1>2, FrameAlways, PTL
=================================================================================
