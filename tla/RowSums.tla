------------------------------ MODULE RowSums ------------------------------
(***************************************************************************)
(* Sums over a set of rows: what Bytes of the spool and the byte limit of  *)
(* a delivery batch compute.  The folds of the library unfold along an     *)
(* arbitrary choice of rows; these lemmas free the sum from that choice.   *)
(*                                                                         *)
(* Each induction over a finite set is a look at a smallest set that       *)
(* violates the claim (SmallestSubset), a statement about sets only.       *)
(***************************************************************************)
EXTENDS FiniteSetsExt, FiniteSetTheorems, TLAPS

\* The sum of size[r.event] over the rows; with SizeOf it is Spool!Bytes.
RowSum(size, rows) == MapThenSumSet(LAMBDA r : size[r.event], rows)

First(rows) == CHOOSE x \in rows : TRUE

\* The recursion of the fold, for every subset of the rows.
Step(g, size, t) == IF t = {} THEN 0 ELSE size[First(t).event] + g[t \ {First(t)}]

Unfolds(g, size, rows) == g = [t \in SUBSET rows |-> Step(g, size, t)]

Unfolding(size, rows) == CHOOSE g : Unfolds(g, size, rows)

\* A finite set of rows with sizes.
Sized(size, rows) == IsFiniteSet(rows) /\ \A r \in rows : size[r.event] \in Nat

\* Induction over the subsets of a finite set.
LEMMA SmallestSubset ==
  ASSUME NEW S, IsFiniteSet(S), NEW Bad \in SUBSET (SUBSET S), Bad # {}
  PROVE  \E t \in Bad : \A u \in Bad : u \subseteq t => u = t
  <1>1. IsWellFoundedOn(StrictSubsetOrdering(S), SUBSET S)
    BY FS_StrictSubsetOrderingWellFounded, FS_FiniteSubsetsOfFinite
  <1>2. \E t \in Bad : \A u \in Bad : ~(<<u, t>> \in StrictSubsetOrdering(S))
    BY <1>1, WFMin
  <1> QED
    BY <1>2 DEF StrictSubsetOrdering

\* The sum is the value of the recursive function at the whole set.
LEMMA RowSumUnfolding ==
  ASSUME NEW size, NEW rows
  PROVE  RowSum(size, rows) = Unfolding(size, rows)[rows]
  BY DEF RowSum, MapThenSumSet, MapThenFoldSet, Unfolding, Unfolds, Step, First

\* A choice leaves a smaller set.
LEMMA FirstIsMember ==
  ASSUME NEW t, t # {}
  PROVE  First(t) \in t /\ t \ {First(t)} \subseteq t /\ t \ {First(t)} # t
  BY DEF First

\* Two functions that unfold the recursion agree where both are defined.
LEMMA UnfoldingUnique ==
  ASSUME NEW S, IsFiniteSet(S), NEW T \in SUBSET S, NEW size, NEW g, NEW h,
         Unfolds(g, size, S), Unfolds(h, size, T)
  PROVE  \A t \in SUBSET T : g[t] = h[t]
  <1> DEFINE Bad == {t \in SUBSET T : g[t] # h[t]}
  <1>1. SUFFICES ASSUME Bad # {} PROVE FALSE
    OBVIOUS
  <1>2. IsFiniteSet(T)
    BY FS_Subset
  <1>3. PICK t \in Bad : \A u \in Bad : u \subseteq t => u = t
    <2> HIDE DEF Bad
    <2>1. Bad \in SUBSET (SUBSET T)
      BY DEF Bad
    <2> QED
      BY <1>1, <1>2, <2>1, SmallestSubset
  <1>4. g[t] = Step(g, size, t) /\ h[t] = Step(h, size, t)
    BY DEF Unfolds
  <1>5. t # {}
    BY <1>4 DEF Step
  <1>6. g[t \ {First(t)}] = h[t \ {First(t)}]
    BY <1>3, <1>5, FirstIsMember
  <1> QED
    BY <1>3, <1>4, <1>6 DEF Step

\* The recursion is well defined on every finite set.
LEMMA UnfoldingExists ==
  ASSUME NEW S, IsFiniteSet(S), NEW size
  PROVE  Unfolds(Unfolding(size, S), size, S)
  <1> DEFINE Bad == {t \in SUBSET S : ~Unfolds(Unfolding(size, t), size, t)}
  <1>1. SUFFICES ASSUME Bad # {} PROVE FALSE
    OBVIOUS
  <1>2. PICK t \in Bad : \A u \in Bad : u \subseteq t => u = t
    <2> HIDE DEF Bad
    <2>1. Bad \in SUBSET (SUBSET S)
      BY DEF Bad
    <2> QED
      BY <1>1, <2>1, SmallestSubset
  <1> DEFINE value(u) == Unfolding(size, u)[u]
             h == [u \in SUBSET t |->
                      IF u = {} THEN 0 ELSE size[First(u).event] + value(u \ {First(u)})]
  <1>3. \A u \in SUBSET t : u # t => Unfolds(Unfolding(size, u), size, u)
    BY <1>2
  <1>4. ASSUME NEW u \in SUBSET t, u # t
        PROVE  h[u] = value(u)
    <2> DEFINE g == Unfolding(size, u)
               v == u \ {First(u)}
    <2>1. g[u] = Step(g, size, u)
      BY <1>3, <1>4 DEF Unfolds
    <2>2. CASE u = {}
      BY <2>1, <2>2 DEF Step
    <2>3. CASE u # {}
      <3>1. v \in SUBSET u /\ v \in SUBSET t /\ v # t
        BY <1>4, <2>3, FirstIsMember
      <3>2. IsFiniteSet(u)
        BY <1>2, FS_Subset
      <3>3. Unfolds(g, size, u) /\ Unfolds(Unfolding(size, v), size, v)
        BY <1>3, <1>4, <3>1
      <3>4. g[v] = Unfolding(size, v)[v]
        BY <3>1, <3>2, <3>3, UnfoldingUnique
      <3> QED
        BY <2>1, <2>3, <3>4 DEF Step
    <2> QED
      BY <2>2, <2>3
  <1>5. Unfolds(h, size, t)
    <2>1. ASSUME NEW u \in SUBSET t
          PROVE  h[u] = Step(h, size, u)
      <3>1. CASE u = {}
        BY <3>1 DEF Step
      <3>2. CASE u # {}
        <4>1. u \ {First(u)} \in SUBSET t /\ u \ {First(u)} # t
          BY <3>2, FirstIsMember
        <4>2. h[u \ {First(u)}] = value(u \ {First(u)})
          BY <1>4, <4>1
        <4>3. h[u] = size[First(u).event] + value(u \ {First(u)})
          BY <3>2
        <4> HIDE DEF h, value
        <4> QED
          BY <3>2, <4>2, <4>3 DEF Step
      <3> QED
        BY <3>1, <3>2
    <2>2. h = [u \in SUBSET t |-> h[u]]
      OBVIOUS
    <2> HIDE DEF h
    <2> QED
      BY <2>1, <2>2 DEF Unfolds
  <1> HIDE DEF h
  <1>6. Unfolds(Unfolding(size, t), size, t)
    BY <1>5 DEF Unfolding
  <1> QED
    BY <1>2, <1>6

\* The sum of a set is the size of a chosen row and the sum of the others.
LEMMA RowSumFirst ==
  ASSUME NEW S, IsFiniteSet(S), NEW size, S # {}
  PROVE  RowSum(size, S) = size[First(S).event] + RowSum(size, S \ {First(S)})
  <1> DEFINE T == S \ {First(S)}
  <1>1. T \in SUBSET S /\ IsFiniteSet(T)
    BY FS_Subset
  <1>2. Unfolds(Unfolding(size, S), size, S) /\ Unfolds(Unfolding(size, T), size, T)
    BY <1>1, UnfoldingExists
  <1>3. Unfolding(size, S)[T] = Unfolding(size, T)[T]
    BY <1>1, <1>2, UnfoldingUnique
  <1>4. Unfolding(size, S)[S] = size[First(S).event] + Unfolding(size, S)[T]
    BY <1>2 DEF Unfolds, Step
  <1> QED
    BY <1>3, <1>4, RowSumUnfolding

\* Nothing weighs nothing.
LEMMA RowSumEmpty ==
  ASSUME NEW size
  PROVE  RowSum(size, {}) = 0
  <1>1. Unfolds(Unfolding(size, {}), size, {})
    BY FS_EmptySet, UnfoldingExists
  <1> QED
    BY <1>1, RowSumUnfolding DEF Unfolds, Step

\* Sums are natural numbers.
LEMMA RowSumType ==
  ASSUME NEW S, NEW size, Sized(size, S)
  PROVE  RowSum(size, S) \in Nat
  <1> DEFINE Bad == {t \in SUBSET S : RowSum(size, t) \notin Nat}
  <1>1. SUFFICES ASSUME Bad # {} PROVE FALSE
    OBVIOUS
  <1>2. PICK t \in Bad : \A u \in Bad : u \subseteq t => u = t
    <2> HIDE DEF Bad
    <2>1. Bad \in SUBSET (SUBSET S)
      BY DEF Bad
    <2> QED
      BY <1>1, <2>1, SmallestSubset DEF Sized
  <1>3. RowSum(size, {}) \in Nat
    BY RowSumEmpty
  <1>4. t # {}
    BY <1>3
  <1>5. RowSum(size, t \ {First(t)}) \in Nat
    BY <1>2, <1>4, FirstIsMember
  <1>6. IsFiniteSet(t) /\ size[First(t).event] \in Nat
    BY <1>2, <1>4, FirstIsMember, FS_Subset DEF Sized
  <1>7. RowSum(size, t) = size[First(t).event] + RowSum(size, t \ {First(t)})
    BY <1>4, <1>6, RowSumFirst
  <1>8. RowSum(size, t) \in Nat
    BY <1>5, <1>6, <1>7
  <1> QED
    BY <1>8

\* ... and the row taken out may be any row.
LEMMA RowSumRemove ==
  ASSUME NEW S, NEW size, Sized(size, S), NEW x \in S
  PROVE  RowSum(size, S) = size[x.event] + RowSum(size, S \ {x})
  <1> DEFINE Off(t) == \E y \in t : RowSum(size, t) # size[y.event] + RowSum(size, t \ {y})
             Bad == {t \in SUBSET S : Off(t)}
  <1>1. SUFFICES ASSUME Bad # {} PROVE FALSE
    OBVIOUS
  <1>2. PICK t \in Bad : \A u \in Bad : u \subseteq t => u = t
    <2> HIDE DEF Bad
    <2>1. Bad \in SUBSET (SUBSET S)
      BY DEF Bad
    <2> QED
      BY <1>1, <2>1, SmallestSubset DEF Sized
  <1>3. PICK y \in t : RowSum(size, t) # size[y.event] + RowSum(size, t \ {y})
    BY <1>2
  <1> DEFINE c == First(t)
  <1>4. c \in t
    BY <1>3, FirstIsMember
  <1>5. \A u \in SUBSET t : IsFiniteSet(u) /\ Sized(size, u)
    BY <1>2, FS_Subset DEF Sized
  <1>6. RowSum(size, t) = size[c.event] + RowSum(size, t \ {c})
    BY <1>3, <1>5, RowSumFirst
  <1>7. y # c
    BY <1>3, <1>6
  <1> HIDE DEF c
  <1>8. ~Off(t \ {c}) /\ ~Off(t \ {y})
    <2>1. /\ t \ {c} \in SUBSET S /\ t \ {c} \subseteq t /\ t \ {c} # t
          /\ t \ {y} \in SUBSET S /\ t \ {y} \subseteq t /\ t \ {y} # t
      BY <1>2, <1>3, <1>4
    <2> HIDE DEF Off
    <2> QED
      BY <1>2, <2>1
  <1>9. /\ RowSum(size, t \ {c}) = size[y.event] + RowSum(size, (t \ {c}) \ {y})
        /\ RowSum(size, t \ {y}) = size[c.event] + RowSum(size, (t \ {y}) \ {c})
    BY <1>3, <1>4, <1>7, <1>8
  <1>10. (t \ {c}) \ {y} = (t \ {y}) \ {c}
    OBVIOUS
  <1>11. RowSum(size, (t \ {c}) \ {y}) \in Nat
    BY <1>5, RowSumType
  <1>12. size[c.event] \in Nat /\ size[y.event] \in Nat
    BY <1>4, <1>2, <1>3 DEF Sized
  <1> QED
    BY <1>3, <1>6, <1>9, <1>10, <1>11, <1>12

\* The sum of a part and of the rest.
LEMMA RowSumDifference ==
  ASSUME NEW S, NEW size, Sized(size, S), NEW D \in SUBSET S
  PROVE  /\ RowSum(size, S) = RowSum(size, S \ D) + RowSum(size, D)
         /\ RowSum(size, S) \in Nat /\ RowSum(size, S \ D) \in Nat /\ RowSum(size, D) \in Nat
  <1> DEFINE Off(t) == RowSum(size, S) # RowSum(size, S \ t) + RowSum(size, t)
             Bad == {t \in SUBSET S : Off(t)}
  <1>1. \A u \in SUBSET S : Sized(size, u) /\ RowSum(size, u) \in Nat
    BY FS_Subset, RowSumType DEF Sized
  <1>2. SUFFICES ASSUME Bad # {} PROVE FALSE
    BY <1>1
  <1>3. PICK t \in Bad : \A u \in Bad : u \subseteq t => u = t
    <2> HIDE DEF Bad
    <2>1. Bad \in SUBSET (SUBSET S)
      BY DEF Bad
    <2> QED
      BY <1>2, <2>1, SmallestSubset DEF Sized
  <1>4. t # {}
    <2>1. S \ {} = S
      OBVIOUS
    <2>2. RowSum(size, {}) = 0
      BY RowSumEmpty
    <2>3. RowSum(size, S) \in Nat
      BY <1>1
    <2>4. ~Off({})
      BY <2>1, <2>2, <2>3
    <2> HIDE DEF Off
    <2> QED
      BY <2>4
  <1>5. PICK x \in t : TRUE
    BY <1>4
  <1> DEFINE u == t \ {x}
  <1>6. u \in SUBSET S /\ u \in SUBSET t /\ u # t /\ x \in S
    BY <1>3, <1>5
  <1>7. ~Off(u)
    BY <1>3, <1>6
  <1>8. RowSum(size, t) = size[x.event] + RowSum(size, u)
    BY <1>1, <1>3, <1>5, RowSumRemove
  <1>9. RowSum(size, S \ u) = size[x.event] + RowSum(size, S \ t)
    <2>1. x \in S \ u /\ (S \ u) \ {x} = S \ t
      BY <1>5, <1>6
    <2> QED
      BY <1>1, <2>1, RowSumRemove
  <1>10. /\ size[x.event] \in Nat
         /\ RowSum(size, u) \in Nat /\ RowSum(size, t) \in Nat
         /\ RowSum(size, S \ t) \in Nat /\ RowSum(size, S \ u) \in Nat
    BY <1>1, <1>3, <1>6 DEF Sized
  <1> HIDE DEF u
  <1> QED
    BY <1>3, <1>7, <1>8, <1>9, <1>10

\* A part weighs no more than the whole.
LEMMA RowSumMonotone ==
  ASSUME NEW S, NEW size, Sized(size, S), NEW D \in SUBSET S
  PROVE  RowSum(size, D) <= RowSum(size, S)
  <1>1. /\ RowSum(size, S) = RowSum(size, S \ D) + RowSum(size, D)
        /\ RowSum(size, S \ D) \in Nat /\ RowSum(size, D) \in Nat
    BY RowSumDifference
  <1> QED
    BY <1>1

\* The sum of two sets without a common row.
LEMMA RowSumUnion ==
  ASSUME NEW S, NEW T, NEW size, Sized(size, S), Sized(size, T), S \cap T = {}
  PROVE  /\ Sized(size, S \cup T)
         /\ RowSum(size, S \cup T) = RowSum(size, S) + RowSum(size, T)
         /\ RowSum(size, S) \in Nat /\ RowSum(size, T) \in Nat
  <1>1. Sized(size, S \cup T)
    BY FS_Union DEF Sized
  <1>2. T \in SUBSET (S \cup T) /\ (S \cup T) \ T = S
    OBVIOUS
  <1> QED
    BY <1>1, <1>2, RowSumDifference

\* One row.
LEMMA RowSumSingle ==
  ASSUME NEW r, NEW size, size[r.event] \in Nat
  PROVE  Sized(size, {r}) /\ RowSum(size, {r}) = size[r.event]
  <1>1. Sized(size, {r})
    BY FS_Singleton DEF Sized
  <1>2. {r} \ {r} = {} /\ r \in {r}
    OBVIOUS
  <1>3. RowSum(size, {}) = 0
    BY RowSumEmpty
  <1>4. RowSum(size, {r}) = size[r.event] + RowSum(size, {r} \ {r})
    BY <1>1, <1>2, RowSumRemove
  <1> QED
    BY <1>1, <1>2, <1>3, <1>4

\* Rewriting rows one to one without touching their events moves no sum.
LEMMA RowSumImage ==
  ASSUME NEW S, NEW size, Sized(size, S), NEW f,
         \A r \in S : f[r].event = r.event,
         \A r, q \in S : f[r] = f[q] => r = q
  PROVE  RowSum(size, {f[r] : r \in S}) = RowSum(size, S)
  <1> DEFINE Image(t) == {f[r] : r \in t}
             Off(t) == RowSum(size, Image(t)) # RowSum(size, t)
             Bad == {t \in SUBSET S : Off(t)}
  <1>1. SUFFICES ASSUME Bad # {} PROVE FALSE
    OBVIOUS
  <1>2. PICK t \in Bad : \A u \in Bad : u \subseteq t => u = t
    <2> HIDE DEF Bad
    <2>1. Bad \in SUBSET (SUBSET S)
      BY DEF Bad
    <2> QED
      BY <1>1, <2>1, SmallestSubset DEF Sized
  <1>3. t # {}
    <2>1. Image({}) = {}
      OBVIOUS
    <2>2. ~Off({})
      BY <2>1
    <2> HIDE DEF Off
    <2> QED
      BY <2>2
  <1>4. PICK x \in t : TRUE
    BY <1>3
  <1> DEFINE u == t \ {x}
  <1>5. u \in SUBSET S /\ u \subseteq t /\ u # t /\ x \in S /\ t \in SUBSET S
    BY <1>4
  <1>6. ~Off(u)
    <2> HIDE DEF Off, u
    <2> QED
      BY <1>2, <1>5
  <1>7. Sized(size, t)
    BY <1>5, FS_Subset DEF Sized
  <1>8. RowSum(size, t) = size[x.event] + RowSum(size, u)
    BY <1>4, <1>7, RowSumRemove
  <1>9. Sized(size, Image(t))
    <2>1. IsFiniteSet(Image(t))
      <3> DEFINE g == [r \in t |-> f[r]]
      <3>1. g \in Bijection(t, Image(t))
        <4>1. g \in [t -> Image(t)] /\ \A r \in Image(t) : \E q \in t : g[q] = r
          OBVIOUS
        <4>2. \A r, q \in t : g[r] = g[q] => r = q
          BY <1>5
        <4> QED
          BY <4>1, <4>2 DEF Bijection, Injection, Surjection, IsInjective
      <3> QED
        BY <1>7, <3>1, FS_Bijection DEF Sized, ExistsBijection
    <2> QED
      BY <1>5, <2>1 DEF Sized
  <1>10. f[x] \in Image(t) /\ Image(t) \ {f[x]} = Image(u) /\ f[x].event = x.event
    BY <1>4, <1>5
  <1>11. RowSum(size, Image(t)) = size[f[x].event] + RowSum(size, Image(t) \ {f[x]})
    <2> HIDE DEF Image
    <2> QED
      BY <1>9, <1>10, RowSumRemove
  <1> HIDE DEF Image, u
  <1>12. ~Off(t)
    BY <1>6, <1>8, <1>10, <1>11
  <1> HIDE DEF Off
  <1> QED
    BY <1>12
=============================================================================
