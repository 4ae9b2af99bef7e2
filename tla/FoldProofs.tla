------------------------------ MODULE FoldProofs -----------------------------
(***************************************************************************)
(* Sums of amounts and folds over sequences.  SumFunctionOnSet picks the   *)
(* elements one by one, so what it computes has to be shown to exist and   *)
(* not to depend on the order; FoldLeft takes them from the left, and has  *)
(* to be shown to exist.  Induction is by a least counterexample.          *)
(***************************************************************************)
EXTENDS Functions, Integers, FiniteSets, FiniteSetsExt, SequencesExt, FiniteSetTheorems,
        SequenceTheorems, WellFoundedInduction, NaturalsInduction, TLAPS

Pick(s) == CHOOSE x \in s : TRUE

\* part is the recursive function SumFunctionOnSet takes the sum from.
PartialSums(part, f, S) ==
    part = [s \in SUBSET S |-> IF s = {} THEN 0 ELSE f[Pick(s)] + part[s \ {Pick(s)}]]

PartialSumOf(f, S) == CHOOSE part : PartialSums(part, f, S)

\* A sum is a value of its recursive function.
LEMMA SumIsPartialSum == \A f, S : SumFunctionOnSet(f, S) = PartialSumOf(f, S)[S]
  BY DEF SumFunctionOnSet, FoldFunctionOnSet, MapThenFoldSet, PartialSums, PartialSumOf, Pick

\* A function of a finite set has finitely many values.
LEMMA FiniteValues == ASSUME NEW f, IsFiniteSet(DOMAIN f) PROVE IsFiniteSet({f[x] : x \in DOMAIN f})
  <1>1. [x \in DOMAIN f |-> f[x]] \in Surjection(DOMAIN f, {f[x] : x \in DOMAIN f})
    BY DEF Surjection
  <1> QED
    BY <1>1, FS_Surjection

\* A nonempty set of finite sets has one of which no proper subset is a member.
LEMMA LeastSet ==
    ASSUME NEW S, IsFiniteSet(S), NEW Sets, Sets \subseteq SUBSET S, Sets # {}
    PROVE  \E T \in Sets : \A U \in SUBSET T : U # T => U \notin Sets
  <1>1. IsWellFoundedOn(StrictSubsetOrdering(S), SUBSET S)
    BY FS_StrictSubsetOrderingWellFounded, FS_FiniteSubsetsOfFinite
  <1>2. PICK T \in Sets : \A U \in Sets : ~(<<U, T>> \in StrictSubsetOrdering(S))
    BY <1>1, WFMin
  <1> QED
    BY <1>2 DEF StrictSubsetOrdering

\* Two such functions agree on what both are defined for.
LEMMA PartialSumsAgree ==
    ASSUME NEW f, NEW S, NEW T, NEW g, NEW h, PartialSums(g, f, S), PartialSums(h, f, T),
           NEW U \in SUBSET (S \cap T), IsFiniteSet(U)
    PROVE  g[U] = h[U]
  <1> DEFINE Wrong == {V \in SUBSET U : g[V] # h[V]}
  <1>1. SUFFICES ASSUME Wrong # {} PROVE FALSE
    OBVIOUS
  <1>2. PICK V \in Wrong : \A W \in SUBSET V : W # V => W \notin Wrong
    <2>1. Wrong \subseteq SUBSET U
      OBVIOUS
    <2> HIDE DEF Wrong
    <2> QED
      BY <1>1, <2>1, LeastSet
  <1>3. V # {}
    BY DEF PartialSums
  <1>4. Pick(V) \in V
    BY <1>3 DEF Pick
  <1>5. g[V \ {Pick(V)}] = h[V \ {Pick(V)}]
    BY <1>2, <1>4
  <1>6. g[V] = f[Pick(V)] + g[V \ {Pick(V)}]
    BY <1>3 DEF PartialSums
  <1>7. h[V] = f[Pick(V)] + h[V \ {Pick(V)}]
    BY <1>3 DEF PartialSums
  <1> QED
    BY <1>5, <1>6, <1>7

\* There is one for every finite set.
LEMMA PartialSumsExist ==
    ASSUME NEW f, NEW S, IsFiniteSet(S)
    PROVE  \E part : PartialSums(part, f, S)
  <1> DEFINE Wrong == {T \in SUBSET S : ~ \E part : PartialSums(part, f, T)}
  <1>1. SUFFICES ASSUME Wrong # {} PROVE FALSE
    OBVIOUS
  <1>2. PICK T \in Wrong : \A U \in SUBSET T : U # T => U \notin Wrong
    <2>1. Wrong \subseteq SUBSET S
      OBVIOUS
    <2> HIDE DEF Wrong
    <2> QED
      BY <1>1, <2>1, LeastSet
  <1> DEFINE part == [s \in SUBSET T |-> IF s = {} THEN 0
                                         ELSE f[Pick(s)] + PartialSumOf(f, s \ {Pick(s)})[s \ {Pick(s)}]]
  <1>3. ASSUME NEW U \in SUBSET T, U # T
        PROVE  PartialSums(PartialSumOf(f, U), f, U)
    BY <1>2, <1>3 DEF PartialSumOf
  <1>4. ASSUME NEW U \in SUBSET T, U # T
        PROVE  part[U] = PartialSumOf(f, U)[U]
    <2>1. CASE U = {}
      BY <2>1, <1>3 DEF PartialSums
    <2>2. CASE U # {}
      <3> DEFINE V == U \ {Pick(U)}
      <3>1. Pick(U) \in U
        BY <2>2 DEF Pick
      <3>2. V \in SUBSET T /\ V # T /\ V \in SUBSET U
        BY <3>1
      <3>3. IsFiniteSet(V)
        BY <3>2, FS_Subset
      <3>4. PartialSums(PartialSumOf(f, U), f, U) /\ PartialSums(PartialSumOf(f, V), f, V)
        BY <1>3, <1>4, <3>2
      <3> HIDE DEF V
      <3>5. PartialSumOf(f, U)[V] = PartialSumOf(f, V)[V]
        BY <3>2, <3>3, <3>4, PartialSumsAgree
      <3>6. PartialSumOf(f, U)[U] = f[Pick(U)] + PartialSumOf(f, U)[V]
        BY <3>4, <2>2 DEF PartialSums, V
      <3>7. part[U] = f[Pick(U)] + PartialSumOf(f, V)[V]
        BY <2>2 DEF V
      <3> QED
        BY <3>5, <3>6, <3>7
    <2> QED
      BY <2>1, <2>2
  <1>5. PartialSums(part, f, T)
    <2>1. ASSUME NEW s \in SUBSET T, s # {}
          PROVE  part[s \ {Pick(s)}] = PartialSumOf(f, s \ {Pick(s)})[s \ {Pick(s)}]
      <3>1. Pick(s) \in s
        BY <2>1 DEF Pick
      <3> QED
        BY <3>1, <1>4
    <2>2. part = [s \in SUBSET T |-> IF s = {} THEN 0 ELSE f[Pick(s)] + part[s \ {Pick(s)}]]
      <3>1. \A s \in SUBSET T :
               part[s] = IF s = {} THEN 0 ELSE f[Pick(s)] + part[s \ {Pick(s)}]
        BY <2>1
      <3> QED
        BY <3>1
    <2> QED
      BY <2>2 DEF PartialSums
  <1> QED
    BY <1>2, <1>5

\* The sum over a set is what is picked first and the sum over the rest.
LEMMA SumPick ==
    ASSUME NEW f, NEW S, IsFiniteSet(S)
    PROVE  SumFunctionOnSet(f, S) =
              IF S = {} THEN 0 ELSE f[Pick(S)] + SumFunctionOnSet(f, S \ {Pick(S)})
  <1>1. PartialSums(PartialSumOf(f, S), f, S)
    BY PartialSumsExist DEF PartialSumOf
  <1>2. CASE S = {}
    BY <1>1, <1>2, SumIsPartialSum DEF PartialSums
  <1>3. CASE S # {}
    <2> DEFINE T == S \ {Pick(S)}
    <2>1. IsFiniteSet(T) /\ T \in SUBSET S
      BY FS_Subset
    <2>2. PartialSums(PartialSumOf(f, T), f, T)
      BY <2>1, PartialSumsExist DEF PartialSumOf
    <2>3. SumFunctionOnSet(f, S) = PartialSumOf(f, S)[S] /\ SumFunctionOnSet(f, T) = PartialSumOf(f, T)[T]
      BY SumIsPartialSum
    <2> HIDE DEF T
    <2>4. PartialSumOf(f, S)[T] = PartialSumOf(f, T)[T]
      BY <1>1, <2>1, <2>2, PartialSumsAgree
    <2>5. PartialSumOf(f, S)[S] = f[Pick(S)] + PartialSumOf(f, S)[T]
      BY <1>1, <1>3 DEF PartialSums, T
    <2> QED
      BY <1>3, <2>3, <2>4, <2>5 DEF T
  <1> QED
    BY <1>2, <1>3

\* Nothing adds up to zero.
LEMMA SumEmpty == \A f : SumFunctionOnSet(f, {}) = 0
  BY SumPick, FS_EmptySet

-----------------------------------------------------------------------------

\* A sum of amounts is an amount.
LEMMA SumNat ==
    ASSUME NEW f, NEW S, IsFiniteSet(S), \A x \in S : f[x] \in Nat
    PROVE  SumFunctionOnSet(f, S) \in Nat
  <1> DEFINE Wrong == {V \in SUBSET S : SumFunctionOnSet(f, V) \notin Nat}
  <1>1. SUFFICES ASSUME Wrong # {} PROVE FALSE
    OBVIOUS
  <1>2. PICK V \in Wrong : \A W \in SUBSET V : W # V => W \notin Wrong
    <2>1. Wrong \subseteq SUBSET S
      OBVIOUS
    <2> HIDE DEF Wrong
    <2> QED
      BY <1>1, <2>1, LeastSet
  <1>3. V \in SUBSET S /\ IsFiniteSet(V)
    BY FS_Subset
  <1>4. CASE V = {}
    <2>1. SumFunctionOnSet(f, V) = 0
      BY <1>4, SumEmpty
    <2> QED
      BY <2>1
  <1>5. CASE V # {}
    <2>1. Pick(V) \in V
      BY <1>5 DEF Pick
    <2>2. SumFunctionOnSet(f, V \ {Pick(V)}) \in Nat
      BY <1>2, <1>3, <2>1
    <2>3. f[Pick(V)] \in Nat
      BY <1>3, <2>1
    <2> QED
      BY <1>2, <1>3, <1>5, <2>2, <2>3, SumPick
  <1> QED
    BY <1>4, <1>5

\* The sum depends on the amounts over the set only.
LEMMA SumSame ==
    ASSUME NEW f, NEW g, NEW S, IsFiniteSet(S), \A x \in S : f[x] = g[x]
    PROVE  SumFunctionOnSet(f, S) = SumFunctionOnSet(g, S)
  <1> DEFINE Wrong == {V \in SUBSET S : SumFunctionOnSet(f, V) # SumFunctionOnSet(g, V)}
  <1>1. SUFFICES ASSUME Wrong # {} PROVE FALSE
    OBVIOUS
  <1>2. PICK V \in Wrong : \A W \in SUBSET V : W # V => W \notin Wrong
    <2>1. Wrong \subseteq SUBSET S
      OBVIOUS
    <2> HIDE DEF Wrong
    <2> QED
      BY <1>1, <2>1, LeastSet
  <1>3. V \in SUBSET S /\ IsFiniteSet(V)
    BY FS_Subset
  <1>4. CASE V = {}
    BY <1>2, <1>3, <1>4, SumPick
  <1>5. CASE V # {}
    <2>1. Pick(V) \in V
      BY <1>5 DEF Pick
    <2>2. SumFunctionOnSet(f, V \ {Pick(V)}) = SumFunctionOnSet(g, V \ {Pick(V)})
      BY <1>2, <1>3, <2>1
    <2>3. f[Pick(V)] = g[Pick(V)]
      BY <1>3, <2>1
    <2> QED
      BY <1>2, <1>3, <1>5, <2>2, <2>3, SumPick
  <1> QED
    BY <1>4, <1>5

\* Any element may be taken out first.
LEMMA SumWithout ==
    ASSUME NEW f, NEW S, IsFiniteSet(S), \A x \in S : f[x] \in Nat, NEW x \in S
    PROVE  SumFunctionOnSet(f, S) = f[x] + SumFunctionOnSet(f, S \ {x})
  <1> DEFINE right(V, y) == SumFunctionOnSet(f, V) = f[y] + SumFunctionOnSet(f, V \ {y})
             Wrong == {V \in SUBSET S : \E y \in V : ~right(V, y)}
  <1>1. SUFFICES ASSUME Wrong # {} PROVE FALSE
    OBVIOUS
  <1>2. PICK V \in Wrong : \A W \in SUBSET V : W # V => W \notin Wrong
    <2>1. Wrong \subseteq SUBSET S
      OBVIOUS
    <2> HIDE DEF Wrong
    <2> QED
      BY <1>1, <2>1, LeastSet
  <1>3. PICK y \in V : ~right(V, y)
    OBVIOUS
  <1> DEFINE p == Pick(V)
  <1>4. p \in V
    BY DEF Pick
  <1>5. /\ V \in SUBSET S /\ IsFiniteSet(V)
        /\ IsFiniteSet(V \ {p}) /\ IsFiniteSet(V \ {p, y})
    BY FS_Subset
  <1>6. right(V, p)
    BY <1>4, <1>5, SumPick
  <1>7. p # y
    BY <1>3, <1>6
  <1>8. right(V \ {p}, y)
    BY <1>2, <1>4, <1>5, <1>7
  <1>9. right(V \ {y}, p)
    BY <1>2, <1>4, <1>5, <1>7
  <1>10. (V \ {p}) \ {y} = V \ {p, y} /\ (V \ {y}) \ {p} = V \ {p, y}
    OBVIOUS
  <1> DEFINE rest == SumFunctionOnSet(f, V \ {p, y})
  <1>11. rest \in Nat /\ f[p] \in Nat /\ f[y] \in Nat
    BY <1>4, <1>5, SumNat
  <1>12. /\ SumFunctionOnSet(f, V) = f[p] + SumFunctionOnSet(f, V \ {p})
         /\ SumFunctionOnSet(f, V \ {p}) = f[y] + rest
         /\ SumFunctionOnSet(f, V \ {y}) = f[p] + rest
    BY <1>6, <1>8, <1>9, <1>10
  <1> HIDE DEF p, rest
  <1>13. right(V, y)
    BY <1>11, <1>12
  <1> QED
    BY <1>3, <1>13

-----------------------------------------------------------------------------

\* A new element adds its amount.
LEMMA SumWith ==
    ASSUME NEW f, NEW S, IsFiniteSet(S), NEW x, x \notin S, \A y \in S \cup {x} : f[y] \in Nat
    PROVE  SumFunctionOnSet(f, S \cup {x}) = f[x] + SumFunctionOnSet(f, S)
  <1>1. IsFiniteSet(S \cup {x}) /\ (S \cup {x}) \ {x} = S
    BY FS_AddElement
  <1> QED
    BY <1>1, SumWithout

\* No amount is above the sum.
LEMMA SumBound ==
    ASSUME NEW f, NEW S, IsFiniteSet(S), \A y \in S : f[y] \in Nat, NEW x \in S
    PROVE  f[x] <= SumFunctionOnSet(f, S)
  <1>1. SumFunctionOnSet(f, S \ {x}) \in Nat
    BY FS_Subset, SumNat
  <1>2. SumFunctionOnSet(f, S) = f[x] + SumFunctionOnSet(f, S \ {x}) /\ f[x] \in Nat
    BY SumWithout
  <1> QED
    BY <1>1, <1>2

\* Zeros add up to zero.
LEMMA SumZero ==
    ASSUME NEW f, NEW S, IsFiniteSet(S), \A x \in S : f[x] = 0
    PROVE  SumFunctionOnSet(f, S) = 0
  <1> DEFINE Wrong == {V \in SUBSET S : SumFunctionOnSet(f, V) # 0}
  <1>1. SUFFICES ASSUME Wrong # {} PROVE FALSE
    OBVIOUS
  <1>2. PICK V \in Wrong : \A W \in SUBSET V : W # V => W \notin Wrong
    <2>1. Wrong \subseteq SUBSET S
      OBVIOUS
    <2> HIDE DEF Wrong
    <2> QED
      BY <1>1, <2>1, LeastSet
  <1>3. V \in SUBSET S /\ IsFiniteSet(V) /\ V # {}
    BY FS_Subset, SumEmpty
  <1>4. Pick(V) \in V
    BY <1>3 DEF Pick
  <1>5. SumFunctionOnSet(f, V \ {Pick(V)}) = 0 /\ f[Pick(V)] = 0
    BY <1>2, <1>3, <1>4
  <1> QED
    BY <1>3, <1>5, SumPick

\* The sum over the rest, when nothing is missed.
LEMMA SumSubset ==
    ASSUME NEW f, NEW S, IsFiniteSet(S), \A x \in S : f[x] \in Nat, NEW T \in SUBSET S
    PROVE  SumFunctionOnSet(f, S) = SumFunctionOnSet(f, T) + SumFunctionOnSet(f, S \ T)
  <1> DEFINE right(V) == SumFunctionOnSet(f, S) = SumFunctionOnSet(f, V) + SumFunctionOnSet(f, S \ V)
             Wrong == {V \in SUBSET S : ~right(V)}
  <1>1. SUFFICES ASSUME Wrong # {} PROVE FALSE
    OBVIOUS
  <1>2. PICK V \in Wrong : \A W \in SUBSET V : W # V => W \notin Wrong
    <2>1. Wrong \subseteq SUBSET S
      OBVIOUS
    <2> HIDE DEF Wrong
    <2> QED
      BY <1>1, <2>1, LeastSet
  <1>3. V \in SUBSET S
    OBVIOUS
  <1>4. CASE V = {}
    <2>1. S \ V = S
      BY <1>4
    <2>2. SumFunctionOnSet(f, V) = 0 /\ SumFunctionOnSet(f, S) \in Nat
      BY <1>4, SumEmpty, SumNat
    <2> QED
      BY <2>1, <2>2
  <1>5. CASE V # {}
    <2> DEFINE p == Pick(V)
               W == V \ {p}
    <2>1. p \in V
      BY <1>5 DEF Pick
    <2>2. right(W)
      BY <1>2, <2>1
    <2>3. IsFiniteSet(V) /\ IsFiniteSet(W) /\ IsFiniteSet(S \ V) /\ IsFiniteSet(S \ W)
      BY <1>3, FS_Subset
    <2>4. (S \ W) \ {p} = S \ V /\ p \in S \ W
      BY <1>3, <2>1
    <2>5. /\ SumFunctionOnSet(f, V) = f[p] + SumFunctionOnSet(f, W)
          /\ SumFunctionOnSet(f, S \ W) = f[p] + SumFunctionOnSet(f, S \ V)
      BY <1>3, <2>1, <2>3, <2>4, SumWithout
    <2>6. /\ SumFunctionOnSet(f, V) \in Nat /\ SumFunctionOnSet(f, W) \in Nat
          /\ SumFunctionOnSet(f, S \ V) \in Nat /\ f[p] \in Nat
      BY <1>3, <2>1, <2>3, SumNat
    <2> HIDE DEF p, W
    <2> QED
      BY <2>2, <2>5, <2>6
  <1> QED
    BY <1>4, <1>5

\* The same amount for each.
LEMMA SumConstant ==
    ASSUME NEW f, NEW S, IsFiniteSet(S), NEW k \in Nat, \A x \in S : f[x] = k
    PROVE  SumFunctionOnSet(f, S) = Cardinality(S) * k
  <1> DEFINE Wrong == {V \in SUBSET S : SumFunctionOnSet(f, V) # Cardinality(V) * k}
  <1>1. SUFFICES ASSUME Wrong # {} PROVE FALSE
    OBVIOUS
  <1>2. PICK V \in Wrong : \A W \in SUBSET V : W # V => W \notin Wrong
    <2>1. Wrong \subseteq SUBSET S
      OBVIOUS
    <2> HIDE DEF Wrong
    <2> QED
      BY <1>1, <2>1, LeastSet
  <1>3. V \in SUBSET S /\ IsFiniteSet(V) /\ V # {}
    BY FS_Subset, SumEmpty, FS_EmptySet
  <1> DEFINE W == V \ {Pick(V)}
  <1>4. Pick(V) \in V
    BY <1>3 DEF Pick
  <1>5. SumFunctionOnSet(f, W) = Cardinality(W) * k /\ f[Pick(V)] = k
    BY <1>2, <1>3, <1>4
  <1>6. Cardinality(W) \in Nat /\ Cardinality(V) = Cardinality(W) + 1
    BY <1>3, <1>4, FS_RemoveElement, FS_CardinalityType, FS_Subset
  <1>7. SumFunctionOnSet(f, V) = k + SumFunctionOnSet(f, W)
    BY <1>3, <1>5, SumPick
  <1> HIDE DEF W
  <1>8. SumFunctionOnSet(f, V) = Cardinality(V) * k
    BY <1>5, <1>6, <1>7
  <1> QED
    BY <1>8

\* Sums of amounts that are at most as high are.
LEMMA SumMonotone ==
    ASSUME NEW f, NEW g, NEW S, IsFiniteSet(S),
           \A x \in S : f[x] \in Nat /\ g[x] \in Nat /\ f[x] <= g[x]
    PROVE  SumFunctionOnSet(f, S) <= SumFunctionOnSet(g, S)
  <1> DEFINE Wrong == {V \in SUBSET S : ~(SumFunctionOnSet(f, V) <= SumFunctionOnSet(g, V))}
  <1>1. SUFFICES ASSUME Wrong # {} PROVE FALSE
    OBVIOUS
  <1>2. PICK V \in Wrong : \A W \in SUBSET V : W # V => W \notin Wrong
    <2>1. Wrong \subseteq SUBSET S
      OBVIOUS
    <2> HIDE DEF Wrong
    <2> QED
      BY <1>1, <2>1, LeastSet
  <1>3. V \in SUBSET S /\ IsFiniteSet(V) /\ V # {}
    <2>1. SumFunctionOnSet(f, {}) <= SumFunctionOnSet(g, {})
      BY SumEmpty
    <2> QED
      BY <2>1, FS_Subset
  <1> DEFINE p == Pick(V)
             W == V \ {p}
  <1>4. p \in V
    BY <1>3 DEF Pick
  <1>5. SumFunctionOnSet(f, W) <= SumFunctionOnSet(g, W)
    BY <1>2, <1>3, <1>4
  <1>6. f[p] \in Nat /\ g[p] \in Nat /\ f[p] <= g[p]
    BY <1>3, <1>4
  <1>7. /\ SumFunctionOnSet(f, V) = f[p] + SumFunctionOnSet(f, W)
        /\ SumFunctionOnSet(g, V) = g[p] + SumFunctionOnSet(g, W)
    BY <1>3, SumPick
  <1>8. SumFunctionOnSet(f, W) \in Nat /\ SumFunctionOnSet(g, W) \in Nat
    BY <1>3, SumNat, FS_Subset
  <1> HIDE DEF p, W
  <1>9. SumFunctionOnSet(f, V) <= SumFunctionOnSet(g, V)
    BY <1>5, <1>6, <1>7, <1>8
  <1> QED
    BY <1>9

\* Disjoint sets are counted one by one.
LEMMA SumOfSizes ==
    ASSUME NEW D, IsFiniteSet(D), NEW part, \A d \in D : IsFiniteSet(part[d]),
           \A d, e \in D : d # e => part[d] \cap part[e] = {}
    PROVE  /\ IsFiniteSet(UNION {part[d] : d \in D})
           /\ SumFunctionOnSet([d \in D |-> Cardinality(part[d])], D)
                 = Cardinality(UNION {part[d] : d \in D})
  <1> DEFINE size == [d \in D |-> Cardinality(part[d])]
             all(V) == UNION {part[d] : d \in V}
             right(V) == IsFiniteSet(all(V)) /\ SumFunctionOnSet(size, V) = Cardinality(all(V))
             Wrong == {V \in SUBSET D : ~right(V)}
  <1>1. SUFFICES ASSUME Wrong # {} PROVE FALSE
    OBVIOUS
  <1>2. PICK V \in Wrong : \A W \in SUBSET V : W # V => W \notin Wrong
    <2>1. Wrong \subseteq SUBSET D
      OBVIOUS
    <2> HIDE DEF Wrong
    <2> QED
      BY <1>1, <2>1, LeastSet
  <1>3. V \in SUBSET D /\ IsFiniteSet(V)
    BY FS_Subset
  <1>4. CASE V = {}
    <2>1. all(V) = {}
      BY <1>4
    <2> QED
      BY <1>4, <2>1, SumEmpty, FS_EmptySet
  <1>5. CASE V # {}
    <2> DEFINE p == Pick(V)
               W == V \ {p}
    <2>1. p \in V /\ p \in D
      BY <1>3, <1>5 DEF Pick
    <2>2. right(W)
      BY <1>2, <2>1
    <2>3. all(V) = all(W) \cup part[p]
      BY <2>1
    <2>4. all(W) \cap part[p] = {}
      BY <1>3, <2>1
    <2>5. IsFiniteSet(part[p])
      BY <2>1
    <2>6. /\ IsFiniteSet(all(V))
          /\ Cardinality(all(V)) = Cardinality(all(W)) + Cardinality(part[p])
                                   - Cardinality(all(W) \cap part[p])
      <3> DEFINE A == all(W)
                 B == part[p]
                 C == all(V)
      <3>1. IsFiniteSet(A) /\ IsFiniteSet(B) /\ C = A \cup B
        BY <2>2, <2>3, <2>5
      <3> HIDE DEF A, B, C
      <3>2. IsFiniteSet(C) /\ Cardinality(C) = Cardinality(A) + Cardinality(B) - Cardinality(A \cap B)
        BY <3>1, FS_Union
      <3> QED
        BY <3>2 DEF A, B, C
    <2>7. Cardinality(all(W) \cap part[p]) = 0
      BY <2>4, FS_EmptySet
    <2>8. size[p] = Cardinality(part[p])
      BY <2>1
    <2>9. SumFunctionOnSet(size, V) = size[p] + SumFunctionOnSet(size, W)
      BY <1>3, <1>5, SumPick
    <2>10. Cardinality(all(W)) \in Nat /\ Cardinality(part[p]) \in Nat
      BY <2>2, <2>5, FS_CardinalityType
    <2>11. SumFunctionOnSet(size, W) = Cardinality(all(W))
      BY <2>2
    <2> HIDE DEF all, size, p, W
    <2>12. SumFunctionOnSet(size, V) = Cardinality(all(V))
      BY <2>6, <2>7, <2>8, <2>9, <2>10, <2>11
    <2> QED
      BY <2>6, <2>12
  <1> QED
    BY <1>4, <1>5

\* All amounts are multiplied by the same number.
LEMMA SumScaled ==
    ASSUME NEW f, NEW g, NEW S, IsFiniteSet(S), NEW k \in Nat,
           \A x \in S : f[x] \in Nat /\ g[x] = k * f[x]
    PROVE  SumFunctionOnSet(g, S) = k * SumFunctionOnSet(f, S)
  <1> DEFINE Wrong == {V \in SUBSET S : SumFunctionOnSet(g, V) # k * SumFunctionOnSet(f, V)}
  <1>1. SUFFICES ASSUME Wrong # {} PROVE FALSE
    OBVIOUS
  <1>2. PICK V \in Wrong : \A W \in SUBSET V : W # V => W \notin Wrong
    <2>1. Wrong \subseteq SUBSET S
      OBVIOUS
    <2> HIDE DEF Wrong
    <2> QED
      BY <1>1, <2>1, LeastSet
  <1>3. V \in SUBSET S /\ IsFiniteSet(V)
    BY FS_Subset
  <1>4. V # {}
    <2>1. SumFunctionOnSet(f, {}) = 0 /\ SumFunctionOnSet(g, {}) = 0
      BY SumEmpty
    <2>2. V \in Wrong /\ k * 0 = 0
      OBVIOUS
    <2> QED
      BY <2>1, <2>2
  <1> DEFINE p == Pick(V)
             of == SumFunctionOnSet(f, V \ {p})
  <1>5. p \in V /\ p \in S
    BY <1>3, <1>4 DEF Pick
  <1>6. SumFunctionOnSet(g, V \ {p}) = k * of
    BY <1>2, <1>5
  <1>7. SumFunctionOnSet(f, V) = f[p] + of /\ SumFunctionOnSet(g, V) = g[p] + k * of
    BY <1>3, <1>4, <1>6, SumPick
  <1>8. of \in Nat /\ f[p] \in Nat /\ g[p] = k * f[p]
    BY <1>3, <1>5, FS_Subset, SumNat
  <1> HIDE DEF of, p
  <1>9. g[p] + k * of = k * (f[p] + of)
    <2>1. ASSUME NEW a \in Nat, NEW b \in Nat PROVE k * a + k * b = k * (a + b)
      OBVIOUS
    <2> QED
      BY <1>8, <2>1
  <1> QED
    BY <1>2, <1>7, <1>9

\* Two amounts of each are summed at once.
LEMMA SumOfPairs ==
    ASSUME NEW f, NEW g, NEW h, NEW S, IsFiniteSet(S),
           \A x \in S : f[x] \in Nat /\ g[x] \in Nat /\ h[x] = f[x] + g[x]
    PROVE  SumFunctionOnSet(h, S) = SumFunctionOnSet(f, S) + SumFunctionOnSet(g, S)
  <1> DEFINE Wrong ==
          {V \in SUBSET S :
              SumFunctionOnSet(h, V) # SumFunctionOnSet(f, V) + SumFunctionOnSet(g, V)}
  <1>1. SUFFICES ASSUME Wrong # {} PROVE FALSE
    OBVIOUS
  <1>2. PICK V \in Wrong : \A W \in SUBSET V : W # V => W \notin Wrong
    <2>1. Wrong \subseteq SUBSET S
      OBVIOUS
    <2> HIDE DEF Wrong
    <2> QED
      BY <1>1, <2>1, LeastSet
  <1>3. V \in SUBSET S /\ IsFiniteSet(V)
    BY FS_Subset
  <1>4. V # {}
    <2>1. SUFFICES ASSUME V = {} PROVE FALSE
      OBVIOUS
    <2>2. /\ SumFunctionOnSet(f, V) = 0 /\ SumFunctionOnSet(g, V) = 0
          /\ SumFunctionOnSet(h, V) = 0
      BY <2>1, SumEmpty
    <2>3. SumFunctionOnSet(h, V) # SumFunctionOnSet(f, V) + SumFunctionOnSet(g, V)
      BY <1>2
    <2> QED
      BY <2>2, <2>3
  <1> DEFINE p == Pick(V)
             of == SumFunctionOnSet(f, V \ {p})
             og == SumFunctionOnSet(g, V \ {p})
  <1>5. p \in V /\ p \in S
    BY <1>3, <1>4 DEF Pick
  <1>6. SumFunctionOnSet(h, V \ {p}) = of + og
    BY <1>2, <1>5
  <1>7. /\ SumFunctionOnSet(f, V) = f[p] + of /\ SumFunctionOnSet(g, V) = g[p] + og
        /\ SumFunctionOnSet(h, V) = h[p] + (of + og)
    BY <1>3, <1>4, <1>6, SumPick
  <1>8. of \in Nat /\ og \in Nat
    BY <1>3, <1>5, FS_Subset, SumNat
  <1>9. f[p] \in Nat /\ g[p] \in Nat /\ h[p] = f[p] + g[p]
    BY <1>5
  <1> HIDE DEF of, og, p
  <1>10. h[p] + (of + og) = (f[p] + of) + (g[p] + og)
    BY <1>8, <1>9
  <1> QED
    BY <1>2, <1>7, <1>10

-----------------------------------------------------------------------------
(* Maps from things to amounts, of which a step changes one.               *)

\* f gives finitely many things an amount each.
Amounts(f) == IsFiniteSet(DOMAIN f) /\ \A x \in DOMAIN f : f[x] \in Nat

amount_at(f, x) == IF x \in DOMAIN f THEN f[x] ELSE 0

\* Their sum is an amount, and none is above it.
LEMMA SumOfAmounts ==
    ASSUME NEW f, Amounts(f)
    PROVE  /\ SumFunction(f) \in Nat
           /\ \A x : amount_at(f, x) \in Nat /\ amount_at(f, x) <= SumFunction(f)
  <1>1. SumFunction(f) \in Nat
    BY SumNat DEF Amounts, SumFunction
  <1>2. \A x \in DOMAIN f : f[x] <= SumFunction(f)
    BY SumBound DEF Amounts, SumFunction
  <1> QED
    BY <1>1, <1>2 DEF amount_at, Amounts

\* Something gets an amount, loses it, or has another one.
LEMMA SumChangedAt ==
    ASSUME NEW f, NEW g, Amounts(f), Amounts(g), NEW x, DOMAIN f \ {x} = DOMAIN g \ {x},
           \A y \in DOMAIN f \ {x} : f[y] = g[y]
    PROVE  SumFunction(g) + amount_at(f, x) = SumFunction(f) + amount_at(g, x)
  <1> DEFINE rest(h) == SumFunctionOnSet(h, DOMAIN h \ {x})
  <1>1. rest(f) = rest(g) /\ rest(f) \in Nat
    <2>1. IsFiniteSet(DOMAIN f \ {x}) /\ \A y \in DOMAIN f \ {x} : f[y] \in Nat
      BY FS_Subset DEF Amounts
    <2> QED
      BY <2>1, SumSame, SumNat
  <1>2. ASSUME NEW h, Amounts(h)
        PROVE  SumFunction(h) = amount_at(h, x) + rest(h)
    <2>1. CASE x \in DOMAIN h
      BY <1>2, <2>1, SumWithout DEF Amounts, amount_at, SumFunction
    <2>2. CASE x \notin DOMAIN h
      <3>1. DOMAIN h \ {x} = DOMAIN h
        BY <2>2
      <3>2. SumFunctionOnSet(h, DOMAIN h) \in Nat
        BY <1>2, SumNat DEF Amounts
      <3> QED
        BY <2>2, <3>1, <3>2 DEF amount_at, SumFunction
    <2> QED
      BY <2>1, <2>2
  <1>3. amount_at(f, x) \in Nat /\ amount_at(g, x) \in Nat
    BY DEF amount_at, Amounts
  <1>4. SumFunction(f) = amount_at(f, x) + rest(f) /\ SumFunction(g) = amount_at(g, x) + rest(g)
    BY <1>2
  <1> HIDE DEF rest
  <1> QED
    BY <1>1, <1>3, <1>4

\* Things without an amount join.
LEMMA SumExtended ==
    ASSUME NEW f, NEW g, Amounts(f), Amounts(g), DOMAIN f \subseteq DOMAIN g,
           \A x \in DOMAIN f : f[x] = g[x], \A x \in DOMAIN g \ DOMAIN f : g[x] = 0
    PROVE  SumFunction(g) = SumFunction(f)
  <1> DEFINE F == DOMAIN f
             G == DOMAIN g
  <1>1. SumFunctionOnSet(g, G) = SumFunctionOnSet(g, F) + SumFunctionOnSet(g, G \ F)
    BY SumSubset DEF Amounts
  <1>2. SumFunctionOnSet(g, G \ F) = 0
    <2>1. IsFiniteSet(G \ F)
      BY FS_Subset DEF Amounts
    <2> QED
      BY <2>1, SumZero
  <1>3. SumFunctionOnSet(g, F) = SumFunctionOnSet(f, F) /\ SumFunctionOnSet(f, F) \in Nat
    BY SumSame, SumNat DEF Amounts
  <1> QED
    BY <1>1, <1>2, <1>3 DEF SumFunction

\* A function with more arguments, each with the same amount, adds up to as
\* many of them more.
LEMMA SumGrown ==
    ASSUME NEW f, NEW g, Amounts(f), Amounts(g), DOMAIN f \subseteq DOMAIN g,
           \A x \in DOMAIN f : f[x] = g[x], NEW k \in Nat, \A x \in DOMAIN g \ DOMAIN f : g[x] = k
    PROVE  SumFunction(g) = SumFunction(f) + Cardinality(DOMAIN g \ DOMAIN f) * k
  <1>1. SumFunctionOnSet(g, DOMAIN g) =
            SumFunctionOnSet(g, DOMAIN f) + SumFunctionOnSet(g, DOMAIN g \ DOMAIN f)
    BY SumSubset DEF Amounts
  <1>2. SumFunctionOnSet(g, DOMAIN f) = SumFunctionOnSet(f, DOMAIN f)
    BY SumSame DEF Amounts
  <1>3. IsFiniteSet(DOMAIN g \ DOMAIN f)
    BY FS_Difference DEF Amounts
  <1>4. SumFunctionOnSet(g, DOMAIN g \ DOMAIN f) = Cardinality(DOMAIN g \ DOMAIN f) * k
    BY <1>3, SumConstant
  <1> QED
    BY <1>1, <1>2, <1>4 DEF SumFunction

\* Amounts that are added to others, one by one.
LEMMA SumAdded ==
    ASSUME NEW f, NEW g, NEW h, Amounts(f), Amounts(g), DOMAIN g = DOMAIN f, DOMAIN h = DOMAIN f,
           \A x \in DOMAIN f : h[x] = f[x] + g[x]
    PROVE  SumFunction(h) = SumFunction(f) + SumFunction(g)
  <1> DEFINE S == DOMAIN f
  <1>1. /\ IsFiniteSet(S)
        /\ \A x \in S : f[x] \in Nat /\ g[x] \in Nat /\ h[x] = f[x] + g[x]
    BY DEF Amounts
  <1> HIDE DEF S
  <1>2. SumFunctionOnSet(h, S) = SumFunctionOnSet(f, S) + SumFunctionOnSet(g, S)
    BY <1>1, SumOfPairs
  <1> QED
    BY <1>2 DEF SumFunction, S

\* A single amount.
LEMMA SumOfOne ==
    ASSUME NEW f, NEW x, DOMAIN f = {x}, f[x] \in Nat
    PROVE  SumFunction(f) = f[x]
  <1>1. Pick({x}) = x /\ {x} \ {x} = {} /\ {x} # {}
    BY DEF Pick
  <1> DEFINE S == {x}
  <1>2. IsFiniteSet(S) /\ S # {} /\ Pick(S) = x /\ S \ {x} = {}
    BY <1>1, FS_Singleton
  <1> HIDE DEF S
  <1>3. SumFunctionOnSet(f, S) = f[x] + SumFunctionOnSet(f, {})
    BY <1>2, SumPick
  <1> QED
    BY <1>3, SumEmpty DEF SumFunction, S

\* Amounts that go into other amounts one for one are not more than those.
LEMMA SumInjected ==
    ASSUME NEW f, Amounts(f), NEW g, Amounts(g), NEW into \in [DOMAIN f -> DOMAIN g],
           \A x, y \in DOMAIN f : into[x] = into[y] => x = y,
           \A x \in DOMAIN f : f[x] <= g[into[x]]
    PROVE  SumFunction(f) <= SumFunction(g)
  <1> DEFINE S == DOMAIN f
             image(V) == {into[x] : x \in V}
             Wrong == {V \in SUBSET S : ~(SumFunctionOnSet(f, V) <= SumFunctionOnSet(g, image(V)))}
  <1>1. Wrong = {}
    <2>1. SUFFICES ASSUME Wrong # {} PROVE FALSE
      OBVIOUS
    <2>2. PICK V \in Wrong : \A W \in SUBSET V : W # V => W \notin Wrong
      <3>1. Wrong \subseteq SUBSET S /\ IsFiniteSet(S)
        BY DEF Amounts
      <3> HIDE DEF Wrong
      <3> QED
        BY <2>1, <3>1, LeastSet
    <2>3. V \in SUBSET S /\ IsFiniteSet(V) /\ V # {}
      <3>1. SumFunctionOnSet(f, {}) = 0 /\ SumFunctionOnSet(g, {}) = 0 /\ image({}) = {}
        BY SumEmpty
      <3>2. SumFunctionOnSet(f, {}) <= SumFunctionOnSet(g, image({}))
        BY <3>1
      <3> QED
        BY <3>2, FS_Subset DEF Amounts
    <2> DEFINE p == Pick(V)
               W == V \ {p}
    <2>4. p \in V /\ p \in S
      BY <2>3 DEF Pick
    <2>5. SumFunctionOnSet(f, W) <= SumFunctionOnSet(g, image(W))
      BY <2>2, <2>3, <2>4
    <2>6. image(V) = image(W) \cup {into[p]} /\ into[p] \notin image(W)
      BY <2>3, <2>4
    <2>7. image(V) \subseteq DOMAIN g /\ into[p] \in DOMAIN g /\ image(W) \subseteq DOMAIN g
      BY <2>3, <2>4
    <2> HIDE DEF p, W, image, Wrong, S
    <2>8. SumFunctionOnSet(f, V) = f[p] + SumFunctionOnSet(f, W)
      BY <2>3, SumPick DEF p, W
    <2>9. W \subseteq V
      BY DEF W
    <2>10. IsFiniteSet(image(W)) /\ IsFiniteSet(W)
      BY <2>3, <2>7, <2>9, FS_Subset DEF Amounts
    <2>11. SumFunctionOnSet(g, image(V)) = g[into[p]] + SumFunctionOnSet(g, image(W))
      BY <2>6, <2>7, <2>10, SumWith DEF Amounts
    <2>12. f[p] \in Nat /\ g[into[p]] \in Nat /\ f[p] <= g[into[p]]
      BY <2>4, <2>7 DEF Amounts, S
    <2>13. SumFunctionOnSet(f, W) \in Nat /\ SumFunctionOnSet(g, image(W)) \in Nat
      BY <2>3, <2>7, <2>9, <2>10, SumNat DEF Amounts, S
    <2>14. SumFunctionOnSet(f, V) <= SumFunctionOnSet(g, image(V))
      BY <2>5, <2>8, <2>11, <2>12, <2>13
    <2> QED
      BY <2>2, <2>14 DEF Wrong
  <1>2. S \in SUBSET S /\ image(S) \in SUBSET DOMAIN g
    OBVIOUS
  <1>3. SumFunctionOnSet(f, S) <= SumFunctionOnSet(g, image(S))
    BY <1>1, <1>2
  <1> HIDE DEF image, Wrong
  <1>4. SumFunctionOnSet(g, DOMAIN g) =
           SumFunctionOnSet(g, image(S)) + SumFunctionOnSet(g, DOMAIN g \ image(S))
    BY <1>2, SumSubset DEF Amounts
  <1>5. /\ SumFunctionOnSet(f, S) \in Nat /\ SumFunctionOnSet(g, image(S)) \in Nat
        /\ SumFunctionOnSet(g, DOMAIN g \ image(S)) \in Nat
    BY <1>2, SumNat, FS_Subset DEF Amounts
  <1> QED
    BY <1>3, <1>4, <1>5 DEF SumFunction

-----------------------------------------------------------------------------
(* Folds over sequences.                                                   *)

\* A nonempty set of numbers has a least one.
LEMMA LeastNumber ==
    ASSUME NEW W \in SUBSET Nat, W # {}
    PROVE  \E n \in W : \A k \in 0 .. n - 1 : k \notin W
  <1>0. W \subseteq Nat
    OBVIOUS
  <1>1. PICK n \in W : \A k \in W : ~(<<k, n>> \in OpToRel(<, Nat))
    BY NatLessThanWellFounded, WFMin
  <1>2. \A k \in W : ~(k < n)
    BY <1>1 DEF OpToRel
  <1>3. n \in Nat
    BY <1>0
  <1>4. \A k \in 0 .. n - 1 : k < n
    BY <1>3
  <1> QED
    BY <1>2, <1>4

\* A nonempty set of numbers with a bound has a greatest one.
LEMMA GreatestNumber ==
    ASSUME NEW n \in Nat, NEW V \in SUBSET (1 .. n), V # {}
    PROVE  \E m \in V : \A k \in V : k <= m
  <1> DEFINE W == {n - k : k \in V}
  <1>1. W \in SUBSET Nat /\ W # {}
    <2>1. \A k \in V : n - k \in Nat
      OBVIOUS
    <2>2. W \subseteq Nat
      BY <2>1
    <2>3. PICK k : k \in V
      OBVIOUS
    <2>4. n - k \in W
      BY <2>3
    <2> HIDE DEF W
    <2> QED
      BY <2>2, <2>4
  <1>2. PICK w \in W : \A k \in 0 .. w - 1 : k \notin W
    <2> HIDE DEF W
    <2> QED
      BY <1>1, LeastNumber
  <1>3. PICK m \in V : w = n - m
    OBVIOUS
  <1>4. ASSUME NEW k \in V, k > m PROVE FALSE
    <2>1. n - k \in 0 .. w - 1 /\ n - k \in W
      BY <1>3, <1>4
    <2> QED
      BY <1>2, <2>1
  <1> QED
    BY <1>4

\* Folding from the left is a recursive function.
Folds(f, step, base, seq) ==
    f = [V \in SUBSET DOMAIN seq |->
            IF V = {} THEN base ELSE step[<<f[V \ {Max(V)}], seq[Max(V)]>>]]

\* A set of numbers up to n + 1 that has n + 1, and what is below.
LEMMA MaxOfPrefix ==
    ASSUME NEW n \in Nat, NEW V \in SUBSET (1 .. n + 1), n + 1 \in V
    PROVE  Max(V) = n + 1 /\ V \ {n + 1} \in SUBSET (1 .. n)
  <1>2. \A k \in V : n + 1 >= k
    OBVIOUS
  <1>3. \A m \in V : (\A k \in V : m >= k) => m = n + 1
    <2>1. \A m \in V : m \in Nat /\ m <= n + 1
      OBVIOUS
    <2> QED
      BY <2>1
  <1>4. Max(V) = n + 1
    BY <1>2, <1>3 DEF Max
  <1>5. V \ {n + 1} \subseteq 1 .. n
    OBVIOUS
  <1> QED
    BY <1>4, <1>5

\* It exists.
LEMMA FoldExists ==
    ASSUME NEW A, NEW S, NEW seq \in Seq(S), NEW base \in A, NEW step \in [A \X S -> A]
    PROVE  \E f \in [SUBSET DOMAIN seq -> A] : Folds(f, step, base, seq)
  <1> DEFINE right(n, f) ==
                /\ f \in [SUBSET (1 .. n) -> A]
                /\ \A V \in SUBSET (1 .. n) :
                      f[V] = IF V = {} THEN base ELSE step[<<f[V \ {Max(V)}], seq[Max(V)]>>]
             Wrong == {n \in 0 .. Len(seq) : ~\E f : right(n, f)}
  <1>1. Len(seq) \in Nat /\ DOMAIN seq = 1 .. Len(seq) /\ \A i \in 1 .. Len(seq) : seq[i] \in S
    BY LenProperties
  <1>2. ASSUME Wrong # {} PROVE FALSE
    <2>1. PICK n \in Wrong : \A k \in 0 .. n - 1 : k \notin Wrong
      <3>1. Wrong \in SUBSET Nat
        BY <1>1
      <3> HIDE DEF Wrong
      <3> QED
        BY <1>2, <3>1, LeastNumber
    <2>2. n \in 0 .. Len(seq) /\ ~\E f : right(n, f)
      OBVIOUS
    <2>3. n # 0
      <3>1. SUBSET (1 .. 0) = {{}}
        OBVIOUS
      <3>2. right(0, [V \in {{}} |-> base])
        BY <3>1
      <3> QED
        BY <2>2, <3>2
    <2>4. n - 1 \in 0 .. Len(seq) /\ n - 1 \in 0 .. n - 1 /\ n = (n - 1) + 1 /\ n - 1 \in Nat
      BY <1>1, <2>2, <2>3
    <2>5. PICK f : right(n - 1, f)
      BY <2>1, <2>4
    <2> DEFINE g == [V \in SUBSET (1 .. n) |->
                        IF n \in V THEN step[<<f[V \ {n}], seq[n]>>] ELSE f[V]]
    <2>6. ASSUME NEW V \in SUBSET (1 .. n), n \in V
          PROVE  Max(V) = n /\ V \ {n} \in SUBSET (1 .. n - 1) /\ V \ {n} \in SUBSET (1 .. n)
      BY <2>4, <2>6, MaxOfPrefix
    <2>7. ASSUME NEW V \in SUBSET (1 .. n), n \notin V
          PROVE  V \in SUBSET (1 .. n - 1)
      BY <2>4, <2>7
    <2>8. seq[n] \in S
      BY <1>1, <2>2, <2>3
    <2>9. ASSUME NEW V \in SUBSET (1 .. n)
          PROVE  g[V] \in A
      BY <2>5, <2>6, <2>7, <2>8
    <2>10. ASSUME NEW V \in SUBSET (1 .. n)
           PROVE  g[V] = IF V = {} THEN base ELSE step[<<g[V \ {Max(V)}], seq[Max(V)]>>]
      <3>1. CASE n \in V
        <4>1. g[V] = step[<<f[V \ {n}], seq[n]>>] /\ Max(V) = n /\ V # {}
          BY <2>6, <3>1
        <4>2. g[V \ {n}] = f[V \ {n}]
          BY <2>6, <3>1
        <4> HIDE DEF g
        <4> QED
          BY <4>1, <4>2
      <3>2. CASE n \notin V
        <4>1. g[V] = f[V] /\ V \in SUBSET (1 .. n - 1)
          BY <2>7, <3>2
        <4>2. f[V] = IF V = {} THEN base ELSE step[<<f[V \ {Max(V)}], seq[Max(V)]>>]
          BY <2>5, <4>1
        <4>3. g[V \ {Max(V)}] = f[V \ {Max(V)}]
          BY <3>2
        <4> HIDE DEF g
        <4> QED
          BY <4>1, <4>2, <4>3
      <3> QED
        BY <3>1, <3>2
    <2>11. g \in [SUBSET (1 .. n) -> A]
      BY <2>9
    <2>12. right(n, g)
      BY <2>10, <2>11
    <2> HIDE DEF right
    <2> QED
      BY <2>2, <2>12
  <1>3. PICK f : right(Len(seq), f)
    <2>1. Len(seq) \in 0 .. Len(seq)
      BY <1>1
    <2>2. Wrong = {}
      BY <1>2
    <2> HIDE DEF right
    <2> QED
      BY <2>1, <2>2
  <1> QED
    BY <1>1, <1>3 DEF Folds

\* The greatest of some numbers of a sequence is one of them.
LEMMA MaxOfSome ==
    ASSUME NEW S, NEW seq \in Seq(S), NEW V \in SUBSET DOMAIN seq, V # {}
    PROVE  Max(V) \in V
  <1>1. Len(seq) \in Nat /\ DOMAIN seq = 1 .. Len(seq)
    BY LenProperties
  <1>2. PICK m \in V : \A k \in V : k <= m
    BY <1>1, GreatestNumber
  <1> QED
    BY <1>2 DEF Max

\* fold is a fold of step as long as it stays in A.
FoldsWithin(A, fold, step, base, seq) ==
    /\ fold[{}] = base
    /\ \A V \in SUBSET DOMAIN seq : V # {} /\ fold[V \ {Max(V)}] \in A =>
          fold[V] = step[<<fold[V \ {Max(V)}], seq[Max(V)]>>]

OneByOne(fold, step, seq) ==
    \A k \in 1 .. Len(seq) : fold[1 .. k] = step[<<fold[1 .. k - 1], seq[k]>>]

\* A fold whose steps stay within a set stays within it, and takes the
\* elements one by one.
LEMMA FoldStays ==
    ASSUME NEW A, NEW S, NEW seq \in Seq(S), NEW base \in A, NEW step \in [A \X S -> A],
           NEW fold, FoldsWithin(A, fold, step, base, seq)
    PROVE  /\ \A k \in 0 .. Len(seq) : fold[1 .. k] \in A
           /\ OneByOne(fold, step, seq)
  <1> DEFINE right(k) == fold[1 .. k] \in A
             Wrong == {k \in 0 .. Len(seq) : ~right(k)}
  <1>1. Len(seq) \in Nat /\ DOMAIN seq = 1 .. Len(seq) /\ \A i \in 1 .. Len(seq) : seq[i] \in S
    BY LenProperties
  <1>2. ASSUME NEW k \in 1 .. Len(seq), right(k - 1)
        PROVE  fold[1 .. k] = step[<<fold[1 .. k - 1], seq[k]>>]
    <2>1. PICK l \in Nat : k = l + 1
      <3>1. k - 1 \in Nat /\ k = (k - 1) + 1
        BY <1>1
      <3> QED
        BY <3>1
    <2>2. Max(1 .. l + 1) = l + 1
      <3>1. 1 .. l + 1 \in SUBSET (1 .. l + 1) /\ l + 1 \in 1 .. l + 1
        OBVIOUS
      <3> QED
        BY <3>1, MaxOfPrefix
    <2>3. Max(1 .. k) = k
      BY <2>1, <2>2
    <2>4. 1 .. k # {} /\ 1 .. k \in SUBSET DOMAIN seq
      <3>1. k \in 1 .. k
        BY <2>1
      <3>2. \A j \in 1 .. k : j \in 1 .. Len(seq)
        BY <1>1
      <3> QED
        BY <1>1, <3>1, <3>2
    <2>5. \A j : j \in (1 .. k) \ {k} <=> j \in 1 .. k - 1
      BY <2>1
    <2>6. (1 .. k) \ {k} = 1 .. k - 1
      BY <2>5
    <2> QED
      BY <1>2, <2>3, <2>4, <2>6 DEF FoldsWithin
  <1>3. right(0)
    <2>1. 1 .. 0 = {}
      OBVIOUS
    <2> QED
      BY <2>1 DEF FoldsWithin
  <1>4. Wrong = {}
    <2>1. SUFFICES ASSUME Wrong # {} PROVE FALSE
      OBVIOUS
    <2>2. PICK k \in Wrong : \A j \in 0 .. k - 1 : j \notin Wrong
      <3>1. Wrong \in SUBSET Nat
        BY <1>1
      <3> HIDE DEF Wrong
      <3> QED
        BY <2>1, <3>1, LeastNumber
    <2>3. k \in 0 .. Len(seq) /\ ~right(k)
      OBVIOUS
    <2> HIDE DEF right
    <2>4. k \in 1 .. Len(seq) /\ k - 1 \in 0 .. Len(seq) /\ k - 1 \in 0 .. k - 1
      BY <1>1, <1>3, <2>3
    <2>5. right(k - 1)
      BY <2>2, <2>4
    <2>6. seq[k] \in S
      BY <1>1, <2>4
    <2>7. fold[1 .. k] \in A
      <3>1. fold[1 .. k] = step[<<fold[1 .. k - 1], seq[k]>>]
        BY <1>2, <2>4, <2>5
      <3> QED
        BY <2>5, <2>6, <3>1 DEF right
    <2> QED
      BY <2>3, <2>7 DEF right
  <1>5. \A k \in 0 .. Len(seq) : right(k)
    <2> HIDE DEF right
    <2> QED
      BY <1>4
  <1>6. \A k \in 1 .. Len(seq) : k - 1 \in 0 .. Len(seq)
    BY <1>1
  <1>7. \A k \in 1 .. Len(seq) : fold[1 .. k] = step[<<fold[1 .. k - 1], seq[k]>>]
    BY <1>2, <1>5, <1>6
  <1> QED
    BY <1>5, <1>7 DEF OneByOne
=============================================================================
