------------------------------ MODULE AmountsProofs ------------------------------
(***************************************************************************)
(* The amounts of an order, for any listings, prices, tariffs, quantities  *)
(* and vouchers.  The sums over lines, items and sources come first: the   *)
(* library states no theorem about them.  The fee covers the gateway's cut *)
(* for whatever amounts: the rates are four constants, so that the         *)
(* arithmetic is linear once the method is known.  The invariant AInv is   *)
(* what the runs check of an order, with its types: only createOrder       *)
(* stores one.                                                             *)
(***************************************************************************)
EXTENDS Amounts, FiniteSetTheorems, WellFoundedInduction, TLAPS

-----------------------------------------------------------------------------
(* Sums.  A sum is defined by an iterator over subsets, which takes one    *)
(* element after the other in an order of its own.                         *)

Pick(s) == CHOOSE x \in s : TRUE

\* it sums g over each subset of S
Sums(g, S, it) ==
  it = [s \in SUBSET S |-> IF s = {} THEN 0 ELSE g[Pick(s)] + it[s \ {Pick(s)}]]

\* A set of natural numbers that holds 0 and the successor of each of its members holds them all.
LEMMA Successors ==
  ASSUME NEW A \in SUBSET Nat, 0 \in A, \A n \in A : n + 1 \in A
  PROVE  A = Nat
<1> SUFFICES ASSUME Nat \ A # {} PROVE FALSE
  OBVIOUS
<1> DEFINE T == Nat \ A
<1>1. \E n \in T : \A m \in T : ~(m < n)
  <2>1. T \subseteq Nat /\ T # {}
    OBVIOUS
  <2> HIDE DEF T
  <2>2. \E n \in T : \A m \in T : <<m, n>> \notin OpToRel(<, Nat)
    BY <2>1, NatLessThanWellFounded, WFMin
  <2> QED BY <2>1, <2>2 DEF OpToRel
<1>2. PICK n \in T : \A m \in T : ~(m < n)
  BY <1>1
<1>3. n # 0 /\ n - 1 \in Nat /\ n - 1 < n /\ (n - 1) + 1 = n
  BY <1>2
<1>4. n - 1 \in A
  BY <1>2, <1>3
<1> QED BY <1>2, <1>3, <1>4

\* Of the finite sets that a set holds, one has no other below it.
LEMMA SmallestSet ==
  ASSUME NEW S, IsFiniteSet(S), NEW B, B \subseteq SUBSET S, B # {}
  PROVE  \E s \in B : \A t \in B : t \subseteq s => t = s
<1>1. B \subseteq FiniteSubsetsOf(S)
  BY FS_Subset DEF FiniteSubsetsOf
<1>2. PICK s \in B : \A t \in B : <<t, s>> \notin StrictSubsetOrdering(S)
  BY <1>1, FS_StrictSubsetOrderingWellFounded, WFMin
<1>3. \A t \in B : t \subseteq s => t = s
  BY <1>2 DEF StrictSubsetOrdering
<1> QED BY <1>3

\* There is such an iterator.
LEMMA SumsExist ==
  ASSUME NEW g, NEW S, IsFiniteSet(S), \A x \in S : g[x] \in Int
  PROVE  \E it : Sums(g, S, it)
<1> DEFINE Up(n, it) ==
             \A s \in SUBSET S : Cardinality(s) <= n =>
               it[s] = IF s = {} THEN 0 ELSE g[Pick(s)] + it[s \ {Pick(s)}]
           A == {n \in Nat : \E it \in [SUBSET S -> Int] : Up(n, it)}
<1>00. \A s \in SUBSET S : IsFiniteSet(s) /\ Cardinality(s) \in Nat
  BY FS_Subset, FS_CardinalityType
<1>0. \A s \in SUBSET S :
        /\ IsFiniteSet(s) /\ Cardinality(s) \in Nat
        /\ s # {} => /\ Pick(s) \in s /\ s \ {Pick(s)} \in SUBSET S
                     /\ Cardinality(s \ {Pick(s)}) = Cardinality(s) - 1
  BY FS_Subset, FS_CardinalityType, FS_RemoveElement DEF Pick
<1>1. 0 \in A
  <2> DEFINE it == [s \in SUBSET S |-> 0]
  <2>1. it \in [SUBSET S -> Int]
    OBVIOUS
  <2>2. ASSUME NEW s \in SUBSET S, Cardinality(s) <= 0 PROVE s = {}
    <3>1. IsFiniteSet(s) /\ Cardinality(s) = 0
      BY <1>00, <2>2
    <3> QED BY <3>1, FS_EmptySet
  <2>3. Up(0, it)
    BY <2>2
  <2> QED BY <2>1, <2>3
<1>2. ASSUME NEW n \in A PROVE n + 1 \in A
  <2>1. PICK it \in [SUBSET S -> Int] : Up(n, it)
    OBVIOUS
  <2> DEFINE next == [s \in SUBSET S |-> IF s = {} THEN 0 ELSE g[Pick(s)] + it[s \ {Pick(s)}]]
  <2>2. next \in [SUBSET S -> Int]
    <3> SUFFICES ASSUME NEW s \in SUBSET S, s # {} PROVE g[Pick(s)] + it[s \ {Pick(s)}] \in Int
      OBVIOUS
    <3>1. g[Pick(s)] \in Int /\ it[s \ {Pick(s)}] \in Int
      BY <1>0, <2>1
    <3> QED BY <3>1
  <2>3. ASSUME NEW s \in SUBSET S, Cardinality(s) <= n + 1, s # {}
        PROVE  next[s] = g[Pick(s)] + next[s \ {Pick(s)}]
    <3>1. Cardinality(s \ {Pick(s)}) <= n /\ s \ {Pick(s)} \in SUBSET S
      BY <1>0, <2>3
    <3>2. it[s \ {Pick(s)}] = next[s \ {Pick(s)}]
      BY <2>1, <3>1
    <3> QED BY <2>3, <3>2
  <2>4. Up(n + 1, next)
    <3>1. next[{}] = 0
      OBVIOUS
    <3> HIDE DEF next
    <3> QED BY <2>3, <3>1
  <2> HIDE DEF next, Up
  <2>5. n + 1 \in Nat
    OBVIOUS
  <2> QED BY <2>2, <2>4, <2>5
<1>3. A = Nat
  <2> HIDE DEF Up
  <2>1. A \in SUBSET Nat
    OBVIOUS
  <2> HIDE DEF A
  <2> QED BY <1>1, <1>2, <2>1, Successors
<1>4. PICK it \in [SUBSET S -> Int] : Up(Cardinality(S), it)
  BY <1>3, <1>0
<1>5. \A s \in SUBSET S : Cardinality(s) <= Cardinality(S)
  BY FS_Subset
<1>6. it = [s \in SUBSET S |-> IF s = {} THEN 0 ELSE g[Pick(s)] + it[s \ {Pick(s)}]]
  BY <1>4, <1>5
<1> QED BY <1>6 DEF Sums

\* A sum is what an iterator makes of the whole set.
LEMMA SumIterated ==
  ASSUME NEW g, NEW S, IsFiniteSet(S), \A x \in S : g[x] \in Int
  PROVE  \E it : Sums(g, S, it) /\ SumFunctionOnSet(g, S) = it[S]
<1> DEFINE it == CHOOSE it : Sums(g, S, it)
<1>1. Sums(g, S, it)
  BY SumsExist
<1>2. SumFunctionOnSet(g, S) = it[S]
  BY DEF SumFunctionOnSet, FoldFunctionOnSet, MapThenFoldSet, Sums, Pick
<1> QED BY <1>1, <1>2

\* Two iterators agree on the sets that both are for and on which their functions agree.
LEMMA IteratorsAgree ==
  ASSUME NEW S, IsFiniteSet(S), NEW g1, NEW g2, NEW S1, NEW S2, S \subseteq S1, S \subseteq S2,
         \A x \in S : g1[x] = g2[x],
         NEW it1, Sums(g1, S1, it1), NEW it2, Sums(g2, S2, it2)
  PROVE  it1[S] = it2[S]
<1> DEFINE B == {s \in SUBSET S : it1[s] # it2[s]}
<1> SUFFICES ASSUME B # {} PROVE FALSE
  OBVIOUS
<1>1. PICK s \in B : \A t \in B : t \subseteq s => t = s
  <2>1. B \subseteq SUBSET S
    OBVIOUS
  <2> HIDE DEF B
  <2> QED BY <2>1, SmallestSet
<1>2. s \in SUBSET S1 /\ s \in SUBSET S2
  OBVIOUS
<1>3. /\ it1[s] = IF s = {} THEN 0 ELSE g1[Pick(s)] + it1[s \ {Pick(s)}]
      /\ it2[s] = IF s = {} THEN 0 ELSE g2[Pick(s)] + it2[s \ {Pick(s)}]
  BY <1>2 DEF Sums
<1>4. s # {}
  BY <1>3
<1>5. Pick(s) \in s /\ g1[Pick(s)] = g2[Pick(s)]
  BY <1>4 DEF Pick
<1>6. it1[s \ {Pick(s)}] = it2[s \ {Pick(s)}]
  BY <1>1, <1>5
<1> QED BY <1>3, <1>5, <1>6

\* What an iterator makes of a set does not depend on what it takes first.
LEMMA AnyFirst ==
  ASSUME NEW S, IsFiniteSet(S), NEW g, \A x \in S : g[x] \in Int, NEW it, Sums(g, S, it)
  PROVE  it[S] \in Int /\ \A y \in S : it[S] = g[y] + it[S \ {y}]
<1> DEFINE B == {s \in SUBSET S : ~(it[s] \in Int /\ \A x \in s : it[s] = g[x] + it[s \ {x}])}
<1> SUFFICES ASSUME B # {} PROVE FALSE
  OBVIOUS
<1>1. PICK s \in B : \A t \in B : t \subseteq s => t = s
  <2>1. B \subseteq SUBSET S
    OBVIOUS
  <2> HIDE DEF B
  <2> QED BY <2>1, SmallestSet
<1>2. it[s] = IF s = {} THEN 0 ELSE g[Pick(s)] + it[s \ {Pick(s)}]
  BY DEF Sums
<1>3. s # {}
  BY <1>1, <1>2
<1> DEFINE p == Pick(s)
<1>4. p \in s
  BY <1>3 DEF Pick
<1> HIDE DEF p
<1>5. \A x \in s : \A t \in SUBSET (s \ {x}) :
        it[t] \in Int /\ \A y \in t : it[t] = g[y] + it[t \ {y}]
  <2> SUFFICES ASSUME NEW x \in s, NEW t \in SUBSET (s \ {x})
               PROVE  it[t] \in Int /\ \A y \in t : it[t] = g[y] + it[t \ {y}]
    OBVIOUS
  <2>1. t \notin B /\ t \in SUBSET S
    BY <1>1
  <2> QED BY <2>1
<1>5a. it[s] \notin Int \/ \E x \in s : it[s] # g[x] + it[s \ {x}]
  OBVIOUS
<1>5b. s \subseteq S
  OBVIOUS
<1> HIDE DEF B
<1>6. it[s] = g[p] + it[s \ {p}] /\ g[p] \in Int /\ it[s \ {p}] \in Int
  BY <1>2, <1>3, <1>4, <1>5, <1>5b DEF p
<1>7. ASSUME NEW x \in s PROVE it[s] = g[x] + it[s \ {x}]
  <2>1. CASE x = p
    BY <1>6, <2>1
  <2>2. CASE x # p
    <3> DEFINE r == (s \ {p}) \ {x}
    <3>1. it[s \ {p}] = g[x] + it[r]
      BY <1>4, <1>5, <2>2
    <3>2. it[s \ {x}] = g[p] + it[(s \ {x}) \ {p}] /\ (s \ {x}) \ {p} = r
      BY <1>4, <1>5, <2>2
    <3>3. it[r] \in Int
      BY <1>4, <1>5
    <3>4. g[x] \in Int
      BY <1>5b
    <3> HIDE DEF r
    <3>5. it[s] = g[p] + (g[x] + it[r]) /\ it[s \ {x}] = g[p] + it[r]
      BY <1>6, <3>1, <3>2
    <3> QED BY <1>6, <3>3, <3>4, <3>5
  <2> QED BY <2>1, <2>2
<1>8. it[s] \in Int
  BY <1>6
<1> QED BY <1>5a, <1>7, <1>8

\* The sum of nothing.
LEMMA SumEmpty == \A g : SumFunctionOnSet(g, {}) = 0
<1> TAKE g
<1>1. PICK it : Sums(g, {}, it) /\ SumFunctionOnSet(g, {}) = it[{}]
  BY SumIterated, FS_EmptySet
<1> QED BY <1>1 DEF Sums

\* A sum is a number; an element can be taken out of it first.
LEMMA SumOut ==
  ASSUME NEW S, IsFiniteSet(S), NEW g, \A x \in S : g[x] \in Int
  PROVE  /\ SumFunctionOnSet(g, S) \in Int
         /\ \A x \in S : SumFunctionOnSet(g, S) = g[x] + SumFunctionOnSet(g, S \ {x})
<1>2. PICK it : Sums(g, S, it) /\ SumFunctionOnSet(g, S) = it[S]
  BY SumIterated
<1>3. ASSUME NEW x \in S PROVE SumFunctionOnSet(g, S \ {x}) = it[S \ {x}]
  <2>1. IsFiniteSet(S \ {x})
    BY FS_RemoveElement
  <2>2. PICK less : Sums(g, S \ {x}, less) /\ SumFunctionOnSet(g, S \ {x}) = less[S \ {x}]
    BY <2>1, SumIterated
  <2> QED BY <1>2, <2>1, <2>2, IteratorsAgree
<1>4. SumFunctionOnSet(g, S) \in Int
  BY <1>2, AnyFirst
<1>5. ASSUME NEW x \in S PROVE SumFunctionOnSet(g, S) = g[x] + SumFunctionOnSet(g, S \ {x})
  <2>1. it[S] = g[x] + it[S \ {x}]
    <3>1. Sums(g, S, it) /\ g[x] \in Int
      BY <1>2
    <3>2. \A y \in S : it[S] = g[y] + it[S \ {y}]
      BY <3>1, AnyFirst
    <3> QED BY <3>2
  <2> QED BY <1>2, <1>3, <2>1
<1> QED BY <1>4, <1>5

\* Only the values on the set count.
LEMMA SumSame ==
  ASSUME NEW S, IsFiniteSet(S), NEW f, NEW g, \A x \in S : f[x] \in Int /\ f[x] = g[x]
  PROVE  SumFunctionOnSet(f, S) = SumFunctionOnSet(g, S)
<1>1. PICK it1 : Sums(f, S, it1) /\ SumFunctionOnSet(f, S) = it1[S]
  BY SumIterated
<1>2. PICK it2 : Sums(g, S, it2) /\ SumFunctionOnSet(g, S) = it2[S]
  BY SumIterated
<1> QED BY <1>1, <1>2, IteratorsAgree

\* An element taken out of a sum, as a fact about three numbers.
LEMMA SumSplit ==
  ASSUME NEW S, IsFiniteSet(S), NEW g, \A x \in S : g[x] \in Int, NEW y \in S
  PROVE  /\ IsFiniteSet(S \ {y}) /\ g[y] \in Int /\ SumFunctionOnSet(g, S \ {y}) \in Int
         /\ SumFunctionOnSet(g, S) = g[y] + SumFunctionOnSet(g, S \ {y})
<1>1. IsFiniteSet(S \ {y}) /\ g[y] \in Int
  BY FS_RemoveElement
<1>2. SumFunctionOnSet(g, S \ {y}) \in Int
  BY <1>1, SumOut
<1>3. \A x \in S : SumFunctionOnSet(g, S) = g[x] + SumFunctionOnSet(g, S \ {x})
  BY SumOut
<1> QED BY <1>1, <1>2, <1>3

\* The sum of sums.
LEMMA SumAdd ==
  ASSUME NEW S, IsFiniteSet(S), NEW f, NEW g, NEW h,
         \A x \in S : f[x] \in Int /\ g[x] \in Int /\ h[x] = f[x] + g[x]
  PROVE  SumFunctionOnSet(h, S) = SumFunctionOnSet(f, S) + SumFunctionOnSet(g, S)
<1> DEFINE F(s) == SumFunctionOnSet(f, s)
           G(s) == SumFunctionOnSet(g, s)
           H(s) == SumFunctionOnSet(h, s)
           B == {s \in SUBSET S : H(s) # F(s) + G(s)}
<1>0. \A x \in S : f[x] \in Int /\ g[x] \in Int /\ h[x] \in Int
  OBVIOUS
<1> SUFFICES ASSUME B # {} PROVE FALSE
  OBVIOUS
<1>1. PICK s \in B : \A t \in B : t \subseteq s => t = s
  <2>1. B \subseteq SUBSET S
    OBVIOUS
  <2> HIDE DEF B
  <2> QED BY <2>1, SmallestSet
<1>2. IsFiniteSet(s) /\ s \subseteq S /\ H(s) # F(s) + G(s)
  BY FS_Subset
<1>3. s # {}
  <2>1. F({}) = 0 /\ G({}) = 0 /\ H({}) = F({}) + G({})
    BY SumEmpty
  <2> HIDE DEF F, G, H, B
  <2> QED BY <1>2, <2>1
<1>4. PICK x \in s : TRUE
  BY <1>3
<1> DEFINE r == s \ {x}
<1>5. F(s) = f[x] + F(r) /\ f[x] \in Int /\ F(r) \in Int
  BY <1>0, <1>2, SumSplit
<1>6. G(s) = g[x] + G(r) /\ g[x] \in Int /\ G(r) \in Int
  BY <1>0, <1>2, SumSplit
<1>7. H(s) = h[x] + H(r) /\ h[x] \in Int /\ H(r) \in Int
  BY <1>0, <1>2, SumSplit
<1>8. H(r) = F(r) + G(r) /\ h[x] = f[x] + g[x]
  BY <1>1, <1>2
<1> HIDE DEF F, G, H, B, r
<1> QED BY <1>2, <1>5, <1>6, <1>7, <1>8

\* A sum of zeros.
LEMMA SumZero ==
  ASSUME NEW S, IsFiniteSet(S), NEW g, \A x \in S : g[x] = 0
  PROVE  SumFunctionOnSet(g, S) = 0
<1> DEFINE sum == SumFunctionOnSet(g, S)
<1>1. sum = sum + sum
  BY SumAdd
<1>2. sum \in Int
  BY SumOut
<1> HIDE DEF sum
<1>3. sum = 0
  BY <1>1, <1>2
<1> QED BY <1>3 DEF sum

\* Summed group by group, nothing is lost and nothing counted twice: c says to which of the
\* groups K an element belongs, and h what the elements of a group add up to.
LEMMA SumByGroup ==
  ASSUME NEW S, IsFiniteSet(S), NEW g, \A x \in S : g[x] \in Int,
         NEW K, IsFiniteSet(K), NEW c, \A x \in S : c[x] \in K,
         NEW h, \A k \in K : h[k] = SumFunctionOnSet(g, {x \in S : c[x] = k})
  PROVE  SumFunctionOnSet(h, K) = SumFunctionOnSet(g, S)
<1> DEFINE Of(s) == [k \in K |-> SumFunctionOnSet(g, {x \in s : c[x] = k})]
           G(s) == SumFunctionOnSet(g, s)
           H(s) == SumFunctionOnSet(Of(s), K)
           B == {s \in SUBSET S : H(s) # G(s)}
<1>5. \A t \in SUBSET S : \A j \in K :
        IsFiniteSet(t) /\ {x \in t : c[x] = j} \in SUBSET S /\ Of(t)[j] \in Int
  <2> SUFFICES ASSUME NEW t \in SUBSET S, NEW j \in K
               PROVE  IsFiniteSet(t) /\ {x \in t : c[x] = j} \in SUBSET S /\ Of(t)[j] \in Int
    OBVIOUS
  <2> DEFINE u == {x \in t : c[x] = j}
  <2>1. IsFiniteSet(t) /\ u \in SUBSET S /\ IsFiniteSet(u)
    BY FS_Subset
  <2>2. Of(t)[j] = SumFunctionOnSet(g, u)
    OBVIOUS
  <2> HIDE DEF u, Of
  <2>3. SumFunctionOnSet(g, u) \in Int
    BY <2>1, SumOut
  <2> QED BY <2>1, <2>2, <2>3 DEF u
<1>h. SumFunctionOnSet(h, K) = H(S)
  <2>1. \A k \in K : Of(S)[k] \in Int /\ Of(S)[k] = h[k]
    BY <1>5
  <2> HIDE DEF Of
  <2> QED BY <2>1, SumSame
<1> SUFFICES ASSUME B # {} PROVE FALSE
  BY <1>h
<1>1. PICK s \in B : \A t \in B : t \subseteq s => t = s
  <2>1. B \subseteq SUBSET S
    OBVIOUS
  <2> HIDE DEF B
  <2> QED BY <2>1, SmallestSet
<1>2. IsFiniteSet(s) /\ s \subseteq S /\ H(s) # G(s)
  BY FS_Subset
<1>3. s # {}
  <2> SUFFICES ASSUME s = {} PROVE H(s) = 0 /\ G(s) = 0
    BY <1>2
  <2>1. G({}) = 0
    BY SumEmpty
  <2>2. ASSUME NEW k \in K PROVE Of({})[k] = 0
    <3>1. {x \in {} : c[x] = k} = {}
      OBVIOUS
    <3> QED BY <2>1, <3>1
  <2> HIDE DEF Of
  <2> QED BY <2>1, <2>2, SumZero
<1>4. PICK y \in s : TRUE
  BY <1>3
<1> DEFINE r == s \ {y}
           k == c[y]
<1>6. G(s) = g[y] + G(r) /\ g[y] \in Int /\ G(r) \in Int
  BY <1>2, SumSplit
<1>7. k \in K
  BY <1>2
<1>8. Of(s)[k] = g[y] + Of(r)[k]
  <2> DEFINE u == {x \in s : c[x] = k}
  <2>1. {x \in r : c[x] = k} = u \ {y} /\ y \in u /\ u \subseteq S
    BY <1>2
  <2>2. Of(s)[k] = SumFunctionOnSet(g, u) /\ Of(r)[k] = SumFunctionOnSet(g, u \ {y})
    BY <1>7, <2>1
  <2>3. IsFiniteSet(u)
    BY <2>1, FS_Subset
  <2> HIDE DEF u, Of, k, r
  <2> QED BY <2>1, <2>2, <2>3, SumSplit
<1>9. \A j \in K \ {k} : Of(s)[j] = Of(r)[j]
  <2> SUFFICES ASSUME NEW j \in K \ {k} PROVE {x \in s : c[x] = j} = {x \in r : c[x] = j}
    OBVIOUS
  <2> QED OBVIOUS
<1> DEFINE most == SumFunctionOnSet(Of(s), K \ {k})
<1>10. H(s) = Of(s)[k] + most /\ Of(s)[k] \in Int /\ most \in Int
  <2>1. \A j \in K : Of(s)[j] \in Int
    BY <1>2, <1>5
  <2> HIDE DEF Of, k
  <2> QED BY <1>7, <2>1, SumSplit
<1>11. H(r) = Of(r)[k] + most /\ Of(r)[k] \in Int
  <2>1. \A j \in K : Of(r)[j] \in Int
    BY <1>2, <1>5
  <2>2. H(r) = Of(r)[k] + SumFunctionOnSet(Of(r), K \ {k}) /\ Of(r)[k] \in Int
    <3> HIDE DEF Of, k
    <3> QED BY <1>7, <2>1, SumSplit
  <2>3. SumFunctionOnSet(Of(r), K \ {k}) = most
    <3>1. IsFiniteSet(K \ {k})
      BY FS_RemoveElement
    <3> HIDE DEF Of, k
    <3> QED BY <1>9, <2>1, <3>1, SumSame
  <2> QED BY <2>2, <2>3
<1>12. H(r) = G(r)
  BY <1>1, <1>2
<1> HIDE DEF Of, G, H, B, r, k, most
<1> QED BY <1>2, <1>6, <1>8, <1>10, <1>11, <1>12

-----------------------------------------------------------------------------
(* Fees *)

\* Rounding up to whole rupees loses nothing and adds less than one rupee.
LEMMA RoundedUp ==
  ASSUME NEW a \in Int, NEW b \in {9352, 9700, 870, 87}
  PROVE  /\ WholeRupees(a, b) \in Int
         /\ b * WholeRupees(a, b) >= a
         /\ b * WholeRupees(a, b) < a + RUPEE * b
<1>1. CASE b = 9352
  BY <1>1, Z3 DEF WholeRupees, CeilDiv, RUPEE
<1>2. CASE b = 9700
  BY <1>2, Z3 DEF WholeRupees, CeilDiv, RUPEE
<1>3. CASE b = 870
  BY <1>3, Z3 DEF WholeRupees, CeilDiv, RUPEE
<1>4. CASE b = 87
  BY <1>4, Z3 DEF WholeRupees, CeilDiv, RUPEE
<1> QED BY <1>1, <1>2, <1>3, <1>4

\* A fee on top of the base covers the cut of the total it makes.
LEMMA FeeOnTop ==
  ASSUME NEW base \in Int, NEW rate \in {648, 300, 0}
  PROVE  LET left == (base + PlatformFee(base, rate)) * (BASIS - rate) - base * BASIS
         IN 0 <= left /\ left < RUPEE * (BASIS - rate)
<1>1. CASE rate = 0
  BY <1>1 DEF PlatformFee, BASIS, RUPEE
<1>2. CASE rate # 0
  <2> DEFINE cut == base * rate
             left == BASIS - rate
             fee == WholeRupees(cut, left)
  <2>1. PlatformFee(base, rate) = fee
    BY <1>2 DEF PlatformFee
  <2>2. cut \in Int /\ left \in {9352, 9700, 870, 87}
    BY <1>2 DEF BASIS
  <2>3. fee \in Int /\ left * fee >= cut /\ left * fee < cut + RUPEE * left
    <3> HIDE DEF cut, left
    <3> QED BY <2>2, RoundedUp
  <2> HIDE DEF fee
  <2>4. CASE rate = 648
    BY <2>1, <2>3, <2>4 DEF BASIS, RUPEE
  <2>5. CASE rate = 300
    BY <2>1, <2>3, <2>5 DEF BASIS, RUPEE
  <2> QED BY <1>2, <2>4, <2>5
<1> QED BY <1>1, <1>2

\* Of a total that calculateOrderTotals returns, what is left after the gateway's cut pays for
\* goods and delivery, to less than a rupee, for each method and any amounts.
THEOREM TotalsCoverTheCut ==
  ASSUME NEW subtotal \in Int, NEW delivery \in Int, NEW voucher \in Int, NEW method \in Methods
  PROVE  CoversTheCut(OrderTotals(subtotal, delivery, voucher, method).grandTotal,
                      subtotal + delivery - voucher, method)
<1> DEFINE base == subtotal + delivery - voucher
           paid == OrderTotals(subtotal, delivery, voucher, method).grandTotal
<1>0. base \in Int
  OBVIOUS
<1>1. CASE method = "CardBNPL"
  <2>1. paid = WholeRupees(100 * base, 87) /\ Rate(method) = 1300
    BY <1>1 DEF OrderTotals, BnplTotals, Rate
  <2> HIDE DEF base, paid
  <2>2. paid \in Int /\ 87 * paid >= 100 * base /\ 87 * paid < 100 * base + 8700
    BY <1>0, <2>1, RoundedUp DEF RUPEE
  <2>3. CoversTheCut(paid, base, method)
    BY <1>0, <2>1, <2>2 DEF CoversTheCut, BASIS, RUPEE
  <2> QED BY <2>3 DEF base, paid
<1>2. CASE method # "CardBNPL"
  <2>1. paid = base + PlatformFee(base, Rate(method)) /\ Rate(method) \in {648, 300, 0}
    BY <1>2 DEF OrderTotals, Rate, Methods
  <2> HIDE DEF base, paid
  <2>2. CoversTheCut(paid, base, method)
    BY <1>0, <2>1, FeeOnTop DEF CoversTheCut
  <2> QED BY <2>2 DEF base, paid
<1> QED BY <1>1, <1>2

-----------------------------------------------------------------------------
(* The amounts of an order *)

Charge(l, city, ok) == IF ok /\ HasMeta(l) THEN ShippingCharge(l, city) ELSE 0

\* What a request in flight has read is what its lines were compared with, and among the tags that
\* its listings have had since.
ReadRight ==
  request # Absent =>
    /\ \A i \in DOMAIN request.lines : PriceMatches(request.lines[i], request.seen)
    /\ \A l \in Listings : request.seen[l] \in since[l]

\* A customer whose order is stored has no other request in flight.
OneOrder == order = Absent \/ request = Absent

AInv == TypeOK /\ ReadRight /\ OneOrder
        /\ FeeCoversTheCut /\ SourcesCarryTheOrder /\ NoSaleAtOldPrice

\* The sum of a sequence of numbers.
LEMMA SumOfSequence ==
  ASSUME NEW n \in Nat, NEW g, DOMAIN g = 1 .. n, \A i \in 1 .. n : g[i] \in Int
  PROVE  /\ IsFiniteSet(1 .. n)
         /\ SumFunction(g) = SumFunctionOnSet(g, 1 .. n) /\ SumFunction(g) \in Int
<1>1. IsFiniteSet(1 .. n)
  BY FS_Interval, 1 \in Int /\ n \in Int, Zenon
<1>2. SumFunctionOnSet(g, 1 .. n) \in Int
  BY <1>1, SumOut
<1> QED BY <1>1, <1>2 DEF SumFunction

\* What a line shown on the page holds.
LEMMA LinesTyped ==
  ASSUME AmountsAssumption, page \in [Listings -> PriceTags], NEW lines \in LinesShown
  PROVE  \E n \in Nat : lines \in [1 .. n -> Line] /\ n > 0
<1>1. ASSUME NEW l \in Listings, NEW q \in Quantities, NEW d \in BOOLEAN
      PROVE  LineShown(l, q, d) \in Line
  <2>1. page[l].price \in Int /\ page[l].discount \in Int
    BY DEF AmountsAssumption
  <2> QED BY <2>1 DEF LineShown, Line
<1>2. PICK n \in 1 .. MaxLines :
        lines \in [1 .. n -> {LineShown(l, q, d) : l \in Listings, q \in Quantities, d \in BOOLEAN}]
  BY DEF LinesShown
<1>3. {LineShown(l, q, d) : l \in Listings, q \in Quantities, d \in BOOLEAN} \subseteq Line
  BY <1>1
<1>4. n \in Nat /\ n > 0
  BY <1>2 DEF AmountsAssumption
<1>5. lines \in [1 .. n -> Line]
  BY <1>2, <1>3
<1> QED BY <1>4, <1>5

\* The delivery of a line costs something or nothing.
LEMMA ChargeTyped ==
  ASSUME AmountsAssumption, NEW l \in Listings, NEW city, NEW ok
  PROVE  Charge(l, city, ok) \in Nat
<1> SUFFICES ASSUME HasMeta(l) PROVE ShippingCharge(l, city) \in Nat
  BY DEF Charge
<1>1. Details[l].category \in Categories
  BY DEF HasMeta, AmountsAssumption
<1>2. ChargesOf(l) \in [intra: Nat, inter: Nat, weight: Nat]
  BY <1>1 DEF ChargesOf, AmountsAssumption
<1> DEFINE w == ChargesOf(l).weight
           c == IF Details[l].city = city THEN ChargesOf(l).intra ELSE ChargesOf(l).inter
<1>3. w \in Nat /\ c \in Nat
  BY <1>2
<1>4. ShippingCharge(l, city) = w * c
  BY DEF ShippingCharge
<1> HIDE DEF w, c
<1>5. w * c \in Nat
  BY <1>3, Z3
<1> QED BY <1>4, <1>5

\* Every amount of a line is a number.
LEMMA LineAmounts ==
  ASSUME AmountsAssumption, NEW line \in Line
  PROVE  /\ line.quantity \in Int /\ line.unitPrice \in Int
         /\ Discount(line) \in Int /\ Priced(line) \in Int
         /\ Discount(line) * Priced(line) \in Int
         /\ (line.unitPrice - Discount(line)) * Priced(line) \in Int
<1>1. /\ line.quantity \in Quantities /\ line.unitPrice \in Int
      /\ line.unitDiscount \in Int \cup {Absent}
  BY DEF Line
<1>2. Quantities \subseteq Int
  BY DEF AmountsAssumption
<1>3. line.quantity \in Int /\ Priced(line) \in Int
  <2>1. line.quantity \in Int
    BY <1>1, <1>2, Zenon
  <2> QED BY <2>1 DEF Priced
<1>4. Discount(line) \in Int
  <2>1. CASE line.unitDiscount = Absent
    BY <2>1 DEF Discount
  <2>2. CASE line.unitDiscount # Absent
    BY <1>1, <2>2 DEF Discount
  <2> QED BY <2>1, <2>2
<1> QED BY <1>1, <1>3, <1>4

\* The subtotal, the delivery and what a voucher takes off are numbers.
LEMMA OrderAmounts ==
  ASSUME AmountsAssumption, NEW n \in Nat, NEW lines \in [1 .. n -> Line], NEW city, NEW ok,
         NEW percent \in Vouchers
  PROVE  /\ SubTotal(lines) \in Int /\ ProductDiscount(lines) \in Int
         /\ Delivery(lines, city, ok).total \in Int
         /\ (SubTotal(lines) * percent) \div 100 \in Int
<1>0. DOMAIN lines = 1 .. n /\ \A i \in 1 .. n : lines[i] \in Line /\ lines[i].listing \in Listings
  BY DEF Line
<1>1. SubTotal(lines) \in Int
  <2> DEFINE g == [i \in DOMAIN lines |-> (lines[i].unitPrice - Discount(lines[i])) * Priced(lines[i])]
  <2>1. DOMAIN g = 1 .. n /\ \A i \in 1 .. n : g[i] \in Int
    BY <1>0, LineAmounts
  <2>2. SubTotal(lines) = SumFunction(g)
    BY DEF SubTotal, SumLines
  <2> HIDE DEF g
  <2> QED BY <2>1, <2>2, SumOfSequence
<1>2. ProductDiscount(lines) \in Int
  <2> DEFINE g == [i \in DOMAIN lines |-> Discount(lines[i]) * Priced(lines[i])]
  <2>1. DOMAIN g = 1 .. n /\ \A i \in 1 .. n : g[i] \in Int
    BY <1>0, LineAmounts
  <2>2. ProductDiscount(lines) = SumFunction(g)
    BY DEF ProductDiscount, SumLines
  <2> HIDE DEF g
  <2> QED BY <2>1, <2>2, SumOfSequence
<1>3. Delivery(lines, city, ok).total \in Int
  <2> DEFINE g == [i \in DOMAIN lines |-> Charge(lines[i].listing, city, ok)]
  <2>1. DOMAIN g = 1 .. n /\ \A i \in 1 .. n : g[i] \in Int
    BY <1>0, ChargeTyped
  <2>2. Delivery(lines, city, ok).total = SumFunction(g)
    BY DEF Delivery, SumLines, Charge
  <2> HIDE DEF g
  <2> QED BY <2>1, <2>2, SumOfSequence
<1>4. (SubTotal(lines) * percent) \div 100 \in Int
  <2> DEFINE product == SubTotal(lines) * percent
  <2>1. product \in Int
    <3>1. percent \in Int
      BY DEF AmountsAssumption
    <3> QED BY <1>1, <3>1
  <2> HIDE DEF product
  <2>2. product \div 100 \in Int
    BY <2>1, Z3
  <2> QED BY <2>2 DEF product
<1> QED BY <1>1, <1>2, <1>3, <1>4

\* the items of a shop and location
Mine(items, s) ==
  {i \in DOMAIN items : items[i].shop = s.shop /\ items[i].location = s.location}

\* The items of a source are those of its shop and location.
LEMMA ItemsOfSource ==
  ASSUME NEW n \in Nat, NEW items, DOMAIN items = 1 .. n
  PROVE  /\ IsFiniteSet(Sources(items))
         /\ \A i \in 1 .. n, s \in Sources(items) :
              Source(items[i].shop, items[i].location, items) = s
                <=> items[i].shop = s.shop /\ items[i].location = s.location
<1> DEFINE of == [i \in 1 .. n |-> Source(items[i].shop, items[i].location, items)]
<1>1. IsFiniteSet(1 .. n)
  BY FS_Interval, 1 \in Int /\ n \in Int, Zenon
<1>2. of \in Surjection(1 .. n, Sources(items))
  BY DEF Surjection, Sources
<1>3. IsFiniteSet(Sources(items))
  <2> HIDE DEF of
  <2> QED BY <1>1, <1>2, FS_Surjection
<1>4. \A shop, location :
        /\ Source(shop, location, items).shop = shop
        /\ Source(shop, location, items).location = location
  BY DEF Source
<1>5. ASSUME NEW i \in 1 .. n, NEW s \in Sources(items)
      PROVE  Source(items[i].shop, items[i].location, items) = s
               <=> items[i].shop = s.shop /\ items[i].location = s.location
  <2>1. PICK j \in 1 .. n : s = Source(items[j].shop, items[j].location, items)
    BY DEF Sources
  <2>2. s.shop = items[j].shop /\ s.location = items[j].location
    BY <2>1, <1>4
  <2> QED BY <2>1, <2>2, <1>4
<1> QED BY <1>3, <1>5

\* Whatever is summed over the items of each source, the sources add up to the whole of it.
LEMMA SumOverSources ==
  ASSUME NEW n \in Nat, NEW items, DOMAIN items = 1 .. n,
         NEW g, DOMAIN g = 1 .. n, \A i \in 1 .. n : g[i] \in Int,
         NEW h, DOMAIN h = Sources(items),
         \A s \in Sources(items) : h[s] = SumFunctionOnSet(g, Mine(items, s))
  PROVE  SumFunction(h) = SumFunction(g)
<1> DEFINE K == Sources(items)
           c == [i \in 1 .. n |-> Source(items[i].shop, items[i].location, items)]
<1>1. IsFiniteSet(1 .. n) /\ IsFiniteSet(K) /\ \A x \in 1 .. n : c[x] \in K
  BY SumOfSequence, ItemsOfSource DEF Sources
<1>2. ASSUME NEW k \in K PROVE h[k] = SumFunctionOnSet(g, {x \in 1 .. n : c[x] = k})
  <2>1. {x \in 1 .. n : c[x] = k} = Mine(items, k)
    BY ItemsOfSource DEF Mine
  <2> QED BY <2>1
<1>3. SumFunctionOnSet(h, K) = SumFunctionOnSet(g, 1 .. n)
  <2> DEFINE S == 1 .. n
  <2>1. IsFiniteSet(S) /\ IsFiniteSet(K) /\ \A x \in S : g[x] \in Int
    BY <1>1
  <2>2. \A x \in S : c[x] \in K
    BY <1>1
  <2>3. \A k \in K : h[k] = SumFunctionOnSet(g, {x \in S : c[x] = k})
    BY <1>2
  <2> HIDE DEF K, c, S
  <2>4. SumFunctionOnSet(h, K) = SumFunctionOnSet(g, S)
    BY <2>1, <2>2, <2>3, SumByGroup
  <2> QED BY <2>4 DEF S
<1> QED BY <1>3 DEF SumFunction

\* An item is its line, at the listing's discount.
LEMMA ItemsOfLines ==
  ASSUME AmountsAssumption, NEW seen \in [Listings -> PriceTags],
         NEW n \in Nat, NEW lines \in [1 .. n -> Line], NEW city, NEW ok
  PROVE  LET items == Items(lines, Delivery(lines, city, ok).of, seen)
         IN /\ DOMAIN items = 1 .. n
            /\ \A i \in 1 .. n :
                 /\ items[i].quantity = lines[i].quantity /\ items[i].price = lines[i].unitPrice
                 /\ items[i].listing = lines[i].listing
                 /\ items[i].discount = seen[lines[i].listing].discount
                 /\ items[i].deliveryCharges
                      = Charge(lines[i].listing, city, ok) * lines[i].quantity
                 /\ items[i] \in OrderItem
<1> DEFINE of == Delivery(lines, city, ok).of
           items == Items(lines, of, seen)
<1>1. DOMAIN items = 1 .. n /\ \A i \in 1 .. n : items[i] = Item(lines[i], of, seen)
  BY DEF Items
<1>2. ASSUME NEW i \in 1 .. n
      PROVE  /\ lines[i] \in Line /\ lines[i].listing \in Listings
             /\ of[lines[i].listing] = Charge(lines[i].listing, city, ok)
  BY DEF Line, Delivery, Charge
<1> HIDE DEF of, items
<1>3. ASSUME NEW i \in 1 .. n
      PROVE  /\ items[i].quantity = lines[i].quantity /\ items[i].price = lines[i].unitPrice
             /\ items[i].listing = lines[i].listing
             /\ items[i].discount = seen[lines[i].listing].discount
             /\ items[i].deliveryCharges = Charge(lines[i].listing, city, ok) * lines[i].quantity
             /\ items[i] \in OrderItem
  <2> DEFINE line == lines[i]
             charge == Charge(lines[i].listing, city, ok)
  <2>1. charge \in Int /\ line.quantity \in Int /\ line.unitPrice \in Int
        /\ line.listing \in Listings
    BY <1>2, ChargeTyped, LineAmounts
  <2>2. /\ seen[line.listing].discount \in Int /\ Details[line.listing].shop \in Shops
        /\ Details[line.listing].location \in Locations \cup {Absent}
    BY <2>1 DEF AmountsAssumption
  <2>3. items[i] = Item(line, of, seen) /\ of[line.listing] = charge
    BY <1>1, <1>2
  <2> HIDE DEF line, charge
  <2>4. charge * line.quantity \in Int
    BY <2>1
  <2>5. /\ items[i].quantity = line.quantity /\ items[i].price = line.unitPrice
        /\ items[i].listing = line.listing /\ items[i].discount = seen[line.listing].discount
        /\ items[i].deliveryCharges = charge * line.quantity
    BY <2>3 DEF Item
  <2>6. items[i] \in OrderItem
    BY <2>1, <2>2, <2>3, <2>4 DEF Item, OrderItem
  <2> QED BY <2>5, <2>6 DEF line, charge
<1> QED BY <1>1, <1>3 DEF of, items

\* what SourcesCarryTheOrder says of the rows
Carried(sources, header) ==
  /\ SumFunction([s \in sources |-> s.quantity]) = header.quantity
  /\ SumFunction([s \in sources |-> s.amount]) = header.subTotal + header.productDiscount
  /\ \A s1, s2 \in sources : s1.shop = s2.shop /\ s1.location = s2.location => s1 = s2

\* The sources of an order are one per shop and location, and account for what is bought.
LEMMA SourcesCarry ==
  ASSUME AmountsAssumption, NEW seen \in [Listings -> PriceTags],
         NEW n \in Nat, NEW lines \in [1 .. n -> Line], NEW city, NEW ok, NEW voucher,
         \A i \in 1 .. n : lines[i].quantity > 0
  PROVE  LET delivery == Delivery(lines, city, ok)
             sources == Sources(Items(lines, delivery.of, seen))
             header == Header(lines, delivery.total, voucher)
         IN Carried(sources, header)
<1> DEFINE delivery == Delivery(lines, city, ok)
           items == Items(lines, delivery.of, seen)
           sources == Sources(items)
           header == Header(lines, delivery.total, voucher)
<1>1. /\ DOMAIN items = 1 .. n
      /\ \A i \in 1 .. n :
           /\ items[i].quantity = lines[i].quantity /\ items[i].price = lines[i].unitPrice
  BY ItemsOfLines
<1>2. /\ DOMAIN lines = 1 .. n
      /\ \A i \in 1 .. n :
           /\ lines[i].quantity \in Int /\ lines[i].quantity > 0 /\ lines[i].unitPrice \in Int
           /\ Priced(lines[i]) = lines[i].quantity /\ Discount(lines[i]) \in Int
  <2> SUFFICES ASSUME NEW i \in 1 .. n
               PROVE  /\ lines[i].quantity \in Int /\ lines[i].quantity > 0
                      /\ lines[i].unitPrice \in Int /\ Priced(lines[i]) = lines[i].quantity
                      /\ Discount(lines[i]) \in Int
    OBVIOUS
  <2>1. lines[i] \in Line
    OBVIOUS
  <2>3. lines[i].quantity \in Int /\ lines[i].unitPrice \in Int /\ Discount(lines[i]) \in Int
    BY <2>1, LineAmounts
  <2>4. lines[i].quantity > 0
    OBVIOUS
  <2>5. Priced(lines[i]) = lines[i].quantity
    BY <2>3, <2>4 DEF Priced
  <2> QED BY <2>3, <2>4, <2>5
<1>3. \A s \in sources :
        /\ s.quantity = SumFunctionOnSet([i \in 1 .. n |-> items[i].quantity], Mine(items, s))
        /\ s.amount = SumFunctionOnSet([i \in 1 .. n |-> items[i].quantity * items[i].price], Mine(items, s))
  <2> SUFFICES ASSUME NEW s \in sources
               PROVE  /\ s.quantity = SumFunctionOnSet([i \in 1 .. n |-> items[i].quantity],
                                                       Mine(items, s))
                      /\ s.amount = SumFunctionOnSet([i \in 1 .. n |->
                                      items[i].quantity * items[i].price], Mine(items, s))
    OBVIOUS
  <2> HIDE DEF items
  <2>1. PICK j \in 1 .. n : s = Source(items[j].shop, items[j].location, items)
    BY <1>1 DEF Sources
  <2>2. s.shop = items[j].shop /\ s.location = items[j].location
    BY <2>1 DEF Source
  <2>3. Mine(items, s) = {i \in DOMAIN items : items[i].shop = items[j].shop
                                              /\ items[i].location = items[j].location}
    BY <2>2 DEF Mine
  <2> QED BY <1>1, <2>1, <2>3 DEF Source
<1>4. /\ header.quantity = SumFunction([i \in 1 .. n |-> lines[i].quantity])
      /\ header.subTotal = SumFunction([i \in 1 .. n |->
                             (lines[i].unitPrice - Discount(lines[i])) * Priced(lines[i])])
      /\ header.productDiscount
           = SumFunction([i \in 1 .. n |-> Discount(lines[i]) * Priced(lines[i])])
  <2>1. DOMAIN lines = 1 .. n
    OBVIOUS
  <2> HIDE DEF delivery
  <2> QED BY <2>1 DEF Header, SubTotal, ProductDiscount, SumLines
<1> HIDE DEF items, delivery, header
<1>5. SumFunction([s \in sources |-> s.quantity]) = header.quantity
  <2> DEFINE g == [i \in 1 .. n |-> items[i].quantity]
             h == [s \in sources |-> s.quantity]
  <2>1. DOMAIN g = 1 .. n /\ \A i \in 1 .. n : g[i] \in Int
    BY <1>1, <1>2
  <2>2. DOMAIN h = sources /\ \A s \in sources : h[s] = SumFunctionOnSet(g, Mine(items, s))
    BY <1>3
  <2>3. g = [i \in 1 .. n |-> lines[i].quantity]
    BY <1>1
  <2> HIDE DEF g, h
  <2>4. SumFunction(h) = SumFunction(g)
    BY <1>1, <2>1, <2>2, SumOverSources
  <2> QED BY <1>4, <2>3, <2>4 DEF h
<1>6. SumFunction([s \in sources |-> s.amount]) = header.subTotal + header.productDiscount
  <2> DEFINE g == [i \in 1 .. n |-> items[i].quantity * items[i].price]
             h == [s \in sources |-> s.amount]
             net == [i \in 1 .. n |-> (lines[i].unitPrice - Discount(lines[i])) * Priced(lines[i])]
             off == [i \in 1 .. n |-> Discount(lines[i]) * Priced(lines[i])]
  <2>1. ASSUME NEW i \in 1 .. n
        PROVE  g[i] \in Int /\ net[i] \in Int /\ off[i] \in Int /\ g[i] = net[i] + off[i]
    <3> DEFINE q == lines[i].quantity
               p == lines[i].unitPrice
               d == Discount(lines[i])
    <3>1. g[i] = q * p /\ net[i] = (p - d) * q /\ off[i] = d * q
      BY <1>1, <1>2
    <3>2. q \in Int /\ p \in Int /\ d \in Int
      BY <1>2
    <3> HIDE DEF q, p, d, g, net, off
    <3>3. q * p = (p - d) * q + d * q
      BY <3>2, Z3
    <3> QED BY <3>1, <3>2, <3>3
  <2>2. DOMAIN g = 1 .. n /\ DOMAIN net = 1 .. n /\ DOMAIN off = 1 .. n
    OBVIOUS
  <2>3. DOMAIN h = sources /\ \A s \in sources : h[s] = SumFunctionOnSet(g, Mine(items, s))
    BY <1>3
  <2>4. header.subTotal = SumFunction(net) /\ header.productDiscount = SumFunction(off)
    BY <1>4
  <2> HIDE DEF g, h, net, off
  <2>5. SumFunction(h) = SumFunction(g)
    <3>1. \A i \in 1 .. n : g[i] \in Int
      BY <2>1
    <3> QED BY <1>1, <2>2, <2>3, <3>1, SumOverSources
  <2>6. SumFunctionOnSet(g, 1 .. n) = SumFunctionOnSet(net, 1 .. n) + SumFunctionOnSet(off, 1 .. n)
    BY <2>1, SumOfSequence, <2>2, SumAdd
  <2>7. SumFunction(g) = SumFunction(net) + SumFunction(off)
    BY <2>2, <2>6 DEF SumFunction
  <2> QED BY <2>4, <2>5, <2>7 DEF h
<1>7. ASSUME NEW s1 \in sources, NEW s2 \in sources, s1.shop = s2.shop,
             s1.location = s2.location
      PROVE  s1 = s2
  <2>1. PICK i \in 1 .. n : s1 = Source(items[i].shop, items[i].location, items)
    BY <1>1 DEF Sources
  <2>2. items[i].shop = s1.shop /\ items[i].location = s1.location
    BY <2>1 DEF Source
  <2> QED BY <1>1, <1>7, <2>1, <2>2, ItemsOfSource
<1> QED BY <1>5, <1>6, <1>7 DEF items, delivery, header, Carried

\* The fee and the total are numbers.
LEMMA TotalsTyped ==
  ASSUME NEW subtotal \in Int, NEW delivery \in Int, NEW voucher \in Int, NEW method \in Methods
  PROVE  /\ OrderTotals(subtotal, delivery, voucher, method).platformFee \in Int
         /\ OrderTotals(subtotal, delivery, voucher, method).grandTotal \in Int
<1> DEFINE base == subtotal + delivery - voucher
<1>0. base \in Int
  OBVIOUS
<1>1. CASE method = "CardBNPL"
  <2> DEFINE markedUp == 1000 * base - 957 * subtotal - 870 * (delivery - voucher)
             full == 100 * base
  <2>1. markedUp \in Int /\ full \in Int
    BY <1>0
  <2>2. /\ OrderTotals(subtotal, delivery, voucher, method).platformFee = WholeRupees(markedUp, 870)
        /\ OrderTotals(subtotal, delivery, voucher, method).grandTotal = WholeRupees(full, 87)
    BY <1>1 DEF OrderTotals, BnplTotals
  <2> HIDE DEF markedUp, full
  <2> QED BY <2>1, <2>2, RoundedUp
<1>2. CASE method # "CardBNPL"
  <2> DEFINE fee == PlatformFee(base, Rate(method))
  <2>1. /\ OrderTotals(subtotal, delivery, voucher, method).platformFee = fee
        /\ OrderTotals(subtotal, delivery, voucher, method).grandTotal = base + fee
        /\ Rate(method) \in {648, 300, 0}
    BY <1>2 DEF OrderTotals, Rate, Methods
  <2>2. fee \in Int
    <3> HIDE DEF base
    <3>1. CASE Rate(method) = 0
      BY <3>1 DEF PlatformFee
    <3>2. CASE Rate(method) # 0
      <4> DEFINE cut == base * Rate(method)
                 left == BASIS - Rate(method)
      <4>1. cut \in Int /\ left \in {9352, 9700, 870, 87}
        BY <1>0, <2>1, <3>2 DEF BASIS
      <4>2. fee = WholeRupees(cut, left)
        BY <3>2 DEF PlatformFee
      <4> HIDE DEF cut, left, fee
      <4> QED BY <4>1, <4>2, RoundedUp
    <3> QED BY <3>1, <3>2
  <2> HIDE DEF base, fee
  <2> QED BY <1>0, <2>1, <2>2
<1> QED BY <1>1, <1>2

\* A source has numbers, and the shop and location of one of its items.
LEMMA SourcesTyped ==
  ASSUME NEW n \in Nat, NEW items \in [1 .. n -> OrderItem]
  PROVE  Sources(items) \subseteq OrderSource
<1>1. IsFiniteSet(1 .. n) /\ DOMAIN items = 1 .. n
  BY FS_Interval, 1 \in Int /\ n \in Int, Zenon
<1>2. ASSUME NEW i \in 1 .. n
      PROVE  Source(items[i].shop, items[i].location, items) \in OrderSource
  <2> DEFINE mine == {j \in 1 .. n : items[j].shop = items[i].shop
                                     /\ items[j].location = items[i].location}
             quantity == [j \in 1 .. n |-> items[j].quantity]
             amount == [j \in 1 .. n |-> items[j].quantity * items[j].price]
             discount == [j \in 1 .. n |-> items[j].quantity * items[j].discount]
             charges == [j \in 1 .. n |-> items[j].deliveryCharges]
  <2>1. ASSUME NEW j \in 1 .. n
        PROVE  /\ quantity[j] \in Int /\ amount[j] \in Int /\ discount[j] \in Int
               /\ charges[j] \in Int
    <3>1. /\ items[j].quantity \in Int /\ items[j].price \in Int /\ items[j].discount \in Int
          /\ items[j].deliveryCharges \in Int
      BY DEF OrderItem
    <3> QED BY <3>1
  <2>2. Source(items[i].shop, items[i].location, items)
          = [shop |-> items[i].shop, location |-> items[i].location,
             quantity |-> SumFunctionOnSet(quantity, mine),
             amount |-> SumFunctionOnSet(amount, mine),
             discountValue |-> SumFunctionOnSet(discount, mine),
             deliveryCharges |-> SumFunctionOnSet(charges, mine)]
    BY <1>1 DEF Source
  <2>3. IsFiniteSet(mine) /\ mine \subseteq 1 .. n
    BY <1>1, FS_Subset
  <2> HIDE DEF mine, quantity, amount, discount, charges
  <2>4. SumFunctionOnSet(quantity, mine) \in Int
    BY <2>1, <2>3, SumOut
  <2>5. SumFunctionOnSet(amount, mine) \in Int
    BY <2>1, <2>3, SumOut
  <2>6. SumFunctionOnSet(discount, mine) \in Int
    BY <2>1, <2>3, SumOut
  <2>7. SumFunctionOnSet(charges, mine) \in Int
    BY <2>1, <2>3, SumOut
  <2>8. items[i].shop \in Shops /\ items[i].location \in Locations \cup {Absent}
    BY DEF OrderItem
  <2> QED BY <2>2, <2>4, <2>5, <2>6, <2>7, <2>8 DEF OrderSource
<1> QED BY <1>1, <1>2 DEF Sources

\* The amounts that the client calculated are numbers, so that its request has its type.
LEMMA RequestTyped ==
  ASSUME AmountsAssumption, tag \in [Listings -> PriceTags], page \in [Listings -> PriceTags],
         NEW lines \in LinesShown, NEW city \in Destinations, NEW method \in Methods,
         NEW percent \in Vouchers, NEW d \in Deviations, d \in Int \cup {Absent}
  PROVE  LET totals == OrderTotals(SubTotal(lines), Delivery(lines, city, TRUE).total,
                                   (SubTotal(lines) * percent) \div 100, method)
         IN [lines |-> lines, city |-> city, method |-> method, voucher |-> percent,
             fee |-> IF d = Absent THEN Absent ELSE totals.platformFee + d,
             total |-> IF d = Absent THEN Absent ELSE totals.grandTotal + d,
             seen |-> tag] \in Request
<1> DEFINE totals == OrderTotals(SubTotal(lines), Delivery(lines, city, TRUE).total,
                                 (SubTotal(lines) * percent) \div 100, method)
<1>1. PICK n \in Nat : lines \in [1 .. n -> Line]
  BY LinesTyped
<1>2. lines \in Seq(Line)
  BY <1>1
<1>3. totals.platformFee \in Int /\ totals.grandTotal \in Int
  <2>1. /\ SubTotal(lines) \in Int /\ Delivery(lines, city, TRUE).total \in Int
        /\ (SubTotal(lines) * percent) \div 100 \in Int
    BY <1>1, OrderAmounts
  <2> QED BY <2>1, TotalsTyped
<1> DEFINE fee == IF d = Absent THEN Absent ELSE totals.platformFee + d
           total == IF d = Absent THEN Absent ELSE totals.grandTotal + d
<1>4. fee \in Int \cup {Absent} /\ total \in Int \cup {Absent}
  <2> HIDE DEF totals
  <2> QED BY <1>3
<1> HIDE DEF totals, fee, total
<1>5. [lines |-> lines, city |-> city, method |-> method, voucher |-> percent, fee |-> fee,
       total |-> total, seen |-> tag] \in Request
  BY <1>2, <1>4 DEF Request
<1> QED BY <1>5 DEF totals, fee, total

\* A request that createOrder goes on with was compared with what it has read.
LEMMA ReadRequest ==
  ASSUME AInv, NEW req \in Request, req.seen = tag, Validate(req)
  PROVE  AInv'
<1>1. /\ order = Absent /\ UNCHANGED <<tag, page, order>> /\ answer' \in Answers
      /\ tag \in [Listings -> PriceTags] /\ page \in [Listings -> PriceTags]
      /\ since \in [Listings -> SUBSET PriceTags]
  BY DEF Validate, AInv, TypeOK, Answers
<1>2. CASE /\ request' = req /\ since' = [l \in Listings |-> {tag[l]}]
           /\ \A i \in DOMAIN req.lines : PriceMatches(req.lines[i], req.seen)
  BY <1>1, <1>2 DEF AInv, OneOrder, TypeOK, ReadRight, PriceMatches, FeeCoversTheCut,
     SourcesCarryTheOrder, NoSaleAtOldPrice
<1>3. CASE UNCHANGED <<request, since>>
  BY <1>1, <1>3 DEF AInv, OneOrder, TypeOK, ReadRight, PriceMatches, FeeCoversTheCut,
     SourcesCarryTheOrder, NoSaleAtOldPrice
<1> QED BY <1>1, <1>2, <1>3 DEF Validate

\* What createOrder stores is what the invariant says of an order.
LEMMA StoredOrder ==
  ASSUME AmountsAssumption, AInv, NEW ok, Store(ok)
  PROVE  AInv'
<1> DEFINE lines == request.lines
           method == request.method
           seen == request.seen
           delivery == Delivery(lines, request.city, ok)
           voucher == (SubTotal(lines) * request.voucher) \div 100
           totals == OrderTotals(SubTotal(lines), delivery.total, voucher, method)
           items == Items(lines, delivery.of, seen)
           header == Header(lines, delivery.total, voucher)
           placed == [header |-> header, payment |-> Payment(method, totals),
                      sources |-> Sources(items), items |-> items]
<1>1. /\ request # Absent /\ request' = Absent /\ UNCHANGED <<tag, page>>
      /\ \/ order' = order /\ since' = NotRead
         \/ order' = placed /\ since' = since
  BY DEF Store
<1>2. /\ tag \in [Listings -> PriceTags] /\ page \in [Listings -> PriceTags]
      /\ since \in [Listings -> SUBSET PriceTags] /\ NotRead \in [Listings -> SUBSET PriceTags]
  BY DEF AInv, TypeOK, NotRead
<1>2a. answer' \in Answers
  BY DEF Store, Answers
<1>2b. /\ request \in Request /\ lines \in Seq(Line) /\ method \in Methods
       /\ seen \in [Listings -> PriceTags] /\ request.voucher \in Vouchers
  BY <1>1 DEF AInv, TypeOK, Request
<1>2c. /\ \A i \in DOMAIN lines : PriceMatches(lines[i], seen)
       /\ \A l \in Listings : seen[l] \in since[l]
  BY <1>1 DEF AInv, ReadRight
<1>3. PICK n \in Nat : lines \in [1 .. n -> Line]
  <2> HIDE DEF lines
  <2>1. Len(lines) \in Nat /\ lines \in [1 .. Len(lines) -> Line]
    BY <1>2b
  <2> QED BY <2>1
<1> HIDE DEF lines, method, seen
<1>4. /\ SubTotal(lines) \in Int /\ delivery.total \in Int /\ voucher \in Int
      /\ DOMAIN lines = 1 .. n
  BY <1>2b, <1>3, OrderAmounts
<1>5. /\ DOMAIN items = 1 .. n
      /\ \A i \in 1 .. n :
           /\ items[i].quantity = lines[i].quantity /\ items[i].price = lines[i].unitPrice
           /\ items[i].listing = lines[i].listing
           /\ items[i].discount = seen[lines[i].listing].discount
           /\ items[i] \in OrderItem
  BY <1>2b, <1>3, ItemsOfLines
<1>6. CASE order' = order /\ since' = NotRead
  BY <1>1, <1>2, <1>2a, <1>6 DEF AInv, OneOrder, TypeOK, ReadRight, FeeCoversTheCut, SourcesCarryTheOrder,
     NoSaleAtOldPrice
<1>7. CASE order' = placed /\ since' = since
  <2>1. /\ order'.header = header /\ order'.sources = Sources(items) /\ order'.items = items
        /\ order'.payment = Payment(method, totals)
    BY <1>7
  <2>2. FeeCoversTheCut'
    <3>1. CoversTheCut(totals.grandTotal, SubTotal(lines) + delivery.total - voucher, method)
      <4> HIDE DEF delivery, voucher
      <4> QED BY <1>2b, <1>4, TotalsCoverTheCut
    <3>2. /\ header.grandTotal = SubTotal(lines) + delivery.total - voucher
          /\ order'.payment.amountReceivable = totals.grandTotal
          /\ order'.payment.trxMethod = method
      BY <2>1 DEF Header, Payment
    <3> QED BY <2>1, <3>1, <3>2 DEF FeeCoversTheCut, CoversTheCut
  <2>3. SourcesCarryTheOrder'
    <3> SUFFICES ASSUME \A i \in 1 .. n : lines[i].quantity > 0
                 PROVE  Carried(Sources(items), header)
      <4> HIDE DEF items, header
      <4>1. order'.items = items /\ order'.header = header /\ order'.sources = Sources(items)
        BY <2>1
      <4>2. NoEmptyLine' => \A i \in 1 .. n : lines[i].quantity > 0
        BY <1>5, <4>1 DEF NoEmptyLine
      <4> QED BY <4>1, <4>2 DEF SourcesCarryTheOrder, Carried
    <3> QED BY <1>2b, <1>3, SourcesCarry
  <2>4. NoSaleAtOldPrice'
    <3> SUFFICES ASSUME NEW i \in 1 .. n
                 PROVE  \E t \in since[items[i].listing] :
                          Distance(items[i].price, t.price) <= 1 /\ items[i].discount = t.discount
      BY <1>5, <1>7, <2>1 DEF NoSaleAtOldPrice
    <3>1. PriceMatches(lines[i], seen) /\ lines[i].listing \in Listings
      BY <1>2c, <1>3, <1>4 DEF Line
    <3>2. seen[lines[i].listing] \in since[lines[i].listing]
      BY <1>2c, <3>1
    <3> QED BY <1>5, <3>1, <3>2 DEF PriceMatches
  <2>5. TypeOK'
    <3>1. SumFunction([i \in DOMAIN lines |-> lines[i].quantity]) \in Int
      <4> DEFINE g == [i \in DOMAIN lines |-> lines[i].quantity]
      <4>1. DOMAIN g = 1 .. n /\ \A i \in 1 .. n : g[i] \in Int
        BY <1>3, <1>4, LineAmounts
      <4> HIDE DEF g
      <4>2. SumFunction(g) \in Int
        BY <4>1, SumOfSequence
      <4> QED BY <4>2 DEF g
    <3>2. ProductDiscount(lines) \in Int
      BY <1>2b, <1>3, OrderAmounts
    <3>3. header \in OrderHeader
      <4> HIDE DEF delivery, voucher
      <4> QED BY <1>4, <3>1, <3>2 DEF Header, OrderHeader, SumLines
    <3>4. Payment(method, totals) \in OrderPayment
      <4> HIDE DEF delivery, voucher
      <4> QED BY <1>2b, <1>4, TotalsTyped DEF Payment, OrderPayment
    <3>5. items \in [1 .. n -> OrderItem] /\ items \in Seq(OrderItem)
      <4>1. items \in [1 .. n -> OrderItem]
        BY <1>5 DEF Items
      <4> HIDE DEF items
      <4> QED BY <4>1
    <3>6. Sources(items) \subseteq OrderSource
      <4> HIDE DEF items
      <4> QED BY <3>5, SourcesTyped
    <3> QED BY <1>1, <1>2, <1>2a, <1>7, <2>1, <3>3, <3>4, <3>5, <3>6 DEF TypeOK
  <2>6. ReadRight'
    BY <1>1 DEF ReadRight
  <2> QED BY <1>1, <2>2, <2>3, <2>4, <2>5, <2>6 DEF AInv, OneOrder
<1> QED BY <1>1, <1>6, <1>7

\* No order is there at first.
LEMMA AInvInit == AmountsAssumption /\ Init => AInv
BY DEF Init, AInv, TypeOK, Answers, AmountsAssumption, ReadRight, NotRead, FeeCoversTheCut,
   SourcesCarryTheOrder, NoSaleAtOldPrice, OneOrder

\* Prices change and pages are loaded before an order, and every order is as it should be.
LEMMA AInvNext == AmountsAssumption /\ AInv /\ [Next]_vars => AInv'
<1> SUFFICES ASSUME AmountsAssumption, AInv, [Next]_vars PROVE AInv'
  OBVIOUS
<1> USE DEF OneOrder
<1>1. ASSUME NEW l \in Repriced, NEW t \in PriceTags, Reprice(l, t) PROVE AInv'
  <2>1. /\ order = Absent /\ UNCHANGED <<page, order, answer, request>>
        /\ tag' \in [Listings -> PriceTags] /\ since' \in [Listings -> SUBSET PriceTags]
        /\ \A k \in Listings : since[k] \subseteq since'[k]
    BY <1>1 DEF Reprice, AInv, TypeOK
  <2> QED BY <2>1 DEF AInv, TypeOK, ReadRight, PriceMatches, FeeCoversTheCut,
             SourcesCarryTheOrder, NoSaleAtOldPrice
<1>2. CASE LoadPage
  BY <1>2 DEF LoadPage, AInv, TypeOK, ReadRight, FeeCoversTheCut, SourcesCarryTheOrder,
     NoSaleAtOldPrice
<1>3. ASSUME NEW lines \in LinesShown, NEW city \in Destinations, NEW method \in Methods,
             NEW percent \in Vouchers, Submit(lines, city, method, percent)
      PROVE  AInv'
  <2>1. PICK d \in Deviations :
          LET totals == OrderTotals(SubTotal(lines), Delivery(lines, city, TRUE).total,
                                    (SubTotal(lines) * percent) \div 100, method)
          IN Validate([lines |-> lines, city |-> city, method |-> method, voucher |-> percent,
                       fee |-> IF d = Absent THEN Absent ELSE totals.platformFee + d,
                       total |-> IF d = Absent THEN Absent ELSE totals.grandTotal + d,
                       seen |-> tag])
    BY <1>3 DEF Submit
  <2>2. d \in Int \cup {Absent} /\ tag \in [Listings -> PriceTags] /\ page \in [Listings -> PriceTags]
    BY DEF AInv, TypeOK, AmountsAssumption
  <2> DEFINE totals == OrderTotals(SubTotal(lines), Delivery(lines, city, TRUE).total,
                                   (SubTotal(lines) * percent) \div 100, method)
             req == [lines |-> lines, city |-> city, method |-> method, voucher |-> percent,
                     fee |-> IF d = Absent THEN Absent ELSE totals.platformFee + d,
                     total |-> IF d = Absent THEN Absent ELSE totals.grandTotal + d,
                     seen |-> tag]
  <2>3. req \in Request /\ Validate(req) /\ req.seen = tag
    BY <2>1, <2>2, RequestTyped
  <2> HIDE DEF req
  <2> QED BY <2>3, ReadRequest
<1>4. ASSUME NEW ok \in BOOLEAN, Store(ok) PROVE AInv'
  BY <1>4, StoredOrder
<1>5. CASE UNCHANGED vars
  BY <1>5 DEF vars, AInv, TypeOK, ReadRight, PriceMatches, FeeCoversTheCut, SourcesCarryTheOrder,
     NoEmptyLine, NoSaleAtOldPrice
<1> QED BY <1>1, <1>2, <1>3, <1>4, <1>5 DEF Next
=============================================================================
