-------------------------------- MODULE Sums --------------------------------
(***************************************************************************)
(* Facts about the sums of the community modules, SumFunctionOnSet, which  *)
(* the memory counters are compared with.  Their recursion takes out one   *)
(* chosen element after the other; the lemmas show that the order does not *)
(* matter and how a sum changes when one summand does.                     *)
(*                                                                         *)
(* The induction over the cardinality is the well-foundedness of < on Nat, *)
(* for the set of the numbers at which the claim holds.                    *)
(***************************************************************************)
EXTENDS Integers, Functions, FiniteSetTheorems, WellFoundedInduction, TLAPS

Pick(S) == CHOOSE x \in S : TRUE

(* g solves the recursion for the subsets of S.                            *)
Solves(g, f, S) ==
    g = [s \in SUBSET S |-> IF s = {} THEN 0 ELSE f[Pick(s)] + g[s \ {Pick(s)}]]

(* The sum is defined by a solution.                                       *)
LEMMA SumIsSolution ==
    ASSUME NEW f, NEW S
    PROVE  SumFunctionOnSet(f, S) = (CHOOSE g : Solves(g, f, S))[S]
BY DEF SumFunctionOnSet, FoldFunctionOnSet, MapThenFoldSet, Solves, Pick

(* Induction, for a set of numbers.                                        *)
LEMMA NatInductionOnSet ==
    ASSUME NEW T, 0 \in T, \A n \in Nat : n \in T => n + 1 \in T
    PROVE  Nat \subseteq T
<1> DEFINE bad == {n \in Nat : n \notin T}
<1> SUFFICES ASSUME bad # {} PROVE FALSE
    OBVIOUS
<1>1. PICK m \in bad : \A n \in bad : <<n, m>> \notin OpToRel(<, Nat)
    BY NatLessThanWellFounded, WFMin
<1>2. m # 0 /\ m - 1 \in Nat /\ m - 1 < m
    OBVIOUS
<1>3. m - 1 \notin bad
    BY <1>1, <1>2 DEF OpToRel
<1>4. (m - 1) + 1 = m
    BY <1>2
<1> QED
    BY <1>2, <1>3, <1>4

(* Taking an element out of a finite set.                                  *)
LEMMA SmallerSet ==
    ASSUME NEW S, IsFiniteSet(S), NEW x \in S
    PROVE  /\ IsFiniteSet(S \ {x})
           /\ Cardinality(S) \in Nat /\ Cardinality(S) # 0
           /\ Cardinality(S \ {x}) = Cardinality(S) - 1
BY FS_RemoveElement, FS_CardinalityType, FS_EmptySet

(* The chosen element of a set belongs to it.                              *)
LEMMA PickIsMember ==
    ASSUME NEW S, S # {}
    PROVE  Pick(S) \in S
BY DEF Pick

(* The recursion has a solution for every finite set, built up from the    *)
(* solutions for the subsets of at most n elements.                        *)
LEMMA SolutionExists ==
    ASSUME NEW f, NEW S, IsFiniteSet(S)
    PROVE  \E g : Solves(g, f, S)
<1> DEFINE Body(g, s) == IF s = {} THEN 0 ELSE f[Pick(s)] + g[s \ {Pick(s)}]
           UpTo(g, n) == \A s \in SUBSET S : Cardinality(s) <= n => g[s] = Body(g, s)
           T == {n \in Nat : \E g : UpTo(g, n)}
<1>1. \A s \in SUBSET S : IsFiniteSet(s) /\ Cardinality(s) \in Nat
    BY FS_Subset, FS_CardinalityType
<1>2. 0 \in T
    <2> DEFINE g == [s \in SUBSET S |-> 0]
    <2>1. \A s \in SUBSET S : Cardinality(s) <= 0 => s = {}
        BY <1>1, FS_EmptySet
    <2>2. UpTo(g, 0)
        BY <2>1
    <2> QED
        BY <2>2
<1>3. ASSUME NEW n \in Nat, n \in T PROVE n + 1 \in T
    <2>1. PICK g : UpTo(g, n)
        BY <1>3
    <2> DEFINE h == [s \in SUBSET S |-> Body(g, s)]
    <2>2. ASSUME NEW s \in SUBSET S, Cardinality(s) <= n + 1
          PROVE  h[s] = Body(h, s)
        <3>1. CASE s = {}
            BY <3>1
        <3>2. CASE s # {}
            <4> DEFINE t == s \ {Pick(s)}
            <4>1. t \in SUBSET S /\ Cardinality(t) <= n
                BY <1>1, <2>2, <3>2, PickIsMember, SmallerSet
            <4>2. h[t] = g[t]
                BY <2>1, <4>1
            <4> QED
                BY <3>2, <4>2
        <3> QED
            BY <3>1, <3>2
    <2>3. UpTo(h, n + 1)
        BY <2>2
    <2>4. \E k : UpTo(k, n + 1)
        <3> HIDE DEF UpTo, h
        <3> QED
            BY <2>3
    <2> HIDE DEF UpTo
    <2> QED
        BY <2>4
<1>4. Nat \subseteq T
    <2> HIDE DEF T
    <2> QED
        BY <1>2, <1>3, NatInductionOnSet
<1>5. PICK g : UpTo(g, Cardinality(S))
    BY <1>1, <1>4
<1> DEFINE h == [s \in SUBSET S |-> g[s]]
<1>6. ASSUME NEW s \in SUBSET S PROVE h[s] = Body(h, s)
    <2>1. Cardinality(s) <= Cardinality(S)
        BY FS_Subset
    <2>2. g[s] = Body(g, s)
        BY <1>5, <2>1
    <2> QED
        BY <2>2
<1>7. h = [s \in SUBSET S |-> Body(h, s)]
    BY <1>6
<1> QED
    BY <1>7 DEF Solves

(* Solutions for two sets and two functions agree where the functions do.  *)
LEMMA SolutionsAgree ==
    ASSUME NEW f, NEW g, NEW S, NEW R, NEW a, NEW b, Solves(a, f, S), Solves(b, g, R),
           NEW W \in SUBSET (S \cap R), IsFiniteSet(W), \A x \in W : f[x] = g[x]
    PROVE  a[W] = b[W]
<1> DEFINE Agree(V) == V \subseteq W => a[V] = b[V]
           T == {n \in Nat : \A V : IsFiniteSet(V) /\ Cardinality(V) = n => Agree(V)}
<1>1. 0 \in T
    <2>1. a[{}] = 0 /\ b[{}] = 0
        BY DEF Solves
    <2>2. \A V : IsFiniteSet(V) /\ Cardinality(V) = 0 => V = {}
        BY FS_EmptySet
    <2> QED
        BY <2>1, <2>2
<1>2. ASSUME NEW n \in Nat, n \in T PROVE n + 1 \in T
    <2> SUFFICES ASSUME NEW V, IsFiniteSet(V), Cardinality(V) = n + 1, V \subseteq W
                 PROVE  a[V] = b[V]
        OBVIOUS
    <2>1. V # {}
        BY FS_EmptySet
    <2> DEFINE p == Pick(V)
               U == V \ {p}
    <2>2. p \in V /\ IsFiniteSet(U) /\ Cardinality(U) = n
        BY <2>1, PickIsMember, SmallerSet
    <2>3. a[U] = b[U]
        BY <1>2, <2>2
    <2>4. a[V] = f[p] + a[U] /\ b[V] = g[p] + b[U]
        BY <2>1, <2>2 DEF Solves
    <2> QED
        BY <2>2, <2>3, <2>4
<1>3. Nat \subseteq T
    <2> HIDE DEF T
    <2> QED
        BY <1>1, <1>2, NatInductionOnSet
<1>4. Cardinality(W) \in T
    BY <1>3, FS_CardinalityType
<1> QED
    BY <1>4

-----------------------------------------------------------------------------
(* Sums. *)

(* A sum is the value of a solution.                                       *)
LEMMA SumSolution ==
    ASSUME NEW f, NEW S, IsFiniteSet(S)
    PROVE  \E g : Solves(g, f, S) /\ SumFunctionOnSet(f, S) = g[S]
<1> DEFINE c == CHOOSE g : Solves(g, f, S)
<1>1. Solves(c, f, S)
    BY SolutionExists
<1>2. SumFunctionOnSet(f, S) = c[S]
    BY SumIsSolution
<1> QED
    BY <1>1, <1>2

(* The empty sum.                                                          *)
LEMMA SumEmpty == \A f : SumFunctionOnSet(f, {}) = 0
<1> SUFFICES ASSUME NEW f PROVE SumFunctionOnSet(f, {}) = 0
    OBVIOUS
<1>1. PICK g : Solves(g, f, {}) /\ SumFunctionOnSet(f, {}) = g[{}]
    BY SumSolution, FS_EmptySet
<1> QED
    BY <1>1 DEF Solves

(* A sum depends on the summands only.                                     *)
LEMMA SumSame ==
    ASSUME NEW S, IsFiniteSet(S), NEW f, NEW g, \A x \in S : f[x] = g[x]
    PROVE  SumFunctionOnSet(f, S) = SumFunctionOnSet(g, S)
<1>1. PICK a : Solves(a, f, S) /\ SumFunctionOnSet(f, S) = a[S]
    BY SumSolution
<1>2. PICK b : Solves(b, g, S) /\ SumFunctionOnSet(g, S) = b[S]
    BY SumSolution
<1> QED
    BY <1>1, <1>2, SolutionsAgree

(* The recursion, for sums.                                                *)
LEMMA SumPick ==
    ASSUME NEW S, IsFiniteSet(S), S # {}, NEW f
    PROVE  SumFunctionOnSet(f, S) = f[Pick(S)] + SumFunctionOnSet(f, S \ {Pick(S)})
<1> DEFINE R == S \ {Pick(S)}
<1>1. IsFiniteSet(R) /\ R \in SUBSET S
    BY PickIsMember, SmallerSet
<1>2. PICK a : Solves(a, f, S) /\ SumFunctionOnSet(f, S) = a[S]
    BY SumSolution
<1>3. PICK b : Solves(b, f, R) /\ SumFunctionOnSet(f, R) = b[R]
    BY <1>1, SumSolution
<1>4. a[R] = b[R]
    BY <1>1, <1>2, <1>3, SolutionsAgree
<1>5. a[S] = f[Pick(S)] + a[R]
    BY <1>2 DEF Solves
<1> QED
    BY <1>2, <1>3, <1>4, <1>5

(* Sums of integers are integers.                                          *)
LEMMA SumType ==
    ASSUME NEW f, NEW S, IsFiniteSet(S), \A x \in S : f[x] \in Int
    PROVE  SumFunctionOnSet(f, S) \in Int
<1> DEFINE T == {n \in Nat : \A V \in SUBSET S :
                                  IsFiniteSet(V) /\ Cardinality(V) = n =>
                                      SumFunctionOnSet(f, V) \in Int}
<1>1. 0 \in T
    BY FS_EmptySet, SumEmpty
<1>2. ASSUME NEW n \in Nat, n \in T PROVE n + 1 \in T
    <2> SUFFICES ASSUME NEW V, IsFiniteSet(V), Cardinality(V) = n + 1, V \subseteq S
                 PROVE  SumFunctionOnSet(f, V) \in Int
        OBVIOUS
    <2>1. V # {}
        BY FS_EmptySet
    <2> DEFINE p == Pick(V)
    <2>2. p \in V /\ IsFiniteSet(V \ {p}) /\ Cardinality(V \ {p}) = n
        BY <2>1, PickIsMember, SmallerSet
    <2>3. SumFunctionOnSet(f, V) = f[p] + SumFunctionOnSet(f, V \ {p})
        BY <2>1, SumPick
    <2>4. SumFunctionOnSet(f, V \ {p}) \in Int
        BY <1>2, <2>2
    <2> QED
        BY <2>2, <2>3, <2>4
<1>3. Nat \subseteq T
    <2> HIDE DEF T
    <2> QED
        BY <1>1, <1>2, NatInductionOnSet
<1>4. Cardinality(S) \in T
    BY <1>3, FS_CardinalityType
<1> QED
    BY <1>4

(* The summands may be taken in any order.                                 *)
LEMMA SumRemove ==
    ASSUME NEW f, NEW S, IsFiniteSet(S), \A x \in S : f[x] \in Int, NEW y \in S
    PROVE  SumFunctionOnSet(f, S) = f[y] + SumFunctionOnSet(f, S \ {y})
<1> DEFINE Any(V) == \A x \in V :
                        SumFunctionOnSet(f, V) = f[x] + SumFunctionOnSet(f, V \ {x})
           T == {n \in Nat : \A V \in SUBSET S :
                                  IsFiniteSet(V) /\ Cardinality(V) = n => Any(V)}
<1>1. 0 \in T
    BY FS_EmptySet
<1>2. ASSUME NEW n \in Nat, n \in T PROVE n + 1 \in T
    <2> SUFFICES ASSUME NEW V, IsFiniteSet(V), Cardinality(V) = n + 1, V \subseteq S,
                        NEW x \in V
                 PROVE  SumFunctionOnSet(f, V) = f[x] + SumFunctionOnSet(f, V \ {x})
        OBVIOUS
    <2> DEFINE p == Pick(V)
    <2>1. p \in V /\ IsFiniteSet(V \ {p}) /\ Cardinality(V \ {p}) = n
        BY PickIsMember, SmallerSet
    <2>2. SumFunctionOnSet(f, V) = f[p] + SumFunctionOnSet(f, V \ {p})
        BY SumPick
    <2> HIDE DEF p
    <2>3. CASE x = p
        BY <2>2, <2>3
    <2>4. CASE x # p
        <3>1. x \in V \ {p} /\ p \in V \ {x}
            BY <2>1, <2>4
        <3>2. SumFunctionOnSet(f, V \ {p}) = f[x] + SumFunctionOnSet(f, (V \ {p}) \ {x})
            BY <1>2, <2>1, <3>1
        <3>3. IsFiniteSet(V \ {x}) /\ Cardinality(V \ {x}) = n
            BY SmallerSet
        <3>4. SumFunctionOnSet(f, V \ {x}) = f[p] + SumFunctionOnSet(f, (V \ {x}) \ {p})
            BY <1>2, <3>1, <3>3
        <3>5. (V \ {p}) \ {x} = (V \ {x}) \ {p}
            OBVIOUS
        <3> DEFINE W == (V \ {x}) \ {p}
        <3>6. SumFunctionOnSet(f, W) \in Int
            <4>1. IsFiniteSet(W) /\ W \subseteq S
                BY <3>1, <3>3, SmallerSet
            <4> QED
                BY <4>1, SumType
        <3>7. f[x] \in Int /\ f[p] \in Int
            BY <2>1
        <3> HIDE DEF W
        <3>8. /\ SumFunctionOnSet(f, V \ {p}) = f[x] + SumFunctionOnSet(f, W)
              /\ SumFunctionOnSet(f, V \ {x}) = f[p] + SumFunctionOnSet(f, W)
            BY <3>2, <3>4, <3>5 DEF W
        <3> QED
            BY <2>2, <3>6, <3>7, <3>8
    <2> QED
        BY <2>3, <2>4
<1>3. Nat \subseteq T
    <2> HIDE DEF T
    <2> QED
        BY <1>1, <1>2, NatInductionOnSet
<1>4. Cardinality(S) \in T
    BY <1>3, FS_CardinalityType
<1> QED
    BY <1>4

(* A summand more.                                                         *)
LEMMA SumAdd ==
    ASSUME NEW f, NEW S, IsFiniteSet(S), NEW y, y \notin S,
           \A x \in S \cup {y} : f[x] \in Int
    PROVE  SumFunctionOnSet(f, S \cup {y}) = f[y] + SumFunctionOnSet(f, S)
<1>1. IsFiniteSet(S \cup {y}) /\ (S \cup {y}) \ {y} = S
    BY FS_AddElement
<1> QED
    BY <1>1, SumRemove

(* One summand changes.                                                    *)
LEMMA SumUpdate ==
    ASSUME NEW f, NEW g, NEW S, IsFiniteSet(S), NEW y \in S,
           \A x \in S : f[x] \in Int /\ g[x] \in Int,
           \A x \in S \ {y} : f[x] = g[x]
    PROVE  SumFunctionOnSet(g, S) = SumFunctionOnSet(f, S) + (g[y] - f[y])
<1>1. SumFunctionOnSet(f, S) = f[y] + SumFunctionOnSet(f, S \ {y})
    BY SumRemove
<1>2. SumFunctionOnSet(g, S) = g[y] + SumFunctionOnSet(g, S \ {y})
    BY SumRemove
<1>3. IsFiniteSet(S \ {y})
    BY SmallerSet
<1>4. /\ SumFunctionOnSet(f, S \ {y}) = SumFunctionOnSet(g, S \ {y})
      /\ SumFunctionOnSet(f, S \ {y}) \in Int
    BY <1>3, SumSame, SumType
<1>5. f[y] \in Int /\ g[y] \in Int
    OBVIOUS
<1> QED
    BY <1>1, <1>2, <1>4, <1>5

(* Summing natural numbers, a part adds up to no more than the whole.      *)
LEMMA SumOfPart ==
    ASSUME NEW f, NEW S, IsFiniteSet(S), \A x \in S : f[x] \in Nat, NEW R
    PROVE  /\ SumFunctionOnSet(f, S) \in Nat
           /\ SumFunctionOnSet(f, S \cap R) \in Nat
           /\ SumFunctionOnSet(f, S \cap R) <= SumFunctionOnSet(f, S)
<1> DEFINE Good(V) == /\ SumFunctionOnSet(f, V) \in Nat
                      /\ SumFunctionOnSet(f, V \cap R) \in Nat
                      /\ SumFunctionOnSet(f, V \cap R) <= SumFunctionOnSet(f, V)
           T == {n \in Nat : \A V \in SUBSET S :
                                  IsFiniteSet(V) /\ Cardinality(V) = n => Good(V)}
<1>1. 0 \in T
    <2>1. \A V : IsFiniteSet(V) /\ Cardinality(V) = 0 => V = {} /\ V \cap R = {}
        BY FS_EmptySet
    <2> QED
        BY <2>1, SumEmpty
<1>2. ASSUME NEW n \in Nat, n \in T PROVE n + 1 \in T
    <2> SUFFICES ASSUME NEW V, IsFiniteSet(V), Cardinality(V) = n + 1, V \subseteq S
                 PROVE  Good(V)
        OBVIOUS
    <2>1. PICK p \in V : TRUE
        BY FS_EmptySet
    <2> DEFINE U == V \ {p}
    <2>2. IsFiniteSet(U) /\ Cardinality(U) = n /\ f[p] \in Nat
        BY <2>1, SmallerSet
    <2>3. Good(U)
        BY <1>2, <2>2
    <2>4. SumFunctionOnSet(f, V) = f[p] + SumFunctionOnSet(f, U)
        BY <2>1, SumRemove
    <2>5. CASE p \in R
        <3>1. p \in V \cap R /\ (V \cap R) \ {p} = U \cap R /\ IsFiniteSet(V \cap R)
            BY <2>1, <2>5, FS_Intersection
        <3>2. SumFunctionOnSet(f, V \cap R) = f[p] + SumFunctionOnSet(f, U \cap R)
            BY <3>1, SumRemove
        <3> HIDE DEF U
        <3> QED
            BY <2>2, <2>3, <2>4, <3>2
    <2>6. CASE p \notin R
        <3>1. V \cap R = U \cap R
            BY <2>6
        <3> HIDE DEF U
        <3> QED
            BY <2>2, <2>3, <2>4, <3>1
    <2> QED
        BY <2>5, <2>6
<1>3. Nat \subseteq T
    <2> HIDE DEF T
    <2> QED
        BY <1>1, <1>2, NatInductionOnSet
<1>4. Cardinality(S) \in T
    BY <1>3, FS_CardinalityType
<1> QED
    BY <1>4

(* A sum of zeros.                                                         *)
LEMMA SumOfZeros ==
    ASSUME NEW f, NEW S, IsFiniteSet(S), \A x \in S : f[x] = 0
    PROVE  SumFunctionOnSet(f, S) = 0
<1> DEFINE T == {n \in Nat : \A V \in SUBSET S :
                                  IsFiniteSet(V) /\ Cardinality(V) = n =>
                                      SumFunctionOnSet(f, V) = 0}
<1>1. 0 \in T
    BY FS_EmptySet, SumEmpty
<1>2. ASSUME NEW n \in Nat, n \in T PROVE n + 1 \in T
    <2> SUFFICES ASSUME NEW V, IsFiniteSet(V), Cardinality(V) = n + 1, V \subseteq S
                 PROVE  SumFunctionOnSet(f, V) = 0
        OBVIOUS
    <2>1. PICK p \in V : TRUE
        BY FS_EmptySet
    <2>2. IsFiniteSet(V \ {p}) /\ Cardinality(V \ {p}) = n /\ f[p] = 0
        BY <2>1, SmallerSet
    <2>3. SumFunctionOnSet(f, V \ {p}) = 0
        BY <1>2, <2>2
    <2>4. SumFunctionOnSet(f, V) = f[p] + SumFunctionOnSet(f, V \ {p})
        BY <2>1, SumRemove
    <2> QED
        BY <2>2, <2>3, <2>4
<1>3. Nat \subseteq T
    <2> HIDE DEF T
    <2> QED
        BY <1>1, <1>2, NatInductionOnSet
<1>4. Cardinality(S) \in T
    BY <1>3, FS_CardinalityType
<1> QED
    BY <1>4

(* h maps S one to one to R, and g to f.                                   *)
Renames(h, g, S, f, R) ==
    /\ \A x \in S : h[x] \in R /\ g[x] = f[h[x]] /\ f[h[x]] \in Int
    /\ \A x, y \in S : h[x] = h[y] => x = y
    /\ \A y \in R : \E x \in S : h[x] = y

(* Renaming what is summed over does not change the sum.                   *)
LEMMA SumRenamed ==
    ASSUME NEW h, NEW g, NEW S, NEW f, NEW R, IsFiniteSet(S), Renames(h, g, S, f, R)
    PROVE  SumFunctionOnSet(g, S) = SumFunctionOnSet(f, R)
<1> USE DEF Renames
<1> DEFINE Image(V) == {h[x] : x \in V}
           T == {n \in Nat : \A V \in SUBSET S :
                                  IsFiniteSet(V) /\ Cardinality(V) = n =>
                                  /\ IsFiniteSet(Image(V))
                                  /\ SumFunctionOnSet(g, V) = SumFunctionOnSet(f, Image(V))}
<1>1. 0 \in T
    <2>1. \A V : IsFiniteSet(V) /\ Cardinality(V) = 0 => V = {} /\ Image(V) = {}
        BY FS_EmptySet
    <2> QED
        BY <2>1, SumEmpty, FS_EmptySet
<1>2. ASSUME NEW n \in Nat, n \in T PROVE n + 1 \in T
    <2> SUFFICES ASSUME NEW V, IsFiniteSet(V), Cardinality(V) = n + 1, V \subseteq S
                 PROVE  /\ IsFiniteSet(Image(V))
                        /\ SumFunctionOnSet(g, V) = SumFunctionOnSet(f, Image(V))
        OBVIOUS
    <2>1. PICK p \in V : TRUE
        BY FS_EmptySet
    <2> DEFINE U == V \ {p}
    <2>2. IsFiniteSet(U) /\ Cardinality(U) = n
        BY <2>1, SmallerSet
    <2>3. /\ IsFiniteSet(Image(U))
          /\ SumFunctionOnSet(g, U) = SumFunctionOnSet(f, Image(U))
        BY <1>2, <2>2
    <2>4. SumFunctionOnSet(g, V) = g[p] + SumFunctionOnSet(g, U)
        BY <2>1, SumRemove
    <2>5. h[p] \notin Image(U) /\ Image(V) = Image(U) \cup {h[p]}
        BY <2>1
    <2>6. \A z \in Image(U) \cup {h[p]} : f[z] \in Int
        BY <2>1
    <2> HIDE DEF Image, U
    <2>7. SumFunctionOnSet(f, Image(V)) = f[h[p]] + SumFunctionOnSet(f, Image(U))
        BY <2>3, <2>5, <2>6, SumAdd
    <2>8. IsFiniteSet(Image(V))
        BY <2>3, <2>5, FS_AddElement
    <2> QED
        BY <2>1, <2>3, <2>4, <2>7, <2>8
<1>3. Nat \subseteq T
    <2> HIDE DEF T
    <2> QED
        BY <1>1, <1>2, NatInductionOnSet
<1>4. Cardinality(S) \in T
    BY <1>3, FS_CardinalityType
<1>5. R = Image(S)
    OBVIOUS
<1> QED
    BY <1>4, <1>5

=============================================================================
