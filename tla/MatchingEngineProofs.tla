------------------------ MODULE MatchingEngineProofs ------------------------
(***************************************************************************)
(* The safety of the matching engine for every set of ids, every finite    *)
(* set of integer prices and every MaxQty.                                 *)
(*                                                                         *)
(* The first part has the facts about the operators of module OrderBook:   *)
(* sums over finite sets, the recursive sum QueueQty over a level's queue, *)
(* the removal of a node, the best price of a side, and what every         *)
(* operation does to the book.  Induction is stated with a set instead of  *)
(* a predicate: a set of naturals that holds 0 and is closed under         *)
(* successor is all of Nat, by the well-foundedness of < on Nat.           *)
(*                                                                         *)
(* The second part is about the engine's steps.  None of the invariants is *)
(* inductive alone: trading and unlinking need the index and the totals to *)
(* be right, an uncrossed book needs Best to be a price of the book, and   *)
(* Settle needs to know that only the front order of the best level can be *)
(* spent.  IInv is their conjunction.                                      *)
(***************************************************************************)
EXTENDS MatchingEngine, SequenceTheorems, FiniteSetTheorems, WellFoundedInduction, TLAPS

\* Every non-empty set of naturals has a least element.
LEMMA LeastNatural ==
    ASSUME NEW T \in SUBSET Nat, T # {}
    PROVE  \E x \in T : \A y \in T : x <= y
<1> DEFINE R == {ss \in Nat \X Nat : ss[1] < ss[2]}
<1>1. IsWellFoundedOn(R, Nat)
    BY NatLessThanWellFounded DEF OpToRel
<1>2. \E x \in T : \A y \in T : ~ (<<y, x>> \in R)
    <2> HIDE DEF R
    <2> QED
        BY <1>1, WFMin
<1>3. ASSUME NEW x \in Nat, NEW y \in Nat, ~ (<<y, x>> \in R)
      PROVE  x <= y
    BY <1>3
<1> QED
    BY <1>2, <1>3

\* Induction over the naturals, for a set of them.
LEMMA SetInduction ==
    ASSUME NEW S, 0 \in S, \A n \in Nat : n \in S => n + 1 \in S
    PROVE  Nat \subseteq S
<1> SUFFICES ASSUME Nat \ S # {} PROVE FALSE
    OBVIOUS
<1>1. PICK x \in Nat \ S : \A y \in Nat \ S : x <= y
    BY LeastNatural
<1>2. x - 1 \in Nat \ S
    BY <1>1
<1> QED
    BY <1>1, <1>2

(***************************************************************************)
(* Sums over finite sets.  SumFunctionOnSet is a fold that takes the       *)
(* elements out in the order of a CHOOSE; it is characterised here by the  *)
(* element taken out being any.  The summed function is data, so these     *)
(* lemmas can be used for every sum of the models.                         *)
(***************************************************************************)

\* The element the fold takes out of s first.
Pick(s) == CHOOSE x \in s : TRUE

\* g holds the sums of f over the subsets of S that are in D.
PartialSums(f, g, D) ==
    g = [s \in D |-> IF s = {} THEN 0 ELSE f[Pick(s)] + g[s \ {Pick(s)}]]

\* f has an integer for every element of S.
Summable(f, S) == IsFiniteSet(S) /\ \A x \in S : f[x] \in Int

\* Taking the first element out of a finite set leaves a smaller one.
LEMMA PickLeaves ==
    ASSUME NEW S, IsFiniteSet(S), S # {}
    PROVE  /\ Pick(S) \in S
           /\ IsFiniteSet(S \ {Pick(S)})
           /\ Cardinality(S) \in Nat /\ Cardinality(S) # 0
           /\ Cardinality(S \ {Pick(S)}) = Cardinality(S) - 1
<1>1. Pick(S) \in S
    BY DEF Pick
<1>2. Cardinality(S) \in Nat /\ Cardinality(S) # 0
    BY FS_CardinalityType, FS_EmptySet
<1> QED
    BY <1>1, <1>2, FS_RemoveElement

\* Sums exist for all subsets of a finite set, by the size of the subsets.
LEMMA PartialSumsExist ==
    ASSUME NEW f, NEW S, Summable(f, S)
    PROVE  \E g \in [SUBSET S -> Int] : PartialSums(f, g, SUBSET S)
<1> DEFINE Upto(n) == {s \in SUBSET S : Cardinality(s) <= n}
           N == {n \in Nat : \E g \in [Upto(n) -> Int] : PartialSums(f, g, Upto(n))}
<1>0. \A s \in SUBSET S : IsFiniteSet(s) /\ Cardinality(s) \in Nat
    BY FS_Subset, FS_CardinalityType DEF Summable
<1>1. 0 \in N
    <2> DEFINE g == [s \in Upto(0) |-> 0]
    <2>1. \A s \in Upto(0) : s = {}
        BY <1>0, FS_EmptySet
    <2>2. g \in [Upto(0) -> Int] /\ PartialSums(f, g, Upto(0))
        BY <2>1 DEF PartialSums
    <2> QED
        BY <2>2
<1>2. ASSUME NEW n \in Nat, n \in N PROVE n + 1 \in N
    <2>1. PICK g \in [Upto(n) -> Int] : PartialSums(f, g, Upto(n))
        BY <1>2
    <2> DEFINE D == Upto(n + 1)
               h == [s \in D |-> IF s = {} THEN 0 ELSE f[Pick(s)] + g[s \ {Pick(s)}]]
    <2>2. ASSUME NEW s \in D, s # {}
          PROVE  Pick(s) \in S /\ s \ {Pick(s)} \in Upto(n)
        BY <1>0, <2>2, PickLeaves
    <2>3. ASSUME NEW s \in Upto(n) PROVE s \in D /\ h[s] = g[s]
        <3>1. s \in D
            BY <1>0, <2>3
        <3>2. g[s] = IF s = {} THEN 0 ELSE f[Pick(s)] + g[s \ {Pick(s)}]
            BY <2>1, <2>3 DEF PartialSums
        <3> QED
            BY <3>1, <3>2
    <2>4. h \in [D -> Int]
        <3>1. ASSUME NEW s \in D PROVE h[s] \in Int
            BY <2>1, <2>2 DEF Summable
        <3> QED
            BY <3>1
    <2> HIDE DEF D, Upto
    <2>5. PartialSums(f, h, D)
        <3>1. ASSUME NEW s \in D
              PROVE  h[s] = IF s = {} THEN 0 ELSE f[Pick(s)] + h[s \ {Pick(s)}]
            BY <2>2, <2>3
        <3>2. h = [s \in D |-> h[s]]
            OBVIOUS
        <3> HIDE DEF h
        <3> QED
            BY <3>1, <3>2 DEF PartialSums
    <2> HIDE DEF h
    <2> QED
        BY <2>4, <2>5 DEF D
<1>3. Nat \subseteq N
    <2> HIDE DEF N
    <2> QED
        BY <1>1, <1>2, SetInduction
<1>4. IsFiniteSet(S) /\ Cardinality(S) \in Nat
    BY <1>0
<1>5. \A s \in SUBSET S : Cardinality(s) <= Cardinality(S)
    BY <1>4, FS_Subset
<1>6. Upto(Cardinality(S)) = SUBSET S
    BY <1>5
<1>7. \E g \in [Upto(Cardinality(S)) -> Int] : PartialSums(f, g, Upto(Cardinality(S)))
    <2> HIDE DEF Upto
    <2> QED
        BY <1>3, <1>4
<1> HIDE DEF Upto, N
<1> QED
    BY <1>6, <1>7

\* Two such functions agree wherever both are defined.
LEMMA PartialSumsUnique ==
    ASSUME NEW f, NEW S, NEW T, NEW g, NEW h, Summable(f, S), T \subseteq S,
           PartialSums(f, g, SUBSET S), PartialSums(f, h, SUBSET T)
    PROVE  g[T] = h[T]
<1> DEFINE N == {n \in Nat : \A s \in SUBSET T : Cardinality(s) = n => g[s] = h[s]}
<1>0. \A s \in SUBSET T : IsFiniteSet(s) /\ Cardinality(s) \in Nat
    BY FS_Subset, FS_CardinalityType DEF Summable
<1>a. ASSUME NEW s \in SUBSET T
      PROVE  /\ g[s] = IF s = {} THEN 0 ELSE f[Pick(s)] + g[s \ {Pick(s)}]
             /\ h[s] = IF s = {} THEN 0 ELSE f[Pick(s)] + h[s \ {Pick(s)}]
    BY DEF PartialSums
<1>1. 0 \in N
    BY <1>0, <1>a, FS_EmptySet
<1>2. ASSUME NEW n \in Nat, n \in N PROVE n + 1 \in N
    <2> SUFFICES ASSUME NEW s \in SUBSET T, Cardinality(s) = n + 1
                 PROVE  g[s] = h[s]
        OBVIOUS
    <2>1. s # {}
        BY FS_EmptySet
    <2>2. s \ {Pick(s)} \in SUBSET T /\ Cardinality(s \ {Pick(s)}) = n
        BY <1>0, <2>1, PickLeaves
    <2> QED
        BY <1>2, <1>a, <2>1, <2>2
<1>3. Nat \subseteq N
    <2> HIDE DEF N
    <2> QED
        BY <1>1, <1>2, SetInduction
<1> QED
    BY <1>0, <1>3

\* The fold is the value its defining equation has at the whole set.
LEMMA SumIsPartialSum ==
    ASSUME NEW f, NEW S, NEW T, NEW g, Summable(f, S), T \subseteq S,
           PartialSums(f, g, SUBSET S)
    PROVE  SumFunctionOnSet(f, T) = g[T]
<1>1. Summable(f, T)
    BY FS_Subset DEF Summable
<1>2. PICK h : PartialSums(f, h, SUBSET T)
    BY <1>1, PartialSumsExist
<1> DEFINE iter == CHOOSE i : PartialSums(f, i, SUBSET T)
<1>3. SumFunctionOnSet(f, T) = iter[T]
    BY DEF SumFunctionOnSet, FoldFunctionOnSet, MapThenFoldSet, PartialSums, Pick
<1>4. PartialSums(f, iter, SUBSET T)
    BY <1>2
<1> HIDE DEF iter
<1>5. g[T] = iter[T]
    BY <1>4, PartialSumsUnique
<1> QED
    BY <1>3, <1>5

\* The sum over the empty set, and over a set by its first element.
LEMMA SumByPick ==
    ASSUME NEW f, NEW S, Summable(f, S)
    PROVE  /\ SumFunctionOnSet(f, S) \in Int
           /\ SumFunctionOnSet(f, S) =
                IF S = {} THEN 0 ELSE f[Pick(S)] + SumFunctionOnSet(f, S \ {Pick(S)})
<1>1. PICK g \in [SUBSET S -> Int] : PartialSums(f, g, SUBSET S)
    BY PartialSumsExist
<1>2. \A T \in SUBSET S : SumFunctionOnSet(f, T) = g[T]
    BY <1>1, SumIsPartialSum
<1>3. g[S] = IF S = {} THEN 0 ELSE f[Pick(S)] + g[S \ {Pick(S)}]
    BY <1>1 DEF PartialSums
<1> QED
    BY <1>1, <1>2, <1>3

LEMMA SumType ==
    ASSUME NEW f, NEW S, Summable(f, S)
    PROVE  SumFunctionOnSet(f, S) \in Int
    BY SumByPick

LEMMA SumEmpty ==
    ASSUME NEW f
    PROVE  SumFunctionOnSet(f, {}) = 0
<1>1. Summable(f, {})
    BY FS_EmptySet DEF Summable
<1> QED
    BY <1>1, SumByPick

\* Any element may be taken out first.
LEMMA SumTake ==
    ASSUME NEW f, NEW S, Summable(f, S), NEW y \in S
    PROVE  SumFunctionOnSet(f, S) = f[y] + SumFunctionOnSet(f, S \ {y})
<1> DEFINE Sum(T) == SumFunctionOnSet(f, T)
           N == {n \in Nat : \A T \in SUBSET S : Cardinality(T) = n =>
                               \A z \in T : Sum(T) = f[z] + Sum(T \ {z})}
<1>0. \A T \in SUBSET S : /\ Summable(f, T) /\ IsFiniteSet(T) /\ Cardinality(T) \in Nat
                          /\ Sum(T) \in Int
    BY FS_Subset, FS_CardinalityType, SumType DEF Summable
<1>f. \A z \in S : f[z] \in Int
    BY DEF Summable
<1>1. 0 \in N
    BY <1>0, FS_EmptySet
<1>2. ASSUME NEW n \in Nat, n \in N PROVE n + 1 \in N
    <2> SUFFICES ASSUME NEW T \in SUBSET S, Cardinality(T) = n + 1, NEW z \in T
                 PROVE  Sum(T) = f[z] + Sum(T \ {z})
        OBVIOUS
    <2> DEFINE x == Pick(T)
    <2>1. x \in T /\ Cardinality(T \ {x}) = n
        BY <1>0, PickLeaves
    <2>2. Sum(T) = f[x] + Sum(T \ {x})
        BY <1>0, SumByPick
    <2>3. CASE z = x
        BY <2>2, <2>3
    <2>4. CASE z # x
        <3>1. Cardinality(T \ {z}) = n
            BY <1>0, FS_RemoveElement
        <3>2. Sum(T \ {x}) = f[z] + Sum((T \ {x}) \ {z})
            BY <1>2, <2>1, <2>4
        <3>3. Sum(T \ {z}) = f[x] + Sum((T \ {z}) \ {x})
            BY <1>2, <2>1, <2>4, <3>1
        <3>4. (T \ {x}) \ {z} = (T \ {z}) \ {x}
            OBVIOUS
        <3>5. Sum((T \ {z}) \ {x}) \in Int /\ f[x] \in Int /\ f[z] \in Int
            BY <1>0, <1>f, <2>1
        <3>6. \A a, b, c \in Int : a + (b + c) = b + (a + c)
            OBVIOUS
        <3> HIDE DEF Sum, x
        <3>7. Sum(T) = f[x] + (f[z] + Sum((T \ {z}) \ {x}))
            BY <2>2, <3>2, <3>4
        <3> QED
            BY <3>3, <3>5, <3>6, <3>7
    <2> QED
        BY <2>3, <2>4
<1>3. Nat \subseteq N
    <2> HIDE DEF N
    <2> QED
        BY <1>1, <1>2, SetInduction
<1>4. Cardinality(S) \in Nat
    BY <1>0
<1> QED
    BY <1>3, <1>4

\* A new element adds its value.
LEMMA SumAdd ==
    ASSUME NEW f, NEW S, Summable(f, S), NEW y, y \notin S, f[y] \in Int
    PROVE  /\ Summable(f, S \cup {y})
           /\ SumFunctionOnSet(f, S \cup {y}) = SumFunctionOnSet(f, S) + f[y]
<1>1. Summable(f, S \cup {y})
    BY FS_AddElement DEF Summable
<1>2. (S \cup {y}) \ {y} = S
    OBVIOUS
<1>3. SumFunctionOnSet(f, S \cup {y}) = f[y] + SumFunctionOnSet(f, S)
    BY <1>1, <1>2, SumTake
<1> QED
    BY <1>1, <1>3, SumType

\* Only the values at the elements matter.
LEMMA SumSame ==
    ASSUME NEW f, NEW g, NEW S, Summable(f, S), \A x \in S : f[x] = g[x]
    PROVE  Summable(g, S) /\ SumFunctionOnSet(f, S) = SumFunctionOnSet(g, S)
<1> DEFINE N == {n \in Nat : \A T \in SUBSET S : Cardinality(T) = n =>
                               SumFunctionOnSet(f, T) = SumFunctionOnSet(g, T)}
<1>0. \A T \in SUBSET S : /\ Summable(f, T) /\ Summable(g, T)
                          /\ IsFiniteSet(T) /\ Cardinality(T) \in Nat
    BY FS_Subset, FS_CardinalityType DEF Summable
<1>1. 0 \in N
    BY <1>0, FS_EmptySet, SumEmpty
<1>2. ASSUME NEW n \in Nat, n \in N PROVE n + 1 \in N
    <2> SUFFICES ASSUME NEW T \in SUBSET S, Cardinality(T) = n + 1
                 PROVE  SumFunctionOnSet(f, T) = SumFunctionOnSet(g, T)
        OBVIOUS
    <2>1. T # {}
        BY FS_EmptySet
    <2>2. Pick(T) \in T /\ Cardinality(T \ {Pick(T)}) = n
        BY <1>0, <2>1, PickLeaves
    <2>3. SumFunctionOnSet(f, T \ {Pick(T)}) = SumFunctionOnSet(g, T \ {Pick(T)})
        BY <1>2, <2>2
    <2>4. /\ SumFunctionOnSet(f, T) = f[Pick(T)] + SumFunctionOnSet(f, T \ {Pick(T)})
          /\ SumFunctionOnSet(g, T) = g[Pick(T)] + SumFunctionOnSet(g, T \ {Pick(T)})
        BY <1>0, <2>1, SumByPick
    <2> QED
        BY <2>2, <2>3, <2>4
<1>3. Nat \subseteq N
    <2> HIDE DEF N
    <2> QED
        BY <1>1, <1>2, SetInduction
<1> QED
    BY <1>0, <1>3

\* Changing the value at one element changes the sum by as much.
LEMMA SumChange ==
    ASSUME NEW f, NEW g, NEW S, Summable(f, S), NEW y \in S, g[y] \in Int,
           \A x \in S \ {y} : f[x] = g[x]
    PROVE  /\ Summable(g, S)
           /\ SumFunctionOnSet(g, S) = SumFunctionOnSet(f, S) + (g[y] - f[y])
<1>1. Summable(g, S)
    BY DEF Summable
<1>2. Summable(f, S \ {y}) /\ f[y] \in Int
    BY FS_RemoveElement DEF Summable
<1>3. /\ SumFunctionOnSet(f, S) = f[y] + SumFunctionOnSet(f, S \ {y})
      /\ SumFunctionOnSet(g, S) = g[y] + SumFunctionOnSet(g, S \ {y})
    BY <1>1, SumTake
<1>4. SumFunctionOnSet(f, S \ {y}) = SumFunctionOnSet(g, S \ {y})
    BY <1>2, SumSame
<1> QED
    BY <1>1, <1>2, <1>3, <1>4, SumType

\* A sum of values of at most c is at most c times their number.
LEMMA SumBound ==
    ASSUME NEW f, NEW S, Summable(f, S), NEW c \in Nat, \A x \in S : f[x] <= c
    PROVE  SumFunctionOnSet(f, S) <= Cardinality(S) * c
<1> DEFINE N == {n \in Nat : \A T \in SUBSET S : Cardinality(T) = n =>
                               SumFunctionOnSet(f, T) <= n * c}
<1>0. \A T \in SUBSET S : /\ Summable(f, T) /\ IsFiniteSet(T) /\ Cardinality(T) \in Nat
                          /\ SumFunctionOnSet(f, T) \in Int
    BY FS_Subset, FS_CardinalityType, SumType DEF Summable
<1>1. 0 \in N
    BY <1>0, FS_EmptySet, SumEmpty
<1>2. ASSUME NEW n \in Nat, n \in N PROVE n + 1 \in N
    <2> SUFFICES ASSUME NEW T \in SUBSET S, Cardinality(T) = n + 1
                 PROVE  SumFunctionOnSet(f, T) <= (n + 1) * c
        OBVIOUS
    <2>1. T # {}
        BY FS_EmptySet
    <2>2. Pick(T) \in T /\ Cardinality(T \ {Pick(T)}) = n
        BY <1>0, <2>1, PickLeaves
    <2>3. SumFunctionOnSet(f, T \ {Pick(T)}) <= n * c
        BY <1>2, <2>2
    <2>4. SumFunctionOnSet(f, T) = f[Pick(T)] + SumFunctionOnSet(f, T \ {Pick(T)})
        BY <1>0, <2>1, SumByPick
    <2>5. /\ f[Pick(T)] \in Int /\ f[Pick(T)] <= c
          /\ SumFunctionOnSet(f, T \ {Pick(T)}) \in Int
        BY <1>0, <2>2 DEF Summable
    <2>6. (n + 1) * c = n * c + c /\ n * c \in Int
        OBVIOUS
    <2> QED
        BY <2>3, <2>4, <2>5, <2>6
<1>3. Nat \subseteq N
    <2> HIDE DEF N
    <2> QED
        BY <1>1, <1>2, SetInduction
<1> QED
    BY <1>0, <1>3

\* The sum over two disjoint sets is the sum of their sums.
LEMMA SumDisjoint ==
    ASSUME NEW f, NEW S, Summable(f, S), NEW A \in SUBSET S, NEW B \in SUBSET S, A \cap B = {}
    PROVE  SumFunctionOnSet(f, A \cup B) = SumFunctionOnSet(f, A) + SumFunctionOnSet(f, B)
<1> DEFINE Sum(T) == SumFunctionOnSet(f, T)
           N == {n \in Nat : \A C \in SUBSET B : Cardinality(C) = n =>
                               Sum(A \cup C) = Sum(A) + Sum(C)}
<1>0. \A T \in SUBSET S : /\ Summable(f, T) /\ IsFiniteSet(T) /\ Cardinality(T) \in Nat
                          /\ Sum(T) \in Int
    BY FS_Subset, FS_CardinalityType, SumType DEF Summable
<1>f. \A z \in S : f[z] \in Int
    BY DEF Summable
<1>1. 0 \in N
    <2> SUFFICES ASSUME NEW C \in SUBSET B, Cardinality(C) = 0
                 PROVE  Sum(A \cup C) = Sum(A) + Sum(C)
        OBVIOUS
    <2>1. C = {} /\ A \cup C = A
        BY <1>0, FS_EmptySet
    <2>2. Sum(C) = 0 /\ Sum(A) \in Int
        BY <1>0, <2>1, SumEmpty
    <2> HIDE DEF Sum
    <2> QED
        BY <2>1, <2>2
<1>2. ASSUME NEW n \in Nat, n \in N PROVE n + 1 \in N
    <2> SUFFICES ASSUME NEW C \in SUBSET B, Cardinality(C) = n + 1
                 PROVE  Sum(A \cup C) = Sum(A) + Sum(C)
        OBVIOUS
    <2>1. C # {} /\ C \in SUBSET S
        BY FS_EmptySet
    <2>2. PICK x \in C : x = Pick(C) /\ Cardinality(C \ {x}) = n
        BY <1>0, <2>1, PickLeaves
    <2>3. Sum(A \cup (C \ {x})) = Sum(A) + Sum(C \ {x})
        BY <1>2, <2>2
    <2>4. Sum(C) = f[x] + Sum(C \ {x})
        BY <1>0, <2>1, <2>2, SumTake
    <2>5. (A \cup C) \ {x} = A \cup (C \ {x}) /\ x \in A \cup C /\ A \cup C \in SUBSET S
        BY <2>1, <2>2
    <2>6. Sum(A \cup C) = f[x] + Sum(A \cup (C \ {x}))
        <3>1. Sum(A \cup C) = f[x] + Sum((A \cup C) \ {x})
            BY <1>0, <2>5, SumTake
        <3> HIDE DEF Sum
        <3> QED
            BY <2>5, <3>1
    <2>7. f[x] \in Int /\ Sum(A) \in Int /\ Sum(C \ {x}) \in Int
        BY <1>0, <1>f, <2>1, <2>2
    <2>8. \A a, b, c \in Int : c + (a + b) = a + (c + b)
        OBVIOUS
    <2> HIDE DEF Sum
    <2> QED
        BY <2>3, <2>4, <2>6, <2>7, <2>8
<1>3. Nat \subseteq N
    <2> HIDE DEF N
    <2> QED
        BY <1>1, <1>2, SetInduction
<1>4. Cardinality(B) \in Nat
    BY <1>0
<1> QED
    BY <1>3, <1>4

\* The elements of the parts of an indexed family.
Whole(part, T) == UNION {part[t] : t \in T}

\* The elements taken part by part: the sums of finitely many disjoint parts
\* add up to the sum over their union.
LEMMA SumByParts ==
    ASSUME NEW f, NEW T, IsFiniteSet(T), NEW part, NEW g,
           \A t \in T : Summable(f, part[t]) /\ g[t] = SumFunctionOnSet(f, part[t]),
           \A t, u \in T : t # u => part[t] \cap part[u] = {}
    PROVE  /\ Summable(f, Whole(part, T))
           /\ SumFunctionOnSet(f, Whole(part, T)) = SumFunctionOnSet(g, T)
<1> DEFINE All(U) == UNION {part[t] : t \in U}
           N == {n \in Nat : \A U \in SUBSET T : Cardinality(U) = n =>
                     /\ Summable(f, All(U))
                     /\ SumFunctionOnSet(f, All(U)) = SumFunctionOnSet(g, U)}
<1>0. \A t \in T : g[t] \in Int
    BY SumType
<1>1. \A U \in SUBSET T : Summable(g, U) /\ IsFiniteSet(U) /\ Cardinality(U) \in Nat
    BY <1>0, FS_Subset, FS_CardinalityType DEF Summable
<1>2. 0 \in N
    <2> SUFFICES ASSUME NEW U \in SUBSET T, Cardinality(U) = 0
                 PROVE  /\ Summable(f, All(U))
                        /\ SumFunctionOnSet(f, All(U)) = SumFunctionOnSet(g, U)
        OBVIOUS
    <2>1. U = {}
        BY <1>1, FS_EmptySet
    <2>2. All(U) = {}
        BY <2>1
    <2>3. Summable(f, {})
        BY FS_EmptySet DEF Summable
    <2> QED
        BY <2>1, <2>2, <2>3, SumEmpty
<1>3. ASSUME NEW n \in Nat, n \in N PROVE n + 1 \in N
    <2> SUFFICES ASSUME NEW U \in SUBSET T, Cardinality(U) = n + 1
                 PROVE  /\ Summable(f, All(U))
                        /\ SumFunctionOnSet(f, All(U)) = SumFunctionOnSet(g, U)
        OBVIOUS
    <2>1. U # {}
        <3>1. Cardinality({}) = 0 /\ n + 1 # 0
            BY FS_EmptySet
        <3> QED
            BY <3>1
    <2>2. PICK x \in U : x = Pick(U) /\ Cardinality(U \ {x}) = n
        BY <1>1, <2>1, PickLeaves
    <2>3. /\ Summable(f, All(U \ {x}))
          /\ SumFunctionOnSet(f, All(U \ {x})) = SumFunctionOnSet(g, U \ {x})
        BY <1>3, <2>2
    <2>4. SumFunctionOnSet(g, U) = g[x] + SumFunctionOnSet(g, U \ {x})
        BY <1>1, <2>2, SumTake
    <2>5. PICK A, B : A = All(U \ {x}) /\ B = part[x]
        OBVIOUS
    <2>6. A \cap B = {} /\ All(U) = A \cup B
        BY <2>2, <2>5
    <2>7. Summable(f, A) /\ Summable(f, B) /\ SumFunctionOnSet(f, B) = g[x]
        BY <2>2, <2>3, <2>5
    <2>8. Summable(f, A \cup B)
        BY <2>7, FS_Union DEF Summable
    <2>9. SumFunctionOnSet(f, A \cup B) = SumFunctionOnSet(f, A) + SumFunctionOnSet(f, B)
        <3>1. A \in SUBSET (A \cup B) /\ B \in SUBSET (A \cup B) /\ A \cap B = {}
            BY <2>6
        <3> HIDE DEF All, N
        <3> QED
            BY <2>8, <3>1, SumDisjoint
    <2>10. SumFunctionOnSet(g, U \ {x}) \in Int /\ g[x] \in Int
        BY <1>0, <1>1, <2>2, SumType
    <2> HIDE DEF All
    <2> QED
        BY <2>3, <2>4, <2>5, <2>6, <2>7, <2>8, <2>9, <2>10
<1>4. Nat \subseteq N
    <2> HIDE DEF N
    <2> QED
        BY <1>2, <1>3, SetInduction
<1>5. Cardinality(T) \in Nat
    BY <1>1
<1> QED
    BY <1>4, <1>5 DEF Whole

(***************************************************************************)
(* Prefix sums of a queue.                                                 *)
(***************************************************************************)

\* g holds the sums of the first 0, 1, ... n nodes of q.
PrefixSums(q, g, n) ==
    g = [i \in 0 .. n |-> IF i = 0 THEN 0 ELSE g[i - 1] + q[i].qty]

Queue == Seq(RestingOrder)

\* Quantities of a queue's nodes are naturals.
LEMMA NodeTypes ==
    ASSUME NEW q \in Queue
    PROVE  /\ Len(q) \in Nat
           /\ DOMAIN q = 1 .. Len(q)
           /\ \A i \in 1 .. Len(q) : q[i] \in RestingOrder /\ q[i].qty \in Nat
<1>1. /\ Len(q) \in Nat
      /\ DOMAIN q = 1 .. Len(q)
      /\ \A i \in 1 .. Len(q) : q[i] \in RestingOrder
    BY DEF Queue
<1>2. \A r \in RestingOrder : r.qty \in Nat
    BY MaxQtyAssumption DEF RestingOrder, Quantity
<1> QED
    BY <1>1, <1>2

\* Prefix sums exist for every queue.
LEMMA PrefixSumsExist ==
    ASSUME NEW q \in Queue
    PROVE  \E g : PrefixSums(q, g, Len(q)) /\ g \in [0 .. Len(q) -> Int]
<1> DEFINE Good(n) == n <= Len(q) => \E g \in [0 .. n -> Int] : PrefixSums(q, g, n)
           S == {n \in Nat : Good(n)}
<1>1. 0 \in S
    <2> DEFINE g == [i \in 0 .. 0 |-> 0]
    <2>1. g \in [0 .. 0 -> Int] /\ PrefixSums(q, g, 0)
        BY DEF PrefixSums
    <2> QED
        BY <2>1
<1>2. ASSUME NEW n \in Nat, n \in S PROVE n + 1 \in S
    <2> SUFFICES ASSUME n + 1 <= Len(q)
                 PROVE  \E h \in [0 .. n + 1 -> Int] : PrefixSums(q, h, n + 1)
        OBVIOUS
    <2>1. PICK g \in [0 .. n -> Int] : PrefixSums(q, g, n)
        BY <1>2, NodeTypes
    <2> DEFINE h == [i \in 0 .. n + 1 |-> IF i = n + 1 THEN g[n] + q[n + 1].qty ELSE g[i]]
    <2>2. h \in [0 .. n + 1 -> Int]
        BY <2>1, NodeTypes
    <2>3. ASSUME NEW i \in 0 .. n + 1
          PROVE  h[i] = IF i = 0 THEN 0 ELSE h[i - 1] + q[i].qty
        <3>1. \A j \in 0 .. n : g[j] = IF j = 0 THEN 0 ELSE g[j - 1] + q[j].qty
            BY <2>1 DEF PrefixSums
        <3> QED
            BY <3>1
    <2>4. PrefixSums(q, h, n + 1)
        <3> HIDE DEF h
        <3> QED
            BY <2>2, <2>3 DEF PrefixSums
    <2> QED
        BY <2>2, <2>4
<1>3. Nat \subseteq S
    <2> HIDE DEF S
    <2> QED
        BY <1>1, <1>2, SetInduction
<1> QED
    BY <1>3, NodeTypes

\* Prefix sums are unique: two functions with the property agree everywhere.
LEMMA PrefixSumsUnique ==
    ASSUME NEW q \in Queue, NEW g, NEW h,
           PrefixSums(q, g, Len(q)), PrefixSums(q, h, Len(q))
    PROVE  g = h
<1> DEFINE S == {n \in Nat : n <= Len(q) => g[n] = h[n]}
<1>0. /\ \A i \in 0 .. Len(q) : g[i] = IF i = 0 THEN 0 ELSE g[i - 1] + q[i].qty
      /\ \A i \in 0 .. Len(q) : h[i] = IF i = 0 THEN 0 ELSE h[i - 1] + q[i].qty
    BY DEF PrefixSums
<1>1. 0 \in S
    BY <1>0, NodeTypes
<1>2. ASSUME NEW n \in Nat, n \in S PROVE n + 1 \in S
    BY <1>0, <1>2, NodeTypes
<1>3. Nat \subseteq S
    <2> HIDE DEF S
    <2> QED
        BY <1>1, <1>2, SetInduction
<1>4. \A n \in 0 .. Len(q) : g[n] = h[n]
    BY <1>3, NodeTypes
<1> QED
    BY <1>4 DEF PrefixSums

\* QueueQty is the last prefix sum, whichever way the prefix sums are given.
LEMMA QueueQtyFromSums ==
    ASSUME NEW q \in Queue, NEW g, PrefixSums(q, g, Len(q))
    PROVE  QueueQty(q) = g[Len(q)] /\ QueueQty(q) \in Int
<1>1. PICK f : PrefixSums(q, f, Len(q)) /\ f \in [0 .. Len(q) -> Int]
    BY PrefixSumsExist
<1>2. f = g
    BY <1>1, PrefixSumsUnique
<1> DEFINE sum == CHOOSE s : s = [i \in 0 .. Len(q) |->
                                    IF i = 0 THEN 0 ELSE s[i - 1] + q[i].qty]
<1>3. PrefixSums(q, sum, Len(q))
    BY <1>1 DEF PrefixSums
<1>4. sum = g
    <2> HIDE DEF sum
    <2> QED
        BY <1>3, PrefixSumsUnique
<1>5. QueueQty(q) = sum[Len(q)]
    BY DEF QueueQty
<1> HIDE DEF sum
<1> QED
    BY <1>1, <1>2, <1>4, <1>5, NodeTypes

\* A queue without two nodes of one id holds what its ids hold together.
LEMMA QueueQtyByIds ==
    ASSUME NEW q \in Queue, \A i, j \in DOMAIN q : q[i].id = q[j].id => i = j,
           NEW f, \A i \in DOMAIN q : f[q[i].id] = q[i].qty
    PROVE  /\ Summable(f, {q[i].id : i \in DOMAIN q})
           /\ SumFunctionOnSet(f, {q[i].id : i \in DOMAIN q}) = QueueQty(q)
<1>1. PICK g : PrefixSums(q, g, Len(q)) /\ g \in [0 .. Len(q) -> Int]
    BY PrefixSumsExist
<1>2. \A i \in 0 .. Len(q) : g[i] = IF i = 0 THEN 0 ELSE g[i - 1] + q[i].qty
    BY <1>1 DEF PrefixSums
<1> DEFINE Ids(n) == {q[i].id : i \in 1 .. n}
           S == {n \in Nat : n <= Len(q) =>
                   Summable(f, Ids(n)) /\ SumFunctionOnSet(f, Ids(n)) = g[n]}
<1>3. 0 \in S
    <2>1. Ids(0) = {}
        OBVIOUS
    <2>2. Summable(f, {}) /\ SumFunctionOnSet(f, {}) = 0
        BY FS_EmptySet, SumEmpty DEF Summable
    <2>3. g[0] = 0
        BY <1>2, NodeTypes
    <2> HIDE DEF Ids
    <2> QED
        BY <2>1, <2>2, <2>3
<1>4. ASSUME NEW n \in Nat, n \in S PROVE n + 1 \in S
    <2> SUFFICES ASSUME n + 1 <= Len(q)
                 PROVE  /\ Summable(f, Ids(n + 1))
                        /\ SumFunctionOnSet(f, Ids(n + 1)) = g[n + 1]
        OBVIOUS
    <2>1. Summable(f, Ids(n)) /\ SumFunctionOnSet(f, Ids(n)) = g[n]
        BY <1>4, NodeTypes
    <2>2. g[n + 1] = g[n] + q[n + 1].qty /\ n + 1 \in DOMAIN q /\ \A i \in 1 .. n : i \in DOMAIN q
        BY <1>2, NodeTypes
    <2> DEFINE y == q[n + 1].id
    <2>3. Ids(n + 1) = Ids(n) \cup {y} /\ y \notin Ids(n)
        <3>1. \A i : i \in 1 .. n + 1 <=> (i \in 1 .. n \/ i = n + 1)
            OBVIOUS
        <3>2. y \notin Ids(n)
            <4> SUFFICES ASSUME NEW i \in 1 .. n, q[i].id = q[n + 1].id PROVE FALSE
                OBVIOUS
            <4>1. i = n + 1
                BY <2>2
            <4> QED
                BY <4>1
        <3> QED
            BY <3>1, <3>2
    <2>4. f[y] = q[n + 1].qty /\ f[y] \in Int
        BY <2>2, NodeTypes
    <2> HIDE DEF Ids, y
    <2>5. /\ Summable(f, Ids(n) \cup {y})
          /\ SumFunctionOnSet(f, Ids(n) \cup {y}) = SumFunctionOnSet(f, Ids(n)) + f[y]
        BY <2>1, <2>3, <2>4, SumAdd
    <2> QED
        BY <2>1, <2>2, <2>3, <2>4, <2>5
<1>5. Nat \subseteq S
    <2> HIDE DEF S
    <2> QED
        BY <1>3, <1>4, SetInduction
<1>6. QueueQty(q) = g[Len(q)]
    BY <1>1, QueueQtyFromSums
<1>7. Summable(f, Ids(Len(q))) /\ SumFunctionOnSet(f, Ids(Len(q))) = g[Len(q)]
    <2>1. Len(q) \in Nat
        BY NodeTypes
    <2> HIDE DEF Ids
    <2> QED
        BY <1>5, <2>1
<1>8. DOMAIN q = 1 .. Len(q)
    BY NodeTypes
<1> QED
    BY <1>6, <1>7, <1>8

\* A queue holds at least what any one of its nodes does.
LEMMA QueueQtyCovers ==
    ASSUME NEW q \in Queue, NEW k \in DOMAIN q
    PROVE  QueueQty(q) >= q[k].qty
<1>1. PICK g : PrefixSums(q, g, Len(q)) /\ g \in [0 .. Len(q) -> Int]
    BY PrefixSumsExist
<1>2. \A i \in 0 .. Len(q) : g[i] = IF i = 0 THEN 0 ELSE g[i - 1] + q[i].qty
    BY <1>1 DEF PrefixSums
<1> DEFINE S == {n \in Nat : n <= Len(q) =>
                   g[n] >= 0 /\ \A i \in 1 .. n : g[n] >= q[i].qty}
<1>3. 0 \in S
    BY <1>2, NodeTypes
<1>4. ASSUME NEW n \in Nat, n \in S PROVE n + 1 \in S
    <2> SUFFICES ASSUME n + 1 <= Len(q)
                 PROVE  g[n + 1] >= 0 /\ \A i \in 1 .. n + 1 : g[n + 1] >= q[i].qty
        OBVIOUS
    <2>1. g[n] >= 0 /\ \A i \in 1 .. n : g[n] >= q[i].qty
        BY <1>4, NodeTypes
    <2>2. /\ g[n] \in Int /\ g[n + 1] = g[n] + q[n + 1].qty
          /\ \A i \in 1 .. n + 1 : q[i].qty \in Nat
        BY <1>1, <1>2, NodeTypes
    <2>3. g[n + 1] >= g[n] /\ g[n + 1] >= q[n + 1].qty /\ g[n + 1] \in Int /\ g[n + 1] >= 0
        <3>1. q[n + 1].qty \in Nat
            BY <2>2
        <3>2. g[n] \in Int /\ g[n + 1] = g[n] + q[n + 1].qty /\ g[n] >= 0
            BY <2>1, <2>2
        <3> QED
            BY <3>1, <3>2
    <2>4. ASSUME NEW i \in 1 .. n + 1 PROVE g[n + 1] >= q[i].qty
        <3>1. CASE i = n + 1
            BY <2>3, <3>1
        <3>2. CASE i \in 1 .. n
            <4>1. g[n] >= q[i].qty /\ q[i].qty \in Int /\ g[n] \in Int
                BY <2>1, <2>2, <3>2
            <4> QED
                BY <2>3, <4>1
        <3> QED
            BY <3>1, <3>2
    <2> QED
        BY <2>3, <2>4
<1>5. Nat \subseteq S
    <2> HIDE DEF S
    <2> QED
        BY <1>3, <1>4, SetInduction
<1>6. QueueQty(q) = g[Len(q)]
    BY <1>1, QueueQtyFromSums
<1> QED
    BY <1>5, <1>6, NodeTypes

\* An empty queue holds nothing.
LEMMA QueueQtyEmpty == QueueQty(<< >>) = 0
<1> DEFINE g == [i \in 0 .. 0 |-> 0]
<1>1. << >> \in Queue /\ Len(<< >>) = 0
    BY DEF Queue
<1>2. PrefixSums(<< >>, g, 0)
    BY DEF PrefixSums
<1>3. g[0] = 0
    OBVIOUS
<1> HIDE DEF g
<1> QED
    BY <1>1, <1>2, <1>3, QueueQtyFromSums

\* push_back adds the new node's quantity.
LEMMA QueueQtyAppend ==
    ASSUME NEW q \in Queue, NEW r \in RestingOrder
    PROVE  /\ Append(q, r) \in Queue
           /\ QueueQty(Append(q, r)) = QueueQty(q) + r.qty
<1> DEFINE a == Append(q, r)
           n == Len(q)
<1>1. /\ a \in Queue /\ Len(a) = n + 1 /\ n \in Nat
      /\ \A i \in 1 .. n : a[i] = q[i]
      /\ a[n + 1] = r
    BY DEF Queue
<1>2. PICK g : PrefixSums(q, g, n) /\ g \in [0 .. n -> Int]
    BY PrefixSumsExist
<1>3. QueueQty(q) = g[n]
    BY <1>2, QueueQtyFromSums
<1>4. r.qty \in Nat
    BY MaxQtyAssumption DEF RestingOrder, Quantity
<1> DEFINE h == [i \in 0 .. n + 1 |-> IF i = n + 1 THEN g[n] + r.qty ELSE g[i]]
<1> HIDE DEF a, n
<1>5. \A i \in 0 .. n : g[i] = IF i = 0 THEN 0 ELSE g[i - 1] + q[i].qty
    BY <1>2 DEF PrefixSums
<1>6. ASSUME NEW i \in 0 .. n + 1
      PROVE  h[i] = IF i = 0 THEN 0 ELSE h[i - 1] + a[i].qty
    BY <1>1, <1>5
<1>7. h[n + 1] = g[n] + r.qty /\ DOMAIN h = 0 .. n + 1 /\ h = [i \in 0 .. n + 1 |-> h[i]]
    BY <1>1
<1> HIDE DEF h
<1>8. PrefixSums(a, h, Len(a))
    BY <1>1, <1>6, <1>7 DEF PrefixSums
<1>9. QueueQty(a) = h[n + 1]
    BY <1>1, <1>8, QueueQtyFromSums
<1> QED
    BY <1>1, <1>3, <1>7, <1>9 DEF a

\* Reducing the front node by m reduces the queue by m.
LEMMA QueueQtyFront ==
    ASSUME NEW q \in Queue, q # << >>, NEW m \in Nat, m <= q[1].qty
    PROVE  LET a == [q EXCEPT ![1].qty = q[1].qty - m]
           IN  /\ a \in Queue /\ Len(a) = Len(q) /\ DOMAIN a = DOMAIN q
               /\ a[1] = [q[1] EXCEPT !.qty = q[1].qty - m]
               /\ \A i \in DOMAIN q : i # 1 => a[i] = q[i]
               /\ QueueQty(a) = QueueQty(q) - m
<1> DEFINE a == [q EXCEPT ![1].qty = q[1].qty - m]
           n == Len(q)
<1>1. n \in Nat \ {0} /\ 1 \in 1 .. n /\ DOMAIN q = 1 .. n
    BY NodeTypes, EmptySeq DEF Queue
<1>2. [q[1] EXCEPT !.qty = q[1].qty - m] \in RestingOrder
    <2>1. q[1] \in RestingOrder
        BY <1>1, NodeTypes
    <2>2. q[1].qty - m \in Quantity
        BY <2>1, MaxQtyAssumption DEF RestingOrder, Quantity
    <2>3. \A r \in RestingOrder, k \in Quantity : [r EXCEPT !.qty = k] \in RestingOrder
        BY DEF RestingOrder
    <2> QED
        BY <2>1, <2>2, <2>3
<1>3. /\ a \in Queue /\ Len(a) = n /\ DOMAIN a = DOMAIN q
      /\ a[1] = [q[1] EXCEPT !.qty = q[1].qty - m]
      /\ \A i \in DOMAIN q : i # 1 => a[i] = q[i]
    BY <1>1, <1>2 DEF Queue
<1>4. a[1].qty = q[1].qty - m
    BY <1>1, <1>3, NodeTypes DEF RestingOrder
<1>5. PICK g : PrefixSums(q, g, n) /\ g \in [0 .. n -> Int]
    BY PrefixSumsExist
<1>6. QueueQty(q) = g[n]
    BY <1>5, QueueQtyFromSums
<1> DEFINE h == [i \in 0 .. n |-> IF i = 0 THEN 0 ELSE g[i] - m]
<1> HIDE DEF a, n
<1>7. \A i \in 0 .. n : g[i] = IF i = 0 THEN 0 ELSE g[i - 1] + q[i].qty
    BY <1>5 DEF PrefixSums
<1>8. \A i \in 1 .. n : q[i].qty \in Nat
    BY NodeTypes DEF n
<1>9. ASSUME NEW i \in 0 .. n
      PROVE  h[i] = IF i = 0 THEN 0 ELSE h[i - 1] + a[i].qty
    <2>1. CASE i = 0
        BY <2>1
    <2>2. CASE i = 1
        BY <2>2, <1>1, <1>4, <1>5, <1>7, <1>8
    <2>3. CASE i > 1
        <3>1. a[i] = q[i] /\ i \in 1 .. n /\ i - 1 \in 1 .. n
            BY <2>3, <1>1, <1>3
        <3> QED
            BY <2>3, <3>1, <1>5, <1>7, <1>8
    <2> QED
        BY <2>1, <2>2, <2>3, <1>1
<1>10. h[n] = g[n] - m /\ h = [i \in 0 .. n |-> h[i]]
    BY <1>1
<1> HIDE DEF h
<1>11. PrefixSums(a, h, Len(a))
    BY <1>3, <1>9, <1>10 DEF PrefixSums
<1>12. QueueQty(a) = h[n]
    BY <1>3, <1>11, QueueQtyFromSums
<1> QED
    BY <1>3, <1>6, <1>10, <1>12 DEF a, n

\* Unlinking node k: the nodes before it keep their place, those behind it move
\* up by one, and the queue loses the node's quantity.
LEMMA QueueQtyRemove ==
    ASSUME NEW q \in Queue, NEW k \in 1 .. Len(q)
    PROVE  LET a == RemoveAt(q, k)
           IN  /\ a \in Queue /\ Len(a) = Len(q) - 1
               /\ \A i \in 1 .. Len(q) - 1 : a[i] = IF i < k THEN q[i] ELSE q[i + 1]
               /\ QueueQty(a) = QueueQty(q) - q[k].qty
<1> DEFINE a == RemoveAt(q, k)
           n == Len(q)
           l == SubSeq(q, 1, k - 1)
           r == SubSeq(q, k + 1, n)
<1>1. n \in Nat \ {0} /\ k \in Nat \ {0} /\ k <= n /\ DOMAIN q = 1 .. n
    BY NodeTypes
<1>2. /\ l \in Queue /\ Len(l) = k - 1
      /\ \A i \in 1 .. k - 1 : l[i] = q[i]
    BY <1>1, SubSeqProperties DEF Queue
<1>3. /\ r \in Queue /\ Len(r) = n - k
      /\ \A i \in 1 .. n - k : r[i] = q[k + i]
    <2>1. \A i \in k + 1 .. n : q[i] \in RestingOrder
        BY <1>1, NodeTypes
    <2>2. /\ r \in Seq(RestingOrder)
          /\ Len(r) = IF k + 1 <= n THEN n - (k + 1) + 1 ELSE 0
          /\ \A i \in 1 .. n - (k + 1) + 1 : r[i] = q[k + 1 + i - 1]
        <3> HIDE DEF n
        <3> QED
            BY <2>1, <1>1, SubSeqProperties
    <2>3. \A i \in 1 .. n - k : r[i] = q[k + i]
        <3> HIDE DEF r, n
        <3> SUFFICES ASSUME NEW i \in 1 .. n - k PROVE r[i] = q[k + i]
            OBVIOUS
        <3>1. k + 1 + i - 1 = k + i /\ n - (k + 1) + 1 = n - k
            BY <1>1
        <3> QED
            BY <2>2, <3>1
    <2> HIDE DEF r, n
    <2> QED
        BY <2>2, <2>3, <1>1 DEF Queue
<1>4. a = l \o r
    BY DEF RemoveAt
<1>5. /\ a \in Queue /\ Len(a) = n - 1
      /\ \A i \in 1 .. n - 1 : a[i] = IF i < k THEN q[i] ELSE q[i + 1]
    <2> HIDE DEF a, l, r, n
    <2>1. a \in Queue /\ Len(a) = Len(l) + Len(r)
        BY <1>2, <1>3, <1>4, ConcatProperties DEF Queue
    <2>2. \A i \in 1 .. Len(l) + Len(r) :
            a[i] = IF i <= Len(l) THEN l[i] ELSE r[i - Len(l)]
        BY <1>2, <1>3, <1>4, ConcatProperties DEF Queue
    <2> QED
        BY <2>1, <2>2, <1>1, <1>2, <1>3
<1>6. PICK g : PrefixSums(q, g, n) /\ g \in [0 .. n -> Int]
    BY PrefixSumsExist
<1>7. QueueQty(q) = g[n]
    BY <1>6, QueueQtyFromSums
<1> DEFINE h == [i \in 0 .. n - 1 |-> IF i < k THEN g[i] ELSE g[i + 1] - q[k].qty]
<1>8. \A i \in 1 .. n : q[i].qty \in Nat
    BY NodeTypes
<1> HIDE DEF a, n, l, r
<1>9. \A i \in 0 .. n : g[i] = IF i = 0 THEN 0 ELSE g[i - 1] + q[i].qty
    BY <1>6 DEF PrefixSums
<1>10. ASSUME NEW i \in 0 .. n - 1
       PROVE  h[i] = IF i = 0 THEN 0 ELSE h[i - 1] + a[i].qty
    <2>1. CASE i = 0
        BY <2>1, <1>1, <1>9
    <2>2. CASE i > 0 /\ i < k
        BY <2>2, <1>1, <1>5, <1>9
    <2>3. CASE i >= k
        <3>1. /\ h[i] = g[i + 1] - q[k].qty
              /\ h[i - 1] = IF i = k THEN g[k - 1] ELSE g[i] - q[k].qty
              /\ a[i] = q[i + 1]
            BY <2>3, <1>1, <1>5
        <3>2. g[i + 1] = g[i] + q[i + 1].qty /\ g[k] = g[k - 1] + q[k].qty
            BY <2>3, <1>1, <1>9
        <3>3. /\ g[i] \in Int /\ g[i + 1] \in Int /\ g[k - 1] \in Int /\ g[k] \in Int
              /\ q[k].qty \in Int /\ q[i + 1].qty \in Int
            BY <2>3, <1>1, <1>6, <1>8
        <3> HIDE DEF h
        <3>4. i \in Nat /\ i # 0
            BY <2>3, <1>1
        <3>5. ASSUME NEW x \in Int, NEW y \in Int, NEW z \in Int, NEW w \in Int, x = y + z
              PROVE  x - w = (y - w) + z
            BY <3>5
        <3>6. g[i + 1] - q[k].qty = (g[i] - q[k].qty) + q[i + 1].qty
            <4>1. g[i + 1] = g[i] + q[i + 1].qty
                BY <3>2
            <4> QED
                BY <3>3, <3>5, <4>1
        <3>7. h[i - 1] = g[i] - q[k].qty
            <4>1. CASE i = k
                <5>1. g[k - 1] = g[k] - q[k].qty
                    BY <3>2, <3>3, <4>1
                <5> QED
                    BY <4>1, <5>1, <3>1
            <4>2. CASE i # k
                BY <4>2, <3>1
            <4> QED
                BY <4>1, <4>2
        <3> QED
            BY <3>1, <3>4, <3>6, <3>7
    <2> QED
        BY <2>1, <2>2, <2>3, <1>1
<1>11. h = [i \in 0 .. n - 1 |-> h[i]]
    OBVIOUS
<1>12. h[n - 1] = g[n] - q[k].qty
    <2>1. CASE k = n
        <3>1. h[n - 1] = g[n - 1] /\ g[n] = g[n - 1] + q[n].qty
            BY <2>1, <1>1, <1>9
        <3> QED
            BY <2>1, <3>1, <1>1, <1>6, <1>8
    <2>2. CASE k < n
        BY <2>2, <1>1
    <2> QED
        BY <2>1, <2>2, <1>1
<1> HIDE DEF h
<1>13. PrefixSums(a, h, Len(a))
    BY <1>5, <1>10, <1>11 DEF PrefixSums
<1>14. QueueQty(a) = h[n - 1]
    BY <1>5, <1>13, QueueQtyFromSums
<1> QED
    BY <1>5, <1>7, <1>12, <1>14 DEF a, n

\* The place node i held before node k was unlinked.
OldPlace(k, i) == IF i < k THEN i ELSE i + 1

\* Where the nodes left after an unlink come from, and that no other is lost.
LEMMA RemovedNodes ==
    ASSUME NEW q \in Queue, NEW k \in 1 .. Len(q), NEW a, a = RemoveAt(q, k)
    PROVE  /\ a \in Queue
           /\ \A i \in DOMAIN a :
                /\ OldPlace(k, i) \in DOMAIN q \ {k}
                /\ a[i] = q[OldPlace(k, i)]
           /\ \A j \in DOMAIN q \ {k} : \E i \in DOMAIN a : a[i] = q[j]
           /\ \A i, j \in DOMAIN a :
                OldPlace(k, i) = OldPlace(k, j) => i = j
<1>1. /\ a \in Queue /\ Len(a) = Len(q) - 1
      /\ \A i \in 1 .. Len(q) - 1 : a[i] = IF i < k THEN q[i] ELSE q[i + 1]
    BY QueueQtyRemove
<1>2. /\ Len(q) \in Nat /\ k \in Int /\ 1 <= k /\ k <= Len(q)
      /\ DOMAIN q = 1 .. Len(q) /\ DOMAIN a = 1 .. Len(q) - 1
    BY <1>1, NodeTypes
<1>3. \A i \in DOMAIN a :
        /\ OldPlace(k, i) \in DOMAIN q \ {k}
        /\ a[i] = q[OldPlace(k, i)]
    BY <1>1, <1>2 DEF OldPlace
<1>4. ASSUME NEW j \in DOMAIN q \ {k} PROVE \E i \in DOMAIN a : a[i] = q[j]
    <2>1. CASE j < k
        <3>1. j \in DOMAIN a /\ a[j] = q[j]
            BY <2>1, <1>1, <1>2
        <3> QED
            BY <3>1
    <2>2. CASE j > k
        <3>1. j - 1 \in DOMAIN a /\ a[j - 1] = q[j]
            BY <2>2, <1>1, <1>2
        <3> QED
            BY <3>1
    <2> QED
        BY <2>1, <2>2, <1>2
<1>5. ASSUME NEW i \in DOMAIN a, NEW j \in DOMAIN a,
             OldPlace(k, i) = OldPlace(k, j)
      PROVE  i = j
    BY <1>2, <1>5 DEF OldPlace
<1> QED
    BY <1>1, <1>3, <1>4, <1>5

\* pop_front: the queue loses its front node and that node's quantity.
LEMMA QueueQtyTail ==
    ASSUME NEW q \in Queue, q # << >>
    PROVE  /\ Tail(q) \in Queue
           /\ Len(Tail(q)) = Len(q) - 1
           /\ \A i \in 1 .. Len(q) - 1 : Tail(q)[i] = q[i + 1]
           /\ Tail(q) = RemoveAt(q, 1)
           /\ QueueQty(Tail(q)) = QueueQty(q) - q[1].qty
<1>1. 1 \in 1 .. Len(q) /\ Len(q) \in Nat \ {0}
    BY EmptySeq DEF Queue
<1>2. /\ Tail(q) \in Queue /\ Len(Tail(q)) = Len(q) - 1
      /\ \A i \in 1 .. Len(q) - 1 : Tail(q)[i] = q[i + 1]
    BY <1>1 DEF Queue
<1> DEFINE a == RemoveAt(q, 1)
<1>3. /\ a \in Queue /\ Len(a) = Len(q) - 1
      /\ \A i \in 1 .. Len(q) - 1 : a[i] = IF i < 1 THEN q[i] ELSE q[i + 1]
      /\ QueueQty(a) = QueueQty(q) - q[1].qty
    BY <1>1, QueueQtyRemove
<1> HIDE DEF a
<1>4. a = Tail(q)
    <2>1. \A i \in 1 .. Len(a) : a[i] = Tail(q)[i]
        BY <1>1, <1>2, <1>3
    <2> QED
        BY <2>1, <1>2, <1>3, SeqEqual DEF Queue
<1> QED
    BY <1>2, <1>3, <1>4 DEF a

(***************************************************************************)
(* The best price of a side.                                               *)
(***************************************************************************)

\* On either side, a finite non-empty set of prices has a best one.
LEMMA BestOfFinite ==
    ASSUME NEW s \in Side, NEW X \in SUBSET Int, IsFiniteSet(X), X # {}
    PROVE  \E p \in X : \A q \in X \ {p} : Better(s, p, q)
<1> DEFINE S == {n \in Nat : \A Y \in SUBSET Int :
                    IsFiniteSet(Y) /\ Cardinality(Y) = n /\ Y # {}
                    => \E p \in Y : \A q \in Y \ {p} : Better(s, p, q)}
<1>1. 0 \in S
    BY FS_EmptySet
<1>2. ASSUME NEW n \in Nat, n \in S PROVE n + 1 \in S
    <2> SUFFICES ASSUME NEW Y \in SUBSET Int, IsFiniteSet(Y), Cardinality(Y) = n + 1
                 PROVE  \E p \in Y : \A q \in Y \ {p} : Better(s, p, q)
        OBVIOUS
    <2>1. Y # {}
        <3>1. n + 1 # 0
            OBVIOUS
        <3> QED
            BY <3>1, FS_EmptySet
    <2> PICK y \in Y : TRUE
        BY <2>1
    <2>2. IsFiniteSet(Y \ {y}) /\ Cardinality(Y \ {y}) = n
        <3>1. IsFiniteSet(Y \ {y}) /\ Cardinality(Y \ {y}) = Cardinality(Y) - 1
            BY FS_RemoveElement, Zenon
        <3>2. (n + 1) - 1 = n
            OBVIOUS
        <3> QED
            BY <3>1, <3>2
    <2>3. CASE Y \ {y} = {}
        BY <2>3
    <2>4. CASE Y \ {y} # {}
        <3>1. PICK p \in Y \ {y} : \A q \in (Y \ {y}) \ {p} : Better(s, p, q)
            BY <1>2, <2>2, <2>4
        <3>2. CASE Better(s, p, y)
            BY <3>1, <3>2
        <3>3. CASE ~ Better(s, p, y)
            <4>1. \A q \in Y \ {y} : Better(s, y, q)
                BY <3>1, <3>3 DEF Better
            <4> QED
                BY <4>1
        <3> QED
            BY <3>2, <3>3
    <2> QED
        BY <2>3, <2>4
<1>3. Nat \subseteq S
    <2> HIDE DEF S
    <2> QED
        BY <1>1, <1>2, SetInduction
<1> QED
    BY <1>3, FS_CardinalityType

\* A side with a level has a best price, and no other price is before it.
LEMMA BestIsBest ==
    ASSUME NEW b, IsBook(b), NEW s \in Side, Prices(b, s) # {}
    PROVE  /\ Best(b, s) \in Prices(b, s)
           /\ \A q \in Prices(b, s) \ {Best(b, s)} : Better(s, Best(b, s), q)
<1>1. Prices(b, s) \in SUBSET Int /\ IsFiniteSet(Prices(b, s))
    BY PriceAssumption, FS_Subset DEF IsBook
<1>2. \E p \in Prices(b, s) : \A q \in Prices(b, s) \ {p} : Better(s, p, q)
    BY <1>1, BestOfFinite
<1> QED
    BY <1>2 DEF Best

(***************************************************************************)
(* Every operation of module OrderBook keeps a book well formed: typed,    *)
(* index and queues in agreement, level totals equal to the queues' sums,  *)
(* no empty level.  All of them rewrite one level and the index, so the    *)
(* work is done once, in RewriteLevel.                                     *)
(***************************************************************************)
WellFormed(b) ==
    /\ IsBook(b)
    /\ IndexMatchesQueues(b)
    /\ LevelTotals(b)
    /\ NoEmptyLevel(b)

\* What IndexMatchesQueues says of one node, and of one index entry.
SoundNode(b, s, p, i) ==
    LET id == b.levels[s][p].queue[i].id
    IN  /\ id \in Resting(b)
        /\ b.index[id] = [side |-> s, price |-> p]
        /\ \A j \in DOMAIN b.levels[s][p].queue :
             id = b.levels[s][p].queue[j].id => i = j

EntryAt(b, id, t, q) ==
    /\ b.index[id] = [side |-> t, price |-> q]
    /\ q \in Prices(b, t)
    /\ \E i \in DOMAIN b.levels[t][q].queue : b.levels[t][q].queue[i].id = id

LEMMA NodeIsSound ==
    ASSUME NEW b, IndexMatchesQueues(b), NEW s \in Side, NEW p \in Prices(b, s),
           NEW i \in DOMAIN b.levels[s][p].queue
    PROVE  SoundNode(b, s, p, i)
<1> QED
    BY Zenon DEF IndexMatchesQueues, SoundNode

LEMMA EntryLeads ==
    ASSUME NEW b, IsBook(b), IndexMatchesQueues(b), NEW id \in Resting(b)
    PROVE  \E t \in Side, q \in Price : EntryAt(b, id, t, q)
<1>1. b.index[id] \in Locator
    BY DEF IsBook
<1>2. PICK t \in Side, q \in Price : b.index[id] = [side |-> t, price |-> q]
    BY <1>1 DEF Locator
<1>3. b.index[id].side = t /\ b.index[id].price = q
    BY <1>2
<1>4. /\ b.index[id].price \in Prices(b, b.index[id].side)
      /\ \E i \in DOMAIN b.levels[b.index[id].side][b.index[id].price].queue :
           b.levels[b.index[id].side][b.index[id].price].queue[i].id = id
    BY Zenon DEF IndexMatchesQueues
<1>5. EntryAt(b, id, t, q)
    BY <1>2, <1>3, <1>4 DEF EntryAt
<1> QED
    BY <1>5

\* b with level p of side s replaced by lvl (dropped if lvl is empty) and index ix.
Rewritten(b, s, p, lvl, ix) ==
    [levels |-> [b.levels EXCEPT ![s] = Keep(@, p, lvl)], index |-> ix]

\* What the levels of a rewritten book are.
LEMMA RewrittenLevels ==
    ASSUME NEW b, IsBook(b), NEW s \in Side, NEW p, NEW lvl, NEW ix,
           NEW c, c = Rewritten(b, s, p, lvl, ix)
    PROVE  /\ c = [levels |-> c.levels, index |-> ix]
           /\ c.index = ix
           /\ c.levels = [t \in Side |-> c.levels[t]]
           /\ c.levels[s] = [q \in Prices(c, s) |-> c.levels[s][q]]
           /\ Prices(c, s) = IF lvl.queue = << >> THEN Prices(b, s) \ {p}
                                                  ELSE Prices(b, s) \cup {p}
           /\ \A q \in Prices(c, s) :
                c.levels[s][q] = IF q = p THEN lvl ELSE b.levels[s][q]
           /\ \A t \in Side \ {s} : c.levels[t] = b.levels[t]
<1> DEFINE m == Keep(b.levels[s], p, lvl)
<1>1. /\ b.levels = [t \in Side |-> b.levels[t]]
      /\ b.levels[s] \in [Prices(b, s) -> PriceLevel]
    BY DEF IsBook
<1>2. /\ m = [q \in DOMAIN m |-> m[q]]
      /\ DOMAIN m = IF lvl.queue = << >> THEN Prices(b, s) \ {p} ELSE Prices(b, s) \cup {p}
      /\ \A q \in DOMAIN m : m[q] = IF q = p THEN lvl ELSE b.levels[s][q]
    BY <1>1 DEF Keep, DropLevel, PutLevel, Prices
<1> HIDE DEF m
<1>3. c.levels = [b.levels EXCEPT ![s] = m] /\ c.index = ix
    BY DEF Rewritten, m
<1>4. c.levels[s] = m /\ (\A t \in Side \ {s} : c.levels[t] = b.levels[t])
    BY <1>1, <1>3
<1>5. c = [levels |-> c.levels, index |-> ix] /\ c.levels = [t \in Side |-> c.levels[t]]
    BY <1>1, <1>3 DEF Rewritten
<1> QED
    BY <1>2, <1>3, <1>4, <1>5 DEF Prices

\* The part of RewrittenLevels that says which prices there are, and what is there.
LEMMA RewrittenPrices ==
    ASSUME NEW b, IsBook(b), NEW s \in Side, NEW p, NEW lvl, NEW ix
    PROVE  LET c == Rewritten(b, s, p, lvl, ix)
           IN  /\ Prices(c, s) = IF lvl.queue = << >> THEN Prices(b, s) \ {p}
                                                      ELSE Prices(b, s) \cup {p}
               /\ \A q \in Prices(c, s) :
                    c.levels[s][q] = IF q = p THEN lvl ELSE b.levels[s][q]
               /\ \A t \in Side \ {s} : c.levels[t] = b.levels[t]
<1> DEFINE m == Keep(b.levels[s], p, lvl)
<1>1. /\ b.levels = [t \in Side |-> b.levels[t]]
      /\ b.levels[s] \in [Prices(b, s) -> PriceLevel]
    BY DEF IsBook
<1>2. /\ DOMAIN m = IF lvl.queue = << >> THEN Prices(b, s) \ {p} ELSE Prices(b, s) \cup {p}
      /\ \A q \in DOMAIN m : m[q] = IF q = p THEN lvl ELSE b.levels[s][q]
    BY <1>1 DEF Keep, DropLevel, PutLevel, Prices
<1> HIDE DEF m
<1> DEFINE c == Rewritten(b, s, p, lvl, ix)
<1>3. c.levels = [b.levels EXCEPT ![s] = m]
    BY DEF Rewritten, m
<1> HIDE DEF c
<1>4. c.levels[s] = m /\ (\A t \in Side \ {s} : c.levels[t] = b.levels[t])
    BY <1>1, <1>3
<1>5. Prices(c, s) = DOMAIN m
    BY <1>4 DEF Prices
<1>6. /\ Prices(c, s) = IF lvl.queue = << >> THEN Prices(b, s) \ {p}
                                             ELSE Prices(b, s) \cup {p}
      /\ \A q \in Prices(c, s) : c.levels[s][q] = IF q = p THEN lvl ELSE b.levels[s][q]
      /\ \A t \in Side \ {s} : c.levels[t] = b.levels[t]
    BY <1>2, <1>4, <1>5
<1> QED
    BY <1>6 DEF c

\* The new level: its total is right, and its nodes are distinct and indexed here.
SoundLevel(s, p, lvl, ix) ==
    /\ lvl.total_qty = QueueQty(lvl.queue)
    /\ \A i \in DOMAIN lvl.queue :
         /\ lvl.queue[i].id \in DOMAIN ix
         /\ ix[lvl.queue[i].id] = [side |-> s, price |-> p]
         /\ \A j \in DOMAIN lvl.queue : lvl.queue[i].id = lvl.queue[j].id => i = j

\* The new index: an entry leads here to a node of the level, or is an old
\* entry that leads elsewhere; and no old entry that leads elsewhere is lost.
SoundIndex(b, s, p, lvl, ix) ==
    /\ \A id \in DOMAIN ix :
         \/ /\ ix[id] = [side |-> s, price |-> p]
            /\ \E i \in DOMAIN lvl.queue : lvl.queue[i].id = id
         \/ /\ id \in Resting(b) /\ ix[id] = b.index[id]
            /\ b.index[id] # [side |-> s, price |-> p]
    /\ \A id \in Resting(b) :
         b.index[id] # [side |-> s, price |-> p] => id \in DOMAIN ix /\ ix[id] = b.index[id]

\* Rewriting one level keeps the book well formed when the new level is sound,
\* its nodes are the ids the index puts there, and other entries are unchanged.
LEMMA RewriteLevel ==
    ASSUME NEW b, WellFormed(b), NEW s \in Side, NEW p \in Price,
           NEW lvl \in PriceLevel, NEW ix,
           DOMAIN ix \subseteq OrderId, ix \in [DOMAIN ix -> Locator],
           SoundLevel(s, p, lvl, ix), SoundIndex(b, s, p, lvl, ix)
    PROVE  WellFormed(Rewritten(b, s, p, lvl, ix))
<1> DEFINE c == Rewritten(b, s, p, lvl, ix)
           here == [side |-> s, price |-> p]
<1>0. IsBook(b) /\ IndexMatchesQueues(b) /\ LevelTotals(b) /\ NoEmptyLevel(b)
    BY DEF WellFormed
<1>1. /\ c = [levels |-> c.levels, index |-> ix]
      /\ c.index = ix /\ Resting(c) = DOMAIN ix
      /\ c.levels = [t \in Side |-> c.levels[t]]
      /\ c.levels[s] = [q \in Prices(c, s) |-> c.levels[s][q]]
      /\ Prices(c, s) = IF lvl.queue = << >> THEN Prices(b, s) \ {p} ELSE Prices(b, s) \cup {p}
      /\ \A q \in Prices(c, s) : c.levels[s][q] = IF q = p THEN lvl ELSE b.levels[s][q]
      /\ \A t \in Side \ {s} : c.levels[t] = b.levels[t]
    <2>1. c = Rewritten(b, s, p, lvl, ix)
        OBVIOUS
    <2> HIDE DEF c
    <2>2. c.index = ix => Resting(c) = DOMAIN ix
        BY DEF Resting
    <2> QED
        BY <1>0, <2>1, <2>2, RewrittenLevels
<1> HIDE DEF c
<1>2. \A t \in Side : Prices(b, t) \subseteq Price /\ b.levels[t] \in [Prices(b, t) -> PriceLevel]
    BY <1>0 DEF IsBook
<1>3. \A t \in Side \ {s} : Prices(c, t) = Prices(b, t)
    BY <1>1 DEF Prices
<1>4. IsBook(c)
    <2>1. Prices(c, s) \subseteq Price
        BY <1>1, <1>2
    <2>2. \A q \in Prices(c, s) : c.levels[s][q] \in PriceLevel
        BY <1>1, <1>2
    <2>3. c.levels[s] \in [Prices(c, s) -> PriceLevel]
        BY <1>1, <2>2
    <2>4. \A t \in Side \ {s} : /\ Prices(c, t) \subseteq Price
                               /\ c.levels[t] \in [Prices(c, t) -> PriceLevel]
        BY <1>1, <1>2, <1>3
    <2>5. \A t \in Side : /\ Prices(c, t) \subseteq Price
                         /\ c.levels[t] \in [Prices(c, t) -> PriceLevel]
        BY <2>1, <2>3, <2>4
    <2> QED
        BY <1>1, <2>5 DEF IsBook
\* A level of c is either the new one or an old one elsewhere.
<1>5. ASSUME NEW t \in Side, NEW q \in Prices(c, t)
      PROVE  \/ t = s /\ q = p /\ c.levels[t][q] = lvl /\ lvl.queue # << >>
             \/ (t # s \/ q # p) /\ q \in Prices(b, t) /\ c.levels[t][q] = b.levels[t][q]
    <2>1. CASE t = s
        BY <2>1, <1>1
    <2>2. CASE t # s
        BY <2>2, <1>1, <1>3
    <2> QED
        BY <2>1, <2>2
<1>6. NoEmptyLevel(c)
    <2> SUFFICES ASSUME NEW t \in Side, NEW q \in Prices(c, t)
                 PROVE  c.levels[t][q].queue # << >>
        BY DEF NoEmptyLevel
    <2>1. CASE c.levels[t][q] = lvl /\ lvl.queue # << >>
        BY <2>1
    <2>2. CASE q \in Prices(b, t) /\ c.levels[t][q] = b.levels[t][q]
        BY <2>2, <1>0 DEF NoEmptyLevel
    <2> QED
        BY <1>5, <2>1, <2>2
<1>7. LevelTotals(c)
    <2> SUFFICES ASSUME NEW t \in Side, NEW q \in Prices(c, t)
                 PROVE  c.levels[t][q].total_qty = QueueQty(c.levels[t][q].queue)
        BY DEF LevelTotals
    <2>1. CASE c.levels[t][q] = lvl
        BY <2>1 DEF SoundLevel
    <2>2. CASE q \in Prices(b, t) /\ c.levels[t][q] = b.levels[t][q]
        BY <2>2, <1>0 DEF LevelTotals
    <2> QED
        BY <1>5, <2>1, <2>2
<1>8. IndexMatchesQueues(c)
    <2>1. ASSUME NEW t \in Side, NEW q \in Prices(c, t), NEW i \in DOMAIN c.levels[t][q].queue
          PROVE  /\ c.levels[t][q].queue[i].id \in Resting(c)
                 /\ c.index[c.levels[t][q].queue[i].id] = [side |-> t, price |-> q]
                 /\ \A j \in DOMAIN c.levels[t][q].queue :
                      c.levels[t][q].queue[i].id = c.levels[t][q].queue[j].id => i = j
        <3>1. CASE t = s /\ q = p /\ c.levels[t][q] = lvl
            BY <3>1, <1>1 DEF SoundLevel
        <3>2. CASE (t # s \/ q # p) /\ q \in Prices(b, t) /\ c.levels[t][q] = b.levels[t][q]
            <4> DEFINE id == b.levels[t][q].queue[i].id
            <4>1. /\ id \in Resting(b)
                  /\ b.index[id] = [side |-> t, price |-> q]
                  /\ \A j \in DOMAIN b.levels[t][q].queue :
                       id = b.levels[t][q].queue[j].id => i = j
                <5>1. i \in DOMAIN b.levels[t][q].queue
                    BY <3>2
                <5>2. SoundNode(b, t, q, i)
                    BY <3>2, <5>1, <1>0, NodeIsSound
                <5> QED
                    BY <5>2 DEF SoundNode
            <4>2. [side |-> t, price |-> q] # here
                BY <3>2
            <4> HIDE DEF here
            <4>3. id \in DOMAIN ix /\ ix[id] = b.index[id]
                BY <4>1, <4>2 DEF here, SoundIndex
            <4> QED
                BY <3>2, <4>1, <4>3, <1>1
        <3> QED
            BY <3>1, <3>2, <1>5
    <2>2. ASSUME NEW id \in Resting(c)
          PROVE  /\ c.index[id].price \in Prices(c, c.index[id].side)
                 /\ \E i \in DOMAIN c.levels[c.index[id].side][c.index[id].price].queue :
                      c.levels[c.index[id].side][c.index[id].price].queue[i].id = id
        <3>0. id \in DOMAIN ix /\ c.index[id] = ix[id]
            BY <1>1
        <3>1. CASE ix[id] = here /\ \E i \in DOMAIN lvl.queue : lvl.queue[i].id = id
            <4>1. lvl.queue # << >>
                BY <3>1
            <4>2. p \in Prices(c, s) /\ c.levels[s][p] = lvl
                BY <4>1, <1>1
            <4>3. c.index[id].side = s /\ c.index[id].price = p
                BY <3>0, <3>1
            <4> QED
                BY <3>1, <4>2, <4>3
        <3>2. CASE id \in Resting(b) /\ ix[id] = b.index[id] /\ b.index[id] # here
            <4>1. id \in Resting(b)
                BY <3>2
            <4>0. PICK t \in Side, q \in Price : EntryAt(b, id, t, q)
                BY <4>1, <1>0, EntryLeads
            <4>2. /\ b.index[id] = [side |-> t, price |-> q]
                  /\ q \in Prices(b, t)
                  /\ \E i \in DOMAIN b.levels[t][q].queue : b.levels[t][q].queue[i].id = id
                BY <4>0 DEF EntryAt
            <4>3. t # s \/ q # p
                BY <3>2, <4>2
            <4>5. q \in Prices(c, t) /\ c.levels[t][q] = b.levels[t][q]
                <5>1. CASE t = s
                    BY <5>1, <4>2, <4>3, <1>1
                <5>2. CASE t # s
                    BY <5>2, <4>2, <1>1, <1>3
                <5> QED
                    BY <5>1, <5>2
            <4>6. c.index[id].side = t /\ c.index[id].price = q
                BY <3>0, <3>2, <4>2
            <4> QED
                BY <4>2, <4>5, <4>6
        <3> QED
            BY <3>0, <3>1, <3>2 DEF SoundIndex
    <2> QED
        BY <2>1, <2>2 DEF IndexMatchesQueues
<1> QED
    BY <1>4, <1>6, <1>7, <1>8 DEF WellFormed, c

\* A level of a well-formed book, and what its queue is.
LEMMA LevelTypes ==
    ASSUME NEW b, IsBook(b), NEW s \in Side, NEW p \in Prices(b, s)
    PROVE  /\ p \in Price
           /\ b.levels[s][p] \in PriceLevel
           /\ b.levels[s][p].queue \in Queue
           /\ b.levels[s][p].total_qty \in Int
<1>1. p \in Price /\ b.levels[s][p] \in PriceLevel
    BY DEF IsBook
<1> QED
    BY <1>1 DEF PriceLevel, Queue

\* The empty book, as constructed.
LEMMA EmptyBookWellFormed == WellFormed(EmptyBook)
<1>1. \A s \in Side : Prices(EmptyBook, s) = {} /\ EmptyBook.levels[s] = << >>
    BY DEF EmptyBook, Prices
<1>2. Resting(EmptyBook) = {} /\ EmptyBook.index = << >>
    BY DEF EmptyBook, Resting
<1>3. IsBook(EmptyBook)
    <2>1. EmptyBook.levels = [s \in Side |-> EmptyBook.levels[s]]
        BY DEF EmptyBook
    <2>2. EmptyBook = [levels |-> EmptyBook.levels, index |-> EmptyBook.index]
        BY DEF EmptyBook
    <2>3. \A T : << >> \in [{} -> T]
        OBVIOUS
    <2> QED
        BY <1>1, <1>2, <2>1, <2>2, <2>3 DEF IsBook
<1> QED
    BY <1>1, <1>2, <1>3 DEF WellFormed, IndexMatchesQueues, LevelTotals, NoEmptyLevel

\* insert: a new id goes to the back of its level and into the index.
LEMMA InsertWellFormed ==
    ASSUME NEW b, WellFormed(b), NEW o \in Order
    PROVE  WellFormed(Insert(b, o))
<1>1. CASE o.id \in Resting(b)
    BY <1>1 DEF Insert
<1>2. CASE o.id \notin Resting(b)
    <2> DEFINE s == o.side
               p == o.price
               old == LevelOrNew(b.levels[s], p)
               node == [id |-> o.id, qty |-> o.remaining, is_ours |-> o.is_ours]
               new == [total_qty |-> old.total_qty + o.remaining, queue |-> Append(old.queue, node)]
               here == [side |-> s, price |-> p]
               ix == [i \in Resting(b) \cup {o.id} |-> IF i = o.id THEN here ELSE b.index[i]]
    <2>0. IsBook(b) /\ IndexMatchesQueues(b) /\ LevelTotals(b) /\ NoEmptyLevel(b)
        BY DEF WellFormed
    <2>1. /\ s \in Side /\ p \in Price /\ o.id \in OrderId
          /\ node \in RestingOrder /\ node.id = o.id /\ node.qty = o.remaining
          /\ o.remaining \in Int
        BY MaxQtyAssumption DEF Order, RestingOrder, Quantity
    <2>2. /\ old.queue \in Queue /\ old.total_qty \in Int
          /\ old.total_qty = QueueQty(old.queue)
          /\ p \in Prices(b, s) => old = b.levels[s][p]
          /\ p \notin Prices(b, s) => old.queue = << >>
        <3>1. CASE p \in Prices(b, s)
            BY <3>1, <2>0, <2>1, LevelTypes DEF LevelOrNew, Prices, LevelTotals
        <3>2. CASE p \notin Prices(b, s)
            BY <3>2, QueueQtyEmpty DEF LevelOrNew, Prices, Queue
        <3> QED
            BY <3>1, <3>2
    <2> HIDE DEF old, node
    <2>3. /\ new.queue \in Queue /\ new.queue # << >>
          /\ Len(old.queue) \in Nat /\ Len(new.queue) = Len(old.queue) + 1
          /\ \A i \in 1 .. Len(old.queue) : new.queue[i] = old.queue[i]
          /\ new.queue[Len(old.queue) + 1] = node
          /\ DOMAIN new.queue = 1 .. Len(old.queue) + 1
          /\ DOMAIN old.queue = 1 .. Len(old.queue)
        BY <2>1, <2>2 DEF Queue
    <2>4. new \in PriceLevel /\ new.total_qty = QueueQty(new.queue)
        <3>1. QueueQty(new.queue) = QueueQty(old.queue) + node.qty
            BY <2>1, <2>2, QueueQtyAppend
        <3> QED
            BY <3>1, <2>1, <2>2, <2>3 DEF PriceLevel, Queue
    <2>5. /\ DOMAIN ix = Resting(b) \cup {o.id} /\ DOMAIN ix \subseteq OrderId
          /\ ix \in [DOMAIN ix -> Locator]
          /\ ix[o.id] = here
          /\ \A id \in Resting(b) : ix[id] = b.index[id]
        BY <2>0, <2>1, <1>2 DEF IsBook, Locator
    <2>6. InsertInto(b, o) = Rewritten(b, s, p, new, ix)
        BY <2>3 DEF InsertInto, Rewritten, Keep, Resting, old, node
    <2> HIDE DEF new, ix, s, p, here
    <2>7. \A i \in DOMAIN old.queue :
            /\ old.queue[i].id \in Resting(b)
            /\ b.index[old.queue[i].id] = here
            /\ \A j \in DOMAIN old.queue : old.queue[i].id = old.queue[j].id => i = j
        <3>1. CASE p \in Prices(b, s)
            <4>1. old = b.levels[s][p]
                BY <3>1, <2>2
            <4>2. ASSUME NEW i \in DOMAIN b.levels[s][p].queue
                  PROVE  SoundNode(b, s, p, i)
                BY <2>0, <2>1, <3>1, NodeIsSound
            <4> QED
                BY <4>1, <4>2 DEF SoundNode, here
        <3>2. CASE p \notin Prices(b, s)
            BY <3>2, <2>2
        <3> QED
            BY <3>1, <3>2
    <2>8. SoundLevel(s, p, new, ix)
        <3> SUFFICES ASSUME NEW i \in DOMAIN new.queue
                     PROVE  /\ new.queue[i].id \in DOMAIN ix
                            /\ ix[new.queue[i].id] = here
                            /\ \A j \in DOMAIN new.queue :
                                 new.queue[i].id = new.queue[j].id => i = j
            BY <2>4 DEF SoundLevel, here
        <3>1. CASE i \in DOMAIN old.queue
            <4>1. /\ new.queue[i] = old.queue[i]
                  /\ old.queue[i].id \in Resting(b)
                  /\ b.index[old.queue[i].id] = here
                BY <2>3, <2>7, <3>1
            <4>2. new.queue[i].id \in DOMAIN ix /\ ix[new.queue[i].id] = here
                BY <2>5, <4>1
            <4>3. ASSUME NEW j \in DOMAIN new.queue, new.queue[i].id = new.queue[j].id
                  PROVE  i = j
                <5>1. new.queue[Len(old.queue) + 1].id \notin Resting(b)
                    BY <1>2, <2>1, <2>3
                <5>2. j # Len(old.queue) + 1
                    BY <4>1, <4>3, <5>1
                <5>3. j \in DOMAIN old.queue /\ new.queue[j] = old.queue[j]
                    BY <2>3, <5>2
                <5> QED
                    BY <2>7, <3>1, <4>1, <4>3, <5>3
            <4> QED
                BY <4>2, <4>3
        <3>2. CASE i = Len(old.queue) + 1
            BY <3>2, <1>2, <2>1, <2>3, <2>5, <2>7
        <3> QED
            BY <3>1, <3>2, <2>3
    <2>9. SoundIndex(b, s, p, new, ix)
        <3>1. ASSUME NEW id \in DOMAIN ix
              PROVE  \/ ix[id] = here /\ \E i \in DOMAIN new.queue : new.queue[i].id = id
                     \/ id \in Resting(b) /\ ix[id] = b.index[id] /\ b.index[id] # here
            <4>1. CASE id = o.id
                BY <4>1, <2>1, <2>3, <2>5
            <4>2. CASE id \in Resting(b) /\ b.index[id] = here
                <5>0. id \in Resting(b)
                    BY <4>2
                <5>5. PICK t \in Side, q \in Price : EntryAt(b, id, t, q)
                    BY <5>0, <2>0, EntryLeads
                <5>1. /\ b.index[id] = [side |-> t, price |-> q]
                      /\ q \in Prices(b, t)
                      /\ \E i \in DOMAIN b.levels[t][q].queue : b.levels[t][q].queue[i].id = id
                    BY <5>5 DEF EntryAt
                <5>2. t = s /\ q = p
                    BY <5>1, <4>2 DEF here
                <5>3. PICK i \in DOMAIN old.queue : old.queue[i].id = id
                    BY <5>1, <5>2, <2>2
                <5>4. i \in DOMAIN new.queue /\ new.queue[i].id = id
                    BY <5>3, <2>3
                <5> QED
                    BY <5>4, <4>2, <2>5
            <4> QED
                BY <4>1, <4>2, <2>5
        <3> QED
            BY <3>1, <2>5 DEF SoundIndex, here
    <2>10. WellFormed(Rewritten(b, s, p, new, ix))
        BY <2>1, <2>4, <2>5, <2>8, <2>9, RewriteLevel
    <2> QED
        BY <2>6, <2>10, <1>2 DEF Insert
<1> QED
    BY <1>1, <1>2

\* The node the index points to sits in the queue at exactly one place.
LEMMA NodeOfEntry ==
    ASSUME NEW b, IsBook(b), IndexMatchesQueues(b), NEW id \in Resting(b),
           NEW s \in Side, NEW p \in Price, b.index[id] = [side |-> s, price |-> p]
    PROVE  LET q == b.levels[s][p].queue
           IN  /\ p \in Prices(b, s)
               /\ NodeOf(q, id) \in DOMAIN q
               /\ q[NodeOf(q, id)].id = id
<1>0. PICK t \in Side, r \in Price : EntryAt(b, id, t, r)
    BY EntryLeads
<1>1. /\ b.index[id] = [side |-> t, price |-> r]
      /\ r \in Prices(b, t)
      /\ \E i \in DOMAIN b.levels[t][r].queue : b.levels[t][r].queue[i].id = id
    BY <1>0 DEF EntryAt
<1>2. t = s /\ r = p
    BY <1>1
<1> QED
    BY <1>1, <1>2 DEF NodeOf

\* cancel: the node leaves its queue and the index, whatever stood around it.
LEMMA CancelWellFormed ==
    ASSUME NEW b, WellFormed(b), NEW id
    PROVE  WellFormed(CancelOrder(b, id))
<1>0. IsBook(b) /\ IndexMatchesQueues(b) /\ LevelTotals(b) /\ NoEmptyLevel(b)
    BY DEF WellFormed
<1>1. CASE id \notin Resting(b)
    BY <1>1 DEF CancelOrder
<1>2. CASE id \in Resting(b)
    <2>0. PICK s \in Side, p \in Price : EntryAt(b, id, s, p)
        BY <1>0, <1>2, EntryLeads
    <2>1. b.index[id] = [side |-> s, price |-> p]
        BY <2>0 DEF EntryAt
    <2> DEFINE q == b.levels[s][p].queue
               k == NodeOf(q, id)
               nq == RemoveAt(q, k)
               new == [total_qty |-> b.levels[s][p].total_qty - q[k].qty, queue |-> nq]
               ix == Unindex(b.index, id)
    <2>2. p \in Prices(b, s) /\ k \in DOMAIN q /\ q[k].id = id
        BY <1>0, <1>2, <2>1, NodeOfEntry
    <2>3. /\ b.levels[s][p] \in PriceLevel /\ q \in Queue
          /\ b.levels[s][p].total_qty \in Int
          /\ b.levels[s][p].total_qty = QueueQty(q)
        BY <1>0, <2>2, LevelTypes DEF LevelTotals
    <2>4. DOMAIN q = 1 .. Len(q) /\ Len(q) \in Nat /\ q[k].qty \in Nat
        BY <2>2, <2>3, NodeTypes
    <2>5. /\ nq \in Queue /\ QueueQty(nq) = QueueQty(q) - q[k].qty
          /\ \A i \in DOMAIN nq : OldPlace(k, i) \in DOMAIN q \ {k} /\ nq[i] = q[OldPlace(k, i)]
          /\ \A j \in DOMAIN q \ {k} : \E i \in DOMAIN nq : nq[i] = q[j]
          /\ \A i, j \in DOMAIN nq : OldPlace(k, i) = OldPlace(k, j) => i = j
        <3>1. k \in 1 .. Len(q) /\ nq = RemoveAt(q, k)
            BY <2>2, <2>4
        <3> HIDE DEF q, k, nq
        <3>2. QueueQty(nq) = QueueQty(q) - q[k].qty
            BY <2>3, <3>1, QueueQtyRemove
        <3> QED
            BY <2>3, <3>1, <3>2, RemovedNodes
    <2> HIDE DEF nq
    <2>6. /\ DOMAIN ix = Resting(b) \ {id} /\ DOMAIN ix \subseteq OrderId
          /\ ix \in [DOMAIN ix -> Locator]
          /\ \A i \in DOMAIN ix : ix[i] = b.index[i]
        BY <1>0 DEF Unindex, Resting, IsBook
    <2>7. CancelOrder(b, id) = Rewritten(b, s, p, new, ix)
        <3>1. b.index[id].side = s /\ b.index[id].price = p
            BY <2>1
        <3> QED
            BY <1>2, <2>2, <3>1 DEF CancelOrder, EraseLocator, WithoutNode, Rewritten, Prices, nq
    <2>8. \A i \in DOMAIN q :
            /\ q[i].id \in Resting(b)
            /\ b.index[q[i].id] = [side |-> s, price |-> p]
            /\ \A j \in DOMAIN q : q[i].id = q[j].id => i = j
        <3>1. \A i \in DOMAIN q : SoundNode(b, s, p, i)
            BY <1>0, <2>2, NodeIsSound
        <3> QED
            BY <3>1 DEF SoundNode
    <2>9. /\ new \in PriceLevel /\ new.total_qty = QueueQty(new.queue)
          /\ new.queue = nq
        <3>1. b.levels[s][p].total_qty - q[k].qty \in Int
            BY <2>3, <2>4
        <3> QED
            BY <3>1, <2>3, <2>5 DEF PriceLevel, Queue
    <2> HIDE DEF new, ix, q, k
    <2>10. ASSUME NEW i \in DOMAIN nq
           PROVE  /\ nq[i].id \in DOMAIN ix
                  /\ ix[nq[i].id] = [side |-> s, price |-> p]
                  /\ \A j \in DOMAIN nq : nq[i].id = nq[j].id => i = j
        <3>1. OldPlace(k, i) \in DOMAIN q /\ OldPlace(k, i) # k /\ nq[i] = q[OldPlace(k, i)]
            BY <2>5
        <3>2. q[OldPlace(k, i)].id # id
            BY <2>2, <2>8, <3>1
        <3>3. nq[i].id \in DOMAIN ix /\ ix[nq[i].id] = [side |-> s, price |-> p]
            BY <2>6, <2>8, <3>1, <3>2
        <3>4. ASSUME NEW j \in DOMAIN nq, nq[i].id = nq[j].id PROVE i = j
            <4>1. OldPlace(k, j) \in DOMAIN q /\ nq[j] = q[OldPlace(k, j)]
                BY <2>5
            <4>2. OldPlace(k, i) = OldPlace(k, j)
                BY <2>8, <3>1, <3>4, <4>1
            <4> QED
                BY <2>5, <4>2
        <3> QED
            BY <3>3, <3>4
    <2>11. SoundLevel(s, p, new, ix)
        BY <2>9, <2>10 DEF SoundLevel
    <2>12. SoundIndex(b, s, p, new, ix)
        <3>1. ASSUME NEW i \in DOMAIN ix, b.index[i] = [side |-> s, price |-> p]
              PROVE  \E j \in DOMAIN nq : nq[j].id = i
            <4>1. i \in Resting(b) /\ i # id
                BY <2>6
            <4>2. NodeOf(q, i) \in DOMAIN q /\ q[NodeOf(q, i)].id = i
                BY <1>0, <3>1, <4>1, NodeOfEntry DEF q
            <4>3. NodeOf(q, i) # k
                BY <2>2, <4>1, <4>2
            <4> QED
                BY <2>5, <4>2, <4>3
        <3>2. ASSUME NEW i \in Resting(b), b.index[i] # [side |-> s, price |-> p]
              PROVE  i \in DOMAIN ix /\ ix[i] = b.index[i]
            BY <2>1, <2>6, <3>2
        <3> QED
            BY <2>6, <2>9, <3>1, <3>2 DEF SoundIndex
    <2>13. WellFormed(Rewritten(b, s, p, new, ix))
        BY <2>6, <2>9, <2>11, <2>12, RewriteLevel
    <2> QED
        BY <2>7, <2>13
<1> QED
    BY <1>1, <1>2

\* Popping a spent front node is cancelling it.
LEMMA PopIsCancel ==
    ASSUME NEW b, WellFormed(b), NEW s \in Side, NEW p \in Prices(b, s),
           FrontNode(b, s, p).qty = 0
    PROVE  /\ PopFront(b, s, p) = CancelOrder(b, FrontNode(b, s, p).id)
           /\ FrontNode(b, s, p).id \in Resting(b)
<1> DEFINE q == b.levels[s][p].queue
           id == q[1].id
<1>0. IsBook(b) /\ IndexMatchesQueues(b) /\ NoEmptyLevel(b)
    BY DEF WellFormed
<1>1. q \in Queue /\ q # << >> /\ p \in Price /\ b.levels[s][p].total_qty \in Int
    BY <1>0, LevelTypes DEF NoEmptyLevel
<1>2. 1 \in DOMAIN q /\ FrontNode(b, s, p) = q[1]
    BY <1>1, EmptySeq DEF Queue, FrontNode
<1>3. /\ id \in Resting(b)
      /\ b.index[id] = [side |-> s, price |-> p]
      /\ \A j \in DOMAIN q : id = q[j].id => 1 = j
    <2>1. SoundNode(b, s, p, 1)
        BY <1>0, <1>2, NodeIsSound
    <2> QED
        BY <2>1 DEF SoundNode
<1>4. NodeOf(q, id) = 1
    BY <1>2, <1>3 DEF NodeOf
<1>5. WithoutNode(b.levels[s][p], 1) = [total_qty |-> b.levels[s][p].total_qty, queue |-> Tail(q)]
    <2>1. Tail(q) = RemoveAt(q, 1)
        BY <1>1, QueueQtyTail
    <2>2. b.levels[s][p].total_qty - q[1].qty = b.levels[s][p].total_qty
        BY <1>1, <1>2
    <2> QED
        BY <2>1, <2>2 DEF WithoutNode
<1>6. b.index[id].side = s /\ b.index[id].price = p
    <2>1. b.index[id] = [side |-> s, price |-> p]
        BY <1>3
    <2> HIDE DEF id
    <2> QED
        BY <2>1
<1>7. Head(q) = q[1]
    BY <1>1 DEF Queue
<1> DEFINE new == [total_qty |-> b.levels[s][p].total_qty, queue |-> Tail(q)]
           c == [levels |-> [b.levels EXCEPT ![s] = Keep(b.levels[s], p, new)],
                 index  |-> Unindex(b.index, id)]
<1>8. PopFront(b, s, p) = c
    BY <1>7 DEF PopFront
<1>9. CancelOrder(b, id) = c
    <2>1. EraseLocator(b.levels[s], p, id) = Keep(b.levels[s], p, new)
        BY <1>4, <1>5 DEF EraseLocator, Prices
    <2> HIDE DEF new, q
    <2> QED
        BY <1>3, <1>6, <2>1 DEF CancelOrder
<1> QED
    BY <1>2, <1>3, <1>8, <1>9

LEMMA PopWellFormed ==
    ASSUME NEW b, WellFormed(b), NEW s \in Side, NEW p \in Prices(b, s),
           FrontNode(b, s, p).qty = 0
    PROVE  WellFormed(PopFront(b, s, p))
<1> QED
    BY PopIsCancel, CancelWellFormed

\* A trade changes the front node's quantity and the level total alike.
LEMMA TradeWellFormed ==
    ASSUME NEW b, WellFormed(b), NEW s \in Side, NEW p \in Prices(b, s),
           NEW n \in Nat, n <= FrontNode(b, s, p).qty
    PROVE  WellFormed(TradeFront(b, s, p, n))
<1> DEFINE q == b.levels[s][p].queue
           nq == [q EXCEPT ![1].qty = q[1].qty - n]
           new == [total_qty |-> b.levels[s][p].total_qty - n, queue |-> nq]
<1>0. IsBook(b) /\ IndexMatchesQueues(b) /\ LevelTotals(b) /\ NoEmptyLevel(b)
    BY DEF WellFormed
<1>1. /\ q \in Queue /\ q # << >> /\ p \in Price
      /\ b.levels[s][p].total_qty \in Int
      /\ b.levels[s][p].total_qty = QueueQty(q)
    BY <1>0, LevelTypes DEF NoEmptyLevel, LevelTotals
<1>2. 1 \in DOMAIN q /\ FrontNode(b, s, p) = q[1] /\ q[1] \in RestingOrder
    BY <1>1, EmptySeq DEF Queue, FrontNode
<1>3. /\ nq \in Queue /\ DOMAIN nq = DOMAIN q
      /\ nq[1] = [q[1] EXCEPT !.qty = q[1].qty - n]
      /\ \A i \in DOMAIN q : i # 1 => nq[i] = q[i]
      /\ QueueQty(nq) = QueueQty(q) - n
    <2> HIDE DEF q
    <2> QED
        BY <1>1, <1>2, QueueQtyFront
<1>4. TradeFront(b, s, p, n) = Rewritten(b, s, p, new, b.index)
    <2>1. nq # << >>
        <3> HIDE DEF nq, q
        <3>1. 1 \in DOMAIN nq
            BY <1>2, <1>3
        <3> QED
            BY <3>1
    <2> QED
        BY <2>1 DEF TradeFront, Rewritten, Keep
<1> HIDE DEF nq, q
<1>5. \A i \in DOMAIN q : nq[i].id = q[i].id
    BY <1>2, <1>3 DEF RestingOrder
<1>6. new \in PriceLevel /\ new.total_qty = QueueQty(new.queue) /\ new.queue = nq
    BY <1>1, <1>3 DEF PriceLevel, Queue
<1>7. Resting(b) = DOMAIN b.index /\ Resting(b) \subseteq OrderId
      /\ b.index \in [DOMAIN b.index -> Locator]
    BY <1>0 DEF IsBook, Resting
<1> HIDE DEF new
<1>8. \A i \in DOMAIN q :
        /\ q[i].id \in Resting(b)
        /\ b.index[q[i].id] = [side |-> s, price |-> p]
        /\ \A j \in DOMAIN q : q[i].id = q[j].id => i = j
    <2>1. \A i \in DOMAIN q : SoundNode(b, s, p, i)
        BY <1>0, NodeIsSound DEF q
    <2> QED
        BY <2>1 DEF SoundNode, q
<1>9. SoundLevel(s, p, new, b.index)
    BY <1>3, <1>5, <1>6, <1>7, <1>8 DEF SoundLevel
<1>10. SoundIndex(b, s, p, new, b.index)
    <2>1. ASSUME NEW id \in Resting(b), b.index[id] = [side |-> s, price |-> p]
          PROVE  \E i \in DOMAIN nq : nq[i].id = id
        <3>1. NodeOf(q, id) \in DOMAIN q /\ q[NodeOf(q, id)].id = id
            BY <1>0, <1>1, <2>1, NodeOfEntry DEF q
        <3> QED
            BY <3>1, <1>3, <1>5
    <2> QED
        BY <1>6, <1>7, <2>1 DEF SoundIndex
<1>11. WellFormed(Rewritten(b, s, p, new, b.index))
    BY <1>1, <1>6, <1>7, <1>9, <1>10, RewriteLevel
<1> QED
    BY <1>4, <1>11

(***************************************************************************)
(* Which prices and nodes an operation leaves on the book.                 *)
(***************************************************************************)

\* cancel adds no price and no node, keeps quantities, and the id is gone.
LEMMA CancelNodes ==
    ASSUME NEW b, WellFormed(b), NEW id, NEW s \in Side
    PROVE  LET c == CancelOrder(b, id)
           IN  /\ Prices(c, s) \subseteq Prices(b, s)
               /\ \A p \in Prices(c, s) : \A i \in DOMAIN c.levels[s][p].queue :
                    \E j \in DOMAIN b.levels[s][p].queue :
                        /\ c.levels[s][p].queue[i] = b.levels[s][p].queue[j]
                        /\ b.levels[s][p].queue[j].id # id
<1>0. IsBook(b) /\ IndexMatchesQueues(b)
    BY DEF WellFormed
<1>1. CASE id \notin Resting(b)
    <2>1. CancelOrder(b, id) = b
        BY <1>1 DEF CancelOrder
    <2>2. \A p \in Prices(b, s) : \A i \in DOMAIN b.levels[s][p].queue :
            b.levels[s][p].queue[i].id # id
        <3> SUFFICES ASSUME NEW p \in Prices(b, s), NEW i \in DOMAIN b.levels[s][p].queue
                     PROVE  b.levels[s][p].queue[i].id # id
            OBVIOUS
        <3>1. b.levels[s][p].queue[i].id \in Resting(b)
            <4>1. SoundNode(b, s, p, i)
                BY <1>0, NodeIsSound
            <4> QED
                BY <4>1 DEF SoundNode
        <3> QED
            BY <1>1, <3>1
    <2> QED
        BY <2>1, <2>2
<1>2. CASE id \in Resting(b)
    <2>1. PICK t \in Side, r \in Price :
            /\ b.index[id] = [side |-> t, price |-> r]
            /\ r \in Prices(b, t)
            /\ \E i \in DOMAIN b.levels[t][r].queue : b.levels[t][r].queue[i].id = id
        <3>1. \E t \in Side, r \in Price : EntryAt(b, id, t, r)
            BY <1>0, <1>2, EntryLeads
        <3> QED
            BY <3>1, Zenon DEF EntryAt
    <2> DEFINE q == b.levels[t][r].queue
               k == NodeOf(q, id)
               new == WithoutNode(b.levels[t][r], k)
               c == Rewritten(b, t, r, new, Unindex(b.index, id))
    <2>2. CancelOrder(b, id) = c
        <3>1. b.index[id].side = t /\ b.index[id].price = r
            BY <2>1
        <3> QED
            BY <1>2, <2>1, <3>1 DEF CancelOrder, EraseLocator, Rewritten, Prices
    <2>3. k \in DOMAIN q /\ q[k].id = id /\ q \in Queue
        BY <1>0, <1>2, <2>1, NodeOfEntry, LevelTypes
    <2>4. k \in 1 .. Len(q)
        BY <2>3, NodeTypes
    <2>5. \A i \in DOMAIN new.queue : \E j \in DOMAIN q \ {k} : new.queue[i] = q[j]
        <3>1. new.queue = RemoveAt(q, k)
            BY DEF WithoutNode
        <3> HIDE DEF new, q, k
        <3> QED
            BY <2>3, <2>4, <3>1, RemovedNodes
    <2> HIDE DEF new
    <2>6. /\ Prices(c, t) \subseteq Prices(b, t)
          /\ \A p \in Prices(c, t) :
               c.levels[t][p] = IF p = r THEN new ELSE b.levels[t][p]
          /\ \A u \in Side \ {t} : c.levels[u] = b.levels[u]
        <3> DEFINE ix == Unindex(b.index, id)
        <3>0. c = Rewritten(b, t, r, new, ix)
            OBVIOUS
        <3>1. IsBook(b)
            BY <1>0
        <3> HIDE DEF c, ix, q, k
        <3>2. /\ Prices(c, t) = IF new.queue = << >> THEN Prices(b, t) \ {r}
                                                    ELSE Prices(b, t) \cup {r}
              /\ \A p \in Prices(c, t) :
                   c.levels[t][p] = IF p = r THEN new ELSE b.levels[t][p]
              /\ \A u \in Side \ {t} : c.levels[u] = b.levels[u]
            BY <3>0, <3>1, RewrittenPrices
        <3> QED
            BY <2>1, <3>2
    <2> HIDE DEF c
    <2>7. ASSUME NEW p \in Prices(b, s), NEW j \in DOMAIN b.levels[s][p].queue,
                 b.levels[s][p].queue[j].id = id
          PROVE  s = t /\ p = r /\ j = k
        <3>0. SoundNode(b, s, p, j)
            BY <1>0, <2>7, NodeIsSound
        <3>1. b.index[id] = [side |-> s, price |-> p]
            BY <2>7, <3>0 DEF SoundNode
        <3>2. s = t /\ p = r
            BY <2>1, <3>1
        <3>3. k \in DOMAIN b.levels[s][p].queue /\ b.levels[s][p].queue[k].id = id
            BY <2>3, <3>2
        <3> HIDE DEF k, q
        <3> QED
            BY <2>7, <3>0, <3>2, <3>3 DEF SoundNode
    <2>8. CASE s # t
        <3>1. c.levels[s] = b.levels[s] /\ Prices(c, s) = Prices(b, s)
            BY <2>6, <2>8 DEF Prices
        <3> QED
            BY <2>2, <2>7, <2>8, <3>1
    <2>9. CASE s = t
        <3>1. ASSUME NEW p \in Prices(c, s), NEW i \in DOMAIN c.levels[s][p].queue
              PROVE  \E j \in DOMAIN b.levels[s][p].queue :
                        /\ c.levels[s][p].queue[i] = b.levels[s][p].queue[j]
                        /\ b.levels[s][p].queue[j].id # id
            <4>1. CASE p = r
                <5>1. PICK j \in DOMAIN q \ {k} : new.queue[i] = q[j]
                    BY <2>5, <2>6, <2>9, <3>1, <4>1
                <5>2. q[j].id # id
                    BY <2>1, <2>7, <2>9, <4>1, <5>1
                <5> QED
                    BY <2>6, <2>9, <4>1, <5>1, <5>2
            <4>2. CASE p # r
                <5>1. p \in Prices(b, s) /\ c.levels[s][p] = b.levels[s][p]
                    BY <2>6, <2>9, <4>2
                <5>2. b.levels[s][p].queue[i].id # id
                    BY <2>7, <4>2, <5>1
                <5> QED
                    BY <5>1, <5>2
            <4> QED
                BY <4>1, <4>2
        <3> QED
            BY <2>2, <2>6, <2>9, <3>1
    <2> QED
        BY <2>8, <2>9
<1> QED
    BY <1>1, <1>2

\* The node an order rests as.
NodeFor(o) == [id |-> o.id, qty |-> o.remaining, is_ours |-> o.is_ours]

\* insert adds at most the order's own price, and one node with its remainder.
LEMMA InsertNodes ==
    ASSUME NEW b, IsBook(b), NEW o \in Order, NEW s \in Side
    PROVE  LET c == Insert(b, o)
           IN  /\ \A p \in Prices(c, s) :
                     p \in Prices(b, s) \/ (s = o.side /\ p = o.price)
               /\ \A p \in Prices(c, s) : \A i \in DOMAIN c.levels[s][p].queue :
                    \/ c.levels[s][p].queue[i] = NodeFor(o)
                    \/ /\ p \in Prices(b, s)
                       /\ \E j \in DOMAIN b.levels[s][p].queue :
                            c.levels[s][p].queue[i] = b.levels[s][p].queue[j]
<1>1. CASE o.id \in Resting(b)
    BY <1>1 DEF Insert
<1>2. CASE o.id \notin Resting(b)
    <2> DEFINE old == LevelOrNew(b.levels[o.side], o.price)
               node == NodeFor(o)
               new == [total_qty |-> old.total_qty + o.remaining, queue |-> Append(old.queue, node)]
               ix == [i \in Resting(b) \cup {o.id} |->
                        IF i = o.id THEN [side |-> o.side, price |-> o.price] ELSE b.index[i]]
               c == Rewritten(b, o.side, o.price, new, ix)
    <2>1. o.side \in Side
        BY DEF Order
    <2>2. /\ old.queue \in Queue /\ node \in RestingOrder
          /\ o.price \in Prices(b, o.side) => old = b.levels[o.side][o.price]
          /\ o.price \notin Prices(b, o.side) => old.queue = << >>
        <3>1. node \in RestingOrder
            BY DEF NodeFor, Order, RestingOrder
        <3> HIDE DEF node
        <3> QED
            BY <2>1, <3>1, LevelTypes DEF LevelOrNew, Prices, Queue
    <2> HIDE DEF old, node
    <2>3. /\ new.queue # << >>
          /\ \A i \in DOMAIN new.queue :
               \/ new.queue[i] = node
               \/ i \in DOMAIN old.queue /\ new.queue[i] = old.queue[i]
        BY <2>2 DEF Queue
    <2>4. Insert(b, o) = c
        BY <1>2, <2>3 DEF Insert, InsertInto, Rewritten, Keep, Resting, NodeFor, old, node
    <2> HIDE DEF new, ix
    <2>5. /\ Prices(c, o.side) = Prices(b, o.side) \cup {o.price}
          /\ \A p \in Prices(c, o.side) :
               c.levels[o.side][p] = IF p = o.price THEN new ELSE b.levels[o.side][p]
          /\ \A t \in Side \ {o.side} : c.levels[t] = b.levels[t]
        <3>1. c = Rewritten(b, o.side, o.price, new, ix)
            OBVIOUS
        <3> HIDE DEF c
        <3> QED
            BY <2>1, <2>3, <3>1, RewrittenPrices
    <2> HIDE DEF c
    <2>6. CASE s # o.side
        <3>1. c.levels[s] = b.levels[s] /\ Prices(c, s) = Prices(b, s)
            BY <2>5, <2>6 DEF Prices
        <3> QED
            BY <2>4, <3>1
    <2>7. CASE s = o.side
        <3>1. ASSUME NEW p \in Prices(c, s), NEW i \in DOMAIN c.levels[s][p].queue
              PROVE  \/ c.levels[s][p].queue[i] = NodeFor(o)
                     \/ /\ p \in Prices(b, s)
                        /\ \E j \in DOMAIN b.levels[s][p].queue :
                             c.levels[s][p].queue[i] = b.levels[s][p].queue[j]
            <4>1. CASE p = o.price
                <5>1. c.levels[s][p] = new
                    BY <2>5, <2>7, <4>1
                <5>2. CASE new.queue[i] = node
                    BY <5>1, <5>2 DEF node
                <5>3. CASE i \in DOMAIN old.queue /\ new.queue[i] = old.queue[i]
                    <6>1. o.price \in Prices(b, o.side)
                        BY <5>3, <2>2
                    <6> QED
                        BY <5>1, <5>3, <6>1, <2>2, <2>7, <4>1
                <5> QED
                    BY <5>1, <5>2, <5>3, <2>3
            <4>2. CASE p # o.price
                BY <2>5, <2>7, <4>2
            <4> QED
                BY <4>1, <4>2
        <3> QED
            BY <2>4, <2>5, <2>7, <3>1
    <2> QED
        BY <2>6, <2>7
<1> QED
    BY <1>1, <1>2

\* A trade changes no price, and no node but the front one it trades with.
LEMMA TradeNodes ==
    ASSUME NEW b, WellFormed(b), NEW s \in Side, NEW p \in Prices(b, s),
           NEW n \in Nat, n <= FrontNode(b, s, p).qty, NEW t \in Side
    PROVE  LET c == TradeFront(b, s, p, n)
           IN  /\ Prices(c, t) = Prices(b, t)
               /\ \A r \in Prices(b, t) :
                    /\ DOMAIN c.levels[t][r].queue = DOMAIN b.levels[t][r].queue
                    /\ \A i \in DOMAIN b.levels[t][r].queue :
                         \/ c.levels[t][r].queue[i] = b.levels[t][r].queue[i]
                         \/ t = s /\ r = p /\ i = 1
<1> DEFINE q == b.levels[s][p].queue
           nq == [q EXCEPT ![1].qty = q[1].qty - n]
           new == [total_qty |-> b.levels[s][p].total_qty - n, queue |-> nq]
           c == Rewritten(b, s, p, new, b.index)
<1>0. IsBook(b) /\ NoEmptyLevel(b)
    BY DEF WellFormed
<1>1. q \in Queue /\ q # << >>
    BY <1>0, LevelTypes DEF NoEmptyLevel
<1>2. 1 \in DOMAIN q /\ FrontNode(b, s, p) = q[1]
    BY <1>1, EmptySeq DEF Queue, FrontNode
<1>3. DOMAIN nq = DOMAIN q /\ (\A i \in DOMAIN q : i # 1 => nq[i] = q[i]) /\ nq # << >>
    <2>1. DOMAIN nq = DOMAIN q /\ (\A i \in DOMAIN q : i # 1 => nq[i] = q[i])
        <3> HIDE DEF q
        <3> QED
            BY <1>1, <1>2, QueueQtyFront
    <2> HIDE DEF nq, q
    <2> QED
        BY <1>2, <2>1
<1>4. TradeFront(b, s, p, n) = c
    BY <1>3 DEF TradeFront, Rewritten, Keep
<1> HIDE DEF nq
<1>5. new.queue = nq /\ nq # << >>
    BY <1>3
<1> HIDE DEF new
<1>6. /\ Prices(c, s) = Prices(b, s) \cup {p}
      /\ \A r \in Prices(c, s) : c.levels[s][r] = IF r = p THEN new ELSE b.levels[s][r]
      /\ \A u \in Side \ {s} : c.levels[u] = b.levels[u]
    <2>1. c = Rewritten(b, s, p, new, b.index)
        OBVIOUS
    <2> HIDE DEF c
    <2> QED
        BY <1>0, <1>5, <2>1, RewrittenPrices
<1> HIDE DEF c, q
<1>7. CASE t # s
    <2>1. c.levels[t] = b.levels[t] /\ Prices(c, t) = Prices(b, t)
        BY <1>6, <1>7 DEF Prices
    <2> QED
        BY <1>4, <2>1
<1>8. CASE t = s
    <2>1. Prices(c, s) = Prices(b, s)
        BY <1>6
    <2>2. c.levels[s][p].queue = nq
        BY <1>5, <1>6
    <2>3. ASSUME NEW r \in Prices(b, s)
          PROVE  /\ DOMAIN c.levels[s][r].queue = DOMAIN b.levels[s][r].queue
                 /\ \A i \in DOMAIN b.levels[s][r].queue :
                      c.levels[s][r].queue[i] = b.levels[s][r].queue[i] \/ (r = p /\ i = 1)
        <3>1. CASE r = p
            <4>1. b.levels[s][r].queue = q
                BY <3>1 DEF q
            <4>2. c.levels[s][r].queue = nq
                BY <2>2, <3>1
            <4> QED
                BY <1>3, <3>1, <4>1, <4>2
        <3>2. CASE r # p
            <4>1. c.levels[s][r] = b.levels[s][r]
                BY <1>6, <2>1, <3>2
            <4> QED
                BY <4>1
        <3> QED
            BY <3>1, <3>2
    <2> QED
        BY <1>4, <1>8, <2>1, <2>3
<1> QED
    BY <1>7, <1>8

\* A trade takes its quantity out of one level's cached total.
LEMMA TradeTotals ==
    ASSUME NEW b, WellFormed(b), NEW s \in Side, NEW p \in Prices(b, s), NEW n
    PROVE  \A r \in Prices(b, s) :
             TradeFront(b, s, p, n).levels[s][r].total_qty =
               IF r = p THEN b.levels[s][p].total_qty - n ELSE b.levels[s][r].total_qty
<1> DEFINE q == b.levels[s][p].queue
           new == [total_qty |-> b.levels[s][p].total_qty - n,
                   queue |-> [q EXCEPT ![1].qty = q[1].qty - n]]
           m == PutLevel(b.levels[s], p, new)
<1>1. b.levels = [t \in Side |-> b.levels[t]]
    BY DEF WellFormed, IsBook
<1>2. TradeFront(b, s, p, n).levels = [b.levels EXCEPT ![s] = m]
    BY DEF TradeFront
<1>3. \A r \in Prices(b, s) : m[r] = IF r = p THEN new ELSE b.levels[s][r]
    BY DEF PutLevel, Prices
<1>4. new.total_qty = b.levels[s][p].total_qty - n
    OBVIOUS
<1> HIDE DEF m, new
<1>5. TradeFront(b, s, p, n).levels[s] = m
    BY <1>1, <1>2
<1> QED
    BY <1>3, <1>4, <1>5

\* Popping a spent front order changes no cached total; a level that goes with
\* it had a total of 0, there being nobody else in its queue.
LEMMA PopTotals ==
    ASSUME NEW b, WellFormed(b), NEW s \in Side, NEW p \in Prices(b, s),
           FrontNode(b, s, p).qty = 0
    PROVE  LET c == PopFront(b, s, p)
           IN  /\ \A r \in Prices(c, s) : /\ r \in Prices(b, s)
                                          /\ c.levels[s][r].total_qty = b.levels[s][r].total_qty
               /\ \A r \in Prices(b, s) \ Prices(c, s) : r = p /\ b.levels[s][p].total_qty = 0
<1> DEFINE q == b.levels[s][p].queue
           new == [total_qty |-> b.levels[s][p].total_qty, queue |-> Tail(q)]
           ix == Unindex(b.index, Head(q).id)
           c == Rewritten(b, s, p, new, ix)
<1>0. IsBook(b) /\ NoEmptyLevel(b) /\ LevelTotals(b)
    BY DEF WellFormed
<1>1. q \in Queue /\ q # << >> /\ b.levels[s][p].total_qty = QueueQty(q)
    BY <1>0, LevelTypes DEF NoEmptyLevel, LevelTotals
<1>2. q[1].qty = 0 /\ QueueQty(q) \in Int
    <2>1. FrontNode(b, s, p) = Head(q)
        BY DEF FrontNode
    <2> HIDE DEF q
    <2>2. Head(q) = q[1]
        BY <1>1 DEF Queue
    <2>3. QueueQty(q) \in Int
        BY <1>1, PrefixSumsExist, QueueQtyFromSums
    <2> QED
        BY <2>1, <2>2, <2>3
<1>3. Tail(q) = << >> => b.levels[s][p].total_qty = 0
    <2> HIDE DEF q
    <2>1. QueueQty(Tail(q)) = QueueQty(q) - q[1].qty
        BY <1>1, QueueQtyTail
    <2> SUFFICES ASSUME Tail(q) = << >> PROVE QueueQty(q) = 0
        BY <1>1
    <2>2. QueueQty(Tail(q)) = 0
        BY QueueQtyEmpty
    <2> QED
        BY <1>2, <2>1, <2>2
<1>4. PopFront(b, s, p) = c
    BY DEF PopFront, Rewritten
<1>5. new.queue = Tail(q) /\ new.total_qty = b.levels[s][p].total_qty
    OBVIOUS
<1>6. /\ Prices(c, s) = IF new.queue = << >> THEN Prices(b, s) \ {p} ELSE Prices(b, s) \cup {p}
      /\ \A r \in Prices(c, s) : c.levels[s][r] = IF r = p THEN new ELSE b.levels[s][r]
    <2>1. c = Rewritten(b, s, p, new, ix)
        OBVIOUS
    <2> HIDE DEF c, new, ix
    <2> QED
        BY <1>0, <2>1, RewrittenPrices
<1> HIDE DEF c, new, q
<1> QED
    BY <1>3, <1>4, <1>5, <1>6


(***************************************************************************)
(* The book as a function from the ids that rest to what rests under them, *)
(* and what an operation does to that function.                            *)
(***************************************************************************)
Entry(b, id) == QueueOf(b, id)[PlaceOf(b, id)]

HasNode(b, s, p, r) ==
    /\ p \in Prices(b, s)
    /\ \E i \in DOMAIN b.levels[s][p].queue : b.levels[s][p].queue[i] = r

\* A node of a queue is what rests under its id.
LEMMA NodeIsEntry ==
    ASSUME NEW b, WellFormed(b), NEW s \in Side, NEW p, NEW r, HasNode(b, s, p, r)
    PROVE  /\ r.id \in Resting(b)
           /\ b.index[r.id] = [side |-> s, price |-> p]
           /\ Entry(b, r.id) = r
<1> DEFINE q == b.levels[s][p].queue
<1>1. IndexMatchesQueues(b) /\ p \in Prices(b, s)
    BY DEF WellFormed, HasNode
<1>2. PICK i \in DOMAIN q : q[i] = r
    BY DEF HasNode
<1>3. SoundNode(b, s, p, i)
    BY <1>1, NodeIsSound
<1>4. /\ r.id \in Resting(b) /\ b.index[r.id] = [side |-> s, price |-> p]
      /\ \A j \in DOMAIN q : r.id = q[j].id => i = j
    BY <1>2, <1>3 DEF SoundNode
<1>5. b.index[r.id].side = s /\ b.index[r.id].price = p
    BY <1>4
<1>6. NodeOf(q, r.id) = i
    <2> HIDE DEF q
    <2> QED
        BY <1>2, <1>4 DEF NodeOf
<1>7. Entry(b, r.id) = q[i]
    BY <1>5, <1>6 DEF Entry, QueueOf, PlaceOf
<1> QED
    BY <1>2, <1>4, <1>7

\* What rests under an id is a node of the queue the index names.
LEMMA EntryIsNode ==
    ASSUME NEW b, WellFormed(b), NEW id \in Resting(b)
    PROVE  /\ Entry(b, id).id = id
           /\ \E s \in Side, p \in Price :
                b.index[id] = [side |-> s, price |-> p] /\ HasNode(b, s, p, Entry(b, id))
<1>1. IsBook(b) /\ IndexMatchesQueues(b)
    BY DEF WellFormed
<1>2. PICK s \in Side, p \in Price : EntryAt(b, id, s, p)
    BY <1>1, EntryLeads
<1>3. b.index[id] = [side |-> s, price |-> p] /\ p \in Prices(b, s)
    BY <1>2 DEF EntryAt
<1>4. PICK i \in DOMAIN b.levels[s][p].queue : b.levels[s][p].queue[i].id = id
    BY <1>2 DEF EntryAt
<1> DEFINE r == b.levels[s][p].queue[i]
<1>5. HasNode(b, s, p, r) /\ r.id = id
    BY <1>3, <1>4 DEF HasNode
<1> HIDE DEF r
<1>6. Entry(b, id) = r
    BY <1>5, NodeIsEntry
<1> QED
    BY <1>3, <1>5, <1>6

LEMMA EntryType ==
    ASSUME NEW b, WellFormed(b), NEW id \in Resting(b)
    PROVE  /\ Entry(b, id) \in RestingOrder /\ Entry(b, id).id = id
           /\ Entry(b, id).qty \in Nat /\ b.index[id].side \in Side
           /\ NodeQty(b, id) = Entry(b, id).qty
<1>1. PICK s \in Side, p \in Price :
        b.index[id] = [side |-> s, price |-> p] /\ HasNode(b, s, p, Entry(b, id))
    BY EntryIsNode
<1>2. b.levels[s][p].queue \in Queue
    BY <1>1, LevelTypes DEF WellFormed, HasNode
<1>3. Entry(b, id) \in RestingOrder /\ Entry(b, id).qty \in Nat
    BY <1>1, <1>2, NodeTypes DEF HasNode
<1>4. b.index[id].side = s
    BY <1>1
<1>5. Entry(b, id).id = id
    BY EntryIsNode
<1> QED
    BY <1>3, <1>4, <1>5 DEF NodeQty, Entry

\* cancel takes the id out and leaves the others as they are.
LEMMA CancelEntries ==
    ASSUME NEW b, WellFormed(b), NEW id, NEW c, c = CancelOrder(b, id)
    PROVE  /\ Resting(c) = Resting(b) \ {id}
           /\ \A k \in Resting(c) : c.index[k] = b.index[k] /\ Entry(c, k) = Entry(b, k)
<1>1. Resting(c) = Resting(b) \ {id} /\ \A k \in Resting(c) : c.index[k] = b.index[k]
    BY DEF CancelOrder, Resting, Unindex
<1>2. WellFormed(c)
    BY CancelWellFormed
<1>3. ASSUME NEW s \in Side, NEW p, NEW r, HasNode(c, s, p, r)
      PROVE  HasNode(b, s, p, r)
    <2>1. p \in Prices(c, s)
        BY <1>3 DEF HasNode
    <2>2. PICK i \in DOMAIN c.levels[s][p].queue : c.levels[s][p].queue[i] = r
        BY <1>3 DEF HasNode
    <2>3. /\ p \in Prices(b, s)
          /\ \E j \in DOMAIN b.levels[s][p].queue :
               c.levels[s][p].queue[i] = b.levels[s][p].queue[j]
        BY <2>1, CancelNodes
    <2> QED
        BY <2>2, <2>3 DEF HasNode
<1>4. ASSUME NEW k \in Resting(c)
      PROVE  Entry(c, k) = Entry(b, k)
    <2>1. PICK s \in Side, p \in Price : HasNode(c, s, p, Entry(c, k))
        BY <1>2, EntryIsNode
    <2> DEFINE r == Entry(c, k)
    <2>2. HasNode(b, s, p, r) /\ r.id = k
        BY <1>2, <1>3, <2>1, EntryIsNode
    <2> HIDE DEF r
    <2>3. Entry(b, r.id) = r
        BY <2>2, NodeIsEntry
    <2> QED
        BY <2>2, <2>3 DEF r
<1> QED
    BY <1>1, <1>4

\* insert of an id that does not rest adds it and leaves the others as they are.
LEMMA InsertEntries ==
    ASSUME NEW b, WellFormed(b), NEW o \in Order, o.id \notin Resting(b),
           NEW c, c = Insert(b, o)
    PROVE  /\ Resting(c) = Resting(b) \cup {o.id}
           /\ c.index[o.id].side = o.side /\ Entry(c, o.id) = NodeFor(o)
           /\ \A k \in Resting(b) : c.index[k] = b.index[k] /\ Entry(c, k) = Entry(b, k)
<1>1. /\ Resting(c) = Resting(b) \cup {o.id}
      /\ c.index[o.id].side = o.side
      /\ \A k \in Resting(b) : c.index[k] = b.index[k]
    BY DEF Insert, InsertInto, Resting
<1>2. WellFormed(c) /\ IsBook(b) /\ NodeFor(o).id = o.id
    BY InsertWellFormed DEF WellFormed, NodeFor
<1>3. ASSUME NEW s \in Side, NEW p, NEW r, HasNode(c, s, p, r)
      PROVE  r = NodeFor(o) \/ HasNode(b, s, p, r)
    <2>1. p \in Prices(c, s)
        BY <1>3 DEF HasNode
    <2>2. PICK i \in DOMAIN c.levels[s][p].queue : c.levels[s][p].queue[i] = r
        BY <1>3 DEF HasNode
    <2>3. \/ c.levels[s][p].queue[i] = NodeFor(o)
          \/ /\ p \in Prices(b, s)
             /\ \E j \in DOMAIN b.levels[s][p].queue :
                  c.levels[s][p].queue[i] = b.levels[s][p].queue[j]
        BY <1>2, <2>1, InsertNodes
    <2> QED
        BY <2>2, <2>3 DEF HasNode
<1>4. ASSUME NEW k \in Resting(c)
      PROVE  Entry(c, k) = IF k = o.id THEN NodeFor(o) ELSE Entry(b, k)
    <2>1. PICK s \in Side, p \in Price : HasNode(c, s, p, Entry(c, k))
        BY <1>2, EntryIsNode
    <2> DEFINE r == Entry(c, k)
    <2>2. r.id = k
        BY <1>2, EntryIsNode
    <2>3. r = NodeFor(o) \/ HasNode(b, s, p, r)
        BY <1>3, <2>1
    <2> HIDE DEF r
    <2>4. CASE r = NodeFor(o)
        BY <1>2, <2>2, <2>4 DEF r
    <2>5. CASE HasNode(b, s, p, r)
        <3>1. r.id \in Resting(b) /\ Entry(b, r.id) = r
            BY <2>5, NodeIsEntry
        <3> QED
            BY <2>2, <3>1 DEF r
    <2> QED
        BY <2>3, <2>4, <2>5
<1> QED
    BY <1>1, <1>4

\* A trade takes its quantity out of what rests under the front order's id and
\* changes nothing else.
LEMMA TradeEntries ==
    ASSUME NEW b, WellFormed(b), NEW s \in Side, NEW p \in Prices(b, s),
           NEW n \in Nat, n <= FrontNode(b, s, p).qty, NEW c, c = TradeFront(b, s, p, n)
    PROVE  LET r == FrontNode(b, s, p)
           IN  /\ Resting(c) = Resting(b) /\ c.index = b.index
               /\ r.id \in Resting(b) /\ b.index[r.id].side = s /\ Entry(b, r.id) = r
               /\ Entry(c, r.id) = [r EXCEPT !.qty = r.qty - n]
               /\ \A k \in Resting(b) \ {r.id} : Entry(c, k) = Entry(b, k)
<1> DEFINE q == b.levels[s][p].queue
           r == FrontNode(b, s, p)
           less == [r EXCEPT !.qty = r.qty - n]
           nq == [q EXCEPT ![1].qty = q[1].qty - n]
<1>0. IsBook(b) /\ NoEmptyLevel(b) /\ WellFormed(c)
    BY TradeWellFormed DEF WellFormed
<1>1. q \in Queue /\ q # << >>
    BY <1>0, LevelTypes DEF NoEmptyLevel
<1>2. 1 \in DOMAIN q /\ r = q[1] /\ q[1] \in RestingOrder
    BY <1>1, EmptySeq DEF Queue, FrontNode
<1>3. DOMAIN nq = DOMAIN q /\ nq[1] = [q[1] EXCEPT !.qty = q[1].qty - n]
    <2> HIDE DEF q
    <2> QED
        BY <1>1, <1>2, QueueQtyFront
<1> HIDE DEF nq
<1>4. c.index = b.index /\ c.levels[s][p].queue = nq /\ p \in Prices(c, s)
    <2>1. b.levels = [t \in Side |-> b.levels[t]]
        BY <1>0 DEF IsBook
    <2> QED
        BY <2>1 DEF TradeFront, PutLevel, Prices, nq
<1>5. HasNode(b, s, p, r) /\ HasNode(c, s, p, less)
    BY <1>2, <1>3, <1>4 DEF HasNode
<1>6. less.id = r.id
    BY <1>2 DEF RestingOrder
<1> HIDE DEF q, r, less
<1>7. r.id \in Resting(b) /\ b.index[r.id] = [side |-> s, price |-> p] /\ Entry(b, r.id) = r
    BY <1>5, NodeIsEntry
<1>8. b.index[r.id].side = s
    BY <1>7
<1>9. Resting(c) = Resting(b)
    BY <1>4 DEF Resting
<1>10. Entry(c, r.id) = less
    <2>1. Entry(c, less.id) = less
        BY <1>0, <1>5, NodeIsEntry
    <2> QED
        BY <1>6, <2>1
<1>11. ASSUME NEW k \in Resting(b), k # r.id
       PROVE  Entry(c, k) = Entry(b, k)
    <2>1. PICK t \in Side, u \in Price : HasNode(b, t, u, Entry(b, k))
        BY EntryIsNode
    <2>2. u \in Prices(b, t) /\ Entry(b, k).id = k
        BY <2>1, EntryIsNode DEF HasNode
    <2>3. PICK i \in DOMAIN b.levels[t][u].queue : b.levels[t][u].queue[i] = Entry(b, k)
        BY <2>1 DEF HasNode
    <2>4. ~(t = s /\ u = p /\ i = 1)
        BY <1>2, <1>11, <2>2, <2>3 DEF q
    <2>5. /\ u \in Prices(c, t) /\ i \in DOMAIN c.levels[t][u].queue
          /\ c.levels[t][u].queue[i] = b.levels[t][u].queue[i]
        BY <2>2, <2>4, TradeNodes DEF r
    <2> DEFINE e == Entry(b, k)
    <2>6. HasNode(c, t, u, e) /\ e.id = k
        BY <2>2, <2>3, <2>5 DEF HasNode
    <2> HIDE DEF e
    <2>7. Entry(c, e.id) = e
        BY <1>0, <2>6, NodeIsEntry
    <2> QED
        BY <2>6, <2>7 DEF e
<1> QED
    BY <1>7, <1>8, <1>4, <1>9, <1>10, <1>11 DEF r, less

(***************************************************************************)
(* Who waits before whom.  The place of an order in its queue is what time *)
(* priority goes by; an operation may move it, but never past another.     *)
(***************************************************************************)
NodeAt(b, s, p, i, id) ==
    /\ p \in Prices(b, s)
    /\ i \in DOMAIN b.levels[s][p].queue
    /\ b.levels[s][p].queue[i].id = id

Before(b, x, y) ==
    /\ b.index[x].side = b.index[y].side
    /\ b.index[x].price = b.index[y].price
    /\ PlaceOf(b, x) < PlaceOf(b, y)

\* Wherever a node of an id is found, that is the id's place.
LEMMA PlaceOfNode ==
    ASSUME NEW b, WellFormed(b), NEW s \in Side, NEW p, NEW i, NEW id, NodeAt(b, s, p, i, id)
    PROVE  /\ id \in Resting(b) /\ b.index[id].side = s /\ b.index[id].price = p
           /\ PlaceOf(b, id) = i /\ i \in Nat \ {0}
<1> DEFINE q == b.levels[s][p].queue
<1>1. IndexMatchesQueues(b) /\ IsBook(b) /\ p \in Prices(b, s) /\ i \in DOMAIN q /\ q[i].id = id
    BY DEF WellFormed, NodeAt
<1>2. SoundNode(b, s, p, i)
    BY <1>1, NodeIsSound
<1>3. /\ id \in Resting(b) /\ b.index[id] = [side |-> s, price |-> p]
      /\ \A j \in DOMAIN q : id = q[j].id => i = j
    BY <1>1, <1>2 DEF SoundNode
<1>4. b.index[id].side = s /\ b.index[id].price = p
    BY <1>3
<1>5. q \in Queue
    BY <1>1, LevelTypes
<1>6. QueueOf(b, id) = q
    BY <1>4 DEF QueueOf
<1> HIDE DEF q
<1>7. NodeOf(q, id) = i
    BY <1>1, <1>3 DEF NodeOf
<1>8. i \in Nat \ {0}
    BY <1>1, <1>5, NodeTypes
<1> QED
    BY <1>3, <1>4, <1>6, <1>7, <1>8 DEF PlaceOf

\* Every id that rests has a place.
LEMMA NodeAtPlace ==
    ASSUME NEW b, WellFormed(b), NEW id \in Resting(b)
    PROVE  \E s \in Side, p \in Price, i \in Nat \ {0} :
             /\ NodeAt(b, s, p, i, id) /\ PlaceOf(b, id) = i
             /\ b.index[id].side = s /\ b.index[id].price = p
<1>1. IsBook(b) /\ IndexMatchesQueues(b)
    BY DEF WellFormed
<1>2. PICK s \in Side, p \in Price : EntryAt(b, id, s, p)
    BY <1>1, EntryLeads
<1>3. /\ b.index[id] = [side |-> s, price |-> p] /\ p \in Prices(b, s)
      /\ \E i \in DOMAIN b.levels[s][p].queue : b.levels[s][p].queue[i].id = id
    BY <1>2 DEF EntryAt
<1>4. PICK i : NodeAt(b, s, p, i, id)
    BY <1>3 DEF NodeAt
<1>5. PlaceOf(b, id) = i /\ i \in Nat \ {0} /\ b.index[id].side = s /\ b.index[id].price = p
    BY <1>4, PlaceOfNode
<1> QED
    BY <1>3, <1>4, <1>5

\* cancel moves up those behind the order it unlinks and keeps their order.
LEMMA CancelPlaces ==
    ASSUME NEW b, WellFormed(b), NEW id, NEW c, c = CancelOrder(b, id),
           NEW x \in Resting(c), NEW y \in Resting(c)
    PROVE  Before(c, x, y) <=> Before(b, x, y)
<1>0. IsBook(b) /\ IndexMatchesQueues(b) /\ WellFormed(c)
    BY CancelWellFormed DEF WellFormed
<1>1. CASE id \notin Resting(b)
    BY <1>1 DEF CancelOrder
<1>2. CASE id \in Resting(b)
    <2>1. PICK s \in Side, p \in Price : EntryAt(b, id, s, p)
        BY <1>0, <1>2, EntryLeads
    <2> DEFINE q == b.levels[s][p].queue
               k == NodeOf(q, id)
               new == WithoutNode(b.levels[s][p], k)
               ix == Unindex(b.index, id)
    <2>2. b.index[id] = [side |-> s, price |-> p] /\ p \in Prices(b, s)
        BY <2>1 DEF EntryAt
    <2>3. c = Rewritten(b, s, p, new, ix)
        <3>1. b.index[id].side = s /\ b.index[id].price = p
            BY <2>2
        <3> QED
            BY <1>2, <2>2, <3>1 DEF CancelOrder, EraseLocator, Rewritten, Prices
    <2>4. k \in 1 .. Len(q) /\ q \in Queue
        <3>1. k \in DOMAIN q /\ q \in Queue
            BY <1>0, <1>2, <2>2, NodeOfEntry, LevelTypes
        <3> QED
            BY <3>1, NodeTypes
    <2>5. \A i \in DOMAIN new.queue :
            OldPlace(k, i) \in DOMAIN q /\ new.queue[i] = q[OldPlace(k, i)]
        <3>1. new.queue = RemoveAt(q, k)
            BY DEF WithoutNode
        <3> HIDE DEF new, q, k
        <3> QED
            BY <2>4, <3>1, RemovedNodes
    <2>6. k \in Int
        <3> HIDE DEF k, q
        <3> QED
            BY <2>4
    <2> HIDE DEF new, ix, k
    <2>7. /\ Prices(c, s) \subseteq Prices(b, s)
          /\ \A r \in Prices(c, s) : c.levels[s][r] = IF r = p THEN new ELSE b.levels[s][r]
          /\ \A t \in Side \ {s} : c.levels[t] = b.levels[t] /\ Prices(c, t) = Prices(b, t)
        <3>1. /\ Prices(c, s) = IF new.queue = << >> THEN Prices(b, s) \ {p}
                                                     ELSE Prices(b, s) \cup {p}
              /\ \A r \in Prices(c, s) : c.levels[s][r] = IF r = p THEN new ELSE b.levels[s][r]
              /\ \A t \in Side \ {s} : c.levels[t] = b.levels[t]
            BY <1>0, <2>3, RewrittenPrices
        <3>2. \A t \in Side : c.levels[t] = b.levels[t] => Prices(c, t) = Prices(b, t)
            BY DEF Prices
        <3> QED
            BY <2>2, <3>1, <3>2
    <2>8. ASSUME NEW z \in Resting(c)
          PROVE  /\ PlaceOf(c, z) \in Nat
                 /\ PlaceOf(b, z) = IF b.index[z].side = s /\ b.index[z].price = p
                                    THEN OldPlace(k, PlaceOf(c, z)) ELSE PlaceOf(c, z)
        <3>1. PICK t \in Side, u \in Price, i \in Nat \ {0} :
                /\ NodeAt(c, t, u, i, z) /\ PlaceOf(c, z) = i
                /\ c.index[z].side = t /\ c.index[z].price = u
            BY <1>0, NodeAtPlace
        <3>2. u \in Prices(c, t) /\ i \in DOMAIN c.levels[t][u].queue /\ c.levels[t][u].queue[i].id = z
            BY <3>1 DEF NodeAt
        <3>3. b.index[z].side = t /\ b.index[z].price = u
            BY <3>1, CancelEntries
        <3>4. CASE t = s /\ u = p
            <4>1. c.levels[t][u].queue = new.queue
                BY <2>7, <3>2, <3>4
            <4>2. NodeAt(b, t, u, OldPlace(k, i), z)
                BY <2>2, <2>5, <3>2, <3>4, <4>1 DEF NodeAt
            <4> QED
                BY <3>1, <3>3, <3>4, <4>2, PlaceOfNode
        <3>5. CASE ~(t = s /\ u = p)
            <4>1. u \in Prices(b, t) /\ c.levels[t][u] = b.levels[t][u]
                BY <2>7, <3>2, <3>5
            <4>2. NodeAt(b, t, u, i, z)
                BY <3>2, <4>1 DEF NodeAt
            <4> QED
                BY <3>1, <3>3, <3>5, <4>2, PlaceOfNode
        <3> QED
            BY <3>4, <3>5
    <2>9. \A i, j \in Nat : OldPlace(k, i) < OldPlace(k, j) <=> i < j
        BY <2>6 DEF OldPlace
    <2>10. c.index[x] = b.index[x] /\ c.index[y] = b.index[y]
        BY CancelEntries
    <2> QED
        BY <2>8, <2>9, <2>10 DEF Before
<1> QED
    BY <1>1, <1>2

\* insert moves nobody, and puts the new order behind everybody at its price.
LEMMA InsertPlaces ==
    ASSUME NEW b, WellFormed(b), NEW o \in Order, o.id \notin Resting(b),
           NEW c, c = Insert(b, o)
    PROVE  /\ c.index[o.id].side = o.side /\ c.index[o.id].price = o.price
           /\ \A x \in Resting(b) :
                /\ PlaceOf(c, x) = PlaceOf(b, x)
                /\ b.index[x].side = o.side /\ b.index[x].price = o.price
                   => PlaceOf(b, x) < PlaceOf(c, o.id)
           /\ PlaceOf(c, o.id) \in Nat
<1> DEFINE s == o.side
           p == o.price
           old == LevelOrNew(b.levels[s], p)
           node == NodeFor(o)
           new == [total_qty |-> old.total_qty + o.remaining, queue |-> Append(old.queue, node)]
           ix == [i \in Resting(b) \cup {o.id} |->
                    IF i = o.id THEN [side |-> o.side, price |-> o.price] ELSE b.index[i]]
<1>0. IsBook(b) /\ WellFormed(c) /\ s \in Side
    BY InsertWellFormed DEF WellFormed, Order
<1>1. /\ old.queue \in Queue
      /\ p \in Prices(b, s) => old = b.levels[s][p]
    BY <1>0, LevelTypes DEF LevelOrNew, Prices, Queue
<1>2. c = Rewritten(b, s, p, new, ix) /\ new.queue # << >>
    <2>1. new.queue # << >>
        <3> HIDE DEF old, node
        <3> QED
            BY <1>1 DEF Queue
    <2>2. c = InsertInto(b, o)
        BY DEF Insert
    <2> QED
        BY <2>1, <2>2 DEF InsertInto, Rewritten, Keep, Resting, NodeFor
<1>3. c.index = ix /\ c.index[o.id].side = o.side /\ c.index[o.id].price = o.price
    BY <1>2 DEF Rewritten
<1> DEFINE n == Len(old.queue)
<1>4. /\ DOMAIN new.queue = 1 .. n + 1 /\ DOMAIN old.queue = 1 .. n /\ n \in Nat
      /\ \A i \in 1 .. n : new.queue[i] = old.queue[i]
      /\ new.queue[n + 1] = node
    <2> HIDE DEF old, node
    <2> QED
        BY <1>1 DEF Queue
<1>5. node.id = o.id
    BY DEF NodeFor
<1> HIDE DEF new, ix, old, n, node
<1>6. /\ Prices(c, s) = Prices(b, s) \cup {p}
      /\ \A r \in Prices(c, s) : c.levels[s][r] = IF r = p THEN new ELSE b.levels[s][r]
      /\ \A t \in Side \ {s} : c.levels[t] = b.levels[t] /\ Prices(c, t) = Prices(b, t)
    <2> HIDE DEF s, p
    <2>1. /\ Prices(c, s) = IF new.queue = << >> THEN Prices(b, s) \ {p}
                                                 ELSE Prices(b, s) \cup {p}
          /\ \A r \in Prices(c, s) : c.levels[s][r] = IF r = p THEN new ELSE b.levels[s][r]
          /\ \A t \in Side \ {s} : c.levels[t] = b.levels[t]
        BY <1>0, <1>2, RewrittenPrices
    <2>2. \A t \in Side : c.levels[t] = b.levels[t] => Prices(c, t) = Prices(b, t)
        BY DEF Prices
    <2> QED
        BY <1>2, <2>1, <2>2
<1>7. NodeAt(c, s, p, n + 1, o.id)
    BY <1>4, <1>5, <1>6 DEF NodeAt
<1>8. PlaceOf(c, o.id) = n + 1
    BY <1>0, <1>7, PlaceOfNode
<1>9. ASSUME NEW x \in Resting(b)
      PROVE  /\ PlaceOf(c, x) = PlaceOf(b, x)
             /\ b.index[x].side = s /\ b.index[x].price = p => PlaceOf(b, x) < n + 1
    <2>1. PICK t \in Side, u \in Price, i \in Nat \ {0} :
            /\ NodeAt(b, t, u, i, x) /\ PlaceOf(b, x) = i
            /\ b.index[x].side = t /\ b.index[x].price = u
        BY NodeAtPlace
    <2>2. u \in Prices(b, t) /\ i \in DOMAIN b.levels[t][u].queue /\ b.levels[t][u].queue[i].id = x
        BY <2>1 DEF NodeAt
    <2>3. CASE t = s /\ u = p
        <3>1. i \in 1 .. n /\ c.levels[t][u] = new /\ u \in Prices(c, t) /\ old.queue[i].id = x
            BY <1>1, <1>4, <1>6, <2>2, <2>3
        <3>2. NodeAt(c, t, u, i, x)
            BY <1>4, <3>1 DEF NodeAt
        <3>3. PlaceOf(c, x) = i
            BY <1>0, <3>2, PlaceOfNode
        <3> QED
            BY <1>4, <2>1, <3>1, <3>3
    <2>4. CASE ~(t = s /\ u = p)
        <3>1. u \in Prices(c, t) /\ c.levels[t][u] = b.levels[t][u]
            BY <1>6, <2>2, <2>4
        <3>2. NodeAt(c, t, u, i, x)
            BY <2>2, <3>1 DEF NodeAt
        <3>3. PlaceOf(c, x) = i
            BY <1>0, <3>2, PlaceOfNode
        <3> QED
            BY <2>1, <2>4, <3>3
    <2> QED
        BY <2>3, <2>4
<1> QED
    BY <1>3, <1>4, <1>8, <1>9

\* A trade moves nobody.
LEMMA TradePlaces ==
    ASSUME NEW b, WellFormed(b), NEW s \in Side, NEW p \in Prices(b, s),
           NEW n \in Nat, n <= FrontNode(b, s, p).qty, NEW c, c = TradeFront(b, s, p, n),
           NEW x \in Resting(b)
    PROVE  PlaceOf(c, x) = PlaceOf(b, x)
<1> DEFINE q == b.levels[s][p].queue
           nq == [q EXCEPT ![1].qty = q[1].qty - n]
<1>0. IsBook(b) /\ NoEmptyLevel(b) /\ WellFormed(c)
    BY TradeWellFormed DEF WellFormed
<1>1. q \in Queue /\ q # << >>
    BY <1>0, LevelTypes DEF NoEmptyLevel
<1>2. 1 \in DOMAIN q /\ FrontNode(b, s, p) = q[1] /\ q[1] \in RestingOrder
    BY <1>1, EmptySeq DEF Queue, FrontNode
<1>3. /\ DOMAIN nq = DOMAIN q /\ nq[1] = [q[1] EXCEPT !.qty = q[1].qty - n]
    <2> HIDE DEF q
    <2> QED
        BY <1>1, <1>2, QueueQtyFront
<1> HIDE DEF nq
<1>4. c.levels[s][p].queue = nq /\ p \in Prices(c, s)
    <2>1. b.levels = [t \in Side |-> b.levels[t]]
        BY <1>0 DEF IsBook
    <2> QED
        BY <2>1 DEF TradeFront, PutLevel, Prices, nq
<1> HIDE DEF q
<1>5. PICK t \in Side, u \in Price, i \in Nat \ {0} :
        /\ NodeAt(b, t, u, i, x) /\ PlaceOf(b, x) = i
        /\ b.index[x].side = t /\ b.index[x].price = u
    BY NodeAtPlace
<1>6. u \in Prices(b, t) /\ i \in DOMAIN b.levels[t][u].queue /\ b.levels[t][u].queue[i].id = x
    BY <1>5 DEF NodeAt
<1>7. CASE t = s /\ u = p /\ i = 1
    <2>1. nq[1].id = x /\ 1 \in DOMAIN nq
        BY <1>2, <1>3, <1>6, <1>7 DEF RestingOrder, q
    <2>2. NodeAt(c, t, u, i, x)
        BY <1>4, <1>7, <2>1 DEF NodeAt
    <2> QED
        BY <1>0, <1>5, <2>2, PlaceOfNode
<1>8. CASE ~(t = s /\ u = p /\ i = 1)
    <2>1. /\ u \in Prices(c, t) /\ i \in DOMAIN c.levels[t][u].queue
          /\ c.levels[t][u].queue[i] = b.levels[t][u].queue[i]
        BY <1>6, <1>8, TradeNodes
    <2>2. NodeAt(c, t, u, i, x)
        BY <1>6, <2>1 DEF NodeAt
    <2> QED
        BY <1>0, <1>5, <2>2, PlaceOfNode
<1> QED
    BY <1>7, <1>8

(***************************************************************************)
(* The engine's steps.                                                     *)
(***************************************************************************)

IInv ==
    /\ TypeOK
    /\ BookIndexed
    /\ BookTotals
    /\ NothingSpentRests
    /\ BookUncrossed
    /\ phase = "traded" => Prices(book, Opp) # {}

\* IInv in the vocabulary of the lemmas on books.
LEMMA InvBook ==
    ASSUME IInv
    PROVE  /\ WellFormed(book)
           /\ IsBook(book)
           /\ phase # "idle" => in \in Order /\ Opp \in Side /\ in.side \in Side /\ Opp # in.side
<1>1. WellFormed(book) /\ IsBook(book)
    BY DEF IInv, WellFormed, TypeOK, BookIndexed, BookTotals, NothingSpentRests
<1>2. phase # "idle" => in \in Order
    BY DEF IInv, TypeOK
<1>3. in \in Order => in.side \in Side /\ Opp \in Side /\ Opp # in.side
    BY DEF Order, Opp, Opposite, Side
<1> QED
    BY <1>1, <1>2, <1>3

\* The node a level's queue starts with.
LEMMA FrontTypes ==
    ASSUME NEW b, WellFormed(b), NEW s \in Side, NEW p \in Prices(b, s)
    PROVE  /\ 1 \in DOMAIN b.levels[s][p].queue
           /\ FrontNode(b, s, p) = b.levels[s][p].queue[1]
           /\ FrontNode(b, s, p) \in RestingOrder
           /\ FrontNode(b, s, p).qty \in Quantity
           /\ FrontNode(b, s, p).id \in OrderId
<1> DEFINE q == b.levels[s][p].queue
<1>1. q \in Queue /\ q # << >>
    <2>1. IsBook(b) /\ NoEmptyLevel(b)
        BY DEF WellFormed
    <2> QED
        BY <2>1, LevelTypes DEF NoEmptyLevel
<1>2. FrontNode(b, s, p) = Head(q)
    BY DEF FrontNode
<1> HIDE DEF q
<1>3. 1 \in DOMAIN q /\ Head(q) = q[1] /\ q[1] \in RestingOrder
    BY <1>1, EmptySeq DEF Queue
<1> QED
    BY <1>2, <1>3 DEF RestingOrder, q

\* Whoever shares the price sets shares the best price.
LEMMA SameBest ==
    ASSUME NEW b, NEW c, NEW s, Prices(c, s) = Prices(b, s)
    PROVE  Best(c, s) = Best(b, s)
    BY DEF Best

\* An order that has stopped matching crosses no opposite price.
LEMMA NothingLeftToMatch ==
    ASSUME IInv, phase # "idle", ~Matching, in.remaining > 0, in.type = "Limit",
           NEW p \in Prices(book, Opp)
    PROVE  IF in.side = "Buy" THEN in.price < p ELSE p < in.price
<1>1. /\ IsBook(book) /\ in \in Order /\ Opp \in Side
    BY InvBook
<1>2. /\ Best(book, Opp) \in Prices(book, Opp)
      /\ \A q \in Prices(book, Opp) \ {Best(book, Opp)} : Better(Opp, Best(book, Opp), q)
    <2>1. Prices(book, Opp) # {}
        OBVIOUS
    <2> QED
        BY <1>1, <2>1, BestIsBest
<1>3. p \in Int /\ Best(book, Opp) \in Int /\ in.price \in Int
    BY <1>1, <1>2, PriceAssumption DEF IsBook, Order
<1>4. ~Crosses(in, Best(book, Opp))
    BY DEF Matching
<1>5. in.type # "Market"
    OBVIOUS
<1>6. in.side = "Buy" \/ in.side = "Sell"
    BY <1>1 DEF Order, Side
<1>7. CASE in.side = "Buy"
    <2>1. Opp = "Sell"
        BY <1>7 DEF Opp, Opposite
    <2>2. in.price < Best(book, Opp)
        BY <1>3, <1>4, <1>7 DEF Crosses
    <2>3. p = Best(book, Opp) \/ Best(book, Opp) < p
        BY <1>2, <2>1 DEF Better
    <2> QED
        BY <1>3, <1>7, <2>2, <2>3
<1>8. CASE in.side = "Sell"
    <2>1. Opp = "Buy"
        BY <1>8 DEF Opp, Opposite
    <2>2. Best(book, Opp) < in.price
        BY <1>3, <1>4, <1>8 DEF Crosses
    <2>3. p = Best(book, Opp) \/ p < Best(book, Opp)
        BY <1>2, <2>1, <1>3 DEF Better
    <2> QED
        BY <1>3, <1>8, <2>2, <2>3
<1> QED
    BY <1>6, <1>7, <1>8

LEMMA InitIInv == Init => IInv
<1> SUFFICES ASSUME Init PROVE IInv
    OBVIOUS
<1>1. book = EmptyBook /\ in = NoOrder /\ fills = << >> /\ phase = "idle"
    BY DEF Init
<1>2. \A s \in Side : Prices(EmptyBook, s) = {}
    BY DEF EmptyBook, Prices
<1>3. WellFormed(book)
    BY <1>1, EmptyBookWellFormed
<1>4. TypeOK
    BY <1>1, <1>3 DEF TypeOK, WellFormed, Phase
<1>5. BookIndexed /\ BookTotals
    BY <1>3 DEF WellFormed, BookIndexed, BookTotals
<1>6. NothingSpentRests
    BY <1>1, <1>2, <1>3 DEF WellFormed, NothingSpentRests
<1>7. BookUncrossed
    BY <1>1, <1>2 DEF BookUncrossed, NotCrossed, Side
<1> QED
    BY <1>1, <1>4, <1>5, <1>6, <1>7 DEF IInv

\* A new book is as good as the old one was when it is well formed, its nodes
\* are not spent, and it is not crossed; the step that made it keeps the types.
LEMMA BookPart ==
    ASSUME WellFormed(book')
    PROVE  IsBook(book)' /\ BookIndexed' /\ BookTotals' /\ NoEmptyLevel(book)'
    BY DEF WellFormed, BookIndexed, BookTotals

\* Outside the window between a trade and its settling, all nodes are unspent.
LEMMA NodesUnspent ==
    ASSUME IInv, phase # "traded", NEW s \in Side, NEW p \in Prices(book, s),
           NEW i \in DOMAIN book.levels[s][p].queue
    PROVE  book.levels[s][p].queue[i].qty > 0
    BY DEF IInv, NothingSpentRests

LEMMA AllUnspent ==
    ASSUME NoEmptyLevel(book'),
           \A s \in Side : \A p \in Prices(book', s) :
             \A i \in DOMAIN book'.levels[s][p].queue : book'.levels[s][p].queue[i].qty > 0
    PROVE  NothingSpentRests'
    BY DEF NothingSpentRests

LEMMA UncrossedBelow ==
    ASSUME NEW b, NEW c, NotCrossed(b), \A s \in Side : Prices(c, s) \subseteq Prices(b, s)
    PROVE  NotCrossed(c)
    BY DEF NotCrossed, Side

LEMMA SubmitIInv ==
    ASSUME IInv, NEW sub \in Submission, Submit(sub)
    PROVE  IInv'
<1> DEFINE o == OnAccept([sub EXCEPT !.remaining = sub.qty])
<1>1. o \in Order /\ OnReject(o) \in Order
    <2>1. /\ sub \in [id : OrderId, side : Side, type : OrderType, price : Price,
                      qty : Quantity, remaining : {0}, status : {"New"}, is_ours : Owners]
          /\ Owners \subseteq BOOLEAN
        BY OwnersAssumption DEF Submission
    <2>2. {"Accepted", "Rejected"} \subseteq OrderStatus
        BY DEF OrderStatus
    <2> QED
        BY <2>1, <2>2 DEF OnAccept, OnReject, Order
<1>2. in' \in Order /\ phase' \in {"match", "done"} /\ book' = book /\ fills' = fills
    <2>1. in' = o \/ in' = OnReject(o)
        BY DEF Submit
    <2>2. phase' \in {"match", "done"} /\ book' = book /\ fills' = fills
        BY DEF Submit
    <2> HIDE DEF o
    <2> QED
        BY <1>1, <2>1, <2>2
<1>3. TypeOK'
    BY <1>2 DEF IInv, TypeOK, Phase
<1>4. WellFormed(book')
    BY <1>2, InvBook
<1>5. NothingSpentRests'
    <2>1. phase # "traded"
        BY DEF Submit
    <2> QED
        BY <2>1, <1>2, <1>4, NodesUnspent, AllUnspent, BookPart
<1>6. BookUncrossed' /\ phase' # "traded"
    BY <1>2 DEF IInv, BookUncrossed
<1> QED
    BY <1>3, <1>4, <1>5, <1>6, BookPart DEF IInv

LEMMA CancelIInv ==
    ASSUME IInv, NEW id \in OrderId, Cancel(id)
    PROVE  IInv'
<1>1. /\ phase = "idle" /\ phase' = "idle" /\ in' = in /\ fills' = fills
      /\ book' = CancelOrder(book, id)
    BY DEF Cancel
<1>2. WellFormed(book) /\ WellFormed(book')
    BY <1>1, InvBook, CancelWellFormed
<1>3. TypeOK'
    BY <1>1, <1>2, BookPart DEF IInv, TypeOK
<1>4. ASSUME NEW s \in Side
      PROVE  /\ Prices(book', s) \subseteq Prices(book, s)
             /\ \A p \in Prices(book', s) : \A i \in DOMAIN book'.levels[s][p].queue :
                  book'.levels[s][p].queue[i].qty > 0
    <2>1. /\ Prices(book', s) \subseteq Prices(book, s)
          /\ \A p \in Prices(book', s) : \A i \in DOMAIN book'.levels[s][p].queue :
               \E j \in DOMAIN book.levels[s][p].queue :
                 book'.levels[s][p].queue[i] = book.levels[s][p].queue[j]
        BY <1>1, <1>2, CancelNodes
    <2>2. phase # "traded"
        BY <1>1
    <2> QED
        BY <2>1, <2>2, NodesUnspent
<1>5. NothingSpentRests'
    BY <1>2, <1>4, BookPart, AllUnspent
<1>6. BookUncrossed'
    <2>1. NotCrossed(book)
        BY DEF IInv, BookUncrossed
    <2> QED
        BY <2>1, <1>4, UncrossedBelow DEF BookUncrossed
<1> QED
    BY <1>1, <1>2, <1>3, <1>5, <1>6, BookPart DEF IInv

\* What a trade exchanges: within both legs, and the order it leaves.
LEMMA TradeTypes ==
    ASSUME NEW o \in Order, NEW n \in Nat, n <= o.remaining
    PROVE  OnFill(o, n) \in Order
<1>1. o.remaining - n \in Quantity
    BY MaxQtyAssumption DEF Order, Quantity
<1>2. {"Filled", "PartiallyFilled"} \subseteq OrderStatus
    BY DEF OrderStatus
<1> DEFINE st == IF o.remaining - n <= 0 THEN "Filled" ELSE "PartiallyFilled"
<1>3. st \in OrderStatus
    BY <1>2
<1>4. OnFill(o, n) = [[o EXCEPT !.remaining = o.remaining - n] EXCEPT !.status = st]
    BY DEF OnFill, Order
<1> HIDE DEF st
<1> QED
    BY <1>1, <1>3, <1>4 DEF Order

LEMMA FillType ==
    ASSUME NEW a \in OrderId, NEW s \in Side, NEW p \in Price, NEW n \in Quantity,
           NEW x \in BOOLEAN, NEW y \in BOOLEAN
    PROVE  FillOf(a, s, p, n, x, y) \in Fill
    BY DEF FillOf, Fill

LEMMA TradeIInv ==
    ASSUME IInv, Trade
    PROVE  IInv'
<1> DEFINE p == Best(book, Opp)
           r == FrontNode(book, Opp, p)
           n == Traded(r)
<1>1. /\ phase = "match" /\ phase' = "traded"
      /\ in.remaining > 0 /\ Prices(book, Opp) # {}
      /\ in' = OnFill(in, n)
      /\ book' = TradeFront(book, Opp, p, n)
      /\ fills' = fills \o <<FillOf(in.id, in.side, p, n, in.is_ours, FALSE),
                             FillOf(r.id, Opp, p, n, r.is_ours, TRUE)>>
    BY DEF Trade, Matching
<1>2. /\ WellFormed(book) /\ IsBook(book) /\ in \in Order
      /\ Opp \in Side /\ in.side \in Side
    BY <1>1, InvBook
<1>3. p \in Prices(book, Opp) /\ p \in Price
    BY <1>1, <1>2, BestIsBest DEF IsBook
<1>4. r \in RestingOrder /\ r.qty \in Quantity /\ r.id \in OrderId /\ r.is_ours \in BOOLEAN
    BY <1>2, <1>3, FrontTypes DEF RestingOrder
<1> HIDE DEF p, r
<1>5. n \in Quantity /\ n \in Nat /\ n <= in.remaining /\ n <= r.qty
    BY <1>2, <1>4, MaxQtyAssumption DEF Traded, Order, Quantity
<1> HIDE DEF n
<1>6. /\ in' \in Order /\ in'.side = in.side
    <2>1. in' \in Order
        BY <1>1, <1>2, <1>5, TradeTypes
    <2>2. in'.side = in.side
        BY <1>1, <1>2 DEF OnFill, Order
    <2> QED
        BY <2>1, <2>2
<1>7. Opp' = Opp
    BY <1>6 DEF Opp
<1>8. WellFormed(book')
    BY <1>1, <1>2, <1>3, <1>5, TradeWellFormed DEF p, r
<1>9. TypeOK'
    <2>1. /\ FillOf(in.id, in.side, p, n, in.is_ours, FALSE) \in Fill
          /\ FillOf(r.id, Opp, p, n, r.is_ours, TRUE) \in Fill
        BY <1>2, <1>3, <1>4, <1>5, FillType DEF Order
    <2>2. fills \in Seq(Fill)
        BY DEF IInv, TypeOK
    <2>3. \A f \in Seq(Fill), x \in Fill, y \in Fill : f \o <<x, y>> \in Seq(Fill)
        OBVIOUS
    <2>4. fills' \in Seq(Fill)
        BY <1>1, <2>1, <2>2, <2>3
    <2> QED
        BY <1>1, <1>6, <1>8, <2>4, BookPart DEF TypeOK, Phase
<1>10. ASSUME NEW t \in Side
       PROVE  /\ Prices(book', t) = Prices(book, t)
              /\ \A u \in Prices(book, t) :
                   /\ DOMAIN book'.levels[t][u].queue = DOMAIN book.levels[t][u].queue
                   /\ \A i \in DOMAIN book.levels[t][u].queue :
                        \/ book'.levels[t][u].queue[i] = book.levels[t][u].queue[i]
                        \/ t = Opp /\ u = p /\ i = 1
    BY <1>1, <1>2, <1>3, <1>5, TradeNodes DEF r
<1>11. Best(book', Opp) = p
    BY <1>2, <1>10, SameBest DEF p
<1>12. NothingSpentRests'
    <2>1. ASSUME NEW s \in Side, NEW u \in Prices(book', s),
                 NEW i \in DOMAIN book'.levels[s][u].queue
          PROVE  \/ book'.levels[s][u].queue[i].qty > 0
                 \/ s = Opp /\ u = Best(book', s) /\ i = 1
        <3>1. u \in Prices(book, s) /\ i \in DOMAIN book.levels[s][u].queue
            BY <1>10, <2>1
        <3>2. book.levels[s][u].queue[i].qty > 0
            BY <1>1, <3>1, NodesUnspent
        <3> QED
            BY <1>10, <1>11, <3>1, <3>2
    <2>2. NoEmptyLevel(book')
        BY <1>8, BookPart
    <2> QED
        BY <1>1, <1>7, <2>1, <2>2 DEF NothingSpentRests
<1>13. BookUncrossed'
    <2>1. NotCrossed(book)
        BY DEF IInv, BookUncrossed
    <2> QED
        BY <2>1, <1>10, UncrossedBelow DEF BookUncrossed
<1>14. Prices(book', Opp') # {}
    BY <1>1, <1>2, <1>7, <1>10
<1> QED
    BY <1>8, <1>9, <1>12, <1>13, <1>14, BookPart DEF IInv

LEMMA SettleIInv ==
    ASSUME IInv, Settle
    PROVE  IInv'
<1> DEFINE p == Best(book, Opp)
           r == FrontNode(book, Opp, p)
<1>1. /\ phase = "traded" /\ phase' = "match" /\ in' = in /\ fills' = fills
      /\ book' = IF r.qty <= 0 THEN PopFront(book, Opp, p) ELSE book
    BY DEF Settle
<1>2. WellFormed(book) /\ IsBook(book) /\ in \in Order /\ Opp \in Side
    BY <1>1, InvBook
<1>3. p \in Prices(book, Opp)
    <2>1. Prices(book, Opp) # {}
        BY <1>1 DEF IInv
    <2> QED
        BY <1>2, <2>1, BestIsBest
<1>4. r.qty \in Nat /\ r = book.levels[Opp][p].queue[1] /\ 1 \in DOMAIN book.levels[Opp][p].queue
    BY <1>2, <1>3, MaxQtyAssumption, FrontTypes DEF Quantity
<1>5. ASSUME NEW s \in Side, NEW u \in Prices(book, s),
             NEW i \in DOMAIN book.levels[s][u].queue
      PROVE  book.levels[s][u].queue[i].qty > 0 \/ (s = Opp /\ u = p /\ i = 1)
    BY <1>1 DEF IInv, NothingSpentRests
<1> HIDE DEF p, r
<1>6. /\ WellFormed(book')
      /\ \A s \in Side :
           /\ Prices(book', s) \subseteq Prices(book, s)
           /\ \A u \in Prices(book', s) : \A i \in DOMAIN book'.levels[s][u].queue :
                book'.levels[s][u].queue[i].qty > 0
    <2>1. CASE r.qty <= 0
        <3>1. r.qty = 0
            BY <1>4, <2>1
        <3>2. book' = PopFront(book, Opp, p) /\ book' = CancelOrder(book, r.id)
            BY <1>1, <1>2, <1>3, <2>1, <3>1, PopIsCancel DEF r
        <3>3. WellFormed(book')
            BY <1>2, <3>2, CancelWellFormed
        <3>4. ASSUME NEW s \in Side
              PROVE  /\ Prices(book', s) \subseteq Prices(book, s)
                     /\ \A u \in Prices(book', s) : \A i \in DOMAIN book'.levels[s][u].queue :
                          book'.levels[s][u].queue[i].qty > 0
            <4>1. /\ Prices(book', s) \subseteq Prices(book, s)
                  /\ \A u \in Prices(book', s) : \A i \in DOMAIN book'.levels[s][u].queue :
                       \E j \in DOMAIN book.levels[s][u].queue :
                          /\ book'.levels[s][u].queue[i] = book.levels[s][u].queue[j]
                          /\ book.levels[s][u].queue[j].id # r.id
                BY <1>2, <3>2, CancelNodes
            <4>2. ASSUME NEW u \in Prices(book', s), NEW i \in DOMAIN book'.levels[s][u].queue
                  PROVE  book'.levels[s][u].queue[i].qty > 0
                <5>1. PICK j \in DOMAIN book.levels[s][u].queue :
                          /\ book'.levels[s][u].queue[i] = book.levels[s][u].queue[j]
                          /\ book.levels[s][u].queue[j].id # r.id
                    BY <4>1, <4>2
                <5>2. u \in Prices(book, s)
                    BY <4>1
                <5>3. ~(s = Opp /\ u = p /\ j = 1)
                    BY <1>4, <5>1
                <5> QED
                    BY <1>5, <5>1, <5>2, <5>3
            <4> QED
                BY <4>1, <4>2
        <3> QED
            BY <3>3, <3>4
    <2>2. CASE ~(r.qty <= 0)
        <3>1. book' = book /\ r.qty > 0
            BY <1>1, <1>4, <2>2
        <3> QED
            BY <1>2, <1>4, <1>5, <3>1
    <2> QED
        BY <2>1, <2>2
<1>7. TypeOK'
    BY <1>1, <1>2, <1>6, BookPart DEF IInv, TypeOK, Phase
<1>8. NothingSpentRests'
    BY <1>6, BookPart, AllUnspent
<1>9. BookUncrossed'
    <2>1. NotCrossed(book)
        BY DEF IInv, BookUncrossed
    <2> QED
        BY <1>6, <2>1, UncrossedBelow DEF BookUncrossed
<1> QED
    BY <1>1, <1>6, <1>7, <1>8, <1>9, BookPart DEF IInv

LEMMA RestIInv ==
    ASSUME IInv, Rest
    PROVE  IInv'
<1>1. /\ phase = "match" /\ phase' = "done" /\ in' = in /\ fills' = fills
      /\ in.remaining > 0 /\ in.type = "Limit" /\ ~Matching
      /\ book' = Insert(book, in)
    BY DEF Rest
<1>2. /\ WellFormed(book) /\ IsBook(book) /\ in \in Order
      /\ Opp \in Side /\ in.side \in Side /\ Opp # in.side
    BY <1>1, InvBook
<1>3. WellFormed(book')
    BY <1>1, <1>2, InsertWellFormed
<1>4. TypeOK'
    BY <1>1, <1>2, <1>3, BookPart DEF IInv, TypeOK, Phase
<1>5. ASSUME NEW s \in Side
      PROVE  /\ \A p \in Prices(book', s) :
                  p \in Prices(book, s) \/ (s = in.side /\ p = in.price)
             /\ \A p \in Prices(book', s) : \A i \in DOMAIN book'.levels[s][p].queue :
                  \/ book'.levels[s][p].queue[i].qty = in.remaining
                  \/ /\ p \in Prices(book, s)
                     /\ \E j \in DOMAIN book.levels[s][p].queue :
                          book'.levels[s][p].queue[i] = book.levels[s][p].queue[j]
    <2>1. NodeFor(in).qty = in.remaining
        BY DEF NodeFor
    <2> QED
        BY <1>1, <1>2, <2>1, InsertNodes
<1>6. NothingSpentRests'
    <2>1. phase # "traded"
        BY <1>1
    <2> QED
        BY <1>1, <1>3, <1>5, <2>1, NodesUnspent, BookPart, AllUnspent
<1>7. BookUncrossed'
    <2>1. \A p \in Prices(book, "Buy"), q \in Prices(book, "Sell") : p < q
        BY DEF IInv, BookUncrossed, NotCrossed
    <2>2. \A p \in Prices(book, Opp) :
            IF in.side = "Buy" THEN in.price < p ELSE p < in.price
        BY <1>1, NothingLeftToMatch
    <2>3. (in.side = "Buy" /\ Opp = "Sell") \/ (in.side = "Sell" /\ Opp = "Buy")
        BY <1>2 DEF Opp, Opposite, Side
    <2>4. "Buy" \in Side /\ "Sell" \in Side
        BY DEF Side
    <2>5. \A p \in Prices(book', "Buy"), q \in Prices(book', "Sell") : p < q
        BY <1>5, <2>1, <2>2, <2>3, <2>4
    <2> QED
        BY <2>5 DEF BookUncrossed, NotCrossed
<1> QED
    BY <1>1, <1>3, <1>4, <1>6, <1>7, BookPart DEF IInv

\* The steps that leave the book alone and end outside the trade window.
LEMMA BookKept ==
    ASSUME IInv, book' = book, phase # "traded", phase' # "traded", TypeOK'
    PROVE  IInv'
<1>1. WellFormed(book')
    BY InvBook
<1>2. NothingSpentRests'
    BY <1>1, NodesUnspent, BookPart, AllUnspent
<1>3. BookUncrossed'
    BY DEF IInv, BookUncrossed
<1> QED
    BY <1>1, <1>2, <1>3, BookPart DEF IInv

LEMMA StepIInv ==
    ASSUME IInv, [Next]_engineVars
    PROVE  IInv'
<1>1. CASE \E o \in Submission : Submit(o)
    BY <1>1, SubmitIInv
<1>2. CASE \E id \in OrderId : Cancel(id)
    BY <1>2, CancelIInv
<1>3. CASE Trade
    BY <1>3, TradeIInv
<1>4. CASE Settle
    BY <1>4, SettleIInv
<1>5. CASE Rest
    BY <1>5, RestIInv
<1>6. CASE Discard
    <2>1. /\ book' = book /\ phase = "match" /\ phase' = "done"
          /\ in' = OnCancel(in) /\ fills' = fills
        BY <1>6 DEF Discard
    <2>2. in \in Order
        BY <2>1, InvBook
    <2>3. in' \in Order
        <3>1. "Canceled" \in OrderStatus
            BY DEF OrderStatus
        <3> QED
            BY <2>1, <2>2, <3>1 DEF OnCancel, Order
    <2>4. TypeOK'
        BY <2>1, <2>3 DEF IInv, TypeOK, Phase
    <2> QED
        BY <2>1, <2>4, BookKept
<1>7. CASE Complete
    <2>1. /\ book' = book /\ phase = "match" /\ phase' = "done"
          /\ in' = in /\ fills' = fills
        BY <1>7 DEF Complete
    <2>2. TypeOK'
        BY <2>1 DEF IInv, TypeOK, Phase
    <2> QED
        BY <2>1, <2>2, BookKept
<1>8. CASE Return
    <2>1. /\ book' = book /\ phase = "done" /\ phase' = "idle"
          /\ in' = NoOrder /\ fills' = << >>
        BY <1>8 DEF Return
    <2>2. TypeOK'
        BY <2>1 DEF IInv, TypeOK, Phase
    <2> QED
        BY <2>1, <2>2, BookKept
<1>9. CASE UNCHANGED engineVars
    BY <1>9 DEF engineVars, IInv, TypeOK, BookIndexed, BookTotals, NothingSpentRests,
                BookUncrossed, Opp
<1> QED
    BY <1>1, <1>2, <1>3, <1>4, <1>5, <1>6, <1>7, <1>8, <1>9 DEF Next, Step

\* The inductive invariant holds in every state the engine reaches.
THEOREM InductiveInvariant == Spec => []IInv
<1>1. Init => IInv
    BY InitIInv
<1>2. IInv /\ [Next]_engineVars => IInv'
    BY StepIInv
<1> QED
    BY <1>1, <1>2, PTL DEF Spec

\* Every variable stays in its type: no quantity leaves 0 .. MaxQty, no
\* status, id or price outside its set is ever produced.
THEOREM TypeCorrect == Spec => []TypeOK
<1>1. IInv => TypeOK
    BY DEF IInv
<1> QED
    BY <1>1, InductiveInvariant, PTL

\* index_ and the queues hold the same orders whatever was submitted, swept
\* or cancelled, in the middle of a match as well.
THEOREM IndexAgrees == Spec => []BookIndexed
<1>1. IInv => BookIndexed
    BY DEF IInv
<1> QED
    BY <1>1, InductiveInvariant, PTL

\* The cached total of a level, which fully_fillable and the snapshots read,
\* is the sum of its queue at every point anybody can look.
THEOREM TotalsAgree == Spec => []BookTotals
<1>1. IInv => BookTotals
    BY DEF IInv
<1> QED
    BY <1>1, InductiveInvariant, PTL

\* No level is empty and no spent order rests, but for the front order of the
\* best level while the callbacks of its trade run.
THEOREM OnlyTheFrontIsSpent == Spec => []NothingSpentRests
<1>1. IInv => NothingSpentRests
    BY DEF IInv
<1> QED
    BY <1>1, InductiveInvariant, PTL

\* index_, the cached totals and the queues tell the same of the resting orders
\* in every state a callback, a cancel or a snapshot can see.
THEOREM BookStaysConsistent == Spec => []BookConsistent
<1>1. BookIndexed /\ BookTotals /\ NothingSpentRests => BookConsistent
    BY DEF BookConsistent
<1> QED
    BY <1>1, IndexAgrees, TotalsAgree, OnlyTheFrontIsSpent, PTL

\* The best bid stays below the best ask, also while an order is being matched.
THEOREM NeverCrossed == Spec => []BookUncrossed
<1>1. IInv => BookUncrossed
    BY DEF IInv
<1> QED
    BY <1>1, InductiveInvariant, PTL

(***************************************************************************)
(* What a submit leaves of its order.  OrderSettled speaks mostly of the   *)
(* end of a submit; what carries it there is SInv: the fills add up in     *)
(* every phase, the status follows the remainder from the first step on,   *)
(* and while a FOK order is matched the depth it was admitted on is still  *)
(* there for what remains of it.                                           *)
(***************************************************************************)
StatusFollows ==
    phase # "idle" /\ in.qty > 0 => (in.status = "Filled" <=> in.remaining = 0)

DepthStillThere ==
    phase \in {"match", "traded"} /\ in.type = "FOK" => MarketableDepth(book, in) >= in.remaining

SInv ==
    /\ FillsAddUp
    /\ StatusFollows
    /\ DepthStillThere
    /\ FOKAllOrNothing
    /\ phase = "idle" => fills = << >>

\* The legs of one kind are finitely many, each for an integer quantity.
LEMMA LegsSummable ==
    ASSUME NEW fs \in Seq(Fill), NEW m \in BOOLEAN
    PROVE  /\ Summable([i \in DOMAIN fs |-> fs[i].qty], Legs(fs, m))
           /\ FilledOn(fs, m) \in Int
<1>1. Legs(fs, m) \subseteq 1 .. Len(fs) /\ Len(fs) \in Nat
    BY DEF Legs
<1>2. IsFiniteSet(Legs(fs, m))
    <2>1. IsFiniteSet(1 .. Len(fs))
        BY <1>1, FS_Interval
    <2> QED
        BY <1>1, <2>1, FS_Subset
<1>3. \A i \in DOMAIN fs : fs[i].qty \in Int
    <2>1. \A i \in DOMAIN fs : fs[i] \in Fill
        OBVIOUS
    <2>2. \A z \in Fill : z.qty \in Int
        BY MaxQtyAssumption DEF Fill, Quantity
    <2> QED
        BY <2>1, <2>2
<1>4. Summable([i \in DOMAIN fs |-> fs[i].qty], Legs(fs, m))
    BY <1>2, <1>3 DEF Summable, Legs
<1> QED
    BY <1>4, SumType DEF FilledOn

\* No fills, nothing filled.
LEMMA NothingFilled ==
    ASSUME NEW m \in BOOLEAN
    PROVE  FilledOn(<< >>, m) = 0
<1>1. Legs(<< >>, m) = {}
    BY DEF Legs
<1> QED
    BY <1>1, SumEmpty DEF FilledOn

\* A trade reports a taker leg and a maker leg: each kind grows by its own.
LEMMA FilledByTrade ==
    ASSUME NEW fs \in Seq(Fill), NEW x \in Fill, NEW y \in Fill, NEW m \in BOOLEAN,
           ~x.is_maker, y.is_maker, x.qty = y.qty
    PROVE  FilledOn(fs \o <<x, y>>, m) = FilledOn(fs, m) + x.qty
<1> DEFINE gs == fs \o <<x, y>>
           n == Len(fs)
           k == IF m THEN n + 2 ELSE n + 1
           f == [i \in DOMAIN fs |-> fs[i].qty]
           g == [i \in DOMAIN gs |-> gs[i].qty]
<1>1. /\ n \in Nat /\ DOMAIN fs = 1 .. n /\ DOMAIN gs = 1 .. n + 2
      /\ \A i \in 1 .. n : gs[i] = fs[i]
      /\ gs[n + 1] = x /\ gs[n + 2] = y
    OBVIOUS
<1>2. x.is_maker = FALSE /\ y.is_maker = TRUE /\ x.qty \in Int
    BY MaxQtyAssumption DEF Fill, Quantity
<1> HIDE DEF gs, n
<1>3. Legs(gs, m) = Legs(fs, m) \cup {k} /\ k \notin Legs(fs, m) /\ k \in DOMAIN gs
    <2>1. /\ DOMAIN gs = DOMAIN fs \cup {n + 1, n + 2}
          /\ n + 1 \notin DOMAIN fs /\ n + 2 \notin DOMAIN fs /\ n + 1 # n + 2
          /\ \A i \in DOMAIN fs : gs[i] = fs[i]
        BY <1>1
    <2>2. gs[n + 1].is_maker = FALSE /\ gs[n + 2].is_maker = TRUE
        BY <1>1, <1>2
    <2>3. Legs(gs, TRUE) = Legs(fs, TRUE) \cup {n + 2}
        BY <2>1, <2>2, Zenon DEF Legs
    <2>4. Legs(gs, FALSE) = Legs(fs, FALSE) \cup {n + 1}
        BY <2>1, <2>2, Zenon DEF Legs
    <2>5. k \in DOMAIN gs /\ k \notin Legs(fs, m)
        BY <2>1 DEF Legs
    <2> QED
        BY <2>3, <2>4, <2>5
<1>4. g[k] = x.qty
    BY <1>1
<1>5. Summable(f, Legs(fs, m))
    BY LegsSummable
<1>6. \A i \in Legs(fs, m) : f[i] = g[i]
    BY <1>1 DEF Legs
<1> HIDE DEF f, g, k
<1>7. Summable(g, Legs(fs, m)) /\ SumFunctionOnSet(f, Legs(fs, m)) = SumFunctionOnSet(g, Legs(fs, m))
    BY <1>5, <1>6, SumSame
<1>8. SumFunctionOnSet(g, Legs(fs, m) \cup {k}) = SumFunctionOnSet(g, Legs(fs, m)) + g[k]
    BY <1>2, <1>3, <1>4, <1>7, SumAdd
<1> QED
    BY <1>3, <1>4, <1>7, <1>8 DEF FilledOn, f, g, gs

\* The marketable totals are finitely many integers.
LEMMA DepthSummable ==
    ASSUME NEW b, IsBook(b), NEW o \in Order
    PROVE  /\ Summable(Totals(b, Opposite(o.side)), Marketable(b, o))
           /\ MarketableDepth(b, o) \in Int
<1> DEFINE s == Opposite(o.side)
<1>1. s \in Side
    BY DEF Opposite, Side
<1>2. Marketable(b, o) \subseteq Prices(b, s) /\ Prices(b, s) \subseteq Price
    BY <1>1 DEF Marketable, IsBook
<1>3. IsFiniteSet(Marketable(b, o))
    BY <1>2, PriceAssumption, FS_Subset
<1>4. \A p \in Prices(b, s) : b.levels[s][p].total_qty \in Int
    BY <1>1, LevelTypes
<1>5. Summable(Totals(b, s), Marketable(b, o))
    BY <1>2, <1>3, <1>4 DEF Summable, Totals
<1> QED
    BY <1>5, SumType DEF MarketableDepth

\* Only the side, the type and the limit of an order decide what is marketable.
LEMMA SameMarketable ==
    ASSUME NEW b, NEW c, NEW o, NEW u, u.side = o.side, u.type = o.type, u.price = o.price,
           Prices(c, Opposite(o.side)) = Prices(b, Opposite(o.side))
    PROVE  Marketable(c, u) = Marketable(b, o)
    BY DEF Marketable, Crosses

\* An order with marketable depth crosses the best opposite price: no other
\* price crosses when that one does not.
LEMMA BestIsMarketable ==
    ASSUME NEW b, IsBook(b), NEW o \in Order, NEW p \in Marketable(b, o)
    PROVE  LET s == Opposite(o.side)
           IN  Prices(b, s) # {} /\ Best(b, s) \in Marketable(b, o)
<1> DEFINE s == Opposite(o.side)
           t == Best(b, s)
<1>1. s \in Side /\ p \in Prices(b, s) /\ Crosses(o, p)
    BY DEF Opposite, Side, Marketable
<1>2. t \in Prices(b, s) /\ (p = t \/ Better(s, t, p))
    BY <1>1, BestIsBest
<1>3. p \in Int /\ t \in Int /\ o.price \in Int
    BY <1>1, <1>2, PriceAssumption DEF IsBook, Order
<1> HIDE DEF t
<1>4. CASE o.side = "Buy"
    <2>1. s = "Sell"
        BY <1>4 DEF Opposite
    <2>2. Crosses(o, t)
        BY <1>1, <1>2, <1>3, <1>4, <2>1 DEF Better, Crosses
    <2> QED
        BY <1>1, <1>2, <2>2 DEF Marketable, t
<1>5. CASE o.side = "Sell"
    <2>1. s = "Buy"
        BY <1>5 DEF Opposite
    <2>2. Crosses(o, t)
        BY <1>1, <1>2, <1>3, <1>5, <2>1 DEF Better, Crosses
    <2> QED
        BY <1>1, <1>2, <2>2 DEF Marketable, t
<1> QED
    BY <1>4, <1>5 DEF Order, Side

\* A trade of n takes n out of the depth, at the best price.
LEMMA DepthAfterTrade ==
    ASSUME NEW b, WellFormed(b), NEW o \in Order, NEW u, NEW n \in Nat,
           u.side = o.side, u.type = o.type, u.price = o.price,
           NEW p \in Marketable(b, o), n <= FrontNode(b, Opposite(o.side), p).qty
    PROVE  MarketableDepth(TradeFront(b, Opposite(o.side), p, n), u) = MarketableDepth(b, o) - n
<1> DEFINE s == Opposite(o.side)
           c == TradeFront(b, s, p, n)
<1>1. s \in Side /\ p \in Prices(b, s) /\ IsBook(b)
    BY DEF Opposite, Side, Marketable, WellFormed
<1>2. Prices(c, s) = Prices(b, s)
    BY <1>1, TradeNodes
<1>3. \A q \in Prices(b, s) : c.levels[s][q].total_qty =
          IF q = p THEN b.levels[s][p].total_qty - n ELSE b.levels[s][q].total_qty
    BY <1>1, TradeTotals
<1>4. b.levels[s][p].total_qty \in Int
    BY <1>1, LevelTypes
<1> DEFINE f == Totals(b, s)
           g == Totals(c, s)
<1> HIDE DEF c, s
<1>5. /\ g[p] = f[p] - n /\ f[p] \in Int
      /\ \A q \in Prices(b, s) \ {p} : f[q] = g[q]
    BY <1>1, <1>2, <1>3, <1>4 DEF Totals
<1>6. Marketable(c, u) = Marketable(b, o) /\ Marketable(b, o) \subseteq Prices(b, s)
    BY <1>2, SameMarketable DEF s, Marketable
<1>7. Summable(f, Marketable(b, o))
    BY <1>1, DepthSummable DEF s
<1>8. MarketableDepth(b, o) = SumFunctionOnSet(f, Marketable(b, o))
    BY DEF MarketableDepth, s
<1>9. MarketableDepth(c, u) = SumFunctionOnSet(g, Marketable(b, o))
    BY <1>6 DEF MarketableDepth, s
<1>10. SumFunctionOnSet(f, Marketable(b, o)) \in Int
    BY <1>7, SumType
<1> HIDE DEF f, g
<1>11. SumFunctionOnSet(g, Marketable(b, o)) = SumFunctionOnSet(f, Marketable(b, o)) + (g[p] - f[p])
    BY <1>5, <1>6, <1>7, SumChange
<1> QED
    BY <1>5, <1>8, <1>9, <1>10, <1>11 DEF c, s

\* Popping a spent front order leaves the depth as it is: the level keeps its
\* total, or goes with a total of 0.
LEMMA DepthAfterPop ==
    ASSUME NEW b, WellFormed(b), NEW o \in Order, NEW p \in Prices(b, Opposite(o.side)),
           FrontNode(b, Opposite(o.side), p).qty = 0
    PROVE  MarketableDepth(PopFront(b, Opposite(o.side), p), o) = MarketableDepth(b, o)
<1> DEFINE s == Opposite(o.side)
           c == PopFront(b, s, p)
<1>1. s \in Side /\ IsBook(b)
    BY DEF Opposite, Side, WellFormed
<1>2. /\ \A q \in Prices(c, s) : q \in Prices(b, s) /\ c.levels[s][q].total_qty = b.levels[s][q].total_qty
      /\ \A q \in Prices(b, s) \ Prices(c, s) : q = p /\ b.levels[s][p].total_qty = 0
    BY <1>1, PopTotals
<1> DEFINE f == Totals(b, s)
           g == Totals(c, s)
           M == Marketable(b, o)
           K == Marketable(c, o)
<1> HIDE DEF c, s
<1>3. Summable(f, M) /\ M \subseteq Prices(b, s)
    BY <1>1, DepthSummable DEF s, Marketable
<1>4. K = {q \in M : q \in Prices(c, s)}
    BY <1>2 DEF Marketable, s
<1>5. \A q \in K : f[q] = g[q]
    BY <1>2, <1>4 DEF Totals, Marketable
<1>6. /\ MarketableDepth(b, o) = SumFunctionOnSet(f, M)
      /\ MarketableDepth(c, o) = SumFunctionOnSet(g, K)
    BY DEF MarketableDepth, s
<1>7. p \in Prices(b, s) /\ f[p] = b.levels[s][p].total_qty
    BY DEF s, Totals
<1> HIDE DEF f, g, M, K
<1>8. Summable(f, K)
    BY <1>3, <1>4, FS_Subset DEF Summable
<1>9. SumFunctionOnSet(f, K) = SumFunctionOnSet(g, K)
    BY <1>5, <1>8, SumSame
<1>10. SumFunctionOnSet(f, K) = SumFunctionOnSet(f, M)
    <2>1. CASE p \in M /\ p \notin Prices(c, s)
        <3>1. K = M \ {p} /\ f[p] = 0
            BY <1>2, <1>3, <1>4, <1>7, <2>1
        <3>2. SumFunctionOnSet(f, M) = f[p] + SumFunctionOnSet(f, M \ {p})
            BY <1>3, <2>1, SumTake
        <3>3. SumFunctionOnSet(f, K) \in Int
            BY <1>8, SumType
        <3> QED
            BY <3>1, <3>2, <3>3
    <2>2. CASE ~(p \in M /\ p \notin Prices(c, s))
        <3>1. K = M
            BY <1>2, <1>3, <1>4, <2>2
        <3> QED
            BY <3>1
    <2> QED
        BY <2>1, <2>2
<1> QED
    BY <1>6, <1>9, <1>10 DEF c, s

LEMMA InitSInv == Init => SInv
<1> SUFFICES ASSUME Init PROVE SInv
    OBVIOUS
<1> QED
    BY DEF Init, SInv, FillsAddUp, StatusFollows, DepthStillThere, FOKAllOrNothing

LEMMA SubmitSInv ==
    ASSUME IInv, SInv, NEW sub \in Submission, Submit(sub)
    PROVE  SInv'
<1> DEFINE o == OnAccept([sub EXCEPT !.remaining = sub.qty])
<1>1. /\ phase = "idle" /\ book' = book /\ fills' = fills /\ fills = << >>
      /\ in' = IF Refused(book, o) THEN OnReject(o) ELSE o
      /\ phase' = IF Refused(book, o) THEN "done" ELSE "match"
    BY DEF Submit, SInv
<1>2. /\ sub \in [id : OrderId, side : Side, type : OrderType, price : Price,
                  qty : Quantity, remaining : {0}, status : {"New"}, is_ours : Owners]
      /\ sub.qty \in Int
    BY DEF Submission, Quantity
<1>3. /\ o.remaining = o.qty /\ o.status = "Accepted" /\ o.qty \in Int
      /\ OnReject(o).remaining = o.qty /\ OnReject(o).qty = o.qty
      /\ OnReject(o).status = "Rejected"
    BY <1>2 DEF OnAccept, OnReject
<1> HIDE DEF o
<1>4. FillsAddUp'
    <2>1. \A m \in BOOLEAN : FilledOn(fills', m) = 0
        BY <1>1, NothingFilled
    <2>2. in'.qty - in'.remaining = 0
        BY <1>1, <1>3
    <2> QED
        BY <2>1, <2>2 DEF FillsAddUp
<1>5. StatusFollows'
    BY <1>1, <1>3 DEF StatusFollows
<1>6. DepthStillThere'
    BY <1>1, <1>3 DEF DepthStillThere, Refused, FullyFillable
<1>7. FOKAllOrNothing' /\ phase' # "idle"
    BY <1>1, <1>3 DEF FOKAllOrNothing
<1> QED
    BY <1>4, <1>5, <1>6, <1>7 DEF SInv

LEMMA TradeSInv ==
    ASSUME IInv, SInv, Trade
    PROVE  SInv'
<1> DEFINE p == Best(book, Opp)
           r == FrontNode(book, Opp, p)
           n == Traded(r)
           x == FillOf(in.id, in.side, p, n, in.is_ours, FALSE)
           y == FillOf(r.id, Opp, p, n, r.is_ours, TRUE)
<1>1. /\ phase = "match" /\ phase' = "traded"
      /\ in.remaining > 0 /\ Prices(book, Opp) # {} /\ Crosses(in, p)
      /\ in' = OnFill(in, n)
      /\ book' = TradeFront(book, Opp, p, n)
      /\ fills' = fills \o <<x, y>>
    BY DEF Trade, Matching
<1>2. /\ WellFormed(book) /\ IsBook(book) /\ in \in Order /\ Opp = Opposite(in.side)
      /\ Opp \in Side /\ in.side \in Side /\ fills \in Seq(Fill)
    BY <1>1, InvBook DEF Opp, IInv, TypeOK
<1>3. p \in Prices(book, Opp) /\ p \in Price
    BY <1>1, <1>2, BestIsBest DEF IsBook
<1>4. r \in RestingOrder /\ r.qty \in Quantity /\ r.id \in OrderId /\ r.is_ours \in BOOLEAN
    BY <1>2, <1>3, FrontTypes DEF RestingOrder
<1>5. n \in Quantity /\ n \in Nat /\ n <= in.remaining /\ n <= r.qty
    <2> HIDE DEF r
    <2> QED
        BY <1>2, <1>4, MaxQtyAssumption DEF Traded, Order, Quantity
<1>6. x \in Fill /\ y \in Fill /\ x.is_maker = FALSE /\ y.is_maker = TRUE /\ x.qty = n /\ y.qty = n
    <2>1. x.is_maker = FALSE /\ y.is_maker = TRUE /\ x.qty = n /\ y.qty = n
        BY DEF FillOf
    <2> HIDE DEF p, r, n
    <2>2. x \in Fill /\ y \in Fill
        BY <1>2, <1>3, <1>4, <1>5, FillType DEF Order
    <2> QED
        BY <2>1, <2>2
<1>7. n <= FrontNode(book, Opposite(in.side), p).qty
    BY <1>2, <1>5
<1> HIDE DEF x, y, n, r, p
<1>8. /\ in'.remaining = in.remaining - n /\ in'.qty = in.qty
      /\ in'.type = in.type /\ in'.side = in.side /\ in'.price = in.price
      /\ in'.status = IF in.remaining - n <= 0 THEN "Filled" ELSE "PartiallyFilled"
      /\ in.remaining \in Nat /\ in.qty \in Nat
    BY <1>1, <1>2, MaxQtyAssumption DEF OnFill, Order, Quantity
<1>9. FillsAddUp'
    <2> SUFFICES ASSUME NEW m \in BOOLEAN
                 PROVE  FilledOn(fills', m) = in'.qty - in'.remaining
        BY DEF FillsAddUp
    <2>1. FilledOn(fills, m) = in.qty - in.remaining
        BY <1>1 DEF SInv, FillsAddUp
    <2>2. FilledOn(fills', m) = FilledOn(fills, m) + n
        BY <1>1, <1>2, <1>6, FilledByTrade
    <2> QED
        BY <1>5, <1>8, <2>1, <2>2
<1>10. StatusFollows'
    BY <1>5, <1>8 DEF StatusFollows
<1>11. DepthStillThere'
    <2> SUFFICES ASSUME in.type = "FOK" PROVE MarketableDepth(book', in') >= in'.remaining
        BY <1>8 DEF DepthStillThere
    <2>1. MarketableDepth(book, in) >= in.remaining
        BY <1>1 DEF SInv, DepthStillThere
    <2>2. p \in Marketable(book, in)
        BY <1>1, <1>2, <1>3 DEF Marketable
    <2>3. MarketableDepth(book', in') = MarketableDepth(book, in) - n
        BY <1>1, <1>2, <1>5, <1>7, <1>8, <2>2, DepthAfterTrade
    <2>4. MarketableDepth(book, in) \in Int
        BY <1>2, DepthSummable
    <2> QED
        BY <1>5, <1>8, <2>1, <2>3, <2>4
<1>12. FOKAllOrNothing' /\ phase' # "idle"
    BY <1>1 DEF FOKAllOrNothing
<1> QED
    BY <1>9, <1>10, <1>11, <1>12 DEF SInv

LEMMA SettleSInv ==
    ASSUME IInv, SInv, Settle
    PROVE  SInv'
<1> DEFINE p == Best(book, Opp)
           r == FrontNode(book, Opp, p)
<1>1. /\ phase = "traded" /\ phase' = "match" /\ in' = in /\ fills' = fills
      /\ book' = IF r.qty <= 0 THEN PopFront(book, Opp, p) ELSE book
    BY DEF Settle
<1>2. /\ WellFormed(book) /\ IsBook(book) /\ in \in Order /\ Opp = Opposite(in.side)
      /\ Opp \in Side
    BY <1>1, InvBook DEF Opp
<1>3. p \in Prices(book, Opp)
    <2>1. Prices(book, Opp) # {}
        BY <1>1 DEF IInv
    <2> QED
        BY <1>2, <2>1, BestIsBest
<1>4. r.qty \in Nat
    BY <1>2, <1>3, MaxQtyAssumption, FrontTypes DEF Quantity
<1>5. MarketableDepth(book', in') = MarketableDepth(book, in)
    <2>1. CASE r.qty <= 0
        <3>1. r.qty = 0 /\ book' = PopFront(book, Opp, p)
            BY <1>1, <1>4, <2>1
        <3> HIDE DEF p
        <3> QED
            BY <1>1, <1>2, <1>3, <3>1, DepthAfterPop
    <2>2. CASE ~(r.qty <= 0)
        BY <1>1, <2>2
    <2> QED
        BY <2>1, <2>2
<1> HIDE DEF p, r
<1>6. FillsAddUp' /\ StatusFollows' /\ FOKAllOrNothing' /\ phase' # "idle"
    BY <1>1 DEF SInv, FillsAddUp, StatusFollows, FOKAllOrNothing
<1>7. DepthStillThere'
    BY <1>1, <1>5 DEF SInv, DepthStillThere
<1> QED
    BY <1>6, <1>7 DEF SInv

\* A FOK order never runs out of book before it is filled: the depth it still
\* has would be marketable, so the walk would go on.
LEMMA FOKGoesOn ==
    ASSUME IInv, SInv, phase = "match", in.type = "FOK", in.remaining > 0
    PROVE  Matching
<1>1. IsBook(book) /\ in \in Order /\ Opp = Opposite(in.side)
    BY InvBook DEF Opp
<1>2. MarketableDepth(book, in) >= in.remaining /\ in.remaining \in Int
    BY <1>1 DEF SInv, DepthStillThere, Order, Quantity
<1>3. Marketable(book, in) # {}
    <2> SUFFICES ASSUME Marketable(book, in) = {} PROVE FALSE
        OBVIOUS
    <2>1. MarketableDepth(book, in) = 0
        BY SumEmpty DEF MarketableDepth
    <2> QED
        BY <1>2, <2>1
<1>4. Prices(book, Opp) # {} /\ Best(book, Opp) \in Marketable(book, in)
    BY <1>1, <1>3, BestIsMarketable
<1> QED
    BY <1>1, <1>4 DEF Matching, Marketable

LEMMA StepSInv ==
    ASSUME IInv, SInv, [Next]_engineVars
    PROVE  SInv'
<1>1. CASE \E o \in Submission : Submit(o)
    BY <1>1, SubmitSInv
<1>2. CASE \E id \in OrderId : Cancel(id)
    <2>1. phase = "idle" /\ phase' = "idle" /\ in' = in /\ fills' = fills
        BY <1>2 DEF Cancel
    <2> QED
        BY <2>1 DEF SInv, FillsAddUp, StatusFollows, DepthStillThere, FOKAllOrNothing
<1>3. CASE Trade
    BY <1>3, TradeSInv
<1>4. CASE Settle
    BY <1>4, SettleSInv
<1>5. CASE Rest
    <2>1. /\ phase = "match" /\ phase' = "done" /\ in' = in /\ fills' = fills
          /\ in.type = "Limit"
        BY <1>5 DEF Rest
    <2> QED
        BY <2>1 DEF SInv, FillsAddUp, StatusFollows, DepthStillThere, FOKAllOrNothing
<1>6. CASE Discard
    <2>1. /\ phase = "match" /\ phase' = "done" /\ in' = OnCancel(in) /\ fills' = fills
          /\ in.remaining > 0 /\ ~Matching
        BY <1>6 DEF Discard
    <2>2. in \in Order /\ in.remaining \in Int
        BY <2>1, InvBook DEF Order, Quantity
    <2>3. /\ in'.qty = in.qty /\ in'.remaining = in.remaining /\ in'.type = in.type
          /\ in'.status = IF in.status = "Filled" THEN "Filled" ELSE "Canceled"
        BY <2>1, <2>2 DEF OnCancel, Order
    <2>4. in.type # "FOK"
        BY <2>1, FOKGoesOn
    <2>5. FillsAddUp' /\ phase' # "idle"
        BY <2>1, <2>3 DEF SInv, FillsAddUp
    <2>6. StatusFollows'
        BY <2>1, <2>2, <2>3 DEF SInv, StatusFollows
    <2>7. DepthStillThere' /\ FOKAllOrNothing'
        BY <2>1, <2>3, <2>4 DEF DepthStillThere, FOKAllOrNothing
    <2> QED
        BY <2>5, <2>6, <2>7 DEF SInv
<1>7. CASE Complete
    <2>1. /\ phase = "match" /\ phase' = "done" /\ in' = in /\ fills' = fills
          /\ in.remaining = 0
        BY <1>7 DEF Complete
    <2> QED
        BY <2>1 DEF SInv, FillsAddUp, StatusFollows, DepthStillThere, FOKAllOrNothing
<1>8. CASE Return
    <2>1. phase' = "idle" /\ fills' = << >>
        BY <1>8 DEF Return
    <2> QED
        BY <2>1 DEF SInv, FillsAddUp, StatusFollows, DepthStillThere, FOKAllOrNothing
<1>9. CASE UNCHANGED engineVars
    BY <1>9 DEF engineVars, SInv, FillsAddUp, StatusFollows, DepthStillThere, FOKAllOrNothing,
                MarketableDepth, Marketable
<1> QED
    BY <1>1, <1>2, <1>3, <1>4, <1>5, <1>6, <1>7, <1>8, <1>9 DEF Next, Step

\* Whatever an order meets, its fills add up to what it lost on both kinds of
\* legs, its status says whether anything remains, and a FOK order that is
\* taken on is filled whole while one that is refused leaves no trace.
THEOREM OrdersSettle == Spec => []OrderSettled
<1>1. Init => IInv /\ SInv
    BY InitIInv, InitSInv
<1>2. IInv /\ SInv /\ [Next]_engineVars => (IInv /\ SInv)'
    BY StepIInv, StepSInv
<1>3. SInv => OrderSettled
    BY DEF SInv, OrderSettled, StatusFollows, StatusTracksRemaining
<1> QED
    BY <1>1, <1>2, <1>3, PTL DEF Spec

(***************************************************************************)
(* The engine implements the abstract book of PriceTimeBook.  The mapping  *)
(* of MatchingEngine, as a function of the book: the orders with something *)
(* left, what they are, and who of them is before whom.                    *)
(***************************************************************************)
Live(b) == {id \in Resting(b) : NodeQty(b, id) > 0}

RestingOf(b) ==
    [id \in Live(b) |-> [side |-> b.index[id].side, price |-> b.index[id].price,
                         qty |-> NodeQty(b, id)]]

AheadOf(b) == {ab \in Live(b) \X Live(b) : Before(b, ab[1], ab[2])}

\* The view without one order, and with one more.
Dropping(view, id) == [k \in DOMAIN view \ {id} |-> view[k]]

Excluding(pairs, id) == {ab \in pairs : ab[1] # id /\ ab[2] # id}

Joined(view, o) ==
    [k \in DOMAIN view \cup {o.id} |->
       IF k = o.id THEN [side |-> o.side, price |-> o.price, qty |-> o.remaining]
       ELSE view[k]]

BehindAll(view, o) ==
    {<<k, o.id>> : k \in {i \in DOMAIN view : view[i].side = o.side /\ view[i].price = o.price}}

\* The resting orders o trades with before it stops.
Takeable(b, o) ==
    {id \in Live(b) : b.index[id].side # o.side /\ Crosses(o, b.index[id].price)}

LEMMA MappedView ==
    /\ RestingOrders = RestingOf(book) /\ AheadInQueue = AheadOf(book)
    /\ RestingOrders' = RestingOf(book') /\ AheadInQueue' = AheadOf(book')
    BY DEF RestingOrders, RestingOf, AheadInQueue, AheadOf, Unspent, Live, Before

LosesOnly(b, c, id) ==
    /\ Live(c) = Live(b) \ {id}
    /\ \A k \in Live(c) : c.index[k] = b.index[k] /\ NodeQty(c, k) = NodeQty(b, k)
    /\ \A x, y \in Live(c) : Before(c, x, y) <=> Before(b, x, y)

\* An id leaves the live orders, and nothing else of them changes.
LEMMA ViewWithout ==
    ASSUME NEW b, NEW c, NEW id, LosesOnly(b, c, id)
    PROVE  /\ RestingOf(c) = Dropping(RestingOf(b), id)
           /\ AheadOf(c) = Excluding(AheadOf(b), id)
           /\ id \notin Live(b) => RestingOf(c) = RestingOf(b) /\ AheadOf(c) = AheadOf(b)
<1>0. /\ Live(c) = Live(b) \ {id}
      /\ \A k \in Live(c) : c.index[k] = b.index[k] /\ NodeQty(c, k) = NodeQty(b, k)
      /\ \A x, y \in Live(c) : Before(c, x, y) <=> Before(b, x, y)
    BY DEF LosesOnly
<1>1. DOMAIN RestingOf(b) = Live(b)
    BY DEF RestingOf
<1>2. \A k \in Live(c) : RestingOf(b)[k] = RestingOf(c)[k]
    BY <1>0 DEF RestingOf
<1>3. RestingOf(c) = [k \in Live(c) |-> RestingOf(c)[k]]
    BY DEF RestingOf
<1>4. RestingOf(c) = Dropping(RestingOf(b), id)
    BY <1>0, <1>1, <1>2, <1>3 DEF Dropping
<1>5. AheadOf(c) = Excluding(AheadOf(b), id)
    BY <1>0 DEF AheadOf, Excluding
<1>6. ASSUME id \notin Live(b)
      PROVE  RestingOf(c) = RestingOf(b) /\ AheadOf(c) = AheadOf(b)
    <2>1. Live(c) = Live(b)
        BY <1>0, <1>6
    <2>2. RestingOf(b) = [k \in Live(b) |-> RestingOf(b)[k]]
        BY DEF RestingOf
    <2>3. AheadOf(c) = AheadOf(b)
        BY <1>0, <2>1 DEF AheadOf
    <2> QED
        BY <1>2, <1>3, <2>1, <2>2, <2>3
<1> QED
    BY <1>4, <1>5, <1>6

\* cancel takes an order out of the view, or one that was not in it.
LEMMA CancelView ==
    ASSUME NEW b, WellFormed(b), NEW id, NEW c, c = CancelOrder(b, id)
    PROVE  /\ RestingOf(c) = Dropping(RestingOf(b), id)
           /\ AheadOf(c) = Excluding(AheadOf(b), id)
           /\ id \notin Live(b) => RestingOf(c) = RestingOf(b) /\ AheadOf(c) = AheadOf(b)
<1>1. /\ Resting(c) = Resting(b) \ {id} /\ WellFormed(c)
      /\ \A k \in Resting(c) : c.index[k] = b.index[k] /\ Entry(c, k) = Entry(b, k)
    BY CancelEntries, CancelWellFormed
<1>2. \A k \in Resting(c) : NodeQty(c, k) = NodeQty(b, k)
    BY <1>1 DEF NodeQty, Entry
<1>3. Live(c) = Live(b) \ {id} /\ Live(c) \subseteq Resting(c)
    BY <1>1, <1>2 DEF Live
<1>4. \A x, y \in Live(c) : Before(c, x, y) <=> Before(b, x, y)
    BY <1>3, CancelPlaces
<1>5. \A k \in Live(c) : c.index[k] = b.index[k] /\ NodeQty(c, k) = NodeQty(b, k)
    BY <1>1, <1>2, <1>3
<1>6. LosesOnly(b, c, id)
    BY <1>3, <1>4, <1>5 DEF LosesOnly
<1> QED
    BY <1>6, ViewWithout

\* A trade of less than the front order has takes that much off it; a trade of
\* all of it takes the order out.
LEMMA TradeView ==
    ASSUME NEW b, WellFormed(b), NEW s \in Side, NEW p \in Prices(b, s),
           NEW n \in Nat, n <= FrontNode(b, s, p).qty, FrontNode(b, s, p).qty > 0,
           NEW c, c = TradeFront(b, s, p, n), NEW id, id = FrontNode(b, s, p).id
    PROVE  /\ id \in Live(b) /\ b.index[id].side = s /\ b.index[id].price = p
           /\ PlaceOf(b, id) = 1 /\ NodeQty(b, id) = FrontNode(b, s, p).qty
           /\ n < NodeQty(b, id) =>
                /\ RestingOf(c) = [RestingOf(b) EXCEPT ![id].qty = @ - n]
                /\ AheadOf(c) = AheadOf(b)
           /\ n = NodeQty(b, id) =>
                /\ RestingOf(c) = Dropping(RestingOf(b), id)
                /\ AheadOf(c) = Excluding(AheadOf(b), id)
<1> DEFINE r == FrontNode(b, s, p)
<1>1. r \in RestingOrder /\ r.qty \in Nat /\ 1 \in DOMAIN b.levels[s][p].queue
      /\ r = b.levels[s][p].queue[1]
    BY FrontTypes, MaxQtyAssumption DEF Quantity
<1>2. NodeAt(b, s, p, 1, id)
    BY <1>1 DEF NodeAt
<1>3. /\ id \in Resting(b) /\ b.index[id].side = s /\ b.index[id].price = p
      /\ PlaceOf(b, id) = 1
    BY <1>2, PlaceOfNode
<1>4. /\ Resting(c) = Resting(b) /\ c.index = b.index /\ Entry(b, id) = r
      /\ Entry(c, id) = [r EXCEPT !.qty = r.qty - n]
      /\ \A k \in Resting(b) \ {id} : Entry(c, k) = Entry(b, k)
    BY TradeEntries
<1> HIDE DEF r
<1>5. /\ NodeQty(b, id) = r.qty /\ NodeQty(c, id) = r.qty - n
      /\ \A k \in Resting(b) \ {id} : NodeQty(c, k) = NodeQty(b, k)
    BY <1>1, <1>4 DEF NodeQty, Entry, RestingOrder
<1>6. \A x, y \in Resting(b) : Before(c, x, y) <=> Before(b, x, y)
    BY <1>4, TradePlaces DEF Before
<1>7. id \in Live(b) /\ Live(b) \subseteq Resting(b)
    BY <1>3, <1>5 DEF Live, r
<1>8. ASSUME n < r.qty
      PROVE  RestingOf(c) = [RestingOf(b) EXCEPT ![id].qty = @ - n] /\ AheadOf(c) = AheadOf(b)
    <2>1. r.qty - n > 0 /\ r.qty > 0
        BY <1>1, <1>8
    <2>2. Live(c) = Live(b)
        BY <1>4, <1>5, <2>1 DEF Live
    <2>3. AheadOf(c) = AheadOf(b)
        BY <1>6, <1>7, <2>2 DEF AheadOf
    <2>4. ASSUME NEW k \in Live(b)
          PROVE  RestingOf(c)[k] = [RestingOf(b) EXCEPT ![id].qty = @ - n][k]
        BY <1>4, <1>5, <1>7, <2>2 DEF RestingOf
    <2>5. RestingOf(c) = [k \in Live(b) |-> RestingOf(c)[k]]
        BY <2>2 DEF RestingOf
    <2>6. DOMAIN RestingOf(b) = Live(b)
        BY DEF RestingOf
    <2> QED
        BY <2>3, <2>4, <2>5, <2>6
<1>9. ASSUME n = r.qty
      PROVE  /\ RestingOf(c) = Dropping(RestingOf(b), id)
             /\ AheadOf(c) = Excluding(AheadOf(b), id)
    <2>1. NodeQty(c, id) = 0
        <3>1. \A k \in Nat : k - k = 0
            OBVIOUS
        <3>2. r.qty \in Nat
            BY <1>1
        <3>3. NodeQty(c, id) = r.qty - r.qty
            BY <1>5, <1>9
        <3> QED
            BY <3>1, <3>2, <3>3
    <2>2. Live(c) = Live(b) \ {id}
        BY <1>4, <1>5, <2>1 DEF Live
    <2>3. \A k \in Live(c) : c.index[k] = b.index[k] /\ NodeQty(c, k) = NodeQty(b, k)
        BY <1>4, <1>5, <1>7, <2>2
    <2>4. \A x, y \in Live(c) : Before(c, x, y) <=> Before(b, x, y)
        BY <1>6, <1>7, <2>2
    <2>5. LosesOnly(b, c, id)
        BY <2>2, <2>3, <2>4 DEF LosesOnly
    <2> QED
        BY <2>5, ViewWithout
<1> QED
    BY <1>3, <1>5, <1>7, <1>8, <1>9 DEF r

\* A rested order joins the view behind everybody at its side and price.
LEMMA InsertView ==
    ASSUME NEW b, WellFormed(b), NEW o \in Order, o.remaining > 0, o.id \notin Resting(b),
           NEW c, c = Insert(b, o)
    PROVE  /\ RestingOf(c) = Joined(RestingOf(b), o)
           /\ AheadOf(c) = AheadOf(b) \cup BehindAll(RestingOf(b), o)
<1>1. /\ Resting(c) = Resting(b) \cup {o.id} /\ Entry(c, o.id) = NodeFor(o)
      /\ \A k \in Resting(b) : c.index[k] = b.index[k] /\ Entry(c, k) = Entry(b, k)
    BY InsertEntries
<1>2. /\ c.index[o.id].side = o.side /\ c.index[o.id].price = o.price
      /\ PlaceOf(c, o.id) \in Nat
      /\ \A x \in Resting(b) :
           /\ PlaceOf(c, x) = PlaceOf(b, x)
           /\ b.index[x].side = o.side /\ b.index[x].price = o.price
              => PlaceOf(b, x) < PlaceOf(c, o.id)
    BY InsertPlaces
<1>3. NodeQty(c, o.id) = o.remaining /\ \A k \in Resting(b) : NodeQty(c, k) = NodeQty(b, k)
    BY <1>1 DEF NodeQty, Entry, NodeFor
<1>4. Live(c) = Live(b) \cup {o.id} /\ Live(b) \subseteq Resting(b) /\ o.id \notin Live(b)
    BY <1>1, <1>3 DEF Live
<1>5. /\ DOMAIN RestingOf(b) = Live(b)
      /\ \A k \in Live(b) : /\ RestingOf(c)[k] = RestingOf(b)[k]
                            /\ RestingOf(b)[k].side = b.index[k].side
                            /\ RestingOf(b)[k].price = b.index[k].price
      /\ RestingOf(c)[o.id] = [side |-> o.side, price |-> o.price, qty |-> o.remaining]
      /\ RestingOf(c) = [k \in Live(c) |-> RestingOf(c)[k]]
    BY <1>1, <1>2, <1>3, <1>4 DEF RestingOf
<1>6. \A x \in Resting(b) : PlaceOf(b, x) \in Nat
    BY NodeAtPlace
<1>7. ASSUME NEW x \in Live(b), NEW y \in Live(b)
      PROVE  Before(c, x, y) <=> Before(b, x, y)
    BY <1>1, <1>2, <1>4 DEF Before
<1>8. ASSUME NEW x \in Live(b)
      PROVE  /\ Before(c, x, o.id) <=> b.index[x].side = o.side /\ b.index[x].price = o.price
             /\ ~Before(c, o.id, x)
    <2>1. x \in Resting(b) /\ c.index[x] = b.index[x] /\ PlaceOf(b, x) \in Nat
        BY <1>1, <1>4, <1>6
    <2>2. ~Before(c, o.id, x)
        <3> SUFFICES ASSUME Before(c, o.id, x) PROVE FALSE
            OBVIOUS
        <3>1. b.index[x].side = o.side /\ b.index[x].price = o.price
            BY <1>2, <2>1 DEF Before
        <3> QED
            BY <1>2, <2>1, <3>1 DEF Before
    <2> QED
        BY <1>2, <2>1, <2>2 DEF Before
<1>9. ~Before(c, o.id, o.id)
    BY <1>2 DEF Before
<1>10. AheadOf(c) = AheadOf(b) \cup {<<k, o.id>> : k \in {i \in Live(b) :
                        b.index[i].side = o.side /\ b.index[i].price = o.price}}
    BY <1>4, <1>7, <1>8, <1>9 DEF AheadOf
<1>11. {i \in DOMAIN RestingOf(b) : RestingOf(b)[i].side = o.side /\ RestingOf(b)[i].price = o.price}
         = {i \in Live(b) : b.index[i].side = o.side /\ b.index[i].price = o.price}
    BY <1>5
<1>12. RestingOf(c) = Joined(RestingOf(b), o)
    BY <1>4, <1>5 DEF Joined
<1> QED
    BY <1>10, <1>11, <1>12 DEF BehindAll

\* The ids in the queue of a level are those the index sends there, and what is
\* left of them adds up to the level's total.
LEMMA LevelIds ==
    ASSUME NEW b, WellFormed(b), NEW s \in Side, NEW p \in Prices(b, s),
           NEW f, \A id \in Resting(b) : f[id] = NodeQty(b, id),
           NEW ids, ids = {id \in Resting(b) : b.index[id].side = s /\ b.index[id].price = p}
    PROVE  Summable(f, ids) /\ SumFunctionOnSet(f, ids) = b.levels[s][p].total_qty
<1> DEFINE q == b.levels[s][p].queue
           here == {q[i].id : i \in DOMAIN q}
<1>1. q \in Queue /\ b.levels[s][p].total_qty = QueueQty(q)
    BY LevelTypes DEF WellFormed, LevelTotals
<1>2. ASSUME NEW i \in DOMAIN q, NEW id, id = q[i].id
      PROVE  /\ id \in Resting(b) /\ b.index[id].side = s /\ b.index[id].price = p
             /\ PlaceOf(b, id) = i /\ f[id] = q[i].qty
    <2>1. NodeAt(b, s, p, i, id)
        BY <1>2 DEF NodeAt
    <2>2. /\ id \in Resting(b) /\ b.index[id].side = s /\ b.index[id].price = p
          /\ PlaceOf(b, id) = i
        BY <2>1, PlaceOfNode
    <2>3. NodeQty(b, id) = q[i].qty
        BY <2>2 DEF NodeQty, QueueOf
    <2> QED
        BY <2>2, <2>3
<1>3. ASSUME NEW id \in ids PROVE id \in here
    <2>1. PICK t \in Side, u \in Price, i \in Nat \ {0} :
            /\ NodeAt(b, t, u, i, id) /\ PlaceOf(b, id) = i
            /\ b.index[id].side = t /\ b.index[id].price = u
        BY NodeAtPlace
    <2>2. i \in DOMAIN q /\ q[i].id = id
        BY <2>1 DEF NodeAt
    <2> QED
        BY <2>2
<1> HIDE DEF q
<1>4. here = ids
    <2>1. here \subseteq ids
        BY <1>2
    <2> QED
        BY <1>3, <2>1
<1>5. \A i, j \in DOMAIN q : q[i].id = q[j].id => i = j
    <2> SUFFICES ASSUME NEW i \in DOMAIN q, NEW j \in DOMAIN q, NEW id,
                        id = q[i].id, id = q[j].id
                 PROVE  i = j
        OBVIOUS
    <2>1. PlaceOf(b, id) = i /\ PlaceOf(b, id) = j
        BY <1>2
    <2> QED
        BY <2>1
<1>6. \A i \in DOMAIN q : f[q[i].id] = q[i].qty
    BY <1>2
<1>7. Summable(f, here) /\ SumFunctionOnSet(f, here) = QueueQty(q)
    BY <1>1, <1>5, <1>6, QueueQtyByIds
<1>8. b.levels[s][p].total_qty = QueueQty(q)
    BY <1>1 DEF q
<1> HIDE DEF here
<1> QED
    BY <1>4, <1>7, <1>8

\* With nothing spent on the book, the cached totals fully_fillable adds up are
\* the remainders of exactly the orders that can be traded with.
LEMMA AvailableIsDepth ==
    ASSUME NEW b, WellFormed(b), NEW o \in Order, Live(b) = Resting(b),
           NEW f, \A id \in Resting(b) : f[id] = NodeQty(b, id)
    PROVE  SumFunctionOnSet(f, Takeable(b, o)) = MarketableDepth(b, o)
<1> DEFINE s == Opposite(o.side)
           T == Marketable(b, o)
           At(p) == {id \in Resting(b) : b.index[id].side = s /\ b.index[id].price = p}
           part == [p \in T |-> At(p)]
           g == Totals(b, s)
<1>1. /\ s \in Side /\ o.side \in Side /\ T \subseteq Prices(b, s) /\ IsBook(b)
      /\ \A t \in Side : t = s <=> t # o.side
    BY DEF Opposite, Side, Order, Marketable, WellFormed
<1>2. IsFiniteSet(T)
    BY <1>1, DepthSummable DEF Summable
<1>3. \A p \in T : Summable(f, part[p]) /\ g[p] = SumFunctionOnSet(f, part[p])
    <2> SUFFICES ASSUME NEW p \in T
                 PROVE  Summable(f, part[p]) /\ g[p] = SumFunctionOnSet(f, part[p])
        OBVIOUS
    <2>1. PICK ids : ids = {id \in Resting(b) : b.index[id].side = s /\ b.index[id].price = p}
        OBVIOUS
    <2>2. p \in Prices(b, s) /\ part[p] = ids /\ g[p] = b.levels[s][p].total_qty
        BY <1>1, <2>1 DEF Totals
    <2> HIDE DEF part, g, s, T
    <2>3. Summable(f, ids) /\ SumFunctionOnSet(f, ids) = b.levels[s][p].total_qty
        BY <1>1, <2>1, <2>2, LevelIds
    <2> QED
        BY <2>2, <2>3
<1>4. \A p, u \in T : p # u => part[p] \cap part[u] = {}
    OBVIOUS
<1>5. Takeable(b, o) = Whole(part, T)
    <2>1. ASSUME NEW id \in Takeable(b, o)
          PROVE  id \in Whole(part, T)
        <3>1. /\ id \in Resting(b) /\ b.index[id].side # o.side
              /\ Crosses(o, b.index[id].price)
            BY DEF Takeable
        <3>2. PICK t \in Side, u \in Price, i \in Nat \ {0} :
                /\ NodeAt(b, t, u, i, id) /\ PlaceOf(b, id) = i
                /\ b.index[id].side = t /\ b.index[id].price = u
            BY <3>1, NodeAtPlace
        <3>3. t = s /\ u \in Prices(b, t) /\ Crosses(o, u)
            BY <1>1, <3>1, <3>2 DEF NodeAt
        <3>4. u \in T
            BY <3>3 DEF Marketable
        <3>5. id \in part[u]
            BY <3>1, <3>2, <3>3, <3>4
        <3> QED
            BY <3>4, <3>5 DEF Whole
    <2>2. ASSUME NEW p \in T, NEW id \in part[p]
          PROVE  id \in Takeable(b, o)
        BY <1>1 DEF Takeable, Marketable
    <2> QED
        BY <2>1, <2>2 DEF Whole
<1> HIDE DEF part, g, T
<1>6. SumFunctionOnSet(f, Whole(part, T)) = SumFunctionOnSet(g, T)
    BY <1>2, <1>3, <1>4, SumByParts
<1> QED
    BY <1>5, <1>6 DEF MarketableDepth, g, T

\* Outside the window between a trade and its settling, everything that rests is live.
LEMMA AllLive ==
    ASSUME IInv, phase # "traded"
    PROVE  Live(book) = Resting(book)
<1> SUFFICES ASSUME NEW id \in Resting(book) PROVE NodeQty(book, id) > 0
    BY DEF Live
<1>1. WellFormed(book)
    BY InvBook
<1>2. PICK s \in Side, p \in Price, i \in Nat \ {0} :
        /\ NodeAt(book, s, p, i, id) /\ PlaceOf(book, id) = i
        /\ book.index[id].side = s /\ book.index[id].price = p
    BY <1>1, NodeAtPlace
<1>3. p \in Prices(book, s) /\ i \in DOMAIN book.levels[s][p].queue
    BY <1>2 DEF NodeAt
<1>4. NodeQty(book, id) = book.levels[s][p].queue[i].qty
    BY <1>2 DEF NodeQty, QueueOf
<1> QED
    BY <1>3, <1>4, NodesUnspent

\* What the abstract book calls acceptable is what the engine can trade with.
LEMMA AcceptableIsTakeable ==
    ASSUME NEW o, NEW u, u.side = o.side, u.type = o.type, u.price = o.price,
           o.price \in Int, WellFormed(book), o.side \in Side
    PROVE  Promise!Acceptable(u) = Takeable(book, o)
<1>1. ASSUME NEW p \in Int PROVE Promise!Accepts(u, p) <=> Crosses(o, p)
    BY DEF Promise!Accepts, Crosses, Side
<1>2. \A id \in Resting(book) : book.index[id].price \in Int
    BY NodeAtPlace, PriceAssumption
<1>3. /\ DOMAIN RestingOf(book) = Live(book) /\ Live(book) \subseteq Resting(book)
      /\ \A id \in Live(book) : /\ RestingOf(book)[id].side = book.index[id].side
                                /\ RestingOf(book)[id].price = book.index[id].price
    BY DEF RestingOf, Live
<1>4. Promise!Acceptable(u) =
        {id \in DOMAIN RestingOf(book) : /\ RestingOf(book)[id].side # u.side
                                         /\ Promise!Accepts(u, RestingOf(book)[id].price)}
    BY MappedView DEF Promise!Acceptable
<1> QED
    BY <1>1, <1>2, <1>3, <1>4 DEF Takeable

\* The depth a FOK order is admitted on is what the abstract book has for it.
LEMMA AvailableInView ==
    ASSUME IInv, phase # "traded", NEW o \in Order, NEW u,
           u.side = o.side, u.type = o.type, u.price = o.price
    PROVE  Promise!Available(u) = MarketableDepth(book, o)
<1>1. WellFormed(book) /\ Live(book) = Resting(book)
    BY InvBook, AllLive
<1>2. o.price \in Int /\ o.side \in Side
    BY PriceAssumption DEF Order
<1>3. PICK f : f = [id \in DOMAIN RestingOf(book) |-> RestingOf(book)[id].qty]
    OBVIOUS
<1>4. \A id \in Resting(book) : f[id] = NodeQty(book, id)
    BY <1>1, <1>3 DEF RestingOf
<1>5. PICK S : S = Takeable(book, o)
    OBVIOUS
<1>6. Promise!Acceptable(u) = S
    BY <1>1, <1>2, <1>5, AcceptableIsTakeable
<1>7. Promise!Available(u) = Promise!SumFunctionOnSet(f, S)
    BY <1>3, <1>6, MappedView DEF Promise!Available
<1>8. Promise!SumFunctionOnSet(f, S) = SumFunctionOnSet(f, S)
    BY DEF Promise!SumFunctionOnSet, SumFunctionOnSet, Promise!FoldFunctionOnSet,
           FoldFunctionOnSet, Promise!MapThenFoldSet, MapThenFoldSet
<1>9. SumFunctionOnSet(f, S) = MarketableDepth(book, o)
    BY <1>1, <1>4, <1>5, AvailableIsDepth
<1> QED
    BY <1>7, <1>8, <1>9

\* When the engine stops matching, the abstract taker is exhausted.
LEMMA NothingTakeable ==
    ASSUME IInv, phase = "match", ~Matching, in.remaining > 0
    PROVE  Takeable(book, in) = {}
<1> SUFFICES ASSUME NEW id \in Takeable(book, in) PROVE FALSE
    OBVIOUS
<1>1. /\ WellFormed(book) /\ IsBook(book) /\ in \in Order /\ Opp = Opposite(in.side)
      /\ Opp \in Side /\ in.side \in Side /\ \A t \in Side : t # in.side => t = Opp
    BY InvBook DEF Opp, Opposite, Side
<1>2. id \in Resting(book) /\ book.index[id].side # in.side /\ Crosses(in, book.index[id].price)
    BY DEF Takeable, Live
<1>3. PICK t \in Side, u \in Price, i \in Nat \ {0} :
        /\ NodeAt(book, t, u, i, id) /\ PlaceOf(book, id) = i
        /\ book.index[id].side = t /\ book.index[id].price = u
    BY <1>1, <1>2, NodeAtPlace
<1>4. u \in Marketable(book, in)
    BY <1>1, <1>2, <1>3 DEF NodeAt, Marketable
<1>5. Prices(book, Opp) # {} /\ Best(book, Opp) \in Marketable(book, in)
    BY <1>1, <1>4, BestIsMarketable
<1> QED
    BY <1>5 DEF Matching, Marketable

LEMMA SubmitImplements ==
    ASSUME IInv, NEW sub \in Submission, Submit(sub)
    PROVE  Promise!Next
<1> DEFINE o == OnAccept([sub EXCEPT !.remaining = sub.qty])
           a == [id |-> sub.id, side |-> sub.side, type |-> sub.type,
                 price |-> sub.price, left |-> sub.qty]
<1>1. sub \in [id : OrderId, side : Side, type : OrderType, price : Price,
               qty : Quantity, remaining : {0}, status : {"New"}, is_ours : Owners]
    BY DEF Submission
<1>2. /\ o \in Order /\ o.id = sub.id /\ o.side = sub.side /\ o.type = sub.type
      /\ o.price = sub.price /\ o.remaining = sub.qty /\ o.qty = sub.qty
      /\ OnReject(o).id = sub.id /\ OnReject(o).side = sub.side /\ OnReject(o).type = sub.type
      /\ OnReject(o).price = sub.price /\ OnReject(o).remaining = sub.qty
    <2>1. "Accepted" \in OrderStatus /\ Owners \subseteq BOOLEAN
        BY OwnersAssumption DEF OrderStatus
    <2> QED
        BY <1>1, <2>1 DEF OnAccept, OnReject, Order
<1>3. /\ phase = "idle" /\ book' = book
      /\ in' = IF Refused(book, o) THEN OnReject(o) ELSE o
      /\ phase' = IF Refused(book, o) THEN "done" ELSE "match"
    BY DEF Submit
<1>4. a \in Promise!Arrivals
    BY <1>1 DEF Promise!Arrivals, Promise!Side, Side, OrderType, Quantity
<1>5. /\ a.side = o.side /\ a.type = o.type /\ a.price = o.price /\ a.left = o.qty
      /\ a = [id |-> sub.id, side |-> sub.side, type |-> sub.type,
              price |-> sub.price, left |-> sub.qty]
    BY <1>2
<1> HIDE DEF o, a
<1>6. Promise!Available(a) = MarketableDepth(book, o)
    BY <1>2, <1>3, <1>5, AvailableInView
<1>7. /\ Refused(book, o) <=> a.type = "FOK" /\ ~(Promise!Available(a) >= a.left)
      /\ Promise!Available(a) \in Int /\ a.left \in Int
    <2>1. MarketableDepth(book, o) \in Int
        BY <1>2, InvBook, DepthSummable
    <2>2. a.left \in Int
        BY <1>1, <1>2, <1>5 DEF Quantity
    <2> QED
        BY <1>5, <1>6, <2>1, <2>2 DEF Refused, FullyFillable
<1>8. RestingOrders' = RestingOrders /\ AheadInQueue' = AheadInQueue
    BY <1>3, MappedView
<1>9. Taker = Promise!Nobody
    BY <1>3 DEF Taker, Promise!Nobody
<1>10. CASE Refused(book, o)
    <2>1. Taker' = [stage |-> "over", order |-> a]
        BY <1>2, <1>3, <1>5, <1>10 DEF Taker
    <2>2. Promise!TurnAway(a)
        BY <1>7, <1>8, <1>9, <1>10, <2>1 DEF Promise!TurnAway
    <2> QED
        BY <1>4, <1>9, <2>2 DEF Promise!Next
<1>11. CASE ~Refused(book, o)
    <2>1. Taker' = [stage |-> "working", order |-> a]
        BY <1>2, <1>3, <1>5, <1>11 DEF Taker
    <2>2. Promise!Arrive(a)
        BY <1>7, <1>8, <1>9, <1>11, <2>1 DEF Promise!Arrive
    <2> QED
        BY <1>4, <1>9, <2>2 DEF Promise!Next
<1> QED
    BY <1>10, <1>11

LEMMA CancelImplements ==
    ASSUME IInv, NEW id \in OrderId, Cancel(id)
    PROVE  [Promise!Next]_(Promise!vars)
<1>1. /\ phase = "idle" /\ phase' = "idle" /\ in' = in
      /\ book' = CancelOrder(book, id) /\ WellFormed(book)
    BY InvBook DEF Cancel
<1>2. PICK c : c = book'
    OBVIOUS
<1>3. /\ RestingOf(c) = Dropping(RestingOf(book), id)
      /\ AheadOf(c) = Excluding(AheadOf(book), id)
      /\ id \notin Live(book) => RestingOf(c) = RestingOf(book) /\ AheadOf(c) = AheadOf(book)
    BY <1>1, <1>2, CancelView
<1>4. Taker' = Taker /\ Taker = Promise!Nobody
    BY <1>1 DEF Taker, Promise!Nobody
<1>5. CASE id \notin Live(book)
    BY <1>2, <1>3, <1>4, <1>5, MappedView DEF Promise!vars
<1>6. CASE id \in Live(book)
    <2>1. id \in DOMAIN RestingOrders
        BY <1>6, MappedView DEF RestingOf
    <2>2. RestingOrders' = Promise!Without(id) /\ AheadInQueue' = Promise!NotInvolving(id)
        BY <1>2, <1>3, MappedView DEF Promise!Without, Promise!NotInvolving, Dropping, Excluding
    <2>3. Promise!Withdraw(id)
        BY <1>4, <2>1, <2>2 DEF Promise!Withdraw
    <2> QED
        BY <2>3 DEF Promise!Next
<1> QED
    BY <1>5, <1>6

\* A trade takes the first in line: the best price is the engine's best level,
\* and nobody is ahead of the front of its queue.
LEMMA TradeImplements ==
    ASSUME IInv, Trade
    PROVE  Promise!Next
<1>1. PICK p, r, n : p = Best(book, Opp) /\ r = FrontNode(book, Opp, p) /\ n = Traded(r)
    OBVIOUS
<1>2. /\ phase = "match" /\ phase' = "traded"
      /\ in.remaining > 0 /\ Prices(book, Opp) # {} /\ Crosses(in, p)
      /\ in' = OnFill(in, n)
      /\ book' = TradeFront(book, Opp, p, n)
    BY <1>1 DEF Trade, Matching
<1>3. /\ WellFormed(book) /\ IsBook(book) /\ in \in Order
      /\ Opp \in Side /\ in.side \in Side /\ Opp # in.side
      /\ Opp = Opposite(in.side) /\ \A t \in Side : t # in.side => t = Opp
      /\ in.remaining \in Nat /\ in.price \in Int
    <2>1. /\ WellFormed(book) /\ IsBook(book) /\ in \in Order
          /\ Opp \in Side /\ in.side \in Side /\ Opp # in.side
        BY <1>2, InvBook
    <2>2. Opp = Opposite(in.side) /\ \A t \in Side : t # in.side => t = Opp
        BY <2>1 DEF Opp, Opposite, Side
    <2>3. in.remaining \in Quantity /\ in.price \in Price
        <3>1. PICK o : o = in
            OBVIOUS
        <3>2. o \in Order
            BY <2>1, <3>1
        <3>3. o.remaining \in Quantity /\ o.price \in Price
            BY <3>2 DEF Order
        <3> QED
            BY <3>1, <3>3
    <2>4. in.remaining \in Nat
        BY <2>3, MaxQtyAssumption DEF Quantity
    <2>5. in.price \in Int
        BY <2>3, PriceAssumption
    <2> QED
        BY <2>1, <2>2, <2>4, <2>5
<1>4. /\ p \in Prices(book, Opp)
      /\ \A q \in Prices(book, Opp) \ {p} : Better(Opp, p, q)
    BY <1>1, <1>2, <1>3, BestIsBest
<1>5. r \in RestingOrder /\ r.id \in OrderId /\ r.qty \in Nat /\ r.qty > 0
    <2>1. /\ r \in RestingOrder /\ r.qty \in Quantity /\ r.id \in OrderId
          /\ r = book.levels[Opp][p].queue[1] /\ 1 \in DOMAIN book.levels[Opp][p].queue
        BY <1>1, <1>3, <1>4, FrontTypes
    <2>2. r.qty > 0
        BY <1>2, <1>3, <1>4, <2>1, NodesUnspent
    <2> QED
        BY <2>1, <2>2, MaxQtyAssumption DEF Quantity
<1>6. n \in Nat /\ n <= r.qty /\ n = IF in.remaining < r.qty THEN in.remaining ELSE r.qty
    BY <1>1, <1>3, <1>5 DEF Traded
<1>7. PICK c, id : c = book' /\ id = r.id
    OBVIOUS
<1>8. /\ id \in Live(book) /\ book.index[id].side = Opp /\ book.index[id].price = p
      /\ PlaceOf(book, id) = 1 /\ NodeQty(book, id) = r.qty
      /\ n < r.qty =>
           /\ RestingOf(c) = [RestingOf(book) EXCEPT ![id].qty = @ - n]
           /\ AheadOf(c) = AheadOf(book)
      /\ n = r.qty =>
           /\ RestingOf(c) = Dropping(RestingOf(book), id)
           /\ AheadOf(c) = Excluding(AheadOf(book), id)
    <2>1. PICK s, b : s = Opp /\ b = book
        OBVIOUS
    <2>2. /\ WellFormed(b) /\ s \in Side /\ p \in Prices(b, s) /\ n \in Nat
          /\ n <= FrontNode(b, s, p).qty /\ FrontNode(b, s, p).qty > 0
          /\ c = TradeFront(b, s, p, n) /\ id = FrontNode(b, s, p).id
        BY <1>1, <1>2, <1>3, <1>4, <1>5, <1>6, <1>7, <2>1
    <2>3. /\ id \in Live(b) /\ b.index[id].side = s /\ b.index[id].price = p
          /\ PlaceOf(b, id) = 1 /\ NodeQty(b, id) = FrontNode(b, s, p).qty
          /\ n < NodeQty(b, id) =>
               /\ RestingOf(c) = [RestingOf(b) EXCEPT ![id].qty = @ - n]
               /\ AheadOf(c) = AheadOf(b)
          /\ n = NodeQty(b, id) =>
               /\ RestingOf(c) = Dropping(RestingOf(b), id)
               /\ AheadOf(c) = Excluding(AheadOf(b), id)
        BY <2>2, TradeView
    <2> QED
        BY <1>1, <2>1, <2>3
<1>9. /\ Taker.stage = "working" /\ Taker.order.left = in.remaining
      /\ Taker.order.side = in.side /\ Taker.order.type = in.type /\ Taker.order.price = in.price
    BY <1>2 DEF Taker
<1>10. Promise!Acceptable(Taker.order) = Takeable(book, in)
    BY <1>3, <1>9, AcceptableIsTakeable
<1>11. id \in Takeable(book, in)
    BY <1>2, <1>3, <1>8 DEF Takeable
<1>12. /\ DOMAIN RestingOrders = Live(book) /\ RestingOrders[id].qty = r.qty
       /\ \A k \in Live(book) : RestingOrders[k].price = book.index[k].price
    BY <1>8, MappedView DEF RestingOf
<1>13. Promise!FirstInLine(id, Taker.order)
    <2> SUFFICES ASSUME NEW other \in Takeable(book, in) \ {id}
                 PROVE  /\ IF in.side = "Buy" THEN p <= book.index[other].price
                                              ELSE p >= book.index[other].price
                        /\ <<other, id>> \notin AheadOf(book)
        BY <1>8, <1>9, <1>10, <1>12, MappedView DEF Promise!FirstInLine, Takeable
    <2>1. /\ other \in Resting(book) /\ book.index[other].side # in.side
        BY DEF Takeable, Live
    <2>2. PICK t \in Side, u \in Price, i \in Nat \ {0} :
            /\ NodeAt(book, t, u, i, other) /\ PlaceOf(book, other) = i
            /\ book.index[other].side = t /\ book.index[other].price = u
        BY <1>3, <2>1, NodeAtPlace
    <2>3. t = Opp /\ u \in Prices(book, Opp)
        BY <1>3, <2>1, <2>2 DEF NodeAt
    <2>4. u = p \/ Better(Opp, p, u)
        BY <1>4, <2>3
    <2>5. p \in Int /\ u \in Int
        BY <1>3, <1>4, <2>3, PriceAssumption DEF IsBook
    <2>6. IF in.side = "Buy" THEN p <= u ELSE p >= u
        BY <1>3, <2>4, <2>5 DEF Opposite, Better, Side
    <2>7. <<other, id>> \notin AheadOf(book)
        BY <1>8, <2>2 DEF AheadOf, Before
    <2> QED
        BY <2>2, <2>6, <2>7
<1>14. Taker' = [Taker EXCEPT !.order.left = @ - n]
    <2>1. /\ in'.remaining = in.remaining - n /\ in'.id = in.id /\ in'.side = in.side
          /\ in'.type = in.type /\ in'.price = in.price
        BY <1>2, <1>3 DEF OnFill, Order
    <2> QED
        BY <1>2, <2>1 DEF Taker
<1>15. IF n = r.qty
         THEN RestingOrders' = Promise!Without(id) /\ AheadInQueue' = Promise!NotInvolving(id)
         ELSE RestingOrders' = [RestingOrders EXCEPT ![id].qty = @ - n] /\ UNCHANGED AheadInQueue
    <2>1. CASE n = r.qty
        BY <1>7, <1>8, <2>1, MappedView
           DEF Promise!Without, Promise!NotInvolving, Dropping, Excluding
    <2>2. CASE n < r.qty
        BY <1>5, <1>6, <1>7, <1>8, <2>2, MappedView
    <2> QED
        BY <1>5, <1>6, <2>1, <2>2
<1>16. Promise!Execute(id)
    BY <1>2, <1>3, <1>5, <1>6, <1>9, <1>10, <1>11, <1>12, <1>13, <1>14, <1>15 DEF Promise!Execute
<1> QED
    BY <1>5, <1>7, <1>16 DEF Promise!Next

\* Settling takes out an order the view had lost with the trade.
LEMMA SettleImplements ==
    ASSUME IInv, Settle
    PROVE  UNCHANGED Promise!vars
<1>1. PICK p, r : p = Best(book, Opp) /\ r = FrontNode(book, Opp, p)
    OBVIOUS
<1>2. /\ phase = "traded" /\ phase' = "match" /\ in' = in
      /\ book' = IF r.qty <= 0 THEN PopFront(book, Opp, p) ELSE book
    BY <1>1 DEF Settle
<1>3. /\ WellFormed(book) /\ IsBook(book) /\ Opp \in Side
    BY <1>2, InvBook
<1>4. p \in Prices(book, Opp)
    <2>1. Prices(book, Opp) # {}
        BY <1>2 DEF IInv
    <2> QED
        BY <1>1, <1>3, <2>1, BestIsBest
<1>5. r.qty \in Nat
    BY <1>1, <1>3, <1>4, MaxQtyAssumption, FrontTypes DEF Quantity
<1>6. Taker' = Taker
    BY <1>2 DEF Taker
<1>7. CASE r.qty > 0
    <2>1. book' = book
        BY <1>2, <1>5, <1>7
    <2> QED
        BY <1>6, <2>1, MappedView DEF Promise!vars
<1>8. CASE r.qty = 0
    <2>1. PICK c, id : c = book' /\ id = r.id
        OBVIOUS
    <2>2. c = CancelOrder(book, id)
        BY <1>1, <1>2, <1>3, <1>4, <1>8, <2>1, PopIsCancel
    <2>3. id \notin Live(book)
        <3>1. Entry(book, id) = r
            <4>1. r \in RestingOrder /\ r = book.levels[Opp][p].queue[1]
                  /\ 1 \in DOMAIN book.levels[Opp][p].queue
                BY <1>1, <1>3, <1>4, FrontTypes
            <4>2. HasNode(book, Opp, p, r)
                BY <1>4, <4>1 DEF HasNode
            <4> QED
                BY <1>3, <2>1, <4>2, NodeIsEntry
        <3>2. NodeQty(book, id) = 0
            BY <1>8, <3>1 DEF NodeQty, Entry
        <3> QED
            BY <3>2 DEF Live
    <2>4. RestingOf(c) = RestingOf(book) /\ AheadOf(c) = AheadOf(book)
        BY <1>3, <2>2, <2>3, CancelView
    <2> QED
        BY <1>6, <2>1, <2>4, MappedView DEF Promise!vars
<1> QED
    BY <1>5, <1>7, <1>8

\* Resting the remainder, dropping it, or having none left ends the abstract
\* taker's work: nothing acceptable is left to it.
LEMMA EndImplements ==
    ASSUME IInv, Rest \/ Discard \/ Complete
    PROVE  Promise!Next
<1>1. phase = "match" /\ phase' = "done" /\ WellFormed(book) /\ in \in Order
    <2>1. phase = "match" /\ phase' = "done"
        BY DEF Rest, Discard, Complete
    <2> QED
        BY <2>1, InvBook
<1>2. /\ Taker.stage = "working" /\ Taker.order.left = in.remaining /\ Taker.order.id = in.id
      /\ Taker.order.side = in.side /\ Taker.order.type = in.type /\ Taker.order.price = in.price
    BY <1>1 DEF Taker
<1>3. DOMAIN RestingOrders = Resting(book)
    BY <1>1, AllLive, MappedView DEF RestingOf
<1>4. Promise!Exhausted
    <2>1. CASE in.remaining = 0
        BY <1>2, <2>1 DEF Promise!Exhausted
    <2>2. CASE in.remaining # 0
        <3>1. ~Matching /\ in.remaining > 0
            BY <2>2 DEF Rest, Discard, Complete
        <3>2. Takeable(book, in) = {}
            BY <1>1, <3>1, NothingTakeable
        <3>3. in.price \in Int /\ in.side \in Side
            BY <1>1, PriceAssumption DEF Order
        <3>4. Promise!Acceptable(Taker.order) = {}
            BY <1>1, <1>2, <3>2, <3>3, AcceptableIsTakeable
        <3> QED
            BY <3>4 DEF Promise!Exhausted
    <2> QED
        BY <2>1, <2>2
<1>5. Taker' = [Taker EXCEPT !.stage = "over"]
    <2>1. /\ in'.remaining = in.remaining /\ in'.id = in.id /\ in'.side = in.side
          /\ in'.type = in.type /\ in'.price = in.price
        BY <1>1 DEF Rest, Discard, Complete, OnCancel, Order
    <2> QED
        BY <1>1, <2>1 DEF Taker
<1>6. IF in.type = "Limit" /\ in.remaining > 0 /\ in.id \notin Resting(book)
        THEN Promise!Join(Taker.order)
        ELSE UNCHANGED <<RestingOrders, AheadInQueue>>
    <2>1. CASE Rest /\ in.id \notin Resting(book)
        <3>1. PICK c : c = book'
            OBVIOUS
        <3>2. c = Insert(book, in) /\ in.remaining > 0
            BY <2>1, <3>1 DEF Rest
        <3>3. /\ RestingOf(c) = Joined(RestingOf(book), in)
              /\ AheadOf(c) = AheadOf(book) \cup BehindAll(RestingOf(book), in)
            BY <1>1, <2>1, <3>2, InsertView
        <3>4. /\ RestingOrders' = Joined(RestingOrders, in)
              /\ AheadInQueue' = AheadInQueue \cup BehindAll(RestingOrders, in)
            BY <3>1, <3>3, MappedView
        <3>5. Promise!Join(Taker.order)
            BY <1>2, <3>4 DEF Promise!Join, Joined, BehindAll
        <3> QED
            BY <2>1, <3>5 DEF Rest
    <2>2. CASE Rest /\ in.id \in Resting(book)
        <3>1. book' = book
            BY <2>2 DEF Rest, Insert
        <3> QED
            BY <2>2, <3>1, MappedView
    <2>3. CASE Discard \/ Complete
        <3>1. book' = book /\ ~(in.type = "Limit" /\ in.remaining > 0)
            BY <1>1, <2>3 DEF Discard, Complete, Order, Quantity
        <3> QED
            BY <3>1, MappedView
    <2> QED
        BY <2>1, <2>2, <2>3
<1>7. Promise!Finish
    BY <1>2, <1>3, <1>4, <1>5, <1>6 DEF Promise!Finish
<1> QED
    BY <1>7 DEF Promise!Next

LEMMA ReturnImplements ==
    ASSUME Return
    PROVE  Promise!Next
<1>1. phase = "done" /\ phase' = "idle" /\ book' = book
    BY DEF Return
<1>2. Taker.stage = "over" /\ Taker' = Promise!Nobody
    BY <1>1 DEF Taker, Promise!Nobody
<1>3. UNCHANGED <<RestingOrders, AheadInQueue>>
    BY <1>1, MappedView
<1>4. Promise!Leave
    BY <1>2, <1>3 DEF Promise!Leave
<1> QED
    BY <1>4 DEF Promise!Next

LEMMA StepImplements ==
    ASSUME IInv, [Next]_engineVars
    PROVE  [Promise!Next]_(Promise!vars)
<1>1. CASE \E o \in Submission : Submit(o)
    BY <1>1, SubmitImplements
<1>2. CASE \E id \in OrderId : Cancel(id)
    BY <1>2, CancelImplements
<1>3. CASE Trade
    BY <1>3, TradeImplements
<1>4. CASE Settle
    BY <1>4, SettleImplements
<1>5. CASE Rest \/ Discard \/ Complete
    BY <1>5, EndImplements
<1>6. CASE Return
    BY <1>6, ReturnImplements
<1>7. CASE UNCHANGED engineVars
    <2>1. book' = book /\ in' = in /\ phase' = phase
        BY <1>7 DEF engineVars
    <2> QED
        BY <2>1, MappedView DEF Promise!vars, Taker
<1> QED
    BY <1>1, <1>2, <1>3, <1>4, <1>5, <1>6, <1>7 DEF Next, Step

LEMMA InitImplements == Init => Promise!Init
<1> SUFFICES ASSUME Init PROVE Promise!Init
    OBVIOUS
<1>1. book = EmptyBook /\ phase = "idle"
    BY DEF Init
<1>2. Live(book) = {}
    BY <1>1 DEF Live, Resting, EmptyBook
<1>3. RestingOrders = << >> /\ AheadInQueue = {}
    BY <1>2, MappedView DEF RestingOf, AheadOf
<1>4. Taker = Promise!Nobody
    BY <1>1 DEF Taker, Promise!Nobody
<1> QED
    BY <1>3, <1>4 DEF Promise!Init

\* The engine is a price-time priority book: whatever is submitted or cancelled,
\* each of its steps is a step of PriceTimeBook under the mapping or leaves the
\* abstract book alone.
THEOREM EngineIsAPriceTimeBook == Spec => ImplementsPriceTimeBook
<1>1. Init => Promise!Init
    BY InitImplements
<1>2. IInv /\ [Next]_engineVars => [Promise!Next]_(Promise!vars)
    BY StepImplements
<1> QED
    BY <1>1, <1>2, InductiveInvariant, PTL DEF Spec, ImplementsPriceTimeBook, Promise!Spec
=============================================================================
