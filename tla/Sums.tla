-------------------------------- MODULE Sums --------------------------------
(***************************************************************************)
(* Sums over finite sets, as SumFunctionOnSet computes them, and the two   *)
(* inductions they need: on naturals and on finite sets, stated for sets   *)
(* of numbers and of sets and not for predicates.                          *)
(***************************************************************************)
EXTENDS Functions, FiniteSetTheorems, TLAPS

LEMMA NatHasMin ==
    ASSUME NEW T \in SUBSET Nat, T # {}
    PROVE  \E n \in T : \A m \in T : n <= m
<1>1. \E n \in T : \A m \in T : ~(<<m, n>> \in OpToRel(<, Nat))
  BY NatLessThanWellFounded, WFMin
<1>2. PICK n \in T : \A m \in T : ~(<<m, n>> \in OpToRel(<, Nat))
  BY <1>1
<1>3. ASSUME NEW m \in T PROVE n <= m
  <2>1. ~(m < n)
    BY <1>2 DEF OpToRel
  <2>. QED  BY <2>1
<1>. QED  BY <1>3

\* A set of naturals that contains 0 and every successor is all of them.
LEMMA NatInductive ==
    ASSUME NEW T, 0 \in T, \A n \in Nat : n \in T => n + 1 \in T
    PROVE  Nat \subseteq T
<1>1. SUFFICES ASSUME Nat \ T # {} PROVE FALSE
  OBVIOUS
<1>2. PICK n \in Nat \ T : \A m \in Nat \ T : n <= m
  BY <1>1, NatHasMin
<1>3. n - 1 \in Nat /\ ~(n <= n - 1)
  BY <1>2
<1>4. n - 1 \in T
  BY <1>2, <1>3
<1>. QED  BY <1>2, <1>3, <1>4

\* A family that contains {}, and a set whenever it contains what is left of
\* it without any one element, contains every finite set.
LEMMA FiniteInductive ==
    ASSUME NEW S, IsFiniteSet(S), NEW Family, {} \in Family,
           \A T \in SUBSET S :
              T # {} /\ (\A x \in T : T \ {x} \in Family) => T \in Family
    PROVE  S \in Family
<1>. DEFINE Sizes == {n \in Nat : \A T \in SUBSET S :
                         Cardinality(T) = n => T \in Family}
<1>1. \A T \in SUBSET S : IsFiniteSet(T) /\ Cardinality(T) \in Nat
  BY FS_Subset, FS_CardinalityType
<1>2. 0 \in Sizes
  BY <1>1, FS_EmptySet
<1>3. ASSUME NEW n \in Nat, n \in Sizes PROVE n + 1 \in Sizes
  <2>1. SUFFICES ASSUME NEW T \in SUBSET S, Cardinality(T) = n + 1
                 PROVE  T \in Family
    OBVIOUS
  <2>2. T # {}
    <3>1. Cardinality({}) = 0
      BY FS_EmptySet
    <3>2. n + 1 # 0
      OBVIOUS
    <3>. QED  BY <2>1, <3>1, <3>2
  <2>3. ASSUME NEW x \in T PROVE T \ {x} \in Family
    <3>1. Cardinality(T \ {x}) = Cardinality(T) - 1
      BY <1>1, FS_RemoveElement
    <3>2. T \ {x} \in SUBSET S /\ Cardinality(T \ {x}) = n
      BY <2>1, <3>1
    <3>. QED  BY <1>3, <3>2
  <2>. QED  BY <2>2, <2>3
<1>4. Nat \subseteq Sizes
  <2>. HIDE DEF Sizes
  <2>. QED  BY <1>2, <1>3, NatInductive
<1>. QED
  BY <1>1, <1>4

LEMMA ImageFinite ==
    ASSUME NEW f, NEW S, IsFiniteSet(S)
    PROVE  IsFiniteSet({f[x] : x \in S})
<1>1. [x \in S |-> f[x]] \in Surjection(S, {f[x] : x \in S})
  BY DEF Surjection
<1>. QED  BY <1>1, FS_Surjection

----------------------------------------------------------------------------
(* What SumFunctionOnSet computes *)

\* The element the sum takes out of a set next.
Chosen(s) == CHOOSE x \in s : TRUE

\* g sums f over the subsets of S, one chosen element after the other.
IsSummation(f, S, g) ==
    g = [s \in SUBSET S |->
            IF s = {} THEN 0 ELSE f[Chosen(s)] + g[s \ {Chosen(s)}]]

LEMMA SummationExists ==
    ASSUME NEW f, NEW S, IsFiniteSet(S)
    PROVE  \E g : IsSummation(f, S, g)
<1>. DEFINE Next(g) == [s \in SUBSET S |->
                IF s = {} THEN 0 ELSE f[Chosen(s)] + g[s \ {Chosen(s)}]]
            UpTo(n, g) == \A s \in SUBSET S :
                              Cardinality(s) <= n => g[s] = Next(g)[s]
            Sizes == {n \in Nat : \E g : UpTo(n, Next(g))}
<1>1. \A s \in SUBSET S : IsFiniteSet(s) /\ Cardinality(s) \in Nat
  BY FS_Subset, FS_CardinalityType
<1>2. \A s \in SUBSET S : s # {} =>
          /\ s \ {Chosen(s)} \in SUBSET S
          /\ Cardinality(s \ {Chosen(s)}) + 1 = Cardinality(s)
  <2>1. SUFFICES ASSUME NEW s \in SUBSET S, s # {}
                 PROVE  Cardinality(s \ {Chosen(s)}) + 1 = Cardinality(s)
    OBVIOUS
  <2>2. Chosen(s) \in s
    BY <2>1 DEF Chosen
  <2>. QED  BY <1>1, <2>2, FS_RemoveElement
<1>3. 0 \in Sizes
  <2>1. \A s \in SUBSET S : Cardinality(s) <= 0 => s = {}
    BY <1>1, FS_EmptySet
  <2>2. UpTo(0, Next(f))
    BY <2>1
  <2>. QED  BY <2>2
<1>4. ASSUME NEW n \in Nat, n \in Sizes PROVE n + 1 \in Sizes
  <2>1. PICK g : UpTo(n, Next(g))
    BY <1>4
  <2>. DEFINE h == Next(g)
  <2>2. ASSUME NEW s \in SUBSET S, Cardinality(s) <= n + 1
        PROVE  Next(h)[s] = Next(Next(h))[s]
    <3>1. CASE s = {}
      BY <3>1
    <3>2. CASE s # {}
      <4>. DEFINE t == s \ {Chosen(s)}
      <4>1. t \in SUBSET S /\ Cardinality(t) <= n
        BY <1>1, <1>2, <2>2, <3>2
      <4>2. h[t] = Next(h)[t]
        BY <2>1, <4>1
      <4>3. /\ Next(h)[s] = f[Chosen(s)] + h[t]
            /\ Next(Next(h))[s] = f[Chosen(s)] + Next(h)[t]
        <5>. HIDE DEF h
        <5>. QED  BY <3>2, <4>1
      <4>. QED  BY <4>2, <4>3
    <3>. QED  BY <3>1, <3>2
  <2>3. UpTo(n + 1, Next(h))
    BY <2>2
  <2>4. \E k : UpTo(n + 1, Next(k))
    <3>. HIDE DEF UpTo, Next
    <3>. QED  BY <2>3 DEF h
  <2>. QED
    <3>. HIDE DEF UpTo, Next
    <3>. QED  BY <2>4
<1>5. Nat \subseteq Sizes
  <2>. HIDE DEF Sizes
  <2>. QED  BY <1>3, <1>4, NatInductive
<1>6. Cardinality(S) \in Sizes
  BY <1>1, <1>5
<1>7. PICK g : UpTo(Cardinality(S), Next(g))
  BY <1>6
<1>8. \A s \in SUBSET S : Next(g)[s] = Next(Next(g))[s]
  BY <1>1, <1>7, FS_Subset
<1>9. Next(g) = Next(Next(g))
  BY <1>8
<1>. QED  BY <1>9 DEF IsSummation

LEMMA SumIsSummation ==
    ASSUME NEW f, NEW S
    PROVE  SumFunctionOnSet(f, S) = (CHOOSE g : IsSummation(f, S, g))[S]
BY DEF SumFunctionOnSet, FoldFunctionOnSet, MapThenFoldSet, IsSummation, Chosen

\* Two summations agree on the sets both of them reach.
LEMMA SummationUnique ==
    ASSUME NEW f, NEW S, NEW T \in SUBSET S, IsFiniteSet(T),
           NEW g, IsSummation(f, S, g), NEW h, IsSummation(f, T, h)
    PROVE  g[T] = h[T]
<1>. DEFINE Agreed == {s \in SUBSET T : g[s] = h[s]}
<1>1. {} \in Agreed
  BY DEF IsSummation
<1>2. ASSUME NEW s \in SUBSET T, s # {}, \A x \in s : s \ {x} \in Agreed
      PROVE  s \in Agreed
  <2>1. Chosen(s) \in s
    BY <1>2 DEF Chosen
  <2>2. g[s \ {Chosen(s)}] = h[s \ {Chosen(s)}]
    BY <1>2, <2>1
  <2>3. s \in SUBSET S
    OBVIOUS
  <2>4. g[s] = f[Chosen(s)] + g[s \ {Chosen(s)}]
    BY <1>2, <2>3 DEF IsSummation
  <2>5. h[s] = f[Chosen(s)] + h[s \ {Chosen(s)}]
    BY <1>2 DEF IsSummation
  <2>. QED  BY <2>2, <2>4, <2>5
<1>3. T \in Agreed
  <2>. HIDE DEF Agreed
  <2>. QED  BY <1>1, <1>2, FiniteInductive
<1>. QED  BY <1>3

LEMMA SumOfSubset ==
    ASSUME NEW f, NEW S, IsFiniteSet(S), NEW T \in SUBSET S,
           NEW g, IsSummation(f, S, g)
    PROVE  g[T] = SumFunctionOnSet(f, T)
<1>. DEFINE h == CHOOSE k : IsSummation(f, T, k)
<1>1. IsFiniteSet(T)
  BY FS_Subset
<1>2. IsSummation(f, T, h)
  BY <1>1, SummationExists
<1>3. SumFunctionOnSet(f, T) = h[T]
  BY SumIsSummation
<1>. HIDE DEF h
<1>. QED  BY <1>1, <1>2, <1>3, SummationUnique

LEMMA SumOfNothing ==
    ASSUME NEW f
    PROVE  SumFunctionOnSet(f, {}) = 0
<1>1. IsFiniteSet({})
  BY FS_EmptySet
<1>2. PICK g : IsSummation(f, {}, g)
  BY <1>1, SummationExists
<1>3. g[{}] = SumFunctionOnSet(f, {})
  BY <1>1, <1>2, SumOfSubset
<1>4. g[{}] = 0
  BY <1>2 DEF IsSummation
<1>. QED  BY <1>3, <1>4

LEMMA SumOfChosen ==
    ASSUME NEW f, NEW S, IsFiniteSet(S), S # {}
    PROVE  /\ Chosen(S) \in S
           /\ SumFunctionOnSet(f, S) =
                 f[Chosen(S)] + SumFunctionOnSet(f, S \ {Chosen(S)})
<1>1. Chosen(S) \in S
  BY DEF Chosen
<1>2. PICK g : IsSummation(f, S, g)
  BY SummationExists
<1>3. g[S] = f[Chosen(S)] + g[S \ {Chosen(S)}]
  BY <1>2 DEF IsSummation
<1>4. g[S] = SumFunctionOnSet(f, S)
  BY <1>2, SumOfSubset
<1>5. g[S \ {Chosen(S)}] = SumFunctionOnSet(f, S \ {Chosen(S)})
  BY <1>2, SumOfSubset
<1>. QED  BY <1>1, <1>3, <1>4, <1>5

----------------------------------------------------------------------------
(* The facts the proofs cite *)

LEMMA SumTyped ==
    ASSUME NEW f, NEW S, IsFiniteSet(S), \A x \in S : f[x] \in Int
    PROVE  SumFunctionOnSet(f, S) \in Int
<1>. DEFINE Typed == {T \in SUBSET S : SumFunctionOnSet(f, T) \in Int}
<1>1. {} \in Typed
  BY SumOfNothing
<1>2. ASSUME NEW T \in SUBSET S, T # {}, \A x \in T : T \ {x} \in Typed
      PROVE  T \in Typed
  <2>1. IsFiniteSet(T)
    BY FS_Subset
  <2>2. /\ Chosen(T) \in T
        /\ SumFunctionOnSet(f, T) =
              f[Chosen(T)] + SumFunctionOnSet(f, T \ {Chosen(T)})
    BY <1>2, <2>1, SumOfChosen
  <2>. QED  BY <1>2, <2>2
<1>3. S \in Typed
  <2>. HIDE DEF Typed
  <2>. QED  BY <1>1, <1>2, FiniteInductive
<1>. QED  BY <1>3

LEMMA SumOfZeros ==
    ASSUME NEW f, NEW S, IsFiniteSet(S), \A x \in S : f[x] = 0
    PROVE  SumFunctionOnSet(f, S) = 0
<1> DEFINE Zero == {T \in SUBSET S : SumFunctionOnSet(f, T) = 0}
<1>1. {} \in Zero
  BY SumOfNothing
<1>2. ASSUME NEW T \in SUBSET S, T # {}, \A x \in T : T \ {x} \in Zero
      PROVE  T \in Zero
  <2>1. IsFiniteSet(T)
    BY FS_Subset
  <2>2. /\ Chosen(T) \in T
        /\ SumFunctionOnSet(f, T) =
              f[Chosen(T)] + SumFunctionOnSet(f, T \ {Chosen(T)})
    BY <1>2, <2>1, SumOfChosen
  <2>3. SumFunctionOnSet(f, T \ {Chosen(T)}) = 0 /\ f[Chosen(T)] = 0
    BY <1>2, <2>2
  <2>. QED  BY <2>2, <2>3
<1>. HIDE DEF Zero
<1>3. S \in Zero
  BY <1>1, <1>2, FiniteInductive
<1>. QED  BY <1>3 DEF Zero

\* The order in which the elements are added does not matter.
LEMMA SumRemove ==
    ASSUME NEW f, NEW S, IsFiniteSet(S), \A x \in S : f[x] \in Int,
           NEW x \in S
    PROVE  SumFunctionOnSet(f, S) = f[x] + SumFunctionOnSet(f, S \ {x})
<1>. DEFINE Sum(T) == SumFunctionOnSet(f, T)
            Free == {T \in SUBSET S :
                        \A y \in T : Sum(T) = f[y] + Sum(T \ {y})}
<1>0. \A T \in SUBSET S : IsFiniteSet(T) /\ Sum(T) \in Int
  BY FS_Subset, SumTyped
<1>1. {} \in Free
  OBVIOUS
<1>2. ASSUME NEW T \in SUBSET S, T # {}, \A y \in T : T \ {y} \in Free
      PROVE  T \in Free
  <2>. DEFINE c == Chosen(T)
  <2>1. c \in T /\ Sum(T) = f[c] + Sum(T \ {c})
    BY <1>0, <1>2, SumOfChosen
  <2>. HIDE DEF c, Sum
  <2>2. ASSUME NEW y \in T, y # c
        PROVE  Sum(T) = f[y] + Sum(T \ {y})
    <3>1. Sum(T \ {c}) = f[y] + Sum((T \ {c}) \ {y})
      BY <1>2, <2>1, <2>2
    <3>2. Sum(T \ {y}) = f[c] + Sum((T \ {y}) \ {c})
      BY <1>2, <2>1, <2>2
    <3>3. (T \ {c}) \ {y} = (T \ {y}) \ {c}
      OBVIOUS
    <3>4. /\ f[y] \in Int /\ f[c] \in Int
          /\ Sum((T \ {y}) \ {c}) \in Int
      BY <1>0, <2>1
    <3>5. \A a, b, z \in Int : a + (b + z) = b + (a + z)
      OBVIOUS
    <3>6. Sum(T) = f[c] + (f[y] + Sum((T \ {y}) \ {c}))
      BY <2>1, <3>1, <3>3
    <3>7. Sum(T) = f[y] + (f[c] + Sum((T \ {y}) \ {c}))
      BY <3>4, <3>5, <3>6
    <3>. QED  BY <3>2, <3>7
  <2>. QED  BY <2>1, <2>2
<1>3. S \in Free
  <2>. HIDE DEF Free
  <2>. QED  BY <1>1, <1>2, FiniteInductive
<1>. QED  BY <1>3

LEMMA SumAdd ==
    ASSUME NEW f, NEW S, IsFiniteSet(S), NEW x, x \notin S,
           \A y \in S \cup {x} : f[y] \in Int
    PROVE  SumFunctionOnSet(f, S \cup {x}) = f[x] + SumFunctionOnSet(f, S)
<1>1. IsFiniteSet(S \cup {x}) /\ (S \cup {x}) \ {x} = S
  BY FS_AddElement
<1>2. SumFunctionOnSet(f, S \cup {x}) =
          f[x] + SumFunctionOnSet(f, (S \cup {x}) \ {x})
  BY <1>1, SumRemove
<1>. QED  BY <1>1, <1>2

\* A sum depends on the values of its elements only.
LEMMA SumAgree ==
    ASSUME NEW f, NEW g, NEW S, IsFiniteSet(S), \A x \in S : f[x] = g[x]
    PROVE  SumFunctionOnSet(f, S) = SumFunctionOnSet(g, S)
<1>. DEFINE Same == {T \in SUBSET S :
                        SumFunctionOnSet(f, T) = SumFunctionOnSet(g, T)}
<1>1. {} \in Same
  BY SumOfNothing
<1>2. ASSUME NEW T \in SUBSET S, T # {}, \A x \in T : T \ {x} \in Same
      PROVE  T \in Same
  <2>1. IsFiniteSet(T)
    BY FS_Subset
  <2>2. /\ Chosen(T) \in T
        /\ SumFunctionOnSet(f, T) =
              f[Chosen(T)] + SumFunctionOnSet(f, T \ {Chosen(T)})
        /\ SumFunctionOnSet(g, T) =
              g[Chosen(T)] + SumFunctionOnSet(g, T \ {Chosen(T)})
    BY <1>2, <2>1, SumOfChosen
  <2>. QED  BY <1>2, <2>2
<1>3. S \in Same
  <2>. HIDE DEF Same
  <2>. QED  BY <1>1, <1>2, FiniteInductive
<1>. QED  BY <1>3

\* One element enters, leaves or changes its value.
LEMMA SumReplaced ==
    ASSUME NEW f, NEW g, NEW S, NEW T, IsFiniteSet(S), IsFiniteSet(T),
           NEW x, S \ {x} = T \ {x},
           \A y \in S : f[y] \in Int, \A y \in T : g[y] \in Int,
           \A y \in S \ {x} : f[y] = g[y]
    PROVE  /\ SumFunctionOnSet(g, T) =
                 SumFunctionOnSet(f, S) + (IF x \in T THEN g[x] ELSE 0)
                                        - (IF x \in S THEN f[x] ELSE 0)
           /\ SumFunctionOnSet(f, S) \in Int
           /\ SumFunctionOnSet(g, T) \in Int
<1>. DEFINE rest == SumFunctionOnSet(f, S \ {x})
<1>1. /\ IsFiniteSet(S \ {x})
      /\ \A y \in S \ {x} : f[y] \in Int
  BY FS_RemoveElement
<1>2. /\ rest \in Int
      /\ rest = SumFunctionOnSet(g, T \ {x})
  BY <1>1, SumTyped, SumAgree
<1>. HIDE DEF rest
<1>3. SumFunctionOnSet(f, S) = (IF x \in S THEN f[x] ELSE 0) + rest
  <2>1. CASE x \in S
    BY <2>1, SumRemove DEF rest
  <2>2. CASE x \notin S
    <3>1. S \ {x} = S
      BY <2>2
    <3>2. SumFunctionOnSet(f, S) = rest
      BY <3>1 DEF rest
    <3>. QED  BY <1>2, <2>2, <3>2
  <2>. QED  BY <2>1, <2>2
<1>4. SumFunctionOnSet(g, T) = (IF x \in T THEN g[x] ELSE 0) + rest
  <2>1. CASE x \in T
    BY <1>2, <2>1, SumRemove
  <2>2. CASE x \notin T
    <3>1. T \ {x} = T
      BY <2>2
    <3>2. SumFunctionOnSet(g, T) = rest
      BY <1>2, <3>1
    <3>. QED  BY <1>2, <2>2, <3>2
  <2>. QED  BY <2>1, <2>2
<1>5. /\ (IF x \in S THEN f[x] ELSE 0) \in Int
      /\ (IF x \in T THEN g[x] ELSE 0) \in Int
  OBVIOUS
<1>. QED  BY <1>2, <1>3, <1>4, <1>5

\* Nothing negative is added: no part of a sum exceeds the whole.
LEMMA SumMonotone ==
    ASSUME NEW f, NEW S, IsFiniteSet(S), NEW T \in SUBSET S,
           \A x \in S : f[x] \in Nat
    PROVE  /\ SumFunctionOnSet(f, T) \in Nat
           /\ SumFunctionOnSet(f, S) \in Nat
           /\ SumFunctionOnSet(f, T) <= SumFunctionOnSet(f, S)
<1>. DEFINE Sum(U) == SumFunctionOnSet(f, U)
            Above == {U \in SUBSET S :
                         \A V \in SUBSET U : /\ Sum(V) \in Nat
                                              /\ Sum(U) \in Nat
                                              /\ Sum(V) <= Sum(U)}
<1>1. {} \in Above
  BY SumOfNothing
<1>2. ASSUME NEW U \in SUBSET S, U # {}, \A x \in U : U \ {x} \in Above
      PROVE  U \in Above
  <2>1. IsFiniteSet(U)
    BY FS_Subset
  <2>2. \A x \in U : Sum(U) = f[x] + Sum(U \ {x})
    BY <2>1, SumRemove
  <2>. HIDE DEF Sum
  <2>3. \A x \in U : f[x] \in Nat /\ Sum(U \ {x}) \in Nat
    BY <1>2
  <2>4. Sum(U) \in Nat
    <3>1. PICK x \in U : TRUE
      BY <1>2
    <3>2. Sum(U) = f[x] + Sum(U \ {x})
      BY <2>2
    <3>3. f[x] \in Nat /\ Sum(U \ {x}) \in Nat
      BY <2>3
    <3>. QED  BY <3>2, <3>3
  <2>5. ASSUME NEW V \in SUBSET U, V # U
        PROVE  Sum(V) \in Nat /\ Sum(V) <= Sum(U)
    <3>1. PICK x \in U : x \notin V
      BY <2>5
    <3>2. V \in SUBSET (U \ {x})
      BY <3>1
    <3>3. Sum(V) \in Nat /\ Sum(V) <= Sum(U \ {x})
      BY <1>2, <3>1, <3>2
    <3>4. Sum(U) = f[x] + Sum(U \ {x})
      BY <2>2
    <3>5. f[x] \in Nat /\ Sum(U \ {x}) \in Nat
      BY <2>3
    <3>. QED  BY <3>3, <3>4, <3>5
  <2>. QED  BY <2>4, <2>5
<1>3. S \in Above
  <2>. HIDE DEF Above
  <2>. QED  BY <1>1, <1>2, FiniteInductive
<1>. QED  BY <1>3
==============================================================================
