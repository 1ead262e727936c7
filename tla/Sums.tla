--------------------------------- MODULE Sums ---------------------------------
(***************************************************************************)
(* What a sum over a finite set is, for proofs: SumFunctionOnSet picks the *)
(* elements in an order of its own; it is shown that the order does not    *)
(* matter, so that one element can be added, dropped or changed at a time. *)
(* Inductions are over sets of what has been shown, which keeps them       *)
(* within first-order logic.                                               *)
(***************************************************************************)
EXTENDS Integers, FiniteSets, Functions, FiniteSetTheorems, WellFoundedInduction, TLAPS

-------------------------------------------------------------------------------
(* Induction *)

\* A set of numbers that holds 0 and the successors of its members holds them all.
LEMMA CountInduction ==
  ASSUME NEW G, 0 \in G, \A n \in Nat : n \in G => n + 1 \in G
  PROVE  \A n \in Nat : n \in G
<1> DEFINE below == OpToRel(<, Nat)
           missing == Nat \ G
<1> SUFFICES ASSUME missing # {} PROVE FALSE
  OBVIOUS
<1>1. \A x, y \in Nat : y < x => <<y, x>> \in below
  BY DEF OpToRel
<1>2. IsWellFoundedOn(below, Nat)
  BY NatLessThanWellFounded
<1> HIDE DEF below
<1>3. PICK m \in missing : \A y \in missing : <<y, m>> \notin below
  BY <1>2, WFMin
<1>4. m \in Nat /\ m # 0 /\ m \notin G
  BY <1>3
<1>5. m - 1 \in Nat /\ (m - 1) + 1 = m /\ m - 1 < m
  BY <1>4
<1>6. m - 1 \in G
  BY <1>1, <1>3, <1>4, <1>5
<1> QED BY <1>4, <1>5, <1>6

\* A collection of sets that holds a finite set whenever it holds its smaller subsets
\* holds them all.
LEMMA SubsetInduction ==
  ASSUME NEW S, IsFiniteSet(S), NEW G,
         \A T \in SUBSET S : (\A U \in SUBSET T : U # T => U \in G) => T \in G
  PROVE  \A T \in SUBSET S : T \in G
<1> DEFINE shown == {n \in Nat : \A T \in SUBSET S : Cardinality(T) <= n => T \in G}
<1>1. \A T \in SUBSET S : /\ IsFiniteSet(T) /\ Cardinality(T) \in Nat
                          /\ \A U \in SUBSET T : U # T => Cardinality(U) < Cardinality(T)
  <2> SUFFICES ASSUME NEW T \in SUBSET S
               PROVE  /\ IsFiniteSet(T) /\ Cardinality(T) \in Nat
                      /\ \A U \in SUBSET T : U # T => Cardinality(U) < Cardinality(T)
    OBVIOUS
  <2>1. IsFiniteSet(T)
    BY FS_Subset
  <2>2. Cardinality(T) \in Nat
    BY <2>1, FS_CardinalityType
  <2>3. ASSUME NEW U \in SUBSET T, U # T PROVE Cardinality(U) < Cardinality(T)
    <3>1. /\ IsFiniteSet(U) /\ Cardinality(U) <= Cardinality(T)
          /\ Cardinality(U) # Cardinality(T)
      BY <2>1, <2>3, FS_Subset
    <3>2. Cardinality(U) \in Nat
      BY <3>1, FS_CardinalityType
    <3> QED BY <2>2, <3>1, <3>2
  <2> QED BY <2>1, <2>2, <2>3
<1>2. 0 \in shown
  <2> SUFFICES ASSUME NEW T \in SUBSET S, Cardinality(T) <= 0 PROVE T \in G
    OBVIOUS
  <2>1. \A U \in SUBSET T : Cardinality(U) \in Nat
    BY <1>1
  <2>2. \A U \in SUBSET T : U = T
    BY <1>1, <2>1
  <2> QED BY <2>2
<1>3. ASSUME NEW n \in Nat, n \in shown PROVE n + 1 \in shown
  <2> SUFFICES ASSUME NEW T \in SUBSET S, Cardinality(T) <= n + 1 PROVE T \in G
    OBVIOUS
  <2>1. \A U \in SUBSET T : U # T => Cardinality(U) <= n
    BY <1>1
  <2>2. \A U \in SUBSET T : U # T => U \in G
    BY <1>3, <2>1
  <2> QED BY <2>2
<1>4. \A n \in Nat : n \in shown
  <2> HIDE DEF shown
  <2> QED BY <1>2, <1>3, CountInduction
<1> QED BY <1>1, <1>4

-------------------------------------------------------------------------------
(* The sums exist *)

\* The element of s the definition takes first.
FirstOf(s) == CHOOSE x \in s : TRUE

\* The function over the subsets of S by which the sum is defined, for those of T.
SumsOver(g, f, T) ==
  g = [s \in T |-> IF s = {} THEN 0 ELSE f[FirstOf(s)] + g[s \ {FirstOf(s)}]]

\* SumFunctionOnSet(f, S) is the value at S of the function so defined.
LEMMA SumIsChosen ==
  ASSUME NEW f, NEW S
  PROVE  SumFunctionOnSet(f, S) = (CHOOSE g : SumsOver(g, f, SUBSET S))[S]
BY DEF SumFunctionOnSet, FoldFunctionOnSet, MapThenFoldSet, SumsOver, FirstOf

\* The element taken first is one of the set.
LEMMA FirstOfIsIn == ASSUME NEW s, s # {} PROVE FirstOf(s) \in s
BY DEF FirstOf

\* There is such a function over the subsets of a finite set: the CHOOSE chooses it.
LEMMA SumsExist ==
  ASSUME NEW f, NEW S, IsFiniteSet(S)
  PROVE  \E g : SumsOver(g, f, SUBSET S)
<1> DEFINE small(n) == {s \in SUBSET S : Cardinality(s) <= n}
           shown == {n \in Nat : \E g : SumsOver(g, f, small(n))}
<1>1. \A s \in SUBSET S : /\ IsFiniteSet(s) /\ Cardinality(s) \in Nat
                          /\ s # {} => Cardinality(s \ {FirstOf(s)}) = Cardinality(s) - 1
                          /\ Cardinality(s) = 0 => s = {}
  <2> SUFFICES ASSUME NEW s \in SUBSET S
               PROVE  /\ IsFiniteSet(s) /\ Cardinality(s) \in Nat
                      /\ s # {} => Cardinality(s \ {FirstOf(s)}) = Cardinality(s) - 1
                      /\ Cardinality(s) = 0 => s = {}
    OBVIOUS
  <2>1. IsFiniteSet(s)
    BY FS_Subset
  <2>2. Cardinality(s) \in Nat
    BY <2>1, FS_CardinalityType
  <2>3. s # {} => Cardinality(s \ {FirstOf(s)}) = Cardinality(s) - 1
    BY <2>1, FirstOfIsIn, FS_RemoveElement
  <2>4. Cardinality(s) = 0 => s = {}
    BY <2>1, FS_EmptySet
  <2> QED BY <2>1, <2>2, <2>3, <2>4
<1>2. 0 \in shown
  <2>1. ASSUME NEW s \in small(0) PROVE s = {}
    <3>1. Cardinality(s) \in Nat /\ Cardinality(s) <= 0
      BY <1>1
    <3>2. Cardinality(s) = 0
      BY <3>1
    <3> QED BY <1>1, <3>2
  <2>2. SumsOver([s \in small(0) |-> 0], f, small(0))
    <3> HIDE DEF small
    <3> QED BY <2>1 DEF SumsOver
  <2> QED BY <2>2
<1>3. ASSUME NEW n \in Nat, n \in shown PROVE n + 1 \in shown
  <2>1. PICK g : SumsOver(g, f, small(n))
    BY <1>3
  <2> DEFINE h == [s \in small(n + 1) |->
                     IF s = {} THEN 0 ELSE f[FirstOf(s)] + g[s \ {FirstOf(s)}]]
  <2>2. small(n) \subseteq small(n + 1)
    <3>1. \A c \in Nat : c <= n => c <= n + 1
      OBVIOUS
    <3> QED BY <1>1, <3>1
  <2>3. ASSUME NEW s \in small(n + 1), s # {} PROVE s \ {FirstOf(s)} \in small(n)
    <3>1. /\ Cardinality(s) \in Nat /\ Cardinality(s) <= n + 1
          /\ Cardinality(s \ {FirstOf(s)}) = Cardinality(s) - 1
      BY <1>1, <2>3
    <3>2. Cardinality(s) - 1 <= n
      BY <3>1
    <3> QED BY <3>1, <3>2
  <2>4. SumsOver(h, f, small(n + 1))
    <3> HIDE DEF small
    <3>1. \A s \in small(n) : h[s] = g[s]
      BY <2>1, <2>2 DEF SumsOver
    <3>2. \A s \in small(n + 1) : s # {} => h[s \ {FirstOf(s)}] = g[s \ {FirstOf(s)}]
      BY <2>3, <3>1
    <3> QED BY <3>2 DEF SumsOver
  <2>5. \E k : SumsOver(k, f, small(n + 1))
    <3> HIDE DEF h, small
    <3> QED BY <2>4
  <2> HIDE DEF h, small
  <2> QED BY <2>5
<1>4. \A n \in Nat : n \in shown
  <2> HIDE DEF shown
  <2> QED BY <1>2, <1>3, CountInduction
<1>5. small(Cardinality(S)) = SUBSET S
  <2>1. \A s \in SUBSET S : Cardinality(s) <= Cardinality(S)
    BY FS_Subset
  <2> QED BY <2>1
<1> QED BY <1>1, <1>4, <1>5

\* They agree where what they sum agrees.
LEMMA SumsAgree ==
  ASSUME NEW f, NEW e, NEW S, NEW T, NEW g, NEW h,
         SumsOver(g, f, SUBSET S), SumsOver(h, e, SUBSET T),
         NEW A, IsFiniteSet(A), A \subseteq S, A \subseteq T, \A x \in A : f[x] = e[x]
  PROVE  g[A] = h[A]
<1> DEFINE shown == {s \in SUBSET A : g[s] = h[s]}
<1>1. ASSUME NEW s \in SUBSET A, \A U \in SUBSET s : U # s => U \in shown
      PROVE  s \in shown
  <2>1. s \in SUBSET S /\ s \in SUBSET T
    OBVIOUS
  <2>2. CASE s = {}
    BY <2>1, <2>2 DEF SumsOver
  <2>3. CASE s # {}
    <3>1. FirstOf(s) \in s
      BY <2>3, FirstOfIsIn
    <3>2. g[s \ {FirstOf(s)}] = h[s \ {FirstOf(s)}]
      BY <1>1, <3>1
    <3>3. /\ g[s] = f[FirstOf(s)] + g[s \ {FirstOf(s)}]
          /\ h[s] = e[FirstOf(s)] + h[s \ {FirstOf(s)}]
      BY <2>1, <2>3 DEF SumsOver
    <3> QED BY <3>1, <3>2, <3>3
  <2> QED BY <2>2, <2>3
<1>2. \A s \in SUBSET A : s \in shown
  <2> HIDE DEF shown
  <2> QED BY <1>1, SubsetInduction
<1> QED BY <1>2

-------------------------------------------------------------------------------
(* What is used of them *)

\* Only the values over the set matter.
LEMMA SumSame ==
  ASSUME NEW f, NEW e, NEW S, IsFiniteSet(S), \A x \in S : f[x] = e[x]
  PROVE  SumFunctionOnSet(f, S) = SumFunctionOnSet(e, S)
<1> DEFINE g == CHOOSE g : SumsOver(g, f, SUBSET S)
           h == CHOOSE h : SumsOver(h, e, SUBSET S)
<1>1. SumsOver(g, f, SUBSET S) /\ SumsOver(h, e, SUBSET S)
  BY SumsExist
<1> HIDE DEF g, h
<1>2. g[S] = h[S]
  BY <1>1, SumsAgree
<1> QED BY <1>2, SumIsChosen DEF g, h

\* Nothing sums to nothing.
LEMMA SumNothing == ASSUME NEW f PROVE SumFunctionOnSet(f, {}) = 0
<1> DEFINE g == CHOOSE g : SumsOver(g, f, SUBSET {})
<1>1. SumsOver(g, f, SUBSET {})
  BY SumsExist, FS_EmptySet
<1> HIDE DEF g
<1>2. g[{}] = 0
  BY <1>1 DEF SumsOver
<1> QED BY <1>2, SumIsChosen DEF g

\* The definition's own order.
LEMMA SumFirst ==
  ASSUME NEW f, NEW S, IsFiniteSet(S), S # {}
  PROVE  SumFunctionOnSet(f, S) = f[FirstOf(S)] + SumFunctionOnSet(f, S \ {FirstOf(S)})
<1> DEFINE R == S \ {FirstOf(S)}
           g == CHOOSE g : SumsOver(g, f, SUBSET S)
           h == CHOOSE h : SumsOver(h, f, SUBSET R)
<1>1. IsFiniteSet(R)
  BY FS_Subset
<1>2. SumsOver(g, f, SUBSET S) /\ SumsOver(h, f, SUBSET R)
  BY <1>1, SumsExist
<1>3. SumFunctionOnSet(f, S) = g[S] /\ SumFunctionOnSet(f, R) = h[R]
  BY SumIsChosen
<1> HIDE DEF g, h
<1>4. g[R] = h[R]
  <2>1. R \subseteq S
    OBVIOUS
  <2> HIDE DEF R
  <2> QED BY <1>1, <1>2, <2>1, SumsAgree
<1>5. g[S] = f[FirstOf(S)] + g[R]
  BY <1>2 DEF SumsOver
<1> QED BY <1>3, <1>4, <1>5

\* Integers sum to an integer.
LEMMA SumIsInt ==
  ASSUME NEW f, NEW S, IsFiniteSet(S), \A x \in S : f[x] \in Int
  PROVE  SumFunctionOnSet(f, S) \in Int
<1> DEFINE shown == {T \in SUBSET S : SumFunctionOnSet(f, T) \in Int}
<1>1. ASSUME NEW T \in SUBSET S, \A U \in SUBSET T : U # T => U \in shown
      PROVE  T \in shown
  <2>1. CASE T = {}
    BY <2>1, SumNothing
  <2>2. CASE T # {}
    <3>1. IsFiniteSet(T) /\ FirstOf(T) \in T
      BY <2>2, FirstOfIsIn, FS_Subset
    <3>2. SumFunctionOnSet(f, T \ {FirstOf(T)}) \in Int
      BY <1>1, <3>1
    <3> QED BY <2>2, <3>1, <3>2, SumFirst
  <2> QED BY <2>1, <2>2
<1>2. \A T \in SUBSET S : T \in shown
  <2> HIDE DEF shown
  <2> QED BY <1>1, SubsetInduction
<1> QED BY <1>2

\* Any element may be taken first.
LEMMA SumAny ==
  ASSUME NEW f, NEW S, IsFiniteSet(S), \A x \in S : f[x] \in Int
  PROVE  \A x \in S : SumFunctionOnSet(f, S) = f[x] + SumFunctionOnSet(f, S \ {x})
<1> DEFINE shown == {T \in SUBSET S :
             \A x \in T : SumFunctionOnSet(f, T) = f[x] + SumFunctionOnSet(f, T \ {x})}
<1>1. ASSUME NEW T \in SUBSET S, \A U \in SUBSET T : U # T => U \in shown
      PROVE  T \in shown
  <2> SUFFICES ASSUME NEW x \in T
               PROVE  SumFunctionOnSet(f, T) = f[x] + SumFunctionOnSet(f, T \ {x})
    OBVIOUS
  <2> DEFINE p == FirstOf(T)
  <2>1. IsFiniteSet(T) /\ p \in T
    BY FirstOfIsIn, FS_Subset
  <2>2. SumFunctionOnSet(f, T) = f[p] + SumFunctionOnSet(f, T \ {p})
    BY <2>1, SumFirst
  <2> HIDE DEF p
  <2>3. CASE x = p
    BY <2>2, <2>3
  <2>4. CASE x # p
    <3>1. /\ SumFunctionOnSet(f, T \ {p}) = f[x] + SumFunctionOnSet(f, (T \ {p}) \ {x})
          /\ SumFunctionOnSet(f, T \ {x}) = f[p] + SumFunctionOnSet(f, (T \ {x}) \ {p})
      BY <1>1, <2>1, <2>4
    <3>2. (T \ {p}) \ {x} = (T \ {x}) \ {p} /\ IsFiniteSet((T \ {x}) \ {p})
      BY <2>1, FS_Subset
    <3>3. SumFunctionOnSet(f, (T \ {x}) \ {p}) \in Int
      BY <3>2, SumIsInt
    <3>4. f[x] \in Int /\ f[p] \in Int
      BY <2>1
    <3> DEFINE rest == SumFunctionOnSet(f, (T \ {x}) \ {p})
    <3>5. /\ SumFunctionOnSet(f, T) = f[p] + (f[x] + rest)
          /\ SumFunctionOnSet(f, T \ {x}) = f[p] + rest
      BY <2>2, <3>1, <3>2
    <3> HIDE DEF rest
    <3>6. f[p] + (f[x] + rest) = f[x] + (f[p] + rest)
      BY <3>3, <3>4 DEF rest
    <3> QED BY <3>5, <3>6
  <2> QED BY <2>3, <2>4
<1>2. \A T \in SUBSET S : T \in shown
  <2> HIDE DEF shown
  <2> QED BY <1>1, SubsetInduction
<1> QED BY <1>2

-------------------------------------------------------------------------------
(* How a sum changes *)

\* Another element.
LEMMA SumMore ==
  ASSUME NEW f, NEW S, IsFiniteSet(S), NEW x, x \notin S, \A y \in S \cup {x} : f[y] \in Int
  PROVE  SumFunctionOnSet(f, S \cup {x}) = f[x] + SumFunctionOnSet(f, S)
<1>1. IsFiniteSet(S \cup {x}) /\ (S \cup {x}) \ {x} = S
  BY FS_AddElement
<1> QED BY <1>1, SumAny

\* Another value of one element.
LEMMA SumChanged ==
  ASSUME NEW f, NEW e, NEW S, IsFiniteSet(S), \A y \in S : f[y] \in Int /\ e[y] \in Int,
         NEW x \in S, \A y \in S \ {x} : f[y] = e[y]
  PROVE  SumFunctionOnSet(e, S) = SumFunctionOnSet(f, S) + (e[x] - f[x])
<1> DEFINE rest == SumFunctionOnSet(f, S \ {x})
<1>1. IsFiniteSet(S \ {x})
  BY FS_Subset
<1>2. rest \in Int
  BY <1>1, SumIsInt
<1>3. SumFunctionOnSet(f, S) = f[x] + rest
  BY SumAny
<1>4. SumFunctionOnSet(e, S) = e[x] + rest
  <2>1. SumFunctionOnSet(e, S \ {x}) = rest
    BY <1>1, SumSame
  <2>2. SumFunctionOnSet(e, S) = e[x] + SumFunctionOnSet(e, S \ {x})
    BY SumAny
  <2> QED BY <2>1, <2>2
<1> HIDE DEF rest
<1>5. e[x] \in Int /\ f[x] \in Int
  OBVIOUS
<1> QED BY <1>2, <1>3, <1>4, <1>5

\* Naturals sum to a natural.
LEMMA SumIsNat ==
  ASSUME NEW f, NEW S, IsFiniteSet(S), \A x \in S : f[x] \in Nat
  PROVE  SumFunctionOnSet(f, S) \in Nat
<1> DEFINE shown == {T \in SUBSET S : SumFunctionOnSet(f, T) \in Nat}
<1>1. ASSUME NEW T \in SUBSET S, \A U \in SUBSET T : U # T => U \in shown
      PROVE  T \in shown
  <2>1. CASE T = {}
    BY <2>1, SumNothing
  <2>2. CASE T # {}
    <3>1. IsFiniteSet(T) /\ FirstOf(T) \in T
      BY <2>2, FirstOfIsIn, FS_Subset
    <3>2. SumFunctionOnSet(f, T \ {FirstOf(T)}) \in Nat
      BY <1>1, <3>1
    <3> QED BY <2>2, <3>1, <3>2, SumFirst
  <2> QED BY <2>1, <2>2
<1>2. \A T \in SUBSET S : T \in shown
  <2> HIDE DEF shown
  <2> QED BY <1>1, SubsetInduction
<1> QED BY <1>2

\* Zeros sum to zero.
LEMMA SumOfZeros ==
  ASSUME NEW f, NEW S, IsFiniteSet(S), \A x \in S : f[x] = 0
  PROVE  SumFunctionOnSet(f, S) = 0
<1> DEFINE shown == {T \in SUBSET S : SumFunctionOnSet(f, T) = 0}
<1>1. ASSUME NEW T \in SUBSET S, \A U \in SUBSET T : U # T => U \in shown
      PROVE  T \in shown
  <2>1. CASE T = {}
    BY <2>1, SumNothing
  <2>2. CASE T # {}
    <3>1. IsFiniteSet(T) /\ FirstOf(T) \in T
      BY <2>2, FirstOfIsIn, FS_Subset
    <3>2. SumFunctionOnSet(f, T \ {FirstOf(T)}) = 0
      BY <1>1, <3>1
    <3> QED BY <2>2, <3>1, <3>2, SumFirst
  <2> QED BY <2>1, <2>2
<1>2. \A T \in SUBSET S : T \in shown
  <2> HIDE DEF shown
  <2> QED BY <1>1, SubsetInduction
<1> QED BY <1>2

\* Two sets that share nothing are summed together as one by one.
LEMMA SumSplit ==
  ASSUME NEW f, NEW S, NEW T, IsFiniteSet(S), IsFiniteSet(T), S \cap T = {},
         \A x \in S \cup T : f[x] \in Int
  PROVE  SumFunctionOnSet(f, S \cup T) = SumFunctionOnSet(f, S) + SumFunctionOnSet(f, T)
<1> DEFINE shown == {U \in SUBSET T :
             SumFunctionOnSet(f, S \cup U) = SumFunctionOnSet(f, S) + SumFunctionOnSet(f, U)}
<1>1. ASSUME NEW U \in SUBSET T, \A V \in SUBSET U : V # U => V \in shown
      PROVE  U \in shown
  <2>1. SumFunctionOnSet(f, S) \in Int
    BY SumIsInt
  <2>2. CASE U = {}
    BY <2>1, <2>2, SumNothing
  <2>3. CASE U # {}
    <3>1. PICK x \in U : TRUE
      BY <2>3
    <3> DEFINE R == U \ {x}
    <3>2. SumFunctionOnSet(f, S \cup R) = SumFunctionOnSet(f, S) + SumFunctionOnSet(f, R)
      BY <1>1, <3>1
    <3>3. /\ IsFiniteSet(U) /\ IsFiniteSet(R) /\ IsFiniteSet(S \cup U)
          /\ (S \cup U) \ {x} = S \cup R
      BY <3>1, FS_Subset, FS_Union
    <3>4. /\ SumFunctionOnSet(f, U) = f[x] + SumFunctionOnSet(f, R)
          /\ SumFunctionOnSet(f, S \cup U) = f[x] + SumFunctionOnSet(f, S \cup R)
      BY <3>1, <3>3, SumAny
    <3>5. f[x] \in Int /\ SumFunctionOnSet(f, R) \in Int
      BY <3>1, <3>3, SumIsInt
    <3> HIDE DEF R
    <3> QED BY <2>1, <3>2, <3>4, <3>5
  <2> QED BY <2>2, <2>3
<1>2. \A U \in SUBSET T : U \in shown
  <2> HIDE DEF shown
  <2> QED BY <1>1, SubsetInduction
<1> QED BY <1>2

\* Two functions are summed together as one by one.
LEMMA SumPlus ==
  ASSUME NEW f, NEW e, NEW h, NEW S, IsFiniteSet(S),
         \A x \in S : f[x] \in Int /\ e[x] \in Int /\ h[x] = f[x] + e[x]
  PROVE  SumFunctionOnSet(h, S) = SumFunctionOnSet(f, S) + SumFunctionOnSet(e, S)
<1> DEFINE shown == {T \in SUBSET S :
             SumFunctionOnSet(h, T) = SumFunctionOnSet(f, T) + SumFunctionOnSet(e, T)}
<1>0. \A x \in S : h[x] \in Int
  OBVIOUS
<1>1. ASSUME NEW T \in SUBSET S, \A U \in SUBSET T : U # T => U \in shown
      PROVE  T \in shown
  <2>1. CASE T = {}
    BY <2>1, SumNothing
  <2>2. CASE T # {}
    <3>1. PICK x \in T : TRUE
      BY <2>2
    <3> DEFINE R == T \ {x}
    <3>2. SumFunctionOnSet(h, R) = SumFunctionOnSet(f, R) + SumFunctionOnSet(e, R)
      BY <1>1, <3>1
    <3>3. IsFiniteSet(T) /\ IsFiniteSet(R)
      BY FS_Subset
    <3>4. /\ SumFunctionOnSet(h, T) = h[x] + SumFunctionOnSet(h, R)
          /\ SumFunctionOnSet(f, T) = f[x] + SumFunctionOnSet(f, R)
          /\ SumFunctionOnSet(e, T) = e[x] + SumFunctionOnSet(e, R)
      BY <1>0, <3>1, <3>3, SumAny
    <3>5. SumFunctionOnSet(f, R) \in Int /\ SumFunctionOnSet(e, R) \in Int
      BY <3>3, SumIsInt
    <3>6. f[x] \in Int /\ e[x] \in Int /\ h[x] = f[x] + e[x]
      BY <3>1
    <3> HIDE DEF R
    <3> QED BY <3>2, <3>4, <3>5, <3>6
  <2> QED BY <2>1, <2>2
<1>2. \A T \in SUBSET S : T \in shown
  <2> HIDE DEF shown
  <2> QED BY <1>1, SubsetInduction
<1> QED BY <1>2
\* What is no more anywhere sums to no more.
LEMMA SumMonotone ==
  ASSUME NEW f, NEW e, NEW S, IsFiniteSet(S), \A x \in S : f[x] \in Int /\ e[x] \in Int /\ f[x] <= e[x]
  PROVE  SumFunctionOnSet(f, S) <= SumFunctionOnSet(e, S)
<1> DEFINE d == [x \in S |-> e[x] - f[x]]
<1>1. \A x \in S : d[x] \in Nat /\ e[x] = f[x] + d[x]
  OBVIOUS
<1> HIDE DEF d
<1>2. SumFunctionOnSet(e, S) = SumFunctionOnSet(f, S) + SumFunctionOnSet(d, S)
  BY <1>1, SumPlus
<1>3. SumFunctionOnSet(d, S) \in Nat /\ SumFunctionOnSet(f, S) \in Int
  BY <1>1, SumIsNat, SumIsInt
<1> QED BY <1>2, <1>3

\* Numbers with a bound sum to the bound times how many they are, at most.
LEMMA SumAtMost ==
  ASSUME NEW f, NEW S, IsFiniteSet(S), NEW c \in Nat, \A x \in S : f[x] \in Int /\ f[x] <= c
  PROVE  SumFunctionOnSet(f, S) <= c * Cardinality(S)
<1> DEFINE shown == {T \in SUBSET S : SumFunctionOnSet(f, T) <= c * Cardinality(T)}
<1>1. ASSUME NEW T \in SUBSET S, \A U \in SUBSET T : U # T => U \in shown
      PROVE  T \in shown
  <2>1. CASE T = {}
    <3>1. SumFunctionOnSet(f, T) = 0 /\ Cardinality(T) = 0
      BY <2>1, SumNothing, FS_EmptySet
    <3> QED BY <3>1
  <2>2. CASE T # {}
    <3>1. PICK x \in T : x = FirstOf(T)
      BY <2>2, FirstOfIsIn
    <3>2. PICK R \in SUBSET T : R = T \ {x}
      OBVIOUS
    <3>3. IsFiniteSet(T) /\ IsFiniteSet(R)
      BY FS_Subset
    <3>4. Cardinality(T) = Cardinality(R) + 1 /\ Cardinality(R) \in Nat
      <4>1. Cardinality(R) = Cardinality(T) - 1
        BY <3>2, <3>3, FS_RemoveElement
      <4>2. Cardinality(R) \in Nat /\ Cardinality(T) \in Nat
        BY <3>3, FS_CardinalityType
      <4> QED BY <4>1, <4>2
    <3>5. SumFunctionOnSet(f, R) <= c * Cardinality(R)
      BY <1>1, <3>1, <3>2
    <3>6. SumFunctionOnSet(f, T) = f[x] + SumFunctionOnSet(f, R)
      BY <2>2, <3>1, <3>2, <3>3, SumFirst
    <3>7. SumFunctionOnSet(f, R) \in Int /\ f[x] \in Int /\ f[x] <= c
      BY <3>1, <3>3, SumIsInt
    <3>8. c * (Cardinality(R) + 1) = c * Cardinality(R) + c /\ c * Cardinality(R) \in Nat
      BY <3>4
    <3> QED BY <3>4, <3>5, <3>6, <3>7, <3>8
  <2> QED BY <2>1, <2>2
<1>2. \A T \in SUBSET S : T \in shown
  <2> HIDE DEF shown
  <2> QED BY <1>1, SubsetInduction
<1> QED BY <1>2

\* ... and with a bound from below, at least.
LEMMA SumAtLeast ==
  ASSUME NEW f, NEW S, IsFiniteSet(S), NEW c \in Nat, \A x \in S : f[x] \in Int /\ f[x] >= c
  PROVE  SumFunctionOnSet(f, S) >= c * Cardinality(S)
<1> DEFINE shown == {T \in SUBSET S : SumFunctionOnSet(f, T) >= c * Cardinality(T)}
<1>1. ASSUME NEW T \in SUBSET S, \A U \in SUBSET T : U # T => U \in shown
      PROVE  T \in shown
  <2>1. CASE T = {}
    <3>1. SumFunctionOnSet(f, T) = 0 /\ Cardinality(T) = 0
      BY <2>1, SumNothing, FS_EmptySet
    <3> QED BY <3>1
  <2>2. CASE T # {}
    <3>1. PICK x \in T : x = FirstOf(T)
      BY <2>2, FirstOfIsIn
    <3>2. PICK R \in SUBSET T : R = T \ {x}
      OBVIOUS
    <3>3. IsFiniteSet(T) /\ IsFiniteSet(R)
      BY FS_Subset
    <3>4. Cardinality(T) = Cardinality(R) + 1 /\ Cardinality(R) \in Nat
      <4>1. Cardinality(R) = Cardinality(T) - 1
        BY <3>2, <3>3, FS_RemoveElement
      <4>2. Cardinality(R) \in Nat /\ Cardinality(T) \in Nat
        BY <3>3, FS_CardinalityType
      <4> QED BY <4>1, <4>2
    <3>5. SumFunctionOnSet(f, R) >= c * Cardinality(R)
      BY <1>1, <3>1, <3>2
    <3>6. SumFunctionOnSet(f, T) = f[x] + SumFunctionOnSet(f, R)
      BY <2>2, <3>1, <3>2, <3>3, SumFirst
    <3>7. SumFunctionOnSet(f, R) \in Int /\ f[x] \in Int /\ f[x] >= c
      BY <3>1, <3>3, SumIsInt
    <3>8. c * (Cardinality(R) + 1) = c * Cardinality(R) + c /\ c * Cardinality(R) \in Nat
      BY <3>4
    <3> QED BY <3>4, <3>5, <3>6, <3>7, <3>8
  <2> QED BY <2>1, <2>2
<1>2. \A T \in SUBSET S : T \in shown
  <2> HIDE DEF shown
  <2> QED BY <1>1, SubsetInduction
<1> QED BY <1>2

-------------------------------------------------------------------------------
(* The order of a finite set of numbers *)

\* A set of numbers has a smallest member.
LEMMA SmallestIs ==
  ASSUME NEW S, S \subseteq Nat, S # {}
  PROVE  \E x \in S : \A y \in S : x <= y
<1> DEFINE below == OpToRel(<, Nat)
<1>1. \A x, y \in Nat : y < x => <<y, x>> \in below
  BY DEF OpToRel
<1>2. IsWellFoundedOn(below, Nat)
  BY NatLessThanWellFounded
<1> HIDE DEF below
<1>3. PICK m \in S : \A y \in S : <<y, m>> \notin below
  BY <1>2, WFMin
<1>4. \A y \in S : m \in Nat /\ y \in Nat /\ ~(y < m)
  BY <1>1, <1>3
<1> QED BY <1>3, <1>4

\* How many members of a set come before one of them.
Rank(S, p) == Cardinality({q \in S : q < p})

\* No two members have the same number before them, and none has them all.
LEMMA RanksDiffer ==
  ASSUME NEW S, S \subseteq Nat, IsFiniteSet(S)
  PROVE  /\ \A p \in S : Rank(S, p) \in Nat /\ Rank(S, p) < Cardinality(S)
         /\ \A p, q \in S : p < q => Rank(S, p) < Rank(S, q)
         /\ \A p, q \in S : Rank(S, p) = Rank(S, q) => p = q
<1> DEFINE before(p) == {q \in S : q < p}
<1>1. \A T \in SUBSET S : IsFiniteSet(T) /\ Cardinality(T) \in Nat
  BY FS_Subset, FS_CardinalityType
<1>2. \A p \in S : before(p) \in SUBSET S /\ p \notin before(p)
  OBVIOUS
<1>3. ASSUME NEW p \in S PROVE Rank(S, p) \in Nat /\ Rank(S, p) < Cardinality(S)
  <2>1. IsFiniteSet(S) /\ before(p) \in SUBSET S /\ before(p) # S
    BY <1>2
  <2>2. Cardinality(before(p)) <= Cardinality(S) /\ Cardinality(before(p)) # Cardinality(S)
    BY <2>1, FS_Subset
  <2>3. Cardinality(before(p)) \in Nat /\ Cardinality(S) \in Nat
    BY <1>1, <2>1
  <2>4. Rank(S, p) = Cardinality(before(p))
    BY DEF Rank
  <2> HIDE DEF before
  <2> QED BY <2>2, <2>3, <2>4
<1>4. ASSUME NEW p \in S, NEW q \in S, p < q PROVE Rank(S, p) < Rank(S, q)
  <2>1. IsFiniteSet(before(q))
    BY <1>1, <1>2
  <2>2. before(p) \in SUBSET before(q) /\ p \in before(q) /\ p \notin before(p)
    <3>1. \A r \in S : r \in Nat /\ p \in Nat /\ q \in Nat
      OBVIOUS
    <3>2. \A r \in S : r < p => r < q
      BY <1>4, <3>1
    <3>3. ~(p < p) /\ p < q
      BY <1>4, <3>1
    <3>4. before(p) \in SUBSET before(q)
      BY <3>2
    <3> QED BY <3>3, <3>4
  <2>3. Cardinality(before(p)) <= Cardinality(before(q)) /\ Cardinality(before(p)) # Cardinality(before(q))
    BY <2>1, <2>2, FS_Subset
  <2>4. Cardinality(before(p)) \in Nat /\ Cardinality(before(q)) \in Nat
    BY <1>1, <1>2
  <2>5. Rank(S, p) = Cardinality(before(p)) /\ Rank(S, q) = Cardinality(before(q))
    BY DEF Rank
  <2> HIDE DEF before
  <2> QED BY <2>3, <2>4, <2>5
<1>5. ASSUME NEW p \in S, NEW q \in S, Rank(S, p) = Rank(S, q) PROVE p = q
  <2>1. p \in Nat /\ q \in Nat /\ Rank(S, p) \in Nat /\ Rank(S, q) \in Nat
    BY <1>3
  <2>2. ~(p < q) /\ ~(q < p)
    BY <1>4, <1>5, <2>1
  <2> QED BY <2>1, <2>2
<1> QED BY <1>3, <1>4, <1>5

\* The first n of a set are n at most, and there is one if there can be.
LEMMA FirstAreFew ==
  ASSUME NEW S, S \subseteq Nat, IsFiniteSet(S), NEW n \in Nat
  PROVE  LET first == {p \in S : Rank(S, p) < n}
         IN  /\ IsFiniteSet(first) /\ Cardinality(first) <= n
             /\ S # {} /\ n # 0 => first # {}
<1> DEFINE first == {p \in S : Rank(S, p) < n}
           rank == [p \in first |-> Rank(S, p)]
<1>1. first \in SUBSET S /\ IsFiniteSet(first)
  BY FS_Subset
<1>2. Cardinality(first) <= n
  <2>1. rank \in Injection(first, 0 .. n - 1)
    <3>1. \A p \in first : rank[p] \in 0 .. n - 1
      <4> SUFFICES ASSUME NEW p \in first PROVE Rank(S, p) \in 0 .. n - 1
        OBVIOUS
      <4>1. Rank(S, p) \in Nat /\ Rank(S, p) < n
        BY RanksDiffer
      <4> QED BY <4>1
    <3>2. \A p, q \in first : rank[p] = rank[q] => p = q
      BY RanksDiffer
    <3> QED BY <3>1, <3>2 DEF Injection, IsInjective
  <2>2. IsFiniteSet(0 .. n - 1) /\ Cardinality(0 .. n - 1) = n
    BY FS_Interval
  <2> HIDE DEF first, rank
  <2> QED BY <2>1, <2>2, FS_Injection
<1>3. ASSUME S # {}, n # 0 PROVE first # {}
  <2>1. PICK p \in S : \A q \in S : p <= q
    BY <1>3, SmallestIs
  <2>2. {q \in S : q < p} = {}
    <3>1. \A q \in S : ~(q < p)
      <4> SUFFICES ASSUME NEW q \in S PROVE ~(q < p)
        OBVIOUS
      <4>1. p \in Nat /\ q \in Nat /\ p <= q
        BY <2>1
      <4> QED BY <4>1
    <3> QED BY <3>1
  <2>3. Rank(S, p) = 0
    BY <2>2, FS_EmptySet DEF Rank
  <2> QED BY <1>3, <2>3
<1> QED BY <1>1, <1>2, <1>3

\* Each place in the order is taken.
LEMMA RanksAreTaken ==
  ASSUME NEW S, S \subseteq Nat, IsFiniteSet(S)
  PROVE  /\ Cardinality(S) \in Nat
         /\ \A k \in 1 .. Cardinality(S) : \E p \in S : Rank(S, p) = k - 1
<1> DEFINE n == Cardinality(S)
           rank == [p \in S |-> Rank(S, p)]
<1>1. n \in Nat
  BY FS_CardinalityType
<1>2. rank \in Injection(S, 0 .. n - 1)
  <2>1. \A p \in S : rank[p] \in 0 .. n - 1
    <3> SUFFICES ASSUME NEW p \in S PROVE Rank(S, p) \in 0 .. n - 1
      OBVIOUS
    <3>1. Rank(S, p) \in Nat /\ Rank(S, p) < n
      BY RanksDiffer
    <3> HIDE DEF n
    <3> QED BY <1>1, <3>1
  <2>2. \A p, q \in S : rank[p] = rank[q] => p = q
    BY RanksDiffer
  <2> QED BY <2>1, <2>2 DEF Injection, IsInjective
<1>3. IsFiniteSet(0 .. n - 1) /\ Cardinality(0 .. n - 1) = n
  <2> HIDE DEF n
  <2> QED BY <1>1, FS_Interval
<1>4. rank \in Surjection(S, 0 .. n - 1)
  <2> HIDE DEF rank
  <2> QED BY <1>2, <1>3, FS_Injection
<1>5. ASSUME NEW k \in 1 .. n PROVE \E p \in S : Rank(S, p) = k - 1
  <2>1. k - 1 \in 0 .. n - 1
    BY <1>1
  <2> QED BY <1>4, <2>1 DEF Surjection
<1> QED BY <1>1, <1>5

===============================================================================
