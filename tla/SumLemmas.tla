------------------------------ MODULE SumLemmas ------------------------------
(***************************************************************************)
(* Facts about SumFunctionOnSet(e, S), the sum of e[x] for x in S, for     *)
(* every finite S.  The models total positions, shares and request counts  *)
(* with it.  Induction over S is stated for a set T of subsets of S, so    *)
(* that it is first order: "the sets the claim holds for" is such a T.     *)
(***************************************************************************)
EXTENDS Integers, Functions, FiniteSetTheorems, WellFoundedInduction, TLAPS

Some(U) == CHOOSE x \in U : TRUE

(* What SumFunctionOnSet's recursion computes for U from a solution g.     *)
Unfolded(e, g, U) ==
    IF U = {} THEN 0 ELSE e[Some(U)] + g[U \ {Some(U)}]

Solves(e, g, A) == \A U \in SUBSET A : g[U] = Unfolded(e, g, U)

Recursion(e, g, A) == g = [U \in SUBSET A |-> Unfolded(e, g, U)]

(***************************************************************************)
(* Induction over a finite set: T holds S when it holds every subset all   *)
(* of whose strict subsets it holds.  Strict inclusion is well founded, so *)
(* the subsets outside T would have a minimal member.                      *)
(***************************************************************************)
LEMMA SubsetInduction ==
    ASSUME NEW S, IsFiniteSet(S), NEW T,
           \A U \in SUBSET S : (\A V \in SUBSET U : V # U => V \in T) => U \in T
    PROVE  S \in T
<1>. DEFINE F == (SUBSET S) \ T
<1>1. SUFFICES ASSUME F # {}  PROVE FALSE
      OBVIOUS
<1>2. IsWellFoundedOn(StrictSubsetOrdering(S), SUBSET S)
      BY FS_StrictSubsetOrderingWellFounded, FS_FiniteSubsetsOfFinite
<1>3. F \subseteq SUBSET S
      OBVIOUS
<1>4. PICK U \in F : \A V \in F : <<V, U>> \notin StrictSubsetOrdering(S)
  <2>. HIDE DEF F
  <2>. QED  BY <1>1, <1>2, <1>3, WFMin
<1>5. ASSUME NEW V \in SUBSET U, V # U  PROVE V \in T
      BY <1>4, <1>5 DEF StrictSubsetOrdering
<1>. QED  BY <1>4, <1>5

(* The same by adding one element at a time.                               *)
LEMMA ElementInduction ==
    ASSUME NEW S, IsFiniteSet(S), NEW T, {} \in T,
           \A U \in SUBSET S : \A x \in U : U \ {x} \in T => U \in T
    PROVE  S \in T
<1>1. ASSUME NEW U \in SUBSET S, \A V \in SUBSET U : V # U => V \in T
      PROVE  U \in T
  <2>1. CASE U = {}
    BY <2>1
  <2>2. CASE U # {}
    <3>1. PICK x \in U : TRUE
      BY <2>2
    <3>2. U \ {x} \in SUBSET U /\ U \ {x} # U
      OBVIOUS
    <3>. QED  BY <1>1, <3>1, <3>2
  <2>. QED  BY <2>1, <2>2
<1>. QED  BY <1>1, SubsetInduction

(* The element CHOOSE gives is one.                                        *)
LEMMA SomeIn == ASSUME NEW U, U # {} PROVE Some(U) \in U
BY DEF Some

(* Two solutions of the recursion agree where both are defined.            *)
LEMMA SolutionsAgree ==
    ASSUME NEW e, NEW A, NEW B, NEW g, NEW h, NEW W, IsFiniteSet(W),
           Solves(e, g, A), Solves(e, h, B), W \subseteq A, W \subseteq B
    PROVE  g[W] = h[W]
<1>. DEFINE T == { U \in SUBSET W : g[U] = h[U] }
<1>1. ASSUME NEW U \in SUBSET W, \A V \in SUBSET U : V # U => V \in T
      PROVE  U \in T
  <2>1. g[U] = Unfolded(e, g, U) /\ h[U] = Unfolded(e, h, U)
    BY DEF Solves
  <2>2. CASE U = {}
    BY <2>1, <2>2 DEF Unfolded
  <2>3. CASE U # {}
    <3>1. U \ {Some(U)} \in SUBSET U /\ U \ {Some(U)} # U
      BY <2>3, SomeIn
    <3>2. g[U \ {Some(U)}] = h[U \ {Some(U)}]
      BY <1>1, <3>1
    <3>. QED  BY <2>1, <2>3, <3>2 DEF Unfolded
  <2>. QED  BY <2>2, <2>3
<1>2. W \in T
  <2>. HIDE DEF T
  <2>. QED  BY <1>1, SubsetInduction
<1>. QED  BY <1>2

(* A function defined by the recursion satisfies it.                       *)
LEMMA RecursionSolves ==
    ASSUME NEW e, NEW g, NEW A, Recursion(e, g, A)  PROVE Solves(e, g, A)
<1>. DEFINE r == [U \in SUBSET A |-> Unfolded(e, g, U)]
<1>1. g = r
      BY DEF Recursion
<1>2. \A U \in SUBSET A : r[U] = Unfolded(e, g, U)
      OBVIOUS
<1>. HIDE DEF r
<1>. QED  BY <1>1, <1>2 DEF Solves

(* The recursion has a solution on the subsets of every finite set.        *)
LEMMA SolutionExists ==
    ASSUME NEW e, NEW S, IsFiniteSet(S)  PROVE \E g : Recursion(e, g, S)
<1>. DEFINE T == { A \in SUBSET S : \E g : Recursion(e, g, A) }
            sol(A) == CHOOSE g : Recursion(e, g, A)
<1>1. ASSUME NEW A \in SUBSET S, \A V \in SUBSET A : V # A => V \in T
      PROVE  \E g : Recursion(e, g, A)
  <2>1. ASSUME NEW V \in SUBSET A, V # A
        PROVE  Solves(e, sol(V), V)
    BY <1>1, <2>1, RecursionSolves
  <2>. DEFINE top == IF A = {} THEN 0
                     ELSE e[Some(A)] + sol(A \ {Some(A)})[A \ {Some(A)}]
              g == [U \in SUBSET A |-> IF U = A THEN top ELSE sol(U)[U]]
  <2>. HIDE DEF sol
  <2>2. ASSUME NEW U \in SUBSET A  PROVE g[U] = Unfolded(e, g, U)
    <3>. DEFINE W == U \ {Some(U)}
    <3>1. U # {} => W \in SUBSET A /\ W # A /\ W # U
      BY SomeIn
    <3>2. CASE U = A
      BY <3>1, <3>2 DEF Unfolded
    <3>3. CASE U # A /\ U = {}
      <4>1. sol(U)[U] = Unfolded(e, sol(U), U)
        BY <2>1, <3>3 DEF Solves
      <4>. QED  BY <3>3, <4>1 DEF Unfolded
    <3>4. CASE U # A /\ U # {}
      <4>1. sol(U)[U] = e[Some(U)] + sol(U)[W]
        BY <2>1, <3>4 DEF Solves, Unfolded
      <4>2. Solves(e, sol(U), U) /\ Solves(e, sol(W), W)
        BY <2>1, <3>4, <3>1
      <4>3. IsFiniteSet(W) /\ W \subseteq U
        BY FS_Subset
      <4>4. sol(U)[W] = sol(W)[W]
        <5>. DEFINE f == sol(U)
                    h == sol(W)
        <5>1. Solves(e, f, U) /\ Solves(e, h, W)
          BY <4>2
        <5>. HIDE DEF W, f, h
        <5>2. f[W] = h[W]
          BY <4>3, <5>1, SolutionsAgree
        <5>. QED  BY <5>2 DEF f, h
      <4>5. g[U] = sol(U)[U] /\ g[W] = sol(W)[W]
        BY <3>1, <3>4
      <4>. QED  BY <3>4, <4>1, <4>4, <4>5 DEF Unfolded
    <3>. QED  BY <3>2, <3>3, <3>4
  <2>3. g = [U \in SUBSET A |-> g[U]]
    OBVIOUS
  <2>. HIDE DEF g
  <2>4. Recursion(e, g, A)
    BY <2>2, <2>3 DEF Recursion
  <2>. QED  BY <2>4
<1>2. S \in T
  <2>1. \A A \in SUBSET S : (\A V \in SUBSET A : V # A => V \in T) => A \in T
    BY <1>1
  <2>. HIDE DEF T
  <2>. QED  BY <2>1, SubsetInduction
<1>. QED  BY <1>2

(* The sum is the value of such a solution.                                *)
LEMMA SumIsSolution ==
    ASSUME NEW e, NEW S, IsFiniteSet(S)
    PROVE  \E g : Solves(e, g, S) /\ SumFunctionOnSet(e, S) = g[S]
<1>. DEFINE g == CHOOSE g : Recursion(e, g, S)
<1>1. SumFunctionOnSet(e, S) = g[S]
      BY DEF SumFunctionOnSet, FoldFunctionOnSet, MapThenFoldSet, Unfolded,
             Recursion, Some
<1>2. Recursion(e, g, S)
      BY SolutionExists
<1>. HIDE DEF g
<1>. QED  BY <1>1, <1>2, RecursionSolves

(* The empty sum is zero.                                                  *)
LEMMA SumEmpty == ASSUME NEW e PROVE SumFunctionOnSet(e, {}) = 0
<1>1. PICK g : Solves(e, g, {}) /\ SumFunctionOnSet(e, {}) = g[{}]
      BY FS_EmptySet, SumIsSolution
<1>. QED  BY <1>1 DEF Solves, Unfolded

(* The sum over a nonempty set takes out the element CHOOSE gives.         *)
LEMMA SumUnfolds ==
    ASSUME NEW e, NEW S, IsFiniteSet(S), S # {}
    PROVE  SumFunctionOnSet(e, S) =
               e[Some(S)] + SumFunctionOnSet(e, S \ {Some(S)})
<1>. DEFINE W == S \ {Some(S)}
<1>1. IsFiniteSet(W) /\ W \subseteq S
      BY FS_Subset
<1>2. PICK g : Solves(e, g, S) /\ SumFunctionOnSet(e, S) = g[S]
      BY SumIsSolution
<1>3. g[S] = e[Some(S)] + g[W]
      BY <1>2 DEF Solves, Unfolded
<1>. HIDE DEF W
<1>4. PICK h : Solves(e, h, W) /\ SumFunctionOnSet(e, W) = h[W]
      BY <1>1, SumIsSolution
<1>5. g[W] = h[W]
      BY <1>1, <1>2, <1>4, SolutionsAgree
<1>. QED  BY <1>2, <1>3, <1>4, <1>5 DEF W

(* A sum of integers is an integer.                                        *)
LEMMA SumType ==
    ASSUME NEW e, NEW S, IsFiniteSet(S), \A x \in S : e[x] \in Int
    PROVE  SumFunctionOnSet(e, S) \in Int
<1>. DEFINE T == { U \in SUBSET S : SumFunctionOnSet(e, U) \in Int }
<1>1. ASSUME NEW U \in SUBSET S, \A V \in SUBSET U : V # U => V \in T
      PROVE  SumFunctionOnSet(e, U) \in Int
  <2>1. CASE U = {}
    BY <2>1, SumEmpty
  <2>2. CASE U # {}
    <3>. DEFINE W == U \ {Some(U)}
    <3>1. Some(U) \in S /\ W \in SUBSET U /\ W # U
      BY <2>2, SomeIn
    <3>2. SumFunctionOnSet(e, W) \in Int
      BY <1>1, <3>1
    <3>3. SumFunctionOnSet(e, U) = e[Some(U)] + SumFunctionOnSet(e, W)
      BY <2>2, SumUnfolds, FS_Subset
    <3>. QED  BY <3>1, <3>2, <3>3
  <2>. QED  BY <2>1, <2>2
<1>2. S \in T
  <2>1. \A U \in SUBSET S : (\A V \in SUBSET U : V # U => V \in T) => U \in T
    BY <1>1
  <2>. HIDE DEF T
  <2>. QED  BY <2>1, SubsetInduction
<1>. QED  BY <1>2

(* The order of summation does not matter: any element can come first.     *)
LEMMA SumRemove ==
    ASSUME NEW e, NEW S, IsFiniteSet(S), \A x \in S : e[x] \in Int
    PROVE  \A x \in S : SumFunctionOnSet(e, S) =
                          e[x] + SumFunctionOnSet(e, S \ {x})
<1>. DEFINE Splits(U) == \A x \in U : SumFunctionOnSet(e, U) =
                                      e[x] + SumFunctionOnSet(e, U \ {x})
            T == { U \in SUBSET S : Splits(U) }
<1>1. ASSUME NEW U \in SUBSET S, \A V \in SUBSET U : V # U => V \in T,
             NEW x \in U
      PROVE  SumFunctionOnSet(e, U) = e[x] + SumFunctionOnSet(e, U \ {x})
  <2>. DEFINE y == Some(U)
              W == U \ {y}
              X == U \ {x}
              Z == (U \ {y}) \ {x}
  <2>1. SumFunctionOnSet(e, U) = e[y] + SumFunctionOnSet(e, W)
    BY SumUnfolds, FS_Subset
  <2>2. CASE x = y
    BY <2>1, <2>2
  <2>3. CASE x # y
    <3>1. y \in U
      BY SomeIn
    <3>2. /\ W \in SUBSET U /\ W # U /\ x \in W /\ W \ {x} = Z
          /\ X \in SUBSET U /\ X # U /\ y \in X /\ X \ {y} = Z
      BY <2>3, <3>1
    <3>. HIDE DEF W, X, Z, y
    <3>3. SumFunctionOnSet(e, W) = e[x] + SumFunctionOnSet(e, Z)
      BY <1>1, <3>2
    <3>4. SumFunctionOnSet(e, X) = e[y] + SumFunctionOnSet(e, Z)
      BY <1>1, <3>2
    <3>5. Z \subseteq S
      BY <3>2
    <3>6. SumFunctionOnSet(e, Z) \in Int
      BY <3>5, SumType, FS_Subset
    <3>7. e[x] \in Int /\ e[y] \in Int
      BY <3>1
    <3>8. SumFunctionOnSet(e, U) = e[x] + SumFunctionOnSet(e, X)
      BY <2>1, <3>3, <3>4, <3>6, <3>7
    <3>. QED  BY <3>8 DEF X
  <2>. QED  BY <2>2, <2>3
<1>2. S \in T
  <2>1. \A U \in SUBSET S : (\A V \in SUBSET U : V # U => V \in T) => U \in T
    BY <1>1
  <2>. HIDE DEF T
  <2>. QED  BY <2>1, SubsetInduction
<1>. QED  BY <1>2

(* The sum depends on the summands only.                                   *)
LEMMA SumEqual ==
    ASSUME NEW e, NEW f, NEW S, IsFiniteSet(S), \A x \in S : e[x] = f[x]
    PROVE  SumFunctionOnSet(e, S) = SumFunctionOnSet(f, S)
<1>. DEFINE T == { U \in SUBSET S :
                     SumFunctionOnSet(e, U) = SumFunctionOnSet(f, U) }
<1>1. ASSUME NEW U \in SUBSET S, \A V \in SUBSET U : V # U => V \in T
      PROVE  SumFunctionOnSet(e, U) = SumFunctionOnSet(f, U)
  <2>1. CASE U = {}
    BY <2>1, SumEmpty
  <2>2. CASE U # {}
    <3>. DEFINE W == U \ {Some(U)}
    <3>1. Some(U) \in S /\ W \in SUBSET U /\ W # U
      BY <2>2, SomeIn
    <3>2. SumFunctionOnSet(e, W) = SumFunctionOnSet(f, W)
      BY <1>1, <3>1
    <3>3. /\ SumFunctionOnSet(e, U) = e[Some(U)] + SumFunctionOnSet(e, W)
          /\ SumFunctionOnSet(f, U) = f[Some(U)] + SumFunctionOnSet(f, W)
      BY <2>2, SumUnfolds, FS_Subset
    <3>4. e[Some(U)] = f[Some(U)]
      BY <3>1
    <3>. QED  BY <3>2, <3>3, <3>4
  <2>. QED  BY <2>1, <2>2
<1>2. S \in T
  <2>1. \A U \in SUBSET S : (\A V \in SUBSET U : V # U => V \in T) => U \in T
    BY <1>1
  <2>. HIDE DEF T
  <2>. QED  BY <2>1, SubsetInduction
<1>. QED  BY <1>2

(* A change of one summand changes the sum by as much.                     *)
LEMMA SumChange ==
    ASSUME NEW e, NEW f, NEW S, IsFiniteSet(S), NEW x \in S,
           \A y \in S : e[y] \in Int /\ f[y] \in Int,
           \A y \in S : y # x => f[y] = e[y]
    PROVE  SumFunctionOnSet(f, S) = SumFunctionOnSet(e, S) + f[x] - e[x]
<1>. DEFINE W == S \ {x}
<1>1. IsFiniteSet(W)
      BY FS_Subset
<1>2. /\ SumFunctionOnSet(e, S) = e[x] + SumFunctionOnSet(e, W)
      /\ SumFunctionOnSet(f, S) = f[x] + SumFunctionOnSet(f, W)
      BY SumRemove
<1>3. SumFunctionOnSet(e, W) = SumFunctionOnSet(f, W)
      BY <1>1, SumEqual
<1>4. SumFunctionOnSet(e, W) \in Int
      BY <1>1, SumType
<1>. QED  BY <1>2, <1>3, <1>4

(* Sums add up.                                                            *)
LEMMA SumPlus ==
    ASSUME NEW e, NEW f, NEW g, NEW S, IsFiniteSet(S),
           \A x \in S : e[x] \in Int /\ f[x] \in Int /\ g[x] = e[x] + f[x]
    PROVE  SumFunctionOnSet(g, S) =
               SumFunctionOnSet(e, S) + SumFunctionOnSet(f, S)
<1>. DEFINE T == { U \in SUBSET S : SumFunctionOnSet(g, U) =
                     SumFunctionOnSet(e, U) + SumFunctionOnSet(f, U) }
<1>1. ASSUME NEW U \in SUBSET S, NEW x \in U, U \ {x} \in T
      PROVE  U \in T
  <2>. DEFINE W == U \ {x}
  <2>1. IsFiniteSet(U) /\ IsFiniteSet(W) /\ x \in S /\ W \subseteq S
    BY FS_Subset
  <2>2. /\ SumFunctionOnSet(e, U) = e[x] + SumFunctionOnSet(e, W)
        /\ SumFunctionOnSet(f, U) = f[x] + SumFunctionOnSet(f, W)
        /\ SumFunctionOnSet(g, U) = g[x] + SumFunctionOnSet(g, W)
    BY <2>1, SumRemove
  <2>3. SumFunctionOnSet(e, W) \in Int /\ SumFunctionOnSet(f, W) \in Int
    BY <2>1, SumType
  <2>4. SumFunctionOnSet(g, W) = SumFunctionOnSet(e, W) + SumFunctionOnSet(f, W)
    BY <1>1
  <2>. HIDE DEF W
  <2>5. e[x] \in Int /\ f[x] \in Int /\ g[x] = e[x] + f[x]
    BY <2>1
  <2>6. SumFunctionOnSet(g, U) = SumFunctionOnSet(e, U) + SumFunctionOnSet(f, U)
    BY <2>2, <2>3, <2>4, <2>5
  <2>. QED  BY <2>6
<1>2. {} \in T
      BY SumEmpty
<1>3. S \in T
  <2>1. \A U \in SUBSET S : \A x \in U : U \ {x} \in T => U \in T
    BY <1>1
  <2>. HIDE DEF T
  <2>. QED  BY <1>2, <2>1, ElementInduction
<1>. QED  BY <1>3

(* The sum is monotonic in the summands.                                   *)
LEMMA SumMonotonic ==
    ASSUME NEW e, NEW f, NEW S, IsFiniteSet(S),
           \A x \in S : e[x] \in Int /\ f[x] \in Int /\ e[x] <= f[x]
    PROVE  SumFunctionOnSet(e, S) <= SumFunctionOnSet(f, S)
<1>. DEFINE T == { U \in SUBSET S :
                     SumFunctionOnSet(e, U) <= SumFunctionOnSet(f, U) }
<1>1. ASSUME NEW U \in SUBSET S, NEW x \in U, U \ {x} \in T
      PROVE  U \in T
  <2>. DEFINE W == U \ {x}
  <2>1. IsFiniteSet(U) /\ IsFiniteSet(W) /\ x \in S /\ W \subseteq S
    BY FS_Subset
  <2>2. /\ SumFunctionOnSet(e, U) = e[x] + SumFunctionOnSet(e, W)
        /\ SumFunctionOnSet(f, U) = f[x] + SumFunctionOnSet(f, W)
    BY <2>1, SumRemove
  <2>3. SumFunctionOnSet(e, W) \in Int /\ SumFunctionOnSet(f, W) \in Int
    BY <2>1, SumType
  <2>4. SumFunctionOnSet(e, W) <= SumFunctionOnSet(f, W)
    BY <1>1
  <2>. HIDE DEF W
  <2>5. e[x] \in Int /\ f[x] \in Int /\ e[x] <= f[x]
    BY <2>1
  <2>6. SumFunctionOnSet(e, U) <= SumFunctionOnSet(f, U)
    BY <2>2, <2>3, <2>4, <2>5
  <2>. QED  BY <2>6
<1>2. {} \in T
      BY SumEmpty
<1>3. S \in T
  <2>1. \A U \in SUBSET S : \A x \in U : U \ {x} \in T => U \in T
    BY <1>1
  <2>. HIDE DEF T
  <2>. QED  BY <1>2, <2>1, ElementInduction
<1>. QED  BY <1>3

(* A sum of zeros is zero.                                                 *)
LEMMA SumZero ==
    ASSUME NEW e, NEW S, IsFiniteSet(S), \A x \in S : e[x] = 0
    PROVE  SumFunctionOnSet(e, S) = 0
<1>1. SumFunctionOnSet(e, S) = SumFunctionOnSet(e, S) + SumFunctionOnSet(e, S)
      BY SumPlus
<1>2. PICK s \in Int : s = SumFunctionOnSet(e, S)
      BY SumType
<1>3. s = s + s
      BY <1>1, <1>2
<1>4. s = 0
      BY <1>3
<1>. QED  BY <1>2, <1>4

(* One more at n counts once in the sums that n is in.                     *)
OneMore(e, f, n, S) ==
    \A x \in S : e[x] \in Int /\ f[x] = IF x = n THEN e[x] + 1 ELSE e[x]

(* The sum grows by one when n is a summand.                               *)
LEMMA SumOneMore ==
    ASSUME NEW e, NEW f, NEW n, NEW S, IsFiniteSet(S), OneMore(e, f, n, S)
    PROVE  /\ SumFunctionOnSet(e, S) \in Int
           /\ n \in S => SumFunctionOnSet(f, S) = SumFunctionOnSet(e, S) + 1
           /\ n \notin S => SumFunctionOnSet(f, S) = SumFunctionOnSet(e, S)
<1>1. SumFunctionOnSet(e, S) \in Int
      BY SumType DEF OneMore
<1>2. CASE n \in S
  <2>1. /\ \A y \in S : e[y] \in Int /\ f[y] \in Int
        /\ \A y \in S : y # n => f[y] = e[y]
    BY DEF OneMore
  <2>2. SumFunctionOnSet(f, S) = SumFunctionOnSet(e, S) + f[n] - e[n]
    BY <1>2, <2>1, SumChange
  <2>3. f[n] = e[n] + 1 /\ e[n] \in Int
    BY <1>2 DEF OneMore
  <2>. QED  BY <1>1, <1>2, <2>2, <2>3
<1>3. CASE n \notin S
  <2>1. \A x \in S : e[x] = f[x]
    BY <1>3 DEF OneMore
  <2>. QED  BY <1>1, <1>3, <2>1, SumEqual
<1>. QED  BY <1>2, <1>3

(* With natural summands, fewer of them sum to no more.                    *)
LEMMA SumSubset ==
    ASSUME NEW e, NEW S, IsFiniteSet(S), NEW R \in SUBSET S,
           \A x \in S : e[x] \in Nat
    PROVE  SumFunctionOnSet(e, R) <= SumFunctionOnSet(e, S)
<1>. DEFINE T == { U \in SUBSET S : SumFunctionOnSet(e, U \cap R) <=
                     SumFunctionOnSet(e, U) }
<1>1. ASSUME NEW U \in SUBSET S, NEW x \in U, U \ {x} \in T
      PROVE  U \in T
  <2>. DEFINE W == U \ {x}
              X == U \cap R
              Y == W \cap R
  <2>1. /\ IsFiniteSet(U) /\ IsFiniteSet(W) /\ IsFiniteSet(X) /\ IsFiniteSet(Y)
        /\ x \in S /\ W \subseteq S /\ X \subseteq S /\ Y \subseteq S
    BY FS_Subset
  <2>2. SumFunctionOnSet(e, U) = e[x] + SumFunctionOnSet(e, W)
    BY <2>1, SumRemove
  <2>3. /\ SumFunctionOnSet(e, W) \in Int /\ SumFunctionOnSet(e, Y) \in Int
        /\ e[x] \in Nat
    BY <2>1, SumType
  <2>4. SumFunctionOnSet(e, Y) <= SumFunctionOnSet(e, W)
    BY <1>1
  <2>5. x \in R => x \in X /\ X \ {x} = Y
    OBVIOUS
  <2>6. x \notin R => X = Y
    OBVIOUS
  <2>. HIDE DEF W, X, Y
  <2>7. x \in R => SumFunctionOnSet(e, X) = e[x] + SumFunctionOnSet(e, Y)
    BY <2>1, <2>5, SumRemove
  <2>8. SumFunctionOnSet(e, X) <= SumFunctionOnSet(e, U)
    BY <2>2, <2>3, <2>4, <2>6, <2>7
  <2>. QED  BY <2>8 DEF X
<1>2. {} \in T
      BY SumEmpty
<1>3. S \in T
  <2>1. \A U \in SUBSET S : \A x \in U : U \ {x} \in T => U \in T
    BY <1>1
  <2>. HIDE DEF T
  <2>. QED  BY <1>2, <2>1, ElementInduction
<1>4. S \cap R = R
      OBVIOUS
<1>. QED  BY <1>3, <1>4

(* Credit to one account raises the sum by as much.                        *)
LEMMA SumCredit ==
    ASSUME NEW S, IsFiniteSet(S), NEW e \in [S -> Int], NEW x \in S, NEW d \in Int
    PROVE  SumFunctionOnSet([e EXCEPT ![x] = @ + d], S) =
               SumFunctionOnSet(e, S) + d
<1>. DEFINE f == [e EXCEPT ![x] = @ + d]
<1>1. /\ \A y \in S : e[y] \in Int /\ f[y] \in Int
      /\ \A y \in S : y # x => f[y] = e[y]
      /\ f[x] = e[x] + d
      OBVIOUS
<1>2. SumFunctionOnSet(e, S) \in Int
      BY SumType
<1>. HIDE DEF f
<1>3. SumFunctionOnSet(f, S) = SumFunctionOnSet(e, S) + f[x] - e[x]
      BY <1>1, SumChange
<1>4. SumFunctionOnSet(f, S) = SumFunctionOnSet(e, S) + d
      BY <1>1, <1>2, <1>3
<1>. QED  BY <1>4 DEF f

Transfer(e, f, x, y, S) ==
    /\ x \in S /\ y \in S /\ x # y
    /\ \A z \in S : e[z] \in Int /\ f[z] \in Int
    /\ \A z \in S : z # x /\ z # y => f[z] = e[z]
    /\ f[x] + f[y] = e[x] + e[y]

(* What one account loses and another gains leaves the sum as it was.      *)
LEMMA SumTransfer ==
    ASSUME NEW S, IsFiniteSet(S), NEW e, NEW f, NEW x, NEW y,
           Transfer(e, f, x, y, S)
    PROVE  SumFunctionOnSet(f, S) = SumFunctionOnSet(e, S)
<1>. DEFINE g == [z \in S |-> IF z = x THEN f[x] ELSE e[z]]
<1>. USE DEF Transfer
<1>1. /\ \A z \in S : g[z] \in Int
      /\ \A z \in S : z # x => g[z] = e[z]
      /\ \A z \in S : z # y => f[z] = g[z]
      /\ g[x] = f[x] /\ g[y] = e[y]
      OBVIOUS
<1>. HIDE DEF g
<1>2. SumFunctionOnSet(g, S) = SumFunctionOnSet(e, S) + g[x] - e[x]
      BY <1>1, SumChange
<1>3. SumFunctionOnSet(f, S) = SumFunctionOnSet(g, S) + f[y] - g[y]
      BY <1>1, SumChange
<1>4. SumFunctionOnSet(e, S) \in Int
      BY SumType
<1>. QED  BY <1>1, <1>2, <1>3, <1>4


(* A common factor.                                                        *)
Multiple(e, f, c, S) == \A x \in S : e[x] \in Int /\ f[x] = c * e[x]

(* The sum of multiples is the multiple of the sum.                        *)
LEMMA SumScale ==
    ASSUME NEW S, IsFiniteSet(S), NEW e, NEW f, NEW c \in Int, Multiple(e, f, c, S)
    PROVE  SumFunctionOnSet(f, S) = c * SumFunctionOnSet(e, S)
<1>. DEFINE T == { U \in SUBSET S : SumFunctionOnSet(f, U) =
                     c * SumFunctionOnSet(e, U) }
<1>0. \A x \in S : e[x] \in Int /\ f[x] = c * e[x] /\ f[x] \in Int
      BY DEF Multiple
<1>1. ASSUME NEW U \in SUBSET S, NEW x \in U, U \ {x} \in T
      PROVE  U \in T
  <2>. DEFINE W == U \ {x}
  <2>1. IsFiniteSet(U) /\ IsFiniteSet(W) /\ x \in S /\ W \subseteq S
    BY FS_Subset
  <2>2. /\ SumFunctionOnSet(e, U) = e[x] + SumFunctionOnSet(e, W)
        /\ SumFunctionOnSet(f, U) = f[x] + SumFunctionOnSet(f, W)
    BY <1>0, <2>1, SumRemove
  <2>3. SumFunctionOnSet(e, W) \in Int
    BY <1>0, <2>1, SumType
  <2>4. SumFunctionOnSet(f, W) = c * SumFunctionOnSet(e, W)
    BY <1>1
  <2>. HIDE DEF W
  <2>5. e[x] \in Int /\ f[x] = c * e[x]
    BY <1>0, <2>1
  <2>6. c * (e[x] + SumFunctionOnSet(e, W)) = c * e[x] + c * SumFunctionOnSet(e, W)
    BY <2>3, <2>5
  <2>7. SumFunctionOnSet(f, U) = c * SumFunctionOnSet(e, U)
    BY <2>2, <2>4, <2>5, <2>6
  <2>. QED  BY <2>7
<1>2. {} \in T
  <2>1. c * 0 = 0
    OBVIOUS
  <2>. QED  BY <2>1, SumEmpty
<1>3. S \in T
  <2>1. \A U \in SUBSET S : \A x \in U : U \ {x} \in T => U \in T
    BY <1>1
  <2>. HIDE DEF T
  <2>. QED  BY <1>2, <2>1, ElementInduction
<1>. QED  BY <1>3

(* A sum with one summand that counts.                                     *)
OnlyAt(e, x, S) == /\ x \in S /\ \A z \in S : e[z] \in Int
                   /\ \A z \in S : z # x => e[z] = 0

(* It is the only summand.                                                 *)
LEMMA SumOnlyAt ==
    ASSUME NEW S, IsFiniteSet(S), NEW e, NEW x, OnlyAt(e, x, S)
    PROVE  SumFunctionOnSet(e, S) = e[x]
<1>. DEFINE zero == [z \in S |-> 0]
<1>1. /\ \A z \in S : zero[z] = 0 /\ zero[z] \in Int /\ e[z] \in Int
      /\ \A z \in S : z # x => e[z] = zero[z]
      /\ x \in S
      BY DEF OnlyAt
<1>. HIDE DEF zero
<1>2. SumFunctionOnSet(zero, S) = 0
      BY <1>1, SumZero
<1>3. SumFunctionOnSet(e, S) = SumFunctionOnSet(zero, S) + e[x] - zero[x]
      BY <1>1, SumChange
<1>. QED  BY <1>1, <1>2, <1>3

(* A sum within a bound for each summand is within the sum of the bounds.  *)
WithinBy(e, b, S) == \A x \in S : /\ e[x] \in Int /\ b[x] \in Int
                                  /\ -b[x] <= e[x] /\ e[x] <= b[x]

(* The bounds add up.                                                      *)
LEMMA SumWithin ==
    ASSUME NEW S, IsFiniteSet(S), NEW e, NEW b, WithinBy(e, b, S)
    PROVE  /\ SumFunctionOnSet(e, S) \in Int /\ SumFunctionOnSet(b, S) \in Int
           /\ SumFunctionOnSet(e, S) <= SumFunctionOnSet(b, S)
           /\ -SumFunctionOnSet(b, S) <= SumFunctionOnSet(e, S)
<1>. DEFINE n == [x \in S |-> (-1) * b[x]]
<1>1. \A x \in S : /\ e[x] \in Int /\ b[x] \in Int /\ n[x] \in Int
                   /\ n[x] <= e[x] /\ e[x] <= b[x]
      BY DEF WithinBy
<1>2. Multiple(b, n, -1, S)
      BY <1>1 DEF Multiple
<1>. HIDE DEF n
<1>3. SumFunctionOnSet(e, S) \in Int /\ SumFunctionOnSet(b, S) \in Int
      BY <1>1, SumType
<1>4. SumFunctionOnSet(n, S) = (-1) * SumFunctionOnSet(b, S)
      BY <1>2, SumScale
<1>5. /\ SumFunctionOnSet(e, S) <= SumFunctionOnSet(b, S)
      /\ SumFunctionOnSet(n, S) <= SumFunctionOnSet(e, S)
      BY <1>1, SumMonotonic
<1>. QED  BY <1>3, <1>4, <1>5
=============================================================================
