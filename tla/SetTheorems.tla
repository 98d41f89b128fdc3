----------------------------- MODULE SetTheorems -----------------------------
(***************************************************************************)
(* Two operators of the community modules: Min finds the least element,    *)
(* and SumFunctionOnSet adds up every element once, whatever order its     *)
(* CHOOSE takes them in.  Induction is by the smallest counterexample.     *)
(***************************************************************************)
EXTENDS FiniteSetsExt, FiniteSetTheorems, TLAPS

\* A set of naturals has a least element, and Min finds it.
LEMMA MinIsLeast ==
  ASSUME NEW T \in SUBSET Nat, T # {}
  PROVE  Min(T) \in T /\ \A y \in T : Min(T) <= y
<1>1. IsWellFoundedOn(OpToRel(<, Nat), Nat)
  BY NatLessThanWellFounded
<1>2. \E x \in T : \A y \in T : ~(<<y, x>> \in OpToRel(<, Nat))
  BY <1>1, WFMin
<1>3. \A x, y \in Nat : y < x => <<y, x>> \in OpToRel(<, Nat)
  BY DEF OpToRel
<1>4. \E x \in T : \A y \in T : ~(y < x)
  BY <1>2, <1>3, Zenon
<1>5. \E x \in T : \A y \in T : x <= y
  BY <1>4
<1> QED BY <1>5 DEF Min

-----------------------------------------------------------------------------
(* The recursion.                                                          *)

first(s) == CHOOSE x \in s : TRUE
rest(s)  == s \ {first(s)}

\* One round of the fold of f, the rest being summed by g.
Round(f, g, s) == IF s = {} THEN 0 ELSE f[first(s)] + g[rest(s)]

\* g is the fold of f over S.
IsFold(f, g, S) == g = [s \in SUBSET S |-> Round(f, g, s)]

TheFold(f, S) == CHOOSE g : IsFold(f, g, S)

\* The smallest set of a collection.
LEMMA SmallestSet ==
  ASSUME NEW S, IsFiniteSet(S), NEW C \in SUBSET SUBSET S, C # {}
  PROVE  \E T \in C : IsFiniteSet(T) /\ \A U \in SUBSET T : U # T => U \notin C
<1>1. C \subseteq FiniteSubsetsOf(S)
  BY FS_FiniteSubsetsOfFinite
<1>2. PICK T \in C : \A U \in C : ~(<<U, T>> \in StrictSubsetOrdering(S))
  BY <1>1, FS_StrictSubsetOrderingWellFounded, WFMin
<1>3. \A U \in SUBSET T : U # T /\ U \in C => <<U, T>> \in StrictSubsetOrdering(S)
  BY DEF StrictSubsetOrdering
<1>4. T \in SUBSET S /\ IsFiniteSet(T)
  BY FS_Subset
<1>5. \A U \in SUBSET T : U # T => U \notin C
  BY <1>2, <1>3
<1> QED BY <1>4, <1>5

LEMMA RestIsSmaller ==
  ASSUME NEW s, s # {}
  PROVE  first(s) \in s /\ rest(s) \in SUBSET s /\ rest(s) # s
BY DEF first, rest

\* Two folds agree where both are defined.
LEMMA FoldsAgree ==
  ASSUME NEW f, NEW S, NEW T, NEW g, NEW h, IsFold(f, g, S), IsFold(f, h, T),
         IsFiniteSet(S), NEW s \in SUBSET (S \cap T)
  PROVE  g[s] = h[s]
<1> DEFINE C == {t \in SUBSET (S \cap T) : g[t] # h[t]}
<1> SUFFICES ASSUME C # {} PROVE FALSE
  OBVIOUS
<1>1. C \in SUBSET SUBSET S
  OBVIOUS
<1>2. PICK t \in C : \A U \in SUBSET t : U # t => U \notin C
  <2> HIDE DEF C
  <2> QED BY <1>1, SmallestSet
<1>3. g[t] = Round(f, g, t) /\ h[t] = Round(f, h, t)
  BY DEF IsFold
<1>4. CASE t = {}
  BY <1>3, <1>4 DEF Round
<1>5. CASE t # {}
  <2>1. rest(t) \in SUBSET (S \cap T) /\ g[rest(t)] = h[rest(t)]
    BY <1>2, <1>5, RestIsSmaller
  <2> QED BY <1>3, <1>5, <2>1 DEF Round
<1> QED BY <1>4, <1>5

\* The fold over a finite set exists.
LEMMA FoldExists ==
  ASSUME NEW f, NEW S, IsFiniteSet(S)
  PROVE  IsFold(f, TheFold(f, S), S)
<1> DEFINE C == {T \in SUBSET S : ~\E g : IsFold(f, g, T)}
<1> SUFFICES ASSUME C # {} PROVE FALSE
  BY DEF TheFold
<1>1. PICK T \in C : IsFiniteSet(T) /\ \A U \in SUBSET T : U # T => U \notin C
  <2>1. C \in SUBSET SUBSET S
    OBVIOUS
  <2> HIDE DEF C
  <2> QED BY <2>1, SmallestSet
<1>2. \A U \in SUBSET T : U # T => IsFold(f, TheFold(f, U), U) /\ IsFiniteSet(U)
  BY <1>1, FS_Subset DEF TheFold
<1> DEFINE Below(s) == TheFold(f, s)[s]
           g == [s \in SUBSET T |-> IF s = {} THEN 0 ELSE f[first(s)] + Below(rest(s))]
<1>3. ASSUME NEW s \in SUBSET T, s # T PROVE g[s] = Below(s)
  <2>1. Below(s) = Round(f, TheFold(f, s), s)
    BY <1>2, <1>3 DEF IsFold
  <2>2. CASE s = {}
    BY <2>1, <2>2 DEF Round
  <2>3. CASE s # {}
    <3>1. rest(s) \in SUBSET s /\ rest(s) # T
      BY <1>3, <2>3, RestIsSmaller
    <3>2. TheFold(f, s)[rest(s)] = Below(rest(s))
      BY <1>2, <1>3, <3>1, FoldsAgree
    <3> QED BY <2>1, <2>3, <3>2 DEF Round
  <2> QED BY <2>2, <2>3
<1>4. ASSUME NEW s \in SUBSET T PROVE g[s] = Round(f, g, s)
  <2>1. CASE s = {}
    BY <2>1 DEF Round
  <2>2. CASE s # {}
    <3>1. rest(s) \in SUBSET T /\ rest(s) # T
      BY <2>2, RestIsSmaller
    <3>2. g[rest(s)] = Below(rest(s))
      BY <1>3, <3>1
    <3>3. g[s] = f[first(s)] + Below(rest(s))
      BY <2>2
    <3> HIDE DEF g, Below
    <3> QED BY <2>2, <3>2, <3>3 DEF Round
  <2> QED BY <2>1, <2>2
<1>5. IsFold(f, g, T)
  <2>1. g = [s \in SUBSET T |-> g[s]]
    OBVIOUS
  <2> HIDE DEF g
  <2> QED BY <1>4, <2>1 DEF IsFold
<1> QED BY <1>1, <1>5

-----------------------------------------------------------------------------
(* The sum.                                                                *)

\* The sum over a finite set is one element and the rest.
LEMMA SumUnfolds ==
  ASSUME NEW f, NEW S, IsFiniteSet(S)
  PROVE  /\ S = {} => SumFunctionOnSet(f, S) = 0
         /\ S # {} => SumFunctionOnSet(f, S) = f[first(S)] + SumFunctionOnSet(f, rest(S))
<1>1. \A T : SumFunctionOnSet(f, T) = TheFold(f, T)[T]
  BY DEF SumFunctionOnSet, FoldFunctionOnSet, MapThenFoldSet, TheFold, IsFold, Round, first, rest
<1>2. IsFold(f, TheFold(f, S), S)
  BY FoldExists
<1>3. TheFold(f, S)[S] = Round(f, TheFold(f, S), S)
  BY <1>2 DEF IsFold
<1>4. CASE S = {}
  BY <1>1, <1>3, <1>4 DEF Round
<1>5. CASE S # {}
  <2>1. rest(S) \in SUBSET S /\ IsFiniteSet(rest(S))
    BY <1>5, RestIsSmaller, FS_Subset
  <2>2. IsFold(f, TheFold(f, rest(S)), rest(S))
    BY <2>1, FoldExists
  <2>3. TheFold(f, S)[rest(S)] = TheFold(f, rest(S))[rest(S)]
    BY <1>2, <2>1, <2>2, FoldsAgree
  <2> QED BY <1>1, <1>3, <1>5, <2>3 DEF Round
<1> QED BY <1>4, <1>5

\* A sum of integers is one, and any element may be taken out first.
LEMMA SumTakesOut ==
  ASSUME NEW f, NEW S, IsFiniteSet(S), \A x \in S : f[x] \in Int
  PROVE  /\ SumFunctionOnSet(f, S) \in Int
         /\ \A x \in S : SumFunctionOnSet(f, S) = f[x] + SumFunctionOnSet(f, S \ {x})
<1> DEFINE Sum(T) == SumFunctionOnSet(f, T)
           Fine(T) == Sum(T) \in Int /\ \A x \in T : Sum(T) = f[x] + Sum(T \ {x})
           C == {T \in SUBSET S : ~Fine(T)}
<1> SUFFICES ASSUME C # {} PROVE FALSE
  OBVIOUS
<1>1. PICK T \in C : IsFiniteSet(T) /\ \A U \in SUBSET T : U # T => U \notin C
  <2>1. C \in SUBSET SUBSET S
    OBVIOUS
  <2> HIDE DEF C
  <2> QED BY <2>1, SmallestSet
<1>2. \A U \in SUBSET T : U # T => Fine(U)
  BY <1>1
<1>3. \A U \in SUBSET T : U # {} => Sum(U) = f[first(U)] + Sum(rest(U))
  BY <1>1, SumUnfolds, FS_Subset
<1> HIDE DEF Sum
<1>4. CASE T = {}
  <2>1. Sum({}) = 0
    BY <1>1, <1>4, SumUnfolds DEF Sum
  <2>2. Fine({})
    BY <2>1
  <2> HIDE DEF Fine
  <2> QED BY <1>1, <1>4, <2>2
<1>5. CASE T # {}
  <2> DEFINE c == first(T)
  <2>1. c \in T /\ rest(T) = T \ {c} /\ f[c] \in Int
    BY <1>5, RestIsSmaller DEF rest
  <2>2. Sum(T \ {c}) \in Int /\ Sum(T) = f[c] + Sum(T \ {c})
    BY <1>2, <1>3, <1>5, <2>1
  <2>3. ASSUME NEW x \in T, x # c PROVE Sum(T) = f[x] + Sum(T \ {x})
    <3> DEFINE both == T \ {c, x}
    <3>1. (T \ {c}) \ {x} = both /\ (T \ {x}) \ {c} = both
      OBVIOUS
    <3>2. Sum(T \ {c}) = f[x] + Sum(both)
      BY <1>2, <2>1, <2>3, <3>1
    <3>3. Sum(T \ {x}) = f[c] + Sum(both)
      BY <1>2, <2>1, <2>3, <3>1
    <3>4. Sum(both) \in Int /\ f[x] \in Int
      BY <1>2, <2>1
    <3> HIDE DEF both, c
    <3> QED BY <2>1, <2>2, <3>2, <3>3, <3>4
  <2>4. Sum(T) \in Int
    BY <2>1, <2>2
  <2> QED BY <1>1, <2>2, <2>3, <2>4
<1> QED BY <1>4, <1>5

\* Sums of functions that agree are equal.
LEMMA SumsAgree ==
  ASSUME NEW f, NEW g, NEW S, IsFiniteSet(S), \A x \in S : f[x] = g[x]
  PROVE  SumFunctionOnSet(f, S) = SumFunctionOnSet(g, S)
<1> DEFINE C == {T \in SUBSET S : SumFunctionOnSet(f, T) # SumFunctionOnSet(g, T)}
<1> SUFFICES ASSUME C # {} PROVE FALSE
  OBVIOUS
<1>1. PICK T \in C : IsFiniteSet(T) /\ \A U \in SUBSET T : U # T => U \notin C
  <2>1. C \in SUBSET SUBSET S
    OBVIOUS
  <2> HIDE DEF C
  <2> QED BY <2>1, SmallestSet
<1>2. CASE T = {}
  BY <1>1, <1>2, SumUnfolds
<1>3. CASE T # {}
  <2>1. first(T) \in T /\ rest(T) \in SUBSET T /\ rest(T) # T
    BY <1>3, RestIsSmaller
  <2>2. SumFunctionOnSet(f, rest(T)) = SumFunctionOnSet(g, rest(T))
    BY <1>1, <2>1
  <2> QED BY <1>1, <1>3, <2>1, <2>2, SumUnfolds
<1> QED BY <1>2, <1>3

-----------------------------------------------------------------------------
(* What users of sums need.                                                *)

\* A sum of zeros is zero.
THEOREM SumOfZeros ==
  ASSUME NEW f, NEW S, IsFiniteSet(S), \A x \in S : f[x] = 0
  PROVE  SumFunctionOnSet(f, S) = 0
<1> DEFINE C == {T \in SUBSET S : SumFunctionOnSet(f, T) # 0}
<1> SUFFICES ASSUME C # {} PROVE FALSE
  OBVIOUS
<1>1. PICK T \in C : IsFiniteSet(T) /\ \A U \in SUBSET T : U # T => U \notin C
  <2>1. C \in SUBSET SUBSET S
    OBVIOUS
  <2> HIDE DEF C
  <2> QED BY <2>1, SmallestSet
<1>2. T # {}
  BY <1>1, SumUnfolds
<1>3. first(T) \in T /\ rest(T) \in SUBSET T /\ rest(T) # T
  BY <1>2, RestIsSmaller
<1> QED BY <1>1, <1>2, <1>3, SumUnfolds

\* A new element is added once.
THEOREM SumAdds ==
  ASSUME NEW f, NEW S, NEW x, IsFiniteSet(S), x \notin S,
         \A y \in S \cup {x} : f[y] \in Int
  PROVE  SumFunctionOnSet(f, S \cup {x}) = SumFunctionOnSet(f, S) + f[x]
<1>1. IsFiniteSet(S \cup {x}) /\ (S \cup {x}) \ {x} = S
  BY FS_AddElement
<1>2. SumFunctionOnSet(f, S \cup {x}) = f[x] + SumFunctionOnSet(f, S)
  BY <1>1, SumTakesOut
<1>3. SumFunctionOnSet(f, S) \in Int
  BY SumTakesOut
<1> QED BY <1>2, <1>3

\* When one term changes, so does the sum, by as much.
LEMMA SumChanges ==
  ASSUME NEW S, IsFiniteSet(S), NEW f \in [S -> Int], NEW g \in [S -> Int], NEW x \in S,
         \A y \in S \ {x} : f[y] = g[y]
  PROVE  /\ SumFunction(f) \in Int /\ SumFunction(g) \in Int
         /\ SumFunction(g) = SumFunction(f) - f[x] + g[x]
<1>1. IsFiniteSet(S \ {x})
  BY FS_RemoveElement
<1>2. SumFunctionOnSet(f, S \ {x}) = SumFunctionOnSet(g, S \ {x})
  BY <1>1, SumsAgree
<1>3. SumFunctionOnSet(f, S \ {x}) \in Int
  BY <1>1, SumTakesOut
<1>4. /\ SumFunctionOnSet(f, S) = f[x] + SumFunctionOnSet(f, S \ {x})
      /\ SumFunctionOnSet(g, S) = g[x] + SumFunctionOnSet(g, S \ {x})
  BY SumTakesOut
<1>5. DOMAIN f = S /\ DOMAIN g = S /\ f[x] \in Int /\ g[x] \in Int
  OBVIOUS
<1> QED BY <1>2, <1>3, <1>4, <1>5 DEF SumFunction
=============================================================================
