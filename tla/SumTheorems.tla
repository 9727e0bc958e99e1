---------------------------- MODULE SumTheorems -----------------------------
(***************************************************************************)
(* Facts about SumFunctionOnSet(f, S), the sum of f[x] over the elements x *)
(* of a finite set S, which the ledgers of this project are stated with.   *)
(* The operator is a recursive function that picks the elements of S in    *)
(* some fixed order; the facts below say that the order does not matter.   *)
(* They rest on induction stated as a fact about sets, over the subsets of *)
(* a finite set and, at the end, over the naturals.                        *)
(***************************************************************************)
EXTENDS Integers, FiniteSets, Functions, FiniteSetTheorems, TLAPS

Pick(s) == CHOOSE x \in s : TRUE

(* g maps each subset of S to the sum of f over it.                        *)
IsSum(g, f, S) ==
    g = [s \in SUBSET S |->
            IF s = {} THEN 0 ELSE f[Pick(s)] + g[s \ {Pick(s)}]]

IntOn(f, S) == \A x \in S : f[x] \in Int

(* Strong induction over the subsets of a finite set: a family that has    *)
(* every subset all of whose proper subsets it has, has all of them.       *)
LEMMA SubsetInduction ==
    ASSUME NEW S, IsFiniteSet(S),
           NEW Q, Q \subseteq SUBSET S,
           \A T \in SUBSET S : (\A U \in SUBSET T : U # T => U \in Q) => T \in Q
    PROVE  Q = SUBSET S
<1> DEFINE B == (SUBSET S) \ Q
<1>1. SUFFICES ASSUME B # {} PROVE FALSE
  OBVIOUS
<1>2. IsWellFoundedOn(StrictSubsetOrdering(S), SUBSET S)
  BY FS_StrictSubsetOrderingWellFounded, FS_FiniteSubsetsOfFinite
<1>3. B \subseteq SUBSET S
  OBVIOUS
<1>4. PICK T \in B : \A U \in B : ~(<<U, T>> \in StrictSubsetOrdering(S))
  <2> HIDE DEF B
  <2> QED BY <1>1, <1>2, <1>3, WFMin
<1>5. \A U \in SUBSET T : U # T => U \in Q
  <2>1. SUFFICES ASSUME NEW U \in SUBSET T, U # T, U \notin Q PROVE FALSE
    OBVIOUS
  <2>2. U \in B /\ <<U, T>> \in (SUBSET S) \X (SUBSET S)
    BY <2>1
  <2>3. <<U, T>> \in StrictSubsetOrdering(S)
    BY <2>1, <2>2 DEF StrictSubsetOrdering
  <2> QED BY <1>4, <2>2, <2>3
<1> QED BY <1>5

(* The operator of the library is the function described by IsSum.         *)
LEMMA SumDef ==
    ASSUME NEW f, NEW S
    PROVE  SumFunctionOnSet(f, S) = (CHOOSE g : IsSum(g, f, S))[S]
BY DEF SumFunctionOnSet, FoldFunctionOnSet, MapThenFoldSet, IsSum, Pick

(* The value an IsSum function has at a subset.                            *)
LEMMA IsSumAt ==
    ASSUME NEW S, NEW f, NEW g, IsSum(g, f, S), NEW U \in SUBSET S
    PROVE  g[U] = IF U = {} THEN 0 ELSE f[Pick(U)] + g[U \ {Pick(U)}]
BY DEF IsSum

(* Removing the picked element gives a proper subset.                      *)
LEMMA PickSmaller ==
    ASSUME NEW U, U # {}
    PROVE  /\ Pick(U) \in U
           /\ U \ {Pick(U)} \in SUBSET U
           /\ U \ {Pick(U)} # U
<1>1. Pick(U) \in U
  BY DEF Pick
<1> QED BY <1>1

(* Two such functions agree wherever both are defined.                     *)
LEMMA IsSumUnique ==
    ASSUME NEW S, NEW T, IsFiniteSet(S), NEW f, NEW g, NEW h,
           IsSum(g, f, S), IsSum(h, f, T)
    PROVE  \A U \in SUBSET (S \cap T) : g[U] = h[U]
<1> DEFINE Q == {U \in SUBSET (S \cap T) : g[U] = h[U]}
<1>1. IsFiniteSet(S \cap T)
  BY FS_Subset
<1>2. ASSUME NEW U \in SUBSET (S \cap T),
             \A W \in SUBSET U : W # U => W \in Q
      PROVE  U \in Q
  <2>1. CASE U = {}
    BY <2>1, IsSumAt
  <2>2. CASE U # {}
    <3>1. g[U \ {Pick(U)}] = h[U \ {Pick(U)}]
      BY <1>2, <2>2, PickSmaller
    <3>0. U \in SUBSET S /\ U \in SUBSET T
      OBVIOUS
    <3>2. g[U] = f[Pick(U)] + g[U \ {Pick(U)}]
      BY <2>2, <3>0, IsSumAt
    <3>3. h[U] = f[Pick(U)] + h[U \ {Pick(U)}]
      BY <2>2, <3>0, IsSumAt
    <3> QED BY <3>1, <3>2, <3>3
  <2> QED BY <2>1, <2>2
<1>3. Q \subseteq SUBSET (S \cap T)
  OBVIOUS
<1>4. Q = SUBSET (S \cap T)
  <2> HIDE DEF Q
  <2> QED BY <1>1, <1>2, <1>3, SubsetInduction
<1> QED BY <1>4

(* The recursive function exists.                                          *)
LEMMA IsSumExists ==
    ASSUME NEW S, IsFiniteSet(S), NEW f
    PROVE  \E g : IsSum(g, f, S)
<1> DEFINE Q == {T \in SUBSET S : \E g : IsSum(g, f, T)}
           Val(U) == (CHOOSE g : IsSum(g, f, U))[U]
<1>1. ASSUME NEW T \in SUBSET S,
             \A W \in SUBSET T : W # T => W \in Q
      PROVE  T \in Q
  <2> DEFINE h == [s \in SUBSET T |->
                     IF s = {} THEN 0 ELSE f[Pick(s)] + Val(s \ {Pick(s)})]
  <2>1. ASSUME NEW U \in SUBSET T, U # T
        PROVE  IsSum(CHOOSE g : IsSum(g, f, U), f, U)
    BY <1>1, <2>1
  <2>2. ASSUME NEW U \in SUBSET T, U # T
        PROVE  h[U] = Val(U)
    <3> DEFINE gU == CHOOSE g : IsSum(g, f, U)
    <3>0. IsSum(gU, f, U)
      BY <2>1, <2>2
    <3>1. CASE U = {}
      <4>1. gU[U] = 0
        BY <3>0, <3>1, IsSumAt
      <4> QED BY <3>1, <4>1
    <3>2. CASE U # {}
      <4> DEFINE W == U \ {Pick(U)}
                 gW == CHOOSE g : IsSum(g, f, W)
      <4>1. W \in SUBSET T /\ W # T /\ W \in SUBSET U
        BY <2>2, <3>2, PickSmaller
      <4>2. IsSum(gW, f, W)
        BY <2>1, <4>1
      <4>3. gU[W] = gW[W]
        <5>1. IsFiniteSet(U)
          BY FS_Subset
        <5>2. W \in SUBSET (U \cap W)
          OBVIOUS
        <5> HIDE DEF gU, gW, W
        <5> QED BY <3>0, <4>2, <5>1, <5>2, IsSumUnique
      <4>4. gU[U] = f[Pick(U)] + gU[W]
        <5> HIDE DEF gU
        <5> QED BY <3>0, <3>2, IsSumAt
      <4>5. h[U] = f[Pick(U)] + gW[W]
        BY <3>2
      <4> QED BY <4>3, <4>4, <4>5
    <3> QED BY <3>1, <3>2
  <2>3. ASSUME NEW U \in SUBSET T
        PROVE  h[U] = IF U = {} THEN 0 ELSE f[Pick(U)] + h[U \ {Pick(U)}]
    <3>1. CASE U = {}
      BY <3>1
    <3>2. CASE U # {}
      <4>1. U \ {Pick(U)} \in SUBSET T /\ U \ {Pick(U)} # T
        BY <3>2, PickSmaller
      <4>2. h[U \ {Pick(U)}] = Val(U \ {Pick(U)})
        BY <2>2, <4>1
      <4>3. h[U] = f[Pick(U)] + Val(U \ {Pick(U)})
        BY <3>2
      <4> QED BY <3>2, <4>2, <4>3
    <3> QED BY <3>1, <3>2
  <2>4. h = [s \in SUBSET T |->
                IF s = {} THEN 0 ELSE f[Pick(s)] + h[s \ {Pick(s)}]]
    <3>1. h = [s \in SUBSET T |-> h[s]]
      OBVIOUS
    <3> HIDE DEF h
    <3> QED BY <2>3, <3>1
  <2>5. IsSum(h, f, T)
    <3> HIDE DEF h
    <3> QED BY <2>4 DEF IsSum
  <2> QED BY <2>5
<1>2. Q \subseteq SUBSET S
  OBVIOUS
<1>3. Q = SUBSET S
  <2> HIDE DEF Q
  <2> QED BY <1>1, <1>2, SubsetInduction
<1>4. S \in Q
  BY <1>3
<1> QED BY <1>4

-----------------------------------------------------------------------------
(* The sum over the empty set.                                             *)
LEMMA SumEmpty ==
    ASSUME NEW f
    PROVE  SumFunctionOnSet(f, {}) = 0
<1>1. PICK g : IsSum(g, f, {})
  BY FS_EmptySet, IsSumExists
<1>2. IsSum(CHOOSE h : IsSum(h, f, {}), f, {})
  BY <1>1
<1> QED BY <1>2, SumDef, IsSumAt

(* The sum over a set takes out the picked element.                        *)
LEMMA SumPick ==
    ASSUME NEW S, IsFiniteSet(S), S # {}, NEW f
    PROVE  SumFunctionOnSet(f, S)
             = f[Pick(S)] + SumFunctionOnSet(f, S \ {Pick(S)})
<1> DEFINE W == S \ {Pick(S)}
           gS == CHOOSE g : IsSum(g, f, S)
           gW == CHOOSE g : IsSum(g, f, W)
<1>1. W \in SUBSET S /\ IsFiniteSet(W)
  BY PickSmaller, FS_Subset
<1>2. IsSum(gS, f, S)
  BY IsSumExists
<1>3. IsSum(gW, f, W)
  <2>1. \E g : IsSum(g, f, W)
    <3> HIDE DEF W
    <3> QED BY <1>1, IsSumExists
  <2> QED BY <2>1
<1>4. gS[W] = gW[W]
  <2>1. W \in SUBSET (S \cap W)
    BY <1>1
  <2> HIDE DEF gS, gW, W
  <2> QED BY <1>2, <1>3, <2>1, IsSumUnique
<1>5. gS[S] = f[Pick(S)] + gS[W]
  <2>1. S \in SUBSET S
    OBVIOUS
  <2> HIDE DEF gS
  <2> QED BY <1>2, <2>1, IsSumAt
<1>6. SumFunctionOnSet(f, S) = gS[S] /\ SumFunctionOnSet(f, W) = gW[W]
  BY SumDef
<1> QED BY <1>4, <1>5, <1>6

(* The sum of integers is an integer.                                      *)
LEMMA SumInt ==
    ASSUME NEW S, IsFiniteSet(S), NEW f, IntOn(f, S)
    PROVE  \A T \in SUBSET S : SumFunctionOnSet(f, T) \in Int
<1> DEFINE Q == {T \in SUBSET S : SumFunctionOnSet(f, T) \in Int}
<1>1. ASSUME NEW T \in SUBSET S, \A W \in SUBSET T : W # T => W \in Q
      PROVE  T \in Q
  <2>1. CASE T = {}
    BY <2>1, SumEmpty
  <2>2. CASE T # {}
    <3>1. IsFiniteSet(T) /\ Pick(T) \in T
      BY <2>2, PickSmaller, FS_Subset
    <3>2. SumFunctionOnSet(f, T \ {Pick(T)}) \in Int
      BY <1>1, <2>2, PickSmaller
    <3>3. f[Pick(T)] \in Int
      BY <3>1 DEF IntOn
    <3>4. SumFunctionOnSet(f, T)
            = f[Pick(T)] + SumFunctionOnSet(f, T \ {Pick(T)})
      BY <2>2, <3>1, SumPick
    <3> QED BY <3>2, <3>3, <3>4
  <2> QED BY <2>1, <2>2
<1>2. Q \subseteq SUBSET S
  OBVIOUS
<1>3. Q = SUBSET S
  <2> HIDE DEF Q
  <2> QED BY <1>1, <1>2, SubsetInduction
<1> QED BY <1>3

(* The sum takes out any element: the order does not matter.               *)
LEMMA SumRemoveAll ==
    ASSUME NEW S, IsFiniteSet(S), NEW f, IntOn(f, S)
    PROVE  \A T \in SUBSET S : \A x \in T :
              SumFunctionOnSet(f, T) = f[x] + SumFunctionOnSet(f, T \ {x})
<1> DEFINE Q == {T \in SUBSET S : \A x \in T :
              SumFunctionOnSet(f, T) = f[x] + SumFunctionOnSet(f, T \ {x})}
<1>1. ASSUME NEW T \in SUBSET S, \A W \in SUBSET T : W # T => W \in Q
      PROVE  T \in Q
  <2>1. SUFFICES ASSUME NEW x \in T
                 PROVE  SumFunctionOnSet(f, T)
                          = f[x] + SumFunctionOnSet(f, T \ {x})
    OBVIOUS
  <2> DEFINE y == Pick(T)
  <2>2. /\ IsFiniteSet(T) /\ y \in T
        /\ SumFunctionOnSet(f, T) = f[y] + SumFunctionOnSet(f, T \ {y})
    BY <2>1, PickSmaller, FS_Subset, SumPick
  <2> HIDE DEF y
  <2>3. CASE x = y
    BY <2>2, <2>3
  <2>4. CASE x # y
    <3> DEFINE W == (T \ {y}) \ {x}
    <3>1. SumFunctionOnSet(f, T \ {y}) = f[x] + SumFunctionOnSet(f, W)
      <4>1. T \ {y} \in Q /\ x \in T \ {y}
        BY <1>1, <2>2, <2>4
      <4> QED BY <4>1
    <3>2. SumFunctionOnSet(f, T \ {x}) = f[y] + SumFunctionOnSet(f, W)
      <4>1. T \ {x} \in Q /\ y \in T \ {x}
        BY <1>1, <2>2, <2>4
      <4>2. (T \ {x}) \ {y} = W
        OBVIOUS
      <4>3. SumFunctionOnSet(f, T \ {x})
              = f[y] + SumFunctionOnSet(f, (T \ {x}) \ {y})
        BY <4>1
      <4> QED BY <4>2, <4>3
    <3>3. SumFunctionOnSet(f, W) \in Int /\ f[x] \in Int /\ f[y] \in Int
      BY <2>2, SumInt DEF IntOn
    <3> HIDE DEF W
    <3> QED BY <2>2, <3>1, <3>2, <3>3
  <2> QED BY <2>3, <2>4
<1>2. Q \subseteq SUBSET S
  OBVIOUS
<1>3. Q = SUBSET S
  <2> HIDE DEF Q
  <2> QED BY <1>1, <1>2, SubsetInduction
<1> QED BY <1>3

LEMMA SumRemove ==
    ASSUME NEW S, IsFiniteSet(S), NEW f, IntOn(f, S), NEW x \in S
    PROVE  /\ SumFunctionOnSet(f, S) = f[x] + SumFunctionOnSet(f, S \ {x})
           /\ SumFunctionOnSet(f, S) \in Int
           /\ SumFunctionOnSet(f, S \ {x}) \in Int
<1>1. S \in SUBSET S /\ S \ {x} \in SUBSET S
  OBVIOUS
<1> QED BY <1>1, SumInt, SumRemoveAll

(* Sums are linear.                                                        *)
LEMMA SumLinear ==
    ASSUME NEW S, IsFiniteSet(S), NEW f, NEW g, NEW h, NEW c \in Int,
           IntOn(f, S), IntOn(g, S),
           \A x \in S : h[x] = f[x] + c * g[x]
    PROVE  SumFunctionOnSet(h, S)
             = SumFunctionOnSet(f, S) + c * SumFunctionOnSet(g, S)
<1> DEFINE Q == {T \in SUBSET S : SumFunctionOnSet(h, T)
                     = SumFunctionOnSet(f, T) + c * SumFunctionOnSet(g, T)}
<1>0. IntOn(h, S)
  BY DEF IntOn
<1>1. ASSUME NEW T \in SUBSET S, \A W \in SUBSET T : W # T => W \in Q
      PROVE  T \in Q
  <2>1. CASE T = {}
    BY <2>1, SumEmpty
  <2>2. CASE T # {}
    <3> DEFINE x == Pick(T)
               W == T \ {x}
               F == SumFunctionOnSet(f, W)
               G == SumFunctionOnSet(g, W)
               H == SumFunctionOnSet(h, W)
    <3>1. IsFiniteSet(T) /\ x \in S
      BY <2>2, PickSmaller, FS_Subset
    <3>2. H = F + c * G
      BY <1>1, <2>2, PickSmaller
    <3>3. /\ SumFunctionOnSet(f, T) = f[x] + F
          /\ SumFunctionOnSet(g, T) = g[x] + G
          /\ SumFunctionOnSet(h, T) = h[x] + H
      BY <2>2, <3>1, SumPick
    <3>4. /\ F \in Int /\ G \in Int
          /\ f[x] \in Int /\ g[x] \in Int /\ h[x] = f[x] + c * g[x]
      <4>1. W \in SUBSET S
        OBVIOUS
      <4> QED BY <3>1, <4>1, SumInt DEF IntOn
    <3> HIDE DEF F, G, H, W, x
    <3>5. h[x] + H = (f[x] + F) + c * (g[x] + G)
      BY <3>2, <3>4
    <3> QED BY <3>3, <3>5
  <2> QED BY <2>1, <2>2
<1>2. Q \subseteq SUBSET S
  OBVIOUS
<1>3. Q = SUBSET S
  <2> HIDE DEF Q
  <2> QED BY <1>1, <1>2, SubsetInduction
<1>4. S \in Q
  BY <1>3
<1> QED BY <1>4

(* Equal summands give equal sums.                                         *)
LEMMA SumSame ==
    ASSUME NEW S, IsFiniteSet(S), NEW f, NEW h, IntOn(f, S),
           \A x \in S : h[x] = f[x]
    PROVE  SumFunctionOnSet(h, S) = SumFunctionOnSet(f, S)
<1>1. \A x \in S : h[x] = f[x] + 0 * f[x]
  BY DEF IntOn
<1>2. S \in SUBSET S
  OBVIOUS
<1>3. SumFunctionOnSet(f, S) \in Int
  BY <1>2, SumInt
<1>4. SumFunctionOnSet(h, S)
        = SumFunctionOnSet(f, S) + 0 * SumFunctionOnSet(f, S)
  BY <1>1, SumLinear
<1> QED BY <1>3, <1>4

(* Changing one summand changes the sum by as much.                        *)
LEMMA SumUpdate ==
    ASSUME NEW S, IsFiniteSet(S), NEW f, NEW h, NEW x \in S,
           IntOn(f, S), h[x] \in Int, \A y \in S \ {x} : h[y] = f[y]
    PROVE  /\ SumFunctionOnSet(h, S) = SumFunctionOnSet(f, S) - f[x] + h[x]
           /\ SumFunctionOnSet(h, S) \in Int
           /\ SumFunctionOnSet(f, S) \in Int
<1>1. IsFiniteSet(S \ {x}) /\ IntOn(f, S \ {x}) /\ IntOn(h, S)
  BY FS_RemoveElement DEF IntOn
<1>2. SumFunctionOnSet(h, S \ {x}) = SumFunctionOnSet(f, S \ {x})
  BY <1>1, SumSame
<1>3. /\ SumFunctionOnSet(f, S) = f[x] + SumFunctionOnSet(f, S \ {x})
      /\ SumFunctionOnSet(f, S) \in Int
      /\ SumFunctionOnSet(f, S \ {x}) \in Int
  BY SumRemove
<1>4. /\ SumFunctionOnSet(h, S) = h[x] + SumFunctionOnSet(h, S \ {x})
      /\ SumFunctionOnSet(h, S) \in Int
  BY <1>1, SumRemove
<1>5. f[x] \in Int
  BY DEF IntOn
<1> QED BY <1>2, <1>3, <1>4, <1>5

(* The same, with the other summands out of the provers' sight.            *)
DiffersAt(f, h, S, x) == \A y \in S \ {x} : h[y] = f[y]

LEMMA SumChange ==
    ASSUME NEW S, IsFiniteSet(S), NEW f, NEW h, NEW x \in S,
           IntOn(f, S), h[x] \in Int, DiffersAt(f, h, S, x)
    PROVE  /\ SumFunctionOnSet(h, S) = SumFunctionOnSet(f, S) - f[x] + h[x]
           /\ SumFunctionOnSet(h, S) \in Int
           /\ SumFunctionOnSet(f, S) \in Int
<1>1. \A y \in S \ {x} : h[y] = f[y]
  BY DEF DiffersAt
<1> QED BY <1>1, SumUpdate

(* The sum of naturals is a natural.                                       *)
LEMMA SumNat ==
    ASSUME NEW S, IsFiniteSet(S), NEW f, \A x \in S : f[x] \in Nat
    PROVE  \A T \in SUBSET S : SumFunctionOnSet(f, T) \in Nat
<1> DEFINE Q == {T \in SUBSET S : SumFunctionOnSet(f, T) \in Nat}
<1>1. ASSUME NEW T \in SUBSET S, \A W \in SUBSET T : W # T => W \in Q
      PROVE  T \in Q
  <2>1. CASE T = {}
    BY <2>1, SumEmpty
  <2>2. CASE T # {}
    <3>1. IsFiniteSet(T) /\ Pick(T) \in T
      BY <2>2, PickSmaller, FS_Subset
    <3>2. SumFunctionOnSet(f, T \ {Pick(T)}) \in Nat
      BY <1>1, <2>2, PickSmaller
    <3>3. f[Pick(T)] \in Nat
      BY <3>1
    <3>4. SumFunctionOnSet(f, T)
            = f[Pick(T)] + SumFunctionOnSet(f, T \ {Pick(T)})
      BY <2>2, <3>1, SumPick
    <3> QED BY <3>2, <3>3, <3>4
  <2> QED BY <2>1, <2>2
<1>2. Q \subseteq SUBSET S
  OBVIOUS
<1>3. Q = SUBSET S
  <2> HIDE DEF Q
  <2> QED BY <1>1, <1>2, SubsetInduction
<1> QED BY <1>3

(* No natural summand exceeds the sum.                                     *)
LEMMA SumBound ==
    ASSUME NEW S, IsFiniteSet(S), NEW f, \A y \in S : f[y] \in Nat, NEW x \in S
    PROVE  f[x] <= SumFunctionOnSet(f, S)
<1>1. IntOn(f, S)
  BY DEF IntOn
<1>2. S \ {x} \in SUBSET S
  OBVIOUS
<1>3. SumFunctionOnSet(f, S \ {x}) \in Nat
  BY <1>2, SumNat
<1>4. SumFunctionOnSet(f, S) = f[x] + SumFunctionOnSet(f, S \ {x})
  BY <1>1, SumRemove
<1> QED BY <1>3, <1>4

(* The sum of zeros.                                                       *)
LEMMA SumZero ==
    ASSUME NEW S, IsFiniteSet(S), NEW f, \A x \in S : f[x] = 0
    PROVE  SumFunctionOnSet(f, S) = 0
<1>1. IntOn(f, S) /\ \A x \in S : f[x] = f[x] + (-1) * f[x]
  BY DEF IntOn
<1>2. SumFunctionOnSet(f, S)
        = SumFunctionOnSet(f, S) + (-1) * SumFunctionOnSet(f, S)
  BY <1>1, SumLinear
<1>3. S \in SUBSET S
  OBVIOUS
<1>4. SumFunctionOnSet(f, S) \in Int
  BY <1>1, <1>3, SumInt
<1> QED BY <1>2, <1>4

(* Summands that are zero outside P may be left out.                       *)
LEMMA SumRestrict ==
    ASSUME NEW S, IsFiniteSet(S), NEW P \in SUBSET S, NEW f, NEW g,
           IntOn(f, P), \A x \in P : g[x] = f[x], \A x \in S \ P : g[x] = 0
    PROVE  SumFunctionOnSet(g, S) = SumFunctionOnSet(f, P)
<1> DEFINE Q == {T \in SUBSET S :
                    SumFunctionOnSet(g, T) = SumFunctionOnSet(f, T \cap P)}
<1>0. IsFiniteSet(P)
  BY FS_Subset
<1>1. ASSUME NEW T \in SUBSET S, \A W \in SUBSET T : W # T => W \in Q
      PROVE  T \in Q
  <2>1. CASE T = {}
    <3>1. T \cap P = {}
      BY <2>1
    <3> QED BY <2>1, <3>1, SumEmpty
  <2>2. CASE T # {}
    <3> DEFINE x == Pick(T)
               W == T \ {x}
    <3>1. IsFiniteSet(T) /\ x \in T
      BY <2>2, PickSmaller, FS_Subset
    <3>2. SumFunctionOnSet(g, W) = SumFunctionOnSet(f, W \cap P)
      BY <1>1, <2>2, PickSmaller
    <3>3. SumFunctionOnSet(g, T) = g[x] + SumFunctionOnSet(g, W)
      BY <2>2, <3>1, SumPick
    <3> HIDE DEF x
    <3>4. CASE x \in P
      <4>1. x \in T \cap P /\ T \cap P \in SUBSET P /\ (T \cap P) \ {x} = W \cap P
        BY <3>1, <3>4
      <4>2. SumFunctionOnSet(f, T \cap P)
              = f[x] + SumFunctionOnSet(f, (T \cap P) \ {x})
        BY <1>0, <4>1, SumRemoveAll
      <4> QED BY <3>2, <3>3, <3>4, <4>1, <4>2
    <3>5. CASE x \notin P
      <4>1. T \cap P = W \cap P /\ g[x] = 0 /\ W \cap P \in SUBSET P
        BY <3>1, <3>5
      <4>2. SumFunctionOnSet(f, W \cap P) \in Int
        BY <1>0, <4>1, SumInt
      <4> HIDE DEF W
      <4>3. SumFunctionOnSet(g, T) = SumFunctionOnSet(f, W \cap P)
        BY <3>2, <3>3, <4>1, <4>2
      <4> QED BY <4>1, <4>3
    <3> QED BY <3>4, <3>5
  <2> QED BY <2>1, <2>2
<1>2. Q \subseteq SUBSET S
  OBVIOUS
<1>3. Q = SUBSET S
  <2> HIDE DEF Q
  <2> QED BY <1>1, <1>2, SubsetInduction
<1>4. S \in Q /\ S \cap P = P
  BY <1>3
<1> QED BY <1>4

(* Larger summands give a larger sum.                                      *)
LEMMA SumMonotone ==
    ASSUME NEW S, IsFiniteSet(S), NEW f, NEW g, IntOn(f, S), IntOn(g, S),
           \A x \in S : f[x] <= g[x]
    PROVE  SumFunctionOnSet(f, S) <= SumFunctionOnSet(g, S)
<1> DEFINE d == [x \in S |-> g[x] - f[x]]
<1>1. \A x \in S : d[x] \in Nat /\ g[x] = f[x] + 1 * d[x]
  BY DEF IntOn
<1>2. S \in SUBSET S
  OBVIOUS
<1> HIDE DEF d
<1>3. SumFunctionOnSet(d, S) \in Nat /\ SumFunctionOnSet(f, S) \in Int
  BY <1>1, <1>2, SumNat, SumInt
<1>4. SumFunctionOnSet(g, S)
        = SumFunctionOnSet(f, S) + 1 * SumFunctionOnSet(d, S)
  <2>1. IntOn(d, S) /\ \A x \in S : g[x] = f[x] + 1 * d[x]
    BY <1>1 DEF IntOn
  <2> QED BY <2>1, SumLinear
<1> QED BY <1>3, <1>4

(* A table has one sum, added up by rows or by columns.                    *)
LEMMA SumSwap ==
    ASSUME NEW V, IsFiniteSet(V), NEW P, IsFiniteSet(P), NEW a,
           \A v \in V, p \in P : a[v][p] \in Int
    PROVE  SumFunctionOnSet([v \in V |-> SumFunctionOnSet(a[v], P)], V)
             = SumFunctionOnSet(
                  [p \in P |-> SumFunctionOnSet([v \in V |-> a[v][p]], V)], P)
<1> DEFINE rows == [v \in V |-> SumFunctionOnSet(a[v], P)]
           col(p) == [v \in V |-> a[v][p]]
           C(T) == [p \in P |-> SumFunctionOnSet(col(p), T)]
           Q == {T \in SUBSET V :
                    SumFunctionOnSet(rows, T) = SumFunctionOnSet(C(T), P)}
<1>0. /\ \A p \in P : IntOn(col(p), V)
      /\ \A v \in V : IntOn(a[v], P)
  BY DEF IntOn
<1>1. \A T \in SUBSET V : IntOn(C(T), P)
  <2>1. \A p \in P, T \in SUBSET V : SumFunctionOnSet(col(p), T) \in Int
    <3> HIDE DEF col
    <3> QED BY <1>0, SumInt
  <2> QED BY <2>1 DEF IntOn
<1>2. ASSUME NEW T \in SUBSET V, \A W \in SUBSET T : W # T => W \in Q
      PROVE  T \in Q
  <2>1. CASE T = {}
    <3>1. \A p \in P : C(T)[p] = 0
      BY <2>1, SumEmpty
    <3>2. SumFunctionOnSet(C(T), P) = 0
      <4> HIDE DEF C
      <4> QED BY <3>1, SumZero
    <3> QED BY <2>1, <3>2, SumEmpty
  <2>2. CASE T # {}
    <3> DEFINE x == Pick(T)
               W == T \ {x}
    <3>1. IsFiniteSet(T) /\ x \in T /\ x \in V /\ W \in SUBSET V
      BY <2>2, PickSmaller, FS_Subset
    <3>2. SumFunctionOnSet(rows, W) = SumFunctionOnSet(C(W), P)
      BY <1>2, <2>2, PickSmaller
    <3>3. SumFunctionOnSet(rows, T) = rows[x] + SumFunctionOnSet(rows, W)
      <4> HIDE DEF rows
      <4> QED BY <2>2, <3>1, SumPick
    <3>4. ASSUME NEW p \in P
          PROVE  SumFunctionOnSet(col(p), T)
                   = col(p)[x] + SumFunctionOnSet(col(p), W)
      <4> HIDE DEF col
      <4> QED BY <2>2, <3>1, SumPick
    <3> HIDE DEF x, W
    <3>5. \A p \in P : C(T)[p] = a[x][p] + 1 * C(W)[p]
      <4>1. \A p \in P : C(W)[p] \in Int
        BY <1>1, <3>1 DEF IntOn
      <4>2. \A p \in P : col(p)[x] = a[x][p]
        BY <3>1
      <4>3. \A p \in P : C(T)[p] = a[x][p] + C(W)[p]
        BY <3>4, <4>2
      <4> HIDE DEF C
      <4> QED BY <4>1, <4>3
    <3>6. IntOn(a[x], P) /\ IntOn(C(W), P)
      BY <1>0, <1>1, <3>1
    <3>7. rows[x] = SumFunctionOnSet(a[x], P)
      BY <3>1
    <3> HIDE DEF C, rows
    <3>8. SumFunctionOnSet(C(T), P)
            = SumFunctionOnSet(a[x], P) + 1 * SumFunctionOnSet(C(W), P)
      BY <3>5, <3>6, SumLinear
    <3>9. SumFunctionOnSet(C(W), P) \in Int
      <4>1. P \in SUBSET P
        OBVIOUS
      <4> QED BY <3>6, <4>1, SumInt
    <3> QED BY <3>2, <3>3, <3>7, <3>8, <3>9
  <2> QED BY <2>1, <2>2
<1>3. Q \subseteq SUBSET V
  OBVIOUS
<1>4. Q = SUBSET V
  <2> HIDE DEF Q
  <2> QED BY <1>2, <1>3, SubsetInduction
<1>5. V \in Q
  BY <1>4
<1> QED BY <1>5

-----------------------------------------------------------------------------
(* Induction over the naturals, as a fact about sets.                      *)

LEMMA LeastExists ==
    ASSUME NEW T \in SUBSET Nat, T # {}
    PROVE  \E i \in T : \A j \in T : i <= j
<1> DEFINE R == OpToRel(<, Nat)
<1>1. IsWellFoundedOn(R, Nat)
  BY NatLessThanWellFounded
<1>2. \A i, j \in Nat : i < j => <<i, j>> \in R
  BY DEF OpToRel
<1> HIDE DEF R
<1>3. PICK i \in T : \A j \in T : ~(<<j, i>> \in R)
  BY <1>1, WFMin
<1>4. ASSUME NEW j \in T PROVE i <= j
  <2>1. i \in Nat /\ j \in Nat /\ ~(<<j, i>> \in R)
    BY <1>3
  <2>2. ~(j < i)
    BY <1>2, <2>1
  <2> QED BY <2>1, <2>2
<1> QED BY <1>4

LEMMA NatSetInduction ==
    ASSUME NEW Q, 0 \in Q, \A n \in Nat : n \in Q => n + 1 \in Q
    PROVE  Nat \subseteq Q
<1> DEFINE T == Nat \ Q
<1>1. SUFFICES ASSUME T # {} PROVE FALSE
  OBVIOUS
<1>2. PICK i \in T : \A j \in T : i <= j
  <2>1. T \in SUBSET Nat
    OBVIOUS
  <2> HIDE DEF T
  <2> QED BY <1>1, <2>1, LeastExists
<1>3. i \in Nat /\ i # 0 /\ i - 1 \in Nat /\ i - 1 \notin T
  BY <1>2
<1>4. i - 1 \in Q /\ (i - 1) + 1 = i
  BY <1>3
<1> QED BY <1>2, <1>3, <1>4
=============================================================================
