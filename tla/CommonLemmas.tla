---------------------------- MODULE CommonLemmas ----------------------------
(***************************************************************************)
(* Lemmas that the proofs of several modules cite.                         *)
(*                                                                         *)
(* First sums over finite sets, and what they say of PayoutAllocation: the *)
(* whole pool is handed out, each proposal its exact share rounded down or *)
(* up.  SumFunction is a fold, and its value a matter of induction.  The   *)
(* induction is over a set of sets here: in a family of subsets that is    *)
(* closed under adding an element, nothing is missing, since a smallest    *)
(* missing set would be there.                                             *)
(*                                                                         *)
(* Then what every module built on RoundMirror may rely on: facts about    *)
(* one of its steps, the invariant that ties the row to the contract, and  *)
(* counts of ballots and voters.                                           *)
(***************************************************************************)
EXTENDS RoundMirror, PayoutAllocation, FiniteSetTheorems, TLAPS

\* Induction over the subsets of a finite set.
LEMMA SubsetInduction ==
  ASSUME NEW S, IsFiniteSet(S), NEW F, {} \in F,
         \A T \in SUBSET S : T # {} /\ (\A x \in T : T \ {x} \in F) => T \in F
  PROVE  SUBSET S \subseteq F
  <1> DEFINE Missing == {T \in SUBSET S : T \notin F}
  <1>1. IsWellFoundedOn(StrictSubsetOrdering(S), SUBSET S)
    BY FS_StrictSubsetOrderingWellFounded, FS_FiniteSubsetsOfFinite
  <1>2. SUFFICES ASSUME Missing # {} PROVE FALSE
    OBVIOUS
  <1>3. Missing \subseteq SUBSET S
    OBVIOUS
  <1>4. PICK T \in Missing : \A U \in Missing : <<U, T>> \notin StrictSubsetOrdering(S)
    <2> HIDE DEF Missing
    <2> QED BY <1>1, <1>2, <1>3, WFMin
  <1>5. ASSUME NEW x \in T PROVE T \ {x} \in F
    <2>1. <<T \ {x}, T>> \in StrictSubsetOrdering(S)
      BY <1>4, <1>5 DEF StrictSubsetOrdering
    <2> QED BY <1>4, <2>1
  <1> QED BY <1>4, <1>5

----------------------------------------------------------------------------
(* The recursion that SumFunctionOnSet is defined by has a solution.       *)

Pick(s) == CHOOSE x \in s : TRUE

\* g is the sum of f for every subset of S.
Sums(g, f, S) ==
  g = [s \in SUBSET S |-> IF s = {} THEN 0 ELSE f[Pick(s)] + g[s \ {Pick(s)}]]

LEMMA SumsEquation ==
  ASSUME NEW f, NEW S, NEW g, Sums(g, f, S), NEW s \in SUBSET S
  PROVE  /\ s = {} => g[s] = 0
         /\ s # {} => Pick(s) \in s /\ g[s] = f[Pick(s)] + g[s \ {Pick(s)}]
  <1>1. s # {} => Pick(s) \in s
    BY DEF Pick
  <1>2. g[s] = IF s = {} THEN 0 ELSE f[Pick(s)] + g[s \ {Pick(s)}]
    BY DEF Sums
  <1> QED BY <1>1, <1>2

\* Two solutions agree wherever both are defined.
LEMMA SumsAgree ==
  ASSUME NEW f, NEW S, NEW T, IsFiniteSet(S), IsFiniteSet(T),
         NEW g, Sums(g, f, S), NEW h, Sums(h, f, T),
         NEW s \in SUBSET S, s \in SUBSET T
  PROVE  g[s] = h[s]
  <1> DEFINE F == {u \in SUBSET s : g[u] = h[u]}
  <1>1. IsFiniteSet(s)
    BY FS_Subset
  <1>2. {} \in F
    <2>1. g[{}] = 0 /\ h[{}] = 0
      <3>1. {} \in SUBSET S /\ {} \in SUBSET T
        OBVIOUS
      <3> QED BY <3>1, SumsEquation
    <2> QED BY <2>1
  <1>3. ASSUME NEW u \in SUBSET s, u # {}, \A x \in u : u \ {x} \in F
        PROVE  u \in F
    <2>1. u \in SUBSET S /\ u \in SUBSET T
      OBVIOUS
    <2>2. Pick(u) \in u /\ g[u] = f[Pick(u)] + g[u \ {Pick(u)}]
      BY <1>3, <2>1, SumsEquation
    <2>3. h[u] = f[Pick(u)] + h[u \ {Pick(u)}]
      <3>1. Sums(h, f, T)
        OBVIOUS
      <3> QED BY ONLY <1>3, <2>1, <3>1, SumsEquation
    <2>4. g[u \ {Pick(u)}] = h[u \ {Pick(u)}]
      BY <1>3, <2>2
    <2> QED BY <2>2, <2>3, <2>4
  <1>4. SUBSET s \subseteq F
    <2> HIDE DEF F
    <2> QED BY <1>1, <1>2, <1>3, SubsetInduction
  <1> QED BY <1>4

\* There is one.
LEMMA SumsExists ==
  ASSUME NEW f, NEW S, IsFiniteSet(S)
  PROVE  \E g : Sums(g, f, S)
  <1> DEFINE F == {T \in SUBSET S : \E g : Sums(g, f, T)}
             H(T) == CHOOSE g : Sums(g, f, T)
  <1>1. {} \in F
    <2>1. Sums([s \in SUBSET {} |-> 0], f, {})
      BY DEF Sums
    <2> QED BY <2>1
  <1>2. ASSUME NEW T \in SUBSET S, T # {}, \A x \in T : T \ {x} \in F
        PROVE  T \in F
    <2> DEFINE g == [s \in SUBSET T |->
                       IF s = {} THEN 0
                       ELSE f[Pick(s)] + H(T \ {Pick(s)})[s \ {Pick(s)}]]
    <2>1. ASSUME NEW x \in T PROVE IsFiniteSet(T \ {x}) /\ Sums(H(T \ {x}), f, T \ {x})
      <3>1. \E k : Sums(k, f, T \ {x})
        BY <1>2
      <3>2. IsFiniteSet(T \ {x})
        BY FS_Subset
      <3> QED BY <3>1, <3>2
    <2>2. ASSUME NEW s \in SUBSET T, s # {}
          PROVE  g[s \ {Pick(s)}] = H(T \ {Pick(s)})[s \ {Pick(s)}]
      <3> DEFINE x == Pick(s)
                 u == s \ {x}
      <3>1. x \in s /\ x \in T /\ u \in SUBSET (T \ {x}) /\ u \in SUBSET T
        BY <2>2 DEF Pick
      <3>2. CASE u = {}
        <4>1. Sums(H(T \ {x}), f, T \ {x})
          BY <2>1, <3>1
        <4>2. H(T \ {x})[u] = 0
          <5> HIDE DEF H, x
          <5> QED BY <3>1, <3>2, <4>1, SumsEquation
        <4>3. g[u] = 0
          BY <3>1, <3>2
        <4> QED BY <4>2, <4>3
      <3>3. CASE u # {}
        <4> DEFINE y == Pick(u)
        <4>1. y \in u /\ y \in T /\ y # x
          BY <3>1, <3>3 DEF Pick
        <4>2. /\ IsFiniteSet(T \ {x}) /\ Sums(H(T \ {x}), f, T \ {x})
              /\ IsFiniteSet(T \ {y}) /\ Sums(H(T \ {y}), f, T \ {y})
          BY <2>1, <3>1, <4>1
        <4>3. H(T \ {x})[u] = f[y] + H(T \ {x})[u \ {y}]
          <5> HIDE DEF H, x, u
          <5> QED BY <3>1, <3>3, <4>2, SumsEquation DEF y
        <4>4. H(T \ {x})[u \ {y}] = H(T \ {y})[u \ {y}]
          <5>1. u \ {y} \in SUBSET (T \ {x}) /\ u \ {y} \in SUBSET (T \ {y})
            BY <3>1
          <5> HIDE DEF H, x, u, y
          <5> QED BY <4>2, <5>1, SumsAgree
        <4>5. g[u] = f[y] + H(T \ {y})[u \ {y}]
          BY <3>1, <3>3
        <4> QED BY <4>3, <4>4, <4>5
      <3> QED BY <3>2, <3>3
    <2>3. Sums(g, f, T)
      <3>1. \A s \in SUBSET T :
              g[s] = IF s = {} THEN 0 ELSE f[Pick(s)] + g[s \ {Pick(s)}]
        <4>1. ASSUME NEW s \in SUBSET T, s # {}
              PROVE  g[s] = f[Pick(s)] + g[s \ {Pick(s)}]
          <5>1. g[s] = f[Pick(s)] + H(T \ {Pick(s)})[s \ {Pick(s)}]
            BY <4>1
          <5> HIDE DEF g
          <5> QED BY <2>2, <4>1, <5>1
        <4>2. ASSUME NEW s \in SUBSET T, s = {} PROVE g[s] = 0
          BY <4>2
        <4> HIDE DEF g
        <4> QED BY <4>1, <4>2
      <3>2. g = [s \in SUBSET T |-> g[s]]
        OBVIOUS
      <3> HIDE DEF g
      <3> QED BY <3>1, <3>2 DEF Sums
    <2> HIDE DEF g
    <2> QED BY <2>3
  <1>3. SUBSET S \subseteq F
    <2> HIDE DEF F
    <2> QED BY <1>1, <1>2, SubsetInduction
  <1> QED BY <1>3

----------------------------------------------------------------------------
(* Sums of integers, in any order.                                         *)

\* SumFunctionOnSet is the solution of its recursion.
LEMMA SumIsSolution ==
  ASSUME NEW f, NEW S, IsFiniteSet(S), NEW g, Sums(g, f, S), NEW T \in SUBSET S
  PROVE  SumFunctionOnSet(f, T) = g[T]
  <1> DEFINE h == CHOOSE k : Sums(k, f, T)
  <1>1. SumFunctionOnSet(f, T) = h[T]
    BY Zenon DEF SumFunctionOnSet, FoldFunctionOnSet, MapThenFoldSet, Sums, Pick
  <1>2. IsFiniteSet(T)
    BY FS_Subset
  <1>3. Sums(h, f, T)
    BY <1>2, SumsExists
  <1>4. h[T] = g[T]
    <2>1. T \in SUBSET T
      OBVIOUS
    <2> HIDE DEF h
    <2> QED BY <1>2, <1>3, <2>1, SumsAgree
  <1> QED BY <1>1, <1>4

LEMMA SumEmpty == \A f : SumFunctionOnSet(f, {}) = 0
  <1> SUFFICES ASSUME NEW f PROVE SumFunctionOnSet(f, {}) = 0
    OBVIOUS
  <1>1. IsFiniteSet({})
    BY FS_EmptySet
  <1>2. PICK g : Sums(g, f, {})
    BY <1>1, SumsExists
  <1>3. {} \in SUBSET {}
    OBVIOUS
  <1>4. g[{}] = 0
    BY <1>2, <1>3, SumsEquation
  <1> QED BY <1>1, <1>2, <1>3, <1>4, SumIsSolution

LEMMA SumPick ==
  ASSUME NEW f, NEW S, IsFiniteSet(S), S # {}
  PROVE  /\ Pick(S) \in S
         /\ SumFunctionOnSet(f, S) = f[Pick(S)] + SumFunctionOnSet(f, S \ {Pick(S)})
  <1>1. PICK g : Sums(g, f, S)
    BY SumsExists
  <1>2. S # {} /\ S \in SUBSET S /\ S \ {Pick(S)} \in SUBSET S
    OBVIOUS
  <1>3. Pick(S) \in S /\ g[S] = f[Pick(S)] + g[S \ {Pick(S)}]
    BY ONLY <1>1, <1>2, SumsEquation
  <1>4. SumFunctionOnSet(f, S) = g[S]
    BY <1>1, <1>2, SumIsSolution
  <1>5. SumFunctionOnSet(f, S \ {Pick(S)}) = g[S \ {Pick(S)}]
    BY <1>1, <1>2, SumIsSolution
  <1> QED BY <1>3, <1>4, <1>5

LEMMA SumInt ==
  ASSUME NEW S, IsFiniteSet(S), NEW f, \A x \in S : f[x] \in Int
  PROVE  SumFunctionOnSet(f, S) \in Int
  <1> DEFINE F == {T \in SUBSET S : SumFunctionOnSet(f, T) \in Int}
  <1>1. {} \in F
    BY SumEmpty
  <1>2. ASSUME NEW T \in SUBSET S, T # {}, \A x \in T : T \ {x} \in F PROVE T \in F
    <2>1. IsFiniteSet(T)
      BY FS_Subset
    <2>2. /\ Pick(T) \in T
          /\ SumFunctionOnSet(f, T) = f[Pick(T)] + SumFunctionOnSet(f, T \ {Pick(T)})
      BY <1>2, <2>1, SumPick
    <2> QED BY <1>2, <2>2
  <1>3. SUBSET S \subseteq F
    <2> HIDE DEF F
    <2> QED BY <1>1, <1>2, SubsetInduction
  <1> QED BY <1>3

\* Any element can be taken out of a sum.
LEMMA SumRemove ==
  ASSUME NEW S, IsFiniteSet(S), NEW f, \A x \in S : f[x] \in Int, NEW y \in S
  PROVE  SumFunctionOnSet(f, S) = f[y] + SumFunctionOnSet(f, S \ {y})
  <1> DEFINE Sum(T) == SumFunctionOnSet(f, T)
             F == {T \in SUBSET S : \A x \in T : Sum(T) = f[x] + Sum(T \ {x})}
  <1>1. {} \in F
    OBVIOUS
  <1>2. ASSUME NEW T \in SUBSET S, T # {}, \A x \in T : T \ {x} \in F PROVE T \in F
    <2>1. SUFFICES ASSUME NEW x \in T PROVE Sum(T) = f[x] + Sum(T \ {x})
      OBVIOUS
    <2> DEFINE p == Pick(T)
    <2>2. IsFiniteSet(T)
      BY FS_Subset
    <2>3. p \in T /\ Sum(T) = f[p] + Sum(T \ {p})
      BY <1>2, <2>2, SumPick
    <2>4. CASE x = p
      BY <2>3, <2>4
    <2>5. CASE x # p
      <3> DEFINE U == (T \ {p}) \ {x}
      <3>1. U = (T \ {x}) \ {p}
        OBVIOUS
      <3>2. Sum(T \ {p}) = f[x] + Sum(U)
        <4>1. T \ {p} \in F /\ x \in T \ {p}
          BY <1>2, <2>3, <2>5
        <4> HIDE DEF p, Sum
        <4> QED BY <4>1
      <3>3. Sum(T \ {x}) = f[p] + Sum(U)
        <4>1. T \ {x} \in F /\ p \in T \ {x}
          BY <1>2, <2>3, <2>5
        <4> HIDE DEF p, Sum, U
        <4> QED BY <4>1, <3>1
      <3>4. Sum(U) \in Int
        <4>1. IsFiniteSet(U) /\ \A z \in U : f[z] \in Int
          BY <2>2, FS_Subset
        <4> HIDE DEF U
        <4> QED BY <4>1, SumInt
      <3>5. f[x] \in Int /\ f[p] \in Int
        BY <2>3
      <3> HIDE DEF Sum, U, p
      <3> QED BY <2>3, <3>2, <3>3, <3>4, <3>5
    <2> QED BY <2>4, <2>5
  <1>3. SUBSET S \subseteq F
    <2> HIDE DEF F
    <2> QED BY <1>1, <1>2, SubsetInduction
  <1> QED BY <1>3

LEMMA SumNat ==
  ASSUME NEW S, IsFiniteSet(S), NEW f, \A x \in S : f[x] \in Nat
  PROVE  SumFunctionOnSet(f, S) \in Nat
  <1> DEFINE F == {T \in SUBSET S : SumFunctionOnSet(f, T) \in Nat}
  <1>1. {} \in F
    BY SumEmpty
  <1>2. ASSUME NEW T \in SUBSET S, T # {}, \A x \in T : T \ {x} \in F PROVE T \in F
    <2>1. IsFiniteSet(T)
      BY FS_Subset
    <2>2. /\ Pick(T) \in T
          /\ SumFunctionOnSet(f, T) = f[Pick(T)] + SumFunctionOnSet(f, T \ {Pick(T)})
      BY <1>2, <2>1, SumPick
    <2> QED BY <1>2, <2>2
  <1>3. SUBSET S \subseteq F
    <2> HIDE DEF F
    <2> QED BY <1>1, <1>2, SubsetInduction
  <1> QED BY <1>3

\* No term of a sum of natural numbers is larger than the sum.
LEMMA SumBoundsTerm ==
  ASSUME NEW S, IsFiniteSet(S), NEW f, \A x \in S : f[x] \in Nat, NEW y \in S
  PROVE  f[y] <= SumFunctionOnSet(f, S)
  <1> DEFINE T == S \ {y}
  <1>1. IsFiniteSet(T) /\ T \subseteq S
    BY FS_Subset
  <1>2. SumFunctionOnSet(f, T) \in Nat
    <2> HIDE DEF T
    <2> QED BY <1>1, SumNat
  <1>3. SumFunctionOnSet(f, S) = f[y] + SumFunctionOnSet(f, T)
    BY SumRemove
  <1> HIDE DEF T
  <1> QED BY <1>2, <1>3

\* Sums are monotone ...
LEMMA SumCompare ==
  ASSUME NEW S, IsFiniteSet(S), NEW f, NEW g,
         \A x \in S : f[x] \in Int /\ g[x] \in Int /\ f[x] <= g[x]
  PROVE  SumFunctionOnSet(f, S) <= SumFunctionOnSet(g, S)
  <1> DEFINE F == {T \in SUBSET S : SumFunctionOnSet(f, T) <= SumFunctionOnSet(g, T)}
  <1>1. {} \in F
    BY SumEmpty
  <1>2. ASSUME NEW T \in SUBSET S, T # {}, \A x \in T : T \ {x} \in F PROVE T \in F
    <2> DEFINE p == Pick(T)
               U == T \ {p}
    <2>1. IsFiniteSet(T) /\ IsFiniteSet(U)
      BY FS_Subset
    <2>2. p \in T /\ SumFunctionOnSet(f, T) = f[p] + SumFunctionOnSet(f, U)
      BY <1>2, <2>1, SumPick
    <2>3. SumFunctionOnSet(g, T) = g[p] + SumFunctionOnSet(g, U)
      BY <1>2, <2>1, SumPick
    <2>4. SumFunctionOnSet(f, U) <= SumFunctionOnSet(g, U)
      BY <1>2, <2>2
    <2> HIDE DEF p, U
    <2>5. U \in SUBSET S
      BY DEF U
    <2>6. SumFunctionOnSet(f, U) \in Int /\ SumFunctionOnSet(g, U) \in Int
      BY <2>1, <2>5, SumInt
    <2> QED BY <2>2, <2>3, <2>4, <2>6
  <1>3. SUBSET S \subseteq F
    <2> HIDE DEF F
    <2> QED BY <1>1, <1>2, SubsetInduction
  <1> QED BY <1>3

LEMMA SumSame ==
  ASSUME NEW S, IsFiniteSet(S), NEW f, NEW g, \A x \in S : f[x] \in Int /\ f[x] = g[x]
  PROVE  SumFunctionOnSet(f, S) = SumFunctionOnSet(g, S)
  <1>1. SumFunctionOnSet(f, S) <= SumFunctionOnSet(g, S)
    BY SumCompare
  <1>2. SumFunctionOnSet(g, S) <= SumFunctionOnSet(f, S)
    BY SumCompare
  <1>3. SumFunctionOnSet(f, S) \in Int /\ SumFunctionOnSet(g, S) \in Int
    BY SumInt
  <1> QED BY <1>1, <1>2, <1>3

\* ... and linear.
LEMMA SumPlus ==
  ASSUME NEW S, IsFiniteSet(S), NEW f, NEW g, NEW h,
         \A x \in S : f[x] \in Int /\ g[x] \in Int /\ h[x] = f[x] + g[x]
  PROVE  SumFunctionOnSet(h, S) = SumFunctionOnSet(f, S) + SumFunctionOnSet(g, S)
  <1> DEFINE F == {T \in SUBSET S :
                     SumFunctionOnSet(h, T) = SumFunctionOnSet(f, T) + SumFunctionOnSet(g, T)}
  <1>1. {} \in F
    BY SumEmpty
  <1>2. ASSUME NEW T \in SUBSET S, T # {}, \A x \in T : T \ {x} \in F PROVE T \in F
    <2> DEFINE p == Pick(T)
               U == T \ {p}
    <2>1. IsFiniteSet(T) /\ IsFiniteSet(U)
      BY FS_Subset
    <2>2. p \in T /\ SumFunctionOnSet(f, T) = f[p] + SumFunctionOnSet(f, U)
      BY <1>2, <2>1, SumPick
    <2>3. SumFunctionOnSet(g, T) = g[p] + SumFunctionOnSet(g, U)
      BY <1>2, <2>1, SumPick
    <2>4. SumFunctionOnSet(h, T) = h[p] + SumFunctionOnSet(h, U)
      BY <1>2, <2>1, SumPick
    <2>5. SumFunctionOnSet(h, U) = SumFunctionOnSet(f, U) + SumFunctionOnSet(g, U)
      BY <1>2, <2>2
    <2> HIDE DEF p, U
    <2>6. U \in SUBSET S
      BY DEF U
    <2>7. SumFunctionOnSet(f, U) \in Int /\ SumFunctionOnSet(g, U) \in Int
      BY <2>1, <2>6, SumInt
    <2> QED BY <2>2, <2>3, <2>4, <2>5, <2>7
  <1>3. SUBSET S \subseteq F
    <2> HIDE DEF F
    <2> QED BY <1>1, <1>2, SubsetInduction
  <1> QED BY <1>3

LEMMA SumTimes ==
  ASSUME NEW S, IsFiniteSet(S), NEW f, NEW h, NEW k \in Int,
         \A x \in S : f[x] \in Int /\ h[x] = k * f[x]
  PROVE  SumFunctionOnSet(h, S) = k * SumFunctionOnSet(f, S)
  <1> DEFINE F == {T \in SUBSET S : SumFunctionOnSet(h, T) = k * SumFunctionOnSet(f, T)}
  <1>1. {} \in F
    BY SumEmpty
  <1>2. ASSUME NEW T \in SUBSET S, T # {}, \A x \in T : T \ {x} \in F PROVE T \in F
    <2> DEFINE p == Pick(T)
               U == T \ {p}
    <2>1. IsFiniteSet(T) /\ IsFiniteSet(U)
      BY FS_Subset
    <2>2. p \in T /\ SumFunctionOnSet(f, T) = f[p] + SumFunctionOnSet(f, U)
      BY <1>2, <2>1, SumPick
    <2>3. SumFunctionOnSet(h, T) = h[p] + SumFunctionOnSet(h, U)
      BY <1>2, <2>1, SumPick
    <2>4. SumFunctionOnSet(h, U) = k * SumFunctionOnSet(f, U)
      BY <1>2, <2>2
    <2> HIDE DEF p, U
    <2>5. U \in SUBSET S
      BY DEF U
    <2>6. SumFunctionOnSet(f, U) \in Int
      BY <2>1, <2>5, SumInt
    <2>7. k * (f[p] + SumFunctionOnSet(f, U)) = k * f[p] + k * SumFunctionOnSet(f, U)
      BY <2>2, <2>6
    <2> QED BY <2>2, <2>3, <2>4, <2>7
  <1>3. SUBSET S \subseteq F
    <2> HIDE DEF F
    <2> QED BY <1>1, <1>2, SubsetInduction
  <1> QED BY <1>3

LEMMA SumScaled ==
  ASSUME NEW S, IsFiniteSet(S), NEW f, NEW k \in Int, \A x \in S : f[x] \in Int
  PROVE  SumFunctionOnSet([x \in S |-> k * f[x]], S) = k * SumFunctionOnSet(f, S)
  <1> DEFINE h == [x \in S |-> k * f[x]]
  <1>1. \A x \in S : f[x] \in Int /\ h[x] = k * f[x]
    OBVIOUS
  <1> HIDE DEF h
  <1> QED BY <1>1, SumTimes

\* A sum of ones and zeros counts the ones.
LEMMA SumCounts ==
  ASSUME NEW S, IsFiniteSet(S), NEW f, \A x \in S : f[x] \in {0, 1}
  PROVE  SumFunctionOnSet(f, S) = Cardinality({x \in S : f[x] = 1})
  <1> DEFINE Ones(T) == {x \in T : f[x] = 1}
             F == {T \in SUBSET S : SumFunctionOnSet(f, T) = Cardinality(Ones(T))}
  <1>1. {} \in F
    <2>1. Ones({}) = {}
      OBVIOUS
    <2> QED BY <2>1, SumEmpty, FS_EmptySet
  <1>2. ASSUME NEW T \in SUBSET S, T # {}, \A x \in T : T \ {x} \in F PROVE T \in F
    <2> DEFINE p == Pick(T)
               U == T \ {p}
    <2>1. IsFiniteSet(T) /\ IsFiniteSet(Ones(T))
      BY FS_Subset
    <2>2. p \in T /\ SumFunctionOnSet(f, T) = f[p] + SumFunctionOnSet(f, U)
      BY <1>2, <2>1, SumPick
    <2>3. SumFunctionOnSet(f, U) = Cardinality(Ones(U))
      BY <1>2, <2>2
    <2>4. Ones(U) = Ones(T) \ {p}
      OBVIOUS
    <2>5. Cardinality(Ones(T)) \in Nat
      BY <2>1, FS_CardinalityType
    <2>6. Cardinality(Ones(U)) =
            IF p \in Ones(T) THEN Cardinality(Ones(T)) - 1 ELSE Cardinality(Ones(T))
      BY <2>1, <2>4, FS_RemoveElement
    <2>7. f[p] \in {0, 1} /\ (p \in Ones(T) <=> f[p] = 1)
      BY <2>2
    <2> HIDE DEF p, U, Ones
    <2> QED BY <2>2, <2>3, <2>5, <2>6, <2>7
  <1>3. SUBSET S \subseteq F
    <2> HIDE DEF F
    <2> QED BY <1>1, <1>2, SubsetInduction
  <1> QED BY <1>3

\* Running totals: the differences of c add up to it.
LEMMA SumTelescopes ==
  ASSUME NEW n \in Nat, NEW c, \A k \in 0 .. n : c[k] \in Int,
         NEW f, \A k \in 1 .. n : f[k] = c[k] - c[k - 1]
  PROVE  SumFunctionOnSet(f, 1 .. n) = c[n] - c[0]
  <1> DEFINE S == 1 .. n
             F == {T \in SUBSET S : \A m \in 0 .. n :
                     T = 1 .. m => SumFunctionOnSet(f, T) = c[m] - c[0]}
  <1>1. IsFiniteSet(S)
    BY FS_Interval
  <1>2. {} \in F
    <2>1. ASSUME NEW m \in 0 .. n, {} = 1 .. m PROVE c[m] - c[0] = 0
      <3>1. m = 0
        BY <2>1
      <3>2. c[0] \in Int
        OBVIOUS
      <3> QED BY <3>1, <3>2
    <2> QED BY <2>1, SumEmpty
  <1>3. ASSUME NEW T \in SUBSET S, T # {}, \A x \in T : T \ {x} \in F PROVE T \in F
    <2> SUFFICES ASSUME NEW m \in 0 .. n, T = 1 .. m
                 PROVE  SumFunctionOnSet(f, T) = c[m] - c[0]
      OBVIOUS
    <2>1. m \in T /\ m \in 1 .. n /\ T \ {m} = 1 .. (m - 1) /\ m - 1 \in 0 .. n
      BY <1>3
    <2>2. SumFunctionOnSet(f, T \ {m}) = c[m - 1] - c[0]
      BY <1>3, <2>1
    <2>3. \A x \in T : f[x] \in Int
      OBVIOUS
    <2>4. IsFiniteSet(T)
      BY <1>1, FS_Subset
    <2>5. SumFunctionOnSet(f, T) = f[m] + SumFunctionOnSet(f, T \ {m})
      BY <2>1, <2>3, <2>4, SumRemove
    <2> QED BY <2>1, <2>2, <2>5
  <1>4. SUBSET S \subseteq F
    <2> HIDE DEF F, S
    <2> QED BY <1>1, <1>2, <1>3, SubsetInduction
  <1>5. S \in F /\ n \in 0 .. n
    BY <1>4
  <1> QED BY <1>5

\* Counting by kind: how often each c of C is a value of b, for all c together.
LEMMA SumByKind ==
  ASSUME NEW V, IsFiniteSet(V), NEW b, NEW C, IsFiniteSet(C),
         NEW t, \A c \in C : t[c] = Cardinality({v \in V : b[v] = c})
  PROVE  SumFunctionOnSet(t, C) = Cardinality({v \in V : b[v] \in C})
  <1> DEFINE Of(T) == {v \in V : b[v] \in T}
             F == {T \in SUBSET C : SumFunctionOnSet(t, T) = Cardinality(Of(T))}
  <1>1. {} \in F
    <2>1. Of({}) = {}
      OBVIOUS
    <2> QED BY <2>1, SumEmpty, FS_EmptySet
  <1>2. ASSUME NEW T \in SUBSET C, T # {}, \A x \in T : T \ {x} \in F PROVE T \in F
    <2> DEFINE p == Pick(T)
               U == T \ {p}
               P == {v \in V : b[v] = p}
    <2>1. IsFiniteSet(T)
      BY FS_Subset
    <2>2. p \in T /\ SumFunctionOnSet(t, T) = t[p] + SumFunctionOnSet(t, U)
      BY <1>2, <2>1, SumPick
    <2>3. SumFunctionOnSet(t, U) = Cardinality(Of(U)) /\ t[p] = Cardinality(P)
      BY <1>2, <2>2
    <2>4. IsFiniteSet(P) /\ IsFiniteSet(Of(U))
      BY FS_Subset
    <2>5. Of(T) = P \cup Of(U) /\ P \cap Of(U) = {}
      BY <2>2
    <2>6. Cardinality(P) \in Nat /\ Cardinality(Of(U)) \in Nat /\ Cardinality({}) = 0
      BY <2>4, FS_CardinalityType, FS_EmptySet
    <2>7. Cardinality(Of(T)) = Cardinality(P) + Cardinality(Of(U))
      <3> DEFINE A == Of(T)
                 B == Of(U)
      <3> HIDE DEF P, U, A, B
      <3>1. Cardinality(P \cup B) = Cardinality(P) + Cardinality(B) - Cardinality(P \cap B)
        BY <2>4, FS_Union DEF B
      <3>2. A = P \cup B /\ P \cap B = {}
        BY <2>5 DEF A, B
      <3>3. Cardinality(P) \in Nat /\ Cardinality(B) \in Nat /\ Cardinality({}) = 0
        BY <2>6 DEF B
      <3>4. Cardinality(A) = Cardinality(P) + Cardinality(B) - Cardinality({})
        BY <3>1, <3>2, Zenon
      <3> QED BY <3>3, <3>4 DEF A, B
    <2> QED BY <2>2, <2>3, <2>7
  <1>3. SUBSET C \subseteq F
    <2> HIDE DEF F
    <2> QED BY <1>1, <1>2, SubsetInduction
  <1> QED BY <1>3

----------------------------------------------------------------------------
(* The order of the second loop: a place for every entry.                  *)

LEMMA BeforeIsTotalOrder ==
  ASSUME NEW D \in SUBSET Int, NEW rem \in [D -> Int]
  PROVE  /\ \A i \in D : ~Before(rem, i, i)
         /\ \A i, j, k \in D : Before(rem, i, j) /\ Before(rem, j, k) => Before(rem, i, k)
         /\ \A i, j \in D : i # j => Before(rem, i, j) \/ Before(rem, j, i)
  BY DEF Before

LEMMA PlaceOrders ==
  ASSUME NEW D \in SUBSET Int, IsFiniteSet(D), NEW rem \in [D -> Int]
  PROVE  /\ \A i \in D : Place(rem, i) \in 0 .. (Cardinality(D) - 1)
         /\ \A i, j \in D : Before(rem, i, j) => Place(rem, i) < Place(rem, j)
  <1> DEFINE Ahead(i) == {j \in D : Before(rem, j, i)}
  <1>1. \A i \in D : Place(rem, i) = Cardinality(Ahead(i)) /\ IsFiniteSet(Ahead(i))
    BY FS_Subset DEF Place
  <1>2. ASSUME NEW i \in D PROVE Place(rem, i) \in 0 .. (Cardinality(D) - 1)
    <2>1. Ahead(i) \in SUBSET D /\ Ahead(i) # D
      BY BeforeIsTotalOrder
    <2>2. Cardinality(Ahead(i)) \in Nat /\ Cardinality(D) \in Nat
      BY <1>1, FS_CardinalityType
    <2>3. Cardinality(Ahead(i)) <= Cardinality(D) /\ Cardinality(Ahead(i)) # Cardinality(D)
      <3> HIDE DEF Ahead
      <3> QED BY <2>1, FS_Subset
    <2> HIDE DEF Ahead
    <2> QED BY <1>1, <2>2, <2>3
  <1>3. ASSUME NEW i \in D, NEW j \in D, Before(rem, i, j)
        PROVE  Place(rem, i) < Place(rem, j)
    <2>1. Ahead(i) \in SUBSET Ahead(j)
      <3> SUFFICES ASSUME NEW k \in D, Before(rem, k, i) PROVE Before(rem, k, j)
        OBVIOUS
      <3> QED BY <1>3, BeforeIsTotalOrder
    <2>2. Ahead(i) # Ahead(j)
      <3>1. i \in Ahead(j) /\ i \notin Ahead(i)
        BY <1>3, BeforeIsTotalOrder
      <3> HIDE DEF Ahead
      <3> QED BY <3>1
    <2>3. Cardinality(Ahead(i)) \in Nat /\ Cardinality(Ahead(j)) \in Nat
      BY <1>1, FS_CardinalityType
    <2> HIDE DEF Ahead
    <2>4. Cardinality(Ahead(i)) <= Cardinality(Ahead(j))
          /\ Cardinality(Ahead(i)) # Cardinality(Ahead(j))
      BY <1>1, <2>1, <2>2, FS_Subset
    <2> QED BY <1>1, <2>3, <2>4
  <1> QED BY <1>2, <1>3

\* Every place is taken once: as many entries as wanted are in front.
LEMMA PlacesAreTaken ==
  ASSUME NEW D \in SUBSET Int, IsFiniteSet(D), NEW rem \in [D -> Int],
         NEW n \in 0 .. Cardinality(D)
  PROVE  Cardinality({i \in D : Place(rem, i) < n}) = n
  <1> DEFINE m == Cardinality(D)
             place == [i \in D |-> Place(rem, i)]
             A == {i \in D : Place(rem, i) < n}
             B == 0 .. (n - 1)
             front == [i \in A |-> place[i]]
  <1>1. m \in Nat /\ IsFiniteSet(0 .. (m - 1)) /\ Cardinality(0 .. (m - 1)) = m
    <2>1. m \in Nat
      BY FS_CardinalityType
    <2> HIDE DEF m
    <2>2. 0 \in Int /\ m - 1 \in Int
      BY <2>1
    <2>3. IsFiniteSet(0 .. (m - 1))
          /\ Cardinality(0 .. (m - 1)) = IF 0 > m - 1 THEN 0 ELSE (m - 1) - 0 + 1
      BY <2>2, FS_Interval
    <2> QED BY <2>1, <2>3
  <1>2. place \in Injection(D, 0 .. (m - 1))
    <2>1. \A i \in D : Place(rem, i) \in 0 .. (m - 1)
      BY PlaceOrders
    <2>2. ASSUME NEW i \in D, NEW j \in D, i # j PROVE place[i] # place[j]
      <3>1. Before(rem, i, j) \/ Before(rem, j, i)
        BY <2>2, BeforeIsTotalOrder
      <3>2. Place(rem, i) < Place(rem, j) \/ Place(rem, j) < Place(rem, i)
        BY <3>1, PlaceOrders
      <3> QED BY <1>1, <2>1, <3>2
    <2> QED BY <2>1, <2>2 DEF Injection, IsInjective
  <1>3. place \in Surjection(D, 0 .. (m - 1))
    <2> HIDE DEF place
    <2> QED BY <1>1, <1>2, FS_Injection
  <1>4. front \in Bijection(A, B)
    <2>1. \A i \in A : front[i] \in B
      BY <1>1, PlaceOrders
    <2>2. \A i, j \in A : front[i] = front[j] => i = j
      <3>1. \A i, j \in D : place[i] = place[j] => i = j
        <4> HIDE DEF place
        <4> QED BY <1>2 DEF Injection, IsInjective
      <3> QED BY <3>1
    <2>3. ASSUME NEW k \in B PROVE \E i \in A : front[i] = k
      <3>1. k \in 0 .. (m - 1)
        BY <1>1
      <3>2. PICK i \in D : place[i] = k
        <4> HIDE DEF place
        <4> QED BY <1>3, <3>1 DEF Surjection
      <3>3. i \in A
        BY <3>2
      <3> QED BY <3>2, <3>3
    <2> QED BY <2>1, <2>2, <2>3 DEF Bijection, Injection, IsInjective, Surjection
  <1>5. IsFiniteSet(A)
    BY FS_Subset
  <1>6. Cardinality(B) = n
    <2>1. n \in Int /\ 0 \in Int /\ n - 1 \in Int /\ n >= 0
      BY <1>1
    <2>2. Cardinality(0 .. (n - 1)) = IF 0 > n - 1 THEN 0 ELSE (n - 1) - 0 + 1
      BY <2>1, FS_Interval
    <2> QED BY <2>1, <2>2
  <1>7. ExistsBijection(A, B)
    BY <1>4 DEF ExistsBijection
  <1> HIDE DEF A, B
  <1>8. Cardinality(A) = n
    BY <1>5, <1>6, <1>7, FS_Bijection
  <1> QED BY <1>8 DEF A

----------------------------------------------------------------------------
(* Division with remainder, and the largest-remainder allocation.          *)

LEMMA DivFloor ==
  ASSUME NEW a \in Nat, NEW b \in Nat \ {0}
  PROVE  /\ a \div b \in Nat
         /\ a % b \in 0 .. (b - 1)
         /\ a = (a \div b) * b + (a % b)
  OBVIOUS

LEMMA Cancel ==
  ASSUME NEW x \in Int, NEW y \in Int, NEW t \in Nat \ {0}, x * t <= y * t
  PROVE  x <= y
  OBVIOUS

LEMMA CancelStrict ==
  ASSUME NEW x \in Int, NEW y \in Int, NEW t \in Nat \ {0}, x * t < y * t
  PROVE  x < y
  OBVIOUS

\* A quota and its remainder make up the exact share.
LEMMA QuotaRemainder ==
  ASSUME NEW p \in Nat, NEW v \in Nat, NEW t \in Nat \ {0}
  PROVE  /\ Quota(p, v, t) \in Nat
         /\ Remainder(p, v, t) \in 0 .. (t - 1)
         /\ p * v = Quota(p, v, t) * t + Remainder(p, v, t)
  <1> DEFINE a == p * v
  <1>1. a \in Nat
    OBVIOUS
  <1>2. a \div t \in Nat /\ a % t \in 0 .. (t - 1) /\ a = (a \div t) * t + (a % t)
    <2> HIDE DEF a
    <2> QED BY <1>1, DivFloor
  <1> QED BY <1>2 DEF Quota, Remainder

\* More votes, no smaller quota; and with the same quota, a larger remainder.
LEMMA QuotaMonotone ==
  ASSUME NEW p \in Nat \ {0}, NEW v \in Nat, NEW w \in Nat, NEW t \in Nat \ {0}, v < w
  PROVE  /\ Quota(p, v, t) <= Quota(p, w, t)
         /\ Quota(p, v, t) = Quota(p, w, t) => Remainder(p, v, t) < Remainder(p, w, t)
  <1> DEFINE q1 == Quota(p, v, t)
             q2 == Quota(p, w, t)
             r1 == Remainder(p, v, t)
             r2 == Remainder(p, w, t)
  <1>1. q1 \in Nat /\ r1 \in 0 .. (t - 1) /\ p * v = q1 * t + r1
    BY QuotaRemainder
  <1>2. q2 \in Nat /\ r2 \in 0 .. (t - 1) /\ p * w = q2 * t + r2
    BY QuotaRemainder
  <1>3. p * v < p * w
    OBVIOUS
  <1> HIDE DEF q1, q2, r1, r2
  <1>4. q1 * t + r1 < q2 * t + r2
    <2> DEFINE a == p * v  b == p * w
    <2>1. a < b /\ a = q1 * t + r1 /\ b = q2 * t + r2
      BY <1>1, <1>2, <1>3
    <2> HIDE DEF a, b
    <2> QED BY <2>1
  <1>5. q1 < q2 + 1
    <2> DEFINE x == q1 * t  y == q2 * t
    <2>1. x \in Int /\ y \in Int /\ (q2 + 1) * t = y + t
      BY <1>1, <1>2
    <2>2. x < y + t
      <3> HIDE DEF x, y
      <3>1. x + r1 < y + r2
        BY <1>4 DEF x, y
      <3> QED BY <1>1, <1>2, <2>1, <3>1
    <2>3. q1 * t < (q2 + 1) * t
      BY <2>1, <2>2
    <2> QED BY <1>1, <1>2, <2>3, CancelStrict
  <1>6. q1 = q2 => r1 < r2
    <2> SUFFICES ASSUME q1 = q2 PROVE r1 < r2
      OBVIOUS
    <2> DEFINE x == q1 * t
    <2>1. x \in Int /\ x + r1 < x + r2
      BY <1>1, <1>4
    <2> HIDE DEF x
    <2> QED BY <1>1, <1>2, <2>1
  <1> QED BY <1>1, <1>2, <1>5, <1>6 DEF q1, q2, r1, r2

Quotas(pool, votes, total) == [i \in DOMAIN votes |-> Quota(pool, votes[i], total)]

Remainders(pool, votes, total) == [i \in DOMAIN votes |-> Remainder(pool, votes[i], total)]

Leftover(pool, votes, total) == pool - SumFunction(Quotas(pool, votes, total))

LEMMA AmountsForm ==
  ASSUME NEW pool, NEW votes, NEW total, NEW i \in DOMAIN votes
  PROVE  Amounts(pool, votes, total)[i] =
           IF Place(Remainders(pool, votes, total), i) < Leftover(pool, votes, total)
             THEN Quotas(pool, votes, total)[i] + 1
             ELSE Quotas(pool, votes, total)[i]
  BY DEF Amounts, Quotas, Remainders, Leftover

\* Rounding down loses less than one stroop per entry that has a remainder.
LEMMA LeftoverBound ==
  ASSUME NEW D \in SUBSET Int, IsFiniteSet(D), NEW votes \in [D -> Nat],
         NEW pool \in Nat, NEW total \in Nat \ {0}, total = SumFunction(votes)
  PROVE  LET rest == {i \in D : Remainders(pool, votes, total)[i] # 0}
         IN  /\ Leftover(pool, votes, total) \in Nat
             /\ Leftover(pool, votes, total) <= Cardinality(rest)
             /\ Cardinality(rest) <= Cardinality(D)
  <1> DEFINE quota == Quotas(pool, votes, total)
             rem   == Remainders(pool, votes, total)
             exact == [i \in D |-> pool * votes[i]]
             scaled == [i \in D |-> total * quota[i]]
             rest  == {i \in D : rem[i] # 0}
             one   == [i \in D |-> IF rem[i] = 0 THEN 0 ELSE 1]
             most  == [i \in D |-> total * one[i]]
             Sum(f) == SumFunctionOnSet(f, D)
             L     == Leftover(pool, votes, total)
  <1>1. ASSUME NEW i \in D
        PROVE  /\ quota[i] \in Nat
               /\ rem[i] \in 0 .. (total - 1)
               /\ exact[i] = scaled[i] + rem[i]
               /\ exact[i] \in Int /\ scaled[i] \in Int
    <2> DEFINE v == votes[i]
    <2>1. v \in Nat /\ quota[i] = Quota(pool, v, total) /\ rem[i] = Remainder(pool, v, total)
      BY DEF Quotas, Remainders
    <2> HIDE DEF v
    <2>2. /\ Quota(pool, v, total) \in Nat
          /\ Remainder(pool, v, total) \in 0 .. (total - 1)
          /\ pool * v = Quota(pool, v, total) * total + Remainder(pool, v, total)
      BY <2>1, QuotaRemainder
    <2>3. exact[i] = pool * v /\ scaled[i] = total * quota[i]
      BY DEF v
    <2> QED BY <2>1, <2>2, <2>3
  <1>2. Sum(exact) = pool * total
    <2>1. total = SumFunctionOnSet(votes, D)
      BY DEF SumFunction
    <2>2. pool \in Int /\ \A i \in D : votes[i] \in Int
      OBVIOUS
    <2> QED BY <2>1, <2>2, SumScaled
  <1>3. Sum(scaled) = total * Sum(quota)
    <2>1. total \in Int /\ \A i \in D : quota[i] \in Int
      BY <1>1
    <2> HIDE DEF quota
    <2> QED BY <2>1, SumScaled
  <1>4. Sum(exact) = Sum(scaled) + Sum(rem)
    <2>1. \A i \in D : scaled[i] \in Int /\ rem[i] \in Int /\ exact[i] = scaled[i] + rem[i]
      BY <1>1
    <2> HIDE DEF scaled, rem, exact
    <2> QED BY <2>1, SumPlus
  <1>5. Sum(quota) \in Nat /\ Sum(rem) \in Nat
    <2>1. \A i \in D : quota[i] \in Nat /\ rem[i] \in Nat
      BY <1>1
    <2> HIDE DEF quota, rem
    <2> QED BY <2>1, SumNat
  <1>6. Sum(one) = Cardinality(rest)
    <2>1. \A i \in D : one[i] \in {0, 1}
      OBVIOUS
    <2>2. {i \in D : one[i] = 1} = rest
      OBVIOUS
    <2>3. Sum(one) = Cardinality({i \in D : one[i] = 1})
      <3> HIDE DEF one
      <3> QED BY <2>1, SumCounts
    <2> QED BY <2>2, <2>3
  <1>7. Sum(rem) <= total * Cardinality(rest)
    <2>1. \A i \in D : rem[i] \in Int /\ most[i] \in Int /\ rem[i] <= most[i]
      BY <1>1
    <2>2. Sum(rem) <= Sum(most)
      <3> HIDE DEF rem, most
      <3> QED BY <2>1, SumCompare
    <2>3. total \in Int /\ \A i \in D : one[i] \in Int
      OBVIOUS
    <2>4. Sum(most) = total * Sum(one)
      <3> HIDE DEF one
      <3> QED BY <2>3, SumScaled
    <2> QED BY <1>6, <2>2, <2>4
  <1>8. Cardinality(rest) \in Nat /\ Cardinality(rest) <= Cardinality(D)
    <2>1. rest \in SUBSET D
      OBVIOUS
    <2> HIDE DEF rest
    <2> QED BY <2>1, FS_Subset, FS_CardinalityType
  <1>9. L = pool - Sum(quota)
    BY DEF Leftover, SumFunction, Quotas
  <1>10. pool * total = total * Sum(quota) + Sum(rem)
    BY <1>2, <1>3, <1>4
  <1> DEFINE q == Sum(quota)
             r == Sum(rem)
             c == Cardinality(rest)
  <1> HIDE DEF q, r, c, L, quota, rem, rest
  <1>11. /\ q \in Nat /\ r \in Nat /\ c \in Nat /\ L = pool - q
         /\ pool * total = total * q + r /\ r <= total * c
    BY <1>5, <1>7, <1>8, <1>9, <1>10 DEF q, r, c
  <1>12. q <= pool
    <2>1. q * total <= pool * total
      BY <1>11
    <2> QED BY <1>11, <2>1, Cancel
  <1>13. L <= c
    <2>1. L \in Int /\ L * total = pool * total - q * total
      BY <1>11
    <2>2. L * total = r
      BY <1>11, <2>1
    <2>3. L * total <= c * total
      BY <1>11, <2>2
    <2> QED BY <1>11, <2>1, <2>3, Cancel
  <1> QED BY <1>8, <1>11, <1>12, <1>13 DEF L, c, rest, rem

\* The whole pool is handed out, each entry gets its share rounded down or up,
\* an entry whose share is whole gets just that, and more votes never get less.
IsFairSplit(a, pool, votes, total) ==
  /\ SumFunction(a) = pool
  /\ \A i \in DOMAIN votes : a[i] - Quota(pool, votes[i], total) \in {0, 1}
  /\ \A i \in DOMAIN votes :
       Remainder(pool, votes[i], total) = 0 => a[i] = Quota(pool, votes[i], total)
  /\ pool > 0 => \A i, j \in DOMAIN votes : votes[i] < votes[j] => a[i] <= a[j]

\* What allocate_stroops returns for a tally with votes is such a split.
LEMMA AmountsAreFair ==
  ASSUME NEW D \in SUBSET Int, IsFiniteSet(D), NEW votes \in [D -> Nat],
         NEW pool \in Nat, NEW total \in Nat \ {0}, total = SumFunction(votes)
  PROVE  /\ Amounts(pool, votes, total) \in [D -> Nat]
         /\ IsFairSplit(Amounts(pool, votes, total), pool, votes, total)
  <1> DEFINE a     == Amounts(pool, votes, total)
             quota == Quotas(pool, votes, total)
             rem   == Remainders(pool, votes, total)
             L     == Leftover(pool, votes, total)
             extra == [i \in D |-> IF Place(rem, i) < L THEN 1 ELSE 0]
             rest  == {i \in D : rem[i] # 0}
  <1>1. DOMAIN votes = D /\ DOMAIN a = D /\ a = [i \in D |-> a[i]]
    BY DEF Amounts
  <1>2. ASSUME NEW i \in D
        PROVE  /\ quota[i] = Quota(pool, votes[i], total)
               /\ rem[i] = Remainder(pool, votes[i], total)
               /\ quota[i] \in Nat /\ rem[i] \in 0 .. (total - 1)
    <2> DEFINE v == votes[i]
    <2>1. v \in Nat /\ quota[i] = Quota(pool, v, total) /\ rem[i] = Remainder(pool, v, total)
      BY DEF Quotas, Remainders
    <2> HIDE DEF v, quota, rem
    <2>2. Quota(pool, v, total) \in Nat /\ Remainder(pool, v, total) \in 0 .. (total - 1)
      BY <2>1, QuotaRemainder
    <2>3. /\ quota[i] = Quota(pool, v, total) /\ rem[i] = Remainder(pool, v, total)
          /\ quota[i] \in Nat /\ rem[i] \in 0 .. (total - 1)
      BY <2>1, <2>2
    <2> QED BY <2>3 DEF v
  <1>3. rem \in [D -> Int]
    <2>1. rem = [i \in D |-> rem[i]]
      BY DEF Remainders
    <2> HIDE DEF rem
    <2> QED BY <1>2, <2>1
  <1>4. ASSUME NEW i \in D PROVE a[i] = quota[i] + extra[i] /\ extra[i] \in {0, 1}
    <2>1. a[i] = IF Place(rem, i) < L THEN quota[i] + 1 ELSE quota[i]
      BY <1>1, AmountsForm
    <2> HIDE DEF a, quota, rem, L
    <2> QED BY <1>2, <2>1
  <1>5. L \in Nat /\ L <= Cardinality(rest) /\ Cardinality(rest) <= Cardinality(D)
        /\ Cardinality(rest) \in Nat /\ Cardinality(D) \in Nat
    <2>1. L \in Nat /\ L <= Cardinality(rest) /\ Cardinality(rest) <= Cardinality(D)
      BY LeftoverBound
    <2>2. rest \in SUBSET D
      OBVIOUS
    <2>3. IsFiniteSet(rest)
      <3> HIDE DEF rest
      <3> QED BY <2>2, FS_Subset
    <2> HIDE DEF rest, L
    <2> QED BY <2>1, <2>3, FS_CardinalityType
  <1>6. SumFunction(a) = pool
    <2>1. SumFunction(a) = SumFunctionOnSet(a, D)
      BY <1>1 DEF SumFunction
    <2>2. \A i \in D : quota[i] \in Int /\ extra[i] \in Int /\ a[i] = quota[i] + extra[i]
      BY <1>2, <1>4
    <2>3. SumFunctionOnSet(a, D) = SumFunctionOnSet(quota, D) + SumFunctionOnSet(extra, D)
      <3> HIDE DEF a, quota, extra
      <3> QED BY <2>2, SumPlus
    <2>4. SumFunctionOnSet(extra, D) = L
      <3>1. \A i \in D : extra[i] \in {0, 1}
        BY <1>4
      <3>2. {i \in D : extra[i] = 1} = {i \in D : Place(rem, i) < L}
        OBVIOUS
      <3>3. SumFunctionOnSet(extra, D) = Cardinality({i \in D : extra[i] = 1})
        <4> HIDE DEF extra
        <4> QED BY <3>1, SumCounts
      <3>4. Cardinality({i \in D : Place(rem, i) < L}) = L
        <4> HIDE DEF rem, L, rest
        <4>1. L \in 0 .. Cardinality(D)
          BY <1>5
        <4> QED BY <1>3, <4>1, PlacesAreTaken
      <3> QED BY <3>2, <3>3, <3>4
    <2>5. L = pool - SumFunctionOnSet(quota, D)
      BY <1>1 DEF Leftover, SumFunction, Quotas
    <2>6. SumFunctionOnSet(quota, D) \in Int
      <3>1. \A i \in D : quota[i] \in Int
        BY <1>2
      <3> HIDE DEF quota
      <3> QED BY <3>1, SumInt
    <2> HIDE DEF L, a, extra, quota
    <2> QED BY <2>1, <2>3, <2>4, <2>5, <2>6
  <1>7. ASSUME NEW i \in D, rem[i] = 0 PROVE extra[i] = 0
    <2> DEFINE ahead == {j \in D : Before(rem, j, i)}
    <2>1. rest \in SUBSET ahead
      <3>1. SUFFICES ASSUME NEW j \in D, rem[j] # 0 PROVE Before(rem, j, i)
        OBVIOUS
      <3>2. rem[j] \in Nat
        BY <1>2
      <3> HIDE DEF rem
      <3> QED BY <1>7, <3>1, <3>2 DEF Before
    <2>2. Place(rem, i) = Cardinality(ahead)
      BY <1>1 DEF Place, Remainders
    <2>3. IsFiniteSet(ahead)
      BY FS_Subset
    <2>4. Cardinality(rest) <= Cardinality(ahead) /\ Cardinality(ahead) \in Nat
      <3> HIDE DEF rest, ahead
      <3> QED BY <2>1, <2>3, FS_Subset, FS_CardinalityType
    <2>5. ~(Place(rem, i) < L)
      <3> HIDE DEF rest, ahead, L, rem
      <3> QED BY <1>5, <2>2, <2>4
    <2> QED BY <2>5
  <1>8. ASSUME pool > 0, NEW i \in D, NEW j \in D, votes[i] < votes[j]
        PROVE  a[i] <= a[j]
    <2>1. votes[i] \in Nat /\ votes[j] \in Nat /\ pool \in Nat \ {0}
      BY <1>8
    <2>2. quota[i] <= quota[j] /\ (quota[i] = quota[j] => rem[i] < rem[j])
      <3> DEFINE v == votes[i]  w == votes[j]
      <3>1. v \in Nat /\ w \in Nat /\ v < w
        BY <1>8, <2>1
      <3> HIDE DEF v, w
      <3>2. /\ Quota(pool, v, total) <= Quota(pool, w, total)
            /\ Quota(pool, v, total) = Quota(pool, w, total) =>
                 Remainder(pool, v, total) < Remainder(pool, w, total)
        BY <2>1, <3>1, QuotaMonotone
      <3> QED BY <1>2, <3>2 DEF v, w
    <2>3. CASE quota[i] = quota[j]
      <3>1. Before(rem, j, i)
        <4>1. rem[i] < rem[j] /\ rem[i] \in Int /\ rem[j] \in Int
          BY <1>2, <2>2, <2>3
        <4> HIDE DEF rem
        <4> QED BY <4>1 DEF Before
      <3>2. Place(rem, j) < Place(rem, i) /\ Place(rem, i) \in Int /\ Place(rem, j) \in Int
        <4> HIDE DEF rem
        <4>1. Place(rem, j) < Place(rem, i)
          BY <1>3, <3>1, PlaceOrders
        <4>2. \A k \in D : Place(rem, k) \in 0 .. (Cardinality(D) - 1)
          BY <1>3, PlaceOrders
        <4> QED BY <4>1, <4>2
      <3>3. extra[i] <= extra[j]
        <4> HIDE DEF rem, L
        <4> QED BY <1>5, <3>2
      <3> HIDE DEF a, quota, extra
      <3> QED BY <1>2, <1>4, <2>3, <3>3
    <2>4. CASE quota[i] < quota[j]
      <3> HIDE DEF a, quota, extra
      <3> QED BY <1>2, <1>4, <2>4
    <2> HIDE DEF quota
    <2> QED BY <1>2, <2>2, <2>3, <2>4
  <1>9. a \in [D -> Nat]
    <2>1. \A i \in D : a[i] \in Nat
      <3> HIDE DEF a, quota, extra
      <3> QED BY <1>2, <1>4
    <2> HIDE DEF a
    <2> QED BY <1>1, <2>1
  <1>10. \A i \in D :
           /\ a[i] - Quota(pool, votes[i], total) \in {0, 1}
           /\ Remainder(pool, votes[i], total) = 0 => a[i] = Quota(pool, votes[i], total)
    <2> HIDE DEF a, quota, extra, rem
    <2> QED BY <1>2, <1>4, <1>7
  <1> HIDE DEF a
  <1> QED BY <1>1, <1>6, <1>8, <1>9, <1>10 DEF IsFairSplit, a

\* So does the allocation; nothing is handed out when nobody voted.
LEMMA AllocationSum ==
  ASSUME NEW D \in SUBSET Int, IsFiniteSet(D), NEW votes \in [D -> Nat], NEW pool \in Nat
  PROVE  /\ SumFunction(votes) \in Nat
         /\ AllocatedAmounts(pool, votes) \in [D -> Nat]
         /\ SumFunction(AllocatedAmounts(pool, votes)) =
              IF SumFunction(votes) = 0 THEN 0 ELSE pool
  <1> DEFINE total == SumFunction(votes)
  <1>1. total \in Nat
    <2>1. total = SumFunctionOnSet(votes, D) /\ \A x \in D : votes[x] \in Nat
      BY DEF SumFunction
    <2> HIDE DEF total
    <2> QED BY <2>1, SumNat
  <1>2. CASE total = 0
    <2> DEFINE zeros == [i \in D |-> 0]
    <2>1. AllocatedAmounts(pool, votes) = zeros
      BY <1>2 DEF AllocatedAmounts
    <2>2. SumFunction(zeros) = SumFunctionOnSet(zeros, D)
      BY DEF SumFunction
    <2>3. {i \in D : zeros[i] = 1} = {} /\ \A i \in D : zeros[i] \in {0, 1}
      OBVIOUS
    <2>4. SumFunctionOnSet(zeros, D) = Cardinality({i \in D : zeros[i] = 1})
      <3> HIDE DEF zeros
      <3> QED BY <2>3, SumCounts
    <2>5. SumFunction(zeros) = 0
      BY <2>2, <2>3, <2>4, FS_EmptySet
    <2> QED BY <1>2, <2>1, <2>5
  <1>3. CASE total # 0
    <2>1. AllocatedAmounts(pool, votes) = Amounts(pool, votes, total)
      BY <1>3 DEF AllocatedAmounts
    <2>2. total \in Nat \ {0} /\ total = SumFunction(votes)
      BY <1>1, <1>3
    <2> HIDE DEF total
    <2>3. Amounts(pool, votes, total) \in [D -> Nat]
          /\ SumFunction(Amounts(pool, votes, total)) = pool
      BY <2>2, AmountsAreFair DEF IsFairSplit
    <2> QED BY <1>3, <2>1, <2>2, <2>3
  <1> QED BY <1>1, <1>2, <1>3

\* Sorted indices: the entry at position a is the one with a - 1 before it, and
\* every entry has a position.
LEMMA SortedPlaces ==
  ASSUME NEW n \in Nat, NEW rem \in [1 .. n -> Int], NEW order \in [1 .. n -> 1 .. n],
         \A a, b \in 1 .. n : a < b => Before(rem, order[a], order[b])
  PROVE  /\ \A a \in 1 .. n : Place(rem, order[a]) = a - 1
         /\ \A k \in 1 .. n : \E a \in 1 .. n : order[a] = k
  <1> DEFINE D == 1 .. n
  <1>1. IsFiniteSet(D) /\ D \in SUBSET Int
    BY FS_Interval
  <1>2. \A a, b \in D : a < b \/ b < a \/ a = b
    OBVIOUS
  <1>3. ASSUME NEW a \in D, NEW b \in D, order[a] = order[b] PROVE a = b
    <2>1. ~Before(rem, order[a], order[b]) /\ ~Before(rem, order[b], order[a])
      <3>1. order[a] \in D /\ ~Before(rem, order[a], order[a])
        BY <1>1, BeforeIsTotalOrder
      <3> QED BY <1>3, <3>1
    <2> QED BY <1>2, <2>1
  <1>4. order \in Injection(D, D)
    BY <1>3 DEF Injection, IsInjective
  <1>5. order \in Surjection(D, D)
    <2> HIDE DEF D
    <2> QED BY <1>1, <1>4, FS_Injection
  <1>6. \A k \in D : \E a \in D : order[a] = k
    BY <1>5 DEF Surjection
  <1>7. ASSUME NEW a \in D PROVE Place(rem, order[a]) = a - 1
    <2> DEFINE A == 1 .. (a - 1)
               ahead == {j \in D : Before(rem, j, order[a])}
               f == [b \in A |-> order[b]]
    <2>1. A \subseteq D /\ \A b \in D : b \in A <=> b < a
      OBVIOUS
    <2>2. ASSUME NEW b \in D PROVE order[b] \in ahead <=> b < a
      <3>1. order[a] \in D /\ order[b] \in D
        OBVIOUS
      <3>2. b < a => Before(rem, order[b], order[a])
        OBVIOUS
      <3>3. ~(b < a) => ~Before(rem, order[b], order[a])
        <4>1. CASE a = b
          BY <1>1, <3>1, <4>1, BeforeIsTotalOrder
        <4>2. CASE a < b
          <5>1. Before(rem, order[a], order[b]) /\ ~Before(rem, order[a], order[a])
            BY <1>1, <3>1, <4>2, BeforeIsTotalOrder
          <5> QED BY <1>1, <3>1, <5>1, BeforeIsTotalOrder
        <4> QED BY <1>2, <4>1, <4>2
      <3> QED BY <3>1, <3>2, <3>3
    <2>3. f \in Bijection(A, ahead)
      <3>1. \A b \in A : f[b] = order[b] /\ b \in D /\ f[b] \in ahead
        BY <2>1, <2>2
      <3>2. \A b, c \in A : f[b] = f[c] => b = c
        BY <1>3, <3>1
      <3>3. \A j \in ahead : \E b \in A : f[b] = j
        <4> SUFFICES ASSUME NEW j \in ahead PROVE \E b \in A : f[b] = j
          OBVIOUS
        <4>1. PICK b \in D : order[b] = j
          BY <1>6
        <4>2. b \in A
          BY <2>1, <2>2, <4>1
        <4> QED BY <3>1, <4>1, <4>2
      <3> HIDE DEF ahead, A
      <3>4. f \in [A -> ahead]
        BY <3>1
      <3> HIDE DEF f
      <3> QED BY <3>2, <3>3, <3>4 DEF Bijection, Injection, IsInjective, Surjection
    <2>4. IsFiniteSet(A) /\ Cardinality(A) = a - 1
      <3>1. 1 \in Int /\ a - 1 \in Int /\ a >= 1
        OBVIOUS
      <3>2. IsFiniteSet(A) /\ Cardinality(A) = IF 1 > a - 1 THEN 0 ELSE (a - 1) - 1 + 1
        BY <3>1, FS_Interval
      <3> QED BY <3>1, <3>2
    <2>5. Cardinality(ahead) = Cardinality(A)
      <3>1. ExistsBijection(A, ahead)
        BY <2>3 DEF ExistsBijection
      <3> HIDE DEF A, ahead
      <3> QED BY <2>4, <3>1, FS_Bijection
    <2>6. Place(rem, order[a]) = Cardinality(ahead)
      BY DEF Place
    <2> QED BY <2>4, <2>5, <2>6
  <1> QED BY <1>6, <1>7

----------------------------------------------------------------------------
(* The round.                                                              *)

\* The row of a round never runs ahead of the round on the chain.
RowNotAhead == Rank(dbPhase) <= Rank(chainPhase)

MirrorInv == ChainTypeOK /\ dbPhase \in DbPhases /\ RowNotAhead

LEMMA MirrorStarts == MirrorInit => MirrorInv
  BY DEF MirrorInit, MirrorInv, ChainTypeOK, Phases, DbPhases, RowNotAhead, Rank

LEMMA MirrorMoves ==
  MirrorInv /\ [MirrorNext]_<<chain, dbPhase>> => MirrorInv'
  <1> SUFFICES ASSUME MirrorInv, [MirrorNext]_<<chain, dbPhase>> PROVE MirrorInv'
    OBVIOUS
  <1> USE DEF MirrorInv, ChainTypeOK, Phases, DbPhases, RowNotAhead, Rank
  <1>1. CASE RowAppears
    BY <1>1 DEF RowAppears, chain
  <1>2. CASE ChainOpens
    BY <1>2 DEF ChainOpens, MayOpenVoting, OpenVoting
  <1>3. CASE ChainFinalizes
    BY <1>3 DEF ChainFinalizes, MayFinalize, FinalizeRound
  <1>4. ASSUME NEW phase \in {"voting", "finalized"}, RowIsMarked(phase)
        PROVE  MirrorInv'
    BY <1>4 DEF RowIsMarked, chain
  <1>5. ASSUME NEW v \in Voters, VoterRegisters(v) PROVE MirrorInv'
    BY <1>5 DEF VoterRegisters, Register
  <1>6. ASSUME NEW v \in Voters, NEW c \in Choices, VoterVotes(v, c) PROVE MirrorInv'
    BY <1>6 DEF VoterVotes, CastVote, Proof
  <1>7. ASSUME NEW v \in Voters, NEW mark \in BOOLEAN, AdminMarks(v, mark)
        PROVE  MirrorInv'
    BY <1>7 DEF AdminMarks, SetEligible
  <1>8. CASE UNCHANGED <<chain, dbPhase>>
    BY <1>8 DEF chain
  <1> QED
    BY <1>1, <1>2, <1>3, <1>4, <1>5, <1>6, <1>7, <1>8 DEF MirrorNext, RoundMoves, VotersAct

\* The contract goes forward: registration stays closed, the leaves are frozen
\* with it and only grow before; a vote is final; a finalized round is frozen.
LEMMA RoundGoesForward ==
  ASSUME ChainTypeOK, [MirrorNext]_<<chain, dbPhase>>
  PROVE  /\ \A i \in 1 .. Len(leaves) : i \in 1 .. Len(leaves') /\ leaves'[i] = leaves[i]
         /\ Registered \subseteq Registered'
         /\ chainPhase # "Registration" => chainPhase' # "Registration" /\ leaves' = leaves
         /\ \A n \in Voters : ballots[n] # NoVote => ballots'[n] = ballots[n]
         /\ chainPhase = "Finalized" => UNCHANGED <<chainPhase, leaves, ballots>>
  <1> DEFINE Forward ==
        /\ \A i \in 1 .. Len(leaves) : i \in 1 .. Len(leaves') /\ leaves'[i] = leaves[i]
        /\ chainPhase # "Registration" => chainPhase' # "Registration" /\ leaves' = leaves
        /\ \A n \in Voters : ballots[n] # NoVote => ballots'[n] = ballots[n]
        /\ chainPhase = "Finalized" => UNCHANGED <<chainPhase, leaves, ballots>>
  <1>1. ASSUME UNCHANGED chain PROVE Forward
    BY <1>1 DEF chain
  <1>2. ASSUME ChainOpens PROVE Forward
    BY <1>2 DEF ChainOpens, MayOpenVoting, OpenVoting
  <1>3. ASSUME ChainFinalizes PROVE Forward
    BY <1>3 DEF ChainFinalizes, MayFinalize, FinalizeRound
  <1>4. ASSUME NEW v \in Voters, VoterRegisters(v) PROVE Forward
    BY <1>4 DEF VoterRegisters, MayRegister, Register, ChainTypeOK
  <1>5. ASSUME NEW v \in Voters, NEW c \in Choices, VoterVotes(v, c) PROVE Forward
    BY <1>5 DEF VoterVotes, MayCastVote, CastVote, Proof, ChainTypeOK
  <1>6. ASSUME NEW v \in Voters, NEW mark \in BOOLEAN, AdminMarks(v, mark)
        PROVE  Forward
    BY <1>6 DEF AdminMarks, SetEligible
  <1>7. RowAppears \/ (\E phase \in {"voting", "finalized"} : RowIsMarked(phase))
          => UNCHANGED chain
    BY DEF RowAppears, RowIsMarked
  <1>8. Forward
    <2> HIDE DEF Forward
    <2> QED BY <1>1, <1>2, <1>3, <1>4, <1>5, <1>6, <1>7
        DEF MirrorNext, RoundMoves, VotersAct, chain
  <1>9. Registered \subseteq Registered'
    BY <1>8 DEF Registered
  <1> QED BY <1>8, <1>9

\* A row marked finalized is of a finalized round, and one marked voting of a
\* round that has been opened.
LEMMA RowTellsPhase ==
  ASSUME MirrorInv
  PROVE  /\ dbPhase = "finalized" => chainPhase = "Finalized"
         /\ dbPhase = "voting" => chainPhase # "Registration"
  BY DEF MirrorInv, RowNotAhead, Rank, ChainTypeOK, Phases

----------------------------------------------------------------------------
(* Ballots, counted by choice or by nullifier.                             *)

LEMMA ChoicesAreFinite == Choices \in SUBSET Int /\ IsFiniteSet(Choices)
  <1>1. NumChoices \in Nat
    BY ContractAssumption DEF ContractAssumption
  <1> QED BY <1>1, FS_Interval DEF Choices

\* The number of votes per choice is a natural number, the voters being finite.
LEMMA TallyType == Tally \in [Choices -> Nat]
  <1>1. SUFFICES ASSUME NEW c \in Choices
                 PROVE  Cardinality({n \in Voters : ballots[n] = c}) \in Nat
    BY DEF Tally
  <1>2. IsFiniteSet({n \in Voters : ballots[n] = c})
    BY ContractAssumption, FS_Subset DEF ContractAssumption
  <1> QED BY <1>2, FS_CardinalityType

\* The tally counts every ballot once.
LEMMA TallyCountsBallots ==
  ASSUME ChainTypeOK
  PROVE  BallotCount \in Nat /\ SumFunction(Tally) = BallotCount
  <1> DEFINE Cast == {n \in Voters : ballots[n] # NoVote}
  <1>1. IsFiniteSet(Voters)
    BY ContractAssumption DEF ContractAssumption
  <1>2. \A c \in Choices : Tally[c] = Cardinality({n \in Voters : ballots[n] = c})
    BY DEF Tally
  <1>3. {n \in Voters : ballots[n] \in Choices} = Cast
    BY ContractAssumption DEF ContractAssumption, ChainTypeOK
  <1>4. SumFunctionOnSet(Tally, Choices) = Cardinality({n \in Voters : ballots[n] \in Choices})
    <2> DEFINE t == Tally
    <2>1. /\ IsFiniteSet(Voters) /\ IsFiniteSet(Choices)
          /\ \A c \in Choices : t[c] = Cardinality({n \in Voters : ballots[n] = c})
      BY <1>1, <1>2, ChoicesAreFinite
    <2> HIDE DEF t
    <2>2. SumFunctionOnSet(t, Choices) = Cardinality({n \in Voters : ballots[n] \in Choices})
      BY ONLY <2>1, SumByKind
    <2> QED BY <2>2 DEF t
  <1>5. SumFunction(Tally) = SumFunctionOnSet(Tally, Choices)
    BY DEF SumFunction, Tally
  <1>6. Cardinality(Cast) \in Nat
    BY <1>1, FS_Subset, FS_CardinalityType
  <1>7. SumFunction(Tally) = Cardinality(Cast)
    BY <1>3, <1>4, <1>5, Zenon
  <1> QED BY <1>6, <1>7 DEF BallotCount

\* Only registered voters have ballots.
ElectorateVotes == \A n \in Voters : ballots[n] # NoVote => n \in Registered

LEMMA ElectorateStarts == MirrorInit => ElectorateVotes
  BY DEF MirrorInit, ElectorateVotes

LEMMA ElectorateMoves ==
  MirrorInv /\ ElectorateVotes /\ [MirrorNext]_<<chain, dbPhase>> => ElectorateVotes'
  <1> SUFFICES ASSUME MirrorInv, ElectorateVotes, [MirrorNext]_<<chain, dbPhase>>,
                      NEW n \in Voters, ballots'[n] # NoVote
               PROVE  n \in Registered'
    BY DEF ElectorateVotes
  <1>1. Registered \subseteq Registered'
    BY RoundGoesForward DEF MirrorInv
  <1>2. ballots[n] # NoVote \/ n \in Registered
    <2>1. ASSUME NEW v \in Voters, NEW c \in Choices, VoterVotes(v, c)
          PROVE  ballots'[n] = ballots[n] \/ n \in Registered
      BY <2>1 DEF VoterVotes, CastVote, MayCastVote, Proof, MirrorInv, ChainTypeOK
    <2>2. ~(\E v \in Voters, c \in Choices : VoterVotes(v, c)) => ballots' = ballots
      BY DEF MirrorNext, RoundMoves, VotersAct, RowAppears, RowIsMarked, ChainOpens,
             OpenVoting, ChainFinalizes, FinalizeRound, VoterRegisters, Register,
             AdminMarks, SetEligible, chain
    <2> QED BY <2>1, <2>2
  <1> QED BY <1>1, <1>2 DEF ElectorateVotes

\* There are no more ballots than registrations.
LEMMA BallotsWithinElectorate ==
  ASSUME ChainTypeOK, ElectorateVotes
  PROVE  BallotCount <= RegisteredCount
  <1> DEFINE Cast == {n \in Voters : ballots[n] # NoVote}
             k == Len(leaves)
             f == [i \in 1 .. k |-> leaves[i]]
  <1>1. k \in Nat
    BY DEF ChainTypeOK
  <1>2. f \in Surjection(1 .. k, Registered)
    BY DEF Surjection, Registered
  <1>3. IsFiniteSet(Registered)
    <2>1. Registered \in SUBSET Voters /\ IsFiniteSet(Voters)
      BY ContractAssumption DEF ContractAssumption, Registered, ChainTypeOK
    <2> QED BY <2>1, FS_Subset
  <1>4. Cardinality(Registered) <= k
    <2>1. ExistsSurjection(1 .. k, Registered)
      BY <1>2 DEF ExistsSurjection
    <2> HIDE DEF k
    <2> QED BY <1>1, <2>1, FS_SurjCardinalityBound
  <1>5. Cast \in SUBSET Registered
    BY DEF ElectorateVotes
  <1>6. Cardinality(Cast) <= Cardinality(Registered) /\ Cardinality(Cast) \in Nat
        /\ Cardinality(Registered) \in Nat
    <2> HIDE DEF Cast
    <2> QED BY <1>3, <1>5, FS_Subset, FS_CardinalityType
  <1> HIDE DEF Cast
  <1>7. Cardinality(Cast) <= k
    BY <1>1, <1>4, <1>6
  <1> QED BY <1>7 DEF BallotCount, RegisteredCount, Cast
=============================================================================
