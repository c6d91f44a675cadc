---------------------------- MODULE FinanceProofs ----------------------------
(***************************************************************************)
(* Proofs about the money of a forecast for every calendar, load, schedule *)
(* and horizon: what the sums over hours, months and years are, what the   *)
(* rollover of a year and a SEG settlement keep, how a bill and what is    *)
(* saved move with the load, how NPV, IRR, MIRR, payback, LCOE and the     *)
(* crossover year of one cash flow agree, and that a bill is what the      *)
(* utility's rate card charges.                                            *)
(*                                                                         *)
(* Induction is done here by least counterexamples: the strict subsets of  *)
(* a finite set are well founded, so a set of subsets or of numbers that   *)
(* fail has a least one.  Sets stand for the predicates of an induction.   *)
(***************************************************************************)
EXTENDS Finance, UrdbParse, FiniteSetTheorems, WellFoundedInduction, TLAPS

----------------------------------------------------------------------------
\* Induction

IsMinimal(x, F) == x \in F /\ \A y \in F : y \subseteq x => y = x

\* Of some subsets of a finite set one has none of the others within it.
LEMMA MinimalSubset ==
  ASSUME NEW S, IsFiniteSet(S), NEW F, F \subseteq SUBSET S, F # {}
  PROVE  \E x : IsMinimal(x, F)
<1>1. F \subseteq FiniteSubsetsOf(S)
  BY FS_Subset DEF FiniteSubsetsOf
<1>2. PICK x \in F : \A y \in F : ~(<<y, x>> \in StrictSubsetOrdering(S))
  BY <1>1, FS_StrictSubsetOrderingWellFounded, WFMin, Zenon
<1>3. ASSUME NEW y \in F, y \subseteq x, y # x PROVE FALSE
  <2>1. <<y, x>> \in StrictSubsetOrdering(S)
    BY <1>3 DEF StrictSubsetOrdering
  <2> QED BY <1>2, <2>1, Zenon
<1> QED BY <1>3 DEF IsMinimal

\* Of some natural numbers one is the least.
LEMMA LeastNatural ==
  ASSUME NEW T \in SUBSET Nat, T # {}
  PROVE  \E n \in T : \A k \in T : n <= k
<1>1. PICK b \in T : TRUE
  OBVIOUS
<1> DEFINE F == {0..k : k \in {j \in T : j <= b}}
<1>2. IsFiniteSet(0..b)
  BY FS_Interval
<1>3. F \subseteq SUBSET (0..b) /\ F # {}
  BY <1>1
<1> HIDE DEF F
<1>4. PICK x : IsMinimal(x, F)
  BY <1>2, <1>3, MinimalSubset, Zenon
<1>5. PICK n \in T : n <= b /\ x = 0..n
  BY <1>4 DEF F, IsMinimal
<1>6. ASSUME NEW k \in T, k < n PROVE FALSE
  <2>1. 0..k \in F
    BY <1>5, <1>6 DEF F
  <2>2. 0..k \subseteq 0..n /\ 0..k # 0..n
    BY <1>6
  <2> QED BY <1>4, <1>5, <2>1, <2>2 DEF IsMinimal
<1> QED BY <1>6

\* What holds of zero and of the successors of what it holds of.
LEMMA CountingUp ==
  ASSUME NEW T \in SUBSET Nat, 0 \in T, \A n \in T : n + 1 \in T
  PROVE  T = Nat
<1> SUFFICES ASSUME Nat \ T # {} PROVE FALSE
  OBVIOUS
<1>1. PICK n \in Nat \ T : \A k \in Nat \ T : n <= k
  BY LeastNatural
<1>2. n # 0 /\ n - 1 \in Nat /\ n - 1 \in T
  BY <1>1
<1> QED BY <1>1, <1>2

\* What holds of the empty set and of one element more.
LEMMA AddingOne ==
  ASSUME NEW S, IsFiniteSet(S), NEW F, {} \in F,
         \A T \in SUBSET S : \A x \in S \ T : T \in F => T \cup {x} \in F
  PROVE  S \in F
<1> SUFFICES ASSUME S \notin F PROVE FALSE
  OBVIOUS
<1> DEFINE G == {T \in SUBSET S : T \notin F}
<1>1. G \subseteq SUBSET S /\ G # {}
  OBVIOUS
<1>2. PICK x : IsMinimal(x, G)
  BY <1>1, MinimalSubset, Zenon
<1>3. x \in SUBSET S /\ x \notin F
  BY <1>2 DEF IsMinimal
<1>4. PICK e \in x : TRUE
  BY <1>3
<1>5. x \ {e} \in F
  BY <1>2, <1>3, <1>4 DEF IsMinimal
<1>6. (x \ {e}) \cup {e} = x
  BY <1>4
<1> QED BY <1>3, <1>4, <1>5, <1>6

----------------------------------------------------------------------------
\* Sums

Pick(s) == CHOOSE x \in s : TRUE

\* g takes every part of S to the sum of f over it
Sums(S, f, g) ==
  g = [s \in SUBSET S |-> IF s = {} THEN 0 ELSE f[Pick(s)] + g[s \ {Pick(s)}]]

LEMMA SumsExist ==
  ASSUME NEW S, IsFiniteSet(S), NEW f
  PROVE  \E g : Sums(S, f, g)
<1> DEFINE Small(n) == {s \in SUBSET S : Cardinality(s) <= n}
           Eq(g, s) == g[s] = IF s = {} THEN 0 ELSE f[Pick(s)] + g[s \ {Pick(s)}]
           T == {n \in Nat : \E g : \A s \in Small(n) : Eq(g, s)}
<1>0. \A s \in SUBSET S : IsFiniteSet(s) /\ Cardinality(s) \in Nat
  BY FS_Subset, FS_CardinalityType
<1>1. 0 \in T
  <2>1. \A s \in Small(0) : s = {}
    BY <1>0, FS_EmptySet
  <2>2. \A s \in Small(0) : Eq([s1 \in {{}} |-> 0], s)
    BY <2>1
  <2> QED BY <2>2
<1>2. ASSUME NEW n \in T PROVE n + 1 \in T
  <2>1. PICK g : \A s \in Small(n) : Eq(g, s)
    OBVIOUS
  <2> DEFINE h == [s \in SUBSET S |-> IF s \in Small(n) THEN g[s]
                                      ELSE f[Pick(s)] + g[s \ {Pick(s)}]]
  <2>2. ASSUME NEW s \in Small(n + 1) PROVE Eq(h, s)
    <3>1. CASE s = {}
      BY <2>1, <3>1, FS_EmptySet
    <3>2. CASE s # {}
      <4>1. Pick(s) \in s
        BY <3>2 DEF Pick
      <4>2. Cardinality(s \ {Pick(s)}) = Cardinality(s) - 1
        BY <1>0, <4>1, FS_RemoveElement
      <4>3. s \ {Pick(s)} \in Small(n)
        BY <1>0, <4>2
      <4>4. h[s \ {Pick(s)}] = g[s \ {Pick(s)}]
        BY <4>3
      <4>5. h[s] = f[Pick(s)] + g[s \ {Pick(s)}]
        BY <2>1, <3>2
      <4> QED BY <3>2, <4>4, <4>5
    <3> QED BY <3>1, <3>2
  <2> HIDE DEF h, Eq, Small
  <2>3. \E g1 : \A s \in Small(n + 1) : Eq(g1, s)
    BY <2>2
  <2> QED BY <2>3
<1> HIDE DEF T
<1>3. T = Nat
  BY <1>1, <1>2, CountingUp DEF T
<1>4. PICK g : \A s \in Small(Cardinality(S)) : Eq(g, s)
  BY <1>0, <1>3 DEF T
<1>5. \A s \in SUBSET S : s \in Small(Cardinality(S))
  BY FS_Subset
<1> DEFINE h == [s \in SUBSET S |-> g[s]]
<1>6. Sums(S, f, h)
  BY <1>4, <1>5 DEF Sums
<1> QED BY <1>6

\* The sum the fold chooses is one of them.
LEMMA SumIsChosen ==
  ASSUME NEW S, IsFiniteSet(S), NEW f
  PROVE  \E g : Sums(S, f, g) /\ SumOver(S, f) = g[S]
<1>1. SumOver(S, f) = (CHOOSE g : Sums(S, f, g))[S]
  BY DEF SumOver, SumFunctionOnSet, FoldFunctionOnSet, MapThenFoldSet, Pick, Sums
<1> QED BY <1>1, SumsExist

\* It is the same for a set and for its parts.
LEMMA SumsAgree ==
  ASSUME NEW S, IsFiniteSet(S), NEW f, NEW g, Sums(S, f, g), NEW T \in SUBSET S
  PROVE  SumOver(T, f) = g[T]
<1>1. IsFiniteSet(T)
  BY FS_Subset
<1>2. PICK h : Sums(T, f, h) /\ SumOver(T, f) = h[T]
  BY <1>1, SumIsChosen
<1> DEFINE F == {s \in SUBSET T : h[s] = g[s]}
           G == {s \in SUBSET T : s \notin F}
<1>3. ASSUME G # {} PROVE FALSE
  <2>1. PICK x : IsMinimal(x, G)
    BY <1>1, <1>3, MinimalSubset, Zenon
  <2>2. x \in SUBSET T /\ h[x] # g[x] /\ x \in SUBSET S
    BY <2>1 DEF IsMinimal
  <2>3. /\ h[x] = IF x = {} THEN 0 ELSE f[Pick(x)] + h[x \ {Pick(x)}]
        /\ g[x] = IF x = {} THEN 0 ELSE f[Pick(x)] + g[x \ {Pick(x)}]
    BY <1>2, <2>2 DEF Sums
  <2>4. x # {} /\ Pick(x) \in x
    BY <2>2, <2>3 DEF Pick
  <2>5. h[x \ {Pick(x)}] = g[x \ {Pick(x)}]
    <3>1. x \ {Pick(x)} \in SUBSET T /\ x \ {Pick(x)} \subseteq x /\ x \ {Pick(x)} # x
      BY <2>2, <2>4
    <3>2. x \ {Pick(x)} \notin G
      BY <2>1, <3>1 DEF IsMinimal
    <3> QED BY <3>1, <3>2
  <2> QED BY <2>2, <2>3, <2>4, <2>5
<1>4. T \in F
  BY <1>3
<1> QED BY <1>2, <1>4

LEMMA SumEmpty == \A f : SumOver({}, f) = 0
<1> SUFFICES ASSUME NEW f PROVE SumOver({}, f) = 0
  OBVIOUS
<1>1. PICK g : Sums({}, f, g) /\ SumOver({}, f) = g[{}]
  BY SumIsChosen, FS_EmptySet
<1> QED BY <1>1 DEF Sums

LEMMA SumPick ==
  ASSUME NEW S, IsFiniteSet(S), S # {}, NEW f
  PROVE  /\ Pick(S) \in S
         /\ SumOver(S, f) = f[Pick(S)] + SumOver(S \ {Pick(S)}, f)
<1>1. PICK g : Sums(S, f, g) /\ SumOver(S, f) = g[S]
  BY SumIsChosen
<1>2. g[S] = f[Pick(S)] + g[S \ {Pick(S)}]
  BY <1>1 DEF Sums
<1>3. SumOver(S \ {Pick(S)}, f) = g[S \ {Pick(S)}]
  BY <1>1, SumsAgree
<1> QED BY <1>1, <1>2, <1>3 DEF Pick

\* A sum of integers is an integer.
LEMMA SumType ==
  ASSUME NEW S, IsFiniteSet(S), NEW f, \A x \in S : f[x] \in Int
  PROVE  SumOver(S, f) \in Int
<1> DEFINE G == {s \in SUBSET S : SumOver(s, f) \notin Int}
<1>1. ASSUME G # {} PROVE FALSE
  <2>1. PICK x : IsMinimal(x, G)
    BY <1>1, MinimalSubset, Zenon
  <2>2. x \in SUBSET S /\ SumOver(x, f) \notin Int
    BY <2>1 DEF IsMinimal
  <2>3. x # {}
    <3>1. SumOver({}, f) \in Int
      BY SumEmpty
    <3> QED BY <2>2, <3>1
  <2>4. Pick(x) \in x /\ SumOver(x, f) = f[Pick(x)] + SumOver(x \ {Pick(x)}, f)
    BY <2>2, <2>3, FS_Subset, SumPick
  <2>5. SumOver(x \ {Pick(x)}, f) \in Int
    BY <2>1, <2>2, <2>4 DEF IsMinimal
  <2>6. f[Pick(x)] \in Int
    BY <2>2, <2>4
  <2> QED BY <2>2, <2>4, <2>5, <2>6
<1> QED BY <1>1

\* Whichever element is taken out first.
LEMMA SumTakeOut ==
  ASSUME NEW S, IsFiniteSet(S), NEW f, \A x \in S : f[x] \in Int, NEW e \in S
  PROVE  SumOver(S, f) = f[e] + SumOver(S \ {e}, f)
<1> DEFINE G == {s \in SUBSET S : \E x \in s : SumOver(s, f) # f[x] + SumOver(s \ {x}, f)}
<1>1. ASSUME G # {} PROVE FALSE
  <2>1. PICK s : IsMinimal(s, G)
    BY <1>1, MinimalSubset, Zenon
  <2>2. PICK x \in s : SumOver(s, f) # f[x] + SumOver(s \ {x}, f)
    BY <2>1 DEF IsMinimal
  <2>3. s \in SUBSET S /\ s # {} /\ IsFiniteSet(s)
    BY <2>1, <2>2, FS_Subset DEF IsMinimal
  <2> DEFINE p == Pick(s)
  <2>4. p \in s /\ SumOver(s, f) = f[p] + SumOver(s \ {p}, f)
    BY <2>3, SumPick
  <2> HIDE DEF p
  <2>5. p # x
    BY <2>2, <2>4
  <2>6. \A r \in SUBSET S : r \subseteq s /\ r # s =>
          \A y \in r : SumOver(r, f) = f[y] + SumOver(r \ {y}, f)
    BY <2>1 DEF IsMinimal
  <2>7. SumOver(s \ {p}, f) = f[x] + SumOver((s \ {p}) \ {x}, f)
    BY <2>2, <2>3, <2>4, <2>5, <2>6
  <2>8. SumOver(s \ {x}, f) = f[p] + SumOver((s \ {x}) \ {p}, f)
    BY <2>2, <2>3, <2>4, <2>5, <2>6
  <2> DEFINE rest == (s \ {x}) \ {p}
  <2>9. (s \ {p}) \ {x} = rest
    OBVIOUS
  <2>10. SumOver(rest, f) \in Int /\ f[x] \in Int /\ f[p] \in Int
    <3>1. IsFiniteSet(rest) /\ rest \subseteq S
      BY <2>3, FS_Subset
    <3> QED BY <2>2, <2>3, <2>4, <3>1, SumType
  <2>11. SumOver(s, f) = f[p] + (f[x] + SumOver(rest, f))
    BY <2>4, <2>7, <2>9
  <2>12. SumOver(s \ {x}, f) = f[p] + SumOver(rest, f)
    BY <2>8
  <2> HIDE DEF rest
  <2>13. SumOver(s, f) = f[x] + SumOver(s \ {x}, f)
    BY <2>10, <2>11, <2>12
  <2> QED BY <2>2, <2>13
<1> QED BY <1>1

\* One element more.
LEMMA SumAdd ==
  ASSUME NEW S, IsFiniteSet(S), NEW e, e \notin S, NEW f, \A x \in S \cup {e} : f[x] \in Int
  PROVE  SumOver(S \cup {e}, f) = SumOver(S, f) + f[e]
<1> DEFINE U == S \cup {e}
<1>1. IsFiniteSet(U) /\ U \ {e} = S /\ e \in U
  BY FS_AddElement
<1>2. \A x \in U : f[x] \in Int
  OBVIOUS
<1>3. SumOver(S, f) \in Int
  BY SumType
<1> HIDE DEF U
<1>4. SumOver(U, f) = f[e] + SumOver(S, f) /\ f[e] \in Int
  BY <1>1, <1>2, SumTakeOut
<1>5. SumOver(U, f) = SumOver(S, f) + f[e]
  BY <1>3, <1>4
<1> QED BY <1>5 DEF U

\* A sum follows what it adds up: equal terms, larger terms, terms that are
\* sums, and terms with a common factor.
LEMMA SumSame ==
  ASSUME NEW S, IsFiniteSet(S), NEW f, NEW g, \A x \in S : f[x] = g[x] /\ f[x] \in Int
  PROVE  SumOver(S, f) = SumOver(S, g)
<1> DEFINE F == {T \in SUBSET S : SumOver(T, f) = SumOver(T, g)}
<1>1. {} \in F
  BY SumEmpty
<1>2. ASSUME NEW T \in SUBSET S, NEW x \in S \ T, T \in F PROVE T \cup {x} \in F
  <2>1. /\ SumOver(T \cup {x}, f) = SumOver(T, f) + f[x]
        /\ SumOver(T \cup {x}, g) = SumOver(T, g) + g[x]
    BY FS_Subset, SumAdd
  <2> QED BY <1>2, <2>1
<1> HIDE DEF F
<1>3. S \in F
  BY <1>1, <1>2, AddingOne
<1> QED BY <1>3 DEF F

LEMMA SumLarger ==
  ASSUME NEW S, IsFiniteSet(S), NEW f, NEW g,
         \A x \in S : f[x] \in Int /\ g[x] \in Int /\ f[x] <= g[x]
  PROVE  SumOver(S, f) <= SumOver(S, g)
<1> DEFINE F == {T \in SUBSET S : SumOver(T, f) <= SumOver(T, g)}
<1>1. {} \in F
  BY SumEmpty
<1>2. ASSUME NEW T \in SUBSET S, NEW x \in S \ T, T \in F PROVE T \cup {x} \in F
  <2>1. /\ SumOver(T \cup {x}, f) = SumOver(T, f) + f[x]
        /\ SumOver(T \cup {x}, g) = SumOver(T, g) + g[x]
    BY FS_Subset, SumAdd
  <2>2. SumOver(T, f) \in Int /\ SumOver(T, g) \in Int
    BY FS_Subset, SumType
  <2>3. SumOver(T, f) + f[x] <= SumOver(T, g) + g[x]
    BY <1>2, <2>2
  <2> QED BY <2>1, <2>3
<1> HIDE DEF F
<1>3. S \in F
  BY <1>1, <1>2, AddingOne
<1> QED BY <1>3 DEF F

LEMMA SumPlus ==
  ASSUME NEW S, IsFiniteSet(S), NEW f, NEW g, NEW h,
         \A x \in S : f[x] \in Int /\ g[x] \in Int /\ h[x] = f[x] + g[x]
  PROVE  SumOver(S, h) = SumOver(S, f) + SumOver(S, g)
<1> DEFINE F == {T \in SUBSET S : SumOver(T, h) = SumOver(T, f) + SumOver(T, g)}
<1>0. \A x \in S : f[x] \in Int /\ g[x] \in Int /\ h[x] \in Int
  OBVIOUS
<1>1. {} \in F
  BY SumEmpty
<1>2. ASSUME NEW T \in SUBSET S, NEW x \in S \ T, T \in F PROVE T \cup {x} \in F
  <2>1. /\ SumOver(T \cup {x}, f) = SumOver(T, f) + f[x]
        /\ SumOver(T \cup {x}, g) = SumOver(T, g) + g[x]
        /\ SumOver(T \cup {x}, h) = SumOver(T, h) + h[x]
    BY <1>0, FS_Subset, SumAdd
  <2>2. SumOver(T, f) \in Int /\ SumOver(T, g) \in Int
    BY FS_Subset, SumType
  <2>3. SumOver(T, h) + h[x] = (SumOver(T, f) + f[x]) + (SumOver(T, g) + g[x])
    BY <1>2, <2>2
  <2> QED BY <2>1, <2>3
<1> HIDE DEF F
<1>3. S \in F
  BY <1>1, <1>2, AddingOne
<1> QED BY <1>3 DEF F

LEMMA SumTimes ==
  ASSUME NEW S, IsFiniteSet(S), NEW k \in Int, NEW f, NEW h,
         \A x \in S : f[x] \in Int /\ h[x] = k * f[x]
  PROVE  SumOver(S, h) = k * SumOver(S, f)
<1> DEFINE F == {T \in SUBSET S : SumOver(T, h) = k * SumOver(T, f)}
<1>0. \A x \in S : f[x] \in Int /\ h[x] \in Int
  OBVIOUS
<1>1. {} \in F
  BY SumEmpty
<1>2. ASSUME NEW T \in SUBSET S, NEW x \in S \ T, T \in F PROVE T \cup {x} \in F
  <2>1. /\ SumOver(T \cup {x}, f) = SumOver(T, f) + f[x]
        /\ SumOver(T \cup {x}, h) = SumOver(T, h) + h[x]
    BY <1>0, FS_Subset, SumAdd
  <2>2. SumOver(T, f) \in Int
    BY FS_Subset, SumType
  <2>3. k * SumOver(T, f) + k * f[x] = k * (SumOver(T, f) + f[x])
    BY <2>2
  <2> QED BY <1>2, <2>1, <2>3
<1> HIDE DEF F
<1>3. S \in F
  BY <1>1, <1>2, AddingOne
<1> QED BY <1>3 DEF F

\* Two sets without a common element add up.
LEMMA SumUnion ==
  ASSUME NEW S, IsFiniteSet(S), NEW T, IsFiniteSet(T), S \cap T = {}, NEW f,
         \A x \in S \cup T : f[x] \in Int
  PROVE  SumOver(S \cup T, f) = SumOver(S, f) + SumOver(T, f)
<1> DEFINE F == {U \in SUBSET T : SumOver(S \cup U, f) = SumOver(S, f) + SumOver(U, f)}
<1>0. SumOver(S, f) \in Int
  BY SumType
<1>1. {} \in F
  <2>1. S \cup {} = S
    OBVIOUS
  <2> QED BY <1>0, <2>1, SumEmpty
<1>2. ASSUME NEW U \in SUBSET T, NEW x \in T \ U, U \in F PROVE U \cup {x} \in F
  <2> DEFINE V == S \cup U
  <2>0. IsFiniteSet(U)
    BY FS_Subset
  <2>1. IsFiniteSet(V) /\ x \notin V /\ V \cup {x} = S \cup (U \cup {x})
    BY <2>0, FS_Union
  <2>2. SumOver(U \cup {x}, f) = SumOver(U, f) + f[x] /\ SumOver(U, f) \in Int
    BY <2>0, SumAdd, SumType
  <2>3. SumOver(V, f) = SumOver(S, f) + SumOver(U, f)
    BY <1>2
  <2>4. \A y \in V \cup {x} : f[y] \in Int
    OBVIOUS
  <2> HIDE DEF V
  <2>5. SumOver(V \cup {x}, f) = SumOver(V, f) + f[x]
    BY <2>1, <2>4, SumAdd
  <2>6. SumOver(V \cup {x}, f) = SumOver(S, f) + SumOver(U \cup {x}, f)
    BY <1>0, <2>2, <2>3, <2>4, <2>5
  <2> QED BY <2>1, <2>6
<1> HIDE DEF F
<1>3. T \in F
  BY <1>1, <1>2, AddingOne
<1> QED BY <1>3 DEF F

LEMMA SumNat ==
  ASSUME NEW S, IsFiniteSet(S), NEW f, \A x \in S : f[x] \in Nat
  PROVE  SumOver(S, f) \in Nat
<1> DEFINE z == [x \in S |-> 0]
<1>1. SumOver(S, f) \in Int
  BY SumType
<1>2. SumOver(S, z) = 0 * SumOver(S, f)
  BY SumTimes
<1>3. SumOver(S, z) <= SumOver(S, f)
  BY SumLarger
<1> QED BY <1>1, <1>2, <1>3

\* The next month, or the next year.
LEMMA SumNext ==
  ASSUME NEW n \in Nat, NEW f, \A x \in 1..(n + 1) : f[x] \in Int
  PROVE  SumOver(1..(n + 1), f) = SumOver(1..n, f) + f[n + 1]
<1> DEFINE S == 1..n
           e == n + 1
<1>1. S \cup {e} = 1..(n + 1) /\ e \notin S /\ IsFiniteSet(S)
  BY FS_Interval
<1>2. \A x \in S \cup {e} : f[x] \in Int
  BY <1>1
<1> HIDE DEF S, e
<1>3. SumOver(S \cup {e}, f) = SumOver(S, f) + f[e]
  BY <1>1, <1>2, SumAdd
<1> QED BY <1>1, <1>3 DEF S, e

----------------------------------------------------------------------------
\* Walks: a value after each step, made of the one before

\* h records k steps from base
Steps(base, step, h, k) ==
  h[0] = base /\ \A i \in 1..k : h[i] = step[<<h[i - 1], i>>]

LEMMA StepsExist ==
  ASSUME NEW V, NEW base \in V, NEW step \in [V \X Nat -> V]
  PROVE  \A k \in Nat : \E h \in [Nat -> V] : Steps(base, step, h, k)
<1> DEFINE T == {k \in Nat : \E h \in [Nat -> V] : Steps(base, step, h, k)}
<1>1. 0 \in T
  <2>1. Steps(base, step, [i \in Nat |-> base], 0)
    BY DEF Steps
  <2> QED BY <2>1
<1>2. ASSUME NEW k \in T PROVE k + 1 \in T
  <2>1. PICK h \in [Nat -> V] : Steps(base, step, h, k)
    OBVIOUS
  <2> DEFINE g == [h EXCEPT ![k + 1] = step[<<h[k], k + 1>>]]
  <2>2. g \in [Nat -> V]
    OBVIOUS
  <2>3. g[0] = base
    BY <2>1 DEF Steps
  <2>4. ASSUME NEW i \in 1..(k + 1) PROVE g[i] = step[<<g[i - 1], i>>]
    <3>1. g[i - 1] = h[i - 1]
      OBVIOUS
    <3>2. CASE i = k + 1
      BY <3>1, <3>2
    <3>3. CASE i \in 1..k
      BY <2>1, <3>1, <3>3 DEF Steps
    <3> QED BY <3>2, <3>3
  <2> HIDE DEF g
  <2>5. Steps(base, step, g, k + 1)
    BY <2>3, <2>4 DEF Steps
  <2> QED BY <2>2, <2>5
<1> HIDE DEF T
<1>3. T = Nat
  BY <1>1, <1>2, CountingUp DEF T
<1> QED BY <1>3 DEF T

LEMMA StepsAgree ==
  ASSUME NEW base, NEW step, NEW g, NEW h, NEW j \in Nat, NEW k \in Nat,
         Steps(base, step, g, j), Steps(base, step, h, k)
  PROVE  \A i \in Nat : i <= j /\ i <= k => g[i] = h[i]
<1> DEFINE T == {i \in Nat : i <= j /\ i <= k => g[i] = h[i]}
<1>1. 0 \in T
  BY DEF Steps
<1>2. ASSUME NEW i \in T PROVE i + 1 \in T
  <2> SUFFICES ASSUME i + 1 <= j, i + 1 <= k PROVE g[i + 1] = h[i + 1]
    OBVIOUS
  <2>1. g[i] = h[i] /\ i + 1 \in 1..j /\ i + 1 \in 1..k /\ (i + 1) - 1 = i
    OBVIOUS
  <2> QED BY <2>1 DEF Steps
<1> HIDE DEF T
<1>3. T = Nat
  BY <1>1, <1>2, CountingUp DEF T
<1> QED BY <1>3 DEF T

\* A walk that never ends.
LEMMA Recursion ==
  ASSUME NEW V, NEW base \in V, NEW step \in [V \X Nat -> V]
  PROVE  \E g \in [Nat -> V] : \A k \in Nat : Steps(base, step, g, k)
<1> DEFINE H(k) == CHOOSE h \in [Nat -> V] : Steps(base, step, h, k)
           g == [k \in Nat |-> H(k)[k]]
<1>1. \A k \in Nat : H(k) \in [Nat -> V] /\ Steps(base, step, H(k), k)
  BY StepsExist
<1> HIDE DEF H
<1>2. g \in [Nat -> V]
  BY <1>1
<1>3. \A j, k \in Nat : j <= k => H(k)[j] = g[j]
  BY <1>1, StepsAgree
<1> HIDE DEF g
<1>4. ASSUME NEW k \in Nat PROVE Steps(base, step, g, k)
  <2>1. H(k)[0] = base /\ \A i \in 1..k : H(k)[i] = step[<<H(k)[i - 1], i>>]
    BY <1>1 DEF Steps
  <2>2. \A i \in 0..k : H(k)[i] = g[i]
    BY <1>3
  <2> QED BY <2>1, <2>2 DEF Steps
<1> QED BY <1>2, <1>4

----------------------------------------------------------------------------
\* The rollover of a year

SettledMonth == [applied : Int, net : Nat, carry : Nat]

\* A month of the rollover makes and loses no credit, carries no debt and
\* bills no negative energy: the step of run_monthly_rollover's loop.
THEOREM MonthConserves ==
  ASSUME NEW carried \in Nat, NEW credit \in Int, NEW energy \in Nat
  PROVE  LET m == MonthSettled(carried, credit, energy)
         IN /\ m \in SettledMonth
            /\ m.applied + m.carry = carried + credit
            /\ m.applied <= energy
BY DEF MonthSettled, Least, SettledMonth

\* The months of a year settle in turn.
LEMMA SettledInTurn ==
  ASSUME NEW bill, \A m \in Month : bill[m].energy \in Nat, NEW credit \in [Month -> Int]
  PROVE  LET s == Settled(bill, credit)
         IN s = [m \in Month |-> MonthSettled(IF m = 1 THEN 0 ELSE s[m - 1].carry,
                                              credit[m], bill[m].energy)]
<1> DEFINE V    == SettledMonth
           base == [applied |-> 0, net |-> 0, carry |-> 0]
           step == [p \in V \X Nat |->
                      IF p[2] \in Month
                      THEN MonthSettled(p[1].carry, credit[p[2]], bill[p[2]].energy)
                      ELSE base]
           Eq(s) == s = [m \in Month |-> MonthSettled(IF m = 1 THEN 0 ELSE s[m - 1].carry,
                                                      credit[m], bill[m].energy)]
<1>1. base \in V
  BY DEF SettledMonth
<1>2. step \in [V \X Nat -> V]
  <2>1. ASSUME NEW p \in V \X Nat PROVE step[p] \in V
    <3>1. CASE p[2] \in Month
      <4>1. p[1].carry \in Nat
        BY DEF SettledMonth
      <4>2. credit[p[2]] \in Int /\ bill[p[2]].energy \in Nat
        BY <3>1
      <4> QED BY <3>1, <4>1, <4>2, MonthConserves
    <3>2. CASE p[2] \notin Month
      BY <1>1, <3>2
    <3> QED BY <3>1, <3>2
  <2> QED BY <2>1
<1>3. PICK g \in [Nat -> V] : \A k \in Nat : Steps(base, step, g, k)
  <2> HIDE DEF base, step
  <2> QED BY <1>1, <1>2, Recursion
<1>4. Months \in Nat
  BY CalendarAssumption
<1>5. ASSUME NEW m \in Month
      PROVE  g[m] = MonthSettled(IF m = 1 THEN 0 ELSE g[m - 1].carry, credit[m], bill[m].energy)
  <2>1. m \in Nat /\ m \in 1..m /\ m - 1 \in Nat
    BY <1>4 DEF Month
  <2>2. g[0] = base /\ g[m] = step[<<g[m - 1], m>>]
    <3> HIDE DEF base, step
    <3> QED BY <1>3, <2>1 DEF Steps
  <2>3. <<g[m - 1], m>> \in V \X Nat
    BY <2>1
  <2>4. g[m] = MonthSettled(g[m - 1].carry, credit[m], bill[m].energy)
    BY <2>2, <2>3
  <2>5. m = 1 => g[m - 1].carry = 0
    BY <2>2
  <2> QED BY <2>4, <2>5
<1> DEFINE s == [m \in Month |-> g[m]]
<1>6. Eq(s)
  <2>1. ASSUME NEW m \in Month
        PROVE  s[m] = MonthSettled(IF m = 1 THEN 0 ELSE s[m - 1].carry, credit[m], bill[m].energy)
    <3>1. m # 1 => m - 1 \in Month
      BY <1>4 DEF Month
    <3> QED BY <1>5, <3>1
  <2> HIDE DEF s
  <2>2. s = [m \in Month |-> s[m]]
    BY DEF s
  <2> QED BY <2>1, <2>2
<1> HIDE DEF s
<1>7. \E t : Eq(t)
  BY <1>6
<1>8. Settled(bill, credit) = CHOOSE t : Eq(t)
  BY DEF Settled
<1> HIDE DEF Eq
<1>9. Eq(Settled(bill, credit))
  BY <1>7, <1>8
<1> QED BY <1>9 DEF Eq

\* Each month keeps its type, and takes no more than its energy charge.
LEMMA SettledType ==
  ASSUME NEW bill, \A m \in Month : bill[m].energy \in Nat, NEW credit \in [Month -> Int]
  PROVE  LET s == Settled(bill, credit)
         IN /\ s \in [Month -> SettledMonth]
            /\ \A m \in Month :
                 LET before == IF m = 1 THEN 0 ELSE s[m - 1].carry
                 IN /\ s[m].applied <= bill[m].energy
                    /\ s[m].applied + s[m].carry = before + credit[m]
<1> DEFINE s == Settled(bill, credit)
           before(m) == IF m = 1 THEN 0 ELSE s[m - 1].carry
           T == {m \in Nat : m \in Month => s[m] \in SettledMonth}
<1>1. s = [m \in Month |-> MonthSettled(before(m), credit[m], bill[m].energy)]
  BY SettledInTurn
<1> HIDE DEF s
<1>2. Months \in Nat
  BY CalendarAssumption
<1>3. ASSUME NEW m \in Month, before(m) \in Nat
      PROVE  /\ s[m] \in SettledMonth /\ s[m].applied <= bill[m].energy
             /\ s[m].applied + s[m].carry = before(m) + credit[m]
  <2>1. s[m] = MonthSettled(before(m), credit[m], bill[m].energy)
    BY <1>1
  <2>2. credit[m] \in Int /\ bill[m].energy \in Nat
    OBVIOUS
  <2> HIDE DEF before
  <2> QED BY <1>3, <2>1, <2>2, MonthConserves
<1>4. 0 \in T
  BY DEF Month
<1>5. ASSUME NEW m \in T PROVE m + 1 \in T
  <2>1. CASE m + 1 \in Month
    <3>1. before(m + 1) \in Nat
      <4>1. CASE m = 0
        BY <4>1
      <4>2. CASE m # 0
        <5>1. m \in Month /\ (m + 1) - 1 = m /\ m + 1 # 1
          BY <1>2, <2>1, <4>2 DEF Month
        <5> QED BY <5>1 DEF SettledMonth
      <4> QED BY <4>1, <4>2
    <3> HIDE DEF before
    <3>2. s[m + 1] \in SettledMonth
      BY <1>3, <2>1, <3>1
    <3> QED BY <3>2
  <2>2. CASE m + 1 \notin Month
    BY <2>2
  <2> QED BY <2>1, <2>2
<1>6. \A m \in Month : s[m] \in SettledMonth
  <2> HIDE DEF T
  <2>1. T = Nat
    BY <1>4, <1>5, CountingUp DEF T
  <2> QED BY <1>2, <2>1 DEF T, Month
<1>7. \A m \in Month : before(m) \in Nat
  <2>1. ASSUME NEW m \in Month, m # 1 PROVE s[m - 1].carry \in Nat
    <3>1. m - 1 \in Month
      BY <1>2, <2>1 DEF Month
    <3> QED BY <1>6, <3>1 DEF SettledMonth
  <2> QED BY <2>1
<1>8. s \in [Month -> SettledMonth]
  BY <1>1, <1>6
<1>9. \A m \in Month : /\ s[m].applied <= bill[m].energy
                       /\ s[m].applied + s[m].carry = before(m) + credit[m]
  BY <1>3, <1>7
<1> QED BY <1>8, <1>9 DEF s

\* Up to any month what was earned is what was applied and what is carried.
THEOREM YearConserves ==
  ASSUME NEW bill, \A m \in Month : bill[m].energy \in Nat, NEW credit \in [Month -> Int]
  PROVE  LET s == Settled(bill, credit)
         IN \A m \in Month : SumOver(1..m, [i \in Month |-> s[i].applied]) + s[m].carry
                               = SumOver(1..m, credit)
<1> DEFINE s == Settled(bill, credit)
           applied == [i \in Month |-> s[i].applied]
           T == {m \in Nat : m + 1 \in Month =>
                   SumOver(1..(m + 1), applied) + s[m + 1].carry = SumOver(1..(m + 1), credit)}
<1>1. /\ s \in [Month -> SettledMonth]
      /\ \A m \in Month : s[m].applied + s[m].carry
                            = (IF m = 1 THEN 0 ELSE s[m - 1].carry) + credit[m]
  BY SettledType
<1> HIDE DEF s
<1>2. Months \in Nat
  BY CalendarAssumption
<1>3. \A m \in Month : s[m].applied \in Int /\ s[m].carry \in Int /\ applied[m] = s[m].applied
  BY <1>1 DEF SettledMonth
<1> HIDE DEF applied
<1>4. ASSUME NEW m \in Nat, m + 1 \in Month
      PROVE  /\ SumOver(1..(m + 1), applied) = SumOver(1..m, applied) + s[m + 1].applied
             /\ SumOver(1..(m + 1), credit) = SumOver(1..m, credit) + credit[m + 1]
             /\ SumOver(1..m, applied) \in Int /\ SumOver(1..m, credit) \in Int
  <2>1. \A x \in 1..(m + 1) : x \in Month
    BY <1>2, <1>4 DEF Month
  <2>2. \A x \in 1..(m + 1) : applied[x] \in Int /\ credit[x] \in Int
    BY <1>3, <2>1
  <2>3. IsFiniteSet(1..m) /\ \A x \in 1..m : x \in 1..(m + 1)
    BY FS_Interval
  <2>4. SumOver(1..m, applied) \in Int /\ SumOver(1..m, credit) \in Int
    BY <2>2, <2>3, SumType
  <2> QED BY <1>3, <1>4, <2>2, <2>4, SumNext
<1>5. 0 \in T
  <2> SUFFICES ASSUME 1 \in Month
               PROVE  SumOver(1..1, applied) + s[1].carry = SumOver(1..1, credit)
    OBVIOUS
  <2>1. 1..0 = {}
    OBVIOUS
  <2>2. SumOver(1..0, applied) = 0 /\ SumOver(1..0, credit) = 0
    BY <2>1, SumEmpty
  <2>3. SumOver(1..1, applied) = s[1].applied /\ SumOver(1..1, credit) = credit[1]
    <3>1. 0 \in Nat /\ 0 + 1 = 1
      OBVIOUS
    <3>2. /\ SumOver(1..1, applied) = SumOver(1..0, applied) + s[1].applied
          /\ SumOver(1..1, credit) = SumOver(1..0, credit) + credit[1]
      BY <1>4, <3>1
    <3> QED BY <1>3, <2>2, <3>2
  <2> QED BY <1>1, <1>3, <2>3
<1>6. ASSUME NEW m \in T PROVE m + 1 \in T
  <2> DEFINE n == m + 1
  <2> SUFFICES ASSUME n + 1 \in Month
               PROVE  SumOver(1..(n + 1), applied) + s[n + 1].carry = SumOver(1..(n + 1), credit)
    OBVIOUS
  <2>1. n \in Month /\ n \in Nat /\ (n + 1) - 1 = n /\ n + 1 # 1
    BY <1>2 DEF Month
  <2>2. SumOver(1..n, applied) + s[n].carry = SumOver(1..n, credit)
    BY <2>1
  <2> HIDE DEF n
  <2>3. s[n + 1].applied + s[n + 1].carry = s[n].carry + credit[n + 1]
    BY <1>1, <2>1
  <2>4. credit[n + 1] \in Int /\ s[n].carry \in Int
        /\ s[n + 1].applied \in Int /\ s[n + 1].carry \in Int
    BY <1>3, <2>1
  <2>5. /\ SumOver(1..(n + 1), applied) = SumOver(1..n, applied) + s[n + 1].applied
        /\ SumOver(1..(n + 1), credit) = SumOver(1..n, credit) + credit[n + 1]
        /\ SumOver(1..n, applied) \in Int /\ SumOver(1..n, credit) \in Int
    BY <1>4, <2>1
  <2>6. \A a, c, carried, taken, kept, earned \in Int :
          a + carried = c /\ taken + kept = carried + earned => (a + taken) + kept = c + earned
    OBVIOUS
  <2> HIDE DEF T
  <2>7. (SumOver(1..n, applied) + s[n + 1].applied) + s[n + 1].carry
          = SumOver(1..n, credit) + credit[n + 1]
    BY <2>2, <2>3, <2>4, <2>5, <2>6
  <2> QED BY <2>5, <2>7
<1>7. ASSUME NEW m \in Month
      PROVE  SumOver(1..m, applied) + s[m].carry = SumOver(1..m, credit)
  <2> HIDE DEF T
  <2>1. T = Nat
    BY <1>5, <1>6, CountingUp DEF T
  <2>2. m - 1 \in Nat /\ (m - 1) + 1 = m
    BY <1>2 DEF Month
  <2> QED BY <2>1, <2>2 DEF T
<1> QED BY <1>7 DEF s, applied

----------------------------------------------------------------------------
\* The settlement of a SEG year

LEMMA MonthsAreFinite ==
  /\ Months \in Nat \ {0} /\ IsFiniteSet(Month) /\ Months \in Month /\ Month = 1..Months
  /\ Hours \in Nat \ {0} /\ IsFiniteSet(Hour)
BY CalendarAssumption, FS_Interval DEF Month, Hour

\* A flat credit balances when it is spread by shares of the bill.
LEMMA FlatBalances ==
  ASSUME NEW bill, \A m \in Month : bill[m].energy \in Nat,
         NEW credit \in [Month -> Nat]
  PROVE  LET s == SegFlat(bill, credit)
         IN /\ \A m \in Month : s.applied[m] <= s.parts * bill[m].energy
            /\ s.unused >= 0
            /\ SumOver(Month, s.applied) + s.parts * s.unused = s.parts * SumOver(Month, credit)
<1> DEFINE charges == [m \in Month |-> bill[m].energy]
           energy  == SumOver(Month, charges)
           annual  == SumOver(Month, credit)
           s       == SegFlat(bill, credit)
           shares  == [m \in Month |-> Least(annual * bill[m].energy, energy * bill[m].energy)]
<1>1. energy \in Nat /\ annual \in Nat
  BY SumNat, MonthsAreFinite
<1>2. CASE energy <= 0
  <2> DEFINE zero == [m \in Month |-> 0]
  <2>1. s = [applied |-> zero, parts |-> 1, unused |-> Positive(annual)]
    BY <1>2 DEF SegFlat
  <2>2. Positive(annual) = annual
    BY <1>1 DEF Positive
  <2>3. SumOver(Month, zero) = 0
    <3>1. SumOver(Month, zero) = 0 * annual
      BY SumTimes, MonthsAreFinite
    <3> QED BY <1>1, <3>1
  <2>4. \A m \in Month : zero[m] <= 1 * bill[m].energy
    OBVIOUS
  <2> HIDE DEF zero, s
  <2>5. 0 + 1 * annual = 1 * annual
    BY <1>1
  <2> HIDE DEF annual
  <2> QED BY <1>1, <2>1, <2>2, <2>3, <2>4, <2>5 DEF annual, s
<1>3. CASE energy > 0
  <2>1. s = [applied |-> shares, parts |-> energy,
             unused |-> Positive(annual - Least(annual, energy))]
    BY <1>1, <1>3 DEF SegFlat
  <2>2. \A m \in Month : shares[m] <= energy * bill[m].energy
    <3> HIDE DEF energy, annual
    <3> QED BY <1>1 DEF Least
  <2>3. SumOver(Month, shares) + energy * Positive(annual - Least(annual, energy)) = energy * annual
    <3>1. CASE annual <= energy
      <4>1. \A m \in Month : charges[m] \in Int /\ shares[m] = annual * charges[m]
        <5>1. \A m \in Month : bill[m].energy \in Nat
          OBVIOUS
        <5>2. \A e \in Nat : annual * e <= energy * e
          <6> HIDE DEF annual, energy
          <6>1. ASSUME NEW e \in Nat PROVE annual * e <= energy * e
            <7> DEFINE d == energy - annual
            <7>1. d \in Nat /\ energy = annual + d
              BY <1>1, <3>1
            <7> HIDE DEF d
            <7>2. (annual + d) * e = annual * e + d * e /\ d * e \in Nat /\ annual * e \in Int
              BY <1>1, <7>1
            <7> QED BY <7>1, <7>2
          <6> QED BY <6>1
        <5> HIDE DEF annual, energy
        <5> QED BY <5>1, <5>2 DEF Least
      <4>2. SumOver(Month, shares) = annual * energy
        <5> HIDE DEF shares, annual, charges, s
        <5>1. annual \in Int
          BY <1>1
        <5>2. SumOver(Month, shares) = annual * SumOver(Month, charges)
          BY <4>1, <5>1, SumTimes, MonthsAreFinite
        <5> QED BY <5>2
      <4> HIDE DEF annual, energy, shares
      <4>3. Positive(annual - Least(annual, energy)) = 0
        BY <1>1, <3>1 DEF Positive, Least
      <4> QED BY <1>1, <4>2, <4>3
    <3>2. CASE energy < annual
      <4>1. \A m \in Month : charges[m] \in Int /\ shares[m] = energy * charges[m]
        <5>1. \A m \in Month : bill[m].energy \in Nat
          OBVIOUS
        <5>2. \A e \in Nat : energy * e <= annual * e
          <6> HIDE DEF annual, energy
          <6>1. ASSUME NEW e \in Nat PROVE energy * e <= annual * e
            <7> DEFINE d == annual - energy
            <7>1. d \in Nat /\ annual = energy + d
              BY <1>1, <3>2
            <7> HIDE DEF d
            <7>2. (energy + d) * e = energy * e + d * e /\ d * e \in Nat /\ energy * e \in Int
              BY <1>1, <7>1
            <7> QED BY <7>1, <7>2
          <6> QED BY <6>1
        <5> HIDE DEF annual, energy
        <5>3. \A m \in Month : Least(annual * bill[m].energy, energy * bill[m].energy)
                                 = energy * bill[m].energy
          <6>1. \A e \in Nat : annual * e \in Int /\ energy * e \in Int
            BY <1>1
          <6> QED BY <5>1, <5>2, <6>1 DEF Least
        <5> QED BY <5>1, <5>3
      <4>2. SumOver(Month, shares) = energy * energy
        <5> HIDE DEF shares, annual, charges
        <5> QED BY <1>1, <4>1, SumTimes, MonthsAreFinite
      <4> HIDE DEF annual, energy, shares
      <4>3. Positive(annual - Least(annual, energy)) = annual - energy
        BY <1>1, <3>2 DEF Positive, Least
      <4>4. energy * energy + energy * (annual - energy) = energy * annual
        BY <1>1
      <4> QED BY <4>2, <4>3, <4>4
    <3> QED BY <1>1, <3>1, <3>2
  <2>4. Positive(annual - Least(annual, energy)) >= 0
    <3> HIDE DEF annual, energy
    <3> QED BY <1>1 DEF Positive, Least
  <2> HIDE DEF shares, energy, annual, s
  <2> QED BY <2>1, <2>2, <2>3, <2>4 DEF annual, s
<1> QED BY <1>1, <1>2, <1>3

\* Both ways a SEG year settles make and lose no credit.
THEOREM SegConserves ==
  ASSUME NEW bill, \A m \in Month : bill[m].energy \in Nat,
         NEW credit \in [Month -> Int], NEW regime,
         regime = "seg_flat" => credit \in [Month -> Nat]
  PROVE  LET s == SegSettlement(regime, bill, credit)
         IN /\ \A m \in Month : s.applied[m] <= s.parts * bill[m].energy
            /\ s.unused >= 0
            /\ SumOver(Month, s.applied) + s.parts * s.unused = s.parts * SumOver(Month, credit)
<1>1. CASE regime = "seg_flat"
  BY <1>1, FlatBalances DEF SegSettlement
<1>2. CASE regime # "seg_flat"
  <2> DEFINE t == Settled(bill, credit)
             applied == [m \in Month |-> t[m].applied]
             s == SegSettlement(regime, bill, credit)
  <2>1. s = [applied |-> applied, parts |-> 1, unused |-> t[Months].carry]
    BY <1>2 DEF SegSettlement, SegTou
  <2>2. t \in [Month -> SettledMonth] /\ \A m \in Month : t[m].applied <= bill[m].energy
    BY SettledType
  <2>3. SumOver(1..Months, applied) + t[Months].carry = SumOver(1..Months, credit)
    BY YearConserves, MonthsAreFinite
  <2> HIDE DEF t, s
  <2>4. t[Months].carry \in Nat /\ \A m \in Month : applied[m] <= bill[m].energy
    BY <2>2, MonthsAreFinite DEF SettledMonth
  <2> HIDE DEF applied
  <2>5. SumOver(Month, credit) \in Int
    BY SumType, MonthsAreFinite
  <2>6. \A m \in Month : applied[m] <= 1 * bill[m].energy
    <3>1. \A m \in Month : bill[m].energy \in Nat
      OBVIOUS
    <3> QED BY <2>4, <3>1
  <2>7. SumOver(Month, applied) + 1 * t[Months].carry = 1 * SumOver(Month, credit)
    BY <2>3, <2>4, <2>5, MonthsAreFinite
  <2> QED BY <2>1, <2>4, <2>6, <2>7 DEF s
<1> QED BY <1>1, <1>2

----------------------------------------------------------------------------
\* Tiers

Block == [rate : Nat, upTo : Nat \cup {None}]

LEMMA Element == ASSUME NEW R, NEW s \in Seq(R), NEW i \in DOMAIN s PROVE s[i] \in R
OBVIOUS

LEMMA BlockType ==
  ASSUME NEW blocks \in Blocks
  PROVE  /\ Len(blocks) \in Nat /\ DOMAIN blocks = 1..Len(blocks)
         /\ \A i \in DOMAIN blocks : blocks[i] \in Block
<1>1. blocks \in Seq(Block)
  BY DEF Blocks, Block
<1> QED BY <1>1, Element

\* a strict order in which any two of 1..n are comparable, and who comes first
Linear(R, n) ==
  /\ \A i \in 1..n : ~(<<i, i>> \in R)
  /\ \A i, j \in 1..n : i # j => <<i, j>> \in R \/ <<j, i>> \in R
  /\ \A i, j, k \in 1..n : <<i, j>> \in R /\ <<j, k>> \in R => <<i, k>> \in R

Ahead(R, n, i) == {j \in 1..n : <<j, i>> \in R}

\* Counting who is ahead gives each its place, and every place is taken.
LEMMA PlacesTaken ==
  ASSUME NEW n \in Nat, NEW R, Linear(R, n)
  PROVE  /\ \A i, j \in 1..n : <<i, j>> \in R =>
              Cardinality(Ahead(R, n, i)) < Cardinality(Ahead(R, n, j))
         /\ \A i \in 1..n : Cardinality(Ahead(R, n, i)) \in 0..(n - 1)
         /\ \A k \in 1..n : \E i \in 1..n : Cardinality(Ahead(R, n, i)) = k - 1
<1> DEFINE D == 1..n
           P == 0..(n - 1)
           rank == [i \in D |-> Cardinality(Ahead(R, n, i))]
<1>1. IsFiniteSet(D) /\ IsFiniteSet(P) /\ Cardinality(D) = n /\ Cardinality(P) = n
  <2>1. n \in Int /\ n - 1 \in Int /\ 0 \in Int /\ 1 \in Int
    OBVIOUS
  <2>2. /\ IsFiniteSet(D) /\ IsFiniteSet(P)
        /\ Cardinality(D) = IF 1 > n THEN 0 ELSE n - 1 + 1
        /\ Cardinality(P) = IF 0 > n - 1 THEN 0 ELSE (n - 1) - 0 + 1
    BY <2>1, FS_Interval
  <2> HIDE DEF D, P
  <2> QED BY <2>2
<1>2. \A i \in D : Ahead(R, n, i) \in SUBSET D /\ ~(i \in Ahead(R, n, i))
  BY DEF Ahead, Linear
<1>3. \A i \in D : IsFiniteSet(Ahead(R, n, i)) /\ Cardinality(Ahead(R, n, i)) \in Nat
  BY <1>1, <1>2, FS_Subset, FS_CardinalityType
<1>4. ASSUME NEW i \in D, NEW j \in D, <<i, j>> \in R
      PROVE  Cardinality(Ahead(R, n, i)) < Cardinality(Ahead(R, n, j))
  <2>1. Ahead(R, n, i) \in SUBSET Ahead(R, n, j) /\ Ahead(R, n, i) # Ahead(R, n, j)
    <3>1. i \in Ahead(R, n, j) /\ ~(i \in Ahead(R, n, i))
      BY <1>2, <1>4 DEF Ahead
    <3>2. \A k \in Ahead(R, n, i) : k \in Ahead(R, n, j)
      BY <1>4 DEF Ahead, Linear
    <3> QED BY <3>1, <3>2
  <2>2. /\ Cardinality(Ahead(R, n, i)) <= Cardinality(Ahead(R, n, j))
        /\ Cardinality(Ahead(R, n, i)) # Cardinality(Ahead(R, n, j))
    BY <1>3, <2>1, FS_Subset
  <2> QED BY <1>3, <2>2
<1>5. ASSUME NEW i \in D PROVE Cardinality(Ahead(R, n, i)) \in P
  <2>1. /\ Cardinality(Ahead(R, n, i)) <= Cardinality(D)
        /\ Cardinality(Ahead(R, n, i)) # Cardinality(D)
    <3>1. Ahead(R, n, i) # D
      BY <1>2
    <3> QED BY <1>1, <1>2, <3>1, FS_Subset
  <2> QED BY <1>1, <1>3, <2>1
<1>6. \A i, j \in D : i # j => Cardinality(Ahead(R, n, i)) # Cardinality(Ahead(R, n, j))
  <2> SUFFICES ASSUME NEW i \in D, NEW j \in D, i # j
               PROVE  Cardinality(Ahead(R, n, i)) # Cardinality(Ahead(R, n, j))
    OBVIOUS
  <2>1. <<i, j>> \in R \/ <<j, i>> \in R
    BY DEF Linear
  <2> QED BY <1>3, <1>4, <2>1
<1>7. rank \in [D -> P] /\ \A i, j \in D : i # j => rank[i] # rank[j]
  <2> HIDE DEF D, P
  <2> QED BY <1>5, <1>6
<1> HIDE DEF rank
<1>8. rank \in Injection(D, P)
  BY <1>7 DEF Injection, IsInjective
<1>9. rank \in Surjection(D, P)
  <2> HIDE DEF D, P
  <2> QED BY <1>1, <1>8, FS_Injection
<1>10. ASSUME NEW k \in D PROVE \E i \in D : Cardinality(Ahead(R, n, i)) = k - 1
  <2>1. k - 1 \in P
    OBVIOUS
  <2>2. \E i \in D : rank[i] = k - 1
    BY <1>9, <2>1 DEF Surjection
  <2> QED BY <2>2 DEF rank
<1> QED BY <1>4, <1>5, <1>10

\* Blocks have an order, so that the sorted blocks are the blocks, one to a place.
LEMMA SortedType ==
  ASSUME NEW blocks \in Blocks
  PROVE  \A n \in DOMAIN blocks : SortedBlocks(blocks)[n] \in Block
<1> DEFINE m == Len(blocks)
           D == 1..m
           R == {p \in D \X D : Before(blocks, p[1], p[2])}
<1>1. m \in Nat /\ DOMAIN blocks = D /\ \A k \in D : blocks[k].upTo \in Nat \cup {None}
  BY BlockType DEF Block
<1>2. \A i, j \in D : <<i, j>> \in R <=> Before(blocks, i, j)
  OBVIOUS
<1>3. Linear(R, m)
  <2>1. \A k, l \in D : k # l => Before(blocks, k, l) \/ Before(blocks, l, k)
    BY <1>1 DEF Before
  <2>2. \A k \in D : ~Before(blocks, k, k)
    BY <1>1 DEF Before
  <2>3. \A k, l, n \in D : Before(blocks, k, l) /\ Before(blocks, l, n) => Before(blocks, k, n)
    BY <1>1 DEF Before
  <2> HIDE DEF R
  <2> QED BY <1>2, <2>1, <2>2, <2>3 DEF Linear
<1>4. \A i \in D : Rank(blocks, i) = Cardinality(Ahead(R, m, i))
  <2> TAKE i \in D
  <2>1. {j \in DOMAIN blocks : Before(blocks, j, i)} = Ahead(R, m, i)
    <3> HIDE DEF R
    <3> QED BY <1>1, <1>2 DEF Ahead
  <2> QED BY <2>1 DEF Rank
<1> HIDE DEF R, m
<1>5. \A n \in D : \E i \in D : Rank(blocks, i) = n - 1
  BY <1>1, <1>3, <1>4, PlacesTaken
<1>6. ASSUME NEW n \in D PROVE SortedBlocks(blocks)[n] \in Block
  <2> DEFINE i == CHOOSE i \in DOMAIN blocks : Rank(blocks, i) = n - 1
  <2>1. i \in DOMAIN blocks
    BY <1>1, <1>5
  <2>2. SortedBlocks(blocks)[n] = blocks[i]
    BY <1>1 DEF SortedBlocks
  <2> HIDE DEF i
  <2> QED BY <2>1, <2>2, BlockType
<1> QED BY <1>1, <1>6

\* More of what is not negative.
LEMMA TimesLarger ==
  ASSUME NEW a \in Int, NEW b \in Int, a <= b, NEW c \in Nat
  PROVE  a * c \in Int /\ b * c \in Int /\ a * c <= b * c
<1> DEFINE d == b - a
<1>1. d \in Nat /\ b = a + d
  OBVIOUS
<1> HIDE DEF d
<1>2. (a + d) * c = a * c + d * c /\ d * c \in Nat /\ a * c \in Int
  BY <1>1
<1> QED BY <1>1, <1>2

WalkState == [cursor : Nat, left : Nat, charge : Nat]

\* a walk that had less to place is not ahead
NotAhead(a, b) ==
  /\ a.charge <= b.charge
  /\ a.left = 0 \/ (a.cursor = b.cursor /\ a.left <= b.left)

\* A block takes some of what is left, at its rate.
LEMMA WalkPortion ==
  ASSUME NEW a \in WalkState, NEW block \in Block
  PROVE  \E p \in 0..a.left :
           /\ Walk(a, block) = [cursor |-> a.cursor + p, left |-> a.left - p,
                                charge |-> a.charge + p * block.rate]
           /\ block.upTo = None => p = a.left
           /\ block.upTo # None => p = Positive(Least(a.left, block.upTo - a.cursor))
<1> DEFINE p == IF block.upTo = None THEN a.left
                ELSE Positive(Least(a.left, block.upTo - a.cursor))
<1>1. a.left \in Nat /\ a.cursor \in Nat /\ (block.upTo # None => block.upTo \in Nat)
  BY DEF WalkState, Block
<1>2. p \in 0..a.left
  BY <1>1 DEF Positive, Least
<1>3. Walk(a, block) = [cursor |-> a.cursor + p, left |-> a.left - p,
                        charge |-> a.charge + p * block.rate]
  BY DEF Walk
<1>4. (block.upTo = None => p = a.left)
      /\ (block.upTo # None => p = Positive(Least(a.left, block.upTo - a.cursor)))
  OBVIOUS
<1> HIDE DEF p
<1> QED BY <1>2, <1>3, <1>4

LEMMA WalkType ==
  ASSUME NEW a \in WalkState, NEW block \in Block
  PROVE  Walk(a, block) \in WalkState
<1>1. PICK p \in 0..a.left : Walk(a, block) = [cursor |-> a.cursor + p, left |-> a.left - p,
                                               charge |-> a.charge + p * block.rate]
  BY WalkPortion
<1>2. a.left \in Nat /\ a.cursor \in Nat /\ a.charge \in Nat /\ block.rate \in Nat
  BY DEF WalkState, Block
<1>3. p \in Nat /\ p * block.rate \in Nat
  BY <1>1, <1>2
<1>4. a.cursor + p \in Nat /\ a.left - p \in Nat /\ a.charge + p * block.rate \in Nat
  BY <1>1, <1>2, <1>3
<1> QED BY <1>1, <1>4 DEF WalkState

LEMMA WalkKeepsBehind ==
  ASSUME NEW a \in WalkState, NEW b \in WalkState, NotAhead(a, b), NEW block \in Block
  PROVE  NotAhead(Walk(a, block), Walk(b, block))
<1>1. PICK p \in 0..a.left :
        /\ Walk(a, block) = [cursor |-> a.cursor + p, left |-> a.left - p,
                             charge |-> a.charge + p * block.rate]
        /\ block.upTo = None => p = a.left
        /\ block.upTo # None => p = Positive(Least(a.left, block.upTo - a.cursor))
  BY WalkPortion
<1>2. PICK q \in 0..b.left :
        /\ Walk(b, block) = [cursor |-> b.cursor + q, left |-> b.left - q,
                             charge |-> b.charge + q * block.rate]
        /\ block.upTo = None => q = b.left
        /\ block.upTo # None => q = Positive(Least(b.left, block.upTo - b.cursor))
  BY WalkPortion
<1>3. /\ a.left \in Nat /\ a.cursor \in Nat /\ a.charge \in Nat
      /\ b.left \in Nat /\ b.cursor \in Nat /\ b.charge \in Nat
      /\ block.rate \in Nat /\ (block.upTo # None => block.upTo \in Nat)
  BY DEF WalkState, Block
<1>4. /\ p <= q
      /\ a.left - p = 0 \/ (a.cursor + p = b.cursor + q /\ a.left - p <= b.left - q)
  <2>1. CASE a.left = 0
    <3>1. p = 0 /\ q \in Nat
      BY <1>3, <2>1
    <3> QED BY <2>1, <3>1
  <2>2. CASE a.left # 0 /\ block.upTo = None
    BY <1>1, <1>2, <1>3, <2>2 DEF NotAhead
  <2>3. CASE a.left # 0 /\ block.upTo # None
    <3> DEFINE d == block.upTo - a.cursor
    <3>1. /\ a.left <= b.left /\ a.cursor = b.cursor /\ d \in Int
          /\ p = Positive(Least(a.left, d)) /\ q = Positive(Least(b.left, d))
      BY <1>1, <1>2, <1>3, <2>3 DEF NotAhead
    <3>2. \A k, l \in Nat : k <= l =>
            /\ Positive(Least(k, d)) <= Positive(Least(l, d))
            /\ \/ k - Positive(Least(k, d)) = 0
               \/ Positive(Least(k, d)) = Positive(Least(l, d))
      <4> HIDE DEF d
      <4> QED BY <3>1 DEF Positive, Least
    <3> HIDE DEF d
    <3>3. p <= q /\ (a.left - p = 0 \/ p = q)
      BY <1>3, <3>1, <3>2
    <3> QED BY <1>1, <1>2, <1>3, <3>1, <3>3
  <2> QED BY <2>1, <2>2, <2>3
<1>5. p * block.rate \in Int /\ q * block.rate \in Int /\ p * block.rate <= q * block.rate
  BY <1>1, <1>2, <1>3, <1>4, TimesLarger
<1>6. a.charge <= b.charge
  BY DEF NotAhead
<1>7. a.charge + p * block.rate <= b.charge + q * block.rate
  BY <1>3, <1>5, <1>6
<1> QED BY <1>1, <1>2, <1>4, <1>7 DEF NotAhead

\* g is the walk of kwh over the blocks
TierWalk(kwh, blocks, g) ==
  /\ g \in [0..Len(blocks) -> WalkState]
  /\ g[0] = [cursor |-> 0, left |-> Positive(kwh), charge |-> 0]
  /\ \A n \in 1..Len(blocks) : g[n] = Walk(g[n - 1], SortedBlocks(blocks)[n])
  /\ TierCharge(kwh, blocks) = g[Len(blocks)].charge

LEMMA TierWalks ==
  ASSUME NEW blocks \in Blocks, NEW kwh \in Int
  PROVE  \E g : TierWalk(kwh, blocks, g)
<1> DEFINE sorted == SortedBlocks(blocks)
           base == [cursor |-> 0, left |-> Positive(kwh), charge |-> 0]
           step == [x \in WalkState \X Nat |->
                      IF x[2] \in DOMAIN blocks THEN Walk(x[1], sorted[x[2]]) ELSE base]
           Eq(g) == g = [n \in 0..Len(blocks) |->
                           IF n = 0 THEN base ELSE Walk(g[n - 1], sorted[n])]
<1>1. base \in WalkState
  BY DEF WalkState, Positive
<1>2. step \in [WalkState \X Nat -> WalkState]
  <2>1. ASSUME NEW x \in WalkState \X Nat PROVE step[x] \in WalkState
    <3>1. CASE x[2] \in DOMAIN blocks
      <4>1. sorted[x[2]] \in Block /\ x[1] \in WalkState
        BY <3>1, SortedType
      <4> HIDE DEF sorted, base
      <4> QED BY <3>1, <4>1, WalkType
    <3>2. CASE x[2] \notin DOMAIN blocks
      BY <1>1, <3>2
    <3> QED BY <3>1, <3>2
  <2> QED BY <2>1
<1>3. PICK f \in [Nat -> WalkState] : \A k \in Nat : Steps(base, step, f, k)
  <2> HIDE DEF base, step
  <2> QED BY <1>1, <1>2, Recursion
<1>4. Len(blocks) \in Nat /\ DOMAIN blocks = 1..Len(blocks)
  BY BlockType
<1>5. f[0] = base /\ \A n \in 1..Len(blocks) : f[n] = Walk(f[n - 1], sorted[n])
  <2>1. f[0] = base /\ \A n \in 1..Len(blocks) : f[n] = step[<<f[n - 1], n>>]
    <3> HIDE DEF base, step
    <3> QED BY <1>3, <1>4 DEF Steps
  <2>2. ASSUME NEW n \in 1..Len(blocks) PROVE f[n] = Walk(f[n - 1], sorted[n])
    <3>1. <<f[n - 1], n>> \in WalkState \X Nat /\ n \in DOMAIN blocks
      BY <1>4
    <3> HIDE DEF sorted, base
    <3> QED BY <2>1, <3>1
  <2> QED BY <2>1, <2>2
<1> DEFINE g == [n \in 0..Len(blocks) |-> f[n]]
<1>6. Eq(g)
  <2>1. ASSUME NEW n \in 0..Len(blocks)
        PROVE  g[n] = IF n = 0 THEN base ELSE Walk(g[n - 1], sorted[n])
    <3>1. n # 0 => n \in 1..Len(blocks) /\ n - 1 \in 0..Len(blocks)
      BY <1>4
    <3> HIDE DEF base, sorted
    <3> QED BY <1>5, <3>1
  <2> HIDE DEF base, sorted
  <2>2. g = [n \in 0..Len(blocks) |-> g[n]]
    OBVIOUS
  <2> HIDE DEF g
  <2> QED BY <2>1, <2>2
<1> HIDE DEF g
<1>7. TierCharge(kwh, blocks) = (CHOOSE w : Eq(w))[Len(blocks)].charge
  BY DEF TierCharge
<1>8. \E w : Eq(w)
  BY <1>6
<1> DEFINE w == CHOOSE v : Eq(v)
<1>9. Eq(w)
  <2> HIDE DEF Eq
  <2> QED BY <1>8
<1>10. TierCharge(kwh, blocks) = w[Len(blocks)].charge
  BY <1>7
<1> HIDE DEF w
<1>11. /\ w[0] = base
       /\ \A n \in 1..Len(blocks) : w[n] = Walk(w[n - 1], sorted[n])
       /\ DOMAIN w = 0..Len(blocks) /\ w = [n \in 0..Len(blocks) |-> w[n]]
  <2> HIDE DEF base, sorted
  <2>1. \A n \in 0..Len(blocks) : w[n] = IF n = 0 THEN base ELSE Walk(w[n - 1], sorted[n])
    BY <1>9
  <2>2. DOMAIN w = 0..Len(blocks)
    BY <1>9
  <2>3. w = [n \in 0..Len(blocks) |-> w[n]]
    BY <1>9
  <2>4. 0 \in 0..Len(blocks) /\ \A n \in 1..Len(blocks) : n \in 0..Len(blocks) /\ n # 0
    BY <1>4
  <2>5. w[0] = base /\ \A n \in 1..Len(blocks) : w[n] = Walk(w[n - 1], sorted[n])
    BY <2>1, <2>4
  <2> QED BY <2>2, <2>3, <2>5
<1> DEFINE T == {n \in Nat : n \in 0..Len(blocks) => w[n] \in WalkState}
<1>12. 0 \in T
  BY <1>1, <1>11
<1>13. ASSUME NEW n \in T PROVE n + 1 \in T
  <2> SUFFICES ASSUME n + 1 \in 0..Len(blocks) PROVE w[n + 1] \in WalkState
    OBVIOUS
  <2>1. n + 1 \in 1..Len(blocks) /\ (n + 1) - 1 = n /\ n \in 0..Len(blocks)
    BY <1>4
  <2>2. w[n] \in WalkState
    BY <2>1
  <2>3. sorted[n + 1] \in Block
    BY <1>4, <2>1, SortedType
  <2>4. w[n + 1] = Walk(w[n], sorted[n + 1])
    BY <1>11, <2>1
  <2> HIDE DEF sorted
  <2> QED BY <2>2, <2>3, <2>4, WalkType
<1> HIDE DEF T
<1>14. T = Nat
  BY <1>12, <1>13, CountingUp DEF T
<1>15. w \in [0..Len(blocks) -> WalkState]
  <2>1. \A n \in 0..Len(blocks) : w[n] \in WalkState
    BY <1>4, <1>14 DEF T
  <2> QED BY <1>11, <2>1
<1> QED BY <1>10, <1>11, <1>15 DEF TierWalk

\* What a month costs by its tiers is never negative, and never falls with
\* the kWh of the month.
LEMMA TierChargeType ==
  ASSUME NEW blocks \in Blocks, NEW kwh \in Int
  PROVE  TierCharge(kwh, blocks) \in Nat
<1>1. PICK g : TierWalk(kwh, blocks, g)
  BY TierWalks
<1>2. Len(blocks) \in 0..Len(blocks)
  BY BlockType
<1>3. g[Len(blocks)] \in WalkState /\ TierCharge(kwh, blocks) = g[Len(blocks)].charge
  BY <1>1, <1>2 DEF TierWalk
<1> QED BY <1>3 DEF WalkState

THEOREM TierChargeRises ==
  ASSUME NEW blocks \in Blocks, NEW less \in Int, NEW more \in Int, less <= more
  PROVE  TierCharge(less, blocks) <= TierCharge(more, blocks)
<1>1. PICK g : TierWalk(less, blocks, g)
  BY TierWalks
<1>2. PICK h : TierWalk(more, blocks, h)
  BY TierWalks
<1>3. Len(blocks) \in Nat /\ DOMAIN blocks = 1..Len(blocks)
  BY BlockType
<1> DEFINE T == {n \in Nat : n \in 0..Len(blocks) => NotAhead(g[n], h[n])}
<1>4. 0 \in T
  <2>1. Positive(less) <= Positive(more)
    BY DEF Positive
  <2> QED BY <1>1, <1>2, <2>1 DEF TierWalk, NotAhead
<1>5. ASSUME NEW n \in T PROVE n + 1 \in T
  <2> SUFFICES ASSUME n + 1 \in 0..Len(blocks) PROVE NotAhead(g[n + 1], h[n + 1])
    OBVIOUS
  <2>1. n + 1 \in 1..Len(blocks) /\ (n + 1) - 1 = n /\ n \in 0..Len(blocks)
    BY <1>3
  <2>2. NotAhead(g[n], h[n])
    BY <2>1
  <2> DEFINE block == SortedBlocks(blocks)[n + 1]
  <2>3. block \in Block
    BY <1>3, <2>1, SortedType
  <2>4. g[n + 1] = Walk(g[n], block) /\ h[n + 1] = Walk(h[n], block)
    BY <1>1, <1>2, <2>1 DEF TierWalk
  <2>5. g[n] \in WalkState /\ h[n] \in WalkState
    BY <1>1, <1>2, <2>1 DEF TierWalk
  <2> HIDE DEF block, T
  <2> QED BY <2>2, <2>3, <2>4, <2>5, WalkKeepsBehind
<1> HIDE DEF T
<1>6. T = Nat
  BY <1>4, <1>5, CountingUp DEF T
<1>7. NotAhead(g[Len(blocks)], h[Len(blocks)])
  BY <1>3, <1>6 DEF T
<1> QED BY <1>1, <1>2, <1>7 DEF TierWalk, NotAhead

----------------------------------------------------------------------------
\* What an hour and a month cost

\* The rate of an hour, where it has one.
LEMMA RateType ==
  ASSUME NEW s \in Schedule, s.structure # "tiered", NEW h \in Hour
  PROVE  RateAt(s, h) \in Nat \cup {None} /\ (s.structure = "flat" => RateAt(s, h) \in Nat)
<1>1. CASE s.structure = "flat"
  BY <1>1 DEF RateAt, Schedule
<1>2. CASE s.structure = "tou"
  <2> DEFINE hits == {i \in DOMAIN s.periods : Covers(s.periods[i], Calendar[h])}
             R == [months : SUBSET Nat, slots : SUBSET Nat, rate : Nat]
  <2>1. s.periods \in Seq(R)
    BY DEF Schedule, Periods
  <2>2. RateAt(s, h) = IF hits = {} THEN None ELSE s.periods[Min(hits)].rate
    BY <1>2 DEF RateAt, TouRate
  <2>3. CASE hits = {}
    BY <1>2, <2>2, <2>3
  <2>4. CASE hits # {}
    <3>1. DOMAIN s.periods \subseteq Nat
      <4> HIDE DEF R
      <4> QED BY <2>1
    <3>2. hits \in SUBSET Nat
      BY <3>1
    <3>3. \E n \in hits : \A k \in hits : n <= k
      <4> HIDE DEF hits
      <4> QED BY <2>4, <3>2, LeastNatural
    <3>4. Min(hits) \in hits
      <4> HIDE DEF hits
      <4> QED BY <3>3 DEF Min
    <3>5. s.periods[Min(hits)] \in R
      <4>1. Min(hits) \in DOMAIN s.periods
        BY <3>4
      <4> HIDE DEF hits, R
      <4> QED BY <2>1, <4>1, Element
    <3> HIDE DEF hits
    <3> QED BY <1>2, <2>2, <2>4, <3>5
  <2> QED BY <2>3, <2>4
<1> QED BY <1>1, <1>2 DEF Schedule

\* The hours of a month, and what is imported and exported in them.
LEMMA HoursAreFinite ==
  \A m : IsFiniteSet(HoursOf(m)) /\ HoursOf(m) \subseteq Hour
<1> SUFFICES ASSUME NEW m PROVE IsFiniteSet(HoursOf(m)) /\ HoursOf(m) \subseteq Hour
  OBVIOUS
<1>1. HoursOf(m) \in SUBSET Hour
  BY DEF HoursOf
<1> QED BY <1>1, MonthsAreFinite, FS_Subset

LEMMA FlowTypes ==
  ASSUME NEW net \in [Hour -> Int]
  PROVE  /\ ImportOf(net) \in [Hour -> Nat] /\ ExportOf(net) \in [Hour -> Nat]
         /\ \A h \in Hour : ImportOf(net)[h] = Positive(net[h]) /\ ExportOf(net)[h] = Positive(-net[h])
BY DEF ImportOf, ExportOf, Positive

LEMMA KwhType ==
  ASSUME NEW kwh \in [Hour -> Nat], NEW m
  PROVE  MonthKwh(kwh, m) \in Nat
<1>1. \A h \in HoursOf(m) : kwh[h] \in Nat
  BY HoursAreFinite
<1> QED BY <1>1, HoursAreFinite, SumNat DEF MonthKwh

LEMMA KwhRises ==
  ASSUME NEW less \in [Hour -> Nat], NEW more \in [Hour -> Nat],
         \A h \in Hour : less[h] <= more[h], NEW m
  PROVE  MonthKwh(less, m) <= MonthKwh(more, m)
<1>1. \A h \in HoursOf(m) : less[h] \in Int /\ more[h] \in Int /\ less[h] <= more[h]
  BY HoursAreFinite
<1> QED BY <1>1, HoursAreFinite, SumLarger DEF MonthKwh

\* what an hour costs at its rate
AtRate(s, kwh) == [h \in Hour |-> IF kwh[h] > 0 THEN kwh[h] * RateAt(s, h) ELSE 0]

LEMMA AtRateType ==
  ASSUME NEW s \in Schedule, s.structure # "tiered", NEW kwh \in [Hour -> Nat],
         ~Uncovered(s, kwh)
  PROVE  /\ AtRate(s, kwh) \in [Hour -> Nat]
         /\ \A h \in Hour : kwh[h] > 0 => RateAt(s, h) \in Nat
<1>1. ASSUME NEW h \in Hour, kwh[h] > 0 PROVE RateAt(s, h) \in Nat
  <2>1. s.structure \in {"flat", "tou"}
    BY DEF Schedule
  <2>2. RateAt(s, h) \in Nat \cup {None} /\ (s.structure = "flat" => RateAt(s, h) \in Nat)
    BY RateType
  <2>3. s.structure = "tou" => RateAt(s, h) # None
    BY <1>1 DEF Uncovered
  <2> QED BY <2>1, <2>2, <2>3
<1>2. ASSUME NEW h \in Hour
      PROVE  (IF kwh[h] > 0 THEN kwh[h] * RateAt(s, h) ELSE 0) \in Nat
  BY <1>1
<1> QED BY <1>1, <1>2 DEF AtRate

LEMMA ChargeType ==
  ASSUME NEW s \in Schedule, NEW net \in [Hour -> Int], ~Uncovered(s, ImportOf(net)), NEW m
  PROVE  EnergyCharge(s, net, m) \in Nat
<1>1. CASE s.structure = "tiered"
  <2>1. MonthKwh(ImportOf(net), m) \in Int /\ s.blocks \in Blocks
    BY FlowTypes, KwhType DEF Schedule
  <2> QED BY <1>1, <2>1, TierChargeType DEF EnergyCharge
<1>2. CASE s.structure # "tiered"
  <2>1. AtRate(s, ImportOf(net)) \in [Hour -> Nat]
    BY <1>2, AtRateType, FlowTypes
  <2>2. \A h \in HoursOf(m) : AtRate(s, ImportOf(net))[h] \in Nat
    BY <2>1, HoursAreFinite
  <2>3. SumOver(HoursOf(m), AtRate(s, ImportOf(net))) \in Nat
    BY <2>2, HoursAreFinite, SumNat
  <2>4. EnergyCharge(s, net, m) = SumOver(HoursOf(m), AtRate(s, ImportOf(net)))
    BY <1>2 DEF EnergyCharge, AtRates, AtRate
  <2> QED BY <2>3, <2>4
<1> QED BY <1>1, <1>2

\* one load is never above another
NeverAbove(less, more) == \A h \in Hour : less[h] <= more[h]

\* A tariff that covers a load's import covers that of a lower one, and one
\* that covers a load's export covers that of a higher one.
LEMMA CoverLemma ==
  ASSUME NEW s, NEW less \in [Hour -> Int], NEW more \in [Hour -> Int], NeverAbove(less, more)
  PROVE  /\ \A h \in Hour : /\ ImportOf(less)[h] <= ImportOf(more)[h]
                            /\ ExportOf(more)[h] <= ExportOf(less)[h]
         /\ ~Uncovered(s, ImportOf(more)) => ~Uncovered(s, ImportOf(less))
         /\ ~Uncovered(s, ExportOf(less)) => ~Uncovered(s, ExportOf(more))
<1>1. \A h \in Hour : ImportOf(less)[h] <= ImportOf(more)[h] /\ ExportOf(more)[h] <= ExportOf(less)[h]
  <2>1. \A h \in Hour : less[h] \in Int /\ more[h] \in Int /\ less[h] <= more[h]
    BY DEF NeverAbove
  <2> QED BY <2>1 DEF ImportOf, ExportOf, Positive
<1>2. \A h \in Hour : /\ ImportOf(less)[h] \in Int /\ ImportOf(more)[h] \in Int
                      /\ ExportOf(less)[h] \in Int /\ ExportOf(more)[h] \in Int
  <2>1. /\ ImportOf(less) \in [Hour -> Nat] /\ ImportOf(more) \in [Hour -> Nat]
        /\ ExportOf(less) \in [Hour -> Nat] /\ ExportOf(more) \in [Hour -> Nat]
    BY FlowTypes
  <2> QED BY <2>1
<1>3. \A h \in Hour : /\ ImportOf(less)[h] > 0 => ImportOf(more)[h] > 0
                      /\ ExportOf(more)[h] > 0 => ExportOf(less)[h] > 0
  BY <1>1, <1>2
<1> QED BY <1>1, <1>3 DEF Uncovered

\* A higher load never makes a month cheaper.
THEOREM ChargeRises ==
  ASSUME NEW s \in Schedule, NEW less \in [Hour -> Int], NEW more \in [Hour -> Int],
         NeverAbove(less, more), ~Uncovered(s, ImportOf(more)), NEW m
  PROVE  EnergyCharge(s, less, m) <= EnergyCharge(s, more, m)
<1>1. /\ ImportOf(less) \in [Hour -> Nat] /\ ImportOf(more) \in [Hour -> Nat]
      /\ \A h \in Hour : ImportOf(less)[h] <= ImportOf(more)[h]
      /\ ~Uncovered(s, ImportOf(less))
  BY FlowTypes, CoverLemma
<1>2. CASE s.structure = "tiered"
  <2>1. /\ MonthKwh(ImportOf(less), m) \in Int /\ MonthKwh(ImportOf(more), m) \in Int
        /\ MonthKwh(ImportOf(less), m) <= MonthKwh(ImportOf(more), m)
        /\ s.blocks \in Blocks
    BY <1>1, KwhType, KwhRises DEF Schedule
  <2> QED BY <1>2, <2>1, TierChargeRises DEF EnergyCharge
<1>3. CASE s.structure # "tiered"
  <2> DEFINE a == AtRate(s, ImportOf(less))
             b == AtRate(s, ImportOf(more))
  <2>1. /\ a \in [Hour -> Nat] /\ b \in [Hour -> Nat]
        /\ \A h \in Hour : ImportOf(more)[h] > 0 => RateAt(s, h) \in Nat
    BY <1>1, <1>3, AtRateType
  <2>2. ASSUME NEW h \in Hour PROVE a[h] <= b[h]
    <3>1. ImportOf(less)[h] \in Nat /\ ImportOf(more)[h] \in Nat
          /\ ImportOf(less)[h] <= ImportOf(more)[h]
      BY <1>1
    <3>2. CASE ImportOf(less)[h] > 0
      <4>1. ImportOf(more)[h] > 0 /\ RateAt(s, h) \in Nat
        BY <2>1, <3>1, <3>2
      <4>2. ImportOf(less)[h] * RateAt(s, h) <= ImportOf(more)[h] * RateAt(s, h)
        BY <3>1, <4>1, TimesLarger
      <4> QED BY <3>2, <4>1, <4>2 DEF AtRate
    <3>3. CASE ~(ImportOf(less)[h] > 0)
      <4>1. a[h] = 0 /\ b[h] \in Nat
        BY <2>1, <3>3 DEF AtRate
      <4> QED BY <4>1
    <3> QED BY <3>2, <3>3
  <2> HIDE DEF a, b
  <2>3. \A h \in HoursOf(m) : a[h] \in Int /\ b[h] \in Int /\ a[h] <= b[h]
    BY <2>1, <2>2, HoursAreFinite
  <2>4. SumOver(HoursOf(m), a) <= SumOver(HoursOf(m), b)
    BY <2>3, HoursAreFinite, SumLarger
  <2> QED BY <1>3, <2>4 DEF EnergyCharge, AtRates, AtRate, a, b
<1> QED BY <1>2, <1>3

\* What a month's export is paid, by regime.
LEMMA NettedType ==
  ASSUME NEW net \in [Hour -> Int], NEW m
  PROVE  /\ Netted(net, m) \in Nat
         /\ MonthKwh(ImportOf(net), m) \in Nat /\ MonthKwh(ExportOf(net), m) \in Nat
BY FlowTypes, KwhType DEF Netted, Positive

LEMMA NemCreditType ==
  ASSUME NEW s \in Schedule, NEW net \in [Hour -> Int], ~Uncovered(s, ExportOf(net)), NEW m
  PROVE  NemCredit(s, net, m) \in Int
<1>1. CASE s.structure = "tiered"
  <2>1. /\ TierCharge(MonthKwh(ImportOf(net), m), s.blocks) \in Nat
        /\ TierCharge(Netted(net, m), s.blocks) \in Nat
    <3>1. s.blocks \in Blocks
      BY DEF Schedule
    <3>2. MonthKwh(ImportOf(net), m) \in Int /\ Netted(net, m) \in Int
      BY NettedType
    <3> QED BY <3>1, <3>2, TierChargeType
  <2> QED BY <1>1, <2>1 DEF NemCredit
<1>2. CASE s.structure # "tiered"
  <2>1. AtRate(s, ExportOf(net)) \in [Hour -> Nat]
    BY <1>2, AtRateType, FlowTypes
  <2>2. \A h \in HoursOf(m) : AtRate(s, ExportOf(net))[h] \in Int
    BY <2>1, HoursAreFinite
  <2>3. SumOver(HoursOf(m), AtRate(s, ExportOf(net))) \in Int
    BY <2>2, HoursAreFinite, SumType
  <2> QED BY <1>2, <2>3 DEF NemCredit, AtRates, AtRate
<1> QED BY <1>1, <1>2

\* an hourly rate times the export of the hour
Paid(rates, net) == [h \in Hour |-> ExportOf(net)[h] * rates[h]]

LEMMA VectorType ==
  ASSUME NEW net \in [Hour -> Int], NEW rates, \A h \in Hour : rates[h] \in Int, NEW m
  PROVE  /\ Paid(rates, net) \in [Hour -> Int]
         /\ VectorCredit(rates, net, m) = SumOver(HoursOf(m), Paid(rates, net))
         /\ VectorCredit(rates, net, m) \in Int
         /\ (\A h \in Hour : rates[h] \in Nat) => VectorCredit(rates, net, m) \in Nat
<1>1. \A h \in Hour : ExportOf(net)[h] \in Nat
  BY FlowTypes
<1>2. \A h \in Hour : Paid(rates, net)[h] \in Int
  BY <1>1 DEF Paid
<1>3. (\A h \in Hour : rates[h] \in Nat) => \A h \in Hour : Paid(rates, net)[h] \in Nat
  BY <1>1 DEF Paid
<1>4. VectorCredit(rates, net, m) = SumOver(HoursOf(m), Paid(rates, net))
  BY DEF VectorCredit, Paid
<1>5. Paid(rates, net) \in [Hour -> Int]
  BY <1>2 DEF Paid
<1>6. SumOver(HoursOf(m), Paid(rates, net)) \in Int
  BY <1>2, HoursAreFinite, SumType
<1>7. (\A h \in Hour : rates[h] \in Nat) => SumOver(HoursOf(m), Paid(rates, net)) \in Nat
  BY <1>3, HoursAreFinite, SumNat
<1> QED BY <1>4, <1>5, <1>6, <1>7

\* what a schedule has to be for the credit of a regime to be paid
Creditable(c, s, net) ==
  /\ c \in ExportConfig
  /\ c.regime = "nem_one_for_one" => s \in Schedule /\ ~Uncovered(s, ExportOf(net))

LEMMA CreditType ==
  ASSUME NEW c, NEW s, NEW net \in [Hour -> Int], Creditable(c, s, net)
  PROVE  /\ ExportCredit(c, s, net) \in [Month -> Int]
         /\ c.regime = "seg_flat" => ExportCredit(c, s, net) \in [Month -> Nat]
<1>1. c \in ExportConfig
  BY DEF Creditable
<1>2. CASE c.regime = "nem_one_for_one"
  <2>1. \A m \in Month : NemCredit(s, net, m) \in Int
    BY <1>2, NemCreditType DEF Creditable
  <2>2. ExportCredit(c, s, net) = [m \in Month |-> NemCredit(s, net, m)]
    BY <1>2 DEF ExportCredit
  <2> QED BY <1>2, <2>1, <2>2
<1>3. CASE c.regime = "seg_flat"
  <2> DEFINE rates == [h \in Hour |-> c.rate]
  <2>1. \A h \in Hour : rates[h] \in Nat
    BY <1>1, <1>3 DEF ExportConfig
  <2>2. ExportCredit(c, s, net) = [m \in Month |-> VectorCredit(rates, net, m)]
    BY <1>3 DEF ExportCredit
  <2> HIDE DEF rates
  <2>3. \A m \in Month : VectorCredit(rates, net, m) \in Nat
    BY <2>1, VectorType
  <2> QED BY <2>2, <2>3
<1>4. CASE c.regime \in {"nem_three_nbt", "seg_tou"}
  <2>1. \A h \in Hour : c.rates[h] \in Int
    <3>1. c.rates \in Seq(Int) /\ Len(c.rates) = Hours
      BY <1>1, <1>4 DEF ExportConfig
    <3>2. DOMAIN c.rates = Hour
      BY <3>1 DEF Hour
    <3> QED BY <3>1, <3>2, Element
  <2>2. ExportCredit(c, s, net) = [m \in Month |-> VectorCredit(c.rates, net, m)]
    BY <1>4 DEF ExportCredit
  <2>3. \A m \in Month : VectorCredit(c.rates, net, m) \in Int
    BY <2>1, VectorType
  <2> QED BY <1>4, <2>2, <2>3
<1>5. c.regime \in {"nem_one_for_one", "nem_three_nbt", "seg_flat", "seg_tou"}
  BY <1>1 DEF ExportConfig
<1> QED BY <1>2, <1>3, <1>4, <1>5

----------------------------------------------------------------------------
\* What a month costs less what it is paid

\* Under net metering by the hour every kWh, bought or sold, has its rate.
LEMMA HourlyBurden ==
  ASSUME NEW s \in Schedule, s.structure # "tiered",
         NEW net \in [Hour -> Int], ~Uncovered(s, ImportOf(net)), ~Uncovered(s, ExportOf(net)),
         NEW m
  PROVE  LET worth == [h \in Hour |-> AtRate(s, ImportOf(net))[h] - AtRate(s, ExportOf(net))[h]]
         IN /\ worth \in [Hour -> Int]
            /\ EnergyCharge(s, net, m) - NemCredit(s, net, m) = SumOver(HoursOf(m), worth)
            /\ \A h \in Hour : net[h] # 0 => RateAt(s, h) \in Nat /\ worth[h] = net[h] * RateAt(s, h)
            /\ \A h \in Hour : net[h] = 0 => worth[h] = 0
<1> DEFINE a == AtRate(s, ImportOf(net))
           b == AtRate(s, ExportOf(net))
           worth == [h \in Hour |-> a[h] - b[h]]
<1>1. /\ a \in [Hour -> Nat] /\ b \in [Hour -> Nat]
      /\ \A h \in Hour : ImportOf(net)[h] > 0 => RateAt(s, h) \in Nat
      /\ \A h \in Hour : ExportOf(net)[h] > 0 => RateAt(s, h) \in Nat
  BY FlowTypes, AtRateType
<1>2. ASSUME NEW h \in Hour
      PROVE  /\ net[h] # 0 => RateAt(s, h) \in Nat /\ worth[h] = net[h] * RateAt(s, h)
             /\ net[h] = 0 => worth[h] = 0
  <2>1. net[h] \in Int /\ ImportOf(net)[h] = Positive(net[h]) /\ ExportOf(net)[h] = Positive(-net[h])
    BY FlowTypes
  <2>2. /\ a[h] = IF ImportOf(net)[h] > 0 THEN ImportOf(net)[h] * RateAt(s, h) ELSE 0
        /\ b[h] = IF ExportOf(net)[h] > 0 THEN ExportOf(net)[h] * RateAt(s, h) ELSE 0
        /\ worth[h] = a[h] - b[h]
    BY DEF AtRate
  <2>3. CASE net[h] > 0
    <3>1. ImportOf(net)[h] = net[h] /\ ExportOf(net)[h] = 0 /\ RateAt(s, h) \in Nat
      BY <1>1, <2>1, <2>3 DEF Positive
    <3>2. net[h] * RateAt(s, h) \in Int /\ a[h] = net[h] * RateAt(s, h) /\ b[h] = 0
      BY <2>1, <2>2, <2>3, <3>1
    <3> HIDE DEF worth, a, b
    <3>3. worth[h] = net[h] * RateAt(s, h)
      BY <2>2, <3>2
    <3> QED BY <2>3, <3>1, <3>3
  <2>4. CASE net[h] = 0
    <3>1. ImportOf(net)[h] = 0 /\ ExportOf(net)[h] = 0
      BY <2>1, <2>4 DEF Positive
    <3> QED BY <2>2, <2>4, <3>1
  <2>5. CASE net[h] < 0
    <3>1. ImportOf(net)[h] = 0 /\ ExportOf(net)[h] = -net[h] /\ RateAt(s, h) \in Nat
      BY <1>1, <2>1, <2>5 DEF Positive
    <3>2. a[h] = 0 /\ b[h] = (-net[h]) * RateAt(s, h) /\ (-net[h]) * RateAt(s, h) \in Int
      BY <2>1, <2>2, <2>5, <3>1
    <3>3. \A x \in Int, r \in Nat : 0 - ((-x) * r) = x * r
      OBVIOUS
    <3> HIDE DEF worth, a, b
    <3>4. worth[h] = net[h] * RateAt(s, h)
      BY <2>1, <2>2, <3>1, <3>2, <3>3
    <3> QED BY <2>5, <3>1, <3>4
  <2> QED BY <2>1, <2>3, <2>4, <2>5
<1>3. \A h \in Hour : a[h] \in Int /\ b[h] \in Int /\ worth[h] \in Int /\ a[h] = worth[h] + b[h]
  <2>1. \A h \in Hour : a[h] \in Int /\ b[h] \in Int
    BY <1>1
  <2> HIDE DEF a, b
  <2> QED BY <2>1
<1>4. worth \in [Hour -> Int]
  <2> HIDE DEF a, b
  <2> QED BY <1>3
<1> HIDE DEF a, b, worth
<1>5. SumOver(HoursOf(m), a) = SumOver(HoursOf(m), worth) + SumOver(HoursOf(m), b)
  <2>1. \A h \in HoursOf(m) : worth[h] \in Int /\ b[h] \in Int /\ a[h] = worth[h] + b[h]
    BY <1>3, HoursAreFinite
  <2> QED BY <2>1, HoursAreFinite, SumPlus
<1>6. SumOver(HoursOf(m), worth) \in Int /\ SumOver(HoursOf(m), b) \in Int
  <2>1. \A h \in HoursOf(m) : worth[h] \in Int /\ b[h] \in Int
    BY <1>3, HoursAreFinite
  <2> QED BY <2>1, HoursAreFinite, SumType
<1>7. /\ EnergyCharge(s, net, m) = SumOver(HoursOf(m), a)
      /\ NemCredit(s, net, m) = SumOver(HoursOf(m), b)
  BY DEF EnergyCharge, NemCredit, AtRates, AtRate, a, b
<1>8. EnergyCharge(s, net, m) - NemCredit(s, net, m) = SumOver(HoursOf(m), worth)
  BY <1>5, <1>6, <1>7
<1> QED BY <1>2, <1>4, <1>8 DEF worth, a, b

\* A higher load never makes a month cheaper after its credit either, where an
\* hour of export never costs money.
THEOREM BurdenRises ==
  ASSUME NEW c \in ExportConfig, c.regime \in {"nem_one_for_one", "seg_flat"},
         NEW s \in Schedule, NEW less \in [Hour -> Int], NEW more \in [Hour -> Int],
         NeverAbove(less, more), ~Uncovered(s, ImportOf(more)),
         Creditable(c, s, less), NEW m \in Month
  PROVE  EnergyCharge(s, less, m) - ExportCredit(c, s, less)[m]
           <= EnergyCharge(s, more, m) - ExportCredit(c, s, more)[m]
<1>0. /\ ~Uncovered(s, ImportOf(less))
      /\ \A h \in Hour : ImportOf(less)[h] <= ImportOf(more)[h] /\ ExportOf(more)[h] <= ExportOf(less)[h]
  BY CoverLemma
<1>1. CASE c.regime = "nem_one_for_one" /\ s.structure = "tiered"
  <2> DEFINE i1 == MonthKwh(ImportOf(less), m)
             i2 == MonthKwh(ImportOf(more), m)
             e1 == MonthKwh(ExportOf(less), m)
             e2 == MonthKwh(ExportOf(more), m)
  <2>1. s.blocks \in Blocks
    BY DEF Schedule
  <2>2. i1 \in Int /\ i2 \in Int /\ e1 \in Int /\ e2 \in Int /\ i1 <= i2 /\ e2 <= e1
    <3>1. /\ ImportOf(less) \in [Hour -> Nat] /\ ImportOf(more) \in [Hour -> Nat]
          /\ ExportOf(less) \in [Hour -> Nat] /\ ExportOf(more) \in [Hour -> Nat]
      BY FlowTypes
    <3>2. i1 <= i2 /\ e2 <= e1
      BY <1>0, <3>1, KwhRises
    <3> QED BY <3>1, <3>2, KwhType
  <2>3. Netted(less, m) \in Int /\ Netted(more, m) \in Int /\ Netted(less, m) <= Netted(more, m)
    <3>1. Netted(less, m) = Positive(i1 - e1) /\ Netted(more, m) = Positive(i2 - e2)
      BY DEF Netted
    <3> HIDE DEF i1, i2, e1, e2
    <3> QED BY <2>2, <3>1 DEF Positive
  <2>4. TierCharge(Netted(less, m), s.blocks) <= TierCharge(Netted(more, m), s.blocks)
    BY <2>1, <2>3, TierChargeRises
  <2>5. /\ TierCharge(i1, s.blocks) \in Nat /\ TierCharge(i2, s.blocks) \in Nat
        /\ TierCharge(Netted(less, m), s.blocks) \in Nat
        /\ TierCharge(Netted(more, m), s.blocks) \in Nat
    <3> HIDE DEF i1, i2, e1, e2
    <3> QED BY <2>1, <2>2, <2>3, TierChargeType
  <2>6. /\ EnergyCharge(s, less, m) = TierCharge(i1, s.blocks)
        /\ EnergyCharge(s, more, m) = TierCharge(i2, s.blocks)
        /\ ExportCredit(c, s, less)[m]
             = TierCharge(i1, s.blocks) - TierCharge(Netted(less, m), s.blocks)
        /\ ExportCredit(c, s, more)[m]
             = TierCharge(i2, s.blocks) - TierCharge(Netted(more, m), s.blocks)
    BY <1>1 DEF EnergyCharge, ExportCredit, NemCredit
  <2> HIDE DEF i1, i2, e1, e2
  <2>7. /\ EnergyCharge(s, less, m) - ExportCredit(c, s, less)[m]
             = TierCharge(Netted(less, m), s.blocks)
        /\ EnergyCharge(s, more, m) - ExportCredit(c, s, more)[m]
             = TierCharge(Netted(more, m), s.blocks)
    BY <2>5, <2>6
  <2> QED BY <2>4, <2>7
<1>2. CASE c.regime = "nem_one_for_one" /\ s.structure # "tiered"
  <2> DEFINE w1 == [h \in Hour |-> AtRate(s, ImportOf(less))[h] - AtRate(s, ExportOf(less))[h]]
             w2 == [h \in Hour |-> AtRate(s, ImportOf(more))[h] - AtRate(s, ExportOf(more))[h]]
  <2>1. ~Uncovered(s, ExportOf(less)) /\ ~Uncovered(s, ExportOf(more))
    BY <1>2, CoverLemma DEF Creditable
  <2>2. /\ w1 \in [Hour -> Int]
        /\ EnergyCharge(s, less, m) - NemCredit(s, less, m) = SumOver(HoursOf(m), w1)
        /\ \A h \in Hour : less[h] # 0 => RateAt(s, h) \in Nat /\ w1[h] = less[h] * RateAt(s, h)
        /\ \A h \in Hour : less[h] = 0 => w1[h] = 0
    BY <1>0, <1>2, <2>1, HourlyBurden
  <2>3. /\ w2 \in [Hour -> Int]
        /\ EnergyCharge(s, more, m) - NemCredit(s, more, m) = SumOver(HoursOf(m), w2)
        /\ \A h \in Hour : more[h] # 0 => RateAt(s, h) \in Nat /\ w2[h] = more[h] * RateAt(s, h)
        /\ \A h \in Hour : more[h] = 0 => w2[h] = 0
    BY <1>2, <2>1, HourlyBurden
  <2> HIDE DEF w1, w2
  <2>4. ASSUME NEW h \in Hour PROVE w1[h] <= w2[h]
    <3>1. less[h] \in Int /\ more[h] \in Int /\ less[h] <= more[h]
      BY DEF NeverAbove
    <3>2. CASE less[h] = 0 /\ more[h] = 0
      BY <2>2, <2>3, <3>2
    <3>3. CASE less[h] # 0 \/ more[h] # 0
      <4>1. RateAt(s, h) \in Nat
        BY <2>2, <2>3, <3>3
      <4>2. \A x \in Int : x = 0 => x * RateAt(s, h) = 0
        BY <4>1
      <4>3. w1[h] = less[h] * RateAt(s, h) /\ w2[h] = more[h] * RateAt(s, h)
        BY <2>2, <2>3, <3>1, <4>2
      <4>4. less[h] * RateAt(s, h) <= more[h] * RateAt(s, h)
        BY <3>1, <4>1, TimesLarger
      <4> QED BY <4>3, <4>4
    <3> QED BY <3>2, <3>3
  <2>5. SumOver(HoursOf(m), w1) <= SumOver(HoursOf(m), w2)
    <3>1. \A h \in HoursOf(m) : w1[h] \in Int /\ w2[h] \in Int /\ w1[h] <= w2[h]
      BY <2>2, <2>3, <2>4, HoursAreFinite
    <3> QED BY <3>1, HoursAreFinite, SumLarger
  <2>6. ExportCredit(c, s, less)[m] = NemCredit(s, less, m)
        /\ ExportCredit(c, s, more)[m] = NemCredit(s, more, m)
    BY <1>2 DEF ExportCredit
  <2> QED BY <2>2, <2>3, <2>5, <2>6
<1>3. CASE c.regime = "seg_flat"
  <2> DEFINE rates == [h \in Hour |-> c.rate]
             p1 == Paid(rates, less)
             p2 == Paid(rates, more)
  <2>1. c.rate \in Nat
    BY <1>3 DEF ExportConfig
  <2>2. \A h \in Hour : rates[h] \in Int /\ rates[h] = c.rate
    BY <2>1
  <2>3. /\ ExportCredit(c, s, less)[m] = VectorCredit(rates, less, m)
        /\ ExportCredit(c, s, more)[m] = VectorCredit(rates, more, m)
    BY <1>3 DEF ExportCredit
  <2> HIDE DEF rates
  <2>4. /\ p1 \in [Hour -> Int] /\ VectorCredit(rates, less, m) = SumOver(HoursOf(m), p1)
        /\ p2 \in [Hour -> Int] /\ VectorCredit(rates, more, m) = SumOver(HoursOf(m), p2)
        /\ VectorCredit(rates, less, m) \in Int /\ VectorCredit(rates, more, m) \in Int
    BY <2>2, VectorType
  <2>5. ASSUME NEW h \in Hour PROVE p2[h] <= p1[h]
    <3>1. ExportOf(more)[h] \in Int /\ ExportOf(less)[h] \in Int /\ ExportOf(more)[h] <= ExportOf(less)[h]
      BY <1>0, FlowTypes
    <3>2. p1[h] = ExportOf(less)[h] * c.rate /\ p2[h] = ExportOf(more)[h] * c.rate
      BY <2>2 DEF Paid
    <3>3. ExportOf(more)[h] * c.rate <= ExportOf(less)[h] * c.rate
      BY <2>1, <3>1, TimesLarger
    <3> QED BY <3>2, <3>3
  <2> HIDE DEF p1, p2
  <2>6. SumOver(HoursOf(m), p2) <= SumOver(HoursOf(m), p1)
    <3>1. \A h \in HoursOf(m) : p1[h] \in Int /\ p2[h] \in Int /\ p2[h] <= p1[h]
      BY <2>4, <2>5, HoursAreFinite
    <3> QED BY <3>1, HoursAreFinite, SumLarger
  <2>7. EnergyCharge(s, less, m) <= EnergyCharge(s, more, m)
    BY ChargeRises
  <2>8. EnergyCharge(s, less, m) \in Nat /\ EnergyCharge(s, more, m) \in Nat
    BY <1>0, ChargeType
  <2>9. \A x, y, p, q \in Int : x <= y /\ q <= p => x - p <= y - q
    OBVIOUS
  <2> QED BY <2>3, <2>4, <2>6, <2>7, <2>8, <2>9
<1> QED BY <1>1, <1>2, <1>3

----------------------------------------------------------------------------
\* A year of finance

\* what the energy of a year costs
YearCharge(s, net) == SumOver(Month, [m \in Month |-> EnergyCharge(s, net, m)])

LEMMA BillTotals ==
  ASSUME NEW s \in Schedule, NEW net \in [Hour -> Int], ~Uncovered(s, ImportOf(net))
  PROVE  /\ \A m \in Month : AnnualBill(s, net)[m].energy = EnergyCharge(s, net, m)
                             /\ AnnualBill(s, net)[m].energy \in Nat
         /\ YearCharge(s, net) \in Nat
         /\ SumOver(Month, [m \in Month |-> AnnualBill(s, net)[m].energy]) = YearCharge(s, net)
         /\ SumOver(Month, [m \in Month |-> s.fixed]) \in Int
         /\ Total(AnnualBill(s, net))
              = YearCharge(s, net) + SumOver(Month, [m \in Month |-> s.fixed])
<1> DEFINE bill    == AnnualBill(s, net)
           charges == [m \in Month |-> EnergyCharge(s, net, m)]
           fees    == [m \in Month |-> s.fixed]
           both    == [m \in Month |-> bill[m].energy + bill[m].fixed]
           energy  == [m \in Month |-> bill[m].energy]
<1>1. \A m \in Month : bill[m].energy = EnergyCharge(s, net, m) /\ bill[m].fixed = s.fixed
  BY DEF AnnualBill
<1>2. \A m \in Month : EnergyCharge(s, net, m) \in Nat
  BY ChargeType
<1>3. s.fixed \in Nat
  BY DEF Schedule
<1> HIDE DEF bill
<1>4. /\ \A m \in Month : charges[m] \in Nat /\ charges[m] \in Int /\ fees[m] \in Int
      /\ \A m \in Month : both[m] = charges[m] + fees[m]
      /\ energy = charges
  BY <1>1, <1>2, <1>3
<1> HIDE DEF charges, fees, both, energy
<1>5. SumOver(Month, charges) \in Nat /\ SumOver(Month, fees) \in Int
  BY <1>4, MonthsAreFinite, SumNat, SumType
<1>6. SumOver(Month, both) = SumOver(Month, charges) + SumOver(Month, fees)
  BY <1>4, MonthsAreFinite, SumPlus
<1>7. Total(bill) = SumOver(Month, both) /\ YearCharge(s, net) = SumOver(Month, charges)
  BY DEF Total, both, YearCharge, charges
<1> QED BY <1>1, <1>2, <1>4, <1>5, <1>6, <1>7 DEF bill, energy, fees

\* A load and its import need the same rates.
LEMMA ImportCovered ==
  ASSUME NEW s, NEW load \in [Hour -> Int]
  PROVE  Uncovered(s, load) <=> Uncovered(s, ImportOf(load))
<1>1. \A h \in Hour : load[h] > 0 <=> ImportOf(load)[h] > 0
  <2>1. \A h \in Hour : load[h] \in Int
    OBVIOUS
  <2> QED BY <2>1 DEF ImportOf, Positive
<1> QED BY <1>1 DEF Uncovered

\* Production takes load off the meter.
LEMMA NetLemma ==
  ASSUME NEW consumption \in [Hour -> Int], NEW production \in [Hour -> Nat]
  PROVE  /\ NetOf(consumption, production) \in [Hour -> Int]
         /\ NeverAbove(NetOf(consumption, production), consumption)
BY DEF NetOf, NeverAbove

\* what the finance step has checked before it bills a year
Billable(consumption, s, export, net) ==
  /\ s \in Schedule /\ ~Uncovered(s, consumption)
  /\ export = None \/ Creditable(export, s, net)

\* what a year's settlement credits each month with
Credited(export, s, net) ==
  IF export = None THEN [m \in Month |-> 0]
  ELSE IF export.regime = "nem_three_nbt"
  THEN LET settled == Settled(AnnualBill(s, net), ExportCredit(export, s, net))
       IN [m \in Month |-> settled[m].applied]
  ELSE ExportCredit(export, s, net)

\* A year saves what the energy no longer bought costs, and is credited month
\* by month; a netted month is credited with no more than it costs.
LEMMA YearLemma ==
  ASSUME NEW consumption \in [Hour -> Int], NEW production \in [Hour -> Nat],
         NEW s, NEW export,
         Billable(consumption, s, export, NetOf(consumption, production))
  PROVE  LET net == NetOf(consumption, production)
             terms == YearTerms(consumption, production, s, export)
         IN /\ net \in [Hour -> Int] /\ ~Uncovered(s, ImportOf(net))
            /\ YearCharge(s, consumption) \in Nat /\ YearCharge(s, net) \in Nat
            /\ terms.avoidance = YearCharge(s, consumption) - YearCharge(s, net)
            /\ Credited(export, s, net) \in [Month -> Int]
            /\ terms.credit = SumOver(Month, Credited(export, s, net))
            /\ terms.credit \in Int
            /\ terms.energy = SumOver(Hour, production) /\ terms.energy \in Nat
            /\ (export # None /\ export.regime = "nem_three_nbt") =>
                 \A m \in Month : Credited(export, s, net)[m] <= EnergyCharge(s, net, m)
<1> DEFINE net == NetOf(consumption, production)
           terms == YearTerms(consumption, production, s, export)
           credited == Credited(export, s, net)
           fees == SumOver(Month, [m \in Month |-> s.fixed])
<1>1. net \in [Hour -> Int] /\ NeverAbove(net, consumption)
  BY NetLemma
<1>2. s \in Schedule /\ ~Uncovered(s, ImportOf(consumption))
  BY ImportCovered DEF Billable
<1>3. ~Uncovered(s, ImportOf(net))
  BY <1>1, <1>2, CoverLemma
<1> HIDE DEF net
<1>4. /\ YearCharge(s, consumption) \in Nat
      /\ Total(AnnualBill(s, consumption)) = YearCharge(s, consumption) + fees
      /\ YearCharge(s, net) \in Nat /\ Total(AnnualBill(s, net)) = YearCharge(s, net) + fees
      /\ fees \in Int
  BY <1>1, <1>2, <1>3, BillTotals
<1> HIDE DEF fees
<1>5. terms.avoidance = YearCharge(s, consumption) - YearCharge(s, net)
  <2>1. terms.avoidance = Total(AnnualBill(s, consumption)) - Total(AnnualBill(s, net))
    BY DEF YearTerms, net
  <2> QED BY <1>4, <2>1
<1>6. terms.energy = SumOver(Hour, production) /\ terms.energy \in Nat
  <2>1. terms.energy = SumOver(Hour, production)
    BY DEF YearTerms
  <2>2. \A h \in Hour : production[h] \in Nat
    OBVIOUS
  <2>3. SumOver(Hour, production) \in Nat
    BY <2>2, MonthsAreFinite, SumNat
  <2> QED BY <2>1, <2>3
<1>7. /\ credited \in [Month -> Int]
      /\ (export # None /\ export.regime = "nem_three_nbt") =>
           \A m \in Month : credited[m] <= EnergyCharge(s, net, m)
  <2>1. CASE export = None
    BY <2>1 DEF Credited
  <2>2. CASE export # None /\ export.regime # "nem_three_nbt"
    <3>1. Creditable(export, s, net)
      BY <2>2 DEF Billable, net
    <3>2. credited = ExportCredit(export, s, net)
      BY <2>2 DEF Credited
    <3> QED BY <1>1, <2>2, <3>1, <3>2, CreditType
  <2>3. CASE export # None /\ export.regime = "nem_three_nbt"
    <3> DEFINE bill == AnnualBill(s, net)
               raw == ExportCredit(export, s, net)
               settled == Settled(bill, raw)
    <3>1. Creditable(export, s, net)
      BY <2>3 DEF Billable, net
    <3>2. raw \in [Month -> Int]
      BY <1>1, <3>1, CreditType
    <3>3. \A m \in Month : bill[m].energy \in Nat /\ bill[m].energy = EnergyCharge(s, net, m)
      BY <1>1, <1>2, <1>3, BillTotals
    <3>4. credited = [m \in Month |-> settled[m].applied]
      BY <2>3 DEF Credited
    <3> HIDE DEF bill, raw
    <3>5. settled \in [Month -> SettledMonth] /\ \A m \in Month : settled[m].applied <= bill[m].energy
      BY <3>2, <3>3, SettledType
    <3> HIDE DEF settled
    <3>6. \A m \in Month : credited[m] = settled[m].applied /\ settled[m].applied \in Int
      BY <3>4, <3>5 DEF SettledMonth
    <3>7. credited \in [Month -> Int]
      <4>1. \A m \in Month : settled[m].applied \in Int
        BY <3>6
      <4> QED BY <3>4, <4>1
    <3> QED BY <3>3, <3>5, <3>6, <3>7
  <2> QED BY <2>1, <2>2, <2>3
<1>8. terms.credit = SumOver(Month, credited)
  BY DEF YearTerms, Credited, net
<1> HIDE DEF credited
<1>9. SumOver(Month, credited) \in Int
  <2>1. \A m \in Month : credited[m] \in Int
    BY <1>7
  <2> QED BY <2>1, MonthsAreFinite, SumType
<1> QED BY <1>1, <1>3, <1>4, <1>5, <1>6, <1>7, <1>8, <1>9 DEF net, credited

\* where surplus is not paid out
KeptIn(export, s) ==
  \/ export = None
  \/ export.regime = "nem_three_nbt"
  \/ export.regime = "nem_one_for_one" /\ s.structure = "tiered"

\* Where surplus is not paid out a year saves no more than what the energy the
\* household used to buy costs.
THEOREM SavingsWithinBill ==
  ASSUME NEW consumption \in [Hour -> Int], NEW production \in [Hour -> Nat],
         NEW s, NEW export, KeptIn(export, s),
         Billable(consumption, s, export, NetOf(consumption, production))
  PROVE  LET terms == YearTerms(consumption, production, s, export)
         IN terms.avoidance + terms.credit
              <= SumOver(Month, [m \in Month |-> AnnualBill(s, consumption)[m].energy])
<1> DEFINE net == NetOf(consumption, production)
           terms == YearTerms(consumption, production, s, export)
           credited == Credited(export, s, net)
           charges == [m \in Month |-> EnergyCharge(s, net, m)]
<1>1. /\ net \in [Hour -> Int] /\ ~Uncovered(s, ImportOf(net))
      /\ YearCharge(s, consumption) \in Nat /\ YearCharge(s, net) \in Nat
      /\ terms.avoidance = YearCharge(s, consumption) - YearCharge(s, net)
      /\ credited \in [Month -> Int]
      /\ terms.credit = SumOver(Month, credited) /\ terms.credit \in Int
      /\ (export # None /\ export.regime = "nem_three_nbt") =>
           \A m \in Month : credited[m] <= EnergyCharge(s, net, m)
  BY YearLemma
<1>2. s \in Schedule /\ ~Uncovered(s, ImportOf(consumption))
  BY ImportCovered DEF Billable
<1> HIDE DEF net
<1>3. \A m \in Month : EnergyCharge(s, net, m) \in Nat
  BY <1>1, <1>2, ChargeType
<1>4. ASSUME NEW m \in Month PROVE credited[m] <= charges[m]
  <2>1. CASE export = None
    BY <1>3, <2>1 DEF Credited
  <2>2. CASE export # None /\ export.regime = "nem_three_nbt"
    BY <1>1, <2>2
  <2>3. CASE export # None /\ export.regime = "nem_one_for_one" /\ s.structure = "tiered"
    <3> DEFINE bought == MonthKwh(ImportOf(net), m)
               kept == Netted(net, m)
    <3>1. credited[m] = TierCharge(bought, s.blocks) - TierCharge(kept, s.blocks)
          /\ charges[m] = TierCharge(bought, s.blocks)
      BY <2>3 DEF Credited, ExportCredit, NemCredit, EnergyCharge
    <3>2. s.blocks \in Blocks /\ bought \in Int /\ kept \in Int
      BY <1>1, <1>2, NettedType DEF Schedule
    <3> HIDE DEF bought, kept, credited, charges
    <3>3. TierCharge(bought, s.blocks) \in Nat /\ TierCharge(kept, s.blocks) \in Nat
      BY <3>2, TierChargeType
    <3> QED BY <3>1, <3>3
  <2> QED BY <2>1, <2>2, <2>3 DEF KeptIn
<1>5. \A m \in Month : credited[m] \in Int /\ charges[m] \in Int /\ credited[m] <= charges[m]
  BY <1>1, <1>3, <1>4
<1>6. YearCharge(s, net) = SumOver(Month, charges)
  BY DEF YearCharge
<1> HIDE DEF credited, charges, terms
<1>7. SumOver(Month, credited) <= SumOver(Month, charges)
  BY <1>5, MonthsAreFinite, SumLarger
<1>8. SumOver(Month, [m \in Month |-> AnnualBill(s, consumption)[m].energy])
        = YearCharge(s, consumption)
  BY <1>2, BillTotals
<1>9. terms.avoidance + terms.credit <= YearCharge(s, consumption)
  <2>1. \A c, b, x \in Int : x <= b => (c - b) + x <= c
    OBVIOUS
  <2> QED BY <1>1, <1>6, <1>7, <2>1
<1> QED BY <1>8, <1>9 DEF terms

\* A higher load never makes a year cheaper.
LEMMA YearChargeRises ==
  ASSUME NEW s \in Schedule, NEW less \in [Hour -> Int], NEW more \in [Hour -> Int],
         NeverAbove(less, more), ~Uncovered(s, ImportOf(more))
  PROVE  YearCharge(s, less) <= YearCharge(s, more)
<1> DEFINE a == [m \in Month |-> EnergyCharge(s, less, m)]
           b == [m \in Month |-> EnergyCharge(s, more, m)]
<1>1. ~Uncovered(s, ImportOf(less))
  BY CoverLemma
<1>2. \A m \in Month : EnergyCharge(s, less, m) \in Nat /\ EnergyCharge(s, more, m) \in Nat
  BY <1>1, ChargeType
<1>3. \A m \in Month : EnergyCharge(s, less, m) <= EnergyCharge(s, more, m)
  BY ChargeRises
<1>4. \A m \in Month : a[m] \in Int /\ b[m] \in Int /\ a[m] <= b[m]
  BY <1>2, <1>3
<1> HIDE DEF a, b
<1>5. SumOver(Month, a) <= SumOver(Month, b)
  BY <1>4, MonthsAreFinite, SumLarger
<1> QED BY <1>5 DEF YearCharge, a, b

\* A year saves no more than the bill of a year that was billed a lower load
\* says: finance prices degraded production, the tariff step the undegraded.
THEOREM SavingsWithinTariff ==
  ASSUME NEW consumption \in [Hour -> Int], NEW production \in [Hour -> Nat],
         NEW s, NEW export,
         Billable(consumption, s, export, NetOf(consumption, production)),
         NEW billed \in [Hour -> Int], NeverAbove(billed, NetOf(consumption, production))
  PROVE  YearTerms(consumption, production, s, export).avoidance
           <= Total(AnnualBill(s, consumption)) - Total(AnnualBill(s, billed))
<1> DEFINE net == NetOf(consumption, production)
           terms == YearTerms(consumption, production, s, export)
           fees == SumOver(Month, [m \in Month |-> s.fixed])
<1>1. /\ net \in [Hour -> Int] /\ ~Uncovered(s, ImportOf(net))
      /\ YearCharge(s, consumption) \in Nat /\ YearCharge(s, net) \in Nat
      /\ terms.avoidance = YearCharge(s, consumption) - YearCharge(s, net)
  BY YearLemma
<1> HIDE DEF terms, net
<1>2. s \in Schedule /\ ~Uncovered(s, ImportOf(consumption))
  BY ImportCovered DEF Billable
<1>3. NeverAbove(billed, net)
  BY DEF net
<1>4. ~Uncovered(s, ImportOf(billed))
  BY <1>1, <1>3, CoverLemma
<1>5. YearCharge(s, billed) <= YearCharge(s, net)
  BY <1>1, <1>2, <1>3, YearChargeRises
<1>6. /\ Total(AnnualBill(s, consumption)) = YearCharge(s, consumption) + fees
      /\ Total(AnnualBill(s, billed)) = YearCharge(s, billed) + fees
      /\ YearCharge(s, billed) \in Nat /\ fees \in Int
  BY <1>2, <1>4, BillTotals
<1> HIDE DEF fees
<1>7. terms.avoidance <= Total(AnnualBill(s, consumption)) - Total(AnnualBill(s, billed))
  <2>1. \A c, b, n, f \in Int : b <= n => c - n <= (c + f) - (b + f)
    OBVIOUS
  <2> QED BY <1>1, <1>5, <1>6, <2>1
<1> QED BY <1>7 DEF terms

\* Unless export can cost money, panels that yield less never save more.
THEOREM SavingsFade ==
  ASSUME NEW consumption \in [Hour -> Int],
         NEW early \in [Hour -> Nat], NEW late \in [Hour -> Nat],
         \A h \in Hour : late[h] <= early[h],
         NEW s, NEW export, export = None \/ export.regime \in {"nem_one_for_one", "seg_flat"},
         Billable(consumption, s, export, NetOf(consumption, early)),
         Billable(consumption, s, export, NetOf(consumption, late))
  PROVE  LET e == YearTerms(consumption, early, s, export)
             l == YearTerms(consumption, late, s, export)
         IN l.avoidance + l.credit <= e.avoidance + e.credit /\ l.energy <= e.energy
<1> DEFINE less == NetOf(consumption, early)
           more == NetOf(consumption, late)
           e == YearTerms(consumption, early, s, export)
           l == YearTerms(consumption, late, s, export)
           a == [m \in Month |-> EnergyCharge(s, less, m)]
           b == [m \in Month |-> EnergyCharge(s, more, m)]
           p == Credited(export, s, less)
           q == Credited(export, s, more)
<1>1. /\ less \in [Hour -> Int] /\ ~Uncovered(s, ImportOf(less))
      /\ YearCharge(s, consumption) \in Nat /\ YearCharge(s, less) \in Nat
      /\ e.avoidance = YearCharge(s, consumption) - YearCharge(s, less)
      /\ p \in [Month -> Int] /\ e.credit = SumOver(Month, p) /\ e.credit \in Int
      /\ e.energy = SumOver(Hour, early)
  BY YearLemma
<1>2. /\ more \in [Hour -> Int] /\ ~Uncovered(s, ImportOf(more))
      /\ YearCharge(s, more) \in Nat
      /\ l.avoidance = YearCharge(s, consumption) - YearCharge(s, more)
      /\ q \in [Month -> Int] /\ l.credit = SumOver(Month, q) /\ l.credit \in Int
      /\ l.energy = SumOver(Hour, late)
  BY YearLemma
<1>3. s \in Schedule
  BY DEF Billable
<1>4. NeverAbove(less, more)
  <2>1. \A h \in Hour : consumption[h] - early[h] <= consumption[h] - late[h]
    OBVIOUS
  <2> QED BY <2>1 DEF NeverAbove, NetOf
<1>5. l.energy <= e.energy
  <2>1. \A h \in Hour : late[h] \in Int /\ early[h] \in Int /\ late[h] <= early[h]
    OBVIOUS
  <2>2. SumOver(Hour, late) <= SumOver(Hour, early)
    BY <2>1, MonthsAreFinite, SumLarger
  <2> QED BY <1>1, <1>2, <2>2
<1>6. export # None => Creditable(export, s, less) /\ export \in ExportConfig
  BY DEF Billable, Creditable
<1> HIDE DEF e, l, less, more
<1>7. \A m \in Month : EnergyCharge(s, less, m) \in Nat /\ EnergyCharge(s, more, m) \in Nat
  BY <1>1, <1>2, <1>3, ChargeType
<1>8. ASSUME NEW m \in Month PROVE a[m] - p[m] <= b[m] - q[m]
  <2>1. CASE export = None
    <3>1. p[m] = 0 /\ q[m] = 0
      BY <2>1 DEF Credited
    <3>2. EnergyCharge(s, less, m) <= EnergyCharge(s, more, m)
      BY <1>1, <1>2, <1>3, <1>4, ChargeRises
    <3> HIDE DEF p, q
    <3> QED BY <1>7, <3>1, <3>2
  <2>2. CASE export # None
    <3>1. p = ExportCredit(export, s, less) /\ q = ExportCredit(export, s, more)
      BY <2>2 DEF Credited
    <3>2. EnergyCharge(s, less, m) - ExportCredit(export, s, less)[m]
            <= EnergyCharge(s, more, m) - ExportCredit(export, s, more)[m]
      BY <1>1, <1>2, <1>3, <1>4, <1>6, <2>2, BurdenRises
    <3> QED BY <3>1, <3>2
  <2> QED BY <2>1, <2>2
<1>9. \A m \in Month : a[m] \in Int /\ b[m] \in Int /\ p[m] \in Int /\ q[m] \in Int
  BY <1>1, <1>2, <1>7
<1>10. YearCharge(s, less) = SumOver(Month, a) /\ YearCharge(s, more) = SumOver(Month, b)
  BY DEF YearCharge
<1> HIDE DEF a, b, p, q
<1> DEFINE x == [m \in Month |-> a[m] + q[m]]
           y == [m \in Month |-> b[m] + p[m]]
<1>11. \A m \in Month : /\ x[m] = a[m] + q[m] /\ y[m] = b[m] + p[m]
                        /\ x[m] \in Int /\ y[m] \in Int /\ x[m] <= y[m]
  <2>1. \A i, j, k, n \in Int : i - k <= j - n => i + n <= j + k
    OBVIOUS
  <2> QED BY <1>8, <1>9, <2>1
<1> HIDE DEF x, y
<1>12. SumOver(Month, x) <= SumOver(Month, y)
  BY <1>11, MonthsAreFinite, SumLarger
<1>13. /\ SumOver(Month, x) = SumOver(Month, a) + SumOver(Month, q)
       /\ SumOver(Month, y) = SumOver(Month, b) + SumOver(Month, p)
  <2>1. \A m \in Month : a[m] \in Int /\ q[m] \in Int /\ x[m] = a[m] + q[m]
    BY <1>9, <1>11
  <2>2. \A m \in Month : b[m] \in Int /\ p[m] \in Int /\ y[m] = b[m] + p[m]
    BY <1>9, <1>11
  <2>3. SumOver(Month, x) = SumOver(Month, a) + SumOver(Month, q)
    BY <2>1, MonthsAreFinite, SumPlus
  <2>4. SumOver(Month, y) = SumOver(Month, b) + SumOver(Month, p)
    BY <2>2, MonthsAreFinite, SumPlus
  <2> QED BY <2>3, <2>4
<1>14. l.avoidance + l.credit <= e.avoidance + e.credit
  <2>1. \A c, i, j, k, n \in Int : i + n <= j + k => (c - j) + n <= (c - i) + k
    OBVIOUS
  <2> QED BY <1>1, <1>2, <1>10, <1>12, <1>13, <2>1
<1> QED BY <1>5, <1>14 DEF e, l

----------------------------------------------------------------------------
\* Powers and present values

\* The recursion of Power, from zero up.
LEMMA PowerSteps ==
  ASSUME NEW x \in Int
  PROVE  /\ Power(x, 0) = 1
         /\ \A n \in Nat : Power(x, n) \in Int /\ Power(x, n + 1) = x * Power(x, n)
<1> DEFINE step == [y \in Int \X Nat |-> x * y[1]]
           Eq(p) == p = [i \in Nat |-> IF i = 0 THEN 1 ELSE x * p[i - 1]]
           w == CHOOSE p : Eq(p)
<1>1. \A y \in Int \X Nat : x * y[1] \in Int /\ step[y] = x * y[1]
  <2>1. \A y \in Int \X Nat : y[1] \in Int
    OBVIOUS
  <2> QED BY <2>1
<1>2. PICK g \in [Nat -> Int] : \A k \in Nat : Steps(1, step, g, k)
  <2>1. step \in [Int \X Nat -> Int]
    BY <1>1, Zenon
  <2>2. 1 \in Int
    OBVIOUS
  <2> HIDE DEF step
  <2> QED BY <2>1, <2>2, Recursion
<1>3. g[0] = 1
  BY <1>2 DEF Steps
<1>4. ASSUME NEW n \in Nat PROVE g[n + 1] = x * g[n]
  <2>1. Steps(1, step, g, n + 1) /\ n + 1 \in 1..(n + 1) /\ (n + 1) - 1 = n
    BY <1>2
  <2>2. g[n + 1] = step[<<g[n], n + 1>>]
    BY <2>1 DEF Steps
  <2>3. <<g[n], n + 1>> \in Int \X Nat
    BY <1>2
  <2> HIDE DEF step
  <2> QED BY <1>1, <2>2, <2>3
<1>5. Eq(g)
  <2>1. ASSUME NEW i \in Nat PROVE g[i] = IF i = 0 THEN 1 ELSE x * g[i - 1]
    <3>1. CASE i = 0
      BY <1>3, <3>1
    <3>2. CASE i # 0
      <4>1. i - 1 \in Nat /\ (i - 1) + 1 = i
        BY <3>2
      <4>2. g[(i - 1) + 1] = x * g[i - 1]
        BY <1>4, <4>1
      <4> QED BY <3>2, <4>1, <4>2
    <3> QED BY <3>1, <3>2
  <2> QED BY <2>1
<1>6. Eq(w)
  <2> HIDE DEF Eq
  <2> QED BY <1>5
<1>7. \A n \in Nat : Power(x, n) = w[n]
  BY DEF Power
<1>8. w = [i \in Nat |-> IF i = 0 THEN 1 ELSE x * w[i - 1]]
  BY <1>6
<1> HIDE DEF w
<1>9. w[0] = 1
  BY <1>8
<1>10. ASSUME NEW n \in Nat PROVE w[n + 1] = x * w[n]
  <2>1. n + 1 \in Nat /\ n + 1 # 0 /\ (n + 1) - 1 = n
    OBVIOUS
  <2>2. w[n + 1] = IF n + 1 = 0 THEN 1 ELSE x * w[(n + 1) - 1]
    BY <1>8, <2>1
  <2> QED BY <2>1, <2>2
<1> DEFINE T == {n \in Nat : w[n] \in Int}
<1>11. 0 \in T
  BY <1>9
<1>12. \A n \in T : n + 1 \in T
  BY <1>10
<1> HIDE DEF T
<1>13. T = Nat
  <2>1. T \in SUBSET Nat
    BY DEF T
  <2> QED BY <1>11, <1>12, <2>1, CountingUp
<1>14. \A n \in Nat : w[n] \in Int
  BY <1>13 DEF T
<1> QED BY <1>7, <1>9, <1>10, <1>14

LEMMA PowerOfOne == \A n \in Nat : Power(1, n) = 1
<1> DEFINE T == {n \in Nat : Power(1, n) = 1}
<1>1. 0 \in T
  BY PowerSteps
<1>2. \A n \in T : n + 1 \in T
  BY PowerSteps
<1>3. T \in SUBSET Nat
  OBVIOUS
<1> HIDE DEF T
<1>4. T = Nat
  BY <1>1, <1>2, <1>3, CountingUp
<1> QED BY <1>4 DEF T

LEMMA PowerPositive ==
  ASSUME NEW x \in Nat \ {0} PROVE \A n \in Nat : Power(x, n) \in Nat \ {0}
<1> DEFINE T == {n \in Nat : Power(x, n) \in Nat \ {0}}
<1>1. 0 \in T
  BY PowerSteps
<1>2. ASSUME NEW n \in T PROVE n + 1 \in T
  <2>1. Power(x, n) \in Nat \ {0} /\ Power(x, n + 1) = x * Power(x, n)
    BY PowerSteps
  <2>2. \A a, b \in Nat \ {0} : a * b \in Nat \ {0}
    OBVIOUS
  <2> QED BY <2>1, <2>2
<1>3. T \in SUBSET Nat
  OBVIOUS
<1> HIDE DEF T
<1>4. T = Nat
  BY <1>1, <1>2, <1>3, CountingUp
<1> QED BY <1>4 DEF T

LEMMA PowerAdds ==
  ASSUME NEW x \in Int, NEW a \in Nat
  PROVE  \A b \in Nat : Power(x, a + b) = Power(x, a) * Power(x, b)
<1> DEFINE T == {b \in Nat : Power(x, a + b) = Power(x, a) * Power(x, b)}
<1>1. 0 \in T
  BY PowerSteps
<1>2. ASSUME NEW b \in T PROVE b + 1 \in T
  <2>1. /\ Power(x, a + (b + 1)) = x * Power(x, a + b)
        /\ Power(x, b + 1) = x * Power(x, b)
        /\ Power(x, a) \in Int /\ Power(x, b) \in Int
        /\ Power(x, a + b) = Power(x, a) * Power(x, b)
    <3>1. a + b \in Nat /\ a + (b + 1) = (a + b) + 1
      OBVIOUS
    <3> QED BY <3>1, PowerSteps
  <2>2. \A p, q \in Int : x * (p * q) = p * (x * q)
    OBVIOUS
  <2> QED BY <2>1, <2>2
<1>3. T \in SUBSET Nat
  OBVIOUS
<1> HIDE DEF T
<1>4. T = Nat
  BY <1>1, <1>2, <1>3, CountingUp
<1> QED BY <1>4 DEF T

LEMMA HorizonLemma ==
  ASSUME NEW n \in Nat, NEW flows, DOMAIN flows = 0..n
  PROVE  Horizon(flows) = n
<1>1. n \in 0..n /\ \A y \in 0..n : n >= y
  OBVIOUS
<1>2. \A x \in 0..n : (\A y \in 0..n : x >= y) => x = n
  BY <1>1
<1> QED BY <1>1, <1>2 DEF Horizon, Max

\* Without discounting a present value is the sum of the flows.
LEMMA PlainNpv ==
  ASSUME NEW n \in Nat, NEW flows, DOMAIN flows = 0..n, \A t \in 0..n : flows[t] \in Int
  PROVE  Npv(1, flows) = Unit * SumOver(0..n, flows)
<1>1. \A t \in 0..n : PresentValues(1, flows)[t] = Unit * flows[t]
  <2>1. \A x \in Int : x * (Unit \div 1) = Unit * x
    BY FinanceAssumption
  <2> QED BY <2>1, PowerOfOne DEF PresentValues, Discounted
<1>2. IsFiniteSet(0..n)
  BY FS_Interval
<1>3. Unit \in Int
  BY FinanceAssumption
<1>4. SumOver(0..n, PresentValues(1, flows)) = Unit * SumOver(0..n, flows)
  BY <1>1, <1>2, <1>3, SumTimes
<1> QED BY <1>4 DEF Npv

----------------------------------------------------------------------------
\* Headline metrics

\* what a unit of money of year t is worth today, in Unit-ths
Today(growth, t) == Unit \div Power(growth, t)

\* Unit is a multiple of the growth of every year
Exact(growth, n) == \A t \in 0..n : Unit % Power(growth, t) = 0

LEMMA TodayType ==
  ASSUME NEW r \in Nat \ {0}, NEW t \in Nat
  PROVE  /\ Today(r, t) \in Nat
         /\ Unit % Power(r, t) = 0 => Today(r, t) * Power(r, t) = Unit
<1>1. Power(r, t) \in Nat \ {0} /\ Unit \in Nat
  BY PowerPositive, FinanceAssumption
<1>2. \A p \in Nat \ {0} : \A u \in Nat : u \div p \in Nat /\ (u % p = 0 => (u \div p) * p = u)
  OBVIOUS
<1> QED BY <1>1, <1>2 DEF Today

LEMMA NpvType ==
  ASSUME NEW n \in Nat, NEW r \in Nat \ {0}, NEW flows, DOMAIN flows = 0..n \/ DOMAIN flows = 1..n,
         \A t \in DOMAIN flows : flows[t] \in Int
  PROVE  /\ IsFiniteSet(DOMAIN flows)
         /\ \A t \in DOMAIN flows : /\ t \in Nat /\ PresentValues(r, flows)[t] \in Int
                                    /\ PresentValues(r, flows)[t] = flows[t] * Today(r, t)
         /\ Npv(r, flows) \in Int
<1>1. IsFiniteSet(DOMAIN flows) /\ \A t \in DOMAIN flows : t \in Nat
  <2>1. CASE DOMAIN flows = 0..n
    <3>1. IsFiniteSet(0..n)
      BY FS_Interval
    <3> QED BY <2>1, <3>1
  <2>2. CASE DOMAIN flows = 1..n
    <3>1. IsFiniteSet(1..n)
      BY FS_Interval
    <3> QED BY <2>2, <3>1
  <2> QED BY <2>1, <2>2
<1>2. \A t \in DOMAIN flows : PresentValues(r, flows)[t] = flows[t] * Today(r, t)
  BY DEF PresentValues, Discounted, Today
<1>3. \A t \in DOMAIN flows : PresentValues(r, flows)[t] \in Int
  <2>1. \A t \in DOMAIN flows : Today(r, t) \in Int
    BY <1>1, TodayType
  <2>2. \A a, b \in Int : a * b \in Int
    OBVIOUS
  <2> QED BY <1>2, <2>1, <2>2
<1>4. Npv(r, flows) \in Int
  BY <1>1, <1>3, SumType DEF Npv
<1> QED BY <1>1, <1>2, <1>3, <1>4

\* MIRR compares what the inflows grow to with what the outlays would have
\* grown to: it reaches the rate exactly if the NPV at that rate is not
\* negative.
THEOREM MirrAgrees ==
  ASSUME NEW n \in Nat, NEW r \in Nat \ {0}, Exact(r, n),
         NEW flows, DOMAIN flows = 0..n, \A t \in 0..n : flows[t] \in Int,
         Mirr(r, r, flows) # None
  PROVE  LET mirr == Mirr(r, r, flows)
         IN Npv(r, flows) >= 0
              <=> Unit * mirr.earned >= AlternativeWealth(mirr.paid, r, n)[n]
<1> DEFINE N == 0..n
           paid == [t \in N |-> Discounted(r, Positive(-flows[t]), t)]
           earned == [t \in N |-> Positive(flows[t]) * Power(r, n - t)]
           worth == [t \in N |-> Positive(flows[t]) * Today(r, t)]
           R == Power(r, n)
<1>1. Horizon(flows) = n /\ IsFiniteSet(N) /\ n \in N
  BY HorizonLemma, FS_Interval
<1>2. Mirr(r, r, flows) = [paid |-> SumOver(N, paid), earned |-> SumOver(N, earned)]
  BY <1>1 DEF Mirr
<1>3. R \in Nat \ {0}
  BY PowerPositive
<1>4. AlternativeWealth(SumOver(N, paid), r, n)[n] = SumOver(N, paid) * R
  <2> HIDE DEF paid
  <2> QED BY <1>1 DEF AlternativeWealth
<1>5. ASSUME NEW t \in N
      PROVE  /\ paid[t] \in Int /\ worth[t] \in Int /\ earned[t] \in Int
             /\ worth[t] = PresentValues(r, flows)[t] + paid[t]
             /\ R * worth[t] = Unit * earned[t]
             /\ PresentValues(r, flows)[t] \in Int
  <2> DEFINE a == Positive(flows[t])
             b == Positive(-flows[t])
             D == Today(r, t)
             P == Power(r, t)
             Q == Power(r, n - t)
  <2>1. t \in Nat /\ n - t \in Nat /\ t + (n - t) = n
    OBVIOUS
  <2>2. a \in Nat /\ b \in Nat /\ flows[t] = a - b
    BY DEF Positive
  <2>3. D \in Nat /\ D * P = Unit
    BY <2>1, TodayType DEF Exact
  <2>4. P \in Nat \ {0} /\ Q \in Nat \ {0} /\ R = P * Q
    <3>1. Power(r, t + (n - t)) = Power(r, t) * Power(r, n - t)
      BY <2>1, PowerAdds
    <3> QED BY <2>1, <3>1, PowerPositive
  <2>5. /\ paid[t] = b * D /\ worth[t] = a * D /\ earned[t] = a * Q
        /\ PresentValues(r, flows)[t] = flows[t] * D
    <3>1. PresentValues(r, flows)[t] = flows[t] * D
      BY DEF PresentValues, Discounted, Today
    <3>2. paid[t] = b * D
      BY DEF Discounted, Today
    <3> QED BY <3>1, <3>2
  <2> HIDE DEF a, b, D, P, Q, R, paid, worth, earned
  <2>6. \A x, y, z \in Int : x * z = (x - y) * z + y * z /\ x * z \in Int
    OBVIOUS
  <2>7. a * D = (a - b) * D + b * D /\ a * D \in Int /\ b * D \in Int /\ (a - b) * D \in Int
    BY <2>2, <2>3
  <2>8. R * (a * D) = Unit * (a * Q)
    <3>1. \A x, p, q, d \in Int : (p * q) * (x * d) = (d * p) * (x * q)
      OBVIOUS
    <3>2. (P * Q) * (a * D) = (D * P) * (a * Q)
      BY <2>2, <2>3, <2>4, <3>1
    <3> QED BY <2>3, <2>4, <3>2
  <2>9. a * Q \in Int
    BY <2>2, <2>4
  <2> QED BY <2>2, <2>5, <2>7, <2>8, <2>9
<1> DEFINE G == SumOver(N, worth)
           C == SumOver(N, paid)
           E == SumOver(N, earned)
           V == SumOver(N, PresentValues(r, flows))
<1> HIDE DEF paid, worth, earned, R
<1>6. G = V + C /\ G \in Int /\ C \in Int /\ E \in Int /\ V \in Int
  <2>1. G = V + C
    BY <1>1, <1>5, SumPlus
  <2>2. G \in Int
    BY <1>1, <1>5, SumType
  <2>3. C \in Int
    BY <1>1, <1>5, SumType
  <2>4. E \in Int
    BY <1>1, <1>5, SumType
  <2>5. V \in Int
    BY <1>1, <1>5, SumType
  <2> QED BY <2>1, <2>2, <2>3, <2>4, <2>5
<1>7. R * G = Unit * E
  <2> DEFINE both == [t \in N |-> R * worth[t]]
  <2>1. \A t \in N : /\ worth[t] \in Int /\ both[t] = R * worth[t]
                     /\ earned[t] \in Int /\ both[t] = Unit * earned[t]
    BY <1>5
  <2> HIDE DEF both
  <2>2. R \in Int /\ Unit \in Int
    BY <1>3, FinanceAssumption
  <2>3. SumOver(N, both) = R * G
    BY <1>1, <2>1, <2>2, SumTimes
  <2>4. SumOver(N, both) = Unit * E
    BY <1>1, <2>1, <2>2, SumTimes
  <2> QED BY <2>3, <2>4
<1>8. Npv(r, flows) = V
  BY DEF Npv
<1> HIDE DEF G, C, E, V
<1>9. V >= 0 <=> R * G >= C * R
  <2>1. \A p \in Nat \ {0} : \A v, c \in Int : v >= 0 <=> p * (v + c) >= c * p
    <3> TAKE p \in Nat \ {0}
    <3> TAKE v, c \in Int
    <3>1. p * (v + c) = p * v + c * p /\ p * v \in Int /\ c * p \in Int
      OBVIOUS
    <3>2. v >= 0 <=> p * v >= 0
      OBVIOUS
    <3> QED BY <3>1, <3>2
  <2> QED BY <1>3, <1>6, <2>1
<1>10. C = SumOver(N, paid) /\ E = SumOver(N, earned)
  BY DEF C, E
<1> QED BY <1>2, <1>4, <1>7, <1>8, <1>9, <1>10

\* an outlay, then years that cost nothing
Pays(flows, n) == flows[0] < 0 /\ \A t \in 1..n : flows[t] >= 0

\* A project with an NPV pays back, and after a single outlay only such a
\* project does.
THEOREM PaybackAgrees ==
  ASSUME NEW n \in Nat, NEW r \in Nat \ {0}, None \notin Int,
         NEW flows, DOMAIN flows = 0..n, \A t \in 0..n : flows[t] \in Int
  PROVE  /\ Npv(r, flows) >= 0 => Payback(r, flows) # None
         /\ Pays(flows, n) /\ Payback(r, flows) # None => Npv(r, flows) >= 0
<1> DEFINE V == PresentValues(r, flows)
           even == {t \in 0..n : SumOver(0..t, V) >= 0}
<1>1. \A t \in 0..n : V[t] \in Int /\ V[t] = flows[t] * Today(r, t)
  BY NpvType
<1>2. Payback(r, flows) = IF even = {} THEN None ELSE Min(even)
  BY DEF Payback
<1>3. Npv(r, flows) = SumOver(0..n, V)
  BY DEF Npv
<1> HIDE DEF V
<1>4. even # {} => Min(even) \in Int
  <2>1. even \in SUBSET Nat
    OBVIOUS
  <2> HIDE DEF even
  <2>2. even # {} => \E t \in even : \A k \in even : t <= k
    BY <2>1, LeastNatural
  <2>3. ASSUME even # {} PROVE Min(even) \in even
    <3>1. \E t \in even : \A k \in even : t <= k
      BY <2>2, <2>3
    <3> HIDE DEF even
    <3> QED BY <3>1 DEF Min
  <2>4. even # {} => Min(even) \in Nat
    BY <2>1, <2>3, Zenon
  <2>5. \A x \in Nat : x \in Int
    OBVIOUS
  <2> QED BY <2>4, <2>5, Zenon
<1>5. ASSUME Npv(r, flows) >= 0 PROVE Payback(r, flows) # None
  <2>1. n \in even
    BY <1>3, <1>5
  <2> QED BY <1>2, <1>4, <2>1
<1>6. ASSUME Pays(flows, n), Payback(r, flows) # None PROVE Npv(r, flows) >= 0
  <2>1. PICK t \in 0..n : SumOver(0..t, V) >= 0
    BY <1>2, <1>6
  <2>2. /\ IsFiniteSet(0..t) /\ IsFiniteSet((t + 1)..n)
        /\ (0..t) \cup ((t + 1)..n) = 0..n /\ (0..t) \cap ((t + 1)..n) = {}
    <3>1. t \in Int /\ t + 1 \in Int /\ n \in Int /\ 0 \in Int
      OBVIOUS
    <3>2. IsFiniteSet(0..t) /\ IsFiniteSet((t + 1)..n)
      BY <3>1, FS_Interval
    <3>3. (0..t) \cup ((t + 1)..n) = 0..n
      OBVIOUS
    <3>4. (0..t) \cap ((t + 1)..n) = {}
      OBVIOUS
    <3> QED BY <3>2, <3>3, <3>4
  <2>3. SumOver(0..n, V) = SumOver(0..t, V) + SumOver((t + 1)..n, V)
    BY <1>1, <2>2, SumUnion
  <2>4. \A k \in (t + 1)..n : V[k] \in Nat
    <3> TAKE k \in (t + 1)..n
    <3>1. k \in 1..n /\ flows[k] \in Nat /\ Today(r, k) \in Nat
      BY <1>6, TodayType DEF Pays
    <3>2. V[k] = flows[k] * Today(r, k)
      BY <1>1
    <3> QED BY <3>1, <3>2
  <2>5. SumOver((t + 1)..n, V) \in Nat
    BY <2>2, <2>4, SumNat
  <2>6. SumOver(0..t, V) \in Int
    BY <1>1, <2>2, SumType
  <2> QED BY <1>3, <2>1, <2>3, <2>5, <2>6
<1> QED BY <1>5, <1>6

----------------------------------------------------------------------------
\* The root of irr

LEMMA PowerRises ==
  ASSUME NEW g \in Nat, NEW h \in Nat, g <= h
  PROVE  \A n \in Nat : Power(g, n) \in Nat /\ Power(g, n) <= Power(h, n)
<1> DEFINE T == {n \in Nat : Power(g, n) \in Nat /\ Power(g, n) <= Power(h, n)}
<1>1. 0 \in T
  BY PowerSteps
<1>2. ASSUME NEW n \in T PROVE n + 1 \in T
  <2>1. /\ Power(g, n) \in Nat /\ Power(h, n) \in Int /\ Power(g, n) <= Power(h, n)
        /\ Power(g, n + 1) = g * Power(g, n) /\ Power(h, n + 1) = h * Power(h, n)
    BY PowerSteps
  <2>2. \A x, y \in Nat : x <= y => g * x <= h * y /\ g * x \in Nat
    <3> TAKE x, y \in Nat
    <3> HAVE x <= y
    <3>1. g * x <= h * x /\ h * x <= h * y
      BY TimesLarger
    <3> QED BY <3>1
  <2> QED BY <2>1, <2>2
<1>3. T \in SUBSET Nat
  OBVIOUS
<1> HIDE DEF T
<1>4. T = Nat
  BY <1>1, <1>2, <1>3, CountingUp
<1> QED BY <1>4 DEF T

LEMMA PowerTimes ==
  ASSUME NEW a \in Int, NEW b \in Int
  PROVE  \A n \in Nat : Power(a * b, n) = Power(a, n) * Power(b, n)
<1> DEFINE T == {n \in Nat : Power(a * b, n) = Power(a, n) * Power(b, n)}
<1>0. a * b \in Int
  OBVIOUS
<1>1. 0 \in T
  BY <1>0, PowerSteps
<1>2. ASSUME NEW n \in T PROVE n + 1 \in T
  <2>1. /\ Power(a, n) \in Int /\ Power(b, n) \in Int
        /\ Power(a, n + 1) = a * Power(a, n) /\ Power(b, n + 1) = b * Power(b, n)
        /\ Power(a * b, n + 1) = (a * b) * Power(a * b, n)
        /\ Power(a * b, n) = Power(a, n) * Power(b, n)
    BY <1>0, PowerSteps
  <2>2. \A p, q \in Int : (a * b) * (p * q) = (a * p) * (b * q)
    OBVIOUS
  <2> QED BY <2>1, <2>2
<1>3. T \in SUBSET Nat
  OBVIOUS
<1> HIDE DEF T
<1>4. T = Nat
  BY <1>1, <1>2, <1>3, CountingUp
<1> QED BY <1>4 DEF T

LEMMA PowerSplits ==
  ASSUME NEW x \in Int, NEW n \in Nat, NEW t \in 0..n
  PROVE  Power(x, n) = Power(x, n - t) * Power(x, t)
<1>1. t \in Nat /\ n - t \in Nat /\ (n - t) + t = n
  OBVIOUS
<1>2. \A i, j \in Nat : Power(x, i + j) = Power(x, i) * Power(x, j)
  BY PowerAdds
<1>3. Power(x, (n - t) + t) = Power(x, n - t) * Power(x, t)
  BY <1>1, <1>2
<1> QED BY <1>1, <1>3

\* the NPV at a growth of g Grid-ths, times what makes it whole
Root(g, flows, n) ==
  SumOver(0..n, [t \in 0..n |-> flows[t] * Power(g, n - t) * Power(Grid, t)])

LEMMA RootType ==
  ASSUME NEW n \in Nat, NEW g \in Nat \ {0},
         NEW flows, DOMAIN flows = 0..n, \A t \in 0..n : flows[t] \in Int
  PROVE  /\ IsFiniteSet(0..n)
         /\ \A t \in 0..n : flows[t] * Power(g, n - t) * Power(Grid, t) \in Int
         /\ Root(g, flows, n) \in Int
         /\ NpvSign(g, flows) = Sign(Root(g, flows, n))
<1>1. IsFiniteSet(0..n)
  BY FS_Interval
<1>2. ASSUME NEW t \in 0..n PROVE flows[t] * Power(g, n - t) * Power(Grid, t) \in Int
  <2>1. t \in Nat /\ n - t \in Nat /\ Grid \in Nat \ {0}
    BY FinanceAssumption
  <2>2. Power(g, n - t) \in Int /\ Power(Grid, t) \in Int
    BY <2>1, PowerPositive
  <2>3. \A x, p, q \in Int : x * p * q \in Int
    OBVIOUS
  <2> QED BY <2>2, <2>3
<1> DEFINE terms == [t \in 0..n |-> flows[t] * Power(g, n - t) * Power(Grid, t)]
<1>3. \A t \in 0..n : terms[t] \in Int
  BY <1>2
<1>4. Root(g, flows, n) = SumOver(0..n, terms)
  BY DEF Root
<1>5. NpvSign(g, flows) = Sign(SumOver(0..n, terms))
  BY HorizonLemma DEF NpvSign
<1> HIDE DEF terms
<1>6. SumOver(0..n, terms) \in Int
  BY <1>1, <1>3, SumType
<1> QED BY <1>1, <1>2, <1>4, <1>5, <1>6

\* After a single outlay the NPV falls through zero once: what is positive at
\* a growth is so at every smaller one.
LEMMA RootFalls ==
  ASSUME NEW n \in Nat, NEW g \in Nat \ {0}, NEW h \in Nat \ {0}, g <= h,
         NEW flows, DOMAIN flows = 0..n, \A t \in 0..n : flows[t] \in Int, Pays(flows, n)
  PROVE  Root(h, flows, n) * Power(g, n) <= Root(g, flows, n) * Power(h, n)
<1> DEFINE N == 0..n
           G == [t \in N |-> flows[t] * Power(g, n - t) * Power(Grid, t)]
           H == [t \in N |-> flows[t] * Power(h, n - t) * Power(Grid, t)]
           x == [t \in N |-> Power(h, n) * G[t]]
           y == [t \in N |-> Power(g, n) * H[t]]
<1>1. IsFiniteSet(N) /\ \A t \in N : G[t] \in Int /\ H[t] \in Int
  <2>1. IsFiniteSet(N)
    BY RootType
  <2>2. \A t \in N : G[t] \in Int
    BY RootType
  <2>3. \A t \in N : H[t] \in Int
    BY RootType
  <2> QED BY <2>1, <2>2, <2>3
<1>2. Power(g, n) \in Nat \ {0} /\ Power(h, n) \in Nat \ {0}
  BY PowerPositive
<1>3. ASSUME NEW t \in N PROVE x[t] \in Int /\ y[t] \in Int /\ y[t] <= x[t]
  <2> DEFINE a == Power(g, n - t)
             b == Power(h, n - t)
             c == Power(g, t)
             d == Power(h, t)
             q == Power(Grid, t)
             f == flows[t]
  <2>1. t \in Nat /\ n - t \in Nat /\ (n - t) + t = n /\ Grid \in Nat \ {0}
    BY FinanceAssumption
  <2>2. a \in Nat \ {0} /\ b \in Nat \ {0} /\ c \in Nat \ {0} /\ d \in Nat \ {0} /\ q \in Nat \ {0}
    BY <2>1, PowerPositive
  <2>3. Power(g, n) = a * c /\ Power(h, n) = b * d
    <3>1. Power(g, n) = a * c
      BY PowerSplits
    <3>2. Power(h, n) = b * d
      BY PowerSplits
    <3> QED BY <3>1, <3>2
  <2>4. f \in Int /\ (f * c <= f * d)
    <3>1. CASE t = 0
      BY <3>1, PowerSteps
    <3>2. CASE t # 0
      <4>1. f \in Nat
        BY <3>2 DEF Pays
      <4>2. c <= d
        BY <2>1, PowerRises
      <4> HIDE DEF c, d, f
      <4>3. c * f <= d * f
        BY <2>2, <4>1, <4>2, TimesLarger
      <4>4. \A i, j \in Nat : i * j = j * i
        OBVIOUS
      <4>5. c * f = f * c /\ d * f = f * d
        BY <2>2, <4>1, <4>4
      <4> QED BY <4>1, <4>3, <4>5
    <3> QED BY <3>1, <3>2
  <2>5. x[t] = (b * d) * (f * a * q) /\ y[t] = (a * c) * (f * b * q)
    BY <2>3
  <2> HIDE DEF a, b, c, d, q, f, x, y
  <2>6. \A k, l \in Int : \A p \in Nat : k <= l => p * k <= p * l
    OBVIOUS
  <2>7. (a * b) * q \in Nat /\ f * c \in Int /\ f * d \in Int
    <3>1. \A i, j \in Nat : i * j \in Nat
      OBVIOUS
    <3>2. \A i, j \in Int : i * j \in Int
      OBVIOUS
    <3> QED BY <2>2, <2>4, <3>1, <3>2
  <2>8. ((a * b) * q) * (f * c) <= ((a * b) * q) * (f * d)
    BY <2>4, <2>6, <2>7
  <2>9. /\ (b * d) * (f * a * q) = ((a * b) * q) * (f * d)
        /\ (a * c) * (f * b * q) = ((a * b) * q) * (f * c)
    BY <2>2, <2>4
  <2>10. ((a * b) * q) * (f * c) \in Int /\ ((a * b) * q) * (f * d) \in Int
    <3>1. \A i, j \in Int : i * j \in Int
      OBVIOUS
    <3> QED BY <2>7, <3>1
  <2> QED BY <2>5, <2>8, <2>9, <2>10
<1>4. SumOver(N, y) <= SumOver(N, x)
  <2> HIDE DEF x, y
  <2> QED BY <1>1, <1>3, SumLarger
<1>5. SumOver(N, x) = Power(h, n) * SumOver(N, G)
  <2>1. \A t \in N : G[t] \in Int /\ x[t] = Power(h, n) * G[t]
    BY <1>1
  <2>2. Power(h, n) \in Int
    BY <1>2
  <2> HIDE DEF x, G
  <2> QED BY <1>1, <2>1, <2>2, SumTimes
<1>6. SumOver(N, y) = Power(g, n) * SumOver(N, H)
  <2>1. \A t \in N : H[t] \in Int /\ y[t] = Power(g, n) * H[t]
    BY <1>1
  <2>2. Power(g, n) \in Int
    BY <1>2
  <2> HIDE DEF y, H
  <2> QED BY <1>1, <2>1, <2>2, SumTimes
<1>7. Root(g, flows, n) = SumOver(N, G) /\ Root(h, flows, n) = SumOver(N, H)
  BY DEF Root
<1>8. Root(g, flows, n) \in Int /\ Root(h, flows, n) \in Int
  BY RootType
<1> HIDE DEF G, H, x, y
<1>9. Power(g, n) * Root(h, flows, n) <= Power(h, n) * Root(g, flows, n)
  BY <1>4, <1>5, <1>6, <1>7
<1>10. \A p, q, i, j \in Int : p * i <= q * j => i * p <= j * q
  OBVIOUS
<1> QED BY <1>2, <1>8, <1>9, <1>10

\* At a growth of whole numbers the root is the NPV.
LEMMA RootIsNpv ==
  ASSUME NEW n \in Nat, NEW r \in Nat \ {0}, Exact(r, n),
         NEW flows, DOMAIN flows = 0..n, \A t \in 0..n : flows[t] \in Int
  PROVE  \E k \in Nat \ {0} : Unit * Root(Grid * r, flows, n) = k * Npv(r, flows)
<1> DEFINE N == 0..n
           g == Grid * r
           V == PresentValues(r, flows)
           G == [t \in N |-> flows[t] * Power(g, n - t) * Power(Grid, t)]
           k == Power(Grid, n) * Power(r, n)
           x == [t \in N |-> Unit * G[t]]
<1>1. Grid \in Nat \ {0} /\ Unit \in Nat \ {0} /\ g \in Nat \ {0}
  <2>1. \A i, j \in Nat \ {0} : i * j \in Nat \ {0}
    OBVIOUS
  <2> QED BY <2>1, FinanceAssumption
<1>2. k \in Nat \ {0}
  <2>1. Power(Grid, n) \in Nat \ {0} /\ Power(r, n) \in Nat \ {0}
    BY <1>1, PowerPositive
  <2>2. \A i, j \in Nat \ {0} : i * j \in Nat \ {0}
    OBVIOUS
  <2> QED BY <2>1, <2>2
<1>3. IsFiniteSet(N) /\ \A t \in N : G[t] \in Int
  <2> HIDE DEF g
  <2> QED BY <1>1, RootType
<1>4. \A t \in N : V[t] \in Int /\ V[t] = flows[t] * Today(r, t)
  BY NpvType
<1>5. ASSUME NEW t \in N PROVE x[t] = k * V[t]
  <2> DEFINE a == Power(Grid, n - t)
             b == Power(r, n - t)
             q == Power(Grid, t)
             p == Power(r, t)
             f == flows[t]
             D == Today(r, t)
  <2>1. t \in Nat /\ n - t \in Nat /\ (n - t) + t = n
    OBVIOUS
  <2>2. a \in Int /\ b \in Int /\ q \in Int /\ p \in Int /\ f \in Int
    <3>1. a \in Int /\ q \in Int
      BY <1>1, <2>1, PowerPositive
    <3>2. b \in Int /\ p \in Int
      BY <2>1, PowerPositive
    <3> QED BY <3>1, <3>2
  <2>3. Power(g, n - t) = a * b
    BY <1>1, <2>1, PowerTimes
  <2>4. Power(Grid, n) = a * q /\ Power(r, n) = b * p
    <3>1. Power(Grid, n) = a * q
      BY <1>1, PowerSplits
    <3>2. Power(r, n) = b * p
      BY PowerSplits
    <3> QED BY <3>1, <3>2
  <2>5. D \in Nat /\ D * p = Unit
    BY <2>1, TodayType DEF Exact
  <2>6. x[t] = (D * p) * (f * (a * b) * q)
    BY <2>3, <2>5
  <2>7. k * V[t] = ((a * q) * (b * p)) * (f * D)
    BY <1>4, <2>4
  <2> HIDE DEF a, b, q, p, f, D, x, k, V
  <2>8. (D * p) * (f * (a * b) * q) = ((a * q) * (b * p)) * (f * D)
    <3>1. \A i1, i2, i3, i4, i5, i6 \in Int :
             (i6 * i4) * (i5 * (i1 * i2) * i3) = ((i1 * i3) * (i2 * i4)) * (i5 * i6)
      OBVIOUS
    <3> QED BY <2>2, <2>5, <3>1
  <2> QED BY <2>6, <2>7, <2>8
<1>6. SumOver(N, x) = Unit * SumOver(N, G)
  <2>1. \A t \in N : G[t] \in Int /\ x[t] = Unit * G[t]
    BY <1>3
  <2> HIDE DEF x, G
  <2> QED BY <1>1, <1>3, <2>1, SumTimes
<1>7. SumOver(N, x) = k * SumOver(N, V)
  <2>1. \A t \in N : V[t] \in Int /\ x[t] = k * V[t]
    BY <1>4, <1>5
  <2>2. k \in Int
    BY <1>2
  <2> HIDE DEF x, V, k
  <2> QED BY <1>3, <2>1, <2>2, SumTimes
<1>8. Root(g, flows, n) = SumOver(N, G) /\ Npv(r, flows) = SumOver(N, V)
  BY DEF Root, Npv
<1>9. Unit * Root(g, flows, n) = k * Npv(r, flows)
  BY <1>6, <1>7, <1>8
<1> HIDE DEF k
<1> QED BY <1>2, <1>9

\* After a single outlay the two ends of a bracket around the root of irr tell
\* on which side of a rate the NPV is.
THEOREM BracketAgrees ==
  ASSUME NEW n \in Nat, NEW r \in Nat \ {0}, Exact(r, n),
         NEW flows, DOMAIN flows = 0..n, \A t \in 0..n : flows[t] \in Int, Pays(flows, n),
         NEW low \in Nat \ {0}, NEW high \in Nat \ {0}, low <= high,
         ~SameSide(low, high, flows)
  PROVE  /\ Grid * r <= low => Npv(r, flows) >= 0
         /\ Grid * r >= high => Npv(r, flows) <= 0
<1> DEFINE g == Grid * r
           R(x) == Root(x, flows, n)
<1>1. g \in Nat \ {0} /\ Unit \in Nat \ {0}
  <2>1. \A i, j \in Nat \ {0} : i * j \in Nat \ {0}
    OBVIOUS
  <2> QED BY <2>1, FinanceAssumption
<1> HIDE DEF g
<1>2. \A x \in Nat \ {0} : R(x) \in Int /\ NpvSign(x, flows) = Sign(R(x))
  BY RootType
<1>3. ASSUME NEW x \in Nat \ {0}, NEW y \in Nat \ {0}, x <= y
      PROVE  (R(y) > 0 => R(x) > 0) /\ (R(x) < 0 => R(y) < 0)
  <2> DEFINE a == Power(x, n)
             b == Power(y, n)
             p == R(x)
             q == R(y)
  <2>1. q * a <= p * b
    BY <1>3, RootFalls
  <2>2. a \in Nat \ {0} /\ b \in Nat \ {0} /\ p \in Int /\ q \in Int
    BY <1>2, PowerPositive
  <2> HIDE DEF a, b, p, q
  <2>3. q > 0 => q * a > 0
    BY <2>2
  <2>4. p <= 0 => p * b <= 0
    BY <2>2
  <2>5. p < 0 => p * b < 0
    BY <2>2
  <2>6. q >= 0 => q * a >= 0
    BY <2>2
  <2>7. q * a \in Int /\ p * b \in Int
    BY <2>2
  <2>8. (q > 0 => p > 0) /\ (p < 0 => q < 0)
    BY <2>1, <2>2, <2>3, <2>4, <2>5, <2>6, <2>7
  <2> QED BY <2>8 DEF p, q
<1>4. R(low) >= 0 /\ R(high) <= 0
  <2>1. /\ R(high) > 0 => R(low) > 0
        /\ R(low) < 0 => R(high) < 0
    BY <1>3
  <2>2. R(low) \in Int /\ R(high) \in Int
    BY <1>2
  <2>3. ~(Sign(R(low)) # 0 /\ Sign(R(low)) = Sign(R(high)))
    BY <1>2 DEF SameSide
  <2> HIDE DEF R
  <2> QED BY <2>1, <2>2, <2>3 DEF Sign
<1>5. PICK k \in Nat \ {0} : Unit * R(g) = k * Npv(r, flows)
  BY RootIsNpv DEF g
<1>6. Npv(r, flows) \in Int /\ R(g) \in Int
  BY <1>1, <1>2, NpvType
<1>7. g <= low => R(g) >= 0
  <2> SUFFICES ASSUME g <= low PROVE R(g) >= 0
    OBVIOUS
  <2>1. R(g) < 0 => R(low) < 0
    BY <1>1, <1>3
  <2>2. R(low) \in Int
    BY <1>2
  <2> HIDE DEF R
  <2> QED BY <1>4, <1>6, <2>1, <2>2
<1>8. g >= high => R(g) <= 0
  <2> SUFFICES ASSUME g >= high PROVE R(g) <= 0
    OBVIOUS
  <2>1. R(g) > 0 => R(high) > 0
    BY <1>1, <1>3
  <2>2. R(high) \in Int
    BY <1>2
  <2> HIDE DEF R
  <2> QED BY <1>4, <1>6, <2>1, <2>2
<1> HIDE DEF R
<1>9. (R(g) >= 0 => Npv(r, flows) >= 0) /\ (R(g) <= 0 => Npv(r, flows) <= 0)
  <2>1. \A u, p \in Nat \ {0} : \A x, v \in Int :
           u * x = p * v => (x >= 0 => v >= 0) /\ (x <= 0 => v <= 0)
    <3> TAKE u, p \in Nat \ {0}
    <3> TAKE x, v \in Int
    <3> HAVE u * x = p * v
    <3>1. (x >= 0 => u * x >= 0) /\ (x <= 0 => u * x <= 0)
      OBVIOUS
    <3>2. (v < 0 => p * v < 0) /\ (v > 0 => p * v > 0)
      OBVIOUS
    <3>3. u * x \in Int
      OBVIOUS
    <3> QED BY <3>1, <3>2, <3>3
  <2> QED BY <1>1, <1>5, <1>6, <2>1
<1> QED BY <1>7, <1>8, <1>9 DEF g

----------------------------------------------------------------------------
\* A flat rate that every kWh is worth

\* The months divide the hours of a year.
LEMMA MonthsPartition ==
  ASSUME NEW f \in [Hour -> Int]
  PROVE  SumOver(Month, [m \in Month |-> SumOver(HoursOf(m), f)]) = SumOver(Hour, f)
<1> DEFINE g == [m \in Month |-> SumOver(HoursOf(m), f)]
           Until(k) == {h \in Hour : Calendar[h].month <= k}
           Agree(k) == k <= Months => SumOver(1..k, g) = SumOver(Until(k), f)
           T == {k \in Nat : Agree(k)}
<1>1. \A h \in Hour : Calendar[h].month \in 1..Months
  BY CalendarAssumption DEF Month
<1>2. \A k \in Nat : IsFiniteSet(Until(k)) /\ Until(k) \subseteq Hour
  <2>1. \A k \in Nat : Until(k) \in SUBSET Hour
    OBVIOUS
  <2> HIDE DEF Until
  <2> QED BY <2>1, MonthsAreFinite, FS_Subset
<1>3. \A m \in Month : g[m] \in Int /\ g[m] = SumOver(HoursOf(m), f)
  <2>1. ASSUME NEW m \in Month PROVE SumOver(HoursOf(m), f) \in Int
    <3>1. \A h \in HoursOf(m) : f[h] \in Int
      BY HoursAreFinite
    <3> QED BY <3>1, HoursAreFinite, SumType
  <2> QED BY <2>1
<1> HIDE DEF g
<1>4. 0 \in T
  <2>1. 1..0 = {} /\ Until(0) = {}
    <3>1. 1..0 = {}
      OBVIOUS
    <3>2. Until(0) = {}
      BY <1>1
    <3> QED BY <3>1, <3>2
  <2> HIDE DEF Until
  <2> QED BY <2>1, SumEmpty
<1>5. ASSUME NEW k \in T PROVE k + 1 \in T
  <2> SUFFICES ASSUME k + 1 <= Months PROVE SumOver(1..(k + 1), g) = SumOver(Until(k + 1), f)
    <3>1. k + 1 \in Nat /\ Agree(k + 1)
      OBVIOUS
    <3> HIDE DEF Agree
    <3> QED BY <3>1
  <2>1. k \in Nat /\ k + 1 \in Nat /\ SumOver(1..k, g) = SumOver(Until(k), f)
    BY MonthsAreFinite
  <2>2. k + 1 \in Month /\ \A m \in 1..(k + 1) : m \in Month
    BY MonthsAreFinite, <2>1
  <2>3. SumOver(1..(k + 1), g) = SumOver(1..k, g) + g[k + 1]
    <3>1. \A m \in 1..(k + 1) : g[m] \in Int
      BY <1>3, <2>2
    <3> QED BY <2>1, <3>1, SumNext
  <2>4. Until(k + 1) = Until(k) \cup HoursOf(k + 1) /\ Until(k) \cap HoursOf(k + 1) = {}
    <3>1. \A h \in Hour : Calendar[h].month <= k + 1
                            <=> Calendar[h].month <= k \/ Calendar[h].month = k + 1
      BY <1>1, <2>1
    <3>2. \A h \in Hour : ~(Calendar[h].month <= k /\ Calendar[h].month = k + 1)
      BY <1>1, <2>1
    <3> QED BY <3>1, <3>2 DEF HoursOf
  <2>5. SumOver(Until(k) \cup HoursOf(k + 1), f) = SumOver(Until(k), f) + SumOver(HoursOf(k + 1), f)
    <3>1. \A h \in Until(k) \cup HoursOf(k + 1) : f[h] \in Int
      BY <1>2, <2>1, HoursAreFinite
    <3>2. IsFiniteSet(Until(k)) /\ IsFiniteSet(HoursOf(k + 1))
      BY <1>2, <2>1, HoursAreFinite
    <3> HIDE DEF Until
    <3> QED BY <2>4, <3>1, <3>2, SumUnion
  <2>6. g[k + 1] = SumOver(HoursOf(k + 1), f)
    BY <1>3, <2>2
  <2> HIDE DEF Until
  <2> QED BY <2>1, <2>3, <2>4, <2>5, <2>6
<1>6. T \in SUBSET Nat
  OBVIOUS
<1>7. Until(Months) = Hour
  BY <1>1, MonthsAreFinite
<1> HIDE DEF T, Until
<1>8. T = Nat
  BY <1>4, <1>5, <1>6, CountingUp
<1>9. SumOver(1..Months, g) = SumOver(Until(Months), f)
  BY <1>8, MonthsAreFinite DEF T
<1> QED BY <1>7, <1>9, MonthsAreFinite DEF g

\* A load that is never export costs its kWh at the flat rate.
LEMMA FlatCharge ==
  ASSUME NEW s \in Schedule, s.structure = "flat", NEW net \in [Hour -> Nat]
  PROVE  /\ ~Uncovered(s, ImportOf(net)) /\ SumOver(Hour, net) \in Nat
         /\ YearCharge(s, net) = s.rate * SumOver(Hour, net)
         /\ SumOver(Month, [m \in Month |-> AnnualBill(s, net)[m].kwh]) = SumOver(Hour, net)
<1> DEFINE k == s.rate
           charges == [m \in Month |-> EnergyCharge(s, net, m)]
           kwh == [m \in Month |-> SumOver(HoursOf(m), net)]
<1>1. k \in Nat
  BY DEF Schedule
<1>2. ImportOf(net) = net
  <2>1. \A h \in Hour : net[h] \in Nat /\ ImportOf(net)[h] = net[h]
    <3>1. \A h \in Hour : net[h] \in Nat
      OBVIOUS
    <3> QED BY <3>1 DEF ImportOf, Positive
  <2> QED BY <2>1 DEF ImportOf
<1>3. SumOver(Hour, net) \in Nat
  <2>1. \A h \in Hour : net[h] \in Nat
    OBVIOUS
  <2> QED BY <2>1, MonthsAreFinite, SumNat
<1>4. \A m \in Month : kwh[m] \in Int /\ AnnualBill(s, net)[m].kwh = kwh[m]
  <2>1. \A m \in Month : AnnualBill(s, net)[m].kwh = MonthKwh(net, m)
    BY <1>2 DEF AnnualBill
  <2>2. \A m \in Month : MonthKwh(net, m) = kwh[m]
    BY DEF MonthKwh
  <2>3. \A m \in Month : MonthKwh(net, m) \in Nat
    BY KwhType
  <2> HIDE DEF kwh
  <2> QED BY <2>1, <2>2, <2>3
<1>5. ASSUME NEW m \in Month PROVE charges[m] = k * kwh[m]
  <2> DEFINE rates == [h \in Hour |-> IF net[h] > 0 THEN net[h] * RateAt(s, h) ELSE 0]
  <2>1. EnergyCharge(s, net, m) = SumOver(HoursOf(m), rates)
    BY <1>2 DEF EnergyCharge, AtRates
  <2>2. \A h \in Hour : net[h] \in Int /\ rates[h] = k * net[h]
    <3>1. \A h \in Hour : RateAt(s, h) = k /\ net[h] \in Nat
      BY DEF RateAt
    <3>2. \A a, b \in Nat : (IF a > 0 THEN a * b ELSE 0) = b * a
      OBVIOUS
    <3> QED BY <1>1, <3>1, <3>2
  <2> HIDE DEF rates
  <2>3. \A h \in HoursOf(m) : net[h] \in Int /\ rates[h] = k * net[h]
    BY <2>2, HoursAreFinite
  <2>4. SumOver(HoursOf(m), rates) = k * SumOver(HoursOf(m), net)
    <3>1. k \in Int
      BY <1>1
    <3> HIDE DEF k
    <3> QED BY <2>3, <3>1, HoursAreFinite, SumTimes
  <2> QED BY <2>1, <2>4
<1>6. YearCharge(s, net) = SumOver(Month, charges)
  BY DEF YearCharge
<1>7. SumOver(Month, kwh) = SumOver(Hour, net)
  <2>1. net \in [Hour -> Int]
    OBVIOUS
  <2> QED BY <2>1, MonthsPartition
<1>8. SumOver(Month, [m \in Month |-> AnnualBill(s, net)[m].kwh]) = SumOver(Month, kwh)
  <2>1. [m \in Month |-> AnnualBill(s, net)[m].kwh] = kwh
    BY <1>4
  <2> HIDE DEF kwh
  <2> QED BY <2>1
<1> HIDE DEF charges, kwh, k
<1>9. SumOver(Month, charges) = k * SumOver(Month, kwh)
  BY <1>1, <1>4, <1>5, MonthsAreFinite, SumTimes
<1>10. ~Uncovered(s, ImportOf(net))
  BY DEF Uncovered
<1> QED BY <1>3, <1>6, <1>7, <1>8, <1>9, <1>10 DEF k

\* Without export no regime pays anything.
LEMMA NoExportNoCredit ==
  ASSUME NEW s \in Schedule, s.structure = "flat", NEW net \in [Hour -> Nat],
         NEW export, export = None \/ Creditable(export, s, net)
  PROVE  SumOver(Month, Credited(export, s, net)) = 0
<1>0. net \in [Hour -> Int] /\ \A h \in Hour : net[h] \in Nat
  OBVIOUS
<1>1. \A h \in Hour : ExportOf(net)[h] = 0
  <2>1. \A h \in Hour : ExportOf(net)[h] = Positive(-net[h])
    BY <1>0, FlowTypes
  <2> QED BY <1>0, <2>1 DEF Positive
<1>2. ASSUME NEW m, NEW f, \A h \in Hour : f[h] = 0 PROVE SumOver(HoursOf(m), f) = 0
  <2>1. \A h \in HoursOf(m) : f[h] \in Int /\ f[h] = 0 * f[h]
    BY <1>2, HoursAreFinite
  <2>2. 0 \in Int
    OBVIOUS
  <2>3. SumOver(HoursOf(m), f) = 0 * SumOver(HoursOf(m), f)
    BY <2>1, <2>2, HoursAreFinite, SumTimes
  <2>4. SumOver(HoursOf(m), f) \in Int
    BY <2>1, HoursAreFinite, SumType
  <2> QED BY <2>3, <2>4
<1>3. ASSUME export # None PROVE \A m \in Month : ExportCredit(export, s, net)[m] = 0
  <2>0. Creditable(export, s, net) /\ export \in ExportConfig
    BY <1>3 DEF Creditable
  <2>1. ASSUME NEW rates, \A h \in Hour : rates[h] \in Int, NEW m \in Month
        PROVE  VectorCredit(rates, net, m) = 0
    <3>1. VectorCredit(rates, net, m) = SumOver(HoursOf(m), Paid(rates, net))
      BY <1>0, <2>1, VectorType
    <3>2. \A h \in Hour : Paid(rates, net)[h] = 0
      BY <1>1, <2>1 DEF Paid
    <3> QED BY <1>2, <3>1, <3>2
  <2>2. CASE export.regime = "nem_one_for_one"
    <3>1. ASSUME NEW m \in Month PROVE NemCredit(s, net, m) = 0
      <4> DEFINE f == [h \in Hour |-> IF ExportOf(net)[h] > 0
                                      THEN ExportOf(net)[h] * RateAt(s, h) ELSE 0]
      <4>1. NemCredit(s, net, m) = SumOver(HoursOf(m), f)
        BY DEF NemCredit, AtRates
      <4>2. \A h \in Hour : f[h] = 0
        BY <1>1
      <4> HIDE DEF f
      <4> QED BY <1>2, <4>1, <4>2
    <3>2. ExportCredit(export, s, net) = [m \in Month |-> NemCredit(s, net, m)]
      BY <2>2 DEF ExportCredit
    <3> QED BY <3>1, <3>2
  <2>3. CASE export.regime = "seg_flat"
    <3> DEFINE rates == [h \in Hour |-> export.rate]
    <3>1. \A h \in Hour : rates[h] \in Int
      BY <2>0, <2>3 DEF ExportConfig
    <3>2. ExportCredit(export, s, net) = [m \in Month |-> VectorCredit(rates, net, m)]
      BY <2>3 DEF ExportCredit
    <3> HIDE DEF rates
    <3> QED BY <2>1, <3>1, <3>2
  <2>4. CASE export.regime \in {"nem_three_nbt", "seg_tou"}
    <3>1. \A h \in Hour : export.rates[h] \in Int
      <4>1. export.rates \in Seq(Int) /\ Len(export.rates) = Hours
        BY <2>0, <2>4 DEF ExportConfig
      <4>2. DOMAIN export.rates = Hour
        BY <4>1 DEF Hour
      <4> QED BY <4>1, <4>2, Element
    <3>2. ExportCredit(export, s, net) = [m \in Month |-> VectorCredit(export.rates, net, m)]
      BY <2>4 DEF ExportCredit
    <3> QED BY <2>1, <3>1, <3>2
  <2>5. export.regime \in {"nem_one_for_one", "nem_three_nbt", "seg_flat", "seg_tou"}
    BY <2>0 DEF ExportConfig
  <2> QED BY <2>2, <2>3, <2>4, <2>5
<1>4. \A m \in Month : Credited(export, s, net)[m] = 0
  <2>1. CASE export = None
    BY <2>1 DEF Credited
  <2>2. CASE export # None /\ export.regime # "nem_three_nbt"
    BY <1>3, <2>2 DEF Credited
  <2>3. CASE export # None /\ export.regime = "nem_three_nbt"
    <3> DEFINE bill == AnnualBill(s, net)
               raw == ExportCredit(export, s, net)
               settled == Settled(bill, raw)
               T == {m \in Month : settled[m].carry # 0}
    <3>1. raw \in [Month -> Int] /\ \A m \in Month : raw[m] = 0
      BY <1>0, <1>3, <2>3, CreditType
    <3>2. \A m \in Month : bill[m].energy \in Nat
      BY <1>0, FlatCharge, BillTotals
    <3>3. Credited(export, s, net) = [m \in Month |-> settled[m].applied]
      BY <2>3 DEF Credited
    <3> HIDE DEF bill, raw
    <3>4. /\ settled \in [Month -> SettledMonth]
          /\ \A m \in Month : settled[m].applied + settled[m].carry
                                = (IF m = 1 THEN 0 ELSE settled[m - 1].carry) + raw[m]
      BY <3>1, <3>2, SettledType
    <3>5. settled = [m \in Month |-> MonthSettled(IF m = 1 THEN 0 ELSE settled[m - 1].carry,
                                                  raw[m], bill[m].energy)]
      BY <3>1, <3>2, SettledInTurn
    <3> HIDE DEF settled
    <3>6. ASSUME NEW e \in Nat
          PROVE  MonthSettled(0, 0, e).carry = 0 /\ MonthSettled(0, 0, e).applied = 0
      <4>1. 0 + 0 = 0 /\ 0 >= 0 /\ 0 - 0 = 0 /\ Least(0, e) = 0
        BY DEF Least
      <4>2. MonthSettled(0, 0, e) = [applied |-> 0, net |-> e - 0, carry |-> 0]
        BY <4>1, Zenon DEF MonthSettled
      <4> QED BY <4>2
    <3>7. ASSUME NEW m \in Month, m # 1 => settled[m - 1].carry = 0
          PROVE  settled[m].carry = 0 /\ settled[m].applied = 0
      <4>1. settled[m] = MonthSettled(0, 0, bill[m].energy)
        BY <3>1, <3>5, <3>7
      <4> QED BY <3>2, <3>6, <4>1
    <3>8. T = {}
      <4> SUFFICES ASSUME T # {} PROVE FALSE
        OBVIOUS
      <4>1. T \in SUBSET Nat
        BY MonthsAreFinite
      <4>2. \E m \in T : \A k \in T : m <= k
        <5> HIDE DEF T
        <5> QED BY <4>1, LeastNatural
      <4>3. PICK m \in T : \A k \in T : m <= k
        BY <4>2
      <4>4. m # 1 => m - 1 \in Month /\ ~(m <= m - 1)
        BY MonthsAreFinite
      <4>5. m # 1 => m - 1 \notin T
        BY <4>3, <4>4
      <4> QED BY <3>7, <4>4, <4>5
    <3>9. \A m \in Month : settled[m].applied = 0
      <4>1. \A m \in Month : m # 1 => m - 1 \in Month
        BY MonthsAreFinite
      <4> QED BY <3>7, <3>8, <4>1
    <3> QED BY <3>3, <3>9
  <2> QED BY <2>1, <2>2, <2>3
<1> DEFINE f == Credited(export, s, net)
<1>5. \A m \in Month : f[m] \in Int /\ f[m] = 0 * f[m]
  BY <1>4
<1> HIDE DEF f
<1>6. SumOver(Month, f) = 0 * SumOver(Month, f) /\ SumOver(Month, f) \in Int
  <2>1. 0 \in Int
    OBVIOUS
  <2>2. SumOver(Month, f) = 0 * SumOver(Month, f)
    BY <1>5, <2>1, MonthsAreFinite, SumTimes
  <2>3. SumOver(Month, f) \in Int
    BY <1>5, MonthsAreFinite, SumType
  <2> QED BY <2>2, <2>3
<1> QED BY <1>6 DEF f

\* At a flat rate a year that exports nothing saves its energy at that rate.
THEOREM SelfConsumption ==
  ASSUME NEW load \in [Hour -> Int], NEW production \in [Hour -> Nat],
         NEW s, s.structure = "flat", NEW export,
         Billable(load, s, export, NetOf(load, production)),
         \A h \in Hour : NetOf(load, production)[h] >= 0
  PROVE  LET terms == YearTerms(load, production, s, export)
             bill  == AnnualBill(s, load)
             kwh   == SumOver(Month, [m \in Month |-> bill[m].kwh])
         IN /\ terms.avoidance + terms.credit = s.rate * terms.energy
            /\ terms.energy \in Nat /\ kwh \in Nat /\ terms.energy <= kwh
            /\ SumOver(Month, [m \in Month |-> bill[m].energy]) = s.rate * kwh
<1> DEFINE net == NetOf(load, production)
           terms == YearTerms(load, production, s, export)
           L == SumOver(Hour, load)
           N == SumOver(Hour, net)
           P == SumOver(Hour, production)
           k == s.rate
<1>1. s \in Schedule /\ k \in Nat
  BY DEF Billable, Schedule
<1>2. net \in [Hour -> Nat] /\ load \in [Hour -> Nat] /\ \A h \in Hour : load[h] = production[h] + net[h]
  <2>1. \A h \in Hour : /\ load[h] \in Int /\ production[h] \in Nat
                        /\ net[h] = load[h] - production[h] /\ net[h] >= 0
    BY DEF NetOf
  <2>2. \A h \in Hour : net[h] \in Nat /\ load[h] \in Nat /\ load[h] = production[h] + net[h]
    BY <2>1
  <2> QED BY <2>2 DEF NetOf
<1>3. /\ YearCharge(s, load) = k * L /\ L \in Nat
      /\ SumOver(Month, [m \in Month |-> AnnualBill(s, load)[m].kwh]) = L
      /\ ~Uncovered(s, ImportOf(load))
  BY <1>1, <1>2, FlatCharge
<1>4. YearCharge(s, net) = k * N /\ N \in Nat
  <2> HIDE DEF net
  <2> QED BY <1>1, <1>2, FlatCharge
<1>5. L = P + N
  <2>1. \A h \in Hour : production[h] \in Int /\ net[h] \in Int /\ load[h] = production[h] + net[h]
    BY <1>2
  <2> HIDE DEF net
  <2> QED BY <2>1, MonthsAreFinite, SumPlus
<1>6. /\ terms.avoidance = YearCharge(s, load) - YearCharge(s, net)
      /\ terms.credit = SumOver(Month, Credited(export, s, net))
      /\ terms.energy = P /\ P \in Nat
  BY YearLemma
<1>7. SumOver(Month, Credited(export, s, net)) = 0
  <2>1. export = None \/ Creditable(export, s, net)
    BY DEF Billable
  <2> HIDE DEF net
  <2> QED BY <1>1, <1>2, <2>1, NoExportNoCredit
<1>8. SumOver(Month, [m \in Month |-> AnnualBill(s, load)[m].energy]) = k * L
  <2>1. load \in [Hour -> Int]
    OBVIOUS
  <2>2. SumOver(Month, [m \in Month |-> AnnualBill(s, load)[m].energy]) = YearCharge(s, load)
    BY <1>1, <1>3, <2>1, BillTotals
  <2> QED BY <1>3, <2>2
<1> HIDE DEF L, N, P, k, net, terms
<1>9. \A x, p, m \in Int : x * (p + m) - x * m + 0 = x * p
  OBVIOUS
<1>10. terms.avoidance + terms.credit = k * terms.energy
  BY <1>1, <1>3, <1>4, <1>5, <1>6, <1>7, <1>9
<1>11. terms.energy \in Nat /\ L \in Nat /\ terms.energy <= L
  BY <1>3, <1>4, <1>5, <1>6
<1> QED BY <1>3, <1>8, <1>10, <1>11 DEF k, L, terms

\* an outlay, then years of energy at one rate
SelfUse(flows, n, cost, opex, rate, energy) ==
  /\ DOMAIN energy = 1..n /\ \A t \in 1..n : energy[t] \in Nat
  /\ DOMAIN flows = 0..n /\ flows[0] = -cost
  /\ \A t \in 1..n : flows[t] = rate * energy[t] - opex

\* Where every kWh of every year replaces one bought at a flat rate the NPV is
\* the discounted energy at that rate less what the LCOE divides by it.
LEMMA NpvOfLcoe ==
  ASSUME NEW n \in Nat \ {0}, NEW r \in Nat \ {0},
         NEW cost \in Nat, NEW opex \in Nat, NEW rate \in Nat,
         NEW energy, NEW flows, SelfUse(flows, n, cost, opex, rate, energy)
  PROVE  LET lcoe == Lcoe(r, cost, opex, energy)
         IN /\ lcoe.energy \in Int /\ lcoe.cost \in Int
            /\ Npv(r, flows) = rate * lcoe.energy - lcoe.cost
<1> DEFINE N == 1..n
           running == [t \in N |-> opex]
           V == PresentValues(r, flows)
           E == PresentValues(r, energy)
           O == PresentValues(r, running)
           K == Discounted(r, cost, 0)
           all == 0..n
           SE == SumOver(N, E)
           SO == SumOver(N, O)
           SV == SumOver(N, V)
           lcoe == Lcoe(r, cost, opex, energy)
<1>0. /\ DOMAIN energy = N /\ \A t \in N : energy[t] \in Nat
      /\ DOMAIN flows = all /\ flows[0] = -cost
      /\ \A t \in N : flows[t] = rate * energy[t] - opex
  BY DEF SelfUse
<1>1. \A t \in N : t \in Nat /\ t \in all
  OBVIOUS
<1>2. \A t \in N : Today(r, t) \in Nat
  <2> TAKE t \in N
  <2>1. t \in Nat
    BY <1>1
  <2> QED BY <2>1, TodayType
<1>3. IsFiniteSet(N) /\ IsFiniteSet(all) /\ 0 \in all /\ all \ {0} = N
  <2>1. IsFiniteSet(N)
    <3>1. 1 \in Int /\ n \in Int
      OBVIOUS
    <3> QED BY <3>1, FS_Interval
  <2>2. IsFiniteSet(all)
    BY FS_Interval
  <2> QED BY <2>1, <2>2
<1>4. \A t \in N : E[t] = energy[t] * Today(r, t) /\ O[t] = opex * Today(r, t)
  BY <1>0 DEF PresentValues, Discounted, Today
<1>5. \A t \in all : V[t] = flows[t] * Today(r, t)
  BY <1>0 DEF PresentValues, Discounted, Today
<1>6. ASSUME NEW t \in N
      PROVE  E[t] \in Int /\ O[t] \in Int /\ V[t] \in Int /\ V[t] = rate * E[t] - O[t]
  <2> DEFINE D == Today(r, t)
             e == energy[t]
  <2>1. D \in Int /\ e \in Int /\ opex \in Int /\ rate \in Int
    BY <1>0, <1>2
  <2>2. E[t] = e * D /\ O[t] = opex * D /\ V[t] = (rate * e - opex) * D
    BY <1>0, <1>1, <1>4, <1>5
  <2> HIDE DEF D, e, E, O, V
  <2>3. \A d, x, k, o \in Int : /\ x * d \in Int /\ o * d \in Int /\ (k * x - o) * d \in Int
                                /\ (k * x - o) * d = k * (x * d) - o * d
    OBVIOUS
  <2> QED BY <2>1, <2>2, <2>3
<1>7. K \in Int /\ V[0] = -K
  <2>1. Today(r, 0) \in Int
    BY TodayType
  <2>2. K = cost * Today(r, 0)
    BY DEF Discounted, Today
  <2>3. V[0] = (-cost) * Today(r, 0)
    BY <1>0, <1>3, <1>5
  <2>4. \A x, d \in Int : x * d \in Int /\ (-x) * d = -(x * d)
    OBVIOUS
  <2>5. cost \in Int
    OBVIOUS
  <2> HIDE DEF K, V
  <2> QED BY <2>1, <2>2, <2>3, <2>4, <2>5
<1>8. Npv(r, flows) = SumOver(all, V)
  BY <1>0 DEF Npv
<1>9. lcoe.cost = K + SO /\ lcoe.energy = SE
  <2>1. DOMAIN energy = N /\ DOMAIN running = N
    BY <1>0
  <2>2. Npv(r, energy) = SE /\ Npv(r, running) = SO
    BY <2>1 DEF Npv
  <2>3. lcoe.cost = K + Npv(r, running) /\ lcoe.energy = Npv(r, energy)
    BY <2>1 DEF Lcoe
  <2> QED BY <2>2, <2>3
<1> HIDE DEF running, K, V, E, O, lcoe
<1>10. SumOver(all, V) = V[0] + SV
  <2>1. \A t \in all : t = 0 \/ t \in N
    BY <1>3
  <2>2. \A t \in all : V[t] \in Int
    BY <1>6, <1>7, <2>1
  <2> HIDE DEF all, N
  <2>3. SumOver(all, V) = V[0] + SumOver(all \ {0}, V)
    BY <1>3, <2>2, SumTakeOut
  <2> QED BY <1>3, <2>3
<1>11. SV = rate * SE - SO /\ SE \in Int /\ SO \in Int
  <2> DEFINE priced == [t \in N |-> rate * E[t]]
  <2>1. \A t \in N : /\ priced[t] \in Int /\ O[t] \in Int /\ V[t] \in Int /\ E[t] \in Int
                     /\ priced[t] = rate * E[t] /\ priced[t] = V[t] + O[t]
    <3>1. \A t \in N : priced[t] = rate * E[t]
      OBVIOUS
    <3> HIDE DEF priced
    <3>3. rate \in Int
      OBVIOUS
    <3> HIDE DEF N
    <3>4. ASSUME NEW t \in N
          PROVE  /\ priced[t] \in Int /\ O[t] \in Int /\ V[t] \in Int /\ E[t] \in Int
                 /\ priced[t] = rate * E[t] /\ priced[t] = V[t] + O[t]
      <4>1. E[t] \in Int /\ O[t] \in Int /\ V[t] \in Int /\ V[t] = rate * E[t] - O[t]
        BY <1>6
      <4>2. rate * E[t] \in Int /\ rate * E[t] = V[t] + O[t]
        <5> DEFINE e == E[t]
                   o == O[t]
                   v == V[t]
        <5>1. e \in Int /\ o \in Int /\ v \in Int /\ v = rate * e - o
          BY <4>1
        <5> HIDE DEF e, o, v
        <5>2. rate * e \in Int /\ rate * e = v + o
          BY <3>3, <5>1
        <5> QED BY <5>2 DEF e, o, v
      <4> QED BY <3>1, <4>1, <4>2
    <3> QED BY <3>4
  <2> HIDE DEF priced, all
  <2>0. IsFiniteSet(N)
    BY <1>3
  <2> HIDE DEF N
  <2>2. SumOver(N, priced) = SV + SO
    <3>1. \A t \in N : V[t] \in Int /\ O[t] \in Int /\ priced[t] = V[t] + O[t]
      BY <2>1
    <3> QED BY <2>0, <3>1, SumPlus
  <2>3. SumOver(N, priced) = rate * SE
    <3>1. rate \in Int
      OBVIOUS
    <3>2. \A t \in N : E[t] \in Int /\ priced[t] = rate * E[t]
      BY <2>1
    <3> QED BY <2>0, <3>1, <3>2, SumTimes
  <2>4. SE \in Int
    BY <2>0, <2>1, SumType
  <2>5. SO \in Int
    BY <2>0, <2>1, SumType
  <2>6. SV \in Int
    BY <2>0, <2>1, SumType
  <2> QED BY <2>2, <2>3, <2>4, <2>5, <2>6
<1> HIDE DEF SE, SO, SV
<1>12. Npv(r, flows) = rate * SE - (K + SO)
  <2>1. rate * SE \in Int
    BY <1>11
  <2>2. \A x, k, o \in Int : -k + (x - o) = x - (k + o)
    OBVIOUS
  <2> QED BY <1>7, <1>8, <1>10, <1>11, <2>1, <2>2
<1> QED BY <1>7, <1>9, <1>11, <1>12 DEF lcoe

\* what a year's bill adds up to
BillKwh(bill) == SumOver(Month, [m \in Month |-> bill[m].kwh])
BillEnergy(bill) == SumOver(Month, [m \in Month |-> bill[m].energy])

\* The project pays exactly if the rate of year one reaches the LCOE: then the
\* crossover is in the first year.
THEOREM CrossoverAgrees ==
  ASSUME NEW n \in Nat \ {0}, NEW r \in Nat \ {0}, None \notin Int,
         NEW cost \in Nat, NEW opex \in Nat, NEW rate \in Nat, NEW escalation \in Nat \ {0},
         NEW energy, NEW flows, SelfUse(flows, n, cost, opex, rate, energy),
         NEW bill, BillKwh(bill) \in Nat \ {0}, BillEnergy(bill) = rate * BillKwh(bill)
  PROVE  Npv(r, flows) >= 0
           <=> Crossover(Lcoe(r, cost, opex, energy), bill, escalation, n) = 1
<1> DEFINE N == 1..n
           lcoe == Lcoe(r, cost, opex, energy)
           E == lcoe.energy
           C == lcoe.cost
           x == rate * E
           kwh == BillKwh(bill)
<1>0. kwh \in Nat \ {0} /\ BillEnergy(bill) = rate * kwh
  OBVIOUS
<1> HIDE DEF kwh
<1>1. E \in Int /\ C \in Int /\ Npv(r, flows) = rate * E - C
  BY NpvOfLcoe
<1> HIDE DEF lcoe, E, C
<1>2. x \in Int /\ (Npv(r, flows) >= 0 <=> x >= C)
  <2>1. \A i, j \in Int : i * j \in Int
    OBVIOUS
  <2>2. rate \in Int
    OBVIOUS
  <2>3. x \in Int
    BY <1>1, <2>1, <2>2
  <2>4. Npv(r, flows) = x - C
    BY <1>1
  <2> HIDE DEF x
  <2> QED BY <1>1, <2>3, <2>4
<1> DEFINE dearer == {y \in N : (rate * kwh) * Power(escalation, y - 1) * lcoe.energy
                                  >= lcoe.cost * kwh}
<1>3. Crossover(lcoe, bill, escalation, n)
         = IF kwh = 0 \/ dearer = {} THEN None ELSE Min(dearer)
  BY <1>0, Zenon DEF Crossover, BillKwh, BillEnergy, kwh
<1>4. Crossover(lcoe, bill, escalation, n) = 1 <=> 1 \in dearer
  <2>1. dearer \subseteq N
    OBVIOUS
  <2>2. \A y \in N : y \in Nat /\ 1 <= y
    OBVIOUS
  <2> HIDE DEF dearer, N
  <2>3. ASSUME dearer # {} PROVE Min(dearer) \in dearer /\ \A y \in dearer : Min(dearer) <= y
    <3>1. dearer \in SUBSET Nat
      BY <2>1, <2>2
    <3>2. \E y \in dearer : \A z \in dearer : y <= z
      BY <2>3, <3>1, LeastNatural
    <3> QED BY <3>2 DEF Min
  <2>4. None # 1 /\ kwh # 0
    BY <1>0
  <2>5. ASSUME 1 \in dearer PROVE Min(dearer) = 1
    <3>1. Min(dearer) \in dearer /\ Min(dearer) <= 1
      BY <2>3, <2>5
    <3>2. Min(dearer) \in Nat /\ 1 <= Min(dearer)
      BY <2>1, <2>2, <3>1
    <3> QED BY <3>1, <3>2
  <2> QED BY <1>3, <2>3, <2>4, <2>5
<1>5. 1 \in dearer <=> (rate * kwh) * E >= C * kwh
  <2>1. Power(escalation, 1 - 1) = 1
    BY PowerSteps
  <2>2. 1 \in N
    OBVIOUS
  <2>3. (rate * kwh) * 1 * E = (rate * kwh) * E
    <3>1. \A i, j, k \in Int : (i * j) * 1 * k = (i * j) * k
      OBVIOUS
    <3> QED BY <1>0, <1>1, <3>1
  <2> QED BY <2>1, <2>2, <2>3 DEF E, C
<1>6. (rate * kwh) * E >= C * kwh <=> x >= C
  <2>1. (rate * kwh) * E = x * kwh
    <3>1. \A i, j, k \in Int : (i * j) * k = (i * k) * j
      OBVIOUS
    <3> QED BY <1>0, <1>1, <3>1
  <2> HIDE DEF x
  <2>2. \A p \in Nat \ {0} : \A i, j \in Int : i * p >= j * p <=> i >= j
    <3> TAKE p \in Nat \ {0}
    <3> TAKE i, j \in Int
    <3> DEFINE d == i - j
    <3>1. d \in Int /\ i = j + d
      OBVIOUS
    <3> HIDE DEF d
    <3>2. (j + d) * p = j * p + d * p /\ j * p \in Int /\ d * p \in Int
      BY <3>1
    <3>3. d * p >= 0 <=> d >= 0
      BY <3>1
    <3> QED BY <3>1, <3>2, <3>3
  <2> QED BY <1>0, <1>1, <1>2, <2>1, <2>2
<1> QED BY <1>2, <1>4, <1>5, <1>6 DEF lcoe
----------------------------------------------------------------------------
\* What moves an NPV

\* No flow is lower: the NPV is none the lower.
THEOREM NpvRises ==
  ASSUME NEW n \in Nat, NEW r \in Nat \ {0}, NEW less, NEW more,
         DOMAIN less = 0..n, DOMAIN more = 0..n,
         \A t \in 0..n : less[t] \in Int /\ more[t] \in Int /\ less[t] <= more[t]
  PROVE  Npv(r, less) <= Npv(r, more)
<1> DEFINE N == 0..n
           L == PresentValues(r, less)
           M == PresentValues(r, more)
<1>1. IsFiniteSet(N) /\ \A t \in N : L[t] \in Int /\ L[t] = less[t] * Today(r, t)
  <2>1. IsFiniteSet(DOMAIN less)
    BY NpvType
  <2>2. \A t \in N : L[t] \in Int /\ L[t] = less[t] * Today(r, t)
    BY NpvType
  <2> QED BY <2>1, <2>2
<1>2. \A t \in N : M[t] \in Int /\ M[t] = more[t] * Today(r, t)
  BY NpvType
<1>3. \A t \in N : L[t] <= M[t]
  <2> TAKE t \in N
  <2>1. Today(r, t) \in Nat /\ less[t] \in Int /\ more[t] \in Int /\ less[t] <= more[t]
    BY TodayType
  <2>2. less[t] * Today(r, t) <= more[t] * Today(r, t)
    BY <2>1, TimesLarger
  <2> QED BY <1>1, <1>2, <2>2
<1>4. Npv(r, less) = SumOver(N, L) /\ Npv(r, more) = SumOver(N, M)
  BY DEF Npv
<1> HIDE DEF L, M, N
<1> QED BY <1>1, <1>2, <1>3, <1>4, SumLarger

\* More years that cost nothing never lower the NPV.
THEOREM NpvGrows ==
  ASSUME NEW n \in Nat, NEW m \in Nat, n <= m, NEW r \in Nat \ {0}, NEW short, NEW long,
         DOMAIN short = 0..n, DOMAIN long = 0..m,
         \A t \in 0..m : long[t] \in Int,
         \A t \in 0..n : short[t] = long[t],
         \A t \in (n + 1)..m : long[t] >= 0
  PROVE  Npv(r, short) <= Npv(r, long)
<1> DEFINE N == 0..n
           X == (n + 1)..m
           S == PresentValues(r, short)
           L == PresentValues(r, long)
<1>1. IsFiniteSet(N) /\ \A t \in N : S[t] \in Int /\ S[t] = short[t] * Today(r, t)
  BY NpvType
<1>2. \A t \in 0..m : L[t] \in Int /\ L[t] = long[t] * Today(r, t)
  BY NpvType
<1>3. N \cup X = 0..m /\ N \cap X = {}
  OBVIOUS
<1>4. IsFiniteSet(X)
  BY FS_Interval
<1>5. \A t \in X : L[t] \in Nat
  <2> TAKE t \in X
  <2>1. t \in 0..m /\ long[t] \in Nat /\ Today(r, t) \in Nat
    BY <1>3, TodayType
  <2>2. \A a, b \in Nat : a * b \in Nat
    OBVIOUS
  <2> QED BY <1>2, <2>1, <2>2
<1>6. \A t \in N : S[t] = L[t]
  BY <1>1, <1>2, <1>3
<1>7. Npv(r, short) = SumOver(N, S) /\ Npv(r, long) = SumOver(0..m, L)
  BY DEF Npv
<1>8. \A t \in N \cup X : L[t] \in Int
  BY <1>2, <1>3
<1> HIDE DEF N, X, S, L
<1>9. SumOver(N, S) = SumOver(N, L)
  BY <1>1, <1>6, SumSame
<1>10. SumOver(0..m, L) = SumOver(N, L) + SumOver(X, L)
  <2>1. SumOver(N \cup X, L) = SumOver(N, L) + SumOver(X, L)
    BY <1>1, <1>3, <1>4, <1>8, SumUnion
  <2> QED BY <1>3, <2>1
<1>11. SumOver(X, L) \in Nat /\ SumOver(N, L) \in Int
  <2>1. SumOver(X, L) \in Nat
    BY <1>4, <1>5, SumNat
  <2>2. SumOver(N, L) \in Int
    BY <1>1, <1>8, SumType
  <2> QED BY <2>1, <2>2
<1> QED BY <1>7, <1>9, <1>10, <1>11

\* A unit of a later year is worth no more at a higher rate.
LEMMA TodayFalls ==
  ASSUME NEW r \in Nat \ {0}, NEW q \in Nat \ {0}, r <= q, NEW t \in Nat
  PROVE  /\ Today(q, t) <= Today(r, t) /\ Today(q, 0) = Today(r, 0)
<1>1. Power(r, t) \in Nat \ {0} /\ Power(q, t) \in Nat \ {0} /\ Power(r, t) <= Power(q, t)
  BY PowerPositive, PowerRises
<1>2. Unit \in Nat
  BY FinanceAssumption
<1>3. \A u \in Nat : \A a, b \in Nat \ {0} : a <= b => u \div b <= u \div a
  <2> SUFFICES ASSUME NEW u \in Nat, NEW a \in Nat \ {0}, NEW b \in Nat \ {0}, a <= b
               PROVE  u \div b <= u \div a
    OBVIOUS
  <2> DEFINE x == u \div b
             y == u \div a
  <2>1. /\ x \in Nat /\ u % b \in Nat /\ u = b * x + (u % b)
        /\ y \in Nat /\ u % a \in Nat /\ u % a < a /\ u = a * y + (u % a)
    OBVIOUS
  <2> HIDE DEF x, y
  <2>2. SUFFICES ASSUME x > y PROVE FALSE
    BY <2>1 DEF x, y
  <2>3. a * x <= b * x /\ a * (y + 1) <= a * x /\ a * (y + 1) = a * y + a
    <3>1. \A i, j \in Nat : i * j = j * i
      OBVIOUS
    <3>2. a * x <= b * x
      BY <2>1, TimesLarger
    <3>3. (y + 1) * a <= x * a
      BY <2>1, <2>2, TimesLarger
    <3> QED BY <2>1, <3>1, <3>2, <3>3
  <2>4. a * x \in Int /\ b * x \in Int /\ a * y \in Int
    BY <2>1
  <2> QED BY <2>1, <2>3, <2>4
<1>4. Power(r, 0) = 1 /\ Power(q, 0) = 1
  BY PowerSteps
<1> QED BY <1>1, <1>2, <1>3, <1>4 DEF Today

\* Where the years after the outlay cost nothing a higher rate never raises
\* the NPV.
THEOREM NpvFallsWithRate ==
  ASSUME NEW n \in Nat, NEW r \in Nat \ {0}, NEW q \in Nat \ {0}, r <= q,
         NEW flows, DOMAIN flows = 0..n, \A t \in 0..n : flows[t] \in Int,
         \A t \in 1..n : flows[t] >= 0
  PROVE  Npv(q, flows) <= Npv(r, flows)
<1> DEFINE N == 0..n
           Q == PresentValues(q, flows)
           R == PresentValues(r, flows)
<1>1. IsFiniteSet(N) /\ \A t \in N : Q[t] \in Int /\ Q[t] = flows[t] * Today(q, t)
  BY NpvType
<1>2. \A t \in N : R[t] \in Int /\ R[t] = flows[t] * Today(r, t)
  BY NpvType
<1>3. \A t \in N : Q[t] <= R[t]
  <2> TAKE t \in N
  <2>1. /\ Today(q, t) \in Nat /\ Today(r, t) \in Nat /\ Today(q, t) <= Today(r, t)
        /\ t = 0 => Today(q, t) = Today(r, t)
    <3>1. t \in Nat
      OBVIOUS
    <3>2. Today(q, t) \in Nat /\ Today(r, t) \in Nat
      BY <3>1, TodayType
    <3>3. Today(q, t) <= Today(r, t) /\ Today(q, 0) = Today(r, 0)
      BY <3>1, TodayFalls
    <3> QED BY <3>2, <3>3
  <2>2. CASE t = 0
    BY <1>1, <1>2, <2>1, <2>2
  <2>3. CASE t # 0
    <3>1. flows[t] \in Nat
      BY <2>3
    <3>2. Today(q, t) * flows[t] <= Today(r, t) * flows[t]
      <4>1. Today(q, t) \in Int /\ Today(r, t) \in Int /\ Today(q, t) <= Today(r, t)
        BY <2>1
      <4> QED BY <3>1, <4>1, TimesLarger
    <3>3. \A a, b \in Nat : a * b = b * a
      OBVIOUS
    <3>4. flows[t] * Today(q, t) <= flows[t] * Today(r, t)
      BY <2>1, <3>1, <3>2, <3>3
    <3> QED BY <1>1, <1>2, <3>4
  <2> QED BY <2>2, <2>3
<1>4. Npv(q, flows) = SumOver(N, Q) /\ Npv(r, flows) = SumOver(N, R)
  BY DEF Npv
<1> HIDE DEF Q, R, N
<1> QED BY <1>1, <1>2, <1>3, <1>4, SumLarger

----------------------------------------------------------------------------
\* What a rate card charges

\* Sequences one after the other list what each of them lists.
LEMMA JoinedRange ==
  ASSUME NEW R, NEW s \in Seq(R), NEW t \in Seq(R)
  PROVE  s \o t \in Seq(R) /\ Range(s \o t) = Range(s) \cup Range(t)
<1> DEFINE u == s \o t
<1>1. /\ u \in Seq(R) /\ Len(s) \in Nat /\ Len(t) \in Nat /\ Len(u) = Len(s) + Len(t)
      /\ \A i \in 1..(Len(s) + Len(t)) :
           u[i] = IF i <= Len(s) THEN s[i] ELSE t[i - Len(s)]
  OBVIOUS
<1>2. DOMAIN s = 1..Len(s) /\ DOMAIN t = 1..Len(t) /\ DOMAIN u = 1..(Len(s) + Len(t))
  BY <1>1
<1> HIDE DEF u
<1>3. ASSUME NEW x \in Range(u) PROVE x \in Range(s) \cup Range(t)
  <2>1. PICK i \in DOMAIN u : x = u[i]
    BY DEF Range
  <2>2. CASE i <= Len(s)
    <3>1. i \in DOMAIN s /\ x = s[i]
      BY <1>1, <1>2, <2>1, <2>2
    <3> QED BY <3>1 DEF Range
  <2>3. CASE ~(i <= Len(s))
    <3>1. i - Len(s) \in DOMAIN t /\ x = t[i - Len(s)]
      BY <1>1, <1>2, <2>1, <2>3
    <3> QED BY <3>1 DEF Range
  <2> QED BY <2>2, <2>3
<1>4. ASSUME NEW x \in Range(s) PROVE x \in Range(u)
  <2>1. PICK i \in DOMAIN s : x = s[i]
    BY DEF Range
  <2>2. i \in DOMAIN u /\ u[i] = x
    BY <1>1, <1>2, <2>1
  <2> QED BY <2>2 DEF Range
<1>5. ASSUME NEW x \in Range(t) PROVE x \in Range(u)
  <2>1. PICK i \in DOMAIN t : x = t[i]
    BY DEF Range
  <2>2. /\ i + Len(s) \in DOMAIN u /\ ~(i + Len(s) <= Len(s)) /\ (i + Len(s)) - Len(s) = i
        /\ i + Len(s) \in 1..(Len(s) + Len(t))
    BY <1>1, <1>2
  <2>3. u[i + Len(s)] = x
    BY <1>1, <2>1, <2>2
  <2> QED BY <2>2, <2>3 DEF Range
<1>6. Range(u) = Range(s) \cup Range(t)
  BY <1>3, <1>4, <1>5
<1> QED BY <1>1, <1>6 DEF u

LEMMA PlusOne ==
  ASSUME NEW a \in Nat
  PROVE  /\ a + 1 \in Nat /\ ((a + 1) + 1) - 1 = a + 1 /\ (a + 1) + 1 # 1
         /\ \A b \in Nat : (a + 1) + 1 \in 1..b => a + 1 \in 1..b
         /\ 1..(a + 1) = 1..a \cup {a + 1}
OBVIOUS

LEMMA FlatRange ==
  ASSUME NEW R, NEW ss \in Seq(Seq(R)), Len(ss) > 0
  PROVE  /\ FlattenSeq(ss) \in Seq(R)
         /\ Range(FlattenSeq(ss)) = UNION {Range(ss[k]) : k \in DOMAIN ss}
<1> DEFINE n == Len(ss)
           V == Seq(R)
           base == <<>>
           step == [x \in V \X Nat |-> IF x[2] \in 1..n THEN x[1] \o ss[x[2]] ELSE base]
           Eq(f) == f = [i \in 1..n |-> IF i = 1 THEN ss[i] ELSE f[i - 1] \o ss[i]]
<1>1. n \in Nat /\ 1 \in 1..n /\ n \in 1..n /\ DOMAIN ss = 1..n
  OBVIOUS
<1>2. \A k \in 1..n : ss[k] \in V
  <2> HIDE DEF V, n
  <2>1. ss \in Seq(V)
    BY DEF V
  <2> QED BY <1>1, <2>1, Element
<1>3. base \in V
  OBVIOUS
<1>4. step \in [V \X Nat -> V]
  <2>1. ASSUME NEW x \in V \X Nat PROVE step[x] \in V
    <3>1. CASE x[2] \in 1..n
      <4>1. x[1] \in V /\ ss[x[2]] \in V
        BY <1>2, <3>1
      <4>2. x[1] \o ss[x[2]] \in V
        BY <4>1, JoinedRange
      <4> HIDE DEF V, n
      <4> QED BY <3>1, <4>2
    <3>2. CASE x[2] \notin 1..n
      BY <1>3, <3>2
    <3> QED BY <3>1, <3>2
  <2> QED BY <2>1
<1>5. PICK g \in [Nat -> V] : \A k \in Nat : Steps(base, step, g, k)
  <2> HIDE DEF base, step, V
  <2> QED BY <1>3, <1>4, Recursion
<1>6. ASSUME NEW i \in 1..n PROVE g[i] = IF i = 1 THEN ss[i] ELSE g[i - 1] \o ss[i]
  <2>1. i \in Nat /\ i \in 1..i /\ i - 1 \in Nat
    BY <1>1
  <2>2. g[0] = base /\ g[i] = step[<<g[i - 1], i>>]
    <3> HIDE DEF base, step, V, n
    <3> QED BY <1>5, <2>1 DEF Steps
  <2>3. <<g[i - 1], i>> \in V \X Nat
    <3> HIDE DEF V, n
    <3> QED BY <2>1
  <2>4. g[i] = g[i - 1] \o ss[i]
    <3> HIDE DEF V, n
    <3> QED BY <2>2, <2>3
  <2>5. i = 1 => g[i - 1] \o ss[i] = ss[i]
    <3>1. ss[i] \in V /\ \A t \in V : <<>> \o t = t
      BY <1>2
    <3>2. i = 1 => g[i - 1] = <<>>
      BY <2>2
    <3> HIDE DEF V
    <3> QED BY <3>1, <3>2
  <2> QED BY <2>4, <2>5
<1> DEFINE h == [i \in 1..n |-> g[i]]
<1>7. Eq(h)
  <2>1. ASSUME NEW i \in 1..n PROVE h[i] = IF i = 1 THEN ss[i] ELSE h[i - 1] \o ss[i]
    <3>1. i # 1 => i - 1 \in 1..n
      BY <1>1
    <3> HIDE DEF n
    <3> QED BY <1>6, <3>1
  <2>2. h = [i \in 1..n |-> h[i]]
    OBVIOUS
  <2> HIDE DEF h
  <2> QED BY <2>1, <2>2
<1> HIDE DEF h
<1> DEFINE w == CHOOSE f : Eq(f)
<1>8. FlattenSeq(ss) = w[n]
  BY DEF FlattenSeq
<1>9. Eq(w)
  <2> HIDE DEF Eq
  <2> QED BY <1>7
<1> HIDE DEF w
<1>10. \A i \in 1..n : w[i] = IF i = 1 THEN ss[i] ELSE w[i - 1] \o ss[i]
  <2> HIDE DEF n
  <2> QED BY <1>9
<1> HIDE DEF Eq
<1> DEFINE Upto(i) == UNION {Range(ss[k]) : k \in 1..i}
           T == {i \in Nat : i + 1 \in 1..n =>
                   w[i + 1] \in V /\ Range(w[i + 1]) = Upto(i + 1)}
<1>11. 0 \in T
  <2>1. w[1] = ss[1] /\ ss[1] \in V
    <3> HIDE DEF n, V
    <3> QED BY <1>1, <1>2, <1>10
  <2>2. 0 + 1 = 1 /\ 1..1 = {1}
    OBVIOUS
  <2>3. Upto(1) = Range(ss[1])
    BY <2>2
  <2> HIDE DEF V, n, Upto
  <2> QED BY <2>1, <2>2, <2>3
<1>12. ASSUME NEW i \in T PROVE i + 1 \in T
  <2> DEFINE j == i + 1
  <2>1. j \in Nat /\ (j + 1) - 1 = j /\ j + 1 # 1 /\ (j + 1 \in 1..n => j \in 1..n)
    <3>1. i \in Nat /\ n \in Nat
      BY <1>1
    <3> HIDE DEF n, T
    <3> QED BY <3>1, PlusOne
  <2> SUFFICES ASSUME j + 1 \in 1..n
               PROVE  w[j + 1] \in V /\ Range(w[j + 1]) = Upto(j + 1)
    BY <2>1
  <2>2. w[j] \in V /\ Range(w[j]) = Upto(j)
    BY <2>1
  <2>3. 1..(j + 1) = 1..j \cup {j + 1}
    <3> HIDE DEF j, T
    <3> QED BY <2>1, PlusOne
  <2>4. Upto(j + 1) = Upto(j) \cup Range(ss[j + 1])
    BY <2>3
  <2> HIDE DEF V, n, Upto, j
  <2>5. w[j + 1] = w[j] \o ss[j + 1] /\ ss[j + 1] \in V
    BY <1>2, <1>10, <2>1
  <2>6. w[j] \o ss[j + 1] \in V /\ Range(w[j] \o ss[j + 1]) = Range(w[j]) \cup Range(ss[j + 1])
    <3>1. w[j] \in Seq(R) /\ ss[j + 1] \in Seq(R)
      BY <2>2, <2>5 DEF V
    <3>2. w[j] \o ss[j + 1] \in Seq(R)
      BY <3>1, JoinedRange
    <3>3. Range(w[j] \o ss[j + 1]) = Range(w[j]) \cup Range(ss[j + 1])
      BY <3>1, JoinedRange
    <3> QED BY <3>2, <3>3 DEF V
  <2> QED BY <2>2, <2>4, <2>5, <2>6
<1> HIDE DEF T
<1>13. T = Nat
  BY <1>11, <1>12, CountingUp DEF T
<1>14. w[n] \in V /\ Range(w[n]) = Upto(n)
  <2>1. n - 1 \in T /\ (n - 1) + 1 = n
    BY <1>1, <1>13
  <2> HIDE DEF V, n, Upto
  <2> QED BY <1>1, <2>1 DEF T
<1> HIDE DEF V
<1> QED BY <1>1, <1>8, <1>14 DEF V

\* The bands of a period are those of the months that open one.
LEMMA BandsRange ==
  ASSUME NEW card, NEW matrix, NEW period
  PROVE  LET R == {Band(card, matrix, period, m) : m \in {k \in Month : Opens(matrix, period, k)}}
         IN Bands(card, matrix, period) \in Seq(R) /\ Range(Bands(card, matrix, period)) = R
<1> DEFINE M == {k \in Month : Opens(matrix, period, k)}
           R == {Band(card, matrix, period, m) : m \in M}
           ss == [m \in Month |-> IF Opens(matrix, period, m)
                                  THEN <<Band(card, matrix, period, m)>> ELSE <<>>]
<1>1. Months \in Nat \ {0} /\ Month = 1..Months
  BY CalendarAssumption DEF Month
<1>2. ASSUME NEW m \in Month
      PROVE  ss[m] \in Seq(R) /\ Range(ss[m]) = {x \in R : m \in M /\ x = Band(card, matrix, period, m)}
  <2> DEFINE b == Band(card, matrix, period, m)
  <2>1. CASE m \in M
    <3>1. ss[m] = <<b>> /\ b \in R
      BY <2>1
    <3>2. Range(<<b>>) = {b}
      BY DEF Range
    <3> HIDE DEF b, M, R, ss
    <3>3. ss[m] \in Seq(R)
      BY <3>1
    <3>4. Range(ss[m]) = {x \in R : m \in M /\ x = b}
      BY <2>1, <3>1, <3>2
    <3> QED BY <3>3, <3>4 DEF b
  <2>2. CASE m \notin M
    <3>1. ss[m] = <<>>
      BY <2>2
    <3>2. Range(<<>>) = {}
      BY DEF Range
    <3> HIDE DEF M, R, ss
    <3> QED BY <2>2, <3>1, <3>2
  <2> QED BY <2>1, <2>2
<1>3. DOMAIN ss = Month
  OBVIOUS
<1>4. \A x \in R : \E m \in M : x = Band(card, matrix, period, m)
  OBVIOUS
<1>5. Bands(card, matrix, period) = FlattenSeq(ss)
  BY DEF Bands
<1>6. M \subseteq Month
  OBVIOUS
<1>7. ss = [m \in Month |-> ss[m]]
  OBVIOUS
<1> HIDE DEF M, R, ss
<1>8. ss \in Seq(Seq(R)) /\ Len(ss) > 0
  <2>1. ss \in [1..Months -> Seq(R)]
    BY <1>1, <1>2, <1>7
  <2> QED BY <1>1, <2>1
<1>9. FlattenSeq(ss) \in Seq(R) /\ Range(FlattenSeq(ss)) = UNION {Range(ss[k]) : k \in Month}
  BY <1>3, <1>8, FlatRange
<1>10. UNION {Range(ss[k]) : k \in Month} = R
  BY <1>2, <1>4, <1>6
<1> QED BY <1>5, <1>9, <1>10 DEF M, R

\* a month of a well-formed period that opens a band in one of the matrices
Opening(card, matrix, period, m) ==
  /\ matrix \in {card.weekday, card.weekend} /\ period \in DOMAIN card.structure
  /\ card.structure[period] # <<>>
  /\ m \in Month /\ Opens(matrix, period, m)

\* The periods of a schedule are those bands, none lost and none invented.
LEMMA PeriodsRange ==
  ASSUME NEW card, NEW B, card.structure \in Seq(B), Len(card.structure) > 0
  PROVE  /\ DOMAIN TouPeriods(card) \in SUBSET Nat
         /\ \A i \in DOMAIN TouPeriods(card) : \E matrix, period, m :
              /\ Opening(card, matrix, period, m)
              /\ TouPeriods(card)[i] = Band(card, matrix, period, m)
         /\ \A matrix, period, m : Opening(card, matrix, period, m) =>
              \E i \in DOMAIN TouPeriods(card) :
                TouPeriods(card)[i] = Band(card, matrix, period, m)
<1> DEFINE D == DOMAIN card.structure
           In(matrix, period) == {Band(card, matrix, period, m) :
                                    m \in {k \in Month : Opens(matrix, period, k)}}
           Both(period) == In(card.weekday, period) \cup In(card.weekend, period)
           Good == {p \in D : card.structure[p] # <<>>}
           R == UNION {Both(p) : p \in Good}
           ss == [period \in D |->
                    IF card.structure[period] = <<>> THEN <<>>
                    ELSE Bands(card, card.weekday, period) \o Bands(card, card.weekend, period)]
<1>1. D = 1..Len(card.structure) /\ Len(card.structure) \in Nat
  OBVIOUS
<1>2. ASSUME NEW p \in D
      PROVE  ss[p] \in Seq(R) /\ Range(ss[p]) = {x \in R : p \in Good /\ x \in Both(p)}
  <2>1. CASE p \in Good
    <3>1. ss[p] = Bands(card, card.weekday, p) \o Bands(card, card.weekend, p)
      BY <2>1
    <3>2. /\ Bands(card, card.weekday, p) \in Seq(In(card.weekday, p))
          /\ Range(Bands(card, card.weekday, p)) = In(card.weekday, p)
      BY BandsRange
    <3>3. /\ Bands(card, card.weekend, p) \in Seq(In(card.weekend, p))
          /\ Range(Bands(card, card.weekend, p)) = In(card.weekend, p)
      BY BandsRange
    <3>4. In(card.weekday, p) \subseteq R /\ In(card.weekend, p) \subseteq R /\ Both(p) \subseteq R
      BY <2>1
    <3>5. Both(p) = In(card.weekday, p) \cup In(card.weekend, p)
      OBVIOUS
    <3> DEFINE a == Bands(card, card.weekday, p)
               b == Bands(card, card.weekend, p)
               X == In(card.weekday, p)
               Y == In(card.weekend, p)
               Z == Both(p)
    <3>6. a \in Seq(X) /\ Range(a) = X /\ X \subseteq R /\ b \in Seq(Y) /\ Range(b) = Y /\ Y \subseteq R
          /\ Z = X \cup Y /\ Z \subseteq R /\ ss[p] = a \o b
      BY <3>1, <3>2, <3>3, <3>4, <3>5
    <3> HIDE DEF a, b, X, Y, Z, R, ss, Good, D
    <3>7. a \in Seq(R) /\ b \in Seq(R)
      BY <3>6
    <3>8. a \o b \in Seq(R) /\ Range(a \o b) = X \cup Y
      BY <3>6, <3>7, JoinedRange
    <3>9. Range(ss[p]) = Z
      BY <3>6, <3>8
    <3>10. Range(ss[p]) = {x \in R : p \in Good /\ x \in Z}
      BY <2>1, <3>6, <3>9
    <3>11. ss[p] \in Seq(R)
      BY <3>6, <3>8
    <3> QED BY <3>10, <3>11 DEF Z
  <2>2. CASE p \notin Good
    <3>1. ss[p] = <<>>
      BY <2>2
    <3>2. Range(<<>>) = {}
      BY DEF Range
    <3> HIDE DEF Good, R, ss, Both
    <3> QED BY <2>2, <3>1, <3>2
  <2> QED BY <2>1, <2>2
<1>3. DOMAIN ss = D /\ ss = [p \in D |-> ss[p]] /\ TouPeriods(card) = FlattenSeq(ss)
  BY DEF TouPeriods
<1>4. \A x \in R : \E p \in Good : x \in Both(p)
  OBVIOUS
<1>5. Good \subseteq D
  OBVIOUS
<1>6. \A x : x \in R <=> \E matrix, p, m :
        Opening(card, matrix, p, m) /\ x = Band(card, matrix, p, m)
  BY DEF Opening
<1> HIDE DEF D, In, Both, Good, R, ss
<1>7. ss \in Seq(Seq(R)) /\ Len(ss) > 0
  <2>1. ss \in [1..Len(card.structure) -> Seq(R)]
    BY <1>1, <1>2, <1>3
  <2> QED BY <1>1, <2>1
<1>8. FlattenSeq(ss) \in Seq(R) /\ Range(FlattenSeq(ss)) = UNION {Range(ss[k]) : k \in D}
  BY <1>3, <1>7, FlatRange
<1>9. UNION {Range(ss[k]) : k \in D} = R
  BY <1>2, <1>4, <1>5
<1>10. TouPeriods(card) \in Seq(R) /\ Range(TouPeriods(card)) = R
  BY <1>3, <1>8, <1>9
<1>11. DOMAIN TouPeriods(card) \in SUBSET Nat
  BY <1>10
<1>12. \A i \in DOMAIN TouPeriods(card) : TouPeriods(card)[i] \in R
  BY <1>10 DEF Range
<1>13. \A x \in R : \E i \in DOMAIN TouPeriods(card) : TouPeriods(card)[i] = x
  BY <1>10 DEF Range
<1> QED BY <1>6, <1>11, <1>12, <1>13

\* The least of some numbers is one of them.
LEMMA MinLemma ==
  ASSUME NEW S \in SUBSET Nat, S # {}
  PROVE  Min(S) \in S /\ \A k \in S : Min(S) <= k
<1>1. \E n \in S : \A k \in S : n <= k
  BY LeastNatural
<1> QED BY <1>1 DEF Min

\* A band that covers an hour has the rate of the period that the card names
\* for the hour, and if that period is well formed some band does.
THEOREM BandsFollowTheCard ==
  ASSUME NEW card, RateCard(card), IsTou(card), NEW h \in Hour
  PROVE  TouRate(TouPeriods(card), Calendar[h]) = CardRate(card, Calendar[h])
<1> DEFINE cell == Calendar[h]
           month == cell.month
           slot == cell.slot
           ps == TouPeriods(card)
           named == IF slot \in DOMAIN card.weekday[month] THEN card.weekday ELSE card.weekend
           period == named[month][slot]
           formed == period \in DOMAIN card.structure /\ card.structure[period] # <<>>
           hits == {i \in DOMAIN ps : Covers(ps[i], cell)}
<1>1. month \in Month /\ slot \in Nat
  BY CalendarAssumption
<1>2. slot \in DOMAIN card.weekday[month] <=> slot \notin DOMAIN card.weekend[month]
  BY DEF RateCard, IsTou
<1>3. slot \in DOMAIN named[month] /\ named \in {card.weekday, card.weekend}
  BY <1>2
<1>4. \A matrix \in {card.weekday, card.weekend} :
        slot \in DOMAIN matrix[month] => matrix = named
  BY <1>2
<1>5. CardRate(card, cell) = IF formed THEN card.structure[period][1].rate ELSE None
  BY DEF CardRate
<1>6. TouRate(ps, cell) = IF hits = {} THEN None ELSE ps[Min(hits)].rate
  BY DEF TouRate
<1>7. /\ DOMAIN ps \in SUBSET Nat
      /\ \A i \in DOMAIN ps : \E matrix, p, m :
           Opening(card, matrix, p, m) /\ ps[i] = Band(card, matrix, p, m)
      /\ \A matrix, p, m : Opening(card, matrix, p, m) =>
           \E i \in DOMAIN ps : ps[i] = Band(card, matrix, p, m)
  <2> DEFINE B == Seq([max : Nat \cup {None}, rate : Nat])
  <2>1. card.structure \in Seq(B) /\ Len(card.structure) > 0
    <3>1. card.structure \in Seq(B)
      BY DEF RateCard
    <3>2. Len(card.structure) > 1
      BY DEF IsTou, HasMatrices
    <3> HIDE DEF B
    <3> QED BY <3>1, <3>2
  <2> HIDE DEF B, ps
  <2> QED BY <2>1, PeriodsRange DEF ps
<1> HIDE DEF ps, named, cell
<1>8. ASSUME NEW matrix, NEW p, NEW m, Opening(card, matrix, p, m),
             Covers(Band(card, matrix, p, m), cell)
      PROVE  formed /\ p = period
  <2>1. month \in {k \in Month : Mask(matrix, p, k) = Mask(matrix, p, m)} /\ slot \in Mask(matrix, p, m)
    BY <1>8 DEF Covers, Band
  <2>2. slot \in Mask(matrix, p, month)
    BY <2>1
  <2>3. slot \in DOMAIN matrix[month] /\ matrix[month][slot] = p
    BY <2>2 DEF Mask
  <2>4. matrix = named
    BY <1>4, <1>8, <2>3 DEF Opening
  <2> QED BY <1>8, <2>3, <2>4 DEF Opening
<1>9. CASE hits # {}
  <2> DEFINE i == Min(hits)
  <2>1. i \in hits
    <3>1. hits \in SUBSET Nat
      BY <1>7
    <3> HIDE DEF hits
    <3> QED BY <1>9, <3>1, MinLemma
  <2> HIDE DEF i
  <2>2. PICK matrix, p, m : Opening(card, matrix, p, m) /\ ps[i] = Band(card, matrix, p, m)
    BY <1>7, <2>1
  <2>3. Covers(Band(card, matrix, p, m), cell)
    BY <2>1, <2>2
  <2>4. formed /\ p = period
    BY <1>8, <2>2, <2>3
  <2>5. ps[i].rate = card.structure[p][1].rate
    BY <2>2 DEF Band
  <2>6. TouRate(ps, cell) = ps[i].rate
    BY <1>6, <1>9 DEF i
  <2> HIDE DEF formed, period
  <2> QED BY <1>5, <2>4, <2>5, <2>6 DEF ps, cell
<1>10. CASE hits = {}
  <2>1. ASSUME formed PROVE FALSE
    <3> DEFINE M == {k \in Month : Mask(named, period, k) = Mask(named, period, month)}
               k == Min(M)
    <3>1. slot \in Mask(named, period, month)
      BY <1>3 DEF Mask
    <3>2. M \in SUBSET Nat /\ month \in M
      BY <1>1 DEF Month
    <3>3. k \in M /\ \A j \in M : k <= j
      <4> HIDE DEF M
      <4> QED BY <3>2, MinLemma
    <3> HIDE DEF k
    <3>4. k \in Month /\ Mask(named, period, k) = Mask(named, period, month) /\ k \in Nat
      BY <3>2, <3>3
    <3>5. \A j \in 1..(k - 1) : Mask(named, period, j) # Mask(named, period, k)
      <4> SUFFICES ASSUME NEW j \in 1..(k - 1), Mask(named, period, j) = Mask(named, period, k)
                   PROVE  FALSE
        OBVIOUS
      <4>1. j < k /\ j \in Month /\ j \in Nat
        BY <3>4, CalendarAssumption DEF Month
      <4>2. j \in M
        BY <3>4, <4>1
      <4>3. k <= j
        BY <3>3, <4>2
      <4> HIDE DEF M
      <4> QED BY <3>4, <4>1, <4>3
    <3>6. Opening(card, named, period, k)
      BY <1>3, <2>1, <3>1, <3>4, <3>5 DEF Opening, Opens
    <3>7. PICK i \in DOMAIN ps : ps[i] = Band(card, named, period, k)
      BY <1>7, <3>6
    <3>8. month \in {j \in Month : Mask(named, period, j) = Mask(named, period, k)}
          /\ slot \in Mask(named, period, k)
      BY <1>1, <3>1, <3>4
    <3> HIDE DEF period, M
    <3>9. Covers(ps[i], cell)
      BY <3>7, <3>8 DEF Covers, Band
    <3> QED BY <1>10, <3>9
  <2> HIDE DEF formed
  <2> QED BY <1>5, <1>6, <1>10, <2>1 DEF ps, cell
<1> QED BY <1>9, <1>10

\* The sorted blocks are the blocks in their order, each at one place.
LEMMA SortedOrder ==
  ASSUME NEW blocks \in Blocks
  PROVE  \E order \in [DOMAIN blocks -> DOMAIN blocks] :
           /\ \A n \in DOMAIN blocks : SortedBlocks(blocks)[n] = blocks[order[n]]
           /\ \A i \in DOMAIN blocks : \E n \in DOMAIN blocks : order[n] = i
           /\ \A k, n \in DOMAIN blocks : k < n => Before(blocks, order[k], order[n])
<1> DEFINE m == Len(blocks)
           D == 1..m
           R == {p \in D \X D : Before(blocks, p[1], p[2])}
           order == [n \in D |-> CHOOSE i \in D : Rank(blocks, i) = n - 1]
<1>1. m \in Nat /\ DOMAIN blocks = D /\ \A k \in D : blocks[k].upTo \in Nat \cup {None}
  BY BlockType DEF Block
<1>2. \A i, j \in D : <<i, j>> \in R <=> Before(blocks, i, j)
  OBVIOUS
<1>3. /\ \A k, l \in D : k # l => Before(blocks, k, l) \/ Before(blocks, l, k)
      /\ \A k \in D : ~Before(blocks, k, k)
      /\ \A k, l, n \in D : Before(blocks, k, l) /\ Before(blocks, l, n) => Before(blocks, k, n)
  <2>1. \A k, l \in D : k # l => Before(blocks, k, l) \/ Before(blocks, l, k)
    BY <1>1 DEF Before
  <2>2. \A k \in D : ~Before(blocks, k, k)
    BY <1>1 DEF Before
  <2>3. \A k, l, n \in D : Before(blocks, k, l) /\ Before(blocks, l, n) => Before(blocks, k, n)
    BY <1>1 DEF Before
  <2> QED BY <2>1, <2>2, <2>3
<1>4. Linear(R, m)
  <2> HIDE DEF R
  <2> QED BY <1>2, <1>3 DEF Linear
<1>5. \A i \in D : Rank(blocks, i) = Cardinality(Ahead(R, m, i))
  <2> TAKE i \in D
  <2>1. {j \in DOMAIN blocks : Before(blocks, j, i)} = Ahead(R, m, i)
    <3> HIDE DEF R
    <3> QED BY <1>1, <1>2 DEF Ahead
  <2> QED BY <2>1 DEF Rank
<1>6. SortedBlocks(blocks) = [n \in D |-> blocks[order[n]]]
  BY <1>1 DEF SortedBlocks
<1> HIDE DEF R, m
<1>7. /\ \A i, j \in D : Before(blocks, i, j) => Rank(blocks, i) < Rank(blocks, j)
      /\ \A i \in D : Rank(blocks, i) \in 0..(m - 1)
      /\ \A n \in D : \E i \in D : Rank(blocks, i) = n - 1
  BY <1>1, <1>2, <1>4, <1>5, PlacesTaken
<1>8. \A n \in D : order[n] \in D /\ Rank(blocks, order[n]) = n - 1
  BY <1>7
<1>9. order = [n \in D |-> order[n]]
  OBVIOUS
<1> HIDE DEF order
<1>10. order \in [D -> D]
  <2> HIDE DEF D
  <2> QED BY <1>8, <1>9
<1>11. ASSUME NEW k \in D, NEW n \in D, k < n PROVE Before(blocks, order[k], order[n])
  <2>1. order[k] \in D /\ order[n] \in D
        /\ Rank(blocks, order[k]) = k - 1 /\ Rank(blocks, order[n]) = n - 1
    BY <1>8
  <2>2. k - 1 < n - 1 /\ ~(n - 1 < k - 1) /\ k - 1 # n - 1
    BY <1>1, <1>11
  <2>3. order[k] # order[n]
    BY <2>1, <2>2
  <2>4. ~Before(blocks, order[n], order[k])
    BY <1>7, <2>1, <2>2
  <2> HIDE DEF D
  <2> QED BY <1>3, <2>1, <2>3, <2>4
<1>12. ASSUME NEW i \in D PROVE \E n \in D : order[n] = i
  <2> DEFINE n == Rank(blocks, i) + 1
  <2>1. n \in D /\ n - 1 = Rank(blocks, i)
    BY <1>1, <1>7
  <2>2. order[n] \in D /\ Rank(blocks, order[n]) = Rank(blocks, i) /\ Rank(blocks, i) \in Nat
    BY <1>7, <1>8, <2>1
  <2>3. \A a \in Nat : ~(a < a)
    OBVIOUS
  <2>4. ~Before(blocks, order[n], i) /\ ~Before(blocks, i, order[n])
    BY <1>7, <2>2, <2>3
  <2>5. order[n] = i
    BY <1>3, <2>2, <2>4
  <2> QED BY <2>1, <2>5
<1> HIDE DEF D
<1> QED BY <1>1, <1>6, <1>10, <1>11, <1>12

CardBlocks == Seq([max : Nat \cup {None}, rate : Nat])

\* a tier that holds the k-th kWh of a month, if none below it does
Reaches(block, k) == block.upTo = None \/ block.upTo >= k

LEMMA TieredType ==
  ASSUME NEW blocks \in CardBlocks
  PROVE  /\ TieredBlocks(blocks) \in Blocks /\ DOMAIN TieredBlocks(blocks) = DOMAIN blocks
         /\ Len(TieredBlocks(blocks)) = Len(blocks)
         /\ Len(blocks) \in Nat /\ DOMAIN blocks = 1..Len(blocks)
<1> DEFINE R == [max : Nat \cup {None}, rate : Nat]
           n == Len(blocks)
           t == TieredBlocks(blocks)
<1>1. blocks \in Seq(R) /\ n \in Nat /\ DOMAIN blocks = 1..n
  BY DEF CardBlocks
<1>2. \A i \in 1..n : blocks[i] \in R
  <2> HIDE DEF R, n
  <2> QED BY <1>1, Element
<1>3. t = [i \in 1..n |-> [rate |-> blocks[i].rate,
                           upTo |-> IF blocks[i].max = 0 THEN None ELSE blocks[i].max]]
  BY <1>1 DEF TieredBlocks
<1>4. \A i \in 1..n : t[i] \in [rate : Nat, upTo : Nat \cup {None}]
  BY <1>2, <1>3
<1>5. DOMAIN t = 1..n
  BY <1>3
<1>6. t = [i \in 1..n |-> t[i]]
  BY <1>3
<1> HIDE DEF t, n
<1>7. t \in [1..n -> [rate : Nat, upTo : Nat \cup {None}]]
  BY <1>4, <1>6
<1>8. t \in Seq([rate : Nat, upTo : Nat \cup {None}]) /\ Len(t) = n
  <2> DEFINE S == [rate : Nat, upTo : Nat \cup {None}]
  <2>1. t \in [1..n -> S]
    BY <1>7
  <2> HIDE DEF S, R
  <2>2. \A x \in [1..n -> S] : x \in Seq(S) /\ Len(x) = n
    BY <1>1
  <2> QED BY <2>1, <2>2 DEF S
<1> QED BY <1>1, <1>5, <1>8 DEF Blocks, t, n

\* The card's tier of a kWh is the first of the sorted blocks that reaches it.
LEMMA CardTierLemma ==
  ASSUME None \notin Int, NEW blocks \in CardBlocks, Len(blocks) # 1, NEW k \in Nat \ {0}
  PROVE  LET sorted == SortedBlocks(TieredBlocks(blocks))
         IN /\ \A n \in DOMAIN blocks :
                 /\ Reaches(sorted[n], k)
                 /\ \A m \in 1..(n - 1) : ~Reaches(sorted[m], k)
                 => CardTier(blocks, k) = sorted[n].rate
            /\ (\A n \in DOMAIN blocks : ~Reaches(sorted[n], k)) => CardTier(blocks, k) = 0
<1> DEFINE t == TieredBlocks(blocks)
           D == 1..Len(blocks)
           sorted == SortedBlocks(t)
           reach == {i \in DOMAIN blocks : blocks[i].max # None /\ blocks[i].max >= k}
           lowest == {i \in reach : \A j \in reach : blocks[i].max <= blocks[j].max}
           open == {i \in DOMAIN blocks : blocks[i].max \in {0, None}}
<1>1. t \in Blocks /\ DOMAIN t = D /\ DOMAIN blocks = D /\ Len(blocks) \in Nat
  BY TieredType
<1>2. PICK order \in [D -> D] :
        /\ \A n \in D : sorted[n] = t[order[n]]
        /\ \A i \in D : \E n \in D : order[n] = i
        /\ \A m, n \in D : m < n => Before(t, order[m], order[n])
  <2>1. \E order \in [DOMAIN t -> DOMAIN t] :
          /\ \A n \in DOMAIN t : SortedBlocks(t)[n] = t[order[n]]
          /\ \A i \in DOMAIN t : \E n \in DOMAIN t : order[n] = i
          /\ \A m, n \in DOMAIN t : m < n => Before(t, order[m], order[n])
    <3> HIDE DEF t
    <3> QED BY <1>1, SortedOrder
  <2> HIDE DEF t, D
  <2> QED BY <1>1, <2>1
<1>3. \A i \in D : /\ blocks[i].max \in Nat \cup {None} /\ t[i].rate = blocks[i].rate
                   /\ t[i].upTo = IF blocks[i].max = 0 THEN None ELSE blocks[i].max
  <2>1. \A i \in D : blocks[i] \in [max : Nat \cup {None}, rate : Nat]
    <3> HIDE DEF D
    <3> QED BY <1>1, Element DEF CardBlocks
  <2> QED BY <1>1, <2>1 DEF TieredBlocks
<1>4. CardTier(blocks, k) = IF reach # {} THEN blocks[Min(lowest)].rate
                            ELSE IF open # {} THEN blocks[Min(open)].rate ELSE 0
  BY DEF CardTier
<1>5. \A i \in D : /\ i \in reach <=> t[i].upTo # None /\ Reaches(t[i], k)
                   /\ i \in open <=> t[i].upTo = None
                   /\ i \in reach \/ i \in open <=> Reaches(t[i], k)
                   /\ t[i].upTo # None => t[i].upTo = blocks[i].max /\ t[i].upTo \in Nat
  BY <1>1, <1>3 DEF Reaches
<1>6. reach \in SUBSET Nat /\ lowest \in SUBSET reach /\ open \in SUBSET Nat
      /\ reach \subseteq D /\ open \subseteq D
  BY <1>1
<1>7. \A i \in reach : i \in lowest <=> \A j \in reach : t[i].upTo <= t[j].upTo
  BY <1>5, <1>6
<1> HIDE DEF t, D, sorted, reach, lowest, open
<1>8. ASSUME NEW n \in D, Reaches(sorted[n], k), \A m \in 1..(n - 1) : ~Reaches(sorted[m], k)
      PROVE  CardTier(blocks, k) = sorted[n].rate
  <2> DEFINE i == order[n]
  <2>1. i \in D /\ sorted[n] = t[i] /\ Reaches(t[i], k)
    BY <1>2, <1>8
  <2>2. ASSUME NEW j \in D, Reaches(t[j], k) PROVE j = i \/ Before(t, i, j)
    <3>1. PICK m \in D : order[m] = j
      BY <1>2
    <3>2. m \in Nat /\ n \in Nat /\ (m < n => m \in 1..(n - 1))
      BY <1>1 DEF D
    <3>3. ~(m < n)
      BY <1>2, <1>8, <2>2, <3>1, <3>2
    <3>4. m = n \/ n < m
      BY <3>2, <3>3
    <3> QED BY <1>2, <3>1, <3>4
  <2> HIDE DEF i
  <2>3. i \in Nat
    BY <1>1, <2>1 DEF D
  <2>4. CASE t[i].upTo # None
    <3>1. i \in reach
      BY <1>5, <2>1, <2>4
    <3>2. ASSUME NEW j \in reach PROVE t[i].upTo < t[j].upTo \/ (t[i].upTo = t[j].upTo /\ i <= j)
      <4>1. j \in D /\ Reaches(t[j], k) /\ t[j].upTo # None /\ t[j].upTo \in Nat /\ j \in Nat
        BY <1>5, <1>6
      <4>2. j = i \/ Before(t, i, j)
        BY <2>2, <4>1
      <4>3. CASE j = i
        BY <2>3, <4>3
      <4>4. CASE Before(t, i, j)
        BY <2>3, <4>1, <4>4 DEF Before
      <4> QED BY <4>2, <4>3, <4>4
    <3>3. \A j \in reach : t[j].upTo \in Nat /\ j \in Nat
      BY <1>5, <1>6
    <3>4. i \in lowest
      BY <1>7, <3>1, <3>2, <3>3
    <3>5. Min(lowest) \in lowest /\ Min(lowest) <= i
      <4>1. lowest \in SUBSET Nat /\ lowest # {}
        BY <1>6, <3>4
      <4> QED BY <3>4, <4>1, MinLemma
    <3> DEFINE l == Min(lowest)
    <3>6. l \in reach /\ l <= i /\ t[l].upTo <= t[i].upTo
      BY <1>6, <1>7, <3>1, <3>5
    <3> HIDE DEF l
    <3>7. l = i
      BY <2>3, <3>1, <3>2, <3>3, <3>6
    <3> QED BY <1>3, <1>4, <2>1, <3>1, <3>7 DEF l
  <2>5. CASE t[i].upTo = None
    <3>1. i \in open
      BY <1>5, <2>1, <2>5
    <3>2. reach = {}
      <4> SUFFICES ASSUME NEW j \in reach PROVE FALSE
        OBVIOUS
      <4>1. j \in D /\ Reaches(t[j], k) /\ t[j].upTo # None
        BY <1>5, <1>6
      <4>2. j = i \/ Before(t, i, j)
        BY <2>2, <4>1
      <4>3. ~Before(t, i, j)
        BY <2>5, <4>1 DEF Before
      <4> QED BY <2>5, <4>1, <4>2, <4>3
    <3>3. ASSUME NEW j \in open PROVE i <= j
      <4>1. j \in D /\ Reaches(t[j], k) /\ t[j].upTo = None /\ j \in Nat
        BY <1>5, <1>6
      <4>2. j = i \/ Before(t, i, j)
        BY <2>2, <4>1
      <4>3. Before(t, i, j) => i < j
        BY <2>5, <4>1 DEF Before
      <4> QED BY <2>3, <4>1, <4>2, <4>3
    <3>4. Min(open) \in open /\ Min(open) <= i
      BY <1>6, <3>1, MinLemma
    <3> DEFINE l == Min(open)
    <3>5. l \in open /\ l <= i /\ l \in Nat
      BY <1>6, <3>4
    <3> HIDE DEF l
    <3>6. l = i
      BY <2>3, <3>3, <3>5
    <3> QED BY <1>3, <1>4, <2>1, <3>1, <3>2, <3>6 DEF l
  <2> QED BY <2>4, <2>5
<1>9. ASSUME \A n \in D : ~Reaches(sorted[n], k) PROVE CardTier(blocks, k) = 0
  <2>1. \A i \in D : ~Reaches(t[i], k)
    BY <1>2, <1>9
  <2>2. reach = {} /\ open = {}
    BY <1>5, <1>6, <2>1
  <2> QED BY <1>4, <2>2
<1> QED BY <1>1, <1>8, <1>9 DEF sorted, t

\* Some terms more, all of them the same.
Steady(f, c, p, r) == (\A k \in 1..c : f[k] \in Int) /\ \A k \in (c + 1)..(c + p) : f[k] = r

LEMMA SumSteady ==
  ASSUME NEW c \in Nat, NEW p \in Nat, NEW r \in Int, NEW f, Steady(f, c, p, r)
  PROVE  SumOver(1..(c + p), f) = SumOver(1..c, f) + p * r
<1> DEFINE T == {q \in Nat : q <= p => SumOver(1..(c + q), f) = SumOver(1..c, f) + q * r}
<1> USE DEF Steady
<1>0. SumOver(1..c, f) \in Int
  <2>1. c \in Int /\ 1 \in Int
    OBVIOUS
  <2>2. IsFiniteSet(1..c)
    BY <2>1, FS_Interval
  <2> QED BY <2>2, SumType
<1>1. 0 \in T
  <2>1. c + 0 = c /\ 0 * r = 0
    OBVIOUS
  <2> QED BY <1>0, <2>1
<1>2. ASSUME NEW q \in T PROVE q + 1 \in T
  <2> SUFFICES ASSUME q + 1 <= p
               PROVE  SumOver(1..(c + (q + 1)), f) = SumOver(1..c, f) + (q + 1) * r
    OBVIOUS
  <2> DEFINE d == c + q
  <2>1. q \in Nat /\ d \in Nat /\ SumOver(1..d, f) = SumOver(1..c, f) + q * r
        /\ d + 1 = c + (q + 1) /\ d + 1 \in (c + 1)..(c + p)
    OBVIOUS
  <2>2. \A k \in 1..(d + 1) : f[k] \in Int
    <3>1. \A k \in 1..(d + 1) : k \in 1..c \/ k \in (c + 1)..(c + p)
      OBVIOUS
    <3> HIDE DEF d
    <3> QED BY <3>1
  <2> HIDE DEF d, T
  <2>3. SumOver(1..(d + 1), f) = SumOver(1..d, f) + f[d + 1]
    BY <2>1, <2>2, SumNext
  <2>4. f[d + 1] = r
    BY <2>1
  <2>5. (q + 1) * r = q * r + r /\ q * r \in Int
    BY <2>1
  <2> QED BY <1>0, <2>1, <2>3, <2>4, <2>5
<1> HIDE DEF T
<1>3. T = Nat
  BY <1>1, <1>2, CountingUp DEF T
<1>4. p \in T /\ p <= p
  BY <1>3
<1> QED BY <1>4 DEF T

\* what the card asks for each kWh of a month
PerKwh(blocks) == [k \in Nat |-> CardTier(blocks, k)]

LEMMA PerKwhType ==
  ASSUME None \notin Int, NEW blocks \in CardBlocks, Len(blocks) # 1, NEW k \in Nat \ {0}
  PROVE  PerKwh(blocks)[k] \in Nat
<1> DEFINE t == TieredBlocks(blocks)
           sorted == SortedBlocks(t)
           D == DOMAIN blocks
           S == {n \in D : Reaches(sorted[n], k)}
<1>1. t \in Blocks /\ DOMAIN t = D /\ D = 1..Len(blocks) /\ Len(blocks) \in Nat
  BY TieredType
<1>2. \A n \in D : sorted[n].rate \in Nat
  <2>1. \A n \in D : sorted[n] \in Block
    <3> HIDE DEF t
    <3> QED BY <1>1, SortedType
  <2> HIDE DEF sorted
  <2> QED BY <2>1 DEF Block
<1>3. /\ \A n \in D : Reaches(sorted[n], k) /\ (\A m \in 1..(n - 1) : ~Reaches(sorted[m], k))
           => CardTier(blocks, k) = sorted[n].rate
      /\ (\A n \in D : ~Reaches(sorted[n], k)) => CardTier(blocks, k) = 0
  BY CardTierLemma
<1> HIDE DEF sorted
<1>4. CardTier(blocks, k) \in Nat
  <2>1. CASE S = {}
    BY <1>3, <2>1
  <2>2. CASE S # {}
    <3>1. S \in SUBSET Nat
      BY <1>1
    <3>2. PICK n \in S : \A m \in S : n <= m
      <4> HIDE DEF S
      <4> QED BY <2>2, <3>1, LeastNatural
    <3>3. \A m \in 1..(n - 1) : ~Reaches(sorted[m], k)
      <4> SUFFICES ASSUME NEW m \in 1..(n - 1), Reaches(sorted[m], k) PROVE FALSE
        OBVIOUS
      <4>1. n \in 1..Len(blocks) /\ n \in Nat
        BY <1>1
      <4>2. m \in Nat /\ m < n /\ m \in 1..Len(blocks)
        BY <1>1, <4>1
      <4>3. m \in S
        BY <1>1, <4>2
      <4>4. n <= m
        BY <3>2, <4>3
      <4> HIDE DEF S
      <4> QED BY <4>1, <4>2, <4>4
    <3> QED BY <1>2, <1>3, <3>2, <3>3
  <2> QED BY <2>1, <2>2
<1> QED BY <1>4 DEF PerKwh

\* Each kWh of a month is charged at the tier of the card that it falls in, in
\* whatever order the tiers are written.
THEOREM TiersFollowTheCard ==
  ASSUME None \notin Int, NEW blocks \in CardBlocks, Len(blocks) # 1, NEW kwh \in Nat
  PROVE  TierCharge(kwh, TieredBlocks(blocks)) = SumOver(1..kwh, PerKwh(blocks))
<1> DEFINE t == TieredBlocks(blocks)
           N == Len(blocks)
           sorted == SortedBlocks(t)
           f == PerKwh(blocks)
<1>1. t \in Blocks /\ DOMAIN t = 1..N /\ DOMAIN blocks = 1..N /\ Len(t) = N /\ N \in Nat
  BY TieredType
<1>2. \A k \in Nat \ {0} : f[k] \in Nat
  BY PerKwhType
<1>3. PICK g : TierWalk(kwh, t, g)
  <2>1. kwh \in Int
    OBVIOUS
  <2> HIDE DEF t
  <2> QED BY <1>1, <2>1, TierWalks
<1>4. /\ g \in [0..N -> WalkState]
      /\ g[0] = [cursor |-> 0, left |-> kwh, charge |-> 0]
      /\ \A n \in 1..N : g[n] = Walk(g[n - 1], sorted[n])
      /\ TierCharge(kwh, t) = g[N].charge
  <2>1. Positive(kwh) = kwh
    BY DEF Positive
  <2> QED BY <1>1, <1>3, <2>1 DEF TierWalk
<1>5. \A n \in 1..N : sorted[n] \in Block
  <2> HIDE DEF t
  <2> QED BY <1>1, SortedType
<1>6. ASSUME NEW k \in Nat \ {0}
      PROVE  /\ \A n \in 1..N : Reaches(sorted[n], k) /\ (\A m \in 1..(n - 1) : ~Reaches(sorted[m], k))
                  => f[k] = sorted[n].rate
             /\ (\A n \in 1..N : ~Reaches(sorted[n], k)) => f[k] = 0
  BY <1>1, CardTierLemma DEF PerKwh
<1> HIDE DEF t, N, sorted, f
<1> DEFINE Passed(n) == \A m \in 1..n : sorted[m].upTo # None /\ sorted[m].upTo <= g[n].cursor
           Placed(n) == /\ g[n].cursor + g[n].left = kwh
                        /\ g[n].charge = SumOver(1..g[n].cursor, f)
                        /\ g[n].left > 0 => Passed(n)
           T == {n \in Nat : n \in 0..N => Placed(n)}
<1>7. 0 \in T
  <2>1. g[0].cursor = 0 /\ g[0].left = kwh /\ g[0].charge = 0
    BY <1>4
  <2>2. SumOver(1..0, f) = 0
    <3>1. 1..0 = {}
      OBVIOUS
    <3> QED BY <3>1, SumEmpty
  <2>3. Passed(0)
    OBVIOUS
  <2> HIDE DEF Passed
  <2> QED BY <2>1, <2>2, <2>3
<1>8. ASSUME NEW n \in T PROVE n + 1 \in T
  <2> SUFFICES ASSUME n + 1 \in 0..N PROVE Placed(n + 1)
    OBVIOUS
  <2> DEFINE j == n + 1
             block == sorted[j]
             a == g[n]
             b == g[j]
  <2>1. n \in Nat /\ j \in 1..N /\ j - 1 = n /\ n \in 0..N /\ j \in 0..N
    BY <1>1
  <2>2. Placed(n)
    BY <2>1
  <2>3. a \in WalkState /\ b \in WalkState /\ block \in Block /\ b = Walk(a, block)
    <3> HIDE DEF j, T, Placed
    <3> QED BY <1>4, <1>5, <2>1
  <2>4. PICK p \in 0..a.left :
          /\ Walk(a, block) = [cursor |-> a.cursor + p, left |-> a.left - p,
                               charge |-> a.charge + p * block.rate]
          /\ block.upTo = None => p = a.left
          /\ block.upTo # None => p = Positive(Least(a.left, block.upTo - a.cursor))
    <3> HIDE DEF a, block
    <3> QED BY <2>3, WalkPortion
  <2>5. /\ a.left \in Nat /\ a.cursor \in Nat /\ block.rate \in Nat /\ p \in Nat /\ p <= a.left
        /\ block.upTo # None => block.upTo \in Nat
        /\ b.cursor = a.cursor + p /\ b.left = a.left - p /\ b.charge = a.charge + p * block.rate
    BY <2>3, <2>4 DEF WalkState, Block
  <2>6. a.cursor + a.left = kwh /\ a.charge = SumOver(1..a.cursor, f)
        /\ (a.left > 0 => \A m \in 1..n : sorted[m].upTo # None /\ sorted[m].upTo <= a.cursor)
    BY <2>2
  <2>7. \A m \in 1..j : m \in 1..n \/ m = j
    BY <2>1
  <2>8. \A m \in 1..n : m \in 1..N
    BY <1>1, <2>1
  <2> HIDE DEF a, b, block, Placed, T
  <2>9. ASSUME NEW k \in (a.cursor + 1)..(a.cursor + p) PROVE f[k] = block.rate
    <3>1. k \in Nat \ {0} /\ a.cursor < k /\ k <= a.cursor + p /\ a.left > 0 /\ p > 0
      BY <2>5
    <3>2. Reaches(block, k)
      <4>1. CASE block.upTo = None
        BY <4>1 DEF Reaches
      <4>2. CASE block.upTo # None
        <5>1. p = Positive(Least(a.left, block.upTo - a.cursor)) /\ block.upTo \in Nat
          BY <2>4, <2>5, <4>2
        <5>2. p <= block.upTo - a.cursor
          BY <2>5, <3>1, <5>1 DEF Positive, Least
        <5>3. block.upTo >= k
          BY <2>5, <3>1, <5>1, <5>2
        <5> QED BY <5>3 DEF Reaches
      <4> QED BY <4>1, <4>2
    <3>3. \A m \in 1..(j - 1) : ~Reaches(sorted[m], k)
      <4> SUFFICES ASSUME NEW m \in 1..n PROVE ~Reaches(sorted[m], k)
        BY <2>1
      <4>1. sorted[m].upTo # None /\ sorted[m].upTo <= a.cursor
        BY <2>6, <3>1
      <4>2. sorted[m].upTo \in Nat
        BY <1>5, <2>8, <4>1 DEF Block
      <4> QED BY <2>5, <3>1, <4>1, <4>2 DEF Reaches
    <3> HIDE DEF j
    <3> QED BY <1>6, <2>1, <3>1, <3>2, <3>3 DEF block
  <2>10. b.cursor + b.left = kwh
    BY <2>5, <2>6
  <2>11. b.charge = SumOver(1..b.cursor, f)
    <3>1. \A k \in 1..a.cursor : f[k] \in Int
      BY <1>2
    <3>2. block.rate \in Int
      BY <2>5
    <3>3. SumOver(1..(a.cursor + p), f) = SumOver(1..a.cursor, f) + p * block.rate
      <4> DEFINE c == a.cursor
                 r == block.rate
      <4>1. c \in Nat /\ p \in Nat /\ r \in Int /\ Steady(f, c, p, r)
        BY <2>5, <2>9, <3>1, <3>2 DEF Steady
      <4> HIDE DEF c, r
      <4>2. SumOver(1..(c + p), f) = SumOver(1..c, f) + p * r
        BY <4>1, SumSteady
      <4> QED BY <4>2 DEF c, r
    <3> QED BY <2>5, <2>6, <3>3
  <2>12. ASSUME b.left > 0, NEW m \in 1..j
         PROVE  sorted[m].upTo # None /\ sorted[m].upTo <= b.cursor
    <3>1. a.left > 0 /\ p < a.left
      BY <2>5, <2>12
    <3>2. block.upTo # None /\ block.upTo \in Nat
      BY <2>4, <2>5, <3>1
    <3>3. block.upTo <= a.cursor + p
      <4>1. p = Positive(Least(a.left, block.upTo - a.cursor))
        BY <2>4, <3>2
      <4> QED BY <2>5, <3>1, <3>2, <4>1 DEF Positive, Least
    <3>4. CASE m = j
      BY <2>5, <3>2, <3>3, <3>4 DEF block
    <3>5. CASE m \in 1..n
      <4>1. sorted[m].upTo # None /\ sorted[m].upTo <= a.cursor
        BY <2>6, <3>1, <3>5
      <4>2. sorted[m].upTo \in Nat
        BY <1>5, <2>8, <3>5, <4>1 DEF Block
      <4> QED BY <2>5, <4>1, <4>2
    <3> QED BY <2>7, <3>4, <3>5
  <2> QED BY <2>10, <2>11, <2>12 DEF Placed, b
<1> HIDE DEF T
<1>9. T = Nat
  BY <1>7, <1>8, CountingUp DEF T
<1>10. Placed(N)
  BY <1>1, <1>9 DEF T
<1> DEFINE w == g[N]
<1>11. w \in WalkState
  <2>1. N \in 0..N
    BY <1>1
  <2> QED BY <1>4, <2>1
<1>12. /\ w.cursor \in Nat /\ w.left \in Nat
       /\ w.cursor + w.left = kwh /\ w.charge = SumOver(1..w.cursor, f)
       /\ w.left > 0 => \A m \in 1..N : sorted[m].upTo # None /\ sorted[m].upTo <= w.cursor
  BY <1>10, <1>11 DEF WalkState
<1> HIDE DEF w, Placed
<1>13. ASSUME NEW k \in (w.cursor + 1)..(w.cursor + w.left) PROVE f[k] = 0
  <2>1. k \in Nat \ {0} /\ w.cursor < k /\ w.left > 0
    BY <1>12
  <2>2. ASSUME NEW m \in 1..N PROVE ~Reaches(sorted[m], k)
    <3>1. sorted[m].upTo # None /\ sorted[m].upTo <= w.cursor
      BY <1>12, <2>1
    <3>2. sorted[m].upTo \in Nat
      BY <1>5, <3>1 DEF Block
    <3> QED BY <1>12, <2>1, <3>1, <3>2 DEF Reaches
  <2> QED BY <1>6, <2>1, <2>2
<1>14. SumOver(1..kwh, f) = SumOver(1..w.cursor, f)
  <2> DEFINE c == w.cursor
             p == w.left
  <2>1. /\ c \in Nat /\ p \in Nat /\ c \in Int /\ c + p = kwh /\ 0 \in Int /\ 1 \in Int
        /\ Steady(f, c, p, 0) /\ \A k \in 1..c : f[k] \in Int
    BY <1>2, <1>12, <1>13 DEF Steady
  <2> HIDE DEF c, p
  <2>2. SumOver(1..(c + p), f) = SumOver(1..c, f) + p * 0
    BY <2>1, SumSteady
  <2>3. SumOver(1..c, f) \in Int
    <3>1. IsFiniteSet(1..c)
      BY <2>1, FS_Interval
    <3> QED BY <2>1, <3>1, SumType
  <2>4. SumOver(1..kwh, f) = SumOver(1..c, f)
    BY <2>1, <2>2, <2>3
  <2> QED BY <2>4 DEF c
<1> QED BY <1>4, <1>12, <1>14 DEF w, t, f

\* What a card becomes.
LEMMA ParsedLemma ==
  ASSUME NEW card, RateCard(card), ~Malformed(card)
  PROVE  LET s == Parsed(card)
             blocks == card.structure[1]
         IN /\ blocks \in CardBlocks
            /\ IsTou(card) => s.structure = "tou" /\ s.periods = TouPeriods(card)
            /\ ~IsTou(card) /\ Len(blocks) = 1 => s.structure = "flat" /\ s.rate = blocks[1].rate
            /\ ~IsTou(card) /\ Len(blocks) # 1 =>
                 s.structure = "tiered" /\ s.blocks = TieredBlocks(blocks)
            /\ ~IsTou(card) => Len(blocks) > 0
<1> DEFINE blocks == card.structure[1]
           s == Parsed(card)
<1>1. card.structure \in Seq(CardBlocks) /\ card.structure # <<>>
  BY DEF RateCard, CardBlocks, Malformed
<1>2. blocks \in CardBlocks
  <2>1. 1 \in DOMAIN card.structure
    <3> HIDE DEF blocks
    <3> QED BY <1>1
  <2> QED BY <1>1, <2>1, Element
<1>3. ~IsTou(card) => blocks # <<>>
  BY DEF Malformed
<1>4. ~IsTou(card) => Len(blocks) > 0
  <2> HIDE DEF blocks
  <2> QED BY <1>2, <1>3 DEF CardBlocks
<1>5. IsTou(card) => s.structure = "tou" /\ s.periods = TouPeriods(card)
  BY DEF Parsed
<1>6. ~IsTou(card) /\ Len(blocks) = 1 => s.structure = "flat" /\ s.rate = blocks[1].rate
  BY DEF Parsed
<1>7. ~IsTou(card) /\ Len(blocks) # 1 => s.structure = "tiered" /\ s.blocks = TieredBlocks(blocks)
  BY DEF Parsed
<1> QED BY <1>2, <1>4, <1>5, <1>6, <1>7

\* Terms that are zero may be left out.
LEMMA SumRest ==
  ASSUME NEW S, IsFiniteSet(S), NEW U \in SUBSET S, NEW f, \A x \in S : f[x] \in Int,
         \A x \in S \ U : f[x] = 0
  PROVE  SumOver(S, f) = SumOver(U, f)
<1> DEFINE V == S \ U
<1>1. IsFiniteSet(U) /\ IsFiniteSet(V)
  BY FS_Subset
<1>2. U \cap V = {} /\ \A x \in V : f[x] = 0 /\ f[x] \in Int
  OBVIOUS
<1>6. S = U \cup V
  OBVIOUS
<1> HIDE DEF V
<1>3. SumOver(V, f) = 0 * SumOver(V, f)
  <2>1. 0 \in Int /\ \A x \in V : f[x] \in Int /\ f[x] = 0 * f[x]
    BY <1>2
  <2> QED BY <1>1, <2>1, SumTimes
<1>4. SumOver(V, f) \in Int /\ SumOver(U, f) \in Int
  BY <1>1, <1>2, SumType
<1>5. SumOver(U \cup V, f) = SumOver(U, f) + SumOver(V, f)
  BY <1>1, <1>2, SumUnion
<1>7. SumOver(V, f) = 0
  <2> DEFINE v == SumOver(V, f)
  <2>1. v = 0 * v /\ v \in Int
    BY <1>3, <1>4
  <2> HIDE DEF v
  <2>2. v = 0
    BY <2>1
  <2> QED BY <2>2 DEF v
<1>8. SumOver(S, f) = SumOver(U, f) + SumOver(V, f)
  BY <1>5, <1>6
<1> QED
  <2> DEFINE u == SumOver(U, f)
             v == SumOver(V, f)
             w == SumOver(S, f)
  <2>1. w = u + v /\ v = 0 /\ u \in Int
    BY <1>4, <1>7, <1>8
  <2> HIDE DEF u, v, w
  <2>2. w = u
    BY <2>1
  <2> QED BY <2>2 DEF u, w

\* A month's energy charge under the schedule is what the card asks for it.
THEOREM ChargeFollowsTheCard ==
  ASSUME None \notin Int, NEW card, RateCard(card), ~Malformed(card), Parsed(card) \in Schedule,
         NEW net \in [Hour -> Int], ~Uncovered(Parsed(card), ImportOf(net)), NEW m \in Month
  PROVE  EnergyCharge(Parsed(card), net, m) = CardCharge(card, ImportOf(net), m)
<1> DEFINE s == Parsed(card)
           blocks == card.structure[1]
           kwh == ImportOf(net)
           used == {h \in HoursOf(m) : kwh[h] > 0}
           S == HoursOf(m)
           f == AtRate(s, kwh)
           total == MonthKwh(kwh, m)
<1>1. /\ blocks \in CardBlocks
      /\ IsTou(card) => s.structure = "tou" /\ s.periods = TouPeriods(card)
      /\ ~IsTou(card) /\ Len(blocks) = 1 => s.structure = "flat" /\ s.rate = blocks[1].rate
      /\ ~IsTou(card) /\ Len(blocks) # 1 => s.structure = "tiered" /\ s.blocks = TieredBlocks(blocks)
      /\ ~IsTou(card) => Len(blocks) > 0
  BY ParsedLemma
<1>2. kwh \in [Hour -> Nat] /\ total \in Nat
  BY FlowTypes, KwhType
<1>3. IsFiniteSet(S) /\ S \subseteq Hour /\ used \in SUBSET S
  BY HoursAreFinite
<1>4. s \in Schedule /\ ~Uncovered(s, kwh)
  OBVIOUS
<1>5. ~IsTou(card) => CardCharge(card, kwh, m) = SumOver(1..total, PerKwh(blocks))
  BY DEF CardCharge, PerKwh
<1>6. s.structure # "tiered" =>
        /\ EnergyCharge(s, net, m) = SumOver(S, f)
        /\ \A h \in S : f[h] \in Nat
        /\ \A h \in Hour : f[h] = IF kwh[h] > 0 THEN kwh[h] * RateAt(s, h) ELSE 0
        /\ \A h \in used : RateAt(s, h) \in Nat
  <2> SUFFICES ASSUME s.structure # "tiered"
               PROVE  /\ EnergyCharge(s, net, m) = SumOver(S, f)
                      /\ \A h \in S : f[h] \in Nat
                      /\ \A h \in Hour : f[h] = IF kwh[h] > 0 THEN kwh[h] * RateAt(s, h) ELSE 0
                      /\ \A h \in used : RateAt(s, h) \in Nat
    OBVIOUS
  <2>1. EnergyCharge(s, net, m) = SumOver(S, f)
    BY DEF EnergyCharge, AtRates, AtRate
  <2>2. \A h \in Hour : f[h] = IF kwh[h] > 0 THEN kwh[h] * RateAt(s, h) ELSE 0
    BY DEF AtRate
  <2> HIDE DEF s, kwh, f
  <2>3. AtRate(s, kwh) \in [Hour -> Nat] /\ \A h \in Hour : kwh[h] > 0 => RateAt(s, h) \in Nat
    BY <1>2, <1>4, AtRateType
  <2>4. \A h \in S : f[h] \in Nat
    <3> HIDE DEF S, used
    <3> QED BY <1>3, <2>3 DEF f
  <2>5. \A h \in used : h \in Hour /\ kwh[h] > 0
    BY <1>3
  <2> HIDE DEF used, S
  <2> QED BY <2>1, <2>2, <2>3, <2>4, <2>5
<1>7. CASE IsTou(card)
  <2> DEFINE F == [h \in used |-> kwh[h] * CardRate(card, Calendar[h])]
  <2>1. ASSUME NEW h \in used PROVE CardRate(card, Calendar[h]) = RateAt(s, h) /\ h \in Hour /\ kwh[h] > 0
    <3>1. h \in Hour /\ kwh[h] > 0
      BY <1>3
    <3>2. TouRate(TouPeriods(card), Calendar[h]) = CardRate(card, Calendar[h])
      BY <1>7, <3>1, BandsFollowTheCard
    <3>3. RateAt(s, h) = TouRate(s.periods, Calendar[h])
      BY <1>1, <1>7 DEF RateAt
    <3> QED BY <1>1, <1>7, <3>1, <3>2, <3>3
  <2>2. /\ s.structure # "tiered"
    BY <1>1, <1>7
  <2>3. ~\E h \in used : CardRate(card, Calendar[h]) = None
    <3>1. \A h \in used : RateAt(s, h) \in Nat
      BY <1>6, <2>2
    <3> HIDE DEF used, s
    <3> QED BY <2>1, <3>1
  <2>4. CardCharge(card, kwh, m) = SumOver(used, F)
    BY <1>7, <2>3 DEF CardCharge
  <2>5. \A h \in used : F[h] = kwh[h] * CardRate(card, Calendar[h])
    OBVIOUS
  <2>6. \A h \in S \ used : h \in Hour /\ ~(kwh[h] > 0)
    BY <1>3
  <2> HIDE DEF F, used, S, s, kwh, f
  <2>7. \A h \in used : f[h] = F[h] /\ f[h] \in Int
    <3>1. ASSUME NEW h \in used PROVE f[h] = F[h] /\ f[h] \in Int
      <4>1. f[h] = kwh[h] * RateAt(s, h) /\ F[h] = kwh[h] * RateAt(s, h)
        BY <1>6, <2>1, <2>2, <2>5
      <4>2. f[h] \in Int
        <5>1. h \in S
          BY <1>3
        <5>2. f[h] \in Nat
          BY <1>6, <2>2, <5>1
        <5> QED BY <5>2
      <4> QED BY <4>1, <4>2
    <3> QED BY <3>1
  <2>8. SumOver(used, f) = SumOver(used, F)
    <3>1. IsFiniteSet(used)
      BY <1>3, FS_Subset
    <3> QED BY <2>7, <3>1, SumSame
  <2>9. SumOver(S, f) = SumOver(used, f)
    <3>1. \A h \in S : f[h] \in Int
      BY <1>6, <2>2
    <3>2. \A h \in S \ used : f[h] = 0
      BY <1>6, <2>2, <2>6
    <3> QED BY <1>3, <3>1, <3>2, SumRest
  <2> QED BY <1>6, <2>2, <2>4, <2>8, <2>9 DEF s, kwh
<1>8. CASE ~IsTou(card) /\ Len(blocks) = 1
  <2> DEFINE r == blocks[1].rate
             one == [k \in Nat |-> r]
  <2>1. s.structure = "flat" /\ s.rate = r /\ s.structure # "tiered"
    BY <1>1, <1>8
  <2>2. r \in Nat
    <3> DEFINE R == [max : Nat \cup {None}, rate : Nat]
    <3>1. blocks \in Seq(R) /\ Len(blocks) = 1
      BY <1>1, <1>8 DEF CardBlocks
    <3>2. blocks[1] \in R
      <4> HIDE DEF R, blocks
      <4>1. 1 \in DOMAIN blocks
        BY <3>1
      <4> QED BY <3>1, <4>1, Element
    <3> QED BY <3>2
  <2>3. \A h \in Hour : RateAt(s, h) = r
    BY <2>1 DEF RateAt
  <2>4. \A h \in S : kwh[h] \in Int /\ f[h] = r * kwh[h]
    <3>1. \A h \in S : h \in Hour /\ kwh[h] \in Nat
      <4> HIDE DEF S, kwh
      <4> QED BY <1>2, <1>3
    <3> HIDE DEF S, kwh, s, f, r
    <3>2. ASSUME NEW h \in S PROVE kwh[h] \in Int /\ f[h] = r * kwh[h]
      <4>1. h \in Hour /\ kwh[h] \in Nat
        BY <3>1
      <4>2. f[h] = IF kwh[h] > 0 THEN kwh[h] * r ELSE 0
        BY <1>6, <2>1, <2>3, <4>1
      <4>3. \A a, b \in Nat : (IF a > 0 THEN a * b ELSE 0) = b * a
        OBVIOUS
      <4> QED BY <2>2, <4>1, <4>2, <4>3
    <3> QED BY <3>2
  <2>5. SumOver(S, f) = r * total
    <3> HIDE DEF S, f, kwh, r
    <3>1. r \in Int
      BY <2>2
    <3>2. SumOver(S, f) = r * SumOver(S, kwh)
      BY <1>3, <2>4, <3>1, SumTimes
    <3> QED BY <3>2 DEF MonthKwh, S
  <2>6. \A k \in Nat : PerKwh(blocks)[k] = r
    BY <1>8 DEF PerKwh, CardTier
  <2> DEFINE g == PerKwh(blocks)
             n == 0 + total
  <2> HIDE DEF r, g, total, blocks, s, kwh, f, S
  <2>7. SumOver(1..n, g) = SumOver(1..0, g) + total * r
    <3>1. Steady(g, 0, total, r)
      BY <1>2, <2>2, <2>6 DEF Steady, g
    <3>2. 0 \in Nat /\ total \in Nat /\ r \in Int
      BY <1>2, <2>2
    <3> QED BY <3>1, <3>2, SumSteady
  <2>8. SumOver(1..0, g) = 0
    <3>1. 1..0 = {}
      OBVIOUS
    <3> QED BY <3>1, SumEmpty
  <2>9. n = total /\ total * r = r * total /\ total * r \in Int
    BY <1>2, <2>2
  <2>10. SumOver(1..total, g) = r * total
    BY <2>7, <2>8, <2>9
  <2>11. EnergyCharge(s, net, m) = r * total
    BY <1>6, <2>1, <2>5
  <2>12. CardCharge(card, kwh, m) = r * total
    BY <1>5, <1>8, <2>10 DEF g
  <2>13. EnergyCharge(s, net, m) = CardCharge(card, kwh, m)
    BY <2>11, <2>12
  <2> QED BY <2>13 DEF s, kwh
<1>9. CASE ~IsTou(card) /\ Len(blocks) # 1
  <2>1. s.structure = "tiered" /\ s.blocks = TieredBlocks(blocks)
    BY <1>1, <1>9
  <2>2. EnergyCharge(s, net, m) = TierCharge(total, TieredBlocks(blocks))
    BY <2>1 DEF EnergyCharge
  <2>3. blocks \in CardBlocks /\ Len(blocks) # 1 /\ total \in Nat
    BY <1>1, <1>2, <1>9
  <2> HIDE DEF blocks, total, s, kwh
  <2>4. TierCharge(total, TieredBlocks(blocks)) = SumOver(1..total, PerKwh(blocks))
    BY <2>3, TiersFollowTheCard
  <2>5. EnergyCharge(s, net, m) = CardCharge(card, kwh, m)
    BY <1>5, <1>9, <2>2, <2>4
  <2> QED BY <2>5 DEF s, kwh
<1> QED BY <1>7, <1>8, <1>9

\* What net metering refunds on a tiered card: the kWh it took away, at the
\* card's rates.
LEMMA RefundFollowsTheCard ==
  ASSUME None \notin Int, NEW blocks \in CardBlocks, Len(blocks) # 1, Len(blocks) > 0,
         NEW from \in Nat, NEW to \in Nat, from <= to
  PROVE  TierCharge(to, TieredBlocks(blocks)) - TierCharge(from, TieredBlocks(blocks))
           = SumOver((from + 1)..to, PerKwh(blocks))
<1> DEFINE T == TieredBlocks(blocks)
           f == PerKwh(blocks)
           A == 1..from
           B == (from + 1)..to
<1>1. TierCharge(to, T) = SumOver(1..to, f) /\ TierCharge(from, T) = SumOver(A, f)
  BY TiersFollowTheCard
<1>2. \A k \in Nat \ {0} : f[k] \in Nat
  BY PerKwhType
<1>3. 1 \in Int /\ from \in Int /\ to \in Int /\ from + 1 \in Int
  OBVIOUS
<1>4. IsFiniteSet(A) /\ IsFiniteSet(B)
  BY <1>3, FS_Interval
<1>5. A \cap B = {} /\ A \cup B = 1..to /\ A \subseteq Nat \ {0} /\ B \subseteq Nat \ {0}
  BY <1>3
<1>6. \A k \in A \cup B : f[k] \in Int
  <2> HIDE DEF f, A, B
  <2> QED BY <1>2, <1>5
<1>7. SumOver(A, f) \in Int /\ SumOver(B, f) \in Int /\ SumOver(A \cup B, f) = SumOver(A, f) + SumOver(B, f)
  <2> HIDE DEF f, A, B
  <2>1. (\A k \in A : f[k] \in Int) /\ (\A k \in B : f[k] \in Int)
    BY <1>6
  <2> QED BY <1>4, <1>5, <1>6, <2>1, SumType, SumUnion
<1> DEFINE a == SumOver(A, f)
           b == SumOver(B, f)
<1>8. TierCharge(to, T) = a + b /\ TierCharge(from, T) = a /\ a \in Int /\ b \in Int
  BY <1>1, <1>5, <1>7
<1> DEFINE x == TierCharge(to, T)
           y == TierCharge(from, T)
<1>9. x = a + b /\ y = a /\ a \in Int /\ b \in Int
  BY <1>8
<1> HIDE DEF x, y, a, b
<1>10. x - y = b
  BY <1>9
<1> QED BY <1>10 DEF x, y, b
=============================================================================
