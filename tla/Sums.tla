--------------------------------- MODULE Sums ---------------------------------
(***************************************************************************)
(* Facts about smallest elements and about the sums the models take with     *)
(* MapThenSumSet.  An induction over the natural numbers or over the subsets *)
(* of a finite set is put as the choice of a smallest counterexample.        *)
(***************************************************************************)
EXTENDS FiniteSetsExt, FiniteSetTheorems, WellFoundedInduction, TLAPS

\* A set of natural numbers that is not empty has a smallest element.
LEMMA NatMin ==
    ASSUME NEW S, S \subseteq Nat, S # {}
    PROVE  \E x \in S : \A y \in S : x <= y
<1>1. PICK R : /\ IsWellFoundedOn(R, Nat)
               /\ \A x, y \in Nat : <<y, x>> \in R <=> y < x
  <2>1. \A x, y \in Nat : <<y, x>> \in OpToRel(<, Nat) <=> y < x
    BY DEF OpToRel
  <2> QED BY <2>1, NatLessThanWellFounded
<1>2. PICK x \in S : \A y \in S : ~ (<<y, x>> \in R)
  BY <1>1, WFMin
<1>3. ASSUME NEW y \in S  PROVE x <= y
  <2>1. x \in Nat /\ y \in Nat
    OBVIOUS
  <2>2. ~ (y < x)
    BY <1>1, <1>2, <2>1, Zenon
  <2> QED BY <2>1, <2>2
<1> QED BY <1>3

\* A set of subsets of a finite set that is not empty has a smallest one.
LEMMA SubsetMin ==
    ASSUME NEW T, IsFiniteSet(T), NEW B, B \subseteq SUBSET T, B # {}
    PROVE  \E s \in B : \A u \in B : u \subseteq s => u = s
<1> DEFINE R == StrictSubsetOrdering(T)
<1>1. IsWellFoundedOn(R, SUBSET T)
  BY FS_StrictSubsetOrderingWellFounded, FS_FiniteSubsetsOfFinite
<1> HIDE DEF R
<1>2. PICK s \in B : \A u \in B : ~ (<<u, s>> \in R)
  BY <1>1, WFMin
<1>3. ASSUME NEW u \in B, u \subseteq s, u # s  PROVE FALSE
  <2>1. <<u, s>> \in R
    BY <1>3 DEF R, StrictSubsetOrdering
  <2> QED BY <1>2, <2>1
<1> QED BY <1>3

-----------------------------------------------------------------------------
(* The recursion of MapThenSumSet *)

Pick(s) == CHOOSE x \in s : TRUE

\* g maps each subset of T to the sum of f over it.
SumRec(g, f, T) ==
    g = [s \in SUBSET T |-> IF s = {} THEN 0 ELSE f[Pick(s)] + g[s \ {Pick(s)}]]

LEMMA PickOne == ASSUME NEW s, s # {} PROVE Pick(s) \in s
BY Zenon DEF Pick

LEMMA SumRecEmpty ==
    ASSUME NEW T, NEW f, NEW g, SumRec(g, f, T)
    PROVE  g[{}] = 0
BY DEF SumRec

\* The sum is that over one that is picked and the others.
LEMMA SumRecUnfold ==
    ASSUME NEW T, NEW f, NEW g, SumRec(g, f, T), NEW s \in SUBSET T, s # {}
    PROVE  /\ Pick(s) \in s /\ s \ {Pick(s)} \in SUBSET T
           /\ s \ {Pick(s)} # s
           /\ g[s] = f[Pick(s)] + g[s \ {Pick(s)}]
<1>1. Pick(s) \in s
  BY PickOne
<1>2. g[s] = IF s = {} THEN 0 ELSE f[Pick(s)] + g[s \ {Pick(s)}]
  BY DEF SumRec
<1> QED BY <1>1, <1>2

\* The sum over a set depends on the values of f on it only.
LEMMA SumRecSame ==
    ASSUME NEW T, IsFiniteSet(T), NEW f, NEW g, SumRec(g, f, T),
           NEW U, NEW e, NEW h, SumRec(h, e, U),
           NEW s \in SUBSET T, s \subseteq U, \A x \in s : f[x] = e[x]
    PROVE  g[s] = h[s]
<1> DEFINE B == {u \in SUBSET s : g[u] # h[u]}
<1>1. SUFFICES ASSUME B # {} PROVE FALSE
  OBVIOUS
<1>0. IsFiniteSet(s) /\ B \subseteq SUBSET s
  BY FS_Subset
<1> HIDE DEF B
<1>2. PICK u \in B : \A v \in B : v \subseteq u => v = u
  BY <1>1, <1>0, SubsetMin
<1>3. u \in SUBSET T /\ u \in SUBSET U /\ u \subseteq s /\ g[u] # h[u]
  BY DEF B
<1> DEFINE p == Pick(u)
           r == u \ {Pick(u)}
<1>4. u # {} => /\ p \in u /\ r # u
                /\ g[u] = f[p] + g[r] /\ h[u] = e[p] + h[r]
  BY <1>3, SumRecUnfold
<1>5. u = {} => g[u] = 0 /\ h[u] = 0
  BY SumRecEmpty
<1>6. r \subseteq u /\ r \in SUBSET s
  BY <1>3
<1>7. u # {} => g[r] = h[r]
  BY <1>2, <1>4, <1>6 DEF B
<1>8. p \in u => f[p] = e[p]
  BY <1>3
<1> HIDE DEF p, r, B
<1> QED BY <1>3, <1>4, <1>5, <1>7, <1>8

\* Such a g exists for every finite set.
LEMMA SumRecExists ==
    ASSUME NEW T, IsFiniteSet(T), NEW f
    PROVE  \E g : SumRec(g, f, T)
<1> DEFINE B == {u \in SUBSET T : ~ \E g : SumRec(g, f, u)}
<1>1. SUFFICES ASSUME B # {} PROVE FALSE
  OBVIOUS
<1>0. B \subseteq SUBSET T
  OBVIOUS
<1> HIDE DEF B
<1>2. PICK t \in B : \A v \in B : v \subseteq t => v = t
  BY <1>1, <1>0, SubsetMin
<1>3. t \in SUBSET T /\ IsFiniteSet(t) /\ ~ \E g : SumRec(g, f, t)
  BY FS_Subset DEF B
<1>4. \A v \in SUBSET t : v # t => \E g : SumRec(g, f, v)
  BY <1>2, <1>3 DEF B
<1> DEFINE G(v) == CHOOSE g : SumRec(g, f, v)
           rest(v) == v \ {Pick(v)}
           step(v) == IF v = {} THEN 0 ELSE f[Pick(v)] + G(rest(v))[rest(v)]
           h == [v \in SUBSET t |-> step(v)]
<1>5. \A v \in SUBSET t : v # t => SumRec(G(v), f, v)
  BY <1>4, Zenon
<1> HIDE DEF G
<1>6. ASSUME NEW v \in SUBSET t, v # {}  PROVE h[rest(v)] = G(rest(v))[rest(v)]
  <2> DEFINE r == rest(v)
  <2>1. r \in SUBSET t /\ r # t /\ IsFiniteSet(r)
    BY <1>3, <1>6, PickOne, FS_Subset
  <2>2. SumRec(G(r), f, r)
    BY <1>5, <2>1
  <2>3. h[r] = step(r)
    BY <2>1
  <2>4. CASE r = {}
    <3>1. G(r)[r] = 0
      <4> HIDE DEF r
      <4> QED BY <2>2, <2>4, SumRecEmpty
    <3> QED BY <2>3, <2>4, <3>1
  <2>5. CASE r # {}
    <3> DEFINE q == rest(r)
    <3>1. /\ G(r)[r] = f[Pick(r)] + G(r)[q] /\ q \in SUBSET r
      <4> HIDE DEF r
      <4>1. r \in SUBSET r
        OBVIOUS
      <4> QED BY <2>2, <2>5, <4>1, SumRecUnfold
    <3>2. q \in SUBSET t /\ q # t
      BY <2>1
    <3>3. SumRec(G(q), f, q)
      BY <1>5, <3>2
    <3>4. G(r)[q] = G(q)[q]
      BY <2>1, <2>2, <3>1, <3>3, SumRecSame
    <3> QED BY <2>3, <2>5, <3>1, <3>4
  <2> QED BY <2>4, <2>5
<1>7. h = [v \in SUBSET t |-> IF v = {} THEN 0 ELSE f[Pick(v)] + h[rest(v)]]
  <2>1. ASSUME NEW v \in SUBSET t
        PROVE  step(v) = IF v = {} THEN 0 ELSE f[Pick(v)] + h[rest(v)]
    BY <1>6
  <2> HIDE DEF step, rest
  <2> QED BY <2>1
<1> QED BY <1>3, <1>7 DEF SumRec

LEMMA SumRecType ==
    ASSUME NEW T, IsFiniteSet(T), NEW f, NEW g, SumRec(g, f, T),
           NEW V, V = Nat \/ V = Int, NEW s \in SUBSET T, \A x \in s : f[x] \in V
    PROVE  g[s] \in V
<1> DEFINE B == {u \in SUBSET s : g[u] \notin V}
<1>1. SUFFICES ASSUME B # {} PROVE FALSE
  OBVIOUS
<1>2. IsFiniteSet(s) /\ B \subseteq SUBSET s
  BY FS_Subset
<1> HIDE DEF B
<1>3. PICK u \in B : \A v \in B : v \subseteq u => v = u
  BY <1>1, <1>2, SubsetMin
<1>4. u \in SUBSET T /\ u \subseteq s /\ g[u] \notin V
  BY DEF B
<1>5. u # {}
  BY <1>4, SumRecEmpty
<1> DEFINE p == Pick(u)
           r == u \ {Pick(u)}
<1>6. p \in u /\ r # u /\ g[u] = f[p] + g[r]
  BY <1>4, <1>5, SumRecUnfold
<1>7. r \subseteq u /\ r \in SUBSET s
  BY <1>4
<1>8. g[r] \in V
  BY <1>3, <1>6, <1>7 DEF B
<1>9. f[p] \in V
  BY <1>4, <1>6
<1> HIDE DEF p, r
<1> QED BY <1>4, <1>6, <1>8, <1>9

\* Any element may be taken out first.
LEMMA SumRecRemove ==
    ASSUME NEW T, IsFiniteSet(T), NEW f, NEW g, SumRec(g, f, T),
           NEW s \in SUBSET T, NEW x \in s, \A y \in s : f[y] \in Int
    PROVE  g[s] = f[x] + g[s \ {x}]
<1> DEFINE B == {u \in SUBSET s : \E y \in u : g[u] # f[y] + g[u \ {y}]}
<1>1. SUFFICES ASSUME B # {} PROVE FALSE
  OBVIOUS
<1>2. IsFiniteSet(s) /\ B \subseteq SUBSET s
  BY FS_Subset
<1> HIDE DEF B
<1>3. PICK u \in B : \A v \in B : v \subseteq u => v = u
  BY <1>1, <1>2, SubsetMin
<1>4. PICK y \in u : g[u] # f[y] + g[u \ {y}]
  BY DEF B
<1>5. u \in SUBSET T /\ u \subseteq s /\ u # {}
  BY DEF B
<1> DEFINE p == Pick(u)
           r == u \ {Pick(u)}
<1>6. p \in u /\ r # u /\ g[u] = f[p] + g[r]
  <2>1. u \in SUBSET T /\ u # {}
    BY <1>5
  <2> HIDE <1>1, <1>2, <1>3, <1>4, <1>5
  <2> QED BY <2>1, SumRecUnfold
<1> DEFINE q == u \ {y}
           m == r \ {y}
<1>7. y # p
  BY <1>4, <1>6
<1>8. g[r] = f[y] + g[m]
  <2>1. r \subseteq u /\ r \in SUBSET s /\ y \in r
    BY <1>5, <1>7
  <2> QED BY <1>3, <1>6, <2>1 DEF B
<1>9. g[q] = f[p] + g[m]
  <2>1. q \subseteq u /\ q \in SUBSET s /\ p \in q /\ q # u /\ q \ {p} = m
    BY <1>5, <1>6, <1>7
  <2>2. g[q] = f[p] + g[q \ {p}]
    BY <1>3, <2>1 DEF B
  <2> QED BY <2>1, <2>2
<1>10. f[y] \in Int /\ f[p] \in Int /\ g[m] \in Int
  <2>1. m \in SUBSET T /\ \A z \in m : f[z] \in Int
    BY <1>5
  <2> QED BY <1>5, <1>6, <2>1, SumRecType
<1> HIDE DEF p, r, q, m
<1>11. g[u] # f[y] + g[q]
  BY <1>4 DEF q
<1> QED BY <1>6, <1>8, <1>9, <1>10, <1>11

-----------------------------------------------------------------------------
(* Sums of the values of a function *)

SumOver(f, S) == MapThenSumSet(LAMBDA x : f[x], S)

LEMMA SumOverRec ==
    ASSUME NEW S, IsFiniteSet(S), NEW f
    PROVE  \E g : SumRec(g, f, S) /\ SumOver(f, S) = g[S]
<1> DEFINE iter == CHOOSE g : g = [s \in SUBSET S |->
                      IF s = {} THEN 0
                      ELSE f[CHOOSE x \in s : TRUE] + g[s \ {CHOOSE x \in s : TRUE}]]
<1>1. \E g : g = [s \in SUBSET S |->
                      IF s = {} THEN 0
                      ELSE f[CHOOSE x \in s : TRUE] + g[s \ {CHOOSE x \in s : TRUE}]]
  <2>1. \E g : SumRec(g, f, S)
    BY SumRecExists
  <2> QED BY <2>1, Zenon DEF SumRec, Pick
<1>2. SumRec(iter, f, S)
  BY <1>1, Zenon DEF SumRec, Pick
<1>3. SumOver(f, S) = iter[S]
  BY Zenon DEF SumOver, MapThenSumSet, MapThenFoldSet
<1> QED BY <1>2, <1>3, Zenon

\* A sum over no element is 0.
LEMMA SumOverEmpty == ASSUME NEW f PROVE SumOver(f, {}) = 0
<1>1. PICK g : SumRec(g, f, {}) /\ SumOver(f, {}) = g[{}]
  BY FS_EmptySet, SumOverRec
<1> QED BY <1>1, SumRecEmpty

\* A sum of natural numbers or of integers is one.
LEMMA SumOverType ==
    ASSUME NEW S, IsFiniteSet(S), NEW f, NEW V, V = Nat \/ V = Int, \A x \in S : f[x] \in V
    PROVE  SumOver(f, S) \in V
<1>1. PICK g : SumRec(g, f, S) /\ SumOver(f, S) = g[S]
  BY SumOverRec
<1> QED BY <1>1, SumRecType

\* Functions that agree on a set have the same sum over it.
LEMMA SumOverSame ==
    ASSUME NEW S, IsFiniteSet(S), NEW f, NEW e, \A x \in S : f[x] = e[x]
    PROVE  SumOver(f, S) = SumOver(e, S)
<1>1. PICK g : SumRec(g, f, S) /\ SumOver(f, S) = g[S]
  BY SumOverRec
<1>2. PICK h : SumRec(h, e, S) /\ SumOver(e, S) = h[S]
  BY SumOverRec
<1>3. S \in SUBSET S
  OBVIOUS
<1> QED BY <1>1, <1>2, <1>3, SumRecSame

\* An element adds its value to the sum over the others.
LEMMA SumOverAdd ==
    ASSUME NEW S, IsFiniteSet(S), NEW x, x \notin S, NEW f,
           f[x] \in Int, \A y \in S : f[y] \in Int
    PROVE  SumOver(f, S \cup {x}) = f[x] + SumOver(f, S)
<1> DEFINE T == S \cup {x}
<1>1. IsFiniteSet(T) /\ x \in T /\ T \ {x} = S /\ S \in SUBSET T /\ S \in SUBSET S /\ T \in SUBSET T
  BY FS_AddElement
<1>2. \A y \in T : f[y] \in Int
  OBVIOUS
<1> HIDE DEF T
<1>3. PICK g : SumRec(g, f, T) /\ SumOver(f, T) = g[T]
  BY <1>1, SumOverRec
<1>4. PICK h : SumRec(h, f, S) /\ SumOver(f, S) = h[S]
  BY SumOverRec
<1>5. g[T] = f[x] + g[S]
  <2>1. g[T] = f[x] + g[T \ {x}]
    BY <1>1, <1>2, <1>3, SumRecRemove
  <2> QED BY <1>1, <2>1
<1>6. g[S] = h[S]
  BY <1>1, <1>3, <1>4, SumRecSame
<1> QED BY <1>3, <1>4, <1>5, <1>6 DEF T

-----------------------------------------------------------------------------
(* Sums over the first natural numbers *)

LEMMA SumUpTo ==
    ASSUME NEW n \in Nat, NEW f, \A k \in 0 .. n : f[k] \in Int
    PROVE  SumOver(f, 0 .. n) = SumOver(f, 0 .. n - 1) + f[n]
<1> DEFINE S == 0 .. n - 1
<1>1. IsFiniteSet(S)
  <2>1. 0 \in Int /\ n - 1 \in Int
    OBVIOUS
  <2> QED BY <2>1, FS_Interval
<1>2. n \notin S /\ S \cup {n} = 0 .. n
  OBVIOUS
<1>3. f[n] \in Int /\ \A k \in S : f[k] \in Int
  OBVIOUS
<1> HIDE DEF S
<1>4. SumOver(f, S \cup {n}) = f[n] + SumOver(f, S)
  BY <1>1, <1>2, <1>3, SumOverAdd
<1>5. SumOver(f, S) \in Int
  BY <1>1, <1>3, SumOverType
<1>6. SumOver(f, 0 .. n) = SumOver(f, S) + f[n]
  <2>1. SumOver(f, 0 .. n) = SumOver(f, S \cup {n})
    BY <1>2, Zenon
  <2> QED BY <2>1, <1>3, <1>4, <1>5
<1> QED BY <1>6 DEF S

\* Numbers that add 0 can be left out at the end.
LEMMA SumGap ==
    ASSUME NEW a \in Nat, NEW b \in Nat, a <= b, NEW f,
           \A k \in 0 .. b - 1 : f[k] \in Int, \A k \in a .. b - 1 : f[k] = 0
    PROVE  SumOver(f, 0 .. b - 1) = SumOver(f, 0 .. a - 1)
<1> DEFINE B == {n \in a .. b : SumOver(f, 0 .. n - 1) # SumOver(f, 0 .. a - 1)}
<1>1. SUFFICES ASSUME SumOver(f, 0 .. b - 1) # SumOver(f, 0 .. a - 1) PROVE FALSE
  OBVIOUS
<1>2. B \subseteq Nat /\ b \in B
  BY <1>1
<1> HIDE DEF B
<1>3. PICK n \in B : \A m \in B : n <= m
  BY <1>2, NatMin
<1>4. n \in a + 1 .. b /\ SumOver(f, 0 .. n - 1) # SumOver(f, 0 .. a - 1)
  BY DEF B
<1>5. PICK m \in a .. b - 1 : n = m + 1
  <2>1. n - 1 \in a .. b - 1 /\ n = (n - 1) + 1
    BY <1>4
  <2> QED BY <2>1
<1>6. SumOver(f, 0 .. m - 1) = SumOver(f, 0 .. a - 1)
  BY <1>3, <1>5 DEF B
<1>7. SumOver(f, 0 .. m) = SumOver(f, 0 .. m - 1) + f[m]
  BY SumUpTo
<1>8. f[m] = 0 /\ SumOver(f, 0 .. m - 1) \in Int /\ n - 1 = m
  <2>1. IsFiniteSet(0 .. m - 1) /\ \A k \in 0 .. m - 1 : f[k] \in Int
    BY FS_Interval
  <2> QED BY <1>5, <2>1, SumOverType
<1> QED BY <1>4, <1>6, <1>7, <1>8
-----------------------------------------------------------------------------
(* Comparing sums *)

\* A set of natural numbers up to n that is not empty has a largest element.
LEMMA NatMax ==
    ASSUME NEW n \in Nat, NEW S, S \subseteq 0 .. n, S # {}
    PROVE  \E x \in S : \A y \in S : x >= y
<1> DEFINE D == {k \in 0 .. n : n - k \in S}
<1>1. D \subseteq Nat /\ D # {}
  <2>1. PICK x \in S : TRUE
    OBVIOUS
  <2>2. n - x \in 0 .. n /\ n - (n - x) = x
    BY <2>1
  <2>3. n - x \in D
    BY <2>1, <2>2
  <2>4. D \subseteq Nat
    OBVIOUS
  <2> HIDE DEF D
  <2> QED BY <2>3, <2>4
<1>2. \A y \in S : n - y \in D
  <2> SUFFICES ASSUME NEW y \in S  PROVE n - y \in D
    OBVIOUS
  <2>1. n - y \in 0 .. n /\ n - (n - y) = y
    OBVIOUS
  <2> QED BY <2>1
<1>3. D \subseteq 0 .. n /\ \A k \in D : n - k \in S
  OBVIOUS
<1> HIDE DEF D
<1>4. PICK k \in D : \A j \in D : k <= j
  BY <1>1, NatMin
<1>5. ASSUME NEW y \in S  PROVE n - k >= y
  <2>1. k <= n - y /\ k \in 0 .. n /\ y \in 0 .. n
    BY <1>2, <1>3, <1>4
  <2> QED BY <2>1
<1> QED BY <1>3, <1>4, <1>5

\* Elements that add 0 can be left out.
LEMMA SumSupport ==
    ASSUME NEW S, IsFiniteSet(S), NEW T, T \subseteq S, NEW f,
           \A x \in S : f[x] \in Int, \A x \in S \ T : f[x] = 0
    PROVE  SumOver(f, S) = SumOver(f, T)
<1> DEFINE R == S \ T
           B == {u \in SUBSET R : SumOver(f, T \cup u) # SumOver(f, T)}
<1>1. SUFFICES ASSUME SumOver(f, S) # SumOver(f, T) PROVE FALSE
  OBVIOUS
<1>2. IsFiniteSet(R) /\ IsFiniteSet(T) /\ T \cup R = S /\ R \in SUBSET R
  BY FS_Subset
<1>3. B \subseteq SUBSET R /\ R \in B
  <2>1. SumOver(f, T \cup R) # SumOver(f, T)
    BY <1>1, <1>2, Zenon
  <2> HIDE DEF R
  <2> QED BY <1>2, <2>1
<1>4. \A u : u \in B <=> u \in SUBSET R /\ SumOver(f, T \cup u) # SumOver(f, T)
  OBVIOUS
<1> HIDE DEF B
<1>5. PICK u \in B : \A v \in B : v \subseteq u => v = u
  BY <1>2, <1>3, SubsetMin
<1>6. u \in SUBSET R /\ SumOver(f, T \cup u) # SumOver(f, T)
  BY <1>4
<1>7. u # {}
  <2>1. T \cup {} = T
    OBVIOUS
  <2>2. SumOver(f, T \cup {}) = SumOver(f, T)
    BY <2>1, Zenon
  <2> QED BY <1>6, <2>2, Zenon
<1>8. PICK x \in u : TRUE
  BY <1>7
<1> DEFINE w == u \ {x}
           Q == T \cup w
<1>9. w \in SUBSET R /\ w # u /\ w \subseteq u /\ x \notin Q /\ Q \cup {x} = T \cup u
      /\ Q \in SUBSET S /\ f[x] = 0
  BY <1>6, <1>8
<1>10. IsFiniteSet(Q) /\ \A y \in Q : f[y] \in Int
  BY <1>9, FS_Subset
<1>11. SumOver(f, Q) = SumOver(f, T)
  <2> HIDE DEF R
  <2> QED BY <1>4, <1>5, <1>9
<1> HIDE DEF Q
<1>12. SumOver(f, Q \cup {x}) = f[x] + SumOver(f, Q)
  <2>1. f[x] \in Int /\ x \notin Q
    BY <1>9
  <2> HIDE DEF R
  <2> QED BY <1>10, <2>1, SumOverAdd
<1>13. SumOver(f, Q) \in Int
  BY <1>10, SumOverType
<1>14. SumOver(f, Q \cup {x}) = SumOver(f, T \cup u)
  BY <1>9, Zenon
<1>15. SumOver(f, Q \cup {x}) = SumOver(f, Q)
  <2>1. f[x] = 0
    BY <1>9
  <2> HIDE DEF R
  <2> QED BY <1>12, <1>13, <2>1
<1> HIDE DEF R
<1> QED BY <1>6, <1>11, <1>14, <1>15

\* What holds of every element between factors a and b holds of the sums.
LEMMA SumBetween ==
    ASSUME NEW S, IsFiniteSet(S), NEW f, NEW g, NEW a \in Nat, NEW b \in Nat,
           \A x \in S : /\ f[x] \in Nat /\ g[x] \in Nat
                        /\ a * f[x] <= g[x] /\ g[x] <= b * f[x]
    PROVE  /\ a * SumOver(f, S) <= SumOver(g, S)
           /\ SumOver(g, S) <= b * SumOver(f, S)
<1> DEFINE Good(s) == /\ a * SumOver(f, s) <= SumOver(g, s)
                      /\ SumOver(g, s) <= b * SumOver(f, s)
           B == {u \in SUBSET S : ~Good(u)}
<1>1. SUFFICES ASSUME ~Good(S) PROVE FALSE
  OBVIOUS
<1> HIDE DEF Good
<1>2. B \subseteq SUBSET S /\ S \in B /\ \A u : u \in B <=> u \in SUBSET S /\ ~Good(u)
  BY <1>1
<1> HIDE DEF B
<1>3. PICK u \in B : \A v \in B : v \subseteq u => v = u
  BY <1>2, SubsetMin
<1>4. u # {}
  <2>1. SumOver(f, {}) = 0 /\ SumOver(g, {}) = 0
    BY SumOverEmpty
  <2>2. Good({})
    BY <2>1 DEF Good
  <2> QED BY <1>2, <2>2
<1>5. PICK x \in u : TRUE
  BY <1>4
<1> DEFINE w == u \ {x}
<1>6. w \in SUBSET S /\ w # u /\ w \subseteq u /\ x \notin w /\ w \cup {x} = u /\ x \in S
  BY <1>2, <1>5
<1>7. Good(w)
  BY <1>2, <1>3, <1>6
<1>8. IsFiniteSet(w) /\ \A y \in w : f[y] \in Nat /\ g[y] \in Nat
  BY <1>6, FS_Subset
<1> HIDE DEF w
<1>9. /\ SumOver(f, w \cup {x}) = f[x] + SumOver(f, w)
      /\ SumOver(g, w \cup {x}) = g[x] + SumOver(g, w)
  <2>1. f[x] \in Int /\ g[x] \in Int
    BY <1>6
  <2>2. \A y \in w : f[y] \in Int /\ g[y] \in Int
    BY <1>8
  <2> QED BY <1>6, <1>8, <2>1, <2>2, SumOverAdd
<1>10. PICK m \in Nat, k \in Nat : m = SumOver(f, w) /\ k = SumOver(g, w)
  BY <1>8, SumOverType
<1>11. PICK p \in Nat, q \in Nat : p = f[x] /\ q = g[x] /\ a * p <= q /\ q <= b * p
  BY <1>6
<1>12. a * m <= k /\ k <= b * m
  BY <1>7, <1>10 DEF Good
<1>13. a * (p + m) <= q + k /\ q + k <= b * (p + m)
  <2>1. a * (p + m) = a * p + a * m /\ b * (p + m) = b * p + b * m
    OBVIOUS
  <2>2. a * p \in Nat /\ a * m \in Nat /\ b * p \in Nat /\ b * m \in Nat
    OBVIOUS
  <2> QED BY <1>11, <1>12, <2>1, <2>2
<1>14. Good(w \cup {x})
  BY <1>9, <1>10, <1>11, <1>13 DEF Good
<1>15. Good(u)
  BY <1>6, <1>14, Zenon
<1> QED BY <1>2, <1>15

\* Sums of two functions add up.
LEMMA SumPlus ==
    ASSUME NEW S, IsFiniteSet(S), NEW f, NEW g, NEW h,
           \A x \in S : f[x] \in Int /\ g[x] \in Int /\ h[x] = f[x] + g[x]
    PROVE  SumOver(h, S) = SumOver(f, S) + SumOver(g, S)
<1> DEFINE Good(s) == SumOver(h, s) = SumOver(f, s) + SumOver(g, s)
           B == {u \in SUBSET S : ~Good(u)}
<1>1. SUFFICES ASSUME ~Good(S) PROVE FALSE
  OBVIOUS
<1> HIDE DEF Good
<1>2. B \subseteq SUBSET S /\ S \in B /\ \A u : u \in B <=> u \in SUBSET S /\ ~Good(u)
  BY <1>1
<1> HIDE DEF B
<1>3. PICK u \in B : \A v \in B : v \subseteq u => v = u
  BY <1>2, SubsetMin
<1>4. u # {}
  <2>1. SumOver(f, {}) = 0 /\ SumOver(g, {}) = 0 /\ SumOver(h, {}) = 0
    BY SumOverEmpty
  <2>2. Good({})
    BY <2>1 DEF Good
  <2> QED BY <1>2, <2>2
<1>5. PICK x \in u : TRUE
  BY <1>4
<1> DEFINE w == u \ {x}
<1>6. w \in SUBSET S /\ w # u /\ w \subseteq u /\ x \notin w /\ w \cup {x} = u /\ x \in S
  BY <1>2, <1>5
<1>7. Good(w)
  BY <1>2, <1>3, <1>6
<1>8. IsFiniteSet(w) /\ \A y \in w : f[y] \in Int /\ g[y] \in Int /\ h[y] \in Int
  BY <1>6, FS_Subset
<1> HIDE DEF w
<1>9. f[x] \in Int /\ g[x] \in Int /\ h[x] \in Int /\ h[x] = f[x] + g[x]
  BY <1>6
<1>10. /\ SumOver(f, w \cup {x}) = f[x] + SumOver(f, w)
       /\ SumOver(g, w \cup {x}) = g[x] + SumOver(g, w)
       /\ SumOver(h, w \cup {x}) = h[x] + SumOver(h, w)
  BY <1>6, <1>8, <1>9, SumOverAdd
<1>11. SumOver(f, w) \in Int /\ SumOver(g, w) \in Int /\ SumOver(h, w) \in Int
  BY <1>8, SumOverType
<1>12. Good(w \cup {x})
  BY <1>7, <1>9, <1>10, <1>11 DEF Good
<1>13. Good(u)
  BY <1>6, <1>12, Zenon
<1> QED BY <1>2, <1>13

Covered(P, n, S) == {x \in S : \E k \in 0 .. n : x \in P[k]}

\* The sizes of disjoint sets add up to that of their union.
LEMMA SumCards ==
    ASSUME NEW n \in Nat, NEW S, IsFiniteSet(S), NEW P, NEW f,
           \A k \in 0 .. n : P[k] \subseteq S /\ f[k] = Cardinality(P[k]),
           \A j, k \in 0 .. n : j # k => P[j] \cap P[k] = {}
    PROVE  SumOver(f, 0 .. n) = Cardinality(Covered(P, n, S))
<1> DEFINE U(m) == Covered(P, m, S)
           B == {m \in 0 .. n : SumOver(f, 0 .. m) # Cardinality(U(m))}
<1>1. SUFFICES ASSUME SumOver(f, 0 .. n) # Cardinality(U(n)) PROVE FALSE
  OBVIOUS
<1>2. \A m : IsFiniteSet(U(m)) /\ Cardinality(U(m)) \in Nat
  BY FS_Subset, FS_CardinalityType DEF Covered
<1>3. \A k \in 0 .. n : IsFiniteSet(P[k]) /\ Cardinality(P[k]) \in Nat /\ f[k] \in Nat
  BY FS_Subset, FS_CardinalityType
<1> HIDE DEF U
<1>4. B \subseteq Nat /\ n \in B
  BY <1>1
<1>5. \A m : m \in B <=> m \in 0 .. n /\ SumOver(f, 0 .. m) # Cardinality(U(m))
  OBVIOUS
<1> HIDE DEF B
<1>6. PICK m \in B : \A j \in B : m <= j
  BY <1>4, NatMin
<1>7. m \in 0 .. n /\ SumOver(f, 0 .. m) # Cardinality(U(m))
  BY <1>5
<1>8. SumOver(f, 0 .. m) = SumOver(f, 0 .. m - 1) + f[m]
  BY <1>3, <1>7, SumUpTo
<1>9. SumOver(f, 0 .. m - 1) = Cardinality(U(m - 1))
  <2>1. CASE m = 0
    <3>1. 0 .. m - 1 = {} /\ U(m - 1) = {}
      BY <2>1 DEF U, Covered
    <3>2. SumOver(f, 0 .. m - 1) = 0
      BY <3>1, SumOverEmpty, Zenon
    <3> QED BY <3>1, <3>2, FS_EmptySet
  <2>2. CASE m # 0
    <3>1. m - 1 \in 0 .. n /\ ~ (m <= m - 1)
      BY <1>7, <2>2
    <3>2. m - 1 \notin B
      BY <1>6, <3>1
    <3> QED BY <1>5, <3>1, <3>2
  <2> QED BY <2>1, <2>2
<1>10. U(m) = U(m - 1) \cup P[m]
  <2>1. \A k : k \in 0 .. m <=> k \in 0 .. m - 1 \/ k = m
    BY <1>7
  <2> QED BY <1>7, <2>1 DEF U, Covered
<1>11. U(m - 1) \cap P[m] = {}
  <2>1. \A k \in 0 .. m - 1 : k \in 0 .. n /\ k # m
    BY <1>7
  <2> QED BY <1>7, <2>1 DEF U, Covered
<1>12. Cardinality(U(m - 1) \cup P[m]) = Cardinality(U(m - 1)) + Cardinality(P[m])
  <2>1. Cardinality(U(m - 1) \cap P[m]) = 0
    BY <1>11, FS_EmptySet, Zenon
  <2>2. Cardinality(U(m - 1) \cup P[m])
          = Cardinality(U(m - 1)) + Cardinality(P[m]) - Cardinality(U(m - 1) \cap P[m])
    BY <1>2, <1>3, <1>7, FS_Union
  <2>3. Cardinality(U(m - 1)) \in Nat /\ Cardinality(P[m]) \in Nat
    BY <1>2, <1>3, <1>7
  <2> QED BY <2>1, <2>2, <2>3
<1>13. Cardinality(U(m)) = Cardinality(U(m - 1) \cup P[m])
  BY <1>10, Zenon
<1>14. f[m] = Cardinality(P[m])
  BY <1>7
<1> QED BY <1>7, <1>8, <1>9, <1>12, <1>13, <1>14
===============================================================================
