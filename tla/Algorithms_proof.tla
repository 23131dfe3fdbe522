--------------------------- MODULE Algorithms_proof ---------------------------
(***************************************************************************)
(* Theorems about Histogram, for any range of values, any images, any number *)
(* of threads and any order in which they run: the shares of a team add up to *)
(* the counts of the image, and the figures derived from the bins fit each    *)
(* other although the threads of max_element_distance overwrite each other's  *)
(* maximum.  And about PrefixSum, for any number and values of the items, any *)
(* team and any division of the items: the barriers stand where they are      *)
(* needed, and the team computes what one thread computes.                    *)
(***************************************************************************)
EXTENDS Histogram, PrefixSum, Sums

-----------------------------------------------------------------------------
(* The inductive invariant *)

TypeInv ==
    /\ nthreads \in Threads
    /\ pc \in {"idle", "count", "merge", "stats", "mode", "answered", "crashed"}
    /\ \E l \in 1 .. MaxLen : image \in [0 .. l - 1 -> Bin]
    /\ refresh \in BOOLEAN /\ images \in 0 .. MaxImages
    /\ bins \in [Bin -> Nat] /\ tally \in [Bin -> Nat] /\ weighed \in [Bin -> Nat]
    /\ histo \in [Bin -> Nat]
    /\ clones \in [Team -> [Bin -> Nat]] /\ pos \in [Team -> Nat]
    /\ merged \in [Bin -> BOOLEAN]
    /\ probe \in [Bin -> {"todo", "larger", "done"}]
    /\ best \in Nat /\ found \in Nat
    /\ range \in {"all", "current", "stale"}
    /\ stats \in [small : Bin, large : Bin, integral : Nat, moment : Nat,
                  median : Nat \X Nat, mode : Bin]

\* The images the object has met, all their pixels together.
TallyInv ==
    /\ images = 0 => tally = Zero
    /\ images > 0 => Populated(tally) # {}
    /\ Sum(tally, 0, MaxValue) <= MaxLen * images

\* The pixels of value v that thread t has counted.
Share(t, v) == {i \in ChunkBegin(t) .. pos[t] - 1 : image[i] = v}

\* A copy holds what was in the bins and what its thread has counted.
TeamInv ==
    /\ pc = "merge" => nthreads > 1 /\ \A t \in Team : pos[t] = ChunkEnd(t)
    /\ pc = "count" => \A v \in Bin : merged[v] = FALSE
    /\ pc \in {"count", "merge"} /\ nthreads > 1 =>
         \A t \in Team : /\ pos[t] >= ChunkBegin(t)
                         /\ \A v \in Bin :
                              clones[t][v] = histo[v] + Cardinality(Share(t, v))

\* What is missing in the bins is in the image at hand and in the copies.
BinsInv ==
    /\ pc = "count" => bins = histo
    /\ pc = "merge" => \A v \in Bin : bins[v] = IF merged[v] THEN weighed[v] ELSE histo[v]
    /\ pc \in {"count", "merge"} => weighed = Weighed(histo, image)
    /\ pc \in {"idle", "stats", "mode", "answered"} => bins = weighed

\* One thread repeats nothing, and a team has nothing to repeat the first time.
WeighedInv ==
    /\ Sound => weighed = tally
    /\ images = 0 => weighed = Zero

\* Any bin that is not empty is better than none, and none is taken that is.
ModeInv ==
    pc = "mode" =>
        /\ best = 0 \/ found \in Populated(bins)
        /\ \A v \in Bin : probe[v] = "larger" => bins[v] > 0
        /\ best = 0 => \A v \in Populated(bins) : probe[v] # "done"

Smallest(h) == IF h = Zero THEN 0 ELSE Min(Populated(h))
Largest(h)  == IF h = Zero THEN MaxValue ELSE Max(Populated(h))

\* The figures are those of the bins, unless an image was added since.
StatsInv ==
    /\ range = "all" => stats.small = 0 /\ stats.large = MaxValue
    /\ pc \in {"count", "merge"} /\ ~refresh => range # "current"
    /\ pc \in {"idle", "answered", "mode"} /\ range = "current" =>
         /\ stats.small = Smallest(bins) /\ stats.large = Largest(bins)
         /\ stats.integral = Sum(bins, 0, MaxValue)
         /\ stats.moment = Sum([v \in Bin |-> v * bins[v]], stats.small, stats.large)
         /\ stats.median = Quantile(bins, stats.small, stats.large, <<1, 2>>)
    /\ pc \in {"idle", "answered"} /\ range = "current" /\ Populated(bins) # {} =>
         stats.mode \in Populated(bins)

AnswerInv ==
    pc = "answered" =>
        /\ answer.th \in Thresholds
        /\ answer.value = Quantile(bins, stats.small, stats.large, answer.th)

HInv == TypeInv /\ TallyInv /\ TeamInv /\ BinsInv /\ WeighedInv /\ ModeInv /\ StatsInv /\ AnswerInv

-----------------------------------------------------------------------------
(* Operators *)

LEMMA Ranges ==
    ASSUME HistogramAssumption
    PROVE  /\ MaxValue \in Nat /\ Bin \subseteq Nat /\ 0 \in Bin /\ MaxValue \in Bin
           /\ MaxLen \in Nat /\ MaxLen >= 1 /\ MaxImages \in Nat /\ MaxImages >= 1
           /\ Modulus \in Nat /\ Modulus > 0
           /\ IsFiniteSet(Bin) /\ Zero \in [Bin -> Nat]
           /\ \A v \in Bin : Zero[v] = 0
<1>1. MaxValue \in Nat /\ Bin \subseteq Nat /\ 0 \in Bin /\ MaxValue \in Bin
  BY DEF HistogramAssumption, Bin
<1>2. IsFiniteSet(Bin)
  BY <1>1, FS_Interval DEF Bin
<1> QED BY <1>1, <1>2 DEF HistogramAssumption, Zero

LEMMA SumIsSumOver == ASSUME NEW f, NEW lo, NEW hi PROVE Sum(f, lo, hi) = SumOver(f, lo .. hi)
BY Zenon DEF Sum, SumOver

\* A sum over bins is a natural number.
LEMMA SumType ==
    ASSUME NEW lo \in Nat, NEW hi \in Int, NEW f, \A v \in lo .. hi : f[v] \in Nat
    PROVE  Sum(f, lo, hi) \in Nat /\ IsFiniteSet(lo .. hi)
<1>1. IsFiniteSet(lo .. hi)
  BY FS_Interval
<1>2. SumOver(f, lo .. hi) \in Nat
  BY <1>1, SumOverType
<1> QED BY <1>1, <1>2, SumIsSumOver

\* An image of l pixels: its counts are those of l pixels.
LEMMA ImageCounts ==
    ASSUME HistogramAssumption, NEW l \in 1 .. MaxLen, NEW img \in [0 .. l - 1 -> Bin]
    PROVE  /\ Cardinality(DOMAIN img) = l
           /\ CountOf(img) \in [Bin -> Nat]
           /\ Populated(CountOf(img)) # {}
           /\ Sum(CountOf(img), 0, MaxValue) = l
<1>1. l \in Nat /\ l >= 1 /\ DOMAIN img = 0 .. l - 1 /\ \A i \in 0 .. l - 1 : img[i] \in Bin
  BY Ranges
<1>2. IsFiniteSet(0 .. l - 1) /\ Cardinality(0 .. l - 1) = l
  <2>1. 0 \in Int /\ l - 1 \in Int
    BY <1>1
  <2>2. Cardinality(0 .. l - 1) = IF 0 > l - 1 THEN 0 ELSE l - 1 - 0 + 1
    BY <2>1, FS_Interval
  <2> QED BY <1>1, <2>1, <2>2, FS_Interval
<1> DEFINE P == [v \in Bin |-> {i \in 0 .. l - 1 : img[i] = v}]
           f == CountOf(img)
<1>3. \A v \in Bin : /\ P[v] \subseteq 0 .. l - 1 /\ IsFiniteSet(P[v])
                     /\ Cardinality(P[v]) \in Nat /\ f[v] = Cardinality(P[v])
  <2> SUFFICES ASSUME NEW v \in Bin
               PROVE  /\ P[v] \subseteq 0 .. l - 1 /\ IsFiniteSet(P[v])
                      /\ Cardinality(P[v]) \in Nat /\ f[v] = Cardinality(P[v])
    OBVIOUS
  <2>1. P[v] \subseteq 0 .. l - 1
    OBVIOUS
  <2>2. IsFiniteSet(P[v]) /\ Cardinality(P[v]) \in Nat
    BY <1>2, <2>1, FS_Subset, FS_CardinalityType
  <2>3. f[v] = Cardinality({i \in DOMAIN img : img[i] = v})
    BY DEF CountOf
  <2>4. P[v] = {i \in DOMAIN img : img[i] = v}
    BY <1>1
  <2> QED BY <2>1, <2>2, <2>3, <2>4
<1>4. f \in [Bin -> Nat]
  <2>1. f = [v \in Bin |-> f[v]]
    BY DEF CountOf
  <2> HIDE DEF f, P
  <2> QED BY <1>3, <2>1
<1>5. Populated(f) # {}
  <2> DEFINE v == img[0]
  <2>1. v \in Bin /\ 0 \in P[v]
    BY <1>1
  <2>2. P[v] # {} /\ IsFiniteSet(P[v])
    BY <1>3, <2>1
  <2>3. f[v] # 0 /\ f[v] \in Nat
    <3>1. Cardinality(P[v]) # 0
      <4> HIDE DEF P
      <4> QED BY <2>2, FS_EmptySet
    <3> QED BY <1>3, <2>1, <3>1
  <2> HIDE DEF f
  <2> QED BY <2>1, <2>3 DEF Populated
<1>6. Sum(f, 0, MaxValue) = l
  <2>1. \A j, k \in 0 .. MaxValue : j # k => P[j] \cap P[k] = {}
    BY DEF Bin
  <2>2. \A k \in 0 .. MaxValue : P[k] \subseteq 0 .. l - 1 /\ f[k] = Cardinality(P[k])
    BY <1>3 DEF Bin
  <2>3. Covered(P, MaxValue, 0 .. l - 1) = 0 .. l - 1
    <3>1. \A x \in 0 .. l - 1 : img[x] \in Bin /\ x \in P[img[x]]
      BY <1>1
    <3> QED BY <3>1 DEF Bin, Covered
  <2> HIDE DEF P, f
  <2>4. SumOver(f, 0 .. MaxValue)
          = Cardinality(Covered(P, MaxValue, 0 .. l - 1))
    <3>1. MaxValue \in Nat /\ IsFiniteSet(0 .. l - 1)
      BY <1>2, Ranges
    <3> QED BY <2>1, <2>2, <3>1, SumCards
  <2>5. SumOver(f, 0 .. MaxValue) = Cardinality(0 .. l - 1)
    BY <2>3, <2>4, Zenon
  <2> QED BY <1>2, <2>5, SumIsSumOver
<1> HIDE DEF f
<1>7. Cardinality(DOMAIN img) = l
  BY <1>1, <1>2
<1> QED BY <1>4, <1>5, <1>6, <1>7 DEF f

\* The smallest and the largest bin that is not empty.
LEMMA Extremes ==
    ASSUME HistogramAssumption, NEW h \in [Bin -> Nat]
    PROVE  /\ h = Zero <=> Populated(h) = {}
           /\ Smallest(h) \in Bin /\ Largest(h) \in Bin
           /\ Populated(h) # {} =>
                /\ Smallest(h) = Min(Populated(h)) /\ Largest(h) = Max(Populated(h))
                /\ Smallest(h) \in Populated(h) /\ Largest(h) \in Populated(h)
                /\ \A v \in Populated(h) : Smallest(h) <= v /\ v <= Largest(h)
<1>1. Populated(h) \subseteq Bin /\ Populated(h) \subseteq Nat
      /\ Populated(h) \subseteq 0 .. MaxValue
  BY Ranges DEF Populated, Bin
<1>2. h = Zero <=> Populated(h) = {}
  <2>1. Populated(h) = {} => \A v \in Bin : h[v] = 0
    BY DEF Populated
  <2>2. (\A v \in Bin : h[v] = 0) => h = Zero
    BY DEF Zero
  <2>3. h = Zero => Populated(h) = {}
    BY Ranges DEF Populated
  <2> QED BY <2>1, <2>2, <2>3
<1>3. ASSUME Populated(h) # {}
      PROVE  /\ Min(Populated(h)) \in Populated(h) /\ Max(Populated(h)) \in Populated(h)
             /\ \A v \in Populated(h) : Min(Populated(h)) <= v /\ v <= Max(Populated(h))
  <2>1. \E x \in Populated(h) : \A y \in Populated(h) : x <= y
    BY <1>1, <1>3, NatMin
  <2>2. \E x \in Populated(h) : \A y \in Populated(h) : x >= y
    BY <1>1, <1>3, Ranges, NatMax
  <2>3. /\ Min(Populated(h)) \in Populated(h)
        /\ \A v \in Populated(h) : Min(Populated(h)) <= v
    BY <2>1, Zenon DEF Min
  <2>4. /\ Max(Populated(h)) \in Populated(h)
        /\ \A v \in Populated(h) : Max(Populated(h)) >= v
    BY <2>2, Zenon DEF Max
  <2>5. \A v \in Populated(h) : v <= Max(Populated(h))
    BY <1>1, <2>4
  <2> QED BY <2>3, <2>4, <2>5
<1>4. ASSUME Populated(h) # {}
      PROVE  Smallest(h) = Min(Populated(h)) /\ Largest(h) = Max(Populated(h))
  BY <1>2, <1>4 DEF Smallest, Largest
<1>5. Smallest(h) \in Bin /\ Largest(h) \in Bin
  <2>1. CASE Populated(h) = {}
    BY <1>2, <2>1, Ranges DEF Smallest, Largest
  <2>2. CASE Populated(h) # {}
    BY <1>1, <1>3, <1>4, <2>2
  <2> QED BY <2>1, <2>2
<1> QED BY <1>2, <1>3, <1>4, <1>5

\* A quantile is a fraction of two counters.
LEMMA QuantileType ==
    ASSUME HistogramAssumption, NEW h \in [Bin -> Nat], NEW lo \in Bin, NEW hi \in Bin,
           NEW th, th[1] \in Nat, th[2] \in Nat
    PROVE  Quantile(h, lo, hi, th) \in Nat \X Nat
<1> DEFINE m == QuantileBin(h, lo, hi, th)
<1>1. m \in Bin
  <2> DEFINE enough == {v \in lo .. hi : Sum(h, lo, v) * th[2] > th[1] * Sum(h, lo, hi)}
             x == IF enough = {} THEN hi + 1 ELSE Min(enough)
  <2>1. lo .. hi \subseteq Nat /\ hi \in Nat
    BY Ranges
  <2>2. enough \subseteq Nat
    BY <2>1
  <2>3. x \in Nat
    <3> HIDE DEF enough
    <3>1. enough # {} => Min(enough) \in enough
      <4>1. enough # {} => \E y \in enough : \A z \in enough : y <= z
        BY <2>2, NatMin
      <4> QED BY <4>1, Zenon DEF Min
    <3>2. hi + 1 \in Nat
      BY <2>1
    <3> QED BY <2>2, <3>1, <3>2
  <2>4. m = x % (MaxValue + 1)
    BY Zenon DEF QuantileBin
  <2> HIDE DEF x, m
  <2>5. x % (MaxValue + 1) \in 0 .. MaxValue
    BY <2>3, Ranges
  <2> QED BY <2>4, <2>5 DEF Bin
<1> HIDE DEF m
<1>2. ASSUME m # 0
      PROVE  /\ (h[m] * m + h[m - 1] * (m - 1)) % Modulus \in Nat
             /\ (h[m - 1] + h[m]) % Modulus \in Nat
  <2>1. m \in Nat /\ m - 1 \in Bin /\ m - 1 \in Nat
    BY <1>1, <1>2, Ranges DEF Bin
  <2>2. PICK a \in Nat, b \in Nat : a = h[m] /\ b = h[m - 1]
    BY <1>1, <2>1
  <2>3. a * m \in Nat /\ b * (m - 1) \in Nat
    BY <2>1, <2>2
  <2>4. \A x \in Nat : x % Modulus \in Nat
    BY Ranges
  <2>5. a * m + b * (m - 1) \in Nat /\ b + a \in Nat
    BY <2>2, <2>3
  <2> QED BY <2>2, <2>4, <2>5
<1>3. Quantile(h, lo, hi, th)
        = IF m = 0 THEN <<0, 1>>
          ELSE <<(h[m] * m + h[m - 1] * (m - 1)) % Modulus, (h[m - 1] + h[m]) % Modulus>>
  BY Zenon DEF Quantile, m
<1> QED BY <1>2, <1>3

\* No bin holds more than all together.
LEMMA SumBounds ==
    ASSUME HistogramAssumption, NEW h \in [Bin -> Nat]
    PROVE  /\ Sum(h, 0, MaxValue) \in Nat
           /\ \A v \in Bin : h[v] <= Sum(h, 0, MaxValue)
<1>1. IsFiniteSet(Bin) /\ Bin = 0 .. MaxValue /\ \A v \in Bin : h[v] \in Nat
  BY Ranges DEF Bin
<1>2. Sum(h, 0, MaxValue) = SumOver(h, Bin)
  BY <1>1, SumIsSumOver
<1>3. SumOver(h, Bin) \in Nat
  BY <1>1, SumOverType
<1>4. ASSUME NEW v \in Bin PROVE h[v] <= SumOver(h, Bin)
  <2> DEFINE R == Bin \ {v}
  <2>1. IsFiniteSet(R) /\ Bin = R \cup {v} /\ v \notin R
    <3>1. IsFiniteSet(R)
      BY <1>1, FS_Subset
    <3> QED BY <3>1
  <2>2. h[v] \in Int /\ h[v] \in Nat /\ \A y \in R : h[y] \in Int /\ h[y] \in Nat
    BY <1>1
  <2> HIDE DEF R
  <2>3. SumOver(h, R \cup {v}) = h[v] + SumOver(h, R)
    BY <2>1, <2>2, SumOverAdd
  <2>4. SumOver(h, R) \in Nat
    BY <2>1, <2>2, SumOverType
  <2>5. SumOver(h, Bin) = SumOver(h, R \cup {v})
    BY <2>1, Zenon
  <2> QED BY <2>2, <2>3, <2>4, <2>5
<1> QED BY <1>2, <1>3, <1>4

\* There is a most frequent value; it occurs if any value does.
LEMMA MostFrequent ==
    ASSUME HistogramAssumption, NEW h \in [Bin -> Nat]
    PROVE  LET B == {v \in Bin : \A w \in Bin : h[w] <= h[v]} IN
           /\ Min(B) \in Bin
           /\ Populated(h) # {} => Min(B) \in Populated(h)
<1> DEFINE B == {v \in Bin : \A w \in Bin : h[w] <= h[v]}
<1>1. \A v \in Bin : h[v] \in Nat
  OBVIOUS
<1>2. B # {}
  <2>1. PICK top \in Nat : \A v \in Bin : h[v] <= top
    BY SumBounds
  <2> DEFINE R == {top - h[v] : v \in Bin}
  <2>2. \A v \in Bin : top - h[v] \in Nat
    BY <1>1, <2>1
  <2>3. R \subseteq Nat /\ R # {}
    BY <2>2, Ranges
  <2> HIDE DEF R
  <2>4. PICK x \in R : \A y \in R : x <= y
    BY <2>3, NatMin
  <2>5. PICK v \in Bin : x = top - h[v]
    BY <2>4 DEF R
  <2>6. ASSUME NEW w \in Bin PROVE h[w] <= h[v]
    <3>1. top - h[w] \in R
      BY DEF R
    <3>2. top - h[v] <= top - h[w]
      BY <2>4, <2>5, <3>1
    <3>3. h[v] \in Nat /\ h[w] \in Nat
      BY <1>1
    <3> QED BY <3>2, <3>3
  <2> QED BY <2>6
<1>3. B \subseteq Bin /\ B \subseteq Nat
  BY Ranges
<1>4. Min(B) \in B
  <2> HIDE DEF B
  <2>1. \E x \in B : \A y \in B : x <= y
    BY <1>2, <1>3, NatMin
  <2> QED BY <2>1, Zenon DEF Min
<1>5. ASSUME Populated(h) # {} PROVE Min(B) \in Populated(h)
  <2>1. PICK w \in Bin : h[w] > 0
    BY <1>5 DEF Populated
  <2> DEFINE m == Min(B)
  <2>2. m \in Bin /\ h[w] <= h[m]
    BY <1>4
  <2> HIDE DEF m
  <2>3. h[w] \in Nat /\ h[m] \in Nat
    BY <1>1, <2>2
  <2>4. m \in Populated(h)
    BY <2>1, <2>2, <2>3 DEF Populated
  <2> QED BY <2>4 DEF m
<1>6. Min(B) \in Bin
  BY <1>3, <1>4
<1> QED BY <1>5, <1>6

-----------------------------------------------------------------------------
(* The shares of a team *)

LEMMA CeilDiv ==
    ASSUME NEW n \in Nat, n >= 1, NEW l \in Nat, l >= 1, NEW c, c = (l + n - 1) \div n
    PROVE  c \in Nat /\ c >= 1 /\ c * n >= l
<1>1. c \in Int /\ n * c <= l + n - 1 /\ l + n - 1 < n * c + n
  OBVIOUS
<1>2. PICK m \in Int : m = n * c
  BY <1>1
<1>3. m >= l
  BY <1>1, <1>2
<1>4. c >= 1
  <2>1. SUFFICES ASSUME c <= 0 PROVE FALSE
    BY <1>1
  <2>2. n * c <= 0
    BY <1>1, <2>1
  <2> QED BY <1>2, <1>3, <2>2
<1>5. c * n = n * c
  BY <1>1
<1> QED BY <1>1, <1>2, <1>3, <1>4, <1>5

\* A number of at least one belongs to the multiple it was rounded down to.
LEMMA RoundDown ==
    ASSUME NEW i \in Nat, NEW c \in Nat, c >= 1
    PROVE  /\ i \div c \in Nat
           /\ (i \div c) * c <= i /\ i < (i \div c) * c + c
<1>1. i \div c \in Int /\ c * (i \div c) <= i /\ i < c * (i \div c) + c
  OBVIOUS
<1>2. (i \div c) * c = c * (i \div c)
  BY <1>1
<1>3. i \div c >= 0
  OBVIOUS
<1> QED BY <1>1, <1>2, <1>3

\* The shares follow each other and cover the image.
LEMMA SharesCover ==
    ASSUME HistogramAssumption, nthreads \in Threads, NEW l \in 1 .. MaxLen,
           image \in [0 .. l - 1 -> Bin]
    PROVE  /\ Len = l /\ l \in Nat /\ l >= 1
           /\ nthreads \in Nat /\ nthreads >= 1 /\ Team \subseteq Nat
           /\ \A t \in Team : /\ ChunkBegin(t) \in Nat
                              /\ ChunkEnd(t) \in Nat /\ ChunkEnd(t) <= l
           /\ \A t, u \in Team : t < u => ChunkEnd(t) <= ChunkBegin(u)
           /\ \A i \in 0 .. l - 1 : \E t \in Team :
                 ChunkBegin(t) <= i /\ i < ChunkEnd(t)
<1> DEFINE c == ChunkSize
<1>1. Len = l /\ l \in Nat /\ l >= 1
  BY ImageCounts, Ranges DEF Len
<1>2. nthreads \in Nat /\ nthreads >= 1 /\ Team \subseteq Nat
  BY DEF HistogramAssumption, Team
<1>3. c = (l + nthreads - 1) \div nthreads
  BY <1>1 DEF ChunkSize
<1> HIDE DEF c
<1>4. c \in Nat /\ c >= 1 /\ c * nthreads >= l
  BY <1>1, <1>2, <1>3, CeilDiv
<1>5. \A t \in Team : /\ ChunkBegin(t) = t * c /\ t * c \in Nat
                      /\ ChunkEnd(t) = IF t * c + c >= l THEN l ELSE t * c + c
  BY <1>1, <1>2, <1>4 DEF c, ChunkBegin, ChunkEnd
<1>6. \A t \in Team : /\ ChunkBegin(t) \in Nat
                      /\ ChunkEnd(t) \in Nat /\ ChunkEnd(t) <= l
                      /\ ChunkEnd(t) <= t * c + c
  BY <1>1, <1>4, <1>5
<1>7. ASSUME NEW t \in Team, NEW u \in Team, t < u
      PROVE  ChunkEnd(t) <= ChunkBegin(u)
  <2>1. t \in Nat /\ u \in Nat /\ t + 1 <= u
    BY <1>2, <1>7
  <2>2. (t + 1) * c <= u * c
    BY <1>4, <2>1
  <2>3. (t + 1) * c = t * c + c
    BY <1>4, <2>1
  <2>4. t * c + c <= u * c /\ t * c \in Nat /\ u * c \in Nat
    BY <1>5, <2>2, <2>3
  <2> QED BY <1>4, <1>5, <1>6, <2>4
<1>8. ASSUME NEW i \in 0 .. l - 1
      PROVE  \E t \in Team : ChunkBegin(t) <= i /\ i < ChunkEnd(t)
  <2>1. i \in Nat /\ i < l
    BY <1>1
  <2>2. PICK t \in Nat : t * c <= i /\ i < t * c + c
    BY <1>4, <2>1, RoundDown
  <2>3. t < nthreads
    <3>1. SUFFICES ASSUME t >= nthreads PROVE FALSE
      BY <1>2, <2>2
    <3>2. t * c >= nthreads * c
      BY <1>2, <1>4, <3>1
    <3>3. nthreads * c = c * nthreads /\ nthreads * c \in Nat /\ t * c \in Nat
      BY <1>2, <1>4
    <3> QED BY <1>1, <1>4, <2>1, <2>2, <3>2, <3>3
  <2>4. t \in Team
    BY <1>2, <2>3 DEF Team
  <2>5. ChunkBegin(t) <= i /\ i < ChunkEnd(t)
    BY <1>5, <2>1, <2>2, <2>4
  <2> QED BY <2>4, <2>5
<1> QED BY <1>1, <1>2, <1>6, <1>7, <1>8

\* A number as often as there are threads.
LEMMA SumConst ==
    ASSUME NEW n \in Nat, NEW c \in Nat, NEW f, \A t \in 0 .. n : f[t] = c
    PROVE  SumOver(f, 0 .. n) = (n + 1) * c
<1> DEFINE P == [t \in 0 .. n |-> {t}]
           one == [t \in 0 .. n |-> 1]
<1>1. IsFiniteSet(0 .. n) /\ Cardinality(0 .. n) = n + 1
  BY FS_Interval
<1>2. \A t \in 0 .. n : P[t] \subseteq 0 .. n /\ one[t] = Cardinality(P[t])
  BY FS_Singleton
<1>3. \A j, k \in 0 .. n : j # k => P[j] \cap P[k] = {}
  OBVIOUS
<1>4. Covered(P, n, 0 .. n) = 0 .. n
  BY DEF Covered
<1>5. \A t \in 0 .. n : one[t] = 1
  OBVIOUS
<1> HIDE DEF P, one
<1>6. SumOver(one, 0 .. n) = n + 1
  <2>1. SumOver(one, 0 .. n) = Cardinality(Covered(P, n, 0 .. n))
    BY <1>1, <1>2, <1>3, SumCards
  <2> QED BY <1>1, <1>4, <2>1
<1>7. \A t \in 0 .. n : /\ one[t] \in Nat /\ f[t] \in Nat
                        /\ c * one[t] <= f[t] /\ f[t] <= c * one[t]
  BY <1>5
<1>8. c * SumOver(one, 0 .. n) <= SumOver(f, 0 .. n)
      /\ SumOver(f, 0 .. n) <= c * SumOver(one, 0 .. n)
  BY <1>1, <1>7, SumBetween
<1>9. SumOver(f, 0 .. n) \in Nat
  BY <1>1, <1>7, SumOverType
<1>10. c * (n + 1) = (n + 1) * c /\ c * (n + 1) \in Nat
  OBVIOUS
<1> QED BY <1>6, <1>8, <1>9, <1>10

\* The copies of a bin, when all threads are through, add up to its count and to
\* what they were started with.
LEMMA CopiesAddUp ==
    ASSUME HistogramAssumption, TypeInv, TeamInv, pc = "merge", NEW v \in Bin
    PROVE  Sum([t \in Team |-> clones[t][v]], 0, nthreads - 1)
             = nthreads * histo[v] + CountOf(image)[v]
<1>1. PICK l \in 1 .. MaxLen : image \in [0 .. l - 1 -> Bin]
  BY DEF TypeInv
<1>2. nthreads \in Threads
  BY DEF TypeInv
<1> DEFINE e == [t \in Team |-> histo[v]]
           f == [t \in Team |-> Cardinality(Share(t, v))]
           h == [t \in Team |-> clones[t][v]]
           P == [t \in Team |-> Share(t, v)]
           n == nthreads - 1
<1>3. n \in Nat /\ Team = 0 .. n
  BY <1>1, <1>2, SharesCover DEF Team
<1>4. \A t \in Team : /\ pos[t] = ChunkEnd(t)
                      /\ clones[t][v] = histo[v] + Cardinality(Share(t, v))
  BY DEF TeamInv
<1>5. \A t \in Team : Share(t, v) = {i \in ChunkBegin(t) .. ChunkEnd(t) - 1 : image[i] = v}
  BY <1>4 DEF Share
<1>6. IsFiniteSet(0 .. l - 1) /\ DOMAIN image = 0 .. l - 1
  <2>1. 0 \in Int /\ l - 1 \in Int
    BY <1>1, Ranges
  <2> QED BY <1>1, <2>1, FS_Interval
<1>7. \A t \in Team : P[t] \subseteq 0 .. l - 1 /\ f[t] = Cardinality(P[t])
  <2> SUFFICES ASSUME NEW t \in Team
               PROVE  P[t] \subseteq 0 .. l - 1 /\ f[t] = Cardinality(P[t])
    OBVIOUS
  <2>1. ChunkBegin(t) \in Nat /\ ChunkEnd(t) \in Nat /\ ChunkEnd(t) <= l /\ l \in Nat
    BY <1>1, <1>2, SharesCover
  <2>2. ChunkBegin(t) .. ChunkEnd(t) - 1 \subseteq 0 .. l - 1
    BY <2>1
  <2> QED BY <1>4, <1>5, <2>2
<1>8. ASSUME NEW j \in Team, NEW k \in Team, j # k
      PROVE  P[j] \cap P[k] = {}
  <2>1. ChunkBegin(j) \in Nat /\ ChunkEnd(j) \in Nat /\ ChunkBegin(k) \in Nat
        /\ ChunkEnd(k) \in Nat /\ j \in Nat /\ k \in Nat
    BY <1>1, <1>2, SharesCover
  <2>2. ChunkEnd(j) <= ChunkBegin(k) \/ ChunkEnd(k) <= ChunkBegin(j)
    <3>1. j < k \/ k < j
      BY <1>8, <2>1
    <3> QED BY <1>1, <1>2, <3>1, SharesCover
  <2>3. (ChunkBegin(j) .. ChunkEnd(j) - 1) \cap (ChunkBegin(k) .. ChunkEnd(k) - 1) = {}
    BY <2>1, <2>2
  <2> QED BY <1>5, <2>3
<1>9. Covered(P, n, 0 .. l - 1) = {i \in DOMAIN image : image[i] = v}
  <2>1. ASSUME NEW i \in 0 .. l - 1, image[i] = v
        PROVE  \E t \in 0 .. n : i \in P[t]
    <3>1. PICK t \in Team : ChunkBegin(t) <= i /\ i < ChunkEnd(t)
      BY <1>1, <1>2, SharesCover
    <3>2. ChunkBegin(t) \in Nat /\ ChunkEnd(t) \in Nat /\ i \in Nat
      BY <1>1, <1>2, SharesCover
    <3>3. i \in ChunkBegin(t) .. ChunkEnd(t) - 1
      BY <3>1, <3>2
    <3> QED BY <1>3, <1>5, <2>1, <3>3
  <2>2. \A t \in 0 .. n : \A i \in P[t] : image[i] = v
    BY <1>3, <1>5
  <2> QED BY <1>6, <2>1, <2>2 DEF Covered
<1>14. \A t \in 0 .. n : /\ e[t] = histo[v] /\ f[t] = Cardinality(P[t])
                         /\ h[t] = histo[v] + Cardinality(P[t])
  BY <1>3, <1>4, <1>7
<1>15. histo[v] \in Nat /\ IsFiniteSet(0 .. n)
  BY <1>3, FS_Interval DEF TypeInv
<1>16. \A t \in 0 .. n : Cardinality(P[t]) \in Nat
  BY <1>3, <1>6, <1>7, FS_Subset, FS_CardinalityType
<1> HIDE DEF e, f, h, P, n
<1>10. SumOver(f, 0 .. n) = Cardinality(Covered(P, n, 0 .. l - 1))
  <2>1. \A k \in 0 .. n : P[k] \subseteq 0 .. l - 1 /\ f[k] = Cardinality(P[k])
    BY <1>3, <1>7
  <2>2. \A j, k \in 0 .. n : j # k => P[j] \cap P[k] = {}
    BY <1>3, <1>8
  <2> QED BY <1>3, <1>6, <2>1, <2>2, SumCards
<1>11. SumOver(f, 0 .. n) = Cardinality({i \in DOMAIN image : image[i] = v})
  BY <1>9, <1>10, Zenon
<1>12. CountOf(image)[v] = Cardinality({i \in DOMAIN image : image[i] = v})
  BY DEF CountOf
<1>13. SumOver(f, 0 .. n) = CountOf(image)[v]
  BY <1>11, <1>12
<1>17. SumOver(e, 0 .. n) = (n + 1) * histo[v]
  BY <1>3, <1>14, <1>15, SumConst
<1>18. SumOver(h, 0 .. n) = SumOver(e, 0 .. n) + SumOver(f, 0 .. n)
  <2>1. \A t \in 0 .. n : e[t] \in Int /\ f[t] \in Int /\ h[t] = e[t] + f[t]
    BY <1>14, <1>15, <1>16
  <2> QED BY <1>15, <2>1, SumPlus
<1>19. Sum(h, 0, n) = (n + 1) * histo[v] + CountOf(image)[v]
  BY <1>13, <1>17, <1>18, SumIsSumOver
<1>20. n + 1 = nthreads
  BY <1>1, <1>2, SharesCover DEF n
<1>21. Sum(h, 0, n) = nthreads * histo[v] + CountOf(image)[v]
  BY <1>19, <1>20
<1> QED BY <1>21 DEF h, n

-----------------------------------------------------------------------------
(* Types *)

LEMMA NoImageType == ASSUME HistogramAssumption PROVE 1 \in 1 .. MaxLen /\ NoImage \in [0 .. 1 - 1 -> Bin]
<1>1. 0 .. 1 - 1 = {0} /\ 0 \in Bin /\ 1 \in 1 .. MaxLen
  BY Ranges
<1> QED BY <1>1 DEF NoImage

LEMMA NoStatsType ==
    ASSUME HistogramAssumption
    PROVE  NoStats \in [small : Bin, large : Bin, integral : Nat, moment : Nat,
                        median : Nat \X Nat, mode : Bin]
BY Ranges DEF NoStats

LEMMA PlusType == ASSUME NEW f \in [Bin -> Nat], NEW g \in [Bin -> Nat] PROVE Plus(f, g) \in [Bin -> Nat]
<1>1. \A v \in Bin : f[v] \in Nat /\ g[v] \in Nat
  OBVIOUS
<1>2. \A v \in Bin : f[v] + g[v] \in Nat
  BY <1>1
<1> QED BY <1>2 DEF Plus

\* The first pixel of every thread.
LEMMA PositionType ==
    ASSUME HistogramAssumption, nthreads \in Threads, NEW l \in 1 .. MaxLen,
           NEW img \in [0 .. l - 1 -> Bin]
    PROVE  \A t \in Team :
             t * ((Cardinality(DOMAIN img) + nthreads - 1) \div nthreads) \in Nat
<1>1. nthreads \in Nat /\ nthreads >= 1 /\ Team \subseteq Nat /\ l \in Nat /\ l >= 1
  BY DEF HistogramAssumption, Team
<1>2. Cardinality(DOMAIN img) = l
  BY ImageCounts
<1>3. (l + nthreads - 1) \div nthreads \in Nat
  BY <1>1, CeilDiv
<1> QED BY <1>1, <1>2, <1>3

LEMMA WeighedType ==
    ASSUME HistogramAssumption, nthreads \in Threads, NEW h \in [Bin -> Nat], NEW img,
           CountOf(img) \in [Bin -> Nat]
    PROVE  /\ Repeats \in Nat /\ Weighed(h, img) \in [Bin -> Nat]
           /\ \A v \in Bin : Weighed(h, img)[v] = Repeats * h[v] + CountOf(img)[v]
<1>1. Repeats \in Nat
  BY DEF Repeats, HistogramAssumption
<1>2. \A v \in Bin : Repeats * h[v] + CountOf(img)[v] \in Nat
  <2> SUFFICES ASSUME NEW v \in Bin PROVE Repeats * h[v] + CountOf(img)[v] \in Nat
    OBVIOUS
  <2>1. PICK a \in Nat, b \in Nat, m \in Nat :
          a = h[v] /\ b = CountOf(img)[v] /\ m = Repeats
    BY <1>1
  <2>2. m * a + b \in Nat
    OBVIOUS
  <2> QED BY <2>1, <2>2
<1> QED BY <1>1, <1>2 DEF Weighed

LEMMA CopyType ==
    ASSUME HistogramAssumption, TypeInv, NEW v \in Bin
    PROVE  Sum([t \in Team |-> clones[t][v]], 0, nthreads - 1) \in Nat
<1> DEFINE f == [t \in Team |-> clones[t][v]]
<1>1. nthreads \in Nat /\ nthreads >= 1 /\ Team = 0 .. nthreads - 1
  BY DEF HistogramAssumption, TypeInv, Team
<1>2. \A t \in 0 .. nthreads - 1 : f[t] \in Nat
  BY <1>1 DEF TypeInv
<1> HIDE DEF f
<1>3. Sum(f, 0, nthreads - 1) \in Nat
  BY <1>1, <1>2, SumType
<1> QED BY <1>3 DEF f

LEMMA TypeInit == ASSUME HistogramAssumption, Init PROVE TypeInv
<1>1. \E l \in 1 .. MaxLen : image \in [0 .. l - 1 -> Bin]
  BY NoImageType DEF Init
<1>2. stats \in [small : Bin, large : Bin, integral : Nat, moment : Nat,
                 median : Nat \X Nat, mode : Bin]
  BY NoStatsType DEF Init
<1>3. Zero \in [Bin -> Nat] /\ MaxImages \in Nat
  BY Ranges
<1>4. /\ clones \in [Team -> [Bin -> Nat]] /\ pos \in [Team -> Nat]
      /\ bins \in [Bin -> Nat] /\ tally \in [Bin -> Nat]
  BY <1>3 DEF Init
<1>7. weighed \in [Bin -> Nat] /\ histo \in [Bin -> Nat]
  BY <1>3 DEF Init
<1>5. /\ merged \in [Bin -> BOOLEAN] /\ probe \in [Bin -> {"todo", "larger", "done"}]
      /\ best \in Nat /\ found \in Nat /\ images \in 0 .. MaxImages
  BY <1>3 DEF Init
<1>6. /\ nthreads \in Threads /\ range = "all" /\ pc = "idle" /\ refresh \in BOOLEAN
  BY DEF Init
<1> QED BY <1>1, <1>2, <1>4, <1>5, <1>6, <1>7 DEF TypeInv

\* What fill_histogram starts from.
LEMMA CountType ==
    ASSUME HistogramAssumption, TypeInv, NEW img \in Images, NEW h \in [Bin -> Nat],
           Count(img, h), UNCHANGED nthreads
    PROVE  /\ \E l \in 1 .. MaxLen : image' \in [0 .. l - 1 -> Bin]
           /\ bins' \in [Bin -> Nat] /\ CountOf(img) \in [Bin -> Nat]
           /\ clones' \in [Team' -> [Bin -> Nat]] /\ pos' \in [Team' -> Nat]
           /\ histo' \in [Bin -> Nat]
           /\ merged' \in [Bin -> BOOLEAN]
<1>1. PICK l \in 1 .. MaxLen : img \in [0 .. l - 1 -> Bin]
  BY DEF Images
<1>2. Team' = Team /\ nthreads \in Threads
  BY DEF Team, TypeInv
<1>3. pos' \in [Team' -> Nat]
  BY <1>1, <1>2, PositionType DEF Count
<1>4. CountOf(img) \in [Bin -> Nat]
  BY <1>1, ImageCounts
<1> QED BY <1>1, <1>2, <1>3, <1>4 DEF Count

LEMMA TypeStep == ASSUME HistogramAssumption, TypeInv, [Next]_vars PROVE TypeInv'
<1> USE DEF object, given, team, search
<1>1. CASE FillFromImage
  <2>1. PICK img \in Images : Count(img, Zero) /\ tally' = CountOf(img)
                             /\ weighed' = CountOf(img)
    BY <1>1 DEF FillFromImage
  <2>2. UNCHANGED nthreads /\ Zero \in [Bin -> Nat] /\ 1 \in 0 .. MaxImages
    BY <1>1, Ranges DEF FillFromImage
  <2>3. /\ \E l \in 1 .. MaxLen : image' \in [0 .. l - 1 -> Bin]
        /\ bins' \in [Bin -> Nat] /\ CountOf(img) \in [Bin -> Nat]
        /\ clones' \in [Team' -> [Bin -> Nat]] /\ pos' \in [Team' -> Nat]
        /\ histo' \in [Bin -> Nat]
        /\ merged' \in [Bin -> BOOLEAN]
    BY <2>1, <2>2, CountType
  <2> QED BY <1>1, <2>1, <2>2, <2>3 DEF FillFromImage, TypeInv, Count
<1>2. CASE AddFromImage
  <2>1. PICK img \in Images : Count(img, bins) /\ tally' = Plus(tally, CountOf(img))
                             /\ weighed' = Weighed(weighed, img)
    BY <1>2 DEF AddFromImage
  <2>2. UNCHANGED nthreads /\ bins \in [Bin -> Nat]
    BY <1>2 DEF AddFromImage, TypeInv
  <2>3. images + 1 \in 0 .. MaxImages
    BY <1>2, Ranges DEF AddFromImage, TypeInv
  <2>4. /\ \E l \in 1 .. MaxLen : image' \in [0 .. l - 1 -> Bin]
        /\ bins' \in [Bin -> Nat] /\ CountOf(img) \in [Bin -> Nat]
        /\ clones' \in [Team' -> [Bin -> Nat]] /\ pos' \in [Team' -> Nat]
        /\ histo' \in [Bin -> Nat]
        /\ merged' \in [Bin -> BOOLEAN]
    BY <2>1, <2>2, CountType
  <2>5. tally' \in [Bin -> Nat] /\ weighed' \in [Bin -> Nat]
    BY <2>1, <2>4, PlusType, WeighedType DEF TypeInv
  <2>6. range' \in {"all", "current", "stale"}
    BY <1>2 DEF AddFromImage, TypeInv
  <2> QED BY <1>2, <2>1, <2>3, <2>4, <2>5, <2>6 DEF AddFromImage, TypeInv, Count
<1>3. CASE FillStats
  BY <1>3 DEF FillStats, TypeInv, Team
<1>4. CASE Clear
  <2>1. Zero \in [Bin -> Nat] /\ 0 \in 0 .. MaxImages
    BY Ranges
  <2> QED BY <1>4, <2>1, NoStatsType DEF Clear, TypeInv, Team
<1>5. CASE CalcSupport \/ Answered
  BY <1>5 DEF CalcSupport, Answered, TypeInv, Team
<1>6. ASSUME CountEnds, UNCHANGED <<nthreads, stats, search>>, bins' \in [Bin -> Nat]
      PROVE  TypeInv'
  <2>1. \E l \in 1 .. MaxLen : image' \in [0 .. l - 1 -> Bin]
    BY <1>6, NoImageType DEF CountEnds
  <2>2. Zero \in [Bin -> Nat]
    BY Ranges
  <2> QED BY <1>6, <2>1, <2>2 DEF CountEnds, TypeInv, Team
<1>7. CASE CountSerial
  <2>1. bins' \in [Bin -> Nat]
    <3>1. PICK l \in 1 .. MaxLen : image \in [0 .. l - 1 -> Bin]
      BY DEF TypeInv
    <3>2. CountOf(image) \in [Bin -> Nat] /\ bins \in [Bin -> Nat]
      BY <3>1, ImageCounts DEF TypeInv
    <3> QED BY <1>7, <3>2, PlusType DEF CountSerial
  <2> QED BY <1>6, <1>7, <2>1 DEF CountSerial
<1>8. ASSUME NEW t \in Team, CountPixel(t)
      PROVE  TypeInv'
  <2>1. PICK l \in 1 .. MaxLen : image \in [0 .. l - 1 -> Bin]
    BY DEF TypeInv
  <2>2. Len = l /\ l \in Nat
    BY <2>1, SharesCover DEF TypeInv
  <2>3. pos[t] \in Nat /\ image[pos[t]] \in Bin
    <3>1. pos \in [Team -> Nat] /\ pos[t] < Len
      BY <1>8 DEF TypeInv, CountPixel
    <3>2. pos[t] \in Nat /\ pos[t] < l
      BY <2>2, <3>1
    <3>3. pos[t] \in 0 .. l - 1
      BY <2>2, <3>2
    <3> QED BY <2>1, <3>2, <3>3
  <2>4. clones' \in [Team -> [Bin -> Nat]] /\ pos' \in [Team -> Nat]
    <3>1. pos[t] + 1 \in Nat /\ clones[t][image[pos[t]]] + 1 \in Nat
      <4>1. clones \in [Team -> [Bin -> Nat]]
        BY DEF TypeInv
      <4>2. clones[t] \in [Bin -> Nat]
        BY <4>1
      <4>3. clones[t][image[pos[t]]] \in Nat
        BY <2>3, <4>2
      <4> QED BY <2>3, <4>3
    <3> QED BY <1>8, <2>3, <3>1 DEF TypeInv, CountPixel
  <2>5. Team' = Team
    BY <1>8 DEF Team, CountPixel
  <2> QED BY <1>8, <2>4, <2>5 DEF TypeInv, CountPixel
<1>9. ASSUME NEW t \in Team, RunAway(t)
      PROVE  TypeInv'
  BY <1>9 DEF RunAway, TypeInv, Team
<1>10. CASE Counted
  BY <1>10 DEF Counted, TypeInv, Team
<1>11. ASSUME NEW v \in Bin, Merge(v)
       PROVE  TypeInv'
  <2> DEFINE s == Sum([t \in Team |-> clones[t][v]], 0, nthreads - 1)
  <2>1. s \in Nat /\ bins[v] \in Nat
    BY CopyType DEF TypeInv
  <2>2. bins' = [bins EXCEPT ![v] = @ + s]
    BY <1>11 DEF Merge
  <2> HIDE DEF s
  <2>3. bins' \in [Bin -> Nat]
    <3>1. bins \in [Bin -> Nat]
      BY Zenon DEF TypeInv
    <3>2. PICK a \in Nat, b \in Nat : a = bins[v] /\ b = s
      BY <2>1
    <3>3. bins' = [bins EXCEPT ![v] = a + b] /\ a + b \in Nat
      BY <2>2, <3>2
    <3> QED BY ONLY <3>1, <3>3, v \in Bin
  <2> QED BY <1>11, <2>3 DEF Merge, TypeInv, Team
<1>12. CASE Merged
  BY <1>6, <1>12 DEF Merged, TypeInv
<1>13. CASE DeriveStats
  <2> DEFINE small == Smallest(bins)
             large == Largest(bins)
             i == Sum(bins, 0, MaxValue)
             m == Sum([v \in Bin |-> v * bins[v]], small, large)
             q == Quantile(bins, small, large, <<1, 2>>)
  <2>1. stats' = [stats EXCEPT !.small = small, !.large = large, !.integral = i,
                               !.moment = m, !.median = q]
    BY <1>13, Zenon DEF DeriveStats, Smallest, Largest
  <2>2. small \in Bin /\ large \in Bin
    BY Extremes DEF TypeInv
  <2>3. i \in Nat
    <3>1. bins \in [Bin -> Nat]
      BY DEF TypeInv
    <3> QED BY <3>1, SumBounds
  <2>4. m \in Nat
    <3>1. \A v \in Bin : v * bins[v] \in Nat
      <4> SUFFICES ASSUME NEW v \in Bin PROVE v * bins[v] \in Nat
        OBVIOUS
      <4>1. v \in Nat /\ bins[v] \in Nat
        BY Ranges DEF TypeInv
      <4> QED BY <4>1
    <3> DEFINE g == [v \in Bin |-> v * bins[v]]
    <3>2. small \in Nat /\ large \in Int /\ small .. large \subseteq Bin
      BY <2>2, Ranges DEF Bin
    <3>3. \A v \in small .. large : g[v] \in Nat
      BY <3>1, <3>2
    <3> HIDE DEF g, small, large
    <3>4. Sum(g, small, large) \in Nat
      BY <3>2, <3>3, SumType
    <3> QED BY <3>4 DEF g
  <2>5. q \in Nat \X Nat
    <3>1. <<1, 2>>[1] \in Nat /\ <<1, 2>>[2] \in Nat
      OBVIOUS
    <3> HIDE DEF small, large
    <3> QED BY <2>2, <3>1, QuantileType DEF TypeInv
  <2> HIDE DEF small, large, i, m, q
  <2>6. stats' \in [small : Bin, large : Bin, integral : Nat, moment : Nat,
                    median : Nat \X Nat, mode : Bin]
    BY <2>1, <2>2, <2>3, <2>4, <2>5 DEF TypeInv
  <2>7. MaxValue + 1 \in Nat
    BY Ranges
  <2> QED BY <1>13, <2>6, <2>7 DEF DeriveStats, TypeInv, Team
<1>14. CASE ModeSerial
  <2> DEFINE B == {v \in Bin : \A w \in Bin : bins[w] <= bins[v]}
  <2>1. Min(B) \in Bin
    BY MostFrequent DEF TypeInv
  <2>2. stats' = [stats EXCEPT !.mode = Min(B)]
    BY <1>14 DEF ModeSerial
  <2> HIDE DEF B
  <2>3. stats' \in [small : Bin, large : Bin, integral : Nat, moment : Nat,
                    median : Nat \X Nat, mode : Bin]
    BY <2>1, <2>2 DEF TypeInv
  <2> QED BY <1>14, <2>3, Ranges DEF ModeSerial, TypeInv, Team
<1>15. ASSUME NEW v \in Bin, Probe(v) \/ Take(v)
       PROVE  TypeInv'
  <2>1. v \in Nat /\ bins[v] \in Nat
    BY Ranges DEF TypeInv
  <2>2. CASE Probe(v)
    <3>1. probe' \in [Bin -> {"todo", "larger", "done"}]
      BY <2>2 DEF Probe, TypeInv
    <3> QED BY <2>2, <3>1 DEF Probe, TypeInv, Team
  <2>3. CASE Take(v)
    BY <2>1, <2>3 DEF Take, TypeInv, Team
  <2> QED BY <1>15, <2>2, <2>3
<1>16. CASE ModeFound
  <2>1. found % (MaxValue + 1) \in Bin
    <3>1. found \in Nat /\ MaxValue \in Nat
      BY Ranges DEF TypeInv
    <3> QED BY <3>1 DEF Bin
  <2>2. stats' \in [small : Bin, large : Bin, integral : Nat, moment : Nat,
                    median : Nat \X Nat, mode : Bin]
    BY <1>16, <2>1 DEF ModeFound, TypeInv
  <2> QED BY <1>16, <2>2 DEF ModeFound, TypeInv, Team
<1>17. CASE Restart
  <2>1. \E l \in 1 .. MaxLen : image' \in [0 .. l - 1 -> Bin]
    BY <1>17, NoImageType DEF Restart
  <2>2. Zero \in [Bin -> Nat] /\ 0 \in 0 .. MaxImages
    BY Ranges
  <2> QED BY <1>17, <2>1, <2>2, NoStatsType DEF Restart, TypeInv, Team
<1>18. CASE UNCHANGED vars
  BY <1>18 DEF vars, TypeInv, Team
<1> QED BY <1>1, <1>2, <1>3, <1>4, <1>5, <1>7, <1>8, <1>9, <1>10, <1>11, <1>12, <1>13,
           <1>14, <1>15, <1>16, <1>17, <1>18 DEF Next, Working

-----------------------------------------------------------------------------
(* The bins *)

LEMMA PlusFacts ==
    ASSUME HistogramAssumption, NEW f \in [Bin -> Nat], NEW g \in [Bin -> Nat]
    PROVE  /\ Plus(f, g) \in [Bin -> Nat] /\ Plus(Zero, g) = g
           /\ Sum(Plus(f, g), 0, MaxValue) = Sum(f, 0, MaxValue) + Sum(g, 0, MaxValue)
           /\ Populated(g) \subseteq Populated(Plus(f, g))
<1>1. \A v \in Bin : f[v] \in Nat /\ g[v] \in Nat /\ Plus(f, g)[v] = f[v] + g[v]
  BY DEF Plus
<1>2. Plus(f, g) \in [Bin -> Nat]
  BY PlusType
<1>3. Plus(Zero, g) = g
  <2>1. \A v \in Bin : Zero[v] + g[v] = g[v]
    BY <1>1, Ranges
  <2>2. Plus(Zero, g) = [v \in Bin |-> g[v]]
    BY <2>1 DEF Plus
  <2> QED BY <2>2
<1>4. Sum(Plus(f, g), 0, MaxValue) = Sum(f, 0, MaxValue) + Sum(g, 0, MaxValue)
  <2>1. IsFiniteSet(Bin) /\ Bin = 0 .. MaxValue
    BY Ranges DEF Bin
  <2> DEFINE h == Plus(f, g)
  <2>2. \A v \in Bin : f[v] \in Int /\ g[v] \in Int /\ h[v] = f[v] + g[v]
    BY <1>1
  <2> HIDE DEF h
  <2>3. SumOver(h, Bin) = SumOver(f, Bin) + SumOver(g, Bin)
    BY <2>1, <2>2, SumPlus
  <2> QED BY <2>1, <2>3, SumIsSumOver DEF h
<1>5. Populated(g) \subseteq Populated(Plus(f, g))
  BY <1>1 DEF Populated
<1> QED BY <1>2, <1>3, <1>4, <1>5

LEMMA EmptyBins ==
    ASSUME HistogramAssumption
    PROVE  Sum(Zero, 0, MaxValue) = 0
<1>1. Zero = Plus(Zero, Zero) /\ Sum(Zero, 0, MaxValue) \in Nat
  BY Ranges, PlusFacts, SumBounds
<1>2. Sum(Plus(Zero, Zero), 0, MaxValue) = Sum(Zero, 0, MaxValue) + Sum(Zero, 0, MaxValue)
  BY Ranges, PlusFacts
<1>3. Sum(Plus(Zero, Zero), 0, MaxValue) = Sum(Zero, 0, MaxValue)
  BY <1>1
<1> QED BY <1>1, <1>2, <1>3

\* One thread adds the image to what is there.
LEMMA SerialAdds ==
    ASSUME nthreads = 1, NEW h, h \in [Bin -> Nat], NEW img
    PROVE  Weighed(h, img) = Plus(h, CountOf(img))
<1>1. Repeats = 1
  BY DEF Repeats
<1>2. \A v \in Bin : 1 * h[v] = h[v]
  OBVIOUS
<1>3. \A v \in Bin : Repeats * h[v] + CountOf(img)[v] = h[v] + CountOf(img)[v]
  BY <1>1, <1>2
<1> QED BY <1>3 DEF Weighed, Plus

\* A team that fills empty bins repeats nothing.
LEMMA FirstImage ==
    ASSUME HistogramAssumption, nthreads \in Threads, NEW img \in Images
    PROVE  Weighed(Zero, img) = CountOf(img) /\ Plus(Zero, CountOf(img)) = CountOf(img)
<1>1. PICK l \in 1 .. MaxLen : img \in [0 .. l - 1 -> Bin]
  BY DEF Images
<1>2. CountOf(img) \in [Bin -> Nat] /\ Zero \in [Bin -> Nat]
  BY <1>1, ImageCounts, Ranges
<1>3. /\ Weighed(Zero, img) \in [Bin -> Nat] /\ Repeats \in Nat
      /\ \A v \in Bin : Weighed(Zero, img)[v] = Repeats * Zero[v] + CountOf(img)[v]
  BY <1>2, WeighedType
<1>4. \A v \in Bin : Weighed(Zero, img)[v] = CountOf(img)[v]
  <2>1. \A v \in Bin : Zero[v] = 0 /\ CountOf(img)[v] \in Nat
    BY <1>2, Ranges
  <2>2. Repeats * 0 = 0
    BY <1>3
  <2> QED BY <1>3, <2>1, <2>2
<1>5. Weighed(Zero, img) = CountOf(img)
  BY <1>2, <1>3, <1>4
<1> QED BY <1>2, <1>5, PlusFacts

LEMMA TallyStep ==
    ASSUME HistogramAssumption, TypeInv, TallyInv, [Next]_vars
    PROVE  TallyInv'
<1> USE DEF object, given, team, search
<1>1. CASE FillFromImage
  <2>1. PICK img \in Images : tally' = CountOf(img)
    BY <1>1 DEF FillFromImage
  <2>2. PICK l \in 1 .. MaxLen : img \in [0 .. l - 1 -> Bin]
    BY DEF Images
  <2>3. Populated(tally') # {} /\ Sum(tally', 0, MaxValue) = l
    BY <2>1, <2>2, ImageCounts
  <2>4. images' = 1 /\ l <= MaxLen * 1
    BY <1>1, Ranges DEF FillFromImage
  <2> QED BY <2>3, <2>4 DEF TallyInv
<1>2. CASE AddFromImage
  <2>1. PICK img \in Images : tally' = Plus(tally, CountOf(img))
    BY <1>2 DEF AddFromImage
  <2>2. PICK l \in 1 .. MaxLen : img \in [0 .. l - 1 -> Bin]
    BY DEF Images
  <2>3. tally \in [Bin -> Nat] /\ images \in Nat /\ l <= MaxLen /\ l \in Nat /\ MaxLen \in Nat
    BY Ranges DEF TypeInv
  <2>4. /\ CountOf(img) \in [Bin -> Nat] /\ Populated(CountOf(img)) # {}
        /\ Sum(CountOf(img), 0, MaxValue) = l
    BY <2>2, ImageCounts
  <2>5. /\ Sum(tally', 0, MaxValue) = Sum(tally, 0, MaxValue) + l
        /\ Populated(tally') # {}
    BY <2>1, <2>3, <2>4, PlusFacts
  <2>6. Sum(tally, 0, MaxValue) \in Nat /\ Sum(tally, 0, MaxValue) <= MaxLen * images
    BY <2>3, SumBounds DEF TallyInv
  <2>7. images' = images + 1
    BY <1>2 DEF AddFromImage
  <2>8. Sum(tally', 0, MaxValue) <= MaxLen * images'
    <3>1. MaxLen * (images + 1) = MaxLen * images + MaxLen /\ MaxLen * images \in Nat
      BY <2>3
    <3> QED BY <2>3, <2>5, <2>6, <2>7, <3>1
  <2>9. images' # 0
    BY <2>3, <2>7
  <2> QED BY <2>5, <2>8, <2>9 DEF TallyInv
<1>3. CASE Clear \/ Restart
  <2>1. tally' = Zero /\ images' = 0
    BY <1>3 DEF Clear, Restart
  <2>2. 0 <= MaxLen * 0
    BY Ranges
  <2> QED BY <2>1, <2>2, EmptyBins DEF TallyInv
<1>4. ASSUME UNCHANGED <<tally, images>> PROVE TallyInv'
  BY <1>4 DEF TallyInv
<1>5. CASE FillStats \/ CalcSupport \/ Answered \/ CountSerial \/ Counted \/ Merged
           \/ DeriveStats \/ ModeSerial \/ ModeFound
  BY <1>4, <1>5 DEF FillStats, CalcSupport, Answered, CountSerial, CountEnds, Counted, Merged,
                    DeriveStats, ModeSerial, ModeFound
<1>6. ASSUME NEW t \in Team, CountPixel(t) \/ RunAway(t)
      PROVE  TallyInv'
  BY <1>4, <1>6 DEF CountPixel, RunAway
<1>7. ASSUME NEW v \in Bin, Merge(v) \/ Probe(v) \/ Take(v)
      PROVE  TallyInv'
  BY <1>4, <1>7 DEF Merge, Probe, Take
<1>8. CASE UNCHANGED vars
  BY <1>4, <1>8 DEF vars
<1> QED BY <1>1, <1>2, <1>3, <1>5, <1>6, <1>7, <1>8 DEF Next, Working

\* Before the first pixel the shares of the threads are empty.
LEMMA CountTeam ==
    ASSUME HistogramAssumption, TypeInv, NEW img \in Images, NEW h \in [Bin -> Nat],
           Count(img, h), UNCHANGED nthreads
    PROVE  TeamInv'
<1>1. PICK l \in 1 .. MaxLen : img \in [0 .. l - 1 -> Bin]
  BY DEF Images
<1>2. Team' = Team /\ nthreads \in Threads
  BY DEF Team, TypeInv
<1>3. ASSUME NEW t \in Team
      PROVE  pos'[t] = ChunkBegin(t)' /\ pos'[t] \in Nat
  <2>1. pos'[t] = t * ((Cardinality(DOMAIN img) + nthreads - 1) \div nthreads)
    BY DEF Count
  <2>2. pos'[t] \in Nat
    BY <1>1, <1>2, <2>1, PositionType
  <2>3. ChunkBegin(t)' = t * ((Cardinality(DOMAIN img) + nthreads - 1) \div nthreads)
    BY DEF ChunkBegin, ChunkSize, Len, Count
  <2> QED BY <2>1, <2>2, <2>3
<1>4. ASSUME NEW t \in Team, nthreads > 1, NEW v \in Bin
      PROVE  clones'[t][v] = histo'[v] + Cardinality(Share(t, v)')
  <2>1. clones'[t][v] = h[v] /\ histo'[v] = h[v] /\ h[v] \in Nat
    BY <1>4 DEF Count
  <2>2. Share(t, v)' = {}
    <3>1. ChunkBegin(t)' .. pos'[t] - 1 = {}
      BY <1>3
    <3> QED BY <3>1 DEF Share
  <2>3. Cardinality(Share(t, v)') = 0
    BY <2>2, FS_EmptySet, Zenon
  <2> QED BY <2>1, <2>3
<1>5. pc' = "count" /\ \A v \in Bin : merged'[v] = FALSE
  BY DEF Count
<1>6. \A t \in Team : pos'[t] >= ChunkBegin(t)'
  BY <1>3
<1> QED BY <1>2, <1>4, <1>5, <1>6 DEF TeamInv

LEMMA ShareCount ==
    ASSUME HistogramAssumption, TypeInv, NEW t \in Team, NEW v \in Bin
    PROVE  Cardinality(Share(t, v)) \in Nat
<1>1. ChunkBegin(t) \in Nat /\ pos[t] \in Nat
  BY SharesCover DEF TypeInv
<1>2. pos[t] - 1 \in Int /\ ChunkBegin(t) \in Int
  BY <1>1
<1>3. IsFiniteSet(ChunkBegin(t) .. pos[t] - 1)
  BY <1>2, FS_Interval
<1>4. Share(t, v) \subseteq ChunkBegin(t) .. pos[t] - 1
  BY DEF Share
<1> QED BY <1>3, <1>4, FS_Subset, FS_CardinalityType

\* A pixel more is in the share of its thread.
LEMMA ShareGrows ==
    ASSUME HistogramAssumption, TypeInv, NEW t \in Team, pos[t] >= ChunkBegin(t),
           NEW v \in Bin, NEW p, p = pos[t],
           NEW r, r = {i \in ChunkBegin(t) .. p : image[i] = v}
    PROVE  Cardinality(r) = Cardinality(Share(t, v)) + IF image[p] = v THEN 1 ELSE 0
<1>1. ChunkBegin(t) \in Nat /\ p \in Nat /\ p >= ChunkBegin(t)
  BY SharesCover DEF TypeInv
<1>2. IsFiniteSet(Share(t, v))
  <2>1. p - 1 \in Int /\ ChunkBegin(t) \in Int
    BY <1>1
  <2>2. IsFiniteSet(ChunkBegin(t) .. p - 1)
    BY <2>1, FS_Interval
  <2>3. Share(t, v) \subseteq ChunkBegin(t) .. p - 1
    BY DEF Share
  <2> QED BY <2>2, <2>3, FS_Subset
<1>3. p \notin Share(t, v)
  BY <1>1 DEF Share
<1>4. CASE image[p] = v
  <2>1. r = Share(t, v) \cup {p}
    BY <1>1, <1>4 DEF Share
  <2>2. Cardinality(Share(t, v) \cup {p}) = Cardinality(Share(t, v)) + 1
    BY <1>2, <1>3, FS_AddElement
  <2> QED BY <1>4, <2>1, <2>2
<1>5. CASE image[p] # v
  <2>1. r = Share(t, v)
    BY <1>1, <1>5 DEF Share
  <2>2. Cardinality(Share(t, v)) \in Nat
    BY <1>2, FS_CardinalityType
  <2>3. Cardinality(r) = Cardinality(Share(t, v))
    BY <2>1
  <2> QED BY <1>5, <2>2, <2>3
<1> QED BY <1>4, <1>5

LEMMA TeamStep ==
    ASSUME HistogramAssumption, TypeInv, TeamInv, [Next]_vars
    PROVE  TeamInv'
<1> USE DEF object, given, team, search
<1>1. CASE FillFromImage
  <2>1. PICK img \in Images : Count(img, Zero)
    BY <1>1 DEF FillFromImage
  <2> QED BY <1>1, <2>1, Ranges, CountTeam DEF FillFromImage
<1>2. CASE AddFromImage
  <2>1. PICK img \in Images : Count(img, bins)
    BY <1>2 DEF AddFromImage
  <2>2. bins \in [Bin -> Nat]
    BY DEF TypeInv
  <2> QED BY <1>2, <2>1, <2>2, CountTeam DEF AddFromImage
<1>3. ASSUME pc' \notin {"count", "merge"} PROVE TeamInv'
  BY <1>3 DEF TeamInv
<1>4. CASE FillStats \/ CalcSupport \/ Answered \/ CountSerial \/ Merged \/ Clear
           \/ DeriveStats \/ ModeSerial \/ ModeFound \/ Restart
  BY <1>3, <1>4 DEF FillStats, CalcSupport, Answered, CountSerial, CountEnds, Merged, Clear,
                    DeriveStats, ModeSerial, ModeFound, Restart
<1>5. ASSUME NEW t \in Team, CountPixel(t)
      PROVE  TeamInv'
  <2> DEFINE p == pos[t]
  <2>1. /\ pc = "count" /\ pc' = "count" /\ nthreads > 1
        /\ UNCHANGED <<image, nthreads, histo, merged>>
        /\ clones' = [clones EXCEPT ![t][image[p]] = @ + 1]
        /\ pos' = [pos EXCEPT ![t] = @ + 1]
    BY <1>5 DEF CountPixel
  <2>2. \A u \in Team : ChunkBegin(u)' = ChunkBegin(u) /\ ChunkBegin(u) \in Nat
    BY <2>1, SharesCover DEF ChunkBegin, ChunkSize, Len, TypeInv
  <2>3. Team' = Team
    BY <2>1 DEF Team
  <2>4. clones \in [Team -> [Bin -> Nat]] /\ pos \in [Team -> Nat]
        /\ histo \in [Bin -> Nat]
    BY DEF TypeInv
  <2>5. p \in Nat /\ p >= ChunkBegin(t) /\ pos'[t] = p + 1
        /\ \A u \in Team : u # t => pos'[u] = pos[u] /\ clones'[u] = clones[u]
    BY <2>1, <2>4 DEF TeamInv
  <2>6. ASSUME NEW u \in Team PROVE pos'[u] >= ChunkBegin(u)'
    BY <2>1, <2>2, <2>5 DEF TeamInv
  <2>7. ASSUME NEW u \in Team, NEW v \in Bin
        PROVE  clones'[u][v] = histo[v] + Cardinality(Share(u, v)')
    <3>1. clones[u][v] = histo[v] + Cardinality(Share(u, v))
      BY <2>1, <2>7 DEF TeamInv
    <3>2. Share(u, v)' = {i \in ChunkBegin(u) .. pos'[u] - 1 : image[i] = v}
      BY <2>1, <2>2 DEF Share
    <3>3. CASE u # t
      <4>1. Share(u, v)' = Share(u, v)
        BY <2>5, <3>2, <3>3 DEF Share
      <4> QED BY <2>5, <3>1, <3>3, <4>1
    <3>4. CASE u = t
      <4> DEFINE r == {i \in ChunkBegin(t) .. p : image[i] = v}
      <4>1. Share(t, v)' = r
        <5>1. pos'[t] - 1 = p
          BY <2>5
        <5> QED BY <3>2, <3>4, <5>1
      <4>2. Cardinality(r) = Cardinality(Share(t, v)) + IF image[p] = v THEN 1 ELSE 0
        <5>1. p = pos[t] /\ r = {i \in ChunkBegin(t) .. p : image[i] = v}
          OBVIOUS
        <5> HIDE DEF r, p
        <5>2. pos[t] >= ChunkBegin(t)
          BY <2>5, <5>1
        <5> QED BY <5>1, <5>2, ShareGrows
      <4> HIDE DEF r, p
      <4>3. clones'[t][v] = clones[t][v] + IF image[p] = v THEN 1 ELSE 0
        <5>1. clones[t] \in [Bin -> Nat] /\ clones[t][v] \in Nat
          BY <2>4
        <5> QED BY <2>1, <2>4, <5>1
      <4>4. clones[t][v] \in Nat /\ histo[v] \in Nat
        BY <2>4
      <4>5. Cardinality(Share(t, v)) \in Nat
        BY <2>5, ShareCount
      <4> QED BY <3>1, <3>4, <4>1, <4>2, <4>3, <4>4, <4>5
    <3> QED BY <3>3, <3>4
  <2> QED BY <2>1, <2>3, <2>6, <2>7 DEF TeamInv
<1>6. ASSUME NEW t \in Team, RunAway(t) PROVE TeamInv'
  BY <1>3, <1>6 DEF RunAway
<1>7. ASSUME UNCHANGED <<nthreads, image, histo, clones, pos>>,
             pc \in {"count", "merge"}, nthreads > 1,
             pc' = "merge" /\ \A t \in Team : pos[t] = ChunkEnd(t)
      PROVE  TeamInv'
  <2>1. Team' = Team
    BY <1>7 DEF Team
  <2>2. \A t \in Team : ChunkEnd(t)' = ChunkEnd(t) /\ ChunkBegin(t)' = ChunkBegin(t)
    BY <1>7 DEF ChunkEnd, ChunkBegin, ChunkSize, Len
  <2>3. \A t \in Team : \A v \in Bin : Share(t, v)' = Share(t, v)
    BY <1>7, <2>2 DEF Share
  <2> QED BY <1>7, <2>1, <2>2, <2>3 DEF TeamInv
<1>8. CASE Counted
  BY <1>7, <1>8 DEF Counted
<1>9. ASSUME NEW v \in Bin, Merge(v) PROVE TeamInv'
  BY <1>7, <1>9 DEF Merge, TeamInv
<1>10. ASSUME NEW v \in Bin, Probe(v) \/ Take(v) PROVE TeamInv'
  BY <1>3, <1>10 DEF Probe, Take
<1>11. CASE UNCHANGED vars
  BY <1>11 DEF vars, TeamInv, Team, ChunkEnd, ChunkBegin, ChunkSize, Len, Share
<1> QED BY <1>1, <1>2, <1>4, <1>5, <1>6, <1>8, <1>9, <1>10, <1>11 DEF Next, Working

LEMMA BinsStep ==
    ASSUME HistogramAssumption, TypeInv, TeamInv, BinsInv, [Next]_vars
    PROVE  BinsInv'
<1> USE DEF object, given, team, search
<1>1. CASE FillFromImage
  <2>1. PICK img \in Images : Count(img, Zero) /\ weighed' = CountOf(img)
    BY <1>1 DEF FillFromImage
  <2>2. Weighed(Zero, img) = CountOf(img)
    BY <2>1, FirstImage DEF TypeInv
  <2>3. nthreads' = nthreads /\ image' = img
    BY <1>1, <2>1 DEF FillFromImage, Count
  <2>4. pc' = "count" /\ bins' = Zero /\ histo' = Zero
    BY <2>1 DEF Count
  <2>5. weighed' = Weighed(histo', image')
    BY <2>1, <2>2, <2>3, <2>4
  <2>6. Weighed(histo, image)' = Weighed(histo', image')
    BY <2>3 DEF Weighed, Repeats, CountOf
  <2> QED BY <2>4, <2>5, <2>6 DEF BinsInv
<1>2. CASE AddFromImage
  <2>1. PICK img \in Images : Count(img, bins) /\ weighed' = Weighed(weighed, img)
    BY <1>2 DEF AddFromImage
  <2>2. nthreads' = nthreads /\ image' = img /\ pc = "idle"
    BY <1>2, <2>1 DEF AddFromImage, Count
  <2>3. pc' = "count" /\ bins' = bins /\ histo' = bins /\ bins = weighed
    BY <2>1, <2>2 DEF Count, BinsInv
  <2>4. weighed' = Weighed(histo', image')
    BY <2>1, <2>2, <2>3
  <2>5. Weighed(histo, image)' = Weighed(histo', image')
    BY <2>2 DEF Weighed, Repeats, CountOf
  <2> QED BY <2>3, <2>4, <2>5 DEF BinsInv
<1>3. CASE Clear \/ Restart
  BY <1>3 DEF Clear, Restart, BinsInv
<1>4. ASSUME UNCHANGED <<nthreads, bins, weighed, histo, image, merged>>,
             pc' = pc \/ {pc, pc'} \subseteq {"idle", "stats", "mode", "answered"}
                      \/ pc' = "crashed"
      PROVE  BinsInv'
  BY <1>4 DEF BinsInv, Weighed, Repeats, CountOf
<1>5. CASE FillStats \/ CalcSupport \/ Answered \/ DeriveStats \/ ModeSerial \/ ModeFound
  BY <1>4, <1>5 DEF FillStats, CalcSupport, Answered, DeriveStats, ModeSerial, ModeFound
<1>6. ASSUME NEW t \in Team, CountPixel(t) \/ RunAway(t)
      PROVE  BinsInv'
  BY <1>4, <1>6 DEF CountPixel, RunAway
<1>7. ASSUME NEW v \in Bin, Probe(v) \/ Take(v)
      PROVE  BinsInv'
  BY <1>4, <1>7 DEF Probe, Take
<1>8. CASE CountSerial
  <2>1. /\ pc' \in {"idle", "stats"} /\ weighed' = weighed /\ pc = "count" /\ nthreads = 1
        /\ bins' = Plus(bins, CountOf(image))
    BY <1>8 DEF CountSerial, CountEnds
  <2>2. Weighed(histo, image) = Plus(histo, CountOf(image))
    BY <2>1, SerialAdds DEF TypeInv
  <2>3. bins' = weighed'
    BY <2>1, <2>2 DEF BinsInv
  <2> QED BY <2>1, <2>3 DEF BinsInv
<1>9. CASE Counted
  <2>1. pc = "count" /\ pc' = "merge"
        /\ UNCHANGED <<bins, weighed, histo, image, merged, nthreads>>
    BY <1>9 DEF Counted
  <2>2. Weighed(histo, image)' = Weighed(histo, image)
    BY <2>1 DEF Weighed, Repeats, CountOf
  <2>3. \A v \in Bin : merged[v] = FALSE
    BY <2>1 DEF TeamInv
  <2> QED BY <2>1, <2>2, <2>3 DEF BinsInv
<1>10. ASSUME NEW v \in Bin, Merge(v)
       PROVE  BinsInv'
  <2> DEFINE s == Sum([t \in Team |-> clones[t][v]], 0, nthreads - 1)
             c == CountOf(image)
  <2>1. /\ pc = "merge" /\ pc' = "merge" /\ ~merged[v]
        /\ bins' = [bins EXCEPT ![v] = @ + s]
        /\ merged' = [merged EXCEPT ![v] = TRUE]
        /\ UNCHANGED <<weighed, histo, image, nthreads>>
    BY <1>10 DEF Merge
  <2>2. s = nthreads * histo[v] + c[v]
    BY <2>1, CopiesAddUp
  <2> HIDE DEF s
  <2>3. Weighed(histo, image)' = Weighed(histo, image)
    BY <2>1 DEF Weighed, Repeats, CountOf
  <2>4. bins \in [Bin -> Nat] /\ merged \in [Bin -> BOOLEAN] /\ weighed \in [Bin -> Nat]
        /\ histo \in [Bin -> Nat] /\ c \in [Bin -> Nat]
    <3>1. PICK l \in 1 .. MaxLen : image \in [0 .. l - 1 -> Bin]
      BY DEF TypeInv
    <3> QED BY <3>1, ImageCounts DEF TypeInv
  <2>5. weighed[v] = Repeats * histo[v] + c[v]
    <3>1. weighed = Weighed(histo, image) /\ nthreads \in Threads
      BY <2>1 DEF BinsInv, TypeInv
    <3>2. CountOf(image) \in [Bin -> Nat] /\ histo \in [Bin -> Nat]
      BY <2>4
    <3>3. \A w \in Bin : Weighed(histo, image)[w] = Repeats * histo[w] + CountOf(image)[w]
      BY <3>1, <3>2, WeighedType
    <3> QED BY <3>1, <3>3
  <2> HIDE DEF c
  <2>6. nthreads \in Nat /\ Repeats = nthreads + 1
    BY <2>1 DEF Repeats, TeamInv, TypeInv, HistogramAssumption
  <2>7. bins[v] = histo[v]
    BY <2>1 DEF BinsInv
  <2>8. bins'[v] = weighed[v] /\ merged'[v]
    <3>1. PICK a \in Nat, b \in Nat, n \in Nat : a = histo[v] /\ b = c[v] /\ n = nthreads
      BY <2>4, <2>6
    <3>2. a + (n * a + b) = (n + 1) * a + b
      OBVIOUS
    <3>3. bins'[v] = a + (n * a + b)
      BY <2>1, <2>2, <2>4, <2>7, <3>1
    <3> QED BY <2>1, <2>4, <2>5, <2>6, <3>1, <3>2, <3>3
  <2>9. \A w \in Bin : w # v => bins'[w] = bins[w] /\ merged'[w] = merged[w]
    BY <2>1, <2>4
  <2>10. \A w \in Bin : bins'[w] = IF merged'[w] THEN weighed[w] ELSE histo[w]
    BY <2>1, <2>8, <2>9 DEF BinsInv
  <2> QED BY <2>1, <2>3, <2>10 DEF BinsInv
<1>11. CASE Merged
  <2>1. /\ pc = "merge" /\ pc' \in {"idle", "stats"} /\ UNCHANGED <<bins, weighed>>
        /\ \A v \in Bin : merged[v]
    BY <1>11 DEF Merged, CountEnds
  <2>2. \A v \in Bin : bins[v] = weighed[v]
    BY <2>1 DEF BinsInv
  <2>3. bins = weighed
    BY <2>2 DEF TypeInv
  <2> QED BY <2>1, <2>3 DEF BinsInv
<1>12. CASE UNCHANGED vars
  BY <1>4, <1>12 DEF vars
<1> QED BY <1>1, <1>2, <1>3, <1>5, <1>6, <1>7, <1>8, <1>9, <1>10, <1>11, <1>12
        DEF Next, Working

LEMMA WeighedStep ==
    ASSUME HistogramAssumption, TypeInv, TallyInv, WeighedInv, [Next]_vars
    PROVE  WeighedInv'
<1> USE DEF object, given, team, search
<1>1. CASE FillFromImage
  BY <1>1 DEF FillFromImage, WeighedInv
<1>2. CASE AddFromImage
  <2>1. PICK img \in Images : /\ tally' = Plus(tally, CountOf(img))
                              /\ weighed' = Weighed(weighed, img)
    BY <1>2 DEF AddFromImage
  <2>2. images \in Nat /\ images' = images + 1 /\ nthreads' = nthreads
    BY <1>2 DEF AddFromImage, TypeInv
  <2>3. ASSUME Sound' PROVE weighed' = tally'
    <3>1. Sound /\ (nthreads = 1 \/ images = 0)
      BY <2>2, <2>3 DEF Sound
    <3>2. weighed = tally
      BY <3>1 DEF WeighedInv
    <3>3. CASE nthreads = 1
      <4>1. Weighed(weighed, img) = Plus(weighed, CountOf(img))
        BY <3>3, SerialAdds DEF TypeInv
      <4> QED BY <2>1, <3>2, <4>1
    <3>4. CASE images = 0
      <4>1. Weighed(Zero, img) = CountOf(img) /\ Plus(Zero, CountOf(img)) = CountOf(img)
        BY FirstImage DEF TypeInv
      <4> QED BY <2>1, <3>2, <3>4, <4>1 DEF WeighedInv
    <3> QED BY <3>1, <3>3, <3>4
  <2>4. images' # 0
    BY <2>2
  <2> QED BY <2>3, <2>4 DEF WeighedInv
<1>3. CASE Clear \/ Restart
  BY <1>3 DEF Clear, Restart, WeighedInv
<1>4. ASSUME UNCHANGED <<nthreads, tally, weighed, images>> PROVE WeighedInv'
  BY <1>4 DEF WeighedInv, Sound
<1>5. CASE FillStats \/ CalcSupport \/ Answered \/ CountSerial \/ Counted \/ Merged
           \/ DeriveStats \/ ModeSerial \/ ModeFound
  BY <1>4, <1>5 DEF FillStats, CalcSupport, Answered, CountSerial, CountEnds, Counted, Merged,
                    DeriveStats, ModeSerial, ModeFound
<1>6. ASSUME NEW t \in Team, CountPixel(t) \/ RunAway(t)
      PROVE  WeighedInv'
  BY <1>4, <1>6 DEF CountPixel, RunAway
<1>7. ASSUME NEW v \in Bin, Merge(v) \/ Probe(v) \/ Take(v)
      PROVE  WeighedInv'
  BY <1>4, <1>7 DEF Merge, Probe, Take
<1>8. CASE UNCHANGED vars
  BY <1>4, <1>8 DEF vars
<1> QED BY <1>1, <1>2, <1>3, <1>5, <1>6, <1>7, <1>8 DEF Next, Working

-----------------------------------------------------------------------------
(* The figures *)

LEMMA ModeStep ==
    ASSUME HistogramAssumption, TypeInv, ModeInv, [Next]_vars
    PROVE  ModeInv'
<1> USE DEF object, given, team, search
<1>1. ASSUME pc' # "mode" PROVE ModeInv'
  BY <1>1 DEF ModeInv
<1>2. ASSUME pc # "mode", pc' = pc PROVE ModeInv'
  BY <1>2 DEF ModeInv
<1>3. CASE FillFromImage \/ AddFromImage \/ FillStats \/ CalcSupport \/ Answered
           \/ CountSerial \/ Counted \/ Merged \/ ModeSerial \/ ModeFound \/ Restart
  BY <1>1, <1>3 DEF FillFromImage, AddFromImage, FillStats, CalcSupport, Answered, CountSerial,
                    CountEnds, Counted, Merged, ModeSerial, ModeFound, Restart, Count
<1>4. CASE Clear
  BY <1>2, <1>4 DEF Clear
<1>5. ASSUME NEW t \in Team, CountPixel(t) \/ RunAway(t)
      PROVE  ModeInv'
  BY <1>1, <1>2, <1>5 DEF CountPixel, RunAway
<1>6. ASSUME NEW v \in Bin, Merge(v)
      PROVE  ModeInv'
  BY <1>2, <1>6 DEF Merge
<1>7. CASE DeriveStats
  <2>1. best' = 0 /\ \A v \in Bin : probe'[v] = "todo"
    BY <1>7 DEF DeriveStats
  <2> QED BY <2>1 DEF ModeInv, Populated
<1>8. ASSUME NEW v \in Bin, Probe(v)
      PROVE  ModeInv'
  <2>1. /\ pc = "mode" /\ pc' = "mode" /\ UNCHANGED <<bins, best, found>>
        /\ probe' = [probe EXCEPT ![v] = IF bins[v] > best THEN "larger" ELSE "done"]
    BY <1>8 DEF Probe
  <2>2. probe \in [Bin -> {"todo", "larger", "done"}] /\ best \in Nat /\ bins[v] \in Nat
    BY DEF TypeInv
  <2>3. probe'[v] = "larger" => bins[v] > 0
    BY <2>1, <2>2
  <2>4. best = 0 /\ bins[v] > 0 => probe'[v] # "done"
    BY <2>1, <2>2
  <2>5. \A w \in Bin : w # v => probe'[w] = probe[w]
    BY <2>1, <2>2
  <2> QED BY <2>1, <2>3, <2>4, <2>5 DEF ModeInv, Populated
<1>9. ASSUME NEW v \in Bin, Take(v)
      PROVE  ModeInv'
  <2>1. /\ pc = "mode" /\ probe[v] = "larger" /\ UNCHANGED bins
        /\ probe' = [probe EXCEPT ![v] = "done"] /\ best' = bins[v] /\ found' = v
    BY <1>9 DEF Take
  <2>2. probe \in [Bin -> {"todo", "larger", "done"}] /\ bins[v] \in Nat
    BY DEF TypeInv
  <2>3. bins[v] > 0
    BY <2>1 DEF ModeInv
  <2>4. best' # 0 /\ found' \in Populated(bins')
    BY <2>1, <2>2, <2>3 DEF Populated
  <2>5. \A w \in Bin : probe'[w] = "larger" => probe[w] = "larger"
    BY <2>1, <2>2
  <2> QED BY <2>1, <2>4, <2>5 DEF ModeInv
<1>10. CASE UNCHANGED vars
  BY <1>10 DEF vars, ModeInv, Populated
<1> QED BY <1>3, <1>4, <1>5, <1>6, <1>7, <1>8, <1>9, <1>10 DEF Next, Working

\* The mode is a value that occurred: the threads may overwrite the maximum with a
\* smaller one, never with an empty bin.
LEMMA ModeOccurs ==
    ASSUME HistogramAssumption, TypeInv, ModeInv, ModeSerial \/ ModeFound,
           Populated(bins) # {}
    PROVE  stats'.mode \in Populated(bins)
<1>1. bins \in [Bin -> Nat] /\ found \in Nat
  BY DEF TypeInv
<1>2. CASE ModeSerial
  <2> DEFINE B == {v \in Bin : \A w \in Bin : bins[w] <= bins[v]}
  <2>1. Min(B) \in Populated(bins)
    BY <1>1, MostFrequent
  <2>2. stats' = [stats EXCEPT !.mode = Min(B)]
    BY <1>2 DEF ModeSerial
  <2> HIDE DEF B
  <2> QED BY <2>1, <2>2 DEF TypeInv
<1>3. CASE ModeFound
  <2>1. PICK v \in Populated(bins) : TRUE
    OBVIOUS
  <2>2. probe[v] = "done"
    BY <1>3, <2>1 DEF ModeFound, Populated
  <2>3. pc = "mode" /\ stats' = [stats EXCEPT !.mode = found % (MaxValue + 1)]
    BY <1>3 DEF ModeFound
  <2>4. found \in Populated(bins)
    BY <2>1, <2>2, <2>3 DEF ModeInv
  <2>5. found % (MaxValue + 1) = found
    <3>1. found \in 0 .. MaxValue /\ MaxValue \in Nat
      BY <2>4, Ranges DEF Populated, Bin
    <3> QED BY <3>1
  <2> QED BY <2>3, <2>4, <2>5 DEF TypeInv
<1> QED BY <1>2, <1>3

LEMMA StatsInit == ASSUME HistogramAssumption, Init PROVE StatsInv
BY DEF Init, StatsInv, NoStats

LEMMA StatsStep ==
    ASSUME HistogramAssumption, TypeInv, ModeInv, StatsInv, [Next]_vars
    PROVE  StatsInv'
<1> USE DEF object, given, team, search
<1>1. ASSUME UNCHANGED <<stats, bins, range, refresh>>,
             \/ pc' = pc \/ pc' \in {"stats", "crashed"}
             \/ {pc, pc'} \subseteq {"idle", "answered"}
             \/ {pc, pc'} \subseteq {"count", "merge"}
      PROVE  StatsInv'
  <2>1. Smallest(bins)' = Smallest(bins) /\ Largest(bins)' = Largest(bins)
        /\ Populated(bins)' = Populated(bins)
    BY <1>1 DEF Smallest, Largest, Populated
  <2>2. (Quantile(bins, stats.small, stats.large, <<1, 2>>))'
          = Quantile(bins, stats.small, stats.large, <<1, 2>>)
        /\ Sum(bins, 0, MaxValue)' = Sum(bins, 0, MaxValue)
        /\ Sum([v \in Bin |-> v * bins[v]], stats.small, stats.large)'
             = Sum([v \in Bin |-> v * bins[v]], stats.small, stats.large)
    BY <1>1
  <2>3. pc' \in {"count", "merge"} => pc \in {"count", "merge"}
    BY <1>1
  <2>4. pc' \in {"idle", "answered"} => pc \in {"idle", "answered"}
    BY <1>1
  <2>5. pc' = "mode" => pc = "mode"
    BY <1>1
  <2> QED BY <1>1, <2>1, <2>2, <2>3, <2>4, <2>5 DEF StatsInv
<1>2. CASE FillStats \/ CalcSupport \/ Answered \/ Counted
  BY <1>1, <1>2 DEF FillStats, CalcSupport, Answered, Counted
<1>3. ASSUME NEW t \in Team, CountPixel(t) \/ RunAway(t)
      PROVE  StatsInv'
  BY <1>1, <1>3 DEF CountPixel, RunAway
<1>4. ASSUME NEW v \in Bin, Probe(v) \/ Take(v)
      PROVE  StatsInv'
  BY <1>1, <1>4 DEF Probe, Take
<1>5. ASSUME UNCHANGED stats, pc' \notin {"idle", "answered", "mode"},
             range' = range \/ range' = "stale",
             pc' \in {"count", "merge"} /\ ~refresh' => range' # "current"
      PROVE  StatsInv'
  BY <1>5 DEF StatsInv
<1>6. CASE FillFromImage
  BY <1>5, <1>6 DEF FillFromImage, Count
<1>7. CASE AddFromImage
  BY <1>5, <1>7 DEF AddFromImage, Count
<1>8. ASSUME NEW v \in Bin, Merge(v)
      PROVE  StatsInv'
  <2>1. pc = "merge" /\ pc' = "merge" /\ UNCHANGED <<stats, range, refresh>>
    BY <1>8 DEF Merge
  <2> QED BY <1>5, <2>1 DEF StatsInv
<1>9. CASE CountSerial \/ Merged
  <2>1. /\ pc \in {"count", "merge"} /\ UNCHANGED <<stats, range>>
        /\ pc' = IF refresh THEN "stats" ELSE "idle"
    BY <1>9 DEF CountSerial, Merged, CountEnds
  <2>2. CASE refresh
    BY <1>5, <2>1, <2>2
  <2>3. CASE ~refresh
    <3>1. range # "current"
      BY <2>1, <2>3 DEF StatsInv
    <3> QED BY <2>1, <2>3, <3>1 DEF StatsInv
  <2> QED BY <2>2, <2>3
<1>10. CASE Clear \/ Restart
  <2>1. range' = "all" /\ stats' = NoStats /\ pc' = "idle"
    BY <1>10 DEF Clear, Restart
  <2> QED BY <2>1 DEF StatsInv, NoStats
<1>11. CASE DeriveStats
  <2> DEFINE small == Smallest(bins)
             large == Largest(bins)
             i == Sum(bins, 0, MaxValue)
             m == Sum([v \in Bin |-> v * bins[v]], small, large)
             q == Quantile(bins, small, large, <<1, 2>>)
  <2>1. stats' = [stats EXCEPT !.small = small, !.large = large, !.integral = i,
                               !.moment = m, !.median = q]
    BY <1>11, Zenon DEF DeriveStats, Smallest, Largest
  <2> HIDE DEF small, large, i, m, q
  <2>2. /\ stats'.small = small /\ stats'.large = large /\ stats'.integral = i
        /\ stats'.moment = m /\ stats'.median = q
    BY <2>1 DEF TypeInv
  <2>3. pc' = "mode" /\ range' = "current" /\ bins' = bins
    BY <1>11 DEF DeriveStats
  <2>4. /\ stats'.small = Smallest(bins) /\ stats'.large = Largest(bins)
        /\ stats'.integral = Sum(bins, 0, MaxValue)
        /\ stats'.moment = Sum([v \in Bin |-> v * bins[v]], stats'.small, stats'.large)
        /\ stats'.median = Quantile(bins, stats'.small, stats'.large, <<1, 2>>)
    BY <2>2, Zenon DEF small, large, i, m, q
  <2>5. Smallest(bins)' = Smallest(bins') /\ Largest(bins)' = Largest(bins')
    BY DEF Smallest, Largest, Populated
  <2>6. /\ stats'.small = Smallest(bins)' /\ stats'.large = Largest(bins)'
        /\ stats'.integral = Sum(bins', 0, MaxValue)
        /\ stats'.moment = Sum([v \in Bin |-> v * bins'[v]], stats'.small, stats'.large)
        /\ stats'.median = Quantile(bins', stats'.small, stats'.large, <<1, 2>>)
    BY <2>3, <2>4, <2>5, Zenon
  <2> QED BY <2>3, <2>6 DEF StatsInv
<1>12. CASE ModeSerial \/ ModeFound
  <2>1. /\ pc = "mode" /\ pc' = "idle" /\ UNCHANGED <<bins, range>>
        /\ \E n : stats' = [stats EXCEPT !.mode = n]
    BY <1>12 DEF ModeSerial, ModeFound
  <2>2. /\ stats'.small = stats.small /\ stats'.large = stats.large
        /\ stats'.integral = stats.integral /\ stats'.moment = stats.moment
        /\ stats'.median = stats.median
    BY <2>1 DEF TypeInv
  <2>3. Populated(bins) # {} => stats'.mode \in Populated(bins)
    BY <1>12, ModeOccurs
  <2>4. Smallest(bins)' = Smallest(bins) /\ Largest(bins)' = Largest(bins)
        /\ Populated(bins)' = Populated(bins)
    BY <2>1 DEF Smallest, Largest, Populated
  <2>5. range = "current" =>
          /\ stats'.small = Smallest(bins) /\ stats'.large = Largest(bins)
          /\ stats'.integral = Sum(bins, 0, MaxValue)
          /\ stats'.moment = Sum([v \in Bin |-> v * bins[v]], stats.small, stats.large)
          /\ stats'.median = Quantile(bins, stats.small, stats.large, <<1, 2>>)
    BY <2>1, <2>2 DEF StatsInv
  <2>6. range = "current" =>
          /\ stats'.integral = Sum(bins', 0, MaxValue)
          /\ stats'.moment = Sum([v \in Bin |-> v * bins'[v]], stats'.small, stats'.large)
          /\ stats'.median = Quantile(bins', stats'.small, stats'.large, <<1, 2>>)
    BY <2>1, <2>2, <2>5, Zenon
  <2>7. range = "all" => stats.small = 0 /\ stats.large = MaxValue
    BY DEF StatsInv
  <2> QED BY <2>1, <2>2, <2>3, <2>4, <2>5, <2>6, <2>7 DEF StatsInv
<1>13. CASE UNCHANGED vars
  BY <1>1, <1>13 DEF vars
<1> QED BY <1>2, <1>3, <1>4, <1>6, <1>7, <1>8, <1>9, <1>10, <1>11, <1>12, <1>13
        DEF Next, Working

LEMMA AnswerStep ==
    ASSUME HistogramAssumption, TypeInv, AnswerInv, [Next]_vars
    PROVE  AnswerInv'
<1> USE DEF object, given, team, search
<1>1. ASSUME pc' # "answered" PROVE AnswerInv'
  BY <1>1 DEF AnswerInv
<1>2. ASSUME pc # "answered", pc' = pc PROVE AnswerInv'
  BY <1>2 DEF AnswerInv
<1>3. CASE FillFromImage \/ AddFromImage \/ FillStats \/ Answered \/ CountSerial \/ Counted
           \/ Merged \/ DeriveStats \/ ModeSerial \/ ModeFound \/ Restart
  BY <1>1, <1>3 DEF FillFromImage, AddFromImage, FillStats, Answered, CountSerial, CountEnds,
                    Counted, Merged, DeriveStats, ModeSerial, ModeFound, Restart, Count
<1>4. CASE Clear
  BY <1>2, <1>4 DEF Clear
<1>5. ASSUME NEW t \in Team, CountPixel(t) \/ RunAway(t)
      PROVE  AnswerInv'
  BY <1>1, <1>2, <1>5 DEF CountPixel, RunAway
<1>6. ASSUME NEW v \in Bin, Merge(v) \/ Probe(v) \/ Take(v)
      PROVE  AnswerInv'
  BY <1>2, <1>6 DEF Merge, Probe, Take
<1>7. CASE CalcSupport
  <2>1. PICK th \in Thresholds :
          answer' = [th |-> th, value |-> Quantile(bins, stats.small, stats.large, th)]
    BY <1>7 DEF CalcSupport
  <2>2. UNCHANGED <<bins, stats>>
    BY <1>7 DEF CalcSupport
  <2>3. answer'.th = th /\ answer'.value = Quantile(bins, stats.small, stats.large, th)
    BY <2>1
  <2>4. answer'.value = Quantile(bins', stats'.small, stats'.large, answer'.th)
    BY <2>2, <2>3, Zenon
  <2> QED BY <2>3, <2>4 DEF AnswerInv
<1>8. CASE UNCHANGED vars
  BY <1>8, Zenon DEF vars, AnswerInv
<1> QED BY <1>3, <1>4, <1>5, <1>6, <1>7, <1>8 DEF Next, Working

-----------------------------------------------------------------------------
(* Quantiles *)

\* Two bins hold no more than all together.
LEMMA TwoBins ==
    ASSUME HistogramAssumption, NEW h \in [Bin -> Nat], NEW j \in Bin, NEW k \in Bin, j # k
    PROVE  h[j] + h[k] <= Sum(h, 0, MaxValue)
<1>1. IsFiniteSet(Bin) /\ Bin = 0 .. MaxValue /\ \A v \in Bin : h[v] \in Nat
  BY Ranges DEF Bin
<1> DEFINE R == Bin \ {j}
           Q == R \ {k}
<1>2. IsFiniteSet(R) /\ IsFiniteSet(Q)
  BY <1>1, FS_Subset
<1>3. Bin = R \cup {j} /\ j \notin R /\ R = Q \cup {k} /\ k \notin Q
  OBVIOUS
<1>4. /\ \A v \in R : h[v] \in Int /\ h[v] \in Nat
      /\ \A v \in Q : h[v] \in Int /\ h[v] \in Nat
  BY <1>1
<1>5. h[j] \in Nat /\ h[k] \in Nat /\ h[j] \in Int /\ h[k] \in Int
  BY <1>1
<1> HIDE DEF R, Q
<1>6. SumOver(h, R \cup {j}) = h[j] + SumOver(h, R)
  BY <1>2, <1>3, <1>4, <1>5, SumOverAdd
<1>7. SumOver(h, Q \cup {k}) = h[k] + SumOver(h, Q)
  BY <1>2, <1>3, <1>4, <1>5, SumOverAdd
<1>8. SumOver(h, Bin) = SumOver(h, R \cup {j}) /\ SumOver(h, R) = SumOver(h, Q \cup {k})
  BY <1>3, Zenon
<1>9. SumOver(h, Q) \in Nat
  BY <1>2, <1>4, SumOverType
<1>10. Sum(h, 0, MaxValue) = SumOver(h, Bin)
  BY <1>1, SumIsSumOver
<1> QED BY <1>5, <1>6, <1>7, <1>8, <1>9, <1>10

\* Only the bins between smallest and largest populated one count.
LEMMA RangeSums ==
    ASSUME HistogramAssumption, NEW h \in [Bin -> Nat], NEW lo \in Bin, NEW hi \in Bin,
           Populated(h) \subseteq lo .. hi
    PROVE  /\ Sum(h, lo, hi) = Sum(h, 0, MaxValue)
           /\ \A v \in lo .. hi : Sum(h, lo, v) = Sum(h, 0, v)
           /\ \A v \in Bin : v < lo => Sum(h, 0, v) = 0
           /\ \A v \in Bin : Sum(h, 0, v) \in Nat
<1>1. /\ lo \in Nat /\ hi \in Nat /\ lo <= MaxValue /\ hi <= MaxValue /\ MaxValue \in Nat
      /\ \A v \in Bin : v \in Nat /\ v <= MaxValue
  BY Ranges DEF Bin
<1>2. \A v \in Nat : v <= MaxValue => h[v] \in Int /\ h[v] \in Nat
  BY <1>1 DEF Bin
<1>3. \A v \in Nat : v <= MaxValue /\ ~(lo <= v /\ v <= hi) => h[v] = 0
  <2> SUFFICES ASSUME NEW v \in Nat, v <= MaxValue, ~(lo <= v /\ v <= hi) PROVE h[v] = 0
    OBVIOUS
  <2>1. v \in Bin /\ v \notin Populated(h)
    BY <1>1 DEF Bin
  <2>2. h[v] \in Nat /\ ~(h[v] > 0)
    BY <1>2, <2>1 DEF Populated
  <2> QED BY <2>2
<1>4. ASSUME NEW v \in Nat, v <= MaxValue
      PROVE  IsFiniteSet(0 .. v)
  BY FS_Interval
<1>5. ASSUME NEW v \in Nat, v <= MaxValue, NEW w \in Nat, w <= v, v = w \/ w = hi
      PROVE  Sum(h, lo, w) = Sum(h, 0, v)
  <2> DEFINE S == 0 .. v
             T == lo .. w
  <2>1. T \subseteq S /\ IsFiniteSet(S)
    BY <1>1, <1>4, <1>5
  <2>2. \A x \in S : x \in Nat /\ x <= MaxValue
    BY <1>1, <1>5
  <2>3. ASSUME NEW x \in S \ T PROVE ~(lo <= x /\ x <= hi)
    BY <1>1, <1>5, <2>3
  <2>4. \A x \in S : h[x] \in Int
    BY <1>2, <2>2
  <2>5. \A x \in S \ T : h[x] = 0
    BY <1>3, <2>2, <2>3
  <2>6. Sum(h, lo, w) = SumOver(h, T) /\ Sum(h, 0, v) = SumOver(h, S)
    BY SumIsSumOver
  <2> HIDE DEF S, T
  <2>7. SumOver(h, S) = SumOver(h, T)
    BY <2>1, <2>4, <2>5, SumSupport
  <2> QED BY <2>6, <2>7
<1>6. ASSUME NEW v \in Bin, v < lo
      PROVE  Sum(h, 0, v) = 0
  <2> DEFINE S == 0 .. v
             T == {}
  <2>1. T \subseteq S /\ IsFiniteSet(S)
    BY <1>1, <1>4
  <2>2. \A x \in S : x \in Nat /\ x <= MaxValue /\ ~(lo <= x)
    BY <1>1, <1>6
  <2>3. /\ \A x \in S : h[x] \in Int
        /\ \A x \in S \ T : h[x] = 0
    BY <1>2, <1>3, <2>2
  <2>4. Sum(h, 0, v) = SumOver(h, S) /\ SumOver(h, T) = 0
    BY SumIsSumOver, SumOverEmpty
  <2> HIDE DEF S, T
  <2>5. SumOver(h, S) = SumOver(h, T)
    BY <2>1, <2>3, SumSupport
  <2> QED BY <2>4, <2>5
<1>7. \A v \in Bin : Sum(h, 0, v) \in Nat
  <2> SUFFICES ASSUME NEW v \in Bin PROVE Sum(h, 0, v) \in Nat
    OBVIOUS
  <2>1. v \in Int /\ 0 \in Nat /\ \A x \in 0 .. v : h[x] \in Nat
    BY <1>1, <1>2
  <2> QED BY <2>1, SumType
<1>8. Sum(h, lo, hi) = Sum(h, 0, MaxValue)
  BY <1>1, <1>5
<1>9. \A v \in lo .. hi : Sum(h, lo, v) = Sum(h, 0, v)
  <2> SUFFICES ASSUME NEW v \in lo .. hi PROVE Sum(h, lo, v) = Sum(h, 0, v)
    OBVIOUS
  <2>1. v \in Nat /\ v <= hi /\ v <= MaxValue /\ v <= v
    BY <1>1
  <2> QED BY <1>5, <2>1
<1> QED BY <1>6, <1>7, <1>8, <1>9

\* The bin of a quantile, of the bins in a range that leaves no value out, is the
\* first one with enough below it of all bins.
LEMMA QuantileFirst ==
    ASSUME HistogramAssumption, NEW h \in [Bin -> Nat], Populated(h) # {},
           NEW lo \in Bin, NEW hi \in Bin, Populated(h) \subseteq lo .. hi,
           NEW th, th[1] \in Nat, th[2] \in Nat, th[1] < th[2]
    PROVE  LET full == {v \in Bin : Sum(h, 0, v) * th[2] > th[1] * Sum(h, 0, MaxValue)}
           IN  /\ QuantileBin(h, lo, hi, th) = Min(full)
               /\ Min(full) \in lo .. hi
<1> DEFINE p == th[1]
           q == th[2]
           N == Sum(h, 0, MaxValue)
           full == {v \in Bin : Sum(h, 0, v) * q > p * N}
           enough == {v \in lo .. hi : Sum(h, lo, v) * q > p * Sum(h, lo, hi)}
<1>1. /\ Sum(h, lo, hi) = N
      /\ \A v \in lo .. hi : Sum(h, lo, v) = Sum(h, 0, v)
      /\ \A v \in Bin : v < lo => Sum(h, 0, v) = 0
  BY RangeSums
<1>2. p \in Nat /\ q \in Nat /\ p < q /\ N \in Nat /\ N > 0
  <2>1. PICK v \in Bin : h[v] > 0
    BY DEF Populated
  <2>2. h[v] \in Nat /\ h[v] <= N /\ N \in Nat
    BY SumBounds
  <2> QED BY <2>1, <2>2
<1>3. lo .. hi \subseteq Bin /\ lo .. hi \subseteq Nat /\ Bin \subseteq Nat
      /\ lo \in Nat /\ hi \in Nat /\ lo <= hi /\ hi <= MaxValue /\ MaxValue \in Nat
  <2>1. lo \in Nat /\ hi \in Nat /\ hi <= MaxValue /\ MaxValue \in Nat
    BY Ranges DEF Bin
  <2>2. lo <= hi
    BY <2>1
  <2> QED BY <2>1, <2>2, Ranges DEF Bin
<1>4. \A v : v \in enough <=> v \in lo .. hi /\ Sum(h, 0, v) * q > p * N
  BY <1>1
<1>5. hi \in enough
  <2>1. hi \in lo .. hi
    BY <1>3
  <2>2. Sum(h, 0, hi) = N
    BY <1>1, <2>1
  <2>3. N * q > p * N
    <3> HIDE DEF p, q, N
    <3>1. p + 1 <= q
      BY <1>2
    <3>2. N * (p + 1) <= N * q
      BY <1>2, <3>1
    <3>3. N * (p + 1) = p * N + N /\ p * N \in Nat
      BY <1>2
    <3>4. N * q \in Nat
      BY <1>2
    <3> QED BY <1>2, <3>2, <3>3, <3>4
  <2> QED BY <1>4, <2>1, <2>2, <2>3
<1>6. \A v : v \in full <=> v \in Bin /\ Sum(h, 0, v) * q > p * N
  OBVIOUS
<1>7. \A v \in full : v \in Nat /\ lo <= v
  <2> SUFFICES ASSUME NEW v \in full PROVE v \in Nat /\ lo <= v
    OBVIOUS
  <2>1. v \in Bin /\ v \in Nat /\ Sum(h, 0, v) * q > p * N
    BY <1>3, <1>6
  <2>2. ASSUME v < lo PROVE FALSE
    <3>1. Sum(h, 0, v) = 0
      BY <1>1, <2>1, <2>2
    <3>2. Sum(h, 0, v) * q = 0
      BY <1>2, <3>1
    <3> HIDE DEF p, q, N
    <3>3. p * N \in Nat
      BY <1>2
    <3> QED BY <2>1, <3>2, <3>3
  <2> QED BY <1>3, <2>1, <2>2
<1> HIDE DEF full, enough
<1>8. PICK x \in enough : \A y \in enough : x <= y
  <2>1. enough \subseteq Nat /\ enough # {}
    BY <1>3, <1>4, <1>5
  <2> QED BY <2>1, NatMin
<1>9. x \in full /\ \A y \in full : x <= y
  <2>1. x \in lo .. hi /\ x \in full /\ x <= hi /\ x \in Nat
    BY <1>3, <1>4, <1>6
  <2>2. ASSUME NEW y \in full PROVE x <= y
    <3>1. y \in Nat /\ lo <= y
      BY <1>7
    <3>2. CASE y <= hi
      <4>1. y \in lo .. hi
        BY <1>3, <3>1, <3>2
      <4>2. y \in enough
        BY <1>4, <1>6, <2>2, <4>1
      <4> QED BY <1>8, <4>2
    <3>3. CASE y > hi
      BY <1>3, <2>1, <3>1, <3>3
    <3> QED BY <1>3, <3>1, <3>2, <3>3
  <2> QED BY <2>1, <2>2
<1>10. Min(full) = x
  <2>1. \A y \in full : (\A z \in full : y <= z) => y = x
    BY <1>3, <1>4, <1>7, <1>9
  <2>2. Min(full) \in full /\ \A z \in full : Min(full) <= z
    BY <1>9, Zenon DEF Min
  <2> QED BY <2>1, <2>2
<1>11. Min(enough) = x
  <2>1. \A y \in enough : (\A z \in enough : y <= z) => y = x
    BY <1>3, <1>4, <1>8
  <2>2. Min(enough) \in enough /\ \A z \in enough : Min(enough) <= z
    BY <1>8, Zenon DEF Min
  <2> QED BY <2>1, <2>2
<1>12. QuantileBin(h, lo, hi, th)
         = (IF enough = {} THEN hi + 1 ELSE Min(enough)) % (MaxValue + 1)
  BY Zenon DEF QuantileBin, enough, p, q
<1>13. x % (MaxValue + 1) = x /\ x \in lo .. hi
  <2>1. x \in lo .. hi
    BY <1>4
  <2>2. x \in 0 .. MaxValue
    BY <1>3, <2>1
  <2> QED BY <1>3, <2>1, <2>2
<1>14. QuantileBin(h, lo, hi, th) = Min(full) /\ Min(full) \in lo .. hi
  BY <1>5, <1>10, <1>11, <1>12, <1>13
<1> QED BY <1>14 DEF full, p, q, N

\* The bounds of the model keep the sums below the width of CounterT.
NoWrap == MaxValue * (MaxLen * MaxImages) < Modulus

LEMMA SumsFit ==
    ASSUME HistogramAssumption, TypeInv, TallyInv, NoWrap
    PROVE  MaxValue * Sum(tally, 0, MaxValue) < Modulus
<1>1. PICK s \in Nat : s = Sum(tally, 0, MaxValue)
  BY SumBounds DEF TypeInv
<1>2. MaxValue \in Nat /\ MaxLen \in Nat /\ MaxImages \in Nat /\ Modulus \in Nat
  BY Ranges
<1>3. images \in Nat /\ images <= MaxImages /\ s <= MaxLen * images
  BY <1>1, <1>2 DEF TypeInv, TallyInv
<1>4. MaxLen * images <= MaxLen * MaxImages
  BY <1>2, <1>3
<1>5. PICK b \in Nat : b = MaxLen * MaxImages
  BY <1>2
<1>6. MaxLen * images \in Nat
  BY <1>2, <1>3
<1>7. s <= b
  BY <1>3, <1>4, <1>5, <1>6
<1>8. MaxValue * s <= MaxValue * b /\ MaxValue * s \in Nat /\ MaxValue * b \in Nat
  BY <1>2, <1>7
<1>9. MaxValue * b < Modulus
  BY <1>5 DEF NoWrap
<1> QED BY <1>1, <1>2, <1>8, <1>9

\* As long as the sums fit, a quantile lies between two neighbouring values.
LEMMA QuantileBetween ==
    ASSUME HistogramAssumption, NEW h \in [Bin -> Nat],
           MaxValue * Sum(h, 0, MaxValue) < Modulus,
           NEW lo, NEW hi, NEW th, NEW m \in Bin, QuantileBin(h, lo, hi, th) = m
    PROVE  /\ m = 0 => Quantile(h, lo, hi, th) = <<0, 1>>
           /\ m # 0 => \E num, den \in Nat :
                         /\ Quantile(h, lo, hi, th) = <<num, den>>
                         /\ (m - 1) * den <= num /\ num <= m * den
<1>1. Quantile(h, lo, hi, th)
        = IF m = 0 THEN <<0, 1>>
          ELSE <<(h[m] * m + h[m - 1] * (m - 1)) % Modulus, (h[m - 1] + h[m]) % Modulus>>
  BY Zenon DEF Quantile
<1>2. ASSUME m # 0
      PROVE  \E num, den \in Nat : /\ Quantile(h, lo, hi, th) = <<num, den>>
                                   /\ (m - 1) * den <= num /\ num <= m * den
  <2>1. m \in Nat /\ m >= 1 /\ m <= MaxValue /\ MaxValue \in Nat /\ m - 1 \in Bin
        /\ Modulus \in Nat /\ Modulus > 0
    BY <1>2, Ranges DEF Bin
  <2>2. PICK n \in Nat : n = m - 1
    BY <2>1
  <2>3. PICK a \in Nat, b \in Nat : a = h[m] /\ b = h[n]
    BY <2>1, <2>2
  <2>4. PICK s \in Nat : s = Sum(h, 0, MaxValue)
    BY SumBounds
  <2>5. a + b <= s
    <3>1. m # n
      BY <2>1, <2>2
    <3> QED BY <2>1, <2>2, <2>3, <2>4, <3>1, TwoBins
  <2> DEFINE num == a * m + b * n
             den == b + a
  <2>6. num \in Nat /\ den \in Nat
    <3>1. a * m \in Nat /\ b * n \in Nat
      BY <2>1
    <3> QED BY <3>1
  <2>7. n * den <= num /\ num <= m * den
    <3>1. m = n + 1
      BY <2>1, <2>2
    <3>2. num = a * n + a + b * n
      <4>1. a * (n + 1) = a * n + a
        OBVIOUS
      <4> QED BY <3>1, <4>1
    <3>3. n * (b + a) = n * b + n * a /\ (n + 1) * (b + a) = n * b + n * a + b + a
      OBVIOUS
    <3>4. n * a = a * n /\ n * b = b * n /\ a * n \in Nat /\ b * n \in Nat
      OBVIOUS
    <3> QED BY <3>1, <3>2, <3>3, <3>4
  <2>8. m * den <= MaxValue * s /\ m * den \in Nat /\ MaxValue * s \in Nat
    <3>1. m * den <= MaxValue * den
      BY <2>1, <2>6
    <3>2. MaxValue * den <= MaxValue * s
      BY <2>1, <2>5, <2>6
    <3>3. m * den \in Nat /\ MaxValue * den \in Nat /\ MaxValue * s \in Nat
      BY <2>1, <2>6
    <3> HIDE DEF den
    <3> QED BY <3>1, <3>2, <3>3
  <2>9. den <= m * den
    <3>1. 1 * den <= m * den
      BY <2>1, <2>6
    <3> QED BY <2>6, <3>1
  <2>10. Quantile(h, lo, hi, th) = <<num % Modulus, den % Modulus>>
    BY <1>1, <1>2, <2>2, <2>3
  <2> HIDE DEF num, den
  <2>11. num < Modulus /\ den < Modulus
    <3>1. MaxValue * s < Modulus
      BY <2>4
    <3>2. PICK x \in Nat, y \in Nat : x = m * den /\ y = MaxValue * s
      BY <2>8
    <3>3. num <= x /\ den <= x /\ x <= y /\ y < Modulus
      BY <2>7, <2>8, <2>9, <3>1, <3>2
    <3> QED BY <2>1, <2>6, <3>3
  <2>12. num % Modulus = num /\ den % Modulus = den
    BY <2>1, <2>6, <2>11
  <2>13. Quantile(h, lo, hi, th) = <<num, den>>
    BY <2>10, <2>12
  <2>14. (m - 1) * den <= num
    BY <2>2, <2>7
  <2> QED BY <2>6, <2>7, <2>13, <2>14
<1> QED BY <1>1, <1>2

-----------------------------------------------------------------------------
(* Theorems *)

LEMMA HInit == ASSUME HistogramAssumption, Init PROVE HInv
<1>1. TypeInv /\ StatsInv
  BY TypeInit, StatsInit
<1>2. TallyInv
  <2>1. 0 <= MaxLen * 0
    BY Ranges
  <2> QED BY <2>1, EmptyBins DEF Init, TallyInv
<1>3. TeamInv /\ BinsInv /\ WeighedInv /\ ModeInv /\ AnswerInv
  BY DEF Init, TeamInv, BinsInv, WeighedInv, ModeInv, AnswerInv
<1> QED BY <1>1, <1>2, <1>3 DEF HInv

LEMMA HStep == ASSUME HistogramAssumption, HInv, [Next]_vars PROVE HInv'
<1> USE DEF HInv
<1>1. TypeInv' /\ TallyInv' /\ TeamInv' /\ BinsInv' /\ WeighedInv'
  BY TypeStep, TallyStep, TeamStep, BinsStep, WeighedStep
<1>2. ModeInv' /\ StatsInv' /\ AnswerInv'
  BY ModeStep, StatsStep, AnswerStep
<1> QED BY <1>1, <1>2

LEMMA HInvariant == ASSUME HistogramAssumption PROVE Spec => []HInv
<1>1. Init => HInv
  BY HInit
<1>2. HInv /\ [Next]_vars => HInv'
  BY HStep
<1> QED BY <1>1, <1>2, PTL DEF Spec

\* The threads of fill_histogram lose no pixel and count none twice, for every
\* sequence of images, every number of threads and every order in which they run;
\* what a team repeats are the earlier images, nthreads + 1 times each.
THEOREM HistogramExact == ASSUME HistogramAssumption PROVE Spec => []CountsExact
<1>1. HInv => CountsExact
  BY DEF HInv, BinsInv, WeighedInv, CountsExact
<1> QED BY <1>1, HInvariant, PTL

LEMMA SummaryHolds == ASSUME HistogramAssumption, NoWrap, HInv PROVE Summary
<1> SUFFICES ASSUME pc = "idle", range = "current", images > 0, Sound
             PROVE  /\ stats.small = Min(Populated(tally))
                    /\ stats.large = Max(Populated(tally))
                    /\ stats.integral = Sum(tally, 0, MaxValue)
                    /\ stats.small * stats.integral <= stats.moment
                    /\ stats.moment <= stats.large * stats.integral
                    /\ stats.median[1] <= stats.large * stats.median[2]
                    /\ stats.mode \in Populated(tally)
  BY DEF Summary
<1>1. bins = tally /\ tally \in [Bin -> Nat] /\ Populated(tally) # {}
  BY DEF HInv, BinsInv, WeighedInv, TallyInv, TypeInv
<1> DEFINE lo == stats.small
           hi == stats.large
           N == Sum(tally, 0, MaxValue)
           g == [v \in Bin |-> v * tally[v]]
           th == <<1, 2>>
<1>2. /\ lo = Smallest(tally) /\ hi = Largest(tally) /\ stats.integral = N
      /\ stats.moment = Sum(g, lo, hi)
      /\ stats.median = Quantile(tally, lo, hi, th)
      /\ stats.mode \in Populated(tally)
  BY <1>1 DEF HInv, StatsInv
<1>3. /\ lo = Min(Populated(tally)) /\ hi = Max(Populated(tally))
      /\ lo \in Bin /\ hi \in Bin /\ lo \in Nat /\ hi \in Nat
      /\ \A v \in Populated(tally) : lo <= v /\ v <= hi
  BY <1>1, <1>2, Extremes, Ranges
<1> HIDE DEF lo, hi, N, g, th
<1>4. Populated(tally) \subseteq lo .. hi
  <2>1. \A v \in Populated(tally) : v \in Nat
    BY Ranges DEF Populated
  <2> QED BY <1>3, <2>1
<1>5. Sum(tally, lo, hi) = N
  BY <1>1, <1>3, <1>4, RangeSums DEF N
<1>6. lo * N <= Sum(g, lo, hi) /\ Sum(g, lo, hi) <= hi * N
  <2> DEFINE S == lo .. hi
  <2>1. IsFiniteSet(S)
    BY <1>3, FS_Interval
  <2>2. ASSUME NEW x \in S
        PROVE  /\ tally[x] \in Nat /\ g[x] \in Nat
               /\ lo * tally[x] <= g[x] /\ g[x] <= hi * tally[x]
    <3>1. x \in Nat /\ lo <= x /\ x <= hi /\ x \in Bin
      BY <1>3, Ranges DEF Bin
    <3>2. PICK k \in Nat : k = tally[x]
      BY <1>1, <3>1
    <3>3. g[x] = x * k
      BY <3>1, <3>2 DEF g
    <3>4. lo * k <= x * k /\ x * k <= hi * k /\ x * k \in Nat
      BY <1>3, <3>1
    <3> QED BY <3>2, <3>3, <3>4
  <2> HIDE DEF S
  <2>3. lo * SumOver(tally, S) <= SumOver(g, S) /\ SumOver(g, S) <= hi * SumOver(tally, S)
    BY <1>3, <2>1, <2>2, SumBetween
  <2>4. SumOver(tally, S) = N /\ SumOver(g, S) = Sum(g, lo, hi)
    BY <1>5, SumIsSumOver DEF S
  <2> QED BY <2>3, <2>4
<1>7. stats.median[1] <= hi * stats.median[2]
  <2>1. th[1] \in Nat /\ th[2] \in Nat /\ th[1] < th[2]
    BY DEF th
  <2> DEFINE full == {v \in Bin : Sum(tally, 0, v) * th[2]
                                    > th[1] * Sum(tally, 0, MaxValue)}
             m == Min(full)
  <2>2. QuantileBin(tally, lo, hi, th) = m /\ m \in lo .. hi
    BY <1>1, <1>3, <1>4, <2>1, QuantileFirst
  <2>3. m \in Bin /\ m \in Nat /\ m <= hi
    BY <1>3, <2>2, Ranges DEF Bin
  <2>4. MaxValue * Sum(tally, 0, MaxValue) < Modulus
    BY SumsFit DEF HInv
  <2> HIDE DEF m
  <2>5. QuantileBin(tally, lo, hi, th) = m
    BY <2>2
  <2>6. CASE m = 0
    <3>1. stats.median = <<0, 1>>
      BY <1>1, <1>2, <2>3, <2>4, <2>5, <2>6, QuantileBetween
    <3> QED BY <1>3, <3>1
  <2>7. CASE m # 0
    <3>1. PICK num \in Nat, den \in Nat : /\ stats.median = <<num, den>>
                                          /\ num <= m * den
      BY <1>1, <1>2, <2>3, <2>4, <2>5, <2>7, QuantileBetween
    <3>2. m * den <= hi * den /\ m * den \in Nat /\ hi * den \in Nat
      BY <1>3, <2>3
    <3>3. num <= hi * den
      BY <3>1, <3>2
    <3> QED BY <3>1, <3>3
  <2> QED BY <2>6, <2>7
<1> QED BY <1>2, <1>3, <1>6, <1>7 DEF lo, hi, N

\* The figures of fill_stats fit each other and the images, whatever the threads
\* of max_element_distance overwrite, as long as the sums stay below the width of
\* CounterT.
THEOREM HistogramSummary == ASSUME HistogramAssumption, NoWrap PROVE Spec => []Summary
<1>1. HInv => Summary
  BY SummaryHolds
<1> QED BY <1>1, HInvariant, PTL

LEMMA SupportHolds == ASSUME HistogramAssumption, NoWrap, HInv PROVE SupportRight
<1> DEFINE th == answer.th
           full == {v \in Bin : Sum(tally, 0, v) * th[2] > th[1] * Sum(tally, 0, MaxValue)}
           m == Min(full)
           num == answer.value[1]
           den == answer.value[2]
<1> SUFFICES ASSUME pc = "answered", range # "stale", images > 0, Sound
             PROVE  IF m = 0 THEN num = 0 ELSE (m - 1) * den <= num /\ num <= m * den
  BY Zenon DEF SupportRight
<1>1. bins = tally /\ tally \in [Bin -> Nat] /\ Populated(tally) # {}
  BY DEF HInv, BinsInv, WeighedInv, TallyInv, TypeInv
<1> DEFINE lo == stats.small
           hi == stats.large
<1>2. answer.value = Quantile(tally, lo, hi, th) /\ th \in Thresholds
  BY <1>1 DEF HInv, AnswerInv
<1>3. th[1] \in Nat /\ th[2] \in Nat /\ th[1] < th[2]
  BY <1>2 DEF HistogramAssumption
<1>4. lo \in Bin /\ hi \in Bin /\ Populated(tally) \subseteq lo .. hi
  <2>1. range = "all" \/ range = "current"
    BY DEF HInv, TypeInv
  <2>2. CASE range = "all"
    <3>1. lo = 0 /\ hi = MaxValue
      BY <2>2 DEF HInv, StatsInv
    <3> QED BY <3>1, Ranges DEF Populated, Bin
  <2>3. CASE range = "current"
    <3>1. lo = Smallest(tally) /\ hi = Largest(tally)
      BY <1>1, <2>3 DEF HInv, StatsInv
    <3>2. lo \in Bin /\ hi \in Bin /\ \A v \in Populated(tally) : lo <= v /\ v <= hi
      BY <1>1, <3>1, Extremes
    <3> QED BY <3>2, Ranges DEF Populated
  <2> QED BY <2>1, <2>2, <2>3
<1> HIDE DEF lo, hi, th
<1>5. QuantileBin(tally, lo, hi, th) = m /\ m \in lo .. hi
  BY <1>1, <1>3, <1>4, QuantileFirst
<1> HIDE DEF m
<1>6. m \in Bin
  BY <1>4, <1>5, Ranges DEF Bin
<1>7. MaxValue * Sum(tally, 0, MaxValue) < Modulus
  BY SumsFit DEF HInv
<1>8. CASE m = 0
  <2>1. answer.value = <<0, 1>>
    BY <1>1, <1>2, <1>5, <1>6, <1>7, <1>8, QuantileBetween
  <2> QED BY <1>8, <2>1
<1>9. CASE m # 0
  <2>1. PICK n \in Nat, d \in Nat : /\ answer.value = <<n, d>>
                                    /\ (m - 1) * d <= n /\ n <= m * d
    BY <1>1, <1>2, <1>5, <1>6, <1>7, <1>9, QuantileBetween
  <2> QED BY <1>9, <2>1
<1> QED BY <1>8, <1>9

\* calc_support finds the first value at which the threshold of all pixels is
\* passed, in the range of fill_stats or in that of the type, as long as the sums
\* stay below the width of CounterT.
THEOREM HistogramSupport == ASSUME HistogramAssumption, NoWrap PROVE Spec => []SupportRight
<1>1. HInv => SupportRight
  BY SupportHolds
<1> QED BY <1>1, HInvariant, PTL

-----------------------------------------------------------------------------
(* PrefixSum *)

LEMMA FirstThread == ASSUME NEW n \in Nat \ {0} PROVE 0 \in 0 .. n - 1
  OBVIOUS

-----------------------------------------------------------------------------
(* The inductive invariant *)

\* What the caller hands over, and the division of it: both rise.
InputInv ==
    /\ wanted[0] = 0
    /\ \A i, j \in 0 .. len : i <= j => wanted[i] <= wanted[j]
    /\ share[0] = 0 /\ share[nworkers] = len
    /\ \A t, u \in 0 .. nworkers : t <= u => share[t] <= share[u]

Of(t) == share[t] .. share[t + 1] - 1      \* the share of thread t

\* One thread: its sum is the prefix sum it is about to write.
CallInv ==
    region = "call" =>
        /\ suma = Nothing
        /\ \A t \in Workers : at[t] = "single"
        /\ \A t \in Workers \ {0} : acc[t] = 0
        /\ index[0] \in 0 .. len /\ acc[0] = wanted[index[0]]
        /\ \A i \in 0 .. index[0] - 1 : psum[i] = wanted[i]
        /\ ~Serial => acc[0] = 0

\* Item i of a share that is scanned has the sum of the items of the share in
\* front of it.
Scanned(t, i) == psum[i] = wanted[i] - wanted[share[t]]

ThreadInv(t) ==
    /\ at[t] = "single" => acc[t] = 0
    /\ at[t] = "scan" =>
         /\ index[t] \in share[t] .. share[t + 1]
         /\ acc[t] = wanted[index[t]] - wanted[share[t]]
         /\ \A i \in share[t] .. index[t] - 1 : Scanned(t, i)
    /\ at[t] = "store" => acc[t] = wanted[share[t + 1]] - wanted[share[t]]
    /\ at[t] \in {"store", "offset"} => \A i \in Of(t) : Scanned(t, i)
    /\ at[t] = "offset" =>
         /\ index[t] \in 0 .. t + 1
         /\ acc[t] = IF index[t] = 0 THEN 0 ELSE wanted[share[index[t] - 1]]
    /\ at[t] = "shift" =>
         /\ index[t] \in share[t] .. share[t + 1]
         /\ acc[t] = wanted[share[t]]
         /\ \A i \in share[t] .. index[t] - 1 : psum[i] = wanted[i]
         /\ \A i \in index[t] .. share[t + 1] - 1 : Scanned(t, i)
    /\ at[t] = "end" => \A i \in Of(t) : psum[i] = wanted[i]
    /\ at[t] # "single" => suma \in [0 .. nworkers -> Int] /\ suma[0] = 0
    /\ at[t] \in {"offset", "shift", "end"} =>
         suma[t + 1] = wanted[share[t + 1]] - wanted[share[t]]

\* suma is allocated with its first element set.
SumaInv == suma # Nothing => suma \in [0 .. nworkers -> Int] /\ suma[0] = 0

IInv ==
    /\ TypeOK
    /\ InputInv
    /\ CallInv
    /\ SumaInv
    /\ region = "parallel" => \A t \in Workers : ThreadInv(t)
    /\ region # "parallel" => \A t \in Workers : at[t] \in {"single", "end"}
    /\ SameAsSerial

\* The index of a share lies between the items of the input.
LEMMA ShareBounds ==
    ASSUME TypeOK, InputInv, NEW t \in Workers
    PROVE  /\ t \in 0 .. nworkers /\ t + 1 \in 0 .. nworkers
           /\ share[t] \in 0 .. len /\ share[t + 1] \in 0 .. len
           /\ share[t] <= share[t + 1]
           /\ wanted[share[t]] \in Nat /\ wanted[share[t + 1]] \in Nat
           /\ len \in Nat
<1>1. t \in 0 .. nworkers /\ t + 1 \in 0 .. nworkers /\ t <= t + 1 /\ len \in Nat
  BY DEF TypeOK, Workers
<1>2. share[t] \in 0 .. len /\ share[t + 1] \in 0 .. len
  BY <1>1 DEF TypeOK
<1>3. share[t] <= share[t + 1]
  BY <1>1 DEF InputInv
<1> QED BY <1>1, <1>2, <1>3 DEF TypeOK

\* Two threads have no item in common.
LEMMA SharesApart ==
    ASSUME TypeOK, InputInv, NEW t \in Workers, NEW u \in Workers, t # u
    PROVE  \A i \in Of(u) : i \notin Of(t)
<1>1. /\ t \in 0 .. nworkers /\ t + 1 \in 0 .. nworkers
      /\ u \in 0 .. nworkers /\ u + 1 \in 0 .. nworkers
      /\ t \in Nat /\ u \in Nat
  BY DEF TypeOK, Workers
<1>2. /\ share[t] \in Nat /\ share[t + 1] \in Nat
      /\ share[u] \in Nat /\ share[u + 1] \in Nat
  BY <1>1 DEF TypeOK
<1>3. CASE t + 1 <= u
  <2>1. share[t + 1] <= share[u]
    BY <1>1, <1>3 DEF InputInv
  <2> QED BY <1>2, <2>1 DEF Of
<1>4. CASE u + 1 <= t
  <2>1. share[u + 1] <= share[t]
    BY <1>1, <1>4 DEF InputInv
  <2> QED BY <1>2, <2>1 DEF Of
<1> QED BY <1>1, <1>3, <1>4

\* Every item belongs to the share of a thread.
LEMMA SharesReach ==
    ASSUME TypeOK, InputInv, NEW i \in 0 .. len - 1
    PROVE  \E t \in Workers : i \in Of(t)
<1> DEFINE S == {u \in 0 .. nworkers : i < share[u]}
<1>1. nworkers \in Nat /\ len \in Nat /\ i \in Nat /\ i < len
  BY DEF TypeOK
<1>2. S \subseteq Nat /\ nworkers \in S
  BY <1>1 DEF InputInv
<1>3. PICK u \in S : \A v \in S : u <= v
  BY <1>2, NatMin
<1>4. u \in 0 .. nworkers /\ i < share[u] /\ u # 0
  BY <1>1, <1>3 DEF InputInv
<1>5. u - 1 \in Workers /\ u - 1 \in 0 .. nworkers
  BY <1>1, <1>4 DEF Workers
<1>6. u - 1 \notin S
  BY <1>3, <1>4
<1>7. share[u - 1] <= i
  <2>1. share[u - 1] \in Nat
    BY <1>5 DEF TypeOK
  <2> QED BY <1>1, <1>5, <1>6, <2>1
<1>8. i \in Of(u - 1)
  <2>1. share[u - 1] \in Nat /\ share[u] \in Nat /\ u - 1 + 1 = u
    BY <1>4, <1>5 DEF TypeOK
  <2> QED BY <1>1, <1>4, <1>7, <2>1 DEF Of
<1> QED BY <1>5, <1>8

\* What a thread does to its own share and sum leaves the others alone.
LEMMA OthersKeep ==
    ASSUME TypeOK, InputInv, NEW u \in Workers, ThreadInv(u),
           UNCHANGED input,
           at'[u] = at[u], index'[u] = index[u], acc'[u] = acc[u],
           \A i \in Of(u) : psum'[i] = psum[i],
           at[u] # "single" => /\ suma' \in [0 .. nworkers -> Int]
                               /\ suma'[0] = 0
                               /\ suma'[u + 1] = suma[u + 1]
    PROVE  ThreadInv(u)'
<1>1. /\ wanted' = wanted /\ share' = share /\ nworkers' = nworkers /\ len' = len
  BY DEF input
<1>2. Of(u)' = Of(u)
  BY <1>1 DEF Of
<1>3. share[u] \in Nat /\ share[u + 1] \in Nat
  BY ShareBounds
<1>4. at[u] \in {"scan", "shift"} =>
        /\ \A i \in share[u] .. index[u] - 1 : i \in Of(u)
        /\ \A i \in index[u] .. share[u + 1] - 1 : i \in Of(u)
  BY <1>3 DEF ThreadInv, Of
<1> QED BY <1>1, <1>2, <1>4 DEF ThreadInv, Scanned

-----------------------------------------------------------------------------
(* Initial states *)

\* What Init and NextCall choose is what InputInv says.
LEMMA InputChosen ==
    ASSUME NEW l \in Nat, NEW w \in PrefixSums(l), NEW n \in Nat \ {0},
           NEW s \in Shares(l, n)
    PROVE  /\ w \in [0 .. l -> Nat] /\ w[0] = 0
           /\ \A i, j \in 0 .. l : i <= j => w[i] <= w[j]
           /\ s \in [0 .. n -> 0 .. l] /\ s[0] = 0 /\ s[n] = l
           /\ \A t, u \in 0 .. n : t <= u => s[t] <= s[u]
<1>1. w \in [0 .. l -> Nat] /\ w[0] = 0
  <2>1. PICK top : w \in [0 .. l -> 0 .. top] /\ w[0] = 0
    BY DEF PrefixSums
  <2> QED BY <2>1
<1>2. ASSUME NEW i \in 0 .. l, NEW j \in 0 .. l, i <= j
      PROVE  w[i] <= w[j]
  <2>1. PICK top : w[j] - w[i] \in 0 .. top
    BY <1>2 DEF PrefixSums
  <2>2. w[i] \in Nat /\ w[j] \in Nat
    BY <1>1
  <2> QED BY <2>1, <2>2
<1> QED BY <1>1, <1>2 DEF Shares

LEMMA InitInv == ASSUME PrefixSumAssumption, PSInit PROVE IInv
<1>1. /\ len \in Nat /\ nworkers \in Nat \ {0}
  BY DEF PSInit, PrefixSumAssumption
<1>2. wanted \in [0 .. len -> Nat] /\ share \in [0 .. nworkers -> 0 .. len] /\ InputInv
  BY <1>1, InputChosen DEF PSInit, InputInv
<1>3. TypeOK
  BY <1>1, <1>2 DEF PSInit, TypeOK, Places, Workers, Unset
<1>4. CallInv
  BY <1>1, <1>2 DEF PSInit, CallInv, Workers, InputInv
<1> QED BY <1>2, <1>3, <1>4 DEF PSInit, IInv, SumaInv, SameAsSerial

LEMMA NextCallInv == ASSUME PrefixSumAssumption, IInv, NextCall PROVE IInv'
<1>1. /\ len' \in Nat /\ nworkers' \in Nat \ {0}
  BY DEF NextCall, PrefixSumAssumption
<1>2. /\ wanted' \in [0 .. len' -> Nat] /\ share' \in [0 .. nworkers' -> 0 .. len']
      /\ InputInv'
  BY <1>1, InputChosen DEF NextCall, InputInv
<1>3. TypeOK'
  <2>1. /\ at' \in [Workers' -> Places] /\ index' \in [Workers' -> Nat] /\ acc' \in [Workers' -> Int]
        /\ psum' \in [0 .. len' - 1 -> Int]
    BY <1>1 DEF NextCall, Places, Workers, Unset
  <2> QED BY <1>1, <1>2, <2>1 DEF NextCall, IInv, TypeOK
<1>4. CallInv'
  <2>1. 0 \in 0 .. nworkers' - 1
    BY <1>1, FirstThread
  <2>2. \A t \in 0 .. nworkers' - 1 : at'[t] = "single" /\ acc'[t] = 0 /\ index'[t] = 0
    BY DEF NextCall
  <2> QED BY <1>1, <1>2, <2>1, <2>2 DEF NextCall, CallInv, InputInv, Workers
<1> QED BY <1>2, <1>3, <1>4 DEF NextCall, IInv, SumaInv, SameAsSerial, Workers

-----------------------------------------------------------------------------
(* Steps of the calling thread *)

LEMMA SerialStepInv == ASSUME PrefixSumAssumption, IInv, SerialStep PROVE IInv'
<1>0. /\ len \in Nat /\ nworkers \in Nat \ {0} /\ 0 \in Workers
      /\ index[0] \in 0 .. len - 1 /\ acc[0] = wanted[index[0]]
  <2>1. region = "call" /\ index[0] < len
    BY DEF SerialStep
  <2>2. index[0] \in 0 .. len /\ acc[0] = wanted[index[0]]
    BY <2>1 DEF IInv, CallInv
  <2>3. len \in Nat /\ nworkers \in Nat \ {0}
    BY DEF IInv, TypeOK, PrefixSumAssumption
  <2> QED BY <2>1, <2>2, <2>3 DEF Workers
<1>1. /\ UNCHANGED <<len, wanted, request, nworkers, share, region, at, suma>>
      /\ psum' = [psum EXCEPT ![index[0]] = acc[0]]
      /\ acc' = [acc EXCEPT ![0] = @ + Item(index[0])]
      /\ index' = [index EXCEPT ![0] = @ + 1]
      /\ region = "call" /\ Serial
  BY DEF SerialStep, input
<1>2. wanted[index[0]] \in Nat /\ wanted[index[0] + 1] \in Nat
  <2>1. wanted \in [0 .. len -> Nat]
    BY DEF IInv, TypeOK
  <2>2. index[0] \in 0 .. len /\ index[0] + 1 \in 0 .. len
    BY <1>0
  <2> QED BY <2>1, <2>2
<1>3. /\ index \in [Workers -> Nat] /\ acc \in [Workers -> Int] /\ psum \in [0 .. len - 1 -> Int]
      /\ index[0] \in Int /\ acc[0] \in Int /\ Workers' = Workers
      /\ acc[0] + Item(index[0]) = wanted[index[0] + 1]
  <2>1. Item(index[0]) = wanted[index[0] + 1] - wanted[index[0]]
    BY DEF Item
  <2>2. acc[0] + Item(index[0]) = wanted[index[0] + 1]
    BY <1>0, <1>2, <2>1
  <2>3. Workers' = Workers
    BY <1>1 DEF Workers
  <2>4. /\ index \in [Workers -> Nat] /\ acc \in [Workers -> Int]
        /\ psum \in [0 .. len - 1 -> Int]
    BY DEF IInv, TypeOK
  <2> QED BY <1>0, <2>2, <2>3, <2>4
<1>4. /\ index'[0] = index[0] + 1 /\ acc'[0] = wanted[index[0] + 1]
      /\ \A t \in Workers \ {0} : acc'[t] = acc[t]
      /\ index' \in [Workers -> Nat] /\ acc' \in [Workers -> Int]
      /\ psum' \in [0 .. len - 1 -> Int]
  BY <1>0, <1>1, <1>2, <1>3
<1>5. \A i \in 0 .. index'[0] - 1 : psum'[i] = wanted[i]
  <2>1. \A i \in 0 .. index[0] - 1 : psum[i] = wanted[i]
    BY <1>1 DEF IInv, CallInv
  <2>2. ASSUME NEW i \in 0 .. index[0]  PROVE psum'[i] = wanted[i]
    <3>1. i \in 0 .. len - 1 /\ (i # index[0] => i \in 0 .. index[0] - 1)
      BY <1>0, <1>3
    <3>2. psum'[i] = IF i = index[0] THEN acc[0] ELSE psum[i]
      BY <1>1, <1>3, <3>1
    <3> QED BY <1>0, <2>1, <3>1, <3>2
  <2>3. 0 .. index'[0] - 1 = 0 .. index[0]
    BY <1>3, <1>4
  <2> QED BY <2>2, <2>3
<1>6. CallInv'
  <2>1. /\ suma = Nothing /\ (\A t \in Workers : at[t] = "single")
        /\ (\A t \in Workers \ {0} : acc[t] = 0)
    BY <1>1 DEF IInv, CallInv
  <2>2. index'[0] \in 0 .. len
    BY <1>0, <1>3, <1>4
  <2>3. Serial' = Serial
    BY <1>1 DEF Serial
  <2> QED BY <1>1, <1>3, <1>4, <1>5, <2>1, <2>2, <2>3 DEF CallInv
<1>7. InputInv' /\ TypeOK'
  BY <1>1, <1>3, <1>4 DEF IInv, InputInv, TypeOK
<1> QED BY <1>1, <1>3, <1>6, <1>7 DEF IInv, CallInv, SumaInv, SameAsSerial

LEMMA SerialReturnsInv == ASSUME PrefixSumAssumption, IInv, SerialReturns PROVE IInv'
<1>1. /\ UNCHANGED <<len, wanted, request, nworkers, share, at, index, acc, suma, psum>>
      /\ region = "call" /\ region' = "returned" /\ index[0] = len
  BY DEF SerialReturns, input
<1>2. TypeOK' /\ InputInv' /\ CallInv'
  BY <1>1 DEF IInv, TypeOK, InputInv, CallInv, Workers
<1>3. SameAsSerial'
  BY <1>1 DEF IInv, CallInv, SumaInv, SameAsSerial
<1> QED BY <1>1, <1>2, <1>3 DEF IInv, SumaInv, Workers

LEMMA ForkInv == ASSUME PrefixSumAssumption, IInv, Fork PROVE IInv'
<1>1. /\ UNCHANGED <<len, wanted, request, nworkers, share, at, index, acc, suma, psum>>
      /\ region = "call" /\ region' = "parallel" /\ ~Serial
  BY DEF Fork, input
<1>2. TypeOK' /\ InputInv' /\ CallInv' /\ SameAsSerial'
  BY <1>1 DEF IInv, TypeOK, InputInv, CallInv, SameAsSerial, Workers
<1>3. \A t \in Workers : at[t] = "single" /\ acc[t] = 0
  BY <1>1 DEF IInv, CallInv
<1>4. \A t \in Workers' : ThreadInv(t)'
  BY <1>1, <1>3 DEF ThreadInv, Workers
<1> QED BY <1>1, <1>2, <1>4 DEF IInv, SumaInv

LEMMA JoinInv == ASSUME PrefixSumAssumption, IInv, Join PROVE IInv'
<1>1. /\ UNCHANGED <<len, wanted, request, nworkers, share, at, index, acc, psum>>
      /\ region = "parallel" /\ region' = "returned" /\ suma' = Nothing
      /\ \A t \in Workers : at[t] = "end"
  BY DEF Join, input
<1>2. TypeOK' /\ InputInv' /\ CallInv'
  BY <1>1 DEF IInv, TypeOK, InputInv, CallInv, Workers
<1>3. ASSUME NEW i \in 0 .. len - 1  PROVE psum[i] = wanted[i]
  <2>1. PICK t \in Workers : i \in Of(t)
    BY SharesReach DEF IInv
  <2> QED BY <1>1, <2>1 DEF IInv, ThreadInv
<1> QED BY <1>1, <1>2, <1>3 DEF IInv, SumaInv, SameAsSerial, Workers

LEMMA StutterInv == ASSUME IInv, UNCHANGED psVars PROVE IInv'
<1>1. UNCHANGED <<len, wanted, request, nworkers, share, region, at, index, acc, suma, psum>>
  BY DEF psVars, input
<1>2. TypeOK' /\ InputInv' /\ CallInv' /\ SameAsSerial'
  BY <1>1 DEF IInv, TypeOK, InputInv, CallInv, SameAsSerial, Workers, Serial
<1>3. \A t : ThreadInv(t)' <=> ThreadInv(t)
  BY <1>1 DEF ThreadInv, Scanned, Of
<1> QED BY <1>1, <1>2, <1>3 DEF IInv, SumaInv, Workers

-----------------------------------------------------------------------------
(* Steps of a thread of the team *)

LEMMA WorkerFrame ==
    ASSUME IInv, NEW t \in Workers, Worker(t)
    PROVE  /\ region = "parallel" /\ region' = region /\ UNCHANGED input
           /\ UNCHANGED <<len, wanted, request, nworkers, share>>
           /\ Workers' = Workers /\ InputInv' /\ CallInv' /\ SameAsSerial'
<1>1. region' = region /\ UNCHANGED input /\ UNCHANGED <<len, wanted, request, nworkers, share>>
  BY DEF Worker, Single, Scan, EndScan, Store, Offset, Shift, input
<1>2. region = "parallel"
  <2>1. at[t] \notin {"single", "end"} \/ region = "parallel"
    BY DEF Worker, Single, Scan, EndScan, Store, Offset, Shift
  <2> QED BY <2>1 DEF IInv
<1>3. Workers' = Workers
  BY <1>1 DEF Workers
<1>4. InputInv'
  BY <1>1 DEF IInv, InputInv
<1> QED BY <1>1, <1>2, <1>3, <1>4 DEF CallInv, SameAsSerial

\* It is enough to look at the thread that moves and at the cells it writes.
LEMMA WorkerMoves ==
    ASSUME IInv, NEW t \in Workers, Worker(t), TypeOK', ThreadInv(t)',
           \A u \in Workers \ {t} :
              /\ at'[u] = at[u] /\ index'[u] = index[u] /\ acc'[u] = acc[u]
              /\ at[u] # "single" => suma'[u + 1] = suma[u + 1],
           suma' \in [0 .. nworkers -> Int], suma'[0] = 0,
           \A i \in 0 .. len - 1 : i \notin Of(t) => psum'[i] = psum[i]
    PROVE  IInv'
<1>1. ASSUME NEW u \in Workers, u # t  PROVE ThreadInv(u)'
  <2>1. TypeOK /\ InputInv /\ ThreadInv(u) /\ UNCHANGED input
    BY WorkerFrame DEF IInv
  <2>2. \A i \in Of(u) : i \notin Of(t) /\ i \in 0 .. len - 1
    <3>1. \A i \in Of(u) : i \notin Of(t)
      BY <1>1, <2>1, SharesApart
    <3>2. \A i \in Of(u) : i \in 0 .. len - 1
      BY <2>1, ShareBounds DEF Of
    <3> QED BY <3>1, <3>2
  <2>3. \A i \in Of(u) : psum'[i] = psum[i]
    BY <2>2
  <2>4. /\ at'[u] = at[u] /\ index'[u] = index[u] /\ acc'[u] = acc[u]
        /\ at[u] # "single" => /\ suma' \in [0 .. nworkers -> Int]
                               /\ suma'[0] = 0
                               /\ suma'[u + 1] = suma[u + 1]
    BY <1>1
  <2> QED BY <2>1, <2>3, <2>4, OthersKeep
<1>2. \A u \in Workers' : ThreadInv(u)'
  BY <1>1, WorkerFrame
<1> QED BY <1>2, WorkerFrame DEF IInv, SumaInv

LEMMA SingleInv == ASSUME IInv, NEW t \in Workers, Single(t) PROVE IInv'
<1>1. /\ Worker(t) /\ Workers' = Workers /\ UNCHANGED <<len, wanted, request, nworkers, share, region>>
  BY WorkerFrame DEF Worker
<1>2. /\ at[t] = "single" /\ acc[t] = 0 /\ TypeOK /\ InputInv
  BY <1>1, WorkerFrame DEF IInv, ThreadInv, Single
<1>3. /\ at' = [at EXCEPT ![t] = "scan"] /\ index' = [index EXCEPT ![t] = share[t]]
      /\ acc' = acc /\ psum' = psum
      /\ suma' = IF suma = Nothing
                   THEN [j \in 0 .. nworkers |-> IF j = 0 THEN 0 ELSE Unset] ELSE suma
  BY DEF Single
<1>4. /\ at \in [Workers -> Places] /\ index \in [Workers -> Nat]
      /\ suma \in {Nothing} \cup [0 .. nworkers -> Int] /\ nworkers \in Nat
  BY <1>2 DEF TypeOK
<1>5. /\ share[t] \in Nat /\ share[t + 1] \in Nat /\ share[t] <= share[t + 1]
      /\ wanted[share[t]] \in Nat
  BY <1>2, ShareBounds
<1>6. suma' \in [0 .. nworkers -> Int] /\ suma'[0] = 0
  BY <1>3, <1>4 DEF Unset, IInv, SumaInv
<1>7. TypeOK'
  <2>1. at' \in [Workers -> Places] /\ index' \in [Workers -> Nat]
    BY <1>3, <1>4, <1>5 DEF Places
  <2> QED BY <1>1, <1>2, <1>3, <1>6, <2>1 DEF TypeOK
<1>8. ThreadInv(t)'
  <2>1. at'[t] = "scan" /\ index'[t] = share[t] /\ acc'[t] = 0
    BY <1>2, <1>3, <1>4
  <2> QED BY <1>1, <1>5, <1>6, <2>1 DEF ThreadInv
<1>9. ASSUME NEW u \in Workers \ {t}
      PROVE  /\ at'[u] = at[u] /\ index'[u] = index[u] /\ acc'[u] = acc[u]
             /\ at[u] # "single" => suma'[u + 1] = suma[u + 1]
  <2>1. at[u] # "single" => suma' = suma
    <3>1. region = "parallel" => ThreadInv(u)
      BY DEF IInv
    <3>2. CASE suma = Nothing
      BY <1>1, <1>4, <3>1, <3>2, WorkerFrame DEF ThreadInv, Nothing
    <3> QED BY <1>3, <3>2
  <2> QED BY <1>3, <1>4, <2>1
<1> QED BY <1>1, <1>3, <1>6, <1>7, <1>8, <1>9, WorkerMoves

\* What all the threads that are past the first barrier share.
LEMMA PastSingle ==
    ASSUME IInv, NEW t \in Workers, Worker(t), at[t] # "single"
    PROVE  /\ ThreadInv(t) /\ TypeOK /\ InputInv
           /\ suma \in [0 .. nworkers -> Int] /\ suma[0] = 0
           /\ at \in [Workers -> Places] /\ index \in [Workers -> Nat] /\ acc \in [Workers -> Int]
           /\ psum \in [0 .. len - 1 -> Int]
           /\ index[t] \in Nat /\ acc[t] \in Int
           /\ nworkers \in Nat /\ t \in Nat
<1>1. ThreadInv(t) /\ TypeOK /\ InputInv
  BY WorkerFrame DEF IInv
<1>2. suma \in [0 .. nworkers -> Int] /\ suma[0] = 0
  BY <1>1 DEF ThreadInv
<1>3. /\ at \in [Workers -> Places] /\ index \in [Workers -> Nat] /\ acc \in [Workers -> Int]
      /\ psum \in [0 .. len - 1 -> Int]
  BY <1>1 DEF TypeOK
<1>4. nworkers \in Nat /\ t \in Nat
  BY <1>1 DEF TypeOK, Workers
<1> QED BY <1>1, <1>2, <1>3, <1>4

LEMMA ScanInv == ASSUME IInv, NEW t \in Workers, Scan(t) PROVE IInv'
<1>1. /\ Worker(t) /\ Workers' = Workers /\ UNCHANGED <<len, wanted, request, nworkers, share, region>>
  BY WorkerFrame DEF Worker
<1>2. /\ at[t] = "scan" /\ index[t] < share[t + 1]
      /\ psum' = [psum EXCEPT ![index[t]] = acc[t]]
      /\ acc' = [acc EXCEPT ![t] = @ + Item(index[t])]
      /\ index' = [index EXCEPT ![t] = @ + 1]
      /\ at' = at /\ suma' = suma
  BY DEF Scan
<1>3. /\ ThreadInv(t) /\ TypeOK /\ InputInv
      /\ suma \in [0 .. nworkers -> Int] /\ suma[0] = 0
      /\ index \in [Workers -> Nat] /\ acc \in [Workers -> Int]
      /\ psum \in [0 .. len - 1 -> Int]
      /\ index[t] \in Nat /\ acc[t] \in Int
  BY <1>1, <1>2, PastSingle
<1>4. /\ share[t] \in 0 .. len /\ share[t + 1] \in 0 .. len /\ len \in Nat
      /\ index[t] \in share[t] .. share[t + 1]
      /\ acc[t] = wanted[index[t]] - wanted[share[t]]
      /\ \A i \in share[t] .. index[t] - 1 : Scanned(t, i)
  BY <1>2, <1>3, ShareBounds DEF ThreadInv
<1>5. /\ wanted[index[t]] \in Nat /\ wanted[index[t] + 1] \in Nat /\ wanted[share[t]] \in Nat
      /\ index[t] \in 0 .. len - 1 /\ index[t] \in Of(t)
  <2>1. /\ index[t] \in 0 .. len - 1 /\ index[t] \in Of(t)
    BY <1>2, <1>3, <1>4 DEF Of
  <2>2. index[t] \in 0 .. len /\ index[t] + 1 \in 0 .. len
    BY <1>4, <2>1
  <2> QED BY <1>3, <1>4, <2>1, <2>2 DEF TypeOK
<1>6. /\ index'[t] = index[t] + 1 /\ index'[t] \in share[t] .. share[t + 1]
      /\ acc'[t] = wanted[index[t] + 1] - wanted[share[t]]
  <2>1. index'[t] = index[t] + 1 /\ acc'[t] = acc[t] + Item(index[t])
    BY <1>2, <1>3
  <2>2. index[t] < share[t + 1]
    BY <1>2
  <2>3. index[t] + 1 \in share[t] .. share[t + 1]
    BY <1>4, <2>2
  <2>4. acc[t] + Item(index[t]) = wanted[index[t] + 1] - wanted[share[t]]
    BY <1>4, <1>5 DEF Item
  <2> QED BY <2>1, <2>3, <2>4
<1>7. \A i \in share[t] .. index'[t] - 1 : psum'[i] = wanted[i] - wanted[share[t]]
  <2>1. ASSUME NEW i \in share[t] .. index[t]
        PROVE  psum'[i] = wanted[i] - wanted[share[t]]
    <3>1. i \in 0 .. len - 1 /\ (i # index[t] => i \in share[t] .. index[t] - 1)
      BY <1>3, <1>4, <1>5
    <3>2. psum'[i] = IF i = index[t] THEN acc[t] ELSE psum[i]
      BY <1>2, <1>3, <3>1
    <3> QED BY <1>4, <3>1, <3>2 DEF Scanned
  <2>2. share[t] .. index'[t] - 1 = share[t] .. index[t]
    BY <1>3, <1>6
  <2> QED BY <2>1, <2>2
<1>8. TypeOK'
  <2>1. index' \in [Workers -> Nat]
    BY <1>2, <1>3
  <2>2. acc' \in [Workers -> Int]
    <3>1. acc[t] + Item(index[t]) \in Int
      BY <1>3, <1>5 DEF Item
    <3> QED BY <1>2, <1>3, <3>1
  <2>3. psum' \in [0 .. len - 1 -> Int]
    BY <1>2, <1>3
  <2> QED BY <1>1, <1>2, <1>3, <2>1, <2>2, <2>3 DEF TypeOK
<1>9. ThreadInv(t)'
  BY <1>1, <1>2, <1>3, <1>6, <1>7 DEF ThreadInv, Scanned
<1>10. \A i \in 0 .. len - 1 : i \notin Of(t) => psum'[i] = psum[i]
  BY <1>2, <1>3, <1>5
<1>11. \A u \in Workers \ {t} :
         /\ at'[u] = at[u] /\ index'[u] = index[u] /\ acc'[u] = acc[u]
         /\ at[u] # "single" => suma'[u + 1] = suma[u + 1]
  BY <1>2, <1>3
<1> QED BY <1>1, <1>2, <1>3, <1>8, <1>9, <1>10, <1>11, WorkerMoves

LEMMA EndScanInv == ASSUME IInv, NEW t \in Workers, EndScan(t) PROVE IInv'
<1>1. /\ Worker(t) /\ Workers' = Workers /\ UNCHANGED <<len, wanted, request, nworkers, share, region>>
  BY WorkerFrame DEF Worker
<1>2. /\ at[t] = "scan" /\ index[t] = share[t + 1]
      /\ at' = [at EXCEPT ![t] = "store"]
      /\ UNCHANGED <<index, acc, suma, psum>>
  BY DEF EndScan
<1>3. /\ ThreadInv(t) /\ TypeOK
      /\ suma \in [0 .. nworkers -> Int] /\ suma[0] = 0
      /\ at \in [Workers -> Places]
  BY <1>1, <1>2, PastSingle
<1>4. TypeOK'
  <2>1. at' \in [Workers -> Places]
    BY <1>2, <1>3 DEF Places
  <2> QED BY <1>1, <1>2, <1>3, <2>1 DEF TypeOK
<1>5. at'[t] = "store"
  BY <1>2, <1>3
<1>6. ThreadInv(t)'
  BY <1>1, <1>2, <1>3, <1>5 DEF ThreadInv, Scanned, Of
<1>7. \A u \in Workers \ {t} : at'[u] = at[u]
  BY <1>2, <1>3
<1> QED BY <1>1, <1>2, <1>3, <1>4, <1>6, <1>7, WorkerMoves

LEMMA StoreInv == ASSUME IInv, NEW t \in Workers, Store(t) PROVE IInv'
<1>1. /\ Worker(t) /\ Workers' = Workers /\ UNCHANGED <<len, wanted, request, nworkers, share, region>>
  BY WorkerFrame DEF Worker
<1>2. /\ at[t] = "store"
      /\ suma' = [suma EXCEPT ![t + 1] = acc[t]]
      /\ acc' = [acc EXCEPT ![t] = 0]
      /\ index' = [index EXCEPT ![t] = 0]
      /\ at' = [at EXCEPT ![t] = "offset"]
      /\ psum' = psum
  BY DEF Store
<1>3. /\ ThreadInv(t) /\ TypeOK
      /\ suma \in [0 .. nworkers -> Int] /\ suma[0] = 0
      /\ at \in [Workers -> Places] /\ index \in [Workers -> Nat] /\ acc \in [Workers -> Int]
      /\ acc[t] \in Int /\ t \in Nat /\ nworkers \in Nat
  BY <1>1, <1>2, PastSingle
<1>4. t + 1 \in 0 .. nworkers /\ \A u \in Workers \ {t} : u + 1 \in 0 .. nworkers /\ u + 1 # t + 1
  BY <1>3 DEF Workers
<1>5. /\ suma' \in [0 .. nworkers -> Int] /\ suma'[t + 1] = acc[t] /\ suma'[0] = 0
      /\ \A u \in Workers \ {t} : suma'[u + 1] = suma[u + 1]
  <2>1. 0 # t + 1 /\ 0 \in 0 .. nworkers
    BY <1>3
  <2> QED BY <1>2, <1>3, <1>4, <2>1
<1>6. /\ at'[t] = "offset" /\ index'[t] = 0 /\ acc'[t] = 0
      /\ \A u \in Workers \ {t} : at'[u] = at[u] /\ index'[u] = index[u] /\ acc'[u] = acc[u]
  BY <1>2, <1>3
<1>7. TypeOK'
  <2>1. at' \in [Workers -> Places] /\ index' \in [Workers -> Nat] /\ acc' \in [Workers -> Int]
    BY <1>2, <1>3 DEF Places
  <2> QED BY <1>1, <1>2, <1>3, <1>5, <2>1 DEF TypeOK
<1>8. ThreadInv(t)'
  <2>1. index'[t] \in 0 .. t + 1
    BY <1>3, <1>6
  <2> QED BY <1>1, <1>2, <1>3, <1>5, <1>6, <2>1 DEF ThreadInv, Scanned, Of
<1> QED BY <1>1, <1>2, <1>5, <1>6, <1>7, <1>8, WorkerMoves

\* The sum of a share below is stored when a thread asks for it.
LEMMA SumStored ==
    ASSUME IInv, NEW t \in Workers, at[t] = "offset",
           AllPast({"single", "scan", "store"}), index[t] \in 0 .. t
    PROVE  /\ index[t] # 0 => suma[index[t]] = wanted[share[index[t]]] - wanted[share[index[t] - 1]]
           /\ share[index[t]] \in 0 .. len
           /\ index[t] # 0 => share[index[t] - 1] \in 0 .. len
<1>1. /\ TypeOK /\ t \in Nat /\ nworkers \in Nat /\ index[t] \in Nat /\ region = "parallel"
  <2>1. TypeOK /\ region = "parallel"
    BY DEF IInv
  <2>2. nworkers \in 1 .. MaxTeam /\ index \in [Workers -> Nat]
    BY <2>1 DEF TypeOK
  <2>3. t \in Nat /\ nworkers \in Nat
    BY <2>2 DEF Workers
  <2> QED BY <2>1, <2>2, <2>3
<1>2. index[t] \in 0 .. nworkers /\ share[index[t]] \in 0 .. len
  <2>1. share \in [0 .. nworkers -> 0 .. len]
    BY <1>1 DEF TypeOK
  <2>2. index[t] \in 0 .. nworkers
    BY <1>1 DEF Workers
  <2> QED BY <2>1, <2>2
<1>3. CASE index[t] # 0
  <2>1. index[t] - 1 \in Workers /\ index[t] - 1 \in 0 .. nworkers /\ index[t] - 1 + 1 = index[t]
    BY <1>1, <1>3 DEF Workers
  <2>2. ThreadInv(index[t] - 1) /\ at[index[t] - 1] \in {"offset", "shift", "end"}
    BY <1>1, <2>1 DEF IInv, AllPast, TypeOK, Places
  <2> QED BY <1>1, <1>2, <2>1, <2>2 DEF ThreadInv, TypeOK
<1> QED BY <1>2, <1>3

LEMMA OffsetInv == ASSUME IInv, NEW t \in Workers, Offset(t) PROVE IInv'
<1>1. /\ Worker(t) /\ Workers' = Workers /\ UNCHANGED <<len, wanted, request, nworkers, share, region>>
  BY WorkerFrame DEF Worker
<1>2. /\ at[t] = "offset" /\ AllPast({"single", "scan", "store"})
      /\ suma' = suma /\ psum' = psum
  BY DEF Offset
<1>3. /\ ThreadInv(t) /\ TypeOK /\ InputInv
      /\ suma \in [0 .. nworkers -> Int] /\ suma[0] = 0
      /\ at \in [Workers -> Places] /\ index \in [Workers -> Nat] /\ acc \in [Workers -> Int]
      /\ index[t] \in Nat /\ acc[t] \in Int /\ t \in Nat /\ nworkers \in Nat
  BY <1>1, <1>2, PastSingle
<1>4. /\ index[t] \in 0 .. t + 1
      /\ acc[t] = IF index[t] = 0 THEN 0 ELSE wanted[share[index[t] - 1]]
      /\ suma[t + 1] = wanted[share[t + 1]] - wanted[share[t]]
      /\ \A i \in Of(t) : Scanned(t, i)
  BY <1>2, <1>3 DEF ThreadInv
<1>5. CASE index[t] < t + 1
  <2>1. /\ acc' = [acc EXCEPT ![t] = @ + suma[index[t]]]
        /\ index' = [index EXCEPT ![t] = @ + 1] /\ at' = at
    BY <1>5 DEF Offset
  <2>2. index[t] \in 0 .. t /\ index[t] \in 0 .. nworkers /\ suma[index[t]] \in Int
    BY <1>3, <1>4, <1>5 DEF Workers
  <2>3. /\ index'[t] = index[t] + 1 /\ acc'[t] = acc[t] + suma[index[t]]
        /\ index' \in [Workers -> Nat] /\ acc' \in [Workers -> Int]
        /\ \A u \in Workers \ {t} : index'[u] = index[u] /\ acc'[u] = acc[u]
    BY <1>3, <2>1, <2>2
  <2>4. acc'[t] = wanted[share[index[t]]]
    <3>1. /\ index[t] # 0 => suma[index[t]] = wanted[share[index[t]]] - wanted[share[index[t] - 1]]
          /\ share[index[t]] \in 0 .. len
          /\ index[t] # 0 => share[index[t] - 1] \in 0 .. len
      BY <1>1, <1>2, <2>2, SumStored
    <3>2. CASE index[t] = 0
      <4>1. acc'[t] = 0
        BY <1>3, <1>4, <2>3, <3>2
      <4>2. wanted[share[index[t]]] = 0
        BY <1>3, <3>2 DEF InputInv
      <4> QED BY <4>1, <4>2
    <3>3. CASE index[t] # 0
      <4>1. wanted[share[index[t]]] \in Nat /\ wanted[share[index[t] - 1]] \in Nat
        BY <1>3, <3>1, <3>3 DEF TypeOK
      <4> QED BY <1>4, <2>3, <3>1, <3>3, <4>1
    <3> QED BY <3>2, <3>3
  <2>5. TypeOK'
    BY <1>1, <1>2, <1>3, <2>1, <2>3 DEF TypeOK
  <2>6. ThreadInv(t)'
    <3>1. index[t] + 1 \in 0 .. t + 1 /\ index[t] + 1 # 0 /\ index[t] + 1 - 1 = index[t]
      BY <1>3, <2>2
    <3> QED BY <1>1, <1>2, <1>3, <1>4, <2>1, <2>3, <2>4, <3>1 DEF ThreadInv, Scanned, Of
  <2> QED BY <1>1, <1>2, <1>3, <2>1, <2>3, <2>5, <2>6, WorkerMoves
<1>6. CASE ~(index[t] < t + 1)
  <2>1. /\ index' = [index EXCEPT ![t] = share[t]]
        /\ at' = [at EXCEPT ![t] = "shift"] /\ acc' = acc
    BY <1>6 DEF Offset
  <2>2. /\ share[t] \in 0 .. len /\ share[t + 1] \in 0 .. len
        /\ share[t] <= share[t + 1] /\ len \in Nat
    BY <1>3, ShareBounds
  <2>3. /\ index' \in [Workers -> Nat] /\ at' \in [Workers -> Places]
        /\ index'[t] = share[t] /\ at'[t] = "shift"
        /\ \A u \in Workers \ {t} : index'[u] = index[u] /\ at'[u] = at[u]
    BY <1>3, <2>1, <2>2 DEF Places
  <2>4. acc[t] = wanted[share[t]]
    <3>1. index[t] = t + 1 /\ index[t] - 1 = t /\ index[t] # 0
      BY <1>3, <1>4, <1>6
    <3> QED BY <1>4, <3>1
  <2>5. TypeOK'
    BY <1>1, <1>2, <1>3, <2>1, <2>3 DEF TypeOK
  <2>6. ThreadInv(t)'
    <3>1. share[t] \in share[t] .. share[t + 1]
      BY <2>2
    <3>2. \A i \in share[t] .. share[t] - 1 : FALSE
      BY <2>2
    <3> QED BY <1>1, <1>2, <1>3, <1>4, <2>1, <2>3, <2>4, <3>1, <3>2
            DEF ThreadInv, Scanned, Of
  <2> QED BY <1>1, <1>2, <1>3, <2>1, <2>3, <2>5, <2>6, WorkerMoves
<1> QED BY <1>5, <1>6

LEMMA ShiftInv == ASSUME IInv, NEW t \in Workers, Shift(t) PROVE IInv'
<1>1. /\ Worker(t) /\ Workers' = Workers /\ UNCHANGED <<len, wanted, request, nworkers, share, region>>
  BY WorkerFrame DEF Worker
<1>2. at[t] = "shift" /\ suma' = suma /\ acc' = acc
  BY DEF Shift
<1>3. /\ ThreadInv(t) /\ TypeOK /\ InputInv
      /\ suma \in [0 .. nworkers -> Int] /\ suma[0] = 0
      /\ at \in [Workers -> Places] /\ index \in [Workers -> Nat]
      /\ psum \in [0 .. len - 1 -> Int]
      /\ index[t] \in Nat /\ acc[t] \in Int
  BY <1>1, <1>2, PastSingle
<1>4. /\ index[t] \in share[t] .. share[t + 1]
      /\ acc[t] = wanted[share[t]]
      /\ \A i \in share[t] .. index[t] - 1 : psum[i] = wanted[i]
      /\ \A i \in index[t] .. share[t + 1] - 1 : Scanned(t, i)
      /\ suma[t + 1] = wanted[share[t + 1]] - wanted[share[t]]
      /\ share[t] \in 0 .. len /\ share[t + 1] \in 0 .. len /\ len \in Nat
      /\ wanted[share[t]] \in Nat
  BY <1>2, <1>3, ShareBounds DEF ThreadInv
<1>5. CASE index[t] < share[t + 1]
  <2>1. /\ psum' = [psum EXCEPT ![index[t]] = @ + acc[t]]
        /\ index' = [index EXCEPT ![t] = @ + 1] /\ at' = at
    BY <1>5 DEF Shift
  <2>2. index[t] \in 0 .. len - 1 /\ index[t] \in Of(t) /\ index[t] \in 0 .. len
    BY <1>3, <1>4, <1>5 DEF Of
  <2>3. psum[index[t]] + acc[t] = wanted[index[t]]
    <3>1. Scanned(t, index[t])
      <4>1. index[t] \in index[t] .. share[t + 1] - 1
        BY <1>3, <1>4, <1>5
      <4> QED BY <1>4, <4>1
    <3>2. wanted[index[t]] \in Nat
      BY <1>3, <2>2 DEF TypeOK
    <3> QED BY <1>4, <3>1, <3>2 DEF Scanned
  <2>4. /\ index'[t] = index[t] + 1 /\ index' \in [Workers -> Nat]
        /\ \A u \in Workers \ {t} : index'[u] = index[u]
    BY <1>3, <2>1
  <2>5. /\ psum' \in [0 .. len - 1 -> Int]
        /\ psum'[index[t]] = wanted[index[t]]
        /\ \A i \in 0 .. len - 1 : i # index[t] => psum'[i] = psum[i]
    BY <1>3, <2>1, <2>2, <2>3
  <2>6. TypeOK'
    BY <1>1, <1>2, <1>3, <2>1, <2>4, <2>5 DEF TypeOK
  <2>7. ThreadInv(t)'
    <3>1. index'[t] \in share[t] .. share[t + 1]
      BY <1>3, <1>4, <1>5, <2>4
    <3>2. ASSUME NEW i \in share[t] .. index[t]  PROVE psum'[i] = wanted[i]
      <4>1. i \in 0 .. len - 1 /\ (i # index[t] => i \in share[t] .. index[t] - 1)
        BY <1>3, <1>4, <2>2
      <4> QED BY <1>4, <2>5, <4>1
    <3>3. ASSUME NEW i \in index[t] + 1 .. share[t + 1] - 1
          PROVE  psum'[i] = wanted[i] - wanted[share[t]]
      <4>1. i \in 0 .. len - 1 /\ i # index[t] /\ i \in index[t] .. share[t + 1] - 1
        BY <1>3, <1>4, <2>2
      <4> QED BY <1>4, <2>5, <4>1 DEF Scanned
    <3>4. share[t] .. index'[t] - 1 = share[t] .. index[t]
      BY <1>3, <2>4
    <3> QED BY <1>1, <1>2, <1>3, <1>4, <2>1, <2>4, <3>1, <3>2, <3>3, <3>4
            DEF ThreadInv, Scanned
  <2>8. \A i \in 0 .. len - 1 : i \notin Of(t) => psum'[i] = psum[i]
    BY <2>2, <2>5
  <2> QED BY <1>1, <1>2, <1>3, <2>1, <2>4, <2>6, <2>7, <2>8, WorkerMoves
<1>6. CASE ~(index[t] < share[t + 1])
  <2>1. at' = [at EXCEPT ![t] = "end"] /\ index' = index /\ psum' = psum
    BY <1>6 DEF Shift
  <2>2. /\ at' \in [Workers -> Places] /\ at'[t] = "end"
        /\ \A u \in Workers \ {t} : at'[u] = at[u]
    BY <1>3, <2>1 DEF Places
  <2>3. TypeOK'
    BY <1>1, <1>2, <1>3, <2>1, <2>2 DEF TypeOK
  <2>4. index[t] = share[t + 1]
    BY <1>3, <1>4, <1>6
  <2>5. ThreadInv(t)'
    BY <1>1, <1>2, <1>3, <1>4, <2>1, <2>2, <2>4 DEF ThreadInv, Of
  <2> QED BY <1>1, <1>2, <1>3, <2>1, <2>2, <2>3, <2>5, WorkerMoves
<1> QED BY <1>5, <1>6

-----------------------------------------------------------------------------

LEMMA NextInv ==
    ASSUME PrefixSumAssumption, IInv, [PSNext]_psVars
    PROVE  IInv'
<1>1. ASSUME NEW t \in Workers, Worker(t)  PROVE IInv'
  BY <1>1, SingleInv, ScanInv, EndScanInv, StoreInv, OffsetInv, ShiftInv DEF Worker
<1> QED BY <1>1, SerialStepInv, SerialReturnsInv, ForkInv, JoinInv, NextCallInv,
           StutterInv DEF PSNext, Caller

\* The indices, sums and places stay in their ranges for any team.
THEOREM TypeCorrect ==
    ASSUME PrefixSumAssumption
    PROVE  PSSpec => []TypeOK
<1>1. IInv => TypeOK
  BY DEF IInv
<1> QED BY <1>1, InitInv, NextInv, PTL DEF PSSpec

\* The barriers of prefix_sum are enough: no thread reads the sum of a share
\* that is not stored.
THEOREM BarriersSuffice ==
    ASSUME PrefixSumAssumption
    PROVE  PSSpec => []SumsAwaited
<1>1. IInv => SumsAwaited
  <2> SUFFICES ASSUME IInv, NEW t \in Workers, at[t] = "offset",
                      AllPast({"single", "scan", "store"}), index[t] <= t
               PROVE  suma[index[t]] # Unset
    BY DEF SumsAwaited
  <2>1. /\ TypeOK /\ InputInv /\ ThreadInv(t)
    BY DEF IInv
  <2>2. index[t] \in 0 .. t /\ t \in 0 .. nworkers /\ index[t] \in 0 .. nworkers
    BY <2>1 DEF TypeOK, Workers
  <2>3. CASE index[t] = 0
    BY <2>1, <2>3 DEF ThreadInv, Unset
  <2>4. CASE index[t] # 0
    <3>1. /\ suma[index[t]] = wanted[share[index[t]]] - wanted[share[index[t] - 1]]
          /\ share[index[t]] \in 0 .. len /\ share[index[t] - 1] \in 0 .. len
      BY <2>2, <2>4, SumStored
    <3>2. index[t] - 1 \in 0 .. nworkers /\ index[t] - 1 <= index[t]
      <4>1. nworkers \in Nat /\ nworkers > 0
        BY <2>1, PrefixSumAssumption DEF TypeOK, PrefixSumAssumption
      <4>2. \A a \in 0 .. nworkers : a # 0 => a - 1 \in 0 .. nworkers /\ a - 1 <= a
        BY <4>1
      <4> QED BY <2>2, <2>4, <4>2
    <3>3. wanted[share[index[t] - 1]] <= wanted[share[index[t]]]
      BY <2>1, <2>2, <3>1, <3>2 DEF InputInv
    <3>4. wanted[share[index[t] - 1]] \in Nat /\ wanted[share[index[t]]] \in Nat
      BY <2>1, <3>1 DEF TypeOK
    <3> QED BY <3>1, <3>3, <3>4 DEF Unset
  <2> QED BY <2>3, <2>4
<1> QED BY <1>1, InitInv, NextInv, PTL DEF PSSpec

\* The offsets that a team computes are those of the serial loop, for any
\* number and values of the items, any team and any division of the items.
THEOREM ParallelIsSerial ==
    ASSUME PrefixSumAssumption
    PROVE  PSSpec => []SameAsSerial
<1>1. IInv => SameAsSerial
  BY DEF IInv
<1> QED BY <1>1, InitInv, NextInv, PTL DEF PSSpec
=============================================================================
