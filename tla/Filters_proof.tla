---------------------------- MODULE Filters_proof ----------------------------
(***************************************************************************)
(* Theorems about what every filter passes through. StageChain, for every  *)
(* number of stages: the two buffers never collide, the result always ends *)
(* up in the caller's buffer, and a decode that reports success restored   *)
(* the volume. Reorder, for every volume, tile size, metric and number of  *)
(* threads: the parallel search for the place of a tile takes every tile   *)
(* exactly once and finds one for every place; a volume that a filter      *)
(* handles comes back cell by cell, and nothing is written outside of it.  *)
(***************************************************************************)
EXTENDS StageChain, Reorder, Sums, TLAPS

\* The chain is lossless only when the length of the encoded buffer, which
\* decode uses for every stage, holds what each stage needs.
SizesAgree ==
    \A len \in Lengths : len \in Compressing => 1 .. len \subseteq Compressing

\* The roles of the two buffers, as a function of the stages done.
Roles ==
    \/ /\ fidx = 0
       /\ in_ptr \in {Null, "scratch"}
       /\ out_ptr = "out"
    \/ /\ fidx > 0 /\ fidx % 2 = 1
       /\ in_ptr = "out"
       /\ out_ptr = "scratch"
       /\ value = "out"
    \/ /\ fidx > 0 /\ fidx % 2 = 0
       /\ in_ptr = "scratch"
       /\ out_ptr = "out"
       /\ value = "scratch"

CallInv == pc = "call" => mem["in"] = 0 /\ err = 0

EncodeInv == pc = "encode" => Roles /\ mem[Source] = fidx /\ err = 0

EncodedInv == pc = "encoded" => mem["out"] = n /\ value = "out" /\ err = 0

DecodeInv ==
    pc = "decode" =>
        \/ err = 0 /\ fidx = 0 /\ mem["temp"] = n
        \/ err = 0 /\ fidx > 0 /\ mem["restored"] = n - fidx
              /\ (fidx < n => mem["temp"] = n - fidx)
        \/ err > 0 /\ mem["restored"] = Spoiled /\ mem["temp"] = Spoiled

DecodedInv ==
    pc = "decoded" =>
        \/ err = 0 /\ mem["restored"] = 0
        \/ err > 0 /\ mem["restored"] = Spoiled

ThrownInv == pc = "thrown" => err = 0

ChainInv ==
    TypeOK /\ CallInv /\ EncodeInv /\ EncodedInv /\ DecodeInv /\ DecodedInv
    /\ ThrownInv

\* Adding one flips the parity that decides which buffer a stage writes.
LEMMA ParityStep ==
    ASSUME NEW k \in Nat
    PROVE  /\ k % 2 = 0 => (k + 1) % 2 = 1
           /\ k % 2 = 1 => (k + 1) % 2 = 0
           /\ k % 2 \in {0, 1}
  OBVIOUS

\* Stages of a chain whose sizes agree never lose items to decode's copy.
LEMMA NothingTruncated ==
    ASSUME ChainAssumption, SizesAgree, n \in Lengths, NEW k \in 1 .. n
    PROVE  Truncated(k) = k
  BY DEF Truncated, SizesAgree

LEMMA InitInv == ChainAssumption /\ ChainInit => ChainInv
  BY DEF ChainAssumption, ChainInit, ChainInv, TypeOK, CallInv, EncodeInv, EncodedInv,
         DecodeInv, DecodedInv, ThrownInv, Fresh, Contents, Buffers, Null, Spoiled

LEMMA StepInv ==
    ASSUME ChainAssumption, HasScratchpad, SizesAgree, ChainInv, [ChainNext]_chainVars
    PROVE  ChainInv'
<1> USE DEF ChainAssumption, Buffers, Null, Contents, Spoiled
<1>1. CASE EncodeWithTemp
  BY <1>1 DEF ChainInv, TypeOK, CallInv, EncodeInv, EncodedInv, DecodeInv,
              DecodedInv, ThrownInv, EncodeWithTemp, Roles, Source
<1>2. CASE EncodeWithScratchpad
  BY <1>2 DEF ChainInv, TypeOK, CallInv, EncodeInv, EncodedInv, DecodeInv,
              DecodedInv, ThrownInv, EncodeWithScratchpad, Roles, Source
<1>3. CASE EncodeStage
  <2>1. TypeOK'
    BY <1>3 DEF ChainInv, TypeOK, EncodeInv, EncodeStage, SwapPointers, Applied,
                Source, Roles
  <2>2. EncodeInv'
    <3>1. /\ fidx \in Nat /\ fidx' = fidx + 1
          /\ pc' = "encode" /\ err' = 0
      BY <1>3 DEF ChainInv, TypeOK, EncodeInv, EncodeStage
    <3>2. Roles'
      BY <1>3, <3>1, ParityStep
         DEF ChainInv, TypeOK, EncodeInv, EncodeStage, SwapPointers, Roles
    <3>3. mem'[out_ptr] = fidx + 1 /\ in_ptr' = out_ptr /\ out_ptr # Null
      BY <1>3 DEF ChainInv, TypeOK, EncodeInv, EncodeStage, SwapPointers, Applied,
                  Roles
    <3> QED BY <3>1, <3>2, <3>3 DEF EncodeInv, Source
  <2> QED
    BY <2>1, <2>2, <1>3 DEF ChainInv, CallInv, EncodedInv, DecodeInv, DecodedInv,
                            ThrownInv, EncodeStage
<1>4. CASE RejectStage
  BY <1>4 DEF ChainInv, TypeOK, CallInv, EncodeInv, EncodedInv, DecodeInv,
              DecodedInv, ThrownInv, RejectStage, Roles
<1>5. CASE FinishEncode
  <2>1. TypeOK'
    BY <1>5 DEF ChainInv, TypeOK, EncodeInv, FinishEncode, Roles
  <2>2. mem'["out"] = n /\ value' = "out" /\ err' = 0
    BY <1>5 DEF ChainInv, TypeOK, EncodeInv, FinishEncode, Roles, Source
  <2> QED
    BY <2>1, <2>2, <1>5 DEF ChainInv, CallInv, EncodeInv, EncodedInv, DecodeInv,
                            DecodedInv, ThrownInv, FinishEncode
<1>6. CASE StartDecode
  BY <1>6 DEF ChainInv, TypeOK, CallInv, EncodeInv, EncodedInv, DecodeInv,
              DecodedInv, ThrownInv, StartDecode
<1>7. CASE DecodeStage
  <2>1. Undone(n - fidx, mem["temp"]) \in Contents
    BY <1>7 DEF ChainInv, TypeOK, DecodeStage, Undone
  <2>2. TypeOK'
    BY <1>7, <2>1 DEF ChainInv, TypeOK, DecodeStage, Produce, Truncated
  <2>3. mem'["restored"] = Undone(n - fidx, mem["temp"])
        /\ mem'["temp"] = Truncated(Undone(n - fidx, mem["temp"]))
    BY <1>7 DEF ChainInv, TypeOK, DecodeStage, Produce
  <2>4. DecodeInv'
    <3>1. CASE err > 0
      BY <1>7, <2>3, <3>1
         DEF ChainInv, TypeOK, DecodeInv, DecodeStage, Undone, Truncated
    <3>2. CASE err = 0
      <4>1. mem["temp"] = n - fidx
        BY <1>7, <3>2 DEF ChainInv, TypeOK, DecodeInv, DecodeStage
      <4>2. mem'["restored"] = n - fidx - 1
        BY <1>7, <2>3, <4>1 DEF ChainInv, TypeOK, Undone, DecodeStage
      <4>3. fidx + 1 < n => mem'["temp"] = n - fidx - 1
        BY <1>7, <2>3, <4>2, NothingTruncated DEF ChainInv, TypeOK, DecodeStage
      <4> QED
        BY <1>7, <3>2, <4>2, <4>3 DEF ChainInv, TypeOK, DecodeInv, DecodeStage
    <3> QED BY <3>1, <3>2 DEF ChainInv, TypeOK
  <2> QED
    BY <2>2, <2>4, <1>7 DEF ChainInv, CallInv, EncodeInv, EncodedInv, DecodedInv,
                            ThrownInv, DecodeStage
<1>8. CASE FailDecodeStage
  <2>1. PICK code \in ErrorCodes : err' = err + 10 * (fidx + 1) + code
    BY <1>8 DEF FailDecodeStage
  <2>2. err' \in Nat /\ err' > 0
    BY <1>8, <2>1 DEF ChainInv, TypeOK, FailDecodeStage
  <2>3. mem'["restored"] = Spoiled /\ mem'["temp"] = Spoiled
    BY <1>8 DEF ChainInv, TypeOK, FailDecodeStage, Produce, Truncated
  <2>4. TypeOK'
    BY <1>8, <2>2 DEF ChainInv, TypeOK, FailDecodeStage, Produce, Truncated
  <2> QED
    BY <1>8, <2>2, <2>3, <2>4 DEF ChainInv, CallInv, EncodeInv, EncodedInv,
                              DecodeInv, DecodedInv, ThrownInv, FailDecodeStage
<1>9. CASE FinishDecode
  BY <1>9 DEF ChainInv, TypeOK, CallInv, EncodeInv, EncodedInv, DecodeInv,
              DecodedInv, ThrownInv, FinishDecode
<1>10. CASE NextVolume
  BY <1>10 DEF ChainInv, TypeOK, CallInv, EncodeInv, EncodedInv, DecodeInv,
               DecodedInv, ThrownInv, NextVolume, Fresh
<1>11. CASE UNCHANGED chainVars
  BY <1>11 DEF chainVars, ChainInv, TypeOK, CallInv, EncodeInv, EncodedInv, DecodeInv,
               DecodedInv, ThrownInv, Roles, Source
<1> QED
  BY <1>1, <1>2, <1>3, <1>4, <1>5, <1>6, <1>7, <1>8, <1>9, <1>10, <1>11
     DEF ChainNext

-----------------------------------------------------------------------------
LEMMA Invariance ==
    ASSUME HasScratchpad, SizesAgree
    PROVE  ChainSpec => []ChainInv
<1>1. ChainInit => ChainInv
  BY InitInv, ChainAssumption
<1>2. ChainInv /\ [ChainNext]_chainVars => ChainInv'
  BY StepInv, ChainAssumption
<1> QED BY <1>1, <1>2, PTL DEF ChainSpec

\* The state of a chain keeps its type.
THEOREM TypeCorrect ==
    ASSUME HasScratchpad, SizesAgree
    PROVE  ChainSpec => []TypeOK
<1>1. ChainInv => TypeOK
  BY DEF ChainInv
<1> QED BY <1>1, Invariance, PTL

\* For chains of any length, no stage reads and writes the same buffer, the
\* caller's input or nullptr.
THEOREM BuffersNeverCollide ==
    ASSUME HasScratchpad, SizesAgree
    PROVE  ChainSpec => []BuffersDistinct
<1>1. ChainInv => BuffersDistinct
  BY DEF ChainInv, EncodeInv, Roles, BuffersDistinct, Source, Null
<1> QED BY <1>1, Invariance, PTL

\* For chains of any length, odd or even, encode returns with the volume after
\* all its stages in the caller's _out.
THEOREM ResultDelivered ==
    ASSUME HasScratchpad, SizesAgree
    PROVE  ChainSpec => []ResultInOut
<1>1. ChainInv => ResultInOut
  BY DEF ChainInv, EncodedInv, ResultInOut
<1> QED BY <1>1, Invariance, PTL

\* For chains of any length whose sizes agree, a decode that returns 0 left the
\* original volume in the caller's buffer.
THEOREM DecodeHonest ==
    ASSUME HasScratchpad, SizesAgree
    PROVE  ChainSpec => []SuccessMeansRestored
<1>1. ChainInv => SuccessMeansRestored
  BY DEF ChainInv, DecodedInv, SuccessMeansRestored
<1> QED BY <1>1, Invariance, PTL

-----------------------------------------------------------------------------
(* Refinement: the part of FilterChain's specification without fairness.     *)

LEMMA InitMaps == ChainAssumption /\ ChainInit => FC!Init
  BY DEF ChainAssumption, ChainInit, FC!Init, Phase, Volume, Holder, Fresh, Buffers

\* Every step of the chain is a step of FilterChain or leaves its view alone.
LEMMA StepMaps ==
    ASSUME ChainAssumption, HasScratchpad, SizesAgree, ChainInv, ChainInv',
           [ChainNext]_chainVars
    PROVE  [FC!Next]_(FC!vars)
<1> USE DEF ChainAssumption, Buffers, Null, Contents, Spoiled, FC!Lost, FC!vars,
           Holder
<1>0. n \in Nat \ {0} /\ n' = n
  <2>1. n \in Nat \ {0}
    BY DEF ChainInv, TypeOK
  <2>2. n' = n
    BY DEF ChainNext, chainVars, EncodeWithTemp, EncodeWithScratchpad, EncodeStage,
           RejectStage, FinishEncode, StartDecode, DecodeStage,
           FailDecodeStage, FinishDecode, NextVolume
  <2> QED BY <2>1, <2>2
<1> USE <1>0
<1>1. CASE EncodeWithTemp
  <2>1. FC!Accept
    BY <1>1 DEF EncodeWithTemp, ChainInv, TypeOK, CallInv, Phase, Volume, Source,
                FC!Accept
  <2> QED BY <2>1 DEF FC!Next
<1>2. CASE EncodeWithScratchpad
  <2>1. FC!Accept
    BY <1>2 DEF EncodeWithScratchpad, ChainInv, TypeOK, CallInv, Phase, Volume,
                Source, FC!Accept
  <2> QED BY <2>1 DEF FC!Next
<1>3. CASE EncodeStage
  <2>1. /\ pc = "encode" /\ pc' = "encode" /\ fidx \in 0 .. n - 1
        /\ fidx' = fidx + 1 /\ err' = err
    BY <1>3 DEF EncodeStage, ChainInv, TypeOK
  <2>2. Volume = fidx /\ Volume' = fidx + 1
    BY <2>1 DEF ChainInv, EncodeInv, Volume
  <2>3. FC!Filter
    BY <2>1, <2>2 DEF Phase, FC!Filter
  <2> QED BY <2>3 DEF FC!Next
<1>4. CASE RejectStage
  <2>1. /\ pc = "encode" /\ pc' = "thrown" /\ fidx \in 0 .. n - 1 /\ err' = err
    BY <1>4 DEF RejectStage, ChainInv, TypeOK
  <2>2. Volume = fidx /\ Volume' = Spoiled
    BY <2>1 DEF ChainInv, EncodeInv, Volume
  <2>3. FC!Refuse
    BY <2>1, <2>2 DEF Phase, FC!Refuse
  <2> QED BY <2>3 DEF FC!Next
<1>5. CASE FinishEncode
  <2>1. pc = "encode" /\ pc' = "encoded" /\ fidx = n /\ err' = err
    BY <1>5 DEF FinishEncode
  <2>2. Volume = n /\ Volume' = n
    BY <2>1 DEF ChainInv, EncodeInv, EncodedInv, Volume
  <2>3. FC!Deliver
    BY <2>1, <2>2 DEF Phase, FC!Deliver
  <2> QED BY <2>3 DEF FC!Next
<1>6. CASE StartDecode
  <2>1. /\ pc = "encoded" /\ pc' = "decode" /\ fidx' = 0 /\ err' = 0
        /\ mem'["temp"] = mem["out"] /\ err = 0
    BY <1>6 DEF StartDecode, ChainInv, TypeOK, EncodedInv
  <2>2. Volume' = Volume
    BY <2>1 DEF Volume
  <2>3. FC!Return
    BY <2>1, <2>2 DEF Phase, FC!Return
  <2> QED BY <2>3 DEF FC!Next
<1>7. CASE DecodeStage
  <2>1. /\ pc = "decode" /\ pc' = "decode" /\ fidx \in 0 .. n - 1
        /\ fidx' = fidx + 1 /\ err' = err
    BY <1>7 DEF DecodeStage, ChainInv, TypeOK
  <2>2. Volume = mem["temp"]
    BY <2>1 DEF Volume
  <2>3. CASE err = 0
    <3>1. Volume = n - fidx /\ Volume' = n - fidx - 1
      BY <2>1, <2>2, <2>3 DEF ChainInv, DecodeInv, Volume
    <3>2. FC!Unfilter
      BY <2>1, <2>3, <3>1 DEF Phase, FC!Unfilter
    <3> QED BY <3>2 DEF FC!Next
  <2>4. CASE err > 0
    <3>1. Volume = Spoiled /\ Volume' = Spoiled
      BY <2>1, <2>2, <2>4 DEF ChainInv, DecodeInv, Volume
    <3> QED BY <2>1, <3>1 DEF Phase
  <2> QED BY <2>3, <2>4 DEF ChainInv, TypeOK
<1>8. CASE FailDecodeStage
  <2>1. /\ pc = "decode" /\ pc' = "decode" /\ fidx \in 0 .. n - 1
        /\ fidx' = fidx + 1
    BY <1>8 DEF FailDecodeStage, ChainInv, TypeOK
  <2>2. PICK code \in ErrorCodes : err' = err + 10 * (fidx + 1) + code
    BY <1>8 DEF FailDecodeStage
  <2>3. err' > 0
    BY <2>1, <2>2 DEF ChainInv, TypeOK
  <2>4. Volume # 0 /\ Volume' = Spoiled
    BY <2>1, <2>3 DEF ChainInv, DecodeInv, Volume
  <2>5. FC!Fault
    BY <2>1, <2>3, <2>4 DEF Phase, FC!Fault
  <2> QED BY <2>5 DEF FC!Next
<1>9. CASE FinishDecode
  <2>1. /\ pc = "decode" /\ pc' = "decoded" /\ fidx = n /\ err' = err
        /\ mem' = mem
    BY <1>9 DEF FinishDecode
  <2>2. Volume' = Volume /\ (Volume = 0 \/ (Volume = Spoiled /\ err > 0))
    BY <2>1 DEF ChainInv, DecodeInv, Volume
  <2>3. FC!Restore
    BY <2>1, <2>2 DEF Phase, FC!Restore
  <2> QED BY <2>3 DEF FC!Next
<1>10. CASE NextVolume
  <2>1. FC!NextVolume
    BY <1>10 DEF NextVolume, Fresh, Phase, Volume, FC!NextVolume
  <2> QED BY <2>1 DEF FC!Next
<1>11. CASE UNCHANGED chainVars
  BY <1>11 DEF chainVars, Phase, Volume, Source
<1> QED
  BY <1>1, <1>2, <1>3, <1>4, <1>5, <1>6, <1>7, <1>8, <1>9, <1>10, <1>11
     DEF ChainNext

\* The chain implements FilterChain: stages are applied in order, delivered
\* only when all are, undone in reverse, and losses are always reported.
THEOREM Refinement ==
    ASSUME HasScratchpad, SizesAgree
    PROVE  ChainSpec => ImplementsFilterChain
<1>1. ChainInit => FC!Init
  BY InitMaps, ChainAssumption
<1>2. ChainInv /\ ChainInv' /\ [ChainNext]_chainVars => [FC!Next]_(FC!vars)
  BY StepMaps, ChainAssumption
<1> QED BY <1>1, <1>2, Invariance, PTL DEF ChainSpec, FC!Spec, ImplementsFilterChain

-----------------------------------------------------------------------------
(* Ranks: the places of a sorted metric *)

\* m ranks slots 0 .. num - 1 by natural numbers.
IsMetric(m, num) == num \in Nat \ {0} /\ m \in [0 .. num - 1 -> Nat]

\* The tiles before k in a sorted metric; of equal ones the first comes first.
Ahead(m, k) == {l \in DOMAIN m : m[l] < m[k] \/ (m[l] = m[k] /\ l < k)}
Rang(m) == [k \in DOMAIN m |-> Cardinality(Ahead(m, k))]

LEMMA AheadFinite ==
    ASSUME NEW num, NEW m, IsMetric(m, num), NEW k \in 0 .. num - 1
    PROVE  /\ IsFiniteSet(Ahead(m, k)) /\ Cardinality(Ahead(m, k)) \in 0 .. num - 1
<1>1. IsFiniteSet(0 .. num - 1) /\ Cardinality(0 .. num - 1) = num
  BY FS_Interval DEF IsMetric
<1>2. Ahead(m, k) \in SUBSET (0 .. num - 1) /\ k \notin Ahead(m, k)
  BY DEF Ahead, IsMetric
<1>3. /\ IsFiniteSet(Ahead(m, k)) /\ Cardinality(Ahead(m, k)) <= num
      /\ Cardinality(Ahead(m, k)) # num
  BY <1>1, <1>2, FS_Subset
<1>4. Cardinality(Ahead(m, k)) \in Nat
  BY <1>3, FS_CardinalityType
<1> QED BY <1>3, <1>4 DEF IsMetric

\* What a finite set has beside a part of it counts.
LEMMA FewerInPart ==
    ASSUME NEW S, NEW T, IsFiniteSet(T), S \subseteq T, NEW x \in T, x \notin S
    PROVE  IsFiniteSet(S) /\ Cardinality(S) < Cardinality(T)
<1>1. S \in SUBSET T /\ S # T
  OBVIOUS
<1>2. IsFiniteSet(S) /\ Cardinality(S) <= Cardinality(T) /\ Cardinality(S) # Cardinality(T)
  BY <1>1, FS_Subset
<1> QED BY <1>2, FS_CardinalityType

LEMMA RangsDiffer ==
    ASSUME NEW num, NEW m, IsMetric(m, num), NEW k \in 0 .. num - 1, NEW l \in 0 .. num - 1,
           k \in Ahead(m, l)
    PROVE  Rang(m)[k] < Rang(m)[l]
<1>1. Ahead(m, k) \subseteq Ahead(m, l) /\ k \notin Ahead(m, k)
  BY DEF Ahead, IsMetric
<1>2. Cardinality(Ahead(m, k)) < Cardinality(Ahead(m, l))
  BY <1>1, AheadFinite, FewerInPart
<1> QED BY <1>2 DEF Rang, IsMetric

\* Every place of the sorted metric is that of one tile.
LEMMA RangIsOnto ==
    ASSUME NEW num, NEW m, IsMetric(m, num), NEW i \in 0 .. num - 1
    PROVE  \E k \in 0 .. num - 1 : Rang(m)[k] = i
<1> DEFINE S == 0 .. num - 1
           r == Rang(m)
<1>1. r \in [S -> S]
  BY AheadFinite DEF Rang, IsMetric
<1>2. ASSUME NEW k \in S, NEW l \in S, k # l  PROVE r[k] # r[l]
  <2>1. k \in Ahead(m, l) \/ l \in Ahead(m, k)
    BY <1>2 DEF Ahead, IsMetric
  <2>2. r[k] < r[l] \/ r[l] < r[k]
    BY <2>1, RangsDiffer
  <2> QED BY <1>1, <2>2
<1>3. IsFiniteSet(S)
  BY FS_Interval DEF IsMetric
<1> HIDE DEF S, r
<1>4. r \in Injection(S, S)
  BY <1>1, <1>2 DEF Injection, IsInjective
<1>5. r \in Surjection(S, S)
  BY <1>3, <1>4, FS_Injection
<1> QED BY <1>5 DEF Surjection, S, r

\* The tile at place i has the i-th smallest metric.
LEMMA NthIsAtRang ==
    ASSUME NEW num, NEW m, IsMetric(m, num), NEW k \in 0 .. num - 1
    PROVE  NthSmallest(m, Rang(m)[k]) = m[k]
<1> DEFINE i == Rang(m)[k]
           Below(v) == {l \in DOMAIN m : m[l] < v}
           UpTo(v) == {l \in DOMAIN m : m[l] <= v}
           V == {m[l] : l \in DOMAIN m}
           Nth(v) == Cardinality(Below(v)) <= i /\ i < Cardinality(UpTo(v))
<1>1. DOMAIN m = 0 .. num - 1 /\ IsFiniteSet(0 .. num - 1) /\ V \subseteq Nat
  BY FS_Interval DEF IsMetric
<1>2. \A v : /\ IsFiniteSet(Below(v)) /\ Cardinality(Below(v)) \in Nat
             /\ IsFiniteSet(UpTo(v)) /\ Cardinality(UpTo(v)) \in Nat
  <2>1. \A v : Below(v) \in SUBSET (0 .. num - 1) /\ UpTo(v) \in SUBSET (0 .. num - 1)
    BY <1>1
  <2> HIDE DEF Below, UpTo
  <2> QED BY <1>1, <2>1, FS_Subset, FS_CardinalityType
<1>3. i = Cardinality(Ahead(m, k)) /\ i \in Nat
  BY <1>1, AheadFinite DEF Rang
<1>4. m[k] \in V /\ Nth(m[k])
  <2>1. Below(m[k]) \in SUBSET Ahead(m, k)
    BY DEF Ahead
  <2>2. Ahead(m, k) \subseteq UpTo(m[k]) /\ k \in UpTo(m[k]) /\ k \notin Ahead(m, k)
    BY <1>1 DEF Ahead, IsMetric
  <2> HIDE DEF Below, UpTo
  <2>3. Cardinality(Below(m[k])) <= i
    BY <1>3, <2>1, AheadFinite, FS_Subset
  <2>4. i < Cardinality(UpTo(m[k]))
    BY <1>2, <1>3, <2>2, FewerInPart
  <2> QED BY <1>1, <2>3, <2>4
<1>5. ASSUME NEW v \in V, NEW w \in V, Nth(v), Nth(w), v < w  PROVE FALSE
  <2>1. UpTo(v) \in SUBSET Below(w)
    BY <1>1, <1>5 DEF IsMetric
  <2> HIDE DEF Below, UpTo, V, i
  <2>2. Cardinality(UpTo(v)) <= Cardinality(Below(w))
    BY <1>2, <2>1, FS_Subset
  <2> QED BY <1>2, <1>3, <1>5, <2>2
<1>6. \A v \in V : Nth(v) => v = m[k]
  <2> HIDE DEF Nth, V
  <2> SUFFICES ASSUME NEW v \in V, Nth(v), v # m[k]  PROVE FALSE
    OBVIOUS
  <2>a. v \in Nat /\ m[k] \in Nat
    BY <1>1, <1>4
  <2>1. v < m[k] \/ m[k] < v
    BY <2>a
  <2> QED BY <1>4, <1>5, <2>1
<1>7. NthSmallest(m, i) = CHOOSE v \in V : Nth(v)
  BY DEF NthSmallest
<1> HIDE DEF V, Nth, i
<1>8. NthSmallest(m, i) = m[k]
  BY <1>4, <1>6, <1>7, Zenon
<1> QED BY <1>8 DEF i

\* std::find meets a tile with the i-th smallest metric, and none before it.
LEMMA FindsFirst ==
    ASSUME NEW num, NEW m, IsMetric(m, num), NEW i \in 0 .. num - 1
    PROVE  /\ FindFirst(m, i) \in 0 .. num - 1
           /\ \A k \in 0 .. num - 1 : Rang(m)[k] = i => FindFirst(m, i) <= k
<1> DEFINE S == {k \in DOMAIN m : m[k] = NthSmallest(m, i)}
<1>1. PICK l \in 0 .. num - 1 : Rang(m)[l] = i
  BY RangIsOnto
<1>2. S \subseteq 0 .. num - 1 /\ l \in S /\ \A k \in 0 .. num - 1 : Rang(m)[k] = i => k \in S
  BY <1>1, NthIsAtRang DEF IsMetric
<1>a. S \subseteq Nat /\ S # {}
  BY <1>2
<1>b. FindFirst(m, i) = Min(S)
  BY DEF FindFirst
<1> HIDE DEF S
<1>3. \E x \in S : \A y \in S : x <= y
  BY <1>a, NatMin
<1>4. Min(S) \in S /\ \A y \in S : Min(S) <= y
  BY <1>3, Zenon DEF Min
<1> QED BY <1>b, <1>2, <1>4

\* The searches that start at p or behind it.
From(m, num, p) == {i \in 0 .. num - 1 : FindFirst(m, i) >= p}

\* There are no more of them than tiles from p on.
LEMMA FewStartLate ==
    ASSUME NEW num, NEW m, IsMetric(m, num), NEW p \in 0 .. num - 1
    PROVE  IsFiniteSet(From(m, num, p)) /\ Cardinality(From(m, num, p)) <= num - p
<1> DEFINE A == From(m, num, p)
           T == p .. num - 1
           g == [i \in A |-> CHOOSE k \in 0 .. num - 1 : Rang(m)[k] = i]
<1>1. \A i \in A : g[i] \in 0 .. num - 1 /\ Rang(m)[g[i]] = i
  <2>1. \A i \in A : \E k \in 0 .. num - 1 : Rang(m)[k] = i
    BY RangIsOnto DEF From
  <2> QED BY <2>1
<1>2. \A i \in A : g[i] \in T
  <2> SUFFICES ASSUME NEW i \in A  PROVE g[i] \in T
    OBVIOUS
  <2>1. i \in 0 .. num - 1 /\ FindFirst(m, i) >= p
    BY DEF From
  <2>2. FindFirst(m, i) \in 0 .. num - 1 /\ FindFirst(m, i) <= g[i]
    BY <1>1, <2>1, FindsFirst
  <2> HIDE DEF g
  <2> QED BY <1>1, <2>1, <2>2 DEF IsMetric
<1>3. g \in [A -> T]
  BY <1>2
<1>4. \A i, k \in A : g[i] = g[k] => i = k
  BY <1>1
<1>5. p \in Int /\ num - 1 \in Int /\ p <= num - 1
  BY DEF IsMetric
<1>6. IsFiniteSet(T) /\ Cardinality(T) = num - p
  <2>1. IsFiniteSet(T) /\ Cardinality(T) = (num - 1) - p + 1
    BY <1>5, FS_Interval
  <2> QED BY <1>5, <2>1 DEF IsMetric
<1> HIDE DEF A, T, g
<1>7. g \in Injection(A, T)
  BY <1>3, <1>4 DEF Injection, IsInjective
<1>8. IsFiniteSet(A) /\ Cardinality(A) <= Cardinality(T)
  BY <1>6, <1>7, FS_Injection
<1> QED BY <1>6, <1>8 DEF A

\* The searches of D have ended at tiles: each at another one, at or behind its
\* start, and all tiles between are taken.
Parked(m, num, D, at) ==
    LET Gone == {at[i] : i \in D}
    IN  /\ D \subseteq 0 .. num - 1
        /\ \A i \in D : /\ at[i] \in 0 .. num - 1 /\ FindFirst(m, i) <= at[i]
                        /\ \A k \in FindFirst(m, i) .. at[i] - 1 : k \in Gone
        /\ \A i, k \in D : at[i] = at[k] => i = k

\* So one more search finds a free tile.  Were all tiles taken from its start on,
\* let p be the first such that all tiles from p on are taken.  The searches that
\* took these started at p or behind it, for p - 1 is free; with the one more they
\* are more than the tiles from p on.
LEMMA OneIsFree ==
    ASSUME NEW num, NEW m, IsMetric(m, num), NEW D, NEW at, Parked(m, num, D, at),
           NEW i \in 0 .. num - 1, i \notin D
    PROVE  \E k \in 0 .. num - 1 : k >= FindFirst(m, i) /\ ~ \E l \in D : at[l] = k
<1> DEFINE Gone == {at[l] : l \in D}
           P == {p \in 0 .. num - 1 : \A k \in p .. num - 1 : k \in Gone}
<1>1. SUFFICES ASSUME \A k \in 0 .. num - 1 : k >= FindFirst(m, i) => k \in Gone
               PROVE  FALSE
  BY Zenon
<1>2. FindFirst(m, i) \in 0 .. num - 1 /\ num \in Nat
  BY FindsFirst DEF IsMetric
<1>3. FindFirst(m, i) \in P
  <2> HIDE DEF Gone
  <2>1. \A k \in FindFirst(m, i) .. num - 1 : k \in 0 .. num - 1 /\ k >= FindFirst(m, i)
    BY <1>2
  <2> QED BY <1>1, <1>2, <2>1
<1>4. P \subseteq Nat
  OBVIOUS
<1>5. \A p : p \in P <=> p \in 0 .. num - 1 /\ \A k \in p .. num - 1 : k \in Gone
  OBVIOUS
<1> HIDE DEF P
<1>6. PICK p \in P : \A q \in P : p <= q
  BY <1>3, <1>4, NatMin
<1>7. p \in 0 .. num - 1 /\ p <= FindFirst(m, i) /\ \A k \in p .. num - 1 : k \in Gone
  BY <1>3, <1>5, <1>6
<1> DEFINE T == p .. num - 1
           A == From(m, num, p)
           h == [k \in T |-> CHOOSE l \in D : at[l] = k]
<1>8. \A k \in T : h[k] \in D /\ at[h[k]] = k
  <2>1. \A k \in T : \E l \in D : at[l] = k
    BY <1>7
  <2> QED BY <2>1
<1>9. ASSUME NEW l \in D, at[l] >= p  PROVE FindFirst(m, l) >= p
  <2> SUFFICES ASSUME FindFirst(m, l) < p  PROVE FALSE
    <3>1. l \in 0 .. num - 1
      BY DEF Parked
    <3> QED BY <1>7, <3>1, FindsFirst
  <2>1. /\ l \in 0 .. num - 1 /\ at[l] \in 0 .. num - 1
        /\ \A k \in FindFirst(m, l) .. at[l] - 1 : k \in Gone
    BY DEF Parked
  <2>2. FindFirst(m, l) \in 0 .. num - 1
    BY <2>1, FindsFirst
  <2> HIDE DEF Gone
  <2>3. p - 1 \in 0 .. num - 1 /\ p - 1 \in FindFirst(m, l) .. at[l] - 1
    BY <1>2, <1>7, <1>9, <2>1, <2>2
  <2>4. \A k \in p - 1 .. num - 1 : k = p - 1 \/ k \in p .. num - 1
    BY <1>7
  <2>5. p - 1 \in P
    BY <1>5, <1>7, <2>1, <2>3, <2>4
  <2> QED BY <1>6, <1>7, <2>5
<1>10. \A k \in T : h[k] \in A \ {i}
  <2> SUFFICES ASSUME NEW k \in T  PROVE h[k] \in A \ {i}
    OBVIOUS
  <2>1. h[k] \in D /\ at[h[k]] = k /\ k >= p
    BY <1>7, <1>8
  <2> HIDE DEF h
  <2>2. FindFirst(m, h[k]) >= p /\ h[k] \in 0 .. num - 1
    BY <1>9, <2>1 DEF Parked
  <2> QED BY <2>1, <2>2 DEF From
<1>11. i \in A
  BY <1>2, <1>7 DEF From
<1>12. IsFiniteSet(A) /\ Cardinality(A) <= num - p
  BY <1>7, FewStartLate
<1>13. IsFiniteSet(T) /\ Cardinality(T) = num - p
  <2>1. p \in Int /\ num - 1 \in Int /\ p <= num - 1
    BY <1>2, <1>7
  <2>2. IsFiniteSet(T) /\ Cardinality(T) = (num - 1) - p + 1
    BY <2>1, FS_Interval
  <2> QED BY <1>2, <2>1, <2>2
<1>14. h \in Injection(T, A \ {i})
  <2>1. h \in [T -> A \ {i}]
    BY <1>10
  <2>2. \A k, l \in T : h[k] = h[l] => k = l
    BY <1>8
  <2> HIDE DEF h, T, A
  <2> QED BY <2>1, <2>2 DEF Injection, IsInjective
<1> HIDE DEF A, T, h
<1>15. IsFiniteSet(A \ {i}) /\ Cardinality(A \ {i}) = Cardinality(A) - 1
  BY <1>11, <1>12, FS_RemoveElement
<1>16. Cardinality(T) <= Cardinality(A \ {i})
  BY <1>14, <1>15, FS_Injection
<1>17. Cardinality(A) \in Nat
  BY <1>12, FS_CardinalityType
<1> QED BY <1>2, <1>7, <1>12, <1>13, <1>15, <1>16, <1>17

-----------------------------------------------------------------------------
(* Tiles: how much room they take *)

\* Quotient and remainder, for the provers: they take a product of two variables
\* only as a fact that is given.
LEMMA DivMod ==
    ASSUME NEW a \in Nat, NEW b \in Nat \ {0}
    PROVE  a \div b \in Nat /\ a % b \in 0 .. b - 1 /\ a = b * (a \div b) + (a % b)
  OBVIOUS

LEMMA TimesMono ==
    ASSUME NEW a \in Nat, NEW b \in Nat, NEW c \in Nat, a <= b
    PROVE  a * c <= b * c /\ c * a <= c * b /\ a * c \in Nat /\ c * a \in Nat
<1>1. PICK d \in Nat : b = a + d
  <2>1. b - a \in Nat /\ b = a + (b - a)
    OBVIOUS
  <2> QED BY <2>1
<1>2. d * c \in Nat /\ a * c \in Nat /\ b * c = a * c + d * c
  BY <1>1
<1>3. a * c = c * a /\ b * c = c * b
  OBVIOUS
<1> QED BY <1>2, <1>3

LEMMA DivUnique ==
    ASSUME NEW a \in Nat, NEW b \in Nat \ {0}, NEW q \in Nat, NEW r \in 0 .. b - 1,
           a = b * q + r
    PROVE  a \div b = q
<1> DEFINE p == a \div b
           s == a % b
<1>1. p \in Nat /\ s \in 0 .. b - 1 /\ a = b * p + s
  BY DivMod
<1> HIDE DEF p, s
<1>2. b * p \in Nat /\ b * q \in Nat
  BY <1>1
<1>3. CASE p < q
  <2>1. b * (p + 1) <= b * q
    BY <1>1, <1>3, TimesMono
  <2>2. b * (p + 1) = b * p + b
    BY <1>1
  <2> QED BY <1>1, <1>2, <2>1, <2>2
<1>4. CASE q < p
  <2>1. b * (q + 1) <= b * p
    BY <1>1, <1>4, TimesMono
  <2>2. b * (q + 1) = b * q + b
    BY <1>1
  <2> QED BY <1>1, <1>2, <2>1, <2>2
<1>5. CASE p = q
  BY <1>5 DEF p
<1> QED BY <1>1, <1>3, <1>4, <1>5

\* The last tile of an axis begins inside the volume.
LEMMA TilesBeginInside ==
    ASSUME NEW s \in Nat \ {0}, NEW b \in Nat \ {0}
    PROVE  /\ CeilDiv(s, b) \in Nat \ {0}
           /\ \A t \in 0 .. CeilDiv(s, b) - 1 : t * b \in 0 .. s - 1
<1> DEFINE q == CeilDiv(s, b)
           r == (s + b - 1) % b
<1>1. s + b - 1 \in Nat
  OBVIOUS
<1>2. q \in Nat /\ r \in 0 .. b - 1 /\ s + b - 1 = b * q + r
  BY <1>1, DivMod DEF CeilDiv
<1> HIDE DEF q, r
<1>3. q # 0
  <2> SUFFICES ASSUME q = 0  PROVE FALSE
    OBVIOUS
  <2>1. b * q = 0
    BY <1>2
  <2> QED BY <1>2, <2>1
<1>4. ASSUME NEW t \in 0 .. q - 1  PROVE t * b \in 0 .. s - 1
  <2>1. (t + 1) * b <= q * b /\ t * b \in Nat
    BY <1>2, TimesMono
  <2>2. (t + 1) * b = t * b + b /\ q * b = b * q
    BY <1>2
  <2>3. q * b \in Nat
    BY <1>2
  <2> QED BY <1>2, <2>1, <2>2, <2>3
<1> QED BY <1>2, <1>3, <1>4 DEF q

\* The coordinates of a tile are in the grid of tiles, and say which one it is.
LEMMA CoordsInGrid ==
    ASSUME NEW a \in Nat \ {0}, NEW b \in Nat \ {0}, NEW c \in Nat \ {0},
           NEW k \in 0 .. a * b * c - 1
    PROVE  /\ k \div (b * c) \in 0 .. a - 1
           /\ (k \div c) % b \in 0 .. b - 1
           /\ k % c \in 0 .. c - 1
           /\ k = (b * c) * (k \div (b * c)) + c * ((k \div c) % b) + (k % c)
<1> DEFINE q == k \div c
           z == k % c
           x == q \div b
           y == q % b
           g == b * c
<1>1. k \in Nat /\ a * b \in Nat /\ a * b * c \in Nat /\ k < a * b * c
  OBVIOUS
<1>2. q \in Nat /\ z \in 0 .. c - 1 /\ k = c * q + z
  BY <1>1, DivMod
<1> HIDE DEF q, z
<1>3. x \in Nat /\ y \in 0 .. b - 1 /\ q = b * x + y
  BY <1>2, DivMod
<1> HIDE DEF x, y
<1>4. g \in Nat \ {0}
  <2>1. b * 1 <= b * c
    BY TimesMono
  <2> QED BY <2>1
<1>5. c * y \in Nat /\ c * y + z \in 0 .. g - 1
  <2>1. c * (y + 1) <= c * b
    BY <1>3, TimesMono
  <2>2. c * (y + 1) = c * y + c /\ c * b = g /\ c * y \in Nat
    BY <1>3
  <2> QED BY <1>2, <1>4, <2>1, <2>2
<1>6. k = g * x + (c * y + z)
  <2>1. c * (b * x + y) = (c * b) * x + c * y
    BY <1>3
  <2>2. c * b = g
    OBVIOUS
  <2> QED BY <1>2, <1>3, <2>1, <2>2
<1>7. x < a
  <2> SUFFICES ASSUME a <= x  PROVE FALSE
    BY <1>3
  <2>1. g * a <= g * x /\ g * x \in Nat
    BY <1>3, <1>4, TimesMono
  <2>2. g * a = a * b * c
    OBVIOUS
  <2> HIDE DEF g
  <2> QED BY <1>1, <1>5, <1>6, <2>1, <2>2
<1> HIDE DEF g
<1>8. k \div g = x
  BY <1>1, <1>3, <1>4, <1>5, <1>6, DivUnique
<1>9. k = g * x + c * y + z
  <2>1. g * x \in Nat
    BY <1>3, <1>4
  <2> QED BY <1>2, <1>5, <1>6, <2>1
<1> QED BY <1>2, <1>3, <1>7, <1>8, <1>9 DEF q, z, x, y, g

\* The cells of a volume, and of a tile, by their coordinates.
Grid(j) == ((0 .. j.shape[1] - 1) \X (0 .. j.shape[2] - 1)) \X (0 .. j.shape[3] - 1)
Side(j, t, d) == t[d] * j.ts .. t[d] * j.ts + CutAtFace(j, t)[d] - 1
Box(j, t) == (Side(j, t, 1) \X Side(j, t, 2)) \X Side(j, t, 3)

\* Tiles are given by their coordinates in the grid of tiles.
IsTile(j, t) == \A d \in Axes : t[d] \in 0 .. TilesPerDim(j)[d] - 1

IsJob(j) == j.ts \in Nat \ {0} /\ \A d \in Axes : j.shape[d] \in Nat \ {0}

LEMMA Extents ==
    ASSUME NEW j, IsJob(j), NEW t, IsTile(j, t), NEW d \in Axes
    PROVE  /\ t[d] * j.ts \in 0 .. j.shape[d] - 1
           /\ CutAtFace(j, t)[d] \in 1 .. j.ts
           /\ CutAtFace(j, t)[d] <= j.shape[d] - t[d] * j.ts
<1> DEFINE a == j.ts
           b == j.shape[d] - t[d] * j.ts
<1>1. a \in Nat \ {0} /\ j.shape[d] \in Nat \ {0} /\ t[d] \in 0 .. CeilDiv(j.shape[d], j.ts) - 1
  BY DEF IsJob, IsTile, TilesPerDim
<1>2. t[d] * j.ts \in 0 .. j.shape[d] - 1
  BY <1>1, TilesBeginInside
<1>3. b \in Nat \ {0}
  BY <1>1, <1>2
<1>4. CutAtFace(j, t)[d] = Min({a, b})
  BY DEF CutAtFace
<1> HIDE DEF a, b
<1>5. Min({a, b}) \in {a, b} /\ Min({a, b}) <= a /\ Min({a, b}) <= b
  <2>1. \E x \in {a, b} : \A y \in {a, b} : x <= y
    BY <1>1, <1>3
  <2>2. Min({a, b}) \in {a, b} /\ \A y \in {a, b} : Min({a, b}) <= y
    BY <2>1, Zenon DEF Min
  <2> QED BY <2>2
<1>6. CutAtFace(j, t)[d] \in 1 .. a /\ CutAtFace(j, t)[d] <= b
  BY <1>1, <1>3, <1>4, <1>5
<1> QED BY <1>2, <1>6 DEF a, b

LEMMA SideSize ==
    ASSUME NEW j, IsJob(j), NEW t, IsTile(j, t), NEW d \in Axes
    PROVE  /\ IsFiniteSet(Side(j, t, d)) /\ Cardinality(Side(j, t, d)) = CutAtFace(j, t)[d]
           /\ Side(j, t, d) \subseteq 0 .. j.shape[d] - 1
<1> DEFINE b == t[d] * j.ts
           e == CutAtFace(j, t)[d]
<1>1. b \in 0 .. j.shape[d] - 1 /\ e \in Nat \ {0} /\ e <= j.shape[d] - b /\ j.shape[d] \in Nat
  BY Extents DEF IsJob
<1>2. Side(j, t, d) = b .. b + e - 1
  BY DEF Side
<1> HIDE DEF b, e
<1>3. b \in Int /\ b + e - 1 \in Int /\ b <= b + e - 1
  BY <1>1
<1>4. IsFiniteSet(b .. b + e - 1) /\ Cardinality(b .. b + e - 1) = (b + e - 1) - b + 1
  BY <1>3, FS_Interval
<1>5. (b + e - 1) - b + 1 = e /\ b .. b + e - 1 \subseteq 0 .. j.shape[d] - 1
  BY <1>1
<1> QED BY <1>2, <1>4, <1>5 DEF e

LEMMA BoxSize ==
    ASSUME NEW j, IsJob(j), NEW t, IsTile(j, t)
    PROVE  /\ IsFiniteSet(Box(j, t)) /\ Cardinality(Box(j, t)) = Product(CutAtFace(j, t))
           /\ Box(j, t) \subseteq Grid(j)
<1>1. 1 \in Axes /\ 2 \in Axes /\ 3 \in Axes
  BY DEF Axes
<1>2. /\ IsFiniteSet(Side(j, t, 1)) /\ Cardinality(Side(j, t, 1)) = CutAtFace(j, t)[1]
      /\ IsFiniteSet(Side(j, t, 2)) /\ Cardinality(Side(j, t, 2)) = CutAtFace(j, t)[2]
      /\ IsFiniteSet(Side(j, t, 3)) /\ Cardinality(Side(j, t, 3)) = CutAtFace(j, t)[3]
  BY <1>1, SideSize
<1>3. /\ Side(j, t, 1) \subseteq 0 .. j.shape[1] - 1
      /\ Side(j, t, 2) \subseteq 0 .. j.shape[2] - 1
      /\ Side(j, t, 3) \subseteq 0 .. j.shape[3] - 1
  BY <1>1, SideSize
<1>4. /\ IsFiniteSet(Side(j, t, 1) \X Side(j, t, 2))
      /\ Cardinality(Side(j, t, 1) \X Side(j, t, 2)) = CutAtFace(j, t)[1] * CutAtFace(j, t)[2]
  BY <1>2, FS_Product
<1>5. IsFiniteSet(Box(j, t)) /\ Cardinality(Box(j, t)) = Product(CutAtFace(j, t))
  BY <1>2, <1>4, FS_Product DEF Box, Product
<1> QED BY <1>3, <1>5 DEF Box, Grid

LEMMA GridSize ==
    ASSUME NEW j, IsJob(j)
    PROVE  IsFiniteSet(Grid(j)) /\ Cardinality(Grid(j)) = N(j)
<1> DEFINE I(d) == 0 .. j.shape[d] - 1
<1>1. \A d \in Axes : IsFiniteSet(I(d)) /\ Cardinality(I(d)) = j.shape[d]
  <2> SUFFICES ASSUME NEW d \in Axes
               PROVE  IsFiniteSet(I(d)) /\ Cardinality(I(d)) = j.shape[d]
    OBVIOUS
  <2>1. j.shape[d] \in Nat \ {0}
    BY DEF IsJob
  <2>2. 0 \in Int /\ j.shape[d] - 1 \in Int /\ 0 <= j.shape[d] - 1
    BY <2>1
  <2>3. IsFiniteSet(I(d)) /\ Cardinality(I(d)) = (j.shape[d] - 1) - 0 + 1
    BY <2>2, FS_Interval
  <2> QED BY <2>1, <2>3
<1>2. 1 \in Axes /\ 2 \in Axes /\ 3 \in Axes
  BY DEF Axes
<1> HIDE DEF I
<1>3. IsFiniteSet(I(1) \X I(2)) /\ Cardinality(I(1) \X I(2)) = j.shape[1] * j.shape[2]
  BY <1>1, <1>2, FS_Product
<1>4. /\ IsFiniteSet((I(1) \X I(2)) \X I(3))
      /\ Cardinality((I(1) \X I(2)) \X I(3)) = (j.shape[1] * j.shape[2]) * j.shape[3]
  BY <1>1, <1>2, <1>3, FS_Product
<1> QED BY <1>4 DEF I, Grid, N, Product

\* Tiles share no cell.
LEMMA BoxesDisjoint ==
    ASSUME NEW j, IsJob(j), NEW t, IsTile(j, t), NEW u, IsTile(j, u),
           Box(j, t) \cap Box(j, u) # {}
    PROVE  \A d \in Axes : t[d] = u[d]
<1>1. \A d \in Axes : Side(j, t, d) \cap Side(j, u, d) # {}
  <2>1. PICK c : c \in Box(j, t) /\ c \in Box(j, u)
    OBVIOUS
  <2>2. PICK z, y, x : c = <<<<z, y>>, x>> /\ z \in Side(j, t, 1) /\ y \in Side(j, t, 2) /\ x \in Side(j, t, 3)
    BY <2>1 DEF Box
  <2>3. z \in Side(j, u, 1) /\ y \in Side(j, u, 2) /\ x \in Side(j, u, 3)
    BY <2>1, <2>2 DEF Box
  <2> QED BY <2>2, <2>3 DEF Axes
<1>2. ASSUME NEW v, IsTile(j, v), NEW w, IsTile(j, w), NEW d \in Axes, v[d] < w[d]
      PROVE  Side(j, v, d) \cap Side(j, w, d) = {}
  <2>1. j.ts \in Nat \ {0} /\ v[d] \in Nat /\ w[d] \in Nat
    BY <1>2, TilesBeginInside DEF IsJob, IsTile, TilesPerDim
  <2>2. (v[d] + 1) * j.ts <= w[d] * j.ts
    BY <1>2, <2>1, TimesMono
  <2>3. (v[d] + 1) * j.ts = v[d] * j.ts + j.ts /\ v[d] * j.ts \in Nat /\ w[d] * j.ts \in Nat
    <3> DEFINE p == v[d]
               q == w[d]
               s == j.ts
    <3> HIDE DEF p, q, s
    <3>1. p \in Nat /\ q \in Nat /\ s \in Nat
      BY <2>1 DEF p, q, s
    <3>2. (p + 1) * s = p * s + s /\ p * s \in Nat /\ q * s \in Nat
      BY <3>1
    <3> QED BY <3>2 DEF p, q, s
  <2>4. CutAtFace(j, v)[d] \in 1 .. j.ts /\ CutAtFace(j, w)[d] \in 1 .. j.ts
    BY <1>2, Extents
  <2> QED BY <2>1, <2>2, <2>3, <2>4 DEF Side
<1>3. \A d \in Axes : t[d] \in Nat /\ u[d] \in Nat
  BY TilesBeginInside DEF IsJob, IsTile, TilesPerDim
<1> SUFFICES ASSUME NEW d \in Axes, t[d] # u[d]  PROVE FALSE
  OBVIOUS
<1>4. t[d] < u[d] \/ u[d] < t[d]
  BY <1>3
<1> QED BY <1>1, <1>2, <1>4

\* A number below the number of tiles is a tile, and each is another one.
LEMMA TileNumbers ==
    ASSUME NEW j, IsJob(j)
    PROVE  /\ Product(TilesPerDim(j)) \in Nat \ {0}
           /\ \A k \in Tiles(j) : IsTile(j, Coord(TilesPerDim(j), k))
           /\ \A k, l \in Tiles(j) :
                (\A d \in Axes : Coord(TilesPerDim(j), k)[d] = Coord(TilesPerDim(j), l)[d]) => k = l
<1> DEFINE num == TilesPerDim(j)
           a == num[1]
           b == num[2]
           c == num[3]
<1>1. a \in Nat \ {0} /\ b \in Nat \ {0} /\ c \in Nat \ {0}
  <2>1. \A d \in Axes : num[d] = CeilDiv(j.shape[d], j.ts)
    BY DEF TilesPerDim
  <2> HIDE DEF num
  <2>2. \A d \in Axes : num[d] \in Nat \ {0}
    BY <2>1, TilesBeginInside DEF IsJob
  <2> QED BY <2>2 DEF Axes
<1>2. Tiles(j) = 0 .. a * b * c - 1 /\ Product(num) = a * b * c
  BY DEF Tiles, Product
<1>3. a * b * c \in Nat \ {0}
  <2>1. 1 * b <= a * b /\ a * b \in Nat
    BY <1>1, TimesMono
  <2>2. 1 * c <= (a * b) * c
    BY <1>1, <2>1, TimesMono
  <2> QED BY <1>1, <2>1, <2>2
<1>4. \A k : /\ Coord(num, k)[1] = k \div (b * c)
             /\ Coord(num, k)[2] = (k \div c) % b
             /\ Coord(num, k)[3] = k % c
  BY DEF Coord
<1>5. \A k \in 0 .. a * b * c - 1 :
        /\ k \div (b * c) \in 0 .. a - 1
        /\ (k \div c) % b \in 0 .. b - 1
        /\ k % c \in 0 .. c - 1
        /\ k = (b * c) * (k \div (b * c)) + c * ((k \div c) % b) + (k % c)
  <2> HIDE DEF a, b, c
  <2> QED BY <1>1, CoordsInGrid
<1>6. \A k \in Tiles(j) : IsTile(j, Coord(num, k))
  BY <1>2, <1>4, <1>5 DEF IsTile, Axes
<1>7. ASSUME NEW k \in Tiles(j), NEW l \in Tiles(j),
             \A d \in Axes : Coord(num, k)[d] = Coord(num, l)[d]
      PROVE  k = l
  <2>1. k \div (b * c) = l \div (b * c) /\ (k \div c) % b = (l \div c) % b /\ k % c = l % c
    <3>1. 1 \in Axes /\ 2 \in Axes /\ 3 \in Axes
      BY DEF Axes
    <3> QED BY <1>4, <1>7, <3>1
  <2> QED BY <1>2, <1>5, <2>1
<1> QED BY <1>2, <1>3, <1>6, <1>7

-----------------------------------------------------------------------------
(* Powers of two, and z-curves inside of a tile *)

IsPow2(f, k) == f = [e \in 0 .. k |-> IF e = 0 THEN 1 ELSE 2 * f[e - 1]]

LEMMA Pow2At ==
    ASSUME NEW k \in Nat, NEW f, IsPow2(f, k), NEW e \in 0 .. k
    PROVE  f[e] = IF e = 0 THEN 1 ELSE 2 * f[e - 1]
  BY DEF IsPow2

LEMMA Pow2Same ==
    ASSUME NEW k \in Nat, NEW f, IsPow2(f, k), NEW l \in Nat, NEW g, IsPow2(g, l),
           NEW e \in Nat, e <= k, e <= l
    PROVE  f[e] = g[e]
<1> DEFINE B == {d \in 0 .. e : f[d] # g[d]}
<1>1. SUFFICES ASSUME B # {} PROVE FALSE
  OBVIOUS
<1>2. B \subseteq Nat
  OBVIOUS
<1> HIDE DEF B
<1>3. PICK d \in B : \A c \in B : d <= c
  BY <1>1, <1>2, NatMin
<1>4. d \in 0 .. e /\ f[d] # g[d]
  BY DEF B
<1>5. /\ f[d] = IF d = 0 THEN 1 ELSE 2 * f[d - 1]
      /\ g[d] = IF d = 0 THEN 1 ELSE 2 * g[d - 1]
  <2>1. d \in 0 .. k /\ d \in 0 .. l
    BY <1>4
  <2> QED BY <2>1, Pow2At
<1>6. d # 0
  BY <1>4, <1>5
<1>7. f[d - 1] = g[d - 1]
  <2>1. d - 1 \in 0 .. e /\ ~ (d <= d - 1)
    BY <1>4, <1>6
  <2> QED BY <1>3, <2>1 DEF B
<1> QED BY <1>4, <1>5, <1>6, <1>7

LEMMA Pow2Upto ==
    ASSUME NEW k \in Nat
    PROVE  \E f : IsPow2(f, k)
<1> DEFINE B == {l \in Nat : ~ \E f : IsPow2(f, l)}
<1>1. SUFFICES ASSUME B # {} PROVE FALSE
  OBVIOUS
<1>2. B \subseteq Nat
  OBVIOUS
<1> HIDE DEF B
<1>3. PICK l \in B : \A c \in B : l <= c
  BY <1>1, <1>2, NatMin
<1>4. l \in Nat /\ ~ \E f : IsPow2(f, l)
  BY DEF B
<1>5. CASE l = 0
  <2> DEFINE f == [e \in 0 .. 0 |-> 1]
  <2>1. f = [e \in 0 .. 0 |-> IF e = 0 THEN 1 ELSE 2 * f[e - 1]]
    OBVIOUS
  <2>2. IsPow2(f, 0)
    BY <2>1, Zenon DEF IsPow2
  <2> QED BY <1>4, <1>5, <2>2
<1>6. CASE l # 0
  <2>1. l - 1 \in Nat /\ ~ (l <= l - 1)
    BY <1>4, <1>6
  <2>2. PICK g : IsPow2(g, l - 1)
    BY <1>3, <2>1 DEF B
  <2> DEFINE f == [e \in 0 .. l |-> IF e = 0 THEN 1 ELSE 2 * g[e - 1]]
  <2>3. \A e \in 0 .. l - 1 : f[e] = g[e]
    <3> SUFFICES ASSUME NEW e \in 0 .. l - 1  PROVE f[e] = g[e]
      OBVIOUS
    <3>1. g[e] = IF e = 0 THEN 1 ELSE 2 * g[e - 1]
      BY <2>1, <2>2, Pow2At
    <3>2. f[e] = IF e = 0 THEN 1 ELSE 2 * g[e - 1]
      BY <1>4
    <3> QED BY <3>1, <3>2
  <2>4. \A e \in 0 .. l : e # 0 => e - 1 \in 0 .. l - 1
    BY <1>4
  <2>5. f = [e \in 0 .. l |-> IF e = 0 THEN 1 ELSE 2 * f[e - 1]]
    <3>1. \A e \in 0 .. l : (IF e = 0 THEN 1 ELSE 2 * g[e - 1]) = (IF e = 0 THEN 1 ELSE 2 * f[e - 1])
      BY <2>3, <2>4
    <3> QED BY <3>1
  <2>6. IsPow2(f, l)
    BY <2>5, Zenon DEF IsPow2
  <2> QED BY <1>4, <2>6
<1> QED BY <1>5, <1>6

\* The recursion of Pow2 has a solution, so that Pow2 is one.
LEMMA Pow2Rec ==
    /\ Pow2[0] = 1
    /\ \A e \in Nat : e # 0 => Pow2[e] = 2 * Pow2[e - 1]
<1> DEFINE G(k) == CHOOSE f : IsPow2(f, k)
           F == [e \in Nat |-> G(e)[e]]
<1>1. \A k \in Nat : IsPow2(G(k), k)
  BY Pow2Upto, Zenon
<1> HIDE DEF G
<1>2. \A e \in Nat : G(e)[e] = IF e = 0 THEN 1 ELSE 2 * G(e)[e - 1]
  BY <1>1, Pow2At
<1>3. \A e \in Nat : e # 0 => G(e)[e - 1] = G(e - 1)[e - 1]
  <2> SUFFICES ASSUME NEW e \in Nat, e # 0  PROVE G(e)[e - 1] = G(e - 1)[e - 1]
    OBVIOUS
  <2>1. e - 1 \in Nat /\ e - 1 <= e /\ e - 1 <= e - 1
    OBVIOUS
  <2>2. IsPow2(G(e), e) /\ IsPow2(G(e - 1), e - 1)
    BY <1>1, <2>1
  <2> QED BY <2>1, <2>2, Pow2Same
<1>4. F = [e \in Nat |-> IF e = 0 THEN 1 ELSE 2 * F[e - 1]]
  <2>1. \A e \in Nat : e # 0 => F[e - 1] = G(e - 1)[e - 1]
    OBVIOUS
  <2>2. \A e \in Nat : G(e)[e] = IF e = 0 THEN 1 ELSE 2 * F[e - 1]
    BY <1>2, <1>3, <2>1
  <2> QED BY <2>2
<1> HIDE DEF F
<1>5. Pow2 = [e \in Nat |-> IF e = 0 THEN 1 ELSE 2 * Pow2[e - 1]]
  BY <1>4, Zenon DEF Pow2
<1> HIDE DEF Pow2
<1> QED BY <1>5

LEMMA Pow2Type == \A e \in Nat : Pow2[e] \in Nat \ {0}
<1> DEFINE B == {d \in Nat : Pow2[d] \notin Nat \ {0}}
<1>1. SUFFICES ASSUME B # {} PROVE FALSE
  OBVIOUS
<1>2. B \subseteq Nat
  OBVIOUS
<1> HIDE DEF B
<1>3. PICK d \in B : \A c \in B : d <= c
  BY <1>1, <1>2, NatMin
<1>4. d \in Nat /\ Pow2[d] \notin Nat \ {0}
  BY DEF B
<1>5. d # 0
  BY <1>4, Pow2Rec
<1>6. Pow2[d - 1] \in Nat \ {0}
  <2>1. d - 1 \in Nat /\ ~ (d <= d - 1)
    BY <1>4, <1>5
  <2> QED BY <1>3, <2>1 DEF B
<1>7. Pow2[d] = 2 * Pow2[d - 1]
  BY <1>4, <1>5, Pow2Rec
<1> QED BY <1>4, <1>6, <1>7

\* The powers are multiplied by adding the exponents.
LEMMA Pow2Sum ==
    ASSUME NEW a \in Nat, NEW b \in Nat
    PROVE  Pow2[a + b] = Pow2[a] * Pow2[b]
<1> DEFINE B == {d \in Nat : Pow2[a + d] # Pow2[a] * Pow2[d]}
<1>1. SUFFICES ASSUME B # {} PROVE FALSE
  OBVIOUS
<1>2. B \subseteq Nat
  OBVIOUS
<1> HIDE DEF B
<1>3. PICK d \in B : \A c \in B : d <= c
  BY <1>1, <1>2, NatMin
<1>4. d \in Nat /\ Pow2[a + d] # Pow2[a] * Pow2[d]
  BY DEF B
<1>5. Pow2[a] \in Nat
  BY Pow2Type
<1>6. d # 0
  <2>1. SUFFICES ASSUME d = 0 PROVE FALSE
    OBVIOUS
  <2>2. a + d = a /\ Pow2[d] = 1
    BY <2>1, Pow2Rec
  <2> QED BY <1>4, <1>5, <2>2
<1>7. Pow2[a + (d - 1)] = Pow2[a] * Pow2[d - 1]
  <2>1. d - 1 \in Nat /\ ~ (d <= d - 1)
    BY <1>4, <1>6
  <2> QED BY <1>3, <2>1 DEF B
<1>8. Pow2[d] = 2 * Pow2[d - 1] /\ Pow2[a + d] = 2 * Pow2[a + (d - 1)] /\ Pow2[d - 1] \in Nat
  <2>1. a + d \in Nat /\ a + d # 0 /\ (a + d) - 1 = a + (d - 1) /\ d - 1 \in Nat
    BY <1>4, <1>6
  <2>2. Pow2[a + d] = 2 * Pow2[(a + d) - 1]
    <3>1. PICK e \in Nat : e = a + d
      BY <2>1
    <3>2. Pow2[e] = 2 * Pow2[e - 1]
      BY <2>1, <3>1, Pow2Rec
    <3>3. Pow2[e] = Pow2[a + d] /\ Pow2[e - 1] = Pow2[(a + d) - 1]
      BY <3>1
    <3> QED BY <3>2, <3>3
  <2> QED BY <1>4, <1>6, <2>1, <2>2, Pow2Rec, Pow2Type
<1>9. PICK p \in Nat, q \in Nat : p = Pow2[a] /\ q = Pow2[d - 1]
  BY <1>5, <1>8
<1>10. 2 * (p * q) = p * (2 * q)
  OBVIOUS
<1> QED BY <1>4, <1>7, <1>8, <1>9, <1>10

\* A number below 2^bw is its own lowest group of bits.
LEMMA SpreadSmall ==
    ASSUME NEW bw \in Nat \ {0}, NEW v \in 0 .. Pow2[bw] - 1
    PROVE  Spread(bw, v) = v
<1> DEFINE group == [g \in 0 .. v |-> ((v \div Pow2[bw * g]) % Pow2[bw]) * Pow2[3 * bw * g]]
           G == {g \in 0 .. v : Pow2[bw * g] <= v}
<1>0. Pow2[bw] \in Nat \ {0} /\ v \in Nat
  BY Pow2Type
<1>1. Spread(bw, v) = SumOver(group, G)
  BY Zenon DEF Spread, SumOver
<1>2. bw * 0 = 0 /\ 3 * bw * 0 = 0 /\ Pow2[0] = 1
  BY Pow2Rec
<1>3. G \subseteq {0}
  <2> SUFFICES ASSUME NEW g \in 0 .. v, Pow2[bw * g] <= v, g # 0  PROVE FALSE
    OBVIOUS
  <2>1. g - 1 \in Nat /\ bw * (g - 1) \in Nat /\ bw * g = bw + bw * (g - 1)
    BY <1>0
  <2>2. Pow2[bw * g] = Pow2[bw] * Pow2[bw * (g - 1)]
    BY <2>1, Pow2Sum
  <2>3. PICK p \in Nat, q \in Nat \ {0} : p = Pow2[bw] /\ q = Pow2[bw * (g - 1)]
    BY <1>0, <2>1, Pow2Type
  <2>4. p * q >= p
    <3>1. 1 <= q
      OBVIOUS
    <3>2. p * 1 <= p * q
      BY <3>1, TimesMono
    <3> QED BY <3>2
  <2> QED BY <1>0, <2>2, <2>3, <2>4
<1>4. CASE v = 0
  <2>1. G = {}
    <3>1. ~ (Pow2[bw * 0] <= v)
      BY <1>2, <1>4
    <3> QED BY <1>3, <3>1
  <2>2. SumOver(group, {}) = 0
    BY SumOverEmpty
  <2> HIDE DEF group, G
  <2> QED BY <1>1, <1>4, <2>1, <2>2
<1>5. CASE v # 0
  <2>1. G = {0}
    <3>1. Pow2[bw * 0] <= v /\ 0 \in 0 .. v
      BY <1>0, <1>2, <1>5
    <3> QED BY <1>3, <3>1
  <2>2. group[0] = v
    <3>1. group[0] = ((v \div Pow2[bw * 0]) % Pow2[bw]) * Pow2[3 * bw * 0]
      BY <1>0
    <3>2. v \div 1 = v /\ (v % Pow2[bw]) = v
      BY <1>0, <1>5
    <3> QED BY <1>0, <1>2, <3>1, <3>2
  <2> HIDE DEF group
  <2>3. SumOver(group, {0}) = v
    <3>1. SumOver(group, {} \cup {0}) = group[0] + SumOver(group, {})
      BY <1>0, <2>2, FS_EmptySet, SumOverAdd
    <3>2. SumOver(group, {}) = 0 /\ {} \cup {0} = {0}
      BY SumOverEmpty
    <3>3. SumOver(group, {} \cup {0}) = SumOver(group, {0})
      BY <3>2, Zenon
    <3> QED BY <1>0, <2>2, <3>1, <3>2, <3>3
  <2> QED BY <1>1, <2>1, <2>3
<1> QED BY <1>4, <1>5

\* A complete tile of a z-curve whose side is a group of bits is stored row by row.
LEMMA MortonRows ==
    ASSUME NEW bw \in Nat \ {0}, NEW c, \A d \in Axes : c[d] \in 0 .. Pow2[bw] - 1
    PROVE  Morton(bw, c) = RowMajor(<<Pow2[bw], Pow2[bw], Pow2[bw]>>, c)
<1>1. c[1] \in Nat /\ c[2] \in Nat /\ c[3] \in Nat /\ Pow2[bw] \in Nat
  BY Pow2Type DEF Axes
<1>2. Spread(bw, c[1]) = c[1] /\ Spread(bw, c[2]) = c[2] /\ Spread(bw, c[3]) = c[3]
  BY SpreadSmall DEF Axes
<1>3. Pow2[2 * bw] = Pow2[bw] * Pow2[bw]
  <2>1. 2 * bw = bw + bw
    OBVIOUS
  <2> QED BY <2>1, Pow2Sum
<1>4. PICK p \in Nat, x \in Nat, y \in Nat, z \in Nat : p = Pow2[bw] /\ z = c[1] /\ y = c[2] /\ x = c[3]
  BY <1>1
<1>5. p * p * z + p * y + x = z * p * p + y * p + x
  OBVIOUS
<1>6. Morton(bw, c) = p * p * z + p * y + x
  BY <1>2, <1>3, <1>4 DEF Morton
<1>7. RowMajor(<<p, p, p>>, c) = z * p * p + y * p + x
  BY <1>4 DEF RowMajor
<1> QED BY <1>4, <1>5, <1>6, <1>7

-----------------------------------------------------------------------------
(* Cells, tiles and spots *)

\* Two numbers in one: the higher one in units of b.
LEMMA InUnits ==
    ASSUME NEW a \in Nat, NEW b \in Nat, NEW q \in 0 .. a - 1, NEW r \in 0 .. b - 1
    PROVE  /\ q * b + r \in 0 .. a * b - 1 /\ q * b \in Nat
           /\ (q * b + r) \div b = q
<1>1. (q + 1) * b <= a * b /\ q * b \in Nat /\ a * b \in Nat
  BY TimesMono
<1>2. (q + 1) * b = q * b + b /\ q * b = b * q
  OBVIOUS
<1>3. b \in Nat \ {0} /\ q * b + r \in Nat
  BY <1>1
<1>4. (q * b + r) \div b = q
  BY <1>2, <1>3, DivUnique
<1> QED BY <1>1, <1>2, <1>4

LEMMA UnitsUnique ==
    ASSUME NEW b \in Nat, NEW q \in Nat, NEW r \in 0 .. b - 1, NEW x \in Nat, NEW y \in 0 .. b - 1,
           q * b + r = x * b + y
    PROVE  q = x /\ r = y
<1>1. q \in 0 .. (q + x + 1) - 1 /\ x \in 0 .. (q + x + 1) - 1 /\ q + x + 1 \in Nat
  OBVIOUS
<1>2. (q * b + r) \div b = q /\ (x * b + y) \div b = x
  BY <1>1, InUnits
<1>3. q = x
  BY <1>2
<1>4. q * b \in Nat /\ x * b \in Nat /\ q * b = x * b
  BY <1>1, <1>3, InUnits
<1> QED BY <1>3, <1>4

-----------------------------------------------------------------------------
\* A box of extents e, and a place in it.
IsExtent(e) == \A d \in Axes : e[d] \in Nat \ {0}
IsIn(e, c) == \A d \in Axes : c[d] \in 0 .. e[d] - 1

LEMMA RowMajorIn ==
    ASSUME NEW e, IsExtent(e), NEW c, IsIn(e, c)
    PROVE  RowMajor(e, c) \in 0 .. Product(e) - 1 /\ Product(e) \in Nat
<1>1. PICK a \in Nat \ {0}, b \in Nat \ {0}, x \in Nat \ {0} : a = e[1] /\ b = e[2] /\ x = e[3]
  BY DEF IsExtent, Axes
<1>2. PICK p \in 0 .. a - 1, q \in 0 .. b - 1, r \in 0 .. x - 1 : p = c[1] /\ q = c[2] /\ r = c[3]
  BY <1>1 DEF IsIn, Axes
<1>3. q * x + r \in 0 .. b * x - 1 /\ b * x \in Nat
  BY InUnits
<1>4. PICK g \in Nat, h \in Nat : g = b * x /\ h = q * x + r /\ h \in 0 .. g - 1
  BY <1>3
<1>5. p * g + h \in 0 .. a * g - 1 /\ a * g \in Nat
  <2>1. \A b2 \in Nat, r2 \in Nat : r2 \in 0 .. b2 - 1 => p * b2 + r2 \in 0 .. a * b2 - 1
    BY InUnits
  <2>2. a * g \in Nat
    OBVIOUS
  <2> QED BY <1>4, <2>1, <2>2
<1>6. RowMajor(e, c) = p * g + h
  <2>1. RowMajor(e, c) = p * x * b + q * x + r
    BY <1>1, <1>2 DEF RowMajor
  <2>2. p * x * b = p * (b * x) /\ p * (b * x) \in Nat /\ q * x \in Nat
    OBVIOUS
  <2> QED BY <1>4, <2>1, <2>2
<1>7. Product(e) = a * g
  <2>1. Product(e) = a * b * x
    BY <1>1 DEF Product
  <2> QED BY <1>4, <2>1
<1> QED BY <1>5, <1>6, <1>7

LEMMA RowMajorUnique ==
    ASSUME NEW e, IsExtent(e), NEW c, IsIn(e, c), NEW d, IsIn(e, d), RowMajor(e, c) = RowMajor(e, d)
    PROVE  \A x \in Axes : c[x] = d[x]
<1>1. PICK a \in Nat \ {0}, b \in Nat \ {0}, x \in Nat \ {0} : a = e[1] /\ b = e[2] /\ x = e[3]
  BY DEF IsExtent, Axes
<1>2. PICK p \in 0 .. a - 1, q \in 0 .. b - 1, r \in 0 .. x - 1 : p = c[1] /\ q = c[2] /\ r = c[3]
  BY <1>1 DEF IsIn, Axes
<1>3. PICK s \in 0 .. a - 1, t \in 0 .. b - 1, u \in 0 .. x - 1 : s = d[1] /\ t = d[2] /\ u = d[3]
  BY <1>1 DEF IsIn, Axes
<1>4. q * x + r \in 0 .. b * x - 1 /\ t * x + u \in 0 .. b * x - 1 /\ b * x \in Nat
  BY InUnits
<1>5. PICK g \in Nat, h \in Nat, k \in Nat : /\ g = b * x /\ h = q * x + r /\ k = t * x + u
                                      /\ h \in 0 .. g - 1 /\ k \in 0 .. g - 1
  BY <1>4
<1>6. RowMajor(e, c) = p * g + h
  <2>1. RowMajor(e, c) = p * x * b + q * x + r
    BY <1>1, <1>2 DEF RowMajor
  <2>2. p * x * b = p * (b * x) /\ p * (b * x) \in Nat /\ q * x \in Nat
    OBVIOUS
  <2> QED BY <1>5, <2>1, <2>2
<1>7. RowMajor(e, d) = s * g + k
  <2>1. RowMajor(e, d) = s * x * b + t * x + u
    BY <1>1, <1>3 DEF RowMajor
  <2>2. s * x * b = s * (b * x) /\ s * (b * x) \in Nat /\ t * x \in Nat
    OBVIOUS
  <2> QED BY <1>5, <2>1, <2>2
<1>8. p = s /\ h = k
  <2>1. p * g + h = s * g + k
    BY <1>6, <1>7
  <2>2. p \in Nat /\ s \in Nat /\ g \in Nat /\ h \in 0 .. g - 1 /\ k \in 0 .. g - 1
    BY <1>5
  <2> HIDE <1>1, <1>2, <1>3, <1>4, <1>6, <1>7
  <2> QED BY <2>1, <2>2, UnitsUnique
<1>9. q = t /\ r = u
  <2>1. q * x + r = t * x + u /\ q \in Nat /\ t \in Nat /\ x \in Nat
    BY <1>5, <1>8
  <2> QED BY <2>1, UnitsUnique
<1>10. c[1] = d[1] /\ c[2] = d[2] /\ c[3] = d[3]
  BY <1>2, <1>3, <1>8, <1>9
<1> QED
  <2>1. \A y \in Axes : y = 1 \/ y = 2 \/ y = 3
    BY DEF Axes
  <2> QED BY <1>10, <2>1

\* The coordinates of a number in a box are those of its place.
LEMMA CoordIn ==
    ASSUME NEW e, IsExtent(e), NEW k \in 0 .. Product(e) - 1
    PROVE  IsIn(e, Coord(e, k)) /\ RowMajor(e, Coord(e, k)) = k /\ k \in Nat
<1>1. PICK a \in Nat \ {0}, b \in Nat \ {0}, x \in Nat \ {0} : a = e[1] /\ b = e[2] /\ x = e[3]
  BY DEF IsExtent, Axes
<1>2. Product(e) = a * b * x /\ k \in 0 .. a * b * x - 1
  BY <1>1 DEF Product
<1>3. /\ k \div (b * x) \in 0 .. a - 1
      /\ (k \div x) % b \in 0 .. b - 1
      /\ k % x \in 0 .. x - 1
      /\ k = (b * x) * (k \div (b * x)) + x * ((k \div x) % b) + (k % x)
  <2>1. \A l \in 0 .. a * b * x - 1 :
          /\ l \div (b * x) \in 0 .. a - 1
          /\ (l \div x) % b \in 0 .. b - 1
          /\ l % x \in 0 .. x - 1
          /\ l = (b * x) * (l \div (b * x)) + x * ((l \div x) % b) + (l % x)
    BY CoordsInGrid
  <2> QED BY <1>2, <2>1
<1>4. /\ Coord(e, k)[1] = k \div (b * x)
      /\ Coord(e, k)[2] = (k \div x) % b
      /\ Coord(e, k)[3] = k % x
  BY <1>1 DEF Coord
<1>5. IsIn(e, Coord(e, k))
  <2> DEFINE u == Coord(e, k)
  <2>1. u[1] \in 0 .. a - 1 /\ u[2] \in 0 .. b - 1 /\ u[3] \in 0 .. x - 1
    BY <1>3, <1>4
  <2> HIDE DEF u
  <2>2. \A y \in Axes : u[y] \in 0 .. e[y] - 1
    BY <1>1, <2>1 DEF Axes
  <2> QED BY <2>2 DEF IsIn, u
<1>6. PICK p \in Nat, q \in Nat, r \in Nat :
         p = k \div (b * x) /\ q = ((k \div x) % b) /\ r = (k % x)
  <2> DEFINE p == k \div (b * x)
             q == (k \div x) % b
             r == k % x
  <2>1. p \in Nat /\ q \in Nat /\ r \in Nat
    BY <1>3
  <2> HIDE DEF p, q, r
  <2>2. \E p1 \in Nat, q1 \in Nat, r1 \in Nat : p1 = p /\ q1 = q /\ r1 = r
    BY <2>1
  <2> QED BY <2>2 DEF p, q, r
<1>7. RowMajor(e, Coord(e, k)) = p * x * b + q * x + r
  BY <1>1, <1>4, <1>6 DEF RowMajor
<1>8. k = (b * x) * p + x * q + r
  BY <1>3, <1>6
<1>9. p * x * b + q * x + r = (b * x) * p + x * q + r
  OBVIOUS
<1> QED BY <1>2, <1>5, <1>7, <1>8, <1>9

-----------------------------------------------------------------------------
(* Tiles: the number of the tile of a cell, and the place of the cell in it *)

Size(j, t) == Product(CutAtFace(j, t))
TileNo(j, p) == Linear(TilesPerDim(j), TileOf(j, Coord(j.shape, p)))
Spot(j, p) == LET c == Coord(j.shape, p) IN RowMajor(CutAtFace(j, TileOf(j, c)), Inside(j, c))
TileSize(j) == [k \in Tiles(j) |-> Size(j, Coord(TilesPerDim(j), k))]

LEMMA TilesExtent == ASSUME NEW j, IsJob(j) PROVE IsExtent(TilesPerDim(j)) /\ IsExtent(j.shape)
  BY TilesBeginInside DEF IsExtent, TilesPerDim, IsJob

\* A cell lies inside its tile.
LEMMA InTile ==
    ASSUME NEW j, IsJob(j), NEW c, IsIn(j.shape, c)
    PROVE  /\ IsTile(j, TileOf(j, c)) /\ IsExtent(CutAtFace(j, TileOf(j, c)))
           /\ IsIn(CutAtFace(j, TileOf(j, c)), Inside(j, c))
           /\ \A d \in Axes : /\ Inside(j, c)[d] \in 0 .. j.ts - 1
                              /\ c[d] = j.ts * TileOf(j, c)[d] + Inside(j, c)[d]
<1> SUFFICES ASSUME NEW d \in Axes
             PROVE  /\ TileOf(j, c)[d] \in 0 .. TilesPerDim(j)[d] - 1
                    /\ CutAtFace(j, TileOf(j, c))[d] \in Nat \ {0}
                    /\ Inside(j, c)[d] \in 0 .. CutAtFace(j, TileOf(j, c))[d] - 1
                    /\ Inside(j, c)[d] \in 0 .. j.ts - 1
                    /\ c[d] = j.ts * TileOf(j, c)[d] + Inside(j, c)[d]
  BY DEF IsTile, IsExtent, IsIn
<1>1. PICK b \in Nat \ {0}, s \in Nat \ {0}, x \in Nat : b = j.ts /\ s = j.shape[d] /\ x = c[d] /\ x \in 0 .. s - 1
  BY DEF IsJob, IsIn
<1> DEFINE q == x \div b
           r == x % b
<1>2. q \in Nat /\ r \in 0 .. b - 1 /\ x = b * q + r
  BY DivMod
<1>3. TileOf(j, c)[d] = q /\ Inside(j, c)[d] = r
  BY <1>1 DEF TileOf, Inside
<1> HIDE DEF q, r
<1>4. q < CeilDiv(s, b) /\ CeilDiv(s, b) \in Nat
  <2> DEFINE u == CeilDiv(s, b)
             v == (s + b - 1) % b
  <2>1. s + b - 1 \in Nat
    OBVIOUS
  <2>2. u \in Nat /\ v \in 0 .. b - 1 /\ s + b - 1 = b * u + v
    BY <2>1, DivMod DEF CeilDiv
  <2> HIDE DEF u, v
  <2>3. SUFFICES ASSUME u <= q PROVE FALSE
    BY <1>2, <2>2 DEF u
  <2>4. b * u <= b * q /\ b * u \in Nat /\ b * q \in Nat
    BY <1>2, <2>2, <2>3, TimesMono
  <2>5. x \in 0 .. s - 1
    BY <1>1
  <2> QED BY <1>2, <2>2, <2>4, <2>5
<1>5. TilesPerDim(j)[d] = CeilDiv(s, b)
  BY <1>1 DEF TilesPerDim
<1>6. CutAtFace(j, TileOf(j, c))[d] = IF b <= s - q * b THEN b ELSE s - q * b
  <2>1. CutAtFace(j, TileOf(j, c))[d] = Min({b, s - q * b})
    BY <1>1, <1>3 DEF CutAtFace
  <2>2. q * b \in Nat
    BY <1>2
  <2>3. PICK y \in Int : y = s - q * b
    BY <1>2, <2>2
  <2>4. Min({b, y}) = IF b <= y THEN b ELSE y
    BY DEF Min
  <2> QED BY <2>1, <2>3, <2>4
<1>7. r < s - q * b /\ q * b \in Nat
  <2>1. q * b = b * q /\ q * b \in Nat
    BY <1>2
  <2>2. x \in 0 .. s - 1
    BY <1>1
  <2> QED BY <1>2, <2>1, <2>2
<1>8. PICK y \in Nat : y = CutAtFace(j, TileOf(j, c))[d] /\ r < y /\ y # 0
  <2>1. s - q * b \in Int
    BY <1>7
  <2>2. PICK z \in Int : z = s - q * b
    BY <2>1
  <2>3. z \in Nat /\ r < z /\ z # 0
    BY <1>2, <1>7, <2>2
  <2>4. CutAtFace(j, TileOf(j, c))[d] = IF b <= z THEN b ELSE z
    BY <1>6, <2>2
  <2> DEFINE y == CutAtFace(j, TileOf(j, c))[d]
  <2>5. y = b \/ y = z
    BY <2>4
  <2> HIDE DEF y
  <2>6. y \in Nat /\ r < y /\ y # 0
    BY <1>2, <2>3, <2>5
  <2> QED BY <2>6 DEF y
<1> QED BY <1>1, <1>2, <1>3, <1>4, <1>5, <1>8

LEMMA CellIn ==
    ASSUME NEW j, IsJob(j), NEW p \in Cells(j.shape)
    PROVE  IsIn(j.shape, Coord(j.shape, p)) /\ RowMajor(j.shape, Coord(j.shape, p)) = p /\ p \in Nat
  BY TilesExtent, CoordIn DEF Cells

\* The number of a tile tells its coordinates.
LEMMA TileOfNumber ==
    ASSUME NEW j, IsJob(j), NEW t, IsTile(j, t)
    PROVE  /\ Linear(TilesPerDim(j), t) \in Tiles(j)
           /\ \A d \in Axes : Coord(TilesPerDim(j), Linear(TilesPerDim(j), t))[d] = t[d]
           /\ CutAtFace(j, Coord(TilesPerDim(j), Linear(TilesPerDim(j), t))) = CutAtFace(j, t)
<1> DEFINE e == TilesPerDim(j)
           k == Linear(e, t)
<1>1. k = RowMajor(e, t) /\ IsExtent(e) /\ IsIn(e, t)
  BY TilesExtent DEF Linear, RowMajor, IsTile, IsIn
<1>2. Tiles(j) = 0 .. Product(e) - 1
  BY DEF Tiles
<1> HIDE DEF e, k
<1>3. k \in 0 .. Product(e) - 1
  BY <1>1, RowMajorIn
<1>4. IsIn(e, Coord(e, k)) /\ RowMajor(e, Coord(e, k)) = k
  BY <1>1, <1>3, CoordIn
<1>5. \A d \in Axes : Coord(e, k)[d] = t[d]
  BY <1>1, <1>4, RowMajorUnique
<1>6. CutAtFace(j, Coord(e, k)) = CutAtFace(j, t)
  BY <1>5 DEF CutAtFace
<1> QED BY <1>2, <1>3, <1>5, <1>6 DEF k, e

\* Every cell has a place in its tile, and no other cell has the same.
LEMMA SpotIn ==
    ASSUME NEW j, IsJob(j), NEW p \in Cells(j.shape)
    PROVE  /\ TileNo(j, p) \in Tiles(j)
           /\ TileSize(j)[TileNo(j, p)] \in Nat
           /\ Spot(j, p) \in 0 .. TileSize(j)[TileNo(j, p)] - 1
<1> DEFINE c == Coord(j.shape, p)
           t == TileOf(j, c)
           k == Linear(TilesPerDim(j), t)
<1>1. IsIn(j.shape, c)
  BY CellIn
<1> HIDE DEF c
<1>2. IsTile(j, t) /\ IsExtent(CutAtFace(j, t)) /\ IsIn(CutAtFace(j, t), Inside(j, c))
  BY <1>1, InTile
<1>3. RowMajor(CutAtFace(j, t), Inside(j, c)) \in 0 .. Product(CutAtFace(j, t)) - 1
      /\ Product(CutAtFace(j, t)) \in Nat
  BY <1>2, RowMajorIn
<1> HIDE DEF t
<1>4. k \in Tiles(j) /\ CutAtFace(j, Coord(TilesPerDim(j), k)) = CutAtFace(j, t)
  BY <1>2, TileOfNumber
<1>5. TileSize(j)[k] = Product(CutAtFace(j, t))
  <2> HIDE DEF k
  <2> QED BY <1>4 DEF TileSize, Size
<1>6. TileNo(j, p) = k /\ Spot(j, p) = RowMajor(CutAtFace(j, t), Inside(j, c))
  BY DEF TileNo, Spot, c, t
<1> QED BY <1>3, <1>4, <1>5, <1>6

LEMMA SpotUnique ==
    ASSUME NEW j, IsJob(j), NEW p \in Cells(j.shape), NEW q \in Cells(j.shape),
           TileNo(j, p) = TileNo(j, q), Spot(j, p) = Spot(j, q)
    PROVE  p = q
<1> DEFINE c == Coord(j.shape, p)
           d == Coord(j.shape, q)
           t == TileOf(j, c)
           u == TileOf(j, d)
<1>1. IsIn(j.shape, c) /\ IsIn(j.shape, d) /\ RowMajor(j.shape, c) = p /\ RowMajor(j.shape, d) = q
  BY CellIn
<1>0. /\ Linear(TilesPerDim(j), t) = Linear(TilesPerDim(j), u)
      /\ RowMajor(CutAtFace(j, t), Inside(j, c)) = RowMajor(CutAtFace(j, u), Inside(j, d))
  BY DEF TileNo, Spot
<1> HIDE DEF c, d
<1>2. /\ IsTile(j, t) /\ IsExtent(CutAtFace(j, t)) /\ IsIn(CutAtFace(j, t), Inside(j, c))
      /\ \A x \in Axes : c[x] = j.ts * t[x] + Inside(j, c)[x]
  BY <1>1, InTile
<1>3. /\ IsTile(j, u) /\ IsExtent(CutAtFace(j, u)) /\ IsIn(CutAtFace(j, u), Inside(j, d))
      /\ \A x \in Axes : d[x] = j.ts * u[x] + Inside(j, d)[x]
  BY <1>1, InTile
<1> HIDE DEF t, u
<1>4. \A x \in Axes : t[x] = u[x]
  <2>1. /\ \A x \in Axes : Coord(TilesPerDim(j), Linear(TilesPerDim(j), t))[x] = t[x]
        /\ \A x \in Axes : Coord(TilesPerDim(j), Linear(TilesPerDim(j), u))[x] = u[x]
    BY <1>2, <1>3, TileOfNumber
  <2> QED BY <1>0, <2>1
<1>5. CutAtFace(j, t) = CutAtFace(j, u)
  BY <1>4 DEF CutAtFace
<1>6. \A x \in Axes : Inside(j, c)[x] = Inside(j, d)[x]
  BY <1>0, <1>2, <1>3, <1>5, RowMajorUnique
<1>7. \A x \in Axes : c[x] = d[x]
  BY <1>2, <1>3, <1>4, <1>6
<1>8. RowMajor(j.shape, c) = RowMajor(j.shape, d)
  BY <1>7 DEF RowMajor, Axes
<1> QED BY <1>1, <1>8

-----------------------------------------------------------------------------
(* Tiles stored one behind the other *)

\* Tiles one behind the other: size[l] cells for the l-th.
Begin(size, i) == SumOver(size, 0 .. i - 1)
AreSizes(size, num) == num \in Nat /\ \A l \in 0 .. num - 1 : size[l] \in Nat

\* Where a tile begins: behind the one before it, and no two tiles overlap.
LEMMA BeginNext ==
    ASSUME NEW size, NEW num, AreSizes(size, num), NEW i \in 0 .. num - 1
    PROVE  /\ Begin(size, i) \in Nat /\ size[i] \in Nat
           /\ Begin(size, i + 1) = Begin(size, i) + size[i]
<1>1. i \in Nat /\ num \in Nat /\ \A l \in 0 .. i : size[l] \in Nat
  BY DEF AreSizes
<1>2. SumOver(size, 0 .. i) = SumOver(size, 0 .. i - 1) + size[i]
  BY <1>1, SumUpTo
<1>3. SumOver(size, 0 .. i - 1) \in Nat
  <2>1. IsFiniteSet(0 .. i - 1) /\ \A l \in 0 .. i - 1 : size[l] \in Nat
    BY <1>1, FS_Interval
  <2> QED BY <2>1, SumOverType
<1>4. (i + 1) - 1 = i /\ size[i] \in Nat
  BY <1>1
<1>5. Begin(size, i + 1) = SumOver(size, 0 .. i)
  BY <1>4 DEF Begin
<1> QED BY <1>2, <1>3, <1>4, <1>5 DEF Begin

LEMMA BeginsApart ==
    ASSUME NEW size, NEW num, AreSizes(size, num), NEW i \in 0 .. num - 1, NEW k \in 0 .. num - 1, i < k
    PROVE  Begin(size, i) + size[i] <= Begin(size, k)
<1> DEFINE B == {d \in i + 1 .. k : ~ (Begin(size, i + 1) <= Begin(size, d))}
<1>0. num \in Nat
  BY DEF AreSizes
<1>1. Begin(size, i + 1) = Begin(size, i) + size[i] /\ Begin(size, i) \in Nat /\ size[i] \in Nat
  BY BeginNext
<1>2. SUFFICES ASSUME B # {} PROVE FALSE
  <2>1. k \in i + 1 .. k
    BY <1>0
  <2> QED BY <1>1, <2>1
<1>3. B \subseteq Nat
  BY <1>0
<1> HIDE DEF B
<1>4. PICK d \in B : \A c \in B : d <= c
  BY <1>2, <1>3, NatMin
<1>5. d \in i + 1 .. k /\ ~ (Begin(size, i + 1) <= Begin(size, d))
  BY DEF B
<1>6. d # i + 1
  <2>1. Begin(size, i + 1) \in Nat
    BY <1>1
  <2>2. SUFFICES ASSUME d = i + 1 PROVE FALSE
    OBVIOUS
  <2>3. Begin(size, d) = Begin(size, i + 1)
    BY <2>2
  <2> QED BY <1>5, <2>1, <2>3
<1>7. PICK c \in 0 .. num - 1 : d = c + 1 /\ c \in i + 1 .. k
  <2>1. d - 1 \in 0 .. num - 1 /\ d = (d - 1) + 1 /\ d - 1 \in i + 1 .. k
    BY <1>0, <1>5, <1>6
  <2> QED BY <2>1
<1>8. Begin(size, i + 1) <= Begin(size, c)
  <2>1. ~ (d <= c)
    BY <1>7
  <2> QED BY <1>4, <1>7, <2>1 DEF B
<1>9. Begin(size, c + 1) = Begin(size, c) + size[c] /\ Begin(size, c) \in Nat /\ size[c] \in Nat
  BY BeginNext
<1>10. Begin(size, d) = Begin(size, c) + size[c]
  BY <1>7, <1>9
<1> QED BY <1>1, <1>5, <1>8, <1>9, <1>10

\* A cell behind the begin of a tile belongs to that tile only.
LEMMA BeginsUnique ==
    ASSUME NEW size, NEW num, AreSizes(size, num), NEW i \in 0 .. num - 1, NEW k \in 0 .. num - 1,
           NEW r \in 0 .. size[i] - 1, NEW s \in 0 .. size[k] - 1,
           Begin(size, i) + r = Begin(size, k) + s
    PROVE  i = k /\ r = s
<1>1. /\ Begin(size, i) \in Nat /\ size[i] \in Nat /\ Begin(size, k) \in Nat /\ size[k] \in Nat
      /\ num \in Nat
  BY BeginNext DEF AreSizes
<1>2. ~ (i < k)
  <2> SUFFICES ASSUME i < k PROVE FALSE
    OBVIOUS
  <2>1. Begin(size, i) + size[i] <= Begin(size, k)
    BY BeginsApart
  <2> QED BY <1>1, <2>1
<1>3. ~ (k < i)
  <2> SUFFICES ASSUME k < i PROVE FALSE
    OBVIOUS
  <2>1. Begin(size, k) + size[k] <= Begin(size, i)
    BY BeginsApart
  <2> QED BY <1>1, <2>1
<1>4. i = k
  BY <1>1, <1>2, <1>3
<1> QED BY <1>1, <1>4

\* Tiles of one size.
LEMMA BeginOfEqual ==
    ASSUME NEW size, NEW num \in Nat, NEW c \in Nat, \A l \in 0 .. num - 1 : size[l] = c,
           NEW i \in 0 .. num
    PROVE  Begin(size, i) = i * c
<1> DEFINE B == {d \in 0 .. i : Begin(size, d) # d * c}
<1>1. SUFFICES ASSUME B # {} PROVE FALSE
  OBVIOUS
<1>2. B \subseteq Nat
  OBVIOUS
<1> HIDE DEF B
<1>3. PICK d \in B : \A e \in B : d <= e
  BY <1>1, <1>2, NatMin
<1>4. d \in 0 .. i /\ Begin(size, d) # d * c
  BY DEF B
<1>5. d # 0
  <2> SUFFICES ASSUME d = 0 PROVE FALSE
    OBVIOUS
  <2>1. 0 .. d - 1 = {} /\ d * c = 0
    OBVIOUS
  <2>2. SumOver(size, {}) = 0
    BY SumOverEmpty
  <2>3. Begin(size, d) = 0
    BY <2>1, <2>2 DEF Begin
  <2> QED BY <1>4, <2>1, <2>3
<1>6. PICK e \in 0 .. num - 1 : d = e + 1 /\ e \in 0 .. i
  <2>1. d - 1 \in 0 .. num - 1 /\ d = (d - 1) + 1 /\ d - 1 \in 0 .. i
    BY <1>4, <1>5
  <2> QED BY <2>1
<1>7. Begin(size, e) = e * c
  <2>1. ~ (d <= e)
    BY <1>6
  <2> QED BY <1>3, <1>6, <2>1 DEF B
<1>8. Begin(size, e + 1) = Begin(size, e) + size[e]
  <2>1. AreSizes(size, num)
    BY DEF AreSizes
  <2> QED BY <2>1, BeginNext
<1>9. (e + 1) * c = e * c + c /\ size[e] = c
  OBVIOUS
<1> QED BY <1>4, <1>6, <1>7, <1>8, <1>9

-----------------------------------------------------------------------------
\* m stores tiles in an order: each of them once at most.
IsOrder(j, m, num) ==
    /\ num \in Nat /\ DOMAIN m = 0 .. num - 1
    /\ \A l \in 0 .. num - 1 : m[l] \in Tiles(j)
    /\ \A k, l \in 0 .. num - 1 : m[k] = m[l] => k = l
InOrder(j, m) == [l \in DOMAIN m |-> TileSize(j)[m[l]]]

LEMMA OrderedSizes ==
    ASSUME NEW j, IsJob(j), NEW m, NEW num, IsOrder(j, m, num)
    PROVE  AreSizes(InOrder(j, m), num) /\ \A l \in 0 .. num - 1 : InOrder(j, m)[l] = TileSize(j)[m[l]]
<1>1. ASSUME NEW k \in Tiles(j)  PROVE TileSize(j)[k] \in Nat
  <2>1. IsTile(j, Coord(TilesPerDim(j), k))
    BY TileNumbers
  <2>2. TileSize(j)[k] = Product(CutAtFace(j, Coord(TilesPerDim(j), k)))
    BY DEF TileSize, Size
  <2>3. IsFiniteSet(Box(j, Coord(TilesPerDim(j), k)))
        /\ Cardinality(Box(j, Coord(TilesPerDim(j), k))) = Product(CutAtFace(j, Coord(TilesPerDim(j), k)))
    BY <2>1, BoxSize
  <2> QED BY <2>2, <2>3, FS_CardinalityType
<1> QED BY <1>1 DEF AreSizes, IsOrder, InOrder

LEMMA RoomInOrder ==
    ASSUME NEW j, IsJob(j), NEW m, NEW num, IsOrder(j, m, num), NEW i \in 0 .. num - 1
    PROVE  N(j) \in Nat /\ Begin(InOrder(j, m), i) + TileSize(j)[m[i]] <= N(j)
<1> DEFINE size == InOrder(j, m)
           P == [l \in 0 .. i |-> Box(j, Coord(TilesPerDim(j), m[l]))]
<1>1. AreSizes(size, num) /\ \A l \in 0 .. num - 1 : size[l] = TileSize(j)[m[l]]
  BY OrderedSizes
<1>2. \A l \in 0 .. num - 1 : /\ IsTile(j, Coord(TilesPerDim(j), m[l]))
                              /\ size[l] = Product(CutAtFace(j, Coord(TilesPerDim(j), m[l])))
  BY TileNumbers DEF IsOrder, InOrder, TileSize, Size
<1>3. IsFiniteSet(Grid(j)) /\ Cardinality(Grid(j)) = N(j)
  BY GridSize
<1>4. i \in Nat /\ num \in Nat /\ \A l \in 0 .. i : l \in 0 .. num - 1
  BY DEF IsOrder
<1> HIDE DEF size
<1>5. \A l \in 0 .. i : P[l] \subseteq Grid(j) /\ size[l] = Cardinality(P[l])
  BY <1>2, <1>4, BoxSize
<1>6. \A k, l \in 0 .. i : k # l => P[k] \cap P[l] = {}
  <2> SUFFICES ASSUME NEW k \in 0 .. i, NEW l \in 0 .. i, P[k] \cap P[l] # {}  PROVE k = l
    OBVIOUS
  <2>1. \A d \in Axes : Coord(TilesPerDim(j), m[k])[d] = Coord(TilesPerDim(j), m[l])[d]
    BY <1>2, <1>4, BoxesDisjoint
  <2>2. m[k] = m[l]
    BY <1>4, <2>1, TileNumbers DEF IsOrder
  <2> QED BY <1>4, <2>2 DEF IsOrder
<1> HIDE DEF P
<1>7. SumOver(size, 0 .. i) = Cardinality(Covered(P, i, Grid(j)))
  BY <1>3, <1>4, <1>5, <1>6, SumCards
<1>8. Cardinality(Covered(P, i, Grid(j))) <= N(j)
  <2>1. Covered(P, i, Grid(j)) \in SUBSET Grid(j)
    BY DEF Covered
  <2> QED BY <1>3, <2>1, FS_Subset
<1>9. Begin(size, i + 1) = Begin(size, i) + size[i]
  BY <1>1, BeginNext
<1>10. Begin(size, i + 1) = SumOver(size, 0 .. i)
  <2>1. (i + 1) - 1 = i
    BY <1>4
  <2> QED BY <2>1 DEF Begin
<1>11. N(j) \in Nat
  BY <1>3, FS_CardinalityType
<1> QED BY <1>1, <1>7, <1>8, <1>9, <1>10, <1>11 DEF size

\* The cells of tiles stored in an order: inside the volume, and each at another place.
LEMMA StoredInside ==
    ASSUME NEW j, IsJob(j), NEW m, NEW num, IsOrder(j, m, num), NEW i \in 0 .. num - 1,
           NEW r \in 0 .. TileSize(j)[m[i]] - 1
    PROVE  Begin(InOrder(j, m), i) + r \in Cells(j.shape)
<1>1. /\ Begin(InOrder(j, m), i) \in Nat /\ TileSize(j)[m[i]] \in Nat
  BY OrderedSizes, BeginNext
<1>2. N(j) \in Nat /\ Begin(InOrder(j, m), i) + TileSize(j)[m[i]] <= N(j)
  BY RoomInOrder
<1> QED BY <1>1, <1>2 DEF Cells, N

LEMMA StoredOnce ==
    ASSUME NEW j, IsJob(j), NEW m, NEW num, IsOrder(j, m, num), NEW i \in 0 .. num - 1, NEW k \in 0 .. num - 1,
           NEW r \in 0 .. TileSize(j)[m[i]] - 1, NEW s \in 0 .. TileSize(j)[m[k]] - 1,
           Begin(InOrder(j, m), i) + r = Begin(InOrder(j, m), k) + s
    PROVE  i = k /\ r = s
<1>1. /\ AreSizes(InOrder(j, m), num)
      /\ r \in 0 .. InOrder(j, m)[i] - 1 /\ s \in 0 .. InOrder(j, m)[k] - 1
  BY OrderedSizes
<1> QED BY <1>1, BeginsUnique

-----------------------------------------------------------------------------
(* Where raster_reorder and zcurve_reorder put a cell: its place behind the
   begin of its tile *)

Offset(j, p) == Begin(TileSize(j), TileNo(j, p)) + Spot(j, p)

LEMMA TilesInOrder ==
    ASSUME NEW j, IsJob(j)
    PROVE  /\ Product(TilesPerDim(j)) \in Nat
           /\ IsOrder(j, [l \in Tiles(j) |-> l], Product(TilesPerDim(j)))
           /\ InOrder(j, [l \in Tiles(j) |-> l]) = TileSize(j)
<1>1. Product(TilesPerDim(j)) \in Nat
  BY TileNumbers
<1>2. IsOrder(j, [l \in Tiles(j) |-> l], Product(TilesPerDim(j)))
  BY <1>1 DEF IsOrder, Tiles
<1>3. InOrder(j, [l \in Tiles(j) |-> l]) = TileSize(j)
  BY DEF InOrder, TileSize
<1> QED BY <1>1, <1>2, <1>3

LEMMA OffsetIn ==
    ASSUME NEW j, IsJob(j), NEW p \in Cells(j.shape)
    PROVE  Offset(j, p) \in Cells(j.shape)
<1> DEFINE m == [l \in Tiles(j) |-> l]
           num == Product(TilesPerDim(j))
<1>1. num \in Nat /\ IsOrder(j, m, num) /\ InOrder(j, m) = TileSize(j)
  BY TilesInOrder
<1>2. /\ TileNo(j, p) \in Tiles(j) /\ Spot(j, p) \in 0 .. TileSize(j)[TileNo(j, p)] - 1
  BY SpotIn
<1>3. Tiles(j) = 0 .. num - 1 /\ m[TileNo(j, p)] = TileNo(j, p)
  BY <1>2 DEF Tiles
<1> HIDE DEF m, num
<1> QED BY <1>1, <1>2, <1>3, StoredInside DEF Offset

LEMMA OffsetUnique ==
    ASSUME NEW j, IsJob(j), NEW p \in Cells(j.shape), NEW q \in Cells(j.shape), Offset(j, p) = Offset(j, q)
    PROVE  p = q
<1> DEFINE m == [l \in Tiles(j) |-> l]
           num == Product(TilesPerDim(j))
<1>1. num \in Nat /\ IsOrder(j, m, num) /\ InOrder(j, m) = TileSize(j)
  BY TilesInOrder
<1>2. /\ TileNo(j, p) \in Tiles(j) /\ Spot(j, p) \in 0 .. TileSize(j)[TileNo(j, p)] - 1
      /\ TileNo(j, q) \in Tiles(j) /\ Spot(j, q) \in 0 .. TileSize(j)[TileNo(j, q)] - 1
  BY SpotIn
<1>3. Tiles(j) = 0 .. num - 1 /\ m[TileNo(j, p)] = TileNo(j, p) /\ m[TileNo(j, q)] = TileNo(j, q)
  BY <1>2 DEF Tiles
<1>4. Begin(InOrder(j, m), TileNo(j, p)) + Spot(j, p) = Begin(InOrder(j, m), TileNo(j, q)) + Spot(j, q)
  BY <1>1 DEF Offset
<1> HIDE DEF m, num
<1>5. TileNo(j, p) = TileNo(j, q) /\ Spot(j, p) = Spot(j, q)
  BY <1>1, <1>2, <1>3, <1>4, StoredOnce
<1> QED BY <1>5, SpotUnique

\* The place of a cell, and the size of a tile.
LEMMA PlaceIs ==
    ASSUME NEW j \in TileJobs, IsJob(j)
    PROVE  /\ SizeOf[j] = TileSize(j)
           /\ \A p \in Cells(j.shape) : PlaceOf[j][p][1] = TileNo(j, p) /\ PlaceOf[j][p][2] = Spot(j, p)
<1>1. SizeOf[j] = TileSize(j)
  BY DEF SizeOf, TileSize, Size
<1>2. ASSUME NEW p \in Cells(j.shape)
      PROVE  PlaceOf[j][p][1] = TileNo(j, p) /\ PlaceOf[j][p][2] = Spot(j, p)
  BY DEF PlaceOf, TileNo, Spot
<1> QED BY <1>1, <1>2

\* The encoder and the decoder agree on where a tile begins.
LEMMA BeforeIs ==
    ASSUME NEW j \in TileJobs, IsJob(j), NEW m, NEW i
    PROVE  Before(j, m, i) = Begin(InOrder(j, m), i)
<1> DEFINE size == [l \in DOMAIN m |-> SizeOf[j][m[l]]]
<1>1. Before(j, m, i) = SumOver(size, 0 .. i - 1)
  BY DEF Before, SumOver
<1>2. size = InOrder(j, m)
  BY PlaceIs DEF InOrder
<1> HIDE DEF size
<1> QED BY <1>1, <1>2 DEF Begin

\* The tiles stored before one and that one take no more room than the volume has.
LEMMA RoomForTile ==
    ASSUME ReorderAssumption, NEW j \in TileJobs, NEW num \in Nat,
           NEW m, DOMAIN m = 0 .. num - 1, \A l \in 0 .. num - 1 : m[l] \in Tiles(j),
           \A k, l \in 0 .. num - 1 : m[k] = m[l] => k = l, NEW i \in 0 .. num - 1
    PROVE  /\ Before(j, m, i) \in Nat /\ SizeOf[j][m[i]] \in Nat
           /\ N(j) \in Nat /\ Before(j, m, i) + SizeOf[j][m[i]] <= N(j)
<1>1. IsJob(j) /\ IsOrder(j, m, num)
  BY DEF ReorderAssumption, IsJob, TileJobs, IsOrder
<1>2. SizeOf[j] = TileSize(j) /\ Before(j, m, i) = Begin(InOrder(j, m), i)
  BY <1>1, PlaceIs, BeforeIs
<1>3. AreSizes(InOrder(j, m), num) /\ InOrder(j, m)[i] = TileSize(j)[m[i]]
  BY <1>1, OrderedSizes
<1>4. Begin(InOrder(j, m), i) \in Nat /\ TileSize(j)[m[i]] \in Nat
  BY <1>3, BeginNext
<1> QED BY <1>1, <1>2, <1>4, RoomInOrder

-----------------------------------------------------------------------------
(* The offsets that the encoders and the decoders compute *)

LEMMA FewerTiles ==
    ASSUME NEW j, IsJob(j)
    PROVE  Product(TilesPerDim(j)) \in 0 .. Product(j.shape) /\ Product(j.shape) \in Nat
<1>1. ASSUME NEW d \in Axes
      PROVE  TilesPerDim(j)[d] \in Nat /\ TilesPerDim(j)[d] <= j.shape[d] /\ j.shape[d] \in Nat
  <2>1. PICK s \in Nat \ {0}, b \in Nat \ {0} : s = j.shape[d] /\ b = j.ts
    BY DEF IsJob
  <2>2. TilesPerDim(j)[d] = CeilDiv(s, b)
    BY <2>1 DEF TilesPerDim
  <2>3. PICK q \in Nat \ {0} : q = CeilDiv(s, b)
    BY TilesBeginInside
  <2>4. (q - 1) * b \in 0 .. s - 1
    <3>1. \A t \in 0 .. q - 1 : t * b \in 0 .. s - 1
      BY <2>3, TilesBeginInside
    <3>2. q - 1 \in 0 .. q - 1
      OBVIOUS
    <3> QED BY <3>1, <3>2
  <2>5. (q - 1) * 1 <= (q - 1) * b
    BY TimesMono
  <2>6. q - 1 <= s - 1
    BY <2>4, <2>5
  <2> QED BY <2>1, <2>2, <2>3, <2>6
<1>2. PICK a \in Nat, b \in Nat, c \in Nat, x \in Nat, y \in Nat, z \in Nat :
        /\ a = TilesPerDim(j)[1] /\ b = TilesPerDim(j)[2] /\ c = TilesPerDim(j)[3]
        /\ x = j.shape[1] /\ y = j.shape[2] /\ z = j.shape[3]
        /\ a <= x /\ b <= y /\ c <= z
  <2>1. 1 \in Axes /\ 2 \in Axes /\ 3 \in Axes
    BY DEF Axes
  <2> QED BY <1>1, <2>1
<1>3. a * b <= x * y
  <2>1. a * b <= x * b /\ x * b <= x * y /\ a * b \in Nat /\ x * b \in Nat /\ x * y \in Nat
    BY <1>2, TimesMono
  <2> QED BY <2>1
<1>4. PICK g \in Nat, h \in Nat : g = a * b /\ h = x * y /\ g <= h
  BY <1>3
<1>5. g * c <= h * z /\ g * c \in Nat /\ h * z \in Nat
  <2>1. g * c <= h * c /\ h * c <= h * z /\ g * c \in Nat /\ h * c \in Nat /\ h * z \in Nat
    BY <1>2, <1>4, TimesMono
  <2> QED BY <2>1
<1>6. Product(TilesPerDim(j)) = g * c /\ Product(j.shape) = h * z
  BY <1>2, <1>4 DEF Product
<1> QED BY <1>5, <1>6

LEMMA BeginsAre ==
    ASSUME NEW j, IsJob(j), NEW size, NEW k \in Tiles(j)
    PROVE  TileBegins(j, size)[k] = Begin(size, k)
<1>1. k \in 0 .. Product(TilesPerDim(j)) - 1 /\ Product(TilesPerDim(j)) \in Nat
  BY FewerTiles DEF Tiles
<1>2. k \in 0 .. Product(j.shape)
  BY <1>1, FewerTiles
<1>3. (0 .. k - 1) \cap Tiles(j) = 0 .. k - 1
  BY <1>1 DEF Tiles
<1>4. TileBegins(j, size)[k] = SumOver(size, (0 .. k - 1) \cap Tiles(j))
  BY <1>2, Zenon DEF TileBegins, SumOver
<1> QED BY <1>3, <1>4 DEF Begin

\* The extents of tiles that fill an axis, and of tiles that do not.
LEMMA FilledAxis ==
    ASSUME NEW j, IsJob(j), NEW d \in Axes, Whole(j, d), NEW t, IsTile(j, t)
    PROVE  CutAtFace(j, t)[d] = j.ts /\ FullTilesPerDim(j)[d] = TilesPerDim(j)[d]
<1>1. PICK b \in Nat \ {0}, s \in Nat \ {0} : b = j.ts /\ s = j.shape[d] /\ s % b = 0
  BY DEF IsJob, Whole
<1> DEFINE q == s \div b
<1>2. q \in Nat /\ s = b * q
  <2>1. s \div b \in Nat /\ s = b * (s \div b) + (s % b)
    BY DivMod
  <2>2. PICK u \in Nat : u = s \div b
    BY <2>1
  <2>3. b * u \in Nat /\ s = b * u + 0
    BY <1>1, <2>1, <2>2
  <2> QED BY <2>2, <2>3
<1>3. FullTilesPerDim(j)[d] = q
  BY <1>1 DEF FullTilesPerDim
<1> HIDE DEF q
<1>4. CeilDiv(s, b) = q
  <2>1. s + b - 1 = b * q + (b - 1) /\ s + b - 1 \in Nat /\ b - 1 \in 0 .. b - 1
    BY <1>2
  <2>2. PICK v \in Nat, w \in 0 .. b - 1 : v = s + b - 1 /\ w = b - 1
    BY <2>1
  <2>3. v = b * q + w
    BY <2>1, <2>2
  <2>4. v \div b = q
    BY <1>2, <2>3, DivUnique
  <2> QED BY <2>2, <2>4 DEF CeilDiv
<1>5. TilesPerDim(j)[d] = q
  BY <1>1, <1>4 DEF TilesPerDim
<1>6. PICK x \in 0 .. q - 1 : x = t[d]
  BY <1>5 DEF IsTile
<1>7. b <= s - x * b /\ x * b \in Nat
  <2>1. (x + 1) * b <= q * b /\ x * b \in Nat
    BY <1>2, TimesMono
  <2>2. (x + 1) * b = x * b + b /\ q * b = b * q
    BY <1>2
  <2> QED BY <1>2, <2>1, <2>2
<1>8. CutAtFace(j, t)[d] = Min({b, s - x * b})
  BY <1>1, <1>6 DEF CutAtFace
<1>9. PICK y \in Int : y = s - x * b /\ b <= y
  BY <1>7
<1>10. Min({b, y}) = b
  BY <1>9 DEF Min
<1> QED BY <1>1, <1>3, <1>5, <1>8, <1>9, <1>10

LEMMA CutAxis ==
    ASSUME NEW j, IsJob(j), NEW d \in Axes, ~Whole(j, d), NEW t, IsTile(j, t)
    PROVE  CutAtFace(j, t)[d] = IF t[d] # TilesPerDim(j)[d] - 1 THEN j.ts ELSE j.shape[d] % j.ts
<1>1. PICK b \in Nat \ {0}, s \in Nat \ {0} : b = j.ts /\ s = j.shape[d] /\ s % b # 0
  BY DEF IsJob, Whole
<1> DEFINE q == s \div b
           r == s % b
<1>2. q \in Nat /\ r \in 0 .. b - 1 /\ s = b * q + r /\ r # 0
  BY <1>1, DivMod
<1>3. j.shape[d] % j.ts = r
  BY <1>1
<1> HIDE DEF q, r
<1>4. CeilDiv(s, b) = q + 1
  <2>1. s + b - 1 = b * (q + 1) + (r - 1) /\ s + b - 1 \in Nat /\ r - 1 \in 0 .. b - 1
    <3>1. b * (q + 1) = b * q + b /\ b * q \in Nat
      BY <1>2
    <3> QED BY <1>2, <3>1
  <2>2. PICK v \in Nat, w \in 0 .. b - 1, u \in Nat : v = s + b - 1 /\ w = r - 1 /\ u = q + 1
    BY <1>2, <2>1
  <2>3. v = b * u + w
    BY <2>1, <2>2
  <2>4. v \div b = u
    BY <2>3, DivUnique
  <2> QED BY <2>2, <2>4 DEF CeilDiv
<1>5. TilesPerDim(j)[d] = q + 1
  BY <1>1, <1>4 DEF TilesPerDim
<1>6. PICK x \in 0 .. q : x = t[d]
  BY <1>2, <1>5 DEF IsTile
<1>8. CutAtFace(j, t)[d] = Min({b, s - x * b})
  BY <1>1, <1>6 DEF CutAtFace
<1>9. CASE x = q
  <2>1. s - x * b = r
    <3>1. x * b = b * q /\ b * q \in Nat
      BY <1>2, <1>9
    <3> QED BY <1>2, <3>1
  <2>2. Min({b, r}) = r
    BY <1>2 DEF Min
  <2>3. CutAtFace(j, t)[d] = r
    BY <1>8, <2>1, <2>2
  <2>4. t[d] = TilesPerDim(j)[d] - 1
    BY <1>2, <1>5, <1>6, <1>9
  <2> QED BY <1>3, <2>3, <2>4
<1>10. CASE x # q
  <2>1. b <= s - x * b /\ x * b \in Nat
    <3>1. (x + 1) * b <= q * b /\ x * b \in Nat
      BY <1>2, <1>10, TimesMono
    <3>2. (x + 1) * b = x * b + b /\ q * b = b * q
      BY <1>2
    <3> QED BY <1>2, <3>1, <3>2
  <2>2. PICK y \in Int : y = s - x * b /\ b <= y
    BY <2>1
  <2>3. Min({b, y}) = b
    BY <2>2 DEF Min
  <2> QED BY <1>1, <1>2, <1>5, <1>6, <1>8, <1>10, <2>2, <2>3
<1> QED BY <1>9, <1>10

AllWhole(j) == \A d \in Axes : Whole(j, d)

LEMMA WholeTiles ==
    ASSUME NEW j, IsJob(j), AllWhole(j), NEW t, IsTile(j, t)
    PROVE  /\ Product(CutAtFace(j, t)) = Product(Full(j))
           /\ \A c : RowMajor(CutAtFace(j, t), c) = RowMajor(Full(j), c)
           /\ \A u : Linear(FullTilesPerDim(j), u) = Linear(TilesPerDim(j), u)
<1>1. 1 \in Axes /\ 2 \in Axes /\ 3 \in Axes
  BY DEF Axes
<1>2. \A d \in Axes : CutAtFace(j, t)[d] = j.ts /\ FullTilesPerDim(j)[d] = TilesPerDim(j)[d]
  BY FilledAxis DEF AllWhole
<1>3. Full(j)[1] = j.ts /\ Full(j)[2] = j.ts /\ Full(j)[3] = j.ts
  BY DEF Full
<1>4. /\ CutAtFace(j, t)[1] = Full(j)[1] /\ CutAtFace(j, t)[2] = Full(j)[2] /\ CutAtFace(j, t)[3] = Full(j)[3]
      /\ FullTilesPerDim(j)[2] = TilesPerDim(j)[2] /\ FullTilesPerDim(j)[3] = TilesPerDim(j)[3]
  BY <1>1, <1>2, <1>3
<1> QED BY <1>4, Zenon DEF Product, RowMajor, Linear

\* Where all tiles are complete, tile k begins behind k times the cells of one.
LEMMA WholeBegin ==
    ASSUME NEW j, IsJob(j), AllWhole(j), NEW k \in Tiles(j)
    PROVE  /\ Product(Full(j)) \in Nat /\ TileSize(j)[k] = Product(Full(j))
           /\ Begin(TileSize(j), k) = k * Product(Full(j))
<1> DEFINE num == Product(TilesPerDim(j))
           c == Product(Full(j))
           size == TileSize(j)
<1>1. c \in Nat
  BY DEF Product, Full, IsJob
<1>2. num \in Nat /\ Tiles(j) = 0 .. num - 1 /\ \A l \in Tiles(j) : IsTile(j, Coord(TilesPerDim(j), l))
  BY TileNumbers DEF Tiles
<1>3. \A l \in Tiles(j) : size[l] = c
  BY <1>2, WholeTiles DEF TileSize, Size
<1> HIDE DEF num, c, size
<1>4. k \in 0 .. num
  BY <1>2
<1>5. Begin(size, k) = k * c
  BY <1>1, <1>2, <1>3, <1>4, BeginOfEqual
<1> QED BY <1>1, <1>3, <1>5 DEF c, size

-----------------------------------------------------------------------------
\* raster_reorder: tiles that fill all axes, or none.
Straight(j) == AllWhole(j) \/ \A d \in Axes : ~Whole(j, d)

LEMMA RasterExtentIs ==
    ASSUME NEW j, IsJob(j), Straight(j), NEW t, IsTile(j, t)
    PROVE  /\ \A d \in Axes : RasterExtent(j, t)[d] = CutAtFace(j, t)[d]
           /\ Product(RasterExtent(j, t)) = Size(j, t)
           /\ \A c : RowMajor(RasterExtent(j, t), c) = RowMajor(CutAtFace(j, t), c)
<1>0. 1 \in Axes /\ 2 \in Axes /\ 3 \in Axes
  BY DEF Axes
<1>1. ASSUME NEW d \in Axes  PROVE RasterExtent(j, t)[d] = CutAtFace(j, t)[d]
  <2>1. CASE RasterRemainder(j)
    <3>1. ~Whole(j, d)
      BY <2>1 DEF Straight, AllWhole, RasterRemainder
    <3> QED BY <2>1, <3>1, CutAxis DEF RasterExtent
  <2>2. CASE ~RasterRemainder(j)
    <3>1. Whole(j, d)
      BY <2>2 DEF RasterRemainder
    <3>2. RasterExtent(j, t)[d] = j.ts
      BY <2>2 DEF RasterExtent, Full, Axes
    <3> QED BY <3>1, <3>2, FilledAxis
  <2> QED BY <2>1, <2>2
<1>2. /\ RasterExtent(j, t)[1] = CutAtFace(j, t)[1]
      /\ RasterExtent(j, t)[2] = CutAtFace(j, t)[2]
      /\ RasterExtent(j, t)[3] = CutAtFace(j, t)[3]
  BY <1>0, <1>1
<1>3. Product(RasterExtent(j, t)) = Size(j, t)
  BY <1>2, Zenon DEF Product, Size
<1>4. \A c : RowMajor(RasterExtent(j, t), c) = RowMajor(CutAtFace(j, t), c)
  BY <1>2, Zenon DEF RowMajor
<1> QED BY <1>1, <1>3, <1>4

LEMMA RasterBeginsAre ==
    ASSUME NEW j, IsJob(j), Straight(j), NEW k \in Tiles(j)
    PROVE  RasterBegins(j)[k] = Begin(TileSize(j), k)
<1> DEFINE size == [i \in Tiles(j) |-> Product(RasterExtent(j, Coord(TilesPerDim(j), i)))]
<1>1. \A i \in Tiles(j) : Product(RasterExtent(j, Coord(TilesPerDim(j), i))) = Size(j, Coord(TilesPerDim(j), i))
  BY TileNumbers, RasterExtentIs
<1>2. size = TileSize(j)
  BY <1>1 DEF TileSize
<1>3. RasterBegins(j) = TileBegins(j, size)
  BY DEF RasterBegins
<1> HIDE DEF size
<1> QED BY <1>2, <1>3, BeginsAre

\* The decoder finds every cell at its offset ...
LEMMA RasterDecodes ==
    ASSUME NEW j \in Raster, IsJob(j), Straight(j), NEW p \in Cells(j.shape)
    PROVE  RasterDecodeOffset[j][p] = Offset(j, p) /\ p \in Copied[j]
<1> DEFINE c == Coord(j.shape, p)
           t == TileOf(j, c)
           begins == RasterBegins(j)
<1>1. RasterDecodeOffset[j] = [q \in Cells(j.shape) |-> RasterOffset(j, begins, Coord(j.shape, q))]
  BY DEF RasterDecodeOffset
<1>2. RasterDecodeOffset[j][p] = RasterOffset(j, begins, c)
  BY <1>1
<1>3. IsIn(j.shape, c)
  BY CellIn
<1> HIDE DEF c
<1>4. /\ IsTile(j, t) /\ IsIn(CutAtFace(j, t), Inside(j, c))
  BY <1>3, InTile
<1>5. /\ \A d \in Axes : RasterExtent(j, t)[d] = CutAtFace(j, t)[d]
      /\ RowMajor(RasterExtent(j, t), Inside(j, c)) = RowMajor(CutAtFace(j, t), Inside(j, c))
  BY <1>4, RasterExtentIs
<1>6. begins[Linear(TilesPerDim(j), t)] = Begin(TileSize(j), Linear(TilesPerDim(j), t))
  BY <1>4, TileOfNumber, RasterBeginsAre
<1>7. RasterOffset(j, begins, c) = begins[Linear(TilesPerDim(j), t)] + RowMajor(RasterExtent(j, t), Inside(j, c))
  BY DEF RasterOffset
<1>8. TileNo(j, p) = Linear(TilesPerDim(j), t) /\ Spot(j, p) = RowMajor(CutAtFace(j, t), Inside(j, c))
  BY DEF TileNo, Spot, c
<1>9. RasterDecodeOffset[j][p] = Offset(j, p)
  <2> HIDE DEF t, begins
  <2> QED BY <1>2, <1>5, <1>6, <1>7, <1>8 DEF Offset
<1>10. Inside(j, c)[3] < RasterExtent(j, t)[3]
  <2>1. 3 \in Axes
    BY DEF Axes
  <2>2. Inside(j, c)[3] \in 0 .. CutAtFace(j, t)[3] - 1 /\ RasterExtent(j, t)[3] = CutAtFace(j, t)[3]
    BY <1>4, <1>5, <2>1 DEF IsIn
  <2>3. CutAtFace(j, t)[3] \in Nat
    BY <1>3, <2>1, InTile DEF IsExtent
  <2> QED BY <2>2, <2>3
<1>11. p \in Copied[j]
  BY <1>10 DEF Copied, c, t
<1> QED BY <1>9, <1>11

\* ... and the encoder for complete tiles writes it there.
LEMMA WholeOffset ==
    ASSUME NEW j, IsJob(j), AllWhole(j), NEW p \in Cells(j.shape)
    PROVE  LET c == Coord(j.shape, p)
           IN  Offset(j, p) = Linear(FullTilesPerDim(j), TileOf(j, c)) * Product(Full(j))
                                + RowMajor(Full(j), Inside(j, c))
<1> DEFINE c == Coord(j.shape, p)
           t == TileOf(j, c)
<1>1. IsIn(j.shape, c)
  BY CellIn
<1>2. TileNo(j, p) = Linear(TilesPerDim(j), t) /\ Spot(j, p) = RowMajor(CutAtFace(j, t), Inside(j, c))
  BY DEF TileNo, Spot
<1> HIDE DEF c
<1>3. IsTile(j, t)
  BY <1>1, InTile
<1> HIDE DEF t
<1>4. /\ RowMajor(CutAtFace(j, t), Inside(j, c)) = RowMajor(Full(j), Inside(j, c))
      /\ Linear(FullTilesPerDim(j), t) = Linear(TilesPerDim(j), t)
  BY <1>3, WholeTiles
<1>5. Begin(TileSize(j), TileNo(j, p)) = TileNo(j, p) * Product(Full(j))
  BY SpotIn, WholeBegin
<1>6. Offset(j, p) = Linear(FullTilesPerDim(j), t) * Product(Full(j)) + RowMajor(Full(j), Inside(j, c))
  BY <1>2, <1>4, <1>5 DEF Offset
<1> QED BY <1>6 DEF c, t

LEMMA RasterEncodes ==
    ASSUME NEW j \in Raster, IsJob(j), Straight(j), Path(j) # "simd", NEW p \in Cells(j.shape)
    PROVE  RasterEncodeOffset[j][p] = Offset(j, p)
<1>1. CASE Path(j) = "remainder"
  <2>1. RasterEncodeOffset[j] = RasterDecodeOffset[j]
    BY <1>1 DEF RasterEncodeOffset
  <2> QED BY <2>1, RasterDecodes
<1>2. CASE Path(j) # "remainder"
  <2>1. AllWhole(j)
    BY <1>2 DEF Path, RasterPath, RasterRemainder, AllWhole, Raster
  <2>2. RasterEncodeOffset[j][p] = RasterFullOffset(j, Coord(j.shape, p))
    BY <1>2 DEF RasterEncodeOffset
  <2> QED BY <2>1, <2>2, WholeOffset DEF RasterFullOffset
<1> QED BY <1>1, <1>2

-----------------------------------------------------------------------------
\* z-curves whose sides are groups of bits; complete tiles on their path.
Curved(j) == Pow2[GroupBits(j.ts)] = j.ts /\ (Path(j) = "full" => AllWhole(j))

LEMMA CurveRows ==
    ASSUME NEW j, IsJob(j), Pow2[GroupBits(j.ts)] = j.ts, NEW c, IsIn(j.shape, c)
    PROVE  Morton(GroupBits(j.ts), Inside(j, c)) = RowMajor(Full(j), Inside(j, c))
<1> DEFINE b == GroupBits(j.ts)
<1>1. b \in Nat \ {0}
  <2>1. CASE \E e \in 1 .. 7 : Pow2[e] = j.ts
    <3>1. b \in 1 .. 7
      BY <2>1 DEF GroupBits
    <3> QED BY <3>1
  <2>2. CASE ~ \E e \in 1 .. 7 : Pow2[e] = j.ts
    BY <2>2 DEF GroupBits
  <2> QED BY <2>1, <2>2
<1> HIDE DEF b
<1>2. Pow2[b] = j.ts
  BY DEF b
<1>3. \A d \in Axes : Inside(j, c)[d] \in 0 .. Pow2[b] - 1
  BY <1>2, InTile
<1>4. Morton(b, Inside(j, c)) = RowMajor(<<Pow2[b], Pow2[b], Pow2[b]>>, Inside(j, c))
  BY <1>1, <1>3, MortonRows
<1>5. Full(j) = <<Pow2[b], Pow2[b], Pow2[b]>>
  BY <1>2 DEF Full
<1> QED BY <1>4, <1>5 DEF b

LEMMA ZcurveExtentIs ==
    ASSUME NEW j \in Zcurve, IsJob(j), Curved(j), NEW t, IsTile(j, t)
    PROVE  /\ Product(ZcurveExtent(j, t)) = Size(j, t)
           /\ \A c : RowMajor(ZcurveExtent(j, t), c) = RowMajor(CutAtFace(j, t), c)
<1>1. CASE ZcurveRemainder(j)
  BY <1>1 DEF ZcurveExtent, Size
<1>2. CASE ~ZcurveRemainder(j)
  <2>1. AllWhole(j) /\ ZcurveExtent(j, t) = Full(j)
    BY <1>2 DEF Curved, Path, ZcurvePath, Zcurve, ZcurveExtent
  <2> QED BY <2>1, WholeTiles DEF Size
<1> QED BY <1>1, <1>2

LEMMA ZcurveBeginsAre ==
    ASSUME NEW j \in Zcurve, IsJob(j), Curved(j), NEW k \in Tiles(j)
    PROVE  ZcurveBegins(j)[k] = Begin(TileSize(j), k)
<1> DEFINE size == [i \in Tiles(j) |-> Product(ZcurveExtent(j, Coord(TilesPerDim(j), i)))]
<1>1. \A i \in Tiles(j) : Product(ZcurveExtent(j, Coord(TilesPerDim(j), i))) = Size(j, Coord(TilesPerDim(j), i))
  BY TileNumbers, ZcurveExtentIs
<1>2. size = TileSize(j)
  BY <1>1 DEF TileSize
<1>3. ZcurveBegins(j) = TileBegins(j, size)
  BY DEF ZcurveBegins
<1> HIDE DEF size
<1> QED BY <1>2, <1>3, BeginsAre

LEMMA ZcurveDecodes ==
    ASSUME NEW j \in Zcurve, IsJob(j), Curved(j), NEW p \in Cells(j.shape)
    PROVE  ZcurveDecodeOffset[j][p] = Offset(j, p)
<1> DEFINE c == Coord(j.shape, p)
           t == TileOf(j, c)
           begins == ZcurveBegins(j)
           e == ZcurveExtent(j, t)
<1>1. ZcurveDecodeOffset[j] = [q \in Cells(j.shape) |-> ZcurveOffset(j, begins, Coord(j.shape, q))]
  BY DEF ZcurveDecodeOffset
<1>2. ZcurveDecodeOffset[j][p] = ZcurveOffset(j, begins, c)
  BY <1>1
<1>3. IsIn(j.shape, c)
  BY CellIn
<1>8. TileNo(j, p) = Linear(TilesPerDim(j), t) /\ Spot(j, p) = RowMajor(CutAtFace(j, t), Inside(j, c))
  BY DEF TileNo, Spot
<1> HIDE DEF c
<1>4. IsTile(j, t)
  BY <1>3, InTile
<1>5. RowMajor(e, Inside(j, c)) = RowMajor(CutAtFace(j, t), Inside(j, c))
  BY <1>4, ZcurveExtentIs
<1>6. begins[Linear(TilesPerDim(j), t)] = Begin(TileSize(j), Linear(TilesPerDim(j), t))
  BY <1>4, TileOfNumber, ZcurveBeginsAre
<1>7. ZcurveOffset(j, begins, c) =
        begins[Linear(TilesPerDim(j), t)] + IF e = Full(j) THEN Morton(GroupBits(j.ts), Inside(j, c))
                                            ELSE RowMajor(e, Inside(j, c))
  BY DEF ZcurveOffset
<1>9. Morton(GroupBits(j.ts), Inside(j, c)) = RowMajor(Full(j), Inside(j, c))
  BY <1>3, CurveRows DEF Curved
<1> HIDE DEF t, begins, e
<1> QED BY <1>2, <1>5, <1>6, <1>7, <1>8, <1>9 DEF Offset

LEMMA ZcurveEncodes ==
    ASSUME NEW j \in Zcurve, IsJob(j), Curved(j), NEW p \in Cells(j.shape)
    PROVE  ZcurveEncodeOffset[j][p] = Offset(j, p)
<1>1. CASE Path(j) = "remainder"
  <2>1. ZcurveEncodeOffset[j] = ZcurveDecodeOffset[j]
    BY <1>1 DEF ZcurveEncodeOffset
  <2> QED BY <2>1, ZcurveDecodes
<1>2. CASE Path(j) # "remainder"
  <2>1. AllWhole(j)
    BY <1>2 DEF Path, ZcurvePath, Curved, Zcurve
  <2>2. ZcurveEncodeOffset[j][p] = ZcurveFullOffset(j, Coord(j.shape, p))
    BY <1>2 DEF ZcurveEncodeOffset
  <2>3. Morton(GroupBits(j.ts), Inside(j, Coord(j.shape, p))) = RowMajor(Full(j), Inside(j, Coord(j.shape, p)))
    BY CellIn, CurveRows DEF Curved
  <2> QED BY <2>1, <2>2, <2>3, WholeOffset DEF ZcurveFullOffset
<1> QED BY <1>1, <1>2

-----------------------------------------------------------------------------
(* Frames, rows and registers *)

-----------------------------------------------------------------------------
(* A volume in slices of b cells: frames, rows, chunks of frames *)

Slice(b, u) == u * b .. (u + 1) * b - 1

\* The cells of slice u: b of them from u * b on.
LEMMA SliceIs ==
    ASSUME NEW b \in Nat, NEW u \in Nat, NEW p \in Int
    PROVE  /\ u * b \in Nat /\ (u + 1) * b = u * b + b
           /\ p \in Slice(b, u) <=> u * b <= p /\ p < u * b + b
           /\ p \in Slice(b, u) => p \in Nat /\ p - u * b \in 0 .. b - 1
<1>1. u * b \in Nat /\ (u + 1) * b = u * b + b
  <2>1. u * b \in Nat /\ (u + 1) * b = u * b + 1 * b
    OBVIOUS
  <2> QED BY <2>1
<1>2. PICK x \in Nat : x = u * b
  BY <1>1
<1> QED BY <1>1, <1>2 DEF Slice

LEMMA SliceIn ==
    ASSUME NEW a \in Nat, NEW b \in Nat, NEW u \in 0 .. a - 1, NEW p \in Slice(b, u)
    PROVE  p \in 0 .. a * b - 1 /\ a * b \in Nat
<1>1. p \in Int /\ u \in Nat
  <2>1. u * b \in Int /\ (u + 1) * b - 1 \in Int
    OBVIOUS
  <2> QED BY <2>1 DEF Slice
<1>2. p \in Nat /\ p - u * b \in 0 .. b - 1 /\ u * b \in Nat
  BY <1>1, SliceIs
<1>3. PICK r \in 0 .. b - 1, x \in Nat : r = p - u * b /\ x = u * b
  BY <1>2
<1>4. u * b + r \in 0 .. a * b - 1
  BY <1>3, InUnits
<1>5. p = x + r
  BY <1>1, <1>3
<1> QED BY <1>3, <1>4, <1>5

LEMMA SliceOf ==
    ASSUME NEW a \in Nat, NEW b \in Nat \ {0}, NEW p \in 0 .. a * b - 1
    PROVE  p \div b \in 0 .. a - 1 /\ p \in Slice(b, p \div b)
<1>1. a * b \in Nat
  OBVIOUS
<1>2. p \in Nat
  OBVIOUS
<1>3. p \div b \in Nat /\ p % b \in 0 .. b - 1 /\ p = b * (p \div b) + (p % b)
  BY <1>2, DivMod
<1>4. PICK q \in Nat, r \in 0 .. b - 1 : q = p \div b /\ r = p % b
  BY <1>3
<1>5. p = q * b + r /\ q * b \in Nat
  <2>1. b * q = q * b /\ q * b \in Nat
    OBVIOUS
  <2> QED BY <1>3, <1>4, <2>1
<1>6. q < a
  <2> SUFFICES ASSUME a <= q PROVE FALSE
    OBVIOUS
  <2>1. a * b <= q * b
    BY TimesMono
  <2> QED BY <1>1, <1>5, <2>1
<1>7. p \in Slice(b, q)
  BY <1>2, <1>5, SliceIs
<1> QED BY <1>4, <1>6, <1>7

LEMMA SliceOne ==
    ASSUME NEW b \in Nat, NEW u \in Nat, NEW v \in Nat, NEW p \in Slice(b, u), p \in Slice(b, v)
    PROVE  u = v
<1>1. p \in Int
  <2>1. u * b \in Int /\ (u + 1) * b - 1 \in Int
    OBVIOUS
  <2> QED BY <2>1 DEF Slice
<1>2. p - u * b \in 0 .. b - 1 /\ p - v * b \in 0 .. b - 1 /\ u * b \in Nat /\ v * b \in Nat
  BY <1>1, SliceIs
<1>3. PICK r \in 0 .. b - 1, s \in 0 .. b - 1, x \in Nat, y \in Nat :
        r = p - u * b /\ s = p - v * b /\ x = u * b /\ y = v * b
  BY <1>2
<1>4. u * b + r = v * b + s
  BY <1>1, <1>3
<1> QED BY <1>4, UnitsUnique

\* The frames of a volume, and its rows.
LEMMA FramesOf ==
    ASSUME NEW j, IsJob(j)
    PROVE  /\ j.shape[1] \in Nat \ {0} /\ j.shape[2] \in Nat \ {0} /\ j.shape[3] \in Nat \ {0}
           /\ j.shape[2] * j.shape[3] \in Nat \ {0} /\ j.shape[1] * j.shape[2] \in Nat \ {0}
           /\ N(j) = j.shape[1] * (j.shape[2] * j.shape[3])
           /\ N(j) = (j.shape[1] * j.shape[2]) * j.shape[3]
           /\ N(j) \in Nat /\ Cells(j.shape) = 0 .. N(j) - 1
<1>1. PICK a \in Nat \ {0}, b \in Nat \ {0}, c \in Nat \ {0} : a = j.shape[1] /\ b = j.shape[2] /\ c = j.shape[3]
  BY DEF IsJob, Axes
<1>2. b * c \in Nat \ {0} /\ a * b \in Nat \ {0}
  <2>1. b * 1 <= b * c /\ a * 1 <= a * b
    BY TimesMono
  <2> QED BY <2>1
<1>3. N(j) = a * b * c
  BY <1>1 DEF N, Product
<1>4. a * b * c = a * (b * c) /\ a * b * c \in Nat
  OBVIOUS
<1>5. Cells(j.shape) = 0 .. N(j) - 1
  BY DEF Cells, N
<1> QED BY <1>1, <1>2, <1>3, <1>4, <1>5

-----------------------------------------------------------------------------
(* registers as wide as a tile *)

\* The cells of a register lie side by side in the row of one tile.
LEMMA RegisterTile ==
    ASSUME NEW j, IsJob(j), Whole(j, 3), NEW p \in Cells(j.shape), p % j.ts = 0, NEW o \in 0 .. j.ts - 1
    PROVE  /\ p + o \in Cells(j.shape)
           /\ \A d \in Axes : TileOf(j, Coord(j.shape, p + o))[d] = TileOf(j, Coord(j.shape, p))[d]
           /\ Inside(j, Coord(j.shape, p))[3] = 0
           /\ Inside(j, Coord(j.shape, p + o))[1] = Inside(j, Coord(j.shape, p))[1]
           /\ Inside(j, Coord(j.shape, p + o))[2] = Inside(j, Coord(j.shape, p))[2]
           /\ Inside(j, Coord(j.shape, p + o))[3] = o
<1> DEFINE e == j.shape
           c == Coord(e, p)
           d == <<c[1], c[2], c[3] + o>>
<1>0. 1 \in Axes /\ 2 \in Axes /\ 3 \in Axes /\ \A y \in Axes : y = 1 \/ y = 2 \/ y = 3
  BY DEF Axes
<1>1. IsIn(e, c) /\ RowMajor(e, c) = p /\ p \in Nat
  BY CellIn
<1>2. PICK b \in Nat \ {0}, s1 \in Nat \ {0}, s2 \in Nat \ {0}, s3 \in Nat \ {0} :
        b = j.ts /\ s1 = e[1] /\ s2 = e[2] /\ s3 = e[3] /\ s3 % b = 0
  BY <1>0 DEF IsJob, Whole
<1>3. IsExtent(e) /\ Cells(e) = 0 .. Product(e) - 1
  BY <1>0 DEF IsExtent, IsJob, Cells
<1>c. /\ d[1] = c[1] /\ d[2] = c[2] /\ d[3] = c[3] + o
      /\ RowMajor(e, c) = c[1] * e[3] * e[2] + c[2] * e[3] + c[3]
  BY DEF RowMajor
<1> HIDE DEF e, c
<1>4. PICK x \in 0 .. s1 - 1, y \in 0 .. s2 - 1, z \in 0 .. s3 - 1 : x = c[1] /\ y = c[2] /\ z = c[3]
  BY <1>0, <1>1, <1>2 DEF IsIn
<1>5. z % b = 0
  <2>1. PICK q \in Nat : s3 = b * q
    <3>1. s3 \div b \in Nat /\ s3 = b * (s3 \div b) + (s3 % b)
      BY DivMod
    <3>2. PICK q \in Nat : q = s3 \div b
      BY <3>1
    <3>3. s3 = b * q
      <4>1. s3 = b * q + 0 /\ b * q \in Nat
        BY <1>2, <3>1, <3>2
      <4> QED BY <4>1
    <3> QED BY <3>3
  <2>2. PICK q2 \in Nat, r \in 0 .. b - 1 : q2 = z \div b /\ r = z % b /\ z = b * q2 + r
    <3>1. z \in Nat
      OBVIOUS
    <3>2. z \div b \in Nat /\ z % b \in 0 .. b - 1 /\ z = b * (z \div b) + (z % b)
      BY <3>1, DivMod
    <3> QED BY <3>2
  <2>3. p = x * s3 * s2 + y * s3 + z
    BY <1>1, <1>2, <1>4, <1>c
  <2>4. x * s3 * s2 + y * s3 + z = b * (x * q * s2 + y * q + q2) + r
    <3>1. x * (b * q) * s2 = b * (x * q * s2) /\ y * (b * q) = b * (y * q)
      OBVIOUS
    <3>2. PICK g \in Nat, h \in Nat : g = x * q * s2 /\ h = y * q
      <4>1. x \in Nat /\ y \in Nat
        OBVIOUS
      <4>2. x * q * s2 \in Nat /\ y * q \in Nat
        BY <4>1
      <4> QED BY <4>2
    <3>3. b * (g + h + q2) = b * g + b * h + b * q2
      OBVIOUS
    <3>4. b * g \in Nat /\ b * h \in Nat /\ b * q2 \in Nat
      OBVIOUS
    <3>5. x * s3 * s2 = b * g /\ y * s3 = b * h
      BY <2>1, <3>1, <3>2
    <3> QED BY <2>2, <3>2, <3>3, <3>4, <3>5
  <2>5. PICK g \in Nat : g = x * q * s2 + y * q + q2
    <3>1. x \in Nat /\ y \in Nat
      OBVIOUS
    <3>2. x * q * s2 \in Nat /\ y * q \in Nat
      BY <3>1
    <3> QED BY <3>2
  <2>6. p = b * g + r
    BY <2>3, <2>4, <2>5
  <2>7. p % b = r
    <3>1. p \div b = g
      BY <1>1, <2>6, DivUnique
    <3>2. p = b * (p \div b) + (p % b) /\ p % b \in Int
      BY <1>1, DivMod
    <3>3. p = b * g + (p % b) /\ b * g \in Nat
      BY <3>1, <3>2
    <3> QED BY <2>6, <3>2, <3>3
  <2>8. r = 0
    BY <1>2, <2>7
  <2> QED BY <2>2, <2>8
<1>6. PICK u \in Nat, q \in Nat : z = b * u /\ s3 = b * q /\ z \div b = u
  <2>1. z \in Nat
    OBVIOUS
  <2>2. PICK u \in Nat, r \in Nat : u = z \div b /\ r = z % b /\ z = b * u + r
    <3>1. z \div b \in Nat /\ z % b \in 0 .. b - 1 /\ z = b * (z \div b) + (z % b)
      BY <2>1, DivMod
    <3> QED BY <3>1
  <2>3. PICK q \in Nat, r2 \in 0 .. b - 1 : q = s3 \div b /\ r2 = s3 % b /\ s3 = b * q + r2
    <3>1. s3 \div b \in Nat /\ s3 % b \in 0 .. b - 1 /\ s3 = b * (s3 \div b) + (s3 % b)
      BY DivMod
    <3> QED BY <3>1
  <2>4. r = 0 /\ r2 = 0 /\ b * u \in Nat /\ b * q \in Nat
    BY <1>2, <1>5, <2>2, <2>3
  <2>5. z = b * u /\ s3 = b * q
    BY <2>2, <2>3, <2>4
  <2> QED BY <2>2, <2>5
<1>7. z + o \in 0 .. s3 - 1
  <2>1. u < q
    <3> SUFFICES ASSUME q <= u PROVE FALSE
      OBVIOUS
    <3>1. b * q <= b * u
      BY TimesMono
    <3> QED BY <1>6, <3>1
  <2>2. b * (u + 1) <= b * q /\ b * (u + 1) = b * u + b
    <3>1. u + 1 <= q /\ u + 1 \in Nat
      BY <2>1
    <3>2. b * (u + 1) <= b * q
      BY <3>1, TimesMono
    <3>3. b * (u + 1) = b * u + b * 1
      OBVIOUS
    <3> QED BY <3>2, <3>3
  <2>3. z + b <= s3
    BY <1>6, <2>2
  <2> QED BY <1>2, <2>3
<1>8. (z + o) \div b = u /\ (z + o) % b = o
  <2>1. PICK v \in Nat : v = z + o /\ v = b * u + o
    BY <1>2, <1>6, <1>7
  <2>2. o \in 0 .. b - 1
    BY <1>2
  <2>3. v \div b = u
    BY <2>1, <2>2, DivUnique
  <2>4. v % b \in Int /\ v = b * (v \div b) + (v % b)
    BY DivMod
  <2>5. v = b * u + (v % b) /\ b * u \in Nat
    BY <2>3, <2>4
  <2> QED BY <2>1, <2>2, <2>3, <2>4, <2>5
<1>9. IsIn(e, d) /\ RowMajor(e, d) = p + o
  <2>1. IsIn(e, d)
    BY <1>0, <1>2, <1>4, <1>7, <1>c DEF IsIn
  <2>2. RowMajor(e, d) = d[1] * e[3] * e[2] + d[2] * e[3] + d[3]
    BY DEF RowMajor
  <2> HIDE DEF d
  <2>3. RowMajor(e, d) = x * s3 * s2 + y * s3 + (z + o)
    BY <1>2, <1>4, <1>c, <2>2
  <2>4. p = x * s3 * s2 + y * s3 + z
    BY <1>1, <1>2, <1>4, <1>c
  <2>5. x * s3 * s2 \in Int /\ y * s3 \in Int
    OBVIOUS
  <2> QED BY <2>1, <2>3, <2>4, <2>5
<1>10. p + o \in 0 .. Product(e) - 1
  <2> HIDE DEF d
  <2> QED BY <1>3, <1>9, RowMajorIn
<1>11. \A a \in Axes : Coord(e, p + o)[a] = d[a]
  <2>1. IsIn(e, Coord(e, p + o)) /\ RowMajor(e, Coord(e, p + o)) = p + o
    BY <1>3, <1>10, CoordIn
  <2> HIDE DEF d
  <2>2. PICK f : f = Coord(e, p + o)
    OBVIOUS
  <2>3. RowMajor(e, f) = RowMajor(e, d) /\ IsIn(e, f)
    BY <1>9, <2>1, <2>2
  <2>4. \A a \in Axes : f[a] = d[a]
    BY <1>3, <1>9, <2>3, RowMajorUnique
  <2> QED BY <2>2, <2>4
<1>12. Coord(e, p + o)[1] = x /\ Coord(e, p + o)[2] = y /\ Coord(e, p + o)[3] = z + o
  BY <1>0, <1>4, <1>11, <1>c
<1> HIDE DEF d
<1>13. /\ \A f : \A a \in Axes : TileOf(j, f)[a] = f[a] \div b /\ Inside(j, f)[a] = f[a] % b
  BY <1>2 DEF TileOf, Inside
<1>14. \A a \in Axes : TileOf(j, Coord(e, p + o))[a] = TileOf(j, c)[a]
  <2>1. /\ TileOf(j, Coord(e, p + o))[1] = TileOf(j, c)[1]
        /\ TileOf(j, Coord(e, p + o))[2] = TileOf(j, c)[2]
        /\ TileOf(j, Coord(e, p + o))[3] = TileOf(j, c)[3]
    <3>1. /\ TileOf(j, Coord(e, p + o))[3] = (z + o) \div b /\ TileOf(j, c)[3] = z \div b
      BY <1>0, <1>4, <1>12, <1>13
    <3>2. /\ TileOf(j, Coord(e, p + o))[1] = TileOf(j, c)[1]
          /\ TileOf(j, Coord(e, p + o))[2] = TileOf(j, c)[2]
      BY <1>0, <1>4, <1>12, <1>13
    <3> QED BY <1>6, <1>8, <3>1, <3>2
  <2> QED BY <1>0, <2>1
<1>15. /\ Inside(j, c)[3] = 0
       /\ Inside(j, Coord(e, p + o))[1] = Inside(j, c)[1]
       /\ Inside(j, Coord(e, p + o))[2] = Inside(j, c)[2]
       /\ Inside(j, Coord(e, p + o))[3] = o
  BY <1>0, <1>4, <1>5, <1>8, <1>12, <1>13
<1> QED BY <1>3, <1>10, <1>14, <1>15 DEF e, c

\* What encode_full_simd leaves out is nothing for such registers.
LEMMA RegisterOffset ==
    ASSUME NEW j, IsJob(j), AllWhole(j), NEW p \in Cells(j.shape), p % j.ts = 0, NEW o \in 0 .. j.ts - 1
    PROVE  /\ p + o \in Cells(j.shape) /\ Offset(j, p) \in Nat
           /\ Offset(j, p + o) = Offset(j, p) + o
           /\ RasterSimdOffset(j, Coord(j.shape, p)) = Offset(j, p)
<1> DEFINE c == Coord(j.shape, p)
           d == Coord(j.shape, p + o)
           base == Linear(FullTilesPerDim(j), TileOf(j, c)) * Product(Full(j))
<1>0. 1 \in Axes /\ 2 \in Axes /\ 3 \in Axes
  BY DEF Axes
<1>1. /\ p + o \in Cells(j.shape)
      /\ \A a \in Axes : TileOf(j, d)[a] = TileOf(j, c)[a]
      /\ Inside(j, c)[3] = 0
      /\ Inside(j, d)[1] = Inside(j, c)[1] /\ Inside(j, d)[2] = Inside(j, c)[2] /\ Inside(j, d)[3] = o
  BY <1>0, RegisterTile DEF AllWhole
<1>2. Offset(j, p) = base + RowMajor(Full(j), Inside(j, c))
  BY WholeOffset
<1>3. Offset(j, p + o) = Linear(FullTilesPerDim(j), TileOf(j, d)) * Product(Full(j)) + RowMajor(Full(j), Inside(j, d))
  BY <1>1, WholeOffset
<1>4. RasterSimdOffset(j, c) = base + RowMajor(Full(j), <<Inside(j, c)[1], Inside(j, c)[2], 0>>)
  BY DEF RasterSimdOffset
<1>5. Offset(j, p) \in Nat
  <2>1. Offset(j, p) \in Cells(j.shape) /\ Product(j.shape) \in Nat
    BY OffsetIn, FewerTiles
  <2> QED BY <2>1 DEF Cells
<1>6. IsIn(j.shape, c)
  BY CellIn
<1> HIDE DEF c, d
<1>7. Linear(FullTilesPerDim(j), TileOf(j, d)) = Linear(FullTilesPerDim(j), TileOf(j, c))
  BY <1>0, <1>1 DEF Linear
<1>8. PICK b \in Nat \ {0}, x \in Nat, y \in Nat : b = j.ts /\ x = Inside(j, c)[1] /\ y = Inside(j, c)[2]
  <2>1. \A a \in Axes : Inside(j, c)[a] \in 0 .. j.ts - 1
    BY <1>6, InTile
  <2> QED BY <1>0, <2>1 DEF IsJob
<1>9. /\ Full(j)[2] = b /\ Full(j)[3] = b
  BY <1>8 DEF Full
<1>10. /\ RowMajor(Full(j), Inside(j, c)) = x * b * b + y * b + 0
       /\ RowMajor(Full(j), Inside(j, d)) = x * b * b + y * b + o
       /\ RowMajor(Full(j), <<Inside(j, c)[1], Inside(j, c)[2], 0>>) = x * b * b + y * b + 0
  BY <1>1, <1>8, <1>9 DEF RowMajor
<1>11. PICK g \in Nat : g = x * b * b + y * b
  OBVIOUS
<1>12. /\ RowMajor(Full(j), Inside(j, c)) = g
       /\ RowMajor(Full(j), Inside(j, d)) = g + o
       /\ RowMajor(Full(j), <<Inside(j, c)[1], Inside(j, c)[2], 0>>) = g
  BY <1>10, <1>11
<1>13. base \in Int
  <2>1. Linear(FullTilesPerDim(j), TileOf(j, c)) \in Int
    <3>1. IsTile(j, TileOf(j, c)) /\ IsExtent(TilesPerDim(j))
      BY <1>6, InTile, TilesExtent
    <3>2. Linear(FullTilesPerDim(j), TileOf(j, c)) = Linear(TilesPerDim(j), TileOf(j, c))
      BY <3>1, WholeTiles
    <3>3. Linear(TilesPerDim(j), TileOf(j, c)) \in Tiles(j) /\ Product(TilesPerDim(j)) \in Nat
      BY <3>1, TileOfNumber, FewerTiles
    <3> QED BY <3>2, <3>3 DEF Tiles
  <2>2. Product(Full(j)) \in Int
    BY DEF Product, Full, IsJob
  <2>3. PICK g1 \in Int, h1 \in Int : g1 = Linear(FullTilesPerDim(j), TileOf(j, c)) /\ h1 = Product(Full(j))
    BY <2>1, <2>2
  <2> QED BY <2>3
<1> HIDE DEF base
<1>14. Offset(j, p) = base + g
  BY <1>2, <1>12
<1>15. Offset(j, p + o) = base + (g + o)
  BY <1>3, <1>7, <1>12 DEF base
<1> QED BY <1>1, <1>4, <1>5, <1>11, <1>12, <1>13, <1>14, <1>15 DEF c

-----------------------------------------------------------------------------
(* The search for free tiles *)

\* tile_shuffle with incomplete tiles.
Cutting == IsPath("tile_shuffle", "remainder")

K == Sorted(job)
Slots == 0 .. K - 1

Placed == {i \in Slots : map[i] # Junk}

\* The loops before the search, the search, and what comes after it.
Early == {"collect"}
Late == {"store", "header", "decode", "done"}

TypeInv ==
    /\ job \in Jobs
    /\ metric \in [Slots -> Levels]
    /\ phase \in Early \cup {"rank"} \cup Late
    /\ DOMAIN map = Slots /\ DOMAIN mid = Cells(job.shape)
    /\ phase = "rank" => todo \subseteq Slots
    /\ phase = "store" => todo \subseteq Slots
    /\ DOMAIN held = Threads

\* Every tile of the sorted metric is still to be searched for, searched for by
\* one thread, or found.
SearchInv ==
    /\ phase = "collect" => Placed = {}
    /\ phase # "rank" => \A t \in Threads : held[t] = Idle
    /\ phase = "rank" =>
         /\ todo \cap Placed = {}
         /\ \A i \in Slots : i \in todo \cup Placed \/ \E t \in Threads : held[t] # Idle /\ held[t][1] = i
         /\ \A t \in Threads : held[t] # Idle =>
              /\ held[t][1] \in Slots \ (todo \cup Placed)
              /\ held[t] = <<held[t][1], FindFirst(metric, held[t][1])>>
              /\ \A u \in Threads : held[u] # Idle /\ held[u][1] = held[t][1] => u = t
    /\ phase \in Late => Placed = Slots

FoundInv ==
    /\ Parked(metric, K, Placed, map)
    /\ taken = {map[i] : i \in Placed}

ReorderInv == Cutting => TypeInv /\ SearchInv /\ FoundInv /\ ~stray

\* What a step leaves as it is.
LEMMA CuttingStays == ASSUME job' = job  PROVE Cutting' = Cutting
  BY DEF Cutting, IsPath

LEMMA CuttingIs ==
    ASSUME ReorderAssumption, Cutting, job \in Jobs
    PROVE  /\ job \in TileJobs /\ job.scheme = "tile_shuffle" /\ Path(job) = "remainder"
           /\ K \in Nat \ {0} /\ Slots = Tiles(job)
           /\ Units(job, "rank") = Slots /\ Units(job, "store") = Slots
<1>1. job \in TileJobs /\ job.scheme = "tile_shuffle" /\ Path(job) = "remainder"
  BY DEF Cutting, IsPath, TileJobs
<1>2. Product(TilesPerDim(job)) \in Nat \ {0}
  BY <1>1, TileNumbers DEF ReorderAssumption, IsJob
<1>3. K = Cardinality(Tiles(job))
  BY <1>1 DEF K, Sorted
<1>4. Cardinality(Tiles(job)) = Product(TilesPerDim(job))
  <2> DEFINE p == Product(TilesPerDim(job))
  <2>1. Tiles(job) = 0 .. p - 1
    BY DEF Tiles
  <2> HIDE DEF p
  <2>2. 0 \in Int /\ p - 1 \in Int /\ 0 <= p - 1
    BY <1>2 DEF p
  <2>3. Cardinality(0 .. p - 1) = (p - 1) - 0 + 1
    BY <2>2, FS_Interval
  <2>4. Cardinality(Tiles(job)) = p
    BY <1>2, <2>1, <2>3 DEF p
  <2> QED BY <2>4 DEF p
<1>5. Slots = Tiles(job)
  BY <1>3, <1>4 DEF Slots, Tiles
<1>6. Units(job, "rank") = Slots /\ Units(job, "store") = Slots
  BY <1>1 DEF Units, Shuffles, Slots, K
<1> QED BY <1>1, <1>2, <1>3, <1>4, <1>5, <1>6

\* The end of a loop, and a step that neither searches nor stores.
Quiet ==
    /\ UNCHANGED <<job, metric, held, map, taken>> /\ ~stray' /\ DOMAIN mid' = DOMAIN mid
    /\ \/ phase = "collect" /\ phase' = "collect"
       \/ phase = "collect" /\ phase' = "rank" /\ todo' = Slots
       \/ /\ phase = "rank" /\ todo = {} /\ \A t \in Threads : held[t] = Idle
          /\ phase' = "store" /\ todo' \subseteq Slots
       \/ phase = "store" /\ phase' = "store" /\ todo' \subseteq Slots
       \/ phase \in Late /\ phase' \in Late \ {"store"}

LEMMA QuietKeeps ==
    ASSUME ReorderInv, Cutting, Quiet
    PROVE  ReorderInv'
<1>1. /\ job' = job /\ metric' = metric /\ held' = held /\ map' = map /\ taken' = taken
      /\ K' = K /\ Slots' = Slots /\ Placed' = Placed
  BY DEF Quiet, K, Slots, Placed
<1>2. TypeInv'
  BY <1>1 DEF Quiet, ReorderInv, TypeInv, Early, Late
<1>3. FoundInv'
  BY <1>1 DEF ReorderInv, FoundInv
<1>4. SearchInv'
  <2>1. CASE phase = "collect" /\ phase' = "collect"
    BY <1>1, <2>1 DEF ReorderInv, SearchInv, Late
  <2>2. CASE phase = "collect" /\ phase' = "rank" /\ todo' = Slots
    BY <1>1, <2>2 DEF ReorderInv, SearchInv, Late, Placed
  <2>3. CASE /\ phase = "rank" /\ todo = {} /\ \A t \in Threads : held[t] = Idle
             /\ phase' = "store"
    <3>1. Placed = Slots
      BY <2>3 DEF ReorderInv, SearchInv, Placed
    <3> QED BY <1>1, <2>3, <3>1 DEF SearchInv
  <2>4. CASE phase \in Late /\ phase' \in Late
    BY <1>1, <2>4 DEF ReorderInv, SearchInv, Late
  <2> QED BY <2>1, <2>2, <2>3, <2>4 DEF Quiet, Late
<1> QED BY <1>2, <1>3, <1>4 DEF Quiet, ReorderInv

LEMMA CallerKeeps ==
    ASSUME ReorderAssumption, ReorderInv, Cutting, Caller
    PROVE  ReorderInv'
<1>1. job \in Jobs /\ ~stray /\ phase \in Early \cup {"rank"} \cup Late
  BY DEF ReorderInv, TypeInv
<1>2. Units(job, "rank") = Slots /\ Units(job, "store") = Slots
  BY <1>1, CuttingIs
<1>3. CASE CollectEnds
  BY <1>1, <1>2, <1>3, QuietKeeps DEF CollectEnds, LoopEnds, Enter, rank, Quiet
<1>4. CASE RankEnds
  <2>1. /\ phase = "rank" /\ todo = {} /\ \A t \in Threads : held[t] = Idle
        /\ phase' = "store" /\ todo' = Slots /\ mid' = mid
    BY <1>2, <1>4 DEF RankEnds, LoopEnds, Enter, Cutting
  <2> QED BY <1>1, <1>4, <2>1, QuietKeeps DEF RankEnds, rank, Quiet
<1>5. CASE StoreEnds
  BY <1>1, <1>5, QuietKeeps DEF StoreEnds, LoopEnds, work, rank, Quiet, Late
<1>6. CASE ReadHeader
  BY <1>1, <1>6, QuietKeeps DEF ReadHeader, Enter, rank, Quiet, Late
<1>7. CASE HeaderUnreadable
  BY <1>1, <1>7, QuietKeeps DEF HeaderUnreadable, work, rank, Quiet, Late
<1>8. CASE DecodeEnds
  BY <1>1, <1>8, QuietKeeps DEF DecodeEnds, LoopEnds, work, rank, Quiet, Late
<1> QED BY <1>3, <1>4, <1>5, <1>6, <1>7, <1>8 DEF Caller

LEMMA FindKeeps ==
    ASSUME ReorderAssumption, ReorderInv, Cutting, NEW t \in Threads, NEW i \in todo, FindTile(t, i)
    PROVE  ReorderInv'
<1>1. /\ job' = job /\ metric' = metric /\ map' = map /\ taken' = taken /\ stray' = stray
      /\ mid' = mid /\ phase = "rank" /\ phase' = "rank"
      /\ K' = K /\ Slots' = Slots /\ Placed' = Placed
      /\ held[t] = Idle /\ todo' = todo \ {i}
      /\ held' = [held EXCEPT ![t] = <<i, FindFirst(metric, i)>>]
  BY DEF FindTile, Turn, rank, K, Slots, Placed
<1>2. i \in Slots /\ i \notin Placed /\ DOMAIN held = Threads
  BY <1>1 DEF ReorderInv, TypeInv, SearchInv
<1>3. TypeInv'
  BY <1>1 DEF ReorderInv, TypeInv, Late, Threads
<1>4. FoundInv'
  BY <1>1 DEF ReorderInv, FoundInv
<1>5. /\ held'[t] = <<i, FindFirst(metric, i)>> /\ held'[t] # Idle
      /\ \A u \in Threads : u # t => held'[u] = held[u]
  BY <1>1, <1>2 DEF Idle
<1>6. SearchInv'
  <2>1. todo' \cap Placed' = {}
    BY <1>1 DEF ReorderInv, SearchInv
  <2>2. ASSUME NEW k \in Slots
        PROVE  k \in todo' \cup Placed' \/ \E u \in Threads : held'[u] # Idle /\ held'[u][1] = k
    <3>1. CASE k = i
      <4>1. held'[t] # Idle /\ held'[t][1] = i
        BY <1>5
      <4> QED BY <3>1, <4>1
    <3>2. CASE k # i /\ k \in todo \cup Placed
      BY <1>1, <3>2
    <3>3. CASE \E u \in Threads : held[u] # Idle /\ held[u][1] = k
      <4>1. PICK u \in Threads : held[u] # Idle /\ held[u][1] = k
        BY <3>3
      <4>2. held'[u] = held[u]
        BY <1>1, <1>5, <4>1
      <4> QED BY <4>1, <4>2
    <3> QED BY <1>1, <3>1, <3>2, <3>3 DEF ReorderInv, SearchInv
  <2>3. ASSUME NEW u \in Threads, held'[u] # Idle
        PROVE  /\ held'[u][1] \in Slots' \ (todo' \cup Placed')
               /\ held'[u] = <<held'[u][1], FindFirst(metric, held'[u][1])>>
               /\ \A v \in Threads : held'[v] # Idle /\ held'[v][1] = held'[u][1] => v = u
    <3>1. CASE u = t
      <4>1. ASSUME NEW v \in Threads, v # t, held'[v] # Idle  PROVE held'[v][1] # i
        BY <1>1, <1>5, <4>1 DEF ReorderInv, SearchInv
      <4> QED BY <1>1, <1>2, <1>5, <3>1, <4>1
    <3>2. CASE u # t
      <4>1. held'[u] = held[u] /\ held[u][1] \in Slots \ (todo \cup Placed)
        BY <1>1, <1>5, <2>3, <3>2 DEF ReorderInv, SearchInv
      <4>2. held[u] = <<held[u][1], FindFirst(metric, held[u][1])>>
        BY <1>1, <1>5, <2>3, <3>2 DEF ReorderInv, SearchInv
      <4>3. ASSUME NEW v \in Threads, held'[v] # Idle, held'[v][1] = held'[u][1]  PROVE v = u
        <5>1. v # t
          BY <1>5, <4>1, <4>3
        <5> QED BY <1>1, <1>5, <2>3, <3>2, <4>3, <5>1 DEF ReorderInv, SearchInv
      <4> QED BY <1>1, <4>1, <4>2, <4>3
    <3> QED BY <3>1, <3>2
  <2> QED BY <1>1, <2>1, <2>2, <2>3 DEF SearchInv, Late, Threads
<1> QED BY <1>1, <1>3, <1>4, <1>6 DEF ReorderInv

LEMMA TakeKeeps ==
    ASSUME ReorderAssumption, ReorderInv, Cutting, NEW t \in Threads, TakeTile(t)
    PROVE  ReorderInv'
<1> DEFINE i == held[t][1]
           free == {k \in Tiles(job) : k >= held[t][2] /\ k \notin taken}
           k0 == Min(free)
<1>1. /\ job' = job /\ metric' = metric /\ todo' = todo /\ mid' = mid
      /\ phase = "rank" /\ phase' = "rank" /\ held[t] # Idle
      /\ held' = [held EXCEPT ![t] = Idle] /\ K' = K /\ Slots' = Slots
  BY DEF TakeTile, K, Slots
<1>2. /\ i \in Slots \ (todo \cup Placed) /\ held[t][2] = FindFirst(metric, i)
      /\ DOMAIN held = Threads /\ DOMAIN map = Slots
  <2>1. /\ i \in Slots \ (todo \cup Placed) /\ held[t] = <<i, FindFirst(metric, i)>>
    BY <1>1 DEF ReorderInv, SearchInv
  <2>2. held[t][2] = FindFirst(metric, i)
    <3> HIDE DEF i
    <3> QED BY <2>1
  <2> QED BY <2>1, <2>2, <1>1 DEF ReorderInv, TypeInv
<1>3. /\ K \in Nat \ {0} /\ Slots = Tiles(job) /\ Slots = 0 .. K - 1 /\ IsMetric(metric, K)
  <2>1. K \in Nat \ {0} /\ Slots = Tiles(job)
    BY CuttingIs DEF ReorderInv, TypeInv
  <2>2. metric \in [0 .. K - 1 -> Nat]
    BY DEF ReorderInv, TypeInv, Slots, ReorderAssumption
  <2> QED BY <2>1, <2>2 DEF Slots, IsMetric
<1>4. free # {}
  <2>1. Parked(metric, K, Placed, map) /\ taken = {map[l] : l \in Placed}
    BY DEF ReorderInv, FoundInv
  <2>2. i \in 0 .. K - 1 /\ i \notin Placed
    BY <1>2, <1>3
  <2> HIDE DEF i
  <2>3. \E k \in 0 .. K - 1 : k >= FindFirst(metric, i) /\ ~ \E l \in Placed : map[l] = k
    BY <1>3, <2>1, <2>2, OneIsFree
  <2> QED BY <1>2, <1>3, <2>1, <2>3
<1>5. /\ k0 \in Slots /\ k0 >= FindFirst(metric, i) /\ k0 \notin taken
      /\ \A k \in Slots : k >= FindFirst(metric, i) /\ k < k0 => k \in taken
  <2>1. free \subseteq Nat
    BY <1>3
  <2>2. \A k : k \in free <=> k \in Slots /\ k >= FindFirst(metric, i) /\ k \notin taken
    BY <1>2, <1>3
  <2> HIDE DEF free, i
  <2>3. \E x \in free : \A y \in free : x <= y
    BY <1>4, <2>1, NatMin
  <2>4. k0 \in free /\ \A y \in free : k0 <= y
    BY <2>3, Zenon DEF Min
  <2> QED BY <1>3, <2>2, <2>4
<1>6. /\ ~stray' /\ map' = [map EXCEPT ![i] = k0] /\ taken' = taken \cup {k0}
  <2> HIDE DEF free
  <2>1. /\ stray' = (stray \/ free = {})
        /\ map' = [map EXCEPT ![i] = IF free = {} THEN Junk ELSE k0]
        /\ taken' = IF free = {} THEN taken ELSE taken \cup {k0}
    BY Zenon DEF TakeTile, free
  <2>2. ~stray
    BY DEF ReorderInv
  <2> QED BY <1>4, <2>1, <2>2
<1>7. FindFirst(metric, i) \in 0 .. K - 1
  <2> HIDE DEF i
  <2> QED BY <1>2, <1>3, FindsFirst
<1> HIDE DEF i, free, k0
<1>8. map'[i] = k0 /\ \A l \in Slots : l # i => map'[l] = map[l]
  BY <1>2, <1>6
<1>9. Placed' = Placed \cup {i}
  BY <1>1, <1>2, <1>3, <1>5, <1>8 DEF Placed, Junk
<1>10. TypeInv'
  BY <1>1, <1>2, <1>6 DEF ReorderInv, TypeInv, Late, Threads
<1>11. SearchInv'
  <2>1. /\ held'[t] = Idle /\ \A u \in Threads : u # t => held'[u] = held[u]
    BY <1>1, <1>2
  <2>2. todo' \cap Placed' = {}
    BY <1>1, <1>2, <1>9 DEF ReorderInv, SearchInv
  <2>3. ASSUME NEW k \in Slots
        PROVE  k \in todo' \cup Placed' \/ \E u \in Threads : held'[u] # Idle /\ held'[u][1] = k
    <3>1. CASE k \in todo \cup Placed \/ k = i
      BY <1>1, <1>9, <3>1
    <3>2. CASE k # i /\ \E u \in Threads : held[u] # Idle /\ held[u][1] = k
      BY <2>1, <3>2 DEF i
    <3> QED BY <1>1, <3>1, <3>2 DEF ReorderInv, SearchInv
  <2>4. ASSUME NEW u \in Threads, held'[u] # Idle
        PROVE  /\ held'[u][1] \in Slots' \ (todo' \cup Placed')
               /\ held'[u] = <<held'[u][1], FindFirst(metric, held'[u][1])>>
               /\ \A v \in Threads : held'[v] # Idle /\ held'[v][1] = held'[u][1] => v = u
    <3>1. u # t /\ held'[u] = held[u]
      BY <2>1, <2>4
    <3>2. /\ held[u][1] \in Slots \ (todo \cup Placed)
          /\ held[u] = <<held[u][1], FindFirst(metric, held[u][1])>>
          /\ held[u][1] # i
      BY <1>1, <2>4, <3>1 DEF ReorderInv, SearchInv, i
    <3>3. ASSUME NEW v \in Threads, held'[v] # Idle, held'[v][1] = held'[u][1]  PROVE v = u
      <4>1. v # t /\ held'[v] = held[v]
        BY <2>1, <3>3
      <4> QED BY <1>1, <2>4, <3>1, <3>3, <4>1 DEF ReorderInv, SearchInv
    <3> QED BY <1>1, <1>9, <3>1, <3>2, <3>3
  <2> QED BY <1>1, <2>2, <2>3, <2>4 DEF SearchInv, Late, Threads
<1>12. FoundInv'
  <2>1. taken' = {map'[l] : l \in Placed'}
    <3>1. taken = {map[l] : l \in Placed}
      BY DEF ReorderInv, FoundInv
    <3>2. \A l \in Placed : map'[l] = map[l]
      BY <1>2, <1>8 DEF Placed
    <3> QED BY <1>6, <1>8, <1>9, <3>1, <3>2
  <2>2. /\ Placed \subseteq 0 .. K - 1
        /\ \A l \in Placed : /\ map[l] \in 0 .. K - 1 /\ FindFirst(metric, l) <= map[l]
                             /\ \A k \in FindFirst(metric, l) .. map[l] - 1 : k \in taken
        /\ \A k, l \in Placed : map[k] = map[l] => k = l
        /\ \A l \in Placed : map[l] \in taken
    BY Zenon DEF ReorderInv, FoundInv, Parked
  <2>3. \A l \in Placed : map'[l] = map[l] /\ l # i
    BY <1>2, <1>8 DEF Placed
  <2>4. \A l \in Placed' : /\ map'[l] \in 0 .. K - 1 /\ FindFirst(metric, l) <= map'[l]
                           /\ \A k \in FindFirst(metric, l) .. map'[l] - 1 : k \in taken'
    <3>1. ASSUME NEW k \in FindFirst(metric, i) .. k0 - 1  PROVE k \in taken
      BY <1>3, <1>5, <1>7
    <3> SUFFICES ASSUME NEW l \in Placed'
                 PROVE  /\ map'[l] \in 0 .. K - 1 /\ FindFirst(metric, l) <= map'[l]
                        /\ \A k \in FindFirst(metric, l) .. map'[l] - 1 : k \in taken'
      OBVIOUS
    <3>2. CASE l = i
      BY <1>3, <1>5, <1>6, <1>7, <1>8, <3>1, <3>2
    <3>3. CASE l # i
      BY <1>6, <1>9, <2>2, <2>3, <3>3
    <3> QED BY <3>2, <3>3
  <2>5. \A k, l \in Placed' : map'[k] = map'[l] => k = l
    BY <1>5, <1>8, <1>9, <2>2, <2>3
  <2>6. Placed' \subseteq 0 .. K - 1
    BY <1>2, <1>3, <1>9, <2>2
  <2>7. Parked(metric, K, Placed', map')
    BY <2>1, <2>4, <2>5, <2>6, Zenon DEF Parked
  <2> QED BY <1>1, <2>1, <2>7 DEF FoundInv
<1>13. ~stray'
  BY <1>6 DEF ReorderInv
<1> QED BY <1>10, <1>11, <1>12, <1>13 DEF ReorderInv

LEMMA StoreKeeps ==
    ASSUME ReorderAssumption, ReorderInv, Cutting, NEW t \in Threads, NEW i \in todo, StoreTile(t, i)
    PROVE  ReorderInv'
<1> DEFINE k == map[i]
           from == 0 .. SizeOf[job][k] - 1
           begin == Before(job, map, i)
<1>1. /\ job' = job /\ metric' = metric /\ held' = held /\ map' = map /\ taken' = taken
      /\ phase = "store" /\ phase' = "store" /\ todo' \subseteq todo /\ i \in todo
  BY DEF StoreTile, rank
<1>2. /\ K \in Nat /\ job \in TileJobs /\ Slots = Tiles(job) /\ todo \subseteq Slots
      /\ DOMAIN map = 0 .. K - 1 /\ DOMAIN mid = 0 .. N(job) - 1
  BY <1>1, CuttingIs DEF ReorderInv, TypeInv, Slots, Cells, N
<1>3. /\ \A l \in 0 .. K - 1 : map[l] \in Tiles(job)
      /\ \A l, m \in 0 .. K - 1 : map[l] = map[m] => l = m
  <2>1. Placed = 0 .. K - 1
    BY <1>1 DEF ReorderInv, SearchInv, Late, Slots
  <2> QED BY <1>2, <2>1, Zenon DEF ReorderInv, FoundInv, Parked, Slots
<1>4. /\ begin \in Nat /\ SizeOf[job][k] \in Nat
      /\ N(job) \in Nat /\ begin + SizeOf[job][k] <= N(job)
  <2>1. i \in 0 .. K - 1
    BY <1>1, <1>2 DEF Slots
  <2> QED BY <1>2, <1>3, <2>1, RoomForTile
<1>5. /\ DOMAIN mid' = DOMAIN mid
      /\ stray' = (stray \/ Outside(mid, from, begin))
  <2>1. mid' = Copy(mid, from, begin, tiles[k]) /\ stray' = (stray \/ Outside(mid, from, begin))
    BY Zenon DEF StoreTile
  <2> QED BY <2>1 DEF Copy
<1> HIDE DEF begin, k
<1>6. ~Outside(mid, from, begin)
  BY <1>2, <1>4 DEF Outside
<1>7. ~stray'
  BY <1>5, <1>6 DEF ReorderInv
<1>8. Quiet
  BY <1>1, <1>2, <1>5, <1>7 DEF Quiet
<1> QED BY <1>8, QuietKeeps

LEMMA ThreadKeeps ==
    ASSUME ReorderAssumption, ReorderInv, Cutting, NEW t \in Threads, Thread(t)
    PROVE  ReorderInv'
<1>1. /\ job.scheme = "tile_shuffle" /\ Path(job) = "remainder" /\ ~stray
      /\ phase \in Early \cup {"rank"} \cup Late
      /\ phase = "store" => held[t] = Idle
  BY CuttingIs DEF ReorderInv, TypeInv, SearchInv
<1>2. CASE TakeTile(t)
  BY <1>2, TakeKeeps
<1>3. CASE Shoot(t)
  BY <1>1, <1>3 DEF Shoot
<1>4. ASSUME NEW u \in todo, Collect(t, u)  PROVE ReorderInv'
  BY <1>1, <1>4, QuietKeeps DEF Collect, rank, Quiet
<1>5. ASSUME NEW u \in todo, DecodeTiles(t, u)  PROVE ReorderInv'
  BY <1>1, <1>5, QuietKeeps DEF DecodeTiles, rank, Quiet, Late
<1>6. ASSUME NEW u \in todo,
             \/ CollectFull(t, u) \/ CollectCut(t, u)
             \/ RankFull(t, u) \/ RankRest(t, u) \/ RankTile(t, u) \/ FindTile(t, u)
             \/ RasterFull(t, u) \/ RasterRest(t, u) \/ Aim(t, u)
             \/ ZcurveFull(t, u) \/ ZcurveRest(t, u) \/ StoreTile(t, u)
             \/ DecodeRow(t, u) \/ DecodeFrame(t, u) \/ DecodeChunk(t, u) \/ DecodeTiles(t, u)
      PROVE  ReorderInv'
  <2>1. Collect(t, u) \/ FindTile(t, u) \/ StoreTile(t, u) \/ DecodeTiles(t, u)
    BY <1>1, <1>6 DEF CollectFull, CollectCut, RankFull, RankRest, RankTile, RasterFull, RasterRest,
       Aim, ZcurveFull, ZcurveRest, DecodeRow, DecodeFrame, DecodeChunk, IsPath
  <2> QED BY <1>4, <1>5, <2>1, FindKeeps, StoreKeeps
<1> QED BY <1>2, <1>3, <1>6 DEF Thread

\* No step changes the job or the metric of its tiles.
LEMMA SameJob ==
    ASSUME [Next]_vars
    PROVE  job' = job /\ metric' = metric
<1>1. CASE UNCHANGED vars \/ Finished
  BY <1>1 DEF vars, Finished
<1>2. CASE Caller
  BY <1>2 DEF Caller, CollectEnds, RankEnds, StoreEnds, ReadHeader, HeaderUnreadable, DecodeEnds
<1>3. ASSUME NEW t \in Threads, Thread(t)  PROVE job' = job /\ metric' = metric
  <2>1. CASE TakeTile(t) \/ Shoot(t)
    BY <2>1 DEF TakeTile, Shoot
  <2>2. ASSUME NEW u \in todo,
               \/ Collect(t, u) \/ RankFull(t, u) \/ RankRest(t, u) \/ RankTile(t, u) \/ FindTile(t, u)
               \/ Aim(t, u) \/ StoreTile(t, u)
        PROVE  job' = job /\ metric' = metric
    BY <2>2 DEF Collect, RankFull, RankRest, RankTile, Rank, FindTile, Aim, StoreTile
  <2>3. ASSUME NEW u \in todo,
               \/ RasterFull(t, u) \/ RasterRest(t, u) \/ ZcurveFull(t, u) \/ ZcurveRest(t, u)
               \/ DecodeRow(t, u) \/ DecodeFrame(t, u) \/ DecodeChunk(t, u) \/ DecodeTiles(t, u)
        PROVE  job' = job /\ metric' = metric
    BY <2>3 DEF RasterFull, RasterRest, ZcurveFull, ZcurveRest, StoreFrame, DecodeRow, DecodeFrame,
       DecodeChunk, DecodeTiles
  <2> QED BY <1>3, <2>1, <2>2, <2>3 DEF Thread, CollectFull, CollectCut
<1> QED BY <1>1, <1>2, <1>3 DEF Next

LEMMA NextKeeps ==
    ASSUME ReorderAssumption, ReorderInv, [Next]_vars
    PROVE  ReorderInv'
<1>1. job' = job
  BY SameJob
<1>2. SUFFICES ASSUME Cutting  PROVE ReorderInv'
  BY <1>1, CuttingStays DEF ReorderInv
<1>3. CASE UNCHANGED vars
  <2>1. /\ job' = job /\ metric' = metric /\ phase' = phase /\ todo' = todo /\ held' = held
        /\ map' = map /\ taken' = taken /\ mid' = mid /\ stray' = stray
    BY <1>3 DEF vars, work, rank
  <2>2. K' = K /\ Slots' = Slots /\ Placed' = Placed
    BY <2>1 DEF K, Slots, Placed
  <2>3. TypeInv'
    BY <1>2, <2>1, <2>2 DEF ReorderInv, TypeInv, Threads
  <2>4. SearchInv'
    BY <1>2, <2>1, <2>2 DEF ReorderInv, SearchInv, Threads
  <2>5. FoundInv'
    BY <1>2, <2>1, <2>2 DEF ReorderInv, FoundInv
  <2> QED BY <1>2, <2>1, <2>3, <2>4, <2>5 DEF ReorderInv
<1>4. CASE Next
  BY <1>2, <1>3, <1>4, ThreadKeeps, CallerKeeps DEF Next, Finished
<1> QED BY <1>3, <1>4

LEMMA InitIs ==
    ASSUME ReorderAssumption, Init
    PROVE  ReorderInv
<1> SUFFICES ASSUME Cutting  PROVE TypeInv /\ SearchInv /\ FoundInv /\ ~stray
  BY DEF ReorderInv
<1>1. /\ job \in Jobs /\ metric \in [Slots -> Levels] /\ phase = FirstPhase(job)
      /\ map = [i \in Slots |-> Junk] /\ taken = {} /\ held = [t \in Threads |-> Idle]
      /\ mid = [o \in Cells(job.shape) |-> Junk] /\ ~stray
  BY DEF Init, Slots, K
<1>2. phase = "collect"
  BY <1>1, CuttingIs DEF FirstPhase
<1>3. Placed = {}
  BY <1>1 DEF Placed
<1>4. TypeInv /\ SearchInv
  BY <1>1, <1>2, <1>3 DEF TypeInv, SearchInv, Early, Late
<1>5. FoundInv
  BY <1>1, <1>3 DEF FoundInv, Parked
<1> QED BY <1>1, <1>4, <1>5

\* However equal the metrics of the tiles, however many threads search for free
\* tiles in whatever interleaving: a search ends inside the vector of tiles, every
\* tile is stored once, and what is stored fits into the encoded volume.
THEOREM EveryTileOnce == Spec => []TilesTakenOnce
<1>1. Init => ReorderInv
  BY ReorderAssumption, InitIs
<1>2. ReorderInv /\ [Next]_vars => ReorderInv'
  BY ReorderAssumption, NextKeeps
<1>3. ReorderInv => TilesTakenOnce
  <2> SUFFICES ASSUME ReorderInv, Cutting  PROVE /\ ~stray
                                          /\ \A i, k \in DOMAIN map : map[i] = map[k] /\ map[i] # Junk => i = k
    BY DEF TilesTakenOnce, Cutting
  <2>1. DOMAIN map = Slots /\ ~stray
    BY DEF ReorderInv, TypeInv
  <2>2. \A i, k \in Placed : map[i] = map[k] => i = k
    BY Zenon DEF ReorderInv, FoundInv, Parked
  <2> QED BY <2>1, <2>2 DEF Placed
<1> QED BY <1>1, <1>2, <1>3, PTL DEF Spec

-----------------------------------------------------------------------------
(* raster_reorder and zcurve_reorder: every cell at its offset, and back *)

-----------------------------------------------------------------------------
(* The volumes that the filters handle *)

Good == Handled(job, metric)
Resting == \A t \in Threads : held[t] = Idle
CameBack == \A p \in Cells(job.shape) : out[p] = p
Ended == phase = "done" => result = "success" /\ CameBack

Shapes ==
    /\ job \in Jobs /\ metric \in [Slots -> Levels]
    /\ DOMAIN held = Threads /\ DOMAIN map = Slots
    /\ DOMAIN mid = Cells(job.shape) /\ DOMAIN out = Cells(job.shape)

\* raster_reorder and zcurve_reorder.
Boxed == Good /\ ~Shuffles(job)
Simd == job.scheme = "raster_reorder" /\ Path(job) = "simd"

Saved(p) == mid[Offset(job, p)] = p
AllSaved == \A p \in Cells(job.shape) : Saved(p)

\* Frames that are stored have their cells where the decoder looks for them ...
FramesSaved == Resting /\ \A z \in Units(job, "store") \ todo : \A p \in Frame(z) : Saved(p)

\* ... and registers, but for the one that the only thread holds.
RegistersSaved ==
    /\ \A t \in Threads : held[t] # Idle =>
         /\ t = 0 /\ held[t][1] \in Registers(job) \ todo
         /\ held[t][2] = Offset(job, held[t][1]) /\ dst = held[t][2]
    /\ \A p \in Registers(job) \ todo :
         (\A t \in Threads : held[t] # Idle => held[t][1] # p) =>
           \A o \in 0 .. job.block - 1 : Saved(p + o)

Part(u) == IF job.scheme = "raster_reorder" THEN Slice(job.shape[3], u) ELSE Frame(u)

BoxStore ==
    phase = "store" => /\ todo \subseteq Units(job, "store") /\ count = 0
                       /\ IF Simd THEN RegistersSaved ELSE FramesSaved
BoxLater == phase # "store" => Resting /\ AllSaved
BoxHeader == phase = "header" => count = 0
BoxDecode ==
    phase = "decode" =>
      /\ todo \subseteq Units(job, "decode")
      /\ \A u \in Units(job, "decode") \ todo : \A p \in Part(u) : out[p] = p
      /\ job.scheme = "raster_reorder" =>
           count = job.shape[3] * (job.shape[1] * job.shape[2] - Cardinality(todo))
BoxInv ==
    Boxed => /\ Shapes /\ ~stray /\ phase \in Late
             /\ BoxStore /\ BoxLater /\ BoxHeader /\ BoxDecode /\ Ended

LEMMA JobIs == ASSUME ReorderAssumption, NEW j \in Jobs PROVE IsJob(j)
  BY DEF ReorderAssumption, IsJob

LEMMA BoxedIs ==
    ASSUME ReorderAssumption, Boxed, job \in Jobs
    PROVE  /\ IsJob(job) /\ ~Shuffles(job)
           /\ job.scheme = "raster_reorder" \/ job.scheme = "zcurve_reorder"
           /\ job.scheme = "raster_reorder" => job \in Raster /\ Straight(job)
           /\ job.scheme = "zcurve_reorder" => job \in Zcurve /\ Curved(job)
           /\ Simd => AllWhole(job) /\ job.block = job.ts /\ Team(job, "store") = 1
           /\ Simd => Units(job, "store") = Registers(job)
           /\ ~Simd => Units(job, "store") = 0 .. job.shape[1] - 1
           /\ job.scheme = "raster_reorder" => Units(job, "decode") = 0 .. job.shape[1] * job.shape[2] - 1
           /\ job.scheme = "zcurve_reorder" => Units(job, "decode") = 0 .. job.shape[1] - 1
<1>1. IsJob(job) /\ ~Shuffles(job)
  BY JobIs DEF Boxed
<1>2. job.scheme = "raster_reorder" \/ job.scheme = "zcurve_reorder"
  BY DEF ReorderAssumption, Boxed, Shuffles
<1>3. ASSUME job.scheme = "raster_reorder"
      PROVE  /\ job \in Raster /\ Straight(job)
             /\ Simd => job.block = job.ts /\ Team(job, "store") = 1
  BY <1>3 DEF Raster, Boxed, Good, Handled, Straight, AllWhole, Simd
<1>4. ASSUME job.scheme = "zcurve_reorder"
      PROVE  job \in Zcurve /\ Curved(job)
  BY <1>4 DEF Zcurve, Boxed, Good, Handled, Curved, AllWhole
<1>5. Simd => AllWhole(job)
  <2>1. Simd => RasterPath(job) = "simd"
    BY Zenon DEF Simd, Path
  <2>2. RasterPath(job) = "simd" => ~RasterRemainder(job)
    BY DEF RasterPath
  <2> QED BY <2>1, <2>2 DEF AllWhole, RasterRemainder
<1>6. Path(job) = "simd" => Simd
  BY <1>2 DEF Simd, Path, ZcurvePath
<1>7. Simd => Units(job, "store") = Registers(job)
  BY <1>1 DEF Units, Simd
<1>8. ~Simd => Units(job, "store") = 0 .. job.shape[1] - 1
  BY <1>1, <1>6 DEF Units
<1>9. job.scheme = "raster_reorder" => Units(job, "decode") = 0 .. job.shape[1] * job.shape[2] - 1
  BY <1>1 DEF Units
<1>10. job.scheme = "zcurve_reorder" => Units(job, "decode") = 0 .. job.shape[1] - 1
  BY <1>1 DEF Units
<1> QED BY <1>1, <1>2, <1>3, <1>4, <1>5, <1>7, <1>8, <1>9, <1>10 DEF Simd

\* Frames and rows are the parts of the volume.
LEMMA FrameIs ==
    ASSUME NEW z
    PROVE  Frame(z) = Slice(job.shape[2] * job.shape[3], z)
  BY DEF Frame, Slice

LEMMA PartIn ==
    ASSUME ReorderAssumption, Boxed, job \in Jobs, NEW u \in Units(job, "decode")
    PROVE  Part(u) \subseteq Cells(job.shape)
<1>1. IsJob(job)
  BY BoxedIs
<1>2. CASE job.scheme = "raster_reorder"
  BY <1>1, <1>2, BoxedIs, FramesOf, SliceIn DEF Part
<1>3. CASE job.scheme = "zcurve_reorder"
  BY <1>1, <1>3, BoxedIs, FramesOf, FrameIs, SliceIn DEF Part
<1> QED BY <1>2, <1>3, BoxedIs

LEMMA PartOf ==
    ASSUME ReorderAssumption, Boxed, job \in Jobs, NEW p \in Cells(job.shape)
    PROVE  \E u \in Units(job, "decode") : p \in Part(u)
<1>1. IsJob(job)
  BY BoxedIs
<1>2. CASE job.scheme = "raster_reorder"
  <2>1. /\ job.shape[3] \in Nat \ {0} /\ job.shape[1] * job.shape[2] \in Nat
        /\ p \in 0 .. (job.shape[1] * job.shape[2]) * job.shape[3] - 1
    BY <1>1, FramesOf
  <2>2. PICK a \in Nat, b \in Nat \ {0} : a = job.shape[1] * job.shape[2] /\ b = job.shape[3]
    BY <2>1
  <2>3. p \div b \in 0 .. a - 1 /\ p \in Slice(b, p \div b)
    BY <2>1, <2>2, SliceOf
  <2>4. PICK u \in 0 .. a - 1 : p \in Slice(b, u)
    BY <2>3
  <2> QED BY <1>2, <2>2, <2>4, BoxedIs DEF Part
<1>3. CASE job.scheme = "zcurve_reorder"
  <2>1. PICK a \in Nat, b \in Nat \ {0} : a = job.shape[1] /\ b = job.shape[2] * job.shape[3]
    BY <1>1, FramesOf
  <2>2. p \in 0 .. a * b - 1
    BY <1>1, <2>1, FramesOf
  <2>3. p \div b \in 0 .. a - 1 /\ p \in Slice(b, p \div b)
    BY <2>2, SliceOf
  <2>4. PICK u \in 0 .. a - 1 : p \in Slice(b, u)
    BY <2>3
  <2> QED BY <1>3, <2>1, <2>4, BoxedIs, FrameIs DEF Part
<1> QED BY <1>2, <1>3, BoxedIs

\* A frame that is stored.
LEMMA FrameStored ==
    ASSUME ReorderAssumption, job \in Jobs, DOMAIN mid = Cells(job.shape), ~stray,
           NEW t \in Threads, NEW z \in 0 .. job.shape[1] - 1, NEW off, StoreFrame(t, z, Frame(z), off),
           \A p \in Cells(job.shape) : off[p] = Offset(job, p)
    PROVE  /\ DOMAIN mid' = Cells(job.shape) /\ ~stray'
           /\ \A p \in Frame(z) : mid'[Offset(job, p)] = p
           /\ \A p \in Cells(job.shape) : p \notin Frame(z) => mid'[Offset(job, p)] = mid[Offset(job, p)]
<1> DEFINE F == Frame(z)
           At(o) == {p \in F : off[p] = o}
<1>1. IsJob(job)
  BY JobIs
<1>2. F \subseteq Cells(job.shape)
  BY <1>1, FramesOf, FrameIs, SliceIn
<1>3. \A p \in Cells(job.shape) : Offset(job, p) \in Cells(job.shape)
  BY <1>1, OffsetIn
<1>4. \A p, q \in Cells(job.shape) : Offset(job, p) = Offset(job, q) => p = q
  BY <1>1, OffsetUnique
<1>5. /\ mid' = [o \in DOMAIN mid |-> IF \E p \in F : off[p] = o THEN Max(At(o)) ELSE mid[o]]
      /\ stray' = (stray \/ \E p \in F : off[p] \notin DOMAIN mid)
  BY Zenon DEF StoreFrame
<1> HIDE DEF F
<1>6. ASSUME NEW p \in F PROVE mid'[Offset(job, p)] = p
  <2>1. At(Offset(job, p)) = {p}
    BY <1>2, <1>4
  <2>2. Max({p}) = p
    <3>1. p \in Int
      BY <1>2 DEF Cells
    <3> QED BY <3>1 DEF Max
  <2>3. Offset(job, p) \in DOMAIN mid /\ off[p] = Offset(job, p)
    BY <1>2, <1>3
  <2> HIDE DEF At
  <2>4. mid'[Offset(job, p)] = Max(At(Offset(job, p)))
    BY <1>5, <2>3
  <2> QED BY <2>1, <2>2, <2>4
<1>7. ASSUME NEW p \in Cells(job.shape), p \notin F PROVE mid'[Offset(job, p)] = mid[Offset(job, p)]
  <2>1. ~ \E q \in F : off[q] = Offset(job, p)
    BY <1>2, <1>4, <1>7
  <2> HIDE DEF At
  <2> QED BY <1>3, <1>5, <2>1
<1>8. DOMAIN mid' = Cells(job.shape)
  <2> HIDE DEF At
  <2> QED BY <1>5
<1>9. ~stray'
  <2>1. ~ \E p \in F : off[p] \notin DOMAIN mid
    BY <1>2, <1>3
  <2>2. (stray \/ \E p \in F : off[p] \notin DOMAIN mid) = FALSE
    BY <2>1
  <2>3. stray' = (stray \/ \E p \in F : off[p] \notin DOMAIN mid)
    BY <1>5
  <2> QED BY <2>2, <2>3
<1> QED BY <1>6, <1>7, <1>8, <1>9 DEF F

\* A part that is decoded.
LEMMA Gathered ==
    ASSUME ReorderAssumption, job \in Jobs, DOMAIN mid = Cells(job.shape), DOMAIN out = Cells(job.shape),
           ~stray, AllSaved, NEW part, part \subseteq Cells(job.shape),
           NEW copied, copied = part, NEW off, Gather(part, copied, off),
           \A p \in part : off[p] = Offset(job, p)
    PROVE  /\ DOMAIN out' = Cells(job.shape) /\ ~stray'
           /\ \A p \in part : out'[p] = p
           /\ \A p \in Cells(job.shape) : p \notin part => out'[p] = out[p]
<1>1. \A p \in Cells(job.shape) : Offset(job, p) \in Cells(job.shape)
  BY JobIs, OffsetIn
<1>2. \A p \in part : Read(off[p]) = p
  BY <1>1 DEF Read, AllSaved, Saved
<1>3. /\ out' = [p \in DOMAIN out |-> CASE p \in part -> Read(off[p])
                                        [] p \in part \ part -> Junk
                                        [] OTHER -> out[p]]
      /\ stray' = (stray \/ \E p \in part : off[p] \notin DOMAIN mid)
  BY DEF Gather
<1>4. ~ \E p \in part : off[p] \notin DOMAIN mid
  BY <1>1
<1>5. ~stray'
  BY <1>3, <1>4
<1> QED BY <1>2, <1>3, <1>5

-----------------------------------------------------------------------------
(* raster_reorder and zcurve_reorder, step by step *)

LEMMA BoxFrame ==
    ASSUME ReorderAssumption, BoxInv, Boxed, NEW t \in Threads, NEW z \in todo,
           NEW cells, NEW off, StoreFrame(t, z, cells, off), ~Simd, cells = Frame(z),
           \A p \in Cells(job.shape) : off[p] = Offset(job, p)
    PROVE  BoxInv'
<1>1. /\ Shapes /\ ~stray /\ phase = "store" /\ todo \subseteq Units(job, "store") /\ count = 0 /\ FramesSaved
  BY DEF BoxInv, BoxStore, StoreFrame
<1>2. z \in 0 .. job.shape[1] - 1 /\ Units(job, "store") = 0 .. job.shape[1] - 1 /\ IsJob(job)
  BY <1>1, BoxedIs DEF Shapes
<1>3. /\ job' = job /\ metric' = metric /\ phase' = "store" /\ todo' = todo \ {z}
      /\ held' = held /\ map' = map /\ out' = out /\ count' = count /\ result' = result
  BY <1>1 DEF StoreFrame, rank
<1>4. /\ DOMAIN mid' = Cells(job.shape) /\ ~stray'
      /\ \A p \in Frame(z) : mid'[Offset(job, p)] = p
      /\ \A p \in Cells(job.shape) : p \notin Frame(z) => mid'[Offset(job, p)] = mid[Offset(job, p)]
  BY <1>1, <1>2, FrameStored DEF Shapes
<1>5. \A y \in 0 .. job.shape[1] - 1 : Frame(y) \subseteq Cells(job.shape)
  BY <1>2, FramesOf, FrameIs, SliceIn
<1>6. \A y \in Units(job, "store") \ todo' : \A p \in Frame(y) : mid'[Offset(job, p)] = p
  <2> SUFFICES ASSUME NEW y \in Units(job, "store") \ todo', NEW p \in Frame(y)
               PROVE  mid'[Offset(job, p)] = p
    OBVIOUS
  <2>1. CASE p \in Frame(z)
    BY <1>4, <2>1
  <2>2. CASE p \notin Frame(z)
    <3>1. y \in Units(job, "store") \ todo
      BY <1>3, <2>2
    <3>2. mid[Offset(job, p)] = p
      BY <1>1, <3>1 DEF FramesSaved, Saved
    <3> QED BY <1>2, <1>4, <1>5, <2>2, <3>2
  <2> QED BY <2>1, <2>2
<1>7. FramesSaved'
  BY <1>1, <1>3, <1>6 DEF FramesSaved, Resting, Saved, Threads, Frame
<1>8. Shapes'
  BY <1>1, <1>3, <1>4 DEF Shapes, Threads, Slots, K
<1>9. BoxStore'
  BY <1>1, <1>3, <1>7 DEF BoxStore, Simd
<1> QED BY <1>3, <1>4, <1>8, <1>9 DEF BoxInv, BoxLater, BoxHeader, BoxDecode, Ended, Late

\* A register is aimed at the offset of its first cell.
LEMMA RegisterIs ==
    ASSUME ReorderAssumption, Boxed, job \in Jobs, Simd, NEW p \in Registers(job), NEW o \in 0 .. job.block - 1
    PROVE  /\ RasterEncodeOffset[job][p] = Offset(job, p)
           /\ p \in Cells(job.shape) /\ p + o \in Cells(job.shape)
           /\ Offset(job, p) \in Nat /\ Offset(job, p + o) = Offset(job, p) + o
<1>1. /\ IsJob(job) /\ AllWhole(job) /\ job.block = job.ts /\ job \in Raster /\ Path(job) = "simd"
  BY BoxedIs DEF Simd
<1>2. p \in Cells(job.shape) /\ p % job.ts = 0 /\ o \in 0 .. job.ts - 1
  BY <1>1 DEF Registers
<1>3. RasterEncodeOffset[job][p] = RasterSimdOffset(job, Coord(job.shape, p))
  BY <1>1, <1>2 DEF RasterEncodeOffset
<1> QED BY <1>1, <1>2, <1>3, RegisterOffset

\* All threads are one.
LEMMA OnlyThread ==
    ASSUME ReorderAssumption, Boxed, job \in Jobs, Simd, phase = "store", todo \subseteq Registers(job),
           NEW t \in Threads, NEW p, Turn(t, p)
    PROVE  t = 0
<1>1. /\ IsJob(job) /\ Team(job, "store") = 1 /\ Path(job) = "simd"
  BY BoxedIs DEF Simd
<1>2. PICK v \in todo : Owner(job, phase, v) = t
  BY DEF Turn
<1>3. v \in Nat
  BY <1>1, FramesOf DEF Registers
<1>4. Chunk(job, "store") = job.ts * job.shape[2] * job.shape[3]
  BY <1>1 DEF Chunk
<1>5. PICK a \in Nat \ {0}, b \in Nat \ {0}, c \in Nat \ {0} : a = job.ts /\ b = job.shape[2] /\ c = job.shape[3]
  BY <1>1 DEF IsJob, Axes
<1>6. a * b * c \in Nat \ {0}
  <2>1. a * 1 <= a * b
    BY TimesMono
  <2>2. PICK g \in Nat \ {0} : g = a * b
    BY <2>1
  <2>3. g * 1 <= g * c
    BY TimesMono
  <2> QED BY <2>2, <2>3
<1>7. PICK x \in Nat : x = v \div Chunk(job, "store")
  BY <1>3, <1>4, <1>5, <1>6, DivMod
<1>8. x % 1 = 0
  OBVIOUS
<1> QED BY <1>1, <1>2, <1>7, <1>8 DEF Owner

LEMMA BoxAim ==
    ASSUME ReorderAssumption, BoxInv, Boxed, NEW t \in Threads, NEW p \in todo, Aim(t, p)
    PROVE  BoxInv'
<1>1. /\ Shapes /\ ~stray /\ phase = "store" /\ Simd /\ count = 0
      /\ todo \subseteq Registers(job) /\ Units(job, "store") = Registers(job) /\ RegistersSaved
  <2>1. phase = "store" /\ Simd
    BY DEF Aim, IsPath, Simd
  <2> QED BY <2>1, BoxedIs DEF BoxInv, BoxStore, Shapes
<1>2. t = 0 /\ held[0] = Idle /\ \A u \in Threads : held[u] = Idle
  BY <1>1, OnlyThread DEF Aim, Turn, Shapes, RegistersSaved
<1>3. /\ job' = job /\ metric' = metric /\ phase' = "store" /\ todo' = todo \ {p}
      /\ held' = [held EXCEPT ![0] = <<p, RasterEncodeOffset[job][p]>>]
      /\ map' = map /\ mid' = mid /\ stray' = stray /\ out' = out /\ count' = count /\ result' = result
      /\ dst' = RasterEncodeOffset[job][p]
  BY <1>1, <1>2 DEF Aim, rank
<1>4. RasterEncodeOffset[job][p] = Offset(job, p)
  <2>1. 0 \in 0 .. job.block - 1
    BY <1>1, BoxedIs DEF Shapes, IsJob
  <2> QED BY <1>1, <2>1, RegisterIs DEF Shapes
<1>5. /\ held'[0] = <<p, Offset(job, p)>> /\ held'[0] # Idle
      /\ held'[0][1] = p /\ held'[0][2] = Offset(job, p)
      /\ \A u \in Threads \ {0} : held'[u] = Idle
  BY <1>1, <1>2, <1>3, <1>4 DEF Shapes, Idle
<1>6. RegistersSaved'
  <2>1. held'[0][1] \in Registers(job) \ todo'
    BY <1>1, <1>3, <1>5
  <2>2. ASSUME NEW q \in Registers(job) \ todo', q # p, NEW o \in 0 .. job.block - 1
        PROVE  mid'[Offset(job, q + o)] = q + o
    BY <1>1, <1>2, <1>3, <2>2 DEF RegistersSaved, Saved
  <2>3. 0 \in Threads' /\ Threads' = Threads
    BY <1>2 DEF Threads
  <2> QED BY <1>3, <1>4, <1>5, <2>1, <2>2, <2>3 DEF RegistersSaved, Saved
<1>7. Shapes'
  BY <1>1, <1>3 DEF Shapes, Threads, Slots, K
<1>8. BoxStore'
  BY <1>1, <1>3, <1>6 DEF BoxStore, Simd
<1> QED BY <1>1, <1>3, <1>7, <1>8 DEF BoxInv, BoxLater, BoxHeader, BoxDecode, Ended, Late

LEMMA BoxShoot ==
    ASSUME ReorderAssumption, BoxInv, Boxed, NEW t \in Threads, Shoot(t)
    PROVE  BoxInv'
<1>1. /\ Shapes /\ ~stray /\ phase = "store" /\ Simd /\ count = 0
      /\ todo \subseteq Registers(job) /\ Units(job, "store") = Registers(job) /\ RegistersSaved
  <2>1. phase = "store" /\ held[t] # Idle
    BY DEF Shoot
  <2>2. Simd
    BY <2>1 DEF BoxInv, BoxStore, FramesSaved, Resting
  <2> QED BY <2>1, <2>2, BoxedIs DEF BoxInv, BoxStore, Shapes
<1>2. t = 0 /\ held[0] # Idle
  BY <1>1 DEF Shoot, RegistersSaved
<1> DEFINE p == held[0][1]
           b == job.block
           at == Offset(job, p)
           cells == [o \in 0 .. b - 1 |-> p + o]
<1>3. p \in Registers(job) \ todo /\ held[0][2] = at /\ dst = at /\ 0 \in Threads
  BY <1>1, <1>2 DEF RegistersSaved
<1>4. b \in Nat \ {0} /\ IsJob(job) /\ job \in Jobs
  BY <1>1, BoxedIs DEF Shapes, IsJob
<1>5. /\ job' = job /\ metric' = metric /\ phase' = "store" /\ todo' = todo
      /\ map' = map /\ out' = out /\ count' = count /\ result' = result
      /\ held' = [held EXCEPT ![0] = Idle]
  BY <1>1, <1>2 DEF Shoot, rank
<1>6. /\ mid' = Copy(mid, 0 .. b - 1, at, cells)
      /\ stray' = (stray \/ Outside(mid, 0 .. b - 1, at))
  <2>1. \E a \in {dst, held[0][2]} :
          /\ mid' = Copy(mid, 0 .. b - 1, a, [o \in 0 .. b - 1 |-> held[0][1] + o])
          /\ stray' = (stray \/ Outside(mid, 0 .. b - 1, a))
    BY <1>2, Zenon DEF Shoot
  <2>2. {dst, held[0][2]} = {at}
    BY <1>3
  <2> QED BY <2>1, <2>2, Zenon
<1> HIDE DEF p, b
<1>7. \A o \in 0 .. b - 1 : /\ p \in Cells(job.shape) /\ p + o \in Cells(job.shape)
                            /\ at \in Nat /\ Offset(job, p + o) = at + o
  BY <1>1, <1>3, <1>4, RegisterIs DEF b
<1>8. at \in Nat /\ p \in Nat
  <2>1. 0 \in 0 .. b - 1
    BY <1>4
  <2>2. at \in Nat /\ p \in Cells(job.shape)
    BY <1>7, <2>1
  <2> QED BY <1>4, <2>2, CellIn
<1> HIDE DEF at
<1>9. ~stray'
  <2>1. ~Outside(mid, 0 .. b - 1, at)
    <3>1. \A o \in 0 .. b - 1 : o + at \in Cells(job.shape)
      <4>1. \A o \in 0 .. b - 1 : Offset(job, p + o) \in Cells(job.shape) /\ at + o = o + at
        BY <1>4, <1>7, <1>8, OffsetIn
      <4> QED BY <1>7, <4>1
    <3> QED BY <1>1, <3>1 DEF Outside, Shapes
  <2> QED BY <1>1, <1>6, <2>1
<1>10. DOMAIN mid' = Cells(job.shape)
  <2> HIDE DEF cells
  <2> QED BY <1>1, <1>6 DEF Copy, Shapes
<1>11. \A a \in Cells(job.shape) :
         mid'[a] = IF a - at \in 0 .. b - 1 THEN p + (a - at) ELSE mid[a]
  BY <1>1, <1>6 DEF Copy, Shapes
<1>12. ASSUME NEW o \in 0 .. b - 1  PROVE mid'[Offset(job, p + o)] = p + o
  <2>1. Offset(job, p + o) \in Cells(job.shape) /\ Offset(job, p + o) = at + o
    BY <1>4, <1>7, OffsetIn
  <2>2. (at + o) - at = o
    BY <1>8
  <2> QED BY <1>11, <2>1, <2>2
<1>13. ASSUME NEW q \in Registers(job) \ todo, q # p, NEW o \in 0 .. b - 1
       PROVE  mid'[Offset(job, q + o)] = q + o
  <2>1. mid[Offset(job, q + o)] = q + o
    <3>1. \A u \in Threads : held[u] # Idle => held[u][1] # q
      BY <1>1, <1>13 DEF RegistersSaved, p
    <3> QED BY <1>1, <1>13, <3>1 DEF RegistersSaved, Saved, b
  <2>2. q + o \in Cells(job.shape) /\ q \in Cells(job.shape) /\ Offset(job, q) \in Nat
        /\ Offset(job, q + o) = Offset(job, q) + o
    BY <1>1, <1>4, RegisterIs DEF b
  <2>3. Offset(job, q + o) \in Cells(job.shape)
    BY <1>4, <2>2, OffsetIn
  <2>4. ASSUME Offset(job, q + o) - at \in 0 .. b - 1  PROVE FALSE
    <3>1. PICK r \in 0 .. b - 1 : r = Offset(job, q + o) - at
      BY <2>4
    <3>2. Offset(job, q + o) = at + r
      BY <1>8, <2>2, <3>1
    <3>3. Offset(job, q + o) = Offset(job, p + r) /\ p + r \in Cells(job.shape)
      BY <1>7, <3>2
    <3>4. q + o = p + r
      BY <1>4, <2>2, <3>3, OffsetUnique
    <3>5. q % b = 0 /\ p % b = 0 /\ q \in Nat
      BY <1>3, <1>4, <2>2, CellIn DEF Registers, b
    <3>6. PICK x \in Nat, y \in Nat : q = x * b /\ p = y * b
      <4>1. \A n1 \in Nat : n1 % b = 0 => n1 = (n1 \div b) * b /\ n1 \div b \in Nat
        <5> SUFFICES ASSUME NEW n1 \in Nat, n1 % b = 0 PROVE n1 = (n1 \div b) * b /\ n1 \div b \in Nat
          OBVIOUS
        <5>1. n1 \div b \in Nat /\ n1 = b * (n1 \div b) + (n1 % b)
          BY <1>4, DivMod
        <5>2. PICK g \in Nat : g = n1 \div b
          BY <5>1
        <5>3. n1 = b * g + 0 /\ b * g = g * b /\ g * b \in Nat
          BY <1>4, <5>1, <5>2
        <5> QED BY <5>2, <5>3
      <4> QED BY <1>8, <3>5, <4>1
    <3>7. x * b + o = y * b + r
      BY <3>4, <3>6
    <3>8. x = y
      BY <1>4, <3>7, UnitsUnique
    <3> QED BY <1>13, <3>6, <3>8
  <2> QED BY <1>11, <2>1, <2>3, <2>4
<1>14. /\ \A u \in Threads : held'[u] = Idle
       /\ 0 \in Threads
  BY <1>1, <1>2, <1>5 DEF RegistersSaved, Shapes
<1>15. RegistersSaved'
  <2>1. \A q \in Registers(job) \ todo' : \A o \in 0 .. b - 1 : mid'[Offset(job, q + o)] = q + o
    BY <1>5, <1>12, <1>13
  <2> QED BY <1>5, <1>14, <2>1 DEF RegistersSaved, Saved, Threads, b
<1>16. Shapes'
  BY <1>1, <1>5, <1>10 DEF Shapes, Threads, Slots, K
<1>17. BoxStore'
  BY <1>1, <1>5, <1>15 DEF BoxStore, Simd
<1> QED BY <1>5, <1>9, <1>16, <1>17 DEF BoxInv, BoxLater, BoxHeader, BoxDecode, Ended, Late

LEMMA BoxStored ==
    ASSUME ReorderAssumption, BoxInv, Boxed, StoreEnds
    PROVE  BoxInv'
<1>1. /\ Shapes /\ ~stray /\ phase = "store" /\ todo = {} /\ Resting /\ count = 0
      /\ IF Simd THEN RegistersSaved ELSE FramesSaved
  BY DEF BoxInv, BoxStore, StoreEnds, LoopEnds, Resting
<1>2. /\ job' = job /\ metric' = metric /\ phase' = "header"
      /\ held' = held /\ map' = map /\ mid' = mid /\ stray' = stray /\ out' = out /\ count' = count
      /\ result' = result
  BY DEF StoreEnds, work, rank
<1>3. IsJob(job) /\ job \in Jobs
  BY <1>1, BoxedIs DEF Shapes
<1>4. AllSaved
  <2> SUFFICES ASSUME NEW p \in Cells(job.shape) PROVE Saved(p)
    BY DEF AllSaved
  <2>1. CASE ~Simd
    <3>1. PICK a \in Nat, b \in Nat \ {0} : a = job.shape[1] /\ b = job.shape[2] * job.shape[3]
      BY <1>3, FramesOf
    <3>2. p \in 0 .. a * b - 1
      BY <1>3, <3>1, FramesOf
    <3>3. p \div b \in 0 .. a - 1 /\ p \in Slice(b, p \div b)
      BY <3>2, SliceOf
    <3>4. PICK u \in 0 .. a - 1 : p \in Slice(b, u)
      BY <3>3
    <3>5. u \in Units(job, "store") \ todo /\ p \in Frame(u)
      BY <1>1, <1>3, <2>1, <3>1, <3>4, BoxedIs, FrameIs
    <3> QED BY <1>1, <2>1, <3>5 DEF FramesSaved
  <2>2. CASE Simd
    <3>1. PICK b \in Nat \ {0} : b = job.block
      BY <1>3, <2>2, BoxedIs DEF IsJob
    <3>2. p \in Nat /\ Product(job.shape) \in Nat
      BY <1>3, CellIn, FewerTiles
    <3>3. PICK x \in Nat, o \in 0 .. b - 1 : p = b * x + o
      <4>1. p \div b \in Nat /\ p % b \in 0 .. b - 1 /\ p = b * (p \div b) + (p % b)
        BY <3>2, DivMod
      <4>2. PICK x \in Nat, o \in 0 .. b - 1 : x = p \div b /\ o = p % b /\ p = b * x + o
        BY <4>1
      <4> QED BY <4>2
    <3>4. PICK q \in Nat : q = b * x
      OBVIOUS
    <3>5. q \div b = x /\ q % b = 0
      <4>1. q = b * x + 0 /\ 0 \in 0 .. b - 1
        BY <3>4
      <4>2. q \div b = x
        BY <4>1, DivUnique
      <4>3. q % b \in Int /\ q = b * (q \div b) + (q % b)
        BY DivMod
      <4>4. q = q + (q % b)
        BY <3>4, <4>2, <4>3
      <4> QED BY <4>2, <4>3, <4>4
    <3>6. q \in Registers(job) /\ p = q + o
      BY <3>1, <3>2, <3>3, <3>4, <3>5 DEF Registers, Cells
    <3>7. \A v \in 0 .. job.block - 1 : Saved(q + v)
      <4>1. q \in Registers(job) \ todo
        BY <1>1, <3>6
      <4>2. \A t \in Threads : ~(held[t] # Idle)
        BY <1>1 DEF Resting
      <4> QED BY <1>1, <2>2, <4>1, <4>2 DEF RegistersSaved
    <3> QED BY <3>1, <3>6, <3>7
  <2> QED BY <2>1, <2>2
<1>5. Shapes'
  BY <1>1, <1>2 DEF Shapes, Threads, Slots, K
<1>6. Resting' /\ AllSaved'
  BY <1>1, <1>2, <1>4 DEF Resting, AllSaved, Saved, Threads
<1> QED BY <1>1, <1>2, <1>5, <1>6 DEF BoxInv, BoxStore, BoxLater, BoxHeader, BoxDecode, Ended, Late

LEMMA BoxRead ==
    ASSUME ReorderAssumption, BoxInv, Boxed, ReadHeader
    PROVE  BoxInv'
<1>1. /\ Shapes /\ ~stray /\ phase = "header" /\ Resting /\ AllSaved /\ count = 0
  BY DEF BoxInv, BoxLater, BoxHeader, ReadHeader
<1>2. /\ job' = job /\ metric' = metric /\ phase' = "decode" /\ todo' = Units(job, "decode")
      /\ held' = held /\ map' = map /\ mid' = mid /\ stray' = stray /\ out' = out /\ count' = count
      /\ result' = result
  BY DEF ReadHeader, Enter, rank
<1>3. IsJob(job) /\ job \in Jobs
  BY <1>1, BoxedIs DEF Shapes
<1>4. job.scheme = "raster_reorder" =>
        count' = job.shape[3] * (job.shape[1] * job.shape[2] - Cardinality(todo'))
  <2> SUFFICES ASSUME job.scheme = "raster_reorder"
               PROVE  job.shape[3] * (job.shape[1] * job.shape[2] - Cardinality(todo')) = 0
    BY <1>1, <1>2
  <2>1. PICK a \in Nat \ {0}, c \in Nat \ {0} : a = job.shape[1] * job.shape[2] /\ c = job.shape[3]
    BY <1>3, FramesOf
  <2>2. todo' = 0 .. a - 1
    BY <1>2, <1>3, <2>1, BoxedIs
  <2>3. Cardinality(0 .. a - 1) = a
    <3>1. PICK e \in Nat : e = a - 1
      OBVIOUS
    <3>2. 0 \in Int /\ e \in Int /\ 0 <= e
      BY <3>1
    <3>3. Cardinality(0 .. e) = e - 0 + 1
      BY <3>2, FS_Interval
    <3> QED BY <3>1, <3>2, <3>3
  <2>4. c * (a - a) = 0
    <3>1. a - a = 0 /\ c * 0 = 0
      OBVIOUS
    <3> QED BY <3>1
  <2> QED BY <2>1, <2>2, <2>3, <2>4
<1>5. Shapes'
  BY <1>1, <1>2 DEF Shapes, Threads, Slots, K
<1>6. Resting' /\ AllSaved'
  BY <1>1, <1>2 DEF Resting, AllSaved, Saved, Threads
<1>7. BoxDecode'
  BY <1>2, <1>4 DEF BoxDecode
<1> QED BY <1>1, <1>2, <1>5, <1>6, <1>7 DEF BoxInv, BoxStore, BoxLater, BoxHeader, Ended, Late

\* A row or frame comes back.
LEMMA BoxPart ==
    ASSUME ReorderAssumption, BoxInv, Boxed, phase = "decode", NEW u \in todo,
           NEW copied, copied = Part(u), NEW off, Gather(Part(u), copied, off),
           \A p \in Cells(job.shape) : off[p] = Offset(job, p),
           job' = job, metric' = metric, phase' = phase, todo' = todo \ {u}, held' = held, map' = map,
           mid' = mid, result' = result,
           job.scheme = "raster_reorder" => count' = count + job.shape[3]
    PROVE  BoxInv'
<1>1. /\ Shapes /\ ~stray /\ Resting /\ AllSaved /\ todo \subseteq Units(job, "decode") /\ job \in Jobs
      /\ \A v \in Units(job, "decode") \ todo : \A p \in Part(v) : out[p] = p
      /\ job.scheme = "raster_reorder" =>
           count = job.shape[3] * (job.shape[1] * job.shape[2] - Cardinality(todo))
  BY DEF BoxInv, BoxLater, BoxDecode, Shapes
<1>2. IsJob(job) /\ u \in Units(job, "decode")
  BY <1>1, BoxedIs
<1>3. \A v \in Units(job, "decode") : Part(v) \subseteq Cells(job.shape)
  BY <1>1, PartIn
<1>4. /\ DOMAIN out' = Cells(job.shape) /\ ~stray'
      /\ \A p \in Part(u) : out'[p] = p
      /\ \A p \in Cells(job.shape) : p \notin Part(u) => out'[p] = out[p]
  <2>1. Part(u) \subseteq Cells(job.shape)
    BY <1>2, <1>3
  <2> QED BY <1>1, <2>1, Gathered DEF Shapes
<1>5. \A v \in Units(job, "decode") \ todo' : \A p \in Part(v) : out'[p] = p
  <2> SUFFICES ASSUME NEW v \in Units(job, "decode") \ todo', NEW p \in Part(v)
               PROVE  out'[p] = p
    OBVIOUS
  <2>1. CASE p \in Part(u)
    BY <1>4, <2>1
  <2>2. CASE p \notin Part(u)
    <3>1. v \in Units(job, "decode") \ todo
      BY <2>2
    <3> QED BY <1>1, <1>3, <1>4, <2>2, <3>1
  <2> QED BY <2>1, <2>2
<1>6. job.scheme = "raster_reorder" =>
        count' = job.shape[3] * (job.shape[1] * job.shape[2] - Cardinality(todo'))
  <2> SUFFICES ASSUME job.scheme = "raster_reorder"
               PROVE  count' = job.shape[3] * (job.shape[1] * job.shape[2] - Cardinality(todo'))
    OBVIOUS
  <2>1. PICK a \in Nat, c \in Nat : a = job.shape[1] * job.shape[2] /\ c = job.shape[3]
    BY <1>2, FramesOf
  <2>2. todo \subseteq 0 .. a - 1
    BY <1>1, <2>1, BoxedIs
  <2>3. IsFiniteSet(todo)
    <3>1. IsFiniteSet(0 .. a - 1) /\ todo \in SUBSET (0 .. a - 1)
      BY <2>2, FS_Interval
    <3> QED BY <3>1, FS_Subset
  <2>4. Cardinality(todo \ {u}) = Cardinality(todo) - 1
    BY <2>3, FS_RemoveElement
  <2>5. PICK k \in Nat : k = Cardinality(todo)
    BY <2>3, FS_CardinalityType
  <2>6. c * (a - k) + c = c * (a - (k - 1))
    OBVIOUS
  <2>7. count' = count + c /\ count = c * (a - k)
    BY <1>1, <2>1, <2>5
  <2>8. Cardinality(todo') = k - 1
    BY <2>4, <2>5
  <2> QED BY <2>1, <2>6, <2>7, <2>8
<1>7. BoxDecode'
  <2>1. todo' \subseteq Units(job, "decode")
    BY <1>1
  <2> QED BY <1>5, <1>6, <2>1 DEF BoxDecode, Part, Frame
<1>8. Shapes'
  BY <1>1, <1>4 DEF Shapes, Threads, Slots, K
<1>9. Resting' /\ AllSaved'
  BY <1>1 DEF Resting, AllSaved, Saved, Threads
<1> QED BY <1>4, <1>7, <1>8, <1>9 DEF BoxInv, BoxStore, BoxLater, BoxHeader, Ended, Late

LEMMA BoxDecoded ==
    ASSUME ReorderAssumption, BoxInv, Boxed, DecodeEnds
    PROVE  BoxInv'
<1>1. /\ Shapes /\ ~stray /\ phase = "decode" /\ todo = {} /\ Resting /\ AllSaved /\ job \in Jobs
      /\ \A v \in Units(job, "decode") : \A p \in Part(v) : out[p] = p
      /\ job.scheme = "raster_reorder" =>
           count = job.shape[3] * (job.shape[1] * job.shape[2] - Cardinality({}))
  BY DEF BoxInv, BoxLater, BoxDecode, Shapes, DecodeEnds, LoopEnds
<1>2. /\ job' = job /\ metric' = metric /\ phase' = "done"
      /\ held' = held /\ map' = map /\ mid' = mid /\ stray' = stray
      /\ RasterDecoded \/ ZcurveDecoded \/ TileDecoded \/ FrameDecoded
  BY DEF DecodeEnds, work, rank
<1>3. IsJob(job) /\ job.scheme \in {"raster_reorder", "zcurve_reorder"}
  BY <1>1, BoxedIs
<1>4. CameBack
  <2> SUFFICES ASSUME NEW p \in Cells(job.shape) PROVE out[p] = p
    BY DEF CameBack
  <2>1. PICK u \in Units(job, "decode") : p \in Part(u)
    BY <1>1, PartOf
  <2> QED BY <1>1, <2>1
<1>5. out' = out /\ result' = "success"
  <2>1. CASE RasterDecoded
    <3>1. count = N(job)
      <4>1. PICK a \in Nat, c \in Nat : a = job.shape[1] * job.shape[2] /\ c = job.shape[3]
        BY <1>3, FramesOf
      <4>2. Cardinality({}) = 0
        BY FS_EmptySet
      <4>3. count = c * (a - 0) /\ N(job) = a * c
        BY <1>1, <1>3, <2>1, <4>1, <4>2, FramesOf DEF RasterDecoded
      <4>4. c * (a - 0) = a * c
        OBVIOUS
      <4> QED BY <4>3, <4>4
    <3> QED BY <2>1, <3>1 DEF RasterDecoded, RasterReturns, Verdict
  <2>2. CASE ZcurveDecoded
    BY <2>2 DEF ZcurveDecoded, Verdict
  <2>3. ~TileDecoded /\ ~FrameDecoded
    BY <1>3 DEF TileDecoded, FrameDecoded
  <2> QED BY <1>2, <2>1, <2>2, <2>3
<1>6. Shapes'
  BY <1>1, <1>2, <1>5 DEF Shapes, Threads, Slots, K
<1>7. Resting' /\ AllSaved' /\ CameBack'
  BY <1>1, <1>2, <1>4, <1>5 DEF Resting, AllSaved, Saved, Threads, CameBack
<1> QED BY <1>1, <1>2, <1>5, <1>6, <1>7 DEF BoxInv, BoxStore, BoxLater, BoxHeader, BoxDecode, Ended, Late

-----------------------------------------------------------------------------

LEMMA BoxThread ==
    ASSUME ReorderAssumption, BoxInv, Boxed, NEW t \in Threads, Thread(t)
    PROVE  BoxInv'
<1>1. /\ job \in Jobs /\ phase \in Late /\ ~Shuffles(job) /\ IsJob(job)
      /\ job.scheme = "raster_reorder" => job \in Raster /\ Straight(job)
      /\ job.scheme = "zcurve_reorder" => job \in Zcurve /\ Curved(job)
  BY BoxedIs DEF BoxInv, Shapes
<1>2. job.scheme # "tile_shuffle" /\ job.scheme # "frame_shuffle" /\ phase # "rank" /\ phase # "collect"
  BY <1>1 DEF Shuffles, Late
<1>3. CASE TakeTile(t)
  BY <1>2, <1>3 DEF TakeTile
<1>4. CASE Shoot(t)
  BY <1>4, BoxShoot
<1>5. ASSUME NEW u \in todo,
             \/ CollectFull(t, u) \/ CollectCut(t, u)
             \/ RankFull(t, u) \/ RankRest(t, u) \/ RankTile(t, u) \/ FindTile(t, u)
             \/ RasterFull(t, u) \/ RasterRest(t, u) \/ Aim(t, u)
             \/ ZcurveFull(t, u) \/ ZcurveRest(t, u) \/ StoreTile(t, u)
             \/ DecodeRow(t, u) \/ DecodeFrame(t, u) \/ DecodeChunk(t, u) \/ DecodeTiles(t, u)
      PROVE  BoxInv'
  <2>1. \/ RasterFull(t, u) \/ RasterRest(t, u) \/ Aim(t, u)
        \/ ZcurveFull(t, u) \/ ZcurveRest(t, u) \/ DecodeRow(t, u) \/ DecodeFrame(t, u)
    BY <1>2, <1>5 DEF CollectFull, CollectCut, Collect, RankFull, RankRest, RankTile, FindTile,
       StoreTile, DecodeChunk, DecodeTiles, IsPath
  <2>2. CASE Aim(t, u)
    BY <2>2, BoxAim
  <2>3. CASE RasterFull(t, u)
    <3>1. /\ job.scheme = "raster_reorder" /\ Path(job) = "full" /\ StoreFrame(t, u, Frame(u), RasterEncodeOffset[job])
      BY <2>3 DEF RasterFull, IsPath
    <3>2. \A p \in Cells(job.shape) : RasterEncodeOffset[job][p] = Offset(job, p)
      BY <1>1, <3>1, RasterEncodes
    <3> QED BY <3>1, <3>2, BoxFrame DEF Simd
  <2>4. CASE RasterRest(t, u)
    <3>1. /\ job.scheme = "raster_reorder" /\ Path(job) = "remainder"
          /\ StoreFrame(t, u, Frame(u) \cap Copied[job], RasterEncodeOffset[job])
      BY <2>4 DEF RasterRest, IsPath
    <3>2. \A p \in Cells(job.shape) : RasterEncodeOffset[job][p] = Offset(job, p) /\ p \in Copied[job]
      BY <1>1, <3>1, RasterEncodes, RasterDecodes
    <3>3. ~Simd /\ phase = "store"
      BY <3>1 DEF Simd, StoreFrame
    <3>4. u \in 0 .. job.shape[1] - 1
      BY <1>1, <3>3, BoxedIs DEF BoxInv, BoxStore
    <3>5. Frame(u) \cap Copied[job] = Frame(u)
      <4>1. Frame(u) \subseteq Cells(job.shape)
        BY <1>1, <3>4, FramesOf, FrameIs, SliceIn
      <4> QED BY <3>2, <4>1
    <3> QED BY <3>1, <3>2, <3>3, <3>5, BoxFrame
  <2>5. CASE ZcurveFull(t, u) \/ ZcurveRest(t, u)
    <3>1. /\ job.scheme = "zcurve_reorder" /\ StoreFrame(t, u, Frame(u), ZcurveEncodeOffset[job])
      BY <2>5 DEF ZcurveFull, ZcurveRest, IsPath
    <3>2. \A p \in Cells(job.shape) : ZcurveEncodeOffset[job][p] = Offset(job, p)
      BY <1>1, <3>1, ZcurveEncodes
    <3> QED BY <3>1, <3>2, BoxFrame DEF Simd
  <2>6. CASE DecodeRow(t, u)
    <3> DEFINE row == u * job.shape[3] .. (u + 1) * job.shape[3] - 1
    <3>1. /\ job.scheme = "raster_reorder" /\ phase = "decode"
          /\ Gather(row, row \cap Copied[job], RasterDecodeOffset[job])
          /\ count' = count + job.shape[3]
          /\ job' = job /\ metric' = metric /\ phase' = phase /\ todo' = todo \ {u} /\ held' = held /\ map' = map
          /\ mid' = mid /\ result' = result
      BY <2>6, Zenon DEF DecodeRow, rank
    <3>2. \A p \in Cells(job.shape) : RasterDecodeOffset[job][p] = Offset(job, p) /\ p \in Copied[job]
      BY <1>1, <3>1, RasterDecodes
    <3>3. row = Part(u)
      BY <3>1 DEF Part, Slice
    <3>4. Part(u) \subseteq Cells(job.shape)
      BY <1>1, <3>1, PartIn DEF BoxInv, BoxDecode
    <3>5. row \cap Copied[job] = Part(u)
      BY <3>2, <3>3, <3>4
    <3> HIDE DEF row
    <3> QED BY <3>1, <3>2, <3>3, <3>5, BoxPart
  <2>7. CASE DecodeFrame(t, u)
    <3>1. /\ job.scheme = "zcurve_reorder" /\ phase = "decode"
          /\ Gather(Frame(u), Frame(u), ZcurveDecodeOffset[job])
          /\ job' = job /\ metric' = metric /\ phase' = phase /\ todo' = todo \ {u} /\ held' = held /\ map' = map
          /\ mid' = mid /\ result' = result
      BY <2>7, Zenon DEF DecodeFrame, rank
    <3>2. \A p \in Cells(job.shape) : ZcurveDecodeOffset[job][p] = Offset(job, p)
      BY <1>1, <3>1, ZcurveDecodes
    <3>3. Frame(u) = Part(u)
      BY <3>1 DEF Part
    <3> QED BY <3>1, <3>2, <3>3, BoxPart
  <2> QED BY <2>1, <2>2, <2>3, <2>4, <2>5, <2>6, <2>7
<1> QED BY <1>3, <1>4, <1>5 DEF Thread

LEMMA BoxCaller ==
    ASSUME ReorderAssumption, BoxInv, Boxed, Caller
    PROVE  BoxInv'
<1>1. /\ phase \in Late /\ ~Shuffles(job)
  BY DEF BoxInv, Boxed
<1>2. ~CollectEnds /\ ~RankEnds /\ ~HeaderUnreadable
  BY <1>1 DEF CollectEnds, RankEnds, HeaderUnreadable, LoopEnds, Unreadable, Late
<1> QED BY <1>2, BoxStored, BoxRead, BoxDecoded DEF Caller

\* A job begins in the invariant.
LEMMA BoxInit ==
    ASSUME ReorderAssumption, Init
    PROVE  BoxInv
<1> SUFFICES ASSUME Boxed PROVE BoxInv
  BY DEF BoxInv
<1>1. /\ job \in Jobs /\ metric \in [Slots -> Levels] /\ phase = FirstPhase(job)
      /\ map = [i \in Slots |-> Junk] /\ held = [t \in Threads |-> Idle]
      /\ mid = [o \in Cells(job.shape) |-> Junk] /\ out = [p \in Cells(job.shape) |-> Junk]
      /\ ~stray /\ count = 0 /\ todo = Units(job, phase)
  BY DEF Init, Slots, K
<1>2. ~Shuffles(job)
  BY DEF Boxed
<1>3. phase = "store"
  BY <1>1, <1>2 DEF FirstPhase, Shuffles
<1>4. Shapes /\ Resting
  BY <1>1 DEF Shapes, Resting
<1>5. FramesSaved
  BY <1>1, <1>3, <1>4 DEF FramesSaved
<1>6. Simd => RegistersSaved
  BY <1>1, <1>3, <1>4, BoxedIs DEF RegistersSaved, Resting
<1>7. BoxStore
  BY <1>1, <1>3, <1>5, <1>6 DEF BoxStore
<1> QED BY <1>1, <1>3, <1>4, <1>7 DEF BoxInv, BoxLater, BoxHeader, BoxDecode, Ended, Late

-----------------------------------------------------------------------------
(* frame_shuffle: chunks of frames *)

-----------------------------------------------------------------------------
(* std::find where no two values of the metric are equal *)

AreDistinct(m) == \A i, k \in DOMAIN m : m[i] = m[k] => i = k

LEMMA DistinctFinds ==
    ASSUME NEW num, NEW m, IsMetric(m, num), AreDistinct(m)
    PROVE  /\ \A i \in 0 .. num - 1 : FindFirst(m, i) \in 0 .. num - 1
           /\ \A k \in 0 .. num - 1 : \E i \in 0 .. num - 1 : FindFirst(m, i) = k
           /\ \A i, l \in 0 .. num - 1 : FindFirst(m, i) = FindFirst(m, l) => i = l
<1>1. \A i \in 0 .. num - 1 : FindFirst(m, i) \in 0 .. num - 1
  BY FindsFirst
<1>2. \A k \in 0 .. num - 1 : Rang(m)[k] \in 0 .. num - 1
  BY AheadFinite DEF Rang, IsMetric
<1>3. ASSUME NEW k \in 0 .. num - 1  PROVE FindFirst(m, Rang(m)[k]) = k
  <2> DEFINE S == {l \in DOMAIN m : m[l] = NthSmallest(m, Rang(m)[k])}
  <2>0. NthSmallest(m, Rang(m)[k]) = m[k] /\ DOMAIN m = 0 .. num - 1
    BY NthIsAtRang DEF IsMetric
  <2>1. S = {k}
    BY <2>0 DEF AreDistinct
  <2>2. Min({k}) = k
    BY DEF Min
  <2>3. FindFirst(m, Rang(m)[k]) = Min(S)
    BY DEF FindFirst
  <2> QED BY <2>1, <2>2, <2>3
<1>4. \A i \in 0 .. num - 1 : Rang(m)[FindFirst(m, i)] = i
  BY <1>3, RangIsOnto
<1> QED BY <1>1, <1>2, <1>3, <1>4

\* c is buffer b with size items of src at shift and behind it.
IsCopy(c, b, size, shift, src) ==
    /\ DOMAIN c = DOMAIN b
    /\ \A o \in 0 .. size - 1 : c[shift + o] = src[o]
    /\ \A a \in DOMAIN b : a < shift \/ shift + size <= a => c[a] = b[a]

\* The items fit in.
Fits(b, size, shift) == \A o \in 0 .. size - 1 : shift + o \in DOMAIN b

LEMMA CopyIs ==
    ASSUME NEW b, DOMAIN b \subseteq Nat, NEW size \in Nat, NEW shift \in Nat, NEW src, Fits(b, size, shift)
    PROVE  /\ IsCopy(Copy(b, 0 .. size - 1, shift, src), b, size, shift, src)
           /\ ~Outside(b, 0 .. size - 1, shift)
<1> DEFINE from == 0 .. size - 1
           c == Copy(b, from, shift, src)
<1>1. \A a \in DOMAIN b : c[a] = IF a - shift \in from THEN src[a - shift] ELSE b[a]
  BY DEF Copy
<1>2. ASSUME NEW o \in from  PROVE c[shift + o] = src[o]
  <2>1. (shift + o) - shift = o
    OBVIOUS
  <2> QED BY <1>1, <1>2, <2>1 DEF Fits
<1>3. ASSUME NEW a \in DOMAIN b, a < shift \/ shift + size <= a
      PROVE  c[a] = b[a]
  <2>1. a - shift \notin from
    BY <1>3
  <2> QED BY <1>1, <2>1
<1>4. ~Outside(b, from, shift)
  <2>1. \A o \in from : shift + o = o + shift
    OBVIOUS
  <2> QED BY <2>1 DEF Outside, Fits
<1>5. DOMAIN c = DOMAIN b
  BY DEF Copy
<1> QED BY <1>2, <1>3, <1>4, <1>5 DEF IsCopy

-----------------------------------------------------------------------------
(* frame_shuffle *)

LEMMA CeilOfRest ==
    ASSUME NEW s \in Nat \ {0}, NEW b \in Nat \ {0}, s % b # 0
    PROVE  CeilDiv(s, b) = (s \div b) + 1
<1> DEFINE q == s \div b
           r == s % b
<1>1. q \in Nat /\ r \in 0 .. b - 1 /\ s = b * q + r /\ r # 0
  BY DivMod
<1> HIDE DEF q, r
<1>2. s + b - 1 = b * (q + 1) + (r - 1) /\ s + b - 1 \in Nat /\ r - 1 \in 0 .. b - 1
  <2>1. b * (q + 1) = b * q + b /\ b * q \in Nat
    BY <1>1
  <2> QED BY <1>1, <2>1
<1>3. PICK v \in Nat, w \in 0 .. b - 1, u \in Nat : v = s + b - 1 /\ w = r - 1 /\ u = q + 1
  BY <1>1, <1>2
<1>4. v = b * u + w
  BY <1>2, <1>3
<1>5. v \div b = u
  BY <1>4, DivUnique
<1> QED BY <1>3, <1>5 DEF CeilDiv, q

LEMMA ChunksIs ==
    ASSUME NEW j, IsJob(j), j.scheme = "frame_shuffle"
    PROVE  /\ FrameChunk(j) \in Nat \ {0} /\ Sorted(j) \in Nat /\ N(j) \in Nat
           /\ Sorted(j) * FrameChunk(j) \in 0 .. N(j)
           /\ ~FrameRemainder(j) => Sorted(j) * FrameChunk(j) = N(j)
<1>1. PICK b \in Nat \ {0}, s \in Nat \ {0}, g \in Nat \ {0} :
        /\ b = j.ts /\ s = j.shape[1] /\ g = j.shape[2] * j.shape[3] /\ N(j) = s * g
  BY FramesOf DEF IsJob
<1>2. FrameChunk(j) = b * g
  <2>1. PICK y \in Nat, z \in Nat : y = j.shape[2] /\ z = j.shape[3]
    BY FramesOf
  <2>2. FrameChunk(j) = b * y * z /\ g = y * z
    BY <1>1, <2>1 DEF FrameChunk
  <2>3. b * y * z = b * (y * z)
    OBVIOUS
  <2> QED BY <2>2, <2>3
<1>3. b * g \in Nat \ {0}
  <2>1. b * 1 <= b * g
    BY TimesMono
  <2> QED BY <2>1
<1>4. PICK q \in Nat, r \in 0 .. b - 1 : q = s \div b /\ r = s % b /\ s = b * q + r
  BY DivMod
<1>5. Sorted(j) = q
  <2>1. Sorted(j) = FrameChunks(j) /\ FullChunks(j) = q
    BY <1>1, <1>4 DEF Sorted, FullChunks
  <2>2. CASE FrameRemainder(j)
    <3>1. s % b # 0
      BY <1>1, <2>2 DEF FrameRemainder, Whole
    <3>2. CeilDiv(s, b) = q + 1
      BY <1>4, <3>1, CeilOfRest
    <3>3. FrameChunks(j) = (q + 1) - 1
      BY <1>1, <2>2, <3>2 DEF FrameChunks, RestChunks
    <3> QED BY <2>1, <3>3
  <2>3. CASE ~FrameRemainder(j)
    BY <2>1, <2>3 DEF FrameChunks
  <2> QED BY <2>2, <2>3
<1>6. q * (b * g) = (b * q) * g
  OBVIOUS
<1>7. (b * q) * g <= s * g /\ (b * q) * g \in Nat /\ s * g \in Nat
  <2>1. PICK x \in Nat : x = b * q /\ x <= s
    <3>1. b * q \in Nat
      OBVIOUS
    <3> QED BY <1>4, <3>1
  <2>2. x * g <= s * g /\ x * g \in Nat
    BY <2>1, TimesMono
  <2> QED BY <2>1, <2>2
<1>8. ASSUME ~FrameRemainder(j) PROVE b * q = s
  <2>1. r = 0 /\ b * q \in Nat
    BY <1>1, <1>4, <1>8 DEF FrameRemainder, Whole
  <2> QED BY <1>4, <2>1
<1>9. PICK h \in Nat : h = b * g /\ h # 0
  BY <1>3
<1>10. Sorted(j) * FrameChunk(j) = q * (b * g)
  BY <1>2, <1>5
<1> QED BY <1>1, <1>2, <1>3, <1>5, <1>6, <1>7, <1>8, <1>10

\* A volume that frame_shuffle handles, and the cells of one of its chunks.
Chunky == Good /\ job.scheme = "frame_shuffle"
CC == FrameChunk(job)

\* A chunk that is moved to its place.
Moved(i) == /\ map[i] = FindFirst(metric, i)
            /\ \A o \in 0 .. CC - 1 : mid[i * CC + o] = map[i] * CC + o

ChunkRank == phase = "rank" => todo \subseteq Slots /\ \A i \in Slots \ todo : Moved(i)
ChunkLater == phase # "rank" => (\A i \in Slots : Moved(i)) /\ \A p \in Rest(job) : mid[p] = p
ChunkDecode ==
    phase = "decode" =>
      todo \subseteq Slots /\ \A i \in Slots \ todo : \A p \in Slice(CC, map[i]) : out[p] = p
ChunkInv ==
    Chunky => /\ Shapes /\ ~stray /\ Resting /\ phase \in {"rank", "header", "decode", "done"}
              /\ ChunkRank /\ ChunkLater /\ ChunkDecode /\ Ended

LEMMA ChunkyIs ==
    ASSUME ReorderAssumption, Chunky, Shapes
    PROVE  /\ IsJob(job) /\ job.scheme = "frame_shuffle" /\ Shuffles(job)
           /\ K \in Nat \ {0} /\ CC \in Nat \ {0} /\ N(job) \in Nat /\ K * CC \in 0 .. N(job)
           /\ ~FrameRemainder(job) => K * CC = N(job)
           /\ Cells(job.shape) = 0 .. N(job) - 1 /\ Rest(job) = K * CC .. N(job) - 1
           /\ IsMetric(metric, K) /\ AreDistinct(metric)
           /\ Units(job, "rank") = Slots /\ Units(job, "decode") = Slots
           /\ Slots = 0 .. K - 1
<1>1. IsJob(job) /\ job.scheme = "frame_shuffle" /\ Shuffles(job)
  BY JobIs DEF Chunky, Shapes, Shuffles
<1>2. ~Unreadable(job) /\ AreDistinct(metric)
  BY <1>1 DEF Chunky, Good, Handled, AreDistinct
<1>3. K \in Nat \ {0}
  BY <1>1, <1>2, ChunksIs DEF Unreadable, K
<1>4. IsMetric(metric, K)
  BY <1>3 DEF IsMetric, Shapes, Slots, ReorderAssumption
<1>5. Units(job, "rank") = Slots /\ Units(job, "decode") = Slots
  BY <1>1 DEF Units, Slots, K
<1> QED BY <1>1, <1>2, <1>3, <1>4, <1>5, ChunksIs, FramesOf DEF K, CC, Rest, Slots

\* A chunk lies inside the volume.
LEMMA ChunkIn ==
    ASSUME ReorderAssumption, Chunky, Shapes, NEW i \in Slots, NEW o \in 0 .. CC - 1
    PROVE  i * CC + o \in Cells(job.shape) /\ i * CC \in Nat /\ i \in Nat
<1>1. i \in 0 .. K - 1 /\ K \in Nat /\ CC \in Nat /\ K * CC \in 0 .. N(job) /\ N(job) \in Nat
      /\ Cells(job.shape) = 0 .. N(job) - 1
  BY ChunkyIs
<1>2. i * CC + o \in 0 .. K * CC - 1 /\ i * CC \in Nat
  BY <1>1, InUnits
<1> QED BY <1>1, <1>2

\* The i-th place gets its chunk: no other chunk is there.
LEMMA ChunkMoves ==
    ASSUME ReorderAssumption, ChunkInv, Chunky, NEW t \in Threads, NEW i \in todo,
           Rank(t, i, FrameChunk(job), InputChunks)
    PROVE  ChunkInv'
<1> DEFINE k == FindFirst(metric, i)
<1>1. /\ Shapes /\ ~stray /\ Resting /\ phase = "rank" /\ todo \subseteq Slots /\ i \in Slots
      /\ \A l \in Slots \ todo : Moved(l)
  BY DEF ChunkInv, ChunkRank, Rank
<1>2. /\ job' = job /\ metric' = metric /\ phase' = "rank" /\ todo' = todo \ {i} /\ held' = held
      /\ map' = [map EXCEPT ![i] = k] /\ mid' = Copy(mid, 0 .. CC - 1, i * CC, InputChunks[k])
      /\ stray' = (stray \/ Outside(mid, 0 .. CC - 1, i * CC))
      /\ out' = out /\ result' = result
  BY <1>1 DEF Rank, CC
<1>3. k \in Slots /\ DOMAIN metric = Slots /\ CC \in Nat /\ DOMAIN mid \subseteq Nat /\ DOMAIN mid = Cells(job.shape)
  <2>1. i \in 0 .. K - 1 /\ IsMetric(metric, K) /\ Slots = 0 .. K - 1 /\ CC \in Nat
    BY <1>1, ChunkyIs
  <2>2. k \in 0 .. K - 1
    BY <2>1, FindsFirst
  <2>3. Cells(job.shape) \subseteq Nat
    BY <1>1, ChunkyIs
  <2> QED BY <1>1, <2>1, <2>2, <2>3 DEF Shapes
<1>4. \A o \in 0 .. CC - 1 : InputChunks[k][o] = k * CC + o
  BY <1>3 DEF InputChunks, CC
<1>5. \A o \in 0 .. CC - 1 : i * CC + o \in DOMAIN mid
  BY <1>1, <1>3, ChunkIn
<1>6. i * CC \in Nat
  <2>1. 0 \in 0 .. CC - 1
    BY <1>1, ChunkyIs
  <2> QED BY <1>1, <2>1, ChunkIn
<1> HIDE DEF k
<1>7. PICK x \in Nat, src \in {InputChunks[k]} : x = i * CC /\ src = InputChunks[k]
  BY <1>6
<1>8. /\ DOMAIN mid' = DOMAIN mid
      /\ \A o \in 0 .. CC - 1 : mid'[x + o] = k * CC + o
      /\ \A a \in DOMAIN mid : a < x \/ x + CC <= a => mid'[a] = mid[a]
      /\ ~stray'
  <2>1. Fits(mid, CC, x)
    BY <1>5, <1>7 DEF Fits
  <2>2. mid' = Copy(mid, 0 .. CC - 1, x, src) /\ stray' = (stray \/ Outside(mid, 0 .. CC - 1, x))
    BY <1>2, <1>7
  <2>3. IsCopy(mid', mid, CC, x, src) /\ ~Outside(mid, 0 .. CC - 1, x)
    BY <1>3, <2>1, <2>2, CopyIs
  <2>4. \A o \in 0 .. CC - 1 : src[o] = k * CC + o
    BY <1>4, <1>7
  <2>5. ~stray'
    BY <1>1, <2>2, <2>3
  <2> QED BY <2>3, <2>4, <2>5 DEF IsCopy
<1>9. map'[i] = k /\ DOMAIN map' = DOMAIN map /\ \A l \in Slots : l # i => map'[l] = map[l]
  BY <1>1, <1>2 DEF Shapes
<1>10. ASSUME NEW l \in Slots \ todo'
       PROVE  /\ map'[l] = FindFirst(metric, l)
              /\ \A o \in 0 .. CC - 1 : mid'[l * CC + o] = map'[l] * CC + o
  <2>1. CASE l = i
    <3>1. \A o \in 0 .. CC - 1 : mid'[i * CC + o] = k * CC + o
      BY <1>7, <1>8
    <3> QED BY <1>9, <2>1, <3>1 DEF k
  <2>2. CASE l # i
    <3>1. map[l] = FindFirst(metric, l) /\ \A o \in 0 .. CC - 1 : mid[l * CC + o] = map[l] * CC + o
      BY <1>1, <1>2, <2>2 DEF Moved
    <3>2. ASSUME NEW o \in 0 .. CC - 1  PROVE mid'[l * CC + o] = mid[l * CC + o]
      <4>1. l * CC + o \in DOMAIN mid /\ l * CC \in Nat /\ l \in Nat /\ i \in Nat
        BY <1>1, <1>3, ChunkIn
      <4>2. PICK a \in Nat : a = l * CC + o
        BY <1>3, <4>1
      <4>3. ~(x <= a /\ a < x + CC)
        <5> SUFFICES ASSUME x <= a, a < x + CC  PROVE FALSE
          OBVIOUS
        <5>1. PICK r \in 0 .. CC - 1 : a = x + r
          <6>1. PICK r \in Int : r = a - x
            OBVIOUS
          <6>2. r \in 0 .. CC - 1 /\ a = x + r
            BY <1>3, <6>1
          <6> QED BY <6>2
        <5>2. l * CC + o = i * CC + r
          BY <1>7, <4>2, <5>1
        <5>3. l = i
          BY <1>3, <4>1, <5>2, UnitsUnique
        <5> QED BY <2>2, <5>3
      <4>4. a \in DOMAIN mid /\ (a < x \/ x + CC <= a)
        BY <1>3, <4>1, <4>2, <4>3
      <4> QED BY <1>8, <4>2, <4>4
    <3> QED BY <1>9, <2>2, <3>1, <3>2
  <2> QED BY <2>1, <2>2
<1>11. ChunkRank'
  BY <1>1, <1>2, <1>10 DEF ChunkRank, Moved, Slots, K, CC
<1>12. Shapes'
  BY <1>1, <1>2, <1>8, <1>9 DEF Shapes, Threads, Slots, K
<1>13. Resting'
  BY <1>1, <1>2 DEF Resting, Threads
<1> QED BY <1>2, <1>8, <1>11, <1>12, <1>13 DEF ChunkInv, ChunkLater, ChunkDecode, Ended

\* The frames behind the chunks are copied where they are.
LEMMA RestIs ==
    ASSUME ReorderAssumption, Chunky, Shapes, NEW b, DOMAIN b = Cells(job.shape), NEW src,
           NEW a \in Cells(job.shape)
    PROVE  /\ Copy(b, Rest(job), 0, src)[a] = IF a \in Rest(job) THEN src[a] ELSE b[a]
           /\ DOMAIN Copy(b, Rest(job), 0, src) = DOMAIN b
           /\ a \in Rest(job) <=> ~(a < K * CC)
           /\ a \in Nat
<1>1. Cells(job.shape) = 0 .. N(job) - 1 /\ N(job) \in Nat /\ Rest(job) = K * CC .. N(job) - 1 /\ K * CC \in Nat
  BY ChunkyIs
<1>2. a - 0 = a
  BY <1>1
<1>3. Copy(b, Rest(job), 0, src)[a] = IF a \in Rest(job) THEN src[a] ELSE b[a]
  BY <1>2 DEF Copy
<1>4. DOMAIN Copy(b, Rest(job), 0, src) = DOMAIN b
  BY DEF Copy
<1> QED BY <1>1, <1>3, <1>4

LEMMA ChunksRanked ==
    ASSUME ReorderAssumption, ChunkInv, Chunky, RankEnds
    PROVE  ChunkInv'
<1>1. /\ Shapes /\ ~stray /\ Resting /\ phase = "rank" /\ todo = {} /\ \A l \in Slots : Moved(l)
  BY DEF ChunkInv, ChunkRank, RankEnds, LoopEnds
<1>2. /\ job' = job /\ metric' = metric /\ phase' = "header" /\ held' = held /\ map' = map /\ stray' = stray
      /\ out' = out /\ result' = result
      /\ mid' = IF FrameRemainder(job) THEN Copy(mid, Rest(job), 0, [p \in Rest(job) |-> p]) ELSE mid
  <2>1. job.scheme = "frame_shuffle" /\ (Path(job) = "remainder" <=> FrameRemainder(job))
    BY DEF Chunky, Path, FramePath
  <2> QED BY <2>1, Zenon DEF RankEnds, IsPath, rank
<1>3. /\ Cells(job.shape) = 0 .. N(job) - 1 /\ N(job) \in Nat /\ Rest(job) = K * CC .. N(job) - 1
      /\ K * CC \in Nat /\ (~FrameRemainder(job) => K * CC = N(job))
  BY <1>1, ChunkyIs
<1>4. /\ \A a \in Rest(job) : mid'[a] = a
      /\ \A a \in Cells(job.shape) : a < K * CC => mid'[a] = mid[a]
      /\ DOMAIN mid' = Cells(job.shape)
  <2>1. CASE FrameRemainder(job)
    <3> DEFINE src == [p \in Rest(job) |-> p]
    <3>1. /\ \A a \in Cells(job.shape) : /\ Copy(mid, Rest(job), 0, src)[a] = IF a \in Rest(job) THEN src[a] ELSE mid[a]
                                         /\ a \in Rest(job) <=> ~(a < K * CC)
      BY <1>1, RestIs DEF Shapes
    <3>2. DOMAIN Copy(mid, Rest(job), 0, src) = DOMAIN mid
      BY DEF Copy
    <3>3. mid' = Copy(mid, Rest(job), 0, src)
      BY <1>2, <2>1
    <3>4. \A a \in Rest(job) : src[a] = a /\ a \in Cells(job.shape)
      <4>0. K * CC \in Nat /\ N(job) \in Nat
        BY <1>3
      <4>1. PICK y \in Nat, z \in Nat : y = K * CC /\ z = N(job)
        BY <4>0
      <4>2. Rest(job) = y .. z - 1 /\ Cells(job.shape) = 0 .. z - 1
        BY <1>3, <4>1
      <4>3. Rest(job) \subseteq Cells(job.shape)
        BY <4>2
      <4> QED BY <4>3
    <3> HIDE DEF src
    <3> QED BY <1>1, <3>1, <3>2, <3>3, <3>4 DEF Shapes
  <2>2. CASE ~FrameRemainder(job)
    <3>1. Rest(job) = {} /\ mid' = mid
      <4>0. N(job) \in Nat /\ K * CC = N(job) /\ Rest(job) = K * CC .. N(job) - 1
        BY <1>3, <2>2
      <4>1. PICK z \in Nat : z = N(job)
        BY <4>0
      <4>2. Rest(job) = z .. z - 1
        BY <4>0, <4>1
      <4>3. Rest(job) = {}
        BY <4>2
      <4> QED BY <1>2, <2>2, <4>3
    <3> QED BY <1>1, <3>1 DEF Shapes
  <2> QED BY <2>1, <2>2
<1>5. ASSUME NEW l \in Slots
      PROVE  /\ map'[l] = FindFirst(metric, l)
             /\ \A o \in 0 .. CC - 1 : mid'[l * CC + o] = map'[l] * CC + o
  <2>1. map[l] = FindFirst(metric, l) /\ \A o \in 0 .. CC - 1 : mid[l * CC + o] = map[l] * CC + o
    BY <1>1 DEF Moved
  <2>2. ASSUME NEW o \in 0 .. CC - 1  PROVE l * CC + o < K * CC /\ l * CC + o \in Cells(job.shape)
    <3>1. K \in Nat /\ CC \in Nat /\ l \in 0 .. K - 1
      BY <1>1, ChunkyIs
    <3>2. l * CC + o \in 0 .. K * CC - 1
      BY <3>1, InUnits
    <3>3. l * CC + o < K * CC
      <4>0. K * CC \in Nat
        BY <1>3
      <4>1. PICK y \in Nat, z \in {l * CC + o} : y = K * CC /\ z = l * CC + o
        BY <4>0
      <4>2. z \in 0 .. y - 1
        BY <3>2, <4>1
      <4> QED BY <4>1, <4>2
    <3> QED BY <1>1, <3>3, ChunkIn
  <2> QED BY <1>2, <1>4, <2>1, <2>2
<1>6. ChunkLater'
  BY <1>2, <1>4, <1>5 DEF ChunkLater, Moved, Slots, K, CC
<1>7. Shapes' /\ Resting'
  BY <1>1, <1>2, <1>4 DEF Shapes, Threads, Slots, K, Resting
<1> QED BY <1>1, <1>2, <1>6, <1>7 DEF ChunkInv, ChunkRank, ChunkDecode, Ended

LEMMA ChunkRead ==
    ASSUME ReorderAssumption, ChunkInv, Chunky, ReadHeader
    PROVE  ChunkInv'
<1>1. /\ Shapes /\ ~stray /\ Resting /\ phase = "header" /\ ChunkLater
  BY DEF ChunkInv, ReadHeader
<1>2. /\ job' = job /\ metric' = metric /\ phase' = "decode" /\ todo' = Units(job, "decode") /\ held' = held /\ map' = map
      /\ stray' = stray /\ mid' = mid /\ out' = out /\ result' = result
  BY DEF ReadHeader, Enter, rank
<1>3. todo' = Slots
  BY <1>1, <1>2, ChunkyIs
<1>4. ChunkLater' /\ ChunkDecode'
  BY <1>1, <1>2, <1>3 DEF ChunkLater, ChunkDecode, Moved, Slots, K, CC
<1>5. Shapes' /\ Resting'
  BY <1>1, <1>2 DEF Shapes, Threads, Slots, K, Resting
<1> QED BY <1>1, <1>2, <1>4, <1>5 DEF ChunkInv, ChunkRank, Ended

LEMMA ChunkBack ==
    ASSUME ReorderAssumption, ChunkInv, Chunky, NEW t \in Threads, NEW i \in todo, DecodeChunk(t, i)
    PROVE  ChunkInv'
<1>1. /\ Shapes /\ ~stray /\ Resting /\ phase = "decode" /\ ChunkLater /\ i \in Slots /\ todo \subseteq Slots
      /\ \A l \in Slots : Moved(l)
      /\ \A l \in Slots \ todo : \A p \in Slice(CC, map[l]) : out[p] = p
  BY DEF ChunkInv, ChunkLater, ChunkDecode, DecodeChunk
<1>2. /\ job' = job /\ metric' = metric /\ phase' = "decode" /\ todo' = todo \ {i} /\ held' = held /\ map' = map
      /\ stray' = stray /\ mid' = mid /\ result' = result
      /\ out' = Copy(out, 0 .. CC - 1, map[i] * CC, [o \in 0 .. CC - 1 |-> mid[i * CC + o]])
  BY <1>1 DEF DecodeChunk, rank, CC
<1>3. \A l \in Slots : map[l] \in Slots /\ map[l] \in Nat
  BY <1>1, ChunkyIs, DistinctFinds DEF Moved
<1>4. CC \in Nat \ {0} /\ DOMAIN out = Cells(job.shape) /\ Cells(job.shape) \subseteq Nat
  BY <1>1, ChunkyIs DEF Shapes
<1>5. \A o \in 0 .. CC - 1 : map[i] * CC + o \in Cells(job.shape)
  BY <1>1, <1>3, ChunkIn
<1>6. PICK x \in Nat, src \in {[o \in 0 .. CC - 1 |-> mid[i * CC + o]]} :
        x = map[i] * CC
  <2>1. 0 \in 0 .. CC - 1
    BY <1>4
  <2>2. map[i] * CC \in Nat
    BY <1>1, <1>3, <2>1, ChunkIn
  <2> QED BY <2>2
<1>7. \A o \in 0 .. CC - 1 : src[o] = x + o
  BY <1>1, <1>6 DEF Moved
<1>8. IsCopy(out', out, CC, x, src)
  <2>1. Fits(out, CC, x)
    BY <1>4, <1>5, <1>6 DEF Fits
  <2>2. out' = Copy(out, 0 .. CC - 1, x, src)
    BY <1>2, <1>6
  <2> QED BY <1>4, <2>1, <2>2, CopyIs
<1>9. /\ DOMAIN out' = Cells(job.shape)
      /\ \A a \in Cells(job.shape) : out'[a] = a \/ (out'[a] = out[a] /\ a \notin Slice(CC, map[i]))
  <2> SUFFICES ASSUME NEW a \in Cells(job.shape)
               PROVE  out'[a] = a \/ (out'[a] = out[a] /\ a \notin Slice(CC, map[i]))
    BY <1>4, <1>8 DEF IsCopy
  <2>1. a \in Nat
    BY <1>4
  <2>2. CASE x <= a /\ a < x + CC
    <3>1. PICK r \in Int : r = a - x
      BY <2>1
    <3>2. r \in 0 .. CC - 1 /\ a = x + r
      BY <1>4, <2>1, <2>2, <3>1
    <3> QED BY <1>7, <1>8, <3>2 DEF IsCopy
  <2>3. CASE ~(x <= a /\ a < x + CC)
    <3>1. a < x \/ x + CC <= a
      BY <1>4, <2>1, <2>3
    <3>2. out'[a] = out[a]
      BY <1>4, <1>8, <3>1 DEF IsCopy
    <3>3. a \notin Slice(CC, map[i])
      <4>1. map[i] \in Nat
        BY <1>1, <1>3
      <4> QED BY <1>4, <1>6, <2>1, <2>3, <4>1, SliceIs
    <3> QED BY <3>2, <3>3
  <2> QED BY <2>2, <2>3
<1>10. \A l \in Slots : Slice(CC, map[l]) \subseteq Cells(job.shape)
  <2> SUFFICES ASSUME NEW l \in Slots, NEW p \in Slice(CC, map[l])  PROVE p \in Cells(job.shape)
    OBVIOUS
  <2>1. map[l] \in 0 .. K - 1 /\ K \in Nat /\ K * CC \in 0 .. N(job) /\ Cells(job.shape) = 0 .. N(job) - 1
        /\ N(job) \in Nat
    BY <1>1, <1>3, ChunkyIs
  <2>2. p \in 0 .. K * CC - 1
    BY <1>4, <2>1, SliceIn
  <2> QED BY <2>1, <2>2
<1>11. ChunkDecode'
  <2> SUFFICES ASSUME NEW l \in Slots \ todo', NEW p \in Slice(CC, map[l])  PROVE out'[p] = p
    BY <1>1, <1>2 DEF ChunkDecode, Slots, K, CC
  <2>1. p \in Cells(job.shape)
    BY <1>10
  <2>2. CASE l = i
    BY <1>9, <2>1, <2>2
  <2>3. CASE l # i
    <3>1. out[p] = p
      BY <1>1, <1>2, <2>3
    <3> QED BY <1>9, <2>1, <3>1
  <2> QED BY <2>2, <2>3
<1>12. ChunkLater'
  BY <1>1, <1>2 DEF ChunkLater, Moved, Slots, K, CC
<1>13. Shapes' /\ Resting'
  BY <1>1, <1>2, <1>9 DEF Shapes, Threads, Slots, K, Resting
<1> QED BY <1>1, <1>2, <1>11, <1>12, <1>13 DEF ChunkInv, ChunkRank, Ended

LEMMA ChunksDecoded ==
    ASSUME ReorderAssumption, ChunkInv, Chunky, DecodeEnds
    PROVE  ChunkInv'
<1>1. /\ Shapes /\ ~stray /\ Resting /\ phase = "decode" /\ todo = {} /\ ChunkLater
      /\ \A l \in Slots : Moved(l)
      /\ \A p \in Rest(job) : mid[p] = p
      /\ \A l \in Slots : \A p \in Slice(CC, map[l]) : out[p] = p
  BY DEF ChunkInv, ChunkLater, ChunkDecode, DecodeEnds, LoopEnds
<1>2. /\ job' = job /\ metric' = metric /\ phase' = "done" /\ held' = held /\ map' = map
      /\ stray' = stray /\ mid' = mid
      /\ RasterDecoded \/ ZcurveDecoded \/ TileDecoded \/ FrameDecoded
  BY DEF DecodeEnds, work, rank
<1>3. /\ job.scheme = "frame_shuffle"
      /\ Cells(job.shape) = 0 .. N(job) - 1 /\ N(job) \in Nat /\ Rest(job) = K * CC .. N(job) - 1
      /\ K * CC \in Nat /\ (~FrameRemainder(job) => K * CC = N(job))
      /\ K \in Nat /\ CC \in Nat \ {0} /\ Slots = 0 .. K - 1
  BY <1>1, ChunkyIs
<1>4. /\ result' = Verdict(FrameReturns)
      /\ out' = IF FrameRemainder(job) THEN Copy(out, Rest(job), 0, mid) ELSE out
  BY <1>2, <1>3 DEF RasterDecoded, ZcurveDecoded, TileDecoded, FrameDecoded
<1>5. result' = "success"
  <2>1. FrameReturns = N(job)
    BY <1>3 DEF FrameReturns, K, CC
  <2> QED BY <1>4, <2>1 DEF Verdict
<1>6. \A a \in Cells(job.shape) : a < K * CC => out[a] = a
  <2> SUFFICES ASSUME NEW a \in Cells(job.shape), a < K * CC  PROVE out[a] = a
    OBVIOUS
  <2>1. a \in 0 .. K * CC - 1
    BY <1>3
  <2>2. a \div CC \in 0 .. K - 1 /\ a \in Slice(CC, a \div CC)
    BY <1>3, <2>1, SliceOf
  <2>3. PICK k \in 0 .. K - 1 : a \in Slice(CC, k)
    BY <2>2
  <2>4. PICK i \in Slots : FindFirst(metric, i) = k
    <3>1. IsMetric(metric, K) /\ AreDistinct(metric)
      BY <1>1, ChunkyIs
    <3>2. \E i \in 0 .. K - 1 : FindFirst(metric, i) = k
      BY <3>1, DistinctFinds
    <3> QED BY <1>3, <3>2
  <2>5. map[i] = k
    BY <1>1, <2>4 DEF Moved
  <2> QED BY <1>1, <2>3, <2>5
<1>7. /\ DOMAIN out' = Cells(job.shape)
      /\ \A a \in Cells(job.shape) : out'[a] = a
  <2>1. CASE FrameRemainder(job)
    <3>1. out' = Copy(out, Rest(job), 0, mid)
      BY <1>4, <2>1
    <3>2. \A a \in Cells(job.shape) : /\ Copy(out, Rest(job), 0, mid)[a] = IF a \in Rest(job) THEN mid[a] ELSE out[a]
                                      /\ a \in Rest(job) <=> ~(a < K * CC)
      BY <1>1, RestIs DEF Shapes
    <3>3. DOMAIN Copy(out, Rest(job), 0, mid) = DOMAIN out
      BY DEF Copy
    <3> QED BY <1>1, <1>6, <3>1, <3>2, <3>3 DEF Shapes
  <2>2. CASE ~FrameRemainder(job)
    <3>1. \A a \in Cells(job.shape) : a < K * CC
      BY <1>3, <2>2
    <3> QED BY <1>1, <1>4, <1>6, <2>2, <3>1 DEF Shapes
  <2> QED BY <2>1, <2>2
<1>8. Ended'
  BY <1>2, <1>5, <1>7 DEF Ended, CameBack
<1>9. ChunkLater'
  BY <1>1, <1>2 DEF ChunkLater, Moved, Slots, K, CC
<1>10. Shapes' /\ Resting'
  BY <1>1, <1>2, <1>7 DEF Shapes, Threads, Slots, K, Resting
<1> QED BY <1>1, <1>2, <1>8, <1>9, <1>10 DEF ChunkInv, ChunkRank, ChunkDecode

LEMMA ChunkThread ==
    ASSUME ReorderAssumption, ChunkInv, Chunky, NEW t \in Threads, Thread(t)
    PROVE  ChunkInv'
<1>1. job.scheme = "frame_shuffle" /\ held[t] = Idle /\ phase # "collect" /\ phase # "store"
  BY DEF Chunky, ChunkInv, Resting
<1>2. ~TakeTile(t) /\ ~Shoot(t)
  BY <1>1 DEF TakeTile, Shoot
<1>3. ASSUME NEW u \in todo,
             \/ CollectFull(t, u) \/ CollectCut(t, u)
             \/ RankFull(t, u) \/ RankRest(t, u) \/ RankTile(t, u) \/ FindTile(t, u)
             \/ RasterFull(t, u) \/ RasterRest(t, u) \/ Aim(t, u)
             \/ ZcurveFull(t, u) \/ ZcurveRest(t, u) \/ StoreTile(t, u)
             \/ DecodeRow(t, u) \/ DecodeFrame(t, u) \/ DecodeChunk(t, u) \/ DecodeTiles(t, u)
      PROVE  ChunkInv'
  <2>1. RankFull(t, u) \/ RankRest(t, u) \/ DecodeChunk(t, u)
    BY <1>1, <1>3 DEF CollectFull, CollectCut, Collect, RankTile, FindTile, RasterFull, RasterRest, Aim,
       ZcurveFull, ZcurveRest, StoreTile, DecodeRow, DecodeFrame, DecodeTiles, IsPath
  <2>2. CASE RankFull(t, u) \/ RankRest(t, u)
    BY <2>2, ChunkMoves DEF RankFull, RankRest
  <2> QED BY <2>1, <2>2, ChunkBack
<1> QED BY <1>2, <1>3 DEF Thread

LEMMA ChunkCaller ==
    ASSUME ReorderAssumption, ChunkInv, Chunky, Caller
    PROVE  ChunkInv'
<1>1. phase # "collect" /\ phase # "store" /\ ~Unreadable(job)
  BY DEF Chunky, Good, Handled, ChunkInv
<1>2. ~CollectEnds /\ ~StoreEnds /\ ~HeaderUnreadable
  BY <1>1 DEF CollectEnds, StoreEnds, HeaderUnreadable, LoopEnds
<1> QED BY <1>2, ChunksRanked, ChunkRead, ChunksDecoded DEF Caller

LEMMA ChunkInit ==
    ASSUME ReorderAssumption, Init
    PROVE  ChunkInv
<1> SUFFICES ASSUME Chunky PROVE ChunkInv
  BY DEF ChunkInv
<1>1. /\ job \in Jobs /\ metric \in [Slots -> Levels] /\ phase = FirstPhase(job)
      /\ map = [i \in Slots |-> Junk] /\ held = [t \in Threads |-> Idle]
      /\ mid = [o \in Cells(job.shape) |-> Junk] /\ out = [p \in Cells(job.shape) |-> Junk]
      /\ ~stray /\ todo = Units(job, phase)
  BY DEF Init, Slots, K
<1>2. phase = "rank"
  BY <1>1 DEF FirstPhase, Chunky
<1>3. Shapes /\ Resting
  BY <1>1 DEF Shapes, Resting
<1>4. ChunkRank
  BY <1>1, <1>2, <1>3, ChunkyIs DEF ChunkRank
<1> QED BY <1>1, <1>2, <1>3, <1>4 DEF ChunkInv, ChunkLater, ChunkDecode, Ended

-----------------------------------------------------------------------------
(* tile_shuffle: tiles in any order *)

\* A volume that tile_shuffle handles, and the cells of a complete tile.
Tiled == Good /\ job.scheme = "tile_shuffle"
TC == Product(Full(job))

FullTiles == /\ DOMAIN tiles = Tiles(job)
             /\ \A k \in Tiles(job) : DOMAIN tiles[k] = 0 .. TC - 1
CutTiles  == /\ DOMAIN tiles = Tiles(job)
             /\ \A k \in Tiles(job) : DOMAIN tiles[k] = 0 .. TileSize(job)[k] - 1

\* Cell p is in its tile.
Collected(p) == tiles[TileNo(job, p)][Spot(job, p)] = p
AllCollected == \A p \in Cells(job.shape) : Collected(p)

\* Where the i-th tile of the sorted metric begins.
Start(i) == Begin(InOrder(job, map), i)

\* The i-th tile is stored: with complete tiles at once, else after the search.
TileMoved(i) == /\ map[i] = FindFirst(metric, i)
                /\ \A o \in 0 .. TC - 1 : mid[i * TC + o] = tiles[map[i]][o]
TileStored(i) == \A o \in 0 .. TileSize(job)[map[i]] - 1 : mid[Start(i) + o] = tiles[map[i]][o]

\* Every tile is stored, and cell p is stored with its tile.
Permuted == IsOrder(job, map, K) /\ \A k \in Tiles(job) : \E i \in Slots : map[i] = k
Shuffled(p) == \A i \in Slots : map[i] = TileNo(job, p) => mid[Start(i) + Spot(job, p)] = p
AllShuffled == \A p \in Cells(job.shape) : Shuffled(p)

TileWhole == Path(job) = "full" => ~stray /\ Resting /\ phase # "store"
TileCollect ==
    phase = "collect" =>
      /\ todo \subseteq 0 .. job.shape[1] - 1 /\ FullTiles
      /\ \A z \in (0 .. job.shape[1] - 1) \ todo : \A p \in Frame(z) : Collected(p)
TileSort == phase = "rank" \/ phase = "store" => FullTiles /\ AllCollected
TileRank == phase = "rank" /\ Path(job) = "full" =>
              todo \subseteq Slots /\ \A i \in Slots \ todo : TileMoved(i)
TileStore == phase = "store" => todo \subseteq Slots /\ \A i \in Slots \ todo : TileStored(i)
TileLater == phase \in {"header", "decode", "done"} => Permuted /\ AllShuffled
TileDecode == phase = "decode" => CutTiles /\ todo \subseteq {0} /\ (todo = {} => CameBack)

TileInv ==
    Tiled => /\ Shapes /\ phase \in {"collect", "rank", "store", "header", "decode", "done"}
             /\ TileWhole /\ TileCollect /\ TileSort /\ TileRank /\ TileStore
             /\ TileLater /\ TileDecode /\ Ended

\* What a job of tile_shuffle is.
LEMMA TiledIs ==
    ASSUME ReorderAssumption, Tiled, job \in Jobs
    PROVE  /\ IsJob(job) /\ job.scheme = "tile_shuffle" /\ job \in TileJobs /\ Shuffles(job)
           /\ K \in Nat \ {0} /\ Slots = Tiles(job) /\ Slots = 0 .. K - 1 /\ ~Unreadable(job)
           /\ Units(job, "collect") = 0 .. job.shape[1] - 1
           /\ Units(job, "rank") = Slots /\ Units(job, "store") = Slots
           /\ Units(job, "decode") = {0}
           /\ Path(job) = "full" \/ Path(job) = "remainder"
           /\ Path(job) = "full" <=> AllWhole(job)
           /\ Path(job) = "remainder" <=> Cutting
           /\ Path(job) = "full" /\ metric \in [Slots -> Levels] =>
                IsMetric(metric, K) /\ AreDistinct(metric)
<1>1. /\ IsJob(job) /\ job.scheme = "tile_shuffle" /\ job \in TileJobs /\ Shuffles(job)
  BY JobIs DEF Tiled, TileJobs, Shuffles
<1>2. Path(job) = IF TileRemainder(job) THEN "remainder" ELSE "full"
  BY <1>1 DEF Path, TilePath
<1>3. TileRemainder(job) <=> ~AllWhole(job)
  BY DEF TileRemainder, AllWhole
<1>4. K \in Nat \ {0} /\ Slots = Tiles(job)
  <2>1. Product(TilesPerDim(job)) \in Nat \ {0}
    BY <1>1, TileNumbers
  <2>2. PICK x \in Nat \ {0}, e \in Nat : x = Product(TilesPerDim(job)) /\ e = x - 1
    BY <2>1
  <2>3. Tiles(job) = 0 .. e
    BY <2>2 DEF Tiles
  <2>4. Cardinality(0 .. e) = e - 0 + 1
    BY <2>2, FS_Interval
  <2>5. K = x
    BY <1>1, <2>2, <2>3, <2>4 DEF K, Sorted
  <2> QED BY <2>2, <2>3, <2>5 DEF Slots
<1>5. /\ Units(job, "collect") = 0 .. job.shape[1] - 1
      /\ Units(job, "rank") = Slots /\ Units(job, "store") = Slots
      /\ Units(job, "decode") = {0}
  <2>1. Path(job) # "simd"
    BY <1>2
  <2> QED BY <1>1, <2>1 DEF Units, Slots, K
<1>6. ~Unreadable(job)
  BY <1>4 DEF Unreadable, K
<1>7. ASSUME Path(job) = "full", metric \in [Slots -> Levels]
      PROVE  IsMetric(metric, K) /\ AreDistinct(metric)
  <2>1. AreDistinct(metric)
    BY <1>1, <1>7 DEF Tiled, Good, Handled, AreDistinct
  <2> QED BY <1>4, <1>7, <2>1 DEF IsMetric, Slots, ReorderAssumption
<1>8. Path(job) = "remainder" <=> Cutting
  BY <1>1 DEF Cutting, IsPath
<1>9. Slots = 0 .. K - 1
  BY DEF Slots
<1> QED BY <1>1, <1>2, <1>3, <1>4, <1>5, <1>6, <1>7, <1>8, <1>9

\* A tile is not larger than a complete one.
LEMMA TileSmall ==
    ASSUME NEW j, IsJob(j), NEW k \in Tiles(j)
    PROVE  /\ TileSize(j)[k] \in 0 .. Product(Full(j)) /\ TileSize(j)[k] \in Nat
           /\ Product(Full(j)) \in Nat \ {0}
<1> DEFINE t == Coord(TilesPerDim(j), k)
<1>1. IsTile(j, t)
  BY TileNumbers
<1>2. TileSize(j)[k] = Product(CutAtFace(j, t))
  BY DEF TileSize, Size
<1> HIDE DEF t
<1>3. PICK s \in Nat \ {0} : s = j.ts
  BY DEF IsJob
<1>4. \A d \in Axes : CutAtFace(j, t)[d] \in 1 .. s
  BY <1>1, <1>3, Extents
<1>5. PICK a \in 1 .. s, b \in 1 .. s, c \in 1 .. s :
        a = CutAtFace(j, t)[1] /\ b = CutAtFace(j, t)[2] /\ c = CutAtFace(j, t)[3]
  <2>1. 1 \in Axes /\ 2 \in Axes /\ 3 \in Axes
    BY DEF Axes
  <2> QED BY <1>4, <2>1
<1>6. a * b <= s * s /\ a * b \in Nat /\ s * s \in Nat
  <2>1. a * b <= s * b /\ s * b <= s * s /\ a * b \in Nat /\ s * b \in Nat /\ s * s \in Nat
    BY <1>3, <1>5, TimesMono
  <2> QED BY <2>1
<1>7. 1 <= s * s
  <2>1. 1 * 1 <= 1 * s /\ 1 * s <= s * s /\ 1 * s = s
    BY <1>3, TimesMono
  <2> QED BY <1>3, <1>6, <2>1
<1>8. PICK g \in Nat, h \in Nat : g = a * b /\ h = s * s /\ g <= h /\ 1 <= h
  BY <1>6, <1>7
<1>9. g * c <= h * s /\ g * c \in Nat /\ h * s \in Nat /\ 1 <= h * s
  <2>1. g * c <= h * c /\ h * c <= h * s /\ g * c \in Nat /\ h * c \in Nat /\ h * s \in Nat
    BY <1>3, <1>5, <1>8, TimesMono
  <2>2. 1 * 1 <= 1 * s /\ 1 * s <= h * s /\ 1 * s = s
    BY <1>3, <1>8, TimesMono
  <2> QED BY <1>3, <2>1, <2>2
<1>10. Product(CutAtFace(j, t)) = g * c
  BY <1>5, <1>8 DEF Product
<1>11. Product(Full(j)) = h * s
  BY <1>3, <1>8 DEF Product, Full
<1> QED BY <1>2, <1>9, <1>10, <1>11

\* With complete tiles all of them have the same size.
LEMMA WholeStart ==
    ASSUME NEW j, IsJob(j), AllWhole(j), NEW m, NEW num, IsOrder(j, m, num), NEW i \in 0 .. num - 1
    PROVE  /\ Begin(InOrder(j, m), i) = i * Product(Full(j))
           /\ TileSize(j)[m[i]] = Product(Full(j)) /\ Product(Full(j)) \in Nat
<1>1. /\ num \in Nat /\ \A l \in 0 .. num - 1 : m[l] \in Tiles(j)
      /\ \A l \in 0 .. num - 1 : InOrder(j, m)[l] = TileSize(j)[m[l]]
  <2>1. \A l \in 0 .. num - 1 : InOrder(j, m)[l] = TileSize(j)[m[l]]
    BY OrderedSizes
  <2> QED BY <2>1 DEF IsOrder
<1>2. \A l \in 0 .. num - 1 : TileSize(j)[m[l]] = Product(Full(j)) /\ Product(Full(j)) \in Nat
  BY <1>1, WholeBegin
<1>3. PICK c \in Nat : c = Product(Full(j))
  BY <1>2
<1>4. \A l \in 0 .. num - 1 : InOrder(j, m)[l] = c
  BY <1>1, <1>2, <1>3
<1>5. Begin(InOrder(j, m), i) = i * c
  <2>1. i \in 0 .. num
    BY <1>1
  <2> QED BY <1>1, <1>4, <2>1, BeginOfEqual
<1> QED BY <1>2, <1>3, <1>5

\* The spot of a cell is in its tile, complete or cut.
LEMMA SpotInTile ==
    ASSUME NEW j, IsJob(j), NEW p \in Cells(j.shape)
    PROVE  /\ TileNo(j, p) \in Tiles(j)
           /\ Spot(j, p) \in 0 .. TileSize(j)[TileNo(j, p)] - 1
           /\ Spot(j, p) \in 0 .. Product(Full(j)) - 1
<1>1. PICK k \in Tiles(j), o \in Int, x \in Nat :
        k = TileNo(j, p) /\ o = Spot(j, p) /\ x = TileSize(j)[k] /\ o \in 0 .. x - 1
  BY SpotIn
<1>2. PICK y \in Nat : y = Product(Full(j)) /\ x <= y
  BY <1>1, TileSmall
<1> QED BY <1>1, <1>2

\* A frame is cut: its cells are in their tiles, and no other cell is disturbed.
LEMMA FrameCollected ==
    ASSUME ReorderAssumption, job \in TileJobs, IsJob(job), FullTiles,
           NEW t \in Threads, NEW z \in 0 .. job.shape[1] - 1, Collect(t, z)
    PROVE  /\ job' = job /\ FullTiles'
           /\ \A p \in Frame(z) : p \in Cells(job.shape) /\ Collected(p)'
           /\ \A p \in Cells(job.shape) : p \notin Frame(z) /\ Collected(p) => Collected(p)'
<1> DEFINE F == Frame(z)
           In(k) == {p \in F : PlaceOf[job][p][1] = k}
<1>1. F \subseteq Cells(job.shape)
  BY FramesOf, FrameIs, SliceIn
<1>2. \A p \in Cells(job.shape) : PlaceOf[job][p][1] = TileNo(job, p) /\ PlaceOf[job][p][2] = Spot(job, p)
  BY PlaceIs
<1>3. /\ job' = job
      /\ tiles' = [k \in Tiles(job) |->
                     [o \in DOMAIN tiles[k] |->
                        IF \E p \in In(k) : PlaceOf[job][p][2] = o
                          THEN CHOOSE p \in In(k) : PlaceOf[job][p][2] = o
                          ELSE tiles[k][o]]]
  BY Zenon DEF Collect
<1>4. FullTiles'
  <2> HIDE DEF In
  <2>1. DOMAIN tiles' = Tiles(job) /\ \A k \in Tiles(job) : DOMAIN tiles'[k] = DOMAIN tiles[k]
    BY <1>3
  <2> QED BY <1>3, <2>1 DEF FullTiles, TC
<1> HIDE DEF F
<1>5. ASSUME NEW p \in Cells(job.shape)
      PROVE  /\ p \in F => Collected(p)'
             /\ p \notin F /\ Collected(p) => Collected(p)'
  <2>1. PICK k \in Tiles(job), o \in 0 .. TC - 1 : k = TileNo(job, p) /\ o = Spot(job, p)
    BY SpotInTile DEF TC
  <2>2. DOMAIN tiles[k] = 0 .. TC - 1
    BY DEF FullTiles
  <2>3. \A q \in In(k) : PlaceOf[job][q][2] = o => q = p
    BY <1>1, <1>2, <2>1, SpotUnique
  <2>4. Collected(p) <=> tiles[k][o] = p
    BY <2>1 DEF Collected
  <2>5. Collected(p)' <=> tiles'[k][o] = p
    BY <1>3, <2>1 DEF Collected
  <2>6. p \in F => p \in In(k) /\ PlaceOf[job][p][2] = o
    BY <1>2, <2>1
  <2>7. p \notin F => p \notin In(k)
    OBVIOUS
  <2> HIDE DEF In
  <2>8. tiles'[k][o] = IF \E q \in In(k) : PlaceOf[job][q][2] = o
                         THEN CHOOSE q \in In(k) : PlaceOf[job][q][2] = o
                         ELSE tiles[k][o]
    BY <1>3, <2>1, <2>2
  <2>9. CASE p \in F
    BY <2>3, <2>5, <2>6, <2>8, <2>9
  <2>10. CASE p \notin F
    BY <2>3, <2>4, <2>5, <2>7, <2>8, <2>10
  <2> QED BY <2>9, <2>10
<1> QED BY <1>1, <1>3, <1>4, <1>5 DEF F

LEMMA TileCollects ==
    ASSUME ReorderAssumption, TileInv, Tiled, NEW t \in Threads, NEW z \in todo, Collect(t, z)
    PROVE  TileInv'
<1>1. /\ Shapes /\ phase = "collect" /\ todo \subseteq 0 .. job.shape[1] - 1 /\ FullTiles
      /\ \A u \in (0 .. job.shape[1] - 1) \ todo : \A p \in Frame(u) : Collected(p)
      /\ IsJob(job) /\ job \in TileJobs
  BY TiledIs DEF TileInv, TileCollect, Collect, Shapes
<1>2. /\ job' = job /\ metric' = metric /\ phase' = phase /\ todo' = todo \ {z} /\ held' = held /\ map' = map
      /\ mid' = mid /\ stray' = stray /\ out' = out /\ result' = result
  BY DEF Collect, rank
<1>3. /\ FullTiles'
      /\ \A p \in Frame(z) : Collected(p)'
      /\ \A p \in Cells(job.shape) : p \notin Frame(z) /\ Collected(p) => Collected(p)'
  BY <1>1, FrameCollected
<1>4. \A u \in 0 .. job.shape[1] - 1 : Frame(u) \subseteq Cells(job.shape)
  BY <1>1, FramesOf, FrameIs, SliceIn
<1>5. ASSUME NEW u \in (0 .. job.shape[1] - 1) \ todo', NEW p \in Frame(u)
      PROVE  Collected(p)'
  <2>1. CASE p \in Frame(z)
    BY <1>3, <2>1
  <2>2. CASE p \notin Frame(z)
    BY <1>1, <1>2, <1>3, <1>4, <2>2
  <2> QED BY <2>1, <2>2
<1>6. TileCollect'
  <2>1. \A u : Frame(u)' = Frame(u)
    BY <1>2 DEF Frame
  <2> QED BY <1>1, <1>2, <1>3, <1>5, <2>1 DEF TileCollect
<1>7. Shapes'
  BY <1>1, <1>2 DEF Shapes, Threads, Slots, K
<1>8. TileWhole'
  BY <1>1, <1>2 DEF TileInv, TileWhole, Resting, Threads
<1> QED BY <1>1, <1>2, <1>6, <1>7, <1>8 DEF TileInv, TileSort, TileRank, TileStore, TileLater, TileDecode, Ended

\* All cells are in their tiles when the loop over the frames ends.
LEMMA TilesCollected ==
    ASSUME ReorderAssumption, TileInv, Tiled, CollectEnds
    PROVE  TileInv'
<1>1. /\ Shapes /\ phase = "collect" /\ todo = {} /\ FullTiles
      /\ \A u \in 0 .. job.shape[1] - 1 : \A p \in Frame(u) : Collected(p)
      /\ IsJob(job) /\ Units(job, "rank") = Slots
  BY TiledIs DEF TileInv, TileCollect, CollectEnds, LoopEnds, Shapes
<1>2. /\ job' = job /\ metric' = metric /\ phase' = "rank" /\ todo' = Slots /\ held' = held /\ map' = map
      /\ tiles' = tiles /\ mid' = mid /\ stray' = stray /\ out' = out /\ result' = result
  BY <1>1 DEF CollectEnds, Enter, rank
<1>3. AllCollected
  <2> SUFFICES ASSUME NEW p \in Cells(job.shape)  PROVE Collected(p)
    BY DEF AllCollected
  <2>1. PICK a \in Nat, b \in Nat \ {0} : a = job.shape[1] /\ b = job.shape[2] * job.shape[3]
                                          /\ Cells(job.shape) = 0 .. a * b - 1
    BY <1>1, FramesOf
  <2>2. p \div b \in 0 .. a - 1 /\ p \in Slice(b, p \div b)
    BY <2>1, SliceOf
  <2>3. PICK u \in 0 .. a - 1 : p \in Slice(b, u)
    BY <2>2
  <2> QED BY <1>1, <2>1, <2>3, FrameIs
<1>4. TileSort'
  BY <1>1, <1>2, <1>3 DEF TileSort, FullTiles, TC, AllCollected, Collected
<1>5. Shapes' /\ (Tiled' => TileWhole' /\ TileRank')
  BY <1>1, <1>2 DEF Shapes, Threads, Slots, K, TileInv, TileWhole, TileRank, Resting
<1> QED BY <1>1, <1>2, <1>4, <1>5 DEF TileInv, TileCollect, TileStore, TileLater, TileDecode, Ended

\* With complete tiles: the i-th place gets its tile.
LEMMA TileMoves ==
    ASSUME ReorderAssumption, TileInv, Tiled, NEW t \in Threads, NEW i \in todo, RankTile(t, i)
    PROVE  TileInv'
<1> DEFINE k == FindFirst(metric, i)
<1>1. /\ Shapes /\ phase = "rank" /\ Path(job) = "full" /\ ~stray /\ Resting /\ FullTiles /\ AllCollected
      /\ todo \subseteq Slots /\ i \in Slots
      /\ \A l \in Slots \ todo : TileMoved(l)
  BY DEF TileInv, TileWhole, TileSort, TileRank, RankTile, IsPath, Rank
<1>2. /\ job' = job /\ metric' = metric /\ phase' = "rank" /\ todo' = todo \ {i} /\ held' = held
      /\ map' = [map EXCEPT ![i] = k] /\ tiles' = tiles
      /\ mid' = Copy(mid, 0 .. TC - 1, i * TC, tiles[k])
      /\ stray' = (stray \/ Outside(mid, 0 .. TC - 1, i * TC))
      /\ out' = out /\ result' = result
  BY <1>1 DEF RankTile, Rank, TC
<1>3. /\ IsJob(job) /\ AllWhole(job) /\ K \in Nat /\ Slots = 0 .. K - 1 /\ Slots = Tiles(job)
      /\ IsMetric(metric, K)
  BY <1>1, TiledIs DEF Shapes
<1>4. /\ k \in Slots /\ TC \in Nat \ {0}
      /\ DOMAIN mid \subseteq Nat /\ DOMAIN mid = Cells(job.shape)
  <2>1. k \in 0 .. K - 1
    BY <1>1, <1>3, FindsFirst
  <2>2. TC \in Nat \ {0}
    BY <1>1, <1>3, TileSmall DEF TC
  <2>3. Cells(job.shape) \subseteq Nat
    BY <1>3, FramesOf
  <2> QED BY <1>1, <1>3, <2>1, <2>2, <2>3 DEF Shapes
<1>5. \A l \in Slots : \A o \in 0 .. TC - 1 : l * TC + o \in DOMAIN mid /\ l * TC \in Nat
  <2> DEFINE m == [l \in Tiles(job) |-> l]
  <2>1. PICK num \in Nat : num = Product(TilesPerDim(job)) /\ IsOrder(job, m, num)
    BY <1>3, TilesInOrder
  <2>2. Slots = 0 .. num - 1
    BY <1>3, <2>1 DEF Tiles
  <2> SUFFICES ASSUME NEW l \in Slots, NEW o \in 0 .. TC - 1
               PROVE  l * TC + o \in DOMAIN mid /\ l * TC \in Nat
    OBVIOUS
  <2>3. l \in 0 .. num - 1
    BY <2>2
  <2> HIDE DEF m
  <2>4. Begin(InOrder(job, m), l) = l * TC /\ TileSize(job)[m[l]] = TC
    BY <1>3, <2>1, <2>3, WholeStart DEF TC
  <2>5. o \in 0 .. TileSize(job)[m[l]] - 1
    BY <2>4
  <2>6. Begin(InOrder(job, m), l) + o \in Cells(job.shape)
    BY <1>3, <2>1, <2>3, <2>5, StoredInside
  <2>7. l * TC \in Nat
    BY <1>4, <2>1, <2>3, InUnits
  <2> QED BY <1>4, <2>4, <2>6, <2>7
<1>6. i * TC \in Nat
  <2>1. 0 \in 0 .. TC - 1
    BY <1>4
  <2> QED BY <1>1, <1>5, <2>1
<1> HIDE DEF k
<1>7. PICK x \in Nat, src \in {tiles[k]} : x = i * TC /\ src = tiles[k]
  BY <1>6
<1>8. IsCopy(mid', mid, TC, x, src) /\ ~stray'
  <2>1. Fits(mid, TC, x)
    BY <1>1, <1>5, <1>7 DEF Fits
  <2>2. mid' = Copy(mid, 0 .. TC - 1, x, src) /\ stray' = (stray \/ Outside(mid, 0 .. TC - 1, x))
    BY <1>2, <1>7
  <2>3. IsCopy(mid', mid, TC, x, src) /\ ~Outside(mid, 0 .. TC - 1, x)
    BY <1>4, <2>1, <2>2, CopyIs
  <2> QED BY <1>1, <2>2, <2>3
<1>9. map'[i] = k /\ DOMAIN map' = DOMAIN map /\ \A l \in Slots : l # i => map'[l] = map[l]
  BY <1>1, <1>2 DEF Shapes
<1>10. ASSUME NEW l \in Slots \ todo'
       PROVE  /\ map'[l] = FindFirst(metric, l)
              /\ \A o \in 0 .. TC - 1 : mid'[l * TC + o] = tiles[map'[l]][o]
  <2>1. CASE l = i
    <3>1. \A o \in 0 .. TC - 1 : mid'[i * TC + o] = tiles[k][o]
      BY <1>7, <1>8 DEF IsCopy
    <3> QED BY <1>9, <2>1, <3>1 DEF k
  <2>2. CASE l # i
    <3>1. map[l] = FindFirst(metric, l) /\ \A o \in 0 .. TC - 1 : mid[l * TC + o] = tiles[map[l]][o]
      BY <1>1, <1>2, <2>2 DEF TileMoved
    <3>2. ASSUME NEW o \in 0 .. TC - 1  PROVE mid'[l * TC + o] = mid[l * TC + o]
      <4>1. l * TC + o \in DOMAIN mid /\ l * TC \in Nat /\ l \in Nat /\ i \in Nat
        BY <1>1, <1>3, <1>5
      <4>2. PICK a \in Nat : a = l * TC + o
        BY <1>4, <4>1
      <4>3. ~(x <= a /\ a < x + TC)
        <5> SUFFICES ASSUME x <= a, a < x + TC  PROVE FALSE
          OBVIOUS
        <5>1. PICK r \in 0 .. TC - 1 : a = x + r
          <6>1. PICK r \in Int : r = a - x
            OBVIOUS
          <6>2. r \in 0 .. TC - 1 /\ a = x + r
            BY <1>4, <6>1
          <6> QED BY <6>2
        <5>2. l * TC + o = i * TC + r
          BY <1>7, <4>2, <5>1
        <5>3. l = i
          BY <1>4, <4>1, <5>2, UnitsUnique
        <5> QED BY <2>2, <5>3
      <4>4. a \in DOMAIN mid /\ (a < x \/ x + TC <= a)
        BY <1>4, <4>1, <4>2, <4>3
      <4> QED BY <1>8, <4>2, <4>4 DEF IsCopy
    <3> QED BY <1>9, <2>2, <3>1, <3>2
  <2> QED BY <2>1, <2>2
<1>11. TileRank' /\ TileSort'
  <2>1. TileRank'
    BY <1>1, <1>2, <1>10 DEF TileRank, TileMoved, Slots, K, TC
  <2>2. TileSort'
    BY <1>1, <1>2 DEF TileSort, FullTiles, TC, AllCollected, Collected
  <2> QED BY <2>1, <2>2
<1>12. Shapes'
  BY <1>1, <1>2, <1>8, <1>9 DEF Shapes, Threads, Slots, K, IsCopy
<1>13. TileWhole'
  BY <1>1, <1>2, <1>8 DEF TileWhole, Resting, Threads
<1> QED BY <1>2, <1>11, <1>12, <1>13 DEF TileInv, TileCollect, TileStore, TileLater, TileDecode, Ended

\* The search for free tiles stores nothing yet.
LEMMA TileSearches ==
    ASSUME ReorderAssumption, TileInv, Tiled, NEW t \in Threads,
           TakeTile(t) \/ \E i \in todo : FindTile(t, i)
    PROVE  TileInv'
<1>1. phase = "rank" /\ Shapes /\ IsJob(job) /\ Path(job) # "full"
  <2>1. CASE TakeTile(t)
    <3>1. phase = "rank" /\ held[t] # Idle /\ t \in Threads
      BY <2>1 DEF TakeTile
    <3>2. Shapes
      BY DEF TileInv
    <3> QED BY <3>1, <3>2, TiledIs DEF TileInv, TileWhole, Resting, Shapes
  <2>2. ASSUME NEW i \in todo, FindTile(t, i)  PROVE phase = "rank" /\ Path(job) # "full"
    BY <2>2 DEF FindTile, IsPath
  <2> QED BY <2>1, <2>2, TiledIs DEF TileInv, Shapes
<1>2. /\ job' = job /\ metric' = metric /\ phase' = "rank" /\ tiles' = tiles /\ mid' = mid /\ out' = out
      /\ result' = result /\ DOMAIN held' = DOMAIN held /\ DOMAIN map' = DOMAIN map
  <2>1. CASE TakeTile(t)
    BY <1>1, <2>1 DEF TakeTile
  <2>2. ASSUME NEW i \in todo, FindTile(t, i)
        PROVE  /\ job' = job /\ metric' = metric /\ phase' = "rank" /\ tiles' = tiles /\ mid' = mid /\ out' = out
               /\ result' = result /\ DOMAIN held' = DOMAIN held /\ DOMAIN map' = DOMAIN map
    BY <1>1, <2>2 DEF FindTile, rank
  <2> QED BY <2>1, <2>2
<1>3. Shapes'
  BY <1>1, <1>2 DEF Shapes, Threads, Slots, K
<1>4. TileSort'
  BY <1>1, <1>2 DEF TileInv, TileSort, FullTiles, TC, AllCollected, Collected
<1> QED BY <1>1, <1>2, <1>3, <1>4 DEF TileInv, TileWhole, TileCollect, TileRank, TileStore, TileLater,
           TileDecode, Ended

\* The tiles are stored one behind the other in an order of all tiles.
LEMMA TilesRanked ==
    ASSUME ReorderAssumption, TileInv, Tiled, RankEnds
    PROVE  TileInv'
<1>1. /\ Shapes /\ phase = "rank" /\ todo = {} /\ Resting /\ FullTiles /\ AllCollected
  BY DEF TileInv, TileSort, RankEnds, LoopEnds, Resting
<1>2. /\ IsJob(job) /\ job.scheme = "tile_shuffle" /\ K \in Nat \ {0} /\ Slots = Tiles(job) /\ Slots = 0 .. K - 1
      /\ Units(job, "store") = Slots
  BY <1>1, TiledIs DEF Shapes
<1>3. /\ job' = job /\ metric' = metric /\ held' = held /\ map' = map /\ tiles' = tiles /\ stray' = stray
      /\ mid' = mid /\ out' = out /\ result' = result
      /\ IF Path(job) = "remainder" THEN phase' = "store" /\ todo' = Slots ELSE phase' = "header"
  <2>1. ~IsPath("frame_shuffle", "remainder") /\ (IsPath("tile_shuffle", "remainder") <=> Path(job) = "remainder")
    BY <1>2 DEF IsPath
  <2> QED BY <1>2, <2>1 DEF RankEnds, Enter, rank
<1>4. Shapes' /\ Resting'
  BY <1>1, <1>3 DEF Shapes, Threads, Slots, K, Resting
<1>5. CASE Path(job) = "remainder"
  <2>1. TileSort' /\ TileStore' /\ TileWhole'
    BY <1>1, <1>3, <1>5 DEF TileSort, FullTiles, TC, AllCollected, Collected, TileStore, Slots, K, TileWhole
  <2> QED BY <1>3, <1>4, <1>5, <2>1 DEF TileInv, TileCollect, TileRank, TileLater, TileDecode, Ended
<1>6. CASE Path(job) # "remainder"
  <2>1. /\ Path(job) = "full" /\ AllWhole(job) /\ IsMetric(metric, K) /\ AreDistinct(metric)
    BY <1>1, <1>6, TiledIs DEF Shapes
  <2>2. \A i \in Slots : TileMoved(i)
    BY <1>1, <2>1 DEF TileInv, TileRank
  <2>3. IsOrder(job, map, K)
    <3>1. DOMAIN map = 0 .. K - 1
      BY <1>1, <1>2 DEF Shapes
    <3>2. \A i \in 0 .. K - 1 : map[i] = FindFirst(metric, i)
      BY <1>2, <2>2 DEF TileMoved
    <3>0. /\ \A l \in 0 .. K - 1 : FindFirst(metric, l) \in 0 .. K - 1
          /\ \A k, l \in 0 .. K - 1 : FindFirst(metric, k) = FindFirst(metric, l) => k = l
      BY <2>1, DistinctFinds
    <3>3. \A l \in 0 .. K - 1 : map[l] \in Tiles(job)
      BY <1>2, <3>0, <3>2
    <3>4. \A k, l \in 0 .. K - 1 : map[k] = map[l] => k = l
      BY <3>0, <3>2
    <3> QED BY <1>2, <3>1, <3>3, <3>4 DEF IsOrder
  <2>4. \A k \in Tiles(job) : \E i \in Slots : map[i] = k
    <3> SUFFICES ASSUME NEW k \in 0 .. K - 1  PROVE \E i \in 0 .. K - 1 : map[i] = k
      BY <1>2
    <3>1. PICK i \in 0 .. K - 1 : FindFirst(metric, i) = k
      BY <2>1, DistinctFinds
    <3> QED BY <1>2, <2>2, <3>1 DEF TileMoved
  <2>5. AllShuffled
    <3> SUFFICES ASSUME NEW p \in Cells(job.shape), NEW i \in Slots, map[i] = TileNo(job, p)
                 PROVE  mid[Start(i) + Spot(job, p)] = p
      BY DEF AllShuffled, Shuffled
    <3>1. Start(i) = i * TC
      <4>1. i \in 0 .. K - 1
        BY <1>2
      <4> QED BY <1>2, <2>1, <2>3, <4>1, WholeStart DEF Start, TC
    <3>2. Spot(job, p) \in 0 .. TC - 1
      BY <1>2, SpotInTile DEF TC
    <3>3. mid[i * TC + Spot(job, p)] = tiles[map[i]][Spot(job, p)]
      BY <2>2, <3>2 DEF TileMoved
    <3>4. tiles[map[i]][Spot(job, p)] = p
      BY <1>1 DEF AllCollected, Collected
    <3> QED BY <3>1, <3>3, <3>4
  <2>6. TileLater'
    BY <1>3, <2>3, <2>4, <2>5 DEF TileLater, Permuted, AllShuffled, Shuffled, Start, Slots, K
  <2>7. TileWhole'
    BY <1>3, <1>4, <1>6, <2>1 DEF TileInv, TileWhole
  <2> QED BY <1>3, <1>4, <1>6, <2>6, <2>7
          DEF TileInv, TileCollect, TileSort, TileRank, TileStore, TileDecode, Ended
<1> QED BY <1>5, <1>6

\* After the search every tile has its place.
LEMMA SearchEnded ==
    ASSUME ReorderAssumption, ReorderInv, Cutting, phase = "store", Tiled, Shapes
    PROVE  IsOrder(job, map, K)
<1>1. K \in Nat /\ Slots = 0 .. K - 1 /\ Slots = Tiles(job) /\ DOMAIN map = 0 .. K - 1
  BY TiledIs DEF Shapes
<1>2. Placed = 0 .. K - 1
  BY <1>1 DEF ReorderInv, SearchInv, Late
<1>3. /\ \A l \in 0 .. K - 1 : map[l] \in Tiles(job)
      /\ \A l, m \in 0 .. K - 1 : map[l] = map[m] => l = m
  BY <1>1, <1>2, Zenon DEF ReorderInv, FoundInv, Parked
<1> QED BY <1>1, <1>3 DEF IsOrder

\* The i-th tile is stored where no other tile is.
LEMMA TileStores ==
    ASSUME ReorderAssumption, TileInv, Tiled, ReorderInv, NEW t \in Threads, NEW i \in todo, StoreTile(t, i)
    PROVE  TileInv'
<1> DEFINE k == map[i]
           num == TileSize(job)[k]
<1>1. /\ Shapes /\ phase = "store" /\ Path(job) # "full" /\ FullTiles /\ AllCollected
      /\ todo \subseteq Slots /\ i \in Slots
      /\ \A l \in Slots \ todo : TileStored(l)
  BY DEF TileInv, TileWhole, TileSort, TileStore, StoreTile
<1>2. /\ IsJob(job) /\ job \in TileJobs /\ Cutting /\ K \in Nat /\ Slots = 0 .. K - 1 /\ SizeOf[job] = TileSize(job)
  BY <1>1, TiledIs, PlaceIs DEF Shapes
<1>3. IsOrder(job, map, K)
  BY <1>1, <1>2, SearchEnded
<1>4. /\ job' = job /\ metric' = metric /\ phase' = "store" /\ todo' = todo \ {i} /\ held' = held
      /\ map' = map /\ tiles' = tiles
      /\ mid' = Copy(mid, 0 .. num - 1, Start(i), tiles[k])
      /\ out' = out /\ result' = result
  <2>1. Before(job, map, i) = Start(i)
    BY <1>2, BeforeIs DEF Start
  <2> QED BY <1>1, <1>2, <2>1 DEF StoreTile, rank
<1>5. /\ num \in Nat /\ Start(i) \in Nat /\ k \in Tiles(job)
      /\ \A l \in Slots : map[l] \in Tiles(job) /\ Start(l) \in Nat /\ TileSize(job)[map[l]] \in Nat
  <2>1. \A l \in Slots : map[l] \in Tiles(job)
    BY <1>2, <1>3 DEF IsOrder
  <2>2. \A l \in Slots : TileSize(job)[map[l]] \in Nat
    BY <1>2, <2>1, TileSmall
  <2>3. AreSizes(InOrder(job, map), K)
    BY <1>2, <1>3, OrderedSizes
  <2>4. \A l \in 0 .. K - 1 : Begin(InOrder(job, map), l) \in Nat
    BY <2>3, BeginNext
  <2>5. \A l \in Slots : Start(l) \in Nat
    BY <1>2, <2>4 DEF Start
  <2> QED BY <1>1, <2>1, <2>2, <2>5
<1>6. \A l \in Slots : \A o \in 0 .. TileSize(job)[map[l]] - 1 : Start(l) + o \in DOMAIN mid
  <2> SUFFICES ASSUME NEW l \in Slots, NEW o \in 0 .. TileSize(job)[map[l]] - 1
               PROVE  Start(l) + o \in DOMAIN mid
    OBVIOUS
  <2>1. l \in 0 .. K - 1
    BY <1>2
  <2>2. Begin(InOrder(job, map), l) + o \in Cells(job.shape)
    BY <1>2, <1>3, <2>1, StoredInside
  <2> QED BY <1>1, <2>2 DEF Shapes, Start
<1>7. DOMAIN mid \subseteq Nat
  BY <1>1, <1>2, FramesOf DEF Shapes
<1>8. PICK y \in Nat, x \in Nat, src \in {tiles[k]} : y = num /\ x = Start(i) /\ src = tiles[k]
  BY <1>5
<1>9. IsCopy(mid', mid, y, x, src)
  <2>1. Fits(mid, y, x)
    BY <1>1, <1>6, <1>8 DEF Fits
  <2>2. mid' = Copy(mid, 0 .. y - 1, x, src)
    BY <1>4, <1>8
  <2> QED BY <1>7, <2>1, <2>2, CopyIs
<1>10. ASSUME NEW l \in Slots \ todo', NEW o \in 0 .. TileSize(job)[map[l]] - 1
       PROVE  mid'[Start(l) + o] = tiles[map[l]][o]
  <2>1. CASE l = i
    <3>1. o \in 0 .. y - 1
      BY <1>8, <2>1
    <3> QED BY <1>8, <1>9, <2>1, <3>1 DEF IsCopy
  <2>2. CASE l # i
    <3>1. mid[Start(l) + o] = tiles[map[l]][o]
      BY <1>1, <1>4, <2>2 DEF TileStored
    <3>2. PICK a \in Nat : a = Start(l) + o
      BY <1>5
    <3>3. a \in DOMAIN mid
      BY <1>6, <3>2
    <3>4. ~(x <= a /\ a < x + y)
      <4> SUFFICES ASSUME x <= a, a < x + y  PROVE FALSE
        OBVIOUS
      <4>1. PICK r \in 0 .. y - 1 : a = x + r
        <5>1. PICK r \in Int : r = a - x
          OBVIOUS
        <5>2. r \in 0 .. y - 1 /\ a = x + r
          BY <5>1
        <5> QED BY <5>2
      <4>2. /\ l \in 0 .. K - 1 /\ i \in 0 .. K - 1 /\ r \in 0 .. TileSize(job)[map[i]] - 1
            /\ Begin(InOrder(job, map), l) + o = Begin(InOrder(job, map), i) + r
        BY <1>1, <1>2, <1>8, <3>2, <4>1 DEF Start
      <4>3. l = i
        BY <1>2, <1>3, <4>2, StoredOnce
      <4> QED BY <2>2, <4>3
    <3>5. a < x \/ x + y <= a
      BY <3>4
    <3>6. mid'[a] = mid[a]
      BY <1>9, <3>3, <3>5 DEF IsCopy
    <3> QED BY <3>1, <3>2, <3>6
  <2> QED BY <2>1, <2>2
<1>11. TileStore'
  BY <1>1, <1>4, <1>10 DEF TileStore, TileStored, Start, Slots, K
<1>12. TileSort'
  BY <1>1, <1>4 DEF TileSort, FullTiles, TC, AllCollected, Collected
<1>13. Shapes'
  BY <1>1, <1>4, <1>9 DEF Shapes, Threads, Slots, K, IsCopy
<1> QED BY <1>1, <1>4, <1>11, <1>12, <1>13
        DEF TileInv, TileWhole, TileCollect, TileRank, TileLater, TileDecode, Ended

\* An order of the tiles of as many places as there are tiles has all of them.
LEMMA OrderHasAll ==
    ASSUME NEW j, NEW m, NEW num \in Nat, IsOrder(j, m, num), Tiles(j) = 0 .. num - 1
    PROVE  \A k \in Tiles(j) : \E i \in 0 .. num - 1 : m[i] = k
<1> DEFINE S == 0 .. num - 1
           f == [i \in S |-> m[i]]
           R == {f[i] : i \in S}
<1>1. /\ \A i \in S : f[i] \in S /\ f[i] = m[i]
      /\ \A i, l \in S : f[i] = f[l] => i = l
  BY DEF IsOrder
<1>2. IsFiniteSet(S) /\ R \subseteq S
  <2>1. 0 \in Int /\ num - 1 \in Int
    OBVIOUS
  <2>2. IsFiniteSet(0 .. num - 1)
    BY <2>1, FS_Interval
  <2>3. R \subseteq S
    BY <1>1
  <2> QED BY <2>2, <2>3
<1>3. IsFiniteSet(R)
  BY <1>2, FS_Subset
<1>4. f \in Injection(S, R)
  BY <1>1 DEF Injection, IsInjective
<1>5. Cardinality(S) <= Cardinality(R)
  BY <1>3, <1>4, FS_Injection
<1>6. Cardinality(R) <= Cardinality(S) /\ (Cardinality(R) = Cardinality(S) => R = S)
  BY <1>2, FS_Subset
<1>7. Cardinality(S) \in Nat /\ Cardinality(R) \in Nat
  BY <1>2, <1>3, FS_CardinalityType
<1>8. R = S
  BY <1>5, <1>6, <1>7
<1> QED BY <1>1, <1>8

LEMMA TilesStored ==
    ASSUME ReorderAssumption, TileInv, Tiled, ReorderInv, StoreEnds
    PROVE  TileInv'
<1>1. /\ Shapes /\ phase = "store" /\ Path(job) # "full" /\ AllCollected
      /\ \A l \in Slots : TileStored(l)
  BY DEF TileInv, TileWhole, TileSort, TileStore, StoreEnds, LoopEnds
<1>2. /\ IsJob(job) /\ Cutting /\ K \in Nat /\ Slots = 0 .. K - 1 /\ Slots = Tiles(job)
  BY <1>1, TiledIs DEF Shapes
<1>3. /\ job' = job /\ metric' = metric /\ phase' = "header" /\ held' = held /\ map' = map
      /\ mid' = mid /\ out' = out /\ result' = result
  BY DEF StoreEnds, work, rank
<1>4. IsOrder(job, map, K) /\ \A k \in Tiles(job) : \E i \in Slots : map[i] = k
  <2>1. IsOrder(job, map, K)
    BY <1>1, <1>2, SearchEnded
  <2> QED BY <1>2, <2>1, OrderHasAll
<1>5. AllShuffled
  <2> SUFFICES ASSUME NEW p \in Cells(job.shape), NEW i \in Slots, map[i] = TileNo(job, p)
               PROVE  mid[Start(i) + Spot(job, p)] = p
    BY DEF AllShuffled, Shuffled
  <2>1. Spot(job, p) \in 0 .. TileSize(job)[map[i]] - 1
    BY <1>2, SpotInTile
  <2> QED BY <1>1, <2>1 DEF TileStored, AllCollected, Collected
<1>6. TileLater'
  BY <1>3, <1>4, <1>5 DEF TileLater, Permuted, AllShuffled, Shuffled, Start, Slots, K
<1>7. Shapes'
  BY <1>1, <1>3 DEF Shapes, Threads, Slots, K
<1> QED BY <1>1, <1>3, <1>6, <1>7
        DEF TileInv, TileWhole, TileCollect, TileSort, TileRank, TileStore, TileDecode, Ended

\* The stage that decodes cuts the encoded volume into the same tiles.
LEMMA TilesRead ==
    ASSUME ReorderAssumption, TileInv, Tiled, ReadHeader
    PROVE  TileInv'
<1>1. Shapes /\ phase = "header" /\ Permuted /\ AllShuffled
  BY DEF TileInv, TileLater, ReadHeader
<1>2. /\ job.scheme = "tile_shuffle" /\ Units(job, "decode") = {0} /\ SizeOf[job] = TileSize(job)
      /\ TileSize(job) = [k \in Tiles(job) |-> TileSize(job)[k]]
  BY <1>1, TiledIs, PlaceIs DEF Shapes, TileSize
<1>3. /\ job' = job /\ metric' = metric /\ phase' = "decode" /\ todo' = {0} /\ held' = held /\ map' = map
      /\ stray' = stray /\ mid' = mid /\ out' = out /\ result' = result
      /\ tiles' = [k \in Tiles(job) |-> [o \in 0 .. SizeOf[job][k] - 1 |-> Junk]]
  BY <1>2 DEF ReadHeader, Enter, rank
<1>4. CutTiles'
  BY <1>2, <1>3 DEF CutTiles
<1>5. TileLater'
  BY <1>1, <1>3 DEF TileLater, Permuted, AllShuffled, Shuffled, Start, Slots, K
<1>6. Shapes' /\ TileWhole'
  BY <1>1, <1>3 DEF TileInv, TileWhole, Resting, Shapes, Threads, Slots, K
<1>7. TileDecode'
  BY <1>3, <1>4 DEF TileDecode
<1> QED BY <1>3, <1>5, <1>6, <1>7 DEF TileInv, TileCollect, TileSort, TileRank, TileStore, Ended

\* The cells of the tiles go back to where they were.
LEMMA TilesWritten ==
    ASSUME ReorderAssumption, TileInv, Tiled, NEW t \in Threads, NEW u \in todo, DecodeTiles(t, u)
    PROVE  TileInv'
<1> DEFINE At(k) == {i \in DOMAIN map : map[i] = k}
           filled == [k \in Tiles(job) |->
             [o \in DOMAIN tiles[k] |->
                IF \E i \in DOMAIN map : map[i] = k THEN Read(Before(job, map, Max(At(k))) + o) ELSE Junk]]
<1>1. /\ Shapes /\ phase = "decode" /\ Permuted /\ AllShuffled /\ CutTiles /\ todo \subseteq {0}
  BY DEF TileInv, TileLater, TileDecode, DecodeTiles
<1>2. /\ IsJob(job) /\ job \in TileJobs /\ job.scheme = "tile_shuffle" /\ Slots = 0 .. K - 1 /\ K \in Nat
      /\ IsOrder(job, map, K)
  BY <1>1, TiledIs DEF Shapes, Permuted
<1>3. /\ tiles' = filled
      /\ out' = [p \in DOMAIN out |-> filled[PlaceOf[job][p][1]][PlaceOf[job][p][2]]]
  BY Zenon DEF DecodeTiles
<1>4. /\ job' = job /\ metric' = metric /\ phase' = "decode" /\ todo' = todo \ {u} /\ held' = held /\ map' = map
      /\ stray' = stray /\ mid' = mid /\ result' = result
  BY <1>1 DEF DecodeTiles, rank
<1>5. ASSUME NEW p \in Cells(job.shape)  PROVE out'[p] = p
  <2>1. PICK k \in Tiles(job), o \in {Spot(job, p)} : k = TileNo(job, p) /\ o = Spot(job, p)
    BY <1>2, SpotInTile
  <2>2. o \in 0 .. TileSize(job)[k] - 1
    BY <1>2, <2>1, SpotInTile
  <2>3. PICK i \in Slots : map[i] = k
    BY <1>1 DEF Permuted
  <2>4. At(k) = {i}
    BY <1>1, <1>2, <2>3 DEF IsOrder
  <2> HIDE DEF At
  <2>5. Max(At(k)) = i
    <3>1. Max({i}) = i
      BY <1>2 DEF Max
    <3> QED BY <2>4, <3>1
  <2>6. filled[k][o] = Read(Before(job, map, i) + o)
    <3>1. o \in DOMAIN tiles[k]
      BY <1>1, <2>2 DEF CutTiles
    <3>2. \E l \in DOMAIN map : map[l] = k
      BY <1>1, <2>3 DEF Shapes
    <3> QED BY <1>3, <2>5, <3>1, <3>2
  <2>7. Before(job, map, i) = Start(i)
    BY <1>2, BeforeIs DEF Start
  <2>8. Start(i) + o \in DOMAIN mid
    <3>1. i \in 0 .. K - 1 /\ o \in 0 .. TileSize(job)[map[i]] - 1
      BY <1>2, <2>2, <2>3
    <3>2. Begin(InOrder(job, map), i) + o \in Cells(job.shape)
      BY <1>2, <3>1, StoredInside
    <3> QED BY <1>1, <3>2 DEF Shapes, Start
  <2>9. mid[Start(i) + o] = p
    BY <1>1, <2>1, <2>3 DEF AllShuffled, Shuffled
  <2>10. filled[k][o] = p
    BY <2>6, <2>7, <2>8, <2>9 DEF Read
  <2>11. PlaceOf[job][p][1] = k /\ PlaceOf[job][p][2] = o
    BY <1>2, <2>1, PlaceIs
  <2>12. p \in DOMAIN out
    BY <1>1 DEF Shapes
  <2> QED BY <1>3, <2>10, <2>11, <2>12
<1> HIDE DEF At
<1>6. DOMAIN out' = Cells(job.shape)
  BY <1>1, <1>3 DEF Shapes
<1>7. CutTiles'
  <2>1. DOMAIN tiles' = Tiles(job) /\ \A k \in Tiles(job) : DOMAIN tiles'[k] = DOMAIN tiles[k]
    BY <1>3
  <2> QED BY <1>1, <1>4, <2>1 DEF CutTiles
<1>8. TileDecode'
  BY <1>1, <1>4, <1>5, <1>7 DEF TileDecode, CameBack
<1>9. TileLater'
  BY <1>1, <1>4 DEF TileLater, Permuted, AllShuffled, Shuffled, Start, Slots, K
<1>10. Shapes' /\ TileWhole'
  BY <1>1, <1>4, <1>6 DEF TileInv, TileWhole, Resting, Shapes, Threads, Slots, K
<1> QED BY <1>4, <1>8, <1>9, <1>10 DEF TileInv, TileCollect, TileSort, TileRank, TileStore, Ended

LEMMA TilesDecoded ==
    ASSUME ReorderAssumption, TileInv, Tiled, DecodeEnds
    PROVE  TileInv'
<1>1. Shapes /\ phase = "decode" /\ Permuted /\ AllShuffled /\ CameBack
  BY DEF TileInv, TileLater, TileDecode, DecodeEnds, LoopEnds
<1>2. /\ job' = job /\ metric' = metric /\ phase' = "done" /\ held' = held /\ map' = map
      /\ stray' = stray /\ mid' = mid
      /\ out' = out /\ result' = Verdict(N(job))
  BY DEF Tiled, DecodeEnds, RasterDecoded, ZcurveDecoded, TileDecoded, FrameDecoded, work, rank
<1>3. Ended'
  BY <1>1, <1>2 DEF Ended, CameBack, Verdict
<1>4. TileLater'
  BY <1>1, <1>2 DEF TileLater, Permuted, AllShuffled, Shuffled, Start, Slots, K
<1>5. Shapes' /\ TileWhole'
  BY <1>1, <1>2 DEF TileInv, TileWhole, Resting, Shapes, Threads, Slots, K
<1> QED BY <1>2, <1>3, <1>4, <1>5 DEF TileInv, TileCollect, TileSort, TileRank, TileStore, TileDecode

LEMMA TileThread ==
    ASSUME ReorderAssumption, TileInv, Tiled, ReorderInv, NEW t \in Threads, Thread(t)
    PROVE  TileInv'
<1>1. /\ job.scheme = "tile_shuffle"
      /\ phase = "store" => ReorderInv /\ Cutting
  BY TiledIs DEF Tiled, TileInv, TileWhole, Shapes
<1>2. CASE TakeTile(t)
  BY <1>2, TileSearches
<1>3. CASE Shoot(t)
  BY <1>1, <1>3 DEF Shoot, ReorderInv, SearchInv
<1>4. ASSUME NEW u \in todo,
             \/ CollectFull(t, u) \/ CollectCut(t, u)
             \/ RankFull(t, u) \/ RankRest(t, u) \/ RankTile(t, u) \/ FindTile(t, u)
             \/ RasterFull(t, u) \/ RasterRest(t, u) \/ Aim(t, u)
             \/ ZcurveFull(t, u) \/ ZcurveRest(t, u) \/ StoreTile(t, u)
             \/ DecodeRow(t, u) \/ DecodeFrame(t, u) \/ DecodeChunk(t, u) \/ DecodeTiles(t, u)
      PROVE  TileInv'
  <2>1. Collect(t, u) \/ RankTile(t, u) \/ FindTile(t, u) \/ StoreTile(t, u) \/ DecodeTiles(t, u)
    BY <1>1, <1>4 DEF CollectFull, CollectCut, RankFull, RankRest, RasterFull, RasterRest, Aim,
       ZcurveFull, ZcurveRest, DecodeRow, DecodeFrame, DecodeChunk, IsPath
  <2> QED BY <2>1, TileCollects, TileMoves, TileSearches, TileStores, TilesWritten
<1> QED BY <1>2, <1>3, <1>4 DEF Thread

LEMMA TileCaller ==
    ASSUME ReorderAssumption, TileInv, Tiled, ReorderInv, Caller
    PROVE  TileInv'
<1>1. ~HeaderUnreadable
  BY TiledIs DEF TileInv, Shapes, HeaderUnreadable
<1> QED BY <1>1, TilesCollected, TilesRanked, TilesStored, TilesRead, TilesDecoded DEF Caller

LEMMA TileInit ==
    ASSUME ReorderAssumption, Init
    PROVE  TileInv
<1> SUFFICES ASSUME Tiled PROVE TileInv
  BY DEF TileInv
<1>1. /\ job \in Jobs /\ metric \in [Slots -> Levels] /\ phase = FirstPhase(job)
      /\ map = [i \in Slots |-> Junk] /\ held = [t \in Threads |-> Idle]
      /\ mid = [o \in Cells(job.shape) |-> Junk] /\ out = [p \in Cells(job.shape) |-> Junk]
      /\ ~stray /\ todo = Units(job, phase) /\ job.scheme = "tile_shuffle"
      /\ tiles = [k \in Tiles(job) |-> [o \in 0 .. Product(Full(job)) - 1 |-> Junk]]
  BY DEF Init, Slots, K, Tiled
<1>2. phase = "collect" /\ todo = 0 .. job.shape[1] - 1
  BY <1>1, TiledIs DEF FirstPhase
<1>3. Shapes /\ Resting
  BY <1>1 DEF Shapes, Resting
<1>4. TileCollect
  BY <1>1, <1>2 DEF TileCollect, FullTiles, TC
<1>5. TileWhole
  BY <1>1, <1>2, <1>3 DEF TileWhole
<1> QED BY <1>2, <1>3, <1>4, <1>5 DEF TileInv, TileSort, TileRank, TileStore, TileLater, TileDecode, Ended

-----------------------------------------------------------------------------
(* All four filters *)

\* A step that changes no variable keeps the invariants.
LEMMA NothingMoves ==
    ASSUME UNCHANGED vars
    PROVE  (BoxInv => BoxInv') /\ (ChunkInv => ChunkInv') /\ (TileInv => TileInv')
<1>1. /\ job' = job /\ metric' = metric /\ phase' = phase /\ todo' = todo /\ held' = held
      /\ map' = map /\ tiles' = tiles /\ dst' = dst /\ mid' = mid /\ stray' = stray /\ out' = out /\ count' = count
      /\ result' = result
  BY DEF vars, work, rank
<1>2. Good' = Good /\ Shapes' = Shapes /\ Resting' = Resting /\ Ended' = Ended
  BY <1>1 DEF Good, Shapes, Resting, Threads, Ended, CameBack, Slots, K
<1>3. BoxInv' = BoxInv
  <2>1. BoxStore' = BoxStore
    <3>1. \A p : Saved(p)' = Saved(p)
      BY <1>1 DEF Saved
    <3>2. FramesSaved' = FramesSaved
      BY <1>1, <1>2, <3>1 DEF FramesSaved, Frame
    <3>3. RegistersSaved' = RegistersSaved
      BY <1>1, <3>1 DEF RegistersSaved, Threads
    <3> QED BY <1>1, <3>2, <3>3 DEF BoxStore, Simd
  <2>2. BoxLater' = BoxLater /\ BoxHeader' = BoxHeader
    BY <1>1, <1>2 DEF BoxLater, AllSaved, Saved, BoxHeader
  <2>3. BoxDecode' = BoxDecode
    <3>1. \A u : Part(u)' = Part(u)
      BY <1>1 DEF Part, Frame
    <3> QED BY <1>1, <3>1 DEF BoxDecode
  <2> QED BY <1>1, <1>2, <2>1, <2>2, <2>3 DEF BoxInv, Boxed
<1>4. ChunkInv' = ChunkInv
  <2>1. ChunkRank' = ChunkRank /\ ChunkLater' = ChunkLater /\ ChunkDecode' = ChunkDecode
    BY <1>1 DEF ChunkRank, ChunkLater, ChunkDecode, Moved, Slots, K, CC
  <2> QED BY <1>1, <1>2, <2>1 DEF ChunkInv, Chunky
<1>5. TileInv' = TileInv
  <2>1. /\ FullTiles' = FullTiles /\ CutTiles' = CutTiles
        /\ \A p : Collected(p)' = Collected(p)
    BY <1>1 DEF FullTiles, CutTiles, TC, Collected
  <2>2. TileCollect' = TileCollect
    BY <1>1, <2>1 DEF TileCollect, Frame
  <2>3. TileSort' = TileSort
    BY <1>1, <2>1 DEF TileSort, AllCollected
  <2>4. TileRank' = TileRank /\ TileWhole' = TileWhole
    BY <1>1, <1>2 DEF TileRank, TileMoved, TC, Slots, K, TileWhole
  <2>5. TileStore' = TileStore
    BY <1>1 DEF TileStore, TileStored, Start, Slots, K
  <2>6. TileLater' = TileLater
    BY <1>1 DEF TileLater, Permuted, AllShuffled, Shuffled, Start, Slots, K
  <2>7. TileDecode' = TileDecode
    BY <1>1, <2>1 DEF TileDecode, CameBack
  <2> QED BY <1>1, <1>2, <2>2, <2>3, <2>4, <2>5, <2>6, <2>7 DEF TileInv, Tiled
<1> QED BY <1>3, <1>4, <1>5

\* The invariant of all four filters.
FilterInv == job \in Jobs /\ ReorderInv /\ BoxInv /\ ChunkInv /\ TileInv

LEMMA FilterInit ==
    ASSUME ReorderAssumption, Init
    PROVE  FilterInv
<1>1. job \in Jobs
  BY DEF Init
<1> QED BY <1>1, InitIs, BoxInit, ChunkInit, TileInit DEF FilterInv

LEMMA FilterStep ==
    ASSUME ReorderAssumption, FilterInv, [Next]_vars
    PROVE  FilterInv'
<1>1. job' = job /\ metric' = metric
  BY SameJob
<1>2. Boxed' = Boxed /\ Chunky' = Chunky /\ Tiled' = Tiled
  BY <1>1 DEF Boxed, Chunky, Tiled, Good
<1>3. ReorderInv'
  BY NextKeeps DEF FilterInv
<1>4. CASE UNCHANGED vars
  BY <1>1, <1>3, <1>4, NothingMoves DEF FilterInv
<1>5. CASE Finished
  BY <1>1, <1>3, <1>5, NothingMoves DEF FilterInv, Finished
<1>6. ASSUME Caller \/ \E t \in Threads : Thread(t)
      PROVE  BoxInv' /\ ChunkInv' /\ TileInv'
  <2>1. Boxed => BoxInv'
    BY <1>6, BoxThread, BoxCaller DEF FilterInv
  <2>2. Chunky => ChunkInv'
    BY <1>6, ChunkThread, ChunkCaller DEF FilterInv
  <2>3. Tiled => TileInv'
    BY <1>6, TileThread, TileCaller DEF FilterInv
  <2> QED BY <1>2, <2>1, <2>2, <2>3 DEF BoxInv, ChunkInv, TileInv
<1>7. CASE Next
  BY <1>1, <1>3, <1>5, <1>6, <1>7 DEF Next, FilterInv
<1> QED BY <1>4, <1>7

\* It is about every volume that the filter handles.
LEMMA FilterCases ==
    ASSUME ReorderAssumption, FilterInv, Handled(job, metric)
    PROVE  Boxed \/ Chunky \/ Tiled
  BY DEF FilterInv, ReorderAssumption, Boxed, Chunky, Tiled, Good, Shuffles

\* For every volume, tile size, metric, number of threads and interleaving of the
\* loops: a volume that a reordering filter handles comes back cell by cell, and
\* decode says so.
THEOREM VolumesComeBack == Spec => []Restored
<1>1. Init => FilterInv
  BY ReorderAssumption, FilterInit
<1>2. FilterInv /\ [Next]_vars => FilterInv'
  BY ReorderAssumption, FilterStep
<1>3. FilterInv => Restored
  <2> SUFFICES ASSUME FilterInv, phase = "done", Handled(job, metric)
               PROVE  result = "success" /\ \A p \in Cells(job.shape) : out[p] = p
    BY DEF Restored
  <2>1. Boxed \/ Chunky \/ Tiled
    BY ReorderAssumption, FilterCases
  <2> QED BY <2>1 DEF FilterInv, BoxInv, ChunkInv, TileInv, Ended, CameBack
<1> QED BY <1>1, <1>2, <1>3, PTL DEF Spec

\* The statistics of tile_shuffle read behind the size of tiles that are cut, and
\* nothing else does.
BeyondInv ==
    /\ phase = "collect" => job.scheme = "tile_shuffle"
    /\ \A r \in beyond : /\ IsPath("tile_shuffle", "remainder")
                         /\ SizeOf[job][r[1]] <= r[2]
                         /\ r[2] < Product(Full(job))

LEMMA OnlyStatistics ==
    ASSUME [Next]_vars, ~CollectEnds
    PROVE  beyond' = beyond /\ (phase' = "collect" => phase = "collect")
<1>1. CASE UNCHANGED vars \/ Finished
  BY <1>1 DEF vars, Finished
<1>2. CASE Caller
  BY <1>2 DEF Caller, RankEnds, StoreEnds, ReadHeader, HeaderUnreadable, DecodeEnds, Enter
<1>3. ASSUME NEW t \in Threads, Thread(t)  PROVE beyond' = beyond /\ phase' = phase
  <2>1. CASE TakeTile(t) \/ Shoot(t)
    BY <2>1 DEF TakeTile, Shoot
  <2>2. ASSUME NEW u \in todo,
               \/ Collect(t, u) \/ RankFull(t, u) \/ RankRest(t, u) \/ RankTile(t, u) \/ FindTile(t, u)
               \/ Aim(t, u) \/ StoreTile(t, u)
        PROVE  beyond' = beyond /\ phase' = phase
    BY <2>2 DEF Collect, RankFull, RankRest, RankTile, Rank, FindTile, Aim, StoreTile
  <2>3. ASSUME NEW u \in todo,
               \/ RasterFull(t, u) \/ RasterRest(t, u) \/ ZcurveFull(t, u) \/ ZcurveRest(t, u)
               \/ DecodeRow(t, u) \/ DecodeFrame(t, u) \/ DecodeChunk(t, u) \/ DecodeTiles(t, u)
        PROVE  beyond' = beyond /\ phase' = phase
    BY <2>3 DEF RasterFull, RasterRest, ZcurveFull, ZcurveRest, StoreFrame, DecodeRow, DecodeFrame,
       DecodeChunk, DecodeTiles
  <2> QED BY <1>3, <2>1, <2>2, <2>3 DEF Thread, CollectFull, CollectCut
<1> QED BY <1>1, <1>2, <1>3 DEF Next

LEMMA StatisticsRead ==
    ASSUME ReorderAssumption, job \in Jobs, BeyondInv, CollectEnds
    PROVE  BeyondInv'
<1>1. /\ job' = job /\ phase' = "rank" /\ phase = "collect"
      /\ beyond' = {r \in Tiles(job) \X Cells(Full(job)) :
                     r[2] \in Judged(r[1]) /\ r[2] >= SizeOf[job][r[1]]}
  BY DEF CollectEnds, LoopEnds, Enter
<1>2. job.scheme = "tile_shuffle" /\ job \in TileJobs /\ IsJob(job)
  BY <1>1, JobIs DEF BeyondInv, TileJobs
<1>3. Path(job) = "full" \/ Path(job) = "remainder"
  BY <1>2 DEF Path, TilePath
<1>4. SUFFICES ASSUME NEW k \in Tiles(job), NEW o \in Cells(Full(job)),
                      o \in Judged(k), o >= SizeOf[job][k]
               PROVE  /\ IsPath("tile_shuffle", "remainder")
                      /\ SizeOf[job][k] <= o /\ o < Product(Full(job))
  BY <1>1 DEF BeyondInv, IsPath
<1>5. PICK size \in Nat : size = SizeOf[job][k]
  <2>1. SizeOf[job][k] = TileSize(job)[k]
    BY <1>2 DEF SizeOf, TileSize, Size
  <2> QED BY <1>2, <2>1, TileSmall
<1>6. PICK most \in Nat : most = Product(Full(job))
  BY <1>2, TileSmall
<1>7. o \in 0 .. most - 1
  BY <1>6 DEF Cells
<1>8. Path(job) # "full"
  <2>1. Path(job) = "full" => o \in 0 .. size - 1
    BY <1>4, <1>5 DEF Judged
  <2> QED BY ONLY <1>4, <1>5, <2>1, size \in Nat
<1> QED BY <1>2, <1>3, <1>4, <1>5, <1>6, <1>7, <1>8 DEF IsPath

LEMMA BeyondStep ==
    ASSUME ReorderAssumption, job \in Jobs, BeyondInv, [Next]_vars
    PROVE  BeyondInv'
<1>1. CASE ~CollectEnds
  BY <1>1, SameJob, OnlyStatistics DEF BeyondInv, IsPath
<1>2. CASE CollectEnds
  BY <1>2, StatisticsRead
<1> QED BY <1>1, <1>2

LEMMA BeyondInit ==
    ASSUME Init
    PROVE  BeyondInv
  BY DEF Init, BeyondInv, FirstPhase

\* ... and no loop of the filters writes or reads outside of the two volumes, and
\* none reads behind the size of a tile but the statistics of tile_shuffle with a
\* remainder, which stay in what was allocated for the tile.
THEOREM NothingOutside == Spec => []InBuffers
<1>1. Init => FilterInv /\ BeyondInv
  BY ReorderAssumption, FilterInit, BeyondInit
<1>2. FilterInv /\ BeyondInv /\ [Next]_vars => FilterInv' /\ BeyondInv'
  BY ReorderAssumption, FilterStep, BeyondStep DEF FilterInv
<1>3. FilterInv /\ BeyondInv => InBuffers
  <2> SUFFICES ASSUME FilterInv, BeyondInv, Handled(job, metric)  PROVE ~stray
    BY DEF InBuffers, BeyondInv
  <2>1. Boxed \/ Chunky \/ Tiled
    BY ReorderAssumption, FilterCases
  <2>2. CASE Boxed \/ Chunky
    BY <2>2 DEF FilterInv, BoxInv, ChunkInv
  <2>3. CASE Tiled
    <3>1. Path(job) = "full" \/ Cutting
      BY <2>3, ReorderAssumption, TiledIs DEF FilterInv
    <3> QED BY <2>3, <3>1 DEF FilterInv, TileInv, TileWhole, ReorderInv
  <2> QED BY <2>1, <2>2, <2>3
<1> QED BY <1>1, <1>2, <1>3, PTL DEF Spec
=============================================================================
