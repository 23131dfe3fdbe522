-------------------------- MODULE ItemStages_proof ----------------------------
(***************************************************************************)
(* Theorems about the stages that code a volume item by item, for any volume   *)
(* and any parameters.                                                        *)
(*                                                                         *)
(* Kernels: what bitswap, diff and the background filters write is right       *)
(* whatever the team and the order of its threads' steps.                     *)
(*                                                                         *)
(* Quantiser, for any range of raw values, number of codes, volumes and        *)
(* weights: the look-up tables are total and stay in range, also in the        *)
(* buckets of adaptive_lloyd_com, few levels come back exactly, every code     *)
(* leads back to a value that is given this code again, and no two values are  *)
(* exchanged.                                                                 *)
(***************************************************************************)
EXTENDS Kernels, Quantiser, Functions, Sums

(* The buckets of adaptive_lloyd_com *)

\* A weighted mean of values up to k, rounded, is not more than k.
LEMMA RoundBound ==
    ASSUME NEW a \in Nat, NEW b \in Nat, b # 0, NEW k \in Nat, a <= k * b
    PROVE  Round(a, b) \in 0 .. k
<1> DEFINE d == 2 * b
           q == (2 * a + b) \div d
<1>1. d \in Nat /\ d > 0 /\ 2 * a + b \in Nat
  OBVIOUS
<1>2. q \in Nat /\ q * d <= 2 * a + b
  BY <1>1
<1>3. 2 * a + b < (k + 1) * d
  <2>1. PICK p \in Nat : p = k * b
    OBVIOUS
  <2>2. (k + 1) * d = 2 * p + 2 * b
    BY <2>1
  <2> QED BY <2>1, <2>2
<1>4. q * d < (k + 1) * d
  <2>1. PICK x \in Nat, y \in Nat : x = q * d /\ y = (k + 1) * d
    BY <1>1, <1>2
  <2> QED BY <1>1, <1>2, <1>3, <2>1
<1> HIDE DEF d, q
<1>5. q < k + 1
  BY <1>1, <1>2, <1>4
<1>6. q \in 0 .. k
  BY <1>2, <1>5
<1> QED BY <1>6 DEF Round, q, d

\* A weighting turns a histogram into importances.
LEMMA WeightedType ==
    ASSUME QuantiserAssumption, NEW h \in [Raw -> Nat], ValuesOf(h) # {}
    PROVE  Weighted(h) \in [Raw -> Nat]
<1>1. ASSUME NEW r \in Raw
      PROVE  Weighted(h)[r] \in Nat
  <2>1. h[r] \in Nat /\ r \in Nat /\ MaxRaw \in Nat
    BY DEF Raw, QuantiserAssumption
  <2>2. ASSUME NEW w \in Nat  PROVE h[r] * w \in Nat
    BY <2>1
  <2>3. Power[r] \in Nat
    BY DEF QuantiserAssumption
  <2>4. CASE weighting = "power_of"
    BY <2>2, <2>3, <2>4 DEF Weighted
  <2>5. CASE weighting = "offset_power_of"
    <3>1. CASE r < Offset(h)
      BY <2>1, <2>5, <3>1 DEF Weighted
    <3>2. CASE ~ (r < Offset(h))
      <4>1. ValuesOf(h) \subseteq Raw /\ Raw \subseteq Nat
        BY <2>1 DEF ValuesOf, Raw
      <4>2. Offset(h) \in Raw
        BY <4>1, NatMin DEF Offset
      <4>3. r - Offset(h) \in Raw
        BY <2>1, <3>2, <4>2 DEF Raw
      <4>4. Power[r - Offset(h)] \in Nat
        BY <4>3 DEF QuantiserAssumption
      <4>5. Weighted(h)[r] = h[r] * Power[r - Offset(h)]
        BY <2>5, <3>2 DEF Weighted
      <4> QED BY <2>2, <4>4, <4>5
    <3> QED BY <3>1, <3>2
  <2>6. CASE weighting \notin {"power_of", "offset_power_of"}
    BY <2>1, <2>6 DEF Weighted
  <2> QED BY <2>4, <2>5, <2>6
<1>2. Weighted(h) = [r \in Raw |-> Weighted(h)[r]]
  BY DEF Weighted
<1> QED BY <1>1, <1>2

-----------------------------------------------------------------------------
(* The tables *)

\* What keeps the centre of a bucket among the raw values: the moment of a
\* bucket is that of values in front of raw_idx.
BucketInv ==
    pc = "lloyd" => /\ raw_idx >= 1 /\ comp_idx <= Levels - 1
                    /\ moment <= (raw_idx - 1) * quantile

TypeInv == TypeOK /\ BucketInv

LEMMA Ranges ==
    ASSUME QuantiserAssumption
    PROVE  /\ MaxRaw \in Nat /\ Levels \in Nat /\ Levels > 1
           /\ Raw \subseteq Nat /\ 0 \in Raw /\ 0 \in Codes
  BY DEF QuantiserAssumption, Raw, Codes

LEMMA TypeInit ==
    ASSUME QuantiserAssumption, Init
    PROVE  TypeInv
<1>1. NoVolume \in [Raw -> Nat] /\ NoVolume \in [Raw -> Codes]
  BY Ranges DEF NoVolume
<1>2. Empty \in [Codes -> Raw]
  BY Ranges DEF Empty
<1>3. dec.value \in [dec.stream.values -> Raw]
  BY DEF Init, NoDecode, NoStream
<1>4. bucket.den \in 1 .. Levels
  BY Ranges DEF Init
<1> QED BY <1>1, <1>2, <1>3, <1>4, Ranges DEF Init, TypeInv, TypeOK, BucketInv

LEMMA TypeSetup ==
    ASSUME QuantiserAssumption, TypeInv, Setup
    PROVE  TypeInv'
<1>1. PICK v \in Histograms :
        /\ ValuesOf(v) # {} /\ input' = v
        /\ histo' = [r \in Raw |-> histo[r] + v[r]]
  BY DEF Setup
<1>2. v \in [Raw -> Nat] /\ histo \in [Raw -> Nat]
  BY DEF QuantiserAssumption, TypeInv, TypeOK
<1>3. histo' \in [Raw -> Nat]
  BY <1>1, <1>2
<1>4. ValuesOf(histo') # {}
  <2>1. PICK r \in Raw : v[r] > 0
    BY <1>1 DEF ValuesOf
  <2>2. histo'[r] > 0
    BY <1>1, <1>2, <2>1
  <2> QED BY <2>2 DEF ValuesOf
<1>5. importance' \in [Raw -> Nat]
  <2>1. weighting' = weighting /\ importance' = Weighted(histo')
    BY DEF Setup, object
  <2> QED BY <1>3, <1>4, <2>1, WeightedType
<1>6. /\ comp_idx' = 0 /\ moment' = 0 /\ centre' = 0 /\ raw_idx' \in {0, 1}
      /\ quantile' = importance'[0] /\ integral' = importance'[0]
      /\ bucket'.den = Levels
      /\ pc' \in {"publish", "linear", "lloyd"} /\ (pc' = "lloyd" => raw_idx' = 1)
      /\ calls' \in 0 .. Volumes /\ dec' = NoDecode
      /\ UNCHANGED <<weighting, by_path, signed, lut_encode, lut_decode, lut_file, streams>>
  <2>1. /\ comp_idx' = 0 /\ moment' = 0 /\ centre' = 0
        /\ quantile' = importance'[0] /\ integral' = importance'[0]
        /\ bucket'.den = Levels /\ dec' = NoDecode
        /\ UNCHANGED <<weighting, by_path, signed, lut_encode, lut_decode, lut_file, streams>>
    BY DEF Setup, object, luts, kept
  <2>2. calls' \in 0 .. Volumes
    BY DEF Setup, TypeInv, TypeOK, QuantiserAssumption
  <2>3. PICK levels : /\ pc' = IF levels = 0 THEN "publish"
                               ELSE IF levels <= Levels THEN "linear" ELSE "lloyd"
                      /\ raw_idx' = IF levels <= Levels THEN 0 ELSE 1
    BY DEF Setup
  <2> QED BY <2>1, <2>2, <2>3
<1>7. dec'.value \in [dec'.stream.values -> Raw]
  BY <1>6 DEF NoDecode, NoStream
<1>8. quantile' \in Nat
  BY <1>5, <1>6, Ranges
<1>9. TypeOK'
  BY <1>1, <1>2, <1>3, <1>5, <1>6, <1>7, <1>8, Ranges DEF TypeInv, TypeOK
<1>10. BucketInv'
  BY <1>6, <1>8, Ranges DEF BucketInv
<1> QED BY <1>9, <1>10 DEF TypeInv

LEMMA TypeLinearMap ==
    ASSUME QuantiserAssumption, TypeInv, LinearMap
    PROVE  TypeInv'
<1>1. /\ pc = "linear" /\ pc' = pc /\ raw_idx \in Raw /\ comp_idx \in Codes
  BY Ranges DEF LinearMap, Mapping, TypeInv, TypeOK, Raw, Codes
<1>2. /\ lut_encode' \in [Raw -> Codes] /\ lut_decode' \in [Codes -> Raw]
  BY <1>1 DEF LinearMap, TypeInv, TypeOK
<1>3. raw_idx' \in 0 .. MaxRaw + 1 /\ comp_idx' \in 0 .. Levels
  BY <1>1, Ranges DEF LinearMap, Raw, Codes
<1>4. /\ UNCHANGED <<object, volume, kept, dec>>
      /\ UNCHANGED <<quantile, moment, centre, integral, bucket>>
  BY DEF LinearMap
<1>5. TypeOK'
  BY <1>1, <1>2, <1>3, <1>4 DEF TypeInv, TypeOK, object, volume, kept
<1> QED BY <1>1, <1>5 DEF TypeInv, BucketInv

LEMMA TypeLinearEnd ==
    ASSUME QuantiserAssumption, TypeInv, LinearEnd
    PROVE  TypeInv'
<1>1. lut_decode' \in [Codes -> Raw]
  <2>1. ASSUME NEW c \in Codes, comp_idx \in 1 .. Levels - 1
        PROVE  lut_decode[IF c < comp_idx THEN c ELSE comp_idx - 1] \in Raw
    <3>1. (IF c < comp_idx THEN c ELSE comp_idx - 1) \in Codes
      BY <2>1, Ranges DEF Codes
    <3> QED BY <3>1 DEF TypeInv, TypeOK
  <2> QED BY <2>1 DEF LinearEnd, TypeInv, TypeOK
<1>2. /\ pc' = "publish" /\ UNCHANGED <<object, volume, lut_encode, loop, kept, dec>>
  BY DEF LinearEnd
<1> QED BY <1>1, <1>2 DEF TypeInv, TypeOK, BucketInv, object, volume, loop, kept

\* A value joins a bucket whose moment is that of values up to raw_idx.
LEMMA TypeGather ==
    ASSUME QuantiserAssumption, TypeInv, NEW c \in Codes, Gather(c),
           pc = "lloyd", raw_idx <= MaxRaw, comp_idx' = c,
           quantile' \in Nat, moment' \in Nat, moment' <= raw_idx * quantile',
           lut_decode' \in [Codes -> Raw], bucket'.den \in 1 .. Levels
    PROVE  TypeInv'
<1>1. /\ raw_idx \in Raw /\ raw_idx \in Nat /\ raw_idx >= 1
      /\ importance \in [Raw -> Nat] /\ integral \in Nat /\ centre \in Raw
  <2>1. raw_idx \in 0 .. MaxRaw + 1 /\ raw_idx >= 1
    BY DEF TypeInv, TypeOK, BucketInv
  <2>2. importance \in [Raw -> Nat] /\ integral \in Nat /\ centre \in Raw
    BY DEF TypeInv, TypeOK
  <2>3. raw_idx \in Nat /\ raw_idx \in 0 .. MaxRaw
    BY <2>1, Ranges
  <2> QED BY <2>1, <2>2, <2>3 DEF Raw
<1>2. /\ pc' = "lloyd" /\ raw_idx' = raw_idx + 1
      /\ integral' = integral + importance[raw_idx]
      /\ lut_encode' = [lut_encode EXCEPT ![raw_idx] = c]
      /\ UNCHANGED <<object, volume, kept, dec>>
  BY DEF Gather
<1>3. centre' \in Raw
  <2>1. CASE quantile' # 0
    <3>1. Round(moment', quantile') \in 0 .. raw_idx
      BY <1>1, <2>1, RoundBound
    <3>2. 0 .. raw_idx \subseteq Raw
      BY <1>1, Ranges DEF Raw
    <3> QED BY <2>1, <3>1, <3>2 DEF Gather
  <2>2. CASE quantile' = 0
    BY <1>1, <2>2 DEF Gather
  <2> QED BY <2>1, <2>2
<1>4. integral' \in Nat /\ lut_encode' \in [Raw -> Codes]
  BY <1>1, <1>2 DEF TypeInv, TypeOK
<1>5. raw_idx' \in 0 .. MaxRaw + 1 /\ comp_idx' \in 0 .. Levels
      /\ comp_idx' <= Levels - 1
  BY <1>1, <1>2, Ranges DEF Raw, Codes
<1>6. TypeOK'
  BY <1>2, <1>3, <1>4, <1>5 DEF TypeInv, TypeOK, object, volume, kept
<1>7. BucketInv'
  <2>1. raw_idx' - 1 = raw_idx /\ raw_idx' >= 1
    BY <1>1, <1>2
  <2> QED BY <1>5, <2>1 DEF BucketInv
<1> QED BY <1>6, <1>7 DEF TypeInv

LEMMA TypeNextBucket ==
    ASSUME QuantiserAssumption, TypeInv, NextBucket
    PROVE  TypeInv'
<1>1. /\ pc = "lloyd" /\ raw_idx <= MaxRaw /\ comp_idx' = comp_idx + 1
      /\ comp_idx \in Codes /\ comp_idx' \in Codes
      /\ raw_idx \in Raw /\ raw_idx \in Nat
  BY Ranges DEF NextBucket, Overflows, TypeInv, TypeOK, Raw, Codes
<1>2. PICK w \in Nat : w = importance[raw_idx]
  BY <1>1 DEF TypeInv, TypeOK
<1>3. /\ quantile' = w /\ moment' = raw_idx * w /\ Gather(comp_idx')
  BY <1>2 DEF NextBucket
<1>4. moment' \in Nat /\ moment' <= raw_idx * quantile'
  BY <1>1, <1>3
<1>5. lut_decode' \in [Codes -> Raw]
  BY <1>1 DEF NextBucket, TypeInv, TypeOK
<1>6. bucket'.den \in 1 .. Levels
  <2>1. CASE bucket' = bucket
    BY <2>1 DEF TypeInv, TypeOK
  <2>2. CASE bucket' # bucket
    <3>1. bucket'.den = Levels - comp_idx'
      BY <2>2 DEF NextBucket
    <3> QED BY <1>1, <3>1, Ranges DEF Codes
  <2> QED BY <2>1, <2>2
<1> QED BY <1>1, <1>3, <1>4, <1>5, <1>6, TypeGather

LEMMA TypeFillBucket ==
    ASSUME QuantiserAssumption, TypeInv, FillBucket
    PROVE  TypeInv'
<1>1. /\ pc = "lloyd" /\ raw_idx <= MaxRaw /\ comp_idx' = comp_idx
      /\ comp_idx \in Codes /\ raw_idx \in Raw /\ raw_idx \in Nat /\ raw_idx >= 1
      /\ quantile \in Nat /\ moment \in Nat /\ moment <= (raw_idx - 1) * quantile
  BY Ranges DEF FillBucket, TypeInv, TypeOK, BucketInv, Raw, Codes
<1>2. PICK w \in Nat : w = importance[raw_idx]
  BY <1>1 DEF TypeInv, TypeOK
<1>3. /\ quantile' = quantile + w /\ moment' = moment + raw_idx * w
      /\ Gather(comp_idx)
  BY <1>2 DEF FillBucket
<1>4. quantile' \in Nat /\ moment' \in Nat /\ moment' <= raw_idx * quantile'
  <2>1. PICK x \in Nat, y \in Nat : x = raw_idx * w /\ y = raw_idx * quantile
    BY <1>1
  <2>2. (raw_idx - 1) * quantile = y - quantile
    BY <1>1, <2>1
  <2>3. raw_idx * quantile' = y + x
    BY <1>1, <1>3, <2>1
  <2> QED BY <1>1, <1>3, <2>1, <2>2, <2>3
<1>5. lut_decode' \in [Codes -> Raw] /\ bucket'.den \in 1 .. Levels
  BY DEF FillBucket, TypeInv, TypeOK
<1> QED BY <1>1, <1>3, <1>4, <1>5, TypeGather

LEMMA TypeLloydEnd ==
    ASSUME QuantiserAssumption, TypeInv, LloydEnd
    PROVE  TypeInv'
<1>1. lut_decode' \in [Codes -> Raw]
  BY DEF LloydEnd, TypeInv, TypeOK
<1>2. pc' = "publish" /\ UNCHANGED <<object, volume, lut_encode, loop, kept, dec>>
  BY DEF LloydEnd
<1> QED BY <1>1, <1>2 DEF TypeInv, TypeOK, BucketInv, object, volume, loop, kept

LEMMA TypePublish ==
    ASSUME QuantiserAssumption, TypeInv, Publish
    PROVE  TypeInv'
<1>1. /\ lut_file' \in [Codes -> Raw]
      /\ \E lut \in [Codes -> Raw] : streams' = streams \cup {Stream(lut)}
  BY TypeInit, Ranges DEF Publish, TypeInv, TypeOK, Empty
<1>2. ASSUME NEW lut \in [Codes -> Raw], NEW s, s = Stream(lut)
      PROVE  /\ s.volume \in 0 .. Volumes
             /\ s.values \subseteq Raw /\ s.levels \subseteq Raw
             /\ s.lut \in [Codes -> Raw] /\ s.code \in [s.values -> Codes]
  BY <1>2 DEF Stream, ValuesOf, TypeInv, TypeOK
<1>3. pc' = "idle" /\ UNCHANGED <<object, volume, luts, loop, dec>>
  BY DEF Publish
<1>4. \A s \in streams' : /\ s.volume \in 0 .. Volumes
                          /\ s.values \subseteq Raw /\ s.levels \subseteq Raw
                          /\ s.lut \in [Codes -> Raw]
                          /\ s.code \in [s.values -> Codes]
  BY <1>1, <1>2 DEF TypeInv, TypeOK
<1> QED BY <1>1, <1>3, <1>4 DEF TypeInv, TypeOK, BucketInv, object, volume, luts, loop

LEMMA TypeConstruct ==
    ASSUME QuantiserAssumption, TypeInv, Construct
    PROVE  TypeInv'
<1>1. NoVolume \in [Raw -> Nat] /\ NoVolume \in [Raw -> Codes] /\ Empty \in [Codes -> Raw]
  BY Ranges DEF NoVolume, Empty
<1> QED BY <1>1 DEF Construct, TypeInv, TypeOK, BucketInv, object, loop, kept

LEMMA TypeDecode ==
    ASSUME QuantiserAssumption, TypeInv, Decode
    PROVE  TypeInv'
<1>1. PICK s \in streams :
        \E value \in Restored(s, IF by_path THEN lut_file ELSE s.lut) :
          dec' = [stream |-> s, value |-> value]
  BY DEF Decode
<1> DEFINE lut == IF by_path THEN lut_file ELSE s.lut
<1>2. lut \in [Codes -> Raw] /\ s.code \in [s.values -> Codes]
  BY DEF TypeInv, TypeOK
<1>3. Restored(s, lut) \subseteq [s.values -> Raw]
  BY <1>2 DEF Restored
<1>4. dec'.value \in [dec'.stream.values -> Raw]
  <2>1. PICK value \in Restored(s, lut) : dec' = [stream |-> s, value |-> value]
    BY <1>1
  <2> QED BY <1>3, <2>1
<1>5. UNCHANGED <<object, pc, volume, luts, loop, kept>>
  BY DEF Decode
<1> QED BY <1>4, <1>5 DEF TypeInv, TypeOK, BucketInv, object, volume, luts, loop, kept

LEMMA TypeStep ==
    ASSUME QuantiserAssumption, TypeInv, [Next]_vars
    PROVE  TypeInv'
<1>1. CASE UNCHANGED vars
  BY <1>1 DEF vars, TypeInv, TypeOK, BucketInv, object, volume, luts, loop, kept
<1> QED
  BY <1>1, TypeSetup, TypeLinearMap, TypeLinearEnd, TypeNextBucket, TypeFillBucket,
     TypeLloydEnd, TypePublish, TypeConstruct, TypeDecode DEF Next, Caller

\* The tables, indices and sums stay in their ranges: a code is always one of
\* the codes, its representative always a raw value.
THEOREM TypeCorrect ==
    ASSUME QuantiserAssumption
    PROVE  Spec => []TypeOK
<1>1. TypeInv => TypeOK
  BY DEF TypeInv
<1> QED BY <1>1, TypeInit, TypeStep, PTL DEF Spec

-----------------------------------------------------------------------------
(* Few levels come back exactly *)

\* The levels numbered so far: those below raw_idx.
Done == {r \in ValuesOf(importance) : r < raw_idx}

\* No more levels than codes are numbered one by one, each with a code of its
\* own that leads back to it.
LinearInv ==
    pc = "linear" =>
        /\ Cardinality(ValuesOf(importance)) <= Levels
        /\ comp_idx = Cardinality(Done)
        /\ \A r \in Done : lut_encode[r] < comp_idx /\ lut_decode[lut_encode[r]] = r

PublishInv ==
    /\ pc = "lloyd" => Cardinality(ValuesOf(importance)) > Levels
    /\ pc = "publish" /\ Cardinality(ValuesOf(importance)) <= Levels =>
         \A r \in ValuesOf(importance) :
            /\ lut_encode[r] < Cardinality(ValuesOf(importance))
            /\ lut_decode[lut_encode[r]] = r

\* A kept stream, and the file if it is that of the last volume, lead back.
StreamInv ==
    \A s \in streams :
        /\ s.volume <= calls /\ (pc # "idle" => s.volume < calls)
        /\ Cardinality(s.levels) <= Levels =>
             \A r \in s.values \cap s.levels :
                /\ s.code[r] < Cardinality(s.levels)
                /\ ~by_path => s.lut[s.code[r]] = r
                /\ by_path /\ pc = "idle" /\ s.volume = calls => lut_file[s.code[r]] = r

\* A stream decodes with the table it carries, or with the one in the file.
Back(s) == IF by_path THEN lut_file ELSE s.lut

\* The table is not replaced under a volume that has just been restored.
DecodedInv ==
    /\ pc # "idle" => dec = NoDecode
    /\ dec # NoDecode => /\ dec.stream \in streams
                         /\ dec.value \in Restored(dec.stream, Back(dec.stream))

CodingInv == TypeInv /\ LinearInv /\ PublishInv /\ StreamInv /\ DecodedInv

LEMMA FiniteLevels ==
    ASSUME QuantiserAssumption, NEW T, T \subseteq Raw
    PROVE  IsFiniteSet(T) /\ Cardinality(T) \in Nat
<1>1. IsFiniteSet(Raw)
  BY FS_Interval, Ranges DEF Raw
<1> QED BY <1>1, FS_Subset, FS_CardinalityType
\* A step inside encode touches neither streams nor what was restored.
LEMMA InsideEncode ==
    ASSUME QuantiserAssumption, CodingInv, TypeInv', pc # "idle", pc' # "idle",
           UNCHANGED <<by_path, calls, kept, dec>>, LinearInv', PublishInv'
    PROVE  CodingInv'
<1>1. StreamInv'
  BY DEF CodingInv, StreamInv, kept
<1>2. dec' = NoDecode /\ calls' = calls
  BY DEF CodingInv, DecodedInv
<1>3. DecodedInv'
  BY <1>2 DEF CodingInv, DecodedInv
<1> QED BY <1>1, <1>3 DEF CodingInv

LEMMA CodingInit ==
    ASSUME QuantiserAssumption, Init
    PROVE  CodingInv
  BY TypeInit
     DEF Init, CodingInv, LinearInv, PublishInv, StreamInv, DecodedInv,
         NoDecode, NoStream

LEMMA CodingSetup ==
    ASSUME QuantiserAssumption, CodingInv, Setup
    PROVE  CodingInv'
<1>1. TypeInv'
  BY TypeSetup DEF CodingInv
<1> DEFINE L == ValuesOf(importance')
<1>2. L \subseteq Raw /\ IsFiniteSet(L) /\ Cardinality(L) \in Nat
  <2>1. L \subseteq Raw
    BY DEF ValuesOf
  <2> QED BY <2>1, FiniteLevels
<1>3. /\ calls \in Nat /\ calls' = calls + 1 /\ dec' = NoDecode /\ comp_idx' = 0
      /\ UNCHANGED <<by_path, lut_file, streams>>
      /\ pc' = IF Cardinality(L) = 0 THEN "publish"
               ELSE IF Cardinality(L) <= Levels THEN "linear" ELSE "lloyd"
      /\ raw_idx' = IF Cardinality(L) <= Levels THEN 0 ELSE 1
  BY DEF Setup, object, kept, CodingInv, TypeInv, TypeOK
<1>4. LinearInv'
  <2>1. ASSUME pc' = "linear"
        PROVE  /\ Cardinality(L) <= Levels /\ Done' = {}
    <3>1. Cardinality(L) <= Levels /\ raw_idx' = 0
      BY <1>3, <2>1
    <3>2. Done' = {r \in L : r < 0}
      BY <3>1 DEF Done
    <3>3. \A r \in L : r \in Nat
      BY <1>2, Ranges
    <3> QED BY <3>1, <3>2, <3>3
  <2>2. Cardinality({}) = 0
    BY FS_EmptySet
  <2> QED BY <1>3, <2>1, <2>2 DEF LinearInv
<1>5. PublishInv'
  <2>1. pc' = "publish" => L = {}
    BY <1>2, <1>3, FS_EmptySet
  <2>2. pc' = "lloyd" => Cardinality(L) > Levels
    BY <1>2, <1>3, Ranges
  <2> QED BY <2>1, <2>2 DEF PublishInv
<1>6. StreamInv'
  <2>1. \A s \in streams : s.volume \in Nat /\ s.volume <= calls
    BY DEF CodingInv, StreamInv, TypeInv, TypeOK
  <2>2. \A s \in streams : s.volume <= calls' /\ s.volume < calls'
    BY <1>3, <2>1
  <2>3. pc' # "idle"
    BY <1>3
  <2> QED BY <1>3, <2>2, <2>3 DEF CodingInv, StreamInv
<1>7. DecodedInv'
  BY <1>3 DEF DecodedInv
<1> QED BY <1>1, <1>4, <1>5, <1>6, <1>7 DEF CodingInv

\* The level at raw_idx takes the next code; the levels before keep theirs.
LEMMA CodingLinearMap ==
    ASSUME QuantiserAssumption, CodingInv, LinearMap
    PROVE  CodingInv'
<1>1. TypeInv' /\ TypeOK
  BY TypeLinearMap DEF CodingInv, TypeInv
<1>2. /\ pc = "linear" /\ pc' = "linear"
      /\ raw_idx \in Raw /\ raw_idx \in Nat /\ comp_idx \in Codes /\ comp_idx \in Nat
      /\ lut_encode \in [Raw -> Codes] /\ lut_decode \in [Codes -> Raw]
      /\ lut_encode' = [lut_encode EXCEPT ![raw_idx] = comp_idx]
      /\ lut_decode' = [lut_decode EXCEPT ![comp_idx] = raw_idx]
      /\ raw_idx' = raw_idx + 1 /\ importance' = importance
      /\ importance \in [Raw -> Nat]
  <2>1. /\ raw_idx \in 0 .. MaxRaw + 1 /\ raw_idx <= MaxRaw
        /\ comp_idx \in 0 .. Levels /\ comp_idx < Levels
    BY <1>1 DEF LinearMap, Mapping, TypeOK
  <2>2. raw_idx \in Raw /\ comp_idx \in Codes
    BY <2>1, Ranges DEF Raw, Codes
  <2> QED BY <1>1, <2>1, <2>2 DEF LinearMap, TypeOK, volume
<1>3. /\ Cardinality(ValuesOf(importance)) <= Levels
      /\ comp_idx = Cardinality(Done)
      /\ \A r \in Done : lut_encode[r] < comp_idx /\ lut_decode[lut_encode[r]] = r
  BY <1>2 DEF CodingInv, LinearInv
<1>4. Done \subseteq Raw /\ IsFiniteSet(Done) /\ raw_idx \notin Done
  <2>1. Done \subseteq Raw
    BY DEF Done, ValuesOf
  <2>2. raw_idx \notin Done
    BY <1>2 DEF Done
  <2> QED BY <2>1, <2>2, FiniteLevels
<1>5. \A r \in ValuesOf(importance) : r \in Nat
  BY Ranges DEF ValuesOf
<1>6. Done' = {r \in ValuesOf(importance) : r <= raw_idx}
  <2>1. Done' = {r \in ValuesOf(importance) : r < raw_idx + 1}
    BY <1>2 DEF Done, ValuesOf
  <2> QED BY <1>2, <1>5, <2>1
<1>7. \A r \in Done : /\ lut_encode'[r] = lut_encode[r]
                      /\ lut_encode[r] < comp_idx
                      /\ lut_decode'[lut_encode'[r]] = r
  <2> SUFFICES ASSUME NEW r \in Done
               PROVE  /\ lut_encode'[r] = lut_encode[r]
                      /\ lut_encode[r] < comp_idx
                      /\ lut_decode'[lut_encode'[r]] = r
    OBVIOUS
  <2>1. lut_encode'[r] = lut_encode[r]
    BY <1>2, <1>4
  <2>2. lut_encode[r] < comp_idx /\ lut_decode[lut_encode[r]] = r
    BY <1>3
  <2>3. lut_encode[r] \in Codes /\ lut_encode[r] # comp_idx
    BY <1>2, <1>4, <2>2
  <2> QED BY <1>2, <2>1, <2>2, <2>3
<1>8. LinearInv'
  <2>1. CASE importance[raw_idx] # 0
    <3>1. Done' = Done \cup {raw_idx}
      <4>1. raw_idx \in ValuesOf(importance)
        BY <1>2, <2>1 DEF ValuesOf
      <4>2. \A r \in ValuesOf(importance) : r <= raw_idx <=> r < raw_idx \/ r = raw_idx
        BY <1>2, <1>5
      <4>3. ASSUME NEW x  PROVE x \in Done' <=> x \in Done \cup {raw_idx}
        BY <1>6, <4>1, <4>2, Zenon DEF Done
      <4> QED BY <4>3
    <3>2. Cardinality(Done') = comp_idx + 1 /\ comp_idx' = comp_idx + 1
      BY <1>3, <1>4, <2>1, <3>1, FS_AddElement DEF LinearMap
    <3>3. lut_encode'[raw_idx] = comp_idx /\ lut_decode'[comp_idx] = raw_idx
      BY <1>2
    <3>4. \A r \in Done' : lut_encode'[r] < comp_idx' /\ lut_decode'[lut_encode'[r]] = r
      <4>1. ASSUME NEW r \in Done
            PROVE  lut_encode'[r] < comp_idx' /\ lut_decode'[lut_encode'[r]] = r
        <5>1. lut_encode[r] \in Nat
          BY <1>2, <1>4, Ranges DEF Codes
        <5> QED BY <1>2, <1>7, <3>2, <5>1
      <4>2. lut_encode'[raw_idx] < comp_idx'
        BY <1>2, <3>2, <3>3
      <4> QED BY <3>1, <3>3, <4>1, <4>2
    <3> QED BY <1>2, <1>3, <3>2, <3>4 DEF LinearInv
  <2>2. CASE importance[raw_idx] = 0
    <3>1. Done' = Done
      <4>1. raw_idx \notin ValuesOf(importance)
        BY <1>2, <2>2 DEF ValuesOf
      <4> QED BY <1>2, <1>6, <1>5, <4>1 DEF Done
    <3>2. comp_idx' = comp_idx
      BY <2>2 DEF LinearMap
    <3> QED BY <1>2, <1>3, <1>7, <3>1, <3>2 DEF LinearInv
  <2> QED BY <2>1, <2>2
<1>9. PublishInv'
  BY <1>2 DEF PublishInv
<1> QED
  BY <1>1, <1>2, <1>8, <1>9, InsideEncode DEF LinearMap, object, volume

\* When the loop ends every level is numbered: as many levels as there are
\* codes cannot leave one behind raw_idx.
LEMMA AllNumbered ==
    ASSUME QuantiserAssumption, CodingInv, LinearEnd
    PROVE  Done = ValuesOf(importance)
<1> DEFINE L == ValuesOf(importance)
<1>2. /\ pc = "linear" /\ ~Mapping
      /\ raw_idx \in 0 .. MaxRaw + 1 /\ comp_idx \in 0 .. Levels
  BY DEF LinearEnd, CodingInv, TypeInv, TypeOK
<1>3. Cardinality(L) <= Levels /\ comp_idx = Cardinality(Done)
  BY <1>2 DEF CodingInv, LinearInv
<1>4. /\ L \subseteq Raw /\ IsFiniteSet(L) /\ Cardinality(L) \in Nat
      /\ Done \subseteq L
  <2>1. L \subseteq Raw /\ Done \subseteq L
    BY DEF ValuesOf, Done
  <2> QED BY <2>1, FiniteLevels
<1>5. CASE raw_idx > MaxRaw
  <2>1. \A r \in L : r < raw_idx
    BY <1>2, <1>4, <1>5, Ranges DEF Raw
  <2> QED BY <2>1 DEF Done
<1>6. CASE comp_idx >= Levels
  <2>1. Cardinality(Done) <= Cardinality(L)
    BY <1>4, FS_Subset
  <2>2. Cardinality(Done) = Cardinality(L)
    BY <1>2, <1>3, <1>4, <1>6, <2>1, Ranges
  <2> QED BY <1>4, <2>2, FS_Subset
<1> QED BY <1>2, <1>5, <1>6, Ranges DEF Mapping

LEMMA CodingLinearEnd ==
    ASSUME QuantiserAssumption, CodingInv, LinearEnd
    PROVE  CodingInv'
<1> DEFINE L == ValuesOf(importance)
<1>1. TypeInv' /\ TypeOK
  BY TypeLinearEnd DEF CodingInv, TypeInv
<1>2. /\ pc = "linear" /\ pc' = "publish"
      /\ lut_encode' = lut_encode /\ importance' = importance
      /\ lut_encode \in [Raw -> Codes] /\ lut_decode \in [Codes -> Raw]
  BY <1>1 DEF LinearEnd, TypeOK, volume
<1>3. \A r \in Done : lut_encode[r] < comp_idx /\ lut_decode[lut_encode[r]] = r
  BY <1>2 DEF CodingInv, LinearInv
<1>5. Done = L /\ L \subseteq Raw
  BY AllNumbered DEF ValuesOf
<1>4. comp_idx = Cardinality(Done)
  BY <1>2 DEF CodingInv, LinearInv
<1>6. \A r \in L : lut_encode'[r] < Cardinality(L) /\ lut_decode'[lut_encode'[r]] = r
  <2> SUFFICES ASSUME NEW r \in L
               PROVE  lut_encode[r] < comp_idx /\ lut_decode'[lut_encode[r]] = r
    BY <1>2, <1>4, <1>5
  <2>1. /\ lut_encode[r] < comp_idx /\ lut_decode[lut_encode[r]] = r
        /\ lut_encode[r] \in Codes
    BY <1>2, <1>3, <1>5
  <2> QED BY <2>1 DEF LinearEnd
<1>7. LinearInv' /\ PublishInv'
  BY <1>2, <1>6 DEF LinearInv, PublishInv
<1> QED
  BY <1>1, <1>2, <1>7, InsideEncode DEF LinearEnd, object, volume

LEMMA CodingLloyd ==
    ASSUME QuantiserAssumption, CodingInv, NextBucket \/ FillBucket \/ LloydEnd
    PROVE  CodingInv'
<1>1. TypeInv'
  BY TypeNextBucket, TypeFillBucket, TypeLloydEnd DEF CodingInv
<1>2. /\ pc = "lloyd" /\ pc' \in {"lloyd", "publish"}
      /\ UNCHANGED <<object, volume, kept, dec>>
  BY DEF NextBucket, FillBucket, LloydEnd, Gather
<1>3. importance' = importance /\ by_path' = by_path /\ calls' = calls
  BY <1>2 DEF volume, object
<1>4. Cardinality(ValuesOf(importance)) > Levels
      /\ Cardinality(ValuesOf(importance)) \in Nat
  <2>1. ValuesOf(importance) \subseteq Raw
    BY DEF ValuesOf
  <2> QED BY <1>2, <2>1, FiniteLevels DEF CodingInv, PublishInv
<1>5. LinearInv' /\ PublishInv'
  BY <1>2, <1>3, <1>4, Ranges DEF LinearInv, PublishInv
<1> QED BY <1>1, <1>2, <1>3, <1>5, InsideEncode

LEMMA CodingPublish ==
    ASSUME QuantiserAssumption, CodingInv, Publish
    PROVE  CodingInv'
<1>1. TypeInv'
  BY TypePublish DEF CodingInv
<1>2. /\ pc = "publish" /\ pc' = "idle" /\ calls' = calls /\ by_path' = by_path
      /\ dec' = dec /\ calls \in Nat
  BY DEF Publish, object, volume, CodingInv, TypeInv, TypeOK
<1>3. dec' = NoDecode
  BY <1>2 DEF CodingInv, DecodedInv
<1>4. DecodedInv'
  BY <1>3 DEF DecodedInv
<1>5. PICK lut : /\ streams' = streams \cup {Stream(lut)}
                 /\ ~by_path => lut = lut_decode /\ lut_file' = lut_file
                 /\ by_path => lut_file' = lut_decode
  BY DEF Publish
<1>6. StreamInv'
  <2> SUFFICES ASSUME NEW s \in streams'
               PROVE  /\ s.volume <= calls
                      /\ Cardinality(s.levels) <= Levels =>
                           \A r \in s.values \cap s.levels :
                              /\ s.code[r] < Cardinality(s.levels)
                              /\ ~by_path => s.lut[s.code[r]] = r
                              /\ by_path /\ s.volume = calls => lut_file'[s.code[r]] = r
    BY <1>2 DEF StreamInv
  <2>1. CASE s \in streams
    <3>1. s.volume < calls /\ s.volume <= calls /\ s.volume \in Nat
      BY <1>2, <2>1 DEF CodingInv, StreamInv, TypeInv, TypeOK
    <3>2. s.volume # calls
      BY <1>2, <3>1
    <3> QED BY <2>1, <3>1, <3>2 DEF CodingInv, StreamInv
  <2>2. CASE s = Stream(lut)
    <3>1. /\ s.volume = calls /\ s.levels = ValuesOf(importance) /\ s.lut = lut
          /\ s.values = ValuesOf(input)
          /\ \A r \in s.values : s.code[r] = lut_encode[r]
      BY <2>2 DEF Stream
    <3>2. Cardinality(s.levels) <= Levels =>
             \A r \in s.levels : /\ lut_encode[r] < Cardinality(s.levels)
                                 /\ lut_decode[lut_encode[r]] = r
      BY <1>2, <3>1 DEF CodingInv, PublishInv
    <3> QED BY <1>2, <1>5, <3>1, <3>2
  <2> QED BY <1>5, <2>1, <2>2
<1>7. LinearInv' /\ PublishInv'
  BY <1>2 DEF LinearInv, PublishInv
<1> QED BY <1>1, <1>4, <1>6, <1>7 DEF CodingInv

LEMMA CodingConstruct ==
    ASSUME QuantiserAssumption, CodingInv, Construct
    PROVE  CodingInv'
<1>1. TypeInv'
  BY TypeConstruct DEF CodingInv
<1>2. pc = "idle" /\ UNCHANGED <<pc, calls, by_path, signed, streams, lut_file, dec>>
  BY DEF Construct, object, kept
<1>3. StreamInv' /\ DecodedInv'
  BY <1>2 DEF CodingInv, StreamInv, DecodedInv, Restored, Back, InTable
<1> QED BY <1>1, <1>2, <1>3 DEF CodingInv, LinearInv, PublishInv

LEMMA CodingDecode ==
    ASSUME QuantiserAssumption, CodingInv, Decode
    PROVE  CodingInv'
<1>1. TypeInv'
  BY TypeDecode DEF CodingInv
<1>2. pc = "idle" /\ UNCHANGED <<pc, calls, by_path, signed, streams, lut_file>>
  BY DEF Decode, object, volume, kept
<1>3. PICK s \in streams :
        \E value \in Restored(s, Back(s)) : dec' = [stream |-> s, value |-> value]
  BY DEF Decode, Back
<1>4. dec'.stream = s /\ dec'.value \in Restored(s, Back(s))
  BY <1>3
<1>5. DecodedInv'
  BY <1>2, <1>4 DEF DecodedInv, Restored, Back, InTable
<1>6. StreamInv'
  BY <1>2 DEF CodingInv, StreamInv
<1> QED BY <1>1, <1>2, <1>5, <1>6 DEF CodingInv, LinearInv, PublishInv

LEMMA CodingStutter ==
    ASSUME QuantiserAssumption, CodingInv, UNCHANGED vars
    PROVE  CodingInv'
<1>1. TypeInv'
  BY TypeStep DEF CodingInv
<1>2. /\ UNCHANGED <<object, pc, volume, luts, loop, kept, dec>>
  BY DEF vars
<1>3. LinearInv' /\ PublishInv'
  BY <1>2 DEF volume, luts, loop, CodingInv, LinearInv, PublishInv, Done
<1>4. StreamInv' /\ DecodedInv'
  BY <1>2 DEF object, volume, kept, CodingInv, StreamInv, DecodedInv, Restored, Back,
              InTable
<1> QED BY <1>1, <1>3, <1>4 DEF CodingInv

LEMMA CodingStep ==
    ASSUME QuantiserAssumption, CodingInv, [Next]_vars
    PROVE  CodingInv'
  BY CodingSetup, CodingLinearMap, CodingLinearEnd, CodingLloyd,
     CodingPublish, CodingConstruct, CodingDecode, CodingStutter
     DEF Next, Caller

\* What was decoded with its own table, where a code is an index of it.
LEMMA Decoded ==
    ASSUME QuantiserAssumption, CodingInv, dec # NoDecode
    PROVE  /\ dec.stream \in streams
           /\ \A r \in dec.stream.values : InTable(dec.stream.code[r]) =>
                dec.value[r] = Back(dec.stream)[dec.stream.code[r]]
  BY Zenon DEF CodingInv, DecodedInv, Restored

-----------------------------------------------------------------------------
(* The tables are monotone, and no bucket is represented from outside of it *)

\* Of the values that occur, only the smallest the object has met can have no
\* importance: the weight of 0, or of the offset, is 0.
SmallInv ==
    pc # "idle" =>
        /\ \A r \in ValuesOf(input) : importance[r] = 0 =>
             \A q \in ValuesOf(importance) : r < q
        /\ \A r, s \in ValuesOf(input) :
             importance[r] = 0 /\ importance[s] = 0 => r = s

\* Both mappings pass over the values in order and give out the codes in order.
ScanInv ==
    pc \in {"linear", "lloyd"} =>
        /\ ValuesOf(importance) # {}
        /\ \A s \in Raw : s < raw_idx =>
             /\ lut_encode[s] <= comp_idx
             /\ \A r \in Raw : r <= s => lut_encode[r] <= lut_encode[s]
        /\ \A d \in Codes : d < comp_idx =>
             /\ lut_decode[d] < raw_idx
             /\ \A c \in Codes : c <= d => lut_decode[c] <= lut_decode[d]
        /\ \A r \in Raw : r < raw_idx /\ (\A q \in Done : r < q) => lut_encode[r] = 0

\* One by one, a code leads back to a level that has it.
OneByOneInv ==
    pc = "linear" => \A c \in Codes : c < comp_idx =>
        lut_decode[c] \in Done /\ lut_encode[lut_decode[c]] = c

\* The value x lies between two levels of code c.
Within(x, c) ==
    \E a, b \in Done : /\ lut_encode[a] = c /\ lut_encode[b] = c
                       /\ a <= x /\ x <= b

\* The bucket being filled: its mean lies between two of its levels.
Balanced ==
    \E a, b \in Done : /\ lut_encode[a] = comp_idx /\ lut_encode[b] = comp_idx
                       /\ a <= centre /\ centre <= b
                       /\ a * quantile <= moment /\ moment <= b * quantile

\* A bucket that is full holds importance, so that its centre lies within; the
\* centre of the one being filled never falls behind those in front of it.
LloydInv ==
    pc = "lloyd" =>
        /\ centre < raw_idx
        /\ \A c \in Codes : c < comp_idx =>
             /\ lut_decode[c] <= centre /\ lut_decode[c] * quantile <= moment
             /\ Within(lut_decode[c], c)
        /\ bucket.num \in Int /\ bucket.num > 0
        /\ quantile # 0 => Balanced
        /\ quantile = 0 => \A r \in Done : lut_encode[r] # comp_idx
        /\ Done = {} => comp_idx = 0

\* What encode publishes leads back in order and within the levels.
ResultInv ==
    pc = "publish" =>
        /\ \A r, s \in ValuesOf(input) :
             r <= s => lut_decode[lut_encode[r]] <= lut_decode[lut_encode[s]]
        /\ Representative

\* So does a kept stream, and the file if it is that of the last volume.
StreamOrder ==
    \A s \in streams : \A a, b \in s.values : a <= b =>
        /\ ~by_path => s.lut[s.code[a]] <= s.lut[s.code[b]]
        /\ by_path /\ pc = "idle" /\ s.volume = calls =>
             lut_file[s.code[a]] <= lut_file[s.code[b]]

OrderInv ==
    /\ CodingInv /\ lut_encode[0] = 0
    /\ SmallInv /\ ScanInv /\ OneByOneInv /\ LloydInv /\ ResultInv /\ StreamOrder

LEMMA Types ==
    ASSUME QuantiserAssumption, CodingInv
    PROVE  /\ input \in [Raw -> Nat] /\ importance \in [Raw -> Nat]
           /\ lut_encode \in [Raw -> Codes] /\ lut_decode \in [Codes -> Raw]
           /\ raw_idx \in 0 .. MaxRaw + 1 /\ comp_idx \in 0 .. Levels
           /\ quantile \in Nat /\ moment \in Nat /\ centre \in Raw /\ integral \in Nat
           /\ Done \subseteq Raw /\ Codes \subseteq Nat
<1>1. Done \subseteq Raw /\ Codes \subseteq Nat
  BY Ranges DEF Done, ValuesOf, Codes
<1> QED BY <1>1 DEF CodingInv, TypeInv, TypeOK

\* The bin whose weight is 0.
Weightless(h) == IF weighting = "power_of" THEN 0 ELSE Offset(h)

\* An occurring value has no importance only if it is that bin, and then it is
\* below every value that has.
LEMMA WeightedZero ==
    ASSUME QuantiserAssumption, NEW h \in [Raw -> Nat],
           NEW r \in ValuesOf(h), Weighted(h)[r] = 0
    PROVE  /\ r = Weightless(h)
           /\ \A q \in ValuesOf(Weighted(h)) : r < q
<1>1. ValuesOf(h) \subseteq Nat /\ ValuesOf(h) # {} /\ r \in Raw /\ h[r] > 0
      /\ ValuesOf(h) \subseteq Raw
  BY Ranges DEF ValuesOf
<1>2. /\ Offset(h) \in ValuesOf(h)
      /\ \A q \in ValuesOf(h) : Offset(h) <= q
  BY <1>1, NatMin DEF Offset
<1>3. \A a, b \in Nat : a > 0 /\ b > 0 => a * b > 0
  OBVIOUS
<1>4. \A a \in Nat : a * 1 = a /\ a * 0 = 0 /\ 0 * a = 0
  OBVIOUS
<1>5. \A q \in Raw : /\ h[q] \in Nat /\ Power[q] \in Nat
                     /\ Power[q] = 0 <=> q = 0
  BY DEF QuantiserAssumption
<1>6. ASSUME NEW q \in Raw, weighting = "power_of"
      PROVE  Weighted(h)[q] = h[q] * Power[q]
  BY <1>6 DEF Weighted
<1>7. ASSUME NEW q \in ValuesOf(h), weighting = "offset_power_of"
      PROVE  /\ q - Offset(h) \in Raw
             /\ Weighted(h)[q] = h[q] * Power[q - Offset(h)]
  <2>1. q \in Raw /\ Offset(h) \in Raw /\ Offset(h) <= q
    BY <1>1, <1>2
  <2>2. q - Offset(h) \in Raw /\ ~ (q < Offset(h))
    <3>1. \A a, b \in Raw : a <= b => b - a \in Raw /\ ~ (b < a)
      BY Ranges DEF Raw
    <3> QED BY <2>1, <3>1
  <2> QED BY <1>7, <2>1, <2>2 DEF Weighted
<1>8. ASSUME NEW q \in Raw, weighting \notin {"power_of", "offset_power_of"}
      PROVE  Weighted(h)[q] = h[q] * 1
  BY <1>8 DEF Weighted
<1>9. r = Weightless(h) /\ weighting \in {"power_of", "offset_power_of"}
  <2>1. CASE weighting = "power_of"
    <3>1. Power[r] = 0
      BY <1>1, <1>3, <1>5, <1>6, <2>1
    <3> QED BY <1>1, <1>5, <2>1, <3>1 DEF Weightless
  <2>2. CASE weighting = "offset_power_of"
    <3>1. Power[r - Offset(h)] = 0
      BY <1>1, <1>3, <1>5, <1>7, <2>2
    <3>2. r - Offset(h) = 0
      BY <1>5, <1>7, <2>2, <3>1
    <3>3. r = Offset(h)
      BY <1>1, <1>2, <3>2
    <3> QED BY <2>2, <3>3 DEF Weightless
  <2>3. CASE weighting \notin {"power_of", "offset_power_of"}
    <3>1. Weighted(h)[r] = h[r]
      BY <1>1, <1>4, <1>5, <1>8, <2>3
    <3> QED BY <1>1, <3>1
  <2> QED BY <2>1, <2>2, <2>3
<1>10. ASSUME NEW q \in ValuesOf(Weighted(h))  PROVE r < q
  <2>1. q \in Raw /\ Weighted(h)[q] > 0 /\ q \in Nat /\ r \in Nat /\ q # r
    BY <1>1, Ranges DEF ValuesOf
  <2>2. CASE weighting = "power_of"
    <3>1. r = 0
      BY <1>9, <2>2 DEF Weightless
    <3> QED BY <2>1, <3>1
  <2>3. CASE weighting = "offset_power_of"
    <3>1. r = Offset(h)
      BY <1>9, <2>3 DEF Weightless
    <3>2. CASE q < Offset(h)
      <4>1. q \notin ValuesOf(h)
        BY <1>1, <1>2, <2>1, <3>2
      <4>2. h[q] = 0
        BY <1>5, <2>1, <4>1 DEF ValuesOf
      <4>3. Weighted(h)[q] = h[q] * 1
        BY <2>1, <2>3, <3>2 DEF Weighted
      <4> QED BY <1>4, <2>1, <4>2, <4>3
    <3>3. CASE ~ (q < Offset(h))
      BY <1>1, <2>1, <3>1, <3>3
    <3> QED BY <3>2, <3>3
  <2> QED BY <1>9, <2>2, <2>3
<1> QED BY <1>9, <1>10

\* The importance of all values together is not 0 if one has importance.
LEMMA TotalPositive ==
    ASSUME QuantiserAssumption, NEW h \in [Raw -> Nat]
    PROVE  /\ Total(h) \in Nat
           /\ ValuesOf(h) # {} => Total(h) > 0
<1>1. IsFiniteSet(Raw) /\ \A r \in Raw : h[r] \in Nat
  BY FiniteLevels
<1>2. Total(h) = SumOver(h, Raw)
  BY Zenon DEF Total, SumOver
<1>3. SumOver(h, Raw) \in Nat
  BY <1>1, SumOverType
<1>4. ASSUME NEW x \in ValuesOf(h)  PROVE SumOver(h, Raw) > 0
  <2> DEFINE S == Raw \ {x}
  <2>1. x \in Raw /\ h[x] > 0
    BY DEF ValuesOf
  <2>2. IsFiniteSet(S) /\ x \notin S /\ S \cup {x} = Raw /\ \A r \in S : h[r] \in Nat
    BY <1>1, <2>1, FS_Subset
  <2> HIDE DEF S
  <2>3. SumOver(h, S \cup {x}) = h[x] + SumOver(h, S)
    BY <1>1, <2>1, <2>2, SumOverAdd
  <2>4. SumOver(h, S) \in Nat
    BY <2>2, SumOverType
  <2>5. SumOver(h, S \cup {x}) = SumOver(h, Raw)
    BY <2>2, Zenon
  <2> QED BY <1>1, <2>1, <2>3, <2>4, <2>5
<1> QED BY <1>2, <1>3, <1>4

\* A weighted mean of values from k on, rounded, is not less than k.
LEMMA RoundAbove ==
    ASSUME NEW a \in Nat, NEW b \in Nat, b # 0, NEW k \in Nat, k * b <= a
    PROVE  k <= Round(a, b)
<1> DEFINE d == 2 * b
           q == (2 * a + b) \div d
<1>1. d \in Nat /\ d > 0 /\ 2 * a + b \in Nat
  OBVIOUS
<1>2. q \in Nat /\ 2 * a + b < (q + 1) * d
  BY <1>1
<1>3. k * d <= 2 * a + b
  <2>1. PICK p \in Nat : p = k * b
    OBVIOUS
  <2>2. k * d = 2 * p
    BY <2>1
  <2> QED BY <2>1, <2>2
<1>4. k * d < (q + 1) * d
  <2>1. PICK x \in Nat, y \in Nat : x = k * d /\ y = (q + 1) * d
    BY <1>1, <1>2
  <2> QED BY <1>1, <1>2, <1>3, <2>1
<1> HIDE DEF d, q
<1>5. k < q + 1
  BY <1>1, <1>2, <1>4
<1>6. k <= q
  BY <1>2, <1>5
<1> QED BY <1>6 DEF Round, q, d

\* The value at raw_idx is done: it joins the levels done, if it is one.
LEMMA DoneStep ==
    ASSUME QuantiserAssumption, CodingInv, raw_idx \in Raw,
           raw_idx' = raw_idx + 1, importance' = importance
    PROVE  /\ Done \subseteq Done' /\ Done' \subseteq Done \cup {raw_idx}
           /\ raw_idx \in Done' <=> importance[raw_idx] # 0
           /\ \A r \in Done : r < raw_idx
<1>1. raw_idx \in Nat /\ importance \in [Raw -> Nat] /\ Raw \subseteq Nat
  BY Types, Ranges
<1>2. \A r : r \in Done <=> r \in Raw /\ importance[r] > 0 /\ r < raw_idx
  BY DEF Done, ValuesOf
<1>3. \A r : r \in Done' <=> r \in Raw /\ importance[r] > 0 /\ r < raw_idx + 1
  BY DEF Done, ValuesOf
<1>4. \A r \in Raw : r < raw_idx + 1 <=> r < raw_idx \/ r = raw_idx
  BY <1>1
<1>5. Done \subseteq Done'
  BY <1>2, <1>3, <1>4
<1>6. Done' \subseteq Done \cup {raw_idx}
  BY <1>2, <1>3, <1>4
<1>7. raw_idx \in Done' <=> importance[raw_idx] # 0
  BY <1>1, <1>3, <1>4
<1> QED BY <1>2, <1>5, <1>6, <1>7

LEMMA OrderInit ==
    ASSUME QuantiserAssumption, Init
    PROVE  OrderInv
<1>1. CodingInv
  BY CodingInit
<1>2. lut_encode[0] = 0
  BY Ranges DEF Init, NoVolume
<1> QED BY <1>1, <1>2
    DEF Init, OrderInv, SmallInv, ScanInv, OneByOneInv, LloydInv, ResultInv, StreamOrder

LEMMA OrderSetup ==
    ASSUME QuantiserAssumption, OrderInv, Setup
    PROVE  OrderInv'
<1> DEFINE L == ValuesOf(importance')
<1>1. CodingInv /\ CodingInv'
  BY CodingStep DEF OrderInv, Next
<1>2. PICK v \in Histograms :
        /\ ValuesOf(v) # {} /\ input' = v
        /\ histo' = [r \in Raw |-> histo[r] + v[r]]
  BY DEF Setup
<1>3. v \in [Raw -> Nat] /\ histo \in [Raw -> Nat] /\ histo' \in [Raw -> Nat]
      /\ importance' \in [Raw -> Nat]
  BY <1>1, <1>2 DEF QuantiserAssumption, CodingInv, TypeInv, TypeOK
<1>4. /\ comp_idx' = 0 /\ moment' = 0 /\ centre' = 0
      /\ quantile' = importance'[0]
      /\ bucket'.num = Total(importance')
      /\ importance' = Weighted(histo')
      /\ UNCHANGED <<weighting, by_path, lut_encode, lut_file, streams>>
      /\ pc' = IF Cardinality(L) = 0 THEN "publish"
               ELSE IF Cardinality(L) <= Levels THEN "linear" ELSE "lloyd"
      /\ raw_idx' = IF Cardinality(L) <= Levels THEN 0 ELSE 1
  BY DEF Setup, object, luts, kept
<1>5. /\ L \subseteq Raw /\ Raw \subseteq Nat /\ Cardinality(L) \in Nat
      /\ Cardinality(L) = 0 <=> L = {}
  <2>1. L \subseteq Raw /\ Raw \subseteq Nat
    BY Ranges DEF ValuesOf
  <2> QED BY <2>1, FiniteLevels, FS_EmptySet
<1>6. SmallInv'
  <2>1. ASSUME NEW r \in ValuesOf(input'), importance'[r] = 0
        PROVE  r = Weightless(histo') /\ \A q \in L : r < q
    <3>1. r \in ValuesOf(histo')
      BY <1>2, <1>3 DEF ValuesOf
    <3>2. Weighted(histo')[r] = 0
      BY <1>4, <2>1
    <3>3. r = Weightless(histo') /\ \A q \in ValuesOf(Weighted(histo')) : r < q
      BY <1>3, <3>1, <3>2, WeightedZero
    <3> QED BY <1>4, <3>3, Zenon
  <2> QED BY <2>1 DEF SmallInv
<1>7. ScanInv'
  <2>1. CASE pc' = "linear"
    <3>1. L # {} /\ \A r \in Raw : ~ (r < raw_idx') /\ comp_idx' = 0
      BY <1>4, <1>5, <2>1
    <3>2. \A c \in Codes : ~ (c < comp_idx')
      BY <1>4, Ranges DEF Codes
    <3> QED BY <3>1, <3>2 DEF ScanInv
  <2>2. CASE pc' = "lloyd"
    <3>1. L # {} /\ raw_idx' = 1 /\ comp_idx' = 0
      BY <1>4, <1>5, <2>2, Ranges
    <3>2. \A c \in Codes : ~ (c < comp_idx')
      BY <1>4, Ranges DEF Codes
    <3>3. lut_encode'[0] = 0
      BY <1>4 DEF OrderInv
    <3>4. \A r \in Raw : r < raw_idx' => r = 0
      BY <1>5, <3>1
    <3>5. \A r \in Raw : r <= 0 => r = 0
      BY <1>5
    <3> QED BY <3>1, <3>2, <3>3, <3>4, <3>5 DEF ScanInv
  <2> QED BY <2>1, <2>2 DEF ScanInv
<1>8. OneByOneInv'
  <2>1. \A c \in Codes : ~ (c < comp_idx')
    BY <1>4, Ranges DEF Codes
  <2> QED BY <2>1 DEF OneByOneInv
<1>9. LloydInv'
  <2> SUFFICES ASSUME pc' = "lloyd"
               PROVE  /\ centre' < raw_idx'
                      /\ \A c \in Codes : ~ (c < comp_idx')
                      /\ bucket'.num \in Int /\ bucket'.num > 0
                      /\ quantile' # 0 => Balanced'
                      /\ quantile' = 0 => Done' = {}
                      /\ comp_idx' = 0
    BY DEF LloydInv
  <2>1. L # {} /\ raw_idx' = 1
    BY <1>4, <1>5, Ranges
  <2>2. bucket'.num \in Int /\ bucket'.num > 0
    BY <1>3, <1>4, <2>1, TotalPositive
  <2>3. \A r : r \in Done' <=> r = 0 /\ importance'[0] > 0
    <3>1. Done' = {r \in L : r < raw_idx'}
      BY DEF Done
    <3>2. \A r \in Nat : r < 1 <=> r = 0
      OBVIOUS
    <3>3. \A r : r \in L <=> r \in Raw /\ importance'[r] > 0
      BY DEF ValuesOf
    <3> QED BY <1>5, <2>1, <3>1, <3>2, <3>3, Ranges
  <2>4. ASSUME quantile' # 0  PROVE Balanced'
    <3>1. 0 \in Done'
      BY <1>3, <1>4, <2>3, <2>4, Ranges
    <3>2. lut_encode'[0] = comp_idx'
      BY <1>4 DEF OrderInv
    <3>3. /\ 0 <= centre' /\ centre' <= 0
          /\ 0 * quantile' <= moment' /\ moment' <= 0 * quantile'
      BY <1>3, <1>4, Ranges
    <3> QED BY <3>1, <3>2, <3>3 DEF Balanced
  <2>5. quantile' = 0 => Done' = {}
    BY <1>4, <2>3
  <2>6. \A c \in Codes : ~ (c < comp_idx')
    BY <1>4, Ranges DEF Codes
  <2> QED BY <1>4, <2>1, <2>2, <2>4, <2>5, <2>6
<1>10. ResultInv'
  <2> SUFFICES ASSUME pc' = "publish"
               PROVE  /\ L = {}
                      /\ \A r, s \in ValuesOf(input') : r = s /\ r \in Raw
    <3>1. lut_encode' \in [Raw -> Codes]
      BY <1>1 DEF CodingInv, TypeInv, TypeOK
    <3>2. \A c \in Codes : lut_decode'[c] \in Nat
      BY <1>1, <1>5 DEF CodingInv, TypeInv, TypeOK
    <3>3. \A r \in Raw : lut_decode'[lut_encode'[r]] <= lut_decode'[lut_encode'[r]]
      <4>1. \A n \in Nat : n <= n
        OBVIOUS
      <4> QED BY <3>1, <3>2, <4>1
    <3> QED BY <3>3 DEF ResultInv, Representative
  <2>1. L = {}
    BY <1>4, <1>5
  <2>2. ASSUME NEW r \in ValuesOf(input')  PROVE r \in Raw /\ importance'[r] = 0
    <3>1. r \in Raw /\ r \notin L
      BY <2>1 DEF ValuesOf
    <3> QED BY <1>3, <3>1 DEF ValuesOf
  <2>3. pc' # "idle"
    OBVIOUS
  <2> QED BY <1>6, <2>1, <2>2, <2>3 DEF SmallInv
<1>11. StreamOrder'
  BY <1>4 DEF OrderInv, StreamOrder
<1>12. lut_encode'[0] = 0
  BY <1>4 DEF OrderInv
<1> QED BY <1>1, <1>6, <1>7, <1>8, <1>9, <1>10, <1>11, <1>12 DEF OrderInv

\* A step inside encode keeps the volume and the streams.
LEMMA OrderInside ==
    ASSUME OrderInv, CodingInv', pc # "idle", pc' # "idle",
           UNCHANGED <<object, volume, kept>>,
           lut_encode'[0] = 0, ScanInv', OneByOneInv', LloydInv', ResultInv'
    PROVE  OrderInv'
<1>1. SmallInv'
  BY DEF OrderInv, SmallInv, volume
<1>2. StreamOrder'
  BY DEF OrderInv, StreamOrder, object, kept
<1> QED BY <1>1, <1>2 DEF OrderInv

\* A value is done with the code at comp_idx: those before it stay in order.
LEMMA ScanStep ==
    ASSUME QuantiserAssumption, OrderInv, pc \in {"linear", "lloyd"},
           raw_idx \in Raw, raw_idx' = raw_idx + 1, importance' = importance,
           NEW c \in Codes, comp_idx <= c,
           lut_encode' = [lut_encode EXCEPT ![raw_idx] = c]
    PROVE  /\ \A s \in Raw : s < raw_idx' =>
                /\ lut_encode'[s] <= c
                /\ \A r \in Raw : r <= s => lut_encode'[r] <= lut_encode'[s]
           /\ \A r \in Done : lut_encode'[r] = lut_encode[r]
<1>1. /\ Raw \subseteq Nat /\ Codes \subseteq Nat /\ lut_encode \in [Raw -> Codes]
      /\ comp_idx \in Nat /\ raw_idx \in Nat
  <2>1. CodingInv
    BY DEF OrderInv
  <2> QED BY <2>1, Types, Ranges
<1>2. ASSUME NEW s \in Raw, s < raw_idx
      PROVE  /\ lut_encode'[s] = lut_encode[s] /\ lut_encode[s] <= comp_idx
             /\ \A r \in Raw : r <= s => lut_encode[r] <= lut_encode[s]
  BY <1>1, <1>2 DEF OrderInv, ScanInv
<1>3. ASSUME NEW s \in Raw, s < raw_idx'
      PROVE  /\ lut_encode'[s] <= c
             /\ \A r \in Raw : r <= s => lut_encode'[r] <= lut_encode'[s]
  <2>1. CASE s < raw_idx
    <3>1. lut_encode'[s] <= c
      <4>1. lut_encode[s] \in Nat
        BY <1>1
      <4> QED BY <1>1, <1>2, <2>1, <4>1
    <3>2. ASSUME NEW r \in Raw, r <= s
          PROVE  lut_encode'[r] <= lut_encode'[s]
      <4>1. r < raw_idx
        BY <1>1, <2>1, <3>2
      <4> QED BY <1>2, <2>1, <3>2, <4>1
    <3> QED BY <3>1, <3>2
  <2>2. CASE s = raw_idx
    <3>1. lut_encode'[s] = c
      BY <1>1, <2>2
    <3>2. ASSUME NEW r \in Raw, r <= s
          PROVE  lut_encode'[r] <= c
      <4>1. CASE r < raw_idx
        <5>1. lut_encode[r] \in Nat
          BY <1>1
        <5> QED BY <1>1, <1>2, <4>1, <5>1
      <4>2. CASE r = raw_idx
        BY <1>1, <2>2, <3>1, <4>2
      <4> QED BY <1>1, <2>2, <3>2, <4>1, <4>2
    <3> QED BY <1>1, <3>1, <3>2
  <2> QED BY <1>1, <1>3, <2>1, <2>2
<1>4. \A r \in Done : r \in Raw /\ r < raw_idx
  BY DEF Done, ValuesOf
<1> QED BY <1>2, <1>3, <1>4

\* In front of the first level every code is 0, and so is comp_idx.
LEMMA FrontStep ==
    ASSUME QuantiserAssumption, OrderInv, pc \in {"linear", "lloyd"},
           raw_idx \in Raw, raw_idx' = raw_idx + 1, importance' = importance,
           NEW c \in Codes, Done = {} => c = 0,
           lut_encode' = [lut_encode EXCEPT ![raw_idx] = c]
    PROVE  \A r \in Raw : r < raw_idx' /\ (\A q \in Done' : r < q) => lut_encode'[r] = 0
<1>1. /\ Raw \subseteq Nat /\ lut_encode \in [Raw -> Codes] /\ raw_idx \in Nat
      /\ Done \subseteq Done' /\ \A r \in Done : r \in Nat /\ r < raw_idx
  <2>1. CodingInv
    BY DEF OrderInv
  <2> QED BY <2>1, Types, Ranges, DoneStep
<1>2. SUFFICES ASSUME NEW r \in Raw, r < raw_idx', \A q \in Done' : r < q
               PROVE  lut_encode'[r] = 0
  OBVIOUS
<1>3. \A q \in Done : r < q
  BY <1>1, <1>2
<1>4. CASE r < raw_idx
  <2>1. lut_encode[r] = 0
    BY <1>2, <1>3, <1>4 DEF OrderInv, ScanInv
  <2>2. r # raw_idx
    BY <1>1, <1>2, <1>4
  <2> QED BY <1>1, <1>2, <2>1, <2>2
<1>5. CASE r = raw_idx
  <2>1. Done = {}
    <3> SUFFICES ASSUME NEW q \in Done PROVE FALSE
      OBVIOUS
    <3>1. q < raw_idx /\ raw_idx < q /\ q \in Nat
      BY <1>1, <1>3, <1>5
    <3> QED BY <1>1, <3>1
  <2> QED BY <1>1, <1>5, <2>1
<1> QED BY <1>1, <1>2, <1>4, <1>5

LEMMA OrderLinearMap ==
    ASSUME QuantiserAssumption, OrderInv, LinearMap
    PROVE  OrderInv'
<1>1. CodingInv /\ CodingInv'
  BY CodingStep DEF OrderInv, Next, Caller
<1>2. /\ pc = "linear" /\ pc' = pc /\ raw_idx <= MaxRaw /\ comp_idx < Levels
      /\ lut_encode' = [lut_encode EXCEPT ![raw_idx] = comp_idx]
      /\ lut_decode' = [lut_decode EXCEPT ![comp_idx] = raw_idx]
      /\ comp_idx' = IF importance[raw_idx] # 0 THEN comp_idx + 1 ELSE comp_idx
      /\ raw_idx' = raw_idx + 1
      /\ UNCHANGED <<object, volume, kept>> /\ importance' = importance
  BY DEF LinearMap, Mapping, volume
<1>3. /\ Raw \subseteq Nat /\ Codes \subseteq Nat
      /\ lut_encode \in [Raw -> Codes] /\ lut_decode \in [Codes -> Raw]
      /\ importance \in [Raw -> Nat]
      /\ raw_idx \in Raw /\ comp_idx \in Codes
      /\ raw_idx \in Nat /\ comp_idx \in Nat
  <2>1. raw_idx \in 0 .. MaxRaw + 1 /\ comp_idx \in 0 .. Levels
    BY <1>1, Types
  <2>2. raw_idx \in Raw /\ comp_idx \in Codes
    BY <1>2, <2>1, Ranges DEF Raw, Codes
  <2> QED BY <1>1, <2>2, Types, Ranges
<1>4. /\ Done \subseteq Done' /\ \A r \in Done : r < raw_idx /\ r \in Raw
      /\ raw_idx \in Done' <=> importance[raw_idx] # 0
  <2>1. \A r \in Done : r \in Raw
    BY DEF Done, ValuesOf
  <2> QED BY <1>1, <1>2, <1>3, <2>1, DoneStep
<1>5. Done = {} => comp_idx = 0
  BY <1>1, <1>2, FS_EmptySet DEF CodingInv, LinearInv
<1>6. /\ \A s \in Raw : s < raw_idx' =>
           /\ lut_encode'[s] <= comp_idx
           /\ \A r \in Raw : r <= s => lut_encode'[r] <= lut_encode'[s]
      /\ \A r \in Done : lut_encode'[r] = lut_encode[r]
  <2>1. comp_idx <= comp_idx
    BY <1>3
  <2> QED BY <1>2, <1>3, <2>1, ScanStep
<1>7. \A r \in Raw : r < raw_idx' /\ (\A q \in Done' : r < q) => lut_encode'[r] = 0
  BY <1>2, <1>3, <1>5, FrontStep
<1>8. comp_idx' \in Nat /\ comp_idx <= comp_idx'
  BY <1>2, <1>3
<1>9. ASSUME NEW d \in Codes, d < comp_idx
      PROVE  /\ lut_decode'[d] = lut_decode[d] /\ lut_decode[d] < raw_idx
             /\ \A c \in Codes : c <= d => lut_decode[c] <= lut_decode[d]
  BY <1>2, <1>3, <1>9 DEF OrderInv, ScanInv
<1>10. ASSUME NEW d \in Codes, d < comp_idx'
       PROVE  d < comp_idx \/ (d = comp_idx /\ importance[raw_idx] # 0)
  BY <1>2, <1>3, <1>10
<1>11. ScanInv'
  <2>1. ValuesOf(importance') # {}
    BY <1>2 DEF OrderInv, ScanInv
  <2>2. ASSUME NEW s \in Raw, s < raw_idx'  PROVE lut_encode'[s] <= comp_idx'
    <3>1. lut_encode'[s] \in Nat
      BY <1>2, <1>3
    <3> QED BY <1>3, <1>6, <1>8, <2>2, <3>1
  <2>3. ASSUME NEW d \in Codes, d < comp_idx'
        PROVE  /\ lut_decode'[d] < raw_idx'
               /\ \A c \in Codes : c <= d => lut_decode'[c] <= lut_decode'[d]
    <3>1. CASE d < comp_idx
      <4>1. lut_decode'[d] < raw_idx'
        <5>1. lut_decode[d] \in Nat
          BY <1>3
        <5> QED BY <1>2, <1>3, <1>9, <3>1, <5>1
      <4>2. ASSUME NEW c \in Codes, c <= d  PROVE lut_decode'[c] <= lut_decode'[d]
        <5>1. c < comp_idx
          BY <1>3, <3>1, <4>2
        <5> QED BY <1>9, <3>1, <4>2, <5>1
      <4> QED BY <4>1, <4>2
    <3>2. CASE d = comp_idx
      <4>1. lut_decode'[d] = raw_idx
        BY <1>2, <1>3, <3>2
      <4>2. ASSUME NEW c \in Codes, c <= d  PROVE lut_decode'[c] <= raw_idx
        <5>1. CASE c < comp_idx
          <6>1. lut_decode[c] \in Nat
            BY <1>3
          <6> QED BY <1>3, <1>9, <5>1, <6>1
        <5>2. CASE c = comp_idx
          BY <1>3, <3>2, <4>1, <5>2
        <5> QED BY <1>3, <3>2, <4>2, <5>1, <5>2
      <4> QED BY <1>2, <1>3, <4>1, <4>2
    <3> QED BY <1>10, <2>3, <3>1, <3>2
  <2> QED BY <1>6, <1>7, <2>1, <2>2, <2>3 DEF ScanInv
<1>12. OneByOneInv'
  <2> SUFFICES ASSUME NEW c \in Codes, c < comp_idx'
               PROVE  lut_decode'[c] \in Done' /\ lut_encode'[lut_decode'[c]] = c
    BY DEF OneByOneInv
  <2>1. CASE c < comp_idx
    <3>1. lut_decode[c] \in Done /\ lut_encode[lut_decode[c]] = c
      BY <1>2, <2>1 DEF OrderInv, OneByOneInv
    <3> QED BY <1>4, <1>6, <1>9, <2>1, <3>1
  <2>2. CASE c = comp_idx /\ importance[raw_idx] # 0
    <3>1. lut_decode'[c] = raw_idx /\ lut_encode'[raw_idx] = comp_idx
      BY <1>2, <1>3, <2>2
    <3> QED BY <1>4, <2>2, <3>1
  <2> QED BY <1>10, <2>1, <2>2
<1>13. lut_encode'[0] = 0
  <2>1. CASE raw_idx = 0
    <3>1. Done = {}
      <4>1. \A r \in Done : r < 0 /\ r \in Nat
        BY <1>3, <1>4, <2>1
      <4> QED BY <4>1
    <3> QED BY <1>2, <1>3, <1>5, <2>1, <3>1
  <2>2. CASE raw_idx # 0
    BY <1>2, <1>3, <2>2, Ranges DEF OrderInv
  <2> QED BY <2>1, <2>2
<1>14. LloydInv' /\ ResultInv'
  BY <1>2 DEF LloydInv, ResultInv
<1> QED BY <1>1, <1>2, <1>11, <1>12, <1>13, <1>14, OrderInside

\* When the loops are over: a value that occurs has the code of a level.
LEMMA UsedCodes ==
    ASSUME QuantiserAssumption, OrderInv, pc \in {"linear", "lloyd"},
           Done = ValuesOf(importance), NEW r \in ValuesOf(input)
    PROVE  /\ r \in Raw /\ r < raw_idx
           /\ \E q \in Done : lut_encode[r] = lut_encode[q]
<1>1. /\ Raw \subseteq Nat /\ r \in Raw /\ importance \in [Raw -> Nat]
      /\ lut_encode \in [Raw -> Codes] /\ Codes \subseteq Nat /\ raw_idx \in Nat
      /\ \A q \in Done : q \in Raw /\ q < raw_idx
  <2>1. CodingInv
    BY DEF OrderInv
  <2> QED BY <2>1, Types, Ranges DEF ValuesOf, Done
<1>2. CASE importance[r] # 0
  <2>1. r \in Done
    BY <1>1, <1>2 DEF ValuesOf
  <2> QED BY <1>1, <2>1
<1>3. CASE importance[r] = 0
  <2>1. \A q \in Done : r < q
    BY <1>3 DEF OrderInv, SmallInv
  <2>2. Done # {}
    BY DEF OrderInv, ScanInv
  <2>3. PICK m \in Done : \A q \in Done : m <= q
    <3>1. Done \subseteq Nat
      BY <1>1
    <3> QED BY <2>2, <3>1, NatMin
  <2>4. r < raw_idx /\ r <= m
    BY <1>1, <2>1, <2>3
  <2>5. lut_encode[r] = 0
    BY <1>1, <2>1, <2>4 DEF OrderInv, ScanInv
  <2>6. CASE \E q \in Done : lut_encode[q] = 0
    BY <1>1, <2>4, <2>5, <2>6
  <2>7. CASE \A q \in Done : lut_encode[q] # 0
    <3>1. CASE pc = "linear"
      <4>1. lut_encode[m] < comp_idx /\ lut_encode[m] \in Codes
        BY <1>1, <3>1 DEF OrderInv, CodingInv, LinearInv
      <4>2. comp_idx \in Nat
        BY Types, Ranges DEF OrderInv
      <4>3. 0 < comp_idx
        <5>1. lut_encode[m] \in Nat
          BY <1>1, <4>1
        <5> QED BY <4>1, <4>2, <5>1
      <4>4. lut_decode[0] \in Done /\ lut_encode[lut_decode[0]] = 0
        BY <3>1, <4>3, Ranges DEF OrderInv, OneByOneInv
      <4> QED BY <2>7, <4>4
    <3>2. CASE pc = "lloyd"
      <4>1. comp_idx \in Nat
        BY Types, Ranges DEF OrderInv
      <4>2. CASE comp_idx = 0
        <5>1. lut_encode[m] <= comp_idx
          BY <1>1 DEF OrderInv, ScanInv
        <5>2. lut_encode[m] = 0
          <6>1. lut_encode[m] \in Nat
            BY <1>1
          <6> QED BY <4>2, <5>1, <6>1
        <5> QED BY <2>7, <5>2
      <4>3. CASE comp_idx > 0
        <5>1. Within(lut_decode[0], 0)
          BY <3>2, <4>1, <4>3, Ranges DEF OrderInv, LloydInv
        <5> QED BY <2>7, <5>1 DEF Within
      <4> QED BY <4>1, <4>2, <4>3
    <3> QED BY <3>1, <3>2
  <2> QED BY <2>6, <2>7
<1> QED BY <1>2, <1>3

\* Tables that are monotone on the values and codes in use lead back in order.
LEMMA LeadsBack ==
    ASSUME QuantiserAssumption, OrderInv, pc \in {"linear", "lloyd"},
           Done = ValuesOf(importance), lut_encode' = lut_encode, input' = input,
           importance' = importance, CodingInv',
           \A q \in Done : /\ Within(lut_decode'[lut_encode[q]], lut_encode[q])
                           /\ \A c \in Codes : c <= lut_encode[q] =>
                                lut_decode'[c] <= lut_decode'[lut_encode[q]]
    PROVE  ResultInv'
<1>1. /\ Raw \subseteq Nat /\ Codes \subseteq Nat
      /\ lut_encode \in [Raw -> Codes] /\ lut_decode' \in [Codes -> Raw]
      /\ raw_idx \in Nat /\ comp_idx \in Nat
      /\ \A q \in Done : q \in Raw /\ q < raw_idx
  <2>1. CodingInv /\ lut_decode' \in [Codes -> Raw]
    BY DEF OrderInv, CodingInv, TypeInv, TypeOK
  <2> QED BY <2>1, Types, Ranges DEF ValuesOf, Done
<1>2. ASSUME NEW r \in ValuesOf(input), NEW s \in ValuesOf(input), r <= s
      PROVE  lut_decode'[lut_encode[r]] <= lut_decode'[lut_encode[s]]
  <2>1. /\ r \in Raw /\ s \in Raw /\ s < raw_idx
        /\ \E q \in Done : lut_encode[s] = lut_encode[q]
    BY UsedCodes
  <2>2. lut_encode[r] <= lut_encode[s]
    BY <1>2, <2>1 DEF OrderInv, ScanInv
  <2> QED BY <1>1, <2>1, <2>2
<1>3. ASSUME NEW r \in ValuesOf(input), NEW c, c = lut_encode[r]
      PROVE  /\ lut_encode[lut_decode'[c]] = c
             /\ \E a, b \in ValuesOf(importance) :
                  /\ lut_encode[a] = c /\ lut_encode[b] = c
                  /\ a <= lut_decode'[c] /\ lut_decode'[c] <= b
  <2>1. PICK q \in Done : c = lut_encode[q]
    BY <1>3, UsedCodes
  <2>2. PICK a \in Done, b \in Done :
          /\ lut_encode[a] = c /\ lut_encode[b] = c
          /\ a <= lut_decode'[c] /\ lut_decode'[c] <= b
    BY <2>1 DEF Within
  <2> DEFINE x == lut_decode'[c]
  <2>3. c \in Codes /\ x \in Raw
    BY <1>1, <2>1
  <2>4. x < raw_idx
    <3>1. x \in Nat /\ b \in Nat /\ b < raw_idx /\ raw_idx \in Nat /\ x <= b
      BY <1>1, <2>2, <2>3
    <3> HIDE DEF x
    <3> QED BY <3>1
  <2>5. lut_encode[a] <= lut_encode[x] /\ lut_encode[x] <= lut_encode[b]
    BY <1>1, <2>2, <2>3, <2>4 DEF OrderInv, ScanInv
  <2>6. lut_encode[x] = c
    <3>1. lut_encode[x] \in Nat /\ c \in Nat
      BY <1>1, <2>3
    <3> QED BY <2>2, <2>5, <3>1
  <2> QED BY <2>2, <2>6
<1>4. Representative'
  BY <1>3 DEF Representative
<1> QED BY <1>2, <1>4 DEF ResultInv

LEMMA OrderLinearEnd ==
    ASSUME QuantiserAssumption, OrderInv, LinearEnd
    PROVE  OrderInv'
<1>1. CodingInv /\ CodingInv'
  BY CodingStep DEF OrderInv, Next, Caller
<1>2. /\ pc = "linear" /\ pc' = "publish"
      /\ lut_encode' = lut_encode /\ input' = input /\ importance' = importance
      /\ UNCHANGED <<object, volume, kept>>
  BY DEF LinearEnd, volume
<1>3. Done = ValuesOf(importance)
  BY <1>1, AllNumbered
<1>4. /\ Raw \subseteq Nat /\ Codes \subseteq Nat /\ comp_idx \in Nat
      /\ lut_encode \in [Raw -> Codes] /\ lut_decode \in [Codes -> Raw]
  BY <1>1, Types, Ranges
<1>5. \A c \in Codes : c < comp_idx => lut_decode'[c] = lut_decode[c]
  BY <1>4 DEF LinearEnd
<1>6. ASSUME NEW q \in Done
      PROVE  /\ Within(lut_decode'[lut_encode[q]], lut_encode[q])
             /\ \A c \in Codes : c <= lut_encode[q] =>
                  lut_decode'[c] <= lut_decode'[lut_encode[q]]
  <2>1. lut_encode[q] < comp_idx /\ lut_encode[q] \in Codes /\ q \in Nat
    BY <1>1, <1>2, <1>4 DEF CodingInv, LinearInv, Done, ValuesOf
  <2>2. lut_decode'[lut_encode[q]] = q
    BY <1>1, <1>2, <1>5, <2>1 DEF CodingInv, LinearInv
  <2>3. Within(q, lut_encode[q])
    BY <2>1 DEF Within
  <2>4. ASSUME NEW c \in Codes, c <= lut_encode[q]
        PROVE  lut_decode'[c] <= lut_decode'[lut_encode[q]]
    <3>1. c < comp_idx
      <4>1. c \in Nat /\ lut_encode[q] \in Nat
        BY <1>4, <2>1
      <4> QED BY <1>4, <2>1, <2>4, <4>1
    <3>2. lut_decode[c] <= lut_decode[lut_encode[q]]
      BY <1>2, <2>1, <2>4 DEF OrderInv, ScanInv
    <3> QED BY <1>5, <2>1, <3>1, <3>2
  <2> QED BY <2>2, <2>3, <2>4
<1>7. ResultInv'
  BY <1>1, <1>2, <1>3, <1>6, LeadsBack
<1>8. ScanInv' /\ OneByOneInv' /\ LloydInv' /\ lut_encode'[0] = 0
  BY <1>2 DEF OrderInv, ScanInv, OneByOneInv, LloydInv
<1> QED BY <1>1, <1>2, <1>7, <1>8, OrderInside

LEMMA TimesOrder ==
    ASSUME NEW x \in Nat, NEW y \in Nat, NEW z \in Nat, x <= y
    PROVE  x * z <= y * z
<1>1. PICK k \in Nat : y = x + k
  <2>1. y - x \in Nat /\ y = x + (y - x)
    OBVIOUS
  <2> QED BY <2>1
<1>2. y * z = x * z + k * z
  BY <1>1
<1>3. x * z \in Nat /\ k * z \in Nat
  BY <1>1
<1> QED BY <1>2, <1>3

\* A value joins the bucket c: its centre is that of levels of this bucket and
\* not behind the buckets in front.
LEMMA OrderGather ==
    ASSUME QuantiserAssumption, OrderInv, CodingInv', NEW c \in Codes, Gather(c),
           pc = "lloyd", raw_idx <= MaxRaw, comp_idx' = c, comp_idx <= c,
           Done = {} => c = 0, bucket'.num \in Int /\ bucket'.num > 0,
           \A d \in Codes : d < c =>
             /\ lut_decode'[d] <= centre /\ lut_decode'[d] * quantile' <= moment'
             /\ Within(lut_decode'[d], d)
             /\ \A e \in Codes : e <= d => lut_decode'[e] <= lut_decode'[d],
           quantile' # 0 => \E a, b \in Done' :
             /\ lut_encode'[a] = c /\ lut_encode'[b] = c
             /\ a * quantile' <= moment' /\ moment' <= b * quantile',
           quantile' = 0 => /\ importance[raw_idx] = 0
                            /\ \A r \in Done : lut_encode[r] # c
    PROVE  OrderInv'
<1>1. /\ pc' = "lloyd" /\ raw_idx' = raw_idx + 1
      /\ lut_encode' = [lut_encode EXCEPT ![raw_idx] = c]
      /\ centre' = IF quantile' # 0 THEN Round(moment', quantile') ELSE centre
      /\ UNCHANGED <<object, volume, kept>>
      /\ importance' = importance
  BY DEF Gather, volume
<1>2. CodingInv
  BY DEF OrderInv
<1>3. /\ Raw \subseteq Nat /\ Codes \subseteq Nat
      /\ raw_idx \in Raw /\ raw_idx \in Nat /\ raw_idx >= 1
      /\ lut_encode \in [Raw -> Codes] /\ lut_decode' \in [Codes -> Raw]
      /\ quantile' \in Nat /\ moment' \in Nat /\ centre' \in Nat /\ centre \in Nat
      /\ centre < raw_idx
  <2>1. raw_idx \in 0 .. MaxRaw + 1 /\ raw_idx >= 1 /\ centre < raw_idx
    BY <1>2 DEF CodingInv, TypeInv, TypeOK, BucketInv, OrderInv, LloydInv
  <2>2. raw_idx \in Raw
    BY <2>1, Ranges DEF Raw
  <2>3. /\ lut_decode' \in [Codes -> Raw] /\ quantile' \in Nat /\ moment' \in Nat
        /\ centre' \in Raw
    BY DEF CodingInv, TypeInv, TypeOK
  <2> QED BY <1>2, <2>1, <2>2, <2>3, Types, Ranges
<1>4. /\ Done \subseteq Done' /\ Done' \subseteq Done \cup {raw_idx}
      /\ raw_idx \in Done' <=> importance[raw_idx] # 0
      /\ \A r \in Done : r < raw_idx /\ r \in Raw
  <2>1. \A r \in Done : r \in Raw
    BY DEF Done, ValuesOf
  <2> QED BY <1>1, <1>2, <1>3, <2>1, DoneStep
<1>5. /\ \A s \in Raw : s < raw_idx' =>
           /\ lut_encode'[s] <= c
           /\ \A r \in Raw : r <= s => lut_encode'[r] <= lut_encode'[s]
      /\ \A r \in Done : lut_encode'[r] = lut_encode[r]
  BY <1>1, <1>3, ScanStep
<1>6. \A r \in Raw : r < raw_idx' /\ (\A q \in Done' : r < q) => lut_encode'[r] = 0
  BY <1>1, <1>3, FrontStep
<1>7. quantile' # 0 => Balanced'
  <2> SUFFICES ASSUME quantile' # 0  PROVE Balanced'
    OBVIOUS
  <2>1. PICK a \in Done', b \in Done' :
             /\ lut_encode'[a] = c /\ lut_encode'[b] = c
             /\ a * quantile' <= moment' /\ moment' <= b * quantile'
    OBVIOUS
  <2>2. a \in Nat /\ b \in Nat /\ centre' = Round(moment', quantile')
    BY <1>1, <1>3, <1>4
  <2>3. a <= centre'
    BY <1>3, <2>1, <2>2, RoundAbove
  <2>4. centre' <= b
    <3>1. Round(moment', quantile') \in 0 .. b
      BY <1>3, <2>1, <2>2, RoundBound
    <3> QED BY <2>2, <3>1
  <2> QED BY <2>1, <2>3, <2>4 DEF Balanced
<1>8. centre' < raw_idx'
  <2>1. CASE quantile' # 0
    <3>1. PICK b \in Done' : centre' <= b
      BY <1>7, <2>1 DEF Balanced
    <3>2. b <= raw_idx /\ b \in Nat
      <4>1. CASE b \in Done
        <5>1. b < raw_idx /\ b \in Nat
          BY <1>3, <1>4, <4>1
        <5> QED BY <1>3, <5>1
      <4>2. CASE b = raw_idx
        BY <1>3, <4>2
      <4> QED BY <1>4, <4>1, <4>2
    <3> QED BY <1>1, <1>3, <3>1, <3>2
  <2>2. CASE quantile' = 0
    BY <1>1, <1>3, <2>2
  <2> QED BY <2>1, <2>2
<1>9. ASSUME NEW d \in Codes, d < c  PROVE lut_decode'[d] <= centre'
  <2>1. lut_decode'[d] \in Nat
    BY <1>3
  <2>2. CASE quantile' # 0
    <3>1. lut_decode'[d] * quantile' <= moment'
      BY <1>9
    <3> QED BY <1>1, <1>3, <2>1, <2>2, <3>1, RoundAbove
  <2>3. CASE quantile' = 0
    BY <1>1, <1>9, <2>3
  <2> QED BY <2>2, <2>3
<1>10. ASSUME NEW d \in Codes, d < c
       PROVE  \E a, b \in Done' : /\ lut_encode'[a] = d /\ lut_encode'[b] = d
                                  /\ a <= lut_decode'[d] /\ lut_decode'[d] <= b
  <2>1. PICK a \in Done, b \in Done :
          /\ lut_encode[a] = d /\ lut_encode[b] = d
          /\ a <= lut_decode'[d] /\ lut_decode'[d] <= b
    BY <1>10 DEF Within
  <2>2. a \in Done' /\ b \in Done' /\ lut_encode'[a] = d /\ lut_encode'[b] = d
    BY <1>4, <1>5, <2>1
  <2> QED BY <2>1, <2>2
<1>11. ScanInv'
  <2>1. ValuesOf(importance') # {}
    BY <1>1 DEF OrderInv, ScanInv
  <2>2. ASSUME NEW d \in Codes, d < c  PROVE lut_decode'[d] < raw_idx'
    <3>1. lut_decode'[d] \in Nat /\ lut_decode'[d] <= centre
      BY <1>3, <2>2
    <3> QED BY <1>1, <1>3, <3>1
  <2> QED BY <1>5, <1>6, <2>1, <2>2 DEF ScanInv
<1>12. LloydInv'
  <2>1. ASSUME quantile' = 0, NEW r \in Done'  PROVE lut_encode'[r] # c
    BY <1>4, <1>5, <2>1
  <2>2. Done' = {} => c = 0
    BY <1>4
  <2> QED BY <1>7, <1>8, <1>9, <1>10, <2>1, <2>2 DEF LloydInv, Within
<1>13. OneByOneInv' /\ ResultInv'
  BY <1>1 DEF OneByOneInv, ResultInv
<1>14. lut_encode'[0] = 0
  BY <1>1, <1>3, Ranges DEF OrderInv
<1> QED BY <1>1, <1>11, <1>12, <1>13, <1>14, OrderInside

LEMMA OrderNextBucket ==
    ASSUME QuantiserAssumption, OrderInv, NextBucket
    PROVE  OrderInv'
<1>1. CodingInv /\ CodingInv'
  BY CodingStep DEF OrderInv, Next, Caller
<1> DEFINE w == importance[raw_idx]
<1>2. /\ pc = "lloyd" /\ raw_idx <= MaxRaw /\ Overflows
      /\ lut_decode' = [lut_decode EXCEPT ![comp_idx] = centre]
      /\ comp_idx' = comp_idx + 1
      /\ quantile' = w /\ moment' = raw_idx * w
      /\ bucket' = IF integral < Total(importance)
                   THEN [num |-> Total(importance) - integral,
                         den |-> Levels - comp_idx']
                   ELSE bucket
      /\ Gather(comp_idx')
  BY DEF NextBucket
<1>3. /\ Raw \subseteq Nat /\ Codes \subseteq Nat
      /\ lut_encode \in [Raw -> Codes] /\ lut_decode \in [Codes -> Raw]
      /\ importance \in [Raw -> Nat] /\ centre \in Raw /\ centre \in Nat
      /\ raw_idx \in Raw /\ raw_idx \in Nat /\ w \in Nat
      /\ comp_idx \in Codes /\ comp_idx' \in Codes /\ comp_idx \in Nat
      /\ quantile \in Nat /\ moment \in Nat /\ integral \in Nat
  <2>1. raw_idx \in 0 .. MaxRaw + 1 /\ comp_idx \in 0 .. Levels
        /\ comp_idx < Levels - 1
    BY <1>1, <1>2, Types DEF Overflows
  <2>2. raw_idx \in Raw /\ comp_idx \in Codes /\ comp_idx' \in Codes
    BY <1>2, <2>1, Ranges DEF Raw, Codes
  <2> QED BY <1>1, <2>2, Types, Ranges
<1> HIDE DEF w
<1>4. /\ centre < raw_idx /\ bucket.num \in Int /\ bucket.num > 0
      /\ quantile # 0 => Balanced
      /\ \A c \in Codes : c < comp_idx =>
           lut_decode[c] <= centre /\ Within(lut_decode[c], c)
  BY <1>2 DEF OrderInv, LloydInv
<1>5. quantile # 0
  <2>1. quantile * bucket.den >= bucket.num
    BY <1>2 DEF Overflows
  <2>2. bucket.den \in Nat
    <3>1. bucket.den \in 1 .. Levels
      BY <1>1 DEF CodingInv, TypeInv, TypeOK
    <3> QED BY <3>1, Ranges
  <2>3. 0 * bucket.den = 0
    BY <2>2
  <2> QED BY <1>4, <2>1, <2>3
<1>6. PICK a \in Done, b \in Done :
        /\ lut_encode[a] = comp_idx /\ lut_encode[b] = comp_idx
        /\ a <= centre /\ centre <= b
  BY <1>4, <1>5 DEF Balanced
<1>7. bucket'.num \in Int /\ bucket'.num > 0
  <2>1. Total(importance) \in Nat
    BY <1>3, TotalPositive
  <2> QED BY <1>2, <1>3, <1>4, <2>1
<1>8. ASSUME NEW d \in Codes, d < comp_idx'
      PROVE  /\ lut_decode'[d] <= centre /\ Within(lut_decode'[d], d)
             /\ lut_decode'[d] \in Nat
             /\ d < comp_idx => lut_decode'[d] = lut_decode[d]
             /\ d = comp_idx => lut_decode'[d] = centre
  <2>1. CASE d < comp_idx
    <3>1. d # comp_idx /\ lut_decode'[d] = lut_decode[d]
      BY <1>2, <1>3, <2>1
    <3>2. lut_decode[d] \in Nat
      BY <1>3
    <3> QED BY <1>4, <2>1, <3>1, <3>2
  <2>2. CASE d = comp_idx
    <3>1. lut_decode'[d] = centre
      BY <1>2, <1>3, <2>2
    <3>2. Within(centre, d)
      BY <1>6, <2>2 DEF Within
    <3>3. ~ (d < comp_idx) /\ centre <= centre
      BY <1>3, <2>2
    <3> QED BY <1>3, <2>2, <3>1, <3>2, <3>3
  <2> QED BY <1>2, <1>3, <1>8, <2>1, <2>2
<1>9. ASSUME NEW d \in Codes, d < comp_idx'
      PROVE  lut_decode'[d] * quantile' <= moment'
  <2>1. lut_decode'[d] <= raw_idx /\ lut_decode'[d] \in Nat
    BY <1>3, <1>4, <1>8, <1>9
  <2> QED BY <1>2, <1>3, <2>1, TimesOrder
<1>10. ASSUME NEW d \in Codes, d < comp_idx', NEW e \in Codes, e <= d
       PROVE  lut_decode'[e] <= lut_decode'[d]
  <2>1. CASE d < comp_idx
    <3>1. e < comp_idx' /\ e < comp_idx
      BY <1>2, <1>3, <1>10, <2>1
    <3>2. lut_decode[e] <= lut_decode[d]
      BY <1>2, <1>10, <2>1 DEF OrderInv, ScanInv
    <3> QED BY <1>8, <1>10, <2>1, <3>1, <3>2
  <2>2. CASE d = comp_idx
    <3>1. e < comp_idx' /\ lut_decode'[d] = centre
      BY <1>2, <1>3, <1>8, <1>10, <2>2
    <3> QED BY <1>8, <3>1
  <2> QED BY <1>2, <1>3, <1>10, <2>1, <2>2
<1>11. ASSUME quantile' # 0
       PROVE  \E x, y \in Done' :
                /\ lut_encode'[x] = comp_idx' /\ lut_encode'[y] = comp_idx'
                /\ x * quantile' <= moment' /\ moment' <= y * quantile'
  <2>1. raw_idx' = raw_idx + 1 /\ importance' = importance
        /\ lut_encode' = [lut_encode EXCEPT ![raw_idx] = comp_idx']
    BY <1>2 DEF Gather, volume
  <2>2. raw_idx \in Done'
    BY <1>1, <1>2, <1>3, <1>11, <2>1, DoneStep DEF w
  <2>3. lut_encode'[raw_idx] = comp_idx'
    BY <1>3, <2>1
  <2>4. raw_idx * quantile' = moment' /\ moment' \in Nat
    BY <1>2, <1>3
  <2> QED BY <2>2, <2>3, <2>4
<1>12. \A r \in Done : lut_encode[r] # comp_idx'
  <2> SUFFICES ASSUME NEW r \in Done  PROVE lut_encode[r] # comp_idx'
    OBVIOUS
  <2>1. r \in Raw /\ r < raw_idx
    BY DEF Done, ValuesOf
  <2>2. lut_encode[r] <= comp_idx /\ lut_encode[r] \in Nat
    BY <1>2, <1>3, <2>1 DEF OrderInv, ScanInv
  <2> QED BY <1>2, <1>3, <2>2
<1>13. quantile' = 0 => importance[raw_idx] = 0
  BY <1>2 DEF w
<1>14. comp_idx <= comp_idx' /\ Done # {}
  BY <1>2, <1>3, <1>6
<1> DEFINE c == comp_idx'
<1>15. /\ c \in Codes /\ Gather(c) /\ comp_idx' = c /\ comp_idx <= c
       /\ \A d \in Codes : d < c =>
             /\ lut_decode'[d] <= centre /\ lut_decode'[d] * quantile' <= moment'
             /\ Within(lut_decode'[d], d)
             /\ \A e \in Codes : e <= d => lut_decode'[e] <= lut_decode'[d]
       /\ quantile' # 0 => \E x, y \in Done' :
             /\ lut_encode'[x] = c /\ lut_encode'[y] = c
             /\ x * quantile' <= moment' /\ moment' <= y * quantile'
       /\ \A r \in Done : lut_encode[r] # c
  BY <1>2, <1>3, <1>8, <1>9, <1>10, <1>11, <1>12, <1>14
<1> QED BY <1>1, <1>2, <1>7, <1>13, <1>14, <1>15, OrderGather

LEMMA OrderFillBucket ==
    ASSUME QuantiserAssumption, OrderInv, FillBucket
    PROVE  OrderInv'
<1>1. CodingInv /\ CodingInv'
  BY CodingStep DEF OrderInv, Next, Caller
<1> DEFINE w == importance[raw_idx]
<1>2. /\ pc = "lloyd" /\ raw_idx <= MaxRaw
      /\ quantile' = quantile + w /\ moment' = moment + raw_idx * w
      /\ comp_idx' = comp_idx /\ lut_decode' = lut_decode /\ bucket' = bucket
      /\ Gather(comp_idx)
      /\ raw_idx' = raw_idx + 1 /\ importance' = importance
      /\ lut_encode' = [lut_encode EXCEPT ![raw_idx] = comp_idx]
  BY DEF FillBucket, Gather, volume
<1>3. /\ Raw \subseteq Nat /\ Codes \subseteq Nat
      /\ lut_encode \in [Raw -> Codes] /\ lut_decode \in [Codes -> Raw]
      /\ importance \in [Raw -> Nat] /\ centre \in Nat
      /\ raw_idx \in Raw /\ raw_idx \in Nat /\ raw_idx >= 1 /\ w \in Nat
      /\ comp_idx \in Codes /\ comp_idx \in Nat
      /\ quantile \in Nat /\ moment \in Nat
      /\ moment <= (raw_idx - 1) * quantile
  <2>1. /\ raw_idx \in 0 .. MaxRaw + 1 /\ comp_idx \in 0 .. Levels
        /\ comp_idx <= Levels - 1 /\ raw_idx >= 1
        /\ moment <= (raw_idx - 1) * quantile
    BY <1>1, <1>2 DEF CodingInv, TypeInv, TypeOK, BucketInv
  <2>2. raw_idx \in Raw /\ comp_idx \in Codes
    BY <1>2, <2>1, Ranges DEF Raw, Codes
  <2> QED BY <1>1, <2>1, <2>2, Types, Ranges
<1>4. /\ Done \subseteq Done' /\ \A r \in Done : r < raw_idx /\ r \in Raw
      /\ raw_idx \in Done' <=> w # 0
  <2>1. \A r \in Done : r \in Raw
    BY DEF Done, ValuesOf
  <2> QED BY <1>1, <1>2, <1>3, <2>1, DoneStep
<1>5. /\ centre < raw_idx /\ bucket.num \in Int /\ bucket.num > 0
      /\ quantile # 0 => Balanced
      /\ quantile = 0 => \A r \in Done : lut_encode[r] # comp_idx
      /\ Done = {} => comp_idx = 0
      /\ \A c \in Codes : c < comp_idx =>
           /\ lut_decode[c] <= centre /\ lut_decode[c] * quantile <= moment
           /\ Within(lut_decode[c], c)
  BY <1>2 DEF OrderInv, LloydInv
<1> HIDE DEF w
\* What the value adds to a bound of the moment.
<1>6. ASSUME NEW x \in Nat  PROVE x * quantile' = x * quantile + x * w
  BY <1>2, <1>3
<1>7. \A x \in Nat : x * quantile \in Nat /\ x * w \in Nat
  BY <1>3
<1>8. ASSUME NEW x \in Nat, x <= raw_idx, x * quantile <= moment
      PROVE  x * quantile' <= moment'
  <2>1. x * w <= raw_idx * w
    BY <1>3, <1>8, TimesOrder
  <2> HIDE DEF w
  <2> QED BY <1>2, <1>3, <1>6, <1>7, <1>8, <2>1
<1>9. ASSUME NEW d \in Codes, d < comp_idx
      PROVE  /\ lut_decode'[d] <= centre /\ lut_decode'[d] * quantile' <= moment'
             /\ Within(lut_decode'[d], d)
             /\ \A e \in Codes : e <= d => lut_decode'[e] <= lut_decode'[d]
  <2>1. /\ lut_decode[d] \in Nat /\ lut_decode[d] <= centre
        /\ lut_decode[d] * quantile <= moment /\ Within(lut_decode[d], d)
    BY <1>3, <1>5, <1>9
  <2>2. lut_decode[d] <= raw_idx
    BY <1>3, <1>5, <2>1
  <2>3. lut_decode[d] * quantile' <= moment'
    BY <1>8, <2>1, <2>2
  <2>4. \A e \in Codes : e <= d => lut_decode[e] <= lut_decode[d]
    BY <1>2, <1>9 DEF OrderInv, ScanInv
  <2> QED BY <1>2, <2>1, <2>3, <2>4
<1>10. ASSUME quantile' # 0
       PROVE  \E a, b \in Done' :
                /\ lut_encode'[a] = comp_idx /\ lut_encode'[b] = comp_idx
                /\ a * quantile' <= moment' /\ moment' <= b * quantile'
  <2>1. \A r \in Done : r \in Done' /\ lut_encode'[r] = lut_encode[r] /\ r \in Nat
                        /\ r <= raw_idx
    <3> SUFFICES ASSUME NEW r \in Done
                 PROVE  /\ r \in Done' /\ lut_encode'[r] = lut_encode[r]
                        /\ r \in Nat /\ r <= raw_idx
      OBVIOUS
    <3>1. r \in Raw /\ r \in Nat /\ r < raw_idx /\ r \in Done'
      BY <1>3, <1>4
    <3>2. r # raw_idx /\ r <= raw_idx
      BY <1>3, <3>1
    <3> QED BY <1>2, <1>3, <3>1, <3>2
  <2>2. lut_encode'[raw_idx] = comp_idx
    BY <1>2, <1>3
  <2>3. moment' <= raw_idx * quantile' /\ moment' \in Nat
    <3>1. (raw_idx - 1) * quantile <= raw_idx * quantile
      BY <1>3, TimesOrder
    <3>2. (raw_idx - 1) * quantile \in Nat
      BY <1>3
    <3> QED BY <1>2, <1>3, <1>6, <1>7, <3>1, <3>2
  <2>4. CASE quantile = 0
    <3>1. moment = 0
      <4>1. (raw_idx - 1) * quantile = 0
        BY <1>3, <2>4
      <4> QED BY <1>3, <4>1
    <3>2. raw_idx \in Done'
      BY <1>2, <1>3, <1>4, <1>10, <2>4
    <3>3. raw_idx * quantile' <= moment'
      BY <1>2, <1>3, <1>7, <2>4, <3>1
    <3> QED BY <2>2, <2>3, <3>2, <3>3
  <2>5. CASE quantile # 0
    <3>1. PICK a \in Done, b \in Done :
            /\ lut_encode[a] = comp_idx /\ lut_encode[b] = comp_idx
            /\ a * quantile <= moment /\ moment <= b * quantile
      BY <1>5, <2>5 DEF Balanced
    <3>2. a * quantile' <= moment'
      BY <1>8, <2>1, <3>1
    <3>3. CASE w = 0
      <4>1. quantile' = quantile /\ moment' = moment
        BY <1>2, <1>3, <3>3
      <4> QED BY <2>1, <3>1, <3>2, <4>1
    <3>4. CASE w # 0
      BY <1>4, <2>1, <2>2, <2>3, <3>1, <3>2, <3>4
    <3> QED BY <3>3, <3>4
  <2> QED BY <2>4, <2>5
<1>11. ASSUME quantile' = 0
       PROVE  /\ importance[raw_idx] = 0
              /\ \A r \in Done : lut_encode[r] # comp_idx
  <2>1. quantile = 0 /\ w = 0
    BY <1>2, <1>3, <1>11
  <2> QED BY <1>5, <2>1 DEF w
<1>12. comp_idx <= comp_idx /\ bucket'.num \in Int /\ bucket'.num > 0
  BY <1>2, <1>3, <1>5
<1> HIDE <1>6, <1>7, <1>8
<1> QED BY <1>1, <1>2, <1>3, <1>5, <1>9, <1>10, <1>11, <1>12, OrderGather

LEMMA OrderLloydEnd ==
    ASSUME QuantiserAssumption, OrderInv, LloydEnd
    PROVE  OrderInv'
<1>1. CodingInv /\ CodingInv'
  BY CodingStep DEF OrderInv, Next, Caller
<1>2. /\ pc = "lloyd" /\ pc' = "publish" /\ raw_idx > MaxRaw
      /\ lut_decode' = [lut_decode EXCEPT ![comp_idx] = centre]
      /\ lut_encode' = lut_encode /\ input' = input /\ importance' = importance
      /\ UNCHANGED <<object, volume, kept>>
  BY DEF LloydEnd, volume
<1>3. /\ Raw \subseteq Nat /\ Codes \subseteq Nat /\ comp_idx \in Nat /\ comp_idx \in Codes
      /\ lut_encode \in [Raw -> Codes] /\ lut_decode \in [Codes -> Raw]
      /\ centre \in Nat /\ centre \in Raw /\ raw_idx \in Nat
  <2>1. comp_idx \in 0 .. Levels /\ comp_idx <= Levels - 1
    BY <1>1, <1>2 DEF CodingInv, TypeInv, TypeOK, BucketInv
  <2>2. comp_idx \in Codes
    BY <2>1, Ranges DEF Codes
  <2> QED BY <1>1, <2>2, Types, Ranges
<1>4. Done = ValuesOf(importance)
  <2>1. \A r \in Raw : r < raw_idx
    BY <1>2, <1>3, Ranges DEF Raw
  <2> QED BY <2>1 DEF Done, ValuesOf
<1>5. /\ quantile # 0 => Balanced
      /\ quantile = 0 => \A r \in Done : lut_encode[r] # comp_idx
      /\ \A c \in Codes : c < comp_idx =>
           lut_decode[c] <= centre /\ Within(lut_decode[c], c)
  BY <1>2 DEF OrderInv, LloydInv
<1>6. /\ lut_decode'[comp_idx] = centre
      /\ \A c \in Codes : c < comp_idx => lut_decode'[c] = lut_decode[c]
  BY <1>2, <1>3
<1>7. ASSUME NEW q \in Done
      PROVE  /\ Within(lut_decode'[lut_encode[q]], lut_encode[q])
             /\ \A c \in Codes : c <= lut_encode[q] =>
                  lut_decode'[c] <= lut_decode'[lut_encode[q]]
  <2> DEFINE e == lut_encode[q]
  <2>1. q \in Raw /\ q < raw_idx
    BY DEF Done, ValuesOf
  <2>2. e <= comp_idx /\ e \in Codes /\ e \in Nat
    BY <1>2, <1>3, <2>1 DEF OrderInv, ScanInv
  <2>3. CASE e < comp_idx
    <3>1. Within(lut_decode'[e], e)
      BY <1>5, <1>6, <2>2, <2>3
    <3>2. ASSUME NEW c \in Codes, c <= e  PROVE lut_decode'[c] <= lut_decode'[e]
      <4>1. c < comp_idx
        <5>1. c \in Nat
          BY <1>3
        <5> HIDE DEF e
        <5> QED BY <1>3, <2>2, <2>3, <3>2, <5>1
      <4>2. lut_decode[c] <= lut_decode[e]
        BY <1>2, <2>2, <2>3, <3>2 DEF OrderInv, ScanInv
      <4> QED BY <1>6, <2>2, <2>3, <4>1, <4>2
    <3> QED BY <3>1, <3>2
  <2>4. CASE e = comp_idx
    <3>1. Balanced
      BY <1>5, <2>4
    <3>2. Within(centre, comp_idx)
      BY <3>1 DEF Balanced, Within
    <3>3. Within(lut_decode'[e], e)
      BY <1>6, <2>4, <3>2, Zenon
    <3>4. ASSUME NEW c \in Codes, c <= e  PROVE lut_decode'[c] <= centre
      <4>1. CASE c < comp_idx
        BY <1>5, <1>6, <4>1
      <4>2. CASE c = comp_idx
        BY <1>3, <1>6, <4>2
      <4>3. c < comp_idx \/ c = comp_idx
        <5>1. c \in Nat
          BY <1>3
        <5> QED BY <1>3, <2>4, <3>4, <5>1
      <4> QED BY <4>1, <4>2, <4>3
    <3> QED BY <1>6, <2>4, <3>3, <3>4
  <2>5. e < comp_idx \/ e = comp_idx
    <3> HIDE DEF e
    <3> QED BY <1>3, <2>2
  <2> QED BY <2>3, <2>4, <2>5
<1>8. ResultInv'
  BY <1>1, <1>2, <1>4, <1>7, LeadsBack
<1>9. ScanInv' /\ OneByOneInv' /\ LloydInv' /\ lut_encode'[0] = 0
  BY <1>2 DEF OrderInv, ScanInv, OneByOneInv, LloydInv
<1> QED BY <1>1, <1>2, <1>8, <1>9, OrderInside

LEMMA OrderPublish ==
    ASSUME QuantiserAssumption, OrderInv, Publish
    PROVE  OrderInv'
<1>1. CodingInv /\ CodingInv'
  BY CodingStep DEF OrderInv, Next, Caller
<1>2. /\ pc = "publish" /\ pc' = "idle" /\ calls' = calls /\ by_path' = by_path
      /\ calls \in Nat /\ lut_encode' = lut_encode
  BY <1>1 DEF Publish, object, volume, luts, CodingInv, TypeInv, TypeOK
<1>3. PICK lut : /\ streams' = streams \cup {Stream(lut)}
                 /\ ~by_path => lut = lut_decode /\ lut_file' = lut_file
                 /\ by_path => lut_file' = lut_decode
  BY DEF Publish
<1>4. StreamOrder'
  <2> SUFFICES ASSUME NEW s \in streams', NEW a \in s.values, NEW b \in s.values, a <= b
               PROVE  /\ ~by_path => s.lut[s.code[a]] <= s.lut[s.code[b]]
                      /\ by_path /\ s.volume = calls =>
                           lut_file'[s.code[a]] <= lut_file'[s.code[b]]
    BY <1>2 DEF StreamOrder
  <2>1. CASE s \in streams
    <3>1. s.volume < calls /\ s.volume \in Nat
      BY <1>1, <1>2, <2>1 DEF CodingInv, StreamInv, TypeInv, TypeOK
    <3>2. s.volume # calls
      BY <1>2, <3>1
    <3> QED BY <2>1, <3>2 DEF OrderInv, StreamOrder
  <2>2. CASE s = Stream(lut)
    <3>1. /\ s.lut = lut /\ s.values = ValuesOf(input)
          /\ s.code[a] = lut_encode[a] /\ s.code[b] = lut_encode[b]
      BY <2>2 DEF Stream
    <3>2. lut_decode[lut_encode[a]] <= lut_decode[lut_encode[b]]
      BY <1>2, <3>1 DEF OrderInv, ResultInv
    <3> QED BY <1>3, <3>1, <3>2
  <2> QED BY <1>3, <2>1, <2>2
<1> QED BY <1>1, <1>2, <1>4
    DEF OrderInv, SmallInv, ScanInv, OneByOneInv, LloydInv, ResultInv

\* Nothing happens inside encode.
LEMMA OrderOutside ==
    ASSUME QuantiserAssumption, OrderInv, Construct \/ Decode \/ UNCHANGED vars
    PROVE  OrderInv'
<1>1. CodingInv /\ CodingInv'
  BY CodingStep DEF OrderInv, Next
<1>2. UNCHANGED <<pc, calls, by_path, streams, lut_file>>
  BY DEF Construct, Decode, vars, object, volume, kept
<1>3. StreamOrder'
  BY <1>2 DEF OrderInv, StreamOrder
<1>4. CASE pc = "idle"
  <2>1. lut_encode'[0] = 0
    BY Ranges DEF Construct, Decode, vars, luts, OrderInv, NoVolume
  <2> QED BY <1>1, <1>2, <1>3, <1>4, <2>1
      DEF OrderInv, SmallInv, ScanInv, OneByOneInv, LloydInv, ResultInv
<1>5. CASE UNCHANGED vars
  BY <1>1, <1>3, <1>5
     DEF vars, object, volume, luts, loop, OrderInv, SmallInv, ScanInv, OneByOneInv,
         LloydInv, ResultInv, Representative, Done, Within, Balanced
<1> QED BY <1>4, <1>5 DEF Construct, Decode

LEMMA OrderStep ==
    ASSUME QuantiserAssumption, OrderInv, [Next]_vars
    PROVE  OrderInv'
  BY OrderSetup, OrderLinearMap, OrderLinearEnd, OrderNextBucket, OrderFillBucket,
     OrderLloydEnd, OrderPublish, OrderOutside DEF Next, Caller

\* Every code in use leads back to a value between two levels that have it, and
\* this value is given the same code again, for any weighting, any volumes
\* before and any number of codes: in the buckets of adaptive_lloyd_com, where
\* the centre of mass is rounded, as well as one by one.
THEOREM BucketsRepresentative ==
    ASSUME QuantiserAssumption
    PROVE  Spec => []Representative
<1>1. OrderInv => Representative
  BY DEF OrderInv, ResultInv, Representative
<1> QED BY <1>1, OrderStep, OrderInit, PTL DEF Spec

\* Quantising never exchanges two values: what is restored is ordered like what
\* was encoded, wherever the codes are indices of the table, be they signed or
\* not, as long as the stream has its own table.
THEOREM OrderPreserved ==
    ASSUME QuantiserAssumption
    PROVE  Spec => []OrderKept
<1>1. ASSUME OrderInv  PROVE OrderKept
  <2> DEFINE s == dec.stream
  <2>1. CASE dec = NoDecode
    BY <2>1 DEF OrderKept, NoDecode, NoStream
  <2>2. CASE dec # NoDecode
    <3> SUFFICES ASSUME Intact(s), NEW a \in s.values, NEW b \in s.values, a <= b,
                        InTable(s.code[a]), InTable(s.code[b])
                 PROVE  dec.value[a] <= dec.value[b]
      BY DEF OrderKept
    <3>1. /\ s \in streams
          /\ dec.value[a] = Back(s)[s.code[a]] /\ dec.value[b] = Back(s)[s.code[b]]
      BY <1>1, <2>2, Decoded DEF OrderInv
    <3> QED BY <1>1, <3>1 DEF OrderInv, StreamOrder, Back, Intact
  <2> QED BY <2>1, <2>2
<1> QED BY <1>1, OrderStep, OrderInit, PTL DEF Spec

-----------------------------------------------------------------------------
(* Few levels come back exactly, and what has no importance as the lowest *)

\* Of few levels the lowest has code 0, and so has a value without importance.
LeastInv ==
    /\ pc = "publish" /\ ValuesOf(importance) # {}
         /\ Cardinality(ValuesOf(importance)) <= Levels =>
           \A r \in ValuesOf(input) \ ValuesOf(importance) :
              lut_encode[r] = 0 /\ lut_decode[0] = Min(ValuesOf(importance))
    /\ \A s \in streams : s.levels # {} /\ Cardinality(s.levels) <= Levels =>
           \A r \in s.values \ s.levels :
              /\ s.code[r] = 0
              /\ ~by_path => s.lut[0] = Min(s.levels)
              /\ by_path /\ pc = "idle" /\ s.volume = calls =>
                   lut_file[0] = Min(s.levels)

LEMMA LeastNumbered ==
    ASSUME QuantiserAssumption, OrderInv, LinearEnd,
           NEW r \in ValuesOf(input) \ ValuesOf(importance)
    PROVE  lut_encode[r] = 0 /\ lut_decode'[0] = Min(ValuesOf(importance))
<1> DEFINE L == ValuesOf(importance)
<1>1. CodingInv /\ pc = "linear" /\ Done = L
  BY AllNumbered DEF OrderInv, LinearEnd
<1>2. /\ Raw \subseteq Nat /\ Codes \subseteq Nat /\ 0 \in Codes /\ comp_idx \in Nat
      /\ lut_encode \in [Raw -> Codes] /\ lut_decode \in [Codes -> Raw]
      /\ importance \in [Raw -> Nat] /\ L \subseteq Raw
  BY <1>1, Types, Ranges
<1>3. L # {} /\ r \in Raw /\ r < raw_idx
  BY <1>1, UsedCodes DEF OrderInv, ScanInv
<1>4. \A q \in L : r < q
  <2>1. importance[r] = 0
    BY <1>2, <1>3 DEF ValuesOf
  <2> QED BY <1>1, <2>1 DEF OrderInv, SmallInv
<1>5. lut_encode[r] = 0
  BY <1>1, <1>3, <1>4 DEF OrderInv, ScanInv
<1>6. \A q \in L : /\ lut_encode[q] \in Codes /\ lut_encode[q] < comp_idx
                   /\ lut_decode[lut_encode[q]] = q
  BY <1>1, <1>2 DEF CodingInv, LinearInv
<1>7. 0 < comp_idx
  <2>1. PICK q \in L : TRUE
    BY <1>3
  <2>2. lut_encode[q] \in Nat /\ lut_encode[q] < comp_idx
    BY <1>2, <1>6, <2>1
  <2> QED BY <1>2, <2>2
<1>8. lut_decode[0] \in L
  BY <1>1, <1>2, <1>7 DEF OrderInv, OneByOneInv
<1>9. ASSUME NEW q \in L  PROVE lut_decode[0] <= q
  <2>1. 0 <= lut_encode[q]
    <3>1. lut_encode[q] \in Nat
      BY <1>2, <1>6
    <3> QED BY <3>1
  <2>2. lut_decode[0] <= lut_decode[lut_encode[q]]
    BY <1>1, <1>2, <1>6, <2>1 DEF OrderInv, ScanInv
  <2> QED BY <1>6, <2>2
<1>10. Min(L) = lut_decode[0]
  <2> HIDE DEF L
  <2>1. Min(L) \in L /\ \A q \in L : Min(L) <= q
    BY <1>8, <1>9 DEF Min
  <2>2. Min(L) \in Nat /\ lut_decode[0] \in Nat
    BY <1>2, <1>8, <2>1
  <2> QED BY <1>8, <1>9, <2>1, <2>2
<1>11. lut_decode'[0] = lut_decode[0]
  BY <1>2, <1>7 DEF LinearEnd
<1> QED BY <1>5, <1>10, <1>11

LEMMA LeastPublish ==
    ASSUME QuantiserAssumption, OrderInv, LeastInv, Publish
    PROVE  LeastInv'
<1>1. CodingInv
  BY DEF OrderInv
<1>2. /\ pc = "publish" /\ pc' = "idle" /\ calls' = calls /\ by_path' = by_path
      /\ calls \in Nat
  BY <1>1 DEF Publish, object, volume, CodingInv, TypeInv, TypeOK
<1>3. PICK lut : /\ streams' = streams \cup {Stream(lut)}
                 /\ ~by_path => lut = lut_decode /\ lut_file' = lut_file
                 /\ by_path => lut_file' = lut_decode
  BY DEF Publish
<1> SUFFICES ASSUME NEW s \in streams', s.levels # {}, Cardinality(s.levels) <= Levels,
                    NEW r \in s.values \ s.levels
             PROVE  /\ s.code[r] = 0
                    /\ ~by_path => s.lut[0] = Min(s.levels)
                    /\ by_path /\ s.volume = calls => lut_file'[0] = Min(s.levels)
  BY <1>2 DEF LeastInv
<1>4. CASE s \in streams
  <2>1. s.volume < calls /\ s.volume \in Nat
    BY <1>1, <1>2, <1>4 DEF CodingInv, StreamInv, TypeInv, TypeOK
  <2>2. s.volume # calls
    BY <1>2, <2>1
  <2> QED BY <1>4, <2>2 DEF LeastInv
<1>5. CASE s = Stream(lut)
  <2>1. /\ s.lut = lut /\ s.values = ValuesOf(input) /\ s.levels = ValuesOf(importance)
        /\ s.code[r] = lut_encode[r]
    BY <1>5 DEF Stream
  <2>2. lut_encode[r] = 0 /\ lut_decode[0] = Min(s.levels)
    BY <1>2, <2>1 DEF LeastInv
  <2> QED BY <1>3, <2>1, <2>2
<1> QED BY <1>3, <1>4, <1>5

LEMMA LeastStep ==
    ASSUME QuantiserAssumption, OrderInv, LeastInv, [Next]_vars
    PROVE  LeastInv'
<1>1. CodingInv /\ CodingInv'
  BY CodingStep DEF OrderInv
<1>2. CASE Setup
  <2>1. /\ pc' # "idle" /\ UNCHANGED <<by_path, streams>>
        /\ pc' = "publish" => Cardinality(ValuesOf(importance')) = 0
    BY <1>2 DEF Setup, object, kept
  <2>2. ValuesOf(importance') \subseteq Raw
    BY DEF ValuesOf
  <2>3. pc' = "publish" => ValuesOf(importance') = {}
    BY <2>1, <2>2, FiniteLevels, FS_EmptySet
  <2> QED BY <2>1, <2>3 DEF LeastInv
<1>3. CASE LinearEnd
  <2>1. /\ pc' = "publish" /\ lut_encode' = lut_encode /\ input' = input
        /\ importance' = importance /\ UNCHANGED <<by_path, streams>>
    BY <1>3 DEF LinearEnd, object, volume, kept
  <2>2. \A r \in ValuesOf(input) \ ValuesOf(importance) :
          lut_encode[r] = 0 /\ lut_decode'[0] = Min(ValuesOf(importance))
    BY <1>3, LeastNumbered
  <2> QED BY <2>1, <2>2 DEF LeastInv
<1>4. CASE NextBucket \/ FillBucket \/ LloydEnd
  <2>1. /\ pc = "lloyd" /\ pc' \in {"lloyd", "publish"}
        /\ UNCHANGED <<object, volume, kept, dec>>
    BY <1>4 DEF NextBucket, FillBucket, LloydEnd, Gather
  <2>2. ~ (Cardinality(ValuesOf(importance')) <= Levels)
    <3>1. ValuesOf(importance) \subseteq Raw
      BY DEF ValuesOf
    <3>2. Cardinality(ValuesOf(importance)) > Levels
          /\ Cardinality(ValuesOf(importance)) \in Nat
      BY <1>1, <2>1, <3>1, FiniteLevels DEF CodingInv, PublishInv
    <3> QED BY <2>1, <3>2, Ranges DEF volume
  <2> QED BY <2>1, <2>2 DEF LeastInv, object, kept
<1>5. CASE LinearMap
  BY <1>5 DEF LinearMap, LeastInv, object, kept
<1>6. CASE Publish
  BY <1>6, LeastPublish
<1>7. CASE Construct \/ Decode
  BY <1>7 DEF Construct, Decode, LeastInv, object, volume, kept
<1>8. CASE UNCHANGED vars
  BY <1>8 DEF LeastInv, vars, object, volume, luts, kept
<1> QED BY <1>2, <1>3, <1>4, <1>5, <1>6, <1>7, <1>8 DEF Next, Caller

\* Codes below Room are indices of the table.
LEMMA RoomInTable ==
    ASSUME QuantiserAssumption, NEW n \in Nat, n <= Room, NEW c \in Nat, c < n
    PROVE  InTable(c)
<1>1. CASE signed
  <2>1. PICK h \in Int : h = (Levels + 1) \div 2
    BY Ranges
  <2>2. 2 * h <= Levels + 1
    BY <2>1, Ranges
  <2>3. n <= h
    BY <1>1, <2>1 DEF Room
  <2>4. 2 * c < Levels
    BY <2>2, <2>3, Ranges
  <2> QED BY <2>4 DEF InTable
<1>2. CASE ~signed
  BY <1>2 DEF InTable
<1> QED BY <1>1, <1>2

LEMMA RoomBelow ==
    ASSUME QuantiserAssumption
    PROVE  Room \in Nat /\ Room <= Levels /\ 0 < Room
<1>1. (Levels + 1) \div 2 \in Nat /\ (Levels + 1) \div 2 <= Levels
      /\ 0 < (Levels + 1) \div 2
  BY Ranges
<1> QED BY <1>1, Ranges DEF Room

LEMMA CodingLossless ==
    ASSUME QuantiserAssumption, OrderInv, LeastInv
    PROVE  Lossless
<1> DEFINE s == dec.stream
<1>1. CASE dec = NoDecode
  BY <1>1 DEF Lossless, NoDecode, NoStream
<1>2. CASE dec # NoDecode
  <2> SUFFICES ASSUME Intact(s), s.levels # {}, Cardinality(s.levels) <= Room,
                      NEW r \in s.values
               PROVE  dec.value[r] = IF r \in s.levels THEN r ELSE Min(s.levels)
    BY DEF Lossless
  <2>1. CodingInv /\ s \in streams
        /\ (InTable(s.code[r]) => dec.value[r] = Back(s)[s.code[r]])
    BY <1>2, Decoded DEF OrderInv
  <2> HIDE DEF s
  <2>2. /\ s.levels \subseteq Raw /\ s.code \in [s.values -> Codes]
        /\ Codes \subseteq Nat
    <3>1. Codes \subseteq Nat
      BY Types, <2>1
    <3>2. TypeOK
      BY <2>1 DEF CodingInv, TypeInv
    <3> QED BY <2>1, <3>1, <3>2 DEF TypeOK
  <2>3. PICK n \in Nat : n = Cardinality(s.levels)
    BY <2>2, FiniteLevels
  <2>4. n <= Room /\ n <= Levels /\ s.code[r] \in Nat
    <3>1. s.code[r] \in Nat
      BY <2>2
    <3>2. n <= Room
      BY <2>3 DEF s
    <3> QED BY <3>1, <3>2, RoomBelow, Ranges
  <2>5. CASE r \in s.levels
    <3>1. s.code[r] < n
      BY <2>1, <2>3, <2>4, <2>5 DEF CodingInv, StreamInv
    <3>2. InTable(s.code[r])
      BY <2>4, <3>1, RoomInTable
    <3>3. Back(s)[s.code[r]] = r
      BY <2>1, <2>3, <2>4, <2>5 DEF CodingInv, StreamInv, Back, Intact
    <3> QED BY <2>1, <2>5, <3>2, <3>3
  <2>6. CASE r \notin s.levels
    <3>1. s.code[r] = 0 /\ Back(s)[0] = Min(s.levels)
      BY <2>1, <2>3, <2>4, <2>6 DEF LeastInv, Back, Intact
    <3>2. InTable(0)
      BY Ranges DEF InTable
    <3> QED BY <2>1, <2>6, <3>1, <3>2
  <2> QED BY <2>5, <2>6
<1> QED BY <1>1, <1>2

\* As long as an object has met no more levels than there is room for, every one
\* of them is restored exactly, and what has no importance as the lowest level:
\* for codes of char as for unsigned ones, whatever the weighting and the volumes
\* before; with a table in a file until the next volume replaces it.
THEOREM FewLevelsLossless ==
    ASSUME QuantiserAssumption
    PROVE  Spec => []Lossless
<1>1. OrderInv /\ LeastInv => Lossless
  BY CodingLossless
<1>2. Init => OrderInv /\ LeastInv
  BY OrderInit DEF Init, LeastInv
<1>3. OrderInv /\ LeastInv /\ [Next]_vars => OrderInv' /\ LeastInv'
  BY OrderStep, LeastStep
<1> QED BY <1>1, <1>2, <1>3, PTL DEF Spec

-----------------------------------------------------------------------------
(* Powers of two *)

LEMMA PowerOfSubsets ==
    ASSUME NEW n \in Nat
    PROVE  IsFiniteSet(SUBSET (1 .. n)) /\ Cardinality(SUBSET (1 .. n)) = 2 ^ n
<1>1. IsFiniteSet(1 .. n) /\ Cardinality(1 .. n) = n
  <2>1. 1 \in Int /\ n \in Int
    OBVIOUS
  <2> QED BY <2>1, FS_Interval
<1>2. PICK S : S = 1 .. n
  OBVIOUS
<1>3. IsFiniteSet(S) /\ Cardinality(S) = n
  BY <1>1, <1>2
<1>4. IsFiniteSet(SUBSET S) /\ Cardinality(SUBSET S) = 2 ^ Cardinality(S)
  BY <1>3, FS_SUBSET
<1> QED BY <1>2, <1>3, <1>4, Zenon

LEMMA PowerNat == \A n \in Nat : 2 ^ n \in Nat
<1> SUFFICES ASSUME NEW n \in Nat PROVE 2 ^ n \in Nat
  OBVIOUS
<1> QED BY PowerOfSubsets, FS_CardinalityType

LEMMA PowerZero == 2 ^ 0 = 1
<1>1. 1 .. 0 = {} /\ 0 \in Nat
  OBVIOUS
<1>2. SUBSET (1 .. 0) = {{}}
  BY <1>1
<1>3. Cardinality({{}}) = 1
  BY FS_Singleton, Zenon
<1>4. Cardinality(SUBSET (1 .. 0)) = 2 ^ 0
  BY <1>1, PowerOfSubsets, Zenon
<1> QED BY <1>2, <1>3, <1>4, Zenon

\* Half of the subsets have the last element.
LEMMA PowerNext == \A n \in Nat : 2 ^ (n + 1) = 2 * 2 ^ n
<1> SUFFICES ASSUME NEW n \in Nat PROVE 2 ^ (n + 1) = 2 * 2 ^ n
  OBVIOUS
<1> DEFINE S == SUBSET (1 .. n)
           x == n + 1
           T == {s \cup {x} : s \in S}
           f == [s \in S |-> s \cup {x}]
<1>1. IsFiniteSet(S) /\ Cardinality(S) = 2 ^ n /\ Cardinality(S) \in Nat
  BY PowerOfSubsets, FS_CardinalityType
<1>2. \A s \in S : x \notin s
  OBVIOUS
<1>3. f \in [S -> T] /\ \A s, u \in S : f[s] = f[u] => s = u
  <2>1. f \in [S -> T]
    OBVIOUS
  <2>2. ASSUME NEW s \in S, NEW u \in S, f[s] = f[u]  PROVE s = u
    <3>1. s \cup {x} = u \cup {x} /\ x \notin s /\ x \notin u
      BY <1>2, <2>2
    <3> HIDE DEF x
    <3> QED BY <3>1
  <2> QED BY <2>1, <2>2
<1>4. \A t \in T : \E s \in S : f[s] = t
  OBVIOUS
<1>5. ExistsBijection(S, T)
  <2> HIDE DEF S, T, f
  <2>1. f \in Bijection(S, T)
    BY <1>3, <1>4 DEF Bijection, Injection, Surjection, IsInjective
  <2> QED BY <2>1 DEF ExistsBijection
<1>6. IsFiniteSet(T) /\ Cardinality(T) = 2 ^ n
  BY <1>1, <1>5, FS_Bijection
<1>7. S \cap T = {}
  BY <1>2
<1>8. SUBSET (1 .. n + 1) = S \cup T
  <2>1. \A u \in SUBSET (1 .. n + 1) : u \in S \cup T
    <3> SUFFICES ASSUME NEW u \in SUBSET (1 .. n + 1), x \in u  PROVE u \in T
      BY SMT
    <3>1. u \ {x} \in S /\ u = (u \ {x}) \cup {x}
      OBVIOUS
    <3> QED BY <3>1
  <2>2. \A u \in S : u \in SUBSET (1 .. n + 1) /\ u \cup {x} \in SUBSET (1 .. n + 1)
    OBVIOUS
  <2>3. \A u \in T : \E s \in S : u = s \cup {x}
    OBVIOUS
  <2>4. PICK U : U = SUBSET (1 .. n + 1)
    OBVIOUS
  <2> HIDE DEF S, T, x
  <2>5. (\A u \in U : u \in S \cup T) /\ \A u \in S : u \in U
    BY <2>1, <2>2, <2>4, Zenon
  <2>6. \A u \in T : u \in U
    <3> SUFFICES ASSUME NEW u \in T PROVE u \in U
      OBVIOUS
    <3>1. PICK s \in S : u = s \cup {x}
      BY <2>3
    <3>2. s \cup {x} \in U
      BY <2>2, <2>4
    <3> QED BY <3>1, <3>2
  <2>7. U = S \cup T
    BY <2>5, <2>6
  <2> QED BY <2>4, <2>7
<1>9. Cardinality(SUBSET (1 .. n + 1)) = 2 ^ (n + 1)
  <2>1. n + 1 \in Nat
    OBVIOUS
  <2> QED BY <2>1, PowerOfSubsets
<1>10. Cardinality({}) = 0
  BY FS_EmptySet
<1> HIDE DEF S, T, x
<1>11. Cardinality(S \cup T) = Cardinality(S) + Cardinality(T) - Cardinality(S \cap T)
  BY <1>1, <1>6, FS_Union
<1>12. Cardinality(S \cup T) = Cardinality(S) + Cardinality(T) - 0
  BY <1>7, <1>10, <1>11
<1>13. 2 ^ (n + 1) = Cardinality(S \cup T)
  BY <1>8, <1>9
<1> QED BY <1>1, <1>6, <1>12, <1>13

LEMMA PowerType == \A n \in Nat : 2 ^ n \in Nat \ {0}
<1> DEFINE B == {d \in Nat : 2 ^ d = 0}
<1>1. SUFFICES ASSUME B # {} PROVE FALSE
  BY PowerNat
<1>2. B \subseteq Nat
  OBVIOUS
<1> HIDE DEF B
<1>3. PICK d \in B : \A c \in B : d <= c
  BY <1>1, <1>2, NatMin
<1>4. d \in Nat /\ 2 ^ d = 0
  BY DEF B
<1>5. d # 0
  <2>1. SUFFICES ASSUME d = 0 PROVE FALSE
    OBVIOUS
  <2>2. 2 ^ d = 1
    BY <2>1, PowerZero
  <2> QED BY <1>4, <2>2
<1>6. PICK e \in Nat : d = e + 1
  <2>1. d - 1 \in Nat /\ d = (d - 1) + 1
    BY <1>4, <1>5
  <2> QED BY <2>1
<1>7. 2 ^ d = 2 * 2 ^ e /\ 2 ^ e \in Nat
  BY <1>6, PowerNext, PowerNat
<1>8. e \in B
  BY <1>4, <1>7 DEF B
<1> QED BY <1>3, <1>6, <1>8

LEMMA PowerSum ==
    ASSUME NEW a \in Nat, NEW b \in Nat
    PROVE  2 ^ (a + b) = 2 ^ a * 2 ^ b
<1> DEFINE B == {d \in Nat : 2 ^ (a + d) # 2 ^ a * 2 ^ d}
<1>1. SUFFICES ASSUME B # {} PROVE FALSE
  OBVIOUS
<1>2. B \subseteq Nat
  OBVIOUS
<1> HIDE DEF B
<1>3. PICK d \in B : \A c \in B : d <= c
  BY <1>1, <1>2, NatMin
<1>4. d \in Nat /\ 2 ^ (a + d) # 2 ^ a * 2 ^ d
  BY DEF B
<1>5. PICK x \in Nat : x = 2 ^ a
  BY PowerNat
<1>6. d # 0
  <2>1. SUFFICES ASSUME d = 0 PROVE FALSE
    OBVIOUS
  <2>2. a + d = a /\ 2 ^ d = 1
    BY <2>1, PowerZero
  <2> QED BY <1>4, <1>5, <2>2
<1>7. PICK e \in Nat : d = e + 1
  <2>1. d - 1 \in Nat /\ d = (d - 1) + 1
    BY <1>4, <1>6
  <2> QED BY <2>1
<1>8. e \notin B
  BY <1>3, <1>7
<1>9. 2 ^ (a + e) = 2 ^ a * 2 ^ e
  BY <1>8 DEF B
<1>10. PICK f \in Nat : f = a + e
  OBVIOUS
<1>11. 2 ^ (f + 1) = 2 * 2 ^ f /\ 2 ^ (e + 1) = 2 * 2 ^ e
  BY PowerNext
<1>12. a + d = f + 1
  BY <1>7, <1>10
<1>13. 2 ^ (a + d) = 2 * 2 ^ (a + e) /\ 2 ^ d = 2 * 2 ^ e
  BY <1>7, <1>10, <1>11, <1>12
<1>14. PICK y \in Nat : y = 2 ^ e
  BY PowerNat
<1>15. 2 * (x * y) = x * (2 * y)
  BY <1>5, <1>14
<1> QED BY <1>4, <1>5, <1>9, <1>13, <1>14, <1>15
-----------------------------------------------------------------------------
(* Bits *)

LEMMA DivIs ==
    ASSUME NEW q \in Nat, NEW p \in Nat \ {0}, NEW r \in Nat, r < p, NEW a \in Nat, a = q * p + r
    PROVE  a \div p = q /\ a % p = r
<1> DEFINE d == a \div p
           m == a % p
<1>1. d \in Nat /\ m \in Nat /\ m < p /\ a = d * p + m
  OBVIOUS
<1> HIDE DEF d, m
<1>2. d = q
  <2>1. ASSUME d < q PROVE FALSE
    <3>1. PICK k \in Nat : q = d + 1 + k
      <4>1. q - d - 1 \in Nat /\ q = d + 1 + (q - d - 1)
        BY <1>1, <2>1
      <4> QED BY <4>1
    <3>2. q * p = d * p + p + k * p
      BY <1>1, <3>1
    <3>3. k * p \in Nat /\ d * p \in Nat
      BY <1>1
    <3> QED BY <1>1, <3>2, <3>3
  <2>2. ASSUME q < d PROVE FALSE
    <3>1. PICK k \in Nat : d = q + 1 + k
      <4>1. d - q - 1 \in Nat /\ d = q + 1 + (d - q - 1)
        BY <1>1, <2>2
      <4> QED BY <4>1
    <3>2. d * p = q * p + p + k * p
      BY <1>1, <3>1
    <3>3. k * p \in Nat /\ q * p \in Nat
      BY <1>1
    <3> QED BY <1>1, <3>2, <3>3
  <2> QED BY <1>1, <2>1, <2>2
<1>3. m = r
  <2>1. d * p = q * p /\ q * p \in Nat
    BY <1>2
  <2> QED BY <1>1, <2>1
<1> QED BY <1>2, <1>3 DEF d, m

LEMMA DivSplit ==
    ASSUME NEW a \in Nat, NEW p \in Nat \ {0}
    PROVE  /\ a \div p \in Nat /\ a % p \in 0 .. p - 1
           /\ a = (a \div p) * p + (a % p)
OBVIOUS

LEMMA BitType == ASSUME NEW v \in Nat, NEW b \in Nat PROVE Bit(v, b) \in {0, 1}
<1>1. PICK p \in Nat \ {0} : p = 2 ^ b
  BY PowerType
<1>2. v \div p \in Nat
  BY DivSplit
<1>3. (v \div p) % 2 \in 0 .. 1
  BY <1>2
<1> QED BY <1>1, <1>3 DEF Bit

\* The number y in front of the lowest n bits, r.
Above(y, n, r) == y * 2 ^ n + r

\* The bits below the highest ones do not depend on these.
LEMMA BitLow ==
    ASSUME NEW y \in Nat, NEW r \in Nat, NEW n \in Nat, NEW b \in Nat, b < n
    PROVE  Bit(Above(y, n, r), b) = Bit(r, b)
<1>1. PICK m \in Nat : n = b + (m + 1)
  <2>1. n - b - 1 \in Nat /\ n = b + ((n - b - 1) + 1)
    OBVIOUS
  <2> QED BY <2>1
<1>2. PICK p \in Nat \ {0}, h \in Nat \ {0} : p = 2 ^ b /\ h = 2 ^ m
  BY PowerType
<1>3. 2 ^ n = p * (2 * h)
  <2>1. PICK k \in Nat : k = m + 1
    OBVIOUS
  <2>2. 2 ^ (b + k) = 2 ^ b * 2 ^ k
    BY PowerSum
  <2>3. 2 ^ (m + 1) = 2 * 2 ^ m
    BY PowerNext
  <2> QED BY <1>1, <1>2, <2>1, <2>2, <2>3
<1> DEFINE q == r \div p
           s == r % p
           z == (y * h) * 2 + q
           a == y * 2 ^ n + r
<1>4. q \in Nat /\ s \in Nat /\ s < p /\ r = q * p + s
  BY DivSplit
<1>5. a = z * p + s /\ z \in Nat /\ a \in Nat
  <2>1. y * (p * (2 * h)) = ((y * h) * 2) * p
    BY <1>2
  <2>2. PICK x \in Nat : x = (y * h) * 2
    BY <1>2
  <2>3. (x + q) * p = x * p + q * p /\ x + q \in Nat /\ x * p \in Nat
    BY <1>2, <1>4, <2>2
  <2> HIDE DEF q, s
  <2> QED BY <1>3, <1>4, <2>1, <2>2, <2>3
<1>6. a \div p = z
  <2> HIDE DEF a, z, s
  <2> QED BY <1>2, <1>4, <1>5, DivIs
<1>7. z % 2 = q % 2
  <2>1. PICK x \in Nat : x = y * h
    BY <1>2
  <2>2. (x * 2 + q) % 2 = q % 2
    BY <1>4, <2>1
  <2> QED BY <2>1, <2>2
<1> QED BY <1>2, <1>6, <1>7 DEF Bit, Above

\* The highest bits do not depend on those below.
LEMMA BitHigh ==
    ASSUME NEW y \in Nat, NEW n \in Nat, NEW r \in Nat, r < 2 ^ n, NEW b \in Nat
    PROVE  Bit(Above(y, n, r), n + b) = Bit(y, b)
<1>1. PICK m \in Nat \ {0}, h \in Nat \ {0} : m = 2 ^ n /\ h = 2 ^ b
  BY PowerType
<1>2. 2 ^ (n + b) = m * h
  BY <1>1, PowerSum
<1> DEFINE q == y \div h
           s == y % h
           t == s * m + r
           a == y * 2 ^ n + r
           p == m * h
<1>3. q \in Nat /\ s \in Nat /\ s + 1 <= h /\ y = q * h + s
  BY DivSplit
<1>4. t \in Nat /\ t < p /\ p \in Nat \ {0}
  <2>1. s * m \in Nat /\ p \in Nat \ {0}
    BY <1>3, <1>1
  <2>2. (s + 1) * m <= h * m
    BY <1>1, <1>3
  <2>3. (s + 1) * m = s * m + m /\ h * m = p
    BY <1>1, <1>3
  <2> QED BY <1>1, <2>1, <2>2, <2>3
<1>5. a = q * p + t /\ a \in Nat
  <2>1. (q * h + s) * m = q * (m * h) + s * m /\ s * m \in Nat /\ q * (m * h) \in Nat
    BY <1>1, <1>3
  <2> HIDE DEF q, s
  <2>2. y * m = q * (m * h) + s * m
    BY <1>3, <2>1
  <2> QED BY <1>1, <2>1, <2>2
<1>6. a \div p = q
  <2> HIDE DEF a, p, q, t
  <2> QED BY <1>3, <1>4, <1>5, DivIs
<1> QED BY <1>1, <1>2, <1>6 DEF Bit, Above
-----------------------------------------------------------------------------
(* Setting a bit *)

LEMMA BitZero == ASSUME NEW v \in Nat PROVE Bit(v, 0) = v % 2
<1>1. 2 ^ 0 = 1 /\ v \div 1 = v
  BY PowerZero
<1> QED BY <1>1 DEF Bit

\* A number below a power of two times another one is two numbers below them.
LEMMA PowerSplit ==
    ASSUME NEW a \in Nat, NEW b \in Nat, NEW y \in Nat, y < 2 ^ b, NEW r \in Nat, r < 2 ^ a
    PROVE  y * 2 ^ a + r \in Nat /\ y * 2 ^ a + r < 2 ^ (a + b)
<1>1. PICK m \in Nat \ {0}, h \in Nat \ {0} : m = 2 ^ a /\ h = 2 ^ b
  BY PowerType
<1>2. 2 ^ (a + b) = m * h
  BY <1>1, PowerSum
<1>3. y * m \in Nat /\ y + 1 <= h
  BY <1>1
<1>4. (y + 1) * m <= h * m
  BY <1>1, <1>3
<1>5. (y + 1) * m = y * m + m /\ h * m = m * h
  BY <1>1, <1>3
<1> QED BY <1>1, <1>2, <1>3, <1>4, <1>5

LEMMA PowerCut ==
    ASSUME NEW a \in Nat, NEW b \in Nat, NEW v \in Nat, v < 2 ^ (a + b)
    PROVE  v \div 2 ^ a < 2 ^ b
<1>1. PICK m \in Nat \ {0}, h \in Nat \ {0} : m = 2 ^ a /\ h = 2 ^ b
  <2>1. 2 ^ a \in Nat \ {0} /\ 2 ^ b \in Nat \ {0}
    BY PowerType, Zenon
  <2> QED BY <2>1, Zenon
<1>2. 2 ^ (a + b) = m * h
  BY <1>1, PowerSum
<1>3. v \div m \in Nat /\ v % m \in Nat /\ v = (v \div m) * m + (v % m)
  BY DivSplit
<1> DEFINE q == v \div m
<1>4. SUFFICES ASSUME q >= h PROVE FALSE
  BY <1>1, <1>3
<1> HIDE DEF q
<1>5. q \in Nat /\ q * m <= v
  BY <1>3 DEF q
<1>6. q * m >= h * m /\ h * m = m * h
  BY <1>1, <1>4, <1>5
<1> QED BY <1>1, <1>2, <1>5, <1>6

LEMMA SetBitsRight ==
    ASSUME NEW n \in Nat, NEW w \in Nat, w < 2 ^ n, NEW x \in {0, 1}, NEW k \in Nat, k < n
    PROVE  /\ SetBits(w, x, k) \in Nat /\ SetBits(w, x, k) < 2 ^ n
           /\ \A b \in Nat : Bit(SetBits(w, x, k), b) = IF b = k THEN x ELSE Bit(w, b)
<1>1. PICK m \in Nat \ {0} : m = 2 ^ k
  BY PowerType, Zenon
<1> DEFINE y == w \div m
           r == w % m
           g == y \div 2
           z == g * 2 + x
<1>2. y \in Nat /\ r \in Nat /\ r < m /\ w = y * m + r
  BY DivSplit
<1>3. g \in Nat /\ y % 2 \in {0, 1} /\ y = g * 2 + (y % 2) /\ z \in Nat
  BY <1>2
<1>4. Bit(w, k) = y % 2
  BY <1>1 DEF Bit
<1>5. SetBits(w, x, k) = z * m + r
  <2>1. SetBits(w, x, k) = w + (x - (y % 2)) * m
    BY <1>1, <1>4 DEF SetBits
  <2>2. PICK e \in {0, 1} : e = y % 2
    BY <1>3
  <2> HIDE DEF y, r, g
  <2>3. w = (g * 2 + e) * m + r
    BY <1>2, <1>3, <2>2
  <2>4. (g * 2 + e) * m + (x - e) * m = (g * 2 + x) * m
    BY <1>1, <1>3, <2>2
  <2> QED BY <1>1, <1>2, <1>3, <2>1, <2>2, <2>3, <2>4
<1>6. PICK d \in Nat : n = k + (d + 1)
  <2>1. n - k - 1 \in Nat /\ n = k + ((n - k - 1) + 1)
    OBVIOUS
  <2> QED BY <2>1
<1>7. z < 2 ^ (d + 1)
  <2>1. PICK c \in Nat : c = d + 1
    OBVIOUS
  <2>2. y < 2 ^ c
    BY <1>1, <1>6, <2>1, PowerCut
  <2>3. PICK h \in Nat : h = 2 ^ d
    BY PowerType
  <2>4. 2 ^ c = 2 * h
    BY <2>1, <2>3, PowerNext
  <2> HIDE DEF y, g
  <2> QED BY <1>3, <2>1, <2>2, <2>3, <2>4
<1>8. z * m + r \in Nat /\ z * m + r < 2 ^ n
  <2>1. PICK c \in Nat : c = d + 1
    OBVIOUS
  <2> HIDE DEF z, r
  <2> QED BY <1>1, <1>2, <1>3, <1>6, <1>7, <2>1, PowerSplit
<1>9. ASSUME NEW b \in Nat
      PROVE  Bit(z * m + r, b) = IF b = k THEN x ELSE Bit(w, b)
  <2>1. CASE b < k
    <3> HIDE DEF y, z, r
    <3>1. Bit(Above(z, k, r), b) = Bit(r, b) /\ Bit(Above(y, k, r), b) = Bit(r, b)
      BY <1>2, <1>3, <2>1, BitLow
    <3> QED BY <1>1, <1>2, <2>1, <3>1 DEF Above
  <2>2. CASE b >= k
    <3>1. PICK c \in Nat : b = k + c
      <4>1. b - k \in Nat /\ b = k + (b - k)
        BY <2>2
      <4> QED BY <4>1
    <3>2. Bit(z * m + r, b) = Bit(z, c) /\ Bit(w, b) = Bit(y, c)
      <4> HIDE DEF y, z, r
      <4>1. r < 2 ^ k
        BY <1>1, <1>2
      <4>2. Bit(Above(z, k, r), k + c) = Bit(z, c) /\ Bit(Above(y, k, r), k + c) = Bit(y, c)
        BY <1>2, <1>3, <4>1, BitHigh
      <4> QED BY <1>1, <1>2, <3>1, <4>2 DEF Above
    <3>3. CASE c = 0
      <4>1. Bit(z, c) = z % 2
        BY <1>3, <3>3, BitZero
      <4>2. z % 2 = x
        <5> HIDE DEF g
        <5> QED BY <1>3
      <4> QED BY <3>1, <3>2, <3>3, <4>1, <4>2
    <3>4. CASE c # 0
      <4>1. PICK a \in Nat : c = 1 + a
        <5>1. c - 1 \in Nat /\ c = 1 + (c - 1)
          BY <3>4
        <5> QED BY <5>1
      <4>2. 2 ^ 1 = 2
        <5>1. 2 ^ (0 + 1) = 2 * 2 ^ 0
          BY PowerNext
        <5> QED BY <5>1, PowerZero
      <4>3. Bit(z, c) = Bit(g, a) /\ Bit(y, c) = Bit(g, a)
        <5>1. PICK e \in {0, 1} : e = y % 2
          BY <1>3
        <5>2. PICK o \in Nat : o = 1
          OBVIOUS
        <5>3. x < 2 ^ o /\ e < 2 ^ o /\ x \in Nat /\ e \in Nat
          BY <4>2, <5>1, <5>2
        <5> HIDE DEF y, g
        <5>4. Bit(Above(g, o, x), o + a) = Bit(g, a) /\ Bit(Above(g, o, e), o + a) = Bit(g, a)
          BY <1>3, <5>3, BitHigh
        <5> QED BY <1>3, <4>1, <4>2, <5>1, <5>2, <5>4 DEF Above
      <4> QED BY <3>1, <3>2, <3>4, <4>3
    <3> QED BY <3>3, <3>4
  <2> QED BY <2>1, <2>2
<1> HIDE DEF z, r
<1> QED BY <1>5, <1>8, <1>9
-----------------------------------------------------------------------------
(* Words of bits *)

LEMMA ModNext ==
    ASSUME NEW v \in Nat, NEW n \in Nat
    PROVE  /\ v % 2 ^ n \in Nat
           /\ v % 2 ^ (n + 1) = Bit(v, n) * 2 ^ n + (v % 2 ^ n)
<1>1. PICK m \in Nat \ {0} : m = 2 ^ n
  BY PowerType
<1>2. 2 ^ (n + 1) = 2 * m
  BY <1>1, PowerNext
<1> DEFINE y == v \div m
           r == v % m
           g == y \div 2
           x == y % 2
<1>3. y \in Nat /\ r \in Nat /\ r < m /\ v = y * m + r
  BY DivSplit
<1>4. g \in Nat /\ x \in 0 .. 1 /\ y = g * 2 + x
  BY <1>3
<1>5. Bit(v, n) = x
  BY <1>1 DEF Bit
<1>6. v = g * (2 * m) + (x * m + r)
  <2> HIDE DEF y, r, g, x
  <2> QED BY <1>3, <1>4
<1>7. x * m + r \in Nat /\ x * m + r < 2 * m
  <2> HIDE DEF y, r, g, x
  <2> QED BY <1>3, <1>4
<1>8. v % (2 * m) = x * m + r
  <2> HIDE DEF y, r, g, x
  <2>1. PICK p \in Nat \ {0}, s \in Nat : p = 2 * m /\ s = x * m + r
    BY <1>7
  <2>2. v = g * p + s /\ s < p
    BY <1>6, <1>7, <2>1
  <2>3. v % p = s
    BY <1>4, <2>2, DivIs
  <2> QED BY <2>1, <2>3
<1> QED BY <1>1, <1>2, <1>3, <1>5, <1>8

\* A number is known by its bits.
LEMMA SameBits ==
    ASSUME NEW n \in Nat, NEW v \in Nat, v < 2 ^ n, NEW w \in Nat, w < 2 ^ n,
           \A b \in 0 .. n - 1 : Bit(v, b) = Bit(w, b)
    PROVE  v = w
<1> DEFINE B == {k \in 0 .. n : v % 2 ^ k # w % 2 ^ k}
<1>1. \A u \in Nat : u < 2 ^ n => u % 2 ^ n = u
  <2>1. PICK m \in Nat \ {0} : m = 2 ^ n
    BY PowerType
  <2>2. \A u \in Nat : u < m => u % m = u
    OBVIOUS
  <2> QED BY <2>1, <2>2
<1>2. SUFFICES ASSUME B # {} PROVE FALSE
  <2>1. B = {} => v % 2 ^ n = w % 2 ^ n
    <3>1. n \in 0 .. n
      OBVIOUS
    <3> QED BY <3>1, Zenon
  <2> QED BY <1>1, <2>1
<1>3. B \subseteq Nat
  OBVIOUS
<1> HIDE DEF B
<1>4. PICK k \in B : \A c \in B : k <= c
  BY <1>2, <1>3, NatMin
<1>5. k \in 0 .. n /\ v % 2 ^ k # w % 2 ^ k
  BY DEF B
<1>6. k # 0
  <2>1. SUFFICES ASSUME k = 0 PROVE FALSE
    OBVIOUS
  <2>2. 2 ^ k = 1
    BY <2>1, PowerZero
  <2>3. v % 1 = 0 /\ w % 1 = 0
    OBVIOUS
  <2> QED BY <1>5, <2>2, <2>3
<1>7. PICK e \in Nat : k = e + 1
  <2>1. k - 1 \in Nat /\ k = (k - 1) + 1
    BY <1>5, <1>6
  <2> QED BY <2>1
<1>8. e \in 0 .. n - 1 /\ e \in 0 .. n /\ ~ (k <= e)
  BY <1>5, <1>7
<1>9. v % 2 ^ e = w % 2 ^ e
  BY <1>4, <1>8 DEF B
<1>10. v % 2 ^ (e + 1) = w % 2 ^ (e + 1)
  <2>1. /\ v % 2 ^ (e + 1) = Bit(v, e) * 2 ^ e + (v % 2 ^ e)
        /\ w % 2 ^ (e + 1) = Bit(w, e) * 2 ^ e + (w % 2 ^ e)
    BY ModNext
  <2>2. Bit(v, e) = Bit(w, e)
    BY <1>8
  <2> QED BY <1>9, <2>1, <2>2
<1> QED BY <1>5, <1>7, <1>10

\* The bits of a word of n bits, the highest one first.
IsWord(v, n, f) ==
    /\ v \in Nat /\ v < 2 ^ n
    /\ \A i \in 0 .. n - 1 : Bit(v, n - 1 - i) = f[i]

BitWeights(n, f) == [i \in 0 .. n - 1 |-> f[i] * 2 ^ (n - 1 - i)]

LEMMA PowerOne == 2 ^ 1 = 2
<1>1. PICK z \in Nat : z = 0
  OBVIOUS
<1>2. 2 ^ (z + 1) = 2 * 2 ^ z
  BY PowerNext
<1>3. z + 1 = 1 /\ 2 ^ z = 1
  BY <1>1, PowerZero
<1> QED BY <1>2, <1>3

LEMMA BitWeightsType ==
    ASSUME NEW n \in Nat, NEW f, \A i \in 0 .. n - 1 : f[i] \in {0, 1}
    PROVE  \A i \in 0 .. n - 1 : BitWeights(n, f)[i] \in Nat /\ BitWeights(n, f)[i] \in Int
<1> SUFFICES ASSUME NEW i \in 0 .. n - 1
             PROVE  BitWeights(n, f)[i] \in Nat /\ BitWeights(n, f)[i] \in Int
  OBVIOUS
<1>1. PICK m \in Nat : m = 2 ^ (n - 1 - i)
  <2>1. n - 1 - i \in Nat
    OBVIOUS
  <2> QED BY <2>1, PowerType
<1>2. BitWeights(n, f)[i] = f[i] * m
  BY <1>1 DEF BitWeights
<1>3. f[i] * m \in Nat
  <2>1. f[i] \in {0, 1}
    OBVIOUS
  <2> QED BY <2>1
<1> QED BY <1>2, <1>3

\* The sum of weighted bits is the word with these bits.
LEMMA WordIs ==
    ASSUME NEW n \in Nat, NEW f, \A i \in 0 .. n - 1 : f[i] \in {0, 1}
    PROVE  IsWord(SumOver(BitWeights(n, f), 0 .. n - 1), n, f)
<1> DEFINE F == BitWeights(n, f)
           P(k) == SumOver(F, n - k .. n - 1)
           Good(k) == /\ P(k) \in Nat /\ P(k) < 2 ^ k
                      /\ \A b \in 0 .. k - 1 : Bit(P(k), b) = f[n - 1 - b]
           B == {k \in 0 .. n : ~Good(k)}
<1>1. SUFFICES ASSUME B # {} PROVE FALSE
  <2>1. B = {} => Good(n)
    <3> HIDE DEF Good
    <3> QED OBVIOUS
  <2>2. n - n .. n - 1 = 0 .. n - 1
    OBVIOUS
  <2>3. ASSUME NEW i \in 0 .. n - 1, NEW v, \A b \in 0 .. n - 1 : Bit(v, b) = f[n - 1 - b]
        PROVE  Bit(v, n - 1 - i) = f[i]
    <3>1. n - 1 - i \in 0 .. n - 1 /\ n - 1 - (n - 1 - i) = i
      OBVIOUS
    <3> QED BY <2>3, <3>1
  <2>4. P(n) = SumOver(F, 0 .. n - 1)
    BY <2>2
  <2> HIDE DEF P, F
  <2> QED BY <2>1, <2>3, <2>4 DEF IsWord, F
<1>2. B \subseteq Nat
  OBVIOUS
<1> HIDE DEF B
<1>3. PICK k \in B : \A c \in B : k <= c
  BY <1>1, <1>2, NatMin
<1>4. k \in 0 .. n /\ ~Good(k)
  BY DEF B
<1>5. CASE k = 0
  <2>1. n - k .. n - 1 = {}
    BY <1>5
  <2>2. P(k) = 0
    BY <2>1, SumOverEmpty
  <2>3. 2 ^ k = 1
    BY <1>5, PowerZero
  <2>4. 0 .. k - 1 = {}
    BY <1>5
  <2> HIDE DEF P
  <2> QED BY <1>4, <2>2, <2>3, <2>4
<1>6. CASE k # 0
  <2>1. PICK e \in Nat : k = e + 1
    <3>1. k - 1 \in Nat /\ k = (k - 1) + 1
      BY <1>4, <1>6
    <3> QED BY <3>1
  <2>2. e \in 0 .. n /\ ~ (k <= e) /\ n - k \in 0 .. n - 1
    BY <1>4, <2>1
  <2>3. Good(e)
    BY <1>3, <2>2 DEF B
  <2> DEFINE S == n - e .. n - 1
             x == f[n - k]
  <2>4. n - k .. n - 1 = S \cup {n - k} /\ n - k \notin S /\ S \subseteq 0 .. n - 1
    BY <1>4, <2>1
  <2>5. IsFiniteSet(S)
    <3>1. n - e \in Int /\ n - 1 \in Int
      BY <2>2
    <3> QED BY <3>1, FS_Interval
  <2>6. x \in {0, 1}
    BY <2>2
  <2>7. PICK m \in Nat \ {0} : m = 2 ^ e
    BY PowerType
  <2>8. F[n - k] = x * m
    <3>1. n - 1 - (n - k) = e
      BY <1>4, <2>1
    <3>2. F[n - k] = x * 2 ^ (n - 1 - (n - k))
      BY <2>2 DEF BitWeights
    <3> QED BY <2>7, <3>1, <3>2
  <2>9. P(k) = F[n - k] + P(e)
    <3>1. F[n - k] \in Int /\ \A y \in S : F[y] \in Int
      BY <2>2, <2>4, BitWeightsType
    <3>2. SumOver(F, S \cup {n - k}) = F[n - k] + SumOver(F, S)
      <4> HIDE DEF F, S
      <4> QED BY <2>4, <2>5, <3>1, SumOverAdd
    <3> QED BY <2>4, <3>2
  <2> DEFINE p == P(e)
  <2>10. p \in Nat /\ p < m /\ \A b \in 0 .. e - 1 : Bit(p, b) = f[n - 1 - b]
    BY <2>3, <2>7
  <2> HIDE DEF p
  <2>11. P(k) = Above(x, e, p)
    <3>1. P(k) = x * m + P(e)
      BY <2>8, <2>9
    <3> QED BY <2>7, <3>1 DEF Above, p
  <2>12. Above(x, e, p) \in Nat /\ Above(x, e, p) < 2 ^ k
    <3>1. PICK o \in Nat : o = 1
      OBVIOUS
    <3>2. x < 2 ^ o /\ x \in Nat /\ p < 2 ^ e
      BY <2>6, <2>7, <2>10, <3>1, PowerOne
    <3>3. x * 2 ^ e + p \in Nat /\ x * 2 ^ e + p < 2 ^ (e + o)
      <4> HIDE DEF x
      <4> QED BY <2>10, <3>2, PowerSplit
    <3> QED BY <2>1, <3>1, <3>3 DEF Above
  <2>13. ASSUME NEW b \in 0 .. k - 1
         PROVE  Bit(Above(x, e, p), b) = f[n - 1 - b]
    <3>1. x \in Nat /\ b \in Nat
      BY <2>6
    <3> HIDE DEF x
    <3>2. CASE b < e
      <4>1. Bit(Above(x, e, p), b) = Bit(p, b)
        BY <2>10, <3>1, <3>2, BitLow
      <4> QED BY <2>10, <3>1, <3>2, <4>1
    <3>3. CASE b >= e
      <4>1. b = e /\ n - 1 - b = n - k
        BY <1>4, <2>1, <2>13, <3>1, <3>3
      <4>2. PICK z \in Nat : z = 0
        OBVIOUS
      <4>3. p < 2 ^ e
        BY <2>7, <2>10
      <4>4. Bit(Above(x, e, p), e + z) = Bit(x, z)
        BY <2>10, <3>1, <4>3, BitHigh
      <4>5. Bit(x, z) = x % 2 /\ e + z = b
        BY <3>1, <4>1, <4>2, BitZero
      <4>6. x % 2 = x
        BY <2>6
      <4> QED BY <4>1, <4>4, <4>5, <4>6 DEF x
    <3> QED BY <3>1, <3>2, <3>3
  <2>14. Good(k)
    <3> HIDE DEF P, x
    <3> QED BY <2>11, <2>12, <2>13
  <2> QED BY <1>4, <2>14
<1> QED BY <1>5, <1>6

LEMMA WordUnique ==
    ASSUME NEW n \in Nat, NEW f, NEW v, NEW w, IsWord(v, n, f), IsWord(w, n, f)
    PROVE  v = w
<1>1. v \in Nat /\ w \in Nat /\ v < 2 ^ n /\ w < 2 ^ n
  BY DEF IsWord
<1>2. ASSUME NEW b \in 0 .. n - 1  PROVE Bit(v, b) = Bit(w, b)
  <2>1. n - 1 - b \in 0 .. n - 1 /\ n - 1 - (n - 1 - b) = b
    OBVIOUS
  <2>2. \A i \in 0 .. n - 1 : Bit(v, n - 1 - i) = Bit(w, n - 1 - i)
    BY DEF IsWord
  <2> QED BY <2>1, <2>2
<1> QED BY <1>1, <1>2, SameBits
-----------------------------------------------------------------------------
(* Sums in blocks *)

\* The sum of m items behind the first a ones.
LEMMA SumBehind ==
    ASSUME NEW a \in Nat, NEW m \in Nat, NEW f, \A i \in 0 .. a + m - 1 : f[i] \in Int,
           NEW g, \A e \in 1 .. m : g[e] = f[a + e - 1]
    PROVE  SumOver(f, 0 .. a + m - 1) = SumOver(f, 0 .. a - 1) + SumOver(g, 1 .. m)
<1> DEFINE Good(k) == SumOver(f, 0 .. a + k - 1) = SumOver(f, 0 .. a - 1) + SumOver(g, 1 .. k)
           B == {k \in 0 .. m : ~Good(k)}
<1>1. SUFFICES ASSUME B # {} PROVE FALSE
  <2>1. m \in 0 .. m
    OBVIOUS
  <2>2. B = {} => Good(m)
    <3> HIDE DEF Good
    <3> QED BY <2>1
  <2> QED BY <2>2
<1>2. B \subseteq Nat
  OBVIOUS
<1> HIDE DEF B
<1>3. PICK k \in B : \A c \in B : k <= c
  BY <1>1, <1>2, NatMin
<1>4. k \in 0 .. m /\ ~Good(k)
  BY DEF B
<1>5. IsFiniteSet(0 .. a - 1) /\ SumOver(f, 0 .. a - 1) \in Int
  <2>1. 0 \in Int /\ a - 1 \in Int
    OBVIOUS
  <2>2. IsFiniteSet(0 .. a - 1)
    BY <2>1, FS_Interval
  <2>3. \A i \in 0 .. a - 1 : f[i] \in Int
    OBVIOUS
  <2> QED BY <2>2, <2>3, SumOverType
<1>6. k # 0
  <2>1. SUFFICES ASSUME k = 0 PROVE FALSE
    OBVIOUS
  <2>2. a + k - 1 = a - 1 /\ 1 .. k = {}
    BY <2>1
  <2>3. SumOver(g, 1 .. k) = 0
    BY <2>2, SumOverEmpty
  <2> QED BY <1>4, <1>5, <2>2, <2>3
<1>7. PICK e \in Nat : k = e + 1
  <2>1. k - 1 \in Nat /\ k = (k - 1) + 1
    BY <1>4, <1>6
  <2> QED BY <2>1
<1>8. e \in 0 .. m /\ ~ (k <= e)
  BY <1>4, <1>7
<1>9. Good(e)
  BY <1>3, <1>8 DEF B
<1>10. SumOver(f, 0 .. a + k - 1) = SumOver(f, 0 .. a + e - 1) + f[a + e]
  <2>1. PICK n \in Nat : n = a + e
    OBVIOUS
  <2>2. \A i \in 0 .. n : f[i] \in Int
    BY <1>4, <1>7, <2>1
  <2>3. SumOver(f, 0 .. n) = SumOver(f, 0 .. n - 1) + f[n]
    BY <2>2, SumUpTo
  <2>4. a + k - 1 = n
    BY <1>4, <1>7, <2>1
  <2> QED BY <2>1, <2>3, <2>4
<1>11. /\ SumOver(g, 1 .. k) = g[k] + SumOver(g, 1 .. e)
       /\ g[k] = f[a + e] /\ f[a + e] \in Int /\ SumOver(g, 1 .. e) \in Int
  <2>1. 1 .. k = (1 .. e) \cup {k} /\ k \notin 1 .. e
    BY <1>4, <1>7
  <2>2. 1 \in Int /\ e \in Int
    OBVIOUS
  <2>3. IsFiniteSet(1 .. e)
    BY <2>2, FS_Interval
  <2>4. \A y \in 1 .. k : g[y] \in Int
    <3> SUFFICES ASSUME NEW y \in 1 .. k  PROVE g[y] \in Int
      OBVIOUS
    <3>1. y \in 1 .. m /\ a + y - 1 \in 0 .. a + m - 1
      BY <1>4
    <3> QED BY <3>1
  <2>5. k \in 1 .. m /\ a + k - 1 = a + e /\ a + e \in 0 .. a + m - 1
    BY <1>4, <1>7
  <2>6. g[k] = f[a + e] /\ f[a + e] \in Int
    BY <2>5
  <2>7. g[k] \in Int /\ \A y \in 1 .. e : g[y] \in Int
    BY <2>1, <2>4
  <2>8. PICK S : S = 1 .. e
    OBVIOUS
  <2>9. SumOver(g, S \cup {k}) = g[k] + SumOver(g, S)
    BY <2>1, <2>3, <2>7, <2>8, SumOverAdd
  <2>10. SumOver(g, 1 .. e) \in Int
    BY <2>3, <2>7, SumOverType
  <2> QED BY <2>1, <2>6, <2>8, <2>9, <2>10
<1>12. SumOver(f, 0 .. a + e - 1) = SumOver(f, 0 .. a - 1) + SumOver(g, 1 .. e)
  BY <1>9
<1> QED BY <1>4, <1>5, <1>10, <1>11, <1>12

\* What is summed, in blocks of m items, each with its sum.
InBlocks(n, m, f, g, r) ==
    /\ \A i \in 0 .. n * m - 1 : f[i] \in Int
    /\ \A l \in 0 .. n - 1 : /\ r[l] = SumOver(g[l], 1 .. m)
                             /\ \A e \in 1 .. m : g[l][e] = f[l * m + e - 1]

\* The sums of blocks of m items add up to the sum of all.
LEMMA SumBlocks ==
    ASSUME NEW n \in Nat, NEW m \in Nat, NEW f, NEW g, NEW r, InBlocks(n, m, f, g, r)
    PROVE  SumOver(r, 0 .. n - 1) = SumOver(f, 0 .. n * m - 1)
<1> USE DEF InBlocks
<1> DEFINE Good(k) == SumOver(r, 0 .. k - 1) = SumOver(f, 0 .. k * m - 1)
           B == {k \in 0 .. n : ~Good(k)}
<1>1. SUFFICES ASSUME B # {} PROVE FALSE
  <2>1. n \in 0 .. n
    OBVIOUS
  <2>2. B = {} => Good(n)
    <3> HIDE DEF Good
    <3> QED BY <2>1
  <2> QED BY <2>2
<1>2. B \subseteq Nat
  OBVIOUS
<1> HIDE DEF B
<1>3. PICK k \in B : \A c \in B : k <= c
  BY <1>1, <1>2, NatMin
<1>4. k \in 0 .. n /\ ~Good(k)
  BY DEF B
<1>5. \A l \in 0 .. n - 1 : l * m \in Nat /\ l * m + m <= n * m
  <2> SUFFICES ASSUME NEW l \in 0 .. n - 1  PROVE l * m \in Nat /\ l * m + m <= n * m
    OBVIOUS
  <2>1. PICK d \in Nat : n = l + 1 + d
    <3>1. n - l - 1 \in Nat /\ n = l + 1 + (n - l - 1)
      OBVIOUS
    <3> QED BY <3>1
  <2>2. n * m = l * m + m + d * m /\ d * m \in Nat /\ l * m \in Nat
    BY <2>1
  <2> QED BY <2>2
<1>6. \A l \in 0 .. n - 1 : r[l] \in Int
  <2> SUFFICES ASSUME NEW l \in 0 .. n - 1  PROVE r[l] \in Int
    OBVIOUS
  <2>1. \A e \in 1 .. m : g[l][e] \in Int
    <3> SUFFICES ASSUME NEW e \in 1 .. m  PROVE g[l][e] \in Int
      OBVIOUS
    <3>1. PICK a \in Nat : a = l * m
      BY <1>5
    <3>2. a + m <= n * m /\ g[l][e] = f[a + e - 1]
      BY <1>5, <3>1
    <3>3. PICK s \in Int : s = n * m
      OBVIOUS
    <3>4. a + e - 1 \in 0 .. s - 1
      BY <3>2, <3>3
    <3> QED BY <3>2, <3>3, <3>4
  <2>2. 1 \in Int /\ m \in Int
    OBVIOUS
  <2>3. IsFiniteSet(1 .. m)
    BY <2>2, FS_Interval
  <2>4. PICK h : h = g[l]
    OBVIOUS
  <2>5. SumOver(h, 1 .. m) \in Int
    BY <2>1, <2>3, <2>4, SumOverType
  <2> QED BY <2>4, <2>5
<1>7. k # 0
  <2>1. SUFFICES ASSUME k = 0 PROVE FALSE
    OBVIOUS
  <2>2. 0 .. k - 1 = {} /\ k * m = 0
    BY <2>1
  <2>3. 0 .. k * m - 1 = {}
    BY <2>2
  <2>4. SumOver(r, 0 .. k - 1) = 0 /\ SumOver(f, 0 .. k * m - 1) = 0
    BY <2>2, <2>3, SumOverEmpty
  <2> QED BY <1>4, <2>4
<1>8. PICK l \in Nat : k = l + 1
  <2>1. k - 1 \in Nat /\ k = (k - 1) + 1
    BY <1>4, <1>7
  <2> QED BY <2>1
<1>9. l \in 0 .. n - 1 /\ l \in 0 .. n /\ ~ (k <= l)
  BY <1>4, <1>8
<1>10. SumOver(r, 0 .. l - 1) = SumOver(f, 0 .. l * m - 1)
  BY <1>3, <1>9 DEF B
<1>11. SumOver(r, 0 .. k - 1) = SumOver(r, 0 .. l - 1) + r[l]
  <2>1. \A i \in 0 .. l : r[i] \in Int
    BY <1>6, <1>9
  <2>2. SumOver(r, 0 .. l) = SumOver(r, 0 .. l - 1) + r[l]
    BY <2>1, SumUpTo
  <2> QED BY <1>8, <2>2
<1>12. SumOver(f, 0 .. k * m - 1) = SumOver(f, 0 .. l * m - 1) + r[l]
  <2>1. PICK a \in Nat : a = l * m
    BY <1>5, <1>9
  <2>2. k * m = a + m
    BY <1>8, <2>1
  <2>3. PICK s \in Int : s = n * m
    OBVIOUS
  <2>4. a + m <= s
    BY <1>5, <1>9, <2>1, <2>3
  <2>5. \A i \in 0 .. a + m - 1 : f[i] \in Int
    BY <2>3, <2>4
  <2>6. PICK h : h = g[l]
    OBVIOUS
  <2>7. \A e \in 1 .. m : h[e] = f[a + e - 1]
    BY <1>9, <2>1, <2>6
  <2>8. SumOver(f, 0 .. a + m - 1) = SumOver(f, 0 .. a - 1) + SumOver(h, 1 .. m)
    BY <2>5, <2>7, SumBehind
  <2> QED BY <1>9, <2>1, <2>2, <2>6, <2>8
<1> QED BY <1>4, <1>10, <1>11, <1>12

\* A factor of all is one of the sum.
LEMMA SumTimes ==
    ASSUME NEW S, IsFiniteSet(S), NEW m \in Nat, NEW f, NEW g,
           \A x \in S : f[x] \in Nat /\ g[x] = f[x] * m
    PROVE  SumOver(g, S) = SumOver(f, S) * m
<1>1. ASSUME NEW x \in S
      PROVE  /\ f[x] \in Nat /\ g[x] \in Nat
             /\ m * f[x] <= g[x] /\ g[x] <= m * f[x]
  <2>1. f[x] \in Nat /\ g[x] = f[x] * m
    OBVIOUS
  <2> QED BY <2>1
<1>2. m * SumOver(f, S) <= SumOver(g, S) /\ SumOver(g, S) <= m * SumOver(f, S)
  BY <1>1, SumBetween
<1>3. SumOver(f, S) \in Nat /\ SumOver(g, S) \in Nat
  BY <1>1, SumOverType
<1> QED BY <1>2, <1>3
-----------------------------------------------------------------------------
(* What the SSE path gathers *)

LEMMA Widths ==
    /\ Width \in Nat \ {0} /\ Lanes \in Nat \ {0} /\ Width \div Lanes \in Nat
    /\ Width = (Width \div Lanes) * Lanes
<1>1. Width \in Nat \ {0} /\ Lanes \in 1 .. Width /\ Width % Lanes = 0
  BY KernelsAssumption
<1>2. PICK w \in Nat \ {0}, k \in Nat \ {0} : w = Width /\ k = Lanes
  BY <1>1
<1>3. w \div k \in Nat /\ w = (w \div k) * k + (w % k)
  BY DivSplit
<1> QED BY <1>1, <1>2, <1>3

LEMMA ShiftedBit ==
    ASSUME Width \in Nat \ {0}, NEW v \in Nat, NEW s \in 0 .. Width - 1
    PROVE  /\ ShiftLeft(v, s) \in Nat
           /\ Bit(ShiftLeft(v, s), Width - 1) = Bit(v, Width - 1 - s)
<1>1. PICK k \in Nat : k = Width - s /\ Width = s + k
  <2>1. Width - s \in Nat /\ Width = s + (Width - s)
    OBVIOUS
  <2> QED BY <2>1
<1>2. PICK m \in Nat \ {0}, h \in Nat \ {0} : m = 2 ^ s /\ h = 2 ^ k
  BY PowerType
<1>3. 2 ^ Width = m * h
  <2>1. s \in Nat
    OBVIOUS
  <2> QED BY <1>1, <1>2, <2>1, PowerSum
<1> DEFINE y == v \div h
           r == v % h
           p == m * h
           z == r * m
<1>4. y \in Nat /\ r \in Nat /\ r < h /\ v = y * h + r
  BY DivSplit
<1>5. v * m = y * p + z
  <2> HIDE DEF y, r
  <2>1. (y * h + r) * m = y * (m * h) + r * m
    BY <1>4
  <2> QED BY <1>4, <2>1
<1>6. z \in Nat /\ z < p /\ p \in Nat \ {0}
  <2> HIDE DEF y, r
  <2>1. (r + 1) * m <= h * m
    BY <1>4
  <2>2. (r + 1) * m = r * m + m /\ h * m = m * h /\ r * m \in Nat
    BY <1>4
  <2> QED BY <2>1, <2>2
<1>7. (v * m) % p = z
  <2>1. PICK a \in Nat : a = v * m
    OBVIOUS
  <2> HIDE DEF y, r, p, z
  <2>2. a = y * p + z
    BY <1>5, <2>1
  <2>3. a % p = z
    BY <1>4, <1>6, <2>2, DivIs
  <2> QED BY <2>1, <2>3
<1>8. ShiftLeft(v, s) = z
  BY <1>2, <1>3, <1>7 DEF ShiftLeft
<1>9. PICK b \in Nat : b = Width - 1 - s /\ b < k /\ s + b = Width - 1
  BY <1>1
<1>10. Bit(Above(r, s, 0), s + b) = Bit(r, b)
  <2>1. 0 \in Nat /\ 0 < 2 ^ s /\ s \in Nat
    BY <1>2
  <2>2. PICK n \in Nat : n = 0
    OBVIOUS
  <2> HIDE DEF r
  <2>3. Bit(Above(r, s, n), s + b) = Bit(r, b)
    BY <1>4, <2>1, <2>2, BitHigh
  <2> QED BY <2>2, <2>3
<1>11. Bit(Above(y, k, r), b) = Bit(r, b)
  <2> HIDE DEF y, r
  <2> QED BY <1>4, <1>9, BitLow
<1>12. Above(r, s, 0) = z /\ Above(y, k, r) = v
  <2> HIDE DEF r, y
  <2>1. r * m + 0 = r * m
    BY <1>4
  <2> QED BY <1>2, <1>4, <2>1 DEF Above
<1> QED BY <1>6, <1>8, <1>9, <1>10, <1>11, <1>12

LEMMA SumOfIs == ASSUME NEW f, NEW S, S = DOMAIN f PROVE SumOf(f) = SumOver(f, S)
BY Zenon DEF SumOf, SumOver

\* The bit of a plane in each of the items that fill a word.
PlaneBits(v, first, plane) == [i \in 0 .. Width - 1 |-> Bit(v[first + i], plane)]

LEMMA CollectedIsWord ==
    ASSUME NEW seg \in 0 .. Width - 1, NEW word \in Nat,
           \A i \in 0 .. Width - 1 : in[word * Width + i] \in Nat
    PROVE  IsWord(Collected(seg, word), Width, PlaneBits(in, word * Width, Width - 1 - seg))
<1> DEFINE f == PlaneBits(in, word * Width, Width - 1 - seg)
           F == BitWeights(Width, f)
           G == Width \div Lanes
           item(l, e) == in[word * Width + l * Lanes + e - 1]
           reg_(l) == [e \in 1 .. Lanes |-> ShiftLeft(item(l, e), seg)]
           r == [l \in 0 .. G - 1 |-> GatherMsb(reg_(l)) * 2 ^ (Width - (l + 1) * Lanes)]
           h(l) == [e \in 1 .. Lanes |-> Bit(reg_(l)[e], Width - 1) * 2 ^ (Lanes - e)]
           g == [l \in 0 .. G - 1 |-> [e \in 1 .. Lanes |-> F[l * Lanes + e - 1]]]
<1>1. Width \in Nat \ {0} /\ Lanes \in Nat \ {0} /\ G \in Nat /\ Width = G * Lanes
  BY Widths
<1>2. Collected(seg, word) = SumOver(r, 0 .. G - 1)
  <2>1. Collected(seg, word) = SumOf(r)
    BY Zenon DEF Collected
  <2>2. DOMAIN r = 0 .. G - 1
    BY Zenon
  <2> HIDE DEF r
  <2> QED BY <2>1, <2>2, SumOfIs
<1>3. ASSUME NEW i \in 0 .. Width - 1  PROVE f[i] \in {0, 1}
  <2>1. PICK b \in Nat : b = Width - 1 - seg
    BY <1>1
  <2>2. Bit(in[word * Width + i], b) \in {0, 1}
    BY BitType
  <2> QED BY <2>1, <2>2 DEF PlaneBits
<1>4. ASSUME NEW l \in 0 .. G - 1
      PROVE  /\ r[l] = SumOver(g[l], 1 .. Lanes)
             /\ \A e \in 1 .. Lanes : g[l][e] = F[l * Lanes + e - 1]
  <2>1. PICK a \in Nat, c \in Nat : a = l * Lanes /\ c = Width - (l + 1) * Lanes /\ Width = a + Lanes + c
    <3>1. PICK d \in Nat : G = l + 1 + d
      <4>1. G - l - 1 \in Nat /\ G = l + 1 + (G - l - 1)
        BY <1>1
      <4> QED BY <4>1
    <3>2. G * Lanes = l * Lanes + Lanes + d * Lanes /\ l * Lanes \in Nat /\ d * Lanes \in Nat
      <4> HIDE DEF G
      <4> QED BY <1>1, <3>1
    <3>3. (l + 1) * Lanes = l * Lanes + Lanes
      BY <1>1
    <3>4. Width - (l + 1) * Lanes = d * Lanes
      <4> HIDE DEF G
      <4> QED BY <1>1, <3>2, <3>3
    <3> QED BY <1>1, <3>2, <3>3, <3>4
  <2>2. PICK m \in Nat : m = 2 ^ c
    BY PowerType
  <2>3. ASSUME NEW e \in 1 .. Lanes
        PROVE  h(l)[e] \in Nat /\ g[l][e] = h(l)[e] * m /\ g[l][e] = F[l * Lanes + e - 1]
    <3>1. PICK i \in 0 .. Width - 1 : i = a + e - 1 /\ l * Lanes + e - 1 = i
      BY <1>1, <2>1
    <3>2. word * Width + l * Lanes + e - 1 = word * Width + i
      <4>1. word * Width \in Nat
        BY <1>1
      <4> QED BY <1>1, <2>1, <3>1, <4>1
    <3>3. PICK v \in Nat : v = item(l, e) /\ v = in[word * Width + i]
      BY <3>2
    <3>4. Bit(ShiftLeft(v, seg), Width - 1) = Bit(v, Width - 1 - seg)
      BY <1>1, ShiftedBit
    <3>5. PICK x \in {0, 1} : x = f[i] /\ x = Bit(v, Width - 1 - seg)
      BY <1>3, <3>3 DEF PlaneBits
    <3>6. PICK k \in Nat : k = Lanes - e
      BY <1>1
    <3>7. PICK q \in Nat : q = 2 ^ k
      BY PowerType
    <3>8. h(l)[e] = x * q
      <4>1. h(l)[e] = Bit(ShiftLeft(item(l, e), seg), Width - 1) * 2 ^ (Lanes - e)
        BY Zenon
      <4> QED BY <3>3, <3>4, <3>5, <3>6, <3>7, <4>1
    <3>9. F[i] = x * (q * m)
      <4>1. F[i] = f[i] * 2 ^ (Width - 1 - i)
        BY Zenon DEF BitWeights
      <4>2. Width - 1 - i = k + c
        BY <1>1, <2>1, <3>1, <3>6
      <4>3. 2 ^ (k + c) = q * m
        BY <2>2, <3>7, PowerSum
      <4> QED BY <3>5, <4>1, <4>2, <4>3
    <3>10. g[l][e] = F[i]
      <4>1. g[l][e] = F[l * Lanes + e - 1]
        BY Zenon
      <4> QED BY <3>1, <4>1
    <3>11. x * (q * m) = (x * q) * m /\ x * q \in Nat
      BY <2>2, <3>5, <3>7
    <3> QED BY <3>1, <3>8, <3>9, <3>10, <3>11
  <2>4. GatherMsb(reg_(l)) = SumOver(h(l), 1 .. Lanes)
    <3>1. GatherMsb(reg_(l)) = SumOf(h(l))
      BY Zenon DEF GatherMsb
    <3>2. DOMAIN h(l) = 1 .. Lanes
      BY Zenon
    <3>3. PICK u : u = h(l)
      OBVIOUS
    <3> HIDE DEF h
    <3> QED BY <3>1, <3>2, <3>3, SumOfIs
  <2>5. r[l] = SumOver(h(l), 1 .. Lanes) * m
    <3>1. r[l] = GatherMsb(reg_(l)) * 2 ^ (Width - (l + 1) * Lanes)
      BY Zenon
    <3> QED BY <2>1, <2>2, <2>4, <3>1
  <2>6. SumOver(g[l], 1 .. Lanes) = SumOver(h(l), 1 .. Lanes) * m
    <3>1. 1 \in Int /\ Lanes \in Int
      BY <1>1
    <3>2. IsFiniteSet(1 .. Lanes)
      BY <3>1, FS_Interval
    <3>3. PICK u, w : u = h(l) /\ w = g[l]
      OBVIOUS
    <3> HIDE DEF h, g
    <3>4. \A x \in 1 .. Lanes : u[x] \in Nat /\ w[x] = u[x] * m
      BY <2>3, <3>3
    <3>5. SumOver(w, 1 .. Lanes) = SumOver(u, 1 .. Lanes) * m
      BY <3>2, <3>4, SumTimes
    <3> QED BY <3>3, <3>5
  <2> HIDE DEF h, g, r, F
  <2> QED BY <2>3, <2>5, <2>6
<1>5. SumOver(r, 0 .. G - 1) = SumOver(F, 0 .. Width - 1)
  <2>1. \A i \in 0 .. Width - 1 : F[i] \in Int
    <3> HIDE DEF f
    <3> QED BY <1>1, <1>3, BitWeightsType
  <2>2. \A i \in 0 .. G * Lanes - 1 : F[i] \in Int
    <3> HIDE DEF G, F
    <3> QED BY <1>1, <2>1
  <2> HIDE DEF G, F, r, g
  <2>3. SumOver(r, 0 .. G - 1) = SumOver(F, 0 .. G * Lanes - 1)
    <3>1. PICK n \in Nat, m \in Nat : n = G /\ m = Lanes
      BY <1>1
    <3>2. PICK R, H, P : R = r /\ H = g /\ P = F
      OBVIOUS
    <3>3. InBlocks(n, m, P, H, R)
      BY <1>4, <2>2, <3>1, <3>2 DEF InBlocks
    <3>4. SumOver(R, 0 .. n - 1) = SumOver(P, 0 .. n * m - 1)
      BY ONLY <3>1, <3>3, SumBlocks
    <3> QED BY <3>1, <3>2, <3>4
  <2> QED BY <1>1, <2>3
<1>6. IsWord(SumOver(F, 0 .. Width - 1), Width, f)
  <2> HIDE DEF f
  <2> QED BY <1>1, <1>3, WordIs
<1> QED BY <1>2, <1>5, <1>6
-----------------------------------------------------------------------------
(* Volumes and the words of their bit planes *)

LEMMA TimesUp ==
    ASSUME NEW a \in Nat, NEW b \in Nat, a <= b, NEW m \in Nat
    PROVE  /\ a * m \in Nat /\ b * m \in Nat /\ a * m <= b * m
           /\ (a + 1) * m = a * m + m
<1>1. PICK d \in Nat : b = a + d
  <2>1. b - a \in Nat /\ b = a + (b - a)
    OBVIOUS
  <2> QED BY <2>1
<1>2. (a + d) * m = a * m + d * m /\ d * m \in Nat /\ a * m \in Nat
  OBVIOUS
<1> QED BY <1>1, <1>2

LEMMA JobTypes ==
    ASSUME NEW j \in Jobs
    PROVE  /\ j.scheme \in Schemes /\ j.wide \in BOOLEAN /\ j.level \in Nat
           /\ j.threads \in Nat \ {0} /\ j.readers \in Nat \ {0}
           /\ j.shape[1] \in Nat \ {0} /\ j.shape[2] \in Nat \ {0} /\ j.shape[3] \in Nat \ {0}
           /\ j.image \in [Items(j) -> Values]
           /\ Size(j) \in Nat \ {0}
<1>1. /\ j.scheme \in Schemes /\ j.wide \in BOOLEAN /\ j.level \in Nat
      /\ j.threads \in Nat \ {0} /\ j.readers \in Nat \ {0}
      /\ j.shape \in [1 .. 3 -> Nat \ {0}]
      /\ j.image \in [Items(j) -> Values]
  BY KernelsAssumption
<1>2. PICK d \in Nat \ {0}, h \in Nat \ {0}, w \in Nat \ {0} :
         d = j.shape[1] /\ h = j.shape[2] /\ w = j.shape[3]
  BY <1>1
<1>3. d * h * w \in Nat \ {0}
  <2>1. d * h \in Nat \ {0}
    BY <1>2
  <2> QED BY <1>2, <2>1
<1> QED BY <1>1, <1>2, <1>3 DEF Size

LEMMA ValuesType ==
    /\ 2 ^ Width \in Nat \ {0} /\ Values \subseteq Nat /\ 0 \in Values
    /\ \A v : v \in Values <=> v \in Nat /\ v < 2 ^ Width
    /\ Stale \in Values /\ Nothing \notin Values
<1>1. 2 ^ Width \in Nat \ {0}
  BY Widths, PowerType
<1>2. Stale \in Values
  BY KernelsAssumption
<1> QED BY <1>1, <1>2 DEF Values, Nothing

LEMMA Segments ==
    ASSUME NEW j \in Jobs
    PROVE  /\ MaxSize(j) \in Nat /\ MaxSize(j) <= Size(j) /\ Segment(j) \in Nat
           /\ MaxSize(j) = Segment(j) * Width
<1>1. PICK s \in Nat, m \in Nat \ {0} : s = Size(j) /\ m = Width
  BY JobTypes, Widths
<1>2. s \div m \in Nat /\ s % m \in 0 .. m - 1 /\ s = (s \div m) * m + (s % m)
  BY DivSplit
<1>3. PICK q \in Nat, r \in 0 .. m - 1 : q = s \div m /\ r = s % m /\ s = q * m + r
  BY <1>2
<1>4. PICK x \in Nat : x = q * m /\ x = s - r
  BY <1>3
<1>5. MaxSize(j) = x
  BY <1>1, <1>3, <1>4 DEF MaxSize, Planes
<1>6. x \div m = q
  <2>1. PICK z \in Nat : z = 0 /\ z < m /\ x = q * m + z
    BY <1>4
  <2> QED BY <2>1, DivIs
<1>7. Segment(j) = q
  BY <1>1, <1>5, <1>6 DEF Segment, Planes
<1>8. x <= s
  BY <1>3, <1>4
<1> QED BY ONLY <1>1, <1>4, <1>5, <1>7, <1>8

\* The number of a plane from the top, and the place of a word in it.
LEMMA WordPlace ==
    ASSUME NEW j \in Jobs, NEW c \in 0 .. MaxSize(j) - 1
    PROVE  /\ Segment(j) # 0
           /\ c \div Segment(j) \in 0 .. Width - 1 /\ c % Segment(j) \in 0 .. Segment(j) - 1
           /\ c = (c \div Segment(j)) * Segment(j) + (c % Segment(j))
           /\ (c % Segment(j)) * Width \in Nat
           /\ (c % Segment(j)) * Width + Width <= MaxSize(j)
<1>1. PICK g \in Nat, m \in Nat \ {0}, n \in Nat :
         g = Segment(j) /\ m = Width /\ n = MaxSize(j) /\ n = g * m
  BY Segments, Widths
<1>2. c \in Nat /\ c < g * m
  BY <1>1
<1>3. g # 0
  BY <1>2
<1>4. PICK q \in Nat, r \in 0 .. g - 1 : q = c \div g /\ r = c % g /\ c = q * g + r
  BY <1>2, <1>3, DivSplit
<1>5. q < m
  <2>1. SUFFICES ASSUME q >= m PROVE FALSE
    BY <1>1, <1>4
  <2>2. q * g >= m * g
    BY <1>1, <1>4, <2>1
  <2>3. m * g = g * m
    BY <1>1
  <2> QED BY <1>2, <1>4, <2>2, <2>3
<1>6. r * m \in Nat /\ r * m + m <= g * m
  <2>1. PICK k \in Nat : k = r + 1 /\ k <= g
    BY <1>4
  <2>2. k * m <= g * m
    BY <1>1, <2>1, TimesUp
  <2>3. r \in Nat /\ r <= g
    BY <1>4
  <2>4. r * m \in Nat /\ (r + 1) * m = r * m + m
    BY <1>1, <2>3, TimesUp
  <2> QED BY <2>1, <2>2, <2>4
<1> QED BY <1>1, <1>3, <1>4, <1>5, <1>6

\* The bits of one word of a plane.
WordBits(j, c) ==
    PlaneBits(j.image, (c % Segment(j)) * Width, Width - 1 - c \div Segment(j))

LEMMA TransposedIsWord ==
    ASSUME NEW j \in Jobs, NEW c \in 0 .. MaxSize(j) - 1
    PROVE  IsWord(Transposed(j, c), Width, WordBits(j, c))
<1>1. PICK first \in Nat : first = (c % Segment(j)) * Width /\ first + Width <= Size(j)
  BY WordPlace, Segments, JobTypes, Widths
<1>2. PICK plane \in Nat : plane = Width - 1 - c \div Segment(j)
  BY WordPlace, Widths
<1> DEFINE f == PlaneBits(j.image, first, plane)
           F == BitWeights(Width, f)
<1>3. WordBits(j, c) = f
  BY <1>1, <1>2 DEF WordBits
<1>4. ASSUME NEW i \in 0 .. Width - 1 PROVE f[i] \in {0, 1}
  <2>1. first + i \in Items(j)
    BY <1>1, JobTypes, Widths DEF Items
  <2>2. PICK v \in Nat : v = j.image[first + i]
    BY <2>1, JobTypes, ValuesType
  <2> QED BY <2>2, BitType DEF PlaneBits
<1>5. Transposed(j, c) = SumOver(F, 0 .. Width - 1)
  <2>1. ~(c >= MaxSize(j))
    BY Segments
  <2>2. Transposed(j, c) = SumOf([i \in 0 .. Width - 1 |->
                                    Bit(j.image[first + i], plane) * 2 ^ (Width - 1 - i)])
    BY <1>1, <1>2, <2>1, Zenon DEF Transposed, Planes
  <2>3. F = [i \in 0 .. Width - 1 |-> Bit(j.image[first + i], plane) * 2 ^ (Width - 1 - i)]
    BY DEF BitWeights, PlaneBits
  <2>4. DOMAIN F = 0 .. Width - 1
    BY <2>3
  <2> HIDE DEF F
  <2> QED BY <2>2, <2>3, <2>4, SumOfIs
<1>6. IsWord(SumOver(F, 0 .. Width - 1), Width, f)
  <2> HIDE DEF f
  <2> QED BY <1>4, Widths, WordIs
<1> QED BY <1>3, <1>5, <1>6
-----------------------------------------------------------------------------
(* The shares of a team *)

LEMMA MinTwo == ASSUME NEW a \in Int, NEW b \in Int PROVE Min({a, b}) = IF a <= b THEN a ELSE b
<1>1. \A x \in {a, b} : (\A y \in {a, b} : x <= y) <=> x = (IF a <= b THEN a ELSE b)
  OBVIOUS
<1>2. (IF a <= b THEN a ELSE b) \in {a, b}
  OBVIOUS
<1> QED BY <1>1, <1>2 DEF Min

LEMMA MaxTwo == ASSUME NEW a \in Int, NEW b \in Int PROVE Max({a, b}) = IF a >= b THEN a ELSE b
<1>1. \A x \in {a, b} : (\A y \in {a, b} : x >= y) <=> x = (IF a >= b THEN a ELSE b)
  OBVIOUS
<1>2. (IF a >= b THEN a ELSE b) \in {a, b}
  OBVIOUS
<1> QED BY <1>1, <1>2 DEF Max

LEMMA TeamType ==
    ASSUME NEW j \in Jobs, NEW coding PROVE TeamSize(j, coding) \in Nat \ {0}
<1>1. j.threads \in Nat \ {0} /\ j.readers \in Nat \ {0} /\ Planes \in Nat \ {0}
  BY JobTypes, Widths DEF Planes
<1>2. Min({j.threads, Planes}) \in Nat \ {0}
  <2>1. PICK a \in Nat \ {0}, b \in Nat \ {0} : a = j.threads /\ b = Planes
    BY <1>1
  <2>2. a \in Int /\ b \in Int
    OBVIOUS
  <2>3. Min({a, b}) \in Nat \ {0}
    BY <2>2, MinTwo
  <2> QED BY <2>1, <2>3
<1> HIDE DEF Planes
<1>3. CASE coding = "decode"
  BY <1>1, <1>3 DEF TeamSize
<1>4. CASE coding # "decode" /\ j.scheme = "bitswap" /\ UsesSse(j)
  BY <1>2, <1>4 DEF TeamSize
<1>5. CASE coding # "decode" /\ ~(j.scheme = "bitswap" /\ UsesSse(j))
  BY <1>1, <1>5 DEF TeamSize
<1> QED BY <1>3, <1>4, <1>5

\* The shares follow each other and are all of the iterations.
LEMMA Shares ==
    ASSUME NEW j \in Jobs, NEW coding, NEW n \in Nat
    PROVE  LET begin(t) == Share(j, coding, n, t).begin
           IN  /\ \A t \in Nat : begin(t) \in Nat /\ Share(j, coding, n, t).end = begin(t + 1)
               /\ \A a, b \in Nat : a <= b => begin(a) <= begin(b)
               /\ begin(0) = 0 /\ begin(TeamSize(j, coding)) = n
<1>1. PICK m \in Nat \ {0} : m = TeamSize(j, coding)
  BY TeamType
<1>2. CASE j.scheme \in {"remove_background", "rmestbkrd"}
  <2>1. PICK s \in Nat : s = n + m - 1
    <3>1. n + m - 1 \in Nat
      OBVIOUS
    <3> QED BY <3>1
  <2>2. PICK c \in Nat, r \in 0 .. m - 1 : c = (n + m - 1) \div m /\ s = c * m + r
    BY <2>1, DivSplit
  <2>3. m * c >= n
    <3>1. c * m = m * c /\ m * c \in Nat
      BY <2>2
    <3> QED BY <2>1, <2>2, <3>1
  <2> DEFINE g(k) == IF n <= k * c THEN n ELSE k * c
  <2>4. ASSUME NEW t \in Nat
        PROVE  /\ Share(j, coding, n, t).begin = g(t) /\ g(t) \in Nat
               /\ Share(j, coding, n, t).end = g(t + 1)
    <3>1. PICK x \in Nat, y \in Nat : x = t * c /\ y = (t + 1) * c
      BY <2>2
    <3>2. /\ Share(j, coding, n, t).begin = Min({n, t * c})
          /\ Share(j, coding, n, t).end = Min({n, (t + 1) * c})
      BY <1>1, <1>2, <2>2 DEF Share
    <3>3. n \in Int /\ x \in Int /\ y \in Int
      OBVIOUS
    <3>4. Min({n, x}) = (IF n <= x THEN n ELSE x) /\ Min({n, y}) = IF n <= y THEN n ELSE y
      BY <3>3, MinTwo
    <3> QED BY <3>1, <3>2, <3>4
  <2>5. ASSUME NEW a \in Nat, NEW b \in Nat, a <= b PROVE g(a) <= g(b)
    <3>1. PICK x \in Nat, y \in Nat : x = a * c /\ y = b * c /\ x <= y
      BY <2>2, <2>5, TimesUp
    <3> QED BY <3>1
  <2>6. g(0) = 0 /\ g(m) = n
    <3>1. 0 * c = 0 /\ m * c \in Nat
      BY <2>2
    <3> QED BY <2>3, <3>1
  <2>7. 0 \in Nat /\ \A t \in Nat : t + 1 \in Nat
    OBVIOUS
  <2> HIDE DEF g
  <2>8. \A t \in Nat : /\ Share(j, coding, n, t).begin = g(t) /\ g(t) \in Nat
                     /\ Share(j, coding, n, t).end = g(t + 1)
    BY ONLY <2>4
  <2>9. \A a, b \in Nat : a <= b => Share(j, coding, n, a).begin <= Share(j, coding, n, b).begin
    BY ONLY <2>5, <2>8
  <2>10. Share(j, coding, n, 0).begin = 0 /\ Share(j, coding, n, TeamSize(j, coding)).begin = n
    BY ONLY <1>1, <2>6, <2>7, <2>8, m \in Nat \ {0}
  <2>11. \A t \in Nat : /\ Share(j, coding, n, t).begin \in Nat
                      /\ Share(j, coding, n, t).end = Share(j, coding, n, t + 1).begin
    BY ONLY <2>7, <2>8
  <2> QED BY ONLY <2>9, <2>10, <2>11
<1>3. CASE ~(j.scheme \in {"remove_background", "rmestbkrd"})
  <2>1. PICK q \in Nat, r \in 0 .. m - 1 : q = n \div m /\ r = n % m /\ n = q * m + r
    BY DivSplit
  <2>2. q \in Nat /\ r \in Nat /\ r < m
    BY <2>1
  <2> DEFINE g(k) == k * q + (IF k <= r THEN k ELSE r)
  <2>4. ASSUME NEW t \in Nat
        PROVE  /\ Share(j, coding, n, t).begin = g(t) /\ g(t) \in Nat
               /\ Share(j, coding, n, t).end = g(t + 1)
    <3>1. PICK u \in Nat : u = t + 1
      OBVIOUS
    <3>2. /\ Share(j, coding, n, t).begin = t * q + Min({t, r})
          /\ Share(j, coding, n, t).end = u * q + Min({u, r})
      BY <1>1, <1>3, <2>1, <3>1 DEF Share
    <3>3. t \in Int /\ u \in Int /\ r \in Int
      OBVIOUS
    <3>4. Min({t, r}) = (IF t <= r THEN t ELSE r) /\ Min({u, r}) = IF u <= r THEN u ELSE r
      BY <3>3, MinTwo
    <3>5. PICK x \in Nat, y \in Nat : x = t * q /\ y = u * q /\ y = (t + 1) * q
      BY <2>2, <3>1
    <3> QED BY <2>2, <3>1, <3>2, <3>4, <3>5
  <2>5. ASSUME NEW a \in Nat, NEW b \in Nat, a <= b PROVE g(a) <= g(b)
    <3>1. PICK x \in Nat, y \in Nat : x = a * q /\ y = b * q /\ x <= y
      BY ONLY <2>2, <2>5, TimesUp
    <3> QED BY <2>5, <3>1
  <2>6. g(0) = 0 /\ g(m) = n
    <3>1. 0 * q = 0 /\ m * q = q * m /\ m * q \in Nat
      BY <2>1
    <3> QED BY <2>1, <3>1
  <2>7. 0 \in Nat /\ \A t \in Nat : t + 1 \in Nat
    OBVIOUS
  <2> HIDE DEF g
  <2>8. \A t \in Nat : /\ Share(j, coding, n, t).begin = g(t) /\ g(t) \in Nat
                     /\ Share(j, coding, n, t).end = g(t + 1)
    BY ONLY <2>4
  <2>9. \A a, b \in Nat : a <= b => Share(j, coding, n, a).begin <= Share(j, coding, n, b).begin
    BY ONLY <2>5, <2>8
  <2>10. Share(j, coding, n, 0).begin = 0 /\ Share(j, coding, n, TeamSize(j, coding)).begin = n
    BY ONLY <1>1, <2>6, <2>7, <2>8, m \in Nat \ {0}
  <2>11. \A t \in Nat : /\ Share(j, coding, n, t).begin \in Nat
                      /\ Share(j, coding, n, t).end = Share(j, coding, n, t + 1).begin
    BY ONLY <2>7, <2>8
  <2> QED BY ONLY <2>9, <2>10, <2>11
<1> QED BY <1>2, <1>3

LEMMA OwnerExists ==
    ASSUME NEW j \in Jobs, NEW coding, NEW n \in Nat, NEW k \in 0 .. n - 1
    PROVE  \E t \in 0 .. TeamSize(j, coding) - 1 :
              /\ Share(j, coding, n, t).begin <= k
              /\ k < Share(j, coding, n, t + 1).begin
<1> DEFINE begin(t) == Share(j, coding, n, t).begin
<1>1. PICK m \in Nat \ {0} : m = TeamSize(j, coding)
  BY TeamType
<1>2. /\ \A t \in Nat : begin(t) \in Nat
      /\ begin(0) = 0 /\ begin(m) = n
  BY <1>1, Shares
<1> HIDE DEF begin
<1> DEFINE S == {t \in 0 .. m : begin(t) <= k}
<1>3. S \subseteq 0 .. m /\ S # {}
  <2>1. 0 \in S
    BY <1>2
  <2> QED BY <2>1
<1>4. PICK x \in S : \A y \in S : x >= y
  BY <1>3, NatMax
<1>5. x \in 0 .. m /\ begin(x) <= k /\ x # m
  BY <1>2, <1>4
<1>6. x + 1 \in 0 .. m /\ x + 1 \notin S /\ x \in 0 .. m - 1
  BY <1>4, <1>5
<1>7. k < begin(x + 1)
  BY <1>2, <1>6
<1> QED BY <1>1, <1>5, <1>6, <1>7 DEF begin

LEMMA OwnerOne ==
    ASSUME NEW j \in Jobs, NEW coding, NEW n \in Nat, NEW k \in Nat, NEW t \in Nat, NEW u \in Nat,
           Share(j, coding, n, t).begin <= k, k < Share(j, coding, n, t + 1).begin,
           Share(j, coding, n, u).begin <= k, k < Share(j, coding, n, u + 1).begin
    PROVE  t = u
<1> DEFINE begin(x) == Share(j, coding, n, x).begin
<1>1. /\ \A x \in Nat : begin(x) \in Nat
      /\ \A a, b \in Nat : a <= b => begin(a) <= begin(b)
  BY Shares
<1>2. begin(t) <= k /\ k < begin(t + 1) /\ begin(u) <= k /\ k < begin(u + 1)
  OBVIOUS
<1> HIDE DEF begin
<1>3. CASE t < u
  <2>1. begin(t + 1) <= begin(u) /\ begin(t + 1) \in Nat /\ begin(u) \in Nat
    BY <1>1, <1>3
  <2> QED BY <1>2, <2>1
<1>4. CASE u < t
  <2>1. begin(u + 1) <= begin(t) /\ begin(u + 1) \in Nat /\ begin(t) \in Nat
    BY <1>1, <1>4
  <2> QED BY <1>2, <2>1
<1> QED BY <1>3, <1>4

\* The items of a word that is not cut are all of one thread's share.
LEMMA UncutOwner ==
    ASSUME NEW j \in Jobs, j.scheme = "bitswap", ~UsesSse(j),
           NEW c \in 0 .. MaxSize(j) - 1, c \notin CutWords(j),
           NEW t \in 0 .. j.threads - 1, NEW u \in 0 .. j.threads - 1,
           NEW i \in 0 .. Width - 1, NEW e \in 0 .. Width - 1,
           LET first == (c % Segment(j)) * Width
               S(x) == Share(j, "encode", MaxSize(j), x)
           IN  /\ S(t).begin <= first + i /\ first + i < S(t + 1).begin
               /\ S(u).begin <= first + e /\ first + e < S(u + 1).begin
    PROVE  t = u
<1> DEFINE S(x) == Share(j, "encode", MaxSize(j), x)
           Owner(index) == {x \in 0 .. j.threads - 1 : index \in S(x).begin .. S(x).end - 1}
<1>1. PICK first \in Nat, m \in Nat \ {0}, n \in Nat :
         first = (c % Segment(j)) * Width /\ m = Width /\ n = MaxSize(j) /\ first + m <= n
  BY WordPlace, Widths, Segments
<1>0. MaxSize(j) \in Nat
  BY Segments
<1>2. PICK last \in Nat : last = first + m - 1 /\ last < n /\ first <= last
  BY <1>1
<1>3. Owner(first) = Owner(last)
  <2>1. first + m - 1 = last
    BY <1>2
  <2>2. first = (c % Segment(j)) * Planes /\ last = (c % Segment(j)) * Planes + Planes - 1
    BY <1>1, <1>2 DEF Planes
  <2> QED BY <2>2 DEF CutWords
<1>4. TeamSize(j, "encode") = j.threads /\ j.threads \in Nat \ {0}
  BY JobTypes DEF TeamSize
<1>5. /\ \A x \in Nat : S(x).begin \in Nat /\ S(x).end = S(x + 1).begin
      /\ \A a, b \in Nat : a <= b => S(a).begin <= S(b).begin
  BY <1>0, Shares
<1>6. PICK x \in 0 .. j.threads - 1 : S(x).begin <= first /\ first < S(x + 1).begin
  <2>1. first \in 0 .. MaxSize(j) - 1
    BY <1>1, <1>2
  <2> QED BY ONLY <1>0, <1>4, <2>1, j \in Jobs, OwnerExists
<1>7. x \in Owner(first)
  BY <1>4, <1>5, <1>6
<1>8. last < S(x + 1).begin
  <2>1. x \in Owner(last)
    BY <1>3, <1>7
  <2>2. x \in Nat /\ S(x).end = S(x + 1).begin /\ S(x).begin \in Nat /\ S(x).end \in Nat
    BY <1>4, <1>5
  <2>3. last \in S(x).begin .. S(x).end - 1
    BY <2>1
  <2> HIDE DEF S
  <2> QED BY <2>2, <2>3
<1>9. ASSUME NEW y \in 0 .. j.threads - 1, NEW o \in 0 .. Width - 1,
             S(y).begin <= first + o, first + o < S(y + 1).begin
      PROVE  y = x
  <2>1. PICK k \in Nat : k = first + o /\ first <= k /\ k <= last
    <3>1. o \in Nat /\ o < m
      BY <1>1
    <3> QED BY ONLY <1>1, <1>2, <3>1
  <2>2. x \in Nat /\ y \in Nat /\ S(x).begin \in Nat /\ S(x + 1).begin \in Nat
    BY <1>4, <1>5
  <2>3. S(x).begin <= k /\ k < S(x + 1).begin
    <3> HIDE DEF S
    <3> QED BY <1>6, <1>8, <2>1, <2>2
  <2> QED BY <1>1, <1>9, <2>1, <2>2, <2>3, OwnerOne
<1> QED BY <1>1, <1>9
-----------------------------------------------------------------------------
(* The rows of the neighbourhood filters *)

Half == Extent \div 2

LEMMA Halves ==
    /\ Half \in Nat /\ Extent % 2 \in {0, 1} /\ Extent = 2 * Half + (Extent % 2)
    /\ Half + (Extent % 2) \in Nat \ {0}
<1>1. PICK e \in Nat \ {0} : e = Extent
  BY KernelsAssumption
<1>2. e \div 2 \in Nat /\ e % 2 \in 0 .. 1 /\ e = (e \div 2) * 2 + (e % 2)
  OBVIOUS
<1>3. PICK a \in Nat, b \in 0 .. 1 : a = e \div 2 /\ b = e % 2 /\ e = a * 2 + b
  BY <1>2
<1>4. b \in {0, 1} /\ a + b \in Nat \ {0}
  BY <1>3
<1> QED BY <1>1, <1>3, <1>4 DEF Half

LEMMA HaloTypes ==
    ASSUME NEW j \in WithHalo
    PROVE  /\ j \in Jobs /\ j.scheme \in {"diff", "rmbkrd_neighbor"}
           /\ j.shape[1] \in Nat \ {0} /\ j.shape[2] \in Nat \ {0} /\ j.shape[3] \in Nat \ {0}
           /\ j.shape[1] >= Half /\ j.shape[2] >= Half /\ j.shape[3] >= Half
           /\ Size(j) \in Nat \ {0}
<1>1. j \in Jobs /\ j.scheme \in {"diff", "rmbkrd_neighbor"}
  BY DEF WithHalo
<1>2. \A a \in 1 .. 3 : j.shape[a] >= Extent \div 2
  BY KernelsAssumption
<1> QED BY <1>1, <1>2, JobTypes DEF Half

\* The margins of diff: half of the extent on two axes, the plane in front on the third.
LEMMA DiffAxes ==
    ASSUME NEW j \in WithHalo, j.scheme = "diff"
    PROVE  /\ NonHaloBegin(j, 1) = Half /\ NonHaloBegin(j, 2) = Half /\ NonHaloBegin(j, 3) = 1
           /\ NonHalo(j, 1) = j.shape[1] - 2 * Half
           /\ NonHalo(j, 2) = j.shape[2] - 2 * Half
           /\ NonHalo(j, 3) = j.shape[3] - 1
<1>1. PICK d \in Nat \ {0}, h \in Nat \ {0}, w \in Nat \ {0}, a \in Nat, b \in Nat :
         d = j.shape[1] /\ h = j.shape[2] /\ w = j.shape[3] /\ a = Half /\ b = 1
  BY HaloTypes, Halves
<1>2. Neighborhood(j) = [begin |-> <<-a, -a, -b>>, end |-> <<a + 1, a + 1, 0>>]
  BY <1>1 DEF Neighborhood, LastPlane, Half
<1>3. 0 \in Int /\ -(-a) \in Int /\ -(-b) \in Int /\ -(-a) = a /\ -(-b) = b
  <2>1. \A x \in Nat : -(-x) \in Int /\ -(-x) = x
    OBVIOUS
  <2> QED BY ONLY <2>1, a \in Nat, b \in Nat
<1>4. Max({0, -(-a)}) = a /\ Max({0, -(-b)}) = b
  BY <1>1, <1>3, MaxTwo
<1>5. NonHaloBegin(j, 1) = a /\ NonHaloBegin(j, 2) = a /\ NonHaloBegin(j, 3) = b
  <2>1. /\ Neighborhood(j).begin[1] = -a /\ Neighborhood(j).begin[2] = -a
        /\ Neighborhood(j).begin[3] = -b
    BY <1>2
  <2> QED BY <2>1, <1>4 DEF NonHaloBegin
<1>6. /\ NonHaloEnd(j, 1) = d - (a + 1) + 1 /\ NonHaloEnd(j, 2) = h - (a + 1) + 1
      /\ NonHaloEnd(j, 3) = w
  BY <1>1, <1>2 DEF NonHaloEnd
<1> QED BY <1>1, <1>5, <1>6 DEF NonHalo

LEMMA CubeAxes ==
    ASSUME NEW j \in WithHalo, j.scheme = "rmbkrd_neighbor"
    PROVE  /\ NonHaloBegin(j, 1) = Half /\ NonHaloBegin(j, 2) = Half /\ NonHaloBegin(j, 3) = Half
           /\ NonHalo(j, 1) = j.shape[1] - Extent + 1
           /\ NonHalo(j, 2) = j.shape[2] - Extent + 1
           /\ NonHalo(j, 3) = j.shape[3] - Extent + 1
<1>1. PICK d \in Nat \ {0}, h \in Nat \ {0}, w \in Nat \ {0}, a \in Nat, e \in Nat \ {0} :
         /\ d = j.shape[1] /\ h = j.shape[2] /\ w = j.shape[3] /\ a = Half
         /\ e = Half + (Extent % 2) /\ Extent = a + e
  <2>1. Extent = Half + (Half + (Extent % 2))
    BY Halves
  <2> QED BY <2>1, HaloTypes, Halves
<1>2. Neighborhood(j) = [begin |-> <<-a, -a, -a>>, end |-> [x \in 1 .. 3 |-> e]]
  BY <1>1 DEF Neighborhood, Cube, Half
<1>3. 0 \in Int /\ -(-a) \in Int /\ -(-a) = a
  BY <1>1
<1>4. Max({0, -(-a)}) = a
  BY <1>1, <1>3, MaxTwo
<1>5. NonHaloBegin(j, 1) = a /\ NonHaloBegin(j, 2) = a /\ NonHaloBegin(j, 3) = a
  BY <1>2, <1>4 DEF NonHaloBegin
<1>6. /\ NonHaloEnd(j, 1) = d - e + 1 /\ NonHaloEnd(j, 2) = h - e + 1
      /\ NonHaloEnd(j, 3) = w - e + 1
  BY <1>1, <1>2 DEF NonHaloEnd
<1> QED BY <1>1, <1>5, <1>6 DEF NonHalo

LEMMA HaloAxes ==
    ASSUME NEW j \in WithHalo
    PROVE  /\ \A a \in 1 .. 3 : NonHaloBegin(j, a) \in Nat /\ NonHalo(j, a) \in Int
           /\ NonHalo(j, 1) <= j.shape[1] /\ NonHalo(j, 2) <= j.shape[2]
           /\ NonHalo(j, 3) <= j.shape[3]
           /\ OffsetsRequired(j) \in Int
           /\ OffsetsRequired(j) > 1 => NonHalo(j, 2) # 0 /\ NonHalo(j, 3) # 0
<1>1. PICK d \in Nat \ {0}, h \in Nat \ {0}, w \in Nat \ {0}, a \in Nat :
         d = j.shape[1] /\ h = j.shape[2] /\ w = j.shape[3] /\ a = Half
  BY HaloTypes, Halves
<1>2. /\ \A x \in 1 .. 3 : NonHaloBegin(j, x) \in Nat /\ NonHalo(j, x) \in Int
      /\ NonHalo(j, 1) <= d /\ NonHalo(j, 2) <= h /\ NonHalo(j, 3) <= w
  <2>1. CASE j.scheme = "diff"
    BY <1>1, <2>1, DiffAxes
  <2>2. CASE j.scheme = "rmbkrd_neighbor"
    <3>1. PICK e \in Nat \ {0} : e = Extent
      BY KernelsAssumption
    <3> QED BY <1>1, <2>2, <3>1, CubeAxes
  <2> QED BY <2>1, <2>2, HaloTypes
<1>3. PICK p \in Int, q \in Int :
         /\ p = IF NonHalo(j, 3) = w THEN 1 ELSE NonHalo(j, 3)
         /\ q = IF NonHalo(j, 2) = h THEN 1 ELSE NonHalo(j, 2)
  BY <1>2
<1>4. OffsetsRequired(j) = p * q
  BY <1>1, <1>3 DEF OffsetsRequired
<1>5. p * q > 1 => p # 0 /\ q # 0
  BY <1>3
<1> QED BY <1>1, <1>2, <1>3, <1>4, <1>5

\* The plane and the row that a row of a neighbourhood filter starts in.
LEMMA RowPlace ==
    ASSUME NEW j \in WithHalo, NEW k \in 0 .. RowCount(j) - 1
    PROVE  /\ NonHalo(j, 2) \in Nat \ {0} /\ NonHalo(j, 3) \in Nat \ {0}
           /\ RowCount(j) = NonHalo(j, 2) * NonHalo(j, 3)
           /\ \E z \in 0 .. NonHalo(j, 3) - 1, y \in 0 .. NonHalo(j, 2) - 1 :
                 /\ k = z * NonHalo(j, 2) + y
                 /\ RowStart(j, k) = (NonHaloBegin(j, 3) + z) * (j.shape[2] * j.shape[3])
                                        + (NonHaloBegin(j, 2) + y) * j.shape[3]
                                        + NonHaloBegin(j, 1)
<1>1. NonHalo(j, 2) \in Int /\ NonHalo(j, 3) \in Int
  BY HaloAxes
<1>2. NonHalo(j, 2) > 0 /\ NonHalo(j, 3) > 0
  BY <1>1 DEF RowCount
<1>3. RowCount(j) = NonHalo(j, 2) * NonHalo(j, 3)
  BY <1>2 DEF RowCount
<1>4. PICK n \in Nat \ {0}, m \in Nat \ {0} : n = NonHalo(j, 2) /\ m = NonHalo(j, 3)
  BY <1>1, <1>2
<1>5. k \in Nat /\ k < m * n
  <2>1. n * m = m * n /\ m * n \in Nat
    BY <1>4
  <2> QED BY <1>3, <1>4, <2>1
<1>6. PICK z \in Nat, y \in 0 .. n - 1 : z = k \div n /\ y = k % n /\ k = z * n + y
  BY <1>5, DivSplit
<1>7. z < m
  <2>1. SUFFICES ASSUME z >= m PROVE FALSE
    BY <1>4, <1>6
  <2>2. m * n \in Nat /\ m * n <= z * n
    BY <1>4, <1>6, <2>1, TimesUp
  <2> QED BY <1>5, <1>6, <2>2
<1>8. PICK d3 \in Nat, d2 \in Nat, d1 \in Nat, h \in Nat \ {0}, w \in Nat \ {0} :
         /\ d3 = NonHaloBegin(j, 3) /\ d2 = NonHaloBegin(j, 2) /\ d1 = NonHaloBegin(j, 1)
         /\ h = j.shape[2] /\ w = j.shape[3]
  BY HaloAxes, HaloTypes
<1>9. RowStart(j, k) = (d3 + z) * h * w + (d2 + y) * w + d1
  BY <1>4, <1>6, <1>8 DEF RowStart
<1>10. (d3 + z) * h * w = (d3 + z) * (h * w)
  <2>1. PICK x \in Nat : x = d3 + z
    BY <1>6, <1>8
  <2>2. x * h * w = x * (h * w)
    BY <1>8
  <2> QED BY <2>1, <2>2
<1>11. z \in 0 .. m - 1 /\ RowStart(j, k) = (d3 + z) * (h * w) + (d2 + y) * w + d1
  BY <1>4, <1>6, <1>7, <1>9, <1>10
<1> QED BY ONLY <1>3, <1>4, <1>6, <1>8, <1>11

\* Rows start one behind the other.
LEMMA RowsRise ==
    ASSUME NEW j \in WithHalo, NEW k \in 0 .. RowCount(j) - 1, NEW l \in 0 .. RowCount(j) - 1,
           k <= l
    PROVE  RowStart(j, k) \in Nat /\ RowStart(j, l) \in Nat /\ RowStart(j, k) <= RowStart(j, l)
<1>1. PICK d3 \in Nat, d2 \in Nat, d1 \in Nat, h \in Nat \ {0}, w \in Nat \ {0}, n \in Nat \ {0} :
         /\ d3 = NonHaloBegin(j, 3) /\ d2 = NonHaloBegin(j, 2) /\ d1 = NonHaloBegin(j, 1)
         /\ h = j.shape[2] /\ w = j.shape[3] /\ n = NonHalo(j, 2) /\ n <= h
  <2>1. NonHalo(j, 2) \in Nat \ {0}
    BY RowPlace
  <2>2. /\ NonHaloBegin(j, 1) \in Nat /\ NonHaloBegin(j, 2) \in Nat /\ NonHaloBegin(j, 3) \in Nat
        /\ NonHalo(j, 2) <= j.shape[2]
    BY HaloAxes
  <2>3. j.shape[2] \in Nat \ {0} /\ j.shape[3] \in Nat \ {0}
    BY HaloTypes
  <2> QED BY <2>1, <2>2, <2>3
<1>2. PICK z \in Nat, y \in 0 .. n - 1 :
         k = z * n + y /\ RowStart(j, k) = (d3 + z) * (h * w) + (d2 + y) * w + d1
  BY <1>1, RowPlace
<1>3. PICK x \in Nat, v \in 0 .. n - 1 :
         l = x * n + v /\ RowStart(j, l) = (d3 + x) * (h * w) + (d2 + v) * w + d1
  BY <1>1, RowPlace
<1>4. PICK f \in Nat, s \in Nat, t \in Nat, p \in Nat, q \in Nat :
         /\ f = h * w /\ s = (d3 + z) * f /\ t = (d3 + x) * f
         /\ p = (d2 + y) * w /\ q = (d2 + v) * w
  <2>1. h * w \in Nat
    BY <1>1
  <2>2. (d3 + z) * (h * w) \in Nat /\ (d3 + x) * (h * w) \in Nat
    BY <1>1, <1>2, <1>3, <2>1
  <2>3. (d2 + y) * w \in Nat /\ (d2 + v) * w \in Nat
    BY <1>1, <1>2, <1>3
  <2> QED BY <2>1, <2>2, <2>3
<1>5. RowStart(j, k) = s + p + d1 /\ RowStart(j, l) = t + q + d1
  BY <1>2, <1>3, <1>4
<1>6. z <= x
  <2>1. SUFFICES ASSUME x + 1 <= z PROVE FALSE
    BY <1>2, <1>3
  <2>2. PICK c \in Nat : c = x + 1
    BY <1>3
  <2>3. c * n <= z * n /\ c * n = x * n + n
    BY <1>1, <1>2, <1>3, <2>1, <2>2, TimesUp
  <2>4. x * n \in Nat /\ z * n \in Nat
    BY <1>1, <1>2, <1>3
  <2> QED BY <1>2, <1>3, <2>3, <2>4
<1>7. CASE z = x
  <2>1. y <= v
    <3>1. PICK c \in Nat : c = z * n
      BY <1>1, <1>2
    <3> QED BY <1>2, <1>3, <1>7, <3>1
  <2>2. p <= q
    <3>1. PICK a \in Nat, b \in Nat : a = d2 + y /\ b = d2 + v /\ a <= b
      BY <1>1, <1>2, <1>3, <2>1
    <3> QED BY <1>1, <1>4, <3>1, TimesUp
  <2>3. s = t
    BY <1>4, <1>7
  <2> QED BY <1>1, <1>4, <1>5, <2>2, <2>3
<1>8. CASE z # x
  <2>1. s + f <= t
    <3>1. PICK a \in Nat, b \in Nat, c \in Nat : a = d3 + z /\ c = a + 1 /\ b = d3 + x /\ c <= b
      BY <1>1, <1>2, <1>3, <1>6, <1>8
    <3>2. c * f <= b * f /\ (a + 1) * f = a * f + f
      BY <1>4, <3>1, TimesUp
    <3> QED BY <1>4, <3>1, <3>2
  <2>2. p <= q + f
    <3>1. PICK a \in Nat, b \in Nat : a = d2 + y /\ b = d2 + v + h /\ a <= b
      BY <1>1, <1>2, <1>3
    <3>2. a * w <= b * w
      BY <1>1, <3>1, TimesUp
    <3>3. (d2 + v + h) * w = (d2 + v) * w + h * w
      BY <1>1, <1>3
    <3> QED BY <1>4, <3>1, <3>2, <3>3
  <2> QED BY <1>1, <1>4, <1>5, <2>1, <2>2
<1> QED BY <1>7, <1>8

\* A set of the first numbers is known by its size.
LEMMA FirstOnes ==
    ASSUME NEW n \in Nat, NEW S, S \subseteq 0 .. n - 1,
           \A x \in S : \A y \in 0 .. n - 1 : y <= x => y \in S
    PROVE  Cardinality(S) \in Nat /\ Cardinality(S) <= n /\ S = 0 .. Cardinality(S) - 1
<1>1. CASE S = {}
  <2>1. Cardinality(S) = 0
    BY <1>1, FS_EmptySet
  <2>2. 0 .. 0 - 1 = {}
    OBVIOUS
  <2> QED BY <1>1, <2>1, <2>2
<1>2. CASE S # {}
  <2>1. S \subseteq 0 .. n
    OBVIOUS
  <2>2. PICK x \in S : \A y \in S : x >= y
    BY <1>2, <2>1, NatMax
  <2>3. x \in 0 .. n - 1
    BY <2>2
  <2>4. S = 0 .. x
    <3>1. \A y \in 0 .. x : y \in 0 .. n - 1 /\ y <= x
      BY <2>3
    <3>2. \A y \in S : y \in 0 .. x
      BY <2>2, <2>3
    <3> QED BY <3>1, <3>2
  <2>5. 0 \in Int /\ x \in Int
    BY <2>3
  <2>6. Cardinality(0 .. x) = IF 0 > x THEN 0 ELSE x - 0 + 1
    BY <2>5, FS_Interval
  <2>7. Cardinality(S) = x + 1
    BY <2>3, <2>4, <2>6
  <2> QED BY <2>3, <2>4, <2>7
<1> QED BY <1>1, <1>2

LEMMA LenIs ==
    ASSUME NEW s, NEW n \in Nat, s = [k \in 1 .. n |-> s[k]]
    PROVE  Len(s) = n
<1>1. DOMAIN s = 1 .. n
  OBVIOUS
<1>2. s \in Seq({s[k] : k \in 1 .. n})
  OBVIOUS
<1>3. Len(s) \in Nat /\ DOMAIN s = 1 .. Len(s)
  BY <1>2
<1>4. \A m \in Nat : 1 .. m = 1 .. n => m = n
  <2>1. SUFFICES ASSUME NEW m \in Nat, 1 .. m = 1 .. n PROVE m = n
    OBVIOUS
  <2>2. m <= n
    <3>1. m > 0 => m \in 1 .. m
      OBVIOUS
    <3> QED BY <2>1, <3>1
  <2>3. n <= m
    <3>1. n > 0 => n \in 1 .. n
      OBVIOUS
    <3> QED BY <2>1, <3>1
  <2> QED BY <2>2, <2>3
<1> QED BY <1>1, <1>3, <1>4

\* One row, where the formula of the code gives one or none.
LEMMA OneOffset ==
    ASSUME NEW j \in WithHalo, OffsetsRequired(j) <= 1
    PROVE  Len(Offsets(j)) = 1 /\ Offsets(j)[1] = NonHaloBegin(j, 1)
BY DEF Offsets

\* Otherwise the rows that start inside of the volume.
LEMMA ManyOffsets ==
    ASSUME NEW j \in WithHalo, OffsetsRequired(j) > 1
    PROVE  /\ Len(Offsets(j)) \in Nat
           /\ Len(Offsets(j)) <= RowCount(j)
           /\ \A k \in 0 .. Len(Offsets(j)) - 1 :
                 /\ k \in 0 .. RowCount(j) - 1
                 /\ Offsets(j)[k + 1] = RowStart(j, k) /\ RowStart(j, k) < Size(j)
           /\ (\A k \in 0 .. RowCount(j) - 1 : RowStart(j, k) < Size(j)) =>
                 Len(Offsets(j)) = RowCount(j)
<1> DEFINE S == {r \in 0 .. RowCount(j) - 1 : RowStart(j, r) < Size(j)}
<1>1. NonHalo(j, 2) \in Int /\ NonHalo(j, 3) \in Int /\ OffsetsRequired(j) \in Int
  BY HaloAxes
<1>2. RowCount(j) \in Nat
  <2>1. CASE NonHalo(j, 2) > 0 /\ NonHalo(j, 3) > 0
    <3>1. NonHalo(j, 2) * NonHalo(j, 3) \in Nat
      BY <1>1, <2>1
    <3> QED BY <2>1, <3>1 DEF RowCount
  <2>2. CASE ~(NonHalo(j, 2) > 0 /\ NonHalo(j, 3) > 0)
    BY <2>2 DEF RowCount
  <2> QED BY <2>1, <2>2
<1>3. PICK n \in Nat : n = RowCount(j)
  BY <1>2
<1>4. \A x \in S : \A y \in 0 .. n - 1 : y <= x => y \in S
  <2>1. SUFFICES ASSUME NEW x \in 0 .. n - 1, RowStart(j, x) < Size(j), NEW y \in 0 .. n - 1, y <= x
                 PROVE  RowStart(j, y) < Size(j)
    BY <1>3
  <2>2. RowStart(j, y) \in Nat /\ RowStart(j, x) \in Nat /\ RowStart(j, y) <= RowStart(j, x)
    BY <1>3, <2>1, RowsRise
  <2>3. Size(j) \in Nat
    BY HaloTypes
  <2> QED BY <2>1, <2>2, <2>3
<1>5. S \subseteq 0 .. n - 1
  BY <1>3
<1>6. PICK m \in Nat : m = Cardinality(S) /\ m <= n /\ S = 0 .. m - 1
  <2> HIDE DEF S
  <2> QED BY <1>4, <1>5, FirstOnes
<1>7. Offsets(j) = [k \in 1 .. m |-> RowStart(j, k - 1)]
  BY <1>1, <1>6 DEF Offsets
<1>8. Len(Offsets(j)) = m
  <2>1. PICK s : s = Offsets(j)
    OBVIOUS
  <2>2. s = [k \in 1 .. m |-> s[k]]
    BY <1>7, <2>1
  <2> QED BY <2>1, <2>2, LenIs
<1>9. ASSUME NEW k \in 0 .. m - 1
      PROVE  /\ k \in 0 .. n - 1
             /\ Offsets(j)[k + 1] = RowStart(j, k) /\ RowStart(j, k) < Size(j)
  <2>1. k \in S
    BY <1>6
  <2>2. PICK l \in 1 .. m : l = k + 1 /\ k = l - 1
    <3>1. m \in Nat
      BY <1>6
    <3>2. k + 1 \in 1 .. m /\ k = (k + 1) - 1
      BY ONLY <3>1, k \in 0 .. m - 1
    <3> QED BY <3>2
  <2>3. Offsets(j)[l] = RowStart(j, l - 1)
    BY <1>7
  <2> QED BY <1>3, <2>1, <2>2, <2>3
<1>10. ASSUME \A k \in 0 .. n - 1 : RowStart(j, k) < Size(j) PROVE m = n
  <2>1. S = 0 .. n - 1
    BY <1>3, <1>10
  <2>2. 0 \in Int /\ n - 1 \in Int
    BY <1>3
  <2>3. Cardinality(0 .. n - 1) = IF 0 > n - 1 THEN 0 ELSE (n - 1) - 0 + 1
    BY <2>2, FS_Interval
  <2>4. m = Cardinality(0 .. n - 1) /\ m \in Nat
    BY <1>6, <2>1
  <2> QED BY ONLY n \in Nat, <2>3, <2>4
<1> QED BY ONLY <1>3, <1>6, <1>8, <1>9, <1>10

LEMMA OffsetTypes ==
    ASSUME NEW j \in WithHalo
    PROVE  /\ Len(Offsets(j)) \in Nat
           /\ \A k \in 0 .. Len(Offsets(j)) - 1 : Offsets(j)[k + 1] \in Nat
           /\ \A k, l \in 0 .. Len(Offsets(j)) - 1 : k <= l => Offsets(j)[k + 1] <= Offsets(j)[l + 1]
           /\ HaloSize(j) \in Nat
<1>1. OffsetsRequired(j) \in Int /\ NonHaloBegin(j, 1) \in Nat
  BY HaloAxes
<1>2. /\ Len(Offsets(j)) \in Nat
      /\ \A k \in 0 .. Len(Offsets(j)) - 1 : Offsets(j)[k + 1] \in Nat
      /\ \A k, l \in 0 .. Len(Offsets(j)) - 1 : k <= l => Offsets(j)[k + 1] <= Offsets(j)[l + 1]
  <2>1. CASE OffsetsRequired(j) <= 1
    <3>1. Len(Offsets(j)) = 1 /\ Offsets(j)[1] \in Nat
      BY <1>1, <2>1, OneOffset
    <3>2. \A k \in 0 .. 1 - 1 : k = 0 /\ k + 1 = 1
      OBVIOUS
    <3> QED BY <3>1, <3>2
  <2>2. CASE OffsetsRequired(j) > 1
    <3>1. PICK m \in Nat : m = Len(Offsets(j))
      BY <2>2, ManyOffsets
    <3>2. \A k \in 0 .. m - 1 : k \in 0 .. RowCount(j) - 1 /\ Offsets(j)[k + 1] = RowStart(j, k)
      BY <2>2, <3>1, ManyOffsets
    <3>3. ASSUME NEW k \in 0 .. m - 1, NEW l \in 0 .. m - 1, k <= l
          PROVE  Offsets(j)[k + 1] \in Nat /\ Offsets(j)[k + 1] <= Offsets(j)[l + 1]
      <4>1. k \in 0 .. RowCount(j) - 1 /\ l \in 0 .. RowCount(j) - 1
        BY <3>2
      <4>2. RowStart(j, k) \in Nat /\ RowStart(j, k) <= RowStart(j, l)
        BY <3>3, <4>1, RowsRise
      <4> QED BY <3>2, <4>2
    <3>4. \A k \in 0 .. m - 1 : k <= k
      BY <3>1
    <3> QED BY <3>1, <3>3, <3>4
  <2> QED BY <1>1, <2>1, <2>2
<1>3. HaloSize(j) \in Nat
  <2>1. Size(j) \in Nat /\ NonHalo(j, 1) \in Int /\ NonHalo(j, 3) \in Int
    BY HaloAxes, HaloTypes
  <2>2. Len(Offsets(j)) = 1 => Offsets(j)[1] \in Nat
    <3>1. Len(Offsets(j)) = 1 => 0 \in 0 .. Len(Offsets(j)) - 1 /\ 0 + 1 = 1
      OBVIOUS
    <3> QED BY <1>2, <3>1
  <2> DEFINE length == IF Len(Offsets(j)) = 1 THEN Size(j) - Offsets(j)[1]
                       ELSE IF j.scheme = "diff" THEN NonHalo(j, 1) ELSE NonHalo(j, 3) + 1
  <2>3. length \in Int
    BY <2>1, <2>2
  <2>4. HaloSize(j) = IF length < 0 THEN Size(j) + 1 ELSE length
    BY DEF HaloSize
  <2> HIDE DEF length
  <2> QED BY <2>1, <2>3, <2>4
<1> QED BY <1>2, <1>3
-----------------------------------------------------------------------------
(* Neighbours *)

\* A coordinate is cut, and then less than it should be, or it is right.
LEMMA CoordinateIs ==
    ASSUME NEW v \in Nat
    PROVE  /\ Coordinate(v) \in Int /\ Coordinate(v) <= v
           /\ v < 2 ^ (Width - 1) => Coordinate(v) = v
<1>1. PICK g \in Nat, m \in Nat \ {0} : g = 2 ^ (Width - 1) /\ m = 2 ^ Width /\ m = 2 * g
  <2>1. PICK n \in Nat : n = Width - 1 /\ Width = n + 1
    <3>1. Width - 1 \in Nat /\ Width = (Width - 1) + 1
      BY Widths
    <3> QED BY <3>1
  <2> QED BY <2>1, PowerNext, PowerType
<1>2. PICK a \in Nat : a = v + g
  BY <1>1
<1>3. Coordinate(v) = (a % m) - g
  BY <1>1, <1>2 DEF Coordinate
<1>4. a % m \in 0 .. m - 1 /\ a % m <= a
  <2>1. PICK q \in Nat, r \in 0 .. m - 1 : q = a \div m /\ r = a % m /\ a = q * m + r
    BY DivSplit
  <2>2. q * m \in Nat
    BY ONLY q \in Nat, m \in Nat
  <2> QED BY <2>1, <2>2
<1>5. a < m => a % m = a
  <2>1. ASSUME a < m PROVE a % m = a
    <3>1. PICK z \in Nat : z = 0 /\ a = z * m + a
      BY <1>1
    <3> QED BY <2>1, <3>1, DivIs
  <2> QED BY <2>1
<1>6. PICK r \in 0 .. m - 1 : r = a % m /\ r <= a /\ (a < m => r = a)
  BY <1>4, <1>5
<1> QED BY ONLY v \in Nat, g \in Nat, m \in Nat, <1>1, <1>2, <1>3, <1>6

LEMMA CentreIs ==
    ASSUME NEW j \in WithHalo, NEW c \in Nat
    PROVE  /\ Centre(j, c) \in Int /\ Centre(j, c) <= c
           /\ j.scheme = "rmbkrd_neighbor" => Centre(j, c) = c
           /\ c < Size(j) /\ (\A a \in 1 .. 3 : j.shape[a] <= 2 ^ (Width - 1)) =>
                  Centre(j, c) = c
<1>1. PICK d \in Nat \ {0}, h \in Nat \ {0}, w \in Nat \ {0}, f \in Nat \ {0} :
         d = j.shape[1] /\ h = j.shape[2] /\ w = j.shape[3] /\ f = h * w
  <2>1. PICK h \in Nat \ {0}, w \in Nat \ {0} : h = j.shape[2] /\ w = j.shape[3]
    BY HaloTypes
  <2>2. h * w \in Nat \ {0}
    BY ONLY h \in Nat \ {0}, w \in Nat \ {0}
  <2> QED BY <2>1, <2>2, HaloTypes
<1>2. CASE j.scheme # "diff"
  BY <1>2, HaloTypes DEF Centre
<1>3. CASE j.scheme = "diff"
  <2>1. PICK q \in Nat, r \in 0 .. f - 1 : q = c \div f /\ c = q * f + r
    BY ONLY c \in Nat, f \in Nat \ {0}, DivSplit
  <2>2. PICK z \in Int : z = Coordinate(q) /\ z <= q
    BY CoordinateIs
  <2>3. PICK x \in Nat : x = c - z * f
    <3>1. PICK e \in Nat : q = z + e
      <4>1. q - z \in Nat /\ q = z + (q - z)
        BY <2>1, <2>2
      <4> QED BY <4>1
    <3>2. (z + e) * f = z * f + e * f /\ e * f \in Nat /\ z * f \in Int
      BY <1>1, <2>2, <3>1
    <3>3. c - z * f = e * f + r
      BY <2>1, <3>1, <3>2
    <3>4. e * f + r \in Nat
      BY <2>1, <3>2
    <3> QED BY <3>3, <3>4
  <2>4. PICK p \in Nat, s \in 0 .. w - 1 : p = x \div w /\ x = p * w + s
    BY ONLY x \in Nat, w \in Nat \ {0}, DivSplit
  <2>5. PICK y \in Int : y = Coordinate(p) /\ y <= p
    BY CoordinateIs
  <2>6. PICK v \in Nat : v = x - y * w
    <3>1. PICK e \in Nat : p = y + e
      <4>1. p - y \in Nat /\ p = y + (p - y)
        BY <2>4, <2>5
      <4> QED BY <4>1
    <3>2. (y + e) * w = y * w + e * w /\ e * w \in Nat /\ y * w \in Int
      BY <1>1, <2>5, <3>1
    <3>3. x - y * w = e * w + s
      BY <2>4, <3>1, <3>2
    <3>4. e * w + s \in Nat
      BY <2>4, <3>2
    <3> QED BY <3>3, <3>4
  <2>7. PICK u \in Int : u = Coordinate(v) /\ u <= v
    BY CoordinateIs
  <2>8. PICK k \in Int, l \in Int : k = z * f /\ l = y * w
    BY <1>1, <2>2, <2>5
  <2>9. Centre(j, c) = k + l + u
    BY <1>1, <1>3, <2>1, <2>2, <2>3, <2>4, <2>5, <2>6, <2>7, <2>8 DEF Centre
  <2>10. Centre(j, c) \in Int /\ Centre(j, c) <= c
    BY <2>3, <2>6, <2>7, <2>8, <2>9
  <2>11. ASSUME c < Size(j), \A a \in 1 .. 3 : j.shape[a] <= 2 ^ (Width - 1)
         PROVE  Centre(j, c) = c
    <3>1. PICK g \in Nat : g = 2 ^ (Width - 1) /\ d <= g /\ h <= g /\ w <= g
      <4>1. 2 ^ (Width - 1) \in Nat
        <5>1. Width - 1 \in Nat
          BY Widths
        <5> QED BY <5>1, PowerType
      <4>2. j.shape[1] <= 2 ^ (Width - 1) /\ j.shape[2] <= 2 ^ (Width - 1) /\ j.shape[3] <= 2 ^ (Width - 1)
        BY <2>11
      <4> QED BY <1>1, <4>1, <4>2
    <3>2. c < d * f
      <4>1. d * h * w = d * (h * w)
        BY <1>1
      <4> QED BY <1>1, <2>11, <4>1 DEF Size
    <3>3. q < d
      <4>1. SUFFICES ASSUME d <= q PROVE FALSE
        BY <1>1, <2>1
      <4>2. d * f \in Nat /\ q * f \in Nat /\ d * f <= q * f
        BY <1>1, <2>1, <4>1, TimesUp
      <4> QED BY <2>1, <3>2, <4>2
    <3>4. z = q
      BY <2>1, <2>2, <3>1, <3>3, CoordinateIs
    <3>5. x < h * w
      <4>1. q * f \in Nat
        BY ONLY q \in Nat, f \in Nat
      <4>2. x = c - q * f
        BY <2>3, <3>4
      <4>3. x = r
        BY ONLY <2>1, <4>1, <4>2, r \in 0 .. f - 1, f \in Nat
      <4> QED BY ONLY <1>1, <4>3, r \in 0 .. f - 1, f \in Nat
    <3>6. p < h
      <4>1. SUFFICES ASSUME h <= p PROVE FALSE
        BY <1>1, <2>4
      <4>2. h * w \in Nat /\ p * w \in Nat /\ h * w <= p * w
        BY <1>1, <2>4, <4>1, TimesUp
      <4> QED BY <2>4, <3>5, <4>2
    <3>7. y = p
      BY <2>4, <2>5, <3>1, <3>6, CoordinateIs
    <3>8. v < w
      <4>1. p * w \in Nat
        BY ONLY p \in Nat, w \in Nat
      <4>2. v = x - p * w
        BY <2>6, <3>7
      <4>3. v = s
        BY ONLY <2>4, <4>1, <4>2, s \in 0 .. w - 1, w \in Nat
      <4> QED BY ONLY <4>3, s \in 0 .. w - 1, w \in Nat
    <3>9. u = v
      BY <2>6, <2>7, <3>1, <3>8, CoordinateIs
    <3> QED BY <2>3, <2>6, <2>8, <2>9, <3>9
  <2> QED BY <1>3, <2>10, <2>11
<1> QED BY <1>2, <1>3

LEMMA NeighbourIs ==
    ASSUME NEW j \in WithHalo, NEW c \in Nat
    PROVE  LET nb == Neighborhood(j)
               at == Neighbours(j, c)
           IN  \A q \in DOMAIN at : \E z, y, x \in Int :
                  /\ nb.begin[3] <= z /\ z < nb.end[3]
                  /\ nb.begin[2] <= y /\ y < nb.end[2]
                  /\ nb.begin[1] <= x /\ x < nb.end[1]
                  /\ at[q] = Centre(j, c) + z * (j.shape[2] * j.shape[3]) + y * j.shape[3] + x
<1> DEFINE nb == Neighborhood(j)
           On(a) == nb.begin[a] .. nb.end[a] - 1
<1>1. \A a \in 1 .. 3 : nb.begin[a] \in Int /\ nb.end[a] \in Int
  <2>1. PICK a \in Nat, e \in Nat \ {0} : a = Half /\ e = Half + (Extent % 2)
    BY Halves
  <2>2. nb = [begin |-> <<-a, -a, -1>>, end |-> <<a + 1, a + 1, 0>>]
        \/ nb = [begin |-> <<-a, -a, -a>>, end |-> [x \in 1 .. 3 |-> e]]
    BY <2>1 DEF Neighborhood, LastPlane, Cube, Half
  <2> QED BY <2>1, <2>2
<1>2. /\ DOMAIN Neighbours(j, c) = On(3) \X On(2) \X On(1)
      /\ \A q \in On(3) \X On(2) \X On(1) :
            Neighbours(j, c)[q] = Centre(j, c) + q[1] * j.shape[2] * j.shape[3]
                                               + q[2] * j.shape[3] + q[3]
  BY DEF Neighbours
<1>3. SUFFICES ASSUME NEW q \in On(3) \X On(2) \X On(1)
               PROVE  \E z, y, x \in Int :
                  /\ nb.begin[3] <= z /\ z < nb.end[3]
                  /\ nb.begin[2] <= y /\ y < nb.end[2]
                  /\ nb.begin[1] <= x /\ x < nb.end[1]
                  /\ Neighbours(j, c)[q] = Centre(j, c) + z * (j.shape[2] * j.shape[3])
                                                        + y * j.shape[3] + x
  BY <1>2
<1>4. q[1] \in On(3) /\ q[2] \in On(2) /\ q[3] \in On(1)
  OBVIOUS
<1>5. PICK z \in Int, y \in Int, x \in Int : z = q[1] /\ y = q[2] /\ x = q[3]
  BY <1>1, <1>4
<1>6. /\ nb.begin[3] <= z /\ z < nb.end[3] /\ nb.begin[2] <= y /\ y < nb.end[2]
      /\ nb.begin[1] <= x /\ x < nb.end[1]
  BY <1>1, <1>4, <1>5
<1>7. Neighbours(j, c)[q] = Centre(j, c) + z * j.shape[2] * j.shape[3] + y * j.shape[3] + x
  BY <1>2, <1>5
<1>8. z * j.shape[2] * j.shape[3] = z * (j.shape[2] * j.shape[3])
  <2>1. PICK h \in Nat, w \in Nat : h = j.shape[2] /\ w = j.shape[3]
    BY HaloTypes
  <2>2. z * h * w = z * (h * w)
    BY ONLY z \in Int, h \in Nat, w \in Nat
  <2> QED BY <2>1, <2>2
<1> QED BY <1>6, <1>7, <1>8

LEMMA TimesOrderInt ==
    ASSUME NEW a \in Int, NEW b \in Int, a <= b, NEW m \in Nat
    PROVE  a * m \in Int /\ b * m \in Int /\ a * m <= b * m
<1>1. PICK d \in Nat : b = a + d
  <2>1. b - a \in Nat /\ b = a + (b - a)
    OBVIOUS
  <2> QED BY <2>1
<1>2. (a + d) * m = a * m + d * m /\ d * m \in Nat /\ a * m \in Int
  OBVIOUS
<1> QED BY <1>1, <1>2

LEMMA DiffNeighbours ==
    ASSUME NEW j \in WithHalo, j.scheme = "diff", NEW c \in Nat,
           NEW q \in DOMAIN Neighbours(j, c),
           NEW w \in Nat \ {0}, w = j.shape[3], NEW f \in Nat, f = j.shape[2] * w
    PROVE  /\ Neighbours(j, c)[q] \in Int
           /\ Centre(j, c) - f - Half * w - Half <= Neighbours(j, c)[q]
           /\ Neighbours(j, c)[q] <= Centre(j, c) - f + Half * w + Half
<1>1. PICK a \in Nat, o \in Nat, e \in Int : a = Half /\ o = 1 /\ e = Centre(j, c)
  BY Halves, CentreIs
<1>2. Neighborhood(j) = [begin |-> <<-a, -a, -o>>, end |-> <<a + 1, a + 1, 0>>]
  BY <1>1 DEF Neighborhood, LastPlane, Half
<1>3. PICK z \in Int, y \in Int, x \in Int :
         /\ -o <= z /\ z < 0 /\ -a <= y /\ y < a + 1 /\ -a <= x /\ x < a + 1
         /\ Neighbours(j, c)[q] = e + z * f + y * w + x
  <2>1. PICK nb : nb = Neighborhood(j)
    OBVIOUS
  <2>2. /\ nb.begin[1] = -a /\ nb.begin[2] = -a /\ nb.begin[3] = -o
        /\ nb.end[1] = a + 1 /\ nb.end[2] = a + 1 /\ nb.end[3] = 0
    BY <1>2, <2>1
  <2>3. PICK z \in Int, y \in Int, x \in Int :
           /\ nb.begin[3] <= z /\ z < nb.end[3] /\ nb.begin[2] <= y /\ y < nb.end[2]
           /\ nb.begin[1] <= x /\ x < nb.end[1]
           /\ Neighbours(j, c)[q] = Centre(j, c) + z * (j.shape[2] * j.shape[3]) + y * j.shape[3] + x
    BY <2>1, NeighbourIs, Zenon
  <2> QED BY <1>1, <2>2, <2>3
<1>4. z * f = -f
  <2>1. z + 1 = 0
    BY <1>1, <1>3
  <2>2. (z + 1) * f = z * f + f /\ 0 * f = 0 /\ z * f \in Int
    BY ONLY z \in Int, f \in Nat
  <2> QED BY ONLY <2>1, <2>2, f \in Nat, z \in Int
<1>5. PICK b \in Nat, n \in Int : b = a * w /\ n = y * w /\ -b <= n /\ n <= b
  <2>1. y <= a /\ -y <= a /\ a \in Int /\ -y \in Int
    BY <1>1, <1>3
  <2>2. y * w \in Int /\ y * w <= a * w /\ (-y) * w <= a * w /\ (-y) * w \in Int /\ a * w \in Nat
    BY ONLY <2>1, y \in Int, a \in Nat, w \in Nat \ {0}, TimesOrderInt
  <2>3. y * w + (-y) * w = 0
    BY ONLY y \in Int, w \in Nat \ {0}
  <2> QED BY ONLY <2>2, <2>3
<1>6. -a <= x /\ x <= a
  BY <1>3
<1> QED BY ONLY <1>1, <1>3, <1>4, <1>5, <1>6, f \in Nat, a \in Nat, e \in Int, x \in Int, b \in Nat, n \in Int

LEMMA CubeNeighbours ==
    ASSUME NEW j \in WithHalo, j.scheme = "rmbkrd_neighbor", NEW c \in Nat,
           NEW q \in DOMAIN Neighbours(j, c),
           NEW w \in Nat \ {0}, w = j.shape[3], NEW f \in Nat, f = j.shape[2] * w,
           NEW e \in Nat, e + 1 = Half + (Extent % 2)
    PROVE  /\ Neighbours(j, c)[q] \in Int
           /\ c - Half * f - Half * w - Half <= Neighbours(j, c)[q]
           /\ Neighbours(j, c)[q] <= c + e * f + e * w + e
<1>1. PICK a \in Nat : a = Half
  BY Halves
<1>2. Neighborhood(j) = [begin |-> <<-a, -a, -a>>, end |-> [x \in 1 .. 3 |-> e + 1]]
  BY <1>1 DEF Neighborhood, Cube, Half
<1>3. PICK z \in Int, y \in Int, x \in Int :
         /\ -a <= z /\ z < e + 1 /\ -a <= y /\ y < e + 1 /\ -a <= x /\ x < e + 1
         /\ Neighbours(j, c)[q] = c + z * f + y * w + x
  <2>1. PICK nb : nb = Neighborhood(j)
    OBVIOUS
  <2>2. /\ nb.begin[1] = -a /\ nb.begin[2] = -a /\ nb.begin[3] = -a
        /\ nb.end[1] = e + 1 /\ nb.end[2] = e + 1 /\ nb.end[3] = e + 1
    BY <1>2, <2>1
  <2>3. PICK z \in Int, y \in Int, x \in Int :
           /\ nb.begin[3] <= z /\ z < nb.end[3] /\ nb.begin[2] <= y /\ y < nb.end[2]
           /\ nb.begin[1] <= x /\ x < nb.end[1]
           /\ Neighbours(j, c)[q] = Centre(j, c) + z * (j.shape[2] * j.shape[3]) + y * j.shape[3] + x
    BY <2>1, NeighbourIs, Zenon
  <2>4. Centre(j, c) = c
    BY CentreIs
  <2> QED BY <2>2, <2>3, <2>4
<1>4. ASSUME NEW v \in Int, -a <= v, v < e + 1, NEW m \in Nat
      PROVE  v * m \in Int /\ -(a * m) <= v * m /\ v * m <= e * m
  <2>1. v <= e /\ -v <= a /\ a \in Int /\ -v \in Int /\ e \in Int
    BY <1>4
  <2>2. /\ v * m \in Int /\ v * m <= e * m /\ (-v) * m <= a * m /\ (-v) * m \in Int
        /\ a * m \in Int /\ e * m \in Int
    BY ONLY <2>1, v \in Int, m \in Nat, TimesOrderInt
  <2>3. v * m + (-v) * m = 0
    BY ONLY v \in Int, m \in Nat
  <2> QED BY ONLY <2>2, <2>3
<1>5. PICK zf \in Int, yw \in Int, af \in Nat, aw \in Nat, ef \in Nat, ew \in Nat :
         /\ zf = z * f /\ yw = y * w /\ af = a * f /\ aw = a * w /\ ef = e * f /\ ew = e * w
         /\ -af <= zf /\ zf <= ef /\ -aw <= yw /\ yw <= ew
  <2>1. a * f \in Nat /\ a * w \in Nat /\ e * f \in Nat /\ e * w \in Nat
    BY ONLY a \in Nat, f \in Nat, w \in Nat \ {0}, e \in Nat
  <2>2. w \in Nat
    OBVIOUS
  <2> QED BY ONLY <1>3, <1>4, <2>1, <2>2, f \in Nat
<1>6. -a <= x /\ x <= e
  BY <1>3
<1>7. Neighbours(j, c)[q] = c + zf + yw + x
  BY <1>3, <1>5
<1>8. Half * f = af /\ Half * w = aw
  BY <1>1, <1>5
<1> QED BY ONLY <1>1, <1>5, <1>6, <1>7, <1>8, c \in Nat, e \in Nat, x \in Int
-----------------------------------------------------------------------------
(* What the rows and the neighbourhoods stay within *)

LEMMA DiffInside ==
    ASSUME NEW j \in WithHalo, j.scheme = "diff", Roomy(j),
           NEW k \in 0 .. Len(Offsets(j)) - 1, NEW u \in 0 .. HaloSize(j) - 1,
           NEW c, c = Offsets(j)[k + 1] + u
    PROVE  /\ c \in Items(j)
           /\ \A q \in DOMAIN Neighbours(j, c) : Neighbours(j, c)[q] \in Items(j)
<1>0. /\ OffsetsRequired(j) > 1 /\ NonHalo(j, 1) >= 0
      /\ \A x \in 1 .. 3 : j.shape[x] <= 2 ^ (Width - 1)
  BY DEF Roomy
<1>1. PICK d \in Nat \ {0}, h \in Nat \ {0}, w \in Nat \ {0}, f \in Nat \ {0}, a \in Nat :
         d = j.shape[1] /\ h = j.shape[2] /\ w = j.shape[3] /\ f = h * w /\ a = Half
  <2>1. PICK h \in Nat \ {0}, w \in Nat \ {0} : h = j.shape[2] /\ w = j.shape[3]
    BY HaloTypes
  <2>2. h * w \in Nat \ {0}
    BY ONLY h \in Nat \ {0}, w \in Nat \ {0}
  <2>3. j.shape[1] \in Nat \ {0}
    BY HaloTypes
  <2>4. Half \in Nat
    BY Halves
  <2> QED BY ONLY <2>1, <2>2, <2>3, <2>4
<1>2. PICK s \in Nat : s = Size(j) /\ s = d * f
  <2>1. d * h * w = d * (h * w)
    BY ONLY d \in Nat, h \in Nat, w \in Nat
  <2> QED BY <1>1, <2>1, HaloTypes DEF Size
<1>3. k \in 0 .. RowCount(j) - 1 /\ Offsets(j)[k + 1] = RowStart(j, k) /\ RowStart(j, k) < Size(j)
  BY <1>0, ManyOffsets
<1>4. PICK z \in Nat, y \in Nat :
         /\ z + 1 < w /\ y < h - 2 * a
         /\ RowStart(j, k) = (1 + z) * f + (a + y) * w + a
  <2>1. /\ NonHaloBegin(j, 1) = a /\ NonHaloBegin(j, 2) = a /\ NonHaloBegin(j, 3) = 1
        /\ NonHalo(j, 2) = h - 2 * a /\ NonHalo(j, 3) = w - 1
    BY <1>1, DiffAxes
  <2>2. PICK z \in 0 .. NonHalo(j, 3) - 1, y \in 0 .. NonHalo(j, 2) - 1 :
           RowStart(j, k) = (NonHaloBegin(j, 3) + z) * (j.shape[2] * j.shape[3])
                               + (NonHaloBegin(j, 2) + y) * j.shape[3] + NonHaloBegin(j, 1)
    BY <1>3, RowPlace
  <2>3. z \in Nat /\ y \in Nat /\ z + 1 < w /\ y < h - 2 * a
    BY ONLY <2>1, z \in 0 .. NonHalo(j, 3) - 1, y \in 0 .. NonHalo(j, 2) - 1, w \in Nat, h \in Nat, a \in Nat
  <2> QED BY ONLY <1>1, <2>1, <2>2, <2>3
<1>5. PICK Z \in Nat, Y \in Nat : Z = 1 + z /\ Y = a + y
  BY <1>1, <1>4
<1>6. PICK zf \in Nat, yw \in Nat, aw \in Nat : zf = Z * f /\ yw = Y * w /\ aw = a * w
  <2>1. Z * f \in Nat /\ Y * w \in Nat /\ a * w \in Nat
    BY ONLY Z \in Nat, Y \in Nat, a \in Nat, w \in Nat \ {0}, f \in Nat \ {0}
  <2> QED BY <2>1
<1>7. c = zf + yw + a + u /\ zf + yw + a < s
  BY <1>2, <1>3, <1>4, <1>5, <1>6
<1>8. u \in Nat
  OBVIOUS
<1>9. c \in Nat
  BY ONLY <1>7, <1>8, zf \in Nat, yw \in Nat, a \in Nat
<1>10. f + aw + a <= c
  <2>1. 1 \in Nat /\ 1 <= Z /\ a <= Y /\ f \in Nat /\ w \in Nat
    BY ONLY <1>5, z \in Nat, y \in Nat, a \in Nat, f \in Nat \ {0}, w \in Nat \ {0}
  <2>2. 1 * f <= zf /\ 1 * f = f
    BY ONLY <1>6, <2>1, Z \in Nat, f \in Nat, TimesUp
  <2>3. aw <= yw
    BY ONLY <1>6, <2>1, a \in Nat, Y \in Nat, w \in Nat, TimesUp
  <2> QED BY ONLY <1>7, <1>8, <2>2, <2>3, zf \in Nat, yw \in Nat, a \in Nat, f \in Nat, aw \in Nat
<1>11. yw + aw + w <= f
  <2>1. PICK n \in Nat : n = Y + a + 1 /\ n <= h
    BY ONLY <1>4, <1>5, y \in Nat, a \in Nat, h \in Nat, Y \in Nat
  <2>2. n * w <= h * w
    BY ONLY <2>1, n \in Nat, h \in Nat, w \in Nat, TimesUp
  <2>3. (Y + a + 1) * w = Y * w + a * w + w
    BY ONLY Y \in Nat, a \in Nat, w \in Nat
  <2> QED BY ONLY <1>1, <1>6, <2>1, <2>2, <2>3
<1>12. c < s
  <2>1. CASE Len(Offsets(j)) = 1
    <3>1. k = 0
      BY <2>1
    <3>2. Offsets(j)[1] = zf + yw + a
      BY <1>3, <1>4, <1>5, <1>6, <3>1
    <3>3. HaloSize(j) = s - (zf + yw + a)
      <4>1. s - (zf + yw + a) >= 0 /\ s - (zf + yw + a) \in Int
        BY ONLY <1>7, s \in Nat, zf \in Nat, yw \in Nat, a \in Nat
      <4> QED BY <1>2, <2>1, <3>2, <4>1 DEF HaloSize
    <3>4. u < s - (zf + yw + a)
      BY ONLY <3>3, u \in 0 .. HaloSize(j) - 1, s \in Nat, zf \in Nat, yw \in Nat, a \in Nat
    <3> QED BY ONLY <1>7, <1>8, <3>4, s \in Nat, zf \in Nat, yw \in Nat, a \in Nat
  <2>2. CASE Len(Offsets(j)) # 1
    <3>1. NonHalo(j, 1) = d - 2 * a
      BY <1>1, DiffAxes
    <3>2. HaloSize(j) = d - 2 * a /\ d - 2 * a >= 0
      BY <1>0, <1>1, <2>2, <3>1 DEF HaloSize
    <3>3. u < d - 2 * a
      BY <1>1, <3>2
    <3>4. CASE w >= d
      <4>1. u + a < w
        BY ONLY <1>8, <3>3, <3>4, a \in Nat, d \in Nat, w \in Nat
      <4>2. c < zf + f
        BY ONLY <1>7, <1>8, <1>11, <4>1, zf \in Nat, yw \in Nat, a \in Nat, aw \in Nat, f \in Nat, w \in Nat
      <4>3. Z < d
        <5>1. SUFFICES ASSUME d <= Z PROVE FALSE
          OBVIOUS
        <5>2. d * f <= Z * f
          BY ONLY <5>1, d \in Nat, Z \in Nat, f \in Nat, TimesUp
        <5> QED BY ONLY <1>2, <1>6, <1>7, <5>2, s \in Nat, zf \in Nat, yw \in Nat, a \in Nat
      <4>4. PICK n \in Nat : n = Z + 1 /\ n <= d
        BY ONLY <4>3, Z \in Nat, d \in Nat
      <4>5. n * f <= d * f /\ (Z + 1) * f = Z * f + f
        BY ONLY <4>4, n \in Nat, Z \in Nat, d \in Nat, f \in Nat, TimesOrderInt, TimesUp
      <4> QED BY ONLY <1>2, <1>6, <1>9, <4>2, <4>4, <4>5, zf \in Nat, f \in Nat, s \in Nat
    <3>5. CASE w < d
      <4>1. PICK e \in Nat \ {0} : d = w + e
        <5>1. d - w \in Nat \ {0} /\ d = w + (d - w)
          BY ONLY <3>5, d \in Nat, w \in Nat
        <5> QED BY <5>1
      <4>2. PICK ef \in Nat : ef = e * f /\ e <= ef
        <5>1. 1 <= f /\ 1 \in Nat /\ e \in Nat /\ f \in Nat
          OBVIOUS
        <5>2. 1 * e <= f * e
          BY ONLY <5>1, TimesUp
        <5>3. 1 * e = e /\ f * e = e * f /\ e * f \in Nat
          BY ONLY <5>1
        <5> QED BY <5>2, <5>3
      <4>3. PICK wf \in Nat : wf = w * f
        <5>1. w * f \in Nat
          BY ONLY w \in Nat, f \in Nat
        <5> QED BY <5>1
      <4>4. s = wf + ef
        <5>1. (w + e) * f = w * f + e * f
          BY ONLY w \in Nat, f \in Nat, e \in Nat
        <5> QED BY ONLY <1>2, <4>1, <4>2, <4>3, <5>1
      <4>5. zf + f <= wf
        <5>1. PICK n \in Nat : n = Z + 1 /\ n <= w
          BY ONLY <1>4, <1>5, Z \in Nat, z \in Nat, w \in Nat
        <5>2. n * f <= w * f
          BY ONLY <5>1, n \in Nat, w \in Nat, f \in Nat, TimesUp
        <5>3. (Z + 1) * f = Z * f + f
          BY ONLY Z \in Nat, f \in Nat
        <5> QED BY ONLY <1>6, <4>3, <5>1, <5>2, <5>3
      <4> QED BY ONLY <1>7, <1>8, <1>11, <3>3, <4>1, <4>2, <4>4, <4>5, zf \in Nat, yw \in Nat, a \in Nat,
                      aw \in Nat, f \in Nat, w \in Nat, e \in Nat, ef \in Nat, wf \in Nat, d \in Nat
    <3> QED BY ONLY <3>4, <3>5, w \in Nat, d \in Nat
  <2> QED BY <2>1, <2>2
<1>13. c \in Items(j)
  BY ONLY <1>2, <1>9, <1>12, s \in Nat DEF Items
<1>14. Centre(j, c) = c
  BY <1>0, <1>2, <1>9, <1>12, CentreIs
<1>15. ASSUME NEW q \in DOMAIN Neighbours(j, c) PROVE Neighbours(j, c)[q] \in Items(j)
  <2>1. PICK v \in Int : v = Neighbours(j, c)[q] /\ c - f - Half * w - Half <= v
                         /\ v <= c - f + Half * w + Half
    BY <1>1, <1>9, <1>14, DiffNeighbours
  <2>2. c - f - aw - a <= v /\ v <= c - f + aw + a
    BY ONLY <1>1, <1>6, <2>1
  <2>3. a <= yw
    <3>1. a <= Y /\ 1 <= w /\ w \in Nat /\ 1 \in Nat
      BY ONLY <1>5, a \in Nat, y \in Nat, w \in Nat \ {0}
    <3>2. 1 * Y <= w * Y
      BY ONLY <3>1, Y \in Nat, TimesUp
    <3>3. 1 * Y = Y /\ w * Y = Y * w
      BY ONLY Y \in Nat, w \in Nat
    <3> QED BY ONLY <1>6, <3>1, <3>2, <3>3, a \in Nat, Y \in Nat, yw \in Nat
  <2>4. v >= 0 /\ v < s
    BY ONLY <1>9, <1>10, <1>11, <1>12, <2>2, <2>3, v \in Int, s \in Nat, f \in Nat, aw \in Nat,
            a \in Nat, yw \in Nat, w \in Nat
  <2> QED BY ONLY <1>2, <2>1, <2>4, s \in Nat, v \in Int DEF Items
<1> QED BY <1>13, <1>15

LEMMA CubeInside ==
    ASSUME NEW j \in WithHalo, j.scheme = "rmbkrd_neighbor", Roomy(j)
    PROVE  /\ ~NoThirdOffset(j)
           /\ \A k \in 0 .. Len(Offsets(j)) - 1, u \in 0 .. HaloSize(j) - 1 :
                 LET c == Offsets(j)[k + 1] + u
                 IN  /\ c \in Items(j)
                     /\ \A q \in DOMAIN Neighbours(j, c) : Neighbours(j, c)[q] \in Items(j)
<1>0. OffsetsRequired(j) > 1 /\ j.shape[3] < j.shape[1]
  BY DEF Roomy
<1>1. PICK d \in Nat \ {0}, h \in Nat \ {0}, w \in Nat \ {0}, f \in Nat \ {0}, a \in Nat, e \in Nat :
         /\ d = j.shape[1] /\ h = j.shape[2] /\ w = j.shape[3] /\ f = h * w /\ a = Half
         /\ e + 1 = Half + (Extent % 2) /\ Extent = a + e + 1 /\ w < d
  <2>1. PICK h \in Nat \ {0}, w \in Nat \ {0} : h = j.shape[2] /\ w = j.shape[3]
    BY HaloTypes
  <2>2. h * w \in Nat \ {0}
    BY ONLY h \in Nat \ {0}, w \in Nat \ {0}
  <2>3. PICK a \in Nat, n \in Nat \ {0} :
           a = Half /\ n = Half + (Extent % 2) /\ Extent = a + n
    <3>1. Half + (Half + (Extent % 2)) = 2 * Half + (Extent % 2)
      BY Halves
    <3> QED BY <3>1, Halves
  <2>4. PICK e \in Nat : e + 1 = n
    <3>1. n - 1 \in Nat /\ (n - 1) + 1 = n
      BY <2>3
    <3> QED BY <3>1
  <2>5. Extent = a + e + 1
    BY ONLY <2>3, <2>4, a \in Nat, e \in Nat
  <2> QED BY <1>0, <2>1, <2>2, <2>3, <2>4, <2>5, HaloTypes
<1>2. PICK s \in Nat : s = Size(j) /\ s = d * f
  <2>1. d * h * w = d * (h * w)
    BY ONLY d \in Nat, h \in Nat, w \in Nat
  <2> QED BY <1>1, <2>1, HaloTypes DEF Size
<1>3. PICK n2 \in Int, n3 \in Int : /\ n2 = NonHalo(j, 2) /\ n3 = NonHalo(j, 3)
                                   /\ n2 = h - a - e /\ n3 = w - a - e
  BY <1>1, CubeAxes
<1>4. /\ NonHaloBegin(j, 1) = a /\ NonHaloBegin(j, 2) = a /\ NonHaloBegin(j, 3) = a
  BY <1>1, CubeAxes
<1>5. w * f < s
  <2>1. PICK n \in Nat : n = w + 1 /\ n <= d
    <3>1. w < d
      BY <1>1
    <3> QED BY ONLY <3>1, w \in Nat, d \in Nat
  <2>2. n * f <= d * f /\ (w + 1) * f = w * f + f /\ w * f \in Nat
    BY ONLY <2>1, n \in Nat, w \in Nat, d \in Nat, f \in Nat, TimesUp
  <2> QED BY ONLY <1>2, <2>1, <2>2, f \in Nat \ {0}, s \in Nat
<1>6. ASSUME NEW k \in 0 .. RowCount(j) - 1
      PROVE  /\ n2 > 0 /\ n3 > 0 /\ RowCount(j) = n2 * n3
             /\ \E zf, yw, af, aw, ef, ew \in Nat :
                   /\ RowStart(j, k) = zf + yw + a
                   /\ af = a * f /\ aw = a * w /\ ef = e * f /\ ew = e * w
                   /\ af <= zf /\ aw <= yw
                   /\ zf + ef + f <= w * f /\ yw + ew + w <= f /\ a + e < w
  <2>1. n2 > 0 /\ n3 > 0 /\ RowCount(j) = n2 * n3
    BY <1>3, RowPlace
  <2>2. PICK z \in 0 .. NonHalo(j, 3) - 1, y \in 0 .. NonHalo(j, 2) - 1 :
           RowStart(j, k) = (NonHaloBegin(j, 3) + z) * (j.shape[2] * j.shape[3])
                               + (NonHaloBegin(j, 2) + y) * j.shape[3] + NonHaloBegin(j, 1)
    BY RowPlace
  <2>3. PICK Z \in Nat, Y \in Nat :
           /\ Z = a + z /\ Y = a + y /\ a <= Z /\ a <= Y
           /\ Z + e + 1 <= w /\ Y + e + 1 <= h
    <3>1. /\ a + z \in Nat /\ a + y \in Nat /\ a <= a + z /\ a <= a + y
          /\ (a + z) + e + 1 <= w /\ (a + y) + e + 1 <= h
      BY ONLY <1>3, z \in 0 .. NonHalo(j, 3) - 1, y \in 0 .. NonHalo(j, 2) - 1,
              w \in Nat, h \in Nat, a \in Nat, e \in Nat
    <3> QED BY <3>1
  <2>4. RowStart(j, k) = Z * f + Y * w + a
    BY ONLY <1>1, <1>4, <2>2, <2>3
  <2>5. a * f <= Z * f /\ a * f \in Nat /\ Z * f \in Nat
    BY ONLY <2>3, Z \in Nat, a \in Nat, f \in Nat, TimesUp
  <2>6. a * w <= Y * w /\ a * w \in Nat /\ Y * w \in Nat
    BY ONLY <2>3, Y \in Nat, a \in Nat, w \in Nat, TimesUp
  <2>7. Z * f + e * f + f <= w * f /\ e * f \in Nat
    <3>1. PICK n \in Nat : n = Z + e + 1 /\ n <= w
      BY ONLY <2>3, Z \in Nat, e \in Nat, w \in Nat
    <3>2. n * f <= w * f
      BY ONLY <3>1, n \in Nat, w \in Nat, f \in Nat, TimesUp
    <3>3. (Z + e + 1) * f = Z * f + e * f + f /\ e * f \in Nat
      BY ONLY Z \in Nat, e \in Nat, f \in Nat
    <3> QED BY ONLY <3>1, <3>2, <3>3
  <2>8. Y * w + e * w + w <= f /\ e * w \in Nat
    <3>1. PICK n \in Nat : n = Y + e + 1 /\ n <= h
      BY ONLY <2>3, Y \in Nat, e \in Nat, h \in Nat
    <3>2. n * w <= h * w
      BY ONLY <3>1, n \in Nat, h \in Nat, w \in Nat, TimesUp
    <3>3. (Y + e + 1) * w = Y * w + e * w + w /\ e * w \in Nat
      BY ONLY Y \in Nat, e \in Nat, w \in Nat
    <3> QED BY ONLY <1>1, <3>1, <3>2, <3>3
  <2>9. a + e < w
    BY ONLY <2>3, a \in Nat, e \in Nat, w \in Nat, Z \in Nat
  <2> QED BY ONLY <2>1, <2>4, <2>5, <2>6, <2>7, <2>8, <2>9
<1>7. \A k \in 0 .. RowCount(j) - 1 : RowStart(j, k) < Size(j)
  <2>1. SUFFICES ASSUME NEW k \in 0 .. RowCount(j) - 1 PROVE RowStart(j, k) < s
    BY <1>2
  <2>2. PICK zf \in Nat, yw \in Nat, ef \in Nat, ew \in Nat :
           /\ RowStart(j, k) = zf + yw + a
           /\ zf + ef + f <= w * f /\ yw + ew + w <= f /\ a + e < w
    BY <1>6
  <2>3. PICK wf \in Nat : wf = w * f
    <3>1. w * f \in Nat
      BY ONLY w \in Nat, f \in Nat
    <3> QED BY <3>1
  <2> QED BY ONLY <1>5, <2>2, <2>3, s \in Nat, zf \in Nat, yw \in Nat, a \in Nat, e \in Nat, w \in Nat,
                  f \in Nat, ef \in Nat, ew \in Nat, wf \in Nat
<1>8. Len(Offsets(j)) = RowCount(j) /\ Len(Offsets(j)) # 1
  <2>1. Len(Offsets(j)) = RowCount(j)
    BY <1>0, <1>7, ManyOffsets
  <2>2. SUFFICES ASSUME RowCount(j) = 1 PROVE FALSE
    BY <2>1
  <2>3. 0 \in 0 .. RowCount(j) - 1
    BY <2>2
  <2>4. n2 > 0 /\ n3 > 0 /\ n2 * n3 = 1
    BY <1>6, <2>2, <2>3
  <2>5. n2 = 1 /\ n3 = 1
    <3>1. PICK x \in Nat, y \in Nat : n2 = 1 + x /\ n3 = 1 + y
      <4>1. n2 - 1 \in Nat /\ n3 - 1 \in Nat /\ n2 = 1 + (n2 - 1) /\ n3 = 1 + (n3 - 1)
        BY ONLY <2>4, n2 \in Int, n3 \in Int
      <4> QED BY <4>1
    <3>2. (1 + x) * (1 + y) = 1 + x + y + x * y /\ x * y \in Nat
      BY ONLY x \in Nat, y \in Nat
    <3> QED BY ONLY <2>4, <3>1, <3>2, x \in Nat, y \in Nat
  <2>6. OffsetsRequired(j) = 1
    BY <1>3, <2>5 DEF OffsetsRequired
  <2> QED BY <1>0, <2>6
<1>9. HaloSize(j) <= n3 + 1 \/ RowCount(j) = 0
  <2>1. CASE RowCount(j) = 0
    BY <2>1
  <2>2. CASE RowCount(j) # 0
    <3>1. 0 \in 0 .. RowCount(j) - 1
      BY <1>0, <2>2, <1>8, ManyOffsets
    <3>2. n3 > 0
      BY <1>6, <3>1
    <3>3. HaloSize(j) = n3 + 1
      BY <1>3, <1>8, <3>2 DEF HaloSize
    <3>4. n3 + 1 <= n3 + 1
      BY ONLY n3 \in Int
    <3> QED BY <3>3, <3>4
  <2> QED BY <2>1, <2>2
<1>10. ASSUME NEW k \in 0 .. Len(Offsets(j)) - 1, NEW u \in 0 .. HaloSize(j) - 1
       PROVE  LET c == Offsets(j)[k + 1] + u
              IN  /\ c \in Items(j)
                  /\ \A q \in DOMAIN Neighbours(j, c) : Neighbours(j, c)[q] \in Items(j)
  <2>1. k \in 0 .. RowCount(j) - 1 /\ Offsets(j)[k + 1] = RowStart(j, k)
    BY <1>0, ManyOffsets
  <2>2. PICK zf \in Nat, yw \in Nat, af \in Nat, aw \in Nat, ef \in Nat, ew \in Nat :
                   /\ RowStart(j, k) = zf + yw + a
                   /\ af = a * f /\ aw = a * w /\ ef = e * f /\ ew = e * w
                   /\ af <= zf /\ aw <= yw
                   /\ zf + ef + f <= w * f /\ yw + ew + w <= f /\ a + e < w
    BY <1>6, <2>1
  <2>3. u \in Nat /\ u <= w - a - e
    <3>1. HaloSize(j) <= n3 + 1 /\ HaloSize(j) \in Nat
      BY <1>9, <2>1, OffsetTypes
    <3>2. PICK hs \in Nat : hs = HaloSize(j)
      BY <3>1
    <3>3. u \in Nat /\ u < hs
      BY ONLY <3>2, u \in 0 .. HaloSize(j) - 1, hs \in Nat
    <3>4. hs <= n3 + 1
      BY ONLY <3>1, <3>2
    <3>5. u <= n3
      BY ONLY <3>3, <3>4, u \in Nat, hs \in Nat, n3 \in Int
    <3> QED BY ONLY <1>3, <3>3, <3>5
  <2>4. PICK c \in Nat : c = zf + yw + a + u /\ c = Offsets(j)[k + 1] + u
    <3>1. zf + yw + a + u \in Nat
      BY ONLY <2>3, zf \in Nat, yw \in Nat, a \in Nat
    <3> QED BY <2>1, <2>2, <3>1
  <2>5. PICK wf \in Nat : wf = w * f
    <3>1. w * f \in Nat
      BY ONLY w \in Nat, f \in Nat
    <3> QED BY <3>1
  <2>6. af + aw + a <= c /\ c + ef + ew + e <= wf
    BY ONLY <2>2, <2>3, <2>4, <2>5, zf \in Nat, yw \in Nat, af \in Nat, aw \in Nat, ef \in Nat,
            ew \in Nat, wf \in Nat, a \in Nat, e \in Nat, w \in Nat, f \in Nat
  <2>7. c \in Items(j)
    <3>1. c < s
      BY ONLY <1>5, <2>5, <2>6, c \in Nat, ef \in Nat, ew \in Nat, e \in Nat, s \in Nat, wf \in Nat
    <3> QED BY ONLY <1>2, <3>1, c \in Nat, s \in Nat DEF Items
  <2>8. ASSUME NEW q \in DOMAIN Neighbours(j, c) PROVE Neighbours(j, c)[q] \in Items(j)
    <3>1. PICK v \in Int : /\ v = Neighbours(j, c)[q]
                           /\ c - Half * f - Half * w - Half <= v
                           /\ v <= c + e * f + e * w + e
      <4>1. w = j.shape[3] /\ f = j.shape[2] * w /\ e + 1 = Half + (Extent % 2)
        BY <1>1
      <4>2. /\ Neighbours(j, c)[q] \in Int
            /\ c - Half * f - Half * w - Half <= Neighbours(j, c)[q]
            /\ Neighbours(j, c)[q] <= c + e * f + e * w + e
        BY ONLY <4>1, j \in WithHalo, j.scheme = "rmbkrd_neighbor", c \in Nat,
                q \in DOMAIN Neighbours(j, c), w \in Nat \ {0}, f \in Nat, e \in Nat, CubeNeighbours
      <4> QED BY <4>2
    <3>2. c - af - aw - a <= v /\ v <= c + ef + ew + e
      BY ONLY <1>1, <2>2, <3>1
    <3>3. v >= 0 /\ v < s
      BY ONLY <1>5, <2>5, <2>6, <3>2, c \in Nat, v \in Int, s \in Nat, wf \in Nat, af \in Nat,
              aw \in Nat, ef \in Nat, ew \in Nat, a \in Nat, e \in Nat
    <3> QED BY ONLY <1>2, <3>1, <3>3, s \in Nat, v \in Int DEF Items
  <2> QED BY ONLY <2>4, <2>7, <2>8
<1> QED BY ONLY <1>8, <1>10 DEF NoThirdOffset

\* The faces of a volume of more than one plane.
LEMMA FacesInside ==
    ASSUME NEW j \in Jobs, j.scheme = "rmestbkrd", Roomy(j)
    PROVE  \A g \in 1 .. 4 : Faces(j)[g] \subseteq Items(j)
<1>0. j.shape[1] > 1
  BY DEF Roomy
<1>1. PICK d \in Nat \ {0}, h \in Nat \ {0}, w \in Nat \ {0}, f \in Nat \ {0} :
         d = j.shape[1] /\ h = j.shape[2] /\ w = j.shape[3] /\ f = h * w
  <2>1. PICK h \in Nat \ {0}, w \in Nat \ {0} : h = j.shape[2] /\ w = j.shape[3]
    BY JobTypes
  <2>2. h * w \in Nat \ {0}
    BY ONLY h \in Nat \ {0}, w \in Nat \ {0}
  <2> QED BY <2>1, <2>2, JobTypes
<1>2. PICK s \in Nat : s = Size(j) /\ s = d * f
  <2>1. d * h * w = d * (h * w)
    BY ONLY d \in Nat, h \in Nat, w \in Nat
  <2> QED BY <1>1, <2>1, JobTypes DEF Size
<1> DEFINE Face(z) == z * f .. (z + 1) * f - 1
           Row(z, y) == z * f + y * w .. z * f + (y + 1) * w - 1
           Rim(y) == UNION {Row(z, y) : z \in {1, d \div 2, d - 2}}
<1>3. ASSUME NEW z \in 0 .. d - 1 PROVE Face(z) \subseteq Items(j)
  <2>1. PICK n \in Nat, m \in Nat, x \in Nat, r \in Nat :
           n = z + 1 /\ n <= d /\ m = n * f /\ m <= d * f /\ x = z * f /\ z \in Nat /\ r = d * f
    <3>1. z \in Nat /\ z + 1 \in Nat /\ z + 1 <= d
      BY ONLY z \in 0 .. d - 1, d \in Nat
    <3>2. (z + 1) * f \in Nat /\ (z + 1) * f <= d * f /\ z * f \in Nat /\ d * f \in Nat
      BY ONLY <3>1, z \in Nat, f \in Nat, d \in Nat, TimesUp
    <3> QED BY <3>1, <3>2
  <2>2. Face(z) = x .. m - 1
    BY ONLY <2>1
  <2> QED BY ONLY <1>2, <2>1, <2>2, s \in Nat, m \in Nat, x \in Nat DEF Items
<1>4. ASSUME NEW z \in 0 .. d - 1, NEW y \in 0 .. h - 1 PROVE Row(z, y) \subseteq Items(j)
  <2>1. z \in Nat /\ z + 1 \in Nat /\ z + 1 <= d /\ y \in Nat /\ y + 1 \in Nat /\ y + 1 <= h
    BY ONLY z \in 0 .. d - 1, y \in 0 .. h - 1, d \in Nat, h \in Nat
  <2>2. (z + 1) * f \in Nat /\ (z + 1) * f <= d * f /\ z * f \in Nat
    BY ONLY <2>1, f \in Nat, d \in Nat, TimesUp
  <2>3. (z + 1) * f = z * f + f
    BY ONLY <2>1, f \in Nat
  <2>4. (y + 1) * w \in Nat /\ (y + 1) * w <= h * w /\ y * w \in Nat
    BY ONLY <2>1, w \in Nat, h \in Nat, TimesUp
  <2>5. PICK x \in Nat, v \in Nat, m \in Nat :
           x = z * f /\ v = y * w /\ m = (y + 1) * w /\ m <= f /\ x + f <= s
    BY ONLY <1>1, <1>2, <2>2, <2>3, <2>4
  <2>6. Row(z, y) = x + v .. x + m - 1
    BY ONLY <2>5
  <2> QED BY ONLY <1>2, <2>5, <2>6, s \in Nat, m \in Nat, x \in Nat, v \in Nat, f \in Nat DEF Items
<1>5. 1 \in 0 .. d - 1 /\ d \div 2 \in 0 .. d - 1 /\ d - 2 \in 0 .. d - 1 /\ 0 \in 0 .. d - 1
      /\ d - 1 \in 0 .. d - 1 /\ 0 \in 0 .. h - 1 /\ h - 1 \in 0 .. h - 1
  <2>1. d > 1
    BY <1>0, <1>1
  <2>2. d \div 2 \in Nat /\ d \div 2 < d
    BY ONLY <2>1, d \in Nat
  <2> QED BY ONLY <2>1, <2>2, d \in Nat, h \in Nat \ {0}
<1>6. ASSUME NEW y \in 0 .. h - 1 PROVE Rim(y) \subseteq Items(j)
  <2> HIDE DEF Row
  <2> QED BY <1>4, <1>5, <1>6
<1>7. Faces(j) = <<Face(0), Face(d - 1), Rim(0), Rim(h - 1)>>
  BY <1>1 DEF Faces
<1>8. Face(0) \subseteq Items(j) /\ Face(d - 1) \subseteq Items(j)
  BY <1>3, <1>5
<1>9. Rim(0) \subseteq Items(j) /\ Rim(h - 1) \subseteq Items(j)
  BY <1>5, <1>6
<1> HIDE DEF Face, Rim
<1> QED BY <1>7, <1>8, <1>9

\* In a volume that diff has several rows of, neighbours lie in front of an item.
LEMMA DiffBehind ==
    ASSUME NEW j \in WithHalo, j.scheme = "diff", OffsetsRequired(j) > 1,
           Len(Offsets(j)) > 0, NEW c \in Nat, NEW q \in DOMAIN Neighbours(j, c)
    PROVE  Neighbours(j, c)[q] \in Int /\ Neighbours(j, c)[q] < c
<1>1. PICK h \in Nat \ {0}, w \in Nat \ {0}, f \in Nat, a \in Nat :
         h = j.shape[2] /\ w = j.shape[3] /\ f = h * w /\ f = j.shape[2] * w /\ a = Half
  <2>1. PICK h \in Nat \ {0}, w \in Nat \ {0} : h = j.shape[2] /\ w = j.shape[3]
    BY HaloTypes
  <2>2. h * w \in Nat
    BY <2>1
  <2> QED BY <2>1, <2>2, Halves
<1>2. h >= 2 * a + 1
  <2>1. 0 \in 0 .. Len(Offsets(j)) - 1
    BY ManyOffsets
  <2>2. 0 \in 0 .. RowCount(j) - 1
    BY <2>1, ManyOffsets
  <2>3. NonHalo(j, 2) \in Nat \ {0} /\ NonHalo(j, 2) = j.shape[2] - 2 * Half
    BY <2>2, RowPlace, DiffAxes
  <2> QED BY ONLY <1>1, <2>3, h \in Nat, a \in Nat
<1>3. a * w + a < f
  <2>1. PICK b \in Nat, n \in Nat : b = a + 1 /\ n = a + b /\ n <= h
    BY ONLY <1>2, a \in Nat, h \in Nat
  <2>2. n * w <= h * w
    BY ONLY <2>1, n \in Nat, h \in Nat, w \in Nat, TimesUp
  <2>3. n * w = a * w + b * w
    BY ONLY <2>1, a \in Nat, b \in Nat, w \in Nat
  <2>4. b <= b * w
    <3>1. 1 \in Nat /\ 1 <= w
      BY ONLY w \in Nat \ {0}
    <3>2. 1 * b <= w * b
      BY ONLY <3>1, w \in Nat, b \in Nat, TimesUp
    <3>3. 1 * b = b /\ w * b = b * w
      BY ONLY b \in Nat, w \in Nat
    <3> QED BY <3>2, <3>3
  <2>5. a * w \in Nat /\ b * w \in Nat
    BY ONLY a \in Nat, b \in Nat, w \in Nat
  <2> QED BY ONLY <1>1, <2>1, <2>2, <2>3, <2>4, <2>5, a \in Nat, b \in Nat, f \in Nat
<1>4. PICK v \in Int, e \in Int : /\ v = Neighbours(j, c)[q] /\ e = Centre(j, c) /\ e <= c
                                 /\ v <= e - f + Half * w + Half
  <2>1. w = j.shape[3] /\ f = j.shape[2] * w
    BY <1>1
  <2>2. /\ Neighbours(j, c)[q] \in Int
        /\ Neighbours(j, c)[q] <= Centre(j, c) - f + Half * w + Half
    BY ONLY <2>1, j \in WithHalo, j.scheme = "diff", c \in Nat, q \in DOMAIN Neighbours(j, c),
            w \in Nat \ {0}, f \in Nat, DiffNeighbours
  <2> QED BY <2>2, CentreIs
<1>5. a * w \in Nat /\ v <= e - f + a * w + a
  <2>1. a * w \in Nat
    BY ONLY a \in Nat, w \in Nat
  <2> QED BY ONLY <1>1, <1>4, <2>1
<1> QED BY ONLY <1>3, <1>4, <1>5, v \in Int, e \in Int, c \in Nat, f \in Nat, a \in Nat

\* The one row of a volume with too few rows begins in front of the first plane.
LEMMA OneRowOutside ==
    ASSUME NEW j \in WithHalo, j.scheme = "diff"
    PROVE  \E q \in DOMAIN Neighbours(j, Half) : Neighbours(j, Half)[q] \notin Items(j)
<1>1. PICK h \in Nat \ {0}, w \in Nat \ {0}, f \in Nat \ {0}, a \in Nat, o \in Nat :
         h = j.shape[2] /\ w = j.shape[3] /\ f = h * w /\ a = Half /\ o = 1
  <2>1. PICK h \in Nat \ {0}, w \in Nat \ {0} : h = j.shape[2] /\ w = j.shape[3]
    BY HaloTypes
  <2>2. h * w \in Nat \ {0}
    BY ONLY h \in Nat \ {0}, w \in Nat \ {0}
  <2> QED BY <2>1, <2>2, Halves
<1> DEFINE q == <<-o, -a, -a>>
           On(x) == Neighborhood(j).begin[x] .. Neighborhood(j).end[x] - 1
<1>2. Neighborhood(j) = [begin |-> <<-a, -a, -o>>, end |-> <<a + 1, a + 1, 0>>]
  BY <1>1 DEF Neighborhood, LastPlane, Half
<1>3. -o \in On(3) /\ -a \in On(2) /\ -a \in On(1)
  <2>1. On(3) = -o .. 0 - 1 /\ On(2) = -a .. (a + 1) - 1 /\ On(1) = -a .. (a + 1) - 1
    BY <1>2
  <2>2. -o \in -o .. 0 - 1 /\ -a \in -a .. (a + 1) - 1
    BY <1>1
  <2> QED BY <2>1, <2>2
<1>4. q \in On(3) \X On(2) \X On(1)
  <2> HIDE DEF On
  <2> QED BY <1>3
<1>5. /\ DOMAIN Neighbours(j, Half) = On(3) \X On(2) \X On(1)
      /\ \A p \in On(3) \X On(2) \X On(1) :
            Neighbours(j, Half)[p] = Centre(j, Half) + p[1] * j.shape[2] * j.shape[3]
                                                     + p[2] * j.shape[3] + p[3]
  BY DEF Neighbours
<1>6. PICK e \in Int : e = Centre(j, Half) /\ e <= a
  BY <1>1, CentreIs
<1>7. Neighbours(j, Half)[q] = e + (-o) * h * w + (-a) * w + (-a)
  <2>1. q[1] = -o /\ q[2] = -a /\ q[3] = -a
    OBVIOUS
  <2> HIDE DEF q, On
  <2> QED BY <1>1, <1>4, <1>5, <1>6, <2>1
<1>8. (-o) * h * w = -f
  <2>1. PICK x \in Int : x = (-o) * h /\ x + h = 0
    <3>1. (-o) * h \in Int /\ (-o) * h + o * h = 0 /\ 1 * h = h
      BY ONLY o \in Nat, h \in Nat
    <3> QED BY ONLY <1>1, <3>1, h \in Nat
  <2>2. x * w + h * w = (x + h) * w /\ 0 * w = 0 /\ x * w \in Int
    BY ONLY x \in Int, h \in Nat, w \in Nat
  <2> QED BY ONLY <1>1, <2>1, <2>2, f \in Nat
<1>9. PICK v \in Int : v = (-a) * w /\ v <= 0
  <2>1. (-a) * w + a * w = 0 /\ (-a) * w \in Int /\ a * w \in Nat
    BY ONLY a \in Nat, w \in Nat
  <2> QED BY <2>1
<1>10. Neighbours(j, Half)[q] \in Int /\ Neighbours(j, Half)[q] < 0
  <2> HIDE DEF q
  <2>1. Neighbours(j, Half)[q] = e + (-f) + v + (-a)
    BY <1>7, <1>8, <1>9
  <2> QED BY ONLY <2>1, <1>6, <1>9, e \in Int, v \in Int, f \in Nat \ {0}, a \in Nat
<1>11. q \in DOMAIN Neighbours(j, Half) /\ Neighbours(j, Half)[q] \notin Items(j)
  <2> HIDE DEF q, On
  <2> QED BY <1>4, <1>5, <1>10 DEF Items
<1> QED BY <1>11

LEMMA NeighboursFinite ==
    ASSUME NEW j \in WithHalo, NEW c
    PROVE  IsFiniteSet(DOMAIN Neighbours(j, c))
<1> DEFINE On(x) == Neighborhood(j).begin[x] .. Neighborhood(j).end[x] - 1
<1>1. \A x \in 1 .. 3 : Neighborhood(j).begin[x] \in Int /\ Neighborhood(j).end[x] \in Int
  <2>1. PICK a \in Nat, e \in Nat \ {0}, o \in Nat : a = Half /\ e = Half + (Extent % 2) /\ o = 1
    BY Halves
  <2>2. Neighborhood(j) = [begin |-> <<-a, -a, -o>>, end |-> <<a + 1, a + 1, 0>>]
        \/ Neighborhood(j) = [begin |-> <<-a, -a, -a>>, end |-> [x \in 1 .. 3 |-> e]]
    BY <2>1 DEF Neighborhood, LastPlane, Cube, Half
  <2> QED BY <2>1, <2>2
<1>2. \A x \in 1 .. 3 : IsFiniteSet(On(x))
  <2>1. SUFFICES ASSUME NEW x \in 1 .. 3 PROVE IsFiniteSet(On(x))
    OBVIOUS
  <2>2. PICK b \in Int, e \in Int : b = Neighborhood(j).begin[x] /\ e = Neighborhood(j).end[x] - 1
    BY <1>1
  <2> QED BY <2>2, FS_Interval
<1>3. PICK A, B, C : /\ A = On(3) /\ B = On(2) /\ C = On(1)
                     /\ IsFiniteSet(A) /\ IsFiniteSet(B) /\ IsFiniteSet(C)
  BY <1>2
<1>4. DOMAIN Neighbours(j, c) = A \X B \X C
  BY <1>3 DEF Neighbours
<1>5. IsFiniteSet(A \X B)
  BY <1>3, FS_Product
<1>6. IsFiniteSet((A \X B) \X C)
  BY <1>3, <1>5, FS_Product
<1>7. PICK P, T : P = (A \X B) \X C /\ T = A \X B \X C /\ IsFiniteSet(P)
  BY <1>6
<1> DEFINE g == [p \in P |-> <<p[1][1], p[1][2], p[2]>>]
<1>8. g \in Surjection(P, T)
  <2>1. ASSUME NEW p \in P PROVE g[p] \in T
    BY <1>7
  <2>2. ASSUME NEW t \in T PROVE \E p \in P : g[p] = t
    <3>1. t[1] \in A /\ t[2] \in B /\ t[3] \in C /\ t = <<t[1], t[2], t[3]>>
      BY <1>7
    <3>2. <<<<t[1], t[2]>>, t[3]>> \in P
      BY <1>7, <3>1
    <3>3. g[<<<<t[1], t[2]>>, t[3]>>] = <<t[1], t[2], t[3]>>
      BY <3>2
    <3> QED BY <3>1, <3>2, <3>3
  <2>3. g \in [P -> T]
    BY <2>1
  <2> HIDE DEF g
  <2> QED BY <2>2, <2>3 DEF Surjection
<1>9. IsFiniteSet(T)
  <2> HIDE DEF g
  <2> QED BY <1>7, <1>8, FS_Surjection
<1> QED BY <1>4, <1>7, <1>9
-----------------------------------------------------------------------------
(* What is taken off an item, and put back *)

LEMMA NaiveSumType ==
    ASSUME job \in WithHalo, NEW vol, NEW c,
           \A q \in DOMAIN Neighbours(job, c) : vol[Neighbours(job, c)[q]] \in Nat
    PROVE  NaiveSum(vol, c) \in Nat
<1> DEFINE D == DOMAIN Neighbours(job, c)
           f == [q \in D |-> vol[Neighbours(job, c)[q]]]
<1>1. IsFiniteSet(D)
  BY NeighboursFinite
<1>2. \A q \in D : f[q] \in Nat
  OBVIOUS
<1>3. DOMAIN f = D
  OBVIOUS
<1>4. NaiveSum(vol, c) = SumOf(f) % 2 ^ Width
  BY Zenon DEF NaiveSum
<1>5. SumOf(f) \in Nat
  <2> HIDE DEF D, f
  <2>1. SumOf(f) = SumOver(f, D)
    BY <1>3, SumOfIs
  <2>2. SumOver(f, D) \in Nat
    BY <1>1, <1>2, SumOverType
  <2> QED BY <2>1, <2>2
<1>6. PICK n \in Nat, m \in Nat \ {0} : n = SumOf(f) /\ m = 2 ^ Width
  <2> HIDE DEF f
  <2> QED BY <1>5, ValuesType
<1>7. n % m \in Nat
  BY ONLY n \in Nat, m \in Nat \ {0}
<1> HIDE DEF f
<1> QED BY <1>4, <1>6, <1>7

\* Volumes that agree on the neighbours of an item have the same sum.
LEMMA NaiveSumSame ==
    ASSUME NEW a, NEW b, NEW c,
           \A q \in DOMAIN Neighbours(job, c) :
              a[Neighbours(job, c)[q]] = b[Neighbours(job, c)[q]]
    PROVE  NaiveSum(a, c) = NaiveSum(b, c)
<1> DEFINE D == DOMAIN Neighbours(job, c)
           f == [q \in D |-> a[Neighbours(job, c)[q]]]
           g == [q \in D |-> b[Neighbours(job, c)[q]]]
<1>1. f = g
  OBVIOUS
<1>2. NaiveSum(a, c) = SumOf(f) % 2 ^ Width /\ NaiveSum(b, c) = SumOf(g) % 2 ^ Width
  BY Zenon DEF NaiveSum
<1> HIDE DEF f, g
<1> QED BY <1>1, <1>2

LEMMA PixelsType == NumPixels(LastPlane) \in Nat \ {0}
<1>1. PICK a \in Nat, o \in Nat : a = Half /\ o = 1
  BY Halves
<1>2. LastPlane = [begin |-> <<-a, -a, -o>>, end |-> <<a + 1, a + 1, 0>>]
  BY <1>1 DEF LastPlane, Half
<1>3. NumPixels(LastPlane) = ((a + 1) - (-a)) * ((a + 1) - (-a)) * (0 - (-o))
  BY <1>2 DEF NumPixels
<1>4. PICK n \in Nat \ {0} : n = (a + 1) - (-a)
  <2>1. (a + 1) - (-a) \in Nat \ {0}
    BY ONLY a \in Nat
  <2> QED BY <2>1
<1>5. 0 - (-o) = o
  BY ONLY o \in Nat
<1>6. n * n * o \in Nat \ {0}
  <2>1. n * n \in Nat \ {0}
    BY ONLY n \in Nat \ {0}
  <2>2. (n * n) * o = n * n
    BY <1>1, <2>1
  <2> QED BY <2>1, <2>2
<1> QED BY <1>3, <1>4, <1>5, <1>6

LEMMA ModIs ==
    ASSUME NEW m \in Nat \ {0}, NEW q \in Int, NEW r \in 0 .. m - 1, NEW a \in Int, a = q * m + r
    PROVE  a % m = r
<1>1. PICK p \in Int, s \in 0 .. m - 1 : a = p * m + s /\ s = a % m
  <2>1. a \div m \in Int /\ a % m \in 0 .. m - 1 /\ a = (a \div m) * m + (a % m)
    OBVIOUS
  <2> QED BY <2>1
<1>2. CASE p < q
  <2>1. PICK n \in Nat : q = p + 1 + n
    <3>1. q - p - 1 \in Nat /\ q = p + 1 + (q - p - 1)
      BY <1>2
    <3> QED BY <3>1
  <2>2. (p + 1 + n) * m = p * m + m + n * m /\ n * m \in Nat /\ p * m \in Int
    BY ONLY p \in Int, n \in Nat, m \in Nat
  <2> QED BY ONLY <1>1, <2>1, <2>2, a = q * m + r, m \in Nat, r \in 0 .. m - 1, s \in 0 .. m - 1
<1>3. CASE q < p
  <2>1. PICK n \in Nat : p = q + 1 + n
    <3>1. p - q - 1 \in Nat /\ p = q + 1 + (p - q - 1)
      BY <1>3
    <3> QED BY <3>1
  <2>2. (q + 1 + n) * m = q * m + m + n * m /\ n * m \in Nat /\ q * m \in Int
    BY ONLY q \in Int, n \in Nat, m \in Nat
  <2> QED BY ONLY <1>1, <2>1, <2>2, a = q * m + r, m \in Nat, r \in 0 .. m - 1, s \in 0 .. m - 1
<1>4. CASE p = q
  <2>1. q * m \in Int
    BY ONLY q \in Int, m \in Nat
  <2> QED BY ONLY <1>1, <1>4, <2>1, a = q * m + r, r \in 0 .. m - 1, s \in 0 .. m - 1, m \in Nat
<1> QED BY <1>2, <1>3, <1>4

\* What is taken off an item is put back, whatever it is.
LEMMA PutBack ==
    ASSUME NEW v \in Nat, NEW s \in Nat
    PROVE  LET n == NumPixels(LastPlane)
               m == 2 ^ Width
           IN  /\ (v - s \div n) % m \in Values
               /\ (v + s \div n) % m \in Values
               /\ v \in Values => (((v - s \div n) % m) + s \div n) % m = v
<1>1. PICK n \in Nat \ {0}, m \in Nat \ {0} : n = NumPixels(LastPlane) /\ m = 2 ^ Width
  BY PixelsType, ValuesType
<1>2. PICK t \in Nat : t = s \div n
  BY ONLY s \in Nat, n \in Nat \ {0}, DivSplit
<1>3. \A a \in Int : a % m \in Values
  <2>1. \A a \in Int : a % m \in 0 .. m - 1
    BY ONLY m \in Nat \ {0}
  <2> QED BY <1>1, <2>1 DEF Values
<1>4. v - t \in Int /\ v + t \in Int
  OBVIOUS
<1>5. ASSUME v \in Values PROVE (((v - t) % m) + t) % m = v
  <2>1. PICK q \in Int, r \in 0 .. m - 1 : v - t = q * m + r /\ r = (v - t) % m
    <3>1. PICK a \in Int : a = v - t
      BY <1>4
    <3>2. a \div m \in Int /\ a % m \in 0 .. m - 1 /\ a = (a \div m) * m + (a % m)
      BY ONLY a \in Int, m \in Nat \ {0}
    <3> QED BY <3>1, <3>2
  <2>2. PICK p \in Int, b \in Int : p = -q /\ b = r + t
    BY <1>1, <2>1
  <2>3. PICK x \in Int, y \in Int : x = q * m /\ y = p * m /\ x + y = 0
    <3>1. (-q) * m + q * m = 0 /\ q * m \in Int /\ (-q) * m \in Int
      BY ONLY q \in Int, m \in Nat
    <3> QED BY <2>2, <3>1
  <2>4. b = p * m + v
    <3>1. v - t = x + r /\ b = r + t
      BY <2>1, <2>2, <2>3
    <3>2. r \in Int
      BY ONLY r \in 0 .. m - 1, m \in Nat
    <3>3. b = y + v
      BY ONLY <2>3, <3>1, <3>2, x \in Int, y \in Int, b \in Int, t \in Nat, v \in Nat
    <3> QED BY <2>3, <3>3
  <2>5. v \in 0 .. m - 1
    BY <1>1, <1>5 DEF Values
  <2>6. b % m = v
    BY ONLY m \in Nat \ {0}, p \in Int, b \in Int, <2>4, <2>5, ModIs
  <2> QED BY <2>1, <2>2, <2>6
<1> QED BY <1>1, <1>2, <1>3, <1>4, <1>5

LEMMA ReducedType ==
    ASSUME NEW v \in Values, level \in Nat PROVE Reduced(v) \in Values
<1>1. v \in Nat /\ 0 \in Int /\ v - level \in Int /\ v < 2 ^ Width
  BY ValuesType
<1>2. Max({0, v - level}) = IF 0 >= v - level THEN 0 ELSE v - level
  BY <1>1, MaxTwo
<1> QED BY <1>1, <1>2, ValuesType DEF Reduced

\* A threshold that is estimated is a value.
LEMMA EstimateType ==
    ASSUME NEW j \in Jobs, \A g \in 1 .. 4 : Faces(j)[g] \subseteq Items(j), NEW e \in Estimates(j)
    PROVE  e \in Nat
<1> DEFINE values(g) == {j.image[c] : c \in Faces(j)[g]}
<1>1. \A g \in 1 .. 4 : values(g) \subseteq Nat
  BY JobTypes, ValuesType
<1>2. PICK v \in values(1) \X values(2) \X values(3) \X values(4) : e = Min({v[g] : g \in 1 .. 4})
  BY DEF Estimates
<1>3. v[1] \in Nat /\ v[2] \in Nat /\ v[3] \in Nat /\ v[4] \in Nat
  <2> HIDE DEF values
  <2> QED BY <1>1, <1>2
<1>4. PICK S : S = {v[g] : g \in 1 .. 4}
  OBVIOUS
<1>5. S \subseteq Nat /\ S # {}
  <2>1. \A g \in 1 .. 4 : g = 1 \/ g = 2 \/ g = 3 \/ g = 4
    OBVIOUS
  <2>2. v[1] \in S
    BY <1>4
  <2> HIDE DEF values
  <2> QED BY <1>3, <1>4, <2>1, <2>2
<1>6. \E x \in S : \A y \in S : x <= y
  BY <1>5, NatMin
<1>7. Min(S) \in S
  BY <1>6 DEF Min
<1> QED BY <1>2, <1>4, <1>5, <1>7
-----------------------------------------------------------------------------
(* The inductive invariant *)

\* Where the share of a thread begins.
Begin(t) == Share(job, phase, Iterations, t).begin

\* Where the update u of the iteration k goes.
Place(k, u) ==
    CASE ByPlanes /\ Encodes /\ UsesSse(job) -> k * Segment(job) + u
      [] ByPlanes /\ Encodes /\ ~UsesSse(job) -> PlaneItem(job, k, u)
      [] ByPlanes /\ ~Encodes -> u
      [] ByRows   -> Rows[job].offsets[k + 1] + u
      [] OTHER    -> k

\* Updates that are done.
Passed(k, u) ==
    \E t \in Team : /\ Begin(t) <= k
                    /\ k < next[t][1] \/ (k = next[t][1] /\ u < next[t][2])

InLoop(c) == \E k \in 0 .. Iterations - 1, u \in 0 .. Updates - 1 : Place(k, u) = c

Loops == phase \in {"encode", "decode"}

\* The threads that nobody interferes with in what they read and write.
Alone(t) == TeamSize(job, phase) = 1 \/ (ByPlanes /\ Target(t) \notin CutWords(job))

LoopInv ==
    Loops => /\ next \in [Team -> Nat \X Nat]
             /\ reg \in [Team -> Values \cup {Nothing}]
             /\ \A t \in Team :
                   /\ Begin(t) <= next[t][1] /\ next[t][1] <= Begin(t + 1)
                   /\ next[t][2] = 0 \/ (next[t][2] < Updates /\ next[t][1] < Begin(t + 1))
                   /\ reg[t] # Nothing => /\ ReadsOutput /\ ~Finished(t)
                                          /\ Touched(t) \subseteq Items(job)
                                          /\ Alone(t) => reg[t] = Value(t)

PhaseInv ==
    /\ phase \in {"idle", "encode", "decode", "decoded", "thrown", "outside"}
    /\ job \in Jobs
    /\ Loops => /\ in \in [Items(job) -> Values] /\ out \in [Items(job) -> Values]
                /\ level \in Nat
    /\ phase = "encode" => in = job.image /\ mid = <<>>
    /\ phase = "decode" => in = mid /\ job.scheme \in {"bitswap", "diff"}
    /\ phase = "decoded" => mid # <<>>
    /\ phase \in {"idle", "thrown"} => mid = <<>>
    /\ mid # <<>> => mid \in [Items(job) -> Values]
    /\ phase = "outside" => ~Roomy(job)

MidInv == mid # <<>> => PlanesRight

SseInv ==
    phase = "encode" /\ ByPlanes /\ UsesSse(job) =>
        \A k \in 0 .. Iterations - 1, u \in 0 .. Updates - 1 :
            Passed(k, u) => out[Place(k, u)] = Transposed(job, Place(k, u))

ScalarInv ==
    phase = "encode" /\ ByPlanes /\ ~UsesSse(job) =>
        \A k \in 0 .. Iterations - 1, u \in 0 .. Updates - 1 :
            Passed(k, u) /\ Place(k, u) \notin CutWords(job) =>
                Bit(out[Place(k, u)], PlaneBit(k)) = Bit(job.image[k], u)

RestInv ==
    Loops /\ ByPlanes => \A c \in Items(job) : c >= MaxSize(job) => out[c] = in[c]

PlanesInv ==
    phase = "decode" /\ ByPlanes /\ CutWords(job) = {} =>
        \A k \in 0 .. Iterations - 1, u \in 0 .. Updates - 1 :
            Passed(k, u) => Bit(out[u], k) = Bit(job.image[u], k)

Differ(c) == (job.image[c] - NaiveSum(job.image, c) \div NumPixels(LastPlane)) % 2 ^ Width

RowsInv ==
    /\ phase = "encode" /\ job.scheme = "diff" =>
          /\ \A k \in 0 .. Iterations - 1, u \in 0 .. Updates - 1 :
                Passed(k, u) => out[Place(k, u)] = Differ(Place(k, u))
          /\ \A c \in Items(job) : ~InLoop(c) => out[c] = job.image[c]
    /\ phase = "decode" /\ job.scheme = "diff" =>
          \A c \in Items(job) : mid[c] = IF InLoop(c) THEN Differ(c) ELSE job.image[c]

\* One row that begins in front of the first plane is never gone through.
OneRowInv ==
    Loops /\ job.scheme = "diff" /\ OffsetsRequired(job) <= 1 =>
        \A t \in Team : next[t] = <<Begin(t), 0>> /\ reg[t] = Nothing

SumsInv ==
    phase = "decode" /\ job.scheme = "diff" /\ job.readers = 1 =>
          /\ \A k \in 0 .. Iterations - 1, u \in 0 .. Updates - 1 :
                Passed(k, u) => out[Place(k, u)] = job.image[Place(k, u)]
          /\ \A c \in Items(job) : ~InLoop(c) => out[c] = job.image[c]

BackgroundInv ==
    phase = "encode" /\ job.scheme \in {"remove_background", "rmestbkrd"} =>
        \A k \in 0 .. Iterations - 1 : Passed(k, 0) => out[k] = Reduced(job.image[k])

OutcomeInv ==
    phase = "decoded" => (Restores(job) => out = job.image) /\ BackgroundRight

KernelsInv ==
    /\ PhaseInv /\ LoopInv /\ MidInv /\ SseInv /\ ScalarInv /\ RestInv /\ PlanesInv
    /\ RowsInv /\ OneRowInv /\ SumsInv /\ BackgroundInv /\ OutcomeInv
-----------------------------------------------------------------------------
(* The loops *)

LEMMA PlaneItemIs ==
    ASSUME NEW j \in Jobs, NEW k \in 0 .. MaxSize(j) - 1, NEW u \in 0 .. Width - 1
    PROVE  LET c == PlaneItem(j, k, u)
           IN  /\ c \in 0 .. MaxSize(j) - 1
               /\ c \div Segment(j) = Width - 1 - u /\ c % Segment(j) = k \div Width
               /\ k \div Width \in Nat /\ k % Width \in 0 .. Width - 1
               /\ k = (k \div Width) * Width + (k % Width)
               /\ PlaneBit(k) \in 0 .. Width - 1 /\ PlaneBit(k) = Width - 1 - (k % Width)
<1>1. PICK g \in Nat, w \in Nat \ {0}, n \in Nat :
         g = Segment(j) /\ w = Width /\ n = MaxSize(j) /\ n = g * w
  BY Segments, Widths
<1>2. k \in Nat /\ k < g * w
  BY ONLY <1>1, k \in 0 .. MaxSize(j) - 1, n \in Nat
<1>3. PICK q \in Nat, r \in 0 .. w - 1 : q = k \div w /\ r = k % w /\ k = q * w + r
  BY ONLY <1>2, w \in Nat \ {0}, DivSplit
<1>4. q < g
  <2>1. SUFFICES ASSUME g <= q PROVE FALSE
    OBVIOUS
  <2>2. g * w <= q * w /\ g * w \in Nat /\ q * w \in Nat
    BY ONLY <2>1, g \in Nat, q \in Nat, w \in Nat, TimesUp
  <2> QED BY ONLY <1>2, <1>3, <2>2, r \in 0 .. w - 1, w \in Nat
<1>5. PICK p \in Nat : p = w - 1 - u /\ p + 1 <= w
  <2>1. w - 1 - u \in Nat /\ (w - 1 - u) + 1 <= w
    BY ONLY <1>1, u \in 0 .. Width - 1, w \in Nat \ {0}
  <2> QED BY <2>1
<1>6. PICK c \in Nat : c = p * g + q
  <2>1. p * g + q \in Nat
    BY ONLY p \in Nat, g \in Nat, q \in Nat
  <2> QED BY <2>1
<1>7. PlaneItem(j, k, u) = c
  BY ONLY <1>1, <1>3, <1>5, <1>6 DEF PlaneItem, Planes
<1>8. c \div g = p /\ c % g = q
  BY ONLY <1>4, <1>6, p \in Nat, g \in Nat, q \in Nat, c \in Nat, DivIs
<1>9. c < n
  <2>1. PICK m \in Nat : m = p + 1 /\ m <= w
    BY ONLY <1>5, p \in Nat, w \in Nat
  <2>2. m * g <= w * g /\ (p + 1) * g = p * g + g /\ p * g \in Nat
    BY ONLY <2>1, m \in Nat, p \in Nat, w \in Nat, g \in Nat, TimesUp
  <2>3. w * g = g * w
    BY ONLY w \in Nat, g \in Nat
  <2> QED BY ONLY <1>1, <1>4, <1>6, <2>1, <2>2, <2>3, g \in Nat, q \in Nat, n \in Nat, c \in Nat
<1>10. PlaneBit(k) = w - 1 - r /\ w - 1 - r \in 0 .. w - 1
  <2>1. PlaneBit(k) = w - 1 - r
    BY ONLY <1>1, <1>3 DEF PlaneBit, Planes
  <2> QED BY ONLY <2>1, r \in 0 .. w - 1, w \in Nat
<1>11. c \in 0 .. n - 1
  BY ONLY <1>9, c \in Nat, n \in Nat
<1> QED BY ONLY <1>1, <1>3, <1>5, <1>7, <1>8, <1>10, <1>11

\* The loops of the filters, one after the other.
LEMMA LoopKinds ==
    ASSUME PhaseInv, Loops
    PROVE  /\ \/ ByPlanes \/ ByRows \/ job.scheme \in {"remove_background", "rmestbkrd"}
           /\ ByPlanes /\ Encodes /\ UsesSse(job) =>
                 /\ Iterations = Width /\ Updates = Segment(job) /\ ~ReadsOutput
                 /\ \A k, u : Place(k, u) = k * Segment(job) + u
           /\ ByPlanes /\ Encodes /\ ~UsesSse(job) =>
                 /\ Iterations = MaxSize(job) /\ Updates = Width /\ ReadsOutput
                 /\ \A k, u : Place(k, u) = PlaneItem(job, k, u)
           /\ ByPlanes /\ ~Encodes =>
                 /\ Iterations = Width /\ Updates = MaxSize(job) /\ ReadsOutput
                 /\ \A k, u : Place(k, u) = u
           /\ ByRows =>
                 /\ job \in WithHalo /\ ~ByPlanes
                 /\ Iterations = Len(Offsets(job)) /\ Updates = HaloSize(job)
                 /\ \A k, u : Place(k, u) = Offsets(job)[k + 1] + u
                 /\ ReadsOutput <=> job.scheme = "diff" /\ ~Encodes
           /\ job.scheme \in {"remove_background", "rmestbkrd"} =>
                 /\ Iterations = Size(job) /\ Updates = 1 /\ ~ReadsOutput /\ Encodes
                 /\ ~ByPlanes /\ ~ByRows
                 /\ \A k, u : Place(k, u) = k
<1>1. job \in Jobs /\ job.scheme \in Schemes
  BY JobTypes DEF PhaseInv
<1>2. CASE ByPlanes
  BY <1>2 DEF ByPlanes, ByRows, Iterations, Updates, Place, ReadsOutput, Planes
<1>3. CASE ByRows
  <2>1. ~ByPlanes
    BY <1>3 DEF ByRows, ByPlanes
  <2>2. job \in WithHalo
    BY <1>1, <1>3 DEF ByRows, WithHalo
  <2>3. Rows[job].offsets = Offsets(job) /\ Rows[job].length = HaloSize(job)
    BY <2>2 DEF Rows
  <2>4. Iterations = Len(Offsets(job)) /\ Updates = HaloSize(job)
    BY <1>3, <2>1, <2>3 DEF Iterations, Updates
  <2>5. \A k, u : Place(k, u) = Offsets(job)[k + 1] + u
    BY <1>3, <2>1, <2>3 DEF Place
  <2>6. ReadsOutput <=> job.scheme = "diff" /\ ~Encodes
    BY <2>1 DEF ReadsOutput
  <2>7. ~(job.scheme \in {"remove_background", "rmestbkrd"})
    BY <1>3 DEF ByRows
  <2> QED BY ONLY <1>3, <2>1, <2>2, <2>4, <2>5, <2>6, <2>7
<1>4. CASE job.scheme \in {"remove_background", "rmestbkrd"}
  <2>1. ~ByPlanes /\ ~ByRows
    BY <1>4 DEF ByRows, ByPlanes
  <2>2. Encodes
    BY <1>4 DEF PhaseInv, Loops, Encodes
  <2>3. Iterations = Size(job) /\ Updates = 1
    BY <2>1 DEF Iterations, Updates
  <2>4. ~ReadsOutput
    BY <2>1, <2>2 DEF ReadsOutput
  <2>5. \A k, u : Place(k, u) = k
    BY <2>1 DEF Place
  <2> QED BY ONLY <1>4, <2>1, <2>2, <2>3, <2>4, <2>5
<1> QED BY <1>1, <1>2, <1>3, <1>4 DEF Schemes, ByPlanes, ByRows

LEMMA LoopTypes ==
    ASSUME PhaseInv, Loops
    PROVE  /\ job \in Jobs /\ Iterations \in Nat /\ Updates \in Nat
           /\ TeamSize(job, phase) \in Nat \ {0}
           /\ \A t \in Nat : /\ Begin(t) \in Nat
                             /\ Share(job, phase, Iterations, t).end = Begin(t + 1)
           /\ \A a, b \in Nat : a <= b => Begin(a) <= Begin(b)
           /\ Begin(0) = 0 /\ Begin(TeamSize(job, phase)) = Iterations
           /\ \A k \in 0 .. Iterations - 1, u \in 0 .. Updates - 1 :
                 /\ Place(k, u) \in Nat
                 /\ ~ByRows => Place(k, u) \in Items(job)
                 /\ ByPlanes => Place(k, u) \in 0 .. MaxSize(job) - 1
<1>1. job \in Jobs
  BY DEF PhaseInv
<1>2. PICK g \in Nat, w \in Nat \ {0}, n \in Nat, s \in Nat :
         g = Segment(job) /\ w = Width /\ n = MaxSize(job) /\ n = g * w /\ s = Size(job) /\ n <= s
  BY <1>1, Segments, Widths, JobTypes
<1>3. Iterations \in Nat /\ Updates \in Nat
  <2>1. CASE ByPlanes
    BY <1>2, <2>1, LoopKinds
  <2>2. CASE ByRows
    BY <2>2, LoopKinds, OffsetTypes
  <2>3. CASE job.scheme \in {"remove_background", "rmestbkrd"}
    BY <1>2, <2>3, LoopKinds
  <2> QED BY <2>1, <2>2, <2>3, LoopKinds
<1>4. /\ \A t \in Nat : /\ Begin(t) \in Nat
                        /\ Share(job, phase, Iterations, t).end = Begin(t + 1)
      /\ \A a, b \in Nat : a <= b => Begin(a) <= Begin(b)
      /\ Begin(0) = 0 /\ Begin(TeamSize(job, phase)) = Iterations
  <2>1. PICK i \in Nat, j \in Jobs, coding \in {phase} : i = Iterations /\ j = job
    BY <1>1, <1>3
  <2>2. /\ \A t \in Nat : /\ Share(j, coding, i, t).begin \in Nat
                          /\ Share(j, coding, i, t).end = Share(j, coding, i, t + 1).begin
        /\ \A a, b \in Nat : a <= b => Share(j, coding, i, a).begin <= Share(j, coding, i, b).begin
        /\ Share(j, coding, i, 0).begin = 0
        /\ Share(j, coding, i, TeamSize(j, coding)).begin = i
    BY ONLY i \in Nat, j \in Jobs, Shares
  <2>3. coding = phase
    BY <2>1
  <2> QED BY ONLY <2>1, <2>2, <2>3 DEF Begin
<1>5. ASSUME NEW k \in 0 .. Iterations - 1, NEW u \in 0 .. Updates - 1
      PROVE  /\ Place(k, u) \in Nat
             /\ ~ByRows => Place(k, u) \in Items(job)
             /\ ByPlanes => Place(k, u) \in 0 .. MaxSize(job) - 1
  <2>1. ASSUME Place(k, u) \in 0 .. MaxSize(job) - 1 PROVE Place(k, u) \in Items(job)
    BY ONLY <1>2, <2>1, n \in Nat, s \in Nat DEF Items
  <2>2. CASE ByPlanes /\ Encodes /\ UsesSse(job)
    <3>1. k \in 0 .. w - 1 /\ u \in 0 .. g - 1 /\ Place(k, u) = k * g + u
      BY <1>2, <2>2, LoopKinds
    <3>2. PICK m \in Nat : m = k + 1 /\ m <= w /\ k \in Nat
      BY ONLY <3>1, w \in Nat
    <3>3. m * g <= w * g /\ (k + 1) * g = k * g + g /\ k * g \in Nat /\ w * g = g * w
      BY ONLY <3>2, m \in Nat, w \in Nat, g \in Nat, TimesUp
    <3>4. k * g + u \in 0 .. n - 1
      BY ONLY <1>2, <3>1, <3>2, <3>3, g \in Nat, n \in Nat
    <3>5. Place(k, u) \in 0 .. MaxSize(job) - 1
      BY <1>2, <3>1, <3>4
    <3>6. Place(k, u) \in Nat
      BY ONLY <3>5, <1>2, n \in Nat
    <3> QED BY <2>1, <3>5, <3>6
  <2>3. CASE ByPlanes /\ Encodes /\ ~UsesSse(job)
    <3>1. Place(k, u) \in 0 .. MaxSize(job) - 1
      BY <1>1, <2>3, LoopKinds, PlaneItemIs
    <3>2. Place(k, u) \in Nat
      BY ONLY <3>1, <1>2, n \in Nat
    <3> QED BY <2>1, <3>1, <3>2
  <2>4. CASE ByPlanes /\ ~Encodes
    <3>1. Place(k, u) \in 0 .. MaxSize(job) - 1
      BY <2>4, LoopKinds
    <3>2. Place(k, u) \in Nat
      BY ONLY <3>1, <1>2, n \in Nat
    <3> QED BY <2>1, <3>1, <3>2
  <2>5. CASE ByRows
    <3>1. job \in WithHalo /\ ~ByPlanes /\ Place(k, u) = Offsets(job)[k + 1] + u
          /\ k \in 0 .. Len(Offsets(job)) - 1 /\ u \in 0 .. HaloSize(job) - 1
      BY <2>5, LoopKinds
    <3>2. Offsets(job)[k + 1] \in Nat /\ u \in Nat
      BY <3>1, OffsetTypes
    <3> QED BY <2>5, <3>1, <3>2
  <2>6. CASE job.scheme \in {"remove_background", "rmestbkrd"}
    <3>1. ~ByPlanes /\ ~ByRows /\ Place(k, u) = k /\ k \in 0 .. s - 1
      BY <1>2, <2>6, LoopKinds
    <3> QED BY <1>2, <3>1 DEF Items
  <2> QED BY <2>2, <2>3, <2>4, <2>5, <2>6, LoopKinds
<1>6. TeamSize(job, phase) \in Nat \ {0}
  BY <1>1, TeamType
<1> QED BY <1>1, <1>3, <1>4, <1>5, <1>6
-----------------------------------------------------------------------------
(* The steps of a loop *)

LEMMA SameLoop ==
    ASSUME phase' = phase, job' = job
    PROVE  /\ Team' = Team /\ Iterations' = Iterations /\ Updates' = Updates
           /\ ReadsOutput' <=> ReadsOutput
           /\ Loops' <=> Loops
           /\ Encodes' <=> Encodes
           /\ ByPlanes' <=> ByPlanes
           /\ ByRows' <=> ByRows
           /\ \A t : Begin(t)' = Begin(t)
           /\ \A t : Share(job, phase, Iterations, t)' = Share(job, phase, Iterations, t)
           /\ \A k, u : Place(k, u)' = Place(k, u)
           /\ \A c : InLoop(c)' <=> InLoop(c)
<1>1. /\ ByPlanes' <=> ByPlanes
      /\ ByRows' <=> ByRows
      /\ Encodes' <=> Encodes
  BY DEF ByPlanes, ByRows, Encodes
<1>2. Iterations' = Iterations /\ Updates' = Updates
  BY <1>1 DEF Iterations, Updates
<1>3. /\ \A t : Share(job, phase, Iterations, t)' = Share(job, phase, Iterations, t)
      /\ \A t : Begin(t)' = Begin(t)
  BY <1>2 DEF Begin, Share, TeamSize
<1>4. \A k, u : Place(k, u)' = Place(k, u)
  BY <1>1 DEF Place
<1>5. \A c : InLoop(c)' <=> InLoop(c)
  BY <1>2, <1>4 DEF InLoop
<1>6. ReadsOutput' <=> ReadsOutput
  BY <1>1 DEF ReadsOutput
<1> QED BY <1>1, <1>2, <1>3, <1>4, <1>5, <1>6 DEF Team, TeamSize, Loops

\* The place of a thread that has not finished.
LEMMA NextIs ==
    ASSUME PhaseInv, LoopInv, Loops, NEW t \in Team, ~Finished(t)
    PROVE  /\ t \in Nat /\ Updates \in Nat \ {0} /\ Iterations \in Nat
           /\ next[t] = <<next[t][1], next[t][2]>>
           /\ next[t][1] \in 0 .. Iterations - 1 /\ next[t][2] \in 0 .. Updates - 1
           /\ next[t][1] \in Nat /\ next[t][2] \in Nat
           /\ Begin(t) \in Nat /\ Begin(t + 1) \in Nat
           /\ Begin(t) <= next[t][1] /\ next[t][1] < Begin(t + 1)
           /\ Target(t) = Place(next[t][1], next[t][2])
<1>1. PICK n \in Nat, m \in Nat, s \in Nat \ {0} :
         n = Iterations /\ m = Updates /\ s = TeamSize(job, phase)
  BY LoopTypes
<1>2. t \in Nat /\ t + 1 \in Nat /\ t < s /\ t + 1 <= s
  BY ONLY <1>1, t \in Team, s \in Nat \ {0} DEF Team
<1>3. PICK a \in Nat, b \in Nat : next[t] = <<a, b>> /\ a = next[t][1] /\ b = next[t][2]
  BY DEF LoopInv
<1>4. PICK x \in Nat, y \in Nat : x = Begin(t) /\ y = Begin(t + 1) /\ y <= n
  BY <1>1, <1>2, LoopTypes
<1>5. Share(job, phase, Iterations, t).end = y
  BY <1>2, <1>4, LoopTypes
<1>6. a # y /\ ~(m <= 0)
  BY <1>1, <1>3, <1>5 DEF Finished
<1>7. x <= a /\ a <= y /\ (b = 0 \/ b < m)
  BY <1>1, <1>3, <1>4 DEF LoopInv
<1>8. a \in 0 .. n - 1 /\ b \in 0 .. m - 1 /\ m # 0 /\ a < y
  BY ONLY <1>4, <1>6, <1>7, a \in Nat, b \in Nat, y \in Nat, n \in Nat, m \in Nat
<1>9. Target(t) = Place(next[t][1], next[t][2])
  BY DEF Target, Place
<1> QED BY ONLY <1>1, <1>2, <1>3, <1>4, <1>7, <1>8, <1>9, n \in Nat, m \in Nat

\* A thread that goes on has passed one update more.
LEMMA StepLoop ==
    ASSUME PhaseInv, LoopInv, Loops, NEW t \in Team, ~Finished(t), Advance(t),
           phase' = phase, job' = job
    PROVE  /\ next' \in [Team -> Nat \X Nat]
           /\ \A x \in Team : x # t => next'[x] = next[x]
           /\ \A x \in Team :
                 /\ Begin(x) <= next'[x][1] /\ next'[x][1] <= Begin(x + 1)
                 /\ next'[x][2] = 0 \/ (next'[x][2] < Updates /\ next'[x][1] < Begin(x + 1))
           /\ \A k \in 0 .. Iterations - 1, u \in 0 .. Updates - 1 :
                 Passed(k, u)' <=> Passed(k, u) \/ (k = next[t][1] /\ u = next[t][2])
<1>1. PICK m \in Nat, a \in Nat, b \in Nat, x \in Nat, y \in Nat, n \in Nat :
         /\ m = Updates /\ n = Iterations
         /\ next[t] = <<a, b>> /\ a = next[t][1] /\ b = next[t][2]
         /\ x = Begin(t) /\ y = Begin(t + 1)
         /\ x <= a /\ a < y /\ b < m
  <2>1. next[t][2] < Updates
    BY NextIs
  <2> QED BY <2>1, NextIs
<1>2. PICK q \in Nat \X Nat : q = IF b + 1 < m THEN <<a, b + 1>> ELSE <<a + 1, 0>>
  <2>1. a + 1 \in Nat /\ b + 1 \in Nat /\ 0 \in Nat
    BY ONLY a \in Nat, b \in Nat
  <2>2. (IF b + 1 < m THEN <<a, b + 1>> ELSE <<a + 1, 0>>) \in Nat \X Nat
    BY ONLY <2>1, a \in Nat
  <2> QED BY ONLY <2>2
<1>3. next \in [Team -> Nat \X Nat] /\ next' = [next EXCEPT ![t] = q]
  BY <1>1, <1>2 DEF LoopInv, Advance
<1>4. next' \in [Team -> Nat \X Nat] /\ next'[t] = q /\ \A z \in Team : z # t => next'[z] = next[z]
  BY ONLY <1>3, t \in Team, q \in Nat \X Nat
<1>5. /\ q[1] = IF b + 1 < m THEN a ELSE a + 1
      /\ q[2] = IF b + 1 < m THEN b + 1 ELSE 0
  BY <1>2
<1>6. x <= q[1] /\ q[1] <= y /\ (q[2] = 0 \/ (q[2] < m /\ q[1] < y))
  BY ONLY <1>1, <1>5, a \in Nat, b \in Nat, m \in Nat, x \in Nat, y \in Nat
<1>7. ASSUME NEW z \in Team
      PROVE  /\ Begin(z) <= next'[z][1] /\ next'[z][1] <= Begin(z + 1)
             /\ next'[z][2] = 0 \/ (next'[z][2] < Updates /\ next'[z][1] < Begin(z + 1))
  <2>1. CASE z = t
    BY ONLY <1>1, <1>4, <1>6, <2>1
  <2>2. CASE z # t
    BY <1>4, <2>2 DEF LoopInv
  <2> QED BY <2>1, <2>2
<1>8. ASSUME NEW k \in 0 .. n - 1, NEW u \in 0 .. m - 1
      PROVE  Passed(k, u)' <=> Passed(k, u) \/ (k = a /\ u = b)
  <2> DEFINE P(z) == /\ Begin(z) <= k
                     /\ k < next[z][1] \/ (k = next[z][1] /\ u < next[z][2])
             R(z) == /\ Begin(z) <= k
                     /\ k < next'[z][1] \/ (k = next'[z][1] /\ u < next'[z][2])
  <2>1. Passed(k, u) <=> \E z \in Team : P(z)
    BY DEF Passed
  <2>2. Passed(k, u)' <=> \E z \in Team : R(z)
    BY SameLoop DEF Passed
  <2>3. \A z \in Team : z # t => (P(z) <=> R(z))
    BY <1>4
  <2>4. R(t) <=> x <= k /\ (k < q[1] \/ (k = q[1] /\ u < q[2]))
    BY <1>1, <1>4
  <2>5. P(t) <=> x <= k /\ (k < a \/ (k = a /\ u < b))
    BY <1>1
  <2> HIDE DEF P, R
  <2>6. k \in Nat /\ u \in Nat /\ u < m
    BY ONLY k \in 0 .. n - 1, u \in 0 .. m - 1, n \in Nat, m \in Nat
  <2>7. CASE b + 1 < m
    <3>1. q[1] = a /\ q[2] = b + 1
      BY <1>5, <2>7
    <3>2. R(t) <=> x <= k /\ (k < a \/ (k = a /\ u < b + 1))
      BY <2>4, <3>1
    <3>3. R(t) <=> P(t) \/ (k = a /\ u = b)
      BY ONLY <1>1, <2>5, <2>6, <3>2, a \in Nat, b \in Nat, k \in Nat, u \in Nat, x \in Nat
    <3> QED BY <2>1, <2>2, <2>3, <3>3
  <2>8. CASE ~(b + 1 < m)
    <3>1. q[1] = a + 1 /\ q[2] = 0 /\ b + 1 = m
      BY ONLY <1>1, <1>5, <2>8, a \in Nat, b \in Nat, m \in Nat
    <3>2. R(t) <=> x <= k /\ (k < a + 1 \/ (k = a + 1 /\ u < 0))
      BY <2>4, <3>1
    <3>3. R(t) <=> P(t) \/ (k = a /\ u = b)
      BY ONLY <1>1, <2>5, <2>6, <3>1, <3>2, a \in Nat, b \in Nat, k \in Nat, u \in Nat, x \in Nat,
              m \in Nat
    <3> QED BY <2>1, <2>2, <2>3, <3>3
  <2> QED BY <2>7, <2>8
<1> QED BY ONLY <1>1, <1>4, <1>7, <1>8

\* The loop that a phase starts with.
LEMMA StartLoop ==
    ASSUME NEW j \in Jobs, NEW coding, Starts(j, coding), job' = j, phase' = coding,
           j \in WithHalo => Len(Offsets(j)) \in Nat
    PROVE  /\ next' \in [Team' -> Nat \X Nat] /\ reg' = [t \in Team' |-> Nothing]
           /\ \A t \in Team' :
                 /\ Begin(t)' <= next'[t][1] /\ next'[t][1] <= Begin(t + 1)' /\ next'[t][2] = 0
                 /\ next'[t] = <<Begin(t)', 0>>
           /\ \A k \in Nat, u \in Nat : ~Passed(k, u)'
<1> DEFINE n == IF j.scheme = "bitswap" THEN IF coding = "encode" /\ ~UsesSse(j) THEN MaxSize(j)
                                             ELSE Planes
                ELSE IF j \in WithHalo THEN Len(Rows[j].offsets)
                ELSE Size(j)
           m == TeamSize(j, coding)
<1>1. next' = [t \in 0 .. m - 1 |-> <<Share(j, coding, n, t).begin, 0>>]
      /\ reg' = [t \in 0 .. m - 1 |-> Nothing]
  BY DEF Starts
<1>2. n \in Nat
  <2>1. MaxSize(j) \in Nat /\ Planes \in Nat /\ Size(j) \in Nat
    BY Segments, Widths, JobTypes DEF Planes
  <2>2. j \in WithHalo => Len(Rows[j].offsets) \in Nat
    BY DEF Rows
  <2> QED BY <2>1, <2>2
<1>3. Iterations' = n
  <2>1. j \in WithHalo <=> j.scheme \in {"diff", "rmbkrd_neighbor"}
    BY DEF WithHalo
  <2> QED BY <2>1 DEF Iterations, ByPlanes, ByRows, Encodes
<1>4. Team' = 0 .. m - 1 /\ m \in Nat \ {0}
  BY TeamType DEF Team
<1>5. \A t : Begin(t)' = Share(j, coding, n, t).begin
  BY <1>3 DEF Begin
<1> HIDE DEF n, m
<1>6. /\ \A t \in Nat : Share(j, coding, n, t).begin \in Nat
      /\ \A a, b \in Nat : a <= b => Share(j, coding, n, a).begin <= Share(j, coding, n, b).begin
  BY <1>2, Shares
<1>7. ASSUME NEW t \in Team'
      PROVE  /\ t \in Nat /\ Begin(t)' \in Nat /\ Begin(t + 1)' \in Nat
             /\ Begin(t)' <= Begin(t + 1)' /\ next'[t] = <<Begin(t)', 0>>
  <2>1. t \in Nat /\ t + 1 \in Nat /\ t <= t + 1 /\ t \in 0 .. m - 1
    BY ONLY <1>4, <1>7, m \in Nat
  <2> QED BY <1>1, <1>5, <1>6, <2>1
<1>8. next' \in [Team' -> Nat \X Nat]
  BY <1>1, <1>4, <1>5, <1>7
<1>9. ASSUME NEW k \in Nat, NEW u \in Nat PROVE ~Passed(k, u)'
  <2>1. SUFFICES ASSUME NEW t \in Team', Begin(t)' <= k,
                        k < next'[t][1] \/ (k = next'[t][1] /\ u < next'[t][2])
                 PROVE  FALSE
    BY DEF Passed
  <2>2. next'[t][1] = Begin(t)' /\ next'[t][2] = 0 /\ Begin(t)' \in Nat
    BY <1>7
  <2> QED BY <2>1, <2>2
<1>10. \A t \in Team' : next'[t][1] = Begin(t)' /\ next'[t][2] = 0
  BY <1>7
<1> QED BY <1>1, <1>4, <1>7, <1>8, <1>9, <1>10

\* When the team has finished all of the loop is passed.
LEMMA AllPassed ==
    ASSUME PhaseInv, LoopInv, Loops, \A t \in Team : Finished(t),
           NEW k \in 0 .. Iterations - 1, NEW u \in 0 .. Updates - 1
    PROVE  Passed(k, u)
<1>1. PICK n \in Nat, m \in Nat : n = Iterations /\ m = Updates
  BY LoopTypes
<1>2. job \in Jobs /\ Updates > 0 /\ k \in 0 .. n - 1
  BY <1>1 DEF PhaseInv
<1>3. PICK t \in 0 .. TeamSize(job, phase) - 1 :
         Share(job, phase, n, t).begin <= k /\ k < Share(job, phase, n, t + 1).begin
  BY <1>1, <1>2, OwnerExists
<1>4. t \in Team /\ Begin(t) <= k /\ k < Begin(t + 1)
  BY <1>1, <1>3 DEF Team, Begin
<1>5. next[t][1] = Share(job, phase, Iterations, t).end
  <2>1. ~(Updates <= 0)
    BY ONLY <1>1, <1>2, m \in Nat
  <2> QED BY <1>4, <2>1 DEF Finished
<1>6. t \in Nat
  BY <1>3, TeamType, LoopTypes
<1>7. next[t][1] = Begin(t + 1)
  BY <1>5, <1>6, LoopTypes
<1> QED BY <1>4, <1>7 DEF Passed
-----------------------------------------------------------------------------
(* The values that are written *)

LEMMA ValueKinds ==
    ASSUME NEW t, NEW k, NEW u, NEW c, k = next[t][1], u = next[t][2], c = Target(t)
    PROVE  /\ ByPlanes /\ Encodes /\ ~UsesSse(job) =>
                 Value(t) = SetBits(out[c], Bit(in[k], u), PlaneBit(k))
           /\ ByPlanes /\ ~Encodes =>
                 Value(t) = SetBits(out[c], Bit(in[PlaneItem(job, u, k)], PlaneBit(u)), k)
           /\ ByPlanes /\ Encodes /\ UsesSse(job) => Value(t) = Collected(k, u)
           /\ job.scheme = "diff" /\ ~Encodes => Value(t) = Summed(c)
           /\ job.scheme = "diff" /\ Encodes => Value(t) = Difference(c)
           /\ job.scheme = "rmbkrd_neighbor" =>
                 Value(t) = IF Below(c) THEN out[c] ELSE IF Lonely(c) THEN 0 ELSE in[c]
           /\ job.scheme \in {"remove_background", "rmestbkrd"} => Value(t) = Reduced(in[c])
           /\ c \in Touched(t)
           /\ job.scheme = "diff" =>
                 \A q \in DOMAIN Neighbours(job, c) : Neighbours(job, c)[q] \in Touched(t)
<1>1. c \in Touched(t)
  BY DEF Touched
<1>2. job.scheme = "diff" =>
         \A q \in DOMAIN Neighbours(job, c) : Neighbours(job, c)[q] \in Touched(t)
  BY DEF Touched
<1>3. CASE ByPlanes
  BY <1>1, <1>2, <1>3 DEF Value, ByPlanes
<1>4. CASE ~ByPlanes
  <2>1. job.scheme = "diff" => Value(t) = IF Encodes THEN Difference(c) ELSE Summed(c)
    BY <1>4 DEF Value
  <2>2. job.scheme = "rmbkrd_neighbor" =>
           Value(t) = IF Below(c) THEN out[c] ELSE IF Lonely(c) THEN 0 ELSE in[c]
    BY <1>4 DEF Value
  <2>3. job.scheme \in {"remove_background", "rmestbkrd"} => Value(t) = Reduced(in[c])
    BY <1>4 DEF Value
  <2> QED BY <1>1, <1>2, <1>4, <2>1, <2>2, <2>3
<1> QED BY <1>3, <1>4

\* A bit that is set keeps a value a value.
LEMMA SetBitsValue ==
    ASSUME NEW w \in Values, NEW x \in {0, 1}, NEW k \in 0 .. Width - 1
    PROVE  /\ SetBits(w, x, k) \in Values
           /\ \A b \in Nat : Bit(SetBits(w, x, k), b) = IF b = k THEN x ELSE Bit(w, b)
<1>1. PICK n \in Nat : n = Width
  BY Widths
<1>2. w \in Nat /\ w < 2 ^ n /\ k \in Nat /\ k < n
  BY <1>1, ValuesType
<1>3. /\ SetBits(w, x, k) \in Nat /\ SetBits(w, x, k) < 2 ^ n
      /\ \A b \in Nat : Bit(SetBits(w, x, k), b) = IF b = k THEN x ELSE Bit(w, b)
  BY ONLY <1>2, n \in Nat, x \in {0, 1}, SetBitsRight
<1> QED BY <1>1, <1>3, ValuesType

\* The bits that bitswap sets, and where.
LEMMA BitsToSet ==
    ASSUME PhaseInv, LoopInv, Loops, ByPlanes, NEW t \in Team, ~Finished(t),
           NEW k, NEW u, NEW c, k = next[t][1], u = next[t][2], c = Target(t)
    PROVE  /\ c \in Items(job) /\ c \in 0 .. MaxSize(job) - 1 /\ out[c] \in Values
           /\ Encodes /\ ~UsesSse(job) =>
                 /\ k \in Items(job) /\ Bit(in[k], u) \in {0, 1} /\ PlaneBit(k) \in 0 .. Width - 1
                 /\ k \in 0 .. MaxSize(job) - 1 /\ u \in 0 .. Width - 1
           /\ ~Encodes =>
                 /\ PlaneItem(job, u, k) \in Items(job) /\ k \in 0 .. Width - 1
                 /\ PlaneItem(job, u, k) \in 0 .. MaxSize(job) - 1
                 /\ u \in 0 .. MaxSize(job) - 1 /\ c = u
                 /\ Bit(in[PlaneItem(job, u, k)], PlaneBit(u)) \in {0, 1}
<1>1. job \in Jobs /\ in \in [Items(job) -> Values] /\ out \in [Items(job) -> Values]
  BY DEF PhaseInv
<1>2. /\ k \in 0 .. Iterations - 1 /\ u \in 0 .. Updates - 1 /\ k \in Nat /\ u \in Nat
      /\ c = Place(k, u)
  BY NextIs
<1>3. c \in Items(job) /\ c \in 0 .. MaxSize(job) - 1 /\ out[c] \in Values
  <2>1. c \in 0 .. MaxSize(job) - 1 /\ (~ByRows => c \in Items(job))
    BY <1>2, LoopTypes
  <2>2. ~ByRows
    BY DEF ByPlanes, ByRows
  <2> QED BY <1>1, <2>1, <2>2
<1>4. \A i \in 0 .. MaxSize(job) - 1 : i \in Items(job)
  <2>1. PICK n \in Nat, s \in Nat : n = MaxSize(job) /\ s = Size(job) /\ n <= s
    BY <1>1, Segments, JobTypes
  <2> QED BY ONLY <2>1, n \in Nat, s \in Nat DEF Items
<1>5. ASSUME Encodes, ~UsesSse(job)
      PROVE  /\ k \in Items(job) /\ Bit(in[k], u) \in {0, 1} /\ PlaneBit(k) \in 0 .. Width - 1
             /\ k \in 0 .. MaxSize(job) - 1 /\ u \in 0 .. Width - 1
  <2>1. k \in 0 .. MaxSize(job) - 1 /\ u \in 0 .. Width - 1
    BY <1>2, <1>5, LoopKinds
  <2>2. k \in Items(job) /\ in[k] \in Nat
    BY <1>1, <1>4, <2>1, ValuesType
  <2>3. PlaneBit(k) \in 0 .. Width - 1
    BY <1>1, <2>1, PlaneItemIs
  <2> QED BY <1>2, <2>1, <2>2, <2>3, BitType
<1>6. ASSUME ~Encodes
      PROVE  /\ PlaneItem(job, u, k) \in Items(job) /\ k \in 0 .. Width - 1
             /\ PlaneItem(job, u, k) \in 0 .. MaxSize(job) - 1
             /\ u \in 0 .. MaxSize(job) - 1 /\ c = u
             /\ Bit(in[PlaneItem(job, u, k)], PlaneBit(u)) \in {0, 1}
  <2>1. k \in 0 .. Width - 1 /\ u \in 0 .. MaxSize(job) - 1 /\ c = u
    BY <1>2, <1>6, LoopKinds
  <2>2. PlaneItem(job, u, k) \in 0 .. MaxSize(job) - 1 /\ PlaneBit(u) \in 0 .. Width - 1
    BY <1>1, <2>1, PlaneItemIs
  <2>3. PlaneItem(job, u, k) \in Items(job) /\ in[PlaneItem(job, u, k)] \in Nat
    BY <1>1, <1>4, <2>2, ValuesType
  <2>4. PlaneBit(u) \in Nat
    BY <2>2, Widths
  <2> QED BY <2>1, <2>2, <2>3, <2>4, BitType
<1> QED BY <1>3, <1>5, <1>6

\* The words that the SSE path collects.
LEMMA CollectedIs ==
    ASSUME NEW j \in Jobs, NEW k \in 0 .. Width - 1, NEW u \in 0 .. Segment(j) - 1, in = j.image,
           NEW c, c = k * Segment(j) + u
    PROVE  c \in 0 .. MaxSize(j) - 1 /\ Collected(k, u) = Transposed(j, c) /\ Collected(k, u) \in Values
<1>1. PICK g \in Nat \ {0}, w \in Nat \ {0}, n \in Nat, s \in Nat :
         g = Segment(j) /\ w = Width /\ n = MaxSize(j) /\ n = g * w /\ s = Size(j) /\ n <= s
  <2>1. PICK g \in Nat, w \in Nat \ {0}, n \in Nat, s \in Nat :
           g = Segment(j) /\ w = Width /\ n = MaxSize(j) /\ n = g * w /\ s = Size(j) /\ n <= s
    <3>1. /\ MaxSize(j) \in Nat /\ MaxSize(j) <= Size(j) /\ Segment(j) \in Nat
          /\ MaxSize(j) = Segment(j) * Width /\ Size(j) \in Nat /\ Width \in Nat \ {0}
      BY Segments, Widths, JobTypes
    <3> QED BY ONLY <3>1
  <2>2. g # 0
    BY ONLY <2>1, u \in 0 .. Segment(j) - 1, g \in Nat
  <2> QED BY ONLY <2>1, <2>2
<1>2. k \in Nat /\ u \in Nat /\ k + 1 <= w /\ u + 1 <= g
  BY ONLY <1>1, k \in 0 .. Width - 1, u \in 0 .. Segment(j) - 1, g \in Nat, w \in Nat
<1>3. c \in Nat /\ c < n
  <2>1. PICK m \in Nat : m = k + 1 /\ m <= w
    BY <1>2
  <2>2. m * g <= w * g /\ (k + 1) * g = k * g + g /\ k * g \in Nat /\ w * g = g * w
    BY ONLY <1>2, <2>1, m \in Nat, w \in Nat, g \in Nat, TimesUp
  <2> QED BY ONLY <1>1, <1>2, <2>1, <2>2, c = k * Segment(j) + u, g \in Nat, n \in Nat
<1>4. c \div g = k /\ c % g = u
  <2>1. c = k * g + u /\ c \in Nat /\ u < g
    BY ONLY <1>1, <1>2, <1>3, c = k * Segment(j) + u, g \in Nat \ {0}
  <2> QED BY ONLY <1>2, <2>1, g \in Nat \ {0}, DivIs
<1>5. c \in 0 .. MaxSize(j) - 1
  BY ONLY <1>1, <1>3, n \in Nat
<1>6. WordBits(j, c) = PlaneBits(in, u * Width, Width - 1 - k)
  BY <1>1, <1>4 DEF WordBits
<1>7. ASSUME NEW i \in 0 .. Width - 1 PROVE in[u * Width + i] \in Nat
  <2>1. PICK a \in Nat : a = u * w /\ a + w <= n
    <3>1. PICK m \in Nat : m = u + 1 /\ m <= g
      BY <1>2
    <3>2. m * w <= g * w /\ (u + 1) * w = u * w + w /\ u * w \in Nat
      BY ONLY <1>2, <3>1, m \in Nat, w \in Nat, g \in Nat, TimesUp
    <3> QED BY ONLY <1>1, <3>1, <3>2, g \in Nat, n \in Nat
  <2>2. u * Width + i \in Items(j)
    <3>1. a + i \in 0 .. s - 1
      BY ONLY <1>1, <2>1, i \in 0 .. Width - 1, a \in Nat, n \in Nat, s \in Nat, w \in Nat
    <3> QED BY <1>1, <2>1, <3>1 DEF Items
  <2> QED BY <2>2, JobTypes, ValuesType
<1>8. IsWord(Collected(k, u), Width, WordBits(j, c))
  BY <1>2, <1>6, <1>7, CollectedIsWord
<1>9. IsWord(Transposed(j, c), Width, WordBits(j, c))
  BY <1>5, TransposedIsWord
<1>10. Collected(k, u) = Transposed(j, c)
  BY <1>1, <1>8, <1>9, WordUnique
<1>11. Collected(k, u) \in Values
  BY <1>8, ValuesType DEF IsWord
<1> QED BY <1>5, <1>10, <1>11

\* What diff takes off an item, and puts back.
LEMMA DiffTypes ==
    ASSUME PhaseInv, Loops, job.scheme = "diff", NEW c \in Items(job),
           \A q \in DOMAIN Neighbours(job, c) : Neighbours(job, c)[q] \in Items(job)
    PROVE  Difference(c) \in Values /\ Summed(c) \in Values
<1>1. /\ job \in WithHalo /\ in \in [Items(job) -> Values] /\ out \in [Items(job) -> Values]
  BY DEF PhaseInv, WithHalo
<1>2. PICK s \in Nat, r \in Nat, v \in Nat : s = NaiveSum(in, c) /\ r = NaiveSum(out, c) /\ v = in[c]
  BY <1>1, NaiveSumType, ValuesType
<1> QED BY <1>2, PutBack DEF Difference, Summed

LEMMA ValueType ==
    ASSUME PhaseInv, LoopInv, Loops, NEW t \in Team, ~Finished(t), Touched(t) \subseteq Items(job)
    PROVE  Value(t) \in Values /\ Target(t) \in Items(job)
<1>0. PICK c : c = Target(t)
  OBVIOUS
<1>1. PICK k \in Nat, u \in Nat : k = next[t][1] /\ u = next[t][2]
  BY NextIs
<1>2. c \in Items(job)
  BY <1>0, <1>1, ValueKinds
<1>3. /\ job \in Jobs /\ in \in [Items(job) -> Values] /\ out \in [Items(job) -> Values]
      /\ level \in Nat
  BY DEF PhaseInv
<1>4. CASE ByPlanes /\ ~(Encodes /\ UsesSse(job))
  <2>1. CASE Encodes
    BY <1>0, <1>1, <1>4, <2>1, BitsToSet, SetBitsValue, ValueKinds
  <2>2. CASE ~Encodes
    BY <1>0, <1>1, <1>4, <2>2, BitsToSet, SetBitsValue, ValueKinds
  <2> QED BY <1>0, <1>1, <1>2, <2>1, <2>2
<1>5. CASE ByPlanes /\ Encodes /\ UsesSse(job)
  <2>1. /\ k \in 0 .. Width - 1 /\ u \in 0 .. Segment(job) - 1
    BY <1>0, <1>1, <1>5, NextIs, LoopKinds
  <2>2. in = job.image
    BY <1>5 DEF PhaseInv, Encodes
  <2>3. Collected(k, u) \in Values
    BY <1>3, <2>1, <2>2, CollectedIs
  <2> QED BY <1>0, <1>1, <1>2, <1>5, <2>3, ValueKinds
<1>6. CASE job.scheme = "diff"
  BY <1>0, <1>1, <1>2, <1>6, ValueKinds, DiffTypes
<1>7. CASE job.scheme = "rmbkrd_neighbor"
  BY <1>0, <1>1, <1>2, <1>3, <1>7, ValueKinds, ValuesType
<1>8. CASE job.scheme \in {"remove_background", "rmestbkrd"}
  BY <1>0, <1>1, <1>2, <1>3, <1>8, ValueKinds, ReducedType
<1> QED BY <1>3, <1>4, <1>5, <1>6, <1>7, <1>8, JobTypes DEF Schemes, ByPlanes
-----------------------------------------------------------------------------
(* One step of a thread *)

\* A value goes to its place; it is the right one if nobody interferes.
Puts(t, v) ==
    /\ Works(t) /\ Advance(t)
    /\ out' = [out EXCEPT ![Target(t)] = v]
    /\ phase' = phase /\ job' = job /\ level' = level /\ in' = in /\ mid' = mid
    /\ v \in Values /\ Touched(t) \subseteq Items(job)
    /\ ~ReadsOutput \/ Alone(t) => v = Value(t)

\* Another thread's step does not change what a thread is about to do.
LEMMA SamePlace ==
    ASSUME phase' = phase, job' = job, in' = in, level' = level, NEW x, next'[x] = next[x]
    PROVE  /\ Target(x)' = Target(x) /\ Touched(x)' = Touched(x)
           /\ Finished(x)' <=> Finished(x)
           /\ Alone(x)' <=> Alone(x)
           /\ out' = out => Value(x)' = Value(x)
           /\ ByPlanes /\ Encodes /\ ~UsesSse(job) /\ out'[Target(x)] = out[Target(x)] =>
                 Value(x)' = Value(x)
<1>1. /\ ByPlanes' <=> ByPlanes
      /\ ByRows' <=> ByRows
      /\ Encodes' <=> Encodes
      /\ Updates' = Updates
      /\ Share(job, phase, Iterations, x)' = Share(job, phase, Iterations, x)
  BY SameLoop
<1>2. Target(x)' = Target(x)
  BY <1>1 DEF Target
<1>3. \A c : Below(c)' <=> Below(c)
  BY DEF Below
<1>4. Touched(x)' = Touched(x)
  BY <1>2, <1>3 DEF Touched
<1>5. Finished(x)' <=> Finished(x)
  BY <1>1 DEF Finished
<1>6. Alone(x)' <=> Alone(x)
  BY <1>1, <1>2 DEF Alone
<1>7. ASSUME out' = out PROVE Value(x)' = Value(x)
  <2>1. \A c : /\ Lonely(c)' <=> Lonely(c)
               /\ Summed(c)' = Summed(c) /\ Difference(c)' = Difference(c)
    BY <1>7 DEF Lonely, Summed, Difference, NaiveSum
  <2>2. \A v : Reduced(v)' = Reduced(v)
    BY DEF Reduced
  <2>3. \A k, u : Collected(k, u)' = Collected(k, u)
    BY DEF Collected
  <2> QED BY <1>1, <1>2, <1>3, <1>7, <2>1, <2>2, <2>3 DEF Value
<1>8. ASSUME ByPlanes, Encodes, ~UsesSse(job), out'[Target(x)] = out[Target(x)]
      PROVE  Value(x)' = Value(x)
  <2>1. ByPlanes' /\ Encodes' /\ ~UsesSse(job') /\ out'[Target(x)'] = out[Target(x)]
    BY <1>1, <1>2, <1>8
  <2>2. Value(x) = SetBits(out[Target(x)], Bit(in[next[x][1]], next[x][2]), PlaneBit(next[x][1]))
    BY <1>8, ValueKinds
  <2>3. Value(x)' = SetBits(out'[Target(x)'], Bit(in[next[x][1]], next[x][2]), PlaneBit(next[x][1]))
    BY <2>1 DEF Value, ByPlanes
  <2> QED BY <2>1, <2>2, <2>3
<1> QED BY <1>2, <1>4, <1>5, <1>6, <1>7, <1>8

LEMMA StorePuts ==
    ASSUME PhaseInv, LoopInv, NEW t \in DOMAIN next, Store(t)
    PROVE  Puts(t, reg[t])
<1>1. Loops /\ t \in Team /\ ~Finished(t)
  BY DEF Store, Works, Loops
<1>2. reg[t] \in Values \cup {Nothing} /\ reg[t] # Nothing
  BY <1>1 DEF LoopInv, Store
<1>3. ReadsOutput /\ Touched(t) \subseteq Items(job) /\ (Alone(t) => reg[t] = Value(t))
  BY <1>1, <1>2 DEF LoopInv
<1> QED BY <1>2, <1>3 DEF Store, Puts

LEMMA WritePuts ==
    ASSUME PhaseInv, LoopInv, NEW t \in DOMAIN next, Write(t)
    PROVE  Puts(t, Value(t))
<1>1. Loops /\ t \in Team /\ ~Finished(t) /\ Touched(t) \subseteq Items(job)
  BY DEF Write, Works, Loops
<1>2. Value(t) \in Values
  BY <1>1, ValueType
<1> QED BY <1>1, <1>2 DEF Write, Puts

\* What such a step changes.
LEMMA PutsStep ==
    ASSUME PhaseInv, LoopInv, NEW t, NEW v, Puts(t, v)
    PROVE  /\ Loops /\ t \in Team /\ ~Finished(t)
           /\ Target(t) \in Items(job) /\ v \in Values
           /\ Target(t) = Place(next[t][1], next[t][2])
           /\ next[t][1] \in 0 .. Iterations - 1 /\ next[t][2] \in 0 .. Updates - 1
           /\ out' \in [Items(job) -> Values]
           /\ \A c \in Items(job) : out'[c] = IF c = Target(t) THEN v ELSE out[c]
           /\ \A k \in 0 .. Iterations - 1, u \in 0 .. Updates - 1 :
                 Passed(k, u)' <=> Passed(k, u) \/ (k = next[t][1] /\ u = next[t][2])
<1>1. Loops /\ t \in Team /\ ~Finished(t)
  BY DEF Puts, Works, Loops
<1>2. Target(t) \in Items(job)
  BY ValueKinds DEF Puts
<1>3. out \in [Items(job) -> Values] /\ v \in Values /\ out' = [out EXCEPT ![Target(t)] = v]
  BY <1>1 DEF PhaseInv, Puts
<1>4. \A k \in 0 .. Iterations - 1, u \in 0 .. Updates - 1 :
         Passed(k, u)' <=> Passed(k, u) \/ (k = next[t][1] /\ u = next[t][2])
  BY <1>1, StepLoop DEF Puts
<1>5. /\ Target(t) = Place(next[t][1], next[t][2])
      /\ next[t][1] \in 0 .. Iterations - 1 /\ next[t][2] \in 0 .. Updates - 1
  BY <1>1, NextIs
<1>6. /\ out' \in [Items(job) -> Values]
      /\ \A c \in Items(job) : out'[c] = IF c = Target(t) THEN v ELSE out[c]
  BY ONLY <1>2, <1>3
<1> QED BY <1>1, <1>2, <1>3, <1>4, <1>5, <1>6

\* Two threads set bits of the same word only where it is cut.
LEMMA TargetsApart ==
    ASSUME PhaseInv, LoopInv, ByPlanes, Encodes, ~UsesSse(job),
           NEW t \in Team, ~Finished(t), NEW x \in Team, ~Finished(x), t # x,
           Target(x) \notin CutWords(job)
    PROVE  Target(t) # Target(x)
<1> SUFFICES ASSUME Target(t) = Target(x) PROVE FALSE
  OBVIOUS
<1>0. Loops
  BY DEF Loops, Encodes
<1>1. job \in Jobs /\ job.scheme = "bitswap" /\ phase = "encode"
  BY DEF PhaseInv, ByPlanes, Encodes
<1>2. Iterations = MaxSize(job) /\ Updates = Width /\ \A k, u : Place(k, u) = PlaneItem(job, k, u)
  BY <1>0, LoopKinds
<1>3. PICK c : c = Target(x)
  OBVIOUS
<1>4. Team = 0 .. job.threads - 1
  BY <1>1 DEF Team, TeamSize
<1>5. ASSUME NEW y \in Team, ~Finished(y), Target(y) = c
      PROVE  /\ c \in 0 .. MaxSize(job) - 1
             /\ \E i \in 0 .. Width - 1 :
                   LET first == (c % Segment(job)) * Width
                       S(z) == Share(job, "encode", MaxSize(job), z)
                   IN  S(y).begin <= first + i /\ first + i < S(y + 1).begin
  <2>1. PICK k, u : /\ k \in 0 .. MaxSize(job) - 1 /\ u \in 0 .. Width - 1
                    /\ Begin(y) <= k /\ k < Begin(y + 1) /\ c = PlaneItem(job, k, u)
    BY <1>0, <1>2, <1>5, NextIs
  <2>2. /\ c \in 0 .. MaxSize(job) - 1
        /\ c % Segment(job) = k \div Width /\ k % Width \in 0 .. Width - 1
        /\ k = (k \div Width) * Width + (k % Width)
    BY <1>1, <2>1, PlaneItemIs
  <2>3. k = (c % Segment(job)) * Width + (k % Width)
    BY ONLY <2>2
  <2>4. \A z : Begin(z) = Share(job, "encode", MaxSize(job), z).begin
    BY <1>1, <1>2 DEF Begin
  <2> QED BY <2>1, <2>2, <2>3, <2>4
<1>6. c \in 0 .. MaxSize(job) - 1 /\ c \notin CutWords(job)
  BY <1>3, <1>5
<1>7. PICK i \in 0 .. Width - 1 :
         LET first == (c % Segment(job)) * Width
             S(z) == Share(job, "encode", MaxSize(job), z)
         IN  S(t).begin <= first + i /\ first + i < S(t + 1).begin
  BY <1>3, <1>5
<1>8. PICK e \in 0 .. Width - 1 :
         LET first == (c % Segment(job)) * Width
             S(z) == Share(job, "encode", MaxSize(job), z)
         IN  S(x).begin <= first + e /\ first + e < S(x + 1).begin
  BY <1>3, <1>5
<1>9. t \in 0 .. job.threads - 1 /\ x \in 0 .. job.threads - 1
  BY <1>4
<1>10. t = x
  BY <1>1, <1>6, <1>7, <1>8, <1>9, UncutOwner
<1> QED BY <1>10
-----------------------------------------------------------------------------
(* LoopInv *)

LEMMA LoadLoop ==
    ASSUME PhaseInv, LoopInv, NEW t \in DOMAIN next, Load(t)
    PROVE  LoopInv'
<1>1. /\ Loops /\ t \in Team /\ ~Finished(t) /\ ReadsOutput /\ Touched(t) \subseteq Items(job)
      /\ phase' = phase /\ job' = job /\ in' = in /\ level' = level /\ next' = next /\ out' = out
      /\ reg' = [reg EXCEPT ![t] = Value(t)]
  BY DEF Load, Works, Loops
<1>2. /\ Team' = Team /\ Updates' = Updates
      /\ ReadsOutput' <=> ReadsOutput
      /\ \A x : Begin(x)' = Begin(x)
  BY <1>1, SameLoop
<1>3. Value(t) \in Values
  BY <1>1, ValueType
<1>4. reg \in [Team -> Values \cup {Nothing}]
  BY <1>1 DEF LoopInv
<1>5. reg' \in [Team -> Values \cup {Nothing}] /\ \A x \in Team : reg'[x] = IF x = t THEN Value(t) ELSE reg[x]
  BY <1>1, <1>3, <1>4
<1>6. ASSUME NEW x \in Team, reg'[x] # Nothing
      PROVE  /\ ReadsOutput' /\ ~Finished(x)' /\ Touched(x)' \subseteq Items(job')
             /\ Alone(x)' => reg'[x] = Value(x)'
  <2>1. /\ Touched(x)' = Touched(x) /\ Value(x)' = Value(x)
        /\ Finished(x)' <=> Finished(x)
        /\ Alone(x)' <=> Alone(x)
    BY <1>1, SamePlace
  <2>2. CASE x = t
    BY <1>1, <1>2, <1>5, <2>1, <2>2
  <2>3. CASE x # t
    <3>1. reg[x] = reg'[x]
      BY <1>5, <2>3
    <3>2. ~Finished(x) /\ Touched(x) \subseteq Items(job) /\ (Alone(x) => reg[x] = Value(x))
      BY <1>1, <1>6, <3>1 DEF LoopInv
    <3> QED BY <1>1, <1>2, <2>1, <3>1, <3>2
  <2> QED BY <2>2, <2>3
<1>7. next' \in [Team' -> Nat \X Nat] /\ reg' \in [Team' -> Values \cup {Nothing}]
  BY <1>1, <1>2, <1>5 DEF LoopInv
<1>8. \A x \in Team' : /\ Begin(x)' <= next'[x][1] /\ next'[x][1] <= Begin(x + 1)'
                       /\ next'[x][2] = 0 \/ (next'[x][2] < Updates' /\ next'[x][1] < Begin(x + 1)')
  BY <1>1, <1>2 DEF LoopInv
<1>9. \A x \in Team' : reg'[x] # Nothing =>
                          /\ ReadsOutput' /\ ~Finished(x)' /\ Touched(x)' \subseteq Items(job')
                          /\ Alone(x)' => reg'[x] = Value(x)'
  BY <1>2, <1>6
<1> QED BY <1>7, <1>8, <1>9 DEF LoopInv

\* What the threads have in their registers after a step that writes.
LEMMA PutsLoop ==
    ASSUME PhaseInv, LoopInv, NEW t, NEW v, Puts(t, v),
           reg' \in [Team -> Values \cup {Nothing}],
           reg'[t] = Nothing, \A x \in Team : x # t => reg'[x] = reg[x]
    PROVE  LoopInv'
<1>1. /\ Loops /\ t \in Team /\ ~Finished(t)
      /\ phase' = phase /\ job' = job /\ in' = in /\ level' = level /\ Advance(t)
  BY PutsStep DEF Puts
<1>2. /\ Team' = Team /\ Updates' = Updates
      /\ ReadsOutput' <=> ReadsOutput
      /\ \A x : Begin(x)' = Begin(x)
  BY <1>1, SameLoop
<1>3. /\ next' \in [Team -> Nat \X Nat]
      /\ \A x \in Team : x # t => next'[x] = next[x]
      /\ \A x \in Team :
            /\ Begin(x) <= next'[x][1] /\ next'[x][1] <= Begin(x + 1)
            /\ next'[x][2] = 0 \/ (next'[x][2] < Updates /\ next'[x][1] < Begin(x + 1))
  BY <1>1, StepLoop
<1>4. ASSUME NEW x \in Team, reg'[x] # Nothing
      PROVE  /\ ReadsOutput' /\ ~Finished(x)' /\ Touched(x)' \subseteq Items(job')
             /\ Alone(x)' => reg'[x] = Value(x)'
  <2>1. x # t /\ reg[x] = reg'[x] /\ next'[x] = next[x]
    BY <1>3, <1>4
  <2>2. /\ ReadsOutput /\ ~Finished(x) /\ Touched(x) \subseteq Items(job)
        /\ Alone(x) => reg[x] = Value(x)
    BY <1>1, <1>4, <2>1 DEF LoopInv
  <2>3. /\ Touched(x)' = Touched(x)
        /\ Finished(x)' <=> Finished(x)
        /\ Alone(x)' <=> Alone(x)
        /\ ByPlanes /\ Encodes /\ ~UsesSse(job) /\ out'[Target(x)] = out[Target(x)] =>
              Value(x)' = Value(x)
    BY <1>1, <2>1, SamePlace
  <2>4. ASSUME Alone(x) PROVE Value(x)' = Value(x)
    <3>1. TeamSize(job, phase) # 1
      <4>1. SUFFICES ASSUME TeamSize(job, phase) = 1 PROVE FALSE
        OBVIOUS
      <4>2. x \in 0 .. 0 /\ t \in 0 .. 0
        BY <1>1, <4>1 DEF Team
      <4> QED BY <2>1, <4>2
    <3>2. ByPlanes /\ Target(x) \notin CutWords(job)
      BY <2>4, <3>1 DEF Alone
    <3>3. Encodes
      <4>1. SUFFICES ASSUME ~Encodes PROVE FALSE
        OBVIOUS
      <4>2. phase = "decode" /\ job.scheme = "bitswap"
        BY <1>1, <3>2, <4>1 DEF Loops, Encodes, ByPlanes
      <4> QED BY <3>1, <4>2 DEF TeamSize
    <3>4. ~UsesSse(job)
      BY <1>1, <2>2, <3>2, <3>3, LoopKinds
    <3>5. Target(t) # Target(x)
      BY <1>1, <2>1, <2>2, <3>2, <3>3, <3>4, TargetsApart
    <3>6. Target(x) \in Items(job)
      BY <2>2, ValueKinds
    <3>7. out'[Target(x)] = out[Target(x)]
      BY <3>5, <3>6, PutsStep
    <3> QED BY <2>3, <3>2, <3>3, <3>4, <3>7
  <2> QED BY <1>1, <1>2, <2>1, <2>2, <2>3, <2>4
<1>5. next' \in [Team' -> Nat \X Nat] /\ reg' \in [Team' -> Values \cup {Nothing}]
  BY <1>2, <1>3
<1>6. \A x \in Team' : /\ Begin(x)' <= next'[x][1] /\ next'[x][1] <= Begin(x + 1)'
                       /\ next'[x][2] = 0 \/ (next'[x][2] < Updates' /\ next'[x][1] < Begin(x + 1)')
  BY <1>2, <1>3
<1>7. \A x \in Team' : reg'[x] # Nothing =>
                          /\ ReadsOutput' /\ ~Finished(x)' /\ Touched(x)' \subseteq Items(job')
                          /\ Alone(x)' => reg'[x] = Value(x)'
  BY <1>2, <1>4
<1> QED BY <1>5, <1>6, <1>7 DEF LoopInv

LEMMA StoreLoop ==
    ASSUME PhaseInv, LoopInv, NEW t \in DOMAIN next, Store(t)
    PROVE  LoopInv'
<1>1. Puts(t, reg[t])
  BY StorePuts
<1>2. Loops /\ t \in Team
  BY <1>1, PutsStep
<1>3. reg \in [Team -> Values \cup {Nothing}] /\ reg' = [reg EXCEPT ![t] = Nothing]
  BY <1>2 DEF LoopInv, Store
<1> QED BY <1>1, <1>2, <1>3, PutsLoop

LEMMA WriteLoop ==
    ASSUME PhaseInv, LoopInv, NEW t \in DOMAIN next, Write(t)
    PROVE  LoopInv'
<1>1. Puts(t, Value(t)) /\ reg' = reg /\ ~ReadsOutput
  BY WritePuts DEF Write
<1>2. Loops /\ t \in Team
  BY <1>1, PutsStep
<1>3. reg \in [Team -> Values \cup {Nothing}] /\ reg[t] = Nothing
  BY <1>1, <1>2 DEF LoopInv
<1> QED BY <1>1, <1>2, <1>3, PutsLoop

LEMMA StartsLoop ==
    ASSUME NEW j \in Jobs, NEW coding, Starts(j, coding), job' = j, phase' = coding
    PROVE  LoopInv'
<1>1. j \in WithHalo => Len(Offsets(j)) \in Nat
  BY OffsetTypes
<1>2. /\ next' \in [Team' -> Nat \X Nat] /\ reg' = [t \in Team' |-> Nothing]
      /\ \A t \in Team' : Begin(t)' <= next'[t][1] /\ next'[t][1] <= Begin(t + 1)' /\ next'[t][2] = 0
  BY <1>1, StartLoop
<1>3. reg' \in [Team' -> Values \cup {Nothing}] /\ \A t \in Team' : reg'[t] = Nothing
  BY <1>2
<1> QED BY <1>2, <1>3 DEF LoopInv
-----------------------------------------------------------------------------
(* PhaseInv and OneRowInv *)

LEMMA PreparedType ==
    ASSUME NEW j \in Jobs, NEW vol \in [Items(j) -> Values]
    PROVE  Prepared(j, vol) \in [Items(j) -> Values]
BY ValuesType DEF Prepared

\* The only row of diff in a volume with too few rows cannot be gone through.
LEMMA OneRowStuck ==
    ASSUME PhaseInv, LoopInv, OneRowInv, Loops, job.scheme = "diff", OffsetsRequired(job) <= 1,
           NEW t \in Team, ~Finished(t)
    PROVE  reg[t] = Nothing /\ ~(Touched(t) \subseteq Items(job))
<1>1. job \in WithHalo
  BY DEF PhaseInv, WithHalo
<1>2. Len(Offsets(job)) = 1 /\ Offsets(job)[1] = NonHaloBegin(job, 1)
  BY <1>1, OneOffset
<1>3. ByRows
  BY DEF ByRows
<1>4. Iterations = 1 /\ \A k, u : Place(k, u) = Offsets(job)[k + 1] + u
  BY <1>2, <1>3, LoopKinds
<1>5. next[t] = <<Begin(t), 0>> /\ reg[t] = Nothing
  BY DEF OneRowInv
<1>6. next[t][1] = 0 /\ next[t][2] = 0 /\ Target(t) = Place(next[t][1], next[t][2])
  <2>1. next[t][1] \in 0 .. Iterations - 1 /\ Target(t) = Place(next[t][1], next[t][2])
    BY NextIs
  <2>2. next[t][1] = 0
    BY ONLY <1>4, <2>1
  <2>3. next[t][2] = 0
    BY <1>5
  <2> QED BY <2>1, <2>2, <2>3
<1>7. Target(t) = Half
  <2>1. NonHaloBegin(job, 1) = Half /\ Half \in Nat
    BY <1>1, DiffAxes, Halves
  <2>2. PICK h \in Nat : h = Half
    BY <2>1
  <2>3. Target(t) = Offsets(job)[0 + 1] + 0
    BY <1>4, <1>6
  <2>4. Offsets(job)[0 + 1] = h
    <3>1. 0 + 1 = 1
      OBVIOUS
    <3> QED BY <1>2, <2>1, <2>2, <3>1
  <2> QED BY ONLY <2>2, <2>3, <2>4, h \in Nat
<1>8. PICK q \in DOMAIN Neighbours(job, Half) : Neighbours(job, Half)[q] \notin Items(job)
  BY <1>1, OneRowOutside
<1>9. Neighbours(job, Half)[q] \in Touched(t)
  BY <1>7, <1>8, ValueKinds
<1> QED BY <1>5, <1>8, <1>9

LEMMA LoadOneRow ==
    ASSUME PhaseInv, LoopInv, OneRowInv, NEW t \in DOMAIN next, Load(t)
    PROVE  OneRowInv'
<1>1. Loops /\ t \in Team /\ ~Finished(t) /\ Touched(t) \subseteq Items(job) /\ job' = job
  BY DEF Load, Works, Loops
<1>2. ~(job.scheme = "diff" /\ OffsetsRequired(job) <= 1)
  BY <1>1, OneRowStuck
<1> QED BY <1>1, <1>2 DEF OneRowInv

LEMMA PutsOneRow ==
    ASSUME PhaseInv, LoopInv, OneRowInv, NEW t, NEW v, Puts(t, v)
    PROVE  OneRowInv' /\ ~(job.scheme = "diff" /\ OffsetsRequired(job) <= 1)
<1>1. Loops /\ t \in Team /\ ~Finished(t) /\ Touched(t) \subseteq Items(job) /\ job' = job
  BY PutsStep DEF Puts
<1>2. ~(job.scheme = "diff" /\ OffsetsRequired(job) <= 1)
  BY <1>1, OneRowStuck
<1> QED BY <1>1, <1>2 DEF OneRowInv

LEMMA StartsOneRow ==
    ASSUME NEW j \in Jobs, NEW coding, Starts(j, coding), job' = j, phase' = coding
    PROVE  OneRowInv'
<1>1. j \in WithHalo => Len(Offsets(j)) \in Nat
  BY OffsetTypes
<1>2. reg' = [t \in Team' |-> Nothing] /\ \A t \in Team' : next'[t] = <<Begin(t)', 0>>
  BY <1>1, StartLoop
<1>3. \A t \in Team' : reg'[t] = Nothing
  BY <1>2
<1> QED BY <1>2, <1>3 DEF OneRowInv

\* No access leaves the buffers of a volume that is thick enough.
LEMMA RoomyInside ==
    ASSUME PhaseInv, LoopInv, Loops, Roomy(job), NEW t \in Team, ~Finished(t)
    PROVE  Touched(t) \subseteq Items(job)
<1>1. PICK k, u, c : k = next[t][1] /\ u = next[t][2] /\ c = Target(t)
  OBVIOUS
<1>2. /\ k \in 0 .. Iterations - 1 /\ u \in 0 .. Updates - 1 /\ c = Place(k, u)
  BY <1>1, NextIs
<1>3. CASE ByRows
  <2>1. /\ job \in WithHalo /\ k \in 0 .. Len(Offsets(job)) - 1 /\ u \in 0 .. HaloSize(job) - 1
        /\ c = Offsets(job)[k + 1] + u
    BY <1>2, <1>3, LoopKinds
  <2>2. c \in Items(job) /\ \A q \in DOMAIN Neighbours(job, c) : Neighbours(job, c)[q] \in Items(job)
    <3>1. CASE job.scheme = "diff"
      BY <2>1, <3>1, DiffInside
    <3>2. CASE job.scheme = "rmbkrd_neighbor"
      BY <2>1, <3>2, CubeInside
    <3> QED BY <1>3, <3>1, <3>2 DEF ByRows
  <2> QED BY <1>1, <2>2 DEF Touched
<1>4. CASE ~ByRows
  <2>1. c \in Items(job)
    BY <1>2, <1>4, LoopTypes
  <2> QED BY <1>1, <1>4, <2>1 DEF Touched, ByRows
<1> QED BY <1>3, <1>4

LEMMA EncodePhase ==
    ASSUME PhaseInv, NEW j \in Jobs, Encode(j)
    PROVE  PhaseInv'
<1>1. /\ phase' = "encode" /\ job' = j /\ in' = j.image /\ out' = Prepared(j, j.image)
      /\ mid' = <<>>
  BY DEF Encode
<1>2. j.image \in [Items(j) -> Values]
  BY JobTypes
<1>3. level' \in Nat
  BY EstimateType, JobTypes DEF Encode
<1> QED BY <1>1, <1>2, <1>3, PreparedType DEF PhaseInv, Loops

LEMMA ThrowPhase ==
    ASSUME PhaseInv, NEW j \in Jobs, Throw(j)
    PROVE  PhaseInv'
BY DEF Throw, PhaseInv, Loops

LEMMA OutsidePhase ==
    ASSUME PhaseInv, NEW j \in Jobs, StartOutside(j)
    PROVE  PhaseInv'
<1>1. phase = "idle" /\ phase' = "outside" /\ job' = j /\ mid' = mid
  BY DEF StartOutside
<1>2. ~Roomy(j)
  <2>1. ASSUME NoThirdOffset(j) PROVE j \in WithHalo /\ j.scheme = "rmbkrd_neighbor"
    BY <2>1 DEF NoThirdOffset, WithHalo
  <2>2. CASE NoThirdOffset(j)
    BY <2>1, <2>2, CubeInside
  <2>3. CASE j.scheme = "rmestbkrd" /\ \E f \in 1 .. 4 : ~(Faces(j)[f] \subseteq Items(j))
    BY <2>3, FacesInside
  <2> QED BY <2>2, <2>3 DEF StartOutside
<1>3. mid = <<>>
  BY <1>1 DEF PhaseInv
<1> QED BY <1>1, <1>2, <1>3 DEF PhaseInv, Loops

LEMMA PutsPhase ==
    ASSUME PhaseInv, LoopInv, NEW t, NEW v, Puts(t, v)
    PROVE  PhaseInv'
<1>1. out' \in [Items(job) -> Values] /\ Loops
  BY PutsStep
<1> QED BY <1>1 DEF Puts, PhaseInv, Loops

LEMMA LeavePhase ==
    ASSUME PhaseInv, LoopInv, NEW t \in DOMAIN next, Leave(t)
    PROVE  PhaseInv'
<1>1. Loops /\ t \in Team /\ ~Finished(t) /\ ~(Touched(t) \subseteq Items(job))
  BY DEF Leave, Works, Loops
<1>2. ~Roomy(job)
  BY <1>1, RoomyInside
<1> QED BY <1>2 DEF Leave, PhaseInv, Loops

LEMMA FinishEncodePhase ==
    ASSUME PhaseInv, FinishEncode
    PROVE  PhaseInv'
<1>1. phase = "encode" /\ job' = job /\ mid' = out /\ in' = out /\ level' = level
  BY DEF FinishEncode
<1>2. job \in Jobs /\ out \in [Items(job) -> Values] /\ level \in Nat
  BY <1>1 DEF PhaseInv, Loops
<1>3. out # <<>>
  <2>1. 0 \in Items(job)
    <3>1. PICK s \in Nat \ {0} : s = Size(job)
      BY <1>2, JobTypes
    <3> QED BY <3>1 DEF Items
  <2>2. DOMAIN out = Items(job)
    BY <1>2
  <2>3. 0 \notin DOMAIN <<>>
    OBVIOUS
  <2> QED BY <2>1, <2>2, <2>3
<1>4. CASE job.scheme \in {"bitswap", "diff"}
  <2>1. phase' = "decode" /\ out' = Prepared(job, out)
    BY <1>4 DEF FinishEncode
  <2> QED BY <1>1, <1>2, <1>3, <1>4, <2>1, PreparedType DEF PhaseInv, Loops
<1>5. CASE ~(job.scheme \in {"bitswap", "diff"})
  <2>1. phase' = "decoded"
    BY <1>5 DEF FinishEncode
  <2> QED BY <1>1, <1>2, <1>3, <2>1 DEF PhaseInv, Loops
<1> QED BY <1>4, <1>5

LEMMA FinishDecodePhase ==
    ASSUME PhaseInv, FinishDecode
    PROVE  PhaseInv'
<1>1. phase = "decode" /\ phase' = "decoded" /\ job' = job /\ mid' = mid /\ in = mid
  BY DEF FinishDecode, PhaseInv
<1>2. mid \in [Items(job) -> Values] /\ job \in Jobs
  BY <1>1 DEF PhaseInv, Loops
<1>3. mid # <<>>
  <2>1. 0 \in Items(job)
    <3>1. PICK s \in Nat \ {0} : s = Size(job)
      BY <1>2, JobTypes
    <3> QED BY <3>1 DEF Items
  <2>2. DOMAIN mid = Items(job)
    BY <1>2
  <2>3. 0 \notin DOMAIN <<>>
    OBVIOUS
  <2> QED BY <2>1, <2>2, <2>3
<1> QED BY <1>1, <1>2, <1>3 DEF PhaseInv, Loops
-----------------------------------------------------------------------------
(* The invariants of bitswap *)

\* The place of a bit determines the item and the plane.
LEMMA PlaneItemOne ==
    ASSUME NEW j \in Jobs, NEW k \in 0 .. MaxSize(j) - 1, NEW u \in 0 .. Width - 1,
           NEW l \in 0 .. MaxSize(j) - 1, NEW v \in 0 .. Width - 1,
           PlaneItem(j, k, u) = PlaneItem(j, l, v), PlaneBit(k) = PlaneBit(l)
    PROVE  k = l /\ u = v
<1>1. PICK w \in Nat \ {0}, a \in Nat, b \in Nat, x \in Nat, y \in Nat :
         /\ w = Width
         /\ a = k \div Width /\ x = k % Width /\ k = a * w + x
         /\ b = l \div Width /\ y = l % Width /\ l = b * w + y
  <2>1. /\ k \div Width \in Nat /\ k % Width \in 0 .. Width - 1
        /\ k = (k \div Width) * Width + (k % Width)
        /\ l \div Width \in Nat /\ l % Width \in 0 .. Width - 1
        /\ l = (l \div Width) * Width + (l % Width)
    BY PlaneItemIs
  <2>2. PICK w \in Nat \ {0} : w = Width
    BY Widths
  <2>3. PICK a \in Nat, b \in Nat, x \in Nat, y \in Nat :
           a = k \div Width /\ x = k % Width /\ b = l \div Width /\ y = l % Width
    <3>1. k % Width \in Nat /\ l % Width \in Nat
      BY ONLY <2>1, <2>2
    <3> QED BY ONLY <2>1, <3>1
  <2>4. k = a * w + x /\ l = b * w + y
    BY ONLY <2>1, <2>2, <2>3
  <2> QED BY ONLY <2>2, <2>3, <2>4
<1>2. a = b /\ Width - 1 - u = Width - 1 - v
  BY <1>1, PlaneItemIs
<1>3. x = y
  <2>1. w - 1 - x = w - 1 - y
    BY ONLY <1>1, PlaneBit(k) = PlaneBit(l) DEF PlaneBit, Planes
  <2> QED BY ONLY <2>1, w \in Nat, x \in Nat, y \in Nat
<1>4. u = v
  <2>1. u \in Int /\ v \in Int /\ w - 1 - u = w - 1 - v
    BY <1>1, <1>2
  <2> QED BY ONLY <2>1, w \in Nat
<1> QED BY <1>1, <1>2, <1>3, <1>4

LEMMA PutsSse ==
    ASSUME PhaseInv, LoopInv, SseInv, NEW t, NEW v, Puts(t, v)
    PROVE  SseInv'
<1> SUFFICES ASSUME phase = "encode", ByPlanes, UsesSse(job),
                    NEW k \in 0 .. Iterations - 1, NEW u \in 0 .. Updates - 1, Passed(k, u)'
             PROVE  out'[Place(k, u)] = Transposed(job, Place(k, u))
  <2>1. phase' = phase /\ job' = job
    BY DEF Puts
  <2>2. /\ ByPlanes' <=> ByPlanes
        /\ Iterations' = Iterations /\ Updates' = Updates
        /\ \A k, u : Place(k, u)' = Place(k, u)
    BY <2>1, SameLoop
  <2> QED BY <2>1, <2>2 DEF SseInv
<1>1. Loops /\ Encodes /\ job \in Jobs /\ in = job.image
  BY DEF Loops, Encodes, PhaseInv
<1>2. PICK a, b : a = next[t][1] /\ b = next[t][2]
  OBVIOUS
<1>3. /\ a \in 0 .. Width - 1 /\ b \in 0 .. Segment(job) - 1 /\ ~ReadsOutput
      /\ Target(t) = a * Segment(job) + b
  BY <1>1, <1>2, PutsStep, LoopKinds
<1>4. v = Transposed(job, Target(t))
  <2>1. v = Collected(a, b)
    BY <1>1, <1>2, <1>3, ValueKinds DEF Puts
  <2> QED BY <1>1, <1>3, <2>1, CollectedIs
<1>5. Place(k, u) \in Items(job)
  BY <1>1, LoopTypes DEF ByPlanes, ByRows
<1>6. CASE Place(k, u) = Target(t)
  BY <1>4, <1>5, <1>6, PutsStep
<1>7. CASE Place(k, u) # Target(t)
  <2>1. Passed(k, u)
    BY <1>7, PutsStep
  <2> QED BY <1>5, <1>7, <2>1, PutsStep DEF SseInv
<1> QED BY <1>6, <1>7

LEMMA PutsScalar ==
    ASSUME PhaseInv, LoopInv, ScalarInv, NEW t, NEW v, Puts(t, v)
    PROVE  ScalarInv'
<1> SUFFICES ASSUME phase = "encode", ByPlanes, ~UsesSse(job),
                    NEW k \in 0 .. Iterations - 1, NEW u \in 0 .. Updates - 1,
                    Passed(k, u)', Place(k, u) \notin CutWords(job)
             PROVE  Bit(out'[Place(k, u)], PlaneBit(k)) = Bit(job.image[k], u)
  <2>1. phase' = phase /\ job' = job
    BY DEF Puts
  <2>2. /\ ByPlanes' <=> ByPlanes
        /\ Iterations' = Iterations /\ Updates' = Updates
        /\ \A k, u : Place(k, u)' = Place(k, u)
    BY <2>1, SameLoop
  <2> QED BY <2>1, <2>2 DEF ScalarInv
<1>1. Loops /\ Encodes /\ job \in Jobs /\ in = job.image
  BY DEF Loops, Encodes, PhaseInv
<1>2. PICK a, b, c : a = next[t][1] /\ b = next[t][2] /\ c = Target(t)
  OBVIOUS
<1>3. t \in Team /\ ~Finished(t)
  BY PutsStep
<1>4. /\ k \in 0 .. MaxSize(job) - 1 /\ u \in 0 .. Width - 1 /\ Place(k, u) = PlaneItem(job, k, u)
      /\ a \in 0 .. MaxSize(job) - 1 /\ b \in 0 .. Width - 1 /\ c = PlaneItem(job, a, b)
  BY <1>1, <1>2, PutsStep, LoopKinds
<1>5. Place(k, u) \in Items(job)
  BY <1>1, LoopTypes DEF ByPlanes, ByRows
<1>6. CASE Place(k, u) # c
  <2>1. Passed(k, u)
    BY <1>2, <1>6, PutsStep
  <2>2. out'[Place(k, u)] = out[Place(k, u)]
    BY <1>2, <1>5, <1>6, PutsStep
  <2> QED BY <2>1, <2>2 DEF ScalarInv
<1>7. CASE Place(k, u) = c
  <2>1. v = SetBits(out[c], Bit(in[a], b), PlaneBit(a))
    <3>1. v = Value(t)
      BY <1>2, <1>7 DEF Puts, Alone
    <3> QED BY <1>1, <1>2, <3>1, ValueKinds
  <2>2. /\ out[c] \in Values /\ Bit(in[a], b) \in {0, 1} /\ PlaneBit(a) \in 0 .. Width - 1
    BY <1>1, <1>2, <1>3, BitsToSet
  <2>3. \A e \in Nat : Bit(v, e) = IF e = PlaneBit(a) THEN Bit(in[a], b) ELSE Bit(out[c], e)
    BY <2>1, <2>2, SetBitsValue
  <2>4. out'[Place(k, u)] = v
    BY <1>2, <1>5, <1>7, PutsStep
  <2>5. PlaneBit(k) \in Nat
    <3>1. PlaneBit(k) \in 0 .. Width - 1
      BY <1>1, <1>4, PlaneItemIs
    <3> QED BY <3>1
  <2>6. CASE PlaneBit(k) = PlaneBit(a)
    <3>1. k = a /\ u = b
      BY <1>1, <1>4, <1>7, <2>6, PlaneItemOne
    <3> QED BY <1>1, <2>3, <2>4, <2>5, <2>6, <3>1
  <2>7. CASE PlaneBit(k) # PlaneBit(a)
    <3>1. Passed(k, u)
      BY <1>2, <2>7, PutsStep
    <3>2. Bit(v, PlaneBit(k)) = Bit(out[Place(k, u)], PlaneBit(k))
      BY <1>7, <2>3, <2>5, <2>7
    <3> QED BY <2>4, <3>1, <3>2 DEF ScalarInv
  <2> QED BY <2>6, <2>7
<1> QED BY <1>6, <1>7

LEMMA PutsRest ==
    ASSUME PhaseInv, LoopInv, RestInv, NEW t, NEW v, Puts(t, v)
    PROVE  RestInv'
<1> SUFFICES ASSUME Loops, ByPlanes, NEW c \in Items(job), c >= MaxSize(job)
             PROVE  out'[c] = in[c]
  <2>1. phase' = phase /\ job' = job /\ in' = in
    BY DEF Puts
  <2>2. /\ ByPlanes' <=> ByPlanes
        /\ Loops' <=> Loops
    BY <2>1, SameLoop
  <2> QED BY <2>1, <2>2 DEF RestInv
<1>1. Target(t) \in 0 .. MaxSize(job) - 1
  BY PutsStep, BitsToSet
<1>2. PICK m \in Nat : m = MaxSize(job)
  BY Segments DEF PhaseInv
<1>3. c # Target(t)
  BY <1>1, <1>2
<1> QED BY <1>3, PutsStep DEF RestInv

\* What decode reads of an encoded volume without cut words.
LEMMA EncodedBit ==
    ASSUME PhaseInv, MidInv, phase = "decode", ByPlanes, CutWords(job) = {},
           NEW k \in 0 .. Width - 1, NEW u \in 0 .. MaxSize(job) - 1
    PROVE  Bit(in[PlaneItem(job, u, k)], PlaneBit(u)) = Bit(job.image[u], k)
<1>1. job \in Jobs /\ in = mid /\ in \in [Items(job) -> Values]
  BY DEF PhaseInv, Loops
<1>2. PICK c : c = PlaneItem(job, u, k)
  OBVIOUS
<1>3. /\ c \in 0 .. MaxSize(job) - 1
      /\ c \div Segment(job) = Width - 1 - k /\ c % Segment(job) = u \div Width
      /\ u % Width \in 0 .. Width - 1 /\ u = (u \div Width) * Width + (u % Width)
  BY <1>1, <1>2, PlaneItemIs
<1>4. c \in Items(job) /\ c \in Nat
  <2>1. PICK n \in Nat, s \in Nat : n = MaxSize(job) /\ s = Size(job) /\ n <= s
    BY <1>1, Segments, JobTypes
  <2> QED BY ONLY <1>3, <2>1, n \in Nat, s \in Nat DEF Items
<1>5. in[c] = Transposed(job, c)
  <2>1. mid # <<>>
    <3>1. c \in DOMAIN mid
      BY <1>1, <1>4
    <3>2. c \notin DOMAIN <<>>
      OBVIOUS
    <3> QED BY <3>1, <3>2
  <2> QED BY <1>1, <1>4, <2>1 DEF MidInv, PlanesRight, ByPlanes
<1>6. IsWord(in[c], Width, WordBits(job, c))
  BY <1>1, <1>3, <1>5, TransposedIsWord
<1>7. PICK i \in 0 .. Width - 1 : i = u % Width
  BY <1>3
<1>8. Bit(in[c], Width - 1 - i) = WordBits(job, c)[i]
  BY <1>6 DEF IsWord
<1>9. WordBits(job, c)[i] = Bit(job.image[(u \div Width) * Width + i], Width - 1 - (Width - 1 - k))
  BY <1>3 DEF WordBits, PlaneBits
<1>10. Width - 1 - (Width - 1 - k) = k
  <2>1. PICK w \in Nat : w = Width
    BY Widths
  <2>2. k \in Int
    OBVIOUS
  <2> QED BY ONLY <2>1, <2>2, w \in Nat
<1>11. (u \div Width) * Width + i = u
  BY ONLY <1>3, <1>7
<1>12. PlaneBit(u) = Width - 1 - i
  BY ONLY <1>7 DEF PlaneBit, Planes
<1> QED BY ONLY <1>2, <1>8, <1>9, <1>10, <1>11, <1>12

LEMMA PutsPlanes ==
    ASSUME PhaseInv, LoopInv, MidInv, PlanesInv, NEW t, NEW v, Puts(t, v)
    PROVE  PlanesInv'
<1> SUFFICES ASSUME phase = "decode", ByPlanes, CutWords(job) = {},
                    NEW k \in 0 .. Iterations - 1, NEW u \in 0 .. Updates - 1, Passed(k, u)'
             PROVE  Bit(out'[u], k) = Bit(job.image[u], k)
  <2>1. phase' = phase /\ job' = job
    BY DEF Puts
  <2>2. /\ ByPlanes' <=> ByPlanes
        /\ Iterations' = Iterations /\ Updates' = Updates
    BY <2>1, SameLoop
  <2> QED BY <2>1, <2>2 DEF PlanesInv
<1>1. Loops /\ ~Encodes /\ job \in Jobs /\ TeamSize(job, phase) = 1
  <2>1. TeamSize(job, phase) = 1
    BY DEF TeamSize, ByPlanes
  <2> QED BY <2>1 DEF Loops, Encodes, PhaseInv
<1>2. PICK a, b, c : a = next[t][1] /\ b = next[t][2] /\ c = Target(t)
  OBVIOUS
<1>3. t \in Team /\ ~Finished(t)
  BY PutsStep
<1>4. /\ k \in 0 .. Width - 1 /\ u \in 0 .. MaxSize(job) - 1 /\ Place(k, u) = u
      /\ a \in 0 .. Width - 1 /\ b \in 0 .. MaxSize(job) - 1 /\ c = b
  BY <1>1, <1>2, PutsStep, LoopKinds
<1>5. u \in Items(job)
  BY <1>1, <1>4, LoopTypes DEF ByPlanes, ByRows
<1>6. CASE u # c
  <2>1. Passed(k, u)
    BY <1>2, <1>4, <1>6, PutsStep
  <2>2. out'[u] = out[u]
    BY <1>2, <1>5, <1>6, PutsStep
  <2> QED BY <2>1, <2>2 DEF PlanesInv
<1>7. CASE u = c
  <2>1. v = SetBits(out[c], Bit(in[PlaneItem(job, b, a)], PlaneBit(b)), a)
    <3>1. v = Value(t)
      BY <1>1 DEF Puts, Alone
    <3> QED BY <1>1, <1>2, <3>1, ValueKinds
  <2>2. /\ out[c] \in Values /\ Bit(in[PlaneItem(job, b, a)], PlaneBit(b)) \in {0, 1}
    BY <1>1, <1>2, <1>3, BitsToSet
  <2>3. \A e \in Nat : Bit(v, e) = IF e = a THEN Bit(in[PlaneItem(job, b, a)], PlaneBit(b))
                                   ELSE Bit(out[c], e)
    BY <1>4, <2>1, <2>2, SetBitsValue
  <2>4. out'[u] = v /\ k \in Nat
    <3>1. k \in Nat
      BY <1>4
    <3>2. out'[u] = v
      BY <1>2, <1>5, <1>7, PutsStep
    <3> QED BY <3>1, <3>2
  <2>5. CASE k = a
    <3>1. Bit(in[PlaneItem(job, b, a)], PlaneBit(b)) = Bit(job.image[b], a)
      BY <1>4, EncodedBit
    <3> QED BY <1>4, <1>7, <2>3, <2>4, <2>5, <3>1
  <2>6. CASE k # a
    <3>1. Passed(k, u)
      BY <1>2, <2>6, PutsStep
    <3>2. Bit(v, k) = Bit(out[u], k)
      BY <1>7, <2>3, <2>4, <2>6
    <3> QED BY <2>4, <3>1, <3>2 DEF PlanesInv
  <2> QED BY <2>5, <2>6
<1> QED BY <1>6, <1>7
-----------------------------------------------------------------------------
(* The invariants of diff and of the background filters *)

LEMMA SameDiffer ==
    ASSUME job' = job
    PROVE  \A c : Differ(c)' = Differ(c)
BY DEF Differ, NaiveSum

LEMMA PutsRows ==
    ASSUME PhaseInv, LoopInv, RowsInv, NEW t, NEW v, Puts(t, v)
    PROVE  RowsInv'
<1>1. phase' = phase /\ job' = job /\ mid' = mid
  BY DEF Puts
<1>2. /\ Iterations' = Iterations /\ Updates' = Updates
      /\ \A k, u : Place(k, u)' = Place(k, u)
      /\ \A c : InLoop(c)' <=> InLoop(c)
      /\ \A c : Differ(c)' = Differ(c)
  BY <1>1, SameLoop, SameDiffer
<1>3. ASSUME phase = "encode", job.scheme = "diff"
      PROVE  /\ \A k \in 0 .. Iterations - 1, u \in 0 .. Updates - 1 :
                   Passed(k, u)' => out'[Place(k, u)] = Differ(Place(k, u))
             /\ \A c \in Items(job) : ~InLoop(c) => out'[c] = job.image[c]
  <2>1. Loops /\ Encodes /\ in = job.image
    BY <1>3 DEF Loops, Encodes, PhaseInv
  <2>2. ~ReadsOutput
    BY <1>3, <2>1, LoopKinds DEF ByRows
  <2>3. v = Differ(Target(t))
    <3>1. v = Difference(Target(t))
      BY <1>3, <2>1, <2>2, ValueKinds DEF Puts
    <3> QED BY <2>1, <3>1 DEF Difference, Differ
  <2>4. ASSUME NEW k \in 0 .. Iterations - 1, NEW u \in 0 .. Updates - 1, Passed(k, u)'
        PROVE  out'[Place(k, u)] = Differ(Place(k, u))
    <3>1. CASE Place(k, u) = Target(t)
      BY <2>3, <3>1, PutsStep
    <3>2. CASE Place(k, u) # Target(t)
      <4>1. Passed(k, u)
        BY <2>4, <3>2, PutsStep
      <4>2. out'[Place(k, u)] = out[Place(k, u)]
        BY <3>2 DEF Puts
      <4> QED BY <1>3, <4>1, <4>2 DEF RowsInv
    <3> QED BY <3>1, <3>2
  <2>5. ASSUME NEW c \in Items(job), ~InLoop(c) PROVE out'[c] = job.image[c]
    <3>1. c # Target(t)
      BY <2>5, PutsStep DEF InLoop
    <3> QED BY <1>3, <2>5, <3>1, PutsStep DEF RowsInv
  <2> QED BY <2>4, <2>5
<1>4. (phase = "encode" /\ job.scheme = "diff")' =>
         /\ \A k \in 0 .. Iterations' - 1, u \in 0 .. Updates' - 1 :
               Passed(k, u)' => out'[Place(k, u)'] = Differ(Place(k, u))'
         /\ \A c \in Items(job)' : ~InLoop(c)' => out'[c] = job'.image[c]
  <2>1. \A k, u : Differ(Place(k, u))' = Differ(Place(k, u))
    BY <1>1, <1>2 DEF Differ, NaiveSum
  <2> QED BY <1>1, <1>2, <1>3, <2>1
<1>5. (phase = "decode" /\ job.scheme = "diff")' =>
         \A c \in Items(job)' : mid'[c] = IF InLoop(c)' THEN Differ(c)' ELSE job'.image[c]
  BY <1>1, <1>2 DEF RowsInv
<1> QED BY <1>4, <1>5 DEF RowsInv

\* The neighbours of the item that one thread decodes are decoded.
LEMMA BehindPassed ==
    ASSUME PhaseInv, LoopInv, SumsInv, phase = "decode", job.scheme = "diff", job.readers = 1,
           OffsetsRequired(job) > 1, NEW t \in Team, ~Finished(t),
           Touched(t) \subseteq Items(job), NEW q \in DOMAIN Neighbours(job, Target(t))
    PROVE  out[Neighbours(job, Target(t))[q]] = job.image[Neighbours(job, Target(t))[q]]
<1>1. Loops /\ job \in WithHalo /\ ByRows
  BY DEF Loops, PhaseInv, WithHalo, ByRows
<1>2. PICK a \in Nat, b \in Nat, m \in Nat, n \in Nat :
         /\ a = next[t][1] /\ b = next[t][2] /\ m = Updates /\ n = Iterations
         /\ a \in 0 .. n - 1 /\ b \in 0 .. m - 1
  BY <1>1, NextIs
<1>3. n = Len(Offsets(job)) /\ \A k, u : Place(k, u) = Offsets(job)[k + 1] + u
  BY <1>1, <1>2, LoopKinds
<1>4. PICK c, d : c = Target(t) /\ d = Neighbours(job, c)[q] /\ d \in Items(job)
  BY ValueKinds
<1>5. c = Offsets(job)[a + 1] + b /\ Offsets(job)[a + 1] \in Nat
  BY <1>1, <1>2, <1>3, <1>4, NextIs, OffsetTypes
<1>6. c \in Nat /\ d \in Int /\ d < c
  <2>1. c \in Nat
    BY <1>5
  <2>2. Len(Offsets(job)) > 0
    BY ONLY <1>2, <1>3, n \in Nat
  <2> QED BY <1>1, <1>4, <2>1, <2>2, DiffBehind
<1>7. ASSUME NEW k \in 0 .. n - 1, NEW u \in 0 .. m - 1, k < a \/ (k = a /\ u < b)
      PROVE  Passed(k, u)
  <2>1. TeamSize(job, phase) = 1
    BY DEF TeamSize
  <2>2. t \in 0 .. 0
    BY <2>1 DEF Team
  <2>3. Begin(0) = 0 /\ t = 0
    BY <1>1, <2>2, LoopTypes
  <2>4. Begin(t) <= k
    BY <2>3
  <2> QED BY <1>2, <1>7, <2>4 DEF Passed
<1>8. CASE ~InLoop(d)
  BY <1>4, <1>8 DEF SumsInv
<1>9. CASE InLoop(d)
  <2>1. PICK k \in 0 .. n - 1, u \in 0 .. m - 1 : Place(k, u) = d
    BY <1>2, <1>9 DEF InLoop
  <2>2. d = Offsets(job)[k + 1] + u /\ Offsets(job)[k + 1] \in Nat
    BY <1>1, <1>3, <2>1, OffsetTypes
  <2>3. PICK x \in Nat, y \in Nat : x = Offsets(job)[a + 1] /\ y = Offsets(job)[k + 1]
    BY <1>5, <2>2
  <2>4. PICK l \in 0 .. n - 1, e \in 0 .. m - 1 :
           d = Offsets(job)[l + 1] + e /\ (l < a \/ (l = a /\ e < b))
    <3>1. CASE k < a
      BY <2>2, <3>1
    <3>2. CASE k = a
      <4>1. u < b
        <5>1. d = x + u /\ c = x + b /\ u \in Int
          BY <1>5, <2>2, <2>3, <3>2
        <5> QED BY ONLY <1>6, <5>1, x \in Nat, b \in Nat
      <4> QED BY <2>2, <3>2, <4>1
    <3>3. CASE k > a
      <4>1. x <= y
        <5>1. a <= k
          BY <3>3
        <5> QED BY <1>1, <1>2, <1>3, <2>3, <5>1, OffsetTypes
      <4>2. d = y + u /\ c = x + b /\ u \in 0 .. m - 1
        BY <1>5, <2>2, <2>3
      <4>3. PICK e \in Nat : d = x + e /\ e < b
        <5>1. d - x \in Nat /\ d = x + (d - x) /\ d - x < b
          BY ONLY <1>6, <4>1, <4>2, x \in Nat, y \in Nat, b \in Nat, m \in Nat
        <5> QED BY <5>1
      <4>4. e \in 0 .. m - 1
        BY ONLY <1>2, <4>3, e \in Nat, b \in Nat, m \in Nat
      <4> QED BY <1>2, <2>3, <4>3, <4>4
    <3>4. k \in Int
      BY <2>1
    <3> QED BY <3>1, <3>2, <3>3, <3>4
  <2>5. Passed(l, e)
    BY <1>7, <2>4
  <2>6. Place(l, e) = d
    BY <1>3, <2>4
  <2> QED BY <1>2, <1>4, <2>5, <2>6 DEF SumsInv
<1> QED BY <1>4, <1>8, <1>9

LEMMA PutsSums ==
    ASSUME PhaseInv, LoopInv, OneRowInv, RowsInv, SumsInv, NEW t, NEW v, Puts(t, v)
    PROVE  SumsInv'
<1>1. phase' = phase /\ job' = job
  BY DEF Puts
<1>2. /\ Iterations' = Iterations /\ Updates' = Updates
      /\ \A k, u : Place(k, u)' = Place(k, u)
      /\ \A c : InLoop(c)' <=> InLoop(c)
  BY <1>1, SameLoop
<1>3. ASSUME phase = "decode", job.scheme = "diff", job.readers = 1
      PROVE  /\ \A k \in 0 .. Iterations - 1, u \in 0 .. Updates - 1 :
                   Passed(k, u)' => out'[Place(k, u)] = job.image[Place(k, u)]
             /\ \A c \in Items(job) : ~InLoop(c) => out'[c] = job.image[c]
  <2>1. Loops /\ ~Encodes /\ job \in WithHalo /\ in = mid /\ TeamSize(job, phase) = 1
    BY <1>3 DEF Loops, Encodes, PhaseInv, WithHalo, TeamSize
  <2>2. job.image \in [Items(job) -> Values] /\ OffsetsRequired(job) \in Int
    BY <2>1, HaloTypes, HaloAxes, JobTypes
  <2>3. OffsetsRequired(job) > 1
    BY <1>3, <2>2, PutsOneRow
  <2>4. PICK c : c = Target(t)
    OBVIOUS
  <2>5. /\ t \in Team /\ ~Finished(t) /\ Touched(t) \subseteq Items(job) /\ c \in Items(job)
    BY <2>4, PutsStep DEF Puts
  <2>6. v = (in[c] + NaiveSum(out, c) \div NumPixels(LastPlane)) % 2 ^ Width
    <3>1. v = Value(t)
      BY <2>1 DEF Puts, Alone
    <3> QED BY <1>3, <2>1, <2>4, <3>1, ValueKinds DEF Summed
  <2>7. PICK s \in Nat : s = NaiveSum(job.image, c)
    <3>1. \A q \in DOMAIN Neighbours(job, c) : Neighbours(job, c)[q] \in Items(job)
      BY <1>3, <2>4, <2>5, ValueKinds
    <3>2. \A q \in DOMAIN Neighbours(job, c) : job.image[Neighbours(job, c)[q]] \in Nat
      BY <2>2, <3>1, ValuesType
    <3>3. NaiveSum(job.image, c) \in Nat
      BY <2>1, <3>2, NaiveSumType
    <3> QED BY <3>3
  <2>8. NaiveSum(out, c) = s
    <3>1. \A q \in DOMAIN Neighbours(job, c) :
             out[Neighbours(job, c)[q]] = job.image[Neighbours(job, c)[q]]
      BY <1>3, <2>3, <2>4, <2>5, BehindPassed
    <3>2. NaiveSum(out, c) = NaiveSum(job.image, c)
      BY <3>1, NaiveSumSame
    <3> QED BY <2>7, <3>2
  <2>9. in[c] = (job.image[c] - s \div NumPixels(LastPlane)) % 2 ^ Width
    <3>1. InLoop(c)
      BY <2>4, PutsStep DEF InLoop
    <3> QED BY <1>3, <2>1, <2>5, <2>7, <3>1 DEF RowsInv, Differ
  <2>10. v = job.image[c]
    <3>1. PICK i \in Nat : i = job.image[c] /\ i \in Values
      BY <2>2, <2>5, ValuesType
    <3>2. (((i - s \div NumPixels(LastPlane)) % 2 ^ Width) + s \div NumPixels(LastPlane)) % 2 ^ Width = i
      BY <3>1, PutBack
    <3> QED BY ONLY <2>6, <2>8, <2>9, <3>1, <3>2
  <2>11. ASSUME NEW k \in 0 .. Iterations - 1, NEW u \in 0 .. Updates - 1, Passed(k, u)'
        PROVE  out'[Place(k, u)] = job.image[Place(k, u)]
    <3>1. CASE Place(k, u) = c
      BY <2>4, <2>5, <2>10, <3>1, PutsStep
    <3>2. CASE Place(k, u) # c
      <4>1. Passed(k, u)
        BY <2>4, <2>11, <3>2, PutsStep
      <4>2. out'[Place(k, u)] = out[Place(k, u)]
        BY <2>4, <3>2 DEF Puts
      <4> QED BY <1>3, <4>1, <4>2 DEF SumsInv
    <3> QED BY <3>1, <3>2
  <2>12. ASSUME NEW d \in Items(job), ~InLoop(d) PROVE out'[d] = job.image[d]
    <3>1. d # Target(t)
      BY <2>12, PutsStep DEF InLoop
    <3> QED BY <1>3, <2>12, <3>1, PutsStep DEF SumsInv
  <2> QED BY <2>11, <2>12
<1> QED BY <1>1, <1>2, <1>3 DEF SumsInv

LEMMA PutsBackground ==
    ASSUME PhaseInv, LoopInv, BackgroundInv, NEW t, NEW v, Puts(t, v)
    PROVE  BackgroundInv'
<1> SUFFICES ASSUME phase = "encode", job.scheme \in {"remove_background", "rmestbkrd"},
                    NEW k \in 0 .. Iterations - 1, Passed(k, 0)'
             PROVE  out'[k] = Reduced(job.image[k])
  <2>1. phase' = phase /\ job' = job /\ level' = level
    BY DEF Puts
  <2>2. Iterations' = Iterations
    BY <2>1, SameLoop
  <2>3. \A x : Reduced(x)' = Reduced(x)
    BY <2>1 DEF Reduced
  <2> QED BY <2>1, <2>2, <2>3 DEF BackgroundInv, Reduced
<1>1. Loops /\ in = job.image
  BY DEF Loops, PhaseInv
<1>2. /\ Iterations = Size(job) /\ Updates = 1 /\ ~ReadsOutput
      /\ \A x, u : Place(x, u) = x
  BY <1>1, LoopKinds
<1>3. PICK a : a = next[t][1] /\ a = Target(t)
  BY <1>2, PutsStep
<1>4. v = Reduced(job.image[a])
  BY <1>1, <1>2, <1>3, ValueKinds DEF Puts
<1>5. k \in Items(job)
  BY <1>2 DEF Items
<1>6. CASE k = a
  BY <1>3, <1>4, <1>5, <1>6, PutsStep
<1>7. CASE k # a
  <2>1. 0 \in 0 .. Updates - 1
    BY <1>2
  <2>2. Passed(k, 0)
    BY <1>3, <1>7, <2>1, PutsStep
  <2> QED BY <1>3, <1>5, <1>7, <2>2, PutsStep DEF BackgroundInv
<1> QED BY <1>6, <1>7
-----------------------------------------------------------------------------
(* Where the loops begin and end *)

\* What the invariant says of the buffers while a loop runs.
BufferInv ==
    /\ MidInv /\ SseInv /\ ScalarInv /\ RestInv /\ PlanesInv /\ RowsInv /\ SumsInv
    /\ BackgroundInv /\ OutcomeInv

LEMMA SameBuffers ==
    ASSUME PhaseInv, BufferInv,
           phase' = phase, job' = job, in' = in, level' = level, next' = next, out' = out, mid' = mid
    PROVE  PhaseInv' /\ BufferInv'
<1>1. /\ phase' = phase /\ job' = job /\ in' = in /\ level' = level /\ next' = next /\ out' = out
      /\ mid' = mid
  OBVIOUS
<1>2. /\ Iterations' = Iterations /\ Updates' = Updates /\ Team' = Team
      /\ Loops' <=> Loops
      /\ ByPlanes' <=> ByPlanes
      /\ \A x : Begin(x)' = Begin(x)
      /\ \A k, u : Place(k, u)' = Place(k, u)
      /\ \A c : InLoop(c)' <=> InLoop(c)
      /\ \A c : Differ(c)' = Differ(c)
  BY <1>1, SameLoop, SameDiffer
<1>3. \A k, u : Passed(k, u)' <=> Passed(k, u)
  BY <1>1, <1>2 DEF Passed
<1>4. PhaseInv' /\ MidInv' /\ OutcomeInv'
  BY <1>1, <1>2
  DEF PhaseInv, MidInv, OutcomeInv, BufferInv, PlanesRight, BackgroundRight, Reduced, ByPlanes
<1>5. SseInv' /\ ScalarInv' /\ PlanesInv'
  BY <1>1, <1>2, <1>3 DEF BufferInv, SseInv, ScalarInv, PlanesInv
<1>6. RestInv' /\ SumsInv'
  BY <1>1, <1>2, <1>3 DEF BufferInv, RestInv, SumsInv
<1>7. BackgroundInv'
  BY <1>1, <1>2, <1>3 DEF BufferInv, BackgroundInv, Reduced
<1>8. RowsInv'
  <2>1. \A k, u : Differ(Place(k, u))' = Differ(Place(k, u))
    BY <1>1, <1>2 DEF Differ, NaiveSum
  <2>2. RowsInv
    BY DEF BufferInv
  <2> QED BY <1>1, <1>2, <1>3, <2>1, <2>2 DEF RowsInv
<1> QED BY <1>4, <1>5, <1>6, <1>7, <1>8 DEF BufferInv

LEMMA SameAll ==
    ASSUME UNCHANGED kernelVars, PhaseInv, LoopInv, OneRowInv, BufferInv
    PROVE  PhaseInv' /\ LoopInv' /\ OneRowInv' /\ BufferInv'
<1>1. /\ phase' = phase /\ job' = job /\ in' = in /\ level' = level /\ next' = next /\ out' = out
      /\ mid' = mid /\ reg' = reg
  BY DEF kernelVars
<1>2. /\ Iterations' = Iterations /\ Updates' = Updates /\ Team' = Team
      /\ Loops' <=> Loops
      /\ ReadsOutput' <=> ReadsOutput
      /\ \A x : Begin(x)' = Begin(x)
  BY <1>1, SameLoop
<1>3. LoopInv'
  <2>1. \A x : /\ Touched(x)' = Touched(x) /\ Value(x)' = Value(x)
               /\ Finished(x)' <=> Finished(x)
               /\ Alone(x)' <=> Alone(x)
    BY <1>1, SamePlace
  <2> QED BY <1>1, <1>2, <2>1 DEF LoopInv
<1>4. OneRowInv'
  BY <1>1, <1>2 DEF OneRowInv
<1>5. PhaseInv' /\ BufferInv'
  BY <1>1, SameBuffers
<1> QED BY <1>3, <1>4, <1>5

LEMMA PutsBuffers ==
    ASSUME PhaseInv, LoopInv, OneRowInv, BufferInv, NEW t, NEW v, Puts(t, v)
    PROVE  BufferInv'
<1>1. Loops /\ phase' = phase /\ job' = job /\ mid' = mid
  BY PutsStep DEF Puts
<1>2. MidInv' /\ OutcomeInv'
  BY <1>1 DEF BufferInv, MidInv, PlanesRight, OutcomeInv, Loops
<1> QED BY <1>2, PutsSse, PutsScalar, PutsRest, PutsPlanes, PutsRows, PutsSums, PutsBackground
        DEF BufferInv

\* Out of the loops only what was encoded, and what came of it, is left.
LEMMA NoLoop ==
    ASSUME phase' \notin {"encode", "decode"}
    PROVE  /\ LoopInv' /\ OneRowInv'
           /\ MidInv' /\ OutcomeInv' => BufferInv'
BY DEF LoopInv, OneRowInv, BufferInv, SseInv, ScalarInv, RestInv, PlanesInv, RowsInv, SumsInv,
       BackgroundInv, Loops

\* A loop begins with nothing passed.
LEMMA StartsBuffers ==
    ASSUME NEW j \in Jobs, NEW coding, Starts(j, coding), job' = j, phase' = coding
    PROVE  SseInv' /\ ScalarInv' /\ PlanesInv' /\ BackgroundInv'
           /\ \A k \in 0 .. Iterations' - 1, u \in 0 .. Updates' - 1 : ~Passed(k, u)'
<1>1. j \in WithHalo => Len(Offsets(j)) \in Nat
  BY OffsetTypes
<1>2. \A k \in Nat, u \in Nat : ~Passed(k, u)'
  BY <1>1, StartLoop
<1>3. 0 \in Nat /\ \A i, x : x \in 0 .. i => x \in Nat
  OBVIOUS
<1>4. \A k \in 0 .. Iterations' - 1, u \in 0 .. Updates' - 1 : ~Passed(k, u)'
  BY ONLY <1>2, <1>3
<1>5. \A k \in 0 .. Iterations' - 1 : ~Passed(k, 0)'
  BY ONLY <1>2, <1>3
<1>6. SseInv' /\ ScalarInv' /\ PlanesInv'
  BY <1>4 DEF SseInv, ScalarInv, PlanesInv
<1>7. BackgroundInv'
  BY <1>5 DEF BackgroundInv
<1> QED BY <1>4, <1>6, <1>7

LEMMA EncodeBuffers ==
    ASSUME PhaseInv, NEW j \in Jobs, Encode(j)
    PROVE  LoopInv' /\ OneRowInv' /\ BufferInv'
<1>1. /\ phase' = "encode" /\ job' = j /\ in' = j.image /\ out' = Prepared(j, j.image)
      /\ mid' = <<>> /\ Starts(j, "encode")
  BY DEF Encode
<1>2. /\ SseInv' /\ ScalarInv' /\ PlanesInv' /\ BackgroundInv'
      /\ \A k \in 0 .. Iterations' - 1, u \in 0 .. Updates' - 1 : ~Passed(k, u)'
  BY <1>1, StartsBuffers
<1>3. LoopInv' /\ OneRowInv'
  BY <1>1, StartsLoop, StartsOneRow
<1>4. MidInv' /\ OutcomeInv' /\ SumsInv'
  BY <1>1 DEF MidInv, OutcomeInv, SumsInv
<1>5. RestInv'
  BY <1>1 DEF RestInv, Prepared, ByPlanes
<1>6. RowsInv'
  BY <1>1, <1>2 DEF RowsInv, Prepared
<1> QED BY <1>2, <1>3, <1>4, <1>5, <1>6 DEF BufferInv

\* The planes are right when encode is through.
LEMMA PlanesDone ==
    ASSUME PhaseInv, LoopInv, BufferInv, phase = "encode", \A t \in Team : Finished(t), ByPlanes,
           NEW c \in Items(job), c \notin CutWords(job)
    PROVE  out[c] = Transposed(job, c)
<1>1. Loops /\ Encodes /\ job \in Jobs /\ in = job.image /\ out \in [Items(job) -> Values]
  BY DEF Loops, Encodes, PhaseInv
<1>2. PICK g \in Nat, w \in Nat \ {0}, n \in Nat, s \in Nat :
         g = Segment(job) /\ w = Width /\ n = MaxSize(job) /\ n = g * w /\ s = Size(job) /\ n <= s
  BY <1>1, Segments, Widths, JobTypes
<1>3. CASE c >= MaxSize(job)
  <2>1. out[c] = in[c]
    BY <1>1, <1>3 DEF BufferInv, RestInv
  <2> QED BY <1>1, <1>3, <2>1 DEF Transposed
<1>4. CASE ~(c >= MaxSize(job))
  <2>1. c \in 0 .. MaxSize(job) - 1
    <3>1. c \in 0 .. s - 1
      BY <1>2 DEF Items
    <3> QED BY ONLY <1>2, <1>4, <3>1, n \in Nat, s \in Nat
  <2>2. PICK p \in 0 .. Width - 1, q \in 0 .. Segment(job) - 1 :
           p = c \div Segment(job) /\ q = c % Segment(job) /\ c = p * Segment(job) + q
    BY <1>1, <2>1, WordPlace
  <2>3. CASE UsesSse(job)
    <3>1. Iterations = Width /\ Updates = Segment(job) /\ Place(p, q) = c
      BY <1>1, <2>2, <2>3, LoopKinds
    <3>2. Passed(p, q)
      BY <1>1, <2>2, <3>1, AllPassed
    <3> QED BY <2>2, <2>3, <3>1, <3>2 DEF BufferInv, SseInv
  <2>4. CASE ~UsesSse(job)
    <3>1. Iterations = MaxSize(job) /\ Updates = Width /\ \A k, u : Place(k, u) = PlaneItem(job, k, u)
      BY <1>1, <2>4, LoopKinds
    <3>2. PICK first \in Nat : first = q * Width /\ first + w <= n
      <4>1. (c % Segment(job)) * Width \in Nat /\ (c % Segment(job)) * Width + Width <= MaxSize(job)
        BY <1>1, <2>1, WordPlace
      <4>2. q * Width \in Nat /\ q * Width + w <= n
        BY ONLY <1>2, <2>2, <4>1
      <4> QED BY <4>2
    <3>3. ASSUME NEW i \in 0 .. Width - 1
          PROVE  Bit(out[c], Width - 1 - i) = WordBits(job, c)[i]
      <4>1. PICK k \in Nat, e \in Nat, u \in Nat :
               k = first + i /\ e = i /\ e < w /\ k < n /\ u = w - 1 - p /\ u < w
        <5>1. i \in Nat /\ i < w /\ first + i \in Nat /\ first + i < n
          BY ONLY <1>2, <3>2, i \in 0 .. Width - 1, w \in Nat, first \in Nat, n \in Nat
        <5>2. w - 1 - p \in Nat /\ w - 1 - p < w
          BY ONLY <1>2, p \in 0 .. Width - 1, w \in Nat
        <5> QED BY ONLY <5>1, <5>2
      <4>2. k \in 0 .. MaxSize(job) - 1 /\ u \in 0 .. Width - 1
        BY ONLY <1>2, <4>1, k \in Nat, u \in Nat, w \in Nat, n \in Nat
      <4>3. k \div w = q /\ k % w = e
        <5>1. q \in Nat /\ k = q * w + e
          <6>1. q \in Nat
            BY ONLY <1>2, q \in 0 .. Segment(job) - 1, g \in Nat
          <6> QED BY ONLY <1>2, <3>2, <4>1, <6>1
        <5>2. e < w
          BY <4>1
        <5>3. PICK x \in Nat : x = q
          BY <5>1
        <5>4. k = x * w + e
          BY ONLY <5>1, <5>3
        <5> QED BY ONLY <5>2, <5>3, <5>4, x \in Nat, k \in Nat, e \in Nat, w \in Nat \ {0}, DivIs
      <4>4. PlaneItem(job, k, u) = c
        <5>1. Width - 1 - u = p
          <6>1. p \in Int
            OBVIOUS
          <6> QED BY ONLY <1>2, <4>1, <6>1, w \in Nat
        <5>2. PlaneItem(job, k, u) = (Width - 1 - u) * Segment(job) + (k \div w)
          BY ONLY <1>2 DEF PlaneItem, Planes
        <5> QED BY ONLY <2>2, <4>3, <5>1, <5>2
      <4>5. PlaneBit(k) = Width - 1 - i
        BY ONLY <1>2, <4>1, <4>3 DEF PlaneBit, Planes
      <4>6. Passed(k, u)
        BY <1>1, <3>1, <4>2, AllPassed
      <4>7. Bit(out[c], Width - 1 - i) = Bit(job.image[k], u)
        BY <2>4, <3>1, <4>2, <4>4, <4>5, <4>6 DEF BufferInv, ScalarInv
      <4>8. WordBits(job, c)[i] = Bit(job.image[q * Width + i], Width - 1 - p)
        BY <2>2 DEF WordBits, PlaneBits
      <4> QED BY ONLY <1>2, <3>2, <4>1, <4>7, <4>8
    <3>4. IsWord(out[c], Width, WordBits(job, c))
      <4>1. out[c] \in Nat /\ out[c] < 2 ^ Width
        BY <1>1, ValuesType
      <4> QED BY <3>3, <4>1 DEF IsWord
    <3>5. IsWord(Transposed(job, c), Width, WordBits(job, c))
      BY <1>1, <2>1, TransposedIsWord
    <3> QED BY <1>2, <3>4, <3>5, WordUnique
  <2> QED BY <2>3, <2>4
<1> QED BY <1>3, <1>4

LEMMA FinishEncodeBuffers ==
    ASSUME PhaseInv, LoopInv, BufferInv, FinishEncode
    PROVE  LoopInv' /\ OneRowInv' /\ BufferInv'
<1>1. /\ phase = "encode" /\ job' = job /\ mid' = out /\ in' = out /\ level' = level
      /\ \A t \in Team : Finished(t)
  BY DEF FinishEncode
<1>2. Loops /\ Encodes /\ job \in Jobs /\ in = job.image
  BY <1>1 DEF Loops, Encodes, PhaseInv
<1>3. MidInv'
  <2>1. ByPlanes => \A c \in Items(job) \ CutWords(job) : out[c] = Transposed(job, c)
    BY <1>1, PlanesDone
  <2> QED BY <1>1, <2>1 DEF MidInv, PlanesRight, ByPlanes
<1>4. CASE job.scheme \in {"bitswap", "diff"}
  <2>1. phase' = "decode" /\ out' = Prepared(job, out) /\ Starts(job, "decode")
    BY <1>4 DEF FinishEncode
  <2>2. /\ SseInv' /\ ScalarInv' /\ PlanesInv' /\ BackgroundInv'
        /\ \A k \in 0 .. Iterations' - 1, u \in 0 .. Updates' - 1 : ~Passed(k, u)'
    BY <1>1, <1>2, <2>1, StartsBuffers
  <2>3. LoopInv' /\ OneRowInv'
    BY <1>1, <1>2, <2>1, StartsLoop, StartsOneRow
  <2>4. OutcomeInv'
    BY <2>1 DEF OutcomeInv
  <2>5. RestInv'
    BY <1>1, <2>1 DEF RestInv, Prepared, ByPlanes
  <2>6. ASSUME job.scheme = "diff"
        PROVE  /\ \A c \in Items(job) : out[c] = IF InLoop(c) THEN Differ(c) ELSE job.image[c]
               /\ \A c : InLoop(c)' <=> InLoop(c)
    <3>1. ByRows /\ ~ByPlanes
      BY <2>6 DEF ByRows, ByPlanes
    <3>2. Iterations' = Iterations /\ Updates' = Updates /\ \A k, u : Place(k, u)' = Place(k, u)
      BY <1>1, <3>1 DEF Iterations, Updates, Place, ByRows, ByPlanes
    <3>3. \A c : InLoop(c)' <=> InLoop(c)
      BY <3>2 DEF InLoop
    <3>4. ASSUME NEW c \in Items(job), InLoop(c) PROVE out[c] = Differ(c)
      <4>1. PICK k \in 0 .. Iterations - 1, u \in 0 .. Updates - 1 : Place(k, u) = c
        BY <3>4 DEF InLoop
      <4>2. Passed(k, u)
        BY <1>1, <1>2, AllPassed
      <4> QED BY <1>1, <2>6, <4>1, <4>2 DEF BufferInv, RowsInv
    <3>5. ASSUME NEW c \in Items(job), ~InLoop(c) PROVE out[c] = job.image[c]
      BY <1>1, <2>6, <3>5 DEF BufferInv, RowsInv
    <3> QED BY <3>3, <3>4, <3>5
  <2>7. RowsInv'
    BY <1>1, <2>1, <2>6, SameDiffer DEF RowsInv
  <2>8. SumsInv'
    BY <1>1, <2>1, <2>2, <2>6 DEF SumsInv, Prepared
  <2> QED BY <1>3, <2>2, <2>3, <2>4, <2>5, <2>7, <2>8 DEF BufferInv
<1>5. CASE ~(job.scheme \in {"bitswap", "diff"})
  <2>1. phase' = "decoded" /\ out' = out
    BY <1>5 DEF FinishEncode
  <2>2. ~Restores(job)
    BY <1>5 DEF Restores
  <2>3. ASSUME job.scheme \in {"remove_background", "rmestbkrd"}, NEW c \in Items(job)
        PROVE  out[c] = Reduced(job.image[c])
    <3>1. Iterations = Size(job) /\ Updates = 1
      BY <1>2, <2>3, LoopKinds
    <3>2. c \in 0 .. Iterations - 1 /\ 0 \in 0 .. Updates - 1
      BY <3>1 DEF Items
    <3>3. Passed(c, 0)
      BY <1>1, <1>2, <3>2, AllPassed
    <3> QED BY <1>1, <2>3, <3>2, <3>3 DEF BufferInv, BackgroundInv
  <2>4. OutcomeInv'
    BY <1>1, <2>1, <2>2, <2>3 DEF OutcomeInv, BackgroundRight, Reduced
  <2> QED BY <1>3, <2>1, <2>4, NoLoop
<1> QED BY <1>4, <1>5

\* Volumes that are restored, when decode is through.
LEMMA RestoredDone ==
    ASSUME PhaseInv, LoopInv, BufferInv, phase = "decode", \A t \in Team : Finished(t),
           Restores(job), NEW c \in Items(job)
    PROVE  out[c] = job.image[c]
<1>1. Loops /\ ~Encodes /\ job \in Jobs /\ in = mid /\ out \in [Items(job) -> Values]
  BY DEF Loops, Encodes, PhaseInv
<1>2. job.image \in [Items(job) -> Values]
  BY <1>1, JobTypes
<1>3. CASE job.scheme = "bitswap" /\ CutWords(job) = {}
  <2>0. ByPlanes
    BY <1>3 DEF ByPlanes
  <2>1. PICK n \in Nat, s \in Nat : n = MaxSize(job) /\ s = Size(job) /\ c \in 0 .. s - 1
    BY <1>1, Segments, JobTypes DEF Items
  <2>2. CASE c >= MaxSize(job)
    <3>1. out[c] = mid[c]
      BY <1>1, <2>0, <2>2 DEF BufferInv, RestInv
    <3>2. mid # <<>>
      <4>1. c \in DOMAIN mid
        BY <1>1 DEF PhaseInv
      <4>2. c \notin DOMAIN <<>>
        OBVIOUS
      <4> QED BY <4>1, <4>2
    <3>3. mid[c] = Transposed(job, c)
      BY <1>3, <3>2 DEF BufferInv, MidInv, PlanesRight
    <3> QED BY <2>2, <3>1, <3>3 DEF Transposed
  <2>3. CASE ~(c >= MaxSize(job))
    <3>1. c \in 0 .. MaxSize(job) - 1
      BY ONLY <2>1, <2>3, n \in Nat, s \in Nat
    <3>2. Iterations = Width /\ Updates = MaxSize(job)
      BY <1>1, <2>0, LoopKinds
    <3>3. ASSUME NEW k \in 0 .. Width - 1 PROVE Bit(out[c], k) = Bit(job.image[c], k)
      <4>1. Passed(k, c)
        BY <1>1, <3>1, <3>2, AllPassed
      <4> QED BY <1>3, <2>0, <3>1, <3>2, <4>1 DEF BufferInv, PlanesInv
    <3>4. PICK v \in Nat, x \in Nat, w \in Nat :
             v = out[c] /\ x = job.image[c] /\ w = Width /\ v < 2 ^ w /\ x < 2 ^ w
      BY <1>1, <1>2, ValuesType, Widths
    <3>5. \A k \in 0 .. w - 1 : Bit(v, k) = Bit(x, k)
      BY <3>3, <3>4
    <3>6. v = x
      BY ONLY <3>4, <3>5, v \in Nat, x \in Nat, w \in Nat, SameBits
    <3> QED BY <3>4, <3>6
  <2> QED BY <2>2, <2>3
<1>4. CASE job.scheme = "diff" /\ job.readers = 1
  <2>1. CASE InLoop(c)
    <3>1. PICK k \in 0 .. Iterations - 1, u \in 0 .. Updates - 1 : Place(k, u) = c
      BY <2>1 DEF InLoop
    <3>2. Passed(k, u)
      BY <1>1, AllPassed
    <3> QED BY <1>4, <3>1, <3>2 DEF BufferInv, SumsInv
  <2>2. CASE ~InLoop(c)
    BY <1>4, <2>2 DEF BufferInv, SumsInv
  <2> QED BY <2>1, <2>2
<1> QED BY <1>3, <1>4 DEF Restores

LEMMA FinishDecodeBuffers ==
    ASSUME PhaseInv, LoopInv, BufferInv, FinishDecode
    PROVE  LoopInv' /\ OneRowInv' /\ BufferInv'
<1>1. /\ phase = "decode" /\ phase' = "decoded" /\ job' = job /\ mid' = mid /\ out' = out
      /\ \A t \in Team : Finished(t)
  BY DEF FinishDecode
<1>2. /\ job \in Jobs /\ out \in [Items(job) -> Values] /\ job.image \in [Items(job) -> Values]
      /\ job.scheme \in {"bitswap", "diff"}
  BY <1>1, JobTypes DEF PhaseInv, Loops
<1>3. Restores(job) => out = job.image
  <2>1. Restores(job) => \A c \in Items(job) : out[c] = job.image[c]
    BY <1>1, RestoredDone
  <2> QED BY <1>2, <2>1
<1>4. OutcomeInv'
  BY <1>1, <1>2, <1>3 DEF OutcomeInv, BackgroundRight
<1>5. MidInv'
  BY <1>1 DEF BufferInv, MidInv, PlanesRight
<1> QED BY <1>1, <1>4, <1>5, NoLoop
-----------------------------------------------------------------------------
(* The theorem *)

LEMMA KernelsStart == KernelInit => KernelsInv
BY DEF KernelInit, KernelsInv, PhaseInv, LoopInv, MidInv, SseInv, ScalarInv, RestInv, PlanesInv,
       RowsInv, OneRowInv, SumsInv, BackgroundInv, OutcomeInv, Loops

LEMMA KernelsStep ==
    ASSUME KernelsInv, [KernelNext]_kernelVars
    PROVE  KernelsInv'
<1>1. PhaseInv /\ LoopInv /\ OneRowInv /\ BufferInv
  BY DEF KernelsInv, BufferInv
<1>2. SUFFICES PhaseInv' /\ LoopInv' /\ OneRowInv' /\ BufferInv'
  BY DEF KernelsInv, BufferInv
<1>3. ASSUME NEW j \in Jobs, Encode(j)
      PROVE  PhaseInv' /\ LoopInv' /\ OneRowInv' /\ BufferInv'
  BY <1>1, <1>3, EncodePhase, EncodeBuffers
<1>4. ASSUME NEW j \in Jobs, Throw(j) \/ StartOutside(j)
      PROVE  PhaseInv' /\ LoopInv' /\ OneRowInv' /\ BufferInv'
  <2>1. PhaseInv'
    BY <1>1, <1>4, ThrowPhase, OutsidePhase
  <2>2. phase' \in {"thrown", "outside"} /\ mid' = mid /\ mid = <<>>
    BY <1>1, <1>4 DEF Throw, StartOutside, PhaseInv
  <2>3. MidInv' /\ OutcomeInv'
    BY <2>2 DEF MidInv, OutcomeInv
  <2> QED BY <2>1, <2>2, <2>3, NoLoop
<1>5. ASSUME NEW t \in DOMAIN next, Load(t)
      PROVE  PhaseInv' /\ LoopInv' /\ OneRowInv' /\ BufferInv'
  BY <1>1, <1>5, LoadLoop, LoadOneRow, SameBuffers DEF Load
<1>6. ASSUME NEW t \in DOMAIN next, Store(t)
      PROVE  PhaseInv' /\ LoopInv' /\ OneRowInv' /\ BufferInv'
  <2>1. Puts(t, reg[t])
    BY <1>1, <1>6, StorePuts
  <2> QED BY <1>1, <1>6, <2>1, StoreLoop, PutsPhase, PutsOneRow, PutsBuffers
<1>7. ASSUME NEW t \in DOMAIN next, Write(t)
      PROVE  PhaseInv' /\ LoopInv' /\ OneRowInv' /\ BufferInv'
  <2>1. Puts(t, Value(t))
    BY <1>1, <1>7, WritePuts
  <2> QED BY <1>1, <1>7, <2>1, WriteLoop, PutsPhase, PutsOneRow, PutsBuffers
<1>8. ASSUME NEW t \in DOMAIN next, Leave(t)
      PROVE  PhaseInv' /\ LoopInv' /\ OneRowInv' /\ BufferInv'
  <2>1. PhaseInv'
    BY <1>1, <1>8, LeavePhase
  <2>2. phase' = "outside" /\ mid' = mid /\ job' = job
    BY <1>8 DEF Leave
  <2>3. MidInv' /\ OutcomeInv'
    BY <1>1, <2>2 DEF BufferInv, MidInv, PlanesRight, OutcomeInv
  <2> QED BY <2>1, <2>2, <2>3, NoLoop
<1>9. ASSUME FinishEncode
      PROVE  PhaseInv' /\ LoopInv' /\ OneRowInv' /\ BufferInv'
  BY <1>1, <1>9, FinishEncodePhase, FinishEncodeBuffers
<1>10. ASSUME FinishDecode
       PROVE  PhaseInv' /\ LoopInv' /\ OneRowInv' /\ BufferInv'
  BY <1>1, <1>10, FinishDecodePhase, FinishDecodeBuffers
<1>11. ASSUME Return
       PROVE  PhaseInv' /\ LoopInv' /\ OneRowInv' /\ BufferInv'
  <2>1. phase' = "idle" /\ mid' = <<>> /\ job' = job
    BY <1>11 DEF Return
  <2>2. PhaseInv'
    BY <1>1, <2>1 DEF PhaseInv, Loops
  <2>3. MidInv' /\ OutcomeInv'
    BY <2>1 DEF MidInv, OutcomeInv
  <2> QED BY <2>1, <2>2, <2>3, NoLoop
<1>12. ASSUME UNCHANGED kernelVars
       PROVE  PhaseInv' /\ LoopInv' /\ OneRowInv' /\ BufferInv'
  BY <1>1, <1>12, SameAll
<1> QED BY <1>3, <1>4, <1>5, <1>6, <1>7, <1>8, <1>9, <1>10, <1>11, <1>12 DEF KernelNext

\* The outcomes of the filters that work item by item, whatever the volume, the
\* team and the order of its threads' steps: see KernelsRight.
THEOREM PlanesAndRowsRight == KernelSpec => []KernelsRight
<1>1. KernelInit => KernelsInv
  BY KernelsStart
<1>2. KernelsInv /\ [KernelNext]_kernelVars => KernelsInv'
  BY KernelsStep
<1>3. KernelsInv => KernelsRight
  <2> SUFFICES ASSUME KernelsInv PROVE KernelsRight
    OBVIOUS
  <2>1. PlanesRight
    BY DEF KernelsInv, MidInv, PlanesRight
  <2>2. phase = "outside" => ~Roomy(job)
    BY DEF KernelsInv, PhaseInv
  <2>3. phase = "decoded" => (Restores(job) => out = job.image) /\ BackgroundRight
    BY DEF KernelsInv, OutcomeInv
  <2> QED BY <2>1, <2>2, <2>3 DEF KernelsRight
<1> QED BY <1>1, <1>2, <1>3, PTL DEF KernelSpec
=============================================================================
