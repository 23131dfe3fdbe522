------------------------------ MODULE Quantiser -------------------------------
(***************************************************************************)
(* The quantiser sink of encoders/quantiser_scheme_impl.hpp: a volume of raw *)
(* values becomes codes of fewer levels, by a look-up table made from the     *)
(* histogram of all the volumes the object has seen, weighted or not.  The    *)
(* table that leads back travels in the configuration of the stream or in a   *)
(* file.  Few levels are numbered one by one (linear_mapping_quantisation);   *)
(* more are gathered in buckets of about equal importance, each represented   *)
(* by its centre of mass (adaptive_lloyd_com).  The loops over the raw values *)
(* are actions, so that they can be reasoned about step by step.              *)
(*                                                                         *)
(* A volume is its histogram: all that the stage looks at is which values     *)
(* occur how often, and every item is coded by its value alone.  Importance   *)
(* is a float in the code and an integer here: exact below 2^24.              *)
(***************************************************************************)
EXTENDS Integers, FiniteSetsExt

CONSTANTS MaxRaw,      \* largest raw value
          Levels,      \* max_compressed_: number of codes
          Signedness,  \* whether compressed_type may be a signed type
          Weightings,  \* what weighting_function may say
          Power,       \* pow(x, exponent) of the weighting functions
          Histograms,  \* the volumes: how often every value occurs
          Volumes      \* bound: calls of encode

Raw   == 0 .. MaxRaw
Codes == 0 .. Levels - 1

ASSUME QuantiserAssumption ==
    /\ MaxRaw \in Nat \ {0} /\ Levels \in Nat \ {0, 1}
    /\ Signedness \subseteq BOOLEAN
    /\ Weightings \subseteq {"none", "power_of", "offset_power_of"}
    /\ Power \in [Raw -> Nat] /\ \A r \in Raw : Power[r] = 0 <=> r = 0
    /\ Histograms \subseteq [Raw -> Nat]
    /\ Volumes \in Nat

VARIABLES
    weighting,   \* weighting_string
    by_path,     \* the table is kept in a file (decode_lut_path)
    signed,      \* the codes are char, and the platform's char is signed
    pc,          \* where the calling thread is
    calls,       \* volumes encoded so far: the identity of the last one
    input,       \* the volume: how often every raw value occurs
    histo,       \* histo_: of every volume since the object was made
    importance,  \* importance_
    lut_encode, lut_decode,
    raw_idx, comp_idx,
    quantile,    \* quantile_sum: importance gathered in the bucket
    moment,      \* weighted_mean_importance_in_bucket
    centre,      \* index_weighted_mean_importance
    integral,    \* importanceIntegral: importance of all values before raw_idx
    bucket,      \* bucketSize, as a fraction
    lut_file,    \* content of the file decode_lut_path
    streams,     \* the streams the caller has kept
    dec          \* the stream decoded last and the values it was restored to

object == <<weighting, by_path, signed>>
loop   == <<raw_idx, comp_idx, quantile, moment, centre, integral, bucket>>
luts   == <<lut_encode, lut_decode>>
volume == <<calls, input, histo, importance>>
kept   == <<lut_file, streams>>
vars   == <<object, pc, volume, luts, loop, kept, dec>>

NoVolume == [r \in Raw |-> 0]
Empty    == [c \in Codes |-> 0]

ValuesOf(h) == {r \in Raw : h[r] > 0}
Total(h)    == MapThenSumSet(LAMBDA r : h[r], Raw)

\* The first bin that is not empty: the offset of offset_power_of.
Offset(h) == CHOOSE r \in ValuesOf(h) : \A q \in ValuesOf(h) : r <= q

\* computeWeights and computeImportance; bins below the offset keep weight 1.
Weighted(h) ==
    [r \in Raw |->
        h[r] * IF weighting = "power_of" THEN Power[r]
               ELSE IF weighting = "offset_power_of"
                 THEN IF r < Offset(h) THEN 1 ELSE Power[r - Offset(h)]
               ELSE 1]

\* std::round of a fraction that is not negative.
Round(a, b) == (2 * a + b) \div (2 * b)

NoStream == [volume |-> 0, values |-> {}, levels |-> {}, lut |-> Empty,
             code |-> [r \in {} |-> 0]]
NoDecode == [stream |-> NoStream, value |-> [r \in {} |-> 0]]

Init ==
    /\ weighting \in Weightings /\ by_path \in BOOLEAN /\ signed \in Signedness
    /\ pc = "idle"
    /\ calls = 0 /\ input = NoVolume
    /\ histo = NoVolume /\ importance = NoVolume
    /\ lut_encode = NoVolume /\ lut_decode = Empty
    /\ raw_idx = 0 /\ comp_idx = 0
    /\ quantile = 0 /\ moment = 0 /\ centre = 0 /\ integral = 0
    /\ bucket = [num |-> 0, den |-> 1]
    /\ lut_file = Empty /\ streams = {} /\ dec = NoDecode

-----------------------------------------------------------------------------
(* encode *)

\* setup_com up to the choice of the mapping, with the first statements of it.
\* The stage makes its quantiser when it is constructed, before any thread count
\* can be set (quantiser_scheme_impl.hpp:94), and never tells it another one:
\* fill_histogram runs with one thread and adds the volume to the bins once.
Setup ==
    /\ pc = "idle" /\ calls < Volumes
    /\ calls' = calls + 1
    /\ \E v \in Histograms :
         /\ ValuesOf(v) # {}
         /\ input' = v
         /\ histo' = [r \in Raw |-> histo[r] + v[r]]
    /\ importance' = Weighted(histo')
    /\ comp_idx' = 0 /\ moment' = 0 /\ centre' = 0
    /\ quantile' = importance'[0] /\ integral' = importance'[0]
    /\ bucket' = [num |-> Total(importance'), den |-> Levels]
    /\ LET levels == Cardinality(ValuesOf(importance')) IN
         /\ pc' = IF levels = 0 THEN "publish"
                  ELSE IF levels <= Levels THEN "linear" ELSE "lloyd"
         /\ raw_idx' = IF levels <= Levels THEN 0 ELSE 1
    /\ dec' = NoDecode
    /\ UNCHANGED <<object, luts, kept>>

Mapping == raw_idx <= MaxRaw /\ comp_idx < Levels

\* Mutants of LinearMap: a value that does not occur takes a code as well, and
\* the loop stays at such a value.
MapEvery ==
    /\ pc = "linear" /\ Mapping
    /\ lut_encode' = [lut_encode EXCEPT ![raw_idx] = comp_idx]
    /\ lut_decode' = [lut_decode EXCEPT ![comp_idx] = raw_idx]
    /\ comp_idx' = comp_idx + 1
    /\ raw_idx' = raw_idx + 1
    /\ UNCHANGED <<object, pc, volume, quantile, moment, centre, integral,
                   bucket, kept, dec>>

MapStays ==
    /\ pc = "linear" /\ Mapping
    /\ lut_encode' = [lut_encode EXCEPT ![raw_idx] = comp_idx]
    /\ lut_decode' = [lut_decode EXCEPT ![comp_idx] = raw_idx]
    /\ comp_idx' = IF importance[raw_idx] # 0 THEN comp_idx + 1 ELSE comp_idx
    /\ raw_idx' = IF importance[raw_idx] # 0 THEN raw_idx + 1 ELSE raw_idx
    /\ UNCHANGED <<object, pc, volume, quantile, moment, centre, integral,
                   bucket, kept, dec>>

LinearMap ==
    /\ pc = "linear" /\ Mapping
    /\ lut_encode' = [lut_encode EXCEPT ![raw_idx] = comp_idx]
    /\ lut_decode' = [lut_decode EXCEPT ![comp_idx] = raw_idx]
    /\ comp_idx' = IF importance[raw_idx] # 0 THEN comp_idx + 1 ELSE comp_idx
    /\ raw_idx' = raw_idx + 1
    /\ UNCHANGED <<object, pc, volume, quantile, moment, centre, integral,
                   bucket, kept, dec>>

\* The codes left over lead where the last one leads.
LinearEnd ==
    /\ pc = "linear" /\ ~Mapping
    /\ lut_decode' =
         IF comp_idx \in 1 .. Levels - 1 /\ lut_decode[comp_idx] = MaxRaw
         THEN [c \in Codes |-> lut_decode[IF c < comp_idx THEN c ELSE comp_idx - 1]]
         ELSE lut_decode
    /\ pc' = "publish"
    /\ UNCHANGED <<object, volume, lut_encode, loop, kept, dec>>

\* Mutant of Overflows: also the last bucket may overflow.
AlwaysOverflows == quantile * bucket.den >= bucket.num

Overflows == quantile * bucket.den >= bucket.num /\ comp_idx < Levels - 1

\* The rest of an iteration: a value joins the bucket c.
Gather(c) ==
    /\ centre' = IF quantile' # 0 THEN Round(moment', quantile') ELSE centre
    /\ lut_encode' = [lut_encode EXCEPT ![raw_idx] = c]
    /\ integral' = integral + importance[raw_idx]
    /\ raw_idx' = raw_idx + 1
    /\ UNCHANGED <<object, pc, volume, kept, dec>>

\* The bucket holds its share: the next one takes an equal part of the rest.
NextBucket ==
    /\ pc = "lloyd" /\ raw_idx <= MaxRaw /\ Overflows
    /\ lut_decode' = [lut_decode EXCEPT ![comp_idx] = centre]
    /\ comp_idx' = comp_idx + 1
    /\ quantile' = importance[raw_idx]
    /\ moment' = raw_idx * importance[raw_idx]
    /\ bucket' = IF integral < Total(importance)
                 THEN [num |-> Total(importance) - integral,
                       den |-> Levels - comp_idx']
                 ELSE bucket
    /\ Gather(comp_idx')

\* Mutant of FillBucket: the centre of mass forgets the weights.
FillUnweighted ==
    /\ pc = "lloyd" /\ raw_idx <= MaxRaw /\ ~Overflows
    /\ quantile' = quantile + importance[raw_idx]
    /\ moment' = moment + raw_idx
    /\ UNCHANGED <<comp_idx, lut_decode, bucket>>
    /\ Gather(comp_idx)

FillBucket ==
    /\ pc = "lloyd" /\ raw_idx <= MaxRaw /\ ~Overflows
    /\ quantile' = quantile + importance[raw_idx]
    /\ moment' = moment + raw_idx * importance[raw_idx]
    /\ UNCHANGED <<comp_idx, lut_decode, bucket>>
    /\ Gather(comp_idx)

\* Mutant of LloydEnd: the last bucket is given no representative.
LloydForgets ==
    /\ pc = "lloyd" /\ raw_idx > MaxRaw
    /\ pc' = "publish"
    /\ UNCHANGED <<object, volume, luts, loop, kept, dec>>

LloydEnd ==
    /\ pc = "lloyd" /\ raw_idx > MaxRaw
    /\ lut_decode' = [lut_decode EXCEPT ![comp_idx] = centre]
    /\ pc' = "publish"
    /\ UNCHANGED <<object, volume, lut_encode, loop, kept, dec>>

\* The stream of the present volume; lut is what its header says.
Stream(lut) ==
    [volume |-> calls, values |-> ValuesOf(input), levels |-> ValuesOf(importance),
     lut |-> lut, code |-> [r \in ValuesOf(input) |-> lut_encode[r]]]

\* encode stores the table that leads back and codes the volume.
Publish ==
    /\ pc = "publish"
    /\ IF by_path THEN /\ lut_file' = lut_decode
                       /\ streams' = streams \cup {Stream(Empty)}
       ELSE /\ streams' = streams \cup {Stream(lut_decode)}
            /\ UNCHANGED lut_file
    /\ pc' = "idle"
    /\ UNCHANGED <<object, volume, luts, loop, dec>>

\* The caller makes a new object of the same configuration; the constructor
\* loads the table from the file, if the configuration names one.
Construct ==
    /\ pc = "idle"
    /\ histo' = NoVolume /\ importance' = NoVolume
    /\ lut_encode' = NoVolume
    /\ lut_decode' = IF by_path THEN lut_file ELSE Empty
    /\ UNCHANGED <<object, pc, calls, input, loop, kept, dec>>

-----------------------------------------------------------------------------
(* decode, by an object made from the configuration in the stream *)

\* A code is the index into the table: one whose upper bit is set is negative as
\* a signed number and reads whatever lies in front of the table.
InTable(c) == signed => 2 * c < Levels

Restored(s, lut) ==
    {value \in [s.values -> Raw] :
        \A r \in s.values : InTable(s.code[r]) => value[r] = lut[s.code[r]]}

Decode ==
    /\ pc = "idle"
    /\ \E s \in streams :
       \E value \in Restored(s, IF by_path THEN lut_file ELSE s.lut) :
         dec' = [stream |-> s, value |-> value]
    /\ UNCHANGED <<object, pc, volume, luts, loop, kept>>

Caller == LinearMap \/ LinearEnd \/ NextBucket \/ FillBucket \/ LloydEnd \/ Publish

Next == Setup \/ Construct \/ Decode \/ Caller

\* encode is sequential code: once called, it goes on.
Spec == Init /\ [][Next]_vars /\ WF_vars(Caller)

-----------------------------------------------------------------------------
(* Properties *)

TypeOK ==
    /\ weighting \in Weightings /\ by_path \in BOOLEAN /\ signed \in Signedness
    /\ pc \in {"idle", "linear", "lloyd", "publish"}
    /\ calls \in 0 .. Volumes /\ input \in [Raw -> Nat]
    /\ histo \in [Raw -> Nat] /\ importance \in [Raw -> Nat]
    /\ lut_encode \in [Raw -> Codes] /\ lut_decode \in [Codes -> Raw]
    /\ raw_idx \in 0 .. MaxRaw + 1 /\ comp_idx \in 0 .. Levels
    /\ quantile \in Nat /\ moment \in Nat /\ centre \in Raw /\ integral \in Nat
    /\ bucket.den \in 1 .. Levels
    /\ lut_file \in [Codes -> Raw]
    /\ \A s \in streams : /\ s.volume \in 0 .. Volumes
                          /\ s.values \subseteq Raw /\ s.levels \subseteq Raw
                          /\ s.lut \in [Codes -> Raw]
                          /\ s.code \in [s.values -> Codes]
    /\ dec.value \in [dec.stream.values -> Raw]

\* Every code the present volume uses leads back to a value between two levels
\* that have this code: no bucket is represented by a value outside of it, and
\* quantising a restored volume with the same tables changes nothing.
Representative ==
    pc = "publish" /\ ValuesOf(importance) # {} =>
        \A c \in {lut_encode[r] : r \in ValuesOf(input)} :
            /\ lut_encode[lut_decode[c]] = c
            /\ \E a, b \in ValuesOf(importance) :
                 /\ lut_encode[a] = c /\ lut_encode[b] = c
                 /\ a <= lut_decode[c] /\ lut_decode[c] <= b

\* The table a stream is decoded with is the one it was encoded with: always
\* if the stream carries it, and until the next volume if a file does.
Intact(s) == by_path => s.volume = calls /\ pc = "idle"

\* Restored values are ordered like the original ones, where the codes index the
\* table: all of them if the codes are unsigned, the lower half if not.
OrderKept ==
    Intact(dec.stream) =>
        \A r, s \in dec.stream.values :
            r <= s /\ InTable(dec.stream.code[r]) /\ InTable(dec.stream.code[s])
                => dec.value[r] <= dec.value[s]

\* The levels that are told apart safely: half as many if codes are signed.
Room == IF signed THEN (Levels + 1) \div 2 ELSE Levels

\* If the object has met no more levels than there is room for, each of them is
\* restored exactly, whatever volumes were encoded before.  A value that the
\* weighting gave no importance, the smallest at most, becomes the lowest level.
Lossless ==
    LET levels == dec.stream.levels IN
    Intact(dec.stream) /\ levels # {} /\ Cardinality(levels) <= Room =>
        \A r \in dec.stream.values :
            dec.value[r] = IF r \in levels THEN r ELSE Min(levels)

\* Every call of encode returns.
EncodeReturns == pc # "idle" ~> pc = "idle"
=============================================================================
