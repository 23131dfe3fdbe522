----------------------------- MODULE PipelineText ------------------------------
(***************************************************************************)
(* The text of a pipeline: string_parsers.hpp, base64.hpp, the factories of  *)
(* dynamic_stage_factory.hpp and sqeazy_pipelines.hpp, and how               *)
(* dynamic_pipeline::from_string and name() turn a text into stages and      *)
(* back.  The header of a stream carries this text, and decode has nothing   *)
(* else to build its stages from.                                            *)
(*                                                                         *)
(* A text is a sequence of tokens: separators, brackets, verbatim marks,     *)
(* names, and the characters of the base64 alphabet.  Parsing a text with an *)
(* undefined outcome (a range that ends before it begins) gives Wild.        *)
(***************************************************************************)
EXTENDS Integers, Sequences, FiniteSets, SequencesExt, TLC

VOpen  == "<verbatim>"
VClose == "</verbatim>"
Wild   == <<"?">>

Where(text, tok) == {i \in DOMAIN text : text[i] = tok}
Least(S, none) == IF S = {} THEN none ELSE CHOOSE i \in S : \A j \in S : i <= j
Find(text, tok) == Least(Where(text, tok), Len(text) + 1)

-----------------------------------------------------------------------------
(* base64 and verbatim options *)

\* The characters codes begins with, which its mask lets through, and the padding.
codes == <<"A", "B", "C", "D", "E", "F", "G", "H", "I", "J", "K", "L", "M", "N", "O", "P",
           "Q", "R", "S", "T", "U", "V", "W", "X", "Y", "Z", "a", "b", "c", "d", "e", "f",
           "g", "h", "i", "j", "k", "l", "m", "n", "o", "p", "q", "r", "s", "t", "u", "v",
           "w", "x", "y", "z", "0", "1", "2", "3", "4", "5", "6", "7", "8", "9", "+", "/", "=">>
Code(k) == codes[k + 1]
Sextet == [c \in {Code(k) : k \in 0 .. 64} |->
             IF c = "=" THEN 0 ELSE CHOOSE k \in 0 .. 63 : Code(k) = c]

EncodedBytes(n) == 4 * ((n + 2) \div 3)

\* Mutant of DecodedBytes: the padding counts.
PaddedBytes(code) == (3 * Len(code)) \div 4

DecodedBytes(code) ==
    LET tail == IF Len(code) > 3 THEN Len(code) - 3 .. Len(code) ELSE {} IN
    (3 * Len(code)) \div 4 - Cardinality(Where(code, "=") \cap tail)

\* byte3_to_char4 for full groups, padded_byte3_to_char4 for the last one.
FastEncode(bytes) ==
    [i \in 1 .. EncodedBytes(Len(bytes)) |->
       LET g == 3 * ((i - 1) \div 4)
           B(k) == IF g + k <= Len(bytes) THEN bytes[g + k] ELSE 0 IN
       Code(CASE i % 4 = 1 -> B(1) \div 4
              [] i % 4 = 2 -> (B(1) % 4) * 16 + B(2) \div 16
              [] i % 4 = 3 -> IF g + 2 > Len(bytes) THEN 64
                              ELSE (B(2) % 16) * 4 + B(3) \div 64
              [] i % 4 = 0 -> IF g + 3 > Len(bytes) THEN 64 ELSE B(3) % 64)]

\* Eight bits at a time from six, cropped to decoded_bytes.
Decode64(code) ==
    [i \in 1 .. DecodedBytes(code) |->
       LET g == 4 * ((i - 1) \div 3)
           S(k) == Sextet[code[g + k]] IN
       CASE i % 3 = 1 -> S(1) * 4 + S(2) \div 16
         [] i % 3 = 2 -> (S(2) % 16) * 16 + S(3) \div 4
         [] i % 3 = 0 -> (S(3) % 4) * 64 + S(4)]

\* The memory of items of w bytes, one or two, little endian.
Memory(items, w) ==
    [i \in 1 .. Len(items) * w |->
       LET item == items[(i - 1) \div w + 1] IN
       IF (i - 1) % w = 0 THEN item % 256 ELSE (item \div 256) % 256]
Items(bytes, w) ==
    [i \in 1 .. Len(bytes) \div w |->
       IF w = 1 THEN bytes[i] ELSE bytes[2 * i - 1] + 256 * bytes[2 * i]]

RangeToVerbatim(items, w) ==
    IF items = <<>> THEN <<>>
    ELSE <<VOpen>> \o FastEncode(Memory(items, w)) \o <<VClose>>

VerbatimYields(text, w) == DecodedBytes(SubSeq(text, 2, Len(text) - 1)) \div w

\* The range keeps what it holds if the text has more bytes than it.
VerbatimToRange(text, items, w) ==
    LET end  == LET S == Where(text, VClose) IN
                IF S = {} THEN Len(text) ELSE (CHOOSE i \in S : \A j \in S : j <= i) - 1
        code == SubSeq(text, 2, end)
        read == Items(Decode64(code), w) IN
    IF DecodedBytes(code) > Len(items) * w THEN items
    ELSE read \o SubSeq(items, Len(read) + 1, Len(items))

-----------------------------------------------------------------------------
(* splitting *)

Between(text, cuts) ==
    [i \in 1 .. Len(cuts) - 1 |-> SubSeq(text, cuts[i] + 1, cuts[i + 1] - 1)]
SimpleSplit(text, sep) ==
    IF text = <<>> THEN <<>>
    ELSE Between(text, <<0>> \o SetToSortSeq(Where(text, sep), <) \o <<Len(text) + 1>>)

\* Whether a place is inside a verbatim area, and the first separator behind one.
Hidden(text, i) == Cardinality({j \in Where(text, VOpen) : j < i})
                   # Cardinality({j \in Where(text, VClose) : j < i})
Behind(text, sep, close) ==
    Least({i \in Where(text, sep) : i > close /\ ~Hidden(text, i)}, Len(text) + 1)
Visited(text, s, open, front, next) ==
    [parts |-> s.parts \o Front(front) \o <<SubSeq(text, open - Len(Last(front)), next - 1)>>,
     from |-> next + 1]
Visit(text, sep, s, open, close) ==
    IF s.parts = Wild \/ open <= s.from THEN [s EXCEPT !.parts = Wild]
    ELSE Visited(text, s, open, SimpleSplit(SubSeq(text, s.from, open - 1), sep),
                 Behind(text, sep, close))
BehindAll(text, sep, s) ==
    IF s.parts = Wild THEN Wild
    ELSE s.parts \o SimpleSplit(SubSeq(text, s.from, Len(text)), sep)
Areas(text, opens, closes) ==
    [k \in DOMAIN closes |->
        <<IF k > Len(opens) THEN Len(text) + 1 ELSE opens[k], closes[k]>>]

\* One verbatim area after the other: what is in front of it is split, the
\* part it is in goes on to the first separator behind it outside any area.
\* The areas that are passed on the way are visited all the same.
InformedSplitImpl(text, sep) ==
    BehindAll(text, sep,
        FoldLeft(LAMBDA s, area : Visit(text, sep, s, area[1], area[2]),
                 [parts |-> <<>>, from |-> 1],
                 Areas(text, SetToSortSeq(Where(text, VOpen), <),
                             SetToSortSeq(Where(text, VClose), <))))

InformedSplit(text, sep) ==
    CASE Where(text, VOpen) = {} /\ Where(text, VClose) = {} -> SimpleSplit(text, sep)
      [] Where(text, VOpen) # {} /\ Where(text, VClose) # {} -> InformedSplitImpl(text, sep)
      [] OTHER -> <<>>

-----------------------------------------------------------------------------
(* pipeline_parser *)

KeyOf(part) == SubSeq(part, 1, Find(part, "(") - 1)

\* to_pairs: names, and what is between the brackets.  An opening bracket that
\* ends the text asks for a string of length -1, which throws.
PartsThrow(parts) ==
    parts = Wild \/ \E i \in DOMAIN parts : Where(parts[i], "(") = {Len(parts[i])}
Throws(text) == PartsThrow(InformedSplit(text, "->"))

Pair(part) == [name |-> KeyOf(part), args |-> SubSeq(part, Find(part, "(") + 1, Len(part) - 1)]
Pairs(parts) == [i \in DOMAIN parts |-> Pair(parts[i])]
ToPairs(text) == Pairs(InformedSplit(text, "->"))

\* minors: a value that is empty is replaced by the whole option.
OptionKey(opt) == SubSeq(opt, 1, Find(opt, "=") - 1)
OptionValue(opt) ==
    IF Find(opt, "=") < Len(opt) THEN SubSeq(opt, Find(opt, "=") + 1, Len(opt)) ELSE opt

FirstOfEach(opts) ==
    [k \in {OptionKey(opts[i]) : i \in DOMAIN opts} |->
       OptionValue(opts[CHOOSE i \in DOMAIN opts : /\ OptionKey(opts[i]) = k
                          /\ \A j \in DOMAIN opts : OptionKey(opts[j]) = k => j <= i])]
Minors(args) == FirstOfEach(InformedSplit(args, ","))

-----------------------------------------------------------------------------
(* stages and factories *)

\* The options a stage prints, in this order, with what they are by default.
StageOptions ==
    "lz4"           :> << <<"accel", "1">>, <<"blocksize_kb", "256">>,
                          <<"framestep_kb", "256">>, <<"n_chunks_of_input", "0">> >>
 @@ "bitswap1"      :> << <<"num_bits_per_plane", "1">> >>
 @@ "frame_shuffle" :> << <<"frame_chunk_size", "1">>, <<"reorder_map", "">> >>
 @@ "quantiser"     :> << <<"decode_lut_string", "">>, <<"weighting_function", "">> >>
 @@ "diff"          :> << >>
 @@ "pass_through"  :> << >>

FiltersFactory     == {"diff", "bitswap1", "frame_shuffle"}
EncodersFactory    == {"pass_through", "quantiser", "lz4"}
TailFiltersFactory == {"diff", "bitswap1", "lz4", "frame_shuffle"}
FromUint8Sinks     == {"lz4"}        \* dypeline_from_uint8, used by the filter
FromUint8Tails     == {"lz4"}

Dypeline      == [head |-> FiltersFactory, sink |-> EncodersFactory,
                  tail |-> TailFiltersFactory]
DypelineUint8 == [head |-> FiltersFactory, sink |-> FromUint8Sinks,
                  tail |-> FromUint8Tails]

\* type_matches
Has(factory, name) == Len(name) = 1 /\ name[1] \in factory

\* The constructors: chunks of the input make lz4 ignore its frame step (the
\* rounding of which is left out), bitswap warns of its option and ignores it.
Settle(name, values) ==
    CASE name = "lz4" /\ values[4] # <<"0">> -> [values EXCEPT ![3] = <<"0">>]
      [] name = "bitswap1" -> << <<"1">> >>
      [] OTHER -> values

\* create_by_name: the stage, with its options; the quantiser keeps those it
\* was given and nothing else.
Value(given, o) == IF <<o[1]>> \in DOMAIN given THEN given[<<o[1]>>]
                   ELSE IF o[2] = "" THEN <<>> ELSE <<o[2]>>
Stage(name, given, known) ==
    [name |-> name, values |-> Settle(name, [i \in DOMAIN known |-> Value(given, known[i])])]
Create(pair) ==
    Stage(pair.name[1], IF pair.args = <<>> THEN << >> ELSE Minors(pair.args),
          StageOptions[pair.name[1]])

\* config: an option after the other; the map of the quantiser has only those
\* it was given.
Joined(parts, sep) ==
    FlattenSeq([i \in DOMAIN parts |-> parts[i] \o IF i = Len(parts) THEN <<>> ELSE <<sep>>])
Shown(stage, known) ==
    [i \in DOMAIN known |->
        IF stage.name = "quantiser" /\ stage.values[i] = <<>> THEN <<>>
        ELSE <<known[i][1], "=">> \o stage.values[i]]
Config(stage) ==
    Joined(SelectSeq(Shown(stage, StageOptions[stage.name]), LAMBDA part : part # <<>>), ",")

Bracketed(name, cfg) == <<name>> \o IF cfg = <<>> THEN <<>> ELSE <<"(">> \o cfg \o <<")">>
StageText(stage) == Bracketed(stage.name, Config(stage))

\* stage_chain::name
ChainName(chain) == Joined([i \in DOMAIN chain |-> StageText(chain[i])], "->")

NoPipeline == [head |-> <<>>, sink |-> <<>>, tail |-> <<>>]

\* dynamic_pipeline::add, for the stage a name stands for at this place.  Names
\* that no factory knows there are skipped.
AddStage(types, pipe, name, stage) ==
    CASE pipe.sink = <<>> /\ Has(types.head, name) -> [pipe EXCEPT !.head = Append(@, stage)]
      [] pipe.sink = <<>> /\ ~Has(types.head, name) /\ Has(types.sink, name)
           -> [pipe EXCEPT !.sink = <<stage>>]
      [] pipe.sink # <<>> /\ Has(types.tail, name) -> [pipe EXCEPT !.tail = Append(@, stage)]
      [] OTHER -> pipe

FromString(types, text) ==
    FoldLeft(LAMBDA pipe, pair : AddStage(types, pipe, pair.name, Create(pair)),
             NoPipeline, ToPairs(text))

IsEmpty(pipe) == pipe = NoPipeline

\* dynamic_pipeline::name
Name(pipe) ==
    Joined(SelectSeq([chain \in 1 .. 3 |->
                        ChainName(<<pipe.head, pipe.sink, pipe.tail>>[chain])],
                     LAMBDA part : part # <<>>), "->")

\* can_be_built_from: every step is known to the factory of its place, or is a
\* sink, and putting the steps together again gives a text of the same length.
\* (No name is both a head filter and a sink.)
PairsBuild(types, text, pairs) ==
    LET Matched(i) == \E j \in 1 .. i - 1 : Has(types.sink, pairs[j].name)
        Found(i) == \/ ~Matched(i) /\ Has(types.head, pairs[i].name)
                    \/ Has(types.sink, pairs[i].name)
                    \/ Has(types.tail, pairs[i].name)
        Size(pair) == Len(pair.name) + IF pair.args = <<>> THEN 0 ELSE 2 + Len(pair.args) IN
    /\ pairs # <<>>
    /\ \A i \in DOMAIN pairs : Found(i)
    /\ Len(text) = FoldLeft(LAMBDA size, pair : size + Size(pair),
                            Len(pairs) - 1, pairs)
CanBeBuiltFrom(types, text) == PairsBuild(types, text, ToPairs(text))
=============================================================================
