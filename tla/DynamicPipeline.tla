--------------------------- MODULE DynamicPipeline ----------------------------
(***************************************************************************)
(* dynamic_pipeline of dynamic_pipeline.hpp: head filters, a sink and tail   *)
(* filters over one output buffer, and the header in front of the payload.   *)
(*                                                                         *)
(* The header carries name(), the stages with their configuration.  A stage  *)
(* may learn its configuration from the volume it encodes (the quantiser its *)
(* decode LUT, frame_shuffle its reorder map), so the header is written      *)
(* before the stages run and, with another size, once more after them.       *)
(* decode is run, as SQY_Decode_UI16 does, by a pipeline built from the      *)
(* header.  Sizes are bytes; a cell of the output buffer holds byte k of the *)
(* payload as k, any byte of a header as Header, anything else as Blank.     *)
(***************************************************************************)
EXTENDS Integers, FiniteSetsExt

CONSTANTS Items,      \* item counts a volume may have
          Width,      \* sizeof(incoming_t)
          Fixed,      \* header bytes that depend neither on config nor size
          DimText,    \* header bytes a multi-dimensional shape takes on top
          Pipelines,  \* the pipelines from_string may have built
          LutEntries, \* entries of the quantiser's decode LUT
          Overhead,   \* how much a compressor may add to its input
          Growth,     \* config bytes a stage may add while it encodes
          Volumes,    \* bound: calls of encode
          Losses,     \* bytes a stream may have lost when it is decoded
          Faults      \* stages may fail

ASSUME PipelineAssumption ==
    /\ Items \subseteq Nat \ {0} /\ Width \in Nat \ {0} /\ Fixed \in Nat \ {0}
    /\ DimText \in Nat /\ LutEntries \in Nat
    /\ Overhead \in Nat /\ Growth \in Nat
    /\ Volumes \in Nat /\ Losses \subseteq Nat /\ Faults \in BOOLEAN
    /\ Pipelines \subseteq
         [head : Nat,                                   \* head_filters_.size()
          sink : {"none", "quantiser", "compressor"},   \* compressor: lz4
          tail : {"none", "compressor", "filter", "shaped"},
          tails : Nat]                                  \* tail_filters_.size()
    /\ \A p \in Pipelines : p.sink = "none" => p.head > 0 /\ p.tail = "none"

\* A tail is "shaped" if what it does depends on the shape it is given.  What a
\* compressor among several tail filters does is that of StageChain.
ASSUME TailAssumption ==
    \A p \in Pipelines :
        /\ p.tail = "none" <=> p.tails = 0
        /\ p.tail = "compressor" => p.sink = "quantiser" /\ p.tails = 1

VARIABLES
    pipe,     \* the pipeline at work
    pc,       \* where the calling thread is
    vol,      \* volumes handed to encode so far: the identity of the last one
    n, nd,    \* its items, and whether its shape has several dimensions
    learned,  \* the volumes whose configuration the stages hold
    config,   \* how many bytes of configuration that is
    cap,      \* bytes of the caller's buffer: max_encoded_size
    high,     \* one past the last byte written to it
    out,      \* the buffer
    shift,    \* hdr_shift: the size of the first header
    sunk,     \* bytes the sink has written
    size,     \* bytes of payload
    flat,     \* the tail filters were given a flat shape
    result,   \* what encode returned
    streams,  \* the streams the caller has kept
    dec       \* state of decode

called   == <<pipe, vol, n, nd, cap>>
stages   == <<learned, config>>
buffer   == <<high, out>>
encoding == <<shift, sunk, size, flat, result>>
vars == <<pc, called, stages, buffer, encoding, streams, dec>>

HeadStages == pipe.head
Sink == pipe.sink
Tail == pipe.tail
TailStages == pipe.tails

Null   == -1
Blank  == -1
Header == -2
Larger(a, b) == IF a > b THEN a ELSE b
Lesser(a, b) == IF a < b THEN a ELSE b

\* Decimal digits of a size (of nine digits at most: the bound of this model).
Digits(b) == Cardinality({d \in 0 .. 8 : b >= 10 ^ d})

RoundUp(a) == ((a + Width - 1) \div Width) * Width

\* header::pack: text in front is padded to a multiple of the item size.
HeaderSize(dims, cfg, bytes) ==
    RoundUp(Fixed + (IF dims THEN DimText ELSE 0) + cfg.head + cfg.sink
            + cfg.tail + Digits(bytes))

\* max_encoded_size of the stages of pipeline p, for b bytes of input.
HeadMax(p, b) == IF p.head > 0 THEN b ELSE 0
SinkMax(p, b) ==
    IF p.sink = "none" THEN 0
    ELSE IF p.sink = "quantiser" THEN b * Width + LutEntries * Width
    ELSE b + Overhead
TailMax(p, b) ==
    IF p.tail = "none" THEN 0
    ELSE IF p.tail = "compressor" THEN b + Overhead ELSE b

\* Mutant of MaxEncodedSize: room for one header of the present size.
OneHeader(p, b, cfg) ==
    HeaderSize(FALSE, cfg, b * Width)
    + Larger(HeadMax(p, b), Larger(SinkMax(p, b), TailMax(p, b)))

MaxEncodedSize(p, b, cfg) ==
    2 * HeaderSize(FALSE, cfg, b * Width)
    + Larger(HeadMax(p, b), Larger(SinkMax(p, b), TailMax(p, b)))

Bytes == n * Width      \* size of the volume

Config == [head : Nat, sink : Nat, tail : Nat]
Stream == [vol : Nat, n : Nat, nd : BOOLEAN, params : Config, sunk : Nat,
           flat : BOOLEAN, size : Nat]
Errors == [tail : Nat, sink : Int, head : Nat]  \* what the parts returned

Nothing  == [head |-> 0, sink |-> 0, tail |-> 0]
NoStream == [vol |-> 0, n |-> 0, nd |-> FALSE, params |-> Nothing, sunk |-> 0,
             flat |-> FALSE, size |-> 0]
NoErrors == [tail |-> 0, sink |-> 0, head |-> 0]
NoDecode == [stream |-> NoStream, lost |-> 0, unpacked |-> 0, good |-> FALSE,
             errs |-> NoErrors, value |-> 0]

Init ==
    /\ pipe \in Pipelines
    /\ pc = "idle"
    /\ vol = 0 /\ n = 0 /\ nd = FALSE /\ cap = 0
    /\ learned = Nothing /\ config = Nothing
    /\ high = 0 /\ out = [p \in 0 .. -1 |-> Blank]
    /\ shift = 0 /\ sunk = 0 /\ size = 0 /\ flat = FALSE /\ result = Null
    /\ streams = {} /\ dec = NoDecode

\* The len bytes of a function, written from position p on.
Write(p, len, written) ==
    /\ out' = [q \in DOMAIN out |->
                 IF q \in p .. p + len - 1 THEN written[q - p] ELSE out[q]]
    /\ high' = Larger(high, p + len)

Payload(len) == [k \in 0 .. len - 1 |-> k]
Scratch(len) == [k \in 0 .. len - 1 |-> Blank]

\* Mutants of Learn: configuration that is appended to what is there already,
\* and configuration that is only taken from the first volume.
LearnMore(stage) ==
    /\ learned' = [learned EXCEPT ![stage] = vol]
    /\ \E g \in 0 .. Growth : config' = [config EXCEPT ![stage] = @ + g]

LearnOnce(stage) ==
    IF learned[stage] # 0 THEN UNCHANGED stages
    ELSE /\ learned' = [learned EXCEPT ![stage] = vol]
         /\ \E g \in 0 .. Growth : config' = [config EXCEPT ![stage] = g]

\* A stage takes its configuration from the volume it encodes.
Learn(stage) ==
    /\ learned' = [learned EXCEPT ![stage] = vol]
    /\ \E g \in 0 .. Growth : config' = [config EXCEPT ![stage] = g]

-----------------------------------------------------------------------------
(* encode *)

\* The caller provides max_encoded_size bytes; encode writes a first header.
StartEncode ==
    /\ pc = "idle" /\ vol < Volumes
    /\ vol' = vol + 1
    /\ n' \in Items /\ nd' \in BOOLEAN
    /\ cap' = MaxEncodedSize(pipe, n' * Width, config)
    /\ shift' = HeaderSize(nd', config, n' * Width)
    /\ high' = shift'
    /\ out' = [p \in 0 .. cap' - 1 |-> IF p < shift' THEN Header ELSE Blank]
    /\ sunk' = 0 /\ size' = 0 /\ flat' = FALSE /\ result' = Null
    /\ pc' = IF HeadStages > 0 THEN "head" ELSE "sink"
    /\ UNCHANGED <<pipe, stages, streams, dec>>

\* head_filters_.encode: a chain of several filters uses _out as scratchpad.
EncodeHead ==
    /\ pc = "head"
    /\ Learn("head")
    /\ IF HeadStages > 1 THEN Write(shift, Bytes, Scratch(Bytes))
                         ELSE UNCHANGED buffer
    /\ pc' = IF Sink = "none" THEN "copy" ELSE "sink"
    /\ UNCHANGED <<called, encoding, streams, dec>>

\* Without a sink the filtered volume is the payload.
CopyHead ==
    /\ pc = "copy"
    /\ Write(shift, Bytes, Payload(Bytes))
    /\ size' = Bytes
    /\ pc' = "update"
    /\ UNCHANGED <<called, stages, shift, sunk, flat, result, streams, dec>>

EncodeSink ==
    /\ pc = "sink"
    /\ \E s \in IF Sink = "quantiser" THEN {n} ELSE 1 .. Bytes + Overhead :
         /\ Write(shift, s, Payload(s))
         /\ sunk' = s /\ size' = s
    /\ IF Sink = "quantiser" THEN Learn("sink") ELSE UNCHANGED stages
    /\ pc' = IF Tail = "none" THEN "update" ELSE "tail"
    /\ UNCHANGED <<called, shift, flat, result, streams, dec>>

\* tail_filters_.encode into temp, and the copy back to _out.  The shape stays
\* that of the volume if the sink has written one byte per item.
EncodeTail ==
    /\ pc = "tail"
    /\ flat' = (sunk # n)
    /\ IF Tail = "compressor" THEN UNCHANGED stages ELSE Learn("tail")
    /\ \E t \in IF Tail = "compressor" THEN 1 .. sunk + Overhead ELSE {sunk} :
         /\ Write(shift, t, Payload(t))
         /\ size' = t
    /\ pc' = "update"
    /\ UNCHANGED <<called, shift, sunk, result, streams, dec>>

\* Mutant of Rewritten: the payload stays where it is.
NotMoved(hdr) == [q \in DOMAIN out |-> IF q < hdr THEN Header ELSE out[q]]

\* The payload is moved to where the new header ends, then this is written.
Rewritten(hdr) ==
    [q \in DOMAIN out |->
        IF q < hdr THEN Header
        ELSE IF hdr # shift /\ q < hdr + size THEN out[q - hdr + shift]
        ELSE out[q]]

UpdateHeader ==
    /\ pc = "update"
    /\ LET hdr == HeaderSize(nd, config, size) IN
         /\ out' = Rewritten(hdr)
         /\ high' = Larger(high, hdr + size)
         /\ result' = hdr + size
    /\ streams' = streams \cup
         {[vol |-> vol, n |-> n, nd |-> nd, params |-> learned, sunk |-> sunk,
           flat |-> flat, size |-> size]}
    /\ pc' = "idle"
    /\ UNCHANGED <<called, stages, shift, sunk, size, flat, dec>>

\* A filter fails and its chain throws; filters before it may have learned.
HeadThrows ==
    /\ Faults /\ pc = "head"
    /\ Learn("head") \/ UNCHANGED stages
    /\ pc' = "idle"
    /\ UNCHANGED <<called, buffer, encoding, streams, dec>>

TailThrows ==
    /\ Faults /\ pc = "tail"
    /\ (Tail # "compressor" /\ Learn("tail")) \/ UNCHANGED stages
    /\ pc' = "idle"
    /\ UNCHANGED <<called, buffer, encoding, streams, dec>>

\* A compressing sink returns nullptr, and so does detail_encode; encode takes
\* the distance to it for the size of a payload and moves that many bytes.
SinkFails ==
    /\ Faults /\ pc = "sink" /\ Sink = "compressor"
    /\ pc' = "crashed"
    /\ UNCHANGED <<called, stages, buffer, encoding, streams, dec>>

\* A new process builds the pipeline anew; the streams were saved.
Restart ==
    /\ pc = "crashed"
    /\ pc' = "idle"
    /\ learned' = Nothing /\ config' = Nothing
    /\ UNCHANGED <<called, buffer, encoding, streams, dec>>

-----------------------------------------------------------------------------
(* decode, by a pipeline built from the header of a kept stream *)

Original == dec.stream.n * Width    \* bytes of the volume
Arrived  == dec.stream.size - dec.lost

\* The configuration in the header is the one the volume was encoded with.
Matching(s) ==
    /\ HeadStages > 0 => s.params.head = s.vol
    /\ Sink = "quantiser" => s.params.sink = s.vol
    /\ Tail \in {"filter", "shaped"} => s.params.tail = s.vol

StartDecode ==
    /\ pc = "idle"
    /\ \E s \in streams, lost \in Losses :
         /\ lost < s.size
         /\ dec' = [NoDecode EXCEPT !.stream = s, !.lost = lost,
                                    !.good = (lost = 0 /\ Matching(s))]
    /\ pc' = IF Tail # "none" THEN "untail"
             ELSE IF Sink # "none" THEN "unsink" ELSE "unhead"
    /\ UNCHANGED <<called, stages, buffer, encoding, streams>>

\* A chain of filters runs to its end whatever fails: a filter that reports 1
\* adds its position in the order of decoding, times ten.
StageCode == [j \in Nat |-> 10 * j + 1]
ChainCode(failing) == MapThenSumSet(LAMBDA j : StageCode[j], failing)

\* The tail was encoded with the shape of the volume: it is decoded with a row.
Reshaped == Tail = "shaped" /\ dec.stream.nd /\ ~dec.stream.flat

\* Any filter of the tail may fail, one may notice that its shape is another
\* one, and a compressor that bytes are missing.
TailMayFail == Faults \/ Reshaped \/ (Tail = "compressor" /\ dec.lost > 0)

\* A filter always decodes as many bytes as arrived.
DecodeTail ==
    /\ pc = "untail"
    /\ \E failing \in SUBSET (1 .. TailStages) :
         /\ TailMayFail \/ failing = {}
         /\ dec' = [dec EXCEPT
              !.value = @ + ChainCode(failing), !.errs.tail = ChainCode(failing),
              !.unpacked = IF Tail = "compressor" THEN dec.stream.sunk ELSE Arrived,
              !.good = @ /\ failing = {} /\ ~Reshaped]
    /\ pc' = "unsink"
    /\ UNCHANGED <<called, stages, buffer, encoding, streams>>

\* Mutant of SinkCode: the code of the sink is not kept.
NoSinkCode(err) == 0

SinkCode(err) == IF err # 0 THEN err + 10 ELSE 0

\* The sink reads all of sink_in behind a tail, and what arrived otherwise.
SinkInput == IF Tail = "none" THEN Arrived ELSE Original

\* The quantiser returns how many items are missing, as a negative number.
DecodeSink ==
    /\ pc = "unsink"
    /\ \E err \in IF Sink = "quantiser"
                    THEN {Lesser(SinkInput, dec.stream.n) - dec.stream.n}
                  ELSE IF dec.good /\ ~Faults THEN {0} ELSE {0, 1} :
         dec' = [dec EXCEPT !.value = @ + SinkCode(err), !.errs.sink = err,
                            !.good = @ /\ err = 0 /\ dec.unpacked <= Original]
    /\ pc' = IF HeadStages > 0 THEN "unhead" ELSE "decoded"
    /\ UNCHANGED <<called, stages, buffer, encoding, streams>>

HeadCode(err) == IF err # 0 THEN err + 100 ELSE 0

DecodeHead ==
    /\ pc = "unhead"
    /\ \E failing \in SUBSET (1 .. HeadStages) :
         /\ Faults \/ failing = {}
         /\ dec' = [dec EXCEPT !.value = @ + HeadCode(ChainCode(failing)),
                               !.errs.head = ChainCode(failing),
                               !.good = @ /\ failing = {}]
    /\ pc' = "decoded"
    /\ UNCHANGED <<called, stages, buffer, encoding, streams>>

Decoded ==
    /\ pc = "decoded"
    /\ pc' = "idle"
    /\ dec' = NoDecode
    /\ UNCHANGED <<called, stages, buffer, encoding, streams>>

Next ==
    \/ StartEncode \/ EncodeHead \/ CopyHead \/ EncodeSink \/ EncodeTail
    \/ UpdateHeader \/ HeadThrows \/ TailThrows \/ SinkFails \/ Restart
    \/ StartDecode \/ DecodeTail \/ DecodeSink \/ DecodeHead \/ Decoded

Spec == Init /\ [][Next]_vars

-----------------------------------------------------------------------------
(* Properties *)

TypeOK ==
    /\ pipe \in Pipelines
    /\ pc \in {"idle", "head", "copy", "sink", "tail", "update", "crashed",
               "untail", "unsink", "unhead", "decoded"}
    /\ vol \in 0 .. Volumes /\ n \in Items \cup {0} /\ nd \in BOOLEAN
    /\ learned \in [head : 0 .. vol, sink : 0 .. vol, tail : 0 .. vol]
    /\ config \in [head : 0 .. Growth, sink : 0 .. Growth, tail : 0 .. Growth]
    /\ cap \in Nat /\ high \in Nat
    /\ out \in [0 .. cap - 1 -> Int]
    /\ shift \in Nat /\ sunk \in Nat /\ size \in Nat /\ flat \in BOOLEAN
    /\ result \in {Null} \cup Nat
    /\ streams \subseteq Stream
    /\ dec \in [stream : Stream, lost : Nat, unpacked : Nat, good : BOOLEAN,
               errs : Errors, value : Int]

\* "_out output buffer must be at least of size max_encoded_size": no step of
\* encode writes behind a buffer of that size.
WithinBuffer == high <= cap

\* What encode returns is the end of one header, that of the configuration the
\* stages hold now, and of the payload right behind it, byte for byte, however
\* the size of the header has changed since the payload was written.
Framed ==
    pc = "idle" /\ result # Null =>
        LET hdr == result - size IN
        /\ \A p \in 0 .. hdr - 1 : out[p] = Header
        /\ \A k \in 0 .. size - 1 : out[hdr + k] = k

Failed == dec.errs # NoErrors

\* A kept stream holds all it takes to restore its volume: the pipeline built
\* from its header restores it and returns 0, whatever has been encoded in
\* between and even if the encoding process has died since; only a stage that
\* fails while decoding changes that, and then decode does not return 0.
SelfContained ==
    pc = "decoded" /\ dec.lost = 0 =>
        \/ dec.good /\ dec.value = 0
        \/ Faults /\ Failed /\ dec.value # 0

\* decode adds up the codes of all stages: the sum is 0 in spite of an error in
\* one case only, when the quantiser is the last stage and misses exactly as
\* many items as 10 and the code of the head filters make up for.
NoErrorHidden ==
    pc = "decoded" /\ Failed /\ dec.value = 0 =>
        /\ Sink = "quantiser" /\ Tail = "none"
        /\ dec.lost = 10 + HeadCode(dec.errs.head)

\* "error code encoded as 3-digit decimal number": when a stage reports an
\* error decode does not return 0.
ErrorsReported == pc = "decoded" /\ Failed => dec.value # 0
=============================================================================
