------------------------ MODULE DynamicPipeline_proof -------------------------
(***************************************************************************)
(* Theorems about DynamicPipeline for volumes, headers and configurations of *)
(* any size: encode stays inside a buffer of max_encoded_size, and a header   *)
(* that grows or shrinks leaves the payload behind it whole, a kept stream    *)
(* restores its volume whatever was encoded since, and errors are reported.   *)
(***************************************************************************)
EXTENDS DynamicPipeline, Sums

\* The longest header; nine digits at most, and less than Width of padding.
LongestHeader == Fixed + DimText + 3 * Growth + 9 + Width

\* The most bytes encode leaves behind a header for m items: the payload, or
\* the scratch space of a chain of head filters.
LongestPayload(p, m) ==
    LET scratch == IF p.head > 1 THEN m * Width ELSE 0 IN
    IF p.sink = "none" THEN m * Width
    ELSE IF p.sink = "compressor" THEN m * Width + Overhead
    ELSE Larger(scratch, m + IF p.tail = "compressor" THEN Overhead ELSE 0)

\* What max_encoded_size reserves for b bytes next to two headers.
PayloadMax(p, b) == Larger(HeadMax(p, b), Larger(SinkMax(p, b), TailMax(p, b)))

\* What the stages may add to the header fits next to the longest payload: the
\* condition under which room for two headers of the first size is enough.
HeaderFits ==
    \A p \in Pipelines, m \in Items :
        LongestHeader + LongestPayload(p, m) <= 2 * Fixed + PayloadMax(p, m * Width)

-----------------------------------------------------------------------------
(* Sizes *)

LEMMA DigitsBound ==
    ASSUME NEW b
    PROVE  Digits(b) \in 0 .. 9
<1> DEFINE D == {d \in 0 .. 8 : b >= 10 ^ d}
<1>1. IsFiniteSet(0 .. 8) /\ Cardinality(0 .. 8) = 9
  <2>1. PICK x \in Int, y \in Int : x = 0 /\ y = 8
    OBVIOUS
  <2>2. IsFiniteSet(x .. y) /\ Cardinality(x .. y) = IF x > y THEN 0 ELSE y - x + 1
    BY FS_Interval
  <2>3. IsFiniteSet(x .. y) /\ Cardinality(x .. y) = 9
    BY <2>1, <2>2
  <2>4. x .. y = 0 .. 8
    BY <2>1
  <2> QED BY <2>3, <2>4
<1>2. D \subseteq 0 .. 8
  OBVIOUS
<1>3. IsFiniteSet(D) /\ Cardinality(D) <= Cardinality(0 .. 8)
  BY <1>1, <1>2, FS_Subset
<1>4. Cardinality(D) \in Nat
  BY <1>3, FS_CardinalityType
<1> HIDE DEF D
<1>5. Cardinality(D) \in 0 .. 9
  BY <1>1, <1>3, <1>4
<1> QED BY <1>5 DEF Digits, D

LEMMA RoundUpBounds ==
    ASSUME PipelineAssumption, NEW a \in Nat
    PROVE  /\ RoundUp(a) \in Nat
           /\ a <= RoundUp(a)
           /\ RoundUp(a) < a + Width
<1>1. Width \in Nat \ {0}
  BY DEF PipelineAssumption
<1> DEFINE q == (a + Width - 1) \div Width
<1>2. q \in Nat
  BY <1>1
<1>3. q * Width <= a + Width - 1 /\ a + Width - 1 < q * Width + Width
  BY <1>1
<1>4. q * Width \in Nat
  BY <1>1, <1>2
<1> HIDE DEF q
<1>5. q * Width \in Nat /\ a <= q * Width /\ q * Width < a + Width
  BY <1>1, <1>3, <1>4
<1> QED BY <1>5 DEF RoundUp, q

Configs == [head : 0 .. Growth, sink : 0 .. Growth, tail : 0 .. Growth]

\* No header is shorter than its constant part.
LEMMA HeaderBounds ==
    ASSUME PipelineAssumption, NEW dims \in BOOLEAN,
           NEW cfg \in Configs, NEW b
    PROVE  /\ HeaderSize(dims, cfg, b) \in Nat
           /\ Fixed <= HeaderSize(dims, cfg, b)
           /\ HeaderSize(dims, cfg, b) <= LongestHeader
<1> DEFINE text == IF dims THEN DimText ELSE 0
           a == Fixed + text + cfg.head + cfg.sink + cfg.tail + Digits(b)
<1>1. /\ Fixed \in Nat /\ Width \in Nat /\ Growth \in Nat /\ DimText \in Nat
  BY DEF PipelineAssumption
<1>2. text \in 0 .. DimText
  BY <1>1
<1>3. /\ cfg.head \in 0 .. Growth /\ cfg.sink \in 0 .. Growth
      /\ cfg.tail \in 0 .. Growth
  BY DEF Configs
<1>4. Digits(b) \in 0 .. 9
  BY DigitsBound
<1> HIDE DEF text
<1>5. a \in Nat /\ Fixed <= a /\ a + Width <= LongestHeader
  BY <1>1, <1>2, <1>3, <1>4 DEF LongestHeader
<1>6. HeaderSize(dims, cfg, b) = RoundUp(a)
  BY DEF HeaderSize, text
<1> HIDE DEF a
<1>7. /\ RoundUp(a) \in Nat /\ a <= RoundUp(a) /\ RoundUp(a) < a + Width
  BY <1>5, RoundUpBounds
<1>8. LongestHeader \in Nat
  BY <1>1 DEF LongestHeader
<1> QED BY <1>1, <1>5, <1>6, <1>7, <1>8

LEMMA PayloadBounds ==
    ASSUME PipelineAssumption, NEW p \in Pipelines, NEW m \in Nat
    PROVE  LET b == m * Width  longest == LongestPayload(p, m) IN
           /\ b \in Nat /\ longest \in Nat /\ PayloadMax(p, b) \in Nat
           /\ p.head > 1 \/ p.sink = "none" => b <= longest
           /\ p.sink = "quantiser" => m <= longest
           /\ p.sink = "compressor" => b + Overhead <= longest
           /\ p.sink = "quantiser" /\ p.tail = "compressor" =>
                m + Overhead <= longest
<1> DEFINE b == m * Width
<1>1. /\ Width \in Nat \ {0} /\ LutEntries \in Nat /\ Overhead \in Nat
      /\ p.head \in Nat
      /\ p.sink \in {"none", "quantiser", "compressor"}
      /\ p.tail \in {"none", "compressor", "filter", "shaped"}
  BY DEF PipelineAssumption
<1>2. b \in Nat /\ b * Width \in Nat /\ LutEntries * Width \in Nat
  <2>1. PICK c \in Nat : c = b
    BY <1>1
  <2>2. c * Width \in Nat
    BY <1>1
  <2> QED BY <1>1, <2>1, <2>2
<1> HIDE DEF b
<1>3. PICK x \in Nat, y \in Nat, z \in Nat :
        x = HeadMax(p, b) /\ y = SinkMax(p, b) /\ z = TailMax(p, b)
  <2>1. HeadMax(p, b) \in Nat
    BY <1>2 DEF HeadMax
  <2>2. SinkMax(p, b) \in Nat
    BY <1>1, <1>2 DEF SinkMax
  <2>3. TailMax(p, b) \in Nat
    BY <1>1, <1>2 DEF TailMax
  <2> QED BY <2>1, <2>2, <2>3
<1>4. PayloadMax(p, b) \in Nat
  BY <1>3 DEF PayloadMax, Larger
<1>5. LongestPayload(p, m) =
        LET scratch == IF p.head > 1 THEN b ELSE 0 IN
        IF p.sink = "none" THEN b
        ELSE IF p.sink = "compressor" THEN b + Overhead
        ELSE Larger(scratch, m + IF p.tail = "compressor" THEN Overhead ELSE 0)
  BY DEF LongestPayload, b
<1>6. /\ LongestPayload(p, m) \in Nat
      /\ p.head > 1 \/ p.sink = "none" => b <= LongestPayload(p, m)
      /\ p.sink = "quantiser" => m <= LongestPayload(p, m)
      /\ p.sink = "compressor" => b + Overhead <= LongestPayload(p, m)
      /\ p.sink = "quantiser" /\ p.tail = "compressor" =>
           m + Overhead <= LongestPayload(p, m)
  BY <1>1, <1>2, <1>5 DEF Larger
<1> QED BY <1>2, <1>4, <1>6 DEF b

\* The same of the pipeline at work.
LEMMA PipeBounds ==
    ASSUME PipelineAssumption, pipe \in Pipelines, NEW m \in Nat
    PROVE  LET b == m * Width  longest == LongestPayload(pipe, m) IN
           /\ b \in Nat /\ longest \in Nat /\ PayloadMax(pipe, b) \in Nat
           /\ HeadStages > 1 \/ Sink = "none" => b <= longest
           /\ Sink = "quantiser" => m <= longest
           /\ Sink = "compressor" => b + Overhead <= longest
           /\ Sink = "quantiser" /\ Tail = "compressor" =>
                m + Overhead <= longest
  BY PayloadBounds DEF HeadStages, Sink, Tail

-----------------------------------------------------------------------------
(* The output buffer *)

Encoding == pc \in {"head", "copy", "sink", "tail", "update"}

\* While encode runs the buffer has room for the longest header and payload.
RoomInv ==
    Encoding => /\ n \in Items /\ result = Null
                /\ shift <= LongestHeader
                /\ LongestHeader + LongestPayload(pipe, n) <= cap

PhaseInv ==
    /\ pc = "copy" => Sink = "none"
    /\ pc = "sink" => Sink # "none"
    /\ pc = "tail" => /\ sunk <= LongestPayload(pipe, n)
                      /\ Sink = "quantiser" => sunk = n
    /\ pc = "crashed" => result = Null

PayloadInv ==
    pc = "update" => /\ size <= LongestPayload(pipe, n)
                     /\ \A k \in 0 .. size - 1 : out[shift + k] = k

FrameInv ==
    result # Null =>
        /\ result \in Nat /\ size <= result /\ result <= cap
        /\ \A p \in 0 .. result - size - 1 : out[p] = Header
        /\ \A k \in 0 .. size - 1 : out[result - size + k] = k

DecodeInv == dec.lost <= dec.stream.size

BufferInv ==
    /\ TypeOK /\ RoomInv /\ PhaseInv /\ PayloadInv /\ WithinBuffer /\ FrameInv
    /\ DecodeInv

\* The types that arithmetic needs.
LEMMA Types ==
    ASSUME PipelineAssumption, TypeOK
    PROVE  /\ cap \in Nat /\ high \in Nat /\ shift \in Nat /\ size \in Nat
           /\ sunk \in Nat /\ n \in Nat /\ vol \in Nat /\ Bytes \in Nat
           /\ Fixed \in Nat /\ Overhead \in Nat /\ Width \in Nat
           /\ LongestHeader \in Nat /\ LongestPayload(pipe, n) \in Nat
           /\ config \in Configs /\ pipe \in Pipelines
<1>1. n \in Nat /\ pipe \in Pipelines
  BY DEF TypeOK, PipelineAssumption
<1>2. Bytes \in Nat /\ LongestPayload(pipe, n) \in Nat
  BY <1>1, PipeBounds DEF Bytes
<1>3. LongestHeader \in Nat
  BY DEF LongestHeader, PipelineAssumption
<1> QED BY <1>1, <1>2, <1>3 DEF TypeOK, PipelineAssumption, Configs

\* What a write inside the buffer leaves there.
LEMMA WriteEffect ==
    ASSUME TypeOK, WithinBuffer,
           NEW p \in Nat, NEW len \in Nat, NEW w \in [0 .. len - 1 -> Int],
           p + len <= cap, Write(p, len, w)
    PROVE  /\ out' \in [0 .. cap - 1 -> Int]
           /\ high' \in Nat /\ high' <= cap
           /\ \A k \in 0 .. len - 1 : out'[p + k] = w[k]
<1>1. out \in [0 .. cap - 1 -> Int] /\ cap \in Nat /\ high \in Nat /\ high <= cap
  BY DEF TypeOK, WithinBuffer
<1>2. out' = [q \in 0 .. cap - 1 |->
                IF q \in p .. p + len - 1 THEN w[q - p] ELSE out[q]]
  BY <1>1 DEF Write
<1>3. ASSUME NEW q \in 0 .. cap - 1
      PROVE  (IF q \in p .. p + len - 1 THEN w[q - p] ELSE out[q]) \in Int
  <2>1. CASE q \in p .. p + len - 1
    <3>1. q - p \in 0 .. len - 1
      BY <2>1
    <3> QED BY <2>1, <3>1
  <2> QED BY <1>1, <2>1
<1>4. out' \in [0 .. cap - 1 -> Int]
  BY <1>2, <1>3
<1>5. ASSUME NEW k \in 0 .. len - 1
      PROVE  out'[p + k] = w[k]
  <2>1. p + k \in 0 .. cap - 1 /\ p + k \in p .. p + len - 1 /\ (p + k) - p = k
    BY <1>1
  <2> QED BY <1>2, <2>1
<1>6. high' \in Nat /\ high' <= cap
  BY <1>1 DEF Write, Larger
<1> QED BY <1>4, <1>5, <1>6

\* The payload written from shift on, as far as the buffer has room for it.
LEMMA PayloadWritten ==
    ASSUME PipelineAssumption, BufferInv, Encoding,
           NEW len \in Nat, len <= LongestPayload(pipe, n),
           Write(shift, len, Payload(len))
    PROVE  /\ out' \in [0 .. cap - 1 -> Int]
           /\ high' \in Nat /\ high' <= cap
           /\ \A k \in 0 .. len - 1 : out'[shift + k] = k
<1>1. TypeOK /\ WithinBuffer /\ shift \in Nat
  BY Types DEF BufferInv
<1>2. shift + len <= cap
  BY <1>1, Types DEF BufferInv, RoomInv
<1>3. /\ Payload(len) \in [0 .. len - 1 -> Int]
      /\ \A k \in 0 .. len - 1 : Payload(len)[k] = k
  BY DEF Payload
<1>4. /\ out' \in [0 .. cap - 1 -> Int]
      /\ high' \in Nat /\ high' <= cap
      /\ \A k \in 0 .. len - 1 : out'[shift + k] = Payload(len)[k]
  BY <1>1, <1>2, <1>3, WriteEffect
<1> QED BY <1>3, <1>4

\* A stage that learns keeps the type of what the stages hold.
LEMMA LearnType ==
    ASSUME TypeOK, NEW stage \in {"head", "sink", "tail"},
           Learn(stage) \/ UNCHANGED stages
    PROVE  /\ learned' \in [head : 0 .. vol, sink : 0 .. vol, tail : 0 .. vol]
           /\ config' \in Configs
<1>1. /\ learned \in [head : 0 .. vol, sink : 0 .. vol, tail : 0 .. vol]
      /\ config \in Configs /\ vol \in 0 .. vol
  BY DEF TypeOK, Configs
<1>2. CASE Learn(stage)
  BY <1>1, <1>2 DEF Learn, Configs
<1>3. CASE UNCHANGED stages
  BY <1>1, <1>3 DEF stages
<1> QED BY <1>2, <1>3

-----------------------------------------------------------------------------
LEMMA BufferInit ==
    ASSUME PipelineAssumption, Init
    PROVE  BufferInv
<1>1. out \in [0 .. cap - 1 -> Int]
  BY DEF Init, Blank
<1>2. TypeOK
  <2>1. Nothing \in [head : 0 .. 0, sink : 0 .. 0, tail : 0 .. 0]
    BY DEF Nothing
  <2>2. Nothing \in Config /\ Nothing \in Configs
    BY DEF Nothing, Config, Configs, PipelineAssumption
  <2>3. NoStream \in Stream
    BY <2>2 DEF NoStream, Stream
  <2>4. dec \in [stream : Stream, lost : Nat, unpacked : Nat, good : BOOLEAN,
                 errs : Errors, value : Int]
    BY <2>3 DEF Init, NoDecode, NoErrors, Errors
  <2>5. vol \in 0 .. Volumes
    BY DEF Init, PipelineAssumption
  <2> QED BY <1>1, <2>1, <2>2, <2>4, <2>5 DEF Init, TypeOK, Configs, Null
<1> QED
  BY <1>2 DEF Init, BufferInv, RoomInv, PhaseInv, PayloadInv, WithinBuffer,
              FrameInv, Encoding, DecodeInv, NoDecode, NoStream

LEMMA BufferStartEncode ==
    ASSUME PipelineAssumption, HeaderFits, BufferInv, StartEncode
    PROVE  BufferInv'
<1>1. TypeOK /\ config \in Configs /\ pipe \in Pipelines /\ pipe' = pipe
  BY Types DEF BufferInv, StartEncode
<1>2. PICK m \in Items, d \in BOOLEAN : n' = m /\ nd' = d
  BY DEF StartEncode
<1>3. m \in Nat /\ Fixed \in Nat /\ Fixed > 0
  BY DEF PipelineAssumption
<1>4. m * Width \in Nat /\ PayloadMax(pipe, m * Width) \in Nat
  BY <1>1, <1>3, PipeBounds
<1>5. PICK h \in Nat : h = HeaderSize(d, config, m * Width) /\ h <= LongestHeader
  BY <1>1, HeaderBounds
<1>6. PICK f \in Nat : f = HeaderSize(FALSE, config, (m * Width) * Width) /\ Fixed <= f
  BY <1>1, HeaderBounds
<1>7. /\ shift' = h /\ high' = h
      /\ cap' = 2 * f + PayloadMax(pipe, m * Width)
  BY <1>2, <1>5, <1>6 DEF StartEncode, MaxEncodedSize, PayloadMax
<1>8. /\ cap' \in Nat /\ LongestHeader + LongestPayload(pipe, m) <= cap'
      /\ high' <= cap'
  <2>1. PICK v \in Nat : v = PayloadMax(pipe, m * Width)
    BY <1>4
  <2>2. PICK l \in Nat, w \in Nat : l = LongestHeader /\ w = LongestPayload(pipe, m)
    BY <1>1, <1>3, Types, PipeBounds
  <2>3. l + w <= 2 * Fixed + v
    BY <1>1, <2>1, <2>2 DEF HeaderFits
  <2>4. PICK x \in Nat : x = Fixed /\ x <= f /\ l + w <= 2 * x + v
    BY <1>3, <1>6, <2>3
  <2>5. h <= l
    BY <1>5, <2>2
  <2>6. 2 * f + v \in Nat /\ l + w <= 2 * f + v /\ h <= 2 * f + v
    BY <2>4, <2>5
  <2> QED BY <1>7, <2>1, <2>2, <2>6
<1>9. high' <= cap'
  BY <1>8
<1>10. out' \in [0 .. cap' - 1 -> Int]
  BY DEF StartEncode, Header, Blank
<1>11. vol' \in 0 .. Volumes /\ vol' = vol + 1 /\ vol \in Nat
  BY <1>1 DEF TypeOK, StartEncode, PipelineAssumption
<1>12. learned' \in [head : 0 .. vol', sink : 0 .. vol', tail : 0 .. vol']
  <2>1. learned' = learned
    BY DEF StartEncode, stages
  <2>2. 0 .. vol \subseteq 0 .. vol'
    BY <1>11
  <2> QED BY <1>1, <2>1, <2>2 DEF TypeOK
<1>13. /\ config' = config /\ streams' = streams /\ dec' = dec
       /\ sunk' = 0 /\ size' = 0 /\ flat' = FALSE /\ result' = Null
       /\ pc' = IF HeadStages > 0 THEN "head" ELSE "sink"
  BY DEF StartEncode, stages
<1>14. TypeOK'
  BY <1>1, <1>2, <1>5, <1>7, <1>8, <1>10, <1>11, <1>12, <1>13 DEF TypeOK
<1>15. PhaseInv'
  <2>1. Sink' = Sink /\ (pc' = "sink" => Sink # "none")
    BY <1>1, <1>13 DEF HeadStages, Sink, PipelineAssumption
  <2> QED BY <1>13, <2>1 DEF PhaseInv
<1>16. RoomInv'
  <2>1. LongestPayload(pipe, n)' = LongestPayload(pipe, m)
    BY <1>1, <1>2
  <2> QED BY <1>2, <1>5, <1>7, <1>8, <1>13, <2>1 DEF RoomInv
<1> QED
  BY <1>9, <1>13, <1>14, <1>15, <1>16
     DEF BufferInv, PayloadInv, WithinBuffer, FrameInv, DecodeInv

\* Frames, rooms and payloads of a call that goes on are those it had.
LEMMA SameCall ==
    ASSUME UNCHANGED called
    PROVE  /\ vol' = vol /\ n' = n /\ nd' = nd /\ cap' = cap
           /\ Bytes' = Bytes /\ LongestPayload(pipe, n)' = LongestPayload(pipe, n)
           /\ pipe' = pipe /\ Sink' = Sink
<1>1. vol' = vol /\ n' = n /\ nd' = nd /\ cap' = cap /\ pipe' = pipe
  BY DEF called
<1>2. Bytes' = Bytes
  BY <1>1 DEF Bytes
<1> QED
  BY <1>1, <1>2 DEF Sink

LEMMA BufferEncodeHead ==
    ASSUME PipelineAssumption, BufferInv, EncodeHead
    PROVE  BufferInv'
<1>1. TypeOK /\ RoomInv /\ PhaseInv /\ WithinBuffer /\ pc = "head" /\ result = Null
  BY DEF BufferInv, EncodeHead, RoomInv, Encoding
<1>2. /\ UNCHANGED <<streams, dec, shift, sunk, size, flat, result>>
      /\ UNCHANGED called
      /\ pc' = IF Sink = "none" THEN "copy" ELSE "sink"
  BY DEF EncodeHead, encoding
<1>3. /\ out' \in [0 .. cap - 1 -> Int] /\ high' \in Nat /\ high' <= cap
  <2>1. CASE UNCHANGED buffer
    BY <1>1, <2>1 DEF buffer, TypeOK, WithinBuffer
  <2>2. CASE HeadStages > 1 /\ Write(shift, Bytes, Scratch(Bytes))
    <3>2. n \in Nat /\ Bytes \in Nat /\ Bytes <= LongestPayload(pipe, n)
      BY <1>1, <2>2, Types, PipeBounds DEF Bytes
    <3>3. shift + Bytes <= cap
      BY <1>1, <3>2, Types DEF RoomInv, Encoding
    <3>4. Scratch(Bytes) \in [0 .. Bytes - 1 -> Int]
      BY DEF Scratch, Blank
    <3> QED BY <1>1, <2>2, <3>2, <3>3, <3>4, Types, WriteEffect
  <2> QED BY <2>1, <2>2 DEF EncodeHead
<1>4. /\ learned' \in [head : 0 .. vol, sink : 0 .. vol, tail : 0 .. vol]
      /\ config' \in Configs
  BY <1>1, LearnType DEF EncodeHead
<1>5. TypeOK'
  BY <1>1, <1>2, <1>3, <1>4, SameCall DEF TypeOK, Configs
<1>6. RoomInv'
  BY <1>1, <1>2, SameCall DEF RoomInv, Encoding
<1>7. PhaseInv'
  BY <1>1, <1>2, SameCall DEF PhaseInv
<1> QED
  BY <1>1, <1>2, <1>3, <1>5, <1>6, <1>7, SameCall
     DEF BufferInv, PayloadInv, WithinBuffer, FrameInv, DecodeInv

\* The step that writes the payload a later step puts the header in front of.
LEMMA BufferPayload ==
    ASSUME PipelineAssumption, BufferInv, Encoding,
           NEW len \in Nat, len <= LongestPayload(pipe, n),
           Write(shift, len, Payload(len)), size' = len,
           UNCHANGED called, UNCHANGED <<shift, result, streams, dec>>,
           NEW stage \in {"head", "sink", "tail"},
           Learn(stage) \/ UNCHANGED stages,
           pc' \in {"tail", "update"},
           sunk' \in Nat, flat' \in BOOLEAN,
           pc' = "tail" => sunk' = len /\ (Sink = "quantiser" => sunk' = n)
    PROVE  BufferInv'
<1>1. TypeOK /\ RoomInv /\ result = Null
  BY DEF BufferInv, RoomInv
<1>2. /\ out' \in [0 .. cap - 1 -> Int]
      /\ high' \in Nat /\ high' <= cap
      /\ \A k \in 0 .. len - 1 : out'[shift + k] = k
  BY PayloadWritten
<1>3. /\ learned' \in [head : 0 .. vol, sink : 0 .. vol, tail : 0 .. vol]
      /\ config' \in Configs
  BY <1>1, LearnType
<1>4. shift' = shift /\ result' = result /\ streams' = streams /\ dec' = dec
  OBVIOUS
<1>5. TypeOK'
  BY <1>1, <1>2, <1>3, <1>4, SameCall DEF TypeOK, Configs
<1>6. RoomInv'
  BY <1>1, <1>4, SameCall DEF RoomInv, Encoding
<1>7. PhaseInv'
  BY <1>1, SameCall DEF PhaseInv
<1>8. PayloadInv'
  BY <1>2, <1>4, SameCall DEF PayloadInv
<1> QED
  BY <1>1, <1>2, <1>4, <1>5, <1>6, <1>7, <1>8, SameCall
     DEF BufferInv, WithinBuffer, FrameInv, DecodeInv

LEMMA BufferCopyHead ==
    ASSUME PipelineAssumption, BufferInv, CopyHead
    PROVE  BufferInv'
<1>1. TypeOK /\ pc = "copy" /\ Sink = "none"
  BY DEF BufferInv, PhaseInv, CopyHead
<1>2. n \in Nat /\ Bytes \in Nat /\ Bytes <= LongestPayload(pipe, n)
  BY <1>1, Types, PipeBounds DEF Bytes
<1>3. /\ Encoding /\ Write(shift, Bytes, Payload(Bytes)) /\ size' = Bytes
      /\ UNCHANGED called /\ UNCHANGED <<shift, result, streams, dec>>
      /\ UNCHANGED stages /\ pc' = "update" /\ UNCHANGED <<sunk, flat>>
  BY DEF CopyHead, Encoding
<1>4. sunk' \in Nat /\ flat' \in BOOLEAN
  BY <1>1, <1>3 DEF TypeOK
<1>5. Learn("head") \/ UNCHANGED stages
  BY <1>3
<1>6. pc' \in {"tail", "update"} /\ pc' # "tail"
  BY <1>3
<1> QED BY <1>2, <1>3, <1>4, <1>5, <1>6, BufferPayload

LEMMA BufferEncodeSink ==
    ASSUME PipelineAssumption, BufferInv, EncodeSink
    PROVE  BufferInv'
<1>1. TypeOK /\ pc = "sink" /\ Sink # "none" /\ Encoding
  BY DEF BufferInv, PhaseInv, EncodeSink, Encoding
<1>2. PICK s \in IF Sink = "quantiser" THEN {n} ELSE 1 .. Bytes + Overhead :
        Write(shift, s, Payload(s)) /\ sunk' = s /\ size' = s
  BY DEF EncodeSink
<1>3. /\ n \in Nat /\ Bytes \in Nat /\ Overhead \in Nat
      /\ Sink = "quantiser" => n <= LongestPayload(pipe, n)
      /\ Sink = "compressor" => Bytes + Overhead <= LongestPayload(pipe, n)
      /\ LongestPayload(pipe, n) \in Nat
  BY <1>1, Types, PipeBounds DEF Bytes
<1>4. s \in Nat /\ s <= LongestPayload(pipe, n) /\ (Sink = "quantiser" => s = n)
  <2>1. Sink \in {"quantiser", "compressor"}
    BY <1>1, Types DEF Sink, PipelineAssumption
  <2>2. CASE Sink = "quantiser"
    BY <1>2, <1>3, <2>2
  <2>3. CASE Sink = "compressor"
    <3>1. s \in 1 .. Bytes + Overhead
      BY <1>2, <2>3
    <3> QED BY <1>3, <2>3, <3>1
  <2> QED BY <2>1, <2>2, <2>3
<1>5. /\ UNCHANGED called /\ UNCHANGED <<shift, result, streams, dec>>
      /\ Learn("sink") \/ UNCHANGED stages
      /\ pc' \in {"tail", "update"} /\ flat' = flat
  BY DEF EncodeSink
<1>6. flat' \in BOOLEAN
  BY <1>1, <1>5 DEF TypeOK
<1> QED BY <1>1, <1>2, <1>4, <1>5, <1>6, BufferPayload

LEMMA BufferEncodeTail ==
    ASSUME PipelineAssumption, TailAssumption, BufferInv, EncodeTail
    PROVE  BufferInv'
<1>1. /\ TypeOK /\ pc = "tail" /\ Encoding /\ sunk <= LongestPayload(pipe, n)
      /\ Sink = "quantiser" => sunk = n
  BY DEF BufferInv, PhaseInv, EncodeTail, Encoding
<1>2. PICK s \in IF Tail = "compressor" THEN 1 .. sunk + Overhead ELSE {sunk} :
        Write(shift, s, Payload(s)) /\ size' = s
  BY DEF EncodeTail
<1>3. /\ n \in Nat /\ Overhead \in Nat /\ sunk \in Nat
      /\ LongestPayload(pipe, n) \in Nat
      /\ Sink = "quantiser" /\ Tail = "compressor" =>
           n + Overhead <= LongestPayload(pipe, n)
  BY <1>1, Types, PipeBounds DEF Bytes
<1>4. s \in Nat /\ s <= LongestPayload(pipe, n)
  <2>1. CASE Tail = "compressor"
    <3>1. Sink = "quantiser" /\ sunk = n /\ s \in 1 .. sunk + Overhead
      BY <1>1, <1>2, <2>1, Types DEF TailAssumption, Sink, Tail
    <3>2. s \in Nat /\ s <= n + Overhead
      BY <1>3, <3>1
    <3> QED BY <1>3, <2>1, <3>1, <3>2
  <2>2. CASE Tail # "compressor"
    BY <1>1, <1>2, <1>3, <2>2
  <2> QED BY <2>1, <2>2
<1>5. /\ UNCHANGED called /\ UNCHANGED <<shift, result, streams, dec>>
      /\ Learn("tail") \/ UNCHANGED stages
      /\ pc' \in {"tail", "update"} /\ pc' # "tail"
      /\ sunk' = sunk /\ flat' = (sunk # n)
  BY DEF EncodeTail
<1>6. sunk' \in Nat /\ flat' \in BOOLEAN
  BY <1>3, <1>5
<1> QED BY <1>1, <1>2, <1>4, <1>5, <1>6, BufferPayload

\* The header written last ends where the moved payload begins.
LEMMA BufferUpdateHeader ==
    ASSUME PipelineAssumption, BufferInv, UpdateHeader
    PROVE  BufferInv'
<1>1. /\ TypeOK /\ WithinBuffer /\ RoomInv /\ PayloadInv
      /\ pc = "update" /\ Encoding /\ config \in Configs
  BY Types DEF BufferInv, UpdateHeader, Encoding
<1>2. PICK h \in Nat : h = HeaderSize(nd, config, size) /\ h <= LongestHeader
  BY <1>1, HeaderBounds DEF TypeOK
<1>3. /\ out' = Rewritten(h) /\ high' = Larger(high, h + size)
      /\ result' = h + size /\ pc' = "idle"
      /\ UNCHANGED called /\ UNCHANGED stages
      /\ UNCHANGED <<shift, sunk, size, flat, dec>>
  BY <1>2 DEF UpdateHeader
<1>4. /\ h + size <= cap /\ shift + size <= cap /\ size \in Nat /\ shift \in Nat
      /\ cap \in Nat /\ high \in Nat /\ high <= cap
  <2>1. PICK v \in Nat, l \in Nat : v = LongestPayload(pipe, n) /\ l = LongestHeader
    BY <1>1, Types
  <2>2. l + v <= cap /\ shift <= l /\ size <= v /\ h <= l
    BY <1>1, <1>2, <2>1 DEF RoomInv, PayloadInv
  <2> QED BY <1>1, <1>2, <2>2, Types DEF WithinBuffer
<1>5. out' = [q \in 0 .. cap - 1 |->
                IF q < h THEN Header
                ELSE IF h # shift /\ q < h + size THEN out[q - h + shift]
                ELSE out[q]]
  BY <1>1, <1>3 DEF Rewritten, TypeOK
<1>6. \A k \in 0 .. size - 1 : out[shift + k] = k
  BY <1>1 DEF PayloadInv
<1>7. out' \in [0 .. cap - 1 -> Int]
  <2>1. ASSUME NEW q \in 0 .. cap - 1
        PROVE  (IF q < h THEN Header
                ELSE IF h # shift /\ q < h + size THEN out[q - h + shift]
                ELSE out[q]) \in Int
    <3>1. CASE q < h
      BY <3>1 DEF Header
    <3>2. CASE ~(q < h) /\ h # shift /\ q < h + size
      <4>1. q - h + shift \in 0 .. cap - 1
        BY <1>4, <3>2
      <4> QED BY <1>1, <3>2, <4>1 DEF TypeOK
    <3>3. CASE ~(q < h) /\ ~(h # shift /\ q < h + size)
      BY <1>1, <3>3 DEF TypeOK
    <3> QED BY <3>1, <3>2, <3>3
  <2> QED BY <1>5, <2>1
<1>8. \A p \in 0 .. h - 1 : out'[p] = Header
  <2>1. SUFFICES ASSUME NEW p \in 0 .. h - 1 PROVE out'[p] = Header
    OBVIOUS
  <2>2. p \in 0 .. cap - 1 /\ p < h
    BY <1>4
  <2> QED BY <1>5, <2>2
<1>9. \A k \in 0 .. size - 1 : out'[h + k] = k
  <2>1. SUFFICES ASSUME NEW k \in 0 .. size - 1 PROVE out'[h + k] = k
    OBVIOUS
  <2>2. /\ h + k \in 0 .. cap - 1 /\ ~(h + k < h) /\ h + k < h + size
        /\ (h + k) - h + shift = shift + k
    BY <1>4
  <2>3. out[shift + k] = k
    BY <1>6
  <2>4. CASE h = shift
    <3>1. out'[h + k] = out[h + k]
      BY <1>5, <2>2, <2>4
    <3> QED BY <2>3, <2>4, <3>1
  <2>5. CASE h # shift
    <3>1. out'[h + k] = out[(h + k) - h + shift]
      BY <1>5, <2>2, <2>5
    <3> QED BY <2>2, <2>3, <3>1
  <2> QED BY <2>4, <2>5
<1>10. high' \in Nat /\ high' <= cap
  BY <1>3, <1>4 DEF Larger
<1>11. streams' \subseteq Stream
  <2>1. learned \in Config
    BY <1>1, Types DEF TypeOK, Config
  <2>2. [vol |-> vol, n |-> n, nd |-> nd, params |-> learned, sunk |-> sunk,
         flat |-> flat, size |-> size] \in Stream
    BY <1>1, <2>1, Types DEF TypeOK, Stream
  <2> QED BY <1>1, <2>2 DEF UpdateHeader, TypeOK
<1>12. TypeOK'
  <2>1. result' \in {Null} \cup Nat
    BY <1>3, <1>4
  <2> QED BY <1>1, <1>3, <1>7, <1>10, <1>11, <2>1, SameCall DEF TypeOK, stages
<1>13. FrameInv'
  <2>1. result' - size' = h /\ size' = size /\ cap' = cap /\ size <= h + size
    BY <1>3, <1>4, SameCall
  <2> QED BY <1>3, <1>4, <1>8, <1>9, <2>1 DEF FrameInv
<1> QED
  BY <1>3, <1>10, <1>12, <1>13, SameCall
     DEF BufferInv, RoomInv, PhaseInv, PayloadInv, WithinBuffer, Encoding,
         DecodeInv

DecodeType == [stream : Stream, lost : Nat, unpacked : Nat, good : BOOLEAN,
               errs : Errors, value : Int]

\* The code of a chain: not 0 if one of its filters fails.
LEMMA ChainCodes ==
    ASSUME NEW m \in Nat, NEW failing \in SUBSET (1 .. m)
    PROVE  ChainCode(failing) \in Nat /\ (ChainCode(failing) = 0 <=> failing = {})
<1>1. ChainCode(failing) = SumOver(StageCode, failing)
  BY Zenon DEF ChainCode, SumOver
<1>2. IsFiniteSet(failing) /\ failing \subseteq Nat
  <2>1. IsFiniteSet(1 .. m)
    BY FS_Interval
  <2>2. IsFiniteSet(failing)
    BY <2>1, FS_Subset
  <2> QED BY <2>2
<1>3. \A j \in Nat : StageCode[j] \in Nat /\ StageCode[j] >= 1
  BY DEF StageCode
<1>4. ChainCode(failing) \in Nat
  BY <1>1, <1>2, <1>3, SumOverType
<1>5. CASE failing = {}
  BY <1>1, <1>4, <1>5, SumOverEmpty
<1>6. CASE failing # {}
  <2>1. PICK j \in failing : TRUE
    BY <1>6
  <2> DEFINE rest == failing \ {j}
  <2>2. IsFiniteSet(rest) /\ j \notin rest /\ failing = rest \cup {j}
    BY <1>2, <2>1, FS_Subset
  <2>3. SumOver(StageCode, rest) \in Nat
    BY <1>2, <1>3, <2>2, SumOverType
  <2>4. SumOver(StageCode, rest \cup {j}) = StageCode[j] + SumOver(StageCode, rest)
    <3>1. StageCode[j] \in Int /\ \A y \in rest : StageCode[y] \in Int
      BY <1>2, <1>3, <2>1
    <3> HIDE DEF rest
    <3> QED BY <2>2, <3>1, SumOverAdd
  <2> HIDE DEF rest
  <2> QED BY <1>1, <1>2, <1>3, <1>6, <2>1, <2>2, <2>3, <2>4
<1> QED BY <1>4, <1>5, <1>6

\* A step outside of encode that leaves the caller's buffer alone.
LEMMA BufferQuiet ==
    ASSUME PipelineAssumption, BufferInv,
           UNCHANGED called, UNCHANGED buffer, UNCHANGED encoding,
           UNCHANGED streams,
           pc' \in {"idle", "crashed", "untail", "unsink", "unhead", "decoded"},
           pc' = "crashed" => result = Null,
           learned' \in [head : 0 .. vol, sink : 0 .. vol, tail : 0 .. vol],
           config' \in Configs, dec' \in DecodeType, DecodeInv'
    PROVE  BufferInv'
<1>1. TypeOK /\ WithinBuffer /\ FrameInv
  BY DEF BufferInv
<1>2. /\ high' = high /\ out' = out /\ shift' = shift /\ sunk' = sunk
      /\ size' = size /\ flat' = flat /\ result' = result /\ streams' = streams
  BY DEF buffer, encoding
<1>3. TypeOK'
  BY <1>1, <1>2, SameCall DEF TypeOK, Configs, DecodeType
<1>4. RoomInv' /\ PhaseInv' /\ PayloadInv'
  BY <1>2 DEF RoomInv, PhaseInv, PayloadInv, Encoding
<1>5. WithinBuffer' /\ FrameInv'
  BY <1>1, <1>2, SameCall DEF WithinBuffer, FrameInv
<1> QED BY <1>3, <1>4, <1>5 DEF BufferInv

\* A failing stage ends the call, or the process.
LEMMA BufferFaults ==
    ASSUME PipelineAssumption, BufferInv,
           HeadThrows \/ TailThrows \/ SinkFails \/ Restart
    PROVE  BufferInv'
<1>1. TypeOK /\ dec \in DecodeType /\ (Encoding => result = Null)
  BY DEF BufferInv, RoomInv, TypeOK, DecodeType
<1>2. /\ UNCHANGED called /\ UNCHANGED buffer /\ UNCHANGED encoding
      /\ UNCHANGED streams /\ dec' = dec
  BY DEF HeadThrows, TailThrows, SinkFails, Restart
<1>3. /\ learned' \in [head : 0 .. vol, sink : 0 .. vol, tail : 0 .. vol]
      /\ config' \in Configs
  <2>1. CASE HeadThrows
    BY <1>1, <2>1, LearnType DEF HeadThrows
  <2>2. CASE TailThrows \/ SinkFails
    BY <1>1, <2>2, LearnType DEF TailThrows, SinkFails
  <2>3. CASE Restart
    BY <1>1, <2>3 DEF Restart, Nothing, Configs, TypeOK, PipelineAssumption
  <2> QED BY <2>1, <2>2, <2>3
<1>4. /\ pc' \in {"idle", "crashed"}
      /\ pc' = "crashed" => result = Null
  BY <1>1 DEF HeadThrows, TailThrows, SinkFails, Restart, Encoding
<1>5. DecodeInv'
  BY <1>2 DEF BufferInv, DecodeInv
<1> QED BY <1>1, <1>2, <1>3, <1>4, <1>5, BufferQuiet

\* Decoding works on a stream and a buffer of its own.
LEMMA BufferDecode ==
    ASSUME PipelineAssumption, BufferInv,
           StartDecode \/ DecodeTail \/ DecodeSink \/ DecodeHead \/ Decoded
    PROVE  BufferInv'
<1>1. TypeOK /\ dec \in DecodeType /\ streams \subseteq Stream
  BY DEF BufferInv, TypeOK, DecodeType
<1>2. NoDecode \in DecodeType
  <2>1. NoStream \in Stream
    BY DEF NoStream, Stream, Nothing, Config
  <2>2. NoErrors \in Errors
    BY DEF NoErrors, Errors
  <2> QED BY <2>1, <2>2 DEF NoDecode, DecodeType
<1>3. /\ dec.stream \in Stream /\ dec.lost \in Nat /\ dec.unpacked \in Nat
      /\ dec.good \in BOOLEAN /\ dec.errs \in Errors /\ dec.value \in Int
  BY <1>1 DEF DecodeType
<1>4. dec' \in DecodeType
  <2>1. CASE StartDecode
    <3>1. PICK s \in streams, lost \in Losses :
            dec' = [NoDecode EXCEPT !.stream = s, !.lost = lost,
                                    !.good = (lost = 0 /\ Matching(s))]
      BY <2>1 DEF StartDecode
    <3>2. s \in Stream /\ lost \in Nat /\ (lost = 0 /\ Matching(s)) \in BOOLEAN
      BY <1>1, <3>1 DEF PipelineAssumption, Matching
    <3> QED BY <1>2, <3>1, <3>2 DEF DecodeType
  <2>2. CASE DecodeTail
    <3> DEFINE read == IF Tail = "compressor" THEN dec.stream.sunk ELSE Arrived
    <3>1. PICK failing \in SUBSET (1 .. TailStages) :
            dec' = [dec EXCEPT
              !.value = @ + ChainCode(failing), !.errs.tail = ChainCode(failing),
              !.unpacked = read, !.good = @ /\ failing = {} /\ ~Reshaped]
      BY <2>2 DEF DecodeTail
    <3> DEFINE good == dec.good /\ failing = {} /\ ~Reshaped
    <3>2. read \in Nat /\ good \in BOOLEAN
      BY <1>3 DEF Arrived, Stream, BufferInv, DecodeInv
    <3>3. ChainCode(failing) \in Nat
      BY <1>1, <3>1, ChainCodes DEF TypeOK, PipelineAssumption, TailStages
    <3> DEFINE e == [dec.errs EXCEPT !.tail = ChainCode(failing)]
               sum == dec.value + ChainCode(failing)
    <3>4. e \in Errors /\ sum \in Int
      BY <1>3, <3>3 DEF Errors
    <3> HIDE DEF read, good, e, sum
    <3>5. dec' = [dec EXCEPT !.value = sum, !.errs = e, !.unpacked = read, !.good = good]
      BY <1>1, <3>1 DEF DecodeType, good, e, sum
    <3> QED BY ONLY <1>1, <3>2, <3>4, <3>5 DEF DecodeType
  <2>3. CASE DecodeSink
    <3>1. SinkInput \in Int /\ dec.stream.n \in Int
      BY <1>3 DEF SinkInput, Arrived, Original, Stream, PipelineAssumption
    <3>2. PICK err \in Int :
            dec' = [dec EXCEPT !.value = @ + SinkCode(err), !.errs.sink = err,
                               !.good = @ /\ err = 0 /\ dec.unpacked <= Original]
      <4>1. PICK err \in IF Sink = "quantiser"
                           THEN {Lesser(SinkInput, dec.stream.n) - dec.stream.n}
                         ELSE IF dec.good /\ ~Faults THEN {0} ELSE {0, 1} :
              dec' = [dec EXCEPT !.value = @ + SinkCode(err), !.errs.sink = err,
                                 !.good = @ /\ err = 0 /\ dec.unpacked <= Original]
        BY <2>3 DEF DecodeSink
      <4>2. err \in Int
        BY <3>1, <4>1 DEF Lesser
      <4> QED BY <4>1, <4>2
    <3> DEFINE good == dec.good /\ err = 0 /\ dec.unpacked <= Original
    <3>3. dec.value + SinkCode(err) \in Int /\ good \in BOOLEAN
      BY <1>3 DEF SinkCode
    <3>4. [dec.errs EXCEPT !.sink = err] \in Errors
      BY <1>3 DEF Errors
    <3> HIDE DEF good
    <3>5. dec' = [dec EXCEPT !.value = dec.value + SinkCode(err),
                    !.errs = [dec.errs EXCEPT !.sink = err], !.good = good]
      BY <1>1, <3>2 DEF DecodeType, good
    <3> QED BY <1>1, <3>3, <3>4, <3>5 DEF DecodeType
  <2>4. CASE DecodeHead
    <3>1. PICK failing \in SUBSET (1 .. HeadStages) :
            dec' = [dec EXCEPT !.value = @ + HeadCode(ChainCode(failing)),
                               !.errs.head = ChainCode(failing),
                               !.good = @ /\ failing = {}]
      BY <2>4 DEF DecodeHead
    <3> DEFINE good == dec.good /\ failing = {}
    <3>2. ChainCode(failing) \in Nat
      BY <1>1, <3>1, ChainCodes DEF TypeOK, PipelineAssumption, HeadStages
    <3>3. /\ dec.value + HeadCode(ChainCode(failing)) \in Int /\ good \in BOOLEAN
      BY <1>3, <3>2 DEF HeadCode
    <3>4. [dec.errs EXCEPT !.head = ChainCode(failing)] \in Errors
      BY <1>3, <3>2 DEF Errors
    <3> HIDE DEF good
    <3>5. dec' = [dec EXCEPT !.value = dec.value + HeadCode(ChainCode(failing)),
                    !.errs = [dec.errs EXCEPT !.head = ChainCode(failing)], !.good = good]
      BY <1>1, <3>1 DEF DecodeType, good
    <3> QED BY <1>1, <3>3, <3>4, <3>5 DEF DecodeType
  <2>5. CASE Decoded
    BY <1>2, <2>5 DEF Decoded
  <2> QED BY <2>1, <2>2, <2>3, <2>4, <2>5
<1>5. /\ UNCHANGED called /\ UNCHANGED buffer /\ UNCHANGED encoding
      /\ UNCHANGED streams /\ UNCHANGED stages
      /\ pc' \in {"idle", "untail", "unsink", "unhead", "decoded"}
  BY DEF StartDecode, DecodeTail, DecodeSink, DecodeHead, Decoded
<1>6. /\ learned' \in [head : 0 .. vol, sink : 0 .. vol, tail : 0 .. vol]
      /\ config' \in Configs
  BY <1>1, <1>5, LearnType
<1>7. DecodeInv'
  <2>1. CASE StartDecode
    <3>1. PICK s \in streams, lost \in Losses :
            /\ lost < s.size
            /\ dec' = [NoDecode EXCEPT !.stream = s, !.lost = lost,
                                       !.good = (lost = 0 /\ Matching(s))]
      BY <2>1 DEF StartDecode
    <3>2. dec'.lost = lost /\ dec'.stream = s /\ lost \in Nat /\ s.size \in Nat
      BY <1>1, <3>1 DEF NoDecode, PipelineAssumption, Stream
    <3> QED BY <3>1, <3>2 DEF DecodeInv
  <2>2. CASE DecodeTail \/ DecodeSink \/ DecodeHead
    <3>1. dec'.lost = dec.lost /\ dec'.stream = dec.stream
      BY <1>1, <2>2 DEF DecodeTail, DecodeSink, DecodeHead, DecodeType
    <3> QED BY <3>1 DEF BufferInv, DecodeInv
  <2>3. CASE Decoded
    BY <2>3 DEF Decoded, DecodeInv, NoDecode, NoStream
  <2> QED BY <2>1, <2>2, <2>3
<1> QED BY <1>4, <1>5, <1>6, <1>7, BufferQuiet

LEMMA BufferStutter ==
    ASSUME BufferInv, UNCHANGED vars
    PROVE  BufferInv'
<1>1. /\ UNCHANGED called /\ pc' = pc /\ learned' = learned /\ config' = config
      /\ high' = high /\ out' = out /\ shift' = shift /\ sunk' = sunk
      /\ size' = size /\ flat' = flat /\ result' = result
      /\ streams' = streams /\ dec' = dec
  BY DEF vars, stages, buffer, encoding
<1>2. TypeOK'
  BY <1>1, SameCall DEF BufferInv, TypeOK
<1> QED
  BY <1>1, <1>2, SameCall
     DEF BufferInv, RoomInv, PhaseInv, PayloadInv, WithinBuffer, FrameInv,
         DecodeInv, Encoding

-----------------------------------------------------------------------------
LEMMA BufferInvariance ==
    ASSUME HeaderFits
    PROVE  Spec => []BufferInv
<1>1. Init => BufferInv
  BY PipelineAssumption, BufferInit
<1>2. BufferInv /\ [Next]_vars => BufferInv'
  <2> SUFFICES ASSUME BufferInv, [Next]_vars PROVE BufferInv'
    OBVIOUS
  <2> USE PipelineAssumption
  <2>1. CASE StartEncode
    BY <2>1, BufferStartEncode
  <2>2. CASE EncodeHead
    BY <2>2, BufferEncodeHead
  <2>3. CASE CopyHead
    BY <2>3, BufferCopyHead
  <2>4. CASE EncodeSink
    BY <2>4, BufferEncodeSink
  <2>5. CASE EncodeTail
    BY <2>5, TailAssumption, BufferEncodeTail
  <2>6. CASE UpdateHeader
    BY <2>6, BufferUpdateHeader
  <2>7. CASE HeadThrows \/ TailThrows \/ SinkFails \/ Restart
    BY <2>7, BufferFaults
  <2>8. CASE StartDecode \/ DecodeTail \/ DecodeSink \/ DecodeHead \/ Decoded
    BY <2>8, BufferDecode
  <2>9. CASE UNCHANGED vars
    BY <2>9, BufferStutter
  <2> QED
    BY <2>1, <2>2, <2>3, <2>4, <2>5, <2>6, <2>7, <2>8, <2>9 DEF Next
<1> QED BY <1>1, <1>2, PTL DEF Spec

\* Every variable of the pipeline keeps its type, for volumes of any size.
THEOREM TypeCorrect ==
    ASSUME HeaderFits
    PROVE  Spec => []TypeOK
<1>1. BufferInv => TypeOK
  BY DEF BufferInv
<1> QED BY <1>1, BufferInvariance, PTL

\* As long as the longest header and the longest payload fit together, encode
\* writes nothing behind a buffer of max_encoded_size bytes.
THEOREM EncodeStaysInside ==
    ASSUME HeaderFits
    PROVE  Spec => []WithinBuffer
<1>1. BufferInv => WithinBuffer
  BY DEF BufferInv
<1> QED BY <1>1, BufferInvariance, PTL

\* Under the same condition what encode returns is one header and the payload
\* behind it, whether the header grew, shrank or kept its size.
THEOREM HeaderMakesRoom ==
    ASSUME HeaderFits
    PROVE  Spec => []Framed
<1>1. BufferInv => Framed
  <2> SUFFICES ASSUME BufferInv, result # Null PROVE Framed
    BY DEF Framed
  <2> QED BY DEF BufferInv, FrameInv, Framed
<1> QED BY <1>1, BufferInvariance, PTL
-----------------------------------------------------------------------------
(* What a stream carries and what decode makes of it *)

\* Tail filters stand behind the quantiser, and what they do does not depend on
\* the shape. A filter behind a compressor may be handed more bytes than the
\* volume has, and one that depends on the shape is given another one by decode.
PlainTails ==
    \A p \in Pipelines : p.tail # "shaped" /\ (p.tail # "none" => p.sink = "quantiser")

Decoding == pc \in {"untail", "unsink", "unhead", "decoded"}

PathInv ==
    /\ pipe \in Pipelines
    /\ pc = "copy" => Sink = "none"
    /\ pc = "sink" => Sink # "none"
    /\ pc = "tail" => Tail # "none"
    /\ pc = "untail" => Tail # "none"
    /\ pc = "unsink" => Sink # "none"

\* A stage that has encoded the volume at hand holds its configuration.
LearnInv ==
    /\ DOMAIN learned = {"head", "sink", "tail"}
    /\ HeadStages > 0 /\ pc \in {"copy", "sink", "tail", "update"} => learned.head = vol
    /\ Sink = "quantiser" /\ pc \in {"tail", "update"} => learned.sink = vol
    /\ Tail \in {"filter", "shaped"} /\ pc = "update" => learned.tail = vol

\* The quantiser writes a byte per item, a filter as many bytes as it reads.
SizeInv ==
    /\ Encoding => n \in Nat \ {0} /\ sunk \in Nat
    /\ pc = "update" => size \in Nat
    /\ Sink = "quantiser" /\ pc \in {"tail", "update"} => sunk = n
    /\ Sink = "quantiser" /\ Tail = "none" /\ pc = "update" => size = n
    /\ Tail \in {"filter", "shaped"} /\ pc = "update" => size = sunk

Whole(s) ==
    /\ Matching(s)
    /\ s.n \in Nat \ {0} /\ s.sunk \in Nat /\ s.size \in Nat
    /\ Sink = "quantiser" => s.sunk = s.n
    /\ Sink = "quantiser" /\ Tail = "none" => s.size = s.n
    /\ Tail \in {"filter", "shaped"} => s.size = s.sunk

StreamsInv == \A s \in streams : Whole(s)

ReadInv ==
    /\ DOMAIN dec = {"stream", "lost", "unpacked", "good", "errs", "value"}
    /\ dec.good \in BOOLEAN /\ dec.errs \in Errors
    /\ Decoding => /\ Whole(dec.stream)
                   /\ dec.lost \in Losses /\ dec.lost < dec.stream.size

StoreInv == PathInv /\ LearnInv /\ SizeInv /\ StreamsInv /\ ReadInv

\* The value is made of the errors of those stages that have run.  The only
\* negative one is that of a quantiser without a tail.
CodeInv ==
    Decoding =>
        /\ dec.value = dec.errs.tail + SinkCode(dec.errs.sink) + HeadCode(dec.errs.head)
        /\ pc = "untail" \/ Tail = "none" => dec.errs.tail = 0
        /\ pc \in {"untail", "unsink"} => dec.errs.sink = 0
        /\ pc # "decoded" => dec.errs.head = 0
        /\ \/ dec.errs.sink \in {0, 1}
           \/ Sink = "quantiser" /\ Tail = "none" /\ dec.errs.sink = 0 - dec.lost

\* Without a loss every stage restores its part, if it does not fail.
RestoredInv ==
    Decoding /\ dec.lost = 0 =>
        /\ dec.errs = NoErrors => dec.good = TRUE
        /\ dec.errs # NoErrors => Faults
        /\ pc = "unsink" => dec.unpacked \in Nat /\ dec.unpacked <= Original

LEMMA StoreInit == ASSUME PipelineAssumption, Init PROVE StoreInv
BY DEF Init, StoreInv, PathInv, LearnInv, SizeInv, StreamsInv, ReadInv, Encoding,
       Decoding, Nothing, NoDecode, NoErrors, Errors

\* The names that depend on the pipeline alone.
LEMMA SamePipe ==
    ASSUME pipe' = pipe
    PROVE  /\ HeadStages' = HeadStages /\ Sink' = Sink /\ Tail' = Tail
           /\ \A s : Whole(s)' <=> Whole(s)
<1>1. HeadStages' = HeadStages /\ Sink' = Sink /\ Tail' = Tail
  BY DEF HeadStages, Sink, Tail
<1> QED BY <1>1 DEF Whole, Matching

\* Learning sets one entry.
LEMMA LearnEffect ==
    ASSUME LearnInv, NEW stage \in {"head", "sink", "tail"}, Learn(stage)
    PROVE  /\ DOMAIN learned' = {"head", "sink", "tail"}
           /\ learned'[stage] = vol
           /\ \A x \in {"head", "sink", "tail"} : x # stage => learned'[x] = learned[x]
BY DEF LearnInv, Learn

\* Steps of encode up to the last one leave streams and decoder alone.
LEMMA StoreEncode ==
    ASSUME PipelineAssumption, TailAssumption, StoreInv,
           StartEncode \/ EncodeHead \/ CopyHead \/ EncodeSink \/ EncodeTail
    PROVE  StoreInv'
<1>1. /\ pipe' = pipe /\ streams' = streams /\ dec' = dec
      /\ ~ Decoding' /\ Encoding'
  BY DEF StartEncode, EncodeHead, CopyHead, EncodeSink, EncodeTail, called, Encoding,
         Decoding
<1>2. StreamsInv' /\ ReadInv'
  BY <1>1, SamePipe DEF StoreInv, StreamsInv, ReadInv
<1>3. /\ pipe.sink = "none" => pipe.head > 0 /\ pipe.tail = "none"
      /\ pipe.head \in Nat /\ pipe \in Pipelines
      /\ pipe.tail = "compressor" => pipe.sink = "quantiser"
      /\ Width \in Nat \ {0} /\ Overhead \in Nat
  BY DEF PipelineAssumption, TailAssumption, StoreInv, PathInv
<1>4. PathInv'
  BY <1>1, <1>3, SamePipe
     DEF StoreInv, PathInv, StartEncode, EncodeHead, CopyHead, EncodeSink, EncodeTail,
         HeadStages, Sink, Tail
<1>5. CASE StartEncode
  <2>1. n' \in Nat \ {0} /\ sunk' = 0 /\ learned' = learned /\ pc' \in {"head", "sink"}
    BY <1>5 DEF StartEncode, PipelineAssumption, stages
  <2>2. pc' = "sink" => ~(HeadStages > 0)
    BY <1>5 DEF StartEncode
  <2>3. LearnInv'
    BY <1>1, <2>1, <2>2, SamePipe DEF LearnInv, StoreInv
  <2>4. SizeInv'
    BY <2>1 DEF SizeInv
  <2> QED BY <1>2, <1>4, <2>3, <2>4 DEF StoreInv
<1>6. CASE EncodeHead
  <2>1. /\ n' = n /\ sunk' = sunk /\ vol' = vol /\ pc' \in {"copy", "sink"} /\ pc = "head"
    BY <1>6 DEF EncodeHead, called, encoding
  <2>2. LearnInv'
    BY <1>1, <1>6, <2>1, LearnEffect DEF EncodeHead, StoreInv, LearnInv
  <2>3. SizeInv'
    BY <2>1 DEF SizeInv, StoreInv, Encoding
  <2> QED BY <1>2, <1>4, <2>2, <2>3 DEF StoreInv
<1>7. CASE CopyHead
  <2>1. /\ n' = n /\ sunk' = sunk /\ vol' = vol /\ pc' = "update" /\ pc = "copy"
        /\ learned' = learned /\ size' = n * Width /\ n \in Nat /\ n * Width \in Nat
    BY <1>3, <1>7 DEF CopyHead, called, stages, StoreInv, SizeInv, Encoding, Bytes
  <2>2. Sink = "none" /\ Tail = "none"
    BY <1>3, <2>1 DEF StoreInv, PathInv, Sink, Tail
  <2>3. LearnInv'
    BY <1>1, <2>1, <2>2, SamePipe DEF StoreInv, LearnInv
  <2>4. SizeInv'
    BY <1>1, <2>1, <2>2, SamePipe DEF SizeInv, StoreInv, Encoding
  <2> QED BY <1>2, <1>4, <2>3, <2>4 DEF StoreInv
<1>8. CASE EncodeSink
  <2>1. /\ n' = n /\ vol' = vol /\ pc' = (IF Tail = "none" THEN "update" ELSE "tail")
        /\ pc = "sink" /\ n \in Nat \ {0} /\ size' = sunk'
    BY <1>8 DEF EncodeSink, called, StoreInv, SizeInv, Encoding
  <2>2. sunk' \in Nat /\ (Sink = "quantiser" => sunk' = n)
    <3>1. sunk' \in IF Sink = "quantiser" THEN {n} ELSE 1 .. Bytes + Overhead
      BY <1>8 DEF EncodeSink
    <3>2. Bytes + Overhead \in Nat
      BY <1>3, <2>1 DEF Bytes
    <3> QED BY <2>1, <3>1, <3>2
  <2>3. LearnInv'
    <3>1. CASE Sink = "quantiser"
      BY <1>1, <1>8, <2>1, <3>1, SamePipe, LearnEffect DEF EncodeSink, StoreInv, LearnInv
    <3>2. CASE Sink # "quantiser"
      BY <1>1, <1>8, <2>1, <3>2, SamePipe DEF EncodeSink, StoreInv, LearnInv, stages
    <3> QED BY <3>1, <3>2
  <2>4. SizeInv'
    BY <1>1, <2>1, <2>2, SamePipe DEF SizeInv
  <2> QED BY <1>2, <1>4, <2>3, <2>4 DEF StoreInv
<1>9. CASE EncodeTail
  <2>1. /\ n' = n /\ sunk' = sunk /\ vol' = vol /\ pc' = "update" /\ pc = "tail"
        /\ n \in Nat \ {0} /\ sunk \in Nat /\ Tail # "none"
        /\ Sink = "quantiser" => sunk = n
    BY <1>9 DEF EncodeTail, called, StoreInv, SizeInv, PathInv, Encoding
  <2>2. size' \in Nat /\ (Tail \in {"filter", "shaped"} => size' = sunk)
    <3>1. size' \in IF Tail = "compressor" THEN 1 .. sunk + Overhead ELSE {sunk}
      BY <1>9 DEF EncodeTail
    <3> QED BY <1>3, <2>1, <3>1
  <2>3. LearnInv'
    <3>1. CASE Tail = "compressor"
      BY <1>1, <1>9, <2>1, <3>1, SamePipe DEF EncodeTail, StoreInv, LearnInv, stages
    <3>2. CASE Tail # "compressor"
      BY <1>1, <1>9, <2>1, <3>2, SamePipe, LearnEffect DEF EncodeTail, StoreInv, LearnInv
    <3> QED BY <3>1, <3>2
  <2>4. SizeInv'
    BY <1>1, <2>1, <2>2, SamePipe DEF SizeInv
  <2> QED BY <1>2, <1>4, <2>3, <2>4 DEF StoreInv
<1> QED BY <1>5, <1>6, <1>7, <1>8, <1>9

\* The stream that encode returns is whole.
LEMMA StoreUpdateHeader ==
    ASSUME PipelineAssumption, StoreInv, UpdateHeader
    PROVE  StoreInv'
<1> DEFINE s == [vol |-> vol, n |-> n, nd |-> nd, params |-> learned, sunk |-> sunk,
                 flat |-> flat, size |-> size]
<1>1. /\ pipe' = pipe /\ streams' = streams \cup {s} /\ dec' = dec /\ learned' = learned
      /\ pc = "update" /\ pc' = "idle" /\ Encoding
  BY DEF UpdateHeader, called, stages, Encoding
<1>2. Whole(s)
  <2>1. Matching(s)
    BY <1>1 DEF StoreInv, LearnInv, Matching
  <2> QED BY <1>1, <2>1 DEF Whole, StoreInv, SizeInv
<1> HIDE DEF s
<1>3. StreamsInv'
  BY <1>1, <1>2, SamePipe DEF StoreInv, StreamsInv
<1> QED
  BY <1>1, <1>3, SamePipe
     DEF StoreInv, PathInv, LearnInv, SizeInv, ReadInv, Encoding, Decoding

LEMMA StoreFaults ==
    ASSUME PipelineAssumption, StoreInv,
           HeadThrows \/ TailThrows \/ SinkFails \/ Restart \/ UNCHANGED vars
    PROVE  StoreInv'
<1>1. CASE UNCHANGED vars
  BY <1>1, SamePipe
     DEF vars, called, stages, buffer, encoding, StoreInv, PathInv, LearnInv, SizeInv,
         StreamsInv, ReadInv, Encoding, Decoding
<1>2. CASE HeadThrows \/ TailThrows \/ SinkFails \/ Restart
  <2>1. /\ pipe' = pipe /\ streams' = streams /\ dec' = dec /\ pc' \in {"idle", "crashed"}
    BY <1>2 DEF HeadThrows, TailThrows, SinkFails, Restart, called
  <2>2. DOMAIN learned' = {"head", "sink", "tail"}
    <3>1. CASE Learn("head") \/ Learn("tail")
      BY <3>1, LearnEffect DEF StoreInv
    <3>2. CASE learned' = learned
      BY <3>2 DEF StoreInv, LearnInv
    <3>3. CASE Restart
      BY <3>3 DEF Restart, Nothing
    <3> QED BY <1>2, <3>1, <3>2, <3>3 DEF HeadThrows, TailThrows, SinkFails, stages
  <2> QED
    BY <2>1, <2>2, SamePipe
       DEF StoreInv, PathInv, LearnInv, SizeInv, StreamsInv, ReadInv, Encoding, Decoding
<1> QED BY <1>1, <1>2

\* What the three steps of decode leave in its state.
SameStream ==
    /\ DOMAIN dec' = {"stream", "lost", "unpacked", "good", "errs", "value"}
    /\ dec'.stream = dec.stream /\ dec'.lost = dec.lost
    /\ dec'.good \in BOOLEAN /\ dec'.errs \in Errors

TailLeaves(code) ==
    /\ dec'.value = dec.value + code /\ dec'.errs = [dec.errs EXCEPT !.tail = code]
    /\ dec.lost = 0 /\ Tail # "shaped" /\ code # 0 => Faults
    /\ Tail # "shaped" /\ dec.good /\ code = 0 => dec'.good = TRUE
    /\ dec'.unpacked = IF Tail = "compressor" THEN dec.stream.sunk ELSE Arrived

LEMMA TailEffect ==
    ASSUME PipelineAssumption, PathInv, ReadInv, DecodeTail
    PROVE  /\ SameStream
           /\ \E code \in Nat : TailLeaves(code)
<1> DEFINE read == IF Tail = "compressor" THEN dec.stream.sunk ELSE Arrived
<1>1. PICK failing \in SUBSET (1 .. TailStages) :
        /\ TailMayFail \/ failing = {}
        /\ dec' = [dec EXCEPT
             !.value = @ + ChainCode(failing), !.errs.tail = ChainCode(failing),
             !.unpacked = read, !.good = @ /\ failing = {} /\ ~Reshaped]
  BY DEF DecodeTail
<1> DEFINE code == ChainCode(failing)
           g == dec.good /\ failing = {} /\ ~Reshaped
           e == [dec.errs EXCEPT !.tail = code]
<1>2. code \in Nat /\ (code = 0 <=> failing = {})
  BY <1>1, ChainCodes DEF PathInv, PipelineAssumption, TailStages
<1>3. dec' = [dec EXCEPT !.value = dec.value + code, !.errs = e,
                         !.unpacked = read, !.good = g]
  BY <1>1 DEF ReadInv
<1>4. e \in Errors /\ g \in BOOLEAN
  BY <1>2 DEF ReadInv, Errors
<1>5. Tail # "shaped" /\ dec.good /\ code = 0 => g = TRUE
  BY <1>2 DEF Reshaped, ReadInv
<1>6. dec.lost = 0 /\ Tail # "shaped" /\ code # 0 => Faults
  BY <1>1, <1>2 DEF TailMayFail, Reshaped
<1> HIDE DEF read, code, g, e
<1>7. /\ SameStream
      /\ dec'.value = dec.value + code /\ dec'.errs = e
      /\ dec'.unpacked = read /\ dec'.good = g
  BY <1>3, <1>4 DEF ReadInv, SameStream
<1>8. TailLeaves(code)
  BY <1>5, <1>6, <1>7 DEF TailLeaves, e, read
<1> QED BY <1>2, <1>7, <1>8

SinkLeaves(err) ==
    /\ dec'.value = dec.value + SinkCode(err) /\ dec'.errs = [dec.errs EXCEPT !.sink = err]
    /\ dec.good /\ err = 0 /\ dec.unpacked <= Original => dec'.good = TRUE
    /\ Sink = "quantiser" => err = Lesser(SinkInput, dec.stream.n) - dec.stream.n
    /\ Sink # "quantiser" => err \in {0, 1} /\ (dec.good /\ err # 0 => Faults)

LEMMA SinkEffect ==
    ASSUME PipelineAssumption, ReadInv, DecodeSink, SinkInput \in Int, dec.stream.n \in Int
    PROVE  /\ SameStream
           /\ \E err \in Int : SinkLeaves(err)
<1>1. PICK err \in IF Sink = "quantiser" THEN {Lesser(SinkInput, dec.stream.n) - dec.stream.n}
                   ELSE IF dec.good /\ ~Faults THEN {0} ELSE {0, 1} :
        dec' = [dec EXCEPT !.value = @ + SinkCode(err), !.errs.sink = err,
                           !.good = @ /\ err = 0 /\ dec.unpacked <= Original]
  BY DEF DecodeSink
<1> DEFINE g == dec.good /\ err = 0 /\ dec.unpacked <= Original
           e == [dec.errs EXCEPT !.sink = err]
<1>2. err \in Int
  BY <1>1 DEF Lesser
<1>3. dec' = [dec EXCEPT !.value = dec.value + SinkCode(err), !.errs = e, !.good = g]
  BY <1>1 DEF ReadInv
<1>4. e \in Errors /\ g \in BOOLEAN
      /\ (dec.good /\ err = 0 /\ dec.unpacked <= Original => g = TRUE)
  BY <1>2 DEF ReadInv, Errors
<1>5. /\ Sink = "quantiser" => err = Lesser(SinkInput, dec.stream.n) - dec.stream.n
      /\ Sink # "quantiser" => err \in {0, 1} /\ (dec.good /\ err # 0 => Faults)
  BY <1>1
<1> HIDE DEF g, e
<1>6. /\ SameStream
      /\ dec'.value = dec.value + SinkCode(err) /\ dec'.errs = e /\ dec'.good = g
  BY <1>3, <1>4 DEF ReadInv, SameStream
<1>7. SinkLeaves(err)
  BY <1>4, <1>5, <1>6 DEF SinkLeaves, e
<1> QED BY <1>2, <1>6, <1>7

HeadLeaves(code) ==
    /\ dec'.value = dec.value + HeadCode(code) /\ dec'.errs = [dec.errs EXCEPT !.head = code]
    /\ code # 0 => Faults
    /\ dec.good /\ code = 0 => dec'.good = TRUE

LEMMA HeadEffect ==
    ASSUME PipelineAssumption, PathInv, ReadInv, DecodeHead
    PROVE  /\ SameStream
           /\ \E code \in Nat : HeadLeaves(code)
<1>1. PICK failing \in SUBSET (1 .. HeadStages) :
        /\ Faults \/ failing = {}
        /\ dec' = [dec EXCEPT !.value = @ + HeadCode(ChainCode(failing)),
                              !.errs.head = ChainCode(failing), !.good = @ /\ failing = {}]
  BY DEF DecodeHead
<1> DEFINE code == ChainCode(failing)
           g == dec.good /\ failing = {}
           e == [dec.errs EXCEPT !.head = code]
<1>2. code \in Nat /\ (code = 0 <=> failing = {})
  BY <1>1, ChainCodes DEF PathInv, PipelineAssumption, HeadStages
<1>3. dec' = [dec EXCEPT !.value = dec.value + HeadCode(code), !.errs = e, !.good = g]
  BY <1>1 DEF ReadInv
<1>4. e \in Errors /\ g \in BOOLEAN /\ (dec.good /\ code = 0 => g = TRUE)
      /\ (code # 0 => Faults)
  BY <1>1, <1>2 DEF ReadInv, Errors
<1> HIDE DEF code, g, e
<1>5. /\ SameStream
      /\ dec'.value = dec.value + HeadCode(code) /\ dec'.errs = e /\ dec'.good = g
  BY <1>3, <1>4 DEF ReadInv, SameStream
<1>6. HeadLeaves(code)
  BY <1>4, <1>5 DEF HeadLeaves, e
<1> QED BY <1>2, <1>5, <1>6

\* The numbers decode works with.
LEMMA Numbers ==
    ASSUME PipelineAssumption, StoreInv, Decoding
    PROVE  /\ dec.stream.n \in Nat /\ dec.stream.size \in Nat /\ dec.stream.sunk \in Nat
           /\ dec.lost \in Nat /\ Arrived \in Nat /\ Arrived > 0
           /\ Arrived = dec.stream.size - dec.lost
           /\ Original \in Nat /\ dec.stream.n <= Original
           /\ pipe \in Pipelines /\ HeadStages \in Nat /\ SinkInput \in Int
<1>1. /\ dec.stream.n \in Nat \ {0} /\ dec.stream.size \in Nat /\ dec.stream.sunk \in Nat
      /\ dec.lost \in Nat /\ dec.lost < dec.stream.size
  BY DEF StoreInv, ReadInv, Whole, PipelineAssumption
<1>2. Width \in Nat \ {0}
  BY DEF PipelineAssumption
<1>3. dec.stream.n * Width \in Nat /\ dec.stream.n <= dec.stream.n * Width
  BY <1>1, <1>2
<1>4. pipe \in Pipelines /\ HeadStages \in Nat
  BY DEF PipelineAssumption, StoreInv, PathInv, HeadStages
<1> QED BY <1>1, <1>3, <1>4 DEF Arrived, Original, SinkInput

\* Decoding keeps to the stream it was given.
LEMMA StoreDecode ==
    ASSUME PipelineAssumption, StoreInv,
           StartDecode \/ DecodeTail \/ DecodeSink \/ DecodeHead \/ Decoded
    PROVE  StoreInv'
<1>1. /\ pipe' = pipe /\ streams' = streams /\ learned' = learned /\ ~ Encoding'
  BY DEF StartDecode, DecodeTail, DecodeSink, DecodeHead, Decoded, called, stages, Encoding
<1>2. /\ pipe.sink = "none" => pipe.head > 0 /\ pipe.tail = "none"
      /\ pipe \in Pipelines
  BY DEF PipelineAssumption, StoreInv, PathInv
<1>3. PathInv'
  BY <1>1, <1>2, SamePipe
     DEF StoreInv, PathInv, StartDecode, DecodeTail, DecodeSink, DecodeHead, Decoded,
         HeadStages, Sink, Tail
<1>4. LearnInv' /\ SizeInv' /\ StreamsInv'
  BY <1>1, SamePipe DEF StoreInv, LearnInv, SizeInv, StreamsInv, Encoding
<1>5. ReadInv'
  <2>1. CASE StartDecode
    <3>1. PICK s \in streams, lost \in Losses :
            /\ lost < s.size
            /\ dec' = [NoDecode EXCEPT !.stream = s, !.lost = lost,
                                       !.good = (lost = 0 /\ Matching(s))]
      BY <2>1 DEF StartDecode
    <3> DEFINE good == lost = 0 /\ Matching(s)
    <3>2. Whole(s) /\ good \in BOOLEAN
      BY DEF StoreInv, StreamsInv
    <3> HIDE DEF good
    <3>3. /\ DOMAIN dec' = {"stream", "lost", "unpacked", "good", "errs", "value"}
          /\ dec'.stream = s /\ dec'.lost = lost /\ dec'.good = good /\ dec'.errs \in Errors
      BY <3>1 DEF NoDecode, NoErrors, Errors, good
    <3>4. Whole(dec'.stream)
      BY <3>2, <3>3
    <3> QED BY <1>1, <3>1, <3>2, <3>3, <3>4, SamePipe DEF ReadInv
  <2>2. CASE DecodeTail \/ DecodeSink \/ DecodeHead
    <3>1. Decoding /\ pc \in {"untail", "unsink", "unhead"}
      BY <2>2 DEF DecodeTail, DecodeSink, DecodeHead, Decoding
    <3>2. SameStream
      BY <2>2, <3>1, Numbers, TailEffect, SinkEffect, HeadEffect DEF StoreInv
    <3>3. Whole(dec.stream) /\ dec.lost \in Losses /\ dec.lost < dec.stream.size
      BY <3>1 DEF StoreInv, ReadInv
    <3>4. Whole(dec'.stream)
      BY <3>2, <3>3 DEF SameStream
    <3> QED BY <1>1, <3>2, <3>3, <3>4, SamePipe DEF ReadInv, SameStream
  <2>3. CASE Decoded
    BY <2>3 DEF Decoded, ReadInv, Decoding, NoDecode, NoErrors, Errors
  <2> QED BY <2>1, <2>2, <2>3
<1> QED BY <1>3, <1>4, <1>5 DEF StoreInv

LEMMA CodeStep ==
    ASSUME PipelineAssumption, StoreInv, CodeInv,
           StartDecode \/ DecodeTail \/ DecodeSink \/ DecodeHead \/ Decoded
    PROVE  CodeInv'
<1>0. Sink' = Sink /\ Tail' = Tail
  BY SamePipe DEF StartDecode, DecodeTail, DecodeSink, DecodeHead, Decoded, called
<1>1. CASE StartDecode
  <2>1. dec'.value = 0 /\ dec'.errs = NoErrors
    BY <1>1 DEF StartDecode, NoDecode
  <2> QED BY <2>1 DEF CodeInv, NoErrors, SinkCode, HeadCode
<1>2. CASE DecodeTail
  <2>1. pc = "untail" /\ pc' = "unsink" /\ Decoding /\ Tail # "none"
    BY <1>2 DEF DecodeTail, Decoding, StoreInv, PathInv
  <2>2. /\ dec.errs \in Errors /\ dec.value = 0
        /\ dec.errs.tail = 0 /\ dec.errs.sink = 0 /\ dec.errs.head = 0
    BY <2>1 DEF CodeInv, StoreInv, ReadInv, SinkCode, HeadCode
  <2>3. PICK code \in Nat : TailLeaves(code)
    BY <1>2, TailEffect DEF StoreInv
  <2>4. dec'.value = code /\ dec'.errs.tail = code /\ dec'.errs.sink = 0 /\ dec'.errs.head = 0
    BY <2>2, <2>3 DEF TailLeaves, Errors
  <2> QED BY <1>0, <2>1, <2>4 DEF CodeInv, SinkCode, HeadCode
<1>3. CASE DecodeSink
  <2>1. pc = "unsink" /\ pc' \in {"unhead", "decoded"} /\ Decoding
    BY <1>3 DEF DecodeSink, Decoding
  <2>2. SameStream
    BY <1>3, <2>1, Numbers, SinkEffect DEF StoreInv
  <2>3. /\ dec.errs \in Errors /\ dec.value = dec.errs.tail
        /\ dec.errs.sink = 0 /\ dec.errs.head = 0 /\ (Tail = "none" => dec.errs.tail = 0)
    BY <2>1 DEF CodeInv, StoreInv, ReadInv, SinkCode, HeadCode, Errors
  <2>4. PICK err \in Int : SinkLeaves(err)
    BY <1>3, <2>1, Numbers, SinkEffect DEF StoreInv
  <2>5. /\ dec'.value = dec.errs.tail + SinkCode(err)
        /\ dec'.errs.tail = dec.errs.tail /\ dec'.errs.sink = err /\ dec'.errs.head = 0
    BY <2>3, <2>4 DEF SinkLeaves, Errors
  <2>6. \/ err \in {0, 1}
        \/ Sink = "quantiser" /\ Tail = "none" /\ err = 0 - dec.lost
    <3>1. CASE Sink # "quantiser"
      BY <2>4, <3>1 DEF SinkLeaves
    <3>2. CASE Sink = "quantiser" /\ Tail # "none"
      BY <2>1, <2>4, <3>2, Numbers DEF SinkLeaves, SinkInput, Lesser
    <3>3. CASE Sink = "quantiser" /\ Tail = "none"
      <4>1. dec.stream.size = dec.stream.n
        BY <2>1, <3>3 DEF StoreInv, ReadInv, Whole
      <4> QED BY <2>1, <2>4, <3>3, <4>1, Numbers DEF SinkLeaves, SinkInput, Lesser
    <3> QED BY <3>1, <3>2, <3>3
  <2>7. dec'.lost = dec.lost /\ dec.errs.tail \in Nat /\ SinkCode(err) \in Int
    BY <2>2, <2>3 DEF SameStream, Errors, SinkCode
  <2>8. dec'.value = dec'.errs.tail + SinkCode(dec'.errs.sink) + HeadCode(dec'.errs.head)
    BY <2>5, <2>7 DEF HeadCode
  <2> QED BY <1>0, <2>1, <2>3, <2>5, <2>6, <2>7, <2>8 DEF CodeInv
<1>4. CASE DecodeHead
  <2>1. pc = "unhead" /\ pc' = "decoded" /\ Decoding
    BY <1>4 DEF DecodeHead, Decoding
  <2>2. SameStream
    BY <1>4, HeadEffect DEF StoreInv
  <2>3. PICK code \in Nat : HeadLeaves(code)
    BY <1>4, HeadEffect DEF StoreInv
  <2>4. /\ dec.errs \in Errors /\ dec.errs.tail \in Nat /\ SinkCode(dec.errs.sink) \in Int
        /\ dec.value = dec.errs.tail + SinkCode(dec.errs.sink)
    BY <2>1 DEF CodeInv, StoreInv, ReadInv, Errors, SinkCode, HeadCode
  <2>5. /\ dec'.value = dec.value + HeadCode(code) /\ HeadCode(code) \in Nat
        /\ dec'.errs.tail = dec.errs.tail /\ dec'.errs.sink = dec.errs.sink
        /\ dec'.errs.head = code
    BY <2>3, <2>4 DEF HeadLeaves, Errors, HeadCode
  <2> QED BY <1>0, <2>1, <2>2, <2>4, <2>5 DEF CodeInv, SameStream
<1>5. CASE Decoded
  BY <1>5 DEF Decoded, CodeInv, Decoding
<1> QED BY <1>1, <1>2, <1>3, <1>4, <1>5

\* Errors that add up to 0 are those of a quantiser without a tail.
LEMMA CodesAddUp ==
    ASSUME PipelineAssumption, StoreInv, CodeInv
    PROVE  NoErrorHidden
<1>1. SUFFICES ASSUME pc = "decoded", dec.errs # NoErrors, dec.value = 0
               PROVE  /\ Sink = "quantiser" /\ Tail = "none"
                      /\ dec.lost = 10 + HeadCode(dec.errs.head)
  BY DEF NoErrorHidden, Failed
<1>2. /\ dec.errs \in Errors /\ dec.lost \in Nat /\ HeadCode(dec.errs.head) \in Nat
      /\ HeadCode(dec.errs.head) = 0 => dec.errs.head = 0
  BY <1>1, Numbers DEF StoreInv, ReadInv, Decoding, Errors, HeadCode
<1>3. /\ 0 = dec.errs.tail + SinkCode(dec.errs.sink) + HeadCode(dec.errs.head)
      /\ Tail = "none" => dec.errs.tail = 0
      /\ \/ dec.errs.sink \in {0, 1}
         \/ Sink = "quantiser" /\ Tail = "none" /\ dec.errs.sink = 0 - dec.lost
  BY <1>1 DEF CodeInv, Decoding
<1>4. dec.errs.tail \in Nat /\ dec.errs.sink \in Int
  BY <1>2 DEF Errors
<1>5. ~(dec.errs.tail = 0 /\ dec.errs.sink = 0 /\ dec.errs.head = 0)
  BY <1>1, <1>2 DEF Errors, NoErrors
<1>6. ~ dec.errs.sink \in {0, 1}
  BY <1>2, <1>3, <1>4, <1>5 DEF SinkCode
<1>7. Sink = "quantiser" /\ Tail = "none" /\ dec.errs.sink = 0 - dec.lost
      /\ dec.errs.tail = 0
  BY <1>3, <1>6
<1>8. SinkCode(dec.errs.sink) = dec.errs.sink + 10
  BY <1>6 DEF SinkCode
<1>9. 0 = 0 + (0 - dec.lost + 10) + HeadCode(dec.errs.head)
  BY <1>3, <1>7, <1>8
<1> QED BY <1>2, <1>7, <1>9

LEMMA RestoredStep ==
    ASSUME PipelineAssumption, PlainTails, StoreInv, CodeInv, RestoredInv,
           StartDecode \/ DecodeTail \/ DecodeSink \/ DecodeHead \/ Decoded
    PROVE  RestoredInv'
<1>0. Tail \in {"none", "compressor", "filter"} /\ (Tail # "none" => Sink = "quantiser")
  BY DEF PlainTails, StoreInv, PathInv, Tail, Sink, PipelineAssumption
<1>1. CASE StartDecode
  <2>1. PICK s \in streams, lost \in Losses :
          dec' = [NoDecode EXCEPT !.stream = s, !.lost = lost,
                                  !.good = (lost = 0 /\ Matching(s))]
    BY <1>1 DEF StartDecode
  <2>2. Matching(s) /\ s.n \in Nat \ {0}
    BY DEF StoreInv, StreamsInv, Whole
  <2>3. /\ dec'.lost = lost /\ dec'.stream = s /\ dec'.errs = NoErrors /\ dec'.unpacked = 0
        /\ (lost = 0 => dec'.good = TRUE)
    BY <2>1, <2>2 DEF NoDecode
  <2>4. Original' \in Nat
    BY <2>2, <2>3 DEF Original, PipelineAssumption
  <2> QED BY <2>3, <2>4 DEF RestoredInv
<1>2. CASE DecodeTail
  <2>1. pc = "untail" /\ pc' = "unsink" /\ Decoding /\ Tail # "none"
    BY <1>2 DEF DecodeTail, Decoding, StoreInv, PathInv
  <2>2. SUFFICES ASSUME dec'.lost = 0
                 PROVE  /\ dec'.errs = NoErrors => dec'.good = TRUE
                        /\ dec'.errs # NoErrors => Faults
                        /\ dec'.unpacked \in Nat /\ dec'.unpacked <= Original'
    BY DEF RestoredInv
  <2>3. SameStream /\ dec.lost = 0
    BY <1>2, <2>2, TailEffect DEF StoreInv, SameStream
  <2>4. PICK code \in Nat : TailLeaves(code)
    BY <1>2, TailEffect DEF StoreInv
  <2>5. /\ dec.errs \in Errors /\ dec.errs = NoErrors /\ dec.good = TRUE
    <3>1. dec.errs \in Errors /\ dec.errs.tail = 0 /\ dec.errs.sink = 0 /\ dec.errs.head = 0
      BY <2>1 DEF CodeInv, StoreInv, ReadInv
    <3>2. dec.errs = NoErrors
      BY <3>1 DEF Errors, NoErrors
    <3> QED BY <2>1, <2>3, <3>1, <3>2 DEF RestoredInv
  <2>6. dec'.errs = NoErrors <=> code = 0
    BY <2>4, <2>5 DEF TailLeaves, Errors, NoErrors
  <2>7. Original' = Original
    BY <2>3 DEF SameStream, Original
  <2>8. dec.stream.sunk = dec.stream.n /\ (Tail = "filter" => Arrived = dec.stream.sunk)
    BY <1>0, <2>1, <2>3, Numbers DEF StoreInv, ReadInv, Whole
  <2>9. dec'.unpacked \in Nat /\ dec'.unpacked <= Original
    BY <1>0, <2>1, <2>4, <2>8, Numbers DEF TailLeaves
  <2> QED BY <1>0, <2>3, <2>4, <2>5, <2>6, <2>7, <2>9 DEF TailLeaves
<1>3. CASE DecodeSink
  <2>1. pc = "unsink" /\ pc' \in {"unhead", "decoded"} /\ Decoding
    BY <1>3 DEF DecodeSink, Decoding
  <2>2. SUFFICES ASSUME dec'.lost = 0
                 PROVE  /\ dec'.errs = NoErrors => dec'.good = TRUE
                        /\ dec'.errs # NoErrors => Faults
    BY <2>1 DEF RestoredInv
  <2>3. SameStream /\ dec.lost = 0
    BY <1>3, <2>1, <2>2, Numbers, SinkEffect DEF StoreInv, SameStream
  <2>4. PICK err \in Int : SinkLeaves(err)
    BY <1>3, <2>1, Numbers, SinkEffect DEF StoreInv
  <2>5. /\ dec.errs = NoErrors => dec.good = TRUE
        /\ dec.errs # NoErrors => Faults
        /\ dec.unpacked <= Original
    BY <2>1, <2>3 DEF RestoredInv
  <2>6. Sink = "quantiser" => err = 0
    <3>1. SUFFICES ASSUME Sink = "quantiser"
                   PROVE  SinkInput \in Nat /\ dec.stream.n <= SinkInput
      BY <2>1, <2>4, Numbers DEF Lesser, SinkLeaves
    <3>2. Tail = "none" => Arrived = dec.stream.n
      BY <2>1, <2>3, <3>1, Numbers DEF StoreInv, ReadInv, Whole
    <3> QED BY <2>1, <3>2, Numbers DEF SinkInput
  <2>7. dec.errs \in Errors /\ dec.errs.sink = 0
    BY <2>1 DEF StoreInv, ReadInv, CodeInv
  <2>8. CASE err = 0
    <3>1. dec'.errs = dec.errs
      BY <2>4, <2>7, <2>8 DEF SinkLeaves, Errors
    <3> QED BY <2>4, <2>5, <2>8, <3>1 DEF SinkLeaves
  <2>9. CASE err # 0
    <3>1. dec'.errs # NoErrors
      BY <2>4, <2>7, <2>9 DEF SinkLeaves, Errors, NoErrors
    <3>2. Faults
      BY <2>4, <2>5, <2>6, <2>9 DEF SinkLeaves
    <3> QED BY <3>1, <3>2
  <2> QED BY <2>8, <2>9
<1>4. CASE DecodeHead
  <2>1. pc = "unhead" /\ pc' = "decoded" /\ Decoding
    BY <1>4 DEF DecodeHead, Decoding
  <2>2. SUFFICES ASSUME dec'.lost = 0
                 PROVE  /\ dec'.errs = NoErrors => dec'.good = TRUE
                        /\ dec'.errs # NoErrors => Faults
    BY <2>1 DEF RestoredInv
  <2>3. SameStream /\ dec.lost = 0
    BY <1>4, <2>2, HeadEffect DEF StoreInv, SameStream
  <2>4. PICK code \in Nat : HeadLeaves(code)
    BY <1>4, HeadEffect DEF StoreInv
  <2>5. /\ dec.errs = NoErrors => dec.good = TRUE
        /\ dec.errs # NoErrors => Faults
        /\ dec.errs \in Errors /\ dec.errs.head = 0
    BY <2>1, <2>3 DEF RestoredInv, StoreInv, ReadInv, CodeInv
  <2>6. CASE code = 0
    <3>1. dec'.errs = dec.errs
      BY <2>4, <2>5, <2>6 DEF HeadLeaves, Errors
    <3> QED BY <2>4, <2>5, <2>6, <3>1 DEF HeadLeaves
  <2>7. CASE code # 0
    <3>1. dec'.errs # NoErrors
      BY <2>4, <2>5, <2>7 DEF HeadLeaves, Errors, NoErrors
    <3> QED BY <2>4, <2>7, <3>1 DEF HeadLeaves
  <2> QED BY <2>6, <2>7
<1>5. CASE Decoded
  BY <1>5 DEF Decoded, RestoredInv, Decoding
<1> QED BY <1>1, <1>2, <1>3, <1>4, <1>5

-----------------------------------------------------------------------------
LEMMA StoreInvariance == Spec => []StoreInv
<1>1. Init => StoreInv
  BY PipelineAssumption, StoreInit
<1>2. StoreInv /\ [Next]_vars => StoreInv'
  BY PipelineAssumption, TailAssumption, StoreEncode, StoreUpdateHeader, StoreFaults,
     StoreDecode DEF Next
<1> QED BY <1>1, <1>2, PTL DEF Spec

\* The steps that are none of decode.
LEMMA NotDecoding ==
    ASSUME [Next]_vars
    PROVE  \/ StartDecode \/ DecodeTail \/ DecodeSink \/ DecodeHead \/ Decoded
           \/ ~ Decoding'
           \/ UNCHANGED vars
BY DEF Next, StartEncode, EncodeHead, CopyHead, EncodeSink, EncodeTail, UpdateHeader,
       HeadThrows, TailThrows, SinkFails, Restart, Decoding

LEMMA CodeInvariance == Spec => []CodeInv
<1>1. Init => CodeInv
  BY DEF Init, CodeInv, Decoding
<1>2. StoreInv /\ CodeInv /\ [Next]_vars => CodeInv'
  <2>1. SUFFICES ASSUME StoreInv, CodeInv, [Next]_vars PROVE CodeInv'
    OBVIOUS
  <2>2. CASE StartDecode \/ DecodeTail \/ DecodeSink \/ DecodeHead \/ Decoded
    BY <2>1, <2>2, PipelineAssumption, CodeStep
  <2>3. CASE ~ Decoding'
    BY <2>3 DEF CodeInv
  <2>4. CASE UNCHANGED vars
    BY <2>1, <2>4 DEF vars, called, CodeInv, Decoding, Sink, Tail
  <2> QED BY <2>1, <2>2, <2>3, <2>4, NotDecoding
<1> QED BY <1>1, <1>2, StoreInvariance, PTL DEF Spec

\* Whatever has been encoded in between, a kept stream restores its volume or,
\* if a stage fails, is reported, for pipelines of any number of stages whose
\* tail filters are plain.
THEOREM StreamsRestore ==
    ASSUME PlainTails
    PROVE  Spec => []SelfContained
<1>1. Init => RestoredInv
  BY DEF Init, RestoredInv, Decoding
<1>2. StoreInv /\ CodeInv /\ RestoredInv /\ [Next]_vars => RestoredInv'
  <2>1. SUFFICES ASSUME StoreInv, CodeInv, RestoredInv, [Next]_vars PROVE RestoredInv'
    OBVIOUS
  <2>2. CASE StartDecode \/ DecodeTail \/ DecodeSink \/ DecodeHead \/ Decoded
    BY <2>1, <2>2, PipelineAssumption, RestoredStep
  <2>3. CASE ~ Decoding'
    BY <2>3 DEF RestoredInv
  <2>4. CASE UNCHANGED vars
    BY <2>1, <2>4 DEF vars, called, RestoredInv, Decoding, Original
  <2> QED BY <2>1, <2>2, <2>3, <2>4, NotDecoding
<1>3. StoreInv /\ CodeInv /\ RestoredInv => SelfContained
  <2>1. SUFFICES ASSUME StoreInv, CodeInv, RestoredInv, pc = "decoded", dec.lost = 0
                 PROVE  \/ dec.good /\ dec.value = 0
                        \/ Faults /\ Failed /\ dec.value # 0
    BY DEF SelfContained
  <2>2. Decoding
    BY <2>1 DEF Decoding
  <2>3. CASE dec.errs = NoErrors
    BY <2>1, <2>2, <2>3 DEF RestoredInv, CodeInv, NoErrors, SinkCode, HeadCode
  <2>4. CASE dec.errs # NoErrors
    <3>1. Faults /\ Failed
      BY <2>1, <2>2, <2>4 DEF RestoredInv, Failed
    <3>2. HeadCode(dec.errs.head) \in Nat
      BY <2>1 DEF StoreInv, ReadInv, Errors, HeadCode
    <3>3. dec.value # 0
      BY <2>1, <3>1, <3>2, PipelineAssumption, CodesAddUp DEF NoErrorHidden
    <3> QED BY <3>1, <3>3
  <2> QED BY <2>3, <2>4
<1> QED BY <1>1, <1>2, <1>3, StoreInvariance, CodeInvariance, PTL DEF Spec

\* When a stage has failed decode returns 0 in one case only: a quantiser that
\* is the last stage misses exactly the items its code of ten and that of the
\* head filters make up for.  Nothing is assumed of the losses.
THEOREM FailuresShow == Spec => []NoErrorHidden
<1>1. StoreInv /\ CodeInv => NoErrorHidden
  BY PipelineAssumption, CodesAddUp
<1> QED BY <1>1, StoreInvariance, CodeInvariance, PTL
=============================================================================
