# TLA+ models of sqeazy

sqeazy compresses stacks of microscopy images. A *pipeline* is built from a string such as
`rmestbkrd->frame_shuffle->quantiser->lz4`; it applies filters to a volume, hands the result to a
sink, writes a text header in front and is rebuilt from that header to decode. This directory holds
TLA+ models of that code, the configurations TLC checks them with, and proofs for the TLA+ proof
system. Source paths below are relative to `src/src/cpp/src/`.

    tlc -workers 2 -config StageChain.cfg MCStageChain     # a run
    tlapm Filters_proof.tla                                # the proofs of a component

`PROJECT.json` lists the runs, which definition stands for which lines of the source, the
hazards of the code with the properties that cover them, mutants of the models (plausible bugs,
each of which violates a property), and the theorems.

## 1. Inventory

| component | state | operations | talks to | what is hard | what makes it correct |
|---|---|---|---|---|---|
| **Stage chain** `dynamic_stage_chain.hpp`, `dynamic_stage.hpp` | vector of filters; two buffers that change roles | `encode` (own temporary / scratchpad), `decode` | calls every stage; called by the pipeline for its head and tail | parity of the chain, who owns which buffer, stages that fail, sizes that shrink | no stage reads and writes one buffer, the caller's input survives, the result is in the caller's buffer, 0 only for a restored volume |
| **LZ4 sink** `encoders/lz4.hpp`, `lz4_utils.hpp` | chunk size, threads, slots of the output, sizes per chunk | `max_encoded_size`, `encode_serial`, `encode_parallel`, `remove_blanks`, `decode` | LZ4F (external), OpenMP | threads in one buffer without locks, compaction in place, chunks that fail, rounding | disjoint slots, the stream of the serial encoder, nothing lost |
| **Dynamic pipeline** `dynamic_pipeline.hpp` | head chain, sink, tail chain, header | `from_string`, `encode`, `decode`, `max_encoded_size` | the chains, the sink, the header | configuration learned while encoding, a header that grows, errors that are added up, decoding in another process | stays inside the buffer, a stream decodes on its own, codes that are added up hide no error, but in one case |
| **Header** `sqeazy_header.hpp`, `header_*.hpp`, `image_stack.hpp` | text of shape, type, pipeline, size | `pack`, parse | pipeline, C interface | padding, size of itself | says where the payload begins |
| **Quantiser sink** `encoders/quantiser_*.hpp` | histogram over all volumes, importance, two tables | histogram, weights, linear mapping, Lloyd buckets, encode, decode, table to string or file | histogram, pipeline configuration | loops with several exits over running sums, state kept between volumes, codes of signed type | representatives in their buckets, order kept, few levels exact, as far as codes are indices of the table |
| **Histogram and algorithms** `encoders/histogram_utils.hpp`, `hist_impl.hpp`, `sqeazy_algorithms.hpp` | bins, copies per thread, derived figures; sums of shares | filling (serial, team), statistics, quantiles, `prefix_sum(_of)` | quantiser, background removal, tile shuffle, z-curve, `scan` | data races, shares that do not divide, barriers, 32-bit products | bins count the image, figures fit them, team = serial |
| **Block reordering** `encoders/{raster_reorder,frame_shuffle,tile_shuffle,zcurve_reorder}_*`, `morton.hpp` | tiles, `decode_map`, one shared output iterator | encode/decode, full and with remainder, with SSE; the map to and from the header | prefix sums, pipeline configuration, OpenMP | tiles cut by a face, equal metrics found by two threads at once, an iterator all threads share | encode is a permutation, decode its inverse; every tile is taken once |
| **Bit planes** `encoders/bit*`, `sse_utils.hpp`, `scalar_utils.hpp` | none | `bitswap1` encode (SSE or scalar), decode (scalar) | OpenMP | shares of two threads that meet inside a word, lengths that fill no word or register, SSE written and scalar read | a plane is the transposition of the items, decode its inverse |
| **Neighbourhood filters** `encoders/{diff,remove_*,flatten_*}`, `background_scheme_utils.hpp`, `neighborhood_utils.hpp` | thresholds from histograms, offsets of the rows without halo | `diff` encode/decode, three background filters | histogram, OpenMP | axes numbered x, y, z here and d, h, w there; a decoder that reads what it writes; fixed-width differences; thin volumes | differences are undone; the threshold comes off every item once; no access beside the volume |
| **Factory and parser** `dynamic_stage_factory.hpp`, `string_parsers.hpp`, `base64.hpp` | the stages built | text -> stages, `name()` -> text, verbatim fields | pipeline, header | binary tables inside a text, separators inside a field, unknown names, texts that end early | the text a header carries rebuilds the stages with what they had learned |
| **C interface, HDF5** `sqeazy.cpp`, `hdf5_utils.hpp`, `inc/sqeazy_h5_filter.hpp` | files, groups, datasets, links; buffers of the caller | encode, decode, queries; write (plain, filtered, compressed), read, link; the filter HDF5 calls back | pipeline, HDF5 (external) | calls of several steps that fail half way, names through links and links to links, exceptions across C | what a write that returned 0 wrote is read back; a failed call loses nothing else |
| **Video sinks** `encoders/h264*`, `hevc*`, `ffmpeg_*`, `video_*` | codec contexts, delayed frames, the planes of a frame | encode loop, flush loop, decode loop, flush | ffmpeg (external) | frames that come out late or at the flush only, a codec that fails, 16 bits in 8 | every frame once, in order; voxels exact where eight bits suffice; failures reported |
| **Command line** `sqy.cpp`, `verbs/*`, `tiff_utils.hpp`, `yuv_utils.hpp` | files; what a loop over files keeps (stream, buffer, value) | compress, decompress, bench, convert, compare, diff, scan | pipeline, TIFF, HDF5, y4m/yuv | a file of several that is missing or damaged, tables of another volume beside a target, names that collide | a tif that comes from a volume has its voxels |

The rest - `huffman_utils.hpp` (used by tests only), `pass_through_scheme_impl.hpp` and the lists of stages,
`compass.hpp` (third party), benchmarks and the generated Java bindings - has no behaviour worth a model.

How a call runs: the C interface builds a pipeline; `encode` writes a header, starts the head chain
(each filter from buffer to buffer), hands the result to the sink, runs the tail chain over the
sink's bytes, writes the header again with what the stages have learned and moves the payload.
The only concurrency is inside a stage, in OpenMP regions; a call uses one thread outside of them.

## 2. Plan

Order: what can destroy a volume silently comes first, then what all volumes pass, then the filters, then what is around them.

1. `FilterChain` / `StageChain`, `Lz4Chunks`, `DynamicPipeline`, `Quantiser`, `PrefixSum`, `Histogram` - done, with proofs.
2. `TileGrid` / `Reorder`: raster, frame, tile and z-curve shuffles; the promise is "decode undoes encode" - done.
3. `Kernels`: bit planes, differences and background removal with the halo arithmetic - done.
4. `PipelineText` / `Interface`: factory, parser and header as functions over sequences of tokens, and the C and HDF5 interface around them - done.
5. `Video`: encode, flush and decode around a codec that delays frames - done, with proofs.
6. `Y4m` / `CommandLine`: the verbs and the files they leave for each other - done.
7. Proofs. Done: `StageChain`, `Lz4Chunks`, `DynamicPipeline`, `Quantiser`, `PrefixSum`, `Histogram`, `Reorder`, `Kernels`, `Video`, `CommandLine`, all their safety properties; `NothingLost` and `ReadBack` of `Interface`.
   Left: `Rebuilt` of `Interface`, which needs what a printed text is parsed to.

Every module declares its parameters as CONSTANTS with a named assumption, has one action per
operation or loop iteration that others can see, and uses no RECURSIVE operator.

## 3. Modules

### StageChain (refines FilterChain)
`FilterChain` knows the volume only by how many filters have been applied to it: encode applies all of
them or throws, decode undoes them and returns 0 only if it undid all of them. `StageChain` is the code: buffers
`in`, `out`, `scratch`/`temp`, `restored`; a buffer holds the volume after *k* stages or junk. `EncodeWithTemp` and
`EncodeWithScratchpad` are the two overloads up to their loop, `EncodeStage`/`RejectStage` an iteration, `SwapPointers` lines 319-322,
`FinishEncode` the copy back for an even number of stages, `DecodeStage`/`FailDecodeStage`/`FinishDecode` the way back. A stage in
`Compressing` writes fewer items than the shape has, which matters because decode copies as many items as
the encoded buffer has. `ImplementsFilterChain` maps the buffers to the volume (`INSTANCE FilterChain WITH`).

### Lz4Chunks
Sizes and threads are numbers, a cell of the output is `<<c, k>>`: byte *k* of the piece of chunk *c*. `SerialChunk` is an iteration of
`encode_serial`; `Fork`, `StartChunk`, `FinishChunk`, `FailChunk`, `Join` the team of `encode_parallel`; `MovePiece` an iteration of `remove_blanks`;
`ParallelReturns` compares what they add up to with the total (an `int`, which wraps at `IntHalf`) and returns `nullptr` if it is another number. `StartDecode` hands the stream,
or its first `given` bytes, to `lz4_scheme::decode`; `DecodePiece`, `DecodeCutPiece`, `DecodeReturns` are its loop. `Capacity` is what `max_encoded_size` tells the caller.
`DecodeAccounts` says what may be missing from a decoded volume, to the byte: the chunks a thread has given up on, and what lies behind a cut.

### DynamicPipeline
Bytes are counted. `HeaderSize` grows with the configuration of the stages and the digits of the size and is rounded as
`header::pack` does. `StartEncode` writes the first header, `EncodeHead`, `CopyHead`, `EncodeSink`, `EncodeTail` are the
phases of `detail_encode`, `UpdateHeader` the rest of `encode` (second header, move of the payload). Stages `Learn` their configuration
from the volume at hand. Streams are kept with that configuration and decoded at any later time, also after a
`Restart`, with lost bytes. `DecodeTail`, `DecodeSink`, `DecodeHead` add up the codes as `detail_decode` does: a chain of filters, head or tail, runs to its end, and each filter that
fails adds a code for its position; the sink's code comes with 10, the head's with 100. `errs` keeps what the parts returned, so that `NoErrorHidden` can say when a sum of errors is 0.
A tail has any number of filters; one that is `shaped` looks at the shape it is given, which differs between encode and decode.

### Quantiser
A volume is its histogram: a stage that codes item by item looks at nothing else. `Setup` is `setup_com`, `LinearMap`/`LinearEnd` and
`NextBucket`/`FillBucket`/`LloydEnd` the two loops one iteration at a time, `Publish` the end of `encode`, with the table in
the configuration or in the file `decode_lut_path`, `Decode` `applyLUT`. `histo` is never reset, as in the code. Importance is
a `float` in the code and an integer here, the same up to 2^24. `signed` says that codes are `char`, as in the pipelines, and `char` is signed: a code from the upper half is a negative index then and
decodes to whatever lies in front of the table (`InTable`, `Decode`). The quantiser of a stage is made with one thread and is never told another number (`quantiser_scheme_impl.hpp:94`), so its histogram is filled serially.

### PrefixSum
The input is given by the sums that should come out (`wanted`), so no recursive sum is needed to state the property.
`Single`, `Scan`, `Store`, `Offset`, `Shift` are the phases of a thread, `AllPast` a barrier. The region has no `num_threads` clause, so
the number of threads (`nworkers`) has nothing to do with the number requested, and the runtime may divide the items (`share`) in any ordered way.

### Histogram
`FillFromImage`, `AddFromImage`, `FillStats`, `Clear`, `CalcSupport` are the calls; `CountSerial` or `CountPixel`/`Counted`/`Merge`/`Merged` what
`fill_histogram` does with one thread or several, `DeriveStats` and `Probe`/`Take`/`ModeFound` what `fill_stats` does. `clones` are the copies of the bins that the
threads count in, `histo` what they are copied from. Two ghosts: `tally` is what the images contained, `weighed` the same with every image as often as it is in the bins -
a team that adds an image brings a copy of the bins per thread, and all are added (`Repeats`). Quantiles and the median are fractions, `Modulus` the width of `CounterT`. One bin
is merged by one thread only, so its inner loop is one step. `RunAway`: a share
that begins behind the end of the image has a loop `chunk_begin != chunk_end` that never meets its end; what follows is
undefined, and the model stops the process there.

### Reorder (over TileGrid)
`TileGrid` is the arithmetic of the four filters: how options become tile sizes, which path a shape takes, where a tile lies, the Morton
index. `Reorder` runs a job: encode, write what the stage learned to the header, `ReadHeader`, decode. What is stored is the position a cell had in the input, so a
volume that came back is the identity. Every parallel loop hands its iterations to a team in OpenMP's static schedule
(`Owner`); an iteration is a step (`Collect`, `RankTile`, `StoreTile`, `RasterRest`, `DecodeRow`, ...) unless threads share something inside it:
`FindTile`/`TakeTile` split the search for a tile from the critical section that marks it, `Aim`/`Shoot` the shared iterator of
`encode_full_simd`. The metric of tiles is any assignment of `Levels`, equal values included. `stray` records an access outside a buffer,
`beyond` the cells that the median loop of `tile_shuffle` with a remainder reads behind the size of a tile that the volume cuts (`Judged`, `CollectEnds`): it counts to `tile_size`^3 in every tile.

### Kernels
The filters that rewrite items in a loop: a job encodes with one team and decodes with another. `Iterations` and `Share` are the loop and its
division, `Updates` the items one iteration touches; `Write` is an update of what nobody else reads, `Load`/`Store` its two halves where the loop
reads its own output (words of a bit plane; rows of `diff` when decoding). `GatherMsb`/`Collected` say what the SSE path of `bitswap1` gathers, `Offsets`,
`HaloSize` and `NonHalo` are the halo arithmetic with the axes as the code numbers them, `Neighbours` what a sum reads, from coordinates (`Centre`) that
are as wide as an item, as the sum is. `Throw` is `reserve` refusing a negative size; `Leave` is an access beside the volume, `StartOutside` one before the loop: a
face of `rmestbkrd` that is not there, or a third offset where `rmbkrd_neighbor` has one (`NoThirdOffset`). The specification is called
`KernelSpec` because one module proves things about it and about `Quantiser`.

### Interface (over PipelineText)
A text is a sequence of tokens; `PipelineText` splits it (`InformedSplitImpl`, with verbatim fields), builds stages with the factories and the
options each stage reads (`FromString`, `CanBeBuiltFrom`), and prints them (`Name`), tables of items of one or two bytes through base64 (`FastEncode`, `Decode64`; the map of the frame shuffle, of `size_t` in the code, has two here). `Interface` encodes and decodes with
nothing but that text (`PipelineEncode`, `SQY_Decode`), and models the `SQY_h5` calls a step per call into the library: `StartWrite`, `Open`, `EnterGroup`, `EnterDataset`,
`WriteData`, and `StartLink`, `CreateExternal`. Reading changes nothing and is an operator (`SQY_h5_read_UI16`, the queries). `FilterEncode`/`FilterDecode` are the callback
of the filter, `FilterFails` the case that its stages give up; encode may return `nullptr` (`works`). `Target` follows links through files. Two ghosts: `kept` is what the writes that returned 0 should have left,
`linked` the links that were made; one that was reported with 0 and not made is not among them.

### Video
`EncodeFrame` is an iteration of the loop over frames, `EncodeDelayed` one of the flush, `ReadPacket` and `FlushPacket` the same of the decoder. The codec is external: at every
call it takes a frame and returns the oldest one it holds or none, never holding more than `Delay`, or fails. `RangeToYuv420`/`Yuv420ToRange` are the planes with
the minimum of each block; `H264Options`/`HevcOptions` decide whether the codec is lossless, and a lossy one takes the luminance away (`Blurred`).

### CommandLine (over Y4m)
`disk` maps names to contents and is all that one command leaves for the next. `Main` starts a command, `CompressFile`, `BenchFile`, `DecompressFile`, `ConvertFiles`, `CompareFiles`,
`DiffFile`, `ScanFile` are one iteration of the verb's loop with every early return, `continue` and uncaught exception of it (`Crash`); `process` is what the loop keeps from
file to file. `Y4m` writes and reads video files byte by byte: the order of bytes, tables of values, `FRAME` lines and the tests that guess what kind of file one is.
`of` in a content is a ghost, the volume it came from, and `rough` another one: values beyond the codes that are not negative are lost. `Quantised`/`Dequantised` are the quantiser for no more values than
buckets; a code in `Negative` reads `Memory`, what may lie in front of the table. A dataset of bytes is always skipped (`ReadH5`): it is read as `signed char`, which matches none. A stream carries the stack it restores: what is inside is the other modules' business.
The specification is called `SqySpec`, because the proofs extend `CommandLine` and `Video` together.

## 4. Runs

| run | states | shows |
|---|---|---|
| `StageChain` | 337 | chains of 1, 4, 5 filters (both parities, and one), stages 2 and 3 compress, three calls: buffers never collide, result delivered, 0 only for restored volumes, refinement of `FilterChain` |
| `Lz4Chunks` | 23 027 | 1-7 bytes, three or four chunks, 1-3 threads, any piece size, chunks that fail, a sum of sizes that overflows, a stream cut off anywhere: slots, compaction, order, what is missing, return |
| `DynamicPipeline` | 891 030 | five kinds of pipelines, two volumes of 2 or 11 items, decoding in any order, 0, 1 or 10 lost bytes, every combination of failing stages, restarts |
| `Quantiser` | 347 700 | two volumes over five values, with a peak inside or at the upper end, in three levels, signed and unsigned codes, three weightings, table in stream or file |
| `PrefixSum` | 27 300 | 0-3 items, 1-3 threads, every division, every interleaving |
| `Histogram` | 438 939 | two images of 1-3 pixels with three values, one or three threads, two quantiles |
| `Reorder` | 32 369 | fourteen volumes that take every path of the four filters, every metric of three values, one or two threads |
| `Kernels` | 37 552 | 28 jobs on volumes of 4-81 items, whole and incomplete words, teams of 1-5, SSE and scalar, thin and thick, axes up to and beyond what a coordinate counts |
| `Interface` | 1 416 302 | three calls over two files and one that is not HDF5, plain, filtered and compressed writes, malformed texts, stages that give up, links |
| `Video` | 1 045 | three frames of 8 or 16 bits, both sinks, lossless and lossy, a codec that holds back up to two frames and may fail |
| `Verbs` | 207 241 | four of forty-three commands over three volumes, damaged and missing files, colliding names, crashes, values behind the last code that is not negative |

`DynamicPipeline_grown_header` ends in a violation: a stage that learns more than one header's worth of configuration
(`frame_shuffle` prints its map) makes encode write behind a buffer of `max_encoded_size` bytes, which a comment in
`dynamic_pipeline.hpp` calls sufficient (quoted under `findings`). It is the only run that ends in one; the other disagreements are in section 6, with the definition that shows each of them.

**Bounds.** Chains of five stages see both parities and two swaps beyond the first. Seven bytes in three chunks gives a
remainder, a fourth chunk, and threads with 1, 2 and no chunk of their own. Two volumes are what it takes to see
configuration, histograms and files of one volume meet another. Three
threads are the least for which one thread has a predecessor and a successor, and for which a share may begin behind the end of an image. Pixels, values and
sizes are small because the code compares and adds them, and every boundary of the comparisons (first, last, equal, one more) occurs.
`Reorder` has tiles of 2 and 3 cells and shapes that cut them on no, some and every axis; five tiles and three values give two and three tiles of equal metric. `Kernels` scales items to
four bits and registers to two items: a word, the planes and a register keep their ratios, and shapes lie on both sides of every comparison in the halo arithmetic.
The quantiser of `Quantiser` has three codes, one of them negative if they are signed; `FirstNegative` = 6 gives `Verbs` a volume with just as many values as
codes that are not negative and one with a value more, and `Memory` either zeros or numbers that look like voxels. Ten lost items are what hides behind the 10 of the sink's code, hence
11 items in `DynamicPipeline`.
Three HDF5 calls are what it takes to fail a write, link to it and write again; a file system of two HDF5 files in different directories makes
relative links differ. Four commands are compress, overwrite something, decompress, convert. `Video` needs three frames for a codec that holds two.
The bounds on counters (`Volumes`, `Calls`, `MaxCommands`) are reached, which is why `DynamicPipeline`, `Interface` and `Verbs` do not check for deadlock; all
other runs do.

**Fairness.** Calls are sequential code: weak fairness of the caller says that a call that can go on does.
In OpenMP regions every thread of the team has weak fairness: the runtime starts all of them and the system schedules them; barriers wait for all.
No fairness is assumed of a new call, a failure or a restart. `DynamicPipeline`, `Kernels`, `Interface`, `Video` and `CommandLine` have no liveness property and no fairness: their
loops count up to a number known before. `FillReturns` excludes images for
which a share begins behind the end; `JobEnds` covers the search for a free tile, the one loop of the reordering filters whose end depends on other threads.

## 5. Proofs

TLAPS proves, for every value of the constants that satisfies the assumptions named:

| module | theorem | assumption | property |
|---|---|---|---|
| `Filters_proof` | `TypeCorrect`, `BuffersNeverCollide`, `ResultDelivered` | `ChainAssumption`, `HasScratchpad`, `SizesAgree`: the last stage does not compress | `TypeOK`, `BuffersDistinct`, `ResultInOut` |
| | `DecodeHonest`, `Refinement` | the same | `SuccessMeansRestored`, `ImplementsFilterChain` |
| | `EveryTileOnce`, `VolumesComeBack`, `NothingOutside` | `ReorderAssumption` | `TilesTakenOnce`, `Restored`, `InBuffers` |
| `Lz4Chunks_proof` | `TypeCorrect`, `ThreadsNeedNoLock`, `CompactionLosesNothing`, `SameStreamAsSerial` | `Lz4Assumption` | `TypeOK`, `SlotsDisjoint`, `CompactionSafe`, `StreamInOrder` |
| | `EveryByteAccounted` | + `FullTeam`: OpenMP starts the threads asked for | `DecodeAccounts` |
| `DynamicPipeline_proof` | `TypeCorrect`, `EncodeStaysInside`, `HeaderMakesRoom` | `PipelineAssumption`, `TailAssumption`, `HeaderFits` | `TypeOK`, `WithinBuffer`, `Framed` |
| | `StreamsRestore` | `PipelineAssumption`, `TailAssumption`, `PlainTails`: tails follow the quantiser and ignore the shape | `SelfContained` |
| | `FailuresShow` | `PipelineAssumption`, `TailAssumption` | `NoErrorHidden` |
| `ItemStages_proof` | `PlanesAndRowsRight` | `KernelsAssumption`: no extent is below half of a neighbourhood | `KernelsRight` |
| | `TypeCorrect`, `BucketsRepresentative`, `FewLevelsLossless`, `OrderPreserved` | `QuantiserAssumption`: codes of either signedness | `TypeOK`, `Representative`, `Lossless`, `OrderKept` |
| `Algorithms_proof` | `TypeCorrect`, `BarriersSuffice`, `ParallelIsSerial` | `PrefixSumAssumption` | `TypeOK`, `SumsAwaited`, `SameAsSerial` |
| | `HistogramExact` | `HistogramAssumption`: teams that add images included | `CountsExact` |
| | `HistogramSummary`, `HistogramSupport` | + `NoWrap`: no sum of the images reaches the width of a counter | `Summary`, `SupportRight` |
| `Video_proof` | `FramesComeBack` | `FramesAssumption` | `VideoRestored` |
| | `VolumesKept` | `CommandsAssumption` (at most 256 values in a stack, one bucket each; codes from `FirstNegative` on decode to anything), `FrameAssumption` | `TiffsKept` |
| `Interface_proof` | `CallsLoseNothing` | `InterfaceAssumption` | `NothingLost` |
| | `FilesReadBack` | + `TextsRebuild`: the texts print to texts that build the same stages (a part of `Rebuilt`, which the run checks) | `ReadBack` |
| | `TablesSurvive` | items of one or two bytes | none: tables in texts |
| `Sums` | lemmas about least elements, sums over finite sets and cardinalities that the others cite | | |

The properties are not inductive; each proof module defines an inductive invariant (`IInv`; `ChainInv` and `FilterInv` in `Filters_proof`), one conjunct per phase:

- *StageChain*: which buffer a stage reads and writes follows from the parity of the stages done; that buffer holds exactly
  that many stages; on decode the buffer read holds what is left to undo, unless a stage failed and the code is positive.
- *Lz4Chunks*: while the team works every written slot holds its whole piece and only slots of a thread's own run
  are written (`ThreadsInv`, `ParallelInv`); during compaction the first *i* pieces are seamless and end at or before
  slot *i*, and the slots from *i* on are intact (`CompactInv`). Slots are disjoint because runs of chunks are, which is arithmetic over rounding up.
  For `DecodeAccounts`, every chunk of a thread's share is done, under way or before it (`WorkInv`), and what has been decoded is the sum of the inputs of the pieces passed,
  and of a part of the one that is cut (`SumInv`); the shares of a full team cover the chunks and the chunks the input, so what is not decoded was given up or lies behind the cut.
- *DynamicPipeline*: where the payload is and how far the buffer has been written, phase by phase. `HeaderFits` says
  that the configuration stages add fits next to the longest payload: it is the condition the code needs and does not check,
  and the run `DynamicPipeline_grown_header` shows what happens without it. For the streams: what the stages know while encoding is what
  the header says when the stream is kept (`LearnInv`, `StreamsInv`), so decode teaches the stages what encode used (`ReadInv`, `RestoredInv`), and
  the value is the sum of what the parts returned (`CodeInv`). The only negative code is that of a quantiser without a tail, minus the items that are missing, so the sum is 0 in spite of an
  error only if exactly 10 and the code of the head are missing (`CodesAddUp`). Nothing is assumed about which stages fail or how much is lost.
- *Quantiser*: as long as at most `Levels` values have importance, the codes given so far are one to one and the
  representatives of these codes are the values (linear mapping), and a value without importance has code 0, that of the lowest level (`LeastInv`); tables of kept streams belong to their volumes.
  With signed codes half as many levels are indices of the table (`Room`): a level's code is below the number of levels, hence below the sign bit.
  For any number of levels, the codes given so far increase with the values, the bucket that is being filled is not empty once its
  sum is not 0, and its centre of mass, rounded, lies between two values with its code (`Within`, `Balanced`, `LloydInv`); that survives
  in the tables of every stream (`StreamOrder`).
- *Kernels* (`KernelsInv`): what each phase has left, and where every thread of a team is (`LoopInv`). The shares of a static schedule, in pieces of equal size or in chunks, divide
  the loop: every iteration not passed belongs to one thread, and when all are at their ends all items are written. A value that a thread has read and not written yet
  is still the value to write as long as no other thread writes that item (`Alone`), and a word that no share cuts belongs to one thread.
  - *bit planes*: the bits of the iterations passed are in their words (`ScalarInv`, `PlanesInv`), whatever the buffer held before. A word is the sum of its bits with their weights, which
    is what `Transposed` and the sum of what `GatherMsb` takes from shifted registers both come to; a number is known by its bits, and `SetBits` changes one of them.
  - *differences*: the neighbours `diff` looks at lie in the frame before, so before the item. What one thread has decoded so far is the volume again (`SumsInv`), the neighbours of the
    next item are passed or in no row, and in both cases what encode summed. Rows may overlap, as their axes are mixed up: an item that is passed twice gets the same value.
  - *beside the volume*: for the shapes of `Roomy` a row begins and ends far enough from both ends of the volume although its axes are mixed up
    (`DiffInside`, `CubeInside`). The conditions of `Roomy` are those the inequalities need.
- *PrefixSum*: a thread that has scanned to `k` holds the sum since its share began; a stored `suma[u + 1]` is the sum of share *u*;
  shares are disjoint, so nobody disturbs another's items; the offset a thread adds is the wanted sum at the start of its share.
- *Histogram*: the copy of a thread holds what was in the bins and what the thread has counted of its share (`TeamInv`), the shares partition the image, and a merged bin holds its old count and those of
  all copies: one old count per thread and one of its own, and every pixel once (`BinsInv`). These are the images weighed, and with one thread or one image the images (`WeighedInv`). `best` is a count that some bin passed has had, and 0 only while every bin passed is empty
  (`ModeInv`): threads that overwrite each other's maximum still leave a populated bin. The figures are functions of the bins at the last
  `fill_stats` (`StatsInv`, `AnswerInv`). Without `NoWrap` the moment is taken modulo the width of a counter and the mean may leave the range.
- *Reorder*: between the place a search starts from and the tile it stops at, every tile is taken (`Parked`), and every place of the sorted metric is still
  to be searched for, searched for by one thread, or found (`SearchInv`). A tile behind which nothing is free would take more searches that start at it or behind it than there are tiles
  from it on; but the places of the sorted metric are a permutation of the tiles and a search starts at the first tile with the metric of its place, so there are at most as many.
  Hence no search leaves the vector, for any metric, team and interleaving, whatever cells the metric was computed from; those behind the size of a cut tile are
  within the cells the tile was given at first (`BeyondInv`). Stored once each, the tiles are disjoint boxes of the volume: the prefix
  sums of their sizes stay inside the encoded volume. That the volume comes back rests on where cells are, and on what a loop has done:
  - *where*: a cell is stored at the begin of its tile plus its place inside of the tile (`Offset`). The tiles before a tile and a tile fill an
    interval (`Begin`), a row-major or z-curve place in a box is one to one and inside (`Spot`, the latter by splitting coordinates into
    digits of base 2), so `Offset` is one to one on the volume and never outside. Each formula the code has for it, on the paths for complete tiles,
    for SSE registers and for cut tiles, in the encoder and in the decoder, is shown to compute `Offset` for the volumes of `Handled`.
  - *what*: the iterations done have left their frames, registers, chunks or tiles at their places, whichever threads did them
    (`BoxInv` for raster and z-curve, `ChunkInv` for frames, `TileInv` for tiles); an iteration writes no place of another, because places are one to one.
    Where `std::find` alone places tiles, different metrics make its answers a permutation; with cut tiles, `ReorderInv` does for any metric.
- *Video*: what the codec holds is the slice of the frames that follows what it has given out, in the encoder and in the decoder; the
  slices of the packets and of the frames restored are prefixes of the volume.
- *CommandLine*: every file that matters to a later command holds what its volume has: tif, stream and dataset the stack itself, y4m and yuv its bytes, or the
  places of its values with the table beside it; one marked rough agrees with the stack in the values that have a code that is not negative (`FilesInv`); every write of every verb keeps that, and a command that crashes has written nothing or a file of no volume.
  What is read back is what was written: frames of the same length one behind the other are found again by their `FRAME` lines, because no byte is one, and from place to place
  without them (`LuminanceRestores`, `GrayRestores`); a value is at the place in the table that the number of smaller values says, and this number is its code (`QuantisedIs`).
- *Interface*: items lie in groups that are there, a file that is not there has none, and links carry names (`DiskInv`); a call at work has made sure that
  its file is there, then of the group, then that its name is a dataset or leads to one (`CallInv`). Links are followed by a walk of as many hops as
  there are links; that it stays among places in files, and stays where a dataset is, gives what the write can change: only the dataset it leads to.
  For `ReadBack`, `RInv` says what a call has in its hands (`WorkInv`), that the filter of a dataset has its width and a text somebody encoded or filtered with (`DataInv`), that a
  link that was made is where it was put (`LinkInv`), and that a dataset that should hold a volume has its shape and gives it when it is read (`KeptInv`). A relative
  name made for a link leads from one file to the other (`RelativeLeads`, over the fold that follows it component by component), so the walk along the links that were
  made and the one the library takes are the same (`LeadsThere`).
  `TablesSurvive` is about the part of a text that carries binary data: groups of three bytes are four letters and back (`GroupEncodes`, `Sextets`), the
  padding of the last group is what `DecodedBytes` takes off (`Padding`), and no letter is the closing mark, so the code between the marks is found whole (`BetweenMarks`).

The induction theorems of the library take an operator as a parameter, which the installed provers cannot instantiate. `Sums` does without them:
a least counterexample is a member of a set, and what a sum over a set is follows from the sets for which it is not.

Only model-checked: every liveness property (`CallsEnd`, both `EncodeReturns`, `SumReturns`, `FillReturns`, `JobEnds`; fairness and ENABLED are outside the
prover), and `Rebuilt` of `Interface`: it evaluates the printer and the parser on texts, which for all texts would be an induction over data. `FilesReadBack` takes of it what it needs as its hypothesis;
that the tables in the texts survive base64 is proved for tables of every length (`TablesSurvive`).

## 6. Where the code does something else

These were met while modelling. What a doc or a test says, and the code does not do, is a definition of its own where it can be stated (`NoChunkLost`, `SuccessMeansComplete`, `ErrorsReported`,
`ImagesAdd`, `ModeIsMaximum`, `AlwaysRestored`): TLC refutes it when it is put into a configuration. Beside it stands the property that is true of the code and is checked. The other cases
are outside the configurations checked, and the properties say so (`Handled`, `Roomy`, `CutWords`, `Exact`, `Sound`).

- *Stage chain*: a null scratchpad, which the comment in `dynamic_stage_chain.hpp:278` allows, makes the second of several stages
  write through `nullptr` (319-322). A last stage that compresses makes decode copy too few items (381-383).
- *LZ4*: a chunk that fails in a thread is left out and the pointer returned as if all were there (`lz4_utils.hpp:258`), where the interface says that after an error `nullptr` is returned (`dynamic_stage.hpp:126`): `NoChunkLost` fails,
  `StreamInOrder` and `DecodeAccounts` say what is left. decode returns 0 for any part of a volume (`lz4.hpp:335`): with a stream that is cut off `SuccessMeansComplete` fails; `inc/sqeazy.h:271` promises 0 for success only. Work is divided by the number of threads requested (221-227); if OpenMP starts fewer (dynamic
  adjustment, a thread limit), the chunks of those missing are left out. `Lz4Chunks` models it with `FullTeam = FALSE`, under which
  `DecodeAccounts` fails; the other properties are proved for that case as well. `n_chunks_of_input = n` gives n + 1 chunks when
  n does not divide the size (`lz4.hpp:149`).
- *Pipeline*: the code of the sink enters the result as `err_code + 10` (`dynamic_pipeline.hpp:822`) and the quantiser returns
  minus the number of missing items: with ten missing ones, or ten more than the code of the head filters, decode returns 0. `ErrorsReported` fails; `NoErrorHidden` says that this is the
  only way to hide an error. The intermediate buffer of decode has the size of the volume (800). If the sink
  returns `nullptr`, encode computes with it (599). A tail filter that looks at the shape is given that of the volume to encode and one row to decode
  (786): for a tail that is `shaped` `SelfContained` does not hold (`PlainTails`).
- *Quantiser*: codes are `char` by default and index the table, so codes in the upper half are negative indices (`quantiser_utils.hpp:39`): a volume of more than 128 levels comes back with whatever lies in front of the table.
  The model leaves that value open; `Lossless` speaks of as many levels as have codes that are not negative (`Room`) and `OrderKept` of those codes. `offset_power_of` gives the smallest value the weight 0, so it comes back as the
  next one, which `Lossless` says, and a constant volume, without any importance, as what the table happens to hold. A file `decode_lut_path` holds the table of the last volume only.
- *Histogram*: threads copy the bins before they count and all copies are added afterwards, so a team that adds to bins that are not
  empty multiplies them: `ImagesAdd`, what `tests/test_hist_impl.cpp:460-465` expects, fails with two threads, and `CountsExact` says by how much. `quantiser::computeHistogram` does it from its second volume on
  if it has several threads, which the one of a pipeline has not. The figures of such bins are left out (`Sound`). `max_element_distance` compares outside its critical section only,
  and a smaller bin may win (`histogram_utils.hpp:397`): `ModeIsMaximum`, as its comment has it (352), fails with three threads, and `Summary` says that a populated bin is left. `bins[m] * m` wraps around in 32 bits (`hist_impl.hpp:377`; a small `Modulus`). `calc_support` after `add_from_image` looks at the range of
  the last `fill_stats`. The parallel loop of `unnormalized_variation` drops one factor of the square (`histogram_utils.hpp:345`). `mean` with several threads
  declares `_begin` private, hence uninitialised (`sqeazy_algorithms.hpp:201`). `median_index` adds up in `int`.
- *Block reordering* (`Handled` excludes these; `AlwaysRestored` is what the round trip tests ask of every volume, and fails): threads of the SSE raster encoder race for one output iterator
  (`raster_reorder_utils.hpp:203`, `MCRaceJobs`), and it loses cells when a tile is wider than a register. An axis that tiles divide beside one they do not divide gets a last tile
  of extent 0 (290-296). The z-curve writes and reads outside the volume for flat shapes such as 1 x 5 x 5 (`zcurve_reorder_utils.hpp:72-97`) and uses one bit of the
  index for tile sizes it does not list. Frames or tiles with one metric are stored once and found twice (`frame_shuffle_utils.hpp:141`, `tile_shuffle_utils.hpp:203`). A volume with less than one chunk
  of frames prints an empty `reorder_map=`, which the parser cannot read back. The median of a cut tile is computed over a complete one: it reads behind the size of a vector that was resized before (`tile_shuffle_utils.hpp:291`, 319-321), though not behind its
  capacity, and ranks the tile by what was there. `InBuffers` allows these reads (`beyond`) and no others; which order of tiles comes out does not matter to `Restored`.
- *Bit planes and neighbourhoods* (`CutWords`, `Restores`, `Roomy`): two threads whose shares meet inside a word of a bit plane may lose each other's bits (four items, two
  threads). `diff` decoded by two threads damages a volume of 3 x 4 x 3, and reads in front of one with two rows or with a single frame; a height of 1 makes
  `reserve` throw. `naive_sum` keeps coordinates in signed numbers as wide as an item (`diff_scheme_utils.hpp:76-85`): on 8-bit data a frame or row behind the 128th is looked for in front of
  the volume. `rmbkrd_neighbor` reads a third offset where there is only one (`flatten_to_neighborhood_scheme_impl.hpp:95`). It reads behind a volume whose width is not less than its depth - even a cube, by one item - and leaves items below the threshold and the halo unwritten, where a
  comment says they are set to 0 (`flatten_to_neighborhood_scheme_impl.hpp:21`, 130-132). `rmestbkrd` with one frame reads outside. `diff` of data without three axes returns the untouched beginning of the output from encode (`diff_scheme_impl.hpp:84`) and reads
  `shape[2]` on decode. The SSE loads want an input aligned to 16 bytes. `bitshuffle` takes any code of its library but 0 for success, negative ones included
  (`bitshuffle_scheme_impl.hpp:83`).
- *Text*: two verbatim options of one stage, or a text that ends in `(`, are ranges that end before they begin. Names that are in no factory are skipped, and the pipeline is shorter
  than its text. `hevc` with an empty text prints `,threads=1`, and the pipeline rebuilt from that loses `lossless=1` (`hevc.hpp:70-73`).
- *C interface and HDF5*: exceptions leave `extern "C"` functions (`sqeazy.cpp:72-142`). `H5Lcreate_external`'s result is ignored (`hdf5_utils.hpp:466`): a link under a name that is taken is reported with 0 and not made (`CreateExternal`), where `inc/sqeazy.h:443` promises 0 for success; what the name stands for is what it stood for (`NothingLost`). And `SQY_h5_link` uses a null `file_` for a
  file that is not HDF5 (461). A filtered write that failed leaves its dataset, which every further try meets (950). A compressed buffer longer than its volume is copied into a temporary of the volume's size (755).
  `make_relative` counts components (`hdf5_utils.hpp:75-92`) and normalises nothing: a link from a path that has a `..` of its own leads elsewhere, and `Files` has no such names.
  The values of `SQY_h5_query_dtype` are documented the other way round. The filter has no 8-bit pipelines: 8-bit streams of the quantiser are not decoded by it (`sqeazy_h5_filter.hpp:89`).
  Products of extents are `int`.
- *Video*: packets the decoder fails for are passed over (`ffmpeg_video_encode_impl.hpp:377`), so frames may be missing under `SUCCESS`; `h264` copies its stream without looking at the room
  there is (`h264.hpp:188`). 16-bit volumes whose width is no multiple of four are refused.
- *Command line*: `decompress` skips every HDF5 file with a dataset of bytes, which it reads as `signed char` (`decompress.hpp:181`, `hdf5_utils.hpp:234`). `convert` and `decompress` give back at most 128 values of a quantised stack, `TiffsKept`
  speaks of those. `decompress` leaves a stream open when it skips a file (`decompress.hpp:92-115`) and never shrinks its buffer (222); `compress` to tif copies up to the end of its buffer, not of what was encoded
  (`compress.hpp:143`). `convert` takes whatever table lies beside the target (`convert.hpp:85`), and a y4m file whose size is a multiple of four for yuv (`yuv_utils.hpp:538`). A suffix `.tif`
  overwrites the input (`compress.hpp:264`), `bench` removes an `.h5` of that name (`bench.hpp:342`), a file that is not TIFF is used through a null handle (`tiff_utils.hpp:442`). The exit status is that of the last file.
  The help of `--frame_shape` shows width x height (`sqy.cpp:270`), the code reads height x width (`yuv_utils.hpp:631`).

## 7. Not modelled

- `huffman_utils.hpp` (a tree for a unit test), `pass_through_scheme_impl.hpp` and the lists of stages (a copy, no behaviour), `compass.hpp` (third party), the benchmarks
  and the generated Java bindings.
- The libraries LZ4F, ffmpeg, TIFF, HDF5 and bitshuffle are external: they do what the code relies on and fail where it expects failure.
- The instruction sequences of `sse_utils.hpp` are modelled by what they gather; the older SSE encoder there, which nothing calls, is not.
- Formatting of the JSON header, regular expressions, what verbs print (statistics, timings, help), floating point rounding, allocation failures, freeing of ffmpeg's structures.
- The copy of a pipeline that shares its stages with another one in a second thread: nothing in the repository does that.
- Error measures of two volumes (mse, psnr, mad), deviations and entropy of a histogram: floating point formulas without state. `adaptive_lloyd_max`, `extract_darkest_face` and the Morton decoder are called by tests or by nothing.
