-------------------------------- MODULE Reorder --------------------------------
(***************************************************************************)
(* The block reordering filters: raster_reorder, zcurve_reorder, tile_shuffle *)
(* and frame_shuffle.  A job encodes a volume, writes what the stage has      *)
(* learned to the header, reads it back, and decodes.  Every parallel loop    *)
(* hands its iterations to the threads of a team in a static schedule; what   *)
(* is stored is the position that a cell had in the input, so that the        *)
(* decoded volume must be the identity.                                       *)
(***************************************************************************)
EXTENDS TileGrid

CONSTANTS Jobs,         \* the jobs, see TileGrid
          Levels,       \* values of a metric: the mean or median of a tile
          DefaultTeam   \* threads OpenMP starts where num_threads is not given

ASSUME ReorderAssumption ==
    /\ \A j \in Jobs :
         /\ j.scheme \in {"raster_reorder", "zcurve_reorder", "tile_shuffle", "frame_shuffle"}
         /\ j.ts \in Nat \ {0} /\ j.threads \in Nat \ {0} /\ j.block \in Nat \ {0}
         /\ \A d \in Axes : j.shape[d] \in Nat \ {0}
    /\ Levels \subseteq Nat /\ Levels # {}
    /\ DefaultTeam \in Nat \ {0}

VARIABLES
    job, metric,
    phase,     \* the loop that runs
    todo,      \* its iterations that are left
    held,      \* per thread: the iteration and the index found for it
    map,       \* decode_map
    taken,     \* tile_written
    tiles,     \* the vector of tiles of tile_shuffle
    dst,       \* the output iterator all threads of encode_full_simd share
    mid,       \* the encoded volume
    stray,     \* something was written or read outside of a buffer
    beyond,    \* cells of tiles that the statistics read behind the tile's size
    out,       \* the decoded volume
    count,     \* write_count
    result

work == <<todo, held>>
rank == <<map, taken>>
vars == <<job, metric, beyond, phase, work, rank, tiles, dst, mid, stray, out, count, result>>

Junk == -1
Idle == <<>>

Shuffles(j) == j.scheme \in {"tile_shuffle", "frame_shuffle"}
N(j) == Product(j.shape)
IsPath(scheme, path) == job.scheme = scheme /\ Path(job) = path

\* Where the loops of raster_reorder and zcurve_reorder write and read every cell.
Raster == {j \in Jobs : j.scheme = "raster_reorder"}
Zcurve == {j \in Jobs : j.scheme = "zcurve_reorder"}

RasterDecodeOffset ==
    [j \in Raster |-> LET begins == RasterBegins(j)
                      IN  [p \in Cells(j.shape) |->
                             RasterOffset(j, begins, Coord(j.shape, p))]]
ZcurveDecodeOffset ==
    [j \in Zcurve |-> LET begins == ZcurveBegins(j)
                      IN  [p \in Cells(j.shape) |->
                             ZcurveOffset(j, begins, Coord(j.shape, p))]]
RasterEncodeOffset ==
    [j \in Raster |->
        IF Path(j) = "remainder" THEN RasterDecodeOffset[j]
        ELSE [p \in Cells(j.shape) |->
                IF Path(j) = "simd" THEN RasterSimdOffset(j, Coord(j.shape, p))
                                    ELSE RasterFullOffset(j, Coord(j.shape, p))]]
ZcurveEncodeOffset ==
    [j \in Zcurve |->
        IF Path(j) = "remainder" THEN ZcurveDecodeOffset[j]
        ELSE [p \in Cells(j.shape) |-> ZcurveFullOffset(j, Coord(j.shape, p))]]

\* raster_reorder copies of every row of a tile what the extent of the tile says.
Copied ==
    [j \in Raster |->
        {p \in Cells(j.shape) :
            LET c == Coord(j.shape, p)
            IN  Inside(j, c)[3] < RasterExtent(j, TileOf(j, c))[3]}]

\* tile_shuffle: the sizes of the tiles, and for every cell its place in a tile.
TileJobs == {j \in Jobs : j.scheme = "tile_shuffle"}
SizeOf  == [j \in TileJobs |->
              [k \in Tiles(j) |-> Product(CutAtFace(j, Coord(TilesPerDim(j), k)))]]
PlaceOf ==
    [j \in TileJobs |->
        [p \in Cells(j.shape) |->
            LET c == Coord(j.shape, p)
                k == TileOf(j, c)
            IN  <<Linear(TilesPerDim(j), k), RowMajor(CutAtFace(j, k), Inside(j, c))>>]]

FrameChunk(j) == j.ts * j.shape[2] * j.shape[3]

\* How many chunks of frames are sorted: all of them, or without the last one.
FullChunks(j) == j.shape[1] \div j.ts
RestChunks(j) == CeilDiv(j.shape[1], j.ts) - 1
FrameChunks(j) == IF FrameRemainder(j) THEN RestChunks(j) ELSE FullChunks(j)

\* The length of the metric and of decode_map.
Sorted(j) == CASE j.scheme = "tile_shuffle"  -> Cardinality(Tiles(j))
               [] j.scheme = "frame_shuffle" -> FrameChunks(j)
               [] OTHER -> 0

\* The i-th value of the sorted metric, and where std::find meets it first.
NthSmallest(m, i) ==
    CHOOSE v \in {m[k] : k \in DOMAIN m} :
        /\ Cardinality({k \in DOMAIN m : m[k] < v}) <= i
        /\ i < Cardinality({k \in DOMAIN m : m[k] <= v})
FindFirst(m, i) == Min({k \in DOMAIN m : m[k] = NthSmallest(m, i)})

FirstPhase(j) == CASE j.scheme = "tile_shuffle"  -> "collect"
                   [] j.scheme = "frame_shuffle" -> "rank"
                   [] OTHER                      -> "store"

\* Iterations of the loop of a phase: frames, tiles, registers or rows.
Registers(j) == {p \in Cells(j.shape) : p % j.block = 0}
Units(j, ph) ==
    CASE ph = "rank" \/ (ph = "store" /\ Shuffles(j)) -> 0 .. Sorted(j) - 1
      [] ph = "store" /\ Path(j) = "simd"             -> Registers(j)
      [] ph = "decode" /\ j.scheme = "raster_reorder" ->
             0 .. j.shape[1] * j.shape[2] - 1
      [] ph = "decode" /\ j.scheme = "frame_shuffle"  -> 0 .. Sorted(j) - 1
      [] ph = "decode" /\ j.scheme = "tile_shuffle"   -> {0}
      [] OTHER                                        -> 0 .. j.shape[1] - 1

\* The threads of a loop: raster_reorder does not hand the number to
\* encode_with_remainder, the shuffles not to decode, zcurve not to OpenMP.
Team(j, ph) ==
    CASE j.scheme = "zcurve_reorder" -> DefaultTeam
      [] ph = "decode" /\ Shuffles(j) -> 1
      [] ph = "store" /\ j.scheme = "raster_reorder" /\ Path(j) = "remainder" -> 1
      [] ph # "decode" /\ Shuffles(j) -> j.threads
      [] OTHER -> Min({j.threads, j.shape[1]})

\* schedule(static, chunk), or one chunk per thread where no chunk is given.
Chunk(j, ph) ==
    CASE ph = "store" /\ Path(j) = "simd" -> j.ts * j.shape[2] * j.shape[3]
      [] ph = "store" /\ j.scheme = "raster_reorder" /\ Path(j) # "simd" -> j.ts
      [] ph = "store" /\ j.scheme = "zcurve_reorder" /\ Path(j) = "full" ->
             CeilDiv(j.shape[1], Min({j.threads, j.shape[1]}))
      [] OTHER -> Max({1, CeilDiv(Cardinality(Units(j, ph)), Team(j, ph))})
Owner(j, ph, u) == (u \div Chunk(j, ph)) % Team(j, ph)

Threads == 0 .. Max({DefaultTeam} \cup {j.threads : j \in Jobs}) - 1
Turn(t, u) ==
    LET mine == {v \in todo : Owner(job, phase, v) = t}
    IN  /\ held[t] = Idle
        /\ mine # {} /\ u = Min(mine)

Init ==
    /\ job \in Jobs
    /\ metric \in [0 .. Sorted(job) - 1 -> Levels]
    /\ phase = FirstPhase(job)
    /\ todo = Units(job, phase)
    /\ held = [t \in Threads |-> Idle]
    /\ map = [i \in 0 .. Sorted(job) - 1 |-> Junk]
    /\ taken = {}
    /\ tiles = IF job.scheme = "tile_shuffle"
                 THEN [k \in Tiles(job) |-> [o \in 0 .. Product(Full(job)) - 1 |-> Junk]]
                 ELSE <<>>
    /\ dst = 0
    /\ mid = [o \in Cells(job.shape) |-> Junk]
    /\ stray = FALSE
    /\ beyond = {}
    /\ out = [p \in Cells(job.shape) |-> Junk]
    /\ count = 0
    /\ result = "none"

\* Buffer b after copying src[a] to a + shift for every a in from; what falls
\* outside of b is a stray write.
Copy(b, from, shift, src) ==
    [a \in DOMAIN b |-> IF a - shift \in from THEN src[a - shift] ELSE b[a]]
Outside(b, from, shift) == \E a \in from : a + shift \notin DOMAIN b

-----------------------------------------------------------------------------
(* tile_shuffle: cut the volume into tiles, one frame per iteration *)

Frame(z) == LET size == job.shape[2] * job.shape[3]
            IN  z * size .. (z + 1) * size - 1

Collect(t, z) ==
    /\ phase = "collect" /\ Turn(t, z)
    /\ tiles' = [k \in Tiles(job) |->
         LET frame == {p \in Frame(z) : PlaceOf[job][p][1] = k}
         IN  [o \in DOMAIN tiles[k] |->
                IF \E p \in frame : PlaceOf[job][p][2] = o
                  THEN CHOOSE p \in frame : PlaceOf[job][p][2] = o
                  ELSE tiles[k][o]]]
    /\ todo' = todo \ {z}
    /\ UNCHANGED <<job, metric, beyond, phase, held, rank, dst, mid, stray, out, count, result>>

CollectFull(t, z) == Path(job) = "full" /\ Collect(t, z)
CollectCut(t, z)  == Path(job) = "remainder" /\ Collect(t, z)

-----------------------------------------------------------------------------
(* sort by the metric *)

\* The i-th place gets the first tile or chunk that has the i-th smallest
\* metric, with its cells source[k].
Rank(t, i, size, source) ==
    /\ phase = "rank" /\ Turn(t, i)
    /\ LET k == FindFirst(metric, i)
       IN  /\ map' = [map EXCEPT ![i] = k]
           /\ mid' = Copy(mid, 0 .. size - 1, i * size, source[k])
           /\ stray' = (stray \/ Outside(mid, 0 .. size - 1, i * size))
    /\ todo' = todo \ {i}
    /\ UNCHANGED <<job, metric, beyond, phase, held, taken, tiles, dst, out, count, result>>

InputChunks == [k \in DOMAIN metric |-> [o \in 0 .. FrameChunk(job) - 1 |-> k * FrameChunk(job) + o]]
RankFull(t, i) == /\ IsPath("frame_shuffle", "full")
                  /\ Rank(t, i, FrameChunk(job), InputChunks)
RankRest(t, i) == /\ IsPath("frame_shuffle", "remainder")
                  /\ Rank(t, i, FrameChunk(job), InputChunks)

RankTile(t, i) == /\ IsPath("tile_shuffle", "full")
                  /\ Rank(t, i, Product(Full(job)), tiles)

\* tile_shuffle with a remainder: find the first tile with the metric ...
FindTile(t, i) ==
    /\ phase = "rank" /\ IsPath("tile_shuffle", "remainder") /\ Turn(t, i)
    /\ held' = [held EXCEPT ![t] = <<i, FindFirst(metric, i)>>]
    /\ todo' = todo \ {i}
    /\ UNCHANGED <<job, metric, beyond, phase, rank, tiles, dst, mid, stray, out, count, result>>

\* Mutant of TakeTile: the flag is read before the critical section.
TakeTileRace(t) ==
    /\ phase = "rank" /\ held[t] # Idle
    /\ map' = [map EXCEPT ![held[t][1]] = held[t][2]]
    /\ taken' = taken \cup {held[t][2]}
    /\ held' = [held EXCEPT ![t] = Idle]
    /\ UNCHANGED <<job, metric, beyond, phase, todo, tiles, dst, mid, stray, out, count, result>>

\* Mutant of TakeTile: original_index is not increased.
TakeTileStuck(t) ==
    /\ phase = "rank" /\ held[t] # Idle
    /\ IF held[t][2] \in taken THEN UNCHANGED vars
       ELSE /\ map' = [map EXCEPT ![held[t][1]] = held[t][2]]
            /\ taken' = taken \cup {held[t][2]}
            /\ held' = [held EXCEPT ![t] = Idle]
            /\ UNCHANGED <<job, metric, beyond, phase, todo, tiles, dst, mid, stray,
                           out, count, result>>

\* ... and in the critical section go on to a tile that nobody has taken: the
\* loop has no other end.
TakeTile(t) ==
    /\ phase = "rank" /\ held[t] # Idle
    /\ LET i == held[t][1]
           free == {k \in Tiles(job) : k >= held[t][2] /\ k \notin taken}
       IN  /\ stray' = (stray \/ free = {})
           /\ map' = [map EXCEPT ![i] = IF free = {} THEN Junk ELSE Min(free)]
           /\ taken' = IF free = {} THEN taken ELSE taken \cup {Min(free)}
    /\ held' = [held EXCEPT ![t] = Idle]
    /\ UNCHANGED <<job, metric, beyond, phase, todo, tiles, dst, mid, out, count, result>>

-----------------------------------------------------------------------------
(* write the encoded volume *)

\* Mutant of Before: the sum over the tiles as they were.
BeforeUnsorted(j, m, i) == MapThenSumSet(LAMBDA l : SizeOf[j][l], 0 .. i - 1)

\* The sizes of the sorted tiles before the i-th, from prefix_sum_of.
Before(j, m, i) ==
    LET size == [l \in DOMAIN m |-> SizeOf[j][m[l]]]
    IN  MapThenSumSet(LAMBDA l : size[l], 0 .. i - 1)

StoreTile(t, i) ==
    /\ phase = "store" /\ job.scheme = "tile_shuffle" /\ Turn(t, i)
    /\ LET k == map[i]
           from == 0 .. SizeOf[job][k] - 1
           begin == Before(job, map, i)
       IN  /\ mid' = Copy(mid, from, begin, tiles[k])
           /\ stray' = (stray \/ Outside(mid, from, begin))
    /\ todo' = todo \ {i}
    /\ UNCHANGED <<job, metric, beyond, phase, held, rank, tiles, dst, out, count, result>>

\* The cells of a frame in the order of the loop: of two cells with one offset
\* the second one stays.
StoreFrame(t, z, cells, off) ==
    /\ phase = "store" /\ Turn(t, z)
    /\ mid' = [o \in DOMAIN mid |-> IF \E p \in cells : off[p] = o
                                      THEN Max({p \in cells : off[p] = o})
                                      ELSE mid[o]]
    /\ stray' = (stray \/ \E p \in cells : off[p] \notin DOMAIN mid)
    /\ todo' = todo \ {z}
    /\ UNCHANGED <<job, metric, beyond, phase, held, rank, tiles, dst, out, count, result>>

RasterFull(t, z) ==
    /\ IsPath("raster_reorder", "full")
    /\ StoreFrame(t, z, Frame(z), RasterEncodeOffset[job])
RasterRest(t, z) ==
    /\ IsPath("raster_reorder", "remainder")
    /\ StoreFrame(t, z, Frame(z) \cap Copied[job], RasterEncodeOffset[job])
ZcurveFull(t, z) ==
    /\ IsPath("zcurve_reorder", "full")
    /\ StoreFrame(t, z, Frame(z), ZcurveEncodeOffset[job])
ZcurveRest(t, z) ==
    /\ IsPath("zcurve_reorder", "remainder")
    /\ StoreFrame(t, z, Frame(z), ZcurveEncodeOffset[job])

\* encode_full_simd: a thread sets the iterator that all threads share ...
Aim(t, p) ==
    /\ phase = "store" /\ IsPath("raster_reorder", "simd") /\ Turn(t, p)
    /\ dst' = RasterEncodeOffset[job][p]
    /\ held' = [held EXCEPT ![t] = <<p, RasterEncodeOffset[job][p]>>]
    /\ todo' = todo \ {p}
    /\ UNCHANGED <<job, metric, beyond, phase, rank, tiles, mid, stray, out, count, result>>

\* ... and copies a register to where it points, or, where the compiler kept the
\* value it had assigned, to where it pointed.
Shoot(t) ==
    /\ phase = "store" /\ held[t] # Idle
    /\ \E at \in {dst, held[t][2]} :
         LET cells == [o \in 0 .. job.block - 1 |-> held[t][1] + o]
         IN  /\ mid' = Copy(mid, 0 .. job.block - 1, at, cells)
             /\ stray' = (stray \/ Outside(mid, 0 .. job.block - 1, at))
             /\ dst' = at + job.block
    /\ held' = [held EXCEPT ![t] = Idle]
    /\ UNCHANGED <<job, metric, beyond, phase, todo, rank, tiles, out, count, result>>

-----------------------------------------------------------------------------
(* the ends of the loops *)

LoopEnds(ph) == phase = ph /\ todo = {} /\ \A t \in Threads : held[t] = Idle

Enter(ph) == phase' = ph /\ todo' = Units(job, ph)

\* The cells of a tile that enter its metric: all of them on the full path; with
\* a remainder the median loop counts to tile_size^3 in every tile, though a tile
\* at the face of the volume has been resized to what is cut for it.
Judged(k) == IF Path(job) = "full" THEN 0 .. SizeOf[job][k] - 1
                                   ELSE 0 .. Product(Full(job)) - 1

\* The loop of the statistics: the metric itself is any value.
CollectEnds ==
    /\ LoopEnds("collect") /\ Enter("rank")
    /\ beyond' = {r \in Tiles(job) \X Cells(Full(job)) :
                    r[2] \in Judged(r[1]) /\ r[2] >= SizeOf[job][r[1]]}
    /\ UNCHANGED <<job, metric, held, rank, tiles, dst, mid, stray, out, count, result>>

\* frame_shuffle copies the frames that are left behind the sorted ones.
Rest(j) == Sorted(j) * FrameChunk(j) .. N(j) - 1
RankEnds ==
    /\ LoopEnds("rank")
    /\ IF IsPath("tile_shuffle", "remainder") THEN Enter("store") /\ mid' = mid
       ELSE /\ phase' = "header" /\ todo' = {}
            /\ mid' = IF IsPath("frame_shuffle", "remainder")
                        THEN Copy(mid, Rest(job), 0, [p \in Rest(job) |-> p]) ELSE mid
    /\ UNCHANGED <<job, metric, beyond, held, rank, tiles, dst, stray, out, count, result>>

StoreEnds ==
    /\ LoopEnds("store")
    /\ phase' = "header"
    /\ UNCHANGED <<job, metric, beyond, work, rank, tiles, dst, mid, stray, out, count, result>>

\* The stage that decodes is made from tile_size and reorder_map of the header.
\* The shuffles write reorder_map=<verbatim>...</verbatim>, and just
\* reorder_map= when decode_map is empty.  minors takes the key for the value
\* of an option without one, and verbatim_yields_n_items_of gets a range that
\* ends before it begins: the vector cannot be allocated.
Unreadable(j) == Shuffles(j) /\ Sorted(j) = 0

ReadHeader ==
    /\ phase = "header" /\ ~Unreadable(job)
    /\ Enter("decode")
    /\ tiles' = IF job.scheme = "tile_shuffle"
                  THEN [k \in Tiles(job) |-> [o \in 0 .. SizeOf[job][k] - 1 |-> Junk]]
                  ELSE tiles
    /\ UNCHANGED <<job, metric, beyond, held, rank, dst, mid, stray, out, count, result>>

HeaderUnreadable ==
    /\ phase = "header" /\ Unreadable(job)
    /\ phase' = "done" /\ result' = "exception"
    /\ UNCHANGED <<job, metric, beyond, work, rank, tiles, dst, mid, stray, out, count>>

-----------------------------------------------------------------------------
(* decode *)

\* A missing tile or an offset behind the volume yields no cell of the input.
Read(o) == IF o \in DOMAIN mid THEN mid[o] ELSE Junk

\* The cells of part get what is at their offset, the others of them a leftover.
Gather(part, copied, off) ==
    /\ out' = [p \in DOMAIN out |-> CASE p \in copied -> Read(off[p])
                                      [] p \in part \ copied -> Junk
                                      [] OTHER -> out[p]]
    /\ stray' = (stray \/ \E p \in copied : off[p] \notin DOMAIN mid)

\* raster_reorder collects the pieces of a row in a buffer, and adds its length to
\* write_count in a critical section.
DecodeRow(t, u) ==
    /\ phase = "decode" /\ job.scheme = "raster_reorder" /\ Turn(t, u)
    /\ LET row == u * job.shape[3] .. (u + 1) * job.shape[3] - 1
       IN  Gather(row, row \cap Copied[job], RasterDecodeOffset[job])
    /\ count' = count + job.shape[3]
    /\ todo' = todo \ {u}
    /\ UNCHANGED <<job, metric, beyond, phase, held, rank, tiles, dst, mid, result>>

DecodeFrame(t, z) ==
    /\ phase = "decode" /\ job.scheme = "zcurve_reorder" /\ Turn(t, z)
    /\ Gather(Frame(z), Frame(z), ZcurveDecodeOffset[job])
    /\ todo' = todo \ {z}
    /\ UNCHANGED <<job, metric, beyond, phase, held, rank, tiles, dst, mid, count, result>>

DecodeChunk(t, i) ==
    /\ phase = "decode" /\ job.scheme = "frame_shuffle" /\ Turn(t, i)
    /\ LET size == FrameChunk(job)
       IN  out' = Copy(out, 0 .. size - 1, map[i] * size,
                       [o \in 0 .. size - 1 |-> mid[i * size + o]])
    /\ todo' = todo \ {i}
    /\ UNCHANGED <<job, metric, beyond, phase, held, rank, tiles, dst, mid, stray, count, result>>

\* The encoded volume is cut into tiles again, and the tiles are written out.
DecodeTiles(t, u) ==
    /\ phase = "decode" /\ job.scheme = "tile_shuffle" /\ Turn(t, u)
    /\ LET place(k) == Max({i \in DOMAIN map : map[i] = k})
           filled == [k \in Tiles(job) |->
             [o \in DOMAIN tiles[k] |->
                IF \E i \in DOMAIN map : map[i] = k
                  THEN Read(Before(job, map, place(k)) + o) ELSE Junk]]
           cell(p) == filled[PlaceOf[job][p][1]][PlaceOf[job][p][2]]
       IN  /\ tiles' = filled
           /\ out' = [p \in DOMAIN out |-> cell(p)]
    /\ todo' = todo \ {u}
    /\ UNCHANGED <<job, metric, beyond, phase, held, rank, dst, mid, stray, count, result>>

\* How far the returned iterator is: decode of the stage compares it with the
\* size of the volume.
RasterReturns == IF count = N(job) THEN N(job) ELSE 0
FrameReturns  == IF FrameRemainder(job) THEN N(job) ELSE Sorted(job) * FrameChunk(job)
Verdict(n) == IF n = N(job) THEN "success" ELSE "failure"

RasterDecoded == job.scheme = "raster_reorder" /\ result' = Verdict(RasterReturns)
                 /\ out' = out
ZcurveDecoded == job.scheme = "zcurve_reorder" /\ result' = Verdict(N(job))
                 /\ out' = out
TileDecoded   == job.scheme = "tile_shuffle" /\ result' = Verdict(N(job))
                 /\ out' = out
FrameDecoded  ==
    /\ job.scheme = "frame_shuffle" /\ result' = Verdict(FrameReturns)
    /\ out' = IF FrameRemainder(job) THEN Copy(out, Rest(job), 0, mid) ELSE out

DecodeEnds ==
    /\ LoopEnds("decode")
    /\ RasterDecoded \/ ZcurveDecoded \/ TileDecoded \/ FrameDecoded
    /\ phase' = "done"
    /\ UNCHANGED <<job, metric, beyond, work, rank, tiles, dst, mid, stray, count>>

-----------------------------------------------------------------------------

Thread(t) ==
    \/ \E u \in todo :
         \/ CollectFull(t, u) \/ CollectCut(t, u)
         \/ RankFull(t, u) \/ RankRest(t, u) \/ RankTile(t, u) \/ FindTile(t, u)
         \/ RasterFull(t, u) \/ RasterRest(t, u) \/ Aim(t, u)
         \/ ZcurveFull(t, u) \/ ZcurveRest(t, u) \/ StoreTile(t, u)
         \/ DecodeRow(t, u) \/ DecodeFrame(t, u) \/ DecodeChunk(t, u) \/ DecodeTiles(t, u)
    \/ TakeTile(t) \/ Shoot(t)

Caller == \/ CollectEnds \/ RankEnds \/ StoreEnds
          \/ ReadHeader \/ HeaderUnreadable \/ DecodeEnds

Finished == phase = "done" /\ UNCHANGED vars

Next == (\E t \in Threads : Thread(t)) \/ Caller \/ Finished

\* OpenMP runs every thread of a team, and the caller waits at the end of a loop.
Spec == Init /\ [][Next]_vars
        /\ (\A t \in Threads : WF_vars(Thread(t))) /\ WF_vars(Caller)

-----------------------------------------------------------------------------
(* properties *)

\* What the code handles: tiles that fill the volume in every direction or in
\* none (raster), registers as wide as a tile and one thread (raster, SSE),
\* z-curves for powers of two, whose path for complete tiles gets complete
\* tiles; tiles or frames with different metrics where std::find alone decides.
Handled(j, m) ==
    LET distinct == \A i, k \in DOMAIN m : m[i] = m[k] => i = k
    IN  CASE j.scheme = "raster_reorder" ->
               /\ (\A d \in Axes : Whole(j, d)) \/ (\A d \in Axes : ~Whole(j, d))
               /\ Path(j) = "simd" => j.ts = j.block /\ Team(j, "store") = 1
          [] j.scheme = "zcurve_reorder" ->
               /\ Pow2[GroupBits(j.ts)] = j.ts
               /\ Path(j) = "full" => \A d \in Axes : Whole(j, d)
          [] j.scheme = "tile_shuffle"   -> Path(j) = "remainder" \/ distinct
          [] j.scheme = "frame_shuffle"  -> ~Unreadable(j) /\ distinct

\* Whatever the threads do in whatever order, a volume that the filter handles
\* comes back cell by cell, and decode says so: the encoder and the decoder
\* agree on where every cell is, and no thread overwrites what another wrote.
Restored ==
    (phase = "done" /\ Handled(job, metric)) =>
        /\ result = "success"
        /\ \A p \in Cells(job.shape) : out[p] = p

\* Nothing is read or written outside of the buffers (max_encoded_size of these
\* filters is the size of the volume), but for the statistics of tile_shuffle with
\* a remainder: they read behind the size of the tiles that are cut, never behind
\* the memory these tiles were given at first.
InBuffers ==
    Handled(job, metric) =>
        /\ ~stray
        /\ \A r \in beyond : /\ IsPath("tile_shuffle", "remainder")
                             /\ SizeOf[job][r[1]] <= r[2]
                             /\ r[2] < Product(Full(job))

\* tile_shuffle with a remainder: however equal the metrics and however the
\* threads interleave between find and the critical section, the search for a
\* free tile ends inside the vector, and every tile is stored exactly once.
TilesTakenOnce ==
    IsPath("tile_shuffle", "remainder") =>
        /\ ~stray
        /\ \A i, k \in DOMAIN map : map[i] = map[k] /\ map[i] # Junk => i = k

\* Encoding and decoding end: no loop of the filters waits for another one.
JobEnds == <>(phase = "done")

\* What the round trip tests of the filters ask of every volume.
AlwaysRestored ==
    phase = "done" => \A p \in Cells(job.shape) : out[p] = p
=============================================================================
