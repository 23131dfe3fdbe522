------------------------------- MODULE TileGrid -------------------------------
(***************************************************************************)
(* How the reordering filters cut a volume into tiles: raster_reorder and     *)
(* zcurve_reorder store one tile after the other, tile_shuffle and            *)
(* frame_shuffle sort tiles or frames by a metric.                            *)
(*                                                                         *)
(* A volume is its shape <<z, y, x>>; a cell is its position in memory.  A    *)
(* job j is [scheme, ts (tile_size or frame_chunk_size), shape, threads (the  *)
(* stage's n_threads_), block (cells in an SSE register)].                    *)
(***************************************************************************)
EXTENDS Integers, Sequences, FiniteSets, FiniteSetsExt, Folds

Axes == 1 .. 3    \* row_major::z, y, x
Product(v) == v[1] * v[2] * v[3]
CeilDiv(a, b) == (a + b - 1) \div b

Cells(s) == 0 .. Product(s) - 1
Coord(s, p) == <<p \div (s[2] * s[3]), (p \div s[3]) % s[2], p % s[3]>>

-----------------------------------------------------------------------------
(* the stages that options give: [ts |-> tile size or frame chunk size] *)

NotGiven == 0
RasterStage(option, block) == IF option = NotGiven THEN block ELSE option
ZcurveStage(option)        == IF option = NotGiven THEN 2 ELSE option
TileStage(option)          == IF option = NotGiven THEN 32 ELSE option
FrameStage(option)         == IF option = NotGiven THEN 1 ELSE option

-----------------------------------------------------------------------------
(* which path an encoder takes *)

Whole(j, d) == j.shape[d] % j.ts = 0
RasterRemainder(j) == \E d \in Axes : ~Whole(j, d)
TileRemainder(j)   == \E d \in Axes : ~Whole(j, d)
FrameRemainder(j)  == ~Whole(j, 1)

Pow2[e \in Nat] == IF e = 0 THEN 1 ELSE 2 * Pow2[e - 1]

\* 2^(floor of log2 of the shortest side): zcurve takes this for a common
\* divisor of the sides.
CommonPowerOf2(s) ==
    LET m == Min({s[d] : d \in Axes})
    IN  Max({Pow2[e] : e \in {k \in 0 .. m : Pow2[k] <= m}})
ZcurveRemainder(j) == \E d \in Axes : j.shape[d] % CommonPowerOf2(j.shape) # 0

RasterPath(j) == IF RasterRemainder(j) THEN "remainder"
                 ELSE IF j.ts % j.block = 0 THEN "simd" ELSE "full"
ZcurvePath(j) == IF ZcurveRemainder(j) THEN "remainder" ELSE "full"
TilePath(j)   == IF TileRemainder(j)   THEN "remainder" ELSE "full"
FramePath(j)  == IF FrameRemainder(j)  THEN "remainder" ELSE "full"

Path(j) == CASE j.scheme = "raster_reorder" -> RasterPath(j)
             [] j.scheme = "zcurve_reorder" -> ZcurvePath(j)
             [] j.scheme = "tile_shuffle"   -> TilePath(j)
             [] j.scheme = "frame_shuffle"  -> FramePath(j)

-----------------------------------------------------------------------------
(* tiles *)

TilesPerDim(j) == [d \in Axes |-> CeilDiv(j.shape[d], j.ts)]
FullTilesPerDim(j) == [d \in Axes |-> j.shape[d] \div j.ts]
Linear(n, t) == t[1] * n[3] * n[2] + t[2] * n[3] + t[3]
Tiles(j) == 0 .. Product(TilesPerDim(j)) - 1
TileOf(j, c) == [d \in Axes |-> c[d] \div j.ts]
Inside(j, c) == [d \in Axes |-> c[d] % j.ts]

CutNowhere(j, t) == [d \in Axes |-> j.ts]    \* mutant of CutAtFace

\* The extents of tile t: cut at the face of the volume.
CutAtFace(j, t) == [d \in Axes |-> Min({j.ts, j.shape[d] - t[d] * j.ts})]

Full(j) == <<j.ts, j.ts, j.ts>>

\* raster_reorder takes the remainder for the extent of the last tile, also
\* where the remainder is 0.
RasterExtent(j, t) ==
    IF RasterRemainder(j)
      THEN [d \in Axes |-> IF t[d] # TilesPerDim(j)[d] - 1
                             THEN j.ts ELSE j.shape[d] % j.ts]
      ELSE Full(j)

\* zcurve: generate_tile_shapes.
ZcurveExtent(j, t) == IF ZcurveRemainder(j) THEN CutAtFace(j, t) ELSE Full(j)

\* Where tile k begins, if the tiles have these sizes: the running sum of the
\* sizes before it.
TileBegins(j, size) ==
    [k \in 0 .. Product(j.shape) |->
        MapThenSumSet(LAMBDA i : size[i], (0 .. k - 1) \cap Tiles(j))]
RasterBegins(j) ==
    TileBegins(j, [i \in Tiles(j) |-> Product(RasterExtent(j, Coord(TilesPerDim(j), i)))])
ZcurveBegins(j) ==
    TileBegins(j, [i \in Tiles(j) |-> Product(ZcurveExtent(j, Coord(TilesPerDim(j), i)))])

\* Every third group of bw bits belongs to v.
Spread(bw, v) ==
    LET group == [g \in 0 .. v |->
                    ((v \div Pow2[bw * g]) % Pow2[bw]) * Pow2[3 * bw * g]]
    IN  MapThenSumSet(LAMBDA g : group[g], {g \in 0 .. v : Pow2[bw * g] <= v})

\* The constructor of zcurve knows the powers of two from 2 to 128.
GroupBits(ts) == IF \E b \in 1 .. 7 : Pow2[b] = ts
                   THEN CHOOSE b \in 1 .. 7 : Pow2[b] = ts ELSE 1

Morton(bw, c) ==
    Pow2[2 * bw] * Spread(bw, c[1]) + Pow2[bw] * Spread(bw, c[2]) + Spread(bw, c[3])

RowMajor(e, c) == c[1] * e[3] * e[2] + c[2] * e[3] + c[3]

-----------------------------------------------------------------------------
(* offsets in the encoded volume of the cell with coordinates c *)

RasterFullOffset(j, c) ==
    Linear(FullTilesPerDim(j), TileOf(j, c)) * Product(Full(j))
      + RowMajor(Full(j), Inside(j, c))

\* encode_full_simd leaves out where the register lies inside the row of a tile.
RasterSimdOffset(j, c) ==
    LET i == Inside(j, c)
    IN  Linear(FullTilesPerDim(j), TileOf(j, c)) * Product(Full(j))
          + RowMajor(Full(j), <<i[1], i[2], 0>>)

RasterOffset(j, begins, c) ==
    begins[Linear(TilesPerDim(j), TileOf(j, c))]
      + RowMajor(RasterExtent(j, TileOf(j, c)), Inside(j, c))

\* zcurve's encode_full divides the shape by the tile size and forgets the rest.
ZcurveFullOffset(j, c) ==
    Linear(FullTilesPerDim(j), TileOf(j, c)) * Product(Full(j))
      + Morton(GroupBits(j.ts), Inside(j, c))

ZcurveOffset(j, begins, c) ==
    LET e == ZcurveExtent(j, TileOf(j, c))
    IN  begins[Linear(TilesPerDim(j), TileOf(j, c))]
          + IF e = Full(j) THEN Morton(GroupBits(j.ts), Inside(j, c))
                           ELSE RowMajor(e, Inside(j, c))
=============================================================================
