------------------------------- MODULE Kernels -------------------------------
(***************************************************************************)
(* The filters that rewrite a volume item by item in a parallel loop:         *)
(* bitswap1, diff, remove_background, rmestbkrd and rmbkrd_neighbor.  A job   *)
(* encodes one volume with a team of threads and decodes it with another.     *)
(* The iterations of a loop are divided in advance; an iteration is a run of  *)
(* updates of one item each.  Where an update reads what the loop writes,     *)
(* reading and writing are two steps.                                         *)
(*                                                                         *)
(* Items have Width bits and registers Lanes items, both scaled down.  The    *)
(* threads of a team are numbered from 0, as omp_get_thread_num has them.     *)
(***************************************************************************)
EXTENDS Integers, Sequences, FiniteSets, FiniteSetsExt

CONSTANTS Jobs,    \* [scheme, shape = <<d, h, w>>, image, threads, readers, wide, level]
          Width,   \* bits of an item
          Lanes,   \* items of a SIMD register
          Extent,  \* of the neighbourhoods
          Stale    \* what an output buffer holds before it is written

Schemes == {"bitswap", "diff", "remove_background", "rmestbkrd", "rmbkrd_neighbor"}
WithHalo == {j \in Jobs : j.scheme \in {"diff", "rmbkrd_neighbor"}}

Size(j) == j.shape[1] * j.shape[2] * j.shape[3]
Items(j) == 0 .. Size(j) - 1
Values == 0 .. 2 ^ Width - 1

\* With an extent below half of a neighbourhood a loop over rows would run to the
\* end of size_t.
ASSUME KernelsAssumption ==
    /\ Width \in Nat \ {0} /\ Lanes \in 1 .. Width /\ Width % Lanes = 0
    /\ Extent \in Nat \ {0} /\ Stale \in Values
    /\ \A j \in Jobs : /\ j.scheme \in Schemes /\ j.wide \in BOOLEAN /\ j.level \in Nat
                       /\ j.threads \in Nat \ {0} /\ j.readers \in Nat \ {0}
                       /\ j.shape \in [1 .. 3 -> Nat \ {0}]
                       /\ j.image \in [Items(j) -> Values]
    /\ \A j \in WithHalo : \A a \in 1 .. 3 : j.shape[a] >= Extent \div 2

VARIABLES phase,     \* "idle", "encode", "decode", "decoded", "thrown" or "outside"
          job,
          level,  \* the threshold of the background filters
          in, out,
          mid,    \* the encoded volume
          next,   \* per thread: iteration and update in it that come next
          reg     \* per thread: a value computed and not yet written

kernelVars == <<phase, job, level, in, out, mid, next, reg>>

Nothing == -1
SumOf(f) == MapThenSumSet(LAMBDA x : f[x], DOMAIN f)

-----------------------------------------------------------------------------
(* bit planes *)

Planes == Width
Bit(v, b) == (v \div 2 ^ b) % 2
SetBits(word, bit, at) == word + (bit - Bit(word, at)) * 2 ^ at

MaxSize(j) == Size(j) - (Size(j) % Planes)
Segment(j) == MaxSize(j) \div Planes

\* Where the bit of a plane of the item with this index goes.
PlaneItem(j, index, plane) == (Planes - 1 - plane) * Segment(j) + index \div Planes
PlaneBit(index) == Width - 1 - (index % Planes)

ShiftLeft(v, bits) == (v * 2 ^ bits) % 2 ^ Width

\* The highest bits of the items of a register, the first item first.
GatherMsb(items) ==
    SumOf([e \in 1 .. Lanes |-> Bit(items[e], Width - 1) * 2 ^ (Lanes - e)])

\* One word of a segment, from as many registers as it takes.
Collected(seg, word) ==
    LET Register(l) == [e \in 1 .. Lanes |->
                          ShiftLeft(in[word * Width + l * Lanes + e - 1], seg)]
    IN  SumOf([l \in 0 .. (Width \div Lanes) - 1 |->
                 GatherMsb(Register(l)) * 2 ^ (Width - (l + 1) * Lanes)])

SseValidLength(n) == n % (Lanes * Width) = 0
UsesSse(j) == j.wide /\ SseValidLength(Size(j))

-----------------------------------------------------------------------------
(* neighbourhoods: axes 1, 2, 3 are x, y, z; the world is <<d, h, w>> and its *)
(* axes are numbered the other way round                                      *)

LastPlane == LET half == Extent \div 2
             IN  [begin |-> <<-half, -half, -1>>, end |-> <<half + 1, half + 1, 0>>]
Cube == LET half == Extent \div 2
        IN  [begin |-> <<-half, -half, -half>>,
             end |-> [a \in 1 .. 3 |-> half + (Extent % 2)]]
Neighborhood(j) == IF j.scheme = "diff" THEN LastPlane ELSE Cube

NumPixels(nb) == LET along(a) == nb.end[a] - nb.begin[a] IN along(1) * along(2) * along(3)

NonHaloBegin(j, a) == Max({0, -Neighborhood(j).begin[a]})
NonHaloEnd(j, a) ==
    LET end == Neighborhood(j).end[a] IN IF end > 0 THEN j.shape[a] - end + 1 ELSE j.shape[a]
NonHalo(j, a) == NonHaloEnd(j, a) - NonHaloBegin(j, a)

\* Computed modulo the width of length_type: negative is a huge number.
OffsetsRequired(j) ==
    LET factor(a) == IF NonHalo(j, a) = j.shape[a] THEN 1 ELSE NonHalo(j, a)
    IN  factor(3) * factor(2)

\* Where the rows that two nested loops come to start, the first of them being row 0.
RowCount(j) == IF NonHalo(j, 2) > 0 /\ NonHalo(j, 3) > 0 THEN NonHalo(j, 2) * NonHalo(j, 3) ELSE 0
RowStart(j, k) ==
    LET z == NonHaloBegin(j, 3) + (k \div NonHalo(j, 2))
        y == NonHaloBegin(j, 2) + (k % NonHalo(j, 2))
    IN  z * j.shape[2] * j.shape[3] + y * j.shape[3] + NonHaloBegin(j, 1)

\* Rows start one behind the other: those behind the volume, which are not taken, come last.
Offsets(j) ==
    IF OffsetsRequired(j) <= 1 THEN <<NonHaloBegin(j, 1)>>
    ELSE [k \in 1 .. Cardinality({r \in 0 .. RowCount(j) - 1 : RowStart(j, r) < Size(j)}) |->
            RowStart(j, k - 1)]

\* The number of items of a row that a loop goes through: a negative one wraps
\* around, and is more than there are items.
HaloSize(j) ==
    LET length == IF Len(Offsets(j)) = 1 THEN Size(j) - Offsets(j)[1]
                  ELSE IF j.scheme = "diff" THEN NonHalo(j, 1) ELSE NonHalo(j, 3) + 1
    IN  IF length < 0 THEN Size(j) + 1 ELSE length

Rows == [j \in WithHalo |-> [offsets |-> Offsets(j), length |-> HaloSize(j)]]

\* naive_sum keeps the coordinates of an item in signed numbers as wide as an item.
Coordinate(v) == ((v + 2 ^ (Width - 1)) % 2 ^ Width) - 2 ^ (Width - 1)
Centre(j, c) ==
    LET frame == j.shape[2] * j.shape[3]
        z == Coordinate(c \div frame)
        y == Coordinate((c - z * frame) \div j.shape[3])
    IN  IF j.scheme = "diff"
        THEN z * frame + y * j.shape[3] + Coordinate(c - z * frame - y * j.shape[3]) ELSE c

\* The items a neighbourhood takes in, by their place in memory only.
Neighbours(j, c) ==
    LET nb == Neighborhood(j)
        On(a) == nb.begin[a] .. nb.end[a] - 1
    IN  [q \in On(3) \X On(2) \X On(1) |->
           Centre(j, c) + q[1] * j.shape[2] * j.shape[3] + q[2] * j.shape[3] + q[3]]

\* A sum is as wide as an item, too.
NaiveSum(volume, c) ==
    LET at == Neighbours(job, c)
    IN  SumOf([q \in DOMAIN at |-> volume[at[q]]]) % 2 ^ Width

\* As it would be with the sum of what is already encoded.
DifferenceInPlace(c) == (in[c] - NaiveSum(out, c) \div NumPixels(LastPlane)) % 2 ^ Width

Difference(c) == (in[c] - NaiveSum(in, c) \div NumPixels(LastPlane)) % 2 ^ Width

Summed(c) == (in[c] + NaiveSum(out, c) \div NumPixels(LastPlane)) % 2 ^ Width

-----------------------------------------------------------------------------
(* background *)

\* Items below the threshold are passed over: nothing is written for them.
Below(c) == in[c] < level

\* cut_fraction: half of the neighbours.
Lonely(c) ==
    LET at == Neighbours(job, c)
        below == {q \in DOMAIN at : at[q] # c /\ in[at[q]] < level}
    IN  2 * Cardinality(below) > NumPixels(Cube) - 1

Reduced(v) == Max({0, v - level})

\* The faces a support is taken of: two with fixed z, and three rows of two with fixed y.
Faces(j) ==
    LET frame == j.shape[2] * j.shape[3]
        Face(z) == z * frame .. (z + 1) * frame - 1
        Rim(y) == UNION {z * frame + y * j.shape[3] .. z * frame + (y + 1) * j.shape[3] - 1 :
                            z \in {1, j.shape[1] \div 2, j.shape[1] - 2}}
    IN  <<Face(0), Face(j.shape[1] - 1), Rim(0), Rim(j.shape[2] - 1)>>

\* calc_support of a face is one of its values (see Histogram); the least one counts.
Estimates(j) ==
    LET values(f) == {j.image[c] : c \in Faces(j)[f]}
    IN  {Min({v[f] : f \in 1 .. 4}) : v \in values(1) \X values(2) \X values(3) \X values(4)}

-----------------------------------------------------------------------------
(* loops *)

ByPlanes == job.scheme = "bitswap"
ByRows == job.scheme \in {"diff", "rmbkrd_neighbor"}
Encodes == phase = "encode"

Iterations ==
    CASE ByPlanes /\ Encodes /\ ~UsesSse(job) -> MaxSize(job)
      [] ByPlanes /\ (~Encodes \/ UsesSse(job)) -> Planes
      [] ByRows   -> Len(Rows[job].offsets)
      [] OTHER    -> Size(job)
Updates ==
    CASE ByPlanes /\ Encodes /\ ~UsesSse(job) -> Planes
      [] ByPlanes /\ Encodes /\ UsesSse(job) -> Segment(job)
      [] ByPlanes /\ ~Encodes -> MaxSize(job)
      [] ByRows   -> Rows[job].length
      [] OTHER    -> 1

\* decode of bitswap does not hand its threads on; one thread takes one segment at least.
TeamSize(j, coding) ==
    CASE coding = "decode" -> IF j.scheme = "diff" THEN j.readers ELSE 1
      [] coding # "decode" /\ j.scheme = "bitswap" /\ UsesSse(j) -> Min({j.threads, Planes})
      [] OTHER -> j.threads

\* The iterations of a thread: [begin, end) of the static schedule, in pieces of
\* equal size up to one, or of the chunk size that remove_background asks for.
Share(j, coding, n, t) ==
    LET team == TeamSize(j, coding)
        begin(k) == IF j.scheme \in {"remove_background", "rmestbkrd"}
                    THEN Min({n, k * ((n + team - 1) \div team)})
                    ELSE k * (n \div team) + Min({k, n % team})
    IN  [begin |-> begin(t), end |-> begin(t + 1)]

Team == 0 .. TeamSize(job, phase) - 1
Finished(t) == next[t][1] = Share(job, phase, Iterations, t).end \/ Updates <= 0

Target(t) ==
    LET k == next[t][1]
        u == next[t][2]
    IN  CASE ByPlanes /\ Encodes /\ UsesSse(job) -> k * Segment(job) + u
          [] ByPlanes /\ Encodes /\ ~UsesSse(job) -> PlaneItem(job, k, u)
          [] ByPlanes /\ ~Encodes -> u
          [] ByRows   -> Rows[job].offsets[k + 1] + u
          [] OTHER    -> k

Touched(t) ==
    LET c == Target(t)
        at == Neighbours(job, c)
    IN  IF \/ job.scheme = "diff"
           \/ job.scheme = "rmbkrd_neighbor" /\ c \in Items(job) /\ ~Below(c)
        THEN {c} \cup {at[q] : q \in DOMAIN at}
        ELSE {c}

\* The value of the update; those of the first three read the output too.
Value(t) ==
    LET k == next[t][1]
        u == next[t][2]
        c == Target(t)
    IN  CASE ByPlanes /\ Encodes /\ ~UsesSse(job) ->
                 SetBits(out[c], Bit(in[k], u), PlaneBit(k))
          [] ByPlanes /\ ~Encodes ->
                 SetBits(out[c], Bit(in[PlaneItem(job, u, k)], PlaneBit(u)), k)
          [] job.scheme = "diff" /\ ~Encodes -> Summed(c)
          [] ByPlanes /\ Encodes /\ UsesSse(job) -> Collected(k, u)
          [] job.scheme = "diff" /\ Encodes -> Difference(c)
          [] job.scheme = "rmbkrd_neighbor" ->
                 IF Below(c) THEN out[c] ELSE IF Lonely(c) THEN 0 ELSE in[c]
          [] OTHER -> Reduced(in[c])

ReadsOutput == IF ByPlanes THEN ~(Encodes /\ UsesSse(job)) ELSE job.scheme = "diff" /\ ~Encodes

-----------------------------------------------------------------------------

KernelInit ==
    /\ phase = "idle"
    /\ job \in Jobs
    /\ level = Nothing
    /\ in = <<>> /\ out = <<>> /\ mid = <<>> /\ next = <<>> /\ reg = <<>>

\* What is copied in front of the loop: all of it, or what no plane takes.
Prepared(j, volume) ==
    [c \in Items(j) |->
        IF j.scheme = "diff" \/ (j.scheme = "bitswap" /\ c >= MaxSize(j)) THEN volume[c]
        ELSE Stale]

\* The length of the one row comes from an offset that is not there.
NoThirdOffset(j) ==
    /\ j.scheme = "rmbkrd_neighbor" /\ OffsetsRequired(j) >= 0
    /\ Len(Offsets(j)) = 1

\* The sizes of both loops are needed before the phase is entered.
Starts(j, coding) ==
    LET n == IF j.scheme = "bitswap" THEN IF coding = "encode" /\ ~UsesSse(j) THEN MaxSize(j)
                                          ELSE Planes
             ELSE IF j \in WithHalo THEN Len(Rows[j].offsets)
             ELSE Size(j)
    IN  /\ next' = [t \in 0 .. TeamSize(j, coding) - 1 |-> <<Share(j, coding, n, t).begin, 0>>]
        /\ reg' = [t \in 0 .. TeamSize(j, coding) - 1 |-> Nothing]

Encode(j) ==
    /\ phase = "idle"
    /\ j \in WithHalo => OffsetsRequired(j) >= 0
    /\ j.scheme = "rmestbkrd" => \A f \in 1 .. 4 : Faces(j)[f] \subseteq Items(j)
    /\ ~NoThirdOffset(j)
    /\ phase' = "encode"
    /\ job' = j
    /\ level' \in IF j.scheme = "rmestbkrd" THEN Estimates(j) ELSE {j.level}
    /\ in' = j.image
    /\ out' = Prepared(j, j.image)
    /\ mid' = <<>>
    /\ Starts(j, "encode")

\* reserve of the offsets throws length_error.
Throw(j) ==
    /\ phase = "idle"
    /\ j \in WithHalo /\ OffsetsRequired(j) < 0
    /\ phase' = "thrown"
    /\ job' = j
    /\ UNCHANGED <<level, in, out, mid, next, reg>>

\* The rows of a face lie in front of the volume or behind it; the third offset is
\* read where there is one.
StartOutside(j) ==
    /\ phase = "idle"
    /\ \/ j.scheme = "rmestbkrd" /\ \E f \in 1 .. 4 : ~(Faces(j)[f] \subseteq Items(j))
       \/ NoThirdOffset(j)
    /\ phase' = "outside"
    /\ job' = j
    /\ UNCHANGED <<level, in, out, mid, next, reg>>

Works(t) == /\ phase \in {"encode", "decode"}
            /\ t \in Team
            /\ ~Finished(t)

Advance(t) ==
    next' = [next EXCEPT ![t] = IF @[2] + 1 < Updates THEN <<@[1], @[2] + 1>>
                                ELSE <<@[1] + 1, 0>>]

Load(t) ==
    /\ Works(t)
    /\ ReadsOutput /\ reg[t] = Nothing /\ Touched(t) \subseteq Items(job)
    /\ reg' = [reg EXCEPT ![t] = Value(t)]
    /\ UNCHANGED <<phase, job, level, in, out, mid, next>>

Store(t) ==
    /\ Works(t)
    /\ reg[t] # Nothing
    /\ out' = [out EXCEPT ![Target(t)] = reg[t]]
    /\ reg' = [reg EXCEPT ![t] = Nothing]
    /\ Advance(t)
    /\ UNCHANGED <<phase, job, level, in, mid>>

Write(t) ==
    /\ Works(t)
    /\ ~ReadsOutput /\ Touched(t) \subseteq Items(job)
    /\ out' = [out EXCEPT ![Target(t)] = Value(t)]
    /\ Advance(t)
    /\ UNCHANGED <<phase, job, level, in, mid, reg>>

\* What is read there is anything, or ends the process.
Leave(t) ==
    /\ Works(t)
    /\ reg[t] = Nothing /\ ~(Touched(t) \subseteq Items(job))
    /\ phase' = "outside"
    /\ UNCHANGED <<job, level, in, out, mid, next, reg>>

\* The end of a parallel region; the background filters decode with a copy.
FinishEncode ==
    /\ phase = "encode"
    /\ \A t \in Team : Finished(t)
    /\ mid' = out
    /\ in' = out
    /\ IF job.scheme \in {"bitswap", "diff"}
       THEN /\ phase' = "decode"
            /\ out' = Prepared(job, out)
            /\ Starts(job, "decode")
       ELSE /\ phase' = "decoded"
            /\ UNCHANGED <<out, next, reg>>
    /\ UNCHANGED <<job, level>>

FinishDecode ==
    /\ phase = "decode"
    /\ \A t \in Team : Finished(t)
    /\ phase' = "decoded"
    /\ UNCHANGED <<job, level, in, out, mid, next, reg>>

Return ==
    /\ phase \in {"decoded", "thrown", "outside"}
    /\ phase' = "idle"
    /\ level' = Nothing
    /\ in' = <<>> /\ out' = <<>> /\ mid' = <<>> /\ next' = <<>> /\ reg' = <<>>
    /\ UNCHANGED job

KernelNext ==
    \/ \E j \in Jobs : Encode(j) \/ Throw(j) \/ StartOutside(j)
    \/ \E t \in DOMAIN next : Load(t) \/ Store(t) \/ Write(t) \/ Leave(t)
    \/ FinishEncode \/ FinishDecode \/ Return

KernelSpec == KernelInit /\ [][KernelNext]_kernelVars

-----------------------------------------------------------------------------

\* The words of the bit planes that hold bits from items of two threads.
CutWords(j) ==
    LET Owner(index) == {t \in 0 .. j.threads - 1 :
                           LET s == Share(j, "encode", MaxSize(j), t)
                           IN  index \in s.begin .. s.end - 1}
        WordOf(c) == c % Segment(j)
    IN  IF UsesSse(j) THEN {}
        ELSE {c \in 0 .. MaxSize(j) - 1 :
                Owner(WordOf(c) * Planes) # Owner(WordOf(c) * Planes + Planes - 1)}

\* A bit plane is the transposition of the items, the highest plane and the
\* first item first, with the items that fill no word behind.
Transposed(j, c) ==
    IF c >= MaxSize(j) THEN j.image[c]
    ELSE LET plane == Planes - 1 - c \div Segment(j)
             first == (c % Segment(j)) * Planes
         IN  SumOf([i \in 0 .. Planes - 1 |->
                      Bit(j.image[first + i], plane) * 2 ^ (Planes - 1 - i)])

PlanesRight ==
    job.scheme = "bitswap" /\ mid # <<>> =>
        \A c \in Items(job) \ CutWords(job) : mid[c] = Transposed(job, c)

Restores(j) ==
    \/ j.scheme = "bitswap" /\ CutWords(j) = {}
    \/ j.scheme = "diff" /\ j.readers = 1

BackgroundRight ==
    job.scheme \in {"remove_background", "rmestbkrd"} =>
        \A c \in Items(job) : out[c] = Reduced(job.image[c])

\* Volumes for which no access leaves the buffers.
Roomy(j) ==
    CASE j.scheme = "diff" -> /\ OffsetsRequired(j) > 1 /\ NonHalo(j, 1) >= 0
                              /\ \A a \in 1 .. 3 : j.shape[a] <= 2 ^ (Width - 1)
      [] j.scheme = "rmbkrd_neighbor" -> OffsetsRequired(j) > 1 /\ j.shape[3] < j.shape[1]
      [] j.scheme = "rmestbkrd" -> j.shape[1] > 1
      [] OTHER -> TRUE

\* Whatever the schedule of the team: with SSE or without, every word of the
\* bit planes that no two threads share is the transposition of its items, and
\* decode (which has only the scalar loop) gives the volume back; diff encoded
\* by any team is undone by one thread, although both number the axes of the
\* volume the wrong way round; background removal takes the threshold off every
\* item once; and no loop reads or writes beside a volume that is thick enough
\* (bitswap_scheme_impl.hpp, diff_scheme_impl.hpp, neighborhood_utils.hpp).
KernelsRight ==
    /\ PlanesRight
    /\ phase = "decoded" => /\ Restores(job) => out = job.image
                         /\ BackgroundRight
    /\ phase = "outside" => ~Roomy(job)
=============================================================================
