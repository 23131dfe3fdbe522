------------------------------ MODULE Lz4Chunks -------------------------------
(***************************************************************************)
(* lz4_scheme of encoders/lz4.hpp and the two encoders of lz4_utils.hpp.     *)
(* encode_serial appends the compressed pieces of the input one after the    *)
(* other; encode_parallel lets an OpenMP team compress them into slots of    *)
(* the output buffer, every thread its own run of slots, and then moves the  *)
(* pieces together with remove_blanks.  decode reads piece after piece.      *)
(*                                                                         *)
(* A piece is the compressed form of one chunk of the input.  A cell of the  *)
(* output buffer holds <<c, k>>, the k-th byte of the piece of chunk c.      *)
(***************************************************************************)
EXTENDS Integers, FiniteSetsExt

CONSTANTS MaxBytes,         \* bound: size of the input in bytes
          MaxThreads,       \* bound: what set_n_threads may have set
          FrameStep,        \* framestep_kb << 10, 0 when n_chunks_of_input rules
          ChunksConfigured, \* n_chunks_of_input
          Bound,            \* LZ4F_compressBound(chunk) + LZ4F_HEADER_SIZE_MAX
          IntHalf,          \* 2^31: the sizes of the pieces are summed up in an int
          FullTeam,         \* OpenMP starts as many threads as it is asked for
          Faults,           \* encode_serial may return nullptr
          CutStreams        \* the end of the stream may be missing on decode

ASSUME Lz4Assumption ==
    /\ MaxBytes \in Nat \ {0} /\ MaxThreads \in Nat \ {0}
    /\ FrameStep \in Nat /\ ChunksConfigured \in Nat
    /\ FrameStep > 0 \/ ChunksConfigured > 0
    /\ Bound \in Nat \ {0} /\ IntHalf \in Nat \ {0}
    /\ FullTeam \in BOOLEAN /\ Faults \in BOOLEAN /\ CutStreams \in BOOLEAN

VARIABLES
    bytes,      \* size of the input
    n_threads,  \* n_threads() of the stage
    team,       \* threads of the parallel region
    pc,         \* where the calling thread is
    cnt,        \* per thread: chunks of its run done
    writing,    \* per thread: inside encode_serial
    nbytes,     \* nbytes_written: size of the piece in each slot
    out,        \* the output buffer
    i,          \* pieces appended, moved or read so far
    value,      \* end of the contiguous pieces
    result,     \* what encode returned
    given,      \* bytes of the stream that decode is given
    dst,        \* bytes decode has written
    status      \* what decode returned

vars == <<bytes, n_threads, team, pc, cnt, writing, nbytes, out, i, value,
          result, given, dst, status>>

CeilDiv(a, b) == (a + b - 1) \div b
Least(a, b) == IF a < b THEN a ELSE b

Null == -1
Empty == <<-1, 0>>

BytesPerChunk(size) ==
    LET wanted == IF FrameStep > 0 THEN FrameStep ELSE size \div ChunksConfigured
    IN  IF wanted >= size \/ ChunksConfigured >= size THEN size ELSE wanted

ChunkCount(size) == CeilDiv(size, BytesPerChunk(size))

\* max_encoded_size: the bytes the caller must provide.
MaxEncodedSize(size, threads) ==
    IF BytesPerChunk(size) >= size THEN Bound
    ELSE CeilDiv(ChunkCount(size), threads) * threads * Bound

\* What the parallel region asks OpenMP for, and the run of one thread.
TeamSize(size, threads) == Least(threads, ChunkCount(size))

\* Mutant of RunLength: the division rounds down.
ShortRun(size, threads) == ChunkCount(size) \div TeamSize(size, threads)

RunLength(size, threads) == CeilDiv(ChunkCount(size), TeamSize(size, threads))

Step == BytesPerChunk(bytes)
NChunks == ChunkCount(bytes)
Capacity == MaxEncodedSize(bytes, n_threads)
Threads == TeamSize(bytes, n_threads)
ChunksPerThread == RunLength(bytes, n_threads)

\* Mutant of Chunk: the runs of neighbouring threads share a chunk.
SharedChunk(t) == IF t = 0 THEN cnt[t] ELSE t * ChunksPerThread + cnt[t] - 1

\* Mutant of Slot: the bound forgets the frame header.
TightSlot(c) == c * (Bound - 1)

Chunk(t) == t * ChunksPerThread + cnt[t]    \* the chunk thread t is at
Slot(c) == c * Bound                        \* where its piece goes
ChunkBytes(c) == Least(bytes, (c + 1) * Step) - c * Step

Init ==
    /\ bytes \in 1 .. MaxBytes
    /\ n_threads \in 1 .. MaxThreads
    /\ team \in IF FullTeam THEN {Threads} ELSE 1 .. Threads
    /\ pc = "encode"
    /\ cnt = [t \in 0 .. team - 1 |-> 0]
    /\ writing = [t \in 0 .. team - 1 |-> FALSE]
    /\ nbytes = [c \in 0 .. NChunks - 1 |-> 0]
    /\ out = [p \in 0 .. Capacity - 1 |-> Empty]
    /\ i = 0 /\ value = 0 /\ result = Null
    /\ given = 0 /\ dst = 0 /\ status = Null

\* The buffer after s bytes of chunk c's piece are written from position p on.
Written(c, p, s) ==
    [q \in DOMAIN out |-> IF q \in p .. p + s - 1 THEN <<c, q - p>> ELSE out[q]]

-----------------------------------------------------------------------------
(* encode_serial: one piece per step, straight behind the previous one *)

Serial == n_threads = 1 \/ NChunks = 1

SerialChunk ==
    /\ pc = "encode" /\ Serial /\ i < NChunks
    /\ \E s \in 1 .. Least(Bound, Capacity - value) :
         /\ out' = Written(i, value, s)
         /\ nbytes' = [nbytes EXCEPT ![i] = s]
         /\ value' = value + s
    /\ i' = i + 1
    /\ UNCHANGED <<bytes, n_threads, team, pc, cnt, writing, result, given, dst, status>>

SerialFails ==
    /\ pc = "encode" /\ Serial /\ Faults
    /\ pc' = "returned"
    /\ UNCHANGED <<bytes, n_threads, team, cnt, writing, nbytes, out, i, value,
                   result, given, dst, status>>

SerialReturns ==
    /\ pc = "encode" /\ Serial /\ i = NChunks
    /\ pc' = "returned"
    /\ result' = value
    /\ UNCHANGED <<bytes, n_threads, team, cnt, writing, nbytes, out, i, value,
                   given, dst, status>>

-----------------------------------------------------------------------------
(* encode_parallel *)

Fork ==
    /\ pc = "encode" /\ ~Serial
    /\ pc' = "parallel"
    /\ UNCHANGED <<bytes, n_threads, team, cnt, writing, nbytes, out, i, value,
                   result, given, dst, status>>

\* Mutant of HasChunk: the end of the input is the only bound.
EndlessRun(t) == Chunk(t) * Step < bytes

\* The loop of thread t has another chunk: it leaves at the end of the input.
HasChunk(t) == cnt[t] < ChunksPerThread /\ Chunk(t) * Step < bytes

StartChunk(t) ==
    /\ pc = "parallel"
    /\ ~writing[t] /\ HasChunk(t)
    /\ writing' = [writing EXCEPT ![t] = TRUE]
    /\ UNCHANGED <<bytes, n_threads, team, pc, cnt, nbytes, out, i, value,
                   result, given, dst, status>>

\* Mutant of FinishChunk: the thread never moves on.
SameChunk(t) ==
    /\ writing[t]
    /\ \E s \in 1 .. Least(Bound, Capacity - Slot(Chunk(t))) :
         /\ out' = Written(Chunk(t), Slot(Chunk(t)), s)
         /\ nbytes' = [nbytes EXCEPT ![Chunk(t)] = s]
    /\ writing' = [writing EXCEPT ![t] = FALSE]
    /\ UNCHANGED <<bytes, n_threads, team, pc, cnt, i, value, result, given, dst, status>>

FinishChunk(t) ==
    /\ writing[t]
    /\ \E s \in 1 .. Least(Bound, Capacity - Slot(Chunk(t))) :
         /\ out' = Written(Chunk(t), Slot(Chunk(t)), s)
         /\ nbytes' = [nbytes EXCEPT ![Chunk(t)] = s]
    /\ writing' = [writing EXCEPT ![t] = FALSE]
    /\ cnt' = [cnt EXCEPT ![t] = @ + 1]
    /\ UNCHANGED <<bytes, n_threads, team, pc, i, value, result, given, dst, status>>

\* encode_serial returned nullptr: a message, size 0, and on to the next chunk.
FailChunk(t) ==
    /\ writing[t] /\ Faults
    /\ nbytes' = [nbytes EXCEPT ![Chunk(t)] = 0]
    /\ writing' = [writing EXCEPT ![t] = FALSE]
    /\ cnt' = [cnt EXCEPT ![t] = @ + 1]
    /\ UNCHANGED <<bytes, n_threads, team, pc, out, i, value, result, given, dst, status>>

\* std::accumulate of the sizes with an int: the sum wraps around.
total_bytes_written ==
    LET sum == MapThenSumSet(LAMBDA c : nbytes[c], 0 .. NChunks - 1)
    IN  ((sum + IntHalf) % (2 * IntHalf)) - IntHalf

\* The barrier at the end of the region: all threads left their loops.  With a
\* total of 0 encode returns nullptr, else it starts to compact.
Join ==
    /\ pc = "parallel"
    /\ \A t \in DOMAIN cnt : ~writing[t] /\ ~HasChunk(t)
    /\ IF total_bytes_written = 0
         THEN pc' = "returned" /\ UNCHANGED <<i, value>>
         ELSE /\ pc' = "compact"
              /\ i' = 1
              /\ value' = nbytes[0]
    /\ UNCHANGED <<bytes, n_threads, team, cnt, writing, nbytes, out, result,
                   given, dst, status>>

\* Mutant of MovePiece: the blanks stay.
MoveNothing ==
    /\ pc = "compact" /\ i < NChunks
    /\ value' = value + nbytes[i]
    /\ i' = i + 1
    /\ UNCHANGED <<bytes, n_threads, team, pc, cnt, writing, nbytes, out, result,
                   given, dst, status>>

\* One std::copy of remove_blanks: slot i moves down to value.
MovePiece ==
    /\ pc = "compact" /\ i < NChunks
    /\ out' = [q \in DOMAIN out |->
                 IF q \in value .. value + nbytes[i] - 1
                   THEN out[Slot(i) + q - value] ELSE out[q]]
    /\ value' = value + nbytes[i]
    /\ i' = i + 1
    /\ UNCHANGED <<bytes, n_threads, team, pc, cnt, writing, nbytes, result,
                   given, dst, status>>

\* The pieces moved together must end where the total says, or nullptr it is.
ParallelReturns ==
    /\ pc = "compact" /\ i = NChunks
    /\ pc' = "returned"
    /\ result' = IF value = total_bytes_written THEN value ELSE Null
    /\ UNCHANGED <<bytes, n_threads, team, cnt, writing, nbytes, out, i, value,
                   given, dst, status>>

-----------------------------------------------------------------------------
(* decode of the bytes up to given, piece by piece: i is the read position *)

\* The caller hands over the stream, or what is left of it.
StartDecode ==
    /\ pc = "returned" /\ result # Null
    /\ pc' = "decode"
    /\ given' \in IF CutStreams THEN 0 .. result ELSE {result}
    /\ i' = 0
    /\ dst' = 0
    /\ UNCHANGED <<bytes, n_threads, team, cnt, writing, nbytes, out, value,
                   result, status>>

\* A whole piece yields its chunk's bytes behind what is there already.
DecodePiece ==
    /\ pc = "decode" /\ i < given
    /\ LET c == out[i][1] IN
         /\ i + nbytes[c] <= given
         /\ dst' = dst + ChunkBytes(c)
         /\ i' = i + nbytes[c]
    /\ UNCHANGED <<bytes, n_threads, team, pc, cnt, writing, nbytes, out, value,
                   result, given, status>>

\* A piece whose end is missing yields the blocks that are whole, and no error:
\* the loop stops at the end of the source, or on a cut frame header.
DecodeCutPiece ==
    /\ pc = "decode" /\ i < given
    /\ LET c == out[i][1] IN
         /\ i + nbytes[c] > given
         /\ \E n \in 0 .. ChunkBytes(c) : dst' = dst + n
    /\ i' = given
    /\ UNCHANGED <<bytes, n_threads, team, pc, cnt, writing, nbytes, out, value,
                   result, given, status>>

DecodeReturns ==
    /\ pc = "decode" /\ i >= given
    /\ pc' = "decoded"
    /\ status' = IF dst > 0 /\ dst <= bytes THEN 0 ELSE 1
    /\ UNCHANGED <<bytes, n_threads, team, cnt, writing, nbytes, out, i, value,
                   result, given, dst>>

\* The caller goes on: the stage keeps its threads, the next volume differs.
NextVolume ==
    /\ pc = "decoded" \/ (pc = "returned" /\ result = Null)
    /\ pc' = "encode"
    /\ bytes' \in 1 .. MaxBytes
    /\ n_threads' = n_threads
    /\ team' \in IF FullTeam THEN {Threads'} ELSE 1 .. Threads'
    /\ cnt' = [t \in 0 .. team' - 1 |-> 0]
    /\ writing' = [t \in 0 .. team' - 1 |-> FALSE]
    /\ nbytes' = [c \in 0 .. NChunks' - 1 |-> 0]
    /\ out' = [p \in 0 .. Capacity' - 1 |-> Empty]
    /\ i' = 0 /\ value' = 0 /\ result' = Null
    /\ given' = 0 /\ dst' = 0 /\ status' = Null

Worker(t) == StartChunk(t) \/ FinishChunk(t) \/ FailChunk(t)

Caller ==
    \/ SerialChunk \/ SerialFails \/ SerialReturns
    \/ Fork \/ Join \/ MovePiece \/ ParallelReturns
    \/ DecodePiece \/ DecodeCutPiece \/ DecodeReturns

Next ==
    \/ \E t \in DOMAIN cnt : Worker(t)
    \/ Caller
    \/ StartDecode
    \/ NextVolume

\* Every thread of the team is scheduled, and so is the calling thread.
Spec ==
    /\ Init /\ [][Next]_vars
    /\ WF_vars(Caller)
    /\ \A t \in 0 .. MaxThreads - 1 :
         WF_vars(t \in DOMAIN cnt /\ Worker(t))

-----------------------------------------------------------------------------
(* Properties *)

Cells == Int \X Int

TypeOK ==
    /\ bytes \in 1 .. MaxBytes /\ n_threads \in 1 .. MaxThreads
    /\ team \in 1 .. n_threads
    /\ pc \in {"encode", "parallel", "compact", "returned", "decode", "decoded"}
    /\ cnt \in [0 .. team - 1 -> 0 .. ChunksPerThread]
    /\ writing \in [0 .. team - 1 -> BOOLEAN]
    /\ nbytes \in [0 .. NChunks - 1 -> 0 .. Bound]
    /\ out \in [0 .. Capacity - 1 -> Cells]
    /\ i \in Nat /\ value \in 0 .. Capacity
    /\ result \in {Null} \cup 0 .. Capacity
    /\ given \in Nat /\ dst \in Nat /\ status \in {Null, 0, 1}

\* Two threads that compress at the same time write into disjoint slots, and
\* each slot lies inside the buffer of max_encoded_size bytes the caller has
\* provided: the slots need no lock.
SlotsDisjoint ==
    \A t, u \in DOMAIN cnt : writing[t] =>
        /\ Slot(Chunk(t)) + Bound <= Capacity
        /\ t # u /\ writing[u] =>
             Slot(Chunk(t)) + Bound <= Slot(Chunk(u))
             \/ Slot(Chunk(u)) + Bound <= Slot(Chunk(t))

\* remove_blanks never copies over a piece it has yet to move.
CompactionSafe == pc = "compact" /\ i < NChunks => value <= Slot(i)

NoneWritten(cs) == \A c \in cs : nbytes[c] = 0

FirstByte(p) == out[p][2] = 0
LastByte(p)  == out[p][2] = nbytes[out[p][1]] - 1

\* The byte at position p belongs to a piece of one of the first n chunks that
\* lies before end as a whole; the piece before it is that of the nearest
\* earlier chunk that has one.
PieceAt(p, n, end) ==
    LET c     == out[p][1]
        start == p - out[p][2]
    IN  /\ c \in 0 .. n - 1
        /\ out[p][2] \in 0 .. nbytes[c] - 1
        /\ start >= 0 /\ start + nbytes[c] <= end
        /\ \A k \in 0 .. nbytes[c] - 1 : out[start + k] = <<c, k>>
        /\ IF start = 0 THEN NoneWritten(0 .. c - 1)
           ELSE /\ LastByte(start - 1)
                /\ out[start - 1][1] < c
                /\ NoneWritten(out[start - 1][1] + 1 .. c - 1)

\* The first end bytes of the buffer are the pieces of the first n chunks.
Seamless(n, end) ==
    /\ \A p \in 0 .. end - 1 : PieceAt(p, n, end)
    /\ IF end = 0 THEN NoneWritten(0 .. n - 1)
       ELSE LastByte(end - 1) /\ NoneWritten(out[end - 1][1] + 1 .. n - 1)

\* Whatever the number of threads and the order they finish in, a pointer that
\* encode returns ends the stream the serial encoder writes: the pieces in the
\* order of the input, without a gap and without a byte of one lost.
StreamInOrder ==
    pc = "returned" /\ result # Null => Seamless(NChunks, result)

\* "if error occurred nullptr is returned": when encode returns a pointer, no
\* chunk of the input is missing from what it points behind.
NoChunkLost ==
    pc = "returned" /\ result # Null =>
        \A c \in 0 .. NChunks - 1 : nbytes[c] > 0

\* The chunks a thread has given up on, with a message to the user.
GivenUp == {c \in 0 .. NChunks - 1 : nbytes[c] = 0
                /\ \E t \in DOMAIN cnt : c - t * ChunksPerThread \in 0 .. cnt[t] - 1}

\* The chunk of the first byte that decode is not given, and those from there on.
FirstCut == IF given < result THEN out[given][1] ELSE NChunks
CutOff   == {c \in 0 .. NChunks - 1 : c >= FirstCut}

\* What the first part of a piece cut in two may still yield.
Salvage == IF given < result /\ out[given][2] > 0 THEN ChunkBytes(FirstCut) ELSE 0

\* Whatever fails and wherever the stream is cut off, decode misses nothing
\* else: it writes the bytes of all chunks but those a thread has given up on
\* and those behind the cut, never beyond the volume, and it reports an error
\* only when it has written nothing.
DecodeAccounts ==
    pc = "decoded" =>
        /\ dst + MapThenSumSet(ChunkBytes, GivenUp \cup CutOff)
             \in bytes .. bytes + Salvage
        /\ status = 0 <=> dst > 0

\* "Returns 0 if success, another code if there was an error": a decode that
\* returns 0 has restored every byte of the input.
SuccessMeansComplete == pc = "decoded" /\ status = 0 => dst = bytes

\* Every call of encode returns: no thread waits for another one forever.
EncodeReturns == pc = "encode" ~> pc = "returned"
=============================================================================
