--------------------------- MODULE Lz4Chunks_proof ----------------------------
(***************************************************************************)
(* Theorems about Lz4Chunks for inputs, thread counts and chunk sizes of any *)
(* size: the slots of the threads never overlap, compaction never overwrites *)
(* a piece, what encode returns is the stream of the serial encoder, and      *)
(* with a complete team no chunk is left out.                                 *)
(***************************************************************************)
EXTENDS Lz4Chunks, Sums

-----------------------------------------------------------------------------
(* Arithmetic of the partition *)

LEMMA CeilDivBounds ==
    ASSUME NEW a \in Nat, NEW b \in Nat \ {0}
    PROVE  /\ CeilDiv(a, b) \in Nat
           /\ a <= CeilDiv(a, b) * b
           /\ a > 0 => CeilDiv(a, b) > 0
<1> DEFINE q == (a + b - 1) \div b
<1>1. q \in Nat
  OBVIOUS
<1>2. q * b <= a + b - 1 /\ a + b - 1 < q * b + b
  OBVIOUS
<1> QED BY <1>1, <1>2 DEF CeilDiv

LEMMA CeilDivTight ==
    ASSUME NEW a \in Nat, NEW b \in Nat \ {0}
    PROVE  CeilDiv(a, b) * b < a + b
<1> DEFINE q == (a + b - 1) \div b
<1>1. q \in Nat
  OBVIOUS
<1>2. q * b <= a + b - 1
  OBVIOUS
<1> QED BY <1>1, <1>2 DEF CeilDiv

\* A product with a larger factor is larger.
LEMMA Monotone ==
    ASSUME NEW a \in Nat, NEW b \in Nat, NEW k \in Nat, a <= b
    PROVE  a * k <= b * k
  OBVIOUS

\* Slots of different numbers do not overlap.
LEMMA NextSlot ==
    ASSUME NEW a \in Nat, NEW b \in Nat, a < b, NEW k \in Nat
    PROVE  a * k + k <= b * k
<1>1. (a + 1) * k <= b * k
  BY Monotone
<1> QED BY <1>1

\* The dimensions of a call, for any size of the input and number of threads.
LEMMA Dimensions ==
    ASSUME Lz4Assumption, NEW size \in 1 .. MaxBytes,
           NEW threads \in 1 .. MaxThreads
    PROVE  /\ BytesPerChunk(size) \in 1 .. size
           /\ ChunkCount(size) \in Nat \ {0}
           /\ size <= ChunkCount(size) * BytesPerChunk(size)
           /\ TeamSize(size, threads) \in 1 .. threads
           /\ RunLength(size, threads) \in Nat \ {0}
           /\ ChunkCount(size) <= RunLength(size, threads) * TeamSize(size, threads)
           /\ MaxEncodedSize(size, threads) \in Nat
           /\ ChunkCount(size) * Bound <= MaxEncodedSize(size, threads)
<1> USE DEF Lz4Assumption
<1>1. BytesPerChunk(size) \in 1 .. size
  BY DEF BytesPerChunk
<1>2. /\ ChunkCount(size) \in Nat \ {0}
      /\ size <= ChunkCount(size) * BytesPerChunk(size)
  BY <1>1, CeilDivBounds DEF ChunkCount
<1>3. TeamSize(size, threads) \in 1 .. threads
  BY <1>2 DEF TeamSize, Least
<1>4. /\ RunLength(size, threads) \in Nat \ {0}
      /\ ChunkCount(size) <= RunLength(size, threads) * TeamSize(size, threads)
  BY <1>2, <1>3, CeilDivBounds DEF RunLength
<1>5. /\ MaxEncodedSize(size, threads) \in Nat
      /\ ChunkCount(size) * Bound <= MaxEncodedSize(size, threads)
  <2>1. CASE BytesPerChunk(size) >= size
    <3>1. BytesPerChunk(size) = size
      BY <1>1, <2>1
    <3>2. ChunkCount(size) = 1
      BY <3>1 DEF ChunkCount, CeilDiv
    <3> QED BY <2>1, <3>2 DEF MaxEncodedSize
  <2>2. CASE ~(BytesPerChunk(size) >= size)
    <3> DEFINE m == CeilDiv(ChunkCount(size), threads) * threads
    <3>1. m \in Nat /\ ChunkCount(size) <= m
      BY <1>2, CeilDivBounds
    <3>2. ChunkCount(size) * Bound <= m * Bound
      BY <1>2, <3>1, Monotone
    <3> QED BY <2>2, <3>1, <3>2 DEF MaxEncodedSize
  <2> QED BY <2>1, <2>2
<1> QED BY <1>1, <1>2, <1>3, <1>4, <1>5
-----------------------------------------------------------------------------
(* The inductive invariant *)

\* Every piece from slot n on is still where its thread has put it.
SlotsIntact(n) ==
    \A c \in n .. NChunks - 1 : \A k \in 0 .. nbytes[c] - 1 :
        out[Slot(c) + k] = <<c, k>>

EncodeInv ==
    pc = "encode" =>
        /\ i \in 0 .. NChunks
        /\ Seamless(i, value)
        /\ ~Serial => \A c \in 0 .. NChunks - 1 : nbytes[c] = 0

ThreadsInv ==
    \A t \in 0 .. team - 1 : writing[t] => pc = "parallel" /\ HasChunk(t)

ParallelInv == pc = "parallel" => SlotsIntact(0)

CompactInv ==
    pc = "compact" =>
        /\ i \in 1 .. NChunks
        /\ value <= Slot(i)
        /\ Seamless(i, value)
        /\ SlotsIntact(i)

ReturnedInv ==
    /\ pc \in {"encode", "parallel", "compact"} => result = Null
    /\ pc = "returned" => \/ result = Null
                          \/ result \in Nat /\ Seamless(NChunks, result)
    /\ pc \in {"decode", "decoded"} =>
         result \in Nat /\ Seamless(NChunks, result)

DecodeInv ==
    /\ pc \in {"decode", "decoded"} => given \in 0 .. result
    /\ pc = "decode" => i \in 0 .. given /\ (i < given => FirstByte(i))

IInv ==
    TypeOK /\ EncodeInv /\ ThreadsInv /\ ParallelInv /\ CompactInv
    /\ ReturnedInv /\ DecodeInv

\* The dimensions of the current call.
LEMMA CurrentDimensions ==
    ASSUME Lz4Assumption, TypeOK
    PROVE  /\ Step \in 1 .. bytes
           /\ NChunks \in Nat \ {0}
           /\ bytes <= NChunks * Step
           /\ Threads \in 1 .. n_threads
           /\ ChunksPerThread \in Nat \ {0}
           /\ Capacity \in Nat
           /\ NChunks * Bound <= Capacity
  BY Dimensions DEF TypeOK, Step, NChunks, Threads, ChunksPerThread, Capacity

\* The last chunk begins inside the input.
LEMMA LastChunkBegins ==
    ASSUME Lz4Assumption, TypeOK
    PROVE  NChunks * Step < bytes + Step
<1>1. Step \in Nat \ {0} /\ bytes \in Nat
  BY CurrentDimensions DEF TypeOK
<1>2. NChunks = CeilDiv(bytes, Step)
  BY DEF NChunks, ChunkCount, Step
<1> QED BY <1>1, <1>2, CeilDivTight

\* A thread inside encode_serial works on one of the chunks of the input.
LEMMA ChunkInRange ==
    ASSUME Lz4Assumption, TypeOK, NEW t \in 0 .. team - 1, HasChunk(t)
    PROVE  /\ Chunk(t) \in 0 .. NChunks - 1
           /\ Slot(Chunk(t)) \in Nat
           /\ Slot(Chunk(t)) + Bound <= NChunks * Bound
           /\ Slot(Chunk(t)) + Bound <= Capacity
<1> USE DEF Lz4Assumption
<1>0. /\ Step \in Nat \ {0} /\ NChunks \in Nat \ {0}
      /\ bytes \in Nat /\ bytes <= NChunks * Step
      /\ ChunksPerThread \in Nat \ {0} /\ team \in Nat
      /\ cnt[t] \in 0 .. ChunksPerThread
  <2>1. /\ bytes \in Nat /\ team \in Nat
        /\ cnt[t] \in 0 .. ChunksPerThread
    BY DEF TypeOK
  <2> QED BY <2>1, CurrentDimensions
<1>1. Chunk(t) \in Nat /\ Chunk(t) * Step < bytes
  <2>1. t * ChunksPerThread \in Nat
    BY <1>0
  <2> QED BY <1>0, <2>1 DEF Chunk, HasChunk
<1>2. Chunk(t) < NChunks
  <2>1. SUFFICES ASSUME NChunks <= Chunk(t) PROVE FALSE
    BY <1>0, <1>1
  <2>2. NChunks * Step <= Chunk(t) * Step
    BY <1>0, <1>1, <2>1, Monotone
  <2>3. NChunks * Step \in Nat /\ Chunk(t) * Step \in Nat
    BY <1>0, <1>1
  <2> QED BY <1>0, <1>1, <2>2, <2>3
<1>3. Slot(Chunk(t)) \in Nat /\ Slot(Chunk(t)) + Bound <= NChunks * Bound
  BY <1>1, <1>2, CurrentDimensions, NextSlot DEF Slot
<1> QED BY <1>1, <1>2, <1>3, CurrentDimensions

\* Different threads are at different chunks.
LEMMA ChunksDiffer ==
    ASSUME Lz4Assumption, TypeOK, NEW t \in 0 .. team - 1,
           NEW u \in 0 .. team - 1, t < u, HasChunk(t), HasChunk(u)
    PROVE  Chunk(t) < Chunk(u)
<1>1. /\ cnt[t] \in Nat /\ cnt[u] \in Nat /\ cnt[t] < ChunksPerThread
      /\ ChunksPerThread \in Nat
  <2>1. ChunksPerThread \in Nat
    BY CurrentDimensions
  <2> QED BY <2>1 DEF TypeOK, HasChunk
<1>2. t * ChunksPerThread + ChunksPerThread <= u * ChunksPerThread
  BY <1>1, NextSlot
<1>3. t * ChunksPerThread \in Nat /\ u * ChunksPerThread \in Nat
  BY <1>1
<1> QED BY <1>1, <1>2, <1>3 DEF Chunk

\* The slots of threads that write at the same time are apart.
LEMMA SlotsApart ==
    ASSUME Lz4Assumption, IInv
    PROVE  SlotsDisjoint
<1> USE DEF Lz4Assumption
<1>1. DOMAIN cnt = 0 .. team - 1
  BY DEF IInv, TypeOK
<1>2. ASSUME NEW t \in 0 .. team - 1, writing[t]
      PROVE  HasChunk(t)
  BY <1>2 DEF IInv, ThreadsInv
<1>3. ASSUME NEW t \in 0 .. team - 1, NEW u \in 0 .. team - 1, t < u,
             writing[t], writing[u]
      PROVE  Slot(Chunk(t)) + Bound <= Slot(Chunk(u))
  <2>1. HasChunk(t) /\ HasChunk(u)
    BY <1>2, <1>3
  <2>2. Chunk(t) < Chunk(u) /\ Chunk(t) \in Nat /\ Chunk(u) \in Nat
    BY <2>1, <1>3, ChunksDiffer, ChunkInRange DEF IInv
  <2> QED BY <2>2, NextSlot DEF Slot
<1>4. ASSUME NEW t \in 0 .. team - 1, writing[t]
      PROVE  Slot(Chunk(t)) + Bound <= Capacity
  BY <1>2, <1>4, ChunkInRange DEF IInv
<1>5. team \in Nat
  BY DEF IInv, TypeOK
<1>6. ASSUME NEW t \in 0 .. team - 1, NEW u \in 0 .. team - 1, t # u,
             writing[t], writing[u]
      PROVE  Slot(Chunk(t)) + Bound <= Slot(Chunk(u))
             \/ Slot(Chunk(u)) + Bound <= Slot(Chunk(t))
  <2>1. CASE t < u  BY <1>3, <1>6, <2>1
  <2>2. CASE u < t  BY <1>3, <1>6, <2>2
  <2> QED BY <1>5, <1>6, <2>1, <2>2
<1> QED BY <1>1, <1>4, <1>6 DEF SlotsDisjoint

\* Nothing but the cells below end and the sizes below n matters to Seamless.
LEMMA AppendPiece ==
    ASSUME NEW n \in Nat, NEW end \in Nat, NEW s \in Nat,
           Seamless(n, end),
           \A p \in 0 .. end - 1 :
             out[p][1] \in Int /\ out[p][2] \in Int /\ out'[p] = out[p],
           \A k \in 0 .. s - 1 : out'[end + k] = <<n, k>>,
           \A c \in 0 .. n - 1 : nbytes[c] \in Nat /\ nbytes'[c] = nbytes[c],
           nbytes'[n] = s
    PROVE  Seamless(n + 1, end + s)'
\* The piece that ends at position e keeps its last byte and its chunk.
<1>0. ASSUME NEW e \in 0 .. end - 1, LastByte(e), NEW m \in Int,
             NoneWritten(out[e][1] + 1 .. m), m < n
      PROVE  /\ LastByte(e)' /\ NoneWritten(out[e][1] + 1 .. m)'
             /\ out'[e][1] = out[e][1] /\ out[e][1] \in 0 .. n - 1
  <2>1. PICK b \in 0 .. n - 1 : b = out[e][1]
    BY DEF Seamless, PieceAt
  <2>2. out'[e] = out[e] /\ nbytes'[b] = nbytes[b]
    BY <2>1
  <2>3. \A c \in b + 1 .. m : nbytes'[c] = 0
    BY <1>0, <2>1 DEF NoneWritten
  <2> QED BY <1>0, <2>1, <2>2, <2>3 DEF LastByte, NoneWritten
<1>1. ASSUME NEW p \in 0 .. end - 1
      PROVE  PieceAt(p, n + 1, end + s)'
  <2>1. PieceAt(p, n, end)
    BY DEF Seamless
  <2>2. PICK c \in 0 .. n - 1, k \in Nat : out[p][1] = c /\ out[p][2] = k
    BY <2>1 DEF PieceAt
  <2>3. PICK start \in Int : start = p - k
    BY <2>2
  <2>4. /\ k \in 0 .. nbytes[c] - 1
        /\ start >= 0 /\ start + nbytes[c] <= end
        /\ \A j \in 0 .. nbytes[c] - 1 : out[start + j] = <<c, j>>
    BY <2>1, <2>2, <2>3 DEF PieceAt
  <2>5. out'[p] = out[p] /\ nbytes'[c] = nbytes[c] /\ start \in 0 .. end - 1
    BY <2>2, <2>3, <2>4
  <2>6. \A j \in 0 .. nbytes[c] - 1 : out'[start + j] = <<c, j>>
    <3>1. ASSUME NEW j \in 0 .. nbytes[c] - 1
          PROVE  start + j \in 0 .. end - 1
      BY <2>4, <2>5
    <3> QED BY <2>4, <3>1
  <2>7. IF start = 0 THEN NoneWritten(0 .. c - 1)'
        ELSE /\ LastByte(start - 1)'
             /\ out'[start - 1][1] < c
             /\ NoneWritten(out[start - 1][1] + 1 .. c - 1)'
    <3>1. CASE start = 0
      <4>1. NoneWritten(0 .. c - 1)
        BY <2>1, <2>2, <2>3, <3>1 DEF PieceAt
      <4> QED BY <3>1, <4>1 DEF NoneWritten
    <3>2. CASE start # 0
      <4>1. /\ LastByte(start - 1)
            /\ out[start - 1][1] < c
            /\ NoneWritten(out[start - 1][1] + 1 .. c - 1)
        BY <2>1, <2>2, <2>3, <3>2 DEF PieceAt
      <4>2. start - 1 \in 0 .. end - 1 /\ c - 1 < n /\ c - 1 \in Int
        BY <2>5, <3>2
      <4> QED BY <1>0, <3>2, <4>1, <4>2
    <3> QED BY <3>1, <3>2
  <2> QED BY <2>2, <2>3, <2>4, <2>5, <2>6, <2>7 DEF PieceAt, NoneWritten
<1>2. ASSUME NEW p \in end .. end + s - 1
      PROVE  PieceAt(p, n + 1, end + s)'
  <2>1. out'[p] = <<n, p - end>>
    <3>1. p - end \in 0 .. s - 1 /\ end + (p - end) = p
      OBVIOUS
    <3> QED BY <3>1
  <2>2. CASE end = 0
    <3>1. \A c \in 0 .. n - 1 : nbytes'[c] = 0
      BY <2>2 DEF Seamless, NoneWritten
    <3> QED BY <2>1, <2>2, <3>1 DEF PieceAt, NoneWritten
  <2>3. CASE end # 0
    <3>1. LastByte(end - 1) /\ NoneWritten(out[end - 1][1] + 1 .. n - 1)
      BY <2>3 DEF Seamless
    <3>2. end - 1 \in 0 .. end - 1
      BY <2>3
    <3>3. /\ LastByte(end - 1)' /\ NoneWritten(out[end - 1][1] + 1 .. n - 1)'
          /\ out'[end - 1][1] = out[end - 1][1]
          /\ out[end - 1][1] \in 0 .. n - 1
      BY <1>0, <3>1, <3>2
    <3> QED BY <2>1, <2>3, <3>3 DEF PieceAt, NoneWritten
  <2> QED BY <2>2, <2>3
<1>3. \A p \in 0 .. end + s - 1 : PieceAt(p, n + 1, end + s)'
  BY <1>1, <1>2
<1>4. CASE s > 0
  <2>1. out'[end + s - 1] = <<n, s - 1>>
    <3>1. s - 1 \in 0 .. s - 1 /\ end + (s - 1) = end + s - 1
      BY <1>4
    <3> QED BY <3>1
  <2> QED BY <1>3, <1>4, <2>1 DEF Seamless, LastByte, NoneWritten
<1>5. CASE s = 0
  <2>1. CASE end = 0
    <3>1. \A c \in 0 .. n : nbytes'[c] = 0
      BY <1>5, <2>1 DEF Seamless, NoneWritten
    <3> QED BY <1>3, <1>5, <2>1, <3>1 DEF Seamless, NoneWritten
  <2>2. CASE end # 0
    <3>1. LastByte(end - 1) /\ NoneWritten(out[end - 1][1] + 1 .. n - 1)
      BY <2>2 DEF Seamless
    <3>2. end - 1 \in 0 .. end - 1
      BY <2>2
    <3>3. /\ LastByte(end - 1)' /\ NoneWritten(out[end - 1][1] + 1 .. n - 1)'
          /\ out'[end - 1][1] = out[end - 1][1]
          /\ out[end - 1][1] \in 0 .. n - 1
      BY <1>0, <3>1, <3>2
    <3> QED BY <1>3, <1>5, <2>2, <3>3 DEF Seamless, NoneWritten
  <2> QED BY <2>1, <2>2
<1> QED BY <1>4, <1>5

-----------------------------------------------------------------------------
(* Preservation, action by action *)

\* What every step that starts or finishes nothing at the caller relies on.
LEMMA Types ==
    ASSUME Lz4Assumption, TypeOK
    PROVE  /\ bytes \in Nat \ {0} /\ n_threads \in Nat \ {0} /\ team \in Nat
           /\ i \in Nat /\ value \in Nat /\ given \in Nat /\ dst \in Nat
           /\ Bound \in Nat \ {0}
           /\ NChunks \in Nat \ {0} /\ Capacity \in Nat
           /\ NChunks * Bound <= Capacity
           /\ DOMAIN cnt = 0 .. team - 1
           /\ DOMAIN nbytes = 0 .. NChunks - 1
           /\ DOMAIN out = 0 .. Capacity - 1
           /\ \A p \in 0 .. Capacity - 1 :
                out[p] \in Int \X Int /\ out[p][1] \in Int /\ out[p][2] \in Int
           /\ \A c \in 0 .. NChunks - 1 : nbytes[c] \in 0 .. Bound
<1>1. NChunks \in Nat \ {0} /\ Capacity \in Nat /\ NChunks * Bound <= Capacity
  BY CurrentDimensions
<1> QED BY <1>1 DEF Lz4Assumption, TypeOK, Cells

LEMMA InitInv == ASSUME Lz4Assumption, Init PROVE IInv
<1> USE DEF Lz4Assumption
<1>1. /\ bytes \in 1 .. MaxBytes /\ n_threads \in 1 .. MaxThreads
      /\ Threads \in 1 .. n_threads
      /\ ChunksPerThread \in Nat \ {0}
      /\ NChunks \in Nat \ {0} /\ Capacity \in Nat
  <2>1. bytes \in 1 .. MaxBytes /\ n_threads \in 1 .. MaxThreads
    BY DEF Init
  <2> QED
    BY <2>1, Dimensions DEF Threads, ChunksPerThread, NChunks, Capacity
<1>2. team \in 1 .. n_threads
  BY <1>1 DEF Init
<1>3. TypeOK
  BY <1>1, <1>2 DEF Init, TypeOK, Cells, Empty, Null
<1>4. EncodeInv
  BY <1>1 DEF Init, EncodeInv, Seamless, NoneWritten
<1> QED
  BY <1>3, <1>4 DEF Init, IInv, ThreadsInv, ParallelInv, CompactInv,
                    ReturnedInv, DecodeInv

\* The names that depend on the call do not change during it.
LEMMA SameCall ==
    ASSUME bytes' = bytes, n_threads' = n_threads
    PROVE  /\ Step' = Step /\ NChunks' = NChunks /\ Capacity' = Capacity
           /\ Threads' = Threads /\ ChunksPerThread' = ChunksPerThread
           /\ Serial' = Serial
  BY DEF Step, NChunks, Capacity, Threads, ChunksPerThread, Serial

\* Steps that write neither the buffer nor the sizes keep what is in it.
LEMMA Kept ==
    ASSUME UNCHANGED <<out, nbytes>>, NEW n, NEW end, Seamless(n, end)
    PROVE  Seamless(n, end)'
  BY DEF Seamless, PieceAt, FirstByte, LastByte, NoneWritten

\* One more piece right behind the first i ones.
LEMMA Appended ==
    ASSUME Lz4Assumption, TypeOK, Seamless(i, value), i \in 0 .. NChunks - 1,
           value <= Capacity,
           NEW s \in Nat, value + s <= Capacity,
           \A q \in 0 .. value - 1 : out'[q] = out[q],
           \A k \in 0 .. s - 1 : out'[value + k] = <<i, k>>,
           \A c \in 0 .. i - 1 : nbytes'[c] = nbytes[c],
           nbytes'[i] = s, i' = i + 1, value' = value + s
    PROVE  Seamless(i, value)'
<1>1. PICK n \in Nat, end \in Nat : n = i /\ end = value
  BY Types
<1>2. /\ Capacity \in Nat /\ NChunks \in Nat
      /\ \A q \in 0 .. Capacity - 1 : out[q][1] \in Int /\ out[q][2] \in Int
      /\ \A c \in 0 .. NChunks - 1 : nbytes[c] \in 0 .. Bound
      /\ Bound \in Nat
  BY Types
<1>3. Seamless(n, end)
  BY <1>1
<1>4. \A q \in 0 .. end - 1 :
        out[q][1] \in Int /\ out[q][2] \in Int /\ out'[q] = out[q]
  BY <1>1, <1>2
<1>5. \A k \in 0 .. s - 1 : out'[end + k] = <<n, k>>
  BY <1>1
<1>6. \A c \in 0 .. n - 1 : nbytes[c] \in Nat /\ nbytes'[c] = nbytes[c]
  BY <1>1, <1>2
<1>7. nbytes'[n] = s
  BY <1>1
<1>8. Seamless(n + 1, end + s)'
  BY <1>3, <1>4, <1>5, <1>6, <1>7, AppendPiece
<1>9. i' = n + 1 /\ value' = end + s
  BY <1>1
<1> QED BY <1>8, <1>9 DEF Seamless, PieceAt

LEMMA StepSerialChunk ==
    ASSUME Lz4Assumption, IInv, SerialChunk
    PROVE  IInv'
<1>1. TypeOK /\ Seamless(i, value) /\ Serial /\ pc = "encode" /\ ThreadsInv
  BY DEF IInv, EncodeInv, SerialChunk
<1>2. PICK s \in 1 .. Least(Bound, Capacity - value) :
        /\ out' = Written(i, value, s)
        /\ nbytes' = [nbytes EXCEPT ![i] = s]
        /\ value' = value + s
  BY DEF SerialChunk
<1>3. /\ i \in 0 .. NChunks - 1 /\ value \in 0 .. Capacity /\ Capacity \in Nat
      /\ Bound \in Nat /\ NChunks \in Nat /\ i' = i + 1
  BY <1>1, Types DEF SerialChunk, TypeOK
<1>4. s \in Nat /\ s <= Bound /\ value + s <= Capacity
  BY <1>2, <1>3 DEF Least
<1>5. /\ NChunks' = NChunks /\ Capacity' = Capacity /\ Serial' = Serial
      /\ ChunksPerThread' = ChunksPerThread
  BY SameCall DEF SerialChunk
<1>6. /\ \A q \in 0 .. Capacity - 1 :
           out'[q] = IF q \in value .. value + s - 1 THEN <<i, q - value>>
                     ELSE out[q]
      /\ out' \in [0 .. Capacity - 1 -> Cells]
  BY <1>1, <1>2, <1>3, <1>4 DEF Written, TypeOK, Cells
<1>7. TypeOK'
  BY <1>1, <1>2, <1>3, <1>4, <1>5, <1>6 DEF TypeOK, SerialChunk
<1>8. Seamless(i, value)'
  <2>1. \A q \in 0 .. value - 1 : out'[q] = out[q]
    BY <1>3, <1>6
  <2>2. \A k \in 0 .. s - 1 : out'[value + k] = <<i, k>>
    BY <1>3, <1>4, <1>6
  <2>3. (\A c \in 0 .. i - 1 : nbytes'[c] = nbytes[c]) /\ nbytes'[i] = s
    BY <1>1, <1>2, <1>3 DEF TypeOK
  <2> QED BY <1>1, <1>2, <1>3, <1>4, <2>1, <2>2, <2>3, Appended
<1>9. pc' = "encode" /\ i' \in 0 .. NChunks /\ Serial' /\ result' = Null
  BY <1>1, <1>3, <1>5 DEF SerialChunk, IInv, ReturnedInv
<1>10. ThreadsInv'
  BY <1>1 DEF ThreadsInv, SerialChunk
<1> QED
  BY <1>5, <1>7, <1>8, <1>9, <1>10
     DEF IInv, EncodeInv, ParallelInv, CompactInv, ReturnedInv, DecodeInv

LEMMA StepSerialFails ==
    ASSUME Lz4Assumption, IInv, SerialFails
    PROVE  IInv'
<1>1. TypeOK'
  BY SameCall DEF IInv, TypeOK, SerialFails
<1>2. result' = Null /\ pc' = "returned"
  BY DEF IInv, ReturnedInv, SerialFails
<1>3. ThreadsInv'
  BY DEF IInv, ThreadsInv, SerialFails
<1> QED
  BY <1>1, <1>2, <1>3 DEF IInv, EncodeInv, ParallelInv, CompactInv,
                          ReturnedInv, DecodeInv

LEMMA StepSerialReturns ==
    ASSUME Lz4Assumption, IInv, SerialReturns
    PROVE  IInv'
<1>1. TypeOK'
  BY SameCall DEF IInv, TypeOK, SerialReturns
<1>2. /\ pc' = "returned" /\ result' = value /\ value \in Nat
      /\ Seamless(NChunks, value)
  BY Types DEF IInv, EncodeInv, SerialReturns
<1>3. PICK n, end : n = NChunks /\ end = value
  OBVIOUS
<1>4. Seamless(n, end)'
  BY <1>2, <1>3, Kept DEF SerialReturns
<1>5. NChunks' = n /\ result' = end
  BY <1>2, <1>3, SameCall DEF SerialReturns
<1>6. Seamless(NChunks, result)'
  BY <1>4, <1>5 DEF Seamless, PieceAt
<1>7. ThreadsInv'
  BY DEF IInv, ThreadsInv, SerialReturns
<1> QED
  BY <1>1, <1>2, <1>6, <1>7 DEF IInv, EncodeInv, ParallelInv, CompactInv,
                                ReturnedInv, DecodeInv

LEMMA StepFork ==
    ASSUME Lz4Assumption, IInv, Fork
    PROVE  IInv'
<1>1. TypeOK'
  BY SameCall DEF IInv, TypeOK, Fork
<1>2. pc' = "parallel" /\ \A c \in 0 .. NChunks - 1 : nbytes[c] = 0
  BY DEF IInv, EncodeInv, Fork
<1>3. SlotsIntact(0)'
  BY <1>2, SameCall DEF SlotsIntact, Fork
<1>4. ThreadsInv'
  BY DEF IInv, ThreadsInv, Fork
<1> QED
  BY <1>1, <1>2, <1>3, <1>4 DEF IInv, Fork, EncodeInv, ParallelInv, CompactInv,
                                ReturnedInv, DecodeInv

LEMMA StepStartChunk ==
    ASSUME Lz4Assumption, IInv, NEW t \in DOMAIN cnt, StartChunk(t)
    PROVE  IInv'
<1>1. TypeOK'
  BY SameCall DEF IInv, TypeOK, StartChunk
<1>2. ThreadsInv'
  BY SameCall DEF IInv, TypeOK, ThreadsInv, StartChunk, HasChunk, Chunk
<1>3. SlotsIntact(0)'
  BY SameCall DEF IInv, ParallelInv, SlotsIntact, StartChunk, Slot
<1> QED
  BY <1>1, <1>2, <1>3 DEF IInv, StartChunk, EncodeInv, ParallelInv, CompactInv,
                          ReturnedInv, DecodeInv

LEMMA StepFinishChunk ==
    ASSUME Lz4Assumption, IInv, NEW t \in DOMAIN cnt, FinishChunk(t)
    PROVE  IInv'
<1>1. /\ TypeOK /\ t \in 0 .. team - 1 /\ writing[t] /\ pc = "parallel"
      /\ HasChunk(t) /\ SlotsIntact(0) /\ result = Null
  BY DEF IInv, TypeOK, ThreadsInv, ParallelInv, ReturnedInv, FinishChunk
<1>2. PICK s \in 1 .. Least(Bound, Capacity - Slot(Chunk(t))) :
        /\ out' = Written(Chunk(t), Slot(Chunk(t)), s)
        /\ nbytes' = [nbytes EXCEPT ![Chunk(t)] = s]
  BY DEF FinishChunk
<1>3. PICK c \in 0 .. NChunks - 1, p \in Nat :
        c = Chunk(t) /\ p = Slot(c) /\ p + Bound <= Capacity
  BY <1>1, ChunkInRange
<1>4. /\ NChunks \in Nat /\ Capacity \in Nat /\ Bound \in Nat
      /\ nbytes \in [0 .. NChunks - 1 -> 0 .. Bound]
      /\ out \in [0 .. Capacity - 1 -> Cells]
  BY <1>1, Types DEF TypeOK
<1>5. s \in Nat /\ s <= Bound
  BY <1>2, <1>3, <1>4 DEF Least
<1>6. /\ \A q \in 0 .. Capacity - 1 :
           out'[q] = IF q \in p .. p + s - 1 THEN <<c, q - p>> ELSE out[q]
      /\ out' \in [0 .. Capacity - 1 -> Cells]
  BY <1>2, <1>3, <1>4, <1>5 DEF Written, Cells
<1>7. /\ nbytes' \in [0 .. NChunks - 1 -> 0 .. Bound]
      /\ nbytes'[c] = s
      /\ \A d \in 0 .. NChunks - 1 : d # c => nbytes'[d] = nbytes[d]
  BY <1>2, <1>3, <1>4, <1>5
<1>8. /\ NChunks' = NChunks /\ Capacity' = Capacity /\ Step' = Step
      /\ ChunksPerThread' = ChunksPerThread
  BY SameCall DEF FinishChunk
<1>9. cnt' \in [0 .. team - 1 -> 0 .. ChunksPerThread]
  <2>1. ChunksPerThread \in Nat /\ cnt \in [0 .. team - 1 -> 0 .. ChunksPerThread]
        /\ cnt[t] < ChunksPerThread
    BY <1>1, CurrentDimensions DEF HasChunk, TypeOK
  <2> QED BY <1>1, <2>1 DEF FinishChunk
<1>10. TypeOK'
  BY <1>1, <1>6, <1>7, <1>8, <1>9 DEF TypeOK, FinishChunk
<1>11. ThreadsInv'
  BY <1>1, <1>8 DEF IInv, TypeOK, ThreadsInv, FinishChunk, HasChunk, Chunk
<1>12. SlotsIntact(0)'
  <2>1. ASSUME NEW d \in 0 .. NChunks - 1, NEW k \in 0 .. nbytes'[d] - 1
        PROVE  out'[Slot(d) + k] = <<d, k>>
    <3>1. /\ Slot(d) \in Nat /\ k \in Nat /\ k < Bound
          /\ Slot(d) + Bound <= Capacity
      <4>1. Slot(d) \in Nat /\ Slot(d) + Bound <= NChunks * Bound
        BY <1>4, NextSlot DEF Slot
      <4>2. k \in Nat /\ k < Bound
        BY <1>4, <1>7
      <4> QED BY <1>1, <4>1, <4>2, Types
    <3>2. CASE d = c
      <4>1. /\ Slot(d) = p /\ k \in 0 .. s - 1 /\ p + k \in 0 .. Capacity - 1
            /\ p + k \in p .. p + s - 1 /\ (p + k) - p = k
        BY <1>3, <1>4, <1>5, <1>7, <3>1, <3>2
      <4>2. out'[p + k] = <<c, (p + k) - p>>
        BY <1>6, <4>1
      <4> QED BY <3>2, <4>1, <4>2
    <3>3. CASE d # c
      <4>1. p + Bound <= Slot(d) \/ Slot(d) + Bound <= p
        <5>1. CASE d < c
          <6>1. d * Bound + Bound <= c * Bound
            BY <1>4, <5>1, NextSlot
          <6> QED BY <1>3, <6>1 DEF Slot
        <5>2. CASE c < d
          <6>1. c * Bound + Bound <= d * Bound
            BY <1>4, <5>2, NextSlot
          <6> QED BY <1>3, <6>1 DEF Slot
        <5> QED BY <1>4, <3>3, <5>1, <5>2
      <4>2. Slot(d) + k \notin p .. p + s - 1
        BY <1>3, <1>5, <3>1, <4>1
      <4>3. out'[Slot(d) + k] = out[Slot(d) + k]
        BY <1>4, <1>6, <3>1, <4>2
      <4>4. out[Slot(d) + k] = <<d, k>>
        BY <1>1, <1>7, <2>1, <3>3 DEF SlotsIntact
      <4> QED BY <4>3, <4>4
    <3> QED BY <3>2, <3>3
  <2> QED BY <1>8, <2>1 DEF SlotsIntact, Slot
<1> QED
  BY <1>1, <1>10, <1>11, <1>12 DEF IInv, FinishChunk, EncodeInv, ParallelInv,
     CompactInv, ReturnedInv, DecodeInv

LEMMA StepFailChunk ==
    ASSUME Lz4Assumption, IInv, NEW t \in DOMAIN cnt, FailChunk(t)
    PROVE  IInv'
<1>1. /\ TypeOK /\ t \in 0 .. team - 1 /\ writing[t] /\ pc = "parallel"
      /\ HasChunk(t) /\ SlotsIntact(0) /\ result = Null
  BY DEF IInv, TypeOK, ThreadsInv, ParallelInv, ReturnedInv, FailChunk
<1>2. PICK c \in 0 .. NChunks - 1 : c = Chunk(t)
  BY <1>1, ChunkInRange
<1>3. /\ NChunks \in Nat /\ Bound \in Nat
      /\ nbytes \in [0 .. NChunks - 1 -> 0 .. Bound]
  BY <1>1, Types DEF TypeOK
<1>4. /\ nbytes' \in [0 .. NChunks - 1 -> 0 .. Bound]
      /\ nbytes'[c] = 0
      /\ \A d \in 0 .. NChunks - 1 : d # c => nbytes'[d] = nbytes[d]
  BY <1>2, <1>3 DEF FailChunk
<1>5. /\ NChunks' = NChunks /\ Capacity' = Capacity /\ Step' = Step
      /\ ChunksPerThread' = ChunksPerThread
  BY SameCall DEF FailChunk
<1>6. cnt' \in [0 .. team - 1 -> 0 .. ChunksPerThread]
  <2>1. ChunksPerThread \in Nat /\ cnt \in [0 .. team - 1 -> 0 .. ChunksPerThread]
        /\ cnt[t] < ChunksPerThread
    BY <1>1, CurrentDimensions DEF HasChunk, TypeOK
  <2> QED BY <1>1, <2>1 DEF FailChunk
<1>7. TypeOK'
  BY <1>1, <1>4, <1>5, <1>6 DEF TypeOK, FailChunk
<1>8. ThreadsInv'
  BY <1>1, <1>5 DEF IInv, TypeOK, ThreadsInv, FailChunk, HasChunk, Chunk
<1>9. SlotsIntact(0)'
  <2>1. ASSUME NEW d \in 0 .. NChunks - 1, NEW k \in 0 .. nbytes'[d] - 1
        PROVE  out'[Slot(d) + k] = <<d, k>>
    <3>1. d # c
      BY <1>4, <2>1
    <3>2. out[Slot(d) + k] = <<d, k>>
      BY <1>1, <1>4, <2>1, <3>1 DEF SlotsIntact
    <3> QED BY <3>2 DEF FailChunk
  <2> QED BY <1>5, <2>1 DEF SlotsIntact, Slot
<1> QED
  BY <1>1, <1>7, <1>8, <1>9 DEF IInv, FailChunk, EncodeInv, ParallelInv,
     CompactInv, ReturnedInv, DecodeInv

LEMMA StepJoin ==
    ASSUME Lz4Assumption, IInv, Join
    PROVE  IInv'
<1>1. /\ TypeOK /\ pc = "parallel" /\ SlotsIntact(0) /\ result = Null
      /\ \A t \in 0 .. team - 1 : ~writing[t]
  BY DEF IInv, TypeOK, ParallelInv, ReturnedInv, Join
<1>2. /\ NChunks \in Nat \ {0} /\ Capacity \in Nat /\ Bound \in Nat \ {0}
      /\ NChunks * Bound <= Capacity
      /\ nbytes \in [0 .. NChunks - 1 -> 0 .. Bound]
  BY <1>1, Types DEF TypeOK
<1>3. /\ NChunks' = NChunks /\ Capacity' = Capacity /\ Step' = Step
      /\ ChunksPerThread' = ChunksPerThread
      /\ out' = out /\ nbytes' = nbytes /\ result' = Null
      /\ writing' = writing /\ team' = team
  BY <1>1, SameCall DEF Join
<1>4. ThreadsInv'
  BY <1>1, <1>3 DEF ThreadsInv
<1>5. CASE total_bytes_written = 0
  <2>1. pc' = "returned" /\ UNCHANGED <<i, value>>
    BY <1>5 DEF Join
  <2>2. TypeOK'
    BY <1>1, <1>3, <2>1 DEF TypeOK, Join
  <2> QED BY <1>3, <1>4, <2>1, <2>2
          DEF IInv, EncodeInv, ParallelInv, CompactInv, ReturnedInv, DecodeInv
<1>6. CASE total_bytes_written # 0
  <2>1. pc' = "compact" /\ i' = 1 /\ value' = nbytes[0]
    BY <1>6 DEF Join
  <2>2. nbytes[0] \in 0 .. Bound /\ Bound <= NChunks * Bound
    <3>1. 0 * Bound + Bound <= NChunks * Bound
      BY <1>2, NextSlot
    <3> QED BY <1>2, <3>1
  <2>3. TypeOK'
    <3>1. value' \in 0 .. Capacity /\ i' \in Nat
      BY <1>2, <2>1, <2>2
    <3> QED BY <1>1, <1>2, <1>3, <2>1, <3>1 DEF TypeOK, Join
  <2>4. Slot(1)' = Bound
    BY <1>2 DEF Slot
  <2>5. PICK s \in 0 .. Bound : s = nbytes[0]
    BY <2>2
  <2>6. Seamless(1, s)'
    <3>1. \A k \in 0 .. s - 1 : out[k] = <<0, k>>
      <4>1. ASSUME NEW k \in 0 .. s - 1 PROVE out[k] = <<0, k>>
        <5>1. 0 \in 0 .. NChunks - 1 /\ Slot(0) + k = k
          BY <1>2, <4>1 DEF Slot
        <5>2. k \in 0 .. nbytes[0] - 1
          BY <2>5, <4>1
        <5>3. out[Slot(0) + k] = <<0, k>>
          BY <1>1, <5>1, <5>2 DEF SlotsIntact
        <5> QED BY <5>1, <5>3
      <4> QED BY <4>1
    <3>2. Seamless(0, 0)
      BY DEF Seamless, NoneWritten
    <3>3. \A k \in 0 .. s - 1 : out'[0 + k] = <<0, k>>
      BY <1>2, <1>3, <3>1
    <3>4. nbytes'[0] = s
      BY <1>3, <2>5
    <3>5. /\ \A q \in 0 .. 0 - 1 :
               out[q][1] \in Int /\ out[q][2] \in Int /\ out'[q] = out[q]
          /\ \A c \in 0 .. 0 - 1 : nbytes[c] \in Nat /\ nbytes'[c] = nbytes[c]
      OBVIOUS
    <3>6. Seamless(0 + 1, 0 + s)'
      <4>1. s \in Nat
        BY <1>2
      <4> QED BY <3>2, <3>3, <3>4, <3>5, <4>1, AppendPiece
    <3> QED BY <1>2, <3>6
  <2>7. Seamless(i, value)'
    BY <2>1, <2>5, <2>6 DEF Seamless, PieceAt
  <2>8. SlotsIntact(1)'
    BY <1>1, <1>3 DEF SlotsIntact, Slot
  <2>9. CompactInv'
    BY <1>2, <1>3, <2>1, <2>2, <2>4, <2>7, <2>8 DEF CompactInv, SlotsIntact, Slot
  <2> QED BY <1>3, <1>4, <2>1, <2>3, <2>9
          DEF IInv, EncodeInv, ParallelInv, ReturnedInv, DecodeInv
<1> QED BY <1>5, <1>6

LEMMA StepMovePiece ==
    ASSUME Lz4Assumption, IInv, MovePiece
    PROVE  IInv'
<1>1. /\ TypeOK /\ pc = "compact" /\ i \in 1 .. NChunks - 1 /\ value <= Slot(i)
      /\ Seamless(i, value) /\ SlotsIntact(i) /\ result = Null /\ ThreadsInv
  BY Types DEF IInv, CompactInv, ReturnedInv, MovePiece
<1>2. /\ NChunks \in Nat \ {0} /\ Capacity \in Nat /\ Bound \in Nat \ {0}
      /\ NChunks * Bound <= Capacity
      /\ nbytes \in [0 .. NChunks - 1 -> 0 .. Bound]
      /\ out \in [0 .. Capacity - 1 -> Cells]
      /\ value \in Nat
  BY <1>1, Types DEF TypeOK
<1>3. PICK n \in 1 .. NChunks - 1, v \in Nat, s \in 0 .. Bound, p \in Nat :
        n = i /\ v = value /\ s = nbytes[i] /\ p = Slot(i)
        /\ v <= p /\ p + Bound <= Capacity
  <2>1. Slot(i) \in Nat /\ Slot(i) + Bound <= NChunks * Bound
    BY <1>1, <1>2, NextSlot DEF Slot
  <2>2. nbytes[i] \in 0 .. Bound
    BY <1>1, <1>2
  <2>3. NChunks * Bound \in Nat
    BY <1>2
  <2>4. Slot(i) + Bound <= Capacity
    BY <1>2, <2>1, <2>3
  <2> QED BY <1>1, <1>2, <2>1, <2>2, <2>4
<1>4. /\ NChunks' = NChunks /\ Capacity' = Capacity /\ Step' = Step
      /\ ChunksPerThread' = ChunksPerThread
      /\ nbytes' = nbytes /\ result' = Null /\ pc' = "compact"
      /\ i' = n + 1 /\ value' = v + s
  BY <1>1, <1>3, SameCall DEF MovePiece
<1>5. \A k \in 0 .. s - 1 : out[p + k] = <<n, k>>
  BY <1>1, <1>2, <1>3 DEF SlotsIntact
<1>6. \A q \in 0 .. Capacity - 1 :
        out'[q] = IF q \in v .. v + s - 1 THEN out[p + q - v] ELSE out[q]
  BY <1>2, <1>3 DEF MovePiece
<1>7. out' \in [0 .. Capacity - 1 -> Cells]
  <2>1. ASSUME NEW q \in 0 .. Capacity - 1 PROVE out'[q] \in Cells
    <3>1. CASE q \in v .. v + s - 1
      <4>1. s \in Nat /\ s <= Bound /\ Bound \in Nat
        BY <1>2
      <4>2. v <= p /\ p + Bound <= Capacity /\ Capacity \in Nat
        BY <1>2, <1>3
      <4>3. q - v \in 0 .. s - 1
        BY <3>1, <4>1
      <4>4. p + (q - v) \in 0 .. Capacity - 1
        BY <4>1, <4>2, <4>3
      <4>5. p + q - v = p + (q - v)
        OBVIOUS
      <4> QED BY <1>2, <1>6, <3>1, <4>4, <4>5
    <3> QED BY <1>2, <1>6, <3>1
  <2>2. /\ DOMAIN out' = 0 .. Capacity - 1
        /\ out' = [q \in 0 .. Capacity - 1 |-> out'[q]]
    BY <1>2 DEF MovePiece
  <2> QED BY <2>1, <2>2
<1>8. \A k \in 0 .. s - 1 : out'[v + k] = <<n, k>>
  <2>1. ASSUME NEW k \in 0 .. s - 1 PROVE out'[v + k] = <<n, k>>
    <3>1. v + k \in 0 .. Capacity - 1 /\ v + k \in v .. v + s - 1
          /\ p + (v + k) - v = p + k
      BY <1>2, <1>3
    <3>2. out'[v + k] = out[p + (v + k) - v]
      BY <1>6, <3>1
    <3> QED BY <1>5, <3>1, <3>2
  <2> QED BY <2>1
<1>9. Seamless(i, value)'
  <2>1. \A q \in 0 .. value - 1 : out'[q] = out[q]
    BY <1>2, <1>3, <1>6
  <2>2. \A k \in 0 .. s - 1 : out'[value + k] = <<i, k>>
    BY <1>3, <1>8
  <2>3. /\ \A c \in 0 .. i - 1 : nbytes'[c] = nbytes[c]
        /\ nbytes'[i] = s /\ i' = i + 1 /\ value' = value + s
        /\ i \in 0 .. NChunks - 1 /\ value <= Capacity
        /\ value + s <= Capacity /\ s \in Nat
    BY <1>1, <1>2, <1>3, <1>4
  <2> QED BY <1>1, <2>1, <2>2, <2>3, Appended
<1>10. SlotsIntact(n + 1)'
  <2>1. ASSUME NEW d \in n + 1 .. NChunks - 1, NEW k \in 0 .. nbytes[d] - 1
        PROVE  out'[Slot(d) + k] = <<d, k>>
    <3>1. Slot(d) \in Nat /\ p + Bound <= Slot(d)
          /\ Slot(d) + Bound <= NChunks * Bound
      <4>1. n * Bound + Bound <= d * Bound /\ d * Bound + Bound <= NChunks * Bound
        BY <1>2, <1>3, <2>1, NextSlot
      <4> QED BY <1>2, <1>3, <2>1, <4>1 DEF Slot
    <3>2. k \in Nat /\ k < Bound
      BY <1>2, <2>1
    <3>3. Slot(d) + k \in 0 .. Capacity - 1 /\ Slot(d) + k \notin v .. v + s - 1
      <4>1. NChunks * Bound \in Nat /\ Slot(d) + Bound <= Capacity
        BY <1>2, <3>1
      <4>2. v + s <= Slot(d) /\ s \in Nat /\ v \in Nat
        BY <1>2, <1>3, <3>1
      <4> QED BY <1>2, <3>1, <3>2, <4>1, <4>2
    <3>4. out'[Slot(d) + k] = out[Slot(d) + k]
      BY <1>6, <3>3
    <3> QED BY <1>1, <1>3, <2>1, <3>4 DEF SlotsIntact
  <2> QED BY <1>4, <2>1 DEF SlotsIntact, Slot
<1>11. (value <= Slot(i))' /\ value' <= Capacity
  <2>1. n * Bound + Bound = (n + 1) * Bound
    BY <1>2
  <2> QED BY <1>2, <1>3, <1>4, <2>1 DEF Slot
<1>12. TypeOK'
  <2>1. value' \in 0 .. Capacity /\ i' \in Nat
    BY <1>2, <1>3, <1>4, <1>11
  <2>2. /\ bytes' = bytes /\ n_threads' = n_threads /\ team' = team
        /\ cnt' = cnt /\ writing' = writing /\ dst' = dst /\ status' = status
        /\ given' = given
    BY DEF MovePiece
  <2> QED BY <1>1, <1>4, <1>7, <2>1, <2>2 DEF TypeOK
<1>13. ThreadsInv'
  BY <1>1 DEF ThreadsInv, MovePiece
<1>14. CompactInv'
  <2>1. i' \in 1 .. NChunks'
    BY <1>2, <1>3, <1>4
  <2>2. SlotsIntact(i)'
    <3>1. i' = n + 1
      BY <1>4
    <3> QED BY <3>1, <1>10 DEF SlotsIntact
  <2> QED BY <2>1, <2>2, <1>9, <1>11 DEF CompactInv
<1> QED
  BY <1>4, <1>12, <1>13, <1>14 DEF IInv, EncodeInv, ParallelInv, ReturnedInv,
                                   DecodeInv

LEMMA StepParallelReturns ==
    ASSUME Lz4Assumption, IInv, ParallelReturns
    PROVE  IInv'
<1>1. /\ TypeOK /\ i = NChunks /\ Seamless(i, value) /\ value \in Nat
      /\ ThreadsInv /\ pc = "compact"
  BY Types DEF IInv, CompactInv, ParallelReturns
<1>2. TypeOK'
  BY <1>1, SameCall DEF TypeOK, ParallelReturns
<1>3. PICK n, end : n = NChunks /\ end = value
  OBVIOUS
<1>4. Seamless(n, end)'
  BY <1>1, <1>3, Kept DEF ParallelReturns
<1>5. NChunks' = n /\ result' \in {end, Null} /\ pc' = "returned"
  BY <1>3, SameCall DEF ParallelReturns
<1>6. result' # Null => result' \in Nat /\ Seamless(NChunks, result)'
  BY <1>1, <1>3, <1>4, <1>5 DEF Seamless, PieceAt
<1>7. ThreadsInv'
  BY <1>1 DEF ThreadsInv, ParallelReturns
<1> QED
  BY <1>1, <1>2, <1>3, <1>5, <1>6, <1>7
     DEF IInv, EncodeInv, ParallelInv, CompactInv, ReturnedInv, DecodeInv

\* The stream that encode returned stays as it is while it is decoded.
LEMMA StreamKept ==
    ASSUME Seamless(NChunks, result),
           UNCHANGED <<out, nbytes, bytes, n_threads, result>>
    PROVE  Seamless(NChunks, result)'
<1>1. PICK n, end : n = NChunks /\ end = result
  OBVIOUS
<1>2. Seamless(n, end)'
  BY <1>1, Kept
<1>3. NChunks' = n /\ result' = end
  BY <1>1, SameCall
<1> QED BY <1>2, <1>3 DEF Seamless, PieceAt

\* Where a piece ends, another one starts, up to the end of the stream.
LEMMA PieceEnd ==
    ASSUME Lz4Assumption, TypeOK, NEW r \in Nat, r <= Capacity,
           Seamless(NChunks, r), NEW p \in 0 .. r - 1, FirstByte(p)
    PROVE  /\ out[p][1] \in 0 .. NChunks - 1
           /\ p + nbytes[out[p][1]] \in p + 1 .. r
           /\ p + nbytes[out[p][1]] < r => FirstByte(p + nbytes[out[p][1]])
<1>1. PieceAt(p, NChunks, r)
  BY DEF Seamless
<1>2. out[p][1] \in 0 .. NChunks - 1 /\ out[p][2] = 0
  BY <1>1 DEF PieceAt, FirstByte
<1>3. nbytes[out[p][1]] \in 0 .. Bound /\ Bound \in Nat
  BY <1>2 DEF TypeOK, Lz4Assumption
<1>4. PICK c \in 0 .. NChunks - 1 : c = out[p][1]
  BY <1>2
<1>5. PICK s \in Nat : s = nbytes[c]
  BY <1>3, <1>4
<1>6. 0 \in 0 .. s - 1 /\ p - 0 + s <= r
      /\ \A k \in 0 .. s - 1 : out[p - 0 + k] = <<c, k>>
  BY <1>1, <1>2, <1>4, <1>5 DEF PieceAt
<1>7. s > 0 /\ p + s <= r /\ p - 0 = p
  BY <1>6
<1>8. out[p + (s - 1)] = <<c, s - 1>>
  <2>1. s - 1 \in 0 .. s - 1
    BY <1>7
  <2> QED BY <1>6, <1>7, <2>1
<1>9. ASSUME p + s < r, ~FirstByte(p + s) PROVE FALSE
  <2>1. PICK x \in 0 .. r - 1 : x = p + s
    BY <1>9, <1>7
  <2>2. PieceAt(x, NChunks, r)
    BY DEF Seamless
  <2>3. out[x][1] \in 0 .. NChunks - 1
        /\ out[x][2] \in 0 .. nbytes[out[x][1]] - 1
    BY <2>2 DEF PieceAt
  <2>4. PICK d \in 0 .. NChunks - 1 : d = out[x][1]
    BY <2>3
  <2>5. nbytes[d] \in Nat
    BY <2>4, <1>3 DEF TypeOK
  <2>6. PICK m \in 0 .. nbytes[d] - 1 : m = out[x][2]
    BY <2>3, <2>4
  <2>7. m \in Nat /\ m > 0
    BY <1>9, <2>1, <2>5, <2>6 DEF FirstByte
  <2>8. \A k \in 0 .. nbytes[d] - 1 : out[x - m + k] = <<d, k>>
    BY <2>2, <2>4, <2>6 DEF PieceAt
  <2>9. m - 1 \in 0 .. nbytes[d] - 1 /\ x - m + (m - 1) = p + (s - 1)
    BY <2>1, <2>5, <2>6, <2>7
  <2>10. out[p + (s - 1)] = <<d, m - 1>>
    BY <2>8, <2>9
  <2>11. c = d /\ s - 1 = m - 1
    BY <1>8, <2>10
  <2> QED BY <1>5, <1>7, <2>6, <2>7, <2>11
<1> QED BY <1>4, <1>5, <1>7, <1>9

\* Where a chunk ends in the input.
LEMMA ChunkEnds ==
    ASSUME Lz4Assumption, TypeOK, NEW c \in 0 .. NChunks - 1
    PROVE  /\ ChunkBytes(c) \in Nat /\ c * Step \in Nat /\ c * Step < bytes
           /\ c * Step + ChunkBytes(c) = Least(bytes, (c + 1) * Step)
<1>1. /\ Step \in Nat \ {0} /\ bytes \in Nat /\ NChunks \in Nat
      /\ NChunks * Step < bytes + Step
  BY CurrentDimensions, LastChunkBegins, Types
<1>2. c * Step + Step <= NChunks * Step /\ c * Step \in Nat
  BY <1>1, NextSlot
<1>3. (c + 1) * Step = c * Step + Step
  BY <1>1
<1>4. c * Step < bytes
  <2>1. NChunks * Step \in Nat
    BY <1>1
  <2> QED BY <1>1, <1>2, <2>1
<1> QED BY <1>1, <1>2, <1>3, <1>4 DEF ChunkBytes, Least

LEMMA StepDecode ==
    ASSUME Lz4Assumption, IInv, StartDecode \/ DecodePiece \/ DecodeCutPiece \/ DecodeReturns
    PROVE  IInv'
<1>1. TypeOK /\ ThreadsInv
  BY DEF IInv
<1>2. /\ UNCHANGED <<out, nbytes, bytes, n_threads, result, team, cnt, writing,
                     value>>
      /\ pc \in {"returned", "decode"} /\ pc' \in {"decode", "decoded"}
  BY DEF StartDecode, DecodePiece, DecodeCutPiece, DecodeReturns
<1>3. Seamless(NChunks, result) /\ result \in Nat /\ result <= Capacity
  BY <1>1, Types DEF IInv, ReturnedInv, TypeOK, StartDecode, DecodePiece,
                     DecodeCutPiece, DecodeReturns, Null
<1>4. Seamless(NChunks, result)'
  BY <1>2, <1>3, StreamKept
<1>5. ThreadsInv'
  BY <1>1, <1>2 DEF ThreadsInv
<1>6. /\ i' \in Nat /\ given' \in Nat /\ dst' \in Nat
      /\ status' \in {Null, 0, 1} /\ DecodeInv'
  <2>1. CASE StartDecode
    <3>1. result > 0 => FirstByte(0)
      <4>1. SUFFICES ASSUME result > 0 PROVE FirstByte(0)
        OBVIOUS
      <4>2. PieceAt(0, NChunks, result)
        BY <1>3, <4>1 DEF Seamless
      <4>3. out[0][2] \in 0 .. nbytes[out[0][1]] - 1 /\ 0 - out[0][2] >= 0
        BY <4>2 DEF PieceAt
      <4>4. 0 \in 0 .. Capacity - 1
        BY <1>1, <1>3, <4>1, Types
      <4> QED BY <1>1, <4>3, <4>4, Types DEF FirstByte
    <3>2. given' \in 0 .. result
      BY <1>3, <2>1 DEF StartDecode
    <3> QED BY <1>1, <1>3, <2>1, <3>1, <3>2
            DEF TypeOK, StartDecode, DecodeInv, FirstByte
  <2>2. CASE DecodePiece
    <3>1. i \in 0 .. result - 1 /\ FirstByte(i) /\ given \in 0 .. result
      BY <1>1, <1>3, <2>2 DEF IInv, DecodeInv, DecodePiece, TypeOK
    <3>2. PICK c \in 0 .. NChunks - 1 : c = out[i][1]
      BY <1>1, <1>3, <3>1, PieceEnd
    <3>3. /\ i + nbytes[c] \in i + 1 .. result
          /\ i + nbytes[c] < result => FirstByte(i + nbytes[c])
      <4>1. PICK p \in 0 .. result - 1 : p = i
        BY <3>1
      <4> QED BY <1>1, <1>3, <3>1, <3>2, <4>1, PieceEnd
    <3>4. ChunkBytes(c) \in Nat
      BY <1>1, ChunkEnds
    <3>5. /\ i' = i + nbytes[c] /\ dst' = dst + ChunkBytes(c) /\ status' = status
          /\ i' <= given /\ given' = given /\ pc' = "decode"
      BY <2>2, <3>2 DEF DecodePiece
    <3>6. i' \in 0 .. given /\ (i' < given => FirstByte(i'))
      <4>1. PICK p \in 0 .. result - 1, q \in Nat : p = i /\ q = i + nbytes[c] /\ q \in p + 1 .. result
        BY <1>3, <3>1, <3>3
      <4>2. q < result => FirstByte(q)
        BY <3>3, <4>1
      <4>3. i' = q /\ q <= given
        BY <3>5, <4>1
      <4> QED BY <1>3, <3>1, <4>1, <4>2, <4>3
    <3>7. i' \in Nat /\ dst' \in Nat /\ given' \in Nat
      BY <1>1, <3>1, <3>4, <3>5, <3>6 DEF TypeOK
    <3>8. DecodeInv'
      BY <1>2, <3>1, <3>5, <3>6 DEF DecodeInv, FirstByte
    <3> QED BY <1>1, <3>5, <3>7, <3>8 DEF TypeOK
  <2>3. CASE DecodeCutPiece
    <3>1. i \in 0 .. result - 1 /\ FirstByte(i) /\ given \in 0 .. result
      BY <1>1, <1>3, <2>3 DEF IInv, DecodeInv, DecodeCutPiece, TypeOK
    <3>2. PICK c \in 0 .. NChunks - 1 : c = out[i][1]
      BY <1>1, <1>3, <3>1, PieceEnd
    <3>3. ChunkBytes(c) \in Nat
      BY <1>1, ChunkEnds
    <3>4. dst' \in Nat
      BY <1>1, <2>3, <3>2, <3>3 DEF TypeOK, DecodeCutPiece
    <3> QED BY <1>1, <2>3, <3>1, <3>4 DEF TypeOK, DecodeInv, DecodeCutPiece
  <2>4. CASE DecodeReturns
    BY <1>1, <2>4 DEF TypeOK, DecodeReturns, DecodeInv, IInv
  <2> QED BY <2>1, <2>2, <2>3, <2>4
<1>7. TypeOK'
  BY <1>1, <1>2, <1>6, SameCall DEF TypeOK
<1> QED
  BY <1>2, <1>3, <1>4, <1>5, <1>6, <1>7
     DEF IInv, EncodeInv, ParallelInv, CompactInv, ReturnedInv

LEMMA StepNextVolume ==
    ASSUME Lz4Assumption, IInv, NextVolume
    PROVE  IInv'
<1>1. bytes' \in 1 .. MaxBytes /\ n_threads' \in 1 .. MaxThreads
  BY DEF IInv, TypeOK, NextVolume
<1>2. /\ Threads' \in 1 .. n_threads' /\ ChunksPerThread' \in Nat \ {0}
      /\ NChunks' \in Nat \ {0} /\ Capacity' \in Nat
  BY <1>1, Dimensions DEF Threads, ChunksPerThread, NChunks, Capacity
<1>3. n_threads' \in Nat /\ Bound \in Nat
  BY <1>1 DEF Lz4Assumption
<1>4. team' \in 1 .. n_threads'
  BY <1>2, <1>3 DEF NextVolume
<1>5. TypeOK'
  <2>1. cnt' \in [0 .. team' - 1 -> 0 .. ChunksPerThread']
    <3>1. 0 \in 0 .. ChunksPerThread'
      BY <1>2
    <3>2. cnt' = [t \in 0 .. team' - 1 |-> 0]
      BY DEF NextVolume
    <3> QED BY <3>1, <3>2
  <2>2. writing' \in [0 .. team' - 1 -> BOOLEAN]
    BY DEF NextVolume
  <2>3. nbytes' \in [0 .. NChunks' - 1 -> 0 .. Bound]
    BY <1>3 DEF NextVolume
  <2>4. out' \in [0 .. Capacity' - 1 -> Cells]
    BY DEF NextVolume, Cells, Empty
  <2>5. /\ i' \in Nat /\ value' \in 0 .. Capacity'
        /\ result' \in {Null} \cup 0 .. Capacity'
        /\ given' \in Nat /\ dst' \in Nat /\ status' \in {Null, 0, 1}
        /\ pc' = "encode"
    BY <1>2 DEF NextVolume
  <2> QED BY <1>1, <1>4, <2>1, <2>2, <2>3, <2>4, <2>5 DEF TypeOK
<1>6. EncodeInv'
  BY <1>2 DEF NextVolume, EncodeInv, Seamless, NoneWritten
<1>7. ThreadsInv'
  BY <1>4 DEF ThreadsInv, NextVolume
<1> QED
  BY <1>5, <1>6, <1>7 DEF IInv, NextVolume, ParallelInv, CompactInv,
                          ReturnedInv, DecodeInv

LEMMA Stutter ==
    ASSUME Lz4Assumption, IInv, UNCHANGED vars
    PROVE  IInv'
<1>1. UNCHANGED <<bytes, n_threads, team, pc, cnt, writing, nbytes, out, i,
                  value, result, given, dst, status>>
  BY DEF vars
<1>2. /\ Step' = Step /\ NChunks' = NChunks /\ Capacity' = Capacity
      /\ ChunksPerThread' = ChunksPerThread /\ Serial' = Serial
  BY <1>1, SameCall DEF Serial
<1>3. TypeOK'
  BY <1>1, <1>2 DEF IInv, TypeOK
<1>4. EncodeInv'
  <2>1. PICK n, end : n = i /\ end = value
    OBVIOUS
  <2>2. Seamless(n, end) => Seamless(n, end)'
    BY <1>1, Kept
  <2>3. Seamless(i, value) => Seamless(i, value)'
    BY <1>1, <2>1, <2>2 DEF Seamless, PieceAt
  <2> QED BY <1>1, <1>2, <2>3 DEF IInv, EncodeInv
<1>5. ThreadsInv'
  BY <1>1, <1>2 DEF IInv, ThreadsInv, HasChunk, Chunk
<1>6. ParallelInv'
  BY <1>1, <1>2 DEF IInv, ParallelInv, SlotsIntact, Slot
<1>7. CompactInv'
  <2>1. PICK n, end : n = i /\ end = value
    OBVIOUS
  <2>2. Seamless(n, end) => Seamless(n, end)'
    BY <1>1, Kept
  <2>3. Seamless(i, value) => Seamless(i, value)'
    BY <1>1, <2>1, <2>2 DEF Seamless, PieceAt
  <2> QED BY <1>1, <1>2, <2>3 DEF IInv, CompactInv, SlotsIntact, Slot
<1>8. ReturnedInv'
  <2>1. Seamless(NChunks, result) => Seamless(NChunks, result)'
    BY <1>1, StreamKept
  <2> QED BY <1>1, <2>1 DEF IInv, ReturnedInv
<1>9. DecodeInv'
  BY <1>1 DEF IInv, DecodeInv, FirstByte
<1> QED BY <1>3, <1>4, <1>5, <1>6, <1>7, <1>8, <1>9 DEF IInv

-----------------------------------------------------------------------------
LEMMA Invariance == Spec => []IInv
<1>1. Init => IInv
  BY InitInv, Lz4Assumption
<1>2. IInv /\ [Next]_vars => IInv'
  <2>1. SUFFICES ASSUME IInv, [Next]_vars PROVE IInv'
    OBVIOUS
  <2>2. CASE \E t \in DOMAIN cnt : Worker(t)
    BY <2>1, <2>2, Lz4Assumption, StepStartChunk, StepFinishChunk,
       StepFailChunk DEF Worker
  <2>3. CASE Caller
    BY <2>1, <2>3, Lz4Assumption, StepSerialChunk, StepSerialFails,
       StepSerialReturns, StepFork, StepJoin, StepMovePiece,
       StepParallelReturns, StepDecode DEF Caller
  <2>4. CASE StartDecode
    BY <2>1, <2>4, Lz4Assumption, StepDecode
  <2>5. CASE NextVolume
    BY <2>1, <2>5, Lz4Assumption, StepNextVolume
  <2>6. CASE UNCHANGED vars
    BY <2>1, <2>6, Lz4Assumption, Stutter
  <2> QED BY <2>1, <2>2, <2>3, <2>4, <2>5, <2>6 DEF Next
<1> QED BY <1>1, <1>2, PTL DEF Spec

\* The state of encoder and decoder keeps its type.
THEOREM TypeCorrect == Spec => []TypeOK
<1>1. IInv => TypeOK
  BY DEF IInv
<1> QED BY <1>1, Invariance, PTL

\* For any input, chunk size and number of threads, the threads of
\* encode_parallel write into disjoint slots inside the caller's buffer.
THEOREM ThreadsNeedNoLock == Spec => []SlotsDisjoint
<1>1. IInv => SlotsDisjoint
  BY SlotsApart, Lz4Assumption
<1> QED BY <1>1, Invariance, PTL

\* remove_blanks never overwrites a piece it has yet to move.
THEOREM CompactionLosesNothing == Spec => []CompactionSafe
<1>1. IInv => CompactionSafe
  BY DEF IInv, CompactInv, CompactionSafe
<1> QED BY <1>1, Invariance, PTL

\* For any input and any schedule of the threads, with or without failing
\* chunks and missing threads, what encode returns is a gapless sequence of
\* whole pieces in the order of the input.
THEOREM SameStreamAsSerial == Spec => []StreamInOrder
<1>1. ASSUME IInv, pc = "returned", result # Null  PROVE Seamless(NChunks, result)
  BY <1>1, Zenon DEF IInv, ReturnedInv
<1>2. IInv => StreamInOrder
  BY <1>1, Zenon DEF StreamInOrder
<1> QED BY <1>2, Invariance, PTL
-----------------------------------------------------------------------------
(* What the division of the work and the decoder add up to *)

\* The bytes decode restores for a chunk, and those it does not.
Restored == [c \in 0 .. NChunks - 1 |-> IF nbytes[c] > 0 THEN ChunkBytes(c) ELSE 0]
Sizes    == [c \in 0 .. NChunks - 1 |-> ChunkBytes(c)]

\* The run of some thread has come by chunk c.
Reached(c) == \E t \in 0 .. team - 1 : c - t * ChunksPerThread \in 0 .. cnt[t] - 1

TeamInv == team = Threads

WorkInv ==
    /\ pc = "encode" /\ Serial => \A c \in 0 .. i - 1 : nbytes[c] > 0
    /\ pc = "compact" \/ (pc \in {"returned", "decode", "decoded"} /\ result # Null) =>
         \A c \in 0 .. NChunks - 1 : nbytes[c] = 0 => Reached(c)

\* What decode has restored at the end of what it is given.
AllRead ==
    \E n \in 0 .. Salvage : dst = SumOver(Restored, 0 .. FirstCut - 1) + n

SumInv ==
    /\ pc = "decode" /\ i < given => dst = SumOver(Restored, 0 .. out[i][1] - 1)
    /\ pc = "decode" /\ i >= given => AllRead
    /\ pc = "decoded" => AllRead /\ status = IF dst > 0 /\ dst <= bytes THEN 0 ELSE 1

CInv == TeamInv /\ WorkInv /\ SumInv

\* The functions that are summed up have integer values.
LEMMA SizesType ==
    ASSUME Lz4Assumption, TypeOK
    PROVE  \A c \in 0 .. NChunks - 1 : Sizes[c] \in Nat /\ Restored[c] \in Nat
BY ChunkEnds DEF Sizes, Restored

\* MapThenSumSet over chunks is the sum of Sizes.
LEMMA SumOfChunks ==
    ASSUME NChunks \in Nat, NEW S, S \subseteq 0 .. NChunks - 1
    PROVE  MapThenSumSet(ChunkBytes, S) = SumOver(Sizes, S)
<1>0. IsFiniteSet(S)
  <2>1. 0 \in Int /\ NChunks - 1 \in Int
    OBVIOUS
  <2>2. IsFiniteSet(0 .. NChunks - 1)
    BY <2>1, FS_Interval
  <2> QED BY <2>2, FS_Subset
<1> DEFINE body(g) == [s \in SUBSET S |->
                IF s = {} THEN 0
                ELSE ChunkBytes(CHOOSE x \in s : TRUE) + g[s \ {CHOOSE x \in s : TRUE}]]
           iter == CHOOSE g : g = body(g)
<1>1. ASSUME NEW s \in SUBSET S, s # {}
      PROVE  ChunkBytes(CHOOSE x \in s : TRUE) = Sizes[CHOOSE x \in s : TRUE]
  <2>1. Pick(s) \in 0 .. NChunks - 1
    BY <1>1, PickOne
  <2>2. ChunkBytes(Pick(s)) = Sizes[Pick(s)]
    BY <2>1 DEF Sizes
  <2> QED BY <2>2 DEF Pick
<1>2. ASSUME NEW g  PROVE g = body(g) <=> SumRec(g, Sizes, S)
  BY <1>1 DEF SumRec, Pick
<1>3. \E g : SumRec(g, Sizes, S)
  BY <1>0, SumRecExists
<1>4. iter = body(iter)
  <2>1. PICK g : SumRec(g, Sizes, S)
    BY <1>3
  <2>2. g = body(g)
    BY <1>2, <2>1, Zenon
  <2> QED BY <2>2, Zenon
<1>5. SumRec(iter, Sizes, S)
  BY <1>2, <1>4
<1>6. MapThenSumSet(ChunkBytes, S) = iter[S]
  BY Zenon DEF MapThenSumSet, MapThenFoldSet
<1>7. PICK g : SumRec(g, Sizes, S) /\ SumOver(Sizes, S) = g[S]
  BY <1>0, SumOverRec
<1>8. S \in SUBSET S
  OBVIOUS
<1> HIDE DEF iter
<1>9. iter[S] = g[S]
  BY <1>0, <1>5, <1>7, <1>8, SumRecSame
<1> QED BY <1>6, <1>7, <1>9

\* The chunks without a piece.
Missing == {c \in 0 .. NChunks - 1 : nbytes[c] = 0}

\* The bytes of the chunks outside M.
AllBut(M) == [c \in 0 .. NChunks - 1 |-> IF c \in M THEN 0 ELSE ChunkBytes(c)]

\* The chunks in M and those outside it add up to the input.
LEMMA PartsAddUp ==
    ASSUME Lz4Assumption, TypeOK, NEW M, M \subseteq 0 .. NChunks - 1
    PROVE  SumOver(AllBut(M), 0 .. NChunks - 1) + SumOver(Sizes, M) = bytes
<1> DEFINE part(n) == {c \in 0 .. n - 1 : c \in M}
           rest == AllBut(M)
           sum(n) == SumOver(rest, 0 .. n - 1) + SumOver(Sizes, part(n))
           B == {n \in 0 .. NChunks : sum(n) # Least(bytes, n * Step)}
<1>1. /\ Step \in Nat \ {0} /\ bytes \in Nat /\ NChunks \in Nat
      /\ bytes <= NChunks * Step
  BY CurrentDimensions, Types
<1>2. \A c \in 0 .. NChunks - 1 :
        /\ Sizes[c] \in Nat /\ rest[c] \in Nat
        /\ rest[c] = IF c \in M THEN 0 ELSE ChunkBytes(c)
  <2>1. \A c \in 0 .. NChunks - 1 : ChunkBytes(c) \in Nat
    BY ChunkEnds
  <2> QED BY <2>1 DEF Sizes, AllBut
<1> HIDE DEF rest
<1>3. ASSUME NEW n \in 0 .. NChunks
      PROVE  /\ IsFiniteSet(part(n)) /\ SumOver(Sizes, part(n)) \in Nat
             /\ SumOver(rest, 0 .. n - 1) \in Nat
  <2>1. IsFiniteSet(0 .. n - 1)
    <3>1. 0 \in Int /\ n - 1 \in Int
      BY <1>1
    <3> QED BY <3>1, FS_Interval
  <2>2. part(n) \subseteq 0 .. n - 1 /\ IsFiniteSet(part(n))
    BY <2>1, FS_Subset
  <2>3. (\A c \in 0 .. n - 1 : rest[c] \in Nat) /\ (\A c \in part(n) : Sizes[c] \in Nat)
    BY <1>1, <1>2
  <2> HIDE DEF part
  <2> QED BY <2>1, <2>2, <2>3, SumOverType
<1>4. ASSUME NEW n \in 0 .. NChunks - 1, sum(n) = Least(bytes, n * Step)
      PROVE  sum(n + 1) = Least(bytes, (n + 1) * Step)
  <2>1. n \in Nat /\ n \in 0 .. NChunks /\ n + 1 \in 0 .. NChunks /\ (n + 1) - 1 = n
    BY <1>1
  <2>2. SumOver(rest, 0 .. (n + 1) - 1) = SumOver(rest, 0 .. n - 1) + rest[n]
    <3>1. \A k \in 0 .. n : rest[k] \in Int
      BY <1>1, <1>2
    <3>2. SumOver(rest, 0 .. n) = SumOver(rest, 0 .. n - 1) + rest[n]
      BY <2>1, <3>1, SumUpTo
    <3> QED BY <2>1, <3>2
  <2>3. /\ ChunkBytes(n) \in Nat /\ n * Step \in Nat /\ n * Step < bytes
        /\ n * Step + ChunkBytes(n) = Least(bytes, (n + 1) * Step)
    BY ChunkEnds
  <2>4. sum(n) = n * Step
    <3>1. Least(bytes, n * Step) = n * Step
      BY <1>1, <2>3 DEF Least
    <3> QED BY <1>4, <3>1, Zenon
  <2>5. CASE n \notin M
    <3>1. part(n + 1) = part(n)
      BY <2>1, <2>5
    <3>2. rest[n] = ChunkBytes(n)
      BY <1>2, <2>5
    <3> HIDE DEF part
    <3> QED BY <1>3, <2>1, <2>2, <2>3, <2>4, <3>1, <3>2
  <2>6. CASE n \in M
    <3>1. part(n + 1) = part(n) \cup {n} /\ n \notin part(n)
      BY <2>1, <2>6
    <3>2. rest[n] = 0 /\ Sizes[n] = ChunkBytes(n)
      BY <1>2, <2>6 DEF Sizes
    <3>3. \A c \in part(n) : Sizes[c] \in Int
      BY <1>1, <1>2
    <3> HIDE DEF part
    <3>4. SumOver(Sizes, part(n) \cup {n}) = Sizes[n] + SumOver(Sizes, part(n))
      <4>1. IsFiniteSet(part(n)) /\ n \notin part(n) /\ Sizes[n] \in Int
        BY <1>3, <2>1, <2>3, <3>1, <3>2
      <4> QED BY <3>3, <4>1, SumOverAdd
    <3>5. SumOver(Sizes, part(n + 1)) = Sizes[n] + SumOver(Sizes, part(n))
      BY <3>1, <3>4, Zenon
    <3> QED BY <1>3, <2>1, <2>2, <2>3, <2>4, <3>2, <3>5
  <2> QED BY <2>5, <2>6
<1>5. sum(0) = Least(bytes, 0 * Step)
  <2>1. part(0) = {} /\ 0 .. 0 - 1 = {}
    OBVIOUS
  <2>2. SumOver(rest, {}) = 0 /\ SumOver(Sizes, {}) = 0
    BY SumOverEmpty
  <2> HIDE DEF part
  <2>3. sum(0) = 0
    BY <2>1, <2>2
  <2> QED BY <1>1, <2>3 DEF Least
<1>6. sum(NChunks) = Least(bytes, NChunks * Step)
  <2> HIDE DEF sum
  <2>1. SUFFICES ASSUME sum(NChunks) # Least(bytes, NChunks * Step) PROVE FALSE
    OBVIOUS
  <2>2. B \subseteq Nat /\ NChunks \in B
    BY <1>1, <2>1
  <2> HIDE DEF B
  <2>3. PICK n \in B : \A m \in B : n <= m
    BY <2>2, NatMin
  <2>4. n \in 0 .. NChunks /\ sum(n) # Least(bytes, n * Step)
    BY DEF B
  <2>5. n # 0
    BY <1>5, <2>4
  <2>6. PICK m \in 0 .. NChunks - 1 : n = m + 1
    <3>1. n - 1 \in 0 .. NChunks - 1 /\ n = (n - 1) + 1
      BY <1>1, <2>4, <2>5
    <3> QED BY <3>1
  <2>7. sum(m) = Least(bytes, m * Step)
    BY <1>1, <2>3, <2>6 DEF B
  <2> QED BY <1>4, <2>4, <2>6, <2>7
<1>7. part(NChunks) = M
  OBVIOUS
<1>8. Least(bytes, NChunks * Step) = bytes
  BY <1>1 DEF Least
<1> HIDE DEF part
<1> QED BY <1>6, <1>7, <1>8 DEF rest

\* With every thread of the team, the runs cover all chunks of the input.
LEMMA RunsCover ==
    ASSUME Lz4Assumption, TypeOK, TeamInv, \A t \in 0 .. team - 1 : ~HasChunk(t),
           NEW c \in 0 .. NChunks - 1
    PROVE  Reached(c)
<1>1. /\ ChunksPerThread \in Nat \ {0} /\ team \in Nat /\ NChunks \in Nat
      /\ Step \in Nat \ {0} /\ bytes \in Nat
      /\ NChunks <= ChunksPerThread * team
      /\ \A t \in 0 .. team - 1 : cnt[t] \in Nat
  <2>1. bytes \in 1 .. MaxBytes /\ n_threads \in 1 .. MaxThreads
    BY DEF TypeOK
  <2>2. NChunks <= ChunksPerThread * Threads
    BY <2>1, Dimensions DEF NChunks, ChunksPerThread, Threads
  <2>3. ChunksPerThread \in Nat
    BY CurrentDimensions
  <2>4. \A t \in 0 .. team - 1 : cnt[t] \in Nat
    BY <2>3 DEF TypeOK
  <2> QED BY <2>2, <2>4, CurrentDimensions, Types DEF TeamInv
<1> DEFINE t == c \div ChunksPerThread
<1>2. /\ t \in Nat /\ t * ChunksPerThread \in Nat
      /\ t * ChunksPerThread <= c /\ c < t * ChunksPerThread + ChunksPerThread
  BY <1>1
<1> HIDE DEF t
<1>3. t \in 0 .. team - 1
  <2>1. SUFFICES ASSUME team <= t PROVE FALSE
    BY <1>1, <1>2
  <2>2. team * ChunksPerThread <= t * ChunksPerThread
    BY <1>1, <1>2, <2>1, Monotone
  <2>3. team * ChunksPerThread = ChunksPerThread * team /\ team * ChunksPerThread \in Nat
    BY <1>1
  <2> QED BY <1>1, <1>2, <2>2, <2>3
<1>4. c - t * ChunksPerThread \in 0 .. cnt[t] - 1
  <2>1. CASE cnt[t] >= ChunksPerThread
    BY <1>1, <1>2, <1>3, <2>1
  <2>2. CASE ~(cnt[t] >= ChunksPerThread)
    <3>1. cnt[t] < ChunksPerThread /\ cnt[t] \in Nat
      BY <1>1, <1>3, <2>2
    <3>2. ~(Chunk(t) * Step < bytes) /\ Chunk(t) = t * ChunksPerThread + cnt[t]
      BY <1>3, <3>1 DEF HasChunk, Chunk
    <3>3. c * Step < bytes
      BY ChunkEnds
    <3>4. Chunk(t) \in Nat
      BY <1>2, <3>1, <3>2
    <3>5. c < Chunk(t)
      <4>1. SUFFICES ASSUME Chunk(t) <= c PROVE FALSE
        BY <3>4
      <4>2. Chunk(t) * Step <= c * Step /\ Chunk(t) * Step \in Nat /\ c * Step \in Nat
        BY <1>1, <3>4, <4>1, Monotone
      <4> QED BY <1>1, <3>2, <3>3, <4>2
    <3> QED BY <1>1, <1>2, <3>1, <3>2, <3>5
  <2> QED BY <2>1, <2>2
<1> QED BY <1>3, <1>4 DEF Reached

LEMMA TeamStep ==
    ASSUME Lz4Assumption, FullTeam, TeamInv, [Next]_vars
    PROVE  TeamInv'
<1>1. CASE NextVolume
  BY <1>1 DEF NextVolume, TeamInv
<1>2. CASE UNCHANGED <<bytes, n_threads, team>>
  BY <1>2, SameCall DEF TeamInv
<1>3. NextVolume \/ UNCHANGED <<bytes, n_threads, team>>
  BY DEF Next, Worker, Caller, StartChunk, FinishChunk, FailChunk, SerialChunk,
         SerialFails, SerialReturns, Fork, Join, MovePiece, ParallelReturns,
         StartDecode, DecodePiece, DecodeCutPiece, DecodeReturns, vars
<1> QED BY <1>1, <1>2, <1>3

\* The second part of WorkInv speaks of what only the region changes.
AllReached == \A c \in 0 .. NChunks - 1 : nbytes[c] = 0 => Reached(c)

LEMMA ReachedKept ==
    ASSUME AllReached, UNCHANGED <<bytes, n_threads, team, cnt, nbytes>>
    PROVE  AllReached'
BY SameCall DEF AllReached, Reached

LEMMA WorkStep ==
    ASSUME Lz4Assumption, IInv, TeamInv, WorkInv, [Next]_vars
    PROVE  WorkInv'
<1>0. /\ TypeOK
      /\ pc \in {"encode", "parallel", "compact"} => result = Null
      /\ NChunks \in Nat
  BY Types DEF IInv, ReturnedInv
<1>1. CASE SerialChunk
  <2>1. i \in 0 .. NChunks - 1 /\ \A c \in 0 .. i - 1 : nbytes[c] > 0
    BY <1>0, <1>1, Types DEF SerialChunk, WorkInv
  <2>2. PICK s \in 1 .. Least(Bound, Capacity - value) : nbytes' = [nbytes EXCEPT ![i] = s]
    BY <1>1 DEF SerialChunk
  <2>3. Least(Bound, Capacity - value) \in Int
    BY <1>0, Types DEF Least
  <2>4. \A c \in 0 .. i : nbytes'[c] > 0
    BY <1>0, <2>1, <2>2, <2>3, Types
  <2>5. i' = i + 1 /\ pc' = "encode"
    BY <1>1 DEF SerialChunk
  <2> QED BY <1>0, <2>1, <2>4, <2>5 DEF WorkInv
<1>2. CASE SerialFails \/ Fork \/ NextVolume
  BY <1>0, <1>2 DEF SerialFails, Fork, NextVolume, WorkInv
<1>3. CASE SerialReturns
  <2>1. \A c \in 0 .. NChunks - 1 : nbytes[c] > 0
    BY <1>3 DEF SerialReturns, WorkInv
  <2>2. nbytes' = nbytes /\ NChunks' = NChunks /\ pc' = "returned"
    BY <1>3, SameCall DEF SerialReturns
  <2>3. \A c \in 0 .. NChunks - 1 : nbytes[c] # 0
    BY <1>0, <2>1, Types
  <2> QED BY <2>2, <2>3 DEF WorkInv
<1>4. CASE \E t \in DOMAIN cnt : Worker(t)
  <2>1. pc = "parallel" /\ pc' = "parallel"
    BY <1>0, <1>4, Types DEF IInv, ThreadsInv, Worker, StartChunk, FinishChunk, FailChunk
  <2> QED BY <2>1 DEF WorkInv
<1>5. CASE Join
  <2>1. CASE pc' = "returned"
    BY <1>0, <1>5, <2>1 DEF Join, WorkInv
  <2>2. CASE pc' = "compact"
    <3>1. \A t \in 0 .. team - 1 : ~HasChunk(t)
      BY <1>0, <1>5, Types DEF Join
    <3>2. AllReached
      BY <1>0, <3>1, RunsCover DEF AllReached
    <3>3. AllReached'
      BY <1>5, <3>2, ReachedKept DEF Join
    <3> QED BY <2>2, <3>3 DEF WorkInv, AllReached
  <2> QED BY <1>5, <2>1, <2>2 DEF Join
<1>6. CASE MovePiece \/ ParallelReturns \/ StartDecode \/ DecodePiece
           \/ DecodeCutPiece \/ DecodeReturns
  <2>1. /\ pc = "compact" \/ (pc \in {"returned", "decode"} /\ result # Null)
        /\ UNCHANGED <<bytes, n_threads, team, cnt, nbytes>>
        /\ pc' # "encode"
    BY <1>0, <1>6 DEF MovePiece, ParallelReturns, StartDecode, DecodePiece,
       DecodeCutPiece, DecodeReturns, IInv, ReturnedInv, Null
  <2>2. AllReached
    BY <2>1 DEF WorkInv, AllReached
  <2>3. AllReached'
    BY <2>1, <2>2, ReachedKept
  <2> QED BY <2>1, <2>3 DEF WorkInv, AllReached
<1>7. CASE UNCHANGED vars
  <2>1. UNCHANGED <<bytes, n_threads, team, cnt, nbytes, pc, i, result>>
    BY <1>7 DEF vars
  <2>2. Serial' = Serial
    BY <2>1, SameCall
  <2>3. AllReached => AllReached'
    BY <2>1, ReachedKept
  <2> QED BY <2>1, <2>2, <2>3 DEF WorkInv, AllReached
<1> QED BY <1>1, <1>2, <1>3, <1>4, <1>5, <1>6, <1>7 DEF Next, Caller

\* What the decoder has restored when it is at the piece of a chunk.
LEMMA FirstPiece ==
    ASSUME Lz4Assumption, TypeOK, NEW r \in Nat, r <= Capacity, Seamless(NChunks, r)
    PROVE  SumOver(Restored, 0 .. (IF r > 0 THEN out[0][1] ELSE NChunks) - 1) = 0
<1>1. /\ NChunks \in Nat /\ Capacity \in Nat
      /\ \A c \in 0 .. NChunks - 1 : Restored[c] \in Nat
      /\ 0 < Capacity => out[0][1] \in Int /\ out[0][2] \in Int
  BY SizesType, Types
<1>2. PICK c \in 0 .. NChunks :
        /\ c = IF r > 0 THEN out[0][1] ELSE NChunks
        /\ NoneWritten(0 .. c - 1)
  <2>1. CASE r > 0
    <3>1. PieceAt(0, NChunks, r)
      BY <2>1 DEF Seamless
    <3>2. out[0][1] \in 0 .. NChunks - 1 /\ out[0][2] \in 0 .. nbytes[out[0][1]] - 1
          /\ 0 - out[0][2] >= 0
      BY <3>1 DEF PieceAt
    <3>3. out[0][2] = 0 /\ NoneWritten(0 .. out[0][1] - 1)
      BY <1>1, <2>1, <3>1, <3>2 DEF PieceAt
    <3> QED BY <1>1, <2>1, <3>2, <3>3
  <2>2. CASE r = 0
    BY <1>1, <2>2 DEF Seamless
  <2> QED BY <2>1, <2>2
<1>3. \A k \in 0 .. c - 1 : Restored[k] \in Int /\ Restored[k] = 0
  BY <1>1, <1>2 DEF NoneWritten, Restored
<1>4. SumOver(Restored, 0 .. c - 1) = SumOver(Restored, 0 .. 0 - 1)
  BY <1>2, <1>3, SumGap
<1>5. 0 .. 0 - 1 = {}
  OBVIOUS
<1>6. SumOver(Restored, 0 .. 0 - 1) = 0
  BY <1>5, SumOverEmpty
<1> QED BY <1>2, <1>4, <1>6

LEMMA NextPiece ==
    ASSUME Lz4Assumption, TypeOK, NEW r \in Nat, r <= Capacity, Seamless(NChunks, r),
           NEW p \in 0 .. r - 1, FirstByte(p),
           NEW c, c = out[p][1], NEW q, q = p + nbytes[c]
    PROVE  SumOver(Restored, 0 .. (IF q < r THEN out[q][1] ELSE NChunks) - 1)
             = SumOver(Restored, 0 .. c - 1) + ChunkBytes(c)
<1>1. /\ NChunks \in Nat /\ Capacity \in Nat
      /\ \A k \in 0 .. NChunks - 1 : Restored[k] \in Nat /\ nbytes[k] \in Nat
  BY SizesType, Types
<1>2. /\ c \in 0 .. NChunks - 1 /\ c \in Nat /\ c + 1 \in 1 .. NChunks /\ nbytes[c] > 0
      /\ p \in Nat /\ q \in Nat /\ q \in p + 1 .. r
      /\ q < r => FirstByte(q)
  <2>1. /\ c \in 0 .. NChunks - 1
        /\ p + nbytes[c] \in p + 1 .. r
        /\ p + nbytes[c] < r => FirstByte(p + nbytes[c])
    BY PieceEnd
  <2>2. nbytes[c] \in Nat
    BY <1>1, <2>1
  <2> QED BY <1>1, <2>1, <2>2
<1>3. out[q - 1] = <<c, nbytes[c] - 1>>
  <2>1. PieceAt(p, NChunks, r)
    BY DEF Seamless
  <2>2. out[p][2] = 0 /\ \A k \in 0 .. nbytes[c] - 1 : out[p - 0 + k] = <<c, k>>
    BY <2>1 DEF PieceAt, FirstByte
  <2>3. nbytes[c] - 1 \in 0 .. nbytes[c] - 1 /\ p - 0 + (nbytes[c] - 1) = q - 1
    BY <1>1, <1>2
  <2>4. out[p - 0 + (nbytes[c] - 1)] = <<c, nbytes[c] - 1>>
    BY <2>2, <2>3
  <2> QED BY <2>3, <2>4
<1>4. PICK d \in c + 1 .. NChunks :
        /\ d = IF q < r THEN out[q][1] ELSE NChunks
        /\ NoneWritten(c + 1 .. d - 1)
  <2>1. CASE q < r
    <3>1. PICK x \in 0 .. r - 1 : x = q
      BY <1>2, <2>1
    <3>2. PieceAt(x, NChunks, r)
      BY DEF Seamless
    <3>3. out[x][2] = 0 /\ x # 0
      BY <1>2, <2>1, <3>1 DEF FirstByte
    <3>4. /\ out[x][1] \in 0 .. NChunks - 1
          /\ out[x - 0 - 1][1] < out[x][1]
          /\ NoneWritten(out[x - 0 - 1][1] + 1 .. out[x][1] - 1)
      BY <3>2, <3>3 DEF PieceAt
    <3>5. out[x - 0 - 1][1] = c
      <4>1. x - 0 - 1 = q - 1
        BY <1>2, <3>1
      <4> QED BY <1>3, <4>1
    <3>6. PICK d \in 0 .. NChunks - 1 : d = out[x][1]
      BY <3>4
    <3>7. d \in c + 1 .. NChunks /\ NoneWritten(c + 1 .. d - 1)
      BY <1>1, <1>2, <3>4, <3>5, <3>6
    <3> QED BY <2>1, <3>1, <3>6, <3>7
  <2>2. CASE q = r
    <3>1. r # 0
      OBVIOUS
    <3>2. NoneWritten(out[r - 1][1] + 1 .. NChunks - 1)
      BY <3>1 DEF Seamless
    <3>3. out[r - 1][1] = c
      BY <1>3, <2>2
    <3>4. NChunks \in c + 1 .. NChunks /\ NoneWritten(c + 1 .. NChunks - 1)
      BY <1>1, <1>2, <3>2, <3>3
    <3> QED BY <1>2, <2>2, <3>4
  <2> QED BY <1>2, <2>1, <2>2
<1>5. Restored[c] = ChunkBytes(c)
  BY <1>1, <1>2 DEF Restored
<1>6. SumOver(Restored, 0 .. c) = SumOver(Restored, 0 .. c - 1) + Restored[c]
  <2>1. c \in Nat /\ \A k \in 0 .. c : Restored[k] \in Int
    BY <1>1, <1>2
  <2> QED BY <2>1, SumUpTo
<1>7. SumOver(Restored, 0 .. d - 1) = SumOver(Restored, 0 .. c)
  <2>1. c + 1 \in Nat /\ d \in Nat /\ c + 1 <= d /\ (c + 1) - 1 = c
    <3>1. d \in c + 1 .. NChunks /\ c \in Nat /\ NChunks \in Nat
      BY <1>1, <1>2
    <3> QED BY <3>1
  <2>2. \A k \in 0 .. d - 1 : Restored[k] \in Int
    BY <1>1, <1>4
  <2>3. \A k \in c + 1 .. d - 1 : Restored[k] = 0
    <3>1. \A k \in c + 1 .. d - 1 : nbytes[k] = 0 /\ k \in 0 .. NChunks - 1
      BY <1>1, <1>2, <1>4, <2>1 DEF NoneWritten
    <3> QED BY <3>1 DEF Restored
  <2>4. SumOver(Restored, 0 .. d - 1) = SumOver(Restored, 0 .. (c + 1) - 1)
    BY <2>1, <2>2, <2>3, SumGap
  <2> QED BY <2>1, <2>4
<1> QED BY <1>4, <1>5, <1>6, <1>7

\* The sums of what decode has restored depend on the stream only.
LEMMA SameStream ==
    ASSUME UNCHANGED <<bytes, n_threads, nbytes, out, result, given>>
    PROVE  /\ Restored' = Restored /\ NChunks' = NChunks
           /\ FirstCut' = FirstCut /\ Salvage' = Salvage
BY SameCall DEF Restored, ChunkBytes, FirstCut, Salvage

\* Where decode stops at the end of a piece, it has read all it is given.
LEMMA StopsBetween ==
    ASSUME Lz4Assumption, TypeOK, given \in 0 .. result, result \in Nat, result <= Capacity,
           given < result => FirstByte(given), NChunks \in Nat,
           NEW d, d = SumOver(Restored, 0 .. (IF given < result THEN out[given][1] ELSE NChunks) - 1),
           d \in Nat
    PROVE  \E n \in 0 .. Salvage : d = SumOver(Restored, 0 .. FirstCut - 1) + n
<1>1. Salvage = 0
  BY DEF Salvage, FirstByte
<1>2. d = SumOver(Restored, 0 .. FirstCut - 1)
  BY DEF FirstCut
<1> QED BY <1>1, <1>2

LEMMA SumStep ==
    ASSUME Lz4Assumption, IInv, SumInv, [Next]_vars
    PROVE  SumInv'
<1>1. /\ TypeOK
      /\ pc \in {"decode", "decoded"} \/ (pc = "returned" /\ result # Null) =>
           result \in Nat /\ result <= Capacity /\ Seamless(NChunks, result)
      /\ NChunks \in Nat
  BY Types DEF IInv, ReturnedInv, TypeOK, Null
<1>2. ASSUME UNCHANGED <<bytes, n_threads, nbytes>>
      PROVE  Restored' = Restored /\ NChunks' = NChunks
  BY <1>2, SameCall DEF Restored, ChunkBytes
<1>3. CASE StartDecode
  <2>1. SumOver(Restored, 0 .. (IF result > 0 THEN out[0][1] ELSE NChunks) - 1) = 0
    BY <1>1, <1>3, FirstPiece DEF StartDecode
  <2>2. /\ pc' = "decode" /\ i' = 0 /\ dst' = 0 /\ result' = result /\ out' = out
        /\ given' \in 0 .. result
        /\ Restored' = Restored /\ NChunks' = NChunks /\ result \in Nat
    BY <1>1, <1>2, <1>3 DEF StartDecode
  <2>3. i' < given' => dst' = SumOver(Restored', 0 .. out'[i'][1] - 1)
    BY <2>1, <2>2
  <2>4. ASSUME i' >= given' PROVE AllRead'
    <3>1. given' = 0
      BY <2>2, <2>4
    <3>2. Salvage' = 0
      <4>1. CASE result = 0
        BY <2>2, <3>1, <4>1 DEF Salvage
      <4>2. CASE result > 0
        <5>1. PieceAt(0, NChunks, result)
          BY <1>1, <1>3, <4>2 DEF StartDecode, Seamless
        <5>2. out[0][2] \in Int /\ ~(out[0][2] > 0)
          BY <1>1, <1>3, <4>2, <5>1, Types DEF PieceAt, StartDecode
        <5> QED BY <2>2, <3>1, <5>2 DEF Salvage
      <4> QED BY <2>2, <4>1, <4>2
    <3>3. SumOver(Restored', 0 .. FirstCut' - 1) = 0
      BY <2>1, <2>2, <3>1 DEF FirstCut
    <3> QED BY <2>2, <3>2, <3>3 DEF AllRead
  <2> QED BY <2>2, <2>3, <2>4 DEF SumInv
<1>4. CASE DecodePiece
  <2>1. /\ i \in 0 .. result - 1 /\ FirstByte(i) /\ dst = SumOver(Restored, 0 .. out[i][1] - 1)
        /\ result \in Nat /\ given \in 0 .. result
    BY <1>1, <1>4 DEF IInv, DecodeInv, SumInv, DecodePiece, TypeOK
  <2>2. PICK p, c : p \in 0 .. result - 1 /\ p = i /\ c = out[i][1]
    BY <2>1
  <2>3. PICK q : q = p + nbytes[c]
    OBVIOUS
  <2>4. SumOver(Restored, 0 .. (IF q < result THEN out[q][1] ELSE NChunks) - 1)
             = SumOver(Restored, 0 .. c - 1) + ChunkBytes(c)
    BY <1>1, <1>4, <2>1, <2>2, <2>3, NextPiece DEF DecodePiece
  <2>5. /\ pc' = "decode" /\ i' = q /\ dst' = SumOver(Restored, 0 .. c - 1) + ChunkBytes(c)
        /\ result' = result /\ out' = out /\ given' = given /\ q <= given
        /\ Restored' = Restored /\ NChunks' = NChunks
        /\ FirstCut' = FirstCut /\ Salvage' = Salvage
    BY <1>2, <1>4, <2>1, <2>2, <2>3, SameStream DEF DecodePiece
  <2>6. q \in Nat /\ (q < result => FirstByte(q))
    <3>1. /\ p + nbytes[c] \in p + 1 .. result
          /\ p + nbytes[c] < result => FirstByte(p + nbytes[c])
      BY <1>1, <1>4, <2>1, <2>2, PieceEnd DEF DecodePiece
    <3> QED BY <2>1, <2>2, <2>3, <3>1
  <2>7. dst' \in Nat
    <3>1. IInv'
      BY <1>4, StepDecode
    <3> QED BY <3>1 DEF IInv, TypeOK
  <2>8. ASSUME q >= given PROVE AllRead'
    <3>1. q = given
      BY <2>1, <2>5, <2>6, <2>8
    <3>2. dst' = SumOver(Restored, 0 .. (IF given < result THEN out[given][1] ELSE NChunks) - 1)
      BY <2>4, <2>5, <3>1
    <3>3. \E n \in 0 .. Salvage : dst' = SumOver(Restored, 0 .. FirstCut - 1) + n
      <4>1. PICK d : d = dst'
        OBVIOUS
      <4> QED BY <1>1, <1>4, <2>1, <2>6, <2>7, <3>1, <3>2, <4>1, StopsBetween DEF DecodePiece
    <3> QED BY <2>5, <3>3 DEF AllRead
  <2>9. q < given => dst' = SumOver(Restored, 0 .. out[q][1] - 1)
    BY <2>1, <2>4, <2>5, <2>6
  <2> QED BY <2>5, <2>8, <2>9 DEF SumInv
<1>5. CASE DecodeCutPiece
  <2>1. /\ i \in 0 .. result - 1 /\ FirstByte(i) /\ dst = SumOver(Restored, 0 .. out[i][1] - 1)
        /\ result \in Nat /\ given \in 0 .. result /\ i < given
    BY <1>1, <1>5 DEF IInv, DecodeInv, SumInv, DecodeCutPiece, TypeOK
  <2>2. PICK c \in 0 .. NChunks - 1 : c = out[i][1]
    BY <1>1, <1>5, <2>1, PieceEnd DEF DecodeCutPiece
  <2>3. PICK s \in Nat : s = nbytes[c]
    <3>1. nbytes[c] \in 0 .. Bound /\ Bound \in Nat
      BY <1>1, <2>2, Types
    <3> QED BY <3>1
  <2>4. /\ i + s \in i + 1 .. result /\ given < i + s
        /\ \A k \in 0 .. s - 1 : out[i + k] = <<c, k>>
    <3>1. i + nbytes[c] \in i + 1 .. result
      BY <1>1, <1>5, <2>1, <2>2, PieceEnd DEF DecodeCutPiece
    <3>2. PieceAt(i, NChunks, result)
      BY <1>1, <1>5, <2>1 DEF DecodeCutPiece, Seamless
    <3>3. out[i][2] = 0 /\ i - 0 = i
      BY <2>1 DEF FirstByte
    <3>4. \A k \in 0 .. nbytes[c] - 1 : out[i + k] = <<c, k>>
      BY <2>2, <3>2, <3>3 DEF PieceAt
    <3>5. given < i + nbytes[c]
      BY <1>5, <2>1, <2>2, <2>3 DEF DecodeCutPiece
    <3> QED BY <2>3, <3>1, <3>4, <3>5
  <2>5. out[given] = <<c, given - i>>
    <3>1. given - i \in 0 .. s - 1 /\ i + (given - i) = given
      BY <2>1, <2>3, <2>4
    <3> QED BY <2>4, <3>1
  <2>6. FirstCut = c /\ Salvage = ChunkBytes(c)
    <3>1. given < result /\ given - i > 0
      BY <2>1, <2>3, <2>4
    <3> QED BY <2>5, <3>1 DEF FirstCut, Salvage
  <2>7. PICK n \in 0 .. ChunkBytes(c) : dst' = dst + n
    BY <1>5, <2>2 DEF DecodeCutPiece
  <2>8. /\ pc' = "decode" /\ i' = given /\ given' = given
        /\ Restored' = Restored /\ FirstCut' = FirstCut /\ Salvage' = Salvage
    BY <1>5, SameStream DEF DecodeCutPiece
  <2>9. AllRead'
    BY <2>1, <2>2, <2>6, <2>7, <2>8 DEF AllRead
  <2> QED BY <2>1, <2>8, <2>9 DEF SumInv
<1>6. CASE DecodeReturns
  <2>1. /\ pc' = "decoded" /\ dst' = dst /\ AllRead /\ bytes' = bytes
        /\ status' = IF dst > 0 /\ dst <= bytes THEN 0 ELSE 1
        /\ Restored' = Restored /\ FirstCut' = FirstCut /\ Salvage' = Salvage
    BY <1>6, SameStream DEF SumInv, DecodeReturns
  <2> QED BY <2>1 DEF SumInv, AllRead
<1>7. CASE UNCHANGED vars
  <2>1. /\ UNCHANGED <<pc, i, dst, out, result, given, status, bytes>>
        /\ Restored' = Restored /\ FirstCut' = FirstCut /\ Salvage' = Salvage
    BY <1>7, SameStream DEF vars
  <2> QED BY <2>1 DEF SumInv, AllRead
<1>8. CASE (\E t \in DOMAIN cnt : Worker(t)) \/ SerialChunk \/ SerialFails \/ SerialReturns
           \/ Fork \/ Join \/ MovePiece \/ ParallelReturns \/ NextVolume
  <2>1. pc' \notin {"decode", "decoded"}
    <3>1. ASSUME NEW t \in DOMAIN cnt, Worker(t) PROVE pc' = "parallel"
      BY <1>1, <3>1, Types DEF IInv, ThreadsInv, Worker, StartChunk, FinishChunk, FailChunk
    <3> QED BY <1>8, <3>1 DEF SerialChunk, SerialFails, SerialReturns, Fork, Join,
                              MovePiece, ParallelReturns, NextVolume
  <2> QED BY <2>1 DEF SumInv
<1> QED BY <1>3, <1>4, <1>5, <1>6, <1>7, <1>8 DEF Next, Caller

\* What decode has restored, what a thread has given up on and what is behind
\* the cut add up.
LEMMA Accounted ==
    ASSUME Lz4Assumption, IInv, CInv
    PROVE  DecodeAccounts
<1> DEFINE lost == GivenUp \cup CutOff
           kept == SumOver(Restored, 0 .. FirstCut - 1)
<1>1. SUFFICES ASSUME pc = "decoded"
               PROVE  /\ dst + MapThenSumSet(ChunkBytes, lost) \in bytes .. bytes + Salvage
                      /\ status = 0 <=> dst > 0
  BY DEF DecodeAccounts
<1>2. /\ TypeOK /\ NChunks \in Nat /\ DOMAIN cnt = 0 .. team - 1 /\ result # Null
      /\ result \in Nat /\ result <= Capacity /\ Seamless(NChunks, result)
      /\ given \in 0 .. result /\ dst \in Nat /\ bytes \in Nat
  BY <1>1, Types DEF IInv, ReturnedInv, DecodeInv, TypeOK, Null
<1>3. PICK n \in 0 .. Salvage : dst = kept + n
  BY <1>1 DEF CInv, SumInv, AllRead
<1>4. \A c \in 0 .. NChunks - 1 : nbytes[c] = 0 => Reached(c)
  BY <1>1, <1>2 DEF CInv, WorkInv
<1>5. GivenUp = Missing
  BY <1>2, <1>4 DEF GivenUp, Missing, Reached
<1>6. FirstCut \in 0 .. NChunks /\ (given < result => FirstCut < NChunks)
  <2>1. given < result => PieceAt(given, NChunks, result)
    BY <1>2 DEF Seamless
  <2> QED BY <1>2, <2>1 DEF FirstCut, PieceAt
<1>7. lost \subseteq 0 .. NChunks - 1
  BY DEF GivenUp, CutOff
<1>8. MapThenSumSet(ChunkBytes, lost) = SumOver(Sizes, lost)
  BY <1>2, <1>7, SumOfChunks
<1>9. SumOver(AllBut(lost), 0 .. NChunks - 1) + SumOver(Sizes, lost) = bytes
  BY <1>2, <1>7, PartsAddUp
<1>10. SumOver(AllBut(lost), 0 .. NChunks - 1) = kept
  <2>0. \A c \in 0 .. NChunks - 1 : ChunkBytes(c) \in Nat /\ Restored[c] \in Nat /\ nbytes[c] \in Nat
    <3>1. \A c \in 0 .. NChunks - 1 : nbytes[c] \in 0 .. Bound /\ Bound \in Nat
      BY <1>2, Types
    <3>2. \A c \in 0 .. NChunks - 1 : ChunkBytes(c) \in Nat /\ Restored[c] \in Nat
      BY <1>2, ChunkEnds, SizesType
    <3> QED BY <3>1, <3>2
  <2>1. PICK k \in Nat, b \in Nat, f \in {AllBut(lost)} : k = FirstCut /\ b = NChunks /\ f = AllBut(lost) /\ k <= b
    BY <1>2, <1>6
  <2>2. \A c \in 0 .. b - 1 : f[c] \in Int
    BY <2>0, <2>1 DEF AllBut
  <2>3. \A c \in k .. b - 1 : f[c] = 0
    BY <2>1 DEF AllBut, CutOff
  <2>4. SumOver(f, 0 .. b - 1) = SumOver(f, 0 .. k - 1)
    <3>1. k \in Nat /\ b \in Nat /\ k <= b
      BY <2>1
    <3> QED BY ONLY <2>2, <2>3, <3>1, SumGap
  <2>5. \A c \in 0 .. k - 1 : f[c] = Restored[c]
    <3>1. ASSUME NEW c \in 0 .. k - 1 PROVE f[c] = Restored[c]
      <4>1. c \in 0 .. NChunks - 1 /\ c \notin CutOff /\ (c \in lost <=> nbytes[c] = 0)
        BY <1>5, <2>1 DEF CutOff, Missing
      <4> QED BY <2>0, <2>1, <4>1 DEF AllBut, Restored
    <3> QED BY <3>1
  <2>6. IsFiniteSet(0 .. k - 1)
    <3>1. 0 \in Int /\ k - 1 \in Int
      OBVIOUS
    <3> QED BY <3>1, FS_Interval
  <2>7. SumOver(f, 0 .. k - 1) = SumOver(Restored, 0 .. k - 1)
    BY <2>5, <2>6, SumOverSame
  <2> QED BY <2>1, <2>4, <2>7
<1>11. kept \in Nat /\ SumOver(Sizes, lost) \in Nat /\ Salvage <= SumOver(Sizes, lost)
       /\ Salvage \in Nat
  <2>0. \A c \in 0 .. NChunks - 1 : /\ Sizes[c] \in Nat /\ Sizes[c] = ChunkBytes(c)
                                    /\ Restored[c] \in Nat
    BY <1>2, SizesType DEF Sizes
  <2>1. IsFiniteSet(lost) /\ IsFiniteSet(0 .. FirstCut - 1)
    <3>1. 0 \in Int /\ NChunks - 1 \in Int /\ FirstCut - 1 \in Int
      BY <1>2, <1>6
    <3>2. IsFiniteSet(0 .. NChunks - 1) /\ IsFiniteSet(0 .. FirstCut - 1)
      BY <3>1, FS_Interval
    <3> QED BY <1>7, <3>2, FS_Subset
  <2>2. \A c \in lost : Sizes[c] \in Nat
    BY <1>7, <2>0
  <2>3. \A c \in 0 .. FirstCut - 1 : Restored[c] \in Nat
    BY <1>2, <1>6, <2>0
  <2>4. kept \in Nat
    BY <2>1, <2>3, SumOverType
  <2> HIDE DEF lost
  <2>5. SumOver(Sizes, lost) \in Nat
    BY <2>1, <2>2, SumOverType
  <2>6. CASE Salvage = 0
    BY <2>4, <2>5, <2>6
  <2>7. CASE Salvage # 0
    <3>1. given < result /\ Salvage = ChunkBytes(FirstCut)
      BY <2>7 DEF Salvage
    <3>2. PICK x \in 0 .. NChunks - 1 : x = FirstCut
      BY <1>2, <1>6, <3>1
    <3>3. x \in lost
      BY <1>2, <3>2 DEF lost, CutOff
    <3>4. PICK S : S = lost \ {x}
      OBVIOUS
    <3>5. IsFiniteSet(S) /\ x \notin S /\ S \cup {x} = lost
      BY <2>1, <3>3, <3>4, FS_Subset
    <3>6. \A y \in S : Sizes[y] \in Nat
      BY <2>2, <3>4
    <3>7. SumOver(Sizes, S) \in Nat
      BY <3>5, <3>6, SumOverType
    <3>8. Sizes[x] \in Nat /\ Sizes[x] = Salvage
      BY <2>0, <3>1, <3>2
    <3>9. \A y \in S : Sizes[y] \in Int
      BY <3>6
    <3>10. SumOver(Sizes, S \cup {x}) = Sizes[x] + SumOver(Sizes, S)
      <4>1. Sizes[x] \in Int
        BY <3>8
      <4> QED BY ONLY <3>5, <3>9, <4>1, SumOverAdd
    <3>11. SumOver(Sizes, lost) = Sizes[x] + SumOver(Sizes, S)
      BY ONLY <3>5, <3>10, Zenon
    <3> QED BY <2>4, <2>5, <3>7, <3>8, <3>11
  <2> QED BY <2>6, <2>7
<1>12. status = IF dst > 0 /\ dst <= bytes THEN 0 ELSE 1
  BY <1>1 DEF CInv, SumInv
<1> HIDE DEF lost, kept
<1>13. PICK m \in Nat : m = SumOver(Sizes, lost)
  BY <1>11
<1> QED BY <1>2, <1>3, <1>8, <1>9, <1>10, <1>11, <1>12, <1>13

\* With every thread it asks OpenMP for, encode_parallel leaves no chunk out
\* but those whose compression has failed, and decode misses nothing else but
\* what is behind the end of the stream it is given; it reports an error only
\* when it has written nothing.
THEOREM EveryByteAccounted ==
    ASSUME FullTeam
    PROVE  Spec => []DecodeAccounts
<1>1. Init => CInv
  BY DEF Init, CInv, TeamInv, WorkInv, SumInv
<1>2. IInv /\ CInv /\ [Next]_vars => CInv'
  BY Lz4Assumption, TeamStep, WorkStep, SumStep DEF CInv
<1>3. IInv /\ CInv => DecodeAccounts
  BY Lz4Assumption, Accounted
<1> QED BY <1>1, <1>2, <1>3, Invariance, PTL DEF Spec
=============================================================================
