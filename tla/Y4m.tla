--------------------------------- MODULE Y4m ---------------------------------
(***************************************************************************)
(* The video files of yuv_utils.hpp: stacks written as y4m and yuv and read  *)
(* back.  A stack is [bits, shape, px]: its shape is <<d, h, w>>, its voxels *)
(* a sequence, row by row.  What follows the first line of a y4m file is a   *)
(* sequence of bytes and of FRAME, the line that begins a frame.             *)
(***************************************************************************)
EXTENDS Integers, Sequences, SequencesExt

CONSTANT FRAME      \* the line "FRAME", not a byte

ASSUME FrameAssumption == FRAME \in Int \ (0 .. 255)

D(shape) == shape[1]
H(shape) == shape[2]
W(shape) == shape[3]
FrameSize(shape) == H(shape) * W(shape)

Zeros(n) == [i \in 1 .. n |-> 0]
Frame(data, n, z) == SubSeq(data, (z - 1) * n + 1, z * n)

\* The bytes of a stack in memory, the low byte of a voxel first.
InMemory(s) ==
    IF s.bits = 8 THEN s.px
    ELSE [i \in 1 .. 2 * Len(s.px) |->
            IF i % 2 = 1 THEN s.px[(i + 1) \div 2] % 256 ELSE s.px[i \div 2] \div 256]

-----------------------------------------------------------------------------
(* writing *)

\* yuv420formatter::write_stack: a frame of bytes, whatever a voxel has.
WriteStack420(s) ==
    LET n == FrameSize(s.shape)
        written == [z \in 1 .. D(s.shape) |->
            <<FRAME>> \o SubSeq(InMemory(s), (z - 1) * n * (s.bits \div 8) + 1,
                                            (z - 1) * n * (s.bits \div 8) + n)
                      \o Zeros(n \div 2)]
    IN FlattenSeq(written)

WriteStack444As8(s) ==
    LET n == FrameSize(s.shape)
        written == [z \in 1 .. D(s.shape) |->
            <<FRAME>> \o Frame(s.px, n, z) \o Zeros(2 * n)]
    IN FlattenSeq(written)

\* The low bytes are the luminance, the high bytes the first chroma plane.
WriteStack444As16(s) ==
    LET n == FrameSize(s.shape)
        written == [z \in 1 .. D(s.shape) |->
            <<FRAME>> \o [i \in 1 .. n |-> Frame(s.px, n, z)[i] % 256]
                        \o [i \in 1 .. n |-> Frame(s.px, n, z)[i] \div 256] \o Zeros(n)]
    IN FlattenSeq(written)

WriteStack444(s) == IF s.bits = 8 THEN WriteStack444As8(s) ELSE WriteStack444As16(s)

Y4mFile(s, code) ==
    [kind |-> "y4m", code |-> code, h |-> H(s.shape), w |-> W(s.shape),
     bytes |-> IF code = "C420" THEN WriteStack420(s) ELSE WriteStack444(s)]

\* write_stack_as_yuv: no header and no titles, the shape is in the name.
YuvFile(s) ==
    LET n == FrameSize(s.shape)
        written == [z \in 1 .. D(s.shape) |->
            Frame(s.px, n, z) \o Zeros(n \div 2)]
    IN [kind |-> "yuv", bytes |-> FlattenSeq(written)]

-----------------------------------------------------------------------------
(* reading *)

\* The first line with FRAME in it, 0 if there is none.
Title(stream, p) == SelectInSubSeq(stream, p, Len(stream), LAMBDA b : b = FRAME)

\* getline until a line has FRAME in it, then n bytes of luminance and skip
\* bytes more: the frames of a stream.
FramesOf(stream, n, skip) ==
    LET read[p \in 1 .. Len(stream) + n + skip + 1] ==
          LET q == Title(stream, p) IN
          IF q = 0 THEN << >>
          ELSE <<SubSeq(stream, q + 1, q + n + skip)>> \o read[q + 1 + n + skip]
    IN read[1]

\* Mutant of Luminance: the destination does not advance with the frames.
LuminanceAgain(file) ==
    LET n == file.h * file.w
        frames == FramesOf(file.bytes, n, 0)
    IN [bits |-> 8, shape |-> <<Len(frames), file.h, file.w>>,
        px |-> FlattenSeq([z \in 1 .. Len(frames) |-> frames[1]])]

\* yuv420formatter::read_stack, and yuv444formatter::read_stack_8.
Luminance(file) ==
    LET n == file.h * file.w
        frames == FramesOf(file.bytes, n, 0)
    IN [bits |-> 8, shape |-> <<Len(frames), file.h, file.w>>, px |-> FlattenSeq(frames)]

\* yuv444formatter::read_stack_16.
LuminanceAndChroma(file) ==
    LET n == file.h * file.w
        frames == FramesOf(file.bytes, n, n)
    IN [bits |-> 16, shape |-> <<Len(frames), file.h, file.w>>,
        px |-> FlattenSeq([z \in 1 .. Len(frames) |->
                             [i \in 1 .. n |-> frames[z][i] + 256 * frames[z][n + i]]])]

\* read_y4m_to_gray, into bytes or into words.
Y4mToGray(file, bits) ==
    IF bits = 8 THEN Luminance(file)
    ELSE IF file.code = "C444" THEN LuminanceAndChroma(file)
    ELSE [bits |-> 16, shape |-> <<0, file.h, file.w>>, px |-> << >>]

Digits(n) == IF n < 10 THEN 1 ELSE IF n < 100 THEN 2 ELSE 3

\* Bytes in a file: the header is 44 characters and the digits of its numbers.
FileSize(file) ==
    IF file.kind = "y4m"
    THEN 44 + Digits(file.w) + Digits(file.h) + Len(file.bytes)
         + 5 * Len(SelectSeq(file.bytes, LAMBDA b : b = FRAME))
    ELSE Len(file.bytes)

IsY4mFile(file) == file.kind = "y4m"
IsYuvFile(file) == FileSize(file) % 4 = 0

\* What a file holds when nothing but its bytes is looked at.
PlainBytes(file) ==
    IF file.kind = "yuv" THEN file.bytes
    ELSE Zeros(44 + Digits(file.w) + Digits(file.h))
         \o FlattenSeq([i \in 1 .. Len(file.bytes) |->
              IF file.bytes[i] = FRAME THEN <<70, 82, 65, 77, 69, 10>> ELSE <<file.bytes[i]>>])

\* read_yuv_to_gray8, for a width and height that were found.
YuvToGray8(file, h, w) ==
    LET n == h * w
        step == (3 * n) \div 2
        plain == PlainBytes(file)
        frames == Len(plain) \div step
    IN [bits |-> 8, shape |-> <<frames, h, w>>,
        px |-> FlattenSeq([f \in 1 .. frames |-> SubSeq(plain, (f - 1) * step + 1, (f - 1) * step + n)])]
=============================================================================
