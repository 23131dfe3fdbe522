-------------------------------- MODULE Video --------------------------------
(***************************************************************************)
(* The video sinks h264_scheme and hevc_scheme: the loops of                 *)
(* ffmpeg_video_encode_impl.hpp that feed frames to a codec of FFmpeg and    *)
(* fetch what it has ready, then or when it is flushed, and the frames of    *)
(* video_utils.hpp, which carry 16-bit voxels as 8 bits of luminance above   *)
(* a minimum in the first colour plane.                                      *)
(*                                                                         *)
(* The codec is external: it holds back up to Delay frames, gives them back  *)
(* in order, one packet for one frame, and may fail at any call.  One volume *)
(* is encoded and decoded.                                                   *)
(***************************************************************************)
EXTENDS Integers, Sequences, FiniteSetsExt, TLC

CONSTANTS Jobs,     \* [sink, payload, width, h, w, frames]: what is encoded
          Delay     \* bound: frames a codec holds back

ASSUME VideoAssumption ==
    /\ Delay \in Nat
    /\ \A j \in Jobs : j.width \in {1, 2} /\ j.h \in Nat \ {0} /\ j.w \in Nat \ {0}

VARIABLES pc,
          job,      \* the volume and its sink
          z,        \* frames fed to the encoder
          held,     \* frames inside the codec
          buffer,   \* packets of the stream
          written,  \* what encode_stack_with_context returned, in packets
          next,     \* packets read by the decoder
          known,    \* the decoder has seen the width and the height
          out,      \* frames in the decoded volume
          faulty,   \* a call of the decoder failed
          ret       \* what decode returned

vars == <<pc, job, z, held, buffer, written, next, known, out, faulty, ret>>

SUCCESS == 0
FAILURE == 1
None == -1

-----------------------------------------------------------------------------
(* options *)

\* The constructors: what reaches the codec of the text in the brackets, as a
\* function.  (h264 parses its text after it has put the defaults in.)
H264Options(payload) ==
    ("threads" :> "1") @@ IF payload = << >> THEN [preset |-> "ultrafast", qp |-> "0"] ELSE payload
HevcOptions(payload) ==
    IF payload = << >> THEN [preset |-> "ultrafast", profile |-> "main", lossless |-> "1"]
    ELSE payload

Lossless ==
    LET given == IF job.sink = "h264" THEN H264Options(job.payload) ELSE HevcOptions(job.payload)
        key   == IF job.sink = "h264" THEN "qp" ELSE "lossless" IN
    key \in DOMAIN given /\ given[key] = IF job.sink = "h264" THEN "0" ELSE "1"

-----------------------------------------------------------------------------
(* frames: voxels row by row, y and x from 0 *)

Voxels(h, w) == (0 .. h - 1) \X (0 .. w - 1)

\* Voxels of 8 or 16 bits, without a sign.
Intensity == {x \in Nat : x < 65536}

ASSUME FramesAssumption ==
    \A j \in Jobs : j.frames \in Seq([Voxels(j.h, j.w) -> Intensity])

RangeToY(frame) == [y |-> frame, c |-> << >>]
YToRange(av) == av.y

\* Mutant of BlockMin: the row below is not looked at.
BlockMinTop(h, w, frame, v) ==
    Min({frame[<<2 * (v[1] \div 2), x>>] : x \in {x \in 0 .. w - 1 : x \div 4 = v[2] \div 4}})

\* The minimum over four columns of two rows, or of the last one alone.
BlockMin(h, w, frame, v) ==
    Min({frame[u] : u \in {u \in Voxels(h, w) : u[1] \div 2 = v[1] \div 2 /\ u[2] \div 4 = v[2] \div 4}})

RangeToYuv420(h, w, frame) ==
    LET min == [v \in Voxels(h, w) |-> BlockMin(h, w, frame, v)] IN
    [y |-> [v \in Voxels(h, w) |-> (frame[v] - min[v]) % 256],
     c |-> [v \in Voxels(h, w) |-> <<min[v] \div 256, min[v] % 256>>]]

Yuv420ToRange(h, w, av) ==
    [v \in Voxels(h, w) |-> (av.y[v] + 256 * av.c[v][1] + av.c[v][2]) % 65536]

EncodeFrameAs(frame) ==
    IF job.width = 1 THEN RangeToY(frame) ELSE RangeToYuv420(job.h, job.w, frame)
DecodeFrameAs(av) ==
    IF job.width = 1 THEN YToRange(av) ELSE Yuv420ToRange(job.h, job.w, av)

\* What a codec that is not lossless gives back.
Blurred(av) == [av EXCEPT !.y = [v \in DOMAIN av.y |-> 0]]
Coded(av) == IF Lossless THEN av ELSE Blurred(av)

-----------------------------------------------------------------------------
(* encode *)

Init ==
    /\ pc = "open" /\ job \in Jobs
    /\ z = 0 /\ held = <<>> /\ buffer = <<>> /\ written = None
    /\ next = 0 /\ known = FALSE /\ out = <<>> /\ faulty = FALSE /\ ret = None

decoding == <<next, known, out, faulty, ret>>

\* The dynamic range of 16-bit voxels is below 17 bits always: no guard.
EncodeReturns(size) ==
    /\ written' = size
    /\ pc' = "input"

\* The codec may not open; 16-bit frames have a width that is a multiple of 4.
OpenEncoder ==
    /\ pc = "open"
    /\ \/ EncodeReturns(0)
       \/ /\ job.width = 2 => job.w % 4 = 0
          /\ pc' = "frame" /\ UNCHANGED written
    /\ UNCHANGED <<job, z, held, buffer, decoding>>

\* The codec takes in what it is given and gives back the oldest frame, if any.
Takes(given) ==
    \E got \in {g \in 0 .. 1 : g <= Len(held \o given) /\ Len(held \o given) - g <= Delay} :
        /\ held' = SubSeq(held \o given, got + 1, Len(held \o given))
        /\ buffer' = buffer \o SubSeq(held \o given, 1, got)

EncodeFrame ==
    /\ pc = "frame" /\ z < Len(job.frames)
    /\ \/ EncodeReturns(0) /\ UNCHANGED <<z, held, buffer>>
       \/ /\ Takes(<<Coded(EncodeFrameAs(job.frames[z + 1]))>>)
          /\ z' = z + 1 /\ UNCHANGED <<pc, written>>
    /\ UNCHANGED <<job, decoding>>

\* The delayed frames, until the codec has none.
EncodeDelayed ==
    /\ pc = "frame" /\ z = Len(job.frames)
    /\ \/ EncodeReturns(0) /\ UNCHANGED <<held, buffer>>
       \/ /\ held # <<>>
          /\ held' = Tail(held) /\ buffer' = Append(buffer, Head(held))
          /\ UNCHANGED <<pc, written>>
       \/ /\ held = <<>> /\ EncodeReturns(Len(buffer)) /\ UNCHANGED <<held, buffer>>
    /\ UNCHANGED <<job, z, decoding>>

\* What encode copies to its output.
Stream == IF written > 0 THEN buffer ELSE <<>>

-----------------------------------------------------------------------------
(* decode *)

Returns(code) == ret' = code /\ pc' = "done"

\* The input, a stream in it and a codec for it: not in an empty stream.
Found == Stream # <<>>

OpenInput ==
    /\ pc = "input"
    /\ held' = <<>>
    /\ IF Found THEN pc' = "packet" /\ UNCHANGED ret ELSE Returns(FAILURE)
    /\ UNCHANGED <<job, z, buffer, written, next, known, out, faulty>>

\* What is left of the stream to be read.
Unread == SubSeq(Stream, next + 1, Len(Stream))

\* decode_frame fills the volume from where the last frame ended.
Fill(av) == out' = Append(out, DecodeFrameAs(av))

\* A packet, and the oldest frame if one is finished; a packet that fails is
\* passed over, and nobody is told.  The first that does not fail gives the
\* width and the height.
ReadPacket ==
    /\ pc = "packet" /\ Unread # <<>>
    /\ next' = next + 1
    /\ \/ faulty' = TRUE /\ UNCHANGED <<held, known, out>>
       \/ LET all == Append(held, Head(Unread)) IN
          /\ known' = TRUE
          /\ \/ Len(all) <= Delay /\ held' = all /\ UNCHANGED out
             \/ held' = Tail(all) /\ Fill(Head(all))
          /\ UNCHANGED faulty
    /\ UNCHANGED <<pc, job, z, buffer, written, ret>>

Code ==
    LET bytes == Len(out) * job.h * job.w * job.width IN
    IF known /\ bytes > 0 /\ Len(out) <= Len(job.frames) THEN SUCCESS ELSE FAILURE

\* The cached frames, until the codec has none or fails.
FlushPacket ==
    /\ pc = "packet" /\ Unread = <<>>
    /\ \/ faulty' = TRUE /\ Returns(Code) /\ UNCHANGED <<held, known, out>>
       \/ held = <<>> /\ Returns(Code) /\ UNCHANGED <<held, known, out, faulty>>
       \/ /\ held # <<>>
          /\ held' = Tail(held) /\ Fill(Head(held))
          /\ UNCHANGED <<pc, known, faulty, ret>>
    /\ UNCHANGED <<job, z, buffer, written, next>>

Done == pc = "done" /\ UNCHANGED vars

Next ==
    \/ OpenEncoder \/ EncodeFrame \/ EncodeDelayed \/ OpenInput
    \/ ReadPacket \/ FlushPacket \/ Done

Spec == Init /\ [][Next]_vars

-----------------------------------------------------------------------------
(* Properties *)

\* Eight bits of luminance hold what is above the minimum of a block.
Exact(frame, v) == job.width = 1 \/ frame[v] - BlockMin(job.h, job.w, frame, v) < 256

\* Whatever the codecs hold back: decode returns SUCCESS for a stream of any
\* bytes, the frames are all there and in their order, and each voxel is the
\* one encoded, if the options are lossless and its block spans less than 256
\* values.  An encoder that fails or cannot take the volume leaves a stream for
\* which decode fails.  (Not so when the decoder fails: then frames are missing
\* and decode may return SUCCESS all the same.)
VideoRestored ==
    pc = "done" /\ ~faulty =>
        IF written = 0 THEN ret = FAILURE
        ELSE /\ ret = SUCCESS
             /\ Len(out) = Len(job.frames)
             /\ Lossless => \A k \in DOMAIN out : \A v \in Voxels(job.h, job.w) :
                   Exact(job.frames[k], v) => out[k][v] = job.frames[k][v]
=============================================================================
