----------------------------- MODULE Video_proof -----------------------------
(***************************************************************************)
(* Theorems: about Video, for volumes of any size and number of frames, any    *)
(* options and a codec that holds back any number of frames; and about       *)
(* CommandLine, whose verbs keep stacks as y4m and yuv, for stacks of any    *)
(* size, any files and any command lines.                                    *)
(***************************************************************************)
EXTENDS Video, CommandLine, SequenceTheorems, Sums

-----------------------------------------------------------------------------
(* Frames in flight *)

\* The volume as the codec gives it back, and as decode turns it into voxels.
Pictures == [k \in 1 .. Len(job.frames) |-> Coded(EncodeFrameAs(job.frames[k]))]
Restorations == [k \in 1 .. Len(job.frames) |-> DecodeFrameAs(Pictures[k])]

\* s is the part of p that follows its first k elements.
Slice(s, p, k) ==
    /\ s \in Seq({p[i] : i \in 1 .. Len(p)})
    /\ k + Len(s) <= Len(p)
    /\ \A i \in 1 .. Len(s) : s[i] = p[k + i]

\* What follows the first element of a slice is a slice.
LEMMA TailSlice ==
    ASSUME NEW p, Len(p) \in Nat, NEW k \in Nat, NEW s, Slice(s, p, k), s # <<>>
    PROVE  /\ Slice(Tail(s), p, k + 1)
           /\ Len(Tail(s)) = Len(s) - 1
           /\ Head(s) = p[k + 1]
<1> DEFINE S == {p[i] : i \in 1 .. Len(p)}
<1>1. s \in Seq(S) /\ Len(s) \in Nat /\ Len(s) # 0 /\ Len(p) \in Nat
  BY DEF Slice
<1> HIDE DEF S
<1>2. /\ Tail(s) \in Seq(S) /\ Len(Tail(s)) = Len(s) - 1
      /\ \A i \in 1 .. Len(Tail(s)) : Tail(s)[i] = s[i + 1]
  BY <1>1, HeadTailProperties
<1>3. Head(s) = s[1]
  BY <1>1
<1>4. \A i \in 1 .. Len(s) - 1 : Tail(s)[i] = p[k + 1 + i]
  <2> TAKE i \in 1 .. Len(s) - 1
  <2>1. i + 1 \in 1 .. Len(s) /\ k + (i + 1) = k + 1 + i
    BY <1>1
  <2> QED BY <1>2, <2>1 DEF Slice
<1> QED BY <1>1, <1>2, <1>3, <1>4 DEF Slice, S

\* A slice grows by the element that follows it.
LEMMA AppendSlice ==
    ASSUME NEW p, Len(p) \in Nat, NEW k \in Nat, NEW s, Slice(s, p, k),
           k + Len(s) < Len(p), NEW e, e = p[k + Len(s) + 1]
    PROVE  /\ Slice(Append(s, e), p, k)
           /\ Len(Append(s, e)) = Len(s) + 1
           /\ Append(s, e) # <<>>
<1> DEFINE S == {p[i] : i \in 1 .. Len(p)}
<1>1. s \in Seq(S) /\ Len(s) \in Nat /\ Len(p) \in Nat
  BY DEF Slice
<1>2. e \in S
  BY <1>1
<1> HIDE DEF S
<1>3. /\ Append(s, e) \in Seq(S) /\ Len(Append(s, e)) = Len(s) + 1
      /\ Append(s, e) # <<>>
      /\ \A i \in 1 .. Len(s) : Append(s, e)[i] = s[i]
      /\ Append(s, e)[Len(s) + 1] = e
  BY <1>1, <1>2, AppendProperties
<1>4. \A i \in 1 .. Len(s) + 1 : Append(s, e)[i] = p[k + i]
  <2> TAKE i \in 1 .. Len(s) + 1
  <2>1. CASE i \in 1 .. Len(s)
    BY <1>3, <2>1 DEF Slice
  <2>2. CASE i = Len(s) + 1
    BY <1>1, <1>3, <2>2
  <2> QED BY <1>1, <2>1, <2>2
<1> QED BY <1>1, <1>3, <1>4 DEF Slice, S

\* The empty sequence is a slice anywhere.
LEMMA EmptySlice ==
    ASSUME NEW p, Len(p) \in Nat, NEW k \in 0 .. Len(p)
    PROVE  Slice(<<>>, p, k) /\ Len(<<>>) = 0
BY DEF Slice

\* A function on 1 .. n is a sequence of n elements.
LEMMA FunctionAsSequence ==
    ASSUME NEW n \in Nat, NEW T, NEW f \in [1 .. n -> T]
    PROVE  Len(f) = n /\ f \in Seq(T)
OBVIOUS

\* Pictures and Restorations have one element for each frame.
LEMMA Lengths ==
    ASSUME job \in Jobs
    PROVE  /\ Len(job.frames) \in Nat
           /\ Len(Pictures) = Len(job.frames)
           /\ Len(Restorations) = Len(job.frames)
<1> DEFINE n == Len(job.frames)
           S == {Coded(EncodeFrameAs(job.frames[k])) : k \in 1 .. n}
           T == {DecodeFrameAs(Pictures[k]) : k \in 1 .. n}
<1>1. n \in Nat
  BY FramesAssumption
<1>2. Pictures \in [1 .. n -> S]
  BY DEF Pictures
<1>3. Restorations \in [1 .. n -> T]
  BY DEF Restorations
<1> HIDE DEF n, S, T
<1>4. Len(Pictures) = n /\ Pictures \in Seq(S)
  BY <1>1, <1>2, FunctionAsSequence
<1>5. Len(Restorations) = n /\ Restorations \in Seq(T)
  BY <1>1, <1>3, FunctionAsSequence
<1> QED BY <1>1, <1>4, <1>5 DEF n

-----------------------------------------------------------------------------
(* The inductive invariant *)

\* What was fed is in the stream or in the codec, in its order.
FeedInv ==
    pc \in {"open", "frame"} =>
        /\ z \in 0 .. Len(job.frames) /\ (pc = "open" => z = 0)
        /\ Len(buffer) + Len(held) = z
        /\ Slice(buffer, Pictures, 0)
        /\ Slice(held, Pictures, Len(buffer))

\* A stream that encode returned is the whole volume.
StreamInv ==
    pc \in {"input", "packet", "done"} /\ written # 0 =>
        /\ written = Len(job.frames) /\ Len(buffer) = Len(job.frames)
        /\ Slice(buffer, Pictures, 0)

\* Nothing is decoded before the input is open.
IdleInv ==
    pc \in {"open", "frame", "input"} =>
        next = 0 /\ out = <<>>

\* What was read is in the volume or in the codec, in its order.
PacketInv ==
    pc = "packet" =>
        /\ written # 0 /\ Len(job.frames) # 0
        /\ next \in 0 .. Len(buffer)
        /\ ~faulty =>
              /\ Len(out) + Len(held) = next
              /\ Slice(out, Restorations, 0)
              /\ Slice(held, Pictures, Len(out))
              /\ next # 0 => known = TRUE

\* A decoder that did not fail has restored every frame.
DoneInv ==
    pc = "done" /\ ~faulty =>
        IF written = 0 \/ Len(job.frames) = 0 THEN ret = FAILURE
        ELSE /\ ret = SUCCESS
             /\ Slice(out, Restorations, 0)
             /\ Len(out) = Len(job.frames)

IInv ==
    /\ job \in Jobs
    /\ pc \in {"open", "frame", "input", "packet", "done"}
    /\ FeedInv
    /\ StreamInv
    /\ IdleInv
    /\ PacketInv
    /\ DoneInv

\* The volume and the options do not change.
LEMMA SameJob ==
    ASSUME job' = job
    PROVE  Pictures' = Pictures /\ Restorations' = Restorations
<1>1. Lossless' = Lossless
  BY DEF Lossless
<1>2. Pictures' = Pictures
  BY <1>1 DEF Pictures, Coded, EncodeFrameAs
<1> QED BY <1>2 DEF Restorations, DecodeFrameAs

LEMMA InvInit ==
    ASSUME Init
    PROVE  IInv
<1>1. job \in Jobs /\ pc = "open" /\ z = 0 /\ held = <<>> /\ buffer = <<>>
  BY Zenon DEF Init
<1>2. Len(Pictures) \in Nat /\ Len(job.frames) \in Nat
  BY <1>1, Lengths
<1>3. Slice(<<>>, Pictures, 0) /\ Len(<<>>) = 0
  BY <1>2, EmptySlice
<1>4. FeedInv
  BY <1>1, <1>2, <1>3 DEF FeedInv
<1>5. IdleInv
  BY Zenon DEF IdleInv, Init
<1> QED BY <1>1, <1>4, <1>5 DEF IInv, StreamInv, PacketInv, DoneInv

LEMMA InvOpenEncoder ==
    ASSUME IInv, OpenEncoder
    PROVE  IInv'
<1> USE DEF OpenEncoder, decoding
<1>1. job' = job /\ buffer' = buffer /\ held' = held /\ pc = "open" /\ pc' \in {"input", "frame"}
  BY DEF EncodeReturns
<1>2. Pictures' = Pictures /\ Restorations' = Restorations
  BY <1>1, SameJob
<1>3. FeedInv'
  BY <1>1, <1>2 DEF IInv, FeedInv
<1>4. StreamInv'
  BY <1>1 DEF StreamInv, EncodeReturns
<1>5. IdleInv'
  BY <1>1 DEF IInv, IdleInv
<1> QED BY <1>1, <1>3, <1>4, <1>5 DEF IInv, PacketInv, DoneInv

\* A codec keeps what it is given behind what it has.
LEMMA InvEncodeFrame ==
    ASSUME IInv, EncodeFrame
    PROVE  IInv'
<1> USE DEF EncodeFrame, decoding
<1>1. /\ job' = job /\ job \in Jobs /\ pc = "frame" /\ pc' \in {"input", "frame"}
      /\ z \in 0 .. Len(job.frames) /\ z < Len(job.frames)
  BY DEF EncodeReturns, IInv, FeedInv
<1>2. Pictures' = Pictures /\ Restorations' = Restorations
  BY <1>1, SameJob
<1>3. Len(job.frames) \in Nat /\ Len(Pictures) = Len(job.frames)
  BY <1>1, Lengths
<1>4. IdleInv'
  BY <1>1 DEF IInv, IdleInv
<1>5. CASE EncodeReturns(0)
  <2>1. pc' = "input" /\ written' = 0
    BY <1>5 DEF EncodeReturns
  <2> QED BY <1>1, <1>4, <2>1 DEF IInv, FeedInv, StreamInv, PacketInv, DoneInv
<1>6. CASE ~ EncodeReturns(0)
  <2> DEFINE e == Coded(EncodeFrameAs(job.frames[z + 1]))
  <2>1. Takes(<<e>>) /\ z' = z + 1 /\ pc' = "frame"
    BY <1>1, <1>6
  <2>2. e = Pictures[z + 1]
    BY <1>1, <1>3 DEF Pictures
  <2> HIDE DEF e
  <2>3. /\ Slice(buffer, Pictures, 0) /\ Slice(held, Pictures, Len(buffer))
        /\ Len(buffer) + Len(held) = z /\ Len(buffer) \in Nat /\ Len(held) \in Nat
    BY <1>1 DEF IInv, FeedInv, Slice
  <2> DEFINE all == Append(held, e)
  <2>4. Slice(all, Pictures, Len(buffer)) /\ Len(all) = Len(held) + 1 /\ all # <<>>
    <3>1. /\ e = Pictures[Len(buffer) + Len(held) + 1]
          /\ Len(buffer) + Len(held) < Len(Pictures)
      BY <1>1, <1>3, <2>2, <2>3
    <3> QED BY <1>3, <2>3, <3>1, AppendSlice
  <2>5. held \o <<e>> = all
    BY <2>2, <2>3, <1>1, <1>3 DEF Slice
  <2> HIDE DEF all
  <2>6. PICK got \in 0 .. 1 :
          /\ held' = SubSeq(all, got + 1, Len(all))
          /\ buffer' = buffer \o SubSeq(all, 1, got)
    BY <2>1, <2>5 DEF Takes
  <2>7. CASE got = 0
    <3>1. held' = all /\ buffer' = buffer
      <4>1. all \in Seq({Pictures[i] : i \in 1 .. Len(Pictures)}) /\ buffer \in Seq({Pictures[i] : i \in 1 .. Len(Pictures)})
        BY <2>3, <2>4 DEF Slice
      <4>2. SubSeq(all, 1, Len(all)) = all
        BY <4>1, SubSeqFull
      <4>3. SubSeq(all, 1, 0) = <<>>
        BY <4>1, SubSeqEmpty
      <4>4. buffer \o <<>> = buffer
        BY <4>1
      <4>5. held' = SubSeq(all, 1, Len(all)) /\ buffer' = buffer \o SubSeq(all, 1, 0)
        BY <2>6, <2>7
      <4> QED BY <4>2, <4>3, <4>4, <4>5
    <3>2. FeedInv'
      BY <1>1, <1>2, <1>3, <2>1, <2>3, <2>4, <3>1 DEF FeedInv
    <3> QED BY <1>1, <1>4, <2>1, <3>2 DEF IInv, StreamInv, PacketInv, DoneInv
  <2>8. CASE got = 1
    <3>1. held' = Tail(all) /\ buffer' = Append(buffer, Head(all))
      <4>1. all \in Seq({Pictures[i] : i \in 1 .. Len(Pictures)}) /\ buffer \in Seq({Pictures[i] : i \in 1 .. Len(Pictures)})
        BY <2>3, <2>4 DEF Slice
      <4>2. SubSeq(all, 2, Len(all)) = Tail(all)
        BY <2>4, <4>1, TailIsSubSeq
      <4>3. SubSeq(all, 1, 1) = <<Head(all)>>
        <5>1. SubSeq(all, 1, 1) = <<all[1]>> \o SubSeq(all, 2, 1)
          BY <2>3, <2>4, <4>1, SubSeqRecursiveFirst
        <5>2. SubSeq(all, 2, 1) = <<>> /\ Head(all) = all[1]
          BY <2>4, <4>1, SubSeqEmpty
        <5>3. <<all[1]>> \o <<>> = <<all[1]>>
          OBVIOUS
        <5> QED BY <5>1, <5>2, <5>3
      <4>4. Head(all) \in {Pictures[i] : i \in 1 .. Len(Pictures)}
        BY <2>4, <4>1, HeadTailProperties
      <4>5. Append(buffer, Head(all)) = buffer \o <<Head(all)>>
        BY <4>1, <4>4, AppendIsConcat
      <4>6. held' = SubSeq(all, 2, Len(all)) /\ buffer' = buffer \o SubSeq(all, 1, 1)
        BY <2>6, <2>8
      <4> QED BY <4>2, <4>3, <4>5, <4>6
    <3>2. /\ Slice(Tail(all), Pictures, Len(buffer) + 1) /\ Len(Tail(all)) = Len(held)
          /\ Head(all) = Pictures[Len(buffer) + 1]
      BY <1>3, <2>3, <2>4, TailSlice
    <3>3. Slice(Append(buffer, Head(all)), Pictures, 0) /\ Len(Append(buffer, Head(all))) = Len(buffer) + 1
      <4>1. /\ Head(all) = Pictures[0 + Len(buffer) + 1]
            /\ 0 + Len(buffer) < Len(Pictures)
        BY <1>1, <1>3, <2>3, <3>2
      <4> QED BY <1>3, <2>3, <4>1, AppendSlice
    <3>4. /\ Slice(buffer', Pictures, 0) /\ Len(buffer') = Len(buffer) + 1
          /\ Slice(held', Pictures, Len(buffer')) /\ Len(held') = Len(held)
      BY <3>1, <3>2, <3>3, Zenon
    <3>5. FeedInv'
      BY <1>1, <1>2, <1>3, <2>1, <2>3, <3>4 DEF FeedInv
    <3> QED BY <1>1, <1>4, <2>1, <3>5 DEF IInv, StreamInv, PacketInv, DoneInv
  <2> QED BY <2>7, <2>8
<1> QED BY <1>5, <1>6

\* The delayed frames follow the others in their order.
LEMMA InvEncodeDelayed ==
    ASSUME IInv, EncodeDelayed
    PROVE  IInv'
<1> USE DEF EncodeDelayed, decoding
<1>1. /\ job' = job /\ job \in Jobs /\ pc = "frame" /\ pc' \in {"input", "frame"}
      /\ z' = z /\ z = Len(job.frames)
  BY DEF EncodeReturns, IInv
<1>2. Pictures' = Pictures /\ Restorations' = Restorations
  BY <1>1, SameJob
<1>3. Len(job.frames) \in Nat /\ Len(Pictures) = Len(job.frames)
  BY <1>1, Lengths
<1>4. IdleInv'
  BY <1>1 DEF IInv, IdleInv
<1>5. /\ Slice(buffer, Pictures, 0) /\ Slice(held, Pictures, Len(buffer))
      /\ Len(buffer) + Len(held) = z /\ Len(buffer) \in Nat /\ Len(held) \in Nat
  BY <1>1 DEF IInv, FeedInv, Slice
<1>6. CASE EncodeReturns(0) /\ UNCHANGED <<held, buffer>>
  <2>1. pc' = "input" /\ written' = 0
    BY <1>6 DEF EncodeReturns
  <2> QED BY <1>1, <1>4, <2>1 DEF IInv, FeedInv, StreamInv, PacketInv, DoneInv
<1>7. CASE /\ held # <<>>
           /\ held' = Tail(held) /\ buffer' = Append(buffer, Head(held))
           /\ UNCHANGED <<pc, written>>
  <2>1. /\ Slice(Tail(held), Pictures, Len(buffer) + 1)
        /\ Len(Tail(held)) = Len(held) - 1
        /\ Head(held) = Pictures[Len(buffer) + 1]
    BY <1>3, <1>5, <1>7, TailSlice
  <2>2. Slice(Append(buffer, Head(held)), Pictures, 0) /\ Len(Append(buffer, Head(held))) = Len(buffer) + 1
    <3>1. Len(held) # 0
      BY <1>5, <1>7 DEF Slice
    <3>2. Head(held) = Pictures[0 + Len(buffer) + 1] /\ 0 + Len(buffer) < Len(Pictures)
      BY <1>1, <1>3, <1>5, <2>1, <3>1
    <3> QED BY <1>3, <1>5, <3>2, AppendSlice
  <2>3. /\ Slice(buffer', Pictures, 0) /\ Len(buffer') = Len(buffer) + 1
        /\ Slice(held', Pictures, Len(buffer')) /\ Len(held') = Len(held) - 1
    BY <1>7, <2>1, <2>2, Zenon
  <2>4. FeedInv'
    BY <1>1, <1>2, <1>3, <1>5, <2>3 DEF FeedInv
  <2> QED BY <1>1, <1>4, <1>7, <2>4 DEF IInv, StreamInv, PacketInv, DoneInv
<1>8. CASE held = <<>> /\ EncodeReturns(Len(buffer)) /\ UNCHANGED <<held, buffer>>
  <2>1. pc' = "input" /\ written' = Len(buffer) /\ buffer' = buffer
    BY <1>8 DEF EncodeReturns
  <2>2. Len(held) = 0
    BY <1>8
  <2>3. StreamInv'
    BY <1>1, <1>2, <1>3, <1>5, <2>1, <2>2 DEF StreamInv
  <2> QED BY <1>1, <1>4, <2>1, <2>3 DEF IInv, FeedInv, PacketInv, DoneInv
<1> QED BY <1>6, <1>7, <1>8

LEMMA InvOpenInput ==
    ASSUME IInv, OpenInput
    PROVE  IInv'
<1>1. /\ job' = job /\ job \in Jobs /\ pc = "input" /\ pc' \in {"packet", "done"}
      /\ UNCHANGED <<buffer, written, next, known, out, faulty>> /\ held' = <<>>
  BY DEF OpenInput, Returns, IInv
<1>2. Pictures' = Pictures /\ Restorations' = Restorations
  BY <1>1, SameJob
<1>3. /\ Len(job.frames) \in Nat /\ Len(Pictures) = Len(job.frames)
      /\ Len(Restorations) = Len(job.frames)
  BY <1>1, Lengths
<1>4. next = 0 /\ out = <<>>
  BY <1>1 DEF IInv, IdleInv
<1>5. StreamInv'
  BY <1>1, <1>2 DEF IInv, StreamInv
<1>6. written # 0 => written = Len(job.frames) /\ Len(buffer) = Len(job.frames) /\ Slice(buffer, Pictures, 0)
  BY <1>1 DEF IInv, StreamInv
<1>7. Found <=> written # 0 /\ Len(job.frames) # 0
  BY <1>3, <1>6 DEF Found, Stream, Slice
<1>8. CASE Found
  <2>1. pc' = "packet"
    BY <1>8 DEF OpenInput
  <2>2. Slice(<<>>, Restorations, 0) /\ Slice(<<>>, Pictures, 0) /\ Len(<<>>) = 0
    BY <1>3, EmptySlice
  <2>3. /\ Slice(out', Restorations, 0) /\ Slice(held', Pictures, Len(out'))
        /\ Len(out') = 0 /\ Len(held') = 0
    BY <1>1, <1>4, <2>2, Zenon
  <2>4. next' = 0 /\ written' # 0 /\ Len(buffer') = Len(job.frames)
    BY <1>1, <1>4, <1>6, <1>7, <1>8
  <2>5. PacketInv'
    BY <1>1, <1>2, <1>3, <1>7, <1>8, <2>3, <2>4 DEF PacketInv
  <2> QED BY <1>1, <1>5, <2>1, <2>5 DEF IInv, FeedInv, IdleInv, DoneInv
<1>9. CASE ~Found
  <2>1. pc' = "done" /\ ret' = FAILURE
    BY <1>9 DEF OpenInput, Returns
  <2>2. DoneInv'
    BY <1>1, <1>7, <1>9, <2>1 DEF DoneInv
  <2> QED BY <1>1, <1>5, <2>1, <2>2 DEF IInv, FeedInv, IdleInv, PacketInv
<1> QED BY <1>8, <1>9

\* What an Append of the oldest frame does to the volume.
LEMMA FillOne ==
    ASSUME job \in Jobs, Len(out) \in Nat, Slice(out, Restorations, 0),
           Len(out) < Len(job.frames), NEW av, av = Pictures[Len(out) + 1], Fill(av)
    PROVE  Slice(out', Restorations, 0) /\ Len(out') = Len(out) + 1
<1>1. Len(job.frames) \in Nat /\ Len(Restorations) = Len(job.frames)
  BY Lengths
<1>2. DecodeFrameAs(av) = Restorations[0 + Len(out) + 1]
  BY <1>1 DEF Restorations
<1>3. 0 + Len(out) < Len(Restorations)
  BY <1>1
<1>4. /\ Slice(Append(out, DecodeFrameAs(av)), Restorations, 0)
      /\ Len(Append(out, DecodeFrameAs(av))) = Len(out) + 1
  BY <1>1, <1>2, <1>3, AppendSlice
<1> QED BY <1>4, Zenon DEF Fill

\* The packet read is the oldest that was not.
LEMMA HeadUnread ==
    ASSUME job \in Jobs, Slice(buffer, Pictures, 0), Len(buffer) = Len(job.frames),
           written # 0, written = Len(job.frames), next \in 0 .. Len(buffer)
    PROVE  /\ Unread = <<>> <=> next = Len(buffer)
           /\ next # Len(buffer) => Head(Unread) = Pictures[next + 1]
<1>1. Len(job.frames) \in Nat /\ Len(Pictures) = Len(job.frames)
  BY Lengths
<1>2. Stream = buffer
  BY <1>1 DEF Stream
<1> DEFINE S == {Pictures[i] : i \in 1 .. Len(Pictures)}
           u == SubSeq(buffer, next + 1, Len(buffer))
<1>3. buffer \in Seq(S) /\ Len(buffer) \in Nat /\ next \in Nat
  BY <1>1 DEF Slice
<1> HIDE DEF S
<1>4. \A i \in next + 1 .. Len(buffer) : buffer[i] \in S
  BY <1>3
<1>5. /\ u \in Seq(S)
      /\ Len(u) = IF next + 1 <= Len(buffer) THEN Len(buffer) - (next + 1) + 1 ELSE 0
      /\ \A i \in 1 .. Len(buffer) - (next + 1) + 1 : u[i] = buffer[next + 1 + i - 1]
  BY <1>3, <1>4, SubSeqProperties
<1> HIDE DEF u
<1>6. u = <<>> <=> next = Len(buffer)
  BY <1>3, <1>5
<1>7. ASSUME next # Len(buffer)  PROVE Head(u) = Pictures[next + 1]
  <2>1. u[1] = buffer[next + 1 + 1 - 1] /\ next + 1 + 1 - 1 = next + 1
    BY <1>3, <1>5, <1>7
  <2>2. buffer[next + 1] = Pictures[0 + (next + 1)] /\ 0 + (next + 1) = next + 1
    BY <1>3, <1>7 DEF Slice
  <2>3. Head(u) = u[1]
    BY <1>5, <1>6, <1>7
  <2> QED BY <2>1, <2>2, <2>3
<1> QED BY <1>2, <1>6, <1>7 DEF Unread, u

\* A packet that does not fail adds a frame to the codec, or also takes the
\* oldest one out of it.
LEMMA InvReadPacket ==
    ASSUME IInv, ReadPacket
    PROVE  IInv'
<1>1. /\ UNCHANGED <<pc, job, z, buffer, written, ret>> /\ next' = next + 1
      /\ job \in Jobs /\ pc = "packet" /\ Unread # <<>>
  BY DEF ReadPacket, IInv
<1>2. Pictures' = Pictures /\ Restorations' = Restorations
  BY <1>1, SameJob
<1>3. Len(job.frames) \in Nat /\ Len(Pictures) = Len(job.frames)
  BY <1>1, Lengths
<1>4. /\ written # 0 /\ Len(job.frames) # 0 /\ next \in 0 .. Len(buffer)
      /\ written = Len(job.frames) /\ Len(buffer) = Len(job.frames)
      /\ Slice(buffer, Pictures, 0)
  BY <1>1 DEF IInv, PacketInv, StreamInv
<1>5. next < Len(job.frames) /\ Head(Unread) = Pictures[next + 1]
  BY <1>1, <1>3, <1>4, HeadUnread
<1>6. StreamInv'
  BY <1>1, <1>2 DEF IInv, StreamInv
<1>7. SUFFICES PacketInv'
  BY <1>1, <1>6 DEF IInv, FeedInv, IdleInv, DoneInv
<1>8. CASE faulty'
  BY <1>1, <1>3, <1>4, <1>5, <1>8 DEF PacketInv
<1>9. CASE ~faulty'
  <2> DEFINE all == Append(held, Head(Unread))
  <2>1. /\ ~faulty /\ known' = TRUE
        /\ \/ held' = all /\ out' = out
           \/ held' = Tail(all) /\ Fill(Head(all))
    BY <1>9 DEF ReadPacket
  <2>2. /\ Len(out) + Len(held) = next
        /\ Slice(out, Restorations, 0) /\ Slice(held, Pictures, Len(out))
        /\ Len(out) \in Nat /\ Len(held) \in Nat
    BY <1>1, <2>1 DEF IInv, PacketInv, Slice
  <2>3. Slice(all, Pictures, Len(out)) /\ Len(all) = Len(held) + 1 /\ all # <<>>
    <3>1. /\ Head(Unread) = Pictures[Len(out) + Len(held) + 1]
          /\ Len(out) + Len(held) < Len(Pictures)
      BY <1>3, <1>5, <2>2
    <3> QED BY <1>3, <2>2, <3>1, AppendSlice
  <2> HIDE DEF all
  <2>4. CASE held' = all /\ out' = out
    <3>1. /\ Slice(out', Restorations, 0) /\ Len(out') = Len(out)
          /\ Slice(held', Pictures, Len(out')) /\ Len(held') = Len(held) + 1
      BY <2>2, <2>3, <2>4, Zenon
    <3> QED BY <1>1, <1>2, <1>3, <1>4, <1>5, <2>1, <2>2, <3>1 DEF PacketInv
  <2>5. CASE held' = Tail(all) /\ Fill(Head(all))
    <3>1. /\ Slice(Tail(all), Pictures, Len(out) + 1)
          /\ Len(Tail(all)) = Len(held)
          /\ Head(all) = Pictures[Len(out) + 1]
      BY <1>3, <2>2, <2>3, TailSlice
    <3>2. Slice(out', Restorations, 0) /\ Len(out') = Len(out) + 1
      BY <1>1, <1>3, <1>5, <2>2, <2>5, <3>1, FillOne
    <3>3. Slice(held', Pictures, Len(out')) /\ Len(held') = Len(held)
      BY <2>5, <3>1, <3>2, Zenon
    <3> QED BY <1>1, <1>2, <1>3, <1>4, <1>5, <2>1, <2>2, <3>2, <3>3 DEF PacketInv
  <2> QED BY <2>1, <2>4, <2>5
<1> QED BY <1>8, <1>9

\* A volume of a frame or more, and of no more frames than the one encoded.
LEMMA CodeOfAll ==
    ASSUME VideoAssumption, job \in Jobs, known = TRUE, Len(job.frames) \in Nat \ {0},
           Len(out) = Len(job.frames)
    PROVE  Code = SUCCESS
<1>1. Len(out) \in Nat \ {0} /\ job.h \in Nat \ {0} /\ job.w \in Nat \ {0} /\ job.width \in Nat \ {0}
  BY DEF VideoAssumption
<1>2. \A x, y \in Nat \ {0} : x * y \in Nat \ {0}
  OBVIOUS
<1>3. Len(out) * job.h \in Nat \ {0}
  BY <1>1, <1>2
<1>4. Len(out) * job.h * job.w \in Nat \ {0}
  BY <1>1, <1>2, <1>3
<1>5. Len(out) * job.h * job.w * job.width \in Nat \ {0}
  BY <1>1, <1>2, <1>4
<1> QED BY <1>1, <1>5 DEF Code, SUCCESS

\* The codec is emptied in its order; then every frame has been filled in.
LEMMA InvFlushPacket ==
    ASSUME VideoAssumption, IInv, FlushPacket
    PROVE  IInv'
<1>1. /\ UNCHANGED <<job, z, buffer, written, next>> /\ pc' \in {"packet", "done"}
      /\ job \in Jobs /\ pc = "packet" /\ Unread = <<>>
  BY DEF FlushPacket, Returns, IInv
<1>2. Pictures' = Pictures /\ Restorations' = Restorations
  BY <1>1, SameJob
<1>3. Len(job.frames) \in Nat /\ Len(Pictures) = Len(job.frames)
  BY <1>1, Lengths
<1>4. /\ written # 0 /\ Len(job.frames) # 0 /\ next \in 0 .. Len(buffer)
      /\ written = Len(job.frames) /\ Len(buffer) = Len(job.frames)
      /\ Slice(buffer, Pictures, 0)
  BY <1>1 DEF IInv, PacketInv, StreamInv
<1>5. next = Len(job.frames)
  BY <1>1, <1>3, <1>4, HeadUnread
<1>6. StreamInv'
  BY <1>1, <1>2 DEF IInv, StreamInv
<1>7. ~faulty => /\ Len(out) + Len(held) = next
                 /\ Slice(out, Restorations, 0) /\ Slice(held, Pictures, Len(out))
                 /\ Len(out) \in Nat /\ Len(held) \in Nat
                 /\ known = TRUE
  BY <1>1, <1>4, <1>5 DEF IInv, PacketInv, Slice
<1>8. CASE faulty' = TRUE /\ Returns(Code)
  <2>1. pc' = "done"
    BY <1>8 DEF Returns
  <2> QED BY <1>1, <1>6, <1>8, <2>1 DEF IInv, FeedInv, IdleInv, PacketInv, DoneInv
<1>9. CASE held = <<>> /\ Returns(Code) /\ UNCHANGED <<held, known, out, faulty>>
  <2>1. pc' = "done" /\ ret' = Code /\ out' = out /\ faulty' = faulty
    BY <1>9 DEF Returns
  <2>2. ~faulty => Len(out) = Len(job.frames)
    <3>1. Len(held) = 0
      BY <1>9
    <3> QED BY <1>5, <1>7, <3>1
  <2>3. ~faulty => Code = SUCCESS
    BY <1>1, <1>3, <1>4, <1>7, <2>2, CodeOfAll
  <2>4. DoneInv'
    BY <1>1, <1>2, <1>4, <1>7, <2>1, <2>2, <2>3 DEF DoneInv
  <2> QED BY <1>1, <1>6, <2>1, <2>4 DEF IInv, FeedInv, IdleInv, PacketInv
<1>10. CASE /\ held # <<>> /\ held' = Tail(held) /\ Fill(Head(held))
            /\ UNCHANGED <<pc, known, faulty, ret>>
  <2>1. CASE faulty
    BY <1>1, <1>2, <1>4, <1>6, <1>10, <2>1 DEF IInv, FeedInv, IdleInv, PacketInv, DoneInv
  <2>2. CASE ~faulty
    <3>1. /\ Slice(Tail(held), Pictures, Len(out) + 1)
          /\ Len(Tail(held)) = Len(held) - 1
          /\ Head(held) = Pictures[Len(out) + 1]
      BY <1>3, <1>7, <1>10, <2>2, TailSlice
    <3>2. Len(held) # 0
      BY <1>7, <1>10, <2>2 DEF Slice
    <3>3. Len(out) < Len(job.frames)
      BY <1>3, <1>5, <1>7, <2>2, <3>2
    <3>4. Slice(out', Restorations, 0) /\ Len(out') = Len(out) + 1
      BY <1>1, <1>7, <1>10, <2>2, <3>1, <3>3, FillOne
    <3>5. Slice(held', Pictures, Len(out')) /\ Len(held') = Len(held) - 1
      BY <1>10, <3>1, <3>4, Zenon
    <3>6. PacketInv'
      BY <1>1, <1>2, <1>3, <1>4, <1>5, <1>7, <1>10, <2>2, <3>4, <3>5 DEF PacketInv
    <3> QED BY <1>1, <1>6, <1>10, <3>6 DEF IInv, FeedInv, IdleInv, DoneInv
  <2> QED BY <2>1, <2>2
<1> QED BY <1>8, <1>9, <1>10 DEF FlushPacket

-----------------------------------------------------------------------------
(* What a lossless codec gives back *)

\* The minimum of a block is one of its voxels and not above any of them.
LEMMA BlockMinBounds ==
    ASSUME NEW h \in Nat, NEW w \in Nat, NEW frame \in [Voxels(h, w) -> Intensity],
           NEW v \in Voxels(h, w)
    PROVE  frame[v] \in Intensity /\ BlockMin(h, w, frame, v) \in 0 .. frame[v]
<1> DEFINE block == {u \in Voxels(h, w) : u[1] \div 2 = v[1] \div 2 /\ u[2] \div 4 = v[2] \div 4}
           S == {frame[u] : u \in block}
<1>1. v \in block /\ block \subseteq Voxels(h, w)
  OBVIOUS
<1> HIDE DEF block
<1>2. ASSUME NEW x \in S  PROVE x \in Intensity
  <2>1. PICK u \in block : x = frame[u]
    OBVIOUS
  <2> QED BY <1>1, <2>1
<1>3. frame[v] \in S
  BY <1>1
<1> HIDE DEF S
<1>4. \E x \in S : \A y \in S : x <= y
  <2>1. S \subseteq Nat /\ S # {}
    BY <1>2, <1>3 DEF Intensity
  <2> QED BY <2>1, NatMin
<1>5. Min(S) \in S /\ \A y \in S : Min(S) <= y
  BY <1>4 DEF Min
<1>6. Min(S) <= frame[v] /\ Min(S) \in Intensity /\ frame[v] \in Intensity
  BY <1>2, <1>3, <1>5
<1>7. Min(S) \in 0 .. frame[v]
  BY <1>6 DEF Intensity
<1> QED BY <1>6, <1>7 DEF BlockMin, block, S

\* Bytes and their carries.
LEMMA ByteSums ==
    /\ \A d \in Nat : d < 256 => d % 256 = d
    /\ \A d \in Nat : d < 65536 => d % 65536 = d
    /\ \A d \in Nat : 256 * (d \div 256) + (d % 256) = d
OBVIOUS

\* The planes carry a voxel less than 256 above the minimum of its block.
LEMMA YuvRoundTrip ==
    ASSUME NEW h \in Nat, NEW w \in Nat, NEW frame \in [Voxels(h, w) -> Intensity],
           NEW v \in Voxels(h, w), frame[v] - BlockMin(h, w, frame, v) < 256
    PROVE  Yuv420ToRange(h, w, RangeToYuv420(h, w, frame))[v] = frame[v]
<1> DEFINE m == BlockMin(h, w, frame, v)
           x == frame[v]
           av == RangeToYuv420(h, w, frame)
<1>1. x \in Intensity /\ m \in 0 .. x
  BY BlockMinBounds
<1>2. av.y[v] = (x - m) % 256 /\ av.c[v][1] = m \div 256 /\ av.c[v][2] = m % 256
  BY DEF RangeToYuv420
<1>3. Yuv420ToRange(h, w, av)[v] = (av.y[v] + 256 * av.c[v][1] + av.c[v][2]) % 65536
  BY DEF Yuv420ToRange
<1>4. x - m < 256
  OBVIOUS
<1> HIDE DEF m, av, x
<1>5. x - m \in Nat /\ m \in Nat /\ x \in Nat /\ x < 65536
  BY <1>1 DEF Intensity
<1>6. (x - m) % 256 = x - m
  BY <1>4, <1>5, ByteSums
<1>7. 256 * (m \div 256) + (m % 256) = m
  BY <1>5, ByteSums
<1>8. m \div 256 \in Int /\ m % 256 \in Int
  BY <1>5
<1>9. av.y[v] + 256 * av.c[v][1] + av.c[v][2] = x
  BY <1>1, <1>2, <1>5, <1>6, <1>7, <1>8
<1>10. x % 65536 = x
  BY <1>5, ByteSums
<1> QED BY <1>3, <1>9, <1>10 DEF av, x

\* A voxel comes back if its block spans less than 256 values.
LEMMA ExactRestored ==
    ASSUME VideoAssumption, job \in Jobs, Lossless,
           NEW k \in 1 .. Len(job.frames), NEW v \in Voxels(job.h, job.w),
           Exact(job.frames[k], v)
    PROVE  Restorations[k][v] = job.frames[k][v]
<1>1. job.h \in Nat /\ job.w \in Nat /\ job.frames[k] \in [Voxels(job.h, job.w) -> Intensity]
  <2>1. job.h \in Nat /\ job.w \in Nat
    BY DEF VideoAssumption
  <2>2. job.frames \in Seq([Voxels(job.h, job.w) -> Intensity])
    BY FramesAssumption
  <2> QED BY <2>1, <2>2, ElementOfSeq
<1>2. Restorations[k] = DecodeFrameAs(EncodeFrameAs(job.frames[k]))
  BY DEF Restorations, Pictures, Coded
<1>3. CASE job.width = 1
  BY <1>2, <1>3 DEF DecodeFrameAs, EncodeFrameAs, YToRange, RangeToY
<1>4. CASE job.width # 1
  <2>1. Restorations[k] = Yuv420ToRange(job.h, job.w, RangeToYuv420(job.h, job.w, job.frames[k]))
    BY <1>2, <1>4 DEF DecodeFrameAs, EncodeFrameAs
  <2>2. job.frames[k][v] - BlockMin(job.h, job.w, job.frames[k], v) < 256
    BY <1>4 DEF Exact
  <2> QED BY <1>1, <2>1, <2>2, YuvRoundTrip
<1> QED BY <1>3, <1>4

-----------------------------------------------------------------------------
(* Theorems *)

LEMMA Invariance == Spec => []IInv
<1>1. Init => IInv
  BY InvInit
<1>2. IInv /\ [Next]_vars => IInv'
  <2> SUFFICES ASSUME IInv, [Next]_vars  PROVE IInv'
    OBVIOUS
  <2>1. ASSUME UNCHANGED vars  PROVE IInv'
    <3>1. /\ UNCHANGED <<pc, job, z, held, buffer, written, next, known, out, faulty, ret>>
          /\ Pictures' = Pictures /\ Restorations' = Restorations
      BY <2>1, SameJob DEF vars
    <3> QED BY <3>1 DEF IInv, FeedInv, StreamInv, IdleInv, PacketInv, DoneInv
  <2> QED
    BY <2>1, VideoAssumption, InvOpenEncoder, InvEncodeFrame, InvEncodeDelayed,
       InvOpenInput, InvReadPacket, InvFlushPacket DEF Next, Done
<1> QED BY <1>1, <1>2, PTL DEF Spec

\* Whatever a codec holds back and wherever the encoder stops: decode reports a
\* stream without frames, and otherwise gives back every frame, in its order,
\* exactly where the options are lossless and eight bits hold what is above the
\* minimum of a block.
THEOREM FramesComeBack == Spec => []VideoRestored
<1>1. IInv => VideoRestored
  <2> SUFFICES ASSUME IInv, pc = "done", ~faulty
      PROVE  IF written = 0 THEN ret = FAILURE
             ELSE /\ ret = SUCCESS
                  /\ Len(out) = Len(job.frames)
                  /\ Lossless => \A k \in DOMAIN out : \A v \in Voxels(job.h, job.w) :
                        Exact(job.frames[k], v) => out[k][v] = job.frames[k][v]
    BY DEF VideoRestored
  <2>1. CASE written = 0
    BY <2>1 DEF IInv, DoneInv
  <2>2. CASE written # 0
    <3>1. job \in Jobs /\ written = Len(job.frames)
      BY <2>2 DEF IInv, StreamInv
    <3>2. /\ ret = SUCCESS /\ Slice(out, Restorations, 0) /\ Len(out) = Len(job.frames)
      BY <2>2, <3>1 DEF IInv, DoneInv
    <3>3. DOMAIN out = 1 .. Len(job.frames) /\ Len(job.frames) \in Nat
      BY <3>1, <3>2, Lengths DEF Slice
    <3>4. ASSUME Lossless, NEW k \in DOMAIN out, NEW v \in Voxels(job.h, job.w),
                 Exact(job.frames[k], v)
          PROVE  out[k][v] = job.frames[k][v]
      <4>1. out[k] = Restorations[0 + k] /\ 0 + k = k
        BY <3>2, <3>3 DEF Slice
      <4>2. Restorations[k][v] = job.frames[k][v]
        BY <3>1, <3>3, <3>4, VideoAssumption, ExactRestored
      <4> QED BY <4>1, <4>2
    <3> QED BY <2>2, <3>2, <3>4
  <2> QED BY <2>1, <2>2
<1> QED BY <1>1, Invariance, PTL

-----------------------------------------------------------------------------
(* Blocks: sequences of the same length, one behind the other *)

\* The place of element o of block i.
LEMMA PlaceInBlock ==
    ASSUME NEW k \in Nat, NEW l \in Nat \ {0}, NEW i \in 1 .. k, NEW o \in 1 .. l
    PROVE  /\ (i - 1) * l \in Nat /\ k * l \in Nat /\ (i - 1) * l + l = i * l /\ i * l \in Nat
           /\ (i - 1) * l + o \in 1 .. k * l
           /\ ((i - 1) * l + o - 1) \div l = i - 1
           /\ ((i - 1) * l + o - 1) % l = o - 1
<1>1. PICK p \in Nat, q \in Nat, r \in Nat : p = (i - 1) * l /\ q = k * l /\ r = (k - i) * l
  <2>1. (i - 1) * l \in Nat /\ k * l \in Nat /\ (k - i) * l \in Nat
    OBVIOUS
  <2> QED BY <2>1
<1>2. q = p + l + r /\ p + l = i * l
  <2>1. k * l = (i - 1) * l + l + (k - i) * l
    OBVIOUS
  <2>2. (i - 1) * l + l = i * l
    OBVIOUS
  <2> QED BY <1>1, <2>1, <2>2
<1>3. p + o \in 1 .. q
  BY <1>1, <1>2
<1>4. (p + o - 1) \div l = i - 1 /\ (p + o - 1) % l = o - 1
  <2>1. PICK d \in Nat, m \in 0 .. l - 1 : d = (p + o - 1) \div l /\ m = (p + o - 1) % l /\ p + o - 1 = l * d + m
    <3>1. p + o - 1 \in Nat
      BY <1>1
    <3>2. \A x \in Nat : x \div l \in Nat /\ x % l \in 0 .. l - 1 /\ x = l * (x \div l) + (x % l)
      OBVIOUS
    <3> QED BY <3>1, <3>2
  <2>2. PICK e \in Int : e = d - (i - 1)
    OBVIOUS
  <2>3. l * e = l * d - p
    BY <1>1, <2>2
  <2>4. l * e = o - 1 - m
    BY <1>1, <2>1, <2>3
  <2>5. e = 0
    <3>1. l * e < l /\ l * e > -l
      BY <2>4
    <3>2. e >= 1 => l * e >= l
      OBVIOUS
    <3>3. e <= -1 => l * e <= -l
      OBVIOUS
    <3> QED BY <3>1, <3>2, <3>3
  <2>6. l * e = 0
    BY <2>5
  <2> QED BY <2>1, <2>2, <2>4, <2>5, <2>6
<1> QED BY <1>1, <1>2, <1>3, <1>4

\* Every place is in a block.
LEMMA BlockOfPlace ==
    ASSUME NEW k \in Nat, NEW l \in Nat \ {0}, NEW c \in 1 .. k * l
    PROVE  \E i \in 1 .. k, o \in 1 .. l : c = (i - 1) * l + o
<1>1. PICK d \in Nat, m \in 0 .. l - 1 : c - 1 = l * d + m
  <2>1. c - 1 \in Nat
    OBVIOUS
  <2>2. \A x \in Nat : x \div l \in Nat /\ x % l \in 0 .. l - 1 /\ x = l * (x \div l) + (x % l)
    OBVIOUS
  <2> QED BY <2>1, <2>2
<1>2. d < k
  <2> SUFFICES ASSUME d >= k  PROVE FALSE
    BY <1>1
  <2>1. l * d >= k * l
    <3>1. l * (d - k) >= 0
      OBVIOUS
    <3> QED BY <3>1
  <2>2. PICK p \in Nat, q \in Nat : p = l * d /\ q = k * l
    OBVIOUS
  <2> QED BY <1>1, <2>1, <2>2
<1>3. d + 1 \in 1 .. k /\ m + 1 \in 1 .. l /\ c = (d + 1 - 1) * l + (m + 1)
  <2>1. PICK p \in Nat : p = l * d /\ p = (d + 1 - 1) * l
    OBVIOUS
  <2> QED BY <1>1, <1>2, <2>1
<1>4. PICK i \in 1 .. k, o \in 1 .. l : i = d + 1 /\ o = m + 1
  BY <1>3
<1>5. c = (i - 1) * l + o
  BY <1>3, <1>4
<1> QED BY <1>5, Zenon

\* FlattenSeq adds the sequences one after the other.
IsFlat(f, s) == f = [i \in 1 .. Len(s) |-> IF i = 1 THEN s[i] ELSE f[i - 1] \o s[i]]

LEMMA FlatIs ==
    ASSUME NEW s, Len(s) # 0, NEW g, IsFlat(g, s)
    PROVE  \E f : IsFlat(f, s) /\ FlattenSeq(s) = f[Len(s)]
<1> DEFINE F(f) == f = [i \in 1 .. Len(s) |-> IF i = 1 THEN s[i] ELSE f[i - 1] \o s[i]]
           f == CHOOSE f : F(f)
<1>1. F(g)
  BY DEF IsFlat
<1>2. F(f)
  <2> HIDE DEF F
  <2> QED BY <1>1, Zenon
<1>3. FlattenSeq(s) = f[Len(s)]
  BY Zenon DEF FlattenSeq
<1>4. IsFlat(f, s)
  BY <1>2 DEF IsFlat
<1> HIDE DEF f
<1> QED BY <1>3, <1>4

LEMMA FlatSame ==
    ASSUME NEW s, Len(s) \in Nat, NEW f, IsFlat(f, s), NEW g, IsFlat(g, s)
    PROVE  \A i \in 1 .. Len(s) : f[i] = g[i]
<1>1. \A i \in 1 .. Len(s) : /\ f[i] = IF i = 1 THEN s[i] ELSE f[i - 1] \o s[i]
                             /\ g[i] = IF i = 1 THEN s[i] ELSE g[i - 1] \o s[i]
  BY DEF IsFlat
<1> DEFINE B == {i \in 1 .. Len(s) : f[i] # g[i]}
<1>2. B = {}
  <2> SUFFICES ASSUME B # {}  PROVE FALSE
    OBVIOUS
  <2>1. B \subseteq Nat
    OBVIOUS
  <2>2. PICK i \in B : \A j \in B : i <= j
    BY <2>1, NatMin
  <2>3. i \in 1 .. Len(s) /\ f[i] # g[i]
    OBVIOUS
  <2>4. i = 1 => f[i] = g[i]
    BY <1>1, <2>3
  <2>5. i # 1 => i - 1 \in 1 .. Len(s) /\ i - 1 \notin B
    BY <2>2, <2>3
  <2> QED BY <1>1, <2>3, <2>4, <2>5
<1> QED BY <1>2

\* Blocks of the same length, as one sequence.
IsBlocks(s, l, T) == s \in Seq(Seq(T)) /\ \A i \in 1 .. Len(s) : Len(s[i]) = l

AreLaid(a, s, l, T) ==
    /\ a \in Seq(T) /\ Len(a) = Len(s) * l
    /\ \A i \in 1 .. Len(s), o \in 1 .. l : a[(i - 1) * l + o] = s[i][o]

LEMMA FlattenIs ==
    ASSUME NEW T, NEW l \in Nat \ {0}, NEW s, IsBlocks(s, l, T)
    PROVE  AreLaid(FlattenSeq(s), s, l, T)
<1> DEFINE B(i) == [c \in 1 .. i * l |-> s[(c - 1) \div l + 1][((c - 1) % l) + 1]]
           g == [i \in 1 .. Len(s) |-> B(i)]
<1>1. Len(s) \in Nat /\ \A i \in 1 .. Len(s) : s[i] \in Seq(T) /\ Len(s[i]) = l
  BY DEF IsBlocks
<1>2. ASSUME NEW i \in 1 .. Len(s)
      PROVE  /\ i * l \in Nat /\ B(i) \in Seq(T) /\ Len(B(i)) = i * l
             /\ \A j \in 1 .. i, o \in 1 .. l : B(i)[(j - 1) * l + o] = s[j][o]
  <2>1. \A c \in 1 .. i * l : \E j \in 1 .. i, o \in 1 .. l :
          /\ c = (j - 1) * l + o /\ (c - 1) \div l + 1 = j /\ ((c - 1) % l) + 1 = o
    <3> TAKE c \in 1 .. i * l
    <3>1. PICK j \in 1 .. i, o \in 1 .. l : c = (j - 1) * l + o
      <4>1. i \in Nat
        BY <1>1
      <4> QED BY <4>1, BlockOfPlace, Zenon
    <3>2. /\ ((j - 1) * l + o - 1) \div l = j - 1 /\ ((j - 1) * l + o - 1) % l = o - 1
      BY PlaceInBlock
    <3> QED BY <3>1, <3>2
  <2>2. \A c \in 1 .. i * l : s[(c - 1) \div l + 1][((c - 1) % l) + 1] \in T
    <3> TAKE c \in 1 .. i * l
    <3>1. PICK j \in 1 .. Len(s), o \in 1 .. l : (c - 1) \div l + 1 = j /\ ((c - 1) % l) + 1 = o
      <4>1. PICK j \in 1 .. i, o \in 1 .. l : (c - 1) \div l + 1 = j /\ ((c - 1) % l) + 1 = o
        BY <2>1
      <4>2. j \in 1 .. Len(s)
        BY <1>1
      <4> QED BY <4>1, <4>2, Zenon
    <3>2. s[j] \in Seq(T) /\ Len(s[j]) = l
      BY <1>1
    <3> QED BY <3>1, <3>2
  <2>3. i * l \in Nat
    OBVIOUS
  <2>4. B(i) \in [1 .. i * l -> T]
    BY <2>2
  <2>5. B(i) \in Seq(T) /\ Len(B(i)) = i * l
    BY <2>3, <2>4
  <2>6. ASSUME NEW j \in 1 .. i, NEW o \in 1 .. l
        PROVE  B(i)[(j - 1) * l + o] = s[j][o]
    <3>1. /\ (j - 1) * l + o \in 1 .. i * l
          /\ ((j - 1) * l + o - 1) \div l = j - 1 /\ ((j - 1) * l + o - 1) % l = o - 1
      BY PlaceInBlock
    <3>2. PICK c \in 1 .. i * l : c = (j - 1) * l + o
      BY <3>1
    <3>3. (c - 1) \div l + 1 = j /\ ((c - 1) % l) + 1 = o
      BY <3>1, <3>2
    <3>4. B(i)[c] = s[j][o]
      BY <3>3
    <3> QED BY <3>2, <3>4
  <2> QED BY <2>3, <2>5, <2>6
<1>3. \A i \in 1 .. Len(s) : g[i] = B(i)
  OBVIOUS
<1> HIDE DEF B
<1>4. ASSUME NEW i \in 1 .. Len(s), i = 1  PROVE B(i) = s[i]
  <2>1. B(i) \in Seq(T) /\ Len(B(i)) = l /\ \A o \in 1 .. l : B(i)[o] = s[i][o]
    <3>1. (i - 1) * l = 0 /\ i * l = l
      BY <1>4
    <3>2. i \in 1 .. i
      OBVIOUS
    <3>3. \A o \in 1 .. l : B(i)[(i - 1) * l + o] = s[i][o]
      BY <1>2, <3>2
    <3>4. B(i) \in Seq(T) /\ Len(B(i)) = i * l
      BY <1>2
    <3>5. \A o \in 1 .. l : B(i)[o] = s[i][o]
      <4> TAKE o \in 1 .. l
      <4>1. (i - 1) * l + o = o
        BY <3>1
      <4> QED BY <3>3, <4>1
    <3> QED BY <3>1, <3>4, <3>5
  <2> QED BY <1>1, <2>1
<1>5. ASSUME NEW i \in 1 .. Len(s), i # 1  PROVE B(i) = B(i - 1) \o s[i]
  <2>1. PICK h \in 1 .. Len(s) : h = i - 1
    BY <1>5
  <2>2. PICK p \in Nat : p = h * l /\ p = (i - 1) * l /\ i * l = p + l
    <3>1. (i - 1) * l \in Nat /\ (i - 1) * l + l = i * l
      BY <1>1, PlaceInBlock
    <3> QED BY <2>1, <3>1
  <2>3. B(h) \in Seq(T) /\ Len(B(h)) = p /\ s[i] \in Seq(T) /\ Len(s[i]) = l
    BY <1>1, <1>2, <2>2
  <2>4. /\ B(h) \o s[i] \in Seq(T) /\ Len(B(h) \o s[i]) = p + l
        /\ \A c \in 1 .. p + l : (B(h) \o s[i])[c] = IF c <= p THEN B(h)[c] ELSE s[i][c - p]
    BY <2>3, ConcatProperties
  <2>5. B(i) \in Seq(T) /\ Len(B(i)) = p + l
    BY <1>2, <2>2
  <2>6. ASSUME NEW c \in 1 .. p + l  PROVE B(i)[c] = IF c <= p THEN B(h)[c] ELSE s[i][c - p]
    <3>1. CASE c <= p
      <4>1. PICK j \in 1 .. h, o \in 1 .. l : c = (j - 1) * l + o
        <5>1. c \in 1 .. h * l
          BY <2>2, <3>1
        <5>2. h \in Nat
          BY <1>1
        <5> QED BY <5>1, <5>2, BlockOfPlace, Zenon
      <4>2. j \in 1 .. i
        BY <2>1
      <4>3. B(i)[(j - 1) * l + o] = s[j][o]
        BY <1>2, <4>2
      <4>4. B(h)[(j - 1) * l + o] = s[j][o]
        BY <1>2
      <4> QED BY <3>1, <4>1, <4>3, <4>4
    <3>2. CASE c > p
      <4>1. PICK o \in 1 .. l : o = c - p
        BY <3>2
      <4>2. i \in 1 .. i
        OBVIOUS
      <4>3. B(i)[(i - 1) * l + o] = s[i][o]
        BY <1>2, <4>2
      <4>4. (i - 1) * l + o = c
        BY <2>2, <4>1
      <4> QED BY <3>2, <4>1, <4>3, <4>4
    <3> QED BY <3>1, <3>2
  <2>7. B(i) = B(h) \o s[i]
    <3>1. PICK u, v : u = B(i) /\ v = B(h) \o s[i]
      OBVIOUS
    <3>2. PICK m \in Nat : m = p + l
      BY <2>2
    <3>3. /\ u \in Seq(T) /\ v \in Seq(T) /\ Len(u) = m /\ Len(v) = m
          /\ \A c \in 1 .. m : u[c] = v[c]
      BY <2>4, <2>5, <2>6, <3>1, <3>2
    <3>4. u = v
      BY <3>3
    <3> QED BY <3>1, <3>4
  <2> QED BY <2>1, <2>7
<1>6. IsFlat(g, s)
  <2>1. ASSUME NEW i \in 1 .. Len(s)  PROVE g[i] = IF i = 1 THEN s[i] ELSE g[i - 1] \o s[i]
    <3>1. i # 1 => i - 1 \in 1 .. Len(s)
      BY <1>1
    <3> QED BY <1>3, <1>4, <1>5, <3>1
  <2> QED BY <2>1 DEF IsFlat
<1> HIDE DEF g
<1>7. CASE Len(s) # 0
  <2>1. PICK f : IsFlat(f, s) /\ FlattenSeq(s) = f[Len(s)]
    BY <1>6, <1>7, FlatIs
  <2>2. Len(s) \in 1 .. Len(s)
    BY <1>1, <1>7
  <2>3. FlattenSeq(s) = B(Len(s))
    BY <1>1, <1>3, <1>6, <2>1, <2>2, FlatSame
  <2>4. PICK k \in 1 .. Len(s) : k = Len(s)
    BY <2>2
  <2>5. /\ B(k) \in Seq(T) /\ Len(B(k)) = k * l
        /\ \A j \in 1 .. k, o \in 1 .. l : B(k)[(j - 1) * l + o] = s[j][o]
    BY <1>2
  <2> QED BY <2>3, <2>4, <2>5, Zenon DEF AreLaid
<1>8. CASE Len(s) = 0
  <2>1. FlattenSeq(s) = s
    BY <1>8, Zenon DEF FlattenSeq
  <2>2. s = <<>>
    BY <1>8 DEF IsBlocks
  <2>3. 0 * l = 0
    OBVIOUS
  <2> QED BY <1>8, <2>1, <2>2, <2>3 DEF AreLaid
<1> QED BY <1>7, <1>8

-----------------------------------------------------------------------------
(* Reading a y4m file: from title to title *)

\* A stream of k frames of l elements: its title, and what is no title.
IsTitled(stream, k, l) ==
    /\ stream \in Seq(Int) /\ Len(stream) = k * l
    /\ \A i \in 1 .. k : /\ stream[(i - 1) * l + 1] = FRAME
                         /\ \A o \in 2 .. l : stream[(i - 1) * l + o] # FRAME

\* The frame that is read from place p on.
No(p, l) == (p + l - 2) \div l + 1

LEMMA NoIs ==
    ASSUME NEW l \in Nat \ {0}, NEW p \in Nat \ {0}
    PROVE  /\ No(p, l) \in Nat \ {0}
           /\ \E r \in 0 .. l - 1 : p + l - 2 = (No(p, l) - 1) * l + r
<1>1. PICK d \in Nat, r \in 0 .. l - 1 : d = (p + l - 2) \div l /\ p + l - 2 = l * d + r
  <2>1. p + l - 2 \in Nat
    OBVIOUS
  <2>2. \A x \in Nat : x \div l \in Nat /\ x % l \in 0 .. l - 1 /\ x = l * (x \div l) + (x % l)
    OBVIOUS
  <2> QED BY <2>1, <2>2
<1>2. No(p, l) = d + 1
  BY <1>1 DEF No
<1>3. p + l - 2 = (No(p, l) - 1) * l + r
  BY <1>1, <1>2
<1> QED BY <1>2, <1>3

\* A title is followed by the next frame.
LEMMA NoOfTitle ==
    ASSUME NEW l \in Nat \ {0}, NEW i \in Nat \ {0}, NEW o \in 2 .. l + 1
    PROVE  (i - 1) * l + o \in Nat \ {0} /\ No((i - 1) * l + o, l) = i + 1
<1>1. PICK c \in 1 .. l : c = o - 1
  OBVIOUS
<1>2. /\ (i + 1 - 1) * l \in Nat
      /\ ((i + 1 - 1) * l + c - 1) \div l = i + 1 - 1
  BY PlaceInBlock
<1>3. PICK x \in Nat, y \in Nat : x = (i + 1 - 1) * l /\ y = (i - 1) * l /\ x = y + l
  OBVIOUS
<1>4. y + o + l - 2 = x + c - 1
  BY <1>1, <1>3
<1>5. (y + o + l - 2) \div l = i
  BY <1>2, <1>3, <1>4
<1> QED BY <1>3, <1>5 DEF No

\* Where the title of the frame is; there is none behind the last frame.
LEMMA TitleIs ==
    ASSUME NEW k \in Nat, NEW l \in Nat \ {0}, NEW stream, IsTitled(stream, k, l),
           NEW p \in Nat \ {0}
    PROVE  Title(stream, p) = IF No(p, l) <= k THEN (No(p, l) - 1) * l + 1 ELSE 0
<1> DEFINE I == {c \in p .. Len(stream) : stream[c] = FRAME}
<1>1. Title(stream, p) = IF I # {} THEN Min(I) ELSE 0
  BY DEF Title, SelectInSubSeq
<1>2. PICK i \in Nat \ {0}, r \in 0 .. l - 1 : i = No(p, l) /\ p + l - 2 = (i - 1) * l + r
  BY NoIs
<1>3. PICK x \in Nat : x = (i - 1) * l /\ p = x + 2 + r - l
  BY <1>2
<1>4. Len(stream) = k * l /\ k * l \in Nat
  BY DEF IsTitled
<1>5. ASSUME NEW c \in I
      PROVE  \E j \in 1 .. k : c = (j - 1) * l + 1
  <2>1. c \in 1 .. k * l /\ stream[c] = FRAME
    BY <1>4
  <2>2. PICK j \in 1 .. k, o \in 1 .. l : c = (j - 1) * l + o
    BY <2>1, BlockOfPlace, Zenon
  <2>3. o = 1
    <3> SUFFICES ASSUME o # 1  PROVE FALSE
      OBVIOUS
    <3>1. o \in 2 .. l
      OBVIOUS
    <3>2. stream[(j - 1) * l + o] # FRAME
      BY <3>1, Zenon DEF IsTitled
    <3> QED BY <2>1, <2>2, <3>2
  <2> QED BY <2>2, <2>3, Zenon
<1>6. ASSUME NEW j \in 1 .. k, (j - 1) * l + 1 >= p  PROVE i <= j /\ (j - 1) * l >= x
  <2>1. PICK y \in Nat : y = (j - 1) * l
    OBVIOUS
  <2>2. y + l > x
    BY <1>3, <1>6, <2>1
  <2>3. y + l = j * l
    BY <2>1
  <2>4. j < i => j * l <= (i - 1) * l
    <3> SUFFICES ASSUME j < i  PROVE j * l <= (i - 1) * l
      OBVIOUS
    <3>1. (i - 1 - j) * l >= 0
      OBVIOUS
    <3>2. (i - 1) * l = j * l + (i - 1 - j) * l
      OBVIOUS
    <3>3. PICK u \in Int, v \in Int, w \in Int : u = (i - 1) * l /\ v = j * l /\ w = (i - 1 - j) * l
      OBVIOUS
    <3> QED BY <3>1, <3>2, <3>3
  <2>5. i <= j
    BY <1>3, <2>2, <2>3, <2>4
  <2>6. (j - i) * l >= 0
    BY <2>5
  <2>7. (j - 1) * l = (i - 1) * l + (j - i) * l
    OBVIOUS
  <2>8. PICK u \in Int : u = (j - i) * l
    OBVIOUS
  <2> QED BY <1>3, <2>1, <2>5, <2>6, <2>7, <2>8
<1>7. CASE i <= k
  <2>1. i \in 1 .. k
    BY <1>7
  <2>2. PICK c \in 1 .. k * l : c = (i - 1) * l + 1
    <3>1. (i - 1) * l + 1 \in 1 .. k * l
      BY <2>1, PlaceInBlock
    <3> QED BY <3>1
  <2>3. stream[c] = FRAME
    BY <2>1, <2>2 DEF IsTitled
  <2>4. c \in I
    BY <1>3, <1>4, <2>2, <2>3
  <2>5. ASSUME NEW e \in I  PROVE c <= e
    <3>1. PICK j \in 1 .. k : e = (j - 1) * l + 1
      BY <1>5
    <3>2. e >= p
      BY <1>4
    <3>3. (j - 1) * l >= x
      BY <1>6, <3>1, <3>2
    <3> QED BY <1>3, <2>2, <3>1, <3>3
  <2>6. I \subseteq Int
    OBVIOUS
  <2> HIDE DEF I
  <2>7. Min(I) = c
    <3>1. Min(I) \in I /\ \A y \in I : Min(I) <= y
      BY <2>4, <2>5, Zenon DEF Min
    <3>2. PICK e \in Int : e = Min(I)
      BY <2>6, <3>1
    <3>3. c \in Int /\ c <= e /\ e <= c
      BY <2>4, <2>5, <2>6, <3>1, <3>2
    <3> QED BY <3>2, <3>3
  <2> QED BY <1>1, <1>2, <1>7, <2>2, <2>4, <2>7
<1>8. CASE i > k
  <2>1. I = {}
    <3> SUFFICES ASSUME NEW c \in I  PROVE FALSE
      OBVIOUS
    <3>1. PICK j \in 1 .. k : c = (j - 1) * l + 1
      BY <1>5
    <3>2. c >= p
      BY <1>4
    <3>3. i <= j
      BY <1>6, <3>1, <3>2
    <3> QED BY <1>8, <3>3
  <2> HIDE DEF I
  <2> QED BY <1>1, <1>2, <1>8, <2>1
<1> QED BY <1>7, <1>8

\* FramesOf reads a frame, then the rest of the stream.
IsReading(f, stream, n, skip) ==
    f = [p \in 1 .. Len(stream) + n + skip + 1 |->
           LET q == Title(stream, p) IN
           IF q = 0 THEN << >>
           ELSE <<SubSeq(stream, q + 1, q + n + skip)>> \o f[q + 1 + n + skip]]

LEMMA ReadingIs ==
    ASSUME NEW stream, NEW n, NEW skip, NEW g, IsReading(g, stream, n, skip)
    PROVE  \E f : IsReading(f, stream, n, skip) /\ FramesOf(stream, n, skip) = f[1]
<1> DEFINE R(f) == f = [p \in 1 .. Len(stream) + n + skip + 1 |->
                          LET q == Title(stream, p) IN
                          IF q = 0 THEN << >>
                          ELSE <<SubSeq(stream, q + 1, q + n + skip)>> \o f[q + 1 + n + skip]]
           f == CHOOSE f : R(f)
<1>1. R(g)
  BY DEF IsReading
<1>2. R(f)
  <2> HIDE DEF R
  <2> QED BY <1>1, Zenon
<1>3. FramesOf(stream, n, skip) = f[1]
  BY Zenon DEF FramesOf
<1>4. IsReading(f, stream, n, skip)
  BY <1>2 DEF IsReading
<1> HIDE DEF f
<1> QED BY <1>3, <1>4

\* Where the n elements behind the title of frame i are, and the stream after them.
Luma(stream, l, n, i) == SubSeq(stream, (i - 1) * l + 2, (i - 1) * l + 1 + n)

\* The values of the function are determined from the end of the stream.
LEMMA ReadingSame ==
    ASSUME NEW k \in Nat, NEW l \in Nat \ {0}, NEW n \in 0 .. l - 1,
           NEW stream, IsTitled(stream, k, l),
           NEW f, IsReading(f, stream, n, 0), NEW g, IsReading(g, stream, n, 0)
    PROVE  f[1] = g[1]
<1> DEFINE M == Len(stream) + n + 0 + 1
           B == {p \in 1 .. M : f[p] # g[p]}
<1>1. M \in Nat /\ Len(stream) \in Nat /\ M = Len(stream) + n + 1 /\ 1 <= M
  BY DEF IsTitled
<1>2. ASSUME NEW p \in 1 .. M
      PROVE  /\ Title(stream, p) = 0 => f[p] = g[p]
             /\ Title(stream, p) # 0 /\ f[Title(stream, p) + 1 + n] = g[Title(stream, p) + 1 + n] => f[p] = g[p]
  <2> DEFINE q == Title(stream, p)
  <2> HIDE DEF q
  <2>1. /\ f[p] = IF q = 0 THEN << >> ELSE <<SubSeq(stream, q + 1, q + n + 0)>> \o f[q + 1 + n + 0]
        /\ g[p] = IF q = 0 THEN << >> ELSE <<SubSeq(stream, q + 1, q + n + 0)>> \o g[q + 1 + n + 0]
    BY Zenon DEF IsReading, q
  <2>2. q \in Nat
    <3>1. No(p, l) \in Nat \ {0} /\ Title(stream, p) = IF No(p, l) <= k THEN (No(p, l) - 1) * l + 1 ELSE 0
      <4>1. p \in Nat \ {0}
        BY <1>1
      <4> QED BY <4>1, NoIs, TitleIs
    <3>2. (No(p, l) - 1) * l \in Nat
      BY <3>1
    <3> QED BY <3>1, <3>2 DEF q
  <2>3. q + 1 + n + 0 = q + 1 + n
    BY <2>2
  <2> QED BY <2>1, <2>3 DEF q
<1>3. ASSUME NEW p \in 1 .. M, Title(stream, p) # 0
      PROVE  Title(stream, p) + 1 + n \in 1 .. M /\ Title(stream, p) + 1 + n > p
  <2>0. p \in Nat \ {0}
    BY <1>1
  <2>1. PICK i \in Nat \ {0}, r \in 0 .. l - 1 : i = No(p, l) /\ p + l - 2 = (i - 1) * l + r
    BY <2>0, NoIs
  <2>2. i \in 1 .. k /\ Title(stream, p) = (i - 1) * l + 1
    BY <1>3, <2>0, <2>1, TitleIs
  <2>3. (i - 1) * l + 1 \in 1 .. k * l /\ (i - 1) * l \in Nat
    BY <2>2, PlaceInBlock
  <2>4. PICK x \in Nat, y \in Nat : x = (i - 1) * l /\ y = k * l
    BY <2>3
  <2>5. Len(stream) = y
    BY <2>4 DEF IsTitled
  <2>6. p \in 1 .. M /\ x + 1 <= y /\ Title(stream, p) = x + 1 /\ p + l - 2 = x + r
    BY <2>1, <2>2, <2>3, <2>4
  <2> HIDE DEF M
  <2> QED BY <1>1, <2>4, <2>5, <2>6
<1>4. B = {}
  <2> SUFFICES ASSUME B # {}  PROVE FALSE
    OBVIOUS
  <2>1. B \subseteq 0 .. M
    BY <1>1
  <2>2. PICK p \in B : \A y \in B : p >= y
    <3> HIDE DEF B
    <3> QED BY <1>1, <2>1, NatMax
  <2>3. p \in 1 .. M /\ f[p] # g[p]
    OBVIOUS
  <2>4. Title(stream, p) # 0
    BY <1>2, <2>3
  <2>5. PICK x \in 1 .. M : x = Title(stream, p) + 1 + n /\ x > p
    BY <1>3, <2>3, <2>4
  <2>6. x \notin B
    BY <1>1, <2>2, <2>3, <2>5
  <2>7. f[x] = g[x]
    BY <2>6
  <2> QED BY <1>2, <2>3, <2>4, <2>5, <2>7
<1> QED BY <1>1, <1>4

\* The frames of a stream are what follows its titles.
LEMMA FramesAre ==
    ASSUME NEW k \in Nat, NEW l \in Nat \ {0}, NEW n \in 0 .. l - 1,
           NEW stream, IsTitled(stream, k, l)
    PROVE  FramesOf(stream, n, 0) = [i \in 1 .. k |-> Luma(stream, l, n, i)]
<1> DEFINE F == [i \in 1 .. k |-> Luma(stream, l, n, i)]
           S == {Luma(stream, l, n, i) : i \in 1 .. k}
           M == Len(stream) + n + 0 + 1
           g == [p \in 1 .. M |-> SubSeq(F, No(p, l), k)]
<1>1. F \in Seq(S) /\ Len(F) = k
  <2>1. F \in [1 .. k -> S]
    OBVIOUS
  <2> HIDE DEF F, S
  <2> QED BY <2>1
<1>2. \A i \in 1 .. k : F[i] = Luma(stream, l, n, i)
  OBVIOUS
<1>3. Len(stream) = k * l /\ Len(stream) \in Nat /\ M = Len(stream) + n + 1 /\ M \in Nat
  BY DEF IsTitled
<1> HIDE DEF F, S, M
<1>4. \A p \in 1 .. M : g[p] = SubSeq(F, No(p, l), k)
  OBVIOUS
<1>5. ASSUME NEW p \in 1 .. M, NEW q, q = Title(stream, p)
      PROVE  g[p] = IF q = 0 THEN << >>
                    ELSE <<SubSeq(stream, q + 1, q + n + 0)>> \o g[q + 1 + n + 0]
  <2> HIDE DEF g
  <2>0. p \in Nat \ {0}
    BY <1>3
  <2>1. PICK i \in Nat \ {0} : i = No(p, l)
    BY <2>0, NoIs
  <2>2. q = IF i <= k THEN (i - 1) * l + 1 ELSE 0
    BY <1>5, <2>0, <2>1, TitleIs
  <2>3. g[p] = SubSeq(F, i, k)
    BY <1>4, <2>1
  <2>4. CASE i > k
    <3>1. SubSeq(F, i, k) = << >>
      BY <2>4, SubSeqEmpty
    <3>2. q = 0
      BY <2>2, <2>4
    <3> QED BY <2>3, <3>1, <3>2
  <2>5. CASE i <= k
    <3>1. i \in 1 .. k
      BY <2>5
    <3>2. PICK x \in Nat, y \in Nat : x = (i - 1) * l /\ y = k * l /\ x + 1 \in 1 .. y /\ x + l <= y
      <4>1. (i - 1) * l \in Nat /\ k * l \in Nat
        BY <3>1, PlaceInBlock
      <4>2. (i - 1) * l + 1 \in 1 .. k * l /\ (i - 1) * l + l \in 1 .. k * l
        BY <3>1, PlaceInBlock
      <4> QED BY <4>1, <4>2
    <3>3. q = x + 1
      BY <2>2, <2>5, <3>2
    <3>4. x + 2 + n \in 1 .. M /\ No(x + 2 + n, l) = i + 1
      <4>1. PICK o \in 2 .. l + 1 : o = n + 2
        OBVIOUS
      <4>2. No((i - 1) * l + o, l) = i + 1
        BY NoOfTitle
      <4>3. (i - 1) * l + o = x + 2 + n
        BY <3>2, <4>1
      <4> QED BY <1>3, <3>2, <4>2, <4>3
    <3>5. g[x + 2 + n] = SubSeq(F, i + 1, k)
      BY <1>4, <3>4
    <3>6. SubSeq(F, i, k) = <<F[i]>> \o SubSeq(F, i + 1, k)
      <4>1. i \in 1 .. Len(F) /\ k \in i .. Len(F)
        BY <1>1, <3>1
      <4> QED BY <1>1, <4>1, SubSeqRecursiveFirst
    <3>7. F[i] = SubSeq(stream, x + 2, x + 1 + n)
      BY <1>2, <3>1, <3>2, Zenon DEF Luma
    <3>8. q + 1 = x + 2 /\ q + n + 0 = x + 1 + n /\ q + 1 + n + 0 = x + 2 + n /\ q # 0
      BY <3>2, <3>3
    <3> QED BY <2>3, <3>5, <3>6, <3>7, <3>8
  <2> QED BY <2>1, <2>4, <2>5
<1>6. IsReading(g, stream, n, 0)
  <2>1. \A p \in 1 .. M : g[p] = LET q == Title(stream, p) IN
                                 IF q = 0 THEN << >>
                                 ELSE <<SubSeq(stream, q + 1, q + n + 0)>> \o g[q + 1 + n + 0]
    BY <1>5
  <2>2. g = [p \in 1 .. M |-> g[p]]
    OBVIOUS
  <2>3. M = Len(stream) + n + 0 + 1
    BY DEF M
  <2> HIDE DEF g
  <2> QED BY <2>1, <2>2, <2>3 DEF IsReading
<1> HIDE DEF g
<1>7. PICK f : IsReading(f, stream, n, 0) /\ FramesOf(stream, n, 0) = f[1]
  BY <1>6, ReadingIs
<1>8. f[1] = g[1]
  BY <1>6, <1>7, ReadingSame
<1>9. g[1] = SubSeq(F, 1, k)
  <2>1. No(1, l) = 1
    <3>1. PICK c \in 1 .. l : c = l
      OBVIOUS
    <3>2. ((1 - 1) * l + c - 1) \div l = 1 - 1
      <4>1. 1 \in 1 .. 1 /\ 1 \in Nat
        OBVIOUS
      <4> QED BY <4>1, PlaceInBlock
    <3>3. (1 - 1) * l + c - 1 = 1 + l - 2
      BY <3>1
    <3> QED BY <3>2, <3>3 DEF No
  <2> QED BY <1>3, <1>4, <2>1
<1> QED BY <1>1, <1>7, <1>8, <1>9, SubSeqFull DEF F

-----------------------------------------------------------------------------
(* A stack of bytes comes back from a file *)

IsBytes(s) ==
    /\ s \in [bits : {8}, shape : Sides \X Sides \X Sides, px : Seq(0 .. 255)]
    /\ Len(s.px) = D(s.shape) * FrameSize(s.shape)

LEMMA BytesAre ==
    ASSUME NEW s, IsBytes(s)
    PROVE  /\ D(s.shape) \in Nat \ {0} /\ H(s.shape) \in Nat \ {0} /\ W(s.shape) \in Nat \ {0}
           /\ FrameSize(s.shape) \in Nat \ {0} /\ FrameSize(s.shape) = H(s.shape) * W(s.shape)
           /\ s.px \in Seq(0 .. 255) /\ Len(s.px) = D(s.shape) * FrameSize(s.shape)
           /\ s = [bits |-> 8, shape |-> <<D(s.shape), H(s.shape), W(s.shape)>>, px |-> s.px]
<1>1. D(s.shape) \in Sides /\ H(s.shape) \in Sides /\ W(s.shape) \in Sides
  BY DEF IsBytes, D, H, W
<1>2. s.shape = <<D(s.shape), H(s.shape), W(s.shape)>>
  BY DEF IsBytes, D, H, W
<1>3. s = [bits |-> s.bits, shape |-> s.shape, px |-> s.px] /\ s.bits = 8
  BY DEF IsBytes
<1>4. FrameSize(s.shape) \in Nat \ {0}
  <2>1. PICK h \in Nat \ {0}, w \in Nat \ {0} : h = H(s.shape) /\ w = W(s.shape)
    BY <1>1 DEF Sides
  <2>2. h * w \in Nat \ {0}
    OBVIOUS
  <2> QED BY <2>1, <2>2 DEF FrameSize
<1> QED BY <1>1, <1>2, <1>3, <1>4 DEF IsBytes, FrameSize, Sides

\* Frames that have the voxels of a stack make up the stack.
LEMMA FramesMakeStack ==
    ASSUME NEW T, NEW k \in Nat, NEW n \in Nat \ {0}, NEW px \in Seq(T), Len(px) = k * n,
           NEW f, IsBlocks(f, n, T), Len(f) = k,
           \A i \in 1 .. k, o \in 1 .. n : f[i][o] = px[(i - 1) * n + o]
    PROVE  FlattenSeq(f) = px
<1>1. /\ FlattenSeq(f) \in Seq(T) /\ Len(FlattenSeq(f)) = k * n
      /\ \A i \in 1 .. k, o \in 1 .. n : FlattenSeq(f)[(i - 1) * n + o] = f[i][o]
  <2>1. AreLaid(FlattenSeq(f), f, n, T)
    BY FlattenIs
  <2>2. Len(f) = k
    OBVIOUS
  <2> QED BY <2>1, <2>2, Zenon DEF AreLaid
<1>2. \A c \in 1 .. k * n : FlattenSeq(f)[c] = px[c]
  <2> TAKE c \in 1 .. k * n
  <2>1. PICK i \in 1 .. k, o \in 1 .. n : c = (i - 1) * n + o
    BY BlockOfPlace, Zenon
  <2>2. FlattenSeq(f)[(i - 1) * n + o] = px[(i - 1) * n + o]
    BY <1>1
  <2> QED BY <2>1, <2>2
<1>3. PICK a, m : a = FlattenSeq(f) /\ m = k * n
  OBVIOUS
<1>4. a \in Seq(T) /\ Len(a) = m /\ Len(px) = m /\ \A c \in 1 .. m : a[c] = px[c]
  BY <1>1, <1>2, <1>3
<1>5. a = px
  BY <1>4
<1> QED BY <1>3, <1>5

\* Some voxels of a stack, and zeros.
LEMMA PartOf ==
    ASSUME NEW T, NEW s \in Seq(T), NEW a \in Nat, NEW n \in Nat, a + n <= Len(s)
    PROVE  /\ SubSeq(s, a + 1, a + n) \in Seq(T) /\ Len(SubSeq(s, a + 1, a + n)) = n
           /\ \A o \in 1 .. n : SubSeq(s, a + 1, a + n)[o] = s[a + o]
<1>1. \A i \in a + 1 .. a + n : s[i] \in T
  OBVIOUS
<1>2. /\ SubSeq(s, a + 1, a + n) \in Seq(T)
      /\ Len(SubSeq(s, a + 1, a + n)) = IF a + 1 <= a + n THEN a + n - (a + 1) + 1 ELSE 0
      /\ \A i \in 1 .. a + n - (a + 1) + 1 : SubSeq(s, a + 1, a + n)[i] = s[a + 1 + i - 1]
  BY <1>1, SubSeqProperties
<1>3. a + n - (a + 1) + 1 = n /\ \A o \in 1 .. n : a + 1 + o - 1 = a + o
  OBVIOUS
<1> QED BY <1>2, <1>3

IsPart(x, s, a, n, T) == x \in Seq(T) /\ Len(x) = n /\ \A o \in 1 .. n : x[o] = s[a + o]

LEMMA PartIs ==
    ASSUME NEW T, NEW s \in Seq(T), NEW a \in Nat, NEW n \in Nat, a + n <= Len(s)
    PROVE  IsPart(SubSeq(s, a + 1, a + n), s, a, n, T)
BY PartOf DEF IsPart

LEMMA ZerosAre ==
    ASSUME NEW n \in Nat
    PROVE  Zeros(n) \in Seq(0 .. 0) /\ Len(Zeros(n)) = n /\ \A i \in 1 .. n : Zeros(n)[i] = 0
<1>1. Zeros(n) \in [1 .. n -> 0 .. 0]
  BY DEF Zeros
<1> QED BY <1>1 DEF Zeros

\* Half of the frame is chroma.
LEMMA HalfIs ==
    ASSUME NEW n \in Nat
    PROVE  n \div 2 \in Nat /\ n + (n \div 2) = (3 * n) \div 2
OBVIOUS

LEMMA WiderSeq ==
    ASSUME NEW S, NEW s \in Seq(S), NEW T, S \subseteq T
    PROVE  s \in Seq(T)
<1>1. Len(s) \in Nat /\ s \in [1 .. Len(s) -> S]
  OBVIOUS
<1>2. s \in [1 .. Len(s) -> T]
  BY <1>1
<1> QED BY <1>1, <1>2

\* One frame of a y4m file.
Framed(s, n, i) == <<FRAME>> \o SubSeq(s, (i - 1) * n + 1, (i - 1) * n + n) \o Zeros(n \div 2)

LEMMA FramedIs ==
    ASSUME NEW s \in Seq(0 .. 255), NEW k \in Nat, NEW n \in Nat \ {0}, Len(s) = k * n,
           NEW i \in 1 .. k
    PROVE  /\ Framed(s, n, i) \in Seq(Int) /\ Len(Framed(s, n, i)) = 1 + n + (n \div 2)
           /\ Framed(s, n, i)[1] = FRAME
           /\ \A o \in 1 .. n : Framed(s, n, i)[1 + o] = s[(i - 1) * n + o]
           /\ \A o \in 2 .. 1 + n + (n \div 2) : Framed(s, n, i)[o] # FRAME
<1>1. PICK a \in Nat : a = (i - 1) * n /\ a + n <= Len(s)
  <2>1. (i - 1) * n \in Nat /\ (i - 1) * n + n \in 1 .. k * n
    <3>1. n \in 1 .. n
      OBVIOUS
    <3> QED BY <3>1, PlaceInBlock
  <2> QED BY <2>1
<1>2. PICK x : x = SubSeq(s, (i - 1) * n + 1, (i - 1) * n + n)
  OBVIOUS
<1>3. x \in Seq(0 .. 255) /\ Len(x) = n /\ \A o \in 1 .. n : x[o] = s[a + o]
  <2>1. x = SubSeq(s, a + 1, a + n)
    BY <1>1, <1>2
  <2>2. /\ SubSeq(s, a + 1, a + n) \in Seq(0 .. 255) /\ Len(SubSeq(s, a + 1, a + n)) = n
        /\ \A o \in 1 .. n : SubSeq(s, a + 1, a + n)[o] = s[a + o]
    <3>1. n \in Nat
      OBVIOUS
    <3>2. PICK T : T = 0 .. 255
      OBVIOUS
    <3>3. s \in Seq(T)
      BY <3>2
    <3>4. a \in Nat /\ a + n <= Len(s)
      BY <1>1
    <3>5. IsPart(SubSeq(s, a + 1, a + n), s, a, n, T)
      BY <3>1, <3>3, <3>4, PartIs
    <3> QED BY <3>2, <3>5 DEF IsPart
  <2> QED BY <2>1, <2>2
<1>4. PICK m \in Nat, y \in {Zeros(n \div 2)} : m = n \div 2 /\ y = Zeros(m)
  BY HalfIs
<1>5. y \in Seq(0 .. 0) /\ Len(y) = m /\ \A o \in 1 .. m : y[o] = 0
  BY <1>4, ZerosAre
<1>6. FRAME \in Int /\ FRAME \notin 0 .. 255
  BY FrameAssumption
<1>7. PICK u : u = <<FRAME>> \o x
  OBVIOUS
<1>8. /\ u \in Seq(Int) /\ Len(u) = 1 + n /\ u[1] = FRAME
      /\ \A o \in 1 .. n : u[1 + o] = x[o]
  <2>1. x \in Seq(Int)
    <3>1. 0 .. 255 \subseteq Int
      OBVIOUS
    <3> QED BY <1>3, <3>1, WiderSeq, Zenon
  <2>2. <<FRAME>> \in Seq(Int) /\ Len(<<FRAME>>) = 1 /\ <<FRAME>>[1] = FRAME
    BY <1>6
  <2>3. /\ u \in Seq(Int) /\ Len(u) = Len(<<FRAME>>) + Len(x)
        /\ \A o \in 1 .. Len(<<FRAME>>) + Len(x) :
             u[o] = IF o <= Len(<<FRAME>>) THEN <<FRAME>>[o] ELSE x[o - Len(<<FRAME>>)]
    BY <1>7, <2>1, <2>2, ConcatProperties
  <2>4. \A o \in 1 .. 1 + n : u[o] = IF o <= 1 THEN FRAME ELSE x[o - 1]
    BY <1>3, <2>2, <2>3
  <2>5. \A o \in 1 .. n : 1 + o \in 1 .. 1 + n /\ ~(1 + o <= 1) /\ 1 + o - 1 = o
    OBVIOUS
  <2>6. 1 \in 1 .. 1 + n
    OBVIOUS
  <2> QED BY <1>3, <2>2, <2>3, <2>4, <2>5, <2>6
<1>9. PICK v : v = u \o y
  OBVIOUS
<1>10. /\ v \in Seq(Int) /\ Len(v) = 1 + n + m
       /\ \A o \in 1 .. 1 + n : v[o] = u[o]
       /\ \A o \in 2 + n .. 1 + n + m : v[o] = 0
  <2>1. y \in Seq(Int)
    BY <1>5, WiderSeq
  <2>2. /\ v \in Seq(Int) /\ Len(v) = Len(u) + Len(y)
        /\ \A o \in 1 .. Len(u) + Len(y) : v[o] = IF o <= Len(u) THEN u[o] ELSE y[o - Len(u)]
    BY <1>8, <1>9, <2>1, ConcatProperties
  <2>3. \A o \in 1 .. 1 + n + m : v[o] = IF o <= 1 + n THEN u[o] ELSE y[o - (1 + n)]
    BY <1>5, <1>8, <2>2
  <2>4. \A o \in 2 + n .. 1 + n + m : v[o] = y[o - (1 + n)] /\ o - (1 + n) \in 1 .. m
    BY <2>3
  <2>5. v \in Seq(Int) /\ Len(v) = 1 + n + m
    BY ONLY <1>5, <1>8, <2>2
  <2>6. \A o \in 1 .. 1 + n : v[o] = u[o]
    <3>1. n \in Nat
      OBVIOUS
    <3>2. \A o \in 1 .. 1 + n : o \in 1 .. 1 + n + m /\ o <= 1 + n
      BY ONLY <3>1, m \in Nat
    <3> QED BY ONLY <2>3, <3>2
  <2>7. \A o \in 2 + n .. 1 + n + m : v[o] = 0
    <3>1. \A e \in 1 .. m : y[e] = 0
      BY <1>5
    <3> QED BY ONLY <2>4, <3>1
  <2> QED BY ONLY <2>5, <2>6, <2>7
<1>11. v = Framed(s, n, i)
  BY <1>2, <1>4, <1>7, <1>9 DEF Framed
<1>12. \A o \in 2 .. 1 + n + m : v[o] # FRAME
  <2> TAKE o \in 2 .. 1 + n + m
  <2>1. CASE o <= 1 + n
    <3>1. PICK e \in 1 .. n : o = 1 + e
      BY <2>1
    <3>2. v[o] = u[o] /\ u[o] = x[e]
      BY <1>8, <1>10, <2>1, <3>1
    <3>3. x[e] \in 0 .. 255
      <4>1. \A T : \A t \in Seq(T) : \A c \in 1 .. Len(t) : t[c] \in T
        OBVIOUS
      <4> QED BY <1>3, <4>1
    <3> QED BY <1>6, <3>2, <3>3
  <2>2. CASE o > 1 + n
    BY <1>6, <1>10, <2>2
  <2> QED BY <2>1, <2>2
<1>13. \A o \in 1 .. n : v[1 + o] = s[a + o]
  <2> TAKE o \in 1 .. n
  <2>1. v[1 + o] = u[1 + o] /\ u[1 + o] = x[o] /\ x[o] = s[a + o]
    BY <1>3, <1>8, <1>10
  <2> QED BY <2>1
<1> QED BY <1>1, <1>4, <1>8, <1>10, <1>11, <1>12, <1>13

\* Elements of a sequence.
LEMMA ElementOf ==
    ASSUME NEW T, NEW s \in Seq(T), NEW c \in 1 .. Len(s)
    PROVE  s[c] \in T
OBVIOUS

LEMMA InSeq ==
    ASSUME NEW S, NEW s \in Seq(S), NEW T, \A c \in 1 .. Len(s) : s[c] \in T
    PROVE  s \in Seq(T)
<1>1. Len(s) \in Nat /\ s \in [1 .. Len(s) -> S]
  OBVIOUS
<1>2. s \in [1 .. Len(s) -> T]
  BY <1>1
<1> QED BY <1>1, <1>2

\* The k frames of a stack, of l elements, and what they are one behind the other.
IsFramed(f, s, k, n, l) ==
    l = 1 + n + (n \div 2) /\ f = [nr \in 1 .. k |-> Framed(s, n, nr)]

AreFrames(a, s, k, n, l) ==
    /\ l \in Nat \ {0} /\ n \in 0 .. l - 1 /\ IsTitled(a, k, l)
    /\ \A i \in 1 .. k, o \in 1 .. n : a[(i - 1) * l + (1 + o)] = s[(i - 1) * n + o]

LEMMA FramedAre ==
    ASSUME NEW s \in Seq(0 .. 255), NEW k \in Nat, NEW n \in Nat \ {0}, Len(s) = k * n,
           NEW l, NEW f, IsFramed(f, s, k, n, l)
    PROVE  AreFrames(FlattenSeq(f), s, k, n, l)
<1>0. l = 1 + n + (n \div 2) /\ f = [nr \in 1 .. k |-> Framed(s, n, nr)]
  BY DEF IsFramed
<1>1. l \in Nat \ {0} /\ n \in 0 .. l - 1
  BY <1>0, HalfIs
<1>2. \A i \in 1 .. k :
        /\ Framed(s, n, i) \in Seq(Int) /\ Len(Framed(s, n, i)) = l
        /\ Framed(s, n, i)[1] = FRAME
        /\ \A o \in 1 .. n : Framed(s, n, i)[1 + o] = s[(i - 1) * n + o]
        /\ \A o \in 2 .. l : Framed(s, n, i)[o] # FRAME
  BY <1>0, FramedIs
<1>3. Len(f) = k /\ f \in Seq(Seq(Int)) /\ \A i \in 1 .. k : f[i] = Framed(s, n, i)
  <2>1. \A i \in 1 .. k : f[i] = Framed(s, n, i) /\ f[i] \in Seq(Int)
    BY <1>0, <1>2
  <2>2. f \in [1 .. k -> Seq(Int)]
    BY <1>0, <2>1
  <2>3. k \in Nat
    OBVIOUS
  <2>4. f \in Seq(Seq(Int)) /\ Len(f) = k
    BY <2>2, <2>3
  <2> QED BY <2>1, <2>4, Zenon
<1>4. IsBlocks(f, l, Int)
  BY <1>2, <1>3 DEF IsBlocks
<1>5. PICK a, T : a = FlattenSeq(f) /\ T = Int
  OBVIOUS
<1>6. AreLaid(a, f, l, T)
  <2>1. IsBlocks(f, l, T)
    BY <1>4, <1>5
  <2> QED BY <1>1, <1>5, <2>1, FlattenIs
<1>7. /\ a \in Seq(T) /\ Len(a) = k * l
      /\ \A i \in 1 .. k, o \in 1 .. l : a[(i - 1) * l + o] = f[i][o]
  BY <1>3, <1>6, Zenon DEF AreLaid
<1>8. IsTitled(a, k, l)
  <2>1. ASSUME NEW i \in 1 .. k, NEW o \in 1 .. l
        PROVE  a[(i - 1) * l + o] = Framed(s, n, i)[o]
    BY <1>3, <1>7
  <2>2. 1 \in 1 .. l /\ \A o \in 2 .. l : o \in 1 .. l
    BY <1>1
  <2>3. ASSUME NEW i \in 1 .. k
        PROVE  /\ a[(i - 1) * l + 1] = FRAME
               /\ \A o \in 2 .. l : a[(i - 1) * l + o] # FRAME
    <3>1. Framed(s, n, i)[1] = FRAME /\ \A o \in 2 .. l : Framed(s, n, i)[o] # FRAME
      BY <1>2
    <3>2. a[(i - 1) * l + 1] = Framed(s, n, i)[1]
      BY <2>1, <2>2, Zenon
    <3>3. ASSUME NEW o \in 2 .. l  PROVE a[(i - 1) * l + o] # FRAME
      <4>1. o \in 1 .. l
        BY <2>2, Zenon
      <4>2. a[(i - 1) * l + o] = Framed(s, n, i)[o]
        BY <2>1, <4>1, Zenon
      <4> QED BY <3>1, <4>2, Zenon
    <3> QED BY <3>1, <3>2, <3>3, Zenon
  <2>4. a \in Seq(Int) /\ Len(a) = k * l
    BY <1>5, <1>7
  <2> QED BY <2>3, <2>4, Zenon DEF IsTitled
<1>9. \A i \in 1 .. k, o \in 1 .. n : a[(i - 1) * l + (1 + o)] = s[(i - 1) * n + o]
  <2> TAKE i \in 1 .. k, o \in 1 .. n
  <2>1. PICK e \in 1 .. l : e = 1 + o
    BY <1>1
  <2>2. a[(i - 1) * l + e] = f[i][e]
    BY <1>7
  <2> QED BY <1>2, <1>3, <2>1, <2>2
<1> QED BY <1>1, <1>5, <1>8, <1>9, Zenon DEF AreFrames

\* read_stack gives back the stack that write_stack wrote.
LEMMA LuminanceRestores ==
    ASSUME NEW s, IsBytes(s)
    PROVE  Luminance(Y4mFile(s, "C420")) = s
<1>1. PICK k \in Nat \ {0}, n \in Nat \ {0} : k = D(s.shape) /\ n = FrameSize(s.shape)
  BY BytesAre, Zenon
<1>2. s.px \in Seq(0 .. 255) /\ Len(s.px) = k * n
  BY <1>1, BytesAre
<1>3. n \in Nat /\ n \div 2 \in Nat
  BY HalfIs
<1>4. PICK px \in Seq(0 .. 255), l \in Nat : px = s.px /\ l = 1 + n + (n \div 2)
  BY <1>2, <1>3
<1>5. PICK f : f = [nr \in 1 .. k |-> Framed(px, n, nr)]
  OBVIOUS
<1>6. PICK a : a = FlattenSeq(f)
  OBVIOUS
<1>7. WriteStack420(s) = a
  <2>1. s.bits = 8 /\ 8 \div 8 = 1 /\ InMemory(s) = px
    BY <1>4 DEF IsBytes, InMemory
  <2>2. ASSUME NEW nr \in 1 .. k
        PROVE  (nr - 1) * n * (s.bits \div 8) = (nr - 1) * n
    BY <2>1
  <2>3. [nr \in 1 .. k |->
           <<FRAME>> \o SubSeq(InMemory(s), (nr - 1) * n * (s.bits \div 8) + 1,
                                           (nr - 1) * n * (s.bits \div 8) + n)
                     \o Zeros(n \div 2)] = f
    BY <1>5, <2>1, <2>2 DEF Framed
  <2> QED BY <1>1, <1>6, <2>3, Zenon DEF WriteStack420
<1>8. /\ l \in Nat \ {0} /\ n \in 0 .. l - 1 /\ IsTitled(a, k, l)
      /\ \A i \in 1 .. k, o \in 1 .. n : a[(i - 1) * l + (1 + o)] = px[(i - 1) * n + o]
  <2>1. k \in Nat /\ Len(px) = k * n
    BY <1>2, <1>4
  <2>2. IsFramed(f, px, k, n, l)
    BY <1>4, <1>5 DEF IsFramed
  <2>3. AreFrames(FlattenSeq(f), px, k, n, l)
    BY <2>1, <2>2, FramedAre
  <2> QED BY <1>6, <2>3, Zenon DEF AreFrames
<1>9. PICK g : g = [i \in 1 .. k |-> Luma(a, l, n, i)]
  OBVIOUS
<1>10. FramesOf(a, n, 0) = g
  <2>1. k \in Nat
    OBVIOUS
  <2> QED BY <1>8, <1>9, <2>1, FramesAre
<1>11. /\ Len(g) = k
       /\ \A i \in 1 .. k : /\ g[i] \in Seq(0 .. 255) /\ Len(g[i]) = n
                            /\ \A o \in 1 .. n : g[i][o] = px[(i - 1) * n + o]
  <2>1. Len(g) = k
    BY <1>9
  <2>2. ASSUME NEW i \in 1 .. k
        PROVE  /\ g[i] \in Seq(0 .. 255) /\ Len(g[i]) = n
               /\ \A o \in 1 .. n : g[i][o] = px[(i - 1) * n + o]
    <3>1. PICK x, b \in Nat : /\ x = (i - 1) * l + 1 /\ b = (i - 1) * n /\ x \in Nat
                            /\ b + n <= Len(px) /\ x + n <= Len(a)
      <4>1. (i - 1) * l + (1 + n) \in 1 .. k * l /\ (i - 1) * l \in Nat
        <5>1. 1 + n \in 1 .. l /\ k \in Nat
          BY <1>8
        <5> QED BY <1>8, <5>1, PlaceInBlock
      <4>2. (i - 1) * n + n \in 1 .. k * n /\ (i - 1) * n \in Nat
        <5>1. n \in 1 .. n /\ k \in Nat
          OBVIOUS
        <5> QED BY <5>1, PlaceInBlock
      <4>3. Len(a) = k * l /\ Len(px) = k * n
        BY <1>2, <1>4, <1>8 DEF IsTitled
      <4> QED BY <4>1, <4>2, <4>3
    <3>2. g[i] = SubSeq(a, x + 1, x + n)
      BY <1>9, <3>1 DEF Luma
    <3>3. \A o \in 1 .. n : a[x + o] = px[b + o]
      <4> TAKE o \in 1 .. n
      <4>1. a[(i - 1) * l + (1 + o)] = px[(i - 1) * n + o]
        BY <1>8
      <4>2. PICK e \in Nat : e = (i - 1) * l /\ x = e + 1
        BY <3>1
      <4>3. e + (1 + o) = x + o
        BY <4>2
      <4>4. a[e + (1 + o)] = px[b + o]
        BY <3>1, <4>1, <4>2, Zenon
      <4> QED BY <4>3, <4>4, Zenon
    <3>4. /\ SubSeq(a, x + 1, x + n) \in Seq(Int) /\ Len(SubSeq(a, x + 1, x + n)) = n
          /\ \A o \in 1 .. n : SubSeq(a, x + 1, x + n)[o] = a[x + o]
      <4>1. PICK T : T = Int
        OBVIOUS
      <4>2. a \in Seq(T) /\ x \in Nat /\ n \in Nat /\ x + n <= Len(a)
        BY <1>8, <3>1, <4>1 DEF IsTitled
      <4>3. /\ SubSeq(a, x + 1, x + n) \in Seq(T) /\ Len(SubSeq(a, x + 1, x + n)) = n
            /\ \A o \in 1 .. n : SubSeq(a, x + 1, x + n)[o] = a[x + o]
        BY <4>2, PartOf
      <4> QED BY <4>1, <4>3
    <3>5. PICK y : y = g[i]
      OBVIOUS
    <3>6. y \in Seq(Int) /\ Len(y) = n /\ \A o \in 1 .. n : y[o] = px[b + o]
      BY <3>2, <3>3, <3>4, <3>5, Zenon
    <3>7. \A o \in 1 .. n : px[b + o] \in 0 .. 255
      <4> TAKE o \in 1 .. n
      <4>1. b + o \in 1 .. Len(px)
        BY <3>1
      <4> QED BY <4>1, ElementOf, Zenon
    <3>8. y \in Seq(0 .. 255)
      <4>1. \A c \in 1 .. Len(y) : y[c] \in 0 .. 255
        BY <3>6, <3>7, Zenon
      <4> QED BY <3>6, <4>1, InSeq, Zenon
    <3>9. \A o \in 1 .. n : y[o] = px[(i - 1) * n + o]
      BY <3>1, <3>6, Zenon
    <3> QED BY <3>5, <3>6, <3>8, <3>9, Zenon
  <2> QED BY <2>1, <2>2
<1>12. IsBlocks(g, n, 0 .. 255)
  BY <1>9, <1>11 DEF IsBlocks
<1>13. FlattenSeq(g) = px
  <2>1. PICK T : T = 0 .. 255
    OBVIOUS
  <2>2. px \in Seq(T) /\ Len(px) = k * n /\ IsBlocks(g, n, T) /\ Len(g) = k /\ k \in Nat
    BY <1>2, <1>4, <1>11, <1>12, <2>1
  <2>3. \A i \in 1 .. k, o \in 1 .. n : g[i][o] = px[(i - 1) * n + o]
    BY <1>11
  <2> QED BY <2>2, <2>3, FramesMakeStack
<1>14. PICK file : file = Y4mFile(s, "C420")
  OBVIOUS
<1>15. file.bytes = a /\ file.h = H(s.shape) /\ file.w = W(s.shape) /\ file.h * file.w = n
  BY <1>1, <1>7, <1>14 DEF Y4mFile, FrameSize
<1>16. Luminance(file) = [bits |-> 8, shape |-> <<k, H(s.shape), W(s.shape)>>, px |-> px]
  BY <1>10, <1>11, <1>13, <1>15, Zenon DEF Luminance
<1> QED BY <1>1, <1>4, <1>14, <1>16, BytesAre

LEMMA Quotient ==
    ASSUME NEW x \in Nat, NEW q \in Nat \ {0}
    PROVE  (x * q) \div q = x
<1>1. PICK d \in Nat, r \in 0 .. q - 1 : d = (x * q) \div q /\ x * q = q * d + r
  <2>1. x * q \in Nat
    OBVIOUS
  <2>2. \A y \in Nat : y \div q \in Nat /\ y % q \in 0 .. q - 1 /\ y = q * (y \div q) + (y % q)
    OBVIOUS
  <2> QED BY <2>1, <2>2
<1>2. CASE d = x
  BY <1>1, <1>2
<1>3. CASE d < x
  <2>1. PICK e \in Nat : x = d + 1 + e
    BY <1>3
  <2>2. x * q = q * d + q + q * e /\ q * e \in Nat /\ q * d \in Nat
    BY <2>1
  <2> QED BY <1>1, <2>2
<1>4. CASE d > x
  <2>1. PICK e \in Nat : d = x + 1 + e
    BY <1>4
  <2>2. q * d = x * q + q + q * e /\ q * e \in Nat /\ x * q \in Nat
    BY <2>1
  <2> QED BY <1>1, <2>2
<1> QED BY <1>1, <1>2, <1>3, <1>4

\* One frame of a yuv file.
Plain(s, n, i) == Frame(s, n, i) \o Zeros(n \div 2)

IsPlain(x, s, n, i) ==
    /\ x \in Seq(0 .. 255) /\ Len(x) = n + (n \div 2)
    /\ \A o \in 1 .. n : x[o] = s[(i - 1) * n + o]

LEMMA PlainIs ==
    ASSUME NEW s \in Seq(0 .. 255), NEW k \in Nat, NEW n \in Nat \ {0}, Len(s) = k * n,
           NEW i \in 1 .. k
    PROVE  IsPlain(Plain(s, n, i), s, n, i)
<1>1. PICK a \in Nat : a = (i - 1) * n /\ a + n <= Len(s) /\ i * n = a + n
  <2>1. (i - 1) * n \in Nat /\ (i - 1) * n + n \in 1 .. k * n /\ (i - 1) * n + n = i * n
    <3>1. n \in 1 .. n
      OBVIOUS
    <3> QED BY <3>1, PlaceInBlock
  <2> QED BY <2>1
<1>2. PICK T : T = 0 .. 255
  OBVIOUS
<1>3. PICK x : x = Frame(s, n, i)
  OBVIOUS
<1>4. x \in Seq(T) /\ Len(x) = n /\ \A o \in 1 .. n : x[o] = s[a + o]
  <2>1. s \in Seq(T) /\ a \in Nat /\ n \in Nat /\ a + n <= Len(s)
    BY <1>1, <1>2
  <2>2. /\ SubSeq(s, a + 1, a + n) \in Seq(T) /\ Len(SubSeq(s, a + 1, a + n)) = n
        /\ \A o \in 1 .. n : SubSeq(s, a + 1, a + n)[o] = s[a + o]
    BY <2>1, PartOf
  <2>3. x = SubSeq(s, a + 1, a + n)
    BY <1>1, <1>3 DEF Frame
  <2> QED BY <2>2, <2>3
<1>5. PICK m \in Nat, y \in {Zeros(n \div 2)} : m = n \div 2 /\ y = Zeros(m)
  BY HalfIs
<1>6. y \in Seq(T) /\ Len(y) = m
  <2>1. y \in Seq(0 .. 0) /\ Len(y) = m
    BY <1>5, ZerosAre
  <2>2. 0 .. 0 \subseteq T
    BY <1>2
  <2> QED BY <2>1, <2>2, WiderSeq, Zenon
<1>7. PICK v : v = x \o y
  OBVIOUS
<1>8. /\ v \in Seq(T) /\ Len(v) = Len(x) + Len(y)
      /\ \A o \in 1 .. Len(x) + Len(y) : v[o] = IF o <= Len(x) THEN x[o] ELSE y[o - Len(x)]
  BY <1>4, <1>6, <1>7, ConcatProperties
<1>9. Len(v) = n + m /\ \A o \in 1 .. n : v[o] = s[a + o]
  BY <1>4, <1>6, <1>8
<1>10. v = Plain(s, n, i)
  BY <1>3, <1>5, <1>7 DEF Plain
<1> QED BY <1>1, <1>2, <1>5, <1>8, <1>9, <1>10 DEF IsPlain

\* read_yuv_to_gray8 gives back the stack that write_stack_as_yuv wrote, if it
\* is told its height and width.
LEMMA GrayRestores ==
    ASSUME NEW s, IsBytes(s), NEW file, file.kind = "yuv", file.bytes = YuvFile(s).bytes
    PROVE  YuvToGray8(file, H(s.shape), W(s.shape)) = s
<1>1. PICK k \in Nat \ {0}, n \in Nat \ {0} : k = D(s.shape) /\ n = FrameSize(s.shape)
  BY BytesAre, Zenon
<1>2. s.px \in Seq(0 .. 255) /\ Len(s.px) = k * n
  BY <1>1, BytesAre
<1>3. PICK px \in Seq(0 .. 255), l \in Nat : px = s.px /\ l = n + (n \div 2) /\ l = (3 * n) \div 2
  BY <1>2, HalfIs
<1>4. l \in Nat \ {0} /\ n <= l
  <2>1. n \div 2 \in Nat
    BY HalfIs
  <2> QED BY <1>3, <2>1
<1>5. PICK f : f = [nr \in 1 .. k |-> Plain(px, n, nr)]
  OBVIOUS
<1>6. PICK a, T : a = FlattenSeq(f) /\ T = 0 .. 255
  OBVIOUS
<1>7. file.bytes = a
  <2>1. [nr \in 1 .. k |-> Frame(px, n, nr) \o Zeros(n \div 2)] = f
    BY <1>5 DEF Plain
  <2>2. YuvFile(s).bytes = FlattenSeq([nr \in 1 .. k |-> Frame(px, n, nr) \o Zeros(n \div 2)])
    BY <1>1, <1>3 DEF YuvFile
  <2> QED BY <1>6, <2>1, <2>2, Zenon
<1>8. \A i \in 1 .. k : /\ Plain(px, n, i) \in Seq(T) /\ Len(Plain(px, n, i)) = l
                        /\ \A o \in 1 .. n : Plain(px, n, i)[o] = px[(i - 1) * n + o]
  <2>1. k \in Nat /\ Len(px) = k * n
    BY <1>2, <1>3
  <2>2. \A i \in 1 .. k : IsPlain(Plain(px, n, i), px, n, i)
    BY <2>1, PlainIs
  <2> QED BY <1>3, <1>6, <2>2, Zenon DEF IsPlain
<1>9. Len(f) = k /\ f \in Seq(Seq(T)) /\ \A i \in 1 .. k : f[i] = Plain(px, n, i)
  <2>1. f \in [1 .. k -> Seq(T)]
    BY <1>5, <1>8
  <2>2. k \in Nat
    OBVIOUS
  <2> QED BY <1>5, <2>1, <2>2
<1>10. AreLaid(a, f, l, T)
  <2>1. IsBlocks(f, l, T)
    BY <1>8, <1>9 DEF IsBlocks
  <2> QED BY <1>4, <1>6, <2>1, FlattenIs
<1>11. /\ a \in Seq(T) /\ Len(a) = k * l
       /\ \A i \in 1 .. k, o \in 1 .. l : a[(i - 1) * l + o] = f[i][o]
  BY <1>9, <1>10, Zenon DEF AreLaid
<1>12. Len(a) \div l = k
  <2>1. k \in Nat
    OBVIOUS
  <2> QED BY <1>4, <1>11, <2>1, Quotient
<1>13. PICK g : g = [i \in 1 .. k |-> SubSeq(a, (i - 1) * l + 1, (i - 1) * l + n)]
  OBVIOUS
<1>14. /\ Len(g) = k
       /\ \A i \in 1 .. k : /\ g[i] \in Seq(T) /\ Len(g[i]) = n
                            /\ \A o \in 1 .. n : g[i][o] = px[(i - 1) * n + o]
  <2>1. Len(g) = k
    BY <1>13
  <2>2. ASSUME NEW i \in 1 .. k
        PROVE  /\ g[i] \in Seq(T) /\ Len(g[i]) = n
               /\ \A o \in 1 .. n : g[i][o] = px[(i - 1) * n + o]
    <3>1. PICK x \in Nat : x = (i - 1) * l /\ x + n <= Len(a)
      <4>1. (i - 1) * l + n \in 1 .. k * l /\ (i - 1) * l \in Nat
        <5>1. n \in 1 .. l /\ k \in Nat
          BY <1>4
        <5> QED BY <1>4, <5>1, PlaceInBlock
      <4> QED BY <1>11, <4>1
    <3>2. /\ SubSeq(a, x + 1, x + n) \in Seq(T) /\ Len(SubSeq(a, x + 1, x + n)) = n
          /\ \A o \in 1 .. n : SubSeq(a, x + 1, x + n)[o] = a[x + o]
      <4>1. a \in Seq(T) /\ x \in Nat /\ n \in Nat /\ x + n <= Len(a)
        BY <1>11, <3>1
      <4> QED BY <4>1, PartOf
    <3>3. g[i] = SubSeq(a, x + 1, x + n)
      BY <1>13, <3>1
    <3>4. ASSUME NEW o \in 1 .. n  PROVE a[x + o] = px[(i - 1) * n + o]
      <4>1. o \in 1 .. l
        BY <1>4
      <4>2. a[(i - 1) * l + o] = f[i][o]
        BY <1>11, <4>1
      <4>3. f[i][o] = px[(i - 1) * n + o]
        BY <1>8, <1>9
      <4> QED BY <3>1, <4>2, <4>3, Zenon
    <3> QED BY <3>2, <3>3, <3>4, Zenon
  <2> QED BY <2>1, <2>2
<1>15. FlattenSeq(g) = px
  <2>1. IsBlocks(g, n, T)
    <3>1. g \in [1 .. k -> Seq(T)]
      BY <1>13, <1>14
    <3>2. k \in Nat
      OBVIOUS
    <3>3. g \in Seq(Seq(T)) /\ Len(g) = k
      BY <3>1, <3>2
    <3>4. \A i \in 1 .. Len(g) : Len(g[i]) = n
      BY <1>14, <3>3
    <3> QED BY <3>3, <3>4, Zenon DEF IsBlocks
  <2>2. px \in Seq(T) /\ Len(px) = k * n /\ Len(g) = k /\ k \in Nat
    BY <1>2, <1>3, <1>6, <1>14
  <2>3. \A i \in 1 .. k, o \in 1 .. n : g[i][o] = px[(i - 1) * n + o]
    BY <1>14
  <2> QED BY <2>1, <2>2, <2>3, FramesMakeStack
<1>16. PlainBytes(file) = a
  BY <1>7, Zenon DEF PlainBytes
<1>17. PICK h, w : h = H(s.shape) /\ w = W(s.shape) /\ n = h * w
  BY <1>1 DEF FrameSize
<1>18. YuvToGray8(file, h, w) = [bits |-> 8, shape |-> <<k, h, w>>, px |-> px]
  <2>1. (3 * n) \div 2 = l /\ (3 * (h * w)) \div 2 = l /\ h * w = n
    BY <1>3, <1>17
  <2>2. YuvToGray8(file, h, w) =
          [bits |-> 8, shape |-> <<Len(a) \div l, h, w>>,
           px |-> FlattenSeq([i \in 1 .. (Len(a) \div l) |-> SubSeq(a, (i - 1) * l + 1, (i - 1) * l + n)])]
    BY <1>16, <2>1, Zenon DEF YuvToGray8
  <2> QED BY <1>12, <1>13, <1>15, <2>2, Zenon
<1> QED BY <1>1, <1>3, <1>17, <1>18, BytesAre

-----------------------------------------------------------------------------
(* Quantised and back *)

\* How many values are smaller: no two values have the same.
Below(V, v) == {u \in V : u < v}
Rank(V, v) == Cardinality(Below(V, v))

LEMMA BelowFinite ==
    ASSUME NEW V, IsFiniteSet(V), NEW v
    PROVE  IsFiniteSet(Below(V, v)) /\ Rank(V, v) \in Nat
<1>1. Below(V, v) \in SUBSET V
  BY DEF Below
<1>2. IsFiniteSet(Below(V, v))
  BY <1>1, FS_Subset
<1> QED BY <1>2, FS_CardinalityType, Zenon DEF Rank

LEMMA RankGrows ==
    ASSUME NEW V \in SUBSET Int, IsFiniteSet(V), NEW u \in V, NEW v \in V, u < v
    PROVE  Rank(V, u) < Rank(V, v)
<1>1. PICK A, B : A = Below(V, u) /\ B = Below(V, v)
  OBVIOUS
<1>2. A \in SUBSET B /\ u \in B /\ u \notin A
  <2>1. u \in Int /\ v \in Int /\ \A x \in V : x \in Int
    OBVIOUS
  <2>2. \A x \in Int : x < u => x < v
    BY <2>1
  <2>3. \A x \in A : x \in V /\ x < u
    BY <1>1 DEF Below
  <2>4. \A x \in V : x < v => x \in B
    BY <1>1 DEF Below
  <2>5. \A x \in A : x \in B
    BY <2>1, <2>2, <2>3, <2>4
  <2>6. u \in B
    BY <2>4
  <2>7. u \notin A
    BY <2>1, <2>3
  <2> QED BY <2>5, <2>6, <2>7
<1>3. IsFiniteSet(A) /\ IsFiniteSet(B)
  BY <1>1, BelowFinite
<1>4. Cardinality(A) <= Cardinality(B) /\ (Cardinality(A) = Cardinality(B) => A = B)
  BY <1>2, <1>3, FS_Subset
<1>5. Cardinality(A) \in Nat /\ Cardinality(B) \in Nat
  BY <1>3, FS_CardinalityType
<1> QED BY <1>1, <1>2, <1>4, <1>5 DEF Rank

LEMMA RankOfOne ==
    ASSUME NEW V \in SUBSET Int, IsFiniteSet(V), NEW u \in V, NEW v \in V,
           Rank(V, u) = Rank(V, v)
    PROVE  u = v
<1>1. Rank(V, u) \in Nat /\ Rank(V, v) \in Nat
  BY BelowFinite
<1>2. ~(u < v)
  BY <1>1, RankGrows
<1>3. ~(v < u)
  BY <1>1, RankGrows
<1> QED BY <1>2, <1>3

\* Every value is in the table, behind those that are smaller.
LEMMA InSorted ==
    ASSUME NEW V \in SUBSET Int, IsFiniteSet(V), NEW v \in V
    PROVE  /\ Len(Sorted(V)) = Cardinality(V) /\ Cardinality(V) \in Nat
           /\ Rank(V, v) \in 0 .. Cardinality(V) - 1 /\ Sorted(V)[Rank(V, v) + 1] = v
<1>1. PICK c \in Nat : c = Cardinality(V)
  BY FS_CardinalityType
<1>2. PICK r \in Nat : r = Rank(V, v)
  BY BelowFinite
<1>3. r < c
  <2>1. PICK A : A = Below(V, v)
    OBVIOUS
  <2>2. A \in SUBSET V /\ v \notin A
    BY <2>1 DEF Below
  <2>3. Cardinality(A) <= Cardinality(V) /\ (Cardinality(A) = Cardinality(V) => A = V)
    BY <2>2, FS_Subset
  <2> QED BY <1>1, <1>2, <2>1, <2>2, <2>3 DEF Rank
<1> DEFINE P(k) == CHOOSE x \in V : Rank(V, x) = k
<1>4. Sorted(V) = [i \in 1 .. c |-> P(i - 1)]
  <2> DEFINE below == [x \in V |-> Cardinality({u \in V : u < x})]
  <2>1. \A x \in V : below[x] = Rank(V, x)
    BY DEF Rank, Below
  <2>2. Sorted(V) = [i \in 1 .. c |-> CHOOSE x \in V : below[x] = i - 1]
    BY <1>1 DEF Sorted
  <2> HIDE DEF below
  <2>3. \A i \in 1 .. c : (CHOOSE x \in V : below[x] = i - 1) = P(i - 1)
    BY <2>1
  <2> HIDE DEF P
  <2> QED BY <2>2, <2>3
<1>7. P(r) \in V /\ Rank(V, P(r)) = r
  BY <1>2, Zenon
<1> HIDE DEF P
<1>5. Len(Sorted(V)) = c
  BY <1>4
<1>6. Sorted(V)[r + 1] = P(r)
  <2>1. r + 1 \in 1 .. c /\ r + 1 - 1 = r
    BY <1>3
  <2> QED BY <1>4, <2>1
<1>8. P(r) = v
  BY <1>2, <1>7, RankOfOne
<1>9. r \in 0 .. c - 1
  BY <1>3
<1> QED BY <1>1, <1>2, <1>5, <1>6, <1>8, <1>9

\* The first place of a value in a sequence that has it.
Place(s, v) == SelectInSeq(s, LAMBDA e : e = v)

LEMMA PlaceIs ==
    ASSUME NEW s, Len(s) \in Nat, NEW v, \E i \in 1 .. Len(s) : s[i] = v
    PROVE  /\ Place(s, v) \in 1 .. Len(s) /\ s[Place(s, v)] = v
           /\ \A i \in 1 .. Len(s) : s[i] = v => Place(s, v) <= i
<1> DEFINE I == {i \in 1 .. Len(s) : s[i] = v}
<1>1. Place(s, v) = IF I # {} THEN Min(I) ELSE 0
  BY DEF Place, SelectInSeq
<1>2. I # {} /\ I \subseteq Nat
  OBVIOUS
<1>3. \E x \in I : \A y \in I : x <= y
  BY <1>2, NatMin
<1>4. Min(I) \in I /\ \A y \in I : Min(I) <= y
  BY <1>3 DEF Min
<1> QED BY <1>1, <1>2, <1>4

LEMMA StackIs ==
    ASSUME NEW s, IsStack(s)
    PROVE  /\ s.px \in Seq(Words) /\ Values(s) \in SUBSET Int /\ IsFiniteSet(Values(s))
           /\ s.shape \in Sides \X Sides \X Sides /\ Len(s.px) = D(s.shape) * FrameSize(s.shape)
           /\ s = [bits |-> s.bits, shape |-> s.shape, px |-> s.px]
           /\ Cardinality(Values(s)) <= 256 /\ Len(s.px) \in Nat
<1>1. s \in Stacks
  BY DEF IsStack
<1>2. s.px \in Seq(Words) /\ Len(s.px) \in Nat
  BY <1>1 DEF Stacks
<1>3. Values(s) \in SUBSET Words
  BY <1>2 DEF Values
<1>4. IsFiniteSet(Words) /\ Words \subseteq Int
  <2>1. PICK e \in Int : e = 65535
    OBVIOUS
  <2>2. 0 \in Int /\ IsFiniteSet(0 .. e)
    BY FS_Interval
  <2>3. Words = 0 .. e
    BY <2>1 DEF Words
  <2> QED BY <2>2, <2>3
<1>5. IsFiniteSet(Values(s))
  BY <1>3, <1>4, FS_Subset
<1>6. Values(s) \in SUBSET Int
  BY <1>3, <1>4
<1> QED BY <1>1, <1>2, <1>5, <1>6 DEF IsStack, Stacks, Values

\* Where the quantiser has a code that is not negative for every value, the
\* stack comes back; otherwise it does but for the values behind.
LEMMA QuantisedIs ==
    ASSUME NEW s, IsStack(s)
    PROVE  /\ IsBytes(Quantised(s))
           /\ s.bits = 16 => \A memory \in Memory :
                IF TooMany(Table(s)) THEN AgreesWith(Dequantised(Quantised(s), Table(s), memory), s)
                ELSE Dequantised(Quantised(s), Table(s), memory) = s
<1>0. PICK t : t = Table(s) /\ t = Sorted(Values(s))
  BY DEF Table
<1>1. PICK c \in Nat : c = Cardinality(Values(s)) /\ c <= 256 /\ Len(t) = c
  <2>2. Len(Sorted(Values(s))) = Cardinality(Values(s))
    BY StackIs, FS_CardinalityType DEF Sorted
  <2>3. Cardinality(Values(s)) \in Nat /\ Cardinality(Values(s)) <= 256
    BY StackIs, FS_CardinalityType
  <2> QED BY <1>0, <2>2, <2>3
<1>2. PICK px : px = s.px /\ px \in Seq(Words) /\ Len(px) \in Nat /\ DOMAIN px = 1 .. Len(px)
  BY StackIs
<1>3. ASSUME NEW i \in 1 .. Len(px)
      PROVE  /\ Rank(Values(s), px[i]) \in 0 .. c - 1
             /\ t[Rank(Values(s), px[i]) + 1] = px[i]
  <2>1. px[i] \in Values(s)
    BY <1>2 DEF Values
  <2> QED BY <1>0, <1>1, <2>1, StackIs, InSorted
<1>4. PICK q : q = [i \in 1 .. Len(px) |-> Place(t, px[i]) - 1]
  OBVIOUS
<1>5. ASSUME NEW i \in 1 .. Len(px)
      PROVE  /\ q[i] \in 0 .. c - 1 /\ t[q[i] + 1] = px[i]
             /\ q[i] <= Rank(Values(s), px[i])
  <2>1. PICK v, r : v = px[i] /\ r = Rank(Values(s), v)
    OBVIOUS
  <2>2. r \in 0 .. c - 1 /\ t[r + 1] = v
    BY <1>3, <2>1
  <2>3. r + 1 \in 1 .. c
    BY <2>2
  <2>4. /\ Place(t, v) \in 1 .. c /\ t[Place(t, v)] = v
        /\ Place(t, v) <= r + 1
    BY <1>1, <2>2, <2>3, PlaceIs
  <2>5. q[i] = Place(t, v) - 1
    BY <1>4, <2>1
  <2> QED BY <2>1, <2>2, <2>4, <2>5
<1>6. PICK image : image = Quantised(s)
  OBVIOUS
<1>7. image = [bits |-> 8, shape |-> s.shape, px |-> q]
  <2>1. [i \in DOMAIN s.px |-> SelectInSeq(Table(s), LAMBDA v : v = s.px[i]) - 1] = q
    BY <1>0, <1>2, <1>4 DEF Place
  <2> QED BY <1>6, <2>1, Zenon DEF Quantised
<1>8. q \in Seq(0 .. 255) /\ Len(q) = Len(px)
  <2>1. \A i \in 1 .. Len(px) : q[i] \in 0 .. 255
    <3>1. 0 .. c - 1 \subseteq 0 .. 255
      <4>1. c \in Nat /\ c <= 256
        BY <1>1
      <4> HIDE <1>1
      <4> QED BY <4>1
    <3> QED BY <1>5, <3>1, Zenon
  <2>2. q \in [1 .. Len(px) -> 0 .. 255]
    BY <1>4, <2>1
  <2>3. PICK m \in Nat : m = Len(px)
    BY <1>2
  <2>4. q \in [1 .. m -> 0 .. 255]
    BY <2>2, <2>3
  <2>5. q \in Seq(0 .. 255) /\ Len(q) = m
    BY <2>4
  <2> QED BY <2>3, <2>5
<1>9. IsBytes(image)
  <2>1. s.shape \in Sides \X Sides \X Sides /\ Len(px) = D(s.shape) * FrameSize(s.shape)
    BY <1>2, StackIs
  <2> QED BY <1>7, <1>8, <2>1 DEF IsBytes
<1>10. ASSUME s.bits = 16, NEW memory \in Memory
       PROVE  IF TooMany(t) THEN AgreesWith(Dequantised(image, t, memory), s)
              ELSE Dequantised(image, t, memory) = s
  <2> DEFINE Voxel(i) == IF q[i] \in Negative THEN memory[q[i]]
                         ELSE IF q[i] < Len(t) THEN t[q[i] + 1] ELSE Unused(t)
  <2>1. PICK r : r = Dequantised(image, t, memory)
    OBVIOUS
  <2>2. r = [bits |-> 16, shape |-> s.shape, px |-> [i \in 1 .. Len(px) |-> Voxel(i)]]
    <3>1. image.px = q /\ image.shape = s.shape /\ DOMAIN q = 1 .. Len(px)
      BY <1>4, <1>7
    <3> QED BY <2>1, <3>1, Zenon DEF Dequantised
  <2>3. ASSUME NEW i \in 1 .. Len(px), q[i] < FirstNegative  PROVE Voxel(i) = px[i]
    <3>1. PICK k \in Int, f \in Int : k = q[i] /\ f = FirstNegative
      BY <1>1, <1>5, CommandsAssumption
    <3>2. q[i] \notin Negative
      <4>1. k \notin f .. 255
        BY <2>3, <3>1
      <4> QED BY <3>1, <4>1 DEF Negative
    <3>3. q[i] < Len(t)
      BY <1>1, <1>5
    <3> QED BY <1>5, <3>2, <3>3
  <2>4. CASE ~TooMany(t)
    <3>1. \A i \in 1 .. Len(px) : q[i] < FirstNegative
      <4> TAKE i \in 1 .. Len(px)
      <4>1. q[i] \in 0 .. c - 1 /\ c \in Nat /\ FirstNegative \in Nat /\ ~(c > FirstNegative)
        BY <1>1, <1>5, <2>4, CommandsAssumption DEF TooMany
      <4> QED BY <4>1
    <3>2. \A i \in 1 .. Len(px) : Voxel(i) = px[i]
      BY <2>3, <3>1
    <3> HIDE DEF Voxel
    <3>3. [i \in 1 .. Len(px) |-> Voxel(i)] = px
      BY <1>2, <3>2
    <3>4. r = s
      BY <1>2, <1>10, <2>2, <3>3, StackIs
    <3> QED BY <2>1, <2>4, <3>4
  <2>5. CASE TooMany(t)
    <3>1. ASSUME NEW i \in 1 .. Len(px), Cardinality({v \in Values(s) : v < px[i]}) < FirstNegative
          PROVE  Voxel(i) = px[i]
      <4>1. Rank(Values(s), px[i]) < FirstNegative
        BY <3>1 DEF Rank, Below
      <4>2. q[i] <= Rank(Values(s), px[i]) /\ q[i] \in Int /\ Rank(Values(s), px[i]) \in Int
        BY <1>1, <1>3, <1>5
      <4>3. q[i] < FirstNegative
        BY <4>1, <4>2, CommandsAssumption
      <4> QED BY <2>3, <4>3
    <3> HIDE DEF Voxel
    <3> DEFINE w == [i \in 1 .. Len(px) |-> Voxel(i)]
    <3>2. Len(w) = Len(px)
      BY <1>2
    <3>3. \A i \in DOMAIN s.px :
            Cardinality({v \in Values(s) : v < s.px[i]}) < FirstNegative => w[i] = s.px[i]
      BY <1>2, <3>1
    <3>4. r.bits = s.bits /\ r.shape = s.shape /\ r.px = w
      BY <1>10, <2>2
    <3> HIDE DEF w
    <3>5. AgreesWith(r, s)
      BY <1>2, <3>2, <3>3, <3>4 DEF AgreesWith
    <3> QED BY <2>1, <2>5, <3>5
  <2> QED BY <2>4, <2>5
<1> QED BY <1>0, <1>6, <1>9, <1>10

-----------------------------------------------------------------------------
(* What the files hold *)

\* The bytes a video of a stack holds, and the table it was written with.
Shown(stack) == IF stack.bits = 8 THEN stack ELSE Quantised(stack)
ShownTable(stack) == IF stack.bits = 8 THEN NoTable ELSE Table(stack)

IsOf(stack, rough, whole) == IF rough THEN AgreesWith(stack, whole) ELSE stack = whole
HoldsStack(c) ==
    c.of # NoOne =>
        /\ c.rough \in BOOLEAN
        /\ \E v \in DOMAIN Volumes : Volumes[v].of = c.of /\ IsOf(c.stack, c.rough, Volumes[v].stack)

\* A stream that passed the quantiser was not rough before.
HoldsStream(c) ==
    HoldsStack(c) /\ (c.of # NoOne /\ c.quantised => c.rough = FALSE /\ c.stack.bits = 16)

HoldsYuv(n, c, stack) ==
    /\ c.bytes = YuvFile(Shown(stack)).bytes /\ c.table = ShownTable(stack)
    /\ n.tag = <<H(stack.shape), W(stack.shape), D(stack.shape)>>

HoldsY4m(c, stack) ==
    /\ c.bytes = WriteStack420(Shown(stack)) /\ c.table = ShownTable(stack)
    /\ c.h = H(stack.shape) /\ c.w = W(stack.shape)

\* What the file of name n holds, as far as a later command may use it.
Kept(n, c) ==
    /\ c.kind = "tif" => HoldsStack(c)
    /\ c.kind = "sqy" => HoldsStream(c)
    /\ c.kind = "h5" => \A d \in DOMAIN c.items : HoldsStream(c.items[d])
    /\ c.kind = "yuv" /\ c.of # NoOne =>
         \E v \in DOMAIN Volumes : Volumes[v].of = c.of /\ HoldsYuv(n, c, Volumes[v].stack)
    /\ c.kind = "y4m" /\ c.of # NoOne /\ c.code = "C420" =>
         \E v \in DOMAIN Volumes : Volumes[v].of = c.of /\ HoldsY4m(c, Volumes[v].stack)

AllKept(files) == \A n \in DOMAIN files : Kept(n, files[n])

\* The process of a command that runs.
ProcessOk ==
    exit = Running =>
        /\ DOMAIN process = {"cmd", "at", "value", "unclosed", "reserved"}
        /\ cmd \in Commands /\ value \in {0, 1}

\* Inductive invariant.
FilesInv == AllKept(disk) /\ ProcessOk

LEMMA OverIs ==
    ASSUME NEW a, NEW b
    PROVE  /\ DOMAIN Over(a, b) = DOMAIN a \cup DOMAIN b
           /\ \A x \in DOMAIN a : Over(a, b)[x] = a[x]
           /\ \A x \in DOMAIN b \ DOMAIN a : Over(a, b)[x] = b[x]
BY DEF Over

LEMMA OneIs ==
    ASSUME NEW n, NEW c
    PROVE  DOMAIN One(n, c) = {n} /\ One(n, c)[n] = c
BY DEF One

LEMMA OverKept ==
    ASSUME NEW a, AllKept(a), NEW b, AllKept(b)
    PROVE  AllKept(Over(a, b))
<1> DEFINE o == Over(a, b)
<1>1. /\ DOMAIN o = DOMAIN a \cup DOMAIN b
      /\ \A x \in DOMAIN a : o[x] = a[x]
      /\ \A x \in DOMAIN b \ DOMAIN a : o[x] = b[x]
  BY OverIs
<1> HIDE DEF o
<1>2. ASSUME NEW n \in DOMAIN o  PROVE Kept(n, o[n])
  <2>1. CASE n \in DOMAIN a
    BY <1>1, <2>1 DEF AllKept
  <2>2. CASE n \notin DOMAIN a
    BY <1>1, <2>2 DEF AllKept
  <2> QED BY <2>1, <2>2
<1>3. AllKept(o)
  BY <1>2 DEF AllKept
<1> QED BY <1>3 DEF o

LEMMA OneKept ==
    ASSUME NEW n, NEW c, Kept(n, c)
    PROVE  AllKept(One(n, c))
<1> DEFINE o == One(n, c)
<1>1. DOMAIN o = {n} /\ o[n] = c
  BY OneIs
<1> HIDE DEF o
<1>2. AllKept(o)
  BY <1>1 DEF AllKept
<1> QED BY <1>2 DEF o

\* A file that is written and holds what it should leaves all others as they were.
LEMMA WroteKept ==
    ASSUME AllKept(disk), NEW n, NEW c, Kept(n, c)
    PROVE  AllKept(Wrote(n, c))
BY OneKept, OverKept DEF Wrote

\* A file without a volume holds nothing that matters.
LEMMA NobodysKept ==
    ASSUME NEW n, NEW c, c.of = NoOne, c.kind = "h5" => \A d \in DOMAIN c.items : c.items[d].of = NoOne
    PROVE  Kept(n, c)
BY DEF Kept, HoldsStack, HoldsStream

LEMMA TiffKept ==
    ASSUME NEW n, NEW stack, NEW of, NEW rough \in BOOLEAN,
           of # NoOne => \E v \in DOMAIN Volumes : Volumes[v].of = of /\ IsOf(stack, rough, Volumes[v].stack)
    PROVE  Kept(n, Tiff(stack, of, rough))
BY DEF Kept, HoldsStack, Tiff

LEMMA SqyKept ==
    ASSUME NEW n, NEW input, HoldsStack(input)
    PROVE  Kept(n, SqyStream(input)) /\ HoldsStream(SqyStream(input))
<1>1. PICK c : c = SqyStream(input)
  OBVIOUS
<1>2. PICK quantised : quantised = (Pipe.sink = "quantiser" /\ input.stack.bits = 16)
  OBVIOUS
<1>3. /\ c.kind = "sqy" /\ c.stack = input.stack /\ c.rough = input.rough /\ c.quantised = quantised
      /\ c.of = IF quantised /\ input.rough THEN NoOne ELSE input.of
  BY <1>1, <1>2 DEF SqyStream
<1>4. c.of # NoOne => c.of = input.of
  BY <1>3
<1>5. HoldsStack(c)
  BY <1>3, <1>4 DEF HoldsStack
<1>6. ASSUME c.of # NoOne, c.quantised  PROVE c.rough = FALSE /\ c.stack.bits = 16
  <2>1. input.rough \in BOOLEAN
    BY <1>4, <1>6 DEF HoldsStack
  <2> QED BY <1>2, <1>3, <1>6, <2>1
<1>7. HoldsStream(c)
  BY <1>5, <1>6 DEF HoldsStream
<1>8. Kept(n, c)
  BY <1>3, <1>7 DEF Kept
<1> QED BY <1>1, <1>7, <1>8

LEMMA LoadedHolds ==
    ASSUME AllKept(disk), NEW n \in DOMAIN disk, Loads(n)
    PROVE  HoldsStack(disk[n])
BY DEF AllKept, Kept, Loads

LEMMA ExitOk ==
    ASSUME NEW code, code # Running, Exit(code)
    PROVE  ProcessOk'
BY DEF Exit, ProcessOk

LEMMA OnWithOk ==
    ASSUME ProcessOk, exit = Running, NEW nextp, DOMAIN nextp = DOMAIN process,
           nextp.cmd = cmd, nextp.value \in {0, 1}, NEW end, end # Running, OnWith(nextp, end)
    PROVE  ProcessOk'
<1>1. CASE Exit(end)
  BY <1>1, ExitOk
<1>2. CASE process' = [nextp EXCEPT !.at = at + 1] /\ UNCHANGED exit
  BY <1>2 DEF ProcessOk, cmd, value
<1> QED BY <1>1, <1>2 DEF OnWith

LEMMA NextFileOk ==
    ASSUME ProcessOk, exit = Running, NEW code \in {0, 1}, NEW end \in {0, 1}, NextFile(code, end)
    PROVE  ProcessOk'
<1> DEFINE nextp == [process EXCEPT !.value = code]
<1>1. DOMAIN nextp = DOMAIN process /\ nextp.cmd = cmd /\ nextp.value \in {0, 1}
  BY DEF ProcessOk, cmd
<1>2. OnWith(nextp, end) /\ end # Running
  BY DEF NextFile, Running
<1> HIDE DEF nextp
<1> QED BY <1>1, <1>2, OnWithOk

LEMMA FileDoneOk ==
    ASSUME ProcessOk, exit = Running, NEW code, code = 0 \/ code = value, FileDone(code)
    PROVE  ProcessOk'
<1>1. value \in {0, 1} /\ code \in {0, 1}
  BY DEF ProcessOk
<1>2. NextFile(code, code) \/ NextFile(value, 0)
  BY DEF FileDone, CompressDone, BenchDone
<1>3. 0 \in {0, 1}
  OBVIOUS
<1> QED BY <1>1, <1>2, <1>3, NextFileOk

LEMMA CrashOk ==
    ASSUME Crash
    PROVE  ProcessOk'
BY ExitOk DEF Crash, Crashed, Running

-----------------------------------------------------------------------------
(* compress and bench *)

LEMMA NativeWriteInv ==
    ASSUME FilesInv, exit = Running, NEW input, HoldsStack(input), NEW target, NativeWrite(input, target)
    PROVE  FilesInv'
<1>1. CASE EncodeThrows
  BY <1>1, CrashOk DEF EncodeThrows, FilesInv
<1>2. CASE disk' = Wrote(target, SqyStream(input)) /\ FileDone(0)
  <2>1. AllKept(disk')
    BY <1>2, SqyKept, WroteKept DEF FilesInv
  <2>2. ProcessOk'
    BY <1>2, FileDoneOk DEF FilesInv
  <2> QED BY <2>1, <2>2 DEF FilesInv
<1> QED BY <1>1, <1>2 DEF NativeWrite

LEMMA Unwritten ==
    ASSUME FilesInv, exit = Running, NEW code, code = 0 \/ code = value,
           FileDone(code), UNCHANGED disk
    PROVE  FilesInv'
BY FileDoneOk DEF FilesInv

LEMMA TiffWriteInv ==
    ASSUME FilesInv, exit = Running, NEW input, NEW target, TiffWrite(input, target)
    PROVE  FilesInv'
<1>1. CASE EncodeThrows
  BY <1>1, CrashOk DEF EncodeThrows, FilesInv
<1>2. CASE FileDone(0) /\ UNCHANGED disk
  BY <1>2, Unwritten
<1>3. ASSUME NEW stack, WriteTiff(target, Tiff(stack, NoOne, FALSE)), FileDone(0)
      PROVE  FilesInv'
  <2>1. AllKept(disk')
    BY <1>3, TiffKept, WroteKept DEF FilesInv, WriteTiff
  <2>2. ProcessOk'
    BY <1>3, FileDoneOk DEF FilesInv
  <2> QED BY <2>1, <2>2 DEF FilesInv
<1> QED BY <1>1, <1>2, <1>3 DEF TiffWrite

LEMMA H5WriteInv ==
    ASSUME FilesInv, exit = Running, NEW input, HoldsStack(input), NEW target,
           NEW items, \A d \in DOMAIN items : HoldsStream(items[d]), H5Write(input, target, items)
    PROVE  FilesInv'
<1>1. CASE Crash /\ disk' = Wrote(target, Broken("h5 torn"))
  <2>1. Kept(target, Broken("h5 torn"))
    <3>1. /\ Broken("h5 torn").of = NoOne /\ Broken("h5 torn").kind # "h5"
      BY DEF Broken
    <3> QED BY <3>1, NobodysKept
  <2>2. AllKept(disk')
    BY <1>1, <2>1, WroteKept DEF FilesInv
  <2> QED BY <1>1, <2>2, CrashOk DEF FilesInv
<1>2. CASE /\ disk' = Wrote(target, Hdf5(Over(One(cmd.dataset, SqyStream(input)), items)))
           /\ FileDone(0)
  <2> DEFINE o == Over(One(cmd.dataset, SqyStream(input)), items)
  <2>1. \A d \in DOMAIN o : HoldsStream(o[d])
    <3>1. HoldsStream(SqyStream(input))
      BY SqyKept
    <3> QED BY <3>1 DEF Over, One
  <2> HIDE DEF o
  <2>2. Kept(target, Hdf5(o))
    BY <2>1 DEF Kept, Hdf5
  <2>3. AllKept(disk')
    BY <1>2, <2>2, WroteKept DEF FilesInv, o
  <2>4. ProcessOk'
    BY <1>2, FileDoneOk DEF FilesInv
  <2> QED BY <2>3, <2>4 DEF FilesInv
<1> QED BY <1>1, <1>2 DEF H5Write

LEMMA CompressInv ==
    ASSUME FilesInv, CompressFile
    PROVE  FilesInv'
<1> DEFINE target == OutputName(File, "sqy")
<1>0. exit = Running
  BY DEF CompressFile, Runs
<1>1. CASE Exit(1) /\ UNCHANGED disk
  BY <1>1, ExitOk DEF FilesInv, Running
<1>2. CASE FileDone(value) /\ UNCHANGED disk
  BY <1>0, <1>2, Unwritten
<1>3. CASE Crash /\ UNCHANGED disk
  BY <1>3, CrashOk DEF FilesInv
<1>4. ASSUME Has(File), Loads(File), NEW o, NativeCompressWrite(disk[File], o)
      PROVE  FilesInv'
  <2>1. HoldsStack(disk[File])
    BY <1>4, LoadedHolds DEF FilesInv, Has
  <2>2. CASE FileDone(value) /\ UNCHANGED disk
    BY <1>2, <2>2
  <2>3. CASE NativeWrite(disk[File], o)
    BY <1>0, <2>1, <2>3, NativeWriteInv
  <2> QED BY <1>4, <2>2, <2>3 DEF NativeCompressWrite
<1>5. ASSUME NEW o, TiffWrite(disk[File], o)
      PROVE  FilesInv'
  BY <1>0, <1>5, TiffWriteInv
<1>6. ASSUME Has(File), Loads(File), NEW o, H5CompressWrite(disk[File], o)
      PROVE  FilesInv'
  <2>1. HoldsStack(disk[File])
    BY <1>6, LoadedHolds DEF FilesInv, Has
  <2>2. CASE FileDone(value) /\ UNCHANGED disk
    BY <1>2, <2>2
  <2>3. CASE H5Write(disk[File], o, Items(o)) /\ ~(Has(o) /\ disk[o].kind # "h5")
    <3>1. \A d \in DOMAIN Items(o) : HoldsStream(Items(o)[d])
      <4>1. CASE Has(o)
        BY <2>3, <4>1 DEF FilesInv, AllKept, Kept, Has, Items
      <4>2. CASE ~Has(o)
        BY <4>2 DEF Items
      <4> QED BY <4>1, <4>2
    <3> QED BY <1>0, <2>1, <2>3, <3>1, H5WriteInv
  <2> QED BY <1>6, <2>2, <2>3 DEF H5CompressWrite
<1>7. \/ Exit(1) /\ UNCHANGED disk
      \/ FileDone(value) /\ UNCHANGED disk
      \/ Crash /\ UNCHANGED disk
      \/ Has(File) /\ Loads(File) /\ NativeCompressWrite(disk[File], target)
      \/ TiffWrite(disk[File], target)
      \/ Has(File) /\ Loads(File) /\ H5CompressWrite(disk[File], target)
  BY DEF CompressFile
<1> HIDE DEF target
<1> QED BY <1>1, <1>2, <1>3, <1>4, <1>5, <1>6, <1>7

LEMMA BenchInv ==
    ASSUME FilesInv, BenchFile
    PROVE  FilesInv'
<1> DEFINE target == OutputName(File, "sqy")
<1>0. exit = Running
  BY DEF BenchFile, Runs
<1>1. CASE Exit(1) /\ UNCHANGED disk
  BY <1>1, ExitOk DEF FilesInv, Running
<1>2. CASE FileDone(0) /\ UNCHANGED disk
  BY <1>0, <1>2, Unwritten
<1>3. CASE Crash /\ UNCHANGED disk
  BY <1>3, CrashOk DEF FilesInv
<1>4. ASSUME Has(File), Loads(File)
      PROVE  HoldsStack(disk[File])
  BY <1>4, LoadedHolds DEF FilesInv, Has
<1>5. ASSUME Has(File), Loads(File), NEW o, NativeBenchWrite(disk[File], o)
      PROVE  FilesInv'
  BY <1>0, <1>4, <1>5, NativeWriteInv DEF NativeBenchWrite
<1>6. ASSUME NEW o, TiffBenchWrite(disk[File], o)
      PROVE  FilesInv'
  BY <1>0, <1>6, TiffWriteInv DEF TiffBenchWrite
<1>7. ASSUME Has(File), Loads(File), NEW o, H5BenchWrite(disk[File], o)
      PROVE  FilesInv'
  <2>1. DOMAIN << >> = {}
    OBVIOUS
  <2>2. H5Write(disk[File], o, << >>)
    BY <1>7 DEF H5BenchWrite
  <2> QED BY <1>0, <1>4, <1>7, <2>1, <2>2, H5WriteInv
<1>8. \/ Exit(1) /\ UNCHANGED disk
      \/ FileDone(0) /\ UNCHANGED disk
      \/ Crash /\ UNCHANGED disk
      \/ Has(File) /\ Loads(File) /\ NativeBenchWrite(disk[File], target)
      \/ TiffBenchWrite(disk[File], target)
      \/ Has(File) /\ Loads(File) /\ H5BenchWrite(disk[File], target)
  BY DEF BenchFile
<1> HIDE DEF target
<1> QED BY <1>1, <1>2, <1>3, <1>5, <1>6, <1>7, <1>8

-----------------------------------------------------------------------------
(* decompress *)

LEMMA SkipInv ==
    ASSUME FilesInv, exit = Running, Skip
    PROVE  FilesInv'
<1>1. value \in {0, 1} /\ 0 \in {0, 1}
  BY DEF FilesInv, ProcessOk
<1>2. NextFile(value, 0) /\ UNCHANGED disk
  BY DEF Skip
<1> QED BY <1>1, <1>2, NextFileOk DEF FilesInv

LEMMA SkipReservedInv ==
    ASSUME FilesInv, exit = Running, NEW size, SkipReserved(size) \/ SkipUnclosed(size)
    PROVE  FilesInv'
<1>1. PICK n : n = Reserved(size)
  OBVIOUS
<1>2. ASSUME NEW nextp, DOMAIN nextp = DOMAIN process, nextp.cmd = cmd, nextp.value = value,
             OnWith(nextp, 0), UNCHANGED disk
      PROVE  FilesInv'
  <2>1. value \in {0, 1}
    BY DEF FilesInv, ProcessOk
  <2> QED BY <1>2, <2>1, OnWithOk DEF FilesInv, Running
<1>3. CASE SkipReserved(size)
  <2> DEFINE nextp == [process EXCEPT !.reserved = n]
  <2>1. DOMAIN nextp = DOMAIN process /\ nextp.cmd = cmd /\ nextp.value = value
    BY DEF FilesInv, ProcessOk, cmd, value
  <2>2. OnWith(nextp, 0) /\ UNCHANGED disk
    BY <1>1, <1>3 DEF SkipReserved
  <2> HIDE DEF nextp
  <2> QED BY <1>2, <2>1, <2>2
<1>4. CASE SkipUnclosed(size)
  <2> DEFINE nextp == [process EXCEPT !.reserved = n, !.unclosed = TRUE]
  <2>1. DOMAIN nextp = DOMAIN process /\ nextp.cmd = cmd /\ nextp.value = value
    BY DEF FilesInv, ProcessOk, cmd, value
  <2>2. OnWith(nextp, 0) /\ UNCHANGED disk
    BY <1>1, <1>4 DEF SkipUnclosed
  <2> HIDE DEF nextp
  <2> QED BY <1>2, <2>1, <2>2
<1> QED BY <1>3, <1>4

\* A stream restored comes from the volume it was made of.
LEMMA RestoredKept ==
    ASSUME NEW content, HoldsStream(content), NEW memory \in Memory, NEW n
    PROVE  Kept(n, Restored(content, memory))
<1> DEFINE of == content.of
           table == Table(content.stack)
           back == Dequantised(Quantised(content.stack), table, memory)
<1>1. CASE content.quantised
  <2>1. Restored(content, memory) = Tiff(back, of, TooMany(table))
    BY <1>1 DEF Restored
  <2>2. ASSUME of # NoOne
        PROVE  \E v \in DOMAIN Volumes : Volumes[v].of = of /\ IsOf(back, TooMany(table), Volumes[v].stack)
    <3>1. content.rough = FALSE /\ content.stack.bits = 16
      BY <1>1, <2>2 DEF HoldsStream
    <3>2. PICK v \in DOMAIN Volumes : Volumes[v].of = of /\ content.stack = Volumes[v].stack
      BY <2>2, <3>1 DEF HoldsStream, HoldsStack, IsOf
    <3>3. IsStack(content.stack)
      BY <3>2, CommandsAssumption
    <3>4. IF TooMany(table) THEN AgreesWith(back, content.stack) ELSE back = content.stack
      BY <3>1, <3>3, QuantisedIs
    <3> HIDE DEF of, back, table
    <3> QED BY <3>2, <3>4 DEF IsOf
  <2>3. TooMany(table) \in BOOLEAN
    BY DEF TooMany
  <2> HIDE DEF of, back, table
  <2> QED BY <2>1, <2>2, <2>3, TiffKept
<1>2. CASE ~content.quantised
  <2>1. Restored(content, memory) = Tiff(content.stack, of, content.rough)
    BY <1>2 DEF Restored
  <2>2. of # NoOne => \E v \in DOMAIN Volumes :
                         Volumes[v].of = of /\ IsOf(content.stack, content.rough, Volumes[v].stack)
    BY DEF HoldsStream, HoldsStack
  <2>3. HoldsStack(Tiff(content.stack, of, content.rough))
    BY DEF HoldsStream, HoldsStack, Tiff
  <2>4. Kept(n, Tiff(content.stack, of, content.rough))
    BY <2>3 DEF Kept, Tiff
  <2> QED BY <2>1, <2>4
<1> QED BY <1>1, <1>2

LEMMA WriteDecodedInv ==
    ASSUME FilesInv, exit = Running, NEW content, HoldsStream(content), WriteDecoded(content)
    PROVE  FilesInv'
<1>1. CASE Crash /\ UNCHANGED disk
  BY <1>1, CrashOk DEF FilesInv
<1>2. ASSUME NEW target, NEW reserved, NEW memory \in Memory, WriteTiff(target, Restored(content, memory)),
             OnWith([process EXCEPT !.reserved = reserved], 0)
      PROVE  FilesInv'
  <2> DEFINE nextp == [process EXCEPT !.reserved = reserved]
  <2>1. DOMAIN nextp = DOMAIN process /\ nextp.cmd = cmd /\ nextp.value \in {0, 1}
    BY DEF FilesInv, ProcessOk, cmd, value
  <2>2. OnWith(nextp, 0)
    BY <1>2
  <2> HIDE DEF nextp
  <2>3. ProcessOk'
    BY <2>1, <2>2, OnWithOk DEF FilesInv, Running
  <2>4. Kept(target, Restored(content, memory))
    BY RestoredKept
  <2>5. AllKept(disk')
    BY <1>2, <2>4, WroteKept DEF FilesInv, WriteTiff
  <2> QED BY <2>3, <2>5 DEF FilesInv
<1> QED BY <1>1, <1>2 DEF WriteDecoded

LEMMA DecompressInv ==
    ASSUME FilesInv, DecompressFile
    PROVE  FilesInv'
<1>0. exit = Running
  BY DEF DecompressFile, Runs
<1>1. CASE Skip
  BY <1>0, <1>1, SkipInv
<1>2. CASE Has(File) /\ DecodeSqy
  <2>1. CASE Skip \/ \E size : SkipUnclosed(size)
    BY <1>0, <2>1, SkipInv, SkipReservedInv
  <2>2. CASE Crash /\ UNCHANGED disk
    BY <2>2, CrashOk DEF FilesInv
  <2>3. CASE disk[File].kind = "sqy" /\ WriteDecoded(disk[File])
    <3>1. HoldsStream(disk[File])
      BY <1>2, <2>3 DEF FilesInv, AllKept, Kept, Has
    <3> QED BY <1>0, <2>3, <3>1, WriteDecodedInv
  <2> QED BY <1>2, <2>1, <2>2, <2>3 DEF DecodeSqy
<1>3. CASE Has(File) /\ ReadH5
  <2>1. CASE /\ disk[File].kind = "h5" /\ cmd.dataset \in DOMAIN Items(File)
             /\ WriteDecoded(Items(File)[cmd.dataset])
    <3>1. HoldsStream(Items(File)[cmd.dataset])
      BY <1>3, <2>1 DEF FilesInv, AllKept, Kept, Has, Items
    <3> QED BY <1>0, <2>1, <3>1, WriteDecodedInv
  <2>2. CASE \E size : SkipReserved(size)
    BY <1>0, <2>2, SkipReservedInv
  <2> QED BY <1>1, <1>3, <2>1, <2>2 DEF ReadH5
<1> QED BY <1>1, <1>2, <1>3 DEF DecompressFile

-----------------------------------------------------------------------------
(* convert *)

\* The stacks of the volumes.
LEMMA VolumeStack ==
    ASSUME NEW v \in DOMAIN Volumes
    PROVE  IsStack(Volumes[v].stack)
BY CommandsAssumption

LEMMA ShownIs ==
    ASSUME NEW s, IsStack(s)
    PROVE  /\ IsBytes(Shown(s)) /\ Shown(s).shape = s.shape
           /\ s.bits = 8 => Shown(s) = s /\ ShownTable(s) = NoTable
           /\ s.bits # 8 => /\ s.bits = 16 /\ ShownTable(s) = Table(s) /\ Table(s) # NoTable
                            /\ \A memory \in Memory :
                                 IsOf(Dequantised(Shown(s), Table(s), memory), TooMany(Table(s)), s)
<1>1. CASE s.bits = 8
  <2>1. IsBytes(s)
    <3>1. PICK px, shape : px = s.px /\ shape = s.shape
      OBVIOUS
    <3>2. s = [bits |-> 8, shape |-> shape, px |-> px] /\ px \in Seq(0 .. 255)
      BY <1>1, <3>1, StackIs DEF IsStack
    <3>3. shape \in Sides \X Sides \X Sides /\ Len(s.px) = D(s.shape) * FrameSize(s.shape)
      BY <3>1, StackIs
    <3> QED BY <3>2, <3>3 DEF IsBytes
  <2> QED BY <1>1, <2>1 DEF Shown, ShownTable
<1>2. CASE s.bits # 8
  <2>1. s.bits = 16
    BY <1>2 DEF IsStack, Stacks
  <2>2. /\ IsBytes(Quantised(s)) /\ Quantised(s).shape = s.shape
        /\ \A memory \in Memory :
             IsOf(Dequantised(Quantised(s), Table(s), memory), TooMany(Table(s)), s)
    <3>1. Quantised(s).shape = s.shape
      BY DEF Quantised
    <3> QED BY <2>1, <3>1, QuantisedIs DEF IsOf
  <2>3. Table(s) # NoTable
    <3>1. PICK n \in Nat : n = Len(s.px) /\ n > 0
      <4>1. IsBytes(Quantised(s)) /\ Quantised(s).shape = s.shape
        BY <2>2
      <4>2. PICK d \in Nat \ {0}, f \in Nat \ {0} : d = D(s.shape) /\ f = FrameSize(s.shape)
        BY <4>1, BytesAre
      <4>3. d * f \in Nat /\ d * f > 0
        BY <4>2
      <4> QED BY <4>2, <4>3, StackIs
    <3>2. s.px[1] \in Values(s)
      BY <3>1, StackIs DEF Values
    <3>3. /\ Len(Table(s)) = Cardinality(Values(s)) /\ Cardinality(Values(s)) \in Nat
          /\ Rank(Values(s), s.px[1]) \in 0 .. Cardinality(Values(s)) - 1
      <4>1. Table(s) = Sorted(Values(s))
        BY DEF Table
      <4>2. Values(s) \in SUBSET Int /\ IsFiniteSet(Values(s))
        BY StackIs
      <4> QED BY <3>2, <4>1, <4>2, InSorted
    <3>4. Len(Table(s)) > 0
      BY <3>3
    <3> QED BY <3>4 DEF NoTable
  <2> QED BY <1>2, <2>1, <2>2, <2>3 DEF Shown, ShownTable
<1> QED BY <1>1, <1>2

\* The files that convert writes.
LEMMA YuvIs ==
    ASSUME NEW of, NEW table, NEW s, NEW c, c = Over([of |-> of, table |-> table], YuvFile(s))
    PROVE  c.of = of /\ c.table = table /\ c.kind = "yuv" /\ c.bytes = YuvFile(s).bytes
<1>1. PICK b : YuvFile(s) = [kind |-> "yuv", bytes |-> b]
  BY DEF YuvFile
<1> QED BY <1>1 DEF Over

LEMMA Y4mIs ==
    ASSUME NEW of, NEW table, NEW s, NEW code, NEW c,
           c = Over([of |-> of, table |-> table], Y4mFile(s, code))
    PROVE  /\ c.of = of /\ c.table = table /\ c.kind = "y4m" /\ c.code = code
           /\ c.h = H(s.shape) /\ c.w = W(s.shape)
           /\ code = "C420" => c.bytes = WriteStack420(s)
<1>1. PICK b : /\ Y4mFile(s, code) = [kind |-> "y4m", code |-> code, h |-> H(s.shape),
                                     w |-> W(s.shape), bytes |-> b]
               /\ code = "C420" => b = WriteStack420(s)
  BY DEF Y4mFile
<1> QED BY <1>1 DEF Over

\* What convert writes for a stack of a volume is what Shown says.
LEMMA ConvertedIs ==
    ASSUME NEW s, IsStack(s), s.bits = 8 \/ cmd.chroma = "C420"
    PROVE  Converted(s) = Shown(s) /\ TableOf(s) = ShownTable(s)
<1>1. s.bits = 8 \/ s.bits = 16
  BY DEF IsStack, Stacks
<1> QED BY <1>1 DEF Converted, Shown, TableOf, ShownTable

LEMMA ConvertedKept ==
    ASSUME NEW input, HoldsStack(input), NEW dst, "tag" \in DOMAIN dst
    PROVE  AllKept(ConvertedFile(input, dst))
<1> DEFINE s == input.stack
           of == IF input.rough \/ (s.bits = 16 /\ cmd.chroma # "C420") THEN NoOne ELSE input.of
           yuv == Over([of |-> of, table |-> TableOf(s)], YuvFile(Converted(s)))
           y4m == Over([of |-> of, table |-> TableOf(s)], Y4mFile(Converted(s), "C420"))
           rest == Over([of |-> input.of, table |-> TableOf(s)], Y4mFile(s, "C444"))
<1>0. ASSUME of # NoOne
      PROVE  \E v \in DOMAIN Volumes : /\ Volumes[v].of = of /\ Volumes[v].stack = s
                                       /\ Converted(s) = Shown(s) /\ TableOf(s) = ShownTable(s)
                                       /\ Shown(s).shape = s.shape
  <2>1. of = input.of /\ ~(s.bits = 16 /\ cmd.chroma # "C420") /\ ~input.rough
    BY <1>0
  <2>2. PICK v \in DOMAIN Volumes : Volumes[v].of = of /\ Volumes[v].stack = s
    BY <1>0, <2>1 DEF HoldsStack, IsOf
  <2>3. IsStack(s)
    BY <2>2, VolumeStack
  <2>4. s.bits = 8 \/ s.bits = 16
    BY <2>3 DEF IsStack, Stacks
  <2>5. Converted(s) = Shown(s) /\ TableOf(s) = ShownTable(s) /\ Shown(s).shape = s.shape
    BY <2>1, <2>3, <2>4, ConvertedIs, ShownIs
  <2> QED BY <2>2, <2>5
<1>1. Kept(YuvName(dst, s.shape), yuv)
  <2>1. yuv.of = of /\ yuv.table = TableOf(s) /\ yuv.kind = "yuv" /\ yuv.bytes = YuvFile(Converted(s)).bytes
    BY YuvIs
  <2>2. YuvName(dst, s.shape).tag = <<H(s.shape), W(s.shape), D(s.shape)>>
    BY DEF YuvName
  <2> HIDE DEF yuv, of
  <2> QED BY <1>0, <2>1, <2>2 DEF Kept, HoldsYuv
<1>2. Kept(dst, y4m)
  <2>1. /\ y4m.of = of /\ y4m.table = TableOf(s) /\ y4m.kind = "y4m"
        /\ y4m.bytes = WriteStack420(Converted(s))
        /\ y4m.h = H(Converted(s).shape) /\ y4m.w = W(Converted(s).shape)
    BY Y4mIs
  <2> HIDE DEF y4m, of
  <2> QED BY <1>0, <2>1 DEF Kept, HoldsY4m
<1>3. Kept(dst, rest)
  <2>1. rest.kind = "y4m" /\ rest.code = "C444"
    BY Y4mIs
  <2> HIDE DEF rest
  <2> QED BY <2>1 DEF Kept
<1>4. AllKept(<< >>)
  BY DEF AllKept
<1>5. \/ ConvertedFile(input, dst) = One(YuvName(dst, s.shape), yuv)
      \/ ConvertedFile(input, dst) = One(dst, y4m)
      \/ ConvertedFile(input, dst) = One(dst, rest)
      \/ ConvertedFile(input, dst) = << >>
  BY DEF ConvertedFile
<1> HIDE DEF yuv, y4m, rest
<1> QED BY <1>1, <1>2, <1>3, <1>4, <1>5, OneKept

LEMMA ForwardInv ==
    ASSUME FilesInv, exit = Running, NEW src, Has(src), NEW dst, "tag" \in DOMAIN dst,
           ForwardConversion(src, dst)
    PROVE  FilesInv'
<1>1. CASE Exit(1) /\ UNCHANGED disk
  BY <1>1, ExitOk DEF FilesInv, Running
<1>2. CASE Crash /\ UNCHANGED disk
  BY <1>2, CrashOk DEF FilesInv
<1>3. ASSUME NEW kind, kind # "h5", disk' = Wrote(dst, Broken(kind)), NEW code, code # Running, Exit(code)
      PROVE  FilesInv'
  <2>1. Broken(kind).of = NoOne /\ Broken(kind).kind # "h5"
    BY <1>3 DEF Broken
  <2>2. AllKept(disk')
    BY <1>3, <2>1, NobodysKept, WroteKept DEF FilesInv
  <2> QED BY <1>3, <2>2, ExitOk DEF FilesInv
<1>4. ASSUME Loads(src), NEW name, NEW table, NEW files,
             files = disk \/ files = Over(One(name, [kind |-> "lut", table |-> table, of |-> NoOne]), disk),
             disk' = Over(ConvertedFile(disk[src], dst), files), Exit(0)
      PROVE  FilesInv'
  <2>1. HoldsStack(disk[src])
    BY <1>4, LoadedHolds DEF FilesInv, Has
  <2>2. AllKept(ConvertedFile(disk[src], dst))
    BY <2>1, ConvertedKept
  <2> DEFINE lut == [kind |-> "lut", table |-> table, of |-> NoOne]
  <2>3. lut.of = NoOne /\ lut.kind # "h5"
    OBVIOUS
  <2> HIDE DEF lut
  <2>4. AllKept(One(name, lut))
    BY <2>3, NobodysKept, OneKept
  <2>5. AllKept(files)
    <3>1. files = disk \/ files = Over(One(name, lut), disk)
      BY <1>4 DEF lut
    <3> QED BY <2>4, <3>1, OverKept DEF FilesInv
  <2>6. AllKept(disk')
    BY <1>4, <2>2, <2>5, OverKept
  <2> QED BY <1>4, <2>6, ExitOk DEF FilesInv, Running
<1>5. Crashed # Running /\ 0 # Running /\ 1 # Running
  BY DEF Crashed, Running
<1>6. \/ Exit(1) /\ UNCHANGED disk
      \/ Crash /\ UNCHANGED disk
      \/ Exit(1) /\ disk' = Wrote(dst, Broken("raw"))
      \/ Exit(0) /\ disk' = Wrote(dst, Broken("y4m of other memory"))
      \/ \E name, table, files :
           /\ files = disk \/ files = Over(One(name, [kind |-> "lut", table |-> table, of |-> NoOne]), disk)
           /\ Loads(src) /\ disk' = Over(ConvertedFile(disk[src], dst), files) /\ Exit(0)
  BY Zenon DEF ForwardConversion
<1> QED BY <1>1, <1>2, <1>3, <1>4, <1>5, <1>6

\* A video that was not changed, read with its own table, is the stack again.
LEMMA YuvBack ==
    ASSUME NEW n, NEW c, c.kind = "yuv", NEW s, IsStack(s), HoldsYuv(n, c, s)
    PROVE  /\ Len(n.tag) = 3 /\ FoundShape(n) = <<H(s.shape), W(s.shape)>>
           /\ YuvToGray8(c, H(s.shape), W(s.shape)) = Shown(s)
<1>1. n.tag = <<H(s.shape), W(s.shape), D(s.shape)>>
  BY DEF HoldsYuv
<1>2. IsBytes(Shown(s)) /\ Shown(s).shape = s.shape
  BY ShownIs
<1>3. c.bytes = YuvFile(Shown(s)).bytes
  BY DEF HoldsYuv
<1>4. YuvToGray8(c, H(Shown(s).shape), W(Shown(s).shape)) = Shown(s)
  BY <1>2, <1>3, GrayRestores
<1>5. Len(n.tag) = 3 /\ n.tag[1] = H(s.shape) /\ n.tag[2] = W(s.shape)
  BY <1>1
<1> QED BY <1>2, <1>4, <1>5 DEF FoundShape

LEMMA Y4mBack ==
    ASSUME NEW c, NEW s, IsStack(s), HoldsY4m(c, s)
    PROVE  Y4mToGray(c, 8) = Shown(s)
<1>1. IsBytes(Shown(s)) /\ Shown(s).shape = s.shape
  BY ShownIs
<1>2. PICK file : file = Y4mFile(Shown(s), "C420")
  OBVIOUS
<1>3. file.bytes = WriteStack420(Shown(s)) /\ file.h = H(s.shape) /\ file.w = W(s.shape)
  BY <1>1, <1>2 DEF Y4mFile
<1>4. c.bytes = file.bytes /\ c.h = file.h /\ c.w = file.w
  BY <1>3 DEF HoldsY4m
<1>5. Luminance(c) = Luminance(file)
  BY <1>4 DEF Luminance
<1>6. Luminance(file) = Shown(s)
  BY <1>1, <1>2, LuminanceRestores
<1> QED BY <1>5, <1>6 DEF Y4mToGray

LEMMA BackwardInv ==
    ASSUME FilesInv, exit = Running, NEW src, Has(src), NEW dst, BackwardConversion(src, dst)
    PROVE  FilesInv'
<1> DEFINE content == disk[src]
           stack == Extracted(src)
           found == Has(WithExtension(dst, "lut"))
           lut == InsertLutPathIfNotPresent(dst)
           table == IF found /\ Has(lut) /\ disk[lut].kind = "lut" THEN disk[lut].table ELSE NoTable
           intact == table = content.table /\ ~(content.kind = "y4m" /\ IsYuvFile(content))
           of == IF intact THEN content.of ELSE NoOne
           New(memory) == IF found THEN Tiff(Dequantised(stack, table, memory), of, TooMany(table))
                          ELSE Tiff(stack, of, FALSE)
<1>1. CASE Exit(1) /\ UNCHANGED disk
  BY <1>1, ExitOk DEF FilesInv, Running
<1>2. ASSUME NEW memory \in Memory,
             /\ content.kind \in {"y4m", "yuv"} /\ (IsY4m(content) \/ IsYuvFile(content))
             /\ content.kind = "y4m" => content.code = "C420"
             /\ ~(found /\ table = NoTable)
             /\ WriteTiff(dst, New(memory)) /\ Exit(0)
      PROVE  FilesInv'
  <2> DEFINE new == IF found THEN Dequantised(stack, table, memory) ELSE stack
             rough == found /\ TooMany(table)
  <2>0. New(memory) = Tiff(new, of, rough) /\ rough \in BOOLEAN
    <3>1. found \in BOOLEAN /\ TooMany(table) \in BOOLEAN
      BY DEF Has, TooMany
    <3> HIDE DEF found, table, stack, of
    <3> QED BY <3>1
  <2>1. ASSUME of # NoOne
        PROVE  \E v \in DOMAIN Volumes : Volumes[v].of = of /\ IsOf(new, rough, Volumes[v].stack)
    <3>1. of = content.of /\ table = content.table /\ ~(content.kind = "y4m" /\ IsYuvFile(content))
      BY <2>1
    <3>2. found \/ table = NoTable
      OBVIOUS
    <3>3. Kept(src, content)
      BY DEF FilesInv, AllKept, Has
    <3> HIDE DEF table, found
    <3>4. ASSUME NEW s, IsStack(s), content.table = ShownTable(s), stack = Shown(s)
          PROVE  IsOf(new, rough, s)
      <4>1. CASE s.bits = 8
        <5>1. Shown(s) = s /\ table = NoTable
          BY <3>1, <3>4, <4>1, ShownIs
        <5>2. ~found
          BY <1>2, <5>1
        <5> QED BY <3>4, <5>1, <5>2 DEF IsOf
      <4>2. CASE s.bits # 8
        <5>1. /\ ShownTable(s) = Table(s) /\ Table(s) # NoTable
              /\ IsOf(Dequantised(Shown(s), Table(s), memory), TooMany(Table(s)), s)
          BY <3>4, <4>2, ShownIs
        <5>2. found /\ table = Table(s)
          BY <3>1, <3>2, <3>4, <5>1
        <5>3. /\ new = Dequantised(Shown(s), Table(s), memory)
              /\ rough = TooMany(Table(s))
          <6> HIDE DEF stack
          <6>1. new = Dequantised(stack, table, memory)
            BY <5>2
          <6>2. rough = TooMany(table)
            BY <5>2 DEF TooMany
          <6> QED BY <3>4, <5>2, <6>1, <6>2
        <5> HIDE DEF new, rough
        <5> QED BY <5>1, <5>3
      <4> QED BY <4>1, <4>2
    <3>5. CASE content.kind = "yuv"
      <4>1. IsYuvFile(content)
        BY <1>2, <3>5 DEF IsY4m
      <4>2. PICK v \in DOMAIN Volumes : Volumes[v].of = of /\ HoldsYuv(src, content, Volumes[v].stack)
        BY <2>1, <3>1, <3>3, <3>5 DEF Kept
      <4>3. PICK s : s = Volumes[v].stack /\ IsStack(s)
        BY VolumeStack
      <4>4. /\ FoundShape(src) = <<H(s.shape), W(s.shape)>>
            /\ YuvToGray8(content, H(s.shape), W(s.shape)) = Shown(s)
        BY <3>5, <4>2, <4>3, YuvBack
      <4>5. stack = Shown(s)
        BY <4>1, <4>4 DEF Extracted, NoShape
      <4>6. content.table = ShownTable(s)
        BY <4>2, <4>3 DEF HoldsYuv
      <4> QED BY <3>4, <4>2, <4>3, <4>5, <4>6
    <3>6. CASE content.kind = "y4m"
      <4>1. ~IsYuvFile(content) /\ content.code = "C420"
        BY <1>2, <3>1, <3>6
      <4>2. PICK v \in DOMAIN Volumes : Volumes[v].of = of /\ HoldsY4m(content, Volumes[v].stack)
        BY <2>1, <3>1, <3>3, <3>6, <4>1 DEF Kept
      <4>3. PICK s : s = Volumes[v].stack /\ IsStack(s)
        BY VolumeStack
      <4>4. Y4mToGray(content, 8) = Shown(s)
        BY <4>2, <4>3, Y4mBack
      <4>5. stack = Shown(s)
        BY <4>1, <4>4 DEF Extracted
      <4>6. content.table = ShownTable(s)
        BY <4>2, <4>3 DEF HoldsY4m
      <4> QED BY <3>4, <4>2, <4>3, <4>5, <4>6
    <3> QED BY <1>2, <3>5, <3>6
  <2> HIDE DEF of, new, rough, New
  <2>2. Kept(dst, New(memory))
    BY <2>0, <2>1, TiffKept
  <2>3. AllKept(disk')
    BY <1>2, <2>2, WroteKept DEF FilesInv, WriteTiff
  <2> QED BY <1>2, <2>3, ExitOk DEF FilesInv, Running
<1> QED BY <1>1, <1>2, Zenon DEF BackwardConversion

LEMMA ConvertInv ==
    ASSUME FilesInv, ConvertFiles
    PROVE  FilesInv'
<1>0. exit = Running
  BY DEF ConvertFiles, Runs
<1>1. CASE Exit(1) /\ UNCHANGED disk
  BY <1>1, ExitOk DEF FilesInv, Running
<1>2. CASE Len(cmd.files) = 2 /\ Has(cmd.files[1]) /\ ForwardConversion(cmd.files[1], cmd.files[2])
  <2>1. cmd \in Commands
    BY <1>0 DEF FilesInv, ProcessOk
  <2>2. 2 \in 1 .. Len(cmd.files)
    BY <1>2
  <2>3. "tag" \in DOMAIN cmd.files[2]
    BY <2>1, <2>2, CommandsAssumption
  <2> QED BY <1>0, <1>2, <2>3, ForwardInv
<1>3. CASE Has(cmd.files[1]) /\ BackwardConversion(cmd.files[1], cmd.files[2])
  BY <1>0, <1>3, BackwardInv
<1> QED BY <1>1, <1>2, <1>3 DEF ConvertFiles

-----------------------------------------------------------------------------
(* the rest *)

LEMMA StartInv ==
    ASSUME FilesInv, Start
    PROVE  FilesInv'
<1>1. UNCHANGED disk
  BY DEF Start
<1>2. PICK c \in Commands : /\ exit' = Main(c)
                            /\ process' = IF Main(c) = Running THEN Process(c) ELSE NoProcess
  BY DEF Start
<1>3. ProcessOk'
  BY <1>2 DEF ProcessOk, Process, cmd, value
<1> QED BY <1>1, <1>3 DEF FilesInv

LEMMA CompareInv ==
    ASSUME FilesInv, CompareFiles
    PROVE  FilesInv'
<1>1. PICK code \in {0, 1, Crashed} : Exit(code)
  BY DEF CompareFiles, CompareStatus
<1>2. code # Running
  BY DEF Crashed, Running
<1>3. UNCHANGED disk
  BY DEF CompareFiles
<1> QED BY <1>1, <1>2, <1>3, ExitOk DEF FilesInv

LEMMA DiffInv ==
    ASSUME FilesInv, DiffFile
    PROVE  FilesInv'
<1>1. exit = Running /\ value \in {0, 1} /\ 0 \in {0, 1}
  BY DEF DiffFile, Runs, FilesInv, ProcessOk
<1>2. UNCHANGED disk /\ (NextFile(value, 0) \/ Crash)
  BY DEF DiffFile
<1> QED BY <1>1, <1>2, NextFileOk, CrashOk DEF FilesInv

LEMMA ScanInv ==
    ASSUME FilesInv, ScanFile
    PROVE  FilesInv'
<1>1. exit = Running /\ value \in {0, 1} /\ 0 \in {0, 1}
  BY DEF ScanFile, Runs, FilesInv, ProcessOk
<1>2. UNCHANGED disk /\ (NextFile(value, 0) \/ Crash)
  BY DEF ScanFile
<1> QED BY <1>1, <1>2, NextFileOk, CrashOk DEF FilesInv

LEMMA SqyInitInv ==
    ASSUME SqyInit
    PROVE  FilesInv
<1>1. ASSUME NEW n \in DOMAIN Others  PROVE Kept(n, Others[n])
  BY CommandsAssumption, NobodysKept
<1>2. ASSUME NEW n \in DOMAIN Volumes  PROVE Kept(n, Volumes[n])
  BY CommandsAssumption DEF Kept, HoldsStack, IsOf
<1>3. AllKept(Others) /\ AllKept(Volumes)
  BY <1>1, <1>2 DEF AllKept
<1>4. AllKept(disk)
  BY <1>3, OverKept DEF SqyInit
<1> QED BY <1>4 DEF SqyInit, FilesInv, ProcessOk, Running

LEMMA SqyStepInv ==
    ASSUME FilesInv, [SqyNext]_sqyVars
    PROVE  FilesInv'
<1>1. CASE UNCHANGED sqyVars
  BY <1>1 DEF sqyVars, FilesInv, ProcessOk, cmd, value
<1>2. CASE SqyNext
  BY <1>2, StartInv, CompressInv, BenchInv, DecompressInv, ConvertInv, CompareInv, DiffInv,
     ScanInv DEF SqyNext
<1> QED BY <1>1, <1>2

\* Whatever commands are run, on whatever files: every tif that comes from a
\* volume has its voxels, each in its place, and if it passed the quantiser with
\* more values than there are codes that are not negative, those of as many
\* values, the smallest.
THEOREM VolumesKept == SqySpec => []TiffsKept
<1>1. ASSUME FilesInv  PROVE TiffsKept
  <2>1. ASSUME NEW n \in DOMAIN disk, disk[n].kind = "tif", disk[n].of # NoOne,
               NEW v \in DOMAIN Volumes, Volumes[v].of = disk[n].of
        PROVE  IsOf(disk[n].stack, disk[n].rough, Volumes[v].stack)
    <3>1. HoldsStack(disk[n])
      BY <1>1, <2>1 DEF FilesInv, AllKept, Kept
    <3>2. PICK u \in DOMAIN Volumes : /\ Volumes[u].of = disk[n].of
                                      /\ IsOf(disk[n].stack, disk[n].rough, Volumes[u].stack)
      BY <2>1, <3>1 DEF HoldsStack
    <3> QED BY <2>1, <3>2, CommandsAssumption
  <2> QED BY <2>1 DEF TiffsKept, IsOf
<1> QED BY <1>1, SqyInitInv, SqyStepInv, PTL DEF SqySpec
=============================================================================
