----------------------------- MODULE CommandLine -----------------------------
(***************************************************************************)
(* The program sqy: main of sqy.cpp picks a verb, the verbs (compress,       *)
(* decompress, bench, convert, compare, diff, scan) take their files one     *)
(* after the other, and what they leave on the disk is all that later        *)
(* commands know.  A command that ends by an uncaught exception, or by an    *)
(* access the code does not guard, has crashed; its files stay.              *)
(*                                                                         *)
(* What is inside a stream is the business of the other modules: a stream    *)
(* carries the stack that was encoded, and whether by the quantiser.  In     *)
(* every content, of is the volume it came from, and rough says that the     *)
(* values that got a negative code are lost; the program reads neither.      *)
(***************************************************************************)
EXTENDS Y4m, FiniteSets

CONSTANTS Volumes,      \* function: the tif files there are at first, by name
          Others,       \* other files there are at first, by name
          Commands,     \* the command lines
          Pipelines,    \* text of a pipeline -> [built, empty8, sink]
          FirstNegative, \* the codes of the quantiser from here are negative
          Memory,       \* what may lie in front of a table: by code, a value
          MaxCommands   \* bound: commands that are run

NoOne == "nobody"    \* of a content that comes from no volume

Sides == Nat \ {0}
Words == 0 .. 65535
Stacks == [bits : {8, 16}, shape : Sides \X Sides \X Sides, px : Seq(Words)]

\* One voxel for each place of a stack, of as many bits as it says, and no more
\* values than the quantiser has buckets.
IsStack(s) ==
    /\ s \in Stacks
    /\ Len(s.px) = D(s.shape) * FrameSize(s.shape)
    /\ s.bits = 8 => s.px \in Seq(0 .. 255)
    /\ Cardinality({s.px[i] : i \in DOMAIN s.px}) <= 256

\* The codes of the quantiser are char: these are negative, those from 128 in
\* the program.
Negative == FirstNegative .. 255

ASSUME CommandsAssumption ==
    /\ MaxCommands \in Nat
    /\ FirstNegative \in 1 .. 255
    /\ Memory \subseteq [Negative -> Words]
    /\ \A n \in DOMAIN Volumes :
         /\ Volumes[n].kind = "tif" /\ IsStack(Volumes[n].stack)
         /\ Volumes[n].rough = FALSE
    /\ \A n, m \in DOMAIN Volumes :
         Volumes[n].of = Volumes[m].of => Volumes[n].stack = Volumes[m].stack
    /\ \A n \in DOMAIN Others :
         /\ Others[n].of = NoOne
         /\ Others[n].kind = "h5" => \A d \in DOMAIN Others[n].items : Others[n].items[d].of = NoOne
    /\ \A c \in Commands : \A i \in 1 .. Len(c.files) : DOMAIN c.files[i] = {"dir", "stem", "tag", "ext"}

VARIABLES disk,         \* name -> content
          ran,          \* commands started
          process,      \* the command that runs, NoProcess between two
          exit          \* what the last command returned

sqyVars == <<disk, ran, process, exit>>

Running == 2
Crashed == 3
NoProcess == << >>

\* A process: its command, which of its files is next, what the verb is to
\* return, and of decompress whether sqyfile is open and how many bytes there
\* are in intermediate_buffer.
Process(c) == [cmd |-> c, at |-> 1, value |-> 1, unclosed |-> FALSE, reserved |-> 0]

cmd == process.cmd
at == process.at
value == process.value

NoTable == << >>
NoShape == << >>

-----------------------------------------------------------------------------
(* files *)

Has(name) == name \in DOMAIN disk

\* A file, and files that replace those of the same name.
One(name, content) == [n \in {name} |-> content]
Over(new, old) ==
    [n \in DOMAIN new \cup DOMAIN old |-> IF n \in DOMAIN new THEN new[n] ELSE old[n]]
Wrote(name, content) == Over(One(name, content), disk)

Bytes(s) == Len(s.px) * (s.bits \div 8)
Tiff(stack, of, rough) == [kind |-> "tif", stack |-> stack, of |-> of, rough |-> rough]
Broken(kind) == [kind |-> kind, of |-> NoOne]

\* tiff_facet::load: a file that is there and no tif leaves a null handle.
Loads(name) == disk[name].kind = "tif"
WriteTiff(name, tif) == disk' = Wrote(name, tif)
WithExtension(name, ext) == [name EXCEPT !.ext = ext]

\* A suffix with a period replaces the extension; another one is put behind
\* the stem, without the directory.
OutputName(file, default) ==
    IF cmd.output # << >> /\ Len(cmd.files) = 1 THEN cmd.output[1]
    ELSE IF cmd.suffix = << >> THEN WithExtension(file, default)
    ELSE IF cmd.suffix.period THEN WithExtension(file, cmd.suffix.ext)
    ELSE [dir |-> ".", stem |-> file.stem, tag |-> cmd.suffix.tag, ext |-> cmd.suffix.ext]

-----------------------------------------------------------------------------
(* the quantiser *)

Values(stack) == {stack.px[i] : i \in DOMAIN stack.px}
Sorted(set) ==
    LET below == [v \in set |-> Cardinality({u \in set : u < v})]
    IN [i \in 1 .. Cardinality(set) |-> CHOOSE v \in set : below[v] = i - 1]

\* No more values than buckets: a voxel is the place of its value.
Table(stack) == Sorted(Values(stack))
Quantised(stack) ==
    LET table == Table(stack) IN
    [bits |-> 8, shape |-> stack.shape,
     px |-> [i \in DOMAIN stack.px |-> SelectInSeq(table, LAMBDA v : v = stack.px[i]) - 1]]

\* Buckets that are not used repeat the last value, or are 0 behind the largest.
Unused(table) == IF table[Len(table)] = 65535 THEN 0 ELSE table[Len(table)]

\* A negative code reads in front of the table.
Dequantised(stack, table, memory) ==
    [bits |-> 16, shape |-> stack.shape,
     px |-> [i \in DOMAIN stack.px |->
               LET code == stack.px[i] IN
               IF code \in Negative THEN memory[code]
               ELSE IF code < Len(table) THEN table[code + 1] ELSE Unused(table)]]

TooMany(table) == Len(table) > FirstNegative

-----------------------------------------------------------------------------
(* sqy.cpp *)

Aliases ==
    [compress   |-> {"compress", "enc", "encode", "comp"},
     decompress |-> {"decompress", "dec", "decode", "rec"},
     scan       |-> {"scan", "info"},
     diff       |-> {"diff", "delta"},
     convert    |-> {"convert", "transform", "trf"},
     compare    |-> {"compare", "cmp"},
     bench      |-> {"ben", "bench"}]

Runs(verb) == exit = Running /\ cmd.verb \in Aliases[verb]

BriefHelp == 0
FullHelp == 1

SqyInit ==
    /\ disk = Over(Others, Volumes)
    /\ ran = 0 /\ process = NoProcess /\ exit = 0

\* The status of a command no verb is called for; Running for the others.
Main(c) ==
    IF c.verb = "--fullhelp" THEN FullHelp
    ELSE IF c.verb = "" THEN BriefHelp
    ELSE IF ~\E v \in DOMAIN Aliases : c.verb \in Aliases[v] THEN 1
    ELSE IF c.help \/ c.files = << >> THEN 1
    ELSE Running

Start ==
    /\ exit # Running /\ ran < MaxCommands
    /\ \E c \in Commands :
         /\ exit' = Main(c)
         /\ process' = IF Main(c) = Running THEN Process(c) ELSE NoProcess
    /\ ran' = ran + 1
    /\ UNCHANGED disk

Exit(code) == exit' = code /\ process' = NoProcess
Crash == Exit(Crashed)

\* On to the next file with a process, or the end.
OnWith(next, end) ==
    IF at = Len(cmd.files) THEN Exit(end)
    ELSE process' = [next EXCEPT !.at = at + 1] /\ UNCHANGED exit

NextFile(code, end) == OnWith([process EXCEPT !.value = code], end)

File == cmd.files[at]

-----------------------------------------------------------------------------
(* compress and bench *)

Pipe == Pipelines[cmd.pipeline]

\* A stack that is rough already and passes the quantiser again has codes of
\* which nothing is known.
SqyStream(input) ==
    LET quantised == Pipe.sink = "quantiser" /\ input.stack.bits = 16 IN
    [kind |-> "sqy", stack |-> input.stack, quantised |-> quantised, rough |-> input.rough,
     of |-> IF quantised /\ input.rough THEN NoOne ELSE input.of]

Empty(bits) == bits = 8 /\ Pipe.empty8

\* Any stage may fail, and a pipeline without stages does: an exception, or a
\* stream that ends nowhere is copied.
EncodeThrows == Crash /\ UNCHANGED disk

\* The bytes of the stack behind the header: as many as there are without a
\* sink, one for a voxel of the quantiser, and anything otherwise.
DataEncoded(stack) ==
    IF Pipe.sink = "none" THEN {Bytes(stack)}
    ELSE IF Pipe.sink = "quantiser" THEN {Len(stack.px)}
    ELSE {Len(stack.px), Len(stack.px) + 1}

\* A file that was written, or not: compress returns what the last one returned,
\* bench 0.
CompressDone(code) == Runs("compress") /\ NextFile(code, code)
BenchDone == Runs("bench") /\ NextFile(value, 0)
FileDone(code) == CompressDone(code) \/ BenchDone

NativeWrite(input, out) ==
    \/ EncodeThrows
    \/ ~Empty(input.stack.bits) /\ disk' = Wrote(out, SqyStream(input)) /\ FileDone(0)

NativeCompressWrite(input, out) ==
    IF Empty(input.stack.bits) THEN FileDone(value) /\ UNCHANGED disk
    ELSE NativeWrite(input, out)

\* The whole buffer is copied to where only the data has room.  A pipeline
\* with a sink that changed the number of voxels is refused, as a success.
TiffWrite(input, out) ==
    \/ EncodeThrows
    \/ \E n \in DataEncoded(input.stack) :
         IF Pipe.sink # "none" /\ n % Len(input.stack.px) # 0
         THEN FileDone(0) /\ UNCHANGED disk
         ELSE /\ ~Empty(input.stack.bits) /\ ~(Has(out) /\ ~Loads(out))
              /\ WriteTiff(out, Tiff([bits |-> 8, shape |-> input.stack.shape, px |-> Zeros(Len(input.stack.px))],
                                  NoOne, FALSE))
              /\ FileDone(0)

Items(name) == IF Has(name) THEN disk[name].items ELSE << >>
Hdf5(items) == [kind |-> "h5", items |-> items, of |-> NoOne]

\* The filter may fail, which leaves a file that was not closed.
H5Write(input, out, items) ==
    \/ Crash /\ disk' = Wrote(out, Broken("h5 torn"))
    \/ /\ disk' = Wrote(out, Hdf5(Over(One(cmd.dataset, SqyStream(input)), items)))
       /\ FileDone(0)

\* An item of the name is not written again.
H5CompressWrite(input, out) ==
    IF (Has(out) /\ disk[out].kind # "h5") \/ cmd.dataset \in DOMAIN Items(out)
    THEN FileDone(value) /\ UNCHANGED disk
    ELSE H5Write(input, out, Items(out))

CompressFile ==
    /\ Runs("compress")
    /\ LET out == OutputName(File, "sqy") IN
       IF ~Pipe.built THEN Exit(1) /\ UNCHANGED disk
       ELSE IF ~Has(File) THEN FileDone(value) /\ UNCHANGED disk
       ELSE IF ~Loads(File) THEN Crash /\ UNCHANGED disk
       ELSE \/ out.ext = "sqy" /\ NativeCompressWrite(disk[File], out)
            \/ out.ext = "tif" /\ TiffWrite(disk[File], out)
            \/ out.ext = "h5" /\ H5CompressWrite(disk[File], out)
            \/ out.ext \notin {"sqy", "tif", "h5"} /\ FileDone(value) /\ UNCHANGED disk
    /\ UNCHANGED ran

\* bench writes what it measured last, also for a pipeline without stages; an
\* h5 file is removed before each repetition.
NativeBenchWrite(input, out) == NativeWrite(input, out)
TiffBenchWrite(input, out) == TiffWrite(input, out)
H5BenchWrite(input, out) == H5Write(input, out, << >>)

BenchFile ==
    /\ Runs("bench")
    /\ LET out == OutputName(File, "sqy") IN
       IF ~Pipe.built THEN Exit(1) /\ UNCHANGED disk
       ELSE IF ~Has(File) THEN FileDone(0) /\ UNCHANGED disk
       ELSE IF ~Loads(File) THEN Crash /\ UNCHANGED disk
       ELSE \/ out.ext = "sqy" /\ NativeBenchWrite(disk[File], out)
            \/ out.ext = "tif" /\ TiffBenchWrite(disk[File], out)
            \/ out.ext = "h5" /\ H5BenchWrite(disk[File], out)
            \/ out.ext \notin {"sqy", "tif", "h5"} /\ FileDone(0) /\ UNCHANGED disk
    /\ UNCHANGED ran

-----------------------------------------------------------------------------
(* decompress *)

\* A stream restored.
Restored(content, memory) ==
    LET table == Table(content.stack) IN
    IF content.quantised
    THEN Tiff(Dequantised(Quantised(content.stack), table, memory), content.of, TooMany(table))
    ELSE Tiff(content.stack, content.of, content.rough)

Reserved(size) == Max({size, process.reserved})

\* What is decoded goes to the front of a buffer that never shrinks, and all
\* of the buffer to that of the tif: its voxels, and memory that is not its own
\* if the buffer once held more.  A file that is in the way is loaded first.
WriteDecoded(content) ==
    LET out      == OutputName(File, "tif")
        size     == Bytes(content.stack)
        room     == IF Has(out) /\ Loads(out) THEN Max({size, Bytes(disk[out].stack)}) ELSE size
        blocked  == Has(out) /\ ~Loads(out)
    IN
    \/ (blocked \/ Reserved(size) > room) /\ Crash /\ UNCHANGED disk
    \/ /\ ~blocked
       /\ \E memory \in Memory : WriteTiff(out, Restored(content, memory))
       /\ OnWith([process EXCEPT !.reserved = Reserved(size)], 0)

Skip == NextFile(value, 0) /\ UNCHANGED disk

\* The buffer has grown to the size the file claims when it is skipped.
SkipReserved(size) == OnWith([process EXCEPT !.reserved = Reserved(size)], 0) /\ UNCHANGED disk
SkipUnclosed(size) ==
    /\ OnWith([process EXCEPT !.reserved = Reserved(size), !.unclosed = TRUE], 0)
    /\ UNCHANGED disk

\* A stream that cannot be decoded, or has no header, is left open: the next
\* file is then not opened, its content is empty and its shape has no axes.
DecodeSqy ==
    IF process.unclosed THEN Skip \/ (Crash /\ UNCHANGED disk)
    ELSE IF disk[File].kind = "sqy" THEN WriteDecoded(disk[File])
    ELSE IF disk[File].kind = "sqy torn" THEN SkipUnclosed(disk[File].size)
    ELSE SkipUnclosed(0) \/ (Crash /\ UNCHANGED disk)

\* Bytes are read as signed char, which no dataset of bytes matches; words may
\* not pass the filter.
ReadH5 ==
    IF disk[File].kind = "h5" /\ cmd.dataset \in DOMAIN Items(File)
    THEN LET item == Items(File)[cmd.dataset] IN
         \/ item.stack.bits = 16 /\ WriteDecoded(item)
         \/ SkipReserved(Bytes(item.stack))
    ELSE Skip

DecompressFile ==
    /\ Runs("decompress")
    /\ IF ~Has(File) THEN Skip
       ELSE IF File.ext = "sqy" THEN DecodeSqy ELSE ReadH5
    /\ UNCHANGED ran

-----------------------------------------------------------------------------
(* convert *)

\* Where the quantiser looks for its table: beside the target, if its text
\* does not say.
InsertLutPathIfNotPresent(dst) ==
    IF cmd.lut_path # << >> THEN cmd.lut_path[1] ELSE WithExtension(dst, "lut")

\* What is converted, and the table it needs: 16 bits pass the quantiser for
\* C420 only, and are zeros otherwise.
Converted(stack) ==
    IF stack.bits = 8 THEN stack
    ELSE IF cmd.chroma = "C420" THEN Quantised(stack)
    ELSE [bits |-> 8, shape |-> stack.shape, px |-> Zeros(Len(stack.px))]
TableOf(stack) == IF stack.bits = 16 /\ cmd.chroma = "C420" THEN Table(stack) ELSE NoTable

YuvName(dst, shape) ==
    [dst EXCEPT !.tag = <<H(shape), W(shape), D(shape)>>, !.ext = "yuv"]

\* The file written, or none: 8 bits are read as 16 for C444.
ConvertedFile(input, dst) ==
    LET stack == input.stack
        ghost == [of |-> IF input.rough \/ (stack.bits = 16 /\ cmd.chroma # "C420")
                         THEN NoOne ELSE input.of,
                  table |-> TableOf(stack)]
    IN
    IF dst.ext = "yuv" THEN One(YuvName(dst, stack.shape), Over(ghost, YuvFile(Converted(stack))))
    ELSE IF cmd.chroma = "C420" THEN One(dst, Over(ghost, Y4mFile(Converted(stack), "C420")))
    ELSE IF cmd.chroma = "C444" /\ stack.bits = 16
         THEN One(dst, Over([ghost EXCEPT !.of = input.of], Y4mFile(stack, "C444")))
    ELSE << >>

ForwardConversion(src, dst) ==
    LET input == disk[src]
        lut   == One(InsertLutPathIfNotPresent(dst),
                     [kind |-> "lut", table |-> TableOf(input.stack), of |-> NoOne])
    IN
    IF dst.ext \notin {"y4m", "yuv", "raw"} THEN Exit(1) /\ UNCHANGED disk
    ELSE IF ~Loads(src) THEN Crash /\ UNCHANGED disk
    ELSE IF dst.ext = "raw" THEN Exit(1) /\ disk' = Wrote(dst, Broken("raw"))
    ELSE IF input.stack.bits = 8 /\ cmd.chroma = "C444" /\ dst.ext = "y4m"
         THEN \/ Crash /\ UNCHANGED disk
              \/ Exit(0) /\ disk' = Wrote(dst, Broken("y4m of other memory"))
    ELSE /\ disk' = Over(ConvertedFile(input, dst),
                       IF TableOf(input.stack) = NoTable THEN disk ELSE Over(lut, disk))
         /\ Exit(0)

\* The width and the height in a name, or those of the option.
FoundShape(name) == IF Len(name.tag) = 3 THEN <<name.tag[1], name.tag[2]>> ELSE cmd.frame_shape

IsY4m(content) == content.kind = "y4m" /\ IsY4mFile(content)

\* A y4m file whose length is a multiple of 4 is read as yuv as well, and what
\* it was is forgotten.
Extracted(name) ==
    LET content == disk[name]
        shape   == FoundShape(name)
    IN
    IF IsYuvFile(content)
    THEN IF shape = NoShape THEN << >> ELSE YuvToGray8(content, shape[1], shape[2])
    ELSE Y4mToGray(content, 8)

\* 16 bits are assumed if there is a table beside the target; the quantiser
\* may be told to use another one.
BackwardConversion(src, dst) ==
    LET content == disk[src]
        stack   == Extracted(src)
        found   == Has(WithExtension(dst, "lut"))
        lut     == InsertLutPathIfNotPresent(dst)
        table   == IF found /\ Has(lut) /\ disk[lut].kind = "lut" THEN disk[lut].table ELSE NoTable
        intact  == table = content.table /\ ~(content.kind = "y4m" /\ IsYuvFile(content))
        of      == IF intact THEN content.of ELSE NoOne
    IN
    IF content.kind \notin {"y4m", "yuv"} \/ ~(IsY4m(content) \/ IsYuvFile(content))
       \/ (content.kind = "y4m" /\ content.code # "C420")
       \/ stack = << >> \/ stack.px = << >>
       \/ (found /\ table = NoTable)
    THEN Exit(1) /\ UNCHANGED disk
    ELSE /\ \E memory \in Memory :
              WriteTiff(dst, IF found THEN Tiff(Dequantised(stack, table, memory), of, TooMany(table))
                             ELSE Tiff(stack, of, FALSE))
         /\ Exit(0)

ConvertFiles ==
    /\ Runs("convert")
    /\ IF Len(cmd.files) # 2 \/ ~Has(cmd.files[1]) THEN Exit(1) /\ UNCHANGED disk
       ELSE IF cmd.files[1].ext = "tif" THEN ForwardConversion(cmd.files[1], cmd.files[2])
       ELSE BackwardConversion(cmd.files[1], cmd.files[2])
    /\ UNCHANGED ran

-----------------------------------------------------------------------------
(* compare, diff and scan: nothing is written *)

\* The voxels of one file are read at the places of the other.
ReadsBeyond(one, other) == Bytes(one.stack) > Bytes(other.stack)

CompareStatus(src, dst) ==
    IF src.ext = "tif" /\ dst.ext = "tif"
    THEN IF ~(Loads(src) /\ Loads(dst)) THEN {Crashed}
         ELSE IF disk[src].stack.bits # disk[dst].stack.bits THEN {1}
         ELSE {0} \cup (IF ReadsBeyond(disk[src], disk[dst]) THEN {Crashed} ELSE {})
    ELSE IF src.ext = "y4m" /\ dst.ext = "y4m"
    THEN IF disk[src].kind # "y4m" \/ disk[dst].kind # "y4m" THEN {1, Crashed}
         ELSE IF Y4mToGray(disk[src], 8).shape # Y4mToGray(disk[dst], 8).shape THEN {1} ELSE {0}
    ELSE {1}

CompareFiles ==
    /\ Runs("compare")
    /\ \E code \in IF Len(cmd.files) # 2 \/ ~Has(cmd.files[1]) \/ ~Has(cmd.files[2]) THEN {1}
                   ELSE CompareStatus(cmd.files[1], cmd.files[2]) : Exit(code)
    /\ UNCHANGED <<disk, ran>>

\* The first file is the reference: the others are read as far as it goes.
DiffFile ==
    /\ Runs("diff")
    /\ \/ (Has(File) => Loads(File)) /\ NextFile(value, 0)
       \/ Has(File) /\ ~Loads(File) /\ Crash
       \/ /\ at > 1 /\ Has(File) /\ Loads(File)
          /\ \/ ~Has(cmd.files[1])
             \/ disk[cmd.files[1]].stack.bits # disk[File].stack.bits
             \/ ReadsBeyond(disk[File], disk[cmd.files[1]])
          /\ Crash
    /\ UNCHANGED <<disk, ran>>

ScanFile ==
    /\ Runs("scan")
    /\ IF Has(File) /\ ~Loads(File) THEN Crash ELSE NextFile(value, 0)
    /\ UNCHANGED <<disk, ran>>

SqyNext ==
    \/ Start
    \/ CompressFile \/ BenchFile \/ DecompressFile
    \/ ConvertFiles \/ CompareFiles \/ DiffFile \/ ScanFile

SqySpec == SqyInit /\ [][SqyNext]_sqyVars

-----------------------------------------------------------------------------
(* Properties *)

\* The same stack, but for the voxels of values that get a negative code.
AgreesWith(stack, whole) ==
    /\ stack.bits = whole.bits /\ stack.shape = whole.shape /\ Len(stack.px) = Len(whole.px)
    /\ \A i \in DOMAIN whole.px :
         Cardinality({v \in Values(whole) : v < whole.px[i]}) < FirstNegative => stack.px[i] = whole.px[i]

\* Whatever commands are run in whatever order, with files that are missing,
\* damaged or already there, and whichever of them crash: a tif that comes from
\* a volume has its voxels, each in its place, and if it passed the quantiser
\* with more values than there are codes that are not negative, those of as
\* many values, the smallest.  (A video converted back with another table than its own,
\* or read as one of another kind, comes from no volume: the program cannot
\* tell.)
TiffsKept ==
    \A n \in DOMAIN disk :
        disk[n].kind = "tif" /\ disk[n].of # NoOne =>
            \A v \in DOMAIN Volumes :
                Volumes[v].of = disk[n].of =>
                    IF disk[n].rough THEN AgreesWith(disk[n].stack, Volumes[v].stack)
                    ELSE disk[n].stack = Volumes[v].stack
=============================================================================
