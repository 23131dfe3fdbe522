---------------------------- MODULE MCCommandLine ----------------------------
(***************************************************************************)
(* Three volumes of two and one frames, two damaged streams and commands     *)
(* that compress, decompress and convert them, in any order.                 *)
(***************************************************************************)
EXTENDS CommandLine, TLC

MCName(stem, ext) == [dir |-> "in", stem |-> stem, tag |-> << >>, ext |-> ext]
MCYuv(stem, h, w, f) == [MCName(stem, "yuv") EXCEPT !.tag = <<h, w, f>>]
MCOf(stem) == MCName(stem, "tif")

\* Two 16-bit volumes and one of 8 bits.  The y4m file of the second is a
\* multiple of four bytes, and it has a value more than there are codes that
\* are not negative; the first has as many.
MCVolumes ==
    (MCOf("a") :> Tiff([bits |-> 16, shape |-> <<2, 2, 2>>, px |-> <<0, 700, 7, 7, 300, 0, 65535, 256>>], "a", FALSE))
    @@ (MCOf("b") :> Tiff([bits |-> 8, shape |-> <<1, 2, 3>>, px |-> <<1, 2, 3, 250, 0, 9>>], "b", FALSE))
    @@ (MCOf("c") :> Tiff([bits |-> 16, shape |-> <<2, 2, 3>>,
                           px |-> <<5, 5, 1, 900, 5, 1, 2, 3, 4, 5, 513, 1>>], "c", FALSE))

\* Nothing, and what looks like voxels.
MCMemory == {[code \in Negative |-> 0], [code \in Negative |-> 300 + code]}

MCOthers ==
    (MCName("torn", "sqy") :> [kind |-> "sqy torn", size |-> 15, of |-> NoOne])
    @@ (MCName("plain", "sqy") :> Broken("plain"))

MCPipelines ==
    [lz4       |-> [built |-> TRUE, empty8 |-> FALSE, sink |-> "lz4"],
     quantiser |-> [built |-> TRUE, empty8 |-> TRUE, sink |-> "quantiser"],
     unknown   |-> [built |-> FALSE, empty8 |-> TRUE, sink |-> "none"]]

MCBase(verb, files) ==
    [verb |-> verb, files |-> files, help |-> FALSE, pipeline |-> "lz4", suffix |-> << >>, output |-> << >>,
     dataset |-> "sqy_stack", chroma |-> "C420", lut_path |-> << >>, frame_shape |-> NoShape]

\* The line FRAME.
MCFrame == -1

MCPeriod(ext) == [period |-> TRUE, ext |-> ext]
MCBehind(tag, ext) == [period |-> FALSE, tag |-> tag, ext |-> ext]

MCCompress ==
    {MCBase("comp", <<MCOf("a"), MCOf("none"), MCOf("b"), MCOf("c")>>),
     [MCBase("enc", <<MCOf("a"), MCOf("b"), MCOf("c")>>) EXCEPT !.pipeline = "quantiser"],
     [MCBase("comp", <<MCOf("a")>>) EXCEPT !.suffix = MCPeriod("tif"), !.pipeline = "quantiser"],
     [MCBase("comp", <<MCOf("a"), MCOf("b")>>) EXCEPT !.suffix = MCPeriod("h5")],
     [MCBase("comp", <<MCOf("b")>>) EXCEPT !.suffix = MCBehind(<<0>>, "tif")],
     [MCBase("comp", <<MCOf("b")>>) EXCEPT !.suffix = MCPeriod("bin")],
     [MCBase("comp", <<MCOf("b")>>) EXCEPT !.pipeline = "unknown"],
     [MCBase("comp", <<MCOf("b")>>) EXCEPT !.output = <<MCName("a", "sqy")>>],
     MCBase("comp", <<MCName("torn", "sqy")>>),
     [MCBase("bench", <<MCOf("b"), MCOf("none")>>) EXCEPT !.suffix = MCPeriod("h5")],
     [MCBase("bench", <<MCOf("b")>>) EXCEPT !.suffix = MCPeriod("tif"), !.output = <<MCName("x", "tif")>>],
     [MCBase("bench", <<MCOf("c"), MCOf("b")>>) EXCEPT !.pipeline = "quantiser"],
     [MCBase("bench", <<MCOf("b")>>) EXCEPT !.pipeline = "unknown"],
     [MCBase("bench", <<MCOf("b")>>) EXCEPT !.suffix = MCPeriod("bin")],
     MCBase("bench", <<MCName("torn", "sqy")>>)}

MCDecompress ==
    {[MCBase("dec", <<MCName("c", "sqy"), MCName("a", "sqy"), MCName("b", "sqy")>>) EXCEPT !.output = <<MCOf("a")>>],
     MCBase("dec", <<MCName("a", "sqy"), MCName("torn", "sqy"), MCName("b", "sqy")>>),
     [MCBase("dec", <<MCName("plain", "sqy"), MCName("a", "sqy")>>) EXCEPT !.suffix = MCPeriod("tif")],
     [MCBase("dec", <<MCName("a", "sqy")>>) EXCEPT !.output = <<MCName("torn", "sqy")>>],
     [MCBase("rec", <<MCName("c", "sqy")>>) EXCEPT !.suffix = MCPeriod("tif")],
     MCBase("rec", <<MCName("a", "h5"), MCName("b", "h5")>>)}

MCConvert ==
    {MCBase("trf", <<MCOf("a"), MCName("a", "y4m")>>),
     MCBase("trf", <<MCOf("b"), MCName("b", "y4m")>>),
     MCBase("trf", <<MCOf("c"), MCName("c", "y4m")>>),
     MCBase("trf", <<MCOf("a"), MCName("a", "yuv")>>),
     [MCBase("trf", <<MCOf("a"), MCName("a", "y4m")>>) EXCEPT !.chroma = "C444"],
     [MCBase("trf", <<MCOf("b"), MCName("b", "y4m")>>) EXCEPT !.chroma = "C444"],
     [MCBase("trf", <<MCOf("a"), MCName("a", "y4m")>>) EXCEPT !.lut_path = <<MCName("l", "txt")>>],
     MCBase("trf", <<MCOf("c"), MCName("a", "y4m")>>),
     MCBase("trf", <<MCOf("b"), MCName("b", "raw")>>),
     MCBase("trf", <<MCName("a", "y4m"), MCOf("a")>>),
     MCBase("trf", <<MCName("a", "y4m"), MCName("y", "tif")>>),
     MCBase("trf", <<MCName("b", "y4m"), MCName("y", "tif")>>),
     MCBase("trf", <<MCYuv("a", 2, 2, 2), MCOf("a")>>),
     MCBase("trf", <<MCOf("c"), MCName("c", "yuv")>>),
     MCBase("trf", <<MCYuv("c", 2, 3, 2), MCOf("c")>>),
     [MCBase("trf", <<MCName("c", "y4m"), MCOf("c")>>) EXCEPT !.frame_shape = <<2, 3>>]}

MCReads ==
    {MCBase("", << >>), MCBase("scan", << >>), MCBase("scan", <<MCOf("a"), MCOf("y"), MCName("torn", "sqy")>>),
     MCBase("cmp", <<MCOf("a"), MCOf("c")>>), MCBase("cmp", <<MCName("a", "y4m"), MCName("b", "y4m")>>),
     MCBase("diff", <<MCOf("a"), MCOf("y"), MCOf("c")>>)}

MCCommands == MCCompress \cup MCDecompress \cup MCConvert \cup MCReads
=============================================================================
