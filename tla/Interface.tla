------------------------------- MODULE Interface -------------------------------
(***************************************************************************)
(* The C interface of sqeazy.cpp: encode and decode by the text of a         *)
(* pipeline, and the HDF5 calls with h5_file of hdf5_utils.hpp and the       *)
(* filter of inc/sqeazy_h5_filter.hpp that the HDF5 library calls back.      *)
(*                                                                         *)
(* One process calls; a call of the HDF5 part is a step per call it makes to *)
(* the library, because each may throw and what was done before stays done.  *)
(* The library (files of groups, datasets and links, a filter per dataset)   *)
(* is modelled by how the code uses it.  A volume is its identity, an item   *)
(* count stands for its shape, sizes of headers are counted in tokens.       *)
(***************************************************************************)
EXTENDS PipelineText

CONSTANTS Files,     \* absolute file names: sequences of path components, no ".."
          Foreign,   \* the files that exist and are not HDF5
          Names,     \* absolute names in a file: sequences of components
          Texts,     \* what a caller encodes with
          Filters,   \* what a caller passes as the text of a filter
          Volumes,   \* identities of volumes
          ShapeOf,   \* and their item counts
          Fixed,     \* tokens of a header beside the text of the pipeline
          Window,    \* how many headers the filter searches for another one: 2
          Calls      \* bound: calls of the HDF5 part

ASSUME InterfaceAssumption ==
    /\ Volumes \subseteq Nat \ {0} /\ ShapeOf \in [Volumes -> Nat \ {0}]
    /\ Calls \in Nat /\ Fixed \in Nat /\ Window \in Nat \ {0}
    /\ Files \subseteq Seq(STRING \ {".."}) \ {<<>>} /\ Foreign \subseteq Files
    /\ Names \subseteq Seq(STRING) \ {<<>>}

VARIABLES disk,     \* what is in each file
          streams,  \* encoded buffers the caller holds
          pc,       \* where the calling thread is
          call,     \* the HDF5 call at work
          calls,    \* HDF5 calls so far
          last,     \* how the last call ended and what it returned
          kept,     \* the volume a dataset should hold by what returned 0
          linked    \* the links that were made: from where to where

vars == <<disk, streams, pc, call, calls, last, kept, linked>>

NoFile == [exists |-> FALSE, hdf5 |-> FALSE, items |-> <<>>]
Unknown == -1
Garbage == -2
Threw == -1            \* an exception, or a null pointer used, in place of a result
NoCall == [op |-> "none"]
NoResult == [op |-> "none", value |-> 0]

Init ==
    /\ disk = [f \in Files |-> [NoFile EXCEPT !.exists = (f \in Foreign)]]
    /\ streams = {} /\ pc = "idle" /\ call = NoCall /\ calls = 0
    /\ last = NoResult /\ linked = {}
    /\ kept = [f \in Files |-> [p \in Names |-> Unknown]]

-----------------------------------------------------------------------------
(* header *)

\* pack: a header in front of the payload, and what it says of the volume.
Stream(text, vol, shape, width) ==
    [text |-> text, vol |-> vol, shape |-> shape, width |-> width, whole |-> TRUE]

HeaderSize(s) == Fixed + Len(s.text)

\* unpack, by the constructors that swallow every exception: a buffer that
\* does not hold a header to its delimiter gives an empty one.
Contained(s) == s.whole
HeaderOf(s) == IF Contained(s) THEN s
               ELSE [text |-> <<>>, vol |-> 0, shape |-> 0, width |-> 0, whole |-> FALSE]

SizeofTypeinfo(s) == s.width
RawSize(s) == s.shape
RawSizeByte(s) == RawSize(s) * SizeofTypeinfo(s)

SQY_Header_Size(s) == IF Contained(s) THEN HeaderSize(s) ELSE 0
SQY_Decompressed_Shape(s) == HeaderOf(s).shape
SQY_Decompressed_NDims(s) == IF HeaderOf(s).shape = 0 THEN 0 ELSE 1
SQY_Decompressed_Sizeof(s) == SizeofTypeinfo(HeaderOf(s))
SQY_Decompressed_Length(s) == RawSizeByte(HeaderOf(s))

-----------------------------------------------------------------------------
(* encode and decode *)

\* What the stages learn from a volume: the entries of a LUT, a reorder map.
Lut(vol) == [i \in 1 .. 2 |-> 300 * vol + i]
Learn(stage, vol) ==
    CASE stage.name = "quantiser"     -> [stage EXCEPT !.values[1] = RangeToVerbatim(Lut(vol), 2)]
      [] stage.name = "frame_shuffle" -> [stage EXCEPT !.values[2] = RangeToVerbatim(<<vol>>, 2)]
      [] OTHER -> stage
LearnAll(chain, vol) == [i \in DOMAIN chain |-> Learn(chain[i], vol)]
Encoded(pipe, vol) ==
    [head |-> LearnAll(pipe.head, vol), sink |-> LearnAll(pipe.sink, vol),
     tail |-> LearnAll(pipe.tail, vol)]

\* What the stages take from their options when they decode.
Teach(stage) ==
    CASE stage.name = "quantiser"     -> VerbatimToRange(stage.values[1], <<0, 0>>, 2)
      [] stage.name = "frame_shuffle" -> VerbatimToRange(stage.values[2],
              [i \in 1 .. VerbatimYields(stage.values[2], 2) |-> 0], 2)
      [] OTHER -> <<>>
Fits(chain, vol) == \A i \in DOMAIN chain :
    /\ chain[i].name = "quantiser" => Teach(chain[i]) = Lut(vol)
    /\ chain[i].name = "frame_shuffle" => Teach(chain[i]) = <<vol>>

\* decode by what the header says gives the volume, if the stages are those
\* that encoded it and hold what these have learned.
Restores(pipe, s) ==
    /\ Name(pipe) = s.text
    /\ Fits(pipe.head, s.vol) /\ Fits(pipe.sink, s.vol) /\ Fits(pipe.tail, s.vol)

\* A text that is built prints, with what the stages learn from a volume, to a
\* text that is built again and gives the volume back.
Built(text) == ~Throws(text) /\ CanBeBuiltFrom(Dypeline, text)
Printed(text, vol) == Name(Encoded(FromString(Dypeline, text), vol))
Rebuilds(text) ==
    Built(text) => \A vol \in Volumes :
        LET new == Printed(text, vol) IN
        /\ CanBeBuiltFrom(Dypeline, new)
        /\ Restores(FromString(Dypeline, new), Stream(new, vol, ShapeOf[vol], 2))
\* The texts that get into the options of a filter.
Learned == {Printed(text, vol) : text \in {t \in Texts : Built(t)}, vol \in Volumes}
TextsRebuild == \A text \in Texts \cup Filters \cup Learned : Rebuilds(text)

Ended(op, value) == last' = [op |-> op, value |-> value]

\* What a text and a volume give: the stream, or why there is none; works: the
\* stages do not give up, in which case encode returns a null pointer.
EncodeWith(pipe, built, vol, width, works) ==
    IF ~built \/ IsEmpty(pipe) \/ ~works THEN [value |-> 1, stream |-> <<>>]
    ELSE [value |-> 0, stream |-> Stream(Name(Encoded(pipe, vol)), vol, ShapeOf[vol], width)]
EncodeBy(text, vol, width, works) ==
    IF Throws(text) THEN [value |-> Threw, stream |-> <<>>]
    ELSE EncodeWith(FromString(Dypeline, text), CanBeBuiltFrom(Dypeline, text), vol, width, works)

\* Nothing catches what the stages throw.
SQY_PipelineEncode_UI8(text, vol, works) == EncodeBy(text, vol, 1, works)
SQY_PipelineEncode_UI16(text, vol, works) == EncodeBy(text, vol, 2, works)

\* The caller encodes one volume, before the calls of the HDF5 part, and may
\* lose the end of the stream.
PipelineEncode ==
    /\ pc = "idle" /\ calls = 0 /\ streams = {}
    /\ \E text \in Texts, vol \in Volumes, works \in BOOLEAN :
       \E result \in {SQY_PipelineEncode_UI8(text, vol, works),
                      SQY_PipelineEncode_UI16(text, vol, works)} :
          /\ Ended("encode", result.value)
          /\ IF result.value # 0 THEN UNCHANGED streams
             ELSE \E whole \in BOOLEAN :
                    streams' = {[result.stream EXCEPT !.whole = whole]}
    /\ UNCHANGED <<disk, pc, call, calls, kept, linked>>

DecodeWith(pipe, built, s) ==
    IF ~built \/ IsEmpty(pipe) THEN [value |-> 1, vol |-> Garbage]
    ELSE [value |-> 0, vol |-> IF Restores(pipe, s) THEN s.vol ELSE Garbage]
DecodeBy(s) ==
    LET hdr == HeaderOf(s) IN
    DecodeWith(FromString(Dypeline, hdr.text), CanBeBuiltFrom(Dypeline, hdr.text), s)

\* A caller chooses by what SQY_Decompressed_Sizeof says.
SQY_Decode_UI16(s) == DecodeBy(s)
SQY_Decode_UI8(s) == DecodeBy(s)
SQY_Decode(s) ==
    IF SQY_Decompressed_Sizeof(s) = 2 THEN SQY_Decode_UI16(s) ELSE SQY_Decode_UI8(s)

-----------------------------------------------------------------------------
(* the filter, called by the library *)

Raw(vol, shape) == [vol |-> vol, shape |-> shape]
Failed == [failed |-> TRUE]
TypesOf(width) == IF width = 2 THEN Dypeline ELSE DypelineUint8

\* Mutant of FilterEncode: what comes in is taken for a volume.
EncodeAlways(cd, in) ==
    IF ~CanBeBuiltFrom(Dypeline, cd.text) THEN Failed
    ELSE Stream(Name(Encoded(FromString(TypesOf(cd.width), cd.text),
                             IF "text" \in DOMAIN in THEN 0 ELSE in.vol)),
                IF "text" \in DOMAIN in THEN Garbage ELSE in.vol, cd.shape, cd.width)

\* H5Z_filter_sqy, writing: a buffer that begins with a header, found within
\* twice the size of that in the options, is stored as it is.
Found(cd, in) == "text" \in DOMAIN in /\ HeaderSize(in) <= Window * HeaderSize(cd)
FilterEncode(cd, in) ==
    LET vol   == IF "text" \in DOMAIN in THEN Garbage ELSE in.vol
        pipe  == FromString(TypesOf(cd.width), cd.text) IN
    IF Found(cd, in) THEN in
    ELSE IF Throws(cd.text) \/ ~CanBeBuiltFrom(Dypeline, cd.text) THEN Failed
    ELSE Stream(Name(Encoded(pipe, IF vol = Garbage THEN 0 ELSE vol)), vol, cd.shape, cd.width)

\* H5Z_filter_sqy, reading.
FilterDecode(s) ==
    LET types == TypesOf(s.width)
        pipe  == FromString(types, s.text) IN
    IF ~CanBeBuiltFrom(types, s.text) THEN Failed
    ELSE Raw(IF Restores(pipe, s) THEN s.vol ELSE Garbage, s.shape)

-----------------------------------------------------------------------------
(* files *)

ItemsOf(f) == disk[f].items
Group == [kind |-> "group"]
Link(rel, name) == [kind |-> "link", rel |-> rel, name |-> name]
Dataset(shape, width, filter) ==
    [kind |-> "data", shape |-> shape, width |-> width, filter |-> filter, holds |-> <<>>]

\* H5Lexists: an error for a name in a group that is not there.
HasItem(f, name) ==
    /\ name \in DOMAIN ItemsOf(f)
    /\ \A k \in 1 .. Len(name) - 1 : SubSeq(name, 1, k) \in DOMAIN ItemsOf(f)

\* extract_group_path, for an absolute name
ExtractGroupPath(name) == Front(name)

\* make_relative, from a file
MakeRelative(from, to) ==
    LET dir == Front(from)
        common == CHOOSE k \in 0 .. Len(dir) :
                    /\ k <= Len(to) /\ SubSeq(dir, 1, k) = SubSeq(to, 1, k)
                    /\ \A j \in k + 1 .. Len(dir) :
                         j > Len(to) \/ SubSeq(dir, 1, j) # SubSeq(to, 1, j) IN
    [i \in 1 .. Len(dir) - common |-> ".."] \o SubSeq(to, common + 1, Len(to))

\* How the library finds the file of a link: beside the file with the link.
Follow(f, rel) ==
    FoldLeft(LAMBDA at, c : IF c # ".." THEN Append(at, c)
                            ELSE IF at = <<>> THEN at ELSE Front(at), Front(f), rel)

Nowhere == <<>>
At(t) == ItemsOf(t[1])[t[2]]
IsDataset(t) == t # Nowhere /\ HasItem(t[1], t[2]) /\ At(t).kind = "data"

\* One link further.
Hop(t) ==
    IF IsDataset(t) THEN t
    ELSE IF /\ t # Nowhere /\ HasItem(t[1], t[2]) /\ At(t).kind = "link"
            /\ Follow(t[1], At(t).rel) \in Files
         THEN <<Follow(t[1], At(t).rel), At(t).name>>
    ELSE Nowhere

\* openDataSet: the file and the name where the links from here end.
Target(f, name) ==
    LET place[k \in 0 .. Cardinality(linked)] ==
          IF k = 0 THEN <<f, name>> ELSE Hop(place[k - 1])
        end == place[Cardinality(linked)]
    IN  IF IsDataset(end) THEN end ELSE Nowhere

\* h5_file(path, flag): ready unless the file cannot be opened.
CanOpen(f) == disk[f].exists => disk[f].hdf5
Ready(f) == disk[f].exists /\ disk[f].hdf5

\* Mutant of OpenToWrite: a file that is there is written anew.
TruncateAlways(f) == disk' = [disk EXCEPT ![f] = [exists |-> TRUE, hdf5 |-> TRUE, items |-> <<>>]]

\* An existing file is opened to read and write, another one is created.
OpenToWrite(f) ==
    disk' = [disk EXCEPT ![f] = IF @.exists THEN @
                                ELSE [exists |-> TRUE, hdf5 |-> TRUE, items |-> <<>>]]

With(items, name, item) ==
    [n \in DOMAIN items \cup {name} |-> IF n = name THEN item ELSE items[n]]
AddItem(f, name, item) == disk' = [disk EXCEPT ![f].items = With(@, name, item)]

-----------------------------------------------------------------------------
(* queries *)

\* load_h5_dataset, and what h5_file says of a dataset: nothing, if there is none
DatasetOf(f, name) == IF Ready(f) THEN Target(f, name) ELSE Nowhere
type_size_in_byte(t) == IF t = Nowhere THEN 0 ELSE At(t).width
is_integer(t) == t # Nowhere
is_signed(t) == FALSE                 \* uint8 and uint16 alone are written
shape(t) == IF t = Nowhere THEN <<>> ELSE <<At(t).shape>>

SQY_h5_query_sizeof(t) == type_size_in_byte(t)
SQY_h5_query_dtype(t) == IF ~is_integer(t) THEN 0 ELSE IF is_signed(t) THEN 2 ELSE 1
SQY_h5_query_ndims(t) == Len(shape(t))
SQY_h5_query_shape(t) == shape(t)

-----------------------------------------------------------------------------
(* writing *)

\* The calls: write_nd_dataset without and with the text of a filter, and
\* write_compressed_buffer.
WriteNdDataset(f, name, vol) ==
    [op |-> "write", file |-> f, name |-> name, width |-> 2, shape |-> ShapeOf[vol],
     data |-> Raw(vol, ShapeOf[vol]), vol |-> vol, filter |-> <<>>, fresh |-> TRUE]
WriteFiltered(f, name, vol, text) ==
    [WriteNdDataset(f, name, vol) EXCEPT !.filter = <<Stream(text, 0, ShapeOf[vol], 2)>>]
WriteCompressedBuffer(f, name, s) ==
    [op |-> "stream", file |-> f, name |-> name, width |-> s.width, shape |-> s.shape,
     data |-> s, vol |-> s.vol, filter |-> <<HeaderOf(s)>>, fresh |-> TRUE]

SQY_h5_write_UI16(f, name, vol, text) ==
    IF text = <<>> THEN WriteNdDataset(f, name, vol) ELSE WriteFiltered(f, name, vol, text)
SQY_h5_write(f, name, s) == WriteCompressedBuffer(f, name, s)

StartWrite ==
    /\ pc = "idle" /\ calls < Calls
    /\ \E f \in Files, name \in Names :
         \/ \E vol \in Volumes, text \in Filters \cup {<<>>} :
              call' = SQY_h5_write_UI16(f, name, vol, text)
         \/ \E s \in streams : call' = SQY_h5_write(f, name, s)
    /\ calls' = calls + 1
    /\ pc' = "open"
    /\ UNCHANGED <<disk, streams, last, kept, linked>>

Return(op, value) ==
    /\ Ended(op, value)
    /\ pc' = "idle" /\ call' = NoCall
    /\ UNCHANGED <<streams, calls>>

Goto(label) == pc' = label /\ UNCHANGED <<streams, calls, last>>

\* write_compressed_buffer asks for a header when the file is open.
Open ==
    /\ pc = "open"
    /\ IF ~CanOpen(call.file)
         THEN Return(call.op, 1) /\ UNCHANGED disk
         ELSE /\ OpenToWrite(call.file)
              /\ IF call.op = "stream" /\ ~Contained(call.data)
                   THEN Return(call.op, 1)
                   ELSE Goto("group") /\ UNCHANGED call
    /\ UNCHANGED <<kept, linked>>

\* openGroup throws for something else than a group, createGroup for a group
\* in one that is not there.
EnterGroup ==
    /\ pc = "group"
    /\ LET f == call.file
           grp == ExtractGroupPath(call.name) IN
       IF grp = <<>> \/ (HasItem(f, grp) /\ ItemsOf(f)[grp] = Group)
         THEN Goto("dataset") /\ UNCHANGED <<disk, call>>
       ELSE IF HasItem(f, grp) \/ ~(Len(grp) = 1 \/ HasItem(f, Front(grp)))
         THEN Return(call.op, Threw) /\ UNCHANGED disk
       ELSE Goto("dataset") /\ AddItem(f, grp, Group) /\ UNCHANGED call
    /\ UNCHANGED <<kept, linked>>

\* openDataSet throws where no dataset is; the variant with the text of a
\* filter always creates, which throws for a name that is taken.
EnterDataset ==
    /\ pc = "dataset" /\ call.op # "link"
    /\ LET f == call.file IN
       IF HasItem(f, call.name)
         THEN /\ IF (call.op = "write" /\ call.filter # <<>>) \/ Target(f, call.name) = Nowhere
                   THEN Return(call.op, Threw)
                   ELSE Goto("data") /\ call' = [call EXCEPT !.fresh = FALSE]
              /\ UNCHANGED disk
         ELSE /\ AddItem(f, call.name, Dataset(call.shape, call.width, call.filter))
              /\ Goto("data") /\ UNCHANGED call
    /\ UNCHANGED <<kept, linked>>

\* What a caller may count on when the call has returned 0: the volume it
\* wrote, if the dataset is new or has the shape and type of the volume.
Counted(t) ==
    IF call.fresh \/ (call.op = "write" /\ At(t).shape = call.shape /\ At(t).width = 2)
      THEN call.vol ELSE Unknown

\* DataSet::write, and the filter when the library flushes.
WriteData ==
    /\ pc = "data"
    /\ LET t == Target(call.file, call.name)
           ds == At(t)
           chunk == IF ds.filter = <<>> THEN call.data
                    ELSE FilterEncode(ds.filter[1], call.data) IN
       IF chunk = Failed
         THEN Return(call.op, Threw) /\ UNCHANGED <<disk, kept>>
         ELSE /\ disk' = [disk EXCEPT ![t[1]].items[t[2]].holds = <<chunk>>]
              /\ kept' = [kept EXCEPT ![t[1]][t[2]] = Counted(t)]
              /\ Return(call.op, 0)
    /\ UNCHANGED linked

\* The stages that the filter made give up: it returns 0 bytes.
FilterFails ==
    /\ pc = "data"
    /\ LET ds == At(Target(call.file, call.name)) IN
       ds.filter # <<>> /\ ~Found(ds.filter[1], call.data)
    /\ Return(call.op, Threw)
    /\ UNCHANGED <<disk, kept, linked>>

-----------------------------------------------------------------------------
(* reading *)

\* DataSet::read; a dataset that was never written to reads as zeros.
ReadDataset(ds) ==
    CASE ds.holds = <<>> -> Raw(Garbage, ds.shape)
      [] ds.holds # <<>> /\ ds.filter # <<>> -> FilterDecode(ds.holds[1])
      [] ds.holds # <<>> /\ ds.filter = <<>> ->
           IF "text" \in DOMAIN ds.holds[1] THEN Raw(Garbage, ds.shape) ELSE ds.holds[1]

TypeMatches(ds) == ds.width = 2       \* h5_read_type_matches<uint16>

\* read_nd_dataset: what it returns, and the volume.
ReadNdDataset(t) ==
    LET seen == ReadDataset(At(t)) IN
    IF ~TypeMatches(At(t)) \/ seen = Failed THEN [value |-> 1, vol |-> Garbage]
    ELSE [value |-> 0, vol |-> seen.vol]

\* (With some versions of the library a link that leads nowhere makes it throw.)
SQY_h5_read_UI16(t) ==
    IF t = Nowhere THEN [value |-> 1, vol |-> Garbage] ELSE ReadNdDataset(t)

-----------------------------------------------------------------------------
(* links *)

\* SQY_h5_link: the file for the link is opened, and created, first; that it
\* could not be opened shows only when the link is set up, as a null pointer.
StartLink ==
    /\ pc = "idle" /\ calls < Calls
    /\ \E f, g \in Files, name, dest \in Names :
         /\ calls' = calls + 1
         /\ IF ~CanOpen(f) \/ ~Ready(g) \/ ~HasItem(g, dest)
              THEN /\ IF CanOpen(f) THEN OpenToWrite(f) ELSE UNCHANGED disk
                   /\ Ended("link", IF Ready(g) /\ HasItem(g, dest) THEN Threw ELSE 1)
                   /\ UNCHANGED <<pc, call>>
              ELSE /\ OpenToWrite(f)
                   /\ call' = [op |-> "link", file |-> f, name |-> name, to |-> g, dest |-> dest]
                   /\ pc' = "group"
                   /\ UNCHANGED last
    /\ UNCHANGED <<streams, kept, linked>>

\* setup_link does not look at what H5Lcreate_external returns: it reports 0
\* though a name that is taken stays what it was.
CreateExternal ==
    /\ pc = "dataset" /\ call.op = "link"
    /\ IF HasItem(call.file, call.name)
         THEN UNCHANGED <<disk, linked>>
         ELSE /\ AddItem(call.file, call.name,
                         Link(MakeRelative(call.file, call.to), call.dest))
              /\ linked' = linked \cup {<<call.file, call.name, call.to, call.dest>>}
    /\ Return("link", 0)
    /\ UNCHANGED kept

Next ==
    \/ PipelineEncode \/ StartWrite \/ Open \/ EnterGroup \/ EnterDataset
    \/ WriteData \/ FilterFails \/ StartLink \/ CreateExternal

Spec == Init /\ [][Next]_vars

-----------------------------------------------------------------------------
(* Properties *)

\* A buffer that was encoded through the C interface and has its whole header
\* is decoded by the stages that encoded it, in their order and with what they
\* had learned from the volume, though all that decode has is the text; and so
\* are the texts of filters, and those that encoding has put into headers.  (The
\* HDF5 calls leave them as they are: looking before the first one is enough.)
Rebuilt ==
    calls = 0 =>
        /\ \A s \in streams : Contained(s) => SQY_Decode(s) = [value |-> 0, vol |-> s.vol]
        /\ TextsRebuild

\* Where a name leads, by the links that were made, and the
\* volume that should be there.
Along(p) ==
    LET L == {l \in linked : <<l[1], l[2]>> = p} IN
    IF L = {} THEN p ELSE LET l == CHOOSE l \in L : TRUE IN <<l[3], l[4]>>
Expected(f, name) ==
    LET place[k \in 0 .. Cardinality(linked)] ==
          IF k = 0 THEN <<f, name>> ELSE Along(place[k - 1])
        end == place[Cardinality(linked)]
    IN  kept[end[1]][end[2]]

\* A read returns 0 and gives the volume of the last write that returned 0 for
\* this dataset, if its items have 16 bits, through a filter or not, in one piece or as a stream
\* encoded before, under its name or through any links; and what a query says
\* of it is the shape and the type of this volume.
ReadBack ==
    pc = "idle" => \A f \in Files, name \in Names :
        LET vol == Expected(f, name)
            t   == DatasetOf(f, name) IN
        vol # Unknown =>
            /\ SQY_h5_query_shape(t) = <<ShapeOf[vol]>>
            /\ SQY_h5_query_ndims(t) = 1 /\ SQY_h5_query_dtype(t) = 1
            /\ \/ SQY_h5_read_UI16(t) = [value |-> 0, vol |-> vol]
               \/ SQY_h5_query_sizeof(t) # 2

\* No call removes a dataset or changes what it holds, unless it is a write to
\* this very dataset that returns 0; calls that fail half way through leave at
\* most an empty file, a group or a dataset without data behind.
NothingLost ==
    [][\A f \in Files : \A name \in DOMAIN ItemsOf(f) :
         /\ name \in DOMAIN disk'[f].items
         /\ disk'[f].items[name] # ItemsOf(f)[name] =>
              last'.value = 0 /\ Target(call.file, call.name) = <<f, name>>]_vars
=============================================================================
