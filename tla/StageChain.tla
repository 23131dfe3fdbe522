----------------------------- MODULE StageChain ------------------------------
(***************************************************************************)
(* stage_chain<filter_t> of dynamic_stage_chain.hpp: a vector of filters     *)
(* run one after the other over two buffers that change roles after every    *)
(* stage.  Both multi-dimensional encode overloads are modelled - the one    *)
(* that allocates its own temporary and the one that is handed a scratchpad -*)
(* and the decode that walks the chain backwards.                            *)
(*                                                                         *)
(* A buffer holds the volume after k stages (k in 0..n), or Spoiled: what a  *)
(* stage, fed with the wrong input or failing, may leave.  How many          *)
(* items a content fills is kept only as far as the code depends on it: a    *)
(* stage in Compressing emits fewer items than the shape has.                *)
(***************************************************************************)
EXTENDS Integers

CONSTANTS Lengths,        \* numbers of stages a chain may have
          Compressing,    \* the stages whose output is shorter than the shape
          HasScratchpad,  \* whether the caller's _scratchpad is not nullptr
          ErrorCodes      \* what a stage's decode may return instead of 0

ASSUME ChainAssumption ==
    /\ Lengths \subseteq Nat \ {0}
    /\ Compressing \subseteq Nat
    /\ HasScratchpad \in BOOLEAN
    /\ ErrorCodes \subseteq Nat \ {0}

VARIABLES n,         \* chain_.size()
          pc,        \* where the caller and the chain are
          fidx,      \* stages done in the current loop
          in_ptr,    \* buffer the next stage reads, Null before the first swap
          out_ptr,   \* buffer the next stage writes
          value,     \* buffer the last returned end pointer points into
          mem,       \* content of every buffer
          err        \* decode's accumulated return value

chainVars == <<n, pc, fidx, in_ptr, out_ptr, value, mem, err>>

Null == "nullptr"

\* _in and _out of encode, temp_in or _scratchpad, temp and _out of decode.
Buffers == {"in", "out", "scratch", "temp", "restored"}

Spoiled == -1

Contents == 0 .. n \cup {Spoiled}

\* Stage j applied to, or undone on, a buffer with content c.
Applied(j, c) == IF c = j - 1 THEN j ELSE Spoiled
Undone(j, c)  == IF c = j THEN j - 1 ELSE Spoiled

\* Copying the number of items the encoded buffer has loses the end of a
\* content that fills the whole shape, when the last stage compresses.
Truncated(c) == IF n \in Compressing /\ c \notin Compressing THEN Spoiled ELSE c

TypeOK ==
    /\ n \in Lengths
    /\ pc \in {"call", "encode", "encoded", "decode", "decoded", "thrown"}
    /\ fidx \in 0 .. n
    /\ in_ptr \in Buffers \cup {Null}
    /\ out_ptr \in Buffers \cup {Null}
    /\ value \in Buffers \cup {Null}
    /\ mem \in [Buffers \cup {Null} -> Contents]
    /\ err \in Nat

Fresh == [b \in Buffers \cup {Null} |-> IF b = "in" THEN 0 ELSE Spoiled]

ChainInit ==
    /\ n \in Lengths
    /\ pc = "call"
    /\ fidx = 0
    /\ in_ptr = Null /\ out_ptr = Null /\ value = Null
    /\ mem = Fresh
    /\ err = 0

-----------------------------------------------------------------------------
(* encode *)

\* encode(_in, _out, _shape): the first stage reads a copy of the input.
EncodeWithTemp ==
    /\ pc = "call"
    /\ pc' = "encode"
    /\ fidx' = 0
    /\ mem' = [mem EXCEPT !["scratch"] = mem["in"]]
    /\ in_ptr' = "scratch"
    /\ out_ptr' = "out"
    /\ value' = Null
    /\ UNCHANGED <<n, err>>

\* encode(_in, _out, _shape, _scratchpad): the first stage reads the input.
EncodeWithScratchpad ==
    /\ pc = "call"
    /\ pc' = "encode"
    /\ fidx' = 0
    /\ in_ptr' = Null
    /\ out_ptr' = "out"
    /\ value' = Null
    /\ UNCHANGED <<n, mem, err>>

Source == IF in_ptr = Null THEN "in" ELSE in_ptr

\* Mutant of SwapPointers: the next stage writes where this one wrote.
NoSwap ==
    /\ in_ptr' = out_ptr
    /\ out_ptr' = out_ptr

\* The overload with its own temporary never sees in_ptr = Null.
SwapPointers ==
    /\ in_ptr' = out_ptr
    /\ out_ptr' = IF in_ptr = Null /\ HasScratchpad THEN "scratch" ELSE in_ptr

\* Mutants of EncodeStage: one that never counts, one that never stops.
EncodeSameStage ==
    /\ pc = "encode"
    /\ fidx < n
    /\ mem' = [mem EXCEPT ![out_ptr] = Applied(fidx + 1, mem[Source])]
    /\ value' = out_ptr
    /\ SwapPointers
    /\ UNCHANGED <<n, pc, fidx, err>>

EncodeStageOn ==
    /\ pc = "encode"
    /\ mem' = [mem EXCEPT ![out_ptr] = Applied(fidx + 1, mem[Source])]
    /\ value' = out_ptr
    /\ fidx' = fidx + 1
    /\ SwapPointers
    /\ UNCHANGED <<n, pc, err>>

EncodeStage ==
    /\ pc = "encode"
    /\ fidx < n
    /\ mem' = [mem EXCEPT ![out_ptr] = Applied(fidx + 1, mem[Source])]
    /\ value' = out_ptr
    /\ fidx' = fidx + 1
    /\ SwapPointers
    /\ UNCHANGED <<n, pc, err>>

\* The stage returns nullptr, no items, or more items than the bound allows.
RejectStage ==
    /\ pc = "encode"
    /\ fidx < n
    /\ mem' = [mem EXCEPT ![out_ptr] = Spoiled]
    /\ value' \in {Null, out_ptr}
    /\ pc' = "thrown"
    /\ UNCHANGED <<n, fidx, in_ptr, out_ptr, err>>

\* Mutant of FinishEncode: nothing is copied back.
NoCopyBack ==
    /\ pc = "encode"
    /\ fidx = n
    /\ pc' = "encoded"
    /\ UNCHANGED <<n, fidx, in_ptr, out_ptr, value, mem, err>>

\* An even number of stages leaves the result in the temporary buffer; the
\* range copied back starts at in_ptr and ends where value points.
FinishEncode ==
    /\ pc = "encode"
    /\ fidx = n
    /\ pc' = "encoded"
    /\ IF n % 2 = 0
         THEN /\ mem' = [mem EXCEPT !["out"] =
                           IF value = in_ptr THEN mem[in_ptr] ELSE Spoiled]
              /\ value' = "out"
         ELSE UNCHANGED <<mem, value>>
    /\ UNCHANGED <<n, fidx, in_ptr, out_ptr, err>>

-----------------------------------------------------------------------------
(* decode *)

StartDecode ==
    /\ pc = "encoded"
    /\ pc' = "decode"
    /\ fidx' = 0
    /\ mem' = [mem EXCEPT !["temp"] = mem["out"]]
    /\ err' = 0
    /\ UNCHANGED <<n, in_ptr, out_ptr, value>>

\* What the stage leaves in _out is copied, len items long, to the temporary.
Produce(c) ==
    mem' = [mem EXCEPT !["restored"] = c, !["temp"] = Truncated(c)]

\* Mutants of DecodeStage: the return value is that of the last stage, and
\* the stages are undone in the order they were applied in.
LastErrorWins ==
    /\ pc = "decode"
    /\ fidx < n
    /\ Produce(Undone(n - fidx, mem["temp"]))
    /\ fidx' = fidx + 1
    /\ err' = 0
    /\ UNCHANGED <<n, pc, in_ptr, out_ptr, value>>

DecodeForwards ==
    /\ pc = "decode"
    /\ fidx < n
    /\ Produce(Undone(fidx + 1, mem["temp"]))
    /\ fidx' = fidx + 1
    /\ UNCHANGED <<n, pc, in_ptr, out_ptr, value, err>>

DecodeStage ==
    /\ pc = "decode"
    /\ fidx < n
    /\ Produce(Undone(n - fidx, mem["temp"]))
    /\ fidx' = fidx + 1
    /\ UNCHANGED <<n, pc, in_ptr, out_ptr, value, err>>

\* An error does not stop the loop.
FailDecodeStage ==
    /\ pc = "decode"
    /\ fidx < n
    /\ \E code \in ErrorCodes : err' = err + 10 * (fidx + 1) + code
    /\ Produce(Spoiled)
    /\ fidx' = fidx + 1
    /\ UNCHANGED <<n, pc, in_ptr, out_ptr, value>>

FinishDecode ==
    /\ pc = "decode"
    /\ fidx = n
    /\ pc' = "decoded"
    /\ UNCHANGED <<n, fidx, in_ptr, out_ptr, value, mem, err>>

-----------------------------------------------------------------------------
\* The caller goes on to another volume, in buffers of its own.
NextVolume ==
    /\ pc \in {"decoded", "thrown"}
    /\ pc' = "call"
    /\ fidx' = 0
    /\ in_ptr' = Null /\ out_ptr' = Null /\ value' = Null
    /\ mem' = Fresh
    /\ err' = 0
    /\ UNCHANGED n

ChainNext ==
    \/ EncodeWithTemp \/ EncodeWithScratchpad
    \/ EncodeStage \/ RejectStage \/ FinishEncode
    \/ StartDecode \/ DecodeStage \/ FailDecodeStage \/ FinishDecode
    \/ NextVolume

\* A call runs to its end: the loops of encode and decode are sequential code.
Running == EncodeStage \/ RejectStage \/ FinishEncode
           \/ DecodeStage \/ FailDecodeStage \/ FinishDecode

ChainSpec == ChainInit /\ [][ChainNext]_chainVars /\ WF_chainVars(Running)

-----------------------------------------------------------------------------
(* Properties *)

\* No stage is ever asked to read and write the same buffer, and none writes
\* into the caller's input or through the null pointer: the roles of the two
\* buffers never collide, whichever overload runs and whatever the parity.
BuffersDistinct ==
    pc = "encode" /\ fidx < n => out_ptr \in {"out", "scratch"} \ {Source}

\* When encode returns, the fully filtered volume is in the caller's _out and
\* the returned pointer ends it there, for odd and even chains alike.
ResultInOut ==
    pc = "encoded" => mem["out"] = n /\ value = "out"

\* decode never hands back a damaged volume while reporting success: a return
\* value of 0 means every stage was undone on what the next one produced.
SuccessMeansRestored ==
    pc = "decoded" /\ err = 0 => mem["restored"] = 0

\* A started encode or decode ends, with a result or with an exception.
CallsEnd == (pc \in {"encode", "decode"}) ~> (pc \in {"encoded", "decoded", "thrown"})

\* The chain implements FilterChain: seen through the buffer that currently
\* holds the volume, every step is one of its steps or a stutter.
Phase == [call |-> "idle", encode |-> "encoding", encoded |-> "delivered",
          decode |-> "decoding", decoded |-> "restored",
          thrown |-> "refused"][pc]

Holder == [call |-> "in", encode |-> Source, encoded |-> "out",
           decode |-> IF fidx = n THEN "restored" ELSE "temp",
           decoded |-> "restored", thrown |-> Null][pc]

Volume == IF pc = "thrown" THEN Spoiled ELSE mem[Holder]

FC == INSTANCE FilterChain WITH phase <- Phase, data <- Volume,
                                reported <- (err > 0)

ImplementsFilterChain == FC!Spec
=============================================================================
