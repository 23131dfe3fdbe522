-------------------------- MODULE MCDynamicPipeline ---------------------------
(* The pipelines DynamicPipeline is checked with. *)
EXTENDS DynamicPipeline

Pipeline(head, sink, tail, tails) ==
    [head |-> head, sink |-> sink, tail |-> tail, tails |-> tails]

\* A filter, the quantiser and lz4; two filters and no sink; a filter and lz4;
\* the quantiser and two filters behind it; a filter and the quantiser.
AllKinds == {Pipeline(1, "quantiser", "compressor", 1), Pipeline(2, "none", "none", 0),
             Pipeline(1, "compressor", "none", 0),
             Pipeline(0, "quantiser", "filter", 2), Pipeline(1, "quantiser", "none", 0)}

FilterOnly    == {Pipeline(1, "none", "none", 0)}
QuantiserLast == {Pipeline(1, "quantiser", "none", 0)}
=============================================================================
