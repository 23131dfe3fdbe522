------------------------------ MODULE MCKernels ------------------------------
(* Items of four bits, registers of two: volumes that fill whole words of the *)
(* planes and others, teams whose shares cut a word, thin and thick volumes.  *)
EXTENDS Kernels

\* Values without a pattern that a swapped axis or bit would keep.
Image(shape) == [c \in 0 .. shape[1] * shape[2] * shape[3] - 1 |-> (c * c + 5 * c + 3) % 2 ^ Width]

J(scheme, shape, threads, readers, wide, threshold) ==
    [scheme |-> scheme, shape |-> shape, image |-> Image(shape), threads |-> threads,
     readers |-> readers, wide |-> wide, level |-> threshold]

MCJobs ==
    {J("bitswap", <<1, 1, 4>>, 2, 1, TRUE, 0), J("bitswap", <<1, 1, 9>>, 2, 1, FALSE, 0),
     J("bitswap", <<1, 1, 5>>, 3, 1, FALSE, 0), J("bitswap", <<1, 2, 5>>, 1, 2, TRUE, 0),
     J("bitswap", <<2, 2, 2>>, 3, 1, TRUE, 0), J("bitswap", <<2, 2, 4>>, 5, 2, TRUE, 0)}
    \cup {J("diff", shape, threads, 1, TRUE, 0) :
            shape \in {<<3, 3, 3>>, <<2, 3, 3>>, <<6, 3, 2>>, <<3, 4, 2>>, <<1, 3, 4>>},
            threads \in {1, 2}}
    \cup {J("diff", <<3, 4, 2>>, 2, 2, TRUE, 0), J("diff", <<3, 4, 3>>, 1, 2, TRUE, 0),
          J("diff", <<3, 1, 3>>, 1, 1, TRUE, 0), J("diff", <<3, 2, 3>>, 1, 1, TRUE, 0),
          J("diff", <<3, 3, 9>>, 1, 1, TRUE, 0), J("diff", <<9, 3, 2>>, 1, 1, TRUE, 0)}
    \cup {J("remove_background", <<1, 1, 7>>, 3, 1, TRUE, 6),
          J("rmestbkrd", <<3, 2, 1>>, 2, 1, TRUE, 0), J("rmestbkrd", <<1, 2, 2>>, 2, 1, TRUE, 0),
          J("rmbkrd_neighbor", <<4, 4, 3>>, 2, 1, TRUE, 9),
          J("rmbkrd_neighbor", <<2, 3, 2>>, 1, 1, TRUE, 9),
          J("rmbkrd_neighbor", <<3, 3, 4>>, 2, 1, TRUE, 9)}
=============================================================================
