------------------------------ MODULE MCInterface ------------------------------
(* Two HDF5 files in different directories and one that is something else. *)
EXTENDS Interface

MCFiles == {<<"a", "x">>, <<"a", "b", "y">>, <<"f">>}
MCForeign == {<<"f">>}
MCNames == {<<"d">>, <<"g", "d">>}
MCTexts ==
    {<<"diff", "->", "quantiser", "(", "weighting_function", "=", "none", ")", "->",
       "frame_shuffle", "->", "bitswap1", "->", "lz4", "(", "accel", "=", "9", ",", "n_chunks_of_input", "=", "2", ")">>,
     <<"lz4", "(">>, <<"nosuch", "->", "lz4">>}
MCFilters == {<<"quantiser", "->", "lz4">>, <<"nosuch", "->", "lz4">>}
MCShapeOf == <<1, 2>>
=============================================================================
