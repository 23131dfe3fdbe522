------------------------------- MODULE MCReorder -------------------------------
(* Volumes with and without incomplete tiles for every filter. *)
EXTENDS Reorder

J(scheme, option, shape, threads, block) ==
    [scheme |-> scheme,
     ts |-> CASE scheme = "raster_reorder" -> RasterStage(option, block)
              [] scheme = "zcurve_reorder" -> ZcurveStage(option)
              [] scheme = "tile_shuffle"   -> TileStage(option)
              [] scheme = "frame_shuffle"  -> FrameStage(option),
     shape |-> shape, threads |-> threads, block |-> block]

MCJobs ==
    {J("raster_reorder", 2, <<3, 3, 5>>, 2, 8), J("raster_reorder", 2, <<4, 2, 4>>, 2, 8),
     J("raster_reorder", NotGiven, <<2, 2, 4>>, 1, 2),
     J("raster_reorder", 2, <<2, 4, 3>>, 1, 8),
     J("zcurve_reorder", NotGiven, <<2, 4, 2>>, 2, 8),
     J("zcurve_reorder", 2, <<3, 2, 3>>, 1, 8), J("zcurve_reorder", 4, <<4, 4, 5>>, 2, 8),
     J("zcurve_reorder", 2, <<1, 3, 3>>, 1, 8),
     J("tile_shuffle", 2, <<1, 1, 9>>, 2, 8), J("tile_shuffle", 2, <<1, 3, 3>>, 2, 8), J("tile_shuffle", 2, <<2, 2, 4>>, 2, 8),
     J("frame_shuffle", 2, <<5, 1, 2>>, 2, 8),
     J("frame_shuffle", NotGiven, <<3, 2, 1>>, 2, 8),
     J("frame_shuffle", 3, <<2, 1, 2>>, 1, 8)}

\* The job for which AlwaysRestored fails.
MCRaceJobs == {J("raster_reorder", NotGiven, <<4, 2, 2>>, 2, 2)}
=============================================================================
