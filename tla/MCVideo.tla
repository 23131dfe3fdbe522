------------------------------- MODULE MCVideo -------------------------------
(* Up to three frames of 8 and 16 bits, with odd heights, a width that cannot *)
(* be coded and blocks that span more than 8 bits.                            *)
EXTENDS Video

MCFrame(h, w, k) ==
    [v \in Voxels(h, w) |-> (k * 97 + 300 * v[1] + 41 * v[2] + 255 * ((v[2] + k) % 2)) % 65536]
Narrow(h, w, k) == [v \in Voxels(h, w) |-> 65400 + ((k * 50 + (7 - 3 * v[1]) * 9 + v[2]) % 136)]
Bytes(h, w, k) == [v \in Voxels(h, w) |-> (k * 97 + 10 * v[1] + v[2]) % 256]

Job(sink, payload, width, h, w, frames) ==
    [sink |-> sink, payload |-> payload, width |-> width, h |-> h, w |-> w, frames |-> frames]

MCJobs ==
    {Job(sink, payload, 2, h, 4, <<MCFrame(h, 4, 1), Narrow(h, 4, 2), MCFrame(h, 4, 3)>>) :
       sink \in {"h264", "hevc"}, payload \in {<< >>, [qp |-> "0"], [lossless |-> "1"]}, h \in {1, 3}}
    \cup {Job("h264", << >>, 2, 2, 8, <<Narrow(2, 8, 1), MCFrame(2, 8, 2)>>),
          Job("h264", << >>, 2, 2, 6, <<Narrow(2, 6, 1)>>),
          Job("hevc", << >>, 1, 3, 5, <<Bytes(3, 5, 1), Bytes(3, 5, 2)>>)}
=============================================================================
