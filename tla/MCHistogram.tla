------------------------------ MODULE MCHistogram ------------------------------
(* Quantiles asked for by calc_median, extract_darkest_face and verbs/scan.hpp *)
EXTENDS Histogram

MCThresholds == {<<1, 2>>, <<99, 100>>}
=============================================================================
