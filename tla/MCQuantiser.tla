----------------------------- MODULE MCQuantiser ------------------------------
(* Values for the constants of Quantiser. *)
EXTENDS Quantiser

\* The exponent 2/1, and all weightings.
Square == [r \in Raw |-> r * r]
AllWeightings == {"none", "power_of", "offset_power_of"}

\* Volumes with a peak inside or at the upper end of the range: every other
\* value occurs once or not at all.
OnePeak == {h \in [Raw -> {0, 1, 4}] :
              \E p \in {1, 4} : \A r \in Raw : h[r] = 4 <=> r = p}
=============================================================================
