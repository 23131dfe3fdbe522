------------------------------- MODULE Histogram -------------------------------
(***************************************************************************)
(* histogram<T> of hist_impl.hpp on top of encoders/histogram_utils.hpp: an   *)
(* object that counts the values of images, with one thread or with a team   *)
(* whose threads count shares of the image in copies of the bins, which are   *)
(* then added up; and the figures it derives from the bins: the range of the  *)
(* values, their sum, the mode, the median and quantiles (calc_support).      *)
(***************************************************************************)
EXTENDS Integers, FiniteSetsExt

CONSTANTS MaxValue,    \* the largest value of T
          MaxLen,      \* bound: pixels of an image
          MaxImages,   \* bound: images added before the object is cleared
          Threads,     \* what n_threads() may be, resolved if it was <= 0
          Thresholds,  \* quantiles asked for, as fractions <<p, q>> below one
          Modulus      \* of CounterT, 2^32 in the code

ASSUME HistogramAssumption ==
    /\ MaxValue \in Nat /\ MaxLen \in Nat \ {0} /\ MaxImages \in Nat \ {0}
    /\ Threads \subseteq Nat \ {0}
    /\ Modulus \in Nat \ {0}
    /\ \A th \in Thresholds : th[2] \in Nat \ {0} /\ th[1] \in 0 .. th[2] - 1

VARIABLES
    nthreads,   \* n_threads() of the object
    pc,         \* what the object is doing
    image,      \* the image at hand, a function from 0 .. len - 1
    refresh,    \* fill_from_image: the figures are derived afterwards
    bins,       \* the bins
    histo,      \* its copy of the bins, as they were when fill_histogram was called
    clones,     \* per thread: a copy of that copy
    pos,        \* per thread: the pixel it is at
    merged,     \* per bin: whether the clones were added to it
    stats,      \* the figures derived from the bins
    probe,      \* per bin: how far max_element_distance is with it
    best,       \* max_value
    found,      \* value, the index that goes with it
    answer,     \* what calc_support has returned, and the threshold asked for
    tally,      \* what has been in the images since the object was reset
    weighed,    \* the same, every earlier image as often as a team repeats it
    images,     \* how many these are
    range       \* where smallest and largest populated bin come from

object == <<nthreads, bins, stats, answer>>
given  == <<image, refresh, tally, weighed, images, range>>
team   == <<histo, clones, pos, merged>>
search == <<probe, best, found>>
vars == <<pc, object, given, team, search>>

Bin == 0 .. MaxValue
Team == 0 .. nthreads - 1
Zero == [v \in Bin |-> 0]

Images == UNION {[0 .. l - 1 -> Bin] : l \in 1 .. MaxLen}

CountOf(img) == [v \in Bin |-> Cardinality({i \in DOMAIN img : img[i] = v})]
Plus(f, g) == [v \in Bin |-> f[v] + g[v]]

\* What is in the bins after an image was added to h: one thread counts into them,
\* a team adds a copy of h per thread to what is there.
Repeats == IF nthreads = 1 THEN 1 ELSE nthreads + 1
Weighed(h, img) == [v \in Bin |-> Repeats * h[v] + CountOf(img)[v]]

Sum(f, lo, hi) == MapThenSumSet(LAMBDA v : f[v], lo .. hi)

Populated(h) == {v \in Bin : h[v] > 0}

NoStats == [small |-> 0, large |-> MaxValue, integral |-> 0, moment |-> 0,
            median |-> <<0, 1>>, mode |-> 0]
NoImage == [i \in {0} |-> 0]
NoAnswer == [th |-> <<0, 1>>, value |-> <<0, 1>>]

-----------------------------------------------------------------------------
(* The shares of the threads *)

Len == Cardinality(DOMAIN image)
ChunkSize == (Len + nthreads - 1) \div nthreads
ChunkBegin(t) == t * ChunkSize

\* Mutant of ChunkEnd: the last share is not cut off.
ChunkEndUncut(t) == ChunkBegin(t) + ChunkSize

ChunkEnd(t) ==
    IF ChunkBegin(t) + ChunkSize >= Len THEN Len ELSE ChunkBegin(t) + ChunkSize

Init ==
    /\ nthreads \in Threads
    /\ pc = "idle"
    /\ image = NoImage /\ refresh = FALSE
    /\ bins = Zero /\ stats = NoStats /\ answer = NoAnswer
    /\ histo = Zero /\ clones = [t \in Team |-> Zero]
    /\ pos = [t \in Team |-> 0]
    /\ merged = [v \in Bin |-> FALSE]
    /\ probe = [v \in Bin |-> "done"] /\ best = 0 /\ found = 0
    /\ tally = Zero /\ weighed = Zero /\ images = 0 /\ range = "all"

\* fill_histogram is called for an image, with h in the bins: every thread
\* gets a copy of them.
Count(img, h) ==
    /\ image' = img
    /\ bins' = h
    /\ pc' = "count"
    /\ histo' = h /\ clones' = [t \in Team |-> h]
    /\ pos' = [t \in Team |->
                 t * ((Cardinality(DOMAIN img) + nthreads - 1) \div nthreads)]
    /\ merged' = [v \in Bin |-> FALSE]

-----------------------------------------------------------------------------
(* Calls *)

FillFromImage ==
    /\ pc = "idle"
    /\ \E img \in Images : /\ Count(img, Zero)
                           /\ tally' = CountOf(img) /\ weighed' = CountOf(img)
    /\ refresh' = TRUE /\ images' = 1
    /\ UNCHANGED <<nthreads, stats, answer, range, search>>

AddFromImage ==
    /\ pc = "idle" /\ images < MaxImages
    /\ \E img \in Images : /\ Count(img, bins)
                           /\ tally' = Plus(tally, CountOf(img))
                           /\ weighed' = Weighed(weighed, img)
    /\ refresh' = FALSE /\ images' = images + 1
    /\ range' = IF range = "current" THEN "stale" ELSE range
    /\ UNCHANGED <<nthreads, stats, answer, search>>

FillStats ==
    /\ pc = "idle"
    /\ pc' = "stats"
    /\ UNCHANGED <<object, given, team, search>>

\* Mutant of Clear: the range of the values stays.
ClearBins ==
    /\ pc = "idle"
    /\ bins' = Zero
    /\ tally' = Zero /\ weighed' = Zero /\ images' = 0 /\ range' = "all"
    /\ UNCHANGED <<nthreads, pc, stats, answer, image, refresh, team, search>>

Clear ==
    /\ pc = "idle"
    /\ bins' = Zero /\ stats' = NoStats
    /\ tally' = Zero /\ weighed' = Zero /\ images' = 0 /\ range' = "all"
    /\ UNCHANGED <<nthreads, pc, answer, image, refresh, team, search>>

-----------------------------------------------------------------------------
(* fill_histogram *)

\* fill_histogram returns: what it has used is gone.
CountEnds ==
    /\ pc' = IF refresh THEN "stats" ELSE "idle"
    /\ image' = NoImage /\ refresh' = FALSE
    /\ histo' = Zero /\ clones' = [t \in Team |-> Zero]
    /\ pos' = [t \in Team |-> 0]
    /\ merged' = [v \in Bin |-> FALSE]
    /\ UNCHANGED <<tally, weighed, images, range>>

CountSerial ==
    /\ pc = "count" /\ nthreads = 1
    /\ bins' = Plus(bins, CountOf(image))
    /\ CountEnds
    /\ UNCHANGED <<nthreads, stats, answer, search>>

CountPixel(t) ==
    /\ pc = "count" /\ nthreads > 1
    /\ pos[t] # ChunkEnd(t) /\ pos[t] < Len
    /\ clones' = [clones EXCEPT ![t][image[pos[t]]] = @ + 1]
    /\ pos' = [pos EXCEPT ![t] = @ + 1]
    /\ UNCHANGED <<pc, object, given, histo, merged, search>>

\* A share that begins behind the end of the image never meets its end.
RunAway(t) ==
    /\ pc = "count" /\ nthreads > 1
    /\ pos[t] # ChunkEnd(t) /\ pos[t] >= Len
    /\ pc' = "crashed"
    /\ UNCHANGED <<object, given, team, search>>

Counted ==
    /\ pc = "count" /\ nthreads > 1
    /\ \A t \in Team : pos[t] = ChunkEnd(t)
    /\ pc' = "merge"
    /\ UNCHANGED <<object, given, team, search>>

\* Mutant of Merge: the first copy is left out.
MergeLess(v) ==
    /\ pc = "merge" /\ ~merged[v]
    /\ bins' = [bins EXCEPT ![v] =
                  @ + Sum([t \in Team |-> clones[t][v]], 1, nthreads - 1)]
    /\ merged' = [merged EXCEPT ![v] = TRUE]
    /\ UNCHANGED <<nthreads, pc, stats, answer, given, histo, clones, pos, search>>

\* One thread adds the copies of a bin to it: no other thread works on this bin.
Merge(v) ==
    /\ pc = "merge" /\ ~merged[v]
    /\ bins' = [bins EXCEPT ![v] =
                  @ + Sum([t \in Team |-> clones[t][v]], 0, nthreads - 1)]
    /\ merged' = [merged EXCEPT ![v] = TRUE]
    /\ UNCHANGED <<nthreads, pc, stats, answer, given, histo, clones, pos, search>>

Merged ==
    /\ pc = "merge"
    /\ \A v \in Bin : merged[v]
    /\ CountEnds
    /\ UNCHANGED <<object, search>>

-----------------------------------------------------------------------------
(* fill_stats *)

\* The first value of lo .. hi with more than p / q of all entries in lo .. hi
\* up to it (median_index, support_index); one past the end if there is none,
\* converted to T.
QuantileBin(h, lo, hi, th) ==
    LET enough == {v \in lo .. hi : Sum(h, lo, v) * th[2] > th[1] * Sum(h, lo, hi)}
    IN  (IF enough = {} THEN hi + 1 ELSE Min(enough)) % (MaxValue + 1)

\* The mean of that bin and the one before, as a fraction of two CounterT.
Quantile(h, lo, hi, th) ==
    LET m == QuantileBin(h, lo, hi, th)
    IN  IF m = 0 THEN <<0, 1>>
        ELSE <<(h[m] * m + h[m - 1] * (m - 1)) % Modulus, (h[m - 1] + h[m]) % Modulus>>

DeriveStats ==
    /\ pc = "stats"
    /\ LET small == IF bins = Zero THEN 0 ELSE Min(Populated(bins))
           large == IF bins = Zero THEN MaxValue ELSE Max(Populated(bins)) IN
       stats' = [stats EXCEPT
                   !.small = small, !.large = large,
                   !.integral = Sum(bins, 0, MaxValue),
                   !.moment = Sum([v \in Bin |-> v * bins[v]], small, large),
                   !.median = Quantile(bins, small, large, <<1, 2>>)]
    /\ range' = "current"
    /\ pc' = "mode"
    /\ probe' = [v \in Bin |-> "todo"]
    /\ best' = 0 /\ found' = MaxValue + 1
    /\ UNCHANGED <<nthreads, bins, answer, image, refresh, tally, weighed, images, team>>

ModeSerial ==
    /\ pc = "mode" /\ nthreads = 1
    /\ stats' = [stats EXCEPT !.mode =
                   Min({v \in Bin : \A w \in Bin : bins[w] <= bins[v]})]
    /\ pc' = "idle"
    /\ probe' = [v \in Bin |-> "done"] /\ best' = 0 /\ found' = 0
    /\ UNCHANGED <<nthreads, bins, answer, given, team>>

\* Mutant of Probe: bins as full as the best are taken too.
ProbeEqual(v) ==
    /\ pc = "mode" /\ nthreads > 1
    /\ probe[v] = "todo"
    /\ probe' = [probe EXCEPT ![v] = IF bins[v] >= best THEN "larger" ELSE "done"]
    /\ UNCHANGED <<pc, object, given, team, best, found>>

\* max_element_distance: a thread compares a bin with the best one so far ...
Probe(v) ==
    /\ pc = "mode" /\ nthreads > 1
    /\ probe[v] = "todo"
    /\ probe' = [probe EXCEPT ![v] = IF bins[v] > best THEN "larger" ELSE "done"]
    /\ UNCHANGED <<pc, object, given, team, best, found>>

\* ... and enters the critical section, where it does not compare again.
Take(v) ==
    /\ pc = "mode" /\ probe[v] = "larger"
    /\ probe' = [probe EXCEPT ![v] = "done"]
    /\ best' = bins[v]
    /\ found' = v
    /\ UNCHANGED <<pc, object, given, team>>

ModeFound ==
    /\ pc = "mode" /\ nthreads > 1
    /\ \A v \in Bin : probe[v] = "done"
    /\ stats' = [stats EXCEPT !.mode = found % (MaxValue + 1)]
    /\ pc' = "idle"
    /\ best' = 0 /\ found' = 0
    /\ UNCHANGED <<nthreads, bins, answer, given, team, probe>>

\* calc_support looks at the bins between smallest and largest populated bin.
CalcSupport ==
    /\ pc = "idle"
    /\ \E th \in Thresholds :
         answer' = [th |-> th, value |-> Quantile(bins, stats.small, stats.large, th)]
    /\ pc' = "answered"
    /\ UNCHANGED <<nthreads, bins, stats, given, team, search>>

Answered ==
    /\ pc = "answered"
    /\ pc' = "idle" /\ answer' = NoAnswer
    /\ UNCHANGED <<nthreads, bins, stats, given, team, search>>

\* A new process, a new object.
Restart ==
    /\ pc = "crashed"
    /\ pc' = "idle"
    /\ bins' = Zero /\ stats' = NoStats
    /\ tally' = Zero /\ weighed' = Zero /\ images' = 0 /\ range' = "all"
    /\ image' = NoImage /\ refresh' = FALSE
    /\ histo' = Zero /\ clones' = [t \in Team |-> Zero] /\ pos' = [t \in Team |-> 0]
    /\ UNCHANGED <<nthreads, answer, merged, search>>

Working ==
    \/ CountSerial \/ (\E t \in Team : CountPixel(t) \/ RunAway(t)) \/ Counted
    \/ (\E v \in Bin : Merge(v)) \/ Merged
    \/ DeriveStats \/ ModeSerial \/ (\E v \in Bin : Probe(v) \/ Take(v)) \/ ModeFound

Next ==
    \/ FillFromImage \/ AddFromImage \/ FillStats \/ Clear
    \/ CalcSupport \/ Answered
    \/ Working
    \/ Restart

Spec == Init /\ [][Next]_vars /\ WF_vars(Working)

-----------------------------------------------------------------------------
(* Properties *)

\* One thread may add any number of images, a team may fill the bins once: the
\* figures are those of the images then.
Sound == nthreads = 1 \/ images <= 1

\* Whenever filling is over, the bins hold how often each value occurred in the
\* images - each earlier image once, or nthreads + 1 times as often with every
\* image a team of parallel::fill_histogram has added since -, however the team
\* has divided the pixels and whatever order its threads ran in: no pixel is lost
\* and none taken twice.
CountsExact ==
    pc = "idle" => /\ bins = weighed
                   /\ Sound => bins = tally

\* The images added to an object count like one image of all their pixels, as
\* test_hist_impl.cpp:460 expects.  Violated by a team: its copies of the bins hold
\* the earlier images already, and all of them are added.
ImagesAdd == pc = "idle" => bins = tally

\* The figures of fill_stats fit each other and the images: the range is that of
\* the values, the sum that of the counts, mean and median lie in the range, and
\* the mode is a value that occurred, though the threads of max_element_distance
\* overwrite each other's maximum.
Summary ==
    pc = "idle" /\ range = "current" /\ images > 0 /\ Sound =>
      /\ stats.small = Min(Populated(tally))
      /\ stats.large = Max(Populated(tally))
      /\ stats.integral = Sum(tally, 0, MaxValue)
      /\ stats.small * stats.integral <= stats.moment
      /\ stats.moment <= stats.large * stats.integral
      /\ stats.median[1] <= stats.large * stats.median[2]
      /\ stats.mode \in Populated(tally)

\* calc_support returns a value between the first one at which more than the
\* threshold of all pixels is covered and the one before, whether the range of
\* the bins is that of fill_stats or, after clear, that of the type: "the value of
\* the histogram x-axis at which the cumulative PDF reaches the threshold"
\* (hist_impl.hpp:351).
SupportRight ==
    pc = "answered" /\ range # "stale" /\ images > 0 /\ Sound =>
      LET m == Min({v \in Bin : Sum(tally, 0, v) * answer.th[2]
                                  > answer.th[1] * Sum(tally, 0, MaxValue)})
          num == answer.value[1]
          den == answer.value[2]
      IN  IF m = 0 THEN num = 0 ELSE (m - 1) * den <= num /\ num <= m * den

\* The mode is the most frequent value of the image, "the offset of the largest
\* element" (histogram_utils.hpp:352). Violated: a thread compares with the largest
\* element outside the critical section only.
ModeIsMaximum ==
    pc = "idle" /\ range = "current" /\ images = 1 =>
      \A v \in Bin : tally[v] <= tally[stats.mode]

\* Filling the object ends, the figures included, as long as no share begins
\* behind the end of the image: then no thread runs away from it.
FillReturns ==
    pc = "count" /\ (\A t \in Team : ChunkBegin(t) <= Len)
      ~> pc = "idle"
=============================================================================
