------------------------------- MODULE PrefixSum -------------------------------
(***************************************************************************)
(* prefix_sum and prefix_sum_of of sqeazy_algorithms.hpp: the offsets of the  *)
(* pieces of a volume whose sizes are given.  One thread adds them up in a    *)
(* loop; a team of OpenMP scans shares of the input first, leaves the sum of  *)
(* every share in suma, and adds the sums of the shares below to its own.     *)
(*                                                                         *)
(* The input is given by what is to be computed: item k is                   *)
(* wanted[k + 1] - wanted[k].                                                *)
(***************************************************************************)
EXTENDS Integers

CONSTANTS MaxPieces,      \* bound: number of items
          MaxItem,     \* bound: value of an item
          Requests,    \* what callers pass as _nthreads, resolved if it was <= 0
          MaxTeam      \* bound: threads that OpenMP may start

ASSUME PrefixSumAssumption ==
    /\ MaxPieces \in Nat \ {0} /\ MaxItem \in Nat
    /\ Requests \subseteq Nat
    /\ MaxTeam \in Nat \ {0}

VARIABLES
    len,      \* number of items
    wanted,   \* the prefix sums of the input
    request,  \* _nthreads
    nworkers,     \* omp_get_num_threads: the region has no num_threads clause
    share,    \* schedule(static): thread t has the items share[t] .. share[t + 1] - 1
    region,       \* where the caller is
    at,       \* per thread: where it is
    index,        \* per thread: the index of its loop
    acc,      \* per thread: sum, then offset
    suma,     \* the sums of the shares, shifted by one
    psum      \* the output

input == <<len, wanted, request, nworkers, share>>
psVars  == <<input, region, at, index, acc, suma, psum>>

Unset == -1
Nothing == [j \in 0 .. -1 |-> Unset]     \* suma = nullptr

Workers == 0 .. nworkers - 1
Item(i) == wanted[i + 1] - wanted[i]

\* The runtime divides l items between n threads as it likes, but in the order
\* of the threads, and in the same way for both loops.
Shares(l, n) ==
    {s \in [0 .. n -> 0 .. l] :
        /\ s[0] = 0 /\ s[n] = l
        /\ \A t, u \in 0 .. n : t <= u => s[t] <= s[u]}

PrefixSums(l) ==
    {w \in [0 .. l -> 0 .. l * MaxItem] :
        /\ w[0] = 0
        /\ \A i, j \in 0 .. l : i <= j => w[j] - w[i] \in 0 .. (j - i) * MaxItem}

PSInit ==
    /\ len \in 0 .. MaxPieces
    /\ wanted \in PrefixSums(len)
    /\ request \in Requests
    /\ nworkers \in 1 .. MaxTeam
    /\ share \in Shares(len, nworkers)
    /\ region = "call"
    /\ at = [t \in Workers |-> "single"]
    /\ index = [t \in Workers |-> 0]
    /\ acc = [t \in Workers |-> 0]
    /\ suma = Nothing
    /\ psum = [i \in 0 .. len - 1 |-> Unset]

-----------------------------------------------------------------------------
(* one thread: the calling one is thread 0 here *)

Serial == request = 1 \/ len < request

SerialStep ==
    /\ region = "call" /\ Serial
    /\ index[0] < len
    /\ psum' = [psum EXCEPT ![index[0]] = acc[0]]
    /\ acc' = [acc EXCEPT ![0] = @ + Item(index[0])]
    /\ index' = [index EXCEPT ![0] = @ + 1]
    /\ UNCHANGED <<input, region, at, suma>>

SerialReturns ==
    /\ region = "call" /\ Serial
    /\ index[0] = len
    /\ region' = "returned"
    /\ UNCHANGED <<input, at, index, acc, suma, psum>>

-----------------------------------------------------------------------------
(* a team *)

Fork ==
    /\ region = "call" /\ ~Serial
    /\ region' = "parallel"
    /\ UNCHANGED <<input, at, index, acc, suma, psum>>

\* Mutant of AllPast: nobody waits.
NobodyWaits(places) == TRUE

\* A barrier: no thread of the team is still at one of these places.
AllPast(places) == \A t \in Workers : at[t] \notin places

\* Mutant of Single: suma has as many elements as there are threads.
SingleSmall(t) ==
    /\ region = "parallel" /\ at[t] = "single"
    /\ suma' = IF suma = Nothing
                 THEN [j \in Workers |-> IF j = 0 THEN 0 ELSE Unset] ELSE suma
    /\ at' = [at EXCEPT ![t] = "scan"]
    /\ index' = [index EXCEPT ![t] = share[t]]
    /\ UNCHANGED <<input, region, acc, psum>>

\* The first thread that comes along allocates suma; all wait for it.
Single(t) ==
    /\ region = "parallel" /\ at[t] = "single"
    /\ suma' = IF suma = Nothing
                 THEN [j \in 0 .. nworkers |-> IF j = 0 THEN 0 ELSE Unset] ELSE suma
    /\ at' = [at EXCEPT ![t] = "scan"]
    /\ index' = [index EXCEPT ![t] = share[t]]
    /\ UNCHANGED <<input, region, acc, psum>>

Scan(t) ==
    /\ at[t] = "scan" /\ AllPast({"single"})
    /\ index[t] < share[t + 1]
    /\ psum' = [psum EXCEPT ![index[t]] = acc[t]]
    /\ acc' = [acc EXCEPT ![t] = @ + Item(index[t])]
    /\ index' = [index EXCEPT ![t] = @ + 1]
    /\ UNCHANGED <<input, region, at, suma>>

\* The end of the first loop is a barrier of its own.
EndScan(t) ==
    /\ at[t] = "scan" /\ AllPast({"single"})
    /\ index[t] = share[t + 1]
    /\ at' = [at EXCEPT ![t] = "store"]
    /\ UNCHANGED <<input, region, index, acc, suma, psum>>

\* Mutant of Store: every thread stores its sum where it will read it.
StoreOwn(t) ==
    /\ at[t] = "store" /\ AllPast({"single", "scan"})
    /\ suma' = [suma EXCEPT ![t] = acc[t]]
    /\ acc' = [acc EXCEPT ![t] = 0]
    /\ index' = [index EXCEPT ![t] = 0]
    /\ at' = [at EXCEPT ![t] = "offset"]
    /\ UNCHANGED <<input, region, psum>>

\* suma[ithread+1] = sum, in front of the explicit barrier.
Store(t) ==
    /\ at[t] = "store" /\ AllPast({"single", "scan"})
    /\ suma' = [suma EXCEPT ![t + 1] = acc[t]]
    /\ acc' = [acc EXCEPT ![t] = 0]
    /\ index' = [index EXCEPT ![t] = 0]
    /\ at' = [at EXCEPT ![t] = "offset"]
    /\ UNCHANGED <<input, region, psum>>

\* Mutant of Offset: the loop reads one and the same sum.
OffsetStuck(t) ==
    /\ at[t] = "offset" /\ AllPast({"single", "scan", "store"})
    /\ IF index[t] < t + 1
         THEN UNCHANGED <<acc, index, at>>
         ELSE /\ index' = [index EXCEPT ![t] = share[t]]
              /\ at' = [at EXCEPT ![t] = "shift"]
              /\ UNCHANGED acc
    /\ UNCHANGED <<input, region, suma, psum>>

Offset(t) ==
    /\ at[t] = "offset" /\ AllPast({"single", "scan", "store"})
    /\ IF index[t] < t + 1
         THEN /\ acc' = [acc EXCEPT ![t] = @ + suma[index[t]]]
              /\ index' = [index EXCEPT ![t] = @ + 1]
              /\ UNCHANGED at
         ELSE /\ index' = [index EXCEPT ![t] = share[t]]
              /\ at' = [at EXCEPT ![t] = "shift"]
              /\ UNCHANGED acc
    /\ UNCHANGED <<input, region, suma, psum>>

Shift(t) ==
    /\ at[t] = "shift"
    /\ IF index[t] < share[t + 1]
         THEN /\ psum' = [psum EXCEPT ![index[t]] = @ + acc[t]]
              /\ index' = [index EXCEPT ![t] = @ + 1]
              /\ UNCHANGED at
         ELSE at' = [at EXCEPT ![t] = "end"] /\ UNCHANGED <<index, psum>>
    /\ UNCHANGED <<input, region, acc, suma>>

\* The end of the region; suma is given back.
Join ==
    /\ region = "parallel"
    /\ \A t \in Workers : at[t] = "end"
    /\ region' = "returned"
    /\ suma' = Nothing
    /\ UNCHANGED <<input, at, index, acc, psum>>

Worker(t) ==
    \/ Single(t) \/ Scan(t) \/ EndScan(t) \/ Store(t) \/ Offset(t) \/ Shift(t)

Caller == SerialStep \/ SerialReturns \/ Fork \/ Join

\* The caller goes on to another volume.
NextCall ==
    /\ region = "returned"
    /\ len' \in 0 .. MaxPieces
    /\ wanted' \in PrefixSums(len')
    /\ request' = request
    /\ nworkers' \in 1 .. MaxTeam
    /\ share' \in Shares(len', nworkers')
    /\ region' = "call"
    /\ at' = [t \in 0 .. nworkers' - 1 |-> "single"]
    /\ index' = [t \in 0 .. nworkers' - 1 |-> 0]
    /\ acc' = [t \in 0 .. nworkers' - 1 |-> 0]
    /\ suma' = Nothing
    /\ psum' = [i \in 0 .. len' - 1 |-> Unset]

PSNext ==
    \/ \E t \in Workers : Worker(t)
    \/ Caller
    \/ NextCall

PSSpec ==
    /\ PSInit /\ [][PSNext]_psVars
    /\ WF_psVars(Caller)
    /\ \A t \in 0 .. MaxTeam - 1 : WF_psVars(t \in Workers /\ Worker(t))

-----------------------------------------------------------------------------
(* Properties *)

Places == {"single", "scan", "store", "offset", "shift", "end"}

TypeOK ==
    /\ len \in 0 .. MaxPieces
    /\ wanted \in [0 .. len -> Nat]
    /\ request \in Requests
    /\ nworkers \in 1 .. MaxTeam
    /\ share \in [0 .. nworkers -> 0 .. len]
    /\ region \in {"call", "parallel", "returned"}
    /\ at \in [Workers -> Places]
    /\ index \in [Workers -> Nat]
    /\ acc \in [Workers -> Int]
    /\ suma \in {Nothing} \cup [0 .. nworkers -> Int]
    /\ psum \in [0 .. len - 1 -> Int]

\* No sum of a share is used before the thread whose share it is has stored
\* it: the barriers stand where they are needed.
SumsAwaited ==
    \A t \in Workers :
        at[t] = "offset" /\ AllPast({"single", "scan", "store"}) /\ index[t] <= t =>
            suma[index[t]] # Unset

\* Whatever the number of threads OpenMP starts, how it divides the items and
\* how the threads interleave: what comes back is what one thread computes.
SameAsSerial ==
    region = "returned" => \A i \in 0 .. len - 1 : psum[i] = wanted[i]

\* No thread waits at a barrier forever.
SumReturns == region = "call" ~> region = "returned"
=============================================================================
