---------------------------- MODULE MC_HillClimb ---------------------------
(* A small instance of the hill-climbing controller: caps 1..4, the code's *)
(* window of 3, interval samples 0..2 at every cap, pre-setup counts of    *)
(* 0, 2 or 4 folded into the first sample, on the coordinator.            *)
EXTENDS HillClimb, TLC

MCMinThreads == 1
MCMaxThreads == 4
MCWindowSize == 3
MCSamples == [c \in 0..MCMaxThreads |-> 0..2]
MCPreSetups == {0, 2, 4}

\* A fixed landscape on caps 1..6 for a minimizing search, with local
\* minima at 1, 3 and 6.  Its values are ten apart, so that the integer
\* average (less than the window of 3 below the double one) orders caps as
\* the double average does; a pre-setup count of 0 or 100 inflates the first sample.
MCStaticSamples ==
    (0 :> {0}) @@ (1 :> {10}) @@ (2 :> {30}) @@ (3 :> {10}) @@ (4 :> {20})
        @@ (5 :> {40}) @@ (6 :> {10})
MCStaticPreSetups == {0, 100}
=============================================================================
