-------------------------- MODULE MC_ThrottleRace --------------------------
(* A small instance of the running power-cap controller: caps 1..4, the   *)
(* 50..100 W band, a window of 2 so that adjustments come often, and      *)
(* readings unavailable, below and above the band.                         *)
EXTENDS ThrottleRace

MCMinThreads == 1
MCMaxThreads == 4
MCMinWatts == 50
MCMaxWatts == 100
MCWindowSize == 2
MCPowers == {0, 30, 120}
=============================================================================
