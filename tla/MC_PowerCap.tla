---------------------------- MODULE MC_PowerCap ----------------------------
(* A small instance of the power-cap controller: caps 1..6, a 50..100 W    *)
(* band, the code's window of 3, and one sensor reading of each kind:     *)
(* unavailable, below the band, inside it and above it.                    *)
EXTENDS PowerCap

MCMinThreads == 1
MCMaxThreads == 6
MCMinWatts == 50
MCMaxWatts == 100
MCWindowSize == 3
MCPowers == {0, 30, 75, 120}
=============================================================================
