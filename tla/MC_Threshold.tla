---------------------------- MODULE MC_Threshold ---------------------------
(* A small instance of the threshold controller: caps 1..5, the code's     *)
(* MAX_WINDOW_SIZE of 3, calls lasting 1 or 2 time units, and up to 3      *)
(* calls per profile, so that windows with 0, 1, 2 and 3 calls and the    *)
(* 5% bands on both sides of the history all occur.                        *)
EXTENDS Threshold

MCMinThreads == 1
MCMaxThreads == 5
MCWindowSize == 3
MCDurations == {1, 2}
MCMaxCalls == 3
=============================================================================
