----------------------------- MODULE CapControl -----------------------------
(***************************************************************************)
(* What every throttling controller of apex_throttling.cpp promises the    *)
(* scheduler that reads the thread cap (spec sections 3, 4.6 and 5): the   *)
(* cap starts at max_threads, stays within [min_threads, max_threads], and *)
(* once shutdown_throttling has set the final flag the controllers are     *)
(* permanent no-ops, so the cap never changes again.                       *)
(***************************************************************************)
EXTENDS Integers

CONSTANTS MinThreads, MaxThreads

VARIABLES cap, final

vars == <<cap, final>>

Init == /\ cap = MaxThreads
        /\ final = FALSE

\* A controller tick moves the cap to any value within the bounds.
Adjust == /\ ~final
          /\ cap' \in MinThreads..MaxThreads
          /\ UNCHANGED final

\* shutdown_throttling: from now on nothing moves the cap.
Shutdown == /\ final' = TRUE
            /\ UNCHANGED cap

Next == Adjust \/ Shutdown

Spec == Init /\ [][Next]_vars
=============================================================================
