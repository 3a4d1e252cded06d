------------------------------ MODULE HillClimb -----------------------------
(***************************************************************************)
(* The discrete hill-climbing throughput controller of                     *)
(* src/apex/apex_throttling.cpp: the periodic policy                        *)
(* apex_throughput_throttling_dhc_policy with its function-static search  *)
(* state, __common_setup_timer_throttling that allocates the evaluations  *)
(* and observations arrays and registers the policy, and                   *)
(* __shutdown_throttling.                                                  *)
(*                                                                         *)
(* Data abstraction.  The profile of the function of interest is seen      *)
(* through the value a tick computes from it, new_value = metric -         *)
(* previous_value: Samples[c] is the set of values one timer interval run  *)
(* with cap c can yield, and the first tick, whose previous_value is still *)
(* 0.0, also counts what the metric held before throttling was set up, a  *)
(* value of PreSetups.  The double evaluations are integers rounded down *)
(* by the moving average formula; the rounding errors decay by the same   *)
(* factor as old samples, so an evaluation stays less than window_size    *)
(* below the double one.  observations[c] is kept up to window_size,      *)
(* beyond which the formula no longer tells counts apart.  A tick that    *)
(* finds no profile returns APEX_ERROR having changed nothing: a          *)
(* stuttering step.                                                        *)
(* The arrays are indexed 0..max_threads: index max_threads is the slot    *)
(* one past the calloc'd block, modelled as if it kept what is written.    *)
(***************************************************************************)
EXTENDS Integers

CONSTANTS
    MinThreads,    \* min_threads
    MaxThreads,    \* max_threads
    WindowSize,    \* window_size
    Criterion,     \* throttling_criteria
    Samples,       \* Samples[c]: new_value of an interval run with cap c
    PreSetups,     \* what the metric may hold before the first tick
    IsCoordinator  \* apex::instance()->get_node_id() == 0

Criteria == {"MAXIMIZE_THROUGHPUT", "MAXIMIZE_ACCUMULATED",
             "MINIMIZE_ACCUMULATED"}

\* Every index the arrays can be accessed at.
Slots == 0..MaxThreads

ASSUME ThreadsAssumption ==
    /\ MinThreads \in Nat /\ MaxThreads \in Nat \ {0}
    /\ MinThreads <= MaxThreads
ASSUME WindowAssumption == WindowSize \in Nat \ {0}
ASSUME CriterionAssumption == Criterion \in Criteria
ASSUME SamplesAssumption ==
    /\ Samples \in [Slots -> SUBSET Nat]
    /\ \A c \in Slots : Samples[c] # {}
    /\ PreSetups \subseteq Nat /\ PreSetups # {}
ASSUME CoordinatorAssumption == IsCoordinator \in BOOLEAN

VARIABLES
    thread_cap,    \* int thread_cap
    current_cap,   \* static int current_cap, the stencil's center
    got_center,    \* static bool got_center
    got_low,       \* static bool got_low
    got_high,      \* static bool got_high
    evaluations,   \* double *evaluations
    observations,  \* int *observations
    havePrevious,  \* static previous_value has been set from a profile
    final,         \* bool apex_final
    registered,    \* the periodic policy has been registered
    capData,       \* ofstream cap_data: "unopened", "open" or "closed"
    lostRecords,   \* a round record was written to a closed cap_data
    assigned,      \* history: caps the search set since the last commit
    measured,      \* history: caps sampled since the last commit
    committed      \* history: the last step committed a round

vars == <<thread_cap, current_cap, got_center, got_low, got_high, evaluations,
          observations, havePrevious, final, registered, capData, lostRecords,
          assigned, measured, committed>>

Maximizing == Criterion \in {"MAXIMIZE_THROUGHPUT", "MAXIMIZE_ACCUMULATED"}

-----------------------------------------------------------------------------
(* Fault-injection variants of the definitions below, each the way a      *)
(* plausible slip in the C++ would change it.                              *)

\* The high neighbour compared with the center instead of with the best
\* so far: "evaluations[high_neighbor] > evaluations[current_cap]".
BestAgainstCenter(ev, c, lo, hi) ==
    LET better(x, y) == IF Maximizing THEN ev[x] > ev[y] ELSE ev[x] < ev[y]
        b1 == IF better(lo, c) THEN lo ELSE c
    IN IF better(hi, c) THEN hi ELSE b1

\* high_neighbor without the min(..., max_threads) clamp.
HighNeighborUnclamped(c) == c + 1

\* low_neighbor without the max(..., min_threads) clamp.
LowNeighborUnclamped(c) == c - 1

\* The minimizing branch written with ">" as in the maximizing one:
\* "evaluations[low_neighbor] > evaluations[current_cap]" under
\* APEX_MINIMIZE_ACCUMULATED.
BestMinimizingUpward(ev, c, lo, hi) ==
    LET better(x, y) == ev[x] > ev[y]
        b1 == IF better(lo, c) THEN lo ELSE c
    IN IF better(hi, b1) THEN hi ELSE b1

\* The commit forgetting to clear got_low.
ClearedLowKept(gl) == gl

-----------------------------------------------------------------------------
\* low_neighbor = max(current_cap - 1, min_threads)
LowNeighbor(c) == IF c - 1 > MinThreads THEN c - 1 ELSE MinThreads

\* high_neighbor = min(current_cap + 1, max_threads)
HighNeighbor(c) == IF c + 1 < MaxThreads THEN c + 1 ELSE MaxThreads

(* The windowed moving average folded into evaluations[thread_cap] after   *)
(* ++observations[thread_cap] gave the count n.                            *)
Folded(e, n, v) ==
    IF n < WindowSize THEN (e * (n - 1) + v) \div n
                      ELSE (e * (WindowSize - 1) + v) \div WindowSize

(* The choice of best: start at the center, take low if strictly better,   *)
(* then high if strictly better than the best so far.                      *)
Best(ev, c, lo, hi) ==
    LET better(x, y) == IF Maximizing THEN ev[x] > ev[y] ELSE ev[x] < ev[y]
        b1 == IF better(lo, c) THEN lo ELSE c
    IN IF better(hi, b1) THEN hi ELSE b1

\* "got_low = false;" at the commit.
ClearedLow(gl) == FALSE

-----------------------------------------------------------------------------
Init ==
    /\ thread_cap = MaxThreads
    /\ current_cap = MaxThreads - 1
    /\ got_center = FALSE
    /\ got_low = FALSE
    /\ got_high = FALSE
    /\ evaluations = [c \in Slots |-> 0]
    /\ observations = [c \in Slots |-> 0]
    /\ havePrevious = FALSE
    /\ final = FALSE
    /\ registered = FALSE
    /\ capData = "unopened"
    /\ lostRecords = FALSE
    /\ assigned = {}
    /\ measured = {}
    /\ committed = FALSE

(* __common_setup_timer_throttling with APEX_THROTTLING set: calloc the    *)
(* two arrays, open cap_data.dat on the coordinator, register the policy. *)
Setup ==
    /\ ~registered
    /\ registered' = TRUE
    /\ evaluations' = [c \in Slots |-> 0]
    /\ observations' = [c \in Slots |-> 0]
    /\ capData' = IF IsCoordinator THEN "open" ELSE capData
    /\ UNCHANGED <<thread_cap, current_cap, got_center, got_low, got_high,
                   havePrevious, final, lostRecords, assigned, measured,
                   committed>>

(* One firing of apex_throughput_throttling_dhc_policy that finds a        *)
(* profile.  There is no apex_final test.  The sample is folded in at the *)
(* current cap, the probe flags are set, and then either one unprobed     *)
(* stencil point becomes the cap or, all three probed, the round commits  *)
(* to the best one and (on the coordinator) writes its record.            *)
Tick ==
    /\ registered
    /\ \E s \in Samples[thread_cap], pre \in PreSetups :
        LET tc  == thread_cap
            lo  == LowNeighbor(current_cap)
            hi  == HighNeighbor(current_cap)
            v   == IF havePrevious THEN s ELSE s + pre
            n   == observations[tc] + 1
            ev  == [evaluations EXCEPT ![tc] = Folded(@, n, v)]
            gc  == got_center \/ tc = current_cap
            gl  == got_low \/ tc = lo
            gh  == got_high \/ tc = hi
            b   == Best(ev, current_cap, lo, hi)
        IN /\ evaluations' = ev
           /\ observations' = [observations EXCEPT
                                 ![tc] = IF n < WindowSize THEN n
                                                           ELSE WindowSize]
           /\ havePrevious' = TRUE
           /\ IF ~gc \/ ~gl \/ ~gh
                THEN LET next == IF ~gc THEN current_cap
                                 ELSE IF ~gl THEN lo ELSE hi
                     IN /\ thread_cap' = next
                        /\ got_center' = gc
                        /\ got_low' = gl
                        /\ got_high' = gh
                        /\ assigned' = assigned \cup {next}
                        /\ measured' = measured \cup {tc}
                        /\ committed' = FALSE
                        /\ UNCHANGED <<current_cap, lostRecords>>
                ELSE /\ thread_cap' = b
                     /\ current_cap' = b
                     /\ got_center' = FALSE
                     /\ got_low' = ClearedLow(gl)
                     /\ got_high' = FALSE
                     /\ lostRecords' = (lostRecords \/
                                        (IsCoordinator /\ capData # "open"))
                     /\ assigned' = {}
                     /\ measured' = {}
                     /\ committed' = TRUE
    /\ UNCHANGED <<final, registered, capData>>

(* __shutdown_throttling: set apex_final and, on the coordinator, close    *)
(* cap_data (closing an unopened or closed stream only sets failbit).      *)
Shutdown ==
    /\ final' = TRUE
    /\ capData' = IF IsCoordinator THEN "closed" ELSE capData
    /\ committed' = FALSE
    /\ UNCHANGED <<thread_cap, current_cap, got_center, got_low, got_high,
                   evaluations, observations, havePrevious, registered,
                   lostRecords, assigned, measured>>

Next == Setup \/ Tick \/ Shutdown

(* The timer thread keeps firing the registered policy. *)
Spec == Init /\ [][Next]_vars /\ WF_vars(Tick)

-----------------------------------------------------------------------------
TypeOK ==
    /\ thread_cap \in Slots
    /\ current_cap \in Slots
    /\ {got_center, got_low, got_high} \subseteq BOOLEAN
    /\ evaluations \in [Slots -> Nat]
    /\ observations \in [Slots -> 0..WindowSize]
    /\ havePrevious \in BOOLEAN
    /\ final \in BOOLEAN
    /\ registered \in BOOLEAN
    /\ capData \in {"unopened", "open", "closed"}
    /\ lostRecords \in BOOLEAN
    /\ assigned \subseteq Slots
    /\ measured \subseteq Slots
    /\ committed \in BOOLEAN

(* The three points of the current stencil. *)
Stencil(c) == {c, LowNeighbor(c), HighNeighbor(c)}

(* Spec section 3: min_threads <= thread_cap <= max_threads at all times. *)
CapInBounds == MinThreads <= thread_cap /\ thread_cap <= MaxThreads

(* Spec section 3: evaluations/observations are sized to max_threads, so   *)
(* every index a tick of the registered policy uses, thread_cap, is below *)
(* max_threads.                                                            *)
IndexInBounds == registered => thread_cap < MaxThreads

(* A commit moves to the stencil point with the best evaluation: no point *)
(* of the stencil the round measured scores strictly better (higher when  *)
(* maximizing, lower when minimizing) than the one committed to.          *)
CommitPicksBest ==
    [][committed' =>
        \A x \in Stencil(current_cap) :
            IF Maximizing THEN evaluations'[x] <= evaluations'[current_cap']
                          ELSE evaluations'[x] >= evaluations'[current_cap']
      ]_vars

(* A commit decides on evidence from its own round: each point of the     *)
(* stencil was sampled, as thread_cap, by a tick since the previous commit *)
(* or by the committing tick itself, so no evaluation it compares is left  *)
(* over from an earlier round only.                                        *)
RoundMeasuresStencil ==
    [][committed' => Stencil(current_cap) \subseteq measured \cup {thread_cap}]_vars

(* On a fixed performance landscape, where an interval run with cap c     *)
(* always yields the same sample, the search settles: once the policy is   *)
(* registered, the center eventually stays at a cap no neighbour of which *)
(* scores strictly better (lower, when minimizing).  The inflated first   *)
(* sample at the initial cap max_threads may change which local optimum   *)
(* is reached, but not that one is.                                        *)
StaticLandscape == \A c \in Slots : \E v \in Samples[c] : Samples[c] = {v}
Score(c) == CHOOSE v \in Samples[c] : TRUE
LocallyBest ==
    {c \in MinThreads..MaxThreads :
        \A x \in Stencil(c) : IF Maximizing THEN Score(x) <= Score(c)
                                           ELSE Score(x) >= Score(c)}
SearchSettles ==
    (StaticLandscape /\ <>registered) => <>[](current_cap \in LocallyBest)

(* Spec section 4.6: after shutdown_throttling, every controller is a     *)
(* permanent no-op: the policy implements CapControl.                      *)
Abstract == INSTANCE CapControl WITH cap <- thread_cap
ImplementsCapControl == Abstract!Spec
=============================================================================
