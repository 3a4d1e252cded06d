--------------------------- MODULE HillClimbProofs --------------------------
(***************************************************************************)
(* Proofs about the hill-climbing controller, for every value of the       *)
(* constants allowed by the assumptions of HillClimb: the type invariant,  *)
(* and that apex_throughput_throttling_dhc_policy keeps thread_cap within  *)
(* [min_threads, max_threads] whenever min_threads < max_threads, while   *)
(* with min_threads = max_threads the initial center max_threads - 1 is   *)
(* below the floor, the first tick moves the cap there, and the cap never *)
(* goes lower; that a commit picks the best stencil point; and that it    *)
(* decides on samples of its own round.                                    *)
(***************************************************************************)
EXTENDS HillClimb, TLAPS

USE ThreadsAssumption, WindowAssumption, CriterionAssumption,
    SamplesAssumption, CoordinatorAssumption

(* low_neighbor and high_neighbor of a center within the bounds are within *)
(* the bounds.                                                             *)
LEMMA NeighborsInBounds ==
    ASSUME NEW c \in MinThreads..MaxThreads
    PROVE  /\ LowNeighbor(c) \in MinThreads..MaxThreads
           /\ HighNeighbor(c) \in MinThreads..MaxThreads
BY DEF LowNeighbor, HighNeighbor

(* low_neighbor and high_neighbor of any index are array indices.          *)
LEMMA NeighborsInSlots ==
    ASSUME NEW c \in Slots
    PROVE  /\ LowNeighbor(c) \in Slots /\ HighNeighbor(c) \in Slots
BY DEF LowNeighbor, HighNeighbor, Slots

(* The commit chooses one of the three stencil points.                     *)
LEMMA BestInStencil ==
    ASSUME NEW ev, NEW c, NEW lo, NEW hi
    PROVE  Best(ev, c, lo, hi) \in {c, lo, hi}
BY DEF Best

(* The windowed moving average of naturals is a natural.                   *)
LEMMA FoldedNat ==
    ASSUME NEW e \in Nat, NEW n \in Nat \ {0}, NEW v \in Nat
    PROVE  Folded(e, n, v) \in Nat
BY DEF Folded

(* What a tick does to the search state, stated without its LETs.          *)
LEMMA TickEffect ==
    ASSUME TypeOK, Tick
    PROVE  /\ evaluations' \in [Slots -> Nat]
           /\ observations' \in [Slots -> 0..WindowSize]
           /\ LET lo == LowNeighbor(current_cap)
                  hi == HighNeighbor(current_cap)
              IN  /\ thread_cap' \in {current_cap, lo, hi,
                                      Best(evaluations', current_cap, lo, hi)}
                  /\ current_cap' \in {current_cap,
                                      Best(evaluations', current_cap, lo, hi)}
                  /\ assigned' \subseteq assigned \cup {current_cap, lo, hi}
           /\ measured' \subseteq measured \cup {thread_cap}
           /\ UNCHANGED <<final, registered, capData>>
<1>1. PICK s \in Samples[thread_cap], pre \in PreSetups :
        LET v  == IF havePrevious THEN s ELSE s + pre
            n  == observations[thread_cap] + 1
        IN  /\ evaluations' = [evaluations EXCEPT ![thread_cap] =
                                 Folded(@, n, v)]
            /\ observations' = [observations EXCEPT
                                  ![thread_cap] = IF n < WindowSize THEN n
                                                  ELSE WindowSize]
  BY DEF Tick
<1>2. /\ s \in Nat /\ pre \in Nat
      /\ observations[thread_cap] + 1 \in Nat \ {0}
      /\ evaluations[thread_cap] \in Nat
  <2>1. thread_cap \in Slots
    BY DEF TypeOK
  <2>2. s \in Nat /\ pre \in Nat
    BY <2>1
  <2>3. observations[thread_cap] \in 0..WindowSize
    BY <2>1 DEF TypeOK
  <2>4. evaluations[thread_cap] \in Nat
    BY <2>1 DEF TypeOK
  <2>5. QED
    BY <2>2, <2>3, <2>4
<1>3. evaluations' \in [Slots -> Nat]
  <2> DEFINE v == IF havePrevious THEN s ELSE s + pre
             n == observations[thread_cap] + 1
  <2>1. v \in Nat
    BY <1>2
  <2>2. Folded(evaluations[thread_cap], n, v) \in Nat
    BY <1>2, <2>1, FoldedNat
  <2>3. evaluations' = [evaluations EXCEPT ![thread_cap] =
                          Folded(evaluations[thread_cap], n, v)]
    BY <1>1
  <2>4. QED
    BY <2>2, <2>3 DEF TypeOK
<1>4. observations' \in [Slots -> 0..WindowSize]
  BY <1>1, <1>2 DEF TypeOK
<1> DEFINE lo == LowNeighbor(current_cap)
           hi == HighNeighbor(current_cap)
<1>5. thread_cap' \in {current_cap, lo, hi,
                       Best(evaluations', current_cap, lo, hi)}
  BY DEF Tick
<1>6. current_cap' \in {current_cap, Best(evaluations', current_cap, lo, hi)}
  BY DEF Tick
<1>7. assigned' \subseteq assigned \cup {current_cap, lo, hi}
  BY DEF Tick
<1>8. measured' \subseteq measured \cup {thread_cap}
  BY DEF Tick
<1>9. UNCHANGED <<final, registered, capData>>
  BY DEF Tick
<1>10. QED
  BY <1>3, <1>4, <1>5, <1>6, <1>7, <1>8, <1>9
-----------------------------------------------------------------------------
(* The type invariant holds in every reachable state: every index the      *)
(* policy uses is within 0..max_threads (the model's arrays have the slot  *)
(* one past the calloc'd block), and the evaluations stay naturals.        *)
THEOREM TypeCorrect == Spec => []TypeOK
<1>1. Init => TypeOK
  <2> SUFFICES ASSUME Init PROVE TypeOK
    OBVIOUS
  <2>1. /\ thread_cap \in Slots /\ current_cap \in Slots
        /\ evaluations \in [Slots -> Nat]
        /\ observations \in [Slots -> 0..WindowSize]
        /\ assigned \subseteq Slots /\ measured \subseteq Slots
        /\ capData \in {"unopened", "open", "closed"}
    BY DEF Init, Slots
  <2>2. /\ {got_center, got_low, got_high} \subseteq BOOLEAN
        /\ havePrevious \in BOOLEAN /\ final \in BOOLEAN
        /\ registered \in BOOLEAN /\ lostRecords \in BOOLEAN
        /\ committed \in BOOLEAN
    BY Zenon DEF Init
  <2>3. QED
    BY <2>1, <2>2 DEF TypeOK
<1>2. TypeOK /\ [Next]_vars => TypeOK'
  <2> SUFFICES ASSUME TypeOK, [Next]_vars PROVE TypeOK'
    OBVIOUS
  <2>1. CASE Setup
    <3>1. /\ evaluations' \in [Slots -> Nat]
          /\ observations' \in [Slots -> 0..WindowSize]
          /\ capData' \in {"unopened", "open", "closed"}
      BY <2>1 DEF Setup, TypeOK
    <3>2. QED
      BY <2>1, <3>1, Zenon DEF Setup, TypeOK
  <2>2. CASE Tick
    <3> DEFINE lo == LowNeighbor(current_cap)
               hi == HighNeighbor(current_cap)
               b  == Best(evaluations', current_cap, lo, hi)
    <3>1. lo \in Slots /\ hi \in Slots /\ b \in {current_cap, lo, hi}
      BY NeighborsInSlots, BestInStencil DEF TypeOK
    <3>2. /\ thread_cap' \in Slots /\ current_cap' \in Slots
          /\ evaluations' \in [Slots -> Nat]
          /\ observations' \in [Slots -> 0..WindowSize]
          /\ assigned' \subseteq Slots /\ measured' \subseteq Slots
          /\ capData' \in {"unopened", "open", "closed"}
      BY <2>2, <3>1, TickEffect DEF TypeOK
    <3>3. /\ {got_center', got_low', got_high'} \subseteq BOOLEAN
          /\ havePrevious' \in BOOLEAN /\ final' \in BOOLEAN
          /\ registered' \in BOOLEAN /\ lostRecords' \in BOOLEAN
          /\ committed' \in BOOLEAN
      BY <2>2, Zenon DEF Tick, ClearedLow, TypeOK
    <3>4. QED
      BY <3>2, <3>3 DEF TypeOK
  <2>3. CASE Shutdown
    BY <2>3, Zenon DEF Shutdown, TypeOK
  <2>4. CASE UNCHANGED vars
    BY <2>4, Zenon DEF vars, TypeOK
  <2>5. QED
    BY <2>1, <2>2, <2>3, <2>4 DEF Next
<1>3. QED
  BY <1>1, <1>2, PTL DEF Spec

-----------------------------------------------------------------------------
(* The lowest cap the search can reach: min_threads, except when          *)
(* min_threads = max_threads, where the initial center max_threads - 1    *)
(* (l.285) is one below it.                                                *)
Floor == IF MinThreads < MaxThreads THEN MinThreads ELSE MaxThreads - 1

(* low_neighbor and high_neighbor of a center within Floor..max_threads   *)
(* are within it.                                                          *)
LEMMA NeighborsAboveFloor ==
    ASSUME NEW c \in Floor..MaxThreads
    PROVE  /\ LowNeighbor(c) \in Floor..MaxThreads
           /\ HighNeighbor(c) \in Floor..MaxThreads
BY DEF Floor, LowNeighbor, HighNeighbor

(* The bound on the cap together with the bound on the stencil's center,  *)
(* from which every cap a tick sets is taken.                              *)
Bounded == /\ thread_cap \in Floor..MaxThreads
           /\ current_cap \in Floor..MaxThreads

(* Spec section 3 asks min_threads <= thread_cap <= max_threads in every  *)
(* reachable state.  __read_common_variables accepts any min and max, and *)
(* for every min_threads <= max_threads the dhc policy keeps the bound     *)
(* when min_threads < max_threads; when they are equal the cap can also be *)
(* max_threads - 1, below the floor, and nothing lower.  CapInBounds is    *)
(* not inductive: a tick sets the cap to the center, a neighbour of it or *)
(* the best of those, so the center must be bounded too.                   *)
THEOREM CapBounded ==
    Spec => [](IF MinThreads < MaxThreads
                 THEN CapInBounds
                 ELSE thread_cap \in {MaxThreads - 1, MaxThreads})
<1>1. Init => Bounded
  BY DEF Init, Bounded, Floor
<1>2. TypeOK /\ Bounded /\ [Next]_vars => Bounded'
  <2> SUFFICES ASSUME TypeOK, Bounded, [Next]_vars PROVE Bounded'
    OBVIOUS
  <2>1. CASE Tick
    <3> DEFINE lo == LowNeighbor(current_cap)
               hi == HighNeighbor(current_cap)
               b  == Best(evaluations', current_cap, lo, hi)
    <3>1. /\ lo \in Floor..MaxThreads
          /\ hi \in Floor..MaxThreads
          /\ b \in {current_cap, lo, hi}
      BY NeighborsAboveFloor, BestInStencil DEF Bounded
    <3>2. /\ thread_cap' \in {current_cap, lo, hi, b}
          /\ current_cap' \in {current_cap, b}
      BY <2>1, TickEffect
    <3>3. QED
      BY <3>1, <3>2 DEF Bounded
  <2>2. CASE Setup \/ Shutdown \/ UNCHANGED vars
    BY <2>2 DEF Setup, Shutdown, vars, Bounded
  <2>3. QED
    BY <2>1, <2>2 DEF Next
<1>3. Bounded => IF MinThreads < MaxThreads
                   THEN CapInBounds
                   ELSE thread_cap \in {MaxThreads - 1, MaxThreads}
  BY DEF Bounded, Floor, CapInBounds
<1>4. QED
  BY <1>1, <1>2, <1>3, TypeCorrect, PTL DEF Spec

-----------------------------------------------------------------------------
(* The choice of best scores at least as well as each stencil point: at    *)
(* least as high when maximizing, at least as low when minimizing.  This   *)
(* rests on the order of the comparisons: high is compared with the best *)
(* so far, not with the center.                                            *)
LEMMA BestIsBest ==
    ASSUME NEW ev \in [Slots -> Nat],
           NEW c \in Slots, NEW lo \in Slots, NEW hi \in Slots
    PROVE  \A x \in {c, lo, hi} :
             IF Maximizing THEN ev[x] <= ev[Best(ev, c, lo, hi)]
                           ELSE ev[x] >= ev[Best(ev, c, lo, hi)]
<1>1. CASE Maximizing
  BY <1>1 DEF Best
<1>2. CASE ~Maximizing
  BY <1>2 DEF Best
<1>3. QED
  BY <1>1, <1>2

(* A tick that commits: all three probe flags were set or are set by this *)
(* tick's sample, the center moves to the best point, and the flags and   *)
(* the round's history are cleared.                                        *)
LEMMA TickCommit ==
    ASSUME TypeOK, Tick, committed'
    PROVE  LET lo == LowNeighbor(current_cap)
               hi == HighNeighbor(current_cap)
           IN  /\ current_cap' = Best(evaluations', current_cap, lo, hi)
               /\ got_center \/ thread_cap = current_cap
               /\ got_low \/ thread_cap = lo
               /\ got_high \/ thread_cap = hi
               /\ ~got_center' /\ ~got_low' /\ ~got_high'
               /\ measured' = {}
BY DEF Tick, ClearedLow

(* A tick that does not commit: the center stays, each flag is raised when *)
(* the sample was taken at its point, and the sampled cap is recorded.     *)
LEMMA TickProbe ==
    ASSUME TypeOK, Tick, ~committed'
    PROVE  LET lo == LowNeighbor(current_cap)
               hi == HighNeighbor(current_cap)
           IN  /\ current_cap' = current_cap
               /\ got_center' = (got_center \/ thread_cap = current_cap)
               /\ got_low' = (got_low \/ thread_cap = lo)
               /\ got_high' = (got_high \/ thread_cap = hi)
               /\ measured' = measured \cup {thread_cap}
BY DEF Tick

(* Spec section 8: a commit moves the center to the stencil point with the *)
(* best evaluation, for every landscape, bound and criterion: no point of  *)
(* the stencil scores strictly better than the one committed to.           *)
THEOREM CommitsBest == Spec => CommitPicksBest
<1> DEFINE Better(x) == IF Maximizing
                          THEN evaluations'[x] <= evaluations'[current_cap']
                          ELSE evaluations'[x] >= evaluations'[current_cap']
<1>1. ASSUME TypeOK, Next, committed'
      PROVE  \A x \in Stencil(current_cap) : Better(x)
  <2>0. /\ current_cap \in Slots
        /\ LowNeighbor(current_cap) \in Slots
        /\ HighNeighbor(current_cap) \in Slots
    BY <1>1, NeighborsInSlots DEF TypeOK
  <2>1. CASE Tick
    <3>1. evaluations' \in [Slots -> Nat]
      BY <1>1, <2>1, TickEffect
    <3>2. current_cap' = Best(evaluations', current_cap,
                              LowNeighbor(current_cap),
                              HighNeighbor(current_cap))
      BY <1>1, <2>1, TickCommit
    <3>3. QED
      BY <2>0, <3>1, <3>2, BestIsBest DEF Stencil
  <2>2. CASE Setup
    <3>1. evaluations' = [c \in Slots |-> 0] /\ current_cap' = current_cap
      BY <2>2 DEF Setup
    <3>2. QED
      BY <2>0, <3>1 DEF Stencil
  <2>3. CASE Shutdown
    BY <1>1, <2>3 DEF Shutdown
  <2>4. QED
    BY <1>1, <2>1, <2>2, <2>3 DEF Next
<1>2. TypeOK /\ [Next]_vars =>
        [committed' => \A x \in Stencil(current_cap) : Better(x)]_vars
  BY <1>1
<1>3. QED
  BY <1>2, TypeCorrect, PTL DEF Spec, CommitPicksBest

-----------------------------------------------------------------------------
(* A raised probe flag means its stencil point was sampled in this round, *)
(* and a commit is only ever the last step of a registered policy, so     *)
(* setup never follows one.                                                *)
FlagsMeasured ==
    /\ got_center => current_cap \in measured
    /\ got_low => LowNeighbor(current_cap) \in measured
    /\ got_high => HighNeighbor(current_cap) \in measured
    /\ committed => registered

LEMMA FlagsMeasuredInductive == Spec => [](TypeOK /\ FlagsMeasured)
<1>1. Init => FlagsMeasured
  BY DEF Init, FlagsMeasured
<1>2. TypeOK /\ FlagsMeasured /\ [Next]_vars => FlagsMeasured'
  <2> SUFFICES ASSUME TypeOK, FlagsMeasured, [Next]_vars
               PROVE  FlagsMeasured'
    OBVIOUS
  <2>1. CASE Tick /\ committed'
    BY <2>1, TickCommit DEF FlagsMeasured, Tick
  <2>2. CASE Tick /\ ~committed'
    BY <2>2, TickProbe DEF FlagsMeasured, Tick
  <2>3. CASE Setup \/ Shutdown \/ UNCHANGED vars
    BY <2>3 DEF Setup, Shutdown, vars, FlagsMeasured
  <2>4. QED
    BY <2>1, <2>2, <2>3 DEF Next
<1>3. QED
  BY <1>1, <1>2, TypeCorrect, PTL DEF Spec

(* A commit of the dhc policy decides on evidence from its own round: each *)
(* point of the stencil was sampled since the previous commit or by the   *)
(* committing tick, because the probe flags are cleared with the round's  *)
(* history at every commit.                                                *)
THEOREM RoundMeasured == Spec => RoundMeasuresStencil
<1>1. ASSUME TypeOK, FlagsMeasured, Next, committed'
      PROVE  Stencil(current_cap) \subseteq measured \cup {thread_cap}
  <2>1. CASE Tick
    BY <1>1, <2>1, TickCommit DEF FlagsMeasured, Stencil
  <2>2. CASE Setup
    <3>1. committed /\ ~registered
      BY <1>1, <2>2 DEF Setup
    <3>2. QED
      BY <1>1, <3>1 DEF FlagsMeasured
  <2>3. CASE Shutdown
    BY <1>1, <2>3 DEF Shutdown
  <2>4. QED
    BY <1>1, <2>1, <2>2, <2>3 DEF Next
<1>2. TypeOK /\ FlagsMeasured /\ [Next]_vars =>
        [committed' => Stencil(current_cap) \subseteq measured \cup {thread_cap}]_vars
  BY <1>1
<1>3. QED
  BY <1>2, FlagsMeasuredInductive, PTL DEF Spec, RoundMeasuresStencil

=============================================================================
