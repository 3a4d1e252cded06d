-------------------------- MODULE ThresholdProofs ---------------------------
(***************************************************************************)
(* Proofs about the threshold throughput controller, for every value of   *)
(* the constants allowed by the assumptions of Threshold: the type         *)
(* invariant, and that apex_throughput_throttling_policy keeps thread_cap *)
(* within [min_threads, max_threads] through its gradual steps.            *)
(***************************************************************************)
EXTENDS Threshold, TLAPS

USE ThreadsAssumption, WindowAssumption, CriterionAssumption,
    ProfileAssumption

(* __decrease_cap_gradual maps a cap within the bounds into the bounds.    *)
LEMMA DecreasedGradualInBounds ==
    ASSUME NEW c \in MinThreads..MaxThreads
    PROVE  DecreasedGradual(c) \in MinThreads..MaxThreads
BY DEF DecreasedGradual

(* __increase_cap_gradual maps a cap within the bounds into the bounds.    *)
LEMMA IncreasedGradualInBounds ==
    ASSUME NEW c \in MinThreads..MaxThreads
    PROVE  IncreasedGradual(c) \in MinThreads..MaxThreads
BY DEF IncreasedGradual

(* A decision tick leaves the cap alone or takes one gradual step, and     *)
(* saves a profile of the store (or keeps the history) as the history.     *)
LEMMA DecideEffect ==
    ASSUME TickDecide
    PROVE  /\ thread_cap' \in {thread_cap, DecreasedGradual(thread_cap),
                               IncreasedGradual(thread_cap)}
           /\ throttleOn' \in {TRUE, FALSE, throttleOn}
           /\ last_action' \in {"DECREASE", "INCREASE", "BASELINE",
                                last_action}
           /\ history' \in {profile, history}
           /\ baseline' \in {profile, baseline}
           /\ profile # NoProfile
           /\ throughput_delay' = WindowSize /\ sinceDecision' = 0
           /\ UNCHANGED <<profile, crashed>>
BY DEF TickDecide, Rearmed, Decides

-----------------------------------------------------------------------------
(* Init establishes the type invariant.                                  *)
LEMMA TypeInit == Init => TypeOK
<1> SUFFICES ASSUME Init PROVE TypeOK
  OBVIOUS
<1>1. /\ thread_cap \in Int /\ throughput_delay \in 0..WindowSize
      /\ baseline \in Profiles /\ history \in Profiles
      /\ profile \in Profiles \cup {NoProfile}
      /\ sinceDecision \in 0..(WindowSize + 1)
  BY DEF Init, Profiles
<1>2. /\ throttleOn \in BOOLEAN /\ crashed \in BOOLEAN
      /\ last_action \in Actions
  BY Zenon DEF Init, Actions
<1>3. QED
  BY <1>1, <1>2 DEF TypeOK

(* Every step keeps the types.                                           *)
LEMMA TypeStep == TypeOK /\ [Next]_vars => TypeOK'
<1> SUFFICES ASSUME TypeOK, [Next]_vars PROVE TypeOK'
  OBVIOUS
<1>1. CASE Run
  <2>1. PICK d \in Durations :
          profile' = IF profile = NoProfile
                       THEN [calls |-> 1, accumulated |-> d]
                       ELSE [calls |-> profile.calls + 1,
                             accumulated |-> profile.accumulated + d]
    BY <1>1 DEF Run
  <2>2. profile = NoProfile \/ profile.calls < MaxCalls
    BY <1>1 DEF Run
  <2>3. profile' \in Profiles
    BY <2>1, <2>2 DEF TypeOK, Profiles, NoProfile
  <2>4. QED
    BY <1>1, <2>3, Zenon DEF Run, TypeOK
<1>2. CASE TickWait
  <2>1. throughput_delay' \in 0..WindowSize
        /\ sinceDecision' \in 0..(WindowSize + 1)
    BY <1>2 DEF TickWait, TypeOK, Counted
  <2>2. QED
    BY <1>2, <2>1, Zenon DEF TickWait, TypeOK
<1>3. CASE TickReset
  <2>1. /\ throughput_delay' \in 0..WindowSize
        /\ sinceDecision' \in 0..(WindowSize + 1)
        /\ profile' \in Profiles \cup {NoProfile}
    BY <1>3 DEF TickReset, TypeOK, Counted, Profiles
  <2>2. QED
    BY <1>3, <2>1, Zenon DEF TickReset, TypeOK
<1>4. CASE TickNoProfile
  BY <1>4, Zenon DEF TickNoProfile, TypeOK
<1>5. CASE TickDecide
  <2>1. profile \in Profiles
    BY <1>5, DecideEffect DEF TypeOK
  <2>2. /\ thread_cap' \in Int
        /\ throughput_delay' \in 0..WindowSize
        /\ sinceDecision' \in 0..(WindowSize + 1)
    BY <1>5, DecideEffect DEF TypeOK, DecreasedGradual, IncreasedGradual
  <2>3. /\ history' \in Profiles /\ baseline' \in Profiles
        /\ profile' \in Profiles \cup {NoProfile}
    BY <1>5, <2>1, DecideEffect DEF TypeOK
  <2>4. /\ throttleOn' \in BOOLEAN /\ crashed' \in BOOLEAN
        /\ last_action' \in Actions
    BY <1>5, DecideEffect, Zenon DEF TypeOK, Actions
  <2>5. QED
    BY <2>2, <2>3, <2>4 DEF TypeOK
<1>6. CASE UNCHANGED vars
  BY <1>6, Zenon DEF vars, TypeOK
<1>7. QED
  BY <1>1, <1>2, <1>3, <1>4, <1>5, <1>6 DEF Next

(* The type invariant holds in every reachable state: throughput_delay    *)
(* stays within 0..MAX_WINDOW_SIZE across wait, reset and decision ticks, *)
(* and the saved baseline and history are always profiles of the store.   *)
THEOREM TypeCorrect == Spec => []TypeOK
BY TypeInit, TypeStep, PTL DEF Spec

-----------------------------------------------------------------------------
(* Spec section 3: in every reachable state min_threads <= thread_cap <=   *)
(* max_threads.  Inductive with the type invariant: only a decision tick   *)
(* moves the cap, by one clamped gradual step.                             *)
THEOREM CapBounded == Spec => []CapInBounds
<1>1. Init => CapInBounds
  BY DEF Init, CapInBounds
<1>2. TypeOK /\ CapInBounds /\ [Next]_vars => CapInBounds'
  <2> SUFFICES ASSUME TypeOK, CapInBounds, [Next]_vars PROVE CapInBounds'
    OBVIOUS
  <2>0. thread_cap \in MinThreads..MaxThreads
    BY DEF TypeOK, CapInBounds
  <2>1. CASE TickDecide
    BY <2>0, <2>1, DecideEffect, DecreasedGradualInBounds,
       IncreasedGradualInBounds DEF CapInBounds
  <2>2. CASE ~TickDecide
    <3>1. thread_cap' = thread_cap
      BY <2>2 DEF Next, vars, Run, TickWait, TickReset, TickNoProfile
    <3>2. QED
      BY <3>1 DEF CapInBounds
  <2>3. QED
    BY <2>1, <2>2
<1>3. QED
  BY <1>1, <1>2, TypeCorrect, PTL DEF Spec

-----------------------------------------------------------------------------
(* The ticks since the last decision and throughput_delay always add up to *)
(* the window: each waiting or resetting tick moves one unit from the      *)
(* delay to the count, and a decision rearms one and zeroes the other.     *)
StaggerInv == TypeOK /\ sinceDecision + throughput_delay = WindowSize

LEMMA StaggerInvInductive == Spec => []StaggerInv
<1>1. Init => StaggerInv
  BY TypeInit DEF Init, StaggerInv
<1>2. StaggerInv /\ [Next]_vars => StaggerInv'
  <2> SUFFICES ASSUME StaggerInv, [Next]_vars PROVE StaggerInv'
    OBVIOUS
  <2>0. /\ throughput_delay \in 0..WindowSize
        /\ sinceDecision \in 0..(WindowSize + 1)
    BY DEF StaggerInv, TypeOK
  <2>1. TypeOK'
    BY TypeStep DEF StaggerInv
  <2>2. CASE TickWait \/ TickReset
    <3>1. throughput_delay - 1 >= 0 /\ throughput_delay' = throughput_delay - 1
      <4>1. CASE TickWait
        BY <2>0, <4>1 DEF TickWait
      <4>2. CASE TickReset
        BY <2>0, <4>2 DEF TickReset
      <4>3. QED
        BY <2>2, <4>1, <4>2
    <3>2. sinceDecision < WindowSize + 1
      BY <2>0, <3>1 DEF StaggerInv
    <3>3. sinceDecision' = sinceDecision + 1
      BY <2>2, <3>2 DEF TickWait, TickReset, Counted
    <3>4. QED
      BY <2>0, <2>1, <3>1, <3>3 DEF StaggerInv
  <2>3. CASE TickDecide
    BY <2>1, <2>3, DecideEffect DEF StaggerInv
  <2>4. CASE Run \/ TickNoProfile \/ UNCHANGED vars
    BY <2>1, <2>4 DEF Run, TickNoProfile, vars, StaggerInv
  <2>5. QED
    BY <2>2, <2>3, <2>4 DEF Next
<1>3. QED
  BY <1>1, <1>2, PTL DEF Spec

(* Spec section 4.4: apex_throughput_throttling_policy decides only after  *)
(* a full window: every decision but the first comes exactly WindowSize    *)
(* ticks of waiting and resetting after the one before it, because         *)
(* throughput_delay is rearmed on the decision and must reach 0 and then *)
(* go negative before the next one.                                       *)
THEOREM Staggered == Spec => DecisionsStaggered
<1>1. StaggerInv /\ [Next]_vars =>
        [sinceDecision # 0 /\ sinceDecision' = 0
           => sinceDecision = WindowSize]_vars
  <2> SUFFICES ASSUME StaggerInv, [Next]_vars, sinceDecision # 0,
                      sinceDecision' = 0
               PROVE  sinceDecision = WindowSize
    OBVIOUS
  <2>0. /\ throughput_delay \in 0..WindowSize
        /\ sinceDecision \in 0..(WindowSize + 1)
    BY DEF StaggerInv, TypeOK
  <2>1. CASE TickDecide
    <3>1. throughput_delay - 1 < 0
      BY <2>1 DEF TickDecide, Decides
    <3>2. QED
      BY <2>0, <3>1 DEF StaggerInv
  <2>2. CASE TickWait \/ TickReset
    BY <2>0, <2>2 DEF TickWait, TickReset, Counted
  <2>3. CASE Run \/ TickNoProfile \/ UNCHANGED vars
    BY <2>3 DEF Run, TickNoProfile, vars
  <2>4. QED
    BY <2>1, <2>2, <2>3 DEF Next
<1>2. QED
  BY <1>1, StaggerInvInductive, PTL DEF Spec, DecisionsStaggered

=============================================================================
