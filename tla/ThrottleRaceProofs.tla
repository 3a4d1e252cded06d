------------------------ MODULE ThrottleRaceProofs -------------------------
(***************************************************************************)
(* Proofs about the power-cap controller as it runs on threads, for every *)
(* value of the constants allowed by the assumptions of PowerCap and       *)
(* ThrottleRace, in both builds: the type invariant; that thread_cap       *)
(* leaves its bounds only between the two stores of a split-store build;  *)
(* that a merged-store build never hands the scheduler a cap out of        *)
(* bounds; and that every step of the split tick is a step of the atomic *)
(* PowerCap, or a stutter, under the mapping CapAfterTick.                 *)
(***************************************************************************)
EXTENDS ThrottleRace, TLAPS

PCP == INSTANCE PowerCapProofs

USE RaceConstantsAssumption, SplitStoresAssumption

Bounds == MinThreads..MaxThreads

(* The inductive invariant: the cap the running tick will leave is always *)
(* in bounds; thread_cap itself is, except between the two stores of a    *)
(* split build; and a merged build never reaches the "store" step, so     *)
(* every value the scheduler reads is in bounds.                           *)
RaceInv ==
    /\ TypeOK
    /\ CapAfterTick \in Bounds
    /\ ~(pc = "clamp" /\ SplitStores) => thread_cap \in Bounds
    /\ ~SplitStores => pc # "store" /\ observed \in Bounds

(* What a reading does to the state PowerCap's type invariant constrains. *)
LEMMA ReadingType ==
    ASSUME TypeOK, NEW p \in Powers
    PROVE  /\ PC!Reading(p).average \in Nat
           /\ PC!Reading(p).delay \in 0..WindowSize
<1>1. PCP!TypeOK
  BY DEF TypeOK, PC!TypeOK, PCP!TypeOK
<1>2. QED
  BY <1>1, PCP!ReadingType DEF PC!Reading, PCP!Reading, PC!NextAverage,
     PCP!NextAverage, PC!Rearm, PCP!Rearm

(* The clamped caps of __decrease_cap and __increase_cap are in bounds.    *)
LEMMA ClampedInBounds ==
    ASSUME NEW c \in Bounds
    PROVE  /\ PC!DecreasedCap(c) \in Bounds
           /\ PC!IncreasedCap(c) \in Bounds
BY DEF Bounds, PC!DecreasedCap, PC!DecreaseAmount, PC!IncreasedCap,
       PC!IncreaseAmount

(* The timer thread's read step, with its reading named.                   *)
LEMMA ReadEffect ==
    ASSUME TimerRead
    PROVE  \E p \in Powers :
             LET r == PC!Reading(p)
             IN /\ power' = p
                /\ moving_average' = r.average
                /\ delay' = r.delay
                /\ throttleOn' \in {TRUE, FALSE, throttleOn}
                /\ r.decrease => /\ target' = PC!DecreasedCap(thread_cap)
                                 /\ pc' \in {"store", "clamp"}
                /\ ~r.decrease /\ r.increase =>
                                 /\ target' = PC!IncreasedCap(thread_cap)
                                 /\ pc' \in {"store", "clamp"}
                /\ ~r.decrease /\ ~r.increase => pc' = "idle"
                /\ pc' = "store" => SplitStores
                /\ pending' \in {pending,
                                 thread_cap - PC!DecreaseAmount(thread_cap),
                                 thread_cap + PC!IncreaseAmount(thread_cap)}
                /\ target' \in {target, PC!DecreasedCap(thread_cap),
                                PC!IncreasedCap(thread_cap)}
BY DEF TimerRead

-----------------------------------------------------------------------------
(* Init establishes the type invariant.                                  *)
LEMMA TypeInit == Init => TypeOK
<1> SUFFICES ASSUME Init PROVE TypeOK
  OBVIOUS
<1>1. /\ thread_cap \in Int /\ moving_average \in Nat
      /\ delay \in 0..WindowSize /\ power \in Powers
      /\ pending \in Int /\ target \in Int /\ observed \in Int
  BY DEF Init, PC!Init
<1>2. /\ throttleOn \in BOOLEAN /\ final \in BOOLEAN
      /\ registered \in BOOLEAN /\ pc \in {"idle", "store", "clamp"}
  BY Zenon DEF Init, PC!Init
<1>3. QED
  BY <1>1, <1>2 DEF TypeOK, PC!TypeOK

(* Every step of the timer, the scheduler and shutdown keeps the types.  *)
LEMMA TypeStep == TypeOK /\ [Next]_vars => TypeOK'
<1> SUFFICES ASSUME TypeOK, [Next]_vars PROVE TypeOK'
  OBVIOUS
<1>1. CASE TimerRead
  <2>1. PICK p \in Powers :
          LET r == PC!Reading(p)
          IN /\ power' = p
             /\ moving_average' = r.average
             /\ delay' = r.delay
             /\ throttleOn' \in {TRUE, FALSE, throttleOn}
             /\ pc' \in {"idle", "store", "clamp"}
             /\ pending' \in {pending,
                              thread_cap - PC!DecreaseAmount(thread_cap),
                              thread_cap + PC!IncreaseAmount(thread_cap)}
             /\ target' \in {target, PC!DecreasedCap(thread_cap),
                             PC!IncreasedCap(thread_cap)}
    BY <1>1, ReadEffect
  <2>2. /\ PC!Reading(p).average \in Nat
        /\ PC!Reading(p).delay \in 0..WindowSize
    BY ReadingType
  <2>3. /\ thread_cap - PC!DecreaseAmount(thread_cap) \in Int
        /\ thread_cap + PC!IncreaseAmount(thread_cap) \in Int
        /\ PC!DecreasedCap(thread_cap) \in Int
        /\ PC!IncreasedCap(thread_cap) \in Int
    BY DEF TypeOK, PC!TypeOK, PC!DecreaseAmount, PC!IncreaseAmount,
           PC!DecreasedCap, PC!IncreasedCap
  <2>4. UNCHANGED <<thread_cap, final, registered, observed>>
    BY <1>1 DEF TimerRead
  <2>5. QED
    BY <2>1, <2>2, <2>3, <2>4 DEF TypeOK, PC!TypeOK
<1>2. CASE TimerStore \/ TimerClamp \/ SchedulerRead
  BY <1>2 DEF TimerStore, TimerClamp, SchedulerRead, TypeOK, PC!TypeOK
<1>3. CASE Setup \/ Shutdown
  BY <1>3 DEF Setup, Shutdown, PC!Setup, PC!Shutdown, TypeOK, PC!TypeOK
<1>4. CASE UNCHANGED vars
  BY <1>4 DEF vars, TypeOK, PC!TypeOK
<1>5. QED
  BY <1>1, <1>2, <1>3, <1>4 DEF Next

(* The type invariant holds in every reachable state, whatever the order  *)
(* of the timer's steps, the scheduler's reads and shutdown.               *)
THEOREM TypeCorrect == Spec => []TypeOK
BY TypeInit, TypeStep, PTL DEF Spec

-----------------------------------------------------------------------------
(* RaceInv holds initially and is preserved by every step of the timer,   *)
(* the scheduler and shutdown.                                             *)
LEMMA RaceInvInductive == Spec => []RaceInv
<1>1. Init => RaceInv
  BY TypeInit DEF Init, PC!Init, RaceInv, CapAfterTick, Bounds
<1>2. RaceInv /\ [Next]_vars => RaceInv'
  <2> SUFFICES ASSUME RaceInv, [Next]_vars
               PROVE  /\ CapAfterTick' \in Bounds
                      /\ ~(pc' = "clamp" /\ SplitStores) => thread_cap' \in Bounds
                      /\ ~SplitStores => pc' # "store" /\ observed' \in Bounds
    BY TypeStep DEF RaceInv
  <2>1. CASE TimerRead
    <3>1. pc = "idle" /\ thread_cap \in Bounds
      BY <2>1 DEF TimerRead, RaceInv
    <3>2. PICK p \in Powers :
             LET r == PC!Reading(p)
             IN /\ r.decrease => /\ target' = PC!DecreasedCap(thread_cap)
                                 /\ pc' \in {"store", "clamp"}
                /\ ~r.decrease /\ r.increase =>
                                 /\ target' = PC!IncreasedCap(thread_cap)
                                 /\ pc' \in {"store", "clamp"}
                /\ ~r.decrease /\ ~r.increase => pc' = "idle"
                /\ pc' = "store" => SplitStores
      BY <2>1, ReadEffect
    <3>3. UNCHANGED <<thread_cap, observed>>
      BY <2>1 DEF TimerRead
    <3>4. /\ PC!DecreasedCap(thread_cap) \in Bounds
          /\ PC!IncreasedCap(thread_cap) \in Bounds
      BY <3>1, ClampedInBounds
    <3>5. CapAfterTick' \in Bounds
      BY <3>1, <3>2, <3>3, <3>4 DEF CapAfterTick
    <3>6. QED
      BY <3>1, <3>2, <3>3, <3>5 DEF RaceInv
  <2>2. CASE TimerStore
    <3>1. /\ pc = "store" /\ pc' = "clamp" /\ target' = target
          /\ observed' = observed
      BY <2>2 DEF TimerStore
    <3>2. target \in Bounds /\ SplitStores
      BY <3>1 DEF RaceInv, CapAfterTick
    <3>3. QED
      BY <3>1, <3>2 DEF CapAfterTick
  <2>3. CASE TimerClamp
    <3>1. /\ pc = "clamp" /\ pc' = "idle" /\ thread_cap' = target
          /\ observed' = observed
      BY <2>3 DEF TimerClamp
    <3>2. target \in Bounds
      BY <3>1 DEF RaceInv, CapAfterTick
    <3>3. QED
      BY <3>1, <3>2 DEF RaceInv, CapAfterTick
  <2>4. CASE SchedulerRead
    BY <2>4 DEF SchedulerRead, RaceInv, CapAfterTick
  <2>5. CASE Setup \/ Shutdown \/ UNCHANGED vars
    BY <2>5 DEF Setup, Shutdown, PC!Setup, PC!Shutdown, vars, RaceInv,
                CapAfterTick
  <2>6. QED
    BY <2>1, <2>2, <2>3, <2>4, <2>5 DEF Next
<1>3. QED
  BY <1>1, <1>2, PTL DEF Spec

(* The window of the race, for every bound and both builds: thread_cap is  *)
(* outside [min_threads, max_threads] only in a split-store build between *)
(* the unclamped store and the clamp of __decrease_cap/__increase_cap.     *)
THEOREM CapWindow == Spec => []CapOutsideOnlyBetweenStores
<1>1. RaceInv => CapOutsideOnlyBetweenStores
  BY DEF RaceInv, CapOutsideOnlyBetweenStores, Bounds
<1>2. QED
  BY <1>1, RaceInvInductive, PTL

(* A build that merges "thread_cap -= amtLower" and the clamp into one    *)
(* store never lets __get_thread_cap return a cap outside the bounds: the *)
(* scheduler's reads are in bounds exactly when the stores are merged.     *)
THEOREM MergedStoresObserveBounds ==
    ASSUME ~SplitStores
    PROVE  Spec => []ObservedCapInBounds
<1>1. RaceInv => ObservedCapInBounds
  BY DEF RaceInv, ObservedCapInBounds, Bounds
<1>2. QED
  BY <1>1, RaceInvInductive, PTL


-----------------------------------------------------------------------------
(* The safety part of ImplementsPowerCap: Atomic!Spec without its weak     *)
(* fairness on Tick.                                                       *)
AtomicSafety == Atomic!Init /\ [][Atomic!Next]_Atomic!vars

(* Outside a tick the cap that tick will leave is thread_cap itself.      *)
LEMMA IdleCap ==
    ASSUME pc = "idle"
    PROVE  CapAfterTick = thread_cap
BY DEF CapAfterTick

(* The tick of apex_power_throttling_policy is atomic as far as the       *)
(* controller's state goes: under CapAfterTick, TimerRead (the apex_final *)
(* test, the sensor read and the computation of the step) is a Tick of     *)
(* PowerCap, the two stores and the scheduler's reads are stutters, and   *)
(* setup and shutdown, even in the middle of a tick, are PowerCap's.      *)
THEOREM SplitTickRefinesPowerCap == Spec => AtomicSafety
<1>1. Init => Atomic!Init
  BY DEF Init, PC!Init, Atomic!Init, CapAfterTick
<1>2. TypeOK /\ [Next]_vars => [Atomic!Next]_Atomic!vars
  <2> SUFFICES ASSUME TypeOK, [Next]_vars
               PROVE  [Atomic!Next]_Atomic!vars
    OBVIOUS
  <2>1. CASE TimerRead
    <3>1. pc = "idle" /\ registered /\ ~final
      BY <2>1 DEF TimerRead, FinalRead
    <3>2. CapAfterTick = thread_cap
      BY <3>1, IdleCap
    <3>3. PICK p \in Powers :
             LET r == PC!Reading(p)
             IN /\ power' = p
                /\ moving_average' = r.average
                /\ delay' = r.delay
                /\ throttleOn' = IF r.decrease THEN TRUE
                                 ELSE IF r.increase THEN FALSE
                                 ELSE throttleOn
                /\ target' = IF r.decrease THEN PC!DecreasedCap(thread_cap)
                             ELSE IF r.increase THEN PC!IncreasedCap(thread_cap)
                             ELSE target
                /\ pc' = IF r.decrease \/ r.increase
                           THEN IF SplitStores THEN "store" ELSE "clamp"
                         ELSE "idle"
      BY <2>1 DEF TimerRead
    <3>4. UNCHANGED <<thread_cap, final, registered>>
      BY <2>1 DEF TimerRead
    <3>5. CapAfterTick' = IF PC!Reading(p).decrease
                            THEN PC!DecreasedCap(CapAfterTick)
                          ELSE IF PC!Reading(p).increase
                            THEN PC!IncreasedCap(CapAfterTick)
                          ELSE CapAfterTick
      BY <3>2, <3>3, <3>4 DEF CapAfterTick
    <3>6. Atomic!Tick
      BY <3>1, <3>3, <3>4, <3>5
         DEF Atomic!Tick, Atomic!NotFinal, Atomic!Reading, PC!Reading,
             Atomic!NextAverage, PC!NextAverage, Atomic!Rearm, PC!Rearm,
             Atomic!DecreasedCap, PC!DecreasedCap, Atomic!IncreasedCap,
             PC!IncreasedCap, Atomic!DecreaseAmount, PC!DecreaseAmount,
             Atomic!IncreaseAmount, PC!IncreaseAmount
    <3>7. QED
      BY <3>6 DEF Atomic!Next
  <2>2. CASE TimerStore
    BY <2>2 DEF TimerStore, Atomic!vars, CapAfterTick
  <2>3. CASE TimerClamp
    BY <2>3 DEF TimerClamp, Atomic!vars, CapAfterTick
  <2>4. CASE SchedulerRead
    BY <2>4 DEF SchedulerRead, Atomic!vars, CapAfterTick
  <2>5. CASE Setup
    <3>1. Atomic!Setup
      BY <2>5 DEF Setup, PC!Setup, Atomic!Setup, CapAfterTick
    <3>2. QED
      BY <3>1 DEF Atomic!Next
  <2>6. CASE Shutdown
    <3>1. Atomic!Shutdown
      BY <2>6 DEF Shutdown, PC!Shutdown, Atomic!Shutdown, CapAfterTick
    <3>2. QED
      BY <3>1 DEF Atomic!Next
  <2>7. CASE UNCHANGED vars
    BY <2>7 DEF vars, Atomic!vars, CapAfterTick
  <2>8. QED
    BY <2>1, <2>2, <2>3, <2>4, <2>5, <2>6, <2>7 DEF Next
<1>3. QED
  BY <1>1, <1>2, TypeCorrect, PTL DEF Spec, AtomicSafety

-----------------------------------------------------------------------------
(* The safety half of CapSettlesAfterShutdown: once apex_final is set and  *)
(* no tick is in flight, no step of the timer, the scheduler, setup or a   *)
(* second shutdown starts a tick or writes thread_cap.  A tick that read  *)
(* apex_final before shutdown may still store after it, but no tick       *)
(* starts once the timer thread has seen apex_final set.                   *)
THEOREM NoTickAfterDrain ==
    Spec => [][Drained => Drained' /\ UNCHANGED thread_cap]_vars
<1>1. ASSUME Drained, [Next]_vars
      PROVE  Drained' /\ UNCHANGED thread_cap
  <2>1. ~TimerRead
    BY <1>1 DEF Drained, TimerRead, FinalRead
  <2>2. ~TimerStore /\ ~TimerClamp
    BY <1>1 DEF Drained, TimerStore, TimerClamp
  <2>3. CASE SchedulerRead
    BY <1>1, <2>3 DEF Drained, SchedulerRead
  <2>4. CASE Setup \/ Shutdown
    BY <1>1, <2>4 DEF Drained, Setup, Shutdown, PC!Setup, PC!Shutdown
  <2>5. CASE UNCHANGED vars
    BY <1>1, <2>5 DEF Drained, vars
  <2>6. QED
    BY <1>1, <2>1, <2>2, <2>3, <2>4, <2>5 DEF Next
<1>2. QED
  BY <1>1, PTL DEF Spec

=============================================================================
