--------------------------- MODULE PowerCapProofs ---------------------------
(***************************************************************************)
(* Proofs about the power-cap controller, for every value of the           *)
(* constants allowed by the assumptions of PowerCap: the type invariant,   *)
(* and that apex_power_throttling_policy keeps thread_cap within           *)
(* [min_threads, max_threads].                                             *)
(***************************************************************************)
EXTENDS PowerCap, TLAPS

USE ThreadsAssumption, WattsAssumption, WindowAssumption

(* __decrease_cap maps a cap within the bounds to a cap within the bounds. *)
LEMMA DecreasedCapInBounds ==
    ASSUME NEW c \in MinThreads..MaxThreads
    PROVE  DecreasedCap(c) \in MinThreads..MaxThreads
BY DEF DecreasedCap, DecreaseAmount

(* __increase_cap maps a cap within the bounds to a cap within the bounds. *)
LEMMA IncreasedCapInBounds ==
    ASSUME NEW c \in MinThreads..MaxThreads
    PROVE  IncreasedCap(c) \in MinThreads..MaxThreads
BY DEF IncreasedCap, IncreaseAmount

(* The windowed average of natural numbers is a natural number.            *)
LEMMA NextAverageNat ==
    ASSUME NEW ma \in Nat, NEW p \in Nat
    PROVE  NextAverage(ma, p) \in Nat
BY DEF NextAverage

(* The values a reading gives the moving average and the delay counter    *)
(* have their types: delay stays within 0..window_size because a          *)
(* decrement to 0 or below always rearms it.                               *)
LEMMA ReadingType ==
    ASSUME TypeOK, NEW p \in Powers
    PROVE  /\ Reading(p).average \in Nat
           /\ Reading(p).delay \in 0..WindowSize
<1>1. NextAverage(moving_average, p) \in Nat
  BY NextAverageNat DEF TypeOK
<1>2. QED
  BY <1>1 DEF Reading, Rearm, TypeOK

-----------------------------------------------------------------------------
(* The type invariant holds in every reachable state: in particular the   *)
(* shared delay counter of apex_power_throttling_policy stays within       *)
(* 0..window_size, whichever of its two decrements a tick takes.           *)
THEOREM TypeCorrect == Spec => []TypeOK
<1>1. Init => TypeOK
  <2> SUFFICES ASSUME Init PROVE TypeOK
    OBVIOUS
  <2>1. /\ thread_cap \in Int /\ moving_average \in Nat
        /\ delay \in 0..WindowSize /\ power \in Powers
    BY DEF Init
  <2>2. throttleOn \in BOOLEAN /\ final \in BOOLEAN /\ registered \in BOOLEAN
    BY Zenon DEF Init
  <2>3. QED
    BY <2>1, <2>2 DEF TypeOK
<1>2. TypeOK /\ [Next]_vars => TypeOK'
  <2> SUFFICES ASSUME TypeOK, [Next]_vars PROVE TypeOK'
    OBVIOUS
  <2>1. CASE Setup
    BY <2>1, Zenon DEF Setup, TypeOK
  <2>2. CASE Tick
    <3>1. PICK p \in Powers :
            /\ power' = p
            /\ moving_average' = Reading(p).average
            /\ delay' = Reading(p).delay
            /\ thread_cap' \in {thread_cap, DecreasedCap(thread_cap),
                                IncreasedCap(thread_cap)}
      BY <2>2 DEF Tick
    <3>2. /\ throttleOn' \in {TRUE, FALSE, throttleOn}
          /\ final' = final /\ registered' = registered
      BY <2>2 DEF Tick
    <3>3. /\ Reading(p).average \in Nat
          /\ Reading(p).delay \in 0..WindowSize
      BY ReadingType
    <3>4. DecreasedCap(thread_cap) \in Int /\ IncreasedCap(thread_cap) \in Int
      BY DEF TypeOK, DecreasedCap, IncreasedCap, DecreaseAmount,
             IncreaseAmount
    <3>5. thread_cap' \in Int
      BY <3>1, <3>4 DEF TypeOK
    <3>6. /\ thread_cap' \in Int /\ moving_average' \in Nat
          /\ delay' \in 0..WindowSize /\ power' \in Powers
      BY <3>1, <3>3, <3>5
    <3>7. QED
      BY <3>2, <3>6, Zenon DEF TypeOK
  <2>3. CASE Shutdown
    BY <2>3, Zenon DEF Shutdown, TypeOK
  <2>4. CASE UNCHANGED vars
    BY <2>4, Zenon DEF vars, TypeOK
  <2>5. QED
    BY <2>1, <2>2, <2>3, <2>4 DEF Next
<1>3. QED
  BY <1>1, <1>2, PTL DEF Spec

-----------------------------------------------------------------------------
(* Spec section 3: in every reachable state min_threads <= thread_cap <=   *)
(* max_threads.  The bound is inductive together with the type invariant  *)
(* (which makes thread_cap an integer): each tick either leaves the cap   *)
(* alone or applies __decrease_cap or __increase_cap, and both map a cap   *)
(* within the bounds to a cap within the bounds.                           *)
THEOREM CapBounded == Spec => []CapInBounds
<1>1. Init => CapInBounds
  BY DEF Init, CapInBounds
<1>2. TypeOK /\ CapInBounds /\ [Next]_vars => CapInBounds'
  <2> SUFFICES ASSUME TypeOK, CapInBounds, [Next]_vars PROVE CapInBounds'
    OBVIOUS
  <2>0. thread_cap \in MinThreads..MaxThreads
    BY DEF TypeOK, CapInBounds
  <2>1. CASE Setup
    BY <2>1 DEF Setup, CapInBounds
  <2>2. CASE Tick
    <3>1. thread_cap' \in {thread_cap, DecreasedCap(thread_cap),
                           IncreasedCap(thread_cap)}
      BY <2>2 DEF Tick
    <3>2. QED
      BY <3>1, <2>0, DecreasedCapInBounds, IncreasedCapInBounds
         DEF CapInBounds
  <2>3. CASE Shutdown
    BY <2>3 DEF Shutdown, CapInBounds
  <2>4. CASE UNCHANGED vars
    BY <2>4 DEF vars, CapInBounds
  <2>5. QED
    BY <2>1, <2>2, <2>3, <2>4 DEF Next
<1>3. QED
  BY <1>1, <1>2, TypeCorrect, PTL DEF Spec
-----------------------------------------------------------------------------
(* apex_power_throttling_policy implements the promise of CapControl:      *)
(* mapping cap to thread_cap, every tick is an abstract Adjust (it tests   *)
(* apex_final first and leaves the cap within the bounds), setup is a      *)
(* stutter, and shutdown_throttling is the abstract Shutdown, so no tick   *)
(* after it moves the cap.                                                 *)
THEOREM RefinesCapControl == Spec => ImplementsCapControl
<1>1. Init => Abstract!Init
  BY DEF Init, Abstract!Init
<1>2. TypeOK /\ CapInBounds /\ [Next]_vars => [Abstract!Next]_Abstract!vars
  <2> SUFFICES ASSUME TypeOK, CapInBounds, [Next]_vars
               PROVE  [Abstract!Next]_Abstract!vars
    OBVIOUS
  <2>0. thread_cap \in MinThreads..MaxThreads
    BY DEF TypeOK, CapInBounds
  <2>1. CASE Setup
    BY <2>1 DEF Setup, Abstract!vars
  <2>2. CASE Tick
    <3>1. thread_cap' \in {thread_cap, DecreasedCap(thread_cap),
                           IncreasedCap(thread_cap)}
      BY <2>2 DEF Tick
    <3>2. thread_cap' \in MinThreads..MaxThreads
      BY <3>1, <2>0, DecreasedCapInBounds, IncreasedCapInBounds
    <3>3. ~final /\ final' = final
      BY <2>2 DEF Tick, NotFinal
    <3>4. QED
      BY <3>2, <3>3 DEF Abstract!Next, Abstract!Adjust
  <2>3. CASE Shutdown
    BY <2>3 DEF Shutdown, Abstract!Next, Abstract!Shutdown
  <2>4. CASE UNCHANGED vars
    BY <2>4 DEF vars, Abstract!vars
  <2>5. QED
    BY <2>1, <2>2, <2>3, <2>4 DEF Next
<1>3. QED
  BY <1>1, <1>2, TypeCorrect, CapBounded, PTL
     DEF Spec, ImplementsCapControl, Abstract!Spec
=============================================================================
