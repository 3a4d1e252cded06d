------------------------------ MODULE PowerCap ------------------------------
(***************************************************************************)
(* The power-cap controller of src/apex/apex_throttling.cpp: the periodic  *)
(* policy apex_power_throttling_policy, the cap helpers __decrease_cap and *)
(* __increase_cap it calls, __setup_power_cap_throttling that registers    *)
(* it, and __shutdown_throttling that sets apex_final.                      *)
(*                                                                         *)
(* Data abstraction.  Watts are integers and the double moving average is  *)
(* kept as an integer rounded down by the windowed-average formula; the   *)
(* power sensor (current_power_high) is an input drawn from the set       *)
(* Powers, where 0 stands for "sensor unavailable".  The log print and the *)
(* test_pp call counter are left out.                                      *)
(***************************************************************************)
EXTENDS Integers

CONSTANTS
    MinThreads,   \* min_threads (APEX_THROTTLING_MIN_THREADS)
    MaxThreads,   \* max_threads (APEX_THROTTLING_MAX_THREADS)
    MinWatts,     \* min_watts   (APEX_THROTTLING_MIN_WATTS)
    MaxWatts,     \* max_watts   (APEX_THROTTLING_MAX_WATTS)
    WindowSize,   \* window_size = MAX_WINDOW_SIZE
    Powers        \* readings current_power_high() can return; 0 = no sensor

ASSUME ThreadsAssumption ==
    /\ MinThreads \in Nat /\ MaxThreads \in Nat
    /\ MinThreads <= MaxThreads
ASSUME WattsAssumption ==
    /\ MinWatts \in Nat /\ MaxWatts \in Nat
    /\ Powers \subseteq Nat /\ 0 \in Powers
ASSUME WindowAssumption == WindowSize \in Nat \ {0}

VARIABLES
    thread_cap,      \* int thread_cap
    moving_average,  \* double moving_average
    delay,           \* int delay, the shared hysteresis counter
    throttleOn,      \* bool apex_throttleOn
    final,           \* bool apex_final
    registered,      \* the periodic policy has been registered
    power            \* the last value read from the power sensor

vars == <<thread_cap, moving_average, delay, throttleOn, final, registered,
          power>>

-----------------------------------------------------------------------------
(* Fault-injection variants of the definitions below, each the way a      *)
(* plausible slip in the C++ would change it.                              *)

\* __decrease_cap without the "amtLower <= 0 -> 1" floor.
DecreaseAmountNoFloor(c) == (c - MinThreads) \div 2

\* __decrease_cap without the final clamp to min_threads.
DecreasedCapNoClamp(c) ==
    LET amtLower == (c - MinThreads) \div 2
    IN c - (IF amtLower <= 0 THEN 1 ELSE amtLower)

\* __increase_cap without the "amtRaise <= 0 -> 1" floor.
IncreaseAmountNoFloor(c) == (MaxThreads - c) \div 2

\* The policy without its "if (apex_final) return" guard.
NotFinalDropped == TRUE

\* "delay = window_size" rearming one tick too long.
RearmOffByOne == WindowSize + 1

-----------------------------------------------------------------------------
(* __decrease_cap's step: half the distance down to min_threads (">> 1"  *)
(* on an int is floor division by 2), and at least one thread.            *)
DecreaseAmount(c) ==
    LET amtLower == (c - MinThreads) \div 2
    IN IF amtLower <= 0 THEN 1 ELSE amtLower

(* __increase_cap's step: half the distance up to max_threads, at least 1. *)
IncreaseAmount(c) ==
    LET amtRaise == (MaxThreads - c) \div 2
    IN IF amtRaise <= 0 THEN 1 ELSE amtRaise

(* __decrease_cap: thread_cap -= amtLower, then clamp to min_threads.      *)
DecreasedCap(c) ==
    IF c - DecreaseAmount(c) < MinThreads THEN MinThreads
    ELSE c - DecreaseAmount(c)

(* __increase_cap: thread_cap += amtRaise, then clamp to max_threads.      *)
IncreasedCap(c) ==
    IF c + IncreaseAmount(c) > MaxThreads THEN MaxThreads
    ELSE c + IncreaseAmount(c)

(* moving_average = ((moving_average * (window_size-1)) + power) / window_size *)
NextAverage(ma, p) == (ma * (WindowSize - 1) + p) \div WindowSize

\* The policy's early return: "if (apex_final) return APEX_NOERROR;".
NotFinal == ~final

\* "delay = window_size;" after either adjustment.
Rearm == WindowSize

-----------------------------------------------------------------------------
Init ==
    /\ thread_cap = MaxThreads
    /\ moving_average = 0
    /\ delay = 0
    /\ throttleOn = TRUE
    /\ final = FALSE
    /\ registered = FALSE
    /\ power = 0

(* __setup_power_cap_throttling with APEX_THROTTLING set: read the bounds  *)
(* (the constants), register the periodic policy and take one initial     *)
(* power reading, whose value is discarded.                                *)
Setup ==
    /\ ~registered
    /\ registered' = TRUE
    /\ UNCHANGED <<thread_cap, moving_average, delay, throttleOn, final, power>>

(* What one firing of apex_power_throttling_policy that reads p from the  *)
(* sensor does, past its apex_final test: the new moving average (updated *)
(* before the "power != 0.0" test), whether it calls __decrease_cap or     *)
(* __increase_cap, and the new delay.  Each branch condition decrements   *)
(* delay only when its threshold test already holds (&& short-circuits),  *)
(* and the soft branch is tried only when the hard one did not fire,      *)
(* after the hard one's decrement.                                        *)
Reading(p) ==
    LET ma    == NextAverage(moving_average, p)
        hard  == p > MaxWatts \/ ma > MaxWatts
        d1    == IF hard THEN delay - 1 ELSE delay
        fire1 == hard /\ d1 <= 0
        soft  == p < MinWatts /\ ma < MinWatts
        d2    == IF soft THEN d1 - 1 ELSE d1
        fire2 == ~fire1 /\ soft /\ d2 <= 0
    IN [average  |-> ma,
        decrease |-> p # 0 /\ fire1,
        increase |-> p # 0 /\ fire2,
        delay    |-> IF p = 0 THEN delay
                     ELSE IF fire1 \/ fire2 THEN Rearm ELSE d2]

(* One firing of the policy: the cap helpers also set apex_throttleOn.     *)
Tick ==
    /\ registered
    /\ NotFinal
    /\ \E p \in Powers :
        LET r == Reading(p)
        IN /\ power' = p
           /\ moving_average' = r.average
           /\ delay' = r.delay
           /\ thread_cap' = IF r.decrease THEN DecreasedCap(thread_cap)
                            ELSE IF r.increase THEN IncreasedCap(thread_cap)
                            ELSE thread_cap
           /\ throttleOn' = IF r.decrease THEN TRUE
                            ELSE IF r.increase THEN FALSE
                            ELSE throttleOn
    /\ UNCHANGED <<final, registered>>

(* __shutdown_throttling: apex_final = true.  Safe to call again and       *)
(* before setup; the power-cap path never opens cap_data.                  *)
Shutdown ==
    /\ final' = TRUE
    /\ UNCHANGED <<thread_cap, moving_average, delay, throttleOn, registered,
                   power>>

Next == Setup \/ Tick \/ Shutdown

(* The periodic driver fires on its own timer thread, independent of the   *)
(* application, so a registered, not yet final policy keeps being called. *)
Spec == Init /\ [][Next]_vars /\ WF_vars(Tick)

-----------------------------------------------------------------------------
TypeOK ==
    /\ thread_cap \in Int
    /\ moving_average \in Nat
    /\ delay \in 0..WindowSize
    /\ throttleOn \in BOOLEAN
    /\ final \in BOOLEAN
    /\ registered \in BOOLEAN
    /\ power \in Powers

(* Spec section 3: min_threads <= thread_cap <= max_threads at all times,  *)
(* whatever sequence of readings the sensor produces; this rests on the   *)
(* clamps in __decrease_cap/__increase_cap and on the ">= 1" step floors. *)
CapInBounds == MinThreads <= thread_cap /\ thread_cap <= MaxThreads

(* The controller implements the abstract CapControl promise: the cap     *)
(* stays in bounds, and after shutdown_throttling sets apex_final no tick  *)
(* of apex_power_throttling_policy moves it again.                         *)
Abstract == INSTANCE CapControl WITH cap <- thread_cap
ImplementsCapControl == Abstract!Spec

(* If the sensor keeps reporting more than max_watts (and shutdown never  *)
(* comes), the hard-ceiling rule of apex_power_throttling_policy drives    *)
(* the cap down to min_threads and keeps it there.                         *)
SustainedHighReachesMin ==
    (<>[](power > MaxWatts /\ ~final /\ registered))
        => <>[](thread_cap = MinThreads)

(* If the sensor keeps reporting a nonzero value below min_watts, the      *)
(* moving average falls below min_watts too and the soft-floor rule drives *)
(* the cap up to max_threads and keeps it there.                           *)
SustainedLowReachesMax ==
    (<>[](power \in 1..(MinWatts - 1) /\ ~final /\ registered))
        => <>[](thread_cap = MaxThreads)

=============================================================================
