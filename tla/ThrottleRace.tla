---------------------------- MODULE ThrottleRace ----------------------------
(***************************************************************************)
(* The power-cap controller of src/apex/apex_throttling.cpp as it runs:   *)
(* apex_power_throttling_policy on the periodic driver's timer thread,    *)
(* __get_thread_cap called without synchronisation by the scheduler that  *)
(* sizes worker pools, and __shutdown_throttling on an application        *)
(* thread.  PowerCap takes a tick as one step; here the tick is split at  *)
(* the shared-memory accesses another thread can interleave with: the     *)
(* read of apex_final, and the writes of thread_cap in __decrease_cap and *)
(* __increase_cap ("thread_cap -= amtLower;" then the clamp).             *)
(*                                                                         *)
(* thread_cap and apex_final are plain int and bool: the unsynchronised   *)
(* accesses are data races, and what a reader can see depends on the     *)
(* build.  SplitStores says whether the build stores the unclamped value  *)
(* before the clamped one, as the source is written (an unoptimised      *)
(* build), or merges the two into one store (an optimising compiler may). *)
(* The delay counter and the moving average are written and read only by *)
(* the timer thread, so when in the tick they are written is not          *)
(* observable; they are updated with the read of the sensor.  So is the   *)
(* global apex_throttleOn, which the helpers write last, after the clamp: *)
(* the comment at l.385-386 says the scheduling code reads it, but no     *)
(* code under src/ does, and no property here is about it.                *)
(***************************************************************************)
EXTENDS Integers

CONSTANTS MinThreads, MaxThreads, MinWatts, MaxWatts, WindowSize, Powers,
          SplitStores   \* the build writes the unclamped cap, then the clamped

ASSUME SplitStoresAssumption == SplitStores \in BOOLEAN

\* The assumptions of PowerCap on the constants this module passes to it.
ASSUME RaceConstantsAssumption ==
    /\ MinThreads \in Nat /\ MaxThreads \in Nat /\ MinThreads <= MaxThreads
    /\ MinWatts \in Nat /\ MaxWatts \in Nat
    /\ Powers \subseteq Nat /\ 0 \in Powers
    /\ WindowSize \in Nat \ {0}

VARIABLES
    thread_cap, moving_average, delay, throttleOn, final, registered,
    power,           \* the variables of PowerCap
    pc,              \* the timer thread: "idle", or about to store the
                     \* unclamped ("store") or the clamped ("clamp") cap
    pending,         \* the unclamped cap, thread_cap -/+ amt
    target,          \* the clamped cap the helper ends with
    observed         \* the last value __get_thread_cap returned

PC == INSTANCE PowerCap

vars == <<thread_cap, moving_average, delay, throttleOn, final, registered,
          power, pc, pending, target, observed>>

-----------------------------------------------------------------------------
\* The tick without its "if (apex_final) return" test.
FinalReadDropped == TRUE

-----------------------------------------------------------------------------
\* "if (apex_final) return APEX_NOERROR;", a plain read of a plain bool.
FinalRead == ~final

Init ==
    /\ PC!Init
    /\ pc = "idle"
    /\ pending = MaxThreads
    /\ target = MaxThreads
    /\ observed = MaxThreads

Setup ==
    /\ PC!Setup
    /\ UNCHANGED <<pc, pending, target, observed>>

(* The timer thread starts a tick: it finds apex_final clear, reads the    *)
(* sensor, and if a helper is called, computes the step from the current *)
(* thread_cap and goes on to store the result.                             *)
TimerRead ==
    /\ pc = "idle"
    /\ registered
    /\ FinalRead
    /\ \E p \in Powers :
        LET r == PC!Reading(p)
        IN /\ power' = p
           /\ moving_average' = r.average
           /\ delay' = r.delay
           /\ throttleOn' = IF r.decrease THEN TRUE
                            ELSE IF r.increase THEN FALSE
                            ELSE throttleOn
           /\ pending' = IF r.decrease
                           THEN thread_cap - PC!DecreaseAmount(thread_cap)
                         ELSE IF r.increase
                           THEN thread_cap + PC!IncreaseAmount(thread_cap)
                         ELSE pending
           /\ target' = IF r.decrease THEN PC!DecreasedCap(thread_cap)
                        ELSE IF r.increase THEN PC!IncreasedCap(thread_cap)
                        ELSE target
           /\ pc' = IF r.decrease \/ r.increase
                      THEN IF SplitStores THEN "store" ELSE "clamp"
                    ELSE "idle"
    /\ UNCHANGED <<thread_cap, final, registered, observed>>

(* "thread_cap -= amtLower;" or "thread_cap += amtRaise;". *)
TimerStore ==
    /\ pc = "store"
    /\ thread_cap' = pending
    /\ pc' = "clamp"
    /\ UNCHANGED <<moving_average, delay, throttleOn, final, registered,
                   power, pending, target, observed>>

(* The clamp, "if (thread_cap < min_threads) thread_cap = min_threads;"   *)
(* (or to max_threads), which ends the tick; in a merged build the only  *)
(* store.                                                                  *)
TimerClamp ==
    /\ pc = "clamp"
    /\ thread_cap' = target
    /\ pc' = "idle"
    /\ UNCHANGED <<moving_average, delay, throttleOn, final, registered,
                   power, pending, target, observed>>

(* The scheduler calls __get_thread_cap: "return thread_cap;". *)
SchedulerRead ==
    /\ observed' = thread_cap
    /\ UNCHANGED <<thread_cap, moving_average, delay, throttleOn, final,
                   registered, power, pc, pending, target>>

(* __shutdown_throttling on an application thread, at any point of a tick. *)
Shutdown ==
    /\ PC!Shutdown
    /\ UNCHANGED <<pc, pending, target, observed>>

Next == Setup \/ TimerRead \/ TimerStore \/ TimerClamp \/ SchedulerRead
          \/ Shutdown

(* The timer thread is scheduled by the periodic driver and runs each     *)
(* tick to its end without blocking.                                      *)
Spec == Init /\ [][Next]_vars
          /\ WF_vars(TimerRead) /\ WF_vars(TimerStore) /\ WF_vars(TimerClamp)

-----------------------------------------------------------------------------
TypeOK ==
    /\ PC!TypeOK
    /\ pc \in {"idle", "store", "clamp"}
    /\ pending \in Int /\ target \in Int /\ observed \in Int

(* The tick of apex_power_throttling_policy is atomic as far as the       *)
(* controller's state goes, with its read of apex_final as the point it  *)
(* takes effect: mapping the cap to the value the running tick will       *)
(* leave, the split tick, with shutdown and the scheduler interleaved     *)
(* anywhere, implements the atomic controller PowerCap, fairness          *)
(* included.  In particular a tick that read apex_final before shutdown   *)
(* may still store its cap after it, but no tick starts after shutdown.  *)
CapAfterTick == IF pc = "idle" THEN thread_cap ELSE target
Atomic == INSTANCE PowerCap WITH thread_cap <- CapAfterTick
ImplementsPowerCap == Atomic!Spec

(* The window of the race: thread_cap leaves [min_threads, max_threads]  *)
(* only in a build that stores the unclamped value, and only between      *)
(* "thread_cap -= amtLower" (or "+= amtRaise") and the clamp that follows *)
(* it in __decrease_cap/__increase_cap; every clamp puts it back.         *)
CapOutsideOnlyBetweenStores ==
    ~(MinThreads <= thread_cap /\ thread_cap <= MaxThreads)
        => SplitStores /\ pc = "clamp"

(* Shutdown can land while a tick is between its apex_final test and its *)
(* stores, and that tick still writes thread_cap after apex_final is set. *)
(* What the scheduler is left with is still sound: once                   *)
(* __shutdown_throttling has run, the timer thread finishes the tick in   *)
(* flight, leaving thread_cap within [min_threads, max_threads], and from *)
(* the moment no tick is in flight none starts and thread_cap never       *)
(* changes again.                                                          *)
Drained == final /\ pc = "idle"
CapSettlesAfterShutdown ==
    /\ final ~> (pc = "idle" /\ MinThreads <= thread_cap
                             /\ thread_cap <= MaxThreads)
    /\ [][Drained => Drained' /\ UNCHANGED thread_cap]_vars

(* Spec sections 3 and 5: min_threads <= thread_cap <= max_threads at all *)
(* times, and the scheduler reads the cap as a single relaxed atomic word *)
(* that may be a tick stale: every value __get_thread_cap returns lies    *)
(* within the bounds.                                                      *)
ObservedCapInBounds == MinThreads <= observed /\ observed <= MaxThreads
=============================================================================
