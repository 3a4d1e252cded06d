------------------------------ MODULE Threshold -----------------------------
(***************************************************************************)
(* The threshold throughput controller of src/apex/apex_throttling.cpp:   *)
(* the periodic policy apex_throughput_throttling_policy with the gradual *)
(* cap helpers __decrease_cap_gradual and __increase_cap_gradual, and the  *)
(* profile store of the function of interest it reads and resets.  No     *)
(* setup function of the file registers this policy (setup registers the *)
(* hill-climbing one); the model starts with it registered, as spec       *)
(* section 4.4 describes it.  A function of interest is configured: with  *)
(* none every tick returns at once, a stuttering step.                     *)
(*                                                                         *)
(* The profile store holds, for the function, either no profile or        *)
(* [calls, accumulated]; the application adds a call of some duration     *)
(* (Run), and reset() zeroes an existing profile.  Doubles are compared    *)
(* exactly on integers, with the IEEE outcome of 0/0 (NaN: every           *)
(* comparison false) when a window saw no calls.                           *)
(***************************************************************************)
EXTENDS Integers

CONSTANTS
    MinThreads,   \* min_threads
    MaxThreads,   \* max_threads
    WindowSize,   \* MAX_WINDOW_SIZE, the initial and rearmed throughput_delay
    Criterion,    \* throttling_criteria
    Durations,    \* how long one call of the function of interest may take
    MaxCalls      \* bound on the calls a profile counts

Criteria == {"MAXIMIZE_THROUGHPUT", "MAXIMIZE_ACCUMULATED",
             "MINIMIZE_ACCUMULATED"}
Actions == {"INITIAL_STATE", "BASELINE", "INCREASE", "DECREASE", "NO_CHANGE"}
NoProfile == [calls |-> -1, accumulated |-> -1]

ASSUME ThreadsAssumption ==
    /\ MinThreads \in Nat /\ MaxThreads \in Nat
    /\ MinThreads <= MaxThreads
ASSUME WindowAssumption == WindowSize \in Nat \ {0}
ASSUME CriterionAssumption == Criterion \in Criteria
ASSUME ProfileAssumption ==
    /\ Durations \subseteq Nat \ {0} /\ Durations # {}
    /\ MaxCalls \in Nat \ {0}

Profiles == [calls : 0..MaxCalls, accumulated : Nat]

VARIABLES
    thread_cap,        \* int thread_cap
    throttleOn,        \* bool apex_throttleOn
    throughput_delay,  \* int throughput_delay
    last_action,       \* last_action_t last_action
    baseline,          \* apex_profile function_baseline
    history,           \* apex_profile function_history
    profile,           \* the store's profile of the function, or NoProfile
    crashed,           \* the process died dereferencing a NULL profile
    sinceDecision      \* history: ticks since the last decision tick

vars == <<thread_cap, throttleOn, throughput_delay, last_action, baseline,
          history, profile, crashed, sinceDecision>>

-----------------------------------------------------------------------------
(* Fault-injection variants of the definitions below. *)

\* __decrease_cap_gradual without its clamp to min_threads.
DecreasedGradualNoClamp(c) == c - 2

\* "throughput_delay = MAX_WINDOW_SIZE" rearming one tick too long.
RearmedOffByOne == WindowSize + 1

\* The reset tick falling through to the decision instead of returning.
MeasuresOnResetTick(d) == d < 0 \/ d = 0

-----------------------------------------------------------------------------
\* __decrease_cap_gradual: two threads down, clamped to min_threads.
DecreasedGradual(c) == IF c - 2 < MinThreads THEN MinThreads ELSE c - 2

\* __increase_cap_gradual: two threads up, clamped to max_threads.
IncreasedGradual(c) == IF c + 2 > MaxThreads THEN MaxThreads ELSE c + 2

\* "throughput_delay = MAX_WINDOW_SIZE;" after a decision.
Rearmed == WindowSize

\* The decision is taken once the decremented throughput_delay is negative.
Decides(d) == d < 0

(* x > (pct/100) * y and x < (pct/100) * y for call counts, never NaN.     *)
CallsAbove(x, y, pct) == 100 * x > pct * y
CallsBelow(x, y, pct) == 100 * x < pct * y

(* mean(h) > (pct/100) * mean(p), with mean = accumulated / calls; a mean *)
(* over no calls is 0/0 = NaN and compares false.                          *)
MeanAbove(h, p, pct) ==
    /\ h.calls # 0 /\ p.calls # 0
    /\ 100 * h.accumulated * p.calls > pct * p.accumulated * h.calls
MeanBelow(h, p, pct) ==
    /\ h.calls # 0 /\ p.calls # 0
    /\ 100 * h.accumulated * p.calls < pct * p.accumulated * h.calls

(* The direction tables: keep going the way the last action went, or turn *)
(* back; "none" when last_action is neither INCREASE nor DECREASE.         *)
Continue(last) == CASE last = "INCREASE" -> "inc"
                    [] last = "DECREASE" -> "dec"
                    [] OTHER -> "none"
Reverse(last) == CASE last = "DECREASE" -> "inc"
                   [] last = "INCREASE" -> "dec"
                   [] OTHER -> "none"

(* The 5% comparison of history mean against current mean. *)
MeanRule(h, p, better, worse) ==
    IF MeanAbove(h, p, 105) THEN better
    ELSE IF MeanBelow(h, p, 95) THEN worse ELSE "none"

(* do_decrease / do_increase of the policy, as "dec", "inc" or "none",     *)
(* for last action `last` (after the baseline step), history h, profile p. *)
Decision(last, h, p) ==
    IF last = "BASELINE" THEN "dec"
    ELSE CASE Criterion = "MAXIMIZE_THROUGHPUT" ->
                IF CallsAbove(p.calls, h.calls, 105) THEN Continue(last)
                ELSE IF CallsBelow(p.calls, h.calls, 95)
                  THEN Reverse(last)
                ELSE MeanRule(h, p, Continue(last), Reverse(last))
           [] Criterion = "MAXIMIZE_ACCUMULATED" ->
                MeanRule(h, p, Continue(last), Reverse(last))
           [] OTHER ->
                MeanRule(h, p, Reverse(last), Continue(last))

-----------------------------------------------------------------------------
Init ==
    /\ thread_cap = MaxThreads
    /\ throttleOn = TRUE
    /\ throughput_delay = WindowSize
    /\ last_action = "INITIAL_STATE"
    /\ baseline = [calls |-> 0, accumulated |-> 0]
    /\ history = [calls |-> 0, accumulated |-> 0]
    /\ profile = NoProfile
    /\ crashed = FALSE
    /\ sinceDecision = 0

\* Counting ticks since the last decision, up to WindowSize + 1.
Counted(n) == IF n < WindowSize + 1 THEN n + 1 ELSE n

(* The application completes a call of the function of interest: the      *)
(* profiler creates the profile or adds to it.                             *)
Run ==
    /\ ~crashed
    /\ profile = NoProfile \/ profile.calls < MaxCalls
    /\ \E d \in Durations :
         profile' = IF profile = NoProfile
                      THEN [calls |-> 1, accumulated |-> d]
                      ELSE [calls |-> profile.calls + 1,
                            accumulated |-> profile.accumulated + d]
    /\ UNCHANGED <<thread_cap, throttleOn, throughput_delay, last_action,
                   baseline, history, crashed, sinceDecision>>

(* A tick while throughput_delay, decremented, is still positive: wait.    *)
TickWait ==
    /\ ~crashed
    /\ throughput_delay - 1 > 0
    /\ throughput_delay' = throughput_delay - 1
    /\ sinceDecision' = Counted(sinceDecision)
    /\ UNCHANGED <<thread_cap, throttleOn, last_action, baseline, history,
                   profile, crashed>>

(* The tick on which it reaches 0: reset the profile for a clean window.   *)
TickReset ==
    /\ ~crashed
    /\ throughput_delay - 1 = 0
    /\ ~Decides(throughput_delay - 1)
    /\ throughput_delay' = 0
    /\ profile' = IF profile = NoProfile THEN NoProfile
                  ELSE [calls |-> 0, accumulated |-> 0]
    /\ sinceDecision' = Counted(sinceDecision)
    /\ UNCHANGED <<thread_cap, throttleOn, last_action, baseline, history,
                   crashed>>

(* A decision tick that finds no profile dereferences NULL. *)
TickNoProfile ==
    /\ ~crashed
    /\ Decides(throughput_delay - 1)
    /\ profile = NoProfile
    /\ crashed' = TRUE
    /\ UNCHANGED <<thread_cap, throttleOn, throughput_delay, last_action,
                   baseline, history, profile, sinceDecision>>

(* The decision tick: on the first one take the baseline, then decide and  *)
(* apply a gradual step, saving the profile as the new history; rearm.     *)
TickDecide ==
    /\ ~crashed
    /\ Decides(throughput_delay - 1)
    /\ profile # NoProfile
    /\ LET first == last_action = "INITIAL_STATE"
           last  == IF first THEN "BASELINE" ELSE last_action
           h     == IF first THEN profile ELSE history
           dir   == Decision(last, h, profile)
       IN /\ baseline' = IF first THEN profile ELSE baseline
          /\ CASE dir = "dec" ->
                    /\ thread_cap' = DecreasedGradual(thread_cap)
                    /\ throttleOn' = TRUE
                    /\ last_action' = "DECREASE"
                    /\ history' = profile
               [] dir = "inc" ->
                    /\ thread_cap' = IncreasedGradual(thread_cap)
                    /\ throttleOn' = FALSE
                    /\ last_action' = "INCREASE"
                    /\ history' = profile
               [] OTHER ->
                    /\ last_action' = last
                    /\ history' = h
                    /\ UNCHANGED <<thread_cap, throttleOn>>
    /\ throughput_delay' = Rearmed
    /\ sinceDecision' = 0
    /\ UNCHANGED <<profile, crashed>>

Next == Run \/ TickWait \/ TickReset \/ TickNoProfile \/ TickDecide

Spec == Init /\ [][Next]_vars

-----------------------------------------------------------------------------
TypeOK ==
    /\ thread_cap \in Int
    /\ throttleOn \in BOOLEAN
    /\ throughput_delay \in 0..WindowSize
    /\ last_action \in Actions
    /\ baseline \in Profiles
    /\ history \in Profiles
    /\ profile \in Profiles \cup {NoProfile}
    /\ crashed \in BOOLEAN
    /\ sinceDecision \in 0..(WindowSize + 1)

(* Spec section 3: min_threads <= thread_cap <= max_threads at all times. *)
CapInBounds == MinThreads <= thread_cap /\ thread_cap <= MaxThreads

(* Spec section 4.4: decisions are staggered: after a decision the policy *)
(* waits, resets the profile on a tick of its own and decides on the next,*)
(* so two decisions (and so two changes of the cap) are WindowSize + 1    *)
(* ticks apart and each reads a profile of exactly one clean interval.     *)
DecisionsStaggered ==
    [][sinceDecision # 0 /\ sinceDecision' = 0
         => sinceDecision = WindowSize]_vars

(* Spec section 7: no error crosses the periodic-tick boundary: a tick of *)
(* the policy never brings the process down.                              *)
NoCrash == ~crashed
=============================================================================
