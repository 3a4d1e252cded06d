----------------------- MODULE DynamicBackendsProofs ------------------------
(***************************************************************************)
(* Proofs about the entry points of apex_dynamic.cpp, for any set of       *)
(* backends, any options and either build: the type invariant, and that   *)
(* the function-local static of an entry point, once initialised, never  *)
(* changes, so a backend found absent at the first call stays absent for *)
(* that entry point even after its library is loaded.                      *)
(***************************************************************************)
EXTENDS DynamicBackends, TLAPS

(* An entry point names a backend and one of that backend's operations.  *)
LEMMA EntryPointParts ==
    ASSUME NEW e \in EntryPoints
    PROVE  /\ e[1] \in Backends /\ e[2] \in OpsOf(e[1])
           /\ <<e[1], e[2]>> = e
BY DEF EntryPoints

(* What a call of entry point e changes: the static of e only, set to its *)
(* resolution, and the operations that reached e's backend by at most e's *)
(* own.                                                                    *)
LEMMA CallEffect ==
    ASSUME NEW e \in EntryPoints, Call(e[1], e[2]),
           slot \in [EntryPoints -> {"unresolved", "null", "fn"}],
           aborted \in BOOLEAN
    PROVE  /\ slot' \in {slot, [slot EXCEPT ![e] = Resolved(e, e[1])]}
           /\ reached' \in {reached,
                            [reached EXCEPT ![e[1]] = @ \cup {e[2]}]}
           /\ phase' = [phase EXCEPT ![e[1]] = NextPhase(e[1], e[2])]
           /\ aborted' \in BOOLEAN
           /\ loaded' = loaded
<1>1. <<e[1], e[2]>> = e
  BY EntryPointParts
<1>2. CASE e[1] \in Enabled
  BY <1>1, <1>2 DEF Call
<1>3. CASE e[1] \notin Enabled
  BY <1>1, <1>3 DEF Call
<1>4. QED
  BY <1>2, <1>3

-----------------------------------------------------------------------------
(* Init establishes the type invariant.                                  *)
LEMMA TypeInit == Init => TypeOK
BY DEF Init, TypeOK

(* Every step keeps the types.                                           *)
LEMMA TypeStep == TypeOK /\ [Next]_vars => TypeOK'
<1> SUFFICES ASSUME TypeOK, [Next]_vars PROVE TypeOK'
  OBVIOUS
<1>1. ASSUME NEW b \in Backends, Load(b)
      PROVE  TypeOK'
  BY <1>1 DEF Load, TypeOK
<1>2. ASSUME NEW e \in EntryPoints, Call(e[1], e[2])
      PROVE  TypeOK'
  <2>1. e[1] \in Backends /\ e[2] \in OpsOf(e[1])
    BY EntryPointParts
  <2>2. Resolved(e, e[1]) \in {"unresolved", "null", "fn"}
    BY DEF Resolved, TypeOK
  <2>3. NextPhase(e[1], e[2]) \in {"startup", "running", "finalized"}
    BY <2>1 DEF NextPhase, TypeOK
  <2>4. /\ slot' \in {slot, [slot EXCEPT ![e] = Resolved(e, e[1])]}
        /\ reached' \in {reached,
                         [reached EXCEPT ![e[1]] = @ \cup {e[2]}]}
        /\ phase' = [phase EXCEPT ![e[1]] = NextPhase(e[1], e[2])]
        /\ aborted' \in BOOLEAN
        /\ loaded' = loaded
    BY <1>2, CallEffect DEF TypeOK
  <2>5. slot' \in [EntryPoints -> {"unresolved", "null", "fn"}]
    BY <2>2, <2>4 DEF TypeOK
  <2>6. phase' \in [Backends -> {"startup", "running", "finalized"}]
    BY <2>1, <2>3, <2>4 DEF TypeOK
  <2>7. /\ reached' \in [Backends -> SUBSET AllOps]
        /\ \A b \in Backends : reached'[b] \subseteq OpsOf(b)
    <3>1. OpsOf(e[1]) \subseteq AllOps
      BY <2>1 DEF OpsOf, AllOps, OmptOps, CudaOps, NvmlOps, RsmiOps,
                  RocprofilerOps, RoctracerOps, Level0Ops
    <3>2. QED
      BY <2>1, <2>4, <3>1 DEF TypeOK
  <2>8. QED
    BY <2>4, <2>5, <2>6, <2>7 DEF TypeOK
<1>3. CASE UNCHANGED vars
  BY <1>3 DEF vars, TypeOK
<1>4. QED
  BY <1>1, <1>2, <1>3 DEF Next

(* The type invariant holds in every reachable state: the statics hold    *)
(* nullptr or a function once resolved, and only operations a backend      *)
(* exports ever reach it.                                                  *)
THEOREM TypeCorrect == Spec => []TypeOK
BY TypeInit, TypeStep, PTL DEF Spec

(* Spec section 9, "must not be re-resolved on every call": in every step *)
(* an entry point whose static is initialised keeps its value; a nullptr   *)
(* cached before the library was loaded is never replaced by the symbol.   *)
THEOREM StaticsResolvedOnce == Spec => ResolvedOnce
<1>1. TypeOK /\ [Next]_vars =>
        \A e \in EntryPoints : slot[e] # "unresolved" => slot'[e] = slot[e]
  <2> SUFFICES ASSUME TypeOK, [Next]_vars, NEW e \in EntryPoints,
                      slot[e] # "unresolved"
               PROVE  slot'[e] = slot[e]
    OBVIOUS
  <2>1. ASSUME NEW b \in Backends, Load(b)
        PROVE  slot'[e] = slot[e]
    BY <2>1 DEF Load
  <2>2. ASSUME NEW f \in EntryPoints, Call(f[1], f[2])
        PROVE  slot'[e] = slot[e]
    <3>1. slot' \in {slot, [slot EXCEPT ![f] = Resolved(f, f[1])]}
      BY <2>2, CallEffect DEF TypeOK
    <3>2. f = e => Resolved(f, f[1]) = slot[e]
      BY DEF Resolved
    <3>3. QED
      BY <3>1, <3>2 DEF TypeOK
  <2>3. CASE UNCHANGED vars
    BY <2>3 DEF vars
  <2>4. QED
    BY <2>1, <2>2, <2>3 DEF Next
<1>2. QED
  BY <1>1, TypeCorrect, PTL DEF Spec, ResolvedOnce

-----------------------------------------------------------------------------
(* A call of an enabled backend's entry point: the static takes its       *)
(* resolution, and the operation reaches the library when that is a       *)
(* function.                                                               *)
LEMMA CallEnabled ==
    ASSUME NEW e \in EntryPoints, Call(e[1], e[2]), e[1] \in Enabled
    PROVE  /\ slot' = [slot EXCEPT ![e] = Resolved(e, e[1])]
           /\ reached' = IF Resolved(e, e[1]) = "fn"
                           THEN [reached EXCEPT ![e[1]] = @ \cup {e[2]}]
                           ELSE reached
           /\ phase' = [phase EXCEPT ![e[1]] = NextPhase(e[1], e[2])]
           /\ Allowed(e[1], e[2])
<1>1. <<e[1], e[2]>> = e
  BY EntryPointParts
<1>2. QED
  BY <1>1 DEF Call

(* A call of a disabled backend's entry point changes only the caller's   *)
(* phase.                                                                  *)
LEMMA CallDisabled ==
    ASSUME NEW e \in EntryPoints, Call(e[1], e[2]), e[1] \notin Enabled
    PROVE  /\ slot' = slot /\ reached' = reached
           /\ phase' = [phase EXCEPT ![e[1]] = NextPhase(e[1], e[2])]
           /\ Allowed(e[1], e[2])
BY DEF Call

(* The first call of an entry point initialises its static.               *)
LEMMA ResolvedIsSet ==
    ASSUME NEW e, NEW b
    PROVE  Resolved(e, b) # "unresolved"
BY DEF Resolved

(* After any call of a backend's entry point the backend is past startup. *)
LEMMA PastStartup ==
    ASSUME NEW b \in Backends, NEW op, Allowed(b, op)
    PROVE  NextPhase(b, op) # "startup"
BY DEF Allowed, NextPhase

InitSlot(b) == slot[<<b, "init">>]

(* How the contract can be broken, as an inductive invariant: a backend  *)
(* past startup whose option is on has resolved its init; only an enabled *)
(* backend is ever reached; flush and stop reach it only past startup;    *)
(* and an init static holding the function has reached the library.      *)
ContractInv ==
    /\ TypeOK
    /\ \A b \in Initialised :
         phase[b] # "startup" /\ b \in Enabled => InitSlot(b) # "unresolved"
    /\ \A b \in Backends : reached[b] # {} => b \in Enabled
    /\ \A b \in Initialised :
         reached[b] \cap {"flush", "stop"} # {} => phase[b] # "startup"
    /\ \A b \in Initialised : InitSlot(b) = "fn" => "init" \in reached[b]

(* A backend with an init entry point names an entry point with it.       *)
LEMMA InitEntry ==
    ASSUME NEW b \in Initialised
    PROVE  <<b, "init">> \in EntryPoints /\ b \in Backends
BY DEF Initialised, EntryPoints

LEMMA ContractInvInductive == Spec => []ContractInv
<1>1. Init => ContractInv
  <2> SUFFICES ASSUME Init PROVE ContractInv
    OBVIOUS
  <2>1. TypeOK
    BY TypeInit
  <2>2. QED
    BY <2>1, InitEntry DEF Init, ContractInv, InitSlot
<1>2. ContractInv /\ [Next]_vars => ContractInv'
  <2> SUFFICES ASSUME ContractInv, [Next]_vars PROVE ContractInv'
    OBVIOUS
  <2>0. TypeOK'
    BY TypeStep DEF ContractInv
  <2>1. ASSUME NEW b0 \in Backends, Load(b0)
        PROVE  ContractInv'
    BY <2>0, <2>1 DEF Load, ContractInv, InitSlot
  <2>2. ASSUME NEW e \in EntryPoints, Call(e[1], e[2]), e[1] \notin Enabled
        PROVE  ContractInv'
    <3>1. /\ slot' = slot /\ reached' = reached
          /\ phase' = [phase EXCEPT ![e[1]] = NextPhase(e[1], e[2])]
      BY <2>2, CallDisabled
    <3>2. QED
      BY <2>0, <2>2, <3>1, InitEntry DEF ContractInv, InitSlot, TypeOK
  <2>3. ASSUME NEW e \in EntryPoints, Call(e[1], e[2]), e[1] \in Enabled
        PROVE  ContractInv'
    <3> DEFINE b0 == e[1]  op == e[2]  r == Resolved(e, b0)
    <3>0. b0 \in Backends /\ op \in OpsOf(b0) /\ e = <<b0, op>>
      BY EntryPointParts
    <3>1. /\ slot' = [slot EXCEPT ![e] = r]
          /\ reached' = IF r = "fn"
                          THEN [reached EXCEPT ![b0] = @ \cup {op}]
                          ELSE reached
          /\ phase' = [phase EXCEPT ![b0] = NextPhase(b0, op)]
          /\ Allowed(b0, op)
      BY <2>3, CallEnabled
    <3>2. r # "unresolved" /\ NextPhase(b0, op) # "startup"
      BY <3>0, <3>1, ResolvedIsSet, PastStartup
    <3>3. r = "fn" /\ op = "init" => "init" \in reached'[b0]
      BY <3>0, <3>1 DEF ContractInv, TypeOK
    <3>4. \A b \in Backends : reached[b] \subseteq reached'[b]
      BY <3>0, <3>1 DEF ContractInv, TypeOK
    <3>5. op # "init" => phase[b0] = "running"
      BY <3>1 DEF Allowed
    <3>6. slot[e] = "fn" => r = "fn"
      BY DEF Resolved
    <3>7. \A b \in Initialised :
            phase'[b] # "startup" /\ b \in Enabled => InitSlot(b)' # "unresolved"
      BY <3>0, <3>1, <3>2, <3>5, InitEntry DEF ContractInv, InitSlot, TypeOK
    <3>8. \A b \in Backends : reached'[b] # {} => b \in Enabled
      BY <2>3, <3>0, <3>1 DEF ContractInv, TypeOK
    <3>9. \A b \in Initialised :
            reached'[b] \cap {"flush", "stop"} # {} => phase'[b] # "startup"
      BY <3>0, <3>1, <3>2, InitEntry DEF ContractInv, TypeOK
    <3>10. \A b \in Initialised : InitSlot(b)' = "fn" => "init" \in reached'[b]
      BY <3>0, <3>1, <3>3, <3>4, <3>6, InitEntry DEF ContractInv, InitSlot, TypeOK
    <3>11. QED
      BY <2>0, <3>7, <3>8, <3>9, <3>10 DEF ContractInv
  <2>4. CASE UNCHANGED vars
    BY <2>0, <2>4 DEF vars, ContractInv, InitSlot
  <2>5. QED
    BY <2>1, <2>2, <2>3, <2>4 DEF Next
<1>3. QED
  BY <1>1, <1>2, PTL DEF Spec

(* The divergence of dynamic_late is the only way the backend contract of *)
(* spec section 9 breaks, in either build and for any options: if flush or *)
(* stop reached a library whose init did not, then init's function-local   *)
(* static cached nullptr (the library was not loaded at init's first      *)
(* call); the caller's order alone never skips init.                       *)
THEOREM BrokenOnlyByNullInit ==
    Spec => [](\A b \in Initialised :
                 reached[b] \cap {"flush", "stop"} # {} /\ "init" \notin reached[b]
                   => InitSlot(b) = "null")
<1>1. ContractInv =>
        \A b \in Initialised :
          reached[b] \cap {"flush", "stop"} # {} /\ "init" \notin reached[b]
            => InitSlot(b) = "null"
  BY InitEntry DEF ContractInv, TypeOK, InitSlot
<1>2. QED
  BY <1>1, ContractInvInductive, PTL

=============================================================================
