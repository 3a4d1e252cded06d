--------------------------- MODULE DynamicBackends --------------------------
(***************************************************************************)
(* The optional tracing backends of src/apex/apex_dynamic.cpp.  Each entry *)
(* point (cuda::init, cuda::flush, ..., ompt::do_shutdown) is a function   *)
(* that, when its option is set (use_cuda(), use_hip(), use_level0(),      *)
(* use_ompt(), monitor_gpu(), and for the GPU monitors the #ifdef of the   *)
(* build), resolves its symbol once, with dlsym(RTLD_DEFAULT, ...), into a *)
(* function-local static, asserts it is not null (APEX_ASSERT, active in   *)
(* debug builds only) and calls it when it is not null.                    *)
(*                                                                         *)
(* A backend library's symbols become visible to RTLD_DEFAULT when the     *)
(* library is loaded with global scope, which the application or a        *)
(* runtime may do at any time (Load).  The callers of the entry points are *)
(* not under src/: APEX's core calls a backend's init at startup, flush or *)
(* query while running, and stop (or ompt's do_shutdown) at finalize; the  *)
(* model follows that order per backend (phase).                           *)
(***************************************************************************)
CONSTANTS
    Backends,    \* the backend namespaces of apex_dynamic.cpp considered
    Enabled,     \* those whose option is set and whose code is compiled in
    Build        \* "debug": APEX_ASSERT aborts; "release": it is compiled out

\* The entry points of each namespace of apex_dynamic.cpp.
OmptOps        == {"shutdown"}
CudaOps        == {"init", "flush", "stop"}
NvmlOps        == {"query", "stop"}
RsmiOps        == {"query", "stop", "getAvailableMemory"}
RocprofilerOps == {"query", "stop"}
RoctracerOps   == {"init", "flush", "stop"}
Level0Ops      == {"init", "flush", "stop"}

OpsOf(b) == CASE b = "ompt"        -> OmptOps
              [] b = "cuda"        -> CudaOps
              [] b = "nvml"        -> NvmlOps
              [] b = "rsmi"        -> RsmiOps
              [] b = "rocprofiler" -> RocprofilerOps
              [] b = "roctracer"   -> RoctracerOps
              [] b = "level0"      -> Level0Ops
              [] OTHER             -> {}

AllOps == {"init", "flush", "stop", "query", "getAvailableMemory", "shutdown"}

EntryPoints == UNION {{<<b, op>> : op \in OpsOf(b)} : b \in Backends}

\* The backends with an init entry point, whose library expects it first.
Initialised == {b \in Backends : "init" \in OpsOf(b)}

\* The entry points that end a backend's session.
Finalizers == {"stop", "shutdown"}

VARIABLES
    slot,     \* the function-local static of each entry point
    loaded,   \* the backends whose library symbols RTLD_DEFAULT finds
    phase,    \* where the caller is in each backend's session
    reached,  \* the entry points of each library that have been called
    aborted   \* an APEX_ASSERT failed and the process aborted

vars == <<slot, loaded, phase, reached, aborted>>

-----------------------------------------------------------------------------
(* Fault-injection variant of the definition below. *)

\* The symbol looked up on every call, as if the static were dropped.
ResolvedEveryCall(e, b) == IF b \in loaded THEN "fn" ELSE "null"

-----------------------------------------------------------------------------
(* "static ... = (...)dlsym(RTLD_DEFAULT, name);": the initialiser of a    *)
(* function-local static runs on the first call only; it finds the symbol *)
(* if the library is loaded by then, and nullptr otherwise.                *)
Resolved(e, b) ==
    IF slot[e] # "unresolved" THEN slot[e]
    ELSE IF b \in loaded THEN "fn" ELSE "null"

\* A backend library becomes visible to dlsym(RTLD_DEFAULT, ...).
Load(b) ==
    /\ b \notin loaded
    /\ loaded' = loaded \cup {b}
    /\ UNCHANGED <<slot, phase, reached, aborted>>

(* The caller's order within a session: init first (for the backends that *)
(* have one), then flush or query any number of times, stop last.         *)
Allowed(b, op) ==
    IF op = "init" THEN phase[b] = "startup" ELSE phase[b] = "running"

NextPhase(b, op) ==
    CASE op = "init"        -> "running"
      [] op \in Finalizers  -> "finalized"
      [] OTHER              -> phase[b]

(* A call of entry point op of backend b: with the option off, nothing;   *)
(* else resolve the static (first call only), APEX_ASSERT(fn != nullptr)  *)
(* which aborts a debug build, and call fn when it is not null.            *)
Call(b, op) ==
    LET e == <<b, op>>
        s == Resolved(e, b)
    IN /\ ~aborted
       /\ Allowed(b, op)
       /\ phase' = [phase EXCEPT ![b] = NextPhase(b, op)]
       /\ IF b \notin Enabled
            THEN UNCHANGED <<slot, reached, aborted>>
            ELSE /\ slot' = [slot EXCEPT ![e] = s]
                 /\ aborted' = (s = "null" /\ Build = "debug")
                 /\ reached' = IF s = "fn"
                                 THEN [reached EXCEPT ![b] = @ \cup {op}]
                                 ELSE reached
       /\ UNCHANGED loaded

Init ==
    /\ slot = [e \in EntryPoints |-> "unresolved"]
    /\ loaded \in SUBSET Backends
    /\ phase = [b \in Backends |-> IF b \in Initialised THEN "startup"
                                   ELSE "running"]
    /\ reached = [b \in Backends |-> {}]
    /\ aborted = FALSE

Next ==
    \/ \E b \in Backends : Load(b)
    \/ \E e \in EntryPoints : Call(e[1], e[2])

Spec == Init /\ [][Next]_vars

-----------------------------------------------------------------------------
TypeOK ==
    /\ slot \in [EntryPoints -> {"unresolved", "null", "fn"}]
    /\ loaded \subseteq Backends
    /\ phase \in [Backends -> {"startup", "running", "finalized"}]
    /\ reached \in [Backends -> SUBSET AllOps]
    /\ \A b \in Backends : reached[b] \subseteq OpsOf(b)
    /\ aborted \in BOOLEAN

(* Spec section 9: a backend is resolved once and not re-resolved on every *)
(* call: an entry point's static, once set, keeps its value, in particular *)
(* a nullptr stays nullptr after the library is loaded.                    *)
ResolvedOnce ==
    [][\A e \in EntryPoints :
         slot[e] # "unresolved" => slot'[e] = slot[e]]_vars

(* Spec section 9: the backends follow a fixed init/query/flush/stop       *)
(* contract: no flush or stop reaches a backend library whose init did not *)
(* reach it.                                                               *)
ContractOrder ==
    \A b \in Initialised :
        reached[b] \cap {"flush", "stop"} # {} => "init" \in reached[b]

(* Spec section 9: absence of a backend is a normal state, a no-op and not *)
(* an error: no call of an entry point brings the process down.            *)
NoAbort == ~aborted
=============================================================================
