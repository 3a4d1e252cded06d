------------------------- MODULE MC_DynamicBackends -------------------------
(* A small instance: one backend with an init (CUDA), one GPU monitor     *)
(* without one (RSMI) and OMPT, all enabled, in a release build.          *)
EXTENDS DynamicBackends

MCBackends == {"cuda", "rsmi", "ompt"}
=============================================================================
