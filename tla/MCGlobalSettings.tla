-------------------------- MODULE MCGlobalSettings --------------------------
(* GlobalSettings for TLC: the apps are interchangeable, but symmetry is not
   sound for the liveness the run checks with the invariants. *)
EXTENDS GlobalSettings
=============================================================================
