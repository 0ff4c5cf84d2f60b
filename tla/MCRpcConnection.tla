-------------------------- MODULE MCRpcConnection --------------------------
(* RpcConnection for TLC.  The writers are interchangeable, but symmetry is
   not sound for the liveness the run checks with the invariants. *)
EXTENDS RpcConnection
=============================================================================
