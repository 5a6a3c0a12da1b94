----------------------------- MODULE MCPS4Auth -----------------------------
(* Model checking PS4Auth. *)
EXTENDS PS4Auth
=============================================================================
