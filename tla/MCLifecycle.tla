---------------------------- MODULE MCLifecycle -----------------------------
(***************************************************************************)
(* ServiceLifecycle for TLC.  The configurations count time in units of    *)
(* five seconds, the default poll interval, so that every constant of the  *)
(* code has its exact value.                                               *)
(***************************************************************************)
EXTENDS ServiceLifecycle

\* LeaseHeld and LeaseInvariant are checked for constants such as these.
ASSUME Short == ShortPasses
=============================================================================
