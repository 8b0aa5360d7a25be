-------------------------- MODULE MCPollScheduling ---------------------------
(***************************************************************************)
(* PollScheduling for TLC: a lease in which the passes of MaxBad failing   *)
(* Routes just fit, and two Routes that can succeed at least.              *)
(***************************************************************************)
EXTENDS PollScheduling
=============================================================================
