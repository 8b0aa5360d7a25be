---------------------------- MODULE MCPodStartup ----------------------------
(***************************************************************************)
(* PodStartup for TLC: three Pods, as in a rolling update of two, and the  *)
(* four statements of the migration.                                       *)
(***************************************************************************)
EXTENDS PodStartup
=============================================================================
