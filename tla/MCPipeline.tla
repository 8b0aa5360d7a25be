---------------------------- MODULE MCPipeline ------------------------------
(***************************************************************************)
(* Values of the constants of AdmissionPipeline for TLC: one document     *)
(* version known under two digests, a text of two blocks, one with none    *)
(* (separators only) and a blank one.                                      *)
(***************************************************************************)
EXTENDS AdmissionPipeline, TLC

CONSTANTS w1, w2, v, d1, d2, p1, p2, two, none, blank, b1, b2

MCBlockCount == (two :> 2) @@ (none :> 0) @@ (blank :> 0)

Ref(digest, fragment) == [version |-> v, digest |-> digest, fragment |-> fragment]

MCSource == {Ref(d1, two), Ref(d1, none), Ref(d2, two), Ref(d1, blank)}

SameRelease == (w1 :> p1) @@ (w2 :> p1)

\* A scope nobody can parse, and the same parse requested twice.
MalformedAndDuplicates == <<Malformed, Ref(d1, two), Ref(d1, two)>>

\* An action this service does not know, and a parse.
UnknownAndParse == <<UnknownAction, Ref(d1, two)>>

\* Two passages of one document.
TwoPassages == <<Ref(d1, two), Ref(d1, none)>>

OneWorker == (w1 :> p1)

\* UUIDs are drawn at random and only compared; the workers run one release.
PipelineSymmetry == Permutations(Batch) \cup Permutations(Worker)
=============================================================================
