---------------------------- MODULE MCRepository ----------------------------
(***************************************************************************)
(* Values of the constants of PostgresRepository for TLC: one document     *)
(* version known under two digests, a text of two blocks, one with none    *)
(* (separators only) and a blank one.  A process can store at most one     *)
(* parse of a version before every later call of it is answered from the   *)
(* record or refused, so one Batch per process and version is enough.      *)
(***************************************************************************)
EXTENDS PostgresRepository, TLC

CONSTANTS w1, w2, w3, v, d1, d2, p1, p2, two, none, blank, b1, b2, b3

MCBlockCount == (two :> 2) @@ (none :> 0) @@ (blank :> 0)

Ref(digest, fragment) == [version |-> v, digest |-> digest, fragment |-> fragment]

MCSource == {Ref(d1, two), Ref(d1, none), Ref(d2, two), Ref(d1, blank)}

\* A rolling update: two old processes and a new one run side by side.
RollingUpdate == (w1 :> p1) @@ (w2 :> p1) @@ (w3 :> p2)

SameRelease == (w1 :> p1) @@ (w2 :> p1)

\* UUIDs are drawn at random and only compared.
BatchSymmetry == Permutations(Batch)
=============================================================================
