-------------------------- MODULE ServiceProvision --------------------------
(***************************************************************************)
(* What start-up promises, with no calls, transactions or failures in      *)
(* sight: the service is subscribed and its database migrated once and for *)
(* all, in this order, and a Pod serves only after both.                   *)
(***************************************************************************)
CONSTANT Pod

VARIABLES
    subscribed,   \* the kernel routes pf2e.parse Requests to the service
    migrated,     \* the database has the service's tables and indices
    serving       \* the Pods that answer probes and make passes

vars == <<subscribed, migrated, serving>>

Init == subscribed = FALSE /\ migrated = FALSE /\ serving = {}

Subscribe ==
    /\ ~subscribed
    /\ subscribed' = TRUE
    /\ UNCHANGED <<migrated, serving>>

\* A Pod brings the schema with it; its acknowledgement may be lost.
Migrate ==
    /\ subscribed /\ ~migrated
    /\ migrated' = TRUE
    /\ \E p \in Pod : serving' \in {serving, serving \cup {p}}
    /\ UNCHANGED subscribed

Serve ==
    /\ subscribed /\ migrated
    /\ \E p \in Pod : serving' = serving \cup {p}
    /\ UNCHANGED <<subscribed, migrated>>

Stop ==
    /\ \E p \in serving : serving' = serving \ {p}
    /\ UNCHANGED <<subscribed, migrated>>

Next == Subscribe \/ Migrate \/ Serve \/ Stop

Spec == Init /\ [][Next]_vars
=============================================================================
