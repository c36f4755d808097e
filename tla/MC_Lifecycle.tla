---------------------------- MODULE MC_Lifecycle ----------------------------
(* Instances of Lifecycle for TLC: a database that may have one entry. *)
EXTENDS Lifecycle

CONSTANTS a4, host

Ip(a) == [addr |-> a, cidr |-> FALSE]

OneRow == [domain |-> host, ips |-> {Ip(a4)}, resolved |-> TRUE]
OneThread == {"reconciler"}

=============================================================================
