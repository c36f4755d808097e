--------------------------- MODULE MC_Enforcement ---------------------------
(* Instances of Enforcement for TLC. *)
EXTENDS Enforcement, TLC

CONSTANTS a4, b4, c6,   \* two IPv4 addresses and an IPv6 address
          host          \* an entry of the allowlist

Ip(a) == [addr |-> a, cidr |-> FALSE]
Net(a) == [addr |-> a, cidr |-> TRUE]

\* host moves from one address to another.
MovingHost == (host :> {{Ip(a4)}, {Ip(b4)}})

\* host gains and loses an IPv6 address, and its lookup can fail.
DualStackHost == (host :> {{Ip(a4)}, {Ip(a4), Ip(c6)}, {}})

\* A network: lookupBoth returns it as it is.
Network == (host :> {{Net(a4)}})

MCThread == Http \cup {"reconciler", "refresher"}

=============================================================================
