----------------------------- MODULE NetshText -----------------------------
(***************************************************************************)
(* What skfilter writes to netsh and reads back from it.                   *)
(*                                                                         *)
(* An entry of an allowlist row is an address or a network; the address is *)
(* a member of Addr and its IP family is fixed by membership in V6.  netsh *)
(* does not print an entry the way it was given, and the parsers do not    *)
(* keep everything netsh prints, so rendering and parsing are operators of *)
(* their own here and never the identity.                                  *)
(*                                                                         *)
(* Addresses are canonical, as the answers of LookupIP are after String()  *)
(* (refresh.go:157-166).  A literal IPv6 address or a network that a user  *)
(* enters is stored as it was typed (refresh.go:136-149); one that is not  *)
(* canonical would never equal what netsh prints back, and would be        *)
(* rewritten at every tick as networks are.  That spelling is not modelled.*)
(***************************************************************************)
EXTENDS FiniteSets

CONSTANTS Addr,   \* the addresses that DNS answers and literals name
          V6      \* those of Addr that are IPv6

ASSUME V6Assumption == V6 \subseteq Addr

Family == {"v4", "v6"}

\* An address, or (cidr) the network that starts at that address.
Entry == [addr : Addr, cidr : BOOLEAN]

FamilyOf(e) == IF e.addr \in V6 THEN "v6" ELSE "v4"

\* netsh.go filterIPs: the entries of one family, networks included.
FilterIPs(S, fam) == {e \in S : FamilyOf(e) = fam}

\* reconciler.go splitFamilies: net.ParseIP rejects "10.0.0.0/8", so networks
\* are dropped before either family is built.
SplitFamilies(S) == {e \in S : ~e.cidr}

-----------------------------------------------------------------------------
(* `netsh advfirewall firewall show rule name=all`                         *)

\* How netsh prints an entry: a single IPv4 address as "a/32", a single IPv6
\* address as the range "a-a", a network with its prefix length.
Shown == [first : Addr, last : Addr, mask : {"none", "host", "net"}]

Show(e) == [first |-> e.addr,
            last  |-> e.addr,
            mask  |-> IF e.cidr THEN "net"
                      ELSE IF FamilyOf(e) = "v4" THEN "host" ELSE "none"]

\* Mutant: a range is taken as it is, although it has one member.
ParseRemoteIP_KeepsRange(s) == [addr |-> s.first, cidr |-> s.mask = "none"]

\* rules.go parseRemoteIPField: everything from "/" on is cut off, whatever
\* the prefix length, and "X-X" becomes "X".  (A genuine range, which only a
\* rule made by hand has, never equals an entry and is not distinguished.)
ParseRemoteIP(s) == [addr |-> s.first, cidr |-> FALSE]

\* One RemoteIP field.  "Any" parses to no entry at all, as does the field of
\* a rule without remote scope, which is here the empty set.
ParseRemoteIPField(ips) == {ParseRemoteIP(Show(e)) : e \in ips}

\* Mutant: only the suffix _v6 is trimmed, so a _v4 rule has no known name.
ParsedNames_TrimsV6Only(fw) == {r.name : r \in {s \in fw : s.fam # "v4"}}

\* rules.go parseRulesOutput: v4 and v6 siblings, and rules that share a
\* name, are merged under the base name.  Enabled:, Action: and Direction:
\* lines are skipped.
ParsedNames(fw) == {r.name : r \in fw}

ParsedIPs(fw, n) ==
  UNION {ParseRemoteIPField(r.ips) : r \in {s \in fw : s.name = n}}

-----------------------------------------------------------------------------
(* `netsh advfirewall show allprofiles`                                    *)

\* A policy line as policy.go:9-14 quotes it: key and value are separated by
\* spaces, and no colon stands between them.
ShowAllProfiles(pol) == {[key |-> "Firewall Policy", colon |-> FALSE, val |-> pol]}

\* rules.go splitRuleLine: a line without a colon is a miss.
SplitRuleLine(lines) == {l \in lines : l.colon}

\* Mutant: an output without a policy line counts as "block".
ParseDefaultOutbound_EmptyIsBlock(lines) ==
  IF \A l \in SplitRuleLine(lines) : l.key = "Firewall Policy" => l.val = "block"
  THEN "block" ELSE "allow"

\* policy.go parseDefaultOutbound.
ParseDefaultOutbound(lines) ==
  LET policies == {l.val : l \in {k \in SplitRuleLine(lines) : k.key = "Firewall Policy"}}
  IN  IF policies # {} /\ \A p \in policies : p = "block" THEN "block" ELSE "allow"

=============================================================================
