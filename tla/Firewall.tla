------------------------------ MODULE Firewall ------------------------------
(***************************************************************************)
(* Windows Defender Firewall as skfilter drives it through netsh.exe, and  *)
(* the two operations of NetshFirewall that change rules.                  *)
(*                                                                         *)
(* DeleteRule and AddAllowRule are not atomic: each runs netsh once per    *)
(* address family and stops at the first failure.  A thread that calls one *)
(* of them has its progress in call[t]; the threads' netsh processes       *)
(* interleave.  A netsh run that reports failure (non-zero exit, or killed *)
(* after 30 s) may have taken effect or not.                               *)
(***************************************************************************)
EXTENDS Store

CONSTANTS Thread,     \* goroutines that call the firewall
          Faults,     \* the kinds of disturbance of an instance
          MaxFaults   \* bound: disturbances in one behaviour

ASSUME MaxFaultsAssumption == MaxFaults \in Nat

VARIABLES fw,       \* the skfilter_* rules of the firewall
          policy,   \* default outbound action of the profiles
          call,     \* call[t]: t's DeleteRule or AddAllowRule in progress
          faults    \* disturbances left

fwVars == <<fw, policy, call, faults>>

\* Name i > 0 is "skfilter_<i>"; name 0 stands for the reserved names
\* (skfilter_self_loopback, skfilter_self_program, skfilter_preserve_*).
Name == 0 .. MaxId
Reserved == {0}

\* fam "none" is a rule whose name has neither suffix.  ips = {} is a rule
\* without remote scope ("Any").  owner is auxiliary: who made the rule.
FwRule == [name : Name, fam : Family \cup {"none"}, ips : SUBSET Entry,
           on : BOOLEAN, owner : {"skfilter", "install", "admin"}]

Call == [op : {"none", "del4", "del6", "add4", "add6", "ok", "err"},
         name : Name, ips : SUBSET Entry]

NoCall == [op |-> "none", name |-> 0, ips |-> {}]

FwTypeOK == /\ fw \subseteq FwRule
            /\ policy \in {"allow", "block"}
            /\ call \in [Thread -> Call]
            /\ faults \in 0 .. MaxFaults

\* What -install leaves: the reserved rules.
InstalledRule == [name |-> 0, fam |-> "none", ips |-> {}, on |-> TRUE, owner |-> "install"]

FwInit == /\ fw = {InstalledRule}
          /\ policy = "allow"
          /\ call = [t \in Thread |-> NoCall]
          /\ faults = MaxFaults

Fault(kind) == kind \in Faults /\ faults > 0 /\ faults' = faults - 1

-----------------------------------------------------------------------------
(* Calling, and the value a call returns                                   *)

DeleteRule(t, n) ==
  call' = [call EXCEPT ![t] = [op |-> "del4", name |-> n, ips |-> {}]]

\* Mutant: without the "no valid IPs supplied" check.
AddAllowRule_NoEmptyCheck(t, n, ips) ==
  call' = [call EXCEPT ![t] =
             [op   |-> IF FilterIPs(ips, "v4") # {} THEN "add4" ELSE "add6",
              name |-> n,
              ips  |-> ips]]

\* An AddAllowRule that is left without addresses fails before it runs netsh.
AddAllowRule(t, n, ips) ==
  call' = [call EXCEPT ![t] =
             [op   |-> IF ips = {} THEN "err"
                       ELSE IF FilterIPs(ips, "v4") # {} THEN "add4" ELSE "add6",
              name |-> n,
              ips  |-> ips]]

Returned(t) == call[t].op \in {"ok", "err"}

Return(t) == call' = [call EXCEPT ![t] = NoCall]

-----------------------------------------------------------------------------
(* The netsh runs of a call                                                *)

SubRules(n, fam) == {r \in fw : r.name = n /\ r.fam = fam}

AllowRule(n, fam, ips) ==
  [name |-> n, fam |-> fam, ips |-> ips, on |-> TRUE, owner |-> "skfilter"]

\* One netsh run that turns the rules into `result`, after which t's call is
\* at `next`, or has failed.
Netsh(t, result, next) ==
  \/ /\ fw' = result
     /\ call' = [call EXCEPT ![t].op = next]
     /\ UNCHANGED faults
  \/ /\ Fault("netsh")
     /\ fw' \in {fw, result}
     /\ call' = [call EXCEPT ![t].op = "err"]

\* Mutant: only the _v4 rules are deleted.
NetshDelete_V4Only(t) ==
  /\ call[t].op = "del4"
  /\ Netsh(t, fw \ SubRules(call[t].name, "v4"), "ok")

\* NetshFirewall.DeleteRule: "no rules match" counts as success, any other
\* failure on _v4 leaves _v6 alone.
NetshDelete(t) ==
  \/ /\ call[t].op = "del4"
     /\ Netsh(t, fw \ SubRules(call[t].name, "v4"), "del6")
  \/ /\ call[t].op = "del6"
     /\ Netsh(t, fw \ SubRules(call[t].name, "v6"), "ok")

\* NetshFirewall.AddAllowRule: netsh accepts a second rule of the same name.
NetshAdd(t) ==
  LET v4 == FilterIPs(call[t].ips, "v4")
      v6 == FilterIPs(call[t].ips, "v6")
  IN  \/ /\ call[t].op = "add4"
         /\ Netsh(t, fw \cup {AllowRule(call[t].name, "v4", v4)},
                  IF v6 = {} THEN "ok" ELSE "add6")
      \/ /\ call[t].op = "add6"
         /\ Netsh(t, fw \cup {AllowRule(call[t].name, "v6", v6)}, "ok")

NetshStep(t) == /\ NetshDelete(t) \/ NetshAdd(t)
                /\ UNCHANGED policy

-----------------------------------------------------------------------------
(* What the firewall lets through under a name                             *)

Permits(n) ==
  LET enabled == {r \in fw : r.name = n /\ r.on}
  IN  IF \E r \in enabled : r.ips = {} THEN Entry
      ELSE UNION {r.ips : r \in enabled}

=============================================================================
