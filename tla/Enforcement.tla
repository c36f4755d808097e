---------------------------- MODULE Enforcement ----------------------------
(***************************************************************************)
(* The running service: reconciler, resolver and dashboard handlers of one *)
(* process over one database and one firewall, with the people, programs   *)
(* and failures around it.  runMainLoop (cmd/service.go) starts them side  *)
(* by side; nothing orders their steps.                                    *)
(*                                                                         *)
(* Disturbances are limited to MaxFaults per behaviour, of the kinds in    *)
(* Faults:                                                                 *)
(*   "netsh" "registry"  a run of netsh, a registry write fails            *)
(*   "dns"               the answer for a hostname changes                 *)
(*   "crash"             the process dies; another one is started          *)
(*   "delete" "foreign" "bare" "any" "disable" "reset" "allow" "keys"      *)
(*                       an administrator changes the machine by hand      *)
(***************************************************************************)
EXTENDS RulesApi, Reconciler

CONSTANT Modes   \* the modes that a process may be started in: TRUE enforces,
                 \* as the service does, FALSE is skfilter -dev

ASSUME ModesAssumption == Modes \subseteq BOOLEAN
ASSUME ThreadAssumption == Rec \notin Worker

VARIABLES enforce,  \* runMode.enforceDefaultDeny of the running process
          clean     \* auxiliary: since the tick began, the tick has had no
                    \* failure and nothing else has touched what it manages

vars == <<storeVars, fwVars, resolverVars, recVars, enforce, clean>>

TypeOK == /\ StoreTypeOK /\ FwTypeOK /\ ResolverTypeOK /\ RecTypeOK
          /\ enforce \in BOOLEAN
          /\ clean \in BOOLEAN

Init == /\ StoreInit /\ FwInit /\ ResolverInit /\ RecInit
        /\ enforce \in Modes
        /\ clean = FALSE

-----------------------------------------------------------------------------
(* Disturbances                                                            *)

DnsChanges(d) ==
  /\ Fault("dns")
  /\ \E ans \in Answers[d] \ {dns[d]} : dns' = [dns EXCEPT ![d] = ans]
  /\ UNCHANGED <<storeVars, fw, policy, call, wk, queue, answered, recVars>>

\* The SCM restarts the service, or somebody starts the next process by hand,
\* in whatever mode; what the threads were doing is lost, what they had
\* written is not.
CrashAndRestart ==
  /\ Fault("crash")
  /\ enforce' \in Modes
  /\ call' = [t \in Thread |-> NoCall]
  /\ wk' = [w \in Worker |-> Idle]
  /\ queue' = {}
  /\ TickEnds
  /\ healthy' = TRUE
  /\ UNCHANGED <<storeVars, fw, policy, dns, answered, keys>>

\* wf.msc, netsh and regedit in the hands of an administrator.
AdminRule(n, fam, ips) ==
  [name |-> n, fam |-> fam, ips |-> ips, on |-> TRUE, owner |-> "admin"]

AdminEditsRules ==
  /\ \/ /\ Fault("delete")
        /\ \E r \in fw : r.name \in Id /\ fw' = fw \ {r}
     \/ /\ Fault("foreign")
        /\ \E i \in Id, e \in Entry :
             ~e.cidr /\ fw' = fw \cup {AdminRule(i, FamilyOf(e), {e})}
     \/ /\ Fault("bare")
        /\ \E i \in Id, e \in Entry :
             ~e.cidr /\ fw' = fw \cup {AdminRule(i, "none", {e})}
     \/ /\ Fault("any")
        /\ \E i \in Id : fw' = fw \cup {AdminRule(i, "v4", {})}
     \/ /\ Fault("disable")
        /\ \E r \in fw : r.on /\ r.name \in Id
                         /\ fw' = (fw \ {r}) \cup {[r EXCEPT !.on = FALSE]}
  /\ UNCHANGED <<storeVars, policy, call, resolverVars, recVars>>

AdminAllowsOutbound ==
  /\ policy = "block"
  /\ Fault("allow")
  /\ policy' = "allow"
  /\ UNCHANGED <<storeVars, fw, call, resolverVars, recVars>>

\* netsh advfirewall reset
AdminResetsFirewall ==
  /\ Fault("reset")
  /\ fw' = {} /\ policy' = "allow"
  /\ UNCHANGED <<storeVars, call, resolverVars, recVars>>

AdminDeletesKeys ==
  /\ keys
  /\ Fault("keys")
  /\ keys' = FALSE
  /\ UNCHANGED <<storeVars, fw, policy, call, resolverVars,
                 recPc, want, repairs, sweeps, healthy>>

Environment == \/ CrashAndRestart
               \/ /\ \/ \E d \in Domain : DnsChanges(d)
                     \/ AdminEditsRules
                     \/ AdminAllowsOutbound
                     \/ AdminResetsFirewall
                     \/ AdminDeletesKeys
                  /\ UNCHANGED enforce

-----------------------------------------------------------------------------
(* The service                                                             *)

(* The last conjunct of each step keeps the auxiliary variable.            *)

\* Mutant: the mode does not reach the reconciler.
RecStep_AnyMode ==
  /\ Tick \/ (NetshStep(Rec) /\ UNCHANGED <<storeVars, recVars>>)
  /\ UNCHANGED <<resolverVars, enforce>>
  /\ clean' = (recPc = "idle" \/ (clean /\ faults' = faults))

\* In -dev mode tick returns at its first line.
RecStep ==
  /\ recPc = "idle" => enforce
  /\ Tick \/ (NetshStep(Rec) /\ UNCHANGED <<storeVars, recVars>>)
  /\ UNCHANGED <<resolverVars, enforce>>
  /\ clean' = (recPc = "idle" \/ (clean /\ faults' = faults))

Disturbs == clean' = (clean /\ UNCHANGED <<rules, fw, policy, recPc>>)

WorkerStep(w) ==
  /\ ResolveAndApply(w) \/ (NetshStep(w) /\ UNCHANGED <<storeVars, resolverVars>>)
  /\ UNCHANGED <<recVars, enforce>>
  /\ Disturbs

RefresherStep == \/ WorkerStep(Refresher)
                 \/ (RefreshAll \/ RefreshNext) /\ UNCHANGED <<recVars, enforce>> /\ Disturbs

\* Requests, which nobody has to make.
Request ==
  /\ \/ SetPassword /\ UNCHANGED <<fwVars, resolverVars>>
     \/ \E h \in Http, d \in Domain : HandleAddRule(h, d)
     \/ \E i \in Id : HandleDeleteRule(i)
     \/ \E h \in Http, i \in Id : HandleRefreshRule(h, i)
  /\ UNCHANGED <<recVars, enforce>>
  /\ Disturbs

Next == \/ RecStep
        \/ RefresherStep
        \/ \E h \in Http : WorkerStep(h)
        \/ Request
        \/ Environment /\ Disturbs

Spec == Init /\ [][Next]_vars

\* Every goroutine keeps running: tickers fire, netsh and lookups end (both
\* have timeouts), and a handler that was started goes on.
Fairness == /\ WF_vars(RecStep)
            /\ WF_vars(RefresherStep)
            /\ \A h \in Http : WF_vars(WorkerStep(h))

FairSpec == Spec /\ Fairness

-----------------------------------------------------------------------------
(* Safety                                                                  *)

\* Every address that skfilter itself has opened under skfilter_<i> was
\* returned by a lookup for the domain of row i, and the rule is limited to
\* addresses of its own family: whatever was deleted, inserted, restarted or
\* half done while a worker held an old answer.
\* (resolver/refresh.go ResolveAndApply, reconciler.go tick, netsh.go:51-52)
Provenance ==
  \A r \in fw : r.owner = "skfilter" =>
    /\ r.name \in Id
    /\ r.ips # {}
    /\ r.ips \subseteq FilterIPs(answered[r.name], r.fam)

\* The repairs and the sweep of one tick.
SweepDone == recPc = "loop" /\ repairs = {} /\ sweeps = {}

RowAddresses(i) == IF i \in RowIds THEN rules[i].ips ELSE {}

InSync(i) == Permits(i) = RowAddresses(i)

\* What parseRulesOutput and DeleteRule cannot tell from a rule of skfilter's
\* own: a disabled one, one without remote scope, one without suffix.
Invisible(r) == r.name \in Id /\ (~r.on \/ r.ips = {} \/ r.fam = "none")

\* A tick that nothing interfered with needs no second one: when its repair
\* loop and its sweep are over, the firewall permits under every name exactly
\* the addresses of its row, whatever was there before (stale addresses,
\* duplicates, orphans, one family missing), except for names that have a
\* rule the parser and DeleteRule do not see for what it is.
\* (reconciler.go:126-162)
TickSyncs ==
  SweepDone /\ clean =>
    \A i \in Id : InSync(i) \/ \E r \in fw : r.name = i /\ Invisible(r)

\* Why a tick may rewrite the rules of a name: they are not those of its row,
\* or cannot be seen for what they are, or the row has no addresses yet.
Due(i) == \/ ~InSync(i)
          \/ i \in RowIds /\ rules[i].ips = {}
          \/ \E r \in fw : r.name = i /\ Invisible(r)

\* Nor does it take away, even for a moment, rules that are already correct:
\* each rewrite cuts the connections of its hosts and writes an audit entry.
\* (reconciler.go:126-162, and the loop that rules.go:138-140 describes; a
\* network is in that loop all the same, since its prefix is cut off)
LeavesCorrectAlone ==
  [][clean /\ (RepairDelete \/ SweepDelete) => Due(call'[Rec].name)]_vars

\* Until a password is set the default policy is untouched, and skfilter opens
\* nothing before somebody could have logged in, in whatever mode.
\* (reconciler.go:93-100, service.go:131-138)
StandDown ==
  ~passwordSet => policy = "allow" /\ \A r \in fw : r.owner # "skfilter"

\* In -dev mode the reconciler changes nothing, also on a machine that an
\* enforcing process has left blocked, with its rules and half of a tick: a
\* default policy or a key that was changed by hand stays changed, and a rule
\* comes or goes only by hand or by a resolver's call for that very name - so
\* the rule of a deleted row stays.  (reconciler.go:43-46, 89-92; README.md:92
\* and 102-124 promise the opposite of a running skfilter -dev.)
DevStandsDown ==
  [][~enforce =>
       /\ policy' = "block" => policy = "block"
       /\ keys' => keys
       /\ \A r \in (fw \ fw') \cup (fw' \ fw) :
            \/ AdminEditsRules \/ AdminResetsFirewall
            \/ \E w \in Worker : call[w].op # "none" /\ call[w].name = r.name]_vars

\* A row that was deleted stays deleted: neither a worker that still holds a
\* copy of it nor a later insert brings its id back, so that a rule left in
\* the firewall never finds a new owner.  (db/rules.go UpdateIPs, schema.sql:11)
DeletedStaysDeleted ==
  [][\A i \in Id : i <= lastId /\ rules[i] = NoRow => rules'[i] = NoRow]_vars

-----------------------------------------------------------------------------
(* What the service promises                                               *)

Stage(i) == IF i > lastId THEN "unborn" ELSE IF rules[i] = NoRow THEN "gone" ELSE "live"

\* What skfilter has opened under a name.
Opens(i) == UNION {r.ips : r \in {s \in fw : s.owner = "skfilter" /\ s.name = i}}

Promise == INSTANCE Allowlist WITH
             Entries <- Id,
             Address <- Entry,
             ready   <- passwordSet,
             stage   <- [i \in Id |-> Stage(i)],
             ever    <- answered,
             open    <- [i \in Id |-> Opens(i)]

\* The service, its threads and netsh runs seen from outside, is an allowlist:
\* no step opens an address for an entry that has not had it as an answer,
\* touches two entries at once, or takes an entry through its life twice.
ImplementsAllowlist == Promise!Spec

-----------------------------------------------------------------------------
(* Why the safety invariants hold                                          *)

Opened == 1 .. lastId   \* the ids that have had a row

\* Every place an address passes on its way from a lookup to the firewall
\* holds answers of the right row only: the firewall itself, ...
FwFlow ==
  \A r \in fw : r.owner = "skfilter" =>
    /\ r.name \in Opened
    /\ r.ips # {}
    /\ r.ips \subseteq FilterIPs(answered[r.name], r.fam)

\* ... the rows, ...
RowFlow == \A i \in RowIds : i \in Opened /\ rules[i].ips \subseteq answered[i]

\* ... the reconciler's snapshot of the rows, ...
WantFlow == \A i \in Id : want[i] # NoRow => i \in Opened /\ want[i] \subseteq answered[i]

\* ... the AddAllowRule calls in progress, which run netsh only for a family
\* that has addresses, ...
CallFlow ==
  \A t \in Thread :
    /\ call[t].op \in {"add4", "add6"} => /\ call[t].name \in Opened
                                          /\ call[t].ips \subseteq answered[call[t].name]
    /\ call[t].op = "add4" => FilterIPs(call[t].ips, "v4") # {}
    /\ call[t].op = "add6" => FilterIPs(call[t].ips, "v6") # {}

\* ... and the answers that workers hold.
WorkerFlow ==
  \A w \in Worker :
    /\ wk[w].pc \in {"lookup", "deleted", "added"} => wk[w].id \in Opened /\ wk[w].row \in Row
    /\ wk[w].pc \in {"deleted", "added"} => wk[w].new \subseteq answered[wk[w].id]

\* The reconciler works on names of its snapshot, and only past both gates.
TickShape ==
  /\ recPc # "idle" => passwordSet
  /\ recPc = "idle" => repairs = {}
  /\ \A i \in repairs : want[i] # NoRow
  /\ recPc = "repair" => call[Rec].name \in repairs

ModeGate == recPc # "idle" => enforce

Gate == /\ lastId > 0 => passwordSet
        /\ policy = "block" => passwordSet

IInv == /\ TypeOK
        /\ FwFlow /\ RowFlow /\ WantFlow /\ CallFlow /\ WorkerFlow
        /\ TickShape /\ ModeGate /\ Gate

-----------------------------------------------------------------------------
(* Liveness                                                                *)

\* Disturbances and ids run out, so from some point on the machine is what
\* the allowlist says: rules, default policy and browser policy keys.
\* (reconciler.go:14-17)
Settles ==
  <>[](passwordSet => /\ \A i \in Id : InSync(i)
                      /\ policy = "block"
                      /\ keys)

\* The addresses of every row are finally those that DNS gives for its
\* domain, however lookups, crashes and slow handlers interleaved.
\* (resolver/refresh.go:47-61)
RowsFollowDns ==
  <>[](\A i \in RowIds : dns[rules[i].domain] # {}
                         => rules[i].ips = dns[rules[i].domain])

\* Once its row is deleted, a rule disappears from the firewall.
\* (README.md:92)
DeletedRuleGoes ==
  \A i \in Id : (i <= lastId /\ i \notin RowIds) ~> (Permits(i) = {})

-----------------------------------------------------------------------------
(* What a comment says and the code does not do                            *)

\* netsh.go:125-130: default-deny is not "re-applied every tick", with a
\* policy_drift_recovered entry each time, while it is in force.
ReappliedOnDriftOnly == [][SetPolicy => policy # "block"]_vars

=============================================================================
