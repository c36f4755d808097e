----------------------------- MODULE Reconciler -----------------------------
(***************************************************************************)
(* The reconciler: one goroutine that, every five seconds, compares a      *)
(* snapshot of the rules table with a listing of the firewall and rewrites *)
(* what differs, then the default policy, then the browser policy keys.    *)
(*                                                                         *)
(* The snapshot, the listing and each netsh run of the repairs are steps   *)
(* of their own: the table and the firewall change in between.  A tick     *)
(* only ever looks at what it read at its start.                           *)
(***************************************************************************)
EXTENDS Firewall

ASSUME ReconcilerAssumption == "reconciler" \in Thread

VARIABLES recPc,     \* where the tick is
          want,      \* desiredByName: NoRow, or the addresses of the row
          repairs,   \* names the repair loop has still to visit
          sweeps,    \* names the sweep has still to visit
          keys,      \* the browser policy keys in the registry are whole
          healthy    \* policyHealthy

recVars == <<recPc, want, repairs, sweeps, keys, healthy>>

Rec == "reconciler"

NoWant == [i \in Id |-> NoRow]

RecTypeOK ==
  /\ recPc \in {"idle", "list", "loop", "repair", "repaired", "sweep", "setPolicy", "keys"}
  /\ want \in [Id -> (SUBSET Entry) \cup {NoRow}]
  /\ repairs \subseteq Id
  /\ sweeps \subseteq Name
  /\ keys \in BOOLEAN
  /\ healthy \in BOOLEAN

RecInit == /\ recPc = "idle"
           /\ want = NoWant
           /\ repairs = {}
           /\ sweeps = {}
           /\ keys = TRUE
           /\ healthy = TRUE

\* tick returns; its locals are gone.
TickEnds == /\ recPc' = "idle"
            /\ want' = NoWant
            /\ repairs' = {}
            /\ sweeps' = {}

-----------------------------------------------------------------------------

\* Mutant: without the ShouldEnforce gate.
TickBegins_NoGate ==
  /\ recPc = "idle"
  /\ recPc' = "list"
  /\ want' = AllEnabled
  /\ UNCHANGED <<storeVars, fwVars, repairs, sweeps, keys, healthy>>

\* The gate ShouldEnforce, then store.Rules.AllEnabled.  (The gate before it,
\* enforceDefaultDeny, is the mode of the process: -test and the service pass
\* it, and Enforcement, which knows -dev as well, has it in RecStep.)
TickBegins ==
  /\ recPc = "idle"
  /\ passwordSet
  /\ recPc' = "list"
  /\ want' = AllEnabled
  /\ UNCHANGED <<storeVars, fwVars, repairs, sweeps, keys, healthy>>

\* ListSkfilterRules and the diff: rows whose listed addresses differ, and
\* listed names without a row that are not reserved.
ListFirewall ==
  LET mismatched(i) == \/ i \notin ParsedNames(fw)
                       \/ ParsedIPs(fw, i) # want[i]
  IN  /\ recPc = "list"
      /\ \/ /\ recPc' = "loop"
            /\ repairs' = {i \in Id : want[i] # NoRow /\ mismatched(i)}
            /\ sweeps' = {n \in ParsedNames(fw) \ Reserved : want[n] = NoRow}
            /\ UNCHANGED <<want, faults>>
         \/ Fault("netsh") /\ TickEnds
      /\ UNCHANGED <<storeVars, fw, policy, call, keys, healthy>>

\* The repair loop ranges over a map: any order.
RepairDelete ==
  /\ recPc = "loop"
  /\ \E i \in repairs : DeleteRule(Rec, i)
  /\ recPc' = "repair"
  /\ UNCHANGED <<storeVars, fw, policy, faults, want, repairs, sweeps, keys, healthy>>

\* The result of DeleteRule is discarded.
RepairAdd ==
  LET i == call[Rec].name
  IN  /\ recPc = "repair" /\ Returned(Rec)
      /\ AddAllowRule(Rec, i, SplitFamilies(want[i]))
      /\ recPc' = "repaired"
      /\ UNCHANGED <<storeVars, fw, policy, faults, want, repairs, sweeps, keys, healthy>>

\* rule_repaired or rule_repair_failed; either way the loop goes on.
RepairEnds ==
  /\ recPc = "repaired" /\ Returned(Rec)
  /\ repairs' = repairs \ {call[Rec].name}
  /\ Return(Rec)
  /\ recPc' = "loop"
  /\ UNCHANGED <<storeVars, fw, policy, faults, want, sweeps, keys, healthy>>

SweepDelete ==
  /\ recPc = "loop" /\ repairs = {}
  /\ \E n \in sweeps : DeleteRule(Rec, n)
  /\ recPc' = "sweep"
  /\ UNCHANGED <<storeVars, fw, policy, faults, want, repairs, sweeps, keys, healthy>>

SweepEnds ==
  /\ recPc = "sweep" /\ Returned(Rec)
  /\ sweeps' = sweeps \ {call[Rec].name}
  /\ Return(Rec)
  /\ recPc' = "loop"
  /\ UNCHANGED <<storeVars, fw, policy, faults, want, repairs, keys, healthy>>

\* GetDefaultOutbound; an error ends the tick before the policy keys.
CheckPolicy ==
  /\ recPc = "loop" /\ repairs = {} /\ sweeps = {}
  /\ \/ /\ recPc' = IF ParseDefaultOutbound(ShowAllProfiles(policy)) # "block"
                    THEN "setPolicy" ELSE "keys"
        /\ UNCHANGED <<want, repairs, sweeps, faults>>
     \/ Fault("netsh") /\ TickEnds
  /\ UNCHANGED <<storeVars, fw, policy, call, keys, healthy>>

\* SetDefaultOutboundBlock; so does an error here.
SetPolicy ==
  /\ recPc = "setPolicy"
  /\ \/ /\ policy' = "block"
        /\ recPc' = "keys"
        /\ UNCHANGED <<want, repairs, sweeps, faults>>
     \/ /\ Fault("netsh")
        /\ policy' \in {policy, "block"}
        /\ TickEnds
  /\ UNCHANGED <<storeVars, fw, call, keys, healthy>>

\* policyRepairer; policyHealthy follows its outcome.
RepairKeys ==
  /\ recPc = "keys"
  /\ \/ keys' = TRUE /\ healthy' = TRUE /\ UNCHANGED faults
     \/ Fault("registry") /\ healthy' = FALSE /\ UNCHANGED keys
  /\ TickEnds
  /\ UNCHANGED <<storeVars, fw, policy, call>>

Tick == \/ TickBegins \/ ListFirewall
        \/ RepairDelete \/ RepairAdd \/ RepairEnds
        \/ SweepDelete \/ SweepEnds
        \/ CheckPolicy \/ SetPolicy \/ RepairKeys

=============================================================================
