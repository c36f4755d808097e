-------------------------- MODULE MainLoop_proofs --------------------------
(***************************************************************************)
(* What every step of a process with a main loop keeps, whichever mode the *)
(* process runs in: the lemmas that the proofs about TestMode and          *)
(* Lifecycle share.                                                        *)
(***************************************************************************)
EXTENDS MainLoop, FiniteSetTheorems, TLAPS

LEMMA FaultTakes ==
  ASSUME faults \in 0 .. MaxFaults, NEW k, Fault(k)
  PROVE  /\ faults' \in 0 .. MaxFaults
         /\ faults \in Nat /\ faults' \in Nat
         /\ faults' = faults - 1
         /\ faults' # MaxFaults
BY MaxFaultsAssumption DEF Fault

\* A step meets at most one disturbance.
MayFail == faults' = faults \/ \E k : Fault(k)

LEMMA FaultsFall ==
  ASSUME faults \in 0 .. MaxFaults, MayFail
  PROVE  /\ faults' \in 0 .. MaxFaults /\ faults \in Nat /\ faults' \in Nat
         /\ faults' <= faults
         /\ faults' = MaxFaults => faults = MaxFaults /\ \A k : ~Fault(k)
BY FaultTakes, MaxFaultsAssumption DEF MayFail

LEMMA RecRunsFaults == ASSUME RecRuns PROVE MayFail
<1> USE DEF MayFail
<1>1. CASE TickBegins \/ RepairDelete \/ RepairAdd \/ RepairEnds \/ SweepDelete \/ SweepEnds
  BY <1>1 DEF TickBegins, RepairDelete, RepairAdd, RepairEnds, SweepDelete, SweepEnds, fwVars
<1>2. CASE ListFirewall \/ CheckPolicy \/ SetPolicy \/ RepairKeys
  BY <1>2 DEF ListFirewall, CheckPolicy, SetPolicy, RepairKeys
<1>3. CASE NetshStep(Rec)
  BY <1>3 DEF NetshStep, NetshDelete, NetshAdd, Netsh
<1> QED
  BY <1>1, <1>2, <1>3 DEF RecRuns, Tick

LEMMA LoopFaults ==
  ASSUME LoopStep \/ ServerFails \/ RecReturns \/ Setup
  PROVE  MayFail
BY DEF LoopStep, LoopStarts, Shutdown, LoopEnds, ServerFails, RecReturns, Setup, MayFail, fwVars

-----------------------------------------------------------------------------
(* Counting what a disturbance leaves out                                  *)

LEMMA FewOrNone ==
  /\ Cardinality({}) = 0
  /\ \A x : Cardinality({x}) = 1
BY FS_EmptySet, FS_Singleton

LEMMA NoneMissing ==
  ASSUME NEW bound \in Nat, NEW left \in 0 .. bound, NEW n, n = 0
  PROVE  n <= bound - left
OBVIOUS

-----------------------------------------------------------------------------
(* Types                                                                   *)

\* The tick repairs names of its snapshot, which have addresses there.
TickNames == /\ \A i \in repairs : want[i] # NoRow
             /\ recPc = "idle" => repairs = {}
             /\ recPc = "repair" => call[Rec].name \in repairs

Typed == StoreTypeOK /\ FwTypeOK /\ RecTypeOK /\ LoopTypeOK /\ TickNames

LEMMA RecCall ==
  ASSUME Typed
  PROVE  Rec \in Thread /\ call[Rec] \in Call /\ NoCall \in Call /\ Id \subseteq Name
BY ReconcilerAssumption, MaxIdAssumption DEF Typed, FwTypeOK, Rec, NoCall, Call, Name, Id

LEMMA TickEndsTyped ==
  ASSUME TickEnds, keys' \in BOOLEAN, healthy' \in BOOLEAN
  PROVE  RecTypeOK' /\ TickNames'
BY DEF TickEnds, RecTypeOK, TickNames, NoWant

\* The tick, apart from its calls of the firewall.
LEMMA QuietTickTyped ==
  ASSUME Typed, UNCHANGED loopVars,
         TickBegins \/ ListFirewall \/ CheckPolicy \/ SetPolicy \/ RepairKeys
  PROVE  Typed'
<1> USE DEF Typed
<1>1. /\ UNCHANGED <<rules, lastId, passwordSet, fw, call, loop, ctx, recUp>>
      /\ policy' \in {policy, "block"}
      /\ keys' \in BOOLEAN /\ healthy' \in BOOLEAN
      /\ faults' = faults \/ Fault("netsh") \/ Fault("registry")
  BY DEF TickBegins, ListFirewall, CheckPolicy, SetPolicy, RepairKeys, RecTypeOK,
         storeVars, fwVars, loopVars
<1>2. StoreTypeOK' /\ FwTypeOK' /\ LoopTypeOK'
  <2>1. faults' \in 0 .. MaxFaults
    BY <1>1, FaultTakes DEF FwTypeOK
  <2> QED
    BY <1>1, <2>1 DEF StoreTypeOK, FwTypeOK, LoopTypeOK
<1>3. CASE TickEnds
  BY <1>1, <1>2, <1>3, TickEndsTyped
<1>4. CASE TickBegins
  <2>1. recPc = "idle" /\ recPc' = "list" /\ want' = AllEnabled /\ UNCHANGED <<repairs, sweeps>>
    BY <1>4 DEF TickBegins
  <2>2. ASSUME NEW i \in Id, rules[i] # NoRow PROVE rules[i].ips \in SUBSET Entry
    BY <2>2 DEF StoreTypeOK, Row
  <2>3. want' \in [Id -> (SUBSET Entry) \cup {NoRow}]
    BY <2>1, <2>2 DEF AllEnabled
  <2> QED
    BY <1>1, <1>2, <2>1, <2>3 DEF RecTypeOK, TickNames
<1>5. CASE /\ recPc' = "loop" /\ UNCHANGED want
           /\ repairs' = {i \in Id : want[i] # NoRow /\ (i \notin ParsedNames(fw) \/ ParsedIPs(fw, i) # want[i])}
           /\ sweeps' = {n \in ParsedNames(fw) \ Reserved : want[n] = NoRow}
  <2>1. ParsedNames(fw) \subseteq Name
    BY DEF ParsedNames, FwTypeOK, FwRule
  <2> QED
    BY <1>1, <1>2, <1>5, <2>1 DEF RecTypeOK, TickNames
<1>6. CASE recPc' \in {"setPolicy", "keys"} /\ UNCHANGED <<want, repairs, sweeps>>
  BY <1>1, <1>2, <1>6 DEF RecTypeOK, TickNames
<1> QED
  BY <1>3, <1>4, <1>5, <1>6 DEF ListFirewall, CheckPolicy, SetPolicy, RepairKeys

\* The calls of the repair loop and of the sweep.
LEMMA CallingTickTyped ==
  ASSUME Typed, UNCHANGED loopVars,
         RepairDelete \/ RepairAdd \/ RepairEnds \/ SweepDelete \/ SweepEnds
  PROVE  Typed'
<1> USE DEF Typed
<1>1. /\ UNCHANGED <<rules, lastId, passwordSet, fw, policy, faults, want, keys, healthy,
                     loop, ctx, recUp>>
      /\ repairs' \subseteq repairs /\ sweeps' \subseteq sweeps
      /\ recPc' \in {"loop", "repair", "repaired", "sweep"}
  BY DEF RepairDelete, RepairAdd, RepairEnds, SweepDelete, SweepEnds, storeVars, loopVars
<1>2. RecTypeOK'
  BY <1>1 DEF RecTypeOK
<1>3. ASSUME call' \in [Thread -> Call], recPc' = "repair" => call'[Rec].name \in repairs'
      PROVE  Typed'
  <2>1. StoreTypeOK' /\ FwTypeOK' /\ LoopTypeOK'
    BY <1>1, <1>3 DEF StoreTypeOK, FwTypeOK, LoopTypeOK
  <2>2. TickNames'
    BY <1>1, <1>3 DEF TickNames
  <2> QED
    BY <1>2, <2>1, <2>2
<1>4. ASSUME NEW c \in Call, call' = [call EXCEPT ![Rec] = c]
      PROVE  call' \in [Thread -> Call] /\ call'[Rec] = c
  BY <1>4, RecCall DEF FwTypeOK
<1>5. ASSUME NEW n \in Name PROVE [op |-> "del4", name |-> n, ips |-> {}] \in Call
  BY DEF Call
<1>6. CASE RepairDelete
  <2>1. PICK i \in repairs : call' = [call EXCEPT ![Rec] = [op |-> "del4", name |-> i, ips |-> {}]]
    BY <1>6 DEF RepairDelete, DeleteRule
  <2>2. i \in Name
    BY RecCall DEF RecTypeOK
  <2>3. repairs' = repairs
    BY <1>6 DEF RepairDelete
  <2> DEFINE c == [op |-> "del4", name |-> i, ips |-> {}]
  <2>4. c \in Call /\ c.name = i
    BY <1>5, <2>2
  <2> HIDE DEF c
  <2>5. call' \in [Thread -> Call] /\ call'[Rec] = c
    BY <1>4, <2>1, <2>4 DEF c
  <2> QED
    BY <1>3, <2>3, <2>4, <2>5
<1>7. CASE RepairAdd
  <2> DEFINE n == call[Rec].name
             ips == SplitFamilies(want[n])
             op == IF ips = {} THEN "err" ELSE IF FilterIPs(ips, "v4") # {} THEN "add4" ELSE "add6"
  <2>1. n \in Id /\ want[n] # NoRow /\ n \in Name
    BY <1>7, RecCall DEF RepairAdd, TickNames, RecTypeOK
  <2>2. ips \in SUBSET Entry
    BY <2>1 DEF RecTypeOK, SplitFamilies
  <2>3. op \in {"err", "add4", "add6"}
    OBVIOUS
  <2>4. call' = [call EXCEPT ![Rec] = [op |-> op, name |-> n, ips |-> ips]] /\ recPc' = "repaired"
    BY <1>7 DEF RepairAdd, AddAllowRule
  <2> HIDE DEF n, ips, op
  <2>5. [op |-> op, name |-> n, ips |-> ips] \in Call
    BY <2>1, <2>2, <2>3 DEF Call
  <2> QED
    BY <1>3, <1>4, <2>4, <2>5
<1>8. CASE RepairEnds \/ SweepEnds
  <2>1. call' = [call EXCEPT ![Rec] = NoCall] /\ recPc' = "loop"
    BY <1>8 DEF RepairEnds, SweepEnds, Return
  <2> QED
    BY <1>3, <1>4, <2>1, RecCall
<1>9. CASE SweepDelete
  <2>1. PICK n \in sweeps : call' = [call EXCEPT ![Rec] = [op |-> "del4", name |-> n, ips |-> {}]]
    BY <1>9 DEF SweepDelete, DeleteRule
  <2>2. n \in Name /\ recPc' = "sweep"
    BY <1>9 DEF RecTypeOK, SweepDelete
  <2> QED
    BY <1>3, <1>4, <1>5, <2>1, <2>2
<1> QED
  BY <1>6, <1>7, <1>8, <1>9

\* One netsh run.
LEMMA NetshTyped ==
  ASSUME Typed, UNCHANGED loopVars, NetshStep(Rec), UNCHANGED <<storeVars, recVars>>
  PROVE  Typed'
<1> USE DEF Typed
<1> DEFINE c == call[Rec]
<1>1. c \in Call /\ Rec \in Thread /\ c.name \in Name /\ c.ips \in SUBSET Entry
  BY RecCall DEF Call
<1>2. UNCHANGED <<rules, lastId, passwordSet, policy, recPc, want, repairs, sweeps, keys, healthy,
                  loop, ctx, recUp>>
  BY DEF NetshStep, storeVars, recVars, loopVars
<1>3. ASSUME NEW fam \in Family
      PROVE  /\ fw \ SubRules(c.name, fam) \in SUBSET FwRule
             /\ fw \cup {AllowRule(c.name, fam, FilterIPs(c.ips, fam))} \in SUBSET FwRule
  <2>1. AllowRule(c.name, fam, FilterIPs(c.ips, fam)) \in FwRule
    BY <1>1 DEF AllowRule, FwRule, FilterIPs
  <2> QED
    BY <2>1 DEF FwTypeOK
<1>4. PICK result \in SUBSET FwRule, next \in {"del6", "ok", "add6"} : Netsh(Rec, result, next)
  BY <1>3 DEF NetshStep, NetshDelete, NetshAdd, Family
<1>5. PICK op \in {next, "err"} : call' = [call EXCEPT ![Rec].op = op]
  BY <1>4 DEF Netsh
<1>6. [c EXCEPT !.op = op] \in Call /\ [c EXCEPT !.op = op].name = c.name
  BY <1>1 DEF Call
<1>7. call' \in [Thread -> Call] /\ call'[Rec].name = c.name
  BY <1>1, <1>5, <1>6 DEF FwTypeOK
<1>8. fw' \in SUBSET FwRule /\ faults' \in 0 .. MaxFaults
  BY <1>4, FaultTakes DEF Netsh, FwTypeOK
<1>9. StoreTypeOK' /\ FwTypeOK' /\ LoopTypeOK' /\ RecTypeOK'
  BY <1>2, <1>7, <1>8 DEF StoreTypeOK, FwTypeOK, LoopTypeOK, RecTypeOK
<1>10. TickNames'
  BY <1>2, <1>7 DEF TickNames
<1> QED
  BY <1>9, <1>10

LEMMA RecRunsTyped == ASSUME Typed, RecRuns PROVE Typed'
BY QuietTickTyped, CallingTickTyped, NetshTyped DEF RecRuns, Tick

\* The loop around the reconciler, and the request that opens its gate.
LEMMA LoopTyped ==
  ASSUME Typed, LoopStep \/ ServerFails \/ RecReturns \/ Setup
  PROVE  Typed'
<1> USE DEF Typed
<1>1. /\ UNCHANGED <<rules, lastId, fw, policy, call, recPc, want, repairs, sweeps, keys, healthy>>
      /\ passwordSet' \in BOOLEAN
      /\ loop' \in {"starting", "serving", "draining", "done", "failed", loop}
      /\ recUp' \in BOOLEAN /\ ctx' = ctx
      /\ faults' = faults \/ Fault("start") \/ Fault("bind")
  BY DEF LoopStep, LoopStarts, Shutdown, LoopEnds, ServerFails, RecReturns, Setup, SetPassword,
         StoreTypeOK, LoopTypeOK, storeVars, fwVars, recVars, loopVars
<1>2. faults' \in 0 .. MaxFaults
  BY <1>1, FaultTakes DEF FwTypeOK
<1> QED
  BY <1>1, <1>2 DEF StoreTypeOK, FwTypeOK, LoopTypeOK, RecTypeOK, TickNames

\* Whatever a process leaves behind is outside of it.
LEMMA ProcessGoneTyped ==
  ASSUME Typed, ProcessGone, UNCHANGED <<storeVars, fw, policy, keys>>,
         MayFail
  PROVE  Typed'
<1> USE DEF Typed
<1>1. /\ UNCHANGED <<rules, lastId, passwordSet, fw, policy, keys>>
      /\ healthy' = TRUE /\ TickEnds
      /\ loop' = "off" /\ ctx' = FALSE /\ recUp' = FALSE
      /\ call' = [t \in Thread |-> NoCall]
  BY DEF ProcessGone, storeVars
<1>2. call' \in [Thread -> Call]
  BY <1>1, RecCall
<1>3. faults' \in 0 .. MaxFaults
  BY FaultTakes DEF FwTypeOK, MayFail
<1>4. RecTypeOK' /\ TickNames'
  BY <1>1, TickEndsTyped DEF RecTypeOK
<1> QED
  BY <1>1, <1>2, <1>3, <1>4 DEF StoreTypeOK, FwTypeOK, LoopTypeOK

-----------------------------------------------------------------------------
(* The gate                                                                *)

\* A tick has its goroutine, and has seen a password; a loop that does not
\* run has no goroutine.
Gating == /\ recPc # "idle" => recUp /\ passwordSet
          /\ loop = "off" => ~recUp
          /\ policy = "block" => passwordSet

LEMMA RecRunsGating == ASSUME Gating, RecRuns PROVE Gating'
<1> USE DEF Gating
<1>1. recUp /\ UNCHANGED <<loop, recUp>>
  BY DEF RecRuns, loopVars
<1>2. CASE Tick
  <2>1. passwordSet' = passwordSet
    BY <1>2 DEF Tick, TickBegins, ListFirewall, RepairDelete, RepairAdd, RepairEnds, SweepDelete,
                SweepEnds, CheckPolicy, SetPolicy, RepairKeys, storeVars
  <2>2. passwordSet
    BY <1>2 DEF Tick, TickBegins, ListFirewall, RepairDelete, RepairAdd, RepairEnds, SweepDelete,
                SweepEnds, CheckPolicy, SetPolicy, RepairKeys
  <2> QED
    BY <1>1, <2>1, <2>2
<1>3. CASE NetshStep(Rec) /\ UNCHANGED <<storeVars, recVars>>
  BY <1>1, <1>3 DEF NetshStep, storeVars, recVars
<1> QED
  BY <1>2, <1>3 DEF RecRuns

LEMMA LoopGating ==
  ASSUME Gating, LoopStep \/ ServerFails \/ RecReturns \/ Setup
  PROVE  Gating'
BY DEF Gating, LoopStep, LoopStarts, Shutdown, LoopEnds, ServerFails, RecReturns, Setup, SetPassword,
       storeVars, fwVars, recVars, loopVars

LEMMA ProcessGoneGating ==
  ASSUME Gating, ProcessGone, UNCHANGED <<storeVars, policy>>
  PROVE  Gating'
BY DEF Gating, ProcessGone, TickEnds, storeVars

=============================================================================
