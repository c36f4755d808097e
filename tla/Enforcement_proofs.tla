------------------------- MODULE Enforcement_proofs -------------------------
(***************************************************************************)
(* Proofs about Enforcement, for every set of domains, addresses, handlers *)
(* and disturbances and for every bound.                                   *)
(***************************************************************************)
EXTENDS Enforcement, TLAPS

-----------------------------------------------------------------------------
(* Lemmas about the text that goes to netsh and comes back                 *)

\* Every entry belongs to one of the two families that AddAllowRule opens.
LEMMA FamilyOfType ==
  ASSUME NEW e
  PROVE  FamilyOf(e) \in Family
BY DEF FamilyOf, Family

\* A set of entries is lost by the split into families only if it is empty.
LEMMA FilterIPsCover ==
  ASSUME NEW S, S # {}, FilterIPs(S, "v4") = {}
  PROVE  FilterIPs(S, "v6") # {}
BY FamilyOfType DEF FilterIPs, Family

\* The value of a call, whichever of the two operations it is.
LEMMA CallTypes ==
  ASSUME NEW n \in Name, NEW ips \in SUBSET Entry
  PROVE  /\ [op |-> "del4", name |-> n, ips |-> {}] \in Call
         /\ [op |-> IF ips = {} THEN "err"
                    ELSE IF FilterIPs(ips, "v4") # {} THEN "add4" ELSE "add6",
             name |-> n, ips |-> ips] \in Call
         /\ NoCall \in Call
BY MaxIdAssumption DEF Call, NoCall, Name

-----------------------------------------------------------------------------
(* Type correctness                                                        *)

LEMMA InitType == Init => TypeOK
<1>1. StoreInit => StoreTypeOK
  <2>1. StoreInit => rules \in [Id -> Row \cup {NoRow}]
    BY DEF StoreInit
  <2>2. StoreInit => lastId \in 0 .. MaxId
    BY MaxIdAssumption DEF StoreInit
  <2>3. StoreInit => passwordSet \in BOOLEAN
    BY DEF StoreInit
  <2>4. QED BY <2>1, <2>2, <2>3 DEF StoreTypeOK
<1>2. FwInit => FwTypeOK
  <2>1. InstalledRule \in FwRule
    BY MaxIdAssumption DEF InstalledRule, FwRule, Name
  <2>2. NoCall \in Call
    BY MaxIdAssumption DEF NoCall, Call, Name
  <2>3. QED BY <2>1, <2>2, MaxFaultsAssumption DEF FwInit, FwTypeOK
<1>3. ResolverInit => ResolverTypeOK
  <2>1. Idle \in Progress
    BY MaxIdAssumption DEF Idle, Progress
  <2>2. QED BY <2>1 DEF ResolverInit, ResolverTypeOK
<1>4. RecInit => RecTypeOK
  BY DEF RecInit, RecTypeOK, NoWant
<1>5. QED BY <1>1, <1>2, <1>3, <1>4, ModesAssumption DEF Init, TypeOK

LEMMA FaultType ==
  ASSUME faults \in 0 .. MaxFaults, NEW k, Fault(k)
  PROVE  faults' \in 0 .. MaxFaults
BY MaxFaultsAssumption DEF Fault

LEMMA InsertType ==
  ASSUME StoreTypeOK, NEW d \in Domain, InsertRow(d)
  PROVE  /\ rules' \in [Id -> Row \cup {NoRow}]
         /\ lastId' \in Id
         /\ lastId' \in 0 .. MaxId
<1>1. lastId + 1 \in Id
  BY MaxIdAssumption DEF StoreTypeOK, InsertRow, Id
<1>2. [domain |-> d, ips |-> {}, resolved |-> FALSE] \in Row
  BY DEF Row
<1>3. QED BY <1>1, <1>2, MaxIdAssumption DEF StoreTypeOK, InsertRow, Id

LEMMA UpdateType ==
  ASSUME StoreTypeOK, NEW i, NEW ips \in SUBSET Entry, UpdateIPs(i, ips)
  PROVE  rules' \in [Id -> Row \cup {NoRow}]
<1>1. CASE i \in RowIds
  <2>1. rules[i] \in Row
    BY <1>1 DEF RowIds, StoreTypeOK
  <2>2. [rules[i] EXCEPT !.ips = ips, !.resolved = TRUE] \in Row
    BY <2>1 DEF Row
  <2>3. rules' = [rules EXCEPT ![i] = [rules[i] EXCEPT !.ips = ips, !.resolved = TRUE]]
    BY <1>1 DEF UpdateIPs, StoreTypeOK, RowIds
  <2>4. QED BY <1>1, <2>2, <2>3 DEF StoreTypeOK, RowIds
<1>2. CASE i \notin RowIds
  BY <1>2 DEF UpdateIPs, StoreTypeOK
<1>3. QED BY <1>1, <1>2

-----------------------------------------------------------------------------
(* The inductive invariant                                                 *)

\* Ids are only handed out, and answers only added to the rows they were
\* obtained for.
Grows == /\ lastId' \in 0 .. MaxId
         /\ lastId <= lastId'
         /\ \A i \in Opened : answered[i] \subseteq answered'[i]

\* What does not change keeps its part of the invariant.
LEMMA FlowFrame ==
  ASSUME IInv, Grows
  PROVE  /\ fw' = fw       => FwFlow'
         /\ rules' = rules => RowFlow'
         /\ want' = want   => WantFlow'
         /\ call' = call   => CallFlow'
         /\ wk' = wk       => WorkerFlow'
<1> USE DEF IInv, Grows
<1>1. lastId \in Nat /\ lastId' \in Nat
  BY MaxIdAssumption DEF TypeOK, StoreTypeOK
<1>2. Opened \subseteq Opened'
  BY <1>1 DEF Opened
<1>3. fw' = fw => FwFlow'
  BY <1>2 DEF FwFlow, FilterIPs
<1>4. rules' = rules => RowFlow'
  BY <1>2 DEF RowFlow, RowIds
<1>5. want' = want => WantFlow'
  BY <1>2 DEF WantFlow
<1>6. call' = call => CallFlow'
  BY <1>2 DEF CallFlow
<1>7. wk' = wk => WorkerFlow'
  BY <1>2 DEF WorkerFlow
<1>8. QED BY <1>3, <1>4, <1>5, <1>6, <1>7

LEMMA Unchanged ==
  ASSUME IInv, UNCHANGED <<lastId, answered>>
  PROVE  Grows
BY MaxIdAssumption DEF IInv, TypeOK, StoreTypeOK, Grows

LEMMA OpenedAreIds == ASSUME IInv PROVE Opened \subseteq Id
BY MaxIdAssumption DEF IInv, TypeOK, StoreTypeOK, Opened, Id

-----------------------------------------------------------------------------
(* Calls of the firewall                                                   *)

OthersKeep(t) == \A u \in Thread : u # t => call'[u] = call[u]

\* Starting DeleteRule.
LEMMA DeleteRuleCall ==
  ASSUME IInv, NEW t \in Thread, NEW n \in Name, DeleteRule(t, n)
  PROVE  /\ call' \in [Thread -> Call]
         /\ call'[t].name = n
         /\ OthersKeep(t)
         /\ UNCHANGED <<lastId, answered>> => CallFlow'
<1>1. [op |-> "del4", name |-> n, ips |-> {}] \in Call
  BY CallTypes
<1>2. call \in [Thread -> Call]
  BY DEF IInv, TypeOK, FwTypeOK
<1>3. call' = [call EXCEPT ![t] = [op |-> "del4", name |-> n, ips |-> {}]]
  BY DEF DeleteRule
<1>4. ASSUME UNCHANGED <<lastId, answered>> PROVE CallFlow'
  BY <1>2, <1>3, <1>4 DEF IInv, CallFlow, Opened
<1>5. QED BY <1>1, <1>2, <1>3, <1>4 DEF OthersKeep

\* Starting AddAllowRule with answers for the row of that name.
LEMMA AddAllowRuleCall ==
  ASSUME IInv, NEW t \in Thread, NEW n \in Opened, NEW ips \in SUBSET Entry,
         ips \subseteq answered[n], AddAllowRule(t, n, ips)
  PROVE  /\ call' \in [Thread -> Call]
         /\ OthersKeep(t)
         /\ UNCHANGED <<lastId, answered>> => CallFlow'
<1> DEFINE start == [op |-> IF ips = {} THEN "err"
                            ELSE IF FilterIPs(ips, "v4") # {} THEN "add4" ELSE "add6",
                     name |-> n, ips |-> ips]
<1>1. n \in Name
  BY OpenedAreIds, MaxIdAssumption DEF Name, Id
<1>2. start \in Call
  BY <1>1, CallTypes
<1>3. call \in [Thread -> Call]
  BY DEF IInv, TypeOK, FwTypeOK
<1>4. call' = [call EXCEPT ![t] = start]
  BY DEF AddAllowRule
<1>5. start.op = "add6" => FilterIPs(ips, "v6") # {}
  BY FilterIPsCover
<1>6. start.op = "add4" => FilterIPs(ips, "v4") # {}
  OBVIOUS
<1>7. start.name = n /\ start.ips = ips
  OBVIOUS
<1> HIDE DEF start
<1>8. ASSUME UNCHANGED <<lastId, answered>> PROVE CallFlow'
  BY <1>3, <1>4, <1>5, <1>6, <1>7, <1>8 DEF IInv, CallFlow, Opened
<1>9. QED BY <1>2, <1>3, <1>4, <1>8 DEF OthersKeep

LEMMA ReturnCall ==
  ASSUME IInv, NEW t \in Thread, Return(t)
  PROVE  /\ call' \in [Thread -> Call]
         /\ OthersKeep(t)
         /\ UNCHANGED <<lastId, answered>> => CallFlow'
<1>1. NoCall \in Call /\ NoCall.op = "none"
  BY MaxIdAssumption DEF NoCall, Call, Name
<1>2. call \in [Thread -> Call]
  BY DEF IInv, TypeOK, FwTypeOK
<1>3. ASSUME UNCHANGED <<lastId, answered>> PROVE CallFlow'
  BY <1>1, <1>2, <1>3 DEF IInv, CallFlow, Opened, Return
<1>4. QED BY <1>1, <1>2, <1>3 DEF Return, OthersKeep

-----------------------------------------------------------------------------
(* netsh runs                                                              *)

\* A run that removes rules or adds sound ones, for a call whose next step is
\* allowed, keeps the invariant.
LEMMA NetshRun ==
  ASSUME IInv, NEW t \in Thread, NEW result \in SUBSET FwRule,
         NEW next \in {"del6", "ok", "add6"},
         Netsh(t, result, next), UNCHANGED <<policy, lastId, answered>>,
         \A r \in result \ fw : /\ r.name \in Opened
                                /\ r.ips # {}
                                /\ r.ips \subseteq FilterIPs(answered[r.name], r.fam),
         next = "add6" => /\ call[t].op = "add4"
                          /\ FilterIPs(call[t].ips, "v6") # {}
  PROVE  FwTypeOK' /\ FwFlow' /\ CallFlow'
<1> USE DEF IInv, TypeOK, FwTypeOK
<1>1. faults' \in 0 .. MaxFaults
  BY FaultType DEF Netsh
<1>2. fw' \in SUBSET FwRule /\ fw' \subseteq fw \cup result
  BY DEF Netsh
<1>3. PICK op \in {next, "err"} : call' = [call EXCEPT ![t].op = op]
  BY DEF Netsh
<1>4. [call[t] EXCEPT !.op = op] \in Call
  BY DEF Call
<1>5. call' \in [Thread -> Call]
  BY <1>3, <1>4
<1>6. CallFlow'
  BY <1>3, <1>4 DEF CallFlow, Opened, Call
<1>7. FwFlow'
  BY <1>2 DEF FwFlow, Opened
<1>8. QED BY <1>1, <1>2, <1>5, <1>6, <1>7

LEMMA NetshInv ==
  ASSUME IInv, NEW t \in Thread, NetshStep(t), UNCHANGED <<storeVars, resolverVars>>
  PROVE  /\ FwTypeOK' /\ FwFlow' /\ CallFlow' /\ Gate'
         /\ call'[t].name = call[t].name /\ OthersKeep(t)
<1> USE DEF IInv, TypeOK, FwTypeOK, storeVars, resolverVars
<1>0. UNCHANGED <<policy, lastId, answered>>
  BY DEF NetshStep
<1>1. call[t] \in Call /\ policy' = policy
  BY DEF NetshStep
<1>2. Gate'
  BY <1>1 DEF Gate
<1>3. call'[t].name = call[t].name /\ OthersKeep(t)
  BY <1>1 DEF NetshStep, NetshDelete, NetshAdd, Netsh, Call, OthersKeep
<1>4. ASSUME NEW fam \in Family, FilterIPs(call[t].ips, fam) # {},
             call[t].op \in {"add4", "add6"}
      PROVE  LET r == AllowRule(call[t].name, fam, FilterIPs(call[t].ips, fam))
             IN  /\ r \in FwRule
                 /\ r.name \in Opened
                 /\ r.ips # {}
                 /\ r.ips \subseteq FilterIPs(answered[r.name], r.fam)
  BY <1>1, <1>4 DEF AllowRule, FwRule, FilterIPs, Call, CallFlow
<1>5. CASE NetshDelete(t)
  <2>1. ASSUME NEW fam \in Family
        PROVE  fw \ SubRules(call[t].name, fam) \in SUBSET FwRule
    OBVIOUS
  <2>2. ASSUME NEW fam \in Family, NEW next \in {"del6", "ok"},
                 Netsh(t, fw \ SubRules(call[t].name, fam), next)
          PROVE  FwTypeOK' /\ FwFlow' /\ CallFlow'
      <3> DEFINE result == fw \ SubRules(call[t].name, fam)
      <3>1. result \in SUBSET FwRule /\ result \ fw = {}
        BY <2>1
      <3>2. Netsh(t, result, next)
        BY <2>2
      <3> HIDE DEF result
      <3>3. QED BY <1>0, <3>1, <3>2, NetshRun
    <2>3. QED BY <1>2, <1>3, <1>5, <2>2 DEF NetshDelete, Family
<1>6. CASE NetshAdd(t)
  <2>1. CASE call[t].op = "add4"
    <3> DEFINE v4 == AllowRule(call[t].name, "v4", FilterIPs(call[t].ips, "v4"))
               next == IF FilterIPs(call[t].ips, "v6") = {} THEN "ok" ELSE "add6"
    <3>1. Netsh(t, fw \cup {v4}, next)
      BY <1>6, <2>1 DEF NetshAdd
    <3>2. FilterIPs(call[t].ips, "v4") # {}
      BY <2>1 DEF CallFlow
    <3>3. v4 \in FwRule /\ v4.name \in Opened /\ v4.ips # {}
          /\ v4.ips \subseteq FilterIPs(answered[v4.name], v4.fam)
      BY <1>4, <2>1, <3>2 DEF Family
    <3>4. next \in {"ok", "add6"} /\ (next = "add6" => FilterIPs(call[t].ips, "v6") # {})
      OBVIOUS
    <3> HIDE DEF v4, next
    <3> DEFINE result == fw \cup {v4}
    <3>5. /\ result \in SUBSET FwRule
          /\ \A r \in result \ fw : /\ r.name \in Opened
                                   /\ r.ips # {}
                                   /\ r.ips \subseteq FilterIPs(answered[r.name], r.fam)
      BY <3>3
    <3>6. Netsh(t, result, next)
      BY <3>1
    <3> HIDE DEF result
    <3>7. FwTypeOK' /\ FwFlow' /\ CallFlow'
      BY <1>0, <2>1, <3>4, <3>5, <3>6, NetshRun
    <3>8. QED BY <1>2, <1>3, <3>7
  <2>2. CASE call[t].op = "add6"
    <3> DEFINE v6 == AllowRule(call[t].name, "v6", FilterIPs(call[t].ips, "v6"))
    <3>1. Netsh(t, fw \cup {v6}, "ok")
      BY <1>6, <2>2 DEF NetshAdd
    <3>2. FilterIPs(call[t].ips, "v6") # {}
      BY <2>2 DEF CallFlow
    <3>3. v6 \in FwRule /\ v6.name \in Opened /\ v6.ips # {}
          /\ v6.ips \subseteq FilterIPs(answered[v6.name], v6.fam)
      BY <1>4, <2>2, <3>2 DEF Family
    <3> HIDE DEF v6
    <3> DEFINE result == fw \cup {v6}
    <3>4. /\ result \in SUBSET FwRule
          /\ \A r \in result \ fw : /\ r.name \in Opened
                                   /\ r.ips # {}
                                   /\ r.ips \subseteq FilterIPs(answered[r.name], r.fam)
      BY <3>3
    <3>5. Netsh(t, result, "ok")
      BY <3>1
    <3> HIDE DEF result
    <3>6. FwTypeOK' /\ FwFlow' /\ CallFlow'
      BY <1>0, <3>4, <3>5, NetshRun
    <3>7. QED BY <1>2, <1>3, <3>6
  <2>3. QED BY <1>6, <2>1, <2>2 DEF NetshAdd
<1>7. QED BY <1>2, <1>3, <1>5, <1>6 DEF NetshStep

-----------------------------------------------------------------------------
(* Workers                                                                 *)

\* The invariant without the mode and the auxiliary variable.
Core == /\ StoreTypeOK /\ FwTypeOK /\ ResolverTypeOK /\ RecTypeOK
        /\ FwFlow /\ RowFlow /\ WantFlow /\ CallFlow /\ WorkerFlow
        /\ TickShape /\ Gate

\* What other threads do leaves the reconciler's tick as it was.
LEMMA RecFrame ==
  ASSUME IInv, UNCHANGED recVars, passwordSet => passwordSet',
         call'[Rec].name = call[Rec].name
  PROVE  RecTypeOK' /\ TickShape'
BY DEF IInv, TypeOK, RecTypeOK, TickShape, recVars

LEMMA WorkerThread ==
  ASSUME IInv, NEW w \in Worker
  PROVE  /\ w \in Thread /\ w # Rec /\ Rec \in Thread
         /\ wk[w] \in Progress /\ wk \in [Worker -> Progress]
         /\ Idle \in Progress /\ Idle.pc = "idle"
BY WorkerAssumption, ThreadAssumption, ReconcilerAssumption, MaxIdAssumption
DEF IInv, TypeOK, ResolverTypeOK, Idle, Progress, Rec

LEMMA FinishInv ==
  ASSUME IInv, NEW w \in Worker, Finish(w), UNCHANGED <<lastId, answered>>
  PROVE  wk' \in [Worker -> Progress] /\ WorkerFlow'
BY WorkerThread DEF IInv, Finish, WorkerFlow, Opened

LEMMA BeginInv ==
  ASSUME IInv, NEW w \in Worker, NEW i \in Id, Begin(w, i), Grows
  PROVE  wk' \in [Worker -> Progress] /\ WorkerFlow'
<1> DEFINE start == [pc |-> "get", id |-> i, row |-> NoRow, new |-> {}]
<1>1. start \in Progress /\ start.pc = "get"
  BY MaxIdAssumption DEF Progress, Id
<1>2. lastId \in Nat /\ lastId' \in Nat /\ Opened \subseteq Opened'
  BY MaxIdAssumption DEF IInv, TypeOK, StoreTypeOK, Grows, Opened
<1>3. wk' = [wk EXCEPT ![w] = start]
  BY DEF Begin
<1> HIDE DEF start
<1>4. WorkerFlow'
  BY <1>1, <1>2, <1>3, WorkerThread DEF IInv, WorkerFlow, Grows
<1>5. QED BY <1>1, <1>3, <1>4, WorkerThread

LEMMA GetRowInv ==
  ASSUME IInv, NEW w \in Worker, GetRow(w), UNCHANGED recVars
  PROVE  Core'
<1> USE DEF IInv, TypeOK
<1>1. UNCHANGED <<storeVars, fwVars, queue, dns, answered>>
  BY DEF GetRow
<1>2. UNCHANGED <<rules, lastId, passwordSet, fw, policy, call, faults, queue, dns, answered>>
  BY <1>1 DEF storeVars, fwVars
<1>3. wk' \in [Worker -> Progress] /\ WorkerFlow'
  <2>1. CASE wk[w].id \in RowIds
    <3>1. rules[wk[w].id] \in Row /\ wk[w].id \in Opened
      BY <2>1 DEF RowIds, StoreTypeOK, RowFlow
    <3>2. wk' = [wk EXCEPT ![w].pc = "lookup", ![w].row = rules[wk[w].id]]
      BY <2>1 DEF GetRow
    <3>3. QED BY <1>2, <3>1, <3>2, WorkerThread DEF WorkerFlow, Progress, Opened
  <2>2. CASE wk[w].id \notin RowIds
    BY <1>2, <2>2, FinishInv DEF GetRow
  <2>3. QED BY <2>1, <2>2
<1>4. FwFlow' /\ RowFlow' /\ WantFlow' /\ CallFlow'
  BY <1>2, FlowFrame, Unchanged DEF recVars
<1>5. RecTypeOK' /\ TickShape'
  BY <1>2, RecFrame
<1>6. StoreTypeOK' /\ FwTypeOK' /\ ResolverTypeOK' /\ Gate'
  BY <1>2, <1>3 DEF StoreTypeOK, FwTypeOK, ResolverTypeOK, Gate
<1>7. QED BY <1>3, <1>4, <1>5, <1>6 DEF Core

LEMMA LookupFailsInv ==
  ASSUME IInv, NEW w \in Worker, LookupFails(w), UNCHANGED recVars
  PROVE  Core'
<1> USE DEF IInv, TypeOK
<1>1. UNCHANGED <<rules, lastId, passwordSet, fw, policy, call, faults, queue, dns, answered>>
  BY DEF LookupFails, storeVars, fwVars
<1>2. wk' \in [Worker -> Progress] /\ WorkerFlow'
  BY <1>1, FinishInv DEF LookupFails
<1>3. FwFlow' /\ RowFlow' /\ WantFlow' /\ CallFlow'
  BY <1>1, FlowFrame, Unchanged DEF recVars
<1>4. RecTypeOK' /\ TickShape'
  BY <1>1, RecFrame
<1>5. StoreTypeOK' /\ FwTypeOK' /\ ResolverTypeOK' /\ Gate'
  BY <1>1, <1>2 DEF StoreTypeOK, FwTypeOK, ResolverTypeOK, Gate
<1>6. QED BY <1>2, <1>3, <1>4, <1>5 DEF Core

LEMMA LookupInv ==
  ASSUME IInv, NEW w \in Worker, Lookup(w), UNCHANGED recVars
  PROVE  Core'
<1> USE DEF IInv, TypeOK
<1> DEFINE i   == wk[w].id
           new == dns[wk[w].row.domain]
<1>1. UNCHANGED <<rules, lastId, passwordSet, fw, policy, faults, queue, dns>>
  BY DEF Lookup, storeVars
<1>2. /\ i \in Opened /\ i \in Id /\ i \in Name
      /\ wk[w].row \in Row /\ new \in SUBSET Entry
  BY OpenedAreIds, WorkerThread, MaxIdAssumption
  DEF Lookup, WorkerFlow, ResolverTypeOK, Row, Id, Name
<1>3. answered' = [answered EXCEPT ![i] = @ \cup new]
  BY DEF Lookup
<1>4. answered' \in [Id -> SUBSET Entry] /\ new \subseteq answered'[i]
  BY <1>2, <1>3 DEF ResolverTypeOK
<1>5. Grows
  BY <1>1, <1>2, <1>3, OpenedAreIds, MaxIdAssumption
  DEF Grows, StoreTypeOK, ResolverTypeOK
<1>6. FwFlow' /\ RowFlow' /\ WantFlow'
  BY <1>1, <1>5, FlowFrame DEF recVars
<1>7. /\ wk' \in [Worker -> Progress] /\ WorkerFlow'
      /\ call' \in [Thread -> Call] /\ CallFlow'
      /\ call'[Rec] = call[Rec]
  <2>1. CASE new = wk[w].row.ips /\ wk[w].row.resolved
    <3>1. wk' = [wk EXCEPT ![w] = Idle] /\ call' = call
      BY <2>1 DEF Lookup, Finish
    <3>2. WorkerFlow'
      BY <1>1, <1>5, <3>1, WorkerThread DEF WorkerFlow, Grows, Opened
    <3>3. QED BY <1>5, <3>1, <3>2, FlowFrame, WorkerThread DEF FwTypeOK
  <2>2. CASE ~(new = wk[w].row.ips /\ wk[w].row.resolved)
    <3>1. /\ wk' = [wk EXCEPT ![w].pc = "deleted", ![w].new = new]
          /\ DeleteRule(w, i)
      BY <2>2 DEF Lookup
    <3>2. WorkerFlow'
      BY <1>1, <1>2, <1>4, <1>5, <3>1, WorkerThread
      DEF WorkerFlow, Grows, Opened, Progress
    <3>3. wk' \in [Worker -> Progress]
      BY <1>2, <3>1, WorkerThread DEF Progress
    <3>4. call' \in [Thread -> Call] /\ call'[Rec] = call[Rec]
      BY <1>2, <3>1, DeleteRuleCall, WorkerThread DEF OthersKeep
    <3>5. CallFlow'
      <4>1. call \in [Thread -> Call]
        BY DEF FwTypeOK
      <4>2. call' = [call EXCEPT ![w] = [op |-> "del4", name |-> i, ips |-> {}]]
        BY <3>1 DEF DeleteRule
      <4>3. QED BY <1>1, <1>5, <4>1, <4>2, WorkerThread DEF CallFlow, Grows, Opened
    <3>6. QED BY <3>2, <3>3, <3>4, <3>5
  <2>3. QED BY <2>1, <2>2
<1>8. RecTypeOK' /\ TickShape'
  BY <1>1, <1>7, RecFrame
<1>9. StoreTypeOK' /\ FwTypeOK' /\ ResolverTypeOK' /\ Gate'
  BY <1>1, <1>4, <1>7 DEF StoreTypeOK, FwTypeOK, ResolverTypeOK, Gate
<1>10. QED BY <1>6, <1>7, <1>8, <1>9 DEF Core

LEMMA AddAnswerInv ==
  ASSUME IInv, NEW w \in Worker, AddAnswer(w), UNCHANGED recVars
  PROVE  Core'
<1> USE DEF IInv, TypeOK
<1>1. UNCHANGED <<rules, lastId, passwordSet, fw, policy, faults, queue, dns, answered>>
  BY DEF AddAnswer, storeVars
<1>2. /\ wk[w].pc = "deleted"
      /\ wk' = [wk EXCEPT ![w].pc = "added"]
      /\ AddAllowRule(w, wk[w].id, wk[w].new)
  BY DEF AddAnswer
<1>3. /\ wk[w].id \in Opened
      /\ wk[w].new \in SUBSET Entry
      /\ wk[w].new \subseteq answered[wk[w].id]
  BY <1>2, WorkerThread DEF WorkerFlow, Progress
<1>4. call' \in [Thread -> Call] /\ CallFlow' /\ call'[Rec] = call[Rec]
  BY <1>1, <1>2, <1>3, AddAllowRuleCall, WorkerThread DEF OthersKeep
<1>5. wk' \in [Worker -> Progress]
  BY <1>2, WorkerThread DEF Progress
<1>6. WorkerFlow'
  BY <1>1, <1>2, WorkerThread DEF WorkerFlow, Opened, Progress
<1>7. FwFlow' /\ RowFlow' /\ WantFlow'
  BY <1>1, FlowFrame, Unchanged DEF recVars
<1>8. RecTypeOK' /\ TickShape'
  BY <1>1, <1>4, RecFrame
<1>9. StoreTypeOK' /\ FwTypeOK' /\ ResolverTypeOK' /\ Gate'
  BY <1>1, <1>4, <1>5 DEF StoreTypeOK, FwTypeOK, ResolverTypeOK, Gate
<1>10. QED BY <1>4, <1>6, <1>7, <1>8, <1>9 DEF Core

LEMMA PersistInv ==
  ASSUME IInv, NEW w \in Worker, Persist(w), UNCHANGED recVars
  PROVE  Core'
<1> USE DEF IInv, TypeOK
<1>1. UNCHANGED <<lastId, passwordSet, fw, policy, faults, queue, dns, answered>>
  BY DEF Persist
<1>2. wk[w].new \in SUBSET Entry /\ wk[w].new \subseteq answered[wk[w].id]
  BY WorkerThread DEF Persist, WorkerFlow, Progress
<1>3. rules' \in [Id -> Row \cup {NoRow}] /\ RowFlow'
  <2>1. CASE call[w].op = "ok"
    <3>1. UpdateIPs(wk[w].id, wk[w].new)
      BY <2>1 DEF Persist
    <3>2. rules' \in [Id -> Row \cup {NoRow}]
      BY <1>2, <3>1, UpdateType
    <3>3. CASE wk[w].id \in RowIds
      <4>1. rules' = [rules EXCEPT ![wk[w].id].ips = wk[w].new,
                                   ![wk[w].id].resolved = TRUE]
        BY <3>1, <3>3 DEF UpdateIPs
      <4>2. rules[wk[w].id] \in Row
        BY <3>3 DEF RowIds, StoreTypeOK
      <4>3. rules'[wk[w].id].ips = wk[w].new
        BY <3>3, <4>1, <4>2 DEF StoreTypeOK, RowIds, Row
      <4>4. \A j \in Id : j # wk[w].id => rules'[j] = rules[j]
        BY <4>1 DEF StoreTypeOK
      <4>5. RowFlow'
        BY <1>1, <1>2, <3>3, <4>3, <4>4 DEF RowFlow, RowIds, Opened
      <4>6. QED BY <3>2, <4>5
    <3>4. CASE wk[w].id \notin RowIds
      BY <1>1, <3>1, <3>2, <3>4, FlowFrame, Unchanged DEF UpdateIPs
    <3>5. QED BY <3>3, <3>4
  <2>2. CASE call[w].op # "ok"
    BY <1>1, <2>2, FlowFrame, Unchanged DEF Persist, StoreTypeOK
  <2>3. QED BY <2>1, <2>2
<1>4. call' \in [Thread -> Call] /\ CallFlow' /\ call'[Rec] = call[Rec]
  BY <1>1, ReturnCall, WorkerThread DEF Persist, OthersKeep
<1>5. wk' \in [Worker -> Progress] /\ WorkerFlow'
  BY <1>1, FinishInv DEF Persist
<1>6. FwFlow' /\ WantFlow'
  BY <1>1, FlowFrame, Unchanged DEF recVars
<1>7. RecTypeOK' /\ TickShape'
  BY <1>1, <1>4, RecFrame
<1>8. StoreTypeOK' /\ FwTypeOK' /\ ResolverTypeOK' /\ Gate'
  BY <1>1, <1>3, <1>4, <1>5 DEF StoreTypeOK, FwTypeOK, ResolverTypeOK, Gate
<1>9. QED BY <1>3, <1>4, <1>5, <1>6, <1>7, <1>8 DEF Core

LEMMA WorkerInv ==
  ASSUME IInv, NEW w \in Worker, WorkerStep(w)
  PROVE  Core'
<1>1. UNCHANGED recVars
  BY DEF WorkerStep
<1>2. CASE ResolveAndApply(w)
  BY <1>1, <1>2, GetRowInv, LookupFailsInv, LookupInv, AddAnswerInv, PersistInv
  DEF ResolveAndApply
<1>3. CASE NetshStep(w) /\ UNCHANGED <<storeVars, resolverVars>>
  <2> USE DEF IInv, TypeOK
  <2>1. UNCHANGED <<rules, lastId, passwordSet, wk, queue, dns, answered>>
    BY <1>3 DEF storeVars, resolverVars
  <2>2. FwTypeOK' /\ FwFlow' /\ CallFlow' /\ Gate' /\ call'[Rec].name = call[Rec].name
    BY <1>3, NetshInv, WorkerThread DEF OthersKeep
  <2>3. RowFlow' /\ WantFlow' /\ WorkerFlow'
    BY <1>1, <2>1, FlowFrame, Unchanged DEF recVars
  <2>4. RecTypeOK' /\ TickShape'
    BY <1>1, <2>1, <2>2, RecFrame
  <2>5. StoreTypeOK' /\ ResolverTypeOK'
    BY <2>1 DEF StoreTypeOK, ResolverTypeOK
  <2>6. QED BY <2>2, <2>3, <2>4, <2>5 DEF Core
<1>4. QED BY <1>2, <1>3 DEF WorkerStep

-----------------------------------------------------------------------------
(* The refresh goroutine and the dashboard                                 *)

LEMMA RefreshInv ==
  ASSUME IInv, RefreshAll \/ RefreshNext, UNCHANGED recVars
  PROVE  Core'
<1> USE DEF IInv, TypeOK
<1>1. UNCHANGED <<rules, lastId, passwordSet, fw, policy, call, faults, dns, answered>>
  BY DEF RefreshAll, RefreshNext, storeVars, fwVars
<1>2. wk' \in [Worker -> Progress] /\ WorkerFlow' /\ queue' \subseteq Id
  <2>1. CASE RefreshAll
    BY <1>1, <2>1, FlowFrame, Unchanged DEF RefreshAll, ResolverTypeOK, RowIds
  <2>2. CASE RefreshNext
    <3>1. PICK i \in Id : Begin(Refresher, i) /\ queue' = queue \ {i}
      BY <2>2 DEF RefreshNext, ResolverTypeOK
    <3>2. QED BY <1>1, <3>1, BeginInv, Unchanged DEF Worker, ResolverTypeOK
  <2>3. QED BY <2>1, <2>2
<1>3. FwFlow' /\ RowFlow' /\ WantFlow' /\ CallFlow'
  BY <1>1, FlowFrame, Unchanged DEF recVars
<1>4. RecTypeOK' /\ TickShape'
  BY <1>1, RecFrame
<1>5. StoreTypeOK' /\ FwTypeOK' /\ ResolverTypeOK' /\ Gate'
  BY <1>1, <1>2 DEF StoreTypeOK, FwTypeOK, ResolverTypeOK, Gate
<1>6. QED BY <1>2, <1>3, <1>4, <1>5 DEF Core

LEMMA AddRuleInv ==
  ASSUME IInv, NEW h \in Http, NEW d \in Domain, HandleAddRule(h, d), UNCHANGED recVars
  PROVE  Core'
<1> USE DEF IInv, TypeOK
<1>1. /\ UNCHANGED <<passwordSet, fw, policy, call, faults, queue, dns>>
      /\ passwordSet
      /\ InsertRow(d)
  BY DEF HandleAddRule, fwVars
<1>2. /\ rules' \in [Id -> Row \cup {NoRow}]
      /\ lastId' \in Id
      /\ lastId' \in 0 .. MaxId
  BY <1>1, InsertType
<1>3. /\ lastId' = lastId + 1
      /\ rules' = [rules EXCEPT ![lastId'] = [domain |-> d, ips |-> {}, resolved |-> FALSE]]
      /\ answered' = [answered EXCEPT ![lastId'] = {}]
  BY <1>1 DEF InsertRow, HandleAddRule
<1>4. Grows /\ Opened \subseteq Opened' /\ lastId' \in Opened'
  <2>1. lastId \in Nat /\ lastId' \notin Opened
    BY <1>3, MaxIdAssumption DEF StoreTypeOK, Opened
  <2>2. QED BY <1>2, <1>3, <2>1, OpenedAreIds, MaxIdAssumption
            DEF Grows, Opened, ResolverTypeOK
<1>5. answered' \in [Id -> SUBSET Entry]
  BY <1>2, <1>3 DEF ResolverTypeOK
<1>6. wk' \in [Worker -> Progress] /\ WorkerFlow'
  BY <1>2, <1>4, BeginInv DEF HandleAddRule, Worker
<1>7. RowFlow'
  BY <1>2, <1>3, <1>4 DEF RowFlow, RowIds, StoreTypeOK, Grows, ResolverTypeOK
<1>8. FwFlow' /\ WantFlow' /\ CallFlow'
  BY <1>1, <1>4, FlowFrame DEF recVars
<1>9. RecTypeOK' /\ TickShape'
  BY <1>1, RecFrame
<1>10. StoreTypeOK' /\ FwTypeOK' /\ ResolverTypeOK' /\ Gate'
  BY <1>1, <1>2, <1>5, <1>6 DEF StoreTypeOK, FwTypeOK, ResolverTypeOK, Gate
<1>11. QED BY <1>6, <1>7, <1>8, <1>9, <1>10 DEF Core

LEMMA RequestInv ==
  ASSUME IInv, Request
  PROVE  Core'
<1> USE DEF IInv, TypeOK
<1>1. UNCHANGED recVars
  BY DEF Request
<1>2. CASE SetPassword /\ UNCHANGED <<fwVars, resolverVars>>
  <2>1. /\ UNCHANGED <<rules, lastId, fw, policy, call, faults, wk, queue, dns, answered>>
        /\ passwordSet' = TRUE
    BY <1>2 DEF SetPassword, fwVars, resolverVars
  <2>2. FwFlow' /\ RowFlow' /\ WantFlow' /\ CallFlow' /\ WorkerFlow'
    BY <1>1, <2>1, FlowFrame, Unchanged DEF recVars
  <2>3. RecTypeOK' /\ TickShape'
    BY <1>1, <2>1, RecFrame
  <2>4. StoreTypeOK' /\ FwTypeOK' /\ ResolverTypeOK' /\ Gate'
    BY <2>1 DEF StoreTypeOK, FwTypeOK, ResolverTypeOK, Gate
  <2>5. QED BY <2>2, <2>3, <2>4 DEF Core
<1>3. ASSUME NEW h \in Http, NEW d \in Domain, HandleAddRule(h, d)
      PROVE  Core'
  BY <1>1, <1>3, AddRuleInv
<1>4. ASSUME NEW i \in Id, HandleDeleteRule(i)
      PROVE  Core'
  <2>1. /\ UNCHANGED <<lastId, passwordSet, fw, policy, call, faults, wk, queue, dns, answered>>
        /\ rules' = [rules EXCEPT ![i] = NoRow]
    BY <1>4 DEF HandleDeleteRule, DeleteRow, fwVars, resolverVars
  <2>2. FwFlow' /\ WantFlow' /\ CallFlow' /\ WorkerFlow'
    BY <1>1, <2>1, FlowFrame, Unchanged DEF recVars
  <2>3. StoreTypeOK' /\ RowFlow'
    BY <2>1 DEF StoreTypeOK, RowFlow, RowIds, Opened
  <2>4. RecTypeOK' /\ TickShape'
    BY <1>1, <2>1, RecFrame
  <2>5. FwTypeOK' /\ ResolverTypeOK' /\ Gate'
    BY <2>1 DEF FwTypeOK, ResolverTypeOK, Gate
  <2>6. QED BY <2>2, <2>3, <2>4, <2>5 DEF Core
<1>5. ASSUME NEW h \in Http, NEW i \in Id, HandleRefreshRule(h, i)
      PROVE  Core'
  <2>1. UNCHANGED <<rules, lastId, passwordSet, fw, policy, call, faults, queue, dns, answered>>
    BY <1>5 DEF HandleRefreshRule, storeVars, fwVars
  <2>2. wk' \in [Worker -> Progress] /\ WorkerFlow'
    BY <1>5, <2>1, BeginInv, Unchanged DEF HandleRefreshRule, Worker
  <2>3. FwFlow' /\ RowFlow' /\ WantFlow' /\ CallFlow'
    BY <1>1, <2>1, FlowFrame, Unchanged DEF recVars
  <2>4. RecTypeOK' /\ TickShape'
    BY <1>1, <2>1, RecFrame
  <2>5. StoreTypeOK' /\ FwTypeOK' /\ ResolverTypeOK' /\ Gate'
    BY <2>1, <2>2 DEF StoreTypeOK, FwTypeOK, ResolverTypeOK, Gate
  <2>6. QED BY <2>2, <2>3, <2>4, <2>5 DEF Core
<1>6. QED BY <1>2, <1>3, <1>4, <1>5 DEF Request

-----------------------------------------------------------------------------
(* Disturbances                                                            *)

LEMMA AdminRuleType ==
  ASSUME NEW i \in Id, NEW fam \in Family \cup {"none"}, NEW ips \in SUBSET Entry
  PROVE  AdminRule(i, fam, ips) \in FwRule /\ AdminRule(i, fam, ips).owner = "admin"
BY MaxIdAssumption DEF AdminRule, FwRule, Name, Id

LEMMA AdminEditsInv ==
  ASSUME IInv, AdminEditsRules
  PROVE  fw' \in SUBSET FwRule /\ FwFlow' /\ faults' \in 0 .. MaxFaults
<1> USE DEF IInv, TypeOK, FwTypeOK
<1>1. UNCHANGED <<lastId, answered>> /\ faults' \in 0 .. MaxFaults
  BY FaultType DEF AdminEditsRules, storeVars, resolverVars
<1>2. ASSUME NEW r \in FwRule, r.owner = "admin", fw' = fw \cup {r}
      PROVE  fw' \in SUBSET FwRule /\ FwFlow'
  BY <1>1, <1>2 DEF FwFlow, Opened
<1>3. ASSUME NEW r \in fw, fw' = fw \ {r}
      PROVE  fw' \in SUBSET FwRule /\ FwFlow'
  BY <1>1, <1>3 DEF FwFlow, Opened
<1>4. ASSUME NEW r \in fw, fw' = (fw \ {r}) \cup {[r EXCEPT !.on = FALSE]}
      PROVE  fw' \in SUBSET FwRule /\ FwFlow'
  <2> DEFINE off == [r EXCEPT !.on = FALSE]
  <2>1. /\ off \in FwRule
        /\ off.name = r.name /\ off.ips = r.ips /\ off.fam = r.fam /\ off.owner = r.owner
    BY DEF FwRule
  <2>2. fw' = (fw \ {r}) \cup {off}
    BY <1>4
  <2> HIDE DEF off
  <2>3. QED BY <1>1, <2>1, <2>2 DEF FwFlow, Opened
<1>5. \A e \in Entry : {e} \in SUBSET Entry /\ FamilyOf(e) \in Family \cup {"none"}
  BY FamilyOfType
<1>6. "v4" \in Family \cup {"none"} /\ "none" \in Family \cup {"none"}
      /\ {} \in SUBSET Entry
  BY DEF Family
<1>7. \/ \E r \in fw : fw' = fw \ {r}
      \/ \E i \in Id, e \in Entry : fw' = fw \cup {AdminRule(i, FamilyOf(e), {e})}
      \/ \E i \in Id, e \in Entry : fw' = fw \cup {AdminRule(i, "none", {e})}
      \/ \E i \in Id : fw' = fw \cup {AdminRule(i, "v4", {})}
      \/ \E r \in fw : fw' = (fw \ {r}) \cup {[r EXCEPT !.on = FALSE]}
  BY DEF AdminEditsRules
<1>8. fw' \in SUBSET FwRule /\ FwFlow'
  <2>1. CASE \E r \in fw : fw' = fw \ {r}
    BY <1>3, <2>1
  <2>2. CASE \E i \in Id, e \in Entry : fw' = fw \cup {AdminRule(i, FamilyOf(e), {e})}
    BY <1>2, <1>5, <2>2, AdminRuleType
  <2>3. CASE \E i \in Id, e \in Entry : fw' = fw \cup {AdminRule(i, "none", {e})}
    BY <1>2, <1>5, <1>6, <2>3, AdminRuleType
  <2>4. CASE \E i \in Id : fw' = fw \cup {AdminRule(i, "v4", {})}
    BY <1>2, <1>6, <2>4, AdminRuleType
  <2>5. CASE \E r \in fw : fw' = (fw \ {r}) \cup {[r EXCEPT !.on = FALSE]}
    BY <1>4, <2>5
  <2>6. QED BY <1>7, <2>1, <2>2, <2>3, <2>4, <2>5
<1>9. QED BY <1>1, <1>8

LEMMA EnvironmentInv ==
  ASSUME IInv, Environment
  PROVE  Core'
<1> USE DEF IInv, TypeOK
<1>1. ASSUME NEW d \in Domain, DnsChanges(d)
      PROVE  Core'
  <2>1. UNCHANGED <<rules, lastId, passwordSet, fw, policy, call, wk, queue, answered, recVars>>
    BY <1>1 DEF DnsChanges, storeVars
  <2>2. faults' \in 0 .. MaxFaults
    BY <1>1, FaultType DEF DnsChanges, FwTypeOK
  <2>3. dns' \in [Domain -> SUBSET Entry]
    <3>1. PICK ans \in Answers[d] : dns' = [dns EXCEPT ![d] = ans]
      BY <1>1 DEF DnsChanges
    <3>2. Answers[d] \in SUBSET SUBSET Entry
      BY AnswersAssumption
    <3>3. ans \in SUBSET Entry
      BY <3>1, <3>2
    <3>4. QED BY <3>1, <3>3 DEF ResolverTypeOK
  <2>4. FwFlow' /\ RowFlow' /\ WantFlow' /\ CallFlow' /\ WorkerFlow'
    BY <2>1, FlowFrame, Unchanged DEF recVars
  <2>5. RecTypeOK' /\ TickShape'
    BY <2>1, RecFrame
  <2>6. StoreTypeOK' /\ FwTypeOK' /\ ResolverTypeOK' /\ Gate'
    BY <2>1, <2>2, <2>3 DEF StoreTypeOK, FwTypeOK, ResolverTypeOK, Gate
  <2>7. QED BY <2>4, <2>5, <2>6 DEF Core
<1>2. CASE CrashAndRestart
  <2>1. /\ UNCHANGED <<rules, lastId, passwordSet, fw, policy, dns, answered, keys>>
        /\ call' = [t \in Thread |-> NoCall]
        /\ wk' = [w \in Worker |-> Idle]
        /\ queue' = {}
        /\ recPc' = "idle" /\ want' = NoWant /\ repairs' = {} /\ sweeps' = {}
        /\ healthy' = TRUE
    BY <1>2 DEF CrashAndRestart, TickEnds, storeVars
  <2>2. faults' \in 0 .. MaxFaults
    BY <1>2, FaultType DEF CrashAndRestart, FwTypeOK
  <2>3. /\ NoCall \in Call /\ NoCall.op = "none"
        /\ Idle \in Progress /\ Idle.pc = "idle"
    BY MaxIdAssumption DEF NoCall, Call, Name, Idle, Progress
  <2>4. FwFlow' /\ RowFlow'
    BY <2>1, FlowFrame, Unchanged
  <2>5. WantFlow' /\ CallFlow' /\ WorkerFlow' /\ TickShape'
    BY <2>1, <2>3 DEF WantFlow, CallFlow, WorkerFlow, TickShape, NoWant
  <2>6. StoreTypeOK' /\ FwTypeOK' /\ ResolverTypeOK' /\ RecTypeOK' /\ Gate'
    BY <2>1, <2>2, <2>3
    DEF StoreTypeOK, FwTypeOK, ResolverTypeOK, RecTypeOK, Gate, NoWant
  <2>7. QED BY <2>4, <2>5, <2>6 DEF Core
<1>3. ASSUME /\ UNCHANGED <<rules, lastId, passwordSet, call, wk, queue, dns, answered,
                            recPc, want, repairs, sweeps, healthy>>
             /\ fw' \in SUBSET FwRule /\ FwFlow'
             /\ faults' \in 0 .. MaxFaults
             /\ policy' \in {"allow", policy}
             /\ keys' \in {FALSE, keys}
      PROVE  Core'
  <2>1. RowFlow' /\ WantFlow' /\ CallFlow' /\ WorkerFlow'
    BY <1>3, FlowFrame, Unchanged
  <2>2. keys' \in BOOLEAN
    BY <1>3 DEF RecTypeOK
  <2>3. RecTypeOK' /\ TickShape'
    BY <1>3, <2>2 DEF RecTypeOK, TickShape
  <2>4. StoreTypeOK' /\ FwTypeOK' /\ ResolverTypeOK' /\ Gate'
    BY <1>3 DEF StoreTypeOK, FwTypeOK, ResolverTypeOK, Gate
  <2>5. QED BY <1>3, <2>1, <2>3, <2>4 DEF Core
<1>4. CASE AdminEditsRules
  <2>1. UNCHANGED <<rules, lastId, passwordSet, policy, call, wk, queue, dns, answered,
                    recPc, want, repairs, sweeps, keys, healthy>>
    BY <1>4 DEF AdminEditsRules, storeVars, resolverVars, recVars
  <2>2. QED BY <1>3, <1>4, <2>1, AdminEditsInv
<1>5. CASE AdminAllowsOutbound
  <2>1. /\ UNCHANGED <<rules, lastId, passwordSet, fw, call, wk, queue, dns, answered,
                       recPc, want, repairs, sweeps, keys, healthy>>
        /\ policy' = "allow"
    BY <1>5 DEF AdminAllowsOutbound, storeVars, resolverVars, recVars
  <2>2. faults' \in 0 .. MaxFaults
    BY <1>5, FaultType DEF AdminAllowsOutbound, FwTypeOK
  <2>3. fw' \in SUBSET FwRule /\ FwFlow'
    BY <2>1, FlowFrame, Unchanged DEF FwTypeOK
  <2>4. QED BY <1>3, <2>1, <2>2, <2>3
<1>6. CASE AdminResetsFirewall
  <2>1. /\ UNCHANGED <<rules, lastId, passwordSet, call, wk, queue, dns, answered,
                       recPc, want, repairs, sweeps, keys, healthy>>
        /\ fw' = {} /\ policy' = "allow"
    BY <1>6 DEF AdminResetsFirewall, storeVars, resolverVars, recVars
  <2>2. faults' \in 0 .. MaxFaults
    BY <1>6, FaultType DEF AdminResetsFirewall, FwTypeOK
  <2>3. fw' \in SUBSET FwRule /\ FwFlow'
    BY <2>1 DEF FwFlow
  <2>4. QED BY <1>3, <2>1, <2>2, <2>3
<1>7. CASE AdminDeletesKeys
  <2>1. /\ UNCHANGED <<rules, lastId, passwordSet, fw, policy, call, wk, queue, dns, answered,
                       recPc, want, repairs, sweeps, healthy>>
        /\ keys' = FALSE
    BY <1>7 DEF AdminDeletesKeys, storeVars, resolverVars
  <2>2. faults' \in 0 .. MaxFaults
    BY <1>7, FaultType DEF AdminDeletesKeys, FwTypeOK
  <2>3. fw' \in SUBSET FwRule /\ FwFlow'
    BY <2>1, FlowFrame, Unchanged DEF FwTypeOK
  <2>4. QED BY <1>3, <2>1, <2>2, <2>3
<1>8. QED BY <1>1, <1>2, <1>4, <1>5, <1>6, <1>7 DEF Environment

-----------------------------------------------------------------------------
(* The reconciler                                                          *)

\* A step of the tick that leaves rows, rules and workers alone keeps the
\* invariant if its own variables and its call are in order.
LEMMA TickFrame ==
  ASSUME IInv, UNCHANGED <<storeVars, resolverVars, fw>>,
         faults' \in 0 .. MaxFaults,
         call' \in [Thread -> Call], CallFlow',
         RecTypeOK', WantFlow', TickShape',
         policy' \in {policy, "block"},
         policy' = "block" => policy = "block" \/ recPc # "idle"
  PROVE  Core'
<1> USE DEF IInv, TypeOK
<1>1. UNCHANGED <<rules, lastId, passwordSet, wk, queue, dns, answered>>
  BY DEF storeVars, resolverVars
<1>2. FwFlow' /\ RowFlow' /\ WorkerFlow'
  BY <1>1, FlowFrame, Unchanged
<1>3. Gate'
  BY <1>1 DEF Gate, TickShape
<1>4. StoreTypeOK' /\ FwTypeOK' /\ ResolverTypeOK'
  BY <1>1 DEF StoreTypeOK, FwTypeOK, ResolverTypeOK
<1>5. QED BY <1>2, <1>3, <1>4 DEF Core

\* The end of a tick.
LEMMA TickEndsInv ==
  ASSUME IInv, TickEnds, healthy' \in BOOLEAN, keys' \in BOOLEAN
  PROVE  RecTypeOK' /\ WantFlow' /\ TickShape'
BY DEF IInv, TypeOK, RecTypeOK, TickEnds, WantFlow, TickShape, NoWant

LEMMA RecThread == IInv => Rec \in Thread /\ call[Rec] \in Call /\ call \in [Thread -> Call]
BY ReconcilerAssumption DEF IInv, TypeOK, FwTypeOK, Rec

LEMMA TickBeginsInv ==
  ASSUME IInv, TickBegins, UNCHANGED resolverVars
  PROVE  Core'
<1> USE DEF IInv, TypeOK
<1>1. /\ UNCHANGED <<storeVars, fw, policy, call, faults, repairs, sweeps, keys, healthy>>
      /\ UNCHANGED <<rules, lastId, passwordSet, answered>>
      /\ recPc = "idle" /\ recPc' = "list" /\ want' = AllEnabled
      /\ passwordSet
  BY DEF TickBegins, fwVars, storeVars, resolverVars
<1>2. want' \in [Id -> (SUBSET Entry) \cup {NoRow}]
  <2>1. ASSUME NEW i \in Id, rules[i] # NoRow PROVE rules[i].ips \in SUBSET Entry
    BY <2>1 DEF StoreTypeOK, Row
  <2>2. QED BY <1>1, <2>1 DEF AllEnabled
<1>3. WantFlow'
  BY <1>1 DEF WantFlow, AllEnabled, RowFlow, RowIds, Opened
<1>4. CallFlow'
  BY <1>1, FlowFrame, Unchanged
<1>5. repairs = {}
  BY <1>1 DEF TickShape
<1>6. QED BY <1>1, <1>2, <1>3, <1>4, TickFrame DEF RecTypeOK, TickShape, FwTypeOK

LEMMA ListFirewallInv ==
  ASSUME IInv, ListFirewall, UNCHANGED resolverVars
  PROVE  Core'
<1> USE DEF IInv, TypeOK
<1>1. /\ UNCHANGED <<storeVars, fw, policy, call, keys, healthy>>
      /\ UNCHANGED <<lastId, passwordSet, answered>>
      /\ recPc = "list"
  BY DEF ListFirewall, storeVars, resolverVars
<1>2. CallFlow' /\ call' \in [Thread -> Call]
  BY <1>1, FlowFrame, Unchanged DEF FwTypeOK
<1>3. CASE /\ recPc' = "loop" /\ UNCHANGED <<want, faults>>
           /\ repairs' \subseteq {i \in Id : want[i] # NoRow}
           /\ sweeps' \subseteq ParsedNames(fw)
  <2>1. ParsedNames(fw) \subseteq Name
    BY DEF ParsedNames, FwTypeOK, FwRule
  <2>2. RecTypeOK' /\ TickShape' /\ WantFlow'
    BY <1>1, <1>3, <2>1, FlowFrame, Unchanged DEF RecTypeOK, TickShape
  <2>3. QED BY <1>1, <1>2, <1>3, <2>2, TickFrame DEF FwTypeOK
<1>4. CASE Fault("netsh") /\ TickEnds
  <2>1. RecTypeOK' /\ WantFlow' /\ TickShape'
    BY <1>1, <1>4, TickEndsInv DEF RecTypeOK
  <2>2. faults' \in 0 .. MaxFaults
    BY <1>4, FaultType DEF FwTypeOK
  <2>3. QED BY <1>1, <1>2, <2>1, <2>2, TickFrame DEF FwTypeOK
<1>5. QED BY <1>3, <1>4 DEF ListFirewall

\* Entering and leaving the firewall calls of the two loops.
LEMMA LoopInv ==
  ASSUME IInv, UNCHANGED resolverVars,
         RepairDelete \/ RepairAdd \/ RepairEnds \/ SweepDelete \/ SweepEnds
  PROVE  Core'
<1> USE DEF IInv, TypeOK
<1>1. /\ UNCHANGED <<storeVars, fw, policy, faults, want, keys, healthy>>
      /\ UNCHANGED <<lastId, passwordSet, answered>>
  BY DEF RepairDelete, RepairAdd, RepairEnds, SweepDelete, SweepEnds, storeVars, resolverVars
<1>2. WantFlow'
  BY <1>1, FlowFrame, Unchanged
<1>3. Id \subseteq Name
  BY MaxIdAssumption DEF Id, Name
<1>4. CASE RepairDelete
  <2>1. PICK i \in repairs : DeleteRule(Rec, i)
    BY <1>4 DEF RepairDelete
  <2>2. call' \in [Thread -> Call] /\ CallFlow' /\ call'[Rec].name \in repairs
    BY <1>1, <1>3, <2>1, DeleteRuleCall, RecThread DEF RecTypeOK
  <2>3. RecTypeOK' /\ TickShape'
    BY <1>1, <1>4, <2>2 DEF RepairDelete, RecTypeOK, TickShape
  <2>4. QED BY <1>1, <1>2, <2>2, <2>3, TickFrame DEF FwTypeOK
<1>5. CASE RepairAdd
  <2> DEFINE i == call[Rec].name
             ips == SplitFamilies(want[i])
  <2>1. i \in repairs /\ i \in Id /\ want[i] # NoRow
    BY <1>5 DEF RepairAdd, TickShape, RecTypeOK
  <2>2. /\ i \in Opened
        /\ ips \in SUBSET Entry
        /\ ips \subseteq answered[i]
    BY <2>1 DEF WantFlow, RecTypeOK, SplitFamilies
  <2>3. AddAllowRule(Rec, i, ips)
    BY <1>5 DEF RepairAdd
  <2>4. call' \in [Thread -> Call] /\ CallFlow'
    BY <1>1, <2>2, <2>3, AddAllowRuleCall, RecThread
  <2>5. RecTypeOK' /\ TickShape'
    BY <1>1, <1>5 DEF RepairAdd, RecTypeOK, TickShape
  <2>6. QED BY <1>1, <1>2, <2>4, <2>5, TickFrame DEF FwTypeOK
<1>6. CASE RepairEnds \/ SweepEnds
  <2>1. call' \in [Thread -> Call] /\ CallFlow'
    BY <1>1, <1>6, ReturnCall, RecThread DEF RepairEnds, SweepEnds
  <2>2. RecTypeOK' /\ TickShape'
    BY <1>1, <1>6 DEF RepairEnds, SweepEnds, RecTypeOK, TickShape
  <2>3. QED BY <1>1, <1>2, <2>1, <2>2, TickFrame DEF FwTypeOK
<1>7. CASE SweepDelete
  <2>1. PICK n \in sweeps : DeleteRule(Rec, n)
    BY <1>7 DEF SweepDelete
  <2>2. call' \in [Thread -> Call] /\ CallFlow'
    BY <1>1, <2>1, DeleteRuleCall, RecThread DEF RecTypeOK
  <2>3. RecTypeOK' /\ TickShape'
    BY <1>1, <1>7 DEF SweepDelete, RecTypeOK, TickShape
  <2>4. QED BY <1>1, <1>2, <2>2, <2>3, TickFrame DEF FwTypeOK
<1>8. QED BY <1>4, <1>5, <1>6, <1>7

LEMMA TickTailInv ==
  ASSUME IInv, UNCHANGED resolverVars, CheckPolicy \/ SetPolicy \/ RepairKeys
  PROVE  Core'
<1> USE DEF IInv, TypeOK
<1>1. /\ UNCHANGED <<storeVars, fw, call>>
      /\ UNCHANGED <<lastId, passwordSet, answered>>
      /\ recPc # "idle"
      /\ policy' \in {policy, "block"}
      /\ keys' \in BOOLEAN /\ healthy' \in BOOLEAN
  BY DEF CheckPolicy, SetPolicy, RepairKeys, storeVars, resolverVars, RecTypeOK
<1>2. CallFlow' /\ call' \in [Thread -> Call]
  BY <1>1, FlowFrame, Unchanged DEF FwTypeOK
<1>3. faults' \in 0 .. MaxFaults
  BY FaultType DEF CheckPolicy, SetPolicy, RepairKeys, FwTypeOK
<1>4. RecTypeOK' /\ WantFlow' /\ TickShape'
  <2>1. CASE TickEnds
    BY <1>1, <2>1, TickEndsInv
  <2>2. CASE UNCHANGED <<want, repairs, sweeps>> /\ recPc' \in {"setPolicy", "keys"}
    BY <1>1, <2>2, FlowFrame, Unchanged DEF RecTypeOK, TickShape
  <2>3. QED BY <2>1, <2>2 DEF CheckPolicy, SetPolicy, RepairKeys
<1>5. QED BY <1>1, <1>2, <1>3, <1>4, TickFrame

LEMMA RecInv ==
  ASSUME IInv, RecStep
  PROVE  Core'
<1> USE DEF IInv, TypeOK
<1>1. UNCHANGED resolverVars
  BY DEF RecStep
<1>2. CASE Tick
  BY <1>1, <1>2, TickBeginsInv, ListFirewallInv, LoopInv, TickTailInv DEF Tick
<1>3. CASE NetshStep(Rec) /\ UNCHANGED <<storeVars, recVars>>
  <2>1. UNCHANGED <<rules, lastId, passwordSet, wk, queue, dns, answered>>
    BY <1>1, <1>3 DEF storeVars, resolverVars
  <2>2. FwTypeOK' /\ FwFlow' /\ CallFlow' /\ Gate' /\ call'[Rec].name = call[Rec].name
    BY <1>1, <1>3, NetshInv, RecThread
  <2>3. RowFlow' /\ WantFlow' /\ WorkerFlow'
    BY <1>3, <2>1, FlowFrame, Unchanged DEF recVars
  <2>4. RecTypeOK' /\ TickShape'
    BY <1>3, <2>1, <2>2, RecFrame
  <2>5. StoreTypeOK' /\ ResolverTypeOK'
    BY <2>1 DEF StoreTypeOK, ResolverTypeOK
  <2>6. QED BY <2>2, <2>3, <2>4, <2>5 DEF Core
<1>4. QED BY <1>2, <1>3 DEF RecStep

-----------------------------------------------------------------------------
(* The theorems                                                            *)

LEMMA InitInv == Init => IInv
<1> SUFFICES ASSUME Init PROVE IInv
  OBVIOUS
<1>1. TypeOK
  BY InitType
<1>2. FwFlow
  BY DEF Init, FwInit, FwFlow, InstalledRule
<1>3. RowFlow /\ WantFlow /\ CallFlow /\ WorkerFlow
  BY DEF Init, StoreInit, FwInit, ResolverInit, RecInit, RowFlow, RowIds, WantFlow,
         CallFlow, WorkerFlow, NoWant, NoCall, Idle
<1>4. TickShape /\ ModeGate /\ Gate
  BY DEF Init, StoreInit, FwInit, RecInit, TickShape, ModeGate, Gate
<1>5. QED BY <1>1, <1>2, <1>3, <1>4 DEF IInv

\* A tick is under way in an enforcing process only: one does not start in
\* another, and a process takes its tick along when it dies.
LEMMA ModeInv ==
  ASSUME IInv, Next
  PROVE  enforce' \in BOOLEAN /\ ModeGate'
<1> USE DEF IInv, TypeOK, ModeGate
<1>1. ASSUME UNCHANGED <<recVars, enforce>> PROVE enforce' \in BOOLEAN /\ ModeGate'
  BY <1>1 DEF recVars
<1>2. CASE RecStep
  BY <1>2 DEF RecStep
<1>3. CASE Environment
  <2>1. CASE CrashAndRestart
    BY <2>1, ModesAssumption DEF CrashAndRestart, TickEnds
  <2>2. CASE ~CrashAndRestart
    <3>1. enforce' = enforce /\ recPc' = recPc
      BY <1>3, <2>2 DEF Environment, DnsChanges, AdminEditsRules, AdminAllowsOutbound,
                        AdminResetsFirewall, AdminDeletesKeys, recVars
    <3>2. QED BY <3>1
  <2>3. QED BY <2>1, <2>2
<1>4. QED BY <1>1, <1>2, <1>3 DEF Next, RefresherStep, WorkerStep, Request

LEMMA NextInv == IInv /\ [Next]_vars => IInv'
<1> SUFFICES ASSUME IInv, [Next]_vars PROVE IInv'
  OBVIOUS
<1>1. ASSUME Core', ModeGate', enforce' \in BOOLEAN, clean' \in BOOLEAN PROVE IInv'
  BY <1>1 DEF Core, IInv, TypeOK
<1>2. CASE Next
  <2>1. Core'
    <3>1. CASE RecStep
      BY <3>1, RecInv
    <3>2. CASE RefresherStep
      BY <3>2, WorkerInv, RefreshInv DEF RefresherStep, Worker
    <3>3. CASE \E h \in Http : WorkerStep(h)
      BY <3>3, WorkerInv DEF Worker
    <3>4. CASE Request
      BY <3>4, RequestInv
    <3>5. CASE Environment
      BY <3>5, EnvironmentInv
    <3>6. QED BY <1>2, <3>1, <3>2, <3>3, <3>4, <3>5 DEF Next
  <2>2. clean' \in BOOLEAN
    BY <1>2 DEF Next, RecStep, RefresherStep, WorkerStep, Request, Disturbs
  <2>3. QED BY <1>1, <1>2, <2>1, <2>2, ModeInv
<1>3. CASE UNCHANGED vars
  <2>1. UNCHANGED <<rules, lastId, passwordSet, fw, policy, call, faults,
                    wk, queue, dns, answered,
                    recPc, want, repairs, sweeps, keys, healthy, enforce, clean>>
    BY <1>3 DEF vars, storeVars, fwVars, resolverVars, recVars
  <2>2. TypeOK'
    BY <2>1 DEF IInv, TypeOK, StoreTypeOK, FwTypeOK, ResolverTypeOK, RecTypeOK
  <2>3. FwFlow' /\ RowFlow' /\ WantFlow' /\ CallFlow' /\ WorkerFlow'
    BY <2>1, FlowFrame, Unchanged
  <2>4. TickShape' /\ ModeGate' /\ Gate'
    BY <2>1 DEF IInv, TickShape, ModeGate, Gate
  <2>5. QED BY <2>2, <2>3, <2>4 DEF IInv
<1>4. QED BY <1>2, <1>3

THEOREM Invariance == Spec => []IInv
BY InitInv, NextInv, PTL DEF Spec

\* Every variable keeps its type.
THEOREM TypeCorrect == Spec => []TypeOK
<1>1. IInv => TypeOK
  BY DEF IInv
<1>2. QED BY <1>1, Invariance, PTL

\* Whatever skfilter has opened under a row's name was an answer for that
\* row's domain, in a rule of the right family.
THEOREM ProvenanceHolds == Spec => []Provenance
<1>1. IInv => Provenance
  BY OpenedAreIds DEF IInv, FwFlow, Provenance
<1>2. QED BY <1>1, Invariance, PTL

\* Without a password skfilter leaves the machine alone, in whatever mode.
THEOREM StandDownHolds == Spec => []StandDown
<1>1. IInv => StandDown
  <2>1. ASSUME IInv, ~passwordSet PROVE Opened = {}
    BY <2>1, MaxIdAssumption DEF IInv, TypeOK, StoreTypeOK, Gate, Opened
  <2>2. QED BY <2>1 DEF IInv, TypeOK, FwTypeOK, FwFlow, Gate, StandDown
<1>2. QED BY <1>1, Invariance, PTL

\* A netsh run of a worker changes the rules of the name it was called for.
LEMMA NetshOwnName ==
  ASSUME NEW t \in Thread, NetshStep(t), NEW r \in (fw \ fw') \cup (fw' \ fw)
  PROVE  call[t].op # "none" /\ call[t].name = r.name
<1>1. /\ call[t].op \in {"del4", "del6", "add4", "add6"}
      /\ \E fam \in {"v4", "v6"} :
           \/ \E next : Netsh(t, fw \ SubRules(call[t].name, fam), next)
           \/ \E next : Netsh(t, fw \cup {AllowRule(call[t].name, fam,
                                                 FilterIPs(call[t].ips, fam))}, next)
  BY DEF NetshStep, NetshDelete, NetshAdd
<1>2. ASSUME NEW fam, NEW next, Netsh(t, fw \ SubRules(call[t].name, fam), next)
      PROVE  call[t].name = r.name
  BY <1>2 DEF Netsh, SubRules
<1>3. ASSUME NEW fam, NEW ips, NEW next,
             Netsh(t, fw \cup {AllowRule(call[t].name, fam, ips)}, next)
      PROVE  call[t].name = r.name
  BY <1>3 DEF Netsh, AllowRule
<1>4. QED BY <1>1, <1>2, <1>3

\* What one step may do to the machine in -dev mode.
LEMMA DevStep ==
  ASSUME IInv, Next, ~enforce
  PROVE  /\ policy' = "block" => policy = "block"
         /\ keys' => keys
         /\ \A r \in (fw \ fw') \cup (fw' \ fw) :
              \/ AdminEditsRules \/ AdminResetsFirewall
              \/ \E w \in Worker : call[w].op # "none" /\ call[w].name = r.name
<1>1. ~RecStep
  BY DEF RecStep, IInv, ModeGate
<1>2. ASSUME policy' \in {"allow", policy}, keys' \in {FALSE, keys}
      PROVE  (policy' = "block" => policy = "block") /\ (keys' => keys)
  <2>1. policy' = "block" => policy = "block"
    BY <1>2
  <2>2. keys' = FALSE \/ keys' = keys
    BY <1>2
  <2>3. keys' => keys
    BY <2>2, Zenon
  <2>4. QED BY <2>1, <2>3
<1>3. ASSUME NEW w \in Worker, WorkerStep(w)
      PROVE  /\ UNCHANGED <<policy, keys>>
             /\ \A r \in (fw \ fw') \cup (fw' \ fw) :
                  call[w].op # "none" /\ call[w].name = r.name
  <2>1. keys' = keys
    BY <1>3 DEF WorkerStep, recVars
  <2>2. CASE NetshStep(w)
    BY <2>1, <2>2, NetshOwnName, WorkerThread DEF NetshStep
  <2>3. CASE ResolveAndApply(w)
    <3>1. fw' = fw /\ policy' = policy
      BY <2>3 DEF ResolveAndApply, GetRow, LookupFails, Lookup, AddAnswer, Persist, fwVars
    <3>2. QED BY <2>1, <3>1
  <2>4. QED BY <1>3, <2>2, <2>3 DEF WorkerStep
<1>4. CASE (RefreshAll \/ RefreshNext) /\ UNCHANGED <<recVars, enforce>>
  BY <1>4 DEF RefreshAll, RefreshNext, fwVars, recVars
<1>5. CASE Request
  <2>1. fw' = fw /\ policy' = policy /\ keys' = keys
    BY <1>5 DEF Request, SetPassword, HandleAddRule, HandleDeleteRule, HandleRefreshRule,
                fwVars, recVars
  <2>2. QED BY <2>1
<1>6. CASE Environment
  <2>1. CASE AdminEditsRules \/ AdminResetsFirewall
    BY <1>2, <2>1 DEF AdminEditsRules, AdminResetsFirewall, recVars
  <2>2. CASE ~(AdminEditsRules \/ AdminResetsFirewall)
    <3>1. fw' = fw /\ policy' \in {"allow", policy} /\ keys' \in {FALSE, keys}
      BY <1>6, <2>2 DEF Environment, DnsChanges, CrashAndRestart, AdminAllowsOutbound,
                        AdminDeletesKeys, recVars
    <3>2. QED BY <1>2, <3>1
  <2>3. QED BY <2>1, <2>2
<1>7. QED BY <1>1, <1>3, <1>4, <1>5, <1>6 DEF Next, RefresherStep, Worker

\* A process in -dev mode blocks nothing, restores nothing and sweeps nothing,
\* on a machine in whatever state an enforcing one has left.
THEOREM DevStandsDownHolds == Spec => DevStandsDown
<1>1. IInv /\ [Next]_vars
        => [~enforce =>
              /\ policy' = "block" => policy = "block"
              /\ keys' => keys
              /\ \A r \in (fw \ fw') \cup (fw' \ fw) :
                   \/ AdminEditsRules \/ AdminResetsFirewall
                   \/ \E w \in Worker : call[w].op # "none" /\ call[w].name = r.name]_vars
  BY DevStep
<1>2. QED BY <1>1, Invariance, PTL DEF Spec, DevStandsDown

\* Rows that are gone, seen from one step.
LEMMA DeletedStep ==
  ASSUME IInv, Next, NEW i \in Id, i <= lastId, rules[i] = NoRow
  PROVE  rules'[i] = NoRow
<1> USE DEF IInv, TypeOK, StoreTypeOK
<1>1. ASSUME rules' = rules PROVE rules'[i] = NoRow
  BY <1>1
<1>2. CASE RecStep
  <2>1. rules' = rules
    BY <1>2 DEF RecStep, Tick, TickBegins, ListFirewall, RepairDelete, RepairAdd, RepairEnds,
                SweepDelete, SweepEnds, CheckPolicy, SetPolicy, RepairKeys, storeVars
  <2>2. QED BY <1>1, <2>1
<1>3. ASSUME NEW w \in Worker, WorkerStep(w) PROVE rules'[i] = NoRow
  <2>1. CASE Persist(w)
    BY <2>1 DEF Persist, UpdateIPs, RowIds
  <2>2. CASE ~Persist(w)
    <3>1. rules' = rules
      BY <1>3, <2>2 DEF WorkerStep, ResolveAndApply, GetRow, LookupFails, Lookup, AddAnswer,
                        storeVars
    <3>2. QED BY <1>1, <3>1
  <2>3. QED BY <2>1, <2>2
<1>4. CASE RefreshAll \/ RefreshNext
  BY <1>1, <1>4 DEF RefreshAll, RefreshNext, storeVars
<1>5. CASE Request
  <2>1. ASSUME NEW h \in Http, NEW d \in Domain, HandleAddRule(h, d)
        PROVE  rules'[i] = NoRow
    BY <2>1, MaxIdAssumption DEF HandleAddRule, InsertRow
  <2>2. ASSUME NEW j \in Id, HandleDeleteRule(j) PROVE rules'[i] = NoRow
    BY <2>2 DEF HandleDeleteRule, DeleteRow
  <2>3. CASE SetPassword
    BY <2>3 DEF SetPassword
  <2>4. ASSUME NEW h \in Http, NEW j \in Id, HandleRefreshRule(h, j)
        PROVE  rules'[i] = NoRow
    BY <2>4 DEF HandleRefreshRule, storeVars
  <2>5. QED BY <1>5, <2>1, <2>2, <2>3, <2>4 DEF Request
<1>6. CASE Environment
  <2>1. rules' = rules
    BY <1>6 DEF Environment, DnsChanges, CrashAndRestart, AdminEditsRules,
                AdminAllowsOutbound, AdminResetsFirewall, AdminDeletesKeys, storeVars
  <2>2. QED BY <1>1, <2>1
<1>7. QED BY <1>2, <1>3, <1>4, <1>5, <1>6 DEF Next, RefresherStep, Worker

\* A deleted row never comes back and its id never gets another row.
THEOREM DeletedStaysDeletedHolds == Spec => DeletedStaysDeleted
<1>1. IInv /\ [Next]_vars
        => [\A i \in Id : i <= lastId /\ rules[i] = NoRow => rules'[i] = NoRow]_vars
  BY DeletedStep
<1>2. QED BY <1>1, Invariance, PTL DEF Spec, DeletedStaysDeleted

=============================================================================
