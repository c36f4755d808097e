-------------------------- MODULE Refinement_proofs --------------------------
(***************************************************************************)
(* Enforcement implements Allowlist, for every value of the constants.     *)
(*                                                                         *)
(* Most steps of the service are invisible from outside.  The others touch *)
(* the rules of one name, or the life or the answers of one entry; that    *)
(* they only open what the entry has had as an answer is the inductive     *)
(* invariant of Enforcement_proofs, in the state after the step.           *)
(***************************************************************************)
EXTENDS Enforcement_proofs

StagesKeep == \A i \in Id : Stage(i)' = Stage(i)

\* At most the rules of one name differ.
OpensKeepBut(n) == \A i \in Id \ {n} : Opens(i)' = Opens(i)

-----------------------------------------------------------------------------
(* From what a step leaves alone to a step of Allowlist                    *)

LEMMA Quiet ==
  ASSUME StagesKeep, answered' = answered, passwordSet' = passwordSet,
         \A i \in Id : Opens(i)' = Opens(i)
  PROVE  UNCHANGED Promise!vars
<1>1. [i \in Id |-> Stage(i)]' = [i \in Id |-> Stage(i)]
  BY DEF StagesKeep
<1>2. [i \in Id |-> Opens(i)]' = [i \in Id |-> Opens(i)]
  OBVIOUS
<1>3. QED BY <1>1, <1>2 DEF Promise!vars

\* Rows and ids keep their life when the table is left alone.
LEMMA StagesFrame ==
  ASSUME rules' = rules, lastId' = lastId
  PROVE  StagesKeep
BY DEF StagesKeep, Stage

LEMMA OpensFrame ==
  ASSUME fw' = fw
  PROVE  \A i \in Id : Opens(i)' = Opens(i)
BY DEF Opens

\* What is open was an answer.
LEMMA OpenWasAnswer ==
  ASSUME FwFlow, NEW i \in Id
  PROVE  Opens(i) \subseteq answered[i]
BY DEF FwFlow, Opens, FilterIPs

LEMMA UnbornIsClosed ==
  ASSUME IInv, NEW i \in Id, Stage(i) = "unborn"
  PROVE  Opens(i) = {}
<1>1. i \notin Opened
  BY MaxIdAssumption DEF Stage, Opened, Id, IInv, TypeOK, StoreTypeOK
<1>2. QED BY <1>1 DEF IInv, FwFlow, Opens

\* A change of the rules of one name.
LEMMA OneName ==
  ASSUME IInv, IInv', NEW n, OpensKeepBut(n), StagesKeep,
         answered' = answered, passwordSet' = passwordSet
  PROVE  [Promise!Next]_(Promise!vars)
<1>1. CASE n \in Id /\ Stage(n) # "unborn"
  <2>1. passwordSet
    BY <1>1, MaxIdAssumption DEF IInv, TypeOK, StoreTypeOK, Gate, Stage, Id
  <2>2. Opens(n)' \in SUBSET answered[n]
    <3>1. FwFlow'
      BY DEF IInv
    <3>2. \A r \in fw' : r.owner = "skfilter" /\ r.name = n => r.ips \subseteq answered'[n]
      BY <3>1 DEF FwFlow, FilterIPs
    <3>3. QED BY <3>2 DEF Opens
  <2>3. [i \in Id |-> Opens(i)]' = [[i \in Id |-> Opens(i)] EXCEPT ![n] = Opens(n)']
    BY <1>1 DEF OpensKeepBut
  <2>4. [i \in Id |-> Stage(i)]' = [i \in Id |-> Stage(i)]
    BY DEF StagesKeep
  <2>5. [i \in Id |-> Stage(i)][n] # "unborn"
    BY <1>1
  <2>6. Promise!Open(n)
    BY <2>1, <2>2, <2>3, <2>4, <2>5 DEF Promise!Open
  <2>7. QED BY <1>1, <2>6 DEF Promise!Next
<1>2. CASE ~(n \in Id /\ Stage(n) # "unborn")
  <2>1. \A i \in Id : Opens(i)' = Opens(i)
    <3>1. CASE n \notin Id
      BY <3>1 DEF OpensKeepBut
    <3>2. CASE n \in Id
      <4>1. Stage(n) = "unborn" /\ Stage(n)' = "unborn"
        BY <1>2, <3>2 DEF StagesKeep
      <4>2. Opens(n) = {}
        BY <3>2, <4>1, UnbornIsClosed
      <4>3. Opens(n)' = {}
        <5>1. n \notin Opened'
          BY <3>2, <4>1, MaxIdAssumption DEF Stage, Opened, Id, IInv, TypeOK, StoreTypeOK
        <5>2. QED BY <5>1 DEF IInv, FwFlow, Opens
      <4>4. QED BY <4>2, <4>3 DEF OpensKeepBut
    <3>3. QED BY <3>1, <3>2
  <2>2. QED BY <2>1, Quiet
<1>3. QED BY <1>1, <1>2

-----------------------------------------------------------------------------
(* The kinds of steps                                                      *)

\* A netsh run is about one name.
LEMMA NetshOneName ==
  ASSUME NEW t \in Thread, NetshStep(t)
  PROVE  OpensKeepBut(call[t].name)
<1> DEFINE n == call[t].name
<1>1. \A r : r.name # n => (r \in fw' <=> r \in fw)
  <2>1. ASSUME NEW result, NEW next, Netsh(t, result, next),
               \A r : r.name # n => (r \in result <=> r \in fw)
        PROVE  \A r : r.name # n => (r \in fw' <=> r \in fw)
    BY <2>1 DEF Netsh
  <2>2. \A fam : \A r : r.name # n => (r \in fw \ SubRules(n, fam) <=> r \in fw)
    BY DEF SubRules
  <2>3. \A fam, ips : \A r : r.name # n => (r \in fw \cup {AllowRule(n, fam, ips)} <=> r \in fw)
    BY DEF AllowRule
  <2>4. CASE NetshDelete(t)
    BY <2>1, <2>2, <2>4 DEF NetshDelete
  <2>5. CASE NetshAdd(t)
    BY <2>1, <2>3, <2>5 DEF NetshAdd
  <2>6. QED BY <2>4, <2>5 DEF NetshStep
<1>2. QED BY <1>1 DEF OpensKeepBut, Opens

LEMMA WorkerView ==
  ASSUME IInv, IInv', NEW w \in Worker, WorkerStep(w)
  PROVE  [Promise!Next]_(Promise!vars)
<1> USE DEF IInv, TypeOK
<1>1. CASE NetshStep(w) /\ UNCHANGED <<storeVars, resolverVars>>
  <2>1. UNCHANGED <<rules, lastId, passwordSet, answered>>
    BY <1>1 DEF storeVars, resolverVars
  <2>2. QED BY <1>1, <2>1, NetshOneName, StagesFrame, OneName, WorkerThread
<1>2. CASE GetRow(w) \/ LookupFails(w) \/ AddAnswer(w)
  <2>1. UNCHANGED <<rules, lastId, passwordSet, fw, answered>>
    BY <1>2 DEF GetRow, LookupFails, AddAnswer, storeVars, fwVars
  <2>2. QED BY <2>1, StagesFrame, OpensFrame, Quiet
<1>3. CASE Lookup(w)
  <2> DEFINE i == wk[w].id
             new == dns[wk[w].row.domain]
  <2>1. UNCHANGED <<rules, lastId, passwordSet, fw>>
        /\ answered' = [answered EXCEPT ![i] = @ \cup new]
    BY <1>3 DEF Lookup, storeVars
  <2>2. i \in Opened /\ i \in Id /\ wk[w].row \in Row
    BY <1>3, OpenedAreIds DEF Lookup, WorkerFlow
  <2>3. new \in SUBSET Entry
    BY <2>2 DEF ResolverTypeOK, Row
  <2>4. [j \in Id |-> Stage(j)][i] # "unborn"
    BY <2>2, MaxIdAssumption DEF Stage, Opened, Id, StoreTypeOK
  <2>5. [j \in Id |-> Stage(j)]' = [j \in Id |-> Stage(j)]
    BY <2>1, StagesFrame DEF StagesKeep
  <2>6. [j \in Id |-> Opens(j)]' = [j \in Id |-> Opens(j)]
    BY <2>1, OpensFrame
  <2>7. Promise!Learn(i)
    BY <2>1, <2>3, <2>4, <2>5, <2>6 DEF Promise!Learn
  <2>8. QED BY <2>2, <2>7 DEF Promise!Next
<1>4. CASE Persist(w)
  <2>1. UNCHANGED <<lastId, passwordSet, fw, answered>>
    BY <1>4 DEF Persist
  <2>2. StagesKeep
    <3>1. CASE rules' = rules
      BY <2>1, <3>1, StagesFrame
    <3>2. CASE wk[w].id \in RowIds /\ UpdateIPs(wk[w].id, wk[w].new)
      <4>1. wk[w].new \in SUBSET Entry
        BY DEF ResolverTypeOK, Progress
      <4>2. rules'[wk[w].id] # NoRow
        <5>1. rules[wk[w].id] \in Row
          BY <3>2 DEF RowIds, StoreTypeOK
        <5>2. [rules[wk[w].id] EXCEPT !.ips = wk[w].new, !.resolved = TRUE] \in Row
          BY <4>1, <5>1 DEF Row
        <5>3. rules'[wk[w].id] = [rules[wk[w].id] EXCEPT !.ips = wk[w].new, !.resolved = TRUE]
          BY <3>2 DEF UpdateIPs, RowIds, StoreTypeOK
        <5>4. QED BY <5>2, <5>3, NoRowAssumption
      <4>3. \A i \in Id : i # wk[w].id => rules'[i] = rules[i]
        BY <3>2 DEF UpdateIPs, StoreTypeOK
      <4>4. QED BY <2>1, <3>2, <4>2, <4>3 DEF StagesKeep, Stage, RowIds
    <3>3. QED BY <1>4, <3>1, <3>2 DEF Persist, UpdateIPs
  <2>3. QED BY <2>1, <2>2, OpensFrame, Quiet
<1>5. QED BY <1>1, <1>2, <1>3, <1>4 DEF WorkerStep, ResolveAndApply

LEMMA RecView ==
  ASSUME IInv, IInv', RecStep
  PROVE  [Promise!Next]_(Promise!vars)
<1>1. UNCHANGED answered
  BY DEF RecStep, resolverVars
<1>2. CASE Tick
  <2>1. UNCHANGED <<rules, lastId, passwordSet, fw>>
    BY <1>2 DEF Tick, TickBegins, ListFirewall, RepairDelete, RepairAdd, RepairEnds,
                SweepDelete, SweepEnds, CheckPolicy, SetPolicy, RepairKeys, storeVars, fwVars
  <2>2. QED BY <1>1, <2>1, StagesFrame, OpensFrame, Quiet
<1>3. CASE NetshStep(Rec) /\ UNCHANGED <<storeVars, recVars>>
  <2>1. UNCHANGED <<rules, lastId, passwordSet>>
    BY <1>3 DEF storeVars
  <2>2. QED BY <1>1, <1>3, <2>1, NetshOneName, StagesFrame, OneName, RecThread
<1>4. QED BY <1>2, <1>3 DEF RecStep

LEMMA AddView ==
  ASSUME IInv, NEW h \in Http, NEW d \in Domain, HandleAddRule(h, d)
  PROVE  Promise!Next
<1> USE DEF IInv, TypeOK, StoreTypeOK
<1>0. PICK i \in Nat : i = lastId + 1
  BY MaxIdAssumption
<1>1. /\ passwordSet /\ passwordSet' = passwordSet
      /\ lastId' = i /\ fw' = fw
      /\ answered' = [answered EXCEPT ![i] = {}]
      /\ rules' = [rules EXCEPT ![i] = [domain |-> d, ips |-> {}, resolved |-> FALSE]]
  BY <1>0 DEF HandleAddRule, InsertRow, fwVars
<1>2. lastId \in Nat /\ i \in Id
  BY <1>0, MaxIdAssumption DEF HandleAddRule, InsertRow, Id
<1>3. rules'[i] # NoRow
  <2>1. [domain |-> d, ips |-> {}, resolved |-> FALSE] \in Row
    BY DEF Row
  <2>2. QED BY <1>1, <1>2, <2>1, NoRowAssumption
<1>4. Stage(i) = "unborn" /\ \A j \in Id : j < i => Stage(j) # "unborn"
  BY <1>0, <1>2 DEF Stage, Id
<1>5. [j \in Id |-> Stage(j)]' = [[j \in Id |-> Stage(j)] EXCEPT ![i] = "live"]
  <2>1. Stage(i)' = "live"
    BY <1>1, <1>2, <1>3 DEF Stage, Id
  <2>2. \A j \in Id \ {i} : Stage(j)' = Stage(j)
    BY <1>0, <1>1, <1>2 DEF Stage, Id
  <2>3. QED BY <1>2, <2>1, <2>2
<1>6. [j \in Id |-> Opens(j)]' = [j \in Id |-> Opens(j)]
  BY <1>1, OpensFrame
<1>7. Promise!Add(i)
  BY <1>1, <1>2, <1>4, <1>5, <1>6 DEF Promise!Add
<1>8. QED BY <1>2, <1>7 DEF Promise!Next

LEMMA DeleteView ==
  ASSUME IInv, NEW i \in Id, HandleDeleteRule(i)
  PROVE  Promise!Next
<1> USE DEF IInv, TypeOK, StoreTypeOK
<1>1. /\ UNCHANGED <<lastId, passwordSet, fw, answered>>
      /\ i \in RowIds
      /\ rules' = [rules EXCEPT ![i] = NoRow]
  BY DEF HandleDeleteRule, DeleteRow, fwVars, resolverVars
<1>2. i <= lastId /\ lastId \in Nat
  BY <1>1, MaxIdAssumption DEF RowFlow, Opened
<1>3. Stage(i) = "live"
  BY <1>1, <1>2 DEF Stage, RowIds, Id
<1>4. [j \in Id |-> Stage(j)]' = [[j \in Id |-> Stage(j)] EXCEPT ![i] = "gone"]
  <2>1. Stage(i)' = "gone"
    BY <1>1, <1>2 DEF Stage, Id
  <2>2. \A j \in Id \ {i} : Stage(j)' = Stage(j)
    BY <1>1 DEF Stage
  <2>3. QED BY <2>1, <2>2
<1>5. [j \in Id |-> Opens(j)]' = [j \in Id |-> Opens(j)]
  BY <1>1, OpensFrame
<1>6. Promise!Remove(i)
  BY <1>1, <1>3, <1>4, <1>5 DEF Promise!Remove
<1>7. QED BY <1>6 DEF Promise!Next

LEMMA RequestView ==
  ASSUME IInv, Request
  PROVE  [Promise!Next]_(Promise!vars)
<1>1. CASE SetPassword /\ UNCHANGED <<fwVars, resolverVars>>
  <2>1. ~passwordSet /\ passwordSet' = TRUE /\ UNCHANGED <<rules, lastId, fw, answered>>
    BY <1>1 DEF SetPassword, fwVars, resolverVars
  <2>2. [j \in Id |-> Stage(j)]' = [j \in Id |-> Stage(j)]
    BY <2>1, StagesFrame DEF StagesKeep
  <2>3. [j \in Id |-> Opens(j)]' = [j \in Id |-> Opens(j)]
    BY <2>1, OpensFrame
  <2>4. Promise!GetReady
    BY <2>1, <2>2, <2>3 DEF Promise!GetReady
  <2>5. QED BY <2>4 DEF Promise!Next
<1>2. CASE \E h \in Http, d \in Domain : HandleAddRule(h, d)
  BY <1>2, AddView
<1>3. CASE \E i \in Id : HandleDeleteRule(i)
  BY <1>3, DeleteView
<1>4. CASE \E h \in Http, i \in Id : HandleRefreshRule(h, i)
  <2>1. UNCHANGED <<rules, lastId, passwordSet, fw, answered>>
    BY <1>4 DEF HandleRefreshRule, storeVars, fwVars
  <2>2. QED BY <2>1, StagesFrame, OpensFrame, Quiet
<1>5. QED BY <1>1, <1>2, <1>3, <1>4 DEF Request

LEMMA RefreshView ==
  ASSUME RefreshAll \/ RefreshNext
  PROVE  [Promise!Next]_(Promise!vars)
<1>1. UNCHANGED <<rules, lastId, passwordSet, fw, answered>>
  BY DEF RefreshAll, RefreshNext, storeVars, fwVars
<1>2. QED BY <1>1, StagesFrame, OpensFrame, Quiet

\* An administrator changes the rules of one name, or all of them at once.
LEMMA EnvironmentView ==
  ASSUME IInv, IInv', Environment
  PROVE  [Promise!Next]_(Promise!vars)
<1>1. UNCHANGED <<rules, lastId, passwordSet, answered>>
  BY DEF Environment, DnsChanges, CrashAndRestart, AdminEditsRules, AdminAllowsOutbound,
         AdminResetsFirewall, AdminDeletesKeys, storeVars, resolverVars
<1>2. StagesKeep
  BY <1>1, StagesFrame
<1>3. CASE AdminEditsRules
  <2>1. \E n : OpensKeepBut(n)
    <3>1. CASE \E r \in fw : fw' = fw \ {r}
      BY <3>1 DEF OpensKeepBut, Opens
    <3>2. CASE \E r \in fw : fw' = (fw \ {r}) \cup {[r EXCEPT !.on = FALSE]}
      <4>1. PICK r \in fw : fw' = (fw \ {r}) \cup {[r EXCEPT !.on = FALSE]}
        BY <3>2
      <4>2. [r EXCEPT !.on = FALSE].name = r.name
        BY DEF IInv, TypeOK, FwTypeOK, FwRule
      <4>3. QED BY <4>1, <4>2 DEF OpensKeepBut, Opens
    <3>3. CASE \E i, fam, ips : fw' = fw \cup {AdminRule(i, fam, ips)}
      <4>1. PICK i, fam, ips : fw' = fw \cup {AdminRule(i, fam, ips)}
        BY <3>3
      <4>2. AdminRule(i, fam, ips).name = i
        BY DEF AdminRule
      <4>3. QED BY <4>1, <4>2 DEF OpensKeepBut, Opens
    <3>4. QED BY <1>3, <3>1, <3>2, <3>3 DEF AdminEditsRules
  <2>2. QED BY <1>1, <1>2, <2>1, OneName
<1>4. CASE AdminResetsFirewall
  <2>1. [i \in Id |-> Opens(i)]' = [i \in Id |-> {}]
    BY <1>4 DEF AdminResetsFirewall, Opens
  <2>2. [i \in Id |-> Stage(i)]' = [i \in Id |-> Stage(i)]
    BY <1>2 DEF StagesKeep
  <2>3. Promise!CloseAll
    BY <1>1, <2>1, <2>2 DEF Promise!CloseAll
  <2>4. QED BY <2>3 DEF Promise!Next
<1>5. CASE ~AdminEditsRules /\ ~AdminResetsFirewall
  <2>1. fw' = fw
    BY <1>5 DEF Environment, DnsChanges, CrashAndRestart, AdminAllowsOutbound, AdminDeletesKeys
  <2>2. QED BY <1>1, <1>2, <2>1, OpensFrame, Quiet
<1>6. QED BY <1>3, <1>4, <1>5

-----------------------------------------------------------------------------
(* The refinement                                                          *)

LEMMA InitView == Init => Promise!Init
<1> SUFFICES ASSUME Init PROVE Promise!Init
  OBVIOUS
<1>1. [i \in Id |-> Stage(i)] = [i \in Id |-> "unborn"]
  BY MaxIdAssumption DEF Init, StoreInit, Stage, Id
<1>2. [i \in Id |-> Opens(i)] = [i \in Id |-> {}]
  BY DEF Init, FwInit, InstalledRule, Opens
<1>3. QED BY <1>1, <1>2 DEF Init, StoreInit, ResolverInit, Promise!Init

LEMMA NextView ==
  IInv /\ IInv' /\ [Next]_vars => [Promise!Next]_(Promise!vars)
<1> SUFFICES ASSUME IInv, IInv', [Next]_vars PROVE [Promise!Next]_(Promise!vars)
  OBVIOUS
<1>1. CASE RecStep
  BY <1>1, RecView
<1>2. CASE RefresherStep
  BY <1>2, WorkerView, RefreshView DEF RefresherStep, Worker
<1>3. CASE \E h \in Http : WorkerStep(h)
  BY <1>3, WorkerView DEF Worker
<1>4. CASE Request
  BY <1>4, RequestView
<1>5. CASE Environment
  BY <1>5, EnvironmentView
<1>6. CASE UNCHANGED vars
  <2>1. UNCHANGED <<rules, lastId, passwordSet, fw, answered>>
    BY <1>6 DEF vars, storeVars, fwVars, resolverVars
  <2>2. QED BY <2>1, StagesFrame, OpensFrame, Quiet
<1>7. QED BY <1>1, <1>2, <1>3, <1>4, <1>5, <1>6 DEF Next

\* The service, with every thread, failure and manual change of Enforcement,
\* does what an allowlist promises.
THEOREM Refinement == Spec => ImplementsAllowlist
BY InitView, NextView, Invariance, PTL DEF Spec, ImplementsAllowlist, Promise!Spec

=============================================================================
