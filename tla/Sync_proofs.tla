---------------------------- MODULE Sync_proofs ----------------------------
(***************************************************************************)
(* A tick that nothing interferes with brings the firewall in line with    *)
(* the rows, and rewrites nothing that is in line already, for every       *)
(* number of rows, handlers and disturbances: every name of a host or a    *)
(* single address, whatever other rows are networks.                       *)
(***************************************************************************)
EXTENDS Enforcement_proofs

Plain(S) == \A e \in S : ~e.cidr

\* No lookup has ever returned a network for this row.
Hosts(i) == Plain(answered[i])

\* A name whose rules are those of its row, or that has a rule which the parser
\* and DeleteRule do not see for what it is.
Synced(i) == InSync(i) \/ \E r \in fw : r.name = i /\ Invisible(r)

\* TickSyncs for the names that no network was ever opened under.  For the
\* others it is false: parseRemoteIPField and splitFamilies drop networks.
HostsSync == SweepDone /\ clean => \A i \in Id : Hosts(i) => Synced(i)

\* LeavesCorrectAlone, for the same names.
HostsLeftAlone ==
  [][clean /\ (RepairDelete \/ SweepDelete) /\ Hosts(call'[Rec].name) => Due(call'[Rec].name)]_vars

-----------------------------------------------------------------------------
(* The inductive invariant, on top of IInv                                 *)

\* Rules made by hand are limited to single addresses.
HandMade == \A r \in fw : r.owner # "skfilter" => Plain(r.ips)

\* The reconciler is in a call exactly where its tick has made one, for a name
\* that it has still to visit.
CallShape ==
  /\ recPc \in {"idle", "list", "loop", "setPolicy", "keys"} => call[Rec].op = "none"
  /\ recPc \in {"repair", "sweep"} => call[Rec].op \in {"del4", "del6", "ok", "err"}
  /\ recPc = "repaired" => call[Rec].op \in {"add4", "add6", "ok", "err"} /\ call[Rec].name \in repairs
  /\ recPc = "sweep" => call[Rec].name \in sweeps
  /\ recPc = "idle" => sweeps = {}
  /\ sweeps \subseteq {i \in Id : want[i] = NoRow}

Looping == clean /\ recPc \in {"loop", "repair", "repaired", "sweep"}

\* The rules of one family under a name, none or the one that AddAllowRule adds.
Blank(n, fam) == SubRules(n, fam) = {}
Written(n, fam) ==
  LET ips == FilterIPs(SplitFamilies(want[n]), fam)
  IN  SubRules(n, fam) = IF ips = {} THEN {} ELSE {AllowRule(n, fam, ips)}

\* DeleteRule, one family after the other.
Deleting(n, op) == /\ op # "err"
                   /\ op \in {"del6", "ok"} => Blank(n, "v4")
                   /\ op = "ok" => Blank(n, "v6")

\* AddAllowRule; without addresses it fails, and the name stays blank.
Adding(n, op) == /\ IF op = "add4" THEN Blank(n, "v4") ELSE Written(n, "v4")
                 /\ IF op \in {"add4", "add6"} THEN Blank(n, "v6") ELSE Written(n, "v6")

\* What the tick has still to visit, apart from the name it is at.
Ahead == IF recPc = "loop" THEN repairs \cup sweeps ELSE (repairs \cup sweeps) \ {call[Rec].name}

\* The progress of an undisturbed tick: the snapshot is still true, every name
\* it has not to visit any more is in line, and the others are still due.
Advance ==
  /\ clean /\ recPc # "idle" => want = AllEnabled
  /\ Looping => \A i \in Id \ (repairs \cup sweeps) : Hosts(i) => Synced(i)
  /\ Looping => \A i \in Ahead : Hosts(i) => Due(i)
  /\ Looping /\ recPc \in {"repair", "sweep"} => Deleting(call[Rec].name, call[Rec].op)
  /\ Looping /\ recPc = "repaired" => /\ call[Rec].ips = SplitFamilies(want[call[Rec].name])
                                      /\ Adding(call[Rec].name, call[Rec].op)

Sync == HandMade /\ CallShape /\ Advance

-----------------------------------------------------------------------------
(* What netsh prints and what the rules permit                             *)

\* A single address survives the way through netsh's output and the parser.
LEMMA ParsePlain ==
  ASSUME NEW S \in SUBSET Entry, Plain(S)
  PROVE  ParseRemoteIPField(S) = S
<1>1. ASSUME NEW e \in S PROVE ParseRemoteIP(Show(e)) = e
  <2>1. e \in Entry /\ e.cidr = FALSE
    BY DEF Plain, Entry
  <2> QED
    BY <2>1 DEF ParseRemoteIP, Show, Entry
<1> QED
  BY <1>1 DEF ParseRemoteIPField

LEMMA SplitPlain ==
  ASSUME NEW S, Plain(S)
  PROVE  SplitFamilies(S) = S
BY DEF Plain, SplitFamilies

\* A host's name has no networks in its row and its rules.
LEMMA HostPlaces ==
  ASSUME IInv, HandMade, NEW i \in Id, Hosts(i)
  PROVE  /\ \A r \in fw : r.name = i => r.ips \in SUBSET Entry /\ Plain(r.ips)
         /\ i \in RowIds => Plain(rules[i].ips)
<1>1. ASSUME NEW r \in fw, r.name = i PROVE r.ips \in SUBSET Entry /\ Plain(r.ips)
  BY <1>1 DEF IInv, TypeOK, FwTypeOK, FwRule, FwFlow, HandMade, Hosts, Plain, FilterIPs
<1>2. ASSUME i \in RowIds PROVE Plain(rules[i].ips)
  BY <1>2 DEF IInv, RowFlow, Hosts, Plain
<1> QED
  BY <1>1, <1>2

\* Without an invisible rule, a name permits what its rules list.
LEMMA PermitsListed ==
  ASSUME NEW i \in Id, ~ \E r \in fw : r.name = i /\ Invisible(r)
  PROVE  Permits(i) = UNION {r.ips : r \in {s \in fw : s.name = i}}
<1>1. \A r \in fw : r.name = i => r.on /\ r.ips # {}
  BY DEF Invisible
<1>2. {r \in fw : r.name = i /\ r.on} = {r \in fw : r.name = i}
  BY <1>1
<1> QED
  BY <1>1, <1>2 DEF Permits

\* The snapshot and the rows say the same of a name.
LEMMA WantIsRow ==
  ASSUME IInv, want = AllEnabled, NEW i \in Id
  PROVE  /\ want[i] = NoRow => RowAddresses(i) = {}
         /\ want[i] # NoRow => RowAddresses(i) = want[i] /\ i \in RowIds
<1>1. want[i] = IF rules[i] = NoRow THEN NoRow ELSE rules[i].ips
  BY DEF AllEnabled
<1>2. ASSUME rules[i] # NoRow PROVE rules[i].ips # NoRow
  <2>1. rules[i].ips \in SUBSET Entry
    BY <1>2 DEF IInv, TypeOK, StoreTypeOK, Row
  <2> QED
    BY <2>1, NoRowAssumption
<1> QED
  BY <1>1, <1>2 DEF RowAddresses, RowIds

\* What the parser makes of a host's rules is what they permit.
LEMMA ParsedIsPermitted ==
  ASSUME IInv, HandMade, NEW i \in Id, Hosts(i), ~ \E r \in fw : r.name = i /\ Invisible(r)
  PROVE  ParsedIPs(fw, i) = Permits(i)
<1>1. ASSUME NEW r \in fw, r.name = i PROVE ParseRemoteIPField(r.ips) = r.ips
  BY <1>1, HostPlaces, ParsePlain
<1>2. {ParseRemoteIPField(r.ips) : r \in {s \in fw : s.name = i}} = {r.ips : r \in {s \in fw : s.name = i}}
  BY <1>1
<1> QED
  BY <1>2, PermitsListed DEF ParsedIPs

LEMMA UnparsedPermitsNothing ==
  ASSUME NEW i \in Id, i \notin ParsedNames(fw)
  PROVE  Permits(i) = {}
BY DEF ParsedNames, Permits

\* What the diff of ListFirewall leaves out is in line, if it can be seen, ...
LEMMA UnlistedSynced ==
  ASSUME IInv, HandMade, want = AllEnabled, NEW i \in Id, Hosts(i),
         want[i] # NoRow => ParsedIPs(fw, i) = want[i],
         want[i] = NoRow => i \notin ParsedNames(fw)
  PROVE  Synced(i)
<1> SUFFICES ASSUME ~ \E r \in fw : r.name = i /\ Invisible(r)
             PROVE  InSync(i)
  BY DEF Synced
<1>1. CASE want[i] = NoRow
  BY <1>1, UnparsedPermitsNothing, WantIsRow DEF InSync
<1>2. CASE want[i] # NoRow
  BY <1>2, ParsedIsPermitted, WantIsRow DEF InSync
<1> QED
  BY <1>1, <1>2

\* ... and what it lists is not.
LEMMA ListedDue ==
  ASSUME IInv, HandMade, want = AllEnabled, NEW i \in Id, Hosts(i),
         \/ want[i] # NoRow /\ (i \notin ParsedNames(fw) \/ ParsedIPs(fw, i) # want[i])
         \/ want[i] = NoRow /\ i \in ParsedNames(fw)
  PROVE  Due(i)
<1> SUFFICES ASSUME InSync(i), ~ \E r \in fw : r.name = i /\ Invisible(r)
             PROVE  i \in RowIds /\ rules[i].ips = {}
  BY DEF Due
<1>1. CASE want[i] = NoRow
  <2>1. PICK r \in fw : r.name = i
    BY <1>1 DEF ParsedNames
  <2>2. r.ips # {} /\ r.ips \subseteq Permits(i)
    BY <2>1 DEF Invisible, Permits
  <2>3. Permits(i) = {}
    BY <1>1, WantIsRow DEF InSync
  <2> QED
    BY <2>2, <2>3
<1>2. CASE want[i] # NoRow
  <2>1. Permits(i) = want[i] /\ RowAddresses(i) = want[i] /\ i \in RowIds
    BY <1>2, WantIsRow DEF InSync
  <2>2. i \notin ParsedNames(fw)
    BY <1>2, <2>1, ParsedIsPermitted
  <2> QED
    BY <2>1, <2>2, UnparsedPermitsNothing DEF RowAddresses
<1> QED
  BY <1>1, <1>2

\* A name whose rules have all been deleted, and whose row is gone too.
LEMMA BlankSynced ==
  ASSUME IInv, want = AllEnabled, NEW i \in Id, want[i] = NoRow, Blank(i, "v4"), Blank(i, "v6")
  PROVE  Synced(i)
<1> SUFFICES ASSUME ~ \E r \in fw : r.name = i /\ Invisible(r)
             PROVE  InSync(i)
  BY DEF Synced
<1>1. ASSUME NEW r \in fw, r.name = i PROVE FALSE
  <2>1. r.fam \in {"v4", "v6"}
    BY <1>1 DEF IInv, TypeOK, FwTypeOK, FwRule, Family, Invisible
  <2> QED
    BY <1>1, <2>1 DEF Blank, SubRules
<1>2. {s \in fw : s.name = i} = {}
  BY <1>1
<1>3. Permits(i) = {}
  BY <1>2, PermitsListed
<1> QED
  BY <1>3, WantIsRow DEF InSync

\* A name whose rules have been rewritten from the snapshot.
LEMMA WrittenSynced ==
  ASSUME IInv, HandMade, want = AllEnabled, NEW i \in Id, Hosts(i), want[i] # NoRow,
         Written(i, "v4"), Written(i, "v6")
  PROVE  Synced(i)
<1> SUFFICES ASSUME ~ \E r \in fw : r.name = i /\ Invisible(r)
             PROVE  Permits(i) = want[i]
  BY WantIsRow DEF Synced, InSync
<1>0. SplitFamilies(want[i]) = want[i]
  BY WantIsRow, HostPlaces, SplitPlain DEF RowAddresses
<1>1. Permits(i) = UNION {r.ips : r \in {s \in fw : s.name = i}}
  BY PermitsListed
<1>2. ASSUME NEW r \in fw, r.name = i PROVE r.ips \subseteq want[i]
  <2>1. r.fam \in {"v4", "v6"}
    BY <1>2 DEF IInv, TypeOK, FwTypeOK, FwRule, Family, Invisible
  <2>2. r \in SubRules(i, r.fam)
    BY <1>2 DEF SubRules
  <2>3. r = AllowRule(i, r.fam, FilterIPs(want[i], r.fam))
    BY <1>0, <2>1, <2>2 DEF Written
  <2>4. r.ips = FilterIPs(want[i], r.fam)
    BY <2>3 DEF AllowRule
  <2> QED
    BY <2>4 DEF FilterIPs
<1>3. ASSUME NEW e \in want[i] PROVE \E r \in fw : r.name = i /\ e \in r.ips
  <2>1. PICK fam \in {"v4", "v6"} : e \in FilterIPs(want[i], fam)
    BY FamilyOfType DEF FilterIPs, Family
  <2>2. AllowRule(i, fam, FilterIPs(want[i], fam)) \in SubRules(i, fam)
    BY <1>0, <2>1 DEF Written
  <2> QED
    BY <2>1, <2>2 DEF SubRules, AllowRule
<1> QED
  BY <1>1, <1>2, <1>3

-----------------------------------------------------------------------------
(* Rules made by hand, and rows that have had a network                     *)

LEMMA InitSync == Init => Sync
<1> SUFFICES ASSUME Init PROVE Sync
  OBVIOUS
<1>1. HandMade
  BY DEF Init, FwInit, InstalledRule, HandMade, Plain
<1>2. CallShape /\ Advance
  BY ReconcilerAssumption DEF Init, RecInit, FwInit, NoCall, CallShape, Advance, Looping, Rec
<1> QED
  BY <1>1, <1>2 DEF Sync

\* A netsh run of a call removes rules, or adds one of skfilter's own.
LEMMA NetshSources ==
  ASSUME NEW t, NetshStep(t)
  PROVE  \A r \in fw' : r \in fw \/ r.owner = "skfilter"
BY DEF NetshStep, NetshDelete, NetshAdd, Netsh, AllowRule

LEMMA AdminSources ==
  ASSUME IInv, HandMade, AdminEditsRules, NEW r \in fw', r.owner # "skfilter"
  PROVE  Plain(r.ips)
<1>1. CASE fw' \subseteq fw
  BY <1>1 DEF HandMade
<1>2. CASE \E i \in Id, e \in Entry : \E fam \in {FamilyOf(e), "none"} :
             ~e.cidr /\ fw' = fw \cup {AdminRule(i, fam, {e})}
  BY <1>2 DEF AdminRule, Plain, HandMade
<1>3. CASE \E i \in Id : fw' = fw \cup {AdminRule(i, "v4", {})}
  BY <1>3 DEF AdminRule, Plain, HandMade
<1>4. CASE \E s \in fw : fw' = (fw \ {s}) \cup {[s EXCEPT !.on = FALSE]}
  <2>1. PICK s \in fw : fw' = (fw \ {s}) \cup {[s EXCEPT !.on = FALSE]}
    BY <1>4
  <2> DEFINE off == [s EXCEPT !.on = FALSE]
  <2>2. s \in FwRule
    BY DEF IInv, TypeOK, FwTypeOK
  <2>3. off.ips = s.ips /\ off.owner = s.owner
    BY <2>2 DEF FwRule
  <2> HIDE DEF off
  <2>4. r \in fw \/ r = off
    BY <2>1 DEF off
  <2> QED
    BY <2>3, <2>4 DEF HandMade
<1> QED
  BY <1>1, <1>2, <1>3, <1>4 DEF AdminEditsRules

LEMMA HandMadeStep ==
  ASSUME IInv, HandMade, Next
  PROVE  HandMade'
<1> SUFFICES ASSUME NEW r \in fw', r.owner # "skfilter" PROVE Plain(r.ips)
  BY DEF HandMade, Plain
<1>1. ASSUME r \in fw PROVE Plain(r.ips)
  BY <1>1 DEF HandMade
<1>2. CASE \E t : NetshStep(t)
  BY <1>1, <1>2, NetshSources
<1>3. CASE RecStep /\ ~ \E t : NetshStep(t)
  BY <1>1, <1>3 DEF RecStep, Tick, TickBegins, ListFirewall, RepairDelete, RepairAdd, RepairEnds,
                    SweepDelete, SweepEnds, CheckPolicy, SetPolicy, RepairKeys, fwVars
<1>4. CASE (RefresherStep \/ \E h \in Http : WorkerStep(h)) /\ ~ \E t : NetshStep(t)
  BY <1>1, <1>4 DEF RefresherStep, WorkerStep, ResolveAndApply, GetRow, LookupFails, Lookup, AddAnswer,
                    Persist, RefreshAll, RefreshNext, fwVars
<1>5. CASE Request
  BY <1>1, <1>5 DEF Request, HandleAddRule, HandleDeleteRule, HandleRefreshRule, fwVars
<1>6. CASE Environment
  BY <1>1, <1>6, AdminSources DEF Environment, DnsChanges, CrashAndRestart, AdminAllowsOutbound,
                                  AdminResetsFirewall, AdminDeletesKeys
<1> QED
  BY <1>2, <1>3, <1>4, <1>5, <1>6 DEF Next

\* A lookup or a new row changes what has been answered; nothing else does.
LEMMA AnswersFrom ==
  ASSUME Next
  PROVE  \/ answered' = answered
         \/ \E w \in Worker : Lookup(w)
         \/ Request /\ \E h \in Http, d \in Domain : HandleAddRule(h, d)
<1>1. CASE RecStep \/ Environment
  BY <1>1 DEF RecStep, Environment, DnsChanges, CrashAndRestart, AdminEditsRules, AdminAllowsOutbound,
              AdminResetsFirewall, AdminDeletesKeys, resolverVars
<1>2. CASE (RefresherStep \/ \E h \in Http : WorkerStep(h)) /\ ~ \E w \in Worker : Lookup(w)
  BY <1>2 DEF RefresherStep, WorkerStep, ResolveAndApply, GetRow, LookupFails, AddAnswer,
              Persist, RefreshAll, RefreshNext, Worker, resolverVars
<1>3. CASE Request /\ ~ \E h \in Http, d \in Domain : HandleAddRule(h, d)
  BY <1>3 DEF Request, HandleDeleteRule, HandleRefreshRule, resolverVars
<1> QED
  BY <1>1, <1>2, <1>3 DEF Next

\* A row that has had a network stays one, at least until the tick that is
\* under way counts as disturbed.
LEMMA HostsStay ==
  ASSUME IInv, Next, clean', NEW i \in Id, Hosts(i)'
  PROVE  Hosts(i)
<1>1. CASE answered' = answered
  BY <1>1 DEF Hosts
<1>2. CASE \E w \in Worker : Lookup(w)
  BY <1>2 DEF Lookup, Hosts, Plain, IInv, TypeOK, ResolverTypeOK
<1>3. CASE Request /\ \E h \in Http, d \in Domain : HandleAddRule(h, d)
  <2>1. PICK d \in Domain : InsertRow(d)
    BY <1>3 DEF HandleAddRule
  <2>2. rules'[lastId + 1] # rules[lastId + 1]
    <3>1. lastId + 1 \in Id /\ lastId + 1 \notin Opened
      BY <2>1, MaxIdAssumption DEF InsertRow, IInv, TypeOK, StoreTypeOK, Id, Opened
    <3>2. rules[lastId + 1] = NoRow
      BY <3>1 DEF IInv, RowFlow, RowIds
    <3>3. rules'[lastId + 1] \in Row
      BY <2>1, <3>1 DEF InsertRow, Row, IInv, TypeOK, StoreTypeOK
    <3> QED
      BY <3>2, <3>3, NoRowAssumption
  <2> QED
    BY <1>3, <2>2 DEF Request, Disturbs
<1> QED
  BY <1>1, <1>2, <1>3, AnswersFrom

-----------------------------------------------------------------------------
(* Steps beside the tick                                                   *)

\* A step that leaves the tick where it is, and its rules and rows alone if it
\* is not to count as a disturbance.
LEMMA TickKept ==
  ASSUME IInv, CallShape, Advance,
         UNCHANGED <<recPc, want, repairs, sweeps>>, call'[Rec] = call[Rec],
         clean' => /\ clean /\ UNCHANGED <<rules, fw>>
                   /\ \A i \in Id : Hosts(i)' => Hosts(i)
  PROVE  CallShape' /\ Advance'
<1>1. CallShape'
  BY DEF CallShape
<1>2. CASE clean'
  <2>1. clean /\ rules' = rules /\ fw' = fw /\ \A i \in Id : Hosts(i)' => Hosts(i)
    BY <1>2
  <2>2. AllEnabled' = AllEnabled
    BY <2>1 DEF AllEnabled
  <2>3. \A i : (Synced(i)' <=> Synced(i)) /\ (Due(i)' <=> Due(i))
    BY <2>1 DEF Synced, Due, InSync, Permits, RowAddresses, RowIds, Invisible
  <2>4. \A n, fam : (Blank(n, fam)' <=> Blank(n, fam)) /\ (Written(n, fam)' <=> Written(n, fam))
    BY <2>1 DEF Blank, Written, SubRules
  <2>5. Ahead' = Ahead /\ Ahead \subseteq Id
    BY DEF Ahead, CallShape, IInv, TypeOK, RecTypeOK
  <2> QED
    BY <1>1, <2>1, <2>2, <2>3, <2>4, <2>5 DEF Advance, Looping, Deleting, Adding
<1>3. CASE ~clean'
  BY <1>1, <1>3 DEF Advance, Looping
<1> QED
  BY <1>2, <1>3

\* A tick that has ended, by itself or with its process.
LEMMA TickOver ==
  ASSUME recPc' = "idle", sweeps' = {}, call'[Rec].op = "none"
  PROVE  CallShape' /\ Advance'
BY DEF CallShape, Advance, Looping

LEMMA WorkerBeside ==
  ASSUME IInv, NEW w \in Worker, WorkerStep(w)
  PROVE  call'[Rec] = call[Rec]
<1>1. CASE ResolveAndApply(w)
  BY <1>1, WorkerThread DEF ResolveAndApply, GetRow, LookupFails, Lookup, AddAnswer, Persist, DeleteRule,
                            AddAllowRule, Return, IInv, TypeOK, FwTypeOK, fwVars
<1>2. CASE NetshStep(w)
  BY <1>2, WorkerThread DEF NetshStep, NetshDelete, NetshAdd, Netsh, IInv, TypeOK, FwTypeOK
<1> QED
  BY <1>1, <1>2 DEF WorkerStep

LEMMA BesideSync ==
  ASSUME IInv, CallShape, Advance, Next,
         \/ RefresherStep
         \/ \E h \in Http : WorkerStep(h)
         \/ Request
         \/ Environment /\ Disturbs
  PROVE  CallShape' /\ Advance'
<1>1. clean' => /\ clean /\ UNCHANGED <<rules, fw>>
                /\ \A i \in Id : Hosts(i)' => Hosts(i)
  <2>1. clean' => clean /\ UNCHANGED <<rules, fw>>
    BY DEF RefresherStep, WorkerStep, Request, Disturbs
  <2> QED
    BY <2>1, HostsStay
<1>2. CASE CrashAndRestart
  BY <1>2, TickOver, ReconcilerAssumption DEF CrashAndRestart, TickEnds, NoCall, Rec
<1>3. ASSUME UNCHANGED recVars, call'[Rec] = call[Rec] PROVE CallShape' /\ Advance'
  BY <1>1, <1>3, TickKept DEF recVars
<1>4. ASSUME NEW w \in Worker, WorkerStep(w) PROVE CallShape' /\ Advance'
  BY <1>3, <1>4, WorkerBeside DEF WorkerStep
<1>5. CASE (RefreshAll \/ RefreshNext) /\ UNCHANGED recVars
  BY <1>3, <1>5 DEF RefreshAll, RefreshNext, fwVars
<1>6. CASE Request
  BY <1>3, <1>6 DEF Request, HandleAddRule, HandleDeleteRule, HandleRefreshRule, fwVars
<1>7. CASE Environment /\ ~CrashAndRestart
  <2>1. UNCHANGED <<recPc, want, repairs, sweeps, call>>
    BY <1>7 DEF Environment, DnsChanges, AdminEditsRules, AdminAllowsOutbound, AdminResetsFirewall,
                AdminDeletesKeys, recVars
  <2> QED
    BY <1>1, <2>1, TickKept
<1> QED
  BY <1>2, <1>4, <1>5, <1>6, <1>7 DEF RefresherStep, Worker

-----------------------------------------------------------------------------
(* The steps of the tick, apart from its netsh runs                        *)

\* While the tick works on something, the frame is the same for every step.
LEMMA TickStill ==
  ASSUME UNCHANGED <<rules, fw, resolverVars>>
  PROVE  /\ AllEnabled' = AllEnabled
         /\ \A i : Hosts(i)' <=> Hosts(i)
         /\ want' = want => \A n, fam : (Blank(n, fam)' <=> Blank(n, fam)) /\ (Written(n, fam)' <=> Written(n, fam))
         /\ \A i : (Synced(i)' <=> Synced(i)) /\ (Due(i)' <=> Due(i))
BY DEF AllEnabled, Blank, Written, SubRules, Synced, Due, InSync, Permits, RowAddresses, RowIds, Invisible, Hosts,
       resolverVars

LEMMA StartSync ==
  ASSUME IInv, HandMade, CallShape, Advance, TickBegins \/ ListFirewall, UNCHANGED resolverVars,
         clean' = (recPc = "idle" \/ (clean /\ faults' = faults))
  PROVE  CallShape' /\ Advance'
<1>1. /\ UNCHANGED <<rules, fw, call, resolverVars>> /\ call[Rec].op = "none"
  BY DEF TickBegins, ListFirewall, CallShape, storeVars, fwVars
<1>2. CASE TickBegins
  BY <1>1, <1>2, TickStill DEF TickBegins, CallShape, Advance, Looping
<1>3. CASE ListFirewall /\ recPc' = "loop"
  <2>1. /\ recPc = "list" /\ want' = want
        /\ repairs' = {i \in Id : want[i] # NoRow /\ (i \notin ParsedNames(fw) \/ ParsedIPs(fw, i) # want[i])}
        /\ sweeps' = {n \in ParsedNames(fw) \ Reserved : want[n] = NoRow}
    BY <1>3 DEF ListFirewall, TickEnds
  <2>2. CallShape'
    <3>1. ParsedNames(fw) \ Reserved \subseteq Id
      BY MaxIdAssumption DEF IInv, TypeOK, FwTypeOK, FwRule, ParsedNames, Name, Reserved, Id
    <3> QED
      BY <1>1, <1>3, <2>1, <3>1 DEF CallShape
  <2>3. ASSUME clean', NEW i \in Id \ (repairs' \cup sweeps'), Hosts(i) PROVE Synced(i)
    <3>1. want = AllEnabled
      BY <2>1, <2>3 DEF Advance
    <3>2. i \notin Reserved
      BY MaxIdAssumption DEF Id, Reserved
    <3>3. /\ want[i] # NoRow => ParsedIPs(fw, i) = want[i]
          /\ want[i] = NoRow => i \notin ParsedNames(fw)
      BY <2>1, <2>3, <3>2
    <3> QED
      BY <2>3, <3>1, <3>3, UnlistedSynced
  <2>4. ASSUME clean', NEW i \in repairs' \cup sweeps', Hosts(i) PROVE Due(i)
    <3>1. want = AllEnabled
      BY <2>1, <2>4 DEF Advance
    <3>2. i \in Id
      BY <2>1, <2>2 DEF CallShape
    <3>3. \/ want[i] # NoRow /\ (i \notin ParsedNames(fw) \/ ParsedIPs(fw, i) # want[i])
          \/ want[i] = NoRow /\ i \in ParsedNames(fw)
      BY <2>1
    <3> QED
      BY <2>4, <3>1, <3>2, <3>3, ListedDue
  <2>5. clean' => want' = AllEnabled'
    BY <1>1, <2>1, TickStill DEF Advance
  <2> QED
    BY <1>1, <1>3, <2>2, <2>3, <2>4, <2>5, TickStill DEF Advance, Looping, Ahead
<1>4. CASE TickEnds
  BY <1>1, <1>4, TickOver DEF TickEnds
<1> QED
  BY <1>2, <1>3, <1>4 DEF ListFirewall

LEMMA TailSync ==
  ASSUME CallShape, Advance, CheckPolicy \/ SetPolicy \/ RepairKeys,
         clean' = (recPc = "idle" \/ (clean /\ faults' = faults))
  PROVE  CallShape' /\ Advance'
<1>1. UNCHANGED <<rules, call>> /\ call[Rec].op = "none" /\ recPc # "idle"
  BY DEF CheckPolicy, SetPolicy, RepairKeys, CallShape, storeVars
<1>2. CASE TickEnds
  BY <1>1, <1>2, TickOver DEF TickEnds
<1>3. CASE recPc' \in {"setPolicy", "keys"} /\ UNCHANGED <<want, repairs, sweeps>>
  <2>1. AllEnabled' = AllEnabled
    BY <1>1 DEF AllEnabled
  <2> QED
    BY <1>1, <1>3, <2>1 DEF CallShape, Advance, Looping
<1> QED
  BY <1>2, <1>3 DEF CheckPolicy, SetPolicy, RepairKeys

\* Entering a call: DeleteRule for a name that is still to be visited.
LEMMA DeleteSync ==
  ASSUME IInv, CallShape, Advance, RepairDelete \/ SweepDelete, UNCHANGED resolverVars,
         clean' = (recPc = "idle" \/ (clean /\ faults' = faults))
  PROVE  CallShape' /\ Advance'
<1>1. /\ UNCHANGED <<rules, fw, want, repairs, sweeps, resolverVars>>
      /\ recPc = "loop" /\ (clean' => clean)
      /\ \/ recPc' = "repair" /\ \E n \in repairs : DeleteRule(Rec, n)
         \/ recPc' = "sweep" /\ \E n \in sweeps : DeleteRule(Rec, n)
      /\ call'[Rec].op = "del4" /\ (recPc' = "sweep" => call'[Rec].name \in sweeps)
  <2>1. /\ UNCHANGED <<rules, fw, want, repairs, sweeps, resolverVars>>
        /\ recPc = "loop" /\ (clean' => clean)
        /\ \/ recPc' = "repair" /\ \E n \in repairs : DeleteRule(Rec, n)
           \/ recPc' = "sweep" /\ \E n \in sweeps : DeleteRule(Rec, n)
    BY DEF RepairDelete, SweepDelete, storeVars
  <2>2. ASSUME NEW n, DeleteRule(Rec, n) PROVE call'[Rec].op = "del4" /\ call'[Rec].name = n
    BY <2>2, RecThread DEF DeleteRule
  <2> QED
    BY <2>1, <2>2
<1>2. CallShape'
  BY <1>1 DEF CallShape
<1>3. /\ Looping' => Looping
      /\ clean' => want' = AllEnabled'
      /\ Ahead' \subseteq Ahead
  BY <1>1, TickStill DEF Advance, Looping, Ahead
<1> QED
  BY <1>1, <1>2, <1>3, TickStill DEF Advance, Deleting

\* AddAllowRule follows, on a name that an undisturbed DeleteRule has cleared.
LEMMA RepairAddSync ==
  ASSUME IInv, CallShape, Advance, RepairAdd, UNCHANGED resolverVars,
         clean' = (recPc = "idle" \/ (clean /\ faults' = faults))
  PROVE  CallShape' /\ Advance'
<1> DEFINE n   == call[Rec].name
           ips == SplitFamilies(want[n])
           op  == IF ips = {} THEN "err" ELSE IF FilterIPs(ips, "v4") # {} THEN "add4" ELSE "add6"
<1>1. /\ UNCHANGED <<rules, fw, want, repairs, sweeps, resolverVars>>
      /\ recPc = "repair" /\ recPc' = "repaired" /\ (clean' => clean)
      /\ call[Rec].op \in {"ok", "err"}
      /\ n \in repairs /\ n \in Id /\ want[n] # NoRow
  BY DEF RepairAdd, Returned, IInv, TypeOK, RecTypeOK, TickShape, storeVars
<1>2. call'[Rec] = [op |-> op, name |-> n, ips |-> ips]
  BY RecThread DEF RepairAdd, AddAllowRule
<1>3. op \in {"err", "add4", "add6"}
  OBVIOUS
<1>4. CallShape'
  BY <1>1, <1>2, <1>3 DEF CallShape
<1>5. CASE ~clean'
  BY <1>4, <1>5 DEF Advance, Looping
<1>6. CASE clean'
  <2>1. want = AllEnabled /\ call[Rec].op = "ok" /\ Blank(n, "v4") /\ Blank(n, "v6")
    BY <1>1, <1>6 DEF Advance, Looping, Deleting
  <2>2. FilterIPs(ips, "v4") = {} => Written(n, "v4")
    BY <2>1 DEF Blank, Written
  <2>3. ips = {} => FilterIPs(ips, "v4") = {} /\ Written(n, "v6")
    BY <2>1 DEF Blank, Written, FilterIPs
  <2>4. Adding(n, op)
    BY <1>3, <2>1, <2>2, <2>3 DEF Adding
  <2>5. ips = SplitFamilies(want[n])
    OBVIOUS
  <2> HIDE DEF n, ips, op
  <2>6. /\ call'[Rec].ips = SplitFamilies(want'[call'[Rec].name])
        /\ call'[Rec].name = n /\ call'[Rec].op = op
    BY <1>1, <1>2, <2>5
  <2>7. Adding(call[Rec].name, call[Rec].op)'
    BY <1>1, <2>4, <2>6, TickStill DEF Adding
  <2>8. \A i \in Id \ (repairs' \cup sweeps') : Hosts(i)' => Synced(i)'
    BY <1>1, <1>6, TickStill DEF Advance, Looping
  <2>9. \A i \in Ahead' : Hosts(i)' => Due(i)'
    <3>1. Ahead' = Ahead
      BY <1>1, <2>6 DEF Ahead, n
    <3> QED
      BY <1>1, <1>6, <3>1, TickStill DEF Advance, Looping
  <2> QED
    BY <1>1, <1>4, <2>1, <2>6, <2>7, <2>8, <2>9, TickStill DEF Advance
<1> QED
  BY <1>5, <1>6

\* Leaving a call: its name is in line and need not be visited again.
LEMMA ReturnSync ==
  ASSUME IInv, HandMade, CallShape, Advance, RepairEnds \/ SweepEnds, UNCHANGED resolverVars,
         clean' = (recPc = "idle" \/ (clean /\ faults' = faults))
  PROVE  CallShape' /\ Advance'
<1> DEFINE n == call[Rec].name
<1>0. repairs' \cup sweeps' \subseteq (repairs \cup sweeps) \ {n}
  <2>1. CASE RepairEnds
    <3>1. n \in repairs /\ n \notin sweeps
      BY <2>1 DEF RepairEnds, CallShape, IInv, TickShape
    <3> QED
      BY <2>1, <3>1 DEF RepairEnds
  <2>2. CASE SweepEnds
    <3>1. n \in sweeps /\ n \notin repairs
      BY <2>2 DEF SweepEnds, CallShape, IInv, TickShape
    <3> QED
      BY <2>2, <3>1 DEF SweepEnds
  <2> QED
    BY <2>1, <2>2
<1>1. /\ UNCHANGED <<rules, fw, want, resolverVars>>
      /\ recPc \in {"repaired", "sweep"} /\ recPc' = "loop" /\ (clean' => clean)
      /\ call[Rec].op \in {"ok", "err"} /\ call'[Rec].op = "none"
      /\ repairs \cup sweeps \subseteq repairs' \cup sweeps' \cup {n}
      /\ sweeps' \subseteq sweeps
  <2>1. /\ UNCHANGED <<rules, fw, want, resolverVars>>
        /\ recPc \in {"repaired", "sweep"} /\ recPc' = "loop" /\ (clean' => clean)
        /\ Returned(Rec) /\ Return(Rec)
        /\ \/ repairs' = repairs \ {n} /\ sweeps' = sweeps
           \/ sweeps' = sweeps \ {n} /\ repairs' = repairs
    BY DEF RepairEnds, SweepEnds, storeVars
  <2>2. call'[Rec].op = "none"
    BY <2>1, RecThread DEF Return, NoCall
  <2> QED
    BY <2>1, <2>2 DEF Returned
<1>2. CallShape'
  BY <1>1 DEF CallShape
<1>3. ASSUME clean, n \in Id, Hosts(n) PROVE Synced(n)
  <2>1. want = AllEnabled
    BY <1>1, <1>3 DEF Advance
  <2>2. CASE recPc = "repaired"
    <3>1. n \in Id /\ want[n] # NoRow
      BY <2>2 DEF CallShape, IInv, TypeOK, RecTypeOK, TickShape
    <3>2. Written(n, "v4") /\ Written(n, "v6")
      BY <1>1, <1>3, <2>2 DEF Advance, Looping, Adding
    <3> QED
      BY <1>3, <2>1, <3>1, <3>2, WrittenSynced
  <2>3. CASE recPc = "sweep"
    <3>1. n \in Id /\ want[n] = NoRow
      BY <2>3 DEF CallShape
    <3>2. Blank(n, "v4") /\ Blank(n, "v6")
      BY <1>1, <1>3, <2>3 DEF Advance, Looping, Deleting
    <3> QED
      BY <2>1, <3>1, <3>2, BlankSynced
  <2> QED
    BY <1>1, <2>2, <2>3
<1>4. ASSUME clean', NEW i \in Id \ (repairs' \cup sweeps'), Hosts(i) PROVE Synced(i)'
  <2>1. i = n \/ i \notin repairs \cup sweeps
    BY <1>1, <1>4
  <2>2. Synced(i)
    BY <1>1, <1>3, <1>4, <2>1 DEF Advance, Looping
  <2> QED
    BY <1>1, <2>2, TickStill
<1>5. clean' => want' = AllEnabled'
  BY <1>1, TickStill DEF Advance
<1>6. Ahead' \subseteq Ahead
  BY <1>0, <1>1 DEF Ahead
<1>7. ASSUME clean', NEW i \in Ahead', Hosts(i) PROVE Due(i)'
  BY <1>1, <1>6, <1>7, TickStill DEF Advance, Looping
<1> QED
  BY <1>1, <1>2, <1>4, <1>5, <1>7, TickStill DEF Advance, Looping

-----------------------------------------------------------------------------
(* The netsh runs of the tick                                              *)

\* A run touches the rules of its own name only.
LEMMA OthersSynced ==
  ASSUME UNCHANGED rules, NEW n, NEW i, i # n,
         \A r : r.name # n => (r \in fw' <=> r \in fw)
  PROVE  (Synced(i)' <=> Synced(i)) /\ (Due(i)' <=> Due(i))
<1>1. {r \in fw' : r.name = i /\ r.on} = {r \in fw : r.name = i /\ r.on}
  OBVIOUS
<1>2. Permits(i)' = Permits(i)
  BY <1>1 DEF Permits
<1>3. RowAddresses(i)' = RowAddresses(i) /\ RowIds' = RowIds
  BY DEF RowAddresses, RowIds
<1>4. (\E r \in fw' : r.name = i /\ Invisible(r)) <=> (\E r \in fw : r.name = i /\ Invisible(r))
  OBVIOUS
<1> QED
  BY <1>2, <1>3, <1>4 DEF Synced, Due, InSync, Invisible

\* Only the position of the call changes.
LEMMA OpMoves ==
  ASSUME IInv, NEW op, call' = [call EXCEPT ![Rec].op = op]
  PROVE  call'[Rec].op = op /\ call'[Rec].name = call[Rec].name /\ call'[Rec].ips = call[Rec].ips
<1>1. Rec \in Thread /\ call[Rec] \in Call /\ call \in [Thread -> Call]
  BY RecThread
<1>2. call'[Rec] = [call[Rec] EXCEPT !.op = op]
  BY <1>1
<1> QED
  BY <1>1, <1>2 DEF Call

\* A run that succeeds: which rules it leaves, and where the call goes.
Ran(fam, add, next) ==
  LET n == call[Rec].name
  IN  /\ fw' = IF add THEN fw \cup {AllowRule(n, fam, FilterIPs(call[Rec].ips, fam))}
                      ELSE fw \ SubRules(n, fam)
      /\ call' = [call EXCEPT ![Rec].op = next]

LEMMA NetshOutcomes ==
  ASSUME IInv, NetshStep(Rec)
  PROVE  \/ call[Rec].op = "del4" /\ (Ran("v4", FALSE, "del6") \/ faults' # faults)
         \/ call[Rec].op = "del6" /\ (Ran("v6", FALSE, "ok") \/ faults' # faults)
         \/ /\ call[Rec].op = "add4"
            /\ \/ Ran("v4", TRUE, IF FilterIPs(call[Rec].ips, "v6") = {} THEN "ok" ELSE "add6")
               \/ faults' # faults
         \/ call[Rec].op = "add6" /\ (Ran("v6", TRUE, "ok") \/ faults' # faults)
<1>1. ASSUME Fault("netsh") PROVE faults' # faults
  BY <1>1, MaxFaultsAssumption DEF Fault, IInv, TypeOK, FwTypeOK
<1> QED
  BY <1>1 DEF NetshStep, NetshDelete, NetshAdd, Netsh, Ran

\* Where the call goes, disturbed or not.
LEMMA NetshMoves ==
  ASSUME IInv, NetshStep(Rec)
  PROVE  /\ call'[Rec].name = call[Rec].name /\ call'[Rec].ips = call[Rec].ips
         /\ \/ call[Rec].op \in {"del4", "del6"} /\ call'[Rec].op \in {"del6", "ok", "err"}
            \/ call[Rec].op \in {"add4", "add6"} /\ call'[Rec].op \in {"add6", "ok", "err"}
<1>1. \/ /\ call[Rec].op \in {"del4", "del6"}
         /\ \E result : \E next \in {"del6", "ok"} : Netsh(Rec, result, next)
      \/ /\ call[Rec].op \in {"add4", "add6"}
         /\ \E result : \E next \in {"add6", "ok"} : Netsh(Rec, result, next)
  <2>1. CASE NetshDelete(Rec)
    BY <2>1 DEF NetshDelete
  <2>2. CASE NetshAdd(Rec)
    BY <2>2 DEF NetshAdd
  <2> QED
    BY <2>1, <2>2 DEF NetshStep
<1>2. ASSUME NEW result, NEW next, Netsh(Rec, result, next)
      PROVE  /\ call'[Rec].name = call[Rec].name /\ call'[Rec].ips = call[Rec].ips
             /\ call'[Rec].op \in {next, "err"}
  BY <1>2, OpMoves DEF Netsh
<1> QED
  BY <1>1, <1>2

LEMMA RunDeletes ==
  ASSUME NEW n, NEW fam, fw' = fw \ SubRules(n, fam)
  PROVE  /\ Blank(n, fam)'
         /\ \A other : Blank(n, other) => Blank(n, other)'
         /\ \A r : r.name # n => (r \in fw' <=> r \in fw)
BY DEF Blank, SubRules

LEMMA RunAdds ==
  ASSUME NEW n, NEW fam, NEW ips, fw' = fw \cup {AllowRule(n, fam, ips)}
  PROVE  /\ Blank(n, fam) => SubRules(n, fam)' = {AllowRule(n, fam, ips)}
         /\ \A other : other # fam => SubRules(n, other)' = SubRules(n, other)
         /\ \A r : r.name # n => (r \in fw' <=> r \in fw)
<1>1. AllowRule(n, fam, ips).name = n /\ AllowRule(n, fam, ips).fam = fam
  BY DEF AllowRule
<1> DEFINE new == AllowRule(n, fam, ips)
<1> HIDE DEF new
<1>2. new.name = n /\ new.fam = fam /\ fw' = fw \cup {new}
  BY <1>1 DEF new
<1>3. Blank(n, fam) => SubRules(n, fam)' = {new}
  BY <1>2 DEF Blank, SubRules
<1>4. \A other : other # fam => SubRules(n, other)' = SubRules(n, other)
  BY <1>2 DEF SubRules
<1> QED
  BY <1>2, <1>3, <1>4 DEF new

\* An undisturbed run does its part of the call.
LEMMA RunAdvances ==
  ASSUME IInv, CallShape, Advance, NetshStep(Rec), UNCHANGED <<storeVars, recVars>>,
         recPc # "idle", clean, faults' = faults, NEW n, n = call[Rec].name
  PROVE  /\ \A r : r.name # n => (r \in fw' <=> r \in fw)
         /\ recPc \in {"repair", "sweep"} => Deleting(n, call[Rec].op)'
         /\ recPc = "repaired" => Adding(n, call[Rec].op)'
<1> DEFINE op  == call[Rec].op
           ips == call[Rec].ips
<1>1. want' = want
  BY DEF recVars
<1>2. /\ op \in {"del4", "del6"} => recPc \in {"repair", "sweep"} /\ Deleting(n, op)
      /\ op \in {"add4", "add6"} => recPc = "repaired" /\ Adding(n, op) /\ ips = SplitFamilies(want[n])
  BY DEF CallShape, Advance, Looping, IInv, TypeOK, RecTypeOK
<1>3. /\ op = "add4" => FilterIPs(ips, "v4") # {}
      /\ op = "add6" => FilterIPs(ips, "v6") # {}
  BY RecThread DEF IInv, CallFlow
<1>4. CASE op = "del4"
  <2>1. Ran("v4", FALSE, "del6")
    BY <1>4, NetshOutcomes
  <2>2. fw' = fw \ SubRules(n, "v4") /\ call'[Rec].op = "del6"
    BY <2>1, OpMoves DEF Ran
  <2> QED
    BY <1>2, <1>4, <2>2, RunDeletes DEF Deleting
<1>5. CASE op = "del6"
  <2>1. Ran("v6", FALSE, "ok")
    BY <1>5, NetshOutcomes
  <2>2. fw' = fw \ SubRules(n, "v6") /\ call'[Rec].op = "ok"
    BY <2>1, OpMoves DEF Ran
  <2> QED
    BY <1>2, <1>5, <2>2, RunDeletes DEF Deleting
<1>6. CASE op = "add4"
  <2> DEFINE next == IF FilterIPs(ips, "v6") = {} THEN "ok" ELSE "add6"
  <2>1. Ran("v4", TRUE, next)
    BY <1>6, NetshOutcomes
  <2>2. fw' = fw \cup {AllowRule(n, "v4", FilterIPs(ips, "v4"))} /\ call'[Rec].op = next
    BY <2>1, OpMoves DEF Ran
  <2>3. Blank(n, "v4") /\ Blank(n, "v6")
    BY <1>2, <1>6 DEF Adding
  <2>4. /\ SubRules(n, "v4")' = {AllowRule(n, "v4", FilterIPs(ips, "v4"))}
        /\ SubRules(n, "v6")' = {}
    BY <2>2, <2>3, RunAdds DEF Blank
  <2>5. Written(n, "v4")'
    BY <1>1, <1>2, <1>3, <1>6, <2>4 DEF Written
  <2>6. Blank(n, "v6")' /\ (FilterIPs(ips, "v6") = {} => Written(n, "v6")')
    BY <1>1, <1>2, <1>6, <2>4 DEF Blank, Written
  <2> QED
    BY <1>2, <1>6, <2>2, <2>5, <2>6, RunAdds DEF Adding
<1>7. CASE op = "add6"
  <2>1. Ran("v6", TRUE, "ok")
    BY <1>7, NetshOutcomes
  <2>2. fw' = fw \cup {AllowRule(n, "v6", FilterIPs(ips, "v6"))} /\ call'[Rec].op = "ok"
    BY <2>1, OpMoves DEF Ran
  <2>3. Written(n, "v4") /\ Blank(n, "v6")
    BY <1>2, <1>7 DEF Adding
  <2>4. /\ SubRules(n, "v6")' = {AllowRule(n, "v6", FilterIPs(ips, "v6"))}
        /\ SubRules(n, "v4")' = SubRules(n, "v4")
    BY <2>2, <2>3, RunAdds
  <2>5. Written(n, "v4")'
    BY <1>1, <2>3, <2>4 DEF Written
  <2>6. Written(n, "v6")'
    BY <1>1, <1>2, <1>3, <1>7, <2>4 DEF Written
  <2> QED
    BY <1>2, <1>7, <2>2, <2>5, <2>6, RunAdds DEF Adding
<1> QED
  BY <1>4, <1>5, <1>6, <1>7, NetshMoves

LEMMA NetshSync ==
  ASSUME IInv, CallShape, Advance, NetshStep(Rec), UNCHANGED <<storeVars, recVars, resolverVars>>,
         clean' = (recPc = "idle" \/ (clean /\ faults' = faults))
  PROVE  CallShape' /\ Advance'
<1>1. UNCHANGED <<rules, recPc, want, repairs, sweeps, answered>>
  BY DEF storeVars, recVars, resolverVars
<1>2. CallShape'
  BY <1>1, NetshMoves DEF CallShape
<1>3. recPc \in {"repair", "repaired", "sweep"}
  BY NetshMoves DEF CallShape, IInv, TypeOK, RecTypeOK
<1>4. CASE ~clean'
  BY <1>2, <1>4 DEF Advance, Looping
<1>5. CASE clean'
  <2>1. clean /\ faults' = faults /\ Looping /\ want = AllEnabled
    BY <1>3, <1>5 DEF Looping, Advance
  <2>2. PICK n : n = call[Rec].name
    OBVIOUS
  <2>3. /\ \A r : r.name # n => (r \in fw' <=> r \in fw)
        /\ recPc \in {"repair", "sweep"} => Deleting(n, call[Rec].op)'
        /\ recPc = "repaired" => Adding(n, call[Rec].op)'
    BY <1>3, <2>1, <2>2, RunAdvances
  <2>4. ASSUME NEW i \in Id \ (repairs \cup sweeps), Hosts(i) PROVE Synced(i)'
    <3>1. n \in repairs \cup sweeps
      BY <1>3, <2>2 DEF CallShape, IInv, TickShape
    <3> QED
      BY <1>1, <2>1, <2>3, <2>4, <3>1, OthersSynced DEF Advance
  <2>5. want' = AllEnabled'
    BY <1>1, <2>1 DEF AllEnabled
  <2>6. call'[Rec].name = n /\ call'[Rec].ips = call[Rec].ips
    BY <2>2, NetshMoves
  <2>7. \A i : Hosts(i)' <=> Hosts(i)
    BY <1>1 DEF Hosts
  <2>8. ASSUME NEW i \in Ahead', Hosts(i) PROVE Due(i)'
    <3>1. i \in Ahead /\ i # n
      BY <1>1, <1>3, <2>2, <2>6, <2>8 DEF Ahead
    <3> QED
      BY <1>1, <2>1, <2>3, <2>8, <3>1, OthersSynced DEF Advance
  <2> QED
    BY <1>1, <1>2, <2>1, <2>2, <2>3, <2>4, <2>5, <2>6, <2>7, <2>8 DEF Advance, Deleting, Adding
<1> QED
  BY <1>4, <1>5

-----------------------------------------------------------------------------
(* The theorem                                                             *)

LEMMA SyncStep == IInv /\ Sync /\ [Next]_vars => Sync'
<1> SUFFICES ASSUME IInv, Sync, [Next]_vars PROVE Sync'
  OBVIOUS
<1> USE DEF Sync
<1>1. CASE Next
  <2>1. HandMade'
    BY <1>1, HandMadeStep
  <2>2. CASE RecStep
    <3>1. /\ UNCHANGED resolverVars
          /\ clean' = (recPc = "idle" \/ (clean /\ faults' = faults))
          /\ Tick \/ (NetshStep(Rec) /\ UNCHANGED <<storeVars, recVars>>)
      BY <2>2 DEF RecStep
    <3>2. CASE Tick
      BY <2>1, <3>1, <3>2, StartSync, DeleteSync, RepairAddSync, ReturnSync, TailSync DEF Tick
    <3>3. CASE NetshStep(Rec) /\ UNCHANGED <<storeVars, recVars>>
      BY <2>1, <3>1, <3>3, NetshSync
    <3> QED
      BY <3>1, <3>2, <3>3
  <2>3. CASE ~RecStep
    BY <1>1, <2>1, <2>3, BesideSync DEF Next
  <2> QED
    BY <2>2, <2>3
<1>2. CASE UNCHANGED vars
  <2>1. UNCHANGED <<rules, fw, call, answered, recPc, want, repairs, sweeps, clean>>
    BY <1>2 DEF vars, storeVars, fwVars, resolverVars, recVars
  <2>2. CallShape' /\ Advance'
    BY <2>1, TickKept DEF Hosts
  <2> QED
    BY <2>1, <2>2 DEF HandMade
<1> QED
  BY <1>1, <1>2

\* A tick that nothing interferes with leaves every name of a host or a single
\* address with exactly the addresses of its row, whatever the firewall held
\* before, however often disturbances came before, and whatever networks other
\* rows open, except for names with a rule that the parser and DeleteRule do
\* not see for what it is.  (reconciler.go:126-162)
THEOREM HostsSyncHolds == Spec => []HostsSync
<1>1. Sync => HostsSync
  BY DEF Sync, Advance, Looping, HostsSync, SweepDone
<1> QED
  BY <1>1, InitSync, SyncStep, Invariance, PTL DEF Spec

LEMMA RewriteDue ==
  ASSUME IInv, Sync, clean, RepairDelete \/ SweepDelete
  PROVE  call'[Rec].name \in Id /\ (Hosts(call'[Rec].name) => Due(call'[Rec].name))
<1>1. PICK n \in repairs \cup sweeps : DeleteRule(Rec, n)
  BY DEF RepairDelete, SweepDelete
<1>2. call'[Rec].name = n
  BY <1>1, RecThread DEF DeleteRule
<1>3. n \in Id
  BY <1>1 DEF Sync, CallShape, IInv, TypeOK, RecTypeOK
<1>4. recPc = "loop"
  BY DEF RepairDelete, SweepDelete
<1> QED
  BY <1>1, <1>2, <1>3, <1>4 DEF Sync, Advance, Looping, Ahead

\* A tick that nothing interferes with takes the rules of such a name away only
\* if they are not those of its row, cannot be seen for what they are, or the
\* row has no addresses yet.  (reconciler.go:126-162, rules.go:138-140)
THEOREM HostsLeftAloneHolds == Spec => HostsLeftAlone
<1>1. IInv /\ Sync /\ [Next]_vars
        => [clean /\ (RepairDelete \/ SweepDelete) /\ Hosts(call'[Rec].name) => Due(call'[Rec].name)]_vars
  BY RewriteDue
<1> QED
  BY <1>1, InitSync, SyncStep, Invariance, PTL DEF Spec, HostsLeftAlone

-----------------------------------------------------------------------------
(* An allowlist without networks                                           *)

NoNetworks == \A d \in Domain : \A S \in Answers[d] : Plain(S)

AllHosts == /\ \A d \in Domain : Plain(dns[d])
            /\ \A i \in Id : Hosts(i)

LEMMA InitAllHosts == NoNetworks /\ Init => AllHosts
BY AnswersAssumption DEF NoNetworks, AllHosts, Hosts, Plain, Init, ResolverInit

LEMMA AllHostsStep == NoNetworks /\ IInv /\ AllHosts /\ [Next]_vars => AllHosts'
<1> SUFFICES ASSUME NoNetworks, IInv, AllHosts, [Next]_vars PROVE AllHosts'
  OBVIOUS
<1>1. ASSUME NEW d \in Domain PROVE Plain(dns'[d])
  <2>1. CASE dns' = dns
    BY <2>1 DEF AllHosts
  <2>2. CASE \E c \in Domain : DnsChanges(c)
    <3>1. PICK c \in Domain : \E ans \in Answers[c] : dns' = [dns EXCEPT ![c] = ans]
      BY <2>2 DEF DnsChanges
    <3>2. \A ans \in Answers[c] : Plain(ans)
      BY DEF NoNetworks
    <3> QED
      BY <3>1, <3>2 DEF AllHosts, IInv, TypeOK, ResolverTypeOK
  <2>3. Next => dns' = dns \/ \E c \in Domain : DnsChanges(c)
    BY DEF Next, RecStep, RefresherStep, WorkerStep, ResolveAndApply, GetRow, LookupFails, Lookup, AddAnswer,
           Persist, RefreshAll, RefreshNext, Request, HandleAddRule, HandleDeleteRule, HandleRefreshRule,
           Environment, CrashAndRestart, AdminEditsRules, AdminAllowsOutbound, AdminResetsFirewall,
           AdminDeletesKeys, resolverVars
  <2>4. UNCHANGED vars => dns' = dns
    BY DEF vars, resolverVars
  <2> QED
    BY <2>1, <2>2, <2>3, <2>4
<1>2. ASSUME NEW i \in Id PROVE Plain(answered'[i])
  <2>1. CASE answered' = answered
    BY <2>1 DEF AllHosts, Hosts
  <2>2. CASE \E w \in Worker : Lookup(w)
    <3>1. PICK w \in Worker : Lookup(w)
      BY <2>2
    <3>2. wk[w].row.domain \in Domain
      BY <3>1, WorkerThread DEF IInv, WorkerFlow, Lookup, Row
    <3>3. answered' = [answered EXCEPT ![wk[w].id] = @ \cup dns[wk[w].row.domain]]
      BY <3>1 DEF Lookup
    <3> QED
      BY <3>2, <3>3 DEF AllHosts, Hosts, Plain, IInv, TypeOK, ResolverTypeOK
  <2>3. CASE \E h \in Http, d \in Domain : HandleAddRule(h, d)
    BY <2>3 DEF HandleAddRule, AllHosts, Hosts, Plain, IInv, TypeOK, ResolverTypeOK
  <2>4. UNCHANGED vars => answered' = answered
    BY DEF vars, resolverVars
  <2> QED
    BY <2>1, <2>2, <2>3, <2>4, AnswersFrom
<1> QED
  BY <1>1, <1>2 DEF AllHosts, Hosts

\* The property of run sync, which keeps to an allowlist of hosts and single
\* addresses: there an undisturbed tick brings all the names in line.  With a
\* network in an answer it is false, as run cidr_never_syncs shows.
THEOREM TickSyncsHolds == NoNetworks => (Spec => []TickSyncs)
<1> SUFFICES ASSUME NoNetworks PROVE Spec => []TickSyncs
  OBVIOUS
<1>1. AllHosts /\ HostsSync => TickSyncs
  BY DEF AllHosts, HostsSync, Synced, TickSyncs
<1>2. Init => AllHosts
  BY InitAllHosts
<1>3. IInv /\ AllHosts /\ [Next]_vars => AllHosts'
  BY AllHostsStep
<1> QED
  BY <1>1, <1>2, <1>3, HostsSyncHolds, Invariance, PTL DEF Spec

\* Nor is any correct rule rewritten on such an allowlist, which is the other
\* property of that run.  (rules.go:138-140)
THEOREM LeavesCorrectAloneHolds == NoNetworks => (Spec => LeavesCorrectAlone)
<1> SUFFICES ASSUME NoNetworks PROVE Spec => LeavesCorrectAlone
  OBVIOUS
<1>1. IInv /\ Sync /\ AllHosts /\ [Next]_vars
        => [clean /\ (RepairDelete \/ SweepDelete) => Due(call'[Rec].name)]_vars
  BY RewriteDue DEF AllHosts
<1>2. Init => AllHosts
  BY InitAllHosts
<1>3. IInv /\ AllHosts /\ [Next]_vars => AllHosts'
  BY AllHostsStep
<1> QED
  BY <1>1, <1>2, <1>3, InitSync, SyncStep, Invariance, PTL DEF Spec, LeavesCorrectAlone

=============================================================================
