------------------------------- MODULE Store -------------------------------
(***************************************************************************)
(* The SQLite store: the rules table, its AUTOINCREMENT sequence and the   *)
(* password of the settings row.  Every operation is one statement on the  *)
(* only connection of the pool, hence one atomic step; its writes survive  *)
(* a crash of the process.                                                 *)
(*                                                                         *)
(* No code path writes rules.enabled, so every row is an enabled row.      *)
(***************************************************************************)
EXTENDS NetshText, Naturals

CONSTANTS Domain,   \* what a user can allow: hostnames, addresses, networks
          MaxId,    \* bound: rows ever inserted
          NoRow     \* the absence of a row

Id == 1 .. MaxId

Row == [domain : Domain, ips : SUBSET Entry, resolved : BOOLEAN]

ASSUME MaxIdAssumption == MaxId \in Nat
ASSUME NoRowAssumption == /\ NoRow \notin Row
                          /\ \A S \in SUBSET Entry : S # NoRow

VARIABLES rules,        \* rules[i]: row i of table rules, or NoRow
          lastId,       \* the AUTOINCREMENT sequence
          passwordSet   \* settings.password_hash is not NULL

storeVars == <<rules, lastId, passwordSet>>

StoreTypeOK == /\ rules \in [Id -> Row \cup {NoRow}]
               /\ lastId \in 0 .. MaxId
               /\ passwordSet \in BOOLEAN

StoreInit == /\ rules = [i \in Id |-> NoRow]
             /\ lastId = 0
             /\ passwordSet = FALSE

RowIds == {i \in Id : rules[i] # NoRow}

\* Mutant: ids without AUTOINCREMENT; the lowest free id is used again.
InsertRow_ReusesId(d) ==
  \E i \in Id \ RowIds :
    /\ \A j \in Id \ RowIds : i <= j
    /\ \A j \in RowIds : rules[j].domain # d
    /\ lastId' = i
    /\ rules' = [rules EXCEPT ![i] = [domain |-> d, ips |-> {}, resolved |-> FALSE]]

\* RulesRepo.Add: domain is UNIQUE, ids are never used twice.
InsertRow(d) ==
  /\ lastId < MaxId
  /\ \A i \in RowIds : rules[i].domain # d
  /\ lastId' = lastId + 1
  /\ rules' = [rules EXCEPT ![lastId + 1] =
                 [domain |-> d, ips |-> {}, resolved |-> FALSE]]

\* RulesRepo.Delete
DeleteRow(i) ==
  /\ i \in RowIds
  /\ rules' = [rules EXCEPT ![i] = NoRow]

\* Mutant: an INSERT OR REPLACE, which brings a deleted row back.
UpdateIPs_Upsert(i, ips) ==
  rules' = [rules EXCEPT ![i] =
              [domain   |-> IF i \in RowIds THEN rules[i].domain ELSE CHOOSE d \in Domain : TRUE,
               ips      |-> ips,
               resolved |-> TRUE]]

\* Mutant: the same, and the domain is lost.
UpdateIPs_UpsertNoDomain(i, ips) ==
  rules' = [rules EXCEPT ![i] =
              [domain   |-> IF i \in RowIds THEN rules[i].domain ELSE NoRow,
               ips      |-> ips,
               resolved |-> TRUE]]

\* RulesRepo.UpdateIPs: an UPDATE that matches no row changes nothing (the
\* caller gets ErrNotFound).
UpdateIPs(i, ips) ==
  rules' = IF i \in RowIds
           THEN [rules EXCEPT ![i].ips = ips, ![i].resolved = TRUE]
           ELSE rules

\* RulesRepo.AllEnabled, reduced to what the reconciler keeps of each row.
AllEnabled == [i \in Id |-> IF rules[i] = NoRow THEN NoRow ELSE rules[i].ips]

\* handleSetup on a store without a password; nothing ever clears it.
SetPassword ==
  /\ ~passwordSet
  /\ passwordSet' = TRUE
  /\ UNCHANGED <<rules, lastId>>

=============================================================================
