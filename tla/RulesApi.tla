------------------------------ MODULE RulesApi ------------------------------
(***************************************************************************)
(* The dashboard's routes that change the allowlist.  All of them are      *)
(* behind authRequired: a session exists only after a login, and a login   *)
(* needs a password.  A handler of h holds its thread until its            *)
(* ResolveAndApply has ended; the reads after it only shape the response.  *)
(***************************************************************************)
EXTENDS Resolver

\* handleAddRule: Rules.Add (409 when the domain is there already), then
\* ResolveAndApply of the new id.  A fresh row has had no answers yet.
HandleAddRule(h, d) ==
  /\ passwordSet
  /\ wk[h].pc = "idle"
  /\ InsertRow(d)
  /\ Begin(h, lastId')
  /\ answered' = [answered EXCEPT ![lastId'] = {}]
  /\ UNCHANGED <<passwordSet, fwVars, queue, dns>>

\* handleDeleteRule: the row goes, the firewall is left to the reconciler.
HandleDeleteRule(i) ==
  /\ passwordSet
  /\ DeleteRow(i)
  /\ UNCHANGED <<lastId, passwordSet, fwVars, resolverVars>>

\* handleRefreshRule
HandleRefreshRule(h, i) ==
  /\ passwordSet
  /\ wk[h].pc = "idle"
  /\ Begin(h, i)
  /\ UNCHANGED <<storeVars, fwVars, queue, dns, answered>>

=============================================================================
