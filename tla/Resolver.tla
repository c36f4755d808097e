------------------------------ MODULE Resolver ------------------------------
(***************************************************************************)
(* ResolveAndApply and the threads that run it: the refresh goroutine,     *)
(* which walks over a snapshot of the rules every minute, and the HTTP     *)
(* handlers of POST /api/rules and POST /api/rules/{id}/refresh, which     *)
(* call it synchronously.  Nothing serialises these threads, neither with  *)
(* one another nor with the reconciler.                                    *)
(***************************************************************************)
EXTENDS Firewall

CONSTANTS Http,      \* the HTTP handlers that can be in ResolveAndApply
          Answers    \* Answers[d]: what a lookup of d can return; {} in it
                     \* means that the lookup can fail.  An address or a
                     \* network has the one answer {itself}.

Refresher == "refresher"
Worker == Http \cup {Refresher}

ASSUME AnswersAssumption == Answers \in [Domain -> SUBSET SUBSET Entry]
ASSUME WorkerAssumption == Worker \subseteq Thread /\ Refresher \notin Http

VARIABLES wk,         \* wk[w]: w's progress through ResolveAndApply
          queue,      \* ids refreshAll has still to visit
          dns,        \* dns[d]: what a lookup of d returns now
          answered    \* auxiliary: answered[i] is every address a lookup
                      \* has returned for the domain of row i

resolverVars == <<wk, queue, dns, answered>>

\* row is the copy that Rules.Get returned, new the answer of lookupBoth.
Progress == [pc  : {"idle", "get", "lookup", "deleted", "added"},
             id  : 0 .. MaxId,
             row : Row \cup {NoRow},
             new : SUBSET Entry]

Idle == [pc |-> "idle", id |-> 0, row |-> NoRow, new |-> {}]

ResolverTypeOK == /\ wk \in [Worker -> Progress]
                  /\ queue \subseteq Id
                  /\ dns \in [Domain -> SUBSET Entry]
                  /\ answered \in [Id -> SUBSET Entry]

ResolverInit == /\ wk = [w \in Worker |-> Idle]
                /\ queue = {}
                /\ dns \in [Domain -> SUBSET Entry]
                /\ \A d \in Domain : dns[d] \in Answers[d]
                /\ answered = [i \in Id |-> {}]

-----------------------------------------------------------------------------
(* ResolveAndApply, from its first database read to its last write         *)

Begin(w, i) ==
  wk' = [wk EXCEPT ![w] = [pc |-> "get", id |-> i, row |-> NoRow, new |-> {}]]

Finish(w) == wk' = [wk EXCEPT ![w] = Idle]

\* rules.Get; ErrNotFound ends the call.
GetRow(w) ==
  LET i == wk[w].id
  IN  /\ wk[w].pc = "get"
      /\ IF i \in RowIds
         THEN wk' = [wk EXCEPT ![w].pc = "lookup", ![w].row = rules[i]]
         ELSE Finish(w)
      /\ UNCHANGED <<storeVars, fwVars, queue, dns, answered>>

LookupFails(w) ==
  /\ wk[w].pc = "lookup"
  /\ dns[wk[w].row.domain] = {}
  /\ Finish(w)
  /\ UNCHANGED <<storeVars, fwVars, queue, dns, answered>>

\* Mutant: a row that has been resolved once is never looked at again.
Lookup_OnceIsEnough(w) ==
  LET i   == wk[w].id
      new == dns[wk[w].row.domain]
  IN  /\ wk[w].pc = "lookup"
      /\ new # {}
      /\ answered' = [answered EXCEPT ![i] = @ \cup new]
      /\ IF wk[w].row.resolved
         THEN Finish(w) /\ UNCHANGED call
         ELSE /\ wk' = [wk EXCEPT ![w].pc = "deleted", ![w].new = new]
              /\ DeleteRule(w, i)
      /\ UNCHANGED <<storeVars, fw, policy, faults, queue, dns>>

\* lookupBoth, then the comparison with the row as it was when it was read:
\* an unchanged answer ends the call, any other starts with DeleteRule.
Lookup(w) ==
  LET i   == wk[w].id
      new == dns[wk[w].row.domain]
  IN  /\ wk[w].pc = "lookup"
      /\ new # {}
      /\ answered' = [answered EXCEPT ![i] = @ \cup new]
      /\ IF new = wk[w].row.ips /\ wk[w].row.resolved
         THEN Finish(w) /\ UNCHANGED call
         ELSE /\ wk' = [wk EXCEPT ![w].pc = "deleted", ![w].new = new]
              /\ DeleteRule(w, i)
      /\ UNCHANGED <<storeVars, fw, policy, faults, queue, dns>>

\* The result of DeleteRule is only logged.  (LookupIP reports an empty
\* answer as an error, so there is always something to add.)
AddAnswer(w) ==
  /\ wk[w].pc = "deleted" /\ Returned(w)
  /\ wk' = [wk EXCEPT ![w].pc = "added"]
  /\ AddAllowRule(w, wk[w].id, wk[w].new)
  /\ UNCHANGED <<storeVars, fw, policy, faults, queue, dns, answered>>

\* After a failed AddAllowRule the row keeps its old addresses.
Persist(w) ==
  /\ wk[w].pc = "added" /\ Returned(w)
  /\ IF call[w].op = "ok" THEN UpdateIPs(wk[w].id, wk[w].new) ELSE UNCHANGED rules
  /\ Return(w)
  /\ Finish(w)
  /\ UNCHANGED <<lastId, passwordSet, fw, policy, faults, queue, dns, answered>>

ResolveAndApply(w) ==
  GetRow(w) \/ LookupFails(w) \/ Lookup(w) \/ AddAnswer(w) \/ Persist(w)

-----------------------------------------------------------------------------
(* The refresh goroutine                                                   *)

\* Resolver.Run's ticker and the AllEnabled of refreshAll.
RefreshAll ==
  /\ wk[Refresher].pc = "idle" /\ queue = {}
  /\ queue' = RowIds
  /\ UNCHANGED <<storeVars, fwVars, wk, dns, answered>>

\* The loop of refreshAll, in id order, whatever became of the rows since.
RefreshNext ==
  /\ wk[Refresher].pc = "idle"
  /\ \E i \in queue : /\ \A j \in queue : i <= j
                      /\ Begin(Refresher, i)
                      /\ queue' = queue \ {i}
  /\ UNCHANGED <<storeVars, fwVars, dns, answered>>

=============================================================================
