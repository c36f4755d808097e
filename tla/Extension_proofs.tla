-------------------------- MODULE Extension_proofs --------------------------
(***************************************************************************)
(* Proofs about Extension, for every set of tabs and hosts, every time to  *)
(* live and every latency up to it.                                        *)
(***************************************************************************)
EXTENDS Extension, TLAPS

-----------------------------------------------------------------------------
(* Time                                                                    *)

LEMMA LaterType ==
  ASSUME NEW n \in 0 .. Long
  PROVE  Later(n) \in 0 .. Long /\ Later(n) <= n + 1
BY TTLAssumption DEF Later, Long

\* The truth of one verdict.
LEMMA VerdictIsTrue ==
  ASSUME AnswersAreTrue, NEW c \in checks
  PROVE  /\ c.verdict = "allowed" => lastOn[c.host] <= c.age
         /\ c.verdict = "denied" => lastOff[c.host] <= c.age
BY DEF AnswersAreTrue

LEMMA InitInv == Init => IInv
<1> SUFFICES ASSUME Init PROVE IInv
  OBVIOUS
<1>1. Other \in Page
  BY DEF Page
<1>2. Nothing \in Memory
  BY TTLAssumption DEF Nothing, Memory
<1>3. 0 \in 0 .. Long /\ Long \in 0 .. Long
  BY TTLAssumption DEF Long
<1>4. TypeOK
  BY <1>1, <1>2, <1>3 DEF Init, TypeOK
<1>5. MemoryIsTrue /\ AnswersAreTrue /\ ClocksAreTrue
  BY DEF Init, MemoryIsTrue, AnswersAreTrue, ClocksAreTrue, Nothing
<1>6. QED BY <1>4, <1>5 DEF IInv

LEMMA TickInv ==
  ASSUME IInv, Tick
  PROVE  IInv'
<1> USE TTLAssumption, LatencyAssumption DEF IInv, TypeOK
<1>1. lastOn' \in [Host -> 0 .. Long] /\ lastOff' \in [Host -> 0 .. Long]
  <2>1. 0 \in 0 .. Long
    BY DEF Long
  <2>2. QED BY <2>1, LaterType DEF Tick
<1>2. \A h \in Host : lastOn'[h] <= lastOn[h] + 1 /\ lastOff'[h] <= lastOff[h] + 1
  <2> SUFFICES ASSUME NEW h \in Host
               PROVE  lastOn'[h] <= lastOn[h] + 1 /\ lastOff'[h] <= lastOff[h] + 1
    OBVIOUS
  <2>1. lastOn[h] \in 0 .. Long /\ lastOff[h] \in 0 .. Long
    OBVIOUS
  <2>2. Later(lastOn[h]) <= lastOn[h] + 1 /\ Later(lastOff[h]) <= lastOff[h] + 1
    BY <2>1, LaterType
  <2>3. lastOn'[h] \in {0, Later(lastOn[h])} /\ lastOff'[h] \in {0, Later(lastOff[h])}
    BY DEF Tick
  <2>4. QED BY <2>1, <2>2, <2>3 DEF Long
<1>3. \A h \in Host : /\ cache'[h] \in Memory
                      /\ cache'[h].allowed = cache[h].allowed
                      /\ cache'[h].left > 0 => cache[h].left = cache'[h].left + 1
  <2> SUFFICES ASSUME NEW h \in Host
               PROVE  /\ cache'[h] \in Memory
                      /\ cache'[h].allowed = cache[h].allowed
                      /\ cache'[h].left > 0 => cache[h].left = cache'[h].left + 1
    OBVIOUS
  <2>1. cache[h] \in Memory
    OBVIOUS
  <2>2. cache'[h] = [cache[h] EXCEPT !.left = IF @ > 0 THEN @ - 1 ELSE 0]
    BY DEF Tick
  <2>3. QED BY <2>1, <2>2 DEF Memory
<1>4. cache' \in [Host -> Memory]
  BY <1>3 DEF Tick
<1>5. \A d \in checks' : \E c \in checks :
        /\ d \in Check
        /\ d.age = c.age + 1 /\ d.host = c.host /\ d.verdict = c.verdict
  <2>1. ASSUME NEW c \in checks, NEW d, d = [c EXCEPT !.age = c.age + 1]
        PROVE  /\ d \in Check
               /\ d.age = c.age + 1 /\ d.host = c.host /\ d.verdict = c.verdict
    <3>1. c \in Check /\ c.age < MaxLatency
      BY DEF Tick
    <3>2. QED BY <2>1, <3>1 DEF Check
  <2>2. \A d \in checks' : \E c \in checks : d = [c EXCEPT !.age = c.age + 1]
    BY DEF Tick
  <2>3. QED BY <2>1, <2>2
<1>6. TypeOK'
  BY <1>1, <1>4, <1>5 DEF Tick
<1>7. MemoryIsTrue'
  <2> SUFFICES ASSUME NEW h \in Host, cache'[h].left > 0
               PROVE  (IF cache'[h].allowed THEN lastOn'[h] ELSE lastOff'[h])
                        <= TTL - cache'[h].left
    BY DEF MemoryIsTrue
  <2>1. cache[h].left \in Nat /\ cache'[h].left \in Nat
    BY <1>3 DEF Memory
  <2>2. (IF cache[h].allowed THEN lastOn[h] ELSE lastOff[h]) <= TTL - cache[h].left
    BY <1>3, <2>1 DEF MemoryIsTrue
  <2>3. /\ lastOn[h] \in Nat /\ lastOff[h] \in Nat
        /\ lastOn'[h] \in Nat /\ lastOff'[h] \in Nat
    BY <1>1 DEF Long
  <2>4. QED BY <1>2, <1>3, <2>1, <2>2, <2>3
<1>8. AnswersAreTrue'
  <2> SUFFICES ASSUME NEW d \in checks'
               PROVE  /\ d.verdict = "allowed" => lastOn'[d.host] <= d.age
                      /\ d.verdict = "denied" => lastOff'[d.host] <= d.age
    BY DEF AnswersAreTrue
  <2>1. PICK c \in checks : d.age = c.age + 1 /\ d.host = c.host /\ d.verdict = c.verdict
    BY <1>5
  <2>2. c.host \in Host /\ c.age \in Nat
    BY DEF Check
  <2>3. /\ lastOn[c.host] \in Nat /\ lastOff[c.host] \in Nat
        /\ lastOn'[c.host] \in Nat /\ lastOff'[c.host] \in Nat
    BY <1>1, <2>2 DEF Long
  <2>4. /\ c.verdict = "allowed" => lastOn[c.host] <= c.age
        /\ c.verdict = "denied" => lastOff[c.host] <= c.age
    BY VerdictIsTrue
  <2>5. QED BY <1>2, <2>1, <2>2, <2>3, <2>4
<1>9. ClocksAreTrue'
  BY DEF Tick, ClocksAreTrue
<1>10. QED BY <1>6, <1>7, <1>8, <1>9

-----------------------------------------------------------------------------
(* The tabs                                                                *)

LEMMA ShowType ==
  ASSUME TypeOK, NEW t \in Tab, NEW h \in Host, NEW at \in {"site", "blocked", "added"},
         Show(t, at, h)
  PROVE  tab' \in [Tab -> Page]
<1>1. [at |-> at, host |-> h] \in Page
  BY DEF Page
<1>2. QED BY <1>1 DEF Show, TypeOK

LEMMA BeforeNavigateInv ==
  ASSUME IInv, NEW t \in Tab, NEW h \in Host, BeforeNavigate(t, h),
         UNCHANGED <<listed, cache, lastOn, lastOff>>
  PROVE  IInv'
<1> USE DEF IInv, TypeOK
<1> DEFINE new == [tab |-> t, host |-> h, age |-> 0, verdict |-> "none"]
<1>1. tab' \in [Tab -> Page]
  BY ShowType DEF BeforeNavigate
<1>2. new \in Check
  BY LatencyAssumption, TTLAssumption DEF Check
<1>3. checks' = checks \/ checks' = checks \cup {new}
  BY DEF BeforeNavigate
<1>4. TypeOK'
  BY <1>1, <1>2, <1>3
<1>5. MemoryIsTrue'
  BY DEF MemoryIsTrue
<1>6. AnswersAreTrue'
  BY <1>3 DEF AnswersAreTrue
<1>7. ClocksAreTrue'
  BY DEF ClocksAreTrue
<1>8. QED BY <1>4, <1>5, <1>6, <1>7

LEMMA ReceiveInv ==
  ASSUME IInv, NEW c \in checks, Receive(c)
  PROVE  IInv'
<1> USE TTLAssumption, LatencyAssumption DEF IInv, TypeOK
<1> DEFINE new == [allowed |-> c.verdict = "allowed", left |-> TTL - c.age]
<1>1. c \in Check /\ c.host \in Host /\ c.tab \in Tab /\ c.age \in Nat /\ c.age <= TTL
  BY DEF Check
<1>2. new \in Memory
  BY <1>1 DEF Memory
<1>3. cache' = cache \/ (c.verdict \in {"allowed", "denied"}
                         /\ cache' = [cache EXCEPT ![c.host] = new])
  BY <1>1 DEF Receive, Check
<1>4. tab' \in [Tab -> Page]
  BY <1>1, ShowType DEF Receive
<1>5. TypeOK'
  BY <1>2, <1>3, <1>4 DEF Receive
<1>6. MemoryIsTrue'
  <2>1. CASE cache' = cache
    BY <2>1 DEF MemoryIsTrue, Receive
  <2>2. CASE c.verdict \in {"allowed", "denied"} /\ cache' = [cache EXCEPT ![c.host] = new]
    <3>1. (IF new.allowed THEN lastOn[c.host] ELSE lastOff[c.host]) <= TTL - new.left
      <4>1. new.left = TTL - c.age /\ TTL - new.left = c.age
        BY <1>1
      <4>2. CASE c.verdict = "allowed"
        BY <4>1, <4>2, VerdictIsTrue
      <4>3. CASE c.verdict = "denied"
        BY <4>1, <4>3, VerdictIsTrue
      <4>4. QED BY <2>2, <4>2, <4>3
    <3>2. \A h \in Host : cache'[h] = IF h = c.host THEN new ELSE cache[h]
      BY <2>2
    <3>3. UNCHANGED <<lastOn, lastOff>>
      BY DEF Receive
    <3> HIDE DEF new
    <3>4. QED BY <3>1, <3>2, <3>3 DEF MemoryIsTrue
  <2>3. QED BY <1>3, <2>1, <2>2
<1>7. AnswersAreTrue'
  BY DEF AnswersAreTrue, Receive
<1>8. ClocksAreTrue'
  BY DEF ClocksAreTrue, Receive
<1>9. QED BY <1>5, <1>6, <1>7, <1>8

LEMMA AnswerInv ==
  ASSUME IInv, NEW c \in checks, Answer(c)
  PROVE  IInv'
<1> USE DEF IInv, TypeOK
<1>1. PICK v \in {IF c.host \in listed THEN "allowed" ELSE "denied", "error"} :
        checks' = (checks \ {c}) \cup {[c EXCEPT !.verdict = v]}
  BY DEF Answer
<1> DEFINE d == [c EXCEPT !.verdict = v]
<1>2. d \in Check /\ d.verdict = v /\ d.host = c.host /\ d.age = c.age
      /\ c.host \in Host /\ c.age \in Nat
  BY LatencyAssumption DEF Check
<1>3. UNCHANGED <<listed, tab, cache, lastOn, lastOff>>
  BY DEF Answer
<1>4. /\ v = "allowed" => lastOn[c.host] <= c.age
      /\ v = "denied" => lastOff[c.host] <= c.age
  BY <1>2 DEF ClocksAreTrue
<1>4a. checks' = (checks \ {c}) \cup {d}
  BY <1>1
<1> HIDE DEF d
<1>5. TypeOK'
  BY <1>2, <1>3, <1>4a
<1>6. AnswersAreTrue'
  BY <1>2, <1>3, <1>4, <1>4a DEF AnswersAreTrue
<1>7. MemoryIsTrue' /\ ClocksAreTrue'
  BY <1>3 DEF MemoryIsTrue, ClocksAreTrue
<1>8. QED BY <1>5, <1>6, <1>7

-----------------------------------------------------------------------------
(* The table                                                               *)

LEMMA ListInv ==
  ASSUME IInv, NEW h \in Host, List(h), UNCHANGED <<cache, checks, lastOff>>,
         tab' \in [Tab -> Page]
  PROVE  IInv'
<1> USE DEF IInv, TypeOK, List
<1>1. 0 \in 0 .. Long
  BY TTLAssumption DEF Long
<1>2. \A g \in Host : lastOn'[g] = (IF g = h THEN 0 ELSE lastOn[g]) /\ 0 <= lastOn[g]
  BY DEF Long
<1>3. \A c \in checks : c.host \in Host /\ 0 <= c.age
  BY DEF Check
<1>4. \A g \in Host : 0 <= TTL - cache[g].left
  BY TTLAssumption DEF Memory
<1>5. TypeOK'
  BY <1>1
<1>6. MemoryIsTrue'
  BY <1>2, <1>4 DEF MemoryIsTrue
<1>7. AnswersAreTrue'
  BY <1>2, <1>3 DEF AnswersAreTrue
<1>8. ClocksAreTrue'
  BY <1>2 DEF ClocksAreTrue
<1>9. QED BY <1>5, <1>6, <1>7, <1>8

LEMMA DeleteInv ==
  ASSUME IInv, NEW h \in Host, DeleteRule(h)
  PROVE  IInv'
<1> USE DEF IInv, TypeOK, DeleteRule
<1>1. 0 \in 0 .. Long
  BY TTLAssumption DEF Long
<1>2. \A g \in Host : lastOff'[g] = (IF g = h THEN 0 ELSE lastOff[g]) /\ 0 <= lastOff[g]
  BY DEF Long
<1>3. \A c \in checks : c.host \in Host /\ 0 <= c.age
  BY DEF Check
<1>4. \A g \in Host : 0 <= TTL - cache[g].left
  BY TTLAssumption DEF Memory
<1>5. TypeOK'
  BY <1>1
<1>6. MemoryIsTrue'
  BY <1>2, <1>4 DEF MemoryIsTrue
<1>7. AnswersAreTrue'
  BY <1>2, <1>3 DEF AnswersAreTrue
<1>8. ClocksAreTrue'
  BY <1>2 DEF ClocksAreTrue
<1>9. QED BY <1>5, <1>6, <1>7, <1>8

\* Steps that only move a tab or forget.
LEMMA OtherInv ==
  ASSUME IInv,
         (\E t \in Tab : NavigateElsewhere(t)) \/ WorkerEnds \/ UNCHANGED vars
  PROVE  IInv'
<1> USE DEF IInv, TypeOK
<1>1. UNCHANGED <<listed, checks, lastOn, lastOff>>
  BY DEF NavigateElsewhere, WorkerEnds, vars
<1>2. tab' \in [Tab -> Page]
  <2>1. Other \in Page
    BY DEF Page
  <2>2. QED BY <2>1 DEF NavigateElsewhere, WorkerEnds, vars
<1>3. cache' = cache \/ cache' = [h \in Host |-> Nothing]
  BY DEF NavigateElsewhere, WorkerEnds, vars
<1>4. Nothing \in Memory /\ ~(Nothing.left > 0)
  BY TTLAssumption DEF Nothing, Memory
<1>5. TypeOK'
  BY <1>1, <1>2, <1>3, <1>4
<1>6. MemoryIsTrue'
  BY <1>1, <1>3, <1>4 DEF MemoryIsTrue
<1>7. AnswersAreTrue' /\ ClocksAreTrue'
  BY <1>1 DEF AnswersAreTrue, ClocksAreTrue
<1>8. QED BY <1>5, <1>6, <1>7

-----------------------------------------------------------------------------
(* The theorems                                                            *)

LEMMA NextInv == IInv /\ [Next]_vars => IInv'
<1> SUFFICES ASSUME IInv, [Next]_vars PROVE IInv'
  OBVIOUS
<1>1. ASSUME NEW t \in Tab, NEW h \in Host, Navigate(t, h) PROVE IInv'
  BY <1>1, BeforeNavigateInv DEF Navigate
<1>2. ASSUME NEW t \in Tab, AddDomain(t) PROVE IInv'
  <2>1. tab[t].host \in Host
    BY <1>2 DEF AddDomain, IInv, TypeOK, Page, Other
  <2>2. tab' \in [Tab -> Page]
    BY <1>2, <2>1, ShowType DEF AddDomain, IInv
  <2>3. QED BY <1>2, <2>1, <2>2, ListInv DEF AddDomain
<1>3. ASSUME NEW t \in Tab, Retry(t) PROVE IInv'
  <2>1. tab[t].host \in Host
    BY <1>3 DEF Retry, IInv, TypeOK, Page, Other
  <2>2. QED BY <1>3, <2>1, BeforeNavigateInv DEF Retry
<1>4. ASSUME NEW h \in Host, AddRule(h) PROVE IInv'
  BY <1>4, ListInv DEF AddRule, IInv, TypeOK
<1>5. ASSUME NEW t \in Tab, NavigateElsewhere(t) PROVE IInv'
  BY <1>5, OtherInv
<1>6. QED BY <1>1, <1>2, <1>3, <1>4, <1>5, AnswerInv, ReceiveInv, DeleteInv, OtherInv, TickInv
          DEF Next

\* What the extension remembers was true when it learned it, and it forgets
\* in time.
THEOREM Invariance == Spec => []IInv
BY InitInv, NextInv, PTL DEF Spec

\* A step that sends a tab to the blocked page, and one that lets it through.
LEMMA CauseStep ==
  ASSUME IInv, Next, NEW t \in Tab, tab'[t] # tab[t]
  PROVE  /\ tab'[t].at = "blocked" => lastOff[tab'[t].host] <= TTL
         /\ tab'[t].at = "site" =>
              \/ lastOn[tab'[t].host] <= TTL
              \/ \E c \in checks' : c.tab = t /\ c.host = tab'[t].host
<1> USE TTLAssumption, LatencyAssumption DEF IInv, TypeOK
<1> DEFINE Goal == /\ tab'[t].at = "blocked" => lastOff[tab'[t].host] <= TTL
                   /\ tab'[t].at = "site" =>
                        \/ lastOn[tab'[t].host] <= TTL
                        \/ \E c \in checks' : c.tab = t /\ c.host = tab'[t].host
<1>1. ASSUME NEW u \in Tab, NEW h \in Host, BeforeNavigate(u, h) PROVE Goal
  <2>1. t = u
    BY <1>1 DEF BeforeNavigate, Show
  <2>2. CASE cache[h].left > 0
    <3>1. tab'[t] = [at |-> IF cache[h].allowed THEN "site" ELSE "blocked", host |-> h]
      BY <1>1, <2>1, <2>2 DEF BeforeNavigate, Show
    <3>2. cache[h].left \in Nat /\ lastOn[h] \in Nat /\ lastOff[h] \in Nat
      BY DEF Memory, Long
    <3>3. (IF cache[h].allowed THEN lastOn[h] ELSE lastOff[h]) <= TTL
      BY <2>2, <3>2 DEF MemoryIsTrue
    <3>4. QED BY <3>1, <3>3
  <2>3. CASE ~(cache[h].left > 0)
    <3> DEFINE new == [tab |-> t, host |-> h, age |-> 0, verdict |-> "none"]
    <3>1. checks' = checks \cup {new}
      BY <1>1, <2>1, <2>3 DEF BeforeNavigate
    <3>2. tab'[t] = [at |-> "site", host |-> h]
      BY <1>1, <2>1, <2>3 DEF BeforeNavigate, Show
    <3>3. new \in checks' /\ new.tab = t /\ new.host = tab'[t].host
      BY <3>1, <3>2
    <3> HIDE DEF new
    <3>4. QED BY <3>2, <3>3
  <2>4. QED BY <2>2, <2>3
<1>2. ASSUME NEW c \in checks, Receive(c) PROVE Goal
  <2>1. /\ c \in Check /\ c.host \in Host /\ c.age \in Nat /\ c.age <= TTL
        /\ lastOff[c.host] \in Nat
    BY DEF Check, Long
  <2>2. c.verdict = "denied" /\ tab'[t] = [at |-> "blocked", host |-> c.host]
    BY <1>2 DEF Receive, Show
  <2>3. lastOff[c.host] <= c.age
    BY <2>2, VerdictIsTrue
  <2>4. QED BY <2>1, <2>2, <2>3
<1>3. ASSUME NEW u \in Tab, NavigateElsewhere(u) \/ AddDomain(u) PROVE Goal
  BY <1>3 DEF NavigateElsewhere, AddDomain, Show, Other
<1>4. ASSUME NEW u \in Tab, Retry(u) PROVE Goal
  <2>1. tab[u].host \in Host
    BY <1>4 DEF Retry, Page, Other
  <2>2. QED BY <1>1, <1>4, <2>1 DEF Retry
<1>5. ASSUME tab' = tab PROVE FALSE
  BY <1>5
<1>6. Goal
  <2>1. ASSUME NEW c \in checks, Answer(c) PROVE tab' = tab
    BY <2>1 DEF Answer
  <2>2. ASSUME NEW h \in Host, AddRule(h) \/ DeleteRule(h) PROVE tab' = tab
    BY <2>2 DEF AddRule, DeleteRule
  <2>3. WorkerEnds \/ Tick => tab' = tab
    BY DEF WorkerEnds, Tick
  <2>4. ASSUME NEW u \in Tab, NEW h \in Host, Navigate(u, h) PROVE Goal
    BY <1>1, <2>4 DEF Navigate
  <2>5. ASSUME NEW u \in Tab, NavigateElsewhere(u) \/ AddDomain(u) \/ Retry(u) PROVE Goal
    BY <1>3, <1>4, <2>5
  <2>6. ASSUME NEW c \in checks, Answer(c) \/ Receive(c) PROVE Goal
    BY <1>2, <1>5, <2>1, <2>6
  <2>7. ASSUME NEW h \in Host, AddRule(h) \/ DeleteRule(h) PROVE Goal
    BY <1>5, <2>2, <2>7
  <2>8. ASSUME WorkerEnds \/ Tick PROVE Goal
    BY <1>5, <2>3, <2>8
  <2> HIDE DEF Goal
  <2>9. QED BY <2>4, <2>5, <2>6, <2>7, <2>8 DEF Next
<1>7. QED BY <1>6

\* Only what was off the list within the time to live is shown as blocked.
THEOREM BlockedForCauseHolds == Spec => BlockedForCause
<1>1. IInv /\ [Next]_vars
        => [\A t \in Tab : tab'[t].at = "blocked" /\ tab'[t] # tab[t]
              => lastOff[tab'[t].host] <= TTL]_vars
  BY CauseStep
<1>2. QED BY <1>1, Invariance, PTL DEF Spec, BlockedForCause

\* Only what was on the list within the time to live, or is being asked about,
\* is let through.
THEOREM PassedForCauseHolds == Spec => PassedForCause
<1>1. IInv /\ [Next]_vars
        => [\A t \in Tab : tab'[t].at = "site" /\ tab'[t] # tab[t]
              => \/ lastOn[tab'[t].host] <= TTL
                 \/ \E c \in checks' : c.tab = t /\ c.host = tab'[t].host]_vars
  BY CauseStep
<1>2. QED BY <1>1, Invariance, PTL DEF Spec, PassedForCause

=============================================================================
