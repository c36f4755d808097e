----------------------------- MODULE Extension -----------------------------
(***************************************************************************)
(* The browser extension: background.js, the dashboard's /api/check that   *)
(* it asks and the /blocked page that it sends a tab to.                   *)
(*                                                                         *)
(* The extension remembers a verdict for 30 seconds from the moment it     *)
(* asked.  A check is asynchronous: while it is under way the table of     *)
(* rules changes, the tab moves on, other tabs ask the same.  Time passes  *)
(* in ticks; what matters of a moment is how long ago it was.              *)
(***************************************************************************)
EXTENDS Integers, FiniteSets

CONSTANTS Tab,         \* the browser's tabs
          Host,        \* the hostnames they are sent to
          TTL,         \* CACHE_TTL_MS, in ticks
          MaxLatency,  \* bound: how long an answer of the dashboard takes
          MaxChecks    \* bound: checks under way

ASSUME TTLAssumption == TTL \in Nat \ {0}
ASSUME LatencyAssumption == MaxLatency \in 1 .. TTL
ASSUME MaxChecksAssumption == MaxChecks \in Nat

VARIABLES listed,   \* hosts with a row in table rules
          tab,      \* tab[t]: what t shows or loads
          cache,    \* cache[h]: the extension's memory of h
          checks,   \* fetches of /api/check under way
          lastOn,   \* auxiliary: ticks since h was last listed, and
          lastOff   \* not listed (more than TTL is all the same)

vars == <<listed, tab, cache, checks, lastOn, lastOff>>

Long == TTL + 1
Later(n) == IF n < Long THEN n + 1 ELSE Long

\* "added" is the blocked page between "Added." and its jump back to the
\* original URL; Other is any page that the extension does not look at.
Other == [at |-> "other"]
Page == [at : {"site", "blocked", "added"}, host : Host] \cup {Other}

\* verdict "none" until the dashboard has answered, "error" for an answer
\* that is not ok: rate limit, restart, a host that is no hostname.
Check == [tab : Tab, host : Host, age : 0 .. MaxLatency,
          verdict : {"none", "allowed", "denied", "error"}]

\* An entry that has expired (left = 0) stays where it is.
Memory == [allowed : BOOLEAN, left : 0 .. TTL]

TypeOK == /\ listed \subseteq Host
          /\ tab \in [Tab -> Page]
          /\ cache \in [Host -> Memory]
          /\ checks \subseteq Check
          /\ lastOn \in [Host -> 0 .. Long]
          /\ lastOff \in [Host -> 0 .. Long]

Nothing == [allowed |-> TRUE, left |-> 0]

Init == /\ listed \in SUBSET Host
        /\ tab = [t \in Tab |-> Other]
        /\ cache = [h \in Host |-> Nothing]
        /\ checks = {}
        /\ lastOn = [h \in Host |-> IF h \in listed THEN 0 ELSE Long]
        /\ lastOff = [h \in Host |-> IF h \in listed THEN Long ELSE 0]

Show(t, at, h) == tab' = [tab EXCEPT ![t] = [at |-> at, host |-> h]]

-----------------------------------------------------------------------------
(* background.js                                                           *)

\* Mutant: an entry is used whatever its age.
BeforeNavigate_NoExpiry(t, h) ==
  IF cache[h] # Nothing
  THEN /\ Show(t, IF cache[h].allowed THEN "site" ELSE "blocked", h)
       /\ UNCHANGED checks
  ELSE /\ Cardinality(checks) < MaxChecks
       /\ Show(t, "site", h)
       /\ checks' = checks \cup {[tab |-> t, host |-> h, age |-> 0, verdict |-> "none"]}

\* onBeforeNavigate of a tab on its way to h: a remembered verdict applies at
\* once, otherwise the dashboard is asked.
BeforeNavigate(t, h) ==
  IF cache[h].left > 0
  THEN /\ Show(t, IF cache[h].allowed THEN "site" ELSE "blocked", h)
       /\ UNCHANGED checks
  ELSE /\ Cardinality(checks) < MaxChecks
       /\ Show(t, "site", h)
       /\ checks' = checks \cup {[tab |-> t, host |-> h, age |-> 0, verdict |-> "none"]}

\* The user, or a link, sends the tab to h.
Navigate(t, h) ==
  /\ BeforeNavigate(t, h)
  /\ UNCHANGED <<listed, cache, lastOn, lastOff>>

\* ... or to the dashboard, or to a page that is not http.
NavigateElsewhere(t) ==
  /\ tab[t] # Other
  /\ tab' = [tab EXCEPT ![t] = Other]
  /\ UNCHANGED <<listed, cache, checks, lastOn, lastOff>>

\* Mutant: the time to live is counted from the answer.
Receive_ExpiresFromAnswer(c) ==
  /\ c.verdict # "none"
  /\ checks' = checks \ {c}
  /\ cache' = IF c.verdict = "error" THEN cache
              ELSE [cache EXCEPT ![c.host] = [allowed |-> c.verdict = "allowed", left |-> TTL]]
  /\ IF c.verdict = "denied" THEN Show(c.tab, "blocked", c.host) ELSE UNCHANGED tab
  /\ UNCHANGED <<listed, lastOn, lastOff>>

\* Mutant: failing open is remembered.
Receive_RemembersErrors(c) ==
  /\ c.verdict # "none"
  /\ checks' = checks \ {c}
  /\ cache' = [cache EXCEPT ![c.host] =
                 [allowed |-> c.verdict # "denied", left |-> TTL - c.age]]
  /\ IF c.verdict = "denied" THEN Show(c.tab, "blocked", c.host) ELSE UNCHANGED tab
  /\ UNCHANGED <<listed, lastOn, lastOff>>

\* The end of a fetch.  An error lets the tab go on; a denial sends it to the
\* blocked page, wherever the tab is by now.
Receive(c) ==
  /\ c.verdict # "none"
  /\ checks' = checks \ {c}
  /\ cache' = IF c.verdict = "error" THEN cache
              ELSE [cache EXCEPT ![c.host] =
                      [allowed |-> c.verdict = "allowed", left |-> TTL - c.age]]
  /\ IF c.verdict = "denied" THEN Show(c.tab, "blocked", c.host) ELSE UNCHANGED tab
  /\ UNCHANGED <<listed, lastOn, lastOff>>

\* The browser ends an idle service worker, and its cache with it.
WorkerEnds ==
  /\ checks = {}
  /\ cache # [h \in Host |-> Nothing]
  /\ cache' = [h \in Host |-> Nothing]
  /\ UNCHANGED <<listed, tab, checks, lastOn, lastOff>>

-----------------------------------------------------------------------------
(* The dashboard                                                           *)

\* handleCheck behind its rate limiter, or no answer at all.
Answer(c) ==
  /\ c.verdict = "none"
  /\ \E v \in {IF c.host \in listed THEN "allowed" ELSE "denied", "error"} :
       checks' = (checks \ {c}) \cup {[c EXCEPT !.verdict = v]}
  /\ UNCHANGED <<listed, tab, cache, lastOn, lastOff>>

List(h) == listed' = listed \cup {h} /\ lastOn' = [lastOn EXCEPT ![h] = 0]

\* "Add to allowlist" on the blocked page.  A host that is listed by now is a
\* 409, and the page stays.
AddDomain(t) ==
  LET h == tab[t].host
  IN  /\ tab[t].at = "blocked"
      /\ h \notin listed
      /\ List(h)
      /\ Show(t, "added", h)
      /\ UNCHANGED <<cache, checks, lastOff>>

\* Its timer jumps back to the original URL, and so does an impatient user.
Retry(t) ==
  /\ tab[t].at = "added"
  /\ BeforeNavigate(t, tab[t].host)
  /\ UNCHANGED <<listed, cache, lastOn, lastOff>>

\* Rules that are added and deleted on the dashboard itself.
AddRule(h) ==
  /\ h \notin listed
  /\ List(h)
  /\ UNCHANGED <<tab, cache, checks, lastOff>>

DeleteRule(h) ==
  /\ h \in listed
  /\ listed' = listed \ {h}
  /\ lastOff' = [lastOff EXCEPT ![h] = 0]
  /\ UNCHANGED <<tab, cache, checks, lastOn>>

-----------------------------------------------------------------------------

Tick ==
  /\ \A c \in checks : c.age < MaxLatency
  /\ checks' = {[c EXCEPT !.age = @ + 1] : c \in checks}
  /\ cache' = [h \in Host |-> [cache[h] EXCEPT !.left = IF @ > 0 THEN @ - 1 ELSE 0]]
  /\ lastOn' = [h \in Host |-> IF h \in listed THEN 0 ELSE Later(lastOn[h])]
  /\ lastOff' = [h \in Host |-> IF h \notin listed THEN 0 ELSE Later(lastOff[h])]
  /\ UNCHANGED <<listed, tab>>

Next == \/ \E t \in Tab, h \in Host : Navigate(t, h)
        \/ \E t \in Tab : NavigateElsewhere(t) \/ AddDomain(t) \/ Retry(t)
        \/ \E c \in checks : Answer(c) \/ Receive(c)
        \/ \E h \in Host : AddRule(h) \/ DeleteRule(h)
        \/ WorkerEnds
        \/ Tick

Spec == Init /\ [][Next]_vars

\* A dashboard that has not answered by then answers, and time passes.
LateCheckEnds == \E c \in checks : c.age = MaxLatency /\ (Answer(c) \/ Receive(c))

FairSpec == Spec /\ WF_vars(Tick) /\ WF_vars(LateCheckEnds)

-----------------------------------------------------------------------------
(* Safety                                                                  *)

ClocksAreTrue ==
  \A h \in Host : IF h \in listed THEN lastOn[h] = 0 ELSE lastOff[h] = 0

\* A verdict that is remembered, ...
MemoryIsTrue ==
  \A h \in Host : cache[h].left > 0 =>
    (IF cache[h].allowed THEN lastOn[h] ELSE lastOff[h]) <= TTL - cache[h].left

\* ... or on its way, ...
AnswersAreTrue ==
  \A c \in checks : /\ c.verdict = "allowed" => lastOn[c.host] <= c.age
                    /\ c.verdict = "denied" => lastOff[c.host] <= c.age

\* ... was true of the table not longer ago than it has been kept.
\* (background.js:24-36)
IInv == TypeOK /\ MemoryIsTrue /\ AnswersAreTrue /\ ClocksAreTrue

\* A tab is only ever sent to the blocked page for a host that was not listed
\* within the last 30 seconds, ...
BlockedForCause ==
  [][\A t \in Tab : tab'[t].at = "blocked" /\ tab'[t] # tab[t]
       => lastOff[tab'[t].host] <= TTL]_vars

\* ... and a navigation that the dashboard is not being asked about is one to a
\* host that was listed within the last 30 seconds.  (background.js:26-27, 46-47)
PassedForCause ==
  [][\A t \in Tab : tab'[t].at = "site" /\ tab'[t] # tab[t]
       => \/ lastOn[tab'[t].host] <= TTL
          \/ \E c \in checks' : c.tab = t /\ c.host = tab'[t].host]_vars

-----------------------------------------------------------------------------
(* Liveness                                                                *)

\* When a host stays on the allowlist, its tabs are in the end no longer sent
\* to the blocked page, whatever the extension still remembered.
DenialsFade ==
  \A h \in Host :
    <>[](h \in listed) =>
      <>[][\A t \in Tab : tab'[t] = [at |-> "blocked", host |-> h] => tab[t] = tab'[t]]_vars

-----------------------------------------------------------------------------
(* What the page says and the extension does not do                        *)

\* blocked.html:63: "Added. You can now retry the original URL."
RetryWorks == [][\A t \in Tab : Retry(t) => tab'[t].at = "site"]_vars

=============================================================================
