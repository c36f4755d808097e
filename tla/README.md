# skfilter in TLA+

A verification project for skfilter, a Windows service that turns the default
outbound policy of Windows Defender Firewall to "block" and opens, for every
entry of an allowlist, the addresses that DNS gives for it. The modules here
are translated from the Go source, the SQL schema and the browser extension
under `src/`; comments name the lines. TLC checks small instances, and TLAPS
proves the safety properties of the passing runs for every value of the
constants.

Contents: [the system](#the-system) · [the plan](#the-plan) ·
[modules and code](#modules-and-code) · [runs](#runs) ·
[proofs](#proofs) · [what the runs found](#what-the-runs-found) ·
[what is not modelled](#what-is-not-modelled)

## The system

### Components

| component | source | state | operations |
|---|---|---|---|
| rules store | `internal/db` | table `rules` with its AUTOINCREMENT sequence, the password hash and the signing key in `settings`, `audit_log` | `Add`, `Delete`, `UpdateIPs`, `AllEnabled`, `Get`; `SetPasswordHash`; one connection, so one statement at a time |
| firewall driver | `internal/firewall/netsh.go` | none of its own; the firewall's rules and default policy | `AddAllowRule`, `DeleteRule` (one netsh run per address family), `ListSkfilterRules`, `GetDefaultOutbound`, `SetDefaultOutboundBlock` |
| netsh text | `internal/firewall/rules.go`, `policy.go` | none | parsing of what netsh prints |
| resolver | `internal/resolver` | a snapshot of the rows while it walks over them | `ResolveAndApply` (from the refresh loop and from HTTP handlers), `refreshAll` every minute |
| rules API | `internal/httpapi/handlers_rules.go` | a handler in progress | list, add, delete, refresh |
| reconciler | `internal/firewall/reconciler.go` | within a tick its snapshots; between ticks `policyHealthy` | one tick every 5 s: rules, default policy, browser keys |
| main loop | `cmd/service.go` `runMainLoop` | its context, its goroutines, the server | start, serve, fail, shut down |
| service and commands | `cmd/service.go` `Execute`, `cmd/install.go`, `admin.go`, `winsvc.go`, `preserve.go` | the SCM's entry, helper rules, browser keys | `-install`, `-uninstall`, flagless start, stop, recovery |
| test mode | `cmd/test.go` | `policyApplied`, the session's timer | `-test`: block for five minutes, then revert |
| firewall log tailer | `cmd/firewall_log.go` | the position in `pfirewall.log`, what is on the console | turn the log on and off, follow it |
| browser policies | `internal/policies` | registry values of Chrome and Edge | write, remove |
| extension | `extension/background.js`, `/api/check`, `/blocked` | a 30-second cache of verdicts | check a navigation, redirect, add from the blocked page |
| access | `internal/auth`, `handlers_login.go`, `handlers_pages.go`, `middleware.go` | session cookies in the browsers, the signing key, rate limiter buckets | setup, login, logout, the gate, redirects |
| audit log | `internal/db/audit.go`, `middleware.go` | append-only rows | one entry per login, setup and successful change |
| status window, packing tools | `cmd/status.go`, `internal/crx`, `tools` | none | display and build |

### How they interact

`runMainLoop` starts the reconciler and the resolver as goroutines and serves
the dashboard. All three share the store and the firewall, and nothing else
orders them: a handler of `POST /api/rules` runs `ResolveAndApply` in its own
goroutine, so that several of them, the refresh loop and the reconciler's
repair of the same rule can run `netsh` at the same time. A deleted row is only
a deleted row; its firewall rule is left for the reconciler's sweep.
`Execute` wraps the loop as a Windows service, `RunTest` as a five-minute
session with the tailer of the firewall log beside it; `-install` and `-uninstall` are other processes that write the same
firewall and the same registry. The extension asks `/api/check` and knows
nothing of the firewall.

### What is hard

* **Snapshots.** A tick compares rows it read with a listing it read later and
  acts on both while they change; `ResolveAndApply` compares an answer with the
  row as it was before the lookup.
* **Interleaved netsh runs.** Two writers of one rule name, each of up to four
  runs, a firewall that accepts two rules of one name.
* **Half-done work.** A run that fails or is killed after 30 seconds may have
  taken effect; a call stops between its two families; the process dies
  between deleting and adding; rows survive and rules survive, separately.
* **Names that outlive their row.** A rule can stay after its row is gone, so
  ids must never be used again.
* **Lossy text.** What netsh prints is not what it was given, and the parsers
  drop part of it; "equal" compares parsed text.
* **Two writers of the default policy** in `-test` (RunTest and the reconciler),
  three with `-uninstall`.
* **Stopping.** A cancelled loop waits for its goroutines, a failed one does
  not; `Execute` waits eight seconds, `-uninstall` fifteen.
* **Stale verdicts** in the extension, and answers that overtake one another.
* **Sessions without a table.** A session is its signed cookie: nothing on the
  server can end it but a new key; what a handler checked before bcrypt's time
  may no longer hold after it; a cookie outlives the database it came from.
* **A log that is read while it is written**, in pieces that are not lines.

### What makes each component correct

* *Reconciler, resolver, API, store, driver together*: only addresses that a
  lookup gave for a row are opened under its name; nothing before a password;
  an undisturbed tick repairs everything; the machine converges; the rule of a
  deleted row goes; a deleted id does not come back.
* *Test mode*: untouched before a password, reachable while blocked, ends by
  itself, leaves the machine as it was.
* *Lifecycle*: the helper rules surround the blocking, an uninstall stays, a
  service comes back after a crash and enforces.
* *Extension*: acts only on verdicts true within 30 seconds, forgets in time.
* *Log tailer*: the console shows the lines of the session, once and in order,
  and the log does not go on growing afterwards.
* *Access*: nobody is in without a password, setup is over once it is done,
  redirects end. (A logged-out session is *not* dead: `Logout` asks the browser
  to forget the cookie, and another copy of it stays good. The twelve hours of
  `maxAgeSeconds` are only the browser's: `store.Options` is set after
  `NewCookieStore` (`sessions.go:33-40`), so the codec keeps its own limit of
  thirty days.)
* *Audit log*: what somebody was told is in it, and every actor it names came in
  through an entry of it.
* *Browser policies*: whole after a tick, gone after an uninstall.

## The plan

In order of importance. Done:

1. `NetshText`, `Store`, `Firewall`, `Resolver`, `RulesApi`, `Reconciler`, and
   `Enforcement`, which composes them; runs `races`, `sync`, `settles`.
2. The inductive invariant and its proof: `Enforcement_proofs`.
3. `Allowlist`, the abstract promise, and `Refinement_proofs`.
4. `MainLoop`, and on it `TestMode` (with `TestMode_proofs`) and `Lifecycle`.
5. `Extension` and `Extension_proofs`.
6. `Sessions` and `Access` with `Access_proofs`: setup with its check and its
   write apart, login, logout, the gate, the audit log, the pages' redirects,
   restarts, a replaced key and a deleted database.
7. `LogTail`, in `TestMode`, with two theorems in `TestMode_proofs`.
8. `MainLoop_proofs`, what every step of the main loop keeps in either mode, and
   on it `Lifecycle_proofs` and the rest of `TestMode_proofs`.
9. `Sync_proofs`: what of the repair of each name the current tick has done, and
   from that `TickSyncs` and `LeavesCorrectAlone`.

10. `RemovedStaysDown`, what a disturbed uninstall still guarantees.
11. `-dev` mode in `Enforcement`, and `DevStandsDown`, what a process does not do
    in it, also after an enforcing one.

Every safety property that a passing run checks is also a theorem. To come: the
lemmas towards `Settles`, that is, which steps of a clean tick are the last ones
before the firewall, the policy and the keys are what the rows say.

The modules are written for proofs: constants with named assumptions, one
action per operation, invariants as conjunctions of named parts, no RECURSIVE
operators.

## Modules and code

`NetshText` ← `Store` ← `Firewall` ← { `Resolver` ← `RulesApi`, `Reconciler` } ←
`Enforcement`; `Reconciler` ← `MainLoop` ← { `TestMode`, `Lifecycle` };
`LogTail` ← `TestMode`; `Sessions` ← `Access`; `Extension` and `Allowlist` stand
alone (← is "is extended by"). `MC_*` modules give names to instances,
`*_proofs` hold theorems: `MainLoop_proofs` ← { `TestMode_proofs`,
`Lifecycle_proofs` }, `Enforcement_proofs` ← { `Refinement_proofs`, `Sync_proofs` }.

* **NetshText.** An entry of a row is an address or a network. `Show` is how
  netsh prints an entry (`a/32`, `a-a`, or with its prefix), `ParseRemoteIP`
  what `parseRemoteIPField` makes of that (everything from `/` is cut),
  `SplitFamilies` what the repair of a row keeps (networks are dropped).
  `ShowAllProfiles` and `ParseDefaultOutbound` are the policy line, which has no
  colon, and the parser, which looks for one. The format of the printed text is
  an assumption about netsh, taken from the comments of `policy.go:9-14`,
  `netsh.go` and `rules.go`.
* **Store.** `rules[i]` is row *i* or `NoRow`; `lastId` is the AUTOINCREMENT
  sequence. Every repository method is one statement on the only connection of
  the pool, hence one step. Nothing writes `enabled`.
* **Firewall.** `fw` is the set of `skfilter_*` rules, `policy` the default
  outbound action, `call[t]` the `AddAllowRule` or `DeleteRule` of thread *t* in
  progress: `del4`, `del6`, `add4`, `add6`, then `ok` or `err`. A failing netsh
  run chooses whether it took effect. A rule's `owner` is auxiliary. Two
  identical rules are one element: netsh deletes by name, so they go together.
* **Resolver.** `wk[w]` is where thread *w* is in `ResolveAndApply`: `GetRow`,
  `Lookup` or `LookupFails`, `AddAnswer`, `Persist`. `answered` is auxiliary:
  all answers a row has had. `dns` is the world.
* **RulesApi.** Add, delete and refresh, behind a password.
* **Reconciler.** `TickBegins` (the password gate and the snapshot), `ListFirewall`,
  `RepairDelete`/`RepairAdd`/`RepairEnds`, `SweepDelete`/`SweepEnds`,
  `CheckPolicy`, `SetPolicy`, `RepairKeys`; an error ends the tick where the
  code returns. Map iteration is a choice.
* **Enforcement.** The threads over one store and one firewall, with the
  disturbances: DNS changes, crash and restart, an administrator with `wf.msc`,
  `netsh` and `regedit`. `enforce` is the mode of the running process, one of
  `Modes`: TRUE for the service, FALSE for `skfilter -dev`. It is the first gate of
  a tick, in `RecStep`; a crash may be followed by a process in the other mode,
  over the same database and firewall. `Faults` names the kinds an instance has and
  `MaxFaults` how many occur. `clean` is auxiliary: the current tick has met no
  failure and no interference.
* **Allowlist.** What the service promises, without threads or netsh: an entry
  is added, learns addresses, is removed, once; what is open for it is among
  what it has learned and changes for one entry at a time (or everything is
  closed at once, by an administrator's reset). `Promise` in `Enforcement` is
  the refinement mapping: `stage` from `rules` and `lastId`, `ever` from
  `answered`, `open` from skfilter's own rules in `fw`.
* **MainLoop.** `loop`, `ctx`, `recUp`. `LoopEnds` has the `wg.Wait`;
  `ServerFails` has not, and closes the store: then the gate reads as "no
  password", so no tick begins, but one under way goes on. A select with a
  cancelled context and a due ticker may pick the ticker.
* **TestMode.** `main` is where `RunTest` is; the loop is next to it.
  `applied` is `policyApplied`. `Killed` is the end of the process where no
  signal is caught, which includes the clean-up: `stop` runs before it.
* **LogTail.** `file` is `pfirewall.log` as the sequence of pieces that Windows
  wrote; a line comes in one piece or in two. `ReadLine` is `ReadString` up to a
  newline with what `printDecision` shows of it, `ReadEOF` the `io.EOF` that drops
  what had been read of an unfinished line. `from`, where the tailer began, is
  auxiliary. `TestMode` turns the logging on (`EnableLogging`), starts the tailer
  and turns the logging off again at the end of its clean-up (`DisableLogging`).
* **Lifecycle.** `exec` is the service process, `scm`/`marked`/`recover` the
  SCM's view of it, `cli` the command in progress. `extent`, how much of an
  installation is there, is auxiliary. A
  recovery action that is due ends with the entry it belongs to
  (`UninstallDelete`, `ProcessExits`, `Crash`).
* **Extension.** `tab`, `cache`, `checks` under way; time is counted in ticks
  and kept as "how long ago". `lastOn`/`lastOff` are auxiliary: how long ago a
  host was last (not) in the table.

* **Sessions.** `hash` and `key` are the row of settings, `lastSid` the last
  random id. A cookie is a pair of key and id; it is good if its key is the
  server's. Signing, encoding and bcrypt are what they are for: equal or not.
* **Access.** `req[r]` is where the *r*-th request is: `received`, for a setup
  or a login `hashing` (bcrypt's time: before the password is stored, or between
  reading the hash and making the session), for a rule change `working`, `handled` (the audit logger is next),
  `answering`. The cookie travels with the request and reaches the jar with the
  answer. Redirects and the page scripts' first requests are requests of the
  same user (`Follow`, `NextPage`). `unread` is the one thing the session library
  adds: the error of decoding an old cookie stays with the request, so
  `SessionID` gives "" although `SetAuthenticated` has made a session. `session`
  and `unread` of an entry, `unlogged`, `answered` and `firstSet` are auxiliary.

### Abstractions that matter

* Addresses, hostnames and networks are model values; a network is only known to
  be one. An address is taken to be spelled canonically, as those in DNS answers
  are. A literal IPv6 entry is stored as the user typed it (`refresh.go:136-149`);
  if that is not the canonical form it never equals what netsh prints, so its
  rule is rewritten at every tick, and `LeavesCorrectAlone` does not speak of it.
* A flagless start may find a process that has reported Stopped and is still
  exiting, and have the SCM start a second one beside it for a moment
  (`admin.go:61-63`); `EnsureRunning` waits for the end of the first.
* In `TestMode` and `Lifecycle` the helper rules are kept apart from `fw` (the
  reconciler never touches reserved names: `Reserved` in `ListFirewall`), and the groups of netsh runs of one helper are one step.
* The netsh child that a dying process leaves behind is taken as finished or
  not started; both outcomes exist as steps before the crash.
* Database errors other than those of a closed store are left out; their effect
  is that of a failed lookup or listing.
* Outside `Access`, setup is one step, and a handler needs a password, not a
  session: `Access` shows that a session implies one (`EntryNeedsPassword`).
* An answer of a handler leaves when the middleware around it has returned:
  Go's server keeps answers of this size in its buffer until then.
* The database is deleted in `Access` only.
* One command of an administrator runs at a time; it may be interrupted between
  any two of its steps. The fifteen seconds of `stopServiceWait` never run out,
  since `Execute` answers after eight.
* A reboot is not an action: to skfilter it is a crash (the fault "crash") and
  the automatic start, which does what `Recover` does.

## Runs

Bounds: `MaxId` rows ever inserted, `MaxFaults` disturbances, `Http` handlers.

| run | instance | asks |
|---|---|---|
| `races` | 2 row ids, a hostname that moves between two addresses, 1 handler + refresher + reconciler, both modes, no faults | `TypeOK`, `IInv`, `Provenance`, `StandDown`, `DeletedStaysDeleted`, `ImplementsAllowlist` |
| `sync` | 1 row, dual-stack hostname whose lookup can fail, both modes, 1 fault out of twelve kinds | `TickSyncs`, `LeavesCorrectAlone`, `DevStandsDown` |
| `settles` | 1 row, 1 fault of crash, netsh, dns, keys, fair | `Settles`, `DeletedRuleGoes`, `RowsFollowDns` |
| `test_mode` | no rows, 2 lines of the log, 1 fault of start, bind, netsh, registry, kill, fair | `IInv`, `Untouched`, `ReachableWhileBlocked`, `LoggingEnds`, `StreamOrder`, `NothingElseLost`, `SelfDisarms` |
| `access` | 1 browser, 1 password, 3 requests of a user, 2 under way at once, 2 keys, 1 fault of db, audit, lost, key, wipe, restarts at will, fair | `IInv`, `EntryNeedsPassword`, `OneTimeSetup`, `AnsweredIsAudited`, `AuditNamesActors`, `RedirectsEnd` |
| `lifecycle` | at most 1 old row, 2 faults of eight kinds, fair | `IInv`, `HelpersWhileBlocked`, `UninstallSticks`, `RemovedStaysDown`, `Enforces` |
| `extension` | 1 tab, 2 hosts, TTL and latency of 2 ticks, 2 checks at once, fair | `IInv`, `BlockedForCause`, `PassedForCause`, `DenialsFade` |
| `cidr_never_syncs`, `policy_reapplied`, `test_revert`, `failure_restart`, `retry_blocked` | the smallest that show it | one violated property each, see below |

Deadlock is checked in every run. The test session stutters explicitly when its
process has exited (`Done`); every other system here always has a next step.

**What the passing runs show.** `races`: with two successive rows of one domain
and everything interleaved, no worker or tick that holds an old copy ever opens
an address for the wrong row or before a password, in either mode. It is without
faults because the theorems below cover faults. `sync`: the reconciler's central promise, that
a tick which is not itself interfered with repairs whatever is there: stale,
doubled or missing rules, one family of two, orphans. Excepted, by name, are
rules the parser or `DeleteRule` does not see for what they are (`Invisible`).
And it rewrites nothing that is correct already: what netsh prints, which for a
single IPv6 address is a range, is read back exactly. A process in `-dev` mode
puts nothing back at all (`DevStandsDown`): it may follow an enforcing one that
died in the middle of a tick, or see the administrator take the policy, a rule or a
key away, and only a resolver's call touches a rule, that of its row.
`settles`: after the last disturbance the firewall, the policy and the keys are
what the allowlist says and stay so; a deleted row's rule goes, even if the
resolver puts it back first. `test_mode`: the helper rules come first and go
last, and neither a failed loop nor a missing password keeps a session with a
password or a Ctrl-C from ending; the log is turned off again up to the netsh
runs that failed, and the console misses no line but those that Windows cut.
`access`: no session is good without a password, also over a restart, a new key
or a deleted database; a setup that comes late is refused; whoever was told an
outcome finds it in the log, under an actor that the log introduces; and a
browser is never sent round in circles. `lifecycle`: the same for the installed
service, with an uninstall that is not undone, an installation whose rules never
come before its entry, and a recovery that enforces.
`extension`: no verdict is used beyond its 30 seconds, whatever the order of
answers.

**Why the bounds are enough.** The hazards are about one name and two writers of
it: an id followed by its successor needs two ids, old and new answers need two
addresses, a family that is missing needs a dual-stack host. A rule of another
name is never read or written by an operation on this one. The reconciler and
the refresher are one thread each in the code; a second handler adds nothing to
the first plus the refresher, since all three run the same `ResolveAndApply`
(and the proofs hold for any number). One disturbance at any point is what a
tick or a loop has to recover from; the recovery from the second starts where
that from the first may have got to. In a `-test` session the second failure was dropped when the tailer came in: the
clean-up steps are independent of one another, and a failure before the clean-up
is over when it starts. Two lines are what it takes for one to be lost between
others or shown twice. In `Access` two requests at once are what it takes for a
check to go stale, a third finds what they left, and a second browser adds only
a second jar (the theorems hold for any number). In `Extension` two checks under way are
what it takes for answers to overtake one another; one tick more or less of
TTL is the boundary.

**Fairness.** Weak fairness of the reconciler's goroutine (its ticker fires and
every netsh run ends, at the latest after 30 s), of the refresher's, and of each
handler that has started: Go schedules every runnable goroutine and all waits
have time limits. Requests, commands, DNS changes and failures are never
forced. In `TestMode` only RunTest itself is fair. In `Lifecycle` the service
process, its reconciler and a due recovery action are; administrators are not.
In `Access` some request under way moves on: every handler ends, the server's
timeouts see to that, and requests run out, which is what "when users stop
asking" means. In `Extension` time passes, and a check that has waited `MaxLatency` ends. In
`settles`, rows and disturbances run out (`MaxId`, `MaxFaults`), which is what
"after the last" means.

**UninstallSticks** is restricted to behaviours without a failure. With one it
is false of the code: if a tick takes longer than the eight seconds of
`Execute`, Stopped is reported while the tick goes on, and `-uninstall` restores
the policy before the tick blocks it. What remains true with failures is
`RemovedStaysDown`: no helper rule is added before there is an entry again, so that an
installation that fails half way is always one that `-uninstall` and the flagless
start find; and once the process is gone too, nothing starts or blocks again.
An uninstallation whose `Delete` of the entry failed (`install.go:198`, a warning)
does not count as removed: its service comes back with the next start.

**HelpersWhileBlocked** speaks of installations that ran to their end. After an
`Install` that failed at a helper rule the entry is there, a flagless start
starts the service, and after the setup default-deny comes without the rules
that let the resolver out (`install.go:96-102`).

## Proofs

`Enforcement_proofs`: `Invariance` proves `Spec => []IInv` for all constants
that satisfy the named assumptions: any number of handlers, rows, entries and
faults. `Provenance` is not inductive: an address gets into the firewall from a
call's arguments, these from a worker's answer or the reconciler's snapshot,
that from the rows, those from an answer. `IInv` says of each of these places
that it holds answers of its own row only (`FwFlow`, `RowFlow`, `WantFlow`,
`CallFlow`, `WorkerFlow`), with `TickShape` (the reconciler works on names of
its snapshot, and only behind its password gate), `ModeGate` (no tick is under way
in `-dev`) and `Gate` (rows and blocking need a password). One lemma per kind of
step shows what it preserves. From `IInv` follow `TypeCorrect`, `ProvenanceHolds`,
`StandDownHolds` and, with the steps they speak of, `DeletedStaysDeletedHolds` and
`DevStandsDownHolds`: by `ModeGate` the reconciler is idle in `-dev`, so it has no
call, and a worker's netsh run touches only the name of its call (`NetshOwnName`).

`Refinement_proofs`: `Refinement` proves `Spec => ImplementsAllowlist`. Initial
states map to initial states; under `IInv`, `TickShape` and the flow conditions
give for each netsh run that adds a rule an `Open` of that one name (its
addresses are answers), for each one that deletes a rule an `Open` with fewer,
for insert, delete and lookup an `Add`, `Remove` or `Learn`, for a reset
`CloseAll`, and for everything else a stutter.

`Sync_proofs`: `HostsSyncHolds` proves that a tick which nothing interferes with
leaves every name with the addresses of its row, and `TickSyncsHolds` derives
`TickSyncs` for allowlists in which no lookup returns a network;
`HostsLeftAloneHolds` and `LeavesCorrectAloneHolds` prove that such a tick
rewrites only what is `Due`. At the end of a tick there is nothing left of what
it did, so the invariant follows it: the snapshot is still the table, and every
name outside `repairs` and `sweeps` is in line, while every name still in them
is due (`Advance`). A name leaves the two sets when its call returns, and the
call itself has a middle: while it runs, `Deleting` says which families of the
name are gone, `Adding` which have been written from the snapshot. For the names
that `ListFirewall` did not select the argument is about text: what netsh shows
of a single address is parsed back to it (`ParsePlain`), so parsed equality is
equality: what the diff leaves out is in line (`UnlistedSynced`), and what it
lists is not (`ListedDue`). For a network it is not, and the theorems say so:
the names concerned are those that were ever answered with one, whatever names
stand beside them. The hypothesis of the two corollaries (`NoNetworks`) is
needed, as the run `cidr_never_syncs` shows. `HandMade` (rules made by hand are
limited to single addresses) is what an administrator does in the model, and
`CallShape` ties a call to the place of the tick that made it. That other
threads do not disturb `Advance` is the meaning of `clean`: their steps either
leave rows and rules alone or end it.

`MainLoop_proofs` has the lemmas that the two modes share: a step of the loop,
of its goroutines or of the server keeps the types (`Typed`) and never puts a
tick where it has not seen a password (`Gating`), and it meets at most one
disturbance (`MayFail`).

`TestMode_proofs`: `Untouched` is strengthened by `Gated`: whoever is about to
change the policy (a tick past its gate, RunTest past its wait) has seen a
password, and a password is never cleared. `Invariance` adds the types and that
no tick runs without its goroutine. `ReachableWhileBlocked` is strengthened by
`Surrounded`: the reconciler may block at any moment between the helper rules'
making and their removal, so in all that time no more of them are missing than
disturbances have occurred. `LoggingEnds` needs only that the step into `exit`
is the one that turns the log off. `StreamOrderHolds` and `NothingElseLostHolds`
rest on `Console`: in the file every line has one end, behind those of all
earlier lines (`FileOrder`); what is shown has been read to its end
(`ShownWasRead`), and what has been read whole is shown (`ReadIsShown`). Windows
only appends, and the tailer only reads on.

`Lifecycle_proofs`: `Invariance` rests on `Paired`, which relates the process,
the loop within it and the SCM's states. `HelpersWhileBlocked` is strengthened by
`Prepared`: the machine may be blocked already when `-install` begins, so the
rules are counted while it makes them, against the disturbances so far.
`UninstallSticks` is strengthened by `Undisturbed`: without a failure a service
ends when it is told to, with its goroutines and with nothing left for the SCM to
repeat (`Orderly`), and `-uninstall` removes first the process, then what could
start another, then what a process would have restored (`Undone`). `RemovedStaysDown`
rests on `Dismantled`: the entry is gone or marked, only an installation makes
another, and no command that adds a helper rule is under way without one.

`Access_proofs`: `Invariance` proves `IInv` for any number of browsers, requests,
passwords and disturbances. The strengthening says of each request what has to
hold of it alone (`Good`): its cookie is of a key that exists; if it is good there
is a password, and either the log (or an entry whose INSERT failed) introduces
its session or the request is the one that is about to; an answer under way is
logged. While the server is up the log, the password and the ids only grow
(`Grows`), so a step of one request leaves all others good; a stop ends them all,
and a deleted database comes with a fresh key, which no cookie has.
`EntryNeedsPasswordHolds`, `OneTimeSetupHolds`, `AnsweredIsAuditedHolds` and
`AuditNamesActorsHolds` are its conjuncts.

`Extension_proofs`: `Invariance` proves that every memory and every answer under
way is true of the table within its age (`MemoryIsTrue`, `AnswersAreTrue`,
`ClocksAreTrue`); `BlockedForCauseHolds` and `PassedForCauseHolds` follow from
it step by step. Assumed: a positive TTL and a latency of at most TTL. (A check
that takes longer than 30 seconds is not modelled: its entry has expired when it
comes in.)

**Only model-checked:** all liveness (`Settles`, `DeletedRuleGoes`,
`RowsFollowDns`, `SelfDisarms`, `Enforces`, `DenialsFade`, `RedirectsEnd`), which
is beyond the prover together with its fairness, and the five violations below,
which are single behaviours.

## What the runs found

* `cidr_never_syncs`: the repair of a network entry deletes its rule and cannot
  add it again; and since the parser cuts the prefix, it does so at every tick.
* `policy_reapplied`: default-deny is applied again at every tick while it is in
  force.
* `test_revert`: a `-test` session can end with default-deny in force and the
  helper rules gone, because nobody waits for the reconciler's last tick.
* `failure_restart`: a service whose loop has failed stays stopped, although
  the comment in `Execute` counts on the recovery actions.
* `retry_blocked`: the blocked page's retry after adding a domain runs into the
  extension's remembered denial.

Sentences of the documents that properties of passing runs contradict, because
the code, which the model follows, does something else:

* `README.md:102-124` has the reconciler of a running `skfilter -dev` restore
  default-deny and log `policy_drift_recovered`, and `README.md:92` has it take the
  rule of a deleted row away. `tick` returns at its first line in that mode
  (`reconciler.go:88-92`, and `reconciler.go:35-38` calls it a full stand-down).
  `DevStandsDown` (run `sync`, theorem `DevStandsDownHolds`) states what happens:
  nothing.
* `README.md:155-156` and `186`, `Plan.md:162` and the comment of `Install`
  (`install.go:29-30`) say that `-install` or the flagless start applies
  default-deny. The code does not, as the note in it says (`install.go:77-82`): the
  reconciler does, after a password is set. The invariant `IInv` of `Lifecycle`
  has `policy = "block" => passwordSet`, whatever was installed.

Met while modelling, without a run of their own: nothing deletes an outbound
allow rule whose name does not begin with `skfilter_`, although `README.md:104-114`
and `Plan.md:246, 252` promise it (`parseRulesOutput` skips other names); a
non-canonical literal IPv6 entry is rewritten at every tick (see the
abstractions); a bare `skfilter_<id>` rule, a rule with
remote scope Any and a disabled rule survive every tick (`Plan.md:242-251`); a
tick after a firewall reset restores the rows' rules but not the reserved ones
(`Plan.md:253`); resolver and reconciler do write the same rule
(`Plan.md:248`); `-uninstall` leaves the rows' rules (`README.md:176`); the
clean-up of `-test` does not remove the preserve rules (`preserve.go:125`), leaves
the browser policy keys that its reconciler has written (only `-uninstall`
removes them), and turns off a log that an administrator had turned on before; two overlapping
setups both succeed, the later password stays (`Plan.md:126` calls setup
one-time); the log does not have logouts, although `auditActionFor` has a case
for them (`/logout` is outside `auditLogger`), nor changes that failed
(`Plan.md:130`, "every action"); the setup after a deleted database is logged as
"anonymous"; a repaired registry key is logged only if an earlier repair had
failed (`README.md:191` has an entry for every repair, `reconciler.go:186-210`);
a logout with an expired session ends, after the login, at `GET /logout`, which
does not exist; `RemoveBrowserPolicies` deletes an administrator's values in the
list keys with the keys (`policies.go:93-97`); a forgotten password's way out
(`README.md:208`) leaves default-deny and the rules of the old rows in force
until somebody sets a new password, and starts the ids again at 1.

## What is not modelled

PROJECT.json lists each part with its reason. The rate limiter of `/api/check`
(its refusal is an error answer in `Extension`); the status window and the landing
page (they only show); paths and the packing of the extension (pure functions of
their inputs, the latter cryptography); the rendering of the dashboard and the
two clicks of its delete button. The fourteen registry values are one variable,
whole or not: two processes that write them one by one do not fit next to the
rest of `Lifecycle`.

Of the modelled parts: the texts of messages and audit entries, the entries of
reconciler and resolver, the validation of hostnames, the rejection of malformed
requests other than passwords, the RDP port and the list of remote tools (one
"preserve" rule stands for them), SetRecoveryActions failing, the rotation of
`pfirewall.log` at 4 MB (the tailer would stay with the old file), and what
deleting the database does to the firewall.
