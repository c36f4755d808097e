----------------------------- MODULE Lifecycle -----------------------------
(***************************************************************************)
(* The installed service: the commands of an administrator (-install,      *)
(* -uninstall and the flagless start), the service control manager, and    *)
(* the service process with Execute around the main loop.                  *)
(*                                                                         *)
(* A command and the service process are different processes: each netsh   *)
(* run of the one may fall between any two steps of the other.  One        *)
(* command runs at a time.                                                 *)
(***************************************************************************)
EXTENDS MainLoop

CONSTANT Row1   \* what the database, which outlives installations, may have
                \* in row 1: an entry with its addresses

ASSUME Row1Assumption == Row1 \in Row

VARIABLES scm,      \* the service entry of the SCM
          marked,   \* the entry is marked for deletion
          recover,  \* a restart by the SCM's failure actions is due
          exec,     \* the service process: where Execute is
          cli,      \* where the command in progress is
          helpers,  \* the helper rules that are in the firewall
          extent    \* auxiliary: how much of an installation is there

scmVars == <<scm, marked, recover>>
machineVars == <<storeVars, fwVars, recVars>>
vars == <<machineVars, loopVars, scmVars, exec, cli, helpers, extent>>

Helper == {"loopback", "program", "preserve"}

TypeOK == /\ StoreTypeOK /\ FwTypeOK /\ RecTypeOK /\ LoopTypeOK
          /\ scm \in {"absent", "stopped", "running", "stopPending"}
          /\ marked \in BOOLEAN
          /\ recover \in BOOLEAN
          /\ exec \in {"none", "up", "stopping", "left"}
          /\ cli \in {"none", "loopback", "program", "preserve", "keys", "start",
                      "ensureKeys", "stop", "waitStop", "delete", "policy",
                      "unhelp", "unkeys"}
          /\ helpers \subseteq Helper
          /\ extent \in {"none", "begun", "whole", "removed"}

\* A machine without the service, and a fresh database or an older one: a row
\* was added by somebody who had logged in.
Init == /\ rules \in [Id -> {NoRow, Row1}] /\ \A i \in Id \ {1} : rules[i] = NoRow
        /\ lastId = MaxId
        /\ passwordSet \in BOOLEAN
        /\ RowIds # {} => passwordSet
        /\ fw = {} /\ policy = "allow"
        /\ call = [t \in Thread |-> NoCall]
        /\ faults = MaxFaults
        /\ recPc = "idle" /\ want = NoWant /\ repairs = {} /\ sweeps = {}
        /\ keys = FALSE /\ healthy = TRUE
        /\ LoopInit
        /\ scm = "absent" /\ marked = FALSE /\ recover = FALSE
        /\ exec = "none" /\ cli = "none" /\ helpers = {} /\ extent = "none"

-----------------------------------------------------------------------------
(* The service process                                                     *)

\* The SCM starts the executable: Execute reports Running at once.
ProcessStarts == /\ scm' = "running"
                 /\ exec' = "up"
                 /\ loop' = "starting"
                 /\ UNCHANGED <<ctx, recUp>>

\* Execute: Stop cancels the loop ...
StopArrives ==
  /\ exec = "up" /\ scm = "stopPending"
  /\ exec' = "stopping"
  /\ ctx' = TRUE
  /\ UNCHANGED <<machineVars, loop, recUp, scmVars, cli, helpers, extent>>

\* ... and Stopped is reported when it has ended, or after eight seconds.
StopEnds ==
  /\ exec = "stopping"
  /\ \/ loop \in {"done", "failed"} /\ UNCHANGED faults
     \/ Fault("slow")
  /\ exec' = "left"
  /\ scm' = "stopped"
  /\ UNCHANGED <<storeVars, fw, policy, call, recVars, loopVars, marked, recover,
                 cli, helpers, extent>>

\* The loop ended on its own: Stopped is reported all the same, with exit
\* code 1, and Execute returns.
LoopExited ==
  /\ exec = "up" /\ loop \in {"done", "failed"}
  /\ exec' = "left"
  /\ scm' = "stopped"
  /\ UNCHANGED <<machineVars, loopVars, marked, recover, cli, helpers, extent>>

\* What becomes of the entry of a service whose process has ended.
EntryAfterExit == IF marked THEN "absent" ELSE "stopped"

ProcessExits ==
  /\ exec = "left"
  /\ exec' = "none"
  /\ ProcessGone
  /\ scm' = EntryAfterExit
  /\ marked' = FALSE
  /\ recover' = (recover /\ ~marked)
  /\ UNCHANGED <<storeVars, fw, policy, faults, keys, cli, helpers, extent>>

\* The process dies without a report.  Only that is a failure to the SCM: a
\* service that reports Stopped, with whatever exit code, has not failed unless
\* SetRecoveryActionsOnNonCrashFailures was called, which Install does not do.
Crash ==
  /\ exec \in {"up", "stopping"}
  /\ Fault("crash")
  /\ exec' = "none"
  /\ ProcessGone
  /\ scm' = EntryAfterExit
  /\ marked' = FALSE
  /\ recover' = ~marked
  /\ UNCHANGED <<storeVars, fw, policy, keys, cli, helpers, extent>>

\* Mutant: SetRecoveryActions was never called.
Recover_Never == FALSE /\ UNCHANGED vars

\* The recovery action of the service, five seconds later.  (Install goes on
\* with a warning when it cannot set one; that is left out.)
Recover ==
  /\ recover
  /\ recover' = FALSE
  /\ IF scm = "stopped" /\ exec = "none"
     THEN ProcessStarts
     ELSE UNCHANGED <<scm, exec, loopVars>>
  /\ UNCHANGED <<machineVars, marked, cli, helpers, extent>>

-----------------------------------------------------------------------------
(* Install, the flagless start                                             *)

\* Mutant: the rules come before the entry of the service.
InstallBegins_RulesFirst ==
  /\ cli = "none" /\ scm = "absent" /\ exec = "none"
  /\ cli' = "loopback"
  /\ UNCHANGED <<machineVars, loopVars, scmVars, exec, helpers, extent>>

\* Install refuses an existing entry; the entry comes before everything else.
InstallBegins ==
  /\ cli = "none" /\ scm = "absent" /\ exec = "none"
  /\ scm' = "stopped"
  /\ cli' = "loopback"
  /\ extent' = "begun"
  /\ UNCHANGED <<machineVars, loopVars, marked, recover, exec, helpers>>

\* Mutant: the rules for remote sessions are forgotten.
After_NoPreserve == [loopback |-> "program", program |-> "keys", preserve |-> "keys"]

After == [loopback |-> "program", program |-> "preserve", preserve |-> "keys"]

\* A loopback or self-program rule that cannot be added ends the command and
\* leaves the entry behind; a preserve rule that cannot is a warning.
InstallHelper ==
  /\ cli \in Helper
  /\ \/ helpers' = helpers \cup {cli} /\ cli' = After[cli] /\ UNCHANGED faults
     \/ /\ Fault("netsh")
        /\ helpers' = helpers \ {cli}
        /\ cli' = IF cli = "preserve" THEN "keys" ELSE "none"
  /\ UNCHANGED <<storeVars, fw, policy, call, recVars, loopVars, scmVars, exec, extent>>

\* WriteBrowserPolicies; an error is a warning.
WriteKeys == \/ keys' = TRUE /\ UNCHANGED faults
             \/ Fault("registry") /\ UNCHANGED keys

InstallKeys ==
  /\ cli = "keys"
  /\ cli' = "start"
  /\ WriteKeys
  /\ UNCHANGED <<storeVars, fw, policy, call, recPc, want, repairs, sweeps, healthy,
                 loopVars, scmVars, exec, helpers, extent>>

InstallStart ==
  /\ cli = "start"
  /\ cli' = "none"
  /\ \/ ProcessStarts /\ extent' = "whole" /\ UNCHANGED faults
     \/ Fault("scm") /\ UNCHANGED <<scm, exec, loopVars, extent>>
  /\ UNCHANGED <<storeVars, fw, policy, call, recVars, marked, recover, helpers>>

\* EnsureInstalledAndRunning with an entry that is there: a stopped service
\* is started, whatever of the installation was completed.  (Left out is a
\* start in the moment between Stopped and the end of the process.)
EnsureRunning ==
  /\ cli = "none" /\ scm \in {"stopped", "running"} /\ exec # "left"
  /\ \/ /\ cli' = "ensureKeys"
        /\ IF scm = "stopped" THEN ProcessStarts ELSE UNCHANGED <<scm, exec, loopVars>>
        /\ UNCHANGED faults
     \/ scm = "stopped" /\ Fault("scm") /\ UNCHANGED <<cli, scm, exec, loopVars>>
  /\ UNCHANGED <<storeVars, fw, policy, call, recVars, marked, recover, helpers, extent>>

EnsureKeys ==
  /\ cli = "ensureKeys"
  /\ cli' = "none"
  /\ WriteKeys
  /\ UNCHANGED <<storeVars, fw, policy, call, recPc, want, repairs, sweeps, healthy,
                 loopVars, scmVars, exec, helpers, extent>>

-----------------------------------------------------------------------------
(* Uninstall                                                               *)

\* Needs the dashboard password, hence one that was set.
UninstallBegins ==
  /\ cli = "none" /\ passwordSet
  /\ cli' = IF scm = "absent" THEN "policy" ELSE "stop"
  /\ extent' = IF extent = "none" THEN "none" ELSE "begun"
  /\ UNCHANGED <<machineVars, loopVars, scmVars, exec, helpers>>

\* stopServiceWait: the error of a service that does not run is ignored.
UninstallStop ==
  /\ cli = "stop"
  /\ IF scm = "running" THEN scm' = "stopPending" /\ cli' = "waitStop"
                        ELSE cli' = "delete" /\ UNCHANGED scm
  /\ UNCHANGED <<machineVars, loopVars, marked, recover, exec, helpers, extent>>

UninstallWait ==
  /\ cli = "waitStop" /\ scm # "stopPending"
  /\ cli' = "delete"
  /\ UNCHANGED <<machineVars, loopVars, scmVars, exec, helpers, extent>>

\* The entry goes, with a restart that is due, or it is marked; if it cannot be
\* deleted, there is a warning.
UninstallDelete ==
  /\ cli = "delete"
  /\ cli' = "policy"
  /\ \/ /\ IF exec = "none" THEN scm' = "absent" /\ recover' = FALSE /\ UNCHANGED marked
                            ELSE marked' = TRUE /\ UNCHANGED <<scm, recover>>
        /\ UNCHANGED faults
     \/ Fault("scm") /\ UNCHANGED scmVars
  /\ UNCHANGED <<storeVars, fw, policy, call, recVars, loopVars, exec, helpers, extent>>

UninstallPolicy ==
  /\ cli = "policy"
  /\ cli' = "unhelp"
  /\ \/ policy' = "allow" /\ UNCHANGED faults
     \/ Fault("netsh") /\ policy' \in {policy, "allow"}
  /\ UNCHANGED <<storeVars, fw, call, recVars, loopVars, scmVars, exec, helpers, extent>>

UninstallHelpers ==
  /\ cli = "unhelp"
  /\ cli' = "unkeys"
  /\ \/ helpers' = {} /\ UNCHANGED faults
     \/ Fault("netsh") /\ \E h \in helpers : helpers' = {h}
  /\ UNCHANGED <<storeVars, fw, policy, call, recVars, loopVars, scmVars, exec, extent>>

\* RemoveBrowserPolicies, and the message that everything is restored.
UninstallKeys ==
  /\ cli = "unkeys"
  /\ cli' = "none"
  /\ \/ keys' = FALSE /\ UNCHANGED faults
     \/ Fault("registry") /\ UNCHANGED keys
  /\ extent' = IF scm = "absent" \/ marked THEN "removed" ELSE "begun"
  /\ UNCHANGED <<storeVars, fw, policy, call, recPc, want, repairs, sweeps, healthy,
                 loopVars, scmVars, exec, helpers>>

-----------------------------------------------------------------------------

\* The administrator interrupts the command, or it is killed.
Interrupted ==
  /\ cli # "none"
  /\ Fault("interrupt")
  /\ cli' = "none"
  /\ UNCHANGED <<storeVars, fw, policy, call, recVars, loopVars, scmVars, exec, helpers, extent>>

-----------------------------------------------------------------------------

ProcessStep ==
  \/ StopArrives \/ StopEnds \/ LoopExited \/ ProcessExits
  \/ (LoopStep \/ RecReturns) /\ UNCHANGED <<scmVars, exec, cli, helpers, extent>>

ReconcilerStep == RecRuns /\ UNCHANGED <<scmVars, exec, cli, helpers, extent>>

Command ==
  \/ InstallBegins \/ InstallHelper \/ InstallKeys \/ InstallStart
  \/ EnsureRunning \/ EnsureKeys
  \/ UninstallBegins \/ UninstallStop \/ UninstallWait \/ UninstallDelete
  \/ UninstallPolicy \/ UninstallHelpers \/ UninstallKeys
  \/ Interrupted

Next == \/ ProcessStep \/ ReconcilerStep \/ Recover
        \/ Crash
        \/ (ServerFails \/ Setup) /\ UNCHANGED <<scmVars, exec, cli, helpers, extent>>
        \/ Command

Spec == Init /\ [][Next]_vars

\* The service process and the SCM go on; nobody has to type a command.
FairSpec == Spec /\ WF_vars(ProcessStep) /\ WF_vars(ReconcilerStep) /\ WF_vars(Recover)

-----------------------------------------------------------------------------
(* Safety                                                                  *)

\* Nothing of a service process outlives it, no tick is under way without the
\* reconciler's goroutine, and no default-deny was ever applied on a machine
\* without a password, whatever was installed, started, killed or removed in
\* between.  (service.go:42-90, 131-138.  README.md:155-156 and 186, Plan.md:162
\* and the comment at install.go:29-30 say that -install applies default-deny;
\* the code does what the note at install.go:77-82 says, and does not.)
IInv ==
  /\ TypeOK
  /\ exec = "none" => loop = "off"
  /\ loop = "off" => ~ctx /\ ~recUp
  /\ recPc # "idle" => recUp /\ passwordSet
  /\ scm \in {"running", "stopPending"} => exec \in {"up", "stopping"}
  /\ marked => exec # "none" /\ scm # "absent"
  /\ policy = "block" => passwordSet

\* After an installation that ran to its end, the reconciler blocks the
\* machine only with the dashboard, the resolver and the remote session let
\* through, up to what netsh refused to add.  (install.go:84-128, 193-211)
HelpersWhileBlocked ==
  exec = "up" /\ cli = "none" /\ extent = "whole" /\ policy = "block"
    => Cardinality(Helper \ helpers) <= MaxFaults - faults

\* What -uninstall restores stays restored when nothing failed on the way: no
\* tick of the service that it stopped comes after it.
\* (install.go:193-216, service.go:61-76, 176-189)
UninstallSticks ==
  extent = "removed" /\ cli = "none" /\ faults = MaxFaults => policy = "allow" /\ ~keys /\ helpers = {}

\* Whatever failed in an uninstallation or before it, once it has come to its
\* end with the entry deleted or marked, no rule is added before another
\* installation has made an entry - an installation that fails half way
\* therefore leaves one, which -uninstall and the flagless start find - and
\* once the process is gone, none begins and nothing is blocked: not by the
\* restart that was due after a crash, nor by a start of a marked entry.
\* (install.go:45-108, 163-211, admin.go:30-63)
RemovedStaysDown ==
  [][extent = "removed" /\ extent' = "removed" =>
       /\ helpers' \subseteq helpers
       /\ exec = "none" => exec' = "none" /\ policy' \in {policy, "allow"}]_vars

-----------------------------------------------------------------------------
(* Liveness                                                                *)

RowAddresses(i) == IF rules[i] = NoRow THEN {} ELSE rules[i].ips

\* A service that is up on a machine with a password ends up enforcing the
\* allowlist, also after crashes, as long as its loop does not fail and
\* nobody takes it away.  (install.go:67-75, reconciler.go:72-86)
Enforces ==
  scm = "running" /\ passwordSet ~>
    \/ policy = "block" /\ \A i \in Id : Permits(i) = RowAddresses(i)
    \/ loop = "failed" \/ cli # "none" \/ extent = "removed"

-----------------------------------------------------------------------------
(* What the code and the documents say                                     *)

\* service.go:79-80: a loop that exited on its own is restarted by "SCM's
\* failure-action policy".
FailureIsRestarted ==
  exec = "left" /\ loop = "failed" ~> exec = "up" \/ cli # "none"

=============================================================================
