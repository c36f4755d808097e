-------------------------- MODULE Lifecycle_proofs --------------------------
(***************************************************************************)
(* Proofs about Lifecycle, for every bound and every kind of fault.        *)
(***************************************************************************)
EXTENDS Lifecycle, MainLoop_proofs

EntryTypeOK == /\ scm \in {"absent", "stopped", "running", "stopPending"}
               /\ marked \in BOOLEAN
               /\ recover \in BOOLEAN
               /\ exec \in {"none", "up", "stopping", "left"}
               /\ cli \in {"none", "loopback", "program", "preserve", "keys", "start",
                           "ensureKeys", "stop", "waitStop", "delete", "policy",
                           "unhelp", "unkeys"}
               /\ helpers \subseteq Helper
               /\ extent \in {"none", "begun", "whole", "removed"}

\* The process and what the SCM says of it belong together.
Paired == /\ exec = "none" <=> loop = "off"
          /\ loop = "off" => ~ctx
          /\ exec \in {"up", "stopping"} <=> scm \in {"running", "stopPending"}
          /\ exec = "left" => scm = "stopped"
          /\ marked => exec # "none"

Sound == Typed /\ EntryTypeOK /\ Gating /\ Paired

-----------------------------------------------------------------------------
(* The steps in groups: what each group leaves alone                       *)

\* The main loop and its goroutines.
Inside == /\ LoopStep \/ RecReturns \/ RecRuns \/ ServerFails \/ Setup
          /\ UNCHANGED <<scmVars, exec, cli, helpers, extent>>

\* The end of the process, with or without a report.
Ending == ProcessExits \/ Crash

\* Execute and the SCM.
Reports == StopArrives \/ StopEnds \/ LoopExited \/ Recover

InstallSteps == InstallBegins \/ InstallHelper \/ InstallKeys \/ InstallStart
StartSteps == EnsureRunning \/ EnsureKeys
UninstallSteps == \/ UninstallBegins \/ UninstallStop \/ UninstallWait \/ UninstallDelete
                  \/ UninstallPolicy \/ UninstallHelpers \/ UninstallKeys

Outside == Reports \/ InstallSteps \/ StartSteps \/ UninstallSteps \/ Interrupted

LEMMA NextSplits == Next => Inside \/ Ending \/ Outside
BY DEF Next, ProcessStep, ReconcilerStep, Command, Inside, Ending, Reports, InstallSteps,
       StartSteps, UninstallSteps, Outside

LEMMA EndingGone ==
  ASSUME Ending
  PROVE  /\ ProcessGone /\ UNCHANGED <<storeVars, fw, policy, keys, cli, helpers, extent>>
         /\ MayFail
         /\ exec # "none" /\ exec' = "none"
         /\ scm' = EntryAfterExit /\ marked' = FALSE /\ (recover' = (recover /\ ~marked) \/ recover' = ~marked)
BY DEF Ending, ProcessExits, Crash, MayFail

\* A command or the SCM changes nothing of a tick, and the policy only to
\* "allow".
LEMMA OutsideKeeps ==
  ASSUME Outside
  PROVE  /\ UNCHANGED <<rules, lastId, passwordSet, fw, call, recPc, want, repairs, sweeps, healthy, recUp>>
         /\ policy' \in {policy, "allow"}
         /\ keys' \in {keys, TRUE, FALSE}
         /\ loop' \in {loop, "starting"}
         /\ ctx' \in {ctx, TRUE}
         /\ MayFail
<1> USE DEF MayFail, machineVars, storeVars, fwVars, recVars, loopVars, ProcessStarts, WriteKeys
<1>1. CASE Reports
  BY <1>1 DEF Reports, StopArrives, StopEnds, LoopExited, Recover
<1>2. CASE InstallSteps
  BY <1>2 DEF InstallSteps, InstallBegins, InstallHelper, InstallKeys, InstallStart
<1>3. CASE StartSteps
  BY <1>3 DEF StartSteps, EnsureRunning, EnsureKeys
<1>4. CASE UninstallSteps
  BY <1>4 DEF UninstallSteps, UninstallBegins, UninstallStop, UninstallWait, UninstallDelete,
              UninstallPolicy, UninstallHelpers, UninstallKeys
<1>5. CASE Interrupted
  BY <1>5 DEF Interrupted
<1> QED
  BY <1>1, <1>2, <1>3, <1>4, <1>5 DEF Outside

-----------------------------------------------------------------------------
(* Types and the gate                                                      *)

LEMMA SoundInit == Init => Sound
<1> SUFFICES ASSUME Init PROVE Sound
  OBVIOUS
<1> USE DEF Init
<1>1. StoreTypeOK
  BY MaxIdAssumption, Row1Assumption DEF StoreTypeOK
<1>2. FwTypeOK
  BY MaxIdAssumption, MaxFaultsAssumption DEF FwTypeOK, NoCall, Call, Name
<1>3. RecTypeOK /\ LoopTypeOK /\ TickNames /\ EntryTypeOK
  BY DEF RecTypeOK, NoWant, LoopInit, LoopTypeOK, TickNames, EntryTypeOK, Helper
<1>4. Gating /\ Paired
  BY DEF Gating, Paired, LoopInit
<1> QED
  BY <1>1, <1>2, <1>3, <1>4 DEF Sound, Typed

LEMMA InsideSound == ASSUME Sound, Inside PROVE Sound'
<1> USE DEF Sound, Inside
<1>1. Typed' /\ Gating'
  BY RecRunsTyped, LoopTyped, RecRunsGating, LoopGating
<1>2. UNCHANGED <<scm, marked, recover, exec, cli, helpers, extent>>
  BY DEF scmVars
<1>3. ctx' = ctx /\ (loop' = "off" <=> loop = "off")
  BY DEF LoopStep, LoopStarts, Shutdown, LoopEnds, RecReturns, RecRuns, ServerFails, Setup, loopVars
<1> QED
  BY <1>1, <1>2, <1>3 DEF EntryTypeOK, Paired

LEMMA EndingSound == ASSUME Sound, Ending PROVE Sound'
<1> USE DEF Sound
<1>1. /\ UNCHANGED <<cli, helpers, extent>>
      /\ exec # "none" /\ exec' = "none"
      /\ scm' = EntryAfterExit /\ marked' = FALSE /\ (recover' = (recover /\ ~marked) \/ recover' = ~marked)
  BY EndingGone
<1>2. Typed' /\ Gating'
  BY EndingGone, ProcessGoneTyped, ProcessGoneGating
<1>3. loop' = "off" /\ ctx' = FALSE
  BY EndingGone DEF ProcessGone
<1> QED
  BY <1>1, <1>2, <1>3 DEF EntryTypeOK, EntryAfterExit, Paired

LEMMA ReportsEntry == ASSUME Sound, Reports PROVE EntryTypeOK' /\ Paired'
<1> USE DEF Sound, EntryTypeOK, Paired, scmVars, loopVars
<1>1. CASE StopArrives
  BY <1>1 DEF StopArrives
<1>2. CASE StopEnds
  BY <1>2 DEF StopEnds
<1>3. CASE LoopExited
  BY <1>3 DEF LoopExited
<1>4. CASE Recover /\ scm = "stopped" /\ exec = "none"
  BY <1>4 DEF Recover, ProcessStarts
<1>5. CASE Recover /\ ~(scm = "stopped" /\ exec = "none")
  BY <1>5 DEF Recover
<1> QED
  BY <1>1, <1>2, <1>3, <1>4, <1>5 DEF Reports

\* Installing, and starting what is installed.
LEMMA InstallEntry ==
  ASSUME Sound, InstallSteps \/ StartSteps
  PROVE  EntryTypeOK' /\ Paired'
<1> USE DEF Sound
<1>1. ASSUME UNCHANGED <<loop, ctx, scm, marked, recover, exec>>, EntryTypeOK'
      PROVE  Paired'
  BY <1>1 DEF Paired
<1>2. CASE InstallBegins
  BY <1>2 DEF InstallBegins, EntryTypeOK, Paired, loopVars
<1>3. CASE InstallHelper
  <2>1. UNCHANGED <<loop, ctx, scm, marked, recover, exec, extent>>
    BY <1>3 DEF InstallHelper, loopVars, scmVars
  <2>2. cli' \in {"program", "preserve", "keys", "none"}
    BY <1>3 DEF InstallHelper, After, Helper
  <2>3. helpers' \subseteq Helper
    BY <1>3 DEF InstallHelper, EntryTypeOK
  <2>4. EntryTypeOK'
    BY <2>1, <2>2, <2>3 DEF EntryTypeOK
  <2> QED
    BY <1>1, <2>1, <2>4
<1>4. CASE InstallKeys \/ EnsureKeys
  <2>1. UNCHANGED <<loop, ctx, scm, marked, recover, exec, helpers, extent>>
    BY <1>4 DEF InstallKeys, EnsureKeys, loopVars, scmVars
  <2>2. cli' \in {"start", "none"}
    BY <1>4 DEF InstallKeys, EnsureKeys
  <2>3. EntryTypeOK'
    BY <2>1, <2>2 DEF EntryTypeOK
  <2> QED
    BY <1>1, <2>1, <2>3
<1>5. CASE InstallStart \/ EnsureRunning
  <2>1. /\ UNCHANGED <<marked, recover, helpers>>
        /\ cli' \in {"none", "ensureKeys"}
        /\ extent' \in {"whole", extent}
        /\ ProcessStarts \/ UNCHANGED <<scm, exec, loop, ctx>>
    BY <1>5 DEF InstallStart, EnsureRunning, loopVars, EntryTypeOK
  <2>2. CASE UNCHANGED <<scm, exec, loop, ctx>>
    BY <2>1, <2>2 DEF EntryTypeOK, Paired
  <2>3. CASE ProcessStarts
    <3>1. scm' = "running" /\ exec' = "up" /\ loop' = "starting" /\ ctx' = ctx
      BY <2>3 DEF ProcessStarts
    <3> QED
      BY <2>1, <3>1 DEF EntryTypeOK, Paired
  <2> QED
    BY <2>1, <2>2, <2>3
<1> QED
  BY <1>2, <1>3, <1>4, <1>5 DEF InstallSteps, StartSteps

LEMMA UninstallEntry == ASSUME Sound, UninstallSteps PROVE EntryTypeOK' /\ Paired'
<1> USE DEF Sound
<1>1. CASE UninstallBegins \/ UninstallPolicy \/ UninstallHelpers \/ UninstallKeys
  <2>1. UNCHANGED <<loop, ctx, scm, marked, recover, exec>>
    BY <1>1 DEF UninstallBegins, UninstallPolicy, UninstallHelpers, UninstallKeys, loopVars, scmVars
  <2>2. /\ cli' \in {"policy", "stop", "unhelp", "unkeys", "none"}
        /\ extent' \in {"none", "begun", "removed", extent}
        /\ helpers' \subseteq helpers
    BY <1>1 DEF UninstallBegins, UninstallPolicy, UninstallHelpers, UninstallKeys
  <2> QED
    BY <2>1, <2>2 DEF EntryTypeOK, Paired
<1>2. CASE UninstallStop
  BY <1>2 DEF UninstallStop, EntryTypeOK, Paired, loopVars
<1>3. CASE UninstallWait
  BY <1>3 DEF UninstallWait, EntryTypeOK, Paired, loopVars, scmVars
<1>4. CASE UninstallDelete
  <2>1. /\ UNCHANGED <<loop, ctx, exec, helpers, extent>> /\ cli' = "policy"
        /\ \/ exec = "none" /\ scm' = "absent" /\ recover' = FALSE /\ marked' = marked
           \/ exec # "none" /\ marked' = TRUE /\ UNCHANGED <<scm, recover>>
           \/ UNCHANGED <<scm, marked, recover>>
    BY <1>4 DEF UninstallDelete, loopVars, scmVars
  <2>2. CASE exec = "none" /\ scm' = "absent" /\ recover' = FALSE /\ marked' = marked
    BY <2>1, <2>2 DEF EntryTypeOK, Paired
  <2>3. CASE exec # "none" /\ marked' = TRUE /\ UNCHANGED <<scm, recover>>
    BY <2>1, <2>3 DEF EntryTypeOK, Paired
  <2>4. CASE UNCHANGED <<scm, marked, recover>>
    BY <2>1, <2>4 DEF EntryTypeOK, Paired
  <2> QED
    BY <2>1, <2>2, <2>3, <2>4
<1> QED
  BY <1>1, <1>2, <1>3, <1>4 DEF UninstallSteps

LEMMA OutsideEntry == ASSUME Sound, Outside PROVE EntryTypeOK' /\ Paired'
<1>1. CASE Interrupted
  BY <1>1 DEF Interrupted, Sound, EntryTypeOK, Paired, loopVars, scmVars
<1> QED
  BY <1>1, ReportsEntry, InstallEntry, UninstallEntry DEF Outside

LEMMA OutsideSound == ASSUME Sound, Outside PROVE Sound'
<1> USE DEF Sound
<1>1. EntryTypeOK' /\ Paired'
  BY OutsideEntry
<1>2. faults' \in 0 .. MaxFaults
  BY OutsideKeeps, FaultsFall DEF Typed, FwTypeOK
<1>3. StoreTypeOK' /\ RecTypeOK' /\ TickNames'
  BY OutsideKeeps DEF Typed, StoreTypeOK, RecTypeOK, TickNames
<1>4. FwTypeOK' /\ LoopTypeOK'
  BY <1>2, OutsideKeeps DEF Typed, FwTypeOK, LoopTypeOK
<1>5. Gating'
  BY OutsideKeeps DEF Gating
<1> QED
  BY <1>1, <1>3, <1>4, <1>5 DEF Typed

LEMMA SoundStep == Sound /\ [Next]_vars => Sound'
<1> SUFFICES ASSUME Sound, [Next]_vars PROVE Sound'
  OBVIOUS
<1>1. CASE Next
  BY <1>1, NextSplits, InsideSound, EndingSound, OutsideSound
<1>2. CASE UNCHANGED vars
  <2>1. UNCHANGED <<rules, lastId, passwordSet, fw, policy, call, faults,
                    recPc, want, repairs, sweeps, keys, healthy, loop, ctx, recUp,
                    scm, marked, recover, exec, cli, helpers, extent>>
    BY <1>2 DEF vars, machineVars, storeVars, fwVars, recVars, loopVars, scmVars
  <2> QED
    BY <2>1 DEF Sound, Typed, StoreTypeOK, FwTypeOK, RecTypeOK, LoopTypeOK, TickNames, EntryTypeOK,
                Gating, Paired
<1> QED
  BY <1>1, <1>2

LEMMA SoundInv == Spec => []Sound
BY SoundInit, SoundStep, PTL DEF Spec

\* Nothing of a service process outlives it, no tick is under way without the
\* reconciler's goroutine, and default-deny is never applied without a
\* password.  (service.go:42-90, 131-138)
THEOREM Invariance == Spec => []IInv
<1>1. Sound => IInv
  BY DEF Sound, Typed, EntryTypeOK, Gating, Paired, IInv, TypeOK
<1> QED
  BY <1>1, SoundInv, PTL

\* No step meets more than one disturbance.
LEMMA NextFaults == ASSUME Sound, [Next]_vars PROVE MayFail
<1>1. CASE Inside
  BY <1>1, RecRunsFaults, LoopFaults DEF Inside
<1>2. CASE Ending
  BY <1>2, EndingGone
<1>3. CASE Outside
  BY <1>3, OutsideKeeps
<1>4. CASE UNCHANGED vars
  BY <1>4 DEF vars, machineVars, fwVars, MayFail
<1> QED
  BY <1>1, <1>2, <1>3, <1>4, NextSplits

-----------------------------------------------------------------------------
(* The helper rules                                                        *)

\* HelpersWhileBlocked is not inductive: a machine may be blocked when the
\* installation begins, so the rules have to be there before it is whole.
Prepared ==
  /\ cli = "program" => "loopback" \in helpers
  /\ cli = "preserve" => {"loopback", "program"} \subseteq helpers
  /\ cli \in {"keys", "start"} \/ extent = "whole" => Cardinality(Helper \ helpers) <= MaxFaults - faults
  /\ extent = "whole" => cli \in {"none", "ensureKeys"}

LEMMA HelpersCount == \A S \in SUBSET Helper : Cardinality(S) \in Nat
<1>1. Helper = {"loopback"} \cup {"program"} \cup {"preserve"}
  BY DEF Helper
<1>2. IsFiniteSet(Helper)
  BY <1>1, FS_Singleton, FS_Union
<1> QED
  BY <1>2, FS_Subset, FS_CardinalityType

\* A disturbance only adds to what may be missing.
LEMMA CountKept ==
  ASSUME Sound, MayFail, UNCHANGED helpers, Cardinality(Helper \ helpers) <= MaxFaults - faults
  PROVE  Cardinality(Helper \ helpers') <= MaxFaults - faults'
<1>1. /\ faults \in Nat /\ faults' \in Nat /\ faults' <= faults
      /\ Cardinality(Helper \ helpers) \in Nat
  BY FaultsFall, HelpersCount DEF Sound, Typed, FwTypeOK
<1> QED
  BY <1>1, MaxFaultsAssumption

LEMMA InstallHelperPrepares == ASSUME Sound, Prepared, InstallHelper PROVE Prepared'
<1>1. faults \in 0 .. MaxFaults /\ extent' = extent /\ extent # "whole" /\ helpers \subseteq Helper
  BY DEF Sound, Typed, FwTypeOK, EntryTypeOK, InstallHelper, Prepared, Helper
<1>2. faults' \in 0 .. MaxFaults
  BY <1>1, FaultTakes DEF InstallHelper
<1>3. CASE cli = "loopback"
  BY <1>1, <1>3 DEF InstallHelper, After, Prepared
<1>4. CASE cli = "program"
  BY <1>1, <1>4 DEF InstallHelper, After, Prepared
<1>5. CASE cli = "preserve"
  <2>1. cli' = "keys" /\ {"loopback", "program"} \subseteq helpers
    BY <1>5 DEF InstallHelper, After, Prepared
  <2>2. CASE helpers' = helpers \cup {cli}
    <3>1. Cardinality(Helper \ helpers') = 0
      BY <1>5, <2>1, <2>2, FewOrNone DEF Helper
    <3>2. Cardinality(Helper \ helpers') <= MaxFaults - faults'
      BY <1>2, <3>1, NoneMissing, MaxFaultsAssumption
    <3> QED
      BY <1>1, <2>1, <3>2 DEF Prepared
  <2>3. CASE Fault("netsh") /\ helpers' = helpers \ {cli}
    <3>1. Helper \ helpers' = {"preserve"}
      BY <1>1, <1>5, <2>1, <2>3 DEF Helper
    <3>2. Cardinality(Helper \ helpers') = 1
      BY <3>1, FewOrNone
    <3>3. faults' = faults - 1
      BY <2>3 DEF Fault
    <3> QED
      BY <1>1, <2>1, <3>2, <3>3, MaxFaultsAssumption DEF Prepared
  <2> QED
    BY <2>2, <2>3 DEF InstallHelper
<1> QED
  BY <1>3, <1>4, <1>5 DEF InstallHelper, Helper

LEMMA PreparedStep == Sound /\ Prepared /\ [Next]_vars => Prepared'
<1> SUFFICES ASSUME Sound, Prepared, [Next]_vars PROVE Prepared'
  OBVIOUS
<1>1. ASSUME UNCHANGED helpers, Cardinality(Helper \ helpers) <= MaxFaults - faults
      PROVE  Cardinality(Helper \ helpers') <= MaxFaults - faults'
  BY <1>1, NextFaults, CountKept
<1>2. ASSUME UNCHANGED <<helpers, extent>>, cli' \in {cli, "none", "ensureKeys"}
      PROVE  Prepared'
  BY <1>1, <1>2 DEF Prepared
<1>3. CASE Inside \/ UNCHANGED vars \/ Ending
  <2>1. UNCHANGED <<cli, helpers, extent>>
    BY <1>3, EndingGone DEF Inside, vars
  <2> QED
    BY <1>2, <2>1
<1>4. CASE Reports \/ StartSteps \/ Interrupted
  BY <1>2, <1>4 DEF Reports, StopArrives, StopEnds, LoopExited, Recover, StartSteps, EnsureRunning,
                    EnsureKeys, Interrupted
<1>5. CASE InstallBegins \/ UninstallBegins
  BY <1>5 DEF InstallBegins, UninstallBegins, Prepared
<1>6. CASE InstallHelper
  BY <1>6, InstallHelperPrepares
<1>7. CASE InstallKeys \/ InstallStart
  <2>1. /\ helpers' = helpers
        /\ \/ cli = "keys" /\ cli' = "start" /\ extent' = extent
           \/ cli = "start" /\ cli' = "none"
    BY <1>7 DEF InstallKeys, InstallStart
  <2> QED
    BY <1>1, <2>1 DEF Prepared
<1>8. CASE UninstallSteps /\ ~UninstallBegins
  <2>1. /\ cli \in {"stop", "waitStop", "delete", "policy", "unhelp", "unkeys"}
        /\ cli' \in {"waitStop", "delete", "policy", "unhelp", "unkeys", "none"}
        /\ extent' \in {extent, "begun", "removed"}
    BY <1>8 DEF UninstallSteps, UninstallStop, UninstallWait, UninstallDelete, UninstallPolicy,
                UninstallHelpers, UninstallKeys
  <2> QED
    BY <2>1 DEF Prepared
<1> QED
  BY <1>3, <1>4, <1>5, <1>6, <1>7, <1>8, NextSplits DEF Outside, InstallSteps

\* A machine blocked by an installation that ran to its end lets the
\* dashboard, the resolver and the remote session through, up to the rules
\* that netsh refused, whatever the service and the SCM did since.
\* (install.go:84-128, 193-211)
THEOREM HelpersWhileBlockedHolds == Spec => []HelpersWhileBlocked
<1>1. Init => Prepared
  BY DEF Init, Prepared
<1>2. Prepared => HelpersWhileBlocked
  BY DEF Prepared, HelpersWhileBlocked
<1> QED
  BY <1>1, <1>2, PreparedStep, SoundInv, PTL DEF Spec

-----------------------------------------------------------------------------
(* What -uninstall restores                                                *)

\* The process of a service that nothing disturbed: it ends when it is asked
\* to, with its goroutines, and the SCM has nothing to repeat.
Orderly ==
  /\ loop # "failed" /\ ~recover
  /\ loop = "done" => ~recUp
  /\ exec = "left" => loop = "done"
  /\ exec = "stopping" => scm = "stopPending"
  /\ scm = "stopPending" => cli = "waitStop"
  /\ cli = "waitStop" => scm # "running"

Removing == {"delete", "policy", "unhelp", "unkeys"}

\* UninstallSticks is not inductive: the order of the uninstallation has to be
\* known.  The process goes first, then what could start another, then what
\* the process would have restored.
Undone ==
  /\ cli \in Removing \/ extent = "removed" => exec \in {"none", "left"}
  /\ cli \in Removing \ {"delete"} \/ extent = "removed" => scm = "absent" \/ marked
  /\ cli \in {"unhelp", "unkeys"} \/ extent = "removed" => policy = "allow"
  /\ cli = "unkeys" \/ extent = "removed" => helpers = {}
  /\ extent = "removed" => ~keys /\ cli = "none"

Undisturbed == faults = MaxFaults => Orderly /\ Undone

\* A process that has left does nothing any more.
LEMMA InsideUndisturbed ==
  ASSUME Sound, Orderly, Undone, Inside, \A k : ~Fault(k)
  PROVE  (Orderly /\ Undone)'
<1>1. UNCHANGED <<scm, marked, recover, exec, cli, helpers, extent>>
  BY DEF Inside, scmVars
<1>2. recUp \/ loop \in {"starting", "serving", "draining"}
  BY DEF Inside, LoopStep, LoopStarts, Shutdown, LoopEnds, RecReturns, RecRuns, ServerFails, Setup
<1>3. exec \notin {"none", "left"}
  BY <1>2 DEF Orderly, Sound, Paired, Gating
<1>4. loop' # "failed" /\ (loop' = "done" => ~recUp')
  BY DEF Inside, LoopStep, LoopStarts, Shutdown, LoopEnds, RecReturns, RecRuns, ServerFails, Setup,
         loopVars, recVars, Orderly
<1> QED
  BY <1>1, <1>3, <1>4 DEF Orderly, Undone, Removing

LEMMA EndingUndisturbed ==
  ASSUME Sound, Orderly, Undone, Ending, \A k : ~Fault(k)
  PROVE  (Orderly /\ Undone)'
<1>1. ProcessExits
  BY DEF Ending, Crash
<1>2. /\ exec = "left" /\ exec' = "none"
      /\ loop' = "off"
      /\ scm' = (IF marked THEN "absent" ELSE "stopped")
      /\ UNCHANGED <<policy, keys, cli, helpers, extent>>
      /\ recover' => recover
  BY <1>1 DEF ProcessExits, ProcessGone, EntryAfterExit
<1>3. scm = "stopped"
  BY <1>2 DEF Sound, Paired
<1> QED
  BY <1>2, <1>3 DEF Orderly, Undone, Removing

\* Stopping: nothing is restored yet, and no restart is due.
LEMMA ReportsUndisturbed ==
  ASSUME Sound, Orderly, Undone, Reports, \A k : ~Fault(k)
  PROVE  (Orderly /\ Undone)'
<1>1. StopArrives \/ StopEnds \/ LoopExited
  BY DEF Reports, Recover, Orderly
<1>2. /\ exec \in {"up", "stopping"}
      /\ UNCHANGED <<policy, keys, loop, recUp, marked, recover, cli, helpers, extent>>
      /\ \/ exec' = "stopping" /\ scm = "stopPending" /\ scm' = scm
         \/ exec' = "left" /\ scm' = "stopped" /\ loop = "done"
  BY <1>1 DEF StopArrives, StopEnds, LoopExited, Orderly, machineVars, fwVars, recVars, loopVars, scmVars
<1> QED
  BY <1>2 DEF Orderly, Undone

LEMMA InstallUndisturbed ==
  ASSUME Sound, Orderly, Undone, InstallSteps \/ StartSteps, \A k : ~Fault(k)
  PROVE  (Orderly /\ Undone)'
<1>1. /\ UNCHANGED <<marked, recover, recUp>>
      /\ cli \notin Removing /\ cli # "waitStop"
      /\ cli' \notin Removing /\ cli' # "waitStop"
  BY DEF InstallSteps, StartSteps, InstallBegins, InstallHelper, InstallKeys, InstallStart, EnsureRunning,
         EnsureKeys, After, Helper, Removing, machineVars, recVars, loopVars, scmVars, ProcessStarts
<1>2. extent' # "removed"
  <2>1. CASE extent = "removed"
    <3>1. InstallBegins \/ EnsureRunning
      BY <2>1 DEF InstallSteps, StartSteps, InstallHelper, InstallKeys, InstallStart, EnsureKeys, Undone,
                  Helper
    <3>2. CASE EnsureRunning
      BY <2>1, <3>2 DEF EnsureRunning, Undone, Sound, Paired
    <3> QED
      BY <3>1, <3>2 DEF InstallBegins
  <2>2. CASE extent # "removed"
    BY <2>2 DEF InstallSteps, StartSteps, InstallBegins, InstallHelper, InstallKeys, InstallStart,
                EnsureRunning, EnsureKeys
  <2> QED
    BY <2>1, <2>2
<1>3. CASE ProcessStarts
  BY <1>1, <1>2, <1>3 DEF ProcessStarts, Orderly, Undone, Removing
<1>4. CASE UNCHANGED <<scm, exec, loop>>
  BY <1>1, <1>2, <1>4 DEF Orderly, Undone, Removing
<1>5. CASE InstallBegins
  BY <1>1, <1>2, <1>5 DEF InstallBegins, Orderly, Undone, Removing, loopVars
<1> QED
  BY <1>3, <1>4, <1>5 DEF InstallSteps, StartSteps, InstallHelper, InstallKeys, InstallStart, EnsureRunning,
                          EnsureKeys, scmVars, loopVars

\* One command of the uninstallation after the other.
LEMMA UninstallUndisturbed ==
  ASSUME Sound, Orderly, Undone, UninstallSteps, \A k : ~Fault(k)
  PROVE  (Orderly /\ Undone)'
<1>1. UNCHANGED <<exec, loop, recUp>> /\ ~recover'
  BY DEF UninstallSteps, UninstallBegins, UninstallStop, UninstallWait, UninstallDelete, UninstallPolicy,
         UninstallHelpers, UninstallKeys, loopVars, scmVars, Orderly
<1>2. CASE UninstallBegins
  <2>1. /\ cli = "none" /\ extent' # "removed"
        /\ cli' = (IF scm = "absent" THEN "policy" ELSE "stop")
        /\ UNCHANGED <<scm, marked>>
    BY <1>2 DEF UninstallBegins, scmVars
  <2>2. scm = "absent" => exec = "none"
    BY DEF Sound, Paired, EntryTypeOK
  <2> QED
    BY <1>1, <2>1, <2>2 DEF Orderly, Undone, Removing
<1>3. CASE UninstallStop
  <2>1. /\ cli = "stop" /\ UNCHANGED <<marked, extent>>
        /\ IF scm = "running" THEN scm' = "stopPending" /\ cli' = "waitStop"
                              ELSE cli' = "delete" /\ scm' = scm
    BY <1>3 DEF UninstallStop
  <2>2. scm \notin {"running", "stopPending"} => exec \in {"none", "left"}
    BY DEF Sound, Paired, EntryTypeOK
  <2> QED
    BY <1>1, <2>1, <2>2 DEF Orderly, Undone, Removing
<1>4. CASE UninstallWait
  <2>1. /\ cli = "waitStop" /\ cli' = "delete" /\ scm # "stopPending"
        /\ UNCHANGED <<scm, marked, extent>>
    BY <1>4 DEF UninstallWait, scmVars
  <2>2. scm \notin {"running", "stopPending"} => exec \in {"none", "left"}
    BY DEF Sound, Paired, EntryTypeOK
  <2> QED
    BY <1>1, <2>1, <2>2 DEF Orderly, Undone, Removing
<1>5. CASE UninstallDelete
  BY <1>1, <1>5 DEF UninstallDelete, Orderly, Undone, Removing
<1>6. CASE UninstallPolicy
  BY <1>1, <1>6 DEF UninstallPolicy, Orderly, Undone, Removing, scmVars
<1>7. CASE UninstallHelpers
  BY <1>1, <1>7 DEF UninstallHelpers, Orderly, Undone, Removing, scmVars
<1>8. CASE UninstallKeys
  BY <1>1, <1>8 DEF UninstallKeys, Orderly, Undone, Removing, scmVars
<1> QED
  BY <1>2, <1>3, <1>4, <1>5, <1>6, <1>7, <1>8 DEF UninstallSteps

LEMMA UndisturbedStep == Sound /\ Undisturbed /\ [Next]_vars => Undisturbed'
<1> SUFFICES ASSUME Sound, Undisturbed, [Next]_vars, faults' = MaxFaults
             PROVE  (Orderly /\ Undone)'
  BY DEF Undisturbed
<1>1. Orderly /\ Undone /\ \A k : ~Fault(k)
  BY NextFaults, FaultsFall DEF Undisturbed, Sound, Typed, FwTypeOK
<1>2. ~Interrupted
  BY <1>1 DEF Interrupted
<1>3. CASE UNCHANGED vars
  BY <1>1, <1>3 DEF vars, machineVars, fwVars, recVars, loopVars, scmVars, Orderly, Undone
<1> QED
  BY <1>1, <1>2, <1>3, NextSplits, InsideUndisturbed, EndingUndisturbed, ReportsUndisturbed,
     InstallUndisturbed, UninstallUndisturbed DEF Outside

\* What -uninstall restores stays restored when nothing failed on the way: no
\* tick of the service it stopped, and no process the SCM starts, comes after
\* it.  (install.go:193-216, service.go:61-76, 176-189)
THEOREM UninstallSticksHolds == Spec => []UninstallSticks
<1>1. Init => Undisturbed
  BY DEF Init, LoopInit, Undisturbed, Orderly, Undone, Removing
<1>2. Undisturbed => UninstallSticks
  BY DEF Undisturbed, Undone, UninstallSticks
<1> QED
  BY <1>1, <1>2, UndisturbedStep, SoundInv, PTL DEF Spec

-----------------------------------------------------------------------------
(* What stays removed after any failure                                    *)

\* Once UninstallKeys has found the entry deleted, only an installation makes
\* another, and a marked entry goes with its process.
Dismantled == extent = "removed" => /\ scm = "absent" \/ marked
                                    /\ cli \in {"none", "ensureKeys"}

LEMMA DismantledStep == Sound /\ Dismantled /\ [Next]_vars => Dismantled'
<1> SUFFICES ASSUME Sound, Dismantled, [Next]_vars, extent' = "removed"
             PROVE  /\ scm' = "absent" \/ marked'
                    /\ cli' \in {"none", "ensureKeys"}
  BY DEF Dismantled
<1>1. CASE Inside \/ UNCHANGED vars
  BY <1>1 DEF Inside, vars, scmVars, Dismantled
<1>2. CASE Ending
  BY <1>2, EndingGone DEF EntryAfterExit, Dismantled, Sound, Paired, EntryTypeOK
<1>3. CASE Reports
  BY <1>3 DEF Reports, StopArrives, StopEnds, LoopExited, Recover, ProcessStarts, Dismantled, Sound, Paired,
              scmVars
<1>4. CASE InstallSteps
  BY <1>4 DEF InstallSteps, InstallBegins, InstallHelper, InstallKeys, InstallStart, Helper, Dismantled
<1>5. CASE StartSteps
  BY <1>5 DEF StartSteps, EnsureRunning, EnsureKeys, ProcessStarts, Dismantled, Sound, Paired, scmVars
<1>6. CASE UninstallSteps /\ ~UninstallKeys
  BY <1>6 DEF UninstallSteps, UninstallBegins, UninstallStop, UninstallWait, UninstallDelete, UninstallPolicy,
              UninstallHelpers, Dismantled
<1>7. CASE UninstallKeys
  BY <1>7 DEF UninstallKeys, scmVars
<1>8. CASE Interrupted
  BY <1>8 DEF Interrupted, scmVars, Dismantled
<1> QED
  BY <1>1, <1>2, <1>3, <1>4, <1>5, <1>6, <1>7, <1>8, NextSplits DEF Outside

\* No command adds a helper rule before it has an entry to go with it.
LEMMA HelpersStay ==
  ASSUME Dismantled, Next, extent = "removed"
  PROVE  helpers' \subseteq helpers
<1>1. cli \in {"none", "ensureKeys"}
  BY DEF Dismantled
<1>2. CASE Inside
  BY <1>2 DEF Inside
<1>3. CASE Ending
  BY <1>3 DEF Ending, ProcessExits, Crash
<1>4. CASE Outside
  BY <1>1, <1>4 DEF Outside, Reports, StopArrives, StopEnds, LoopExited, Recover, InstallSteps, InstallBegins,
                    InstallHelper, InstallKeys, InstallStart, Helper, StartSteps, EnsureRunning, EnsureKeys,
                    UninstallSteps, UninstallBegins, UninstallStop, UninstallWait, UninstallDelete,
                    UninstallPolicy, UninstallHelpers, UninstallKeys, Interrupted
<1> QED
  BY <1>2, <1>3, <1>4, NextSplits

\* Without a process and an entry nothing starts and nothing is blocked.
LEMMA StaysDown ==
  ASSUME Sound, Dismantled, Next, extent = "removed", extent' = "removed", exec = "none"
  PROVE  exec' = "none" /\ policy' \in {policy, "allow"}
<1>1. scm = "absent" /\ loop = "off" /\ ~recUp /\ cli \in {"none", "ensureKeys"}
  BY DEF Dismantled, Sound, Paired, Gating
<1>2. ~Inside /\ ~Ending
  BY <1>1, EndingGone DEF Inside, LoopStep, LoopStarts, Shutdown, LoopEnds, RecReturns, RecRuns, ServerFails, Setup
<1>3. Outside
  BY <1>2, NextSplits
<1>4. exec' = "none"
  BY <1>1, <1>3 DEF Outside, Reports, StopArrives, StopEnds, LoopExited, Recover, InstallSteps, InstallBegins,
                    InstallHelper, InstallKeys, InstallStart, Helper, StartSteps, EnsureRunning, EnsureKeys,
                    UninstallSteps, UninstallBegins, UninstallStop, UninstallWait, UninstallDelete,
                    UninstallPolicy, UninstallHelpers, UninstallKeys, Interrupted
<1> QED
  BY <1>3, <1>4, OutsideKeeps

\* After an uninstallation that came to its end, with whatever failures, no
\* rule is added until there is an entry again, and once its process is gone no
\* other begins and nothing is blocked.  (install.go:45-108, 163-211)
THEOREM RemovedStaysDownHolds == Spec => RemovedStaysDown
<1>1. Init => Dismantled
  BY DEF Init, Dismantled
<1>2. Sound /\ Dismantled /\ [Next]_vars
        => [extent = "removed" /\ extent' = "removed" =>
              /\ helpers' \subseteq helpers
              /\ exec = "none" => exec' = "none" /\ policy' \in {policy, "allow"}]_vars
  BY StaysDown, HelpersStay
<1> QED
  BY <1>1, <1>2, DismantledStep, SoundInv, PTL DEF Spec, RemovedStaysDown

=============================================================================
