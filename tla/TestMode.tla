------------------------------ MODULE TestMode ------------------------------
(***************************************************************************)
(* skfilter -test: RunTest in the main goroutine, next to the main loop    *)
(* that it starts with an armed reconciler.                                *)
(*                                                                         *)
(* RunTest applies default-deny itself once a password is set and reverts  *)
(* it when it returns; the reconciler applies it too, on its own clock,    *)
(* and RunTest does not wait for it.  Nor does it wait for the tailer of   *)
(* the firewall log that it turns on meanwhile.                            *)
(***************************************************************************)
EXTENDS MainLoop, LogTail

VARIABLES main,       \* where RunTest is
          applied,    \* policyApplied
          signalled,  \* Ctrl-C: the parent context is cancelled
          helpers     \* the helper rules that are in the firewall

sessionVars == <<main, applied, signalled, helpers>>
vars == <<storeVars, fwVars, recVars, loopVars, sessionVars, logVars>>

Helper == {"loopback", "program", "preserve"}

TypeOK == /\ StoreTypeOK /\ FwTypeOK /\ RecTypeOK /\ LoopTypeOK /\ LogTypeOK
          /\ main \in {"helpers", "open", "wait", "apply", "log", "running",
                       "revert", "unhelp", "unlog", "exit", "exited"}
          /\ applied \in BOOLEAN
          /\ signalled \in BOOLEAN
          /\ helpers \subseteq Helper

\* A machine without the service; the database may be there already, with a
\* password in it.  Rows do not matter here: an instance has none.
Init == /\ rules = [i \in Id |-> NoRow] /\ lastId = 0
        /\ passwordSet \in BOOLEAN
        /\ fw = {} /\ policy = "allow"
        /\ call = [t \in Thread |-> NoCall]
        /\ faults = MaxFaults
        /\ recPc = "idle" /\ want = NoWant /\ repairs = {} /\ sweeps = {}
        /\ keys = FALSE /\ healthy = TRUE
        /\ LoopInit
        /\ main = "helpers" /\ applied = FALSE /\ signalled = FALSE
        /\ helpers = {}
        /\ LogInit

-----------------------------------------------------------------------------
(* RunTest                                                                 *)

\* Loopback, self-program and preserve rules; a failure is a warning.
AddHelpers ==
  /\ main = "helpers"
  /\ main' = "open"
  /\ \/ helpers' = Helper /\ UNCHANGED faults
     \/ Fault("netsh") /\ \E h \in Helper : helpers' = Helper \ {h}
  /\ UNCHANGED <<storeVars, fw, policy, call, recVars, loopVars, applied, signalled, logVars>>

\* RunTest's own handle on the store, then `go runMainLoop`.
OpenAndSpawn ==
  /\ main = "open"
  /\ \/ main' = "wait" /\ loop' = "starting" /\ UNCHANGED <<faults, ctx, recUp>>
     \/ Fault("start") /\ main' = "revert" /\ UNCHANGED loopVars
  /\ UNCHANGED <<storeVars, fw, policy, call, recVars, applied, signalled, helpers, logVars>>

\* The deferred cancel of every return after the loop was started.
ReturnTo(pc) == main' = pc /\ ctx' = TRUE /\ UNCHANGED <<loop, recUp>>

\* Mutant: the wait ends with the password only, and polls for it for ever.
WaitForPassword_IgnoresCtrlC ==
  /\ main = "wait"
  /\ main' = IF passwordSet THEN "apply" ELSE "wait"
  /\ UNCHANGED <<storeVars, fwVars, recVars, loopVars, applied, signalled, helpers, logVars>>

\* waitForPasswordSet: Ctrl-C or the password, whichever the select sees.
WaitForPassword ==
  /\ main = "wait"
  /\ \/ signalled /\ ReturnTo("revert")
     \/ passwordSet /\ main' = "apply" /\ UNCHANGED loopVars
  /\ UNCHANGED <<storeVars, fwVars, recVars, applied, signalled, helpers, logVars>>

ApplyDefaultDeny ==
  /\ main = "apply"
  /\ \/ /\ policy' = "block" /\ applied' = TRUE /\ main' = "log"
        /\ UNCHANGED <<faults, loopVars>>
     \/ /\ Fault("netsh") /\ policy' \in {policy, "block"}
        /\ ReturnTo("revert") /\ UNCHANGED applied
  /\ UNCHANGED <<storeVars, fw, call, recVars, signalled, helpers, logVars>>

\* enableFirewallLogging, best effort, then `go tailFirewallLog`.
EnableLogging ==
  /\ main = "log"
  /\ main' = "running"
  /\ \/ logging' = Decision /\ UNCHANGED faults
     \/ Fault("netsh") /\ \E d \in Decision : logging' \in {Decision, Decision \ {d}}
  /\ tail' = "opening"
  /\ UNCHANGED <<storeVars, fw, policy, call, recVars, loopVars, applied, signalled, helpers,
                 file, lines, pos, from, shown>>

\* Ctrl-C, the five minutes, or the end of the loop.
Leave ==
  /\ main = "running"
  /\ ReturnTo("revert")
  /\ UNCHANGED <<storeVars, fwVars, recVars, applied, signalled, helpers, logVars>>

-----------------------------------------------------------------------------
(* cleanup, the deferred function that was registered first                *)

\* Mutant: the helper rules are deleted before the policy is reverted.
RevertPolicy_HelpersFirst ==
  /\ main = "revert"
  /\ IF helpers \subseteq {"preserve"}
     THEN main' = "unhelp" /\ policy' = (IF applied THEN "allow" ELSE policy) /\ UNCHANGED helpers
     ELSE helpers' = helpers \cap {"preserve"} /\ UNCHANGED <<main, policy>>
  /\ UNCHANGED <<storeVars, fw, call, faults, recVars, loopVars, applied, signalled, logVars>>

RevertPolicy ==
  /\ main = "revert"
  /\ main' = "unhelp"
  /\ \/ /\ policy' = IF applied THEN "allow" ELSE policy
        /\ UNCHANGED faults
     \/ applied /\ Fault("netsh") /\ policy' \in {policy, "allow"}
  /\ UNCHANGED <<storeVars, fw, call, recVars, loopVars, applied, signalled, helpers, logVars>>

DeleteHelpers ==
  /\ main = "unhelp"
  /\ main' = "unlog"
  /\ \/ helpers' = helpers \ {"loopback", "program"} /\ UNCHANGED faults
     \/ Fault("netsh") /\ \E h \in helpers : helpers' = (helpers \ {"loopback", "program"}) \cup {h}
  /\ UNCHANGED <<storeVars, fw, policy, call, recVars, loopVars, applied, signalled, logVars>>

\* Mutant: the clean-up leaves at the first netsh run that fails.
DisableLogging_StopsAtError ==
  /\ main = "unlog"
  /\ main' = "exit"
  /\ \/ logging' = {} /\ UNCHANGED faults
     \/ Fault("netsh") /\ UNCHANGED logging
  /\ UNCHANGED <<storeVars, fw, policy, call, recVars, loopVars, applied, signalled, helpers,
                 file, lines, tail, pos, from, shown>>

\* disableFirewallLogging; it does not ask whether the logging was turned on.
DisableLogging ==
  /\ main = "unlog"
  /\ main' = "exit"
  /\ \/ logging' = {} /\ UNCHANGED faults
     \/ Fault("netsh") /\ \E d \in Decision : logging' = logging \cap {d}
  /\ UNCHANGED <<storeVars, fw, policy, call, recVars, loopVars, applied, signalled, helpers,
                 file, lines, tail, pos, from, shown>>

\* main returns, whatever its goroutines are doing.
Exit ==
  /\ main = "exit"
  /\ main' = "exited"
  /\ ProcessGone
  /\ TailGone
  /\ UNCHANGED <<storeVars, fw, policy, faults, keys, applied, signalled, helpers>>

MainStep == \/ AddHelpers \/ OpenAndSpawn \/ WaitForPassword \/ ApplyDefaultDeny \/ Leave
            \/ EnableLogging \/ RevertPolicy \/ DeleteHelpers \/ DisableLogging \/ Exit

CtrlC ==
  /\ main \in {"wait", "apply", "log", "running"} /\ ~signalled
  /\ signalled' = TRUE
  /\ ctx' = TRUE
  /\ UNCHANGED <<storeVars, fwVars, recVars, loop, recUp, main, applied, helpers, logVars>>

\* The process is killed, or Ctrl-C ends it where nothing catches the signal:
\* before NotifyContext, and from stop() on, which is deferred after cleanup
\* and therefore runs before it.
Killed ==
  /\ main # "exited"
  /\ Fault("kill")
  /\ main' = "exited"
  /\ ProcessGone
  /\ TailGone
  /\ UNCHANGED <<storeVars, fw, policy, keys, applied, signalled, helpers>>

Goroutine(A) == A /\ UNCHANGED <<sessionVars, logVars>>

\* The log grows while Windows is told to; its tailer leaves when it sees that
\* the context is cancelled, which it may do before or after one more line.
LogStep == /\ main # "exited"
           /\ Writes \/ TailOpens \/ TailReads \/ (ctx /\ TailReturns)
           /\ UNCHANGED <<storeVars, fwVars, recVars, loopVars, sessionVars>>

Done == main = "exited" /\ UNCHANGED vars

Next == \/ MainStep
        \/ Goroutine(LoopStep) \/ Goroutine(ServerFails)
        \/ Goroutine(RecRuns) \/ Goroutine(RecReturns)
        \/ Goroutine(Setup)
        \/ LogStep
        \/ CtrlC \/ Killed
        \/ Done

Spec == Init /\ [][Next]_vars

\* The main goroutine goes on: its timers fire and its netsh runs end.
FairSpec == Spec /\ WF_vars(MainStep)

-----------------------------------------------------------------------------
(* Safety                                                                  *)

\* The firewall stays untouched until a password is saved, although the
\* reconciler is armed from the start.  (test.go:7, 101-104, 116)
Untouched == ~passwordSet => policy = "allow" /\ ~keys

\* Why: RunTest acts on the password it has waited for, a tick on the one that
\* opened its gate, and neither is ever cleared.
Gated == recPc # "idle" \/ applied \/ main \in {"apply", "log", "running"} => passwordSet

IInv == /\ TypeOK
        /\ Untouched /\ Gated
        /\ recPc # "idle" => recUp
        /\ loop = "off" => ~recUp

\* While the machine is blocked and the session has not been reverted, the
\* dashboard, the resolver and the remote session are reachable: the helper
\* rules come first and go last, and no more of them are missing than netsh
\* runs have failed.  (test.go:42-68, 84-85)
ReachableWhileBlocked ==
  policy = "block" /\ main \in {"wait", "apply", "log", "running", "revert"}
    => Cardinality(Helper \ helpers) <= MaxFaults - faults

\* However the session ends, if it comes to its end the firewall log does not
\* go on growing, up to the netsh runs that have failed.
\* (firewall_log.go:6-7, 44-48, test.go:84-88)
LoggingEnds == main = "exit" => Cardinality(logging) <= MaxFaults - faults

\* test.go:12: "On timer expiry / Ctrl-C: revert firewall, delete helper
\* rules, exit."
RevertedOnExit == main = "exited" => policy = "allow"

-----------------------------------------------------------------------------
(* Liveness                                                                *)

\* A session with a password ends by itself, and so does one that is
\* interrupted: nothing that RunTest waits for can keep it from its cleanup,
\* not even a loop that failed.  (test.go:120-148)
SelfDisarms == passwordSet \/ signalled ~> main = "exited"

=============================================================================
