------------------------------ MODULE MainLoop ------------------------------
(***************************************************************************)
(* runMainLoop: how the body of every run mode starts, fails and stops.    *)
(*                                                                         *)
(* It opens the store, starts the reconciler in a goroutine and serves the *)
(* dashboard until its context is cancelled or the server fails.  Only a   *)
(* cancelled loop waits for its goroutines; a failed one returns, closes   *)
(* the store and leaves the reconciler behind, which lives as long as the  *)
(* process.  (The resolver's goroutine, which never touches the default    *)
(* policy, only makes the waiting longer and is left out.)                 *)
(***************************************************************************)
EXTENDS Reconciler

VARIABLES loop,    \* where runMainLoop is
          ctx,     \* its context has been cancelled
          recUp    \* the reconciler's goroutine is running

loopVars == <<loop, ctx, recUp>>

LoopTypeOK == /\ loop \in {"off", "starting", "serving", "draining", "done", "failed"}
              /\ ctx \in BOOLEAN
              /\ recUp \in BOOLEAN

LoopInit == loop = "off" /\ ctx = FALSE /\ recUp = FALSE

StoreOpen == loop \in {"serving", "draining"}

\* The loop with everything it is made of, when its process ends.
ProcessGone == /\ loop' = "off"
               /\ ctx' = FALSE
               /\ recUp' = FALSE
               /\ TickEnds
               /\ healthy' = TRUE
               /\ call' = [t \in Thread |-> NoCall]

-----------------------------------------------------------------------------

\* Directories, store and signing key, then the goroutines and the server.
LoopStarts ==
  /\ loop = "starting"
  /\ \/ loop' = "serving" /\ recUp' = TRUE /\ UNCHANGED faults
     \/ Fault("start") /\ loop' = "failed" /\ UNCHANGED recUp
  /\ UNCHANGED <<storeVars, fw, policy, call, recVars, ctx>>

\* ListenAndServe fails, typically because the port is taken: the loop
\* returns without cancelling or waiting.
ServerFails ==
  /\ loop = "serving"
  /\ Fault("bind")
  /\ loop' = "failed"
  /\ UNCHANGED <<storeVars, fw, policy, call, recVars, ctx, recUp>>

Shutdown ==
  /\ loop = "serving" /\ ctx
  /\ loop' = "draining"
  /\ UNCHANGED <<storeVars, fwVars, recVars, ctx, recUp>>

\* Mutant: without wg.Wait.
LoopEnds_NoWait ==
  /\ loop = "draining"
  /\ loop' = "done"
  /\ UNCHANGED <<storeVars, fwVars, recVars, ctx, recUp>>

\* wg.Wait, and the deferred store.Close.
LoopEnds ==
  /\ loop = "draining" /\ ~recUp
  /\ loop' = "done"
  /\ UNCHANGED <<storeVars, fwVars, recVars, ctx, recUp>>

\* Reconciler.Run.  With the store closed, IsPasswordSet fails and the gate
\* reads as "no password", so no tick begins any more; one that has begun
\* goes on.  A cancelled context and a due ticker are both ready in the
\* select, which may then pick the ticker.
RecRuns ==
  /\ recUp
  /\ \/ Tick /\ (recPc = "idle" => StoreOpen)
     \/ NetshStep(Rec) /\ UNCHANGED <<storeVars, recVars>>
  /\ UNCHANGED loopVars

RecReturns ==
  /\ recUp /\ ctx /\ recPc = "idle"
  /\ recUp' = FALSE
  /\ UNCHANGED <<storeVars, fwVars, recVars, loop, ctx>>

\* POST /setup on a dashboard that is up.
Setup ==
  /\ loop = "serving"
  /\ SetPassword
  /\ UNCHANGED <<fwVars, recVars, loopVars>>

LoopStep == LoopStarts \/ Shutdown \/ LoopEnds

=============================================================================
