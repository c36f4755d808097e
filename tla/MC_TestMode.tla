---------------------------- MODULE MC_TestMode ----------------------------
(* Instances of TestMode for TLC: no rows, the reconciler as only thread. *)
EXTENDS TestMode

None == {}
OneThread == {"reconciler"}

=============================================================================
