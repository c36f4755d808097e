------------------------------ MODULE Allowlist ------------------------------
(***************************************************************************)
(* What the service promises about an allowlist, whatever its threads do   *)
(* and however it is interrupted.                                          *)
(*                                                                         *)
(* An entry lives once: it is added, it has answers, it is removed.  The   *)
(* addresses opened for it are answers it has had, they are changed for    *)
(* one entry at a time, and nothing happens before there is a password.    *)
(***************************************************************************)
EXTENDS Naturals

CONSTANTS Entries,   \* the places of the allowlist, numbered from 1
          Address    \* what can be opened

VARIABLES ready,   \* a password is set
          stage,   \* stage[i]: the life of entry i
          ever,    \* ever[i]: every answer for entry i so far
          open     \* open[i]: the addresses opened for entry i

vars == <<ready, stage, ever, open>>

Init == /\ ready = FALSE
        /\ stage = [i \in Entries |-> "unborn"]
        /\ ever = [i \in Entries |-> {}]
        /\ open = [i \in Entries |-> {}]

GetReady == /\ ~ready
            /\ ready' = TRUE
            /\ UNCHANGED <<stage, ever, open>>

\* Entries are numbered in the order they are added in.
Add(i) == /\ ready
          /\ stage[i] = "unborn"
          /\ \A j \in Entries : j < i => stage[j] # "unborn"
          /\ stage' = [stage EXCEPT ![i] = "live"]
          /\ ever' = [ever EXCEPT ![i] = {}]
          /\ UNCHANGED <<ready, open>>

Remove(i) == /\ stage[i] = "live"
             /\ stage' = [stage EXCEPT ![i] = "gone"]
             /\ UNCHANGED <<ready, ever, open>>

\* An answer may still come in for an entry that is gone.
Learn(i) == /\ stage[i] # "unborn"
            /\ \E S \in SUBSET Address : ever' = [ever EXCEPT ![i] = @ \cup S]
            /\ UNCHANGED <<ready, stage, open>>

Open(i) == /\ ready
           /\ stage[i] # "unborn"
           /\ \E S \in SUBSET ever[i] : open' = [open EXCEPT ![i] = S]
           /\ UNCHANGED <<ready, stage, ever>>

\* Somebody resets the firewall.
CloseAll == /\ open' = [i \in Entries |-> {}]
            /\ UNCHANGED <<ready, stage, ever>>

Next == \/ GetReady
        \/ \E i \in Entries : Add(i) \/ Remove(i) \/ Learn(i) \/ Open(i)
        \/ CloseAll

Spec == Init /\ [][Next]_vars

=============================================================================
