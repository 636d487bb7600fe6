------------------------------ MODULE Lifetime ------------------------------
(***************************************************************************)
(* What num_apps promises (README.md, docs/running.rst): the servers stop  *)
(* once dspaces_kill() has been called num_apps times, and not before; no  *)
(* server frees its data while another one still serves requests.          *)
(***************************************************************************)
EXTENDS Integers

CONSTANTS
  Server,      \* the servers of the group
  num_apps     \* the number of calls that stop them; 0 or less: never

VARIABLES
  calls,       \* number of dspaces_kill() calls made
  phase        \* per server: "serving", "stopping" or "gone"

vars == <<calls, phase>>

Init ==
  /\ calls = 0
  /\ phase = [s \in Server |-> "serving"]

CallKill ==
  /\ calls' = calls + 1
  /\ UNCHANGED phase

Stop(s) ==
  /\ num_apps > 0
  /\ calls >= num_apps
  /\ phase[s] = "serving"
  /\ phase' = [phase EXCEPT ![s] = "stopping"]
  /\ UNCHANGED calls

Exit(s) ==
  /\ phase[s] = "stopping"
  /\ \A t \in Server : phase[t] # "serving"
  /\ phase' = [phase EXCEPT ![s] = "gone"]
  /\ UNCHANGED calls

Next == CallKill \/ \E s \in Server : Stop(s) \/ Exit(s)

Spec == Init /\ [][Next]_vars

(* A server takes at most two steps, so that none is left out in the end. *)
FairSpec == Spec /\ WF_vars(\E s \in Server : Stop(s) \/ Exit(s))
=============================================================================
