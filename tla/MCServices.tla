----------------------------- MODULE MCServices -----------------------------
(***************************************************************************)
(* What clients ask for, for TLC: metadata, asynchronous puts, remote      *)
(* execution and the registry.  They share no state, and each is explored  *)
(* while the others rest.                                                  *)
(***************************************************************************)
EXTENDS MetaStore, IPut, Exec, Registry

(* The reader 'waiter' only asks for the next version: it is there to      *)
(* share the condition variable with a reader of any kind.                 *)
CONSTANTS reader, waiter

MetaNext == Next /\ (req'[waiter] # None => req'[waiter].mode = "NEXT")

(* Two calls of dspaces_pexec, so that one may be answered with what the   *)
(* other has left, and one of dspaces_mpexec.                              *)
ExecArgs == [c \in ExecCall |-> IF c \in Multi THEN <<"plain", "module">> ELSE <<"plain">>]

(* Two calls of the same name, one of another. *)
Registrations == {"r1", "r2", "r3"}
Types == [c \in Registrations |-> "t"]
Names == [c \in Registrations |-> IF c \in {"r1", "r2"} THEN "a" ELSE "b"]

VARIABLE explored    \* the component that is explored

all == <<explored, vars, putVars, execVars, regVars>>

AllInit ==
  /\ explored \in {"meta", "put", "exec", "reg"}
  /\ Init /\ PutInit /\ ExecInit /\ RegInit

AllNext ==
  \/ /\ explored = "meta" /\ MetaNext
     /\ UNCHANGED <<explored, putVars, execVars, regVars>>
  \/ /\ explored = "put" /\ PutNext
     /\ UNCHANGED <<explored, vars, execVars, regVars>>
  \/ /\ explored = "exec" /\ ExecNext
     /\ UNCHANGED <<explored, vars, putVars, regVars>>
  \/ /\ explored = "reg" /\ RegNext
     /\ UNCHANGED <<explored, vars, putVars, execVars>>

AllSpec == AllInit /\ [][AllNext]_all /\ Fairness /\ ExecFairness
=============================================================================
