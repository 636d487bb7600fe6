----------------------------- MODULE MCServers ------------------------------
(***************************************************************************)
(* What servers send, for TLC: the shutdown and gathering over their tree, *)
(* requests for data and metadata of remote sites, and notifications of    *)
(* clients.  They share no state, and each is explored while the others    *)
(* rest.                                                                   *)
(***************************************************************************)
EXTENDS Kill, Gather, RemoteData, RemoteMeta, ClientSub

(* Two versions of one object. *)
Objects == {"v0", "v1"}
Clashes == {<<"v0", "v1">>, <<"v1", "v0">>}

(* The gateway has one remote, which has two. *)
Sites == {"gateway", "hub", "east", "west"}
Links == [s \in Sites |-> CASE s = "gateway" -> <<"hub">>
                            [] s = "hub" -> <<"east", "west">>
                            [] OTHER -> << >>]

VARIABLE explored    \* the component that is explored

all == <<explored, vars, gatherVars, proxyVars, remoteVars, subVars>>

AllInit ==
  /\ explored \in {"kill", "gather", "proxy", "remote", "sub"}
  /\ Init /\ GatherInit /\ ProxyInit /\ RemoteInit /\ SubInit

AllNext ==
  \/ /\ explored = "kill" /\ Next
     /\ UNCHANGED <<explored, gatherVars, proxyVars, remoteVars, subVars>>
  \/ /\ explored = "gather" /\ GatherNext
     /\ UNCHANGED <<explored, vars, proxyVars, remoteVars, subVars>>
  \/ /\ explored = "proxy" /\ ProxyNext
     /\ UNCHANGED <<explored, vars, gatherVars, remoteVars, subVars>>
  \/ /\ explored = "remote" /\ RemoteNext
     /\ UNCHANGED <<explored, vars, gatherVars, proxyVars, subVars>>
  \/ /\ explored = "sub" /\ SubNext
     /\ UNCHANGED <<explored, vars, gatherVars, proxyVars, remoteVars>>

AllSpec == AllInit /\ [][AllNext]_all /\ Fairness /\ GatherFairness /\ SubFairness
=============================================================================
