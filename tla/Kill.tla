-------------------------------- MODULE Kill --------------------------------
(***************************************************************************)
(* The shutdown of the servers: dspaces_kill (client), kill_rpc, the       *)
(* forwarding of ibcast_rpc_start and the barriers of server_destroy.      *)
(*                                                                         *)
(* Every server holds f_kill tokens.  kill_rpc takes one under kill_mutex, *)
(* releases the mutex, forwards the request over the tree and, when the    *)
(* last token is gone, calls server_destroy.  Several kill_rpc handlers of *)
(* a server may be between the unlock and the forwarding at a time.        *)
(*                                                                         *)
(* The calls of MPI_Barrier are modelled by what they guarantee; requests  *)
(* are delivered at most once and in any order.                            *)
(***************************************************************************)
EXTENDS Tree

CONSTANTS
  Call,        \* the calls of dspaces_kill that clients make
  Entry,       \* server_address[0] of the clients: the servers that get them
  num_apps     \* conf.num_apps: the initial number of tokens

ASSUME KillAssumption ==
  /\ IsFiniteSet(Call)
  /\ Entry \subseteq Rank
  /\ num_apps \in Int

Message == [call : Call, src : Rank \cup {NoSrc}, to : Rank]

(* A handler of kill_rpc that has taken its token, with do_kill. *)
KillHandler == [msg : Message, do_kill : BOOLEAN]

VARIABLES
  called,      \* the calls made so far
  net,         \* kill requests on their way
  f_kill,      \* per server the tokens left
  handlers,    \* handlers between the unlock and the forwarding
  state,       \* per server "up", "destroy", "freed" or "final"
  counted      \* history: the calls that have taken a token of a server

vars == <<called, net, f_kill, handlers, state, counted>>

Init ==
  /\ called = {}
  /\ net = {}
  /\ f_kill = [s \in Rank |-> num_apps]
  /\ handlers = {}
  /\ state = [s \in Rank |-> "up"]
  /\ counted = [s \in Rank |-> {}]

(* dspaces_kill *)
DspacesKill(c, s) ==
  /\ c \notin called
  /\ called' = called \cup {c}
  /\ net' = net \cup {[call |-> c, src |-> NoSrc, to |-> s]}
  /\ UNCHANGED <<f_kill, handlers, state, counted>>

(* kill_rpc on a server without tokens: it is shutting down already (or    *)
(* was started with num_apps = 0); the request is not forwarded.           *)
IgnoreKill(m) ==
  /\ m \in net
  /\ state[m.to] # "final"
  /\ f_kill[m.to] = 0
  /\ net' = net \ {m}
  /\ UNCHANGED <<called, f_kill, handlers, state, counted>>

(* kill_rpc, up to ABT_mutex_unlock(kill_mutex). *)
TakeToken(m) ==
  /\ m \in net
  /\ state[m.to] # "final"
  /\ f_kill[m.to] # 0
  /\ net' = net \ {m}
  /\ f_kill' = [f_kill EXCEPT ![m.to] = @ - 1]
  /\ handlers' = handlers \cup {[msg |-> m, do_kill |-> f_kill[m.to] = 1]}
  /\ counted' = [counted EXCEPT ![m.to] = @ \cup {m.call}]
  /\ UNCHANGED <<called, state>>

(* The rest of kill_rpc: ibcast_rpc_start with this server as source, then *)
(* server_destroy when the last token was taken.                           *)
Forward(h) ==
  /\ h \in handlers
  /\ handlers' = handlers \ {h}
  /\ net' = net \cup {[call |-> h.msg.call, src |-> h.msg.to, to |-> t] :
                        t \in Targets(h.msg.to, h.msg.src)}
  /\ state' = IF h.do_kill THEN [state EXCEPT ![h.msg.to] = "destroy"] ELSE state
  /\ UNCHANGED <<called, f_kill, counted>>

Free_NoBarrier(s) ==
  /\ state[s] = "destroy"
  /\ state' = [state EXCEPT ![s] = "freed"]
  /\ UNCHANGED <<called, net, f_kill, handlers, counted>>

(* server_destroy: the first MPI_Barrier, then everything is freed. *)
Free(s) ==
  /\ state[s] = "destroy"
  /\ \A t \in Rank : state[t] # "up"
  /\ state' = [state EXCEPT ![s] = "freed"]
  /\ UNCHANGED <<called, net, f_kill, handlers, counted>>

(* server_destroy: the second MPI_Barrier and margo_finalize. *)
Finalize(s) ==
  /\ state[s] = "freed"
  /\ \A t \in Rank : state[t] \in {"freed", "final"}
  /\ state' = [state EXCEPT ![s] = "final"]
  /\ UNCHANGED <<called, net, f_kill, handlers, counted>>

Next ==
  \/ \E c \in Call, s \in Entry : DspacesKill(c, s)
  \/ \E m \in net : IgnoreKill(m) \/ TakeToken(m)
  \/ \E h \in handlers : Forward(h)
  \/ \E s \in Rank : Free(s) \/ Finalize(s)

Spec == Init /\ [][Next]_vars

(* What a server does on its own: requests arrive and handlers run. *)
ServerStep(s) ==
  \/ \E m \in net : m.to = s /\ (IgnoreKill(m) \/ TakeToken(m))
  \/ \E h \in handlers : h.msg.to = s /\ Forward(h)
  \/ Free(s) \/ Finalize(s)

(* Some server goes on while one can; nobody has to call dspaces_kill. *)
Fairness == WF_vars(\E s \in Rank : ServerStep(s))

FairSpec == Spec /\ Fairness

-----------------------------------------------------------------------------
TypeOK ==
  /\ called \subseteq Call
  /\ net \subseteq Message
  /\ f_kill \in [Rank -> IF num_apps >= 0 THEN 0 .. num_apps ELSE Int]
  /\ handlers \subseteq KillHandler
  /\ state \in [Rank -> {"up", "destroy", "freed", "final"}]
  /\ counted \in [Rank -> SUBSET called]

(* Every server counts every call of dspaces_kill once, whatever way the   *)
(* request took through the tree: its tokens are num_apps less the calls   *)
(* that reached it.                                                        *)
TokensExact ==
  \A s \in Rank : f_kill[s] = num_apps - Cardinality(counted[s])

(* While no more calls than tokens are made, a handler that still has to   *)
(* forward a request never finds the address table of its server freed:    *)
(* the barrier holds server_destroy back, as some server misses the call.  *)
ForwardBeforeFree ==
  Cardinality(called) <= num_apps =>
    \A h \in handlers :
      Targets(h.msg.to, h.msg.src) # {} => state[h.msg.to] \in {"up", "destroy"}

(* The lifetime that the documentation of num_apps describes. *)
LT == INSTANCE Lifetime WITH
        Server <- Rank,
        calls <- Cardinality(called),
        phase <- [s \in Rank |-> CASE state[s] = "up" -> "serving"
                                   [] state[s] = "destroy" -> "stopping"
                                   [] OTHER -> "gone"]

(* The servers stop after num_apps calls of dspaces_kill, not before, and  *)
(* all together; and once the calls are made they do stop, even if more    *)
(* calls than needed race with the shutdown.                               *)
ImplementsLifetime == LT!FairSpec
=============================================================================
