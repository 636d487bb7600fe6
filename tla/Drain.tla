------------------------------- MODULE Drain -------------------------------
(***************************************************************************)
(* Client-side storage: dspaces_put_local leaves an object in its writer's *)
(* memory and has a server index it; when DSPACES_DRAIN is set, a thread   *)
(* of the server moves such objects into the server's storage              *)
(* (drain_thread, get_client_data and the client's drain_rpc) and gives    *)
(* their index entries the new owner.  dspaces_fini waits until the        *)
(* client's objects were moved, or until a server that shuts down releases *)
(* it (kill_local_clients, kill_client_rpc).                               *)
(*                                                                         *)
(* One server drains; it is also the server that all clients talk to.  The *)
(* index is reached by messages, as when another server has it.  Objects   *)
(* of the same region overlap and share a version bin: putting one evicts  *)
(* the other.                                                              *)
(*                                                                         *)
(* local_put_count++ is outside drain_mutex, local_put_count-- inside.     *)
(* Both are a read and a write, so either of two racing updates can be     *)
(* lost.                                                                   *)
(***************************************************************************)
EXTENDS Integers, FiniteSets, SequencesExt

CONSTANTS
  Obj,        \* the objects that are put, each once
  Client,     \* the processes that put them
  Home,       \* the process that puts each object
  Layout,     \* the ways in which the objects may be spread over regions
  MaxFail     \* bound: number of transfers that fail

ASSUME DrainAssumption ==
  /\ IsFiniteSet(Obj)
  /\ Home \in [Obj -> Client]
  /\ MaxFail \in Nat


VARIABLES
  f_drain,          \* DSPACES_DRAIN
  region,           \* where each object is: objects of one region overlap
  ls,               \* client->dcg->ls: what each client stores
  local_put_count,  \* client->local_put_count
  ppc, preg,        \* where each object's put_local is; the count it has read
  cpc,              \* where each client is in dspaces_fini
  hpc, hreg,        \* where each object's drain_rpc is; the count it has read
  fails,            \* number of transfers that have failed
  drain_list,       \* dsg->obj_desc_drain_list
  sls,              \* the server's storage
  dpc, dobj, dret,  \* where the drain thread is, its object, the answer to it
  spc,              \* the server: "run", "kill" (f_kill = 0), "release", "down"
  kills,            \* kill_client requests on their way
  odsc, net,        \* the index: who has each object; updates on their way
  lost,             \* history: clients whose count has lost an update
  killed,           \* history: clients that were released by kill_client
  failed            \* history: objects whose drain has failed

clients == <<ls, local_put_count, ppc, preg, cpc, lost, killed>>
handlers == <<hpc, hreg, fails, failed>>
server == <<drain_list, sls, dpc, dobj, spc, kills>>
index == <<odsc, net>>
params == <<f_drain, region>>
vars == <<params, clients, handlers, server, dret, index>>

Init ==
  /\ f_drain \in BOOLEAN
  /\ region \in Layout
  /\ ls = [c \in Client |-> {}]
  /\ local_put_count = [c \in Client |-> 0]
  /\ ppc = [o \in Obj |-> "none"]
  /\ preg = [o \in Obj |-> 0]
  /\ cpc = [c \in Client |-> "run"]
  /\ hpc = [o \in Obj |-> "none"]
  /\ hreg = [o \in Obj |-> 0]
  /\ fails = 0
  /\ drain_list = <<>>
  /\ sls = {}
  /\ dpc = IF f_drain THEN "check" ELSE "done"
  /\ dobj = {}
  /\ dret = "none"
  /\ spc = "run"
  /\ kills = {}
  /\ odsc = [o \in Obj |-> "none"]
  /\ net = {}
  /\ lost = {}
  /\ killed = {}
  /\ failed = {}

Alive(c) == cpc[c] # "finalized"

(* client->f_final: dspaces_fini has been called. *)
f_final(c) == cpc[c] # "run"

(* ls_add_obj: an overlapping object of the same bin is evicted. *)
ls_add_obj(store, o) == {p \in store : region[p] # region[o]} \cup {o}

-----------------------------------------------------------------------------
(* dspaces_put_local, local_put_count++: the read. *)
PutCountRead(o) ==
  /\ ppc[o] = "none"
  /\ cpc[Home[o]] = "run"
  /\ ppc' = [ppc EXCEPT ![o] = "count"]
  /\ preg' = [preg EXCEPT ![o] = local_put_count[Home[o]]]
  /\ UNCHANGED <<params, ls, local_put_count, cpc, lost, killed, handlers,
                 server, dret, index>>

(* local_put_count++: the write. *)
PutCountWrite(o) ==
  LET c == Home[o] IN
  /\ ppc[o] = "count"
  /\ ppc' = [ppc EXCEPT ![o] = "store"]
  /\ local_put_count' = [local_put_count EXCEPT ![c] = preg[o] + 1]
  /\ preg' = [preg EXCEPT ![o] = 0]
  /\ lost' = IF preg[o] # local_put_count[c] THEN lost \cup {c} ELSE lost
  /\ UNCHANGED <<params, ls, cpc, killed, handlers, server, dret, index>>

(* The object is stored under ls_mutex and the server is told.  Without a  *)
(* server margo_forward fails and so does the call; the object stays       *)
(* counted.                                                                *)
PutLocal(o) ==
  /\ ppc[o] = "store"
  /\ ls' = [ls EXCEPT ![Home[o]] = ls_add_obj(@, o)]
  /\ ppc' = [ppc EXCEPT ![o] = IF spc = "down" THEN "error" ELSE "sent"]
  /\ UNCHANGED <<params, local_put_count, preg, cpc, lost, killed, handlers,
                 server, dret, index>>

(* put_local_rpc: the index is updated (obj_update_dht), the object put on *)
(* the drain list and the client answered.  A server that is shutting down *)
(* warns, and goes on.                                                     *)
PutLocalRpc(o) ==
  /\ ppc[o] = "sent"
  /\ spc # "down"
  /\ net' = net \cup {[type |-> "NEW", obj |-> o]}
  /\ drain_list' = Append(drain_list, o)
  /\ ppc' = [ppc EXCEPT ![o] = IF spc = "run" THEN "done" ELSE "late"]
  /\ UNCHANGED <<params, ls, local_put_count, preg, cpc, lost, killed, handlers, sls,
                 dpc, dobj, spc, kills, dret, odsc>>

(* The request is pending at a server that has gone down. *)
PutLocalFails(o) ==
  /\ ppc[o] = "sent"
  /\ spc = "down"
  /\ ppc' = [ppc EXCEPT ![o] = "error"]
  /\ UNCHANGED <<params, ls, local_put_count, preg, cpc, lost, killed, handlers,
                 server, dret, index>>

-----------------------------------------------------------------------------
(* drain_thread, the outer loop. *)
DrainCheck ==
  /\ dpc = "check"
  /\ dpc' = IF spc = "run" THEN "pop" ELSE "done"
  /\ UNCHANGED <<params, clients, handlers, drain_list, sls, dobj, spc, kills, dret,
                 index>>

DrainPop_UpdatesFirst ==
  /\ dpc = "pop"
  /\ \/ /\ drain_list = <<>>
        /\ dpc' = "check"
        /\ UNCHANGED <<drain_list, dobj, hpc, net>>
     \/ /\ drain_list # <<>>
        /\ dpc' = "wait"
        /\ dobj' = {Head(drain_list)}
        /\ drain_list' = Tail(drain_list)
        /\ net' = net \cup {[type |-> "OWNER", obj |-> Head(drain_list)]}
        /\ hpc' = [hpc EXCEPT ![Head(drain_list)] = "request"]
  /\ UNCHANGED <<params, clients, hreg, fails, failed, sls, spc, kills, dret, odsc>>

(* The inner loop takes the first object of the list and requests it from  *)
(* its client (get_client_data); it ends when the list is empty.           *)
DrainPop ==
  /\ dpc = "pop"
  /\ \/ /\ drain_list = <<>>
        /\ dpc' = "check"
        /\ UNCHANGED <<drain_list, dobj, hpc>>
     \/ /\ drain_list # <<>>
        /\ dpc' = "wait"
        /\ dobj' = {Head(drain_list)}
        /\ drain_list' = Tail(drain_list)
        /\ hpc' = [hpc EXCEPT ![Head(drain_list)] = "request"]
  /\ UNCHANGED <<params, clients, hreg, fails, failed, sls, spc, kills, dret, index>>

Reply(o, ret) ==
  /\ dret' = ret
  /\ failed' = IF ret = "error" THEN failed \cup {o} ELSE failed

DrainFind_CountsMissing(o) ==
  /\ hpc[o] = "request"
  /\ Alive(Home[o])
  /\ \/ /\ o \in ls[Home[o]]
        /\ hpc' = [hpc EXCEPT ![o] = "transfer"]
        /\ UNCHANGED <<dret, failed>>
     \/ /\ o \notin ls[Home[o]]
        /\ hpc' = [hpc EXCEPT ![o] = "count"]
        /\ Reply(o, "error")
  /\ UNCHANGED <<params, clients, hreg, fails, server, index>>

(* drain_rpc on the client looks for the object, without ls_mutex. *)
DrainFind(o) ==
  /\ hpc[o] = "request"
  /\ Alive(Home[o])
  /\ \/ /\ o \in ls[Home[o]]
        /\ hpc' = [hpc EXCEPT ![o] = "transfer"]
        /\ UNCHANGED <<dret, failed>>
     \/ /\ o \notin ls[Home[o]]
        /\ hpc' = [hpc EXCEPT ![o] = "none"]
        /\ Reply(o, "error")
  /\ UNCHANGED <<params, clients, hreg, fails, server, index>>

DrainTransfer_RemovesOnError(o) ==
  /\ hpc[o] = "transfer"
  /\ Alive(Home[o])
  /\ \/ Reply(o, "success") /\ UNCHANGED fails
     \/ fails < MaxFail /\ fails' = fails + 1 /\ Reply(o, "error")
  /\ hpc' = [hpc EXCEPT ![o] = "remove"]
  /\ UNCHANGED <<params, clients, hreg, server, index>>

(* The data is pushed to the server and the request answered, with an      *)
(* error if the transfer fails.  (An object that was evicted since it was  *)
(* found has been freed: the outcome is anything.)                         *)
DrainTransfer(o) ==
  /\ hpc[o] = "transfer"
  /\ Alive(Home[o])
  /\ \/ /\ Reply(o, "success")
        /\ hpc' = [hpc EXCEPT ![o] = "remove"]
        /\ UNCHANGED fails
     \/ /\ fails < MaxFail
        /\ fails' = fails + 1
        /\ Reply(o, "error")
        /\ hpc' = [hpc EXCEPT ![o] = "none"]
  /\ UNCHANGED <<params, clients, hreg, server, index>>

(* After the answer: ls_try_remove_free, under ls_mutex. *)
DrainRemove(o) ==
  /\ hpc[o] = "remove"
  /\ Alive(Home[o])
  /\ ls' = [ls EXCEPT ![Home[o]] = @ \ {o}]
  /\ hpc' = [hpc EXCEPT ![o] = "count"]
  /\ UNCHANGED <<params, local_put_count, ppc, preg, cpc, lost, killed, hreg,
                 fails, failed, server, dret, index>>

(* drain_mutex of a client is free: no drain_rpc is updating the count. *)
Unlocked(c) == \A o \in Obj : ~ (hpc[o] = "locked" /\ Home[o] = c)

(* local_put_count--, under drain_mutex: the read. *)
DrainCountRead(o) ==
  /\ hpc[o] = "count"
  /\ Alive(Home[o])
  /\ Unlocked(Home[o])
  /\ hpc' = [hpc EXCEPT ![o] = "locked"]
  /\ hreg' = [hreg EXCEPT ![o] = local_put_count[Home[o]]]
  /\ UNCHANGED <<params, clients, fails, failed, server, dret, index>>

Signal_Missing(c) == UNCHANGED cpc

(* A client that waits in dspaces_fini goes on. *)
Signal(c) == cpc' = [cpc EXCEPT ![c] = IF @ = "wait" THEN "recheck" ELSE @]

(* local_put_count--: the write, and the signal to dspaces_fini. *)
DrainCountWrite(o) ==
  LET c == Home[o] IN
  /\ hpc[o] = "locked"
  /\ Alive(c)
  /\ local_put_count' = [local_put_count EXCEPT ![c] = hreg[o] - 1]
  /\ hreg' = [hreg EXCEPT ![o] = 0]
  /\ lost' = IF hreg[o] # local_put_count[c] THEN lost \cup {c} ELSE lost
  /\ IF hreg[o] = 1 /\ f_final(c) THEN Signal(c) ELSE UNCHANGED cpc
  /\ hpc' = [hpc EXCEPT ![o] = "none"]
  /\ UNCHANGED <<params, ls, ppc, preg, killed, fails, failed, server, dret, index>>

(* The client is gone: margo_forward fails, get_client_data does not look  *)
(* at it and goes on with an uninitialised answer.                         *)
DrainGone(o) ==
  /\ hpc[o] \in {"request", "transfer"}
  /\ ~ Alive(Home[o])
  /\ \E ret \in {"success", "error"} : Reply(o, ret)
  /\ hpc' = [hpc EXCEPT ![o] = "none"]
  /\ UNCHANGED <<params, clients, hreg, fails, server, index>>

(* get_client_data has its answer: the object is stored. *)
DrainStore ==
  /\ dpc = "wait"
  /\ dret # "none"
  /\ sls' = IF dret = "success" THEN UNION {ls_add_obj(sls, o) : o \in dobj} ELSE sls
  /\ dpc' = "update"
  /\ UNCHANGED <<params, clients, handlers, drain_list, dobj, spc, kills, dret, index>>

(* The index is told of the new owner, whatever the answer was; after an   *)
(* error the object goes back to the list.                                 *)
DrainUpdate ==
  /\ dpc = "update"
  /\ net' = net \cup [type : {"OWNER"}, obj : dobj]
  /\ drain_list' = IF dret = "success" THEN drain_list ELSE drain_list \o SetToSeq(dobj)
  /\ dpc' = "pop"
  /\ dobj' = {}
  /\ dret' = "none"
  /\ UNCHANGED <<params, clients, handlers, sls, spc, kills, odsc>>

-----------------------------------------------------------------------------
(* obj_update_rpc: dht_add_entry overwrites an overlapping entry,          *)
(* dht_update_owner does nothing if it does not find the entry.            *)
ObjUpdateRpc(m) ==
  /\ m \in net
  /\ net' = net \ {m}
  /\ odsc' = IF m.type = "NEW"
             THEN [o \in Obj |-> IF o = m.obj THEN "client"
                                 ELSE IF region[o] = region[m.obj] THEN "none" ELSE odsc[o]]
             ELSE [odsc EXCEPT ![m.obj] = IF @ = "none" THEN @ ELSE "server"]
  /\ UNCHANGED <<params, clients, handlers, server, dret>>

-----------------------------------------------------------------------------
(* dspaces_fini, once no put of the client is in progress: the wait for    *)
(* the drain, under drain_mutex.                                           *)
FiniLock(c) ==
  /\ cpc[c] \in {"run", "fini"}
  /\ Unlocked(c)
  /\ \A o \in Obj : Home[o] = c => ppc[o] \in {"none", "done", "late", "error"}
  /\ cpc' = [cpc EXCEPT ![c] = IF local_put_count[c] > 0 THEN "wait" ELSE "recheck"]
  /\ UNCHANGED <<params, ls, local_put_count, ppc, preg, lost, killed, handlers, server,
                 dret, index>>

(* The loop condition of dspaces_fini, outside drain_mutex. *)
FiniRecheck(c) ==
  /\ cpc[c] = "recheck"
  /\ cpc' = [cpc EXCEPT ![c] = IF local_put_count[c] > 0 THEN "fini" ELSE "finalized"]
  /\ UNCHANGED <<params, ls, local_put_count, ppc, preg, lost, killed, handlers,
                 server, dret, index>>

(* The last kill token has arrived: f_kill is 0. *)
Kill ==
  /\ spc = "run"
  /\ spc' = "kill"
  /\ UNCHANGED <<params, clients, handlers, drain_list, sls, dpc, dobj, kills, dret,
                 index>>

(* server_destroy joins the drain thread, then kill_local_clients sends a  *)
(* kill request to every client with an object on the drain list.          *)
KillLocalClients ==
  /\ spc = "kill"
  /\ dpc = "done"
  /\ spc' = "release"
  /\ kills' = {Home[o] : o \in Range(drain_list)}
  /\ UNCHANGED <<params, clients, handlers, drain_list, sls, dpc, dobj, dret, index>>

(* The rest of server_destroy. *)
Finalize ==
  /\ spc = "release"
  /\ spc' = "down"
  /\ UNCHANGED <<params, clients, handlers, drain_list, sls, dpc, dobj, kills, dret,
                 index>>

(* kill_client_rpc *)
KillClientRpc(c) ==
  /\ c \in kills
  /\ Alive(c)
  /\ Unlocked(c)
  /\ kills' = kills \ {c}
  /\ local_put_count' = [local_put_count EXCEPT ![c] = 0]
  /\ Signal(c)
  /\ killed' = killed \cup {c}
  /\ UNCHANGED <<params, ls, ppc, preg, lost, handlers, drain_list, sls, dpc,
                 dobj, spc, dret, index>>

-----------------------------------------------------------------------------
PutStep(o) ==
  \/ PutCountWrite(o) \/ PutLocal(o) \/ PutLocalRpc(o) \/ PutLocalFails(o)

DrainThread == DrainCheck \/ DrainPop \/ DrainStore \/ DrainUpdate

DrainRpc(o) ==
  \/ DrainFind(o) \/ DrainTransfer(o) \/ DrainRemove(o) \/ DrainCountRead(o)
  \/ DrainCountWrite(o) \/ DrainGone(o)

FiniStep(c) == (FiniLock(c) /\ cpc[c] # "run") \/ FiniRecheck(c)

Next ==
  \/ \E o \in Obj : PutCountRead(o) \/ PutStep(o) \/ DrainRpc(o)
  \/ DrainThread
  \/ \E m \in net : ObjUpdateRpc(m)
  \/ \E c \in Client : FiniLock(c) \/ FiniRecheck(c) \/ KillClientRpc(c)
  \/ Kill \/ KillLocalClients \/ Finalize

Spec == Init /\ [][Next]_vars

(* Handlers and threads that can run do; nobody has to put, to finalize or *)
(* to kill.                                                                *)
FairSpec ==
  /\ Spec
  /\ \A o \in Obj : WF_vars(PutStep(o)) /\ WF_vars(DrainRpc(o))
  /\ \A c \in Client : WF_vars(FiniStep(c)) /\ WF_vars(KillClientRpc(c))
  /\ WF_vars(DrainThread)
  /\ WF_vars(KillLocalClients)

-----------------------------------------------------------------------------
TypeOK ==
  /\ ls \in [Client -> SUBSET Obj]
  /\ local_put_count \in [Client -> Int]
  /\ \A c \in Client : local_put_count[c] <= Cardinality(Obj)
  /\ ppc \in [Obj -> {"none", "count", "store", "sent", "done", "late", "error"}]
  /\ cpc \in [Client -> {"run", "fini", "wait", "recheck", "finalized"}]
  /\ hpc \in [Obj -> {"none", "request", "transfer", "remove", "count", "locked"}]
  /\ drain_list \in Seq(Obj) /\ Len(drain_list) <= Cardinality(Obj)
  /\ sls \subseteq Obj
  /\ dpc \in {"check", "pop", "wait", "update", "done"}
  /\ dpc \in {"wait", "update"} <=> Cardinality(dobj) = 1
  /\ dret # "none" => dobj # {}
  /\ odsc \in [Obj -> {"none", "client", "server"}]
  /\ net \subseteq [type : {"NEW", "OWNER"}, obj : Obj]
  /\ kills \subseteq Client

(* Some object was put over this one. *)
Displaced(o) ==
  \E p \in Obj \ {o} : region[p] = region[o] /\ ppc[p] \notin {"none", "count", "store"}

(* The server has the object, or has just been sent it. *)
AtServer(o) == o \in sls \/ (o \in dobj /\ dret = "success")

Put(o) == ppc[o] \notin {"none", "count", "store"}

(* While it is drained an object is always in one of the two storages or   *)
(* in transit: drain_rpc removes it only when the server has it.           *)
NothingLost ==
  \A o \in Obj :
    Put(o) /\ Alive(Home[o]) /\ ~ Displaced(o) => o \in ls[Home[o]] \/ AtServer(o)

(* dspaces_fini only passes when all the client's objects have been        *)
(* drained, and their handlers are through with the client, unless the     *)
(* server has released it or its count has lost an update.                 *)
DrainedBeforeFini ==
  \A o \in Obj :
    Put(o) /\ cpc[Home[o]] = "finalized" /\ Home[o] \notin killed \cup lost =>
      (AtServer(o) \/ Displaced(o)) /\ hpc[o] = "none"

(* A server that the index names as owner has the object, unless a drain   *)
(* of it has failed or it was displaced: it is stored before the index is  *)
(* told.                                                                   *)
ServerHasObject ==
  \A o \in Obj : odsc[o] = "server" => o \in sls \cup failed \/ Displaced(o)

(* All the client's puts have returned, before the server began to shut    *)
(* down, none displaced another and no update of the count was lost.       *)
Regular(c) ==
  /\ c \notin lost
  /\ \A o \in Obj : Home[o] = c => ppc[o] \in {"none", "done"} /\ ~ Displaced(o)

(* "Clients with local data need to know when it's safe to finalize":      *)
(* dspaces_fini returns if objects are drained or the server shuts down.   *)
FiniReturns ==
  \A c \in Client :
    (cpc[c] # "run" /\ Regular(c) /\ (f_drain \/ spc # "run")) ~> cpc[c] = "finalized"
=============================================================================
