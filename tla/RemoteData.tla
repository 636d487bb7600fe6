----------------------------- MODULE RemoteData -----------------------------
(***************************************************************************)
(* Data of remote sites: when a server that has remotes stores nothing     *)
(* under a name, get_query fetches the data from its remotes into a second *)
(* storage, ps, from which get_rpc then serves the client.  Gets of names  *)
(* that the server has itself are Staging's subject.                       *)
(*                                                                         *)
(* The remotes are modelled as one set of data: query_remotes asks them in *)
(* turn until one has it.  The transport does not fail.  Getters ask for   *)
(* the same box of each variable.                                          *)
(***************************************************************************)
EXTENDS Naturals

CONSTANTS
  RemoteVar,      \* variables
  RemoteVersion,  \* and their versions
  size_hash,      \* number of bins of a storage
  Getter,         \* clients that get data
  Nothing         \* an empty bin

ASSUME RemoteDataAssumption ==
  /\ RemoteVersion \subseteq Nat
  /\ size_hash \in Nat \ {0}
  /\ Nothing \notin RemoteVar \X RemoteVersion

VARIABLES
  remote_data,    \* data at the remotes
  local_names,    \* names of what the server stores: of ls
  ps,             \* data fetched from remotes: per bin one, or Nothing
  getter,         \* per client what it asks for, and what it has got
  replaced        \* history: getters whose data was replaced in ps before they had it

proxyVars == <<remote_data, local_names, ps, getter, replaced>>

Datum == RemoteVar \X RemoteVersion

ProxyInit ==
  /\ remote_data = {}
  /\ local_names = {}
  /\ ps = [b \in 0 .. size_hash - 1 |-> Nothing]
  /\ getter = [g \in Getter |-> [at |-> "idle"]]
  /\ replaced = {}

-----------------------------------------------------------------------------
Bin(d) == d[2] % size_hash

(* get_rpc has dereferenced NULL: the server has crashed. *)
ProxyDown == \E g \in Getter : getter[g].at = "crashed"

(* A put at a remote: what this remote has of the variable in the same bin *)
(* is evicted.                                                             *)
PutRemote(d) ==
  /\ \E evicted \in SUBSET {e \in remote_data : e[1] = d[1] /\ Bin(e) = Bin(d)} :
        remote_data' = (remote_data \ evicted) \cup {d}
  /\ UNCHANGED <<local_names, ps, getter, replaced>>

(* ls_add_obj at the server evicts an object only for another one of the   *)
(* same name: of the names none goes.                                      *)
PutLocal(v) ==
  /\ ~ ProxyDown
  /\ local_names' = local_names \cup {v}
  /\ UNCHANGED <<remote_data, ps, getter, replaced>>

(* ls_lookup: some object of the name, whatever the version. *)
ls_lookup(name) == name \in local_names

local_responsibility(d) == ls_lookup(d[1])

query_remotes_KeepsOld(d) ==
  IF ps[Bin(d)] = Nothing THEN [ps EXCEPT ![Bin(d)] = d] ELSE ps

(* query_remotes leaves the name of the new descriptor empty: in ps all    *)
(* data has the same name, and ls_add_obj evicts what was in the bin.      *)
query_remotes(d) == [ps EXCEPT ![Bin(d)] = d]

(* Getters that are told to fetch what is in ps. *)
ToFetch(S) == {g \in S : getter[g].at = "found"}

(* dspaces_get, its query.  When the remotes have the data, the descriptor *)
(* that the client gets back has no name.                                  *)
GetQuery(g, d) ==
  /\ ~ ProxyDown
  /\ getter[g].at \in {"idle", "done"}
  /\ \/ /\ local_responsibility(d) \/ d \notin remote_data
        /\ getter' = [getter EXCEPT ![g] = [at |-> "idle"]]
        /\ replaced' = replaced \ {g}
        /\ UNCHANGED ps
     \/ /\ ~ local_responsibility(d) /\ d \in remote_data
        /\ ps' = query_remotes(d)
        /\ getter' = [getter EXCEPT ![g] = [at |-> "found", want |-> d]]
        /\ replaced' = (replaced \ {g}) \cup
                          {h \in ToFetch(Getter \ {g}) :
                             Bin(getter[h].want) = Bin(d) /\ getter[h].want # d}
  /\ UNCHANGED <<remote_data, local_names>>

(* get_rpc for a descriptor without a name: ls_find in ps, which finds     *)
(* data of the version, of whatever variable, or NULL, which ssd_copy      *)
(* dereferences.                                                           *)
GetData(g) ==
  /\ ~ ProxyDown
  /\ getter[g].at = "found"
  /\ LET d == getter[g].want
         found == ps[Bin(d)]
     IN \/ /\ found # Nothing /\ found[2] = d[2]
           /\ getter' = [getter EXCEPT ![g] = [at |-> "done", want |-> d, got |-> found]]
        \/ /\ found = Nothing \/ found[2] # d[2]
           /\ getter' = [getter EXCEPT ![g] = [at |-> "crashed", want |-> d]]
  /\ UNCHANGED <<remote_data, local_names, ps, replaced>>

-----------------------------------------------------------------------------
ProxyNext ==
  \/ \E d \in Datum : PutRemote(d)
  \/ \E v \in RemoteVar : PutLocal(v)
  \/ \E g \in Getter, d \in Datum : GetQuery(g, d)
  \/ \E g \in Getter : GetData(g)

ProxySpec == ProxyInit /\ [][ProxyNext]_proxyVars

-----------------------------------------------------------------------------
(* A client gets the variable and the version it asked for (dspaces_get,   *)
(* query_remotes, get_rpc).                                                *)
RemoteGetExact ==
  \A g \in Getter : getter[g].at = "done" => getter[g].got = getter[g].want

(* However several clients get and sites put, a client that gets data from *)
(* a remote site gets the version it asked for; it gets another variable,  *)
(* or crashes the server, only when the query of another client has come   *)
(* between its own query and its get and has replaced its data in ps.      *)
MixedUpByAnother ==
  \A g \in Getter :
    /\ getter[g].at = "done" => getter[g].got[2] = getter[g].want[2]
    /\ getter[g].at = "done" /\ g \notin replaced => getter[g].got = getter[g].want
    /\ getter[g].at = "crashed" => g \in replaced
=============================================================================
