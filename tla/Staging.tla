------------------------------ MODULE Staging ------------------------------
(***************************************************************************)
(* The path of data from dspaces_put to dspaces_get through a group of     *)
(* servers: put_rpc stores an object in its server's local storage         *)
(* (ls_add_obj), answers, and then tells the servers that index its box    *)
(* (obj_update_dht, obj_update_rpc, dht_add_entry); a get with timeout -1  *)
(* collects descriptors from these servers (query_rpc, get_query_odscs,    *)
(* odsc_internal_rpc) and fetches the data from the owners they name       *)
(* (get_data, get_rpc, ls_find).                                           *)
(*                                                                         *)
(* The wait inside one server's index is the subject of module Dht.  Here  *)
(* it is reduced to its result: a query that has reached a server collects *)
(* pointers to the entries that are there and to those that arrive until   *)
(* they suffice, and copies the entries later, after hash_mutex has been   *)
(* released.  Entries are overwritten in place and never unlinked: the     *)
(* index of an entry stands for its address.  Lists have their head at the *)
(* end, as in module Objects.                                              *)
(***************************************************************************)
EXTENDS Objects, SequencesExt

CONSTANTS
  Share,       \* ssd_hash: for each server the cells that it indexes
  Reader,      \* gets in progress
  MaxPuts      \* bound on the number of puts

Server == Owner

ASSUME StagingAssumption ==
  /\ MaxPuts \in Nat
  /\ Share \in [Server -> SUBSET Cell]
  /\ UNION {Share[s] : s \in Server} = Cell
  /\ \A s, t \in Server : s # t => Share[s] \cap Share[t] = {}

(* The descriptors that get_odscs may send in a query. *)
Query == [name : Name, version : Version, box : Box]

VARIABLES
  obj_hash,    \* per server ls->obj_hash: the stored objects, by bin
  odsc_hash,   \* per server ent_self->odsc_hash: the indexed descriptors
  updating,    \* puts that were answered, with the servers still to be told
  net,         \* obj_update requests on their way
  pc, q_odsc,  \* where each reader is, and what it asks for
  found,       \* at the servers a query has reached: odsc_tab, the entries it
               \* points to, and the elements that it still waits for
  answered,    \* the servers that have copied the entries and answered
  odscs,       \* the descriptors that were copied and whose data is not fetched
  data,        \* the objects it has fetched
  down,        \* servers whose process has ended in a null pointer
  puts         \* history: the objects that were put

vars == <<obj_hash, odsc_hash, updating, net, pc, q_odsc, found, answered, odscs,
          data, down, puts>>
stores == <<obj_hash, odsc_hash, updating, net, down, puts>>
readers == <<pc, q_odsc, found, answered, odscs, data>>

Init ==
  /\ obj_hash = [s \in Server |-> [n \in Bin |-> <<>>]]
  /\ odsc_hash = [s \in Server |-> [n \in Bin |-> <<>>]]
  /\ updating = {}
  /\ net = {}
  /\ pc = [r \in Reader |-> "idle"]
  /\ q_odsc \in [Reader -> Query]
  /\ found = [r \in Reader |-> << >>]
  /\ answered = [r \in Reader |-> {}]
  /\ odscs = [r \in Reader |-> {}]
  /\ data = [r \in Reader |-> {}]
  /\ down = {}
  /\ puts = {}

-----------------------------------------------------------------------------
(* The servers that index a box. *)
ssd_hash(box) == {s \in Server : Share[s] \cap box # {}}

(* The entries of a list that overlap a descriptor, whatever their version. *)
Overlapping(list, d) ==
  {i \in DOMAIN list : obj_desc_by_name_intersect(d, list[i])}

ls_add_obj_KeepsOld(list, d) ==
  IF Overlapping(list, d) = {} THEN Append(list, d) ELSE list

(* ls_add_obj: the first object that overlaps the new one is evicted       *)
(* (ls_find_no_version), the new one becomes the head of the list.         *)
ls_add_obj(list, d) ==
  IF Overlapping(list, d) = {} THEN Append(list, d)
  ELSE Append(RemoveAt(list, FirstOf(Overlapping(list, d))), d)

(* dht_find_match: the entry that a descriptor is written to. *)
dht_find_match(list, d) ==
  IF Overlapping(list, d) = {} THEN Len(list) + 1 ELSE FirstOf(Overlapping(list, d))

(* dht_add_entry: the first entry that overlaps is overwritten in place.   *)
dht_add_entry(list, d) ==
  IF Overlapping(list, d) = {} THEN Append(list, d)
  ELSE [list EXCEPT ![dht_find_match(list, d)] = d]

(* Applications put each element of a version once, and write versions in  *)
(* increasing order.                                                       *)
MayPut(d) ==
  /\ Cardinality(puts) < MaxPuts
  /\ \A p \in puts : ~ obj_desc_equals_intersect(d, p) /\ p.version <= d.version

(* put_rpc on server d.owner, up to margo_respond. *)
PutRpc(d) ==
  /\ MayPut(d)
  /\ d.owner \notin down
  /\ obj_hash' = [obj_hash EXCEPT ![d.owner][BinOf(d.version)] = ls_add_obj(@, d)]
  /\ updating' = updating \cup {[odsc |-> d, todo |-> ssd_hash(d.box)]}
  /\ puts' = puts \cup {d}
  /\ UNCHANGED <<odsc_hash, net, down, readers>>

ObjUpdate_NotifiesNobody(s, d) ==
  /\ odsc_hash' = [odsc_hash EXCEPT ![s][BinOf(d.version)] = dht_add_entry(@, d)]
  /\ UNCHANGED found

(* obj_update_local_dht and obj_update_rpc, DS_OBJ_NEW: the index of       *)
(* server s gets the descriptor, and the queries that wait there for it a  *)
(* pointer to its entry.                                                   *)
ObjUpdate(s, d) ==
  LET list == odsc_hash[s][BinOf(d.version)] IN
  /\ odsc_hash' = [odsc_hash EXCEPT ![s][BinOf(d.version)] = dht_add_entry(@, d)]
  /\ found' = [r \in Reader |->
                 [t \in DOMAIN found[r] |->
                    IF /\ t = s
                       /\ found[r][t].left # {}
                       /\ obj_desc_equals_intersect(d, q_odsc[r])
                    THEN [tab |-> found[r][t].tab \cup {dht_find_match(list, d)},
                          left |-> found[r][t].left \ d.box]
                    ELSE found[r][t]]]

(* One turn of the loop of obj_update_dht, after the put was answered: the *)
(* local index is updated at once, another server is sent an obj_update.   *)
ObjUpdateDht(u, t) ==
  /\ u \in updating
  /\ t \in u.todo
  /\ u.odsc.owner \notin down
  /\ updating' = (updating \ {u}) \cup
       {w \in {[u EXCEPT !.todo = @ \ {t}]} : w.todo # {}}
  /\ \/ t = u.odsc.owner /\ ObjUpdate(t, u.odsc) /\ UNCHANGED net
     \/ /\ t # u.odsc.owner
        /\ net' = net \cup {[odsc |-> u.odsc, to |-> t]}
        /\ UNCHANGED <<odsc_hash, found>>
  /\ UNCHANGED <<obj_hash, down, puts, pc, q_odsc, answered, odscs, data>>

(* obj_update_rpc; requests are handled in any order. *)
ObjUpdateRpc(m) ==
  /\ m \in net
  /\ m.to \notin down
  /\ net' = net \ {m}
  /\ ObjUpdate(m.to, m.odsc)
  /\ UNCHANGED <<obj_hash, updating, down, puts, pc, q_odsc, answered, odscs, data>>

-----------------------------------------------------------------------------
(* dspaces_get with timeout -1 *)
DspacesGet(r) ==
  /\ pc[r] = "idle"
  /\ pc' = [pc EXCEPT ![r] = "query"]
  /\ UNCHANGED <<stores, q_odsc, found, answered, odscs, data>>

(* The query reaches a server that indexes part of the box                 *)
(* (odsc_internal_rpc, or get_query_odscs itself): dht_find_entry_all      *)
(* takes pointers to the entries of the version, and waits for the rest.   *)
FindEntries(r, s) ==
  LET q == q_odsc[r]
      list == odsc_hash[s][BinOf(q.version)]
      tab == {i \in DOMAIN list : obj_desc_equals_intersect(list[i], q)}
      left == (q.box \cap Share[s]) \ UNION {list[i].box : i \in tab}
  IN
  /\ pc[r] = "query"
  /\ s \in ssd_hash(q.box) \ (DOMAIN found[r] \cup down)
  /\ found' = [found EXCEPT ![r] =
                 [t \in DOMAIN @ \cup {s} |->
                    IF t = s THEN [tab |-> tab, left |-> left] ELSE @[t]]]
  /\ UNCHANGED <<stores, pc, q_odsc, answered, odscs, data>>

(* bbox_intersect with the box of the query.  (Of two boxes that do not    *)
(* overlap it makes one that ends before it begins; here, the empty set.)  *)
Clip(d, q) == [d EXCEPT !.box = @ \cap q.box]

(* What the entries that a query points to hold by now, clipped to it. *)
Copied(r, s) ==
  LET list == odsc_hash[s][BinOf(q_odsc[r].version)]
  IN {Clip(list[i], q_odsc[r]) : i \in found[r][s].tab}

(* After the unlock the entries are copied and sent as the answer of this  *)
(* server; duplicates are dropped.  (Each is copied in one step: a copy    *)
(* torn by an update at the same time mixes two objects of the bin.)       *)
CopyEntries(r, s) ==
  /\ pc[r] = "query"
  /\ s \in DOMAIN found[r] \ (answered[r] \cup down)
  /\ found[r][s].left = {}
  /\ odscs' = [odscs EXCEPT ![r] = @ \cup Copied(r, s)]
  /\ answered' = [answered EXCEPT ![r] = @ \cup {s}]
  /\ UNCHANGED <<stores, pc, q_odsc, found, data>>

QueryRpc_FirstAnswer(r) ==
  /\ pc[r] = "query"
  /\ answered[r] # {}
  /\ pc' = [pc EXCEPT ![r] = "fetch"]
  /\ found' = [found EXCEPT ![r] = << >>]
  /\ answered' = [answered EXCEPT ![r] = {}]
  /\ UNCHANGED <<stores, q_odsc, odscs, data>>

(* query_rpc answers once all the servers of the box have, and frees its   *)
(* tables.                                                                 *)
QueryRpc(r) ==
  /\ pc[r] = "query"
  /\ ssd_hash(q_odsc[r].box) \subseteq answered[r]
  /\ pc' = [pc EXCEPT ![r] = "fetch"]
  /\ found' = [found EXCEPT ![r] = << >>]
  /\ answered' = [answered EXCEPT ![r] = {}]
  /\ UNCHANGED <<stores, q_odsc, odscs, data>>

ls_find_SameBox(s, d) ==
  LET list == obj_hash[s][BinOf(d.version)]
  IN {i \in DOMAIN list : obj_desc_equals_no_owner(d, list[i])}

(* ls_find: the first object of the version that overlaps. *)
ls_find(s, d) ==
  LET list == obj_hash[s][BinOf(d.version)]
  IN {i \in DOMAIN list : obj_desc_equals_intersect(d, list[i])}

(* get_rpc on the owner: the elements that the object found has in common  *)
(* with the descriptor are copied.  A box that ends before it begins may   *)
(* be found to overlap one, but has no elements.                           *)
GetRpc(r, d) ==
  LET list == obj_hash[d.owner][BinOf(d.version)] IN
  /\ pc[r] = "fetch"
  /\ d \in odscs[r]
  /\ d.owner \notin down
  /\ odscs' = [odscs EXCEPT ![r] = @ \ {d}]
  /\ \/ /\ ls_find(d.owner, d) # {}
        /\ data' = [data EXCEPT ![r] = @ \cup {Clip(list[FirstOf(ls_find(d.owner, d))], d)}]
     \/ d.box = {} /\ UNCHANGED data
  /\ UNCHANGED <<stores, pc, q_odsc, found, answered>>

(* get_rpc does not find the object: ssd_copy dereferences a null pointer, *)
(* with ls_mutex held, and the server is gone.                             *)
GetRpcFaults(r, d) ==
  /\ pc[r] = "fetch"
  /\ d \in odscs[r]
  /\ d.owner \notin down
  /\ ls_find(d.owner, d) = {}
  /\ down' = down \cup {d.owner}
  /\ UNCHANGED <<obj_hash, odsc_hash, updating, net, puts, readers>>

(* get_data on the client has an answer for each descriptor it has sent    *)
(* and copied them all.                                                    *)
GetData(r) ==
  /\ pc[r] = "fetch"
  /\ odscs[r] = {}
  /\ pc' = [pc EXCEPT ![r] = "done"]
  /\ UNCHANGED <<stores, q_odsc, found, answered, odscs, data>>

(* For a box that ends before it begins get_data can fail to allocate a    *)
(* buffer, and dereferences a null pointer.                                *)
GetDataFaults(r) ==
  /\ pc[r] = "fetch"
  /\ \E d \in odscs[r] : d.box = {}
  /\ pc' = [pc EXCEPT ![r] = "crashed"]
  /\ UNCHANGED <<stores, q_odsc, found, answered, odscs, data>>

-----------------------------------------------------------------------------
(* The objects that dspaces_put may send to a server. *)
Put == [name : Name, version : Version, box : Box, owner : Server]

ServerStep ==
  \/ \E u \in updating : \E t \in u.todo : ObjUpdateDht(u, t)
  \/ \E m \in net : ObjUpdateRpc(m)

ReaderStep(r) ==
  \/ DspacesGet(r)
  \/ \E s \in Server : FindEntries(r, s) \/ CopyEntries(r, s)
  \/ QueryRpc(r)
  \/ \E d \in odscs[r] : GetRpc(r, d) \/ GetRpcFaults(r, d)
  \/ GetData(r)
  \/ GetDataFaults(r)

Next ==
  \/ \E d \in Put : PutRpc(d)
  \/ ServerStep
  \/ \E r \in Reader : ReaderStep(r)

Spec == Init /\ [][Next]_vars

(* Handlers run and requests arrive; nobody has to put or get anything. *)
FairSpec ==
  /\ Spec
  /\ WF_vars(ServerStep)
  /\ \A r \in Reader : WF_vars(ReaderStep(r) /\ pc[r] # "idle")

-----------------------------------------------------------------------------
TypeOK ==
  /\ obj_hash \in [Server -> [Bin -> Seq(Descriptor)]]
  /\ odsc_hash \in [Server -> [Bin -> Seq(Descriptor)]]
  /\ updating \subseteq [odsc : Descriptor, todo : SUBSET Server \ {{}}]
  /\ net \subseteq [odsc : Descriptor, to : Server]
  /\ pc \in [Reader -> {"idle", "query", "fetch", "done", "crashed"}]
  /\ q_odsc \in [Reader -> Query]
  /\ \A r \in Reader :
       /\ DOMAIN found[r] \subseteq Server
       /\ \A s \in DOMAIN found[r] : found[r][s] \in [tab : SUBSET Nat, left : SUBSET Cell]
  /\ answered \in [Reader -> SUBSET Server]
  /\ odscs \in [Reader -> SUBSET Descriptor]
  /\ data \in [Reader -> SUBSET Descriptor]
  /\ down \subseteq Server
  /\ puts \subseteq Descriptor

Stored(s) == UNION {Range(obj_hash[s][n]) : n \in Bin}
Indexed(s) == UNION {Range(odsc_hash[s][n]) : n \in Bin}

(* Some later object displaced the descriptor's: another version that      *)
(* shares its bin and overlaps it.                                         *)
Displaced(d) ==
  \E p \in puts : /\ BinOf(p.version) = BinOf(d.version)
                  /\ obj_desc_by_name_intersect(p, d)
                  /\ p.version > d.version

(* Some of the data that a query asks for was displaced. *)
DisplacedFor(q) ==
  \E p \in puts : obj_desc_equals_intersect(p, q) /\ Displaced(p)

(* The index never names an owner that does not have the object, unless    *)
(* the object was displaced by a newer version of its bin.                 *)
IndexBacked ==
  \A s \in Server : \A d \in Indexed(s) : d \in Stored(d.owner) \/ Displaced(d)

(* Some of the data that a query asks for shares its bin and an element    *)
(* with another version: older or newer, inside or outside of the query.   *)
Overwritten(q) ==
  \E p, o \in puts : /\ obj_desc_equals_intersect(p, q)
                     /\ BinOf(o.version) = BinOf(q.version)
                     /\ o.version # q.version
                     /\ obj_desc_by_name_intersect(p, o)

(* A get with timeout -1 returns nothing but elements of its box, of the   *)
(* variable it asked for and of a version of that bin, whatever was        *)
(* overwritten or evicted between the scan of the index, the copy of its   *)
(* entries and the fetch; and it returns all the elements, in the version  *)
(* it asked for, unless an object it needs shares its bin and an element   *)
(* with another version.                                                   *)
GetExact ==
  \A r \in Reader :
    LET q == q_odsc[r] IN
    /\ \A d \in data[r] : /\ d.name = q.name
                          /\ BinOf(d.version) = BinOf(q.version)
                          /\ d.box \subseteq q.box
    /\ pc[r] = "done" /\ ~ Overwritten(q) =>
         /\ UNION {d.box : d \in data[r]} = q.box
         /\ \A d \in data[r] : d.version = q.version

(* get_rpc meets a null pointer, and get_data one for a box without        *)
(* elements, only for a get of data that shares its bin and an element     *)
(* with another version: the object was evicted, or the entry overwritten, *)
(* after the get had found it.                                             *)
FaultsExplained ==
  /\ \A s \in down : \E r \in Reader :
       Overwritten(q_odsc[r]) /\ \E d \in odscs[r] : d.owner = s
  /\ \A r \in Reader : pc[r] = "crashed" => Overwritten(q_odsc[r])

(* "Version of the variable": what a get returns is of the one it asked    *)
(* for, although the entries that named it were overwritten after the scan.*)
GetsItsVersion ==
  \A r \in Reader : \A d \in data[r] : d.version = q_odsc[r].version

(* The elements of a query that have been put. *)
Written(q) ==
  UNION {p.box : p \in {p \in puts : p.name = q.name /\ p.version = q.version}}

(* A get with timeout -1 returns once all the requested data has been put, *)
(* if no object it needs shares its bin and an element with another        *)
(* version, and no server is brought down by another get.                  *)
GetServedAlone ==
  \A r \in Reader :
    (pc[r] = "query" /\ q_odsc[r].box \subseteq Written(q_odsc[r])
                     /\ [](~ Overwritten(q_odsc[r]) /\ down = {})) ~> pc[r] = "done"

(* The same of a version that no newer version displaces: "the reader will *)
(* wait for all the requested data to be written".                         *)
GetServed ==
  \A r \in Reader :
    (pc[r] = "query" /\ q_odsc[r].box \subseteq Written(q_odsc[r])
                     /\ [](~ DisplacedFor(q_odsc[r]))) ~> pc[r] = "done"
=============================================================================
