-------------------------------- MODULE Dht --------------------------------
(***************************************************************************)
(* One server's part of the distributed index: the dht_entry 'ent_self' of *)
(* a shared space, the descriptors that obj_update adds to it and the      *)
(* queries that wait on it.  (ss_data.c: dht_add_entry, dht_update_owner,  *)
(* dht_find_entry_all, dht_local_subscribe; dspaces-server.c: the loops of *)
(* get_query_odscs and odsc_internal_rpc that copy the descriptors found.) *)
(*                                                                         *)
(* A reader is one query in progress.  With timeout -1 it scans its bin    *)
(* and, when elements are missing, links a subscription and waits on the   *)
(* bin's condition variable, all under the bin's mutex.  With timeout 0 it *)
(* scans without the mutex.  Both then copy the descriptors through the    *)
(* pointers they collected, after the mutex has been released.             *)
(***************************************************************************)
EXTENDS Objects

CONSTANTS
  Reader,      \* queries in progress (each is one RPC handler)
  Share        \* the cells of the domain that this server indexes

ASSUME DhtAssumption == Share \subseteq Cell

(* Values of the timeout argument. *)
Wait == -1
Poll == 0

Query == [name : Name, version : Version, box : Box, timeout : {Wait, Poll}]

VARIABLES
  odsc_hash,   \* de->odsc_hash: per bin the descriptors, head of the list last
  dht_subs,    \* de->dht_subs: the readers whose subscription is linked
  q_odsc,      \* each reader's query
  pc,          \* where each reader is
  remaining,   \* sub.remaining
  tab,         \* odsc_tab: the entries each reader points at
  recv,        \* sub.recv_odsc: the entries its subscription has received
  snap,        \* the bin as it was when an unlocked read of it began
  result,      \* the descriptors a reader returns
  published,   \* history: the keys ever added
  avail        \* history: what was there for a reader, indexed or arriving

index == <<odsc_hash, published>>
local == <<tab, snap, result>>
vars == <<odsc_hash, dht_subs, q_odsc, pc, remaining, tab, recv, snap, result,
          published, avail>>

(* ssh_hash_elem_count: how many elements of a box this server indexes. *)
ssh_hash_elem_count(b) == Cardinality(b \cap Share)

BinOfReader(r) == BinOf(q_odsc[r].version)
Entries(r) == odsc_hash[BinOfReader(r)]

(* The elements a reader asks this server for. *)
Need(r) == q_odsc[r].box \cap Share

(* Those that no descriptor made available to the reader contains. *)
Missing(r) == Need(r) \ UNION {k.box : k \in avail[r]}

(* Readers inside dht_local_subscribe. *)
Blocked(r) == pc[r] \in {"wait", "woken"}

Init ==
  /\ odsc_hash = [n \in Bin |-> <<>>]
  /\ dht_subs = {}
  /\ q_odsc \in [Reader -> Query]
  /\ pc = [r \in Reader |-> "idle"]
  /\ remaining = [r \in Reader |-> 0]
  /\ tab = [r \in Reader |-> {}]
  /\ recv = [r \in Reader |-> {}]
  /\ snap = [r \in Reader |-> <<>>]
  /\ result = [r \in Reader |-> {}]
  /\ published = {}
  /\ avail = [r \in Reader |-> {}]

-----------------------------------------------------------------------------
(* dht_find_match: an entry of the descriptor's bin with the same name and *)
(* an overlapping box, whatever its version.                               *)
dht_find_match(d) ==
  {i \in DOMAIN odsc_hash[BinOf(d.version)] :
     obj_desc_by_name_intersect(d, odsc_hash[BinOf(d.version)][i])}

(* Where dht_add_entry writes the descriptor: over the first match, or in  *)
(* a new entry.                                                            *)
Slot(d) ==
  IF dht_find_match(d) # {} THEN FirstOf(dht_find_match(d))
                            ELSE Len(odsc_hash[BinOf(d.version)]) + 1

Written(list, i, d) == IF i \in DOMAIN list THEN [list EXCEPT ![i] = d]
                                            ELSE Append(list, d)

(* The linked subscriptions that a new descriptor counts for. *)
Interested(d) == {r \in dht_subs : obj_desc_equals_intersect(d, q_odsc[r])}

RemainingAfter_NotClipped(r, d) == remaining[r] - ssh_hash_elem_count(d.box)

RemainingAfter(r, d) ==
  remaining[r] - ssh_hash_elem_count(d.box \cap q_odsc[r].box)

(* The subscriptions it completes: they are unlinked. *)
Completed(d) == {r \in Interested(d) : RemainingAfter(r, d) = 0}

Broadcast_SignalsOne(d) ==
  LET waiting == {r \in Reader : pc[r] = "wait" /\ BinOfReader(r) = BinOf(d.version)}
  IN IF waiting # {} /\ Completed(d) # {}
     THEN \E r \in waiting : pc' = [pc EXCEPT ![r] = "woken"]
     ELSE UNCHANGED pc

(* ABT_cond_broadcast on the descriptor's bin. *)
Broadcast(d) ==
  pc' = [r \in Reader |->
           IF /\ pc[r] = "wait"
              /\ BinOfReader(r) = BinOf(d.version)
              /\ Completed(d) # {}
           THEN "woken" ELSE pc[r]]

(* Stored data is immutable: an application never puts the same elements   *)
(* of one version twice (dht_add_entry warns that the behavior of such     *)
(* updates is undefined).                                                  *)
Immutable(d) == \A k \in published : ~ obj_desc_equals_intersect(d, k)

(* dht_add_entry, under hash_mutex[n] from the search to the broadcast. *)
AddEntry(d) ==
  /\ Immutable(d)
  /\ odsc_hash' = [odsc_hash EXCEPT
                     ![BinOf(d.version)] = Written(@, Slot(d), d)]
  /\ recv' = [r \in Reader |->
                IF r \in Interested(d) THEN recv[r] \cup {Slot(d)} ELSE recv[r]]
  /\ remaining' = [r \in Reader |->
                     IF r \in Interested(d) THEN RemainingAfter(r, d)
                                            ELSE remaining[r]]
  /\ dht_subs' = dht_subs \ Completed(d)
  /\ Broadcast(d)
  /\ published' = published \cup {KeyOf(d)}
  /\ avail' = [r \in Reader |->
                 IF /\ Blocked(r)
                    /\ d.name = q_odsc[r].name
                    /\ d.version = q_odsc[r].version
                 THEN avail[r] \cup {KeyOf(d)} ELSE avail[r]]
  /\ UNCHANGED <<q_odsc, local>>

(* dht_find_exact: same name, version and box. *)
dht_find_exact(d) ==
  {i \in DOMAIN odsc_hash[BinOf(d.version)] :
     obj_desc_equals_no_owner(d, odsc_hash[BinOf(d.version)][i])}

(* dht_update_owner: the data moved to another process (drain).  It runs   *)
(* under the server's dht_mutex only.  Without a matching entry the call   *)
(* fails and changes nothing.                                              *)
UpdateOwner(d) ==
  /\ dht_find_exact(d) # {}
  /\ odsc_hash' = [odsc_hash EXCEPT
                     ![BinOf(d.version)][FirstOf(dht_find_exact(d))].owner = d.owner]
  /\ UNCHANGED <<dht_subs, q_odsc, pc, remaining, recv, local, published, avail>>

-----------------------------------------------------------------------------
(* The entries of a list that match a query. *)
Matching(list, r) ==
  {i \in DOMAIN list : obj_desc_equals_intersect(list[i], q_odsc[r])}

ElemLeft_IgnoresIndex(list, r) == ssh_hash_elem_count(q_odsc[r].box)

(* num_elem after the scan: the elements asked for less, for each match,   *)
(* the elements it has in common with the query.  The pairs count an       *)
(* element as often as the loop subtracts it.                              *)
ElemLeft(list, r) ==
  ssh_hash_elem_count(q_odsc[r].box)
    - Cardinality({p \in (DOMAIN list) \X Share :
                     /\ p[1] \in Matching(list, r)
                     /\ p[2] \in q_odsc[r].box \cap list[p[1]].box})

Indexed(list, r) == {KeyOf(list[i]) : i \in Matching(list, r)}

(* dht_find_entry_all with timeout -1, and the entry of                    *)
(* dht_local_subscribe: scan, then subscribe and start to wait, under      *)
(* hash_mutex[n].                                                          *)
FindEntryAll(r) ==
  /\ pc[r] = "idle"
  /\ q_odsc[r].timeout = Wait
  /\ tab' = [tab EXCEPT ![r] = Matching(Entries(r), r)]
  /\ avail' = [avail EXCEPT ![r] = Indexed(Entries(r), r)]
  /\ \/ /\ ElemLeft(Entries(r), r) > 0
        /\ remaining' = [remaining EXCEPT ![r] = ElemLeft(Entries(r), r)]
        /\ dht_subs' = dht_subs \cup {r}
        /\ pc' = [pc EXCEPT ![r] = "wait"]
     \/ /\ ElemLeft(Entries(r), r) <= 0
        /\ pc' = [pc EXCEPT ![r] = "found"]
        /\ UNCHANGED <<remaining, dht_subs>>
  /\ UNCHANGED <<odsc_hash, q_odsc, recv, snap, result, published>>

Wake_NoRecheck(r) ==
  /\ pc[r] = "woken"
  /\ tab' = [tab EXCEPT ![r] = @ \cup recv[r]]
  /\ pc' = [pc EXCEPT ![r] = "found"]
  /\ UNCHANGED <<index, dht_subs, q_odsc, remaining, recv, snap, result, avail>>

Wake_DropsReceived(r) ==
  /\ pc[r] = "woken"
  /\ pc' = [pc EXCEPT ![r] = IF remaining[r] > 0 THEN "wait" ELSE "found"]
  /\ UNCHANGED <<index, dht_subs, q_odsc, remaining, recv, tab, snap, result, avail>>

Wake_KeepsMutex(r) ==
  /\ pc[r] = "woken"
  /\ \A s \in Reader : recv[s] # {} /\ BinOfReader(s) = BinOfReader(r) => Blocked(s)
  /\ \/ /\ remaining[r] > 0
        /\ pc' = [pc EXCEPT ![r] = "wait"]
        /\ UNCHANGED tab
     \/ /\ remaining[r] <= 0
        /\ tab' = [tab EXCEPT ![r] = @ \cup recv[r]]
        /\ pc' = [pc EXCEPT ![r] = "found"]
  /\ UNCHANGED <<index, dht_subs, q_odsc, remaining, recv, snap, result, avail>>

(* The rest of dht_local_subscribe, after ABT_cond_wait has reacquired     *)
(* hash_mutex[n]: wait again, or append the received entries and unlock.   *)
Wake(r) ==
  /\ pc[r] = "woken"
  /\ \/ /\ remaining[r] > 0
        /\ pc' = [pc EXCEPT ![r] = "wait"]
        /\ UNCHANGED tab
     \/ /\ remaining[r] <= 0
        /\ tab' = [tab EXCEPT ![r] = @ \cup recv[r]]
        /\ pc' = [pc EXCEPT ![r] = "found"]
  /\ UNCHANGED <<index, dht_subs, q_odsc, remaining, recv, snap, result, avail>>

(* An unlocked read of entries that other handlers may overwrite meanwhile *)
(* sees, field by field, the old or the new value.                         *)
Torn(old, new) ==
  [name : {new.name}, version : {old.version, new.version},
   box : {old.box, new.box}, owner : {old.owner, new.owner}]

Views(old, new) ==
  {v \in [DOMAIN old -> UNION {Torn(old[i], new[i]) : i \in DOMAIN old}] :
     \A i \in DOMAIN old : v[i] \in Torn(old[i], new[i])}

BeginRead(r, from, to) ==
  /\ pc[r] = from
  /\ pc' = [pc EXCEPT ![r] = to]
  /\ snap' = [snap EXCEPT ![r] = Entries(r)]

(* dht_find_entry_all with timeout 0: the scan takes no lock. *)
PollBegin(r) ==
  /\ q_odsc[r].timeout = Poll
  /\ BeginRead(r, "idle", "scan")
  /\ avail' = [avail EXCEPT ![r] = Indexed(Entries(r), r)]
  /\ UNCHANGED <<index, dht_subs, q_odsc, remaining, tab, recv, result>>

PollEnd(r) ==
  /\ pc[r] = "scan"
  /\ \E view \in Views(snap[r], Entries(r)) :
       \/ /\ ElemLeft(view, r) > 0       \* incomplete: no descriptors returned
          /\ tab' = [tab EXCEPT ![r] = {}]
          /\ pc' = [pc EXCEPT ![r] = "done"]
       \/ /\ ElemLeft(view, r) <= 0
          /\ tab' = [tab EXCEPT ![r] = Matching(view, r)]
          /\ pc' = [pc EXCEPT ![r] = "found"]
  /\ snap' = [snap EXCEPT ![r] = <<>>]
  /\ UNCHANGED <<index, dht_subs, q_odsc, remaining, recv, result, avail>>

(* The loop "odsc = *podsc[i]; bbox_intersect(...)" of the query handlers, *)
(* which runs after hash_mutex[n] has been released.                       *)
CopyBegin(r) ==
  /\ BeginRead(r, "found", "copy")
  /\ UNCHANGED <<index, dht_subs, q_odsc, remaining, tab, recv, result, avail>>

CopyEnd(r) ==
  /\ pc[r] = "copy"
  /\ pc' = [pc EXCEPT ![r] = "done"]
  /\ \E view \in Views(snap[r], Entries(r)) :
       result' = [result EXCEPT ![r] =
                    {[view[i] EXCEPT !.box = @ \cap q_odsc[r].box] : i \in tab[r]}]
  /\ snap' = [snap EXCEPT ![r] = <<>>]
  /\ UNCHANGED <<index, dht_subs, q_odsc, remaining, tab, recv, avail>>

-----------------------------------------------------------------------------
Put == [name : Name, version : Version, box : Box, owner : Owner]

ReaderStep(r) ==
  \/ FindEntryAll(r)
  \/ Wake(r)
  \/ PollBegin(r)
  \/ PollEnd(r)
  \/ CopyBegin(r)
  \/ CopyEnd(r)

Next ==
  \/ \E d \in Put : AddEntry(d)
  \/ \E d \in Put : UpdateOwner(d)
  \/ \E r \in Reader : ReaderStep(r)

Spec == Init /\ [][Next]_vars

(* A handler that can run is eventually scheduled; nothing obliges an      *)
(* application to put anything.                                            *)
FairSpec == Spec /\ \A r \in Reader : WF_vars(ReaderStep(r))

-----------------------------------------------------------------------------
PC == {"idle", "scan", "wait", "woken", "found", "copy", "done"}

TypeOK ==
  /\ odsc_hash \in [Bin -> Seq(Descriptor)]
  /\ dht_subs \subseteq Reader
  /\ q_odsc \in [Reader -> Query]
  /\ pc \in [Reader -> PC]
  /\ remaining \in [Reader -> Nat]
  /\ tab \in [Reader -> SUBSET Nat]
  /\ recv \in [Reader -> SUBSET Nat]
  /\ snap \in [Reader -> Seq(Descriptor)]
  /\ result \in [Reader -> SUBSET Descriptor]
  /\ published \subseteq Key
  /\ avail \in [Reader -> SUBSET Key]

(* The counter of a linked subscription is exactly the number of elements  *)
(* that are still missing, whatever order puts and subscriptions came in:  *)
(* dht_add_entry and dht_find_entry_all together count every element once. *)
RemainingExact ==
  \A r \in dht_subs : remaining[r] = Cardinality(Missing(r)) /\ remaining[r] > 0

(* No lost wakeup: a reader waits on the condition variable only while its *)
(* subscription is linked and some element is missing.                     *)
NoLostWakeup ==
  \A r \in Reader : pc[r] = "wait" => r \in dht_subs /\ Missing(r) # {}

(* dht_subs links stack frames of dht_local_subscribe: none may be left in *)
(* the list after the function has returned.                               *)
NoDanglingSub == \A r \in dht_subs : Blocked(r)

(* The bin holds no other version of the variable. *)
BinUndisturbed(r) ==
  \A k \in published :
    /\ k.name = q_odsc[r].name
    /\ BinOf(k.version) = BinOfReader(r)
    => k.version = q_odsc[r].version

(* A query with timeout -1 returns descriptors of the version asked for    *)
(* that contain every element asked for, provided that no other version of *)
(* the variable shared the bin; with timeout 0 it does so or returns       *)
(* nothing, and nothing only if an element was missing when it began.      *)
ResultExact ==
  \A r \in Reader :
    pc[r] = "done" /\ BinUndisturbed(r) =>
      \/ /\ Need(r) \subseteq UNION {d.box : d \in result[r]}
         /\ \A d \in result[r] : /\ d.name = q_odsc[r].name
                                 /\ d.version = q_odsc[r].version
      \/ /\ q_odsc[r].timeout = Poll
         /\ result[r] = {}
         /\ Missing(r) # {}

(* The TODO above dht_local_subscribe: a subscription whose object is      *)
(* overwritten should fail, not return another version's descriptor.       *)
OverwrittenSubFails ==
  \A r \in Reader :
    pc[r] = "done" /\ q_odsc[r].timeout = Wait =>
      \A d \in result[r] : d.version = q_odsc[r].version

(* A blocked query is answered once every element it needs has arrived. *)
SubscriberServed ==
  \A r \in Reader : (Blocked(r) /\ Missing(r) = {}) ~> pc[r] = "done"

-----------------------------------------------------------------------------
(* The inductive invariant behind RemainingExact, NoLostWakeup and         *)
(* NoDanglingSub (proved in DhtProofs).                                    *)

(* An entry holds something that was published, in the bin of its version. *)
EntriesPublished ==
  \A n \in Bin : \A i \in DOMAIN odsc_hash[n] :
    /\ KeyOf(odsc_hash[n][i]) \in published
    /\ BinOf(odsc_hash[n][i].version) = n

(* No object is indexed twice in a bin. *)
EntriesDistinct ==
  \A n \in Bin : \A i, j \in DOMAIN odsc_hash[n] :
    KeyOf(odsc_hash[n][i]) = KeyOf(odsc_hash[n][j]) => i = j

(* Immutable storage: two objects of a version have no element in common. *)
PublishedDisjoint ==
  \A k, l \in published : obj_desc_equals_intersect(k, l) => k = l

(* What is available to a reader is published data of its version. *)
AvailPublished ==
  \A r \in Reader : \A k \in avail[r] :
    /\ k \in published
    /\ k.name = q_odsc[r].name
    /\ k.version = q_odsc[r].version

(* No reader ever points behind the end of its bin. *)
PointersValid ==
  \A r \in Reader :
    /\ tab[r] \subseteq DOMAIN Entries(r)
    /\ recv[r] \subseteq DOMAIN Entries(r)
    /\ DOMAIN snap[r] \subseteq DOMAIN Entries(r)
    /\ pc[r] = "copy" => tab[r] \subseteq DOMAIN snap[r]

(* A blocked reader counts exactly what it misses, and is linked as long   *)
(* as that is not zero; only blocked readers are linked.                   *)
CountExact ==
  \A r \in Reader :
    /\ Blocked(r) => /\ remaining[r] = Cardinality(Missing(r))
                     /\ r \in dht_subs <=> remaining[r] > 0
    /\ r \in dht_subs => Blocked(r)
    /\ pc[r] = "wait" => r \in dht_subs

IndInv ==
  /\ TypeOK
  /\ EntriesPublished
  /\ EntriesDistinct
  /\ PublishedDisjoint
  /\ AvailPublished
  /\ PointersValid
  /\ CountExact
=============================================================================
