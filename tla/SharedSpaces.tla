---------------------------- MODULE SharedSpaces ----------------------------
(***************************************************************************)
(* The shared spaces of one server.  A client may give each variable a     *)
(* domain of its own (dspaces_define_gdim), and sends it with its          *)
(* requests.  A handler looks for the space of that domain, makes one if   *)
(* there is none (lookup_sspace, under sspace_mutex), and then finds the   *)
(* servers that index the box of the request (ssd_hash), through a cache   *)
(* that all spaces share and that no lock protects (sh_find, sh_add).      *)
(*                                                                         *)
(* A space is determined by its domain, so that a global dimension (a      *)
(* sequence of sizes) stands for its space.                                *)
(***************************************************************************)
EXTENDS Boxes, FiniteSetsExt

CONSTANTS
  default_gdim,     \* the domain of the configuration file
  Gdim,             \* the domains in use
  BoxesOf,          \* the boxes that requests ask for, by domain
  Var,              \* variables
  Handler,          \* requests
  Version,          \* the hash version by domain
  HashOf,           \* by domain and box the servers that ssd_hash computes
  OwnersOf,         \* by domain and element the servers that index it
  CountOf           \* by domain, box and server the elements that it reckons to index

SizeAt(g, i) == IF i \in DOMAIN g THEN g[i] ELSE 0

(* Only the dimensions of g1 are looked at. *)
global_dimension_equal(g1, g2) == \A i \in DOMAIN g1 : g1[i] = SizeAt(g2, i)

(* Domains for which the code works: none is a prefix of the default one,  *)
(* which it would be taken for.                                            *)
ASSUME GdimAssumption ==
  /\ Gdim \subseteq Seq(Nat) /\ default_gdim \in Gdim
  /\ \A g \in Gdim : g # default_gdim => ~ global_dimension_equal(g, default_gdim)

VARIABLES
  gdim_list,        \* client: the domains that were defined
  sspace_list,      \* server: the spaces besides the default one
  sspace_mutex,     \* the handlers that hold it
  sfc_hash_list,    \* the cache of ssd_hash; of: the space of an entry
  pc, gdim, q_bb,     \* where a request is, and what it asks for
  ssd,              \* the space that was found for it
  de_tab             \* the servers found for it

spaceVars == <<gdim_list, sspace_list, sspace_mutex, sfc_hash_list, pc, gdim, q_bb,
               ssd, de_tab>>

(* A request that has not been made. *)
NoBox == BoxOfSize(default_gdim)

SpaceInit ==
  /\ gdim_list = << >>
  /\ sspace_list = <<>>
  /\ sspace_mutex = {}
  /\ sfc_hash_list = <<>>
  /\ pc = [h \in Handler |-> "idle"]
  /\ gdim = [h \in Handler |-> default_gdim]
  /\ q_bb = [h \in Handler |-> NoBox]
  /\ ssd = [h \in Handler |-> default_gdim]
  /\ de_tab = [h \in Handler |-> {}]

-----------------------------------------------------------------------------
lookup_gdim_list(v) == v \in DOMAIN gdim_list

(* What was there is replaced. *)
update_gdim_list(v, g) ==
  [w \in DOMAIN gdim_list \cup {v} |-> IF w = v THEN g ELSE gdim_list[w]]

(* dspaces_define_gdim, as long as requests are still to come. *)
DefineGdim(v, g) ==
  /\ \E h \in Handler : pc[h] = "idle"
  /\ gdim_list' = update_gdim_list(v, g)
  /\ UNCHANGED <<sspace_list, sspace_mutex, sfc_hash_list, pc, gdim, q_bb, ssd, de_tab>>

set_global_dimension(v) == IF lookup_gdim_list(v) THEN gdim_list[v] ELSE default_gdim

(* A put or a query of a box of variable v arrives. *)
Request(h, v) ==
  LET g == set_global_dimension(v)
  IN /\ pc[h] = "idle"
     /\ \E b \in BoxesOf[g] : q_bb' = [q_bb EXCEPT ![h] = b]
     /\ pc' = [pc EXCEPT ![h] = "lookup"]
     /\ gdim' = [gdim EXCEPT ![h] = g]
     /\ UNCHANGED <<gdim_list, sspace_list, sspace_mutex, sfc_hash_list, ssd, de_tab>>

LockSspace_Missing(h) == sspace_mutex' = sspace_mutex \cup {h}

LockSspace(h) == sspace_mutex = {} /\ sspace_mutex' = {h}

(* lookup_sspace, the search.  The mutex is released if it succeeds.       *)
LookupSspace(h) ==
  /\ pc[h] = "lookup"
  /\ LockSspace(h)
  /\ pc' = [pc EXCEPT ![h] = "search"]
  /\ UNCHANGED <<gdim_list, sspace_list, sfc_hash_list, gdim, q_bb, ssd, de_tab>>

SearchSspace(h) ==
  LET g == gdim[h]
      Same(i) == Len(sspace_list[i]) = Len(g) /\ global_dimension_equal(g, sspace_list[i])
      hits == {i \in DOMAIN sspace_list : Same(i)}
      Found(s) ==
        /\ ssd' = [ssd EXCEPT ![h] = s]
        /\ pc' = [pc EXCEPT ![h] = "find"]
        /\ sspace_mutex' = sspace_mutex \ {h}
  IN /\ pc[h] = "search"
     /\ \/ global_dimension_equal(g, default_gdim) /\ Found(default_gdim)
        \/ /\ ~ global_dimension_equal(g, default_gdim)
           /\ hits # {}
           /\ Found(sspace_list[Min(hits)])
        \/ /\ ~ global_dimension_equal(g, default_gdim)
           /\ hits = {}
           /\ pc' = [pc EXCEPT ![h] = "alloc"]
           /\ UNCHANGED <<ssd, sspace_mutex>>
     /\ UNCHANGED <<gdim_list, sspace_list, sfc_hash_list, gdim, q_bb, de_tab>>

(* lookup_sspace, the new space; list_add puts it in front. *)
AllocSspace(h) ==
  /\ pc[h] = "alloc"
  /\ sspace_list' = <<gdim[h]>> \o sspace_list
  /\ ssd' = [ssd EXCEPT ![h] = gdim[h]]
  /\ sspace_mutex' = sspace_mutex \ {h}
  /\ pc' = [pc EXCEPT ![h] = "find"]
  /\ UNCHANGED <<gdim_list, sfc_hash_list, gdim, q_bb, de_tab>>

(* The cached answer for a box: of the first entry, if it names servers. *)
sh_find(b) ==
  LET hits == {i \in DOMAIN sfc_hash_list : bbox_equals(b, sfc_hash_list[i].bb)}
  IN IF hits = {} THEN {} ELSE sfc_hash_list[Min(hits)].nodes

(* ssd_hash up to the miss.  v0 has no cache. *)
FindNodes(h) ==
  LET cached == IF Version[ssd[h]] = "v0" THEN {0} ELSE sh_find(q_bb[h])
  IN /\ pc[h] = "find"
     /\ de_tab' = [de_tab EXCEPT ![h] = cached]
     /\ pc' = [pc EXCEPT ![h] = IF cached = {} THEN "hash" ELSE "done"]
     /\ UNCHANGED <<gdim_list, sspace_list, sspace_mutex, sfc_hash_list, gdim, q_bb, ssd>>

(* ssd_hash after a miss.  sh_add links its entry without a lock: one of   *)
(* two entries that are added at the same time may be lost.                *)
HashNodes(h) ==
  /\ pc[h] = "hash"
  /\ de_tab' = [de_tab EXCEPT ![h] = HashOf[ssd[h]][q_bb[h]]]
  /\ \/ sfc_hash_list' = Append(sfc_hash_list,
                                [bb |-> q_bb[h], nodes |-> de_tab'[h], of |-> ssd[h]])
     \/ (\E k \in Handler \ {h} : pc[k] = "hash") /\ UNCHANGED sfc_hash_list
  /\ pc' = [pc EXCEPT ![h] = "done"]
  /\ UNCHANGED <<gdim_list, sspace_list, sspace_mutex, gdim, q_bb, ssd>>

SpaceNext ==
  \/ \E v \in Var, g \in Gdim : DefineGdim(v, g)
  \/ \E h \in Handler :
       \/ \E v \in Var : Request(h, v)
       \/ LookupSspace(h)
       \/ SearchSspace(h)
       \/ AllocSspace(h)
       \/ FindNodes(h)
       \/ HashNodes(h)

SpaceSpec == SpaceInit /\ [][SpaceNext]_spaceVars

-----------------------------------------------------------------------------
IsHashed(h) == Version[ssd[h]] # "v0"

(* The servers that index some element of a request's box. *)
Owners(h) ==
  UNION {owners[c] : owners \in {OwnersOf[ssd[h]]}, c \in Cells(q_bb[h])}

(* lookup_sspace never adds a second space for the same global dimensions, *)
(* however requests race: what is indexed in one would not be found in the *)
(* other.                                                                  *)
OneSpacePerGdim ==
  \A i, j \in DOMAIN sspace_list : sspace_list[i] = sspace_list[j] => i = j

(* A put tells, and a query asks, every server that indexes an element of  *)
(* the box (ssd_hash).                                                     *)
HashFindsOwners ==
  \A h \in Handler : pc[h] = "done" /\ IsHashed(h) => Owners(h) \subseteq de_tab[h]

(* The same, as long as the box was only used in one space of this server: *)
(* the cache, racing updates of it included, then changes nothing.         *)
HashFindsOwnersAlone ==
  \A h \in Handler :
    /\ pc[h] = "done"
    /\ IsHashed(h)
    /\ \A i \in DOMAIN sfc_hash_list :
         sfc_hash_list[i].bb = q_bb[h] => sfc_hash_list[i].of = ssd[h]
    => Owners(h) \subseteq de_tab[h]

(* Each element is indexed by one server, and the number of elements that  *)
(* a server reckons to index of a box (ssh_hash_elem_count, which decides  *)
(* how long a query waits) is the number it does index.                    *)
ElemCountExact ==
  \A h \in Handler : pc[h] = "done" /\ IsHashed(h) =>
    \A owners \in {OwnersOf[ssd[h]]}, count \in {CountOf[ssd[h]][q_bb[h]]} :
      /\ \A c \in Cells(q_bb[h]) : Cardinality(owners[c]) = 1
      /\ \A r \in UNION {owners[c] : c \in Cells(q_bb[h])} :
           count[r] = Cardinality({c \in Cells(q_bb[h]) : r \in owners[c]})
=============================================================================
