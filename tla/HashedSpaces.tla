---------------------------- MODULE HashedSpaces ----------------------------
(***************************************************************************)
(* The tables of SharedSpaces as the hashing fills them, and what they are *)
(* to have in common.                                                      *)
(***************************************************************************)
EXTENDS BisectedSpaces, Hash

CONSTANT hash_version    \* of the configuration file

(* The longest side is not 2 (nor 2^k + 1 where the curve is asked for),   *)
(* for which the virtual domain is too small.                              *)
ASSUME SideAssumption ==
  /\ hash_version \in {"auto", "v2"}
  /\ \A g \in Gdim : Max({g[i] : i \in DOMAIN g}) # 2

(* What the hashing computes, tabulated by domain and box (TLC evaluates   *)
(* f @@ << >> completely, and a constant once).                            *)
Tabulated(f) == f @@ << >>

SpaceOf == Tabulated([g \in Gdim |-> ssd_alloc(BoxOfSize(g), hash_version)])

HashedIn(ss, boxes) == Tabulated([b \in boxes |-> ssd_hash(ss, b)])

HashTable == Tabulated([g \in Gdim |-> HashedIn(SpaceOf[g], BoxesOf[g])])

VersionTable == Tabulated([g \in Gdim |-> VersionFor(BoxOfSize(g), hash_version)])

-----------------------------------------------------------------------------
(* The servers that index one element of a space, from their intervals or  *)
(* boxes.                                                                  *)
IndexedBy(ss, c) ==
  CASE ss.hash_version = "v0" -> {0}
    [] ss.hash_version = "v1" ->
         LET index == hilbert_c2i(Len(c), compute_bits(ss.max_dim), c)
         IN {r \in Rank : \E j \in DOMAIN ss.ent_tab[r] :
               ss.ent_tab[r][j].lb <= index /\ index <= ss.ent_tab[r][j].ub}
    [] ss.hash_version = "v2" -> IndexedBy_v2(ss, c)

IndexedIn(ss) == Tabulated([c \in Cells(ss.domain) |-> IndexedBy(ss, c)])

OwnerTable == Tabulated([g \in Gdim |-> IndexedIn(SpaceOf[g])])

CountedIn(ss, boxes) ==
  Tabulated([b \in boxes |->
    [r \in {r \in Rank : ss.ent_tab[r] # <<>>} |-> ssh_hash_elem_count(ss, r, b)]])

CountTable == Tabulated([g \in Gdim |->
                           IF VersionTable[g] = "v0" THEN << >> ELSE CountedIn(SpaceOf[g], BoxesOf[g])])

(* Indices of the curve: those in the intervals of a box, and those of its *)
(* elements.                                                               *)
IndicesIn(max_dim, boxes) ==
  Tabulated([b \in boxes |->
    [found |-> UNION {itv.lb .. itv.ub : itv \in Range(bbox_to_intv2(b, max_dim))},
     wanted |-> {hilbert_c2i(Len(c), compute_bits(max_dim), c) : c \in Cells(b)}]])

IndicesOf == Tabulated([g \in {g \in Gdim : VersionTable[g] = "v1"} |->
                          IndicesIn(VirtualSize(BoxOfSize(g)), BoxesOf[g])])

(* The intervals that bbox_to_intv2 finds for a box, with a ring that had  *)
(* to grow or not, hold the curve's indices of its elements and no others. *)
IntervalsExact ==
  \A h \in Handler : pc[h] = "done" /\ Version[ssd[h]] = "v1" =>
    \A indices \in {IndicesOf[ssd[h]][q_bb[h]]} : indices.found = indices.wanted
=============================================================================
