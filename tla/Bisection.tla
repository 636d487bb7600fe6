----------------------------- MODULE Bisection -----------------------------
(***************************************************************************)
(* How hash version v2 distributes the domain of a shared space over the   *)
(* servers (ss_data.c): the domain is bisected repeatedly, and the parts   *)
(* are dealt out.                                                          *)
(*                                                                         *)
(* A space is a record: the domain, the hash version, the size of the      *)
(* virtual domain (v1) and ent_tab, which gives the intervals (v1) or      *)
(* boxes (v2) of every server.  The queues of the code are sequences.      *)
(***************************************************************************)
EXTENDS Boxes, FiniteSetsExt

CONSTANT size_sp        \* number of servers

ASSUME SizeAssumption == size_sp \in Nat \ {0}

Rank == 0 .. size_sp - 1

Space(bb_domain, hash_version, max_dim, ent_tab) ==
  [domain |-> bb_domain, hash_version |-> hash_version, max_dim |-> max_dim,
   ent_tab |-> ent_tab]

(* compute_bits_v2(next_pow_2_v2(n)): how often 1 is doubled until it is   *)
(* not below n.                                                            *)
Doublings(n) == Cardinality({k \in 0 .. n : 2^k < n})

(* The first of the longest dimensions.  A box without elements in any     *)
(* dimension stays the same along every one of them.                       *)
get_bbox_max_dim_size(b) ==
  Min({i \in Dims(b) : \A j \in Dims(b) : bbox_dist(b, j) <= bbox_dist(b, i)})

(* Each box is replaced by its two halves. *)
Bisect(boxes) ==
  [k \in 1 .. 2 * Len(boxes) |->
     LET b == boxes[(k + 1) \div 2]
     IN bbox_divide_in2_ondim(b, get_bbox_max_dim_size(b))[IF k % 2 = 1 THEN 1 ELSE 2]]

(* The queue of boxes after each round, until there is one for every       *)
(* server.                                                                 *)
Queue(bb_domain) ==
  LET queue[i \in 0 .. Doublings(size_sp)] ==
        IF i = 0 THEN <<bb_domain>> ELSE Bisect(queue[i - 1])
  IN queue

Parts(bb_domain) == Queue(bb_domain)[Doublings(size_sp)]

ssd_alloc_v2_DealsOnce(bb_domain) ==
  Space(bb_domain, "v2", 0, [r \in Rank |-> <<Parts(bb_domain)[r + 1]>>])

(* The parts are dealt out in turn; the number that r gets is rounded up.  *)
ssd_alloc_v2(bb_domain) ==
  LET parts == Parts(bb_domain)
      num_bbox(r) == (Len(parts) - r + size_sp - 1) \div size_sp
  IN Space(bb_domain, "v2", 0,
           [r \in Rank |-> [j \in 1 .. num_bbox(r) |-> parts[r + 1 + (j - 1) * size_sp]]])

(* The servers whose boxes hold an element. *)
IndexedBy_v2(ss, c) ==
  {r \in Rank : \E j \in DOMAIN ss.ent_tab[r] : c \in Cells(ss.ent_tab[r][j])}

(* The servers that index a box, without the cache. *)
ssd_hash_v2(ss, bb) ==
  {r \in Rank : \E j \in DOMAIN ss.ent_tab[r] : bbox_does_intersect(bb, ss.ent_tab[r][j])}

(* The number of elements of a box that server r indexes. *)
ssh_hash_elem_count_v2(ss, r, bb) ==
  LET tab == ss.ent_tab[r]
      num[j \in 0 .. Len(tab)] ==
        IF j = 0 THEN 0
        ELSE num[j - 1] + (IF bbox_does_intersect(bb, tab[j])
                           THEN bbox_volume(bbox_intersect(bb, tab[j])) ELSE 0)
  IN num[Len(tab)]
=============================================================================
