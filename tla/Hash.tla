-------------------------------- MODULE Hash --------------------------------
(***************************************************************************)
(* How a shared space distributes its domain over the servers (ss_data.c,  *)
(* bbox.c, sfc.h), as operators:                                           *)
(*                                                                         *)
(*   v0  no hashing, everything is indexed by server 0;                    *)
(*   v1  the Hilbert curve through the domain is cut in segments;          *)
(*   v2  the domain is bisected repeatedly (module Bisection).             *)
(***************************************************************************)
EXTENDS Bisection, Bitwise

next_pow_2_v2(n) == CHOOSE p \in {2^k : k \in 0 .. n} : n <= p /\ (p = 1 \/ p \div 2 < n)

(* The number of bits of n. *)
compute_bits(n) == CHOOSE k \in 0 .. n : 2^k > n /\ (k = 0 \/ 2^(k - 1) <= n)

-----------------------------------------------------------------------------
(* The Hilbert curve (sfc.h).  Numbers of nDims * nBits bits are read as   *)
(* nBits digits of nDims bits, the highest digit first.                    *)

Bit(w, k) == (w \div 2^k) % 2

Number(bits, base) == FoldLeft(LAMBDA n, d : n * base + d, 0, bits)

rotateRight(arg, nRots, nDims) ==
  (arg \div 2^nRots) + (arg % 2^nRots) * 2^(nDims - nRots)

(* One more than the lowest set bit, unless that is the highest one. *)
adjust_rotation(rotation, nDims, bits) ==
  LET low == {k \in 0 .. nDims - 2 : Bit(bits, k) = 1}
      skip == IF low = {} THEN 0 ELSE Min(low) + 1
  IN (rotation + skip + 1) % nDims

(* The digits of the coordinates: digit l holds bit l of each of them. *)
bitTranspose(nDims, nBits, coord) ==
  [k \in 1 .. nBits |->
     Number([d \in 1 .. nDims |-> Bit(coord[nDims + 1 - d], nBits - k)], 2)]

GrayDecode(n, bits) ==
  Number([k \in 1 .. bits |->
            Cardinality({j \in bits - k .. bits - 1 : Bit(n, j) = 1}) % 2], 2)

(* The loop over the digits. *)
HilbertWalk(nDims, nBits, digits) ==
  LET Crossed(k) == IF k = 1 THEN digits[1] ELSE digits[k] ^^ digits[k - 1]
      Step(w, k) ==
        LET bits == rotateRight(w.flipBit ^^ Crossed(k), w.rotation, nDims)
        IN [index |-> w.index * 2^nDims + bits,
            flipBit |-> 2^w.rotation,
            rotation |-> adjust_rotation(w.rotation, nDims, bits)]
  IN FoldLeft(Step, [index |-> 0, flipBit |-> 0, rotation |-> 0],
              [k \in 1 .. nBits |-> k]).index

(* With one bit per dimension the walk leaves the only digit as it is. *)
hilbert_c2i(nDims, nBits, coord) ==
  LET nthbits == (2^(nDims * nBits) - 1) \div (2^nDims - 1)
      walked == HilbertWalk(nDims, nBits, bitTranspose(nDims, nBits, coord))
  IN IF nDims = 1 THEN coord[1]
     ELSE GrayDecode(IF nBits > 1 THEN walked ^^ (nthbits \div 2) ELSE walked,
                     nDims * nBits)

-----------------------------------------------------------------------------
(* Boxes as intervals of the curve (bbox.c). *)

(* The interval of a cube, from its corners, in the order of the code: an  *)
(* index that lowers lb is not looked at for ub.                           *)
bbox_flat(b, bpd) ==
  LET dims == Len(b.lb)
      Corner(i) == [j \in 1 .. dims |-> IF Bit(i, j - 1) = 1 THEN b.ub[j] ELSE b.lb[j]]
      Widen(itv, index) ==
        IF index < itv.lb THEN [itv EXCEPT !.lb = index]
        ELSE IF index > itv.ub THEN [itv EXCEPT !.ub = index] ELSE itv
  IN FoldLeft(Widen, [lb |-> 2^(dims * bpd), ub |-> 0],
              [i \in 1 .. 2^dims |-> hilbert_c2i(dims, bpd, Corner(i - 1))])

VirtualDomain(ndims, dim_virt) == BoxOfSize([i \in 1 .. ndims |-> dim_virt])

(* The intervals of a set of cubes: sorted, and neighbours joined. *)
Intervals(cubes, bpd) ==
  intv_compact(Ascending({bbox_flat(b, bpd) : b \in cubes}))

(* The maximal cubes inside bb, found by division of a cube around it. *)
RECURSIVE CubesIn(_, _)
CubesIn(bb, virt) ==
  IF bbox_include(bb, virt) THEN {virt}
  ELSE IF bbox_does_intersect(bb, virt)
       THEN UNION {CubesIn(bb, part) : part \in bbox_divide(virt)}
       ELSE {}

bbox_to_intv(bb, dim_virt) ==
  Intervals(CubesIn(bb, VirtualDomain(Len(bb.lb), dim_virt)), compute_bits(dim_virt))

(* bbox_to_intv2 does the same with a ring of boxes that grows when it is  *)
(* full.  The code starts with 4096 places, four times 2^num_dims for the  *)
(* ten dimensions that are allowed; the model always starts with that.     *)
RingPlaces(n) == 4 * n

RingGrow_KeepsHead(r, n) ==
  LET size == r.size + r.size \div 2
      nhead == r.head - (r.head % n)
  IN IF (r.tail + n) % r.size = nhead
     THEN [r EXCEPT !.tab = [k \in 0 .. (size - (size % n)) - 1 |-> r.tab[(nhead + k) % r.size]],
                    !.tail = r.size - n,
                    !.size = size - (size % n)]
     ELSE r

(* When there is no place for n more: half as many places again, and the   *)
(* boxes in use move to the beginning.                                     *)
RingGrow(r, n) ==
  LET size == r.size + r.size \div 2
      nhead == r.head - (r.head % n)
  IN IF (r.tail + n) % r.size = nhead
     THEN [r EXCEPT !.tab = [k \in 0 .. (size - (size % n)) - 1 |-> r.tab[(nhead + k) % r.size]],
                    !.head = r.head % n,
                    !.tail = r.size - n,
                    !.size = size - (size % n)]
     ELSE r

RECURSIVE RingWalk(_, _)
RingWalk(bb, r) ==
  LET n == 2^Len(bb.lb)
      pbb == r.tab[r.head]
      grown == RingGrow(r, n)
      Part(i) == bbox_part(pbb, {j \in Dims(pbb) : Bit(i, j - 1) = 1})
      Advance(q) == [q EXCEPT !.head = (q.head + 1) % q.size]
  IN IF r.head = r.tail THEN r.cubes
     ELSE IF bbox_include(bb, pbb)
          THEN RingWalk(bb, Advance([r EXCEPT !.cubes = @ \cup {pbb}]))
     ELSE IF bbox_does_intersect(bb, pbb)
          THEN RingWalk(bb, Advance([grown EXCEPT
                 !.tab = [k \in DOMAIN grown.tab |->
                            IF k - grown.tail \in 0 .. n - 1
                            THEN Part(k - grown.tail) ELSE grown.tab[k]],
                 !.tail = (grown.tail + n) % grown.size]))
     ELSE RingWalk(bb, Advance(r))

bbox_to_intv2(bb, dim_virt) ==
  LET n == 2^Len(bb.lb)
      virt == VirtualDomain(Len(bb.lb), dim_virt)
      ring == [tab |-> [k \in 0 .. RingPlaces(n) - 1 |-> virt], size |-> RingPlaces(n),
               head |-> RingPlaces(n) - 1, tail |-> 0, cubes |-> {}]
  IN Intervals(RingWalk(bb, ring), compute_bits(dim_virt))

-----------------------------------------------------------------------------
(* Shared spaces (ss_data.c). *)

ssd_alloc_v0(bb_domain) == Space(bb_domain, "v0", 0, [r \in {0} |-> <<>>])

(* The first len indices of a table of intervals.  The code does not look  *)
(* whether the table is used up.                                           *)
RECURSIVE Cut(_, _, _)
Cut(i_tab, len, mine) ==
  IF len = 0 \/ i_tab = <<>> THEN [mine |-> mine, rest |-> i_tab]
  ELSE LET itv == Head(i_tab)
       IN IF intv_size(itv) > len
          THEN [mine |-> Append(mine, [itv EXCEPT !.ub = itv.lb + len - 1]),
                rest |-> <<[itv EXCEPT !.lb = itv.lb + len]>> \o Tail(i_tab)]
          ELSE Cut(Tail(i_tab), len - intv_size(itv), Append(mine, itv))

Portion(vol, r) == (vol \div size_sp) + (IF r < vol % size_sp THEN 1 ELSE 0)

(* A table by ranks, from a sequence. *)
ByRank(tab) == [r \in Rank |-> tab[r + 1]]

(* Each server gets the next segment of the curve through the domain. *)
dht_construct_hash(bb_domain, max_dim) ==
  LET Deal(acc, r) ==
        LET cut == Cut(acc.rest, Portion(bbox_volume(bb_domain), r), <<>>)
        IN [tab |-> Append(acc.tab, cut.mine), rest |-> cut.rest]
  IN ByRank(FoldLeft(Deal, [tab |-> <<>>, rest |-> bbox_to_intv(bb_domain, max_dim)],
                     [k \in 1 .. size_sp |-> k - 1]).tab)

(* The size of the virtual domain, from the largest upper bound. *)
VirtualSize(bb_domain) ==
  next_pow_2_v2(Max({bb_domain.ub[i] : i \in Dims(bb_domain)} \cup {1}))

ssd_alloc_v1(bb_domain) ==
  LET virt == VirtualSize(bb_domain)
  IN Space(bb_domain, "v1", virt, dht_construct_hash(bb_domain, virt))

ssd_choose_hash(bb_domain) ==
  IF bb_domain.ub = <<0>> THEN "v0"
  ELSE IF \E i \in Dims(bb_domain) : (bb_domain.ub[i] & (bb_domain.ub[i] + 1)) # 0
       THEN "v2" ELSE "v1"

VersionFor(bb_domain, hash_version) ==
  IF hash_version = "auto" THEN ssd_choose_hash(bb_domain) ELSE hash_version

ssd_alloc(bb_domain, hash_version) ==
  LET version == VersionFor(bb_domain, hash_version)
  IN CASE version = "v0" -> ssd_alloc_v0(bb_domain)
       [] version = "v1" -> ssd_alloc_v1(bb_domain)
       [] version = "v2" -> ssd_alloc_v2(bb_domain)

(* i_virt: from the first to the last index of a server. *)
Span(i_tab) == [lb |-> Head(i_tab).lb, ub |-> Last(i_tab).ub]

dht_intersect_FirstOnly(i_tab, itv) ==
  i_tab # <<>> /\ intv_do_intersect(i_tab[1], itv)

dht_intersect(i_tab, itv) ==
  /\ i_tab # <<>>
  /\ Span(i_tab).lb <= itv.ub /\ Span(i_tab).ub >= itv.lb
  /\ \E i \in DOMAIN i_tab : intv_do_intersect(i_tab[i], itv)

(* The servers that index a box, without the cache. *)
ssd_hash_v1(ss, bb) ==
  LET i_tab == bbox_to_intv2(bb, ss.max_dim)
  IN {r \in Rank : \E itv \in Range(i_tab) : dht_intersect(ss.ent_tab[r], itv)}

ssd_hash(ss, bb) ==
  CASE ss.hash_version = "v0" -> {0}
    [] ss.hash_version = "v1" -> ssd_hash_v1(ss, bb)
    [] ss.hash_version = "v2" -> ssd_hash_v2(ss, bb)

(* The number of elements of a box that server r indexes. *)
ssh_hash_elem_count_v1(ss, r, bb) ==
  LET self == Span(ss.ent_tab[r])
      i_tab == bbox_to_intv2(bb, ss.max_dim)
      Overlap(itv) ==
        IF self.lb <= itv.ub /\ self.ub >= itv.lb
        THEN (self.ub - itv.lb) + 1
             - (IF itv.lb < self.lb THEN self.lb - itv.lb ELSE 0)
             - (IF self.ub > itv.ub THEN self.ub - itv.ub ELSE 0)
        ELSE 0
  IN FoldLeft(LAMBDA n, itv : n + Overlap(itv), 0, i_tab)

ssh_hash_elem_count(ss, r, bb) ==
  CASE ss.hash_version = "v0" -> bbox_volume(bb)
    [] ss.hash_version = "v1" -> ssh_hash_elem_count_v1(ss, r, bb)
    [] ss.hash_version = "v2" -> ssh_hash_elem_count_v2(ss, r, bb)
=============================================================================
