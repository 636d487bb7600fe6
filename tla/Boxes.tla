------------------------------- MODULE Boxes -------------------------------
(***************************************************************************)
(* Bounding boxes and one-dimensional intervals (bbox.c).                  *)
(*                                                                         *)
(* A box has a lower and an upper corner, both included; dimension i of    *)
(* the code is dimension i + 1 here.  bbox_divide_in2_ondim turns a box    *)
(* that is one element wide into that box and one whose upper bound is one *)
(* below its lower bound: such an inverted box has no elements, but the    *)
(* tests below do not know it.                                             *)
(***************************************************************************)
EXTENDS Integers, Sequences, SequencesExt, FiniteSets, Functions

Dims(b) == DOMAIN b.lb

(* The elements of a box. *)
Cells(b) ==
  {c \in [Dims(b) -> UNION {b.lb[i] .. b.ub[i] : i \in Dims(b)}] :
     \A i \in Dims(b) : b.lb[i] <= c[i] /\ c[i] <= b.ub[i]}

(* The box that starts at the origin and has the given sizes. *)
BoxOfSize(sizes) ==
  [lb |-> [i \in DOMAIN sizes |-> 0], ub |-> [i \in DOMAIN sizes |-> sizes[i] - 1]]

(* All boxes with elements inside a box. *)
SubBoxes(b) ==
  UNION {{[lb |-> low, ub |-> high] : high \in Cells([b EXCEPT !.lb = low])} :
           low \in Cells(b)}

bbox_dist(b, i) == b.ub[i] - b.lb[i] + 1

bbox_volume(b) ==
  LET n[i \in 0 .. Len(b.lb)] == IF i = 0 THEN 1 ELSE n[i - 1] * bbox_dist(b, i)
  IN n[Len(b.lb)]

(* Split in two along one dimension. *)
bbox_divide_in2_ondim(b, dim) ==
  LET n == (b.lb[dim] + b.ub[dim]) \div 2
  IN <<[b EXCEPT !.ub[dim] = n], [b EXCEPT !.lb[dim] = n + 1]>>

(* Split in two along every dimension at once: the part that is the upper  *)
(* half in the dimensions of up, and all of these parts.                   *)
bbox_part(b, up) ==
  LET n(i) == (b.lb[i] + b.ub[i]) \div 2
  IN [lb |-> [i \in Dims(b) |-> IF i \in up THEN n(i) + 1 ELSE b.lb[i]],
      ub |-> [i \in Dims(b) |-> IF i \in up THEN b.ub[i] ELSE n(i)]]

bbox_divide(b) == {bbox_part(b, up) : up \in SUBSET Dims(b)}

bbox_include(b0, b1) ==
  \A i \in Dims(b0) : b0.lb[i] <= b1.lb[i] /\ b0.ub[i] >= b1.ub[i]

bbox_does_intersect(b0, b1) ==
  \A i \in Dims(b0) :
    \/ b0.lb[i] <= b1.lb[i] /\ b1.lb[i] <= b0.ub[i]
    \/ b1.lb[i] <= b0.lb[i] /\ b0.lb[i] <= b1.ub[i]

bbox_intersect(b0, b1) ==
  [lb |-> [i \in Dims(b0) |-> IF b0.lb[i] >= b1.lb[i] THEN b0.lb[i] ELSE b1.lb[i]],
   ub |-> [i \in Dims(b0) |-> IF b0.ub[i] <= b1.ub[i] THEN b0.ub[i] ELSE b1.ub[i]]]

bbox_equals(b0, b1) == Len(b0.lb) = Len(b1.lb) /\ b0 = b1

(* A box seen from the lower corner of glb. *)
bbox_to_origin(b, glb) ==
  [lb |-> [i \in Dims(b) |-> b.lb[i] - glb.lb[i]],
   ub |-> [i \in Dims(b) |-> b.ub[i] - glb.lb[i]]]

-----------------------------------------------------------------------------
intv_size(itv) == itv.ub - itv.lb + 1

intv_do_intersect(i0, i1) ==
  \/ i0.lb <= i1.lb /\ i1.lb <= i0.ub
  \/ i1.lb <= i0.lb /\ i0.lb <= i1.ub

intv_compar(i0, i1) == i0.lb < i1.lb

(* qsort of intervals that intv_compar orders totally. *)
Ascending(S) ==
  [k \in 1 .. Cardinality(S) |->
     CHOOSE x \in S : Cardinality({y \in S : intv_compar(y, x)}) = k - 1]

(* Merge neighbours of a sorted table that leave no gap.  An empty table   *)
(* would come back as one interval of arbitrary contents; it does not      *)
(* occur, for a box with elements inside the virtual domain.               *)
intv_compact(i_tab) ==
  LET Join(tab, itv) ==
        IF tab # <<>> /\ Last(tab).ub + 1 = itv.lb
        THEN Append(Front(tab), [lb |-> Last(tab).lb, ub |-> itv.ub])
        ELSE Append(tab, itv)
  IN FoldLeft(Join, <<>>, i_tab)
=============================================================================
