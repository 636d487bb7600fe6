-------------------------------- MODULE Copy --------------------------------
(***************************************************************************)
(* How the buffer of a get is filled (ss_data.c: ssd_copy, matrix_init,    *)
(* matrix_copy).  Each owner copies the part that is asked for out of the  *)
(* object it stores (get_rpc), and the client copies that part into the    *)
(* buffer of the caller (get_data).                                        *)
(*                                                                         *)
(* An object is a box with data, one value for each offset; the first      *)
(* dimension varies fastest.  The value of an element is its coordinates.  *)
(***************************************************************************)
EXTENDS Boxes

CONSTANTS
  CopyDomain,      \* sizes of the domains
  MaxPieces        \* bound: objects that hold a part of what is asked for

VARIABLES
  to_bb,           \* the box of the get, or none
  to_data,         \* the caller's buffer
  pieces           \* history: boxes of the objects copied from

copyVars == <<to_bb, to_data, pieces>>

NoGet == [lb |-> <<>>, ub |-> <<>>]
Unset == "unset"

CopyInit ==
  /\ to_bb = NoGet
  /\ to_data = << >>
  /\ pieces = {}

(* The position of an element at distances k from the lower corner. *)
Offset_SlowestFirst(dist, k) ==
  LET loc[i \in DOMAIN k] == IF i = 1 THEN k[1] ELSE loc[i - 1] * dist[i] + k[i]
  IN loc[Len(k)]

Offset(dist, k) ==
  LET loc[i \in DOMAIN k] == IF i = Len(k) THEN k[i] ELSE loc[i + 1] * dist[i] + k[i]
  IN loc[1]

Dist(b) == [i \in Dims(b) |-> bbox_dist(b, i)]

(* The element at a position, as an application finds it. *)
CellAt(b, pos) ==
  LET rest[i \in Dims(b)] == IF i = 1 THEN pos ELSE rest[i - 1] \div bbox_dist(b, i - 1)
  IN [i \in Dims(b) |-> b.lb[i] + (rest[i] % bbox_dist(b, i))]

(* The data of a box with the given value for each element. *)
BoxData(b, value) == [pos \in 0 .. bbox_volume(b) - 1 |-> value[CellAt(b, pos)]]

StoredObject(b) == [bb |-> b, data |-> BoxData(b, [c \in Cells(b) |-> c])]
EmptyObject(b) == [bb |-> b, data |-> BoxData(b, [c \in Cells(b) |-> Unset])]

(* A matrix: the sizes of an object, and the part of it that is copied. *)
matrix_init(obj, bb_loc) ==
  [dist |-> Dist(obj.bb), view |-> bbox_to_origin(bb_loc, obj.bb), data |-> obj.data]

(* The code has a loop per dimension, and a memcpy along the first one.    *)
(* In the loop of the tenth dimension the source is indexed by the         *)
(* position in the target.                                                 *)
matrix_copy(a, b) ==
  LET steps == Cells(BoxOfSize(Dist(a.view)))
      A(k) == [i \in DOMAIN k |-> a.view.lb[i] + k[i]]
      B(k) == [i \in DOMAIN k |-> IF i = 10 THEN A(k)[i] ELSE b.view.lb[i] + k[i]]
      Hits(o) == {k \in steps : Offset(a.dist, A(k)) = o}
  IN [o \in DOMAIN a.data |->
        IF Hits(o) = {} THEN a.data[o]
        ELSE b.data[Offset(b.dist, B(CHOOSE k \in Hits(o) : TRUE))]]

ssd_copy(to_obj, from_obj) ==
  LET bbcom == bbox_intersect(to_obj.bb, from_obj.bb)
  IN [to_obj EXCEPT !.data = matrix_copy(matrix_init(to_obj, bbcom),
                                         matrix_init(from_obj, bbcom))]

-----------------------------------------------------------------------------
(* A get is issued: the caller's buffer for box b. *)
StartGet(b) ==
  /\ to_bb = NoGet
  /\ to_bb' = b
  /\ to_data' = EmptyObject(b).data
  /\ UNCHANGED pieces

(* The part that an object with box b has: query_rpc cuts its descriptor   *)
(* down to the query, the owner copies it (get_rpc), then the client does. *)
CopyPiece(b) ==
  LET odsc == bbox_intersect(to_bb, b)
      sent == ssd_copy(EmptyObject(odsc), StoredObject(b))
  IN /\ to_bb # NoGet
     /\ Cardinality(pieces) < MaxPieces
     /\ Len(b.lb) = Len(to_bb.lb)
     /\ bbox_does_intersect(to_bb, b)
     /\ to_data' = ssd_copy([bb |-> to_bb, data |-> to_data], sent).data
     /\ pieces' = pieces \cup {b}
     /\ UNCHANGED to_bb

CopyNext ==
  \E g \in CopyDomain : \E b \in SubBoxes(BoxOfSize(g)) : StartGet(b) \/ CopyPiece(b)

CopySpec == CopyInit /\ [][CopyNext]_copyVars

-----------------------------------------------------------------------------
(* The buffer of a get holds, in its place, every element that one of the  *)
(* objects has, and nothing else was written: the strides of matrix_copy   *)
(* fit for any position and size of the objects.                           *)
CopyExact ==
  to_bb # NoGet =>
    to_data = BoxData(to_bb, [c \in Cells(to_bb) |->
      IF \E b \in pieces : bbox_include(b, [lb |-> c, ub |-> c]) THEN c ELSE Unset])
=============================================================================
