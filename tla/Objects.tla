------------------------------ MODULE Objects ------------------------------
(***************************************************************************)
(* Object descriptors and the version-binned lists that hold them, as      *)
(* ss_data.c uses them in the DHT (dht_entry.odsc_hash) and in the local   *)
(* storage (ss_storage.obj_hash).                                          *)
(*                                                                         *)
(* A bounding box is represented by the set of grid cells it contains.     *)
(* The code only ever asks three things of two boxes: whether they         *)
(* intersect, what the intersection is and how many elements of a box are  *)
(* in a server's share of the domain; these are the set operations below.  *)
(*                                                                         *)
(* A list that the code extends at its head is a sequence extended at its  *)
(* end: the head of the C list is the LAST element.  Entries of the DHT    *)
(* lists are never unlinked, so the index of an entry stays the same for   *)
(* ever and stands for the address of its descriptor.                      *)
(***************************************************************************)
EXTENDS Naturals, Integers, FiniteSets, Sequences

CONSTANTS
  Name,           \* variable names
  Cell,           \* the elements of the global domain
  Box,            \* the boxes that puts and gets may use (sets of cells)
  Version,        \* the versions that puts and gets may use
  Owner,          \* the processes that can hold data
  max_versions    \* conf.max_versions: number of version bins

ASSUME ObjectsAssumption ==
  /\ IsFiniteSet(Cell)
  /\ Box \subseteq (SUBSET Cell) \ {{}}
  /\ Version \subseteq Nat
  /\ max_versions \in Nat \ {0}

(* obj_descriptor: the fields that control flow depends on. *)
Descriptor == [name : Name, version : Version, box : SUBSET Cell, owner : Owner]

(* The part of a descriptor that identifies an object: all but the owner. *)
Key == [name : Name, version : Version, box : SUBSET Cell]
KeyOf(d) == [name |-> d.name, version |-> d.version, box |-> d.box]

(* odsc->version % odsc_size, odsc->version % size_hash *)
Bin == 0 .. max_versions - 1
BinOf(v) == v % max_versions

(* bbox_does_intersect *)
bbox_does_intersect(a, b) == a \cap b # {}

(* Same name, same version, overlapping boxes. *)
obj_desc_equals_intersect(d, e) ==
  /\ d.name = e.name
  /\ d.version = e.version
  /\ bbox_does_intersect(d.box, e.box)

(* Same name, overlapping boxes, whatever the versions. *)
obj_desc_by_name_intersect(d, e) ==
  /\ d.name = e.name
  /\ bbox_does_intersect(d.box, e.box)

(* Same name, version and box, whatever the owners. *)
obj_desc_equals_no_owner(d, e) ==
  /\ d.version = e.version
  /\ d.name = e.name
  /\ d.box = e.box

(* The first element of M met by a walk of the C list (head = largest      *)
(* index).                                                                 *)
FirstOf(M) == CHOOSE i \in M : \A j \in M : j <= i
=============================================================================
