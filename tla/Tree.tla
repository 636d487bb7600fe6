-------------------------------- MODULE Tree --------------------------------
(***************************************************************************)
(* The binary tree over the server ranks along which ibcast_rpc_start      *)
(* (dspaces-server.c) forwards a request that any server may receive       *)
(* first: kill, get_vars and get_var_objs.                                 *)
(***************************************************************************)
EXTENDS Integers, FiniteSets

CONSTANT size_sp    \* dsg->size_sp: the number of servers

ASSUME TreeAssumption == size_sp \in Nat \ {0}

Rank == 0 .. size_sp - 1

(* The src field of a request that comes from a client. *)
NoSrc == -1

(* (rank - 1) / 2, which C rounds towards zero. *)
parent(rank) == IF rank = 0 THEN 0 ELSE (rank - 1) \div 2

child1(rank) == 2 * rank + 1
child2(rank) == child1(rank) + 1

Targets_BackToSource(rank, src) ==
  {t \in Rank : \/ t = parent(rank) /\ rank > 0 /\ (src = NoSrc \/ src > rank)
                \/ t \in {child1(rank), child2(rank)}}

Targets_NeverUp(rank, src) ==
  {t \in Rank : t \in {child1(rank), child2(rank)} /\ t # src}

(* The servers to which a server forwards a request it got from src: all   *)
(* its neighbours in the tree but src.  (The early return of the code is   *)
(* taken when this set is empty for lack of neighbours.)                   *)
Targets(rank, src) ==
  {t \in Rank : \/ t = parent(rank) /\ rank > 0 /\ (src = NoSrc \/ src > rank)
                \/ t \in {child1(rank), child2(rank)} /\ t # src}
=============================================================================
