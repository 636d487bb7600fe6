------------------------------- MODULE MCDht -------------------------------
(* A finite instance of Dht: a one-dimensional domain of three cells, of   *)
(* which this server indexes the first two, and two queries.               *)
EXTENDS Dht

CONSTANTS r1, r2

MCCell == 1 .. 3
MCBox == {{1}, {1, 2}, {2, 3}}
MCShare == {1, 2}

(* The queries are for the boxes that cross another one or the edge of the *)
(* share, and the readers are interchangeable: no property names one, so   *)
(* one order of two different queries stands for both.                     *)
Rank(q) == 4 * q.version - 2 * q.timeout + Cardinality(q.box \cap {3})

MCInit ==
  /\ Init
  /\ \A r \in Reader : Cardinality(q_odsc[r].box) = 2
  /\ Rank(q_odsc[r1]) <= Rank(q_odsc[r2])

MCSpec == MCInit /\ [][Next]_vars /\ \A r \in Reader : WF_vars(ReaderStep(r))
=============================================================================
