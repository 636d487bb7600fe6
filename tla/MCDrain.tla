------------------------------ MODULE MCDrain ------------------------------
(* Finite instance of Drain: two objects of one client, which overlap or   *)
(* do not.                                                                 *)
EXTENDS Drain

CONSTANTS a, b, writer

MCObj == {a, b}
MCHome == [o \in MCObj |-> writer]
MCLayout == {[o \in MCObj |-> 1], [o \in MCObj |-> IF o = a THEN 1 ELSE 2]}
=============================================================================
