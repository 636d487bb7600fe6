----------------------------- MODULE MCStaging -----------------------------
(* A finite instance of Staging: three cells in a row, two of them indexed *)
(* by one server, so that objects which only touch outside of a query meet *)
(* in one index.                                                           *)
EXTENDS Staging

MCCell == 1 .. 3
MCBox == {{1}, {1, 2}, {2, 3}}
CONSTANTS s0, s1
MCShare == (s0 :> {1, 2}) @@ (s1 :> {3})
=============================================================================
