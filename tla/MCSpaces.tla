------------------------------ MODULE MCSpaces ------------------------------
(***************************************************************************)
(* SharedSpaces and Copy for TLC.  They share no state: each of them is    *)
(* explored while the other one rests.                                     *)
(***************************************************************************)
EXTENDS HashedSpaces, Copy

(* Domains for which all three hash versions are chosen. *)
Gdims == {<<4, 2>>, <<4, 4>>, <<8, 8>>, <<3, 2>>, <<5>>, <<3, 1>>, <<1>>}

(* Every box of a domain; of the larger ones, boxes around the centre; of  *)
(* the one without hashing, boxes outside it.                              *)
Requested ==
  [g \in Gdims |->
     CASE g = <<1>> -> SubBoxes(BoxOfSize(<<2>>))
       [] g = <<8, 8>> -> {[lb |-> <<1, 1>>, ub |-> <<6, 6>>]}
       [] g = <<4, 4>> -> {b \in SubBoxes(BoxOfSize(g)) :
                             \A i \in {1, 2} : b.lb[i] < 2 /\ b.ub[i] > 1}
       [] OTHER -> SubBoxes(BoxOfSize(g))]

Default == <<4, 2>>

(* The tables, which TLC computes once. *)
Versions == VersionTable

Hashes == HashTable

Indexed == OwnerTable

Counted == CountTable

(* The tables meet what the proofs assume of bisected domains. *)
ASSUME TablesBisected == Bisected(Gdim) /\ VersionsKnown

CopyDomains == {<<4>>, <<3, 2>>, <<2, 2, 2>>, <<2, 1, 2, 1>>}

Init == SpaceInit /\ CopyInit

Next ==
  \/ CopyInit /\ SpaceNext /\ UNCHANGED copyVars
  \/ SpaceInit /\ CopyNext /\ UNCHANGED spaceVars

Spec == Init /\ [][Next]_<<spaceVars, copyVars>>
=============================================================================
