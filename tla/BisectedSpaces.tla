--------------------------- MODULE BisectedSpaces ---------------------------
(***************************************************************************)
(* SharedSpaces whose domains of hash version v2 are bisected: the tables  *)
(* that the bisection fills, and what is then asked of the tables of the   *)
(* domains that are hashed otherwise.                                      *)
(***************************************************************************)
EXTENDS SharedSpaces, Bisection

(* The boxes of d dimensions. *)
BoxIn(d) == [lb : [1 .. d -> Int], ub : [1 .. d -> Int]]

(* Requests for a bisected domain are for boxes with elements inside it,   *)
(* and its tables are those of ssd_alloc_v2.                               *)
BisectedAs(g, space) ==
  /\ Len(g) # 0
  /\ \A b \in BoxesOf[g] :
       /\ b \in BoxIn(Len(g)) /\ \A i \in 1 .. Len(g) : b.lb[i] <= b.ub[i]
       /\ Cells(b) \subseteq Cells(BoxOfSize(g))
       /\ HashOf[g][b] = ssd_hash_v2(space, b)
       /\ \A r \in Rank : space.ent_tab[r] # <<>> =>
            CountOf[g][b][r] = ssh_hash_elem_count_v2(space, r, b)
  /\ \A c \in Cells(BoxOfSize(g)) : OwnersOf[g][c] = IndexedBy_v2(space, c)

Bisected(gdims) ==
  \A g \in gdims : Version[g] = "v2" => BisectedAs(g, ssd_alloc_v2(BoxOfSize(g)))

(* What the space-filling curve of version v1 is to guarantee for a box:   *)
(* it finds the servers that index an element, each element has one of     *)
(* them, and each of them counts its elements.                             *)
CurveCovers(gdims) ==
  \A g \in gdims : Version[g] = "v1" =>
    \A b \in BoxesOf[g] : \A c \in Cells(b) : OwnersOf[g][c] \subseteq HashOf[g][b]

CurveCounts(gdims) ==
  \A g \in gdims : Version[g] = "v1" =>
    \A b \in BoxesOf[g] :
      /\ \A c \in Cells(b) : Cardinality(OwnersOf[g][c]) = 1
      /\ \A r \in UNION {OwnersOf[g][c] : c \in Cells(b)} :
           CountOf[g][b][r] = Cardinality({c \in Cells(b) : r \in OwnersOf[g][c]})

(* The hash versions of the code. *)
VersionsKnown == \A g \in Gdim : Version[g] \in {"v0", "v1", "v2"}
=============================================================================
