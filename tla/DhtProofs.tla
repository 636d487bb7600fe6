----------------------------- MODULE DhtProofs -----------------------------
(***************************************************************************)
(* Proofs about Dht: the subscription counter of dht_local_subscribe is    *)
(* exact, no wakeup is lost, no subscription outlives its stack frame and  *)
(* queries return what they asked for, for every domain, share, number of  *)
(* bins and set of concurrent queries.                                     *)
(***************************************************************************)
EXTENDS Dht, FunctionTheorems, FiniteSetTheorems, SequenceTheorems,
        WellFoundedInduction, TLAPS

(* A walk of a list stops at an element that satisfies the condition it    *)
(* looks for, if there is one.                                             *)
LEMMA FirstOfIn ==
  ASSUME NEW n \in Nat, NEW M, M \subseteq 1 .. n, M # {}
  PROVE  FirstOf(M) \in M
<1> DEFINE T == {k \in Nat : n - k \in M}
<1>1. T \subseteq Nat /\ T # {}
  <2>1. PICK i \in M : TRUE
    OBVIOUS
  <2>2. i \in 1 .. n
    BY <2>1
  <2>3. n - i \in Nat /\ n - (n - i) = i
    BY <2>2
  <2>4. n - i \in T
    BY <2>1, <2>3
  <2> QED
    BY <2>4
<1>2. PICK x \in T : \A y \in T : ~ (<<y, x>> \in OpToRel(<, Nat))
  BY <1>1, NatLessThanWellFounded, WFMin
<1>3. \A y \in T : ~ (y < x)
  BY <1>2 DEF OpToRel
<1>4. n - x \in M
  OBVIOUS
<1>5. \A j \in M : j <= n - x
  <2> TAKE j \in M
  <2>1. j \in 1 .. n
    OBVIOUS
  <2>2. n - j \in Nat /\ n - (n - j) = j
    BY <2>1
  <2>3. n - j \in T
    BY <2>2
  <2>4. ~ (n - j < x)
    BY <1>3, <2>3
  <2> QED
    BY <2>1, <2>4
<1> QED
  BY <1>4, <1>5 DEF FirstOf

(* Every version has a bin. *)
LEMMA BinRange ==
  ASSUME NEW v \in Version
  PROVE  BinOf(v) \in Bin
<1>1. v \in Nat /\ max_versions \in Nat /\ max_versions > 0
  BY ObjectsAssumption
<1> QED
  BY <1>1 DEF BinOf, Bin

(* The bin that a query works on exists. *)
LEMMA ReaderBin ==
  ASSUME TypeOK, NEW r \in Reader
  PROVE  BinOfReader(r) \in Bin
BY BinRange DEF TypeOK, BinOfReader, Query

(* The elements a reader asks for, and those it misses, are finitely many. *)
LEMMA NeedFinite ==
  ASSUME NEW r \in Reader
  PROVE  /\ IsFiniteSet(Need(r)) /\ Cardinality(Need(r)) \in Nat
         /\ \A B : /\ IsFiniteSet(Need(r) \ B)
                   /\ Cardinality(Need(r) \ B) \in Nat
<1>1. IsFiniteSet(Share)
  BY ObjectsAssumption, DhtAssumption, FS_Subset
<1>2. IsFiniteSet(Need(r))
  BY <1>1, FS_Intersection DEF Need
<1> QED
  BY <1>2, FS_Difference, FS_CardinalityType

(* The matches of a query have no element in common. *)
DisjointMatches(list, r) ==
  \A i, j \in Matching(list, r) : list[i].box \cap list[j].box # {} => i = j

(* The loop of dht_find_entry_all over a list whose matches are disjoint   *)
(* subtracts every element that one of them contains exactly once.         *)
LEMMA ScanCount ==
  ASSUME NEW r \in Reader, NEW list, DisjointMatches(list, r)
  PROVE  ElemLeft(list, r) = Cardinality(Need(r) \ UNION {k.box : k \in Indexed(list, r)})
<1> DEFINE M == Matching(list, r)
           U == UNION {k.box : k \in Indexed(list, r)}
           P == {p \in (DOMAIN list) \X Share :
                   /\ p[1] \in M
                   /\ p[2] \in q_odsc[r].box \cap list[p[1]].box}
           f == [p \in P |-> p[2]]
<1>1. \A c : c \in U <=> \E i \in M : c \in list[i].box
  <2>1. \A i : KeyOf(list[i]).box = list[i].box
    BY DEF KeyOf
  <2> QED
    BY <2>1 DEF Indexed
<1>2. f \in [P -> Need(r) \cap U]
  <2>1. ASSUME NEW p \in P
        PROVE  p[2] \in Need(r) \cap U
    BY <1>1 DEF Need
  <2> QED
    BY <2>1
<1>3. ASSUME NEW p \in P, NEW p2 \in P, f[p] = f[p2]
      PROVE  p = p2
  <2>1. p = <<p[1], p[2]>> /\ p2 = <<p2[1], p2[2]>> /\ p[2] = p2[2]
    BY <1>3
  <2>2. p[1] = p2[1]
    BY <2>1 DEF DisjointMatches
  <2> QED
    BY <2>1, <2>2
<1>4. ASSUME NEW c \in Need(r) \cap U
      PROVE  \E p \in P : f[p] = c
  <2>1. PICK i \in M : c \in list[i].box
    BY <1>1
  <2>2. <<i, c>> \in P
    BY <2>1 DEF Need, Matching
  <2> QED
    BY <2>2
<1>5. f \in Injection(P, Need(r) \cap U) /\ f \in Surjection(P, Need(r) \cap U)
  BY <1>2, <1>3, <1>4 DEF Injection, Surjection, IsInjective
<1>6. IsFiniteSet(Need(r) \cap U)
  BY NeedFinite, FS_Intersection
<1>7. Cardinality(P) = Cardinality(Need(r) \cap U)
  BY <1>5, <1>6, FS_Injection
<1>8. ElemLeft(list, r) = Cardinality(Need(r)) - Cardinality(P)
  BY DEF ElemLeft, ssh_hash_elem_count, Need
<1>9. Cardinality(Need(r) \ U) = Cardinality(Need(r)) - Cardinality(Need(r) \cap U)
  <2> HIDE DEF U
  <2> QED
    BY NeedFinite, FS_Difference
<1> HIDE DEF P
<1> QED
  BY <1>7, <1>8, <1>9

(* The entries of a version are disjoint, so what the scan of a bin leaves *)
(* is the number of elements that the reader misses.                       *)
LEMMA ScanExact ==
  ASSUME IndInv, NEW r \in Reader
  PROVE  /\ DisjointMatches(Entries(r), r)
         /\ ElemLeft(Entries(r), r)
              = Cardinality(Need(r) \ UNION {k.box : k \in Indexed(Entries(r), r)})
<1> DEFINE list == Entries(r)
<1>1. BinOfReader(r) \in Bin
  BY ReaderBin DEF IndInv
<1>2. ASSUME NEW i \in Matching(list, r), NEW j \in Matching(list, r),
             list[i].box \cap list[j].box # {}
      PROVE  i = j
  <2>1. KeyOf(list[i]) \in published /\ KeyOf(list[j]) \in published
    BY <1>1 DEF IndInv, EntriesPublished, Entries, Matching
  <2>2. obj_desc_equals_intersect(KeyOf(list[i]), KeyOf(list[j]))
    BY <1>2 DEF obj_desc_equals_intersect, bbox_does_intersect, KeyOf, Matching
  <2>3. KeyOf(list[i]) = KeyOf(list[j])
    BY <2>1, <2>2 DEF IndInv, PublishedDisjoint
  <2> QED
    BY <1>1, <2>3 DEF IndInv, EntriesDistinct, Entries, Matching
<1>3. DisjointMatches(list, r)
  BY <1>2 DEF DisjointMatches
<1> QED
  BY <1>3, ScanCount

(* A written list keeps its entries but the one written. *)
LEMMA WrittenFacts ==
  ASSUME NEW list \in Seq(Descriptor), NEW d \in Descriptor,
         NEW i \in 1 .. Len(list) + 1
  PROVE  /\ Written(list, i, d) \in Seq(Descriptor)
         /\ DOMAIN Written(list, i, d) = DOMAIN list \cup {i}
         /\ Written(list, i, d)[i] = d
         /\ \A j \in DOMAIN list : j # i => Written(list, i, d)[j] = list[j]
<1> HIDE DEF Descriptor
<1>1. CASE i \in DOMAIN list
  <2>1. Written(list, i, d) = [list EXCEPT ![i] = d]
    BY <1>1 DEF Written
  <2>2. [list EXCEPT ![i] = d] \in Seq(Descriptor)
    BY <1>1, ExceptSeq
  <2> QED
    BY <1>1, <2>1, <2>2
<1>2. CASE i \notin DOMAIN list
  <2>1. DOMAIN list = 1 .. Len(list) /\ Len(list) \in Nat
    OBVIOUS
  <2>2. i = Len(list) + 1
    BY <1>2, <2>1
  <2>3. Written(list, i, d) = Append(list, d)
    BY <1>2 DEF Written
  <2>4. /\ Append(list, d) \in Seq(Descriptor)
        /\ Len(Append(list, d)) = Len(list) + 1
        /\ \A j \in 1 .. Len(list) : Append(list, d)[j] = list[j]
        /\ Append(list, d)[Len(list) + 1] = d
    BY AppendProperties
  <2>5. DOMAIN Append(list, d) = DOMAIN list \cup {Len(list) + 1}
    BY <2>1, <2>4
  <2>6. Append(list, d)[i] = d /\ DOMAIN Append(list, d) = DOMAIN list \cup {i}
    BY <2>2, <2>4, <2>5
  <2> QED
    BY <2>1, <2>3, <2>4, <2>6
<1> QED
  BY <1>1, <1>2

(* What is missing, element by element. *)
LEMMA MissingElement ==
  ASSUME NEW r \in Reader
  PROVE  \A c : c \in Missing(r) <=>
                  /\ c \in q_odsc[r].box /\ c \in Share
                  /\ \A k \in avail[r] : c \notin k.box
BY DEF Missing, Need

(* What a reader misses is finite, so that it can be counted. *)
LEMMA MissingFinite ==
  ASSUME NEW r \in Reader
  PROVE  IsFiniteSet(Missing(r)) /\ Cardinality(Missing(r)) \in Nat
BY NeedFinite DEF Missing

(* A descriptor that dht_add_entry accepts is new, well typed, and written *)
(* inside its bin or just behind its end.                                  *)
LEMMA AddEntryFacts ==
  ASSUME IndInv, NEW d \in Put, AddEntry(d)
  PROVE  /\ d \in Descriptor
         /\ KeyOf(d) \in Key
         /\ KeyOf(d) \notin published
         /\ BinOf(d.version) \in Bin
         /\ odsc_hash[BinOf(d.version)] \in Seq(Descriptor)
         /\ Slot(d) \in 1 .. Len(odsc_hash[BinOf(d.version)]) + 1
<1> DEFINE n == BinOf(d.version)
<1>1. d \in Descriptor /\ d.box # {} /\ d.version \in Version
  BY ObjectsAssumption DEF Put, Descriptor
<1>2. KeyOf(d) \in Key
  BY <1>1 DEF KeyOf, Key, Descriptor
<1>3. KeyOf(d) \notin published
  <2>1. obj_desc_equals_intersect(d, KeyOf(d))
    BY <1>1 DEF obj_desc_equals_intersect, bbox_does_intersect, KeyOf
  <2> QED
    BY <2>1 DEF AddEntry, Immutable
<1>4. n \in Bin
  BY <1>1, BinRange
<1>5. odsc_hash[n] \in Seq(Descriptor)
  BY <1>4 DEF IndInv, TypeOK
<1>6. Slot(d) \in 1 .. Len(odsc_hash[n]) + 1
  <2>1. dht_find_match(d) \subseteq 1 .. Len(odsc_hash[n])
    BY <1>5 DEF dht_find_match
  <2>2. Len(odsc_hash[n]) \in Nat
    BY <1>5
  <2>3. CASE dht_find_match(d) = {}
    BY <2>2, <2>3 DEF Slot
  <2>4. CASE dht_find_match(d) # {}
    BY <2>1, <2>2, <2>4, FirstOfIn DEF Slot
  <2> QED
    BY <2>3, <2>4
<1> QED
  BY <1>1, <1>2, <1>3, <1>4, <1>5, <1>6

(* dht_add_entry keeps the index well formed. *)
LEMMA AddEntryIndex ==
  ASSUME IndInv, NEW d \in Put, AddEntry(d)
  PROVE  /\ odsc_hash' \in [Bin -> Seq(Descriptor)]
         /\ EntriesPublished'
         /\ EntriesDistinct'
         /\ PublishedDisjoint'
         /\ \A m \in Bin : DOMAIN odsc_hash[m] \subseteq DOMAIN odsc_hash'[m]
         /\ Slot(d) \in DOMAIN odsc_hash'[BinOf(d.version)]
<1> DEFINE n == BinOf(d.version)
           list == odsc_hash[n]
           s == Slot(d)
<1>0. /\ d \in Descriptor /\ KeyOf(d) \in Key /\ KeyOf(d) \notin published
      /\ n \in Bin /\ list \in Seq(Descriptor) /\ s \in 1 .. Len(list) + 1
  BY AddEntryFacts
<1>1. odsc_hash \in [Bin -> Seq(Descriptor)]
  BY DEF IndInv, TypeOK
<1>2. odsc_hash' = [odsc_hash EXCEPT ![n] = Written(list, s, d)]
  BY DEF AddEntry
<1>3. /\ odsc_hash'[n] = Written(list, s, d)
      /\ \A m \in Bin : m # n => odsc_hash'[m] = odsc_hash[m]
  BY <1>0, <1>1, <1>2
<1>4. /\ Written(list, s, d) \in Seq(Descriptor)
      /\ DOMAIN Written(list, s, d) = DOMAIN list \cup {s}
      /\ Written(list, s, d)[s] = d
      /\ \A j \in DOMAIN list : j # s => Written(list, s, d)[j] = list[j]
  BY <1>0, WrittenFacts
<1>5. odsc_hash' \in [Bin -> Seq(Descriptor)]
  BY <1>0, <1>1, <1>2, <1>4
<1>6. published' = published \cup {KeyOf(d)}
  BY DEF AddEntry
<1> HIDE DEF n, list, s
<1>7. EntriesPublished'
  <2> SUFFICES ASSUME NEW m \in Bin, NEW i \in DOMAIN odsc_hash'[m]
               PROVE  /\ KeyOf(odsc_hash'[m][i]) \in published'
                      /\ BinOf(odsc_hash'[m][i].version) = m
    BY DEF EntriesPublished, KeyOf, BinOf
  <2>1. CASE m = n /\ i = s
    BY <2>1, <1>3, <1>4, <1>6 DEF n
  <2>2. CASE m = n /\ i # s
    BY <2>2, <1>0, <1>3, <1>4, <1>6 DEF IndInv, EntriesPublished, list
  <2>3. CASE m # n
    BY <2>3, <1>3, <1>6 DEF IndInv, EntriesPublished
  <2> QED
    BY <2>1, <2>2, <2>3
<1>8. EntriesDistinct'
  <2> SUFFICES ASSUME NEW m \in Bin,
                      NEW i \in DOMAIN odsc_hash'[m], NEW j \in DOMAIN odsc_hash'[m],
                      KeyOf(odsc_hash'[m][i]) = KeyOf(odsc_hash'[m][j])
               PROVE  i = j
    BY DEF EntriesDistinct, KeyOf
  <2>1. CASE m # n
    BY <2>1, <1>3 DEF IndInv, EntriesDistinct
  <2>2. CASE m = n
    <3>1. \A k \in DOMAIN list : KeyOf(list[k]) \in published
      BY <1>0 DEF IndInv, EntriesPublished, list
    <3>2. \A k \in DOMAIN odsc_hash'[n] :
            k # s => KeyOf(odsc_hash'[n][k]) # KeyOf(d)
      BY <1>0, <1>3, <1>4, <3>1
    <3>3. CASE i = s \/ j = s
      BY <2>2, <3>2, <3>3, <1>3, <1>4
    <3>4. CASE i # s /\ j # s
      BY <2>2, <3>4, <1>0, <1>3, <1>4 DEF IndInv, EntriesDistinct, list
    <3> QED
      BY <3>3, <3>4
  <2> QED
    BY <2>1, <2>2
<1>9. PublishedDisjoint'
  <2> SUFFICES ASSUME NEW k \in published', NEW l \in published',
                      obj_desc_equals_intersect(k, l)
               PROVE  k = l
    BY DEF PublishedDisjoint, obj_desc_equals_intersect, bbox_does_intersect
  <2>1. \A e \in published : ~ obj_desc_equals_intersect(KeyOf(d), e)
    BY DEF AddEntry, Immutable, obj_desc_equals_intersect, bbox_does_intersect, KeyOf
  <2>2. \A e \in published : ~ obj_desc_equals_intersect(e, KeyOf(d))
    BY <2>1 DEF obj_desc_equals_intersect, bbox_does_intersect
  <2> QED
    BY <1>6, <2>1, <2>2 DEF IndInv, PublishedDisjoint
<1>10. \A m \in Bin : DOMAIN odsc_hash[m] \subseteq DOMAIN odsc_hash'[m]
  <2> TAKE m \in Bin
  <2>1. CASE m = n
    BY <2>1, <1>3, <1>4 DEF list
  <2>2. CASE m # n
    BY <2>2, <1>3
  <2> QED
    BY <2>1, <2>2
<1>11. Slot(d) \in DOMAIN odsc_hash'[BinOf(d.version)]
  BY <1>3, <1>4 DEF n, s
<1> QED
  BY <1>5, <1>7, <1>8, <1>9, <1>10, <1>11

(* One descriptor's effect on the counter of one blocked reader: it counts *)
(* the elements of the descriptor that the reader was missing.             *)
LEMMA AddEntryCount ==
  ASSUME IndInv, NEW d \in Put, AddEntry(d), NEW r \in Reader, Blocked(r)
  PROVE  /\ remaining'[r] = Cardinality(Missing(r)')
         /\ r \in dht_subs' <=> remaining'[r] > 0
<1> DEFINE match == d.name = q_odsc[r].name /\ d.version = q_odsc[r].version
<1>1. /\ remaining[r] = Cardinality(Missing(r))
      /\ r \in dht_subs <=> remaining[r] > 0
  BY DEF IndInv, CountExact
<1>2. IsFiniteSet(Missing(r)) /\ Cardinality(Missing(r)) \in Nat
  BY MissingFinite
<1>3. avail \in [Reader -> SUBSET Key] /\ remaining \in [Reader -> Nat]
  BY DEF IndInv, TypeOK
<1>4. UNCHANGED q_odsc
  BY DEF AddEntry
<1>5. avail'[r] = IF match THEN avail[r] \cup {KeyOf(d)} ELSE avail[r]
  BY DEF AddEntry
<1>6. \A c : c \in Missing(r)' <=>
               /\ c \in q_odsc[r].box /\ c \in Share
               /\ \A k \in avail'[r] : c \notin k.box
  BY <1>4 DEF Missing, Need
<1>7. KeyOf(d).box = d.box
  BY DEF KeyOf
<1>8. Missing(r)' = IF match THEN Missing(r) \ d.box ELSE Missing(r)
  BY <1>5, <1>6, <1>7, MissingElement
<1>9. remaining'[r] = IF r \in Interested(d) THEN RemainingAfter(r, d)
                                             ELSE remaining[r]
  BY DEF AddEntry
<1>10. r \in dht_subs' <=> r \in dht_subs /\ ~ (r \in Interested(d) /\ RemainingAfter(r, d) = 0)
  BY DEF AddEntry, Completed
<1>11. r \in Interested(d) <=> r \in dht_subs /\ match /\ d.box \cap q_odsc[r].box # {}
  BY DEF Interested, obj_desc_equals_intersect, bbox_does_intersect
<1> HIDE DEF match
<1>12. CASE r \in Interested(d)
  <2>1. \A k \in avail[r] : d.box \cap k.box = {}
    <3> TAKE k \in avail[r]
    <3>1. k \in published /\ k.name = d.name /\ k.version = d.version
      BY <1>11, <1>12 DEF IndInv, AvailPublished, match
    <3> QED
      BY <3>1 DEF AddEntry, Immutable, obj_desc_equals_intersect, bbox_does_intersect
  <2>2. (d.box \cap q_odsc[r].box) \cap Share = Missing(r) \cap d.box
    BY <2>1, MissingElement
  <2>3. RemainingAfter(r, d) = remaining[r] - Cardinality(Missing(r) \cap d.box)
    BY <2>2 DEF RemainingAfter, ssh_hash_elem_count
  <2>4. /\ IsFiniteSet(Missing(r) \ d.box)
        /\ Cardinality(Missing(r) \ d.box)
             = Cardinality(Missing(r)) - Cardinality(Missing(r) \cap d.box)
    BY <1>2, FS_Difference
  <2>5. Cardinality(Missing(r) \ d.box) \in Nat
    BY <2>4, FS_CardinalityType
  <2>6. Missing(r)' = Missing(r) \ d.box
    BY <1>8, <1>11, <1>12
  <2>7. remaining'[r] = Cardinality(Missing(r)')
    BY <1>1, <1>9, <1>12, <2>3, <2>4, <2>6
  <2> QED
    BY <1>9, <1>10, <1>11, <1>12, <2>5, <2>6, <2>7
<1>13. CASE r \notin Interested(d)
  <2>1. Missing(r)' = Missing(r)
    <3>1. CASE r \notin dht_subs
      <4>1. Missing(r) = {}
        BY <1>1, <1>2, <3>1, FS_EmptySet
      <4> QED
        BY <4>1, <1>8
    <3>2. CASE ~ match
      BY <1>8, <3>2
    <3>3. CASE d.box \cap q_odsc[r].box = {}
      BY <1>8, <3>3, MissingElement
    <3> QED
      BY <1>11, <1>13, <3>1, <3>2, <3>3
  <2> QED
    BY <1>1, <1>9, <1>10, <1>13, <2>1
<1> QED
  BY <1>12, <1>13

(* dht_add_entry keeps the invariant. *)
LEMMA AddEntryStep ==
  ASSUME IndInv, NEW d \in Put, AddEntry(d)
  PROVE  IndInv'
<1> DEFINE n == BinOf(d.version)
<1>0. /\ d \in Descriptor /\ KeyOf(d) \in Key /\ n \in Bin
      /\ odsc_hash[n] \in Seq(Descriptor) /\ Slot(d) \in 1 .. Len(odsc_hash[n]) + 1
  BY AddEntryFacts
<1>1. /\ odsc_hash' \in [Bin -> Seq(Descriptor)]
      /\ EntriesPublished' /\ EntriesDistinct' /\ PublishedDisjoint'
      /\ \A m \in Bin : DOMAIN odsc_hash[m] \subseteq DOMAIN odsc_hash'[m]
      /\ Slot(d) \in DOMAIN odsc_hash'[n]
  BY AddEntryIndex
<1>2. \A r \in Reader : /\ Blocked(r)' <=> Blocked(r)
                        /\ pc'[r] = "wait" => pc[r] = "wait"
                        /\ pc'[r] # "woken" => pc'[r] = pc[r]
  BY DEF AddEntry, Broadcast, Blocked
<1>3. UNCHANGED <<q_odsc, tab, snap, result>>
  BY DEF AddEntry, local
<1>4. CountExact'
  <2> SUFFICES ASSUME NEW r \in Reader
               PROVE  /\ Blocked(r)' => /\ remaining'[r] = Cardinality(Missing(r)')
                                        /\ r \in dht_subs' <=> remaining'[r] > 0
                      /\ r \in dht_subs' => Blocked(r)'
                      /\ pc'[r] = "wait" => r \in dht_subs'
    BY DEF CountExact
  <2>1. Blocked(r)' => /\ remaining'[r] = Cardinality(Missing(r)')
                       /\ r \in dht_subs' <=> remaining'[r] > 0
    BY <1>2, AddEntryCount
  <2>2. r \in dht_subs' => Blocked(r)'
    BY <1>2 DEF AddEntry, IndInv, CountExact
  <2>3. ASSUME pc'[r] = "wait" PROVE r \in dht_subs'
    <3>1. pc[r] = "wait" /\ r \in dht_subs
      BY <1>2, <2>3 DEF IndInv, CountExact
    <3>2. r \notin Completed(d)
      <4> SUFFICES ASSUME r \in Completed(d) PROVE FALSE
        OBVIOUS
      <4>1. BinOfReader(r) = BinOf(d.version)
        BY DEF Completed, Interested, obj_desc_equals_intersect, BinOfReader
      <4> QED
        BY <2>3, <3>1, <4>1 DEF AddEntry, Broadcast
    <3> QED
      BY <3>1, <3>2 DEF AddEntry
  <2> QED
    BY <2>1, <2>2, <2>3
<1>5. remaining' \in [Reader -> Nat]
  <2>1. ASSUME NEW r \in Reader
        PROVE  (IF r \in Interested(d) THEN RemainingAfter(r, d) ELSE remaining[r]) \in Nat
    <3>1. CASE r \in Interested(d)
      <4>1. Blocked(r)
        BY <3>1 DEF Interested, IndInv, CountExact
      <4>2. remaining'[r] = Cardinality(Missing(r)')
        BY <4>1, AddEntryCount
      <4>3. IsFiniteSet(Missing(r)') /\ Cardinality(Missing(r)') \in Nat
        <5>1. Missing(r)' = Need(r) \ UNION {k.box : k \in avail'[r]}
          BY <1>3 DEF Missing, Need
        <5> QED
          BY <5>1, NeedFinite
      <4> QED
        BY <3>1, <4>2, <4>3 DEF AddEntry
    <3>2. CASE r \notin Interested(d)
      BY <3>2 DEF IndInv, TypeOK
    <3> QED
      BY <3>1, <3>2
  <2> QED
    BY <2>1 DEF AddEntry
<1>6. TypeOK'
  <2>1. dht_subs' \subseteq Reader /\ published' \subseteq Key
    BY <1>0 DEF AddEntry, IndInv, TypeOK
  <2>2. pc' \in [Reader -> PC]
    BY DEF AddEntry, Broadcast, IndInv, TypeOK, PC
  <2>3. recv' \in [Reader -> SUBSET Nat]
    <3>1. Slot(d) \in Nat
      BY <1>0
    <3> QED
      BY <3>1 DEF AddEntry, IndInv, TypeOK
  <2>4. avail' \in [Reader -> SUBSET Key]
    BY <1>0 DEF AddEntry, IndInv, TypeOK
  <2> QED
    BY <1>1, <1>3, <1>5, <2>1, <2>2, <2>3, <2>4 DEF IndInv, TypeOK
<1>7. AvailPublished'
  <2> SUFFICES ASSUME NEW r \in Reader, NEW k \in avail'[r]
               PROVE  /\ k \in published'
                      /\ k.name = q_odsc[r].name /\ k.version = q_odsc[r].version
    BY <1>3 DEF AvailPublished
  <2>1. CASE k \in avail[r]
    BY <2>1 DEF IndInv, AvailPublished, AddEntry
  <2>2. CASE k \notin avail[r]
    <3>1. k = KeyOf(d) /\ d.name = q_odsc[r].name /\ d.version = q_odsc[r].version
      BY <2>2 DEF AddEntry
    <3> QED
      BY <3>1 DEF AddEntry, KeyOf
  <2> QED
    BY <2>1, <2>2
<1>8. PointersValid'
  <2> SUFFICES ASSUME NEW r \in Reader
               PROVE  /\ tab'[r] \subseteq DOMAIN Entries(r)'
                      /\ recv'[r] \subseteq DOMAIN Entries(r)'
                      /\ DOMAIN snap'[r] \subseteq DOMAIN Entries(r)'
                      /\ pc'[r] = "copy" => tab'[r] \subseteq DOMAIN snap'[r]
    BY DEF PointersValid
  <2>1. /\ BinOfReader(r) \in Bin
        /\ Entries(r)' = odsc_hash'[BinOfReader(r)]
        /\ DOMAIN Entries(r) \subseteq DOMAIN Entries(r)'
    BY <1>1, <1>3, ReaderBin DEF Entries, BinOfReader, IndInv
  <2>2. r \in Interested(d) => BinOfReader(r) = n
    BY DEF Interested, obj_desc_equals_intersect, BinOfReader
  <2>3. recv'[r] \subseteq DOMAIN Entries(r)'
    BY <1>1, <2>1, <2>2 DEF AddEntry, IndInv, PointersValid
  <2> QED
    BY <1>2, <1>3, <2>1, <2>3 DEF IndInv, PointersValid
<1> QED
  BY <1>1, <1>4, <1>6, <1>7, <1>8 DEF IndInv

(* dht_update_owner changes no key, so nothing a query counts. *)
LEMMA UpdateOwnerStep ==
  ASSUME IndInv, NEW d \in Put, UpdateOwner(d)
  PROVE  IndInv'
<1> DEFINE n == BinOf(d.version)
           list == odsc_hash[n]
           s == FirstOf(dht_find_exact(d))
           new == [list[s] EXCEPT !.owner = d.owner]
<1>1. d.version \in Version /\ d.owner \in Owner /\ n \in Bin
  BY BinRange DEF Put
<1>2. odsc_hash \in [Bin -> Seq(Descriptor)] /\ list \in Seq(Descriptor)
  BY <1>1 DEF IndInv, TypeOK
<1>3. s \in DOMAIN list
  <2>1. Len(list) \in Nat /\ dht_find_exact(d) \subseteq 1 .. Len(list)
    BY <1>2 DEF dht_find_exact
  <2>2. dht_find_exact(d) # {}
    BY DEF UpdateOwner
  <2>3. s \in dht_find_exact(d)
    BY <2>1, <2>2, FirstOfIn
  <2> QED
    BY <2>3 DEF dht_find_exact
<1>4. list[s] \in Descriptor
  BY <1>2, <1>3
<1>5. new \in Descriptor /\ KeyOf(new) = KeyOf(list[s]) /\ new.version = list[s].version
  BY <1>1, <1>4 DEF Descriptor, KeyOf
<1>6. odsc_hash' = [odsc_hash EXCEPT ![n] = [list EXCEPT ![s] = new]]
  BY DEF UpdateOwner
<1> HIDE DEF n, list, s, new
<1>7. [list EXCEPT ![s] = new] \in Seq(Descriptor)
  BY <1>2, <1>3, <1>5, ExceptSeq
<1>8. odsc_hash' \in [Bin -> Seq(Descriptor)]
  BY <1>1, <1>2, <1>6, <1>7
<1>9. ASSUME NEW m \in Bin
      PROVE  /\ DOMAIN odsc_hash'[m] = DOMAIN odsc_hash[m]
             /\ \A i \in DOMAIN odsc_hash[m] :
                  /\ KeyOf(odsc_hash'[m][i]) = KeyOf(odsc_hash[m][i])
                  /\ odsc_hash'[m][i].version = odsc_hash[m][i].version
  <2>1. CASE m # n
    BY <2>1, <1>1, <1>2, <1>6
  <2>2. CASE m = n
    <3>1. odsc_hash'[m] = [list EXCEPT ![s] = new] /\ odsc_hash[m] = list
      BY <2>2, <1>1, <1>2, <1>6 DEF list
    <3> QED
      BY <3>1, <1>3, <1>5
  <2> QED
    BY <2>1, <2>2
<1>10. UNCHANGED <<dht_subs, q_odsc, pc, remaining, recv, tab, snap, result,
                   published, avail>>
  BY DEF UpdateOwner, local
<1>11. TypeOK'
  BY <1>8, <1>10 DEF IndInv, TypeOK
<1>12. EntriesPublished' /\ EntriesDistinct'
  <2>1. EntriesPublished'
    BY <1>9, <1>10 DEF IndInv, EntriesPublished, KeyOf, BinOf
  <2>2. EntriesDistinct'
    <3> SUFFICES ASSUME NEW m \in Bin,
                        NEW i \in DOMAIN odsc_hash'[m], NEW j \in DOMAIN odsc_hash'[m],
                        KeyOf(odsc_hash'[m][i]) = KeyOf(odsc_hash'[m][j])
                 PROVE  i = j
      BY DEF EntriesDistinct, KeyOf
    <3> QED
      BY <1>9 DEF IndInv, EntriesDistinct
  <2> QED
    BY <2>1, <2>2
<1>13. PublishedDisjoint' /\ AvailPublished'
  BY <1>10 DEF IndInv, PublishedDisjoint, AvailPublished, obj_desc_equals_intersect
<1>14. PointersValid'
  <2>1. \A r \in Reader : DOMAIN Entries(r)' = DOMAIN Entries(r)
    BY <1>9, <1>10, ReaderBin DEF IndInv, Entries, BinOfReader
  <2> QED
    BY <1>10, <2>1 DEF IndInv, PointersValid
<1>15. CountExact'
  BY <1>10 DEF IndInv, CountExact, Blocked, Missing, Need
<1> QED
  BY <1>11, <1>12, <1>13, <1>14, <1>15 DEF IndInv

(* A step of one reader leaves the index alone. *)
LEMMA IndexUnchanged ==
  ASSUME IndInv, UNCHANGED <<odsc_hash, published>>
  PROVE  EntriesPublished' /\ EntriesDistinct' /\ PublishedDisjoint'
BY DEF IndInv, EntriesPublished, EntriesDistinct, PublishedDisjoint,
       KeyOf, BinOf, obj_desc_equals_intersect

(* Scanning and subscribing happen under one hold of the mutex, so the     *)
(* counter starts at exactly what is missing.                              *)
LEMMA FindEntryAllStep ==
  ASSUME IndInv, NEW r \in Reader, FindEntryAll(r)
  PROVE  IndInv'
<1> DEFINE list == Entries(r)
<1>1. /\ UNCHANGED <<odsc_hash, q_odsc, recv, snap, result, published>>
      /\ pc[r] = "idle"
      /\ tab' = [tab EXCEPT ![r] = Matching(list, r)]
      /\ avail' = [avail EXCEPT ![r] = Indexed(list, r)]
  BY DEF FindEntryAll
<1>2. TypeOK
  BY DEF IndInv
<1>3. BinOfReader(r) \in Bin /\ list \in Seq(Descriptor)
  BY <1>2, ReaderBin DEF TypeOK, Entries
<1>4. Matching(list, r) \subseteq DOMAIN list /\ DOMAIN list \subseteq Nat
  BY <1>3 DEF Matching
<1>5. \A k \in Indexed(list, r) :
        /\ k \in published /\ k \in Key
        /\ k.name = q_odsc[r].name /\ k.version = q_odsc[r].version
  <2> TAKE k \in Indexed(list, r)
  <2>1. PICK i \in Matching(list, r) : k = KeyOf(list[i])
    BY DEF Indexed
  <2>2. k \in published
    BY <1>3, <2>1, <1>4 DEF IndInv, EntriesPublished, Entries
  <2> QED
    BY <1>2, <2>1, <2>2 DEF TypeOK, KeyOf, Matching, obj_desc_equals_intersect
<1>6. avail'[r] = Indexed(list, r) /\ \A o \in Reader : o # r => avail'[o] = avail[o]
  BY <1>1, <1>2 DEF TypeOK
<1>7. Missing(r)' = Need(r) \ UNION {k.box : k \in Indexed(list, r)}
  BY <1>1, <1>6 DEF Missing, Need
<1>8. ElemLeft(list, r) = Cardinality(Missing(r)') /\ ElemLeft(list, r) \in Nat
  BY <1>7, ScanExact, NeedFinite
<1>9. r \notin dht_subs
  BY <1>1 DEF IndInv, CountExact, Blocked
<1>10. \/ /\ ElemLeft(list, r) > 0
          /\ remaining' = [remaining EXCEPT ![r] = ElemLeft(list, r)]
          /\ dht_subs' = dht_subs \cup {r}
          /\ pc' = [pc EXCEPT ![r] = "wait"]
       \/ /\ pc' = [pc EXCEPT ![r] = "found"]
          /\ UNCHANGED <<remaining, dht_subs>>
  BY DEF FindEntryAll
<1>11. TypeOK'
  <2>1. tab' \in [Reader -> SUBSET Nat] /\ avail' \in [Reader -> SUBSET Key]
    BY <1>1, <1>2, <1>4, <1>5 DEF TypeOK
  <2>2. pc' \in [Reader -> PC] /\ remaining' \in [Reader -> Nat] /\ dht_subs' \subseteq Reader
    BY <1>2, <1>8, <1>10 DEF TypeOK, PC
  <2> QED
    BY <1>1, <1>2, <2>1, <2>2 DEF TypeOK
<1>12. AvailPublished'
  BY <1>1, <1>5, <1>6 DEF IndInv, AvailPublished
<1>13. PointersValid'
  <2>1. \A o \in Reader : Entries(o)' = Entries(o)
    BY <1>1 DEF Entries, BinOfReader
  <2>2. \A o \in Reader : tab'[o] \subseteq DOMAIN Entries(o)
    BY <1>1, <1>2, <1>4 DEF IndInv, PointersValid, TypeOK
  <2>3. \A o \in Reader : pc'[o] = "copy" => o # r /\ pc[o] = "copy" /\ tab'[o] = tab[o]
    BY <1>1, <1>2, <1>10 DEF TypeOK
  <2> QED
    BY <1>1, <2>1, <2>2, <2>3 DEF IndInv, PointersValid
<1>14. CountExact'
  <2> SUFFICES ASSUME NEW o \in Reader
               PROVE  /\ Blocked(o)' => /\ remaining'[o] = Cardinality(Missing(o)')
                                        /\ o \in dht_subs' <=> remaining'[o] > 0
                      /\ o \in dht_subs' => Blocked(o)'
                      /\ pc'[o] = "wait" => o \in dht_subs'
    BY DEF CountExact
  <2>1. CASE o # r
    <3>1. /\ pc'[o] = pc[o] /\ remaining'[o] = remaining[o]
          /\ o \in dht_subs' <=> o \in dht_subs
      BY <1>2, <1>10, <2>1 DEF TypeOK
    <3>2. Missing(o)' = Missing(o)
      BY <1>1, <1>6, <2>1 DEF Missing, Need
    <3> QED
      BY <3>1, <3>2 DEF IndInv, CountExact, Blocked
  <2>2. CASE o = r
    <3>1. CASE ElemLeft(list, r) > 0 /\ remaining'[r] = ElemLeft(list, r)
                 /\ r \in dht_subs' /\ pc'[r] = "wait"
      BY <1>8, <2>2, <3>1 DEF Blocked
    <3>2. CASE pc'[r] = "found" /\ r \notin dht_subs'
      BY <2>2, <3>2 DEF Blocked
    <3> QED
      BY <1>2, <1>9, <1>10, <3>1, <3>2 DEF TypeOK
  <2> QED
    BY <2>1, <2>2
<1> QED
  BY <1>1, <1>11, <1>12, <1>13, <1>14, IndexUnchanged DEF IndInv

(* A reader that wakes keeps the invariant. *)
LEMMA WakeStep ==
  ASSUME IndInv, NEW r \in Reader, Wake(r)
  PROVE  IndInv'
<1>1. /\ UNCHANGED <<odsc_hash, published, dht_subs, q_odsc, remaining, recv, snap,
                     result, avail>>
      /\ pc[r] = "woken"
  BY DEF Wake, index
<1>2. TypeOK
  BY DEF IndInv
<1>3. \/ remaining[r] > 0 /\ pc' = [pc EXCEPT ![r] = "wait"] /\ tab' = tab
      \/ /\ remaining[r] <= 0
         /\ tab' = [tab EXCEPT ![r] = @ \cup recv[r]]
         /\ pc' = [pc EXCEPT ![r] = "found"]
  BY DEF Wake
<1>4. TypeOK'
  BY <1>1, <1>2, <1>3 DEF TypeOK, PC
<1>5. AvailPublished'
  BY <1>1 DEF IndInv, AvailPublished
<1>6. PointersValid'
  <2>1. \A o \in Reader : Entries(o)' = Entries(o)
    BY <1>1 DEF Entries, BinOfReader
  <2>2. \A o \in Reader : tab'[o] \subseteq DOMAIN Entries(o)
    <3> TAKE o \in Reader
    <3>1. tab[o] \subseteq DOMAIN Entries(o) /\ recv[o] \subseteq DOMAIN Entries(o)
      BY DEF IndInv, PointersValid
    <3>2. tab'[o] \subseteq tab[o] \cup recv[o]
      BY <1>2, <1>3 DEF TypeOK
    <3> QED
      BY <3>1, <3>2
  <2>3. \A o \in Reader : pc'[o] = "copy" => pc[o] = "copy" /\ tab'[o] = tab[o]
    BY <1>1, <1>2, <1>3 DEF TypeOK
  <2> QED
    BY <1>1, <2>1, <2>2, <2>3 DEF IndInv, PointersValid
<1>7. CountExact'
  <2> SUFFICES ASSUME NEW o \in Reader
               PROVE  /\ Blocked(o)' => /\ remaining[o] = Cardinality(Missing(o))
                                        /\ o \in dht_subs <=> remaining[o] > 0
                      /\ o \in dht_subs => Blocked(o)'
                      /\ pc'[o] = "wait" => o \in dht_subs
    BY <1>1 DEF CountExact, Missing, Need
  <2>1. CASE o # r
    <3>1. pc'[o] = pc[o]
      BY <1>2, <1>3, <2>1 DEF TypeOK
    <3> QED
      BY <3>1 DEF IndInv, CountExact, Blocked
  <2>2. CASE o = r
    <3>1. /\ remaining[r] = Cardinality(Missing(r))
          /\ r \in dht_subs <=> remaining[r] > 0
          /\ remaining[r] \in Nat
      BY <1>1, <1>2 DEF IndInv, CountExact, Blocked, TypeOK
    <3>2. CASE remaining[r] > 0 /\ pc'[r] = "wait"
      BY <2>2, <3>1, <3>2 DEF Blocked
    <3>3. CASE remaining[r] <= 0 /\ pc'[r] = "found"
      BY <2>2, <3>1, <3>3 DEF Blocked
    <3> QED
      BY <1>2, <1>3, <3>2, <3>3 DEF TypeOK
  <2> QED
    BY <2>1, <2>2
<1> QED
  BY <1>1, <1>4, <1>5, <1>6, <1>7, IndexUnchanged DEF IndInv

(* A torn read of two descriptors still yields a descriptor. *)
LEMMA ViewsTyped ==
  ASSUME IndInv, NEW r \in Reader, NEW view \in Views(snap[r], Entries(r))
  PROVE  /\ DOMAIN view = DOMAIN snap[r]
         /\ \A i \in DOMAIN snap[r] : view[i] \in Descriptor
<1>1. /\ snap[r] \in Seq(Descriptor) /\ Entries(r) \in Seq(Descriptor)
      /\ DOMAIN snap[r] \subseteq DOMAIN Entries(r)
  BY ReaderBin DEF IndInv, TypeOK, PointersValid, Entries
<1>2. /\ DOMAIN view = DOMAIN snap[r]
      /\ \A i \in DOMAIN snap[r] : view[i] \in Torn(snap[r][i], Entries(r)[i])
  BY DEF Views
<1>3. ASSUME NEW i \in DOMAIN snap[r]
      PROVE  view[i] \in Descriptor
  <2>1. snap[r][i] \in Descriptor /\ Entries(r)[i] \in Descriptor
    BY <1>1
  <2> QED
    BY <1>2, <2>1 DEF Torn, Descriptor
<1> QED
  BY <1>2, <1>3

(* The steps that neither wait nor wake: they move a reader that is not    *)
(* blocked to a place where it is not blocked.                             *)
LEMMA UnblockedCount ==
  ASSUME IndInv, NEW r \in Reader, NEW to \in {"scan", "found", "copy", "done"},
         ~ Blocked(r), pc' = [pc EXCEPT ![r] = to],
         UNCHANGED <<dht_subs, q_odsc, remaining>>,
         \A o \in Reader : o # r => avail'[o] = avail[o]
  PROVE  CountExact'
<1> SUFFICES ASSUME NEW o \in Reader
             PROVE  /\ Blocked(o)' => /\ remaining[o] = Cardinality(Missing(o)')
                                      /\ o \in dht_subs <=> remaining[o] > 0
                    /\ o \in dht_subs => Blocked(o)'
                    /\ pc'[o] = "wait" => o \in dht_subs
  BY DEF CountExact
<1>1. CASE o # r
  <2>1. pc'[o] = pc[o]
    BY <1>1 DEF IndInv, TypeOK
  <2>2. Missing(o)' = Missing(o)
    BY <1>1 DEF Missing, Need
  <2> QED
    BY <2>1, <2>2 DEF IndInv, CountExact, Blocked
<1>2. CASE o = r
  <2>1. pc'[r] = to /\ r \notin dht_subs
    BY DEF IndInv, TypeOK, CountExact
  <2> QED
    BY <1>2, <2>1 DEF Blocked
<1> QED
  BY <1>1, <1>2

(* Reads without the mutex and the copies made after it is released. *)
LEMMA UnlockedStep ==
  ASSUME IndInv, NEW r \in Reader,
         PollBegin(r) \/ PollEnd(r) \/ CopyBegin(r) \/ CopyEnd(r)
  PROVE  IndInv'
<1>1. UNCHANGED <<odsc_hash, published, dht_subs, q_odsc, remaining, recv>>
  BY DEF PollBegin, PollEnd, CopyBegin, CopyEnd, index
<1>2. TypeOK /\ ~ Blocked(r) /\ Entries(r) \in Seq(Descriptor)
  BY ReaderBin DEF PollBegin, PollEnd, CopyBegin, CopyEnd, BeginRead, Blocked, IndInv,
     TypeOK, Entries
<1>3. \A o \in Reader : Entries(o)' = Entries(o)
  BY <1>1 DEF Entries, BinOfReader
<1>4. CASE PollBegin(r)
  <2>1. /\ pc' = [pc EXCEPT ![r] = "scan"] /\ snap' = [snap EXCEPT ![r] = Entries(r)]
        /\ avail' = [avail EXCEPT ![r] = Indexed(Entries(r), r)]
        /\ UNCHANGED <<tab, result>>
    BY <1>4 DEF PollBegin, BeginRead
  <2>2. \A k \in Indexed(Entries(r), r) :
          /\ k \in published /\ k \in Key
          /\ k.name = q_odsc[r].name /\ k.version = q_odsc[r].version
    <3> TAKE k \in Indexed(Entries(r), r)
    <3>1. PICK i \in Matching(Entries(r), r) : k = KeyOf(Entries(r)[i])
      BY DEF Indexed
    <3>2. k \in published
      BY <1>2, <3>1, ReaderBin DEF IndInv, EntriesPublished, Entries, Matching
    <3> QED
      BY <1>2, <3>1, <3>2 DEF TypeOK, KeyOf, Matching, obj_desc_equals_intersect
  <2>3. TypeOK'
    BY <1>1, <1>2, <2>1, <2>2 DEF TypeOK, PC
  <2>4. CountExact'
    <3>1. \A o \in Reader : o # r => avail'[o] = avail[o]
      BY <1>2, <2>1 DEF TypeOK
    <3> QED
      BY <1>1, <1>2, <2>1, <3>1, UnblockedCount
  <2>5. AvailPublished'
    BY <1>1, <1>2, <2>1, <2>2 DEF IndInv, AvailPublished, TypeOK
  <2>6. PointersValid'
    BY <1>1, <1>2, <1>3, <2>1 DEF IndInv, PointersValid, TypeOK
  <2> QED
    BY <1>1, <2>3, <2>4, <2>5, <2>6, IndexUnchanged DEF IndInv
<1>5. CASE PollEnd(r)
  <2>0. PICK view \in Views(snap[r], Entries(r)) :
          \/ tab' = [tab EXCEPT ![r] = {}] /\ pc' = [pc EXCEPT ![r] = "done"]
          \/ tab' = [tab EXCEPT ![r] = Matching(view, r)] /\ pc' = [pc EXCEPT ![r] = "found"]
    BY <1>5 DEF PollEnd
  <2>1. PICK to \in {"found", "done"}, t \in {{}, Matching(view, r)} :
          /\ pc' = [pc EXCEPT ![r] = to]
          /\ tab' = [tab EXCEPT ![r] = t]
    BY <2>0
  <2>2. snap' = [snap EXCEPT ![r] = <<>>] /\ UNCHANGED <<result, avail>>
    BY <1>5 DEF PollEnd
  <2>3. t \subseteq DOMAIN Entries(r)
    BY <2>1, ViewsTyped DEF Matching, IndInv, PointersValid
  <2>4. TypeOK'
    <3>1. t \subseteq Nat
      BY <1>2, <2>3
    <3> QED
      BY <1>1, <1>2, <2>1, <2>2, <3>1 DEF TypeOK, PC
  <2>5. CountExact'
    BY <1>1, <1>2, <2>1, <2>2, UnblockedCount
  <2>6. AvailPublished'
    BY <1>1, <2>2 DEF IndInv, AvailPublished
  <2>7. PointersValid'
    <3>1. \A o \in Reader : DOMAIN snap'[o] \subseteq DOMAIN snap[o]
      BY <1>2, <2>2 DEF TypeOK
    <3>2. \A o \in Reader : tab'[o] \subseteq DOMAIN Entries(o)
      BY <1>2, <2>1, <2>3 DEF TypeOK, IndInv, PointersValid
    <3>3. \A o \in Reader : pc'[o] = "copy" =>
            pc[o] = "copy" /\ tab'[o] = tab[o] /\ snap'[o] = snap[o]
      BY <1>2, <2>1, <2>2 DEF TypeOK
    <3> QED
      BY <1>1, <1>3, <3>1, <3>2, <3>3 DEF IndInv, PointersValid
  <2> QED
    BY <1>1, <2>4, <2>5, <2>6, <2>7, IndexUnchanged DEF IndInv
<1>6. CASE CopyBegin(r)
  <2>1. /\ pc' = [pc EXCEPT ![r] = "copy"] /\ snap' = [snap EXCEPT ![r] = Entries(r)]
        /\ UNCHANGED <<tab, result, avail>>
    BY <1>6 DEF CopyBegin, BeginRead
  <2>2. TypeOK'
    BY <1>1, <1>2, <2>1 DEF TypeOK, PC
  <2>3. CountExact'
    BY <1>1, <1>2, <2>1, UnblockedCount
  <2>4. AvailPublished'
    BY <1>1, <2>1 DEF IndInv, AvailPublished
  <2>5. PointersValid'
    BY <1>1, <1>2, <1>3, <2>1 DEF IndInv, PointersValid, TypeOK
  <2> QED
    BY <1>1, <2>2, <2>3, <2>4, <2>5, IndexUnchanged DEF IndInv
<1>7. CASE CopyEnd(r)
  <2>1. PICK view \in Views(snap[r], Entries(r)) :
          result' = [result EXCEPT ![r] =
                       {[view[i] EXCEPT !.box = @ \cap q_odsc[r].box] : i \in tab[r]}]
    BY <1>7 DEF CopyEnd
  <2>2. /\ pc[r] = "copy" /\ pc' = [pc EXCEPT ![r] = "done"]
        /\ snap' = [snap EXCEPT ![r] = <<>>] /\ UNCHANGED <<tab, avail>>
    BY <1>7 DEF CopyEnd
  <2>3. ASSUME NEW i \in tab[r]
        PROVE  [view[i] EXCEPT !.box = @ \cap q_odsc[r].box] \in Descriptor
    <3>1. view[i] \in Descriptor
      BY <2>2, ViewsTyped DEF IndInv, PointersValid
    <3> QED
      BY <3>1 DEF Descriptor
  <2>4. result' \in [Reader -> SUBSET Descriptor]
    <3> DEFINE copies == {[view[i] EXCEPT !.box = @ \cap q_odsc[r].box] : i \in tab[r]}
    <3>1. copies \in SUBSET Descriptor
      BY <2>3
    <3>2. result' = [result EXCEPT ![r] = copies]
      BY <2>1
    <3> HIDE DEF copies
    <3> QED
      BY <1>2, <3>1, <3>2 DEF TypeOK
  <2>5. TypeOK'
    <3>1. pc' \in [Reader -> PC] /\ snap' \in [Reader -> Seq(Descriptor)]
      BY <1>2, <2>2 DEF TypeOK, PC
    <3> QED
      BY <1>1, <1>2, <2>2, <2>4, <3>1 DEF TypeOK
  <2>6. CountExact'
    BY <1>1, <1>2, <2>2, UnblockedCount
  <2>7. AvailPublished'
    BY <1>1, <2>2 DEF IndInv, AvailPublished
  <2>8. PointersValid'
    <3>0. pc \in [Reader -> PC] /\ snap \in [Reader -> Seq(Descriptor)]
      BY <1>2 DEF TypeOK
    <3>1. \A o \in Reader : DOMAIN snap'[o] \subseteq DOMAIN snap[o]
      <4> TAKE o \in Reader
      <4>1. CASE o = r
        BY <3>0, <2>2, <4>1
      <4>2. CASE o # r
        BY <3>0, <2>2, <4>2
      <4> QED
        BY <4>1, <4>2
    <3>2. \A o \in Reader : pc'[o] = "copy" => pc[o] = "copy" /\ snap'[o] = snap[o]
      BY <3>0, <2>2
    <3> QED
      BY <1>1, <1>3, <2>2, <3>1, <3>2 DEF IndInv, PointersValid
  <2> QED
    BY <1>1, <2>5, <2>6, <2>7, <2>8, IndexUnchanged DEF IndInv
<1> QED
  BY <1>4, <1>5, <1>6, <1>7

-----------------------------------------------------------------------------
(* IndInv is an invariant of every execution. *)
THEOREM IndInvariant == Spec => []IndInv
<1>1. Init => IndInv
  <2> SUFFICES ASSUME Init PROVE IndInv
    OBVIOUS
  <2>1. TypeOK
    BY DEF Init, TypeOK, PC
  <2>2. EntriesPublished /\ EntriesDistinct /\ PublishedDisjoint /\ AvailPublished
    BY DEF Init, EntriesPublished, EntriesDistinct, PublishedDisjoint, AvailPublished
  <2>3. PointersValid /\ CountExact
    BY DEF Init, PointersValid, CountExact, Blocked
  <2> QED
    BY <2>1, <2>2, <2>3 DEF IndInv
<1>2. IndInv /\ [Next]_vars => IndInv'
  <2> SUFFICES ASSUME IndInv, [Next]_vars PROVE IndInv'
    OBVIOUS
  <2>1. CASE \E d \in Put : AddEntry(d)
    BY <2>1, AddEntryStep
  <2>2. CASE \E d \in Put : UpdateOwner(d)
    BY <2>2, UpdateOwnerStep
  <2>3. CASE \E r \in Reader : ReaderStep(r)
    BY <2>3, FindEntryAllStep, WakeStep, UnlockedStep DEF ReaderStep
  <2>4. CASE UNCHANGED vars
    <3>1. TypeOK' /\ EntriesPublished' /\ EntriesDistinct' /\ PublishedDisjoint'
      BY <2>4, IndexUnchanged DEF vars, IndInv, TypeOK
    <3>2. AvailPublished'
      BY <2>4 DEF vars, IndInv, AvailPublished
    <3>3. PointersValid'
      BY <2>4 DEF vars, IndInv, PointersValid, Entries, BinOfReader
    <3>4. CountExact'
      BY <2>4 DEF vars, IndInv, CountExact, Blocked, Missing, Need
    <3> QED
      BY <3>1, <3>2, <3>3, <3>4 DEF IndInv
  <2> QED
    BY <2>1, <2>2, <2>3, <2>4 DEF Next
<1> QED
  BY <1>1, <1>2, PTL DEF Spec

(* Type correctness; in particular sub.remaining never goes negative. *)
THEOREM TypeCorrect == Spec => []TypeOK
<1>1. IndInv => TypeOK
  BY DEF IndInv
<1> QED
  BY <1>1, IndInvariant, PTL

(* The counter of a linked subscription (dht_local_subscribe) is exactly   *)
(* the number of elements that have neither been indexed nor arrived.      *)
THEOREM SubscriptionCountExact == Spec => []RemainingExact
<1>1. IndInv => RemainingExact
  BY DEF IndInv, CountExact, RemainingExact, TypeOK
<1> QED
  BY <1>1, IndInvariant, PTL

(* No query sleeps on hash_cond once everything it needs has arrived. *)
THEOREM NoWakeupIsLost == Spec => []NoLostWakeup
<1>1. ASSUME IndInv, NEW r \in Reader, pc[r] = "wait"
      PROVE  r \in dht_subs /\ Missing(r) # {}
  <2>1. r \in dht_subs /\ remaining[r] = Cardinality(Missing(r)) /\ remaining[r] > 0
    BY <1>1 DEF IndInv, CountExact, Blocked
  <2> QED
    BY <2>1, FS_EmptySet
<1>2. IndInv => NoLostWakeup
  BY <1>1 DEF NoLostWakeup
<1> QED
  BY <1>2, IndInvariant, PTL

(* dht_subs never holds a stack frame that dht_local_subscribe has left. *)
THEOREM SubscriptionsDoNotDangle == Spec => []NoDanglingSub
<1>1. IndInv => NoDanglingSub
  BY DEF IndInv, CountExact, NoDanglingSub, TypeOK
<1> QED
  BY <1>1, IndInvariant, PTL

-----------------------------------------------------------------------------
(* What a query returns. *)

(* The entries a reader has seen without the mutex are still those of the  *)
(* objects it has seen, as far as they are of the variable it asks for.    *)
Follows(r) ==
  \A i \in DOMAIN snap[r] :
    /\ snap[r][i].name = Entries(r)[i].name
    /\ snap[r][i].name = q_odsc[r].name => obj_desc_equals_no_owner(snap[r][i], Entries(r)[i])

(* The entries that a reader points at contain an element. *)
Covered(r, c, T) == \E i \in T : c \in Entries(r)[i].box

(* What ResultExact says of one reader. *)
ReturnsExact(r) ==
  \/ /\ Need(r) \subseteq UNION {d.box : d \in result[r]}
     /\ \A d \in result[r] : d.name = q_odsc[r].name /\ d.version = q_odsc[r].version
  \/ /\ q_odsc[r].timeout = Poll
     /\ result[r] = {}
     /\ Missing(r) # {}

(* How far a reader has come: the entries it points at are of its variable *)
(* and contain what is available to it.                                    *)
Progress(r) ==
  /\ Follows(r)
  /\ \A i \in tab[r] \cup recv[r] : Entries(r)[i].name = q_odsc[r].name
  /\ Blocked(r) => \A c \in Need(r) \ Missing(r) : Covered(r, c, tab[r] \cup recv[r])
  /\ pc[r] \in {"found", "copy"} => \A c \in Need(r) : Covered(r, c, tab[r])
  /\ pc[r] = "scan" => \A k \in avail[r] : \E i \in Matching(snap[r], r) : k.box = snap[r][i].box
  /\ pc[r] = "done" => ReturnsExact(r)

ReaderExact(r) ==
  /\ pc[r] # "done" => result[r] = {}
  /\ pc[r] = "scan" => q_odsc[r].timeout = Poll
  /\ BinUndisturbed(r) => Progress(r)

ReadersExact == \A r \in Reader : ReaderExact(r)

(* The index keeps what a reader may point at: entries keep their places   *)
(* and names, and those of the reader's variable their objects.            *)
Kept(r) ==
  \A i \in DOMAIN Entries(r) :
    /\ i \in DOMAIN Entries(r)'
    /\ Entries(r)'[i].name = Entries(r)[i].name
    /\ Entries(r)[i].name = q_odsc[r].name =>
         obj_desc_equals_no_owner(Entries(r)[i], Entries(r)'[i])

(* dht_add_entry overwrites no entry of a variable that has one version in *)
(* the bin: the entry would have an element in common with the new object. *)
LEMMA AddEntryKeeps ==
  ASSUME IndInv, NEW d \in Put, AddEntry(d), NEW r \in Reader, BinUndisturbed(r)'
  PROVE  Kept(r) /\ BinUndisturbed(r)
<1> DEFINE n == BinOf(d.version)
           list == odsc_hash[n]
           s == Slot(d)
<1>0. /\ d \in Descriptor /\ n \in Bin /\ list \in Seq(Descriptor) /\ s \in 1 .. Len(list) + 1
  BY AddEntryFacts
<1>1. odsc_hash \in [Bin -> Seq(Descriptor)] /\ BinOfReader(r) \in Bin
  BY ReaderBin DEF IndInv, TypeOK
<1>2. /\ odsc_hash'[n] = Written(list, s, d)
      /\ \A m \in Bin : m # n => odsc_hash'[m] = odsc_hash[m]
  BY <1>0, <1>1 DEF AddEntry
<1>3. /\ DOMAIN Written(list, s, d) = DOMAIN list \cup {s}
      /\ Written(list, s, d)[s] = d
      /\ \A j \in DOMAIN list : j # s => Written(list, s, d)[j] = list[j]
  BY <1>0, WrittenFacts
<1>4. q_odsc' = q_odsc /\ published' = published \cup {KeyOf(d)}
  BY DEF AddEntry
<1>5. \A k \in published' :
        /\ k.name = q_odsc[r].name
        /\ BinOf(k.version) = BinOfReader(r)
        => k.version = q_odsc[r].version
  BY <1>4 DEF BinUndisturbed, BinOfReader
<1>6. BinUndisturbed(r)
  BY <1>4, <1>5 DEF BinUndisturbed
<1>7. Entries(r)' = odsc_hash'[BinOfReader(r)] /\ Entries(r) = odsc_hash[BinOfReader(r)]
  BY <1>4 DEF Entries, BinOfReader
<1>8. CASE BinOfReader(r) # n
  BY <1>1, <1>2, <1>6, <1>7, <1>8 DEF Kept, obj_desc_equals_no_owner
<1>9. CASE BinOfReader(r) = n
  <2>1. ASSUME s \in DOMAIN list
        PROVE  list[s].name = d.name /\ list[s].name # q_odsc[r].name
    <3>1. s \in dht_find_match(d)
      <4>1. dht_find_match(d) \subseteq 1 .. Len(list) /\ Len(list) \in Nat
        BY <1>0 DEF dht_find_match
      <4>2. s # Len(list) + 1
        BY <1>0, <2>1
      <4>3. dht_find_match(d) # {}
        BY <4>2 DEF Slot
      <4> QED
        BY <4>1, <4>3, FirstOfIn DEF Slot
    <3>2. d.name = list[s].name /\ bbox_does_intersect(d.box, list[s].box)
      BY <3>1 DEF dht_find_match, obj_desc_by_name_intersect
    <3>3. KeyOf(list[s]) \in published /\ BinOf(list[s].version) = n
      BY <1>0, <2>1 DEF IndInv, EntriesPublished
    <3>4. ASSUME list[s].name = q_odsc[r].name
          PROVE  FALSE
      <4>1. KeyOf(d) \in published' /\ KeyOf(list[s]) \in published'
        BY <1>4, <3>3
      <4>2. d.version = q_odsc[r].version /\ list[s].version = q_odsc[r].version
        BY <1>5, <1>9, <3>2, <3>3, <3>4, <4>1 DEF KeyOf
      <4>3. obj_desc_equals_intersect(d, KeyOf(list[s]))
        BY <3>2, <4>2 DEF obj_desc_equals_intersect, KeyOf
      <4> QED
        BY <3>3, <4>3 DEF AddEntry, Immutable
    <3> QED
      BY <3>2, <3>4
  <2>2. Kept(r)
    <3> SUFFICES ASSUME NEW i \in DOMAIN list
                 PROVE  /\ i \in DOMAIN Entries(r)'
                        /\ Entries(r)'[i].name = list[i].name
                        /\ list[i].name = q_odsc[r].name =>
                             obj_desc_equals_no_owner(list[i], Entries(r)'[i])
      BY <1>7, <1>9 DEF Kept
    <3> HIDE DEF n, list, s
    <3>1. CASE i = s
      BY <1>2, <1>3, <1>7, <1>9, <2>1, <3>1
    <3>2. CASE i # s
      BY <1>2, <1>3, <1>7, <1>9, <3>2 DEF obj_desc_equals_no_owner
    <3> QED
      BY <3>1, <3>2
  <2> QED
    BY <1>6, <2>2
<1> QED
  BY <1>8, <1>9

(* dht_update_owner changes nothing but owners. *)
LEMMA UpdateOwnerKeeps ==
  ASSUME IndInv, NEW d \in Put, UpdateOwner(d), NEW r \in Reader
  PROVE  Kept(r)
<1> DEFINE n == BinOf(d.version)
           list == odsc_hash[n]
           s == FirstOf(dht_find_exact(d))
           new == [list[s] EXCEPT !.owner = d.owner]
<1>1. n \in Bin /\ BinOfReader(r) \in Bin
  BY BinRange, ReaderBin DEF Put, IndInv
<1>2. odsc_hash \in [Bin -> Seq(Descriptor)] /\ list \in Seq(Descriptor)
  BY <1>1 DEF IndInv, TypeOK
<1>3. s \in DOMAIN list
  <2>1. Len(list) \in Nat /\ dht_find_exact(d) \subseteq 1 .. Len(list)
    BY <1>2 DEF dht_find_exact
  <2>2. dht_find_exact(d) # {}
    BY DEF UpdateOwner
  <2>3. s \in dht_find_exact(d)
    BY <2>1, <2>2, FirstOfIn
  <2> QED
    BY <2>3 DEF dht_find_exact
<1>4. list[s] \in Descriptor
  BY <1>2, <1>3
<1>5. new.name = list[s].name /\ new.version = list[s].version /\ new.box = list[s].box
  BY <1>4 DEF Descriptor
<1>6. odsc_hash' = [odsc_hash EXCEPT ![n] = [list EXCEPT ![s] = new]]
  BY DEF UpdateOwner
<1>7. Entries(r)' = odsc_hash'[BinOfReader(r)] /\ Entries(r) = odsc_hash[BinOfReader(r)]
  BY DEF UpdateOwner, Entries, BinOfReader
<1> HIDE DEF n, list, s, new
<1>8. CASE BinOfReader(r) # n
  BY <1>1, <1>2, <1>6, <1>7, <1>8 DEF Kept, obj_desc_equals_no_owner
<1>9. CASE BinOfReader(r) = n
  <2>1. Entries(r)' = [list EXCEPT ![s] = new] /\ Entries(r) = list
    BY <1>1, <1>2, <1>6, <1>7, <1>9 DEF list
  <2> QED
    BY <1>3, <1>5, <2>1 DEF Kept, obj_desc_equals_no_owner
<1> QED
  BY <1>8, <1>9

(* A step that keeps the entries and does not touch a reader keeps what    *)
(* is known of it.                                                         *)
LEMMA UntouchedReader ==
  ASSUME IndInv, NEW r \in Reader, ReaderExact(r), q_odsc' = q_odsc,
         pc'[r] = pc[r], tab'[r] = tab[r], recv'[r] = recv[r], snap'[r] = snap[r],
         result'[r] = result[r], avail'[r] = avail[r],
         BinUndisturbed(r)' => Kept(r) /\ BinUndisturbed(r)
  PROVE  ReaderExact(r)'
<1> SUFFICES ASSUME BinUndisturbed(r)'
             PROVE  Progress(r)'
  BY DEF ReaderExact
<1>1. Kept(r) /\ Progress(r)
  BY DEF ReaderExact
<1>2. /\ tab[r] \subseteq DOMAIN Entries(r) /\ recv[r] \subseteq DOMAIN Entries(r)
      /\ DOMAIN snap[r] \subseteq DOMAIN Entries(r)
  BY DEF IndInv, PointersValid
<1>3. Need(r)' = Need(r) /\ Missing(r)' = Missing(r) /\ (Blocked(r)' <=> Blocked(r))
  BY DEF Need, Missing, Blocked
<1>4. Follows(r)'
  BY <1>1, <1>2 DEF Progress, Follows, Kept, obj_desc_equals_no_owner
<1>5. \A i \in tab[r] \cup recv[r] :
        Entries(r)'[i].name = q_odsc[r].name /\ Entries(r)'[i].box = Entries(r)[i].box
  BY <1>1, <1>2 DEF Progress, Kept, obj_desc_equals_no_owner
<1>6. \A c : /\ Covered(r, c, tab[r] \cup recv[r]) => Covered(r, c, tab[r] \cup recv[r])'
             /\ Covered(r, c, tab[r]) => Covered(r, c, tab[r])'
  BY <1>5 DEF Covered
<1>7. Matching(snap[r], r)' = Matching(snap[r], r) /\ (ReturnsExact(r)' <=> ReturnsExact(r))
  BY <1>3 DEF Matching, ReturnsExact, obj_desc_equals_intersect, bbox_does_intersect
<1> QED
  BY <1>1, <1>3, <1>4, <1>5, <1>6, <1>7 DEF Progress

(* dht_add_entry gives a blocked reader the entry it has just written, if  *)
(* it contains something that the reader misses.                           *)
LEMMA AddEntryProgress ==
  ASSUME IndInv, NEW d \in Put, AddEntry(d), NEW r \in Reader, ReaderExact(r)
  PROVE  ReaderExact(r)'
<1>1. q_odsc' = q_odsc /\ UNCHANGED <<tab, snap, result>>
  BY DEF AddEntry, local
<1>2. BinUndisturbed(r)' => Kept(r) /\ BinUndisturbed(r)
  BY AddEntryKeeps
<1>3. CASE ~ Blocked(r)
  <2>1. r \notin dht_subs
    BY <1>3 DEF IndInv, CountExact
  <2>2. pc'[r] = pc[r] /\ recv'[r] = recv[r] /\ avail'[r] = avail[r]
    BY <1>3, <2>1 DEF AddEntry, Broadcast, Interested, Blocked
  <2> QED
    BY <1>1, <1>2, <2>2, UntouchedReader
<1>4. CASE Blocked(r)
  <2>1. pc[r] \in {"wait", "woken"} /\ pc'[r] \in {"wait", "woken"}
    BY <1>4 DEF AddEntry, Broadcast, Blocked
  <2> SUFFICES ASSUME BinUndisturbed(r)'
               PROVE  Progress(r)'
    BY <1>1, <2>1 DEF ReaderExact
  <2>2. Kept(r) /\ Progress(r)
    BY <1>2 DEF ReaderExact
  <2>3. /\ tab[r] \subseteq DOMAIN Entries(r) /\ recv[r] \subseteq DOMAIN Entries(r)
        /\ DOMAIN snap[r] \subseteq DOMAIN Entries(r)
    BY DEF IndInv, PointersValid
  <2>4. Follows(r)'
    BY <1>1, <2>2, <2>3 DEF Progress, Follows, Kept, obj_desc_equals_no_owner
  <2>5. \A i \in tab[r] \cup recv[r] :
          Entries(r)'[i].name = q_odsc[r].name /\ Entries(r)'[i].box = Entries(r)[i].box
    BY <2>2, <2>3 DEF Progress, Kept, obj_desc_equals_no_owner
  <2>6. recv'[r] = IF r \in Interested(d) THEN recv[r] \cup {Slot(d)} ELSE recv[r]
    BY DEF AddEntry
  <2>7. ASSUME r \in Interested(d)
        PROVE  d.name = q_odsc[r].name /\ Entries(r)'[Slot(d)] = d
    <3>1. d.name = q_odsc[r].name /\ BinOf(d.version) = BinOfReader(r)
      BY <2>7 DEF Interested, obj_desc_equals_intersect, BinOfReader
    <3>2. odsc_hash'[BinOf(d.version)] = Written(odsc_hash[BinOf(d.version)], Slot(d), d)
      BY AddEntryFacts DEF AddEntry, IndInv, TypeOK
    <3>3. odsc_hash'[BinOf(d.version)][Slot(d)] = d
      <4>1. PICK list \in Seq(Descriptor) : list = odsc_hash[BinOf(d.version)]
        BY AddEntryFacts
      <4>2. d \in Descriptor /\ Slot(d) \in 1 .. Len(list) + 1
        BY <4>1, AddEntryFacts
      <4>3. Written(list, Slot(d), d)[Slot(d)] = d
        BY <4>2, WrittenFacts
      <4> QED
        BY <3>2, <4>1, <4>3
    <3> QED
      BY <1>1, <3>1, <3>3 DEF Entries, BinOfReader
  <2>8. \A i \in tab'[r] \cup recv'[r] : Entries(r)'[i].name = q_odsc[r].name
    BY <1>1, <2>5, <2>6, <2>7
  <2>9. ASSUME NEW c \in Need(r)', c \notin Missing(r)'
        PROVE  \E i \in tab'[r] \cup recv'[r] : c \in Entries(r)'[i].box
    <3>1. c \in Need(r) /\ c \in q_odsc[r].box /\ c \in Share
      BY <1>1 DEF Need
    <3>2. CASE c \notin Missing(r)
      <4>1. PICK i \in tab[r] \cup recv[r] : c \in Entries(r)[i].box
        BY <1>4, <2>2, <3>1, <3>2 DEF Progress, Covered
      <4> QED
        BY <1>1, <2>5, <2>6, <4>1
    <3>3. CASE c \in Missing(r)
      <4>1. r \in dht_subs
        <5>1. IsFiniteSet(Missing(r)) /\ Cardinality(Missing(r)) \in Nat
          BY MissingFinite
        <5>2. Cardinality(Missing(r)) # 0
          BY <3>3, <5>1, FS_EmptySet
        <5> QED
          BY <1>4, <5>1, <5>2 DEF IndInv, CountExact
      <4>2. PICK k \in avail'[r] : c \in k.box
        BY <1>1, <2>9, <3>1 DEF Missing, Need
      <4>3. k \notin avail[r]
        BY <3>3, <4>2, MissingElement
      <4>4. d.name = q_odsc[r].name /\ d.version = q_odsc[r].version /\ k = KeyOf(d)
        BY <4>2, <4>3 DEF AddEntry
      <4>5. c \in d.box
        BY <4>2, <4>4 DEF KeyOf
      <4>6. r \in Interested(d)
        BY <3>1, <4>1, <4>4, <4>5 DEF Interested, obj_desc_equals_intersect, bbox_does_intersect
      <4> QED
        BY <2>6, <2>7, <4>5, <4>6
    <3> QED
      BY <3>2, <3>3
  <2> QED
    BY <1>1, <2>1, <2>4, <2>8, <2>9 DEF Progress, Covered
<1> QED
  BY <1>3, <1>4

(* A scan or copy without the mutex, which may see fields of different     *)
(* entries, sees the object itself where it is of the reader's variable.   *)
LEMMA ViewFollows ==
  ASSUME IndInv, NEW r \in Reader, Follows(r), NEW view \in Views(snap[r], Entries(r))
  PROVE  /\ DOMAIN view = DOMAIN snap[r]
         /\ \A i \in DOMAIN snap[r] :
              /\ view[i].name = Entries(r)[i].name
              /\ view[i].name = q_odsc[r].name =>
                   /\ obj_desc_equals_no_owner(view[i], snap[r][i])
                   /\ obj_desc_equals_no_owner(view[i], Entries(r)[i])
<1>1. /\ DOMAIN view = DOMAIN snap[r]
      /\ \A i \in DOMAIN snap[r] : view[i] \in Torn(snap[r][i], Entries(r)[i])
  BY DEF Views
<1>2. ASSUME NEW i \in DOMAIN snap[r]
      PROVE  /\ view[i].name = Entries(r)[i].name
             /\ view[i].version \in {snap[r][i].version, Entries(r)[i].version}
             /\ view[i].box \in {snap[r][i].box, Entries(r)[i].box}
  BY <1>1 DEF Torn
<1> QED
  BY <1>1, <1>2 DEF Follows, obj_desc_equals_no_owner

(* The scan without the mutex counts as the one under it does. *)
LEMMA ViewScan ==
  ASSUME IndInv, NEW r \in Reader, Follows(r), NEW view \in Views(snap[r], Entries(r))
  PROVE  /\ ElemLeft(view, r) <= 0 =>
              \A c \in Need(r) : \E i \in Matching(view, r) : c \in Entries(r)[i].box
         /\ ElemLeft(view, r) > 0 =>
              \E c \in Need(r) : \A i \in Matching(snap[r], r) : c \notin snap[r][i].box
         /\ \A i \in Matching(view, r) : Entries(r)[i].name = q_odsc[r].name
<1> USE DEF obj_desc_equals_no_owner, obj_desc_equals_intersect, bbox_does_intersect
<1>1. DOMAIN snap[r] \subseteq DOMAIN Entries(r)
  BY DEF IndInv, PointersValid
<1>2. ASSUME NEW i \in Matching(view, r)
      PROVE  /\ i \in Matching(Entries(r), r) /\ view[i].box = Entries(r)[i].box
             /\ Entries(r)[i].name = q_odsc[r].name
  BY <1>1, ViewFollows DEF Matching
<1>3. ASSUME NEW i \in Matching(snap[r], r)
      PROVE  i \in Matching(view, r) /\ view[i].box = snap[r][i].box
  <2>1. i \in DOMAIN snap[r] /\ snap[r][i].name = q_odsc[r].name
    BY DEF Matching
  <2>2. view[i].name = q_odsc[r].name
    BY <2>1, ViewFollows DEF Follows
  <2> QED
    BY <2>1, <2>2, ViewFollows DEF Matching
<1>4. DisjointMatches(view, r)
  BY <1>2, ScanExact DEF DisjointMatches
<1> DEFINE U == UNION {k.box : k \in Indexed(view, r)}
<1>5. ElemLeft(view, r) = Cardinality(Need(r) \ U)
  BY <1>4, ScanCount
<1>6. \A c : c \in U <=> \E i \in Matching(view, r) : c \in view[i].box
  <2>1. \A i : KeyOf(view[i]).box = view[i].box
    BY DEF KeyOf
  <2> QED
    BY <2>1 DEF Indexed
<1>7. IsFiniteSet(Need(r) \ U) /\ Cardinality(Need(r) \ U) \in Nat
  BY NeedFinite
<1> HIDE DEF U
<1>8. ElemLeft(view, r) <= 0 <=> Need(r) \ U = {}
  BY <1>5, <1>7, FS_EmptySet
<1>9. ElemLeft(view, r) > 0 => \E c \in Need(r) : c \notin U
  BY <1>5, <1>7, <1>8
<1> QED
  BY <1>2, <1>3, <1>6, <1>8, <1>9

(* A reader's own step. *)
LEMMA OwnStep ==
  ASSUME IndInv, NEW r \in Reader, ReaderExact(r), ReaderStep(r)
  PROVE  ReaderExact(r)'
<1>1. q_odsc' = q_odsc /\ UNCHANGED <<odsc_hash, published>> /\ recv' = recv
  BY DEF ReaderStep, FindEntryAll, Wake, PollBegin, PollEnd, CopyBegin, CopyEnd, index
<1>2. /\ Entries(r)' = Entries(r) /\ Need(r)' = Need(r)
      /\ BinUndisturbed(r)' <=> BinUndisturbed(r)
  BY <1>1 DEF Entries, BinOfReader, Need, BinUndisturbed
<1>3. /\ pc \in [Reader -> PC] /\ tab \in [Reader -> SUBSET Nat]
      /\ snap \in [Reader -> Seq(Descriptor)] /\ result \in [Reader -> SUBSET Descriptor]
      /\ avail \in [Reader -> SUBSET Key]
  BY DEF IndInv, TypeOK
<1>4. /\ tab[r] \subseteq DOMAIN Entries(r) /\ recv[r] \subseteq DOMAIN Entries(r)
      /\ DOMAIN snap[r] \subseteq DOMAIN Entries(r)
      /\ pc[r] = "copy" => tab[r] \subseteq DOMAIN snap[r]
  BY DEF IndInv, PointersValid
<1>5. CASE FindEntryAll(r)
  <2>1. /\ pc[r] = "idle" /\ pc'[r] \in {"wait", "found"}
        /\ tab'[r] = Matching(Entries(r), r)
        /\ avail'[r] = Indexed(Entries(r), r)
        /\ snap' = snap /\ result' = result
        /\ pc'[r] = "found" => ElemLeft(Entries(r), r) <= 0
    BY <1>3, <1>5 DEF FindEntryAll
  <2> SUFFICES ASSUME BinUndisturbed(r)', Progress(r)
               PROVE  Progress(r)'
    BY <1>2, <2>1 DEF ReaderExact
  <2>2. Follows(r)'
    BY <1>1, <1>2, <2>1 DEF Progress, Follows
  <2>3. \A i \in tab'[r] \cup recv'[r] : Entries(r)'[i].name = q_odsc'[r].name
    BY <1>1, <1>2, <2>1 DEF Progress, Matching, obj_desc_equals_intersect
  <2>4. \A c : (\E k \in avail'[r] : c \in k.box) => \E i \in tab'[r] : c \in Entries(r)[i].box
    BY <2>1 DEF Indexed, KeyOf
  <2>5. \A c \in Need(r)' \ Missing(r)' : \E i \in tab'[r] : c \in Entries(r)[i].box
    BY <2>4 DEF Missing
  <2>6. pc'[r] = "found" => Missing(r)' = {}
    <3> SUFFICES ASSUME pc'[r] = "found"
                 PROVE  Missing(r)' = {}
      OBVIOUS
    <3>1. Missing(r)' = Need(r) \ UNION {k.box : k \in Indexed(Entries(r), r)}
      BY <1>2, <2>1 DEF Missing
    <3>2. ElemLeft(Entries(r), r) = Cardinality(Missing(r)')
      BY <3>1, ScanExact
    <3>3. IsFiniteSet(Missing(r)') /\ Cardinality(Missing(r)') \in Nat
      BY <3>1, NeedFinite
    <3>4. ElemLeft(Entries(r), r) <= 0
      BY <2>1
    <3> QED
      BY <3>2, <3>3, <3>4, FS_EmptySet
  <2> QED
    BY <1>2, <2>1, <2>2, <2>3, <2>5, <2>6 DEF Progress, Covered, Blocked
<1>6. CASE Wake(r)
  <2>1. /\ pc[r] = "woken" /\ snap' = snap /\ result' = result /\ avail' = avail
        /\ \/ pc'[r] = "wait" /\ tab'[r] = tab[r]
           \/ remaining[r] <= 0 /\ pc'[r] = "found" /\ tab'[r] = tab[r] \cup recv[r]
    BY <1>3, <1>6 DEF Wake
  <2> SUFFICES ASSUME BinUndisturbed(r)', Progress(r)
               PROVE  Progress(r)'
    BY <1>2, <2>1 DEF ReaderExact
  <2>2. Follows(r)'
    BY <1>1, <1>2, <2>1 DEF Progress, Follows
  <2>3. \A i \in tab'[r] \cup recv'[r] : Entries(r)'[i].name = q_odsc'[r].name
    BY <1>1, <1>2, <2>1 DEF Progress
  <2>4. Missing(r)' = Missing(r)
    BY <1>1, <2>1 DEF Missing, Need
  <2>5. \A c \in Need(r) \ Missing(r) : Covered(r, c, tab[r] \cup recv[r])
    BY <2>1 DEF Progress, Blocked
  <2>6. CASE pc'[r] = "wait"
    BY <1>1, <1>2, <2>1, <2>2, <2>3, <2>4, <2>5, <2>6 DEF Progress, Covered, Blocked
  <2>7. CASE pc'[r] = "found"
    <3>1. Missing(r) = {}
      <4>1. remaining[r] = Cardinality(Missing(r)) /\ remaining[r] <= 0
        BY <2>1, <2>7 DEF IndInv, CountExact, Blocked
      <4> QED
        BY <4>1, MissingFinite, FS_EmptySet
    <3> QED
      BY <1>1, <1>2, <2>1, <2>2, <2>3, <2>5, <2>7, <3>1 DEF Progress, Covered, Blocked
  <2> QED
    BY <2>1, <2>6, <2>7
<1>7. CASE PollBegin(r)
  <2>1. /\ pc[r] = "idle" /\ pc'[r] = "scan" /\ q_odsc[r].timeout = Poll
        /\ snap'[r] = Entries(r) /\ avail'[r] = Indexed(Entries(r), r)
        /\ tab' = tab /\ result' = result
    BY <1>3, <1>7 DEF PollBegin, BeginRead
  <2> SUFFICES ASSUME BinUndisturbed(r)', Progress(r)
               PROVE  Progress(r)'
    BY <1>1, <1>2, <2>1 DEF ReaderExact
  <2>2. Follows(r)'
    BY <1>2, <2>1 DEF Follows, obj_desc_equals_no_owner
  <2>3. Matching(snap[r], r)' = Matching(Entries(r), r)
    BY <1>1, <2>1 DEF Matching, obj_desc_equals_intersect, bbox_does_intersect
  <2>4. \A k \in avail'[r] : \E i \in Matching(snap[r], r)' : k.box = snap'[r][i].box
    BY <2>1, <2>3 DEF Indexed, KeyOf
  <2> QED
    BY <1>1, <1>2, <2>1, <2>2, <2>4 DEF Progress, Blocked
<1>8. CASE PollEnd(r)
  <2>1. PICK view \in Views(snap[r], Entries(r)) :
          \/ /\ ElemLeft(view, r) > 0
             /\ tab' = [tab EXCEPT ![r] = {}] /\ pc' = [pc EXCEPT ![r] = "done"]
          \/ /\ ElemLeft(view, r) <= 0
             /\ tab' = [tab EXCEPT ![r] = Matching(view, r)] /\ pc' = [pc EXCEPT ![r] = "found"]
    BY <1>8 DEF PollEnd
  <2>2. pc[r] = "scan" /\ snap'[r] = <<>> /\ result' = result /\ avail' = avail
    BY <1>3, <1>8 DEF PollEnd
  <2>3. q_odsc[r].timeout = Poll /\ result[r] = {}
    BY <2>2 DEF ReaderExact
  <2> SUFFICES ASSUME BinUndisturbed(r)', Progress(r)
               PROVE  Progress(r)'
    BY <1>1, <1>2, <1>3, <2>1, <2>2, <2>3 DEF ReaderExact
  <2>4. Follows(r)'
    BY <2>2 DEF Follows
  <2>5. Follows(r)
    BY DEF Progress
  <2>6. CASE ElemLeft(view, r) > 0 /\ tab'[r] = {} /\ pc'[r] = "done"
    <3>1. PICK c \in Need(r) : \A i \in Matching(snap[r], r) : c \notin snap[r][i].box
      BY <2>5, <2>6, ViewScan
    <3>2. \A k \in avail[r] : c \notin k.box
      BY <2>2, <3>1 DEF Progress
    <3>3. Missing(r)' # {}
      BY <1>2, <2>2, <3>2 DEF Missing
    <3>4. ReturnsExact(r)'
      BY <1>1, <2>2, <2>3, <3>3 DEF ReturnsExact
    <3> QED
      BY <1>1, <1>2, <2>4, <2>6, <3>4 DEF Progress, Blocked
  <2>7. CASE ElemLeft(view, r) <= 0 /\ tab'[r] = Matching(view, r) /\ pc'[r] = "found"
    <3>1. /\ \A c \in Need(r) : \E i \in tab'[r] : c \in Entries(r)[i].box
          /\ \A i \in tab'[r] : Entries(r)[i].name = q_odsc[r].name
      BY <2>5, <2>7, ViewScan
    <3> QED
      BY <1>1, <1>2, <2>4, <2>7, <3>1 DEF Progress, Blocked, Covered
  <2> QED
    BY <1>3, <2>1, <2>6, <2>7
<1>9. CASE CopyBegin(r)
  <2>1. /\ pc[r] = "found" /\ pc'[r] = "copy" /\ snap'[r] = Entries(r)
        /\ tab' = tab /\ result' = result
    BY <1>3, <1>9 DEF CopyBegin, BeginRead
  <2> SUFFICES ASSUME BinUndisturbed(r)', Progress(r)
               PROVE  Progress(r)'
    BY <1>1, <1>2, <2>1 DEF ReaderExact
  <2>2. Follows(r)'
    BY <1>2, <2>1 DEF Follows, obj_desc_equals_no_owner
  <2> QED
    BY <1>1, <1>2, <2>1, <2>2 DEF Progress, Blocked, Covered
<1>10. CASE CopyEnd(r)
  <2>1. PICK view \in Views(snap[r], Entries(r)) :
          result' = [result EXCEPT ![r] =
                       {[view[i] EXCEPT !.box = @ \cap q_odsc[r].box] : i \in tab[r]}]
    BY <1>10 DEF CopyEnd
  <2>2. /\ pc[r] = "copy" /\ pc'[r] = "done" /\ snap'[r] = <<>> /\ tab' = tab
    BY <1>3, <1>10 DEF CopyEnd
  <2> SUFFICES ASSUME BinUndisturbed(r)', Progress(r)
               PROVE  Progress(r)'
    BY <1>1, <1>2, <2>2 DEF ReaderExact
  <2>3. Follows(r)'
    BY <2>2 DEF Follows
  <2>4. Follows(r)
    BY DEF Progress
  <2>5. ASSUME NEW i \in tab[r]
        PROVE  /\ view[i] \in Descriptor
               /\ view[i].name = q_odsc[r].name /\ view[i].version = q_odsc[r].version
               /\ view[i].box = Entries(r)[i].box
    <3>1. i \in DOMAIN snap[r] /\ i \in DOMAIN Entries(r) /\ Entries(r)[i].name = q_odsc[r].name
      BY <1>4, <2>2 DEF Progress
    <3>2. view[i] \in Descriptor
      BY <3>1, ViewsTyped
    <3>3. /\ view[i].name = q_odsc[r].name
          /\ view[i].version = Entries(r)[i].version /\ view[i].box = Entries(r)[i].box
      BY <2>4, <3>1, ViewFollows DEF obj_desc_equals_no_owner
    <3>4. /\ KeyOf(Entries(r)[i]) \in published
          /\ BinOf(Entries(r)[i].version) = BinOfReader(r)
      BY <3>1, ReaderBin DEF IndInv, EntriesPublished, Entries
    <3>5. Entries(r)[i].version = q_odsc[r].version
      BY <1>2, <3>1, <3>4 DEF BinUndisturbed, KeyOf
    <3> QED
      BY <3>2, <3>3, <3>5
  <2>6. PICK res : res = {[view[i] EXCEPT !.box = @ \cap q_odsc[r].box] : i \in tab[r]}
    OBVIOUS
  <2>7. result'[r] = res
    BY <1>3, <2>1, <2>6
  <2>8. ASSUME NEW i \in tab[r], NEW e, e = [view[i] EXCEPT !.box = @ \cap q_odsc[r].box]
        PROVE  /\ e \in res
               /\ e.name = q_odsc[r].name /\ e.version = q_odsc[r].version
               /\ e.box = Entries(r)[i].box \cap q_odsc[r].box
    <3>1. e \in res
      BY <2>6, <2>8
    <3> QED
      BY <2>5, <2>8, <3>1 DEF Descriptor
  <2>9. \A e \in res : e.name = q_odsc[r].name /\ e.version = q_odsc[r].version
    BY <2>6, <2>8
  <2>10. ASSUME NEW c \in Need(r)
         PROVE  \E e \in res : c \in e.box
    <3>1. PICK i \in tab[r] : c \in Entries(r)[i].box
      BY <2>2 DEF Progress, Covered
    <3>2. c \in q_odsc[r].box
      BY DEF Need
    <3>3. PICK e : e = [view[i] EXCEPT !.box = @ \cap q_odsc[r].box]
      OBVIOUS
    <3> QED
      BY <2>8, <3>1, <3>2, <3>3
  <2>11. ReturnsExact(r)'
    BY <1>1, <1>2, <2>7, <2>9, <2>10 DEF ReturnsExact
  <2> QED
    BY <1>1, <1>2, <2>2, <2>3, <2>11 DEF Progress, Blocked
<1> QED
  BY <1>5, <1>6, <1>7, <1>8, <1>9, <1>10 DEF ReaderStep

(* A step of another reader. *)
LEMMA OtherStep ==
  ASSUME IndInv, NEW r \in Reader, NEW o \in Reader, o # r, ReaderExact(o), ReaderStep(r)
  PROVE  ReaderExact(o)'
<1>1. q_odsc' = q_odsc /\ UNCHANGED <<odsc_hash, published>> /\ recv' = recv
  BY DEF ReaderStep, FindEntryAll, Wake, PollBegin, PollEnd, CopyBegin, CopyEnd, index
<1>2. /\ pc'[o] = pc[o] /\ tab'[o] = tab[o] /\ snap'[o] = snap[o]
      /\ result'[o] = result[o] /\ avail'[o] = avail[o]
  BY DEF IndInv, TypeOK, ReaderStep, FindEntryAll, Wake, PollBegin, PollEnd, CopyBegin,
         CopyEnd, BeginRead
<1>3. Entries(o)' = Entries(o) /\ (BinUndisturbed(o)' <=> BinUndisturbed(o))
  BY <1>1 DEF Entries, BinOfReader, BinUndisturbed
<1>4. Kept(o)
  BY <1>3 DEF Kept, obj_desc_equals_no_owner
<1> QED
  BY <1>1, <1>2, <1>3, <1>4, UntouchedReader

(* A query with timeout -1 returns descriptors of the version asked for    *)
(* that contain every element asked for, although they are copied after    *)
(* the mutex is released, unless another version of the variable shares    *)
(* the bin; with timeout 0 it does so or returns nothing, and nothing only *)
(* if an element was missing (dht_find_entry_all, get_query_odscs).        *)
THEOREM ResultsAreExact == Spec => []ResultExact
<1>1. Init => ReadersExact
  <2> SUFFICES ASSUME Init, NEW r \in Reader
               PROVE  ReaderExact(r)
    BY DEF ReadersExact
  <2>1. /\ pc[r] = "idle" /\ tab[r] = {} /\ recv[r] = {} /\ snap[r] = <<>> /\ result[r] = {}
    BY DEF Init
  <2> QED
    BY <2>1 DEF ReaderExact, Progress, Follows, Blocked
<1>2. IndInv /\ ReadersExact /\ [Next]_vars => ReadersExact'
  <2> SUFFICES ASSUME IndInv, ReadersExact, [Next]_vars, NEW o \in Reader
               PROVE  ReaderExact(o)'
    BY DEF ReadersExact
  <2>0. ReaderExact(o)
    BY DEF ReadersExact
  <2>1. ASSUME NEW d \in Put, AddEntry(d)
        PROVE  ReaderExact(o)'
    BY <2>0, <2>1, AddEntryProgress
  <2>2. ASSUME NEW d \in Put, UpdateOwner(d)
        PROVE  ReaderExact(o)'
    <3>1. UNCHANGED <<q_odsc, pc, recv, tab, snap, result, published, avail>>
      BY <2>2 DEF UpdateOwner, local
    <3>2. Kept(o)
      BY <2>2, UpdateOwnerKeeps
    <3>3. BinUndisturbed(o)' <=> BinUndisturbed(o)
      BY <3>1 DEF BinUndisturbed, BinOfReader
    <3> QED
      BY <2>0, <3>1, <3>2, <3>3, UntouchedReader
  <2>3. ASSUME NEW r \in Reader, ReaderStep(r)
        PROVE  ReaderExact(o)'
    BY <2>0, <2>3, OwnStep, OtherStep
  <2>4. CASE UNCHANGED vars
    <3>1. Entries(o)' = Entries(o) /\ (BinUndisturbed(o)' <=> BinUndisturbed(o))
      BY <2>4 DEF vars, Entries, BinOfReader, BinUndisturbed
    <3>2. Kept(o)
      BY <3>1 DEF Kept, obj_desc_equals_no_owner
    <3> QED
      BY <2>0, <2>4, <3>1, <3>2, UntouchedReader DEF vars
  <2> QED
    BY <2>1, <2>2, <2>3, <2>4 DEF Next
<1>3. ReadersExact => ResultExact
  BY DEF ReadersExact, ReaderExact, Progress, ReturnsExact, ResultExact
<1> QED
  BY <1>1, <1>2, <1>3, IndInvariant, PTL DEF Spec
=============================================================================
