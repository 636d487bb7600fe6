--------------------------- MODULE StagingProofs ---------------------------
(***************************************************************************)
(* Proofs about Staging: the index names only owners that have the object, *)
(* and a get that waits returns all it asked for, for every domain, every  *)
(* distribution of it over the servers, any number of version bins and of  *)
(* concurrent puts and gets, and any order of the index updates.           *)
(***************************************************************************)
EXTENDS Staging, FunctionTheorems, FiniteSetTheorems, SequenceTheorems,
        WellFoundedInduction, TLAPS

(* What a query has collected, by server. *)
Collected == UNION {[S -> [tab : SUBSET Nat, left : SUBSET Cell]] : S \in SUBSET Server}

Types ==
  /\ obj_hash \in [Server -> [Bin -> Seq(Descriptor)]]
  /\ odsc_hash \in [Server -> [Bin -> Seq(Descriptor)]]
  /\ updating \subseteq [odsc : Descriptor, todo : SUBSET Server]
  /\ net \subseteq [odsc : Descriptor, to : Server]
  /\ pc \in [Reader -> {"idle", "query", "fetch", "done", "crashed"}]
  /\ q_odsc \in [Reader -> Query]
  /\ found \in [Reader -> Collected]
  /\ answered \in [Reader -> SUBSET Server]
  /\ odscs \in [Reader -> SUBSET Descriptor]
  /\ data \in [Reader -> SUBSET Descriptor]
  /\ down \subseteq Server
  /\ puts \subseteq Descriptor

(* No descriptor is made up: what is stored, indexed or on its way has     *)
(* been put, and is in the bin of its version.                             *)
NothingMadeUp ==
  /\ \A s \in Server, n \in Bin :
       /\ Range(obj_hash[s][n]) \subseteq puts
       /\ Range(odsc_hash[s][n]) \subseteq puts
       /\ \A d \in Range(odsc_hash[s][n]) : BinOf(d.version) = n
  /\ \A u \in updating : u.odsc \in puts
  /\ \A m \in net : m.odsc \in puts

(* Two objects of one version have no element in common. *)
PutOnce ==
  \A d, e \in puts : obj_desc_equals_intersect(d, e) => d = e

(* ls_add_obj evicts an object only for a newer version of it. *)
StillStored ==
  \A d \in puts : d \in Range(obj_hash[d.owner][BinOf(d.version)]) \/ Displaced(d)

(* The pointers of a query are to entries of its variable; and, unless its *)
(* data shares the bin with another version, to entries that answer it and *)
(* that have all the elements but those it waits for.                      *)
Points(r, s) ==
  LET q == q_odsc[r]
      list == odsc_hash[s][BinOf(q.version)]
      tab == found[r][s].tab
  IN
  /\ \A i \in tab : i \in DOMAIN list /\ list[i].name = q.name
  /\ ~ Overwritten(q) =>
       /\ \A i \in tab : obj_desc_equals_intersect(list[i], q)
       /\ \A c \in q.box \cap Share[s] :
            c \in found[r][s].left \/ \E i \in tab : c \in list[i].box

PointersSound == \A r \in Reader : \A s \in DOMAIN found[r] : Points(r, s)

(* A descriptor that a reader has to fetch is the part of an object of the *)
(* bin, and of one that it asked for unless that may be overwritten.       *)
Wanted(d, q) ==
  \E p \in puts : /\ d = Clip(p, q)
                  /\ p.name = q.name
                  /\ BinOf(p.version) = BinOf(q.version)
                  /\ ~ Overwritten(q) => obj_desc_equals_intersect(p, q)

(* What was fetched and what is yet to be fetched make up the query, at    *)
(* first the part of it that the servers which have answered index.        *)
Fetches(r) ==
  LET q == q_odsc[r] IN
  /\ \A d \in odscs[r] : Wanted(d, q)
  /\ \A d \in data[r] : /\ d.name = q.name
                        /\ BinOf(d.version) = BinOf(q.version)
                        /\ d.box \subseteq q.box
                        /\ ~ Overwritten(q) => d.version = q.version
  /\ pc[r] \in {"idle", "query"} /\ ~ Overwritten(q) =>
       \A s \in answered[r] : \A c \in q.box \cap Share[s] :
         \E d \in odscs[r] \cup data[r] : c \in d.box
  /\ pc[r] \in {"fetch", "done"} /\ ~ Overwritten(q) =>
       \A c \in q.box : \E d \in odscs[r] \cup data[r] : c \in d.box
  /\ pc[r] = "done" => odscs[r] = {}
  /\ pc[r] = "crashed" => Overwritten(q)

FetchSound == \A r \in Reader : Fetches(r)

(* A server went down on a request that is still unanswered. *)
DownFor ==
  \A s \in down : \E r \in Reader : Overwritten(q_odsc[r]) /\ \E d \in odscs[r] : d.owner = s

IndInv ==
  /\ Types /\ NothingMadeUp /\ PutOnce /\ StillStored
  /\ PointersSound /\ FetchSound /\ DownFor

-----------------------------------------------------------------------------
(* The lists. *)

(* A walk of a list stops at an element that satisfies the condition it    *)
(* looks for, if there is one.                                             *)
LEMMA FirstOfIn ==
  ASSUME NEW n \in Nat, NEW M, M \subseteq 1 .. n, M # {}
  PROVE  FirstOf(M) \in M
<1> DEFINE T == {k \in Nat : n - k \in M}
<1>1. T \subseteq Nat /\ T # {}
  <2>1. PICK i \in M : TRUE
    OBVIOUS
  <2>2. i \in 1 .. n
    BY <2>1
  <2>3. n - i \in Nat /\ n - (n - i) = i
    BY <2>2
  <2>4. n - i \in T
    BY <2>1, <2>3
  <2> QED
    BY <2>4
<1>2. PICK x \in T : \A y \in T : ~ (<<y, x>> \in OpToRel(<, Nat))
  BY <1>1, NatLessThanWellFounded, WFMin
<1>3. \A y \in T : ~ (y < x)
  BY <1>2 DEF OpToRel
<1>4. n - x \in M
  OBVIOUS
<1>5. \A j \in M : j <= n - x
  <2> TAKE j \in M
  <2>1. j \in 1 .. n
    OBVIOUS
  <2>2. n - j \in Nat /\ n - (n - j) = j
    BY <2>1
  <2>3. n - j \in T
    BY <2>2
  <2>4. ~ (n - j < x)
    BY <1>3, <2>3
  <2> QED
    BY <2>1, <2>4
<1> QED
  BY <1>4, <1>5 DEF FirstOf

(* Every version has a bin. *)
LEMMA BinRange ==
  ASSUME NEW v \in Version
  PROVE  BinOf(v) \in Bin
<1>1. v \in Nat /\ max_versions \in Nat /\ max_versions > 0
  BY ObjectsAssumption
<1> QED
  BY <1>1 DEF BinOf, Bin

(* A new head of a list. *)
LEMMA AppendRange ==
  ASSUME NEW S, NEW q \in Seq(S), NEW e \in S
  PROVE  Append(q, e) \in Seq(S) /\ Range(Append(q, e)) = Range(q) \cup {e}
<1>1. /\ Append(q, e) \in Seq(S) /\ Len(Append(q, e)) = Len(q) + 1
      /\ \A i \in 1 .. Len(q) : Append(q, e)[i] = q[i]
      /\ Append(q, e)[Len(q) + 1] = e
  BY AppendProperties
<1>2. DOMAIN q = 1 .. Len(q) /\ DOMAIN Append(q, e) = 1 .. Len(q) + 1 /\ Len(q) \in Nat
  BY <1>1
<1>3. \A i : i \in 1 .. Len(q) + 1 <=> i \in 1 .. Len(q) \/ i = Len(q) + 1
  BY <1>2
<1>4. Range(q) = {q[i] : i \in 1 .. Len(q)}
  BY <1>2 DEF Range
<1>5. Range(Append(q, e)) = {Append(q, e)[i] : i \in 1 .. Len(q) + 1}
  BY <1>2 DEF Range
<1> QED
  BY <1>1, <1>3, <1>4, <1>5

(* What is left of a list without one of its elements. *)
LEMMA RemoveAtRange ==
  ASSUME NEW S, NEW q \in Seq(S), NEW i \in DOMAIN q
  PROVE  /\ RemoveAt(q, i) \in Seq(S)
         /\ Range(RemoveAt(q, i)) \subseteq Range(q)
         /\ \A j \in DOMAIN q : j # i => q[j] \in Range(RemoveAt(q, i))
<1> DEFINE n == Len(q)
           a == SubSeq(q, 1, i - 1)
           b == SubSeq(q, i + 1, n)
           z == a \o b
<1>1. n \in Nat /\ DOMAIN q = 1 .. n /\ i \in 1 .. n /\ \A k \in 1 .. n : q[k] \in S
  OBVIOUS
<1>2. /\ a \in Seq(S) /\ Len(a) = i - 1
      /\ \A k \in 1 .. i - 1 : a[k] = q[k]
  <2>1. 1 \in Int /\ i - 1 \in Int /\ \A k \in 1 .. i - 1 : q[k] \in S
    BY <1>1
  <2>2. /\ a \in Seq(S) /\ Len(a) = IF 1 <= i - 1 THEN (i - 1) - 1 + 1 ELSE 0
        /\ \A k \in 1 .. (i - 1) - 1 + 1 : a[k] = q[1 + k - 1]
    BY <2>1, SubSeqProperties
  <2> HIDE DEF a
  <2>3. (i - 1) - 1 + 1 = i - 1 /\ \A k \in 1 .. i - 1 : 1 + k - 1 = k
    BY <1>1
  <2> QED
    BY <1>1, <2>2, <2>3
<1>3. /\ b \in Seq(S) /\ Len(b) = n - i
      /\ \A k \in 1 .. n - i : b[k] = q[i + k]
  <2>1. i + 1 \in Int /\ n \in Int /\ \A k \in i + 1 .. n : q[k] \in S
    BY <1>1
  <2>2. /\ b \in Seq(S) /\ Len(b) = IF i + 1 <= n THEN n - (i + 1) + 1 ELSE 0
        /\ \A k \in 1 .. n - (i + 1) + 1 : b[k] = q[(i + 1) + k - 1]
    BY <2>1, SubSeqProperties
  <2> HIDE DEF b
  <2>3. n - (i + 1) + 1 = n - i /\ \A k \in 1 .. n - i : (i + 1) + k - 1 = i + k
    BY <1>1
  <2> QED
    BY <1>1, <2>2, <2>3
<1>4. /\ z \in Seq(S) /\ Len(z) = Len(a) + Len(b)
      /\ \A k \in 1 .. Len(a) + Len(b) : z[k] = IF k <= Len(a) THEN a[k] ELSE b[k - Len(a)]
  <2> HIDE DEF a, b
  <2> QED
    BY <1>2, <1>3, ConcatProperties
<1>5. z = RemoveAt(q, i)
  BY DEF RemoveAt
<1> HIDE DEF n, a, b, z
<1>6. /\ Len(z) = n - 1
      /\ \A k \in 1 .. n - 1 : z[k] = IF k <= i - 1 THEN a[k] ELSE b[k - (i - 1)]
  BY <1>1, <1>2, <1>3, <1>4
<1>7. \A k \in 1 .. n - 1 : z[k] = IF k <= i - 1 THEN q[k] ELSE q[k + 1]
  <2> TAKE k \in 1 .. n - 1
  <2>1. CASE k <= i - 1
    BY <1>1, <1>2, <1>6, <2>1
  <2>2. CASE ~ (k <= i - 1)
    <3>1. k - (i - 1) \in 1 .. n - i /\ i + (k - (i - 1)) = k + 1
      BY <1>1, <2>2
    <3>2. b[k - (i - 1)] = q[k + 1]
      BY <1>3, <3>1
    <3> QED
      BY <1>6, <2>2, <3>2
  <2> QED
    BY <2>1, <2>2
<1>8. DOMAIN z = 1 .. n - 1
  BY <1>1, <1>4, <1>6
<1>9. \A k \in 1 .. n - 1 : z[k] \in Range(q)
  <2> TAKE k \in 1 .. n - 1
  <2>1. k \in 1 .. n /\ k + 1 \in 1 .. n
    BY <1>1
  <2> QED
    BY <1>1, <1>7, <2>1 DEF Range
<1>10. ASSUME NEW j \in 1 .. n, j # i
       PROVE  q[j] \in Range(z)
  <2>1. CASE j <= i - 1
    <3>1. j \in 1 .. n - 1
      BY <1>1, <2>1
    <3> QED
      BY <1>7, <1>8, <2>1, <3>1 DEF Range
  <2>2. CASE ~ (j <= i - 1)
    <3>1. j - 1 \in 1 .. n - 1 /\ ~ (j - 1 <= i - 1) /\ (j - 1) + 1 = j
      BY <1>1, <1>10, <2>2
    <3>2. z[j - 1] = q[j]
      BY <1>7, <3>1
    <3> QED
      BY <1>8, <3>1, <3>2 DEF Range
  <2> QED
    BY <2>1, <2>2
<1> QED
  BY <1>1, <1>4, <1>5, <1>8, <1>9, <1>10 DEF Range

(* ls_add_obj stores the object, and evicts nothing that it does not       *)
(* overlap.                                                                *)
LEMMA LsAddObj ==
  ASSUME NEW list \in Seq(Descriptor), NEW d \in Descriptor
  PROVE  /\ ls_add_obj(list, d) \in Seq(Descriptor)
         /\ d \in Range(ls_add_obj(list, d))
         /\ Range(ls_add_obj(list, d)) \subseteq Range(list) \cup {d}
         /\ \A e \in Range(list) :
              e \in Range(ls_add_obj(list, d)) \/ obj_desc_by_name_intersect(d, e)
<1>1. CASE Overlapping(list, d) = {}
  BY <1>1, AppendRange DEF ls_add_obj
<1>2. CASE Overlapping(list, d) # {}
  <2> DEFINE i == FirstOf(Overlapping(list, d))
             rest == RemoveAt(list, i)
  <2>1. Len(list) \in Nat /\ DOMAIN list = 1 .. Len(list)
    OBVIOUS
  <2>2. Overlapping(list, d) \subseteq 1 .. Len(list)
    BY <2>1 DEF Overlapping
  <2>3. i \in Overlapping(list, d)
    BY <1>2, <2>1, <2>2, FirstOfIn
  <2>4. i \in DOMAIN list /\ obj_desc_by_name_intersect(d, list[i])
    BY <2>3 DEF Overlapping
  <2>5. ls_add_obj(list, d) = Append(rest, d)
    BY <1>2 DEF ls_add_obj
  <2> HIDE DEF i
  <2>6. /\ rest \in Seq(Descriptor) /\ Range(rest) \subseteq Range(list)
        /\ \A j \in DOMAIN list : j # i => list[j] \in Range(rest)
    BY <2>4, RemoveAtRange
  <2> HIDE DEF rest
  <2>7. Append(rest, d) \in Seq(Descriptor) /\ Range(Append(rest, d)) = Range(rest) \cup {d}
    BY <2>6, AppendRange
  <2>8. \A e \in Range(list) : e \in Range(rest) \/ e = list[i]
    BY <2>6 DEF Range
  <2> QED
    BY <2>4, <2>5, <2>6, <2>7, <2>8
<1> QED
  BY <1>1, <1>2

(* dht_add_entry writes the descriptor to one entry, which it overlapped   *)
(* if it was there, and leaves the others as they are.                     *)
LEMMA DhtAddEntry ==
  ASSUME NEW list \in Seq(Descriptor), NEW d \in Descriptor
  PROVE  /\ dht_add_entry(list, d) \in Seq(Descriptor)
         /\ dht_find_match(list, d) \in DOMAIN dht_add_entry(list, d)
         /\ dht_add_entry(list, d)[dht_find_match(list, d)] = d
         /\ DOMAIN list \subseteq DOMAIN dht_add_entry(list, d)
         /\ dht_find_match(list, d) \in DOMAIN list =>
              obj_desc_by_name_intersect(d, list[dht_find_match(list, d)])
         /\ \A i \in DOMAIN list : i # dht_find_match(list, d) =>
                                     dht_add_entry(list, d)[i] = list[i]
         /\ Range(dht_add_entry(list, d)) \subseteq Range(list) \cup {d}
<1>1. Len(list) \in Nat /\ DOMAIN list = 1 .. Len(list)
  OBVIOUS
<1>2. CASE Overlapping(list, d) = {}
  <2>1. dht_add_entry(list, d) = Append(list, d) /\ dht_find_match(list, d) = Len(list) + 1
    BY <1>2 DEF dht_add_entry, dht_find_match
  <2>2. /\ Append(list, d) \in Seq(Descriptor) /\ Len(Append(list, d)) = Len(list) + 1
        /\ \A i \in 1 .. Len(list) : Append(list, d)[i] = list[i]
        /\ Append(list, d)[Len(list) + 1] = d
    BY AppendProperties
  <2>3. DOMAIN Append(list, d) = 1 .. Len(list) + 1
    BY <2>2
  <2>4. Len(list) + 1 \notin 1 .. Len(list) /\ 1 .. Len(list) \subseteq 1 .. Len(list) + 1
        /\ Len(list) + 1 \in 1 .. Len(list) + 1
    BY <1>1
  <2> QED
    BY <1>1, <2>1, <2>2, <2>3, <2>4, AppendRange
<1>3. CASE Overlapping(list, d) # {}
  <2> DEFINE k == FirstOf(Overlapping(list, d))
  <2>1. dht_add_entry(list, d) = [list EXCEPT ![k] = d] /\ dht_find_match(list, d) = k
    BY <1>3 DEF dht_add_entry, dht_find_match
  <2>2. Overlapping(list, d) \subseteq 1 .. Len(list)
    BY <1>1 DEF Overlapping
  <2>3. k \in Overlapping(list, d)
    BY <1>1, <1>3, <2>2, FirstOfIn
  <2>4. k \in DOMAIN list /\ obj_desc_by_name_intersect(d, list[k])
    BY <2>3 DEF Overlapping
  <2> HIDE DEF k
  <2>5. [list EXCEPT ![k] = d] \in Seq(Descriptor)
    BY <1>1, <2>4, ExceptSeq
  <2>6. Range([list EXCEPT ![k] = d]) \subseteq Range(list) \cup {d}
    BY <2>4 DEF Range
  <2> QED
    BY <2>1, <2>4, <2>5, <2>6
<1> QED
  BY <1>2, <1>3

-----------------------------------------------------------------------------
(* What was put, what displaced it and what may be overwritten. *)

(* What was displaced or may be overwritten stays so. *)
LEMMA DisplacedStays ==
  ASSUME puts \subseteq puts'
  PROVE  /\ \A d : Displaced(d) => Displaced(d)'
         /\ \A q : Overwritten(q) => Overwritten(q)'
BY DEF Displaced, Overwritten

(* Both depend on the puts alone. *)
LEMMA DisplacedSame ==
  ASSUME UNCHANGED puts
  PROVE  /\ \A d : Displaced(d)' <=> Displaced(d)
         /\ \A q : Overwritten(q)' <=> Overwritten(q)
         /\ \A d, q : Wanted(d, q)' <=> Wanted(d, q)
BY DEF Displaced, Overwritten, Wanted

(* Every object that was put is a descriptor with a bin at its owner. *)
LEMMA PutTyped ==
  ASSUME Types
  PROVE  \A d \in puts : /\ d \in Descriptor /\ d.owner \in Server
                         /\ d.version \in Version /\ BinOf(d.version) \in Bin
BY BinRange DEF Types, Descriptor, Server

(* The bin of a query. *)
LEMMA QueryTyped ==
  ASSUME Types, NEW r \in Reader
  PROVE  /\ q_odsc[r] \in Query /\ BinOf(q_odsc[r].version) \in Bin
         /\ q_odsc[r].box \subseteq Cell
BY BinRange, ObjectsAssumption DEF Types, Query

(* A step that changes neither what was put nor what is stored. *)
LEMMA StoresRest ==
  ASSUME IndInv, UNCHANGED <<obj_hash, puts>>
  PROVE  PutOnce' /\ StillStored'
BY DisplacedSame DEF IndInv, PutOnce, StillStored

(* put_rpc stores the object; what it evicts is an older version. *)
LEMMA PutRpcInv ==
  ASSUME IndInv, NEW d \in Put, PutRpc(d)
  PROVE  IndInv'
<1> USE DEF IndInv
<1> DEFINE n == BinOf(d.version)
<1>1. /\ MayPut(d) /\ puts' = puts \cup {d}
      /\ obj_hash' = [obj_hash EXCEPT ![d.owner][n] = ls_add_obj(@, d)]
      /\ updating' = updating \cup {[odsc |-> d, todo |-> ssd_hash(d.box)]}
      /\ UNCHANGED <<odsc_hash, net, pc, q_odsc, found, answered, odscs, data, down>>
  BY DEF PutRpc, readers
<1>2. /\ d \in Descriptor /\ d.owner \in Server /\ d.version \in Version
  BY ObjectsAssumption DEF Put, Descriptor, Server
<1>3. n \in Bin
  BY <1>2, BinRange
<1>5. obj_hash[d.owner] \in [Bin -> Seq(Descriptor)] /\ obj_hash[d.owner][n] \in Seq(Descriptor)
  BY <1>2, <1>3 DEF Types
<1> DEFINE list == ls_add_obj(obj_hash[d.owner][n], d)
<1>6. /\ list \in Seq(Descriptor) /\ d \in Range(list)
      /\ Range(list) \subseteq Range(obj_hash[d.owner][n]) \cup {d}
      /\ \A e \in Range(obj_hash[d.owner][n]) :
           e \in Range(list) \/ obj_desc_by_name_intersect(d, e)
  BY <1>2, <1>5, LsAddObj
<1>7. obj_hash' = [obj_hash EXCEPT ![d.owner] = [@ EXCEPT ![n] = list]]
  BY <1>1
<1> HIDE DEF n, list
<1>8. /\ obj_hash' \in [Server -> [Bin -> Seq(Descriptor)]]
      /\ obj_hash'[d.owner][n] = list
      /\ \A s \in Server, k \in Bin : ~ (s = d.owner /\ k = n) =>
                                        obj_hash'[s][k] = obj_hash[s][k]
  BY <1>2, <1>3, <1>5, <1>6, <1>7 DEF Types
<1>9. Types'
  <2>1. updating' \subseteq [odsc : Descriptor, todo : SUBSET Server]
    BY <1>1, <1>2 DEF Types, ssd_hash
  <2> QED
    BY <1>1, <1>2, <1>8, <2>1 DEF Types
<1>10. NothingMadeUp'
  <2>1. \A s \in Server, k \in Bin : Range(obj_hash'[s][k]) \subseteq puts'
    <3> TAKE s \in Server, k \in Bin
    <3>1. CASE s = d.owner /\ k = n
      BY <1>1, <1>6, <1>8, <3>1 DEF NothingMadeUp
    <3>2. CASE ~ (s = d.owner /\ k = n)
      BY <1>1, <1>8, <3>2 DEF NothingMadeUp
    <3> QED
      BY <3>1, <3>2
  <2>2. \A u \in updating' : u.odsc \in puts'
    BY <1>1 DEF NothingMadeUp
  <2> QED
    BY <1>1, <2>1, <2>2 DEF NothingMadeUp
<1>11. \A e \in puts : ~ obj_desc_equals_intersect(d, e) /\ e.version <= d.version
  BY <1>1 DEF MayPut
<1>12. PutOnce'
  BY <1>1, <1>11 DEF PutOnce, obj_desc_equals_intersect, bbox_does_intersect
<1>13. /\ \A e : Displaced(e) => Displaced(e)'
       /\ \A q : Overwritten(q) => Overwritten(q)'
  BY <1>1, DisplacedStays
<1>14. StillStored'
  <2>1. ASSUME NEW e \in puts, e \in Range(obj_hash[e.owner][BinOf(e.version)])
        PROVE  e \in Range(obj_hash'[e.owner][BinOf(e.version)]) \/ Displaced(e)'
    <3>1. CASE e.owner = d.owner /\ BinOf(e.version) = n
      <4>1. e \in Range(list) \/ obj_desc_by_name_intersect(d, e)
        BY <1>6, <2>1, <3>1
      <4>2. ASSUME obj_desc_by_name_intersect(d, e)
            PROVE  Displaced(e)'
        <5>1. d.version > e.version
          <6>1. d.version # e.version
            BY <1>11, <4>2 DEF obj_desc_by_name_intersect, obj_desc_equals_intersect
          <6>2. e.version \in Nat /\ d.version \in Nat
            BY <1>2, PutTyped, ObjectsAssumption
          <6> QED
            BY <1>11, <6>1, <6>2
        <5> QED
          BY <1>1, <3>1, <4>2, <5>1 DEF Displaced, n
      <4> QED
        BY <1>8, <3>1, <4>1, <4>2
    <3>2. CASE ~ (e.owner = d.owner /\ BinOf(e.version) = n)
      BY <1>8, <2>1, <3>2, PutTyped
    <3> QED
      BY <3>1, <3>2
  <2>2. d \in Range(obj_hash'[d.owner][BinOf(d.version)])
    BY <1>6, <1>8 DEF n
  <2> QED
    BY <1>1, <1>13, <2>1, <2>2 DEF StillStored
<1>15. PointersSound'
  <2> SUFFICES ASSUME NEW r \in Reader, NEW s \in DOMAIN found[r]
               PROVE  Points(r, s)'
    BY <1>1 DEF PointersSound
  <2>1. Points(r, s)
    BY DEF PointersSound
  <2>2. Overwritten(q_odsc[r]) => Overwritten(q_odsc[r])'
    BY <1>1, <1>13
  <2> QED
    BY <1>1, <2>1, <2>2 DEF Points
<1>16. FetchSound'
  <2> SUFFICES ASSUME NEW r \in Reader
               PROVE  Fetches(r)'
    BY DEF FetchSound
  <2>1. Fetches(r)
    BY DEF FetchSound
  <2>2. Overwritten(q_odsc[r]) => Overwritten(q_odsc[r])'
    BY <1>1, <1>13
  <2>3. \A e \in odscs[r] : Wanted(e, q_odsc[r]) => Wanted(e, q_odsc[r])'
    BY <1>1, <2>2 DEF Wanted
  <2> QED
    BY <1>1, <2>1, <2>2, <2>3 DEF Fetches
<1>17. DownFor'
  BY <1>1, <1>13 DEF DownFor
<1> QED
  BY <1>9, <1>10, <1>12, <1>14, <1>15, <1>16, <1>17

-----------------------------------------------------------------------------
(* Index updates. *)

(* A step of the index, or of queries that collect. *)
LEMMA CollectInv ==
  ASSUME IndInv, UNCHANGED <<obj_hash, puts, pc, q_odsc, answered, odscs, data, down>>,
         Types', NothingMadeUp', PointersSound'
  PROVE  IndInv'
<1>1. PutOnce' /\ StillStored'
  BY StoresRest
<1>2. FetchSound'
  <2> SUFFICES ASSUME NEW r \in Reader
               PROVE  Fetches(r)'
    BY DEF FetchSound
  <2>1. Fetches(r)
    BY DEF IndInv, FetchSound
  <2> QED
    BY <2>1, DisplacedSame DEF Fetches
<1>3. DownFor'
  BY DisplacedSame DEF IndInv, DownFor
<1> QED
  BY <1>1, <1>2, <1>3 DEF IndInv

(* The domain and the elements of a reader's table. *)
LEMMA CollectedTyped ==
  ASSUME Types, NEW r \in Reader
  PROVE  \E S \in SUBSET Server :
           DOMAIN found[r] = S /\ found[r] \in [S -> [tab : SUBSET Nat, left : SUBSET Cell]]
<1>1. PICK S \in SUBSET Server : found[r] \in [S -> [tab : SUBSET Nat, left : SUBSET Cell]]
  BY DEF Types, Collected
<1> QED
  BY <1>1

(* dht_add_entry at a server, and the queries that wait there: an entry    *)
(* that a query points to is overwritten only if an object that it asked   *)
(* for has an element in common with another version of the bin.           *)
LEMMA ObjUpdateFacts ==
  ASSUME IndInv, NEW s \in Server, NEW d \in puts, ObjUpdate(s, d), UNCHANGED <<puts, q_odsc>>
  PROVE  /\ odsc_hash' \in [Server -> [Bin -> Seq(Descriptor)]]
         /\ found' \in [Reader -> Collected]
         /\ \A t \in Server, n \in Bin : /\ Range(odsc_hash'[t][n]) \subseteq puts
                                         /\ \A e \in Range(odsc_hash'[t][n]) : BinOf(e.version) = n
         /\ PointersSound'
<1> USE DEF IndInv
<1> DEFINE n == BinOf(d.version)
           old == odsc_hash[s][n]
           list == dht_add_entry(old, d)
           k == dht_find_match(old, d)
<1>1. d \in Descriptor /\ n \in Bin
  BY PutTyped
<1>2. odsc_hash[s] \in [Bin -> Seq(Descriptor)] /\ old \in Seq(Descriptor)
  BY <1>1 DEF Types
<1>3. /\ list \in Seq(Descriptor) /\ Range(list) \subseteq Range(old) \cup {d}
      /\ k \in DOMAIN list /\ list[k] = d /\ DOMAIN old \subseteq DOMAIN list
      /\ k \in DOMAIN old => obj_desc_by_name_intersect(d, old[k])
      /\ \A i \in DOMAIN old : i # k => list[i] = old[i]
  BY <1>1, <1>2, DhtAddEntry
<1>4. odsc_hash' = [odsc_hash EXCEPT ![s] = [@ EXCEPT ![n] = list]]
  BY DEF ObjUpdate
<1>5. \A r \in Reader : found'[r] =
        [t \in DOMAIN found[r] |->
           IF t = s /\ found[r][t].left # {} /\ obj_desc_equals_intersect(d, q_odsc[r])
           THEN [tab |-> found[r][t].tab \cup {k}, left |-> found[r][t].left \ d.box]
           ELSE found[r][t]]
  BY DEF ObjUpdate
<1>6. k \in Nat
  BY <1>2, <1>3
<1>7. found' = [r \in Reader |-> found'[r]]
  BY DEF ObjUpdate
<1> HIDE DEF n, list, k, old
<1>8. /\ odsc_hash' \in [Server -> [Bin -> Seq(Descriptor)]]
      /\ odsc_hash'[s][n] = list
      /\ \A t \in Server, m \in Bin : ~ (t = s /\ m = n) => odsc_hash'[t][m] = odsc_hash[t][m]
  BY <1>1, <1>2, <1>3, <1>4 DEF Types
<1>9. ASSUME NEW t \in Server, NEW m \in Bin
      PROVE  /\ Range(odsc_hash'[t][m]) \subseteq puts
             /\ \A e \in Range(odsc_hash'[t][m]) : BinOf(e.version) = m
  <2>1. CASE t = s /\ m = n
    BY <1>3, <1>8, <2>1 DEF NothingMadeUp, n, old
  <2>2. CASE ~ (t = s /\ m = n)
    BY <1>8, <2>2 DEF NothingMadeUp
  <2> QED
    BY <2>1, <2>2
<1>10. ASSUME NEW r \in Reader
       PROVE  /\ found'[r] \in Collected
              /\ DOMAIN found'[r] = DOMAIN found[r]
  <2>1. PICK S \in SUBSET Server : /\ DOMAIN found[r] = S
                                   /\ found[r] \in [S -> [tab : SUBSET Nat, left : SUBSET Cell]]
    BY CollectedTyped
  <2>2. \A t \in S : [tab |-> found[r][t].tab \cup {k}, left |-> found[r][t].left \ d.box]
                     \in [tab : SUBSET Nat, left : SUBSET Cell]
    BY <1>6, <2>1
  <2> DEFINE new(t) == t = s /\ found[r][t].left # {} /\ obj_desc_equals_intersect(d, q_odsc[r])
             rec(t) == [tab |-> found[r][t].tab \cup {k}, left |-> found[r][t].left \ d.box]
  <2>4. found'[r] = [t \in S |-> IF new(t) THEN rec(t) ELSE found[r][t]]
    BY <1>5, <2>1
  <2>5. \A t \in S : rec(t) \in [tab : SUBSET Nat, left : SUBSET Cell]
    BY <2>2
  <2> HIDE DEF new, rec
  <2>3. found'[r] \in [S -> [tab : SUBSET Nat, left : SUBSET Cell]]
    BY <2>1, <2>4, <2>5
  <2> QED
    BY <2>1, <2>3 DEF Collected
<1>11. found' \in [Reader -> Collected]
  BY <1>7, <1>10
<1>12. ASSUME NEW r \in Reader, NEW t \in DOMAIN found[r]
       PROVE  Points(r, t)'
  <2> DEFINE q == q_odsc[r]
             b == BinOf(q.version)
  <2>1. Points(r, t)
    BY DEF PointersSound
  <2>2. t \in Server /\ b \in Bin
    BY CollectedTyped, QueryTyped
  <2>3. (Overwritten(q)' <=> Overwritten(q)) /\ q_odsc' = q_odsc
    BY DisplacedSame
  <2>4. CASE ~ (t = s /\ b = n)
    <3>1. odsc_hash'[t][b] = odsc_hash[t][b]
      BY <1>8, <2>2, <2>4
    <3>2. t = s => ~ obj_desc_equals_intersect(d, q)
      BY <2>4 DEF obj_desc_equals_intersect, n
    <3>3. found'[r][t] = found[r][t]
      BY <1>5, <3>2
    <3> QED
      BY <2>1, <2>3, <3>1, <3>3 DEF Points
  <2>5. CASE t = s /\ b = n
    <3>1. odsc_hash'[t][b] = list /\ odsc_hash[t][b] = old
      BY <1>8, <2>5 DEF old
    <3> DEFINE tab == found[r][t].tab
               left == found[r][t].left
               new == left # {} /\ obj_desc_equals_intersect(d, q)
    <3>2. /\ new => found'[r][t].tab = tab \cup {k} /\ found'[r][t].left = left \ d.box
          /\ ~ new => found'[r][t].tab = tab /\ found'[r][t].left = left
      <4>1. CASE new
        <5>1. found'[r][t] = [tab |-> tab \cup {k}, left |-> left \ d.box]
          BY <1>5, <2>5, <4>1
        <5> QED
          BY <4>1, <5>1
      <4>2. CASE ~ new
        <5>1. found'[r][t] = found[r][t]
          BY <1>5, <2>5, <4>2
        <5> QED
          BY <4>2, <5>1
      <4> QED
        BY <4>1, <4>2
    <3>3. \A i \in tab : i \in DOMAIN old /\ old[i].name = q.name
      BY <2>1, <3>1 DEF Points
    <3>4. \A i \in tab : i \in DOMAIN list /\ list[i].name = q.name
      BY <1>3, <3>3 DEF obj_desc_by_name_intersect
    <3>5. new => list[k].name = q.name
      BY <1>3 DEF obj_desc_equals_intersect
    <3>6. ASSUME ~ Overwritten(q), NEW i \in tab
          PROVE  list[i] = old[i]
      <4>1. CASE i # k
        BY <1>3, <3>3, <4>1
      <4>2. CASE i = k
        <5>1. k \in DOMAIN old /\ obj_desc_by_name_intersect(d, old[k]) /\ list[k] = d
          BY <1>3, <3>3, <4>2
        <5>2. old[k] \in puts
          BY <2>2, <2>5, <5>1 DEF NothingMadeUp, Range, old
        <5>3. obj_desc_equals_intersect(old[k], q)
          BY <2>1, <3>1, <3>6, <4>2 DEF Points
        <5>4. obj_desc_by_name_intersect(old[k], d)
          BY <5>1 DEF obj_desc_by_name_intersect, bbox_does_intersect
        <5>5. d.version = q.version
          BY <2>5, <3>6, <5>2, <5>3, <5>4 DEF Overwritten, n
        <5>6. obj_desc_equals_intersect(d, old[k])
          BY <5>1, <5>3, <5>5 DEF obj_desc_equals_intersect, obj_desc_by_name_intersect
        <5> QED
          BY <4>2, <5>1, <5>2, <5>6 DEF PutOnce
      <4> QED
        BY <4>1, <4>2
    <3>7. ASSUME ~ Overwritten(q)
          PROVE  /\ \A i \in found'[r][t].tab : obj_desc_equals_intersect(list[i], q)
                 /\ \A c \in q.box \cap Share[t] :
                      c \in found'[r][t].left \/ \E i \in found'[r][t].tab : c \in list[i].box
      <4>1. /\ \A i \in tab : obj_desc_equals_intersect(old[i], q)
            /\ \A c \in q.box \cap Share[t] : c \in left \/ \E i \in tab : c \in old[i].box
        BY <2>1, <3>1, <3>7 DEF Points
      <4>2. \A i \in tab : list[i] = old[i]
        BY <3>6, <3>7
      <4> HIDE DEF tab, left, q
      <4>3. CASE new
        BY <1>3, <3>2, <4>1, <4>2, <4>3
      <4>4. CASE ~ new
        BY <3>2, <4>1, <4>2, <4>4
      <4> QED
        BY <4>3, <4>4
    <3>8. \A i \in found'[r][t].tab : i \in DOMAIN list /\ list[i].name = q.name
      BY <1>3, <3>2, <3>4, <3>5
    <3> QED
      BY <2>3, <3>1, <3>7, <3>8 DEF Points
  <2> QED
    BY <2>4, <2>5
<1>13. PointersSound'
  BY <1>10, <1>12 DEF PointersSound
<1> QED
  BY <1>8, <1>9, <1>11, <1>13

(* The pointers stay as they are when neither they nor the index change. *)
LEMMA PointersRest ==
  ASSUME IndInv, UNCHANGED <<odsc_hash, found, q_odsc, puts>>
  PROVE  PointersSound'
<1> SUFFICES ASSUME NEW r \in Reader, NEW s \in DOMAIN found[r]
             PROVE  Points(r, s)'
  BY DEF PointersSound
<1>1. Points(r, s)
  BY DEF IndInv, PointersSound
<1> QED
  BY <1>1, DisplacedSame DEF Points

(* obj_update_dht, one server. *)
LEMMA ObjUpdateDhtInv ==
  ASSUME IndInv, NEW u \in updating, NEW t \in u.todo, ObjUpdateDht(u, t)
  PROVE  IndInv'
<1> USE DEF IndInv
<1>1. /\ updating' = (updating \ {u}) \cup {w \in {[u EXCEPT !.todo = @ \ {t}]} : w.todo # {}}
      /\ UNCHANGED <<obj_hash, puts, pc, q_odsc, answered, odscs, data, down>>
  BY DEF ObjUpdateDht
<1>2. u \in [odsc : Descriptor, todo : SUBSET Server] /\ t \in Server /\ u.odsc \in puts
  BY DEF Types, NothingMadeUp
<1>4. /\ updating' \subseteq [odsc : Descriptor, todo : SUBSET Server]
      /\ \A w \in updating' : w.odsc \in puts
  <2>1. [u EXCEPT !.todo = @ \ {t}] = [odsc |-> u.odsc, todo |-> u.todo \ {t}]
    BY <1>2
  <2>2. \A w \in updating' : w \in updating \/ w = [odsc |-> u.odsc, todo |-> u.todo \ {t}]
    BY <1>1, <2>1
  <2> QED
    BY <1>2, <2>2 DEF Types, NothingMadeUp
<1>5. CASE ObjUpdate(t, u.odsc) /\ UNCHANGED net
  <2>0. /\ odsc_hash' \in [Server -> [Bin -> Seq(Descriptor)]]
        /\ found' \in [Reader -> Collected]
        /\ \A s \in Server, n \in Bin : /\ Range(odsc_hash'[s][n]) \subseteq puts
                                        /\ \A e \in Range(odsc_hash'[s][n]) : BinOf(e.version) = n
        /\ PointersSound'
    BY <1>1, <1>2, <1>5, ObjUpdateFacts
  <2>1. Types'
    BY <1>1, <1>4, <1>5, <2>0 DEF Types
  <2>2. NothingMadeUp'
    BY <1>1, <1>4, <1>5, <2>0 DEF NothingMadeUp
  <2> QED
    BY <1>1, <2>0, <2>1, <2>2, CollectInv
<1>6. CASE net' = net \cup {[odsc |-> u.odsc, to |-> t]} /\ UNCHANGED <<odsc_hash, found>>
  <2>0. net' \subseteq [odsc : Descriptor, to : Server]
    BY <1>2, <1>6 DEF Types
  <2>1. Types'
    BY <1>1, <1>4, <1>6, <2>0 DEF Types
  <2>2. NothingMadeUp'
    BY <1>1, <1>2, <1>4, <1>6 DEF NothingMadeUp
  <2>3. PointersSound'
    BY <1>1, <1>6, PointersRest
  <2> QED
    BY <1>1, <2>1, <2>2, <2>3, CollectInv
<1> QED
  BY <1>5, <1>6 DEF ObjUpdateDht

(* obj_update_rpc *)
LEMMA ObjUpdateRpcInv ==
  ASSUME IndInv, NEW m \in net, ObjUpdateRpc(m)
  PROVE  IndInv'
<1> USE DEF IndInv
<1>1. /\ net' = net \ {m} /\ ObjUpdate(m.to, m.odsc)
      /\ UNCHANGED <<obj_hash, updating, puts, pc, q_odsc, answered, odscs, data, down>>
  BY DEF ObjUpdateRpc
<1>2. m.to \in Server /\ m.odsc \in puts
  BY DEF Types, NothingMadeUp
<1>4. /\ odsc_hash' \in [Server -> [Bin -> Seq(Descriptor)]]
      /\ found' \in [Reader -> Collected]
      /\ \A s \in Server, n \in Bin : /\ Range(odsc_hash'[s][n]) \subseteq puts
                                      /\ \A e \in Range(odsc_hash'[s][n]) : BinOf(e.version) = n
      /\ PointersSound'
  BY <1>1, <1>2, ObjUpdateFacts
<1>5. Types'
  BY <1>1, <1>4 DEF Types
<1>6. NothingMadeUp'
  BY <1>1, <1>4 DEF NothingMadeUp
<1> QED
  BY <1>1, <1>4, <1>5, <1>6, CollectInv

-----------------------------------------------------------------------------
(* Readers. *)

(* A query reaches a server. *)
LEMMA FindEntriesInv ==
  ASSUME IndInv, NEW r \in Reader, NEW s \in Server, FindEntries(r, s)
  PROVE  IndInv'
<1> USE DEF IndInv
<1> DEFINE q == q_odsc[r]
           list == odsc_hash[s][BinOf(q.version)]
           tab == {i \in DOMAIN list : obj_desc_equals_intersect(list[i], q)}
           left == (q.box \cap Share[s]) \ UNION {list[i].box : i \in tab}
           new == [tab |-> tab, left |-> left]
<1>1. /\ found' = [found EXCEPT ![r] = [t \in DOMAIN found[r] \cup {s} |->
                                         IF t = s THEN new ELSE found[r][t]]]
      /\ UNCHANGED <<obj_hash, odsc_hash, updating, net, puts, pc, q_odsc, answered, odscs,
                     data, down>>
  BY DEF FindEntries, stores
<1>2. q \in Query /\ BinOf(q.version) \in Bin /\ q.box \subseteq Cell
  BY QueryTyped
<1>3. list \in Seq(Descriptor)
  BY <1>2 DEF Types
<1>4. new \in [tab : SUBSET Nat, left : SUBSET Cell]
  <2>1. tab \subseteq Nat
    BY <1>3
  <2>2. left \subseteq Cell
    BY <1>2
  <2> QED
    BY <2>1, <2>2
<1>5. PICK S \in SUBSET Server : /\ DOMAIN found[r] = S
                                 /\ found[r] \in [S -> [tab : SUBSET Nat, left : SUBSET Cell]]
  BY CollectedTyped
<1>6. /\ new.tab = tab /\ new.left = left
      /\ \A i \in tab : i \in DOMAIN list /\ obj_desc_equals_intersect(list[i], q)
      /\ \A c \in q.box \cap Share[s] : c \in left \/ \E i \in tab : c \in list[i].box
  OBVIOUS
<1>7. \A i \in tab : list[i].name = q.name
  BY <1>6 DEF obj_desc_equals_intersect
<1>8. found'[r] = [t \in S \cup {s} |-> IF t = s THEN new ELSE found[r][t]]
  BY <1>1, <1>5 DEF Types
<1> HIDE DEF new, tab, left
<1>9. found'[r] \in Collected
  <2>1. found'[r] \in [S \cup {s} -> [tab : SUBSET Nat, left : SUBSET Cell]]
    BY <1>4, <1>5, <1>8
  <2>2. S \cup {s} \in SUBSET Server
    OBVIOUS
  <2> QED
    BY <2>1, <2>2 DEF Collected
<1>10. Types'
  <2>1. found' \in [Reader -> Collected]
    BY <1>1, <1>9 DEF Types
  <2> QED
    BY <1>1, <2>1 DEF Types
<1>11. ASSUME NEW o \in Reader, NEW t \in DOMAIN found'[o]
       PROVE  Points(o, t)'
  <2>1. CASE o = r /\ t = s
    <3>1. found'[o][t] = new
      BY <1>8, <2>1
    <3>2. odsc_hash'[t][BinOf(q_odsc'[o].version)] = list /\ q_odsc'[o] = q
      BY <1>1, <2>1
    <3> HIDE DEF list, q
    <3> QED
      BY <1>6, <1>7, <2>1, <3>1, <3>2 DEF Points
  <2>2. CASE ~ (o = r /\ t = s)
    <3>1. t \in DOMAIN found[o] /\ found'[o][t] = found[o][t]
      BY <1>1, <1>5, <1>8, <1>11, <2>2 DEF Types
    <3>2. Points(o, t)
      BY <3>1 DEF PointersSound
    <3> HIDE DEF list, q
    <3> QED
      BY <1>1, <3>1, <3>2, DisplacedSame DEF Points
  <2> QED
    BY <2>1, <2>2
<1>12. PointersSound'
  BY <1>11 DEF PointersSound
<1>13. NothingMadeUp'
  BY <1>1 DEF NothingMadeUp
<1> QED
  BY <1>1, <1>10, <1>12, <1>13, CollectInv

(* The part of an object that a query asks for. *)
LEMMA ClipTyped ==
  ASSUME NEW p \in Descriptor, NEW q, q.box \subseteq Cell
  PROVE  /\ Clip(p, q) \in Descriptor
         /\ Clip(p, q).name = p.name /\ Clip(p, q).version = p.version
         /\ Clip(p, q).owner = p.owner /\ Clip(p, q).box = p.box \cap q.box
<1>1. Clip(p, q) = [name |-> p.name, version |-> p.version,
                    box |-> p.box \cap q.box, owner |-> p.owner]
  BY DEF Clip, Descriptor
<1>2. p.name \in Name /\ p.version \in Version /\ p.owner \in Owner /\ p.box \cap q.box \subseteq Cell
  BY DEF Descriptor
<1> QED
  BY <1>1, <1>2 DEF Descriptor

(* A step of a reader that leaves the stores as they are. *)
LEMMA ReaderInv ==
  ASSUME IndInv, UNCHANGED <<obj_hash, odsc_hash, updating, net, puts, q_odsc>>,
         Types', PointersSound', DownFor',
         NEW r \in Reader, Fetches(r)',
         \A o \in Reader : o # r => /\ pc'[o] = pc[o] /\ odscs'[o] = odscs[o]
                                    /\ data'[o] = data[o] /\ answered'[o] = answered[o]
  PROVE  IndInv'
<1>1. PutOnce' /\ StillStored'
  BY StoresRest
<1>2. NothingMadeUp'
  BY DEF IndInv, NothingMadeUp
<1>3. ASSUME NEW o \in Reader, o # r
      PROVE  Fetches(o)'
  <2>1. Fetches(o)
    BY DEF IndInv, FetchSound
  <2>2. /\ pc'[o] = pc[o] /\ odscs'[o] = odscs[o]
        /\ data'[o] = data[o] /\ answered'[o] = answered[o]
    BY <1>3
  <2> QED
    BY <2>1, <2>2, DisplacedSame DEF Fetches
<1>4. FetchSound'
  BY <1>3 DEF FetchSound
<1> QED
  BY <1>1, <1>2, <1>4 DEF IndInv

(* dspaces_get is called; get_data is through, or fails on a box without   *)
(* elements, which no part of an object that was asked for has.            *)
LEMMA GetStepsInv ==
  ASSUME IndInv, NEW r \in Reader, DspacesGet(r) \/ GetData(r) \/ GetDataFaults(r)
  PROVE  IndInv'
<1> USE DEF IndInv
<1>1. /\ UNCHANGED <<obj_hash, odsc_hash, updating, net, puts, q_odsc, found, answered, odscs,
                     data, down>>
      /\ \/ pc[r] = "idle" /\ pc' = [pc EXCEPT ![r] = "query"]
         \/ pc[r] = "fetch" /\ odscs[r] = {} /\ pc' = [pc EXCEPT ![r] = "done"]
         \/ /\ pc[r] = "fetch" /\ \E d \in odscs[r] : d.box = {}
            /\ pc' = [pc EXCEPT ![r] = "crashed"]
  BY DEF DspacesGet, GetData, GetDataFaults, stores
<1>2. Types'
  BY <1>1 DEF Types
<1>3. PointersSound' /\ DownFor'
  BY <1>1, PointersRest, DisplacedSame DEF DownFor
<1>4. Fetches(r)
  BY DEF FetchSound
<1>5. ASSUME NEW d \in odscs[r], d.box = {}
      PROVE  Overwritten(q_odsc[r])
  <2>1. PICK p \in puts : /\ d = Clip(p, q_odsc[r])
                          /\ ~ Overwritten(q_odsc[r]) => obj_desc_equals_intersect(p, q_odsc[r])
    BY <1>4 DEF Fetches, Wanted
  <2>3. p \in Descriptor /\ q_odsc[r].box \subseteq Cell
    BY PutTyped, QueryTyped
  <2>2. d.box = p.box \cap q_odsc[r].box
    BY <2>1, <2>3, ClipTyped
  <2> QED
    BY <1>5, <2>1, <2>2 DEF obj_desc_equals_intersect, bbox_does_intersect
<1>7. Fetches(r)'
  BY <1>1, <1>4, <1>5, DisplacedSame DEF Fetches, Types
<1> QED
  BY <1>1, <1>2, <1>3, <1>7, ReaderInv DEF Types

(* A server copies the entries that the query points to: objects of the    *)
(* bin, and the ones that were found unless they may be overwritten.       *)
LEMMA CopyEntriesInv ==
  ASSUME IndInv, NEW r \in Reader, NEW s \in Server, CopyEntries(r, s)
  PROVE  IndInv'
<1> USE DEF IndInv
<1>0. PICK q \in Query : q = q_odsc[r]
  BY QueryTyped
<1> DEFINE list == odsc_hash[s][BinOf(q.version)]
           tab == found[r][s].tab
<1>1. /\ pc[r] = "query" /\ s \in DOMAIN found[r] /\ found[r][s].left = {}
      /\ odscs' = [odscs EXCEPT ![r] = @ \cup Copied(r, s)]
      /\ answered' = [answered EXCEPT ![r] = @ \cup {s}]
      /\ UNCHANGED <<obj_hash, odsc_hash, updating, net, puts, pc, q_odsc, found, data, down>>
  BY DEF CopyEntries, stores
<1>2. BinOf(q.version) \in Bin /\ q.box \subseteq Cell
  BY <1>0, QueryTyped
<1>3. Copied(r, s) = {Clip(list[i], q) : i \in tab}
  BY <1>0 DEF Copied
<1>4. Points(r, s)
  BY <1>1 DEF PointersSound
<1>5. \A i \in tab : /\ i \in DOMAIN list /\ list[i].name = q.name
                     /\ list[i] \in puts /\ BinOf(list[i].version) = BinOf(q.version)
                     /\ ~ Overwritten(q) => obj_desc_equals_intersect(list[i], q)
  BY <1>0, <1>2, <1>4 DEF Points, NothingMadeUp, Range
<1>6. ~ Overwritten(q) => \A c \in q.box \cap Share[s] : \E i \in tab : c \in list[i].box
  BY <1>0, <1>1, <1>4 DEF Points
<1> HIDE DEF list, tab
<1>7. ASSUME NEW i \in tab
      PROVE  /\ Clip(list[i], q) \in Descriptor
             /\ Clip(list[i], q).box = list[i].box \cap q.box
             /\ Wanted(Clip(list[i], q), q)
  <2>1. list[i] \in Descriptor
    BY <1>5, PutTyped
  <2>2. Wanted(Clip(list[i], q), q)
    BY <1>5 DEF Wanted
  <2> QED
    BY <1>2, <2>1, <2>2, ClipTyped
<1>8. Copied(r, s) \subseteq Descriptor /\ \A d \in Copied(r, s) : Wanted(d, q)
  BY <1>3, <1>7
<1>9. ~ Overwritten(q) => \A c \in q.box \cap Share[s] : \E d \in Copied(r, s) : c \in d.box
  BY <1>3, <1>6, <1>7
<1>10. Types'
  <2>1. odscs' \in [Reader -> SUBSET Descriptor] /\ answered' \in [Reader -> SUBSET Server]
    BY <1>1, <1>8 DEF Types
  <2> QED
    BY <1>1, <2>1 DEF Types
<1>11. /\ odscs'[r] = odscs[r] \cup Copied(r, s) /\ answered'[r] = answered[r] \cup {s}
       /\ \A o \in Reader : o # r => odscs'[o] = odscs[o] /\ answered'[o] = answered[o]
  BY <1>1 DEF Types
<1>12. Fetches(r)
  BY DEF FetchSound
<1>13. /\ q = q_odsc[r] /\ q = q_odsc'[r] /\ (Overwritten(q)' <=> Overwritten(q))
       /\ \A d : Wanted(d, q)' <=> Wanted(d, q)
  BY <1>0, <1>1, DisplacedSame
<1>14. Fetches(r)'
  <2>1. \A d \in odscs'[r] : Wanted(d, q)
    BY <1>8, <1>11, <1>12, <1>13 DEF Fetches
  <2>2. ~ Overwritten(q) => \A t \in answered'[r] : \A c \in q.box \cap Share[t] :
          \E d \in odscs'[r] \cup data[r] : c \in d.box
    BY <1>1, <1>9, <1>11, <1>12, <1>13 DEF Fetches
  <2>3. pc'[r] = "query" /\ data'[r] = data[r]
    BY <1>1
  <2>4. \A d \in data[r] : /\ d.name = q.name
                           /\ BinOf(d.version) = BinOf(q.version)
                           /\ d.box \subseteq q.box
                           /\ ~ Overwritten(q) => d.version = q.version
    BY <1>12, <1>13 DEF Fetches
  <2> QED
    BY <1>13, <2>1, <2>2, <2>3, <2>4 DEF Fetches
<1>15. PointersSound'
  BY <1>1, PointersRest
<1>16. DownFor'
  BY <1>1, <1>11, DisplacedSame DEF DownFor
<1> QED
  BY <1>1, <1>10, <1>11, <1>14, <1>15, <1>16, ReaderInv

(* query_rpc: the parts of what was found make up the query, since every   *)
(* element is indexed by a server that has answered.                       *)
LEMMA QueryRpcInv ==
  ASSUME IndInv, NEW r \in Reader, QueryRpc(r)
  PROVE  IndInv'
<1> USE DEF IndInv
<1>1. /\ pc[r] = "query" /\ pc' = [pc EXCEPT ![r] = "fetch"]
      /\ ssd_hash(q_odsc[r].box) \subseteq answered[r]
      /\ found' = [found EXCEPT ![r] = << >>] /\ answered' = [answered EXCEPT ![r] = {}]
      /\ UNCHANGED <<obj_hash, odsc_hash, updating, net, puts, q_odsc, odscs, data, down>>
  BY DEF QueryRpc, stores
<1>2. << >> \in Collected
  <2>1. << >> \in [{} -> [tab : SUBSET Nat, left : SUBSET Cell]]
    OBVIOUS
  <2> QED
    BY <2>1 DEF Collected
<1>3. Types'
  BY <1>1, <1>2 DEF Types
<1>4. PointersSound'
  <2> SUFFICES ASSUME NEW o \in Reader, NEW t \in DOMAIN found'[o]
               PROVE  Points(o, t)'
    BY DEF PointersSound
  <2>1. o # r /\ found'[o] = found[o]
    BY <1>1 DEF Types
  <2>2. Points(o, t)
    BY <2>1 DEF PointersSound
  <2> QED
    BY <1>1, <2>1, <2>2, DisplacedSame DEF Points
<1>5. Fetches(r)
  BY DEF FetchSound
<1>6. q_odsc[r].box \subseteq Cell
  BY QueryTyped
<1>7. ~ Overwritten(q_odsc[r]) =>
        \A c \in q_odsc[r].box : \E d \in odscs[r] \cup data[r] : c \in d.box
  <2> SUFFICES ASSUME ~ Overwritten(q_odsc[r]), NEW c \in q_odsc[r].box
               PROVE  \E d \in odscs[r] \cup data[r] : c \in d.box
    OBVIOUS
  <2>1. PICK s \in Server : c \in Share[s]
    BY <1>6, StagingAssumption
  <2>2. s \in answered[r]
    BY <1>1, <2>1 DEF ssd_hash
  <2> QED
    BY <1>1, <1>5, <2>1, <2>2 DEF Fetches
<1>8. Fetches(r)'
  BY <1>1, <1>5, <1>7, DisplacedSame DEF Fetches, Types
<1>9. DownFor'
  BY <1>1, DisplacedSame DEF DownFor
<1> QED
  BY <1>1, <1>3, <1>4, <1>8, <1>9, ReaderInv DEF Types

(* An object that a get needs is where the index says, unless another      *)
(* version of the bin has an element in common with it.                    *)
LEMMA WantedIsStored ==
  ASSUME IndInv, NEW r \in Reader, NEW d \in odscs[r], ~ Overwritten(q_odsc[r])
  PROVE  ls_find(d.owner, d) # {}
<1> USE DEF IndInv
<1>1. PICK p \in puts : d = Clip(p, q_odsc[r]) /\ obj_desc_equals_intersect(p, q_odsc[r])
  BY DEF FetchSound, Fetches, Wanted
<1>2. p \in Descriptor /\ p.owner \in Server /\ BinOf(p.version) \in Bin /\ p.version \in Nat
  BY PutTyped, ObjectsAssumption
<1>3. /\ d.name = p.name /\ d.version = p.version /\ d.owner = p.owner
      /\ d.box = p.box \cap q_odsc[r].box
  BY <1>1, <1>2, QueryTyped, ClipTyped
<1>4. ~ Displaced(p)
  <2> SUFFICES ASSUME Displaced(p)
               PROVE  Overwritten(q_odsc[r])
    OBVIOUS
  <2>1. PICK o \in puts : /\ BinOf(o.version) = BinOf(p.version)
                          /\ obj_desc_by_name_intersect(o, p) /\ o.version > p.version
    BY DEF Displaced
  <2>5. o.version \in Nat
    BY PutTyped, ObjectsAssumption
  <2>2. o.version # p.version
    BY <1>2, <2>1, <2>5
  <2>3. obj_desc_by_name_intersect(p, o)
    BY <2>1 DEF obj_desc_by_name_intersect, bbox_does_intersect
  <2>4. p.version = q_odsc[r].version
    BY <1>1 DEF obj_desc_equals_intersect
  <2> QED
    BY <1>1, <2>1, <2>2, <2>3, <2>4 DEF Overwritten
<1>5. PICK i \in DOMAIN obj_hash[p.owner][BinOf(p.version)] :
        obj_hash[p.owner][BinOf(p.version)][i] = p
  BY <1>4 DEF StillStored, Range
<1>6. obj_desc_equals_intersect(d, p)
  BY <1>1, <1>3 DEF obj_desc_equals_intersect, bbox_does_intersect
<1> QED
  BY <1>3, <1>5, <1>6 DEF ls_find

(* get_rpc: the object that ls_find finds is the one that was asked for.   *)
LEMMA GetRpcInv ==
  ASSUME IndInv, NEW r \in Reader, NEW d \in odscs[r], GetRpc(r, d)
  PROVE  IndInv'
<1> USE DEF IndInv
<1> DEFINE list == obj_hash[d.owner][BinOf(d.version)]
           M == ls_find(d.owner, d)
           got == Clip(list[FirstOf(M)], d)
<1>0. PICK q \in Query : q = q_odsc[r]
  BY QueryTyped
<1>1. /\ pc[r] = "fetch" /\ odscs' = [odscs EXCEPT ![r] = @ \ {d}] /\ d.owner \notin down
      /\ UNCHANGED <<obj_hash, odsc_hash, updating, net, puts, pc, q_odsc, found, answered, down>>
  BY DEF GetRpc, stores
<1>2. \/ M # {} /\ data' = [data EXCEPT ![r] = @ \cup {got}]
      \/ d.box = {} /\ data' = data
  BY DEF GetRpc
<1>3. PICK p \in puts : /\ d = Clip(p, q) /\ p.name = q.name
                        /\ BinOf(p.version) = BinOf(q.version)
                        /\ ~ Overwritten(q) => obj_desc_equals_intersect(p, q)
  BY <1>0 DEF FetchSound, Fetches, Wanted
<1>4. p \in Descriptor /\ p.owner \in Server /\ BinOf(p.version) \in Bin
  BY PutTyped
<1>5. /\ d.name = p.name /\ d.version = p.version /\ d.owner = p.owner
      /\ d.box = p.box \cap q.box /\ d \in Descriptor /\ q.box \subseteq Cell
  <2>1. q.box \subseteq Cell
    BY <1>0, QueryTyped
  <2> QED
    BY <1>3, <1>4, <2>1, ClipTyped
<1>6. list \in Seq(Descriptor) /\ Range(list) \subseteq puts
  BY <1>4, <1>5 DEF Types, NothingMadeUp
<1>7. M = {i \in DOMAIN list : obj_desc_equals_intersect(d, list[i])}
  BY DEF ls_find
<1>8. d.box \subseteq Cell
  BY <1>5
<1>9. ASSUME M # {}
      PROVE  /\ got \in Descriptor /\ got.name = q.name /\ got.version = d.version
             /\ got.box \subseteq q.box
             /\ ~ Overwritten(q) => got.box = d.box
  <2> DEFINE o == list[FirstOf(M)]
  <2>1. M \subseteq 1 .. Len(list) /\ Len(list) \in Nat
    BY <1>6, <1>7
  <2>2. FirstOf(M) \in M
    BY <1>9, <2>1, FirstOfIn
  <2>3. o \in puts /\ obj_desc_equals_intersect(d, o)
    BY <1>6, <1>7, <2>2 DEF Range
  <2>4. o \in Descriptor
    BY <2>3, PutTyped
  <2> HIDE DEF o
  <2>5. /\ Clip(o, d) \in Descriptor /\ Clip(o, d).name = o.name
        /\ Clip(o, d).version = o.version /\ Clip(o, d).box = o.box \cap d.box
    BY <1>8, <2>4, ClipTyped
  <2>6. obj_desc_equals_intersect(p, o)
    BY <1>5, <2>3 DEF obj_desc_equals_intersect, bbox_does_intersect
  <2>7. o = p
    BY <2>3, <2>6 DEF PutOnce
  <2>8. got = Clip(o, d)
    BY DEF o
  <2> HIDE DEF got
  <2> QED
    BY <1>3, <1>5, <2>5, <2>7, <2>8
<1> HIDE DEF got, M, list
<1>10. Fetches(r) /\ q = q_odsc[r] /\ q = q_odsc'[r] /\ (Overwritten(q)' <=> Overwritten(q))
  BY <1>0, <1>1, DisplacedSame DEF FetchSound
<1>11. \A e : Wanted(e, q)' <=> Wanted(e, q)
  BY <1>1, DisplacedSame
<1>12. /\ odscs'[r] = odscs[r] \ {d}
       /\ \A o \in Reader : o # r => odscs'[o] = odscs[o] /\ data'[o] = data[o]
  BY <1>1, <1>2 DEF Types
<1>13. data'[r] = data[r] \/ (M # {} /\ data'[r] = data[r] \cup {got})
  BY <1>2 DEF Types
<1>14. Types'
  <2>1. odscs' \in [Reader -> SUBSET Descriptor]
    BY <1>1 DEF Types
  <2>2. data' \in [Reader -> SUBSET Descriptor]
    BY <1>2, <1>9 DEF Types
  <2> QED
    BY <1>1, <2>1, <2>2 DEF Types
<1>15. ~ Overwritten(q) => d.version = q.version
  BY <1>3, <1>5 DEF obj_desc_equals_intersect
<1>16. BinOf(d.version) = BinOf(q.version)
  BY <1>3, <1>5
<1>17. Fetches(r)'
  <2>1. \A e \in data'[r] : /\ e.name = q.name
                            /\ BinOf(e.version) = BinOf(q.version)
                            /\ e.box \subseteq q.box
                            /\ ~ Overwritten(q) => e.version = q.version
    BY <1>9, <1>10, <1>13, <1>15, <1>16 DEF Fetches
  <2>2. ASSUME ~ Overwritten(q), NEW c \in q.box
        PROVE  \E e \in odscs'[r] \cup data'[r] : c \in e.box
    <3>1. PICK e \in odscs[r] \cup data[r] : c \in e.box
      BY <1>1, <1>10, <2>2 DEF Fetches
    <3>2. CASE e # d
      BY <1>12, <1>13, <3>1, <3>2
    <3>3. CASE e = d
      <4>1. M # {} /\ data'[r] = data[r] \cup {got}
        BY <1>2, <3>1, <3>3 DEF Types
      <4> QED
        BY <1>9, <2>2, <3>1, <3>3, <4>1
    <3> QED
      BY <3>2, <3>3
  <2>3. \A e \in odscs'[r] : Wanted(e, q)'
    BY <1>10, <1>11, <1>12 DEF Fetches
  <2>4. pc'[r] = "fetch"
    BY <1>1
  <2> QED
    BY <1>10, <2>1, <2>2, <2>3, <2>4 DEF Fetches
<1>18. PointersSound'
  BY <1>1, PointersRest
<1>19. DownFor'
  <2> SUFFICES ASSUME NEW s \in down
               PROVE  \E o \in Reader : /\ Overwritten(q_odsc[o])
                                        /\ \E e \in odscs'[o] : e.owner = s
    BY <1>1, DisplacedSame DEF DownFor
  <2>1. PICK o \in Reader : Overwritten(q_odsc[o]) /\ \E e \in odscs[o] : e.owner = s
    BY DEF DownFor
  <2>2. \E e \in odscs'[o] : e.owner = s
    BY <1>1, <1>12, <2>1
  <2> QED
    BY <2>1, <2>2
<1> QED
  BY <1>1, <1>12, <1>14, <1>17, <1>18, <1>19, ReaderInv

(* get_rpc finds nothing: the object may have been overwritten. *)
LEMMA GetRpcFaultsInv ==
  ASSUME IndInv, NEW r \in Reader, NEW d \in odscs[r], GetRpcFaults(r, d)
  PROVE  IndInv'
<1> USE DEF IndInv
<1>1. /\ ls_find(d.owner, d) = {} /\ down' = down \cup {d.owner}
      /\ UNCHANGED <<obj_hash, odsc_hash, updating, net, puts, pc, q_odsc, found, answered,
                     odscs, data>>
  BY DEF GetRpcFaults, readers
<1>2. Overwritten(q_odsc[r])
  BY <1>1, WantedIsStored
<1>3. d.owner \in Server
  BY DEF Types, Descriptor, Server
<1>4. Types'
  BY <1>1, <1>3 DEF Types
<1>5. DownFor'
  BY <1>1, <1>2, DisplacedSame DEF DownFor
<1>6. Fetches(r)
  BY DEF FetchSound
<1>7. Fetches(r)'
  BY <1>1, <1>6, DisplacedSame DEF Fetches
<1>8. PointersSound'
  BY <1>1, PointersRest
<1> QED
  BY <1>1, <1>4, <1>5, <1>7, <1>8, ReaderInv

(* Nothing was put yet. *)
LEMMA InitInv ==
  ASSUME Init
  PROVE  IndInv
<1>1. << >> \in Seq(Descriptor) /\ Range(<< >>) = {}
  BY DEF Range
<1>2. << >> \in Collected
  <2>1. << >> \in [{} -> [tab : SUBSET Nat, left : SUBSET Cell]]
    OBVIOUS
  <2> QED
    BY <2>1 DEF Collected
<1>3. Types
  BY <1>1, <1>2 DEF Init, Types
<1>5. NothingMadeUp
  <2>1. \A s \in Server, n \in Bin : obj_hash[s][n] = << >> /\ odsc_hash[s][n] = << >>
    BY DEF Init
  <2> QED
    BY <1>1, <2>1 DEF Init, NothingMadeUp
<1>6. PutOnce /\ StillStored /\ DownFor
  BY DEF Init, PutOnce, StillStored, DownFor
<1>7. FetchSound
  BY DEF Init, FetchSound, Fetches
<1>8. PointersSound
  <2>1. \A r \in Reader : DOMAIN found[r] = {}
    BY DEF Init
  <2> QED
    BY <2>1 DEF PointersSound
<1> QED
  BY <1>3, <1>5, <1>6, <1>7, <1>8 DEF IndInv

-----------------------------------------------------------------------------
(* The inductive invariant of puts, index updates and gets: put_rpc,       *)
(* obj_update_dht, obj_update_rpc, query_rpc and get_rpc, in any order.    *)
THEOREM StagingInvariant ==
  Spec => []IndInv
<1>1. Init => IndInv
  BY InitInv
<1>2. IndInv /\ [Next]_vars => IndInv'
  <2> SUFFICES ASSUME IndInv, [Next]_vars
               PROVE  IndInv'
    OBVIOUS
  <2>1. ASSUME NEW d \in Put, PutRpc(d)
        PROVE  IndInv'
    BY <2>1, PutRpcInv
  <2>2. CASE ServerStep
    BY <2>2, ObjUpdateDhtInv, ObjUpdateRpcInv DEF ServerStep
  <2>3. ASSUME NEW r \in Reader, ReaderStep(r)
        PROVE  IndInv'
    BY <2>3, GetStepsInv, FindEntriesInv, CopyEntriesInv, QueryRpcInv, GetRpcInv,
       GetRpcFaultsInv DEF ReaderStep
  <2>4. CASE UNCHANGED vars
    <3>1. Types' /\ NothingMadeUp' /\ PointersSound'
      BY <2>4, PointersRest DEF vars, IndInv, Types, NothingMadeUp
    <3> QED
      BY <2>4, <3>1, CollectInv DEF vars
  <2> QED
    BY <2>1, <2>2, <2>3, <2>4 DEF Next
<1> QED
  BY <1>1, <1>2, PTL DEF Spec

(* The index never names an owner that does not have the object: put_rpc   *)
(* stores before it tells the index, and ls_add_obj evicts an object only  *)
(* for a newer version of it.                                              *)
THEOREM IndexIsBacked ==
  Spec => []IndexBacked
<1>1. IndInv => IndexBacked
  <2> SUFFICES ASSUME IndInv, NEW s \in Server, NEW d \in Indexed(s)
               PROVE  d \in Stored(d.owner) \/ Displaced(d)
    BY DEF IndexBacked
  <2>1. d \in puts
    BY DEF IndInv, NothingMadeUp, Indexed
  <2>2. BinOf(d.version) \in Bin
    BY <2>1, PutTyped DEF IndInv
  <2>3. d \in Range(obj_hash[d.owner][BinOf(d.version)]) \/ Displaced(d)
    BY <2>1 DEF IndInv, StillStored
  <2> QED
    BY <2>2, <2>3 DEF Stored
<1> QED
  BY <1>1, StagingInvariant, PTL

(* A get with timeout -1 has nothing but elements of its box, of its       *)
(* variable and its bin, and all of them in its version if no other        *)
(* version can overwrite what it points to: an entry whose address         *)
(* get_query_odscs holds after the unlock is overwritten only by an object *)
(* of the bin that has an element in common with it.                       *)
THEOREM GetsAreExact ==
  Spec => []GetExact
<1>1. IndInv => GetExact
  <2> SUFFICES ASSUME IndInv, NEW r \in Reader
               PROVE  LET q == q_odsc[r] IN
                      /\ \A d \in data[r] : /\ d.name = q.name
                                            /\ BinOf(d.version) = BinOf(q.version)
                                            /\ d.box \subseteq q.box
                      /\ pc[r] = "done" /\ ~ Overwritten(q) =>
                           /\ UNION {d.box : d \in data[r]} = q.box
                           /\ \A d \in data[r] : d.version = q.version
    BY DEF GetExact
  <2>1. Fetches(r)
    BY DEF IndInv, FetchSound
  <2>2. pc[r] = "done" /\ ~ Overwritten(q_odsc[r]) =>
          \A c \in q_odsc[r].box : \E d \in data[r] : c \in d.box
    BY <2>1 DEF Fetches
  <2> QED
    BY <2>1, <2>2 DEF Fetches
<1> QED
  BY <1>1, StagingInvariant, PTL

(* A null pointer in get_rpc or get_data is met only for a get of data     *)
(* that shares its bin and an element with another version.                *)
THEOREM FaultsAreExplained ==
  Spec => []FaultsExplained
<1>1. IndInv => FaultsExplained
  BY DEF IndInv, DownFor, FetchSound, Fetches, FaultsExplained
<1> QED
  BY <1>1, StagingInvariant, PTL
=============================================================================
