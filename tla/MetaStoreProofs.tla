-------------------------- MODULE MetaStoreProofs --------------------------
(***************************************************************************)
(* Proofs about MetaStore, for every number of names, versions, bins,      *)
(* writers and readers: an entry is stored once, the scan of               *)
(* meta_find_next_entry finds the lowest newer version, no notification is *)
(* lost and META_MODE_LAST returns the latest entry.                       *)
(***************************************************************************)
EXTENDS MetaStore, Loops, SequenceTheorems

-----------------------------------------------------------------------------
(* Remainders. *)

(* Quotient and remainder of a version and the number of bins. *)
LEMMA Quotient ==
  ASSUME NEW a \in Nat
  PROVE  /\ size_hash \in Nat /\ size_hash > 0
         /\ a \div size_hash \in Nat /\ a % size_hash \in 0 .. size_hash - 1
         /\ a = size_hash * (a \div size_hash) + (a % size_hash)
<1>1. size_hash \in Nat /\ size_hash > 0
  BY MetaAssumption
<1> QED
  BY <1>1

(* Of the versions of one bin that are newer than c, one that is less than *)
(* size_hash newer is the lowest.                                          *)
LEMMA SameBin ==
  ASSUME NEW a \in Nat, NEW b \in Nat, NEW c \in Int, a % size_hash = b % size_hash,
         c < a, a < c + size_hash, c < b
  PROVE  a <= b
<1> DEFINE x == a \div size_hash
           y == b \div size_hash
           r == a % size_hash
<1>1. /\ size_hash \in Nat /\ size_hash > 0 /\ x \in Nat /\ y \in Nat /\ r \in Nat
      /\ a = size_hash * x + r /\ b = size_hash * y + r
  BY Quotient
<1> HIDE DEF x, y, r
<1>2. x <= y => size_hash * x <= size_hash * y
  BY <1>1
<1>3. x >= y + 1 => size_hash * x >= size_hash * y + size_hash
  BY <1>1
<1> QED
  BY <1>1, <1>2, <1>3

(* size_hash bins in a row are all of them. *)
LEMMA EveryBin ==
  ASSUME NEW c \in Int, c >= -1, NEW n \in 0 .. size_hash - 1
  PROVE  \E i \in 1 .. size_hash : (c + (i - 1) + 1) % size_hash = n
<1> DEFINE x == (c + 1) \div size_hash
           r == (c + 1) % size_hash
<1>1. /\ size_hash \in Nat /\ size_hash > 0 /\ x \in Nat /\ r \in 0 .. size_hash - 1
      /\ c + 1 = size_hash * x + r
  <2>1. c + 1 \in Nat
    OBVIOUS
  <2> QED
    BY <2>1, Quotient
<1> HIDE DEF x, r
<1>2. ASSUME NEW k \in Nat, NEW z \in Nat, k = size_hash * z + n
      PROVE  k % size_hash = n
  <2> DEFINE u == k \div size_hash
             v == k % size_hash
  <2>1. u \in Nat /\ v \in 0 .. size_hash - 1 /\ k = size_hash * u + v
    BY Quotient
  <2> HIDE DEF u, v
  <2>2. u >= z + 1 => size_hash * u >= size_hash * z + size_hash
    BY <1>1, <2>1
  <2>3. z >= u + 1 => size_hash * z >= size_hash * u + size_hash
    BY <1>1, <2>1
  <2>4. u = z
    BY <1>1, <1>2, <2>1, <2>2, <2>3
  <2>5. size_hash * u = size_hash * z
    BY <2>4
  <2>6. v = n
    BY <1>1, <1>2, <2>1, <2>5
  <2> QED
    BY <2>6 DEF v
<1>3. CASE n >= r
  <2>1. n - r + 1 \in 1 .. size_hash /\ c + ((n - r + 1) - 1) + 1 = size_hash * x + n
    BY <1>1, <1>3
  <2>2. c + ((n - r + 1) - 1) + 1 \in Nat
    BY <1>1, <2>1
  <2>3. (c + ((n - r + 1) - 1) + 1) % size_hash = n
    BY <1>1, <1>2, <2>1, <2>2
  <2> QED
    BY <2>1, <2>3
<1>4. CASE n < r
  <2>1. /\ n - r + size_hash + 1 \in 1 .. size_hash
        /\ c + ((n - r + size_hash + 1) - 1) + 1 = (size_hash * x + size_hash) + n
    BY <1>1, <1>4
  <2>2. size_hash * x + size_hash = size_hash * (x + 1)
    BY <1>1
  <2>3. c + ((n - r + size_hash + 1) - 1) + 1 \in Nat /\ x + 1 \in Nat
    BY <1>1, <2>1
  <2> QED
    BY <1>2, <2>1, <2>2, <2>3
<1> QED
  BY <1>1, <1>3, <1>4

-----------------------------------------------------------------------------
(* The scan of meta_find_next_entry. *)

(* An entry that the scan looks for. *)
IsNewer(e, name, curr) == e.name = name /\ e.version > curr

Found == Entry \cup {None}

ScanState == [mdres : Found, stop : BOOLEAN]

(* The values of the loop over a bin. *)
BinRun(f, mdres, list, name, curr) ==
  /\ f \in [0 .. Len(list) -> ScanState]
  /\ f[0] = [mdres |-> mdres, stop |-> FALSE]
  /\ \A i \in 1 .. Len(list) : f[i] = Visit(f[i - 1], list[i], name, curr)
  /\ ScanBin(mdres, list, name, curr) = f[Len(list)].mdres

(* The loop over a bin has a run, and returns what it ends with. *)
LEMMA BinRuns ==
  ASSUME NEW list \in Seq(Entry), NEW mdres \in Found, NEW name, NEW curr
  PROVE  \E f : BinRun(f, mdres, list, name, curr)
<1>1. PICK n \in Nat : n = Len(list)
  OBVIOUS
<1>2. PICK base : base = [mdres |-> mdres, stop |-> FALSE]
  OBVIOUS
<1>3. PICK turn : turn = [i \in 1 .. n |-> [x \in ScanState |-> Visit(x, list[i], name, curr)]]
  OBVIOUS
<1> DEFINE Body(f) == [i \in 0 .. n |-> IF i = 0 THEN base
                                        ELSE Visit(f[i - 1], list[i], name, curr)]
           acc == CHOOSE f : f = Body(f)
<1>4. n \in Nat /\ base \in ScanState /\ \A i \in 1 .. n : list[i] \in Entry
  BY <1>1, <1>2 DEF ScanState
<1>5. ASSUME NEW x \in ScanState, NEW e \in Entry
      PROVE  Visit(x, e, name, curr) \in ScanState
  <2>1. (e.version < curr + size_hash) \in BOOLEAN
    OBVIOUS
  <2> QED
    BY <2>1 DEF Visit, ScanState, Found
<1>6. Loop(turn, n, ScanState)
  BY <1>4, <1>5, <1>3 DEF Loop
<1>7. ScanBin(mdres, list, name, curr) = acc[n].mdres
  BY <1>1, <1>2 DEF ScanBin
<1>8. PICK f \in [0 .. n -> ScanState] :
        f[0] = base /\ \A i \in 1 .. n : f[i] = turn[i][f[i - 1]]
  <2>1. \E f : Run(f, base, turn, n, ScanState)
    BY <1>4, <1>6, LoopRuns
  <2> QED
    BY <2>1 DEF Run
<1>9. \A i \in 1 .. n : f[i] = Visit(f[i - 1], list[i], name, curr)
  <2> TAKE i \in 1 .. n
  <2>1. f[i - 1] \in ScanState
    BY <1>4
  <2> QED
    BY <1>8, <1>3, <2>1
<1>10. f = Body(f)
  <2>1. \A i \in 0 .. n : i # 0 => i \in 1 .. n
    BY <1>4
  <2>2. \A i \in 0 .. n : f[i] = Body(f)[i]
    BY <1>8, <1>9, <2>1
  <2>3. f = [i \in 0 .. n |-> f[i]]
    OBVIOUS
  <2> QED
    BY <2>2, <2>3
<1>11. acc = Body(acc)
  BY <1>10
<1> HIDE DEF acc
<1>12. DOMAIN acc = 0 .. n /\ acc[0] = base
  BY <1>4, <1>11
<1>13. \A i \in 1 .. n : acc[i] = Visit(acc[i - 1], list[i], name, curr)
  BY <1>4, <1>11
<1>14. acc \in [0 .. n -> ScanState]
  <2> DEFINE T == {i \in 0 .. n : acc[i] \in ScanState}
  <2>1. 0 \in T
    BY <1>4, <1>12
  <2>2. \A i \in 1 .. n : i - 1 \in T => i \in T
    BY <1>4, <1>5, <1>13
  <2> HIDE DEF T
  <2>3. \A i \in 0 .. n : i \in T
    BY <1>4, <2>1, <2>2, UpTo
  <2>4. acc = [i \in 0 .. n |-> acc[i]]
    BY <1>11
  <2> QED
    BY <2>3, <2>4 DEF T
<1>15. BinRun(acc, mdres, list, name, curr)
  BY <1>7, <1>12, <1>13, <1>14, <1>1, <1>2 DEF BinRun
<1> QED
  BY <1>15

(* The loop over a bin returns an entry or none. *)
LEMMA ScanBinFound ==
  ASSUME NEW list \in Seq(Entry), NEW mdres \in Found, NEW name, NEW curr
  PROVE  ScanBin(mdres, list, name, curr) \in Found
<1>1. PICK f : BinRun(f, mdres, list, name, curr)
  BY BinRuns
<1>2. f[Len(list)] \in ScanState /\ ScanBin(mdres, list, name, curr) = f[Len(list)].mdres
  BY <1>1 DEF BinRun
<1> QED
  BY <1>2 DEF ScanState

(* A list of entries of bin n. *)
OfBin(list, n) == list \in Seq(Entry) /\ \A e \in Range(list) : e.version % size_hash = n

(* What the loop over a bin may return. *)
LowestNewer(r, mdres, list, name, curr) ==
  /\ r \in Range(list) \cup {mdres}
  /\ r # None => IsNewer(r, name, curr)
  /\ mdres # None => r # None /\ r.version <= mdres.version
  /\ \A e \in Range(list) : IsNewer(e, name, curr) => r # None /\ r.version <= e.version

(* The lowest newer entry of a bin, or a lower one that was found before:  *)
(* when the loop breaks, nothing lower is left in the bin.                 *)
LEMMA ScanBinResult ==
  ASSUME NEW list, NEW n, OfBin(list, n), NEW mdres \in Found, NEW name, NEW curr \in Int,
         mdres # None => IsNewer(mdres, name, curr)
  PROVE  LowestNewer(ScanBin(mdres, list, name, curr), mdres, list, name, curr)
<1> SUFFICES ASSUME NEW r, r = ScanBin(mdres, list, name, curr)
             PROVE  LowestNewer(r, mdres, list, name, curr)
  OBVIOUS
<1> USE DEF OfBin
<1> DEFINE len == Len(list)
<1>1. PICK f \in [0 .. len -> ScanState] :
        /\ f[0] = [mdres |-> mdres, stop |-> FALSE]
        /\ \A i \in 1 .. len : f[i] = Visit(f[i - 1], list[i], name, curr)
        /\ r = f[len].mdres
  <2>1. PICK f : BinRun(f, mdres, list, name, curr)
    BY BinRuns
  <2> QED
    BY <2>1 DEF BinRun
<1>2. len \in Nat /\ Range(list) = {list[i] : i \in 1 .. len}
  BY DEF Range
<1>3. \A i \in 1 .. len : list[i] \in Entry /\ list[i] \in Range(list)
  BY <1>2
<1>4. \A e \in Entry : e.version \in Nat /\ e # None
  BY MetaAssumption, NoneAssumption DEF Entry
<1> HIDE DEF len
<1> DEFINE Good(k) ==
             LET m == f[k].mdres IN
             /\ m \in Range(list) \cup {mdres}
             /\ m # None => IsNewer(m, name, curr)
             /\ mdres # None => m # None /\ m.version <= mdres.version
             /\ f[k].stop => m # None /\ m \in Range(list) /\ m.version < curr + size_hash
             /\ \A j \in 1 .. k : IsNewer(list[j], name, curr) =>
                                    m # None /\ m.version <= list[j].version
           T == {k \in 0 .. len : Good(k)}
<1>5. Good(0)
  <2>1. f[0].mdres = mdres /\ f[0].stop = FALSE
    BY <1>1
  <2>2. mdres # None => mdres.version <= mdres.version
    BY <1>4 DEF Found
  <2> QED
    BY <2>1, <2>2
<1>6. ASSUME NEW k \in 1 .. len, Good(k - 1)
      PROVE  Good(k)
  <2> DEFINE m == f[k - 1].mdres
             e == list[k]
  <2>1. k - 1 \in 0 .. len /\ f[k - 1] \in ScanState /\ m \in Found /\ f[k - 1].stop \in BOOLEAN
    BY <1>2 DEF ScanState
  <2>2. e \in Entry /\ e \in Range(list) /\ e.version \in Nat
    BY <1>3, <1>4
  <2>3. f[k] = Visit(f[k - 1], e, name, curr)
    BY <1>1
  <2>4. \A j \in 1 .. k : j = k \/ j \in 1 .. k - 1
    OBVIOUS
  <2>5. m # None => m.version \in Nat
    BY <1>4, <2>1 DEF Found
  <2>6. CASE ~ f[k - 1].stop /\ IsNewer(e, name, curr) /\ (m = None \/ e.version < m.version)
    <3>1. f[k] = [mdres |-> e, stop |-> e.version < curr + size_hash]
      BY <2>3, <2>6 DEF Visit, IsNewer
    <3>2. f[k].mdres = e /\ (f[k].stop => e.version < curr + size_hash)
      <4>1. CASE e.version < curr + size_hash
        BY <3>1, <4>1
      <4>2. CASE ~ (e.version < curr + size_hash)
        <5>1. (e.version < curr + size_hash) = FALSE
          BY <2>2, <4>2, MetaAssumption
        <5>2. f[k] = [mdres |-> e, stop |-> FALSE]
          BY <3>1, <5>1, Zenon
        <5> QED
          BY <5>2
      <4> QED
        BY <4>1, <4>2
    <3>3. mdres # None => e.version <= mdres.version
      <4>1. mdres # None => m # None /\ m.version <= mdres.version /\ mdres.version \in Nat
        BY <1>4, <1>6 DEF Found
      <4> QED
        BY <2>2, <2>5, <2>6, <4>1
    <3>4. ASSUME NEW j \in 1 .. k, IsNewer(list[j], name, curr)
          PROVE  e.version <= list[j].version
      <4>1. CASE j = k
        BY <2>2, <4>1
      <4>2. CASE j \in 1 .. k - 1
        <5>1. m # None /\ m.version <= list[j].version
          BY <1>6, <3>4, <4>2
        <5>2. list[j].version \in Nat
          <6>1. j \in 1 .. len
            BY <1>2, <4>2
          <6> QED
            BY <1>3, <1>4, <6>1
        <5> QED
          BY <2>2, <2>5, <2>6, <5>1, <5>2
      <4> QED
        BY <2>4, <4>1, <4>2
    <3> QED
      BY <1>4, <2>2, <2>6, <3>2, <3>3, <3>4
  <2>7. CASE ~ (~ f[k - 1].stop /\ IsNewer(e, name, curr) /\ (m = None \/ e.version < m.version))
    <3>1. f[k] = f[k - 1]
      BY <2>3, <2>7 DEF Visit, IsNewer
    <3>2. ASSUME IsNewer(e, name, curr)
          PROVE  m # None /\ m.version <= e.version
      <4>1. CASE f[k - 1].stop
        <5>1. /\ m # None /\ m \in Range(list) /\ m.version < curr + size_hash
              /\ IsNewer(m, name, curr)
          BY <1>6, <4>1
        <5>2. m.version % size_hash = e.version % size_hash
          BY <2>2, <5>1
        <5>3. m.version > curr /\ e.version > curr
          BY <3>2, <5>1 DEF IsNewer
        <5> QED
          BY <2>2, <2>5, <5>1, <5>2, <5>3, SameBin
      <4>2. CASE ~ f[k - 1].stop
        BY <2>2, <2>5, <2>7, <3>2, <4>2
      <4> QED
        BY <4>1, <4>2
    <3>3. \A j \in 1 .. k : IsNewer(list[j], name, curr) => m # None /\ m.version <= list[j].version
      BY <1>6, <2>4, <3>2
    <3> QED
      BY <1>6, <3>1, <3>3
  <2> QED
    BY <2>6, <2>7
<1> HIDE DEF Good
<1>7. 0 \in T /\ \A k \in 1 .. len : k - 1 \in T => k \in T
  BY <1>2, <1>5, <1>6
<1> HIDE DEF T
<1>8. \A k \in 0 .. len : k \in T
  BY <1>2, <1>7, UpTo
<1>9. Good(len)
  BY <1>2, <1>8 DEF T
<1> QED
  BY <1>1, <1>2, <1>9 DEF Good, LowestNewer

-----------------------------------------------------------------------------
(* Every entry is in the bin of its version. *)
HashOK ==
  /\ meta_hash \in [0 .. size_hash - 1 -> Seq(Entry)]
  /\ \A n \in 0 .. size_hash - 1 : \A e \in Range(meta_hash[n]) : e.version % size_hash = n

(* The loop over the bins has a run. *)
LEMMA BinsRun ==
  ASSUME HashOK, NEW name, NEW curr \in Int, curr >= -1
  PROVE  \E f \in [0 .. size_hash -> Found] :
           /\ f[0] = None
           /\ \A i \in 1 .. size_hash :
                f[i] = ScanBin(f[i - 1], meta_hash[BinVisited(curr, i - 1)], name, curr)
           /\ NextEntry(name, curr) = f[size_hash]
<1>1. PICK n \in Nat : n = size_hash /\ n > 0
  BY MetaAssumption
<1>2. PICK list \in [1 .. n -> Seq(Entry)] :
        \A i \in 1 .. n : list[i] = meta_hash[BinVisited(curr, i - 1)]
  <2> DEFINE l == [i \in 1 .. n |-> meta_hash[BinVisited(curr, i - 1)]]
  <2>1. \A i \in 1 .. n : BinVisited(curr, i - 1) \in 0 .. size_hash - 1
    <3> TAKE i \in 1 .. n
    <3>1. curr + (i - 1) + 1 \in Nat
      BY <1>1
    <3> QED
      BY <3>1, Quotient DEF BinVisited
  <2>2. l \in [1 .. n -> Seq(Entry)]
    BY <2>1 DEF HashOK
  <2> QED
    BY <2>2
<1>3. PICK turn : turn = [i \in 1 .. n |-> [x \in Found |-> ScanBin(x, list[i], name, curr)]]
  OBVIOUS
<1> DEFINE Body(f) == [i \in 0 .. n |-> IF i = 0 THEN None
                                        ELSE ScanBin(f[i - 1], list[i], name, curr)]
           BodyH(f) == [i \in 0 .. size_hash |->
                          IF i = 0 THEN None
                          ELSE ScanBin(f[i - 1], meta_hash[BinVisited(curr, i - 1)], name, curr)]
<1>4. \A f : BodyH(f) = Body(f)
  <2>1. \A i \in 0 .. n : i # 0 => i \in 1 .. n
    OBVIOUS
  <2> QED
    BY <1>1, <1>2, <2>1
<1>5. PICK acc : /\ NextEntry(name, curr) = acc[n]
                 /\ acc = CHOOSE f : f = BodyH(f)
  BY <1>1 DEF NextEntry
<1>6. ASSUME NEW x \in Found, NEW q \in Seq(Entry)
      PROVE  ScanBin(x, q, name, curr) \in Found
  BY <1>6, ScanBinFound
<1>7. Loop(turn, n, Found) /\ None \in Found
  BY <1>3, <1>6 DEF Loop, Found
<1>8. PICK f : Run(f, None, turn, n, Found)
  BY <1>7, LoopRuns
<1>9. f \in [0 .. n -> Found] /\ f[0] = None
  BY <1>8 DEF Run
<1>10. \A i \in 1 .. n : f[i] = ScanBin(f[i - 1], list[i], name, curr)
  <2> TAKE i \in 1 .. n
  <2>1. f[i - 1] \in Found
    BY <1>9
  <2> QED
    BY <1>3, <1>8, <2>1 DEF Run
<1>11. f = Body(f)
  <2>1. \A i \in 0 .. n : i # 0 => i \in 1 .. n
    OBVIOUS
  <2>2. \A i \in 0 .. n : f[i] = Body(f)[i]
    BY <1>9, <1>10, <2>1
  <2>3. f = [i \in 0 .. n |-> f[i]]
    BY <1>9
  <2> QED
    BY <2>2, <2>3
<1>12. f = BodyH(f)
  BY <1>4, <1>11, Zenon
<1>13. acc = BodyH(acc)
  BY <1>5, <1>12
<1>14. acc = Body(acc)
  BY <1>4, <1>13, Zenon
<1>15. acc[0] = None /\ \A i \in 1 .. n : acc[i] = ScanBin(acc[i - 1], list[i], name, curr)
  BY <1>14
<1>16. acc \in [0 .. n -> Found]
  <2> DEFINE T == {i \in 0 .. n : acc[i] \in Found}
  <2>1. 0 \in T
    BY <1>7, <1>15
  <2>2. \A i \in 1 .. n : i - 1 \in T => i \in T
    BY <1>6, <1>15
  <2> HIDE DEF T
  <2>3. \A i \in 0 .. n : i \in T
    BY <2>1, <2>2, UpTo
  <2>4. acc = [i \in 0 .. n |-> acc[i]]
    BY <1>14
  <2> QED
    BY <2>3, <2>4 DEF T
<1> QED
  BY <1>1, <1>2, <1>5, <1>15, <1>16

(* meta_find_next_entry returns the lowest of all the newer entries, and   *)
(* nothing only when there is none.                                        *)
LEMMA NextEntryResult ==
  ASSUME HashOK, NEW name, NEW curr \in Int, curr >= -1
  PROVE  /\ NextEntry(name, curr) = None <=> Newer(name, curr) = {}
         /\ NextEntry(name, curr) # None =>
              /\ NextEntry(name, curr) \in Newer(name, curr)
              /\ \A e \in Newer(name, curr) : NextEntry(name, curr).version <= e.version
<1>1. PICK f \in [0 .. size_hash -> Found] :
        /\ f[0] = None
        /\ \A i \in 1 .. size_hash :
             f[i] = ScanBin(f[i - 1], meta_hash[BinVisited(curr, i - 1)], name, curr)
        /\ NextEntry(name, curr) = f[size_hash]
  BY BinsRun
<1>2. size_hash \in Nat /\ size_hash > 0
  BY MetaAssumption
<1>3. \A i \in 1 .. size_hash : BinVisited(curr, i - 1) \in 0 .. size_hash - 1
  <2> TAKE i \in 1 .. size_hash
  <2>1. curr + (i - 1) + 1 \in Nat
    BY <1>2
  <2> QED
    BY <2>1, Quotient DEF BinVisited
<1>4. \A e \in Entry : e.version \in Nat /\ e # None
  BY MetaAssumption, NoneAssumption DEF Entry
<1>5. \A n \in 0 .. size_hash - 1 : /\ meta_hash[n] \in Seq(Entry)
                                    /\ Range(meta_hash[n]) \subseteq Entry
                                    /\ Range(meta_hash[n]) \subseteq Stored
  BY DEF HashOK, Range, Stored
<1> DEFINE Bin(i) == Range(meta_hash[BinVisited(curr, i - 1)])
           Good(k) ==
             /\ f[k] # None => f[k] \in Stored /\ IsNewer(f[k], name, curr)
             /\ \A i \in 1 .. k : \A e \in Bin(i) :
                  IsNewer(e, name, curr) => f[k] # None /\ f[k].version <= e.version
           T == {k \in 0 .. size_hash : Good(k)}
<1>6. Good(0)
  BY <1>1
<1>7. ASSUME NEW k \in 1 .. size_hash, Good(k - 1)
      PROVE  Good(k)
  <2>1. k - 1 \in 0 .. size_hash /\ f[k - 1] \in Found /\ f[k] \in Found
    BY <1>2
  <2>2. PICK n \in 0 .. size_hash - 1 : n = BinVisited(curr, k - 1)
    BY <1>3
  <2>3. OfBin(meta_hash[n], n) /\ f[k] = ScanBin(f[k - 1], meta_hash[n], name, curr)
    BY <1>1, <1>5, <2>2 DEF HashOK, OfBin
  <2>4. /\ f[k] \in Range(meta_hash[n]) \cup {f[k - 1]}
        /\ f[k] # None => IsNewer(f[k], name, curr)
        /\ f[k - 1] # None => f[k] # None /\ f[k].version <= f[k - 1].version
        /\ \A e \in Range(meta_hash[n]) :
             IsNewer(e, name, curr) => f[k] # None /\ f[k].version <= e.version
    <3>1. f[k - 1] # None => IsNewer(f[k - 1], name, curr)
      BY <1>7
    <3>2. LowestNewer(f[k], f[k - 1], meta_hash[n], name, curr)
      BY <2>1, <2>3, <3>1, ScanBinResult
    <3> QED
      BY <3>2 DEF LowestNewer
  <2>5. f[k] # None => f[k] \in Stored
    BY <1>5, <1>7, <2>2, <2>4
  <2>6. ASSUME NEW i \in 1 .. k, NEW e \in Bin(i), IsNewer(e, name, curr)
        PROVE  f[k] # None /\ f[k].version <= e.version
    <3>1. CASE i = k
      BY <2>2, <2>4, <2>6, <3>1
    <3>2. CASE i # k
      <4>1. i \in 1 .. k - 1 /\ i \in 1 .. size_hash
        BY <1>2, <3>2
      <4>2. f[k - 1] # None /\ f[k - 1].version <= e.version
        BY <1>7, <2>6, <4>1
      <4>3. e.version \in Nat
        BY <1>3, <1>4, <1>5, <2>6, <4>1
      <4>4. f[k].version \in Nat /\ f[k - 1].version \in Nat
        BY <1>4, <2>1, <2>4, <4>2 DEF Found
      <4> QED
        BY <2>4, <4>2, <4>3, <4>4
    <3> QED
      BY <3>1, <3>2
  <2> QED
    BY <2>4, <2>5, <2>6
<1> HIDE DEF Good
<1>8. 0 \in T /\ \A k \in 1 .. size_hash : k - 1 \in T => k \in T
  BY <1>2, <1>6, <1>7
<1> HIDE DEF T
<1>9. \A k \in 0 .. size_hash : k \in T
  BY <1>2, <1>8, UpTo
<1>10. Good(size_hash)
  BY <1>2, <1>9 DEF T
<1>11. ASSUME NEW e \in Newer(name, curr)
       PROVE  f[size_hash] # None /\ f[size_hash].version <= e.version
  <2>1. PICK n \in 0 .. size_hash - 1 : e \in Range(meta_hash[n])
    BY DEF Newer, Stored, HashOK
  <2>2. PICK i \in 1 .. size_hash : BinVisited(curr, i - 1) = n
    BY EveryBin DEF BinVisited
  <2>3. IsNewer(e, name, curr)
    BY DEF Newer, IsNewer
  <2> QED
    BY <1>10, <2>1, <2>2, <2>3 DEF Good
<1>12. f[size_hash] # None => f[size_hash] \in Newer(name, curr)
  BY <1>10 DEF Good, Newer, IsNewer
<1> QED
  BY <1>1, <1>11, <1>12

-----------------------------------------------------------------------------
(* The inductive invariant. *)

Types ==
  /\ ls_mutex \in Writer \cup {None}
  /\ wpc \in [Writer -> {"idle", "check", "add", "notify"}]
  /\ wput \in [Writer -> Found]
  /\ \A w \in Writer : wpc[w] # "idle" => wput[w] \in Entry
  /\ cpc \in [Client -> {"idle", "wait", "woken", "last", "done"}]
  /\ req \in [Client -> Request \cup {None}]
  /\ mdata \in [Client -> Found]
  /\ reply \in [Client -> Found]
  /\ seen \in [Client -> SUBSET Entry]

(* One put at a time has ls_mutex, and its duplicate check still holds     *)
(* when it inserts.                                                        *)
Serial ==
  /\ \A w \in Writer : wpc[w] # "idle" => ls_mutex = w
  /\ \A w \in Writer : wpc[w] = "add" => wput[w] \notin Stored

(* A reader that waits or looks for the last version. *)
ReaderSound ==
  /\ subs \subseteq {c \in Client : cpc[c] \in {"wait", "woken"}}
  /\ \A c \in Client : cpc[c] = "idle" => mdata[c] = None /\ reply[c] = None
  /\ \A c \in Client :
       cpc[c] \in {"wait", "woken", "last"} => req[c] \in Request /\ req[c].mode # "SPEC"
  /\ \A c \in Client :
       cpc[c] = "last" => mdata[c] # None /\ req[c].mode = "LAST"
  /\ \A c \in Client : \A e \in seen[c] : e \in Stored /\ e.name = req[c].name

IndInv ==
  /\ HashOK /\ Types /\ Serial /\ OneEntryPerVersion
  /\ ReaderSound /\ NoLostNotification /\ LastIsLatest

(* What the steps that leave the store alone do not change. *)
LEMMA SameStore ==
  ASSUME HashOK, OneEntryPerVersion, meta_hash' = meta_hash
  PROVE  /\ HashOK' /\ OneEntryPerVersion' /\ Stored' = Stored
         /\ \A name, curr : Newer(name, curr)' = Newer(name, curr)
  BY DEF HashOK, OneEntryPerVersion, Stored, Newer

(* An entry that ls_find_meta does not find is not stored. *)
LEMMA NotFound ==
  ASSUME HashOK, NEW e \in Entry, ls_find_meta(e.name, e.version) = {}
  PROVE  e \notin Stored
<1> SUFFICES ASSUME NEW n \in 0 .. size_hash - 1, e \in Range(meta_hash[n])
             PROVE  FALSE
  BY DEF Stored, HashOK
<1>1. e \in Range(meta_hash[e.version % size_hash])
  BY DEF HashOK
<1> QED
  BY <1>1 DEF ls_find_meta

(* No entry is in a list twice. *)
Distinct(list) == \A i, j \in DOMAIN list : list[i] = list[j] => i = j

(* A list with a new head. *)
LEMMA Prepend ==
  ASSUME NEW S, NEW list \in Seq(S), NEW e \in S
  PROVE  /\ <<e>> \o list \in Seq(S)
         /\ Range(<<e>> \o list) = {e} \cup Range(list)
         /\ e \notin Range(list) /\ Distinct(list) => Distinct(<<e>> \o list)
<1>1. PICK l : l = <<e>> \o list
  OBVIOUS
<1>2. PICK n \in Nat : n = Len(list)
  OBVIOUS
<1>3. /\ l \in Seq(S) /\ Len(l) = n + 1 /\ DOMAIN l = 1 .. n + 1 /\ DOMAIN list = 1 .. n
      /\ l[1] = e
  BY <1>1, <1>2
<1>4. \A i \in 1 .. n : l[i + 1] = list[i]
  BY <1>1, <1>2
<1>5. \A i \in 1 .. n + 1 : i # 1 => i - 1 \in 1 .. n /\ l[i] = list[i - 1]
  <2> SUFFICES ASSUME NEW i \in 1 .. n + 1, i # 1
               PROVE  i - 1 \in 1 .. n /\ l[i] = list[i - 1]
    OBVIOUS
  <2>1. i - 1 \in 1 .. n /\ (i - 1) + 1 = i
    OBVIOUS
  <2> QED
    BY <1>4, <2>1
<1>6. Range(l) = {e} \cup Range(list)
  <2>1. Range(l) = {l[i] : i \in 1 .. n + 1} /\ Range(list) = {list[i] : i \in 1 .. n}
    BY <1>3 DEF Range
  <2>2. \A x \in Range(l) : x = e \/ x \in Range(list)
    BY <1>3, <1>5, <2>1
  <2>3. \A i \in 1 .. n : i + 1 \in 1 .. n + 1
    OBVIOUS
  <2>4. \A x \in Range(list) : x \in Range(l)
    BY <1>4, <2>1, <2>3
  <2>5. 1 \in 1 .. n + 1
    OBVIOUS
  <2>6. e \in Range(l)
    BY <1>3, <2>1, <2>5
  <2> QED
    BY <2>2, <2>4, <2>6
<1>7. ASSUME e \notin Range(list), \A i, j \in 1 .. n : list[i] = list[j] => i = j,
             NEW i \in 1 .. n + 1, NEW j \in 1 .. n + 1, l[i] = l[j]
      PROVE  i = j
  <2>1. \A k \in 1 .. n : list[k] # e
    BY <1>3, <1>7 DEF Range
  <2> QED
    BY <1>3, <1>5, <1>7, <2>1
<1> QED
  BY <1>1, <1>3, <1>6, <1>7 DEF Distinct

(* The insertion of an entry in the bin of its version. *)
LEMMA Inserted ==
  ASSUME HashOK, NEW e \in Entry,
         meta_hash' = [meta_hash EXCEPT ![e.version % size_hash] = <<e>> \o @]
  PROVE  /\ HashOK'
         /\ Stored' = Stored \cup {e}
         /\ e \notin Stored /\ OneEntryPerVersion => OneEntryPerVersion'
<1>1. PICK n \in 0 .. size_hash - 1 : n = e.version % size_hash
  BY MetaAssumption, Quotient DEF Entry
<1>2. PICK old \in Seq(Entry) : old = meta_hash[n]
  BY DEF HashOK
<1>3. PICK new \in Seq(Entry) :
        /\ new = <<e>> \o old
        /\ Range(new) = {e} \cup Range(old)
        /\ e \notin Range(old) /\ Distinct(old) => Distinct(new)
  BY Prepend
<1>4. meta_hash' = [meta_hash EXCEPT ![n] = new]
  BY <1>1, <1>2, <1>3
<1>5. /\ DOMAIN meta_hash = 0 .. size_hash - 1 /\ DOMAIN meta_hash' = 0 .. size_hash - 1
      /\ meta_hash'[n] = new
      /\ \A m \in 0 .. size_hash - 1 : m # n => meta_hash'[m] = meta_hash[m]
  BY <1>4 DEF HashOK
<1>6. HashOK'
  <2>1. meta_hash' \in [0 .. size_hash - 1 -> Seq(Entry)]
    BY <1>4 DEF HashOK
  <2>2. ASSUME NEW m \in 0 .. size_hash - 1, NEW f \in Range(meta_hash'[m])
        PROVE  f.version % size_hash = m
    <3>1. CASE m = n
      BY <1>1, <1>2, <1>3, <1>5, <2>2, <3>1 DEF HashOK
    <3>2. CASE m # n
      BY <1>5, <2>2, <3>2 DEF HashOK
    <3> QED
      BY <3>1, <3>2
  <2> QED
    BY <2>1, <2>2 DEF HashOK
<1>7. Stored' = Stored \cup {e}
  <2>1. \A f : f \in Stored <=> \E m \in 0 .. size_hash - 1 : f \in Range(meta_hash[m])
    BY <1>5 DEF Stored
  <2>2. \A f : f \in Stored' <=> \E m \in 0 .. size_hash - 1 : f \in Range(meta_hash'[m])
    BY <1>5 DEF Stored
  <2>3. ASSUME NEW f \in Stored'
        PROVE  f \in Stored \cup {e}
    BY <1>2, <1>3, <1>5, <2>1, <2>2
  <2>4. ASSUME NEW f \in Stored \cup {e}
        PROVE  f \in Stored'
    BY <1>2, <1>3, <1>5, <2>1, <2>2
  <2> QED
    BY <2>3, <2>4
<1>8. ASSUME e \notin Stored, OneEntryPerVersion
      PROVE  OneEntryPerVersion'
  <2>1. e \notin Range(old)
    BY <1>2, <1>5, <1>8 DEF Stored
  <2>2. \A i, j \in DOMAIN new : new[i] = new[j] => i = j
    BY <1>2, <1>3, <1>5, <1>8, <2>1 DEF OneEntryPerVersion, Distinct
  <2> SUFFICES ASSUME NEW m \in 0 .. size_hash - 1,
                      NEW i \in DOMAIN meta_hash'[m], NEW j \in DOMAIN meta_hash'[m],
                      meta_hash'[m][i] = meta_hash'[m][j]
               PROVE  i = j
    BY <1>5 DEF OneEntryPerVersion
  <2>3. CASE m = n
    BY <1>5, <2>2, <2>3
  <2>4. CASE m # n
    BY <1>5, <1>8, <2>4 DEF OneEntryPerVersion
  <2> QED
    BY <2>3, <2>4
<1> QED
  BY <1>6, <1>7, <1>8

-----------------------------------------------------------------------------
(* The writers. *)

(* put_meta_rpc takes ls_mutex: no other put is between its stages. *)
LEMMA PutMetaStep ==
  ASSUME IndInv, NEW w \in Writer, NEW e \in Entry, PutMeta(w, e)
  PROVE  IndInv'
<1> USE DEF IndInv, PutMeta, TakeMutex, readers
<1>1. HashOK' /\ OneEntryPerVersion' /\ Stored' = Stored
  BY SameStore
<1>2. \A name, curr : Newer(name, curr)' = Newer(name, curr)
  BY SameStore
<1>3. Types'
  BY DEF Types, Found
<1>4. Serial'
  BY <1>1, NoneAssumption DEF Serial, Types
<1>5. ReaderSound' /\ UnlinkedHasEntry' /\ LastIsLatest'
  BY <1>1 DEF ReaderSound, NoLostNotification, UnlinkedHasEntry, LastIsLatest
<1>6. PendingNotification'
  BY <1>2 DEF PendingNotification, NoLostNotification, Types
<1> QED
  BY <1>1, <1>3, <1>4, <1>5, <1>6 DEF NoLostNotification

(* The duplicate check: an entry that it lets through is not stored. *)
LEMMA CheckDuplicateStep ==
  ASSUME IndInv, NEW w \in Writer, CheckDuplicate(w)
  PROVE  IndInv'
<1> USE DEF IndInv, CheckDuplicate, PutMetaEnd, readers
<1>1. HashOK' /\ OneEntryPerVersion' /\ Stored' = Stored
  BY SameStore
<1>2. \A name, curr : Newer(name, curr)' = Newer(name, curr)
  BY SameStore
<1>3. Types'
  BY DEF Types, Found
<1>4. Serial'
  <2>1. CASE ls_find_meta(wput[w].name, wput[w].version) = {}
    <3>1. wput[w] \in Entry
      BY DEF Types
    <3>2. wput[w] \notin Stored
      BY <2>1, <3>1, NotFound
    <3>3. wpc' = [wpc EXCEPT ![w] = "add"] /\ ls_mutex' = ls_mutex /\ wput' = wput
      BY <2>1
    <3> QED
      BY <1>1, <3>2, <3>3 DEF Serial, Types
  <2>2. CASE ls_find_meta(wput[w].name, wput[w].version) # {}
    <3>1. \A v \in Writer : wpc[v] # "idle" => v = w
      BY DEF Serial
    <3>2. \A v \in Writer : wpc'[v] = "idle"
      BY <2>2, <3>1 DEF Types
    <3> QED
      BY <3>2 DEF Serial
  <2> QED
    BY <2>1, <2>2
<1>5. ReaderSound' /\ UnlinkedHasEntry' /\ LastIsLatest'
  BY <1>1 DEF ReaderSound, NoLostNotification, UnlinkedHasEntry, LastIsLatest
<1>6. PendingNotification'
  <2>1. \A v \in Writer : wpc[v] = "notify" => wpc'[v] = "notify" /\ wput'[v] = wput[v]
    BY DEF Types
  <2> QED
    BY <1>2, <2>1 DEF PendingNotification, NoLostNotification
<1> QED
  BY <1>1, <1>3, <1>4, <1>5, <1>6 DEF NoLostNotification

(* The insertion: readers that wait for the entry are still to be          *)
(* notified by the put that inserted it.                                   *)
LEMMA AddMetaStep ==
  ASSUME IndInv, NEW w \in Writer, AddMeta(w)
  PROVE  IndInv'
<1> USE DEF IndInv, AddMeta, readers
<1>1. wput[w] \in Entry /\ wput[w] \notin Stored
  BY DEF Types, Serial
<1>2. HashOK' /\ OneEntryPerVersion' /\ Stored' = Stored \cup {wput[w]}
  BY <1>1, Inserted
<1>3. Types'
  BY DEF Types
<1>4. Serial'
  <2>1. \A v \in Writer : wpc[v] # "idle" => v = w
    BY DEF Serial
  <2> QED
    BY <2>1 DEF Serial, Types
<1>5. ReaderSound' /\ UnlinkedHasEntry' /\ LastIsLatest'
  BY <1>2 DEF ReaderSound, NoLostNotification, UnlinkedHasEntry, LastIsLatest
<1>6. PendingNotification'
  <2> SUFFICES ASSUME NEW c \in Client, c \in subs,
                      NEW f \in Newer(req[c].name, req[c].curr)'
               PROVE  \E v \in Writer : wpc'[v] = "notify" /\ wput'[v] = f
    BY DEF PendingNotification
  <2>1. CASE f = wput[w]
    BY <2>1 DEF Types
  <2>2. CASE f # wput[w]
    <3>1. f \in Newer(req[c].name, req[c].curr)
      BY <1>2, <2>2 DEF Newer
    <3>2. PICK v \in Writer : wpc[v] = "notify" /\ wput[v] = f
      BY <3>1 DEF NoLostNotification, PendingNotification
    <3> QED
      BY <3>2 DEF Types
  <2> QED
    BY <2>1, <2>2
<1> QED
  BY <1>2, <1>3, <1>4, <1>5, <1>6 DEF NoLostNotification

(* The notification reaches every reader that waits for the name. *)
LEMMA NotifyStep ==
  ASSUME IndInv, NEW w \in Writer, Notify(w)
  PROVE  IndInv'
<1> USE DEF IndInv, Notify, PutMetaEnd
<1>1. HashOK' /\ OneEntryPerVersion' /\ Stored' = Stored
  BY SameStore
<1>2. \A name, curr : Newer(name, curr)' = Newer(name, curr)
  BY SameStore
<1>3. wput[w] \in Entry /\ wput[w] # None
  BY NoneAssumption DEF Types
<1>4. PICK hit \in SUBSET Client : hit = Hit(wput[w])
  BY DEF Hit, ReaderSound
<1>5. /\ hit = {c \in subs : req[c].name = wput[w].name}
      /\ subs' = subs \ hit
      /\ cpc' = [c \in Client |-> IF hit # {} /\ cpc[c] = "wait" THEN "woken" ELSE cpc[c]]
      /\ mdata' = [c \in Client |-> IF c \in hit THEN wput[w] ELSE mdata[c]]
  BY <1>4 DEF Hit, WokenReaders
<1>6. Types'
  BY <1>3, <1>5 DEF Types, Found
<1>7. Serial'
  <2>1. \A v \in Writer : wpc[v] # "idle" => v = w
    BY DEF Serial
  <2> QED
    BY <2>1 DEF Serial, Types
<1>8. ReaderSound'
  BY <1>1, <1>3, <1>5 DEF ReaderSound, Types
<1>9. LastIsLatest'
  BY <1>5 DEF LastIsLatest, Types
<1>10. UnlinkedHasEntry'
  <2> SUFFICES ASSUME NEW c \in Client, cpc'[c] \in {"wait", "woken"}
               PROVE  /\ c \in subs' <=> mdata'[c] = None
                      /\ cpc'[c] = "wait" => c \in subs'
    BY DEF UnlinkedHasEntry
  <2>1. /\ cpc[c] \in {"wait", "woken"}
        /\ c \in subs <=> mdata[c] = None
        /\ cpc[c] = "wait" => c \in subs
    BY <1>5 DEF NoLostNotification, UnlinkedHasEntry
  <2> QED
    BY <1>3, <1>5, <2>1
<1>11. PendingNotification'
  <2> SUFFICES ASSUME NEW c \in Client, c \in subs',
                      NEW f \in Newer(req[c].name, req[c].curr)
               PROVE  \E v \in Writer : wpc'[v] = "notify" /\ wput'[v] = f
    BY <1>2 DEF PendingNotification
  <2>1. c \in subs /\ req[c].name # wput[w].name /\ f.name = req[c].name
    BY <1>5 DEF Newer
  <2>2. PICK v \in Writer : wpc[v] = "notify" /\ wput[v] = f
    BY <2>1 DEF NoLostNotification, PendingNotification
  <2> QED
    BY <2>1, <2>2 DEF Types
<1> QED
  BY <1>1, <1>6, <1>7, <1>8, <1>9, <1>10, <1>11 DEF NoLostNotification

-----------------------------------------------------------------------------
(* The readers. *)

(* A reader's step keeps the parts of the invariant that are about puts. *)
LEMMA ReaderFrame ==
  ASSUME IndInv, UNCHANGED <<meta_hash, writers>>
  PROVE  /\ HashOK' /\ OneEntryPerVersion' /\ Serial' /\ Stored' = Stored
         /\ \A name, curr : Newer(name, curr)' = Newer(name, curr)
<1>1. HashOK' /\ OneEntryPerVersion' /\ Stored' = Stored
  BY SameStore DEF IndInv
<1>2. \A name, curr : Newer(name, curr)' = Newer(name, curr)
  BY SameStore DEF IndInv
<1>3. Serial'
  BY <1>1 DEF IndInv, Serial, writers
<1> QED
  BY <1>1, <1>2, <1>3

(* The version a reader starts from. *)
LEMMA RequestCurr ==
  ASSUME NEW q \in Request
  PROVE  q.curr \in Int /\ q.curr >= -1 /\ q.mode \in {"SPEC", "NEXT", "LAST"}
<1>1. q.curr \in Version \cup {-1} /\ q.mode \in {"SPEC", "NEXT", "LAST"}
  BY DEF Request
<1>2. \A v \in Version \cup {-1} : v \in Int /\ v >= -1
  BY MetaAssumption
<1> QED
  BY <1>1, <1>2

(* What is stored, and so what the scan returns, is an entry. *)
LEMMA StoredEntry ==
  ASSUME HashOK
  PROVE  Stored \subseteq Entry /\ \A name, curr : Newer(name, curr) \subseteq Entry
  BY DEF HashOK, Stored, Newer, Range

(* META_MODE_SPEC answers at once. *)
LEMMA QuerySpecStep ==
  ASSUME IndInv, NEW c \in Client, NEW q \in Request, QuerySpec(c, q)
  PROVE  IndInv'
<1> USE DEF IndInv, QuerySpec, Receive
<1>1. HashOK' /\ OneEntryPerVersion' /\ Serial' /\ Stored' = Stored
  BY ReaderFrame
<1>2. \A name, curr : Newer(name, curr)' = Newer(name, curr)
  BY ReaderFrame
<1>3. PICK r \in Found : AnswerQuery(c, r)
  <2>1. ls_find_meta(q.name, q.curr) \subseteq Entry
    <3>1. q.curr % size_hash \in 0 .. size_hash - 1
      BY MetaAssumption, Quotient DEF Request
    <3> QED
      BY <3>1 DEF ls_find_meta, HashOK, Range
  <2>2. PICK found \in SUBSET Entry : found = ls_find_meta(q.name, q.curr)
    BY <2>1
  <2>3. AnswerQuery(c, IF found = {} THEN None ELSE CHOOSE e \in found : TRUE)
    BY <2>2
  <2>4. (IF found = {} THEN None ELSE CHOOSE e \in found : TRUE) \in Found
    BY DEF Found
  <2> QED
    BY <2>3, <2>4
<1>4. /\ cpc[c] = "idle" /\ c \notin subs /\ q.mode = "SPEC"
      /\ req' = [req EXCEPT ![c] = q] /\ seen' = [seen EXCEPT ![c] = {}]
      /\ UNCHANGED <<meta_hash, writers, subs>>
  BY DEF ReaderSound
<1> HIDE DEF QuerySpec
<1>5. Types'
  BY <1>3, <1>4 DEF Types, AnswerQuery, writers, Found
<1>6. ReaderSound'
  BY <1>1, <1>3, <1>4 DEF ReaderSound, AnswerQuery, Types
<1>7. LastIsLatest'
  BY <1>3, <1>4 DEF LastIsLatest, AnswerQuery, Types
<1>8. UnlinkedHasEntry'
  BY <1>3, <1>4 DEF NoLostNotification, UnlinkedHasEntry, AnswerQuery, Types
<1>9. PendingNotification'
  BY <1>2, <1>3, <1>4 DEF NoLostNotification, PendingNotification, writers, Types
<1> QED
  BY <1>1, <1>5, <1>6, <1>7, <1>8, <1>9 DEF NoLostNotification

(* A reader subscribes only if the scan has found nothing, that is, if     *)
(* there is no newer entry.                                                *)
LEMMA QueryNextStep ==
  ASSUME IndInv, NEW c \in Client, NEW q \in Request, QueryNext(c, q)
  PROVE  IndInv'
<1> USE DEF IndInv, QueryNext, Receive
<1>1. HashOK' /\ OneEntryPerVersion' /\ Serial' /\ Stored' = Stored
  BY ReaderFrame
<1>2. \A name, curr : Newer(name, curr)' = Newer(name, curr)
  BY ReaderFrame
<1>3. PICK r : r = NextEntry(q.name, q.curr)
  OBVIOUS
<1>4. /\ r = None <=> Newer(q.name, q.curr) = {}
      /\ r # None => r \in Entry
  BY <1>3, NextEntryResult, RequestCurr, StoredEntry
<1>5. PICK old \in SUBSET Entry :
        /\ seen' = [seen EXCEPT ![c] = old]
        /\ \A e \in old : e \in Stored /\ e.name = q.name
  <2>1. PICK old : old = IF q.mode = "LAST" THEN {e \in Stored : e.name = q.name} ELSE {}
    OBVIOUS
  <2>2. old \in SUBSET Entry /\ \A e \in old : e \in Stored /\ e.name = q.name
    BY <2>1, StoredEntry
  <2>3. seen' = [seen EXCEPT ![c] = old]
    BY <2>1
  <2> QED
    BY <2>2, <2>3
<1>6. cpc[c] = "idle" /\ c \notin subs /\ mdata[c] = None /\ reply[c] = None
  BY DEF ReaderSound
<1>7. CASE r # None /\ q.mode = "NEXT"
  <2>1. AnswerQuery(c, r) /\ subs' = subs
    BY <1>3, <1>7 DEF Proceed
  <2>2. Types'
    BY <1>4, <1>5, <1>7, <2>1 DEF Types, AnswerQuery, writers, Found
  <2>3. ReaderSound'
    BY <1>1, <1>5, <1>6, <2>1 DEF ReaderSound, AnswerQuery, Types
  <2>4. LastIsLatest'
    BY <1>5, <1>7, <2>1 DEF LastIsLatest, AnswerQuery, Types
  <2>5. UnlinkedHasEntry'
    BY <1>6, <2>1 DEF NoLostNotification, UnlinkedHasEntry, AnswerQuery, Types
  <2>6. PendingNotification'
    BY <1>2, <1>6, <2>1 DEF NoLostNotification, PendingNotification, writers, Types
  <2> QED
    BY <1>1, <2>2, <2>3, <2>4, <2>5, <2>6 DEF NoLostNotification
<1>8. CASE r # None /\ q.mode = "LAST"
  <2>1. /\ cpc' = [cpc EXCEPT ![c] = "last"]
        /\ mdata' = [mdata EXCEPT ![c] = r]
        /\ reply' = reply /\ subs' = subs
    BY <1>3, <1>8 DEF Proceed
  <2>2. Types'
    BY <1>4, <1>5, <1>8, <2>1 DEF Types, writers, Found
  <2>3. ReaderSound'
    BY <1>1, <1>5, <1>6, <1>8, <2>1 DEF ReaderSound, Types
  <2>4. LastIsLatest'
    BY <1>5, <2>1 DEF LastIsLatest, Types
  <2>5. UnlinkedHasEntry'
    BY <1>6, <2>1 DEF NoLostNotification, UnlinkedHasEntry, Types
  <2>6. PendingNotification'
    BY <1>2, <1>6, <2>1 DEF NoLostNotification, PendingNotification, writers, Types
  <2> QED
    BY <1>1, <2>2, <2>3, <2>4, <2>5, <2>6 DEF NoLostNotification
<1>9. CASE r = None
  <2>1. /\ cpc' = [cpc EXCEPT ![c] = "wait"]
        /\ subs' = subs \cup {c}
        /\ mdata' = mdata /\ reply' = reply
    BY <1>3, <1>9
  <2>2. Types'
    BY <1>5, <2>1 DEF Types, writers, Found
  <2>3. ReaderSound'
    BY <1>1, <1>5, <1>6, <2>1 DEF ReaderSound, Types
  <2>4. LastIsLatest'
    BY <1>5, <2>1 DEF LastIsLatest, Types
  <2>5. UnlinkedHasEntry'
    BY <1>6, <2>1 DEF NoLostNotification, UnlinkedHasEntry, Types
  <2>6. PendingNotification'
    BY <1>2, <1>4, <1>9, <2>1 DEF NoLostNotification, PendingNotification, writers, Types
  <2> QED
    BY <1>1, <2>2, <2>3, <2>4, <2>5, <2>6 DEF NoLostNotification
<1> QED
  BY <1>7, <1>8, <1>9

(* A reader that was woken by the notification of another one waits        *)
(* again.                                                                  *)
LEMMA WakeStep ==
  ASSUME IndInv, NEW c \in Client, WakeReader(c)
  PROVE  IndInv'
<1> USE DEF IndInv, WakeReader
<1>1. HashOK' /\ OneEntryPerVersion' /\ Serial' /\ Stored' = Stored
  BY ReaderFrame
<1>2. \A name, curr : Newer(name, curr)' = Newer(name, curr)
  BY ReaderFrame
<1>3. PendingNotification'
  BY <1>2 DEF NoLostNotification, PendingNotification, writers
<1>4. /\ req[c] \in Request /\ req[c].mode \in {"NEXT", "LAST"}
      /\ c \in subs <=> mdata[c] = None
  BY RequestCurr DEF ReaderSound, NoLostNotification, UnlinkedHasEntry
<1>5. CASE mdata[c] = None
  <2>1. cpc' = [cpc EXCEPT ![c] = "wait"] /\ mdata' = mdata /\ reply' = reply
    BY <1>5
  <2>2. Types' /\ LastIsLatest'
    BY <2>1 DEF Types, LastIsLatest, writers
  <2>3. ReaderSound'
    BY <1>1, <2>1 DEF ReaderSound, Types
  <2>4. UnlinkedHasEntry'
    BY <1>4, <1>5, <2>1 DEF NoLostNotification, UnlinkedHasEntry, Types
  <2> QED
    BY <1>1, <1>3, <2>2, <2>3, <2>4 DEF NoLostNotification
<1>6. CASE mdata[c] # None /\ req[c].mode = "NEXT"
  <2>1. AnswerQuery(c, mdata[c])
    BY <1>6 DEF Proceed
  <2>2. Types'
    BY <2>1 DEF Types, AnswerQuery, writers, Found
  <2>3. LastIsLatest'
    BY <1>6, <2>1 DEF LastIsLatest, AnswerQuery, Types
  <2>4. ReaderSound'
    BY <1>1, <1>4, <1>6, <2>1 DEF ReaderSound, AnswerQuery, Types
  <2>5. UnlinkedHasEntry'
    BY <2>1 DEF NoLostNotification, UnlinkedHasEntry, AnswerQuery, Types
  <2> QED
    BY <1>1, <1>3, <2>2, <2>3, <2>4, <2>5 DEF NoLostNotification
<1>7. CASE mdata[c] # None /\ req[c].mode = "LAST"
  <2>1. /\ cpc' = [cpc EXCEPT ![c] = "last"]
        /\ mdata' = [mdata EXCEPT ![c] = mdata[c]]
        /\ reply' = reply
    BY <1>7 DEF Proceed
  <2>2. mdata' = mdata
    BY <2>1 DEF Types
  <2>3. Types' /\ LastIsLatest'
    BY <2>1, <2>2 DEF Types, LastIsLatest, writers
  <2>4. ReaderSound'
    BY <1>1, <1>4, <1>7, <2>1, <2>2 DEF ReaderSound, Types
  <2>5. UnlinkedHasEntry'
    BY <2>1, <2>2 DEF NoLostNotification, UnlinkedHasEntry, Types
  <2> QED
    BY <1>1, <1>3, <2>3, <2>4, <2>5 DEF NoLostNotification
<1> QED
  BY <1>4, <1>5, <1>6, <1>7

(* META_MODE_LAST answers when the scan finds nothing newer than the       *)
(* candidate: what was stored when it started is no newer.                 *)
LEMMA LookForNewerStep ==
  ASSUME IndInv, NEW c \in Client, LookForNewer(c)
  PROVE  IndInv'
<1> USE DEF IndInv, LookForNewer
<1>1. HashOK' /\ OneEntryPerVersion' /\ Serial' /\ Stored' = Stored
  BY ReaderFrame
<1>2. \A name, curr : Newer(name, curr)' = Newer(name, curr)
  BY ReaderFrame
<1>3. PendingNotification'
  BY <1>2 DEF NoLostNotification, PendingNotification, writers
<1>4. /\ req[c] \in Request /\ req[c].mode = "LAST" /\ c \notin subs
      /\ mdata[c] \in Entry /\ mdata[c] # None
  BY DEF ReaderSound, Types, Found
<1>5. mdata[c].version \in Nat
  BY <1>4, MetaAssumption DEF Entry
<1>6. PICK r : r = NextEntry(req[c].name, mdata[c].version)
  OBVIOUS
<1>7. /\ r = None <=> Newer(req[c].name, mdata[c].version) = {}
      /\ r # None => r \in Entry
  <2>1. mdata[c].version \in Int /\ mdata[c].version >= -1
    BY <1>5
  <2> QED
    BY <1>6, <2>1, NextEntryResult, StoredEntry
<1>8. CASE r # None
  <2>1. mdata' = [mdata EXCEPT ![c] = r] /\ cpc' = cpc /\ reply' = reply
    BY <1>6, <1>8
  <2>2. Types' /\ LastIsLatest'
    BY <1>7, <1>8, <2>1 DEF Types, LastIsLatest, writers, Found
  <2>3. ReaderSound'
    BY <1>1, <1>8, <2>1 DEF ReaderSound, Types
  <2>4. UnlinkedHasEntry'
    BY <2>1 DEF NoLostNotification, UnlinkedHasEntry, Types
  <2> QED
    BY <1>1, <1>3, <2>2, <2>3, <2>4 DEF NoLostNotification
<1>9. CASE r = None
  <2>1. AnswerQuery(c, mdata[c])
    BY <1>6, <1>9
  <2>2. Types'
    BY <2>1 DEF Types, AnswerQuery, writers, Found
  <2>3. \A e \in seen[c] : e.version <= mdata[c].version
    <3> SUFFICES ASSUME NEW e \in seen[c]
                 PROVE  e.version <= mdata[c].version
      OBVIOUS
    <3>1. e \in Stored /\ e.name = req[c].name /\ e.version \in Nat
      BY MetaAssumption DEF ReaderSound, Types, Entry
    <3>2. ~ (e.version > mdata[c].version)
      BY <1>7, <1>9, <3>1 DEF Newer
    <3> QED
      BY <1>5, <3>1, <3>2
  <2>4. LastIsLatest'
    BY <1>4, <2>1, <2>3 DEF LastIsLatest, AnswerQuery, Types
  <2>5. ReaderSound'
    BY <1>1, <1>4, <2>1 DEF ReaderSound, AnswerQuery, Types
  <2>6. UnlinkedHasEntry'
    BY <2>1 DEF NoLostNotification, UnlinkedHasEntry, AnswerQuery, Types
  <2> QED
    BY <1>1, <1>3, <2>2, <2>4, <2>5, <2>6 DEF NoLostNotification
<1> QED
  BY <1>8, <1>9

-----------------------------------------------------------------------------
(* The invariant holds in every state that puts and queries of metadata    *)
(* reach.                                                                  *)
THEOREM MetaInvariant == Spec => []IndInv
<1>1. Init => IndInv
  <2> SUFFICES ASSUME Init
               PROVE  IndInv
    OBVIOUS
  <2>1. \A n \in 0 .. size_hash - 1 : meta_hash[n] = <<>> /\ Range(meta_hash[n]) = {}
    BY DEF Init, Range
  <2>2. HashOK /\ OneEntryPerVersion /\ Stored = {}
    BY <2>1 DEF Init, HashOK, OneEntryPerVersion, Stored
  <2>3. Types
    BY DEF Init, Types, Found
  <2> QED
    BY <2>2, <2>3 DEF Init, IndInv, Serial, ReaderSound, NoLostNotification,
                      PendingNotification, UnlinkedHasEntry, LastIsLatest
<1>2. IndInv /\ [Next]_vars => IndInv'
  <2> SUFFICES ASSUME IndInv, [Next]_vars
               PROVE  IndInv'
    OBVIOUS
  <2>1. ASSUME NEW w \in Writer, NEW e \in Entry, PutMeta(w, e)
        PROVE  IndInv'
    BY <2>1, PutMetaStep
  <2>2. ASSUME NEW w \in Writer, WriterStep(w)
        PROVE  IndInv'
    BY <2>2, CheckDuplicateStep, AddMetaStep, NotifyStep DEF WriterStep
  <2>3. ASSUME NEW c \in Client, NEW q \in Request, QuerySpec(c, q) \/ QueryNext(c, q)
        PROVE  IndInv'
    BY <2>3, QuerySpecStep, QueryNextStep
  <2>4. ASSUME NEW c \in Client, ReaderStep(c)
        PROVE  IndInv'
    BY <2>4, WakeStep, LookForNewerStep DEF ReaderStep
  <2>5. CASE UNCHANGED vars
    <3>1. HashOK' /\ OneEntryPerVersion' /\ Serial' /\ Stored' = Stored
      BY <2>5, ReaderFrame DEF vars, writers
    <3>2. \A name, curr : Newer(name, curr)' = Newer(name, curr)
      BY <2>5, ReaderFrame DEF vars, writers
    <3>3. Types' /\ ReaderSound' /\ UnlinkedHasEntry' /\ LastIsLatest'
      BY <2>5, <3>1 DEF vars, IndInv, Types, ReaderSound, NoLostNotification,
                        UnlinkedHasEntry, LastIsLatest
    <3>4. PendingNotification'
      BY <2>5, <3>2 DEF vars, IndInv, NoLostNotification, PendingNotification
    <3> QED
      BY <3>1, <3>3, <3>4 DEF IndInv, NoLostNotification
  <2> QED
    BY <2>1, <2>2, <2>3, <2>4, <2>5 DEF Next
<1> QED
  BY <1>1, <1>2, PTL DEF Spec

(* ls_add_meta stores at most one entry per name and version, however the  *)
(* duplicate checks of racing puts and their insertions interleave.        *)
THEOREM EntriesAreUnique == Spec => []OneEntryPerVersion
<1>1. IndInv => OneEntryPerVersion
  BY DEF IndInv
<1> QED
  BY <1>1, MetaInvariant, PTL

(* A reader of meta_find_next_entry that sleeps while a newer entry is     *)
(* stored is one whose put has yet to notify it.                           *)
THEOREM NoNotificationIsLost == Spec => []NoLostNotification
<1>1. IndInv => NoLostNotification
  BY DEF IndInv
<1> QED
  BY <1>1, MetaInvariant, PTL

(* The answer of META_MODE_LAST is no older than any entry that was stored *)
(* when the request arrived.                                               *)
THEOREM LastIsTheLatest == Spec => []LastIsLatest
<1>1. IndInv => LastIsLatest
  BY DEF IndInv
<1> QED
  BY <1>1, MetaInvariant, PTL

(* What a step hands to a reader, in the words of HandsOutLowest. *)
LowestStep ==
  \A c \in Client :
    LET q == req'[c]
        e == IF mdata'[c] # None THEN mdata'[c] ELSE reply'[c]
    IN /\ q # None /\ q.mode # "SPEC"
       /\ mdata[c] = None /\ reply[c] = None
       /\ e # None /\ e.version > q.curr
       => \A f \in Stored' :
            f.name = q.name /\ f.version > q.curr => e.version <= f.version

(* A reader that a step hands nothing. *)
LEMMA HandsNothing ==
  ASSUME \A c \in Client : mdata[c] = None => mdata'[c] = None /\ reply'[c] = reply[c]
  PROVE  LowestStep
  BY DEF LowestStep

(* A newer version handed to a reader of META_MODE_NEXT or META_MODE_LAST  *)
(* is the lowest one stored, whether the scan found it or a put delivered  *)
(* it.                                                                     *)
THEOREM HandsOutTheLowest == Spec => HandsOutLowest
<1>1. ASSUME IndInv, Next
      PROVE  LowestStep
  <2> USE DEF IndInv
  <2>1. ASSUME NEW w \in Writer, NEW e \in Entry, PutMeta(w, e)
        PROVE  LowestStep
    BY <1>1, <2>1, HandsNothing DEF PutMeta, readers, Types
  <2>2. ASSUME NEW w \in Writer, CheckDuplicate(w) \/ AddMeta(w)
        PROVE  LowestStep
    BY <1>1, <2>2, HandsNothing DEF CheckDuplicate, AddMeta, readers, Types
  <2>3. ASSUME NEW w \in Writer, Notify(w)
        PROVE  LowestStep
    <3> SUFFICES ASSUME NEW c \in Client, c \in Hit(wput[w]), NEW f \in Stored',
                        f.name = req[c].name, f.version > req[c].curr
                 PROVE  wput[w].version <= f.version
      BY <1>1, <2>3, NoneAssumption DEF LowestStep, Notify, Types
    <3>1. c \in subs /\ f \in Newer(req[c].name, req[c].curr)
      BY <2>3 DEF Hit, Notify, Newer, Stored
    <3>2. PICK v \in Writer : wpc[v] = "notify" /\ wput[v] = f
      BY <1>1, <3>1 DEF NoLostNotification, PendingNotification
    <3>3. v = w
      BY <1>1, <2>3, <3>2 DEF Serial, Notify
    <3>4. wput[w] = f /\ f.version \in Nat
      BY <1>1, <2>3, <3>2, <3>3, MetaAssumption DEF Types, Entry, Notify
    <3> QED
      BY <3>4
  <2>4. ASSUME NEW c \in Client, NEW q \in Request, QuerySpec(c, q)
        PROVE  LowestStep
    BY <1>1, <2>4 DEF LowestStep, QuerySpec, Receive, AnswerQuery, Types
  <2>5. ASSUME NEW c \in Client, NEW q \in Request, QueryNext(c, q)
        PROVE  LowestStep
    <3>1. PICK r : r = NextEntry(q.name, q.curr)
      OBVIOUS
    <3>2. \A f \in Newer(q.name, q.curr) : r # None /\ r.version <= f.version
      BY <1>1, <3>1, NextEntryResult, RequestCurr
    <3>3. Stored' = Stored /\ req' = [req EXCEPT ![c] = q]
      BY <2>5 DEF QueryNext, Receive, Stored
    <3>4. \/ mdata' = [mdata EXCEPT ![c] = None] /\ reply' = [reply EXCEPT ![c] = r]
          \/ mdata' = [mdata EXCEPT ![c] = r] /\ reply' = reply
          \/ mdata' = mdata /\ reply' = reply
      BY <2>5, <3>1 DEF QueryNext, Proceed, AnswerQuery
    <3> SUFFICES ASSUME NEW d \in Client, mdata[d] = None, reply[d] = None,
                        NEW e, e = IF mdata'[d] # None THEN mdata'[d] ELSE reply'[d], e # None,
                        NEW f \in Stored, f.name = req'[d].name, f.version > req'[d].curr
                 PROVE  e.version <= f.version
      BY <3>3 DEF LowestStep
    <3>5. d = c /\ e = r
      BY <1>1, <3>4 DEF Types
    <3>6. f \in Newer(q.name, q.curr)
      BY <1>1, <3>3, <3>5 DEF Newer, Types
    <3> QED
      BY <3>2, <3>5, <3>6
  <2>6. ASSUME NEW c \in Client, WakeReader(c)
        PROVE  LowestStep
    <3>1. \A d \in Client : mdata[d] = None => mdata'[d] = None /\ reply'[d] = reply[d]
      BY <1>1, <2>6 DEF WakeReader, Proceed, AnswerQuery, Types
    <3> QED
      BY <1>1, <3>1, HandsNothing DEF Types
  <2>7. ASSUME NEW c \in Client, LookForNewer(c)
        PROVE  LowestStep
    <3>1. mdata[c] # None
      BY <1>1, <2>7 DEF LookForNewer, ReaderSound
    <3>2. \A d \in Client : mdata[d] = None => mdata'[d] = None /\ reply'[d] = reply[d]
      BY <1>1, <2>7, <3>1 DEF LookForNewer, AnswerQuery, Types
    <3> QED
      BY <1>1, <3>2, HandsNothing DEF Types
  <2> QED
    BY <1>1, <2>1, <2>2, <2>3, <2>4, <2>5, <2>6, <2>7 DEF Next, WriterStep, ReaderStep
<1>2. IndInv /\ [Next]_vars => [LowestStep]_vars
  BY <1>1
<1>3. HandsOutLowest <=> [][LowestStep]_vars
  BY DEF HandsOutLowest, LowestStep
<1> QED
  BY <1>2, <1>3, MetaInvariant, PTL DEF Spec
=============================================================================
