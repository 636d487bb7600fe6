---------------------------- MODULE DrainProofs ----------------------------
(***************************************************************************)
(* Proofs about Drain, for every number of objects, clients, regions and   *)
(* failures: no object is lost on its way from a client to the server, the *)
(* index names the server only for objects it has, and dspaces_fini waits  *)
(* for the drain.                                                          *)
(***************************************************************************)
EXTENDS Drain, FiniteSetTheorems, SequenceTheorems, TLAPS

Types ==
  /\ ls \in [Client -> SUBSET Obj]
  /\ local_put_count \in [Client -> Int]
  /\ ppc \in [Obj -> {"none", "count", "store", "sent", "done", "late", "error"}]
  /\ preg \in [Obj -> Int]
  /\ cpc \in [Client -> {"run", "fini", "wait", "recheck", "finalized"}]
  /\ hpc \in [Obj -> {"none", "request", "transfer", "remove", "count", "locked"}]
  /\ hreg \in [Obj -> Int]
  /\ drain_list \in Seq(Obj)
  /\ sls \subseteq Obj
  /\ dpc \in {"check", "pop", "wait", "update", "done"}
  /\ dret \in {"none", "success", "error"}
  /\ odsc \in [Obj -> {"none", "client", "server"}]
  /\ net \subseteq [type : {"NEW", "OWNER"}, obj : Obj]

OnList == Range(drain_list)

Answered(o) == ppc[o] \in {"done", "late"}

Handled(o) == hpc[o] \in {"remove", "count", "locked"}

(* The drain of an object is over, at the server and at the client. *)
Drained(o) ==
  /\ Answered(o) /\ hpc[o] = "none" /\ o \notin OnList
  /\ o \in dobj => dret = "success"

(* What local_put_count counts. *)
Outstanding(c) ==
  {o \in Obj : Home[o] = c /\ ppc[o] \notin {"none", "count"} /\ ~ Drained(o)}

(* The drain thread has one object at a time. *)
OneAtATime ==
  /\ dpc \in {"check", "pop", "done"} => dobj = {} /\ dret = "none"
  /\ dpc \in {"wait", "update"} => \E o \in Obj : dobj = {o}
  /\ dpc = "update" => dret # "none"
  /\ \A o \in Obj :
       hpc[o] \in {"request", "transfer"} => dpc = "wait" /\ dobj = {o} /\ dret = "none"

(* An object is on the list, at the drain thread, at a drain_rpc that the  *)
(* server has not yet sent or heard of again, or nowhere.                  *)
InOnePlace ==
  /\ IsInjective(drain_list)
  /\ \A o \in OnList \cup dobj : Answered(o)
  /\ OnList \cap dobj = {}
  /\ \A o \in Obj : hpc[o] # "none" => Answered(o) /\ o \notin OnList
  /\ \A o \in Obj : Handled(o) /\ o \in dobj => dret = "success"

(* An object that was drained, or is removed because it was, is at the     *)
(* server.                                                                 *)
KeptAtServer ==
  \A o \in Obj : Handled(o) \/ Drained(o) => AtServer(o) \/ Displaced(o)

(* The index is told of objects that are stored or have failed. *)
ToldLast ==
  /\ dret = "success" /\ dpc = "update" => dobj \subseteq sls
  /\ dret = "error" => dobj \subseteq failed
  /\ \A m \in net : m.type = "OWNER" => m.obj \in sls \cup failed \/ Displaced(m.obj)

(* dspaces_fini is called when no put is in progress. *)
NotPutting ==
  \A o \in Obj : cpc[Home[o]] # "run" => ppc[o] \notin {"count", "store", "sent"}

CountExact ==
  \A c \in Client :
    Alive(c) /\ c \notin killed \cup lost => local_put_count[c] = Cardinality(Outstanding(c))

FiniDone ==
  \A o \in Obj :
    Put(o) /\ cpc[Home[o]] = "finalized" /\ Home[o] \notin killed \cup lost => Drained(o)

IndInv ==
  /\ Types /\ OneAtATime /\ InOnePlace /\ KeptAtServer /\ ToldLast /\ NotPutting
  /\ CountExact /\ FiniDone /\ NothingLost /\ ServerHasObject

-----------------------------------------------------------------------------
(* The drain list. *)

(* Putting an object at the end of the list. *)
LEMMA AppendToList ==
  ASSUME NEW q \in Seq(Obj), NEW o \in Obj, IsInjective(q), o \notin Range(q)
  PROVE  /\ Append(q, o) \in Seq(Obj) /\ Range(Append(q, o)) = Range(q) \cup {o}
         /\ IsInjective(Append(q, o))
<1>1. /\ Append(q, o) \in Seq(Obj) /\ Len(Append(q, o)) = Len(q) + 1
      /\ \A i \in 1 .. Len(q) : Append(q, o)[i] = q[i]
      /\ Append(q, o)[Len(q) + 1] = o
  BY AppendProperties
<1>2. DOMAIN q = 1 .. Len(q) /\ DOMAIN Append(q, o) = 1 .. Len(q) + 1 /\ Len(q) \in Nat
  BY <1>1
<1>3. \A i \in 1 .. Len(q) + 1 : i \in 1 .. Len(q) \/ i = Len(q) + 1
  BY <1>2
<1>4. \A i \in 1 .. Len(q) : i \in 1 .. Len(q) + 1
  BY <1>2
<1>5. Len(q) + 1 \in 1 .. Len(q) + 1 /\ Len(q) + 1 \notin 1 .. Len(q)
  BY <1>2
<1>6. Range(q) = {q[i] : i \in 1 .. Len(q)}
  BY <1>2 DEF Range
<1>7. Range(Append(q, o)) = {Append(q, o)[i] : i \in 1 .. Len(q) + 1}
  BY <1>2 DEF Range
<1>8. Range(Append(q, o)) = Range(q) \cup {o}
  BY <1>1, <1>3, <1>4, <1>5, <1>6, <1>7
<1>9. ASSUME NEW i \in 1 .. Len(q) + 1, NEW j \in 1 .. Len(q) + 1,
             Append(q, o)[i] = Append(q, o)[j]
      PROVE  i = j
  <2>1. CASE i = Len(q) + 1
    BY <1>1, <1>3, <1>6, <1>9, <2>1
  <2>2. CASE j = Len(q) + 1
    BY <1>1, <1>3, <1>6, <1>9, <2>2
  <2>3. CASE i \in 1 .. Len(q) /\ j \in 1 .. Len(q)
    BY <1>1, <1>2, <1>9, <2>3 DEF IsInjective
  <2> QED
    BY <1>3, <2>1, <2>2, <2>3
<1> QED
  BY <1>1, <1>2, <1>8, <1>9 DEF IsInjective

(* Taking the first object off the list. *)
LEMMA TailOfList ==
  ASSUME NEW q \in Seq(Obj), q # << >>, IsInjective(q)
  PROVE  /\ Head(q) \in Obj /\ Head(q) \in Range(q)
         /\ Tail(q) \in Seq(Obj) /\ Range(Tail(q)) = Range(q) \ {Head(q)}
         /\ IsInjective(Tail(q))
<1>1. /\ Head(q) = q[1] /\ Head(q) \in Obj /\ Tail(q) \in Seq(Obj)
      /\ Len(Tail(q)) = Len(q) - 1 /\ Len(q) \in Nat /\ Len(q) > 0
      /\ \A i \in 1 .. Len(Tail(q)) : Tail(q)[i] = q[i + 1]
  BY HeadTailProperties
<1> DEFINE n == Len(q)
           t == Tail(q)
<1>2. DOMAIN q = 1 .. n /\ DOMAIN t = 1 .. n - 1 /\ \A i \in 1 .. n - 1 : t[i] = q[i + 1]
  BY <1>1
<1>3. n \in Nat /\ n > 0
  BY <1>1
<1>4. Range(q) = {q[i] : i \in 1 .. n} /\ Range(t) = {t[i] : i \in 1 .. n - 1}
  BY <1>2 DEF Range
<1> HIDE DEF n, t
<1>5. /\ 1 \in 1 .. n
      /\ \A i \in 1 .. n - 1 : i + 1 \in 1 .. n /\ i + 1 # 1
      /\ \A i \in 1 .. n : i = 1 \/ (i - 1 \in 1 .. n - 1 /\ (i - 1) + 1 = i)
      /\ \A i, j \in 1 .. n - 1 : i + 1 = j + 1 => i = j
  BY <1>3
<1>6. \A i, j \in 1 .. n : q[i] = q[j] => i = j
  BY <1>2 DEF IsInjective
<1>7. Range(t) \subseteq Range(q) \ {q[1]}
  <2> SUFFICES ASSUME NEW i \in 1 .. n - 1
               PROVE  t[i] \in Range(q) \ {q[1]}
    BY <1>4
  <2>1. t[i] = q[i + 1] /\ i + 1 \in 1 .. n /\ i + 1 # 1
    BY <1>2, <1>5
  <2> QED
    BY <1>4, <1>5, <1>6, <2>1
<1>8. Range(q) \ {q[1]} \subseteq Range(t)
  <2> SUFFICES ASSUME NEW i \in 1 .. n, q[i] # q[1]
               PROVE  q[i] \in Range(t)
    BY <1>4
  <2>1. i - 1 \in 1 .. n - 1 /\ (i - 1) + 1 = i
    BY <1>5
  <2>2. t[i - 1] = q[i]
    BY <1>2, <2>1
  <2> QED
    BY <1>4, <2>1, <2>2
<1>9. ASSUME NEW i \in 1 .. n - 1, NEW j \in 1 .. n - 1, t[i] = t[j]
      PROVE  i = j
  <2>1. q[i + 1] = q[j + 1] /\ i + 1 \in 1 .. n /\ j + 1 \in 1 .. n
    BY <1>2, <1>5, <1>9
  <2> QED
    BY <1>5, <1>6, <2>1
<1>10. IsInjective(t)
  BY <1>2, <1>9 DEF IsInjective
<1>11. Head(q) \in Range(q)
  BY <1>1, <1>4, <1>5
<1> QED
  BY <1>1, <1>7, <1>8, <1>10, <1>11 DEF t

(* One object as a list. *)
LEMMA SingletonList ==
  ASSUME NEW o
  PROVE  SetToSeq({o}) = <<o>>
<1> DEFINE f == SetToSeq({o})
           one == [i \in 1 .. 1 |-> o]
<1>1. Cardinality({o}) = 1
  BY FS_Singleton
<1>2. one \in [1 .. 1 -> {o}] /\ IsInjective(one)
  BY DEF IsInjective
<1>3. f \in [1 .. 1 -> {o}]
  BY <1>1, <1>2 DEF SetToSeq
<1> HIDE DEF f
<1>4. f = <<o>>
  <2>1. DOMAIN f = 1 .. 1 /\ f[1] = o
    BY <1>3
  <2>2. f = [i \in 1 .. 1 |-> f[i]]
    BY <1>3
  <2>3. f = [i \in 1 .. 1 |-> o]
    BY <2>1, <2>2
  <2> QED
    BY <2>3
<1> QED
  BY <1>4 DEF f

-----------------------------------------------------------------------------
(* Every object has a client. *)
LEMMA HomeIsClient ==
  \A o \in Obj : Home[o] \in Client
BY DrainAssumption

(* What is outstanding is finite. *)
LEMMA OutstandingFinite ==
  \A c : IsFiniteSet(Outstanding(c)) /\ Cardinality(Outstanding(c)) \in Nat
<1>1. \A c : Outstanding(c) \subseteq Obj
  BY DEF Outstanding
<1> QED
  BY <1>1, DrainAssumption, FS_Subset, FS_CardinalityType

(* An object that was put over stays so. *)
LEMMA DisplacedStays ==
  ASSUME region' = region, \A o \in Obj : Put(o) => Put(o)'
  PROVE  \A o \in Obj : Displaced(o) => Displaced(o)'
BY DEF Displaced, Put

(* A step that counts nothing and ends no drain. *)
LEMMA SteadyCount ==
  ASSUME IndInv, UNCHANGED <<local_put_count, cpc, killed, lost>>,
         \A o \in Obj : Drained(o)' <=> Drained(o),
         \A o \in Obj : ppc'[o] \in {"none", "count"} <=> ppc[o] \in {"none", "count"},
         \A o \in Obj : Put(o)' /\ cpc[Home[o]] = "finalized" => Put(o)
  PROVE  CountExact' /\ FiniDone'
<1>1. \A c : Outstanding(c)' = Outstanding(c)
  BY DEF Outstanding
<1>2. CountExact'
  BY <1>1 DEF IndInv, CountExact, Alive
<1>3. FiniDone'
  BY DEF IndInv, FiniDone
<1> QED
  BY <1>2, <1>3

(* A step of puts or of dspaces_fini that leaves the drain alone. *)
LEMMA DrainRests ==
  ASSUME IndInv, UNCHANGED <<region, drain_list, dpc, dobj, dret, hpc, sls, net, odsc, failed>>,
         \A o \in Obj : Answered(o)' <=> Answered(o),
         \A o \in Obj : Put(o) => Put(o)',
         Types', NotPutting', CountExact', FiniDone', NothingLost'
  PROVE  IndInv'
<1> USE DEF IndInv
<1>0. \A o \in Obj : Displaced(o) => Displaced(o)'
  BY DisplacedStays
<1>1. OneAtATime'
  BY DEF OneAtATime
<1>2. InOnePlace'
  <2>1. \A o \in OnList \cup dobj : o \in Obj
    BY DEF OnList, Range, Types, OneAtATime
  <2> QED
    BY <2>1 DEF InOnePlace, OnList, Handled
<1>3. KeptAtServer'
  BY <1>0 DEF KeptAtServer, Handled, Drained, OnList, AtServer
<1>4. ToldLast'
  <2>1. \A m \in net : m.obj \in Obj
    BY DEF Types
  <2> QED
    BY <1>0, <2>1 DEF ToldLast
<1>5. ServerHasObject'
  BY <1>0 DEF ServerHasObject
<1> QED
  BY <1>1, <1>2, <1>3, <1>4, <1>5

(* The same for a step that also leaves the count and the puts alone.      *)
LEMMA DrainedSame ==
  ASSUME UNCHANGED <<drain_list, dobj, dret, hpc>>, \A o \in Obj : Answered(o)' <=> Answered(o)
  PROVE  \A o \in Obj : Drained(o)' <=> Drained(o)
BY DEF Drained, OnList

(* dspaces_put_local, local_put_count++: the read. *)
LEMMA PutCountReadInv ==
  ASSUME IndInv, NEW o \in Obj, PutCountRead(o)
  PROVE  IndInv'
<1> USE DEF IndInv
<1>1. /\ ppc[o] = "none" /\ cpc[Home[o]] = "run" /\ ppc' = [ppc EXCEPT ![o] = "count"]
      /\ preg' = [preg EXCEPT ![o] = local_put_count[Home[o]]]
      /\ UNCHANGED <<region, drain_list, dpc, dobj, dret, hpc, sls, net, odsc, failed>>
      /\ UNCHANGED <<ls, local_put_count, cpc, killed, lost, hreg>>
  BY DEF PutCountRead, params, handlers, server, index
<1>2. Types'
  <2>1. local_put_count[Home[o]] \in Int
    BY HomeIsClient DEF Types
  <2> QED
    BY <1>1, <2>1 DEF Types
<1>3. ppc'[o] = "count" /\ \A p \in Obj : p # o => ppc'[p] = ppc[p]
  BY <1>1 DEF Types
<1>4. \A p \in Obj : /\ Answered(p)' <=> Answered(p)
                     /\ Put(p)' <=> Put(p)
                     /\ ppc'[p] \in {"none", "count"} <=> ppc[p] \in {"none", "count"}
  BY <1>1, <1>3 DEF Answered, Put
<1>5. CountExact' /\ FiniDone'
  BY <1>1, <1>4, DrainedSame, SteadyCount
<1>6. NotPutting'
  BY <1>1, <1>3 DEF NotPutting
<1>7. NothingLost'
  BY <1>1, <1>4, DisplacedStays DEF NothingLost, AtServer, Alive
<1> QED
  BY <1>1, <1>2, <1>4, <1>5, <1>6, <1>7, DrainRests

(* local_put_count++: the write. *)
LEMMA PutCountWriteInv ==
  ASSUME IndInv, NEW o \in Obj, PutCountWrite(o)
  PROVE  IndInv'
<1> DEFINE c == Home[o]
<1> USE DEF IndInv
<1>1. /\ ppc[o] = "count" /\ ppc' = [ppc EXCEPT ![o] = "store"]
      /\ local_put_count' = [local_put_count EXCEPT ![c] = preg[o] + 1]
      /\ preg' = [preg EXCEPT ![o] = 0]
      /\ lost' = IF preg[o] # local_put_count[c] THEN lost \cup {c} ELSE lost
      /\ UNCHANGED <<region, drain_list, dpc, dobj, dret, hpc, sls, net, odsc, failed>>
      /\ UNCHANGED <<ls, cpc, killed, hreg>>
  BY DEF PutCountWrite, params, handlers, server, index
<1>2. Types'
  <2>1. preg[o] + 1 \in Int /\ 0 \in Int
    BY DEF Types
  <2>2. local_put_count' \in [Client -> Int] /\ preg' \in [Obj -> Int]
    BY <1>1, <2>1 DEF Types
  <2> QED
    BY <1>1, <2>2 DEF Types
<1>3. ppc'[o] = "store" /\ \A p \in Obj : p # o => ppc'[p] = ppc[p]
  BY <1>1 DEF Types
<1>4. \A p \in Obj : (Answered(p)' <=> Answered(p)) /\ (Put(p)' <=> Put(p))
  BY <1>1, <1>3 DEF Answered, Put
<1>5. cpc[c] = "run" /\ c \in Client
  BY <1>1, HomeIsClient DEF NotPutting
<1>6. \A p \in Obj : Drained(p)' <=> Drained(p)
  BY <1>1, <1>4, DrainedSame
<1>7. CountExact'
  <2> SUFFICES ASSUME NEW b \in Client, Alive(b), b \notin killed \cup lost'
               PROVE  local_put_count'[b] = Cardinality(Outstanding(b)')
    BY <1>1 DEF CountExact, Alive
  <2>1. local_put_count[b] = Cardinality(Outstanding(b))
    BY <1>1 DEF CountExact
  <2>2. CASE b = c
    <3>1. o \notin Outstanding(c) /\ Outstanding(c)' = Outstanding(c) \cup {o}
      <4>1. ~ Drained(o)
        BY <1>1 DEF Drained, Answered
      <4> QED
        BY <1>1, <1>3, <1>6, <4>1 DEF Outstanding
    <3>2. Cardinality(Outstanding(c)') = Cardinality(Outstanding(c)) + 1
      BY <3>1, OutstandingFinite, FS_AddElement
    <3>3. local_put_count'[c] = preg[o] + 1
      BY <1>1, <1>5 DEF Types
    <3> QED
      BY <1>1, <2>1, <2>2, <3>2, <3>3
  <2>3. CASE b # c
    <3>1. Outstanding(b)' = Outstanding(b)
      BY <1>3, <1>6, <2>3 DEF Outstanding
    <3> QED
      BY <1>1, <2>1, <2>3, <3>1 DEF Types
  <2> QED
    BY <2>2, <2>3
<1>8. FiniDone'
  BY <1>1, <1>4, <1>6 DEF FiniDone
<1>9. NotPutting'
  BY <1>1, <1>3, <1>5 DEF NotPutting
<1>10. NothingLost'
  BY <1>1, <1>4, DisplacedStays DEF NothingLost, AtServer, Alive
<1> QED
  BY <1>1, <1>2, <1>4, <1>7, <1>8, <1>9, <1>10, DrainRests

(* The object is stored; what it evicts is displaced. *)
LEMMA PutLocalInv ==
  ASSUME IndInv, NEW o \in Obj, PutLocal(o)
  PROVE  IndInv'
<1> DEFINE c == Home[o]
<1> USE DEF IndInv
<1>1. /\ ppc[o] = "store" /\ ls' = [ls EXCEPT ![c] = ls_add_obj(@, o)]
      /\ \E at \in {"sent", "error"} : ppc' = [ppc EXCEPT ![o] = at]
      /\ UNCHANGED <<region, drain_list, dpc, dobj, dret, hpc, sls, net, odsc, failed>>
      /\ UNCHANGED <<local_put_count, preg, cpc, killed, lost, hreg>>
  BY DEF PutLocal, params, handlers, server, index
<1>2. c \in Client /\ ls[c] \subseteq Obj /\ cpc[c] = "run"
  BY <1>1, HomeIsClient DEF Types, NotPutting
<1>3. Types'
  <2>1. ls_add_obj(ls[c], o) \in SUBSET Obj
    BY <1>2 DEF ls_add_obj
  <2>2. ls' \in [Client -> SUBSET Obj]
    BY <1>1, <1>2, <2>1 DEF Types
  <2> QED
    BY <1>1, <2>2 DEF Types
<1>4. ppc'[o] \in {"sent", "error"} /\ \A p \in Obj : p # o => ppc'[p] = ppc[p]
  BY <1>1 DEF Types
<1>5. \A p \in Obj : /\ Answered(p)' <=> Answered(p)
                     /\ Put(p) => Put(p)'
                     /\ ppc'[p] \in {"none", "count"} <=> ppc[p] \in {"none", "count"}
                     /\ p # o /\ Put(p)' => Put(p)
  BY <1>1, <1>4 DEF Answered, Put
<1>6. CountExact' /\ FiniDone'
  <2>1. \A p \in Obj : Put(p)' /\ cpc[Home[p]] = "finalized" => Put(p)
    BY <1>2, <1>5
  <2> QED
    BY <1>1, <1>5, <2>1, DrainedSame, SteadyCount
<1>7. NotPutting'
  BY <1>1, <1>2, <1>4 DEF NotPutting
<1>8. NothingLost'
  <2> SUFFICES ASSUME NEW p \in Obj, Put(p)', Alive(Home[p])', ~ Displaced(p)'
               PROVE  p \in ls'[Home[p]] \/ AtServer(p)'
    BY DEF NothingLost
  <2>1. ls'[c] = {x \in ls[c] : region[x] # region[o]} \cup {o}
    BY <1>1, <1>2 DEF Types, ls_add_obj
  <2>2. CASE p = o
    BY <2>1, <2>2
  <2>3. CASE p # o
    <3>1. region[p] # region[o]
      BY <1>1, <1>4, <2>3 DEF Displaced
    <3>2. ~ Displaced(p) /\ Put(p) /\ Alive(Home[p])
      BY <1>1, <1>5, <2>3, DisplacedStays DEF Alive
    <3>3. p \in ls[Home[p]] \/ AtServer(p)
      BY <3>2 DEF NothingLost
    <3>4. CASE Home[p] = c
      BY <1>1, <2>1, <3>1, <3>3, <3>4 DEF AtServer
    <3>5. CASE Home[p] # c
      BY <1>1, <3>3, <3>5, HomeIsClient DEF AtServer, Types
    <3> QED
      BY <3>4, <3>5
  <2> QED
    BY <2>2, <2>3
<1> QED
  BY <1>1, <1>3, <1>5, <1>6, <1>7, <1>8, DrainRests

(* The request fails: the object stays counted. *)
LEMMA PutLocalFailsInv ==
  ASSUME IndInv, NEW o \in Obj, PutLocalFails(o)
  PROVE  IndInv'
<1> USE DEF IndInv
<1>1. /\ ppc[o] = "sent" /\ ppc' = [ppc EXCEPT ![o] = "error"]
      /\ UNCHANGED <<region, drain_list, dpc, dobj, dret, hpc, sls, net, odsc, failed>>
      /\ UNCHANGED <<ls, local_put_count, preg, cpc, killed, lost, hreg>>
  BY DEF PutLocalFails, params, handlers, server, index
<1>2. Types'
  BY <1>1 DEF Types
<1>3. ppc'[o] = "error" /\ \A p \in Obj : p # o => ppc'[p] = ppc[p]
  BY <1>1 DEF Types
<1>4. \A p \in Obj : /\ Answered(p)' <=> Answered(p)
                     /\ Put(p)' <=> Put(p)
                     /\ ppc'[p] \in {"none", "count"} <=> ppc[p] \in {"none", "count"}
  BY <1>1, <1>3 DEF Answered, Put
<1>5. CountExact' /\ FiniDone'
  BY <1>1, <1>4, DrainedSame, SteadyCount
<1>6. NotPutting'
  BY <1>1, <1>3 DEF NotPutting
<1>7. NothingLost'
  BY <1>1, <1>4, DisplacedStays DEF NothingLost, AtServer, Alive
<1> QED
  BY <1>1, <1>2, <1>4, <1>5, <1>6, <1>7, DrainRests

(* put_local_rpc: the object goes on the list, where it was not.           *)
LEMMA PutLocalRpcInv ==
  ASSUME IndInv, NEW o \in Obj, PutLocalRpc(o)
  PROVE  IndInv'
<1> USE DEF IndInv
<1>1. /\ ppc[o] = "sent" /\ net' = net \cup {[type |-> "NEW", obj |-> o]}
      /\ drain_list' = Append(drain_list, o)
      /\ \E at \in {"done", "late"} : ppc' = [ppc EXCEPT ![o] = at]
      /\ UNCHANGED <<region, dpc, dobj, dret, hpc, sls, odsc, failed>>
      /\ UNCHANGED <<ls, local_put_count, preg, cpc, killed, lost, hreg>>
  BY DEF PutLocalRpc, params, handlers
<1>2. o \notin OnList /\ o \notin dobj /\ hpc[o] = "none"
  BY <1>1 DEF InOnePlace, Answered
<1>3. /\ drain_list' \in Seq(Obj) /\ OnList' = OnList \cup {o} /\ IsInjective(drain_list')
  BY <1>1, <1>2, AppendToList DEF OnList, Types, InOnePlace
<1>4. Types'
  <2>1. net' \subseteq [type : {"NEW", "OWNER"}, obj : Obj]
    BY <1>1 DEF Types
  <2>2. ppc' \in [Obj -> {"none", "count", "store", "sent", "done", "late", "error"}]
    BY <1>1 DEF Types
  <2> QED
    BY <1>1, <1>3, <2>1, <2>2 DEF Types
<1>5. Answered(o)' /\ ~ Answered(o) /\ \A p \in Obj : p # o => ppc'[p] = ppc[p]
  BY <1>1 DEF Types, Answered
<1>6. \A p \in Obj : /\ Put(p)' <=> Put(p)
                     /\ ppc'[p] \in {"none", "count"} <=> ppc[p] \in {"none", "count"}
  BY <1>1, <1>5 DEF Answered, Put
<1>7. \A p \in Obj : Drained(p)' <=> Drained(p)
  BY <1>1, <1>3, <1>5 DEF Drained, Answered
<1>8. CountExact' /\ FiniDone'
  BY <1>1, <1>6, <1>7, SteadyCount
<1>9. OneAtATime'
  BY <1>1 DEF OneAtATime
<1>10. InOnePlace'
  <2>1. \A p \in OnList \cup dobj : p \in Obj /\ Answered(p) /\ p # o
    BY <1>2 DEF InOnePlace, OnList, Range, Types, OneAtATime
  <2>2. \A p \in OnList' \cup dobj' : Answered(p)'
    BY <1>1, <1>3, <1>5, <2>1 DEF Answered
  <2>3. OnList' \cap dobj' = {}
    BY <1>1, <1>2, <1>3 DEF InOnePlace
  <2>4. \A p \in Obj : hpc'[p] # "none" => Answered(p)' /\ p \notin OnList'
    BY <1>1, <1>2, <1>3, <1>5 DEF InOnePlace, Answered
  <2>5. \A p \in Obj : Handled(p)' /\ p \in dobj' => dret' = "success"
    BY <1>1 DEF InOnePlace, Handled
  <2> QED
    BY <1>3, <2>2, <2>3, <2>4, <2>5 DEF InOnePlace
<1>11. \A p \in Obj : Displaced(p) => Displaced(p)'
  BY <1>1, <1>6, DisplacedStays
<1>12. KeptAtServer'
  BY <1>1, <1>7, <1>11 DEF KeptAtServer, Handled, AtServer
<1>13. ToldLast'
  <2>1. \A m \in net : m.obj \in Obj
    BY DEF Types
  <2>2. \A m \in net' : m.type = "OWNER" => m \in net
    BY <1>1
  <2> QED
    BY <1>1, <1>11, <2>1, <2>2 DEF ToldLast
<1>14. NotPutting' /\ ServerHasObject'
  BY <1>1, <1>5, <1>11 DEF NotPutting, ServerHasObject, Answered
<1>15. NothingLost'
  BY <1>1, <1>6, <1>11 DEF NothingLost, AtServer, Alive
<1> QED
  BY <1>4, <1>8, <1>9, <1>10, <1>12, <1>13, <1>14, <1>15

(* The drain thread takes an object off the list. *)
LEMMA DrainPopInv ==
  ASSUME IndInv, DrainPop
  PROVE  IndInv'
<1> USE DEF IndInv
<1>1. CASE drain_list = << >>
  <2>1. /\ dpc = "pop" /\ dpc' = "check"
        /\ UNCHANGED <<region, drain_list, dobj, dret, hpc, sls, net, odsc, failed>>
        /\ UNCHANGED <<ls, ppc, local_put_count, preg, cpc, killed, lost, hreg>>
    BY <1>1 DEF DrainPop, params, clients, index
  <2>2. Types' /\ OneAtATime'
    BY <2>1 DEF Types, OneAtATime
  <2>3. InOnePlace' /\ KeptAtServer' /\ ToldLast'
    BY <2>1 DEF InOnePlace, KeptAtServer, ToldLast, OneAtATime, OnList, Answered, Handled,
                Drained, AtServer, Displaced
  <2>4. CountExact' /\ FiniDone'
    BY <2>1, DrainedSame, SteadyCount DEF Answered, Put
  <2>5. NotPutting' /\ NothingLost' /\ ServerHasObject'
    BY <2>1 DEF NotPutting, NothingLost, ServerHasObject, Alive, AtServer, Displaced, Put
  <2> QED
    BY <2>2, <2>3, <2>4, <2>5
<1>2. CASE drain_list # << >>
  <2>0. PICK o \in Obj : o = Head(drain_list)
    BY <1>2, TailOfList DEF Types, InOnePlace
  <2>1. /\ dpc = "pop" /\ dpc' = "wait" /\ dobj' = {o} /\ drain_list' = Tail(drain_list)
        /\ hpc' = [hpc EXCEPT ![o] = "request"]
        /\ UNCHANGED <<region, dret, sls, net, odsc, failed>>
        /\ UNCHANGED <<ls, ppc, local_put_count, preg, cpc, killed, lost, hreg>>
    BY <1>2, <2>0 DEF DrainPop, params, clients, index
  <2>2. /\ o \in Obj /\ o \in OnList /\ OnList' = OnList \ {o}
        /\ drain_list' \in Seq(Obj) /\ IsInjective(drain_list')
    BY <1>2, <2>0, <2>1, TailOfList DEF OnList, Types, InOnePlace
  <2>3. dobj = {} /\ dret = "none" /\ Answered(o) /\ hpc[o] = "none"
    BY <2>1, <2>2 DEF OneAtATime, InOnePlace
  <2>4. Types'
    BY <2>1, <2>2 DEF Types
  <2>5. hpc'[o] = "request" /\ \A p \in Obj : p # o => hpc'[p] = hpc[p]
    BY <2>1, <2>2 DEF Types
  <2>6. \A p \in Obj : hpc[p] \notin {"request", "transfer"}
    BY <2>1 DEF OneAtATime
  <2>7. OneAtATime'
    BY <2>1, <2>2, <2>3, <2>5, <2>6 DEF OneAtATime
  <2>8. InOnePlace'
    <3>1. \A p \in OnList' \cup dobj' : Answered(p)'
      BY <2>1, <2>2, <2>3 DEF InOnePlace, Answered
    <3>2. OnList' \cap dobj' = {}
      BY <2>1, <2>2
    <3>3. \A p \in Obj : hpc'[p] # "none" => Answered(p)' /\ p \notin OnList'
      BY <2>1, <2>2, <2>3, <2>5 DEF InOnePlace, Answered
    <3>4. \A p \in Obj : Handled(p)' => p \notin dobj'
      BY <2>1, <2>5 DEF Handled
    <3> QED
      BY <2>2, <3>1, <3>2, <3>3, <3>4 DEF InOnePlace
  <2>9. \A p \in Obj : Drained(p)' <=> Drained(p)
    <3>1. ~ Drained(o) /\ ~ Drained(o)'
      BY <2>2, <2>5 DEF Drained
    <3>2. ASSUME NEW p \in Obj, p # o
          PROVE  Drained(p)' <=> Drained(p)
      BY <2>1, <2>2, <2>3, <2>5, <3>2 DEF Drained, Answered
    <3> QED
      BY <3>1, <3>2
  <2>10. CountExact' /\ FiniDone'
    BY <2>1, <2>9, SteadyCount DEF Put
  <2>11. \A p \in Obj : (Displaced(p) => Displaced(p)') /\ (AtServer(p) => AtServer(p)')
    BY <2>1, <2>3 DEF Displaced, AtServer
  <2>12. KeptAtServer'
    <3>1. \A p \in Obj : Handled(p)' => Handled(p)
      BY <2>5 DEF Handled
    <3> QED
      BY <2>9, <2>11, <3>1 DEF KeptAtServer
  <2>13. ToldLast'
    <3>1. \A m \in net : m.obj \in Obj
      BY DEF Types
    <3> QED
      BY <2>1, <2>3, <2>11, <3>1 DEF ToldLast
  <2>14. NotPutting' /\ ServerHasObject'
    BY <2>1, <2>11 DEF NotPutting, ServerHasObject
  <2>15. NothingLost'
    BY <2>1, <2>11 DEF NothingLost, Alive, Displaced, Put
  <2> QED
    BY <2>4, <2>7, <2>8, <2>10, <2>12, <2>13, <2>14, <2>15
<1> QED
  BY <1>1, <1>2

(* drain_rpc, or its failure, up to the answer to the server. *)
LEMMA AnswerInv ==
  ASSUME IndInv, NEW o \in Obj, hpc[o] \in {"request", "transfer"},
         NEW at, hpc' = [hpc EXCEPT ![o] = at],
         \/ at = "transfer" /\ dret' = dret /\ failed' = failed
         \/ at = "none" /\ dret' = "error" /\ failed' = failed \cup {o}
         \/ at = "remove" /\ dret' = "success" /\ failed' = failed
         \/ at = "none" /\ dret' = "success" /\ failed' = failed /\ ~ Alive(Home[o]),
         UNCHANGED <<region, drain_list, dpc, dobj, sls, net, odsc>>,
         UNCHANGED <<ls, ppc, local_put_count, preg, cpc, killed, lost, hreg>>
  PROVE  IndInv'
<1> USE DEF IndInv
<1>1. dpc = "wait" /\ dobj = {o} /\ dret = "none" /\ Answered(o) /\ o \notin OnList
  BY DEF OneAtATime, InOnePlace
<1>2. Types'
  BY DEF Types
<1>3. hpc'[o] = at /\ \A p \in Obj : p # o => hpc'[p] = hpc[p]
  BY DEF Types
<1>4. \A p \in Obj : p # o => hpc[p] \notin {"request", "transfer"}
  BY <1>1 DEF OneAtATime
<1>5. OneAtATime'
  BY <1>1, <1>3, <1>4 DEF OneAtATime
<1>6. InOnePlace'
  <2>1. \A p \in Obj : hpc'[p] # "none" => Answered(p)' /\ p \notin OnList'
    BY <1>1, <1>3 DEF InOnePlace, Answered, OnList
  <2>2. \A p \in Obj : Handled(p)' /\ p \in dobj' => dret' = "success"
    BY <1>1, <1>3 DEF Handled
  <2> QED
    BY <2>1, <2>2 DEF InOnePlace, Answered, OnList
<1>7. \A p \in Obj : p # o => (Drained(p)' <=> Drained(p)) /\ (Handled(p)' <=> Handled(p))
  BY <1>1, <1>3 DEF Drained, Handled, Answered, OnList
<1>8. ~ Drained(o) /\ (Drained(o)' => ~ Alive(Home[o]))
  BY <1>1, <1>3 DEF Drained
<1>9. \A p \in Obj : (Displaced(p) => Displaced(p)') /\ (AtServer(p) => AtServer(p)')
  BY <1>1 DEF Displaced, AtServer
<1>10. KeptAtServer'
  <2>1. Handled(o)' \/ Drained(o)' => AtServer(o)'
    BY <1>1, <1>3 DEF Handled, Drained, AtServer
  <2> QED
    BY <1>7, <1>9, <2>1 DEF KeptAtServer
<1>11. ToldLast'
  <2>1. \A m \in net : m.obj \in Obj
    BY DEF Types
  <2> QED
    BY <1>1, <1>9, <2>1 DEF ToldLast
<1>12. CountExact'
  <2> SUFFICES ASSUME NEW b \in Client, Alive(b), b \notin killed \cup lost
               PROVE  local_put_count[b] = Cardinality(Outstanding(b)')
    BY DEF CountExact, Alive
  <2>1. Outstanding(b)' = Outstanding(b)
    BY <1>7, <1>8 DEF Outstanding
  <2> QED
    BY <2>1 DEF CountExact
<1>13. FiniDone'
  <2>1. cpc[Home[o]] = "finalized" => Home[o] \in killed \cup lost
    BY <1>1, <1>8 DEF FiniDone, Put, Answered
  <2> QED
    BY <1>7, <2>1 DEF FiniDone, Put
<1>14. NotPutting' /\ ServerHasObject'
  BY <1>9 DEF NotPutting, ServerHasObject
<1>15. NothingLost'
  BY <1>9 DEF NothingLost, Alive, Displaced, Put
<1> QED
  BY <1>2, <1>5, <1>6, <1>10, <1>11, <1>12, <1>13, <1>14, <1>15

(* drain_rpc up to its answer; the client that is gone. *)
LEMMA DrainAnswerInv ==
  ASSUME IndInv, NEW o \in Obj, DrainFind(o) \/ DrainTransfer(o) \/ DrainGone(o)
  PROVE  IndInv'
<1>1. /\ UNCHANGED <<region, drain_list, dpc, dobj, sls, net, odsc>>
      /\ UNCHANGED <<ls, ppc, local_put_count, preg, cpc, killed, lost, hreg>>
      /\ hpc[o] \in {"request", "transfer"}
  BY DEF DrainFind, DrainTransfer, DrainGone, params, clients, server, index
<1>2. CASE DrainFind(o)
  BY <1>1, <1>2, AnswerInv DEF DrainFind, Reply
<1>3. CASE DrainTransfer(o)
  BY <1>1, <1>3, AnswerInv DEF DrainTransfer, Reply
<1>4. CASE DrainGone(o)
  BY <1>1, <1>4, AnswerInv DEF DrainGone, Reply
<1> QED
  BY <1>2, <1>3, <1>4

(* drain_rpc after its answer: the object is at the server. *)
LEMMA HandlerInv ==
  ASSUME IndInv, NEW o \in Obj, Handled(o),
         NEW at \in {"count", "locked", "none"}, hpc' = [hpc EXCEPT ![o] = at],
         UNCHANGED <<region, ppc, drain_list, dpc, dobj, dret, sls, net, odsc, failed>>,
         Types', NotPutting', CountExact', FiniDone', NothingLost'
  PROVE  IndInv'
<1> USE DEF IndInv
<1>1. hpc'[o] = at /\ \A p \in Obj : p # o => hpc'[p] = hpc[p]
  BY DEF Types
<1>2. OneAtATime'
  BY <1>1 DEF OneAtATime
<1>3. InOnePlace'
  <2>1. \A p \in Obj : hpc'[p] # "none" => Answered(p)' /\ p \notin OnList'
    BY <1>1 DEF InOnePlace, Answered, OnList, Handled
  <2>2. \A p \in Obj : Handled(p)' /\ p \in dobj' => dret' = "success"
    BY <1>1 DEF InOnePlace, Handled
  <2> QED
    BY <2>1, <2>2 DEF InOnePlace, Answered, OnList
<1>4. KeptAtServer'
  <2>1. \A p \in Obj : Handled(p)' \/ Drained(p)' => Handled(p) \/ Drained(p)
    BY <1>1 DEF Handled, Drained, Answered, OnList
  <2> QED
    BY <2>1 DEF KeptAtServer, AtServer, Displaced
<1>5. ToldLast' /\ ServerHasObject'
  BY DEF ToldLast, ServerHasObject, Displaced
<1> QED
  BY <1>2, <1>3, <1>4, <1>5

(* A drain_rpc that was handled and is not over ends nothing. *)
LEMMA StillHandled ==
  ASSUME IndInv, NEW o \in Obj, Handled(o),
         NEW at \in {"count", "locked"}, hpc' = [hpc EXCEPT ![o] = at],
         UNCHANGED <<ppc, drain_list, dobj, dret>>
  PROVE  \A p \in Obj : Drained(p)' <=> Drained(p)
BY DEF IndInv, Types, Handled, Drained, Answered, OnList

(* ls_try_remove_free *)
LEMMA DrainRemoveInv ==
  ASSUME IndInv, NEW o \in Obj, DrainRemove(o)
  PROVE  IndInv'
<1> USE DEF IndInv
<1>1. /\ hpc[o] = "remove" /\ ls' = [ls EXCEPT ![Home[o]] = @ \ {o}]
      /\ hpc' = [hpc EXCEPT ![o] = "count"]
      /\ UNCHANGED <<region, ppc, drain_list, dpc, dobj, dret, sls, net, odsc, failed>>
      /\ UNCHANGED <<local_put_count, preg, cpc, killed, lost, hreg>>
  BY DEF DrainRemove, params, server, index
<1>2. Types'
  <2>1. ls' \in [Client -> SUBSET Obj]
    BY <1>1, HomeIsClient DEF Types
  <2> QED
    BY <1>1, <2>1 DEF Types
<1>3. Handled(o)
  BY <1>1 DEF Handled
<1>4. CountExact' /\ FiniDone'
  BY <1>1, <1>3, StillHandled, SteadyCount DEF Put
<1>5. NotPutting'
  BY <1>1 DEF NotPutting
<1>6. NothingLost'
  <2> SUFFICES ASSUME NEW p \in Obj, Put(p), Alive(Home[p]), ~ Displaced(p)
               PROVE  p \in ls'[Home[p]] \/ AtServer(p)
    BY <1>1 DEF NothingLost, Put, Alive, Displaced, AtServer
  <2>1. CASE p = o
    BY <1>3, <2>1 DEF KeptAtServer
  <2>2. CASE p # o
    BY <1>1, <2>2, HomeIsClient DEF NothingLost, Types
  <2> QED
    BY <2>1, <2>2
<1> QED
  BY <1>1, <1>2, <1>3, <1>4, <1>5, <1>6, HandlerInv

(* local_put_count--: the read. *)
LEMMA DrainCountReadInv ==
  ASSUME IndInv, NEW o \in Obj, DrainCountRead(o)
  PROVE  IndInv'
<1> USE DEF IndInv
<1>1. /\ hpc[o] = "count" /\ hpc' = [hpc EXCEPT ![o] = "locked"]
      /\ hreg' = [hreg EXCEPT ![o] = local_put_count[Home[o]]]
      /\ UNCHANGED <<region, ppc, drain_list, dpc, dobj, dret, sls, net, odsc, failed>>
      /\ UNCHANGED <<ls, local_put_count, preg, cpc, killed, lost>>
  BY DEF DrainCountRead, params, clients, server, index
<1>2. Types'
  <2>1. local_put_count[Home[o]] \in Int
    BY HomeIsClient DEF Types
  <2> QED
    BY <1>1, <2>1 DEF Types
<1>3. Handled(o)
  BY <1>1 DEF Handled
<1>4. CountExact' /\ FiniDone'
  BY <1>1, <1>3, StillHandled, SteadyCount DEF Put
<1>5. NotPutting' /\ NothingLost'
  BY <1>1 DEF NotPutting, NothingLost, Put, Alive, Displaced, AtServer
<1> QED
  BY <1>1, <1>2, <1>3, <1>4, <1>5, HandlerInv

(* The signal to dspaces_fini ends no client, and starts none again. *)
LEMMA SignalWakes ==
  ASSUME IndInv, NEW c \in Client, Signal(c)
  PROVE  /\ cpc' \in [Client -> {"run", "fini", "wait", "recheck", "finalized"}]
         /\ \A b \in Client : /\ cpc'[b] = "finalized" <=> cpc[b] = "finalized"
                              /\ cpc'[b] = "run" <=> cpc[b] = "run"
<1>1. cpc \in [Client -> {"run", "fini", "wait", "recheck", "finalized"}]
  BY DEF IndInv, Types
<1>2. PICK at \in {"run", "fini", "wait", "recheck", "finalized"} :
        /\ cpc' = [cpc EXCEPT ![c] = at]
        /\ at = "finalized" <=> cpc[c] = "finalized"
        /\ at = "run" <=> cpc[c] = "run"
  <2>1. CASE cpc[c] = "wait"
    BY <1>1, <2>1 DEF Signal
  <2>2. CASE cpc[c] # "wait"
    BY <1>1, <2>2 DEF Signal
  <2> QED
    BY <2>1, <2>2
<1> QED
  BY <1>1, <1>2

(* local_put_count--: the write; the object is drained. *)
LEMMA DrainCountWriteInv ==
  ASSUME IndInv, NEW o \in Obj, DrainCountWrite(o)
  PROVE  IndInv'
<1> DEFINE c == Home[o]
<1> USE DEF IndInv
<1>1. /\ hpc[o] = "locked" /\ Alive(c) /\ hpc' = [hpc EXCEPT ![o] = "none"]
      /\ local_put_count' = [local_put_count EXCEPT ![c] = hreg[o] - 1]
      /\ hreg' = [hreg EXCEPT ![o] = 0]
      /\ lost' = IF hreg[o] # local_put_count[c] THEN lost \cup {c} ELSE lost
      /\ cpc' \in {cpc, [cpc EXCEPT ![c] = IF @ = "wait" THEN "recheck" ELSE @]}
      /\ UNCHANGED <<region, ppc, drain_list, dpc, dobj, dret, sls, net, odsc, failed>>
      /\ UNCHANGED <<ls, preg, killed>>
  BY DEF DrainCountWrite, Signal, params, server, index
<1>2. c \in Client
  BY HomeIsClient
<1>3. /\ cpc' \in [Client -> {"run", "fini", "wait", "recheck", "finalized"}]
      /\ \A b \in Client : /\ cpc'[b] = "finalized" <=> cpc[b] = "finalized"
                           /\ cpc'[b] = "run" <=> cpc[b] = "run"
  <2>1. CASE cpc' = cpc
    BY <2>1 DEF Types
  <2>2. CASE Signal(c)
    BY <1>2, <2>2, SignalWakes
  <2> QED
    BY <1>1, <2>1, <2>2 DEF Signal
<1>4. \A b \in Client : /\ cpc'[b] = "finalized" <=> cpc[b] = "finalized"
                        /\ cpc'[b] = "run" <=> cpc[b] = "run"
  BY <1>3
<1>5. Types'
  <2>1. hreg[o] - 1 \in Int /\ 0 \in Int
    BY DEF Types
  <2>2. local_put_count' \in [Client -> Int] /\ hreg' \in [Obj -> Int]
    BY <1>1, <2>1 DEF Types
  <2>3. hpc' \in [Obj -> {"none", "request", "transfer", "remove", "count", "locked"}]
    BY <1>1 DEF Types
  <2> QED
    BY <1>1, <1>3, <2>2, <2>3 DEF Types
<1>6. Handled(o) /\ Answered(o) /\ o \notin OnList /\ (o \in dobj => dret = "success")
  BY <1>1 DEF Handled, InOnePlace
<1>7. hpc'[o] = "none" /\ \A p \in Obj : p # o => hpc'[p] = hpc[p]
  BY <1>1 DEF Types
<1>8. /\ Drained(o)' /\ ~ Drained(o)
      /\ \A p \in Obj : p # o => (Drained(p)' <=> Drained(p))
  BY <1>1, <1>6, <1>7 DEF Drained, Answered, OnList
<1>9. CountExact'
  <2> SUFFICES ASSUME NEW b \in Client, Alive(b), b \notin killed \cup lost'
               PROVE  local_put_count'[b] = Cardinality(Outstanding(b)')
    BY <1>1, <1>4 DEF CountExact, Alive
  <2>1. local_put_count[b] = Cardinality(Outstanding(b))
    BY <1>1 DEF CountExact
  <2>2. CASE b = c
    <3>1. o \in Outstanding(c) /\ Outstanding(c)' = Outstanding(c) \ {o}
      BY <1>1, <1>6, <1>8 DEF Outstanding, Answered
    <3>2. Cardinality(Outstanding(c)') = Cardinality(Outstanding(c)) - 1
      BY <3>1, OutstandingFinite, FS_RemoveElement
    <3>3. local_put_count'[c] = hreg[o] - 1
      BY <1>1, <1>2 DEF Types
    <3> QED
      BY <1>1, <2>1, <2>2, <3>2, <3>3
  <2>3. CASE b # c
    <3>1. Outstanding(b)' = Outstanding(b)
      BY <1>1, <1>8, <2>3 DEF Outstanding
    <3> QED
      BY <1>1, <2>1, <2>3, <3>1 DEF Types
  <2> QED
    BY <2>2, <2>3
<1>10. FiniDone'
  BY <1>1, <1>4, <1>8, HomeIsClient DEF FiniDone, Put
<1>11. NotPutting'
  BY <1>1, <1>4, HomeIsClient DEF NotPutting
<1>12. NothingLost'
  BY <1>1, <1>4, HomeIsClient DEF NothingLost, Put, Alive, Displaced, AtServer
<1> QED
  BY <1>1, <1>5, <1>6, <1>9, <1>10, <1>11, <1>12, HandlerInv

(* The object is stored at the server; what it evicts is displaced. *)
LEMMA DrainStoreInv ==
  ASSUME IndInv, DrainStore
  PROVE  IndInv'
<1> USE DEF IndInv
<1>1. /\ dpc = "wait" /\ dret # "none" /\ dpc' = "update"
      /\ sls' = IF dret = "success" THEN UNION {ls_add_obj(sls, o) : o \in dobj} ELSE sls
      /\ UNCHANGED <<region, ppc, drain_list, dobj, dret, hpc, net, odsc, failed>>
      /\ UNCHANGED <<ls, local_put_count, preg, cpc, killed, lost, hreg>>
  BY DEF DrainStore, params, clients, handlers, index
<1>2. PICK o \in Obj : dobj = {o}
  BY <1>1 DEF OneAtATime
<1>3. Answered(o)
  BY <1>2 DEF InOnePlace
<1>4. sls' = IF dret = "success" THEN {p \in sls : region[p] # region[o]} \cup {o} ELSE sls
  BY <1>1, <1>2 DEF ls_add_obj
<1>5. Types'
  <2>1. sls' \subseteq Obj
    BY <1>4 DEF Types
  <2> QED
    BY <1>1, <2>1 DEF Types
<1>6. \A p \in Obj : Displaced(p)' <=> Displaced(p)
  BY <1>1 DEF Displaced
<1>7. \A p \in Obj : p \in sls => p \in sls' \/ Displaced(p)
  BY <1>3, <1>4 DEF Displaced, Answered
<1>8. \A p \in Obj : AtServer(p) => AtServer(p)' \/ Displaced(p)'
  BY <1>1, <1>6, <1>7 DEF AtServer
<1>9. OneAtATime'
  BY <1>1, <1>2 DEF OneAtATime
<1>10. InOnePlace'
  BY <1>1 DEF InOnePlace, OnList, Answered, Handled
<1>11. KeptAtServer'
  BY <1>1, <1>6, <1>8 DEF KeptAtServer, Handled, Drained, Answered, OnList
<1>12. ToldLast'
  <2>1. \A m \in net : m.obj \in Obj
    BY DEF Types
  <2> QED
    BY <1>1, <1>2, <1>4, <1>6, <1>7, <2>1 DEF ToldLast
<1>13. CountExact' /\ FiniDone'
  BY <1>1, DrainedSame, SteadyCount DEF Answered, Put
<1>14. NotPutting' /\ ServerHasObject'
  BY <1>1, <1>6, <1>7 DEF NotPutting, ServerHasObject
<1>15. NothingLost'
  BY <1>1, <1>6, <1>8 DEF NothingLost, Put, Alive
<1> QED
  BY <1>5, <1>9, <1>10, <1>11, <1>12, <1>13, <1>14, <1>15

(* The index is told; after an error the object is on the list again. *)
LEMMA DrainUpdateInv ==
  ASSUME IndInv, DrainUpdate
  PROVE  IndInv'
<1> USE DEF IndInv
<1>1. /\ dpc = "update" /\ dpc' = "pop" /\ dobj' = {} /\ dret' = "none"
      /\ net' = net \cup [type : {"OWNER"}, obj : dobj]
      /\ drain_list' = IF dret = "success" THEN drain_list ELSE drain_list \o SetToSeq(dobj)
      /\ UNCHANGED <<region, ppc, sls, hpc, odsc, failed>>
      /\ UNCHANGED <<ls, local_put_count, preg, cpc, killed, lost, hreg>>
  BY DEF DrainUpdate, params, clients, handlers
<1>2. PICK o \in Obj : dobj = {o}
  BY <1>1 DEF OneAtATime
<1>3. /\ Answered(o) /\ o \notin OnList /\ dret \in {"success", "error"}
      /\ \A p \in Obj : hpc[p] \notin {"request", "transfer"}
  BY <1>1, <1>2 DEF InOnePlace, OneAtATime, Types
<1>4. net' = net \cup {[type |-> "OWNER", obj |-> o]}
  BY <1>1, <1>2
<1>5. /\ drain_list' \in Seq(Obj) /\ IsInjective(drain_list')
      /\ OnList' = IF dret = "success" THEN OnList ELSE OnList \cup {o}
  <2>1. CASE dret = "success"
    BY <1>1, <2>1 DEF Types, InOnePlace, OnList
  <2>2. CASE dret = "error"
    <3>1. drain_list \in Seq(Obj) /\ IsInjective(drain_list) /\ o \notin Range(drain_list)
      BY <1>3 DEF Types, InOnePlace, OnList
    <3>2. drain_list' = drain_list \o <<o>>
      BY <1>1, <1>2, <2>2, SingletonList
    <3>3. drain_list' = Append(drain_list, o)
      BY <3>1, <3>2, AppendIsConcat
    <3> QED
      BY <2>2, <3>1, <3>3, AppendToList DEF OnList
  <2> QED
    BY <1>3, <2>1, <2>2
<1>6. Types'
  <2>1. net' \subseteq [type : {"NEW", "OWNER"}, obj : Obj]
    BY <1>4 DEF Types
  <2> QED
    BY <1>1, <1>5, <2>1 DEF Types
<1>7. OneAtATime'
  BY <1>1, <1>3 DEF OneAtATime
<1>8. dret = "error" => hpc[o] = "none"
  <2>1. Handled(o) => dret = "success"
    BY <1>2 DEF InOnePlace
  <2> QED
    BY <1>3, <2>1 DEF Handled, Types
<1>9. InOnePlace'
  <2>1. \A p \in OnList' \cup dobj' : Answered(p)'
    BY <1>1, <1>3, <1>5 DEF InOnePlace, Answered
  <2>2. \A p \in Obj : hpc'[p] # "none" => Answered(p)' /\ p \notin OnList'
    BY <1>1, <1>3, <1>5, <1>8 DEF InOnePlace, Answered
  <2> QED
    BY <1>1, <1>5, <2>1, <2>2 DEF InOnePlace
<1>10. \A p \in Obj : Drained(p)' <=> Drained(p)
  BY <1>1, <1>2, <1>3, <1>5 DEF Drained, Answered
<1>11. \A p \in Obj : /\ Displaced(p)' <=> Displaced(p)
                      /\ AtServer(p) => AtServer(p)'
  BY <1>1, <1>2 DEF Displaced, AtServer, ToldLast
<1>12. KeptAtServer'
  BY <1>1, <1>10, <1>11 DEF KeptAtServer, Handled
<1>13. ToldLast'
  <2>1. \A m \in net : m.obj \in Obj
    BY DEF Types
  <2>2. o \in sls \cup failed
    BY <1>1, <1>2, <1>3 DEF ToldLast
  <2> QED
    BY <1>1, <1>4, <1>11, <2>1, <2>2 DEF ToldLast
<1>14. CountExact' /\ FiniDone'
  BY <1>1, <1>10, SteadyCount DEF Put
<1>15. NotPutting' /\ ServerHasObject'
  BY <1>1, <1>11 DEF NotPutting, ServerHasObject
<1>16. NothingLost'
  BY <1>1, <1>11 DEF NothingLost, Put, Alive
<1> QED
  BY <1>6, <1>7, <1>9, <1>12, <1>13, <1>14, <1>15, <1>16

(* The outer loop of the drain thread. *)
LEMMA DrainCheckInv ==
  ASSUME IndInv, DrainCheck
  PROVE  IndInv'
<1> USE DEF IndInv
<1>1. /\ dpc = "check" /\ dpc' \in {"pop", "done"}
      /\ UNCHANGED <<region, ppc, drain_list, dobj, dret, sls, hpc, net, odsc, failed>>
      /\ UNCHANGED <<ls, local_put_count, preg, cpc, killed, lost, hreg>>
  BY DEF DrainCheck, params, clients, handlers, index
<1>2. Types' /\ OneAtATime'
  BY <1>1 DEF Types, OneAtATime
<1>3. InOnePlace' /\ KeptAtServer' /\ ToldLast'
  BY <1>1 DEF InOnePlace, KeptAtServer, ToldLast, OnList, Answered, Handled,
              Drained, AtServer, Displaced
<1>4. CountExact' /\ FiniDone'
  BY <1>1, DrainedSame, SteadyCount DEF Answered, Put
<1>5. NotPutting' /\ NothingLost' /\ ServerHasObject'
  BY <1>1 DEF NotPutting, NothingLost, ServerHasObject, Alive, AtServer, Displaced, Put
<1> QED
  BY <1>2, <1>3, <1>4, <1>5

(* The index names the server only when it is told to. *)
LEMMA ObjUpdateInv ==
  ASSUME IndInv, NEW m \in net, ObjUpdateRpc(m)
  PROVE  IndInv'
<1> USE DEF IndInv
<1>1. /\ net' = net \ {m}
      /\ odsc' = IF m.type = "NEW"
                 THEN [o \in Obj |-> IF o = m.obj THEN "client"
                                     ELSE IF region[o] = region[m.obj] THEN "none" ELSE odsc[o]]
                 ELSE [odsc EXCEPT ![m.obj] = IF @ = "none" THEN @ ELSE "server"]
      /\ UNCHANGED <<region, ppc, drain_list, dpc, dobj, dret, sls, hpc, failed>>
      /\ UNCHANGED <<ls, local_put_count, preg, cpc, killed, lost, hreg>>
  BY DEF ObjUpdateRpc, params, clients, handlers, server
<1>2. m.type \in {"NEW", "OWNER"} /\ m.obj \in Obj
  BY DEF Types
<1>3. odsc \in [Obj -> {"none", "client", "server"}]
  BY DEF Types
<1>4. /\ odsc' \in [Obj -> {"none", "client", "server"}]
      /\ \A o \in Obj : odsc'[o] = "server" =>
                          odsc[o] = "server" \/ (m.type = "OWNER" /\ o = m.obj)
  <2>1. CASE m.type = "NEW"
    BY <1>1, <1>2, <1>3, <2>1
  <2>2. CASE m.type = "OWNER"
    <3>1. odsc' = [odsc EXCEPT ![m.obj] = IF odsc[m.obj] = "none" THEN "none" ELSE "server"]
      BY <1>1, <1>2, <1>3, <2>2
    <3> QED
      BY <1>2, <1>3, <2>2, <3>1
  <2> QED
    BY <1>2, <2>1, <2>2
<1>5. Types'
  BY <1>1, <1>4 DEF Types
<1>6. OneAtATime'
  BY <1>1 DEF OneAtATime
<1>7. InOnePlace' /\ KeptAtServer'
  BY <1>1 DEF InOnePlace, KeptAtServer, OnList, Answered, Handled, Drained, AtServer,
              Displaced
<1>8. ToldLast'
  BY <1>1 DEF ToldLast, Displaced
<1>9. CountExact' /\ FiniDone'
  BY <1>1, DrainedSame, SteadyCount DEF Answered, Put
<1>10. NotPutting' /\ NothingLost'
  BY <1>1 DEF NotPutting, NothingLost, Alive, AtServer, Displaced, Put
<1>11. ServerHasObject'
  <2>1. m.type = "OWNER" => m.obj \in sls \cup failed \/ Displaced(m.obj)
    BY DEF ToldLast
  <2> QED
    BY <1>1, <1>4, <2>1 DEF ServerHasObject, Displaced
<1> QED
  BY <1>5, <1>6, <1>7, <1>8, <1>9, <1>10, <1>11

(* dspaces_fini waits, or has nothing to wait for. *)
LEMMA FiniLockInv ==
  ASSUME IndInv, NEW c \in Client, FiniLock(c)
  PROVE  IndInv'
<1> USE DEF IndInv
<1>1. /\ cpc[c] \in {"run", "fini"}
      /\ \A o \in Obj : Home[o] = c => ppc[o] \in {"none", "done", "late", "error"}
      /\ \E at \in {"wait", "recheck"} : cpc' = [cpc EXCEPT ![c] = at]
      /\ UNCHANGED <<region, drain_list, dpc, dobj, dret, hpc, sls, net, odsc, failed>>
      /\ UNCHANGED <<ls, local_put_count, ppc, preg, killed, lost, hreg>>
  BY DEF FiniLock, params, handlers, server, index
<1>2. Types'
  BY <1>1 DEF Types
<1>3. \A b \in Client : /\ cpc'[b] = "finalized" <=> cpc[b] = "finalized"
                        /\ b # c => cpc'[b] = cpc[b]
  BY <1>1 DEF Types
<1>4. NotPutting'
  BY <1>1, <1>3, HomeIsClient DEF NotPutting
<1>5. \A o \in Obj : Drained(o)' <=> Drained(o)
  BY <1>1, DrainedSame DEF Answered
<1>6. CountExact'
  BY <1>1, <1>3, <1>5 DEF CountExact, Alive, Outstanding
<1>7. FiniDone' /\ NothingLost'
  BY <1>1, <1>3, <1>5, HomeIsClient DEF FiniDone, NothingLost, Put, Alive, AtServer, Displaced
<1> QED
  BY <1>1, <1>2, <1>4, <1>6, <1>7, DrainRests DEF Answered, Put

(* dspaces_fini goes on when the count is 0: nothing is outstanding. *)
LEMMA FiniRecheckInv ==
  ASSUME IndInv, NEW c \in Client, FiniRecheck(c)
  PROVE  IndInv'
<1> USE DEF IndInv
<1>1. /\ cpc[c] = "recheck"
      /\ cpc' = [cpc EXCEPT ![c] = IF local_put_count[c] > 0 THEN "fini" ELSE "finalized"]
      /\ UNCHANGED <<region, drain_list, dpc, dobj, dret, hpc, sls, net, odsc, failed>>
      /\ UNCHANGED <<ls, local_put_count, ppc, preg, killed, lost, hreg>>
  BY DEF FiniRecheck, params, handlers, server, index
<1>2. cpc \in [Client -> {"run", "fini", "wait", "recheck", "finalized"}]
  BY DEF Types
<1>3. /\ cpc' \in [Client -> {"run", "fini", "wait", "recheck", "finalized"}]
      /\ cpc'[c] \in {"fini", "finalized"}
      /\ cpc'[c] = "finalized" => ~ (local_put_count[c] > 0)
      /\ \A b \in Client : b # c => cpc'[b] = cpc[b]
  <2>1. CASE local_put_count[c] > 0
    BY <1>1, <1>2, <2>1
  <2>2. CASE ~ (local_put_count[c] > 0)
    BY <1>1, <1>2, <2>2
  <2> QED
    BY <2>1, <2>2
<1>4. Types'
  BY <1>1, <1>3 DEF Types
<1>5. NotPutting'
  BY <1>1, <1>3, HomeIsClient DEF NotPutting
<1>6. \A o \in Obj : Drained(o)' <=> Drained(o)
  BY <1>1, DrainedSame DEF Answered
<1>7. \A b \in Client : Alive(b)' => Alive(b)
  BY <1>1, <1>3 DEF Alive
<1>8. CountExact'
  BY <1>1, <1>6, <1>7 DEF CountExact, Outstanding
<1>9. NothingLost'
  BY <1>1, <1>7, HomeIsClient DEF NothingLost, Put, AtServer, Displaced
<1>10. FiniDone'
  <2>1. ASSUME NEW o \in Obj, Put(o), Home[o] = c, cpc'[c] = "finalized",
               c \notin killed \cup lost
        PROVE  Drained(o)
    <3>1. local_put_count[c] = Cardinality(Outstanding(c))
      BY <1>1, <2>1 DEF CountExact, Alive
    <3>2. Cardinality(Outstanding(c)) = 0
      BY <1>3, <2>1, <3>1, OutstandingFinite
    <3>3. Outstanding(c) = {}
      BY <3>2, OutstandingFinite, FS_EmptySet
    <3> QED
      BY <2>1, <3>3 DEF Outstanding, Put
  <2> QED
    BY <1>1, <1>3, <1>6, <2>1, HomeIsClient DEF FiniDone, Put
<1> QED
  BY <1>1, <1>4, <1>5, <1>8, <1>9, <1>10, DrainRests DEF Answered, Put

(* A client is released whatever it has left. *)
LEMMA KillClientInv ==
  ASSUME IndInv, NEW c \in Client, KillClientRpc(c)
  PROVE  IndInv'
<1> USE DEF IndInv
<1>1. /\ local_put_count' = [local_put_count EXCEPT ![c] = 0]
      /\ Signal(c) /\ killed' = killed \cup {c}
      /\ UNCHANGED <<region, drain_list, dpc, dobj, dret, hpc, sls, net, odsc, failed>>
      /\ UNCHANGED <<ls, ppc, preg, lost, hreg>>
  BY DEF KillClientRpc, params, handlers, index
<1>2. /\ cpc' \in [Client -> {"run", "fini", "wait", "recheck", "finalized"}]
      /\ \A b \in Client : /\ cpc'[b] = "finalized" <=> cpc[b] = "finalized"
                           /\ cpc'[b] = "run" <=> cpc[b] = "run"
  BY <1>1, SignalWakes
<1>3. /\ local_put_count' \in [Client -> Int]
      /\ \A b \in Client : b # c => local_put_count'[b] = local_put_count[b]
  BY <1>1 DEF Types
<1>4. Types'
  BY <1>1, <1>2, <1>3 DEF Types
<1>5. NotPutting'
  BY <1>1, <1>2, HomeIsClient DEF NotPutting
<1>6. \A o \in Obj : Drained(o)' <=> Drained(o)
  BY <1>1, DrainedSame DEF Answered
<1>7. CountExact'
  BY <1>1, <1>2, <1>3, <1>6 DEF CountExact, Alive, Outstanding
<1>8. FiniDone' /\ NothingLost'
  BY <1>1, <1>2, <1>6, HomeIsClient DEF FiniDone, NothingLost, Put, Alive, AtServer, Displaced
<1> QED
  BY <1>1, <1>4, <1>5, <1>7, <1>8, DrainRests DEF Answered, Put

(* A step of the server's shutdown, and a step of another part of the system. *)
LEMMA OtherInv ==
  ASSUME IndInv,
         UNCHANGED <<region, drain_list, dpc, dobj, dret, hpc, sls, net, odsc, failed>>,
         UNCHANGED <<ls, local_put_count, ppc, preg, cpc, killed, lost, hreg>>
  PROVE  IndInv'
<1>1. Types' /\ NotPutting'
  BY DEF IndInv, Types, NotPutting
<1>2. CountExact' /\ FiniDone'
  BY DrainedSame, SteadyCount DEF Answered, Put
<1>3. NothingLost'
  BY DEF IndInv, NothingLost, Put, Alive, AtServer, Displaced
<1> QED
  BY <1>1, <1>2, <1>3, DrainRests DEF Answered, Put

(* Nothing is put, stored, counted or drained at first. *)
LEMMA InitInv ==
  ASSUME Init
  PROVE  IndInv
<1>1. Types
  BY DEF Init, Types
<1>2. OnList = {}
  BY DEF Init, OnList, Range
<1>3. IsInjective(drain_list)
  BY DEF Init, IsInjective
<1>4. \A o \in Obj : ppc[o] = "none" /\ hpc[o] = "none" /\ odsc[o] = "none"
  BY DEF Init
<1>5. OneAtATime
  BY <1>4 DEF Init, OneAtATime
<1>6. InOnePlace
  BY <1>2, <1>3, <1>4 DEF Init, InOnePlace, Handled
<1>7. KeptAtServer /\ ToldLast
  BY <1>4 DEF Init, KeptAtServer, ToldLast, Handled, Drained, Answered
<1>8. NotPutting /\ FiniDone /\ NothingLost /\ ServerHasObject
  BY <1>4 DEF NotPutting, FiniDone, NothingLost, ServerHasObject, Put
<1>9. CountExact
  <2>1. \A c : Outstanding(c) = {}
    BY <1>4 DEF Outstanding
  <2> QED
    BY <2>1, FS_EmptySet DEF Init, CountExact
<1> QED
  BY <1>1, <1>5, <1>6, <1>7, <1>8, <1>9 DEF IndInv

-----------------------------------------------------------------------------
(* The inductive invariant: where each object is, who has told whom of it  *)
(* and what local_put_count counts, in every state that put_local,         *)
(* drain_thread, drain_rpc, dspaces_fini and the shutdown reach.           *)
THEOREM DrainInvariant ==
  Spec => []IndInv
<1>1. Init => IndInv
  BY InitInv
<1>2. IndInv /\ [Next]_vars => IndInv'
  <2> SUFFICES ASSUME IndInv, [Next]_vars
               PROVE  IndInv'
    OBVIOUS
  <2>1. ASSUME NEW o \in Obj, PutCountRead(o) \/ PutStep(o)
        PROVE  IndInv'
    BY <2>1, PutCountReadInv, PutCountWriteInv, PutLocalInv, PutLocalRpcInv,
       PutLocalFailsInv DEF PutStep
  <2>2. ASSUME NEW o \in Obj, DrainRpc(o)
        PROVE  IndInv'
    BY <2>2, DrainAnswerInv, DrainRemoveInv, DrainCountReadInv, DrainCountWriteInv
    DEF DrainRpc
  <2>3. CASE DrainThread
    BY <2>3, DrainCheckInv, DrainPopInv, DrainStoreInv, DrainUpdateInv DEF DrainThread
  <2>4. ASSUME NEW m \in net, ObjUpdateRpc(m)
        PROVE  IndInv'
    BY <2>4, ObjUpdateInv
  <2>5. ASSUME NEW c \in Client, FiniLock(c) \/ FiniRecheck(c) \/ KillClientRpc(c)
        PROVE  IndInv'
    BY <2>5, FiniLockInv, FiniRecheckInv, KillClientInv
  <2>6. CASE Kill \/ KillLocalClients \/ Finalize
    BY <2>6, OtherInv DEF Kill, KillLocalClients, Finalize, params, clients, handlers, index
  <2>7. CASE UNCHANGED vars
    BY <2>7, OtherInv DEF vars, params, clients, handlers, server, index
  <2> QED
    BY <2>1, <2>2, <2>3, <2>4, <2>5, <2>6, <2>7 DEF Next
<1> QED
  BY <1>1, <1>2, PTL DEF Spec

(* No object that dspaces_put_local has stored is lost: until another is   *)
(* put over it, it is in its client's storage, or drain_rpc has removed it *)
(* there because the server has it.                                        *)
THEOREM NothingIsLost ==
  Spec => []NothingLost
<1>1. IndInv => NothingLost
  BY DEF IndInv
<1> QED
  BY <1>1, DrainInvariant, PTL

(* drain_thread stores an object before obj_update_dht tells the index of  *)
(* the new owner: the index names the server only for what it has, unless  *)
(* a transfer failed.                                                      *)
THEOREM OwnersHaveObjects ==
  Spec => []ServerHasObject
<1>1. IndInv => ServerHasObject
  BY DEF IndInv
<1> QED
  BY <1>1, DrainInvariant, PTL

(* dspaces_fini returns only when every object of the client was drained   *)
(* and no drain_rpc is left to use the client, unless kill_client_rpc has  *)
(* released it or a race has cost local_put_count an update.               *)
THEOREM FiniAfterDrain ==
  Spec => []DrainedBeforeFini
<1>1. IndInv => DrainedBeforeFini
  BY DEF IndInv, FiniDone, KeptAtServer, Drained, DrainedBeforeFini
<1> QED
  BY <1>1, DrainInvariant, PTL
=============================================================================
