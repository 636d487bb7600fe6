---------------------------- MODULE SpaceProofs ----------------------------
(***************************************************************************)
(* Proofs about the shared spaces of a server (SharedSpaces), for every    *)
(* set of domains, boxes, variables and handlers; about the bisection that *)
(* distributes a domain over the servers (Bisection), for every domain and *)
(* number of servers; and about the strided copies (Copy), for every box   *)
(* of up to nine dimensions.                                               *)
(***************************************************************************)
EXTENDS BisectedSpaces, Copy, Loops, FiniteSetTheorems, SequenceTheorems

HandlerAt == {"idle", "lookup", "search", "alloc", "find", "hash", "done"}

GdimsOK ==
  /\ \A v \in DOMAIN gdim_list : gdim_list[v] \in Gdim
  /\ gdim \in [Handler -> Gdim]
  /\ sspace_list \in Seq(Gdim)
  /\ pc \in [Handler -> HandlerAt]

(* sspace_mutex is held from the search to the end of lookup_sspace. *)
HoldsMutex(h) == pc[h] \in {"search", "alloc"} => sspace_mutex = {h}

(* A space is only made where the search has found none. *)
NewSpaceOnly(h) ==
  pc[h] = "alloc" => \A i \in DOMAIN sspace_list : sspace_list[i] # gdim[h]

SpaceInv ==
  /\ GdimsOK
  /\ \A h \in Handler : HoldsMutex(h) /\ NewSpaceOnly(h)
  /\ OneSpacePerGdim

(* The comparison finds the space of the same sizes. *)
LEMMA SameGdim ==
  ASSUME NEW g \in Gdim, NEW s \in Gdim
  PROVE  (Len(s) = Len(g) /\ global_dimension_equal(g, s)) <=> s = g
<1>1. g \in Seq(Nat) /\ s \in Seq(Nat)
  BY GdimAssumption
<1>2. DOMAIN g = 1 .. Len(g) /\ DOMAIN s = 1 .. Len(s)
  BY <1>1
<1>3. ASSUME Len(s) = Len(g), global_dimension_equal(g, s)
      PROVE  s = g
  <2>1. \A i \in 1 .. Len(g) : s[i] = g[i]
    BY <1>2, <1>3 DEF global_dimension_equal, SizeAt
  <2> QED
    BY <1>1, <1>3, <2>1, SeqEqual
<1>4. s = g => Len(s) = Len(g) /\ global_dimension_equal(g, s)
  BY DEF global_dimension_equal, SizeAt
<1> QED
  BY <1>3, <1>4

LEMMA SameAsDefault ==
  ASSUME NEW g \in Gdim
  PROVE  global_dimension_equal(g, default_gdim) => g = default_gdim
  BY GdimAssumption

LEMMA LeastHit ==
  ASSUME NEW n \in Nat, NEW hits, hits \subseteq 1 .. n, hits # {}
  PROVE  Min(hits) \in hits
<1>1. hits \subseteq Nat
  OBVIOUS
<1>2. \E x \in hits : \A y \in hits : x <= y
  BY <1>1, Least
<1> QED
  BY <1>2 DEF Min

(* The steps of SpaceInv. *)

LEMMA SpaceInitInv == SpaceInit => SpaceInv
<1> SUFFICES ASSUME SpaceInit
             PROVE  SpaceInv
  OBVIOUS
<1>1. GdimsOK
  BY GdimAssumption DEF SpaceInit, GdimsOK, HandlerAt
<1>2. \A h \in Handler : HoldsMutex(h) /\ NewSpaceOnly(h)
  BY DEF SpaceInit, HoldsMutex, NewSpaceOnly
<1>3. OneSpacePerGdim
  BY DEF SpaceInit, OneSpacePerGdim
<1> QED
  BY <1>1, <1>2, <1>3 DEF SpaceInv

LEMMA DefineGdimInv ==
  ASSUME SpaceInv, NEW v \in Var, NEW g \in Gdim, DefineGdim(v, g)
  PROVE  SpaceInv'
<1>1. GdimsOK'
  BY DEF SpaceInv, GdimsOK, DefineGdim, update_gdim_list
<1>2. \A h \in Handler : HoldsMutex(h)' /\ NewSpaceOnly(h)'
  BY DEF SpaceInv, DefineGdim, HoldsMutex, NewSpaceOnly
<1>3. OneSpacePerGdim'
  BY DEF SpaceInv, DefineGdim, OneSpacePerGdim
<1> QED
  BY <1>1, <1>2, <1>3 DEF SpaceInv

LEMMA RequestInv ==
  ASSUME SpaceInv, NEW h \in Handler, NEW v \in Var, Request(h, v)
  PROVE  SpaceInv'
<1>1. set_global_dimension(v) \in Gdim
  BY GdimAssumption DEF SpaceInv, GdimsOK, set_global_dimension, lookup_gdim_list
<1>2. GdimsOK'
  BY <1>1 DEF SpaceInv, GdimsOK, Request, HandlerAt
<1>3. ASSUME NEW k \in Handler
      PROVE  HoldsMutex(k)' /\ NewSpaceOnly(k)'
  BY DEF SpaceInv, GdimsOK, Request, HoldsMutex, NewSpaceOnly
<1>4. OneSpacePerGdim'
  BY DEF SpaceInv, Request, OneSpacePerGdim
<1> QED
  BY <1>2, <1>3, <1>4 DEF SpaceInv

LEMMA LookupSspaceInv ==
  ASSUME SpaceInv, NEW h \in Handler, LookupSspace(h)
  PROVE  SpaceInv'
<1>1. GdimsOK'
  BY DEF SpaceInv, GdimsOK, LookupSspace, HandlerAt
<1>2. ASSUME NEW k \in Handler
      PROVE  HoldsMutex(k)' /\ NewSpaceOnly(k)'
  BY DEF SpaceInv, GdimsOK, LookupSspace, LockSspace, HoldsMutex, NewSpaceOnly
<1>3. OneSpacePerGdim'
  BY DEF SpaceInv, LookupSspace, OneSpacePerGdim
<1> QED
  BY <1>1, <1>2, <1>3 DEF SpaceInv

LEMMA SearchSspaceInv ==
  ASSUME SpaceInv, NEW h \in Handler, SearchSspace(h)
  PROVE  SpaceInv'
<1>1. GdimsOK'
  BY DEF SpaceInv, GdimsOK, SearchSspace, HandlerAt
<1>2. sspace_mutex = {h} /\ sspace_list' = sspace_list /\ gdim' = gdim /\ pc[h] = "search"
  BY DEF SpaceInv, HoldsMutex, SearchSspace
<1>3. \A k \in Handler \ {h} : pc[k] \notin {"search", "alloc"} /\ pc'[k] = pc[k]
  BY <1>2 DEF SpaceInv, GdimsOK, HoldsMutex, SearchSspace
<1>4. HoldsMutex(h)'
  BY <1>2 DEF SpaceInv, GdimsOK, HoldsMutex, SearchSspace
<1>5. NewSpaceOnly(h)'
  <2>1. SUFFICES ASSUME pc'[h] = "alloc", NEW i \in DOMAIN sspace_list
                 PROVE  sspace_list[i] # gdim[h]
    BY <1>2 DEF NewSpaceOnly
  <2>2. ~ (Len(sspace_list[i]) = Len(gdim[h]) /\ global_dimension_equal(gdim[h], sspace_list[i]))
    BY <2>1 DEF SpaceInv, GdimsOK, SearchSspace
  <2>3. gdim[h] \in Gdim /\ sspace_list[i] \in Gdim
    BY DEF SpaceInv, GdimsOK
  <2> QED
    BY <2>2, <2>3, SameGdim
<1>6. \A k \in Handler : HoldsMutex(k)' /\ NewSpaceOnly(k)'
  BY <1>3, <1>4, <1>5 DEF HoldsMutex, NewSpaceOnly
<1>7. OneSpacePerGdim'
  BY <1>2 DEF SpaceInv, OneSpacePerGdim
<1> QED
  BY <1>1, <1>6, <1>7 DEF SpaceInv

LEMMA AllocSspaceInv ==
  ASSUME SpaceInv, NEW h \in Handler, AllocSspace(h)
  PROVE  SpaceInv'
<1>1. gdim[h] \in Gdim /\ sspace_list \in Seq(Gdim)
  BY DEF SpaceInv, GdimsOK
<1>2. sspace_list' = <<gdim[h]>> \o sspace_list
  BY DEF AllocSspace
<1>3. /\ sspace_list' \in Seq(Gdim) /\ DOMAIN sspace_list' = 1 .. Len(sspace_list) + 1
      /\ sspace_list'[1] = gdim[h]
      /\ \A i \in 2 .. Len(sspace_list) + 1 : sspace_list'[i] = sspace_list[i - 1]
  BY <1>1, <1>2
<1>4. GdimsOK'
  BY <1>3 DEF SpaceInv, GdimsOK, AllocSspace, HandlerAt
<1>5. sspace_mutex = {h} /\ pc[h] = "alloc"
  BY DEF SpaceInv, HoldsMutex, AllocSspace
<1>6. \A k \in Handler : pc'[k] \notin {"search", "alloc"}
  BY <1>5 DEF SpaceInv, GdimsOK, HoldsMutex, AllocSspace
<1>7. \A k \in Handler : HoldsMutex(k)' /\ NewSpaceOnly(k)'
  BY <1>6 DEF HoldsMutex, NewSpaceOnly
<1>8. \A i \in 1 .. Len(sspace_list) : sspace_list[i] # gdim[h]
  BY <1>1, <1>5 DEF SpaceInv, NewSpaceOnly
<1>9. OneSpacePerGdim'
  <2>1. SUFFICES ASSUME NEW i \in 1 .. Len(sspace_list) + 1, NEW j \in 1 .. Len(sspace_list) + 1,
                        sspace_list'[i] = sspace_list'[j]
                 PROVE  i = j
    BY <1>3 DEF OneSpacePerGdim
  <2>2. \A k, m \in 1 .. Len(sspace_list) : sspace_list[k] = sspace_list[m] => k = m
    BY <1>1 DEF SpaceInv, OneSpacePerGdim
  <2>3. CASE i = 1 \/ j = 1
    BY <1>1, <1>3, <1>8, <2>1, <2>3
  <2>4. CASE i # 1 /\ j # 1
    <3>1. i - 1 \in 1 .. Len(sspace_list) /\ j - 1 \in 1 .. Len(sspace_list)
      BY <1>1, <2>4
    <3>2. sspace_list[i - 1] = sspace_list[j - 1]
      BY <1>1, <1>3, <2>1, <2>4
    <3> QED
      BY <2>2, <3>1, <3>2
  <2> QED
    BY <2>3, <2>4
<1> QED
  BY <1>4, <1>7, <1>9 DEF SpaceInv

LEMMA FindNodesInv ==
  ASSUME SpaceInv, NEW h \in Handler, FindNodes(h)
  PROVE  SpaceInv'
<1>1. GdimsOK'
  BY DEF SpaceInv, GdimsOK, FindNodes, HandlerAt
<1>2. ASSUME NEW k \in Handler
      PROVE  HoldsMutex(k)' /\ NewSpaceOnly(k)'
  BY DEF SpaceInv, GdimsOK, FindNodes, HoldsMutex, NewSpaceOnly
<1>3. OneSpacePerGdim'
  BY DEF SpaceInv, FindNodes, OneSpacePerGdim
<1> QED
  BY <1>1, <1>2, <1>3 DEF SpaceInv

LEMMA HashNodesInv ==
  ASSUME SpaceInv, NEW h \in Handler, HashNodes(h)
  PROVE  SpaceInv'
<1>1. GdimsOK'
  BY DEF SpaceInv, GdimsOK, HashNodes, HandlerAt
<1>2. ASSUME NEW k \in Handler
      PROVE  HoldsMutex(k)' /\ NewSpaceOnly(k)'
  BY DEF SpaceInv, GdimsOK, HashNodes, HoldsMutex, NewSpaceOnly
<1>3. OneSpacePerGdim'
  BY DEF SpaceInv, HashNodes, OneSpacePerGdim
<1> QED
  BY <1>1, <1>2, <1>3 DEF SpaceInv

LEMMA SpaceNextInv == SpaceInv /\ [SpaceNext]_spaceVars => SpaceInv'
<1> SUFFICES ASSUME SpaceInv, [SpaceNext]_spaceVars
             PROVE  SpaceInv'
  OBVIOUS
<1>1. CASE UNCHANGED spaceVars
  BY <1>1 DEF spaceVars, SpaceInv, GdimsOK, HoldsMutex, NewSpaceOnly, OneSpacePerGdim
<1>2. CASE SpaceNext
  BY <1>2, DefineGdimInv, RequestInv, LookupSspaceInv, SearchSspaceInv, AllocSspaceInv,
     FindNodesInv, HashNodesInv DEF SpaceNext
<1> QED
  BY <1>1, <1>2

LEMMA SpaceInvHolds == SpaceSpec => []SpaceInv
  BY SpaceInitInv, SpaceNextInv, PTL DEF SpaceSpec

(* lookup_sspace adds one space for every global dimensions, whatever the  *)
(* requests that search at the same time.                                  *)
THEOREM SpacesAreUnique == SpaceSpec => []OneSpacePerGdim
<1>1. SpaceInv => OneSpacePerGdim
  BY DEF SpaceInv
<1> QED
  BY <1>1, SpaceInvHolds, PTL

-----------------------------------------------------------------------------
(* The servers that are found for a request. *)

(* What the hashing of a space is to guarantee: the servers that it gives  *)
(* for a box include those that index an element of it.                    *)
HashCoversOwners ==
  \A g \in Gdim : Version[g] # "v0" =>
    \A b \in BoxesOf[g] : \A c \in Cells(b) : OwnersOf[g][c] \subseteq HashOf[g][b]

(* The entries that ssd_hash can add to the cache. *)
CacheEntry ==
  UNION {{[bb |-> b, nodes |-> HashOf[g][b], of |-> g] : b \in BoxesOf[g]} : g \in Gdim}

RequestOK(h) == pc[h] # "idle" => q_bb[h] \in BoxesOf[gdim[h]]

(* lookup_sspace finds or makes the space of the request's domain. *)
OwnSpace(h) == pc[h] \in {"find", "hash", "done"} => ssd[h] = gdim[h]

(* The answer was computed for the request's space, or is cached for the   *)
(* box.                                                                    *)
Answered(h) ==
  pc[h] = "done" /\ IsHashed(h) =>
    \/ de_tab[h] = HashOf[ssd[h]][q_bb[h]]
    \/ \E i \in DOMAIN sfc_hash_list :
         sfc_hash_list[i].bb = q_bb[h] /\ sfc_hash_list[i].nodes = de_tab[h]

TabsOK ==
  /\ sfc_hash_list \in Seq(CacheEntry)
  /\ DOMAIN q_bb = Handler /\ DOMAIN ssd = Handler /\ DOMAIN de_tab = Handler

CacheInv ==
  /\ SpaceInv
  /\ TabsOK
  /\ \A h \in Handler : RequestOK(h) /\ OwnSpace(h) /\ Answered(h)

LEMMA CacheInitInv == SpaceInit => CacheInv
<1> SUFFICES ASSUME SpaceInit
             PROVE  CacheInv
  OBVIOUS
<1>1. TabsOK
  BY DEF SpaceInit, TabsOK
<1>2. \A h \in Handler : RequestOK(h) /\ OwnSpace(h) /\ Answered(h)
  BY DEF SpaceInit, RequestOK, OwnSpace, Answered
<1> QED
  BY <1>1, <1>2, SpaceInitInv DEF CacheInv

(* A step that leaves the cache alone and changes handler h only. *)
LEMMA OthersKeep ==
  ASSUME CacheInv, NEW h \in Handler, NEW k \in Handler \ {h},
         pc'[k] = pc[k], gdim'[k] = gdim[k], q_bb'[k] = q_bb[k], ssd'[k] = ssd[k],
         de_tab'[k] = de_tab[k], sfc_hash_list' = sfc_hash_list
  PROVE  RequestOK(k)' /\ OwnSpace(k)' /\ Answered(k)'
  BY DEF CacheInv, RequestOK, OwnSpace, Answered, IsHashed

LEMMA CacheDefineGdim ==
  ASSUME CacheInv, NEW v \in Var, NEW g \in Gdim, DefineGdim(v, g)
  PROVE  CacheInv'
<1>1. SpaceInv'
  BY DefineGdimInv DEF CacheInv
<1>2. TabsOK' /\ \A h \in Handler : RequestOK(h)' /\ OwnSpace(h)' /\ Answered(h)'
  BY DEF CacheInv, DefineGdim, TabsOK, RequestOK, OwnSpace, Answered, IsHashed
<1> QED
  BY <1>1, <1>2 DEF CacheInv

LEMMA CacheRequest ==
  ASSUME CacheInv, NEW h \in Handler, NEW v \in Var, Request(h, v)
  PROVE  CacheInv'
<1>1. SpaceInv'
  BY RequestInv DEF CacheInv
<1>2. TabsOK'
  BY DEF CacheInv, Request, TabsOK
<1>3. RequestOK(h)' /\ OwnSpace(h)' /\ Answered(h)'
  BY DEF CacheInv, TabsOK, SpaceInv, GdimsOK, Request, RequestOK, OwnSpace, Answered
<1>4. ASSUME NEW k \in Handler \ {h}
      PROVE  RequestOK(k)' /\ OwnSpace(k)' /\ Answered(k)'
  BY OthersKeep DEF CacheInv, TabsOK, SpaceInv, GdimsOK, Request
<1> QED
  BY <1>1, <1>2, <1>3, <1>4 DEF CacheInv

LEMMA CacheLookup ==
  ASSUME CacheInv, NEW h \in Handler, LookupSspace(h)
  PROVE  CacheInv'
<1>1. SpaceInv'
  BY LookupSspaceInv DEF CacheInv
<1>2. TabsOK'
  BY DEF CacheInv, LookupSspace, TabsOK
<1>3. RequestOK(h)' /\ OwnSpace(h)' /\ Answered(h)'
  BY DEF CacheInv, TabsOK, SpaceInv, GdimsOK, LookupSspace, RequestOK, OwnSpace, Answered
<1>4. ASSUME NEW k \in Handler \ {h}
      PROVE  RequestOK(k)' /\ OwnSpace(k)' /\ Answered(k)'
  BY OthersKeep DEF CacheInv, TabsOK, SpaceInv, GdimsOK, LookupSspace
<1> QED
  BY <1>1, <1>2, <1>3, <1>4 DEF CacheInv

LEMMA CacheSearch ==
  ASSUME CacheInv, NEW h \in Handler, SearchSspace(h)
  PROVE  CacheInv'
<1>1. SpaceInv'
  BY SearchSspaceInv DEF CacheInv
<1>2. TabsOK'
  BY DEF CacheInv, SearchSspace, TabsOK
<1>3. gdim[h] \in Gdim /\ sspace_list \in Seq(Gdim)
  BY DEF CacheInv, SpaceInv, GdimsOK
<1>4. pc'[h] = "find" => ssd'[h] = gdim[h]
  <2> DEFINE Same(i) == /\ Len(sspace_list[i]) = Len(gdim[h])
                        /\ global_dimension_equal(gdim[h], sspace_list[i])
             hits == {i \in DOMAIN sspace_list : Same(i)}
  <2>1. hits # {} => sspace_list[Min(hits)] = gdim[h]
    <3> SUFFICES ASSUME hits # {}
                 PROVE  sspace_list[Min(hits)] = gdim[h]
      OBVIOUS
    <3>1. Len(sspace_list) \in Nat /\ hits \subseteq 1 .. Len(sspace_list)
      BY <1>3
    <3>2. Min(hits) \in hits
      BY <3>1, LeastHit
    <3>3. sspace_list[Min(hits)] \in Gdim /\ Same(Min(hits))
      BY <1>3, <3>2
    <3> QED
      BY <1>3, <3>3, SameGdim
  <2>2. \/ pc'[h] = "alloc"
        \/ global_dimension_equal(gdim[h], default_gdim) /\ ssd'[h] = default_gdim
        \/ hits # {} /\ ssd'[h] = sspace_list[Min(hits)]
    BY DEF CacheInv, TabsOK, SpaceInv, GdimsOK, SearchSspace
  <2> QED
    BY <1>3, <2>1, <2>2, SameAsDefault
<1>5. pc[h] = "search" /\ pc'[h] \in {"find", "alloc"}
  BY DEF CacheInv, SpaceInv, GdimsOK, SearchSspace
<1>6. RequestOK(h)' /\ OwnSpace(h)' /\ Answered(h)'
  BY <1>4, <1>5 DEF CacheInv, SearchSspace, RequestOK, OwnSpace, Answered
<1>7. ASSUME NEW k \in Handler \ {h}
      PROVE  RequestOK(k)' /\ OwnSpace(k)' /\ Answered(k)'
  <2>1. pc'[k] = pc[k] /\ ssd'[k] = ssd[k]
    BY DEF CacheInv, TabsOK, SpaceInv, GdimsOK, SearchSspace
  <2> QED
    BY <2>1, OthersKeep DEF SearchSspace
<1> QED
  BY <1>1, <1>2, <1>6, <1>7 DEF CacheInv

LEMMA CacheAlloc ==
  ASSUME CacheInv, NEW h \in Handler, AllocSspace(h)
  PROVE  CacheInv'
<1>1. SpaceInv'
  BY AllocSspaceInv DEF CacheInv
<1>2. TabsOK'
  BY DEF CacheInv, AllocSspace, TabsOK
<1>3. RequestOK(h)' /\ OwnSpace(h)' /\ Answered(h)'
  BY DEF CacheInv, TabsOK, SpaceInv, GdimsOK, AllocSspace, RequestOK, OwnSpace, Answered
<1>4. ASSUME NEW k \in Handler \ {h}
      PROVE  RequestOK(k)' /\ OwnSpace(k)' /\ Answered(k)'
  BY OthersKeep DEF CacheInv, TabsOK, SpaceInv, GdimsOK, AllocSspace
<1> QED
  BY <1>1, <1>2, <1>3, <1>4 DEF CacheInv

(* What sh_find returns is of an entry for the box. *)
LEMMA FoundInCache ==
  ASSUME TabsOK, NEW b, sh_find(b) # {}
  PROVE  \E i \in DOMAIN sfc_hash_list :
           sfc_hash_list[i].bb = b /\ sfc_hash_list[i].nodes = sh_find(b)
<1> DEFINE hits == {i \in DOMAIN sfc_hash_list : bbox_equals(b, sfc_hash_list[i].bb)}
<1>1. hits # {} /\ sh_find(b) = sfc_hash_list[Min(hits)].nodes
  BY DEF sh_find
<1>2. Len(sfc_hash_list) \in Nat /\ hits \subseteq 1 .. Len(sfc_hash_list)
  BY DEF TabsOK
<1>3. Min(hits) \in hits
  BY <1>1, <1>2, LeastHit
<1> QED
  BY <1>1, <1>3 DEF bbox_equals

LEMMA CacheFind ==
  ASSUME CacheInv, NEW h \in Handler, FindNodes(h)
  PROVE  CacheInv'
<1>1. SpaceInv'
  BY FindNodesInv DEF CacheInv
<1>2. TabsOK'
  BY DEF CacheInv, FindNodes, TabsOK
<1>3. RequestOK(h)' /\ OwnSpace(h)'
  BY DEF CacheInv, TabsOK, SpaceInv, GdimsOK, FindNodes, RequestOK, OwnSpace
<1>4. Answered(h)'
  <2>1. SUFFICES ASSUME pc'[h] = "done", Version[ssd[h]] # "v0"
                 PROVE  \E i \in DOMAIN sfc_hash_list :
                          sfc_hash_list[i].bb = q_bb[h] /\ sfc_hash_list[i].nodes = de_tab'[h]
    BY DEF Answered, IsHashed, FindNodes
  <2>2. de_tab'[h] = sh_find(q_bb[h]) /\ sh_find(q_bb[h]) # {}
    BY <2>1 DEF CacheInv, TabsOK, SpaceInv, GdimsOK, FindNodes
  <2> QED
    BY <2>2, FoundInCache DEF CacheInv
<1>5. ASSUME NEW k \in Handler \ {h}
      PROVE  RequestOK(k)' /\ OwnSpace(k)' /\ Answered(k)'
  BY OthersKeep DEF CacheInv, TabsOK, SpaceInv, GdimsOK, FindNodes
<1> QED
  BY <1>1, <1>2, <1>3, <1>4, <1>5 DEF CacheInv

LEMMA CacheHash ==
  ASSUME CacheInv, NEW h \in Handler, HashNodes(h)
  PROVE  CacheInv'
<1> DEFINE answer == HashOf[ssd[h]][q_bb[h]]
           entry == [bb |-> q_bb[h], nodes |-> answer, of |-> ssd[h]]
<1>1. SpaceInv'
  BY HashNodesInv DEF CacheInv
<1>2. pc[h] = "hash" /\ pc'[h] = "done" /\ de_tab'[h] = answer
  BY DEF CacheInv, TabsOK, SpaceInv, GdimsOK, HashNodes
<1>3. entry \in CacheEntry
  <2>1. gdim[h] \in Gdim /\ ssd[h] = gdim[h] /\ q_bb[h] \in BoxesOf[gdim[h]]
    BY <1>2 DEF CacheInv, SpaceInv, GdimsOK, OwnSpace, RequestOK
  <2> QED
    BY <2>1 DEF CacheEntry
<1>4. sfc_hash_list' \in {sfc_hash_list, Append(sfc_hash_list, entry)}
  BY <1>2 DEF HashNodes
<1>5. /\ sfc_hash_list' \in Seq(CacheEntry)
      /\ \A i \in DOMAIN sfc_hash_list :
           i \in DOMAIN sfc_hash_list' /\ sfc_hash_list'[i] = sfc_hash_list[i]
  <2>1. sfc_hash_list \in Seq(CacheEntry)
    BY DEF CacheInv, TabsOK
  <2> HIDE DEF entry
  <2> QED
    BY <1>3, <1>4, <2>1
<1>6. TabsOK'
  BY <1>5 DEF CacheInv, HashNodes, TabsOK
<1>7. RequestOK(h)' /\ OwnSpace(h)' /\ Answered(h)'
  BY <1>2 DEF CacheInv, TabsOK, SpaceInv, GdimsOK, HashNodes, RequestOK, OwnSpace, Answered
<1>8. ASSUME NEW k \in Handler \ {h}
      PROVE  RequestOK(k)' /\ OwnSpace(k)' /\ Answered(k)'
  <2>1. /\ pc'[k] = pc[k] /\ gdim'[k] = gdim[k] /\ q_bb'[k] = q_bb[k] /\ ssd'[k] = ssd[k]
        /\ de_tab'[k] = de_tab[k]
    BY DEF CacheInv, TabsOK, SpaceInv, GdimsOK, HashNodes
  <2>2. RequestOK(k) /\ OwnSpace(k) /\ Answered(k)
    BY DEF CacheInv
  <2>3. RequestOK(k)' /\ OwnSpace(k)'
    BY <2>1, <2>2 DEF RequestOK, OwnSpace
  <2>4. Answered(k)'
    BY <1>5, <2>1, <2>2 DEF Answered, IsHashed
  <2> QED
    BY <2>3, <2>4
<1> QED
  BY <1>1, <1>6, <1>7, <1>8 DEF CacheInv

LEMMA CacheNextInv == CacheInv /\ [SpaceNext]_spaceVars => CacheInv'
<1> SUFFICES ASSUME CacheInv, [SpaceNext]_spaceVars
             PROVE  CacheInv'
  OBVIOUS
<1>1. CASE UNCHANGED spaceVars
  <2>1. SpaceInv'
    BY <1>1, SpaceNextInv DEF CacheInv
  <2>2. TabsOK' /\ \A h \in Handler : RequestOK(h)' /\ OwnSpace(h)' /\ Answered(h)'
    BY <1>1 DEF CacheInv, spaceVars, TabsOK, RequestOK, OwnSpace, Answered, IsHashed
  <2> QED
    BY <2>1, <2>2 DEF CacheInv
<1>2. CASE SpaceNext
  BY <1>2, CacheDefineGdim, CacheRequest, CacheLookup, CacheSearch, CacheAlloc, CacheFind,
     CacheHash DEF SpaceNext
<1> QED
  BY <1>1, <1>2

LEMMA CacheInvHolds == SpaceSpec => []CacheInv
  BY CacheInitInv, CacheNextInv, PTL DEF SpaceSpec

(* ssd_hash with its cache finds every server that indexes an element of   *)
(* a request's box, as long as the box was hashed in one space only, if    *)
(* the hashing itself does: lost entries of the cache and the order in     *)
(* which requests search it do not matter.                                 *)
THEOREM CacheIsTransparent ==
  ASSUME HashCoversOwners
  PROVE  SpaceSpec => []HashFindsOwnersAlone
<1>1. CacheInv => HashFindsOwnersAlone
  <2>1. SUFFICES ASSUME CacheInv, NEW h \in Handler, pc[h] = "done", IsHashed(h),
                        \A i \in DOMAIN sfc_hash_list :
                          sfc_hash_list[i].bb = q_bb[h] => sfc_hash_list[i].of = ssd[h]
                 PROVE  Owners(h) \subseteq de_tab[h]
    BY DEF HashFindsOwnersAlone
  <2>2. ssd[h] \in Gdim /\ q_bb[h] \in BoxesOf[ssd[h]] /\ Answered(h)
    BY <2>1 DEF CacheInv, SpaceInv, GdimsOK, OwnSpace, RequestOK
  <2>3. de_tab[h] = HashOf[ssd[h]][q_bb[h]]
    <3>1. ASSUME NEW i \in DOMAIN sfc_hash_list, sfc_hash_list[i].bb = q_bb[h],
                 sfc_hash_list[i].nodes = de_tab[h]
          PROVE  de_tab[h] = HashOf[ssd[h]][q_bb[h]]
      <4>1. sfc_hash_list[i] \in CacheEntry
        BY <2>1 DEF CacheInv, TabsOK
      <4>2. sfc_hash_list[i].nodes = HashOf[sfc_hash_list[i].of][sfc_hash_list[i].bb]
        BY <4>1 DEF CacheEntry
      <4> QED
        BY <2>1, <3>1, <4>2
    <3> QED
      BY <2>1, <2>2, <3>1 DEF Answered
  <2>4. Version[ssd[h]] # "v0"
    BY <2>1 DEF IsHashed
  <2>5. \A c \in Cells(q_bb[h]) : OwnersOf[ssd[h]][c] \subseteq de_tab[h]
    BY <2>2, <2>3, <2>4, HashCoversOwners DEF HashCoversOwners
  <2> QED
    BY <2>5 DEF Owners
<1> QED
  BY <1>1, CacheInvHolds, PTL

-----------------------------------------------------------------------------
(* Boxes. *)

LEMMA CellsOf ==
  ASSUME NEW d \in Nat, NEW b \in BoxIn(d)
  PROVE  /\ Dims(b) = 1 .. d
         /\ \A c : c \in Cells(b) <=> /\ c \in [1 .. d -> Int]
                                    /\ \A i \in 1 .. d : b.lb[i] <= c[i] /\ c[i] <= b.ub[i]
<1>1. b.lb \in [1 .. d -> Int] /\ b.ub \in [1 .. d -> Int]
  BY DEF BoxIn
<1>2. Dims(b) = 1 .. d
  BY <1>1 DEF Dims
<1> DEFINE U == UNION {b.lb[i] .. b.ub[i] : i \in 1 .. d}
<1>3. \A x \in U : x \in Int
  BY <1>1
<1>4. ASSUME NEW c \in [1 .. d -> Int], \A i \in 1 .. d : b.lb[i] <= c[i] /\ c[i] <= b.ub[i]
      PROVE  c \in [1 .. d -> U]
  <2>1. ASSUME NEW i \in 1 .. d
        PROVE  c[i] \in U
    <3>1. b.lb[i] \in Int /\ b.ub[i] \in Int /\ c[i] \in Int
      BY <1>1
    <3>2. c[i] \in b.lb[i] .. b.ub[i]
      BY <1>4, <3>1
    <3> QED
      BY <3>2
  <2> QED
    BY <2>1
<1>5. \A c \in [1 .. d -> U] : c \in [1 .. d -> Int]
  BY <1>3
<1>6. Cells(b) = {c \in [1 .. d -> U] : \A i \in 1 .. d : b.lb[i] <= c[i] /\ c[i] <= b.ub[i]}
  BY <1>2 DEF Cells
<1> HIDE DEF U
<1> QED
  BY <1>2, <1>4, <1>5, <1>6

(* A box has a first longest dimension. *)
LEMMA LongestDim ==
  ASSUME NEW d \in Nat \ {0}, NEW b \in BoxIn(d)
  PROVE  get_bbox_max_dim_size(b) \in 1 .. d
<1>1. Dims(b) = 1 .. d
  BY CellsOf
<1>2. \A i \in 1 .. d : bbox_dist(b, i) \in Int
  BY DEF BoxIn, bbox_dist
<1> DEFINE longest == {i \in 1 .. d : \A j \in 1 .. d : bbox_dist(b, j) <= bbox_dist(b, i)}
           T == {k \in 0 .. d : k = 0 \/ \E i \in 1 .. k : \A j \in 1 .. k :
                                           bbox_dist(b, j) <= bbox_dist(b, i)}
<1>3. 0 \in T
  OBVIOUS
<1>4. ASSUME NEW k \in 1 .. d, k - 1 \in T
      PROVE  k \in T
  <2>1. CASE k = 1
    BY <1>2, <2>1
  <2>2. CASE k # 1
    <3>1. PICK i \in 1 .. k - 1 : \A j \in 1 .. k - 1 : bbox_dist(b, j) <= bbox_dist(b, i)
      BY <1>4, <2>2
    <3>2. \A j \in 1 .. k : j = k \/ j \in 1 .. k - 1
      OBVIOUS
    <3>3. i \in 1 .. d /\ i \in 1 .. k /\ k \in 1 .. k /\ bbox_dist(b, i) \in Int
          /\ bbox_dist(b, k) \in Int
      BY <1>2
    <3>4. CASE bbox_dist(b, k) <= bbox_dist(b, i)
      BY <3>1, <3>2, <3>3, <3>4
    <3>5. CASE bbox_dist(b, i) < bbox_dist(b, k)
      <4>1. \A j \in 1 .. k : bbox_dist(b, j) <= bbox_dist(b, k)
        BY <1>2, <3>1, <3>2, <3>3, <3>5
      <4> QED
        BY <3>3, <4>1
    <3> QED
      BY <3>3, <3>4, <3>5
  <2> QED
    BY <2>1, <2>2
<1> HIDE DEF T
<1>5. \A k \in 0 .. d : k \in T
  BY <1>3, <1>4, UpTo
<1>6. longest # {}
  BY <1>5 DEF T
<1>7. Min(longest) \in longest
  BY <1>6, LeastHit
<1> QED
  BY <1>1, <1>7 DEF get_bbox_max_dim_size

(* The halves of a box share nothing and leave nothing out. *)
LEMMA HalvesOf ==
  ASSUME NEW d \in Nat, NEW b \in BoxIn(d), NEW dim \in 1 .. d
  PROVE  LET h == bbox_divide_in2_ondim(b, dim)
         IN /\ h[1] \in BoxIn(d) /\ h[2] \in BoxIn(d)
            /\ \A c : c \in Cells(b) <=> c \in Cells(h[1]) \/ c \in Cells(h[2])
            /\ \A c : ~ (c \in Cells(h[1]) /\ c \in Cells(h[2]))
<1> DEFINE n == (b.lb[dim] + b.ub[dim]) \div 2
           h1 == [b EXCEPT !.ub[dim] = n]
           h2 == [b EXCEPT !.lb[dim] = n + 1]
<1>1. b = [lb |-> b.lb, ub |-> b.ub] /\ b.lb \in [1 .. d -> Int] /\ b.ub \in [1 .. d -> Int]
  BY DEF BoxIn
<1>2. /\ b.lb[dim] \in Int /\ b.ub[dim] \in Int /\ n \in Int
      /\ 2 * n <= b.lb[dim] + b.ub[dim] /\ b.lb[dim] + b.ub[dim] <= 2 * n + 1
  BY <1>1
<1> HIDE DEF n
<1>3. /\ h1.lb = b.lb /\ h1.ub = [b.ub EXCEPT ![dim] = n]
      /\ h2.ub = b.ub /\ h2.lb = [b.lb EXCEPT ![dim] = n + 1]
  BY <1>1
<1>4. h1 \in BoxIn(d) /\ h2 \in BoxIn(d)
  <2>1. /\ h1 = [lb |-> b.lb, ub |-> [b.ub EXCEPT ![dim] = n]]
        /\ h2 = [lb |-> [b.lb EXCEPT ![dim] = n + 1], ub |-> b.ub]
    <3> DEFINE H1(x) == [x EXCEPT !.ub[dim] = n]
               H2(x) == [x EXCEPT !.lb[dim] = n + 1]
    <3>1. /\ H1([lb |-> b.lb, ub |-> b.ub]) = [lb |-> b.lb, ub |-> [b.ub EXCEPT ![dim] = n]]
          /\ H2([lb |-> b.lb, ub |-> b.ub]) = [lb |-> [b.lb EXCEPT ![dim] = n + 1], ub |-> b.ub]
      OBVIOUS
    <3>2. h1 = H1(b) /\ h2 = H2(b)
      OBVIOUS
    <3> HIDE DEF h1, h2, H1, H2
    <3> QED
      BY <1>1, <3>1, <3>2
  <2>2. [b.ub EXCEPT ![dim] = n] \in [1 .. d -> Int] /\ [b.lb EXCEPT ![dim] = n + 1] \in [1 .. d -> Int]
    BY <1>1, <1>2
  <2> QED
    BY <1>1, <2>1, <2>2 DEF BoxIn
<1>5. bbox_divide_in2_ondim(b, dim)[1] = h1 /\ bbox_divide_in2_ondim(b, dim)[2] = h2
  BY DEF bbox_divide_in2_ondim, n
<1>6. /\ \A i \in 1 .. d : i # dim => h1.ub[i] = b.ub[i] /\ h2.lb[i] = b.lb[i]
      /\ h1.ub[dim] = n /\ h2.lb[dim] = n + 1
  BY <1>1, <1>3
<1>7. ASSUME NEW c
      PROVE  /\ c \in Cells(b) <=> c \in Cells(h1) \/ c \in Cells(h2)
             /\ ~ (c \in Cells(h1) /\ c \in Cells(h2))
  <2> DEFINE In(x) == \A i \in 1 .. d : x.lb[i] <= c[i] /\ c[i] <= x.ub[i]
  <2>1. /\ c \in Cells(b) <=> c \in [1 .. d -> Int] /\ In(b)
        /\ c \in Cells(h1) <=> c \in [1 .. d -> Int] /\ In(h1)
        /\ c \in Cells(h2) <=> c \in [1 .. d -> Int] /\ In(h2)
    <3> HIDE DEF h1, h2
    <3> QED
      BY <1>4, CellsOf
  <2>2. SUFFICES ASSUME c \in [1 .. d -> Int]
                 PROVE  (In(b) <=> In(h1) \/ In(h2)) /\ ~ (In(h1) /\ In(h2))
    BY <2>1
  <2> HIDE DEF h1, h2
  <2>3. c[dim] \in Int
    BY <2>2
  <2>4. In(b) => In(h1) \/ In(h2)
    <3>1. SUFFICES ASSUME In(b)
                   PROVE  In(h1) \/ In(h2)
      OBVIOUS
    <3>2. CASE c[dim] <= n
      BY <1>3, <1>6, <3>1, <3>2
    <3>3. CASE n + 1 <= c[dim]
      BY <1>3, <1>6, <3>1, <3>3
    <3> QED
      BY <1>2, <2>3, <3>2, <3>3
  <2>5. In(h1) => In(b)
    <3>1. SUFFICES ASSUME In(h1), NEW i \in 1 .. d
                   PROVE  b.lb[i] <= c[i] /\ c[i] <= b.ub[i]
      OBVIOUS
    <3>2. CASE i = dim
      <4>1. b.lb[dim] <= c[dim] /\ c[dim] <= n
        BY <1>3, <1>6, <3>1
      <4> QED
        BY <1>2, <2>3, <3>2, <4>1
    <3>3. CASE i # dim
      BY <1>3, <1>6, <3>1, <3>3
    <3> QED
      BY <3>2, <3>3
  <2>6. In(h2) => In(b)
    <3>1. SUFFICES ASSUME In(h2), NEW i \in 1 .. d
                   PROVE  b.lb[i] <= c[i] /\ c[i] <= b.ub[i]
      OBVIOUS
    <3>2. CASE i = dim
      <4>1. n + 1 <= c[dim] /\ c[dim] <= b.ub[dim]
        BY <1>3, <1>6, <3>1
      <4> QED
        BY <1>2, <2>3, <3>2, <4>1
    <3>3. CASE i # dim
      BY <1>3, <1>6, <3>1, <3>3
    <3> QED
      BY <3>2, <3>3
  <2>7. ~ (In(h1) /\ In(h2))
    <3>1. In(h1) => c[dim] <= n
      BY <1>6
    <3>2. In(h2) => n + 1 <= c[dim]
      BY <1>6
    <3> QED
      BY <1>2, <2>3, <3>1, <3>2
  <2> QED
    BY <2>4, <2>5, <2>6, <2>7
<1> HIDE DEF h1, h2
<1> QED
  BY <1>4, <1>5, <1>7

LEMMA BisectAt ==
  ASSUME NEW d \in Nat \ {0}, NEW boxes \in Seq(BoxIn(d))
  PROVE  /\ Bisect(boxes) \in Seq(BoxIn(d)) /\ Len(Bisect(boxes)) = 2 * Len(boxes)
         /\ \A j \in 1 .. Len(boxes) : \A c :
              /\ c \in Cells(boxes[j]) <=> \/ c \in Cells(Bisect(boxes)[2 * j - 1])
                                        \/ c \in Cells(Bisect(boxes)[2 * j])
              /\ ~ (c \in Cells(Bisect(boxes)[2 * j - 1]) /\ c \in Cells(Bisect(boxes)[2 * j]))
<1> DEFINE Halves(j) == bbox_divide_in2_ondim(boxes[j], get_bbox_max_dim_size(boxes[j]))
           hs == [k \in 1 .. 2 * Len(boxes) |->
                    Halves((k + 1) \div 2)[IF k % 2 = 1 THEN 1 ELSE 2]]
<1>1. Bisect(boxes) = hs
  BY DEF Bisect
<1>2. \A j \in 1 .. Len(boxes) :
        /\ Halves(j)[1] \in BoxIn(d) /\ Halves(j)[2] \in BoxIn(d)
        /\ \A c : c \in Cells(boxes[j]) <=> c \in Cells(Halves(j)[1]) \/ c \in Cells(Halves(j)[2])
        /\ \A c : ~ (c \in Cells(Halves(j)[1]) /\ c \in Cells(Halves(j)[2]))
  <2> TAKE j \in 1 .. Len(boxes)
  <2>1. boxes[j] \in BoxIn(d)
    OBVIOUS
  <2>2. get_bbox_max_dim_size(boxes[j]) \in 1 .. d
    BY <2>1, LongestDim
  <2> QED
    BY <2>1, <2>2, HalvesOf
<1> HIDE DEF Halves
<1>3. Len(boxes) \in Nat
  OBVIOUS
<1>4. \A k \in 1 .. 2 * Len(boxes) :
        (k + 1) \div 2 \in 1 .. Len(boxes) /\ hs[k] \in BoxIn(d)
  <2> TAKE k \in 1 .. 2 * Len(boxes)
  <2>1. (k + 1) \div 2 \in 1 .. Len(boxes)
    BY <1>3
  <2> QED
    BY <1>2, <2>1
<1>5. hs \in Seq(BoxIn(d)) /\ Len(hs) = 2 * Len(boxes)
  <2>1. 2 * Len(boxes) \in Nat
    BY <1>3
  <2>2. hs \in [1 .. 2 * Len(boxes) -> BoxIn(d)]
    BY <1>4
  <2> HIDE DEF hs
  <2> QED
    BY <2>1, <2>2, SeqDef, LenProperties
<1>6. \A j \in 1 .. Len(boxes) : hs[2 * j - 1] = Halves(j)[1] /\ hs[2 * j] = Halves(j)[2]
  <2> TAKE j \in 1 .. Len(boxes)
  <2>1. /\ 2 * j - 1 \in 1 .. 2 * Len(boxes) /\ 2 * j \in 1 .. 2 * Len(boxes)
        /\ ((2 * j - 1) + 1) \div 2 = j /\ (2 * j - 1) % 2 = 1
        /\ (2 * j + 1) \div 2 = j /\ (2 * j) % 2 # 1
    BY <1>3
  <2> QED
    BY <2>1
<1> HIDE DEF hs
<1>7. \A j \in 1 .. Len(boxes) : \A c :
        /\ c \in Cells(boxes[j]) <=> c \in Cells(hs[2 * j - 1]) \/ c \in Cells(hs[2 * j])
        /\ ~ (c \in Cells(hs[2 * j - 1]) /\ c \in Cells(hs[2 * j]))
  BY <1>2, <1>6
<1> QED
  BY <1>1, <1>5, <1>7

(* A sequence of boxes that divides box b: each element of b is in one of  *)
(* them, and they have no others.                                          *)
Divides(boxes, b) ==
  /\ \A c \in Cells(b) : \E k \in 1 .. Len(boxes) : c \in Cells(boxes[k])
  /\ \A k \in 1 .. Len(boxes) : \A c \in Cells(boxes[k]) : c \in Cells(b)
  /\ \A k, m \in 1 .. Len(boxes) : \A c :
       c \in Cells(boxes[k]) /\ c \in Cells(boxes[m]) => k = m

LEMMA BisectDivides ==
  ASSUME NEW d \in Nat \ {0}, NEW b, NEW boxes \in Seq(BoxIn(d)), Divides(boxes, b)
  PROVE  Divides(Bisect(boxes), b)
<1> DEFINE hs == Bisect(boxes)
           L == Len(boxes)
           At(k) == (k + 1) \div 2
<1>1. L \in Nat /\ Len(hs) = 2 * L
  BY BisectAt
<1>2. \A j \in 1 .. L : \A c :
        /\ c \in Cells(boxes[j]) <=> c \in Cells(hs[2 * j - 1]) \/ c \in Cells(hs[2 * j])
        /\ ~ (c \in Cells(hs[2 * j - 1]) /\ c \in Cells(hs[2 * j]))
  BY BisectAt
<1> HIDE DEF hs, L
<1>3. \A k \in 1 .. 2 * L : At(k) \in 1 .. L /\ (k = 2 * At(k) - 1 \/ k = 2 * At(k))
  BY <1>1
<1>4. \A j \in 1 .. L : 2 * j - 1 \in 1 .. 2 * L /\ 2 * j \in 1 .. 2 * L
  BY <1>1
<1> HIDE DEF At
<1>5. \A k \in 1 .. 2 * L : \A c \in Cells(hs[k]) : c \in Cells(boxes[At(k)])
  BY <1>2, <1>3
<1>6. ASSUME NEW c \in Cells(b)
      PROVE  \E k \in 1 .. 2 * L : c \in Cells(hs[k])
  <2>1. PICK j \in 1 .. L : c \in Cells(boxes[j])
    BY DEF Divides, L
  <2> QED
    BY <1>2, <1>4, <2>1
<1>7. ASSUME NEW k \in 1 .. 2 * L, NEW c \in Cells(hs[k])
      PROVE  c \in Cells(b)
  BY <1>3, <1>5, <1>7 DEF Divides, L
<1>8. ASSUME NEW k \in 1 .. 2 * L, NEW m \in 1 .. 2 * L, NEW c, c \in Cells(hs[k]),
             c \in Cells(hs[m])
      PROVE  k = m
  <2>1. At(k) \in 1 .. L /\ At(m) \in 1 .. L
    BY <1>3
  <2>2. At(k) = At(m)
    BY <1>5, <1>8, <2>1 DEF Divides, L
  <2>3. ~ (c \in Cells(hs[2 * At(k) - 1]) /\ c \in Cells(hs[2 * At(k)]))
    BY <1>2, <2>1
  <2> QED
    BY <1>3, <1>8, <2>2, <2>3
<1> QED
  BY <1>1, <1>6, <1>7, <1>8 DEF Divides, hs

LEMMA DoublingsNat ==
  ASSUME NEW n \in Nat
  PROVE  Doublings(n) \in Nat
<1>1. IsFiniteSet(0 .. n)
  BY FS_Interval
<1>2. IsFiniteSet({k \in 0 .. n : 2^k < n})
  BY <1>1, FS_Subset
<1> QED
  BY <1>2, FS_CardinalityType DEF Doublings

(* The queue has a value in each round. *)
LEMMA QueueRuns ==
  ASSUME NEW d \in Nat \ {0}, NEW b \in BoxIn(d)
  PROVE  LET n == Doublings(size_sp)
         IN /\ n \in Nat
            /\ Queue(b) \in [0 .. n -> Seq(BoxIn(d))]
            /\ Queue(b)[0] = <<b>>
            /\ \A i \in 1 .. n : Queue(b)[i] = Bisect(Queue(b)[i - 1])
<1> DEFINE n == Doublings(size_sp)
           S == Seq(BoxIn(d))
           turn == [i \in 1 .. n |-> [x \in S |-> Bisect(x)]]
           Turns(q) == q = [i \in 0 .. n |-> IF i = 0 THEN <<b>> ELSE Bisect(q[i - 1])]
<1>1. n \in Nat
  BY SizeAssumption, DoublingsNat
<1>2. <<b>> \in S
  OBVIOUS
<1> HIDE DEF n
<1>3. \A x \in S : Bisect(x) \in S
  BY BisectAt
<1> HIDE DEF S
<1>4. Loop(turn, n, S)
  BY <1>3 DEF Loop
<1>5. PICK f : Run(f, <<b>>, turn, n, S)
  <2> HIDE DEF turn
  <2> QED
    BY <1>1, <1>2, <1>4, LoopRuns
<1>6. /\ f \in [0 .. n -> S] /\ f[0] = <<b>>
      /\ \A i \in 1 .. n : f[i] = Bisect(f[i - 1])
  <2>1. \A i \in 1 .. n : f[i] = turn[i][f[i - 1]] /\ f[i - 1] \in S
    BY <1>1, <1>5 DEF Run
  <2> QED
    BY <1>5, <2>1 DEF Run
<1>7. Turns(f)
  <2>1. \A i \in 0 .. n : i = 0 \/ i \in 1 .. n
    BY <1>1
  <2> QED
    BY <1>6, <2>1
<1>8. Queue(b) = CHOOSE q : Turns(q)
  BY DEF Queue, n
<1>9. Turns(Queue(b))
  <2> HIDE DEF Turns
  <2> QED
    BY <1>7, <1>8
<1> DEFINE Q == Queue(b)
<1> HIDE DEF Q
<1>10. Turns(Q)
  BY <1>9 DEF Q
<1>11. DOMAIN Q = 0 .. n /\ Q[0] = <<b>>
  BY <1>1, <1>10
<1>12. \A i \in 1 .. n : Q[i] = Bisect(Q[i - 1])
  <2>1. \A i \in 1 .. n : i \in 0 .. n /\ i # 0
    BY <1>1
  <2> QED
    BY <1>10, <2>1
<1>13. \A i \in 0 .. n : Q[i] \in S
  <2> DEFINE T == {i \in 0 .. n : Q[i] \in S}
  <2>1. 0 \in T
    BY <1>1, <1>2, <1>11
  <2>2. \A i \in 1 .. n : i - 1 \in T => i \in T
    BY <1>1, <1>3, <1>12
  <2> HIDE DEF T
  <2>3. \A i \in 0 .. n : i \in T
    BY <1>1, <2>1, <2>2, UpTo
  <2> QED
    BY <2>3 DEF T
<1>14. Q \in [0 .. n -> S]
  <2>1. \A i \in 0 .. n : i = 0 \/ i - 1 \in 0 .. n
    BY <1>1
  <2>2. \A i \in 0 .. n : (IF i = 0 THEN <<b>> ELSE Bisect(Q[i - 1])) \in S
    BY <1>2, <1>3, <1>13, <2>1
  <2> DEFINE F == [i \in 0 .. n |-> IF i = 0 THEN <<b>> ELSE Bisect(Q[i - 1])]
  <2>3. F \in [0 .. n -> S]
    BY <2>2
  <2>4. Q = F
    BY <1>10, Zenon
  <2> HIDE DEF F
  <2> QED
    BY <2>3, <2>4
<1> QED
  BY <1>1, <1>11, <1>12, <1>14 DEF Q, n, S

(* The repeated bisection divides the domain. *)
LEMMA PartsDivide ==
  ASSUME NEW d \in Nat \ {0}, NEW b \in BoxIn(d)
  PROVE  Parts(b) \in Seq(BoxIn(d)) /\ Divides(Parts(b), b)
<1> DEFINE n == Doublings(size_sp)
           Q == Queue(b)
           T == {i \in 0 .. n : Divides(Q[i], b)}
<1>1. /\ n \in Nat /\ Q \in [0 .. n -> Seq(BoxIn(d))] /\ Q[0] = <<b>>
      /\ \A i \in 1 .. n : Q[i] = Bisect(Q[i - 1])
  BY QueueRuns
<1> HIDE DEF n, Q
<1>2. 0 \in T
  <2>1. Len(Q[0]) = 1 /\ Q[0][1] = b
    BY <1>1
  <2>2. Divides(Q[0], b)
    BY <2>1 DEF Divides
  <2>3. 0 \in 0 .. n
    BY <1>1
  <2> QED
    BY <2>2, <2>3, Zenon
<1>3. ASSUME NEW i \in 1 .. n, i - 1 \in T
      PROVE  i \in T
  <2>1. i - 1 \in 0 .. n /\ i \in 0 .. n
    BY <1>1
  <2>2. Q[i - 1] \in Seq(BoxIn(d)) /\ Divides(Q[i - 1], b)
    BY <1>1, <1>3, <2>1
  <2>3. Divides(Bisect(Q[i - 1]), b)
    BY <2>2, BisectDivides
  <2> QED
    BY <1>1, <2>1, <2>3
<1> HIDE DEF T
<1>4. \A i \in 0 .. n : i \in T
  BY <1>1, <1>2, <1>3, UpTo
<1>5. n \in T /\ n \in 0 .. n
  BY <1>1, <1>4
<1> QED
  BY <1>1, <1>5 DEF T, Parts, Q, n

-----------------------------------------------------------------------------
(* The parts are dealt out to s servers in turn: the j-th part of server r *)
(* has number r + 1 + (j - 1) * s.                                         *)

LEMMA Quotient ==
  ASSUME NEW x \in Nat, NEW s \in Nat \ {0}
  PROVE  /\ x \div s \in Nat /\ x % s \in 0 .. s - 1
         /\ x = (x \div s) * s + (x % s)
<1>1. x \div s \in Int /\ x % s \in 0 .. s - 1
  OBVIOUS
<1>2. x = s * (x \div s) + (x % s)
  OBVIOUS
<1>3. s * (x \div s) = (x \div s) * s
  BY <1>1
<1>4. 0 <= x \div s
  OBVIOUS
<1> QED
  BY <1>1, <1>2, <1>3, <1>4

LEMMA TimesMonotone ==
  ASSUME NEW x \in Int, NEW y \in Int, NEW s \in Nat, x <= y
  PROVE  x * s <= y * s
  OBVIOUS

LEMMA QuotientUnique ==
  ASSUME NEW s \in Nat \ {0}, NEW x \in Int, NEW y \in Int, NEW r \in 0 .. s - 1,
         NEW q \in 0 .. s - 1, x * s + r = y * s + q
  PROVE  x = y /\ r = q
<1>1. CASE x < y
  <2>1. (x + 1) * s <= y * s
    BY <1>1, TimesMonotone
  <2>2. x * s + s <= y * s
    BY <2>1
  <2> QED
    BY <2>2
<1>2. CASE y < x
  <2>1. (y + 1) * s <= x * s
    BY <1>2, TimesMonotone
  <2>2. y * s + s <= x * s
    BY <2>1
  <2> QED
    BY <2>2
<1> QED
  BY <1>1, <1>2

Dealt(L, s, r) == (L - r + s - 1) \div s

LEMMA DealtIn ==
  ASSUME NEW L \in Nat, NEW s \in Nat \ {0}, NEW r \in 0 .. s - 1,
         NEW j \in 1 .. Dealt(L, s, r)
  PROVE  r + 1 + (j - 1) * s \in 1 .. L
<1> DEFINE x == L - r + s - 1
           m == Dealt(L, s, r)
<1>1. x \in Nat
  OBVIOUS
<1> HIDE DEF x
<1>2. m = x \div s
  BY DEF Dealt, x
<1>3. m \in Nat /\ m * s <= x
  <2> DEFINE y == x \div s
  <2>1. y \in Nat /\ x % s \in 0 .. s - 1 /\ x = y * s + (x % s)
    BY <1>1, Quotient
  <2>2. x % s \in Nat
    BY <2>1
  <2>3. m = y
    BY <1>2
  <2> HIDE DEF y, m
  <2> DEFINE z == y * s
             w == x % s
  <2>4. z \in Int /\ w \in Nat /\ x = z + w
    BY <2>1, <2>2
  <2> HIDE DEF z, w
  <2>5. z <= x
    BY <1>1, <2>4
  <2> QED
    BY <2>1, <2>3, <2>5 DEF z
<1> HIDE DEF m
<1>4. j \in Int /\ 1 <= j /\ j <= m
  BY <1>3 DEF m
<1>5. j * s <= m * s
  BY <1>3, <1>4, TimesMonotone
<1>6. 0 <= (j - 1) * s
  <2>1. 0 * s <= (j - 1) * s
    BY <1>4, TimesMonotone
  <2> QED
    BY <2>1
<1>7. (j - 1) * s = j * s - s /\ j * s \in Int /\ m * s \in Int /\ (j - 1) * s \in Int
  BY <1>3, <1>4
<1>8. (j - 1) * s + s <= x
  BY <1>1, <1>3, <1>5, <1>7
<1> HIDE DEF Dealt
<1> QED
  BY <1>6, <1>7, <1>8 DEF x

LEMMA DealtAll ==
  ASSUME NEW L \in Nat, NEW s \in Nat \ {0}, NEW k \in 1 .. L
  PROVE  \E r \in 0 .. s - 1 : \E j \in 1 .. Dealt(L, s, r) : r + 1 + (j - 1) * s = k
<1> DEFINE r == (k - 1) % s
           q == (k - 1) \div s
           x == L - r + s - 1
           m == x \div s
<1>1. k - 1 \in Nat
  OBVIOUS
<1>2. q \in Nat /\ r \in 0 .. s - 1 /\ k - 1 = q * s + r
  BY <1>1, Quotient
<1> HIDE DEF r, q
<1>3. x \in Nat
  BY <1>2
<1>4. m \in Nat /\ x % s \in 0 .. s - 1 /\ x = m * s + (x % s)
  BY <1>3, Quotient
<1>5. m = Dealt(L, s, r)
  BY DEF Dealt
<1>6. q * s + s <= x /\ q * s \in Int
  BY <1>2
<1> HIDE DEF x, m
<1>7. q + 1 <= m
  <2>1. SUFFICES ASSUME m <= q
                 PROVE  FALSE
    BY <1>2, <1>4
  <2>2. m * s <= q * s /\ m * s \in Int
    BY <1>2, <1>4, <2>1, TimesMonotone
  <2>3. x % s \in Int /\ x % s < s
    BY <1>4
  <2> QED
    BY <1>3, <1>4, <1>6, <2>2, <2>3
<1>8. q + 1 \in 1 .. m /\ r + 1 + ((q + 1) - 1) * s = k
  BY <1>2, <1>4, <1>7
<1> QED
  BY <1>2, <1>5, <1>8

LEMMA DealtOnce ==
  ASSUME NEW s \in Nat \ {0}, NEW r \in 0 .. s - 1, NEW q \in 0 .. s - 1, NEW i \in Int,
         NEW j \in Int, r + 1 + (i - 1) * s = q + 1 + (j - 1) * s
  PROVE  r = q
<1> DEFINE x == i - 1
           y == j - 1
<1>1. x \in Int /\ y \in Int /\ x * s \in Int /\ y * s \in Int
  OBVIOUS
<1>2. r + 1 + x * s = q + 1 + y * s
  OBVIOUS
<1> HIDE DEF x, y
<1>3. x * s + r = y * s + q
  BY <1>1, <1>2
<1> QED
  BY <1>1, <1>3, QuotientUnique

(* The boxes of a server. *)
LEMMA TabOf ==
  ASSUME NEW b, NEW r \in Rank
  PROVE  ssd_alloc_v2(b).ent_tab[r] =
           [j \in 1 .. Dealt(Len(Parts(b)), size_sp, r) |-> Parts(b)[r + 1 + (j - 1) * size_sp]]
  BY DEF ssd_alloc_v2, Space, Dealt

(* ssd_alloc_v2 gives each element of a domain to one server, for every    *)
(* domain and number of servers: no element is indexed twice or nowhere.   *)
THEOREM BisectionIndexesOnce ==
  ASSUME NEW d \in Nat \ {0}, NEW b \in BoxIn(d), NEW c \in Cells(b)
  PROVE  \E r \in Rank : IndexedBy_v2(ssd_alloc_v2(b), c) = {r}
<1> DEFINE parts == Parts(b)
           L == Len(parts)
           s == size_sp
           tab == ssd_alloc_v2(b).ent_tab
<1>1. parts \in Seq(BoxIn(d)) /\ Divides(parts, b) /\ L \in Nat
  BY PartsDivide
<1>2. s \in Nat \ {0} /\ Rank = 0 .. s - 1
  BY SizeAssumption DEF Rank
<1>3. \A r \in Rank : tab[r] = [j \in 1 .. Dealt(L, s, r) |-> parts[r + 1 + (j - 1) * s]]
  BY TabOf
<1> HIDE DEF parts, L, s, tab
<1>4. PICK k \in 1 .. L : c \in Cells(parts[k])
  BY <1>1 DEF Divides, L
<1>5. PICK r \in 0 .. s - 1 : \E j \in 1 .. Dealt(L, s, r) : r + 1 + (j - 1) * s = k
  BY <1>1, <1>2, DealtAll
<1>6. PICK j \in 1 .. Dealt(L, s, r) : r + 1 + (j - 1) * s = k
  BY <1>5
<1>7. r \in IndexedBy_v2(ssd_alloc_v2(b), c)
  <2>1. tab[r] = [i \in 1 .. Dealt(L, s, r) |-> parts[r + 1 + (i - 1) * s]]
    BY <1>2, <1>3
  <2>2. j \in DOMAIN tab[r] /\ tab[r][j] = parts[k]
    BY <1>6, <2>1
  <2> QED
    BY <1>2, <1>4, <2>2 DEF IndexedBy_v2, tab
<1>8. ASSUME NEW q \in IndexedBy_v2(ssd_alloc_v2(b), c)
      PROVE  q = r
  <2>1. q \in Rank /\ \E i \in DOMAIN tab[q] : c \in Cells(tab[q][i])
    BY DEF IndexedBy_v2, tab
  <2>2. PICK i \in 1 .. Dealt(L, s, q) : c \in Cells(parts[q + 1 + (i - 1) * s])
    <3>1. tab[q] = [i \in 1 .. Dealt(L, s, q) |-> parts[q + 1 + (i - 1) * s]]
      BY <1>3, <2>1
    <3> QED
      BY <2>1, <3>1
  <2>3. q \in 0 .. s - 1
    BY <1>2, <2>1
  <2>4. q + 1 + (i - 1) * s \in 1 .. L
    BY <1>1, <1>2, <2>3, DealtIn
  <2>5. q + 1 + (i - 1) * s = k
    BY <1>1, <1>4, <2>2, <2>4 DEF Divides, L
  <2>6. i \in Int /\ j \in Int
    OBVIOUS
  <2> QED
    BY <1>2, <1>6, <2>3, <2>5, <2>6, DealtOnce
<1> QED
  BY <1>2, <1>7, <1>8

(* Boxes with a common element intersect. *)
LEMMA CommonCell ==
  ASSUME NEW d \in Nat, NEW p \in BoxIn(d), NEW q \in BoxIn(d), NEW c \in Cells(p),
         c \in Cells(q)
  PROVE  bbox_does_intersect(p, q)
<1>1. /\ c \in [1 .. d -> Int] /\ Dims(p) = 1 .. d
      /\ \A i \in 1 .. d : p.lb[i] <= c[i] /\ c[i] <= p.ub[i]
      /\ \A i \in 1 .. d : q.lb[i] <= c[i] /\ c[i] <= q.ub[i]
  BY CellsOf
<1>2. ASSUME NEW i \in 1 .. d
      PROVE  \/ p.lb[i] <= q.lb[i] /\ q.lb[i] <= p.ub[i]
             \/ q.lb[i] <= p.lb[i] /\ p.lb[i] <= q.ub[i]
  <2>1. /\ p.lb[i] \in Int /\ q.lb[i] \in Int /\ p.ub[i] \in Int /\ q.ub[i] \in Int
        /\ c[i] \in Int
    BY <1>1 DEF BoxIn
  <2>2. p.lb[i] <= c[i] /\ c[i] <= p.ub[i] /\ q.lb[i] <= c[i] /\ c[i] <= q.ub[i]
    BY <1>1
  <2> QED
    BY <2>1, <2>2
<1> QED
  BY <1>1, <1>2 DEF bbox_does_intersect

(* ssd_hash_v2 gives every server that indexes an element of the box. *)
THEOREM BisectionHashCovers ==
  ASSUME NEW d \in Nat \ {0}, NEW b \in BoxIn(d), NEW bb \in BoxIn(d), NEW c \in Cells(bb)
  PROVE  IndexedBy_v2(ssd_alloc_v2(b), c) \subseteq ssd_hash_v2(ssd_alloc_v2(b), bb)
<1> DEFINE parts == Parts(b)
           tab == ssd_alloc_v2(b).ent_tab
<1>1. SUFFICES ASSUME NEW r \in Rank, NEW j \in DOMAIN tab[r], c \in Cells(tab[r][j])
               PROVE  bbox_does_intersect(bb, tab[r][j])
  BY DEF IndexedBy_v2, ssd_hash_v2
<1>2. parts \in Seq(BoxIn(d)) /\ Len(parts) \in Nat
  BY PartsDivide
<1>3. size_sp \in Nat \ {0} /\ r \in 0 .. size_sp - 1
  BY SizeAssumption DEF Rank
<1>4. tab[r] = [i \in 1 .. Dealt(Len(parts), size_sp, r) |-> parts[r + 1 + (i - 1) * size_sp]]
  BY TabOf
<1> HIDE DEF parts, tab
<1>5. j \in 1 .. Dealt(Len(parts), size_sp, r) /\ tab[r][j] = parts[r + 1 + (j - 1) * size_sp]
  BY <1>4
<1>6. r + 1 + (j - 1) * size_sp \in 1 .. Len(parts)
  BY <1>2, <1>3, <1>5, DealtIn
<1>7. tab[r][j] \in BoxIn(d)
  BY <1>2, <1>5, <1>6
<1> QED
  BY <1>1, <1>7, CommonCell

(* A put tells, and a query asks, every server that indexes an element of  *)
(* its box, whatever the domains, the boxes and the number of servers, as  *)
(* long as the box was hashed in one space only: bisected domains need no  *)
(* hypothesis, those on the curve that the curve covers their boxes.       *)
THEOREM BisectionFindsOwners ==
  ASSUME VersionsKnown, Bisected(Gdim), CurveCovers(Gdim)
  PROVE  SpaceSpec => []HashFindsOwnersAlone
<1>1. HashCoversOwners
  <2>1. SUFFICES ASSUME NEW g \in Gdim, Version[g] # "v0", NEW b \in BoxesOf[g],
                        NEW c \in Cells(b)
                 PROVE  OwnersOf[g][c] \subseteq HashOf[g][b]
    BY DEF HashCoversOwners
  <2>2. CASE Version[g] = "v1"
    BY <2>2, CurveCovers(Gdim) DEF CurveCovers
  <2>3. CASE Version[g] = "v2"
    <3> DEFINE space == ssd_alloc_v2(BoxOfSize(g))
    <3>1. BisectedAs(g, space)
      BY <2>3, Bisected(Gdim) DEF Bisected
    <3> HIDE DEF space
    <3>2. /\ Len(g) # 0 /\ b \in BoxIn(Len(g)) /\ Cells(b) \subseteq Cells(BoxOfSize(g))
          /\ HashOf[g][b] = ssd_hash_v2(space, b)
      BY <3>1 DEF BisectedAs
    <3>3. OwnersOf[g][c] = IndexedBy_v2(space, c)
      BY <3>1, <3>2 DEF BisectedAs
    <3>4. g \in Seq(Nat) /\ Len(g) \in Nat /\ DOMAIN g = 1 .. Len(g)
      BY GdimAssumption
    <3>5. BoxOfSize(g) \in BoxIn(Len(g))
      BY <3>4 DEF BoxOfSize, BoxIn
    <3>6. IndexedBy_v2(space, c) \subseteq ssd_hash_v2(space, b)
      BY <3>2, <3>4, <3>5, BisectionHashCovers DEF space
    <3> QED
      BY <3>2, <3>3, <3>6
  <2> QED
    BY <2>1, <2>2, <2>3, VersionsKnown DEF VersionsKnown
<1> QED
  BY <1>1, CacheIsTransparent

-----------------------------------------------------------------------------
(* Positions in the data of a box (Copy). *)

(* A box with elements. *)
SolidBox(d) == {b \in BoxIn(d) : \A i \in 1 .. d : b.lb[i] <= b.ub[i]}

Sizes(d) == [1 .. d -> Nat \ {0}]

LEMMA LenOf ==
  ASSUME NEW d \in Nat, NEW S, NEW f \in [1 .. d -> S]
  PROVE  f \in Seq(S) /\ Len(f) = d /\ DOMAIN f = 1 .. d
<1>1. f \in Seq(S)
  BY SeqDef
<1> QED
  BY <1>1, LenProperties

(* The sizes of a box with elements, and the places its elements take. *)
LEMMA DistOf ==
  ASSUME NEW d \in Nat, NEW b \in SolidBox(d)
  PROVE  /\ b \in BoxIn(d) /\ Dims(b) = 1 .. d /\ Len(b.lb) = d
         /\ b.lb \in [1 .. d -> Int] /\ b.ub \in [1 .. d -> Int]
         /\ Dist(b) \in Sizes(d)
         /\ \A i \in 1 .. d : Dist(b)[i] = bbox_dist(b, i) /\ bbox_dist(b, i) = b.ub[i] - b.lb[i] + 1
<1>1. b \in BoxIn(d) /\ \A i \in 1 .. d : b.lb[i] <= b.ub[i]
  BY DEF SolidBox
<1>2. b.lb \in [1 .. d -> Int] /\ b.ub \in [1 .. d -> Int]
  BY <1>1 DEF BoxIn
<1>3. Dims(b) = 1 .. d /\ Len(b.lb) = d
  BY <1>1, <1>2, CellsOf, LenOf
<1>4. \A i \in 1 .. d : /\ bbox_dist(b, i) = b.ub[i] - b.lb[i] + 1
                       /\ bbox_dist(b, i) \in Nat \ {0}
  BY <1>1, <1>2 DEF bbox_dist
<1>5. Dist(b) \in Sizes(d) /\ \A i \in 1 .. d : Dist(b)[i] = bbox_dist(b, i)
  BY <1>3, <1>4 DEF Dist, Sizes
<1> QED
  BY <1>1, <1>2, <1>3, <1>4, <1>5

(* The products of the first sizes. *)
Products(P, dist, d) ==
  /\ P \in [0 .. d -> Nat \ {0}]
  /\ P[0] = 1
  /\ \A i \in 1 .. d : P[i] = P[i - 1] * dist[i]

(* A box that is at worst inverted by one, as bbox_divide_in2_ondim leaves *)
(* it.                                                                     *)
ThinBox(d) == {b \in BoxIn(d) : \A i \in 1 .. d : b.lb[i] <= b.ub[i] + 1}

LEMMA VolumeRuns ==
  ASSUME NEW d \in Nat, NEW b \in ThinBox(d)
  PROVE  \E P : /\ P \in [0 .. d -> Nat] /\ P[0] = 1 /\ bbox_volume(b) = P[d]
               /\ \A i \in 1 .. d : P[i] = P[i - 1] * bbox_dist(b, i)
<1> DEFINE turn == [i \in 1 .. d |-> [x \in Nat |-> x * bbox_dist(b, i)]]
           Turns(q) == q = [i \in 0 .. d |-> IF i = 0 THEN 1 ELSE q[i - 1] * bbox_dist(b, i)]
           n == CHOOSE q : Turns(q)
<1>1. b.lb \in [1 .. d -> Int] /\ b.ub \in [1 .. d -> Int]
  BY DEF ThinBox, BoxIn
<1>2. Len(b.lb) = d
  BY <1>1, LenOf
<1>3. \A i \in 1 .. d : bbox_dist(b, i) \in Nat
  BY <1>1 DEF ThinBox, bbox_dist
<1>4. Loop(turn, d, Nat)
  BY <1>3 DEF Loop
<1>5. PICK f : Run(f, 1, turn, d, Nat)
  <2> HIDE DEF turn
  <2> QED
    BY <1>4, LoopRuns
<1>6. f \in [0 .. d -> Nat] /\ f[0] = 1
  BY <1>5 DEF Run
<1>7. \A i \in 1 .. d : f[i - 1] \in Nat
  BY <1>6
<1>8. \A i \in 1 .. d : f[i] = f[i - 1] * bbox_dist(b, i)
  BY <1>5, <1>7 DEF Run
<1>9. Turns(f)
  <2>1. \A i \in 0 .. d : i = 0 \/ i \in 1 .. d
    OBVIOUS
  <2> QED
    BY <1>6, <1>8, <2>1
<1>10. Turns(n)
  <2> HIDE DEF Turns
  <2> QED
    BY <1>9
<1>11. bbox_volume(b) = n[d]
  BY <1>2 DEF bbox_volume
<1> HIDE DEF n
<1>12. n[0] = 1 /\ \A i \in 1 .. d : n[i] = n[i - 1] * bbox_dist(b, i)
  <2>1. \A i \in 1 .. d : i \in 0 .. d /\ i # 0
    OBVIOUS
  <2> QED
    BY <1>10, <2>1
<1>13. \A i \in 0 .. d : n[i] = f[i]
  <2> DEFINE T == {i \in 0 .. d : n[i] = f[i]}
  <2>1. 0 \in T
    BY <1>6, <1>12
  <2>2. \A i \in 1 .. d : i - 1 \in T => i \in T
    BY <1>8, <1>12
  <2> HIDE DEF T
  <2>3. \A i \in 0 .. d : i \in T
    BY <2>1, <2>2, UpTo
  <2> QED
    BY <2>3 DEF T
<1>14. bbox_volume(b) = f[d]
  BY <1>11, <1>13
<1> QED
  BY <1>6, <1>8, <1>14

LEMMA SolidIsThin ==
  ASSUME NEW d \in Nat, NEW b \in SolidBox(d)
  PROVE  b \in ThinBox(d)
<1>1. b \in BoxIn(d) /\ b.lb \in [1 .. d -> Int] /\ b.ub \in [1 .. d -> Int]
  BY DistOf
<1>2. \A i \in 1 .. d : b.lb[i] <= b.ub[i] + 1
  BY <1>1 DEF SolidBox
<1> QED
  BY <1>1, <1>2 DEF ThinBox

LEMMA VolumeOf ==
  ASSUME NEW d \in Nat, NEW b \in SolidBox(d)
  PROVE  \E P : Products(P, Dist(b), d) /\ bbox_volume(b) = P[d]
<1> DEFINE dist == Dist(b)
<1>1. \A i \in 1 .. d : dist[i] = bbox_dist(b, i) /\ dist[i] \in Nat \ {0}
  BY DistOf DEF Sizes
<1>2. PICK P : /\ P \in [0 .. d -> Nat] /\ P[0] = 1 /\ bbox_volume(b) = P[d]
               /\ \A i \in 1 .. d : P[i] = P[i - 1] * bbox_dist(b, i)
  BY SolidIsThin, VolumeRuns
<1> HIDE DEF dist
<1>3. \A i \in 1 .. d : P[i] = P[i - 1] * dist[i]
  BY <1>1, <1>2
<1>4. \A i \in 0 .. d : P[i] \in Nat \ {0}
  <2> DEFINE T == {i \in 0 .. d : P[i] \in Nat \ {0}}
  <2>1. 0 \in T
    BY <1>2
  <2>2. \A i \in 1 .. d : i - 1 \in T => i \in T
    BY <1>1, <1>3
  <2> HIDE DEF T
  <2>3. \A i \in 0 .. d : i \in T
    BY <2>1, <2>2, UpTo
  <2> QED
    BY <2>3 DEF T
<1>5. P \in [0 .. d -> Nat \ {0}]
  BY <1>2, <1>4
<1>6. Products(P, dist, d)
  BY <1>2, <1>3, <1>5 DEF Products
<1> QED
  BY <1>2, <1>6 DEF dist

(* The distances k from the lower corner, as a number with the sizes for   *)
(* digits: loc[i] is what the digits from i on amount to.                  *)
Digits(loc, dist, k, d) ==
  /\ loc \in [1 .. d -> Nat]
  /\ loc[d] = k[d]
  /\ \A i \in 1 .. d - 1 : loc[i] = loc[i + 1] * dist[i] + k[i]

LEMMA OffsetOf ==
  ASSUME NEW d \in Nat \ {0}, NEW dist \in Sizes(d), NEW k \in [1 .. d -> Nat]
  PROVE  \E loc : Digits(loc, dist, k, d) /\ Offset(dist, k) = loc[1]
<1> DEFINE turn == [t \in 1 .. d - 1 |-> [x \in Nat |-> x * dist[d - t] + k[d - t]]]
           Turns(q) == q = [i \in 1 .. d |-> IF i = d THEN k[i] ELSE q[i + 1] * dist[i] + k[i]]
           n == CHOOSE q : Turns(q)
<1>1. DOMAIN k = 1 .. d /\ Len(k) = d
  BY LenOf
<1>2. \A i \in 1 .. d : dist[i] \in Nat /\ k[i] \in Nat
  BY DEF Sizes
<1>3. \A t \in 1 .. d - 1 : d - t \in 1 .. d
  OBVIOUS
<1>4. Loop(turn, d - 1, Nat)
  <2>1. ASSUME NEW t \in 1 .. d - 1, NEW x \in Nat
        PROVE  x * dist[d - t] + k[d - t] \in Nat
    <3> DEFINE y == dist[d - t]
               z == k[d - t]
    <3>1. y \in Nat /\ z \in Nat
      BY <1>2, <1>3
    <3> HIDE DEF y, z
    <3>2. x * y + z \in Nat
      BY <3>1
    <3> QED
      BY <3>2 DEF y, z
  <2> QED
    BY <2>1 DEF Loop
<1>5. PICK f : Run(f, k[d], turn, d - 1, Nat)
  <2>1. d - 1 \in Nat /\ k[d] \in Nat
    BY <1>2
  <2> HIDE DEF turn
  <2> QED
    BY <1>4, <2>1, LoopRuns
<1>6. f \in [0 .. d - 1 -> Nat] /\ f[0] = k[d]
  BY <1>5 DEF Run
<1>7. \A t \in 1 .. d - 1 : f[t - 1] \in Nat
  BY <1>6
<1>8. \A t \in 1 .. d - 1 : f[t] = f[t - 1] * dist[d - t] + k[d - t]
  BY <1>5, <1>7 DEF Run
<1> DEFINE loc == [i \in 1 .. d |-> f[d - i]]
<1>9. loc \in [1 .. d -> Nat] /\ loc[d] = k[d]
  BY <1>6
<1>10. ASSUME NEW i \in 1 .. d - 1
       PROVE  loc[i] = loc[i + 1] * dist[i] + k[i]
  <2>1. d - i \in 1 .. d - 1 /\ d - (d - i) = i /\ (d - i) - 1 = d - (i + 1)
    OBVIOUS
  <2>2. f[d - i] = f[(d - i) - 1] * dist[d - (d - i)] + k[d - (d - i)]
    BY <1>8, <2>1
  <2>3. f[d - i] = f[d - (i + 1)] * dist[i] + k[i]
    BY <2>1, <2>2
  <2>4. loc[i] = f[d - i] /\ loc[i + 1] = f[d - (i + 1)]
    OBVIOUS
  <2> QED
    BY <2>3, <2>4
<1> HIDE DEF loc
<1>11. Turns(loc)
  <2>1. \A i \in 1 .. d : i = d \/ i \in 1 .. d - 1
    OBVIOUS
  <2>2. \A i \in 1 .. d : loc[i] = (IF i = d THEN k[i] ELSE loc[i + 1] * dist[i] + k[i])
    BY <1>9, <1>10, <2>1
  <2> QED
    BY <1>9, <2>2
<1>12. Turns(n)
  <2> HIDE DEF Turns
  <2> QED
    BY <1>11
<1>13. Offset(dist, k) = n[1]
  BY <1>1 DEF Offset
<1> HIDE DEF n
<1>14. n[d] = k[d] /\ \A i \in 1 .. d - 1 : n[i] = n[i + 1] * dist[i] + k[i]
  <2>1. \A i \in 1 .. d - 1 : i \in 1 .. d /\ i # d
    OBVIOUS
  <2> QED
    BY <1>12, <2>1
<1>15. \A t \in 0 .. d - 1 : n[d - t] = loc[d - t]
  <2> DEFINE T == {t \in 0 .. d - 1 : n[d - t] = loc[d - t]}
  <2>1. 0 \in T
    BY <1>9, <1>14
  <2>2. ASSUME NEW t \in 1 .. d - 1, t - 1 \in T
        PROVE  t \in T
    <3>1. d - t \in 1 .. d - 1 /\ (d - t) + 1 = d - (t - 1)
      OBVIOUS
    <3>2. n[(d - t) + 1] = loc[(d - t) + 1]
      BY <2>2, <3>1
    <3>3. n[d - t] = loc[d - t]
      BY <1>10, <1>14, <3>1, <3>2
    <3> QED
      BY <3>3
  <2> HIDE DEF T
  <2>3. d - 1 \in Nat
    OBVIOUS
  <2>4. \A t \in 0 .. d - 1 : t \in T
    BY <2>1, <2>2, <2>3, UpTo
  <2> QED
    BY <2>4 DEF T
<1>16. n[1] = loc[1]
  <2>1. d - 1 \in 0 .. d - 1 /\ d - (d - 1) = 1
    OBVIOUS
  <2> QED
    BY <1>15, <2>1
<1>17. Digits(loc, dist, k, d)
  BY <1>9, <1>10 DEF Digits
<1> QED
  BY <1>13, <1>16, <1>17

(* The position, divided by the sizes one after the other. *)
Quotients(rest, dist, pos, d) ==
  /\ rest \in [1 .. d -> Nat]
  /\ rest[1] = pos
  /\ \A i \in 2 .. d : rest[i] = rest[i - 1] \div dist[i - 1]

LEMMA CellAtOf ==
  ASSUME NEW d \in Nat \ {0}, NEW b \in SolidBox(d), NEW pos \in Nat
  PROVE  \E rest : /\ Quotients(rest, Dist(b), pos, d)
                  /\ CellAt(b, pos) = [i \in 1 .. d |-> b.lb[i] + (rest[i] % Dist(b)[i])]
<1> DEFINE dist == Dist(b)
           turn == [t \in 1 .. d - 1 |-> [x \in Nat |-> x \div dist[t]]]
           Turns(q) == q = [i \in 1 .. d |-> IF i = 1 THEN pos ELSE q[i - 1] \div bbox_dist(b, i - 1)]
           n == CHOOSE q : Turns(q)
<1>1. /\ Dims(b) = 1 .. d
      /\ \A i \in 1 .. d : dist[i] = bbox_dist(b, i) /\ dist[i] \in Nat \ {0}
  BY DistOf DEF Sizes
<1>2. CellAt(b, pos) = [i \in 1 .. d |-> b.lb[i] + (n[i] % dist[i])]
  BY <1>1 DEF CellAt
<1> HIDE DEF dist
<1>3. Loop(turn, d - 1, Nat)
  <2>1. ASSUME NEW t \in 1 .. d - 1, NEW x \in Nat
        PROVE  x \div dist[t] \in Nat
    <3>1. dist[t] \in Nat \ {0}
      BY <1>1
    <3> QED
      BY <3>1, Quotient
  <2> QED
    BY <2>1 DEF Loop
<1>4. PICK f : Run(f, pos, turn, d - 1, Nat)
  <2>1. d - 1 \in Nat
    OBVIOUS
  <2> HIDE DEF turn
  <2> QED
    BY <1>3, <2>1, LoopRuns
<1>5. f \in [0 .. d - 1 -> Nat] /\ f[0] = pos
  BY <1>4 DEF Run
<1>6. \A t \in 1 .. d - 1 : f[t - 1] \in Nat
  BY <1>5
<1>7. \A t \in 1 .. d - 1 : f[t] = f[t - 1] \div dist[t]
  BY <1>4, <1>6 DEF Run
<1> DEFINE rest == [i \in 1 .. d |-> f[i - 1]]
<1>8. rest \in [1 .. d -> Nat] /\ rest[1] = pos
  BY <1>5
<1>9. ASSUME NEW i \in 2 .. d
      PROVE  rest[i] = rest[i - 1] \div dist[i - 1]
  <2>1. i - 1 \in 1 .. d - 1 /\ i \in 1 .. d /\ i - 1 \in 1 .. d
    OBVIOUS
  <2>2. f[i - 1] = f[(i - 1) - 1] \div dist[i - 1]
    BY <1>7, <2>1
  <2> QED
    BY <2>1, <2>2
<1> HIDE DEF rest
<1>10. \A i \in 1 .. d : i = 1 \/ i \in 2 .. d
  OBVIOUS
<1>11. \A i \in 2 .. d : i - 1 \in 1 .. d /\ i \in 1 .. d /\ i # 1
  OBVIOUS
<1>12. Turns(rest)
  <2>1. \A i \in 1 .. d : rest[i] = (IF i = 1 THEN pos ELSE rest[i - 1] \div bbox_dist(b, i - 1))
    BY <1>1, <1>8, <1>9, <1>10, <1>11
  <2> QED
    BY <1>8, <2>1
<1>13. Turns(n)
  <2> HIDE DEF Turns
  <2> QED
    BY <1>12
<1> HIDE DEF n
<1>14. n[1] = pos /\ \A i \in 2 .. d : n[i] = n[i - 1] \div dist[i - 1]
  BY <1>1, <1>11, <1>13
<1>15. \A t \in 0 .. d - 1 : n[t + 1] = rest[t + 1]
  <2> DEFINE T == {t \in 0 .. d - 1 : n[t + 1] = rest[t + 1]}
  <2>1. 0 \in T
    BY <1>8, <1>14
  <2>2. ASSUME NEW t \in 1 .. d - 1, t - 1 \in T
        PROVE  t \in T
    <3>1. t + 1 \in 2 .. d /\ (t + 1) - 1 = (t - 1) + 1
      OBVIOUS
    <3>2. n[(t + 1) - 1] = rest[(t + 1) - 1]
      BY <2>2, <3>1
    <3>3. n[t + 1] = rest[t + 1]
      BY <1>9, <1>14, <3>1, <3>2
    <3> QED
      BY <3>3
  <2> HIDE DEF T
  <2>3. d - 1 \in Nat
    OBVIOUS
  <2>4. \A t \in 0 .. d - 1 : t \in T
    BY <2>1, <2>2, <2>3, UpTo
  <2> QED
    BY <2>4 DEF T
<1>16. \A i \in 1 .. d : n[i] = rest[i]
  <2> TAKE i \in 1 .. d
  <2>1. i - 1 \in 0 .. d - 1 /\ (i - 1) + 1 = i
    OBVIOUS
  <2> QED
    BY <1>15, <2>1
<1>17. Quotients(rest, dist, pos, d)
  BY <1>8, <1>9 DEF Quotients
<1>18. CellAt(b, pos) = [i \in 1 .. d |-> b.lb[i] + (rest[i] % dist[i])]
  BY <1>2, <1>16
<1> QED
  BY <1>17, <1>18 DEF dist

(* A number with digits below the sizes has these digits. *)
LEMMA DigitsRead ==
  ASSUME NEW d \in Nat \ {0}, NEW dist \in Sizes(d), NEW k \in [1 .. d -> Nat],
         \A i \in 1 .. d : k[i] < dist[i], NEW loc, Digits(loc, dist, k, d),
         NEW rest, Quotients(rest, dist, loc[1], d)
  PROVE  \A i \in 1 .. d : rest[i] % dist[i] = k[i]
<1>1. \A i \in 1 .. d : loc[i] \in Nat /\ dist[i] \in Nat \ {0} /\ k[i] \in 0 .. dist[i] - 1
  BY DEF Digits, Sizes
<1>2. ASSUME NEW i \in 1 .. d - 1
      PROVE  loc[i] \div dist[i] = loc[i + 1] /\ loc[i] % dist[i] = k[i]
  <2> DEFINE x == loc[i]
             y == loc[i + 1]
             s == dist[i]
             z == k[i]
  <2>1. x \in Nat /\ y \in Nat /\ s \in Nat \ {0} /\ z \in 0 .. s - 1
    BY <1>1
  <2>2. x = y * s + z
    BY DEF Digits
  <2> HIDE DEF x, y, s, z
  <2>3. x \div s \in Nat /\ x % s \in 0 .. s - 1 /\ x = (x \div s) * s + (x % s)
    BY <2>1, Quotient
  <2> DEFINE u == x \div s
             v == x % s
  <2>4. u \in Int /\ y \in Int /\ v \in 0 .. s - 1 /\ u * s + v = y * s + z
    BY <2>1, <2>2, <2>3
  <2> HIDE DEF u, v
  <2>5. u = y /\ v = z
    BY <2>1, <2>4, QuotientUnique
  <2> QED
    BY <2>5 DEF u, v, x, y, s, z
<1>3. \A t \in 0 .. d - 1 : rest[t + 1] = loc[t + 1]
  <2> DEFINE T == {t \in 0 .. d - 1 : rest[t + 1] = loc[t + 1]}
  <2>1. 0 \in T
    BY DEF Quotients
  <2>2. ASSUME NEW t \in 1 .. d - 1, t - 1 \in T
        PROVE  t \in T
    <3>1. t + 1 \in 2 .. d /\ (t + 1) - 1 = t /\ (t - 1) + 1 = t
      OBVIOUS
    <3>2. rest[t] = loc[t]
      BY <2>2, <3>1
    <3>3. rest[t + 1] = rest[t] \div dist[t]
      BY <3>1 DEF Quotients
    <3>4. rest[t + 1] = loc[t + 1]
      BY <1>2, <3>2, <3>3
    <3> QED
      BY <3>4
  <2> HIDE DEF T
  <2>3. d - 1 \in Nat
    OBVIOUS
  <2>4. \A t \in 0 .. d - 1 : t \in T
    BY <2>1, <2>2, <2>3, UpTo
  <2> QED
    BY <2>4 DEF T
<1>4. ASSUME NEW i \in 1 .. d
      PROVE  rest[i] % dist[i] = k[i]
  <2>1. rest[i] = loc[i]
    <3>1. i - 1 \in 0 .. d - 1 /\ (i - 1) + 1 = i
      OBVIOUS
    <3> QED
      BY <1>3, <3>1
  <2>2. CASE i = d
    <3>1. loc[d] = k[d]
      BY DEF Digits
    <3> DEFINE z == k[d]
               s == dist[d]
    <3>2. z \in Nat /\ s \in Nat \ {0} /\ z < s
      BY <1>1
    <3> HIDE DEF z, s
    <3>3. z % s = z
      BY <3>2
    <3> QED
      BY <2>1, <2>2, <3>1, <3>3 DEF z, s
  <2>3. CASE i # d
    <3>1. i \in 1 .. d - 1
      BY <2>3
    <3> QED
      BY <1>2, <2>1, <3>1
  <2> QED
    BY <2>2, <2>3
<1> QED
  BY <1>4

(* It is less than the product of the sizes. *)
LEMMA DigitsBelow ==
  ASSUME NEW d \in Nat \ {0}, NEW dist \in Sizes(d), NEW k \in [1 .. d -> Nat],
         \A i \in 1 .. d : k[i] < dist[i], NEW loc, Digits(loc, dist, k, d),
         NEW P, Products(P, dist, d)
  PROVE  loc[1] \in 0 .. P[d] - 1
<1>1. \A i \in 1 .. d : loc[i] \in Nat /\ dist[i] \in Nat \ {0} /\ k[i] \in 0 .. dist[i] - 1
  BY DEF Digits, Sizes
<1>2. /\ \A i \in 0 .. d : P[i] \in Nat
      /\ \A i \in 1 .. d : P[i] = P[i - 1] * dist[i]
      /\ P[0] = 1
  BY DEF Products
<1> DEFINE Fits(i) == (loc[i] + 1) * P[i - 1] <= P[d]
           T == {t \in 0 .. d - 1 : Fits(d - t)}
<1>3. Fits(d)
  <2> DEFINE x == k[d] + 1
             s == dist[d]
             p == P[d - 1]
  <2>1. x \in Int /\ s \in Int /\ p \in Nat /\ x <= s
    BY <1>1, <1>2
  <2>2. loc[d] + 1 = x /\ P[d] = p * s
    BY <1>2 DEF Digits
  <2> HIDE DEF x, s, p
  <2>3. x * p <= s * p
    BY <2>1, TimesMonotone
  <2>4. s * p = p * s
    BY <2>1
  <2> QED
    BY <2>2, <2>3, <2>4 DEF p
<1>4. ASSUME NEW i \in 1 .. d - 1, Fits(i + 1)
      PROVE  Fits(i)
  <2> DEFINE x == loc[i]
             y == loc[i + 1]
             z == k[i]
             s == dist[i]
             p == P[i - 1]
             r == P[i]
  <2>1. /\ x \in Nat /\ y \in Nat /\ s \in Nat /\ p \in Nat /\ r \in Nat /\ z \in Nat
        /\ z + 1 <= s
    BY <1>1, <1>2
  <2>2. x = y * s + z /\ r = p * s
    BY <1>2 DEF Digits
  <2>3. (y + 1) * r <= P[d] /\ P[d] \in Nat
    <3>1. (i + 1) - 1 = i
      OBVIOUS
    <3> QED
      BY <1>2, <1>4, <3>1
  <2> HIDE DEF x, y, z, s, p, r
  <2>4. x + 1 <= (y + 1) * s
    BY <2>1, <2>2
  <2>5. (x + 1) * p <= ((y + 1) * s) * p
    <3>1. (y + 1) * s \in Int /\ x + 1 \in Int
      BY <2>1
    <3> QED
      BY <2>1, <2>4, <3>1, TimesMonotone
  <2>6. ((y + 1) * s) * p = (y + 1) * (p * s)
    BY <2>1
  <2>7. (x + 1) * p <= (y + 1) * r
    BY <2>2, <2>5, <2>6
  <2>8. (x + 1) * p \in Int /\ (y + 1) * r \in Int
    BY <2>1
  <2>9. (x + 1) * p <= P[d]
    BY <2>3, <2>7, <2>8
  <2> QED
    BY <2>9 DEF x, p
<1> HIDE DEF Fits
<1>5. 0 \in T
  <2>1. d - 0 = d /\ 0 \in 0 .. d - 1
    OBVIOUS
  <2> QED
    BY <1>3, <2>1
<1>6. ASSUME NEW t \in 1 .. d - 1, t - 1 \in T
      PROVE  t \in T
  <2>1. d - t \in 1 .. d - 1 /\ (d - t) + 1 = d - (t - 1) /\ t \in 0 .. d - 1
    OBVIOUS
  <2>2. Fits((d - t) + 1)
    BY <1>6, <2>1
  <2> QED
    BY <1>4, <2>1, <2>2
<1> HIDE DEF T
<1>7. \A t \in 0 .. d - 1 : t \in T
  <2>1. d - 1 \in Nat
    OBVIOUS
  <2> QED
    BY <1>5, <1>6, <2>1, UpTo
<1>8. Fits(1)
  <2>1. d - 1 \in 0 .. d - 1 /\ d - (d - 1) = 1
    OBVIOUS
  <2>2. d - 1 \in T
    BY <1>7, <2>1
  <2> QED
    BY <2>1, <2>2 DEF T
<1>9. loc[1] + 1 <= P[d] /\ loc[1] \in Nat /\ P[d] \in Nat
  BY <1>1, <1>2, <1>8 DEF Fits
<1> QED
  BY <1>9

(* The remainders of a position below the product of the sizes are its     *)
(* digits.                                                                 *)
LEMMA DigitsWritten ==
  ASSUME NEW d \in Nat \ {0}, NEW dist \in Sizes(d), NEW P, Products(P, dist, d),
         NEW pos \in 0 .. P[d] - 1, NEW rest, Quotients(rest, dist, pos, d),
         NEW k \in [1 .. d -> Nat], \A i \in 1 .. d : k[i] = rest[i] % dist[i],
         NEW loc, Digits(loc, dist, k, d)
  PROVE  loc[1] = pos
<1>1. \A i \in 1 .. d : rest[i] \in Nat /\ dist[i] \in Nat \ {0}
  BY DEF Quotients, Sizes
<1>2. /\ \A i \in 0 .. d : P[i] \in Nat \ {0}
      /\ \A i \in 1 .. d : P[i] = P[i - 1] * dist[i]
      /\ P[0] = 1
  BY DEF Products
<1>3. \A i \in 1 .. d - 1 : rest[i] = rest[i + 1] * dist[i] + k[i]
  <2> TAKE i \in 1 .. d - 1
  <2>1. i + 1 \in 2 .. d /\ (i + 1) - 1 = i /\ i \in 1 .. d
    OBVIOUS
  <2>2. rest[i + 1] = rest[i] \div dist[i]
    BY <2>1 DEF Quotients
  <2>3. rest[i] \in Nat /\ dist[i] \in Nat \ {0}
    BY <1>1, <2>1
  <2>4. rest[i] = (rest[i] \div dist[i]) * dist[i] + (rest[i] % dist[i])
    BY <2>3, Quotient
  <2> QED
    BY <2>1, <2>2, <2>4
<1> DEFINE Fits(i) == rest[i] * P[i - 1] <= pos
           S == {t \in 0 .. d - 1 : Fits(t + 1)}
<1>4. Fits(1)
  BY <1>1, <1>2 DEF Quotients
<1>5. ASSUME NEW i \in 1 .. d - 1, Fits(i)
      PROVE  Fits(i + 1)
  <2> DEFINE x == rest[i]
             y == rest[i + 1]
             z == k[i]
             s == dist[i]
             p == P[i - 1]
             r == P[i]
  <2>1. x \in Nat /\ y \in Nat /\ s \in Nat /\ p \in Nat /\ r \in Nat /\ z \in Nat
    BY <1>1, <1>2
  <2>2. x = y * s + z /\ r = p * s /\ x * p <= pos
    BY <1>2, <1>3, <1>5
  <2> HIDE DEF x, y, z, s, p, r
  <2>3. y * s <= x /\ y * s \in Int
    BY <2>1, <2>2
  <2>4. (y * s) * p <= x * p
    BY <2>1, <2>3, TimesMonotone
  <2>5. (y * s) * p = y * (p * s)
    BY <2>1
  <2>6. y * r <= x * p
    BY <2>2, <2>4, <2>5
  <2>7. y * r \in Int /\ x * p \in Int /\ pos \in Int
    BY <1>2, <2>1
  <2>8. y * r <= pos
    BY <2>2, <2>6, <2>7
  <2>9. (i + 1) - 1 = i
    OBVIOUS
  <2> QED
    BY <2>8, <2>9 DEF y, r
<1> HIDE DEF Fits
<1>6. \A t \in 0 .. d - 1 : t \in S
  <2>1. 0 \in S
    BY <1>4
  <2>2. ASSUME NEW t \in 1 .. d - 1, t - 1 \in S
        PROVE  t \in S
    <3>1. (t - 1) + 1 = t /\ t \in 0 .. d - 1
      OBVIOUS
    <3>2. Fits(t)
      BY <2>2, <3>1
    <3> QED
      BY <1>5, <3>1, <3>2
  <2>3. d - 1 \in Nat
    OBVIOUS
  <2> HIDE DEF S
  <2> QED
    BY <2>1, <2>2, <2>3, UpTo
<1>7. rest[d] < dist[d]
  <2>1. Fits(d)
    <3>1. d - 1 \in 0 .. d - 1 /\ (d - 1) + 1 = d
      OBVIOUS
    <3> QED
      BY <1>6, <3>1
  <2> DEFINE x == rest[d]
             s == dist[d]
             p == P[d - 1]
  <2>2. x \in Nat /\ s \in Nat /\ p \in Nat \ {0} /\ pos \in Int
    BY <1>1, <1>2
  <2>3. x * p <= pos /\ pos < p * s
    <3>1. P[d] = p * s /\ P[d] \in Nat
      BY <1>2
    <3>2. pos < P[d]
      BY <3>1
    <3> QED
      BY <2>1, <3>1, <3>2 DEF Fits
  <2> HIDE DEF x, s, p
  <2>4. SUFFICES ASSUME s <= x
                 PROVE  FALSE
    BY <2>2 DEF x, s
  <2>5. s * p <= x * p
    BY <2>2, <2>4, TimesMonotone
  <2>6. s * p = p * s /\ x * p \in Int /\ p * s \in Int
    BY <2>2
  <2> QED
    BY <2>2, <2>3, <2>5, <2>6
<1>8. rest[d] = k[d]
  <2> DEFINE x == rest[d]
             s == dist[d]
  <2>1. x \in Nat /\ s \in Nat \ {0} /\ x < s /\ k[d] = x % s
    BY <1>1, <1>7
  <2> HIDE DEF x, s
  <2>2. x % s = x
    BY <2>1
  <2> QED
    BY <2>1, <2>2 DEF x
<1> DEFINE T == {t \in 0 .. d - 1 : loc[d - t] = rest[d - t]}
<1>9. 0 \in T
  BY <1>8 DEF Digits
<1>10. ASSUME NEW t \in 1 .. d - 1, t - 1 \in T
       PROVE  t \in T
  <2>1. d - t \in 1 .. d - 1 /\ (d - t) + 1 = d - (t - 1) /\ t \in 0 .. d - 1
    OBVIOUS
  <2>2. loc[(d - t) + 1] = rest[(d - t) + 1]
    BY <1>10, <2>1
  <2>3. loc[d - t] = loc[(d - t) + 1] * dist[d - t] + k[d - t]
    BY <2>1 DEF Digits
  <2>4. loc[d - t] = rest[d - t]
    BY <1>3, <2>1, <2>2, <2>3
  <2> QED
    BY <2>1, <2>4
<1> HIDE DEF T
<1>11. \A t \in 0 .. d - 1 : t \in T
  <2>1. d - 1 \in Nat
    OBVIOUS
  <2> QED
    BY <1>9, <1>10, <2>1, UpTo
<1>12. loc[1] = rest[1]
  <2>1. d - 1 \in 0 .. d - 1 /\ d - (d - 1) = 1
    OBVIOUS
  <2>2. d - 1 \in T
    BY <1>11, <2>1
  <2> QED
    BY <2>1, <2>2 DEF T
<1> QED
  BY <1>12 DEF Quotients

(* Where an element of a box is in its data. *)
PosOf(b, c) == Offset(Dist(b), [i \in Dims(b) |-> c[i] - b.lb[i]])

(* Every element has a position, and the position has the element. *)
LEMMA PosOfCell ==
  ASSUME NEW d \in Nat \ {0}, NEW b \in SolidBox(d), NEW c \in Cells(b)
  PROVE  PosOf(b, c) \in 0 .. bbox_volume(b) - 1 /\ CellAt(b, PosOf(b, c)) = c
<1> DEFINE dist == Dist(b)
           k == [i \in 1 .. d |-> c[i] - b.lb[i]]
<1>1. /\ b \in BoxIn(d) /\ Dims(b) = 1 .. d /\ dist \in Sizes(d)
      /\ b.lb \in [1 .. d -> Int] /\ b.ub \in [1 .. d -> Int]
      /\ \A i \in 1 .. d : dist[i] = b.ub[i] - b.lb[i] + 1
  BY DistOf
<1>2. /\ c \in [1 .. d -> Int]
      /\ \A i \in 1 .. d : b.lb[i] <= c[i] /\ c[i] <= b.ub[i]
  BY <1>1, CellsOf
<1>3. /\ k \in [1 .. d -> Nat]
      /\ \A i \in 1 .. d : k[i] < dist[i]
      /\ \A i \in 1 .. d : k[i] = c[i] - b.lb[i]
  <2>1. \A i \in 1 .. d : c[i] - b.lb[i] \in Nat /\ c[i] - b.lb[i] < b.ub[i] - b.lb[i] + 1
    <3> TAKE i \in 1 .. d
    <3>1. c[i] \in Int /\ b.lb[i] \in Int /\ b.ub[i] \in Int
      BY <1>1, <1>2
    <3>2. b.lb[i] <= c[i] /\ c[i] <= b.ub[i]
      BY <1>2
    <3> QED
      BY <3>1, <3>2
  <2>2. k \in [1 .. d -> Nat]
    BY <2>1
  <2>3. \A i \in 1 .. d : k[i] = c[i] - b.lb[i]
    OBVIOUS
  <2> HIDE DEF k, dist
  <2>4. \A i \in 1 .. d : k[i] < dist[i]
    BY <1>1, <2>1, <2>3
  <2> QED
    BY <2>2, <2>3, <2>4
<1>4. PosOf(b, c) = Offset(dist, k)
  BY <1>1 DEF PosOf
<1> HIDE DEF dist, k
<1>5. PICK loc : Digits(loc, dist, k, d) /\ Offset(dist, k) = loc[1]
  BY <1>1, <1>3, OffsetOf
<1>6. PICK P : Products(P, dist, d) /\ bbox_volume(b) = P[d]
  BY VolumeOf DEF dist
<1>7. loc[1] \in 0 .. P[d] - 1
  BY <1>1, <1>3, <1>5, <1>6, DigitsBelow
<1>8. loc[1] \in Nat
  BY <1>5 DEF Digits
<1>9. PICK rest : /\ Quotients(rest, dist, loc[1], d)
                  /\ CellAt(b, loc[1]) = [i \in 1 .. d |-> b.lb[i] + (rest[i] % dist[i])]
  BY <1>8, CellAtOf DEF dist
<1>10. \A i \in 1 .. d : rest[i] % dist[i] = k[i]
  <2>1. dist \in Sizes(d) /\ k \in [1 .. d -> Nat] /\ \A i \in 1 .. d : k[i] < dist[i]
    BY <1>1, <1>3
  <2>2. Digits(loc, dist, k, d) /\ Quotients(rest, dist, loc[1], d)
    BY <1>5, <1>9
  <2> QED
    BY <2>1, <2>2, DigitsRead
<1>11. CellAt(b, loc[1]) = c
  <2>1. \A i \in 1 .. d : b.lb[i] + (rest[i] % dist[i]) = c[i]
    BY <1>1, <1>2, <1>3, <1>10
  <2> QED
    BY <1>2, <1>9, <2>1
<1> QED
  BY <1>4, <1>5, <1>6, <1>7, <1>11

(* Every position has an element, and the element is there. *)
LEMMA CellOfPos ==
  ASSUME NEW d \in Nat \ {0}, NEW b \in SolidBox(d), NEW pos \in 0 .. bbox_volume(b) - 1
  PROVE  CellAt(b, pos) \in Cells(b) /\ PosOf(b, CellAt(b, pos)) = pos
<1> DEFINE dist == Dist(b)
<1>1. /\ b \in BoxIn(d) /\ Dims(b) = 1 .. d /\ dist \in Sizes(d)
      /\ b.lb \in [1 .. d -> Int] /\ b.ub \in [1 .. d -> Int]
      /\ \A i \in 1 .. d : dist[i] = b.ub[i] - b.lb[i] + 1
  BY DistOf
<1>2. PICK P : Products(P, dist, d) /\ bbox_volume(b) = P[d]
  BY VolumeOf
<1>3. P[d] \in Nat
  BY <1>2 DEF Products
<1>4. pos \in Nat /\ pos \in 0 .. P[d] - 1
  BY <1>2, <1>3
<1>5. PICK rest : /\ Quotients(rest, dist, pos, d)
                  /\ CellAt(b, pos) = [i \in 1 .. d |-> b.lb[i] + (rest[i] % dist[i])]
  BY <1>4, CellAtOf
<1> DEFINE k == [i \in 1 .. d |-> rest[i] % dist[i]]
<1> HIDE DEF dist
<1>6. \A i \in 1 .. d : rest[i] % dist[i] \in 0 .. dist[i] - 1 /\ dist[i] \in Nat \ {0}
  <2> TAKE i \in 1 .. d
  <2>1. rest[i] \in Nat /\ dist[i] \in Nat \ {0}
    BY <1>1, <1>5 DEF Quotients, Sizes
  <2> QED
    BY <2>1, Quotient
<1>7. k \in [1 .. d -> Nat] /\ \A i \in 1 .. d : k[i] = rest[i] % dist[i]
  BY <1>6
<1>8. \A i \in 1 .. d : k[i] \in 0 .. dist[i] - 1
  BY <1>6
<1>9. CellAt(b, pos) = [i \in 1 .. d |-> b.lb[i] + k[i]]
  BY <1>5
<1> HIDE DEF k
<1> DEFINE c == CellAt(b, pos)
<1> HIDE DEF c
<1>10. c = [i \in 1 .. d |-> b.lb[i] + k[i]]
  BY <1>9 DEF c
<1>11. c \in [1 .. d -> Int] /\ \A i \in 1 .. d : c[i] = b.lb[i] + k[i]
  BY <1>1, <1>7, <1>10
<1>12. c \in Cells(b)
  <2>1. ASSUME NEW i \in 1 .. d
        PROVE  b.lb[i] <= c[i] /\ c[i] <= b.ub[i]
    <3>1. /\ b.lb[i] \in Int /\ b.ub[i] \in Int /\ dist[i] = b.ub[i] - b.lb[i] + 1
          /\ c[i] = b.lb[i] + k[i] /\ k[i] \in 0 .. dist[i] - 1
      BY <1>1, <1>8, <1>11
    <3> QED
      BY <3>1
  <2> QED
    BY <1>1, <1>11, <2>1, CellsOf
<1>13. [i \in Dims(b) |-> c[i] - b.lb[i]] = k
  <2>1. \A i \in 1 .. d : c[i] - b.lb[i] = k[i]
    BY <1>1, <1>7, <1>11
  <2> QED
    BY <1>1, <1>7, <2>1
<1>14. PICK loc : Digits(loc, dist, k, d) /\ Offset(dist, k) = loc[1]
  BY <1>1, <1>7, OffsetOf
<1>15. loc[1] = pos
  <2>1. dist \in Sizes(d) /\ Products(P, dist, d) /\ pos \in 0 .. P[d] - 1
    BY <1>1, <1>2, <1>4
  <2>2. Quotients(rest, dist, pos, d) /\ Digits(loc, dist, k, d)
    BY <1>5, <1>14
  <2>3. k \in [1 .. d -> Nat] /\ \A i \in 1 .. d : k[i] = rest[i] % dist[i]
    BY <1>7
  <2> QED
    BY <2>1, <2>2, <2>3, DigitsWritten
<1>16. PosOf(b, c) = pos
  BY <1>13, <1>14, <1>15 DEF PosOf, dist
<1> QED
  BY <1>12, <1>16 DEF c

-----------------------------------------------------------------------------
(* Copies of sub-arrays. *)

LEMMA IntersectCells ==
  ASSUME NEW d \in Nat, NEW p \in BoxIn(d), NEW q \in BoxIn(d)
  PROVE  LET m == bbox_intersect(p, q)
         IN /\ m \in BoxIn(d)
            /\ \A i \in 1 .. d : /\ m.lb[i] = (IF p.lb[i] >= q.lb[i] THEN p.lb[i] ELSE q.lb[i])
                                 /\ m.ub[i] = (IF p.ub[i] <= q.ub[i] THEN p.ub[i] ELSE q.ub[i])
            /\ \A c : c \in Cells(m) <=> c \in Cells(p) /\ c \in Cells(q)
<1> DEFINE m == bbox_intersect(p, q)
<1>1. /\ Dims(p) = 1 .. d /\ p.lb \in [1 .. d -> Int] /\ p.ub \in [1 .. d -> Int]
      /\ q.lb \in [1 .. d -> Int] /\ q.ub \in [1 .. d -> Int]
  BY CellsOf DEF BoxIn
<1>2. /\ m.lb = [i \in 1 .. d |-> IF p.lb[i] >= q.lb[i] THEN p.lb[i] ELSE q.lb[i]]
      /\ m.ub = [i \in 1 .. d |-> IF p.ub[i] <= q.ub[i] THEN p.ub[i] ELSE q.ub[i]]
  BY <1>1 DEF bbox_intersect
<1>3. m.lb \in [1 .. d -> Int] /\ m.ub \in [1 .. d -> Int]
  BY <1>1, <1>2
<1>4. m \in BoxIn(d)
  <2>1. m = [lb |-> m.lb, ub |-> m.ub]
    BY DEF bbox_intersect
  <2> HIDE DEF m
  <2> QED
    BY <1>3, <2>1 DEF BoxIn
<1>5. \A i \in 1 .. d : /\ m.lb[i] = (IF p.lb[i] >= q.lb[i] THEN p.lb[i] ELSE q.lb[i])
                       /\ m.ub[i] = (IF p.ub[i] <= q.ub[i] THEN p.ub[i] ELSE q.ub[i])
  BY <1>2
<1> HIDE DEF m
<1>6. ASSUME NEW c
      PROVE  c \in Cells(m) <=> c \in Cells(p) /\ c \in Cells(q)
  <2> DEFINE In(x) == \A i \in 1 .. d : x.lb[i] <= c[i] /\ c[i] <= x.ub[i]
  <2>1. /\ c \in Cells(m) <=> c \in [1 .. d -> Int] /\ In(m)
        /\ c \in Cells(p) <=> c \in [1 .. d -> Int] /\ In(p)
        /\ c \in Cells(q) <=> c \in [1 .. d -> Int] /\ In(q)
    BY <1>1, <1>4, CellsOf
  <2>2. SUFFICES ASSUME c \in [1 .. d -> Int]
                 PROVE  In(m) <=> In(p) /\ In(q)
    BY <2>1
  <2>3. ASSUME NEW i \in 1 .. d
        PROVE  (m.lb[i] <= c[i] /\ c[i] <= m.ub[i])
                 <=> /\ p.lb[i] <= c[i] /\ c[i] <= p.ub[i]
                     /\ q.lb[i] <= c[i] /\ c[i] <= q.ub[i]
    <3>1. /\ p.lb[i] \in Int /\ p.ub[i] \in Int /\ q.lb[i] \in Int /\ q.ub[i] \in Int
          /\ c[i] \in Int
      BY <1>1, <2>2
    <3> QED
      BY <1>5, <3>1
  <2> QED
    BY <2>3
<1> QED
  BY <1>4, <1>5, <1>6 DEF m

LEMMA IntersectOf ==
  ASSUME NEW d \in Nat, NEW p \in SolidBox(d), NEW q \in SolidBox(d), bbox_does_intersect(p, q)
  PROVE  /\ bbox_intersect(p, q) \in SolidBox(d)
         /\ \A c : c \in Cells(bbox_intersect(p, q)) <=> c \in Cells(p) /\ c \in Cells(q)
<1> DEFINE m == bbox_intersect(p, q)
<1>1. /\ p \in BoxIn(d) /\ Dims(p) = 1 .. d /\ p.lb \in [1 .. d -> Int] /\ p.ub \in [1 .. d -> Int]
      /\ q \in BoxIn(d) /\ q.lb \in [1 .. d -> Int] /\ q.ub \in [1 .. d -> Int]
  BY DistOf
<1>2. /\ m \in BoxIn(d)
      /\ \A i \in 1 .. d : /\ m.lb[i] = (IF p.lb[i] >= q.lb[i] THEN p.lb[i] ELSE q.lb[i])
                           /\ m.ub[i] = (IF p.ub[i] <= q.ub[i] THEN p.ub[i] ELSE q.ub[i])
      /\ \A c : c \in Cells(m) <=> c \in Cells(p) /\ c \in Cells(q)
  BY <1>1, IntersectCells
<1> HIDE DEF m
<1>3. ASSUME NEW i \in 1 .. d
      PROVE  m.lb[i] <= m.ub[i]
  <2>1. p.lb[i] \in Int /\ p.ub[i] \in Int /\ q.lb[i] \in Int /\ q.ub[i] \in Int
    BY <1>1
  <2>2. p.lb[i] <= p.ub[i] /\ q.lb[i] <= q.ub[i]
    BY DEF SolidBox
  <2>3. \/ p.lb[i] <= q.lb[i] /\ q.lb[i] <= p.ub[i]
        \/ q.lb[i] <= p.lb[i] /\ p.lb[i] <= q.ub[i]
    BY <1>1 DEF bbox_does_intersect
  <2> QED
    BY <1>2, <2>1, <2>2, <2>3
<1> QED
  BY <1>2, <1>3 DEF SolidBox, m

(* The steps of a copy: each element of the common box bb is reached by    *)
(* its distance from the lower corner.                                     *)
LEMMA StepsOf ==
  ASSUME NEW d \in Nat, NEW bb \in SolidBox(d), NEW to \in SolidBox(d)
  PROVE  LET view == bbox_to_origin(bb, to)
         IN /\ view.lb = [i \in 1 .. d |-> bb.lb[i] - to.lb[i]]
            /\ \A k : k \in Cells(BoxOfSize(Dist(view)))
                        <=> /\ k \in [1 .. d -> Int]
                            /\ [i \in 1 .. d |-> bb.lb[i] + k[i]] \in Cells(bb)
<1> DEFINE view == bbox_to_origin(bb, to)
           sizes == Dist(view)
           box == BoxOfSize(sizes)
<1>1. /\ bb \in BoxIn(d) /\ Dims(bb) = 1 .. d
      /\ bb.lb \in [1 .. d -> Int] /\ bb.ub \in [1 .. d -> Int]
      /\ to.lb \in [1 .. d -> Int]
  BY DistOf
<1>2. /\ view.lb = [i \in 1 .. d |-> bb.lb[i] - to.lb[i]]
      /\ view.ub = [i \in 1 .. d |-> bb.ub[i] - to.lb[i]]
  BY <1>1 DEF bbox_to_origin
<1> HIDE DEF view
<1>3. sizes = [i \in 1 .. d |-> (bb.ub[i] - to.lb[i]) - (bb.lb[i] - to.lb[i]) + 1]
  <2>1. Dims(view) = 1 .. d
    BY <1>2 DEF Dims
  <2>2. \A i \in 1 .. d : bbox_dist(view, i) = (bb.ub[i] - to.lb[i]) - (bb.lb[i] - to.lb[i]) + 1
    BY <1>2 DEF bbox_dist
  <2> QED
    BY <2>1, <2>2 DEF Dist
<1>4. DOMAIN sizes = 1 .. d /\ \A i \in 1 .. d : sizes[i] = bb.ub[i] - bb.lb[i] + 1
  <2>1. \A i \in 1 .. d : bb.ub[i] \in Int /\ bb.lb[i] \in Int /\ to.lb[i] \in Int
    BY <1>1
  <2> HIDE DEF sizes
  <2> QED
    BY <1>3, <2>1
<1> HIDE DEF sizes
<1>5. /\ box.lb = [i \in 1 .. d |-> 0] /\ box.ub = [i \in 1 .. d |-> sizes[i] - 1]
      /\ box = [lb |-> box.lb, ub |-> box.ub]
  BY <1>4 DEF BoxOfSize
<1> HIDE DEF box
<1>6. \A i \in 1 .. d : box.lb[i] = 0 /\ box.ub[i] = bb.ub[i] - bb.lb[i] /\ box.ub[i] \in Int
  <2> TAKE i \in 1 .. d
  <2>1. bb.ub[i] \in Int /\ bb.lb[i] \in Int /\ sizes[i] = bb.ub[i] - bb.lb[i] + 1
    BY <1>1, <1>4
  <2> QED
    BY <1>5, <2>1
<1>7. box \in BoxIn(d)
  <2>1. box.lb \in [1 .. d -> Int] /\ box.ub \in [1 .. d -> Int]
    <3>1. \A i \in 1 .. d : sizes[i] - 1 \in Int
      BY <1>5, <1>6
    <3> QED
      BY <1>5, <3>1
  <2> QED
    BY <1>5, <2>1 DEF BoxIn
<1>8. ASSUME NEW k
      PROVE  k \in Cells(box) <=> /\ k \in [1 .. d -> Int]
                                 /\ [i \in 1 .. d |-> bb.lb[i] + k[i]] \in Cells(bb)
  <2> DEFINE c == [i \in 1 .. d |-> bb.lb[i] + k[i]]
  <2>1. k \in Cells(box) <=> /\ k \in [1 .. d -> Int]
                            /\ \A i \in 1 .. d : box.lb[i] <= k[i] /\ k[i] <= box.ub[i]
    BY <1>7, CellsOf
  <2>2. SUFFICES ASSUME k \in [1 .. d -> Int]
                 PROVE  (\A i \in 1 .. d : box.lb[i] <= k[i] /\ k[i] <= box.ub[i])
                          <=> c \in Cells(bb)
    BY <2>1
  <2>3. c \in [1 .. d -> Int] /\ \A i \in 1 .. d : c[i] = bb.lb[i] + k[i]
    BY <1>1, <2>2
  <2> HIDE DEF c
  <2>4. c \in Cells(bb) <=> \A i \in 1 .. d : bb.lb[i] <= c[i] /\ c[i] <= bb.ub[i]
    BY <1>1, <2>3, CellsOf
  <2>5. ASSUME NEW i \in 1 .. d
        PROVE  (box.lb[i] <= k[i] /\ k[i] <= box.ub[i])
                 <=> (bb.lb[i] <= c[i] /\ c[i] <= bb.ub[i])
    <3>1. bb.lb[i] \in Int /\ bb.ub[i] \in Int /\ k[i] \in Int
      BY <1>1, <2>2
    <3>2. box.lb[i] = 0 /\ box.ub[i] = bb.ub[i] - bb.lb[i] /\ c[i] = bb.lb[i] + k[i]
      BY <1>6, <2>3
    <3> QED
      BY <3>1, <3>2
  <2> QED
    BY <2>4, <2>5
<1> QED
  BY <1>2, <1>8 DEF box, sizes, view

(* Step k of a copy within box to is at the position of its element. *)
LEMMA StepAt ==
  ASSUME NEW d \in Nat \ {0}, NEW bb \in SolidBox(d), NEW to \in SolidBox(d),
         NEW k \in [1 .. d -> Int]
  PROVE  Offset(Dist(to), [i \in 1 .. d |-> bbox_to_origin(bb, to).lb[i] + k[i]])
           = PosOf(to, [i \in 1 .. d |-> bb.lb[i] + k[i]])
<1> DEFINE c == [i \in 1 .. d |-> bb.lb[i] + k[i]]
           low == bbox_to_origin(bb, to).lb
<1>1. Dims(to) = 1 .. d /\ bb.lb \in [1 .. d -> Int] /\ to.lb \in [1 .. d -> Int]
  BY DistOf
<1>2. low = [i \in 1 .. d |-> bb.lb[i] - to.lb[i]]
  BY StepsOf
<1> HIDE DEF low
<1>3. \A i \in 1 .. d : low[i] + k[i] = c[i] - to.lb[i]
  <2> TAKE i \in 1 .. d
  <2>1. bb.lb[i] \in Int /\ to.lb[i] \in Int /\ k[i] \in Int
    BY <1>1
  <2>2. low[i] = bb.lb[i] - to.lb[i] /\ c[i] = bb.lb[i] + k[i]
    BY <1>2
  <2> QED
    BY <2>1, <2>2
<1> HIDE DEF c
<1>4. [i \in 1 .. d |-> low[i] + k[i]] = [i \in Dims(to) |-> c[i] - to.lb[i]]
  BY <1>1, <1>3
<1> QED
  BY <1>4 DEF PosOf, low, c

(* ssd_copy writes the common elements of two objects of less than ten     *)
(* dimensions, each in its place, and nothing else.                        *)
LEMMA CopyOf ==
  ASSUME NEW d \in 1 .. 9, NEW to \in SolidBox(d), NEW from \in SolidBox(d),
         bbox_does_intersect(to, from), NEW v, NEW w
  PROVE  ssd_copy([bb |-> to, data |-> BoxData(to, v)], [bb |-> from, data |-> BoxData(from, w)])
           = [bb |-> to,
              data |-> BoxData(to, [c \in Cells(to) |-> IF c \in Cells(from) THEN w[c] ELSE v[c]])]
<1> DEFINE com == bbox_intersect(to, from)
           avi == bbox_to_origin(com, to)
           bvi == bbox_to_origin(com, from)
           adat == BoxData(to, v)
           bdat == BoxData(from, w)
           steps == Cells(BoxOfSize(Dist(avi)))
           A(k) == [i \in DOMAIN k |-> avi.lb[i] + k[i]]
           B(k) == [i \in DOMAIN k |-> IF i = 10 THEN A(k)[i] ELSE bvi.lb[i] + k[i]]
           Hits(o) == {k \in steps : Offset(Dist(to), A(k)) = o}
           C(k) == [i \in 1 .. d |-> com.lb[i] + k[i]]
           out == [o \in DOMAIN adat |->
                     IF Hits(o) = {} THEN adat[o]
                     ELSE bdat[Offset(Dist(from), B(CHOOSE k \in Hits(o) : TRUE))]]
           new == [c \in Cells(to) |-> IF c \in Cells(from) THEN w[c] ELSE v[c]]
<1>1. ssd_copy([bb |-> to, data |-> adat], [bb |-> from, data |-> bdat]) = [bb |-> to, data |-> out]
  <2> DEFINE ta == [bb |-> to, data |-> adat]
             fb == [bb |-> from, data |-> bdat]
             ma == matrix_init(ta, com)
             mb == matrix_init(fb, com)
  <2>1. ta.bb = to /\ ta.data = adat /\ fb.bb = from /\ fb.data = bdat
    OBVIOUS
  <2>2. \A x : [ta EXCEPT !.data = x] = [bb |-> to, data |-> x]
    OBVIOUS
  <2> HIDE DEF ta, fb, adat, bdat
  <2>3. /\ ma.dist = Dist(to) /\ ma.view = avi /\ ma.data = adat
        /\ mb.dist = Dist(from) /\ mb.view = bvi /\ mb.data = bdat
    BY <2>1 DEF matrix_init
  <2>4. ssd_copy(ta, fb) = [ta EXCEPT !.data = matrix_copy(ma, mb)]
    BY <2>1 DEF ssd_copy
  <2> HIDE DEF ma, mb, avi, bvi, com
  <2>5. matrix_copy(ma, mb) = out
    BY <2>3 DEF matrix_copy
  <2> HIDE DEF out
  <2> QED
    BY <2>2, <2>4, <2>5 DEF ta, fb
<1>2. d \in Nat \ {0} /\ \A i \in 1 .. d : i # 10
  OBVIOUS
<1>3. /\ com \in SolidBox(d)
      /\ \A c : c \in Cells(com) <=> c \in Cells(to) /\ c \in Cells(from)
  BY <1>2, IntersectOf
<1> HIDE DEF com
<1>4. \A k : k \in steps <=> k \in [1 .. d -> Int] /\ C(k) \in Cells(com)
  BY <1>2, <1>3, StepsOf
<1> HIDE DEF steps
<1>5. ASSUME NEW k \in steps
      PROVE  /\ Offset(Dist(to), A(k)) = PosOf(to, C(k))
             /\ Offset(Dist(from), B(k)) = PosOf(from, C(k))
  <2>1. k \in [1 .. d -> Int] /\ DOMAIN k = 1 .. d
    BY <1>4
  <2>2. A(k) = [i \in 1 .. d |-> avi.lb[i] + k[i]] /\ B(k) = [i \in 1 .. d |-> bvi.lb[i] + k[i]]
    BY <1>2, <2>1
  <2> HIDE DEF A, B, C
  <2>3. Offset(Dist(to), [i \in 1 .. d |-> avi.lb[i] + k[i]]) = PosOf(to, C(k))
    BY <1>2, <1>3, <2>1, StepAt DEF C
  <2>4. Offset(Dist(from), [i \in 1 .. d |-> bvi.lb[i] + k[i]]) = PosOf(from, C(k))
    BY <1>2, <1>3, <2>1, StepAt DEF C
  <2> QED
    BY <2>2, <2>3, <2>4
<1> HIDE DEF A, B
<1>6. ASSUME NEW k \in steps
      PROVE  /\ C(k) \in Cells(to) /\ C(k) \in Cells(from)
             /\ CellAt(to, PosOf(to, C(k))) = C(k)
             /\ bdat[PosOf(from, C(k))] = w[C(k)]
  <2>1. C(k) \in Cells(to) /\ C(k) \in Cells(from)
    BY <1>3, <1>4
  <2> HIDE DEF C
  <2>2. CellAt(to, PosOf(to, C(k))) = C(k)
    BY <1>2, <2>1, PosOfCell
  <2>3. /\ PosOf(from, C(k)) \in 0 .. bbox_volume(from) - 1
        /\ CellAt(from, PosOf(from, C(k))) = C(k)
    BY <1>2, <2>1, PosOfCell
  <2>4. bdat[PosOf(from, C(k))] = w[C(k)]
    BY <2>3 DEF BoxData
  <2> QED
    BY <2>1, <2>2, <2>4
<1>7. ASSUME NEW c \in Cells(to), c \in Cells(from)
      PROVE  \E k \in steps : C(k) = c
  <2> DEFINE k == [i \in 1 .. d |-> c[i] - com.lb[i]]
  <2>1. c \in Cells(com) /\ com \in BoxIn(d) /\ com.lb \in [1 .. d -> Int]
    BY <1>2, <1>3, <1>7, DistOf
  <2>2. c \in [1 .. d -> Int]
    BY <1>2, <2>1, CellsOf
  <2>3. k \in [1 .. d -> Int] /\ \A i \in 1 .. d : k[i] = c[i] - com.lb[i]
    BY <2>1, <2>2
  <2> HIDE DEF k
  <2>4. \A i \in 1 .. d : com.lb[i] + k[i] = c[i]
    BY <2>1, <2>2, <2>3
  <2>5. C(k) = c
    BY <2>2, <2>4
  <2> QED
    BY <1>4, <2>1, <2>3, <2>5
<1> HIDE DEF C
<1>8. DOMAIN adat = 0 .. bbox_volume(to) - 1
  BY DEF BoxData
<1>9. ASSUME NEW o \in 0 .. bbox_volume(to) - 1
      PROVE  (IF Hits(o) = {} THEN adat[o]
              ELSE bdat[Offset(Dist(from), B(CHOOSE k \in Hits(o) : TRUE))])
                = new[CellAt(to, o)]
  <2> DEFINE c == CellAt(to, o)
  <2>1. c \in Cells(to) /\ PosOf(to, c) = o /\ adat[o] = v[c]
    BY <1>2, CellOfPos DEF BoxData
  <2> HIDE DEF c, adat, bdat
  <2>2. \A k \in Hits(o) : k \in steps /\ C(k) = c
    BY <1>5, <1>6 DEF c
  <2>3. CASE c \in Cells(from)
    <3>1. PICK k \in steps : C(k) = c
      BY <1>7, <2>1, <2>3
    <3>2. k \in Hits(o)
      BY <1>5, <2>1, <3>1
    <3> DEFINE h == CHOOSE x \in Hits(o) : TRUE
    <3>3. h \in Hits(o) /\ Hits(o) # {}
      BY <3>2
    <3> HIDE DEF h
    <3>4. h \in steps /\ C(h) = c
      BY <2>2, <3>3
    <3>5. bdat[Offset(Dist(from), B(h))] = w[c]
      BY <1>5, <1>6, <3>4
    <3>6. new[c] = w[c]
      BY <2>1, <2>3
    <3> QED
      BY <3>3, <3>5, <3>6 DEF h, c
  <2>4. CASE c \notin Cells(from)
    <3>1. Hits(o) = {}
      BY <1>6, <2>2, <2>4
    <3>2. new[c] = v[c]
      BY <2>1, <2>4
    <3> QED
      BY <2>1, <3>1, <3>2 DEF c
  <2> QED
    BY <2>3, <2>4
<1>10. out = BoxData(to, new)
  <2> HIDE DEF Hits, adat, bdat, new
  <2> QED
    BY <1>8, <1>9 DEF BoxData
<1> HIDE DEF out, adat, bdat
<1>11. [bb |-> to, data |-> out] = [bb |-> to, data |-> BoxData(to, new)]
  BY <1>10
<1> QED
  BY <1>1, <1>11 DEF adat, bdat

LEMMA SubBoxOf ==
  ASSUME NEW g \in Seq(Nat), NEW b \in SubBoxes(BoxOfSize(g))
  PROVE  b \in SolidBox(Len(g))
<1> DEFINE d == Len(g)
           whole == BoxOfSize(g)
<1>1. d \in Nat /\ DOMAIN g = 1 .. d /\ \A i \in 1 .. d : g[i] \in Nat
  OBVIOUS
<1>2. /\ whole = [lb |-> [i \in 1 .. d |-> 0], ub |-> [i \in 1 .. d |-> g[i] - 1]]
      /\ whole.ub \in [1 .. d -> Int]
  BY <1>1 DEF BoxOfSize
<1>3. whole \in BoxIn(d)
  BY <1>1, <1>2 DEF BoxIn
<1>4. PICK low \in Cells(whole) : \E high \in Cells([whole EXCEPT !.lb = low]) :
        b = [lb |-> low, ub |-> high]
  BY DEF SubBoxes
<1>5. PICK high \in Cells([whole EXCEPT !.lb = low]) : b = [lb |-> low, ub |-> high]
  BY <1>4
<1>6. low \in [1 .. d -> Int]
  BY <1>1, <1>3, CellsOf
<1> DEFINE part == [whole EXCEPT !.lb = low]
<1>7. part = [lb |-> low, ub |-> whole.ub]
  BY DEF BoxOfSize
<1>8. part \in BoxIn(d) /\ part.lb = low
  BY <1>2, <1>6, <1>7 DEF BoxIn
<1>9. high \in Cells(part)
  OBVIOUS
<1> HIDE DEF part, whole, d
<1>10. high \in [1 .. d -> Int] /\ \A i \in 1 .. d : low[i] <= high[i]
  BY <1>1, <1>8, <1>9, CellsOf
<1>11. b.lb = low /\ b.ub = high /\ b \in BoxIn(d)
  BY <1>5, <1>6, <1>10 DEF BoxIn
<1> QED
  BY <1>10, <1>11 DEF SolidBox, d

(* An intersection intersects each of the two. *)
LEMMA CommonPart ==
  ASSUME NEW d \in Nat, NEW p \in SolidBox(d), NEW q \in SolidBox(d), bbox_does_intersect(p, q)
  PROVE  /\ bbox_does_intersect(p, bbox_intersect(p, q))
         /\ bbox_does_intersect(bbox_intersect(p, q), q)
<1> DEFINE m == bbox_intersect(p, q)
           c == m.lb
<1>1. m \in SolidBox(d) /\ \A x : x \in Cells(m) <=> x \in Cells(p) /\ x \in Cells(q)
  BY IntersectOf
<1> HIDE DEF m
<1>2. /\ m \in BoxIn(d) /\ m.lb \in [1 .. d -> Int] /\ p \in BoxIn(d) /\ q \in BoxIn(d)
      /\ \A i \in 1 .. d : m.lb[i] <= m.ub[i]
  BY <1>1, DistOf DEF SolidBox
<1>3. c \in Cells(m)
  <2>1. \A i \in 1 .. d : m.lb[i] <= c[i] /\ c[i] <= m.ub[i]
    BY <1>2
  <2> QED
    BY <1>2, <2>1, CellsOf
<1>4. c \in Cells(p) /\ c \in Cells(q)
  BY <1>1, <1>3
<1> HIDE DEF c
<1> QED
  BY <1>2, <1>3, <1>4, CommonCell DEF m

(* What the buffer of a get is to hold. *)
Filled(bb, boxes) ==
  [c \in Cells(bb) |-> IF \E b \in boxes : bbox_include(b, [lb |-> c, ub |-> c]) THEN c ELSE Unset]

CopyInv ==
  /\ to_bb # NoGet => \E d \in 1 .. 9 : to_bb \in SolidBox(d) /\ pieces \subseteq SolidBox(d)
  /\ to_bb = NoGet => pieces = {}
  /\ to_bb # NoGet => to_data = BoxData(to_bb, Filled(to_bb, pieces))

(* The domains of a program: matrix_copy is right for up to nine           *)
(* dimensions.                                                             *)
NineDims == \A g \in CopyDomain : g \in Seq(Nat) /\ Len(g) \in 1 .. 9

LEMMA StartGetInv ==
  ASSUME CopyInv, NEW d \in 1 .. 9, NEW b \in SolidBox(d), StartGet(b)
  PROVE  CopyInv'
<1>1. to_bb = NoGet /\ pieces = {} /\ to_bb' = b /\ pieces' = {}
  BY DEF CopyInv, StartGet
<1>2. to_data' = BoxData(b, [c \in Cells(b) |-> Unset])
  BY DEF StartGet, EmptyObject
<1>3. Filled(b, {}) = [c \in Cells(b) |-> Unset]
  BY DEF Filled
<1>4. to_data' = BoxData(to_bb', Filled(to_bb', pieces'))
  BY <1>1, <1>2, <1>3
<1>5. to_bb' \in SolidBox(d) /\ pieces' \subseteq SolidBox(d) /\ pieces' = {}
  BY <1>1
<1> QED
  BY <1>4, <1>5 DEF CopyInv

LEMMA CopyPieceInv ==
  ASSUME CopyInv, NEW e \in 1 .. 9, NEW b \in SolidBox(e), CopyPiece(b)
  PROVE  CopyInv'
<1> DEFINE odsc == bbox_intersect(to_bb, b)
           old == Filled(to_bb, pieces)
           new == Filled(to_bb, pieces \cup {b})
           own == [c \in Cells(b) |-> c]
           unset == [c \in Cells(odsc) |-> Unset]
           part == [c \in Cells(odsc) |-> IF c \in Cells(b) THEN own[c] ELSE unset[c]]
           sent == ssd_copy(EmptyObject(odsc), StoredObject(b))
<1>1. PICK d \in 1 .. 9 : to_bb \in SolidBox(d) /\ pieces \subseteq SolidBox(d)
  BY DEF CopyInv, CopyPiece
<1>2. /\ to_bb # NoGet /\ Len(b.lb) = Len(to_bb.lb) /\ bbox_does_intersect(to_bb, b)
      /\ to_bb' = to_bb /\ pieces' = pieces \cup {b}
      /\ to_data' = ssd_copy([bb |-> to_bb, data |-> to_data], sent).data
  BY DEF CopyPiece
<1>3. to_data = BoxData(to_bb, old)
  BY <1>2 DEF CopyInv
<1>4. d \in Nat /\ e \in Nat
  OBVIOUS
<1>5. b \in SolidBox(d)
  <2>1. Len(to_bb.lb) = d /\ Len(b.lb) = e
    BY <1>1, <1>4, DistOf
  <2> QED
    BY <1>2, <2>1
<1>6. /\ odsc \in SolidBox(d)
      /\ \A c : c \in Cells(odsc) <=> c \in Cells(to_bb) /\ c \in Cells(b)
  BY <1>1, <1>2, <1>4, <1>5, IntersectOf
<1>7. bbox_does_intersect(to_bb, odsc) /\ bbox_does_intersect(odsc, b)
  BY <1>1, <1>2, <1>4, <1>5, CommonPart
<1> HIDE DEF odsc
<1>8. sent = [bb |-> odsc, data |-> BoxData(odsc, part)]
  <2> HIDE DEF own, unset, part
  <2>1. ssd_copy([bb |-> odsc, data |-> BoxData(odsc, unset)], [bb |-> b, data |-> BoxData(b, own)])
          = [bb |-> odsc, data |-> BoxData(odsc, part)]
    <3>1. \A v, w :
            ssd_copy([bb |-> odsc, data |-> BoxData(odsc, v)], [bb |-> b, data |-> BoxData(b, w)])
              = [bb |-> odsc, data |-> BoxData(odsc,
                   [c \in Cells(odsc) |-> IF c \in Cells(b) THEN w[c] ELSE v[c]])]
      BY <1>5, <1>6, <1>7, CopyOf
    <3> QED
      BY <3>1, Zenon DEF part
  <2>2. /\ EmptyObject(odsc) = [bb |-> odsc, data |-> BoxData(odsc, unset)]
        /\ StoredObject(b) = [bb |-> b, data |-> BoxData(b, own)]
    BY DEF EmptyObject, StoredObject, own, unset
  <2> QED
    BY <2>1, <2>2
<1>9. \A c \in Cells(odsc) : part[c] = c
  BY <1>6
<1> HIDE DEF sent, part
<1> DEFINE got == [c \in Cells(to_bb) |-> IF c \in Cells(odsc) THEN part[c] ELSE old[c]]
<1>10. to_data' = BoxData(to_bb, got)
  <2> HIDE DEF old
  <2>1. ssd_copy([bb |-> to_bb, data |-> BoxData(to_bb, old)],
                 [bb |-> odsc, data |-> BoxData(odsc, part)])
          = [bb |-> to_bb, data |-> BoxData(to_bb, got)]
    BY <1>1, <1>6, <1>7, CopyOf
  <2> HIDE DEF got
  <2> QED
    BY <1>2, <1>3, <1>8, <2>1
<1>11. got = new
  <2>1. ASSUME NEW c \in Cells(to_bb)
        PROVE  bbox_include(b, [lb |-> c, ub |-> c]) <=> c \in Cells(b)
    <3>1. Dims(b) = 1 .. d /\ b \in BoxIn(d) /\ to_bb \in BoxIn(d)
          /\ b.lb \in [1 .. d -> Int] /\ b.ub \in [1 .. d -> Int]
      BY <1>1, <1>4, <1>5, DistOf
    <3>2. c \in [1 .. d -> Int]
      BY <1>4, <3>1, CellsOf
    <3>3. c \in Cells(b) <=> \A i \in 1 .. d : b.lb[i] <= c[i] /\ c[i] <= b.ub[i]
      BY <1>4, <3>1, <3>2, CellsOf
    <3>4. bbox_include(b, [lb |-> c, ub |-> c])
            <=> \A i \in 1 .. d : b.lb[i] <= c[i] /\ b.ub[i] >= c[i]
      BY <3>1 DEF bbox_include
    <3>5. \A i \in 1 .. d : b.ub[i] >= c[i] <=> c[i] <= b.ub[i]
      BY <3>1, <3>2
    <3> QED
      BY <3>3, <3>4, <3>5
  <2>2. ASSUME NEW c \in Cells(to_bb)
        PROVE  (IF c \in Cells(odsc) THEN part[c] ELSE old[c])
                 = (IF \E x \in pieces \cup {b} : bbox_include(x, [lb |-> c, ub |-> c])
                    THEN c ELSE Unset)
    <3>1. old[c] = (IF \E x \in pieces : bbox_include(x, [lb |-> c, ub |-> c]) THEN c ELSE Unset)
      BY DEF Filled
    <3>2. c \in Cells(odsc) <=> bbox_include(b, [lb |-> c, ub |-> c])
      BY <1>6, <2>1
    <3> HIDE DEF old
    <3> QED
      BY <1>9, <3>1, <3>2
  <2> HIDE DEF old
  <2> QED
    BY <2>2 DEF Filled
<1>12. pieces' \subseteq SolidBox(d)
  BY <1>1, <1>2, <1>5
<1>13. to_data' = BoxData(to_bb', Filled(to_bb', pieces'))
  BY <1>2, <1>10, <1>11
<1>14. to_bb' # NoGet /\ to_bb' \in SolidBox(d)
  BY <1>1, <1>2
<1> QED
  BY <1>12, <1>13, <1>14 DEF CopyInv

(* The buffer of a get holds every element of the objects that were copied *)
(* into it, in its place, and nothing else was written: for every box,     *)
(* every division into objects and up to nine dimensions.                  *)
THEOREM CopiesAreExact ==
  ASSUME NineDims
  PROVE  CopySpec => []CopyExact
<1>1. CopyInit => CopyInv
  BY DEF CopyInit, CopyInv
<1>2. CopyInv /\ [CopyNext]_copyVars => CopyInv'
  <2> SUFFICES ASSUME CopyInv, [CopyNext]_copyVars
               PROVE  CopyInv'
    OBVIOUS
  <2>1. CASE UNCHANGED copyVars
    BY <2>1 DEF CopyInv, copyVars
  <2>2. CASE CopyNext
    <3>1. PICK g \in CopyDomain : \E b \in SubBoxes(BoxOfSize(g)) : StartGet(b) \/ CopyPiece(b)
      BY <2>2 DEF CopyNext
    <3>2. PICK b \in SubBoxes(BoxOfSize(g)) : StartGet(b) \/ CopyPiece(b)
      BY <3>1
    <3>3. g \in Seq(Nat) /\ Len(g) \in 1 .. 9
      BY NineDims DEF NineDims
    <3>4. b \in SolidBox(Len(g))
      BY <3>3, SubBoxOf
    <3> QED
      BY <3>2, <3>3, <3>4, StartGetInv, CopyPieceInv
  <2> QED
    BY <2>1, <2>2
<1>3. CopyInv => CopyExact
  BY DEF CopyInv, CopyExact, Filled
<1> QED
  BY <1>1, <1>2, <1>3, PTL DEF CopySpec

-----------------------------------------------------------------------------
(* The number of elements that a server reckons to index. *)

(* The volume of a box is the number of its elements, also where division  *)
(* has left none.                                                          *)
LEMMA VolumeCounts ==
  ASSUME NEW d \in Nat \ {0}, NEW b \in ThinBox(d)
  PROVE  IsFiniteSet(Cells(b)) /\ Cardinality(Cells(b)) = bbox_volume(b)
<1>1. PICK P : /\ P \in [0 .. d -> Nat] /\ P[0] = 1 /\ bbox_volume(b) = P[d]
               /\ \A i \in 1 .. d : P[i] = P[i - 1] * bbox_dist(b, i)
  BY VolumeRuns
<1>2. b \in BoxIn(d) /\ b.lb \in [1 .. d -> Int] /\ b.ub \in [1 .. d -> Int]
  BY DEF ThinBox, BoxIn
<1>3. CASE b \in SolidBox(d)
  <2> DEFINE n == bbox_volume(b)
             f == [pos \in 0 .. n - 1 |-> CellAt(b, pos)]
  <2>1. n \in Nat
    BY <1>1
  <2>2. f \in [0 .. n - 1 -> Cells(b)]
    BY <1>3, CellOfPos
  <2>3. \A pos \in 0 .. n - 1 : PosOf(b, f[pos]) = pos
    BY <1>3, CellOfPos
  <2>4. \A c \in Cells(b) : PosOf(b, c) \in 0 .. n - 1 /\ f[PosOf(b, c)] = c
    BY <1>3, PosOfCell
  <2> HIDE DEF f, n
  <2>5. f \in Injection(0 .. n - 1, Cells(b))
    BY <2>2, <2>3 DEF Injection, IsInjective
  <2>6. f \in Surjection(0 .. n - 1, Cells(b))
    BY <2>2, <2>4 DEF Surjection
  <2>7. ExistsBijection(0 .. n - 1, Cells(b))
    BY <2>5, <2>6 DEF ExistsBijection, Bijection
  <2>8. IsFiniteSet(0 .. n - 1) /\ Cardinality(0 .. n - 1) = n
    <3>1. 0 \in Int /\ n - 1 \in Int
      BY <2>1
    <3>2. IsFiniteSet(0 .. n - 1)
      BY <3>1, FS_Interval
    <3>3. Cardinality(0 .. n - 1) = IF 0 > n - 1 THEN 0 ELSE (n - 1) - 0 + 1
      BY <3>1, FS_Interval
    <3> QED
      BY <2>1, <3>2, <3>3
  <2> QED
    BY <2>7, <2>8, FS_Bijection DEF n
<1>4. CASE b \notin SolidBox(d)
  <2>1. PICK i \in 1 .. d : ~ (b.lb[i] <= b.ub[i])
    BY <1>2, <1>4 DEF SolidBox
  <2>2. b.lb[i] \in Int /\ b.ub[i] \in Int /\ b.lb[i] <= b.ub[i] + 1
    BY <1>2 DEF ThinBox
  <2>3. bbox_dist(b, i) = 0
    BY <2>1, <2>2 DEF bbox_dist
  <2>4. Cells(b) = {}
    <3>1. SUFFICES ASSUME NEW c \in Cells(b)
                   PROVE  FALSE
      OBVIOUS
    <3>2. c \in [1 .. d -> Int] /\ b.lb[i] <= c[i] /\ c[i] <= b.ub[i]
      BY <1>2, CellsOf
    <3>3. c[i] \in Int
      BY <3>2
    <3> QED
      BY <2>1, <2>2, <3>2, <3>3
  <2>5. P[d] = 0
    <3> DEFINE T == {j \in 0 .. d : j >= i => P[j] = 0}
    <3>1. 0 \in T
      OBVIOUS
    <3>2. ASSUME NEW j \in 1 .. d, j - 1 \in T
          PROVE  j \in T
      <4>1. P[j] = P[j - 1] * bbox_dist(b, j) /\ P[j - 1] \in Nat
        BY <1>1
      <4>2. bbox_dist(b, j) \in Int
        BY <1>2 DEF bbox_dist
      <4>3. CASE j = i
        BY <2>3, <4>1, <4>3
      <4>4. CASE j > i
        <5>1. P[j - 1] = 0
          BY <3>2, <4>4
        <5> QED
          BY <4>1, <4>2, <5>1
      <4> QED
        BY <4>3, <4>4
    <3> HIDE DEF T
    <3>3. \A j \in 0 .. d : j \in T
      BY <3>1, <3>2, UpTo
    <3> QED
      BY <3>3 DEF T
  <2> QED
    BY <1>1, <2>4, <2>5, FS_EmptySet
<1> QED
  BY <1>3, <1>4

(* What the intersection of a request's box with a part counts. *)
LEMMA CommonCount ==
  ASSUME NEW d \in Nat \ {0}, NEW p \in SolidBox(d), NEW q \in ThinBox(d)
  PROVE  /\ IsFiniteSet(Cells(p) \cap Cells(q))
         /\ Cardinality(Cells(p) \cap Cells(q)) =
              (IF bbox_does_intersect(p, q) THEN bbox_volume(bbox_intersect(p, q)) ELSE 0)
<1> DEFINE m == bbox_intersect(p, q)
<1>1. /\ p \in BoxIn(d) /\ Dims(p) = 1 .. d /\ p.lb \in [1 .. d -> Int] /\ p.ub \in [1 .. d -> Int]
      /\ q \in BoxIn(d) /\ q.lb \in [1 .. d -> Int] /\ q.ub \in [1 .. d -> Int]
  BY DistOf DEF ThinBox, BoxIn
<1>2. /\ m \in BoxIn(d)
      /\ \A i \in 1 .. d : /\ m.lb[i] = (IF p.lb[i] >= q.lb[i] THEN p.lb[i] ELSE q.lb[i])
                           /\ m.ub[i] = (IF p.ub[i] <= q.ub[i] THEN p.ub[i] ELSE q.ub[i])
      /\ \A c : c \in Cells(m) <=> c \in Cells(p) /\ c \in Cells(q)
  BY <1>1, IntersectCells
<1> HIDE DEF m
<1>3. Cells(p) \cap Cells(q) = Cells(m)
  BY <1>2
<1>4. CASE bbox_does_intersect(p, q)
  <2>1. ASSUME NEW i \in 1 .. d
        PROVE  m.lb[i] <= m.ub[i] + 1
    <3>1. p.lb[i] \in Int /\ p.ub[i] \in Int /\ q.lb[i] \in Int /\ q.ub[i] \in Int
      BY <1>1
    <3>2. p.lb[i] <= p.ub[i] /\ q.lb[i] <= q.ub[i] + 1
      BY DEF SolidBox, ThinBox
    <3>3. \/ p.lb[i] <= q.lb[i] /\ q.lb[i] <= p.ub[i]
          \/ q.lb[i] <= p.lb[i] /\ p.lb[i] <= q.ub[i]
      BY <1>1, <1>4 DEF bbox_does_intersect
    <3> QED
      BY <1>2, <3>1, <3>2, <3>3
  <2>2. m \in ThinBox(d)
    BY <1>2, <2>1 DEF ThinBox
  <2>3. IsFiniteSet(Cells(m)) /\ Cardinality(Cells(m)) = bbox_volume(m)
    BY <2>2, VolumeCounts
  <2> QED
    BY <1>3, <1>4, <2>3 DEF m
<1>5. CASE ~ bbox_does_intersect(p, q)
  <2>1. Cells(p) \cap Cells(q) = {}
    BY <1>1, <1>5, CommonCell
  <2> QED
    BY <1>5, <2>1, FS_EmptySet
<1> QED
  BY <1>4, <1>5

(* The loop of ssh_hash_elem_count_v2 over boxes that share no element. *)
LEMMA CountOfTab ==
  ASSUME NEW d \in Nat \ {0}, NEW bb \in SolidBox(d), NEW tab \in Seq(ThinBox(d)),
         \A i, j \in 1 .. Len(tab) : \A c :
           c \in Cells(tab[i]) /\ c \in Cells(tab[j]) => i = j,
         NEW ss, NEW r, ss.ent_tab[r] = tab
  PROVE  ssh_hash_elem_count_v2(ss, r, bb)
           = Cardinality({c \in Cells(bb) : \E j \in 1 .. Len(tab) : c \in Cells(tab[j])})
<1> DEFINE L == Len(tab)
           Share(j) == IF bbox_does_intersect(bb, tab[j])
                       THEN bbox_volume(bbox_intersect(bb, tab[j])) ELSE 0
           Turns(q) == q = [j \in 0 .. L |-> IF j = 0 THEN 0 ELSE q[j - 1] + Share(j)]
           n == CHOOSE q : Turns(q)
           Upto(k) == {c \in Cells(bb) : \E j \in 1 .. k : c \in Cells(tab[j])}
           turn == [j \in 1 .. L |-> [x \in Nat |-> x + Share(j)]]
<1>1. L \in Nat /\ \A j \in 1 .. L : tab[j] \in ThinBox(d)
  OBVIOUS
<1>2. ssh_hash_elem_count_v2(ss, r, bb) = n[L]
  BY DEF ssh_hash_elem_count_v2
<1>3. \A j \in 1 .. L : /\ IsFiniteSet(Cells(bb) \cap Cells(tab[j]))
                       /\ Cardinality(Cells(bb) \cap Cells(tab[j])) = Share(j)
                       /\ Share(j) \in Nat
  <2> TAKE j \in 1 .. L
  <2>1. tab[j] \in ThinBox(d)
    BY <1>1
  <2>2. /\ IsFiniteSet(Cells(bb) \cap Cells(tab[j]))
        /\ Cardinality(Cells(bb) \cap Cells(tab[j])) = Share(j)
    BY <2>1, CommonCount
  <2> HIDE DEF Share
  <2>3. Cardinality(Cells(bb) \cap Cells(tab[j])) \in Nat
    BY <2>2, FS_CardinalityType
  <2> QED
    BY <2>2, <2>3
<1> HIDE DEF Share, L
<1>4. Loop(turn, L, Nat)
  <2>1. \A j \in 1 .. L : Share(j) \in Nat
    BY <1>3
  <2> QED
    BY <2>1 DEF Loop
<1>5. PICK f : Run(f, 0, turn, L, Nat)
  <2> HIDE DEF turn
  <2> QED
    BY <1>1, <1>4, LoopRuns
<1>6. f \in [0 .. L -> Nat] /\ f[0] = 0
  BY <1>5 DEF Run
<1>7. \A j \in 1 .. L : f[j - 1] \in Nat
  BY <1>1, <1>6
<1>8. \A j \in 1 .. L : f[j] = f[j - 1] + Share(j)
  BY <1>5, <1>7 DEF Run
<1>9. Turns(f)
  <2>1. \A j \in 0 .. L : j = 0 \/ j \in 1 .. L
    BY <1>1
  <2> QED
    BY <1>6, <1>8, <2>1
<1>10. Turns(n)
  <2> HIDE DEF Turns
  <2> QED
    BY <1>9
<1> HIDE DEF n
<1>11. n[0] = 0 /\ \A j \in 1 .. L : n[j] = n[j - 1] + Share(j)
  <2>1. 0 \in 0 .. L /\ \A j \in 1 .. L : j \in 0 .. L /\ j # 0
    BY <1>1
  <2> QED
    BY <1>10, <2>1
<1> DEFINE T == {k \in 0 .. L : IsFiniteSet(Upto(k)) /\ Cardinality(Upto(k)) = n[k]}
<1>12. 0 \in T
  <2>1. Upto(0) = {}
    OBVIOUS
  <2>2. 0 \in 0 .. L
    BY <1>1
  <2>3. IsFiniteSet({}) /\ Cardinality({}) = 0
    BY FS_EmptySet
  <2> HIDE DEF Upto
  <2>4. IsFiniteSet(Upto(0)) /\ Cardinality(Upto(0)) = n[0]
    BY <1>11, <2>1, <2>3
  <2> QED
    BY <2>2, <2>4
<1>13. ASSUME NEW k \in 1 .. L, k - 1 \in T
       PROVE  k \in T
  <2> DEFINE S == Upto(k - 1)
             W == Cells(bb) \cap Cells(tab[k])
  <2>1. IsFiniteSet(S) /\ Cardinality(S) = n[k - 1]
    BY <1>13
  <2>2. IsFiniteSet(W) /\ Cardinality(W) = Share(k) /\ Share(k) \in Nat
    BY <1>3
  <2>3. \A j \in 1 .. k : j = k \/ j \in 1 .. k - 1
    BY <1>1
  <2>4. \A j \in 1 .. k - 1 : j \in 1 .. k /\ j \in 1 .. L /\ j # k
    BY <1>1
  <2>5. Upto(k) = S \cup W
    <3>1. k \in 1 .. k
      BY <1>1
    <3> QED
      BY <2>3, <2>4, <3>1
  <2>6. S \cap W = {}
    <3>1. ASSUME NEW c \in S, c \in W
          PROVE  FALSE
      <4>1. PICK j \in 1 .. k - 1 : c \in Cells(tab[j])
        OBVIOUS
      <4> QED
        BY <2>4, <3>1, <4>1 DEF L
    <3> QED
      BY <3>1
  <2> HIDE DEF S, W
  <2>7. IsFiniteSet(S \cup W)
        /\ Cardinality(S \cup W) = Cardinality(S) + Cardinality(W) - Cardinality(S \cap W)
    BY <2>1, <2>2, FS_Union
  <2>8. Cardinality(S \cap W) = 0
    BY <2>6, FS_EmptySet
  <2>9. Cardinality(S) \in Nat
    BY <2>1, FS_CardinalityType
  <2>10. Cardinality(S \cup W) = n[k]
    BY <1>11, <2>1, <2>2, <2>7, <2>8, <2>9
  <2>11. k \in 0 .. L
    BY <1>1
  <2> HIDE DEF Upto
  <2> QED
    BY <2>5, <2>7, <2>10, <2>11
<1> HIDE DEF T
<1>14. \A k \in 0 .. L : k \in T
  BY <1>1, <1>12, <1>13, UpTo
<1>15. L \in T
  BY <1>1, <1>14
<1> QED
  BY <1>2, <1>15 DEF T, L

(* Division makes no box longer than one short of nothing. *)
LEMMA HalvesThin ==
  ASSUME NEW d \in Nat, NEW b \in ThinBox(d), NEW dim \in 1 .. d
  PROVE  LET h == bbox_divide_in2_ondim(b, dim)
         IN h[1] \in ThinBox(d) /\ h[2] \in ThinBox(d)
<1> DEFINE n == (b.lb[dim] + b.ub[dim]) \div 2
           h1 == [b EXCEPT !.ub[dim] = n]
           h2 == [b EXCEPT !.lb[dim] = n + 1]
<1>1. /\ b \in BoxIn(d) /\ b = [lb |-> b.lb, ub |-> b.ub]
      /\ b.lb \in [1 .. d -> Int] /\ b.ub \in [1 .. d -> Int]
  BY DEF ThinBox, BoxIn
<1>2. \A i \in 1 .. d : b.lb[i] \in Int /\ b.ub[i] \in Int /\ b.lb[i] <= b.ub[i] + 1
  BY <1>1 DEF ThinBox
<1>3. b.lb[dim] <= n + 1 /\ n + 1 <= b.ub[dim] + 1 /\ n \in Int
  BY <1>2
<1> HIDE DEF n
<1>4. /\ h1.lb = b.lb /\ h1.ub = [b.ub EXCEPT ![dim] = n]
      /\ h2.ub = b.ub /\ h2.lb = [b.lb EXCEPT ![dim] = n + 1]
  BY <1>1
<1>5. bbox_divide_in2_ondim(b, dim)[1] = h1 /\ bbox_divide_in2_ondim(b, dim)[2] = h2
  BY DEF bbox_divide_in2_ondim, n
<1> HIDE DEF h1, h2
<1>6. h1 \in BoxIn(d) /\ h2 \in BoxIn(d)
  BY <1>1, <1>5, HalvesOf
<1>7. \A i \in 1 .. d : h1.lb[i] <= h1.ub[i] + 1 /\ h2.lb[i] <= h2.ub[i] + 1
  <2> TAKE i \in 1 .. d
  <2>1. CASE i = dim
    <3>1. h1.lb[i] = b.lb[dim] /\ h1.ub[i] = n /\ h2.lb[i] = n + 1 /\ h2.ub[i] = b.ub[dim]
      BY <1>1, <1>4, <2>1
    <3> QED
      BY <1>3, <3>1
  <2>2. CASE i # dim
    <3>1. h1.lb[i] = b.lb[i] /\ h1.ub[i] = b.ub[i] /\ h2.lb[i] = b.lb[i] /\ h2.ub[i] = b.ub[i]
      BY <1>1, <1>4, <2>2
    <3> QED
      BY <1>2, <3>1
  <2> QED
    BY <2>1, <2>2
<1> QED
  BY <1>5, <1>6, <1>7 DEF ThinBox

Thin(boxes, d) == \A k \in 1 .. Len(boxes) : boxes[k] \in ThinBox(d)

LEMMA BisectThin ==
  ASSUME NEW d \in Nat \ {0}, NEW boxes \in Seq(BoxIn(d)), Thin(boxes, d)
  PROVE  Thin(Bisect(boxes), d)
<1> DEFINE Halves(j) == bbox_divide_in2_ondim(boxes[j], get_bbox_max_dim_size(boxes[j]))
           hs == [k \in 1 .. 2 * Len(boxes) |->
                    Halves((k + 1) \div 2)[IF k % 2 = 1 THEN 1 ELSE 2]]
<1>1. Bisect(boxes) = hs
  BY DEF Bisect
<1>2. Len(boxes) \in Nat /\ Len(Bisect(boxes)) = 2 * Len(boxes)
  BY BisectAt
<1>3. \A j \in 1 .. Len(boxes) : Halves(j)[1] \in ThinBox(d) /\ Halves(j)[2] \in ThinBox(d)
  <2> TAKE j \in 1 .. Len(boxes)
  <2>1. boxes[j] \in BoxIn(d) /\ boxes[j] \in ThinBox(d)
    BY DEF Thin
  <2>2. get_bbox_max_dim_size(boxes[j]) \in 1 .. d
    BY <2>1, LongestDim
  <2> QED
    BY <2>1, <2>2, HalvesThin
<1> HIDE DEF Halves
<1>4. \A k \in 1 .. 2 * Len(boxes) : hs[k] \in ThinBox(d)
  <2> TAKE k \in 1 .. 2 * Len(boxes)
  <2>1. (k + 1) \div 2 \in 1 .. Len(boxes)
    BY <1>2
  <2> QED
    BY <1>3, <2>1
<1> HIDE DEF hs
<1> QED
  BY <1>1, <1>2, <1>4 DEF Thin

LEMMA PartsThin ==
  ASSUME NEW d \in Nat \ {0}, NEW b \in ThinBox(d)
  PROVE  Thin(Parts(b), d)
<1> DEFINE n == Doublings(size_sp)
           Q == Queue(b)
           T == {i \in 0 .. n : Thin(Q[i], d)}
<1>1. b \in BoxIn(d)
  BY DEF ThinBox
<1>2. /\ n \in Nat /\ Q \in [0 .. n -> Seq(BoxIn(d))] /\ Q[0] = <<b>>
      /\ \A i \in 1 .. n : Q[i] = Bisect(Q[i - 1])
  BY <1>1, QueueRuns
<1> HIDE DEF n, Q
<1>3. 0 \in T
  <2>1. Len(Q[0]) = 1 /\ Q[0][1] = b
    BY <1>2
  <2>2. Thin(Q[0], d)
    BY <2>1 DEF Thin
  <2>3. 0 \in 0 .. n
    BY <1>2
  <2> QED
    BY <2>2, <2>3, Zenon
<1>4. ASSUME NEW i \in 1 .. n, i - 1 \in T
      PROVE  i \in T
  <2>1. i - 1 \in 0 .. n /\ i \in 0 .. n
    BY <1>2
  <2>2. Q[i - 1] \in Seq(BoxIn(d)) /\ Thin(Q[i - 1], d)
    BY <1>2, <1>4, <2>1
  <2>3. Thin(Bisect(Q[i - 1]), d)
    BY <2>2, BisectThin
  <2> QED
    BY <1>2, <2>1, <2>3
<1> HIDE DEF T
<1>5. \A i \in 0 .. n : i \in T
  BY <1>2, <1>3, <1>4, UpTo
<1>6. n \in T /\ n \in 0 .. n
  BY <1>2, <1>5
<1> QED
  BY <1>6 DEF T, Parts, Q, n

(* What ssh_hash_elem_count_v2 reckons for a server is the number of the   *)
(* box's elements that ssd_alloc_v2 gave it, for every domain, box and     *)
(* number of servers: also with the empty boxes that the bisection of      *)
(* short sides leaves.                                                     *)
THEOREM BisectionCounts ==
  ASSUME NEW d \in Nat \ {0}, NEW b \in ThinBox(d), NEW bb \in SolidBox(d), NEW r \in Rank
  PROVE  ssh_hash_elem_count_v2(ssd_alloc_v2(b), r, bb)
           = Cardinality({c \in Cells(bb) : r \in IndexedBy_v2(ssd_alloc_v2(b), c)})
<1> DEFINE ss == ssd_alloc_v2(b)
           parts == Parts(b)
           L == Len(parts)
           s == size_sp
           m == Dealt(L, s, r)
           tab == ss.ent_tab[r]
<1>1. b \in BoxIn(d)
  BY DEF ThinBox
<1>2. parts \in Seq(BoxIn(d)) /\ Divides(parts, b) /\ L \in Nat /\ Thin(parts, d)
  BY <1>1, PartsDivide, PartsThin
<1>3. s \in Nat \ {0} /\ r \in 0 .. s - 1
  BY SizeAssumption DEF Rank
<1>4. tab = [j \in 1 .. m |-> parts[r + 1 + (j - 1) * s]]
  BY TabOf
<1> HIDE DEF ss, parts, s, tab
<1>5. m \in Nat
  <2> DEFINE x == L - r + s - 1
  <2>1. x \in Nat
    BY <1>2, <1>3
  <2> HIDE DEF x
  <2>2. x \div s \in Nat
    BY <1>3, <2>1, Quotient
  <2> QED
    BY <2>2 DEF Dealt, x
<1>6. \A j \in 1 .. m : r + 1 + (j - 1) * s \in 1 .. L
  BY <1>2, <1>3, DealtIn
<1> HIDE DEF L, m
<1>7. \A j \in 1 .. m : tab[j] \in ThinBox(d)
  BY <1>2, <1>4, <1>6 DEF Thin, L
<1>8. tab \in [1 .. m -> ThinBox(d)]
  BY <1>4, <1>7
<1>9. tab \in Seq(ThinBox(d)) /\ Len(tab) = m /\ DOMAIN tab = 1 .. m
  BY <1>5, <1>8, LenOf
<1>10. ASSUME NEW i \in 1 .. m, NEW j \in 1 .. m, NEW c, c \in Cells(tab[i]), c \in Cells(tab[j])
       PROVE  i = j
  <2> DEFINE x == i - 1
             y == j - 1
             k == r + 1 + x * s
             l == r + 1 + y * s
  <2>1. tab[i] = parts[k] /\ tab[j] = parts[l]
    BY <1>4
  <2>2. k \in 1 .. L /\ l \in 1 .. L
    BY <1>6
  <2>3. x \in Int /\ y \in Int /\ i = x + 1 /\ j = y + 1
    BY <1>5
  <2> HIDE DEF x, y
  <2>4. k = l
    <3> HIDE DEF k, l
    <3> QED
      BY <1>2, <1>10, <2>1, <2>2 DEF Divides, L
  <2>5. x * s \in Int /\ y * s \in Int
    BY <1>3, <2>3
  <2>6. x * s + r = y * s + r
    BY <1>3, <2>4, <2>5
  <2>7. x = y
    BY <1>3, <2>3, <2>6, QuotientUnique
  <2> QED
    BY <2>3, <2>7
<1>11. \A i, j \in 1 .. Len(tab) : \A c :
         c \in Cells(tab[i]) /\ c \in Cells(tab[j]) => i = j
  BY <1>9, <1>10
<1>12. ssh_hash_elem_count_v2(ss, r, bb)
         = Cardinality({c \in Cells(bb) : \E j \in 1 .. Len(tab) : c \in Cells(tab[j])})
  <2>1. ss.ent_tab[r] = tab
    BY DEF tab
  <2> QED
    BY <1>9, <1>11, <2>1, CountOfTab
<1>13. \A c : r \in IndexedBy_v2(ss, c) <=> \E j \in 1 .. Len(tab) : c \in Cells(tab[j])
  BY <1>9 DEF IndexedBy_v2, tab
<1>14. {c \in Cells(bb) : \E j \in 1 .. Len(tab) : c \in Cells(tab[j])}
         = {c \in Cells(bb) : r \in IndexedBy_v2(ss, c)}
  BY <1>13
<1> QED
  BY <1>12, <1>14 DEF ss

(* Each element of a request's box is indexed by one server, and the       *)
(* number of elements for which a query waits at a server is the number    *)
(* that the server indexes, for all domains, boxes and numbers of servers: *)
(* bisected domains need no hypothesis, those on the curve that the curve  *)
(* counts.                                                                 *)
THEOREM BisectionCountsExact ==
  ASSUME VersionsKnown, Bisected(Gdim), CurveCounts(Gdim)
  PROVE  SpaceSpec => []ElemCountExact
<1> DEFINE Exact(g, b) ==
             /\ \A c \in Cells(b) : Cardinality(OwnersOf[g][c]) = 1
             /\ \A r \in UNION {OwnersOf[g][c] : c \in Cells(b)} :
                  CountOf[g][b][r] = Cardinality({c \in Cells(b) : r \in OwnersOf[g][c]})
<1>1. ASSUME NEW g \in Gdim, NEW b \in BoxesOf[g], Version[g] = "v2"
      PROVE  Exact(g, b)
  <2> DEFINE ss == ssd_alloc_v2(BoxOfSize(g))
             d == Len(g)
  <2>1. BisectedAs(g, ss)
    BY <1>1, Bisected(Gdim) DEF Bisected
  <2>2. g \in Seq(Nat) /\ d \in Nat \ {0} /\ DOMAIN g = 1 .. d
    BY <2>1, GdimAssumption DEF BisectedAs
  <2>3. BoxOfSize(g) \in ThinBox(d) /\ BoxOfSize(g) \in BoxIn(d)
    BY <2>2 DEF BoxOfSize, ThinBox, BoxIn
  <2>4. \A r \in Rank : \A bb \in SolidBox(d) :
          ssh_hash_elem_count_v2(ss, r, bb)
            = Cardinality({c \in Cells(bb) : r \in IndexedBy_v2(ss, c)})
    BY <2>2, <2>3, BisectionCounts
  <2>5. \A c \in Cells(BoxOfSize(g)) : \E r \in Rank : IndexedBy_v2(ss, c) = {r}
    BY <2>2, <2>3, BisectionIndexesOnce
  <2> HIDE DEF ss
  <2>6. /\ b \in BoxIn(d) /\ Cells(b) \subseteq Cells(BoxOfSize(g))
        /\ \A i \in 1 .. d : b.lb[i] <= b.ub[i]
    BY <2>1 DEF BisectedAs
  <2>7. b \in SolidBox(d)
    BY <2>6 DEF SolidBox
  <2>8. \A c \in Cells(b) : OwnersOf[g][c] = IndexedBy_v2(ss, c)
    BY <2>1, <2>6 DEF BisectedAs
  <2>9. \A r \in Rank : ss.ent_tab[r] # <<>> =>
          CountOf[g][b][r] = ssh_hash_elem_count_v2(ss, r, b)
    BY <2>1 DEF BisectedAs
  <2>10. ASSUME NEW c \in Cells(b)
         PROVE  Cardinality(OwnersOf[g][c]) = 1
    <3>1. PICK r \in Rank : IndexedBy_v2(ss, c) = {r}
      BY <2>5, <2>6
    <3>2. OwnersOf[g][c] = {r}
      BY <2>8, <3>1
    <3> QED
      BY <3>2, FS_Singleton
  <2> HIDE DEF d
  <2>11. ASSUME NEW r \in UNION {OwnersOf[g][c] : c \in Cells(b)}
         PROVE  CountOf[g][b][r] = Cardinality({c \in Cells(b) : r \in OwnersOf[g][c]})
    <3>1. PICK c \in Cells(b) : r \in IndexedBy_v2(ss, c)
      BY <2>8
    <3>2. r \in Rank /\ \E j \in DOMAIN ss.ent_tab[r] : c \in Cells(ss.ent_tab[r][j])
      BY <3>1 DEF IndexedBy_v2
    <3>3. ss.ent_tab[r] # <<>>
      BY <3>2
    <3>4. {e \in Cells(b) : r \in OwnersOf[g][e]} = {e \in Cells(b) : r \in IndexedBy_v2(ss, e)}
      BY <2>8
    <3> QED
      BY <2>4, <2>7, <2>9, <3>2, <3>3, <3>4
  <2> QED
    BY <2>10, <2>11
<1>2. ASSUME NEW g \in Gdim, NEW b \in BoxesOf[g], Version[g] = "v1"
      PROVE  Exact(g, b)
  BY <1>2, CurveCounts(Gdim) DEF CurveCounts
<1>3. CacheInv => ElemCountExact
  <2> SUFFICES ASSUME CacheInv, NEW h \in Handler, pc[h] = "done", IsHashed(h)
               PROVE  Exact(ssd[h], q_bb[h])
    BY DEF ElemCountExact
  <2>1. ssd[h] \in Gdim /\ q_bb[h] \in BoxesOf[ssd[h]] /\ Version[ssd[h]] # "v0"
    BY DEF CacheInv, SpaceInv, GdimsOK, RequestOK, OwnSpace, IsHashed
  <2>2. Version[ssd[h]] \in {"v1", "v2"}
    BY <2>1, VersionsKnown DEF VersionsKnown
  <2> HIDE DEF Exact
  <2> QED
    BY <1>1, <1>2, <2>1, <2>2
<1> QED
  BY <1>3, CacheInvHolds, PTL
=============================================================================
