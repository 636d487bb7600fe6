----------------------------- MODULE TreeProofs -----------------------------
(***************************************************************************)
(* Proofs about the tree of ibcast_rpc_start and what runs over it, for    *)
(* every number of servers.  The forwarding rule splits the servers that a *)
(* request has yet to reach among the servers it is forwarded to.  Gather: *)
(* whichever server the client asks, the request reaches no server twice,  *)
(* and the answer has every object that was stored exactly once.  Kill,    *)
(* for every number of calls and of tokens: no server counts a call twice, *)
(* no handler forwards from a freed address table, and the shutdown        *)
(* implements Lifetime (its safety part).                                  *)
(***************************************************************************)
EXTENDS Gather, Kill, FiniteSetTheorems, WellFoundedInduction, TLAPS

(* A set of servers that has the children of all its members. *)
ChildClosed(S) ==
  \A r \in S : {child1(r), child2(r)} \cap Rank \subseteq S

(* The servers below r in the tree, and r: the least such set with r. *)
Subtree(r) ==
  {s \in Rank : \A S \in SUBSET Rank : r \in S /\ ChildClosed(S) => s \in S}

(* Two servers that are joined by an edge of the tree. *)
Adjacent(r, s) == r \in {child1(s), child2(s)} \/ s \in {child1(r), child2(r)}

(* The servers that a request sent from src to r is meant for: r and those *)
(* behind it, seen from src; all of them if src is a client.               *)
Beyond(src, r) ==
  IF src = NoSrc THEN Rank
  ELSE IF src < r THEN Subtree(r)
  ELSE Rank \ Subtree(src)

-----------------------------------------------------------------------------
(* The numbering of the tree: a child has a larger number than its parent, *)
(* and no two servers have a child in common.                              *)
LEMMA Numbering ==
  /\ \A r \in Rank : r \in Nat /\ child1(r) \in Nat /\ child2(r) \in Nat
  /\ \A r \in Rank : r < child1(r) /\ r < child2(r) /\ child1(r) # child2(r)
  /\ \A r, s \in Rank : {child1(r), child2(r)} \cap {child1(s), child2(s)} # {} => r = s
BY TreeAssumption DEF Rank, child1, child2

(* Every server but rank 0 is a child of its parent, and of no other       *)
(* server.                                                                 *)
LEMMA ParentOfChild ==
  /\ \A r \in Rank : r > 0 => /\ parent(r) \in Rank /\ parent(r) < r
                              /\ r \in {child1(parent(r)), child2(parent(r))}
  /\ \A r, s \in Rank : r \in {child1(s), child2(s)} => r > 0 /\ s = parent(r)
BY TreeAssumption DEF Rank, child1, child2, parent

(* The subtree of a server has the server, and is closed. *)
LEMMA SubtreeClosed ==
  ASSUME NEW r \in Rank
  PROVE  /\ r \in Subtree(r)
         /\ Subtree(r) \subseteq Rank
         /\ ChildClosed(Subtree(r))
<1>1. r \in Subtree(r) /\ Subtree(r) \subseteq Rank
  BY DEF Subtree
<1>2. ASSUME NEW t \in Subtree(r), NEW c \in {child1(t), child2(t)} \cap Rank
      PROVE  c \in Subtree(r)
  <2>1. ASSUME NEW S \in SUBSET Rank, r \in S, ChildClosed(S)
        PROVE  c \in S
    <3>1. t \in S
      BY <2>1 DEF Subtree
    <3> QED
      BY <2>1, <3>1 DEF ChildClosed
  <2> QED
    BY <2>1 DEF Subtree
<1> QED
  BY <1>1, <1>2 DEF ChildClosed

(* ... and is the least such set. *)
LEMMA SubtreeLeast ==
  ASSUME NEW r \in Rank, NEW S, S \subseteq Rank, r \in S, ChildClosed(S)
  PROVE  Subtree(r) \subseteq S
BY DEF Subtree

(* Numbers grow down the tree. *)
LEMMA SubtreeAbove ==
  ASSUME NEW r \in Rank
  PROVE  \A s \in Subtree(r) : r <= s
<1> DEFINE S == {s \in Rank : r <= s}
<1>1. ChildClosed(S)
  BY Numbering DEF ChildClosed, Rank
<1>2. r \in S
  BY Numbering
<1> QED
  BY <1>1, <1>2, SubtreeLeast

(* A server of a subtree that is not its root has its parent there. *)
LEMMA SubtreeParent ==
  ASSUME NEW r \in Rank, NEW s \in Rank, NEW c \in {child1(s), child2(s)} \cap Subtree(r), c # r
  PROVE  s \in Subtree(r)
<1> DEFINE S == {t \in Subtree(r) :
                  t = r \/ \A u \in Rank : t \in {child1(u), child2(u)} => u \in Subtree(r)}
<1>1. S \subseteq Rank /\ r \in S
  BY SubtreeClosed
<1>2. ChildClosed(S)
  <2>1. ASSUME NEW t \in S, NEW d \in {child1(t), child2(t)} \cap Rank
        PROVE  d \in S
    <3>1. t \in Rank /\ t \in Subtree(r) /\ d \in Subtree(r)
      BY SubtreeClosed DEF ChildClosed
    <3>2. ASSUME NEW u \in Rank, d \in {child1(u), child2(u)}
          PROVE  u \in Subtree(r)
      <4>1. u = t
        BY <3>1, <3>2, Numbering
      <4> QED
        BY <4>1, <3>1
    <3> QED
      BY <3>1, <3>2
  <2> QED
    BY <2>1 DEF ChildClosed
<1>3. Subtree(r) \subseteq S
  BY <1>1, <1>2, SubtreeLeast
<1> QED
  BY <1>3

(* The subtrees of the two children of a server are disjoint, and its own  *)
(* is made of these and of itself.                                         *)
LEMMA SubtreeOfChild ==
  ASSUME NEW r \in Rank, NEW c \in {child1(r), child2(r)} \cap Rank
  PROVE  Subtree(c) \subseteq Subtree(r) \ {r}
<1>1. c \in Subtree(r)
  BY SubtreeClosed DEF ChildClosed
<1>2. Subtree(c) \subseteq Subtree(r)
  BY <1>1, SubtreeClosed, SubtreeLeast
<1>3. r \notin Subtree(c)
  <2>1. r < c /\ r \in Nat /\ c \in Nat
    BY Numbering
  <2> QED
    BY <2>1, SubtreeAbove
<1> QED
  BY <1>2, <1>3

(* The subtrees of two children of a server do not meet. *)
LEMMA ChildrenDisjoint ==
  ASSUME NEW r \in Rank, NEW c \in {child1(r), child2(r)} \cap Rank,
         NEW d \in {child1(r), child2(r)} \cap Rank, c # d
  PROVE  Subtree(c) \cap Subtree(d) = {}
<1> DEFINE S == Subtree(c) \ Subtree(d)
<1>1. S \subseteq Rank
  BY SubtreeClosed
<1>2. c \in S
  <2>1. c \in Subtree(c)
    BY SubtreeClosed
  <2>2. ASSUME c \in Subtree(d)
        PROVE  FALSE
    <3>1. r \in Subtree(d)
      BY <2>2, SubtreeParent
    <3> QED
      BY <3>1, SubtreeOfChild
  <2> QED
    BY <2>1, <2>2
<1>3. ChildClosed(S)
  <2>1. ASSUME NEW t \in S, NEW e \in {child1(t), child2(t)} \cap Rank
        PROVE  e \in S
    <3>1. t \in Rank /\ e \in Subtree(c)
      BY SubtreeClosed DEF ChildClosed
    <3>2. ASSUME e \in Subtree(d)
          PROVE  FALSE
      <4>1. CASE e = d
        <5>1. t = r
          BY <4>1, <3>1, Numbering
        <5> QED
          BY <5>1, SubtreeOfChild
      <4>2. CASE e # d
        BY <4>2, <3>1, <3>2, SubtreeParent
      <4> QED
        BY <4>1, <4>2
    <3> QED
      BY <3>1, <3>2
  <2> QED
    BY <2>1 DEF ChildClosed
<1>4. Subtree(c) \subseteq S
  BY <1>1, <1>2, <1>3, SubtreeLeast
<1> QED
  BY <1>4

(* What is below a server is below one of its children. *)
LEMMA SubtreeSplit ==
  ASSUME NEW r \in Rank, NEW s \in Subtree(r), s # r
  PROVE  \E c \in {child1(r), child2(r)} \cap Rank : s \in Subtree(c)
<1> DEFINE S == {r} \cup UNION {Subtree(c) : c \in {child1(r), child2(r)} \cap Rank}
<1>1. S \subseteq Rank /\ r \in S
  BY SubtreeClosed
<1>2. ChildClosed(S)
  <2>1. ASSUME NEW t \in S, NEW d \in {child1(t), child2(t)} \cap Rank
        PROVE  d \in S
    <3>1. CASE t = r
      BY <3>1, SubtreeClosed
    <3>2. CASE t # r
      <4>1. PICK c \in {child1(r), child2(r)} \cap Rank : t \in Subtree(c)
        BY <3>2
      <4>2. d \in Subtree(c)
        BY <4>1, SubtreeClosed DEF ChildClosed
      <4> QED
        BY <4>2
    <3> QED
      BY <3>1, <3>2
  <2> QED
    BY <2>1 DEF ChildClosed
<1>3. Subtree(r) \subseteq S
  BY <1>1, <1>2, SubtreeLeast
<1> QED
  BY <1>3

(* Every server is below server 0. *)
LEMMA SubtreeOfRoot ==
  0 \in Rank /\ Subtree(0) = Rank
<1>1. 0 \in Rank
  BY TreeAssumption DEF Rank
<1> DEFINE T == Rank \ Subtree(0)
<1>2. ASSUME T # {}
      PROVE  FALSE
  <2>1. T \subseteq Nat
    BY Numbering
  <2>2. PICK x \in T : \A y \in T : ~ (<<y, x>> \in OpToRel(<, Nat))
    BY <1>2, <2>1, NatLessThanWellFounded, WFMin
  <2>3. \A y \in T : ~ (y < x)
    BY <2>1, <2>2 DEF OpToRel
  <2>4. x \in Nat /\ x # 0
    BY <1>1, <2>1, SubtreeClosed
  <2>5. parent(x) \in Rank /\ parent(x) < x /\ x \in {child1(parent(x)), child2(parent(x))}
    BY <2>4, ParentOfChild
  <2>6. parent(x) \in Subtree(0)
    BY <2>3, <2>5
  <2>7. x \in Subtree(0)
    BY <1>1, <2>5, <2>6, SubtreeClosed DEF ChildClosed
  <2> QED
    BY <2>7
<1> QED
  BY <1>1, <1>2, SubtreeClosed

-----------------------------------------------------------------------------
(* A source is a client or a neighbour of the server that got the request. *)
Source(src, r) == src = NoSrc \/ (src \in Rank /\ Adjacent(src, r))

(* The servers that a request is forwarded to: the neighbours but the one  *)
(* that it came from.                                                      *)
LEMMA TargetsAre ==
  ASSUME NEW r \in Rank, NEW src, Source(src, r)
  PROVE  \A t : t \in Targets(r, src) <=> t \in Rank /\ Adjacent(t, r) /\ t # src
<1>1. ASSUME NEW t, t \in Targets(r, src)
      PROVE  t \in Rank /\ Adjacent(t, r) /\ t # src
  <2>1. CASE t = parent(r) /\ r > 0 /\ (src = NoSrc \/ src > r)
    <3>1. t \in Rank /\ t < r /\ r \in {child1(t), child2(t)}
      BY <2>1, ParentOfChild
    <3>2. t # src
      BY <2>1, <3>1, Numbering DEF NoSrc, Source
    <3> QED
      BY <3>1, <3>2 DEF Adjacent
  <2>2. CASE t \in {child1(r), child2(r)} /\ t # src
    BY <1>1, <2>2 DEF Targets, Adjacent
  <2> QED
    BY <1>1, <2>1, <2>2 DEF Targets
<1>2. ASSUME NEW t, t \in Rank, Adjacent(t, r), t # src
      PROVE  t \in Targets(r, src)
  <2>1. CASE t \in {child1(r), child2(r)}
    BY <1>2, <2>1 DEF Targets
  <2>2. CASE r \in {child1(t), child2(t)}
    <3>1. r > 0 /\ t = parent(r)
      BY <1>2, <2>2, ParentOfChild
    <3>2. ASSUME src # NoSrc
          PROVE  src > r
      <4>1. src \in Rank /\ Adjacent(src, r)
        BY <3>2 DEF Source
      <4>2. r \notin {child1(src), child2(src)}
        BY <1>2, <2>2, <4>1, Numbering
      <4>3. src \in {child1(r), child2(r)}
        BY <4>1, <4>2 DEF Adjacent
      <4> QED
        BY <4>3, Numbering
    <3> QED
      BY <1>2, <3>1, <3>2 DEF Targets
  <2> QED
    BY <1>2, <2>1, <2>2 DEF Adjacent
<1> QED
  BY <1>1, <1>2

(* What lies beyond an edge, by its direction. *)
LEMMA BeyondDown ==
  ASSUME NEW r \in Rank, NEW c \in {child1(r), child2(r)} \cap Rank
  PROVE  Beyond(r, c) = Subtree(c) /\ Beyond(c, r) = Rank \ Subtree(c)
BY Numbering DEF Beyond, NoSrc

(* The server that gets a request is one that it is meant for. *)
LEMMA BeyondHasReceiver ==
  ASSUME NEW r \in Rank, NEW src, Source(src, r)
  PROVE  r \in Beyond(src, r) /\ Beyond(src, r) \subseteq Rank
<1>1. CASE src = NoSrc
  BY <1>1 DEF Beyond
<1>2. CASE src \in Rank /\ r \in {child1(src), child2(src)}
  BY <1>2, BeyondDown, SubtreeClosed
<1>3. CASE src \in Rank /\ src \in {child1(r), child2(r)}
  BY <1>3, BeyondDown, SubtreeOfChild
<1> QED
  BY <1>1, <1>2, <1>3 DEF Source, Adjacent

(* A forwarded request is meant for fewer servers, not for the forwarding  *)
(* one.                                                                    *)
LEMMA BeyondShrinks ==
  ASSUME NEW r \in Rank, NEW src, Source(src, r), NEW t \in Targets(r, src)
  PROVE  Source(r, t) /\ Beyond(r, t) \subseteq Beyond(src, r) \ {r}
<1>1. t \in Rank /\ Adjacent(t, r) /\ t # src
  BY TargetsAre
<1>2. Source(r, t)
  BY <1>1 DEF Source, Adjacent
<1>3. CASE src = NoSrc
  <2>1. CASE t \in {child1(r), child2(r)}
    BY <1>1, <1>2, <1>3, <2>1, BeyondDown, SubtreeOfChild, SubtreeClosed DEF Beyond
  <2>2. CASE r \in {child1(t), child2(t)}
    BY <1>1, <1>2, <1>3, <2>2, BeyondDown, SubtreeClosed DEF Beyond
  <2> QED
    BY <1>1, <2>1, <2>2 DEF Adjacent
<1>4. CASE src \in Rank /\ r \in {child1(src), child2(src)}
  <2>1. t \in {child1(r), child2(r)}
    BY <1>1, <1>4, Numbering DEF Adjacent
  <2> QED
    BY <1>1, <1>2, <1>4, <2>1, BeyondDown, SubtreeOfChild
<1>5. CASE src \in Rank /\ src \in {child1(r), child2(r)}
  <2>1. CASE t \in {child1(r), child2(r)}
    BY <1>1, <1>2, <1>5, <2>1, BeyondDown, ChildrenDisjoint, SubtreeOfChild, SubtreeClosed
  <2>2. CASE r \in {child1(t), child2(t)}
    BY <1>1, <1>2, <1>5, <2>2, BeyondDown, SubtreeOfChild, SubtreeClosed
  <2> QED
    BY <1>1, <2>1, <2>2 DEF Adjacent
<1> QED
  BY <1>2, <1>3, <1>4, <1>5 DEF Source, Adjacent

(* Two forwarded requests are meant for different servers. *)
LEMMA BeyondDisjoint ==
  ASSUME NEW r \in Rank, NEW src, Source(src, r),
         NEW t \in Targets(r, src), NEW u \in Targets(r, src), t # u
  PROVE  Beyond(r, t) \cap Beyond(r, u) = {}
<1>1. t \in Rank /\ Adjacent(t, r) /\ u \in Rank /\ Adjacent(u, r)
  BY TargetsAre
<1>2. CASE t \in {child1(r), child2(r)} /\ u \in {child1(r), child2(r)}
  BY <1>1, <1>2, BeyondDown, ChildrenDisjoint
<1>3. CASE t \in {child1(r), child2(r)} /\ r \in {child1(u), child2(u)}
  BY <1>1, <1>3, BeyondDown, SubtreeOfChild
<1>4. CASE u \in {child1(r), child2(r)} /\ r \in {child1(t), child2(t)}
  BY <1>1, <1>4, BeyondDown, SubtreeOfChild
<1>5. ~ (r \in {child1(t), child2(t)} /\ r \in {child1(u), child2(u)})
  BY <1>1, Numbering
<1> QED
  BY <1>1, <1>2, <1>3, <1>4, <1>5 DEF Adjacent

(* The forwarded requests are, together, meant for all the servers that    *)
(* the request was meant for and that are left.                            *)
LEMMA BeyondCovers ==
  ASSUME NEW r \in Rank, NEW src, Source(src, r), NEW s \in Beyond(src, r), s # r
  PROVE  \E t \in Targets(r, src) : s \in Beyond(r, t)
<1>0. s \in Rank
  BY BeyondHasReceiver
<1>1. CASE s \in Subtree(r)
  <2>1. PICK c \in {child1(r), child2(r)} \cap Rank : s \in Subtree(c)
    BY <1>1, SubtreeSplit
  <2>2. c # src
    <3>1. ASSUME c = src
          PROVE  FALSE
      <4>1. src # NoSrc /\ ~ (src < r)
        BY <3>1, Numbering DEF NoSrc
      <4> QED
        BY <2>1, <3>1, <4>1 DEF Beyond
    <3> QED
      BY <3>1
  <2>3. c \in Targets(r, src)
    BY <2>2, TargetsAre DEF Adjacent
  <2> QED
    BY <2>1, <2>3, BeyondDown
<1>2. CASE s \notin Subtree(r)
  <2>1. r > 0
    BY <1>0, <1>2, SubtreeOfRoot, Numbering
  <2>2. parent(r) \in Rank /\ parent(r) < r /\ r \in {child1(parent(r)), child2(parent(r))}
    BY <2>1, ParentOfChild
  <2>3. s \in Beyond(r, parent(r))
    BY <1>0, <1>2, <2>2, BeyondDown
  <2>4. parent(r) # src
    <3>1. ASSUME parent(r) = src
          PROVE  FALSE
      BY <1>2, <2>2, <3>1, Numbering DEF Beyond, NoSrc
    <3> QED
      BY <3>1
  <2>5. parent(r) \in Targets(r, src)
    BY <2>2, <2>4, TargetsAre DEF Adjacent
  <2> QED
    BY <2>3, <2>5
<1> QED
  BY <1>1, <1>2

-----------------------------------------------------------------------------
(* Gathering over the tree. *)

GatherSpec == GatherInit /\ [][GatherNext]_gatherVars

GatherTypeOK ==
  /\ stored \in [Rank -> SUBSET Object]
  /\ requests \subseteq Handler
  /\ pc \in [Handler -> {"none", "scan", "wait", "done"}]
  /\ out \in [Handler -> SUBSET (Handler \X Object)]
  /\ entry \in Rank \cup {None}
  /\ before \subseteq Object
  /\ missed \subseteq Object
  /\ late \in [Rank -> SUBSET Object]

(* The servers that a request is meant for. *)
Meant(h) == Beyond(h.src, h.rank)

Started(h) == pc[h] # "none"

(* The handler has listed what its server stores. *)
HasScanned(h) == pc[h] \in {"wait", "done"}

(* Requests come from the client or over an edge of the tree, and only     *)
(* after the client has asked.                                             *)
WellAsked ==
  /\ \A h \in requests : Source(h.src, h.rank) /\ ~ Started(h)
  /\ \A h \in Handler : Started(h) => Source(h.src, h.rank)
  /\ entry = None => requests = {} /\ \A h \in Handler : ~ Started(h)

(* The requests on their way are meant for different servers, and for such *)
(* that have no handler yet.                                               *)
Apart ==
  /\ \A g, h \in requests : g # h => Meant(g) \cap Meant(h) = {}
  /\ \A h \in requests, g \in Handler : Started(g) => g.rank \notin Meant(h)
  /\ \A g, h \in Handler : Started(g) /\ Started(h) /\ g.rank = h.rank => g = h

(* Each object is put at one server, and is stored there or has left it.   *)
StoredOnce ==
  /\ \A s, t \in Rank : Held(s) \cap Held(t) # {} => s = t
  /\ \A s \in Rank : Held(s) \cap missed = {}
  /\ \A o \in before \ missed : \E s \in Rank : o \in Held(s)
  /\ \A s \in Rank : ~ Scanned(s) => late[s] = {}

(* What a handler has collected was stored at the server it comes from.    *)
OutSound ==
  \A h \in Handler : \A p \in out[h] : HasScanned(p[1]) /\ p[2] \in Held(p[1].rank)

(* It has what its server had when the client asked and, at the end, what  *)
(* all the servers had that the request was meant for, but for what was    *)
(* missed.                                                                 *)
OutComplete ==
  \A h \in Handler :
    /\ HasScanned(h) => {h} \X (before \cap Held(h.rank)) \subseteq out[h]
    /\ pc[h] = "done" =>
         \A s \in Meant(h) : \A o \in before \cap Held(s) :
           \E g \in Handler : g.rank = s /\ <<g, o>> \in out[h]

GatherInv ==
  GatherTypeOK /\ WellAsked /\ Apart /\ StoredOnce /\ OutSound /\ OutComplete

-----------------------------------------------------------------------------
(* The request of a handler is meant for its server, and for ranks alone. *)
LEMMA MeantForReceiver ==
  ASSUME NEW h \in Handler, Source(h.src, h.rank)
  PROVE  h.rank \in Rank /\ h.rank \in Meant(h) /\ Meant(h) \subseteq Rank
BY BeyondHasReceiver DEF Handler, Meant

(* The requests that a handler sends on share out the servers that are     *)
(* left to it.                                                             *)
LEMMA AskedSplit ==
  ASSUME NEW h \in Handler, Source(h.src, h.rank)
  PROVE  /\ \A g \in Asked(h) : /\ g \in Handler /\ Source(g.src, g.rank)
                                /\ Meant(g) \subseteq Meant(h) \ {h.rank}
         /\ \A f, g \in Asked(h) : f # g => Meant(f) \cap Meant(g) = {}
         /\ \A s \in Meant(h) : s # h.rank => \E g \in Asked(h) : s \in Meant(g)
<1> DEFINE r == h.rank
           T == Targets(r, h.src)
           req(t) == [rank |-> t, src |-> r]
<1>1. r \in Rank
  BY DEF Handler
<1>2. ASSUME NEW t \in T
      PROVE  /\ req(t) \in Handler /\ req(t).rank = t /\ req(t).src = r
             /\ Source(r, t) /\ Meant(req(t)) = Beyond(r, t)
             /\ Beyond(r, t) \subseteq Meant(h) \ {r}
  <2>1. t \in Rank
    BY <1>1, TargetsAre
  <2>2. req(t) \in Handler /\ Meant(req(t)) = Beyond(r, t)
    BY <1>1, <2>1 DEF Handler, Meant
  <2>3. Source(r, t) /\ Beyond(r, t) \subseteq Meant(h) \ {r}
    BY <1>1, BeyondShrinks DEF Meant
  <2> QED
    BY <2>2, <2>3
<1>3. \A g : g \in Asked(h) <=> \E t \in T : g = req(t)
  BY DEF Asked
<1>4. ASSUME NEW g \in Asked(h)
      PROVE  /\ g \in Handler /\ Source(g.src, g.rank)
             /\ Meant(g) \subseteq Meant(h) \ {h.rank}
  BY <1>2, <1>3
<1>5. ASSUME NEW f \in Asked(h), NEW g \in Asked(h), f # g
      PROVE  Meant(f) \cap Meant(g) = {}
  <2>1. PICK t \in T : f = req(t)
    BY <1>3
  <2>2. PICK u \in T : g = req(u)
    BY <1>3
  <2>3. Beyond(r, t) \cap Beyond(r, u) = {}
    BY <1>1, <1>5, <2>1, <2>2, BeyondDisjoint
  <2> QED
    BY <1>2, <2>1, <2>2, <2>3
<1>6. ASSUME NEW s \in Meant(h), s # r
      PROVE  \E g \in Asked(h) : s \in Meant(g)
  <2>1. PICK t \in T : s \in Beyond(r, t)
    BY <1>1, <1>6, BeyondCovers DEF Meant
  <2>2. req(t) \in Asked(h) /\ s \in Meant(req(t))
    BY <1>2, <1>3, <2>1
  <2> QED
    BY <2>2
<1> QED
  BY <1>4, <1>5, <1>6

(* What a handler has collected are handlers with objects. *)
LEMMA OutPairs ==
  ASSUME GatherTypeOK, NEW h \in Handler, NEW p \in out[h]
  PROVE  p = <<p[1], p[2]>> /\ p[1] \in Handler /\ p[1].rank \in Rank
<1>1. p \in Handler \X Object
  BY DEF GatherTypeOK
<1>2. p = <<p[1], p[2]>> /\ p[1] \in Handler
  BY <1>1
<1> QED
  BY <1>2 DEF Handler

(* The invariant holds initially. *)
LEMMA GatherInitInv ==
  GatherInit => GatherInv
BY DEF GatherInit, GatherInv, GatherTypeOK, WellAsked, Apart, StoredOnce, OutSound, OutComplete,
       Started, HasScanned, Held

(* A put adds an object that no server has had, which is none of those     *)
(* that were stored before, and may evict another one.                     *)
LEMMA PutInv ==
  ASSUME GatherInv, NEW s \in Rank, NEW o \in Object, Put(s, o)
  PROVE  GatherInv'
<1> USE DEF GatherInv
<1>1. PICK gone \in Evicted(s, o) :
        /\ stored' = [stored EXCEPT ![s] = (@ \ gone) \cup {o}]
        /\ \/ Scanned(s) /\ late' = [late EXCEPT ![s] = @ \cup gone] /\ UNCHANGED missed
           \/ ~ Scanned(s) /\ missed' = missed \cup gone /\ UNCHANGED late
  BY DEF Put
<1>2. /\ o \notin missed /\ \A t \in Rank : o \notin Held(t)
      /\ UNCHANGED <<requests, pc, out, entry, before>>
  BY DEF Put
<1>3. gone \subseteq stored[s] /\ gone \subseteq Object /\ gone \subseteq Held(s)
  <2>1. gone \subseteq stored[s]
    <3> DEFINE clashing == {e \in stored[s] : <<e, o>> \in Clash}
    <3>1. gone \in IF clashing = {} THEN {{}} ELSE {{e} : e \in clashing}
      BY DEF Evicted
    <3>2. clashing \subseteq stored[s]
      OBVIOUS
    <3> HIDE DEF clashing
    <3> QED
      BY <3>1, <3>2
  <2> QED
    BY <2>1 DEF GatherTypeOK, Held
<1>4. o \notin before
  BY <1>2 DEF StoredOnce
<1>5. GatherTypeOK'
  BY <1>1, <1>2, <1>3 DEF GatherTypeOK
<1>6. WellAsked' /\ Apart'
  BY <1>2 DEF WellAsked, Apart, Started
<1>7. \A t \in Rank : Scanned(t)' <=> Scanned(t)
  BY <1>2 DEF Scanned
<1>8. /\ \A t \in Rank : t # s => Held(t)' = Held(t) /\ late'[t] = late[t]
      /\ Scanned(s) => Held(s)' = Held(s) \cup {o} /\ missed' = missed
      /\ ~ Scanned(s) => /\ Held(s)' = (Held(s) \ gone) \cup {o} /\ late'[s] = {}
                         /\ missed' = missed \cup gone
  <2>1. \A t \in Rank : /\ stored'[t] = IF t = s THEN (stored[t] \ gone) \cup {o} ELSE stored[t]
                        /\ late'[t] = IF t = s /\ Scanned(s) THEN late[t] \cup gone ELSE late[t]
    BY <1>1 DEF GatherTypeOK
  <2>2. ~ Scanned(s) => late[s] = {}
    BY DEF StoredOnce
  <2>3. CASE Scanned(s)
    <3>1. stored'[s] = (stored[s] \ gone) \cup {o} /\ late'[s] = late[s] \cup gone
      BY <2>1, <2>3
    <3>2. Held(s)' = Held(s) \cup {o}
      BY <1>3, <3>1 DEF Held
    <3>3. \A t \in Rank : t # s => Held(t)' = Held(t) /\ late'[t] = late[t]
      BY <2>1 DEF Held
    <3> QED
      BY <1>1, <2>3, <3>2, <3>3
  <2>4. CASE ~ Scanned(s)
    BY <1>1, <1>3, <2>1, <2>2, <2>4 DEF Held
  <2> QED
    BY <2>3, <2>4
<1>9. StoredOnce'
  <2>1. \A t \in Rank : Held(t)' \subseteq Held(t) \cup {o} /\ (t # s => o \notin Held(t)')
    BY <1>2, <1>8
  <2>2. ASSUME NEW t \in Rank, NEW u \in Rank, Held(t)' \cap Held(u)' # {}
        PROVE  t = u
    <3>1. PICK x : x \in Held(t)' /\ x \in Held(u)'
      BY <2>2
    <3>2. CASE x = o
      BY <2>1, <3>1, <3>2
    <3>3. CASE x # o
      BY <2>1, <3>1, <3>3 DEF StoredOnce
    <3> QED
      BY <3>2, <3>3
  <2>3. ASSUME NEW t \in Rank
        PROVE  Held(t)' \cap missed' = {}
    <3>1. ASSUME NEW x \in gone, t # s
          PROVE  x \notin Held(t)
      BY <1>3, <3>1 DEF StoredOnce
    <3>2. o \notin gone
      BY <1>2, <1>3
    <3>3. Held(t) \cap missed = {}
      BY DEF StoredOnce
    <3> QED
      BY <1>2, <1>8, <3>1, <3>2, <3>3
  <2>4. ASSUME NEW x \in before \ missed'
        PROVE  \E t \in Rank : x \in Held(t)'
    <3>1. x \in before \ missed
      BY <1>8, <2>4
    <3>2. PICK t \in Rank : x \in Held(t)
      BY <3>1 DEF StoredOnce
    <3>3. x \in Held(t)'
      BY <1>8, <2>4, <3>2
    <3> QED
      BY <3>3
  <2>5. \A t \in Rank : ~ Scanned(t)' => late'[t] = {}
    BY <1>7, <1>8 DEF StoredOnce
  <2> QED
    BY <1>2, <2>2, <2>3, <2>4, <2>5 DEF StoredOnce
<1>10. \A t \in Rank : Scanned(t) => Held(t) \subseteq Held(t)'
  BY <1>8
<1>11. \A t \in Rank : before \cap Held(t)' \subseteq before \cap Held(t)
  BY <1>4, <1>8
<1>12. OutSound'
  <2> SUFFICES ASSUME NEW h \in Handler, NEW p \in out[h]
               PROVE  HasScanned(p[1]) /\ p[2] \in Held(p[1].rank)'
    BY <1>2 DEF OutSound, HasScanned
  <2>1. p[1] \in Handler /\ p[1].rank \in Rank
    BY OutPairs
  <2>2. HasScanned(p[1]) /\ p[2] \in Held(p[1].rank)
    BY DEF OutSound
  <2>3. Scanned(p[1].rank)
    BY <2>1, <2>2 DEF Scanned, HasScanned
  <2> QED
    BY <1>10, <2>1, <2>2, <2>3
<1>13. OutComplete'
  <2>1. ASSUME NEW h \in Handler
        PROVE  /\ HasScanned(h) => {h} \X (before \cap Held(h.rank)') \subseteq out[h]
               /\ pc[h] = "done" =>
                    \A t \in Meant(h) : \A q \in before \cap Held(t)' :
                      \E g \in Handler : g.rank = t /\ <<g, q>> \in out[h]
    <3>1. h.rank \in Rank
      BY DEF Handler
    <3>2. pc[h] = "done" => Meant(h) \subseteq Rank
      BY MeantForReceiver DEF WellAsked, Started
    <3>3. HasScanned(h) => {h} \X (before \cap Held(h.rank)) \subseteq out[h]
      BY DEF OutComplete
    <3>4. HasScanned(h) => {h} \X (before \cap Held(h.rank)') \subseteq out[h]
      BY <1>11, <3>1, <3>3
    <3> QED
      BY <1>11, <3>2, <3>4 DEF OutComplete
  <2> QED
    BY <1>2, <2>1 DEF OutComplete, HasScanned, Meant
<1> QED
  BY <1>5, <1>6, <1>9, <1>12, <1>13

(* The client asks: no handler has started. *)
LEMMA AskInv ==
  ASSUME GatherInv, NEW s \in Rank, Ask(s)
  PROVE  GatherInv'
<1> DEFINE root == [rank |-> s, src |-> NoSrc]
<1> USE DEF GatherInv
<1>1. /\ entry = None /\ entry' = s /\ requests' = {root}
      /\ before' = UNION {stored[t] : t \in Rank} /\ UNCHANGED <<stored, pc, out, missed, late>>
  BY DEF Ask, evictions
<1>2. root \in Handler /\ Source(root.src, root.rank)
  BY DEF Handler, Source
<1>3. \A h \in Handler : pc[h] = "none"
  BY <1>1 DEF WellAsked, Started
<1>4. GatherTypeOK'
  BY <1>1, <1>2 DEF GatherTypeOK
<1>5. WellAsked'
  BY <1>1, <1>2, <1>3, GatherAssumption DEF WellAsked, Started
<1>6. Apart'
  BY <1>1, <1>3 DEF Apart, Started
<1>7. StoredOnce'
  <2>1. ASSUME NEW o \in before'
        PROVE  \E t \in Rank : o \in stored[t]
    BY <1>1
  <2> QED
    BY <1>1, <2>1 DEF StoredOnce, Held, Scanned
<1>8. OutSound' /\ OutComplete'
  <2>1. \A h \in Handler : out[h] = {}
    BY <1>3, OutPairs DEF OutSound, HasScanned
  <2>2. OutSound'
    BY <1>1, <2>1 DEF OutSound
  <2>3. OutComplete'
    BY <1>1, <1>3 DEF OutComplete, HasScanned
  <2> QED
    BY <2>2, <2>3
<1> QED
  BY <1>4, <1>5, <1>6, <1>7, <1>8

(* A handler starts, and sends its requests on. *)
LEMMA ReceiveInv ==
  ASSUME GatherInv, NEW h \in Handler, Receive(h)
  PROVE  GatherInv'
<1> USE DEF GatherInv
<1>1. /\ h \in requests /\ pc' = [pc EXCEPT ![h] = "scan"]
      /\ requests' = (requests \ {h}) \cup Asked(h)
      /\ UNCHANGED <<stored, out, entry, before, missed, late>>
  BY DEF Receive, evictions
<1>2. Source(h.src, h.rank) /\ pc[h] = "none" /\ entry # None
  BY <1>1 DEF WellAsked, Started
<1>3. /\ \A g \in Asked(h) : /\ g \in Handler /\ Source(g.src, g.rank)
                             /\ Meant(g) \subseteq Meant(h) \ {h.rank}
      /\ \A f, g \in Asked(h) : f # g => Meant(f) \cap Meant(g) = {}
  BY <1>2, AskedSplit
<1>4. h.rank \in Meant(h)
  BY <1>2, MeantForReceiver
<1>5. \A g \in Handler : Started(g)' <=> Started(g) \/ g = h
  BY <1>1 DEF GatherTypeOK, Started
<1>6. \A g \in Asked(h) : g.rank \in Meant(g)
  BY <1>3, MeantForReceiver
<1>7. GatherTypeOK'
  BY <1>1, <1>3 DEF GatherTypeOK
<1>8. WellAsked'
  <2>1. ASSUME NEW g \in Asked(h)
        PROVE  ~ Started(g)'
    <3>1. g.rank \in Meant(h) /\ g.rank # h.rank /\ g \in Handler
      BY <1>3, <1>6
    <3>2. ~ Started(g)
      BY <1>1, <3>1 DEF Apart
    <3> QED
      BY <1>5, <3>1, <3>2
  <2>2. ASSUME NEW g \in requests, g # h
        PROVE  ~ Started(g)'
    BY <1>5, <2>2 DEF WellAsked, GatherTypeOK
  <2> QED
    BY <1>1, <1>2, <1>3, <1>5, <2>1, <2>2 DEF WellAsked
<1>9. Apart'
  <2>1. ASSUME NEW f \in requests', NEW g \in requests', f # g
        PROVE  Meant(f) \cap Meant(g) = {}
    <3>1. CASE f \in Asked(h) /\ g \in Asked(h)
      BY <1>3, <2>1, <3>1
    <3>2. CASE f \in Asked(h) /\ g \in requests \ {h}
      BY <1>1, <1>3, <3>2 DEF Apart
    <3>3. CASE f \in requests \ {h} /\ g \in Asked(h)
      BY <1>1, <1>3, <3>3 DEF Apart
    <3>4. CASE f \in requests \ {h} /\ g \in requests \ {h}
      BY <2>1, <3>4 DEF Apart
    <3> QED
      BY <1>1, <3>1, <3>2, <3>3, <3>4
  <2>2. ASSUME NEW f \in requests', NEW g \in Handler, Started(g)'
        PROVE  g.rank \notin Meant(f)
    <3>1. CASE f \in Asked(h)
      BY <1>1, <1>3, <1>5, <2>2, <3>1 DEF Apart
    <3>2. CASE f \in requests \ {h}
      BY <1>1, <1>4, <1>5, <2>2, <3>2 DEF Apart
    <3> QED
      BY <1>1, <3>1, <3>2
  <2>3. ASSUME NEW f \in Handler, NEW g \in Handler, Started(f)', Started(g)', f.rank = g.rank
        PROVE  f = g
    BY <1>1, <1>4, <1>5, <2>3 DEF Apart
  <2> QED
    BY <2>1, <2>2, <2>3 DEF Apart, Meant
<1>10. StoredOnce' /\ \A g \in Handler : HasScanned(g)' <=> HasScanned(g)
  <2>1. \A g \in Handler : HasScanned(g)' <=> HasScanned(g)
    BY <1>1, <1>2 DEF HasScanned, GatherTypeOK
  <2>2. \A t \in Rank : (Scanned(t)' <=> Scanned(t)) /\ Held(t)' = Held(t)
    BY <1>1, <2>1 DEF Scanned, HasScanned, Held
  <2> QED
    BY <1>1, <2>1, <2>2 DEF StoredOnce
<1>11. OutSound'
  <2> SUFFICES ASSUME NEW f \in Handler, NEW p \in out[f]
               PROVE  HasScanned(p[1])' /\ p[2] \in Held(p[1].rank)
    BY <1>1 DEF OutSound, Held
  <2>1. p[1] \in Handler
    BY OutPairs
  <2> QED
    BY <1>10, <2>1 DEF OutSound
<1>12. OutComplete'
  BY <1>1, <1>2, <1>10 DEF OutComplete, GatherTypeOK, Meant, Held
<1> QED
  BY <1>7, <1>8, <1>9, <1>10, <1>11, <1>12

(* A handler goes on without changing who has started. *)
LEMMA SameStarted ==
  ASSUME GatherInv, NEW h \in Handler, pc[h] # "none", NEW at \in {"wait", "done"},
         pc' = [pc EXCEPT ![h] = at], UNCHANGED <<stored, requests, entry, before, missed, late>>
  PROVE  /\ \A g \in Handler : Started(g)' <=> Started(g)
         /\ \A g \in Handler : HasScanned(g)' <=> HasScanned(g) \/ g = h
         /\ WellAsked' /\ Apart' /\ StoredOnce'
<1> USE DEF GatherInv
<1>1. \A g \in Handler : Started(g)' <=> Started(g)
  BY DEF GatherTypeOK, Started
<1>2. requests \subseteq Handler
  BY DEF GatherTypeOK
<1>3. WellAsked' /\ Apart'
  BY <1>1, <1>2 DEF WellAsked, Apart, Meant
<1>4. \A g \in Handler : HasScanned(g)' <=> HasScanned(g) \/ g = h
  BY DEF GatherTypeOK, HasScanned
<1>5. \A t \in Rank : (Scanned(t) => Scanned(t)') /\ Held(t)' = Held(t)
  BY <1>4 DEF Scanned, HasScanned, Held
<1>6. StoredOnce'
  BY <1>5 DEF StoredOnce
<1> QED
  BY <1>1, <1>3, <1>4, <1>6

(* A handler lists what its server stores. *)
LEMMA ScanInv ==
  ASSUME GatherInv, NEW h \in Handler, Scan(h)
  PROVE  GatherInv'
<1> USE DEF GatherInv
<1>1. /\ pc[h] = "scan" /\ pc' = [pc EXCEPT ![h] = "wait"]
      /\ out' = [out EXCEPT ![h] = {h} \X stored[h.rank]]
      /\ UNCHANGED <<stored, requests, entry, before, missed, late>>
  BY DEF Scan, evictions
<1>2. /\ \A g \in Handler : HasScanned(g)' <=> HasScanned(g) \/ g = h
      /\ WellAsked' /\ Apart' /\ StoredOnce'
  BY <1>1, SameStarted
<1>3. h.rank \in Rank /\ stored[h.rank] \subseteq Object /\ Held(h.rank) = stored[h.rank]
  <2>1. h.rank \in Rank /\ stored[h.rank] \subseteq Object
    BY DEF Handler, GatherTypeOK
  <2>2. ~ Scanned(h.rank)
    BY <1>1 DEF Scanned, Apart, Started
  <2> QED
    BY <2>1, <2>2 DEF StoredOnce, Held
<1>4. \A g \in Handler : out'[g] = IF g = h THEN {h} \X Held(h.rank) ELSE out[g]
  BY <1>1, <1>3 DEF GatherTypeOK
<1>5. \A g \in Handler : pc'[g] = IF g = h THEN "wait" ELSE pc[g]
  BY <1>1 DEF GatherTypeOK
<1>6. GatherTypeOK'
  BY <1>1, <1>3 DEF GatherTypeOK
<1>7. OutSound'
  <2> SUFFICES ASSUME NEW g \in Handler, NEW p \in out'[g]
               PROVE  HasScanned(p[1])' /\ p[2] \in Held(p[1].rank)
    BY <1>1 DEF OutSound, Held
  <2>1. CASE g = h
    BY <1>2, <1>4, <2>1
  <2>2. CASE g # h
    BY <1>2, <1>4, <2>2, OutPairs DEF OutSound
  <2> QED
    BY <2>1, <2>2
<1>8. OutComplete'
  <2> SUFFICES ASSUME NEW g \in Handler
               PROVE  /\ HasScanned(g)' =>
                           {g} \X (before \cap Held(g.rank)) \subseteq out'[g]
                      /\ pc'[g] = "done" =>
                           \A s \in Meant(g) : \A o \in before \cap Held(s) :
                             \E f \in Handler : f.rank = s /\ <<f, o>> \in out'[g]
    BY <1>1 DEF OutComplete, Meant, Held
  <2>1. CASE g = h
    BY <1>4, <1>5, <2>1
  <2>2. CASE g # h
    BY <1>2, <1>4, <1>5, <2>2 DEF OutComplete
  <2> QED
    BY <2>1, <2>2
<1> QED
  BY <1>2, <1>6, <1>7, <1>8

(* A handler that has all the answers adds them to its own list. *)
LEMMA RespondInv ==
  ASSUME GatherInv, NEW h \in Handler, Respond(h)
  PROVE  GatherInv'
<1> DEFINE add == UNION {out[g] : g \in Asked(h)}
<1> USE DEF GatherInv
<1>1. /\ pc[h] = "wait" /\ pc' = [pc EXCEPT ![h] = "done"]
      /\ \A g \in Asked(h) : pc[g] = "done"
      /\ out' = [out EXCEPT ![h] = @ \cup add]
      /\ UNCHANGED <<stored, requests, entry, before, missed, late>>
  BY DEF Respond, evictions
<1>2. /\ \A g \in Handler : HasScanned(g)' <=> HasScanned(g)
      /\ WellAsked' /\ Apart' /\ StoredOnce'
  BY <1>1, SameStarted DEF HasScanned
<1>3. Source(h.src, h.rank)
  BY <1>1 DEF WellAsked, Started
<1>4. /\ \A g \in Asked(h) : g \in Handler
      /\ \A s \in Meant(h) : s # h.rank => \E g \in Asked(h) : s \in Meant(g)
  BY <1>3, AskedSplit
<1>5. \A g \in Handler : out'[g] = IF g = h THEN out[h] \cup add ELSE out[g]
  BY <1>1 DEF GatherTypeOK
<1>6. \A g \in Handler : pc'[g] = IF g = h THEN "done" ELSE pc[g]
  BY <1>1 DEF GatherTypeOK
<1>7. GatherTypeOK'
  BY <1>1, <1>4 DEF GatherTypeOK
<1>8. OutSound'
  <2> SUFFICES ASSUME NEW g \in Handler, NEW p \in out'[g]
               PROVE  HasScanned(p[1])' /\ p[2] \in Held(p[1].rank)
    BY <1>1 DEF OutSound, Held
  <2>1. \E f \in Handler : p \in out[f]
    <3>1. CASE g # h
      BY <1>5, <3>1
    <3>2. CASE g = h /\ p \in out[h]
      BY <3>2
    <3>3. CASE g = h /\ p \in add
      <4>1. PICK f \in Asked(h) : p \in out[f]
        BY <3>3
      <4> QED
        BY <1>4, <4>1
    <3> QED
      BY <1>5, <3>1, <3>2, <3>3
  <2> QED
    BY <1>2, <2>1, OutPairs DEF OutSound
<1>9. OutComplete'
  <2> SUFFICES ASSUME NEW g \in Handler
               PROVE  /\ HasScanned(g)' =>
                           {g} \X (before \cap Held(g.rank)) \subseteq out'[g]
                      /\ pc'[g] = "done" =>
                           \A s \in Meant(g) : \A o \in before \cap Held(s) :
                             \E f \in Handler : f.rank = s /\ <<f, o>> \in out'[g]
    <3>1. /\ before' = before
          /\ \A s : Held(s)' = Held(s)
      BY <1>1 DEF Held
    <3> QED
      BY <3>1 DEF OutComplete, Meant
  <2>1. CASE g # h
    BY <1>2, <1>5, <1>6, <2>1 DEF OutComplete
  <2>2. CASE g = h
    <3>1. {h} \X (before \cap Held(h.rank)) \subseteq out[h]
      BY <1>1 DEF OutComplete, HasScanned
    <3>2. ASSUME NEW s \in Meant(h), NEW o \in before \cap Held(s)
          PROVE  \E f \in Handler : f.rank = s /\ <<f, o>> \in out'[h]
      <4>1. CASE s = h.rank
        <5>1. <<h, o>> \in out[h]
          BY <3>1, <3>2, <4>1
        <5> QED
          BY <1>5, <4>1, <5>1
      <4>2. CASE s # h.rank
        <5>1. PICK a \in Asked(h) : s \in Meant(a)
          BY <1>4, <4>2
        <5>2. a \in Handler /\ pc[a] = "done"
          BY <1>1, <1>4
        <5>3. PICK f \in Handler : f.rank = s /\ <<f, o>> \in out[a]
          BY <3>2, <5>1, <5>2 DEF OutComplete
        <5> QED
          BY <1>5, <5>1, <5>3
      <4> QED
        BY <4>1, <4>2
    <3> QED
      BY <1>5, <2>2, <3>1, <3>2
  <2> QED
    BY <2>1, <2>2
<1> QED
  BY <1>2, <1>7, <1>8, <1>9

(* The inductive invariant holds in every state. *)
THEOREM GatherInvariant ==
  GatherSpec => []GatherInv
<1>1. ASSUME GatherInv, [GatherNext]_gatherVars
      PROVE  GatherInv'
  <2>1. CASE UNCHANGED gatherVars
    <3> USE <1>1, <2>1 DEF gatherVars, evictions, GatherInv
    <3>1. GatherTypeOK' /\ WellAsked' /\ Apart'
      BY DEF GatherTypeOK, WellAsked, Apart, Started, Meant
    <3>2. StoredOnce'
      BY DEF StoredOnce, Scanned, Held
    <3>3. OutSound'
      BY DEF OutSound, HasScanned, Held
    <3>4. OutComplete'
      BY DEF OutComplete, HasScanned, Held, Meant
    <3> QED
      BY <3>1, <3>2, <3>3, <3>4
  <2>2. CASE GatherNext
    BY <1>1, <2>2, PutInv, AskInv, ReceiveInv, ScanInv, RespondInv DEF GatherNext, HandlerStep
  <2> QED
    BY <1>1, <2>1, <2>2
<1> QED
  BY <1>1, GatherInitInv, PTL DEF GatherSpec

(* No server gets a request of the client twice, whichever server is asked *)
(* and however many there are.                                             *)
THEOREM RequestReachesOnce ==
  GatherSpec => []OncePerServer
<1>1. GatherInv => OncePerServer
  <2> SUFFICES ASSUME GatherInv,
                      NEW g \in requests \cup {h \in Handler : pc[h] # "none"},
                      NEW h \in requests \cup {f \in Handler : pc[f] # "none"}, g.rank = h.rank
               PROVE  g = h
    BY DEF OncePerServer
  <2>1. requests \subseteq Handler
    BY DEF GatherInv, GatherTypeOK
  <2>2. \A f \in requests : f.rank \in Meant(f)
    BY <2>1, MeantForReceiver DEF GatherInv, WellAsked
  <2> QED
    BY <2>1, <2>2 DEF GatherInv, Apart, Started
<1> QED
  BY <1>1, GatherInvariant, PTL

(* The answer has every object that was stored when the client asked and   *)
(* still when its server was scanned exactly once, from its own server,    *)
(* and nothing that its server had not stored then.                        *)
THEOREM AnswerIsExact ==
  GatherSpec => []AnswerExact
<1>1. GatherInv => AnswerExact
  <2> DEFINE root == [rank |-> entry, src |-> NoSrc]
  <2> SUFFICES ASSUME GatherInv, entry # None, pc[root] = "done"
               PROVE  /\ \A o \in before \ missed :
                            Cardinality({p \in out[root] : p[2] = o}) = 1
                      /\ \A p \in out[root] : p[2] \in Held(p[1].rank) \ missed
    BY DEF AnswerExact
  <2> USE DEF GatherInv
  <2>1. root \in Handler /\ Meant(root) = Rank
    BY DEF GatherTypeOK, Handler, Meant, Beyond
  <2> HIDE DEF root
  <2>2. \A p \in out[root] : p[2] \in Held(p[1].rank) \ missed
    BY <2>1, OutPairs DEF OutSound, StoredOnce
  <2>3. ASSUME NEW o \in before \ missed
        PROVE  Cardinality({p \in out[root] : p[2] = o}) = 1
    <3>1. PICK s \in Rank : o \in Held(s)
      BY DEF StoredOnce
    <3>2. PICK g \in Handler : g.rank = s /\ <<g, o>> \in out[root]
      BY <2>1, <3>1 DEF OutComplete
    <3>3. ASSUME NEW p \in out[root], p[2] = o
          PROVE  p = <<g, o>>
      <4>1. p = <<p[1], p[2]>> /\ p[1] \in Handler /\ p[1].rank \in Rank
        BY <2>1, OutPairs
      <4>2. p[1].rank = s
        BY <2>2, <3>1, <3>3, <4>1 DEF StoredOnce
      <4>3. Started(p[1]) /\ Started(g)
        BY <2>1, <3>2 DEF OutSound, HasScanned, Started
      <4>4. p[1] = g
        BY <3>2, <4>1, <4>2, <4>3 DEF Apart
      <4> QED
        BY <3>3, <4>1, <4>4
    <3>4. {p \in out[root] : p[2] = o} = {<<g, o>>}
      BY <3>2, <3>3
    <3> QED
      BY <3>4, FS_Singleton
  <2> QED
    BY <2>2, <2>3
<1> QED
  BY <1>1, GatherInvariant, PTL

-----------------------------------------------------------------------------
(* Shutdown over the tree. *)

(* The servers that a request on its way is meant for, and those that a    *)
(* handler has yet to forward its request for.                             *)
KillMeant(m) == Beyond(m.src, m.to)
Left(h) == KillMeant(h.msg) \ {h.msg.to}

(* A request comes from a client or over an edge of the tree; a handler    *)
(* has counted its call.                                                   *)
WellSent ==
  /\ \A m \in net : m.call \in called /\ Source(m.src, m.to)
  /\ \A h \in handlers : h.msg.call \in counted[h.msg.to] /\ Source(h.msg.src, h.msg.to)

(* No server has counted a call that is still on its way to it. *)
Untouched ==
  /\ \A m \in net : \A s \in KillMeant(m) : m.call \notin counted[s]
  /\ \A h \in handlers : \A s \in Left(h) : h.msg.call \notin counted[s]

(* The requests and handlers of a call are on their way to different       *)
(* servers.                                                                *)
KillsApart ==
  /\ \A m, n \in net : m.call = n.call /\ m # n => KillMeant(m) \cap KillMeant(n) = {}
  /\ \A m \in net, h \in handlers : m.call = h.msg.call => KillMeant(m) \cap Left(h) = {}
  /\ \A g, h \in handlers : g.msg.call = h.msg.call /\ g # h => Left(g) \cap Left(h) = {}

(* One handler takes the last token of a server, which is up until this    *)
(* handler calls server_destroy.                                           *)
LastToken ==
  /\ \A h \in handlers : h.do_kill => f_kill[h.msg.to] = 0 /\ state[h.msg.to] = "up"
  /\ \A g, h \in handlers : g.do_kill /\ h.do_kill /\ g.msg.to = h.msg.to => g = h
  /\ \A s \in Rank : state[s] # "up" => f_kill[s] = 0

(* No server is past the first barrier while another one is up. *)
FirstBarrier ==
  \A s, t \in Rank : state[s] \in {"freed", "final"} => state[t] # "up"

IndInv ==
  TypeOK /\ TokensExact /\ WellSent /\ Untouched /\ KillsApart /\ LastToken /\ FirstBarrier

-----------------------------------------------------------------------------
(* A request is meant for the server that gets it, and for ranks alone. *)
LEMMA KillMeantForReceiver ==
  ASSUME NEW m \in Message, Source(m.src, m.to)
  PROVE  m.to \in KillMeant(m) /\ KillMeant(m) \subseteq Rank
BY BeyondHasReceiver DEF Message, KillMeant

(* The invariant holds before any call. *)
LEMMA InitInv ==
  Init => IndInv
<1> SUFFICES ASSUME Init
             PROVE  IndInv
  OBVIOUS
<1> USE DEF Init
<1>1. TypeOK
  BY KillAssumption DEF TypeOK
<1>2. TokensExact
  BY KillAssumption, FS_EmptySet DEF TokensExact
<1>3. WellSent /\ Untouched /\ KillsApart /\ LastToken /\ FirstBarrier
  BY DEF WellSent, Untouched, KillsApart, LastToken, FirstBarrier
<1> QED
  BY <1>1, <1>2, <1>3 DEF IndInv

(* dspaces_kill: the new call is on its way to every server, and no server *)
(* has counted it.                                                         *)
LEMMA DspacesKillInv ==
  ASSUME IndInv, NEW c \in Call, NEW s \in Entry, DspacesKill(c, s)
  PROVE  IndInv'
<1> DEFINE new == [call |-> c, src |-> NoSrc, to |-> s]
<1> USE DEF IndInv
<1>1. s \in Rank /\ new \in Message /\ Source(NoSrc, s)
  BY KillAssumption DEF Message, Source
<1>2. /\ c \notin called /\ called' = called \cup {c} /\ net' = net \cup {new}
      /\ UNCHANGED <<f_kill, handlers, state, counted>>
  BY DEF DspacesKill
<1>3. TypeOK'
  BY <1>1, <1>2 DEF TypeOK
<1>4. \A t \in Rank : c \notin counted[t]
  BY <1>2 DEF TypeOK
<1>5. \A m \in net : m.call # c
  BY <1>2 DEF WellSent
<1>6. \A h \in handlers : h.msg.call # c
  BY <1>4 DEF WellSent, TypeOK, KillHandler, Message
<1>7. WellSent'
  BY <1>1, <1>2 DEF WellSent
<1>8. Untouched'
  BY <1>1, <1>2, <1>4, KillMeantForReceiver DEF Untouched
<1>9. KillsApart'
  BY <1>2, <1>5, <1>6 DEF KillsApart
<1>10. TokensExact' /\ LastToken' /\ FirstBarrier'
  BY <1>2 DEF TokensExact, LastToken, FirstBarrier
<1> QED
  BY <1>3, <1>7, <1>8, <1>9, <1>10

(* A request that a server without tokens drops leaves less to reach. *)
LEMMA IgnoreKillInv ==
  ASSUME IndInv, NEW m \in net, IgnoreKill(m)
  PROVE  IndInv'
<1> USE DEF IndInv, IgnoreKill
<1>1. TypeOK' /\ TokensExact'
  BY DEF TypeOK, TokensExact
<1>2. WellSent' /\ Untouched' /\ KillsApart'
  BY DEF WellSent, Untouched, KillsApart
<1>3. LastToken' /\ FirstBarrier'
  BY DEF LastToken, FirstBarrier
<1> QED
  BY <1>1, <1>2, <1>3

(* kill_rpc up to the unlock: the server has not counted the call before.  *)
LEMMA TakeTokenInv ==
  ASSUME IndInv, NEW m \in net, TakeToken(m)
  PROVE  IndInv'
<1> DEFINE s == m.to
           c == m.call
           new == [msg |-> m, do_kill |-> f_kill[s] = 1]
<1> USE DEF IndInv
<1>1. m \in Message /\ s \in Rank /\ c \in Call /\ c \in called /\ Source(m.src, s)
  BY DEF TypeOK, Message, WellSent
<1>2. /\ f_kill[s] # 0 /\ net' = net \ {m}
      /\ f_kill' = [f_kill EXCEPT ![s] = @ - 1]
      /\ handlers' = handlers \cup {new}
      /\ counted' = [counted EXCEPT ![s] = @ \cup {c}]
      /\ UNCHANGED <<called, state>>
  BY DEF TakeToken
<1>3. new \in KillHandler /\ new.msg = m
  BY <1>1 DEF KillHandler
<1>4. s \in KillMeant(m) /\ KillMeant(m) \subseteq Rank
  BY <1>1, KillMeantForReceiver
<1>5. c \notin counted[s]
  BY <1>4 DEF Untouched
<1>6. Left(new) = KillMeant(m) \ {s}
  BY <1>3 DEF Left
<1>7. /\ f_kill \in [Rank -> Int] /\ counted \in [Rank -> SUBSET called]
      /\ state \in [Rank -> {"up", "destroy", "freed", "final"}]
  BY KillAssumption DEF TypeOK
<1>8. /\ counted'[s] = counted[s] \cup {c}
      /\ \A t \in Rank : t # s => counted'[t] = counted[t]
  BY <1>1, <1>2, <1>7
<1>9. /\ f_kill'[s] = f_kill[s] - 1
      /\ \A t \in Rank : t # s => f_kill'[t] = f_kill[t]
  BY <1>1, <1>2, <1>7
<1>10. TypeOK'
  <2>1. f_kill' \in [Rank -> IF num_apps >= 0 THEN 0 .. num_apps ELSE Int]
    BY <1>1, <1>2, KillAssumption DEF TypeOK
  <2>2. counted' \in [Rank -> SUBSET called']
    BY <1>1, <1>2, <1>7
  <2> QED
    BY <1>2, <1>3, <2>1, <2>2 DEF TypeOK
<1>11. TokensExact'
  <2>1. \A t \in Rank : IsFiniteSet(counted[t])
    BY <1>7, KillAssumption, FS_Subset DEF TypeOK
  <2>2. Cardinality(counted[s] \cup {c}) = Cardinality(counted[s]) + 1
    BY <1>1, <1>5, <2>1, FS_AddElement
  <2>3. Cardinality(counted[s]) \in Nat
    BY <1>1, <2>1, FS_CardinalityType
  <2>4. f_kill'[s] = num_apps - Cardinality(counted'[s])
    BY <1>1, <1>8, <1>9, <2>2, <2>3, KillAssumption DEF TokensExact
  <2> QED
    BY <1>8, <1>9, <2>4 DEF TokensExact
<1>12. WellSent'
  <2>1. \A h \in handlers' : h.msg.call \in counted'[h.msg.to] /\ Source(h.msg.src, h.msg.to)
    <3> TAKE h \in handlers'
    <3>1. CASE h = new
      BY <3>1, <1>1, <1>3, <1>8
    <3>2. CASE h \in handlers
      <4>1. h.msg.to \in Rank
        BY <3>2 DEF TypeOK, KillHandler, Message
      <4> QED
        BY <3>2, <4>1, <1>8 DEF WellSent
    <3> QED
      BY <3>1, <3>2, <1>2
  <2> QED
    BY <1>2, <2>1 DEF WellSent
<1>13. Untouched'
  <2>1. ASSUME NEW n \in net', NEW t \in KillMeant(n)
        PROVE  n.call \notin counted'[t]
    <3>1. n \in net /\ n # m /\ n \in Message /\ Source(n.src, n.to)
      BY <1>2, <2>1 DEF TypeOK, WellSent
    <3>2. t \in Rank /\ n.call \notin counted[t]
      BY <3>1, KillMeantForReceiver DEF Untouched
    <3>3. t = s => n.call # c
      BY <1>4, <3>1, <2>1 DEF KillsApart
    <3> QED
      BY <1>8, <3>2, <3>3
  <2>2. ASSUME NEW h \in handlers', NEW t \in Left(h)
        PROVE  h.msg.call \notin counted'[t]
    <3>1. CASE h = new
      <4>1. t \in KillMeant(m) /\ t # s
        BY <1>6, <2>2, <3>1
      <4> QED
        BY <1>3, <1>4, <1>8, <3>1, <4>1 DEF Untouched
    <3>2. CASE h \in handlers
      <4>1. h.msg \in Message /\ Source(h.msg.src, h.msg.to)
        BY <3>2 DEF TypeOK, KillHandler, WellSent
      <4>2. t \in Rank /\ h.msg.call \notin counted[t]
        BY <2>2, <3>2, <4>1, KillMeantForReceiver DEF Untouched, Left
      <4>3. t = s => h.msg.call # c
        BY <1>4, <2>2, <3>2 DEF KillsApart
      <4> QED
        BY <1>8, <4>2, <4>3
    <3> QED
      BY <1>2, <3>1, <3>2
  <2> QED
    BY <2>1, <2>2 DEF Untouched
<1>14. KillsApart'
  <2>1. ASSUME NEW n \in net', n.call = new.msg.call
        PROVE  KillMeant(n) \cap Left(new) = {}
    <3>1. KillMeant(n) \cap KillMeant(m) = {}
      BY <1>2, <1>3, <2>1 DEF KillsApart
    <3> QED
      BY <1>6, <3>1
  <2>2. ASSUME NEW h \in handlers, h.msg.call = new.msg.call
        PROVE  Left(h) \cap Left(new) = {}
    <3>1. KillMeant(m) \cap Left(h) = {}
      BY <1>3, <2>2 DEF KillsApart
    <3> QED
      BY <1>6, <3>1
  <2> HIDE DEF new
  <2>3. \A a, b \in net' : a.call = b.call /\ a # b => KillMeant(a) \cap KillMeant(b) = {}
    BY <1>2 DEF KillsApart
  <2>4. \A a \in net', h \in handlers' : a.call = h.msg.call => KillMeant(a) \cap Left(h) = {}
    BY <1>2, <2>1 DEF KillsApart
  <2>5. \A g, h \in handlers' : g.msg.call = h.msg.call /\ g # h => Left(g) \cap Left(h) = {}
    BY <1>2, <2>2 DEF KillsApart
  <2> QED
    BY <2>3, <2>4, <2>5 DEF KillsApart
<1>15. LastToken'
  <2>1. state[s] = "up"
    BY <1>1, <1>2 DEF LastToken
  <2>2. \A h \in handlers : h.msg.to \in Rank
    BY DEF TypeOK, KillHandler, Message
  <2>3. \A h \in handlers : h.do_kill => h.msg.to # s
    BY <1>2 DEF LastToken
  <2>4. new.do_kill => f_kill'[s] = 0
    <3>1. new.do_kill = (f_kill[s] = 1)
      BY Zenon
    <3>2. f_kill[s] = 1 => f_kill'[s] = 0
      BY <1>9
    <3> QED
      BY <3>1, <3>2
  <2>5. new.msg.to = s
    OBVIOUS
  <2> HIDE DEF new
  <2>6. \A h \in handlers' : h.do_kill => f_kill'[h.msg.to] = 0 /\ state'[h.msg.to] = "up"
    <3> TAKE h \in handlers'
    <3>1. CASE h = new
      BY <1>2, <2>1, <2>4, <2>5, <3>1
    <3>2. CASE h \in handlers
      BY <1>2, <1>9, <2>2, <2>3, <3>2 DEF LastToken
    <3> QED
      BY <1>2, <3>1, <3>2
  <2>7. \A g, h \in handlers' : g.do_kill /\ h.do_kill /\ g.msg.to = h.msg.to => g = h
    BY <1>2, <2>3, <2>5 DEF LastToken
  <2>8. \A t \in Rank : state'[t] # "up" => f_kill'[t] = 0
    BY <1>2, <1>9, <2>1 DEF LastToken
  <2> QED
    BY <2>6, <2>7, <2>8 DEF LastToken
<1>16. FirstBarrier'
  BY <1>2 DEF FirstBarrier
<1> QED
  BY <1>10, <1>11, <1>12, <1>13, <1>14, <1>15, <1>16

(* The rest of kill_rpc: the servers that were left for the handler are    *)
(* shared out among the requests it sends.                                 *)
LEMMA ForwardInv ==
  ASSUME IndInv, NEW h \in handlers, Forward(h)
  PROVE  IndInv'
<1> DEFINE s == h.msg.to
           c == h.msg.call
           T == Targets(s, h.msg.src)
           req(t) == [call |-> c, src |-> s, to |-> t]
<1> USE DEF IndInv
<1>1. /\ h \in KillHandler /\ h.msg \in Message /\ s \in Rank /\ c \in counted[s]
      /\ Source(h.msg.src, s)
  BY DEF TypeOK, KillHandler, Message, WellSent
<1>2. /\ handlers' = handlers \ {h}
      /\ net' = net \cup {req(t) : t \in T}
      /\ state' = IF h.do_kill THEN [state EXCEPT ![s] = "destroy"] ELSE state
      /\ UNCHANGED <<called, f_kill, counted>>
  BY DEF Forward
<1>3. c \in called /\ c \in Call
  BY <1>1 DEF TypeOK
<1>4. ASSUME NEW t \in T
      PROVE  /\ t \in Rank
             /\ req(t) \in Message /\ req(t).call = c /\ Source(s, t)
             /\ KillMeant(req(t)) = Beyond(s, t)
             /\ KillMeant(req(t)) \subseteq Left(h)
  <2>1. t \in Rank
    BY <1>1, TargetsAre
  <2>2. Source(s, t) /\ Beyond(s, t) \subseteq Beyond(h.msg.src, s) \ {s}
    BY <1>1, BeyondShrinks
  <2>3. req(t) \in Message
    BY <1>1, <1>3, <2>1 DEF Message
  <2>4. KillMeant(req(t)) = Beyond(s, t)
    BY DEF KillMeant
  <2>5. Left(h) = Beyond(h.msg.src, s) \ {s}
    BY DEF Left, KillMeant
  <2> QED
    BY <2>1, <2>2, <2>3, <2>4, <2>5
<1>5. \A n \in net' : n \in net \/ \E t \in T : n = req(t)
  BY <1>2
<1>6. TypeOK'
  <2>1. net' \subseteq Message
    BY <1>2, <1>4 DEF TypeOK
  <2>2. state' \in [Rank -> {"up", "destroy", "freed", "final"}]
    BY <1>1, <1>2 DEF TypeOK
  <2> QED
    BY <1>2, <2>1, <2>2 DEF TypeOK
<1>7. TokensExact'
  BY <1>2 DEF TokensExact
<1>8. WellSent'
  <2>1. ASSUME NEW n \in net'
        PROVE  n.call \in called' /\ Source(n.src, n.to)
    <3>1. CASE n \in net
      BY <1>2, <3>1 DEF WellSent
    <3>2. ASSUME NEW t \in T, n = req(t)
          PROVE  n.call \in called' /\ Source(n.src, n.to)
      BY <1>2, <1>3, <1>4, <3>2
    <3> QED
      BY <1>5, <3>1, <3>2
  <2> QED
    BY <1>2, <2>1 DEF WellSent
<1>9. Untouched'
  <2>1. ASSUME NEW n \in net', NEW u \in KillMeant(n)
        PROVE  n.call \notin counted'[u]
    <3>1. CASE n \in net
      BY <1>2, <2>1, <3>1 DEF Untouched
    <3>2. ASSUME NEW t \in T, n = req(t)
          PROVE  n.call \notin counted'[u]
      BY <1>2, <1>4, <2>1, <3>2 DEF Untouched
    <3> QED
      BY <1>5, <3>1, <3>2
  <2> QED
    BY <1>2, <2>1 DEF Untouched
<1>10. KillsApart'
  <2>1. ASSUME NEW n \in net, NEW t \in T, n.call = c
        PROVE  KillMeant(n) \cap KillMeant(req(t)) = {}
    BY <1>4, <2>1 DEF KillsApart
  <2>2. ASSUME NEW t \in T, NEW u \in T, t # u
        PROVE  KillMeant(req(t)) \cap KillMeant(req(u)) = {}
    BY <1>1, <1>4, <2>2, BeyondDisjoint
  <2>3. ASSUME NEW a \in net', NEW b \in net', a.call = b.call, a # b
        PROVE  KillMeant(a) \cap KillMeant(b) = {}
    <3>1. CASE a \in net /\ b \in net
      BY <2>3, <3>1 DEF KillsApart
    <3>2. CASE a \in net /\ b \notin net
      BY <1>4, <1>5, <2>1, <2>3, <3>2
    <3>3. CASE a \notin net /\ b \in net
      <4>1. PICK t \in T : a = req(t)
        BY <1>5, <2>3, <3>3
      <4>2. b.call = c
        BY <1>4, <2>3, <4>1
      <4>3. KillMeant(b) \cap KillMeant(a) = {}
        BY <2>1, <3>3, <4>1, <4>2
      <4> QED
        BY <4>3
    <3>4. CASE a \notin net /\ b \notin net
      <4>1. PICK t \in T : a = req(t)
        BY <1>5, <2>3, <3>4
      <4>2. PICK u \in T : b = req(u)
        BY <1>5, <2>3, <3>4
      <4> QED
        BY <2>2, <2>3, <4>1, <4>2
    <3> QED
      BY <3>1, <3>2, <3>3, <3>4
  <2>4. ASSUME NEW a \in net', NEW g \in handlers', a.call = g.msg.call
        PROVE  KillMeant(a) \cap Left(g) = {}
    <3>1. g \in handlers /\ g # h
      BY <1>2, <2>4
    <3>2. CASE a \in net
      BY <2>4, <3>1, <3>2 DEF KillsApart
    <3>3. CASE a \notin net
      <4>1. PICK t \in T : a = req(t)
        BY <1>5, <2>4, <3>3
      <4>2. g.msg.call = c
        BY <1>4, <2>4, <4>1
      <4>3. Left(h) \cap Left(g) = {}
        BY <3>1, <4>2 DEF KillsApart
      <4> QED
        BY <1>4, <4>1, <4>3
    <3> QED
      BY <3>2, <3>3
  <2>5. \A f, g \in handlers' : f.msg.call = g.msg.call /\ f # g => Left(f) \cap Left(g) = {}
    BY <1>2 DEF KillsApart
  <2> QED
    BY <2>3, <2>4, <2>5 DEF KillsApart
<1>11. LastToken'
  <2>1. \A g \in handlers' : g \in handlers /\ g # h /\ g.msg.to \in Rank
    BY <1>2 DEF TypeOK, KillHandler, Message
  <2>2. \A t \in Rank : state'[t] = IF h.do_kill /\ t = s THEN "destroy" ELSE state[t]
    BY <1>2 DEF TypeOK
  <2>3. \A g \in handlers' : g.do_kill => f_kill'[g.msg.to] = 0 /\ state'[g.msg.to] = "up"
    <3> TAKE g \in handlers'
    <3>1. h.do_kill /\ g.do_kill => g.msg.to # s
      BY <2>1 DEF LastToken
    <3> QED
      BY <1>2, <2>1, <2>2, <3>1 DEF LastToken
  <2>4. \A f, g \in handlers' : f.do_kill /\ g.do_kill /\ f.msg.to = g.msg.to => f = g
    BY <2>1 DEF LastToken
  <2>5. \A t \in Rank : state'[t] # "up" => f_kill'[t] = 0
    BY <1>2, <2>2 DEF LastToken
  <2> QED
    BY <2>3, <2>4, <2>5 DEF LastToken
<1>12. FirstBarrier'
  <2>1. \A t \in Rank : state'[t] = IF h.do_kill /\ t = s THEN "destroy" ELSE state[t]
    BY <1>2 DEF TypeOK
  <2> QED
    BY <2>1 DEF FirstBarrier
<1> QED
  BY <1>6, <1>7, <1>8, <1>9, <1>10, <1>11, <1>12

(* server_destroy: a server passes a barrier. *)
LEMMA DestroyInv ==
  ASSUME IndInv, NEW s \in Rank, Free(s) \/ Finalize(s)
  PROVE  IndInv'
<1> USE DEF IndInv
<1>1. /\ state[s] # "up" /\ state'[s] \in {"freed", "final"}
      /\ \A t \in Rank : t # s => state'[t] = state[t]
      /\ \A t \in Rank : state[t] # "up"
      /\ state' \in [Rank -> {"up", "destroy", "freed", "final"}]
      /\ UNCHANGED <<called, net, f_kill, handlers, counted>>
  BY DEF Free, Finalize, TypeOK
<1>2. TypeOK' /\ TokensExact'
  BY <1>1 DEF TypeOK, TokensExact
<1>3. WellSent' /\ Untouched' /\ KillsApart'
  BY <1>1 DEF WellSent, Untouched, KillsApart
<1>4. LastToken'
  <2>1. \A h \in handlers : h.msg.to \in Rank
    BY DEF TypeOK, KillHandler, Message
  <2>2. \A h \in handlers : ~ h.do_kill
    BY <1>1, <2>1 DEF LastToken
  <2>3. \A t \in Rank : f_kill[t] = 0
    BY <1>1 DEF LastToken
  <2> QED
    BY <1>1, <2>2, <2>3 DEF LastToken
<1>5. FirstBarrier'
  BY <1>1 DEF FirstBarrier
<1> QED
  BY <1>2, <1>3, <1>4, <1>5

(* The invariant is inductive. *)
LEMMA StepInv ==
  IndInv /\ [Next]_vars => IndInv'
<1> SUFFICES ASSUME IndInv, [Next]_vars
             PROVE  IndInv'
  OBVIOUS
<1>1. CASE UNCHANGED vars
  BY <1>1 DEF vars, IndInv, TypeOK, TokensExact, WellSent, Untouched, KillsApart, LastToken,
              FirstBarrier, KillMeant, Left
<1>2. CASE Next
  BY <1>2, DspacesKillInv, IgnoreKillInv, TakeTokenInv, ForwardInv, DestroyInv DEF Next
<1> QED
  BY <1>1, <1>2

(* The inductive invariant holds in every state of the shutdown. *)
THEOREM KillInvariant ==
  Spec => []IndInv
BY InitInv, StepInv, PTL DEF Spec

(* Every server counts every call of dspaces_kill at most once, whichever  *)
(* servers the clients call and in whatever order the requests arrive.     *)
THEOREM TokensAreExact ==
  Spec => []TokensExact
<1>1. IndInv => TokensExact
  BY DEF IndInv
<1> QED
  BY <1>1, KillInvariant, PTL

(* With no more calls than tokens, a handler that has a request to forward *)
(* keeps every server before the first barrier of server_destroy.          *)
THEOREM ForwardsBeforeFree ==
  Spec => []ForwardBeforeFree
<1>1. IndInv => ForwardBeforeFree
  <2> SUFFICES ASSUME IndInv, Cardinality(called) <= num_apps, NEW h \in handlers,
                      NEW t \in Targets(h.msg.to, h.msg.src)
               PROVE  state[h.msg.to] \in {"up", "destroy"}
    BY DEF ForwardBeforeFree
  <2> USE DEF IndInv
  <2>1. /\ h.msg \in Message /\ h.msg.to \in Rank /\ h.msg.call \in counted[h.msg.to]
        /\ Source(h.msg.src, h.msg.to)
    BY DEF TypeOK, KillHandler, Message, WellSent
  <2>2. /\ t \in Rank /\ Source(h.msg.to, t)
        /\ Beyond(h.msg.to, t) \subseteq Beyond(h.msg.src, h.msg.to) \ {h.msg.to}
    BY <2>1, TargetsAre, BeyondShrinks
  <2>3. t \in Left(h)
    BY <2>2, BeyondHasReceiver DEF Left, KillMeant
  <2>4. /\ h.msg.call \notin counted[t] /\ h.msg.call \in called
        /\ counted[t] \subseteq called
    BY <2>1, <2>2, <2>3 DEF Untouched, TypeOK
  <2>5. IsFiniteSet(called)
    BY KillAssumption, FS_Subset DEF TypeOK
  <2>6. Cardinality(counted[t]) < Cardinality(called)
    <3>1. counted[t] # called
      BY <2>4
    <3>2. /\ Cardinality(counted[t]) <= Cardinality(called)
          /\ Cardinality(counted[t]) = Cardinality(called) => counted[t] = called
          /\ IsFiniteSet(counted[t])
      BY <2>4, <2>5, FS_Subset
    <3>3. Cardinality(counted[t]) \in Nat /\ Cardinality(called) \in Nat
      BY <2>5, <3>2, FS_CardinalityType
    <3> QED
      BY <3>1, <3>2, <3>3
  <2>7. f_kill[t] # 0
    <3>1. Cardinality(counted[t]) \in Nat /\ Cardinality(called) \in Nat
      BY <2>4, <2>5, FS_Subset, FS_CardinalityType
    <3> QED
      BY <2>2, <2>6, <3>1, KillAssumption DEF TokensExact
  <2>8. state[t] = "up"
    BY <2>2, <2>7 DEF LastToken
  <2> QED
    BY <2>1, <2>2, <2>8 DEF FirstBarrier, TypeOK
<1> QED
  BY <1>1, KillInvariant, PTL

(* A step of the shutdown is a step of Lifetime, or leaves its variables   *)
(* alone: a call counts, the handler with the last token stops its server, *)
(* which the number of calls allows, and no server goes before all have    *)
(* stopped.                                                                *)
LEMMA StepImplements ==
  IndInv /\ [Next]_vars => [LT!Next]_(LT!vars)
<1> DEFINE phase(st) == [s \in Rank |-> CASE st[s] = "up" -> "serving"
                                          [] st[s] = "destroy" -> "stopping"
                                          [] OTHER -> "gone"]
<1> SUFFICES ASSUME IndInv, [Next]_vars
             PROVE  [LT!Next]_(LT!vars)
  OBVIOUS
<1> USE DEF IndInv
<1>0. /\ IsFiniteSet(called) /\ Cardinality(called) \in Nat
      /\ state \in [Rank -> {"up", "destroy", "freed", "final"}]
  BY KillAssumption, FS_Subset, FS_CardinalityType DEF TypeOK
<1>1. CASE UNCHANGED vars
  BY <1>1 DEF vars, LT!vars
<1>2. ASSUME NEW c \in Call, NEW s \in Entry, DspacesKill(c, s)
      PROVE  LT!CallKill
  <2>1. Cardinality(called') = Cardinality(called) + 1
    BY <1>0, <1>2, FS_AddElement DEF DspacesKill
  <2> QED
    BY <1>2, <2>1 DEF DspacesKill, LT!CallKill
<1>3. ASSUME NEW m \in net, IgnoreKill(m) \/ TakeToken(m)
      PROVE  UNCHANGED LT!vars
  BY <1>3 DEF IgnoreKill, TakeToken, LT!vars
<1>4. ASSUME NEW h \in handlers, Forward(h)
      PROVE  [LT!Next]_(LT!vars)
  <2>1. CASE ~ h.do_kill
    BY <1>4, <2>1 DEF Forward, LT!vars
  <2>2. CASE h.do_kill
    <3> DEFINE s == h.msg.to
    <3>1. s \in Rank /\ h.msg.call \in counted[s] /\ f_kill[s] = 0 /\ state[s] = "up"
      BY <2>2 DEF TypeOK, KillHandler, Message, WellSent, LastToken
    <3>2. /\ counted[s] \subseteq called /\ IsFiniteSet(counted[s])
          /\ Cardinality(counted[s]) \in Nat
          /\ Cardinality(counted[s]) <= Cardinality(called)
      BY <1>0, <3>1, FS_Subset, FS_CardinalityType DEF TypeOK
    <3>3. Cardinality(counted[s]) # 0
      BY <3>1, <3>2, FS_EmptySet
    <3>4. num_apps = Cardinality(counted[s])
      BY <3>1, <3>2, KillAssumption DEF TokensExact
    <3>5. num_apps > 0 /\ Cardinality(called) >= num_apps
      BY <1>0, <3>2, <3>3, <3>4
    <3>6. state' = [state EXCEPT ![s] = "destroy"] /\ called' = called
      BY <1>4, <2>2 DEF Forward
    <3>7. phase(state)[s] = "serving"
      BY <3>1
    <3>8. phase(state') = [phase(state) EXCEPT ![s] = "stopping"]
      BY <1>0, <3>1, <3>6
    <3>9. LT!Stop(s)
      BY <3>5, <3>6, <3>7, <3>8 DEF LT!Stop
    <3> QED
      BY <3>1, <3>9 DEF LT!Next
  <2> QED
    BY <2>1, <2>2
<1>5. ASSUME NEW s \in Rank, Free(s)
      PROVE  LT!Exit(s)
  <2>1. /\ state[s] = "destroy" /\ state' = [state EXCEPT ![s] = "freed"]
        /\ called' = called /\ \A t \in Rank : state[t] # "up"
    BY <1>5 DEF Free
  <2>2. phase(state)[s] = "stopping" /\ \A t \in Rank : phase(state)[t] # "serving"
    BY <1>0, <2>1
  <2>3. phase(state') = [phase(state) EXCEPT ![s] = "gone"]
    BY <1>0, <2>1
  <2> QED
    BY <2>1, <2>2, <2>3 DEF LT!Exit
<1>6. ASSUME NEW s \in Rank, Finalize(s)
      PROVE  UNCHANGED LT!vars
  <2>1. state[s] = "freed" /\ state' = [state EXCEPT ![s] = "final"] /\ called' = called
    BY <1>6 DEF Finalize
  <2>2. phase(state') = phase(state)
    BY <1>0, <2>1
  <2> QED
    BY <2>1, <2>2 DEF LT!vars
<1> QED
  BY <1>1, <1>2, <1>3, <1>4, <1>5, <1>6 DEF Next, LT!Next

(* The servers stop after num_apps calls of dspaces_kill, never before,    *)
(* and none of them frees its data before all have stopped: the shutdown   *)
(* over the tree implements the lifetime that num_apps promises.           *)
THEOREM KillImplementsLifetime ==
  Spec => LT!Spec
<1>1. Init => LT!Init
  BY FS_EmptySet DEF Init, LT!Init
<1> QED
  BY <1>1, StepImplements, KillInvariant, PTL DEF Spec, LT!Spec

-----------------------------------------------------------------------------
(* While there are tokens for all calls, a server that has not counted a   *)
(* call is one that some request or handler of the call is meant for.      *)
Reached(c, s) ==
  \/ c \in counted[s]
  \/ \E m \in net : m.call = c /\ s \in KillMeant(m)
  \/ \E h \in handlers : h.msg.call = c /\ s \in Left(h)

CallsReach == Cardinality(called) <= num_apps => \A c \in called, s \in Rank : Reached(c, s)

(* A server whose last token is gone is stopped, or about to be. *)
LastTokenStops ==
  num_apps > 0 => \A s \in Rank :
    f_kill[s] = 0 => state[s] # "up" \/ \E h \in handlers : h.msg.to = s /\ h.do_kill

(* When nothing is on its way any more, each server has counted all calls, *)
(* and if there were num_apps of them it has stopped.                      *)
AllStoppedAtRest ==
  Cardinality(called) <= num_apps /\ net = {} /\ handlers = {} =>
    \A s \in Rank : /\ counted[s] = called
                    /\ called # {} /\ Cardinality(called) = num_apps => state[s] # "up"

(* No request is dropped on its way: a server without tokens has counted   *)
(* all the calls there may be, so none can be on its way to it.            *)
LEMMA CallsReachStep ==
  IndInv /\ CallsReach /\ [Next]_vars => CallsReach'
<1> SUFFICES ASSUME IndInv, CallsReach, [Next]_vars, (Cardinality(called) <= num_apps)',
                    NEW c \in called', NEW s \in Rank
             PROVE  Reached(c, s)'
  BY DEF CallsReach
<1> USE DEF IndInv
<1>0. IsFiniteSet(called) /\ Cardinality(called) \in Nat
  BY KillAssumption, FS_Subset, FS_CardinalityType DEF TypeOK
<1>1. CASE UNCHANGED vars
  BY <1>1 DEF vars, CallsReach, Reached, KillMeant, Left
<1>2. ASSUME NEW d \in Call, NEW e \in Entry, DspacesKill(d, e)
      PROVE  Reached(c, s)'
  <2> DEFINE new == [call |-> d, src |-> NoSrc, to |-> e]
  <2>1. /\ d \notin called /\ called' = called \cup {d} /\ net' = net \cup {new}
        /\ UNCHANGED <<handlers, counted>>
    BY <1>2 DEF DspacesKill
  <2>2. Cardinality(called') = Cardinality(called) + 1
    BY <1>0, <2>1, FS_AddElement
  <2>3. c \in called => Reached(c, s)
    BY <1>0, <2>2, KillAssumption DEF CallsReach
  <2>4. CASE c = d
    <3>1. new.call = c /\ s \in KillMeant(new)
      BY <2>4 DEF KillMeant, Beyond
    <3> QED
      BY <2>1, <3>1 DEF Reached
  <2> QED
    BY <2>1, <2>3, <2>4 DEF Reached
<1>3. ASSUME called' = called
      PROVE  c \in called /\ Cardinality(called) <= num_apps /\ Reached(c, s)
  BY <1>3 DEF CallsReach
<1>4. ASSUME NEW m \in net, IgnoreKill(m)
      PROVE  FALSE
  <2>1. m \in Message /\ m.to \in Rank /\ m.call \in called /\ Source(m.src, m.to)
    BY DEF TypeOK, Message, WellSent
  <2>2. m.call \notin counted[m.to] /\ counted[m.to] \subseteq called
    BY <2>1, KillMeantForReceiver DEF Untouched, TypeOK
  <2>3. /\ Cardinality(counted[m.to]) <= Cardinality(called)
        /\ Cardinality(counted[m.to]) = Cardinality(called) => counted[m.to] = called
        /\ IsFiniteSet(counted[m.to]) /\ Cardinality(counted[m.to]) \in Nat
    BY <1>0, <2>2, FS_Subset, FS_CardinalityType
  <2>4. Cardinality(counted[m.to]) < num_apps
    BY <1>0, <1>3, <1>4, <2>1, <2>2, <2>3, KillAssumption DEF IgnoreKill
  <2> QED
    BY <1>4, <2>1, <2>3, <2>4, KillAssumption DEF TokensExact, IgnoreKill
<1>5. ASSUME NEW m \in net, TakeToken(m)
      PROVE  Reached(c, s)'
  <2> DEFINE new == [msg |-> m, do_kill |-> f_kill[m.to] = 1]
  <2>1. m.to \in Rank
    BY DEF TypeOK, Message
  <2>2. /\ net' = net \ {m} /\ handlers' = handlers \cup {new} /\ called' = called
        /\ counted' = [counted EXCEPT ![m.to] = @ \cup {m.call}]
    BY <1>5 DEF TakeToken
  <2>3. /\ counted'[m.to] = counted[m.to] \cup {m.call}
        /\ counted[s] \subseteq counted'[s]
    BY <2>1, <2>2 DEF TypeOK
  <2>4. new.msg = m /\ Left(new) = KillMeant(m) \ {m.to}
    BY DEF Left
  <2> HIDE DEF new
  <2>5. CASE m.call = c /\ s \in KillMeant(m)
    <3>1. CASE s = m.to
      BY <2>3, <2>5, <3>1 DEF Reached
    <3>2. CASE s # m.to
      BY <2>2, <2>4, <2>5, <3>2 DEF Reached
    <3> QED
      BY <3>1, <3>2
  <2>6. CASE ~ (m.call = c /\ s \in KillMeant(m))
    BY <1>3, <2>2, <2>3, <2>6 DEF Reached
  <2> QED
    BY <2>5, <2>6
<1>6. ASSUME NEW h \in handlers, Forward(h)
      PROVE  Reached(c, s)'
  <2> DEFINE req(t) == [call |-> h.msg.call, src |-> h.msg.to, to |-> t]
  <2>1. /\ handlers' = handlers \ {h} /\ called' = called /\ counted' = counted
        /\ net' = net \cup {req(t) : t \in Targets(h.msg.to, h.msg.src)}
    BY <1>6 DEF Forward
  <2>2. CASE h.msg.call = c /\ s \in Left(h)
    <3>1. h.msg.to \in Rank /\ Source(h.msg.src, h.msg.to)
      BY DEF TypeOK, KillHandler, Message, WellSent
    <3>2. PICK t \in Targets(h.msg.to, h.msg.src) : s \in Beyond(h.msg.to, t)
      BY <2>2, <3>1, BeyondCovers DEF Left, KillMeant
    <3>3. req(t) \in net' /\ req(t).call = c /\ s \in KillMeant(req(t))
      BY <2>1, <2>2, <3>2 DEF KillMeant
    <3> QED
      BY <3>3 DEF Reached
  <2>3. CASE ~ (h.msg.call = c /\ s \in Left(h))
    BY <1>3, <2>1, <2>3 DEF Reached
  <2> QED
    BY <2>2, <2>3
<1>7. ASSUME NEW t \in Rank, Free(t) \/ Finalize(t)
      PROVE  Reached(c, s)'
  BY <1>3, <1>7 DEF Free, Finalize, Reached
<1> QED
  BY <1>1, <1>2, <1>4, <1>5, <1>6, <1>7 DEF Next

(* The last token is taken by a handler that stops the server. *)
LEMMA LastTokenStopsStep ==
  IndInv /\ LastTokenStops /\ [Next]_vars => LastTokenStops'
<1> SUFFICES ASSUME IndInv, LastTokenStops, [Next]_vars, num_apps > 0,
                    NEW s \in Rank, f_kill'[s] = 0
             PROVE  state'[s] # "up" \/ \E h \in handlers' : h.msg.to = s /\ h.do_kill
  BY DEF LastTokenStops
<1> USE DEF IndInv
<1>0. /\ f_kill \in [Rank -> Int] /\ state \in [Rank -> {"up", "destroy", "freed", "final"}]
  BY KillAssumption DEF TypeOK
<1>1. ASSUME UNCHANGED <<f_kill, handlers, state>>
      PROVE  state'[s] # "up" \/ \E h \in handlers' : h.msg.to = s /\ h.do_kill
  BY <1>1 DEF LastTokenStops
<1>2. ASSUME NEW m \in net, TakeToken(m)
      PROVE  state'[s] # "up" \/ \E h \in handlers' : h.msg.to = s /\ h.do_kill
  <2> DEFINE new == [msg |-> m, do_kill |-> f_kill[m.to] = 1]
  <2>1. /\ f_kill' = [f_kill EXCEPT ![m.to] = @ - 1] /\ state' = state
        /\ handlers' = handlers \cup {new}
    BY <1>2 DEF TakeToken
  <2>2. CASE s = m.to
    <3>1. f_kill[m.to] = 1
      BY <1>0, <2>1, <2>2
    <3>2. new.do_kill /\ new.msg.to = s
      BY <2>2, <3>1
    <3> QED
      BY <2>1, <3>2
  <2>3. CASE s # m.to
    BY <1>0, <2>1, <2>3 DEF LastTokenStops
  <2> QED
    BY <2>2, <2>3
<1>3. ASSUME NEW h \in handlers, Forward(h)
      PROVE  state'[s] # "up" \/ \E g \in handlers' : g.msg.to = s /\ g.do_kill
  <2>1. /\ handlers' = handlers \ {h} /\ f_kill' = f_kill
        /\ state' = IF h.do_kill THEN [state EXCEPT ![h.msg.to] = "destroy"] ELSE state
    BY <1>3 DEF Forward
  <2>2. CASE h.do_kill /\ s = h.msg.to
    BY <1>0, <2>1, <2>2
  <2>3. CASE ~ (h.do_kill /\ s = h.msg.to)
    BY <1>0, <2>1, <2>3 DEF LastTokenStops
  <2> QED
    BY <2>2, <2>3
<1>4. ASSUME NEW t \in Rank, Free(t) \/ Finalize(t)
      PROVE  state'[s] # "up" \/ \E g \in handlers' : g.msg.to = s /\ g.do_kill
  BY <1>0, <1>4 DEF Free, Finalize, LastTokenStops
<1> QED
  BY <1>1, <1>2, <1>3, <1>4 DEF Next, DspacesKill, IgnoreKill, vars

(* With at most num_apps calls no request is lost on the tree: once all    *)
(* handlers are through, every server has counted every call, and has      *)
(* stopped if there were num_apps of them.                                 *)
THEOREM AllStopAtRest ==
  Spec => []AllStoppedAtRest
<1>1. Init => CallsReach /\ LastTokenStops
  BY KillAssumption DEF Init, CallsReach, LastTokenStops
<1>2. ASSUME IndInv, CallsReach, LastTokenStops
      PROVE  AllStoppedAtRest
  <2> SUFFICES ASSUME Cardinality(called) <= num_apps, net = {}, handlers = {}, NEW s \in Rank
               PROVE  /\ counted[s] = called
                      /\ called # {} /\ Cardinality(called) = num_apps => state[s] # "up"
    BY DEF AllStoppedAtRest
  <2> USE <1>2 DEF IndInv
  <2>1. counted[s] = called
    BY DEF CallsReach, Reached, TypeOK
  <2>2. ASSUME called # {}, Cardinality(called) = num_apps
        PROVE  state[s] # "up"
    <3>1. Cardinality(called) \in Nat /\ Cardinality(called) # 0
      BY <2>2, KillAssumption, FS_Subset, FS_CardinalityType, FS_EmptySet DEF TypeOK
    <3>2. num_apps > 0 /\ f_kill[s] = 0
      BY <2>1, <2>2, <3>1 DEF TokensExact
    <3> QED
      BY <3>2 DEF LastTokenStops
  <2> QED
    BY <2>1, <2>2
<1> QED
  BY <1>1, <1>2, CallsReachStep, LastTokenStopsStep, KillInvariant, PTL DEF Spec
=============================================================================
