----------------------------- MODULE RemoteMeta -----------------------------
(***************************************************************************)
(* Metadata of remote sites: a server may know servers of other sites, its *)
(* remotes.  query_meta_rpc first asks all remotes at once whether they,   *)
(* or their remotes in turn, have an entry (peek_meta_rpc), and forwards   *)
(* the query to the remote it takes from the answers; otherwise it looks   *)
(* in its own storage.  One name is modelled, and queries that do not      *)
(* wait.                                                                   *)
(*                                                                         *)
(* The transport does not fail.  Sites must not be remotes of each other,  *)
(* directly or indirectly: the queries of each would ask the other for     *)
(* ever.                                                                   *)
(***************************************************************************)
EXTENDS Naturals, Sequences, SequencesExt, FiniteSets

CONSTANTS
  Site,           \* sites, each of one server
  Gateway,        \* the site whose clients are modelled
  Remotes         \* per site the sequence server->remotes

Depth == Cardinality(Site)

(* The sites that a query at s may come to, s included: those in every set *)
(* that has s, and with a site its remotes.                                *)
Reach(s) ==
  {t \in Site : \A S \in SUBSET Site :
     s \in S /\ (\A u \in S : Range(Remotes[u]) \subseteq S) => t \in S}

ASSUME RemoteAssumption ==
  /\ IsFiniteSet(Site) /\ Gateway \in Site
  /\ Remotes \in [Site -> Seq(Site)]
  /\ \A s \in Site : \A t \in Range(Remotes[s]) : s \notin Reach(t)

(* A handler is known by the requests that led to it: of the query that a  *)
(* client sends to the gateway, of the queries it was forwarded as, and of *)
(* the peeks.                                                              *)
Path ==
  {p \in UNION {[1 .. n -> {"query", "peek"} \X Site] : n \in 1 .. Depth} :
     /\ p[1] = <<"query", Gateway>>
     /\ \A i \in 2 .. Len(p) : /\ p[i][2] \in Range(Remotes[p[i - 1][2]])
                               /\ p[i - 1][1] = "peek" => p[i][1] = "peek"}

SiteOf(p) == Last(p)[2]
RemotesOf(p) == Remotes[SiteOf(p)]
Peek(p, i) == Append(p, <<"peek", RemotesOf(p)[i]>>)
Forwarded(p, i) == Append(p, <<"query", RemotesOf(p)[i]>>)

VARIABLES
  meta,           \* the sites that have an entry for the name
  stage,          \* per handler: none, asked, collect, forward, done
  arrived,        \* per handler the remotes that have answered, in that order
  res,            \* per handler its answer: whether there is an entry
  had             \* history, per handler: Known when it was asked

remoteVars == <<meta, stage, arrived, res, had>>

RemoteInit ==
  /\ meta = {}
  /\ stage = [p \in Path |-> "none"]
  /\ arrived = [p \in Path |-> << >>]
  /\ res = [p \in Path |-> FALSE]
  /\ had = [p \in Path |-> FALSE]

-----------------------------------------------------------------------------
PutMeta(s) ==
  /\ s \notin meta
  /\ meta' = meta \cup {s}
  /\ UNCHANGED <<stage, arrived, res, had>>

(* A site that the handler's requests can come to has an entry. *)
Known(p) == Reach(SiteOf(p)) \cap meta # {}

(* Requests are sent to new handlers, while p moves on. *)
Send(p, at, sent) ==
  /\ stage' = [q \in Path |-> IF q = p THEN at ELSE IF q \in sent THEN "asked" ELSE stage[q]]
  /\ had' = [q \in Path |-> IF q \in sent THEN Known(q) ELSE had[q]]
  /\ UNCHANGED meta

Done(p, found) ==
  /\ stage' = [stage EXCEPT ![p] = "done"]
  /\ res' = [res EXCEPT ![p] = found]
  /\ UNCHANGED <<meta, arrived, had>>

(* dspaces_get_meta *)
QueryMeta ==
  LET root == << <<"query", Gateway>> >> IN
  /\ stage[root] = "none"
  /\ Send(root, "asked", {root})
  /\ UNCHANGED <<arrived, res>>

Peeks(p) == {Peek(p, i) : i \in DOMAIN RemotesOf(p)}

(* peek_meta_rpc: meta_find_next_entry, without waiting. *)
peek_meta_rpc(p) ==
  /\ stage[p] = "asked" /\ Last(p)[1] = "peek"
  /\ \/ /\ SiteOf(p) \in meta \/ RemotesOf(p) = << >>
        /\ Done(p, SiteOf(p) \in meta)
     \/ /\ SiteOf(p) \notin meta /\ RemotesOf(p) # << >>
        /\ Send(p, "collect", Peeks(p))
        /\ UNCHANGED <<arrived, res>>

query_meta_rpc(p) ==
  /\ stage[p] = "asked" /\ Last(p)[1] = "query"
  /\ \/ RemotesOf(p) = << >> /\ Done(p, SiteOf(p) \in meta)
     \/ /\ RemotesOf(p) # << >>
        /\ Send(p, "collect", Peeks(p))
        /\ UNCHANGED <<arrived, res>>

(* margo_wait_any, for an answer that was not yet taken. *)
WaitAny(p, i) ==
  /\ stage[p] = "collect"
  /\ stage[Peek(p, i)] = "done"
  /\ i \notin Range(arrived[p])
  /\ arrived' = [arrived EXCEPT ![p] = Append(@, i)]
  /\ UNCHANGED <<meta, stage, res, had>>

Positive(p) == {k \in DOMAIN arrived[p] : res[Peek(p, arrived[p][k])]}

peek_meta_remotes_LastReply(p) ==
  IF Len(arrived[p]) \in Positive(p) THEN Len(arrived[p]) ELSE 0

(* What peek_meta_remotes returns, plus one: the number of the round in    *)
(* which the last positive answer came, not that of the remote that gave   *)
(* it.                                                                     *)
peek_meta_remotes(p) ==
  IF Positive(p) = {} THEN 0 ELSE CHOOSE k \in Positive(p) : \A l \in Positive(p) : l <= k

AllArrived(p) == stage[p] = "collect" /\ Len(arrived[p]) = Len(RemotesOf(p))

PeekEnd(p) == AllArrived(p) /\ Last(p)[1] = "peek" /\ Done(p, peek_meta_remotes(p) > 0)

QueryForward(p) ==
  /\ AllArrived(p) /\ Last(p)[1] = "query" /\ peek_meta_remotes(p) > 0
  /\ Send(p, "forward", {Forwarded(p, peek_meta_remotes(p))})
  /\ UNCHANGED <<arrived, res>>

QueryLocal(p) ==
  /\ AllArrived(p) /\ Last(p)[1] = "query" /\ peek_meta_remotes(p) = 0
  /\ Done(p, SiteOf(p) \in meta)

QueryReturn(p) ==
  /\ stage[p] = "forward"
  /\ LET q == Forwarded(p, peek_meta_remotes(p))
     IN stage[q] = "done" /\ Done(p, res[q])

MetaStep(p) ==
  \/ peek_meta_rpc(p) \/ query_meta_rpc(p) \/ PeekEnd(p)
  \/ QueryForward(p) \/ QueryLocal(p) \/ QueryReturn(p)
  \/ \E i \in DOMAIN RemotesOf(p) : WaitAny(p, i)

-----------------------------------------------------------------------------
RemoteNext ==
  \/ \E s \in Site : PutMeta(s)
  \/ QueryMeta
  \/ \E p \in Path : MetaStep(p)

-----------------------------------------------------------------------------
(* A peek is answered with yes only if a site it can come to has the       *)
(* metadata, and with no only if none of them had it when it was asked:    *)
(* the answers of the remotes may come in any order (peek_meta_rpc).       *)
PeekExact ==
  \A p \in Path :
    Last(p)[1] = "peek" /\ stage[p] = "done" =>
      IF res[p] THEN Known(p) ELSE ~ had[p]
=============================================================================
