------------------------------- MODULE Gather -------------------------------
(***************************************************************************)
(* get_var_objs_rpc and get_vars_rpc: a request that a client sends to its *)
(* server is forwarded over the tree; every server adds the objects it     *)
(* stores to what the servers it forwarded to answer, and answers in turn. *)
(*                                                                         *)
(* get_var_objs_rpc concatenates the lists it gets.  A list is modelled as *)
(* the set of its items, each tagged with the handler that contributed it: *)
(* an object that two handlers contribute is there twice.  get_vars_rpc    *)
(* returns the set of the objects' names; an object is evicted only for    *)
(* another one of its name, so that var_dict has the names of what is      *)
(* stored.                                                                 *)
(***************************************************************************)
EXTENDS Tree

CONSTANTS
  Object,      \* objects, one for each put
  Clash,       \* pairs of objects of one name and bin whose boxes overlap
  None         \* no server

ASSUME GatherAssumption == None \notin Rank /\ Clash \subseteq Object \X Object

(* A handler is known by its server and the server that forwarded to it. *)
Handler == [rank : Rank, src : Rank \cup {NoSrc}]

VARIABLES
  stored,      \* per server the objects in its local storage
  requests,    \* requests on their way
  pc,          \* where each handler is: "none", "scan", "wait" or "done"
  out,         \* the list a handler has put together
  entry,       \* the server that the client asked
  before,      \* history: what was stored when the client asked
  missed,      \* history: objects evicted from a server that was not yet scanned
  late         \* history: per server the objects evicted after it was scanned

evictions == <<missed, late>>
gatherVars == <<stored, requests, pc, out, entry, before, evictions>>

GatherInit ==
  /\ stored = [s \in Rank |-> {}]
  /\ requests = {}
  /\ pc = [h \in Handler |-> "none"]
  /\ out = [h \in Handler |-> {}]
  /\ entry = None
  /\ before = {}
  /\ missed = {}
  /\ late = [s \in Rank |-> {}]

(* The request has listed what the server stores. *)
Scanned(s) == \E h \in Handler : h.rank = s /\ pc[h] \in {"wait", "done"}

(* What the server stores, and what it has lost since it was scanned. *)
Held(s) == stored[s] \cup late[s]

(* What ls_add_obj evicts for an object: one that clashes with it, if any. *)
Evicted(s, o) ==
  LET clashing == {e \in stored[s] : <<e, o>> \in Clash}
  IN IF clashing = {} THEN {{}} ELSE {{e} : e \in clashing}

(* ls_add_obj by a put, under ls_mutex. *)
Put(s, o) ==
  /\ o \notin missed /\ \A t \in Rank : o \notin Held(t)
  /\ \E gone \in Evicted(s, o) :
       /\ stored' = [stored EXCEPT ![s] = (@ \ gone) \cup {o}]
       /\ \/ Scanned(s) /\ late' = [late EXCEPT ![s] = @ \cup gone] /\ UNCHANGED missed
          \/ ~ Scanned(s) /\ missed' = missed \cup gone /\ UNCHANGED late
  /\ UNCHANGED <<requests, pc, out, entry, before>>

(* A client asks the server it is connected to. *)
Ask(s) ==
  /\ entry = None
  /\ entry' = s
  /\ requests' = {[rank |-> s, src |-> NoSrc]}
  /\ before' = UNION {stored[t] : t \in Rank}
  /\ UNCHANGED <<stored, pc, out, evictions>>

(* The requests that ibcast_rpc_start sends for a handler, with its own    *)
(* server as their source.                                                 *)
Asked(h) == {[rank |-> t, src |-> h.rank] : t \in Targets(h.rank, h.src)}

(* The first half of the handler: ibcast_rpc_start. *)
Receive(h) ==
  /\ h \in requests
  /\ pc' = [pc EXCEPT ![h] = "scan"]
  /\ requests' = (requests \ {h}) \cup Asked(h)
  /\ UNCHANGED <<stored, out, entry, before, evictions>>

(* ls_find_all_no_version or ls_get_var_names, under ls_mutex. *)
Scan(h) ==
  /\ pc[h] = "scan"
  /\ out' = [out EXCEPT ![h] = {h} \X stored[h.rank]]
  /\ pc' = [pc EXCEPT ![h] = "wait"]
  /\ UNCHANGED <<stored, requests, entry, before, evictions>>

Respond_WithoutWaiting(h) ==
  /\ pc[h] = "wait"
  /\ out' = [out EXCEPT ![h] = @ \cup UNION {out[g] : g \in Asked(h)}]
  /\ pc' = [pc EXCEPT ![h] = "done"]
  /\ UNCHANGED <<stored, requests, entry, before, evictions>>

Respond_OnlyAfterBroadcast(h) ==
  /\ pc[h] = "wait"
  /\ Asked(h) # {}
  /\ \A g \in Asked(h) : pc[g] = "done"
  /\ out' = [out EXCEPT ![h] = @ \cup UNION {out[g] : g \in Asked(h)}]
  /\ pc' = [pc EXCEPT ![h] = "done"]
  /\ UNCHANGED <<stored, requests, entry, before, evictions>>

(* ibcast_get_output for each of these, then margo_respond. *)
Respond(h) ==
  /\ pc[h] = "wait"
  /\ \A g \in Asked(h) : pc[g] = "done"
  /\ out' = [out EXCEPT ![h] = @ \cup UNION {out[g] : g \in Asked(h)}]
  /\ pc' = [pc EXCEPT ![h] = "done"]
  /\ UNCHANGED <<stored, requests, entry, before, evictions>>

(* get_vars_rpc has the same three stages; its answer has the name of each *)
(* variable once.                                                          *)
HandlerStep(h) == Receive(h) \/ Scan(h) \/ Respond(h)

GatherNext ==
  \/ \E s \in Rank, o \in Object : Put(s, o)
  \/ \E s \in Rank : Ask(s)
  \/ \E h \in Handler : HandlerStep(h)

(* Argobots schedules every handler that can run, and requests arrive. *)
GatherFairness == WF_gatherVars(\E h \in Handler : HandlerStep(h))

-----------------------------------------------------------------------------
(* The forwarding rule reaches no server twice, whichever server the       *)
(* client asked.                                                           *)
OncePerServer ==
  LET active == requests \cup {h \in Handler : pc[h] # "none"}
  IN \A g, h \in active : g.rank = h.rank => g = h

(* The list the client gets has every object that was stored when it asked *)
(* and still when its server was scanned exactly once, and nothing that    *)
(* its server had not stored when it was scanned, whatever is put, and     *)
(* evicted by it, while the request is on its way.                         *)
AnswerExact ==
  entry # None =>
    LET root == [rank |-> entry, src |-> NoSrc] IN
    pc[root] = "done" =>
      /\ \A o \in before \ missed : Cardinality({p \in out[root] : p[2] = o}) = 1
      /\ \A p \in out[root] : p[2] \in Held(p[1].rank) \ missed

(* The handlers wait for each other only down the tree: the client is      *)
(* always answered.                                                        *)
Answered ==
  (entry # None) ~> (entry # None /\ pc[[rank |-> entry, src |-> NoSrc]] = "done")
=============================================================================
