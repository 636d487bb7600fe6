----------------------------- MODULE MetaStore -----------------------------
(***************************************************************************)
(* The metadata store of a server: entries indexed by name and version,    *)
(* put_meta_rpc / ls_add_meta on one side and query_meta_rpc with          *)
(* meta_find_entry, meta_find_next_entry and ls_subscribe_meta_no_version  *)
(* on the other.                                                           *)
(*                                                                         *)
(* ls_add_meta works in three stages: a duplicate check, the insertion     *)
(* under the mutex of the entry's bin, and the notification of the readers *)
(* that wait for "any newer version" under a mutex of its own.  All three  *)
(* happen under the server's ls_mutex, which readers do not take, so       *)
(* readers run between the stages.                                         *)
(*                                                                         *)
(* Subscriptions to one given version (ls_subscribe_meta) are left out: no *)
(* caller passes wait = 1 to meta_find_entry.                              *)
(***************************************************************************)
EXTENDS Naturals, Integers, FiniteSets, SequencesExt

CONSTANTS
  Name,      \* metadata names
  Version,   \* metadata versions
  Writer,    \* put_meta requests in progress
  Client,    \* get_meta requests in progress
  size_hash, \* ls->size_hash: number of version bins (conf.max_versions)
  None       \* no entry (NULL)

ASSUME MetaAssumption == Version \subseteq Nat /\ size_hash \in Nat \ {0}

(* What dspaces_put_meta sends; the contents play no part in what the      *)
(* handlers do.                                                            *)
Entry == [name : Name, version : Version]

ASSUME NoneAssumption == None \notin Entry \cup Writer

(* What dspaces_get_meta sends: a version that is wanted, or one that is   *)
(* current (-1: none yet).                                                 *)
Request ==
  [name : Name, mode : {"SPEC"}, curr : Version]
    \cup [name : Name, mode : {"NEXT", "LAST"}, curr : Version \cup {-1}]

VARIABLES
  meta_hash,   \* ls->meta_hash: per bin the list of entries, head first
  ls_mutex,    \* the writer that holds it, or None
  wpc, wput,   \* where each writer is, and the entry it puts
  subs,        \* meta_subs[size_hash]: readers waiting for any newer version
  cpc, req,    \* where each reader is, and its request
  mdata,       \* msub.mdata, and the candidate of META_MODE_LAST
  reply,       \* the answer sent to each reader
  seen         \* history: what was stored when a META_MODE_LAST arrived

vars == <<meta_hash, ls_mutex, wpc, wput, subs, cpc, req, mdata, reply, seen>>
writers == <<ls_mutex, wpc, wput>>
readers == <<subs, cpc, req, mdata, reply, seen>>

Init ==
  /\ meta_hash = [n \in 0 .. size_hash - 1 |-> <<>>]
  /\ ls_mutex = None
  /\ wpc = [w \in Writer |-> "idle"]
  /\ wput = [w \in Writer |-> None]
  /\ subs = {}
  /\ cpc = [c \in Client |-> "idle"]
  /\ req = [c \in Client |-> None]
  /\ mdata = [c \in Client |-> None]
  /\ reply = [c \in Client |-> None]
  /\ seen = [c \in Client |-> {}]

-----------------------------------------------------------------------------
(* The entries stored under any version. *)
Stored == UNION {Range(meta_hash[n]) : n \in DOMAIN meta_hash}

(* ls_find_meta: a name and version that is in the list of its bin. *)
ls_find_meta(name, version) ==
  {e \in Range(meta_hash[version % size_hash]) :
     e.name = name /\ e.version = version}

TakeMutex_Missing(w) == UNCHANGED ls_mutex

(* ABT_mutex_lock(server->ls_mutex) *)
TakeMutex(w) == ls_mutex = None /\ ls_mutex' = w

(* put_meta_rpc takes ls_mutex and calls ls_add_meta. *)
PutMeta(w, e) ==
  /\ wpc[w] = "idle"
  /\ TakeMutex(w)
  /\ wpc' = [wpc EXCEPT ![w] = "check"]
  /\ wput' = [wput EXCEPT ![w] = e]
  /\ UNCHANGED <<meta_hash, readers>>

(* The end of put_meta_rpc: ls_mutex is released and the put is answered. *)
PutMetaEnd(w) ==
  /\ wpc' = [wpc EXCEPT ![w] = "idle"]
  /\ wput' = [wput EXCEPT ![w] = None]
  /\ ls_mutex' = None

(* ls_add_meta, the duplicate check: an entry that is there already is     *)
(* kept and the new one is ignored.                                        *)
CheckDuplicate(w) ==
  /\ wpc[w] = "check"
  /\ \/ /\ ls_find_meta(wput[w].name, wput[w].version) = {}
        /\ wpc' = [wpc EXCEPT ![w] = "add"]
        /\ UNCHANGED <<ls_mutex, wput>>
     \/ /\ ls_find_meta(wput[w].name, wput[w].version) # {}
        /\ PutMetaEnd(w)
  /\ UNCHANGED <<meta_hash, readers>>

(* ls_add_meta, the insertion, under meta_mutex[index]. *)
AddMeta(w) ==
  /\ wpc[w] = "add"
  /\ meta_hash' = [meta_hash EXCEPT
                     ![wput[w].version % size_hash] = <<wput[w]>> \o @]
  /\ wpc' = [wpc EXCEPT ![w] = "notify"]
  /\ UNCHANGED <<ls_mutex, wput, readers>>

Hit_FirstOnly(e) ==
  LET hit == {c \in subs : req[c].name = e.name}
  IN IF hit = {} THEN {} ELSE {CHOOSE c \in hit : TRUE}

(* The subscriptions that a new entry satisfies: all with its name. *)
Hit(e) == {c \in subs : req[c].name = e.name}

(* ABT_cond_broadcast(meta_cond[size_hash]) when a subscription was hit. *)
WokenReaders(hit) ==
  [c \in Client |-> IF hit # {} /\ cpc[c] = "wait" THEN "woken" ELSE cpc[c]]

(* ls_add_meta, the notification, under meta_mutex[size_hash]. *)
Notify(w) ==
  /\ wpc[w] = "notify"
  /\ mdata' = [c \in Client |-> IF c \in Hit(wput[w]) THEN wput[w] ELSE mdata[c]]
  /\ subs' = subs \ Hit(wput[w])
  /\ cpc' = WokenReaders(Hit(wput[w]))
  /\ PutMetaEnd(w)
  /\ UNCHANGED <<meta_hash, req, reply, seen>>

-----------------------------------------------------------------------------
Newer(name, curr) == {e \in Stored : e.name = name /\ e.version > curr}

(* The i-th bin that meta_find_next_entry visits. *)
BinVisited(curr, i) == (curr + i + 1) % size_hash

(* One turn of the inner loop; stop is its break. *)
Visit(acc, e, name, curr) ==
  IF /\ ~ acc.stop
     /\ e.name = name
     /\ e.version > curr
     /\ acc.mdres = None \/ e.version < acc.mdres.version
  THEN [mdres |-> e, stop |-> e.version < curr + size_hash]
  ELSE acc

NextEntry_FirstInBins(name, curr) ==
  LET newer == SelectSeq(FlattenSeq([i \in 1 .. size_hash |->
                                       meta_hash[BinVisited(curr, i - 1)]]),
                         LAMBDA e : e.name = name /\ e.version > curr)
  IN IF newer = <<>> THEN None ELSE newer[1]

(* The inner loop, along the list of one bin. *)
ScanBin(mdres, list, name, curr) ==
  LET acc[i \in 0 .. Len(list)] ==
        IF i = 0 THEN [mdres |-> mdres, stop |-> FALSE]
        ELSE Visit(acc[i - 1], list[i], name, curr)
  IN acc[Len(list)].mdres

(* The scan of meta_find_next_entry, under all the mutexes. *)
NextEntry(name, curr) ==
  LET res[i \in 0 .. size_hash] ==
        IF i = 0 THEN None
        ELSE ScanBin(res[i - 1], meta_hash[BinVisited(curr, i - 1)], name, curr)
  IN res[size_hash]

(* margo_respond: the handler ends. *)
AnswerQuery(c, e) ==
  /\ reply' = [reply EXCEPT ![c] = e]
  /\ cpc' = [cpc EXCEPT ![c] = "done"]
  /\ mdata' = [mdata EXCEPT ![c] = None]

(* A request arrives. *)
Receive(c, q) ==
  /\ cpc[c] = "idle"
  /\ req' = [req EXCEPT ![c] = q]
  /\ seen' = [seen EXCEPT ![c] =
                IF q.mode = "LAST" THEN {e \in Stored : e.name = q.name} ELSE {}]

(* With a candidate in hand: META_MODE_NEXT answers, META_MODE_LAST starts *)
(* to look for newer ones.                                                 *)
Proceed(c, mode, e) ==
  \/ mode = "NEXT" /\ AnswerQuery(c, e)
  \/ /\ mode = "LAST"
     /\ cpc' = [cpc EXCEPT ![c] = "last"]
     /\ mdata' = [mdata EXCEPT ![c] = e]
     /\ UNCHANGED reply

(* query_meta_rpc, META_MODE_SPEC: meta_find_entry without waiting. *)
QuerySpec(c, q) ==
  /\ q.mode = "SPEC"
  /\ Receive(c, q)
  /\ LET found == ls_find_meta(q.name, q.curr) IN
     AnswerQuery(c, IF found = {} THEN None ELSE CHOOSE e \in found : TRUE)
  /\ UNCHANGED <<meta_hash, writers, subs>>

(* META_MODE_NEXT and the first call of META_MODE_LAST:                    *)
(* meta_find_next_entry finds an entry, or subscribes without having given *)
(* up meta_mutex[size_hash] and waits.                                     *)
QueryNext(c, q) ==
  /\ q.mode \in {"NEXT", "LAST"}
  /\ Receive(c, q)
  /\ \/ /\ NextEntry(q.name, q.curr) # None
        /\ Proceed(c, q.mode, NextEntry(q.name, q.curr))
        /\ UNCHANGED subs
     \/ /\ NextEntry(q.name, q.curr) = None
        /\ subs' = subs \cup {c}
        /\ cpc' = [cpc EXCEPT ![c] = "wait"]
        /\ UNCHANGED <<mdata, reply>>
  /\ UNCHANGED <<meta_hash, writers>>

(* After ABT_cond_wait: wait again while nothing was delivered. *)
WakeReader(c) ==
  /\ cpc[c] = "woken"
  /\ \/ /\ mdata[c] = None
        /\ cpc' = [cpc EXCEPT ![c] = "wait"]
        /\ UNCHANGED <<mdata, reply>>
     \/ /\ mdata[c] # None
        /\ Proceed(c, req[c].mode, mdata[c])
  /\ UNCHANGED <<meta_hash, writers, subs, req, seen>>

LookForNewer_Once(c) ==
  /\ cpc[c] = "last"
  /\ AnswerQuery(c, mdata[c])
  /\ UNCHANGED <<meta_hash, writers, subs, req, seen>>

LookForNewer_SameStart(c) ==
  LET e == NextEntry(req[c].name, req[c].curr) IN
  /\ cpc[c] = "last"
  /\ \/ /\ e # None
        /\ mdata' = [mdata EXCEPT ![c] = e]
        /\ UNCHANGED <<cpc, reply>>
     \/ /\ e = None
        /\ AnswerQuery(c, mdata[c])
  /\ UNCHANGED <<meta_hash, writers, subs, req, seen>>

(* The loop of META_MODE_LAST: one call of meta_find_next_entry without    *)
(* waiting per step.                                                       *)
LookForNewer(c) ==
  LET e == NextEntry(req[c].name, mdata[c].version) IN
  /\ cpc[c] = "last"
  /\ \/ /\ e # None
        /\ mdata' = [mdata EXCEPT ![c] = e]
        /\ UNCHANGED <<cpc, reply>>
     \/ /\ e = None
        /\ AnswerQuery(c, mdata[c])
  /\ UNCHANGED <<meta_hash, writers, subs, req, seen>>

-----------------------------------------------------------------------------
WriterStep(w) == CheckDuplicate(w) \/ AddMeta(w) \/ Notify(w)
ReaderStep(c) == WakeReader(c) \/ LookForNewer(c)

Next ==
  \/ \E w \in Writer, e \in Entry : PutMeta(w, e)
  \/ \E w \in Writer : WriterStep(w)
  \/ \E c \in Client, q \in Request : QuerySpec(c, q) \/ QueryNext(c, q)
  \/ \E c \in Client : ReaderStep(c)

Spec == Init /\ [][Next]_vars

(* Handlers that have started are scheduled until they block. *)
Fairness ==
  /\ \A w \in Writer : WF_vars(WriterStep(w))
  /\ \A c \in Client : WF_vars(ReaderStep(c))

FairSpec == Spec /\ Fairness

-----------------------------------------------------------------------------
TypeOK ==
  /\ meta_hash \in [0 .. size_hash - 1 -> Seq(Entry)]
  /\ ls_mutex \in Writer \cup {None}
  /\ wpc \in [Writer -> {"idle", "check", "add", "notify"}]
  /\ wput \in [Writer -> Entry \cup {None}]
  /\ \A w \in Writer : wpc[w] # "idle" => wput[w] # None
  /\ subs \subseteq {c \in Client : cpc[c] \in {"wait", "woken"}}
  /\ cpc \in [Client -> {"idle", "wait", "woken", "last", "done"}]
  /\ req \in [Client -> Request \cup {None}]
  /\ mdata \in [Client -> Entry \cup {None}]
  /\ reply \in [Client -> Entry \cup {None}]
  /\ seen \in [Client -> SUBSET Entry]

(* "Only one metadata array per name/version pair": of two racing puts the *)
(* first wins and its entry is the only one.                               *)
OneEntryPerVersion ==
  \A n \in DOMAIN meta_hash : \A i, j \in DOMAIN meta_hash[n] :
    meta_hash[n][i] = meta_hash[n][j] => i = j

(* No notification is lost between the stages of ls_add_meta: while a      *)
(* reader waits although a newer entry is stored, the put of that entry    *)
(* has yet to notify it.                                                   *)
PendingNotification ==
  \A c \in Client : c \in subs =>
    \A e \in Newer(req[c].name, req[c].curr) :
      \E w \in Writer : wpc[w] = "notify" /\ wput[w] = e

(* A reader that was unlinked has something to return and is not asleep. *)
UnlinkedHasEntry ==
  \A c \in Client :
    cpc[c] \in {"wait", "woken"} =>
      /\ c \in subs <=> mdata[c] = None
      /\ cpc[c] = "wait" => c \in subs

(* A reader that sleeps is one whose notification is still to come. *)
NoLostNotification == PendingNotification /\ UnlinkedHasEntry

(* A handed-out entry that is newer than the current version is the lowest *)
(* newer one stored at that moment, whether the scan of                    *)
(* meta_find_next_entry found it or ls_add_meta delivered it.              *)
HandsOutLowest ==
  [][\A c \in Client :
       LET q == req'[c]
           e == IF mdata'[c] # None THEN mdata'[c] ELSE reply'[c]
       IN /\ q # None /\ q.mode # "SPEC"
          /\ mdata[c] = None /\ reply[c] = None
          /\ e # None /\ e.version > q.curr
          => \A f \in Stored' :
               f.name = q.name /\ f.version > q.curr => e.version <= f.version]_vars

(* META_MODE_LAST never answers with an entry older than one that was      *)
(* stored when the request arrived.                                        *)
LastIsLatest ==
  \A c \in Client :
    cpc[c] = "done" /\ req[c].mode = "LAST" =>
      /\ reply[c] # None
      /\ \A e \in seen[c] : e.version <= reply[c].version

(* dspaces_get_meta, META_MODE_NEXT: the version returned is more recent   *)
(* than the current version.                                               *)
NextIsNewer ==
  \A c \in Client :
    cpc[c] = "done" /\ req[c].mode = "NEXT" => reply[c].version > req[c].curr

(* A reader that waits for newer metadata is answered once it is stored. *)
WaiterServed ==
  \A c \in Client :
    (cpc[c] = "wait" /\ Newer(req[c].name, req[c].curr) # {}) ~> cpc[c] = "done"
=============================================================================
