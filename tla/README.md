# TLA+ models of DataSpaces

DataSpaces is a staging service for scientific workflows: client processes put
n-dimensional arrays, named and versioned, into a group of server processes, and
other clients get them back by name, version and bounding box. This directory
holds TLA+ models of the parts of it where several processes, threads or RPC
handlers meet, TLC configurations that check them on small instances, and proofs
of some of the results for all instances. Source paths are relative to the
repository's root.

## The system

A server is one MPI process with a Margo/Argobots progress loop. Each RPC is
handled by a user-level thread; handlers of one server interleave wherever they
wait for a mutex, a condition variable or another RPC. Clients are separate
processes with a Margo instance of their own; some RPCs (`notify`, `get_local`,
`drain`, `kill_client`) go from servers to clients.

| Component | State | Operations | Hard part | Module |
|---|---|---|---|---|
| Distributed index of a server (`src/ss_data.c`) | `dht_entry`: per version bin a list of descriptors, a list of subscriptions, a mutex and a condition variable | `dht_add_entry`, `dht_update_owner`, `dht_find_entry_all`, `dht_local_subscribe` | lost wakeups, exact counting of elements, pointers used after the mutex is released | `Dht` |
| Data path (`src/dspaces-server.c`, `src/dspaces-client.c`) | objects in `ls->obj_hash`, descriptors in the index of the servers that index the box | `put_rpc`, `obj_update_dht`, `obj_update_rpc`, `query_rpc`, `odsc_internal_rpc`, `get_rpc` | the put is answered before the index is updated, updates are applied in any order, eviction | `Staging` |
| Metadata store | `ls->meta_hash`, `meta_subs` | `put_meta_rpc`, `query_meta_rpc` | a put stores and notifies in two steps, readers do not take `ls_mutex` | `MetaStore` |
| Broadcast and gather | none of its own | `ibcast_rpc_start`, `get_vars_rpc`, `get_var_objs_rpc` | any server can be asked first; handlers wait for each other | `Tree`, `Gather` |
| Shutdown | `f_kill` tokens per server | `dspaces_kill`, `kill_rpc`, `server_destroy` | concurrent kill requests, barrier entered by some servers only, freeing what handlers use | `Kill`, `Lifetime` |
| Client subscriptions | `sub_lists`, `pending_sub`, the status of each handle | `dspaces_sub`, `dspaces_check_sub`, `dspaces_cancel_sub`, `notify_rpc`, `dspaces_fini` | status written outside the mutex, one condition variable for all | `ClientSub` |
| Client-side storage and drain | the client's object store, `local_put_count` | `dspaces_put_local`, `put_local_rpc`, `drain_thread`, `drain_rpc`, `get_local_rpc`, `kill_client_rpc` | the object changes hands while the index still names its old owner, a counter updated inside and outside a mutex, clients and servers that leave | `Drain` |
| Asynchronous puts | list `put_reqs` | `dspaces_iput`, `dspaces_check_put`, `dspaces_fini` | list walked and shortened in two places | `IPut` |
| Shared spaces, global dimensions and hashing (`src/ss_data.c`, `src/bbox.c`, `include/sfc.h`) | `gdim_list`, `sspace_list`, the cache of hash results | `dspaces_define_gdim`, `lookup_sspace`, `ssd_alloc_v0/v1/v2`, `ssd_hash_v0/v1/v2`, `sh_add`, `sh_find` | every element at exactly one server, found by puts and queries alike; racing creation of spaces | `Boxes`, `Bisection`, `Hash`, `SharedSpaces`, `HashedSpaces` |
| Strided copy of sub-arrays | none | `ssd_copy`, `matrix_copy` | index arithmetic over boxes at different positions | `Copy` |
| Remote sites | `remotes`, the second storage `ps` | `query_remotes`, `peek_meta_remotes`, `peek_meta_rpc`, `query_meta_rpc`, `get_rpc` | answers in any order, a cache filled for one client and read by another | `RemoteMeta`, `RemoteData` |
| Registry (`src/dspaces-server.c`, `modules/ds_reg.py`) | `local_reg_id`, an SQLite database | `dspaces_register_simple`, `reg_rpc`, `Registry.Add`, `bootstrap_id` | statements of several handlers mix; restarts | `Registry` |
| Modules and Python execution | the interpreter's lock, mutex and condition on a handler's stack | `pexec_rpc`, `mpexec_rpc`, `route_request`, `cond_rpc` | a handler that waits for its client, addresses that travel through the client | `Exec` |
| Expressions, configuration, start-up, bindings | - | `do_ops_rpc`, `parse_conf*`, `dspaces_*_init` | - | not modelled |

What makes each of them correct, in a sentence: a waiting query is woken exactly
when everything it asked for is there (index); what a blocking get returns is
what was put (data path); of every name and version there is one metadata entry
and no waiting reader misses it (metadata); every server handles a broadcast
exactly once (tree); all servers stop together after `num_apps` kill calls
(shutdown); every subscription ends, by callback or cancellation, before the
client is finalized (subscriptions); an object that is drained is never lost and
its writer leaves only when it is safe, but then does leave (drain); the list of
puts under way has each of them once (asynchronous puts); every element of a
domain is indexed by one server, and puts, queries and the counts of the queries
agree on which (spaces); a get's buffer has every element in its place (copy); an
id that was handed out stays that of the registration (registry); the handler
that holds a result is released, and not before (execution); what comes from
another site is what was asked for (remote sites).

## The modules

**Objects** has what `ss_data.c` does with descriptors: comparison by name,
version and box, and version bins (`version % max_versions`). A bounding box is
the set of the cells it contains. Lists grow at their head in C; here the head is
the last element of a sequence, so that the index of an index entry, which is
never unlinked, stands for its address.

**Dht** is the index of one server. `AddEntry` is `dht_add_entry` under
`hash_mutex[n]`: overwrite the first overlapping descriptor of the bin or add
one, subtract from the matching subscriptions, unlink those that reach zero and
broadcast. `UpdateOwner` is `dht_update_owner`. A reader is one query.
`FindEntryAll` is the scan with timeout -1 and, under the same hold of the mutex,
the subscription; `Wake` is what follows `ABT_cond_wait`. `PollBegin`/`PollEnd`
are the scan with timeout 0, which takes no lock, and `CopyBegin`/`CopyEnd` the
loops of `get_query_odscs` and `odsc_internal_rpc` that copy descriptors through
pointers after the unlock. These two reads may overlap writes; each field of an
entry then has its old or its new value (`Torn`). `published` and `avail` are
history variables: what was ever added, and what a reader could have been given.

**Staging** is a group of servers. `PutRpc` stores an object and answers,
`ObjUpdateDht` is one turn of the loop that tells the servers that index the box,
`ObjUpdateRpc` their handler. A reader (`DspacesGet`, `FindEntries`, `CopyEntries`,
`QueryRpc`, `GetRpc`, `GetData`) queries every server that indexes part of its box,
waits until each has what it indexes, and fetches the data from the owners. What
`FindEntries` and the updates give it are pointers, that is, indices into the
server's list; `CopyEntries` follows them later, after the unlock, and copies what
the entries hold by then. An entry that was overwritten in between may be of
another version and, clipped to the query's box, have no elements. `GetRpcFaults` is
`get_rpc` when the object is gone: the server crashes. The wait at one server is
reduced to its result, which `Dht` justifies, and a copy is one step: torn copies are
in `Dht`. The partition of the domain is the constant `Share`.

**MetaStore** has the three stages of `ls_add_meta` as three steps under
`ls_mutex` (`CheckDuplicate`, `AddMeta`, `Notify`) and the modes of
`query_meta_rpc`; `NextEntry` is the scan of `meta_find_next_entry` with its order
of bins, and `ScanBin` its inner loop with the early break.

**Tree** is the forwarding rule of `ibcast_rpc_start`. **Gather** is
`get_var_objs_rpc` (and `get_vars_rpc`, which differs in dropping duplicates) on
every server, with puts going on that evict older objects (`Clash` says which);
`before`, `missed` and `late` are history: what was stored when the client asked, and
what was evicted before and after its server was scanned. **Kill** is the path of a kill
request, with the
handlers of one server interleaving between taking a token and forwarding, and
`server_destroy` with its two barriers. **Lifetime** is the abstract specification
of `num_apps`; `Kill` is checked to implement it.

**ClientSub** is the client side of subscriptions; a step is one hold of
`sub_mutex` or one access outside it, up to the last read of the subscription by
`notify_rpc` (`FreeReq`), which is made after the last unlock and may fault when
`dspaces_fini` has freed it. The server that holds the request is
reduced to sending one notification at some time, or never.

**Drain** is client-side storage. `PutCountRead`, `PutCountWrite`, `PutLocal` and
`PutLocalRpc` are `dspaces_put_local` and its handler; `DrainCheck`, `DrainPop`,
`DrainStore` and `DrainUpdate` are the drain thread with `get_client_data`;
`DrainFind` to `DrainCountWrite` are the client's `drain_rpc`, cut where other
threads can see the difference. The two updates of `local_put_count` are a read
and a write each, because only one of them is made under `drain_mutex`.
`FiniLock` and `FiniRecheck` are the loop of `dspaces_fini`, `KillLocalClients`
and `KillClientRpc` the release of clients by a server that shuts down. Objects
of one region evict each other. `f_drain` and the regions are chosen in the
initial state. The variables `lost`, `killed` and `failed` are history.

**Boxes** has the boxes and intervals of `bbox.c` with their corners, where
`Objects` has them as sets of cells: the arithmetic of the corners is what the
following modules are about. **Bisection** has, as operators, hash version v2: the
repeated bisection of `ssd_alloc_v2`, the dealing out of the parts, `ssd_hash_v2`
and `ssh_hash_elem_count_v2`. **Hash** has the other versions: the Hilbert curve
of `sfc.h` (digits, rotation and Gray code as in `hilbert_c2i`), the cubes of a box
and their intervals (`bbox_to_intv`, and `bbox_to_intv2` with its ring), the
segments of `dht_construct_hash`, `ssd_hash_v1`, `ssh_hash_elem_count_v1`, and the
choice of a version. **SharedSpaces** is a server that receives
requests for variables with global dimensions: `DefineGdim` and `Request` are the
client's part, `LookupSspace`, `SearchSspace` and `AllocSspace` are
`lookup_sspace` under `sspace_mutex`, `FindNodes` and `HashNodes` are `ssd_hash`
with the cache, which has no lock. What the hashing computes for a domain and a
box comes in as tables (`Version`, `HashOf`, `OwnersOf`, `CountOf`), so that the
protocol can be reasoned about without the curve. **HashedSpaces** fills the tables
with what `Hash` and `Bisection` compute; the reference definition, `IndexedBy`, goes
from an element to the servers whose intervals or boxes contain it. **BisectedSpaces**
states what the tables of bisected domains are (`Bisected`), and what is asked of
the others (`CurveCovers`, `CurveCounts`): the hypotheses of the theorems. TLC
evaluates `Bisected` on the tables of the run `space` (`TablesBisected`). **Copy** is
the way of the elements from stored objects through the owner's buffer to the
caller's, with `matrix_copy` as one assignment of all positions.

**IPut** is the list of asynchronous puts with its pointers: `next`, `put_reqs`
and `put_reqs_end` are those of the code, `Walk` are the steps along them and `Chain` is
what a walk meets. The walk of `dspaces_iput` with `check` (`Checked`) unlinks as the code
does, also when it meets two complete requests in a row and unlinks the second from
the first; `skipped` records that. A freed request that is used again may still hold
what it held, or be fatal (`UseAfterFree`). A list that was spoilt so may run into
itself (five puts are enough); a call that would then walk for ever has no step
(`WalkEnds`).

**Exec** is remote execution. `ServerStep` are the stages of `pexec_rpc` and
`mpexec_rpc`, cut where Python's lock, the mutex on the handler's stack or the
local storage is touched; `CondLock`, `CondSignal` and `CondUnlock` are
`cond_rpc`. `gil` is set when a call has lost Python's lock for good. When the function
cannot be loaded, `pexec_rpc` answers with an `out` that it has not initialised. Its
bytes are those of the stack: the server may crash while it encodes them
(`AnswerFaults`), the client may see an empty answer, fail to pull, or pull the answer
of a handler that has ended and send its addresses back. The request then finds no
mutex (`CondAstray`: Argobots refuses the null that `ABT_mutex_free` has left, or the
server crashes) or the mutex of a third handler, which it wakes too early.

**Registry** has a step per SQL statement of `Registry.Add`. What the database has
committed survives `Restart`; ids of requests come from `local_reg_id`.

**RemoteMeta** is a query for metadata over a tree of sites. A handler is named by
the path of requests that led to it. **RemoteData** is `get_query_odscs` of a server with
remotes: `GetQuery` fetches into `ps`, `GetData` is the `get_rpc` that follows, which
crashes the server when it finds nothing. What the server stores itself matters by
its names only, which evictions leave alone; gets of it are in `Staging`. `replaced` is
history: the clients whose data was replaced in `ps` before they had it.

`MCDht`, `MCStaging`, `MCDrain`, `MCSpaces`, `MCServices` and `MCServers` give
values to the constants that a configuration file cannot express. `MCDht` and
`MCServices` narrow down what the queries ask for. `MCSpaces`, `MCServices` (what
clients ask for: `MetaStore`, `IPut`, `Exec`, `Registry`) and `MCServers` (what servers
send: `Kill`, `Gather`, `RemoteData`, `RemoteMeta`, `ClientSub`) put components together
that share no state; each is explored while the others rest in their initial states.

The theorems are in modules of their own: **DhtProofs**, **StagingProofs**,
**MetaStoreProofs** and **DrainProofs** for the modules they are named after,
**TreeProofs** for `Tree`, `Kill` and `Gather`, **ServiceProofs** for `Exec`,
`Registry`, `RemoteData`, `RemoteMeta`, `IPut` and `ClientSub`, and **SpaceProofs** for
`SharedSpaces`, `Bisection`, `Boxes` and `Copy`. **Loops** has the lemmas about
recursive functions that several of them use.

Definitions named `X_Something` are faulty variants of `X` that are used by
nothing; replacing `X` by one of them must make TLC report the property that it
is listed with in `PROJECT.json`.

## The runs

| Run | What it shows | Bounds |
|---|---|---|
| `dht` | `RemainingExact`, `NoLostWakeup`, `NoDanglingSub`: subscriptions count, wait and are unlinked correctly. `ResultExact`: a query returns the descriptors it asked for unless its bin is used for another version. `SubscriberServed`: a blocked query is answered once its elements are there | 3 cells of which the server indexes 2, 3 boxes (one reaches beyond the share), 2 versions in 1 bin, 2 queries with any timeout, up to exchange |
| `staging` | `IndexBacked`, `GetExact`, `FaultsExplained`, `GetServedAlone` | 2 servers, 3 cells of which one server indexes 2, 3 boxes, 2 versions in 1 bin, 1 get, 3 puts (`MaxPuts`) |
| `staging_reorder` | violation of `GetServed` | as `staging` |
| `drain` | `NothingLost`, `DrainedBeforeFini`, `ServerHasObject`, `FiniReturns` | 2 objects of 1 client that overlap or not, drain on or off, 1 failing transfer (`MaxFail`) |
| `space` | `OneSpacePerGdim`, `IntervalsExact`, `HashFindsOwnersAlone`, `ElemCountExact`, `CopyExact` | 3 servers, 7 domains of 1 and 2 dimensions (hash versions v0, v1 and v2; one smaller than the number of parts, one on which the ring grows), all boxes of the small ones, 2 racing requests; copies: domains of 1 to 4 dimensions, any box, 2 objects (`MaxPieces`) |
| `space_cache` | violation of `HashFindsOwners` | as `space` |
| `servers` | shutdown: `TokensExact`, `ForwardBeforeFree`, `ImplementsLifetime`, liveness included; broadcast: `OncePerServer`, `AnswerExact`, `Answered`; remote sites: `PeekExact`, `MixedUpByAnother`; subscriptions: `QuietAfterFini`, `NotificationHandled`, `WaiterResumes` | 4 servers, 3 kill calls for 2 tokens, entering at ranks 0, 1 and 3; any of the 4 servers asked, 2 objects that evict each other; 4 sites in a tree of depth 2; 2 variables, 2 versions in 1 bin, 2 clients; 2 threads, 2 subscriptions in separate lists |
| `services` | metadata: `OneEntryPerVersion`, `NoLostNotification`, `LastIsLatest`, `HandsOutLowest`, `WaiterServed`; asynchronous puts: `PutListKept`, `FiniAfterPuts`; execution: `CondTargetsAlive`, `ExecReleased`; registry: `RegisteredIdExact` | 1 name, 3 versions in 2 bins, 2 writers, 2 readers, one of any mode and one that asks for the next version; 3 puts; 2 calls of `dspaces_pexec` and 1 of `dspaces_mpexec` with 2 arguments, one of a module; 3 registrations of 2 names and 1 restart (`MaxRestarts`) |
| `iput_check` | violation of `PutListSound` | 3 puts |
| `client_sub_collision` | violation of `NotificationHandled` | 2 subscriptions in one list |
| `client_sub_cancel` | violation of `CancelledNotFired` | 1 subscription |
| `remote_mix` | violation of `RemoteGetExact` | 2 variables, 1 version, 2 clients |

Every run has `CHECK_DEADLOCK FALSE`: an application may stop calling. The bounds are the smallest in which the cases that
matter happen: two queries so that one broadcast wakes both, two versions in one
bin so that entries are overwritten, boxes that meet outside of a query at a server
that indexes both cells, a third remote execution for a stray signal to wake, a tree in
which a request travels up as well as down, one more kill call than tokens, three
puts so that a list has a middle, a name registered twice and one registered once.
For `space` the domains are chosen by what happens to them: `<<4, 2>>`, `<<4, 4>>`
and `<<8, 8>>` are hashed along the curve with segments that are not contiguous,
and a box of `<<8, 8>>` makes the ring grow; `<<3, 2>>`, `<<5>>` and `<<3, 1>>` are
bisected, the last into boxes without elements; `<<1>>` is not hashed.

### What the violations say

* `staging_reorder`: `dht_find_match` ignores versions, so an `obj_update` of an
  old version that is applied late overwrites the descriptor of a newer one in
  the same bin. The newer object is stored but is never found, and a get with
  timeout -1 waits for ever although everything was written.
* `client_sub_collision`: the loop of `dspaces_get_sub` does not advance. With
  another subscription at the head of the list (ids that are equal modulo
  `SUB_HASH_SIZE`) the handler spins with `sub_mutex` held.
* `space_cache`: `sh_find` looks for the box alone, in a list that all shared
  spaces of a process have in common. A box that is used with two variables of
  different global dimensions is looked up in the partition of the one that was
  used first: puts and queries of the other one miss servers that index elements
  of it, and differently on servers with a different history.
* `iput_check`: with `check`, `dspaces_iput` walks along the list and unlinks what is
  complete, but goes on from the request it has unlinked. Of two complete puts in a
  row the second stays in the list, and `put_reqs_end` is the first if these were the
  last: the next put is linked behind a request that is not in the list.
  `dspaces_fini` never comes to it, and never returns either: it meets the finalized
  request, which the application may still ask for, frees it without taking it out,
  and finds it there again. What it then does with freed memory is not said.
* `remote_mix`: `query_remotes` stores what it fetched under an empty name, so
  that in `ps` all variables are one. A client whose query is followed by that of
  another one, of the same version and box, gets the other variable's data.
* `client_sub_cancel`: `notify_rpc` writes `DSPACES_SUB_TRANSFER` after the
  unlock and so undoes a cancellation; the callback runs.

Further properties are stated in the modules and not listed as runs, since the
code does not have them: `OverwrittenSubFails` (`Dht`, the TODO above
`dht_local_subscribe`), `GetsItsVersion` (`Staging`: a query keeps pointers to the
entries it has found and copies them after the unlock; when another version of the bin
is written over one in between, the get fetches that version and reports success),
`NextIsNewer` (`MetaStore`, `META_MODE_NEXT` in
`include/dspaces.h`: a waiting reader is given an older version that is put
meanwhile) and `CheckedDoneFired` (`ClientSub`, a
cancelled subscription is reported as done with a result that was not set).

The properties of `Drain` name the cases in which the code does not keep them,
and TLC finds a violation when an exception is removed: `DrainedBeforeFini` when a
racing update of `local_put_count` was lost, `ServerHasObject` after a failed
transfer (the owner is updated nevertheless) and `FiniReturns` for a client that
has evicted an object before it was drained (the object stays on the drain list
for ever, so that the server cannot shut down either).

Likewise `RegisteredIdExact` excepts a call that another one overtook between its
`SELECT` and its `INSERT` (its client is given an id that is in no row);
`ExecReleased` excepts calls whose client fails after the answer (the code has a
TODO for it), executions in which `dspaces_module_py_exec` has returned without
releasing Python's lock, and a server that has crashed on an uninitialised answer.
`CondTargetsAlive` excepts the states after a client has sent back the addresses in
such an answer (`Strays`). `GetExact`, `FaultsExplained` and `GetServedAlone` except gets of
data that shares its bin and an element with another version (`Overwritten`), whether
older or newer and inside the query's box or not, since entries and objects are
overwritten by overlap; what remains of `GetExact` then is that the elements are of the
variable, of the bin and inside the box. `PutListKept` ends with a walk
over two complete neighbours, and `MixedUpByAnother` names the clients whose data another
one has replaced. TLC finds each of them violated without its exception.

### Weak points that no property covers

Seen while modelling, listed here because a property about them would either
restate the code or have nothing to be compared with.

* `put_rpc` answers before the index is updated, so a get with timeout 0 after a
  completed put may find nothing (`src/dspaces-server.c:1290`).
* Objects with different boxes share a bin, and one object is evicted per put: the
  number of versions kept is not bounded (`src/ss_data.c:996`).
* `server_destroy` relies on a sleep of 5 seconds for other handlers to leave
  (`src/dspaces-server.c:1236`).
* `dspaces_sub` and `dspaces_put_local` leave their counts raised when the request
  cannot be sent; `dspaces_fini` then waits for ever (`src/dspaces-client.c:2865`,
  `:1591`). Both failures are in the models.
* `notify_rpc` reads `subh->req`, to free it, after the unlock that lets `dspaces_fini`
  free `subh` (`src/dspaces-client.c:2764`, `:835`). The model has this read (`FreeReq`),
  and `QuietAfterFini` says that nothing else is left to do by then; nothing excludes
  the read itself.
* A get of one client that meets an evicted object ends the server for all clients
  (`src/dspaces-server.c:2388`), with `ls_mutex` held.
* The update of an owner can overtake the one that creates the entry
  (`src/dspaces-server.c:589`): the index then names the client for ever.
* `finalize_req` destroys the handle and fails without marking the request
  (`src/dspaces-client.c:1110`).
* With hash version v1 the virtual domain is computed from the largest upper bound
  and not from the size: a longest side of 2 or 2^k + 1 does not fit
  (`src/ss_data.c:362`). `global_dimension_equal` ignores the number of dimensions
  of its second argument (`src/ss_data.c:2067`).
* The values of `hash_version` are shifted by one against `docs/running.rst:23`
  (`include/ss_data.h:181`).
* `mpexec_rpc` answers twice when the function cannot be loaded
  (`src/dspaces-server.c:3249`), and builds arrays without Python's lock (`:3203`).
* A type whose first registration is rejected cannot be registered until the
  server is restarted (`modules/ds_reg.py:25`).
* Sites that are remotes of each other ask each other without end
  (`src/dspaces-server.c:2228`); one local version of a variable hides all remote
  ones (`:1668`).
* `get_local_rpc` looks for the object without `ls_mutex`, after it may have been
  drained and freed, and dereferences a null pointer if it is gone
  (`src/dspaces-client.c:2413`). Readers of client-side objects are not modelled.
* A registration is forwarded with `src` unchanged: every server takes it for one of a
  client and forwards it on to all its neighbours, without end
  (`src/dspaces-server.c:3589`). `Registry` has one server.
* `peek_meta_remotes` returns the number of the round instead of the index of the remote
  that answered (`src/dspaces-server.c:2185`): with several remotes the query can be
  forwarded to one that has nothing. The model does the same; `PeekExact` is about the
  answer of a peek, which is right all the same.
* `dspaces_server_get_objdata` returns on an error with `ls_mutex` held
  (`src/dspaces-server.c:3688`).

## Fairness

Argobots runs every user-level thread that is runnable, and Mercury delivers a
request that was sent to a live server; so steps of a handler that has started,
and the delivery of requests, are weakly fair; in `Kill`, `Gather` and for the handlers
of `ClientSub` it is enough that some step is taken while one can be. Calls of the application (puts,
gets, kill calls, subscriptions, cancellations) are never assumed to happen, and
neither is the notification of a subscription, which depends on somebody else's
put. Waiting on a condition variable is a state without an enabled step: only the
broadcast or signal of the model ends it.

## Assumptions about the environment

* Applications put each element of a version once (`Immutable`, `MayPut`);
  `dht_add_entry` calls everything else undefined. In `Staging` they also write
  versions in increasing order.
* RPCs between live servers are delivered once, in any order. Errors of Margo
  calls that the code only logs are left out.
* `dspaces_fini` is called by one thread when no other one uses the client. In
  `IPut` the client is used by one thread, which does not ask again for a request
  that was freed.
* Global dimensions have no longest side of 2, and none other than the default
  ones begin like them (`GdimAssumption`): the code reads past the end of a table
  in the first case and uses the wrong space in the second. `hash_version` is `auto`
  or the bisection.
* Remote sites do not refer to each other in a circle (`RemoteAssumption`).
* SQLite isolates transactions; statements of different connections interleave.
* In `Exec` each handler runs on an execution stream of its own, as Python's lock
  requires; a module's call may fail in any way.
* In `Drain` each object is put once, all clients talk to the server that drains
  and the index is at another one. A transfer fails at most `MaxFail` times.

## What is proved

Every theorem holds for all values of the constants that satisfy the assumptions
of the modules: any number of servers, clients, requests, names and versions where
the runs have two or three. None of the properties is inductive; for each module
an inductive invariant was found, and proved step by step, one lemma per action; the
larger ones were checked with TLC on the bounds of the runs first.

| Module | Theorems | State of |
|---|---|---|
| `DhtProofs` | `TypeCorrect`, `SubscriptionCountExact` (`RemainingExact`), `NoWakeupIsLost` (`NoLostWakeup`), `SubscriptionsDoNotDangle` (`NoDanglingSub`), `ResultsAreExact` (`ResultExact`) | the index of a server |
| `StagingProofs` | `IndexIsBacked` (`IndexBacked`), `GetsAreExact` (`GetExact`), `FaultsAreExplained` (`FaultsExplained`) | the data path |
| `MetaStoreProofs` | `EntriesAreUnique` (`OneEntryPerVersion`), `NoNotificationIsLost` (`NoLostNotification`), `LastIsTheLatest` (`LastIsLatest`), `HandsOutTheLowest` (`HandsOutLowest`, an action property) | the metadata store |
| `TreeProofs` | `TokensAreExact` (`TokensExact`), `ForwardsBeforeFree` (`ForwardBeforeFree`), `KillImplementsLifetime`, `AllStopAtRest`; `RequestReachesOnce` (`OncePerServer`), `AnswerIsExact` (`AnswerExact`) | shutdown; broadcast and gather |
| `DrainProofs` | `NothingIsLost` (`NothingLost`), `OwnersHaveObjects` (`ServerHasObject`), `FiniAfterDrain` (`DrainedBeforeFini`) | client-side storage |
| `ServiceProofs` | `CondTargetsStayAlive` (`CondTargetsAlive`), `SignalsFindSleepers`; `RegisteredIdsAreExact` (`RegisteredIdExact`); `RemoteGetsMixedOnlyByAnother` (`MixedUpByAnother`); `NotificationsFindSubs` (`NotificationFindsSub`), `FiniIsQuiet` (`QuietAfterFini`); `PutListIsKept` (`PutListKept`), `FiniFollowsPuts` (`FiniAfterPuts`); `PeeksAreExact` (`PeekExact`) | execution, registry, remote data, subscriptions; asynchronous puts; remote metadata |
| `SpaceProofs` | `SpacesAreUnique` (`OneSpacePerGdim`), `CacheIsTransparent` and `BisectionFindsOwners` (`HashFindsOwnersAlone`), `BisectionCountsExact` (`ElemCountExact`), `BisectionIndexesOnce`, `BisectionHashCovers`, `BisectionCounts`; `CopiesAreExact` (`CopyExact`) | shared spaces and hashing; strided copy |

The assumptions are those named `...Assumption` in the modules: version numbers are
natural, there is at least one bin, one server and so on; sets that are counted
are finite; `Share` partitions the domain (`StagingAssumption`); the values that
stand for NULL are not among the others. Some theorems have hypotheses of their
own:

* `CacheIsTransparent`: `HashCoversOwners`, the hash functions find the servers that
  index the elements of a box. `BisectionFindsOwners` and `BisectionCountsExact` replace
  it by `Bisected`, that tables of bisected domains are those of `ssd_alloc_v2` and
  that requests stay inside the domain, and ask `CurveCovers` or `CurveCounts` of
  domains on the Hilbert curve only. With `hash_version` v2 there are none of these.
* `CopiesAreExact`: `NineDims`. `matrix_copy` takes the source offset of a tenth
  dimension from the index of the target (`src/ss_data.c:716`).

**Index.** The number that a subscription has left is right only if the elements of
the descriptors that it is given do not overlap, and that in turn holds because
every descriptor in a bin was published, published data of one version is
disjoint, and no two entries of a bin are the same object. `IndInv` is the
conjunction of these facts (`EntriesPublished`, `EntriesDistinct`,
`PublishedDisjoint`, `AvailPublished`, `PointersValid`) with `CountExact`: a
blocked reader's counter is the cardinality of what it misses, and it is linked
exactly as long as that is not zero. The central lemmas are `ScanCount` (the scan of
`dht_find_entry_all` subtracts every element once) and `AddEntryCount` (so does a
put). `ResultsAreExact` needs a second invariant, `ReadersExact`: as long as the
bin holds one version of the variable, no entry of the variable is ever
overwritten (`AddEntryKeeps`), so the pointers that a reader holds after the unlock
still lead to the objects it has found, and a torn read of them is not torn
(`ViewFollows`).

**Data path.** `NothingMadeUp` (everything stored, indexed or on its way was put),
`PutOnce` (objects of one version are disjoint), `StillStored` (an object is evicted
only for a newer version), `PointersSound` (the pointers of a query lead into the list,
and, as long as nothing it needs is `Overwritten`, to objects of its version that make
up what it no longer waits for), `FetchSound` (what a get has fetched and what it has
yet to fetch make up its query, with the same exception) and `DownFor` (a crashed
server was asked for data of which another version was put).

**Metadata.** The loops of `meta_find_next_entry` are recursive functions; that
they compute the lowest newer entry (`NextEntryResult`) is shown without the
library's induction theorems, by a least counterexample (`UpTo` of `Loops`, which also
has that a recursive function over `0 .. n` exists, `LoopRuns`). The reason is
arithmetic: versions of a bin differ by multiples of `size_hash` (`SameBin`), so the
entry at which the inner loop breaks is the lowest of its bin. The invariant adds
that one put at a time is between its stages and that its duplicate check still
holds (`Serial`), and what is known of a reader in each place (`ReaderSound`).

**Tree.** Removing an edge of the tree leaves two parts; `Beyond(src, to)` is the part
of `to`. The requests that a server forwards split what is beyond it, without
itself, into disjoint parts. So in `Kill` and in `Gather` requests of
one call are always on their way to disjoint sets of servers (`Apart`), none of which
has seen the call (`Untouched`). For `Kill`, `LastToken` and `FirstBarrier` say who
takes a server down and that no server is past the first barrier while another is
up; `KillImplementsLifetime` follows with the refinement mapping of `Kill`. It is
the safety part of `ImplementsLifetime`; that the servers do stop is `AllStopAtRest`
for states at rest, and the run `servers` for progress.

**Drain.** `InOnePlace` follows an object from the list through the drain thread and
the RPC to the client, `KeptAtServer` and `ToldLast` say what the server has and
what the index was told by then, `CountExact` what `local_put_count` counts unless
an update was lost, `FiniDone` what is true of a client that has left.

In `Gather` the lists are compared with what a server has held since it was scanned
(`Held`): what is scanned leaves it by an eviction only, and the eviction is recorded
(`OutSound`, `OutComplete`, `StoredOnce`).

**Services.** For `Exec`: a call is answered once, there is a mutex only with a
result, the handler holds it until it sleeps and is woken once, by its own call
(`AnswersOnce`, `NoResultNoMutex`, `HandlerHolds`, `WokenOnce`). All but the first of these end
with the first stray request; `Strays` only grows. For `RemoteData`: what a client is to
fetch is in its bin of `ps`, unless it was replaced (`FetchedThere`). For `Registry`: rows come from
calls, ids are fresh after every restart, and a transaction belongs to a call in
flight (`RowsBacked`, `IdsFresh`, `TypeRowExact`, `TxnInFlight`). For `ClientSub`:
`pending_sub` counts the subscriptions whose notification or cancellation is
still to come (`PendingExact`), and a subscription moves through its states in order
(`InOrder`, `NoneLeft`).

For `IPut` (`PutInv`, as long as no walk has met two complete neighbours): the
outstanding requests are in an order in which each one points to the next, the first is
`put_reqs`, the last is `put_reqs_end` and points to NULL, and requests that are not
outstanding are not in it; the walk of the code then meets exactly that order, and
unlinking any of them leaves such an order. Once a walk has met two such neighbours
(`SpoiltInv`), there is a set of requests, the first of the list among them, each of
which points to one of the set or is finalized or freed (`Cut`): taking out a request
that is not finalized leads its predecessor on within the set, and a new one is linked
behind a request outside of it or a finalized one, so the list never becomes empty and
`dspaces_fini` does not return. `FiniAfterPuts` follows from both. For
`RemoteMeta` (`RemoteInv`): a handler that has collected answers has only those of
its remotes, each of which is right for the sites beyond it; `Reach` is the least set
closed under remotes, so what a handler can come to is its own site and what its
remotes can come to.

**Spaces.** `SpaceInv`: a handler between the search and the allocation holds
`sspace_mutex` and the list has no space of its domain, so the one that it adds is the
only one. `CacheInv` adds that a request's space is that of its domain, that every
entry of the cache was computed for its box in the space named by `of`, and that an
answer is a computed one or a cached one; losing entries to racing updates changes
none of it.

**Bisection.** The halves of a box share nothing and leave nothing out (`HalvesOf`),
so after every round the queue divides the domain (`Divides`, `PartsDivide`), although
some of its boxes are empty. Dealing the parts out in turn gives each to one server
(`DealtIn`, `DealtAll`, `DealtOnce`, by the uniqueness of quotient and remainder):
`BisectionIndexesOnce`. Boxes with a common element intersect, so `ssd_hash_v2` finds the
owners. For the counts, division never leaves an upper bound more than one below the
lower one (`ThinBox`, `PartsThin`), so that an empty box has volume 0 and not a negative
one, the volume of a box is its number of elements (`VolumeCounts`, a bijection from
positions to elements), and the sum over a server's disjoint boxes is the number of
elements in their union (`CountOfTab`).

**Copy.** The offset of an element is a number in mixed radix whose digits are its
coordinates. `DigitsRead` and `DigitsWritten` say that reading off quotients and
remainders and adding up products are inverse to each other, so positions and
elements of a box correspond (`PosOfCell`, `CellOfPos`); `CopyOf` says that a copy moves
every common element of two boxes from its position in one to that in the other.
`CopyInv`: the target has each element of the objects so far in its place and the
rest unset.

**Only model-checked.** The liveness properties (`SubscriberServed`, `WaiterServed`,
`GetServedAlone`, `FiniReturns`, `Answered`, `NotificationHandled`, `WaiterResumes`,
`ExecReleased`, the liveness part of `ImplementsLifetime`): fairness and ENABLED are
out of the prover's reach. `IntervalsExact`, and what `HashFindsOwnersAlone` and
`ElemCountExact` say of hash version v1: the Hilbert curve is bitwise arithmetic and
recursion over the digits of coordinates, in a module (`Hash`) about which nothing can
be proved here.

## Not modelled

* Parsing of configuration files (`src/dspaces-conf.c`, the third-party
  `src/toml.c`), start-up and shutdown of MPI and Margo, the language bindings and
  utilities: they have no protocol, or no state that another process can see.
* Evaluation of expressions (`src/dspaces-ops.c`, `do_ops_rpc`): floating point
  arithmetic over data.
* Reads of client-side objects (`get_local_rpc`), `get_mod_rpc`, `dspaces_aget` and
  the calls for programs that embed a server (`dspaces_server_find_objs`,
  `dspaces_server_get_objdata`).
* The registry over several servers: `reg_rpc` forwards with `src` unchanged, and the
  forwarding does not end.
* Errors of Margo calls, except where a property is about them (`Drain`,
  `ClientSub`, `Exec`), and real time (`server_destroy` sleeps for 5 seconds).

Open for later work: the Hilbert curve (that consecutive cubes have consecutive
intervals, by induction over the depth), `get_local_rpc` in `Drain`, and the registry
over several servers once its forwarding ends.
