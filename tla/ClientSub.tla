----------------------------- MODULE ClientSub -----------------------------
(***************************************************************************)
(* Data subscriptions in a client (dspaces-client.c): dspaces_sub,         *)
(* dspaces_cancel_sub, dspaces_check_sub and the first part of             *)
(* dspaces_fini, called by application threads, and notify_rpc, which      *)
(* handles the notification that a server sends for each subscription      *)
(* (sub_rpc) in a thread of its own.                                       *)
(*                                                                         *)
(* A step is what happens under one hold of sub_mutex, or a write outside  *)
(* it.  A subscription is known by its id.                                 *)
(***************************************************************************)
EXTENDS Integers, FiniteSets, SequencesExt

CONSTANTS
  Thread,          \* application threads
  MaxSub,          \* bound: number of subscriptions that are made
  SUB_HASH_SIZE    \* number of lists in client->sub_lists

ASSUME ClientSubAssumption == MaxSub \in Nat /\ SUB_HASH_SIZE \in Nat \ {0}

Sub == 0 .. MaxSub - 1

VARIABLES
  sub_serial,      \* the next id
  status,          \* subh->status ("none" before dspaces_sub)
  sub_lists,       \* per list the ids registered in it
  pending_sub,     \* number of subscriptions that are not done
  requested,       \* sub requests that a server holds
  notices,             \* notifications on their way
  hpc,             \* per subscription, where its notify_rpc is
  spinning,        \* a notify_rpc loops in dspaces_get_sub, with sub_mutex held
  tpc, tsub,       \* where each thread is, and the handle it waits for
  fired,           \* subscriptions whose callback was run
  cancelled,       \* history: those that dspaces_cancel_sub marked CANCELLED
  reported         \* history: those for which dspaces_check_sub returned DONE

lists == <<sub_serial, sub_lists, pending_sub>>
handlerVars == <<hpc, spinning, fired>>
subVars == <<sub_serial, status, sub_lists, pending_sub, requested, notices, hpc, spinning,
          tpc, tsub, fired, cancelled, reported>>

SubInit ==
  /\ sub_serial = 0
  /\ status = [s \in Sub |-> "none"]
  /\ sub_lists = [n \in 0 .. SUB_HASH_SIZE - 1 |-> <<>>]
  /\ pending_sub = 0
  /\ requested = {}
  /\ notices = {}
  /\ hpc = [s \in Sub |-> "none"]
  /\ spinning = FALSE
  /\ tpc = [t \in Thread |-> "idle"]
  /\ tsub = [t \in Thread |-> 0]
  /\ fired = {}
  /\ cancelled = {}
  /\ reported = {}

(* sub_mutex can be taken. *)
Unlocked == ~ spinning

ListOf(s) == s % SUB_HASH_SIZE

Finalized == \E t \in Thread : tpc[t] = "finalized"

(* No thread has called dspaces_fini: the client may be used. *)
InUse == \A t \in Thread : tpc[t] \notin {"fini", "fini wait", "finalized"}

-----------------------------------------------------------------------------
(* dspaces_sub: the subscription is registered, then the request is sent.  *)
(* When sending fails the caller gets DSPACES_SUB_FAIL, but the            *)
(* subscription stays registered.                                          *)
DspacesSub(t) ==
  /\ tpc[t] = "idle"
  /\ Unlocked
  /\ InUse
  /\ sub_serial < MaxSub
  /\ sub_serial' = sub_serial + 1
  /\ pending_sub' = pending_sub + 1
  /\ sub_lists' = [sub_lists EXCEPT ![ListOf(sub_serial)] = Append(@, sub_serial)]
  /\ status' = [status EXCEPT ![sub_serial] = "WAIT"]
  /\ \/ requested' = requested \cup {sub_serial}
     \/ UNCHANGED requested
  /\ UNCHANGED <<notices, handlerVars, tpc, tsub, cancelled, reported>>

(* A server has found the data and sends the notification. *)
ServerNotifies(s) ==
  /\ s \in requested
  /\ requested' = requested \ {s}
  /\ notices' = notices \cup {s}
  /\ UNCHANGED <<lists, status, handlerVars, tpc, tsub, cancelled, reported>>

(* dspaces_get_sub finds a subscription.  It looks at the first node of    *)
(* the list only: with another id there it never ends.                     *)
dspaces_get_sub(s) == Head(sub_lists[ListOf(s)]) = s

(* notify_rpc, first critical section. *)
NotifyRpc(s) ==
  /\ s \in notices
  /\ Unlocked
  /\ notices' = notices \ {s}
  /\ \/ /\ ~ dspaces_get_sub(s)
        /\ spinning' = TRUE
        /\ UNCHANGED hpc
     \/ /\ dspaces_get_sub(s)
        /\ hpc' = [hpc EXCEPT ![s] = IF status[s] = "WAIT" THEN "transfer" ELSE "finish"]
        /\ UNCHANGED spinning
  /\ UNCHANGED <<lists, status, requested, tpc, tsub, fired, cancelled, reported>>

(* subh->status = DSPACES_SUB_TRANSFER, after the unlock. *)
SetTransfer(s) ==
  /\ hpc[s] = "transfer"
  /\ status' = [status EXCEPT ![s] = "TRANSFER"]
  /\ hpc' = [hpc EXCEPT ![s] = "fetch"]
  /\ UNCHANGED <<lists, requested, notices, spinning, tpc, tsub, fired, cancelled, reported>>

DataFetched_EarlyReturn(s) ==
  /\ hpc[s] = "fetch"
  /\ Unlocked
  /\ status[s] = "TRANSFER"
  /\ status' = [status EXCEPT ![s] = "RUNNING"]
  /\ hpc' = [hpc EXCEPT ![s] = "callback"]
  /\ UNCHANGED <<lists, requested, notices, spinning, tpc, tsub, fired, cancelled, reported>>

(* get_data, then the second critical section. *)
DataFetched(s) ==
  /\ hpc[s] = "fetch"
  /\ Unlocked
  /\ \/ /\ status[s] = "TRANSFER"
        /\ status' = [status EXCEPT ![s] = "RUNNING"]
        /\ hpc' = [hpc EXCEPT ![s] = "callback"]
     \/ /\ status[s] # "TRANSFER"
        /\ hpc' = [hpc EXCEPT ![s] = "finish"]
        /\ UNCHANGED status
  /\ UNCHANGED <<lists, requested, notices, spinning, tpc, tsub, fired, cancelled, reported>>

(* subh->cb(...) *)
RunCallback(s) ==
  /\ hpc[s] = "callback"
  /\ fired' = fired \cup {s}
  /\ hpc' = [hpc EXCEPT ![s] = "finish"]
  /\ UNCHANGED <<lists, status, requested, notices, spinning, tpc, tsub, cancelled, reported>>

Waiting == {t \in Thread : tpc[t] \in {"check wait", "fini wait"}}

Woken(t) == [tpc EXCEPT ![t] = IF @ = "check wait" THEN "check" ELSE "fini"]

Signal_Missing == UNCHANGED tpc

(* ABT_cond_signal(sub_cond): one thread that waits, if any, is woken. *)
Signal ==
  \/ Waiting = {} /\ UNCHANGED tpc
  \/ \E t \in Waiting : tpc' = Woken(t)

(* dspaces_move_sub takes a subscription out of its list, if it is there. *)
dspaces_move_sub(s) ==
  sub_lists' = [sub_lists EXCEPT ![ListOf(s)] = RemoveFirst(@, s)]

(* The last critical section of notify_rpc; odsc_tab is freed. *)
Finish(s) ==
  /\ hpc[s] = "finish"
  /\ Unlocked
  /\ pending_sub' = pending_sub - 1
  /\ dspaces_move_sub(s)
  /\ status' = [status EXCEPT ![s] = "DONE"]
  /\ hpc' = [hpc EXCEPT ![s] = "free"]
  /\ Signal
  /\ UNCHANGED <<sub_serial, requested, notices, spinning, tsub, fired, cancelled, reported>>

(* free_sub_req(subh->req), without the mutex.  Once dspaces_fini has left *)
(* its own critical section it frees the subscriptions (free_done_list):   *)
(* subh is then read after it was freed, which may do no harm or be fatal. *)
FreeReq(s) ==
  /\ hpc[s] = "free"
  /\ \/ hpc' = [hpc EXCEPT ![s] = "over"]
     \/ /\ Finalized
        /\ hpc' = [hpc EXCEPT ![s] = "fault"]
  /\ UNCHANGED <<lists, status, requested, notices, spinning, tpc, tsub, fired, cancelled,
                 reported>>

(* The handler of a subscription has left its last critical section. *)
Settled(s) == hpc[s] \in {"free", "over", "fault"}

-----------------------------------------------------------------------------
(* The handles that an application has: of requests that were sent. *)
Handle == {s \in Sub : /\ s < sub_serial
                       /\ s \in requested \cup notices \/ hpc[s] # "none" \/ spinning}

(* dspaces_cancel_sub *)
CancelSub(t, s) ==
  /\ tpc[t] = "idle"
  /\ Unlocked
  /\ InUse
  /\ s \in Handle
  /\ status[s] \in {"WAIT", "TRANSFER"}
  /\ status' = [status EXCEPT ![s] = "CANCELLED"]
  /\ cancelled' = cancelled \cup {s}
  /\ UNCHANGED <<lists, requested, notices, handlerVars, tpc, tsub, reported>>

Unsettled == {"WAIT", "TRANSFER", "RUNNING"}

(* dspaces_check_sub, up to the end of its critical section; without wait  *)
(* there is none.                                                          *)
CheckSub(t, s) ==
  /\ tpc[t] = "idle" \/ (tpc[t] = "check" /\ tsub[t] = s)
  /\ InUse
  /\ s \in Handle
  /\ tsub' = [tsub EXCEPT ![t] = s]
  /\ \/ /\ Unlocked
        /\ status[s] \in Unsettled
        /\ tpc' = [tpc EXCEPT ![t] = "check wait"]
     \/ /\ Unlocked
        /\ status[s] \notin Unsettled
        /\ tpc' = [tpc EXCEPT ![t] = "check read"]
     \/ /\ tpc[t] = "idle"
        /\ tpc' = [tpc EXCEPT ![t] = "check read"]
  /\ UNCHANGED <<lists, status, requested, notices, handlerVars, cancelled, reported>>

(* The rest of dspaces_check_sub reads the status without the mutex. *)
CheckRead(t) ==
  /\ tpc[t] = "check read"
  /\ tpc' = [tpc EXCEPT ![t] = "idle"]
  /\ tsub' = [tsub EXCEPT ![t] = 0]
  /\ reported' = reported \cup {s \in {tsub[t]} : status[s] = "DONE"}
  /\ UNCHANGED <<lists, status, requested, notices, handlerVars, cancelled>>

Fini_NoWait(t) ==
  /\ \A u \in Thread : u # t => tpc[u] = "idle"
  /\ tpc[t] \in {"idle", "fini"}
  /\ Unlocked
  /\ tpc' = [tpc EXCEPT ![t] = "finalized"]
  /\ UNCHANGED <<lists, status, requested, notices, handlerVars, tsub, cancelled, reported>>

(* dspaces_fini, which one thread calls when no other one uses the client: *)
(* it waits until no subscription is pending.                              *)
Fini(t) ==
  /\ \A u \in Thread : u # t => tpc[u] = "idle"
  /\ tpc[t] \in {"idle", "fini"}
  /\ Unlocked
  /\ tpc' = [tpc EXCEPT ![t] = IF pending_sub > 0 THEN "fini wait" ELSE "finalized"]
  /\ UNCHANGED <<lists, status, requested, notices, handlerVars, tsub, cancelled, reported>>

-----------------------------------------------------------------------------
NotifyStep(s) ==
  NotifyRpc(s) \/ SetTransfer(s) \/ DataFetched(s) \/ RunCallback(s) \/ Finish(s)
    \/ FreeReq(s)

ResumeStep(t) ==
  \/ tpc[t] = "check" /\ CheckSub(t, tsub[t])
  \/ CheckRead(t)
  \/ tpc[t] = "fini" /\ Fini(t)

SubNext ==
  \/ \E t \in Thread : DspacesSub(t) \/ Fini(t) \/ CheckRead(t)
  \/ \E t \in Thread, s \in Sub : CancelSub(t, s) \/ CheckSub(t, s)
  \/ \E s \in Sub : ServerNotifies(s)
  \/ \E s \in Sub : NotifyStep(s)

(* Notifications are handled and woken threads run on; neither the data    *)
(* nor the application has to make progress.                               *)
SubFairness ==
  /\ WF_subVars(\E s \in Sub : NotifyStep(s))
  /\ \A t \in Thread : WF_subVars(ResumeStep(t))

SubSpec == SubInit /\ [][SubNext]_subVars /\ SubFairness

-----------------------------------------------------------------------------
(* dspaces_fini goes on to free the subscriptions only when none of them   *)
(* will be notified, run its callback, change its status or be taken out   *)
(* of a list any more: each is done, whether it ran its callback or was    *)
(* cancelled.  All that a handler may still do with one is to read its     *)
(* request, in order to free it (FreeReq): for that nobody waits.          *)
QuietAfterFini ==
  Finalized =>
    /\ requested = {} /\ notices = {}
    /\ \A s \in 0 .. sub_serial - 1 : status[s] = "DONE" /\ Settled(s)

(* Each notification finds its subscription registered. *)
NotificationFindsSub ==
  \A s \in Sub :
    s \in requested \cup notices \/ (hpc[s] # "none" /\ ~ Settled(s)) =>
      s \in Range(sub_lists[ListOf(s)])

(* dspaces_check_sub: the result is "the return value of the user          *)
(* callback": DONE is reported for subscriptions that have fired.          *)
CheckedDoneFired == reported \subseteq fired

(* dspaces_cancel_sub "stops a pending subscription from being processed": *)
(* the callback of a subscription marked CANCELLED is not run.             *)
CancelledNotFired == cancelled \cap fired = {}

(* A subscription whose data has arrived is brought to an end: "when the   *)
(* object is received, the callback function will be run".                 *)
NotificationHandled == \A s \in Sub : s \in notices ~> Settled(s)

(* The threads in dspaces_check_sub or dspaces_fini for which what they    *)
(* wait for has happened.                                                  *)
Overdue ==
  {t \in Thread : \/ tpc[t] = "check wait" /\ status[tsub[t]] = "DONE"
                  \/ tpc[t] \in {"fini wait", "fini"} /\ pending_sub = 0}

(* A thread in dspaces_check_sub or dspaces_fini goes on when what it      *)
(* waits for has happened, provided that two threads never wait at a time  *)
(* (they share a condition variable, and only one of them is signalled).   *)
WaiterResumes == [](Cardinality(Waiting) <= 1) => []<>(Overdue = {})
=============================================================================
