-------------------------------- MODULE IPut --------------------------------
(***************************************************************************)
(* Asynchronous puts of a client: dspaces_iput sends a put and links its   *)
(* request into the list put_reqs, dspaces_check_put unlinks and frees it, *)
(* and dspaces_fini waits for what is left in the list.  With check set,   *)
(* dspaces_iput first walks along the list and unlinks what is complete,   *)
(* without freeing it: the application may still ask for it.               *)
(*                                                                         *)
(* The client is used by one thread, and asks for no request after the     *)
(* call that freed it.  The transport does not fail.  A request that is    *)
(* used after it was freed may still hold what it held, or be fatal: the   *)
(* client is then at "fault", and nothing more is said of it.              *)
(***************************************************************************)
EXTENDS Naturals, FiniteSets, Sequences, SequencesExt

CONSTANTS
  PutReq,         \* requests
  NoReq           \* NULL

ASSUME IPutAssumption == IsFiniteSet(PutReq) /\ NoReq \notin PutReq

VARIABLES
  put_reqs, put_reqs_end,   \* the first and the last request of the list
  next,                     \* where a request points to
  put_status,               \* of a request: new, sent, complete, finalized, freed
  put_pc,                   \* of the client: in use, fini, gone, fault
  skipped                   \* history: a walk has met two complete neighbours

putVars == <<put_reqs, put_reqs_end, next, put_status, put_pc, skipped>>

PutInit ==
  /\ put_reqs = NoReq
  /\ put_reqs_end = NoReq
  /\ next = [r \in PutReq |-> NoReq]
  /\ put_status = [r \in PutReq |-> "new"]
  /\ put_pc = "in use"
  /\ skipped = FALSE

(* The steps of a walk along the list, at most one more than there are     *)
(* requests, so that a cycle shows as a repetition.                        *)
Walk ==
  LET at[k \in 0 .. Cardinality(PutReq)] ==
        IF k = 0 THEN put_reqs
        ELSE IF at[k - 1] = NoReq THEN NoReq ELSE next[at[k - 1]]
  IN at

(* What the walk meets before it comes to NULL. *)
Chain == [k \in {k \in 1 .. Cardinality(PutReq) + 1 : Walk[k - 1] # NoReq} |-> Walk[k - 1]]

(* It comes to NULL.  On a list that runs into itself a call would walk    *)
(* for ever: there is no step of the call then.                            *)
WalkEnds == IsInjective(Chain)

-----------------------------------------------------------------------------
(* The list: its first and its last request, and next.                     *)
List == [head |-> put_reqs, end |-> put_reqs_end, next |-> next]

SetList(l) == put_reqs' = l.head /\ put_reqs_end' = l.end /\ next' = l.next

(* *ds_req_p = to, where ds_req_p is &put_reqs or the next of prev. *)
Store(l, prev, to) ==
  IF prev = NoReq THEN [l EXCEPT !.head = to] ELSE [l EXCEPT !.next[prev] = to]

Unlink_KeepsEnd(l, prev, r) == Store(l, prev, l.next[r])

(* Take r, which the walk met after prev, out of the list. *)
Unlink(l, prev, r) ==
  Store(IF l.next[r] = NoReq THEN [l EXCEPT !.end = prev] ELSE l, prev, l.next[r])

AddTail(l, r) ==
  LET tail == [l EXCEPT !.next[r] = NoReq]
  IN IF l.end = NoReq THEN [tail EXCEPT !.head = r, !.end = r]
     ELSE [tail EXCEPT !.next[l.end] = r, !.end = r]

(* The place of r in the list; that of NULL when r is not in the list:     *)
(* check_put means to refuse such a request, but tests ds_req_p, which     *)
(* never is NULL, and takes it to be the one after the last.               *)
Place(r) ==
  IF r \in Range(Chain)
  THEN CHOOSE i \in DOMAIN Chain : Chain[i] = r /\ \A j \in 1 .. i - 1 : Chain[j] # r
  ELSE Len(Chain) + 1

(* The request before r: where the search of check_put stops. *)
Prev(r) == IF Place(r) = 1 THEN NoReq ELSE Chain[Place(r) - 1]

-----------------------------------------------------------------------------
(* The put is answered (put_rpc). *)
Answer(r) ==
  /\ put_status[r] = "sent"
  /\ put_status' = [put_status EXCEPT ![r] = "complete"]
  /\ UNCHANGED <<put_reqs, put_reqs_end, next, put_pc, skipped>>

dspaces_iput(r) ==
  /\ put_pc = "in use"
  /\ put_status[r] = "new"
  /\ SetList(AddTail(List, r))
  /\ put_status' = [put_status EXCEPT ![r] = "sent"]
  /\ UNCHANGED <<put_pc, skipped>>

Complete == {r \in PutReq : put_status[r] = "complete"}

(* The walk keeps the request it has just passed as ds_req_prev, whether   *)
(* or not it has unlinked it.                                              *)
Checked ==
  LET list[i \in 0 .. Len(Chain)] ==
        IF i = 0 THEN List
        ELSE IF Chain[i] \in Complete
             THEN Unlink(list[i - 1], IF i = 1 THEN NoReq ELSE Chain[i - 1], Chain[i])
             ELSE list[i - 1]
  IN list[Len(Chain)]

(* Two requests that follow each other are complete: the walk unlinks the  *)
(* first, and the second from the first, that is not at all.               *)
Neighbours == \E i \in 2 .. Len(Chain) : Chain[i - 1] \in Complete /\ Chain[i] \in Complete

(* finalize_req, of requests that margo_test found complete. *)
finalize_req(done) == [r \in PutReq |-> IF r \in done THEN "finalized" ELSE put_status[r]]

dspaces_iput_check(r) ==
  /\ put_pc = "in use"
  /\ put_status[r] = "new"
  /\ WalkEnds
  /\ SetList(AddTail(Checked, r))
  /\ put_status' = [finalize_req(Complete \cap Range(Chain)) EXCEPT ![r] = "sent"]
  /\ skipped' = (skipped \/ Neighbours)
  /\ UNCHANGED put_pc

(* dspaces_check_put returns a request's result and frees it; one that is  *)
(* not yet finalized is first taken out of the list.                       *)
check_put(r) ==
  /\ \/ /\ put_status[r] = "finalized"
        /\ UNCHANGED <<put_reqs, put_reqs_end, next>>
     \/ /\ put_status[r] = "complete"
        /\ r \in Range(Chain) \/ WalkEnds
        /\ SetList(Unlink(List, Prev(r), r))
  /\ put_status' = [put_status EXCEPT ![r] = "freed"]
  /\ UNCHANGED <<put_pc, skipped>>

(* The application asks for a request it was given, waiting or not: when   *)
(* it does not wait and the put is not complete, nothing happens.          *)
dspaces_check_put(r) == put_pc = "in use" /\ check_put(r)

dspaces_fini ==
  /\ put_pc = "in use"
  /\ put_pc' = "fini"
  /\ UNCHANGED <<put_reqs, put_reqs_end, next, put_status, skipped>>

FiniEnd_NoLoop ==
  /\ put_pc = "fini"
  /\ put_pc' = "gone"
  /\ UNCHANGED <<put_reqs, put_reqs_end, next, put_status, skipped>>

(* The loop of dspaces_fini: check_put of the first request, waiting. *)
FiniCheck == put_pc = "fini" /\ put_reqs # NoReq /\ check_put(put_reqs)

FiniEnd ==
  /\ put_pc = "fini"
  /\ put_reqs = NoReq
  /\ put_pc' = "gone"
  /\ UNCHANGED <<put_reqs, put_reqs_end, next, put_status, skipped>>

Freed(S) == \E r \in S \cap PutReq : put_status[r] = "freed"

(* dspaces_iput walks along a freed request or links the new one behind    *)
(* it, the search of dspaces_check_put comes past one, or dspaces_fini     *)
(* checks one again, which is then freed again.                            *)
UseAfterFree ==
  /\ \/ /\ put_pc = "in use"
        /\ \E r \in PutReq : \/ /\ put_status[r] = "new"
                                /\ Freed(Range(Chain) \cup {put_reqs_end})
                             \/ /\ put_status[r] = "complete"
                                /\ Freed({Chain[i] : i \in 1 .. Place(r) - 1})
     \/ put_pc = "fini" /\ Freed({put_reqs})
  /\ put_pc' = "fault"
  /\ UNCHANGED <<put_reqs, put_reqs_end, next, put_status, skipped>>

PutNext ==
  \/ \E r \in PutReq : \/ Answer(r) \/ dspaces_iput(r) \/ dspaces_iput_check(r)
                       \/ dspaces_check_put(r)
  \/ dspaces_fini \/ FiniCheck \/ FiniEnd \/ UseAfterFree

PutSpec == PutInit /\ [][PutNext]_putVars

-----------------------------------------------------------------------------
(* Along the list dspaces_fini and dspaces_check_put meet each put that is *)
(* not finalized exactly once, and no request that was freed or finalized; *)
(* the next request is linked behind the last of them.  dspaces_check_put  *)
(* takes anything else for an error: "put req finished, but was not        *)
(* saved".                                                                 *)
PutListSound ==
  /\ IsInjective(Chain)
  /\ Range(Chain) = {r \in PutReq : put_status[r] \in {"sent", "complete"}}
  /\ put_reqs_end = IF Chain = << >> THEN NoReq ELSE Last(Chain)

(* Whatever the application puts, checks and leaves to dspaces_fini, only  *)
(* a walk of dspaces_iput over two complete neighbours can spoil the list, *)
(* and only after such a walk is a request used that was freed.            *)
PutListKept == ~ skipped => PutListSound /\ put_pc # "fault"

(* dspaces_fini returns, and the library frees what puts use, only when    *)
(* every put was answered.  That is so of a spoilt list as well: a put may *)
(* be linked where dspaces_fini does not come to, but a finalized request  *)
(* is then left in front of it, which dspaces_fini frees again and again   *)
(* and never takes out.                                                    *)
FiniAfterPuts == put_pc = "gone" => \A r \in PutReq : put_status[r] # "sent"
=============================================================================
