--------------------------- MODULE ServiceProofs ---------------------------
(***************************************************************************)
(* Proofs about services that share no state: remote execution (Exec),     *)
(* registrations (Registry), data and metadata of remote sites (RemoteData *)
(* and RemoteMeta) at a server, and a client's subscriptions (ClientSub)   *)
(* and asynchronous puts (IPut), for every number of calls, restarts,      *)
(* variables, versions, bins, sites, threads, subscriptions, lists and     *)
(* requests.                                                               *)
(***************************************************************************)
EXTENDS Exec, Registry, RemoteData, RemoteMeta, ClientSub, IPut, Loops, FiniteSetTheorems,
        SequenceTheorems

RegSpec == RegInit /\ [][RegNext]_regVars

-----------------------------------------------------------------------------
(* Remote execution. *)

HandlerAt == {"none", "route", "search", "python", "answered", "asleep", "awake", "release",
              "done"}

ExecTypeOK ==
  /\ exec_client \in [ExecCall -> {"idle", "waiting", "pulling", "done", "failed"}]
  /\ exec_pc \in [ExecCall -> HandlerAt]
  /\ answer \in [ExecCall -> {"none", "empty", "garbage", "result"}]
  /\ cond_pc \in [ExecCall -> {"none", "sent", "locked", "signalled", "done"}]
  /\ mtx \in [ExecCall -> {"none", "handler", "nobody", "cond", "freed"}]
  /\ target \in [ExecCall -> ExecCall \cup {NoCall}]

(* The handler answers once, after it has run the function. *)
AnswersOnce(c) ==
  exec_pc[c] \in {"none", "route", "search", "python"} => answer[c] = "none"

(* Without a result nobody uses the mutex. *)
NoResultNoMutex(c) ==
  answer[c] # "result" => /\ cond_pc[c] = "none"
                          /\ exec_pc[c] \notin {"answered", "asleep", "awake"}

(* The handler holds the mutex from its answer until it sleeps. *)
HandlerHolds(c) ==
  /\ answer[c] = "result" => mtx[c] # "none"
  /\ mtx[c] = "handler" <=> exec_pc[c] = "answered"
  /\ mtx[c] = "nobody" => exec_pc[c] \in {"asleep", "awake"}

(* The handler is woken by the one cond_rpc of its call. *)
WokenOnce(c) ==
  /\ exec_client[c] = "pulling" => cond_pc[c] = "none" /\ answer[c] \in {"result", "garbage"}
  /\ cond_pc[c] # "none" => exec_client[c] = "done"
  /\ cond_pc[c] \in {"none", "sent"} => exec_pc[c] # "awake" /\ mtx[c] \notin {"cond", "freed"}
  /\ cond_pc[c] = "locked" => mtx[c] = "cond" /\ exec_pc[c] = "asleep" /\ target[c] = c
  /\ cond_pc[c] = "signalled" => mtx[c] = "cond" /\ exec_pc[c] = "awake" /\ target[c] = c

ExecInvOf(c) == NoResultNoMutex(c) /\ HandlerHolds(c) /\ WokenOnce(c)

(* All but the single answer is lost once a stray cond_rpc has been sent.  *)
ExecInv ==
  /\ ExecTypeOK
  /\ \A c \in ExecCall : AnswersOnce(c)
  /\ Strays = {} => \A c \in ExecCall : ExecInvOf(c)

(* Unless a client has sent back addresses out of an answer that pexec_rpc *)
(* did not initialise, the handler of the call sleeps on the condition     *)
(* when cond_rpc signals: the signal is never given before the handler     *)
(* waits for it, when it would be lost and the handler would sleep forever *)
(* (cond_rpc, pexec_rpc).                                                  *)
SignalFindsSleeper ==
  Strays = {} =>
    \A c \in ExecCall : cond_pc[c] = "locked" => target[c] = c /\ exec_pc[c] = "asleep"

(* A step of one call leaves the invariant of the others alone. *)
LEMMA OtherCalls ==
  ASSUME \A c \in ExecCall : ExecInvOf(c), NEW c \in ExecCall, ExecInvOf(c)',
         \A b \in ExecCall : b # c => /\ exec_client'[b] = exec_client[b]
                                      /\ exec_pc'[b] = exec_pc[b]
                                      /\ answer'[b] = answer[b]
                                      /\ cond_pc'[b] = cond_pc[b]
                                      /\ mtx'[b] = mtx[b]
                                      /\ target'[b] = target[b]
  PROVE  \A b \in ExecCall : ExecInvOf(b)'
<1>1. ASSUME NEW b \in ExecCall, b # c
      PROVE  ExecInvOf(b)'
  BY <1>1 DEF ExecInvOf, NoResultNoMutex, HandlerHolds, WokenOnce
<1> QED
  BY <1>1

(* Every step keeps the types. *)
LEMMA ExecTypeStep ==
  ASSUME ExecTypeOK, NEW c \in ExecCall, ClientStep(c) \/ Call(c) \/ ServerStep(c) \/ CondStep(c)
  PROVE  ExecTypeOK'
<1> USE DEF ExecTypeOK, HandlerAt, To
<1>1. CASE ClientStep(c) \/ Call(c)
  BY <1>1 DEF ClientStep, Call, GetOutput, Pull, PullFails
<1>2. CASE ReceiveCall(c) \/ route_request(c) \/ FindArgument(c) \/ MissArgument(c)
  BY <1>2 DEF ReceiveCall, route_request, FindArgument, MissArgument
<1>3. CASE BadFunction(c) \/ AnswerFaults(c) \/ NoResult(c) \/ Result(c)
  BY <1>3 DEF BadFunction, AnswerFaults, NoResult, Result
<1>4. CASE CondWait(c) \/ Wake(c) \/ Release(c)
  BY <1>4 DEF CondWait, Wake, Release
<1>5. CASE CondLock(c)
  BY <1>5 DEF CondLock, Alive
<1>6. CASE CondAstray(c) \/ CondUnlock(c)
  BY <1>6 DEF CondAstray, CondUnlock
<1>7. CASE CondSignal(c)
  BY <1>7 DEF CondSignal
<1> QED
  BY <1>1, <1>2, <1>3, <1>4, <1>5, <1>6, <1>7 DEF ServerStep, CondStep

(* A handler that has answered does so no more, and a stray request is     *)
(* never taken back.                                                       *)
LEMMA AnswersOnceStep ==
  ASSUME ExecTypeOK, \A c \in ExecCall : AnswersOnce(c),
         NEW c \in ExecCall, ClientStep(c) \/ Call(c) \/ ServerStep(c) \/ CondStep(c)
  PROVE  /\ \A b \in ExecCall : AnswersOnce(b)'
         /\ Strays \subseteq Strays'
<1> USE DEF ExecTypeOK, AnswersOnce, Strays, HandlerAt, To
<1>1. CASE ClientStep(c) \/ Call(c)
  BY <1>1 DEF ClientStep, Call, GetOutput, Pull, PullFails
<1>2. CASE ReceiveCall(c) \/ route_request(c) \/ FindArgument(c) \/ MissArgument(c)
  BY <1>2 DEF ReceiveCall, route_request, FindArgument, MissArgument
<1>3. CASE BadFunction(c) \/ AnswerFaults(c) \/ NoResult(c) \/ Result(c)
  BY <1>3 DEF BadFunction, AnswerFaults, NoResult, Result
<1>4. CASE CondWait(c) \/ Wake(c) \/ Release(c)
  BY <1>4 DEF CondWait, Wake, Release
<1>5. CASE CondLock(c) \/ CondAstray(c) \/ CondUnlock(c)
  BY <1>5 DEF CondLock, CondAstray, CondUnlock
<1>6. CASE CondSignal(c)
  BY <1>6 DEF CondSignal
<1> QED
  BY <1>1, <1>2, <1>3, <1>4, <1>5, <1>6 DEF ServerStep, CondStep

(* As long as there is no stray request, every step keeps the invariant of *)
(* its call.                                                               *)
LEMMA ExecStepInv ==
  ASSUME ExecTypeOK, \A b \in ExecCall : AnswersOnce(b) /\ ExecInvOf(b), Strays' = {},
         NEW c \in ExecCall, ClientStep(c) \/ Call(c) \/ ServerStep(c) \/ CondStep(c)
  PROVE  \A b \in ExecCall : ExecInvOf(b)'
<1> USE DEF HandlerAt, To, ExecTypeOK, ExecInvOf, AnswersOnce, NoResultNoMutex, HandlerHolds,
            WokenOnce
<1>1. CASE Call(c)
  BY <1>1, OtherCalls DEF Call
<1>2. CASE ReceiveCall(c)
  BY <1>2, OtherCalls DEF ReceiveCall
<1>3. CASE route_request(c)
  BY <1>3, OtherCalls DEF route_request
<1>4. CASE FindArgument(c)
  BY <1>4, OtherCalls DEF FindArgument
<1>5. CASE MissArgument(c)
  BY <1>5, OtherCalls DEF MissArgument
<1>6. CASE BadFunction(c) \/ AnswerFaults(c)
  BY <1>6, OtherCalls DEF BadFunction, AnswerFaults
<1>7. CASE NoResult(c)
  BY <1>7, OtherCalls DEF NoResult
<1>8. CASE Result(c)
  BY <1>8, OtherCalls DEF Result
<1>9. CASE CondWait(c)
  BY <1>9, OtherCalls DEF CondWait
<1>10. CASE Wake(c)
  BY <1>10, OtherCalls DEF Wake
<1>11. CASE Release(c)
  BY <1>11, OtherCalls DEF Release
<1>12. CASE CondLock(c)
  <2>1. NamesItsOwn(c)
    BY <1>12 DEF CondLock, NamesItsOwn, Alive
  <2> QED
    BY <1>12, <2>1, OtherCalls DEF CondLock
<1>13. CASE CondAstray(c)
  BY <1>13 DEF CondAstray, NamesItsOwn, Alive
<1>14. CASE CondSignal(c)
  BY <1>14, OtherCalls DEF CondSignal
<1>15. CASE CondUnlock(c)
  BY <1>15, OtherCalls DEF CondUnlock
<1>16. CASE GetOutput(c)
  BY <1>16, OtherCalls DEF GetOutput
<1>17. CASE Pull(c)
  <2>1. answer[c] = "result"
    BY <1>17 DEF Pull, Strays
  <2> QED
    BY <1>17, <2>1, OtherCalls DEF Pull
<1>18. CASE PullFails(c)
  BY <1>18, OtherCalls DEF PullFails
<1> QED
  BY <1>1, <1>2, <1>3, <1>4, <1>5, <1>6, <1>7, <1>8, <1>9, <1>10, <1>11, <1>12, <1>13, <1>14,
     <1>15, <1>16, <1>17, <1>18 DEF ServerStep, CondStep, ClientStep

(* The inductive invariant of remote execution holds in every state.       *)
THEOREM ExecInvariant ==
  ExecSpec => []ExecInv
<1>1. ExecInit => ExecInv
  BY DEF ExecInit, ExecInv, ExecTypeOK, HandlerAt, ExecInvOf, AnswersOnce, NoResultNoMutex,
         HandlerHolds, WokenOnce
<1>2. ExecInv /\ [ExecNext]_execVars => ExecInv'
  <2> SUFFICES ASSUME ExecInv, [ExecNext]_execVars
               PROVE  ExecInv'
    OBVIOUS
  <2>1. CASE UNCHANGED <<exec_client, exec_pc, answer, cond_pc, mtx, target>>
    BY <2>1 DEF ExecInv, ExecTypeOK, Strays, ExecInvOf, AnswersOnce, NoResultNoMutex,
                HandlerHolds, WokenOnce
  <2>2. ASSUME NEW o \in Argument, PutArgument(o)
        PROVE  ExecInv'
    BY <2>1, <2>2 DEF PutArgument
  <2>3. ASSUME NEW c \in ExecCall, ClientStep(c) \/ Call(c) \/ ServerStep(c) \/ CondStep(c)
        PROVE  ExecInv'
    <3>1. /\ ExecTypeOK' /\ Strays \subseteq Strays'
          /\ \A b \in ExecCall : AnswersOnce(b)'
      BY <2>3, ExecTypeStep, AnswersOnceStep DEF ExecInv
    <3>2. Strays' = {} => \A b \in ExecCall : ExecInvOf(b)'
      BY <2>3, <3>1, ExecStepInv DEF ExecInv
    <3> QED
      BY <3>1, <3>2 DEF ExecInv
  <2> QED
    BY <2>1, <2>2, <2>3 DEF ExecNext, execVars
<1> QED
  BY <1>1, <1>2, PTL DEF ExecSpec

(* Until a client sends back addresses out of an uninitialised answer, the *)
(* mutex and the condition that cond_rpc is sent are those of its own      *)
(* call, and alive until it has unlocked the mutex (cond_rpc, pexec_rpc,   *)
(* mpexec_rpc).                                                            *)
THEOREM CondTargetsStayAlive ==
  ExecSpec => []CondTargetsAlive
<1>1. ExecInv => CondTargetsAlive
  BY DEF ExecInv, ExecInvOf, NoResultNoMutex, HandlerHolds, WokenOnce, CondTargetsAlive, Alive
<1> QED
  BY <1>1, ExecInvariant, PTL

(* Until then no signal is lost: cond_rpc finds its handler asleep         *)
(* (cond_rpc).                                                             *)
THEOREM SignalsFindSleepers ==
  ExecSpec => []SignalFindsSleeper
<1>1. ExecInv => SignalFindsSleeper
  BY DEF ExecInv, ExecInvOf, WokenOnce, SignalFindsSleeper
<1> QED
  BY <1>1, ExecInvariant, PTL

-----------------------------------------------------------------------------
(* Registrations. *)

InFlight == {"add", "new type", "type", "validate", "insert"}

RegAt == InFlight \cup {"idle", "asked", "done", "error", "lost"}

TypeName == {RegType[c] : c \in RegCall}

Row == [id : Nat, type : Nat, name : {RegName[c] : c \in RegCall}]

RegTypeOK ==
  /\ local_reg_id \in Nat
  /\ reg_pc \in [RegCall -> RegAt]
  /\ reg_id \in [RegCall -> Nat]
  /\ type_row \in [RegCall -> Nat]
  /\ type_tab \in Seq(TypeName)
  /\ registry \subseteq Row
  /\ txn \in RegCall \cup {NoReg}

(* The rows have ids that were given out and types that are committed.     *)
RowsBacked ==
  \A r \in registry : r.id < local_reg_id /\ r.type \in 1 .. Len(type_tab)

(* The ids of the calls in flight are their own: no row has them. *)
IdsFresh ==
  \A c \in RegCall : reg_pc[c] \in InFlight =>
    /\ reg_id[c] < local_reg_id
    /\ \A r \in registry : r.id # reg_id[c]
    /\ \A b \in RegCall : b # c /\ reg_pc[b] \in InFlight => reg_id[b] # reg_id[c]

(* A call that has its type's row has it from the table or is about to     *)
(* commit it.                                                              *)
TypeRowExact ==
  \A c \in RegCall : reg_pc[c] \in {"validate", "insert"} =>
    IF txn = c THEN type_row[c] = Len(type_tab) + 1
    ELSE type_row[c] \in 1 .. Len(type_tab) /\ type_tab[type_row[c]] = RegType[c]

(* Only a call that is about to insert has a transaction. *)
TxnInFlight == txn # NoReg => reg_pc[txn] \in {"validate", "insert"}

RegInv ==
  /\ RegTypeOK /\ RowsBacked /\ IdsFresh /\ TypeRowExact /\ TxnInFlight
  /\ RegisteredIdExact

(* The numbers among the variables. *)
LEMMA RegNumbers ==
  ASSUME RegTypeOK
  PROVE  /\ local_reg_id \in Nat /\ Len(type_tab) \in Nat
         /\ \A c \in RegCall : reg_id[c] \in Nat /\ type_row[c] \in Nat
         /\ \A r \in registry : r.id \in Nat /\ r.type \in Nat
BY DEF RegTypeOK, Row

(* A non-empty set of ids that is bounded has a greatest one.              *)
LEMMA GreatestId ==
  ASSUME NEW n \in Nat, NEW M, M \subseteq Nat, \A i \in M : i < n, M # {}
  PROVE  \E i \in M : \A j \in M : j <= i
<1> DEFINE T == {k \in Nat : n - k \in M}
<1>1. \A i \in M : n - i \in T
  <2> TAKE i \in M
  <2>1. i \in Nat /\ i < n
    OBVIOUS
  <2>2. n - i \in Nat /\ n - (n - i) = i
    BY <2>1
  <2> QED
    BY <2>2
<1>2. T \subseteq Nat /\ T # {}
  BY <1>1
<1>3. PICK x \in T : \A y \in T : ~ (<<y, x>> \in OpToRel(<, Nat))
  BY <1>2, NatLessThanWellFounded, WFMin
<1>4. \A y \in T : ~ (y < x)
  BY <1>3 DEF OpToRel
<1>5. n - x \in M /\ x \in Nat
  BY <1>3
<1>6. ASSUME NEW j \in M
      PROVE  j <= n - x
  <2>1. ~ (n - j < x) /\ j \in Nat
    BY <1>1, <1>4
  <2> QED
    BY <1>5, <2>1
<1> QED
  BY <1>5, <1>6

(* After a restart the next id is above those of all rows. *)
LEMMA BootstrapAbove ==
  ASSUME RegTypeOK, RowsBacked
  PROVE  bootstrap_id \in Nat /\ \A r \in registry : r.id < bootstrap_id
<1>1. Ids \subseteq Nat /\ \A i \in Ids : i < local_reg_id
  BY DEF Ids, RegTypeOK, RowsBacked, Row
<1>2. CASE Ids = {}
  <2>1. HighestID = 0 /\ registry = {}
    BY <1>2 DEF HighestID, Ids
  <2> QED
    BY <2>1 DEF bootstrap_id
<1>3. CASE Ids # {}
  <2>1. HighestID \in Ids /\ \A j \in Ids : j <= HighestID
    <3>1. \E i \in Ids : \A j \in Ids : j <= i
      BY <1>1, <1>3, GreatestId DEF RegTypeOK
    <3> QED
      BY <1>3, <3>1 DEF HighestID
  <2>2. \A r \in registry : r.id \in Ids
    BY DEF Ids
  <2> HIDE DEF Ids
  <2>3. HighestID \in Nat
    BY <1>1, <2>1
  <2>4. \A i \in Ids : i < HighestID + 1
    BY <1>1, <2>1, <2>3
  <2> QED
    BY <2>2, <2>3, <2>4 DEF bootstrap_id
<1> QED
  BY <1>2, <1>3

(* A step of a call in flight that keeps its id, the tables and the        *)
(* transactions of the others; it ends, if at all, without a row.          *)
LEMMA CallStep ==
  ASSUME RegInv, NEW c \in RegCall, RegTypeOK',
         UNCHANGED <<local_reg_id, reg_id, type_tab, registry, overtaken>>,
         reg_pc[c] \in InFlight \/ reg_pc'[c] \notin InFlight, reg_pc'[c] # "done",
         \A b \in RegCall : b # c => /\ reg_pc'[b] = reg_pc[b] /\ type_row'[b] = type_row[b]
                                     /\ txn' = b <=> txn = b,
         reg_pc'[c] \in {"validate", "insert"} =>
           IF txn' = c THEN type_row'[c] = Len(type_tab) + 1
           ELSE type_row'[c] \in 1 .. Len(type_tab) /\ type_tab[type_row'[c]] = RegType[c],
         txn' = c => reg_pc'[c] \in {"validate", "insert"}
  PROVE  RegInv'
<1> USE DEF RegInv
<1>1. RowsBacked'
  BY DEF RowsBacked
<1>2. IdsFresh'
  BY DEF IdsFresh
<1>3. TypeRowExact'
  BY DEF TypeRowExact
<1>4. TxnInFlight'
  BY RegistryAssumption DEF TxnInFlight, RegTypeOK
<1>5. RegisteredIdExact'
  BY DEF RegisteredIdExact
<1> QED
  BY <1>1, <1>2, <1>3, <1>4, <1>5

(* Registry.Add up to its SELECT. *)
LEMMA AddSteps ==
  ASSUME RegInv, NEW c \in RegCall,
         Register(c) \/ AddStart(c) \/ InsertType(c) \/ SelectType(c) \/ Reject(c)
  PROVE  RegInv'
<1> USE DEF RegInv, Goto, InFlight
<1>0. /\ \A at \in RegAt : [reg_pc EXCEPT ![c] = at] \in [RegCall -> RegAt]
      /\ InFlight \cup {"asked", "error", "done"} \subseteq RegAt
      /\ Len(type_tab) \in Nat
  <2>1. \A at \in RegAt : [reg_pc EXCEPT ![c] = at] \in [RegCall -> RegAt]
    BY DEF RegTypeOK
  <2>2. InFlight \cup {"asked", "error", "done"} \subseteq RegAt
    BY DEF RegAt
  <2> QED
    BY <2>1, <2>2, RegNumbers
<1>1. CASE Register(c)
  <2>1. RegTypeOK'
    BY <1>0, <1>1 DEF Register, RegTypeOK
  <2> QED
    BY <1>1, <2>1, CallStep, RegistryAssumption DEF Register, RegTypeOK, TxnInFlight
<1>2. CASE AddStart(c)
  <2>1. RegTypeOK'
    BY <1>0, <1>2 DEF AddStart, RegTypeOK
  <2> QED
    BY <1>2, <2>1, CallStep, RegistryAssumption DEF AddStart, RegTypeOK, TxnInFlight
<1>3. CASE InsertType(c)
  <2>1. RegTypeOK'
    <3>1. reg_pc' \in [RegCall -> RegAt]
      BY <1>0, <1>3 DEF InsertType
    <3>2. type_row' \in [RegCall -> Nat]
      <4>1. Len(type_tab) + 1 \in Nat
        BY RegNumbers
      <4>2. type_row' = [type_row EXCEPT ![c] = Len(type_tab) + 1]
        BY <1>3 DEF InsertType
      <4>3. type_row \in [RegCall -> Nat]
        BY DEF RegTypeOK
      <4> QED
        BY <4>1, <4>2, <4>3
    <3> QED
      BY <1>3, <3>1, <3>2 DEF InsertType, RegTypeOK
  <2> QED
    BY <1>3, <2>1, CallStep, RegistryAssumption DEF InsertType, RegTypeOK
<1>4. CASE SelectType(c)
  <2> DEFINE rows == {i \in DOMAIN type_tab : type_tab[i] = RegType[c]}
  <2>1. txn # c
    BY <1>4, RegistryAssumption DEF SelectType, TxnInFlight
  <2>2. CASE rows = {}
    <3>1. Goto(c, "error") /\ UNCHANGED type_row
      BY <1>4, <2>2 DEF SelectType
    <3>2. RegTypeOK'
      BY <1>0, <1>4, <3>1 DEF SelectType, RegTypeOK
    <3> QED
      BY <1>4, <2>1, <3>1, <3>2, CallStep DEF SelectType, RegTypeOK
  <2>3. CASE rows # {}
    <3> DEFINE i == CHOOSE k \in rows : \A j \in rows : k <= j
    <3>1. type_row' = [type_row EXCEPT ![c] = i] /\ Goto(c, "validate")
      BY <1>4, <2>3 DEF SelectType
    <3>2. rows \subseteq 1 .. Len(type_tab) /\ rows \subseteq Nat
      BY DEF RegTypeOK
    <3>3. i \in rows
      <4>1. PICK x \in rows : \A y \in rows : ~ (<<y, x>> \in OpToRel(<, Nat))
        BY <2>3, <3>2, NatLessThanWellFounded, WFMin
      <4>2. \A y \in rows : ~ (y < x)
        BY <3>2, <4>1 DEF OpToRel
      <4>3. \A y \in rows : x <= y
        BY <3>2, <4>2
      <4> QED
        BY <4>3
    <3> HIDE DEF i
    <3>4. i \in 1 .. Len(type_tab) /\ i \in Nat /\ type_tab[i] = RegType[c]
      BY <3>2, <3>3
    <3>5. RegTypeOK'
      BY <1>0, <1>4, <3>1, <3>4 DEF SelectType, RegTypeOK
    <3> QED
      BY <1>4, <2>1, <3>1, <3>4, <3>5, CallStep DEF SelectType, RegTypeOK
  <2> QED
    BY <2>2, <2>3
<1>5. CASE Reject(c)
  <2>1. /\ reg_pc[c] = "validate" /\ reg_pc' = [reg_pc EXCEPT ![c] = "error"]
        /\ txn' = IF txn = c THEN NoReg ELSE txn
        /\ UNCHANGED <<local_reg_id, reg_id, type_row, type_tab, registry, overtaken>>
    BY <1>5 DEF Reject
  <2>2. /\ txn' \in RegCall \cup {NoReg} /\ txn' # c
        /\ \A b \in RegCall : b # c => (txn' = b <=> txn = b)
    BY <2>1, RegistryAssumption DEF RegTypeOK
  <2>3. RegTypeOK'
    <3>1. reg_pc' \in [RegCall -> RegAt]
      BY <1>0, <2>1
    <3> QED
      BY <2>1, <2>2, <3>1 DEF RegTypeOK
  <2>4. /\ reg_pc'[c] = "error"
        /\ \A b \in RegCall : b # c => reg_pc'[b] = reg_pc[b]
    BY <2>1 DEF RegTypeOK
  <2> QED
    BY <2>1, <2>2, <2>3, <2>4, CallStep
<1> QED
  BY <1>1, <1>2, <1>3, <1>4, <1>5

(* reg_rpc gives an id that nobody has. *)
LEMMA RegRpcInv ==
  ASSUME RegInv, NEW c \in RegCall, reg_rpc(c)
  PROVE  RegInv'
<1> USE DEF RegInv, Goto, InFlight
<1>1. /\ reg_pc[c] = "asked" /\ reg_id' = [reg_id EXCEPT ![c] = local_reg_id]
      /\ local_reg_id' = local_reg_id + 1
      /\ \E at \in {"add", "error"} : reg_pc' = [reg_pc EXCEPT ![c] = at]
      /\ UNCHANGED <<type_row, type_tab, registry, txn, overtaken>>
  BY DEF reg_rpc, route_registration
<1>2. RegTypeOK'
  <2>1. reg_pc' \in [RegCall -> RegAt]
    BY <1>1 DEF RegTypeOK, RegAt
  <2>2. reg_id' \in [RegCall -> Nat] /\ local_reg_id' \in Nat
    BY <1>1 DEF RegTypeOK
  <2> QED
    BY <1>1, <2>1, <2>2 DEF RegTypeOK
<1>3. /\ reg_id'[c] = local_reg_id /\ reg_pc'[c] \in {"add", "error"}
      /\ \A b \in RegCall : b # c => reg_id'[b] = reg_id[b] /\ reg_pc'[b] = reg_pc[b]
  BY <1>1 DEF RegTypeOK
<1>4. RowsBacked'
  BY <1>1, RegNumbers DEF RowsBacked
<1>5. IdsFresh'
  <2>1. ASSUME NEW b \in RegCall, b # c, reg_pc[b] \in InFlight
        PROVE  reg_id[b] < local_reg_id + 1 /\ reg_id[b] # local_reg_id
    <3>1. reg_id[b] < local_reg_id
      BY <2>1 DEF IdsFresh
    <3> QED
      BY <3>1, RegNumbers
  <2>2. \A r \in registry : r.id # local_reg_id
    BY RegNumbers DEF RowsBacked
  <2>3. local_reg_id < local_reg_id + 1
    BY RegNumbers
  <2> SUFFICES ASSUME NEW b \in RegCall, reg_pc'[b] \in InFlight
               PROVE  /\ reg_id'[b] < local_reg_id'
                      /\ \A r \in registry : r.id # reg_id'[b]
                      /\ \A a \in RegCall :
                           a # b /\ reg_pc'[a] \in InFlight => reg_id'[a] # reg_id'[b]
    BY <1>1 DEF IdsFresh
  <2>4. CASE b = c
    BY <1>1, <1>3, <2>1, <2>2, <2>3, <2>4
  <2>5. CASE b # c
    <3>1. reg_pc[b] \in InFlight /\ reg_id'[b] = reg_id[b]
      BY <1>3, <2>5
    <3>2. reg_id'[b] < local_reg_id' /\ \A r \in registry : r.id # reg_id'[b]
      BY <1>1, <2>1, <2>5, <3>1 DEF IdsFresh
    <3>3. ASSUME NEW a \in RegCall, a # b, reg_pc'[a] \in InFlight
          PROVE  reg_id'[a] # reg_id'[b]
      <4>1. CASE a = c
        BY <1>3, <2>1, <2>5, <3>1, <4>1
      <4>2. CASE a # c
        <5>1. reg_pc[a] \in InFlight /\ reg_id'[a] = reg_id[a]
          BY <1>3, <3>3, <4>2
        <5> QED
          BY <3>1, <3>3, <5>1 DEF IdsFresh
      <4> QED
        BY <4>1, <4>2
    <3> QED
      BY <3>2, <3>3
  <2> QED
    BY <2>4, <2>5
<1>6. TypeRowExact'
  BY <1>1, <1>3 DEF TypeRowExact
<1>7. TxnInFlight'
  BY <1>1, <1>3, RegistryAssumption DEF TxnInFlight, RegTypeOK
<1>8. RegisteredIdExact'
  BY <1>1, <1>3 DEF RegisteredIdExact
<1> QED
  BY <1>2, <1>4, <1>5, <1>6, <1>7, <1>8

(* SELECT id FROM registry: a row that is there is one of the call's type  *)
(* and name, and the call has no transaction.                              *)
LEMMA SelectRowInv ==
  ASSUME RegInv, NEW c \in RegCall, SelectRow(c)
  PROVE  RegInv'
<1> USE DEF RegInv, Goto, InFlight
<1>1. CASE Rows(c) = {}
  <2>1. reg_pc[c] = "validate" /\ reg_pc' = [reg_pc EXCEPT ![c] = "insert"]
        /\ UNCHANGED <<local_reg_id, reg_id, type_row, type_tab, registry, txn, overtaken>>
    BY <1>1 DEF SelectRow
  <2>2. RegTypeOK'
    BY <2>1 DEF RegTypeOK, RegAt
  <2>3. /\ reg_pc'[c] = "insert"
        /\ \A b \in RegCall : b # c => reg_pc'[b] = reg_pc[b]
    BY <2>1 DEF RegTypeOK
  <2> QED
    BY <2>1, <2>2, <2>3, CallStep DEF TypeRowExact
<1>2. CASE Rows(c) # {}
  <2> DEFINE r == CHOOSE x \in Rows(c) : TRUE
  <2>1. /\ reg_pc[c] = "validate" /\ reg_pc' = [reg_pc EXCEPT ![c] = "done"]
        /\ reg_id' = [reg_id EXCEPT ![c] = r.id]
        /\ UNCHANGED <<local_reg_id, type_row, type_tab, registry, txn, overtaken>>
    BY <1>2 DEF SelectRow
  <2>2. r \in registry /\ r.type = type_row[c] /\ r.name = RegName[c]
    BY <1>2 DEF Rows
  <2> HIDE DEF r
  <2>3. r.type \in 1 .. Len(type_tab) /\ r.id \in Nat /\ Len(type_tab) \in Nat
    BY <2>2, RegNumbers DEF RowsBacked
  <2>4. txn # c
    BY <2>1, <2>2, <2>3 DEF TypeRowExact
  <2>5. type_tab[r.type] = RegType[c]
    BY <2>1, <2>2, <2>4 DEF TypeRowExact
  <2>6. RegTypeOK'
    BY <2>1, <2>3 DEF RegTypeOK, RegAt
  <2>7. /\ reg_id'[c] = r.id /\ reg_pc'[c] = "done"
        /\ \A b \in RegCall : b # c => reg_id'[b] = reg_id[b] /\ reg_pc'[b] = reg_pc[b]
    BY <2>1 DEF RegTypeOK
  <2>8. RowsBacked'
    BY <2>1 DEF RowsBacked
  <2>11. IdsFresh'
    <3> SUFFICES ASSUME NEW b \in RegCall, reg_pc'[b] \in InFlight
                 PROVE  /\ reg_id'[b] < local_reg_id
                        /\ \A x \in registry : x.id # reg_id'[b]
                        /\ \A a \in RegCall :
                             a # b /\ reg_pc'[a] \in InFlight => reg_id'[a] # reg_id'[b]
      BY <2>1 DEF IdsFresh
    <3>1. b # c /\ reg_pc[b] \in InFlight /\ reg_id'[b] = reg_id[b]
      BY <2>7
    <3>2. ASSUME NEW a \in RegCall, a # b, reg_pc'[a] \in InFlight
          PROVE  reg_pc[a] \in InFlight /\ reg_id'[a] = reg_id[a]
      BY <2>7, <3>2
    <3> QED
      BY <3>1, <3>2 DEF IdsFresh
  <2>9. TypeRowExact' /\ TxnInFlight'
    BY <2>1, <2>4, <2>7, RegistryAssumption DEF TypeRowExact, TxnInFlight, RegTypeOK
  <2>10. RegisteredIdExact'
    BY <2>1, <2>2, <2>5, <2>7 DEF RegisteredIdExact
  <2> QED
    BY <2>6, <2>8, <2>9, <2>10, <2>11
<1> QED
  BY <1>1, <1>2

(* INSERT INTO registry, and the commit: the row is there from now on, or  *)
(* another call was faster.                                                *)
LEMMA InsertRowInv ==
  ASSUME RegInv, NEW c \in RegCall, InsertRow(c)
  PROVE  RegInv'
<1> USE DEF RegInv, Goto, InFlight
<1> DEFINE row == [id |-> reg_id[c], type |-> type_row[c], name |-> RegName[c]]
<1>1. /\ reg_pc[c] = "insert" /\ reg_pc' = [reg_pc EXCEPT ![c] = "done"]
      /\ txn \in {NoReg, c} /\ txn' = NoReg
      /\ registry' = IF Rows(c) # {} \/ reg_id[c] \in Ids THEN registry ELSE registry \cup {row}
      /\ overtaken' = IF Rows(c) # {} THEN overtaken \cup {c} ELSE overtaken
      /\ type_tab' = IF txn = c THEN Append(type_tab, RegType[c]) ELSE type_tab
      /\ UNCHANGED <<local_reg_id, reg_id, type_row>>
  BY DEF InsertRow
<1>2. reg_id[c] \notin Ids /\ reg_id[c] < local_reg_id
  BY <1>1 DEF IdsFresh, Ids
<1>3. type_tab \in Seq(TypeName) /\ Len(type_tab) \in Nat /\ RegType[c] \in TypeName
  BY DEF RegTypeOK, TypeName
<1>13. row \in Row
  BY RegNumbers DEF Row
<1>4. /\ reg_pc'[c] = "done"
      /\ \A b \in RegCall : b # c => reg_pc'[b] = reg_pc[b]
  BY <1>1 DEF RegTypeOK
<1>5. /\ type_tab' \in Seq(TypeName) /\ Len(type_tab') \in Nat /\ Len(type_tab) <= Len(type_tab')
      /\ \A i \in 1 .. Len(type_tab) : type_tab'[i] = type_tab[i]
      /\ type_row[c] \in 1 .. Len(type_tab') /\ type_tab'[type_row[c]] = RegType[c]
  <2>1. CASE txn = c
    <3>1. type_row[c] = Len(type_tab) + 1
      BY <1>1, <2>1 DEF TypeRowExact
    <3>2. /\ type_tab' \in Seq(TypeName) /\ Len(type_tab') = Len(type_tab) + 1
          /\ \A i \in 1 .. Len(type_tab) : type_tab'[i] = type_tab[i]
          /\ type_tab'[Len(type_tab) + 1] = RegType[c]
      BY <1>1, <1>3, <2>1, AppendProperties
    <3> QED
      BY <1>3, <3>1, <3>2
  <2>2. CASE txn # c
    BY <1>1, <1>3, <2>2 DEF TypeRowExact
  <2> QED
    BY <2>1, <2>2
<1>6. registry \subseteq registry' /\ registry' \subseteq registry \cup {row}
  BY <1>1
<1>7. RegTypeOK'
  <2>1. reg_pc' \in [RegCall -> RegAt]
    BY <1>1 DEF RegTypeOK, RegAt
  <2>2. registry' \subseteq Row
    BY <1>6, <1>13 DEF RegTypeOK
  <2> QED
    BY <1>1, <1>5, <2>1, <2>2 DEF RegTypeOK
<1>8. RowsBacked'
  <2> SUFFICES ASSUME NEW r \in registry \cup {row}
               PROVE  r.id < local_reg_id /\ r.type \in 1 .. Len(type_tab')
    BY <1>1, <1>6 DEF RowsBacked
  <2>1. \A i \in 1 .. Len(type_tab) : i \in 1 .. Len(type_tab')
    BY <1>3, <1>5
  <2>2. CASE r \in registry
    BY <2>1, <2>2 DEF RowsBacked
  <2>3. CASE r = row
    BY <1>2, <1>5, <2>3
  <2> QED
    BY <2>2, <2>3
<1>9. IdsFresh'
  <2> SUFFICES ASSUME NEW b \in RegCall, reg_pc'[b] \in InFlight
               PROVE  /\ reg_id[b] < local_reg_id
                      /\ \A r \in registry \cup {row} : r.id # reg_id[b]
                      /\ \A a \in RegCall :
                           a # b /\ reg_pc'[a] \in InFlight => reg_id[a] # reg_id[b]
    BY <1>1, <1>6 DEF IdsFresh
  <2>1. b # c /\ reg_pc[b] \in InFlight
    BY <1>4
  <2>2. \A a \in RegCall : reg_pc'[a] \in InFlight => reg_pc[a] \in InFlight
    BY <1>4
  <2>3. row.id # reg_id[b]
    BY <1>1, <2>1 DEF IdsFresh
  <2> QED
    BY <2>1, <2>2, <2>3 DEF IdsFresh
<1>10. TypeRowExact'
  <2> SUFFICES ASSUME NEW b \in RegCall, reg_pc'[b] \in {"validate", "insert"}
               PROVE  /\ type_row[b] \in 1 .. Len(type_tab')
                      /\ type_tab'[type_row[b]] = RegType[b]
    BY <1>1, RegistryAssumption DEF TypeRowExact
  <2>1. b # c /\ reg_pc[b] \in {"validate", "insert"} /\ txn # b
    BY <1>1, <1>4, RegistryAssumption
  <2>2. type_row[b] \in 1 .. Len(type_tab) /\ type_tab[type_row[b]] = RegType[b]
    BY <2>1 DEF TypeRowExact
  <2> QED
    BY <1>3, <1>5, <2>2
<1>11. TxnInFlight'
  BY <1>1 DEF TxnInFlight
<1>12. RegisteredIdExact'
  <2> SUFFICES ASSUME NEW b \in RegCall \ overtaken', reg_pc'[b] = "done"
               PROVE  \E r \in registry' : /\ r.id = reg_id[b] /\ r.name = RegName[b]
                                           /\ type_tab'[r.type] = RegType[b]
    BY <1>1 DEF RegisteredIdExact
  <2>1. CASE b = c
    <3>1. row \in registry'
      BY <1>1, <1>2, <2>1
    <3> QED
      BY <1>5, <2>1, <3>1
  <2>2. CASE b # c
    <3>1. b \in RegCall \ overtaken /\ reg_pc[b] = "done"
      BY <1>1, <1>4, <2>2
    <3>2. PICK r \in registry : /\ r.id = reg_id[b] /\ r.name = RegName[b]
                                /\ type_tab[r.type] = RegType[b]
      BY <3>1 DEF RegisteredIdExact
    <3>3. r.type \in 1 .. Len(type_tab)
      BY DEF RowsBacked
    <3> QED
      BY <1>5, <1>6, <3>2, <3>3
  <2> QED
    BY <2>1, <2>2
<1> QED
  BY <1>7, <1>8, <1>9, <1>10, <1>11, <1>12

(* A restart loses the calls in flight and keeps the tables. *)
LEMMA RestartInv ==
  ASSUME RegInv, Restart
  PROVE  RegInv'
<1> USE DEF RegInv, InFlight
<1>1. /\ reg_pc' = [c \in RegCall |-> IF reg_pc[c] \in {"idle", "done", "error"} THEN reg_pc[c]
                                      ELSE "lost"]
      /\ txn' = NoReg /\ local_reg_id' = bootstrap_id
      /\ UNCHANGED <<reg_id, type_row, type_tab, registry, overtaken>>
  BY DEF Restart
<1>2. \A c \in RegCall : reg_pc'[c] \notin InFlight /\ (reg_pc'[c] = "done" => reg_pc[c] = "done")
  BY <1>1
<1>3. RegTypeOK'
  <2>1. reg_pc' \in [RegCall -> RegAt]
    BY <1>1 DEF RegTypeOK, RegAt
  <2> QED
    BY <1>1, <2>1, BootstrapAbove DEF RegTypeOK
<1>4. RowsBacked'
  BY <1>1, BootstrapAbove DEF RowsBacked
<1>5. IdsFresh' /\ TypeRowExact' /\ TxnInFlight'
  BY <1>1, <1>2 DEF IdsFresh, TypeRowExact, TxnInFlight
<1>6. RegisteredIdExact'
  BY <1>1, <1>2 DEF RegisteredIdExact
<1> QED
  BY <1>3, <1>4, <1>5, <1>6

(* The inductive invariant of registrations holds in every state.          *)
THEOREM RegInvariant ==
  RegSpec => []RegInv
<1>1. RegInit => RegInv
  BY DEF RegInit, RegInv, RegTypeOK, RegAt, InFlight, RowsBacked, IdsFresh, TypeRowExact,
         TxnInFlight, RegisteredIdExact
<1>2. RegInv /\ [RegNext]_regVars => RegInv'
  <2> SUFFICES ASSUME RegInv, [RegNext]_regVars
               PROVE  RegInv'
    OBVIOUS
  <2>1. CASE UNCHANGED regVars
    BY <2>1 DEF regVars, RegInv, RegTypeOK, RowsBacked, IdsFresh, TypeRowExact, TxnInFlight,
                RegisteredIdExact
  <2> QED
    BY <2>1, AddSteps, RegRpcInv, SelectRowInv, InsertRowInv, RestartInv DEF RegNext
<1> QED
  BY <1>1, <1>2, PTL DEF RegSpec

(* An id that a client was given stays that of its registration, whatever  *)
(* handlers ran meanwhile and however often the server was restarted       *)
(* (reg_rpc, Registry.Add, bootstrap_id).                                  *)
THEOREM RegisteredIdsAreExact ==
  RegSpec => []RegisteredIdExact
<1>1. RegInv => RegisteredIdExact
  BY DEF RegInv
<1> QED
  BY <1>1, RegInvariant, PTL

-----------------------------------------------------------------------------
(* Data of remote sites. *)

(* What a client was told to fetch is in ps, or was replaced there. *)
FetchedThere ==
  /\ ps \in [0 .. size_hash - 1 -> Datum \cup {Nothing}]
  /\ DOMAIN getter = Getter
  /\ \A g \in Getter : getter[g].at = "found" =>
       /\ getter[g].want \in Datum
       /\ g \notin replaced => ps[Bin(getter[g].want)] = getter[g].want

ProxyInv == FetchedThere /\ MixedUpByAnother

(* Every datum has a bin. *)
LEMMA BinInStorage ==
  ASSUME NEW d \in Datum
  PROVE  Bin(d) \in 0 .. size_hash - 1 /\ d # Nothing
<1>1. d[2] \in RemoteVersion
  BY DEF Datum
<1>2. d[2] \in Nat /\ size_hash \in Nat \ {0}
  BY <1>1, RemoteDataAssumption
<1>3. d # Nothing
  BY RemoteDataAssumption DEF Datum
<1> QED
  BY <1>2, <1>3 DEF Bin

(* A query keeps the invariant. *)
LEMMA GetQueryInv ==
  ASSUME ProxyInv, NEW g \in Getter, NEW d \in Datum, GetQuery(g, d)
  PROVE  ProxyInv'
<1> USE DEF ProxyInv
<1> DEFINE new == getter'[g]
<1>1. DOMAIN getter' = Getter /\ \A h \in Getter : h # g => getter'[h] = getter[h]
  BY DEF GetQuery, FetchedThere
<1>2. CASE UNCHANGED ps /\ getter' = [getter EXCEPT ![g] = [at |-> "idle"]]
           /\ replaced' = replaced \ {g}
  <2>1. new.at = "idle"
    BY <1>2 DEF FetchedThere
  <2> HIDE DEF new
  <2>2. FetchedThere'
    BY <1>1, <1>2, <2>1 DEF FetchedThere, new
  <2>3. MixedUpByAnother'
    BY <1>1, <1>2, <2>1 DEF MixedUpByAnother, new
  <2> QED
    BY <2>2, <2>3
<1>3. CASE /\ ps' = query_remotes(d)
           /\ getter' = [getter EXCEPT ![g] = [at |-> "found", want |-> d]]
           /\ replaced' = (replaced \ {g}) \cup
                            {h \in ToFetch(Getter \ {g}) :
                               Bin(getter[h].want) = Bin(d) /\ getter[h].want # d}
  <2>1. new.at = "found" /\ new.want = d
    BY <1>3 DEF FetchedThere
  <2> HIDE DEF new
  <2>2. Bin(d) \in 0 .. size_hash - 1
    BY BinInStorage
  <2>3. /\ ps' \in [0 .. size_hash - 1 -> Datum \cup {Nothing}]
        /\ ps'[Bin(d)] = d
        /\ \A b \in 0 .. size_hash - 1 : b # Bin(d) => ps'[b] = ps[b]
    BY <1>3, <2>2 DEF query_remotes, FetchedThere
  <2>4. ASSUME NEW h \in Getter, h # g
        PROVE  h \in replaced => h \in replaced'
    BY <1>3, <2>4
  <2>5. ASSUME NEW h \in Getter, h # g, getter[h].at = "found", h \notin replaced'
        PROVE  ps'[Bin(getter[h].want)] = getter[h].want
    <3>1. /\ getter[h].want \in Datum /\ ps[Bin(getter[h].want)] = getter[h].want
      BY <2>4, <2>5 DEF FetchedThere
    <3>2. Bin(getter[h].want) = Bin(d) => getter[h].want = d
      BY <1>3, <2>5 DEF ToFetch
    <3>3. Bin(getter[h].want) \in 0 .. size_hash - 1
      BY <3>1, BinInStorage
    <3> QED
      BY <2>3, <3>1, <3>2, <3>3
  <2>6. FetchedThere'
    <3> SUFFICES ASSUME NEW h \in Getter, getter'[h].at = "found"
                 PROVE  /\ getter'[h].want \in Datum
                        /\ h \notin replaced' => ps'[Bin(getter'[h].want)] = getter'[h].want
      BY <1>1, <2>3 DEF FetchedThere
    <3>1. CASE h = g
      BY <2>1, <2>3, <3>1 DEF new
    <3>2. CASE h # g
      BY <1>1, <2>5, <3>2 DEF FetchedThere
    <3> QED
      BY <3>1, <3>2
  <2>7. MixedUpByAnother'
    BY <1>1, <2>1, <2>4 DEF MixedUpByAnother, new
  <2> QED
    BY <2>6, <2>7
<1> QED
  BY <1>2, <1>3 DEF GetQuery

(* A fetch keeps the invariant. *)
LEMMA GetDataInv ==
  ASSUME ProxyInv, NEW g \in Getter, GetData(g)
  PROVE  ProxyInv'
<1> USE DEF ProxyInv
<1> DEFINE d == getter[g].want
           new == getter'[g]
<1>1. getter[g].at = "found" /\ UNCHANGED <<ps, replaced>>
  BY DEF GetData
<1>2. d \in Datum /\ d # Nothing /\ (g \notin replaced => ps[Bin(d)] = d)
  BY <1>1, BinInStorage DEF FetchedThere
<1>3. /\ \/ new.at = "done" /\ new.want = d /\ new.got = ps[Bin(d)] /\ ps[Bin(d)][2] = d[2]
         \/ new.at = "crashed" /\ (ps[Bin(d)] = Nothing \/ ps[Bin(d)][2] # d[2])
      /\ DOMAIN getter' = Getter /\ \A h \in Getter : h # g => getter'[h] = getter[h]
  <2>1. \/ /\ getter' = [getter EXCEPT ![g] = [at |-> "done", want |-> d, got |-> ps[Bin(d)]]]
           /\ ps[Bin(d)][2] = d[2]
        \/ /\ getter' = [getter EXCEPT ![g] = [at |-> "crashed", want |-> d]]
           /\ ps[Bin(d)] = Nothing \/ ps[Bin(d)][2] # d[2]
    BY DEF GetData
  <2> HIDE DEF d
  <2> QED
    BY <2>1 DEF FetchedThere
<1> HIDE DEF d, new
<1>4. FetchedThere'
  BY <1>1, <1>3 DEF FetchedThere, new
<1>5. MixedUpByAnother'
  <2> SUFFICES ASSUME NEW h \in Getter
               PROVE  /\ getter'[h].at = "done" => getter'[h].got[2] = getter'[h].want[2]
                      /\ getter'[h].at = "done" /\ h \notin replaced =>
                           getter'[h].got = getter'[h].want
                      /\ getter'[h].at = "crashed" => h \in replaced
    BY <1>1 DEF MixedUpByAnother
  <2>1. CASE h = g
    BY <1>2, <1>3, <2>1 DEF new
  <2>2. CASE h # g
    BY <1>3, <2>2 DEF MixedUpByAnother
  <2> QED
    BY <2>1, <2>2
<1> QED
  BY <1>4, <1>5

(* However many clients get data of remote sites, each gets the version it *)
(* asked for, and its variable too unless the query of another one has     *)
(* replaced its data in ps (get_query, query_remotes, get_rpc).            *)
THEOREM RemoteGetsMixedOnlyByAnother ==
  ProxySpec => []MixedUpByAnother
<1>1. ProxyInit => ProxyInv
  BY DEF ProxyInit, ProxyInv, FetchedThere, MixedUpByAnother
<1>2. ASSUME ProxyInv, [ProxyNext]_proxyVars
      PROVE  ProxyInv'
  <2>1. CASE UNCHANGED <<ps, getter, replaced>>
    BY <1>2, <2>1 DEF ProxyInv, FetchedThere, MixedUpByAnother
  <2>2. ASSUME NEW d \in Datum, PutRemote(d)
        PROVE  UNCHANGED <<ps, getter, replaced>>
    BY <2>2 DEF PutRemote
  <2>3. ASSUME NEW v \in RemoteVar, PutLocal(v)
        PROVE  UNCHANGED <<ps, getter, replaced>>
    BY <2>3 DEF PutLocal
  <2> QED
    BY <1>2, <2>1, <2>2, <2>3, GetQueryInv, GetDataInv DEF ProxyNext, proxyVars
<1>3. ProxyInv => MixedUpByAnother
  BY DEF ProxyInv
<1> QED
  BY <1>1, <1>2, <1>3, PTL DEF ProxySpec

-----------------------------------------------------------------------------
(* A client's subscriptions: one that may still be notified is registered, *)
(* and dspaces_fini returns only when all of them have been.               *)

SubTypeOK ==
  /\ sub_serial \in 0 .. MaxSub
  /\ status \in [Sub -> {"none", "WAIT", "TRANSFER", "RUNNING", "DONE", "CANCELLED"}]
  /\ sub_lists \in [0 .. SUB_HASH_SIZE - 1 -> Seq(Sub)]
  /\ requested \subseteq Sub
  /\ notices \subseteq Sub
  /\ hpc \in [Sub -> {"none", "transfer", "fetch", "callback", "finish", "free", "over",
                    "fault"}]
  /\ tpc \in [Thread -> {"idle", "check", "check wait", "check read", "fini", "fini wait",
                         "finalized"}]

(* The subscriptions that were made and are not done. *)
Pending == {s \in Sub : s < sub_serial /\ ~ Settled(s)}

(* pending_sub counts them. *)
PendingExact == pending_sub = Cardinality(Pending)

(* A subscription is requested, notified and handled once, in this order,  *)
(* after it was made, and is done at the end.                              *)
InOrder ==
  /\ \A s \in requested \cup notices : s < sub_serial /\ hpc[s] = "none"
  /\ requested \cap notices = {}
  /\ \A s \in Sub : hpc[s] # "none" => s < sub_serial
  /\ \A s \in Sub : Settled(s) => status[s] = "DONE"

(* dspaces_fini has returned. *)
NoneLeft == Finalized => Pending = {}

SubInv == SubTypeOK /\ PendingExact /\ InOrder /\ NoneLeft /\ NotificationFindsSub

-----------------------------------------------------------------------------
(* The first of some positions in a list is one of them. *)
LEMMA MinIn ==
  ASSUME NEW I, I \subseteq Nat, I # {}
  PROVE  Min(I) \in I
<1>1. PICK x \in I : \A y \in I : ~ (<<y, x>> \in OpToRel(<, Nat))
  BY NatLessThanWellFounded, WFMin, Zenon
<1>2. ASSUME NEW y \in I
      PROVE  x =< y
  <2>1. x \in Nat /\ y \in Nat
    OBVIOUS
  <2>2. ~ (y < x)
    BY <1>1, <2>1 DEF OpToRel
  <2> QED
    BY <2>1, <2>2
<1> QED
  BY <1>2 DEF Min

(* Unlinking a subscription keeps the others in the list. *)
LEMMA RemoveFirstKeeps ==
  ASSUME NEW S, NEW q \in Seq(S), NEW s
  PROVE  /\ RemoveFirst(q, s) \in Seq(S)
         /\ \A x \in Range(q) : x # s => x \in Range(RemoveFirst(q, s))
<1> DEFINE I == {i \in 1 .. Len(q) : q[i] = s}
           i == Min(I)
           a == SubSeq(q, 1, i - 1)
           b == SubSeq(q, i + 1, Len(q))
<1>1. CASE I = {}
  <2>1. RemoveFirst(q, s) = q
    BY <1>1 DEF RemoveFirst
  <2> QED
    BY <2>1
<1>2. CASE I # {}
  <2>1. i \in I
    <3>1. I \subseteq Nat
      OBVIOUS
    <3> QED
      BY <1>2, <3>1, MinIn
  <2>2. RemoveFirst(q, s) = a \o b
    BY <1>2 DEF RemoveFirst, SelectInSeq, RemoveAt
  <2>3. i \in 1 .. Len(q) /\ q[i] = s /\ Len(q) \in Nat /\ DOMAIN q = 1 .. Len(q)
    BY <2>1
  <2> HIDE DEF i
  <2>4. /\ a \in Seq(S) /\ Len(a) = i - 1 /\ \A j \in 1 .. i - 1 : a[j] = q[j]
    BY <2>3, SubSeqProperties
  <2>5. /\ b \in Seq(S) /\ Len(b) = Len(q) - i
        /\ \A j \in 1 .. Len(q) - i : b[j] = q[i + j]
    <3>1. i + 1 \in 1 .. Len(q) + 1 /\ Len(q) \in i .. Len(q)
      BY <2>3
    <3>2. /\ b \in Seq(S)
          /\ Len(b) = IF i + 1 =< Len(q) THEN Len(q) - (i + 1) + 1 ELSE 0
          /\ \A j \in 1 .. Len(b) : b[j] = q[i + 1 + j - 1]
      BY <2>3, <3>1, SubSeqProperties
    <3> HIDE DEF b
    <3>3. Len(b) = Len(q) - i
      <4>1. i \in Nat /\ Len(q) \in Nat /\ i =< Len(q)
        BY <2>3
      <4>2. Len(b) = IF i + 1 =< Len(q) THEN Len(q) - (i + 1) + 1 ELSE 0
        BY <3>2
      <4> QED
        BY ONLY <4>1, <4>2
    <3>4. ASSUME NEW j \in 1 .. Len(q) - i
          PROVE  i + 1 + j - 1 = i + j
      BY <2>3
    <3> QED
      BY <3>2, <3>3, <3>4
  <2>6. a \o b \in Seq(S) /\ Range(a \o b) = Range(a) \cup Range(b)
    BY <2>4, <2>5, ConcatProperties, RangeConcatenation
  <2>7. ASSUME NEW x \in Range(q), x # s
        PROVE  x \in Range(a) \cup Range(b)
    <3>1. PICK j \in 1 .. Len(q) : q[j] = x
      BY <2>3 DEF Range
    <3>2. CASE j < i
      <4>1. a[j] = x /\ j \in DOMAIN a
        BY <2>3, <2>4, <3>1, <3>2
      <4> QED
        BY <4>1 DEF Range
    <3>3. CASE j > i
      <4>1. j - i \in 1 .. Len(q) - i /\ i + (j - i) = j
        BY <2>3, <3>1, <3>3
      <4>2. b[j - i] = x /\ j - i \in DOMAIN b
        BY <2>5, <3>1, <4>1
      <4> QED
        BY <4>2 DEF Range
    <3> QED
      BY <2>3, <2>7, <3>1, <3>2, <3>3
  <2> QED
    BY <2>2, <2>6, <2>7
<1> QED
  BY <1>1, <1>2

(* Every subscription has a list. *)
LEMMA ListOfType ==
  ASSUME NEW s \in Sub
  PROVE  s \in Nat /\ ListOf(s) \in 0 .. SUB_HASH_SIZE - 1
<1>1. s \in Nat /\ SUB_HASH_SIZE \in Nat /\ SUB_HASH_SIZE > 0
  BY ClientSubAssumption DEF Sub
<1> QED
  BY <1>1 DEF ListOf

(* There are finitely many subscriptions. *)
LEMMA PendingFinite ==
  \A S : S \subseteq Sub => IsFiniteSet(S) /\ Cardinality(S) \in Nat
<1>1. IsFiniteSet(Sub)
  BY ClientSubAssumption, FS_Interval DEF Sub
<1> QED
  BY <1>1, FS_Subset, FS_CardinalityType

(* The invariant holds initially. *)
LEMMA SubInitInv ==
  SubInit => SubInv
<1> SUFFICES ASSUME SubInit
             PROVE  SubInv
  OBVIOUS
<1> USE DEF SubInit, Settled
<1>1. SubTypeOK
  BY ClientSubAssumption DEF SubTypeOK
<1>2. Pending = {}
  BY DEF Pending, Sub
<1>3. PendingExact
  BY <1>2, FS_EmptySet DEF PendingExact
<1>4. InOrder /\ NotificationFindsSub
  BY DEF InOrder, NotificationFindsSub
<1> QED
  BY <1>1, <1>2, <1>3, <1>4 DEF SubInv, NoneLeft

(* dspaces_sub *)
LEMMA DspacesSubInv ==
  ASSUME SubInv, NEW t \in Thread, DspacesSub(t)
  PROVE  SubInv'
<1> DEFINE n == sub_serial
           l == ListOf(n)
<1> USE DEF SubInv, Settled
<1>1. /\ InUse /\ n < MaxSub /\ sub_serial' = n + 1 /\ pending_sub' = pending_sub + 1
      /\ sub_lists' = [sub_lists EXCEPT ![l] = Append(@, n)]
      /\ status' = [status EXCEPT ![n] = "WAIT"]
      /\ requested' \in {requested, requested \cup {n}}
      /\ UNCHANGED <<notices, hpc, tpc>>
  BY DEF DspacesSub, handlerVars
<1>2. n \in Nat /\ n \in Sub /\ l \in 0 .. SUB_HASH_SIZE - 1
  <2>1. sub_serial \in 0 .. MaxSub
    BY DEF SubTypeOK
  <2>2. n \in Nat /\ n \in Sub
    BY <1>1, <2>1, ClientSubAssumption DEF Sub
  <2> QED
    BY <2>2, ListOfType
<1>3. hpc[n] = "none"
  BY <1>2 DEF InOrder
<1>4. sub_lists[l] \in Seq(Sub)
  BY <1>2 DEF SubTypeOK
<1>5. /\ Append(sub_lists[l], n) \in Seq(Sub)
      /\ Range(Append(sub_lists[l], n)) = Range(sub_lists[l]) \cup {n}
  <2> DEFINE q == sub_lists[l]
  <2>1. /\ Append(q, n) \in Seq(Sub) /\ Len(Append(q, n)) = Len(q) + 1
        /\ \A i \in 1 .. Len(q) : Append(q, n)[i] = q[i]
        /\ Append(q, n)[Len(q) + 1] = n
    BY <1>2, <1>4, AppendProperties
  <2>2. DOMAIN q = 1 .. Len(q) /\ DOMAIN Append(q, n) = 1 .. Len(q) + 1 /\ Len(q) \in Nat
    BY <1>4, <2>1
  <2> HIDE DEF q
  <2>3. ASSUME NEW x
        PROVE  x \in Range(Append(q, n)) <=> x \in Range(q) \cup {n}
    <3>1. ASSUME NEW i \in 1 .. Len(q) + 1
          PROVE  i \in 1 .. Len(q) \/ i = Len(q) + 1
      BY <2>2
    <3>2. \A i \in 1 .. Len(q) : i \in 1 .. Len(q) + 1
      BY <2>2
    <3>3. Len(q) + 1 \in 1 .. Len(q) + 1
      BY <2>2
    <3>4. /\ Range(Append(q, n)) = {Append(q, n)[i] : i \in 1 .. Len(q) + 1}
          /\ Range(q) = {q[i] : i \in 1 .. Len(q)}
      BY <2>2 DEF Range
    <3> QED
      BY <2>1, <3>1, <3>2, <3>3, <3>4
  <2>4. Range(Append(q, n)) = Range(q) \cup {n}
    BY <2>3
  <2> QED
    BY <2>1, <2>4 DEF q
<1>6. SubTypeOK'
  <2>1. sub_lists' \in [0 .. SUB_HASH_SIZE - 1 -> Seq(Sub)]
    BY <1>1, <1>2, <1>5 DEF SubTypeOK
  <2>2. sub_serial' \in 0 .. MaxSub
    BY <1>1, <1>2, ClientSubAssumption
  <2> QED
    BY <1>1, <1>2, <2>1, <2>2 DEF SubTypeOK
<1>7. PendingExact'
  <2>1. Pending' = Pending \cup {n} /\ n \notin Pending
    BY <1>1, <1>2, <1>3 DEF Pending, Sub
  <2>2. IsFiniteSet(Pending)
    BY PendingFinite DEF Pending
  <2> QED
    BY <1>1, <2>1, <2>2, FS_AddElement DEF PendingExact
<1>8. InOrder'
  <2>1. n \notin requested \cup notices
    BY <1>2 DEF InOrder
  <2>2. \A s \in Sub : s < sub_serial => s < sub_serial' /\ s # n
    BY <1>1, <1>2 DEF Sub
  <2>3. \A s \in requested' \cup notices' : s < sub_serial' /\ hpc'[s] = "none"
    <3>1. ASSUME NEW s \in requested \cup notices
          PROVE  s < sub_serial' /\ hpc'[s] = "none"
      BY <1>1, <2>2 DEF InOrder, SubTypeOK
    <3>2. n < sub_serial' /\ hpc'[n] = "none"
      BY <1>1, <1>2, <1>3
    <3> QED
      BY <1>1, <3>1, <3>2
  <2>4. requested' \cap notices' = {}
    BY <1>1, <2>1 DEF InOrder
  <2>5. \A s \in Sub : hpc'[s] # "none" => s < sub_serial'
    BY <1>1, <2>2 DEF InOrder
  <2>6. \A s \in Sub : hpc'[s] \in {"free", "over", "fault"} => status'[s] = "DONE"
    BY <1>1, <1>2, <1>3 DEF InOrder, SubTypeOK
  <2> QED
    BY <2>3, <2>4, <2>5, <2>6 DEF InOrder
<1>9. NoneLeft'
  BY <1>1 DEF NoneLeft, Finalized, InUse
<1>10. NotificationFindsSub'
  <2> SUFFICES ASSUME NEW s \in Sub,
                      \/ s \in requested' \cup notices
                      \/ hpc[s] \notin {"none", "free", "over", "fault"}
               PROVE  s \in Range(sub_lists'[ListOf(s)])
    BY <1>1 DEF NotificationFindsSub
  <2>1. ListOf(s) \in 0 .. SUB_HASH_SIZE - 1
    BY ListOfType
  <2>2. /\ sub_lists'[l] = Append(sub_lists[l], n)
        /\ ListOf(s) # l => sub_lists'[ListOf(s)] = sub_lists[ListOf(s)]
    BY <1>1, <1>2, <2>1 DEF SubTypeOK
  <2>3. CASE s = n
    BY <1>5, <2>2, <2>3
  <2>4. CASE s # n
    BY <1>1, <1>5, <2>2, <2>4 DEF NotificationFindsSub
  <2> QED
    BY <2>3, <2>4
<1> QED
  BY <1>6, <1>7, <1>8, <1>9, <1>10

(* A step that leaves the counter, the lists and the handlers alone and    *)
(* sends no request.                                                       *)
LEMMA QuietStep ==
  ASSUME SubInv, UNCHANGED <<lists, hpc>>, SubTypeOK',
         requested' \cup notices' \subseteq requested \cup notices,
         requested' \cap notices' = {},
         \A s \in Sub : status[s] = "DONE" => status'[s] = "DONE",
         Finalized' => Finalized \/ pending_sub = 0
  PROVE  SubInv'
<1> USE DEF SubInv, Settled, lists
<1>1. Pending' = Pending
  BY DEF Pending
<1>2. PendingExact' /\ InOrder' /\ NotificationFindsSub'
  BY <1>1 DEF PendingExact, InOrder, NotificationFindsSub
<1>3. pending_sub = 0 => Pending = {}
  BY PendingFinite, FS_EmptySet DEF PendingExact, Pending
<1>4. NoneLeft'
  BY <1>1, <1>3 DEF NoneLeft
<1> QED
  BY <1>2, <1>4

(* A handler goes on, from inside its handling or from its notification;   *)
(* it stays registered.                                                    *)
LEMMA HandlerStepInv ==
  ASSUME SubInv, NEW s \in Sub, UNCHANGED <<lists, requested, tpc>>, SubTypeOK',
         \/ s \in notices /\ notices' = notices \ {s}
         \/ hpc[s] \notin {"none", "free", "over", "fault"} /\ notices' = notices,
         NEW at, at \notin {"none", "free", "over", "fault"}, hpc' = [hpc EXCEPT ![s] = at],
         \A r \in Sub : r # s => status'[r] = status[r]
  PROVE  SubInv'
<1> USE DEF SubInv, Settled, lists
<1>1. /\ hpc'[s] = at /\ \A r \in Sub : r # s => hpc'[r] = hpc[r]
  BY DEF SubTypeOK
<1>2. s < sub_serial /\ hpc[s] \notin {"free", "over", "fault"}
  BY DEF InOrder
<1>3. Pending' = Pending
  BY <1>1, <1>2 DEF Pending
<1>4. s \notin requested' \cup notices'
  BY DEF InOrder
<1>5. InOrder'
  <2>1. \A r \in requested' \cup notices' : r < sub_serial' /\ hpc'[r] = "none"
    <3> SUFFICES ASSUME NEW r \in requested' \cup notices'
                 PROVE  r < sub_serial' /\ hpc'[r] = "none"
      OBVIOUS
    <3>1. r \in requested \cup notices /\ r # s /\ r \in Sub
      BY <1>4 DEF SubTypeOK
    <3> QED
      BY <1>1, <3>1 DEF InOrder
  <2>2. requested' \cap notices' = {}
    BY DEF InOrder
  <2>3. \A r \in Sub : hpc'[r] # "none" => r < sub_serial'
    BY <1>1, <1>2 DEF InOrder
  <2>4. \A r \in Sub : hpc'[r] \in {"free", "over", "fault"} => status'[r] = "DONE"
    BY <1>1 DEF InOrder
  <2> QED
    BY <2>1, <2>2, <2>3, <2>4 DEF InOrder
<1>6. NotificationFindsSub'
  BY <1>1 DEF NotificationFindsSub
<1>7. PendingExact' /\ NoneLeft'
  BY <1>3 DEF PendingExact, NoneLeft, Finalized
<1> QED
  BY <1>5, <1>6, <1>7

(* The handler's last critical section. *)
LEMMA FinishInv ==
  ASSUME SubInv, NEW s \in Sub, Finish(s)
  PROVE  SubInv'
<1> USE DEF SubInv, Settled
<1>1. /\ hpc[s] = "finish" /\ pending_sub' = pending_sub - 1
      /\ sub_lists' = [sub_lists EXCEPT ![ListOf(s)] = RemoveFirst(@, s)]
      /\ status' = [status EXCEPT ![s] = "DONE"] /\ hpc' = [hpc EXCEPT ![s] = "free"]
      /\ UNCHANGED <<sub_serial, requested, notices>>
      /\ Signal
  BY DEF Finish, dspaces_move_sub
<1>2. ListOf(s) \in 0 .. SUB_HASH_SIZE - 1 /\ s < sub_serial
  BY <1>1, ListOfType DEF InOrder
<1>3. /\ tpc' \in [Thread -> {"idle", "check", "check wait", "check read", "fini", "fini wait",
                              "finalized"}]
      /\ Finalized' => Finalized
  BY <1>1 DEF Signal, Waiting, Woken, Finalized, SubTypeOK
<1>4. /\ hpc'[s] = "free" /\ status'[s] = "DONE"
      /\ \A r \in Sub : r # s => hpc'[r] = hpc[r] /\ status'[r] = status[r]
  BY <1>1 DEF SubTypeOK
<1>5. sub_lists[ListOf(s)] \in Seq(Sub)
  BY <1>2 DEF SubTypeOK
<1>6. /\ RemoveFirst(sub_lists[ListOf(s)], s) \in Seq(Sub)
      /\ \A x \in Range(sub_lists[ListOf(s)]) :
            x # s => x \in Range(RemoveFirst(sub_lists[ListOf(s)], s))
  BY <1>5, RemoveFirstKeeps
<1>7. SubTypeOK'
  <2>1. sub_lists' \in [0 .. SUB_HASH_SIZE - 1 -> Seq(Sub)]
    BY <1>1, <1>2, <1>6 DEF SubTypeOK
  <2> QED
    BY <1>1, <1>3, <2>1 DEF SubTypeOK
<1>8. Pending' = Pending \ {s} /\ s \in Pending
  BY <1>1, <1>2, <1>4 DEF Pending
<1>9. PendingExact'
  <2>1. IsFiniteSet(Pending)
    BY PendingFinite DEF Pending
  <2> QED
    BY <1>1, <1>8, <2>1, FS_RemoveElement DEF PendingExact
<1>10. InOrder'
  BY <1>1, <1>2, <1>4 DEF InOrder, SubTypeOK
<1>11. NoneLeft'
  BY <1>3, <1>8 DEF NoneLeft
<1>12. NotificationFindsSub'
  <2> SUFFICES ASSUME NEW r \in Sub,
                      \/ r \in requested \cup notices
                      \/ hpc'[r] \notin {"none", "free", "over", "fault"}
               PROVE  r \in Range(sub_lists'[ListOf(r)])
    BY <1>1 DEF NotificationFindsSub
  <2>1. r # s
    BY <1>1, <1>4 DEF InOrder
  <2>2. ListOf(r) \in 0 .. SUB_HASH_SIZE - 1
    BY ListOfType
  <2>3. /\ sub_lists'[ListOf(s)] = RemoveFirst(sub_lists[ListOf(s)], s)
        /\ ListOf(r) # ListOf(s) => sub_lists'[ListOf(r)] = sub_lists[ListOf(r)]
    BY <1>1, <1>2, <2>2 DEF SubTypeOK
  <2>4. r \in Range(sub_lists[ListOf(r)])
    BY <1>4, <2>1 DEF NotificationFindsSub
  <2> QED
    BY <1>6, <2>1, <2>3, <2>4
<1> QED
  BY <1>7, <1>9, <1>10, <1>11, <1>12

(* The handler frees its request. *)
LEMMA FreeReqInv ==
  ASSUME SubInv, NEW s \in Sub, FreeReq(s)
  PROVE  SubInv'
<1> USE DEF SubInv, Settled
<1>1. /\ hpc[s] = "free" /\ hpc'[s] \in {"over", "fault"}
      /\ \A r \in Sub : r # s => hpc'[r] = hpc[r]
      /\ UNCHANGED <<sub_serial, sub_lists, pending_sub, status, requested, notices, tpc>>
  BY DEF FreeReq, SubTypeOK, lists
<1>2. SubTypeOK'
  BY DEF FreeReq, SubTypeOK, lists
<1>3. Pending' = Pending
  BY <1>1 DEF Pending
<1>4. PendingExact' /\ NoneLeft'
  BY <1>1, <1>3 DEF PendingExact, NoneLeft, Finalized
<1>5. s \notin requested \cup notices
  BY <1>1 DEF InOrder
<1>6. InOrder' /\ NotificationFindsSub'
  BY <1>1, <1>5 DEF InOrder, NotificationFindsSub, SubTypeOK
<1> QED
  BY <1>2, <1>4, <1>6

(* The inductive invariant holds in every state. *)
THEOREM SubInvariant ==
  SubSpec => []SubInv
<1>1. ASSUME SubInv, [SubNext]_subVars
      PROVE  SubInv'
  <2> USE <1>1 DEF SubInv, Settled
  <2>1. CASE UNCHANGED subVars
    BY <2>1 DEF subVars, SubTypeOK, PendingExact, Pending, InOrder, NoneLeft, Finalized,
                NotificationFindsSub
  <2>2. ASSUME NEW t \in Thread, DspacesSub(t)
        PROVE  SubInv'
    BY <2>2, DspacesSubInv
  <2>3. ASSUME NEW t \in Thread, Fini(t)
        PROVE  SubInv'
    <3>1. /\ tpc' = [tpc EXCEPT ![t] = IF pending_sub > 0 THEN "fini wait" ELSE "finalized"]
          /\ UNCHANGED <<lists, status, requested, notices, hpc>>
      BY <2>3 DEF Fini, handlerVars
    <3>2. pending_sub \in Nat
      BY PendingFinite DEF PendingExact, Pending
    <3>3. SubTypeOK'
      BY <3>1 DEF SubTypeOK, lists
    <3>4. Finalized' => Finalized \/ pending_sub = 0
      <4>1. CASE pending_sub > 0
        BY <3>1, <4>1 DEF SubTypeOK, Finalized
      <4> QED
        BY <3>2, <4>1
    <3> QED
      BY <3>1, <3>3, <3>4, QuietStep DEF InOrder
  <2>4. ASSUME NEW t \in Thread, CheckRead(t)
        PROVE  SubInv'
    <3>1. SubTypeOK' /\ (Finalized' => Finalized)
      BY <2>4 DEF CheckRead, SubTypeOK, lists, handlerVars, Finalized
    <3> QED
      BY <2>4, <3>1, QuietStep DEF CheckRead, InOrder, handlerVars
  <2>5. ASSUME NEW t \in Thread, NEW s \in Sub, CancelSub(t, s)
        PROVE  SubInv'
    <3>1. SubTypeOK' /\ (Finalized' => Finalized)
      BY <2>5 DEF CancelSub, SubTypeOK, lists, handlerVars, Finalized
    <3>2. \A r \in Sub : status[r] = "DONE" => status'[r] = "DONE"
      BY <2>5 DEF CancelSub, SubTypeOK
    <3> QED
      BY <2>5, <3>1, <3>2, QuietStep DEF CancelSub, InOrder, handlerVars
  <2>6. ASSUME NEW t \in Thread, NEW s \in Sub, CheckSub(t, s)
        PROVE  SubInv'
    <3>1. SubTypeOK' /\ (Finalized' => Finalized)
      BY <2>6 DEF CheckSub, SubTypeOK, lists, handlerVars, Finalized
    <3> QED
      BY <2>6, <3>1, QuietStep DEF CheckSub, InOrder, handlerVars
  <2>7. ASSUME NEW s \in Sub, ServerNotifies(s)
        PROVE  SubInv'
    <3>1. SubTypeOK' /\ (Finalized' => Finalized)
      BY <2>7 DEF ServerNotifies, SubTypeOK, lists, handlerVars, Finalized
    <3>2. requested' \cup notices' \subseteq requested \cup notices /\ requested' \cap notices' = {}
      BY <2>7 DEF ServerNotifies, InOrder
    <3> QED
      BY <2>7, <3>1, <3>2, QuietStep DEF ServerNotifies, handlerVars
  <2>8. ASSUME NEW s \in Sub, NotifyRpc(s)
        PROVE  SubInv'
    <3>1. SubTypeOK'
      BY <2>8 DEF NotifyRpc, SubTypeOK, lists
    <3>2. CASE hpc' = hpc
      <4>1. /\ requested' \cup notices' \subseteq requested \cup notices
            /\ requested' \cap notices' = {}
            /\ Finalized' => Finalized
        BY <2>8 DEF NotifyRpc, InOrder, Finalized
      <4> QED
        BY <2>8, <3>1, <3>2, <4>1, QuietStep DEF NotifyRpc
    <3>3. CASE hpc' = [hpc EXCEPT ![s] = IF status[s] = "WAIT" THEN "transfer" ELSE "finish"]
      BY <2>8, <3>1, <3>3, HandlerStepInv DEF NotifyRpc
    <3> QED
      BY <2>8, <3>2, <3>3 DEF NotifyRpc
  <2>9. ASSUME NEW s \in Sub, SetTransfer(s) \/ DataFetched(s) \/ RunCallback(s)
        PROVE  SubInv'
    <3>1. SubTypeOK'
      BY <2>9 DEF SetTransfer, DataFetched, RunCallback, SubTypeOK, lists
    <3>2. \A r \in Sub : r # s => status'[r] = status[r]
      BY <2>9 DEF SetTransfer, DataFetched, RunCallback, SubTypeOK
    <3>3. \E at \in {"fetch", "callback", "finish"} : hpc' = [hpc EXCEPT ![s] = at]
      BY <2>9 DEF SetTransfer, DataFetched, RunCallback
    <3>4. /\ hpc[s] \notin {"none", "free", "over", "fault"} /\ notices' = notices
          /\ UNCHANGED <<lists, requested, tpc>>
      BY <2>9 DEF SetTransfer, DataFetched, RunCallback
    <3> QED
      BY <3>1, <3>2, <3>3, <3>4, HandlerStepInv
  <2>10. ASSUME NEW s \in Sub, Finish(s)
         PROVE  SubInv'
    BY <2>10, FinishInv
  <2>11. ASSUME NEW s \in Sub, FreeReq(s)
         PROVE  SubInv'
    BY <2>11, FreeReqInv
  <2> QED
    BY <2>1, <2>2, <2>3, <2>4, <2>5, <2>6, <2>7, <2>8, <2>9, <2>10, <2>11
       DEF SubNext, NotifyStep
<1> QED
  BY <1>1, SubInitInv, PTL DEF SubSpec

(* A notification finds its subscription registered, however subscribing,  *)
(* cancelling and the handlers interleave (notify_rpc, dspaces_move_sub).  *)
THEOREM NotificationsFindSubs ==
  SubSpec => []NotificationFindsSub
<1>1. SubInv => NotificationFindsSub
  BY DEF SubInv
<1> QED
  BY <1>1, SubInvariant, PTL

(* dspaces_fini frees the subscriptions only when no handler will run a    *)
(* callback or enter a critical section for one of them; the read of the   *)
(* request with which notify_rpc ends is not waited for.                   *)
THEOREM FiniIsQuiet ==
  SubSpec => []QuietAfterFini
<1>1. SubInv => QuietAfterFini
  <2> SUFFICES ASSUME SubInv, Finalized
               PROVE  /\ requested = {} /\ notices = {}
                      /\ \A s \in 0 .. sub_serial - 1 : status[s] = "DONE" /\ Settled(s)
    BY DEF QuietAfterFini
  <2>1. Pending = {} /\ requested \subseteq Sub /\ notices \subseteq Sub
    BY DEF SubInv, NoneLeft, SubTypeOK
  <2>2. requested \cup notices \subseteq Pending
    BY <2>1 DEF SubInv, InOrder, Pending, Settled
  <2>3. ASSUME NEW s \in 0 .. sub_serial - 1
        PROVE  status[s] = "DONE" /\ Settled(s)
    <3>0. sub_serial \in 0 .. MaxSub
      BY DEF SubInv, SubTypeOK
    <3>1. s \in Sub /\ s < sub_serial
      BY <3>0, ClientSubAssumption DEF Sub
    <3> QED
      BY <2>1, <3>1 DEF SubInv, InOrder, Pending
  <2> QED
    BY <2>1, <2>2, <2>3
<1> QED
  BY <1>1, SubInvariant, PTL

-----------------------------------------------------------------------------
(* Metadata of remote sites. *)

RemoteSpec == RemoteInit /\ [][RemoteNext]_remoteVars

(* Closed sets of sites. *)
Closed(S) == \A u \in S : Range(Remotes[u]) \subseteq S

(* A query comes to its own site and to what its remotes come to. *)
LEMMA ReachUnfolds ==
  ASSUME NEW s \in Site
  PROVE  /\ s \in Reach(s) /\ Reach(s) \subseteq Site
         /\ \A t \in Range(Remotes[s]) : t \in Site /\ Reach(t) \subseteq Reach(s)
         /\ \A u \in Reach(s) : Range(Remotes[u]) \subseteq Reach(s)
         /\ \A u \in Reach(s) : u = s \/ \E t \in Range(Remotes[s]) : u \in Reach(t)
<1>1. \A u \in Site : Range(Remotes[u]) \subseteq Site
  BY RemoteAssumption DEF Range
<1>2. ASSUME NEW t \in Site, NEW u
      PROVE  u \in Reach(t) <=> u \in Site /\ \A S \in SUBSET Site : t \in S /\ Closed(S) => u \in S
  BY DEF Reach, Closed
<1>3. s \in Reach(s) /\ Reach(s) \subseteq Site
  BY <1>2
<1>4. ASSUME NEW t \in Site, NEW u \in Reach(t), NEW v \in Range(Remotes[u])
      PROVE  v \in Reach(t)
  BY <1>1, <1>2 DEF Closed
<1>5. ASSUME NEW t \in Range(Remotes[s]), NEW u \in Reach(t)
      PROVE  u \in Reach(s)
  BY <1>1, <1>2 DEF Closed
<1>6. ASSUME NEW u \in Reach(s)
      PROVE  u = s \/ \E t \in Range(Remotes[s]) : u \in Reach(t)
  <2> DEFINE S == {s} \cup UNION {Reach(t) : t \in Range(Remotes[s])}
  <2>1. S \in SUBSET Site /\ s \in S
    BY <1>1, <1>2
  <2>2. Closed(S)
    <3> SUFFICES ASSUME NEW x \in S, NEW y \in Range(Remotes[x])
                 PROVE  y \in S
      BY DEF Closed
    <3>1. CASE x = s
      <4>1. y \in Reach(y)
        BY <1>1, <1>2, <3>1
      <4> QED
        BY <3>1, <4>1
    <3>2. CASE x # s
      <4>1. PICK t \in Range(Remotes[s]) : x \in Reach(t)
        BY <3>2
      <4>2. y \in Reach(t)
        BY <1>1, <1>4, <4>1
      <4> QED
        BY <4>2
    <3> QED
      BY <3>1, <3>2
  <2> HIDE DEF S
  <2>3. u \in S
    BY <1>2, <2>1, <2>2
  <2> QED
    BY <2>3 DEF S
<1> QED
  BY <1>1, <1>3, <1>4, <1>5, <1>6

-----------------------------------------------------------------------------
(* Paths. *)

Request == {"query", "peek"} \X Site

(* A path is known by its length and its steps. *)
Steps(p) ==
  /\ p[1] = <<"query", Gateway>>
  /\ \A i \in 2 .. Len(p) : /\ p[i][2] \in Range(Remotes[p[i - 1][2]])
                            /\ p[i - 1][1] = "peek" => p[i][1] = "peek"

LEMMA DepthType == Depth \in Nat /\ IsFiniteSet(Site)
BY RemoteAssumption, FS_CardinalityType DEF Depth

LEMMA PathIs ==
  /\ \A p \in Path : p \in Seq(Request) /\ Len(p) \in 1 .. Depth /\ Steps(p)
  /\ \A p \in Seq(Request) : Len(p) \in 1 .. Depth /\ Steps(p) => p \in Path
<1>1. ASSUME NEW p \in Path
      PROVE  p \in Seq(Request) /\ Len(p) \in 1 .. Depth /\ Steps(p)
  <2>1. PICK n \in 1 .. Depth : p \in [1 .. n -> Request]
    BY DEF Path, Request
  <2>2. Steps(p)
    BY DEF Path, Steps
  <2>3. n \in Nat
    BY DepthType
  <2> HIDE DEF Path, Request
  <2>4. p \in Seq(Request) /\ Len(p) = n
    BY <2>1, <2>3
  <2> QED
    BY <2>2, <2>4
<1>2. ASSUME NEW p \in Seq(Request), Len(p) \in 1 .. Depth, Steps(p)
      PROVE  p \in Path
  <2>1. p \in [1 .. Len(p) -> Request]
    OBVIOUS
  <2>2. p \in UNION {[1 .. n -> Request] : n \in 1 .. Depth}
    BY <1>2, <2>1
  <2> QED
    BY <1>2, <2>2 DEF Path, Request, Steps
<1> QED
  BY <1>1, <1>2

(* Sites do not repeat along the steps of a path: it is no longer than     *)
(* there are sites.                                                        *)
LEMMA StepsBounded ==
  ASSUME NEW q \in Seq(Request), Len(q) >= 1, Steps(q)
  PROVE  Len(q) <= Depth
<1>1. PICK n \in Nat : n = Len(q)
  OBVIOUS
<1>2. \A i \in 1 .. n : q[i] \in Request /\ q[i][2] \in Site
  BY <1>1 DEF Request
<1>3. \A i \in 2 .. n : q[i][2] \in Range(Remotes[q[i - 1][2]])
  BY <1>1 DEF Steps
<1>4. ASSUME NEW i \in 1 .. n, NEW j \in i .. n
      PROVE  q[j][2] \in Reach(q[i][2])
  <2> DEFINE T == {k \in 0 .. n - i : q[i + k][2] \in Reach(q[i][2])}
  <2>1. n - i \in Nat /\ 0 \in 0 .. n - i /\ i + 0 = i
    OBVIOUS
  <2>2. 0 \in T
    BY <1>2, <2>1, ReachUnfolds
  <2>3. ASSUME NEW k \in 1 .. n - i, k - 1 \in T
        PROVE  k \in T
    <3>1. k \in 0 .. n - i /\ i + k \in 2 .. n /\ (i + k) - 1 = i + (k - 1)
      OBVIOUS
    <3>2. q[i + k][2] \in Range(Remotes[q[i + (k - 1)][2]])
      BY <1>3, <3>1
    <3>3. q[i + (k - 1)][2] \in Reach(q[i][2])
      BY <2>3
    <3> QED
      BY <1>2, <3>1, <3>2, <3>3, ReachUnfolds
  <2> HIDE DEF T
  <2>4. \A k \in 0 .. n - i : k \in T
    BY <2>1, <2>2, <2>3, UpTo
  <2>5. j - i \in 0 .. n - i /\ i + (j - i) = j
    OBVIOUS
  <2> QED
    BY <2>4, <2>5 DEF T
<1>5. ASSUME NEW i \in 1 .. n, NEW j \in 1 .. n, i < j, q[i][2] = q[j][2]
      PROVE  FALSE
  <2>1. i + 1 \in 2 .. n /\ i + 1 \in 1 .. n /\ j \in (i + 1) .. n /\ (i + 1) - 1 = i
    BY <1>5
  <2>2. q[i + 1][2] \in Range(Remotes[q[i][2]])
    BY <1>3, <2>1
  <2>3. q[j][2] \in Reach(q[i + 1][2])
    BY <1>4, <2>1
  <2>4. \A s \in Site : \A t \in Range(Remotes[s]) : s \notin Reach(t)
    BY RemoteAssumption
  <2>5. q[i][2] \notin Reach(q[i + 1][2])
    BY <1>2, <2>2, <2>4, Zenon
  <2> QED
    BY <1>5, <2>3, <2>5
<1> DEFINE S == 1 .. n
           site == [i \in S |-> q[i][2]]
<1>6. site \in [S -> Site]
  BY <1>2
<1>7. IsFiniteSet(S) /\ Cardinality(S) = n
  <2>1. n \in Int /\ 1 \in Int /\ n >= 1 /\ ~ (1 > n) /\ (n - 1) + 1 = n
    BY <1>1
  <2> QED
    BY <2>1, FS_Interval
<1>8. \A i, j \in S : site[i] = site[j] => i = j
  BY <1>5
<1> SUFFICES ASSUME ~ (n <= Depth)
             PROVE  FALSE
  BY <1>1
<1>9. Cardinality(Site) < Cardinality(S)
  BY <1>7, DepthType DEF Depth
<1> HIDE DEF S, site
<1>10. \E i, j \in S : i # j /\ site[i] = site[j]
  BY <1>6, <1>7, <1>9, DepthType, FS_PigeonHole
<1> QED
  BY <1>8, <1>10

(* A handler, its kind and its site. *)
LEMMA PathLast ==
  ASSUME NEW p \in Path
  PROVE  /\ SiteOf(p) \in Site /\ Last(p)[1] \in {"query", "peek"}
         /\ RemotesOf(p) \in Seq(Site) /\ RemotesOf(p) = Remotes[SiteOf(p)]
         /\ Last(p) = p[Len(p)] /\ Last(p) = <<Last(p)[1], SiteOf(p)>>
<1>1. p \in Seq(Request) /\ Len(p) \in 1 .. Depth /\ Len(p) \in Nat
  BY PathIs, DepthType
<1>2. Last(p) = p[Len(p)] /\ p[Len(p)] \in Request
  BY <1>1 DEF Last
<1>3. SiteOf(p) \in Site /\ Last(p)[1] \in {"query", "peek"} /\ Last(p) = <<Last(p)[1], SiteOf(p)>>
  BY <1>2 DEF SiteOf, Request
<1> QED
  BY <1>2, <1>3, RemoteAssumption DEF RemotesOf

(* A request to a remote leads to a handler. *)
LEMMA NextPath ==
  ASSUME NEW p \in Path, NEW k \in {"query", "peek"}, NEW t \in Range(RemotesOf(p)),
         Last(p)[1] = "peek" => k = "peek"
  PROVE  /\ Append(p, <<k, t>>) \in Path
         /\ Last(Append(p, <<k, t>>)) = <<k, t>>
         /\ Front(Append(p, <<k, t>>)) = p
         /\ Len(Append(p, <<k, t>>)) = Len(p) + 1
<1> DEFINE q == Append(p, <<k, t>>)
<1>1. p \in Seq(Request) /\ Len(p) \in 1 .. Depth /\ Len(p) \in Nat /\ Steps(p)
  BY PathIs, DepthType
<1>2. t \in Site /\ <<k, t>> \in Request
  BY PathLast DEF Range, Request
<1>3. /\ q \in Seq(Request) /\ Len(q) = Len(p) + 1 /\ q[Len(p) + 1] = <<k, t>>
      /\ \A i \in 1 .. Len(p) : q[i] = p[i]
  BY <1>1, <1>2
<1> HIDE DEF q
<1>4. Steps(q)
  <2>1. q[1] = <<"query", Gateway>>
    BY <1>1, <1>3 DEF Steps
  <2>2. ASSUME NEW i \in 2 .. Len(q)
        PROVE  q[i][2] \in Range(Remotes[q[i - 1][2]]) /\ (q[i - 1][1] = "peek" => q[i][1] = "peek")
    <3>1. CASE i = Len(p) + 1
      <4>1. q[i] = <<k, t>> /\ q[i - 1] = p[Len(p)]
        BY <1>1, <1>3, <3>1
      <4>2. p[Len(p)] = <<Last(p)[1], SiteOf(p)>> /\ RemotesOf(p) = Remotes[SiteOf(p)]
        BY PathLast
      <4> QED
        BY <4>1, <4>2
    <3>2. CASE i # Len(p) + 1
      <4>1. i \in 2 .. Len(p) /\ i \in 1 .. Len(p) /\ i - 1 \in 1 .. Len(p)
        BY <1>1, <1>3, <3>2
      <4> QED
        BY <1>1, <1>3, <4>1 DEF Steps
    <3> QED
      BY <3>1, <3>2
  <2> QED
    BY <2>1, <2>2 DEF Steps
<1>5. q \in Path
  <2>1. Len(q) <= Depth /\ Len(q) \in 1 .. Depth
    BY <1>1, <1>3, <1>4, StepsBounded, DepthType
  <2> QED
    BY <1>3, <1>4, <2>1, PathIs
<1>6. Last(q) = <<k, t>>
  BY <1>1, <1>3 DEF Last
<1>7. Front(q) = p
  <2>1. p = [i \in 1 .. Len(p) |-> p[i]]
    BY <1>1
  <2>2. Front(q) = [i \in 1 .. Len(p) |-> q[i]]
    BY <1>1, <1>3 DEF Front
  <2> QED
    BY <1>3, <2>1, <2>2
<1> QED
  BY <1>3, <1>5, <1>6, <1>7 DEF q

(* The requests of a handler to its remotes: where they lead to, and whose *)
(* they are.                                                               *)
LEMMA PeekPath ==
  ASSUME NEW p \in Path, NEW i \in DOMAIN RemotesOf(p)
  PROVE  /\ Peek(p, i) \in Path /\ Last(Peek(p, i))[1] = "peek"
         /\ SiteOf(Peek(p, i)) = RemotesOf(p)[i] /\ Front(Peek(p, i)) = p
         /\ Len(Peek(p, i)) > 1
<1>1. RemotesOf(p)[i] \in Range(RemotesOf(p))
  BY DEF Range
<1>2. Len(p) >= 1 /\ Len(p) \in Nat
  BY PathIs, DepthType
<1> QED
  BY <1>1, <1>2, NextPath DEF Peek, SiteOf

LEMMA ForwardedPath ==
  ASSUME NEW p \in Path, Last(p)[1] = "query", NEW i \in DOMAIN RemotesOf(p)
  PROVE  /\ Forwarded(p, i) \in Path /\ Last(Forwarded(p, i))[1] = "query"
         /\ Front(Forwarded(p, i)) = p /\ Len(Forwarded(p, i)) > 1
<1>1. RemotesOf(p)[i] \in Range(RemotesOf(p))
  BY DEF Range
<1>2. Len(p) >= 1 /\ Len(p) \in Nat
  BY PathIs, DepthType
<1> QED
  BY <1>1, <1>2, NextPath DEF Forwarded

Root == << <<"query", Gateway>> >>

LEMMA RootPath == Root \in Path /\ Len(Root) = 1 /\ Last(Root)[1] = "query"
<1>1. Root \in Seq(Request) /\ Len(Root) = 1 /\ Root[1] = <<"query", Gateway>>
  BY RemoteAssumption DEF Root, Request
<1>2. Steps(Root)
  BY <1>1 DEF Steps
<1>3. 1 <= Depth /\ Len(Root) \in 1 .. Depth
  BY <1>1, <1>2, StepsBounded, DepthType
<1>4. Last(Root) = <<"query", Gateway>>
  BY <1>1 DEF Last
<1>5. Root \in Path
  BY <1>1, <1>2, <1>3, PathIs
<1>6. Last(Root)[1] = "query"
  BY <1>4
<1> QED
  BY <1>1, <1>5, <1>6

(* A handler is not its own parent. *)
LEMMA FrontDiffers == \A p \in Path : Front(p) # p
<1> SUFFICES ASSUME NEW p \in Path, Front(p) = p
             PROVE  FALSE
  OBVIOUS
<1>1. p \in Seq(Request) /\ Len(p) \in 1 .. Depth /\ Len(p) \in Nat
  BY PathIs, DepthType
<1>2. Len(Front(p)) = Len(p) - 1
  BY <1>1 DEF Front
<1> QED
  BY <1>1, <1>2

-----------------------------------------------------------------------------
(* The invariant. *)

RemoteTypeOK ==
  /\ meta \in SUBSET Site
  /\ stage \in [Path -> {"none", "asked", "collect", "forward", "done"}]
  /\ arrived \in [Path -> Seq(Nat)]
  /\ res \in [Path -> BOOLEAN]
  /\ had \in [Path -> BOOLEAN]

(* A handler that has sent no peeks yet has no answers either. *)
NotYetPeeked(p) ==
  stage[p] \in {"none", "asked"} =>
    arrived[p] = << >> /\ \A i \in DOMAIN RemotesOf(p) : stage[Peek(p, i)] = "none"

NotYetForwarded(p) ==
  Last(p)[1] = "query" /\ stage[p] \in {"none", "asked", "collect"} =>
    \A i \in DOMAIN RemotesOf(p) : stage[Forwarded(p, i)] = "none"

(* Each remote answers once, and after its handler. *)
AnswersTaken(p) ==
  /\ arrived[p] \in Seq(DOMAIN RemotesOf(p))
  /\ IsInjective(arrived[p])
  /\ \A i \in Range(arrived[p]) : stage[Peek(p, i)] = "done"

(* A query is forwarded when all have answered, one of them with yes. *)
Forwards(p) ==
  stage[p] = "forward" =>
    /\ Last(p)[1] = "query" /\ Len(arrived[p]) = Len(RemotesOf(p))
    /\ \E i \in DOMAIN RemotesOf(p) : res[Peek(p, i)]

(* When a site knew the entry, one of the remotes it asks knew it too. *)
Passed(p) ==
  Last(p)[1] = "peek" /\ stage[p] = "collect" /\ had[p] =>
    \E i \in DOMAIN RemotesOf(p) : had[Peek(p, i)]

Exact(p) ==
  Last(p)[1] = "peek" /\ stage[p] = "done" => IF res[p] THEN Known(p) ELSE ~ had[p]

HandlerInv(p) ==
  /\ NotYetPeeked(p) /\ NotYetForwarded(p) /\ AnswersTaken(p) /\ Forwards(p)
  /\ had[p] => Known(p)
  /\ Passed(p) /\ Exact(p)

RemoteInv == RemoteTypeOK /\ \A p \in Path : HandlerInv(p)

(* What a site knows its remotes know, or it has it itself. *)
LEMMA KnownUnfolds ==
  ASSUME NEW p \in Path
  PROVE  /\ SiteOf(p) \in meta => Known(p)
         /\ \A i \in DOMAIN RemotesOf(p) : Known(Peek(p, i)) => Known(p)
         /\ Known(p) /\ SiteOf(p) \notin meta => \E i \in DOMAIN RemotesOf(p) : Known(Peek(p, i))
<1>1. SiteOf(p) \in Site /\ RemotesOf(p) = Remotes[SiteOf(p)]
  BY PathLast
<1>2. \A i \in DOMAIN RemotesOf(p) : SiteOf(Peek(p, i)) = RemotesOf(p)[i]
  BY PeekPath
<1>3. Range(Remotes[SiteOf(p)]) = {RemotesOf(p)[i] : i \in DOMAIN RemotesOf(p)}
  BY <1>1 DEF Range
<1> QED
  BY <1>1, <1>2, <1>3, ReachUnfolds DEF Known

LEMMA RemoteInitInv == RemoteInit => RemoteInv
<1> SUFFICES ASSUME RemoteInit
             PROVE  RemoteInv
  OBVIOUS
<1>1. RemoteTypeOK
  BY DEF RemoteInit, RemoteTypeOK
<1>2. ASSUME NEW p \in Path
      PROVE  HandlerInv(p)
  <2>1. stage[p] = "none" /\ arrived[p] = << >> /\ ~ had[p]
    BY DEF RemoteInit
  <2>2. NotYetPeeked(p)
    BY <2>1, PeekPath DEF RemoteInit, NotYetPeeked
  <2>3. NotYetForwarded(p)
    BY <2>1, ForwardedPath DEF RemoteInit, NotYetForwarded
  <2>4. AnswersTaken(p)
    BY <2>1 DEF AnswersTaken, IsInjective, Range
  <2> QED
    BY <2>1, <2>2, <2>3, <2>4 DEF HandlerInv, Forwards, Passed, Exact
<1> QED
  BY <1>1, <1>2 DEF RemoteInv

(* Metadata is only added. *)
LEMMA KnownStays ==
  ASSUME NEW p, meta \subseteq meta', Known(p)
  PROVE  Known(p)'
BY DEF Known

LEMMA PutMetaInv ==
  ASSUME RemoteInv, NEW s \in Site, PutMeta(s)
  PROVE  RemoteInv'
<1>1. RemoteTypeOK' /\ meta \subseteq meta' /\ UNCHANGED <<stage, arrived, res, had>>
  BY DEF PutMeta, RemoteInv, RemoteTypeOK
<1>2. ASSUME NEW p \in Path
      PROVE  HandlerInv(p)'
  <2>1. HandlerInv(p)
    BY DEF RemoteInv
  <2>2. Known(p) => Known(p)'
    BY <1>1, KnownStays
  <2>3. NotYetPeeked(p)' /\ NotYetForwarded(p)' /\ AnswersTaken(p)' /\ Forwards(p)' /\ Passed(p)'
    BY <1>1, <2>1 DEF HandlerInv, NotYetPeeked, NotYetForwarded, AnswersTaken, Forwards, Passed
  <2>4. (had[p] => Known(p))' /\ Exact(p)'
    BY <1>1, <2>1, <2>2 DEF HandlerInv, Exact
  <2> QED
    BY <2>3, <2>4 DEF HandlerInv
<1> QED
  BY <1>1, <1>2 DEF RemoteInv

(* Once all have answered, the last positive answer is found if there is   *)
(* one.                                                                    *)
LEMMA AllAnswers ==
  ASSUME RemoteInv, NEW p \in Path, Len(arrived[p]) = Len(RemotesOf(p))
  PROVE  /\ peek_meta_remotes(p) \in 0 .. Len(RemotesOf(p))
         /\ peek_meta_remotes(p) > 0 <=>
              \E i \in DOMAIN RemotesOf(p) : res[Peek(p, i)]
         /\ \A i \in DOMAIN RemotesOf(p) : stage[Peek(p, i)] = "done"
<1>1. PICK n \in Nat : n = Len(RemotesOf(p)) /\ DOMAIN RemotesOf(p) = 1 .. n
  BY PathLast
<1>2. PICK a : a = arrived[p]
  OBVIOUS
<1>3. /\ a \in Seq(1 .. n) /\ IsInjective(a) /\ Len(a) = n
      /\ \A i \in Range(a) : stage[Peek(p, i)] = "done"
  BY <1>1, <1>2 DEF RemoteInv, HandlerInv, AnswersTaken
<1>4. a \in [1 .. n -> 1 .. n] /\ DOMAIN a = 1 .. n
  BY <1>3
<1>5. Range(a) = 1 .. n
  <2> DEFINE S == 1 .. n
  <2>1. IsFiniteSet(S)
    BY FS_Interval
  <2>2. a \in [S -> S] /\ \A i, j \in S : a[i] = a[j] => i = j
    BY <1>3, <1>4 DEF IsInjective
  <2> HIDE DEF S
  <2>3. a \in Injection(S, S)
    BY <2>2 DEF Injection, IsInjective
  <2>4. a \in Surjection(S, S)
    BY <2>1, <2>3, FS_Injection
  <2> QED
    BY <1>4, <2>4 DEF Surjection, Range, S
<1>6. \A i \in 1 .. n : stage[Peek(p, i)] = "done"
  BY <1>3, <1>5
<1>7. Positive(p) = {k \in 1 .. n : res[Peek(p, a[k])]}
  BY <1>2, <1>4 DEF Positive
<1>8. Positive(p) = {} <=> ~ \E i \in 1 .. n : res[Peek(p, i)]
  BY <1>4, <1>5, <1>7 DEF Range
<1>9. Positive(p) # {} => peek_meta_remotes(p) \in 1 .. n
  <2> SUFFICES ASSUME Positive(p) # {}
               PROVE  peek_meta_remotes(p) \in 1 .. n
    OBVIOUS
  <2> DEFINE S == {n - k : k \in Positive(p)}
  <2>1. Positive(p) \subseteq 1 .. n
    BY <1>7
  <2>2. S \subseteq Nat /\ S # {}
    BY <2>1
  <2>3. PICK x \in S : \A y \in S : x <= y
    BY <2>2, Least
  <2>4. PICK k \in Positive(p) : x = n - k
    OBVIOUS
  <2>5. ASSUME NEW l \in Positive(p)
        PROVE  l <= k
    <3>1. n - k <= n - l /\ k \in 1 .. n /\ l \in 1 .. n
      BY <2>1, <2>3, <2>4
    <3> QED
      BY <3>1
  <2>6. peek_meta_remotes(p) \in Positive(p)
    BY <2>4, <2>5 DEF peek_meta_remotes
  <2> QED
    BY <2>1, <2>6
<1>10. Positive(p) = {} => peek_meta_remotes(p) = 0
  BY DEF peek_meta_remotes
<1> QED
  BY <1>1, <1>6, <1>8, <1>9, <1>10

(* Handlers other than p, and what p has asked for, stay as they are. *)
LEMMA SendInv ==
  ASSUME RemoteInv, NEW p \in Path, NEW at \in {"asked", "collect", "forward"},
         NEW sent \in SUBSET Path, Send(p, at, sent), UNCHANGED <<arrived, res>>,
         \A q \in sent : stage[q] = "none",
         \A q \in sent \ {p} : Len(q) > 1 /\ Front(q) = p,
         p \in sent \/ stage[p] \in {"asked", "collect"},
         at = "asked" => sent = {p} /\ p = Root,
         at = "collect" => sent = Peeks(p) /\ stage[p] = "asked"
                           /\ (Last(p)[1] = "peek" => SiteOf(p) \notin meta),
         at = "forward" => stage[p] = "collect" /\ Last(p)[1] = "query"
                           /\ (\A q \in sent : Last(q)[1] = "query")
                           /\ Len(arrived[p]) = Len(RemotesOf(p))
                           /\ \E i \in DOMAIN RemotesOf(p) : res[Peek(p, i)]
  PROVE  RemoteInv'
<1>1. RemoteTypeOK' /\ meta' = meta /\ arrived' = arrived /\ res' = res
  <2>1. RemoteTypeOK /\ \A q \in Path : Known(q) \in BOOLEAN
    BY DEF RemoteInv, Known
  <2>2. had' \in [Path -> BOOLEAN]
    BY <2>1, Zenon DEF Send, RemoteTypeOK
  <2>3. stage' \in [Path -> {"none", "asked", "collect", "forward", "done"}]
    BY <2>1 DEF Send, RemoteTypeOK
  <2> QED
    BY <2>1, <2>2, <2>3 DEF Send, RemoteTypeOK
<1>2. \A q \in Path : /\ stage'[q] = IF q = p THEN at ELSE IF q \in sent THEN "asked" ELSE stage[q]
                      /\ had'[q] = IF q \in sent THEN Known(q) ELSE had[q]
  BY DEF Send
<1>3. \A q \in Path : Known(q)' = Known(q)
  BY <1>1 DEF Known
<1>4. p \in sent => at = "asked" /\ p = Root /\ sent = {p}
  <2>1. at = "collect" => p \notin sent
    BY PeekPath, FrontDiffers DEF Peeks
  <2>2. at = "forward" => p \notin sent
    OBVIOUS
  <2> QED
    BY <2>1, <2>2
<1>5. ASSUME NEW q \in Path
      PROVE  HandlerInv(q)'
  <2>1. HandlerInv(q)
    BY DEF RemoteInv
  <2>2. \A i \in DOMAIN RemotesOf(q) :
          /\ Peek(q, i) \in Path /\ Last(Peek(q, i))[1] = "peek" /\ Front(Peek(q, i)) = q
          /\ Len(Peek(q, i)) > 1
    BY PeekPath
  <2>3. q = Root => Len(q) = 1
    BY RootPath
  <2>4. \A i \in DOMAIN RemotesOf(q) : Peek(q, i) \in sent => q = p /\ at = "collect"
    BY <1>4, <2>2, RootPath
  <2>5. NotYetPeeked(q)'
    <3> SUFFICES ASSUME stage'[q] \in {"none", "asked"}
                 PROVE  arrived[q] = << >> /\ \A i \in DOMAIN RemotesOf(q) : stage'[Peek(q, i)] = "none"
      BY <1>1 DEF NotYetPeeked
    <3>1. stage[q] \in {"none", "asked"} /\ (q = p => at = "asked")
      BY <1>2
    <3>2. \A i \in DOMAIN RemotesOf(q) : Peek(q, i) \notin sent
      BY <2>4, <3>1
    <3>3. \A i \in DOMAIN RemotesOf(q) : Peek(q, i) # p \/ stage[p] # "none"
      BY <1>4, <2>2, RootPath
    <3> QED
      BY <1>2, <2>1, <2>2, <3>1, <3>2, <3>3 DEF HandlerInv, NotYetPeeked
  <2>6. NotYetForwarded(q)'
    <3> SUFFICES ASSUME Last(q)[1] = "query", stage'[q] \in {"none", "asked", "collect"},
                        NEW i \in DOMAIN RemotesOf(q)
                 PROVE  stage'[Forwarded(q, i)] = "none"
      BY DEF NotYetForwarded
    <3>1. /\ Forwarded(q, i) \in Path /\ Last(Forwarded(q, i))[1] = "query"
          /\ Front(Forwarded(q, i)) = q /\ Len(Forwarded(q, i)) > 1
      BY ForwardedPath
    <3>2. stage[q] \in {"none", "asked", "collect"} /\ (q = p => at # "forward")
      BY <1>2
    <3>3. stage[Forwarded(q, i)] = "none"
      BY <2>1, <3>2 DEF HandlerInv, NotYetForwarded
    <3>4. Forwarded(q, i) \notin sent
      <4>1. at = "collect" => \A x \in sent : Last(x)[1] = "peek"
        BY PeekPath DEF Peeks
      <4>2. at = "asked" => Forwarded(q, i) # p
        BY <3>1, RootPath
      <4> QED
        BY <3>1, <3>2, <4>1, <4>2
    <3>5. Forwarded(q, i) # p
      <4>1. CASE p \in sent
        <5>1. Len(p) = 1
          BY <1>4, <4>1, RootPath, Zenon
        <5>2. ~ (1 > 1)
          OBVIOUS
        <5> QED
          BY <3>1, <5>1, <5>2, Zenon
      <4>2. CASE p \notin sent
        BY <3>3, <4>2
      <4> QED
        BY <4>1, <4>2
    <3> QED
      BY <1>2, <3>1, <3>3, <3>4, <3>5
  <2>7. AnswersTaken(q)'
    <3>1. \A i \in Range(arrived[q]) : i \in DOMAIN RemotesOf(q)
      BY <2>1 DEF HandlerInv, AnswersTaken, Range
    <3>2. ASSUME NEW i \in Range(arrived[q])
          PROVE  stage'[Peek(q, i)] = "done"
      <4>1. stage[Peek(q, i)] = "done"
        BY <2>1 DEF HandlerInv, AnswersTaken
      <4> QED
        BY <1>2, <1>4, <2>2, <3>1, <4>1
    <3> QED
      BY <1>1, <2>1, <3>2 DEF HandlerInv, AnswersTaken
  <2>8. (had[q] => Known(q))'
    BY <1>2, <1>3, <2>1 DEF HandlerInv
  <2>9. Passed(q)'
    <3> SUFFICES ASSUME Last(q)[1] = "peek", stage'[q] = "collect", had'[q]
                 PROVE  \E i \in DOMAIN RemotesOf(q) : had'[Peek(q, i)]
      BY DEF Passed
    <3>1. CASE q = p
      <4>1. at = "collect" /\ had[q] /\ SiteOf(q) \notin meta /\ sent = Peeks(q)
        BY <1>2, <1>4, <3>1
      <4>2. PICK i \in DOMAIN RemotesOf(q) : Known(Peek(q, i))
        BY <2>1, <4>1, KnownUnfolds DEF HandlerInv
      <4> QED
        BY <1>2, <2>2, <4>1, <4>2 DEF Peeks
    <3>2. CASE q # p
      <4>1. q \notin sent /\ stage[q] = "collect" /\ had[q]
        BY <1>2, <3>2
      <4>2. PICK i \in DOMAIN RemotesOf(q) : had[Peek(q, i)]
        BY <2>1, <4>1 DEF HandlerInv, Passed
      <4> QED
        BY <1>2, <2>2, <2>4, <3>2, <4>2
    <3> QED
      BY <3>1, <3>2
  <2>10. Exact(q)'
    BY <1>1, <1>2, <1>3, <2>1 DEF HandlerInv, Exact
  <2>11. Forwards(q)'
    <3> SUFFICES ASSUME stage'[q] = "forward"
                 PROVE  /\ Last(q)[1] = "query" /\ Len(arrived[q]) = Len(RemotesOf(q))
                        /\ \E i \in DOMAIN RemotesOf(q) : res[Peek(q, i)]
      BY <1>1 DEF Forwards
    <3>1. CASE q = p
      BY <1>2, <3>1
    <3>2. CASE q # p
      BY <1>2, <2>1, <3>2 DEF HandlerInv, Forwards
    <3> QED
      BY <3>1, <3>2
  <2> QED
    BY <2>5, <2>6, <2>7, <2>8, <2>9, <2>10, <2>11 DEF HandlerInv
<1> QED
  BY <1>1, <1>5 DEF RemoteInv

(* A handler ends with an answer that is right. *)
LEMMA DoneInv ==
  ASSUME RemoteInv, NEW p \in Path, NEW found \in BOOLEAN, Done(p, found), stage[p] \notin {"none", "done"},
         Last(p)[1] = "peek" => IF found THEN Known(p) ELSE ~ had[p]
  PROVE  RemoteInv'
<1>1. RemoteTypeOK' /\ meta' = meta /\ arrived' = arrived /\ had' = had
  BY DEF Done, RemoteInv, RemoteTypeOK
<1>2. \A q \in Path : /\ stage'[q] = IF q = p THEN "done" ELSE stage[q]
                      /\ res'[q] = IF q = p THEN found ELSE res[q]
  BY DEF Done, RemoteInv, RemoteTypeOK
<1>3. \A q \in Path : Known(q)' = Known(q)
  BY <1>1 DEF Known
<1>4. ASSUME NEW q \in Path
      PROVE  HandlerInv(q)'
  <2>1. HandlerInv(q)
    BY DEF RemoteInv
  <2>2. \A i \in DOMAIN RemotesOf(q) : Peek(q, i) \in Path
    BY PeekPath
  <2>3. NotYetPeeked(q)'
    BY <1>1, <1>2, <2>1, <2>2 DEF HandlerInv, NotYetPeeked
  <2>4. NotYetForwarded(q)'
    BY <1>2, <2>1, ForwardedPath DEF HandlerInv, NotYetForwarded
  <2>5. AnswersTaken(q)'
    <3>1. \A i \in Range(arrived[q]) : i \in DOMAIN RemotesOf(q)
      BY <2>1 DEF HandlerInv, AnswersTaken, Range
    <3> QED
      BY <1>1, <1>2, <2>1, <2>2, <3>1 DEF HandlerInv, AnswersTaken
  <2>6. (had[q] => Known(q))'
    BY <1>1, <1>3, <2>1 DEF HandlerInv
  <2>7. Passed(q)'
    BY <1>1, <1>2, <2>1 DEF HandlerInv, Passed
  <2>8. Exact(q)'
    BY <1>1, <1>2, <1>3, <2>1 DEF HandlerInv, Exact
  <2>9. Forwards(q)'
    <3> SUFFICES ASSUME stage'[q] = "forward"
                 PROVE  /\ Last(q)[1] = "query" /\ Len(arrived[q]) = Len(RemotesOf(q))
                        /\ \E i \in DOMAIN RemotesOf(q) : res'[Peek(q, i)]
      BY <1>1 DEF Forwards
    <3>1. Forwards(q) /\ stage[q] = "forward"
      BY <1>2, <2>1 DEF HandlerInv
    <3>2. PICK i \in DOMAIN RemotesOf(q) : res[Peek(q, i)]
      BY <3>1 DEF Forwards
    <3>3. stage[Peek(q, i)] = "done"
      BY <3>1, AllAnswers DEF Forwards
    <3> QED
      BY <1>2, <2>2, <3>1, <3>2, <3>3 DEF Forwards
  <2> QED
    BY <2>3, <2>4, <2>5, <2>6, <2>7, <2>8, <2>9 DEF HandlerInv
<1> QED
  BY <1>1, <1>4 DEF RemoteInv

LEMMA RemoteStepInv ==
  ASSUME RemoteInv, RemoteNext
  PROVE  RemoteInv'
<1> USE DEF RemoteInv
<1>1. ASSUME NEW s \in Site, PutMeta(s)
      PROVE  RemoteInv'
  BY <1>1, PutMetaInv
<1>2. CASE QueryMeta
  <2>1. Root \in Path /\ stage[Root] = "none" /\ Send(Root, "asked", {Root})
        /\ UNCHANGED <<arrived, res>>
    BY <1>2, RootPath DEF QueryMeta, Root
  <2> QED
    BY <2>1, SendInv
<1>3. ASSUME NEW p \in Path, MetaStep(p)
      PROVE  RemoteInv'
  <2>1. HandlerInv(p) /\ RemoteTypeOK
    OBVIOUS
  <2>2. ASSUME stage[p] = "asked", Last(p)[1] = "peek" => SiteOf(p) \notin meta,
               Send(p, "collect", Peeks(p)), UNCHANGED <<arrived, res>>
        PROVE  RemoteInv'
    <3>1. Peeks(p) \in SUBSET Path /\ \A q \in Peeks(p) : stage[q] = "none"
      BY <2>1, <2>2, PeekPath DEF Peeks, HandlerInv, NotYetPeeked
    <3>2. \A q \in Peeks(p) \ {p} : Len(q) > 1 /\ Front(q) = p
      BY PeekPath DEF Peeks
    <3> QED
      BY <2>2, <3>1, <3>2, SendInv
  <2>3. ASSUME NEW found \in BOOLEAN, stage[p] = "asked", Done(p, found),
               found <=> SiteOf(p) \in meta, SiteOf(p) \in meta \/ RemotesOf(p) = << >>
        PROVE  RemoteInv'
    <3>1. IF found THEN Known(p) ELSE ~ had[p]
      <4>1. SiteOf(p) \notin meta => ~ Known(p)
        BY <2>3, KnownUnfolds
      <4> QED
        BY <2>1, <2>3, <4>1, KnownUnfolds DEF HandlerInv
    <3> QED
      BY <2>3, <3>1, DoneInv
  <2>4. CASE peek_meta_rpc(p)
    <3>1. CASE Done(p, SiteOf(p) \in meta) /\ (SiteOf(p) \in meta \/ RemotesOf(p) = << >>)
      <4>1. PICK found \in BOOLEAN : found = (SiteOf(p) \in meta)
        <5> WITNESS (SiteOf(p) \in meta) \in BOOLEAN
        <5> QED
          OBVIOUS
      <4>2. Done(p, found)
        BY <3>1, <4>1
      <4> QED
        BY <2>3, <2>4, <3>1, <4>1, <4>2 DEF peek_meta_rpc
    <3> QED
      BY <2>2, <2>4, <3>1 DEF peek_meta_rpc
  <2>5. CASE query_meta_rpc(p)
    <3>1. CASE RemotesOf(p) = << >> /\ Done(p, SiteOf(p) \in meta)
      <4>1. PICK found \in BOOLEAN : found = (SiteOf(p) \in meta)
        <5> WITNESS (SiteOf(p) \in meta) \in BOOLEAN
        <5> QED
          OBVIOUS
      <4>2. Done(p, found)
        BY <3>1, <4>1
      <4> QED
        BY <2>3, <2>5, <3>1, <4>1, <4>2 DEF query_meta_rpc
    <3> QED
      BY <2>2, <2>5, <3>1 DEF query_meta_rpc
  <2>6. CASE PeekEnd(p)
    <3>1. Len(arrived[p]) = Len(RemotesOf(p)) /\ Last(p)[1] = "peek" /\ stage[p] = "collect"
          /\ Done(p, peek_meta_remotes(p) > 0)
      BY <2>6 DEF PeekEnd, AllArrived
    <3>2. \A i \in DOMAIN RemotesOf(p) :
            IF res[Peek(p, i)] THEN Known(Peek(p, i)) ELSE ~ had[Peek(p, i)]
      BY <3>1, AllAnswers, PeekPath DEF HandlerInv, Exact
    <3>3. had[p] => \E i \in DOMAIN RemotesOf(p) : had[Peek(p, i)]
      BY <2>1, <3>1 DEF HandlerInv, Passed
    <3>4. IF peek_meta_remotes(p) > 0 THEN Known(p) ELSE ~ had[p]
      BY <3>1, <3>2, <3>3, AllAnswers, KnownUnfolds
    <3>5. PICK found \in BOOLEAN : found = (peek_meta_remotes(p) > 0)
      <4> WITNESS (peek_meta_remotes(p) > 0) \in BOOLEAN
      <4> QED
        OBVIOUS
    <3>6. Done(p, found)
      BY <3>1, <3>5
    <3> QED
      BY <3>1, <3>4, <3>5, <3>6, DoneInv
  <2>7. CASE QueryForward(p)
    <3>1. /\ Len(arrived[p]) = Len(RemotesOf(p)) /\ Last(p)[1] = "query" /\ stage[p] = "collect"
          /\ peek_meta_remotes(p) > 0
          /\ Send(p, "forward", {Forwarded(p, peek_meta_remotes(p))})
          /\ UNCHANGED <<arrived, res>>
      BY <2>7 DEF QueryForward, AllArrived
    <3>2. peek_meta_remotes(p) \in DOMAIN RemotesOf(p)
      BY <3>1, AllAnswers, PathLast
    <3>3. PICK q : q = Forwarded(p, peek_meta_remotes(p))
      OBVIOUS
    <3>4. q \in Path /\ Last(q)[1] = "query" /\ Front(q) = p /\ Len(q) > 1
      BY <3>1, <3>2, <3>3, ForwardedPath
    <3>5. stage[q] = "none"
      BY <2>1, <3>1, <3>2, <3>3 DEF HandlerInv, NotYetForwarded
    <3>6. \E i \in DOMAIN RemotesOf(p) : res[Peek(p, i)]
      BY <3>1, AllAnswers
    <3> QED
      BY <3>1, <3>3, <3>4, <3>5, <3>6, SendInv
  <2>8. CASE QueryLocal(p)
    <3>1. stage[p] = "collect" /\ Last(p)[1] = "query" /\ Done(p, SiteOf(p) \in meta)
      BY <2>8 DEF QueryLocal, AllArrived
    <3>2. PICK found \in BOOLEAN : found = (SiteOf(p) \in meta)
      <4> WITNESS (SiteOf(p) \in meta) \in BOOLEAN
      <4> QED
        OBVIOUS
    <3>3. Done(p, found)
      BY <3>1, <3>2
    <3> QED
      BY <3>1, <3>3, DoneInv
  <2>9. CASE QueryReturn(p)
    <3>1. PICK k : k = peek_meta_remotes(p)
      OBVIOUS
    <3>2. stage[p] = "forward" /\ Done(p, res[Forwarded(p, k)])
      BY <2>9, <3>1 DEF QueryReturn
    <3>3. Last(p)[1] = "query" /\ res[Forwarded(p, k)] \in BOOLEAN
      <4>1. /\ Last(p)[1] = "query" /\ Len(arrived[p]) = Len(RemotesOf(p))
            /\ \E i \in DOMAIN RemotesOf(p) : res[Peek(p, i)]
        BY <2>1, <3>2 DEF HandlerInv, Forwards
      <4>2. k \in DOMAIN RemotesOf(p)
        BY <3>1, <4>1, AllAnswers, PathLast
      <4> QED
        BY <2>1, <4>1, <4>2, ForwardedPath DEF RemoteTypeOK
    <3> QED
      BY <3>2, <3>3, DoneInv
  <2>10. ASSUME NEW i \in DOMAIN RemotesOf(p), WaitAny(p, i)
         PROVE  RemoteInv'
    <3>1. /\ stage[p] = "collect" /\ stage[Peek(p, i)] = "done" /\ i \notin Range(arrived[p])
          /\ arrived' = [arrived EXCEPT ![p] = Append(@, i)]
          /\ UNCHANGED <<meta, stage, res, had>>
      BY <2>10 DEF WaitAny
    <3>2. arrived[p] \in Seq(DOMAIN RemotesOf(p)) /\ IsInjective(arrived[p]) /\ i \in Nat
      BY <2>1, PathLast DEF HandlerInv, AnswersTaken
    <3>3. RemoteTypeOK' /\ \A q \in Path : q # p => arrived'[q] = arrived[q]
      BY <2>1, <3>1, <3>2 DEF RemoteTypeOK
    <3>4. PICK a : a = arrived[p]
      OBVIOUS
    <3>5. arrived'[p] = Append(a, i)
      BY <2>1, <3>1, <3>4 DEF RemoteTypeOK
    <3>6. /\ Append(a, i) \in Seq(DOMAIN RemotesOf(p)) /\ IsInjective(Append(a, i))
          /\ Range(Append(a, i)) = Range(a) \cup {i}
      <4>1. PICK n \in Nat : n = Len(a)
        BY <3>2, <3>4
      <4>2. PICK b : b = Append(a, i)
        OBVIOUS
      <4>3. a \in Seq(DOMAIN RemotesOf(p)) /\ DOMAIN a = 1 .. n
        BY <3>2, <3>4, <4>1
      <4>4. /\ b \in Seq(DOMAIN RemotesOf(p)) /\ Len(b) = n + 1 /\ DOMAIN b = 1 .. n + 1
            /\ b[n + 1] = i /\ \A k \in 1 .. n : b[k] = a[k]
        BY <4>1, <4>2, <4>3
      <4>5. \A k \in 1 .. n + 1 : k = n + 1 \/ k \in 1 .. n
        BY <4>1
      <4>6. Range(b) = Range(a) \cup {i}
        BY <4>3, <4>4, <4>5 DEF Range
      <4>7. \A k \in 1 .. n : a[k] # i
        BY <3>1, <3>4, <4>3 DEF Range
      <4>8. IsInjective(b)
        BY <3>2, <3>4, <4>3, <4>4, <4>5, <4>7 DEF IsInjective
      <4> QED
        BY <4>2, <4>4, <4>6, <4>8
    <3>7. AnswersTaken(p)'
      BY <2>1, <3>1, <3>4, <3>5, <3>6 DEF HandlerInv, AnswersTaken
    <3>8. ASSUME NEW q \in Path
          PROVE  HandlerInv(q)'
      <4>1. HandlerInv(q) /\ Known(q)' = Known(q)
        BY <3>1 DEF Known
      <4>2. CASE q = p
        BY <3>1, <3>7, <4>1, <4>2
           DEF HandlerInv, NotYetPeeked, NotYetForwarded, Forwards, Passed, Exact
      <4>3. CASE q # p
        BY <3>1, <3>3, <4>1, <4>3
           DEF HandlerInv, NotYetPeeked, NotYetForwarded, AnswersTaken, Forwards, Passed, Exact
      <4> QED
        BY <4>2, <4>3
    <3> QED
      BY <3>3, <3>8
  <2> QED
    BY <1>3, <2>4, <2>5, <2>6, <2>7, <2>8, <2>9, <2>10 DEF MetaStep
<1> QED
  BY <1>1, <1>2, <1>3 DEF RemoteNext

(* The answer of a peek is right, for any set of sites that are not each   *)
(* other's remotes, whatever the order of the answers.                     *)
THEOREM PeeksAreExact == RemoteSpec => []PeekExact
<1>1. RemoteInv /\ [RemoteNext]_remoteVars => RemoteInv'
  <2> SUFFICES ASSUME RemoteInv, [RemoteNext]_remoteVars
               PROVE  RemoteInv'
    OBVIOUS
  <2>1. CASE RemoteNext
    BY <2>1, RemoteStepInv
  <2>2. CASE UNCHANGED remoteVars
    BY <2>2 DEF remoteVars, RemoteInv, RemoteTypeOK, HandlerInv, NotYetPeeked, NotYetForwarded,
                AnswersTaken, Forwards, Passed, Exact, Known
  <2> QED
    BY <2>1, <2>2
<1>2. RemoteInv => PeekExact
  BY DEF RemoteInv, HandlerInv, Exact, PeekExact
<1> QED
  BY <1>1, <1>2, RemoteInitInv, PTL DEF RemoteSpec

-----------------------------------------------------------------------------
(* Asynchronous puts. *)

Link == PutReq \cup {NoReq}

PutTypeOK ==
  /\ put_reqs \in Link
  /\ put_reqs_end \in Link
  /\ next \in [PutReq -> Link]
  /\ put_status \in [PutReq -> {"new", "sent", "complete", "finalized", "freed"}]
  /\ put_pc \in {"in use", "fini", "gone", "fault"}

(* The requests that are to be in the list. *)
Outstanding == {r \in PutReq : put_status[r] \in {"sent", "complete"}}

Lists == [head : Link, end : Link, next : [PutReq -> Link]]

(* A list l that has the requests of P, in the order of their rank. *)
Linked(l, P, rank) ==
  /\ l \in Lists
  /\ l.head \in P \cup {NoReq} /\ l.end \in P \cup {NoReq}
  /\ l.head = NoReq <=> P = {}
  /\ l.end = NoReq <=> P = {}
  /\ \A r \in P : /\ l.next[r] \in P \cup {NoReq}
                  /\ l.next[r] = NoReq <=> r = l.end
                  /\ l.next[r] # NoReq => rank[r] < rank[l.next[r]]
                  /\ l.next[r] # l.head
                  /\ r = l.head \/ \E q \in P : l.next[q] = r
  /\ \A q, r \in P : l.next[q] = l.next[r] /\ l.next[q] # NoReq => q = r

Ranks == [PutReq -> Nat]

(* prev is where the search for r in l stops. *)
Before(l, P, prev, r) ==
  \/ prev = NoReq /\ r = l.head
  \/ prev \in P /\ l.next[prev] = r

(* As long as no walk has met two complete neighbours. *)
PutInv ==
  /\ PutTypeOK
  /\ ~ skipped /\ put_pc # "fault"
  /\ \E rank \in Ranks : Linked(List, Outstanding, rank)
  /\ put_pc = "gone" => Outstanding = {}

(* What Unlink and AddTail do to the pointers. *)
LEMMA UnlinkFields ==
  ASSUME NEW l \in Lists, NEW prev \in Link, NEW r \in PutReq
  PROVE  Unlink(l, prev, r) =
           [head |-> IF prev = NoReq THEN l.next[r] ELSE l.head,
            end |-> IF l.next[r] = NoReq THEN prev ELSE l.end,
            next |-> [q \in PutReq |-> IF q = prev THEN l.next[r] ELSE l.next[q]]]
BY IPutAssumption DEF Unlink, Store, Lists, Link

LEMMA AddTailFields ==
  ASSUME NEW l \in Lists, NEW r \in PutReq, l.end # r
  PROVE  AddTail(l, r) =
           [head |-> IF l.end = NoReq THEN r ELSE l.head, end |-> r,
            next |-> [q \in PutReq |-> IF q = r THEN NoReq
                                       ELSE IF q = l.end THEN r ELSE l.next[q]]]
<1> USE IPutAssumption DEF AddTail, Lists, Link
<1>1. CASE l.end = NoReq
  BY <1>1
<1>2. CASE l.end # NoReq
  <2>1. l.end \in PutReq
    BY <1>2
  <2> QED
    BY <1>2, <2>1
<1> QED
  BY <1>1, <1>2

(* A request that is the first and the last one is alone. *)
LEMMA Alone ==
  ASSUME NEW l, NEW P \in SUBSET PutReq, NEW rank \in Ranks, Linked(l, P, rank),
         NEW r \in P, l.head = r, l.end = r
  PROVE  P = {r}
<1>1. SUFFICES ASSUME P \ {r} # {}
               PROVE  FALSE
  OBVIOUS
<1> DEFINE S == {rank[q] : q \in P \ {r}}
<1>2. S \subseteq Nat /\ S # {}
  BY <1>1 DEF Ranks
<1>3. PICK q \in P \ {r} : \A x \in S : rank[q] <= x
  BY <1>2, Least
<1>4. PICK p \in P : l.next[p] = q
  BY DEF Linked
<1>5. p # r /\ rank[p] < rank[q] /\ rank[p] \in Nat /\ rank[q] \in Nat
  BY <1>4, IPutAssumption DEF Linked, Ranks
<1>6. rank[p] \in S
  BY <1>5
<1> QED
  BY <1>3, <1>5, <1>6

(* A request that is taken out leaves the rest linked. *)
LEMMA UnlinkLinked ==
  ASSUME NEW l, NEW P \in SUBSET PutReq, NEW rank \in Ranks, Linked(l, P, rank),
         NEW r \in P, NEW prev, Before(l, P, prev, r)
  PROVE  Linked(Unlink(l, prev, r), P \ {r}, rank)
<1> DEFINE m == Unlink(l, prev, r)
           Q == P \ {r}
<1>1. l \in Lists /\ prev \in Link /\ r \in PutReq /\ NoReq \notin PutReq
  BY IPutAssumption DEF Linked, Before, Link
<1>2. /\ m.head = (IF prev = NoReq THEN l.next[r] ELSE l.head)
      /\ m.end = (IF l.next[r] = NoReq THEN prev ELSE l.end)
      /\ m.next = [q \in PutReq |-> IF q = prev THEN l.next[r] ELSE l.next[q]]
  BY <1>1, UnlinkFields
<1>3. m \in Lists
  <2>1. l.head \in Link /\ l.end \in Link /\ l.next \in [PutReq -> Link] /\ l.next[r] \in Link
    BY <1>1 DEF Lists
  <2> DEFINE h == IF prev = NoReq THEN l.next[r] ELSE l.head
             e == IF l.next[r] = NoReq THEN prev ELSE l.end
             n == [q \in PutReq |-> IF q = prev THEN l.next[r] ELSE l.next[q]]
  <2>2. h \in Link /\ e \in Link /\ n \in [PutReq -> Link]
    BY <1>1, <2>1
  <2>3. m = [head |-> h, end |-> e, next |-> n]
    BY <1>1, UnlinkFields
  <2> HIDE DEF m, h, e, n
  <2> QED
    BY <2>2, <2>3 DEF Lists
<1>4. l.next[r] # r /\ prev # r
  BY <1>1 DEF Linked, Before, Ranks
<1> HIDE DEF m
<1>5. m.head \in Q \cup {NoReq} /\ m.end \in Q \cup {NoReq}
  BY <1>1, <1>2, <1>4 DEF Linked, Before
<1>6. l.next[r] = NoReq /\ prev = NoReq => Q = {}
  <2> SUFFICES ASSUME l.next[r] = NoReq, prev = NoReq
               PROVE  Q = {}
    OBVIOUS
  <2>1. l.head = r /\ l.end = r
    BY <1>1 DEF Linked, Before
  <2> QED
    BY <2>1, Alone
<1>7. /\ m.head = NoReq <=> Q = {}
      /\ m.end = NoReq <=> Q = {}
  <2>1. l.next[r] \in Q \cup {NoReq} /\ prev \in Q \cup {NoReq}
    BY <1>4 DEF Linked, Before
  <2>2. l.head # NoReq /\ l.end # NoReq
    BY DEF Linked
  <2> QED
    BY <1>1, <1>2, <1>6, <2>1, <2>2
<1>8. ASSUME NEW q \in Q
      PROVE  /\ m.next[q] \in Q \cup {NoReq}
             /\ m.next[q] = NoReq <=> q = m.end
             /\ m.next[q] # NoReq => rank[q] < rank[m.next[q]]
             /\ m.next[q] # m.head
             /\ q = m.head \/ \E p \in Q : m.next[p] = q
  <2>1. q \in PutReq /\ q # r /\ m.next[q] = (IF q = prev THEN l.next[r] ELSE l.next[q])
    BY <1>2
  <2>2. l.next[q] = r <=> q = prev
    BY <1>1, <2>1 DEF Linked, Before
  <2>3. m.next[q] \in Q \cup {NoReq}
    BY <1>1, <1>4, <2>1, <2>2 DEF Linked
  <2>4. m.next[q] = NoReq <=> q = m.end
    BY <1>1, <1>2, <1>4, <2>1, <2>2 DEF Linked
  <2>5. m.next[q] # NoReq => rank[q] < rank[m.next[q]]
    <3>1. CASE q = prev
      <4>1. l.next[q] = r /\ rank[q] < rank[r]
        BY <1>1, <2>2, <3>1 DEF Linked
      <4>2. l.next[r] # NoReq => rank[r] < rank[l.next[r]] /\ l.next[r] \in PutReq
        BY <1>1 DEF Linked
      <4> QED
        BY <1>1, <2>1, <3>1, <4>1, <4>2 DEF Ranks
    <3>2. CASE q # prev
      BY <2>1, <3>2 DEF Linked
    <3> QED
      BY <3>1, <3>2
  <2>6. m.next[q] # m.head
    BY <1>1, <1>2, <1>4, <2>1, <2>2 DEF Linked, Before
  <2>7. q = m.head \/ \E p \in Q : m.next[p] = q
    <3>1. CASE q = l.head
      BY <1>1, <1>2, <2>1, <3>1 DEF Linked, Before
    <3>2. CASE q # l.head
      <4>1. PICK p \in P : l.next[p] = q
        BY <3>2 DEF Linked
      <4>2. CASE p = r
        BY <1>1, <1>2, <1>4, <2>1, <4>1, <4>2 DEF Linked, Before
      <4>3. CASE p # r
        <5>1. p # prev
          BY <1>1, <2>1, <4>1 DEF Before
        <5> QED
          BY <1>1, <1>2, <4>1, <4>3, <5>1
      <4> QED
        BY <4>2, <4>3
    <3> QED
      BY <3>1, <3>2
  <2> QED
    BY <2>3, <2>4, <2>5, <2>6, <2>7
<1>9. ASSUME NEW p \in Q, NEW q \in Q, m.next[p] = m.next[q], m.next[p] # NoReq
      PROVE  p = q
  BY <1>1, <1>2, <1>4, <1>9 DEF Linked, Before
<1> QED
  BY <1>3, <1>5, <1>7, <1>8, <1>9 DEF Linked, m

(* A request that is new is linked behind the others. *)
LEMMA AddTailLinked ==
  ASSUME NEW l, NEW P \in SUBSET PutReq, NEW rank \in Ranks, Linked(l, P, rank),
         NEW r \in PutReq \ P
  PROVE  \E higher \in Ranks : Linked(AddTail(l, r), P \cup {r}, higher)
<1> DEFINE m == AddTail(l, r)
           Q == P \cup {r}
           higher == [rank EXCEPT ![r] = IF l.end = NoReq THEN 0 ELSE rank[l.end] + 1]
<1>1. l \in Lists /\ l.end # r /\ NoReq \notin PutReq /\ l.end \in P \cup {NoReq}
  BY IPutAssumption DEF Linked
<1>2. /\ m.head = (IF l.end = NoReq THEN r ELSE l.head)
      /\ m.end = r
      /\ m.next = [q \in PutReq |-> IF q = r THEN NoReq ELSE IF q = l.end THEN r ELSE l.next[q]]
  BY <1>1, AddTailFields
<1>3. m \in Lists
  BY <1>1, AddTailFields DEF Lists, Link
<1>4. higher \in Ranks
  BY <1>1 DEF Ranks
<1>5. higher[r] = (IF l.end = NoReq THEN 0 ELSE rank[l.end] + 1)
      /\ \A q \in P : higher[q] = rank[q] /\ rank[q] \in Nat
  BY DEF Ranks
<1> HIDE DEF m, higher
<1>6. /\ m.head \in Q \cup {NoReq} /\ m.end \in Q \cup {NoReq}
      /\ m.head # NoReq /\ m.end # NoReq /\ Q # {}
  BY <1>1, <1>2 DEF Linked
<1>7. ASSUME NEW q \in Q
      PROVE  /\ m.next[q] \in Q \cup {NoReq}
             /\ m.next[q] = NoReq <=> q = m.end
             /\ m.next[q] # NoReq => higher[q] < higher[m.next[q]]
             /\ m.next[q] # m.head
             /\ q = m.head \/ \E p \in Q : m.next[p] = q
  <2>1. m.next[q] \in Q \cup {NoReq} /\ (m.next[q] = NoReq <=> q = m.end)
    BY <1>1, <1>2 DEF Linked
  <2>2. m.next[q] # NoReq => higher[q] < higher[m.next[q]]
    BY <1>1, <1>2, <1>5 DEF Linked
  <2>3. m.next[q] # m.head
    BY <1>1, <1>2 DEF Linked
  <2>4. q = m.head \/ \E p \in Q : m.next[p] = q
    <3>1. CASE q = r
      BY <1>1, <1>2, <3>1 DEF Linked
    <3>2. CASE q # r /\ q # l.head
      <4>1. PICK p \in P : l.next[p] = q
        BY <3>2 DEF Linked
      <4>2. p # r /\ p # l.end
        BY <1>1, <3>2, <4>1 DEF Linked
      <4> QED
        BY <1>2, <4>1, <4>2
    <3>3. CASE q # r /\ q = l.head
      BY <1>1, <1>2, <3>3 DEF Linked
    <3> QED
      BY <3>1, <3>2, <3>3
  <2> QED
    BY <2>1, <2>2, <2>3, <2>4
<1>8. ASSUME NEW p \in Q, NEW q \in Q, m.next[p] = m.next[q], m.next[p] # NoReq
      PROVE  p = q
  BY <1>1, <1>2, <1>8 DEF Linked
<1>9. Linked(m, Q, higher)
  BY <1>3, <1>6, <1>7, <1>8 DEF Linked
<1> QED
  BY <1>4, <1>9 DEF m

-----------------------------------------------------------------------------
(* Walks along the list. *)

(* Sequence c has the requests of P, in the order of list l. *)
Enumerates(c, l, P) ==
  /\ c \in Seq(P) /\ IsInjective(c) /\ Range(c) = P
  /\ P # {} => c[1] = l.head /\ c[Len(c)] = l.end
  /\ \A k \in 1 .. Len(c) - 1 : l.next[c[k]] = c[k + 1]

Puts == Cardinality(PutReq)

(* The walk is a loop that follows next. *)
LEMMA WalkRuns ==
  ASSUME PutTypeOK
  PROVE  /\ Puts \in Nat /\ Walk \in [0 .. Puts -> Link] /\ Walk[0] = put_reqs
         /\ \A k \in 1 .. Puts :
              Walk[k] = IF Walk[k - 1] = NoReq THEN NoReq ELSE next[Walk[k - 1]]
<1>1. PICK n : n = Puts
  OBVIOUS
<1>2. n \in Nat
  BY <1>1, IPutAssumption, FS_CardinalityType DEF Puts
<1> DEFINE Follow(x) == IF x = NoReq THEN NoReq ELSE next[x]
           turn == [i \in 1 .. n |-> [x \in Link |-> Follow(x)]]
           Body(f) == [k \in 0 .. n |-> IF k = 0 THEN put_reqs
                                        ELSE IF f[k - 1] = NoReq THEN NoReq ELSE next[f[k - 1]]]
           at == CHOOSE f : f = Body(f)
<1>3. \A x \in Link : Follow(x) \in Link
  BY DEF PutTypeOK, Link
<1>4. Loop(turn, n, Link)
  BY <1>3 DEF Loop
<1>5. put_reqs \in Link
  BY DEF PutTypeOK
<1>6. Walk = at
  BY <1>1 DEF Walk, Puts
<1>7. PICK f \in [0 .. n -> Link] :
        f[0] = put_reqs /\ \A i \in 1 .. n : f[i] = turn[i][f[i - 1]]
  <2> HIDE DEF turn
  <2>1. \E f : Run(f, put_reqs, turn, n, Link)
    BY <1>2, <1>4, <1>5, LoopRuns
  <2> QED
    BY <2>1 DEF Run
<1>8. \A i \in 1 .. n : f[i] = Follow(f[i - 1])
  <2> TAKE i \in 1 .. n
  <2>1. f[i - 1] \in Link
    BY <1>2
  <2> QED
    BY <1>7, <2>1
<1>9. f = Body(f)
  <2>1. \A i \in 0 .. n : i # 0 => i \in 1 .. n
    BY <1>2
  <2>2. \A i \in 0 .. n : f[i] = Body(f)[i]
    BY <1>7, <1>8, <2>1
  <2>3. f = [i \in 0 .. n |-> f[i]]
    OBVIOUS
  <2> QED
    BY <2>2, <2>3
<1>10. at = Body(at)
  BY <1>9
<1> HIDE DEF at
<1>11. DOMAIN at = 0 .. n /\ at[0] = put_reqs
  BY <1>2, <1>10
<1>12. \A i \in 1 .. n : at[i] = Follow(at[i - 1])
  BY <1>2, <1>10
<1>13. at \in [0 .. n -> Link]
  <2> DEFINE T == {i \in 0 .. n : at[i] \in Link}
  <2>1. 0 \in T
    BY <1>2, <1>5, <1>11
  <2>2. \A i \in 1 .. n : i - 1 \in T => i \in T
    BY <1>2, <1>3, <1>12
  <2> HIDE DEF T
  <2>3. \A i \in 0 .. n : i \in T
    BY <1>2, <2>1, <2>2, UpTo
  <2>4. at = [i \in 0 .. n |-> at[i]]
    BY <1>10
  <2> QED
    BY <2>3, <2>4 DEF T
<1> QED
  BY <1>1, <1>2, <1>6, <1>11, <1>12, <1>13

(* The walk meets the outstanding requests in the order of the list. *)
LEMMA ChainEnumerates ==
  ASSUME PutTypeOK, NEW P \in SUBSET PutReq, NEW rank \in Ranks, Linked(List, P, rank)
  PROVE  Enumerates(Chain, List, P)
<1>1. PICK n : n = Puts
  OBVIOUS
<1>2. /\ n \in Nat /\ Walk \in [0 .. n -> Link] /\ Walk[0] = put_reqs
      /\ \A k \in 1 .. n : Walk[k] = IF Walk[k - 1] = NoReq THEN NoReq ELSE next[Walk[k - 1]]
  BY <1>1, WalkRuns
<1>3. /\ List.head = put_reqs /\ List.end = put_reqs_end /\ List.next = next
      /\ NoReq \notin PutReq /\ NoReq \notin P
  BY IPutAssumption DEF List
<1>4. Chain = [k \in {k \in 1 .. n + 1 : Walk[k - 1] # NoReq} |-> Walk[k - 1]]
  BY <1>1 DEF Chain, Puts
<1> HIDE DEF Walk
<1>5. \A k \in 0 .. n : Walk[k] \in P \cup {NoReq}
  <2> DEFINE T == {k \in 0 .. n : Walk[k] \in P \cup {NoReq}}
  <2>1. 0 \in T
    BY <1>2, <1>3 DEF Linked
  <2>2. \A k \in 1 .. n : k - 1 \in T => k \in T
    BY <1>2, <1>3 DEF Linked
  <2> HIDE DEF T
  <2>3. \A k \in 0 .. n : k \in T
    BY <1>2, <2>1, <2>2, UpTo
  <2> QED
    BY <2>3 DEF T
<1>6. \A k \in 0 .. n : Walk[k] # NoReq =>
         \A j \in 0 .. k - 1 : Walk[j] # NoReq /\ rank[Walk[j]] < rank[Walk[k]]
  <2> DEFINE T == {k \in 0 .. n : Walk[k] # NoReq =>
                     \A j \in 0 .. k - 1 : Walk[j] # NoReq /\ rank[Walk[j]] < rank[Walk[k]]}
  <2>1. 0 \in T
    BY <1>2
  <2>2. ASSUME NEW k \in 1 .. n, k - 1 \in T, Walk[k] # NoReq, NEW j \in 0 .. k - 1
        PROVE  Walk[j] # NoReq /\ rank[Walk[j]] < rank[Walk[k]]
    <3>1. Walk[k - 1] # NoReq /\ Walk[k] = next[Walk[k - 1]] /\ k - 1 \in 0 .. n
      BY <1>2, <2>2
    <3>2. Walk[k - 1] \in P
      BY <1>5, <3>1
    <3>3. rank[Walk[k - 1]] < rank[Walk[k]]
      BY <1>3, <2>2, <3>1, <3>2 DEF Linked
    <3>4. CASE j = k - 1
      BY <3>1, <3>3, <3>4
    <3>5. CASE j # k - 1
      <4>1. j \in 0 .. (k - 1) - 1 /\ j \in 0 .. n /\ k \in 0 .. n
        BY <1>2, <3>5
      <4>2. Walk[j] # NoReq /\ rank[Walk[j]] < rank[Walk[k - 1]]
        BY <2>2, <3>1, <4>1
      <4>3. rank[Walk[j]] \in Nat /\ rank[Walk[k - 1]] \in Nat /\ rank[Walk[k]] \in Nat
        BY <1>5, <2>2, <3>1, <4>1, <4>2 DEF Ranks
      <4> QED
        BY <3>3, <4>2, <4>3
    <3> QED
      BY <3>4, <3>5
  <2>3. \A k \in 1 .. n : k - 1 \in T => k \in T
    BY <1>2, <2>2
  <2> HIDE DEF T
  <2>4. \A k \in 0 .. n : k \in T
    BY <1>2, <2>1, <2>3, UpTo
  <2> QED
    BY <2>4 DEF T
<1>7. \A j, k \in 0 .. n : j < k /\ Walk[k] # NoReq => Walk[j] # Walk[k]
  <2> SUFFICES ASSUME NEW j \in 0 .. n, NEW k \in 0 .. n, j < k, Walk[k] # NoReq
               PROVE  Walk[j] # Walk[k]
    OBVIOUS
  <2>1. j \in 0 .. k - 1
    BY <1>2
  <2>2. rank[Walk[j]] < rank[Walk[k]] /\ rank[Walk[k]] \in Nat
    BY <1>5, <1>6, <2>1 DEF Ranks
  <2> QED
    BY <2>2
<1>8. Walk[n] = NoReq
  <2>1. SUFFICES ASSUME Walk[n] # NoReq
                 PROVE  FALSE
    OBVIOUS
  <2> DEFINE S == 0 .. n
  <2>2. \A k \in 0 .. n : Walk[k] \in PutReq
    <3> TAKE k \in 0 .. n
    <3>1. k = n \/ k \in 0 .. n - 1
      BY <1>2
    <3>2. n \in 0 .. n
      BY <1>2
    <3> QED
      BY <1>5, <1>6, <2>1, <3>1, <3>2
  <2>3. Walk \in [S -> PutReq]
    BY <1>2, <2>2
  <2>4. IsFiniteSet(S) /\ Cardinality(S) = n + 1
    BY <1>2, FS_Interval
  <2>5. \E x, y \in S : x # y /\ Walk[x] = Walk[y]
    <3>1. Cardinality(PutReq) < Cardinality(S) /\ IsFiniteSet(PutReq)
      BY <1>1, <1>2, <2>4, IPutAssumption DEF Puts
    <3> HIDE DEF S
    <3> QED
      BY <2>3, <2>4, <3>1, FS_PigeonHole
  <2> QED
    BY <1>2, <1>3, <1>7, <2>2, <2>5
<1>9. PICK m \in 0 .. n : Walk[m] = NoReq /\ \A k \in 0 .. m - 1 : Walk[k] # NoReq
  <2> DEFINE S == {k \in 0 .. n : Walk[k] = NoReq}
  <2>1. S \subseteq Nat /\ S # {}
    BY <1>2, <1>8
  <2>2. PICK m \in S : \A k \in S : m <= k
    BY <2>1, Least
  <2>3. \A k \in 0 .. m - 1 : k \in 0 .. n /\ ~ (m <= k)
    BY <1>2
  <2> QED
    BY <2>2, <2>3
<1>10. {k \in 1 .. n + 1 : Walk[k - 1] # NoReq} = 1 .. m
  <2>1. ASSUME NEW k \in 1 .. n + 1, Walk[k - 1] # NoReq
        PROVE  k \in 1 .. m
    <3>1. k - 1 \in 0 .. n /\ m \in Nat /\ (k - 1 # m)
      BY <1>2, <1>9, <2>1
    <3>2. ~ (m < k - 1)
      BY <1>6, <1>9, <2>1, <3>1
    <3> QED
      BY <3>1, <3>2
  <2>2. ASSUME NEW k \in 1 .. m
        PROVE  k \in 1 .. n + 1 /\ Walk[k - 1] # NoReq
    <3>1. k - 1 \in 0 .. m - 1 /\ k \in 1 .. n + 1
      BY <1>2
    <3> QED
      BY <1>9, <3>1
  <2> QED
    BY <2>1, <2>2
<1>11. Chain = [k \in 1 .. m |-> Walk[k - 1]] /\ m \in Nat
  BY <1>2, <1>4, <1>10
<1>12. \A k \in 1 .. m : Walk[k - 1] \in P /\ k - 1 \in 0 .. n /\ k \in 0 .. n
  <2> TAKE k \in 1 .. m
  <2>1. k - 1 \in 0 .. m - 1 /\ k - 1 \in 0 .. n /\ k \in 0 .. n
    BY <1>2
  <2> QED
    BY <1>5, <1>9, <2>1
<1>13. /\ Chain \in [1 .. m -> P] /\ Chain \in Seq(P) /\ Len(Chain) = m
       /\ DOMAIN Chain = 1 .. m /\ \A k \in 1 .. m : Chain[k] = Walk[k - 1]
  <2>1. Chain \in [1 .. m -> P] /\ \A k \in 1 .. m : Chain[k] = Walk[k - 1]
    BY <1>11, <1>12
  <2> HIDE DEF Chain
  <2> QED
    BY <1>11, <2>1
<1> HIDE DEF Chain
<1>14. IsInjective(Chain)
  <2> SUFFICES ASSUME NEW j \in 1 .. m, NEW k \in 1 .. m, Chain[j] = Chain[k]
               PROVE  j = k
    BY <1>13 DEF IsInjective
  <2>1. Walk[j - 1] = Walk[k - 1] /\ Walk[j - 1] # NoReq /\ j - 1 \in 0 .. n /\ k - 1 \in 0 .. n
    BY <1>3, <1>12, <1>13
  <2>2. ~ (j - 1 < k - 1) /\ ~ (k - 1 < j - 1)
    BY <1>7, <2>1
  <2> QED
    BY <2>1, <2>2
<1>15. \A k \in 1 .. m - 1 : next[Chain[k]] = Chain[k + 1]
  <2> TAKE k \in 1 .. m - 1
  <2>1. k \in 1 .. m /\ k + 1 \in 1 .. m /\ k \in 1 .. n /\ (k + 1) - 1 = k
    BY <1>2
  <2>2. Chain[k] = Walk[k - 1] /\ Chain[k + 1] = Walk[k] /\ Walk[k - 1] # NoReq
    BY <1>3, <1>12, <1>13, <2>1
  <2> QED
    BY <1>2, <2>1, <2>2
<1>16. ASSUME m > 0
       PROVE  Chain[1] = put_reqs /\ Chain[m] = put_reqs_end
  <2>1. 1 \in 1 .. m /\ m \in 1 .. m /\ m \in 1 .. n
    BY <1>2, <1>16
  <2>2. Chain[1] = put_reqs
    BY <1>2, <1>13, <2>1
  <2>3. Chain[m] = Walk[m - 1] /\ Walk[m - 1] \in P /\ Walk[m] = NoReq
    BY <1>9, <1>12, <1>13, <2>1
  <2>4. next[Walk[m - 1]] = NoReq
    BY <1>2, <1>3, <2>1, <2>3
  <2> QED
    BY <1>3, <2>2, <2>3, <2>4 DEF Linked
<1>17. P # {} => m > 0
  BY <1>2, <1>3, <1>9 DEF Linked
<1>18. Range(Chain) = P
  <2>1. Range(Chain) \subseteq P
    BY <1>13 DEF Range
  <2>2. SUFFICES ASSUME P \ Range(Chain) # {}
                 PROVE  FALSE
    BY <2>1
  <2> DEFINE S == {rank[q] : q \in P \ Range(Chain)}
  <2>3. S \subseteq Nat /\ S # {}
    BY <2>2 DEF Ranks
  <2>4. PICK q \in P \ Range(Chain) : \A x \in S : rank[q] <= x
    BY <2>3, Least
  <2>5. q # put_reqs
    <3>1. 1 \in 1 .. m
      BY <1>11, <1>17
    <3>2. put_reqs \in Range(Chain)
      BY <1>11, <1>13, <1>16, <1>17, <3>1 DEF Range
    <3> QED
      BY <3>2
  <2>6. PICK p \in P : next[p] = q
    BY <1>3, <2>5 DEF Linked
  <2>7. rank[p] < rank[q] /\ rank[p] \in Nat /\ rank[q] \in Nat
    BY <1>3, <2>6 DEF Linked, Ranks
  <2>8. p \in Range(Chain)
    BY <2>4, <2>7
  <2>9. PICK k \in 1 .. m : Chain[k] = p
    BY <1>13, <2>8 DEF Range
  <2>10. k # m
    BY <1>3, <1>11, <1>16, <2>6, <2>9 DEF Linked
  <2>11. k \in 1 .. m - 1 /\ k + 1 \in 1 .. m
    BY <1>11, <2>10
  <2>12. Chain[k + 1] = q
    BY <1>15, <2>6, <2>9, <2>11
  <2> QED
    BY <1>13, <2>4, <2>11, <2>12 DEF Range
<1> QED
  BY <1>3, <1>13, <1>14, <1>15, <1>16, <1>17, <1>18 DEF Enumerates

-----------------------------------------------------------------------------
(* The walk of dspaces_iput with check set. *)

(* The list after the first i requests of sequence c were looked at, of    *)
(* which those of C are complete.                                          *)
After(i, c, C) ==
  [head |-> IF i >= 1 /\ c[1] \in C THEN next[c[1]] ELSE put_reqs,
   end |-> IF i >= 1 /\ i = Len(c) /\ c[i] \in C
           THEN IF i = 1 THEN NoReq ELSE c[i - 1] ELSE put_reqs_end,
   next |-> [q \in PutReq |-> IF \E j \in 1 .. i - 1 : c[j] = q /\ c[j + 1] \in C
                              THEN next[next[q]] ELSE next[q]]]

(* One turn of the loop. *)
Turn(i, l) ==
  IF Chain[i] \in Complete
  THEN Unlink(l, IF i = 1 THEN NoReq ELSE Chain[i - 1], Chain[i]) ELSE l

LEMMA TurnAfter ==
  ASSUME PutTypeOK, NEW P \in SUBSET PutReq, NEW rank \in Ranks, Linked(List, P, rank),
         Complete \subseteq P, NEW i \in 1 .. Len(Chain)
  PROVE  /\ After(i - 1, Chain, Complete) \in Lists
         /\ Turn(i, After(i - 1, Chain, Complete)) = After(i, Chain, Complete)
<1>1. PICK c : c = Chain
  OBVIOUS
<1>2. PICK C : C = Complete
  OBVIOUS
<1>3. /\ List.head = put_reqs /\ List.end = put_reqs_end /\ List.next = next
      /\ NoReq \notin PutReq /\ NoReq \notin P /\ C \subseteq P
  BY <1>2, IPutAssumption DEF List
<1>4. Enumerates(c, List, P)
  BY <1>1, ChainEnumerates
<1>5. /\ c \in Seq(P) /\ Len(c) \in Nat /\ i \in 1 .. Len(c)
      /\ \A k \in 1 .. Len(c) : c[k] \in P /\ c[k] \in PutReq
  BY <1>1, <1>4 DEF Enumerates
<1>6. /\ \A j, k \in 1 .. Len(c) : c[j] = c[k] => j = k
      /\ \A k \in 1 .. Len(c) - 1 : next[c[k]] = c[k + 1]
      /\ c[1] = put_reqs /\ c[Len(c)] = put_reqs_end
  <2>1. DOMAIN c = 1 .. Len(c) /\ P # {}
    BY <1>5
  <2> QED
    BY <1>3, <1>4, <2>1 DEF Enumerates, IsInjective
<1>7. /\ next \in [PutReq -> Link] /\ put_reqs \in Link /\ put_reqs_end \in Link
      /\ \A q \in P : next[q] \in P \cup {NoReq}
  BY <1>3 DEF PutTypeOK, Linked
<1>8. ASSUME NEW k \in 0 .. Len(c)
      PROVE  After(k, c, C) \in Lists
  <2> DEFINE l == After(k, c, C)
             h == IF k >= 1 /\ c[1] \in C THEN next[c[1]] ELSE put_reqs
             e == IF k >= 1 /\ k = Len(c) /\ c[k] \in C
                  THEN IF k = 1 THEN NoReq ELSE c[k - 1] ELSE put_reqs_end
             n == [q \in PutReq |-> IF \E j \in 1 .. k - 1 : c[j] = q /\ c[j + 1] \in C
                                    THEN next[next[q]] ELSE next[q]]
  <2>1. h \in Link
    BY <1>3, <1>7 DEF Link
  <2>2. e \in Link
    <3>1. k \in 0 .. Len(c) /\ k # 0 /\ k # 1 => k - 1 \in 1 .. Len(c)
      BY <1>5
    <3> QED
      BY <1>5, <1>7, <3>1 DEF Link
  <2>3. n \in [PutReq -> Link]
    <3>1. ASSUME NEW q \in PutReq, NEW j \in 1 .. k - 1, c[j] = q, c[j + 1] \in C
          PROVE  next[next[q]] \in Link
      <4>1. j \in 1 .. Len(c) - 1
        BY <1>5
      <4>2. next[q] = c[j + 1]
        BY <1>6, <3>1, <4>1
      <4> QED
        BY <1>3, <1>7, <3>1, <4>2
    <3> QED
      BY <1>7, <3>1
  <2>4. l = [head |-> h, end |-> e, next |-> n]
    BY DEF After
  <2> HIDE DEF l, h, e, n
  <2>5. l \in Lists
    BY <2>1, <2>2, <2>3, <2>4 DEF Lists
  <2> QED
    BY <2>5 DEF l
<1> DEFINE l == After(i - 1, c, C)
           prev == IF i = 1 THEN NoReq ELSE c[i - 1]
<1>9. l \in Lists /\ After(i, c, C) \in Lists
  BY <1>5, <1>8
<1>10. /\ l.head = (IF i - 1 >= 1 /\ c[1] \in C THEN next[c[1]] ELSE put_reqs)
       /\ l.end = put_reqs_end
       /\ l.next = [q \in PutReq |-> IF \E j \in 1 .. (i - 1) - 1 : c[j] = q /\ c[j + 1] \in C
                                     THEN next[next[q]] ELSE next[q]]
  BY <1>5 DEF After
<1>11. ASSUME c[i] \notin C
       PROVE  l = After(i, c, C)
  <2>1. /\ (i - 1 >= 1 /\ c[1] \in C) <=> (i >= 1 /\ c[1] \in C)
        /\ ~ (i - 1 = Len(c))
    BY <1>5, <1>11
  <2>2. \A q : (\E j \in 1 .. (i - 1) - 1 : c[j] = q /\ c[j + 1] \in C)
             <=> (\E j \in 1 .. i - 1 : c[j] = q /\ c[j + 1] \in C)
    <3>1. \A j \in 1 .. i - 1 : j \in 1 .. (i - 1) - 1 \/ j + 1 = i
      BY <1>5
    <3>2. \A j \in 1 .. (i - 1) - 1 : j \in 1 .. i - 1
      BY <1>5
    <3> QED
      BY <1>11, <3>1, <3>2
  <2> QED
    BY <1>11, <2>1, <2>2 DEF After
<1>12. ASSUME c[i] \in C
       PROVE  Unlink(l, prev, c[i]) = After(i, c, C)
  <2>1. l.next[c[i]] = next[c[i]]
    <3>1. \A j \in 1 .. (i - 1) - 1 : j \in 1 .. Len(c) /\ j # i
      BY <1>5
    <3> QED
      BY <1>5, <1>6, <1>10, <3>1
  <2>2. next[c[i]] = NoReq <=> i = Len(c)
    <3>1. i # Len(c) => i \in 1 .. Len(c) - 1 /\ i + 1 \in 1 .. Len(c)
      BY <1>5
    <3>2. i = Len(c) => next[c[i]] = NoReq
      BY <1>3, <1>5, <1>6 DEF Linked
    <3>3. i # Len(c) => next[c[i]] \in P
      BY <1>5, <1>6, <3>1
    <3> QED
      BY <1>3, <3>2, <3>3
  <2>3. prev \in Link /\ c[i] \in PutReq
    <3>1. i # 1 => i - 1 \in 1 .. Len(c)
      BY <1>5
    <3> QED
      BY <1>5, <3>1 DEF Link
  <2> DEFINE h == IF prev = NoReq THEN l.next[c[i]] ELSE l.head
             e == IF l.next[c[i]] = NoReq THEN prev ELSE l.end
             n == [q \in PutReq |-> IF q = prev THEN l.next[c[i]] ELSE l.next[q]]
             h2 == IF i >= 1 /\ c[1] \in C THEN next[c[1]] ELSE put_reqs
             e2 == IF i >= 1 /\ i = Len(c) /\ c[i] \in C
                   THEN IF i = 1 THEN NoReq ELSE c[i - 1] ELSE put_reqs_end
             n2 == [q \in PutReq |-> IF \E j \in 1 .. i - 1 : c[j] = q /\ c[j + 1] \in C
                                     THEN next[next[q]] ELSE next[q]]
  <2>4. Unlink(l, prev, c[i]) = [head |-> h, end |-> e, next |-> n]
    BY <1>9, <2>3, UnlinkFields
  <2>5. After(i, c, C) = [head |-> h2, end |-> e2, next |-> n2]
    BY DEF After
  <2>6. prev = NoReq <=> i = 1
    <3>1. i # 1 => i - 1 \in 1 .. Len(c)
      BY <1>5
    <3> QED
      BY <1>3, <1>5, <3>1
  <2>7. h = h2
    BY <1>5, <1>10, <1>12, <2>1, <2>6
  <2>8. e = e2
    BY <1>5, <1>10, <1>12, <2>1, <2>2
  <2>9. n = n2
    <3>1. ASSUME NEW q \in PutReq
          PROVE  n[q] = n2[q]
      <4>1. CASE q = prev
        <5>1. i # 1 /\ i - 1 \in 1 .. i - 1 /\ c[i - 1] = q /\ (i - 1) + 1 = i
              /\ i - 1 \in 1 .. Len(c) - 1
          BY <1>3, <1>5, <2>6, <4>1
        <5>2. next[q] = c[i]
          BY <1>6, <5>1
        <5>3. n2[q] = next[next[q]]
          BY <1>12, <5>1
        <5> QED
          BY <2>1, <4>1, <5>2, <5>3
      <4>2. CASE q # prev
        <5>1. (\E j \in 1 .. (i - 1) - 1 : c[j] = q /\ c[j + 1] \in C)
              <=> (\E j \in 1 .. i - 1 : c[j] = q /\ c[j + 1] \in C)
          <6>1. \A j \in 1 .. i - 1 : j \in 1 .. (i - 1) - 1 \/ (j = i - 1 /\ i # 1)
            BY <1>5
          <6>2. \A j \in 1 .. (i - 1) - 1 : j \in 1 .. i - 1
            BY <1>5
          <6> QED
            BY <4>2, <6>1, <6>2
        <5> QED
          BY <1>10, <4>2, <5>1
      <4> QED
        BY <4>1, <4>2
    <3> HIDE DEF prev, l
    <3> QED
      BY <3>1
  <2> QED
    BY <2>4, <2>5, <2>7, <2>8, <2>9
<1>13. Turn(i, l) = After(i, c, C)
  BY <1>1, <1>2, <1>11, <1>12 DEF Turn
<1> QED
  BY <1>1, <1>2, <1>9, <1>13

(* List m is the present one without the requests of C, no two of which    *)
(* are neighbours.                                                         *)
Skips(m, P, C) ==
  /\ m \in Lists
  /\ m.head = IF put_reqs \in C THEN next[put_reqs] ELSE put_reqs
  /\ IF put_reqs_end \in C THEN Before(List, P, m.end, put_reqs_end)
     ELSE m.end = put_reqs_end
  /\ \A q \in P : m.next[q] = IF next[q] \in C THEN next[next[q]] ELSE next[q]

(* What the whole loop makes of the list. *)
LEMMA CheckedSkips ==
  ASSUME PutTypeOK, NEW P \in SUBSET PutReq, NEW rank \in Ranks, Linked(List, P, rank),
         Complete \subseteq P
  PROVE  Skips(Checked, P, Complete)
<1>1. PICK c : c = Chain
  OBVIOUS
<1>2. PICK C : C = Complete
  OBVIOUS
<1>3. /\ List.head = put_reqs /\ List.end = put_reqs_end /\ List.next = next
      /\ NoReq \notin PutReq /\ NoReq \notin P /\ C \subseteq P /\ NoReq \notin C
  BY <1>2, IPutAssumption DEF List
<1>4. Enumerates(c, List, P)
  BY <1>1, ChainEnumerates
<1>5. PICK n \in Nat : n = Len(c)
  BY <1>4 DEF Enumerates
<1>6. /\ c \in Seq(P) /\ \A k \in 1 .. n : c[k] \in P
      /\ \A q \in P : \E k \in 1 .. n : c[k] = q
      /\ \A j, k \in 1 .. n : c[j] = c[k] => j = k
      /\ \A k \in 1 .. n - 1 : next[c[k]] = c[k + 1]
      /\ n > 0 => c[1] = put_reqs /\ c[n] = put_reqs_end
  <2>1. c \in Seq(P) /\ DOMAIN c = 1 .. n /\ \A k \in 1 .. n : c[k] \in P
    BY <1>4, <1>5 DEF Enumerates
  <2>2. n > 0 => P # {}
    BY <2>1
  <2> QED
    BY <1>3, <1>4, <1>5, <2>1, <2>2 DEF Enumerates, IsInjective, Range
<1> DEFINE Body(f) == [i \in 0 .. n |-> IF i = 0 THEN List
                         ELSE IF c[i] \in C
                              THEN Unlink(f[i - 1], IF i = 1 THEN NoReq ELSE c[i - 1], c[i])
                              ELSE f[i - 1]]
           list == CHOOSE f : f = Body(f)
           run == [i \in 0 .. n |-> After(i, c, C)]
<1>7. Checked = list[n]
  BY <1>1, <1>2, <1>5 DEF Checked
<1>8. After(0, c, C) = List
  <2>1. ~ (0 >= 1) /\ \A q : ~ \E j \in 1 .. 0 - 1 : c[j] = q /\ c[j + 1] \in C
    OBVIOUS
  <2>2. next = [q \in PutReq |-> IF \E j \in 1 .. 0 - 1 : c[j] = q /\ c[j + 1] \in C
                                 THEN next[next[q]] ELSE next[q]]
    BY <2>1 DEF PutTypeOK
  <2> QED
    BY <2>1, <2>2 DEF After, List
<1>9. \A i \in 1 .. n : After(i, c, C) =
        IF c[i] \in C THEN Unlink(After(i - 1, c, C), IF i = 1 THEN NoReq ELSE c[i - 1], c[i])
        ELSE After(i - 1, c, C)
  BY <1>1, <1>2, <1>5, TurnAfter DEF Turn
<1>10. run = Body(run)
  <2> HIDE DEF After, Unlink
  <2>1. \A i \in 0 .. n : i # 0 => i \in 1 .. n /\ i - 1 \in 0 .. n
    BY <1>5
  <2>2. \A i \in 0 .. n : run[i] = Body(run)[i]
    BY <1>8, <1>9, <2>1
  <2> QED
    BY <2>2
<1>11. list = Body(list)
  BY <1>10
<1> HIDE DEF list
<1>12. list[n] = After(n, c, C)
  <2> DEFINE T == {i \in 0 .. n : list[i] = After(i, c, C)}
  <2>1. 0 \in T
    BY <1>5, <1>8, <1>11
  <2>2. ASSUME NEW i \in 1 .. n, i - 1 \in T
        PROVE  i \in T
    <3>1. i \in 0 .. n /\ i # 0
      BY <1>5
    <3>2. list[i] = Body(list)[i]
      BY <1>11
    <3>3. list[i] = IF c[i] \in C
                    THEN Unlink(list[i - 1], IF i = 1 THEN NoReq ELSE c[i - 1], c[i])
                    ELSE list[i - 1]
      BY <3>1, <3>2
    <3> HIDE DEF Body
    <3> QED
      BY <1>9, <2>2, <3>1, <3>3
  <2> HIDE DEF T
  <2>3. \A i \in 0 .. n : i \in T
    BY <1>5, <2>1, <2>2, UpTo
  <2> QED
    BY <1>5, <2>3 DEF T
<1> DEFINE m == After(n, c, C)
<1>13. m \in Lists
  <2>1. CASE n = 0
    BY <1>8, <2>1 DEF Linked
  <2>2. CASE n # 0
    <3>1. n \in 1 .. n
      BY <1>5, <2>2
    <3> DEFINE h == IF n >= 1 /\ c[1] \in C THEN next[c[1]] ELSE put_reqs
               e == IF n >= 1 /\ n = Len(c) /\ c[n] \in C
                    THEN IF n = 1 THEN NoReq ELSE c[n - 1] ELSE put_reqs_end
               x == [q \in PutReq |-> IF \E j \in 1 .. n - 1 : c[j] = q /\ c[j + 1] \in C
                                      THEN next[next[q]] ELSE next[q]]
    <3>2. h \in Link
      BY <1>3 DEF Link, PutTypeOK
    <3>3. e \in Link
      <4>1. n # 1 => n - 1 \in 1 .. n
        BY <1>5, <2>2
      <4> QED
        BY <1>3, <1>6, <4>1 DEF Link, PutTypeOK
    <3>4. x \in [PutReq -> Link]
      <4>1. ASSUME NEW q \in PutReq, NEW j \in 1 .. n - 1, c[j] = q, c[j + 1] \in C
            PROVE  next[next[q]] \in Link
        BY <1>3, <1>6, <4>1 DEF PutTypeOK
      <4> QED
        BY <4>1 DEF PutTypeOK
    <3>5. m = [head |-> h, end |-> e, next |-> x]
      BY DEF After
    <3> HIDE DEF m, h, e, x
    <3> QED
      BY <3>2, <3>3, <3>4, <3>5 DEF Lists
  <2> QED
    BY <2>1, <2>2
<1>14. n = 0 => P = {} /\ put_reqs = NoReq /\ put_reqs_end = NoReq
  BY <1>3, <1>6 DEF Linked
<1>15. m.head = IF put_reqs \in C THEN next[put_reqs] ELSE put_reqs
  BY <1>3, <1>5, <1>6, <1>14 DEF After
<1>16. IF put_reqs_end \in C THEN Before(List, P, m.end, put_reqs_end)
       ELSE m.end = put_reqs_end
  <2>1. CASE put_reqs_end \notin C
    BY <1>3, <1>5, <1>6, <2>1 DEF After
  <2>2. CASE put_reqs_end \in C
    <3>1. n > 0 /\ c[n] = put_reqs_end /\ c[1] = put_reqs
      BY <1>3, <1>5, <1>6, <1>14, <2>2
    <3>2. m.end = IF n = 1 THEN NoReq ELSE c[n - 1]
      BY <1>5, <2>2, <3>1 DEF After
    <3>3. n # 1 => n - 1 \in 1 .. n - 1 /\ n - 1 \in 1 .. n /\ (n - 1) + 1 = n
      BY <1>5, <3>1
    <3> QED
      BY <1>3, <1>6, <2>2, <3>1, <3>2, <3>3 DEF Before
  <2> QED
    BY <2>1, <2>2
<1>17. ASSUME NEW q \in P
       PROVE  m.next[q] = IF next[q] \in C THEN next[next[q]] ELSE next[q]
  <2>1. PICK k \in 1 .. n : c[k] = q
    BY <1>6
  <2>2. m.next[q] = IF \E j \in 1 .. n - 1 : c[j] = q /\ c[j + 1] \in C
                    THEN next[next[q]] ELSE next[q]
    BY DEF After
  <2>3. \A j \in 1 .. n - 1 : c[j] = q => c[j + 1] = next[q]
    BY <1>6
  <2>4. CASE k = n
    <3>1. next[q] = NoReq
      BY <1>3, <1>5, <1>6, <2>1, <2>4 DEF Linked
    <3> QED
      BY <1>3, <2>2, <2>3, <3>1
  <2>5. CASE k # n
    <3>1. k \in 1 .. n - 1
      BY <1>5, <2>5
    <3> QED
      BY <2>1, <2>2, <2>3, <3>1
  <2> QED
    BY <2>4, <2>5
<1> HIDE DEF m
<1> QED
  BY <1>2, <1>7, <1>12, <1>13, <1>15, <1>16, <1>17 DEF Skips, m

(* What is left is linked, when no two neighbours were taken out. *)
LEMMA SkipsLinked ==
  ASSUME NEW P \in SUBSET PutReq, NEW rank \in Ranks, Linked(List, P, rank),
         NEW C \in SUBSET P, \A q \in C : next[q] \notin C,
         NEW m, Skips(m, P, C)
  PROVE  Linked(m, P \ C, rank)
<1> DEFINE Q == P \ C
<1>1. /\ List.head = put_reqs /\ List.end = put_reqs_end /\ List.next = next
      /\ NoReq \notin PutReq /\ NoReq \notin P /\ NoReq \notin C
  BY IPutAssumption DEF List
<1>2. m \in Lists /\ m.head \in Q \cup {NoReq} /\ m.end \in Q \cup {NoReq}
  BY <1>1 DEF Linked, Skips, Before
<1>3. m.head = NoReq \/ m.end = NoReq => Q = {}
  <2>1. CASE P = {}
    BY <2>1
  <2>2. CASE P # {}
    <3>1. SUFFICES ASSUME m.head = NoReq \/ m.end = NoReq
                   PROVE  put_reqs = put_reqs_end /\ put_reqs \in C
      <4>1. put_reqs \in P /\ put_reqs = put_reqs_end => P = {put_reqs}
        BY <1>1, Alone
      <4> QED
        BY <3>1, <4>1
    <3>2. put_reqs \in P /\ put_reqs_end \in P
      BY <1>1, <2>2 DEF Linked
    <3>3. CASE m.head = NoReq
      BY <1>1, <3>2, <3>3 DEF Linked, Skips
    <3>4. CASE m.end = NoReq
      BY <1>1, <3>2, <3>4 DEF Skips, Before
    <3> QED
      BY <3>1, <3>3, <3>4
  <2> QED
    BY <2>1, <2>2
<1>4. ASSUME NEW r \in Q
      PROVE  /\ m.next[r] \in Q \cup {NoReq}
             /\ m.next[r] = NoReq <=> r = m.end
             /\ m.next[r] # NoReq => rank[r] < rank[m.next[r]]
             /\ m.next[r] # m.head
             /\ r = m.head \/ \E q \in Q : m.next[q] = r
  <2>1. /\ next[r] \in P \cup {NoReq}
        /\ m.next[r] = IF next[r] \in C THEN next[next[r]] ELSE next[r]
    BY <1>1 DEF Linked, Skips
  <2>2. m.next[r] \in Q \cup {NoReq}
    BY <1>1, <2>1 DEF Linked
  <2>3. m.next[r] = NoReq <=> r = m.end
    <3>1. CASE put_reqs_end \in C
      BY <1>1, <2>1, <3>1 DEF Linked, Skips, Before
    <3>2. CASE put_reqs_end \notin C
      BY <1>1, <2>1, <3>2 DEF Linked, Skips
    <3> QED
      BY <3>1, <3>2
  <2>4. m.next[r] # NoReq => rank[r] < rank[m.next[r]]
    <3>1. CASE next[r] \in C
      <4>1. rank[r] < rank[next[r]] /\ rank[r] \in Nat /\ rank[next[r]] \in Nat
        BY <1>1, <3>1 DEF Linked, Ranks
      <4>2. next[next[r]] # NoReq => rank[next[r]] < rank[next[next[r]]]
                                     /\ rank[next[next[r]]] \in Nat
        BY <1>1, <3>1 DEF Linked, Ranks
      <4> QED
        BY <2>1, <3>1, <4>1, <4>2
    <3>2. CASE next[r] \notin C
      BY <1>1, <2>1, <3>2 DEF Linked
    <3> QED
      BY <3>1, <3>2
  <2>5. m.next[r] # m.head
    <3>1. CASE put_reqs \in C
      BY <1>1, <1>3, <2>1, <3>1 DEF Linked, Skips
    <3>2. CASE put_reqs \notin C
      BY <1>1, <2>1, <3>2 DEF Linked, Skips
    <3> QED
      BY <3>1, <3>2
  <2>6. r = m.head \/ \E q \in Q : m.next[q] = r
    <3>1. CASE r = put_reqs
      BY <3>1 DEF Skips
    <3>2. CASE r # put_reqs
      <4>1. PICK p \in P : next[p] = r
        BY <1>1, <3>2 DEF Linked
      <4>2. CASE p \notin C
        BY <4>1, <4>2 DEF Skips
      <4>3. CASE p \in C /\ p = put_reqs
        BY <4>1, <4>3 DEF Skips
      <4>4. CASE p \in C /\ p # put_reqs
        <5>1. PICK q \in P : next[q] = p
          BY <1>1, <4>4 DEF Linked
        <5> QED
          BY <4>1, <4>4, <5>1 DEF Skips
      <4> QED
        BY <4>2, <4>3, <4>4
    <3> QED
      BY <3>1, <3>2
  <2> QED
    BY <2>2, <2>3, <2>4, <2>5, <2>6
<1>5. ASSUME NEW q \in Q, NEW r \in Q, m.next[q] = m.next[r], m.next[q] # NoReq
      PROVE  q = r
  BY <1>1, <1>5 DEF Linked, Skips
<1> QED
  BY <1>1, <1>2, <1>3, <1>4, <1>5 DEF Linked

(* A place of r in sequence c of length n, and the first one. *)
Somewhere(c, n, r) == \E k \in 1 .. n : c[k] = r
Foremost(c, n, r) == \E k \in 1 .. n : c[k] = r /\ \A j \in 1 .. k - 1 : c[j] # r

LEMMA FirstPlace ==
  ASSUME NEW n \in Nat, NEW c, NEW r, Somewhere(c, n, r)
  PROVE  Foremost(c, n, r)
<1> DEFINE S == {k \in 1 .. n : c[k] = r}
<1>1. S \subseteq Nat /\ S # {}
  BY DEF Somewhere
<1>2. PICK k \in S : \A j \in S : k <= j
  BY <1>1, Least
<1>3. \A j \in 1 .. k - 1 : j \in 1 .. n /\ ~ (k <= j)
  OBVIOUS
<1> QED
  BY <1>2, <1>3 DEF Foremost

(* The search of check_put stops in front of the request it looks for. *)
LEMMA PrevBefore ==
  ASSUME PutTypeOK, NEW P \in SUBSET PutReq, NEW rank \in Ranks, Linked(List, P, rank),
         NEW r \in P
  PROVE  Before(List, P, Prev(r), r)
<1>1. PICK c : c = Chain
  OBVIOUS
<1>2. Enumerates(c, List, P)
  BY <1>1, ChainEnumerates
<1>3. PICK n \in Nat : n = Len(c)
  BY <1>2 DEF Enumerates
<1>4. c \in Seq(P) /\ DOMAIN c = 1 .. n /\ \A k \in 1 .. n : c[k] \in P
  BY <1>2, <1>3 DEF Enumerates
<1> DEFINE i == CHOOSE i \in DOMAIN c : c[i] = r /\ \A j \in 1 .. i - 1 : c[j] # r
<1>5. r \in Range(c) /\ \E k \in DOMAIN c : c[k] = r /\ \A j \in 1 .. k - 1 : c[j] # r
  <2>1. r \in Range(c) /\ Somewhere(c, n, r)
    BY <1>2, <1>4 DEF Enumerates, Range, Somewhere
  <2>2. Foremost(c, n, r)
    BY <1>3, <2>1, FirstPlace
  <2> QED
    BY <1>4, <2>1, <2>2 DEF Foremost
<1>6. i \in 1 .. n /\ c[i] = r
  BY <1>4, <1>5
<1>7. Place(r) = i /\ Prev(r) = IF i = 1 THEN NoReq ELSE c[i - 1]
  BY <1>1, <1>5 DEF Prev, Place
<1> HIDE DEF i
<1>8. CASE i = 1
  BY <1>2, <1>6, <1>7, <1>8 DEF Enumerates, Before
<1>9. CASE i # 1
  <2>1. i - 1 \in 1 .. n - 1 /\ i - 1 \in 1 .. n /\ (i - 1) + 1 = i
    BY <1>6, <1>9
  <2> QED
    BY <1>2, <1>3, <1>4, <1>6, <1>7, <1>9, <2>1 DEF Enumerates, Before
<1> QED
  BY <1>8, <1>9

-----------------------------------------------------------------------------
(* Steps. *)

LEMMA PutInitInv == PutInit => PutInv
<1> SUFFICES ASSUME PutInit
             PROVE  PutInv
  OBVIOUS
<1>1. PutTypeOK /\ Outstanding = {} /\ put_pc = "in use" /\ ~ skipped
  BY IPutAssumption DEF PutInit, PutTypeOK, Outstanding, Link
<1>2. List \in Lists /\ List.head = NoReq /\ List.end = NoReq
  BY <1>1 DEF PutInit, PutTypeOK, List, Lists
<1> DEFINE rank == [r \in PutReq |-> 0]
<1>3. rank \in Ranks
  BY DEF Ranks
<1> HIDE DEF rank
<1>4. Linked(List, Outstanding, rank)
  BY <1>1, <1>2 DEF Linked
<1> QED
  BY <1>1, <1>3, <1>4 DEF PutInv

(* What is left to show of a step: its list. *)
LEMMA PutInvNext ==
  ASSUME PutTypeOK', ~ skipped', put_pc' # "fault",
         NEW P, P = Outstanding', NEW rank \in Ranks, NEW m, Linked(m, P, rank),
         SetList(m), put_pc' = "gone" => P = {}
  PROVE  PutInv'
<1>1. List' = m
  <2>1. m \in Lists
    BY DEF Linked
  <2> QED
    BY <2>1 DEF List, SetList, Lists
<1>2. Linked(List', Outstanding', rank)
  BY <1>1
<1>3. (\E x \in Ranks : Linked(List, Outstanding, x))'
  <2> SUFFICES \E x \in Ranks : Linked(List', Outstanding', x)
    BY DEF Linked, Lists, Link, Ranks
  <2> QED
    BY <1>2
<1> QED
  BY <1>3 DEF PutInv

(* A list of the right type is stored in variables of the right type. *)
LEMMA SetListType ==
  ASSUME NEW m \in Lists, SetList(m)
  PROVE  put_reqs' \in Link /\ put_reqs_end' \in Link /\ next' \in [PutReq -> Link]
BY DEF SetList, Lists

LEMMA PutStepInv ==
  ASSUME PutInv, PutNext, ~ skipped'
  PROVE  PutInv'
<1>1. PutTypeOK /\ ~ skipped /\ put_pc # "fault" /\ (put_pc = "gone" => Outstanding = {})
  BY DEF PutInv
<1>2. PICK rank \in Ranks : Linked(List, Outstanding, rank)
  BY DEF PutInv
<1> DEFINE P == Outstanding
<1>3. P \in SUBSET PutReq
  BY DEF Outstanding
<1>4. SetList(List) <=> UNCHANGED <<put_reqs, put_reqs_end, next>>
  BY DEF SetList, List
<1>5. Range(Chain) = P
  BY <1>1, <1>2, <1>3, ChainEnumerates DEF Enumerates
<1>6. ASSUME NEW r \in PutReq, Answer(r)
      PROVE  PutInv'
  <2>1. PutTypeOK' /\ Outstanding' = P /\ put_pc' = put_pc
    BY <1>1, <1>6 DEF Answer, PutTypeOK, Outstanding
  <2>2. SetList(List)
    BY <1>4, <1>6 DEF Answer
  <2> QED
    BY <1>1, <1>2, <2>1, <2>2, PutInvNext
<1>7. ASSUME NEW r \in PutReq, NEW m, NEW C \in SUBSET P, Linked(m, P \ C, rank),
             put_status[r] = "new", put_pc = "in use", SetList(AddTail(m, r)), put_pc' = put_pc,
             put_status' = [q \in PutReq |-> IF q = r THEN "sent" ELSE
                              IF q \in C THEN "finalized" ELSE put_status[q]]
      PROVE  PutInv'
  <2>1. r \notin P \ C /\ P \ C \in SUBSET PutReq
    BY <1>3, <1>7 DEF Outstanding
  <2>2. PICK higher \in Ranks : Linked(AddTail(m, r), (P \ C) \cup {r}, higher)
    BY <1>7, <2>1, AddTailLinked
  <2>3. Outstanding' = (P \ C) \cup {r}
    BY <1>3, <1>7 DEF Outstanding
  <2>4. AddTail(m, r) \in Lists
    BY <2>2 DEF Linked
  <2>5. PutTypeOK'
    <3>1. put_reqs' \in Link /\ put_reqs_end' \in Link /\ next' \in [PutReq -> Link]
      BY <1>7, <2>4, SetListType
    <3> QED
      BY <1>1, <1>7, <3>1 DEF PutTypeOK
  <2> QED
    BY <1>7, <2>2, <2>3, <2>5, PutInvNext
<1>8. ASSUME NEW r \in PutReq, dspaces_iput(r)
      PROVE  PutInv'
  <2>1. put_status' = [q \in PutReq |-> IF q = r THEN "sent" ELSE
                          IF q \in {} THEN "finalized" ELSE put_status[q]]
    BY <1>1, <1>8 DEF dspaces_iput, PutTypeOK
  <2>2. Linked(List, P \ {}, rank) /\ {} \in SUBSET P
    BY <1>2
  <2> HIDE DEF P
  <2> QED
    BY <1>7, <1>8, <2>1, <2>2 DEF dspaces_iput
<1>9. ASSUME NEW r \in PutReq, dspaces_iput_check(r)
      PROVE  PutInv'
  <2>1. Complete \in SUBSET P /\ Complete \subseteq P
    BY DEF Complete, Outstanding
  <2>2. \A q \in Complete : next[q] \notin Complete
    <3>1. PICK c : c = Chain
      OBVIOUS
    <3>2. PICK n \in Nat : n = Len(c)
      BY <1>1, <1>2, <1>3, <3>1, ChainEnumerates DEF Enumerates
    <3>3. /\ c \in Seq(P) /\ DOMAIN c = 1 .. n /\ Range(c) = P
          /\ \A k \in 1 .. n - 1 : next[c[k]] = c[k + 1]
          /\ P # {} => c[n] = put_reqs_end
      <4>1. Enumerates(c, List, P)
        BY <1>1, <1>2, <1>3, <3>1, ChainEnumerates
      <4>2. List.next = next /\ List.end = put_reqs_end
        BY DEF List
      <4> HIDE DEF P
      <4> QED
        BY <3>2, <4>1, <4>2 DEF Enumerates
    <3>4. \A i \in 2 .. n : ~(c[i - 1] \in Complete /\ c[i] \in Complete)
      BY <1>9, <3>1, <3>2 DEF dspaces_iput_check, Neighbours
    <3> SUFFICES ASSUME NEW q \in Complete, next[q] \in Complete
                 PROVE  FALSE
      OBVIOUS
    <3>5. PICK k \in 1 .. n : c[k] = q
      BY <2>1, <3>3 DEF Range
    <3>6. next[put_reqs_end] \notin PutReq
      BY <1>2, <2>1, IPutAssumption DEF Linked, List
    <3>7. k # n
      BY <2>1, <3>3, <3>5, <3>6 DEF Complete
    <3>8. k \in 1 .. n - 1 /\ k + 1 \in 2 .. n /\ (k + 1) - 1 = k
      BY <3>7
    <3> QED
      BY <3>3, <3>4, <3>5, <3>8
  <2>3. Linked(Checked, P \ Complete, rank)
    BY <1>1, <1>2, <1>3, <2>1, <2>2, CheckedSkips, SkipsLinked
  <2>4. Complete \cap Range(Chain) = Complete
    BY <1>5, <2>1
  <2>5. put_status' = [q \in PutReq |-> IF q = r THEN "sent" ELSE
                          IF q \in Complete THEN "finalized" ELSE put_status[q]]
    BY <1>9, <2>4 DEF dspaces_iput_check, finalize_req
  <2> HIDE DEF P
  <2> QED
    BY <1>7, <1>9, <2>1, <2>3, <2>5 DEF dspaces_iput_check
<1>10. ASSUME NEW r \in PutReq, check_put(r), put_pc # "gone"
       PROVE  PutInv'
  <2>0. put_pc' # "gone" /\ put_pc' # "fault"
    BY <1>1, <1>10 DEF check_put
  <2>1. CASE put_status[r] = "finalized" /\ UNCHANGED <<put_reqs, put_reqs_end, next>>
    <3>1. PutTypeOK' /\ Outstanding' = P
      BY <1>1, <1>10, <2>1 DEF check_put, PutTypeOK, Outstanding
    <3> QED
      BY <1>2, <1>4, <2>0, <2>1, <3>1, PutInvNext
  <2>2. CASE put_status[r] = "complete" /\ SetList(Unlink(List, Prev(r), r))
    <3>1. r \in P
      BY <2>2 DEF Outstanding
    <3>2. Before(List, P, Prev(r), r)
      BY <1>1, <1>2, <1>3, <3>1, PrevBefore
    <3>3. Linked(Unlink(List, Prev(r), r), P \ {r}, rank)
      BY <1>2, <1>3, <3>1, <3>2, UnlinkLinked
    <3>4. Outstanding' = P \ {r}
      BY <1>1, <1>10 DEF check_put, PutTypeOK, Outstanding
    <3>5. PutTypeOK'
      <4>1. put_reqs' \in Link /\ put_reqs_end' \in Link /\ next' \in [PutReq -> Link]
        BY <2>2, <3>3, SetListType DEF Linked
      <4> QED
        BY <1>1, <1>10, <4>1 DEF check_put, PutTypeOK
    <3> QED
      BY <2>0, <2>2, <3>3, <3>4, <3>5, PutInvNext
  <2> QED
    BY <1>10, <2>1, <2>2 DEF check_put
<1>11. ASSUME NEW r \in PutReq, dspaces_check_put(r)
       PROVE  PutInv'
  BY <1>10, <1>11 DEF dspaces_check_put
<1>12. CASE dspaces_fini
  <2>1. /\ PutTypeOK' /\ Outstanding' = P /\ SetList(List)
        /\ put_pc' # "gone" /\ put_pc' # "fault"
    BY <1>1, <1>4, <1>12 DEF dspaces_fini, PutTypeOK, Outstanding
  <2> QED
    BY <1>2, <2>1, PutInvNext
<1>13. CASE FiniCheck
  BY <1>1, <1>10, <1>13 DEF FiniCheck, PutTypeOK, Link
<1>14. CASE FiniEnd
  <2>1. PutTypeOK' /\ Outstanding' = P /\ put_pc' # "fault" /\ SetList(List)
    BY <1>1, <1>4, <1>14 DEF FiniEnd, PutTypeOK, Outstanding
  <2>2. P = {}
    BY <1>2, <1>14 DEF FiniEnd, Linked, List
  <2> QED
    BY <1>2, <2>1, <2>2, PutInvNext
<1>15. ~ UseAfterFree
  <2>1. \A r \in Range(Chain) \cup {put_reqs, put_reqs_end} : r \in PutReq => r \in P
    BY <1>2, <1>5, IPutAssumption DEF Linked, List
  <2>2. ASSUME NEW S, S \subseteq Range(Chain) \cup {put_reqs, put_reqs_end}
        PROVE  ~ Freed(S)
    BY <2>1, <2>2 DEF Freed, Outstanding
  <2>3. ASSUME NEW r \in PutReq, put_status[r] = "complete"
        PROVE  {Chain[i] : i \in 1 .. Place(r) - 1} \subseteq Range(Chain)
    <3>1. r \in Range(Chain)
      BY <1>5, <2>3 DEF Outstanding
    <3>2. PICK c : c = Chain
      OBVIOUS
    <3>3. PICK n \in Nat : n = Len(c)
      BY <1>1, <1>2, <1>3, <3>2, ChainEnumerates DEF Enumerates
    <3>4. DOMAIN c = 1 .. n
      BY <1>1, <1>2, <1>3, <3>2, <3>3, ChainEnumerates DEF Enumerates
    <3>5. PICK k \in 1 .. n : k = Place(r)
      <4>1. Somewhere(c, n, r)
        BY <3>1, <3>2, <3>4 DEF Range, Somewhere
      <4>2. Foremost(c, n, r)
        BY <3>3, <4>1, FirstPlace
      <4> QED
        BY <3>1, <3>2, <3>4, <4>2 DEF Place, Foremost
    <3>6. 1 .. Place(r) - 1 \subseteq DOMAIN c
      BY <3>4, <3>5
    <3> QED
      BY <3>2, <3>6 DEF Range
  <2> QED
    BY <2>2, <2>3 DEF UseAfterFree
<1> QED
  BY <1>6, <1>8, <1>9, <1>11, <1>12, <1>13, <1>14, <1>15 DEF PutNext

-----------------------------------------------------------------------------
(* A spoilt list: dspaces_fini never comes to its end. *)

(* From the first request of list l on, the requests of P lead to one of   *)
(* F, which is finalized and stays; no new request is linked in front of   *)
(* it.                                                                     *)
Cut(l, P, F) ==
  /\ l.head \in P
  /\ \A r \in P : r \in F \/ l.next[r] \in P
  /\ l.end \in PutReq /\ ~ (l.end \in P /\ l.end \notin F)

Ended == {r \in PutReq : put_status[r] \in {"finalized", "freed"}}

(* After a walk has met two complete neighbours. *)
SpoiltInv ==
  /\ PutTypeOK
  /\ skipped /\ put_pc # "gone"
  /\ \E P \in SUBSET PutReq : Cut(List, P, Ended) /\ \A r \in P : put_status[r] # "new"

LEMMA UnlinkType ==
  ASSUME NEW l \in Lists, NEW prev \in Link, NEW r \in PutReq
  PROVE  Unlink(l, prev, r) \in Lists
<1>1. l.head \in Link /\ l.end \in Link /\ l.next \in [PutReq -> Link] /\ l.next[r] \in Link
  BY DEF Lists
<1> DEFINE h == IF prev = NoReq THEN l.next[r] ELSE l.head
           e == IF l.next[r] = NoReq THEN prev ELSE l.end
           n == [q \in PutReq |-> IF q = prev THEN l.next[r] ELSE l.next[q]]
<1>2. h \in Link /\ e \in Link /\ n \in [PutReq -> Link]
  BY <1>1
<1>3. Unlink(l, prev, r) = [head |-> h, end |-> e, next |-> n]
  BY UnlinkFields
<1> HIDE DEF h, e, n
<1> QED
  BY <1>2, <1>3 DEF Lists

(* A request that is taken out is done itself, and its predecessor leads   *)
(* to where it led; a request that is not in the list is taken out behind  *)
(* the last.                                                               *)
LEMMA UnlinkCut ==
  ASSUME NEW l \in Lists, NEW P \in SUBSET PutReq, NEW F, Cut(l, P, F),
         NEW r \in PutReq, r \notin F, NEW prev \in Link,
         prev = NoReq => r = l.head,
         prev # NoReq => l.next[prev] = r \/ l.next[prev] = NoReq
  PROVE  Cut(Unlink(l, prev, r), P, F \cup {r})
<1> DEFINE m == Unlink(l, prev, r)
<1>1. /\ m.head = (IF prev = NoReq THEN l.next[r] ELSE l.head)
      /\ m.end = (IF l.next[r] = NoReq THEN prev ELSE l.end)
      /\ m.next = [q \in PutReq |-> IF q = prev THEN l.next[r] ELSE l.next[q]]
  BY UnlinkFields
<1> HIDE DEF m
<1>2. NoReq \notin PutReq /\ NoReq \notin P
  BY IPutAssumption
<1>3. ASSUME prev \in P, prev \notin F
      PROVE  l.next[r] \in P
  BY <1>2, <1>3 DEF Cut
<1>4. ASSUME prev = NoReq
      PROVE  l.next[r] \in P
  BY <1>4 DEF Cut
<1>5. m.head \in P
  BY <1>1, <1>4 DEF Cut
<1>6. ASSUME NEW q \in P
      PROVE  q \in F \cup {r} \/ m.next[q] \in P
  BY <1>1, <1>3 DEF Cut
<1>7. m.end \in PutReq /\ ~ (m.end \in P /\ m.end \notin F \cup {r})
  BY <1>1, <1>2, <1>3, <1>4 DEF Cut, Link
<1> QED
  BY <1>5, <1>6, <1>7 DEF Cut, m

LEMMA AddTailCut ==
  ASSUME NEW l \in Lists, NEW P \in SUBSET PutReq, NEW F, Cut(l, P, F),
         NEW r \in PutReq, r \notin P
  PROVE  AddTail(l, r) \in Lists /\ Cut(AddTail(l, r), P, F)
<1> DEFINE n == [[l.next EXCEPT ![r] = NoReq] EXCEPT ![l.end] = r]
<1>1. l.end \in PutReq /\ l.end # NoReq /\ r \in Link /\ NoReq \in Link /\ l.head \in Link
  BY IPutAssumption DEF Cut, Link
<1>2. n \in [PutReq -> Link] /\ \A q \in P : q # l.end => n[q] = l.next[q]
  BY <1>1 DEF Lists
<1>3. AddTail(l, r) = [head |-> l.head, end |-> r, next |-> n]
  BY <1>1 DEF AddTail, Lists
<1> HIDE DEF n
<1>4. AddTail(l, r) \in Lists
  BY <1>1, <1>2, <1>3 DEF Lists
<1>5. Cut(AddTail(l, r), P, F)
  BY <1>2, <1>3 DEF Cut
<1> QED
  BY <1>4, <1>5

(* Sequence c, of n requests, follows next from the first request on. *)
Follows(c, n) ==
  /\ n \in Nat /\ c \in Seq(PutReq) /\ n = Len(c) /\ DOMAIN c = 1 .. n
  /\ \A k \in 1 .. n : c[k] \in PutReq
  /\ n > 0 => c[1] = put_reqs
  /\ n = 0 => put_reqs = NoReq
  /\ \A k \in 1 .. n - 1 : next[c[k]] = c[k + 1]
  /\ IsInjective(c) /\ n > 0 => next[c[n]] = NoReq

(* So does a walk along any list; one that meets no request twice comes to *)
(* the end of the list.                                                    *)
LEMMA ChainFollows ==
  ASSUME PutTypeOK
  PROVE  Follows(Chain, Len(Chain))
<1>1. PICK n : n = Puts
  OBVIOUS
<1>2. /\ n \in Nat /\ Walk \in [0 .. n -> Link] /\ Walk[0] = put_reqs
      /\ \A k \in 1 .. n : Walk[k] = IF Walk[k - 1] = NoReq THEN NoReq ELSE next[Walk[k - 1]]
  BY <1>1, WalkRuns
<1>3. Chain = [k \in {k \in 1 .. n + 1 : Walk[k - 1] # NoReq} |-> Walk[k - 1]]
  BY <1>1 DEF Chain, Puts
<1> HIDE DEF Walk
<1>4. PICK m \in 0 .. n + 1 : /\ \A k \in 0 .. m - 1 : Walk[k] # NoReq
                              /\ \A k \in m .. n : Walk[k] = NoReq
  <2> DEFINE S == {k \in 0 .. n : Walk[k] = NoReq}
  <2>1. CASE S = {}
    <3> DEFINE m == n + 1
    <3>1. m \in 0 .. n + 1 /\ (\A k \in 0 .. m - 1 : k \in 0 .. n) /\ m .. n = {}
      BY <1>2
    <3> HIDE DEF m
    <3> QED
      BY <2>1, <3>1
  <2>2. CASE S # {}
    <3>1. PICK m \in S : \A k \in S : m <= k
      <4>1. S \subseteq Nat
        BY <1>2
      <4> HIDE DEF S
      <4> QED
        BY <2>2, <4>1, Least
    <3> DEFINE T == {k \in 0 .. n : k < m \/ Walk[k] = NoReq}
    <3>2. 0 \in T
      BY <1>2, <3>1
    <3>3. \A k \in 1 .. n : k - 1 \in T => k \in T
      BY <1>2, <3>1
    <3>4. \A k \in 0 .. n : k \in T
      <4> HIDE DEF T
      <4> QED
        BY <1>2, <3>2, <3>3, UpTo
    <3>5. m \in 0 .. n + 1 /\ \A k \in m .. n : k \in 0 .. n /\ ~ (k < m)
      BY <1>2
    <3>6. \A k \in 0 .. m - 1 : k \in 0 .. n /\ ~ (m <= k)
      BY <1>2
    <3> QED
      BY <3>1, <3>4, <3>5, <3>6
  <2> QED
    BY <2>1, <2>2
<1>5. {k \in 1 .. n + 1 : Walk[k - 1] # NoReq} = 1 .. m
  <2>1. ASSUME NEW k \in 1 .. n + 1, Walk[k - 1] # NoReq
        PROVE  k \in 1 .. m
    <3>1. k - 1 \notin m .. n
      BY <1>4, <2>1
    <3> QED
      BY <1>2, <3>1
  <2>2. ASSUME NEW k \in 1 .. m
        PROVE  k \in 1 .. n + 1 /\ Walk[k - 1] # NoReq
    <3>1. k - 1 \in 0 .. m - 1 /\ k \in 1 .. n + 1
      BY <1>2
    <3> QED
      BY <1>4, <3>1
  <2> QED
    BY <2>1, <2>2
<1>6. Chain = [k \in 1 .. m |-> Walk[k - 1]] /\ m \in Nat
  BY <1>2, <1>3, <1>5
<1>7. \A k \in 1 .. m : Walk[k - 1] \in PutReq /\ k - 1 \in 0 .. n
  <2> TAKE k \in 1 .. m
  <2>1. k - 1 \in 0 .. m - 1 /\ k - 1 \in 0 .. n
    BY <1>2
  <2> QED
    BY <1>2, <1>4, <2>1 DEF Link
<1>8. /\ Chain \in [1 .. m -> PutReq] /\ Chain \in Seq(PutReq) /\ Len(Chain) = m
      /\ DOMAIN Chain = 1 .. m /\ \A k \in 1 .. m : Chain[k] = Walk[k - 1]
  <2>1. Chain \in [1 .. m -> PutReq] /\ \A k \in 1 .. m : Chain[k] = Walk[k - 1]
    BY <1>6, <1>7
  <2> HIDE DEF Chain
  <2> QED
    BY <1>6, <2>1
<1> HIDE DEF Chain
<1>9. (m > 0 => Chain[1] = put_reqs) /\ (m = 0 => put_reqs = NoReq)
  <2>1. m > 0 => 1 \in 1 .. m /\ 1 - 1 = 0
    BY <1>6
  <2>2. m = 0 => 0 \in m .. n
    BY <1>2
  <2> QED
    BY <1>2, <1>4, <1>8, <2>1, <2>2
<1>10. \A k \in 1 .. m - 1 : next[Chain[k]] = Chain[k + 1]
  <2> TAKE k \in 1 .. m - 1
  <2>1. k \in 1 .. m /\ k + 1 \in 1 .. m /\ k \in 1 .. n /\ (k + 1) - 1 = k /\ k - 1 \in 0 .. m - 1
    BY <1>2
  <2>2. Chain[k] = Walk[k - 1] /\ Chain[k + 1] = Walk[k] /\ Walk[k - 1] # NoReq
    BY <1>4, <1>8, <2>1
  <2> QED
    BY <1>2, <2>1, <2>2
<1>11. ASSUME IsInjective(Chain), m > 0
       PROVE  next[Chain[m]] = NoReq
  <2>1. m # n + 1
    <3>1. SUFFICES ASSUME m = n + 1
                   PROVE  FALSE
      OBVIOUS
    <3> DEFINE S == 1 .. m
    <3>2. IsFiniteSet(S) /\ Cardinality(S) = n + 1
      BY <1>2, <3>1, FS_Interval
    <3>3. Cardinality(PutReq) < Cardinality(S) /\ IsFiniteSet(PutReq)
      BY <1>1, <1>2, <3>2, IPutAssumption DEF Puts
    <3>4. Chain \in [S -> PutReq]
      BY <1>8
    <3>5. \E x, y \in S : x # y /\ Chain[x] = Chain[y]
      <4> HIDE DEF S
      <4> QED
        BY <3>2, <3>3, <3>4, FS_PigeonHole
    <3> QED
      BY <1>8, <1>11, <3>5 DEF IsInjective
  <2>2. m \in m .. n /\ m \in 1 .. n /\ m \in 1 .. m /\ m - 1 \in 0 .. m - 1
    BY <1>2, <1>11, <2>1
  <2> QED
    BY <1>2, <1>4, <1>8, <2>2
<1> QED
  BY <1>6, <1>7, <1>8, <1>9, <1>10, <1>11 DEF Follows

(* The search of check_put stops in front of the request it looks for, or  *)
(* at the last request of the list.                                        *)
LEMMA PrevLeads ==
  ASSUME PutTypeOK, put_reqs # NoReq, NEW r \in PutReq, r \in Range(Chain) \/ WalkEnds
  PROVE  /\ Prev(r) \in Link
         /\ Prev(r) = NoReq => r = put_reqs
         /\ Prev(r) # NoReq => next[Prev(r)] = r \/ next[Prev(r)] = NoReq
<1>1. PICK c : c = Chain
  OBVIOUS
<1>2. PICK n : n = Len(c)
  OBVIOUS
<1>3. Follows(c, n)
  BY <1>1, <1>2, ChainFollows
<1>4. n \in Nat /\ n > 0 /\ NoReq \notin PutReq
  BY <1>3, IPutAssumption DEF Follows
<1>5. CASE r \in Range(Chain)
  <2>1. Somewhere(c, n, r)
    BY <1>1, <1>3, <1>5 DEF Somewhere, Range, Follows
  <2>2. Foremost(c, n, r)
    BY <1>4, <2>1, FirstPlace
  <2>3. PICK i \in 1 .. n : i = Place(r) /\ c[i] = r
    BY <1>1, <1>3, <1>5, <2>2 DEF Place, Foremost, Follows
  <2>4. Prev(r) = IF i = 1 THEN NoReq ELSE c[i - 1]
    BY <1>1, <2>3 DEF Prev
  <2>5. i # 1 => i - 1 \in 1 .. n - 1 /\ i - 1 \in 1 .. n /\ (i - 1) + 1 = i
    BY <1>4, <2>3
  <2> QED
    BY <1>3, <1>4, <2>3, <2>4, <2>5 DEF Follows, Link
<1>6. CASE r \notin Range(Chain)
  <2>1. IsInjective(c)
    BY <1>1, <1>6 DEF WalkEnds
  <2>2. Place(r) = n + 1 /\ n + 1 # 1 /\ (n + 1) - 1 = n /\ n \in 1 .. n
    BY <1>1, <1>2, <1>4, <1>6 DEF Place
  <2>3. Prev(r) = c[n]
    BY <1>1, <2>2 DEF Prev
  <2> QED
    BY <1>3, <1>4, <2>1, <2>2, <2>3 DEF Follows, Link
<1> QED
  BY <1>5, <1>6

(* The walk of dspaces_iput leaves a finalized request in the list. *)
LEMMA CheckedCut ==
  ASSUME PutTypeOK, WalkEnds, NEW P \in SUBSET PutReq, NEW F, Cut(List, P, F),
         Complete \cap F = {}
  PROVE  Checked \in Lists /\ Cut(Checked, P, F \cup (Complete \cap Range(Chain)))
<1>1. PICK c : c = Chain
  OBVIOUS
<1>2. PICK n : n = Len(c)
  OBVIOUS
<1>3. PICK C : C = Complete
  OBVIOUS
<1>4. Follows(c, n) /\ IsInjective(c)
  BY <1>1, <1>2, ChainFollows DEF WalkEnds
<1>5. /\ List.head = put_reqs /\ List.next = next /\ NoReq \notin PutReq
      /\ n \in Nat /\ \A j, k \in 1 .. n : c[j] = c[k] => j = k
  BY <1>4, IPutAssumption DEF List, Follows, IsInjective
<1>6. List \in Lists
  BY DEF List, Lists, PutTypeOK
<1> DEFINE before(i) == IF i = 1 THEN NoReq ELSE c[i - 1]
           turn == [i \in 1 .. n |-> [l \in Lists |->
                      IF c[i] \in C THEN Unlink(l, before(i), c[i]) ELSE l]]
           Body(f) == [i \in 0 .. n |-> IF i = 0 THEN List
                         ELSE IF c[i] \in C
                              THEN Unlink(f[i - 1], IF i = 1 THEN NoReq ELSE c[i - 1], c[i])
                              ELSE f[i - 1]]
           list == CHOOSE f : f = Body(f)
           met(i) == {c[j] : j \in {k \in 1 .. i : c[k] \in C}}
<1>7. Checked = list[n]
  BY <1>1, <1>2, <1>3 DEF Checked
<1>8. ASSUME NEW i \in 1 .. n
      PROVE  before(i) \in Link /\ c[i] \in PutReq
  <2>1. i # 1 => i - 1 \in 1 .. n
    BY <1>5
  <2> QED
    BY <1>4, <2>1 DEF Follows, Link
<1>9. Loop(turn, n, Lists)
  <2>1. ASSUME NEW i \in 1 .. n, NEW l \in Lists
        PROVE  turn[i][l] \in Lists
    <3>1. Unlink(l, before(i), c[i]) \in Lists
      BY <1>8, UnlinkType
    <3> HIDE DEF before
    <3> QED
      BY <3>1
  <2> HIDE DEF turn
  <2> QED
    BY <2>1 DEF Loop
<1>10. PICK f \in [0 .. n -> Lists] :
         f[0] = List /\ \A i \in 1 .. n : f[i] = turn[i][f[i - 1]]
  <2> HIDE DEF turn
  <2>1. \E f : Run(f, List, turn, n, Lists)
    BY <1>5, <1>6, <1>9, LoopRuns
  <2> QED
    BY <2>1 DEF Run
<1>11. f = Body(f)
  <2>1. \A i \in 0 .. n : i # 0 => i \in 1 .. n /\ i - 1 \in 0 .. n
    BY <1>5
  <2>2. \A i \in 0 .. n : f[i] = Body(f)[i]
    BY <1>10, <2>1
  <2>3. f = [i \in 0 .. n |-> f[i]]
    OBVIOUS
  <2> HIDE DEF turn
  <2> QED
    BY <2>2, <2>3
<1>12. list = Body(list)
  BY <1>11
<1> HIDE DEF list, turn
<1> DEFINE J(i) == /\ list[i] \in Lists
                   /\ Cut(list[i], P, F \cup met(i))
                   /\ \A k \in 1 .. n : k >= i => list[i].next[c[k]] = next[c[k]]
                   /\ i = 0 => list[i].head = put_reqs
           T == {i \in 0 .. n : J(i)}
<1>13. 0 \in T
  <2>1. list[0] = List
    BY <1>5, <1>12
  <2>2. F \cup met(0) = F
    OBVIOUS
  <2>3. Cut(list[0], P, F \cup met(0))
    BY <2>1, <2>2
  <2>4. list[0] \in Lists /\ list[0].next = next /\ list[0].head = put_reqs /\ 0 \in 0 .. n
    BY <1>5, <1>6, <2>1
  <2> HIDE DEF met
  <2> QED
    BY <2>3, <2>4
<1>14. ASSUME NEW i \in 1 .. n, i - 1 \in T
       PROVE  i \in T
  <2>1. i \in 0 .. n /\ i # 0 /\ i - 1 \in 0 .. n /\ J(i - 1)
    BY <1>5, <1>14
  <2> DEFINE l == list[i - 1]
             prev == before(i)
  <2>2. list[i] = IF c[i] \in C THEN Unlink(l, prev, c[i]) ELSE l
    <3>1. list[i] = Body(list)[i]
      BY <1>12
    <3> QED
      BY <2>1, <3>1
  <2>3. met(i) = met(i - 1) \cup (IF c[i] \in C THEN {c[i]} ELSE {})
    <3>1. 1 .. i = (1 .. i - 1) \cup {i}
      OBVIOUS
    <3> QED
      BY <3>1
  <2>4. /\ l \in Lists /\ Cut(l, P, F \cup met(i - 1))
        /\ \A k \in 1 .. n : k >= i - 1 => l.next[c[k]] = next[c[k]]
        /\ i = 1 => l.head = put_reqs
    BY <2>1
  <2>5. c[i] \in PutReq /\ prev \in Link
    BY <1>8
  <2> HIDE DEF J, l
  <2>6. CASE c[i] \notin C
    <3>1. list[i] = l /\ met(i) = met(i - 1) /\ \A k \in 1 .. n : k >= i => k >= i - 1
      BY <2>2, <2>3, <2>6
    <3> HIDE DEF met
    <3> QED
      BY <2>1, <2>4, <3>1 DEF J
  <2>7. CASE c[i] \in C
    <3>1. c[i] \notin F \cup met(i - 1)
      <4>1. \A k \in 1 .. i - 1 : k \in 1 .. n /\ k # i
        BY <1>5
      <4> QED
        BY <1>3, <1>5, <2>7, <4>1
    <3>2. prev = NoReq => c[i] = l.head
      <4>1. prev = NoReq => i = 1
        <5>1. i # 1 => i - 1 \in 1 .. n
          BY <1>5
        <5> QED
          BY <1>4, <1>5, <5>1 DEF Follows
      <4> QED
        BY <1>4, <2>4, <4>1 DEF Follows
    <3>3. prev # NoReq => prev = c[i - 1] /\ i - 1 \in 1 .. n - 1 /\ i - 1 \in 1 .. n
                          /\ (i - 1) + 1 = i
      BY <1>5
    <3>4. prev # NoReq => l.next[prev] = c[i]
      BY <1>4, <2>4, <3>3 DEF Follows
    <3>5. Cut(Unlink(l, prev, c[i]), P, (F \cup met(i - 1)) \cup {c[i]})
      <4> HIDE DEF met, prev
      <4> QED
        BY <2>4, <2>5, <3>1, <3>2, <3>4, UnlinkCut
    <3>6. Unlink(l, prev, c[i]) \in Lists
      BY <2>4, <2>5, UnlinkType
    <3>7. F \cup met(i) = (F \cup met(i - 1)) \cup {c[i]}
      BY <2>3, <2>7
    <3>8. ASSUME NEW k \in 1 .. n, k >= i
          PROVE  Unlink(l, prev, c[i]).next[c[k]] = next[c[k]]
      <4>1. k >= i - 1 /\ c[k] \in PutReq
        BY <1>4, <3>8 DEF Follows
      <4>2. c[k] # prev
        <5>1. i - 1 # k
          BY <3>8
        <5> QED
          BY <1>5, <3>3, <4>1, <5>1
      <4>3. Unlink(l, prev, c[i]).next
              = [q \in PutReq |-> IF q = prev THEN l.next[c[i]] ELSE l.next[q]]
        <5> HIDE DEF prev
        <5> QED
          BY <2>4, <2>5, UnlinkFields
      <4> QED
        BY <2>4, <4>1, <4>2, <4>3
    <3>9. list[i] = Unlink(l, prev, c[i])
      BY <2>2, <2>7
    <3> HIDE DEF met, prev
    <3>10. Cut(list[i], P, F \cup met(i))
      BY <3>5, <3>7, <3>9
    <3>11. list[i] \in Lists /\ \A k \in 1 .. n : k >= i => list[i].next[c[k]] = next[c[k]]
      BY <3>6, <3>8, <3>9
    <3> QED
      BY <2>1, <3>10, <3>11 DEF J
  <2> QED
    BY <2>6, <2>7
<1>15. n \in T
  <2> HIDE DEF T
  <2>1. \A i \in 0 .. n : i \in T
    BY <1>5, <1>13, <1>14, UpTo
  <2> QED
    BY <1>5, <2>1
<1>16. met(n) = C \cap Range(c)
  BY <1>4 DEF Range, Follows
<1> QED
  BY <1>1, <1>3, <1>7, <1>15, <1>16

(* A walk over two complete neighbours spoils the list: the second stays.  *)
LEMMA NeighboursCut ==
  ASSUME PutTypeOK, NEW rank \in Ranks, Linked(List, Outstanding, rank), Neighbours
  PROVE  /\ Checked \in Lists
         /\ \E P \in SUBSET Outstanding : Cut(Checked, P, Complete \cap Range(Chain))
<1>1. PICK c : c = Chain
  OBVIOUS
<1>2. PICK n : n = Len(c)
  OBVIOUS
<1>3. PICK C : C = Complete
  OBVIOUS
<1>4. PICK O : O = Outstanding
  OBVIOUS
<1>5. O \in SUBSET PutReq /\ C \subseteq O /\ NoReq \notin PutReq /\ NoReq \notin C
  BY <1>3, <1>4, IPutAssumption DEF Complete, Outstanding
<1>6. Follows(c, n) /\ Enumerates(c, List, O)
  BY <1>1, <1>2, <1>4, <1>5, ChainFollows, ChainEnumerates
<1>7. /\ n \in Nat /\ \A k \in 1 .. n : c[k] \in O
      /\ \A j, k \in 1 .. n : c[j] = c[k] => j = k
      /\ \A k \in 1 .. n - 1 : next[c[k]] = c[k + 1]
      /\ Range(c) = O /\ DOMAIN c = 1 .. n
  BY <1>6 DEF Follows, Enumerates, IsInjective, Range
<1>8. PICK i \in 2 .. n : c[i - 1] \in C /\ c[i] \in C
  BY <1>1, <1>2, <1>3 DEF Neighbours
<1>9. i \in 1 .. n /\ i - 1 \in 1 .. n /\ n > 0
  BY <1>7, <1>8
<1>10. c[1] = put_reqs /\ c[n] = put_reqs_end
  <2>1. O # {} /\ List.head = put_reqs /\ List.end = put_reqs_end
    BY <1>7, <1>9 DEF List
  <2> QED
    BY <1>2, <1>6, <2>1 DEF Enumerates
<1> DEFINE P == {c[k] : k \in 1 .. i}
           m == Checked
<1>11. Skips(m, O, C)
  BY <1>3, <1>4, <1>5, CheckedSkips
<1>12. \A k \in 1 .. i : k \in 1 .. n /\ c[k] \in P
  BY <1>7, <1>9
<1>13. P \in SUBSET O
  BY <1>7, <1>12
<1>14. m.head \in P
  <2>1. 1 \in 1 .. i /\ 2 \in 1 .. i /\ 1 \in 1 .. n - 1 /\ 1 + 1 = 2
    BY <1>7, <1>8
  <2> HIDE DEF m, P
  <2> QED
    BY <1>7, <1>10, <1>11, <1>12, <2>1 DEF Skips
<1>15. ASSUME NEW k \in 1 .. i, c[k] \notin C
       PROVE  m.next[c[k]] \in P
  <2>1. k # i /\ k # i - 1
    BY <1>8, <1>15
  <2>2. k \in 1 .. n - 1 /\ k + 1 \in 1 .. i /\ k + 1 \in 1 .. n - 1 /\ (k + 1) + 1 \in 1 .. i
    BY <1>7, <1>9, <2>1
  <2>3. next[c[k]] = c[k + 1] /\ next[c[k + 1]] = c[(k + 1) + 1]
    BY <1>7, <2>2
  <2>4. c[k] \in O
    BY <1>7, <1>12
  <2> HIDE DEF m, P
  <2> QED
    BY <1>11, <1>12, <2>2, <2>3, <2>4 DEF Skips
<1>16. m.end \in PutReq /\ ~ (m.end \in P /\ m.end \notin C)
  <2>1. CASE c[n] \in C
    <3>1. Before(List, O, m.end, c[n]) /\ List.head = put_reqs /\ List.next = next
      BY <1>10, <1>11, <2>1 DEF Skips, List
    <3>2. n # 1 /\ c[n] # c[1]
      <4>1. 1 \in 1 .. n /\ n \in 1 .. n /\ n # 1
        BY <1>7, <1>8
      <4> QED
        BY <1>7, <4>1
    <3>3. m.end \in O /\ next[m.end] = c[n]
      BY <1>10, <3>1, <3>2 DEF Before
    <3>4. ASSUME NEW k \in 1 .. i, m.end = c[k], c[k] \notin C
          PROVE  FALSE
      <4>1. k # i /\ k # i - 1
        BY <1>8, <3>4
      <4>2. k \in 1 .. n - 1 /\ k + 1 \in 1 .. n /\ n \in 1 .. n /\ k + 1 # n
        BY <1>7, <1>9, <4>1
      <4> QED
        BY <1>7, <3>3, <3>4, <4>2
    <3> HIDE DEF m
    <3> QED
      BY <1>5, <3>3, <3>4
  <2>2. CASE c[n] \notin C
    <3>1. m.end = c[n] /\ n \in 1 .. n
      BY <1>7, <1>9, <1>10, <1>11, <2>2 DEF Skips
    <3>2. \A k \in 1 .. i : k # n
      <4> SUFFICES ASSUME NEW k \in 1 .. i, k = n
                   PROVE  FALSE
        OBVIOUS
      <4>1. i = n
        BY <1>7, <1>9
      <4> QED
        BY <1>8, <2>2, <4>1
    <3>3. c[n] \notin P
      BY <1>7, <1>12, <3>1, <3>2
    <3> HIDE DEF m, P
    <3> QED
      BY <1>5, <1>7, <3>1, <3>3
  <2> QED
    BY <2>1, <2>2
<1>17. Cut(m, P, C)
  <2>1. \A r \in P : r \in C \/ m.next[r] \in P
    BY <1>15
  <2> HIDE DEF m, P
  <2> QED
    BY <1>14, <1>16, <2>1 DEF Cut
<1>18. m \in Lists
  BY <1>11 DEF Skips
<1>19. C = Complete \cap Range(Chain)
  BY <1>1, <1>3, <1>5, <1>7
<1> HIDE DEF m, P
<1> QED
  BY <1>4, <1>13, <1>17, <1>18, <1>19 DEF m

(* What is left to show of a step: its list. *)
LEMMA SpoiltInvNext ==
  ASSUME PutTypeOK', skipped', put_pc' # "gone",
         NEW P \in SUBSET PutReq, \A r \in P : put_status'[r] # "new",
         NEW m \in Lists, SetList(m), Cut(m, P, Ended')
  PROVE  SpoiltInv'
<1>1. List' = m
  BY DEF List, SetList, Lists
<1>2. Cut(List', P, Ended')
  BY <1>1
<1>3. (\E Q \in SUBSET PutReq : Cut(List, Q, Ended) /\ \A r \in Q : put_status[r] # "new")'
  <2> SUFFICES \E Q \in SUBSET PutReq : Cut(List', Q, Ended')
                                        /\ \A r \in Q : put_status'[r] # "new"
    BY DEF Cut
  <2> QED
    BY <1>2
<1> QED
  BY <1>3 DEF SpoiltInv

(* The list is spoilt by such a walk, ... *)
LEMMA SpoiltBegins ==
  ASSUME PutInv, PutNext, skipped'
  PROVE  SpoiltInv'
<1>1. PutTypeOK /\ ~ skipped
  BY DEF PutInv
<1>2. PICK r \in PutReq : dspaces_iput_check(r) /\ Neighbours
  BY <1>1 DEF PutNext, Answer, dspaces_iput, dspaces_iput_check, dspaces_check_put, check_put,
              dspaces_fini, FiniCheck, FiniEnd, UseAfterFree
<1>3. PICK rank \in Ranks : Linked(List, Outstanding, rank)
  BY DEF PutInv
<1>4. Checked \in Lists
  BY <1>1, <1>2, <1>3, NeighboursCut
<1>5. PICK P \in SUBSET Outstanding : Cut(Checked, P, Complete \cap Range(Chain))
  BY <1>1, <1>2, <1>3, NeighboursCut
<1>6. put_status' = [q \in PutReq |-> IF q = r THEN "sent" ELSE
                       IF q \in Complete \cap Range(Chain) THEN "finalized" ELSE put_status[q]]
  BY <1>2 DEF dspaces_iput_check, finalize_req
<1>7. P \in SUBSET PutReq /\ r \notin P /\ (\A q \in P : put_status'[q] # "new")
  BY <1>1, <1>2, <1>6 DEF dspaces_iput_check, Outstanding, PutTypeOK
<1> DEFINE m == AddTail(Checked, r)
<1>8. m \in Lists /\ Cut(m, P, Complete \cap Range(Chain))
  BY <1>4, <1>5, <1>7, AddTailCut
<1>9. SetList(m) /\ put_pc' # "gone"
  BY <1>2 DEF dspaces_iput_check
<1> HIDE DEF m
<1>10. Complete \cap Range(Chain) \subseteq Ended'
  BY <1>2, <1>6 DEF Ended, Complete, dspaces_iput_check
<1>11. Cut(m, P, Ended')
  BY <1>8, <1>10 DEF Cut
<1>12. PutTypeOK'
  <2>1. put_reqs' \in Link /\ put_reqs_end' \in Link /\ next' \in [PutReq -> Link]
    BY <1>8, <1>9, SetListType
  <2>2. put_pc' = "in use"
    BY <1>2 DEF dspaces_iput_check
  <2> QED
    BY <1>1, <1>6, <2>1, <2>2 DEF PutTypeOK
<1> QED
  BY <1>7, <1>8, <1>9, <1>11, <1>12, SpoiltInvNext

(* ... and stays so. *)
LEMMA SpoiltStays ==
  ASSUME SpoiltInv, PutNext
  PROVE  SpoiltInv'
<1>1. PutTypeOK /\ skipped /\ put_pc # "gone" /\ skipped'
  BY DEF SpoiltInv, PutNext, Answer, dspaces_iput, dspaces_iput_check, dspaces_check_put,
         check_put, dspaces_fini, FiniCheck, FiniEnd, UseAfterFree
<1>2. PICK P \in SUBSET PutReq : Cut(List, P, Ended) /\ \A r \in P : put_status[r] # "new"
  BY DEF SpoiltInv
<1>3. /\ List \in Lists /\ List.head = put_reqs /\ List.next = next
      /\ put_reqs \in P /\ put_reqs # NoReq
  BY <1>1, <1>2, IPutAssumption DEF List, Lists, PutTypeOK, Cut
<1>4. SetList(List) <=> UNCHANGED <<put_reqs, put_reqs_end, next>>
  BY DEF SetList, List
<1>5. ASSUME NEW m \in Lists, SetList(m), NEW F, Cut(m, P, F), F \subseteq Ended',
             put_status' \in [PutReq -> {"new", "sent", "complete", "finalized", "freed"}],
             \A q \in P : put_status'[q] # "new",
             put_pc' \in {"in use", "fini", "fault"}
      PROVE  SpoiltInv'
  <2>1. Cut(m, P, Ended')
    BY <1>5 DEF Cut
  <2>2. put_reqs' \in Link /\ put_reqs_end' \in Link /\ next' \in [PutReq -> Link]
    BY <1>5, SetListType
  <2>3. PutTypeOK' /\ put_pc' # "gone"
    BY <1>5, <2>2 DEF PutTypeOK
  <2> QED
    BY <1>1, <1>5, <2>1, <2>3, SpoiltInvNext
<1>6. ASSUME UNCHANGED <<put_reqs, put_reqs_end, next, put_status>>,
             put_pc' \in {"in use", "fini", "fault"}
      PROVE  SpoiltInv'
  <2>1. SetList(List) /\ Ended \subseteq Ended' /\ \A q \in P : put_status'[q] # "new"
    BY <1>2, <1>4, <1>6 DEF Ended
  <2>2. put_status' \in [PutReq -> {"new", "sent", "complete", "finalized", "freed"}]
    BY <1>1, <1>6 DEF PutTypeOK
  <2> QED
    BY <1>2, <1>3, <1>5, <1>6, <2>1, <2>2
<1>7. ASSUME NEW r \in PutReq, Answer(r)
      PROVE  SpoiltInv'
  <2>1. SetList(List) /\ Ended \subseteq Ended' /\ \A q \in P : put_status'[q] # "new"
    BY <1>1, <1>2, <1>4, <1>7 DEF Ended, Answer, PutTypeOK
  <2>2. /\ put_status' \in [PutReq -> {"new", "sent", "complete", "finalized", "freed"}]
        /\ put_pc' \in {"in use", "fini", "fault"}
    BY <1>1, <1>7 DEF PutTypeOK, Answer
  <2> QED
    BY <1>2, <1>3, <1>5, <2>1, <2>2
<1>8. ASSUME NEW r \in PutReq, dspaces_iput(r)
      PROVE  SpoiltInv'
  <2> DEFINE m == AddTail(List, r)
  <2>1. r \notin P
    BY <1>2, <1>8 DEF dspaces_iput
  <2>2. m \in Lists /\ Cut(m, P, Ended)
    BY <1>2, <1>3, <2>1, AddTailCut
  <2>3. SetList(m) /\ put_pc' = "in use"
    BY <1>8 DEF dspaces_iput
  <2>4. /\ Ended \subseteq Ended' /\ \A q \in P : put_status'[q] # "new"
        /\ put_status' \in [PutReq -> {"new", "sent", "complete", "finalized", "freed"}]
    BY <1>1, <1>2, <1>8 DEF dspaces_iput, Ended, PutTypeOK
  <2> HIDE DEF m
  <2> QED
    BY <1>5, <2>2, <2>3, <2>4
<1>9. ASSUME NEW r \in PutReq, dspaces_iput_check(r)
      PROVE  SpoiltInv'
  <2> DEFINE F == Ended \cup (Complete \cap Range(Chain))
             m == AddTail(Checked, r)
  <2>1. r \notin P
    BY <1>2, <1>9 DEF dspaces_iput_check
  <2>2. Complete \cap Ended = {}
    BY DEF Complete, Ended
  <2>3. Checked \in Lists /\ Cut(Checked, P, F)
    BY <1>1, <1>2, <1>9, <2>2, CheckedCut DEF dspaces_iput_check
  <2>4. put_status' = [q \in PutReq |-> IF q = r THEN "sent" ELSE
                         IF q \in Complete \cap Range(Chain) THEN "finalized" ELSE put_status[q]]
    BY <1>9 DEF dspaces_iput_check, finalize_req
  <2>5. /\ F \subseteq Ended' /\ \A q \in P : put_status'[q] # "new"
        /\ put_status' \in [PutReq -> {"new", "sent", "complete", "finalized", "freed"}]
    BY <1>1, <1>2, <1>9, <2>4 DEF dspaces_iput_check, Ended, Complete, PutTypeOK
  <2> HIDE DEF F
  <2>6. m \in Lists /\ Cut(m, P, F)
    BY <2>1, <2>3, AddTailCut
  <2>7. SetList(m) /\ put_pc' = "in use"
    BY <1>9 DEF dspaces_iput_check
  <2> HIDE DEF m
  <2> QED
    BY <1>5, <2>5, <2>6, <2>7
<1>10. ASSUME NEW r \in PutReq, check_put(r)
       PROVE  SpoiltInv'
  <2>1. /\ Ended \cup {r} \subseteq Ended' /\ \A q \in P : put_status'[q] # "new"
        /\ put_status' \in [PutReq -> {"new", "sent", "complete", "finalized", "freed"}]
        /\ put_pc' \in {"in use", "fini", "fault"}
    BY <1>1, <1>2, <1>10 DEF check_put, Ended, PutTypeOK
  <2>2. CASE put_status[r] = "finalized" /\ UNCHANGED <<put_reqs, put_reqs_end, next>>
    BY <1>2, <1>3, <1>4, <1>5, <2>1, <2>2
  <2>3. CASE /\ put_status[r] = "complete"
             /\ r \in Range(Chain) \/ WalkEnds
             /\ SetList(Unlink(List, Prev(r), r))
    <3>1. r \notin Ended
      BY <2>3 DEF Ended
    <3>2. /\ Prev(r) \in Link
          /\ Prev(r) = NoReq => r = List.head
          /\ Prev(r) # NoReq => List.next[Prev(r)] = r \/ List.next[Prev(r)] = NoReq
      BY <1>1, <1>3, <2>3, PrevLeads
    <3>3. Unlink(List, Prev(r), r) \in Lists /\ Cut(Unlink(List, Prev(r), r), P, Ended \cup {r})
      BY <1>2, <1>3, <3>1, <3>2, UnlinkType, UnlinkCut
    <3> QED
      BY <1>5, <2>1, <2>3, <3>3
  <2> QED
    BY <1>10, <2>2, <2>3 DEF check_put
<1>11. ASSUME NEW r \in PutReq, dspaces_check_put(r)
       PROVE  SpoiltInv'
  BY <1>10, <1>11 DEF dspaces_check_put
<1>12. CASE dspaces_fini
  BY <1>6, <1>12 DEF dspaces_fini
<1>13. CASE FiniCheck
  BY <1>3, <1>10, <1>13 DEF FiniCheck
<1>14. ~ FiniEnd
  BY <1>3 DEF FiniEnd
<1>15. CASE UseAfterFree
  BY <1>6, <1>15 DEF UseAfterFree
<1> QED
  BY <1>7, <1>8, <1>9, <1>11, <1>12, <1>13, <1>14, <1>15 DEF PutNext

LEMMA PutInvariant ==
  PutSpec => [](PutInv \/ SpoiltInv)
<1>1. PutInit => PutInv
  BY PutInitInv
<1>2. (PutInv \/ SpoiltInv) /\ [PutNext]_putVars => (PutInv \/ SpoiltInv)'
  <2> SUFFICES ASSUME PutInv \/ SpoiltInv, [PutNext]_putVars
               PROVE  (PutInv \/ SpoiltInv)'
    OBVIOUS
  <2>1. CASE PutNext
    BY <2>1, PutStepInv, SpoiltBegins, SpoiltStays
  <2>2. CASE UNCHANGED putVars
    <3>0. PutTypeOK
      BY DEF PutInv, SpoiltInv
    <3>1. PutTypeOK' /\ Outstanding' = Outstanding /\ Ended' = Ended /\ SetList(List)
      BY <2>2, <3>0 DEF putVars, PutTypeOK, Outstanding, Ended, List, SetList
    <3>2. List \in Lists
      BY <3>0 DEF PutTypeOK, List, Lists
    <3>3. CASE PutInv
      <4>1. PICK rank \in Ranks : Linked(List, Outstanding, rank)
        BY <3>3 DEF PutInv
      <4> QED
        BY <2>2, <3>1, <3>3, <4>1, PutInvNext DEF putVars, PutInv
    <3>4. CASE SpoiltInv
      <4>1. PICK P \in SUBSET PutReq : Cut(List, P, Ended)
                                       /\ \A r \in P : put_status[r] # "new"
        BY <3>4 DEF SpoiltInv
      <4> QED
        BY <2>2, <3>1, <3>2, <3>4, <4>1, SpoiltInvNext DEF putVars, SpoiltInv
    <3> QED
      BY <3>3, <3>4
  <2> QED
    BY <2>1, <2>2
<1> QED
  BY <1>1, <1>2, PTL DEF PutSpec

(* Until a walk of dspaces_iput meets two complete neighbours, the list of *)
(* a client has the outstanding puts, each once, and its end, and no       *)
(* request is used after it was freed.                                     *)
THEOREM PutListIsKept ==
  PutSpec => []PutListKept
<1>1. PutInv => PutListSound /\ put_pc # "fault"
  <2> SUFFICES ASSUME PutInv
               PROVE  PutListSound
    BY DEF PutInv, PutTypeOK
  <2>1. PICK rank \in Ranks : Linked(List, Outstanding, rank)
    BY DEF PutInv
  <2>2. PICK P : P = Outstanding
    OBVIOUS
  <2>3. PICK c : c = Chain
    OBVIOUS
  <2>4. Enumerates(c, List, P)
    BY <2>1, <2>2, <2>3, ChainEnumerates DEF PutInv, Outstanding
  <2>5. put_reqs_end = IF c = << >> THEN NoReq ELSE Last(c)
    <3>1. CASE P = {}
      <4>1. c = << >>
        BY <2>4, <3>1 DEF Enumerates
      <4> QED
        BY <2>1, <2>2, <3>1, <4>1 DEF Linked, List
    <3>2. CASE P # {}
      <4>1. c # << >>
        BY <2>4, <3>2 DEF Enumerates, Range
      <4> QED
        BY <2>4, <3>2, <4>1 DEF Enumerates, Last, List
    <3> QED
      BY <3>1, <3>2
  <2> QED
    BY <2>2, <2>3, <2>4, <2>5 DEF PutListSound, Enumerates, Outstanding
<1>2. PutInv \/ SpoiltInv => PutListKept
  BY <1>1 DEF PutListKept, SpoiltInv
<1> QED
  BY <1>2, PutInvariant, PTL

(* dspaces_fini returns only when every put was answered, whatever has     *)
(* become of the list.                                                     *)
THEOREM FiniFollowsPuts ==
  PutSpec => []FiniAfterPuts
<1>1. PutInv \/ SpoiltInv => FiniAfterPuts
  BY DEF PutInv, SpoiltInv, FiniAfterPuts, Outstanding
<1> QED
  BY <1>1, PutInvariant, PTL
=============================================================================
