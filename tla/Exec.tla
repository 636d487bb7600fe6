-------------------------------- MODULE Exec --------------------------------
(***************************************************************************)
(* Remote execution: dspaces_pexec and dspaces_mpexec send a function to a *)
(* server, which routes the arguments through its modules, collects them   *)
(* from local storage and calls the function (pexec_rpc, mpexec_rpc).      *)
(*                                                                         *)
(* A result stays with the handler until the client has pulled it.  The    *)
(* handler makes a mutex and a condition on its stack, answers with their  *)
(* addresses and waits; the client then sends these addresses back, and    *)
(* cond_rpc signals the condition.                                         *)
(*                                                                         *)
(* Each handler has an execution stream of its own.  A client may fail     *)
(* after it was answered; the server's own calls of margo do not fail.     *)
(* When the function cannot be loaded, mpexec_rpc answers and destroys its *)
(* handle a second time: the client sees the first answer.  pexec_rpc then *)
(* answers with an out that it has not initialised.  On a stack that an    *)
(* earlier handler has used, this out may be the earlier answer: its       *)
(* result is still there, and is pulled, but the addresses in it are now   *)
(* those of nothing, or of the mutex and the condition of a third handler. *)
(***************************************************************************)
EXTENDS Naturals, Sequences

CONSTANTS
  ExecCall,       \* calls of dspaces_pexec and dspaces_mpexec
  Multi,          \* those of dspaces_mpexec
  Args,           \* per call its sequence of arguments
  Argument,       \* data that calls ask for
  Module,         \* the arguments whose name starts with a module's namespace
  NoCall          \* nobody

ASSUME ExecAssumption ==
  /\ Multi \subseteq ExecCall
  /\ Args \in [ExecCall -> Seq(Argument)]
  /\ \A c \in ExecCall : Args[c] # << >> /\ (c \notin Multi => Len(Args[c]) = 1)
  /\ Module \subseteq Argument
  /\ NoCall \notin ExecCall

VARIABLES
  exec_client,    \* per call where the client is
  exec_pc,        \* per call where pexec_rpc or mpexec_rpc is
  arg,            \* per call the index of the argument it works on
  answer,         \* per call what the server has answered
  cond_pc,        \* per call where cond_rpc is
  mtx,            \* per call who holds the exec_pc's mutex
  target,         \* per call the one whose mutex cond_rpc has locked
  gil,            \* the call that never released Python's lock, or NoCall
  local,          \* the arguments in local storage
  down            \* the server has crashed

execVars == <<exec_client, exec_pc, arg, answer, cond_pc, mtx, target, gil, local, down>>

ExecInit ==
  /\ exec_client = [c \in ExecCall |-> "idle"]
  /\ exec_pc = [c \in ExecCall |-> "none"]
  /\ arg = [c \in ExecCall |-> 1]
  /\ answer = [c \in ExecCall |-> "none"]
  /\ cond_pc = [c \in ExecCall |-> "none"]
  /\ mtx = [c \in ExecCall |-> "none"]
  /\ target = [c \in ExecCall |-> NoCall]
  /\ gil = NoCall
  /\ local = {}
  /\ down = FALSE

To(c, at) == exec_pc' = [exec_pc EXCEPT ![c] = at]

(* PyGILState_Ensure: the thread that holds the lock may take it again. *)
PyGILState_Ensure(c) == gil \in {NoCall, c}

-----------------------------------------------------------------------------
(* Another client puts an argument. *)
PutArgument(o) ==
  /\ o \notin local
  /\ local' = local \cup {o}
  /\ UNCHANGED <<exec_client, exec_pc, arg, answer, cond_pc, mtx, target, gil, down>>

(* dspaces_pexec, dspaces_mpexec: margo_forward *)
Call(c) ==
  /\ exec_client[c] = "idle"
  /\ exec_client' = [exec_client EXCEPT ![c] = "waiting"]
  /\ UNCHANGED <<exec_pc, arg, answer, cond_pc, mtx, target, gil, local, down>>

(* The handler gets its input and pulls the function. *)
ReceiveCall(c) ==
  /\ exec_client[c] = "waiting"
  /\ exec_pc[c] = "none"
  /\ To(c, "route")
  /\ UNCHANGED <<exec_client, arg, answer, cond_pc, mtx, target, gil, local, down>>

(* The module of an argument, by the first part of its name. *)
dspaces_mod_by_od(o) == o \in Module

(* What becomes of the module's answer: the array is stored, unless it is  *)
(* none, has another element size, or is an error, which handlers ignore.  *)
py_res_to_ret(o) == {local, local \cup {o}}

(* The module runs "query".  Python's lock is not released when the module *)
(* or its operation is missing.                                            *)
dspaces_module_py_exec(c, o) ==
  /\ PyGILState_Ensure(c)
  /\ \/ local' \in py_res_to_ret(o) /\ UNCHANGED gil
     \/ gil' = c /\ UNCHANGED local

route_request(c) ==
  /\ exec_pc[c] = "route"
  /\ LET o == Args[c][arg[c]] IN
     \/ ~ dspaces_mod_by_od(o) /\ UNCHANGED <<gil, local>>
     \/ dspaces_mod_by_od(o) /\ dspaces_module_py_exec(c, o)
  /\ To(c, "search")
  /\ UNCHANGED <<exec_client, arg, answer, cond_pc, mtx, target, down>>

(* The argument is put together from local storage, under ls_mutex. *)
FindArgument(c) ==
  /\ exec_pc[c] = "search"
  /\ Args[c][arg[c]] \in local
  /\ IF arg[c] < Len(Args[c])
     THEN arg' = [arg EXCEPT ![c] = @ + 1] /\ To(c, "route")
     ELSE UNCHANGED arg /\ To(c, "python")
  /\ UNCHANGED <<exec_client, answer, cond_pc, mtx, target, gil, local, down>>

MissArgument(c) ==
  /\ exec_pc[c] = "search"
  /\ Args[c][arg[c]] \notin local
  /\ answer' = [answer EXCEPT ![c] = "empty"]
  /\ To(c, "done")
  /\ UNCHANGED <<exec_client, arg, cond_pc, mtx, target, gil, local, down>>

(* The function cannot be loaded. *)
BadFunction(c) ==
  /\ exec_pc[c] = "python"
  /\ PyGILState_Ensure(c)
  /\ answer' = [answer EXCEPT ![c] = IF c \in Multi THEN "empty" ELSE "garbage"]
  /\ To(c, "done")
  /\ UNCHANGED <<exec_client, arg, cond_pc, mtx, target, gil, local, down>>

(* The out that was not initialised is not even a handle to be sent. *)
AnswerFaults(c) ==
  /\ exec_pc[c] = "python"
  /\ c \notin Multi
  /\ PyGILState_Ensure(c)
  /\ down' = TRUE
  /\ UNCHANGED <<exec_client, exec_pc, arg, answer, cond_pc, mtx, target, gil, local>>

(* The function raises, or returns None. *)
NoResult(c) ==
  /\ exec_pc[c] = "python"
  /\ PyGILState_Ensure(c)
  /\ answer' = [answer EXCEPT ![c] = "empty"]
  /\ To(c, "release")
  /\ UNCHANGED <<exec_client, arg, cond_pc, mtx, target, gil, local, down>>

Result_Unlocked(c) ==
  /\ exec_pc[c] = "python"
  /\ PyGILState_Ensure(c)
  /\ mtx' = [mtx EXCEPT ![c] = "nobody"]
  /\ answer' = [answer EXCEPT ![c] = "result"]
  /\ To(c, "answered")
  /\ UNCHANGED <<exec_client, arg, cond_pc, target, gil, local, down>>

(* A result: the mutex is made and locked before the answer is sent. *)
Result(c) ==
  /\ exec_pc[c] = "python"
  /\ PyGILState_Ensure(c)
  /\ mtx' = [mtx EXCEPT ![c] = "handler"]
  /\ answer' = [answer EXCEPT ![c] = "result"]
  /\ To(c, "answered")
  /\ UNCHANGED <<exec_client, arg, cond_pc, target, gil, local, down>>

(* ABT_cond_wait *)
CondWait(c) ==
  /\ exec_pc[c] = "answered"
  /\ mtx[c] \in {"handler", "nobody"}
  /\ mtx' = [mtx EXCEPT ![c] = "nobody"]
  /\ To(c, "asleep")
  /\ UNCHANGED <<exec_client, arg, answer, cond_pc, target, gil, local, down>>

Wake_WithoutMutex(c) ==
  /\ exec_pc[c] = "awake"
  /\ mtx' = [mtx EXCEPT ![c] = "freed"]
  /\ To(c, "release")
  /\ UNCHANGED <<exec_client, arg, answer, cond_pc, target, gil, local, down>>

(* ABT_cond_wait returns with the mutex; the handler unlocks and frees it. *)
Wake(c) ==
  /\ exec_pc[c] = "awake"
  /\ mtx[c] = "nobody"
  /\ mtx' = [mtx EXCEPT ![c] = "freed"]
  /\ To(c, "release")
  /\ UNCHANGED <<exec_client, arg, answer, cond_pc, target, gil, local, down>>

(* The arrays are released. *)
Release(c) ==
  /\ exec_pc[c] = "release"
  /\ PyGILState_Ensure(c)
  /\ To(c, "done")
  /\ UNCHANGED <<exec_client, arg, answer, cond_pc, mtx, target, gil, local, down>>

-----------------------------------------------------------------------------
(* The client reads the answer.  One that was not initialised is empty,    *)
(* fails to be transferred, or is that of a handler that has ended.        *)
GetOutput(c) ==
  /\ exec_client[c] = "waiting"
  /\ \/ answer[c] \in {"empty", "garbage"} /\ exec_client' = [exec_client EXCEPT ![c] = "done"]
     \/ answer[c] = "garbage" /\ exec_client' = [exec_client EXCEPT ![c] = "failed"]
     \/ /\ \/ answer[c] = "result"
           \/ answer[c] = "garbage" /\ \E d \in ExecCall : mtx[d] = "freed"
        /\ exec_client' = [exec_client EXCEPT ![c] = "pulling"]
  /\ UNCHANGED <<exec_pc, arg, answer, cond_pc, mtx, target, gil, local, down>>

(* The result is pulled and cond_rpc sent with the addresses in it. *)
Pull(c) ==
  /\ exec_client[c] = "pulling"
  /\ ~ down
  /\ exec_client' = [exec_client EXCEPT ![c] = "done"]
  /\ cond_pc' = [cond_pc EXCEPT ![c] = "sent"]
  /\ UNCHANGED <<exec_pc, arg, answer, mtx, target, gil, local, down>>

(* Any of these fails: the server is not told. *)
PullFails(c) ==
  /\ exec_client[c] = "pulling"
  /\ exec_client' = [exec_client EXCEPT ![c] = "failed"]
  /\ UNCHANGED <<exec_pc, arg, answer, cond_pc, mtx, target, gil, local, down>>

(* The calls whose handler has a mutex. *)
Alive == {d \in ExecCall : mtx[d] \notin {"none", "freed"}}

(* Whether the call's own mutex is the one that its cond_rpc names. *)
NamesItsOwn(c) == answer[c] = "result" /\ c \in Alive

(* cond_rpc: ABT_mutex_lock, ABT_cond_signal, which wakes the handler if   *)
(* it sleeps, and ABT_mutex_unlock.  Any live mutex may be where an old    *)
(* address leads.                                                          *)
CondLock(c) ==
  /\ cond_pc[c] = "sent"
  /\ \E d \in Alive :
       /\ NamesItsOwn(c) => d = c
       /\ mtx[d] = "nobody"
       /\ mtx' = [mtx EXCEPT ![d] = "cond"]
       /\ target' = [target EXCEPT ![c] = d]
  /\ cond_pc' = [cond_pc EXCEPT ![c] = "locked"]
  /\ UNCHANGED <<exec_client, exec_pc, arg, answer, gil, local, down>>

(* No mutex is at the address any more: the calls of Argobots refuse the   *)
(* null that is left of it, or fault on what has been written there since. *)
CondAstray(c) ==
  /\ cond_pc[c] = "sent"
  /\ ~ NamesItsOwn(c)
  /\ cond_pc' = [cond_pc EXCEPT ![c] = "done"]
  /\ down' \in BOOLEAN
  /\ UNCHANGED <<exec_client, exec_pc, arg, answer, mtx, target, gil, local>>

CondSignal(c) ==
  /\ cond_pc[c] = "locked"
  /\ cond_pc' = [cond_pc EXCEPT ![c] = "signalled"]
  /\ exec_pc' = [exec_pc EXCEPT ![target[c]] = IF @ = "asleep" THEN "awake" ELSE @]
  /\ UNCHANGED <<exec_client, arg, answer, mtx, target, gil, local, down>>

CondUnlock(c) ==
  /\ cond_pc[c] = "signalled"
  /\ mtx' = [mtx EXCEPT ![target[c]] = "nobody"]
  /\ cond_pc' = [cond_pc EXCEPT ![c] = "done"]
  /\ UNCHANGED <<exec_client, exec_pc, arg, answer, target, gil, local, down>>

-----------------------------------------------------------------------------
ServerStep(c) ==
  \/ ReceiveCall(c) \/ route_request(c) \/ FindArgument(c) \/ MissArgument(c)
  \/ BadFunction(c) \/ AnswerFaults(c) \/ NoResult(c) \/ Result(c)
  \/ CondWait(c) \/ Wake(c) \/ Release(c)

CondStep(c) == CondLock(c) \/ CondAstray(c) \/ CondSignal(c) \/ CondUnlock(c)

ClientStep(c) == GetOutput(c) \/ Pull(c) \/ PullFails(c)

ExecNext ==
  \/ \E o \in Argument : PutArgument(o)
  \/ \E c \in ExecCall : \/ Call(c) \/ ClientStep(c)
                         \/ ~ down /\ (ServerStep(c) \/ CondStep(c))

ExecSpec == ExecInit /\ [][ExecNext]_execVars

(* Argobots runs every handler that can run, and a client whose call has   *)
(* been answered goes on.                                                  *)
ExecFairness ==
  WF_execVars(\E c \in ExecCall : \/ ClientStep(c)
                                  \/ ~ down /\ (ServerStep(c) \/ CondStep(c)))

-----------------------------------------------------------------------------
(* The calls that were answered with an out that was not initialised, have *)
(* pulled what it names and have sent the addresses in it.                 *)
Strays == {c \in ExecCall : answer[c] = "garbage" /\ cond_pc[c] # "none"}

(* Unless a client has sent back addresses out of an answer that pexec_rpc *)
(* did not initialise, the addresses in cond_rpc are those of the mutex    *)
(* and the condition of the call's own handler, which has not yet freed    *)
(* them, from the time the request is sent until the mutex is unlocked     *)
(* (cond_rpc, pexec_rpc, mpexec_rpc).                                      *)
CondTargetsAlive ==
  Strays = {} =>
    \A c \in ExecCall : /\ cond_pc[c] \in {"sent", "locked", "signalled"} => c \in Alive
                        /\ cond_pc[c] \in {"locked", "signalled"} => target[c] = c

(* Every call comes to its end at the client and, unless the client has    *)
(* failed, at the server, which then sleeps on no condition, unless some   *)
(* call never released Python's lock or an uninitialised answer has        *)
(* brought the server down (pexec_rpc, cond_rpc).                          *)
ExecReleased ==
  \A c \in ExecCall :
    (exec_client[c] # "idle") ~> \/ exec_client[c] = "done" /\ exec_pc[c] = "done"
                                 \/ exec_client[c] = "failed"
                                 \/ gil # NoCall
                                 \/ down
=============================================================================
