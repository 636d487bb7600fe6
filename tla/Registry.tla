------------------------------ MODULE Registry ------------------------------
(***************************************************************************)
(* Registrations: reg_rpc gives a request an id and runs "register" of the *)
(* built-in Python module ds_reg, which keeps the registrations in a       *)
(* database that outlives the server.  A server that starts again takes    *)
(* its first id from the database (bootstrap_id).                          *)
(*                                                                         *)
(* Handlers run in several threads.  Python's lock is released while       *)
(* SQLite works: the statements of Registry.Add of several handlers mix.   *)
(* A transaction begins with the first INSERT, which waits until no other  *)
(* transaction is open, and ends with the commit.                          *)
(*                                                                         *)
(* There is one server, of rank 0.  (With more, reg_rpc forwards a request *)
(* with the src it came with; each receiver takes it for one of a client   *)
(* and forwards it back.)                                                  *)
(***************************************************************************)
EXTENDS Naturals, FiniteSets, Sequences

CONSTANTS
  RegCall,         \* calls of dspaces_register_simple
  RegType, RegName,\* per call the type and the name of the registration
  Loaded,          \* the types that are modules of the server
  MaxRestarts,     \* bound: number of times the server starts again
  NoReg            \* no call

ASSUME RegistryAssumption ==
  /\ DOMAIN RegType = RegCall /\ DOMAIN RegName = RegCall
  /\ MaxRestarts \in Nat
  /\ NoReg \notin RegCall

VARIABLES
  local_reg_id,    \* the next id
  reg_pc,          \* per call where it is
  reg_id,          \* per call its id
  type_row,        \* per call the row of its type
  py_modules,      \* the keys of self.modules
  type_tab,        \* table "type": the committed rows' names
  registry,        \* table "registry": the committed rows
  txn,             \* the call with an open transaction, or NoReg
  restarts,        \* number of restarts so far
  overtaken        \* history: calls whose row another call had inserted first

regVars == <<local_reg_id, reg_pc, reg_id, type_row, py_modules, type_tab, registry, txn,
             restarts, overtaken>>

Ids == {r.id : r \in registry}

(* HighestIDBetween: 0 when the table is empty. *)
HighestID == IF Ids = {} THEN 0 ELSE CHOOSE i \in Ids : \A j \in Ids : j <= i

bootstrap_id_Highest == HighestID

bootstrap_id == HighestID + 1

RegInit ==
  /\ local_reg_id = 1
  /\ reg_pc = [c \in RegCall |-> "idle"]
  /\ reg_id = [c \in RegCall |-> 0]
  /\ type_row = [c \in RegCall |-> 0]
  /\ py_modules = {}
  /\ type_tab = << >>
  /\ registry = {}
  /\ txn = NoReg
  /\ restarts = 0
  /\ overtaken = {}

Goto(c, at) == reg_pc' = [reg_pc EXCEPT ![c] = at]

-----------------------------------------------------------------------------
Register(c) ==
  /\ reg_pc[c] = "idle"
  /\ Goto(c, "asked")
  /\ UNCHANGED <<local_reg_id, reg_id, type_row, py_modules, type_tab, registry, txn,
                 restarts, overtaken>>

(* route_registration looks for the module of the type before it calls     *)
(* "register".                                                             *)
route_registration(c) == IF RegType[c] \in Loaded THEN "add" ELSE "error"

(* reg_rpc: __sync_fetch_and_add, then route_registration. *)
reg_rpc(c) ==
  /\ reg_pc[c] = "asked"
  /\ reg_id' = [reg_id EXCEPT ![c] = local_reg_id]
  /\ local_reg_id' = local_reg_id + 1
  /\ Goto(c, route_registration(c))
  /\ UNCHANGED <<type_row, py_modules, type_tab, registry, txn, restarts, overtaken>>

(* Registry.Add: the type is one that this process has seen, or not. *)
AddStart(c) ==
  /\ reg_pc[c] = "add"
  /\ Goto(c, IF RegType[c] \in py_modules THEN "type" ELSE "new type")
  /\ UNCHANGED <<local_reg_id, reg_id, type_row, py_modules, type_tab, registry, txn,
                 restarts, overtaken>>

(* INSERT INTO type, and the module is imported. *)
InsertType(c) ==
  /\ reg_pc[c] = "new type"
  /\ txn = NoReg
  /\ txn' = c
  /\ type_row' = [type_row EXCEPT ![c] = Len(type_tab) + 1]
  /\ py_modules' = py_modules \cup {RegType[c]}
  /\ Goto(c, "validate")
  /\ UNCHANGED <<local_reg_id, reg_id, type_tab, registry, restarts, overtaken>>

(* SELECT id FROM type: the first row of the name.  There may be none that *)
(* is committed.                                                           *)
SelectType(c) ==
  /\ reg_pc[c] = "type"
  /\ LET rows == {i \in DOMAIN type_tab : type_tab[i] = RegType[c]} IN
     IF rows = {} THEN Goto(c, "error") /\ UNCHANGED type_row
     ELSE /\ type_row' = [type_row EXCEPT ![c] = CHOOSE i \in rows : \A j \in rows : i <= j]
          /\ Goto(c, "validate")
  /\ UNCHANGED <<local_reg_id, reg_id, py_modules, type_tab, registry, txn, restarts, overtaken>>

(* The module rejects the data: an exception, and the connection is closed *)
(* without a commit.                                                       *)
Reject(c) ==
  /\ reg_pc[c] = "validate"
  /\ txn' = IF txn = c THEN NoReg ELSE txn
  /\ Goto(c, "error")
  /\ UNCHANGED <<local_reg_id, reg_id, type_row, py_modules, type_tab, registry, restarts, overtaken>>

Rows(c) == {r \in registry : r.type = type_row[c] /\ r.name = RegName[c]}

(* SELECT id FROM registry: the id of a row that is there replaces that of *)
(* the call.                                                               *)
SelectRow(c) ==
  /\ reg_pc[c] = "validate"
  /\ IF Rows(c) = {} THEN Goto(c, "insert") /\ UNCHANGED reg_id
     ELSE /\ reg_id' = [reg_id EXCEPT ![c] = (CHOOSE r \in Rows(c) : TRUE).id]
          /\ Goto(c, "done")
  /\ UNCHANGED <<local_reg_id, type_row, py_modules, type_tab, registry, txn, restarts, overtaken>>

(* INSERT INTO registry ... ON CONFLICT DO NOTHING, and the commit. *)
InsertRow(c) ==
  /\ reg_pc[c] = "insert"
  /\ txn \in {NoReg, c}
  /\ registry' = IF Rows(c) # {} \/ reg_id[c] \in Ids THEN registry
                 ELSE registry \cup {[id |-> reg_id[c], type |-> type_row[c], name |-> RegName[c]]}
  /\ overtaken' = IF Rows(c) # {} THEN overtaken \cup {c} ELSE overtaken
  /\ type_tab' = IF txn = c THEN Append(type_tab, RegType[c]) ELSE type_tab
  /\ txn' = NoReg
  /\ Goto(c, "done")
  /\ UNCHANGED <<local_reg_id, reg_id, type_row, py_modules, restarts>>

(* The server stops, with handlers at any point, and starts again:         *)
(* Registry.__init__, dspaces_init_registry.                               *)
Restart ==
  /\ restarts < MaxRestarts
  /\ restarts' = restarts + 1
  /\ reg_pc' = [c \in RegCall |-> IF reg_pc[c] \in {"idle", "done", "error"} THEN reg_pc[c]
                                  ELSE "lost"]
  /\ txn' = NoReg
  /\ py_modules' = {type_tab[i] : i \in DOMAIN type_tab}
  /\ local_reg_id' = bootstrap_id
  /\ UNCHANGED <<reg_id, type_row, type_tab, registry, overtaken>>

RegNext ==
  \/ \E c \in RegCall : \/ Register(c) \/ reg_rpc(c) \/ AddStart(c) \/ InsertType(c)
                        \/ SelectType(c) \/ Reject(c) \/ SelectRow(c) \/ InsertRow(c)
  \/ Restart

-----------------------------------------------------------------------------
(* An id that a client was given is, from then on, that of a row with the  *)
(* name and the type it registered, whatever handlers ran meanwhile and    *)
(* however often the server was restarted; unless another handler inserted *)
(* the same name between the SELECT and the INSERT of its own, when the    *)
(* client is given an id that is in no row (reg_rpc, Registry.Add,         *)
(* bootstrap_id).                                                          *)
RegisteredIdExact ==
  \A c \in RegCall \ overtaken :
    reg_pc[c] = "done" =>
      \E r \in registry : /\ r.id = reg_id[c] /\ r.name = RegName[c]
                          /\ type_tab[r.type] = RegType[c]
=============================================================================
