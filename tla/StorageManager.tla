--------------------------- MODULE StorageManager ---------------------------
(***************************************************************************)
(* The storage managers: the medium behind StorageInterface, which is on   *)
(* disk and outlives the process, and the RPC handlers.  Put, Get and      *)
(* Remove are one operation of the medium each; CopyFrom is two, with an   *)
(* RPC to the other manager before them, and nothing is locked between.    *)
(* The medium is RocksDB, which is safe for concurrent use.  The Redis     *)
(* medium, on which no program runs a manager, shares one context among    *)
(* all handlers without a lock, and is left out.                           *)
(*                                                                         *)
(* A handler answers OK whatever the medium says, so its status carries no *)
(* information and is left out.                                            *)
(***************************************************************************)
EXTENDS Protocol

CONSTANTS
  Values,     \* what callers put into files; "" is what a GetReply starts with
  Faulty,     \* managers whose medium may refuse a write
  OnDisk      \* manager -> files on its medium before the first start

VARIABLES
  store,          \* manager -> files on its medium (key -> value)
  manager_state,  \* manager -> state of its process
  work            \* thread -> what a manager has still to do for it

managerVars == <<store, manager_state, work>>

(* An RPC at a manager: a CopyFrom before its nested Get, what a CopyFrom  *)
(* or a Put writes, and a Remove.  The client of the thread may be gone.   *)
FetchWork(m, key, uri) == [pc |-> "fetch", at |-> m, key |-> key, from |-> uri]

WriteWork(m, key, value) == [pc |-> "write", at |-> m, key |-> key, value |-> value]

RemoveWork(m, key) == [pc |-> "remove", at |-> m, key |-> key]

NoWork == [pc |-> "none", at |-> [introduce_case |-> "not_set"]]

Contents == Values \cup {""}

Files == UNION {[K -> Contents] : K \in SUBSET Keys}

Work ==
  {NoWork} \cup [pc: {"fetch"}, at: Managers, key: Keys, from: Uris]
    \cup [pc: {"write"}, at: Managers, key: Keys, value: Contents]
    \cup [pc: {"remove"}, at: Managers, key: Keys]

ASSUME ManagerAssumption ==
  "" \notin Values /\ Faulty \subseteq Managers /\ OnDisk \in [Managers -> Files]

ManagerTypeOK ==
  /\ store \in [Managers -> Files]
  /\ manager_state \in [Managers -> {"stopped", "introducing", "serving"}]
  /\ work \in [Threads -> Work]

ManagerInit ==
  /\ store = OnDisk
  /\ manager_state = [m \in Managers |-> "stopped"]
  /\ work = [t \in Threads |-> NoWork]

(* The manager that listens at a uri, if one does. *)
ListeningAt(uri) == {m \in Managers : manager_state[m] = "serving" /\ Uri(m) = uri}

-----------------------------------------------------------------------------
(* StorageInterface.  A write may fail, which is logged and not reported.  *)

Write(m, files) ==
  \/ store' = [store EXCEPT ![m] = files]
  \/ m \in Faulty /\ UNCHANGED store

(* A read of a missing file leaves the reply's value empty.                *)
Read(m, key) == IF key \in DOMAIN store[m] THEN store[m][key] ELSE ""

-----------------------------------------------------------------------------
(* The handlers. *)

(* Mutant: a file that is there is not overwritten. *)
ManagerPutNew(m, key, value) ==
  Write(m, IF key \in DOMAIN store[m] THEN store[m] ELSE Bind(store[m], key, value))

ManagerPut(m, key, value) == Write(m, Bind(store[m], key, value))

ManagerRemove(m, key) == Write(m, Unbind(store[m], key))

ManagerGet(m, key) == Read(m, key)

(* CopyFrom pulls the file from the manager at dst_uri.  The nested Get    *)
(* does not wait for a server that is not there, and its status is not     *)
(* looked at: what was not received is the empty value.                    *)
Pulled(key, dst_uri) ==
  IF ListeningAt(dst_uri) = {} THEN {""} ELSE {Read(dst, key) : dst \in ListeningAt(dst_uri)}

(* Mutant: the file is read at the manager that wants it. *)
BeginCopyFromSelf(t, m, key, dst_uri) ==
  /\ work' = [work EXCEPT ![t] = WriteWork(m, key, Read(m, key))]
  /\ UNCHANGED <<store, manager_state>>

BeginCopyFrom(t, m, key, dst_uri) ==
  /\ \E value \in Pulled(key, dst_uri) : work' = [work EXCEPT ![t] = WriteWork(m, key, value)]
  /\ UNCHANGED <<store, manager_state>>

(* The work of an RPC whose client is gone begins or ends; EndWrite also   *)
(* ends a CopyFrom that a client waits for.                                *)
BeginFetch(t) ==
  /\ work[t].pc = "fetch"
  /\ BeginCopyFrom(t, work[t].at, work[t].key, work[t].from)

EndWrite(t) ==
  /\ work[t].pc = "write"
  /\ Write(work[t].at, Bind(store[work[t].at], work[t].key, work[t].value))
  /\ work' = [work EXCEPT ![t] = NoWork]
  /\ UNCHANGED manager_state

EndRemove(t) ==
  /\ work[t].pc = "remove"
  /\ Write(work[t].at, Unbind(store[work[t].at], work[t].key))
  /\ work' = [work EXCEPT ![t] = NoWork]
  /\ UNCHANGED manager_state

(* The process ends, and with it everything it was serving.  Nothing but   *)
(* the medium is left.                                                     *)
ManagerCrash(m) ==
  /\ manager_state[m] # "stopped"
  /\ manager_state' = [manager_state EXCEPT ![m] = "stopped"]
  /\ work' = [t \in Threads |-> IF work[t].at = m THEN NoWork ELSE work[t]]
  /\ UNCHANGED store

=============================================================================
