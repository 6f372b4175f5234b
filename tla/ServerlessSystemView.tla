------------------------ MODULE ServerlessSystemView ------------------------
(***************************************************************************)
(* The scheduler's view of the system: the engines that introduced         *)
(* themselves, and what GetView replies say about the storage on their     *)
(* hosts.  Every operation modelled here takes system_mutex and is one     *)
(* step.  GetEphemeralStorageView, the one public function that takes no   *)
(* lock and may run inside any of them, has no caller and is left out.     *)
(*                                                                         *)
(* An engine is named by its uri; NoName is the empty string.  operator[]  *)
(* of a map makes the entries it does not find: a host without an engine   *)
(* is mapped to the engine NoName, and there may be a state for it.        *)
(***************************************************************************)
EXTENDS Protocol, Integers, FiniteSets

CONSTANTS
  Engines,      \* the SchedulerIntroduceRequests of the execution engines
  MasterViews   \* the replies of the master to GetView

VARIABLES
  client_uri_to_engine,
  hostname_to_engine,
  engine_to_state,
  mgr_to_keys,
  persistant_key_to_mgr

viewVars == <<client_uri_to_engine, hostname_to_engine, engine_to_state, mgr_to_keys,
              persistant_key_to_mgr>>

NoName == <<>>

Hostname(uri) == uri[1]

EngineNames == {i.rpc_uri : i \in Engines} \cup {NoName}

EngineStates ==
  [name: EngineNames,
   client_name: {GenerateName(c) : c \in Clients} \cup {NoName},
   ephemeral_name: {GenerateName(m) : m \in Managers} \cup {NoName},
   running_tasks: Nat,
   maximum_tasks: Int]

(* A reply to GetView maps the managers it shows to their files, and has a *)
(* list of clients.  A name is shown once.                                 *)
Replies ==
  [view: UNION {[M -> SUBSET Keys] : M \in SUBSET Managers}, client: SUBSET Clients]

ASSUME EnginesAssumption ==
  \A i \in Engines : i.rpc_uri # NoName /\ i.maximum_tasks \in Int

ASSUME RepliesAssumption ==
  \A r \in MasterViews :
    /\ r \in Replies
    /\ \A m, n \in DOMAIN r.view : GenerateName(m) = GenerateName(n) => m = n

ViewInit ==
  /\ client_uri_to_engine = EmptyMap
  /\ hostname_to_engine = EmptyMap
  /\ engine_to_state = EmptyMap
  /\ mgr_to_keys = EmptyMap
  /\ persistant_key_to_mgr = EmptyMap

-----------------------------------------------------------------------------
EngineState(name, maximum) ==
  [name |-> name, client_name |-> NoName, ephemeral_name |-> NoName,
   running_tasks |-> 0, maximum_tasks |-> maximum]

(* Mutant: the check of the names, without that of the capacity and of the *)
(* engine's own name.                                                      *)
AvailableOnceMatched(s) == s.client_name # NoName /\ s.ephemeral_name # NoName

AvailableToSchedule(s) ==
  /\ s.running_tasks < s.maximum_tasks
  /\ s.name # NoName /\ s.client_name # NoName /\ s.ephemeral_name # NoName

(* operator[] of engine_to_state and hostname_to_engine. *)
StateOf(e) == IF e \in DOMAIN engine_to_state THEN engine_to_state[e] ELSE EngineState(NoName, -1)

EngineOn(host) ==
  IF host \in DOMAIN hostname_to_engine THEN hostname_to_engine[host] ELSE NoName

AddExecutionEngine(i) ==
  /\ hostname_to_engine' = Bind(hostname_to_engine, Hostname(i.rpc_uri), i.rpc_uri)
  /\ engine_to_state' =
       Bind(engine_to_state, i.rpc_uri, EngineState(i.rpc_uri, i.maximum_tasks))
  /\ client_uri_to_engine' = Bind(client_uri_to_engine, i.client_rpc_uri, i.rpc_uri)
  /\ UNCHANGED <<mgr_to_keys, persistant_key_to_mgr>>

-----------------------------------------------------------------------------
(* ParseGetViewReply. *)

EngineFor(peer) == EngineOn(Hostname(Uri(peer)))

IsEphemeral(m) == m.storage_name = "EPHEMERAL"

EphemeralIn(r) == {m \in DOMAIN r.view : IsEphemeral(m)}

(* Whatever is not ephemeral is taken to be persistent. *)
PersistentIn(r) == DOMAIN r.view \ EphemeralIn(r)

PersistentKeys(r) == UNION {r.view[m] : m \in PersistentIn(r)}

(* Where peers of a reply belong to one engine, or managers have one key,  *)
(* the last of the reply is kept: any of them, as the master's maps have   *)
(* no order.                                                               *)
Keeps(last, engines, peers) ==
  last \in [engines -> peers] /\ \A e \in engines : EngineFor(last[e]) = e

NameKept(last, e, old) == IF e \in DOMAIN last THEN GenerateName(last[e]) ELSE old

(* Mutant: the state of an engine is made anew from the reply. *)
MatchedAnew(e, ephemeral, client) ==
  [StateOf(e) EXCEPT !.ephemeral_name = NameKept(ephemeral, e, NoName),
                     !.client_name = NameKept(client, e, NoName)]

Matched(e, ephemeral, client) ==
  [StateOf(e) EXCEPT !.ephemeral_name = NameKept(ephemeral, e, @),
                     !.client_name = NameKept(client, e, @)]

ParseGetViewReply(r) ==
  LET hosts == {Hostname(Uri(p)) : p \in DOMAIN r.view \cup r.client}
      with_manager == {EngineFor(m) : m \in EphemeralIn(r)}
      with_client == {EngineFor(c) : c \in r.client}
      shown == {GenerateName(m) : m \in DOMAIN r.view} IN
  /\ hostname_to_engine' = [h \in DOMAIN hostname_to_engine \cup hosts |-> EngineOn(h)]
  /\ \E ephemeral \in [with_manager -> EphemeralIn(r)], client \in [with_client -> r.client] :
       /\ Keeps(ephemeral, with_manager, EphemeralIn(r))
       /\ Keeps(client, with_client, r.client)
       /\ engine_to_state' =
            [e \in DOMAIN engine_to_state \cup with_manager \cup with_client |->
               Matched(e, ephemeral, client)]
  /\ \E mgr \in [PersistentKeys(r) -> PersistentIn(r)] :
       /\ \A key \in PersistentKeys(r) : key \in r.view[mgr[key]]
       /\ persistant_key_to_mgr' =
            [key \in DOMAIN persistant_key_to_mgr \cup PersistentKeys(r) |->
               IF key \in PersistentKeys(r) THEN GenerateName(mgr[key])
               ELSE persistant_key_to_mgr[key]]
  /\ mgr_to_keys' =
       [n \in DOMAIN mgr_to_keys \cup shown |->
          IF n \in shown THEN UNION {r.view[m] : m \in {p \in DOMAIN r.view : GenerateName(p) = n}}
          ELSE mgr_to_keys[n]]
  /\ UNCHANGED client_uri_to_engine

-----------------------------------------------------------------------------
(* Mutant: only engines that are known are counted. *)
TasksScheduledAtKnown(decisions) ==
  /\ engine_to_state' =
       [e \in DOMAIN engine_to_state |->
          [engine_to_state[e] EXCEPT !.running_tasks =
             @ + Cardinality({i \in DOMAIN decisions : decisions[i].engine = e})]]
  /\ UNCHANGED <<client_uri_to_engine, hostname_to_engine, mgr_to_keys, persistant_key_to_mgr>>

TasksScheduled(decisions) ==
  /\ engine_to_state' =
       [e \in DOMAIN engine_to_state \cup {decisions[i].engine : i \in DOMAIN decisions} |->
          [StateOf(e) EXCEPT !.running_tasks =
             @ + Cardinality({i \in DOMAIN decisions : decisions[i].engine = e})]]
  /\ UNCHANGED <<client_uri_to_engine, hostname_to_engine, mgr_to_keys, persistant_key_to_mgr>>

GetSchedulableEngines ==
  {e \in DOMAIN engine_to_state : AvailableToSchedule(engine_to_state[e])}

(* The locked queries that use at() have an answer. *)
HasEngineState(e) == e \in DOMAIN engine_to_state

HasPersistentMgrForFile(file) == file \in DOMAIN persistant_key_to_mgr

HasPersistentMgrForPut == DOMAIN persistant_key_to_mgr # {}

-----------------------------------------------------------------------------
ViewTypeOK ==
  /\ client_uri_to_engine \in [DOMAIN client_uri_to_engine -> EngineNames]
  /\ hostname_to_engine \in [DOMAIN hostname_to_engine -> EngineNames]
  /\ DOMAIN engine_to_state \subseteq EngineNames
  /\ engine_to_state \in [DOMAIN engine_to_state -> EngineStates]
  /\ mgr_to_keys \in [DOMAIN mgr_to_keys -> SUBSET Keys]
  /\ DOMAIN persistant_key_to_mgr \subseteq Keys
  /\ persistant_key_to_mgr \in
       [DOMAIN persistant_key_to_mgr -> {GenerateName(m) : m \in Managers}]

(* Introductions and views come in any order, and the view of a host that  *)
(* has no engine yet goes to the nameless one.  Whatever the order, an     *)
(* engine the scheduler is given has introduced itself, and its client and *)
(* its ephemeral manager are on its own host (serverless_system_view.cc:   *)
(* AddExecutionEngine, ParseGetViewReply).                                 *)
ClientOf(e) ==
  \E c \in Clients : Hostname(Uri(c)) = Hostname(e) /\ engine_to_state[e].client_name = GenerateName(c)

ManagerOf(e) ==
  \E m \in Managers : /\ IsEphemeral(m) /\ Hostname(Uri(m)) = Hostname(e)
                      /\ engine_to_state[e].ephemeral_name = GenerateName(m)

SchedulableEnginesAreComplete ==
  \A e \in GetSchedulableEngines :
    /\ \E i \in Engines : i.rpc_uri = e
    /\ ClientOf(e) /\ ManagerOf(e)

(* The invariant behind it, for engines that are not complete yet.  What   *)
(* the nameless engine was told is told to no other: a host is mapped to   *)
(* it, or to an engine on that host.                                       *)
HostInv ==
  \A h \in DOMAIN hostname_to_engine :
    LET e == hostname_to_engine[h] IN e # NoName => Hostname(e) = h /\ HasEngineState(e)

EngineInv(e) ==
  LET s == engine_to_state[e] IN
  /\ s.name = e
  /\ e # NoName => s.client_name = NoName \/ ClientOf(e)
  /\ e # NoName => s.ephemeral_name = NoName \/ ManagerOf(e)

ViewInv == ViewTypeOK /\ HostInv /\ \A e \in DOMAIN engine_to_state : EngineInv(e)

=============================================================================
